------------------------- MODULE MarketProgramProofs -------------------------
(***************************************************************************)
(* Theorems about MarketProgram for any users, amounts, markets, positions *)
(* and transactions in flight.                                             *)
(***************************************************************************)
EXTENDS MarketProgram, SumTheorems, TLAPS

\* What the arguments of a transaction in flight are
WellFormed(tx) ==
    /\ tx.kind = "initialize" => tx.amount \in Amount
    /\ tx.kind = "create_market" =>
        /\ tx.index < MAX_MARKETS /\ tx.probabilities \in Probabilities
        /\ tx.window \in Window /\ tx.bonding_k \in BondingK
    /\ tx.kind = "update_probabilities" => tx.probabilities \in Probabilities
    /\ tx.kind = "settle_market" => tx.outcome \in Outcome
    /\ tx.kind = "take_position" =>
        /\ tx.user \in User /\ tx.outcome \in Outcome /\ tx.long \in BOOLEAN
        /\ tx.amount \in Amount
    /\ tx.kind = "stake_pool" => tx.amount \in Amount
    /\ tx.kind \in {"register_agent_user", "deploy_agent"} => tx.user \in User

SentInv == \A tx \in inFlight : WellFormed(tx)

Balances ==
    /\ now \in 0..MAX_TIME /\ live \in BOOLEAN /\ vault \in Nat
    /\ pool_balance = vault
    /\ pool_balance \in 0..U64 /\ total_agents \in 0..U64
    /\ registry \in [User -> -1 .. MAX_FREE_DEPLOYS]
    /\ pool = [m \in Pubkey |-> ZeroPool]

Records ==
    /\ market \in Seq(Market) /\ Len(market) <= MAX_MARKETS /\ Fits(Len(market))
    /\ position \in Seq(Position) /\ Fits(Len(position))

\* A position is on a market that exists, was opened in its competition and
\* before its outcome, pays something, and was never claimed.
PositionInv ==
    \A i \in DOMAIN position :
        /\ position[i].market \in DOMAIN market
        /\ position[i].amount >= MIN_POSITION_AMOUNT
        /\ ~position[i].is_claimed
        /\ position[i].created_at <= now

Started == ~live => vault = 0 /\ market = <<>>

LedgerInv == Balances /\ Records /\ PositionInv /\ Started

IInv == SentInv /\ LedgerInv

-----------------------------------------------------------------------------
LEMMA Constants ==
    /\ U64 \in Nat /\ MAX_TIME \in Nat /\ MAX_MARKETS \in Nat /\ MAX_FREE_DEPLOYS \in Nat
    /\ MIN_POSITION_AMOUNT \in Nat /\ MIN_POSITION_AMOUNT > 1 /\ POOL_MULTIPLIER \in Nat
    /\ PROBABILITY_DECIMALS \in Nat \ {0} /\ BONDING_PRECISION \in Nat \ {0}
    /\ Outcome \subseteq 1..3 /\ Probabilities \subseteq Nat \X Nat \X Nat
    /\ Window \subseteq Int \X Int /\ Amount \subseteq 0..U64 /\ BondingK \subseteq 0..U64
  BY ConstantsAssumption DEF ConstantsAssumption

LEMMA MarketFields ==
    ASSUME NEW x \in Market
    PROVE  /\ x.probabilities \in Nat \X Nat \X Nat /\ x.bonding_k \in 0..U64
           /\ x.bonding_k \in Nat /\ x.total_positions \in Nat /\ x.total_volume \in Nat
           /\ x.settled_at \in Nat
           /\ x.window[1] \in Int /\ x.window[2] \in Int /\ x.status \in {"Active", "Settled"}
  BY Constants DEF Market

LEMMA PositionFields ==
    ASSUME NEW x \in Position
    PROVE  /\ x.entry_probability \in Nat /\ x.amount \in Nat /\ x.created_at \in Nat
           /\ x.outcome \in 1..3 /\ x.market \in Pubkey /\ x.is_claimed \in BOOLEAN
<1>1. /\ x.entry_probability \in Nat /\ x.amount \in 0..U64 /\ x.created_at \in Nat
      /\ x.outcome \in Outcome /\ x.market \in Pubkey /\ x.is_claimed \in BOOLEAN
  BY DEF Position
<1>2. x.outcome \in 1..3
  BY <1>1, Constants
<1>3. x.amount \in Nat
  BY <1>1, Constants
<1>. QED BY <1>1, <1>2, <1>3

LEMMA ProbabilityType ==
    ASSUME NEW x \in Market, NEW o \in 1..3
    PROVE  x.probabilities[o] \in Nat
<1>1. x.probabilities \in Nat \X Nat \X Nat
  BY MarketFields
<1>2. o = 1 \/ o = 2 \/ o = 3
  OBVIOUS
<1>. QED BY <1>1, <1>2

LEMMA AmountType == \A a \in Amount : a \in Nat /\ a \in 0..U64
  BY Constants

LEMMA OutcomeType == \A o \in Outcome : o \in 1..3 /\ o \in 0..3
<1>1. Outcome \subseteq 1..3
  BY Constants
<1>. QED BY <1>1

LEMMA SetMarket ==
    ASSUME Records, PositionInv, NEW i \in DOMAIN market, NEW m \in Market,
           market' = [market EXCEPT ![i] = m], UNCHANGED <<now, position>>
    PROVE  Records' /\ PositionInv'
<1>1. market' \in Seq(Market) /\ Len(market') = Len(market) /\ DOMAIN market' = DOMAIN market
  BY DEF Records
<1>. QED BY <1>1 DEF Records, PositionInv

LEMMA SendWellFormed ==
    ASSUME SentInv, NEW tx \in Transactions, Send(tx)
    PROVE  SentInv'
<1>1. WellFormed(tx)
  <2>1. market' = market
    BY DEF Send, accounts
  <2>2. tx.kind = "create_market" => tx.index < MAX_MARKETS
    <3>1. tx.kind = "create_market" => Len(market) < MAX_MARKETS
      BY DEF Send
    <3>2. tx.kind = "create_market" => tx.index = Len(market)
      BY DEF Transactions
    <3>. QED BY <3>1, <3>2
  <2>3. CASE tx.kind = "create_market"
    BY <2>2, <2>3 DEF Transactions, WellFormed
  <2>4. CASE tx.kind # "create_market"
    BY <2>4 DEF Transactions, WellFormed
  <2>. QED BY <2>3, <2>4
<1>. QED BY <1>1 DEF SentInv, Send, WellFormed

LEMMA QuotientType ==
    ASSUME NEW a \in Nat, NEW b \in Nat \ {0}
    PROVE  a \div b \in Nat
  OBVIOUS

\* Half of a position, or the position and its share, is something.
LEMMA RewardPositive ==
    ASSUME LedgerInv, NEW i \in DOMAIN position
    PROVE  Reward(position[i]) > 0
<1>. DEFINE p == position[i]
<1>0. p \in Position /\ market[p.market] \in Market /\ p.amount >= MIN_POSITION_AMOUNT
  BY DEF LedgerInv, Records, PositionInv
<1>1. p.amount \in Nat /\ p.amount >= 2 /\ p.entry_probability \in Nat /\ p.outcome \in 1..3
  BY <1>0, PositionFields, Constants
<1>2. market[p.market].probabilities[p.outcome] \in Nat
  BY <1>0, <1>1, ProbabilityType
<1>3. Shift(p) \in Nat
  BY <1>1, <1>2 DEF Shift, Diff
<1>4. BaseReward(p) \in Nat
  <2>1. p.amount * Shift(p) \in Nat
    BY <1>1, <1>3
  <2>. QED BY <2>1, QuotientType, Constants DEF BaseReward
<1>5. (BaseReward(p) * POOL_MULTIPLIER) \div 100 \in Nat
  <2>1. BaseReward(p) * POOL_MULTIPLIER \in Nat
    BY <1>4, Constants
  <2>. QED BY <2>1, QuotientType
<1>6. (p.amount * 50) \div 100 > 0
  BY <1>1
<1>. QED BY <1>1, <1>5, <1>6 DEF Reward

\* The four instructions over lamports of an account that is not the program's,
\* or of a pool, are refused.
LEMMA Refused ==
    ASSUME IInv, NEW tx \in inFlight,
           \/ tx.kind = "claim_reward" /\ ClaimReward(tx)
           \/ tx.kind = "stake_pool" /\ StakePool(tx)
           \/ tx.kind = "claim_pool_prize" /\ ClaimPoolPrize(tx)
           \/ tx.kind = "admin_disburse_prize" /\ AdminDisbursePrize(tx)
    PROVE  UNCHANGED <<now, accounts>>
<1>1. \A m \in DOMAIN market : pool[m] = ZeroPool
  BY Constants DEF IInv, LedgerInv, Balances, Records, Pubkey
<1>2. \A i \in DOMAIN position : Reward(position[i]) # 0 /\ position[i].market \in DOMAIN market
  BY RewardPositive DEF IInv, LedgerInv, PositionInv
<1>3. CASE tx.kind = "claim_reward" /\ ClaimReward(tx)
  BY <1>2, <1>3 DEF ClaimReward, Land, ProgramOwned
<1>4. CASE tx.kind = "stake_pool" /\ StakePool(tx)
  <2>0. tx.amount \in Amount
    BY <1>4 DEF IInv, SentInv, WellFormed
  <2>1. tx.amount \in Nat
    BY <2>0, AmountType
  <2>2. MaxStake(tx.market) = 0 \/ ~Active(tx.market)
    BY <1>1 DEF MaxStake, ZeroPool, Active
  <2>3. ~(AmountAllowed(tx.amount) /\ Active(tx.market) /\ tx.amount <= MaxStake(tx.market))
    <3>1. AmountAllowed(tx.amount) => tx.amount > 0
      BY <2>1, Constants DEF AmountAllowed
    <3>. QED BY <2>1, <2>2, <3>1
  <2>. QED BY <1>4, <2>3 DEF StakePool, Land
<1>5. CASE tx.kind = "claim_pool_prize" /\ ClaimPoolPrize(tx)
  <2>1. ~(tx.position \in DOMAIN position /\ pool[position[tx.position].market].is_settled)
    BY <1>1, <1>2 DEF ZeroPool
  <2>. QED BY <1>5, <2>1 DEF ClaimPoolPrize, Land
<1>6. CASE tx.kind = "admin_disburse_prize" /\ AdminDisbursePrize(tx)
  BY <1>1, <1>6 DEF AdminDisbursePrize, Land, ZeroPool
<1>. QED BY <1>3, <1>4, <1>5, <1>6

-----------------------------------------------------------------------------
(* The instructions that are accepted *)

LEMMA InitializeKeeps ==
    ASSUME IInv, NEW tx \in inFlight, tx.kind = "initialize", InitializePlatform(tx)
    PROVE  LedgerInv'
<1>1. tx.amount \in Amount
  BY DEF IInv, SentInv, WellFormed
<1>2. tx.amount \in Nat /\ tx.amount \in 0..U64
  BY <1>1, AmountType
<1>3. CASE UNCHANGED accounts
  BY <1>3 DEF IInv, LedgerInv, Balances, Records, PositionInv, Started, InitializePlatform, Land,
              accounts
<1>4. CASE ~UNCHANGED accounts
  <2>1. /\ ~live /\ live' = TRUE /\ pool_balance' = tx.amount /\ vault' = vault + tx.amount
        /\ UNCHANGED <<now, market, position, pool, registry, total_agents>>
    BY <1>4 DEF InitializePlatform, Land
  <2>2. Balances'
    <3>1. vault = 0
      BY <2>1 DEF IInv, LedgerInv, Started
    <3>2. pool_balance' = vault' /\ vault' \in Nat /\ pool_balance' \in 0..U64
      BY <1>2, <2>1, <3>1
    <3>. QED BY <2>1, <3>2 DEF IInv, LedgerInv, Balances
  <2>. QED BY <2>1, <2>2 DEF IInv, LedgerInv, Records, PositionInv, Started
<1>. QED BY <1>3, <1>4

\* What an accepted create_market does
Created(m) ==
    /\ live /\ market' = Append(market, m) /\ Len(market) < MAX_MARKETS
    /\ Fits(Len(market) + 1)
    /\ m \in Market /\ m.status = "Active" /\ m.total_positions = 0 /\ m.total_volume = 0
    /\ UNCHANGED <<now, live, pool_balance, position, pool, registry, total_agents, vault>>

LEMMA CreateEffect ==
    ASSUME IInv, NEW tx \in inFlight, tx.kind = "create_market", CreateMarket(tx)
    PROVE  UNCHANGED <<now, accounts>> \/ \E m : Created(m)
<1>1. CASE UNCHANGED accounts
  BY <1>1 DEF CreateMarket, Land
<1>2. CASE ~UNCHANGED accounts
  <2>. DEFINE m == [status |-> "Active", probabilities |-> tx.probabilities,
                    winning_outcome |-> 0, total_positions |-> 0, total_volume |-> 0,
                    window |-> tx.window, bonding_k |-> tx.bonding_k, settled_at |-> 0]
  <2>1. live /\ market' = Append(market, m) /\ tx.index = Len(market) /\ Fits(Len(market) + 1)
        /\ UNCHANGED <<now, live, pool_balance, position, pool, registry, total_agents, vault>>
    BY <1>2 DEF CreateMarket, Land
  <2>2. tx.index < MAX_MARKETS /\ tx.probabilities \in Nat \X Nat \X Nat
        /\ tx.window \in Int \X Int /\ tx.bonding_k \in 0..U64
    BY Constants DEF IInv, SentInv, WellFormed
  <2>3. m \in Market /\ m.status = "Active" /\ m.total_positions = 0 /\ m.total_volume = 0
    BY <2>2, Constants DEF Market
  <2>. HIDE DEF m
  <2>. QED BY <2>1, <2>2, <2>3 DEF Created
<1>. QED BY <1>1, <1>2

LEMMA CreateKeeps ==
    ASSUME IInv, NEW m, Created(m)
    PROVE  LedgerInv'
<1>1. market' \in Seq(Market) /\ Len(market') = Len(market) + 1 /\ Len(market) \in Nat
      /\ DOMAIN market \subseteq DOMAIN market'
  BY DEF Created, IInv, LedgerInv, Records
<1>2. Records'
  BY <1>1, Constants DEF Created, IInv, LedgerInv, Records
<1>3. Balances' /\ PositionInv'
  BY <1>1 DEF Created, IInv, LedgerInv, Balances, PositionInv
<1>. QED BY <1>2, <1>3 DEF Created, LedgerInv, Started

\* What an accepted update_probabilities or settle_market does
Rewritten(i, m) ==
    /\ Active(i) /\ m \in Market /\ market' = [market EXCEPT ![i] = m]
    /\ m.window = market[i].window /\ m.total_volume = market[i].total_volume
    /\ m.total_positions = market[i].total_positions
    /\ m.status = "Settled" => m.settled_at = now
    /\ UNCHANGED <<now, live, pool_balance, position, pool, registry, total_agents, vault>>

LEMMA UpdateEffect ==
    ASSUME IInv, NEW tx \in inFlight,
           \/ tx.kind = "update_probabilities" /\ UpdateProbabilities(tx)
           \/ tx.kind = "settle_market" /\ SettleMarket(tx)
    PROVE  UNCHANGED <<now, accounts>> \/ \E m : Rewritten(tx.market, m)
<1>. DEFINE x == market[tx.market]
<1>1. Active(tx.market) => x \in Market /\ x.status = "Active" /\ market \in Seq(Market)
  BY DEF IInv, LedgerInv, Records, Active
<1>2. CASE tx.kind = "update_probabilities" /\ UpdateProbabilities(tx)
  <2>. DEFINE m == [x EXCEPT !.probabilities = tx.probabilities]
  <2>1. tx.probabilities \in Nat \X Nat \X Nat
    BY <1>2, Constants DEF IInv, SentInv, WellFormed
  <2>2. CASE UNCHANGED accounts
    BY <1>2, <2>2 DEF UpdateProbabilities, Land
  <2>3. CASE ~UNCHANGED accounts
    <3>1. /\ Active(tx.market)
          /\ market' = [market EXCEPT ![tx.market].probabilities = tx.probabilities]
          /\ UNCHANGED <<now, live, pool_balance, position, pool, registry, total_agents, vault>>
      BY <1>2, <2>3 DEF UpdateProbabilities, Land
    <3>2. market' = [market EXCEPT ![tx.market] = m]
      BY <3>1, Zenon
    <3>3. m \in Market /\ m.window = x.window /\ m.total_volume = x.total_volume
          /\ m.total_positions = x.total_positions /\ m.status # "Settled"
      BY <1>1, <2>1, <3>1 DEF Market
    <3>. QED BY <3>1, <3>2, <3>3 DEF Rewritten
  <2>. QED BY <2>2, <2>3
<1>3. CASE tx.kind = "settle_market" /\ SettleMarket(tx)
  <2>. DEFINE m == [x EXCEPT !.status = "Settled", !.winning_outcome = tx.outcome,
                             !.settled_at = now]
  <2>0. tx.outcome \in Outcome /\ now \in 0..MAX_TIME
    BY <1>3 DEF IInv, SentInv, WellFormed, LedgerInv, Balances
  <2>1. tx.outcome \in 0..3 /\ now \in Nat
    BY <2>0, OutcomeType
  <2>2. CASE UNCHANGED accounts
    BY <1>3, <2>2 DEF SettleMarket, Land
  <2>3. CASE ~UNCHANGED accounts
    <3>1. /\ Active(tx.market)
          /\ market' = [market EXCEPT ![tx.market].status = "Settled",
                                      ![tx.market].winning_outcome = tx.outcome,
                                      ![tx.market].settled_at = now]
          /\ UNCHANGED <<now, live, pool_balance, position, pool, registry, total_agents, vault>>
      BY <1>3, <2>3 DEF SettleMarket, Land
    <3>2. market' = [market EXCEPT ![tx.market] = m]
      BY <1>1, <3>1 DEF Active
    <3>3. m \in Market /\ m.window = x.window /\ m.total_volume = x.total_volume
          /\ m.total_positions = x.total_positions /\ m.settled_at = now
      BY <1>1, <2>1, <3>1 DEF Market
    <3>. QED BY <3>1, <3>2, <3>3 DEF Rewritten
  <2>. QED BY <2>2, <2>3
<1>. QED BY <1>2, <1>3

LEMMA UpdateKeeps ==
    ASSUME IInv, NEW i, NEW m, Rewritten(i, m)
    PROVE  LedgerInv'
<1>1. Records' /\ PositionInv'
  BY SetMarket DEF Rewritten, IInv, LedgerInv, Active
<1>2. live
  BY DEF Rewritten, IInv, LedgerInv, Started, Active
<1>. QED BY <1>1, <1>2 DEF Rewritten, IInv, LedgerInv, Balances, Started

LEMMA PremiumType ==
    ASSUME Records, NEW m \in DOMAIN market
    PROVE  Premium(m) \in Nat
<1>1. market[m] \in Market
  BY DEF Records
<1>2. market[m].bonding_k * market[m].total_positions \in Nat
  BY <1>1, MarketFields
<1>. QED BY <1>2, QuotientType, Constants DEF Premium

\* What an accepted take_position does
Taken(tx, p, m) ==
    /\ Active(tx.market) /\ InWindow(tx.market) /\ Fits(pool_balance + tx.amount)
    /\ Fits(Len(position) + 1)
    /\ p \in Position /\ m \in Market /\ tx.amount \in Nat
    /\ p.market = tx.market /\ p.amount = tx.amount + Premium(tx.market)
    /\ p.amount >= MIN_POSITION_AMOUNT /\ ~p.is_claimed /\ p.created_at = now
    /\ m = [market[tx.market] EXCEPT
              !.total_positions = market[tx.market].total_positions + 1,
              !.total_volume = market[tx.market].total_volume + tx.amount]
    /\ position' = Append(position, p)
    /\ market' = [market EXCEPT ![tx.market] = m]
    /\ vault' = vault + tx.amount /\ pool_balance' = pool_balance + tx.amount
    /\ UNCHANGED <<now, live, pool, registry, total_agents>>

LEMMA TakeEffect ==
    ASSUME IInv, NEW tx \in inFlight, tx.kind = "take_position", TakePosition(tx)
    PROVE  UNCHANGED <<now, accounts>> \/ \E p, m : Taken(tx, p, m)
<1>. DEFINE x == market[tx.market]
            p == [trader |-> tx.user, market |-> tx.market, outcome |-> tx.outcome,
                  long |-> tx.long, entry_probability |-> x.probabilities[tx.outcome],
                  amount |-> tx.amount + Premium(tx.market), is_claimed |-> FALSE,
                  created_at |-> now]
            m == [x EXCEPT !.total_positions = x.total_positions + 1,
                           !.total_volume = x.total_volume + tx.amount]
<1>1. CASE UNCHANGED accounts
  BY <1>1 DEF TakePosition, Land
<1>2. CASE ~UNCHANGED accounts
  <2>1. /\ AmountAllowed(tx.amount) /\ Active(tx.market) /\ InWindow(tx.market)
        /\ Fits(pool_balance + tx.amount) /\ Fits(Len(position) + 1)
        /\ Fits(tx.amount + Premium(tx.market)) /\ Fits(x.total_positions + 1)
        /\ Fits(x.total_volume + tx.amount)
        /\ position' = Append(position, p)
        /\ vault' = vault + tx.amount /\ pool_balance' = pool_balance + tx.amount
        /\ UNCHANGED <<now, live, pool, registry, total_agents>>
    BY <1>2 DEF TakePosition, Land, Credited
  <2>2. market' = [market EXCEPT ![tx.market].total_positions = x.total_positions + 1,
                                 ![tx.market].total_volume = x.total_volume + tx.amount]
    BY <1>2 DEF TakePosition, Land
  <2>0. /\ tx.user \in User /\ tx.outcome \in Outcome /\ tx.long \in BOOLEAN
        /\ tx.amount \in Amount /\ now \in 0..MAX_TIME
    BY DEF IInv, SentInv, WellFormed, LedgerInv, Balances
  <2>3. /\ tx.user \in User /\ tx.outcome \in Outcome /\ tx.outcome \in 1..3
        /\ tx.long \in BOOLEAN /\ tx.amount \in Nat /\ MIN_POSITION_AMOUNT \in Nat
        /\ now \in Nat
    <3>1. MAX_TIME \in Nat /\ MIN_POSITION_AMOUNT \in Nat
      BY Constants
    <3>. QED BY <2>0, <3>1, OutcomeType, AmountType
  <2>4. tx.market \in DOMAIN market /\ tx.market \in Pubkey /\ x \in Market
        /\ market \in Seq(Market)
    BY <2>1, Constants DEF IInv, LedgerInv, Records, Active, Pubkey
  <2>5. x.probabilities[tx.outcome] \in Nat /\ x.total_positions \in Nat /\ x.total_volume \in Nat
    BY <2>3, <2>4, MarketFields, ProbabilityType
  <2>6. Premium(tx.market) \in Nat /\ tx.amount >= MIN_POSITION_AMOUNT
    BY <2>1, <2>3, <2>4, PremiumType DEF IInv, LedgerInv, AmountAllowed
  <2>7. p \in Position
    <3>1. tx.amount + Premium(tx.market) \in 0..U64
      BY <2>1, <2>3, <2>6, Constants DEF Fits
    <3>. QED BY <2>3, <2>4, <2>5, <3>1 DEF Position
  <2>8. /\ p.market = tx.market /\ p.amount = tx.amount + Premium(tx.market)
        /\ p.amount >= MIN_POSITION_AMOUNT /\ ~p.is_claimed /\ p.created_at = now
    BY <2>3, <2>6
  <2>9. m \in Market
    <3>1. /\ Fits(x.total_positions + 1) /\ Fits(x.total_volume + tx.amount)
          /\ x.total_positions + 1 \in Nat /\ x.total_volume + tx.amount \in Nat
      BY <2>1, <2>3, <2>5
    <3>2. x.total_positions + 1 \in 0..U64 /\ x.total_volume + tx.amount \in 0..U64
      BY <3>1, Constants DEF Fits
    <3>. QED BY <2>4, <3>2 DEF Market
  <2>10. market' = [market EXCEPT ![tx.market] = m]
    BY <2>2, <2>4
  <2>. HIDE DEF p
  <2>. QED BY <2>1, <2>3, <2>7, <2>8, <2>9, <2>10 DEF Taken
<1>. QED BY <1>1, <1>2 DEF TakePosition, Land

LEMMA TakeKeeps ==
    ASSUME IInv, NEW tx, NEW p, NEW m, Taken(tx, p, m)
    PROVE  LedgerInv'
<1>0. /\ market \in Seq(Market) /\ m \in Market /\ tx.market \in DOMAIN market
      /\ market' = [market EXCEPT ![tx.market] = m]
  BY DEF Taken, IInv, LedgerInv, Records, Active
<1>1. market' \in Seq(Market) /\ Len(market') = Len(market) /\ DOMAIN market' = DOMAIN market
  BY <1>0
<1>2. /\ position' \in Seq(Position) /\ Fits(Len(position'))
      /\ DOMAIN position' = DOMAIN position \union {Len(position) + 1}
      /\ position'[Len(position) + 1] = p
      /\ \A i \in DOMAIN position : position'[i] = position[i]
  BY DEF Taken, IInv, LedgerInv, Records
<1>3. Records'
  BY <1>1, <1>2 DEF IInv, LedgerInv, Records
<1>4. Balances'
  <2>1. tx.amount \in Nat /\ pool_balance' = pool_balance + tx.amount /\ Fits(pool_balance')
        /\ vault' = vault + tx.amount /\ UNCHANGED <<now, live, pool, registry, total_agents>>
    BY DEF Taken
  <2>2. pool_balance' = vault' /\ vault' \in Nat /\ pool_balance' \in 0..U64
    BY <2>1, Constants DEF IInv, LedgerInv, Balances, Fits
  <2>. QED BY <2>1, <2>2 DEF IInv, LedgerInv, Balances
<1>5. PositionInv'
  <2>1. now \in Nat /\ now' = now /\ p.created_at = now /\ p.market \in DOMAIN market
    BY DEF Taken, IInv, LedgerInv, Balances, Active
  <2>. QED BY <1>1, <1>2, <2>1 DEF Taken, IInv, LedgerInv, PositionInv
<1>6. live' /\ UNCHANGED live
  BY DEF Taken, IInv, LedgerInv, Started, Active
<1>. QED BY <1>3, <1>4, <1>5, <1>6 DEF LedgerInv, Started

LEMMA AgentKeeps ==
    ASSUME IInv, NEW tx \in inFlight,
           \/ tx.kind = "register_agent_user" /\ RegisterAgentUser(tx)
           \/ tx.kind = "deploy_agent" /\ DeployAgent(tx)
    PROVE  LedgerInv' /\ UNCHANGED <<now, live, market, position, pool, pool_balance, vault>>
<1>1. tx.user \in User
  BY DEF IInv, SentInv, WellFormed
<1>2. UNCHANGED <<now, live, market, position, pool, pool_balance, vault>>
  BY DEF RegisterAgentUser, DeployAgent, Land, accounts
<1>3. /\ registry' \in [User -> -1 .. MAX_FREE_DEPLOYS]
      /\ total_agents' \in 0..U64
  BY <1>1, Constants
  DEF IInv, LedgerInv, Balances, RegisterAgentUser, DeployAgent, Land, Fits, accounts
<1>. QED BY <1>2, <1>3 DEF IInv, LedgerInv, Balances, Records, PositionInv, Started

\* An executed transaction is consumed, whether it is accepted or not.
LEMMA Consumed ==
    ASSUME NEW tx \in inFlight, Execute(tx)
    PROVE  inFlight' = inFlight \ {tx}
<1>1. CASE InitializePlatform(tx)
  BY <1>1 DEF InitializePlatform, Land
<1>2. CASE CreateMarket(tx)
  BY <1>2 DEF CreateMarket, Land
<1>3. CASE UpdateProbabilities(tx)
  BY <1>3 DEF UpdateProbabilities, Land
<1>4. CASE SettleMarket(tx)
  BY <1>4 DEF SettleMarket, Land
<1>5. CASE TakePosition(tx)
  BY <1>5 DEF TakePosition, Land
<1>6. CASE ClaimReward(tx)
  BY <1>6 DEF ClaimReward, Land
<1>7. CASE StakePool(tx)
  BY <1>7 DEF StakePool, Land
<1>8. CASE ClaimPoolPrize(tx)
  BY <1>8 DEF ClaimPoolPrize, Land
<1>9. CASE AdminDisbursePrize(tx)
  BY <1>9 DEF AdminDisbursePrize, Land
<1>10. CASE RegisterAgentUser(tx)
  BY <1>10 DEF RegisterAgentUser, Land
<1>11. CASE DeployAgent(tx)
  BY <1>11 DEF DeployAgent, Land
<1>. QED BY <1>1, <1>2, <1>3, <1>4, <1>5, <1>6, <1>7, <1>8, <1>9, <1>10, <1>11 DEF Execute

LEMMA LedgerKept ==
    ASSUME LedgerInv, UNCHANGED <<now, accounts>>
    PROVE  LedgerInv'
<1>1. Balances' /\ Records'
  BY DEF LedgerInv, Balances, Records, accounts
<1>2. PositionInv' /\ Started'
  BY DEF LedgerInv, PositionInv, Started, accounts
<1>. QED BY <1>1, <1>2 DEF LedgerInv

LEMMA Inductive == IInv /\ [Next]_vars => IInv'
<1>. SUFFICES ASSUME IInv, [Next]_vars PROVE IInv'
  OBVIOUS
<1>. USE DEF IInv
<1>1. CASE UNCHANGED vars
  <2>1. UNCHANGED <<now, accounts>> /\ inFlight' = inFlight
    BY <1>1 DEF vars
  <2>2. SentInv'
    BY <2>1 DEF SentInv, WellFormed
  <2>. QED BY <2>1, <2>2, LedgerKept
<1>2. ASSUME NEW tx \in Transactions, Send(tx) PROVE IInv'
  <2>1. UNCHANGED <<now, accounts>> /\ inFlight' = inFlight \union {tx}
    BY <1>2 DEF Send
  <2>2. SentInv'
    BY <1>2, SendWellFormed
  <2>. QED BY <2>1, <2>2, LedgerKept
<1>3. ASSUME NEW tx \in inFlight, Expire(tx) PROVE IInv'
  <2>1. UNCHANGED <<now, accounts>> /\ inFlight' \subseteq inFlight
    BY <1>3 DEF Expire
  <2>2. SentInv'
    BY <2>1 DEF SentInv, WellFormed
  <2>. QED BY <2>1, <2>2, LedgerKept
<1>4. CASE Tick
  <2>1. Balances' /\ Records' /\ now \in Nat /\ now' = now + 1
    BY <1>4, Constants DEF IInv, LedgerInv, Balances, Records, Tick, accounts
  <2>2. \A i \in DOMAIN position : position[i].created_at \in Nat
    BY PositionFields DEF IInv, LedgerInv, Records
  <2>3. PositionInv'
    BY <1>4, <2>1, <2>2 DEF IInv, LedgerInv, PositionInv, Tick, accounts
  <2>4. SentInv'
    BY <1>4 DEF SentInv, WellFormed, Tick, accounts
  <2>5. Started'
    BY <1>4 DEF LedgerInv, Started, Tick, accounts
  <2>. QED BY <2>1, <2>3, <2>4, <2>5 DEF LedgerInv
<1>5. ASSUME NEW tx \in inFlight, Execute(tx) PROVE IInv'
  <2>1. inFlight' \subseteq inFlight
    BY <1>5, Consumed
  <2>2. SentInv'
    BY <2>1 DEF IInv, SentInv, WellFormed
  <2>3. CASE UNCHANGED <<now, accounts>>
    BY <2>2, <2>3, LedgerKept
  <2>4. CASE ~UNCHANGED <<now, accounts>>
    <3>1. LedgerInv'
      BY <1>5, <2>4, Refused, InitializeKeeps, CreateEffect, CreateKeeps, UpdateEffect, UpdateKeeps,
         TakeEffect, TakeKeeps, AgentKeeps DEF Execute
    <3>. QED BY <2>2, <3>1 DEF IInv
  <2>. QED BY <2>3, <2>4
<1>. QED BY <1>1, <1>2, <1>3, <1>4, <1>5 DEF Next

LEMMA InitInv == Init => IInv
<1>. SUFFICES ASSUME Init PROVE IInv
  OBVIOUS
<1>1. Balances
  <2>1. 0 \in 0..MAX_TIME /\ 0 \in 0..U64 /\ -1 \in -1 .. MAX_FREE_DEPLOYS
    BY Constants
  <2>. QED BY <2>1 DEF Init, Balances
<1>2. Records
  BY Constants DEF Init, Records, Fits
<1>. QED BY <1>1, <1>2 DEF Init, IInv, SentInv, LedgerInv, PositionInv, Started

LEMMA Invariant == Spec => []IInv
  BY InitInv, Inductive, PTL DEF Spec

\* Every account keeps its type, no registry counts more deployments than its
\* quota, and every counter, total, amount and lamport balance stays a u64,
\* whatever is in flight.
THEOREM TypeCorrect == Spec => []TypeOK
<1>1. IInv => TypeOK
  <2>. SUFFICES ASSUME IInv PROVE TypeOK
    OBVIOUS
  <2>1. ZeroPool \in Pool
    BY Constants DEF ZeroPool, Pool
  <2>. QED BY <2>1, Constants DEF IInv, LedgerInv, Balances, Records, TypeOK, Pubkey
<1>. QED BY <1>1, Invariant, PTL

\* No pool ever takes a stake: the first stake is compared with the maximum of
\* the account that init_if_needed has just created, which is zero, before the
\* maximum is set (stake_pool.rs:32-40).
PoolsStayEmpty == \A m \in Pubkey : pool[m] = ZeroPool

\* No order of instructions makes a pool take a stake: FirstStakeIsTaken fails
\* for every stake of every instance.
THEOREM NoStakes == Spec => []PoolsStayEmpty
<1>1. IInv => PoolsStayEmpty
  BY DEF IInv, LedgerInv, Balances, PoolsStayEmpty
<1>. QED BY <1>1, Invariant, PTL

-----------------------------------------------------------------------------
(* What a step does to markets and positions *)

\* Nothing: time passes, agents are deployed or the platform is funded.
Quiet ==
    /\ UNCHANGED <<market, position, pool>>
    /\ now' \in Nat /\ now' >= now /\ vault' \in Nat /\ vault' >= vault

LEMMA Effects ==
    ASSUME IInv, [Next]_vars
    PROVE  Quiet \/ (\E m : Created(m)) \/ (\E i, m : Rewritten(i, m))
                 \/ (\E tx, p, m : Taken(tx, p, m))
<1>0. now \in Nat /\ vault \in Nat
  BY Constants DEF IInv, LedgerInv, Balances
<1>1. CASE UNCHANGED <<now, accounts>>
  BY <1>0, <1>1 DEF Quiet, accounts
<1>2. CASE Tick
  BY <1>0, <1>2 DEF Quiet, Tick, accounts
<1>3. ASSUME NEW tx \in inFlight, tx.kind = "initialize", InitializePlatform(tx)
      PROVE  Quiet
  <2>1. tx.amount \in Nat
    BY <1>3, AmountType DEF IInv, SentInv, WellFormed
  <2>. QED BY <1>0, <1>3, <2>1 DEF Quiet, InitializePlatform, Land, accounts
<1>4. ASSUME NEW tx \in inFlight, Execute(tx), ~UNCHANGED <<now, accounts>>,
             ~(tx.kind = "initialize" /\ InitializePlatform(tx))
      PROVE  Quiet \/ (\E m : Created(m)) \/ (\E i, m : Rewritten(i, m))
                   \/ (\E t, p, m : Taken(t, p, m))
  <2>1. CASE \/ tx.kind = "register_agent_user" /\ RegisterAgentUser(tx)
             \/ tx.kind = "deploy_agent" /\ DeployAgent(tx)
    BY <1>0, <2>1, AgentKeeps DEF Quiet
  <2>. QED BY <1>4, <2>1, Refused, CreateEffect, UpdateEffect, TakeEffect DEF Execute
<1>. QED BY <1>1, <1>2, <1>3, <1>4 DEF Next, Send, Expire, vars

\* No lamport leaves the vault and no position is ever claimed (claim_reward.rs:59).
NeverPaidOut ==
    [][/\ vault' >= vault
       /\ \A i \in DOMAIN position : ~position'[i].is_claimed]_vars

\* No interleaving of the instructions that would pay does, although claim_reward.rs:57
\* takes the vault for an account of the program, which it could debit.
THEOREM NothingIsPaid == Spec => NeverPaidOut
<1>1. ASSUME IInv, IInv', [Next]_vars
      PROVE  vault' >= vault /\ \A i \in DOMAIN position : ~position'[i].is_claimed
  <2>1. vault \in Nat
    BY <1>1 DEF IInv, LedgerInv, Balances
  <2>2. vault' >= vault /\ DOMAIN position \subseteq DOMAIN position'
    <3>1. CASE Quiet
      BY <3>1 DEF Quiet
    <3>2. CASE (\E m : Created(m)) \/ (\E i, m : Rewritten(i, m))
      BY <2>1, <3>2 DEF Created, Rewritten
    <3>3. ASSUME NEW tx, NEW p, NEW m, Taken(tx, p, m)
          PROVE  vault' >= vault /\ DOMAIN position \subseteq DOMAIN position'
      <4>1. position \in Seq(Position) /\ tx.amount \in Nat
            /\ position' = Append(position, p) /\ vault' = vault + tx.amount /\ p \in Position
        BY <1>1, <3>3 DEF IInv, LedgerInv, Records, Taken
      <4>. QED BY <2>1, <4>1
    <3>. QED BY <1>1, <3>1, <3>2, <3>3, Effects
  <2>3. \A i \in DOMAIN position' : ~position'[i].is_claimed
    BY <1>1 DEF IInv, LedgerInv, PositionInv
  <2>. QED BY <2>2, <2>3
<1>. QED BY <1>1, Invariant, Inductive, PTL DEF Spec, NeverPaidOut

-----------------------------------------------------------------------------
(* What is final *)

LEMMA OpenedStep == IInv /\ OpenedInTime /\ [Next]_vars => OpenedInTime'
<1>. SUFFICES ASSUME IInv, OpenedInTime, [Next]_vars PROVE OpenedInTime'
  OBVIOUS
<1>0. /\ market \in Seq(Market) /\ position \in Seq(Position)
      /\ \A i \in DOMAIN position : position[i].market \in DOMAIN market
      /\ \A i \in DOMAIN position : position[i].created_at \in Nat
      /\ \A i \in DOMAIN position : position[i].created_at <= now
  BY PositionFields DEF IInv, LedgerInv, Records, PositionInv
<1>1. CASE Quiet
  BY <1>1 DEF Quiet, OpenedInTime, Settled
<1>2. ASSUME NEW m, Created(m) PROVE OpenedInTime'
  <2>1. /\ DOMAIN market \subseteq DOMAIN market' /\ position' = position
        /\ \A k \in DOMAIN market : market'[k] = market[k]
    BY <1>0, <1>2 DEF Created
  <2>. QED BY <1>0, <2>1 DEF OpenedInTime, Settled
<1>3. ASSUME NEW k, NEW m, Rewritten(k, m) PROVE OpenedInTime'
  <2>1. /\ DOMAIN market' = DOMAIN market /\ position' = position
        /\ market'[k] = m /\ m.window = market[k].window
        /\ m.status = "Settled" => m.settled_at = now
        /\ \A j \in DOMAIN market \ {k} : market'[j] = market[j]
    BY <1>0, <1>3 DEF Rewritten, Active
  <2>. QED BY <1>0, <2>1 DEF OpenedInTime, Settled
<1>4. ASSUME NEW tx, NEW p, NEW m, Taken(tx, p, m) PROVE OpenedInTime'
  <2>. DEFINE k == tx.market
  <2>1. /\ k \in DOMAIN market /\ market[k].status = "Active" /\ InWindow(k)
        /\ p \in Position /\ p.market = k /\ p.created_at = now
        /\ position' = Append(position, p) /\ market' = [market EXCEPT ![k] = m]
    BY <1>4 DEF Taken, Active
  <2>2. m.window = market[k].window /\ m.status = "Active"
    <3>1. market[k] \in Market
      BY <1>0, <2>1
    <3>. QED BY <1>4, <2>1, <3>1 DEF Taken, Market
  <2>3. market[k].window[1] \in Int /\ market[k].window[2] \in Int /\ now \in Nat
    BY <1>0, <2>1, MarketFields DEF IInv, LedgerInv, Balances
  <2>4. now >= market[k].window[1] /\ (market[k].window[2] > 0 => now < market[k].window[2])
    BY <2>1, <2>3 DEF InWindow
  <2>5. /\ DOMAIN market' = DOMAIN market /\ market'[k] = m
        /\ \A j \in DOMAIN market \ {k} : market'[j] = market[j]
    BY <1>0, <2>1
  <2>6. /\ DOMAIN position' = DOMAIN position \union {Len(position) + 1}
        /\ position'[Len(position) + 1] = p
        /\ \A i \in DOMAIN position : position'[i] = position[i]
    BY <1>0, <2>1
  <2>. QED BY <1>0, <2>1, <2>2, <2>4, <2>5, <2>6 DEF OpenedInTime, Settled
<1>. QED BY <1>1, <1>2, <1>3, <1>4, Effects

\* A position is opened in its competition and before its outcome, however long
\* the transaction was in flight.
THEOREM Opened == Spec => []OpenedInTime
<1>1. Init => OpenedInTime
  BY DEF Init, OpenedInTime
<1>. QED BY <1>1, OpenedStep, Invariant, PTL DEF Spec

LEMMA FinalStep ==
    ASSUME IInv, [Next]_vars, NEW k \in DOMAIN market, Settled(k)
    PROVE  /\ market'[k] = market[k]
           /\ Of(k)' = Of(k)
           /\ \A i \in Of(k) : position'[i] = position[i]
<1>0. market \in Seq(Market) /\ position \in Seq(Position)
  BY DEF IInv, LedgerInv, Records
<1>1. CASE Quiet
  BY <1>1 DEF Quiet, Of
<1>2. ASSUME NEW m, Created(m)
      PROVE  market'[k] = market[k] /\ Of(k)' = Of(k)
             /\ \A i \in Of(k) : position'[i] = position[i]
  BY <1>0, <1>2 DEF Created, Of
<1>3. ASSUME NEW j, NEW m, Rewritten(j, m)
      PROVE  market'[k] = market[k] /\ Of(k)' = Of(k)
             /\ \A i \in Of(k) : position'[i] = position[i]
  BY <1>0, <1>3 DEF Rewritten, Active, Settled, Of
<1>4. ASSUME NEW tx, NEW p, NEW m, Taken(tx, p, m)
      PROVE  market'[k] = market[k] /\ Of(k)' = Of(k)
             /\ \A i \in Of(k) : position'[i] = position[i]
  <2>1. /\ tx.market # k /\ p \in Position /\ p.market = tx.market
        /\ position' = Append(position, p) /\ market' = [market EXCEPT ![tx.market] = m]
    BY <1>4 DEF Taken, Active, Settled
  <2>2. /\ DOMAIN position' = DOMAIN position \union {Len(position) + 1}
        /\ position'[Len(position) + 1] = p
        /\ \A i \in DOMAIN position : position'[i] = position[i]
    BY <1>0, <2>1
  <2>. QED BY <1>0, <2>1, <2>2 DEF Of
<1>. QED BY <1>1, <1>2, <1>3, <1>4, Effects

\* What rewards are computed from is final once a market is settled, whatever
\* was in flight then.
THEOREM Final == Spec => SettledIsFinal
<1>1. ASSUME IInv, [Next]_vars
      PROVE  \A m \in DOMAIN market : Settled(m) =>
               /\ market'[m] = market[m]
               /\ Of(m)' = Of(m)
               /\ \A i \in Of(m) : [position'[i] EXCEPT !.is_claimed = FALSE]
                                   = [position[i] EXCEPT !.is_claimed = FALSE]
  <2>. SUFFICES ASSUME NEW m \in DOMAIN market, Settled(m)
                PROVE  /\ market'[m] = market[m]
                       /\ Of(m)' = Of(m)
                       /\ \A i \in Of(m) : [position'[i] EXCEPT !.is_claimed = FALSE]
                                           = [position[i] EXCEPT !.is_claimed = FALSE]
    OBVIOUS
  <2>1. /\ market'[m] = market[m] /\ Of(m)' = Of(m)
        /\ \A i \in Of(m) : position'[i] = position[i]
    BY <1>1, FinalStep
  <2>. QED BY <2>1
<1>. QED BY <1>1, Invariant, PTL DEF Spec, SettledIsFinal

-----------------------------------------------------------------------------
(* The books                                                               *)

Amounts == [i \in DOMAIN position |-> position[i].amount]
Volumes == [m \in DOMAIN market |-> Volume(m)]

BooksInv ==
    /\ SumOf(Volumes, DOMAIN market) <= vault
    /\ \A m \in DOMAIN market :
        /\ market[m].total_positions = Cardinality(Of(m))
        /\ Volumes[m] <= SumOf(Amounts, Of(m))

\* The sums of BooksBalance are those of these functions.
LEMMA AmountsSum ==
    ASSUME NEW S \in SUBSET DOMAIN position, IsFiniteSet(S)
    PROVE  MapThenSumSet(LAMBDA i : position[i].amount, S) = SumOf(Amounts, S)
<1>. DEFINE Sums(g) == g = [s \in SUBSET S |->
                  IF s = {} THEN 0
                  ELSE position[Chosen(s)].amount + g[s \ {Chosen(s)}]]
            g == CHOOSE g : Sums(g)
<1>1. PICK h : Summing(h, Amounts, S)
  BY TableExists
<1>2. \A s \in SUBSET S : s # {} => Amounts[Chosen(s)] = position[Chosen(s)].amount
  BY ChosenIn DEF Amounts
<1>3. \A k : Summing(k, Amounts, S) <=> Sums(k)
  BY <1>2 DEF Summing
<1>4. Summing(g, Amounts, S)
  BY <1>1, <1>3
<1>5. MapThenSumSet(LAMBDA i : position[i].amount, S) = g[S]
  BY Zenon DEF MapThenSumSet, MapThenFoldSet, Chosen
<1>. QED BY <1>4, <1>5, SumIs

LEMMA VolumesSum ==
    ASSUME IsFiniteSet(DOMAIN market)
    PROVE  MapThenSumSet(Volume, DOMAIN market) = SumOf(Volumes, DOMAIN market)
<1>. DEFINE S == DOMAIN market
            Sums(g) == g = [s \in SUBSET S |->
                  IF s = {} THEN 0 ELSE Volume(Chosen(s)) + g[s \ {Chosen(s)}]]
            g == CHOOSE g : Sums(g)
<1>1. PICK h : Summing(h, Volumes, S)
  BY TableExists
<1>2. \A s \in SUBSET S : s # {} => Volumes[Chosen(s)] = Volume(Chosen(s))
  BY ChosenIn DEF Volumes
<1>3. \A k : Summing(k, Volumes, S) <=> Sums(k)
  BY <1>2 DEF Summing
<1>4. Summing(g, Volumes, S)
  BY <1>1, <1>3
<1>5. MapThenSumSet(Volume, S) = g[S]
  BY Zenon DEF MapThenSumSet, MapThenFoldSet, Chosen
<1>. QED BY <1>4, <1>5, SumIs

\* The pools hold nothing.
LEMMA LamportsSum ==
    ASSUME LedgerInv
    PROVE  MapThenSumSet(LAMBDA m : pool[m].lamports, Pubkey) = 0
<1>. DEFINE f == [m \in Pubkey |-> 0]
            Sums(g) == g = [s \in SUBSET Pubkey |->
                  IF s = {} THEN 0 ELSE pool[Chosen(s)].lamports + g[s \ {Chosen(s)}]]
            g == CHOOSE g : Sums(g)
<1>0. IsFiniteSet(Pubkey) /\ \A m \in Pubkey : pool[m].lamports = 0
  BY FS_Interval, Constants DEF LedgerInv, Balances, Pubkey, ZeroPool
<1>1. PICK h : Summing(h, f, Pubkey)
  BY <1>0, TableExists
<1>2. \A s \in SUBSET Pubkey : s # {} => f[Chosen(s)] = pool[Chosen(s)].lamports
  BY <1>0, ChosenIn
<1>3. \A k : Summing(k, f, Pubkey) <=> Sums(k)
  BY <1>2 DEF Summing
<1>4. Summing(g, f, Pubkey)
  BY <1>1, <1>3
<1>5. MapThenSumSet(LAMBDA m : pool[m].lamports, Pubkey) = g[Pubkey]
  BY Zenon DEF MapThenSumSet, MapThenFoldSet, Chosen
<1>6. SumOf(f, Pubkey) = 0
  BY <1>0, SumZero
<1>. QED BY <1>0, <1>4, <1>5, <1>6, SumIs

LEMMA BookTypes ==
    ASSUME LedgerInv
    PROVE  /\ market \in Seq(Market) /\ position \in Seq(Position) /\ vault \in Nat
           /\ IsFiniteSet(DOMAIN market) /\ IsFiniteSet(DOMAIN position)
           /\ \A m \in DOMAIN market :
                /\ Volumes[m] \in Nat /\ Volumes[m] = market[m].total_volume
                /\ Of(m) \subseteq DOMAIN position
                /\ IsFiniteSet(Of(m)) /\ Cardinality(Of(m)) \in Nat
           /\ \A i \in DOMAIN position : Amounts[i] \in Nat /\ Amounts[i] = position[i].amount
           /\ \A i \in DOMAIN position : position[i].market \in DOMAIN market
<1>1. market \in Seq(Market) /\ position \in Seq(Position) /\ vault \in Nat
      /\ \A i \in DOMAIN position : position[i].market \in DOMAIN market
  BY DEF LedgerInv, Records, Balances, PositionInv
<1>2. IsFiniteSet(DOMAIN market) /\ IsFiniteSet(DOMAIN position)
  <2>1. /\ DOMAIN market = 1..Len(market) /\ DOMAIN position = 1..Len(position)
        /\ Len(market) \in Nat /\ Len(position) \in Nat
    BY <1>1
  <2>. QED BY <2>1, FS_Interval
<1>3. \A m \in DOMAIN market : Volumes[m] \in Nat /\ Volumes[m] = market[m].total_volume
  BY <1>1, MarketFields DEF Volumes, Volume
<1>4. \A m : Of(m) \subseteq DOMAIN position
  BY DEF Of
<1>5. \A m : IsFiniteSet(Of(m)) /\ Cardinality(Of(m)) \in Nat
  BY <1>2, <1>4, FS_Subset, FS_CardinalityType
<1>6. \A i \in DOMAIN position : Amounts[i] \in Nat /\ Amounts[i] = position[i].amount
  BY <1>1, PositionFields DEF Amounts
<1>. QED BY <1>1, <1>2, <1>3, <1>4, <1>5, <1>6

LEMMA BooksStep == IInv /\ IInv' /\ BooksInv /\ [Next]_vars => BooksInv'
<1>. SUFFICES ASSUME IInv, IInv', BooksInv, [Next]_vars PROVE BooksInv'
  OBVIOUS
<1>0. LedgerInv /\ LedgerInv'
  BY DEF IInv
<1>1. CASE Quiet
  <2>1. Volumes' = Volumes /\ Amounts' = Amounts /\ \A m : Of(m)' = Of(m)
    BY <1>1 DEF Quiet, Volumes, Volume, Amounts, Of
  <2>2. SumOf(Volumes, DOMAIN market) \in Nat
    BY <1>0, BookTypes, SumType
  <2>3. SumOf(Volumes, DOMAIN market) <= vault'
    BY <1>0, <1>1, <2>2, BookTypes DEF Quiet, BooksInv
  <2>. QED BY <1>1, <2>1, <2>3 DEF Quiet, BooksInv
<1>2. ASSUME NEW m, Created(m) PROVE BooksInv'
  <2>. DEFINE k == Len(market) + 1
  <2>1. /\ DOMAIN market' = DOMAIN market \union {k} /\ k \notin DOMAIN market
        /\ market'[k] = m /\ \A j \in DOMAIN market : market'[j] = market[j]
        /\ UNCHANGED <<position, vault>> /\ m.total_positions = 0 /\ m.total_volume = 0
    BY <1>0, <1>2, BookTypes DEF Created
  <2>2. Amounts' = Amounts /\ \A j : Of(j)' = Of(j)
    BY <2>1 DEF Amounts, Of
  <2>3. Volumes'[k] = 0 /\ \A j \in DOMAIN market : Volumes'[j] = Volumes[j]
    BY <2>1 DEF Volumes, Volume
  <2>. HIDE DEF k
  <2>4. SumOf(Volumes', DOMAIN market) = SumOf(Volumes, DOMAIN market)
    BY <1>0, <2>3, BookTypes, SumSame
  <2>5. SumOf(Volumes', DOMAIN market \union {k}) = SumOf(Volumes', DOMAIN market) + Volumes'[k]
    <3>1. /\ IsFiniteSet(DOMAIN market) /\ k \notin DOMAIN market
          /\ \A j \in DOMAIN market \union {k} : Volumes'[j] \in Nat
      BY <1>0, <2>1, <2>3, BookTypes
    <3>. QED BY <3>1, SumAdd
  <2>6. SumOf(Volumes, DOMAIN market) \in Nat
    BY <1>0, BookTypes, SumType
  <2>7. SumOf(Volumes', DOMAIN market') <= vault'
    BY <2>1, <2>3, <2>4, <2>5, <2>6 DEF BooksInv
  <2>8. Of(k) = {} /\ SumOf(Amounts, {}) = 0 /\ Cardinality({}) = 0
    BY <1>0, <2>1, BookTypes, SumEmpty, FS_EmptySet DEF Of
  <2>9. ASSUME NEW j \in DOMAIN market'
        PROVE  /\ market'[j].total_positions = Cardinality(Of(j))
               /\ Volumes'[j] <= SumOf(Amounts, Of(j))
    <3>1. CASE j = k
      BY <2>1, <2>3, <2>8, <3>1
    <3>2. CASE j # k
      BY <2>1, <2>3, <3>2 DEF BooksInv
    <3>. QED BY <3>1, <3>2
  <2>. QED BY <2>2, <2>7, <2>9 DEF BooksInv
<1>3. ASSUME NEW k, NEW m, Rewritten(k, m) PROVE BooksInv'
  <2>1. /\ DOMAIN market' = DOMAIN market /\ UNCHANGED <<position, vault>>
        /\ \A j \in DOMAIN market : /\ market'[j].total_positions = market[j].total_positions
                                    /\ market'[j].total_volume = market[j].total_volume
    BY <1>0, <1>3, BookTypes DEF Rewritten, Active
  <2>2. Volumes' = Volumes /\ Amounts' = Amounts /\ \A j : Of(j)' = Of(j)
    BY <2>1 DEF Volumes, Volume, Amounts, Of
  <2>. QED BY <2>1, <2>2 DEF BooksInv
<1>4. ASSUME NEW tx, NEW p, NEW m, Taken(tx, p, m) PROVE BooksInv'
  <2>. DEFINE k == tx.market
              n == Len(position) + 1
  <2>0. /\ k \in DOMAIN market /\ market[k] \in Market /\ tx.amount \in Nat
        /\ p \in Position /\ p.market = k /\ p.amount = tx.amount + Premium(k)
        /\ position' = Append(position, p) /\ market' = [market EXCEPT ![k] = m]
        /\ m = [market[k] EXCEPT !.total_positions = market[k].total_positions + 1,
                                 !.total_volume = market[k].total_volume + tx.amount]
        /\ vault' = vault + tx.amount
    BY <1>0, <1>4, BookTypes DEF Taken, Active
  <2>1. /\ DOMAIN market' = DOMAIN market /\ market'[k] = m
        /\ m.total_positions = market[k].total_positions + 1
        /\ m.total_volume = market[k].total_volume + tx.amount
        /\ \A j \in DOMAIN market \ {k} : market'[j] = market[j]
    <3>1. /\ m.total_positions = market[k].total_positions + 1
          /\ m.total_volume = market[k].total_volume + tx.amount
      BY <2>0 DEF Market
    <3>. QED BY <1>0, <2>0, <3>1, BookTypes
  <2>2. /\ DOMAIN position' = DOMAIN position \union {n} /\ n \notin DOMAIN position
        /\ position'[n] = p /\ \A i \in DOMAIN position : position'[i] = position[i]
    BY <1>0, <2>0, BookTypes
  <2>3. Of(k)' = Of(k) \union {n} /\ n \notin Of(k)
        /\ \A j \in DOMAIN market \ {k} : Of(j)' = Of(j)
    BY <2>0, <2>2 DEF Of
  <2>4. Amounts'[n] = p.amount /\ \A i \in DOMAIN position : Amounts'[i] = Amounts[i]
    BY <2>2 DEF Amounts
  <2>5. Volumes'[k] = Volumes[k] + tx.amount
        /\ \A j \in DOMAIN market \ {k} : Volumes'[j] = Volumes[j]
    BY <2>0, <2>1 DEF Volumes, Volume
  <2>6. p.amount \in Nat /\ p.amount >= tx.amount
    BY <1>0, <2>0, PositionFields, PremiumType DEF LedgerInv
  <2>. HIDE DEF k, n
  <2>7. SumOf(Volumes', DOMAIN market') <= vault'
    <3>1. Volumes[k] \in Nat /\ Volumes'[k] \in Nat
      BY <1>0, <2>0, <2>5, BookTypes
    <3>2. SumOf(Volumes', DOMAIN market)
            = SumOf(Volumes, DOMAIN market) - Volumes[k] + Volumes'[k]
          /\ SumOf(Volumes, DOMAIN market) \in Nat
      <4>1. /\ IsFiniteSet(DOMAIN market)
            /\ \A j \in DOMAIN market : Volumes[j] \in Nat
        BY <1>0, BookTypes
      <4>. QED BY <2>0, <2>5, <3>1, <4>1, SumChange
    <3>. QED BY <1>0, <2>0, <2>1, <2>5, <3>1, <3>2, BookTypes DEF BooksInv
  <2>8. \A S \in SUBSET DOMAIN position : SumOf(Amounts', S) = SumOf(Amounts, S)
    BY <1>0, <2>4, BookTypes, FS_Subset, SumSame
  <2>9. /\ m.total_positions = Cardinality(Of(k) \union {n})
        /\ Volumes'[k] <= SumOf(Amounts', Of(k) \union {n})
    <3>1. /\ Of(k) \subseteq DOMAIN position /\ IsFiniteSet(Of(k))
          /\ Cardinality(Of(k)) \in Nat /\ Volumes[k] \in Nat
          /\ \A i \in Of(k) : Amounts[i] \in Nat
      BY <1>0, <2>0, BookTypes
    <3>2. Cardinality(Of(k) \union {n}) = Cardinality(Of(k)) + 1
      BY <2>3, <3>1, FS_AddElement
    <3>3. \A i \in Of(k) \union {n} : Amounts'[i] \in Nat
      BY <2>4, <2>6, <3>1
    <3>4. SumOf(Amounts', Of(k) \union {n}) = SumOf(Amounts', Of(k)) + Amounts'[n]
      BY <2>3, <3>1, <3>3, SumAdd
    <3>5. SumOf(Amounts', Of(k)) = SumOf(Amounts, Of(k)) /\ SumOf(Amounts, Of(k)) \in Nat
      BY <2>8, <3>1, SumType
    <3>6. Volumes[k] <= SumOf(Amounts, Of(k))
          /\ market[k].total_positions = Cardinality(Of(k))
      BY <2>0 DEF BooksInv
    <3>. QED BY <2>0, <2>1, <2>4, <2>5, <2>6, <3>1, <3>2, <3>4, <3>5, <3>6
  <2>10. ASSUME NEW j \in DOMAIN market \ {k}
         PROVE  /\ market'[j].total_positions = Cardinality(Of(j)')
                /\ Volumes'[j] <= SumOf(Amounts', Of(j)')
    BY <1>0, <2>1, <2>3, <2>5, <2>8, BookTypes DEF BooksInv
  <2>. QED BY <2>1, <2>3, <2>7, <2>9, <2>10 DEF BooksInv
<1>. QED BY <1>1, <1>2, <1>3, <1>4, Effects

\* The balance that claims are paid from is what the vaults hold, and the books
\* of every market agree with the positions on it, in any order of instructions
\* and with every premium.
THEOREM Balanced == Spec => []BooksBalance
<1>1. Init => BooksInv
  <2>. SUFFICES ASSUME Init PROVE BooksInv
    OBVIOUS
  <2>1. DOMAIN market = {} /\ vault = 0
    BY DEF Init
  <2>. QED BY <2>1, SumEmpty DEF BooksInv
<1>2. ASSUME IInv, BooksInv PROVE BooksBalance
  <2>1. LedgerInv
    BY <1>2 DEF IInv
  <2>2. pool_balance = vault + MapThenSumSet(LAMBDA m : pool[m].lamports, Pubkey)
    <3>1. pool_balance = vault + 0
      BY <2>1 DEF LedgerInv, Balances
    <3>. QED BY <2>1, <3>1, LamportsSum
  <2>3. MapThenSumSet(Volume, DOMAIN market) <= vault
    BY <1>2, <2>1, BookTypes, VolumesSum DEF BooksInv
  <2>4. ASSUME NEW m \in DOMAIN market
        PROVE  /\ market[m].total_positions = Cardinality(Of(m))
               /\ Volume(m) <= MapThenSumSet(LAMBDA i : position[i].amount, Of(m))
    <3>1. Volume(m) = Volumes[m]
      BY DEF Volumes
    <3>2. MapThenSumSet(LAMBDA i : position[i].amount, Of(m)) = SumOf(Amounts, Of(m))
      BY <2>1, BookTypes, AmountsSum
    <3>. QED BY <1>2, <3>1, <3>2 DEF BooksInv
  <2>. QED BY <2>2, <2>3, <2>4 DEF BooksBalance
<1>. QED BY <1>1, <1>2, Invariant, Inductive, BooksStep, PTL DEF Spec
=============================================================================
