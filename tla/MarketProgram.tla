---------------------------- MODULE MarketProgram ----------------------------
(***************************************************************************)
(* The Anchor program: platform, market, position, pool, registry and      *)
(* agent accounts and the eleven instructions over them. A handler is an   *)
(* operator from the ledger and a transaction to the next ledger; when a   *)
(* constraint, a require! or the runtime refuses it, to the same ledger.   *)
(*                                                                         *)
(* Clients are external. They derive the address of a new account from the *)
(* counter they have read, so a transaction that lands after another one   *)
(* may name an address that its seeds no longer give; it may also expire.  *)
(* Accounts of one kind are a sequence, numbered from 0 in the program and *)
(* from 1 here. The admin signs what needs the admin. Texts, risk levels   *)
(* and outcomes that no market has are left out; no instruction pauses a   *)
(* market. u64 is 0..U64.                                                  *)
(***************************************************************************)
EXTENDS Integers, Sequences, FiniteSets, FiniteSetsExt

CONSTANTS
    User,
    Outcome, Probabilities,     \* outcomes (of 1..3) and triples that callers send
    Window,                     \* pairs of competition_start and competition_end
    Amount, BondingK,           \* lamports and bonding_k that callers send
    U64, PROBABILITY_DECIMALS, POOL_MULTIPLIER, PLATFORM_FEE_BPS, BONDING_PRECISION,
    MIN_POSITION_AMOUNT, MAX_POSITION_AMOUNT, MAX_FREE_DEPLOYS,
    MAX_TIME, MAX_MARKETS, MAX_POSITIONS, MAX_IN_FLIGHT     \* bounds of the model

ASSUME ConstantsAssumption ==
    /\ Outcome \subseteq 1..3 /\ Probabilities \subseteq Nat \X Nat \X Nat
    /\ Window \subseteq Int \X Int /\ Amount \union BondingK \subseteq 0..U64
    /\ {U64, POOL_MULTIPLIER, PLATFORM_FEE_BPS, MIN_POSITION_AMOUNT, MAX_POSITION_AMOUNT,
        MAX_FREE_DEPLOYS, MAX_TIME, MAX_MARKETS, MAX_POSITIONS, MAX_IN_FLIGHT} \subseteq Nat
    /\ {PROBABILITY_DECIMALS, BONDING_PRECISION} \subseteq Nat \ {0}
    /\ MIN_POSITION_AMOUNT > 1      \* half of a position is something

VARIABLES
    now,
    inFlight,       \* transactions that clients have sent
    live,           \* the platform account exists
    pool_balance,   \* of the platform
    market,         \* market accounts; the platform's total_markets is its length
    position,       \* position accounts; total_positions is its length
    pool,           \* pool[m]: pool account and vault lamports of market m
    registry,       \* registry[u]: deploys_used of u, -1 without an account
    total_agents,
    vault           \* lamports of the vault

accounts == <<live, pool_balance, market, position, pool, registry, total_agents, vault>>
vars == <<now, inFlight, accounts>>

Pubkey == 1..MAX_MARKETS                    \* addresses of markets
Sum3(p) == p[1] + p[2] + p[3]
Fits(n) == n <= U64                         \* checked_add, checked_mul
Diff(a, b) == IF a > b THEN a - b ELSE b - a

Market == [status : {"Active", "Settled"}, probabilities : Nat \X Nat \X Nat,
           winning_outcome : 0..3, total_positions : 0..U64, total_volume : 0..U64,
           window : Int \X Int, bonding_k : 0..U64, settled_at : Nat]
Position == [trader : User, market : Pubkey, outcome : Outcome, long : BOOLEAN,
             entry_probability : Nat, amount : 0..U64, is_claimed : BOOLEAN, created_at : Nat]

\* A pool account and the lamports of its vault
Pool == [total_staked : 0..U64, distributable_pool : 0..U64, max_stake_per_user : 0..U64,
         is_settled : BOOLEAN, lamports : 0..U64]
\* before it exists, and as init_if_needed creates it: all zeros
ZeroPool == [total_staked |-> 0, distributable_pool |-> 0, max_stake_per_user |-> 0,
             is_settled |-> FALSE, lamports |-> 0]

Init ==
    /\ now = 0 /\ inFlight = {}
    /\ live = FALSE /\ pool_balance = 0 /\ vault = 0
    /\ market = <<>> /\ position = <<>>
    /\ pool = [m \in Pubkey |-> ZeroPool]
    /\ registry = [u \in User |-> -1] /\ total_agents = 0

-----------------------------------------------------------------------------
Active(m) == m \in DOMAIN market /\ market[m].status = "Active"
Settled(m) == m \in DOMAIN market /\ market[m].status = "Settled"

\* Mutant: the end belongs to the window.
InClosedWindow(m) ==
    LET w == market[m].window IN (w[1] > 0 => now >= w[1]) /\ (w[2] > 0 => now <= w[2])

InWindow(m) ==
    LET w == market[m].window IN (w[1] > 0 => now >= w[1]) /\ (w[2] > 0 => now < w[2])

AmountAllowed(amount) == amount \in MIN_POSITION_AMOUNT .. MAX_POSITION_AMOUNT

\* A transaction lands whole or not at all.
Land(tx, accepted, Effect) ==
    /\ inFlight' = inFlight \ {tx} /\ UNCHANGED now
    /\ IF accepted THEN Effect ELSE UNCHANGED accounts

InitializePlatform(tx) == Land(tx, ~live,
    /\ live' = TRUE /\ pool_balance' = tx.amount /\ vault' = vault + tx.amount
    /\ UNCHANGED <<market, position, pool, registry, total_agents>>)

CreateMarket(tx) == Land(tx,
    /\ live /\ tx.index = Len(market) /\ Fits(Len(market) + 1)
    /\ Sum3(tx.probabilities) = PROBABILITY_DECIMALS /\ tx.window[2] > tx.window[1],
    /\ market' = Append(market,
         [status |-> "Active", probabilities |-> tx.probabilities, winning_outcome |-> 0,
          total_positions |-> 0, total_volume |-> 0, window |-> tx.window,
          bonding_k |-> tx.bonding_k, settled_at |-> 0])
    /\ UNCHANGED <<live, pool_balance, position, pool, registry, total_agents, vault>>)

\* Mutant: the probabilities move in any status.
UpdateAnyMarket(tx) == Land(tx,
    tx.market \in DOMAIN market /\ Sum3(tx.probabilities) = PROBABILITY_DECIMALS,
    /\ market' = [market EXCEPT ![tx.market].probabilities = tx.probabilities]
    /\ UNCHANGED <<live, pool_balance, position, pool, registry, total_agents, vault>>)

UpdateProbabilities(tx) == Land(tx,
    Active(tx.market) /\ Sum3(tx.probabilities) = PROBABILITY_DECIMALS,
    /\ market' = [market EXCEPT ![tx.market].probabilities = tx.probabilities]
    /\ UNCHANGED <<live, pool_balance, position, pool, registry, total_agents, vault>>)

SettleMarket(tx) == Land(tx, Active(tx.market),
    /\ market' = [market EXCEPT ![tx.market].status = "Settled",
                                ![tx.market].winning_outcome = tx.outcome,
                                ![tx.market].settled_at = now]
    /\ UNCHANGED <<live, pool_balance, position, pool, registry, total_agents, vault>>)

-----------------------------------------------------------------------------
\* Positions. The premium is part of the position and is not transferred.

Premium(m) == (market[m].bonding_k * market[m].total_positions) \div BONDING_PRECISION

\* Mutant: the balance grows by the amount of the position.
CreditedWithPremium(tx) == pool_balance + tx.amount + Premium(tx.market)

Credited(tx) == pool_balance + tx.amount

TakePosition(tx) == Land(tx,
    /\ AmountAllowed(tx.amount) /\ Active(tx.market) /\ InWindow(tx.market)
    /\ tx.index = Len(position)
    /\ Fits(market[tx.market].bonding_k * market[tx.market].total_positions)
    /\ Fits(tx.amount + Premium(tx.market)) /\ Fits(Len(position) + 1)
    /\ Fits(pool_balance + tx.amount) /\ Fits(market[tx.market].total_positions + 1)
    /\ Fits(market[tx.market].total_volume + tx.amount),
    /\ position' = Append(position,
         [trader |-> tx.user, market |-> tx.market, outcome |-> tx.outcome,
          long |-> tx.long, entry_probability |-> market[tx.market].probabilities[tx.outcome],
          amount |-> tx.amount + Premium(tx.market), is_claimed |-> FALSE,
          created_at |-> now])
    /\ vault' = vault + tx.amount /\ pool_balance' = Credited(tx)
    /\ market' = [market EXCEPT ![tx.market].total_positions = @ + 1,
                                ![tx.market].total_volume = @ + tx.amount]
    /\ UNCHANGED <<live, pool, registry, total_agents>>)

\* Accounts created by `init` belong to the program. The vault is a bare address
\* that transfers fund: it belongs to the system program, and the runtime refuses
\* a transaction in which this program takes lamports from it.
ProgramOwned == {"platform", "market", "position", "competition_pool",
                 "agent_registry", "agent"}

Won(p) == p.long <=> p.outcome = market[p.market].winning_outcome

Shift(p) == Diff(market[p.market].probabilities[p.outcome], p.entry_probability)
BaseReward(p) == (p.amount * Shift(p)) \div PROBABILITY_DECIMALS

Reward(p) == IF Won(p) THEN p.amount + (BaseReward(p) * POOL_MULTIPLIER) \div 100
             ELSE (p.amount * 50) \div 100

\* no product or sum of the calculation overflows
RewardFits(p) ==
    IF Won(p) THEN /\ Fits(p.amount * Shift(p)) /\ Fits(BaseReward(p) * POOL_MULTIPLIER)
                   /\ Fits(Reward(p))
    ELSE Fits(p.amount * 50)

ClaimReward(tx) == Land(tx,
    /\ tx.position \in DOMAIN position /\ position[tx.position].trader = tx.user
    /\ ~position[tx.position].is_claimed /\ Settled(position[tx.position].market)
    /\ RewardFits(position[tx.position])
    /\ Reward(position[tx.position]) <= pool_balance
    /\ "vault" \in ProgramOwned \/ Reward(position[tx.position]) = 0
    /\ Reward(position[tx.position]) <= vault,
    LET reward == Reward(position[tx.position]) IN
    /\ vault' = vault - reward /\ pool_balance' = pool_balance - reward
    /\ position' = [position EXCEPT ![tx.position].is_claimed = TRUE]
    /\ UNCHANGED <<live, market, pool, registry, total_agents>>)

-----------------------------------------------------------------------------
\* Competition pools

\* compared with a stake before the first stake sets it
MaxStake(m) == pool[m].max_stake_per_user

StakePool(tx) ==
    LET p == pool[tx.market]
        fee == (tx.amount * PLATFORM_FEE_BPS) \div 10000
    IN Land(tx,
    /\ AmountAllowed(tx.amount) /\ Active(tx.market) /\ InWindow(tx.market)
    /\ tx.amount <= MaxStake(tx.market)
    /\ Fits(tx.amount * PLATFORM_FEE_BPS) /\ fee <= tx.amount
    /\ Fits(p.total_staked + tx.amount) /\ Fits(pool_balance + tx.amount),
    /\ pool' = [pool EXCEPT ![tx.market] =
         [total_staked |-> p.total_staked + tx.amount,
          distributable_pool |-> p.distributable_pool + tx.amount - fee,
          max_stake_per_user |-> IF p.total_staked = 0 THEN MAX_POSITION_AMOUNT
                                 ELSE p.max_stake_per_user,
          is_settled |-> p.is_settled, lamports |-> p.lamports + tx.amount]]
    /\ pool_balance' = pool_balance + tx.amount
    /\ UNCHANGED <<live, market, position, registry, total_agents, vault>>)

Disbursed(m, amount) == [pool EXCEPT ![m].distributable_pool = @ - amount,
                                     ![m].lamports = @ - amount]

ClaimPoolPrize(tx) ==
    LET p == position[tx.position]
        q == pool[p.market]
        share == (p.amount * q.distributable_pool)
                    \div (IF q.total_staked = 0 THEN 1 ELSE q.total_staked)
        prize == IF share < q.distributable_pool THEN share ELSE q.distributable_pool
    IN Land(tx,
    /\ tx.position \in DOMAIN position /\ p.trader = tx.user /\ ~p.is_claimed
    /\ Settled(p.market) /\ q.is_settled /\ Won(p)
    /\ Fits(p.amount * q.distributable_pool) /\ prize <= q.lamports,
    /\ pool' = Disbursed(p.market, prize)
    /\ position' = [position EXCEPT ![tx.position].is_claimed = TRUE]
    /\ UNCHANGED <<live, pool_balance, market, registry, total_agents, vault>>)

AdminDisbursePrize(tx) == Land(tx,
    /\ tx.market \in DOMAIN market /\ pool[tx.market].is_settled
    /\ tx.amount <= pool[tx.market].distributable_pool
    /\ tx.amount <= pool[tx.market].lamports,
    /\ pool' = Disbursed(tx.market, tx.amount)
    /\ UNCHANGED <<live, pool_balance, market, position, registry, total_agents, vault>>)

-----------------------------------------------------------------------------
\* Agents

RegisterAgentUser(tx) == Land(tx, registry[tx.user] = -1,
    /\ registry' = [registry EXCEPT ![tx.user] = 0]
    /\ UNCHANGED <<live, pool_balance, market, position, pool, total_agents, vault>>)

\* Mutant: the quota is compared with <=.
DeployOneMore(tx) == Land(tx,
    /\ registry[tx.user] \in 0 .. MAX_FREE_DEPLOYS
    /\ Active(tx.market) /\ InWindow(tx.market) /\ tx.index = total_agents
    /\ Fits(total_agents + 1),
    /\ registry' = [registry EXCEPT ![tx.user] = @ + 1]
    /\ total_agents' = total_agents + 1
    /\ UNCHANGED <<live, pool_balance, market, position, pool, vault>>)

DeployAgent(tx) == Land(tx,
    /\ registry[tx.user] \in 0 .. MAX_FREE_DEPLOYS - 1
    /\ Active(tx.market) /\ InWindow(tx.market) /\ tx.index = total_agents
    /\ Fits(total_agents + 1),
    /\ registry' = [registry EXCEPT ![tx.user] = @ + 1]
    /\ total_agents' = total_agents + 1
    /\ UNCHANGED <<live, pool_balance, market, position, pool, vault>>)

-----------------------------------------------------------------------------
\* Clients send what they like, with addresses derived from the present counters.

Transactions ==
    {[kind |-> "initialize", amount |-> d] : d \in Amount}
    \union {[kind |-> "create_market", index |-> Len(market), probabilities |-> p,
             window |-> w, bonding_k |-> k] :
            p \in Probabilities, w \in Window, k \in BondingK}
    \union {[kind |-> "update_probabilities", market |-> m, probabilities |-> p] :
            m \in DOMAIN market, p \in Probabilities}
    \union {[kind |-> "settle_market", market |-> m, outcome |-> o] :
            m \in DOMAIN market, o \in Outcome}
    \union {[kind |-> "take_position", user |-> u, market |-> m, index |-> Len(position),
             outcome |-> o, long |-> d, amount |-> n] :
            u \in User, m \in DOMAIN market, o \in Outcome, d \in BOOLEAN, n \in Amount}
    \union {[kind |-> k, user |-> u, position |-> i] :
            k \in {"claim_reward", "claim_pool_prize"}, u \in User, i \in DOMAIN position}
    \union {[kind |-> "stake_pool", user |-> u, market |-> m, amount |-> n] :
            u \in User, m \in DOMAIN market, n \in Amount}
    \union {[kind |-> "admin_disburse_prize", market |-> m, amount |-> n] :
            m \in DOMAIN market, n \in Amount}
    \union {[kind |-> "register_agent_user", user |-> u] : u \in User}
    \union {[kind |-> "deploy_agent", user |-> u, market |-> m, index |-> total_agents] :
            u \in User, m \in DOMAIN market}

Send(tx) ==
    /\ tx.kind = "create_market" => Len(market) < MAX_MARKETS
    /\ tx.kind = "take_position" => Len(position) < MAX_POSITIONS
    /\ inFlight' = inFlight \union {tx}
    /\ UNCHANGED <<now, accounts>>

Expire(tx) == inFlight' = inFlight \ {tx} /\ UNCHANGED <<now, accounts>>

Tick == now < MAX_TIME /\ now' = now + 1 /\ UNCHANGED <<inFlight, accounts>>

Execute(tx) ==
    \/ tx.kind = "initialize" /\ InitializePlatform(tx)
    \/ tx.kind = "create_market" /\ CreateMarket(tx)
    \/ tx.kind = "update_probabilities" /\ UpdateProbabilities(tx)
    \/ tx.kind = "settle_market" /\ SettleMarket(tx)
    \/ tx.kind = "take_position" /\ TakePosition(tx)
    \/ tx.kind = "claim_reward" /\ ClaimReward(tx)
    \/ tx.kind = "stake_pool" /\ StakePool(tx)
    \/ tx.kind = "claim_pool_prize" /\ ClaimPoolPrize(tx)
    \/ tx.kind = "admin_disburse_prize" /\ AdminDisbursePrize(tx)
    \/ tx.kind = "register_agent_user" /\ RegisterAgentUser(tx)
    \/ tx.kind = "deploy_agent" /\ DeployAgent(tx)

Next ==
    \/ Cardinality(inFlight) < MAX_IN_FLIGHT /\ \E tx \in Transactions : Send(tx)
    \/ \E tx \in inFlight : Execute(tx) \/ Expire(tx)
    \/ Tick

Spec == Init /\ [][Next]_vars

-----------------------------------------------------------------------------
\* The type invariant: a registry never counts more deployments than its quota and
\* every counter, total and lamport balance is a u64.
TypeOK ==
    /\ now \in 0..MAX_TIME /\ live \in BOOLEAN /\ vault \in 0..U64
    /\ pool_balance \in 0..U64 /\ total_agents \in 0..U64
    /\ market \in Seq(Market) /\ position \in Seq(Position)
    /\ DOMAIN market \subseteq Pubkey /\ Fits(Len(market)) /\ Fits(Len(position))
    /\ registry \in [User -> -1 .. MAX_FREE_DEPLOYS]
    /\ pool \in [Pubkey -> Pool]

Of(m) == {i \in DOMAIN position : position[i].market = m}
Volume(m) == market[m].total_volume

\* The books are balanced: pool_balance, which claims are paid from, is what
\* the vaults hold, and every market counts the positions on it, whose amounts,
\* premiums included, are not less than what was transferred for them
\* (take_position.rs:62-107, stake_pool.rs:62-87).
BooksBalance ==
    /\ pool_balance = vault + MapThenSumSet(LAMBDA m : pool[m].lamports, Pubkey)
    /\ MapThenSumSet(Volume, DOMAIN market) <= vault
    /\ \A m \in DOMAIN market :
        /\ market[m].total_positions = Cardinality(Of(m))
        /\ Volume(m) <= MapThenSumSet(LAMBDA i : position[i].amount, Of(m))

\* No position is taken outside the competition (an end that is not positive means
\* that it has none) or after the outcome is known, whenever the transaction was
\* sent (take_position.rs:20-30).
OpenedInTime ==
    \A i \in DOMAIN position : LET p == position[i] IN
        /\ p.created_at >= market[p.market].window[1]
        /\ market[p.market].window[2] > 0 => p.created_at < market[p.market].window[2]
        /\ Settled(p.market) => p.created_at <= market[p.market].settled_at

\* What rewards are computed from is final once the market is settled: its
\* outcome, its probabilities and the positions on it, whatever was in flight
\* (update_probabilities.rs:15, settle_market.rs:13, take_position.rs:21).
SettledIsFinal ==
    [][\A m \in DOMAIN market : Settled(m) =>
        /\ market'[m] = market[m]
        /\ Of(m)' = Of(m)
        /\ \A i \in Of(m) : [position'[i] EXCEPT !.is_claimed = FALSE]
                            = [position[i] EXCEPT !.is_claimed = FALSE]]_vars

-----------------------------------------------------------------------------
\* What the repository says of the program, and the program does not do

\* An active market takes the first stake of its pool, up to the maximum of 10 SOL
\* (README of the programs, 3.3: locks the amount into the pool's vault under that
\* limit; stake_pool.rs:31-38; state.rs:162).
FirstStakeIsTaken ==
    [][\A tx \in inFlight :
          /\ tx.kind = "stake_pool" /\ Execute(tx)
          /\ pool[tx.market] = ZeroPool /\ AmountAllowed(tx.amount)
          /\ Active(tx.market) /\ InWindow(tx.market)
          /\ Fits(tx.amount * PLATFORM_FEE_BPS) /\ Fits(pool_balance + tx.amount)
          => pool'[tx.market].total_staked = tx.amount]_vars
=============================================================================
