---------------------------- MODULE StakePoolProofs ----------------------------
(***************************************************************************)
(* Types, the finality of settlements, what a settlement hands out and     *)
(* that what came in covers it, for any users, agents, competitions,       *)
(* stakes and overlapping calls. The first part, finality, follows         *)
(* statuses and the identity of the winner rows only; the second bounds    *)
(* every row and computes with the prizes; the third traces every row and  *)
(* every total back to the calls that paid for them.                       *)
(***************************************************************************)
EXTENDS StakePool, SumTheorems, TLAPS

\* The tables that settlement reads and writes are functions on the
\* competitions; every request stands for a call on one of them.
TableShape ==
    /\ pool = [c \in Competition |-> pool[c]]
    /\ winners = [c \in Competition |-> winners[c]]
    /\ call \in [Request -> Call]

\* What a step that is not a settlement does to the pools
StatusKept ==
    /\ pool' = [c \in Competition |-> pool'[c]]
    /\ \A c \in Competition : pool'[c].status = pool[c].status
    /\ UNCHANGED winners

\* What WinnersFinal asks of one step
SettledStays ==
    \A c \in Competition : pool[c].status = "settled" =>
        /\ pool'[c].status = "settled"
        /\ winners'[c] \subseteq winners[c]
        /\ \A w \in winners[c] : w.agent \in agents' => w \in winners'[c]

-----------------------------------------------------------------------------
\* What the actions do to pool and winners

LEMMA CompOfCall ==
    ASSUME call \in [Request -> Call], NEW r \in Request
    PROVE  call[r].comp \in Competition
  BY ConstantsAssumption DEF ConstantsAssumption, CallType

LEMMA TotalUpdate ==
    ASSUME TableShape, NEW k \in Competition, NEW n,
           pool' = [pool EXCEPT ![k] = PoolWithTotal(k, n)], UNCHANGED winners
    PROVE  StatusKept
  BY DEF TableShape, PoolWithTotal, StatusKept

LEMMA NothingKept ==
    ASSUME TableShape, UNCHANGED <<pool, winners>>
    PROVE  StatusKept
  BY DEF TableShape, StatusKept

LEMMA SettledUpdate ==
    ASSUME TableShape, NEW k \in Competition,
           pool' = [pool EXCEPT ![k] = PoolSettled(k)]
    PROVE  /\ pool' = [c \in Competition |-> pool'[c]]
           /\ \A c \in Competition :
                 pool'[c].status = IF c = k THEN "settled" ELSE pool[c].status
  BY DEF TableShape, PoolSettled

LEMMA DeletionKeepsStatus ==
    ASSUME TableShape, NEW k \in Competition, NEW users, RemoveStakes(k, users),
           UNCHANGED winners
    PROVE  StatusKept
<1>1. CASE DeleteTrigger /\ users # {}
  <2> DEFINE rows == [u \in User |-> IF u \in users THEN NoRow ELSE stake[k][u]]
  <2>1. pool' = [pool EXCEPT ![k] = PoolWithTotal(k, Total(rows))]
    BY <1>1 DEF RemoveStakes
  <2> HIDE DEF rows
  <2> QED BY <2>1, TotalUpdate
<1>2. CASE ~(DeleteTrigger /\ users # {})
  BY <1>2, NothingKept DEF RemoveStakes
<1> QED BY <1>1, <1>2

\* Every step but three leaves statuses and winners alone.
LEMMA CallStep ==
    ASSUME TableShape, NEW r \in Request, RequestStep(r)
    PROVE  \/ StatusKept
           \/ DeleteAgent(r)
           \/ SettlePool(r)
           \/ ForceSettled(r)
<1> USE DEF tables
<1>1. CASE StartWager(r)
  BY <1>1, NothingKept DEF StartWager
<1>2. CASE FetchPayment(r)
  BY <1>2, NothingKept DEF FetchPayment
<1>3. CASE CheckReplay(r)
  BY <1>3, NothingKept DEF CheckReplay
<1>4. CASE InsertWager(r)
  BY <1>4, NothingKept DEF InsertWager
<1>5. CASE LookupStake(r)
  BY <1>5, NothingKept DEF LookupStake
<1>6. CASE StartStake(r)
  BY <1>6, NothingKept DEF StartStake
<1>7. CASE InsertStake(r)
  BY <1>7, NothingKept DEF InsertStake
<1>8. CASE UpdateStake(r)
  BY <1>8, NothingKept DEF UpdateStake
<1>9. CASE CountStakes(r)
  BY <1>9, NothingKept DEF CountStakes
<1>10. CASE ActivateEntry(r)
  BY <1>10, NothingKept DEF ActivateEntry
<1>11. CASE DeleteEntries(r)
  BY <1>11, NothingKept DEF DeleteEntries
<1>12. CASE CloseCompetition(r)
  BY <1>12, NothingKept DEF CloseCompetition
<1>13. CASE ReadTotal(r)
  BY <1>13, NothingKept DEF ReadTotal
<1>14. CASE DeleteStake(r)
  <2> USE CompOfCall DEF TableShape
  <2>1. CASE UNCHANGED <<stake, pool>>
    BY <1>14, <2>1, NothingKept DEF DeleteStake
  <2>2. CASE ~UNCHANGED <<stake, pool>>
    <3>1. PICK users : RemoveStakes(call[r].comp, users)
      BY <1>14, <2>2 DEF DeleteStake
    <3> QED BY <1>14, <3>1, CompOfCall, DeletionKeepsStatus DEF DeleteStake
  <2> QED BY <2>1, <2>2
<1>15. CASE CommitStake(r)
  BY <1>15, CompOfCall, TotalUpdate DEF CommitStake, TableShape
<1> QED BY <1>1, <1>2, <1>3, <1>4, <1>5, <1>6, <1>7, <1>8, <1>9, <1>10, <1>11, <1>12, <1>13, <1>14, <1>15 DEF RequestStep

-----------------------------------------------------------------------------
\* The three exceptions: the cascade of a deleted agent takes its own winner
\* rows only; a pool is settled, and winners inserted, only while pending.

LEMMA DeleteAgentStep ==
    ASSUME TableShape, NEW r \in Request, DeleteAgent(r)
    PROVE  TableShape' /\ SettledStays
<1>1. CASE UNCHANGED <<agents, stake, pool, winners>>
  BY <1>1 DEF DeleteAgent, locals, TableShape, SettledStays
<1>2. CASE ~UNCHANGED <<agents, stake, pool, winners>>
  <2> DEFINE a == call[r].agent
             Backers(c) == {u \in Staked(stake[c]) : stake[c][u].agent = a}
             Kept(c) == [u \in User |-> IF u \in Backers(c) THEN NoRow ELSE stake[c][u]]
             Recounted(c) == DeleteTrigger /\ Backers(c) # {}
             total(c) == Total(Kept(c))
  <2>1. /\ agents' = agents \ {a}
        /\ winners' = [c \in Competition |-> {w \in winners[c] : w.agent # a}]
        /\ UNCHANGED call
    BY <1>2 DEF DeleteAgent, locals
  <2>2. \A c \in Competition : pool'[c].status = pool[c].status
    <3>1. pool' = [c \in Competition |->
                     IF Recounted(c) THEN PoolWithTotal(c, total(c)) ELSE pool[c]]
      BY <1>2 DEF DeleteAgent
    <3>. HIDE DEF Recounted, total
    <3>. QED BY <3>1 DEF PoolWithTotal
  <2>3. pool' = [c \in Competition |-> pool'[c]]
    BY <1>2 DEF DeleteAgent
  <2>4. TableShape'
    <3>1. winners' = [c \in Competition |-> winners'[c]]
      BY <2>1
    <3>2. call' \in [Request -> Call]
      BY <2>1 DEF TableShape
    <3>. QED BY <2>3, <3>1, <3>2 DEF TableShape
  <2>5. SettledStays
    BY <2>1, <2>2 DEF TableShape, SettledStays
  <2> QED BY <2>4, <2>5
<1> QED BY <1>1, <1>2

LEMMA SettlePoolStep ==
    ASSUME TableShape, NEW r \in Request, SettlePool(r)
    PROVE  TableShape' /\ SettledStays
<1> DEFINE k == call[r].comp
<1>1. k \in Competition
  BY CompOfCall DEF TableShape
<1>2. CASE UNCHANGED <<pool, winners, open>>
  BY <1>2 DEF SettlePool, locals, TableShape, SettledStays
<1>3. CASE ~UNCHANGED <<pool, winners, open>>
  <2>1. pool[k].status = "pending" /\ UNCHANGED call
    BY <1>3 DEF SettlePool, locals
  <2>2. PICK w : winners' = [winners EXCEPT ![k] = w]
    BY <1>3 DEF SettlePool
  <2>3. pool' = [pool EXCEPT ![k] = PoolSettled(k)]
    BY <1>3 DEF SettlePool
  <2> HIDE DEF k
  <2>4. TableShape'
    BY <1>1, <2>1, <2>2, <2>3, SettledUpdate DEF TableShape
  <2>5. SettledStays
    BY <1>1, <2>1, <2>2, <2>3, SettledUpdate DEF TableShape, SettledStays
  <2> QED BY <2>4, <2>5
<1> QED BY <1>2, <1>3

LEMMA ForceSettledStep ==
    ASSUME TableShape, NEW r \in Request, ForceSettled(r)
    PROVE  TableShape' /\ SettledStays
<1> DEFINE k == call[r].comp
<1>1. k \in Competition
  BY CompOfCall DEF TableShape
<1>2. pool' = [pool EXCEPT ![k] = PoolSettled(k)] /\ UNCHANGED <<winners, call>>
  BY DEF ForceSettled, locals
<1> HIDE DEF k
<1> QED BY <1>1, <1>2, SettledUpdate DEF TableShape, SettledStays

LEMMA QuietStep ==
    ASSUME TableShape, StatusKept, UNCHANGED call
    PROVE  TableShape' /\ SettledStays
  BY DEF TableShape, StatusKept, SettledStays

LEMMA NextStep ==
    ASSUME TableShape, [Next]_vars
    PROVE  TableShape' /\ SettledStays
<1>1. CASE UNCHANGED vars
  BY <1>1, NothingKept, QuietStep DEF vars
<1>2. CASE Restart
  BY <1>2, NothingKept, QuietStep DEF Restart, tables, locals
<1>3. ASSUME NEW r \in Request, RequestStep(r)
      PROVE  TableShape' /\ SettledStays
  <2>1. UNCHANGED call
    BY <1>3 DEF RequestStep, locals, StartWager, FetchPayment, CheckReplay, InsertWager,
       LookupStake, StartStake, InsertStake, UpdateStake, DeleteStake, CountStakes,
       CommitStake, ActivateEntry, DeleteEntries, DeleteAgent, CloseCompetition,
       SettlePool, ReadTotal, ForceSettled
  <2> QED BY <1>3, <2>1, CallStep, QuietStep, DeleteAgentStep, SettlePoolStep, ForceSettledStep
<1> QED BY <1>1, <1>2, <1>3 DEF Next

-----------------------------------------------------------------------------
\* Only settle_competition_pool and the forced status of settleAndReplenish
\* change the status of a pool, and never back from settled.
LEMMA ShapeIsInvariant == Spec => []TableShape
<1>1. Init => TableShape
  BY DEF Init, TableShape
<1>2. TableShape /\ [Next]_vars => TableShape'
  BY NextStep
<1> QED BY <1>1, <1>2, PTL DEF Spec

\* Settlement is final: after settle_competition_pool has committed, no
\* overlap of cron, retry, fallback, wager, stake and deletion changes the
\* winners of the competition, except that deleting an agent deletes its rows.
THEOREM SettlementIsFinal == Spec => WinnersFinal
<1>1. TableShape /\ [Next]_vars =>
        [\A c \in Competition : pool[c].status = "settled" =>
            /\ pool'[c].status = "settled"
            /\ winners'[c] \subseteq winners[c]
            /\ \A w \in winners[c] : w.agent \in agents' => w \in winners'[c]]_vars
  BY NextStep DEF SettledStays
<1> QED BY <1>1, ShapeIsInvariant, PTL DEF Spec, WinnersFinal

-----------------------------------------------------------------------------
\* Types and bounds of the rows

RowsInBounds ==
    /\ \A c \in Competition : \A u \in Staked(stake[c]) : InBounds(stake[c][u].amount)
    /\ \A r \in Request : write[r] # NoRow => InBounds(write[r].row.amount)

\* Only wagers fetch a payment.
Fetching == \A r \in Request : pc[r] = "fetch" => call[r].op = "wager"

IInv == TypeOK /\ RowsInBounds /\ Fetching

Rows == [User -> Stake \union {NoRow}]

LEMMA CallFields ==
    ASSUME TypeOK, NEW r \in Request
    PROVE  /\ call[r].op \in {"wager", "stake", "settle", "delete"}
           /\ call[r].user \in User /\ call[r].agent \in Agent
           /\ call[r].comp \in Competition /\ call[r].amount \in Nat
           /\ call[r].tx \in Payment \union {NoPayment}
           /\ (call[r].op = "wager" => call[r].tx \in Payment)
<1>1. call[r] \in Call /\ Call \subseteq CallType
  BY ConstantsAssumption DEF TypeOK, ConstantsAssumption
<1>2. call[r].op = "wager" => call[r].tx \in Payment
  BY <1>1, ConstantsAssumption DEF ConstantsAssumption
<1>. QED BY <1>1, <1>2 DEF CallType

LEMMA TotalSum ==
    ASSUME NEW rows \in Rows
    PROVE  LET S == Staked(rows)
               f == [u \in S |-> rows[u].amount]
           IN  IsFiniteSet(S) /\ (\A u \in S : f[u] \in Nat) /\ Total(rows) = SumOf(f, S)
<1>. DEFINE S == Staked(rows)
            f == [u \in S |-> rows[u].amount]
            Sums(g) == g = [s \in SUBSET S |->
                  IF s = {} THEN 0 ELSE rows[Chosen(s)].amount + g[s \ {Chosen(s)}]]
            g == CHOOSE g : Sums(g)
<1>0. IsFiniteSet(S) /\ \A u \in S : f[u] \in Nat
  <2>1. S \in SUBSET User /\ IsFiniteSet(User)
    BY ConstantsAssumption DEF Staked, ConstantsAssumption
  <2>2. \A u \in S : rows[u] \in Stake
    BY DEF Staked, Rows
  <2>. QED BY <2>1, <2>2, FS_Subset DEF Stake
<1>1. PICK h : Summing(h, f, S)
  BY <1>0, TableExists
<1>2. \A s \in SUBSET S : s # {} => f[Chosen(s)] = rows[Chosen(s)].amount
  BY ChosenIn
<1>3. \A k : Summing(k, f, S) <=> Sums(k)
  BY <1>2 DEF Summing
<1>4. Summing(g, f, S)
  BY <1>1, <1>3
<1>5. MapThenSumSet(LAMBDA u : rows[u].amount, S) = g[S]
  BY Zenon DEF MapThenSumSet, MapThenFoldSet, Chosen
<1>6. Total(rows) = SumOf(f, S)
  BY <1>0, <1>4, <1>5, SumIs DEF Total
<1>. QED BY <1>0, <1>6

LEMMA TotalType ==
    ASSUME NEW rows \in Rows
    PROVE  Total(rows) \in Nat
<1>. DEFINE S == Staked(rows)
            f == [u \in S |-> rows[u].amount]
<1>1. IsFiniteSet(S) /\ (\A u \in S : f[u] \in Nat) /\ Total(rows) = SumOf(f, S)
  BY TotalSum
<1>. QED BY <1>1, SumType

-----------------------------------------------------------------------------
\* Rounding to whole units

LEMMA Division ==
    ASSUME NEW n \in Nat, NEW d \in Nat, d > 0
    PROVE  /\ n \div d \in Nat
           /\ d * (n \div d) <= n /\ n < d * (n \div d) + d
  OBVIOUS

LEMMA RoundedBounds ==
    ASSUME NEW n \in Nat, NEW d \in Nat, d > 0
    PROVE  /\ Rounded(n, d) \in Nat
           /\ 2 * (d * Rounded(n, d)) <= 2 * n + d
           /\ 2 * n - d <= 2 * (d * Rounded(n, d))
<1>. DEFINE m == 2 * n + d
            e == 2 * d
            q == m \div e
<1>1. m \in Nat /\ e \in Nat /\ e > 0
  OBVIOUS
<1>2. q \in Nat /\ e * q <= m /\ m < e * q + e
  <2>. HIDE DEF m, e
  <2>. QED BY <1>1, Division
<1>3. Rounded(n, d) = q
  BY DEF Rounded
<1>. HIDE DEF q
<1>4. e * q = 2 * (d * q) /\ d * q \in Nat
  BY <1>2
<1>. QED BY <1>2, <1>3, <1>4

-----------------------------------------------------------------------------
\* What a settlement inserts

\* Candidates are finitely many, and each has staked something.
LEMMA CandidateTypes ==
    ASSUME IInv, NEW c \in Competition, NEW scored \in SUBSET agents
    PROVE  /\ IsFiniteSet(Candidates(c, scored))
           /\ \A x \in Candidates(c, scored) :
                 x.agent \in Agent /\ x.stake \in Nat /\ x.stake > 0
<1>. DEFINE cand == Candidates(c, scored)
            Entry(a, u) == [agent |-> a, stake |-> stake[c][u].amount, user |-> u]
            g == [p \in Agent \X User |-> Entry(p[1], p[2])]
            T == {g[p] : p \in Agent \X User}
<1>1. \A x \in cand : \E a \in Agent : \E u \in Staked(stake[c]) : x = Entry(a, u)
  <2>1. scored \subseteq Agent
    BY DEF IInv, TypeOK
  <2>. QED BY <2>1 DEF Candidates
<1>2. \A u \in Staked(stake[c]) : u \in User /\ stake[c][u] \in Stake /\ InBounds(stake[c][u].amount)
  BY DEF IInv, TypeOK, RowsInBounds, Staked
<1>3. \A u \in Staked(stake[c]) : stake[c][u].amount \in Nat /\ stake[c][u].amount > 0
  BY <1>2, ConstantsAssumption DEF Stake, InBounds, ConstantsAssumption
<1>4. \A x \in cand : x.agent \in Agent /\ x.stake \in Nat /\ x.stake > 0
  <2>. HIDE DEF cand
  <2>. QED BY <1>1, <1>3
<1>5. IsFiniteSet(T)
  <2>1. IsFiniteSet(Agent \X User)
    BY FS_Product, ConstantsAssumption DEF ConstantsAssumption
  <2>2. g \in Surjection(Agent \X User, T)
    BY DEF Surjection
  <2>. HIDE DEF g, T
  <2>. QED BY <2>1, <2>2, FS_Surjection
<1>6. cand \in SUBSET T
  <2>1. SUFFICES ASSUME NEW x \in cand PROVE x \in T
    OBVIOUS
  <2>2. PICK a \in Agent : \E u \in Staked(stake[c]) : x = Entry(a, u)
    BY <1>1
  <2>3. PICK u \in Staked(stake[c]) : x = Entry(a, u)
    BY <2>2
  <2>4. <<a, u>> \in Agent \X User /\ g[<<a, u>>] = x
    BY <1>2, <2>3
  <2>. HIDE DEF g
  <2>. QED BY <2>4
<1>7. IsFiniteSet(cand)
  <2>. HIDE DEF cand, T
  <2>. QED BY <1>5, <1>6, FS_Subset
<1>. QED BY <1>4, <1>7

\* Sums over at most three
LEMMA SumOne ==
    ASSUME NEW f, NEW x, f[x] \in Nat
    PROVE  SumOf(f, {x}) = f[x]
<1>1. IsFiniteSet({}) /\ {} \union {x} = {x} /\ x \notin {}
  BY FS_EmptySet
<1>2. SumOf(f, {} \union {x}) = SumOf(f, {}) + f[x]
  BY <1>1, SumAdd
<1>. QED BY <1>1, <1>2, SumEmpty

LEMMA SumTwo ==
    ASSUME NEW f, NEW x, NEW y, x # y, f[x] \in Nat, f[y] \in Nat
    PROVE  SumOf(f, {x, y}) = f[x] + f[y]
<1>1. IsFiniteSet({x}) /\ {x} \union {y} = {x, y} /\ y \notin {x}
  BY FS_Singleton
<1>2. SumOf(f, {x} \union {y}) = SumOf(f, {x}) + f[y]
  BY <1>1, SumAdd
<1>. QED BY <1>1, <1>2, SumOne

LEMMA SizesUpToThree ==
    ASSUME NEW x, NEW y, NEW z, x # y, x # z, y # z
    PROVE  /\ IsFiniteSet({x}) /\ Cardinality({x}) = 1
           /\ IsFiniteSet({x, y}) /\ Cardinality({x, y}) = 2
           /\ IsFiniteSet({x, y, z}) /\ Cardinality({x, y, z}) = 3
<1>1. IsFiniteSet({x}) /\ Cardinality({x}) = 1
  BY FS_Singleton
<1>2. IsFiniteSet({x} \union {y}) /\ Cardinality({x} \union {y}) = 2
  BY <1>1, FS_AddElement
<1>3. {x} \union {y} = {x, y} /\ {x, y} \union {z} = {x, y, z}
  OBVIOUS
<1>4. IsFiniteSet({x, y} \union {z}) /\ Cardinality({x, y} \union {z}) = 3
  BY <1>2, <1>3, FS_AddElement
<1>. QED BY <1>1, <1>2, <1>3, <1>4

LEMMA PrizeSum ==
    ASSUME NEW W, IsFiniteSet(W)
    PROVE  MapThenSumSet(LAMBDA w : w.prize, W) = SumOf([w \in W |-> w.prize], W)
<1>. DEFINE f == [w \in W |-> w.prize]
            Sums(g) == g = [s \in SUBSET W |->
                  IF s = {} THEN 0 ELSE Chosen(s).prize + g[s \ {Chosen(s)}]]
            g == CHOOSE g : Sums(g)
<1>1. PICK h : Summing(h, f, W)
  BY TableExists
<1>2. \A s \in SUBSET W : s # {} => f[Chosen(s)] = Chosen(s).prize
  BY ChosenIn
<1>3. \A k : Summing(k, f, W) <=> Sums(k)
  BY <1>2 DEF Summing
<1>4. Summing(g, f, W)
  BY <1>1, <1>3
<1>5. MapThenSumSet(LAMBDA w : w.prize, W) = g[W]
  BY Zenon DEF MapThenSumSet, MapThenFoldSet, Chosen
<1>. QED BY <1>4, <1>5, SumIs

LEMMA SharesSum ==
    ASSUME NEW S, IsFiniteSet(S), NEW ranked
    PROVE  MapThenSumSet(LAMBDA i : ranked[i].stake * RankWeight[i], S)
             = SumOf([i \in S |-> ranked[i].stake * RankWeight[i]], S)
<1>. DEFINE f == [i \in S |-> ranked[i].stake * RankWeight[i]]
            Sums(g) == g = [s \in SUBSET S |->
                  IF s = {} THEN 0
                  ELSE ranked[Chosen(s)].stake * RankWeight[Chosen(s)] + g[s \ {Chosen(s)}]]
            g == CHOOSE g : Sums(g)
<1>1. PICK h : Summing(h, f, S)
  BY TableExists
<1>2. \A s \in SUBSET S : s # {} =>
         f[Chosen(s)] = ranked[Chosen(s)].stake * RankWeight[Chosen(s)]
  BY ChosenIn
<1>3. \A k : Summing(k, f, S) <=> Sums(k)
  <2>. HIDE DEF f
  <2>. QED BY <1>2 DEF Summing
<1>4. Summing(g, f, S)
  BY <1>1, <1>3
<1>5. MapThenSumSet(LAMBDA i : ranked[i].stake * RankWeight[i], S) = g[S]
  BY Zenon DEF MapThenSumSet, MapThenFoldSet, Chosen
<1>. QED BY <1>4, <1>5, SumIs

-----------------------------------------------------------------------------
\* Shares of n, rounded one by one, add up to n but for the roundings.

LEMMA Cancel ==
    ASSUME NEW d \in Nat, d > 0, NEW n \in Int
    PROVE  (d * n <= 0 => n <= 0) /\ (0 <= d * n => 0 <= n)
<1>1. n > 0 => d * n > 0
  OBVIOUS
<1>2. n < 0 => d * n < 0
  OBVIOUS
<1>3. d * n \in Int
  OBVIOUS
<1>. QED BY <1>1, <1>2, <1>3

\* D is shared out in three parts, some of which may be empty (S = 0 is not).
LEMMA SharedOut ==
    ASSUME NEW D \in Nat, NEW s1 \in Nat, NEW s2 \in Nat, NEW s3 \in Nat,
           NEW p1 \in Nat, NEW p2 \in Nat, NEW p3 \in Nat,
           NEW k \in Nat, NEW S \in Nat, S > 0, S = s1 + s2 + s3,
           2 * (S * (p1 + p2 + p3)) <= 2 * (D * S) + k * S,
           2 * (D * S) - k * S <= 2 * (S * (p1 + p2 + p3))
    PROVE  /\ 2 * ((p1 + p2 + p3) - D) <= k
           /\ -(2 * ((p1 + p2 + p3) - D)) <= k
<1>. DEFINE P == p1 + p2 + p3
            hi == 2 * (P - D) - k
            lo == 2 * (P - D) + k
<1>1. P \in Nat /\ hi \in Int /\ lo \in Int
  OBVIOUS
<1>2. S * hi = 2 * (S * P) - 2 * (D * S) - k * S
  <2>. HIDE DEF P
  <2>. QED BY <1>1
<1>3. S * lo = 2 * (S * P) - 2 * (D * S) + k * S
  <2>. HIDE DEF P
  <2>. QED BY <1>1
<1>4. S * P \in Nat /\ D * S \in Nat /\ k * S \in Nat
  <2>. HIDE DEF P
  <2>. QED BY <1>1
<1>5. S * hi <= 0 /\ 0 <= S * lo
  <2>. HIDE DEF P, hi, lo
  <2>1. 2 * (S * P) <= 2 * (D * S) + k * S /\ 2 * (D * S) - k * S <= 2 * (S * P)
    BY DEF P
  <2>. QED BY <1>2, <1>3, <1>4, <2>1
<1>6. hi <= 0 /\ 0 <= lo
  <2>. HIDE DEF hi, lo
  <2>. QED BY <1>1, <1>5, Cancel
<1>. QED BY <1>1, <1>6

LEMMA ShareBounds ==
    ASSUME NEW D \in Nat, NEW s \in Nat, NEW S \in Nat, S > 0
    PROVE  /\ Rounded(D * s, S) \in Nat
           /\ 2 * (S * Rounded(D * s, S)) <= 2 * (D * s) + S
           /\ 2 * (D * s) - S <= 2 * (S * Rounded(D * s, S))
<1>1. D * s \in Nat
  OBVIOUS
<1>. QED BY <1>1, RoundedBounds

LEMMA ThreeShares ==
    ASSUME NEW D \in Nat, NEW s1 \in Nat, NEW s2 \in Nat, NEW s3 \in Nat,
           NEW S \in Nat, S > 0, S = s1 + s2 + s3
    PROVE  LET P == Rounded(D * s1, S) + Rounded(D * s2, S) + Rounded(D * s3, S)
           IN  2 * (P - D) <= 3 /\ -(2 * (P - D)) <= 3
<1>. DEFINE p1 == Rounded(D * s1, S)
            p2 == Rounded(D * s2, S)
            p3 == Rounded(D * s3, S)
<1>1. /\ p1 \in Nat /\ 2 * (S * p1) <= 2 * (D * s1) + S /\ 2 * (D * s1) - S <= 2 * (S * p1)
      /\ p2 \in Nat /\ 2 * (S * p2) <= 2 * (D * s2) + S /\ 2 * (D * s2) - S <= 2 * (S * p2)
      /\ p3 \in Nat /\ 2 * (S * p3) <= 2 * (D * s3) + S /\ 2 * (D * s3) - S <= 2 * (S * p3)
  BY ShareBounds
<1>. HIDE DEF p1, p2, p3
<1>2. S * (p1 + p2 + p3) = S * p1 + S * p2 + S * p3
  BY <1>1
<1>3. D * S = D * s1 + D * s2 + D * s3
  OBVIOUS
<1>4. /\ S * p1 \in Nat /\ S * p2 \in Nat /\ S * p3 \in Nat
      /\ D * s1 \in Nat /\ D * s2 \in Nat /\ D * s3 \in Nat
  BY <1>1
<1>5. /\ 2 * (S * (p1 + p2 + p3)) <= 2 * (D * S) + 3 * S
      /\ 2 * (D * S) - 3 * S <= 2 * (S * (p1 + p2 + p3))
  BY <1>1, <1>2, <1>3, <1>4
<1>6. 2 * ((p1 + p2 + p3) - D) <= 3 /\ -(2 * ((p1 + p2 + p3) - D)) <= 3
  BY <1>1, <1>5, SharedOut
<1>. QED BY <1>6 DEF p1, p2, p3

LEMMA TwoShares ==
    ASSUME NEW D \in Nat, NEW s1 \in Nat, NEW s2 \in Nat, NEW S \in Nat, S > 0, S = s1 + s2
    PROVE  LET P == Rounded(D * s1, S) + Rounded(D * s2, S)
           IN  2 * (P - D) <= 2 /\ -(2 * (P - D)) <= 2
<1>. DEFINE p1 == Rounded(D * s1, S)
            p2 == Rounded(D * s2, S)
<1>1. /\ p1 \in Nat /\ 2 * (S * p1) <= 2 * (D * s1) + S /\ 2 * (D * s1) - S <= 2 * (S * p1)
      /\ p2 \in Nat /\ 2 * (S * p2) <= 2 * (D * s2) + S /\ 2 * (D * s2) - S <= 2 * (S * p2)
  BY ShareBounds
<1>. HIDE DEF p1, p2
<1>2. S * (p1 + p2 + 0) = S * p1 + S * p2
  BY <1>1
<1>3. D * S = D * s1 + D * s2
  OBVIOUS
<1>4. S * p1 \in Nat /\ S * p2 \in Nat /\ D * s1 \in Nat /\ D * s2 \in Nat
  BY <1>1
<1>5. /\ 2 * (S * (p1 + p2 + 0)) <= 2 * (D * S) + 2 * S
      /\ 2 * (D * S) - 2 * S <= 2 * (S * (p1 + p2 + 0))
  BY <1>1, <1>2, <1>3, <1>4
<1>6. 2 * ((p1 + p2 + 0) - D) <= 2 /\ -(2 * ((p1 + p2 + 0) - D)) <= 2
  <2>1. S = s1 + s2 + 0
    OBVIOUS
  <2>. QED BY <1>1, <1>5, <2>1, SharedOut
<1>. QED BY <1>1, <1>6 DEF p1, p2

LEMMA OneShare ==
    ASSUME NEW D \in Nat, NEW S \in Nat, S > 0
    PROVE  LET P == Rounded(D * S, S)
           IN  2 * (P - D) <= 1 /\ -(2 * (P - D)) <= 1
<1>. DEFINE p1 == Rounded(D * S, S)
<1>1. /\ p1 \in Nat /\ 2 * (S * p1) <= 2 * (D * S) + S /\ 2 * (D * S) - S <= 2 * (S * p1)
  BY ShareBounds
<1>. HIDE DEF p1
<1>2. S * (p1 + 0 + 0) = S * p1 /\ 1 * S = S /\ S = S + 0 + 0
  BY <1>1
<1>3. 2 * ((p1 + 0 + 0) - D) <= 1 /\ -(2 * ((p1 + 0 + 0) - D)) <= 1
  BY <1>1, <1>2, SharedOut
<1>. QED BY <1>1, <1>3 DEF p1

-----------------------------------------------------------------------------
\* The prizes of one settlement

PaidOut(W) == SumOf([w \in W |-> w.prize], W)

\* At most three winner rows W hand out n, up to half a unit per row.
HandsOut(W, n) ==
    /\ W \in SUBSET WinnerRow /\ IsFiniteSet(W) /\ Cardinality(W) <= 3
    /\ W # {} => 2 * (PaidOut(W) - n) <= Cardinality(W) /\ -(2 * (PaidOut(W) - n)) <= Cardinality(W)

LEMMA DistributableType ==
    ASSUME IInv, NEW c \in Competition
    PROVE  Distributable(c) \in Nat
<1>1. pool[c].total \in Nat
  BY DEF IInv, TypeOK
<1>. DEFINE m == pool[c].total * 9800
            d == 10000
<1>2. m \in Nat /\ d \in Nat /\ d > 0
  BY <1>1
<1>3. Rounded(m, d) \in Nat
  <2>. HIDE DEF m, d
  <2>. QED BY <1>2, RoundedBounds
<1>. QED BY <1>3 DEF Distributable

LEMMA Weighted ==
    ASSUME NEW k \in Nat, k > 0, NEW m \in {1, 2, 3}
    PROVE  k * m \in Nat /\ k * m > 0
<1>1. k * 1 = k /\ k * 2 = k + k /\ k * 3 = k + k + k
  OBVIOUS
<1>. QED BY <1>1

LEMMA PrizesHandOut ==
    ASSUME IInv, NEW c \in Competition, NEW n \in 0 .. 3, NEW cand, NEW f \in [1 .. n -> cand],
           \A x \in cand : x.agent \in Agent /\ x.stake \in Nat /\ x.stake > 0
    PROVE  HandsOut(Prizes(c, f), Distributable(c))
<1>. DEFINE D == Distributable(c)
            s(i) == f[i].stake * RankWeight[i]
            S == MapThenSumSet(s, 1 .. n)
            F == [i \in 1 .. n |-> f[i].stake * RankWeight[i]]
            row(i) == [rank |-> i, agent |-> f[i].agent, user |-> Owner[f[i].agent],
                       prize |-> Rounded(D * s(i), S)]
            W == Prizes(c, f)
            G == [w \in W |-> w.prize]
<1>1. D \in Nat
  BY DistributableType
<1>2. DOMAIN f = 1 .. n /\ n \in {0, 1, 2, 3}
  OBVIOUS
<1>3. W = {row(i) : i \in 1 .. n}
  BY <1>2 DEF Prizes
<1>4. S = SumOf(F, 1 .. n)
  <2>1. IsFiniteSet(1 .. n)
    BY FS_Interval
  <2>. QED BY <2>1, SharesSum
<1>5. \A i \in 1 .. n : f[i].agent \in Agent /\ Owner[f[i].agent] \in User
                          /\ s(i) \in Nat /\ s(i) > 0 /\ F[i] = s(i) /\ i \in 1 .. 3
  <2>1. ASSUME NEW i \in 1 .. n
        PROVE  f[i].agent \in Agent /\ f[i].stake \in Nat /\ f[i].stake > 0
    OBVIOUS
  <2>2. \A i \in 1 .. 3 : RankWeight[i] \in {1, 2, 3}
    BY DEF RankWeight
  <2>3. \A a \in Agent : Owner[a] \in User
    BY ConstantsAssumption DEF ConstantsAssumption
  <2>4. \A i \in 1 .. n : i \in 1 .. 3
    OBVIOUS
  <2>. QED BY <2>1, <2>2, <2>3, <2>4, Weighted
<1>6. ASSUME S \in Nat, S > 0
      PROVE  \A i \in 1 .. n : row(i) \in WinnerRow
  <2>1. ASSUME NEW i \in 1 .. n PROVE Rounded(D * s(i), S) \in Nat
    <3>1. s(i) \in Nat
      BY <1>5
    <3>. HIDE DEF S, s, D
    <3>. QED BY <1>1, <1>6, <3>1, ShareBounds
  <2>. HIDE DEF S, s, D
  <2>. QED BY <1>5, <2>1 DEF WinnerRow
<1>. HIDE DEF S, s, D, F, W
<1>7. \A i, j \in 1 .. n : i # j => row(i) # row(j)
  <2>1. \A i : row(i).rank = i
    OBVIOUS
  <2>. HIDE DEF row
  <2>. QED BY <2>1
<1>8. \A i : row(i).prize = Rounded(D * s(i), S)
  OBVIOUS
<1>9. \A i \in 1 .. n : G[row(i)] = Rounded(D * s(i), S)
  <2>1. \A i \in 1 .. n : row(i) \in W
    BY <1>3
  <2>. HIDE DEF row
  <2>. QED BY <1>8, <2>1
<1>. HIDE DEF row, G
<1>10. PaidOut(W) = SumOf(G, W)
  BY DEF PaidOut, G
<1>11. CASE n = 0
  <2>1. W = {}
    BY <1>3, <1>11
  <2>. QED BY <2>1, FS_EmptySet DEF HandsOut, W, D
<1>12. CASE n = 1
  <2>1. 1 .. n = {1} /\ W = {row(1)}
    BY <1>3, <1>12
  <2>2. S = s(1) /\ S \in Nat /\ S > 0
    <3>1. F[1] = s(1) /\ s(1) \in Nat /\ s(1) > 0
      BY <1>5, <2>1
    <3>2. SumOf(F, {1}) = F[1]
      BY <3>1, SumOne
    <3>. QED BY <1>4, <2>1, <3>1, <3>2
  <2>3. Rounded(D * s(1), S) \in Nat
    BY <1>1, <1>5, <2>1, <2>2, ShareBounds
  <2>4. PaidOut(W) = Rounded(D * S, S)
    BY <1>9, <1>10, <2>1, <2>2, <2>3, SumOne
  <2>5. Cardinality(W) = 1 /\ IsFiniteSet(W)
    BY <2>1, FS_Singleton
  <2>6. W \in SUBSET WinnerRow
    BY <1>6, <2>1, <2>2
  <2>7. 2 * (PaidOut(W) - D) <= 1 /\ -(2 * (PaidOut(W) - D)) <= 1
    BY <1>1, <2>2, <2>4, OneShare
  <2>. QED BY <2>5, <2>6, <2>7 DEF HandsOut, W, D
<1>13. CASE n = 2
  <2>1. 1 .. n = {1, 2} /\ W = {row(1), row(2)} /\ row(1) # row(2)
    BY <1>3, <1>7, <1>13
  <2>0. /\ F[1] = s(1) /\ s(1) \in Nat /\ s(1) > 0
        /\ F[2] = s(2) /\ s(2) \in Nat /\ s(2) > 0
    BY <1>5, <2>1
  <2>2. S = s(1) + s(2) /\ S \in Nat /\ S > 0
    <3>1. SumOf(F, {1, 2}) = F[1] + F[2]
      <4>. DEFINE one == 1
                  two == 2
      <4>1. one # two /\ F[one] \in Nat /\ F[two] \in Nat
        BY <2>0
      <4>2. SumOf(F, {one, two}) = F[one] + F[two]
        <5>. HIDE DEF one, two
        <5>. QED BY <4>1, SumTwo, Zenon
      <4>. QED BY <4>2, Zenon
    <3>2. SumOf(F, 1 .. n) = SumOf(F, {1, 2})
      BY <2>1, Zenon
    <3>. QED BY <1>4, <2>0, <3>1, <3>2
  <2>3. Rounded(D * s(1), S) \in Nat /\ Rounded(D * s(2), S) \in Nat
    BY <1>1, <1>5, <2>1, <2>2, ShareBounds
  <2>4. PaidOut(W) = Rounded(D * s(1), S) + Rounded(D * s(2), S)
    <3>1. G[row(1)] = Rounded(D * s(1), S) /\ G[row(2)] = Rounded(D * s(2), S)
      BY <1>9, <2>1
    <3>2. SumOf(G, {row(1), row(2)}) = G[row(1)] + G[row(2)]
      BY <2>1, <2>3, <3>1, SumTwo
    <3>. QED BY <1>10, <2>1, <3>1, <3>2
  <2>5. Cardinality(W) = 2 /\ IsFiniteSet(W)
    <3>1. PICK z : z # row(1) /\ z # row(2)
      BY <1>2
    <3>. QED BY <2>1, <3>1, SizesUpToThree
  <2>6. W \in SUBSET WinnerRow
    BY <1>6, <2>1, <2>2
  <2>7. 2 * (PaidOut(W) - D) <= 2 /\ -(2 * (PaidOut(W) - D)) <= 2
    BY <1>1, <2>0, <2>2, <2>4, TwoShares
  <2>. QED BY <2>5, <2>6, <2>7 DEF HandsOut, W, D
<1>14. CASE n = 3
  <2>1. /\ 1 .. n = {1, 2, 3} /\ W = {row(1), row(2), row(3)}
        /\ row(1) # row(2) /\ row(1) # row(3) /\ row(2) # row(3)
    BY <1>3, <1>7, <1>14
  <2>0. /\ F[1] = s(1) /\ s(1) \in Nat /\ s(1) > 0
        /\ F[2] = s(2) /\ s(2) \in Nat /\ s(2) > 0
        /\ F[3] = s(3) /\ s(3) \in Nat /\ s(3) > 0
    BY <1>5, <2>1
  <2>2. S = s(1) + s(2) + s(3) /\ S \in Nat /\ S > 0
    <3>1. SumOf(F, {1, 2, 3}) = F[1] + F[2] + F[3]
      <4>. DEFINE one == 1
                  two == 2
                  three == 3
      <4>1. /\ one # two /\ one # three /\ two # three
            /\ F[one] \in Nat /\ F[two] \in Nat /\ F[three] \in Nat
        BY <2>0
      <4>. DEFINE T == {one, two}
      <4>2. IsFiniteSet(T) /\ three \notin T
        <5>. HIDE DEF one, two, three
        <5>. QED BY <4>1, SizesUpToThree
      <4>3. SumOf(F, T) = F[one] + F[two]
        <5>. HIDE DEF one, two, three
        <5>. QED BY <4>1, SumTwo
      <4>4. \A v \in T \union {three} : F[v] \in Nat
        BY <4>1
      <4>5. SumOf(F, T \union {three}) = SumOf(F, T) + F[three]
        <5>. HIDE DEF T, one, two, three
        <5>. QED BY <4>2, <4>4, SumAdd
      <4>6. T \union {three} = {1, 2, 3}
        OBVIOUS
      <4>. QED BY <4>3, <4>5, <4>6, Zenon
    <3>2. SumOf(F, 1 .. n) = SumOf(F, {1, 2, 3})
      BY <2>1, Zenon
    <3>. QED BY <1>4, <2>0, <3>1, <3>2
  <2>3. Rounded(D * s(1), S) \in Nat /\ Rounded(D * s(2), S) \in Nat /\ Rounded(D * s(3), S) \in Nat
    BY <1>1, <1>5, <2>1, <2>2, ShareBounds
  <2>4. PaidOut(W) = Rounded(D * s(1), S) + Rounded(D * s(2), S) + Rounded(D * s(3), S)
    <3>1. /\ G[row(1)] = Rounded(D * s(1), S) /\ G[row(2)] = Rounded(D * s(2), S)
          /\ G[row(3)] = Rounded(D * s(3), S)
      BY <1>9, <2>1
    <3>2. SumOf(G, {row(1), row(2), row(3)}) = G[row(1)] + G[row(2)] + G[row(3)]
      <4>1. /\ row(1) # row(2) /\ row(1) # row(3) /\ row(2) # row(3)
            /\ G[row(1)] \in Nat /\ G[row(2)] \in Nat /\ G[row(3)] \in Nat
        BY <2>1, <2>3, <3>1
      <4>2. PICK x, y, z : x = row(1) /\ y = row(2) /\ z = row(3)
        OBVIOUS
      <4>. DEFINE T == {x, y}
      <4>5. IsFiniteSet(T) /\ z \notin T
        BY <4>1, <4>2, SizesUpToThree
      <4>6. SumOf(G, T) = G[x] + G[y]
        BY <4>1, <4>2, SumTwo
      <4>7. \A v \in T \union {z} : G[v] \in Nat
        BY <4>1, <4>2
      <4>3. SumOf(G, {x, y} \union {z}) = G[x] + G[y] + G[z]
        <5>. HIDE DEF T
        <5>1. SumOf(G, T \union {z}) = SumOf(G, T) + G[z]
          BY <4>5, <4>7, SumAdd
        <5>. QED BY <4>6, <5>1 DEF T
      <4>4. {x, y} \union {z} = {row(1), row(2), row(3)}
        BY <4>2
      <4>. QED BY <4>2, <4>3, <4>4
    <3>. QED BY <1>10, <2>1, <3>1, <3>2
  <2>5. Cardinality(W) = 3 /\ IsFiniteSet(W)
    <3>. DEFINE x == row(1)
                y == row(2)
                z == row(3)
    <3>1. W = {x, y, z} /\ x # y /\ x # z /\ y # z
      BY <2>1
    <3>. HIDE DEF W, x, y, z
    <3>. QED BY <3>1, SizesUpToThree
  <2>6. W \in SUBSET WinnerRow
    BY <1>6, <2>1, <2>2
  <2>7. 2 * (PaidOut(W) - D) <= 3 /\ -(2 * (PaidOut(W) - D)) <= 3
    <3>1. LET P == Rounded(D * s(1), S) + Rounded(D * s(2), S) + Rounded(D * s(3), S)
          IN  2 * (P - D) <= 3 /\ -(2 * (P - D)) <= 3
      BY <1>1, <2>0, <2>2, ThreeShares, Zenon
    <3>. QED BY <2>4, <3>1
  <2>. QED BY <2>5, <2>6, <2>7 DEF HandsOut, W, D
<1>. QED BY <1>2, <1>11, <1>12, <1>13, <1>14

LEMMA OutcomesHandOut ==
    ASSUME IInv, NEW c \in Competition, NEW w \in Outcomes(c)
    PROVE  HandsOut(w, Distributable(c))
<1>1. PICK scored \in SUBSET agents :
         \E f \in [1 .. (IF Cardinality(Candidates(c, scored)) > 3 THEN 3
                         ELSE Cardinality(Candidates(c, scored))) -> Candidates(c, scored)] :
            w = Prizes(c, f)
  BY DEF Outcomes
<1>. DEFINE cand == Candidates(c, scored)
            n == IF Cardinality(cand) > 3 THEN 3 ELSE Cardinality(cand)
<1>2. IsFiniteSet(cand) /\ \A x \in cand : x.agent \in Agent /\ x.stake \in Nat /\ x.stake > 0
  BY CandidateTypes
<1>3. n \in 0 .. 3
  BY <1>2, FS_CardinalityType
<1>4. PICK f \in [1 .. n -> cand] : w = Prizes(c, f)
  BY <1>1
<1>. HIDE DEF n, cand
<1>. QED BY <1>2, <1>3, <1>4, PrizesHandOut

-----------------------------------------------------------------------------
\* Every step keeps the types and the bounds of the rows.

LEMMA RowsKept ==
    ASSUME IInv, UNCHANGED <<stake, write>>
    PROVE  RowsInBounds'
  BY DEF IInv, RowsInBounds

LEMMA Moved ==
    ASSUME IInv, NEW r \in Request, NEW l \in Label, Goto(r, l), UNCHANGED call,
           l = "fetch" => call[r].op = "wager"
    PROVE  pc' \in [Request -> Label] /\ Fetching'
  BY DEF IInv, TypeOK, Goto, Fetching

LEMMA PlainStep ==
    ASSUME IInv, NEW r \in Request,
           StartWager(r) \/ FetchPayment(r) \/ CheckReplay(r) \/ InsertWager(r) \/ StartStake(r)
             \/ ActivateEntry(r) \/ DeleteEntries(r) \/ CloseCompetition(r) \/ ReadTotal(r)
    PROVE  IInv'
<1>0. TypeOK /\ Fetching
  BY DEF IInv
<1>1. /\ call[r].comp \in Competition /\ call[r].agent \in Agent
      /\ call[r].op = "wager" => call[r].tx \in Payment
  BY <1>0, CallFields
<1>2. UNCHANGED <<stake, pool, winners, agents, call, seen, write, sum>>
  BY DEF StartWager, FetchPayment, CheckReplay, InsertWager, StartStake, ActivateEntry,
         DeleteEntries, CloseCompetition, ReadTotal, tables, locals
<1>3. PICK l \in Label : Goto(r, l) /\ (l = "fetch" => call[r].op = "wager")
  BY DEF StartWager, FetchPayment, CheckReplay, InsertWager, StartStake, ActivateEntry,
         DeleteEntries, CloseCompetition, ReadTotal, Label
<1>4. pc' \in [Request -> Label] /\ Fetching'
  BY <1>2, <1>3, Moved
<1>5. open' \subseteq Competition /\ entries' \subseteq Agent \X Competition
  BY <1>0, <1>1 DEF StartWager, FetchPayment, CheckReplay, InsertWager, StartStake, ActivateEntry,
         DeleteEntries, CloseCompetition, ReadTotal, tables, TypeOK
<1>6. cache' \subseteq Payment
  BY <1>0, <1>1 DEF StartWager, FetchPayment, CheckReplay, InsertWager, StartStake, ActivateEntry,
         DeleteEntries, CloseCompetition, ReadTotal, TypeOK, Fetching
<1>7. TypeOK'
  BY <1>0, <1>2, <1>4, <1>5, <1>6 DEF TypeOK
<1>. QED BY <1>2, <1>4, <1>7, RowsKept DEF IInv

LEMMA LookupStep ==
    ASSUME IInv, NEW r \in Request, LookupStake(r)
    PROVE  IInv'
<1>0. TypeOK
  BY DEF IInv
<1>1. UNCHANGED <<stake, pool, open, winners, agents, entries, cache, call, write, sum>>
  BY DEF LookupStake, tables
<1>2. PICK l \in Label : Goto(r, l) /\ l # "fetch"
  BY DEF LookupStake, Label
<1>3. pc' \in [Request -> Label] /\ Fetching'
  BY <1>1, <1>2, Moved
<1>4. \A u \in Staked(stake[call[r].comp]) : stake[call[r].comp][u].id \in Request
  BY <1>0, CallFields DEF TypeOK, Staked, Stake
<1>5. seen' \in [Request -> Request \union {NoRow}]
  BY <1>0, <1>4 DEF LookupStake, TypeOK
<1>6. TypeOK'
  BY <1>0, <1>1, <1>3, <1>5 DEF TypeOK
<1>. QED BY <1>1, <1>3, <1>6, RowsKept DEF IInv

\* A statement writes one row, uncommitted.
LEMMA RowWritten ==
    ASSUME IInv, NEW r \in Request, NEW w \in Write, InBounds(w.row.amount),
           write' = [write EXCEPT ![r] = w], UNCHANGED stake
    PROVE  write' \in [Request -> Write \union {NoRow}] /\ RowsInBounds'
<1>1. write \in [Request -> Write \union {NoRow}]
  BY DEF IInv, TypeOK
<1>2. \A q \in Request : write'[q] = IF q = r THEN w ELSE write[q]
  BY <1>1
<1>3. RowsInBounds'
  BY <1>2 DEF IInv, RowsInBounds
<1>. QED BY <1>1, <1>3

LEMMA NewRowType ==
    ASSUME TypeOK, NEW r \in Request, NEW id \in Request
    PROVE  NewRow(r, id) \in Stake /\ NewRow(r, id).amount = call[r].amount
  BY CallFields DEF NewRow, Stake

LEMMA WriteStep ==
    ASSUME IInv, NEW r \in Request, InsertStake(r) \/ UpdateStake(r)
    PROVE  IInv'
<1>0. TypeOK
  BY DEF IInv
<1>1. UNCHANGED <<stake, pool, open, winners, agents, entries, cache, call, seen, sum>>
  BY DEF InsertStake, UpdateStake, tables
<1>2. PICK l \in Label : Goto(r, l) /\ l # "fetch"
  BY DEF InsertStake, UpdateStake, AfterError, Label
<1>3. pc' \in [Request -> Label] /\ Fetching'
  BY <1>1, <1>2, Moved
<1>4. write' \in [Request -> Write \union {NoRow}] /\ RowsInBounds'
  <2>1. CASE UNCHANGED write
    BY <1>0, <1>1, <2>1, RowsKept DEF TypeOK
  <2>2. CASE InsertStake(r) /\ ~UNCHANGED write
    <3>. DEFINE w == [kind |-> "insert", user |-> call[r].user, row |-> NewRow(r, r)]
    <3>1. write' = [write EXCEPT ![r] = w] /\ InBounds(call[r].amount)
      BY <2>2 DEF InsertStake, InsertAllowed
    <3>2. w \in Write /\ w.row.amount = call[r].amount
      BY <1>0, CallFields, NewRowType DEF Write
    <3>. HIDE DEF w
    <3>. QED BY <1>1, <3>1, <3>2, RowWritten
  <2>3. CASE UpdateStake(r) /\ ~UNCHANGED write
    <3>1. PICK u \in Staked(stake[call[r].comp]) :
             /\ stake[call[r].comp][u].id = seen[r] /\ InBounds(call[r].amount)
             /\ write' = [write EXCEPT ![r] =
                            [kind |-> "update", user |-> u, row |-> NewRow(r, seen[r])]]
      BY <2>3 DEF UpdateStake
    <3>2. u \in User /\ seen[r] \in Request
      BY <1>0, <3>1, CallFields DEF TypeOK, Staked, Stake
    <3>. DEFINE w == [kind |-> "update", user |-> u, row |-> NewRow(r, seen[r])]
    <3>3. w \in Write /\ w.row.amount = call[r].amount
      BY <1>0, <3>2, NewRowType DEF Write
    <3>4. write' = [write EXCEPT ![r] = w] /\ InBounds(call[r].amount)
      BY <3>1
    <3>. HIDE DEF w
    <3>. QED BY <1>1, <3>3, <3>4, RowWritten
  <2>. QED BY <2>1, <2>2, <2>3
<1>5. TypeOK'
  BY <1>0, <1>1, <1>3, <1>4 DEF TypeOK
<1>. QED BY <1>3, <1>4, <1>5 DEF IInv

\* The rows of one competition are replaced by rows in bounds.
LEMMA RowsReplaced ==
    ASSUME IInv, NEW c \in Competition, NEW rows \in Rows,
           \A u \in Staked(rows) : InBounds(rows[u].amount),
           stake' = [stake EXCEPT ![c] = rows],
           \A q \in Request : write'[q] # NoRow => write'[q] = write[q]
    PROVE  stake' \in [Competition -> Rows] /\ RowsInBounds'
<1>1. stake \in [Competition -> Rows]
  BY DEF IInv, TypeOK, Rows
<1>2. \A k \in Competition : stake'[k] = IF k = c THEN rows ELSE stake[k]
  BY <1>1
<1>3. ASSUME NEW k \in Competition, NEW u \in Staked(stake'[k])
      PROVE  InBounds(stake'[k][u].amount)
  <2>1. CASE k = c
    BY <1>2, <1>3, <2>1
  <2>2. CASE k # c
    BY <1>2, <1>3, <2>2 DEF IInv, RowsInBounds
  <2>. QED BY <2>1, <2>2
<1>4. \A q \in Request : write'[q] # NoRow => InBounds(write'[q].row.amount)
  BY DEF IInv, RowsInBounds
<1>5. RowsInBounds'
  BY <1>3, <1>4 DEF RowsInBounds, Staked
<1>. QED BY <1>1, <1>5

\* The rows without those of some users
LEMMA FewerRows ==
    ASSUME IInv, NEW c \in Competition, NEW users
    PROVE  LET rows == [u \in User |-> IF u \in users THEN NoRow ELSE stake[c][u]]
           IN  /\ rows \in Rows /\ Total(rows) \in Nat
               /\ \A u \in Staked(rows) : InBounds(rows[u].amount)
<1>. DEFINE rows == [u \in User |-> IF u \in users THEN NoRow ELSE stake[c][u]]
<1>1. rows \in Rows
  BY DEF IInv, TypeOK, Rows
<1>2. \A u \in Staked(rows) : u \in Staked(stake[c]) /\ rows[u] = stake[c][u]
  BY DEF Staked
<1>3. \A u \in Staked(rows) : InBounds(rows[u].amount)
  <2>. HIDE DEF rows
  <2>. QED BY <1>2 DEF IInv, RowsInBounds
<1>. QED BY <1>1, <1>3, TotalType

LEMMA TotalSet ==
    ASSUME TypeOK, NEW c \in Competition, NEW n \in Nat,
           pool' = [pool EXCEPT ![c] = PoolWithTotal(c, n)]
    PROVE  pool' \in [Competition -> [status : {"pending", "settled"}, total : Nat]]
  BY DEF TypeOK, PoolWithTotal

LEMMA DeleteStakeStep ==
    ASSUME IInv, NEW r \in Request, DeleteStake(r)
    PROVE  IInv'
<1>0. TypeOK /\ call[r].comp \in Competition
  BY CallFields DEF IInv
<1>1. /\ UNCHANGED <<open, winners, agents, entries, cache, call, seen, write, sum>>
      /\ Goto(r, "insert")
  BY DEF DeleteStake, locals
<1>2. pc' \in [Request -> Label] /\ Fetching'
  BY <1>1, Moved DEF Label
<1>3. /\ stake' \in [Competition -> [User -> Stake \union {NoRow}]]
      /\ pool' \in [Competition -> [status : {"pending", "settled"}, total : Nat]]
      /\ RowsInBounds'
  <2>1. CASE UNCHANGED <<stake, pool>>
    BY <1>0, <1>1, <2>1, RowsKept DEF TypeOK
  <2>2. CASE ~UNCHANGED <<stake, pool>>
    <3>1. PICK users : RemoveStakes(call[r].comp, users)
      BY <2>2 DEF DeleteStake
    <3>. DEFINE c == call[r].comp
                rows == [u \in User |-> IF u \in users THEN NoRow ELSE stake[c][u]]
    <3>2. rows \in Rows /\ Total(rows) \in Nat /\ \A u \in Staked(rows) : InBounds(rows[u].amount)
      BY <1>0, FewerRows
    <3>3. /\ stake' = [stake EXCEPT ![c] = rows]
          /\ pool' = pool \/ pool' = [pool EXCEPT ![c] = PoolWithTotal(c, Total(rows))]
      BY <3>1 DEF RemoveStakes
    <3>. HIDE DEF rows, c
    <3>4. c \in Competition
      BY <1>0 DEF c
    <3>5. stake' \in [Competition -> Rows] /\ RowsInBounds'
      BY <1>1, <3>2, <3>3, <3>4, RowsReplaced
    <3>6. pool' \in [Competition -> [status : {"pending", "settled"}, total : Nat]]
      BY <1>0, <3>2, <3>3, <3>4, TotalSet DEF TypeOK
    <3>. QED BY <3>5, <3>6 DEF Rows
  <2>. QED BY <2>1, <2>2
<1>4. TypeOK'
  BY <1>0, <1>1, <1>2, <1>3 DEF TypeOK
<1>. QED BY <1>2, <1>3, <1>4 DEF IInv

LEMMA VisibleRows ==
    ASSUME IInv, NEW r \in Request
    PROVE  /\ Visible(r) \in Rows /\ Total(Visible(r)) \in Nat
           /\ \A u \in Staked(Visible(r)) : InBounds(Visible(r)[u].amount)
<1>. DEFINE c == call[r].comp
            w == write[r]
            V == Visible(r)
<1>0. TypeOK /\ c \in Competition
  BY CallFields DEF IInv
<1>1. stake[c] \in Rows /\ \A u \in Staked(stake[c]) : InBounds(stake[c][u].amount)
  BY <1>0 DEF TypeOK, Rows, IInv, RowsInBounds
<1>2. V = IF w = NoRow THEN stake[c] ELSE [stake[c] EXCEPT ![w.user] = w.row]
  BY DEF Visible
<1>3. w # NoRow => w.user \in User /\ w.row \in Stake /\ InBounds(w.row.amount)
  BY <1>0 DEF TypeOK, Write, IInv, RowsInBounds
<1>. HIDE DEF c, w, V
<1>4. V \in Rows
  BY <1>1, <1>2, <1>3 DEF Rows
<1>5. \A u \in Staked(V) : InBounds(V[u].amount)
  <2>1. CASE w = NoRow
    BY <1>1, <1>2, <2>1
  <2>2. CASE w # NoRow
    <3>1. ASSUME NEW u \in User PROVE V[u] = IF u = w.user THEN w.row ELSE stake[c][u]
      BY <1>1, <1>2, <2>2 DEF Rows
    <3>. QED BY <1>1, <1>3, <2>2, <3>1 DEF Staked
  <2>. QED BY <2>1, <2>2
<1>6. Total(V) \in Nat
  BY <1>4, TotalType
<1>. QED BY <1>4, <1>5, <1>6 DEF V

LEMMA CountStep ==
    ASSUME IInv, NEW r \in Request, CountStakes(r)
    PROVE  IInv'
<1>0. TypeOK
  BY DEF IInv
<1>1. /\ UNCHANGED <<stake, pool, open, winners, agents, entries, cache, call, seen, write>>
      /\ Goto(r, "commit")
  BY DEF CountStakes, tables
<1>2. pc' \in [Request -> Label] /\ Fetching'
  BY <1>1, Moved DEF Label
<1>3. sum' \in [Request -> Nat]
  <2>1. sum' = [sum EXCEPT ![r] = Total(Visible(r))]
    BY DEF CountStakes
  <2>. QED BY <1>0, <2>1, VisibleRows DEF TypeOK
<1>4. TypeOK'
  BY <1>0, <1>1, <1>2, <1>3 DEF TypeOK
<1>. QED BY <1>1, <1>2, <1>4, RowsKept DEF IInv

LEMMA CommitStep ==
    ASSUME IInv, NEW r \in Request, CommitStake(r)
    PROVE  IInv'
<1>0. TypeOK /\ call[r].comp \in Competition /\ sum[r] \in Nat
  BY CallFields DEF IInv, TypeOK
<1>1. UNCHANGED <<open, winners, agents, entries, cache, call, seen, sum>>
  BY DEF CommitStake
<1>2. PICK l \in Label : Goto(r, l) /\ l # "fetch"
  BY DEF CommitStake, AfterStake, Label
<1>3. pc' \in [Request -> Label] /\ Fetching'
  BY <1>1, <1>2, Moved
<1>. DEFINE c == call[r].comp
            V == Visible(r)
<1>4. V \in Rows /\ \A u \in Staked(V) : InBounds(V[u].amount)
  BY VisibleRows
<1>5. /\ stake' = [stake EXCEPT ![c] = V]
      /\ pool' = [pool EXCEPT ![c] = PoolWithTotal(c, sum[r])]
      /\ write' = [write EXCEPT ![r] = NoRow]
  BY DEF CommitStake
<1>. HIDE DEF V
<1>6. /\ write' \in [Request -> Write \union {NoRow}]
      /\ \A q \in Request : write'[q] # NoRow => write'[q] = write[q]
  BY <1>0, <1>5 DEF TypeOK
<1>7. stake' \in [Competition -> Rows] /\ RowsInBounds'
  BY <1>0, <1>4, <1>5, <1>6, RowsReplaced
<1>8. pool' \in [Competition -> [status : {"pending", "settled"}, total : Nat]]
  BY <1>0, <1>5, TotalSet
<1>9. TypeOK'
  BY <1>0, <1>1, <1>3, <1>6, <1>7, <1>8 DEF TypeOK, Rows
<1>. QED BY <1>3, <1>7, <1>9 DEF IInv

LEMMA DeleteAgentTypes ==
    ASSUME IInv, NEW r \in Request, DeleteAgent(r)
    PROVE  IInv'
<1>0. TypeOK
  BY DEF IInv
<1>1. UNCHANGED <<open, entries, cache, call, seen, write, sum>> /\ Goto(r, "done")
  BY DEF DeleteAgent, locals
<1>2. pc' \in [Request -> Label] /\ Fetching'
  BY <1>1, Moved DEF Label
<1>3. CASE UNCHANGED <<agents, stake, pool, winners>>
  <2>1. TypeOK'
    BY <1>0, <1>1, <1>2, <1>3 DEF TypeOK
  <2>. QED BY <1>1, <1>2, <1>3, <2>1, RowsKept DEF IInv
<1>4. CASE ~UNCHANGED <<agents, stake, pool, winners>>
  <2>. DEFINE a == call[r].agent
              Backers(c) == {u \in Staked(stake[c]) : stake[c][u].agent = a}
              Kept(c) == [u \in User |-> IF u \in Backers(c) THEN NoRow ELSE stake[c][u]]
  <2>1. /\ agents' = agents \ {a}
        /\ stake' = [c \in Competition |-> Kept(c)]
        /\ pool' = [c \in Competition |->
                        IF DeleteTrigger /\ Backers(c) # {}
                        THEN PoolWithTotal(c, Total(Kept(c))) ELSE pool[c]]
        /\ winners' = [c \in Competition |-> {w \in winners[c] : w.agent # a}]
    BY <1>4 DEF DeleteAgent
  <2>2. \A c \in Competition :
           Kept(c) \in Rows /\ Total(Kept(c)) \in Nat
             /\ \A u \in Staked(Kept(c)) : InBounds(Kept(c)[u].amount)
    BY FewerRows
  <2>. HIDE DEF Kept, Backers
  <2>3. stake' \in [Competition -> Rows] /\ agents' \subseteq Agent
    BY <1>0, <2>1, <2>2 DEF TypeOK
  <2>4. pool' \in [Competition -> [status : {"pending", "settled"}, total : Nat]]
    <3>1. ASSUME NEW c \in Competition
          PROVE  /\ PoolWithTotal(c, Total(Kept(c))) \in [status : {"pending", "settled"}, total : Nat]
                 /\ pool[c] \in [status : {"pending", "settled"}, total : Nat]
      BY <1>0, <2>2 DEF TypeOK, PoolWithTotal
    <3>. QED BY <2>1, <3>1
  <2>5. winners' \in [Competition -> SUBSET WinnerRow]
    BY <1>0, <2>1 DEF TypeOK
  <2>6. RowsInBounds'
    <3>1. ASSUME NEW c \in Competition, NEW u \in Staked(stake'[c])
          PROVE  InBounds(stake'[c][u].amount)
      BY <2>1, <2>2, <3>1
    <3>2. \A q \in Request : write'[q] # NoRow => InBounds(write'[q].row.amount)
      BY <1>1 DEF IInv, RowsInBounds
    <3>. QED BY <3>1, <3>2 DEF RowsInBounds, Staked
  <2>7. TypeOK'
    BY <1>0, <1>1, <1>2, <2>3, <2>4, <2>5 DEF TypeOK, Rows
  <2>. QED BY <1>2, <2>6, <2>7 DEF IInv
<1>. QED BY <1>3, <1>4

LEMMA SettledTypes ==
    ASSUME TypeOK, NEW c \in Competition, pool' = [pool EXCEPT ![c] = PoolSettled(c)]
    PROVE  pool' \in [Competition -> [status : {"pending", "settled"}, total : Nat]]
  BY DEF TypeOK, PoolSettled

LEMMA SettleTypes ==
    ASSUME IInv, NEW r \in Request, SettlePool(r) \/ ForceSettled(r)
    PROVE  IInv'
<1>0. TypeOK /\ call[r].comp \in Competition
  BY CallFields DEF IInv
<1>1. UNCHANGED <<stake, agents, entries, cache, call, seen, write, sum>>
  BY DEF SettlePool, ForceSettled, locals
<1>2. PICK l \in Label : Goto(r, l) /\ l # "fetch"
  BY DEF SettlePool, ForceSettled, Label
<1>3. pc' \in [Request -> Label] /\ Fetching'
  BY <1>1, <1>2, Moved
<1>4. /\ pool' = pool \/ pool' = [pool EXCEPT ![call[r].comp] = PoolSettled(call[r].comp)]
      /\ open' \subseteq open
      /\ UNCHANGED winners \/ \E w \in Outcomes(call[r].comp) :
                                 winners' = [winners EXCEPT ![call[r].comp] = w]
  BY DEF SettlePool, ForceSettled
<1>5. pool' \in [Competition -> [status : {"pending", "settled"}, total : Nat]]
  BY <1>0, <1>4, SettledTypes DEF TypeOK
<1>6. winners' \in [Competition -> SUBSET WinnerRow]
  BY <1>0, <1>4, OutcomesHandOut DEF TypeOK, HandsOut
<1>7. TypeOK'
  BY <1>0, <1>1, <1>3, <1>4, <1>5, <1>6 DEF TypeOK
<1>. QED BY <1>1, <1>3, <1>7, RowsKept DEF IInv

LEMMA NextIInv == IInv /\ [Next]_vars => IInv'
<1>. SUFFICES ASSUME IInv, [Next]_vars PROVE IInv'
  OBVIOUS
<1>1. CASE UNCHANGED vars
  BY <1>1 DEF vars, IInv, TypeOK, RowsInBounds, Fetching, Staked
<1>2. CASE Restart
  <2>1. UNCHANGED <<stake, pool, open, winners, agents, entries, call, seen, write, sum>>
    BY <1>2 DEF Restart, tables, locals
  <2>2. cache' = {} /\ pc' \in [Request -> Label] /\ \A r \in Request : pc'[r] # "fetch"
    BY <1>2 DEF Restart, IInv, TypeOK, Label
  <2>3. TypeOK'
    BY <2>1, <2>2 DEF IInv, TypeOK
  <2>. QED BY <2>1, <2>2, <2>3, RowsKept DEF IInv, Fetching
<1>3. ASSUME NEW r \in Request, RequestStep(r) PROVE IInv'
  BY <1>3, PlainStep, LookupStep, WriteStep, DeleteStakeStep, CountStep, CommitStep,
     DeleteAgentTypes, SettleTypes DEF RequestStep
<1>. QED BY <1>1, <1>2, <1>3 DEF Next

LEMMA IInvariant == Spec => []IInv
<1>1. Init => IInv
  BY DEF Init, IInv, TypeOK, RowsInBounds, Fetching, Staked, Label
<1>. QED BY <1>1, NextIInv, PTL DEF Spec

\* The tables and the requests keep their types: totals and prizes are
\* numbers, because every candidate of a settlement has staked something.
THEOREM TypeCorrect == Spec => []TypeOK
<1>1. IInv => TypeOK
  BY DEF IInv
<1>. QED BY <1>1, IInvariant, PTL

-----------------------------------------------------------------------------
\* A pool has no winners before it is settled, and the step that settles it
\* hands its distributable part out.

Unsettled == \A c \in Competition : pool[c].status = "pending" => winners[c] = {}

LEMMA TypesShape == TypeOK => TableShape
  BY DEF TypeOK, TableShape

LEMMA SettlingStep ==
    ASSUME IInv, Unsettled, NEW r \in Request, RequestStep(r)
    PROVE  /\ Unsettled'
           /\ \A c \in Competition :
                 (pool[c].status = "pending" /\ pool'[c].status = "settled") =>
                     winners'[c] = {} \/ HandsOut(winners'[c], Distributable(c))
<1>0. TypeOK /\ TableShape /\ call[r].comp \in Competition
  BY TypesShape, CallFields DEF IInv
<1>1. CASE StatusKept
  BY <1>1 DEF StatusKept, Unsettled
<1>2. CASE DeleteAgent(r)
  <2>1. CASE UNCHANGED <<agents, stake, pool, winners>>
    BY <2>1 DEF Unsettled
  <2>2. CASE ~UNCHANGED <<agents, stake, pool, winners>>
    <3>1. winners' = [c \in Competition |-> {w \in winners[c] : w.agent # call[r].agent}]
      BY <1>2, <2>2 DEF DeleteAgent
    <3>2. \A c \in Competition : pool'[c].status = pool[c].status
      BY <1>2, <2>2 DEF DeleteAgent, PoolWithTotal
    <3>. QED BY <3>1, <3>2 DEF Unsettled
  <2>. QED BY <2>1, <2>2
<1>3. CASE SettlePool(r) \/ ForceSettled(r)
  <2>. DEFINE k == call[r].comp
  <2>1. CASE UNCHANGED <<pool, winners>>
    BY <2>1 DEF Unsettled
  <2>2. CASE pool' = [pool EXCEPT ![k] = PoolSettled(k)]
    <3>1. \A c \in Competition : pool'[c].status = IF c = k THEN "settled" ELSE pool[c].status
      BY <1>0, <2>2, SettledUpdate
    <3>2. UNCHANGED winners \/ \E w \in Outcomes(k) : winners' = [winners EXCEPT ![k] = w]
      BY <1>3 DEF SettlePool, ForceSettled
    <3>3. CASE UNCHANGED winners
      BY <3>1, <3>3 DEF Unsettled
    <3>4. CASE \E w \in Outcomes(k) : winners' = [winners EXCEPT ![k] = w]
      <4>1. PICK w \in Outcomes(k) : winners' = [winners EXCEPT ![k] = w]
        BY <3>4
      <4>2. HandsOut(w, Distributable(k))
        BY <1>0, OutcomesHandOut
      <4>3. \A c \in Competition : winners'[c] = IF c = k THEN w ELSE winners[c]
        BY <1>0, <4>1 DEF TypeOK
      <4>. HIDE DEF k
      <4>. QED BY <3>1, <4>2, <4>3 DEF Unsettled
    <3>. QED BY <3>2, <3>3, <3>4
  <2>. QED BY <1>3, <2>1, <2>2 DEF SettlePool, ForceSettled
<1>. QED BY <1>0, <1>1, <1>2, <1>3, CallStep

LEMMA NextSettling ==
    ASSUME IInv, Unsettled, [Next]_vars
    PROVE  /\ Unsettled'
           /\ \A c \in Competition :
                 (pool[c].status = "pending" /\ pool'[c].status = "settled") =>
                     winners'[c] = {} \/ HandsOut(winners'[c], Distributable(c))
<1>1. CASE UNCHANGED <<pool, winners>>
  BY <1>1 DEF Unsettled
<1>2. CASE ~UNCHANGED <<pool, winners>>
  <2>1. PICK r \in Request : RequestStep(r)
    BY <1>2 DEF Next, vars, Restart, tables
  <2>. QED BY <2>1, SettlingStep
<1>. QED BY <1>1, <1>2

\* A settlement that names winners hands out the distributable pool, up to
\* half a unit of rounding per winner, for any stakes, ranks and weights: no
\* other step settles a pool that has winners.
THEOREM PoolIsDistributed == Spec => SettlementDistributesPool
<1>1. ASSUME IInv, Unsettled, [Next]_vars
      PROVE  \A c \in Competition :
          (pool[c].status = "pending" /\ pool'[c].status = "settled" /\ winners'[c] # {}) =>
             LET paid == MapThenSumSet(LAMBDA w : w.prize, winners'[c])
                 gap == 2 * (paid - Distributable(c))
             IN  gap <= Cardinality(winners'[c]) /\ -gap <= Cardinality(winners'[c])
  <2>. SUFFICES ASSUME NEW c \in Competition, pool[c].status = "pending",
                       pool'[c].status = "settled", winners'[c] # {}
                PROVE  LET paid == MapThenSumSet(LAMBDA w : w.prize, winners'[c])
                           gap == 2 * (paid - Distributable(c))
                       IN  gap <= Cardinality(winners'[c]) /\ -gap <= Cardinality(winners'[c])
    OBVIOUS
  <2>. DEFINE W == winners'[c]
  <2>1. HandsOut(W, Distributable(c))
    BY <1>1, NextSettling
  <2>2. MapThenSumSet(LAMBDA w : w.prize, W) = PaidOut(W)
    BY <2>1, PrizeSum DEF HandsOut, PaidOut
  <2>. HIDE DEF W
  <2>3. W # {}
    BY DEF W
  <2>4. LET gap == 2 * (PaidOut(W) - Distributable(c))
        IN  gap <= Cardinality(W) /\ -gap <= Cardinality(W)
    BY <2>1, <2>3 DEF HandsOut
  <2>. QED BY <2>2, <2>4, Zenon DEF W
<1>2. Init => Unsettled
  BY DEF Init, Unsettled
<1>3. Spec => []Unsettled
  BY <1>2, NextSettling, IInvariant, PTL DEF Spec
<1>. QED BY <1>1, <1>3, IInvariant, PTL DEF Spec, SettlementDistributesPool

-----------------------------------------------------------------------------
\* What every pool hands out has come in.

\* Request q has paid, or declared, the amount of its call; it never forgets.
Backs(q) ==
    /\ pc[q] # "idle" /\ Owner[call[q].agent] = call[q].user
    /\ \/ call[q].op = "stake"
       \/ call[q].op = "wager" /\ AmountAccepted(call[q].amount, Amount[call[q].tx])

\* A row of user u in c was first inserted by a call of u, names an agent of
\* u, and has the amount of some call of u on c that backs it.
Backed(c, u, row) ==
    /\ row.id \in Request /\ call[row.id].user = u
    /\ Owner[row.agent] = u /\ InBounds(row.amount)
    /\ \E q \in Request :
          Backs(q) /\ call[q].comp = c /\ call[q].user = u /\ call[q].amount = row.amount

BackedRows(c, rows) == \A u \in Staked(rows) : Backed(c, u, rows[u])

\* n is the total of rows that were backed, though perhaps never all at once.
Summed(c, n) == \E rows \in Rows : BackedRows(c, rows) /\ n = Total(rows)

\* How far each call has been checked where it stands
Checked(r) ==
    /\ pc[r] \in {"replay", "agent"} =>
          call[r].op = "wager" /\ AmountAccepted(call[r].amount, Amount[call[r].tx])
    /\ pc[r] \in {"lookup", "update", "replace", "insert", "count", "commit"} => Backs(r)
    /\ pc[r] \in {"update", "replace"} =>
          seen[r] \in Request /\ call[seen[r]].user = call[r].user

CallsChecked == \A r \in Request : Checked(r)

WritesBacked ==
    \A r \in Request : write[r] # NoRow =>
        write[r].user = call[r].user /\ Backed(call[r].comp, call[r].user, write[r].row)

TablesBacked ==
    \A c \in Competition : BackedRows(c, stake[c]) /\ Summed(c, pool[c].total)

SumsBacked == \A r \in Request : pc[r] = "commit" => Summed(call[r].comp, sum[r])

\* What came in for one competition
Asked == [r \in Request |-> call[r].amount]
Wagered(c) == {r \in Request : call[r].op = "wager" /\ pc[r] # "idle" /\ call[r].comp = c}
ReceivedFor(c) == {call[r].tx : r \in Wagered(c)}
DeclaredFor(c) == {r \in Declared : call[r].comp = c}
CameIn(c) == SumOf(Amount, ReceivedFor(c)) + SumOf(Asked, DeclaredFor(c))

PoolsCovered == \A c \in Competition : IsFiniteSet(winners[c]) /\ PaidOut(winners[c]) <= CameIn(c)

Covered == IInv /\ CallsChecked /\ WritesBacked /\ TablesBacked /\ SumsBacked /\ PoolsCovered

-----------------------------------------------------------------------------
\* A call within the tolerance of its payment leaves the margin of the fee.

LEMMA ToleranceMargin ==
    ASSUME NEW n \in Nat, n >= 200, NEW paid \in Nat, AmountAccepted(n, paid)
    PROVE  49 * n + 100 <= 50 * paid
<1>. DEFINE m == n * 50 + 9999
            t == m \div 10000
<1>1. t \in Nat /\ 10000 * t <= m
  <2>1. m \in Nat
    OBVIOUS
  <2>. HIDE DEF m
  <2>. QED BY <2>1
<1>2. n - t <= paid
  BY DEF AmountAccepted, Tolerance
<1>. HIDE DEF t
<1>. QED BY <1>1, <1>2

LEMMA FinitePayments ==
    ASSUME TypeOK, IsFiniteSet(Request), NEW s \in SUBSET {q \in Request : call[q].op = "wager"}
    PROVE  /\ IsFiniteSet({call[r].tx : r \in s})
           /\ \A t \in {call[r].tx : r \in s} : t \in Payment /\ Amount[t] \in Nat
<1>. DEFINE m == [r \in s |-> call[r].tx]
            T == {call[r].tx : r \in s}
<1>1. m \in Surjection(s, T)
  BY DEF Surjection
<1>2. IsFiniteSet(s)
  BY FS_Subset
<1>3. IsFiniteSet(T)
  <2>. HIDE DEF m, T
  <2>. QED BY <1>1, <1>2, FS_Surjection
<1>. QED BY <1>3, CallFields, ConstantsAssumption DEF ConstantsAssumption

LEMMA FiniteFlows ==
    ASSUME IInv, IsFiniteSet(Request), NEW c \in Competition
    PROVE  /\ IsFiniteSet(ReceivedFor(c)) /\ IsFiniteSet(DeclaredFor(c))
           /\ \A t \in ReceivedFor(c) : t \in Payment /\ Amount[t] \in Nat
           /\ \A r \in DeclaredFor(c) : r \in Request /\ Asked[r] \in Nat
           /\ SumOf(Amount, ReceivedFor(c)) \in Nat /\ SumOf(Asked, DeclaredFor(c)) \in Nat
           /\ CameIn(c) \in Nat
<1>0. TypeOK
  BY DEF IInv
<1>1. /\ IsFiniteSet(ReceivedFor(c))
      /\ \A t \in ReceivedFor(c) : t \in Payment /\ Amount[t] \in Nat
  <2>1. Wagered(c) \in SUBSET {q \in Request : call[q].op = "wager"}
    BY DEF Wagered
  <2>. QED BY <1>0, <2>1, FinitePayments DEF ReceivedFor
<1>2. IsFiniteSet(DeclaredFor(c)) /\ DeclaredFor(c) \subseteq Request
  <2>1. DeclaredFor(c) \in SUBSET Request
    BY DEF DeclaredFor, Declared
  <2>. QED BY <2>1, FS_Subset
<1>3. \A r \in DeclaredFor(c) : r \in Request /\ Asked[r] \in Nat
  BY <1>0, <1>2, CallFields DEF Asked
<1>4. SumOf(Amount, ReceivedFor(c)) \in Nat /\ SumOf(Asked, DeclaredFor(c)) \in Nat
  BY <1>1, <1>2, <1>3, SumType
<1>. QED BY <1>1, <1>2, <1>3, <1>4 DEF CameIn

\* Backed rows, taken together, stay within what came in by a margin.
LEMMA RowsCovered ==
    ASSUME IInv, CallsAsIntended, MinStake >= 200, IsFiniteSet(Request),
           NEW c \in Competition, NEW rows \in Rows, BackedRows(c, rows), Staked(rows) # {}
    PROVE  Total(rows) \in Nat /\ 49 * Total(rows) + 100 <= 50 * CameIn(c)
<1>. DEFINE S == Staked(rows)
            f == [u \in S |-> rows[u].amount]
            Backing(q, u) == /\ Backs(q) /\ call[q].comp = c /\ call[q].user = u
                             /\ call[q].amount = rows[u].amount
            b == [u \in S |-> CHOOSE q \in Request : Backing(q, u)]
            W == {u \in S : call[b[u]].op = "wager"}
            V == S \ W
            k == [u \in S |-> call[b[u]].tx]
            g == [u \in S |-> IF u \in W THEN Amount[k[u]] ELSE 0]
            h == [u \in S |-> IF u \in W THEN 0 ELSE Asked[b[u]]]
<1>0. TypeOK
  BY DEF IInv
<1>1. IsFiniteSet(S) /\ (\A u \in S : f[u] \in Nat) /\ Total(rows) = SumOf(f, S)
  BY TotalSum
<1>2. \A u \in S : b[u] \in Request /\ Backing(b[u], u) /\ InBounds(rows[u].amount)
  <2>. SUFFICES ASSUME NEW u \in S
                PROVE b[u] \in Request /\ Backing(b[u], u) /\ InBounds(rows[u].amount)
    OBVIOUS
  <2>1. Backed(c, u, rows[u])
    BY DEF BackedRows
  <2>2. \E q \in Request : Backing(q, u)
    BY <2>1 DEF Backed
  <2>3. b[u] = CHOOSE q \in Request : Backing(q, u)
    OBVIOUS
  <2>. HIDE DEF Backing, b
  <2>. QED BY <2>1, <2>2, <2>3 DEF Backed
<1>. HIDE DEF b
<1>3. \A u \in W : /\ k[u] \in ReceivedFor(c) /\ Amount[k[u]] \in Nat
                   /\ AmountAccepted(f[u], Amount[k[u]]) /\ g[u] = Amount[k[u]] /\ h[u] = 0
  <2>. SUFFICES ASSUME NEW u \in W
                PROVE  /\ k[u] \in ReceivedFor(c) /\ Amount[k[u]] \in Nat
                       /\ AmountAccepted(f[u], Amount[k[u]]) /\ g[u] = Amount[k[u]] /\ h[u] = 0
    OBVIOUS
  <2>1. u \in S /\ b[u] \in Request /\ call[b[u]].op = "wager"
    BY <1>2
  <2>2. /\ pc[b[u]] # "idle" /\ call[b[u]].comp = c
        /\ AmountAccepted(call[b[u]].amount, Amount[call[b[u]].tx])
        /\ call[b[u]].amount = rows[u].amount
    BY <1>2, <2>1 DEF Backs
  <2>3. call[b[u]].tx \in ReceivedFor(c)
    BY <2>1, <2>2 DEF ReceivedFor, Wagered
  <2>4. Amount[call[b[u]].tx] \in Nat
    BY <2>3, FiniteFlows
  <2>. QED BY <2>1, <2>2, <2>3, <2>4
<1>4. \A u \in V : /\ b[u] \in DeclaredFor(c) /\ Asked[b[u]] = f[u] /\ g[u] = 0 /\ h[u] = Asked[b[u]]
  <2>. SUFFICES ASSUME NEW u \in V
                PROVE /\ b[u] \in DeclaredFor(c) /\ Asked[b[u]] = f[u] /\ g[u] = 0
                      /\ h[u] = Asked[b[u]]
    OBVIOUS
  <2>1. u \in S /\ b[u] \in Request /\ call[b[u]].op # "wager"
    BY <1>2
  <2>2. /\ pc[b[u]] # "idle" /\ call[b[u]].comp = c /\ call[b[u]].op = "stake"
        /\ call[b[u]].amount = rows[u].amount
    BY <1>2, <2>1 DEF Backs
  <2>. QED BY <2>1, <2>2 DEF DeclaredFor, Declared, Asked
<1>5. \A x, y \in W : k[x] = k[y] => x = y
  <2>. SUFFICES ASSUME NEW x \in W, NEW y \in W, k[x] = k[y] PROVE x = y
    OBVIOUS
  <2>1. /\ b[x] \in Request /\ call[b[x]].op = "wager" /\ call[b[x]].user = x
        /\ b[y] \in Request /\ call[b[y]].op = "wager" /\ call[b[y]].user = y
        /\ call[b[x]].tx = call[b[y]].tx
    BY <1>2
  <2>2. call[b[x]] \in Call /\ call[b[y]] \in Call
    BY <1>0, <2>1 DEF TypeOK
  <2>3. call[b[x]].user = call[b[y]].user
    BY <2>1, <2>2 DEF CallsAsIntended
  <2>. QED BY <2>1, <2>3
<1>6. \A x, y \in V : b[x] = b[y] => x = y
  BY <1>2
<1>7. \A u \in S : rows[u].amount = f[u] /\ f[u] >= 200
  <2>1. \A u \in S : InBounds(f[u]) /\ f[u] \in Nat
    BY <1>1, <1>2
  <2>. QED BY <2>1, ConstantsAssumption DEF InBounds, ConstantsAssumption
<1>8. /\ W \in SUBSET S /\ V \in SUBSET S /\ V = S \ W /\ W = S \ V
      /\ \A u \in S : u \in W \/ u \in V
  OBVIOUS
<1>. HIDE DEF W, V, k, g, h, f
<1>9. \A u \in S : g[u] \in Nat /\ h[u] \in Nat /\ 49 * f[u] + 100 <= 50 * (g[u] + h[u])
  <2>. SUFFICES ASSUME NEW u \in S
                PROVE g[u] \in Nat /\ h[u] \in Nat /\ 49 * f[u] + 100 <= 50 * (g[u] + h[u])
    OBVIOUS
  <2>0. f[u] \in Nat /\ f[u] >= 200
    BY <1>1, <1>7
  <2>1. CASE u \in W
    <3>1. g[u] \in Nat /\ h[u] = 0 /\ AmountAccepted(f[u], g[u])
      BY <1>3, <2>1
    <3>2. 49 * f[u] + 100 <= 50 * g[u]
      BY <2>0, <3>1, ToleranceMargin
    <3>. QED BY <3>1, <3>2
  <2>2. CASE u \in V
    <3>1. g[u] = 0 /\ h[u] = f[u]
      BY <1>4, <2>2
    <3>. QED BY <2>0, <3>1
  <2>. QED BY <1>8, <2>1, <2>2
<1>10. /\ SumOf(f, S) \in Nat /\ SumOf(g, S) \in Nat /\ SumOf(h, S) \in Nat
       /\ 49 * SumOf(f, S) + 100 <= 50 * (SumOf(g, S) + SumOf(h, S))
  BY <1>1, <1>9, SumMargin
<1>11. SumOf(g, S) <= SumOf(Amount, ReceivedFor(c))
  <2>1. IsFiniteSet(ReceivedFor(c)) /\ \A t \in ReceivedFor(c) : Amount[t] \in Nat
    BY FiniteFlows
  <2>2. /\ \A x \in S \ W : g[x] = 0
        /\ \A x \in W : k[x] \in ReceivedFor(c) /\ g[x] = Amount[k[x]]
    BY <1>3, <1>4, <1>8
  <2>. QED BY <1>1, <1>5, <1>8, <2>1, <2>2, SumInto
<1>12. SumOf(h, S) <= SumOf(Asked, DeclaredFor(c))
  <2>1. IsFiniteSet(DeclaredFor(c)) /\ \A t \in DeclaredFor(c) : Asked[t] \in Nat
    BY FiniteFlows
  <2>2. /\ \A x \in S \ V : h[x] = 0
        /\ \A x \in V : b[x] \in DeclaredFor(c) /\ h[x] = Asked[b[x]]
    BY <1>3, <1>4, <1>8
  <2>. QED BY <1>1, <1>6, <1>8, <2>1, <2>2, SumInto
<1>13. /\ SumOf(Amount, ReceivedFor(c)) \in Nat /\ SumOf(Asked, DeclaredFor(c)) \in Nat
       /\ CameIn(c) = SumOf(Amount, ReceivedFor(c)) + SumOf(Asked, DeclaredFor(c))
  BY FiniteFlows DEF CameIn
<1>. QED BY <1>1, <1>10, <1>11, <1>12, <1>13

-----------------------------------------------------------------------------
\* Calls keep what they stand for and never go back to the start, so what is
\* backed stays backed and what came in only grows.

Onward ==
    UNCHANGED call /\ \A q \in Request : pc[q] # "idle" => pc'[q] # "idle"

\* Where a request goes; only one statement leads to the commit.
LEMMA StepShape ==
    ASSUME IInv, NEW r \in Request, RequestStep(r)
    PROVE  /\ UNCHANGED call
           /\ \E l \in Label : Goto(r, l) /\ l # "idle" /\ (l = "commit" => CountStakes(r))
<1>1. UNCHANGED call
  BY DEF RequestStep, locals, StartWager, FetchPayment, CheckReplay, InsertWager,
     LookupStake, StartStake, InsertStake, UpdateStake, DeleteStake, CountStakes,
     CommitStake, ActivateEntry, DeleteEntries, DeleteAgent, CloseCompetition,
     SettlePool, ReadTotal, ForceSettled
<1>2. CASE CountStakes(r)
  BY <1>1, <1>2 DEF CountStakes, Label
<1>3. CASE StartWager(r)
  BY <1>1, <1>3 DEF StartWager, Label
<1>4. CASE FetchPayment(r)
  BY <1>1, <1>4 DEF FetchPayment, Label
<1>5. CASE CheckReplay(r)
  BY <1>1, <1>5 DEF CheckReplay, Label
<1>6. CASE InsertWager(r)
  BY <1>1, <1>6 DEF InsertWager, Label
<1>7. CASE LookupStake(r)
  BY <1>1, <1>7 DEF LookupStake, Label
<1>8. CASE StartStake(r)
  BY <1>1, <1>8 DEF StartStake, Label
<1>9. CASE InsertStake(r)
  BY <1>1, <1>9 DEF InsertStake, Label, AfterError
<1>10. CASE UpdateStake(r)
  BY <1>1, <1>10 DEF UpdateStake, Label
<1>11. CASE DeleteStake(r)
  BY <1>1, <1>11 DEF DeleteStake, Label
<1>12. CASE CommitStake(r)
  BY <1>1, <1>12 DEF CommitStake, Label, AfterStake
<1>13. CASE ActivateEntry(r)
  BY <1>1, <1>13 DEF ActivateEntry, Label
<1>14. CASE DeleteEntries(r)
  BY <1>1, <1>14 DEF DeleteEntries, Label
<1>15. CASE DeleteAgent(r)
  BY <1>1, <1>15 DEF DeleteAgent, Label
<1>16. CASE CloseCompetition(r)
  BY <1>1, <1>16 DEF CloseCompetition, Label
<1>17. CASE SettlePool(r)
  BY <1>1, <1>17 DEF SettlePool, Label
<1>18. CASE ReadTotal(r)
  BY <1>1, <1>18 DEF ReadTotal, Label
<1>19. CASE ForceSettled(r)
  BY <1>1, <1>19 DEF ForceSettled, Label
<1>. QED BY <1>1, <1>2, <1>3, <1>4, <1>5, <1>6, <1>7, <1>8, <1>9, <1>10, <1>11, <1>12, <1>13, <1>14, <1>15, <1>16, <1>17, <1>18, <1>19 DEF RequestStep

LEMMA AlwaysOnward ==
    ASSUME IInv, [Next]_vars
    PROVE  Onward
<1>0. pc \in [Request -> Label]
  BY DEF IInv, TypeOK
<1>1. CASE UNCHANGED vars
  BY <1>1 DEF vars, Onward
<1>2. CASE Restart
  BY <1>0, <1>2 DEF Restart, locals, Onward
<1>3. ASSUME NEW r \in Request, RequestStep(r) PROVE Onward
  <2>1. PICK l \in Label : Goto(r, l) /\ l # "idle" /\ UNCHANGED call
    BY <1>3, StepShape
  <2>. QED BY <1>0, <2>1 DEF Goto, Onward
<1>. QED BY <1>1, <1>2, <1>3 DEF Next

LEMMA BackedKept ==
    ASSUME Onward
    PROVE  /\ \A q \in Request : Backs(q) => Backs(q)'
           /\ \A c, u, row : Backed(c, u, row) => Backed(c, u, row)'
<1>1. \A q \in Request : Backs(q) => Backs(q)'
  BY DEF Onward, Backs
<1>. QED BY <1>1 DEF Onward, Backed

LEMMA SummedKept ==
    ASSUME Onward
    PROVE  /\ \A c, rows : BackedRows(c, rows) => BackedRows(c, rows)'
           /\ \A c, n : Summed(c, n) => Summed(c, n)'
<1>1. \A c, rows : BackedRows(c, rows) => BackedRows(c, rows)'
  BY BackedKept DEF BackedRows, Staked
<1>2. ASSUME NEW c, NEW n, Summed(c, n) PROVE Summed(c, n)'
  <2>1. PICK rows \in Rows : BackedRows(c, rows) /\ n = Total(rows)
    BY <1>2 DEF Summed
  <2>2. BackedRows(c, rows)'
    BY <1>1, <2>1
  <2>. QED BY <2>1, <2>2 DEF Summed, Rows
<1>. QED BY <1>1, <1>2

LEMMA MoreCameIn ==
    ASSUME IInv, IsFiniteSet(Request), Onward, NEW c \in Competition
    PROVE  CameIn(c) \in Nat /\ CameIn(c)' \in Nat /\ CameIn(c) <= CameIn(c)'
<1>. DEFINE s == Wagered(c)'
            R2 == {call[r].tx : r \in s}
            D2 == DeclaredFor(c)'
<1>0. TypeOK
  BY DEF IInv
<1>1. ReceivedFor(c)' = R2 /\ Asked' = Asked
  BY DEF Onward, ReceivedFor, Asked
<1>2. ReceivedFor(c) \in SUBSET R2 /\ DeclaredFor(c) \in SUBSET D2
  BY DEF Onward, ReceivedFor, Wagered, DeclaredFor, Declared
<1>3. IsFiniteSet(R2) /\ \A t \in R2 : Amount[t] \in Nat
  <2>1. s \in SUBSET {q \in Request : call[q].op = "wager"}
    BY DEF Onward, Wagered
  <2>. HIDE DEF s
  <2>. QED BY <1>0, <2>1, FinitePayments
<1>4. IsFiniteSet(D2) /\ \A r \in D2 : Asked[r] \in Nat
  <2>1. D2 \in SUBSET Request
    BY DEF DeclaredFor, Declared
  <2>2. \A r \in Request : Asked[r] \in Nat
    BY <1>0, CallFields DEF Asked
  <2>. HIDE DEF D2
  <2>. QED BY <2>1, <2>2, FS_Subset
<1>5. CameIn(c)' = SumOf(Amount, R2) + SumOf(Asked, D2)
  BY <1>1 DEF CameIn
<1>. HIDE DEF R2, D2
<1>6. /\ SumOf(Amount, ReceivedFor(c)) <= SumOf(Amount, R2)
      /\ SumOf(Amount, ReceivedFor(c)) \in Nat /\ SumOf(Amount, R2) \in Nat
  BY <1>2, <1>3, SumSubset
<1>7. /\ SumOf(Asked, DeclaredFor(c)) <= SumOf(Asked, D2)
      /\ SumOf(Asked, DeclaredFor(c)) \in Nat /\ SumOf(Asked, D2) \in Nat
  BY <1>2, <1>4, SumSubset
<1>. QED BY <1>5, <1>6, <1>7 DEF CameIn

-----------------------------------------------------------------------------
\* Every step keeps every part of the invariant.

LEMMA OthersStay ==
    ASSUME TypeOK, NEW r \in Request, RequestStep(r), NEW q \in Request \ {r}
    PROVE  pc'[q] = pc[q] /\ seen'[q] = seen[q] /\ write'[q] = write[q] /\ sum'[q] = sum[q]
<1>1. seen'[q] = seen[q]
  BY DEF TypeOK, RequestStep, locals, StartWager, FetchPayment, CheckReplay, InsertWager,
     LookupStake, StartStake, InsertStake, UpdateStake, DeleteStake, CountStakes,
     CommitStake, ActivateEntry, DeleteEntries, DeleteAgent, CloseCompetition,
     SettlePool, ReadTotal, ForceSettled
<1>2. write'[q] = write[q]
  BY DEF TypeOK, RequestStep, locals, StartWager, FetchPayment, CheckReplay, InsertWager,
     LookupStake, StartStake, InsertStake, UpdateStake, DeleteStake, CountStakes,
     CommitStake, ActivateEntry, DeleteEntries, DeleteAgent, CloseCompetition,
     SettlePool, ReadTotal, ForceSettled
<1>3. sum'[q] = sum[q]
  BY DEF TypeOK, RequestStep, locals, StartWager, FetchPayment, CheckReplay, InsertWager,
     LookupStake, StartStake, InsertStake, UpdateStake, DeleteStake, CountStakes,
     CommitStake, ActivateEntry, DeleteEntries, DeleteAgent, CloseCompetition,
     SettlePool, ReadTotal, ForceSettled
<1>4. pc'[q] = pc[q]
  BY DEF TypeOK, Goto, RequestStep, AfterStake, AfterError, StartWager, FetchPayment, CheckReplay,
     InsertWager, LookupStake, StartStake, InsertStake, UpdateStake, DeleteStake, CountStakes,
     CommitStake, ActivateEntry, DeleteEntries, DeleteAgent, CloseCompetition,
     SettlePool, ReadTotal, ForceSettled
<1>. QED BY <1>1, <1>2, <1>3, <1>4

\* The rows a call may update are those of its user.
LEMMA OwnRow ==
    ASSUME Covered, NEW r \in Request, Backs(r), NEW u \in Staked(stake[call[r].comp])
    PROVE  LET row == stake[call[r].comp][u] IN
           /\ row.id \in Request /\ call[row.id].user = u
           /\ (u = call[r].user \/ row.agent = call[r].agent) => u = call[r].user
<1>1. call[r].comp \in Competition
  BY CallFields DEF Covered, IInv
<1>2. Backed(call[r].comp, u, stake[call[r].comp][u])
  BY <1>1 DEF Covered, TablesBacked, BackedRows
<1>. QED BY <1>2 DEF Backed, Backs

LEMMA LookupChecked ==
    ASSUME Covered, Onward, NEW r \in Request, LookupStake(r)
    PROVE  Checked(r)'
<1>0. TypeOK /\ Backs(r) /\ Backs(r)' /\ UNCHANGED call
  BY BackedKept DEF Covered, IInv, CallsChecked, Checked, LookupStake, Onward
<1>. DEFINE rows == stake[call[r].comp]
            Found == {u \in Staked(rows) : u = call[r].user \/ rows[u].agent = call[r].agent}
<1>1. CASE pc' = [pc EXCEPT ![r] = "insert"]
  <2>1. pc'[r] = "insert"
    BY <1>0, <1>1 DEF TypeOK
  <2>. QED BY <1>0, <2>1 DEF Checked
<1>2. CASE \E u \in Found : seen' = [seen EXCEPT ![r] = rows[u].id] /\ Goto(r, "update")
  <2>1. PICK u \in Found : seen' = [seen EXCEPT ![r] = rows[u].id] /\ Goto(r, "update")
    BY <1>2
  <2>2. rows[u].id \in Request /\ call[rows[u].id].user = call[r].user
    BY <1>0, OwnRow
  <2>3. pc'[r] = "update" /\ seen'[r] = rows[u].id
    BY <1>0, <2>1 DEF TypeOK, Goto
  <2>. HIDE DEF rows
  <2>. QED BY <1>0, <2>2, <2>3 DEF Checked
<1>. QED BY <1>1, <1>2 DEF LookupStake, Goto

LEMMA StepChecked ==
    ASSUME Covered, CallsAsIntended, Onward, NEW r \in Request, RequestStep(r)
    PROVE  Checked(r)'
<1>0. /\ TypeOK /\ Fetching /\ Checked(r) /\ UNCHANGED call
      /\ call[r] \in Call /\ (Backs(r) => Backs(r)')
  BY BackedKept DEF Covered, IInv, CallsChecked, Onward, TypeOK
<1>1. CASE LookupStake(r)
  BY <1>1, LookupChecked
<1>2. \A l : Goto(r, l) => pc'[r] = l
  BY <1>0 DEF TypeOK, Goto
<1>3. CASE StartWager(r) \/ ActivateEntry(r) \/ DeleteEntries(r) \/ DeleteAgent(r)
             \/ CloseCompetition(r) \/ SettlePool(r) \/ ReadTotal(r) \/ ForceSettled(r)
  <2>1. pc'[r] \in {"failed", "fetch", "done", "del_agent", "settle", "retry", "read_total", "force"}
    BY <1>2, <1>3 DEF StartWager, ActivateEntry, DeleteEntries, DeleteAgent, CloseCompetition,
       SettlePool, ReadTotal, ForceSettled
  <2>. QED BY <2>1 DEF Checked
<1>4. CASE FetchPayment(r)
  <2>1. \/ pc'[r] = "failed"
        \/ pc'[r] = "replay" /\ AmountAccepted(call[r].amount, Amount[call[r].tx])
    BY <1>2, <1>4 DEF FetchPayment
  <2>. QED BY <1>0, <1>4, <2>1 DEF Checked, FetchPayment, Fetching
<1>5. CASE CheckReplay(r)
  <2>1. pc[r] = "replay" /\ pc'[r] \in {"failed", "agent"}
    BY <1>2, <1>5 DEF CheckReplay
  <2>. QED BY <1>0, <2>1 DEF Checked
<1>6. CASE InsertWager(r)
  <2>1. /\ pc[r] = "agent"
        /\ \/ pc'[r] = "failed"
           \/ pc'[r] = "lookup" /\ Owner[call[r].agent] = call[r].user
    BY <1>2, <1>6 DEF InsertWager
  <2>. QED BY <1>0, <2>1 DEF Checked, Backs
<1>7. CASE StartStake(r)
  <2>1. pc'[r] \in {"insert", "failed"} /\ call[r].op = "stake"
    BY <1>2, <1>7 DEF StartStake
  <2>. QED BY <1>0, <2>1 DEF Checked, Backs, CallsAsIntended
<1>8. CASE InsertStake(r) \/ DeleteStake(r) \/ CountStakes(r) \/ CommitStake(r)
  <2>1. /\ pc[r] \in {"insert", "replace", "count", "commit"}
        /\ pc'[r] \in {"count", "activate", "done", "failed", "insert", "commit"}
    BY <1>2, <1>8 DEF InsertStake, DeleteStake, CountStakes, CommitStake, AfterStake, AfterError
  <2>. QED BY <1>0, <2>1 DEF Checked
<1>9. CASE UpdateStake(r)
  <2>1. pc[r] = "update" /\ pc'[r] \in {"count", "replace"} /\ seen' = seen
    BY <1>2, <1>9 DEF UpdateStake
  <2>. QED BY <1>0, <2>1 DEF Checked
<1>. QED BY <1>1, <1>3, <1>4, <1>5, <1>6, <1>7, <1>8, <1>9 DEF RequestStep

LEMMA NextChecked ==
    ASSUME Covered, CallsAsIntended, Onward, NEW r \in Request, RequestStep(r)
    PROVE  CallsChecked'
<1>1. ASSUME NEW q \in Request \ {r} PROVE Checked(q)'
  <2>1. pc'[q] = pc[q] /\ seen'[q] = seen[q]
    BY OthersStay DEF Covered, IInv
  <2>2. Checked(q) /\ UNCHANGED call /\ (Backs(q) => Backs(q)')
    BY BackedKept DEF Covered, CallsChecked, Onward
  <2>. QED BY <2>1, <2>2 DEF Checked
<1>. QED BY <1>1, StepChecked DEF CallsChecked

\* What InsertStake and UpdateStake write is backed by the call itself.
LEMMA NewRowBacked ==
    ASSUME TypeOK, NEW r \in Request, Backs(r), InBounds(call[r].amount),
           NEW id \in Request, call[id].user = call[r].user
    PROVE  Backed(call[r].comp, call[r].user, NewRow(r, id))
  BY DEF NewRow, Backed, Backs

LEMMA NextWritesBacked ==
    ASSUME Covered, Onward, NEW r \in Request, RequestStep(r)
    PROVE  WritesBacked'
<1>0. TypeOK /\ UNCHANGED call /\ Checked(r)
  BY DEF Covered, IInv, Onward, CallsChecked
<1>1. \A q \in Request : write'[q] # NoRow =>
         \/ write'[q] = write[q]
         \/ write'[q].user = call[q].user /\ Backed(call[q].comp, call[q].user, write'[q].row)
  <2>1. CASE InsertStake(r)
    <3>. DEFINE w == [kind |-> "insert", user |-> call[r].user, row |-> NewRow(r, r)]
    <3>1. CASE write' = write
      BY <3>1
    <3>2. CASE write' = [write EXCEPT ![r] = w] /\ InBounds(call[r].amount)
      <4>1. Backs(r)
        BY <1>0, <2>1 DEF Checked, InsertStake
      <4>2. Backed(call[r].comp, call[r].user, w.row) /\ w.user = call[r].user
        BY <1>0, <3>2, <4>1, NewRowBacked
      <4>. HIDE DEF w
      <4>. QED BY <1>0, <3>2, <4>2 DEF TypeOK
    <3>. QED BY <2>1, <3>1, <3>2 DEF InsertStake, InsertAllowed
  <2>2. CASE UpdateStake(r)
    <3>1. CASE write' = write
      BY <3>1
    <3>2. CASE write' # write
      <4>1. PICK u \in Staked(stake[call[r].comp]) :
               /\ stake[call[r].comp][u].id = seen[r] /\ InBounds(call[r].amount)
               /\ write' = [write EXCEPT ![r] =
                              [kind |-> "update", user |-> u, row |-> NewRow(r, seen[r])]]
        BY <2>2, <3>2 DEF UpdateStake
      <4>. DEFINE w == [kind |-> "update", user |-> u, row |-> NewRow(r, seen[r])]
      <4>2. Backs(r) /\ seen[r] \in Request /\ call[seen[r]].user = call[r].user
        BY <1>0, <2>2 DEF Checked, UpdateStake
      <4>3. u = call[r].user
        BY <4>1, <4>2, OwnRow
      <4>4. Backed(call[r].comp, call[r].user, w.row) /\ w.user = call[r].user
        BY <1>0, <4>1, <4>2, <4>3, NewRowBacked
      <4>5. write' = [write EXCEPT ![r] = w]
        BY <4>1
      <4>. HIDE DEF w
      <4>. QED BY <1>0, <4>4, <4>5 DEF TypeOK
    <3>. QED BY <3>1, <3>2
  <2>3. CASE CommitStake(r)
    <3>1. write' = [write EXCEPT ![r] = NoRow]
      BY <2>3 DEF CommitStake
    <3>. QED BY <1>0, <3>1 DEF TypeOK
  <2>4. CASE ~(InsertStake(r) \/ UpdateStake(r) \/ CommitStake(r))
    <3>1. write' = write
      BY <2>4 DEF RequestStep, locals, StartWager, FetchPayment, CheckReplay, InsertWager,
         LookupStake, StartStake, DeleteStake, CountStakes, ActivateEntry, DeleteEntries,
         DeleteAgent, CloseCompetition, SettlePool, ReadTotal, ForceSettled
    <3>. QED BY <3>1
  <2>. QED BY <2>1, <2>2, <2>3, <2>4
<1>2. \A c, u, row : Backed(c, u, row) => Backed(c, u, row)'
  BY BackedKept
<1>3. ASSUME NEW q \in Request, write'[q] # NoRow
      PROVE  /\ write'[q].user = call'[q].user
             /\ Backed(call[q].comp, call[q].user, write'[q].row)
  BY <1>0, <1>1, <1>3 DEF Covered, WritesBacked
<1>. QED BY <1>0, <1>2, <1>3 DEF WritesBacked

\* What a transaction sees of the stakes is backed.
LEMMA VisibleBacked ==
    ASSUME Covered, NEW r \in Request
    PROVE  BackedRows(call[r].comp, Visible(r)) /\ Summed(call[r].comp, Total(Visible(r)))
<1>. DEFINE c == call[r].comp
            w == write[r]
            V == Visible(r)
<1>0. TypeOK /\ c \in Competition /\ stake[c] \in Rows
  BY CallFields DEF Covered, IInv, TypeOK, Rows
<1>1. V = IF w = NoRow THEN stake[c] ELSE [stake[c] EXCEPT ![w.user] = w.row]
  BY DEF Visible
<1>2. BackedRows(c, stake[c])
  BY <1>0 DEF Covered, TablesBacked
<1>3. w # NoRow => w.user \in User /\ Backed(c, w.user, w.row)
  BY <1>0 DEF Covered, WritesBacked, TypeOK, Write
<1>. HIDE DEF c, w, V
<1>4. BackedRows(c, V)
  <2>1. CASE w = NoRow
    BY <1>1, <1>2, <2>1
  <2>2. CASE w # NoRow
    <3>1. \A u \in User : V[u] = IF u = w.user THEN w.row ELSE stake[c][u]
      BY <1>0, <1>1, <2>2 DEF Rows
    <3>. QED BY <1>2, <1>3, <2>2, <3>1 DEF BackedRows, Staked
  <2>. QED BY <2>1, <2>2
<1>5. V \in Rows
  BY VisibleRows DEF Covered, V
<1>. QED BY <1>4, <1>5 DEF Summed, c, V

LEMMA NextSumsBacked ==
    ASSUME Covered, Onward, NEW r \in Request, RequestStep(r)
    PROVE  SumsBacked'
<1>0. TypeOK /\ UNCHANGED call /\ \A c, n : Summed(c, n) => Summed(c, n)'
  BY SummedKept DEF Covered, IInv, Onward
<1>1. ASSUME NEW q \in Request, pc'[q] = "commit"
      PROVE  Summed(call[q].comp, sum'[q])
  <2>1. CASE q # r
    BY <1>1, <2>1, OthersStay DEF Covered, IInv, SumsBacked
  <2>2. CASE q = r
    <3>1. PICK l \in Label : Goto(r, l) /\ (l = "commit" => CountStakes(r))
      BY StepShape DEF Covered
    <3>2. sum' = [sum EXCEPT ![r] = Total(Visible(r))]
      BY <1>0, <1>1, <2>2, <3>1 DEF TypeOK, Goto, CountStakes
    <3>. QED BY <1>0, <2>2, <3>2, VisibleBacked DEF TypeOK
  <2>. QED BY <2>1, <2>2
<1>. QED BY <1>0, <1>1 DEF SumsBacked

\* Rows that are taken away leave backed rows.
LEMMA FewerBacked ==
    ASSUME Covered, NEW c \in Competition, NEW users
    PROVE  LET rows == [u \in User |-> IF u \in users THEN NoRow ELSE stake[c][u]]
           IN  rows \in Rows /\ BackedRows(c, rows) /\ Summed(c, Total(rows))
<1>. DEFINE rows == [u \in User |-> IF u \in users THEN NoRow ELSE stake[c][u]]
<1>1. rows \in Rows
  BY FewerRows DEF Covered
<1>2. BackedRows(c, rows)
  BY DEF Covered, TablesBacked, BackedRows, Staked
<1>. HIDE DEF rows
<1>. QED BY <1>1, <1>2 DEF Summed, rows

LEMMA TableReplaced ==
    ASSUME Covered, Onward, NEW k \in Competition, NEW rows \in Rows, BackedRows(k, rows),
           NEW n, Summed(k, n), stake' = [stake EXCEPT ![k] = rows],
           pool' = pool \/ pool' = [pool EXCEPT ![k] = PoolWithTotal(k, n)]
    PROVE  TablesBacked'
<1>0. TypeOK /\ TablesBacked
  BY DEF Covered, IInv
<1>1. ASSUME NEW c \in Competition
      PROVE  BackedRows(c, stake'[c]) /\ Summed(c, pool'[c].total)
  BY <1>0 DEF TypeOK, TablesBacked, PoolWithTotal
<1>. QED BY <1>1, SummedKept DEF TablesBacked

LEMMA NextTablesBacked ==
    ASSUME Covered, Onward, NEW r \in Request, RequestStep(r)
    PROVE  TablesBacked'
<1>. DEFINE k == call[r].comp
<1>0. TypeOK /\ TablesBacked /\ k \in Competition
  BY CallFields DEF Covered, IInv
<1>1. CASE stake' = stake /\ \A c \in Competition : pool'[c].total = pool[c].total
  BY <1>0, <1>1, SummedKept DEF TablesBacked
<1>2. CASE DeleteStake(r)
  <2>1. CASE UNCHANGED <<stake, pool>>
    BY <1>1, <2>1
  <2>2. CASE ~UNCHANGED <<stake, pool>>
    <3>1. PICK users : RemoveStakes(k, users)
      BY <1>2, <2>2 DEF DeleteStake
    <3>. DEFINE rows == [u \in User |-> IF u \in users THEN NoRow ELSE stake[k][u]]
    <3>2. rows \in Rows /\ BackedRows(k, rows) /\ Summed(k, Total(rows))
      BY <1>0, FewerBacked
    <3>3. /\ stake' = [stake EXCEPT ![k] = rows]
          /\ pool' = pool \/ pool' = [pool EXCEPT ![k] = PoolWithTotal(k, Total(rows))]
      BY <3>1 DEF RemoveStakes
    <3>. HIDE DEF rows, k
    <3>. QED BY <1>0, <3>2, <3>3, TableReplaced
  <2>. QED BY <2>1, <2>2
<1>3. CASE CommitStake(r)
  <2>. DEFINE V == Visible(r)
  <2>1. V \in Rows /\ BackedRows(k, V)
    BY VisibleRows, VisibleBacked DEF Covered
  <2>2. Summed(k, sum[r])
    BY <1>3 DEF Covered, SumsBacked, CommitStake
  <2>3. stake' = [stake EXCEPT ![k] = V] /\ pool' = [pool EXCEPT ![k] = PoolWithTotal(k, sum[r])]
    BY <1>3 DEF CommitStake
  <2>. HIDE DEF V, k
  <2>. QED BY <1>0, <2>1, <2>2, <2>3, TableReplaced
<1>4. CASE DeleteAgent(r)
  <2>1. CASE UNCHANGED <<agents, stake, pool, winners>>
    BY <1>1, <2>1
  <2>2. CASE ~UNCHANGED <<agents, stake, pool, winners>>
    <3>. DEFINE a == call[r].agent
                Backers(c) == {u \in Staked(stake[c]) : stake[c][u].agent = a}
                Kept(c) == [u \in User |-> IF u \in Backers(c) THEN NoRow ELSE stake[c][u]]
    <3>1. /\ stake' = [c \in Competition |-> Kept(c)]
          /\ pool' = [c \in Competition |->
                          IF DeleteTrigger /\ Backers(c) # {}
                          THEN PoolWithTotal(c, Total(Kept(c))) ELSE pool[c]]
      BY <1>4, <2>2 DEF DeleteAgent
    <3>2. \A c \in Competition : BackedRows(c, Kept(c)) /\ Summed(c, Total(Kept(c)))
      BY FewerBacked
    <3>. HIDE DEF Kept, Backers
    <3>3. ASSUME NEW c \in Competition
          PROVE  BackedRows(c, stake'[c]) /\ Summed(c, pool'[c].total)
      <4>1. stake'[c] = Kept(c)
            /\ (pool'[c].total = Total(Kept(c)) \/ pool'[c] = pool[c])
        BY <3>1 DEF PoolWithTotal
      <4>. QED BY <1>0, <3>2, <4>1 DEF TablesBacked
    <3>. QED BY <3>3, SummedKept DEF TablesBacked
  <2>. QED BY <2>1, <2>2
<1>5. CASE SettlePool(r) \/ ForceSettled(r)
  <2>1. stake' = stake /\ (pool' = pool \/ pool' = [pool EXCEPT ![k] = PoolSettled(k)])
    BY <1>5 DEF SettlePool, ForceSettled
  <2>2. \A c \in Competition : pool'[c].total = pool[c].total
    <3>. HIDE DEF k
    <3>1. CASE pool' = pool
      BY <3>1
    <3>2. CASE pool' = [pool EXCEPT ![k] = PoolSettled(k)]
      <4>1. \A c \in Competition : pool'[c] = IF c = k THEN PoolSettled(k) ELSE pool[c]
        BY <1>0, <3>2 DEF TypeOK
      <4>2. PoolSettled(k).total = pool[k].total
        BY DEF PoolSettled
      <4>. QED BY <4>1, <4>2
    <3>. QED BY <2>1, <3>1, <3>2
  <2>. QED BY <1>1, <2>1, <2>2
<1>6. CASE ~(DeleteStake(r) \/ CommitStake(r) \/ DeleteAgent(r) \/ SettlePool(r) \/ ForceSettled(r))
  <2>1. UNCHANGED <<stake, pool>>
    BY <1>6 DEF RequestStep, tables, StartWager, FetchPayment, CheckReplay, InsertWager,
       LookupStake, StartStake, InsertStake, UpdateStake, CountStakes, ActivateEntry,
       DeleteEntries, CloseCompetition, ReadTotal
  <2>. QED BY <1>1, <2>1
<1>. QED BY <1>2, <1>3, <1>4, <1>5, <1>6

\* A settlement pays less than the fee leaves: three half units of rounding
\* and the tolerance of the payments stay below it.
LEMMA SettlementCovered ==
    ASSUME Covered, CallsAsIntended, MinStake >= 200, IsFiniteSet(Request),
           NEW c \in Competition, NEW w \in Outcomes(c)
    PROVE  IsFiniteSet(w) /\ PaidOut(w) <= CameIn(c)
<1>0. IInv /\ TypeOK /\ stake[c] \in Rows /\ CameIn(c) \in Nat
  BY FiniteFlows DEF Covered, IInv, TypeOK, Rows
<1>1. HandsOut(w, Distributable(c))
  BY <1>0, OutcomesHandOut
<1>2. CASE w = {}
  <2>1. PaidOut(w) = 0
    BY <1>2, SumEmpty DEF PaidOut
  <2>. QED BY <1>0, <1>1, <2>1 DEF HandsOut
<1>3. CASE w # {}
  <2>1. Staked(stake[c]) # {}
    <3>1. PICK scored \in SUBSET agents :
             \E f \in [1 .. (IF Cardinality(Candidates(c, scored)) > 3 THEN 3
                             ELSE Cardinality(Candidates(c, scored))) -> Candidates(c, scored)] :
                w = Prizes(c, f)
      BY DEF Outcomes
    <3>2. Candidates(c, scored) # {}
      BY <1>3, <3>1 DEF Prizes
    <3>. QED BY <3>2 DEF Candidates
  <2>. DEFINE P == PaidOut(w)
              D == Distributable(c)
              T == pool[c].total
  <2>2. P \in Nat
    <3>1. IsFiniteSet(w) /\ \A x \in w : [y \in w |-> y.prize][x] \in Nat
      BY <1>1 DEF HandsOut, WinnerRow
    <3>. HIDE DEF P
    <3>. QED BY <3>1, SumType DEF P, PaidOut
  <2>3. 2 * (P - D) <= 3
    <3>1. 2 * (P - D) <= Cardinality(w) /\ Cardinality(w) <= 3 /\ Cardinality(w) \in Nat
      BY <1>1, <1>3, FS_CardinalityType DEF HandsOut
    <3>2. D \in Nat
      BY <1>0, DistributableType
    <3>. HIDE DEF P, D
    <3>. QED BY <2>2, <3>1, <3>2
  <2>4. T \in Nat /\ D \in Nat /\ 2 * (10000 * D) <= 2 * (T * 9800) + 10000
    <3>1. T \in Nat
      BY <1>0 DEF TypeOK
    <3>. DEFINE m == T * 9800
                d == 10000
    <3>2. m \in Nat /\ d \in Nat /\ d > 0
      BY <3>1
    <3>3. Rounded(m, d) \in Nat /\ 2 * (d * Rounded(m, d)) <= 2 * m + d
      <4>. HIDE DEF m, d
      <4>. QED BY <3>2, RoundedBounds
    <3>. QED BY <3>1, <3>3 DEF Distributable
  <2>5. 50 * P <= 49 * T + 100
    <3>. HIDE DEF P, D, T
    <3>. QED BY <2>2, <2>3, <2>4
  <2>6. PICK rows \in Rows : BackedRows(c, rows) /\ T = Total(rows)
    BY DEF Covered, TablesBacked, Summed
  <2>7. CASE Staked(rows) # {}
    <3>1. 49 * T + 100 <= 50 * CameIn(c)
      BY <1>0, <2>6, <2>7, RowsCovered
    <3>. HIDE DEF P, D, T
    <3>2. P <= CameIn(c)
      BY <1>0, <2>2, <2>4, <2>5, <3>1
    <3>. QED BY <1>1, <3>2 DEF HandsOut, P
  <2>8. CASE Staked(rows) = {}
    <3>1. T = 0
      BY <2>6, <2>8, TotalSum, SumEmpty
    <3>2. BackedRows(c, stake[c])
      BY DEF Covered, TablesBacked
    <3>3. Total(stake[c]) \in Nat /\ 49 * Total(stake[c]) + 100 <= 50 * CameIn(c)
      BY <1>0, <2>1, <3>2, RowsCovered
    <3>. HIDE DEF P, D, T
    <3>4. P <= CameIn(c)
      BY <1>0, <2>2, <2>5, <3>1, <3>3
    <3>. QED BY <1>1, <3>4 DEF HandsOut, P
  <2>. QED BY <2>7, <2>8
<1>. QED BY <1>2, <1>3

LEMMA FewerPaid ==
    ASSUME NEW W, IsFiniteSet(W), W \in SUBSET WinnerRow, NEW W2 \in SUBSET W
    PROVE  IsFiniteSet(W2) /\ PaidOut(W2) <= PaidOut(W) /\ PaidOut(W2) \in Nat /\ PaidOut(W) \in Nat
<1>. DEFINE f == [w \in W |-> w.prize]
            f2 == [w \in W2 |-> w.prize]
<1>1. IsFiniteSet(W2) /\ (\A w \in W : f[w] \in Nat) /\ (\A w \in W2 : f2[w] = f[w])
  BY FS_Subset DEF WinnerRow
<1>. HIDE DEF f, f2
<1>2. SumOf(f2, W2) = SumOf(f, W2)
  BY <1>1, SumSame
<1>3. SumOf(f, W2) <= SumOf(f, W) /\ SumOf(f, W2) \in Nat /\ SumOf(f, W) \in Nat
  BY <1>1, SumSubset
<1>. QED BY <1>1, <1>2, <1>3 DEF PaidOut, f, f2

LEMMA NextPoolsCovered ==
    ASSUME Covered, CallsAsIntended, MinStake >= 200, IsFiniteSet(Request), Onward,
           NEW r \in Request, RequestStep(r)
    PROVE  PoolsCovered'
<1>0. /\ IInv /\ TypeOK /\ call[r].comp \in Competition
      /\ \A c \in Competition : /\ IsFiniteSet(winners[c]) /\ PaidOut(winners[c]) <= CameIn(c)
                                /\ winners[c] \in SUBSET WinnerRow /\ PaidOut(winners[c]) \in Nat
  <2>1. IInv /\ TypeOK
    BY DEF Covered, IInv
  <2>2. ASSUME NEW c \in Competition
        PROVE  /\ IsFiniteSet(winners[c]) /\ PaidOut(winners[c]) <= CameIn(c)
               /\ winners[c] \in SUBSET WinnerRow /\ PaidOut(winners[c]) \in Nat
    <3>1. IsFiniteSet(winners[c]) /\ PaidOut(winners[c]) <= CameIn(c)
          /\ winners[c] \in SUBSET WinnerRow
      BY <2>1 DEF Covered, PoolsCovered, TypeOK
    <3>. QED BY <3>1, FewerPaid
  <2>. QED BY <2>1, <2>2, CallFields
<1>1. \A c \in Competition : CameIn(c) \in Nat /\ CameIn(c)' \in Nat /\ CameIn(c) <= CameIn(c)'
  BY <1>0, MoreCameIn
<1>2. ASSUME NEW c \in Competition
      PROVE  IsFiniteSet(winners'[c]) /\ PaidOut(winners'[c]) \in Nat
             /\ PaidOut(winners'[c]) <= CameIn(c)
  <2>1. CASE winners'[c] \in SUBSET winners[c]
    <3>1. /\ IsFiniteSet(winners'[c]) /\ PaidOut(winners'[c]) <= PaidOut(winners[c])
          /\ PaidOut(winners'[c]) \in Nat
      BY <1>0, <2>1, FewerPaid
    <3>. QED BY <1>0, <1>1, <3>1
  <2>2. CASE DeleteAgent(r)
    <3>1. \/ winners' = winners
          \/ winners' = [k \in Competition |-> {w \in winners[k] : w.agent # call[r].agent}]
      BY <2>2 DEF DeleteAgent
    <3>. QED BY <2>1, <3>1
  <2>3. CASE SettlePool(r)
    <3>1. CASE winners' = winners
      BY <2>1, <3>1
    <3>2. CASE \E w \in Outcomes(call[r].comp) : winners' = [winners EXCEPT ![call[r].comp] = w]
      <4>1. PICK w \in Outcomes(call[r].comp) : winners' = [winners EXCEPT ![call[r].comp] = w]
        BY <3>2
      <4>2. IsFiniteSet(w) /\ PaidOut(w) <= CameIn(call[r].comp)
        BY <1>0, <4>1, SettlementCovered
      <4>3. w \in SUBSET WinnerRow
        BY <1>0, <4>1, OutcomesHandOut DEF HandsOut
      <4>4. PaidOut(w) \in Nat
        BY <4>2, <4>3, FewerPaid
      <4>5. winners'[c] = IF c = call[r].comp THEN w ELSE winners[c]
        BY <1>0, <4>1 DEF TypeOK
      <4>6. CASE c = call[r].comp
        BY <4>2, <4>4, <4>5, <4>6
      <4>7. CASE c # call[r].comp
        BY <2>1, <4>5, <4>7
      <4>. QED BY <4>6, <4>7
    <3>. QED BY <2>3, <3>1, <3>2 DEF SettlePool
  <2>4. CASE ~(DeleteAgent(r) \/ SettlePool(r))
    <3>1. winners' = winners
      BY <2>4 DEF RequestStep, tables, StartWager, FetchPayment, CheckReplay, InsertWager,
         LookupStake, StartStake, InsertStake, UpdateStake, DeleteStake, CountStakes, CommitStake,
         ActivateEntry, DeleteEntries, CloseCompetition, ReadTotal, ForceSettled
    <3>. QED BY <2>1, <3>1
  <2>. QED BY <2>2, <2>3, <2>4
<1>3. ASSUME NEW c \in Competition
      PROVE  IsFiniteSet(winners'[c]) /\ PaidOut(winners'[c]) <= CameIn(c)'
  BY <1>1, <1>2
<1>. QED BY <1>3 DEF PoolsCovered, PaidOut

LEMMA NextCovered ==
    ASSUME Covered, CallsAsIntended, MinStake >= 200, IsFiniteSet(Request), [Next]_vars
    PROVE  Covered'
<1>0. IInv /\ IInv' /\ TypeOK /\ Onward
  BY NextIInv, AlwaysOnward DEF Covered, IInv
<1>1. CASE UNCHANGED <<stake, pool, winners, call, write, sum>>
           /\ \A r \in Request : /\ seen'[r] = seen[r]
                                 /\ pc'[r] = pc[r] \/ pc'[r] = "failed"
  <2>1. CallsChecked'
    <3>1. ASSUME NEW r \in Request PROVE Checked(r)'
      <4>1. Checked(r) /\ (Backs(r) => Backs(r)') /\ UNCHANGED call
        BY <1>0, BackedKept DEF Covered, CallsChecked, Onward
      <4>2. seen'[r] = seen[r] /\ (pc'[r] = pc[r] \/ pc'[r] = "failed")
        BY <1>1
      <4>. QED BY <4>1, <4>2 DEF Checked
    <3>. QED BY <3>1 DEF CallsChecked
  <2>2. WritesBacked'
    BY <1>0, <1>1, BackedKept DEF Covered, WritesBacked
  <2>3. TablesBacked'
    BY <1>0, <1>1, SummedKept DEF Covered, TablesBacked
  <2>4. SumsBacked'
    BY <1>0, <1>1, SummedKept DEF Covered, SumsBacked
  <2>5. PoolsCovered'
    <3>1. ASSUME NEW c \in Competition
          PROVE  IsFiniteSet(winners'[c]) /\ PaidOut(winners'[c]) <= CameIn(c)'
      <4>1. CameIn(c) \in Nat /\ CameIn(c)' \in Nat /\ CameIn(c) <= CameIn(c)'
        BY <1>0, MoreCameIn
      <4>2. IsFiniteSet(winners[c]) /\ PaidOut(winners[c]) <= CameIn(c)
            /\ winners[c] \in SUBSET WinnerRow
        BY <1>0 DEF Covered, PoolsCovered, TypeOK
      <4>3. PaidOut(winners[c]) \in Nat
        BY <4>2, FewerPaid
      <4>4. winners'[c] = winners[c]
        BY <1>1
      <4>. QED BY <4>1, <4>2, <4>3, <4>4
    <3>. QED BY <3>1 DEF PoolsCovered, PaidOut
  <2>. QED BY <1>0, <2>1, <2>2, <2>3, <2>4, <2>5 DEF Covered
<1>2. CASE UNCHANGED vars
  BY <1>1, <1>2 DEF vars
<1>3. CASE Restart
  BY <1>0, <1>1, <1>3 DEF Restart, tables, locals, TypeOK
<1>4. ASSUME NEW r \in Request, RequestStep(r) PROVE Covered'
  BY <1>0, <1>4, NextChecked, NextWritesBacked, NextTablesBacked, NextSumsBacked, NextPoolsCovered
     DEF Covered
<1>. QED BY <1>2, <1>3, <1>4 DEF Next

LEMMA InitCovered ==
    ASSUME Init, IsFiniteSet(Request)
    PROVE  Covered
<1>1. IInv
  BY DEF Init, IInv, TypeOK, RowsInBounds, Fetching, Staked, Label
<1>2. CallsChecked /\ WritesBacked /\ SumsBacked
  BY DEF Init, CallsChecked, Checked, WritesBacked, SumsBacked
<1>3. ASSUME NEW c \in Competition PROVE BackedRows(c, stake[c]) /\ Summed(c, pool[c].total)
  <2>. DEFINE rows == [u \in User |-> NoRow]
  <2>1. stake[c] = rows /\ pool[c].total = 0 /\ Staked(rows) = {} /\ rows \in Rows
    BY DEF Init, Staked, Rows
  <2>. HIDE DEF rows
  <2>2. Total(rows) = 0
    BY <2>1, TotalSum, SumEmpty
  <2>3. BackedRows(c, rows)
    BY <2>1 DEF BackedRows
  <2>. QED BY <2>1, <2>2, <2>3 DEF Summed
<1>4. ASSUME NEW c \in Competition
      PROVE  IsFiniteSet(winners[c]) /\ PaidOut(winners[c]) <= CameIn(c)
  <2>1. winners[c] = {} /\ PaidOut({}) = 0
    BY SumEmpty DEF Init, PaidOut
  <2>2. CameIn(c) \in Nat
    BY <1>1, FiniteFlows
  <2>. QED BY <2>1, <2>2, FS_EmptySet
<1>. QED BY <1>1, <1>2, <1>3, <1>4 DEF Covered, TablesBacked, PoolsCovered

-----------------------------------------------------------------------------
\* From the pools to the whole

LEMMA AskedSum ==
    ASSUME NEW S, IsFiniteSet(S), S \subseteq Request
    PROVE  MapThenSumSet(LAMBDA r : call[r].amount, S) = SumOf(Asked, S)
<1>. DEFINE f == [r \in Request |-> call[r].amount]
            Sums(g) == g = [s \in SUBSET S |->
                  IF s = {} THEN 0 ELSE call[Chosen(s)].amount + g[s \ {Chosen(s)}]]
            g == CHOOSE g : Sums(g)
<1>1. PICK h : Summing(h, f, S)
  BY TableExists
<1>2. \A s \in SUBSET S : s # {} => f[Chosen(s)] = call[Chosen(s)].amount
  BY ChosenIn
<1>3. \A k : Summing(k, f, S) <=> Sums(k)
  <2>. HIDE DEF f
  <2>. QED BY <1>2 DEF Summing
<1>4. Summing(g, f, S)
  BY <1>1, <1>3
<1>5. MapThenSumSet(LAMBDA r : call[r].amount, S) = g[S]
  BY Zenon DEF MapThenSumSet, MapThenFoldSet, Chosen
<1>. QED BY <1>4, <1>5, SumIs DEF Asked

Prize == [p \in AllPrizes |-> p[2].prize]

LEMMA AllPrizesSum ==
    ASSUME IsFiniteSet(AllPrizes)
    PROVE  MapThenSumSet(LAMBDA p : p[2].prize, AllPrizes) = SumOf(Prize, AllPrizes)
<1>. DEFINE S == AllPrizes
            Sums(g) == g = [s \in SUBSET S |->
                  IF s = {} THEN 0 ELSE Chosen(s)[2].prize + g[s \ {Chosen(s)}]]
            g == CHOOSE g : Sums(g)
<1>1. PICK h : Summing(h, Prize, S)
  BY TableExists
<1>2. \A s \in SUBSET S : s # {} => Prize[Chosen(s)] = Chosen(s)[2].prize
  BY ChosenIn DEF Prize
<1>. HIDE DEF S
<1>3. \A k : Summing(k, Prize, S) <=> Sums(k)
  BY <1>2 DEF Summing
<1>4. Summing(g, Prize, S)
  BY <1>1, <1>3
<1>5. MapThenSumSet(LAMBDA p : p[2].prize, S) = g[S]
  BY Zenon DEF MapThenSumSet, MapThenFoldSet, Chosen
<1>. QED BY <1>4, <1>5, SumIs DEF S

\* The prizes of all pools, and what came in, add up competition by competition.
LEMMA PrizesByPool ==
    ASSUME TypeOK, IsFiniteSet(Competition), \A c \in Competition : IsFiniteSet(winners[c])
    PROVE  /\ IsFiniteSet(AllPrizes)
           /\ SumOf(Prize, AllPrizes) = SumOf([c \in Competition |-> PaidOut(winners[c])], Competition)
           /\ \A c \in Competition : PaidOut(winners[c]) \in Nat
<1>. DEFINE P == [c \in Competition |-> {<<c, w>> : w \in winners[c]}]
            U == UNION {P[c] : c \in Competition}
<1>1. AllPrizes = U
  BY DEF AllPrizes
<1>2. ASSUME NEW c \in Competition
      PROVE  /\ IsFiniteSet(P[c]) /\ SumOf(Prize, P[c]) = PaidOut(winners[c])
             /\ PaidOut(winners[c]) \in Nat
             /\ \A x \in P[c] : Prize[x] \in Nat
  <2>. DEFINE f == [w \in winners[c] |-> w.prize]
              h == [w \in winners[c] |-> <<c, w>>]
  <2>1. \A w \in winners[c] : f[w] \in Nat /\ Prize[h[w]] = f[w] /\ h[w] = <<c, w>>
    BY DEF TypeOK, WinnerRow, Prize, AllPrizes
  <2>2. \A x, y \in winners[c] : h[x] = h[y] => x = y
    OBVIOUS
  <2>3. P[c] = {h[w] : w \in winners[c]}
    OBVIOUS
  <2>4. PaidOut(winners[c]) = SumOf(f, winners[c])
    BY DEF PaidOut
  <2>. HIDE DEF f, h, P
  <2>5. IsFiniteSet({h[w] : w \in winners[c]})
        /\ SumOf(Prize, {h[w] : w \in winners[c]}) = SumOf(f, winners[c])
    BY <2>1, <2>2, SumImage
  <2>6. SumOf(f, winners[c]) \in Nat
    BY <2>1, SumType
  <2>7. \A x \in P[c] : Prize[x] \in Nat
    BY <2>1, <2>3
  <2>. QED BY <2>3, <2>4, <2>5, <2>6, <2>7
<1>3. \A c, d \in Competition : c # d => P[c] \intersect P[d] = {}
  OBVIOUS
<1>. HIDE DEF P
<1>4. IsFiniteSet(U) /\ SumOf(Prize, U) = SumOf([c \in Competition |-> PaidOut(winners[c])], Competition)
  <2>. DEFINE g == [c \in Competition |-> PaidOut(winners[c])]
  <2>1. \A c \in Competition : g[c] = SumOf(Prize, P[c])
    BY <1>2
  <2>2. U = UNION {P[c] : c \in Competition}
    OBVIOUS
  <2>. HIDE DEF g, U
  <2>3. /\ \A c \in Competition : IsFiniteSet(P[c])
        /\ \A c \in Competition : \A x \in P[c] : Prize[x] \in Nat
    BY <1>2
  <2>4. IsFiniteSet(U) /\ SumOf(Prize, U) = SumOf(g, Competition)
    BY ONLY IsFiniteSet(Competition), <1>3, <2>1, <2>2, <2>3, SumFamily
  <2>. QED BY <2>4 DEF g
<1>. QED BY <1>1, <1>2, <1>4

LEMMA FlowsByPool ==
    ASSUME IInv, CallsAsIntended, IsFiniteSet(Competition), IsFiniteSet(Request)
    PROVE  /\ SumOf(Amount, Received)
                = SumOf([c \in Competition |-> SumOf(Amount, ReceivedFor(c))], Competition)
           /\ SumOf(Asked, Declared)
                = SumOf([c \in Competition |-> SumOf(Asked, DeclaredFor(c))], Competition)
           /\ IsFiniteSet(Declared)
<1>. DEFINE R == [c \in Competition |-> ReceivedFor(c)]
            D == [c \in Competition |-> DeclaredFor(c)]
<1>0. TypeOK /\ \A r \in Request : call[r] \in Call /\ call[r].comp \in Competition
  BY CallFields DEF IInv, TypeOK
<1>1. /\ \A c \in Competition : IsFiniteSet(R[c]) /\ IsFiniteSet(D[c])
      /\ \A c \in Competition : \A t \in R[c] : Amount[t] \in Nat
      /\ \A c \in Competition : \A r \in D[c] : Asked[r] \in Nat
  BY FiniteFlows
<1>2. \A c, d \in Competition : c # d => R[c] \intersect R[d] = {}
  BY <1>0 DEF ReceivedFor, Wagered, CallsAsIntended
<1>3. \A c, d \in Competition : c # d => D[c] \intersect D[d] = {}
  BY DEF DeclaredFor
<1>4. UNION {R[c] : c \in Competition} = Received
  BY <1>0 DEF Received, ReceivedFor, Wagered
<1>5. UNION {D[c] : c \in Competition} = Declared
  BY <1>0 DEF Declared, DeclaredFor
<1>. DEFINE g == [c \in Competition |-> SumOf(Amount, ReceivedFor(c))]
            h == [c \in Competition |-> SumOf(Asked, DeclaredFor(c))]
<1>6. \A c \in Competition : g[c] = SumOf(Amount, R[c]) /\ h[c] = SumOf(Asked, D[c])
  OBVIOUS
<1>. HIDE DEF R, D, g, h
<1>7. SumOf(Amount, Received) = SumOf(g, Competition)
  <2>1. /\ \A c \in Competition : IsFiniteSet(R[c]) /\ g[c] = SumOf(Amount, R[c])
        /\ \A c \in Competition : \A t \in R[c] : Amount[t] \in Nat
        /\ Received = UNION {R[c] : c \in Competition}
    BY <1>1, <1>4, <1>6
  <2>. QED BY ONLY IsFiniteSet(Competition), <1>2, <2>1, SumFamily
<1>8. IsFiniteSet(Declared) /\ SumOf(Asked, Declared) = SumOf(h, Competition)
  <2>1. /\ \A c \in Competition : IsFiniteSet(D[c]) /\ h[c] = SumOf(Asked, D[c])
        /\ \A c \in Competition : \A r \in D[c] : Asked[r] \in Nat
        /\ Declared = UNION {D[c] : c \in Competition}
    BY <1>1, <1>5, <1>6
  <2>. QED BY ONLY IsFiniteSet(Competition), <1>3, <2>1, SumFamily
<1>. QED BY <1>7, <1>8 DEF g, h

LEMMA CoveredTogether ==
    ASSUME Covered, CallsAsIntended, IsFiniteSet(Competition), IsFiniteSet(Request)
    PROVE  PrizesCovered
<1>. DEFINE f == [c \in Competition |-> PaidOut(winners[c])]
            g == [c \in Competition |-> SumOf(Amount, ReceivedFor(c))]
            h == [c \in Competition |-> SumOf(Asked, DeclaredFor(c))]
<1>0. IInv /\ TypeOK /\ \A c \in Competition : IsFiniteSet(winners[c])
  BY DEF Covered, IInv, PoolsCovered
<1>1. /\ IsFiniteSet(AllPrizes) /\ SumOf(Prize, AllPrizes) = SumOf(f, Competition)
      /\ \A c \in Competition : PaidOut(winners[c]) \in Nat
  BY <1>0, PrizesByPool
<1>2. /\ SumOf(Amount, Received) = SumOf(g, Competition)
      /\ SumOf(Asked, Declared) = SumOf(h, Competition) /\ IsFiniteSet(Declared)
  BY <1>0, FlowsByPool
<1>3. \A c \in Competition : f[c] \in Nat /\ g[c] \in Nat /\ h[c] \in Nat /\ f[c] <= g[c] + h[c]
  BY <1>0, <1>1, FiniteFlows DEF Covered, PoolsCovered, CameIn
<1>. HIDE DEF f, g, h
<1>4. SumOf(f, Competition) <= SumOf(g, Competition) + SumOf(h, Competition)
  BY <1>3, SumCovered
<1>5. MapThenSumSet(LAMBDA p : p[2].prize, AllPrizes) = SumOf(f, Competition)
  BY <1>1, AllPrizesSum
<1>6. MapThenSumSet(LAMBDA t : Amount[t], Received) = SumOf(g, Competition)
  BY <1>2 DEF SumOf
<1>7. MapThenSumSet(LAMBDA r : call[r].amount, Declared) = SumOf(h, Competition)
  <2>1. Declared \subseteq Request
    BY DEF Declared
  <2>. QED BY <1>2, <2>1, AskedSum
<1>. QED BY <1>4, <1>5, <1>6, <1>7 DEF PrizesCovered

\* The prizes of all settled pools stay within what came in, whatever is
\* overwritten, replaced, counted late or cascaded away, for any number of
\* competitions, users and calls, as long as callers stake with their own
\* agents and pay for every wager, and a stake is at least 200 units
\* (min_stake defaults to 1,000,000).
THEOREM PrizesAreCovered ==
    ASSUME CallsAsIntended, MinStake >= 200, IsFiniteSet(Request), IsFiniteSet(Competition)
    PROVE  Spec => []PrizesCovered
<1>1. Init => Covered
  BY InitCovered
<1>2. Covered /\ [Next]_vars => Covered'
  BY NextCovered
<1>3. Covered => PrizesCovered
  BY CoveredTogether
<1>. QED BY <1>1, <1>2, <1>3, PTL DEF Spec
=============================================================================
