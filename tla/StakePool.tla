------------------------------ MODULE StakePool ------------------------------
(***************************************************************************)
(* The stakes of a competition pool: createWager (AgentsService) with the  *)
(* on-chain check of TreasuryGuardService, addStake and settlePool         *)
(* (PoolService), deleteForecaster, and the PostgreSQL triggers and the    *)
(* settlement function they rely on.                                       *)
(*                                                                         *)
(* A call runs one await at a time. A statement on pool_stakes is a        *)
(* READ COMMITTED transaction of three steps: the BEFORE trigger and the   *)
(* uncommitted write; the AFTER trigger's SELECT SUM over what is          *)
(* committed plus its own write; its UPDATE of competition_pools and the   *)
(* commit. settle_competition_pool holds the pool row FOR UPDATE, which no *)
(* other statement here can see half done: it is one step. Who waits for   *)
(* whom, lock by lock, is in PoolLocks.                                    *)
(*                                                                         *)
(* Amounts are integers in units of 1e-8 SOL. Which agents predicted, and  *)
(* how they rank, is not modelled: settlement takes any subset and order.  *)
(***************************************************************************)
EXTENDS Integers, FiniteSets, FiniteSetsExt, Functions

CONSTANTS
    User, Agent, Competition, Request, Payment,
    Owner,          \* Owner[a]: agents.user_id
    Amount,         \* Amount[t]: what payment t moved to the treasury
    Call,           \* the calls a request may stand for
    NoPayment,
    NoRow,
    MinStake, MaxStake,
    DeleteTrigger,  \* does pool_stake_totals fire on DELETE? FALSE since
                    \* migration 082, TRUE in full_sql/007
    Faults          \* "db": a Supabase call fails; "restart": memory is lost

CallType ==
    [op : {"wager", "stake", "settle", "delete"}, user : User, agent : Agent,
     comp : Competition, amount : Nat, tx : Payment \union {NoPayment}]

ASSUME ConstantsAssumption ==
    /\ IsFiniteSet(User) /\ IsFiniteSet(Agent)
    /\ Owner \in [Agent -> User]
    /\ Amount \in [Payment -> Nat]
    /\ NoPayment \notin Payment
    /\ NoRow \notin Request
    /\ Call \subseteq CallType
    /\ \A k \in Call : k.op = "wager" => k.tx \in Payment
    /\ MinStake \in Nat \ {0} /\ MaxStake \in Nat
    /\ DeleteTrigger \in BOOLEAN
    /\ Faults \subseteq {"db", "restart"}

VARIABLES
    stake,      \* stake[c][u]: the committed pool_stakes row, or NoRow; the
                \* UNIQUE (user_id, competition_id) key is the index
    pool,       \* pool[c]: settlement_status and total_staked
    open,       \* competitions whose status is upcoming or active
    winners,    \* winners[c]: the rows of pool_winners
    agents,     \* agents that exist
    entries,    \* agent_competition_entries: <<agent, competition>>
    cache,      \* verifiedTxCache of TreasuryGuardService
    call, pc,   \* the call a request stands for, and where it stands
    seen,       \* seen[r]: id of the stake row the lookup returned, or NoRow
    write,      \* write[r]: uncommitted write of r, or NoRow
    sum         \* sum[r]: the total the AFTER trigger of r has computed

tables == <<stake, pool, open, winners, agents, entries>>
locals == <<call, seen, write, sum>>
vars == <<stake, pool, open, winners, agents, entries, cache, call, pc, seen,
          write, sum>>

Label == {"idle", "fetch", "replay", "agent", "lookup", "update", "insert",
          "count", "commit", "replace", "settle", "retry", "read_total",
          "force", "del_agent", "activate", "done", "failed"}

Stake == [id : Request, agent : Agent, amount : Nat, tx : Payment \union {NoPayment}]

Write == [kind : {"insert", "update"}, user : User, row : Stake]

WinnerRow == [rank : 1 .. 3, agent : Agent, user : User, prize : Nat]

TypeOK ==
    /\ stake \in [Competition -> [User -> Stake \union {NoRow}]]
    /\ pool \in [Competition -> [status : {"pending", "settled"}, total : Nat]]
    /\ open \subseteq Competition
    /\ winners \in [Competition -> SUBSET WinnerRow]
    /\ agents \subseteq Agent
    /\ entries \subseteq Agent \X Competition
    /\ cache \subseteq Payment
    /\ call \in [Request -> Call]
    /\ pc \in [Request -> Label]
    /\ seen \in [Request -> Request \union {NoRow}]
    /\ write \in [Request -> Write \union {NoRow}]
    /\ sum \in [Request -> Nat]

\* Agents are deployed and enrolled; what each request calls is chosen here.
Init ==
    /\ stake = [c \in Competition |-> [u \in User |-> NoRow]]
    /\ pool = [c \in Competition |-> [status |-> "pending", total |-> 0]]
    /\ open = Competition
    /\ winners = [c \in Competition |-> {}]
    /\ agents = Agent
    /\ entries = Agent \X Competition
    /\ cache = {}
    /\ call \in [Request -> Call]
    /\ pc = [r \in Request |-> "idle"]
    /\ seen = [r \in Request |-> NoRow]
    /\ write = [r \in Request |-> NoRow]
    /\ sum = [r \in Request |-> 0]

-----------------------------------------------------------------------------
\* Helpers

Goto(r, l) == pc' = [pc EXCEPT ![r] = l]

Staked(rows) == {u \in User : rows[u] # NoRow}
Total(rows) == MapThenSumSet(LAMBDA u : rows[u].amount, Staked(rows))

InBounds(n) == MinStake <= n /\ n <= MaxStake

\* Somebody else's uncommitted write on the row (or key) of user u in c.
Locked(r, c, u) ==
    \E q \in Request \ {r} : write[q] # NoRow /\ call[q].comp = c /\ write[q].user = u

\* What a transaction of r sees of the stakes of its competition.
Visible(r) ==
    LET rows == stake[call[r].comp] IN
    IF write[r] = NoRow THEN rows ELSE [rows EXCEPT ![write[r].user] = write[r].row]

NewRow(r, id) ==
    [id |-> id, agent |-> call[r].agent, amount |-> call[r].amount, tx |-> call[r].tx]

\* createWager goes on after its last statement on pool_stakes, failed or
\* not; addStake reports the error.
AfterStake(r) == Goto(r, IF call[r].op = "wager" THEN "activate" ELSE "done")
AfterError(r) == Goto(r, IF call[r].op = "wager" THEN "activate" ELSE "failed")

\* The row of c with total n, and marked settled
PoolWithTotal(c, n) == [status |-> pool[c].status, total |-> n]
PoolSettled(c) == [status |-> "settled", total |-> pool[c].total]

\* n / d rounded half away from zero, as DECIMAL(18,8) columns store it
Rounded(n, d) == (2 * n + d) \div (2 * d)

Distributable(c) == Rounded(pool[c].total * 9800, 10000)

-----------------------------------------------------------------------------
\* createWager: verification and preparation

\* verifyStakeTransaction up to its await: the replay cache
StartWager(r) ==
    /\ pc[r] = "idle" /\ call[r].op = "wager"
    /\ Goto(r, IF call[r].tx \in cache THEN "failed" ELSE "fetch")
    /\ UNCHANGED <<tables, cache, locals>>

\* AMOUNT_TOLERANCE_BPS of the declared amount, rounded up
Tolerance(n) == (n * 50 + 9999) \div 10000

AmountAccepted(n, paid) == n - Tolerance(n) <= paid /\ paid <= n + Tolerance(n)

\* getParsedTransaction answers; the declared amount must be close to the
\* one moved. The transaction is cached as used before it is recorded.
FetchPayment(r) ==
    LET ok == AmountAccepted(call[r].amount, Amount[call[r].tx]) IN
    /\ pc[r] = "fetch"
    /\ \/ /\ ok
          /\ cache' = cache \union {call[r].tx}
          /\ Goto(r, "replay")
       \/ /\ ~ok \/ "db" \in Faults
          /\ Goto(r, "failed")
          /\ UNCHANGED cache
    /\ UNCHANGED <<tables, locals>>

\* "Allow updating own agent's transaction"
CheckReplay(r) ==
    LET Reused == \E c \in Competition : \E u \in Staked(stake[c]) :
                     stake[c][u].tx = call[r].tx /\ stake[c][u].agent # call[r].agent
    IN
    /\ pc[r] = "replay"
    /\ Goto(r, IF Reused THEN "failed" ELSE "agent")
    /\ UNCHANGED <<tables, cache, locals>>

\* The agent must exist and be the caller's; then INSERT INTO agent_wagers.
InsertWager(r) ==
    /\ pc[r] = "agent"
    /\ \/ /\ call[r].agent \in agents /\ Owner[call[r].agent] = call[r].user
          /\ Goto(r, "lookup")
       \/ /\ \/ call[r].agent \notin agents
             \/ Owner[call[r].agent] # call[r].user
             \/ "db" \in Faults
          /\ Goto(r, "failed")
    /\ UNCHANGED <<tables, cache, locals>>

\* The stake of this agent or of this user, whichever row comes first; a
\* failed query looks like no row.
LookupStake(r) ==
    LET rows == stake[call[r].comp]
        Found == {u \in Staked(rows) : u = call[r].user \/ rows[u].agent = call[r].agent}
    IN
    /\ pc[r] = "lookup"
    /\ \/ \E u \in Found :
             /\ seen' = [seen EXCEPT ![r] = rows[u].id]
             /\ Goto(r, "update")
       \/ /\ Found = {} \/ "db" \in Faults
          /\ Goto(r, "insert")
          /\ UNCHANGED seen
    /\ UNCHANGED <<tables, cache, call, write, sum>>

-----------------------------------------------------------------------------
\* Statements on pool_stakes

\* addStake reads the pool before it inserts.
StartStake(r) ==
    /\ pc[r] = "idle" /\ call[r].op = "stake"
    /\ Goto(r, IF pool[call[r].comp].status = "pending" /\ InBounds(call[r].amount)
               THEN "insert" ELSE "failed")
    /\ UNCHANGED <<tables, cache, locals>>

\* validate_stake for INSERT, the foreign key and the unique key
InsertAllowed(r) ==
    LET c == call[r].comp IN
    /\ pool[c].status = "pending" /\ c \in open /\ InBounds(call[r].amount)
    /\ call[r].agent \in agents
    /\ stake[c][call[r].user] = NoRow

InsertStake(r) ==
    LET k == call[r] IN
    /\ pc[r] = "insert"
    /\ \/ /\ InsertAllowed(r)
          /\ ~Locked(r, k.comp, k.user)
          /\ write' = [write EXCEPT ![r] =
                         [kind |-> "insert", user |-> k.user, row |-> NewRow(r, r)]]
          /\ Goto(r, "count")
       \/ /\ ~InsertAllowed(r) \/ "db" \in Faults
          /\ AfterError(r)
          /\ UNCHANGED write
    /\ UNCHANGED <<tables, cache, call, seen, sum>>

\* UPDATE ... WHERE id = seen: validate_stake checks the amount but, on
\* UPDATE, neither the pool nor the competition. An error, or no row left,
\* leads to DELETE and INSERT.
UpdateStake(r) ==
    LET c == call[r].comp
        Target == {u \in Staked(stake[c]) : stake[c][u].id = seen[r]}
        Allowed == InBounds(call[r].amount) /\ call[r].agent \in agents
    IN
    /\ pc[r] = "update"
    /\ \/ \E u \in Target :
             /\ Allowed /\ ~Locked(r, c, u)
             /\ write' = [write EXCEPT ![r] =
                            [kind |-> "update", user |-> u, row |-> NewRow(r, seen[r])]]
             /\ Goto(r, "count")
       \/ /\ Target = {} \/ ~Allowed \/ "db" \in Faults
          /\ Goto(r, "replace")
          /\ UNCHANGED write
    /\ UNCHANGED <<tables, cache, call, seen, sum>>

\* Mutant: the total is decremented instead of recounted.
DecrementTotal(c, users) ==
    LET gone == [u \in User |-> IF u \in users THEN stake[c][u] ELSE NoRow]
        rows == [u \in User |-> IF u \in users THEN NoRow ELSE stake[c][u]]
    IN
    /\ stake' = [stake EXCEPT ![c] = rows]
    /\ pool' = [pool EXCEPT ![c] = PoolWithTotal(c, pool[c].total - Total(gone))]

\* Rows removed by a DELETE: totals follow only if the trigger fires.
RemoveStakes(c, users) ==
    LET rows == [u \in User |-> IF u \in users THEN NoRow ELSE stake[c][u]] IN
    /\ stake' = [stake EXCEPT ![c] = rows]
    /\ pool' = IF DeleteTrigger /\ users # {}
               THEN [pool EXCEPT ![c] = PoolWithTotal(c, Total(rows))] ELSE pool

DeleteStake(r) ==
    LET c == call[r].comp
        Target == {u \in Staked(stake[c]) : stake[c][u].id = seen[r]}
    IN
    /\ pc[r] = "replace"
    /\ \/ /\ \A u \in Target : ~Locked(r, c, u)
          /\ RemoveStakes(c, Target)
       \/ "db" \in Faults /\ UNCHANGED <<stake, pool>>
    /\ Goto(r, "insert")
    /\ UNCHANGED <<open, winners, agents, entries, cache, locals>>

\* Mutant: the trigger adds the new amount to the sum it read.
CountTwice(r) ==
    /\ pc[r] = "count"
    /\ sum' = [sum EXCEPT ![r] = Total(Visible(r)) + write[r].row.amount]
    /\ Goto(r, "commit")
    /\ UNCHANGED <<tables, cache, call, seen, write>>

\* update_pool_on_stake: SELECT SUM over committed rows and the own write.
CountStakes(r) ==
    /\ pc[r] = "count"
    /\ sum' = [sum EXCEPT ![r] = Total(Visible(r))]
    /\ Goto(r, "commit")
    /\ UNCHANGED <<tables, cache, call, seen, write>>

\* update_pool_on_stake: UPDATE competition_pools, then COMMIT.
CommitStake(r) ==
    LET c == call[r].comp IN
    /\ pc[r] = "commit"
    /\ stake' = [stake EXCEPT ![c] = Visible(r)]
    /\ pool' = [pool EXCEPT ![c] = PoolWithTotal(c, sum[r])]
    /\ write' = [write EXCEPT ![r] = NoRow]
    /\ AfterStake(r)
    /\ UNCHANGED <<open, winners, agents, entries, cache, call, seen, sum>>

\* The entry is upserted (refused when the agent is gone) and the wager
\* returned to the caller.
ActivateEntry(r) ==
    /\ pc[r] = "activate"
    /\ \/ /\ call[r].agent \in agents
          /\ entries' = entries \union {<<call[r].agent, call[r].comp>>}
       \/ /\ call[r].agent \notin agents \/ "db" \in Faults
          /\ UNCHANGED entries
    /\ Goto(r, "done")
    /\ UNCHANGED <<stake, pool, open, winners, agents, cache, locals>>

-----------------------------------------------------------------------------
\* deleteForecaster

\* Entries go first, whoever owns the agent.
DeleteEntries(r) ==
    /\ pc[r] = "idle" /\ call[r].op = "delete"
    /\ entries' = {e \in entries : e[1] # call[r].agent}
    /\ Goto(r, "del_agent")
    /\ UNCHANGED <<stake, pool, open, winners, agents, cache, locals>>

\* ON DELETE CASCADE takes the stakes and the winner rows of the agent; it
\* waits for open writes that reference the agent or lock such a stake.
DeleteAgent(r) ==
    LET a == call[r].agent
        Backers(c) == {u \in Staked(stake[c]) : stake[c][u].agent = a}
        Kept(c) == [u \in User |-> IF u \in Backers(c) THEN NoRow ELSE stake[c][u]]
    IN
    /\ pc[r] = "del_agent"
    /\ \/ /\ a \in agents /\ Owner[a] = call[r].user
          /\ \A q \in Request : write[q] # NoRow =>
                write[q].row.agent # a /\ write[q].user \notin Backers(call[q].comp)
          /\ agents' = agents \ {a}
          /\ stake' = [c \in Competition |-> Kept(c)]
          /\ pool' = [c \in Competition |->
                        IF DeleteTrigger /\ Backers(c) # {}
                        THEN PoolWithTotal(c, Total(Kept(c))) ELSE pool[c]]
          /\ winners' = [c \in Competition |-> {w \in winners[c] : w.agent # a}]
       \/ /\ a \notin agents \/ Owner[a] # call[r].user \/ "db" \in Faults
          /\ UNCHANGED <<agents, stake, pool, winners>>
    /\ Goto(r, "done")
    /\ UNCHANGED <<open, entries, cache, locals>>

-----------------------------------------------------------------------------
\* Settlement

\* The callers mark the competition settled before they settle its pool.
CloseCompetition(r) ==
    /\ pc[r] = "idle" /\ call[r].op = "settle"
    /\ open' = open \ {call[r].comp}
    /\ Goto(r, "settle")
    /\ UNCHANGED <<stake, pool, winners, agents, entries, cache, locals>>

\* The join of entries with stakes: a stake made with the agent, or else the
\* stake of the agent's owner.
Candidates(c, scored) ==
    LET Direct(a) == {u \in Staked(stake[c]) : stake[c][u].agent = a}
        Backer(a) == IF Direct(a) # {} THEN Direct(a) ELSE {Owner[a]} \intersect Staked(stake[c])
    IN UNION {{[agent |-> a, stake |-> stake[c][u].amount, user |-> u] : u \in Backer(a)} :
              a \in {b \in scored : <<b, c>> \in entries}}

RankWeight == <<3, 2, 1>>

\* Mutant: the weighted share is taken of the unweighted stakes.
UnweightedPrizes(c, ranked) ==
    LET Share(i) == ranked[i].stake * RankWeight[i]
        Stakes == MapThenSumSet(LAMBDA i : ranked[i].stake, DOMAIN ranked)
    IN {[rank |-> i, agent |-> ranked[i].agent, user |-> Owner[ranked[i].agent],
         prize |-> Rounded(Distributable(c) * Share(i), Stakes)] : i \in DOMAIN ranked}

\* Prizes of the ranked candidates: distributable * share / sum of shares
Prizes(c, ranked) ==
    LET Share(i) == ranked[i].stake * RankWeight[i]
        Shares == MapThenSumSet(Share, DOMAIN ranked)
    IN {[rank |-> i, agent |-> ranked[i].agent, user |-> Owner[ranked[i].agent],
         prize |-> Rounded(Distributable(c) * Share(i), Shares)] : i \in DOMAIN ranked}

\* The winner sets a settlement of c may insert: any agents have predicted,
\* and the first three candidates of any order win.
Outcomes(c) ==
    LET Ranked(cand) ==
            {f \in [1 .. (IF Cardinality(cand) > 3 THEN 3 ELSE Cardinality(cand)) -> cand] :
                IsInjective(f)}
    IN UNION {{Prizes(c, f) : f \in Ranked(Candidates(c, scored))} : scored \in SUBSET agents}

\* FOR UPDATE waits for inserts that hold the KEY SHARE lock of their
\* foreign key, which they take before the AFTER trigger counts.
PoolLockFree(c) ==
    \A q \in Request :
        ~(pc[q] = "commit" /\ call[q].comp = c /\ write[q].kind = "insert")

\* Mutant: settlement does not look at the status under its lock.
SettleAnyPool(r) ==
    LET c == call[r].comp IN
    /\ pc[r] \in {"settle", "retry"} /\ PoolLockFree(c)
    /\ \E w \in Outcomes(c) : winners' = [winners EXCEPT ![c] = w]
    /\ pool' = [pool EXCEPT ![c] = PoolSettled(c)]
    /\ open' = open \ {c}
    /\ Goto(r, "done")
    /\ UNCHANGED <<stake, agents, entries, cache, locals>>

\* settle_competition_pool
SettlePool(r) ==
    LET c == call[r].comp IN
    /\ pc[r] \in {"settle", "retry"}
    /\ \/ /\ pool[c].status = "pending" /\ PoolLockFree(c)
          /\ \E w \in Outcomes(c) : winners' = [winners EXCEPT ![c] = w]
          /\ pool' = [pool EXCEPT ![c] = PoolSettled(c)]
          /\ open' = open \ {c}
          /\ Goto(r, "done")
       \/ /\ pool[c].status # "pending" \/ "db" \in Faults
          /\ Goto(r, IF pc[r] = "settle" THEN "retry" ELSE "read_total")
          /\ UNCHANGED <<pool, winners, open>>
    /\ UNCHANGED <<stake, agents, entries, cache, locals>>

\* Last resort: an unsettled pool without stakes is marked settled.
ReadTotal(r) ==
    LET p == pool[call[r].comp] IN
    /\ pc[r] = "read_total"
    /\ Goto(r, IF p.status = "pending" /\ p.total = 0 THEN "force" ELSE "done")
    /\ UNCHANGED <<tables, cache, locals>>

ForceSettled(r) ==
    /\ pc[r] = "force"
    /\ pool' = [pool EXCEPT ![call[r].comp] = PoolSettled(call[r].comp)]
    /\ Goto(r, "done")
    /\ UNCHANGED <<stake, open, winners, agents, entries, cache, locals>>

-----------------------------------------------------------------------------
\* A restart loses the replay cache and the running requests. A statement
\* the database has begun does not depend on the server: the restart is
\* taken before it begins or after its commit. With nothing cached a restart
\* only stops requests, as a request may do by never taking its next step.
Restart ==
    /\ "restart" \in Faults
    /\ cache # {} /\ \A r \in Request : write[r] = NoRow
    /\ cache' = {}
    /\ pc' = [r \in Request |-> IF pc[r] \in {"idle", "done"} THEN pc[r] ELSE "failed"]
    /\ UNCHANGED <<tables, locals>>

RequestStep(r) ==
    \/ StartWager(r) \/ FetchPayment(r) \/ CheckReplay(r) \/ InsertWager(r)
    \/ LookupStake(r) \/ StartStake(r) \/ InsertStake(r) \/ UpdateStake(r)
    \/ DeleteStake(r) \/ CountStakes(r) \/ CommitStake(r) \/ ActivateEntry(r)
    \/ DeleteEntries(r) \/ DeleteAgent(r) \/ CloseCompetition(r) \/ SettlePool(r) \/ ReadTotal(r)
    \/ ForceSettled(r)

Next == Restart \/ \E r \in Request : RequestStep(r)

Spec == Init /\ [][Next]_vars

-----------------------------------------------------------------------------
\* Properties

\* What was paid on chain for the wagers received (the user pays before the
\* call), and what addStake was told without any payment.
Received == {call[r].tx : r \in {q \in Request : call[q].op = "wager" /\ pc[q] # "idle"}}
Declared == {r \in Request : call[r].op = "stake" /\ pc[r] # "idle"}

\* Callers stake with agents of their own, and pay once for every wager: no
\* payment is named by two users or for two competitions.
CallsAsIntended ==
    /\ \A k \in Call : k.op = "stake" => Owner[k.agent] = k.user
    /\ \A k, l \in Call : k.op = "wager" /\ l.op = "wager" /\ k.tx = l.tx =>
          k.user = l.user /\ k.comp = l.comp

AllPrizes == UNION {{<<c, w>> : w \in winners[c]} : c \in Competition}

\* The prizes of all settled pools never exceed what came in: not when a
\* stake is overwritten, replaced, cascaded away with its agent, declared above its
\* payment within the tolerance or counted for two agents of its owner, and
\* not when triggers race and the totals drift.
PrizesCovered ==
    MapThenSumSet(LAMBDA p : p[2].prize, AllPrizes)
        <= MapThenSumSet(LAMBDA t : Amount[t], Received)
         + MapThenSumSet(LAMBDA r : call[r].amount, Declared)

\* A settlement that names winners hands out the distributable pool, up to
\* half a unit of rounding per winner, whatever the stakes and weights are.
SettlementDistributesPool ==
    [][\A c \in Competition :
          (pool[c].status = "pending" /\ pool'[c].status = "settled" /\ winners'[c] # {}) =>
             LET paid == MapThenSumSet(LAMBDA w : w.prize, winners'[c])
                 gap == 2 * (paid - Distributable(c))
             IN  gap <= Cardinality(winners'[c]) /\ -gap <= Cardinality(winners'[c])]_vars

\* Settlement happens once: cron, retry, fallback and admin calls that run
\* into each other leave the winners as they are. Only deleting the winning
\* agent removes a winner.
WinnersFinal ==
    [][\A c \in Competition : pool[c].status = "settled" =>
          /\ pool'[c].status = "settled"
          /\ winners'[c] \subseteq winners[c]
          /\ \A w \in winners[c] : w.agent \in agents' => w \in winners'[c]]_vars

Quiet == \A r \in Request : pc[r] \in {"idle", "done", "failed"}

\* "This ensures pool_stakes.stake_amount always matches the actual SOL
\* deducted from the user's wallet": at rest, the stake of a user is what
\* the user's returned wagers moved. Two wagers that look the row up before
\* either has inserted it leave the second INSERT refused, of two in a row the
\* second overwrites the amount, and a failed call leaves none.
StakesMatchPayments ==
    Quiet => \A c \in Competition, u \in User :
        LET mine == {r \in Request : /\ call[r].op = "wager" /\ pc[r] = "done"
                                     /\ call[r].comp = c /\ call[r].user = u}
        IN mine # {} =>
             /\ stake[c][u] # NoRow
             /\ stake[c][u].amount =
                   MapThenSumSet(LAMBDA t : Amount[t], {call[r].tx : r \in mine})
=============================================================================
