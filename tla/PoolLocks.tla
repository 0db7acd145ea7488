----------------------------- MODULE PoolLocks -----------------------------
(***************************************************************************)
(* The row locks behind StakePool: the statements of createWager, addStake,*)
(* deleteForecaster, settlePool and the seeder that touch a pool, each     *)
(* with the locks that PostgreSQL takes for it, one at a time and in the   *)
(* order of the SQL: the row itself, the rows its foreign keys name, what  *)
(* its AFTER trigger updates, what a DELETE cascades to. Every statement   *)
(* of the service is a transaction of its own, and a lock is kept until it *)
(* ends. A ring of waits is broken by PostgreSQL's deadlock detector; the  *)
(* code sees one more failed call (Faults = {"db"} in StakePool).          *)
(*                                                                         *)
(* Only what decides who waits for whom is here: which agent a stake is on *)
(* and the locks. A deleted agent may be deployed again under its name;    *)
(* the queue of a lock is not kept, whoever comes first takes it.          *)
(***************************************************************************)
EXTENDS Naturals, FiniteSets, Sequences, SequencesExt

CONSTANTS
    User, Agent, Competition,
    Transaction,    \* connections, each running one statement at a time
    NoAgent

ASSUME ConstantsAssumption == NoAgent \notin Agent

VARIABLES
    stake,      \* stake[c][u]: agent of the committed pool_stakes row, or NoAgent
    work,       \* work[t]: the statement t runs and the locks it still needs
    held        \* held[t]: the locks t has

vars == <<stake, work, held>>

\* FOR KEY SHARE (foreign keys), FOR NO KEY UPDATE (UPDATE), and FOR UPDATE
\* (DELETE, SELECT FOR UPDATE; a new unique key excludes the same key)
Mode == {"share", "write", "key"}

Conflict(m, n) == "key" \in {m, n} \/ (m = "write" /\ n = "write")

Row == ({"stake"} \X Competition \X User) \union ({"entry"} \X Competition \X Agent)
         \union ({"pool", "comp"} \X Competition) \union ({"agent"} \X Agent)

Lock(mode, row) == [mode |-> mode, row |-> row]

\* A statement: the agent that the stakes it writes are on afterwards, and locks
Statement(kind, to, todo) == [kind |-> kind, to |-> to, todo |-> todo]
Idle == Statement("idle", NoAgent, <<>>)

Kind == {"idle", "insert", "update", "delete", "upsert", "settle", "force", "entries", "agent"}

TypeOK ==
    /\ stake \in [Competition -> [User -> Agent \union {NoAgent}]]
    /\ work \in [Transaction -> [kind : Kind, to : Agent \union {NoAgent},
                                 todo : Seq([mode : Mode, row : Row])]]
    /\ held \in [Transaction -> SUBSET [mode : Mode, row : Row]]

Init ==
    /\ stake \in [Competition -> [User -> Agent \union {NoAgent}]]
    /\ work = [t \in Transaction |-> Idle]
    /\ held = [t \in Transaction |-> {}]

-----------------------------------------------------------------------------
\* The statements

\* Mutant: the competition's totals are written before the pool's.
CompetitionFirst(c) == <<Lock("write", <<"comp", c>>), Lock("write", <<"pool", c>>)>>

\* update_pool_on_stake
UpdatePool(c) == <<Lock("write", <<"pool", c>>), Lock("write", <<"comp", c>>)>>

\* Mutant: the trigger of migration 080, which fires on DELETE too.
UpdatePoolOnDelete(c) == UpdatePool(c)

\* since migration 082 the trigger fires on INSERT and UPDATE only
AfterDelete(c) == <<>>

\* its key, then its foreign keys in the order of the table, then the trigger
InsertStake(c, u, a) == Statement("insert", a,
    <<Lock("key", <<"stake", c, u>>), Lock("share", <<"pool", c>>),
      Lock("share", <<"comp", c>>), Lock("share", <<"agent", a>>)>> \o UpdatePool(c))

\* what follows the row itself depends on what is found in it (Continuation)
UpdateStake(c, u, a) == Statement("update", a, <<Lock("write", <<"stake", c, u>>)>>)
DeleteStake(c, u) ==
    Statement("delete", NoAgent, <<Lock("key", <<"stake", c, u>>)>> \o AfterDelete(c))

\* Mutant: ON DELETE SET NULL, stakes outlive their agent.
DeleteAgentOnly(a) == Statement("agent", "null", <<Lock("key", <<"agent", a>>)>>)

DeleteAgent(a) == Statement("agent", NoAgent, <<Lock("key", <<"agent", a>>)>>)

\* an entry that exists, or a new one, which nobody sees before its commit
UpsertEntry(c, a) == Statement("upsert", NoAgent, <<Lock("write", <<"entry", c, a>>)>>)
InsertEntry(c, a) == Statement("upsert", NoAgent,
    <<Lock("share", <<"agent", a>>), Lock("share", <<"comp", c>>)>>)

\* agents.status: no key, so that foreign keys do not wait for it
UpdateAgent(a) == Statement("upsert", NoAgent, <<Lock("write", <<"agent", a>>)>>)

\* deleteForecaster and terminateForecaster: the entries of an agent
ChangeEntries(a, comps) == Statement("entries", NoAgent,
    [i \in DOMAIN comps |-> Lock("key", <<"entry", comps[i], a>>)])

\* settle_competition_pool: the pool, per winner the row of pool_winners with
\* its foreign keys and the entry, at last the competition
SettlePool(c, ranked) ==
    LET Winner(a) == <<Lock("share", <<"comp", c>>), Lock("share", <<"agent", a>>),
                       Lock("write", <<"entry", c, a>>)>>
    IN Statement("settle", NoAgent,
         <<Lock("key", <<"pool", c>>)>>
           \o FlattenSeq([i \in DOMAIN ranked |-> Winner(ranked[i])])
           \o <<Lock("write", <<"comp", c>>)>>)

\* settleAndReplenish marks an empty pool settled.
ForceSettled(c) == Statement("force", NoAgent, <<Lock("write", <<"pool", c>>)>>)

Orders(S) == UNION {SetToSeqs(T) : T \in SUBSET S}

Statements ==
    {InsertStake(c, u, a) : c \in Competition, u \in User, a \in Agent}
        \union {UpdateStake(c, u, a) : c \in Competition, u \in User, a \in Agent}
        \union {DeleteStake(c, u) : c \in Competition, u \in User}
        \union {DeleteAgent(a) : a \in Agent}
        \union {UpdateAgent(a) : a \in Agent}
        \union {UpsertEntry(c, a) : c \in Competition, a \in Agent}
        \union {InsertEntry(c, a) : c \in Competition, a \in Agent}
        \union {ChangeEntries(a, comps) : a \in Agent, comps \in Orders(Competition)}
        \union {SettlePool(c, ranked) : c \in Competition, ranked \in Orders(Agent)}
        \union {ForceSettled(c) : c \in Competition}

-----------------------------------------------------------------------------
\* Running a statement

Begin(t, s) ==
    /\ work[t] = Idle /\ s.todo # <<>>
    /\ work' = [work EXCEPT ![t] = s]
    /\ UNCHANGED <<stake, held>>

Needed(t) == Head(work[t].todo)
AgentOf(row) == stake[row[2]][row[3]]

\* The agent that t deletes: it holds its row.
Deleted(t) == (CHOOSE l \in held[t] : l.row[1] = "agent").row[2]

\* A cascade passes over a stake that has left its agent meanwhile.
Passed(t) ==
    work[t].kind = "agent" /\ Needed(t).row[1] = "stake" /\ AgentOf(Needed(t).row) # Deleted(t)

\* Other statements find the key taken or the row gone, and have nothing to do.
Missed(t) ==
    /\ work[t].kind # "agent" /\ Needed(t).row[1] = "stake"
    /\ (work[t].kind = "insert") = (AgentOf(Needed(t).row) # NoAgent)

Waiting(t) == work[t].todo # <<>> /\ ~Passed(t)

\* u holds what keeps t from its next lock.
WaitsFor(t, u) ==
    /\ t # u /\ Waiting(t)
    /\ \E l \in held[u] : l.row = Needed(t).row /\ Conflict(l.mode, Needed(t).mode)

Free(t) == Waiting(t) /\ ~ \E u \in Transaction : WaitsFor(t, u)

\* What a statement turns out to need once it has the row: an UPDATE checks the
\* foreign key of an agent that changes, a deleted agent takes its stakes along.
Continuations(t) ==
    LET row == Needed(t).row
        Stakes == {x \in Competition \X User : stake[x[1]][x[2]] = row[2]}
    IN CASE work[t].kind = "update" /\ row[1] = "stake" ->
              {(IF AgentOf(row) = work[t].to THEN <<>>
                ELSE <<Lock("share", <<"agent", work[t].to>>)>>) \o UpdatePool(row[2])}
         [] work[t].kind = "agent" /\ row[1] = "agent" ->
              {[i \in DOMAIN order |-> Lock("key", <<"stake">> \o order[i])]
                 \o FlattenSeq([i \in DOMAIN order |-> AfterDelete(order[i][1])])
                 : order \in SetToSeqs(Stakes)}
         [] OTHER -> {<<>>}

Acquire(t) ==
    /\ Free(t) /\ ~Missed(t)
    /\ held' = [held EXCEPT ![t] = @ \union {Needed(t)}]
    /\ \E more \in Continuations(t) :
          work' = [work EXCEPT ![t].todo = Tail(@) \o more]
    /\ UNCHANGED stake

End(t) == work' = [work EXCEPT ![t] = Idle] /\ held' = [held EXCEPT ![t] = {}]

Pass(t) ==
    /\ work[t].todo # <<>> /\ Passed(t)
    /\ work' = [work EXCEPT ![t].todo = Tail(@)]
    /\ UNCHANGED <<stake, held>>

Miss(t) ==
    /\ Free(t) /\ Missed(t)
    /\ End(t)
    /\ UNCHANGED stake

Commit(t) ==
    LET Written == {l.row : l \in {m \in held[t] : m.row[1] = "stake"}} IN
    /\ work[t] # Idle /\ work[t].todo = <<>>
    /\ stake' = [c \in Competition |-> [u \in User |->
                   IF <<"stake", c, u>> \in Written THEN work[t].to ELSE stake[c][u]]]
    /\ End(t)

-----------------------------------------------------------------------------
\* Everybody in D waits for somebody in D.
Ring(D) == D # {} /\ \A t \in D : \E u \in D : WaitsFor(t, u)

\* deadlock_timeout: a member of a ring is rolled back
Deadlocked(t) ==
    /\ \E D \in SUBSET Transaction : t \in D /\ Ring(D)
    /\ End(t)
    /\ UNCHANGED stake

Next ==
    \/ \E t \in Transaction, s \in Statements : Begin(t, s)
    \/ \E t \in Transaction : Acquire(t) \/ Pass(t) \/ Miss(t) \/ Commit(t) \/ Deadlocked(t)

Spec == Init /\ [][Next]_vars

-----------------------------------------------------------------------------
\* Properties

\* Wagers, replaced and deleted stakes, settlements and enrolments never wait
\* for each other in a ring. A ring takes the deletion of an agent with a wager
\* on one of its stakes, and a settlement (or a second deletion) that they
\* keep waiting, or two statements over all entries of an agent. Nothing else
\* makes the database break off a call.
RingsNeedDeletion ==
    \A D \in SUBSET Transaction :
        LET Of(kinds) == {t \in D : work[t].kind \in kinds} IN
        Ring(D) =>
            \/ /\ Of({"agent"}) # {} /\ Of({"update"}) # {}
               /\ Of({"settle"}) # {} \/ Cardinality(Of({"agent"})) > 1
            \/ Cardinality(Of({"entries"})) > 1
=============================================================================
