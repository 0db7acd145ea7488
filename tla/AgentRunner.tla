----------------------------- MODULE AgentRunner -----------------------------
(***************************************************************************)
(* AgentRunnerService and LeaderboardScoringService.scorePrediction: the   *)
(* cron loop that lets every active agent predict, the immediate run that  *)
(* a wager starts beside it, the storing and scoring of predictions, and   *)
(* the activation and pausing of agents. A process is the loop, a wager    *)
(* (from the moment its stake was handled) or a user's toggle; it stops at *)
(* every await.                                                            *)
(*                                                                         *)
(* A database call fails without effect, or takes effect and its answer is *)
(* lost; the server restarts; MaxFaults bounds how often. MAX_PREDICTIONS  *)
(* bounds the rows per agent and competition (an insert beyond it fails).  *)
(* Forecasts are opaque. Every agent is already deployed, pending, into    *)
(* every competition. Stakes are those of StakePool, here only on which    *)
(* agent the verified row of a user and competition is: a wager of the     *)
(* same user moves it to another agent, or deletes it and may fail to      *)
(* insert it again.                                                        *)
(***************************************************************************)
EXTENDS Naturals, Sequences, FiniteSets

CONSTANTS
    Agent, Competition,
    Owner,              \* Owner[a]: agents.user_id
    User,               \* users switching their agents on and off
    Wager, Bet,         \* Bet[w]: agent and competition of wager w
    Deployed,           \* pairs whose wager came earlier
    MAX_PREDICTIONS, MaxFaults

Pair == Agent \X Competition
Process == {"loop"} \union User \union Wager

ASSUME ConstantsAssumption ==
    /\ "loop" \notin User \union Wager /\ User \intersect Wager = {}
    /\ Bet \in [Wager -> Pair] /\ Deployed \subseteq Pair
    /\ \A x, y \in Deployed : x[2] = y[2] /\ Owner[x[1]] = Owner[y[1]] => x = y
    /\ MAX_PREDICTIONS \in Nat /\ MaxFaults \in Nat
    /\ Agent # {}

VARIABLES
    agent,          \* agent[a]: status in agents
    entry,          \* entry[x]: row of agent_competition_entries
    staked,         \* pairs with a verified, active stake
    lapsed,         \* history: lapsed[p], the competitions of p's list whose
                    \* stake was withdrawn after p had read the stakes
    comp,           \* comp[c]: status of the competition
    prediction,     \* prediction[x]: rows of agent_predictions
    snapshot,       \* snapshot[x][n]: the snapshot that snapshot n links back to
    isRunning,
    batch,          \* agents the loop still has to run
    pc,
    self,           \* self[p]: the agent p works on
    list,           \* list[p]: competitions of the entries p still goes through
    mark,           \* mark[p]: those without stake, later those that have ended
    read,           \* read[p]: count and score_hash p has read, its own snapshot
    faults

stakes == <<staked, lapsed>>
db == <<agent, entry, stakes, comp, prediction, snapshot>>
memory == <<isRunning, batch>>
work == <<pc, self, list, mark, read>>
vars == <<db, memory, work, faults>>

Entry == [status : {"pending", "active", "completed"}, count : Nat, hash : Nat]
Read == [count : Nat, hash : Nat, own : Nat]
Nothing == [count |-> 0, hash |-> 0, own |-> 0]

Label == {"idle", "done", "readAgents", "reinsert", "activate", "upsert", "readAgent", "readEntries",
          "pause", "readStakes", "deactivate", "readComps", "entries", "store",
          "readScore", "snapshot", "update",
          "toggleEntries", "toggleStakes", "toggleUpdate"}

TypeOK ==
    /\ agent \in [Agent -> {"pending", "active", "paused"}]
    /\ entry \in [Pair -> Entry]
    /\ staked \subseteq Pair
    /\ lapsed \in [Process -> SUBSET Competition]
    /\ comp \in [Competition -> {"active", "settled"}]
    /\ prediction \in [Pair -> 0..MAX_PREDICTIONS]
    /\ snapshot \in [Pair -> Seq(Nat)]
    /\ isRunning \in BOOLEAN /\ batch \subseteq Agent
    /\ pc \in [Process -> Label]
    /\ self \in [Process -> Agent]
    /\ list \in [Process -> SUBSET Competition]
    /\ mark \in [Process -> SUBSET Competition]
    /\ read \in [Process -> Read]
    /\ faults \in 0..MaxFaults

\* self of a process that is not running
Resting(p) == IF p \in Wager THEN Bet[p][1] ELSE CHOOSE a \in Agent : TRUE

Init ==
    /\ agent = [a \in Agent |->
                  IF \E c \in Competition : <<a, c>> \in Deployed THEN "active" ELSE "pending"]
    /\ entry = [x \in Pair |-> [status |-> IF x \in Deployed THEN "active" ELSE "pending",
                                count |-> 0, hash |-> 0]]
    /\ staked = Deployed /\ lapsed = [p \in Process |-> {}]
    /\ comp = [c \in Competition |-> "active"]
    /\ prediction = [x \in Pair |-> 0]
    /\ snapshot = [x \in Pair |-> <<>>]
    /\ isRunning = FALSE /\ batch = {}
    /\ pc = [p \in Process |-> "idle"]
    /\ self = [p \in Process |-> Resting(p)]
    /\ list = [p \in Process |-> {}] /\ mark = [p \in Process |-> {}]
    /\ read = [p \in Process |-> Nothing]
    /\ faults = 0

-----------------------------------------------------------------------------
ActiveEntries(a) == {c \in Competition : entry[<<a, c>>].status = "active"}

Goto(p, label) == pc' = [pc EXCEPT ![p] = label]

\* How a database call ends for the caller
Answer == {"ok", "failed", "lost"}
Answered(r) == IF r = "ok" THEN UNCHANGED faults
               ELSE faults < MaxFaults /\ faults' = faults + 1
Takes(r) == r # "failed"

SetAgent(a, status, r) ==
    agent' = IF Takes(r) THEN [agent EXCEPT ![a] = status] ELSE agent
SetEntry(x, status, r) ==
    entry' = IF Takes(r) THEN [entry EXCEPT ![x].status = status] ELSE entry

\* A wager is sent once.
Stop(p) ==
    /\ Goto(p, IF p \in Wager THEN "done" ELSE "idle")
    /\ self' = [self EXCEPT ![p] = Resting(p)]
    /\ list' = [list EXCEPT ![p] = {}] /\ mark' = [mark EXCEPT ![p] = {}]
    /\ read' = [read EXCEPT ![p] = Nothing]

\* The loop takes an agent of its batch.
TakeAgent(agents) == \E a \in agents :
    /\ batch' = agents \ {a}
    /\ self' = [self EXCEPT !["loop"] = a]
    /\ Goto("loop", "readEntries")
    /\ UNCHANGED <<isRunning, list, mark, read>>

\* Mutant: the loop returns without the finally clause.
FinishOnly(p) ==
    IF p = "loop" /\ batch # {} THEN TakeAgent(batch)
    ELSE Stop(p) /\ UNCHANGED <<isRunning, batch>>

\* runSingleAgent returns: the loop takes its next agent or releases the mutex
Finish(p) ==
    IF p = "loop" /\ batch # {} THEN TakeAgent(batch)
    ELSE /\ Stop(p) /\ isRunning' = (isRunning /\ p # "loop")
         /\ UNCHANGED batch

-----------------------------------------------------------------------------
\* runAgentLoop and the part of createWager that follows the stake

RunAgentLoop ==
    /\ pc["loop"] = "idle" /\ ~isRunning
    /\ isRunning' = TRUE
    /\ Goto("loop", "readAgents")
    /\ UNCHANGED <<db, batch, self, list, mark, read, faults>>

ReadAgents(r) ==
    LET active == IF r = "ok" THEN {a \in Agent : agent[a] = "active"} ELSE {} IN
    /\ pc["loop"] = "readAgents" /\ Answered(r)
    /\ IF active = {}
       THEN Stop("loop") /\ isRunning' = FALSE /\ UNCHANGED batch
       ELSE TakeAgent(active)
    /\ UNCHANGED db

\* UNIQUE (user_id, competition_id): the pairs whose stake would be the same row
SameRow(x) == {y \in Pair : y[2] = x[2] /\ Owner[y[1]] = Owner[x[1]]}
HasRow(x) == SameRow(x) \intersect staked # {}

\* Where a run relies on the stakes it has read
Relying == {"deactivate", "readComps", "entries", "store"}

\* The row of x's user and competition is on these pairs (one or none).
Restake(x, rows) ==
    LET lost == (SameRow(x) \intersect staked) \ rows IN
    /\ staked' = (staked \ SameRow(x)) \union rows
    /\ lapsed' = [p \in Process |->
                    IF pc[p] \in Relying
                    THEN lapsed[p] \union {c \in list[p] : <<self[p], c>> \in lost}
                    ELSE lapsed[p]]

\* The row is updated, even in a competition that has ended, or inserted; or the
\* stake could not be recorded ("non-blocking").
StakeHandled(w) ==
    /\ pc[w] = "idle" /\ w \in Wager
    /\ \/ /\ HasRow(Bet[w]) \/ comp[Bet[w][2]] = "active"
          /\ Restake(Bet[w], {Bet[w]})
       \/ UNCHANGED stakes
    /\ Goto(w, "activate")
    /\ UNCHANGED <<agent, entry, comp, prediction, snapshot, memory,
                   self, list, mark, read, faults>>

\* The UPDATE is refused (the amount is out of bounds) and the row deleted.
StakeDeleted(w) ==
    /\ pc[w] = "idle" /\ w \in Wager
    /\ HasRow(Bet[w])
    /\ Restake(Bet[w], {})
    /\ Goto(w, "reinsert")
    /\ UNCHANGED <<agent, entry, comp, prediction, snapshot, memory,
                   self, list, mark, read, faults>>

\* the INSERT that follows, whose error nobody looks at
StakeReinserted(w) ==
    /\ pc[w] = "reinsert"
    /\ \/ /\ ~HasRow(Bet[w]) /\ comp[Bet[w][2]] = "active"
          /\ Restake(Bet[w], {Bet[w]})
       \/ UNCHANGED stakes
    /\ Goto(w, "activate")
    /\ UNCHANGED <<agent, entry, comp, prediction, snapshot, memory,
                   self, list, mark, read, faults>>

ActivateAgent(w, r) ==
    /\ pc[w] = "activate" /\ Answered(r)
    /\ SetAgent(Bet[w][1], "active", r)
    /\ Goto(w, "upsert")
    /\ UNCHANGED <<entry, stakes, comp, prediction, snapshot, memory,
                   self, list, mark, read>>

UpsertEntry(w, r) ==
    /\ pc[w] = "upsert" /\ Answered(r)
    /\ SetEntry(Bet[w], "active", r)
    /\ Goto(w, "readAgent")
    /\ UNCHANGED <<agent, stakes, comp, prediction, snapshot, memory,
                   self, list, mark, read>>

\* runSingleAgentId, which does not look at the mutex
RunSingleAgentId(w, r) ==
    /\ pc[w] = "readAgent" /\ Answered(r)
    /\ IF r = "ok"
       THEN Goto(w, "readEntries") /\ UNCHANGED <<self, list, mark, read>>
       ELSE Stop(w)
    /\ UNCHANGED <<db, memory>>

-----------------------------------------------------------------------------
\* runSingleAgent

\* Mutant: an agent without entries is skipped.
SkipWithoutEntries(p, r) ==
    LET ids == IF r = "ok" THEN ActiveEntries(self[p]) ELSE {} IN
    /\ pc[p] = "readEntries" /\ Answered(r)
    /\ IF ids = {} THEN Finish(p)
       ELSE /\ list' = [list EXCEPT ![p] = ids] /\ Goto(p, "readStakes")
            /\ UNCHANGED <<isRunning, batch, self, mark, read>>
    /\ UNCHANGED db

\* an error leaves the list empty, like an agent without entries
ReadEntries(p, r) ==
    LET ids == IF r = "ok" THEN ActiveEntries(self[p]) ELSE {} IN
    /\ pc[p] = "readEntries" /\ Answered(r)
    /\ list' = [list EXCEPT ![p] = ids]
    /\ Goto(p, IF ids = {} THEN "pause" ELSE "readStakes")
    /\ UNCHANGED <<db, memory, self, mark, read>>

Pause(p, r) ==
    /\ pc[p] = "pause" /\ Answered(r)
    /\ SetAgent(self[p], "paused", r)
    /\ Finish(p)
    /\ UNCHANGED <<entry, stakes, comp, prediction, snapshot>>

\* Mutant: entries run whether or not they have a stake.
AllValid(p) == list[p]

Valid(p) == {c \in list[p] : <<self[p], c>> \in staked}

\* an error counts as "no stakes"
ReadStakes(p, r) ==
    LET valid == IF r = "ok" THEN Valid(p) ELSE {} IN
    /\ pc[p] = "readStakes" /\ Answered(r)
    /\ list' = [list EXCEPT ![p] = valid]
    /\ mark' = [mark EXCEPT ![p] = list[p] \ valid]
    /\ lapsed' = [lapsed EXCEPT ![p] = {}]
    /\ Goto(p, IF valid = list[p] THEN "readComps" ELSE "deactivate")
    /\ UNCHANGED <<agent, entry, staked, comp, prediction, snapshot, memory, self, read>>

\* Mutant: a status the table does not know.
SuspendEntry(x, r) == SetEntry(x, "suspended", r)

DeactivateEntry(x, r) == SetEntry(x, "pending", r)

Deactivate(p, c, r) ==
    /\ pc[p] = "deactivate" /\ c \in mark[p] /\ Answered(r)
    /\ DeactivateEntry(<<self[p], c>>, r)
    /\ mark' = [mark EXCEPT ![p] = @ \ {c}]
    /\ Goto(p, IF mark[p] # {c} THEN "deactivate"
               ELSE IF list[p] = {} THEN "pause" ELSE "readComps")
    /\ UNCHANGED <<agent, stakes, comp, prediction, snapshot, memory,
                   self, list, read>>

\* Mutant: only a status that the table never holds ends a competition.
Resolving(c) == comp[c] = "resolving"

Ended(c) == comp[c] = "settled"

ReadComps(p, r) ==
    /\ pc[p] = "readComps" /\ Answered(r)
    /\ list' = IF r = "ok" THEN list ELSE [list EXCEPT ![p] = {}]
    /\ mark' = [mark EXCEPT ![p] = IF r = "ok" THEN {c \in list[p] : Ended(c)} ELSE {}]
    /\ Goto(p, "entries")
    /\ UNCHANGED <<db, memory, self, read>>

\* The shuffled entries, one of these per entry until a prediction was made.
Complete(p, c, r) ==
    /\ pc[p] = "entries" /\ c \in mark[p] /\ Answered(r)
    /\ SetEntry(<<self[p], c>>, "completed", r)
    /\ list' = [list EXCEPT ![p] = @ \ {c}]
    /\ mark' = [mark EXCEPT ![p] = @ \ {c}]
    /\ UNCHANGED <<agent, stakes, comp, prediction, snapshot, memory,
                   pc, self, read>>

\* within the cooldown, or generatePrediction has no forecast
Skip(p, c) ==
    /\ pc[p] = "entries" /\ c \in list[p] \ mark[p]
    /\ list' = [list EXCEPT ![p] = @ \ {c}]
    /\ UNCHANGED <<db, memory, pc, self, mark, read, faults>>

\* generatePrediction has a forecast, which ends the round whatever comes of it
Forecast(p, c) ==
    /\ pc[p] = "entries" /\ c \in list[p] \ mark[p]
    /\ list' = [list EXCEPT ![p] = {c}] /\ mark' = [mark EXCEPT ![p] = {}]
    /\ Goto(p, "store")
    /\ UNCHANGED <<db, memory, self, read, faults>>

\* the active entries are counted, an error counts as none
CountEntries(p, r) ==
    /\ pc[p] = "entries" /\ list[p] = {} /\ Answered(r)
    /\ IF r = "ok" /\ ActiveEntries(self[p]) # {}
       THEN Finish(p)
       ELSE Goto(p, "pause") /\ UNCHANGED <<isRunning, batch, self, list, mark, read>>
    /\ UNCHANGED db

-----------------------------------------------------------------------------
\* storePrediction and scorePrediction

Current(p) == <<self[p], CHOOSE c \in list[p] : TRUE>>

\* The forecast counts as made whether or not it could be stored or scored.
Predicted(p) ==
    /\ list' = [list EXCEPT ![p] = {}] /\ read' = [read EXCEPT ![p] = Nothing]
    /\ Goto(p, "entries")

\* Mutant: the database without the trigger.
Unsynced(count, rows) == count

\* trigger sync_prediction_count_on_insert
Synced(count, rows) == IF count < rows THEN rows ELSE count

\* INSERT INTO agent_predictions with its triggers. anti_chunk_guard_v2 refuses it
\* when the last prediction is recent; the penalty row it writes before is rolled
\* back by the exception it raises.
StorePrediction(p, r, recent) ==
    LET x == Current(p)
        stored == Takes(r) /\ ~recent /\ prediction[x] < MAX_PREDICTIONS
    IN
    /\ pc[p] = "store" /\ Answered(r)
    /\ recent => prediction[x] > 0
    /\ IF stored
       THEN /\ prediction' = [prediction EXCEPT ![x] = @ + 1]
            /\ entry' = [entry EXCEPT ![x].count = Synced(@, prediction[x] + 1)]
       ELSE UNCHANGED <<prediction, entry>>
    /\ IF stored /\ r = "ok"
       THEN Goto(p, "readScore") /\ UNCHANGED <<list, read>>
       ELSE Predicted(p)
    /\ UNCHANGED <<agent, stakes, comp, snapshot, isRunning, batch, self, mark>>

\* scorePrediction reads the entry; an error counts as an entry without score
ReadScore(p, r) ==
    LET e == entry[Current(p)] IN
    /\ pc[p] = "readScore" /\ Answered(r)
    /\ read' = [read EXCEPT ![p] =
                  IF r = "ok" THEN [count |-> e.count, hash |-> e.hash, own |-> 0]
                  ELSE Nothing]
    /\ Goto(p, "snapshot")
    /\ UNCHANGED <<db, memory, self, list, mark>>

InsertSnapshot(p, r) ==
    LET x == Current(p) IN
    /\ pc[p] = "snapshot" /\ Answered(r)
    /\ snapshot' = IF Takes(r) THEN [snapshot EXCEPT ![x] = Append(@, read[p].hash)]
                   ELSE snapshot
    /\ read' = [read EXCEPT ![p].own = IF r = "ok" THEN Len(snapshot[x]) + 1 ELSE 0]
    /\ Goto(p, "update")
    /\ UNCHANGED <<agent, entry, stakes, comp, prediction, memory,
                   self, list, mark>>

\* Mutant: the score fields are written although the snapshot failed.
ScoredAnyway(e, m, n) == [e EXCEPT !.count = m.count + 1,
                                   !.hash = IF m.own = 0 THEN n + 1 ELSE m.own]

\* the entry after the score: without a snapshot only the count is written
Scored(e, m, n) == [e EXCEPT !.count = m.count + 1,
                             !.hash = IF m.own = 0 THEN @ ELSE m.own]

UpdateEntry(p, r) ==
    LET x == Current(p) IN
    /\ pc[p] = "update" /\ Answered(r)
    /\ entry' = IF Takes(r)
                THEN [entry EXCEPT ![x] = Scored(@, read[p], Len(snapshot[x]))]
                ELSE entry
    /\ Predicted(p)
    /\ UNCHANGED <<agent, stakes, comp, prediction, snapshot, isRunning,
                   batch, self, mark>>

-----------------------------------------------------------------------------
\* toggleForecasterStatus

StartToggle(u, a, status) ==
    /\ pc[u] = "idle" /\ agent[a] # status
    /\ self' = [self EXCEPT ![u] = a]
    /\ Goto(u, IF status = "active" THEN "toggleEntries" ELSE "toggleUpdate")
    /\ UNCHANGED <<db, memory, list, mark, read, faults>>

\* an agent without active entries, or without stake in one, is refused
ToggleReadEntries(u, r) ==
    LET ids == IF r = "ok" THEN ActiveEntries(self[u]) ELSE {} IN
    /\ pc[u] = "toggleEntries" /\ Answered(r)
    /\ IF ids = {} THEN Stop(u)
       ELSE /\ list' = [list EXCEPT ![u] = ids]
            /\ Goto(u, "toggleStakes") /\ UNCHANGED <<self, mark, read>>
    /\ UNCHANGED <<db, memory>>

ToggleReadStakes(u, r) ==
    /\ pc[u] = "toggleStakes" /\ Answered(r)
    /\ IF r = "ok" /\ Valid(u) # {}
       THEN Goto(u, "toggleUpdate") /\ UNCHANGED <<self, list, mark, read>>
       ELSE Stop(u)
    /\ UNCHANGED <<db, memory>>

ToggleUpdate(u, r) ==
    /\ pc[u] = "toggleUpdate" /\ Answered(r)
    /\ SetAgent(self[u], IF list[u] = {} THEN "paused" ELSE "active", r)
    /\ Stop(u)
    /\ UNCHANGED <<entry, stakes, comp, prediction, snapshot, memory>>

-----------------------------------------------------------------------------
\* Settlement, time, restarts

Settle(c) ==
    /\ comp[c] = "active" /\ comp' = [comp EXCEPT ![c] = "settled"]
    /\ UNCHANGED <<agent, entry, stakes, prediction, snapshot, memory,
                   work, faults>>

Restart ==
    /\ faults < MaxFaults /\ faults' = faults + 1
    /\ isRunning' = FALSE /\ batch' = {}
    /\ pc' = [p \in Process |-> IF p \in Wager /\ pc[p] # "idle" THEN "done" ELSE "idle"]
    /\ list' = [p \in Process |-> {}] /\ mark' = [p \in Process |-> {}]
    /\ read' = [p \in Process |-> Nothing]
    /\ self' = [p \in Process |-> Resting(p)]
    /\ UNCHANGED db

RunStep(p, r) ==
    \/ ReadEntries(p, r) \/ Pause(p, r) \/ ReadStakes(p, r) \/ ReadComps(p, r)
    \/ \E c \in Competition : Deactivate(p, c, r) \/ Complete(p, c, r)
    \/ \E recent \in BOOLEAN : StorePrediction(p, r, recent)
    \/ ReadScore(p, r) \/ InsertSnapshot(p, r)
    \/ UpdateEntry(p, r) \/ CountEntries(p, r)

Step(p) ==
    \/ \E r \in Answer : RunStep(p, r)
    \/ \E c \in Competition : Skip(p, c) \/ Forecast(p, c)
    \/ p = "loop" /\ \E r \in Answer : ReadAgents(r)
    \/ p \in Wager /\ StakeReinserted(p)
    \/ p \in Wager /\ \E r \in Answer :
        ActivateAgent(p, r) \/ UpsertEntry(p, r) \/ RunSingleAgentId(p, r)
    \/ p \in User /\ \E r \in Answer :
        ToggleReadEntries(p, r) \/ ToggleReadStakes(p, r) \/ ToggleUpdate(p, r)

Next ==
    \/ \E p \in Process : Step(p)
    \/ RunAgentLoop \/ Restart
    \/ \E w \in Wager : StakeHandled(w) \/ StakeDeleted(w)
    \/ \E u \in User, a \in Agent, status \in {"active", "paused"} :
        StartToggle(u, a, status)
    \/ \E c \in Competition : Settle(c)

(***************************************************************************)
(* Every await of the loop is answered, and its cron ticks. The entries    *)
(* are shuffled for every run, so an ended competition is not behind a     *)
(* running one for ever.                                                   *)
(***************************************************************************)
Fairness ==
    /\ WF_vars(Step("loop"))
    /\ WF_vars(RunAgentLoop)
    /\ \A x \in Pair : SF_vars(self["loop"] = x[1] /\ Complete("loop", x[2], "ok"))

Spec == Init /\ [][Next]_vars /\ Fairness

-----------------------------------------------------------------------------
\* Properties

\* An agent gets a prediction, and with it a place in the ranking, only in a
\* competition it has a verified stake in: wagers that fail, immediate runs and
\* stakes that move to another agent included. The one exception is a stake
\* withdrawn between a run's read of the stakes and its insert.
PredictsOnlyStaked ==
    [][\A x \in Pair : prediction'[x] # prediction[x] =>
          \/ x \in staked
          \/ \E p \in Process : /\ pc[p] = "store" /\ pc'[p] # "store"
                                /\ x = Current(p) /\ x[2] \in lapsed[p]]_vars

\* An agent that has predicted is a candidate of the settlement (which asks for
\* prediction_count > 0) whatever failed between the insert and the score.
PredictedIsCounted == \A x \in Pair : prediction[x] > 0 => entry[x].count > 0

\* The integrity chain has no dangling link: the hash of an entry names one of
\* its recorded snapshots and every snapshot links back to an earlier one, with
\* overlapping runs, failed inserts and lost answers.
ScoreChain ==
    \A x \in Pair :
        /\ entry[x].hash <= Len(snapshot[x])
        /\ \A n \in 1..Len(snapshot[x]) : snapshot[x][n] < n

\* An agent without active entry is paused (or gets an entry), so that the
\* loop does not run it for ever.
IdleIsPaused ==
    \A a \in Agent :
        agent[a] = "active" /\ ActiveEntries(a) = {}
            ~> agent[a] # "active" \/ ActiveEntries(a) # {}

\* An entry whose stake was moved to another agent or lost leaves the round of
\* its agent (or gets a stake), unless the agent is paused.
UnstakedLeaves ==
    \A x \in Pair :
        entry[x].status = "active" /\ x \notin staked
            ~> entry[x].status # "active" \/ x \in staked \/ agent[x[1]] # "active"

\* The entry of a settled competition is taken out of an active agent's round.
EndedIsCompleted ==
    \A x \in Pair :
        entry[x].status = "active" /\ comp[x[2]] = "settled"
            ~> entry[x].status # "active" \/ agent[x[1]] # "active"

\* The mutex of the loop is released on every path.
LoopReturns == isRunning ~> ~isRunning
=============================================================================
