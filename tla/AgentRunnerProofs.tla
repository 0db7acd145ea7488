-------------------------- MODULE AgentRunnerProofs --------------------------
(***************************************************************************)
(* Theorems about AgentRunner for any number of agents, competitions,      *)
(* wagers, users, predictions and faults.                                  *)
(***************************************************************************)
EXTENDS AgentRunner, TLAPS

Scoring == {"store", "readScore", "snapshot", "update"}

\* Who scores has the competition of the forecast left in its list.
Busy == \A p \in Process : pc[p] \in Scoring => list[p] # {}

DbInv ==
    /\ agent \in [Agent -> {"pending", "active", "paused"}]
    /\ entry \in [Pair -> Entry]
    /\ staked \subseteq Pair /\ lapsed \in [Process -> SUBSET Competition]
    /\ comp \in [Competition -> {"active", "settled"}]
    /\ prediction \in [Pair -> 0..MAX_PREDICTIONS]
    /\ snapshot \in [Pair -> Seq(Nat)]

WorkInv ==
    /\ isRunning \in BOOLEAN /\ batch \subseteq Agent
    /\ pc \in [Process -> Label]
    /\ self \in [Process -> Agent]
    /\ list \in [Process -> SUBSET Competition]
    /\ mark \in [Process -> SUBSET Competition]
    /\ read \in [Process -> Read]
    /\ Busy

TypeInv == DbInv /\ WorkInv /\ faults \in 0..MaxFaults

LEMMA TypeParts == TypeInv <=> TypeOK /\ Busy
  BY DEF TypeInv, TypeOK, DbInv, WorkInv

USE DEF stakes

-----------------------------------------------------------------------------
(* Types *)

LEMMA RestingType == \A p \in Process : Resting(p) \in Agent
  BY ConstantsAssumption DEF ConstantsAssumption, Resting, Pair

LEMMA CurrentType ==
    ASSUME TypeInv, NEW p \in Process, pc[p] \in Scoring
    PROVE  Current(p) \in Pair
  BY DEF TypeInv, WorkInv, Busy, Current, Pair

LEMMA StopType ==
    ASSUME WorkInv, NEW p \in Process, Stop(p),
           isRunning' \in BOOLEAN, batch' \subseteq Agent
    PROVE  WorkInv'
<1>1. Resting(p) \in Agent
  BY RestingType
<1>. QED BY <1>1 DEF WorkInv, Stop, Goto, Busy, Scoring, Label, Read, Nothing

LEMMA TakeType ==
    ASSUME WorkInv, NEW agents \in SUBSET Agent, TakeAgent(agents)
    PROVE  WorkInv'
  BY DEF WorkInv, TakeAgent, Goto, Busy, Scoring, Label, Process

LEMMA FinishType ==
    ASSUME WorkInv, NEW p \in Process, Finish(p)
    PROVE  WorkInv'
<1>1. CASE p = "loop" /\ batch # {}
  BY <1>1, TakeType DEF Finish, WorkInv
<1>2. CASE ~(p = "loop" /\ batch # {})
  BY <1>2, StopType DEF Finish, WorkInv
<1>. QED BY <1>1, <1>2

LEMMA FaultsType ==
    ASSUME faults \in 0..MaxFaults, NEW r \in Answer, Answered(r)
    PROVE  faults' \in 0..MaxFaults
  BY ConstantsAssumption DEF ConstantsAssumption, Answered

LEMMA SetAgentType ==
    ASSUME DbInv, NEW a \in Agent, NEW status \in {"pending", "active", "paused"},
           NEW r, SetAgent(a, status, r), UNCHANGED <<entry, stakes, comp, prediction, snapshot>>
    PROVE  DbInv'
  BY DEF DbInv, SetAgent

LEMMA SetEntryType ==
    ASSUME DbInv, NEW x \in Pair, NEW status \in {"pending", "active", "completed"},
           NEW r, SetEntry(x, status, r), UNCHANGED <<agent, stakes, comp, prediction, snapshot>>
    PROVE  DbInv'
  BY DEF DbInv, SetEntry, Entry

LEMMA MoveType ==
    ASSUME WorkInv, NEW p \in Process, NEW label \in Label \ Scoring, Goto(p, label),
           UNCHANGED <<memory, self, list, mark, read>>
    PROVE  WorkInv'
  BY DEF WorkInv, Goto, Busy, memory

LEMMA ReadEntriesType ==
    ASSUME TypeInv, NEW p \in Process, NEW r \in Answer, ReadEntries(p, r)
    PROVE  TypeInv'
  BY FaultsType
  DEF TypeInv, ReadEntries, WorkInv, DbInv, ActiveEntries, Goto, Busy, Scoring, Label, db, memory

LEMMA ReadStakesType ==
    ASSUME TypeInv, NEW p \in Process, NEW r \in Answer, ReadStakes(p, r)
    PROVE  TypeInv'
  BY FaultsType
  DEF TypeInv, ReadStakes, Valid, WorkInv, DbInv, Goto, Busy, Scoring, Label, db, memory

LEMMA DeactivateType ==
    ASSUME TypeInv, NEW p \in Process, NEW r \in Answer, NEW c \in Competition,
           Deactivate(p, c, r)
    PROVE  TypeInv'
<1>1. DbInv'
  BY SetEntryType DEF TypeInv, Deactivate, DeactivateEntry, WorkInv, Pair
<1>2. WorkInv'
  BY DEF TypeInv, Deactivate, WorkInv, Goto, Busy, Scoring, Label, memory
<1>. QED BY <1>1, <1>2, FaultsType DEF TypeInv, Deactivate

LEMMA ReadCompsType ==
    ASSUME TypeInv, NEW p \in Process, NEW r \in Answer, ReadComps(p, r)
    PROVE  TypeInv'
  BY FaultsType
  DEF TypeInv, ReadComps, WorkInv, DbInv, Goto, Busy, Scoring, Label, db, memory

LEMMA CompleteType ==
    ASSUME TypeInv, NEW p \in Process, NEW r \in Answer, NEW c \in Competition,
           Complete(p, c, r)
    PROVE  TypeInv'
<1>1. DbInv'
  BY SetEntryType DEF TypeInv, Complete, WorkInv, Pair
<1>2. WorkInv'
  BY DEF TypeInv, Complete, WorkInv, Goto, Busy, Scoring, Label, memory
<1>. QED BY <1>1, <1>2, FaultsType DEF TypeInv, Complete

LEMMA ForecastType ==
    ASSUME TypeInv, NEW p \in Process, NEW c \in Competition,
           Skip(p, c) \/ Forecast(p, c)
    PROVE  TypeInv'
<1>1. WorkInv'
  <2>1. CASE Skip(p, c)
    BY <2>1 DEF TypeInv, Skip, WorkInv, Busy, Scoring, memory
  <2>2. CASE Forecast(p, c)
    BY <2>2 DEF TypeInv, Forecast, WorkInv, Goto, Busy, Label, memory
  <2>. QED BY <2>1, <2>2
<1>. QED BY <1>1 DEF TypeInv, Skip, Forecast, DbInv, db

LEMMA PredictedType ==
    ASSUME WorkInv, NEW p \in Process, Predicted(p),
           UNCHANGED <<memory, self, mark>>
    PROVE  WorkInv'
  BY DEF WorkInv, Predicted, Goto, Busy, Scoring, Label, Read, Nothing, memory

LEMMA StorePredictionType ==
    ASSUME TypeInv, NEW p \in Process, NEW r \in Answer, NEW recent \in BOOLEAN,
           StorePrediction(p, r, recent)
    PROVE  TypeInv'
<1>0. Current(p) \in Pair
  BY CurrentType DEF TypeInv, StorePrediction, Scoring
<1>1. DbInv'
  <2>. DEFINE x == Current(p)
              rows == prediction[x] + 1
  <2>1. entry[x] \in Entry /\ prediction[x] \in 0..MAX_PREDICTIONS
    BY <1>0 DEF TypeInv, DbInv
  <2>2. Synced(entry[x].count, rows) \in Nat
    BY <2>1, ConstantsAssumption DEF ConstantsAssumption, Synced, Entry
  <2>3. CASE UNCHANGED <<prediction, entry>>
    BY <2>3 DEF TypeInv, DbInv, StorePrediction
  <2>4. CASE ~UNCHANGED <<prediction, entry>>
    <3>1. /\ prediction[x] < MAX_PREDICTIONS
          /\ prediction' = [prediction EXCEPT ![x] = rows]
          /\ entry' = [entry EXCEPT ![x].count = Synced(entry[x].count, rows)]
      BY <2>4 DEF StorePrediction
    <3>2. rows \in 0..MAX_PREDICTIONS
      BY <2>1, <3>1, ConstantsAssumption DEF ConstantsAssumption
    <3>. HIDE DEF x, rows
    <3>3. entry' \in [Pair -> Entry] /\ prediction' \in [Pair -> 0..MAX_PREDICTIONS]
      BY <1>0, <2>1, <2>2, <3>1, <3>2 DEF TypeInv, DbInv, Entry
    <3>. QED BY <3>3 DEF TypeInv, DbInv, StorePrediction
  <2>. QED BY <2>3, <2>4
<1>2. WorkInv'
  <2>1. CASE Predicted(p)
    BY <2>1, PredictedType DEF TypeInv, StorePrediction, memory
  <2>2. CASE ~Predicted(p)
    BY <2>2, TypeParts DEF TypeInv, StorePrediction, WorkInv, Goto, Busy, Scoring, Label
  <2>. QED BY <2>1, <2>2
<1>. QED BY <1>1, <1>2, FaultsType DEF TypeInv, StorePrediction

LEMMA ReadScoreType ==
    ASSUME TypeInv, NEW p \in Process, NEW r \in Answer, ReadScore(p, r)
    PROVE  TypeInv'
<1>0. entry[Current(p)] \in Entry
  BY CurrentType, TypeParts DEF TypeInv, ReadScore, Scoring, DbInv
<1>1. WorkInv'
  BY <1>0, TypeParts
  DEF TypeInv, ReadScore, WorkInv, Goto, Busy, Scoring, Label, Read, Nothing, Entry, memory
<1>. QED BY <1>1, FaultsType DEF TypeInv, ReadScore, DbInv, db

LEMMA InsertSnapshotType ==
    ASSUME TypeInv, NEW p \in Process, NEW r \in Answer, InsertSnapshot(p, r)
    PROVE  TypeInv'
<1>0. /\ Current(p) \in Pair /\ snapshot[Current(p)] \in Seq(Nat)
      /\ read[p] \in Read /\ Len(snapshot[Current(p)]) \in Nat
  BY CurrentType, TypeParts DEF TypeInv, InsertSnapshot, Scoring, DbInv, WorkInv
<1>1. DbInv'
  <2>1. Append(snapshot[Current(p)], read[p].hash) \in Seq(Nat)
    BY <1>0 DEF TypeInv, Read
  <2>. QED BY <1>0, <2>1, TypeParts DEF TypeInv, InsertSnapshot, DbInv
<1>2. WorkInv'
  <2>. DEFINE own == IF r = "ok" THEN Len(snapshot[Current(p)]) + 1 ELSE 0
  <2>1. own \in Nat /\ read' = [read EXCEPT ![p].own = own]
    BY <1>0 DEF InsertSnapshot
  <2>. HIDE DEF own
  <2>2. read' \in [Process -> Read]
    BY <1>0, <2>1 DEF TypeInv, WorkInv, Read
  <2>. QED BY <2>2 DEF TypeInv, InsertSnapshot, WorkInv, Goto, Busy, Scoring, Label, memory
<1>. QED BY <1>1, <1>2, FaultsType DEF TypeInv, InsertSnapshot

LEMMA ScoredType ==
    ASSUME NEW e \in Entry, NEW m \in Read, NEW n
    PROVE  /\ Scored(e, m, n) \in Entry
           /\ Scored(e, m, n).status = e.status
           /\ Scored(e, m, n).count = m.count + 1
           /\ Scored(e, m, n).hash = IF m.own = 0 THEN e.hash ELSE m.own
<1>. DEFINE hash == IF m.own = 0 THEN e.hash ELSE m.own
<1>1. hash \in Nat /\ m.count + 1 \in Nat
  BY DEF Entry, Read
<1>2. Scored(e, m, n) = [e EXCEPT !.count = m.count + 1, !.hash = hash]
  BY Zenon DEF Scored
<1>. HIDE DEF hash
<1>3. Scored(e, m, n) \in Entry /\ Scored(e, m, n).status = e.status
      /\ Scored(e, m, n).count = m.count + 1 /\ Scored(e, m, n).hash = hash
  BY <1>1, <1>2 DEF Entry
<1>. QED BY <1>3 DEF hash

LEMMA UpdateEntryType ==
    ASSUME TypeInv, NEW p \in Process, NEW r \in Answer, UpdateEntry(p, r)
    PROVE  TypeInv'
<1>0. Current(p) \in Pair /\ entry[Current(p)] \in Entry /\ read[p] \in Read
  BY CurrentType, TypeParts DEF TypeInv, UpdateEntry, Scoring, DbInv, WorkInv
<1>1. Scored(entry[Current(p)], read[p], Len(snapshot[Current(p)])) \in Entry
  BY <1>0, ScoredType
<1>2. DbInv'
  BY <1>0, <1>1, TypeParts DEF TypeInv, UpdateEntry, DbInv
<1>3. WorkInv'
  BY PredictedType DEF TypeInv, UpdateEntry, memory
<1>. QED BY <1>2, <1>3, FaultsType DEF TypeInv, UpdateEntry

LEMMA RunStepType ==
    ASSUME TypeInv, NEW p \in Process, NEW r \in Answer, RunStep(p, r)
    PROVE  TypeInv'
<1>1. CASE Pause(p, r)
  <2>1. DbInv'
    BY <1>1, SetAgentType DEF TypeInv, Pause, WorkInv
  <2>. QED BY <1>1, <2>1, FinishType, FaultsType DEF TypeInv, Pause
<1>2. CASE CountEntries(p, r)
  <2>1. DbInv'
    BY <1>2, TypeParts DEF TypeInv, CountEntries, DbInv, db
  <2>2. WorkInv'
    BY <1>2, FinishType, MoveType DEF TypeInv, CountEntries, Label, Scoring, memory
  <2>. QED BY <1>2, <2>1, <2>2, FaultsType DEF TypeInv, CountEntries
<1>. QED BY <1>1, <1>2, ReadEntriesType, ReadStakesType, ReadCompsType, DeactivateType,
            CompleteType, StorePredictionType, ReadScoreType, InsertSnapshotType,
            UpdateEntryType DEF TypeInv, RunStep

LEMMA ReadAgentsType ==
    ASSUME TypeInv, NEW r \in Answer, ReadAgents(r)
    PROVE  TypeInv'
<1>. DEFINE active == IF r = "ok" THEN {a \in Agent : agent[a] = "active"} ELSE {}
<1>1. "loop" \in Process /\ active \subseteq Agent
  BY DEF Process
<1>2. WorkInv'
  <2>1. CASE active = {}
    BY <1>1, <2>1, StopType DEF TypeInv, WorkInv, ReadAgents
  <2>2. CASE active # {}
    BY <1>1, <2>2, TakeType DEF TypeInv, ReadAgents
  <2>. QED BY <2>1, <2>2
<1>. QED BY <1>2, FaultsType DEF TypeInv, DbInv, db, ReadAgents

LEMMA WagerStepType ==
    ASSUME TypeInv, NEW w \in Wager, NEW r \in Answer,
           ActivateAgent(w, r) \/ UpsertEntry(w, r) \/ RunSingleAgentId(w, r)
    PROVE  TypeInv'
<1>0. w \in Process /\ Bet[w] \in Pair /\ Bet[w][1] \in Agent
  BY ConstantsAssumption DEF ConstantsAssumption, Process, Pair
<1>1. CASE ActivateAgent(w, r)
  <2>1. DbInv'
    BY <1>0, <1>1, SetAgentType DEF TypeInv, ActivateAgent
  <2>2. WorkInv'
    BY <1>0, <1>1, MoveType DEF TypeInv, ActivateAgent, Label, Scoring
  <2>. QED BY <1>1, <2>1, <2>2, FaultsType DEF TypeInv, ActivateAgent
<1>2. CASE UpsertEntry(w, r)
  <2>1. DbInv'
    BY <1>0, <1>2, SetEntryType DEF TypeInv, UpsertEntry
  <2>2. WorkInv'
    BY <1>0, <1>2, MoveType DEF TypeInv, UpsertEntry, Label, Scoring
  <2>. QED BY <1>2, <2>1, <2>2, FaultsType DEF TypeInv, UpsertEntry
<1>3. CASE RunSingleAgentId(w, r)
  <2>1. DbInv'
    BY <1>3 DEF TypeInv, RunSingleAgentId, DbInv, db
  <2>2. WorkInv'
    <3>1. CASE r = "ok"
      BY <1>0, <1>3, <3>1, MoveType DEF TypeInv, RunSingleAgentId, Label, Scoring
    <3>2. CASE r # "ok"
      BY <1>0, <1>3, <3>2, StopType DEF TypeInv, WorkInv, RunSingleAgentId, memory
    <3>. QED BY <3>1, <3>2
  <2>. QED BY <1>3, <2>1, <2>2, FaultsType DEF TypeInv, RunSingleAgentId
<1>. QED BY <1>1, <1>2, <1>3

LEMMA ToggleStepType ==
    ASSUME TypeInv, NEW u \in User, NEW r \in Answer,
           ToggleReadEntries(u, r) \/ ToggleReadStakes(u, r) \/ ToggleUpdate(u, r)
    PROVE  TypeInv'
<1>0. u \in Process
  BY DEF Process
<1>1. CASE ToggleReadEntries(u, r)
  <2>. DEFINE ids == IF r = "ok" THEN ActiveEntries(self[u]) ELSE {}
  <2>1. WorkInv'
    <3>1. CASE ids = {}
      BY <1>0, <1>1, <3>1, StopType DEF TypeInv, WorkInv, ToggleReadEntries, memory
    <3>2. CASE ids # {}
      <4>1. ids \subseteq Competition
        BY DEF ActiveEntries
      <4>2. /\ pc' = [pc EXCEPT ![u] = "toggleStakes"] /\ list' = [list EXCEPT ![u] = ids]
            /\ UNCHANGED <<self, mark, read, isRunning, batch>>
        BY <1>1, <3>2 DEF ToggleReadEntries, Goto, memory
      <4>3. pc' \in [Process -> Label] /\ list' \in [Process -> SUBSET Competition]
        BY <1>0, <4>1, <4>2 DEF TypeInv, WorkInv, Label
      <4>4. Busy'
        BY <1>0, <4>2 DEF TypeInv, WorkInv, Busy, Scoring
      <4>. QED BY <4>2, <4>3, <4>4 DEF TypeInv, WorkInv
    <3>. QED BY <3>1, <3>2
  <2>. QED BY <1>1, <2>1, FaultsType DEF TypeInv, DbInv, db, ToggleReadEntries
<1>2. CASE ToggleReadStakes(u, r)
  <2>1. WorkInv'
    <3>1. CASE r = "ok" /\ Valid(u) # {}
      BY <1>0, <1>2, <3>1, MoveType DEF TypeInv, ToggleReadStakes, Label, Scoring
    <3>2. CASE ~(r = "ok" /\ Valid(u) # {})
      BY <1>0, <1>2, <3>2, StopType DEF TypeInv, WorkInv, ToggleReadStakes, memory
    <3>. QED BY <3>1, <3>2
  <2>. QED BY <1>2, <2>1, FaultsType DEF TypeInv, DbInv, db, ToggleReadStakes
<1>3. CASE ToggleUpdate(u, r)
  <2>1. DbInv'
    BY <1>0, <1>3, SetAgentType DEF TypeInv, WorkInv, ToggleUpdate
  <2>2. WorkInv'
    BY <1>0, <1>3, StopType DEF TypeInv, WorkInv, ToggleUpdate, memory
  <2>. QED BY <1>3, <2>1, <2>2, FaultsType DEF TypeInv, ToggleUpdate
<1>. QED BY <1>1, <1>2, <1>3

LEMMA RestakeType ==
    ASSUME TypeInv, NEW x \in Pair, NEW rows \in SUBSET Pair, Restake(x, rows),
           UNCHANGED <<agent, entry, comp, prediction, snapshot>>
    PROVE  DbInv'
  BY DEF TypeInv, DbInv, WorkInv, Restake

\* The three ways a wager handles the row of its stake
Staking(w) == StakeHandled(w) \/ StakeDeleted(w) \/ StakeReinserted(w)

LEMMA StakingStep ==
    ASSUME NEW w \in Wager, Staking(w)
    PROVE  /\ w \in Process /\ Bet[w] \in Pair
           /\ UNCHANGED stakes \/ \E rows \in SUBSET Pair : Restake(Bet[w], rows)
           /\ \E label \in {"reinsert", "activate"} : Goto(w, label)
           /\ UNCHANGED <<agent, entry, comp, prediction, snapshot, memory,
                          self, list, mark, read, faults>>
<1>1. w \in Process /\ Bet[w] \in Pair /\ {Bet[w]} \in SUBSET Pair /\ {} \in SUBSET Pair
  BY ConstantsAssumption DEF ConstantsAssumption, Process
<1>. QED BY <1>1 DEF Staking, StakeHandled, StakeDeleted, StakeReinserted

LEMMA StakingType ==
    ASSUME TypeInv, NEW w \in Wager, Staking(w)
    PROVE  TypeInv'
<1>1. DbInv'
  <2>1. CASE UNCHANGED stakes
    BY <2>1, StakingStep DEF TypeInv, DbInv
  <2>2. CASE \E rows \in SUBSET Pair : Restake(Bet[w], rows)
    BY <2>2, StakingStep, RestakeType
  <2>. QED BY <2>1, <2>2, StakingStep
<1>2. WorkInv'
  BY StakingStep, MoveType DEF TypeInv, Label, Scoring
<1>. QED BY <1>1, <1>2, StakingStep DEF TypeInv

LEMMA StartType ==
    ASSUME TypeInv,
           \/ RunAgentLoop
           \/ \E w \in Wager : Staking(w)
           \/ \E u \in User, a \in Agent, status \in {"active", "paused"} :
                StartToggle(u, a, status)
    PROVE  TypeInv'
<1>1. CASE RunAgentLoop
  BY <1>1 DEF TypeInv, DbInv, WorkInv, RunAgentLoop, Goto, Busy, Label, Scoring, Process, db
<1>2. ASSUME NEW w \in Wager, Staking(w) PROVE TypeInv'
  BY <1>2, StakingType
<1>3. ASSUME NEW u \in User, NEW a \in Agent, NEW status \in {"active", "paused"},
             StartToggle(u, a, status)
      PROVE  TypeInv'
  BY <1>3
  DEF TypeInv, DbInv, WorkInv, StartToggle, Goto, Busy, Label, Scoring, Process, db, memory
<1>. QED BY <1>1, <1>2, <1>3

LEMMA RestartType ==
    ASSUME TypeInv, Restart
    PROVE  TypeInv'
<1>1. WorkInv'
  BY RestingType DEF Restart, WorkInv, Busy, Scoring, Label, Read, Nothing
<1>. QED BY <1>1, ConstantsAssumption DEF ConstantsAssumption, TypeInv, DbInv, db, Restart

LEMMA InitType ==
    ASSUME Init
    PROVE  TypeInv
<1>1. DbInv
  BY ConstantsAssumption DEF ConstantsAssumption, Init, DbInv, Entry
<1>2. WorkInv
  BY RestingType DEF Init, WorkInv, Busy, Scoring, Label, Read, Nothing
<1>. QED BY <1>1, <1>2, ConstantsAssumption DEF ConstantsAssumption, Init, TypeInv

LEMMA TypeInvariant == TypeInv /\ [Next]_vars => TypeInv'
<1>. SUFFICES ASSUME TypeInv, [Next]_vars PROVE TypeInv'
  OBVIOUS
<1>1. CASE UNCHANGED vars
  BY <1>1 DEF TypeInv, DbInv, WorkInv, Busy, vars, db, memory, work
<1>2. ASSUME NEW p \in Process, Step(p) PROVE TypeInv'
  BY <1>2, RunStepType, ForecastType, ReadAgentsType, WagerStepType, ToggleStepType,
     StakingType DEF Step, Staking
<1>3. ASSUME NEW c \in Competition, Settle(c) PROVE TypeInv'
  BY <1>3 DEF TypeInv, DbInv, WorkInv, Busy, Settle, memory, work
<1>. QED BY <1>1, <1>2, <1>3, StartType, RestartType DEF Next, Staking

\* Every variable keeps its type whatever runs beside what: the loop, immediate
\* runs, toggles, failed calls and restarts; no row count passes its bound.
THEOREM TypeCorrect == Spec => []TypeOK
<1>1. TypeInv => TypeOK
  BY TypeParts
<1>. QED BY <1>1, InitType, TypeInvariant, PTL DEF Spec

-----------------------------------------------------------------------------
(* The stakes a run relies on *)

Selected == Relying \union Scoring

\* From the read of the stakes to the insert, a run goes through competitions
\* that are staked or lost their stake since that read.
StakedLists ==
    \A p \in Process : pc[p] \in Relying =>
        \A c \in list[p] : <<self[p], c>> \in staked \/ c \in lapsed[p]

LEMMA FinishUnselected ==
    ASSUME WorkInv, NEW p \in Process,
           Stop(p) \/ Finish(p) \/ \E agents \in SUBSET Agent : p = "loop" /\ TakeAgent(agents)
    PROVE  /\ pc'[p] \notin Selected
           /\ \A q \in Process \ {p} :
                pc'[q] = pc[q] /\ list'[q] = list[q] /\ self'[q] = self[q] /\ read'[q] = read[q]
  BY DEF WorkInv, Finish, Stop, TakeAgent, Goto, Selected, Relying, Scoring, Process

\* A step without wagers leaves the lists of others, and of its own list no more
\* than it had reason to.
LEMMA ListStep ==
    ASSUME TypeInv, StakedLists, UNCHANGED stakes, NEW p \in Process,
           \A q \in Process \ {p} :
             pc'[q] = pc[q] /\ list'[q] = list[q] /\ self'[q] = self[q],
           pc'[p] \in Relying =>
             /\ self'[p] = self[p]
             /\ \A c \in list'[p] : <<self[p], c>> \in staked \/ c \in lapsed[p]
    PROVE  StakedLists'
  BY DEF StakedLists

LEMMA ReadStakesLists ==
    ASSUME TypeInv, StakedLists, NEW p \in Process, NEW r \in Answer, ReadStakes(p, r)
    PROVE  StakedLists'
<1>1. /\ \A q \in Process \ {p} :
           pc'[q] = pc[q] /\ list'[q] = list[q] /\ self'[q] = self[q] /\ lapsed'[q] = lapsed[q]
      /\ self' = self /\ staked' = staked
      /\ \A c \in list'[p] : <<self[p], c>> \in staked
  BY DEF TypeInv, DbInv, WorkInv, ReadStakes, Valid, Goto
<1>. QED BY <1>1 DEF StakedLists

LEMMA RunStepLists ==
    ASSUME TypeInv, StakedLists, NEW p \in Process, NEW r \in Answer, RunStep(p, r)
    PROVE  StakedLists'
<1>1. CASE ReadEntries(p, r)
  BY <1>1, ListStep DEF TypeInv, WorkInv, ReadEntries, Goto, Relying, db
<1>2. CASE Pause(p, r)
  BY <1>2, FinishUnselected, ListStep DEF TypeInv, Pause, Selected
<1>3. CASE ReadComps(p, r)
  BY <1>3, ListStep DEF TypeInv, WorkInv, ReadComps, StakedLists, Goto, Relying, db
<1>4. ASSUME NEW c \in Competition, Deactivate(p, c, r) PROVE StakedLists'
  BY <1>4, ListStep DEF TypeInv, WorkInv, Deactivate, StakedLists, Goto, Relying
<1>5. ASSUME NEW c \in Competition, Complete(p, c, r) PROVE StakedLists'
  BY <1>5, ListStep DEF TypeInv, WorkInv, Complete, StakedLists, Relying
<1>6. ASSUME NEW recent \in BOOLEAN, StorePrediction(p, r, recent) PROVE StakedLists'
  BY <1>6, ListStep DEF TypeInv, WorkInv, StorePrediction, Predicted, Goto, Relying
<1>7. CASE ReadScore(p, r) \/ InsertSnapshot(p, r)
  BY <1>7, ListStep DEF TypeInv, WorkInv, ReadScore, InsertSnapshot, Goto, Relying, db
<1>8. CASE UpdateEntry(p, r)
  BY <1>8, ListStep DEF TypeInv, WorkInv, UpdateEntry, Predicted, Goto, Relying
<1>9. CASE CountEntries(p, r)
  <2>1. CASE Finish(p)
    BY <1>9, <2>1, FinishUnselected, ListStep DEF TypeInv, CountEntries, Selected, db
  <2>2. CASE ~Finish(p)
    BY <1>9, <2>2, ListStep DEF TypeInv, WorkInv, CountEntries, Goto, Relying, db
  <2>. QED BY <2>1, <2>2
<1>. QED BY <1>1, <1>2, <1>3, <1>4, <1>5, <1>6, <1>7, <1>8, <1>9, ReadStakesLists DEF RunStep

\* Whoever relies on a stake that a wager takes away has it noted as lapsed.
LEMMA StakingLists ==
    ASSUME TypeInv, StakedLists, NEW w \in Wager, Staking(w)
    PROVE  StakedLists'
<1>1. /\ w \in Process /\ Bet[w] \in Pair /\ self' = self /\ list' = list
      /\ \A p \in Process : pc'[p] \in Relying => pc'[p] = pc[p]
  BY StakingStep DEF TypeInv, WorkInv, Goto, Relying
<1>2. CASE UNCHANGED stakes
  BY <1>1, <1>2 DEF StakedLists
<1>3. ASSUME NEW rows \in SUBSET Pair, Restake(Bet[w], rows) PROVE StakedLists'
  <2>. SUFFICES ASSUME NEW p \in Process, pc'[p] \in Relying, NEW c \in list[p]
                PROVE  <<self[p], c>> \in staked' \/ c \in lapsed'[p]
    BY <1>1 DEF StakedLists
  <2>. DEFINE x == <<self[p], c>>
              lost == (SameRow(Bet[w]) \intersect staked) \ rows
  <2>1. x \in staked \/ c \in lapsed[p]
    BY <1>1 DEF StakedLists
  <2>2. lapsed'[p] = lapsed[p] \union {d \in list[p] : <<self[p], d>> \in lost}
    BY <1>1, <1>3 DEF Restake
  <2>3. x \in staked => x \in staked' \/ x \in lost
    BY <1>3 DEF Restake
  <2>. QED BY <2>1, <2>2, <2>3
<1>. QED BY <1>2, <1>3, StakingStep

LEMMA ListsStep == TypeInv /\ StakedLists /\ [Next]_vars => StakedLists'
<1>. SUFFICES ASSUME TypeInv, StakedLists, [Next]_vars PROVE StakedLists'
  OBVIOUS
<1>1. CASE UNCHANGED vars
  BY <1>1 DEF StakedLists, vars, db, work
<1>2. ASSUME NEW p \in Process, NEW c \in Competition, Skip(p, c) \/ Forecast(p, c)
      PROVE  StakedLists'
  BY <1>2, ListStep DEF TypeInv, WorkInv, Skip, Forecast, StakedLists, Goto, Relying, db
<1>3. ASSUME NEW r \in Answer, ReadAgents(r) PROVE StakedLists'
  <2>1. "loop" \in Process
    BY DEF Process
  <2>2. Stop("loop") \/ \E agents \in SUBSET Agent : TakeAgent(agents)
    BY <1>3 DEF ReadAgents
  <2>. QED BY <1>3, <2>1, <2>2, FinishUnselected, ListStep DEF TypeInv, ReadAgents, Selected, db
<1>4. ASSUME NEW w \in Wager, NEW r \in Answer,
             ActivateAgent(w, r) \/ UpsertEntry(w, r) \/ RunSingleAgentId(w, r)
      PROVE  StakedLists'
  <2>1. w \in Process
    BY DEF Process
  <2>2. CASE Stop(w)
    BY <1>4, <2>1, <2>2, FinishUnselected, ListStep
    DEF TypeInv, ActivateAgent, UpsertEntry, RunSingleAgentId, Selected, db
  <2>3. CASE ~Stop(w)
    BY <1>4, <2>1, <2>3, ListStep DEF TypeInv, WorkInv, ActivateAgent, UpsertEntry,
       RunSingleAgentId, Goto, Relying, db
  <2>. QED BY <2>2, <2>3
<1>5. ASSUME NEW u \in User, NEW r \in Answer,
             ToggleReadEntries(u, r) \/ ToggleReadStakes(u, r) \/ ToggleUpdate(u, r)
      PROVE  StakedLists'
  <2>1. u \in Process
    BY DEF Process
  <2>2. CASE Stop(u)
    BY <1>5, <2>1, <2>2, FinishUnselected, ListStep
    DEF TypeInv, ToggleReadEntries, ToggleReadStakes, ToggleUpdate, Selected, db
  <2>3. CASE ~Stop(u)
    BY <1>5, <2>1, <2>3, ListStep DEF TypeInv, WorkInv, ToggleReadEntries, ToggleReadStakes,
       ToggleUpdate, Goto, Relying, db
  <2>. QED BY <2>2, <2>3
<1>6. CASE RunAgentLoop
  BY <1>6, ListStep DEF TypeInv, WorkInv, RunAgentLoop, Goto, Relying, Process, db
<1>7. ASSUME NEW u \in User, NEW a \in Agent, NEW status \in {"active", "paused"},
             StartToggle(u, a, status)
      PROVE  StakedLists'
  BY <1>7, ListStep DEF TypeInv, WorkInv, StartToggle, Goto, Relying, Process, db
<1>8. ASSUME NEW c \in Competition, Settle(c) PROVE StakedLists'
  BY <1>8 DEF Settle, StakedLists, work
<1>9. CASE Restart
  BY <1>9 DEF Restart, StakedLists, Relying
<1>. QED BY <1>1, <1>2, <1>3, <1>4, <1>5, <1>6, <1>7, <1>8, <1>9, RunStepLists, StakingLists
         DEF Next, Step, Staking

-----------------------------------------------------------------------------
(* Predictions, counts and the integrity chain *)

\* The only steps that write predictions, snapshots or the score of an entry
ScoreStep ==
    \E p \in Process, r \in Answer :
        \/ \E recent \in BOOLEAN : StorePrediction(p, r, recent)
        \/ InsertSnapshot(p, r)
        \/ UpdateEntry(p, r)

SameScores ==
    /\ UNCHANGED <<prediction, snapshot>>
    /\ \A x \in Pair : entry'[x].count = entry[x].count /\ entry'[x].hash = entry[x].hash

LEMMA SetEntryScores ==
    ASSUME DbInv, NEW x \in Pair, NEW status, NEW r, SetEntry(x, status, r)
    PROVE  \A y \in Pair : entry'[y].count = entry[y].count /\ entry'[y].hash = entry[y].hash
  BY DEF DbInv, SetEntry, Entry

LEMMA OtherSteps ==
    ASSUME TypeInv, [Next]_vars, ~ScoreStep
    PROVE  SameScores
<1>1. CASE UNCHANGED vars
  BY <1>1 DEF SameScores, vars, db
<1>2. ASSUME NEW p \in Process, Step(p) PROVE SameScores
  <2>1. ASSUME NEW c \in Competition, NEW r \in Answer, Deactivate(p, c, r) \/ Complete(p, c, r)
        PROVE  SameScores
    <3>1. <<self[p], c>> \in Pair
      BY DEF TypeInv, WorkInv, Pair
    <3>. QED BY <2>1, <3>1, SetEntryScores
             DEF TypeInv, SameScores, Deactivate, DeactivateEntry, Complete
  <2>2. ASSUME p \in Wager, NEW r \in Answer, UpsertEntry(p, r) PROVE SameScores
    <3>1. Bet[p] \in Pair
      BY <2>2, ConstantsAssumption DEF ConstantsAssumption
    <3>. QED BY <2>2, <3>1, SetEntryScores DEF TypeInv, SameScores, UpsertEntry
  <2>. QED BY <1>2, <2>1, <2>2 DEF ScoreStep, SameScores, Step, RunStep, ReadEntries, Pause,
       ReadStakes, ReadComps, ReadScore, CountEntries, Skip, Forecast, ReadAgents, ActivateAgent,
       StakeReinserted, RunSingleAgentId, ToggleReadEntries, ToggleReadStakes, ToggleUpdate, db
<1>3. CASE ~UNCHANGED vars /\ ~\E p \in Process : Step(p)
  BY <1>3 DEF Next, SameScores, RunAgentLoop, Restart, StakeHandled, StakeDeleted,
     StartToggle, Settle, db
<1>. QED BY <1>1, <1>2, <1>3

LEMMA StoreScores ==
    ASSUME TypeInv, NEW p \in Process, NEW r \in Answer, NEW recent \in BOOLEAN,
           StorePrediction(p, r, recent)
    PROVE  /\ Current(p) \in Pair
           /\ UNCHANGED snapshot
           /\ \A x \in Pair : entry'[x].hash = entry[x].hash
           /\ \/ UNCHANGED <<prediction, entry>>
              \/ /\ entry'[Current(p)].count > 0
                 /\ \A x \in Pair \ {Current(p)} :
                      entry'[x] = entry[x] /\ prediction'[x] = prediction[x]
<1>. DEFINE x == Current(p)
            count == Synced(entry[x].count, prediction[x] + 1)
<1>1. x \in Pair
  BY CurrentType DEF StorePrediction, Scoring
<1>2. entry \in [Pair -> Entry] /\ prediction \in [Pair -> 0..MAX_PREDICTIONS]
  BY DEF TypeInv, DbInv
<1>3. count \in Nat /\ count > 0
  BY <1>1, <1>2, ConstantsAssumption DEF ConstantsAssumption, Synced, Entry
<1>4. CASE UNCHANGED <<prediction, entry>>
  BY <1>1, <1>4 DEF StorePrediction
<1>5. CASE ~UNCHANGED <<prediction, entry>>
  <2>1. /\ prediction' = [prediction EXCEPT ![x] = prediction[x] + 1]
        /\ entry' = [entry EXCEPT ![x].count = count]
    BY <1>5 DEF StorePrediction
  <2>2. UNCHANGED snapshot
    BY DEF StorePrediction
  <2>. HIDE DEF x, count
  <2>3. /\ entry'[x].count > 0
        /\ \A y \in Pair : entry'[y].hash = entry[y].hash
        /\ \A y \in Pair \ {x} : entry'[y] = entry[y] /\ prediction'[y] = prediction[y]
    BY <1>1, <1>2, <1>3, <2>1 DEF Entry
  <2>. QED BY <1>1, <2>2, <2>3 DEF x
<1>. QED BY <1>4, <1>5

LEMMA UpdateScores ==
    ASSUME TypeInv, NEW p \in Process, NEW r \in Answer, UpdateEntry(p, r)
    PROVE  /\ Current(p) \in Pair
           /\ UNCHANGED <<prediction, snapshot>>
           /\ \A x \in Pair \ {Current(p)} : entry'[x] = entry[x]
           /\ \/ UNCHANGED entry
              \/ /\ entry'[Current(p)].count = read[p].count + 1
                 /\ entry'[Current(p)].hash = IF read[p].own = 0 THEN entry[Current(p)].hash
                                              ELSE read[p].own
<1>1. Current(p) \in Pair /\ read[p] \in Read /\ entry \in [Pair -> Entry]
  BY CurrentType DEF TypeInv, DbInv, WorkInv, UpdateEntry, Scoring
<1>. QED BY <1>1, ScoredType DEF UpdateEntry

\* Only StorePrediction adds a prediction, for the pair its process works on.
LEMMA PredictionStep ==
    ASSUME TypeInv, [Next]_vars, NEW x \in Pair, prediction'[x] # prediction[x]
    PROVE  \E p \in Process : /\ pc[p] = "store" /\ pc'[p] # "store"
                              /\ x = Current(p)
<1>1. PICK p \in Process, r \in Answer, recent \in BOOLEAN : StorePrediction(p, r, recent)
  BY OtherSteps, UpdateScores DEF ScoreStep, SameScores, InsertSnapshot
<1>2. x = Current(p)
  BY <1>1, StoreScores
<1>3. pc[p] = "store" /\ pc'[p] # "store"
  BY <1>1 DEF TypeInv, WorkInv, StorePrediction, Predicted, Goto
<1>. QED BY <1>2, <1>3

\* A prediction is made only for an entry with a verified stake, however stakes
\* move between the agents of a user or get lost, unless the stake was taken
\* away after the run that stores it had read the stakes.
THEOREM StakedPredictions == Spec => PredictsOnlyStaked
<1>1. Init => StakedLists
  BY DEF Init, StakedLists, Relying
<1>2. TypeInv /\ StakedLists /\ [Next]_vars =>
        [\A x \in Pair : prediction'[x] # prediction[x] =>
            \/ x \in staked
            \/ \E p \in Process : /\ pc[p] = "store" /\ pc'[p] # "store"
                                  /\ x = Current(p) /\ x[2] \in lapsed[p]]_vars
  <2>. SUFFICES ASSUME TypeInv, StakedLists, [Next]_vars,
                       NEW x \in Pair, prediction'[x] # prediction[x]
                PROVE  \/ x \in staked
                       \/ \E p \in Process : /\ pc[p] = "store" /\ pc'[p] # "store"
                                             /\ x = Current(p) /\ x[2] \in lapsed[p]
    OBVIOUS
  <2>1. PICK p \in Process : /\ pc[p] = "store" /\ pc'[p] # "store"
                             /\ x = Current(p)
    BY PredictionStep
  <2>2. \E c \in list[p] : x = <<self[p], c>>
    BY <2>1 DEF TypeInv, WorkInv, Busy, Scoring, Current
  <2>3. x \in staked \/ x[2] \in lapsed[p]
    BY <2>1, <2>2 DEF StakedLists, Relying
  <2>. QED BY <2>1, <2>3
<1>. QED BY <1>1, <1>2, InitType, TypeInvariant, ListsStep, PTL DEF Spec, PredictsOnlyStaked

LEMMA CountStep == TypeInv /\ PredictedIsCounted /\ [Next]_vars => PredictedIsCounted'
<1>. SUFFICES ASSUME TypeInv, PredictedIsCounted, [Next]_vars PROVE PredictedIsCounted'
  OBVIOUS
<1>1. CASE ~ScoreStep
  BY <1>1, OtherSteps DEF SameScores, PredictedIsCounted
<1>2. ASSUME NEW p \in Process, NEW r \in Answer, NEW recent \in BOOLEAN,
             StorePrediction(p, r, recent)
      PROVE  PredictedIsCounted'
  BY <1>2, StoreScores DEF PredictedIsCounted
<1>3. ASSUME NEW p \in Process, NEW r \in Answer, InsertSnapshot(p, r)
      PROVE  PredictedIsCounted'
  BY <1>3 DEF InsertSnapshot, PredictedIsCounted
<1>4. ASSUME NEW p \in Process, NEW r \in Answer, UpdateEntry(p, r)
      PROVE  PredictedIsCounted'
  <2>1. read[p].count \in Nat
    BY DEF TypeInv, WorkInv, Read
  <2>. QED BY <1>4, <2>1, UpdateScores DEF PredictedIsCounted
<1>. QED BY <1>1, <1>2, <1>3, <1>4 DEF ScoreStep

\* Whoever has a prediction is counted, and so a candidate of the settlement,
\* whatever failed or overlapped between the insert and the score.
THEOREM CountedPredictions == Spec => []PredictedIsCounted
<1>1. Init => PredictedIsCounted
  BY DEF Init, PredictedIsCounted
<1>. QED BY <1>1, InitType, TypeInvariant, CountStep, PTL DEF Spec

\* Links a process has read or made are in the chain it will extend.
ReadInChain ==
    \A p \in Process :
        /\ pc[p] \in {"snapshot", "update"} => read[p].hash <= Len(snapshot[Current(p)])
        /\ pc[p] = "update" => read[p].own <= Len(snapshot[Current(p)])

ChainInv == ScoreChain /\ ReadInChain

LEMMA CurrentSame ==
    ASSUME NEW p \in Process, self'[p] = self[p], list'[p] = list[p]
    PROVE  Current(p)' = Current(p)
  BY DEF Current

\* Only ReadScore and InsertSnapshot move a process to where it holds links.
LEMMA Holders ==
    ASSUME TypeInv, [Next]_vars, NEW p \in Process, pc'[p] \in {"snapshot", "update"}
    PROVE  \/ pc'[p] = pc[p] /\ self'[p] = self[p] /\ list'[p] = list[p] /\ read'[p] = read[p]
           \/ \E r \in Answer : ReadScore(p, r) \/ InsertSnapshot(p, r)
<1>1. CASE UNCHANGED vars
  BY <1>1 DEF vars, work
<1>2. ASSUME NEW q \in Process, NEW r \in Answer, RunStep(q, r)
      PROVE  \/ pc'[p] = pc[p] /\ self'[p] = self[p] /\ list'[p] = list[p] /\ read'[p] = read[p]
             \/ ReadScore(p, r) \/ InsertSnapshot(p, r)
  <2>1. CASE Finish(q)
    BY <2>1, FinishUnselected DEF TypeInv, Selected, Scoring
  <2>2. CASE ~Finish(q)
    BY <1>2, <2>2 DEF TypeInv, WorkInv, RunStep, ReadEntries, Pause, ReadStakes, Deactivate,
       ReadComps, Complete, StorePrediction, Predicted, ReadScore, InsertSnapshot, UpdateEntry,
       CountEntries, Goto
  <2>. QED BY <2>1, <2>2
<1>3. ASSUME NEW q \in Process, NEW c \in Competition, Skip(q, c) \/ Forecast(q, c)
      PROVE  pc'[p] = pc[p] /\ self'[p] = self[p] /\ list'[p] = list[p] /\ read'[p] = read[p]
  BY <1>3 DEF TypeInv, WorkInv, Skip, Forecast, Goto
<1>4. ASSUME NEW q \in Process, NEW r \in Answer,
             \/ q = "loop" /\ ReadAgents(r)
             \/ ActivateAgent(q, r) \/ UpsertEntry(q, r) \/ RunSingleAgentId(q, r)
             \/ ToggleReadEntries(q, r) \/ ToggleReadStakes(q, r) \/ ToggleUpdate(q, r)
      PROVE  pc'[p] = pc[p] /\ self'[p] = self[p] /\ list'[p] = list[p] /\ read'[p] = read[p]
  <2>1. CASE Stop(q) \/ \E agents \in SUBSET Agent : q = "loop" /\ TakeAgent(agents)
    BY <2>1, FinishUnselected DEF TypeInv, Selected, Scoring
  <2>2. CASE ~(Stop(q) \/ \E agents \in SUBSET Agent : q = "loop" /\ TakeAgent(agents))
    BY <1>4, <2>2 DEF TypeInv, WorkInv, ReadAgents, ActivateAgent, UpsertEntry,
       RunSingleAgentId, ToggleReadEntries, ToggleReadStakes, ToggleUpdate, Goto
  <2>. QED BY <2>1, <2>2
<1>5. CASE \/ RunAgentLoop
           \/ \E w \in Wager : Staking(w)
           \/ \E u \in User, a \in Agent, status \in {"active", "paused"} :
                StartToggle(u, a, status)
  BY <1>5, StakingStep DEF TypeInv, WorkInv, RunAgentLoop, StartToggle, Goto, Process
<1>6. CASE Restart \/ \E c \in Competition : Settle(c)
  BY <1>6 DEF Restart, Settle, work
<1>. QED BY <1>1, <1>2, <1>3, <1>4, <1>5, <1>6 DEF Next, Step, Staking

\* A snapshot links back into the chain it is appended to.
LEMMA AppendedChain ==
    ASSUME TypeInv, ChainInv, NEW p \in Process, NEW r \in Answer, InsertSnapshot(p, r)
    PROVE  /\ Current(p) \in Pair
           /\ \A x \in Pair : Len(snapshot[x]) <= Len(snapshot'[x])
           /\ read'[p].hash = read[p].hash
           /\ read'[p].own <= Len(snapshot'[Current(p)])
           /\ UNCHANGED <<entry, self, list>>
           /\ \A x \in Pair : \A n \in 1..Len(snapshot'[x]) : snapshot'[x][n] < n
<1>. DEFINE x == Current(p)
            own == IF r = "ok" THEN Len(snapshot[x]) + 1 ELSE 0
<1>1. /\ x \in Pair /\ read[p] \in Read /\ read \in [Process -> Read]
      /\ snapshot \in [Pair -> Seq(Nat)] /\ Len(snapshot[x]) \in Nat
      /\ \A y \in Pair : Len(snapshot[y]) \in Nat
  BY CurrentType DEF TypeInv, DbInv, WorkInv, InsertSnapshot, Scoring
<1>2. read[p].hash <= Len(snapshot[x])
  BY DEF ChainInv, ReadInChain, InsertSnapshot
<1>3. own \in Nat /\ read' = [read EXCEPT ![p].own = own]
  BY <1>1 DEF InsertSnapshot
<1>4. CASE Takes(r)
  <2>1. snapshot' = [snapshot EXCEPT ![x] = Append(snapshot[x], read[p].hash)]
    BY <1>4 DEF InsertSnapshot
  <2>2. own <= Len(snapshot[x]) + 1
    BY <1>1
  <2>3. UNCHANGED <<entry, self, list>>
    BY DEF InsertSnapshot
  <2>4. read[p].hash \in Nat
    BY <1>1 DEF Read
  <2>. HIDE DEF x, own
  <2>5. /\ Len(snapshot'[x]) = Len(snapshot[x]) + 1
        /\ \A n \in 1..Len(snapshot[x]) : snapshot'[x][n] = snapshot[x][n]
        /\ snapshot'[x][Len(snapshot[x]) + 1] = read[p].hash
        /\ \A y \in Pair \ {x} : snapshot'[y] = snapshot[y]
    BY <1>1, <2>1, <2>4
  <2>6. read'[p].own = own /\ read'[p].hash = read[p].hash
    BY <1>1, <1>3 DEF Read
  <2>7. \A n \in 1..Len(snapshot'[x]) : snapshot'[x][n] < n
    BY <1>1, <1>2, <2>4, <2>5 DEF ChainInv, ScoreChain
  <2>8. \A y \in Pair : Len(snapshot[y]) <= Len(snapshot'[y])
    BY <1>1, <2>5
  <2>9. \A y \in Pair : \A n \in 1..Len(snapshot'[y]) : snapshot'[y][n] < n
    BY <2>5, <2>7 DEF ChainInv, ScoreChain
  <2>. QED BY <1>1, <2>2, <2>3, <2>5, <2>6, <2>8, <2>9 DEF x
<1>5. CASE ~Takes(r)
  <2>1. snapshot' = snapshot /\ own = 0 /\ UNCHANGED <<entry, self, list>>
    BY <1>5 DEF InsertSnapshot, Takes
  <2>. HIDE DEF x, own
  <2>2. read'[p].own = own /\ read'[p].hash = read[p].hash
    BY <1>1, <1>3 DEF Read
  <2>. QED BY <1>1, <2>1, <2>2 DEF ChainInv, ScoreChain, x
<1>. QED BY <1>4, <1>5

LEMMA ReadIsInChain ==
    ASSUME TypeInv, ChainInv, NEW p \in Process, NEW r \in Answer, ReadScore(p, r)
    PROVE  /\ Current(p)' = Current(p)
           /\ pc'[p] = "snapshot"
           /\ read'[p].hash <= Len(snapshot[Current(p)])
<1>1. Current(p) \in Pair /\ entry[Current(p)] \in Entry /\ Len(snapshot[Current(p)]) \in Nat
  BY CurrentType DEF TypeInv, DbInv, ReadScore, Scoring
<1>. QED BY <1>1, CurrentSame
         DEF TypeInv, WorkInv, ReadScore, Goto, Nothing, ChainInv, ScoreChain

LEMMA ChainStep == TypeInv /\ ChainInv /\ [Next]_vars => ChainInv'
<1>. SUFFICES ASSUME TypeInv, ChainInv, [Next]_vars PROVE ChainInv'
  OBVIOUS
<1>1. \A x \in Pair : Len(snapshot[x]) \in Nat
  BY DEF TypeInv, DbInv
<1>2. (\E p \in Process, r \in Answer : InsertSnapshot(p, r))
        \/ (UNCHANGED snapshot /\ \A x \in Pair : Len(snapshot[x]) <= Len(snapshot'[x]))
  BY <1>1, OtherSteps, StoreScores, UpdateScores DEF ScoreStep, SameScores
<1>3. \A x \in Pair : Len(snapshot[x]) <= Len(snapshot'[x]) /\ Len(snapshot'[x]) \in Nat
  <2>1. \A x \in Pair : Len(snapshot'[x]) \in Nat
    <3>1. TypeInv'
      BY TypeInvariant
    <3>. QED BY <3>1 DEF TypeInv, DbInv
  <2>2. \A x \in Pair : Len(snapshot[x]) <= Len(snapshot'[x])
    BY <1>2, AppendedChain
  <2>. QED BY <2>1, <2>2
<1>4. ScoreChain'
  <2>1. CASE ~ScoreStep
    BY <2>1, OtherSteps DEF SameScores, ChainInv, ScoreChain
  <2>2. ASSUME NEW p \in Process, NEW r \in Answer, NEW recent \in BOOLEAN,
               StorePrediction(p, r, recent)
        PROVE  ScoreChain'
    BY <2>2, StoreScores DEF ChainInv, ScoreChain
  <2>3. ASSUME NEW p \in Process, NEW r \in Answer, InsertSnapshot(p, r)
        PROVE  ScoreChain'
    <3>1. \A x \in Pair : entry[x].hash \in Nat /\ entry'[x].hash = entry[x].hash
      BY <2>3, AppendedChain DEF TypeInv, DbInv, Entry
    <3>. QED BY <1>1, <1>3, <2>3, <3>1, AppendedChain DEF ChainInv, ScoreChain
  <2>4. ASSUME NEW p \in Process, NEW r \in Answer, UpdateEntry(p, r)
        PROVE  ScoreChain'
    <3>1. read[p].own <= Len(snapshot[Current(p)])
      BY <2>4 DEF ChainInv, ReadInChain, UpdateEntry
    <3>. QED BY <2>4, <3>1, UpdateScores DEF ChainInv, ScoreChain
  <2>. QED BY <2>1, <2>2, <2>3, <2>4 DEF ScoreStep
<1>5. ReadInChain'
  <2>. SUFFICES ASSUME NEW p \in Process, pc'[p] \in {"snapshot", "update"}
                PROVE  /\ read'[p].hash <= Len(snapshot'[Current(p)'])
                       /\ pc'[p] = "update" => read'[p].own <= Len(snapshot'[Current(p)'])
    BY DEF ReadInChain
  <2>0. \A q \in Process : read[q].hash \in Nat /\ read[q].own \in Nat
    BY DEF TypeInv, WorkInv, Read
  <2>1. CASE pc'[p] = pc[p] /\ self'[p] = self[p] /\ list'[p] = list[p] /\ read'[p] = read[p]
    <3>1. Current(p)' = Current(p) /\ Current(p) \in Pair
      BY <2>1, CurrentSame, CurrentType DEF Scoring
    <3>. QED BY <1>1, <1>3, <2>0, <2>1, <3>1 DEF ChainInv, ReadInChain
  <2>2. ASSUME NEW r \in Answer, ReadScore(p, r)
        PROVE  /\ read'[p].hash <= Len(snapshot'[Current(p)'])
               /\ pc'[p] = "update" => read'[p].own <= Len(snapshot'[Current(p)'])
    BY <2>2, ReadIsInChain DEF ReadScore, db
  <2>3. ASSUME NEW r \in Answer, InsertSnapshot(p, r)
        PROVE  /\ read'[p].hash <= Len(snapshot'[Current(p)'])
               /\ pc'[p] = "update" => read'[p].own <= Len(snapshot'[Current(p)'])
    <3>1. Current(p)' = Current(p)
      BY <2>3, CurrentSame DEF InsertSnapshot
    <3>2. read[p].hash <= Len(snapshot[Current(p)])
      BY <2>3 DEF ChainInv, ReadInChain, InsertSnapshot
    <3>. QED BY <1>1, <1>3, <2>0, <2>3, <3>1, <3>2, AppendedChain
  <2>. QED BY <2>1, <2>2, <2>3, Holders
<1>. QED BY <1>4, <1>5 DEF ChainInv

\* The integrity chain of every entry is well founded: overlapping runs, failed
\* inserts and lost answers never make a hash or a link name a missing snapshot.
THEOREM ChainHolds == Spec => []ScoreChain
<1>1. Init => ChainInv
  BY DEF Init, ChainInv, ScoreChain, ReadInChain
<1>2. ChainInv => ScoreChain
  BY DEF ChainInv
<1>. QED BY <1>1, <1>2, InitType, TypeInvariant, ChainStep, PTL DEF Spec
=============================================================================
