---------------------- MODULE CompetitionLifecycleProofs ----------------------
(***************************************************************************)
(* Types, the finality of settlements and the exclusion of seeding runs in *)
(* CompetitionLifecycle, for any sectors, horizons, outcomes and limits,   *)
(* and any number of failures, restarts and calls from outside.            *)
(***************************************************************************)
EXTENDS CompetitionLifecycle, SumTheorems, TLAPS

-----------------------------------------------------------------------------
(* Rows *)

Outcomes == Outcome \union {NoOutcome}

\* A row as another statement may leave it: of the same slot, and running
\* only if it was.
Older(old, new) ==
    /\ new \in Row
    /\ new.sector = old.sector /\ new.horizon = old.horizon /\ new.forced = old.forced
    /\ Running(new) => Running(old)

LEMMA RowFields ==
    ASSUME NEW row \in Row
    PROVE  /\ row.status \in Status /\ row.phase \in {"future", "open", "ended"}
           /\ row.sector \in Sector /\ row.horizon \in Horizon \union {OldHorizon, NoHorizon}
           /\ row.outcome \in Outcomes /\ row.forced \in BOOLEAN
  BY DEF Row, Outcomes

LEMMA StatusRow ==
    ASSUME NEW row \in Row, NEW status \in Status
    PROVE  LET new == [row EXCEPT !.status = status]
           IN  /\ new \in Row /\ new.status = status
               /\ new.sector = row.sector /\ new.horizon = row.horizon
               /\ new.phase = row.phase /\ new.outcome = row.outcome /\ new.forced = row.forced
  BY DEF Row

LEMMA OutcomeRow ==
    ASSUME NEW row \in Row, NEW o \in Outcomes
    PROVE  LET new == [row EXCEPT !.status = "settled", !.outcome = o]
           IN  /\ new \in Row /\ new.status = "settled"
               /\ new.sector = row.sector /\ new.horizon = row.horizon
               /\ new.phase = row.phase /\ new.outcome = o /\ new.forced = row.forced
  BY DEF Row, Outcomes, Status

LEMMA AutoStatusRow ==
    ASSUME NEW row \in Row
    PROVE  /\ AutoStatus(row) \in Row
           /\ AutoStatus(row).sector = row.sector /\ AutoStatus(row).horizon = row.horizon
           /\ AutoStatus(row).phase = row.phase /\ AutoStatus(row).outcome = row.outcome
           /\ AutoStatus(row).forced = row.forced
           /\ Live(AutoStatus(row)) => Live(row)
           /\ row.status \notin {"upcoming", "active"} => AutoStatus(row) = row
           /\ row.status # "none" => AutoStatus(row).status # "none"
<1>1. /\ "active" \in Status /\ "settled" \in Status
  BY DEF Status
<1>2. CASE row.status = "upcoming" /\ row.phase = "open"
  BY <1>1, <1>2, StatusRow DEF AutoStatus, Live
<1>3. CASE ~(row.status = "upcoming" /\ row.phase = "open") /\ Expired(row) /\ row.outcome # NoOutcome
  BY <1>1, <1>3, StatusRow DEF AutoStatus, Live, Expired
<1>4. CASE ~(row.status = "upcoming" /\ row.phase = "open") /\ ~(Expired(row) /\ row.outcome # NoOutcome)
  BY <1>4 DEF AutoStatus
<1>. QED BY <1>2, <1>3, <1>4

LEMMA AutoStatusOlder ==
    ASSUME NEW row \in Row
    PROVE  Older(row, AutoStatus(row))
  BY AutoStatusRow DEF Older, Running

LEMMA WithStatusOlder ==
    ASSUME NEW row \in Row, NEW status \in Status,
           status = "active" => Live(row), status # "upcoming"
    PROVE  /\ Older(row, WithStatus(row, status))
           /\ WithStatus(row, status).outcome = row.outcome
           /\ status \notin {"upcoming", "active"} => WithStatus(row, status).status = status
<1>. DEFINE new == [row EXCEPT !.status = status]
<1>1. /\ new \in Row /\ new.status = status
      /\ new.sector = row.sector /\ new.horizon = row.horizon
      /\ new.phase = row.phase /\ new.outcome = row.outcome /\ new.forced = row.forced
  BY StatusRow
<1>2. WithStatus(row, status) = AutoStatus(new)
  BY DEF WithStatus
<1>. HIDE DEF new
<1>3. Live(new) => Live(row)
  BY <1>1 DEF Live
<1>. QED BY <1>1, <1>2, <1>3, AutoStatusRow DEF Older, Running

LEMMA WithOutcomeOlder ==
    ASSUME NEW row \in Row, NEW o \in Outcomes
    PROVE  /\ Older(row, WithOutcome(row, o))
           /\ WithOutcome(row, o).status = "settled" /\ WithOutcome(row, o).outcome = o
<1>. DEFINE new == [row EXCEPT !.status = "settled", !.outcome = o]
<1>1. /\ new \in Row /\ new.status = "settled"
      /\ new.sector = row.sector /\ new.horizon = row.horizon
      /\ new.phase = row.phase /\ new.outcome = o /\ new.forced = row.forced
  BY OutcomeRow
<1>2. WithOutcome(row, o) = AutoStatus(new)
  BY DEF WithOutcome
<1>. HIDE DEF new
<1>3. ~Live(new)
  BY <1>1 DEF Live
<1>. QED BY <1>1, <1>2, <1>3, AutoStatusRow DEF Older, Running

LEMMA CoalescedOlder ==
    ASSUME NEW row \in Row
    PROVE  Older(row, Coalesced(row)) /\ Coalesced(row).status = "settled"
<1>1. 0 \in Outcomes /\ row.outcome \in Outcomes
  BY RowFields, ConstantsAssumption DEF ConstantsAssumption, Outcomes
<1>. QED BY <1>1, WithOutcomeOlder DEF Coalesced

LEMMA PhaseOlder ==
    ASSUME NEW row \in Row, NEW phase \in {"open", "ended"}, row.phase # "ended"
    PROVE  /\ Older(row, [row EXCEPT !.phase = phase])
           /\ [row EXCEPT !.phase = phase].status = row.status
           /\ [row EXCEPT !.phase = phase].outcome = row.outcome
  BY DEF Row, Older, Running, Live

-----------------------------------------------------------------------------
(* Where the processes stand *)

\* A process that handles competitions has one left; one that inserts has a
\* slot left.
ListHeld ==
    \A p \in Process :
        pc[p] \in {"mark", "settlePool", "retry", "checkEmpty", "forceEmpty"} => list[p] # {}

SlotLeft == \A p \in Process : pc[p] \in {"insert", "insertAgain"} => fill[p] # {}

BootLabel == {"idle", "settleExpired", "readExpired", "writeExpired", "readRetired",
              "cancelRetired", "readDuplicates", "cancelDuplicates"}

\* Start-up and the resolution of an event do not seed.
NoSeeding ==
    /\ pc["boot"] \in BootLabel /\ fill["boot"] = {}
    /\ pc["resolve"] \in {"idle", "mark", "settlePool"} /\ fill["resolve"] = {}

Control == ListHeld /\ SlotLeft /\ NoSeeding

LEMMA LeastItem ==
    ASSUME NEW ids \in SUBSET Competition, ids # {}
    PROVE  \E c \in ids : \A d \in ids : c <= d
<1>1. ids \in SUBSET Nat
  BY ConstantsAssumption DEF Competition, ConstantsAssumption
<1>. QED BY <1>1, LeastNumber

LEMMA ItemListed ==
    ASSUME TypeOK, Control, NEW p \in Process,
           pc[p] \in {"mark", "settlePool", "retry", "checkEmpty", "forceEmpty"}
    PROVE  Item(p) \in list[p] /\ Item(p) \in Competition /\ Held(Item(p))
<1>1. list[p] \in SUBSET Competition /\ list[p] # {}
  BY DEF TypeOK, Control, ListHeld
<1>2. \E c \in list[p] : \A d \in list[p] : c <= d
  BY <1>1, LeastItem
<1>3. Item(p) \in list[p]
  BY <1>2 DEF Item
<1>. QED BY <1>1, <1>3 DEF Held

LEMMA SlotListed ==
    ASSUME TypeOK, Control, NEW p \in Process, pc[p] \in {"insert", "insertAgain"}
    PROVE  /\ NextSlot(p) \in fill[p] /\ NextSlot(p) \in Slot
           /\ NextSlot(p)[1] \in Sector /\ NextSlot(p)[2] \in Horizon
           /\ NextSlot(p) = <<NextSlot(p)[1], NextSlot(p)[2]>>
           /\ p \in {"seed", "settle", "reset"}
<1>1. fill[p] # {} /\ fill[p] \subseteq Slot
  BY DEF Control, SlotLeft, TypeOK
<1>2. NextSlot(p) \in fill[p]
  BY <1>1 DEF NextSlot
<1>3. p \in {"seed", "settle", "reset"}
  BY DEF Control, NoSeeding, BootLabel, Process
<1>. QED BY <1>1, <1>2, <1>3 DEF Slot

LEMMA FreeRow ==
    ASSUME Unused # {}
    PROVE  Free \in Competition /\ comp[Free].status = "none"
<1>1. \E c \in Unused : \A d \in Unused : c <= d
  BY LeastItem DEF Unused
<1>2. Free \in Unused
  BY <1>1 DEF Free
<1>. QED BY <1>2 DEF Unused

-----------------------------------------------------------------------------
(* What a step does to the tables *)

Tables == [Competition -> {"none", "pending", "settled"}]

\* Rows only grow older, ...
Ages ==
    /\ comp' \in [Competition -> Row] /\ pool' \in Tables
    /\ \A c \in Competition : Older(comp[c], comp'[c])

\* ... except for one that is inserted.
Inserts(row) ==
    /\ comp' \in [Competition -> Row] /\ pool' \in Tables
    /\ \E n \in Competition :
        /\ comp[n].status = "none" /\ comp'[n] = AutoStatus(row)
        /\ \A c \in Competition : c # n => Older(comp[c], comp'[c])

\* What is settled and in nobody's list stays as it is.
Finished ==
    \A c \in Competition : Closed(c) /\ ~Held(c) =>
        /\ comp'[c].status = "settled" /\ comp'[c].outcome = comp[c].outcome
        /\ pool'[c] = "settled"

LEMMA OlderSelf == ASSUME NEW row \in Row PROVE Older(row, row)
  BY DEF Older

LEMMA SameRows ==
    ASSUME TypeOK, UNCHANGED comp, UNCHANGED pool
    PROVE  Ages /\ Finished
  BY OlderSelf DEF TypeOK, Ages, Finished, Closed, Tables

\* Some rows are replaced by older ones; a finished one only while it is in
\* somebody's list, and likewise for the pools.
LEMMA UpdatedRows ==
    ASSUME TypeOK, NEW ids \in SUBSET Competition, NEW New,
           comp' = [c \in Competition |-> IF c \in ids THEN New[c] ELSE comp[c]],
           \A c \in ids : Older(comp[c], New[c]),
           \A c \in ids : Closed(c) /\ ~Held(c) =>
                New[c].status = "settled" /\ New[c].outcome = comp[c].outcome,
           pool' \in Tables,
           \A c \in Competition : Closed(c) /\ ~Held(c) => pool'[c] = pool[c]
    PROVE  Ages /\ Finished
<1>1. \A c \in Competition : comp'[c] = (IF c \in ids THEN New[c] ELSE comp[c]) /\ comp[c] \in Row
  BY DEF TypeOK
<1>2. \A c \in Competition : Older(comp[c], comp'[c])
  BY <1>1, OlderSelf
<1>3. comp' \in [Competition -> Row]
  BY <1>1, <1>2 DEF Older
<1>4. Finished
  BY <1>1 DEF Finished, Closed
<1>. QED BY <1>2, <1>3, <1>4 DEF Ages

LEMMA OneRow ==
    ASSUME TypeOK, NEW k \in Competition, NEW row, comp' = [comp EXCEPT ![k] = row],
           Older(comp[k], row),
           Closed(k) /\ ~Held(k) => row.status = "settled" /\ row.outcome = comp[k].outcome,
           pool' \in Tables,
           \A c \in Competition : Closed(c) /\ ~Held(c) => pool'[c] = pool[c]
    PROVE  Ages /\ Finished
<1>1. \A c \in Competition : comp'[c] = (IF c = k THEN row ELSE comp[c]) /\ comp[c] \in Row
  BY DEF TypeOK
<1>2. \A c \in Competition : Older(comp[c], comp'[c])
  BY <1>1, OlderSelf
<1>3. comp' \in [Competition -> Row]
  <2>1. row \in Row
    BY DEF Older
  <2>. QED BY <2>1 DEF TypeOK
<1>4. Finished
  BY <1>1 DEF Finished, Closed
<1>. QED BY <1>2, <1>3, <1>4 DEF Ages

LEMMA PoolsKept ==
    ASSUME TypeOK, UNCHANGED pool
    PROVE  pool' \in Tables /\ \A c \in Competition : Closed(c) /\ ~Held(c) => pool'[c] = pool[c]
  BY DEF TypeOK, Tables

LEMMA SweptRows ==
    ASSUME TypeOK, NEW s
    PROVE  /\ Swept(s) \in [Competition -> Row] /\ AutoSettled \in [Competition -> Row]
           /\ \A c \in Competition : Older(comp[c], Swept(s)[c]) /\ Older(comp[c], AutoSettled[c])
           /\ \A c \in Competition : comp[c].status = "settled" =>
                 Swept(s)[c] = comp[c] /\ AutoSettled[c] = comp[c]
<1>1. \A c \in Competition : comp[c] \in Row /\ Older(comp[c], Coalesced(comp[c]))
                               /\ Older(comp[c], comp[c])
  BY OlderSelf, CoalescedOlder DEF TypeOK
<1>2. /\ Swept(s) = [c \in Competition |->
              IF c \in {d \in ExpiredIds : comp[d].sector = s} THEN Coalesced(comp[c]) ELSE comp[c]]
      /\ AutoSettled = [c \in Competition |-> IF c \in ExpiredIds THEN Coalesced(comp[c]) ELSE comp[c]]
  BY DEF Swept, AutoSettled, UpdateRows
<1>3. \A c \in ExpiredIds : comp[c].status # "settled"
  BY DEF ExpiredIds, Expired
<1>4. \A c \in Competition : Older(comp[c], Swept(s)[c]) /\ Older(comp[c], AutoSettled[c])
  BY <1>1, <1>2
<1>5. Swept(s) \in [Competition -> Row] /\ AutoSettled \in [Competition -> Row]
  BY <1>2, <1>4 DEF Older
<1>. QED BY <1>2, <1>3, <1>4, <1>5

-----------------------------------------------------------------------------
(* ... action by action *)

LEMMA SettleExpiredRows ==
    ASSUME TypeOK, NEW p \in Process, NEW a, SettleExpired(p, a)
    PROVE  Ages /\ Finished
<1>1. UNCHANGED pool /\ (comp' = AutoSettled \/ UNCHANGED comp)
  BY DEF SettleExpired
<1>2. CASE UNCHANGED comp
  BY <1>1, <1>2, SameRows
<1>3. CASE comp' = AutoSettled
  BY <1>1, <1>3, SweptRows DEF Ages, Finished, Closed, Tables, TypeOK
<1>. QED BY <1>1, <1>2, <1>3

\* An update by ids writes what the process has read.
LEMMA ListedRows ==
    ASSUME TypeOK, NEW p \in Process, NEW status \in {"settled", "cancelled"}, UNCHANGED pool,
           status = "settled" \/ pc[p] # "writeExpired",
           comp' = UpdateRows(list[p], LAMBDA row : WithStatus(row, status))
    PROVE  Ages /\ Finished
<1>. DEFINE New == [c \in Competition |-> WithStatus(comp[c], status)]
            ids == list[p]
<1>1. comp' = [c \in Competition |-> IF c \in ids THEN WithStatus(comp[c], status) ELSE comp[c]]
  BY DEF UpdateRows
<1>2. comp' = [c \in Competition |-> IF c \in ids THEN New[c] ELSE comp[c]]
  BY <1>1
<1>3. ids \in SUBSET Competition /\ (status = "settled" \/ \A c \in ids : Held(c))
  BY DEF TypeOK, Held
<1>4. \A c \in ids : /\ Older(comp[c], New[c])
                     /\ New[c].status = status /\ New[c].outcome = comp[c].outcome
  <2>1. status \in Status /\ status \notin {"active", "upcoming"}
    BY DEF Status
  <2>. QED BY <1>3, <2>1, WithStatusOlder DEF TypeOK
<1>5. \A c \in ids : Closed(c) /\ ~Held(c) =>
          New[c].status = "settled" /\ New[c].outcome = comp[c].outcome
  BY <1>3, <1>4
<1>. HIDE DEF New, ids
<1>. QED BY <1>2, <1>3, <1>4, <1>5, PoolsKept, UpdatedRows

LEMMA WriteExpiredRows ==
    ASSUME TypeOK, NEW p \in Process, NEW a, WriteExpired(p, a)
    PROVE  Ages /\ Finished
<1>1. UNCHANGED pool /\ (UNCHANGED comp
         \/ comp' = UpdateRows(list[p], LAMBDA row : WithStatus(row, "settled")))
  BY DEF WriteExpired
<1>. QED BY <1>1, SameRows, ListedRows

LEMMA CancelRows ==
    ASSUME TypeOK, NEW a, CancelRetired(a) \/ CancelDuplicates(a)
    PROVE  Ages /\ Finished
<1>1. UNCHANGED pool /\ pc["boot"] # "writeExpired" /\ (UNCHANGED comp
         \/ comp' = UpdateRows(list["boot"], LAMBDA row : WithStatus(row, "cancelled")))
  BY DEF CancelRetired, CancelDuplicates, Cancel
<1>2. "boot" \in Process
  BY DEF Process
<1>. QED BY <1>1, <1>2, SameRows, ListedRows

LEMMA PromoteRows ==
    ASSUME TypeOK, NEW a, PromoteUpcoming(a)
    PROVE  Ages /\ Finished
<1>. DEFINE New == [c \in Competition |-> WithStatus(comp[c], "active")]
            ids == {c \in Competition : comp[c].status = "upcoming" /\ comp[c].phase = "open"}
<1>1. UNCHANGED pool /\ (UNCHANGED comp
         \/ comp' = UpdateRows(ids, LAMBDA row : WithStatus(row, "active")))
  BY DEF PromoteUpcoming
<1>2. CASE UNCHANGED comp
  BY <1>1, <1>2, SameRows
<1>3. CASE comp' = UpdateRows(ids, LAMBDA row : WithStatus(row, "active"))
  <2>1. comp' = [c \in Competition |-> IF c \in ids THEN New[c] ELSE comp[c]]
    BY <1>3 DEF UpdateRows
  <2>2. \A c \in ids : ~Closed(c) /\ Live(comp[c])
    BY DEF Closed, Live
  <2>3. \A c \in ids : Older(comp[c], New[c])
    <3>1. "active" \in Status /\ "active" # "upcoming"
      BY DEF Status
    <3>. QED BY <2>2, <3>1, WithStatusOlder DEF TypeOK
  <2>4. ids \in SUBSET Competition
    OBVIOUS
  <2>. HIDE DEF New, ids
  <2>. QED BY <1>1, <2>1, <2>2, <2>3, <2>4, PoolsKept, UpdatedRows
<1>. QED BY <1>1, <1>2, <1>3

LEMMA InsertRows ==
    ASSUME TypeOK, NEW row \in Row, Accepted(row), InsertRow(row)
    PROVE  Inserts(row) /\ Finished
<1>. DEFINE S == Swept(row.sector)
<1>1. Free \in Competition /\ comp[Free].status = "none"
  BY FreeRow DEF Accepted
<1>2. comp' = [S EXCEPT ![Free] = AutoStatus(row)] /\ pool' = [pool EXCEPT ![Free] = "pending"]
  BY DEF InsertRow
<1>3. /\ S \in [Competition -> Row] /\ \A c \in Competition : Older(comp[c], S[c])
      /\ \A c \in Competition : comp[c].status = "settled" => S[c] = comp[c]
  BY SweptRows
<1>4. AutoStatus(row) \in Row
  BY AutoStatusRow
<1>. HIDE DEF S
<1>5. comp' \in [Competition -> Row] /\ pool' \in Tables
  BY <1>1, <1>2, <1>3, <1>4 DEF TypeOK, Tables
<1>6. \A c \in Competition : comp'[c] = (IF c = Free THEN AutoStatus(row) ELSE S[c])
                             /\ (c # Free => pool'[c] = pool[c])
  BY <1>1, <1>2, <1>3 DEF TypeOK
<1>7. Finished
  BY <1>1, <1>3, <1>6 DEF Finished, Closed
<1>8. Inserts(row)
  BY <1>1, <1>3, <1>5, <1>6 DEF Inserts
<1>. QED BY <1>7, <1>8

LEMMA MarkRows ==
    ASSUME TypeOK, Control, NEW p \in Process, NEW o \in Outcome, NEW a, MarkSettled(p, o, a)
    PROVE  Ages /\ Finished
<1>. DEFINE k == Item(p)
            row == WithOutcome(comp[k], o)
<1>1. k \in Competition /\ Held(k)
  BY ItemListed DEF MarkSettled
<1>2. UNCHANGED pool /\ (UNCHANGED comp \/ comp' = [comp EXCEPT ![k] = row])
  BY DEF MarkSettled
<1>3. Older(comp[k], row)
  BY <1>1, WithOutcomeOlder DEF TypeOK, Outcomes
<1>. HIDE DEF k, row
<1>. QED BY <1>1, <1>2, <1>3, SameRows, OneRow, PoolsKept

\* settle_competition_pool settles the competition with its open pool.
LEMMA PaidRows ==
    ASSUME TypeOK, NEW k \in Competition, pool' = Paid(k), comp' = PaidRow(k)
    PROVE  Ages /\ Finished
<1>. DEFINE row == WithStatus(comp[k], "settled")
<1>1. CASE PoolOpen(k)
  <2>1. comp' = [comp EXCEPT ![k] = row] /\ pool' = [pool EXCEPT ![k] = "settled"]
    BY <1>1 DEF Paid, PaidRow
  <2>2. "settled" \in Status /\ Older(comp[k], row)
    BY WithStatusOlder DEF TypeOK, Status
  <2>3. ~Closed(k)
    BY <1>1 DEF PoolOpen, Closed
  <2>. HIDE DEF row
  <2>4. pool' \in Tables /\ \A c \in Competition : Closed(c) /\ ~Held(c) => pool'[c] = pool[c]
    BY <2>1, <2>3 DEF TypeOK, Tables
  <2>. QED BY <2>1, <2>2, <2>3, <2>4, OneRow
<1>2. CASE ~PoolOpen(k)
  BY <1>2, SameRows DEF Paid, PaidRow
<1>. QED BY <1>1, <1>2

LEMMA SettlePoolRows ==
    ASSUME TypeOK, Control, NEW p \in Process, NEW a,
           SettlePool(p, a) \/ (p = "settle" /\ RetrySettlePool(a))
    PROVE  Ages /\ Finished
<1>. DEFINE k == Item(p)
<1>1. pc[p] \in {"settlePool", "retry"}
  BY DEF SettlePool, RetrySettlePool, CallSettlePool
<1>2. k \in Competition
  BY <1>1, ItemListed
<1>3. (pool' = Paid(k) /\ comp' = PaidRow(k)) \/ UNCHANGED <<pool, comp>>
  BY DEF SettlePool, RetrySettlePool, CallSettlePool
<1>. HIDE DEF k
<1>. QED BY <1>2, <1>3, SameRows, PaidRows

LEMMA ForceEmptyRows ==
    ASSUME TypeOK, Control, NEW a, ForceEmpty(a)
    PROVE  Ages /\ Finished
<1>1. "settle" \in Process
  BY DEF Process
<1>2. Item("settle") \in Competition /\ Held(Item("settle"))
  BY <1>1, ItemListed DEF ForceEmpty
<1>3. UNCHANGED comp /\ (UNCHANGED pool \/ pool' = [pool EXCEPT ![Item("settle")] = "settled"])
  BY DEF ForceEmpty
<1>4. pool' \in Tables /\ \A c \in Competition : Closed(c) /\ ~Held(c) => pool'[c] = pool[c]
  BY <1>2, <1>3 DEF TypeOK, Tables
<1>. QED BY <1>3, <1>4, OlderSelf DEF TypeOK, Ages, Finished, Closed

LEMMA TouchedRows ==
    ASSUME TypeOK, NEW k \in Competition, TouchRow(k) \/ Begin(k) \/ End(k)
    PROVE  Ages /\ Finished
<1>1. UNCHANGED pool /\ comp[k] \in Row
  BY DEF TouchRow, Begin, End, TypeOK
<1>2. CASE TouchRow(k)
  <2>1. comp' = [comp EXCEPT ![k] = AutoStatus(comp[k])]
    BY <1>2 DEF TouchRow
  <2>2. Closed(k) => AutoStatus(comp[k]) = comp[k]
    BY <1>1, AutoStatusRow DEF Closed
  <2>. QED BY <1>1, <2>1, <2>2, AutoStatusOlder, OneRow, PoolsKept DEF Closed
<1>3. CASE Begin(k) \/ End(k)
  <2>1. PICK phase \in {"open", "ended"} :
           comp' = [comp EXCEPT ![k] = [comp[k] EXCEPT !.phase = phase]] /\ comp[k].phase # "ended"
    BY <1>3 DEF Begin, End
  <2>. DEFINE row == [comp[k] EXCEPT !.phase = phase]
  <2>2. Older(comp[k], row) /\ row.status = comp[k].status /\ row.outcome = comp[k].outcome
    BY <1>1, <2>1, PhaseOlder
  <2>3. comp' = [comp EXCEPT ![k] = row]
    BY <2>1
  <2>. HIDE DEF row
  <2>. QED BY <1>1, <2>2, <2>3, OneRow, PoolsKept DEF Closed
<1>. QED BY <1>2, <1>3

-----------------------------------------------------------------------------
(* What a step does to the processes *)

ItemLabel == {"mark", "settlePool", "retry", "checkEmpty", "forceEmpty"}
SlotLabel == {"insert", "insertAgain"}

\* p goes on at a label, with these ids in its list and these slots to seed.
Goes(p, label, ids, slots) ==
    /\ Goto(p, label) /\ label \in Label
    /\ list' = [list EXCEPT ![p] = ids] /\ ids \in SUBSET Competition
    /\ fill' = [fill EXCEPT ![p] = slots] /\ slots \in SUBSET Slot
    /\ label \in ItemLabel => ids # {}
    /\ label \in SlotLabel => slots # {}
    /\ p = "boot" => label \in BootLabel /\ slots = {}
    /\ p = "resolve" => label \in {"idle", "mark", "settlePool"} /\ slots = {}
    /\ \A c \in ids : Held(c) \/ ~Closed(c)

Stands ==
    /\ pc \in [Process -> Label] /\ list \in [Process -> SUBSET Competition]
    /\ fill \in [Process -> SUBSET Slot]

\* Nobody takes up what is settled.
Untouched == \A c \in Competition : Closed(c) /\ ~Held(c) => ~Held(c)'

LEMMA Going ==
    ASSUME TypeOK, Control, NEW p \in Process, NEW label, NEW ids, NEW slots,
           Goes(p, label, ids, slots)
    PROVE  Stands' /\ Control' /\ Untouched
<1>1. \A q \in Process : /\ pc'[q] = (IF q = p THEN label ELSE pc[q])
                         /\ list'[q] = (IF q = p THEN ids ELSE list[q])
                         /\ fill'[q] = (IF q = p THEN slots ELSE fill[q])
  BY DEF Goes, Goto, TypeOK
<1>2. Stands'
  BY DEF Goes, Goto, TypeOK, Stands
<1>3. ListHeld'
  BY <1>1 DEF Goes, Control, ListHeld, ItemLabel
<1>4. SlotLeft'
  BY <1>1 DEF Goes, Control, SlotLeft, SlotLabel
<1>5. NoSeeding'
  <2>1. "boot" \in Process /\ "resolve" \in Process
    BY DEF Process
  <2>. QED BY <1>1, <2>1 DEF Goes, Control, NoSeeding
<1>6. Untouched
  BY <1>1 DEF Goes, Untouched, Held
<1>. QED BY <1>2, <1>3, <1>4, <1>5, <1>6 DEF Control

LEMMA Staying ==
    ASSUME TypeOK, Control, UNCHANGED <<pc, list, fill>>
    PROVE  Stands' /\ Control' /\ Untouched
  BY DEF TypeOK, Stands, Control, ListHeld, SlotLeft, NoSeeding, Untouched, Held

\* The rest of the service's memory has its types.
Memory ==
    /\ isSeeding \in BOOLEAN /\ isSettling \in BOOLEAN
    /\ cooldown \subseteq Slot
    /\ seen \in [Competition -> Outcomes]
    /\ cats \in [Process -> SUBSET Sector]
    /\ guessed \in [Process -> BOOLEAN]
    /\ freed \subseteq Sector \X (Horizon \union {OldHorizon})

Counted == faults \in 0..MaxFaults /\ calls \in 0..MaxCalls

LEMMA Typed ==
    ASSUME comp' \in [Competition -> Row], pool' \in Tables, Stands', Memory', Counted'
    PROVE  TypeOK'
  BY DEF TypeOK, Tables, Stands, Memory, Counted, Outcomes

LEMMA Counting ==
    ASSUME TypeOK, (\E a : Answered(a)) \/ Called \/ UNCHANGED <<faults, calls>>
                   \/ (faults < MaxFaults /\ faults' = faults + 1 /\ UNCHANGED calls)
    PROVE  Counted'
  BY ConstantsAssumption DEF TypeOK, Answered, Called, Counted, ConstantsAssumption

LEMMA MemoryKept ==
    ASSUME TypeOK, UNCHANGED <<memory, seen, cats, guessed>>
    PROVE  Memory'
  BY DEF TypeOK, Memory, memory, Outcomes

\* An await of p that seeds nothing: it goes on somewhere, and the categories
\* and slots stay as they are.
Awaits(p) ==
    /\ \E label, ids : Goes(p, label, ids, fill[p])
    /\ UNCHANGED <<isSeeding, isSettling, cooldown, cats, fill, guessed>>
    /\ Memory' /\ Counted'

LEMMA Keeps ==
    ASSUME TypeOK, NEW p \in Process
    PROVE  /\ UNCHANGED list <=> list' = [list EXCEPT ![p] = list[p]]
           /\ UNCHANGED fill <=> fill' = [fill EXCEPT ![p] = fill[p]]
           /\ list[p] \in SUBSET Competition /\ fill[p] \in SUBSET Slot
           /\ pc[p] # "writeExpired" => \A c \in list[p] : Held(c)
  BY DEF TypeOK, Held

LEMMA Afterwards ==
    ASSUME TypeOK, Control, NEW p \in Process \ {"resolve"}
    PROVE  /\ AfterSettle(p) \in {"insertAgain", "readRetired", "category", "readPools", "readLive"}
           /\ AfterSettle(p) = "insertAgain" => fill[p] # {}
           /\ p = "boot" => AfterSettle(p) = "readRetired"
<1>1. p \in {"boot", "seed", "settle", "reset"}
  BY DEF Process
<1>2. fill["boot"] = {}
  BY DEF Control, NoSeeding
<1>3. CASE fill[p] # {} /\ p # "boot"
  BY <1>3 DEF AfterSettle
<1>4. CASE fill[p] = {}
  BY <1>1, <1>4 DEF AfterSettle
<1>. QED BY <1>2, <1>3, <1>4

\* Where a step of p may go when p does not insert and keeps its list or a part
\* of it.
LEMMA GoesOn ==
    ASSUME TypeOK, Control, NEW p \in Process, NEW label \in Label, NEW ids \in SUBSET Competition,
           Goto(p, label), list' = [list EXCEPT ![p] = ids], UNCHANGED fill,
           label \in ItemLabel => ids # {}, label \in SlotLabel => fill[p] # {},
           p = "boot" => label \in BootLabel,
           p = "resolve" => label \in {"idle", "mark", "settlePool"},
           \A c \in ids : Held(c) \/ ~Closed(c)
    PROVE  Goes(p, label, ids, fill[p])
<1>1. p = "boot" \/ p = "resolve" => fill[p] = {}
  BY DEF Control, NoSeeding
<1>. QED BY <1>1, Keeps DEF Goes

-----------------------------------------------------------------------------
(* ... action by action *)

LEMMA CalledFrom ==
    ASSUME TypeOK, Control, NEW p \in Process, pc[p] \in {"settleExpired", "readExpired", "writeExpired"}
    PROVE  p \in Process \ {"resolve"}
  BY DEF Control, NoSeeding

LEMMA AutoSettleAwaits ==
    ASSUME TypeOK, Control, NEW p \in Process, NEW a,
           SettleExpired(p, a) \/ ReadExpired(p, a) \/ WriteExpired(p, a)
    PROVE  Awaits(p)
<1>1. p \in Process \ {"resolve"}
  BY CalledFrom DEF SettleExpired, ReadExpired, WriteExpired
<1>2. /\ AfterSettle(p) \in {"insertAgain", "readRetired", "category", "readPools", "readLive"}
      /\ AfterSettle(p) = "insertAgain" => fill[p] # {}
      /\ p = "boot" => AfterSettle(p) = "readRetired"
  BY <1>1, Afterwards
<1>3. Answered(a) /\ UNCHANGED <<memory, seen, cats, guessed, fill>>
  BY DEF SettleExpired, ReadExpired, WriteExpired
<1>4. Memory' /\ Counted'
  BY <1>3, MemoryKept, Counting
<1>5. PICK label, ids : /\ Goto(p, label) /\ list' = [list EXCEPT ![p] = ids]
                        /\ label \in {AfterSettle(p), "readExpired", "writeExpired"}
                        /\ ids \in {{}, ExpiredIds} \/ (ids = list[p] /\ pc[p] # "writeExpired")
  <2>1. CASE SettleExpired(p, a)
    BY <2>1, Keeps DEF SettleExpired
  <2>2. CASE ReadExpired(p, a)
    BY <2>2 DEF ReadExpired
  <2>3. CASE WriteExpired(p, a)
    BY <2>3 DEF WriteExpired
  <2>. QED BY <2>1, <2>2, <2>3
<1>6. ids \in SUBSET Competition /\ \A c \in ids : Held(c) \/ ~Closed(c)
  BY <1>5, Keeps DEF ExpiredIds, Expired, Closed
<1>7. label \in Label /\ label \notin ItemLabel /\ (label \in SlotLabel => fill[p] # {})
      /\ (p = "boot" => label \in BootLabel)
  BY <1>2, <1>5 DEF Label, ItemLabel, SlotLabel, BootLabel
<1>8. Goes(p, label, ids, fill[p])
  BY <1>1, <1>3, <1>5, <1>6, <1>7, GoesOn
<1>. QED BY <1>3, <1>4, <1>8 DEF Awaits, memory

LEMMA CleanUpAwaits ==
    ASSUME TypeOK, Control, NEW a,
           ReadRetired(a) \/ CancelRetired(a) \/ ReadDuplicates(a) \/ CancelDuplicates(a)
    PROVE  Awaits("boot")
<1>1. "boot" \in Process
  BY DEF Process
<1>2. Answered(a) /\ UNCHANGED <<memory, seen, cats, guessed, fill>>
  BY DEF ReadRetired, CancelRetired, ReadDuplicates, CancelDuplicates, Cancel
<1>3. Memory' /\ Counted'
  BY <1>2, MemoryKept, Counting
<1>4. PICK label, ids : /\ Goto("boot", label) /\ list' = [list EXCEPT !["boot"] = ids]
                        /\ label \in {"idle", "readDuplicates", "cancelRetired", "cancelDuplicates"}
                        /\ ids \in SUBSET LiveIds
  <2>1. CASE ReadRetired(a)
    BY <2>1 DEF ReadRetired
  <2>2. CASE ReadDuplicates(a)
    BY <2>2 DEF ReadDuplicates
  <2>3. CASE CancelRetired(a) \/ CancelDuplicates(a)
    BY <2>3 DEF CancelRetired, CancelDuplicates, Cancel
  <2>. QED BY <2>1, <2>2, <2>3
<1>5. ids \in SUBSET Competition /\ \A c \in ids : Held(c) \/ ~Closed(c)
  BY <1>4 DEF LiveIds, Live, Closed
<1>6. label \in Label /\ label \notin ItemLabel /\ label \notin SlotLabel /\ label \in BootLabel
  BY <1>4 DEF Label, ItemLabel, SlotLabel, BootLabel
<1>7. Goes("boot", label, ids, fill["boot"])
  BY <1>1, <1>2, <1>4, <1>5, <1>6, GoesOn
<1>. QED BY <1>2, <1>3, <1>7 DEF Awaits, memory

LEMMA MarkAwaits ==
    ASSUME TypeOK, Control, NEW p \in Process, NEW o, NEW a, MarkSettled(p, o, a)
    PROVE  Awaits(p)
<1>1. Answered(a) /\ UNCHANGED <<memory, seen, cats, guessed, fill>> /\ pc[p] = "mark"
  BY DEF MarkSettled
<1>2. Memory' /\ Counted'
  BY <1>1, MemoryKept, Counting
<1>3. p # "boot" /\ list[p] # {}
  BY <1>1 DEF Control, NoSeeding, ListHeld, BootLabel
<1>4. PICK label, ids : /\ Goto(p, label) /\ list' = [list EXCEPT ![p] = ids]
                        /\ label = "idle" \/ (label = "settlePool" /\ ids = list[p])
                        /\ ids \in {list[p], {}}
  BY Keeps DEF MarkSettled
<1>5. ids \in SUBSET Competition /\ \A c \in ids : Held(c) \/ ~Closed(c)
  BY <1>1, <1>4, Keeps
<1>6. label \in Label /\ (label \in ItemLabel => ids # {}) /\ label \notin SlotLabel
      /\ label \in {"idle", "mark", "settlePool"}
  BY <1>3, <1>4 DEF Label, ItemLabel, SlotLabel
<1>7. Goes(p, label, ids, fill[p])
  BY <1>1, <1>3, <1>4, <1>5, <1>6, GoesOn
<1>. QED BY <1>1, <1>2, <1>7 DEF Awaits, memory

LEMMA ReadListAwaits ==
    ASSUME TypeOK, Control, NEW p \in Process, NEW a,
           \/ p = "settle" /\ ReadPools(a)
           \/ p = "reset" /\ ReadLive(a)
    PROVE  Awaits(p)
<1>1. Answered(a) /\ UNCHANGED <<memory, cats, guessed, fill>>
  BY DEF ReadPools, ReadLive
<1>2. PICK label, ids : /\ Goto(p, label) /\ list' = [list EXCEPT ![p] = ids]
                        /\ label \in {"promote", "category"} \/ (label = "mark" /\ ids # {})
                        /\ ids \in {{}, Unsettled, LiveIds}
  BY DEF ReadPools, ReadLive
<1>3. ids \in SUBSET Competition /\ \A c \in ids : Held(c) \/ ~Closed(c)
  BY <1>2 DEF Unsettled, PoolOpen, LiveIds, Live, Closed
<1>4. label \in Label /\ (label \in ItemLabel => ids # {}) /\ label \notin SlotLabel
  BY <1>2 DEF Label, ItemLabel, SlotLabel
<1>5. Goes(p, label, ids, fill[p])
  BY <1>1, <1>2, <1>3, <1>4, GoesOn
<1>6. seen' \in [Competition -> Outcomes]
  <2>1. \A c \in Competition : comp[c].outcome \in Outcomes
    BY RowFields DEF TypeOK
  <2>2. CASE ReadPools(a)
    BY <2>1, <2>2 DEF ReadPools, Outcomes
  <2>3. CASE ReadLive(a)
    BY <2>3 DEF ReadLive, TypeOK, Outcomes
  <2>. QED BY <2>2, <2>3
<1>7. Memory' /\ Counted'
  <2>1. Counted'
    BY <1>1, Counting
  <2>. QED BY <1>1, <1>6, <2>1 DEF TypeOK, Memory, memory
<1>. QED BY <1>1, <1>5, <1>7 DEF Awaits, memory

\* The end of the loop's body.
LEMMA NextItemAwaits ==
    ASSUME TypeOK, Control, NEW p \in Process, pc[p] \in ItemLabel, NEW a, Answered(a), NextItem(p),
           UNCHANGED <<isSeeding, isSettling, cooldown, cats, fill, guessed>>
    PROVE  Awaits(p)
<1>. DEFINE k == Item(p)
            rest == list[p] \ {k}
            label == CASE rest # {} -> "mark"
                       [] p = "settle" -> "promote"
                       [] p = "reset" -> "category"
                       [] OTHER -> "idle"
<1>1. k \in Competition /\ p # "boot"
  BY ItemListed DEF ItemLabel, Control, NoSeeding, BootLabel
<1>2. list' = [list EXCEPT ![p] = rest] /\ Goto(p, label)
  BY DEF NextItem
<1>3. \/ label = "mark" /\ rest # {}
      \/ label \in {"promote", "category"} /\ p # "resolve"
      \/ label = "idle"
  OBVIOUS
<1>4. rest \in SUBSET Competition /\ \A c \in rest : Held(c)
  BY Keeps DEF ItemLabel
<1>5. freed' \subseteq Sector \X (Horizon \union {OldHorizon})
  <2>1. Frees(k) \subseteq Sector \X (Horizon \union {OldHorizon})
    BY <1>1, RowFields DEF Frees, TypeOK
  <2>2. freed' \in {freed, freed \union Frees(k)}
    BY DEF NextItem
  <2>. QED BY <2>1, <2>2 DEF TypeOK
<1>6. seen' \in [Competition -> Outcomes]
  BY <1>1 DEF NextItem, TypeOK, Outcomes
<1>. HIDE DEF k, rest, label
<1>7. label \in Label /\ (label \in ItemLabel => rest # {}) /\ label \notin SlotLabel
      /\ (p = "resolve" => label \in {"idle", "mark", "settlePool"})
  BY <1>3 DEF Label, ItemLabel, SlotLabel
<1>8. Goes(p, label, rest, fill[p])
  BY <1>1, <1>2, <1>4, <1>7, GoesOn
<1>9. Memory' /\ Counted'
  <2>1. Counted'
    BY Counting
  <2>. QED BY <1>5, <1>6, <2>1 DEF TypeOK, Memory
<1>. QED BY <1>8, <1>9 DEF Awaits

\* A failed call: the run stays with its item.
LEMMA SameItemAwaits ==
    ASSUME TypeOK, Control, NEW label \in {"retry", "checkEmpty", "forceEmpty"}, NEW a, Answered(a),
           pc["settle"] \in ItemLabel, Goto("settle", label), UNCHANGED <<list, freed, seen>>,
           UNCHANGED <<isSeeding, isSettling, cooldown, cats, fill, guessed>>
    PROVE  Awaits("settle")
<1>1. "settle" \in Process /\ list["settle"] # {}
  BY DEF Process, Control, ListHeld, ItemLabel
<1>2. label \in Label /\ label \notin SlotLabel
  BY DEF Label, SlotLabel
<1>3. list' = [list EXCEPT !["settle"] = list["settle"]] /\ list["settle"] \in SUBSET Competition
      /\ \A c \in list["settle"] : Held(c) \/ ~Closed(c)
  BY <1>1, Keeps DEF ItemLabel
<1>4. Goes("settle", label, list["settle"], fill["settle"])
  BY <1>1, <1>2, <1>3, GoesOn
<1>5. Memory' /\ Counted'
  BY MemoryKept, Counting DEF memory
<1>. QED BY <1>4, <1>5 DEF Awaits

LEMMA SettlePoolAwaits ==
    ASSUME TypeOK, Control, NEW p \in Process, NEW a, NEW empty,
           \/ SettlePool(p, a)
           \/ p = "settle" /\ (RetrySettlePool(a) \/ CheckEmpty(empty, a) \/ ForceEmpty(a))
    PROVE  Awaits(p)
<1>1. /\ Answered(a) /\ pc[p] \in ItemLabel
      /\ UNCHANGED <<isSeeding, isSettling, cooldown, cats, fill, guessed>>
  BY DEF SettlePool, RetrySettlePool, CallSettlePool, CheckEmpty, ForceEmpty, ItemLabel
<1>2. \/ NextItem(p)
      \/ p = "settle" /\ UNCHANGED <<list, freed, seen>>
         /\ \E label \in {"retry", "checkEmpty", "forceEmpty"} : Goto("settle", label)
  BY DEF SettlePool, RetrySettlePool, CallSettlePool, CheckEmpty, ForceEmpty
<1>3. CASE NextItem(p)
  BY <1>1, <1>3, NextItemAwaits
<1>4. CASE p = "settle" /\ UNCHANGED <<list, freed, seen>>
           /\ \E label \in {"retry", "checkEmpty", "forceEmpty"} : Goto("settle", label)
  BY <1>1, <1>4, SameItemAwaits
<1>. QED BY <1>2, <1>3, <1>4

-----------------------------------------------------------------------------
(* Seeding *)

Busy(p) == cats[p] # {} \/ fill[p] # {}

\* Of the two runs that respect isSeeding at most one has something to seed,
\* and it holds the flag.
Exclusive ==
    /\ Busy("seed") \/ Busy("settle") => isSeeding
    /\ ~(Busy("seed") /\ Busy("settle"))

\* A run that had slots keeps some of them, or gives them up.
FewerSlots ==
    \A p \in {"seed", "settle"} :
        fill'[p] \subseteq fill[p] /\ (guessed[p] => guessed'[p] \/ fill'[p] = {})

LEMMA AgedSlots ==
    ASSUME TypeOK, SeedsOnlyMissing, Ages, FewerSlots
    PROVE  SeedsOnlyMissing'
<1>1. SUFFICES ASSUME NEW p \in {"seed", "settle"}, NEW slot \in fill'[p], ~guessed'[p],
                      NEW c \in Competition, Running(comp'[c]), InSlot(comp'[c], slot)
               PROVE  comp'[c].forced
  BY DEF SeedsOnlyMissing
<1>2. slot \in fill[p] /\ ~guessed[p]
  BY <1>1 DEF FewerSlots
<1>3. Running(comp[c]) /\ InSlot(comp[c], slot) /\ comp'[c].forced = comp[c].forced
  BY <1>1 DEF Ages, Older, InSlot
<1>. QED BY <1>2, <1>3 DEF SeedsOnlyMissing

\* A new row is forced, or lies in no slot that is to be seeded.
LEMMA InsertedSlots ==
    ASSUME TypeOK, SeedsOnlyMissing, NEW row \in Row, Inserts(row), FewerSlots,
           \A p \in {"seed", "settle"} : \A slot \in fill'[p] : row.forced \/ ~InSlot(row, slot)
    PROVE  SeedsOnlyMissing'
<1>1. SUFFICES ASSUME NEW p \in {"seed", "settle"}, NEW slot \in fill'[p], ~guessed'[p],
                      NEW c \in Competition, Running(comp'[c]), InSlot(comp'[c], slot)
               PROVE  comp'[c].forced
  BY DEF SeedsOnlyMissing
<1>2. slot \in fill[p] /\ ~guessed[p]
  BY <1>1 DEF FewerSlots
<1>3. PICK n \in Competition : /\ comp'[n] = AutoStatus(row)
                               /\ \A d \in Competition : d # n => Older(comp[d], comp'[d])
  BY DEF Inserts
<1>4. CASE c = n
  <2>1. InSlot(row, slot) /\ comp'[c].forced = row.forced
    BY <1>1, <1>3, <1>4, AutoStatusRow DEF InSlot
  <2>. QED BY <2>1
<1>5. CASE c # n
  <2>1. Running(comp[c]) /\ InSlot(comp[c], slot) /\ comp'[c].forced = comp[c].forced
    BY <1>1, <1>3, <1>5 DEF Older, InSlot
  <2>. QED BY <1>2, <2>1 DEF SeedsOnlyMissing
<1>. QED BY <1>4, <1>5

Inv == TypeOK /\ Control /\ Exclusive /\ SeedsOnlyMissing

\* What every step leaves.
Safe == Inv' /\ Finished /\ Untouched

LEMMA Seeded ==
    ASSUME Exclusive, UNCHANGED <<isSeeding, cats, fill>>
    PROVE  Exclusive'
  BY DEF Exclusive, Busy

LEMMA AwaitsSafe ==
    ASSUME Inv, NEW p \in Process, Awaits(p), Ages, Finished
    PROVE  Safe
<1>1. Stands' /\ Control' /\ Untouched
  BY Going DEF Awaits, Inv
<1>2. TypeOK'
  BY <1>1, Typed DEF Awaits, Ages
<1>3. Exclusive'
  BY Seeded DEF Awaits, Inv
<1>4. FewerSlots
  BY DEF Awaits, FewerSlots
<1>5. SeedsOnlyMissing'
  BY <1>4, AgedSlots DEF Inv
<1>. QED BY <1>1, <1>2, <1>3, <1>5 DEF Inv, Safe

\* A step of seedCategory, whatever it does to the tables.
LEMMA Continuing ==
    ASSUME Inv, NEW p \in {"seed", "settle", "reset"}, Busy(p), pc[p] # "writeExpired",
           NEW a, Answered(a), NEW slots \in SUBSET Slot, NEW sectors \in SUBSET Sector, NEW guess \in BOOLEAN,
           Continue(p, slots, sectors, guess), UNCHANGED <<list, seen>>, cooldown' \subseteq Slot
    PROVE  /\ Stands' /\ Control' /\ Untouched /\ Memory' /\ Counted' /\ Exclusive'
           /\ \A q \in Process :
                /\ fill'[q] = (IF q = p THEN slots ELSE fill[q])
                /\ guessed'[q] = (IF q = p THEN guess /\ slots # {} ELSE guessed[q])
<1>. DEFINE label == IF slots # {} THEN "insert"
                     ELSE IF slots = {} /\ sectors = {} THEN "idle" ELSE "category"
<1>1. p \in Process /\ "seed" \in Process /\ "settle" \in Process /\ TypeOK /\ Control
  BY DEF Process, Inv
<1>2. /\ fill' = [fill EXCEPT ![p] = slots] /\ cats' = [cats EXCEPT ![p] = sectors]
      /\ guessed' = [guessed EXCEPT ![p] = guess /\ slots # {}]
      /\ Goto(p, label)
      /\ isSeeding' = (isSeeding /\ ~(slots = {} /\ sectors = {} /\ Releases(p)))
      /\ isSettling' = (isSettling /\ ~(slots = {} /\ sectors = {} /\ p = "settle"))
      /\ freed' \in {freed, {}}
  BY DEF Continue
<1>3. Goes(p, label, list[p], slots)
  <2>1. label \in Label /\ label \notin ItemLabel /\ (label \in SlotLabel => slots # {})
    BY DEF Label, ItemLabel, SlotLabel
  <2>2. list' = [list EXCEPT ![p] = list[p]] /\ list[p] \in SUBSET Competition
        /\ \A c \in list[p] : Held(c)
    BY <1>1, Keeps
  <2>. HIDE DEF label
  <2>. QED BY <1>2, <2>1, <2>2 DEF Goes
<1>4. Stands' /\ Control' /\ Untouched
  BY <1>1, <1>3, Going
<1>5. Counted'
  BY <1>1, Counting
<1>6. \A q \in Process : /\ fill'[q] = (IF q = p THEN slots ELSE fill[q])
                         /\ cats'[q] = (IF q = p THEN sectors ELSE cats[q])
                         /\ guessed'[q] = (IF q = p THEN guess /\ slots # {} ELSE guessed[q])
  BY <1>1, <1>2 DEF TypeOK
<1>7. Memory'
  <2>1. cats' \in [Process -> SUBSET Sector] /\ guessed' \in [Process -> BOOLEAN]
    BY <1>1, <1>2 DEF TypeOK
  <2>2. freed' \subseteq Sector \X (Horizon \union {OldHorizon})
    BY <1>1, <1>2 DEF TypeOK
  <2>. QED BY <1>1, <1>2, <2>1, <2>2 DEF Memory, TypeOK, Outcomes
<1>8. Exclusive'
  <2>1. CASE p = "reset"
    <3>1. isSeeding' = isSeeding
      BY <1>1, <1>2, <2>1 DEF Releases, TypeOK
    <3>. QED BY <1>1, <1>6, <2>1, <3>1 DEF Exclusive, Busy, Inv
  <2>2. CASE p = "seed"
    <3>1. isSeeding /\ cats["settle"] = {} /\ fill["settle"] = {}
      BY <2>2 DEF Inv, Exclusive, Busy
    <3>. QED BY <1>1, <1>2, <1>6, <2>2, <3>1 DEF Exclusive, Busy
  <2>3. CASE p = "settle"
    <3>1. isSeeding /\ cats["seed"] = {} /\ fill["seed"] = {}
      BY <2>3 DEF Inv, Exclusive, Busy
    <3>. QED BY <1>1, <1>2, <1>6, <2>3, <3>1 DEF Exclusive, Busy
  <2>. QED BY <2>1, <2>2, <2>3
<1>. QED BY <1>4, <1>5, <1>6, <1>7, <1>8

\* getMissingHorizonSlots gives the slots nobody runs in, or says that it guessed.
LEMMA ReadMissingSafe ==
    ASSUME Inv, NEW p \in Process, NEW s \in Sector, NEW a, ReadMissing(p, s, a)
    PROVE  Safe
<1>. DEFINE missing == {h \in Horizon : a # "ok" \/
                          ~ \E c \in Competition : Running(comp[c]) /\ InSlot(comp[c], <<s, h>>)}
            cooling == IF p = "settle" THEN cooldown \ {f \in freed : f[1] = s} ELSE cooldown
            slots == ({s} \X missing) \ cooling
            guess == a # "ok"
<1>1. TypeOK /\ Control /\ Exclusive /\ SeedsOnlyMissing
  BY DEF Inv
<1>2. /\ pc[p] = "category" /\ s \in cats[p] /\ Answered(a) /\ cooldown' = cooling
      /\ Continue(p, slots, cats[p] \ {s}, guess) /\ UNCHANGED <<comp, pool, list, seen>>
  BY DEF ReadMissing
<1>3. p \in {"seed", "settle", "reset"} /\ Busy(p) /\ pc[p] # "writeExpired"
  BY <1>1, <1>2 DEF Control, NoSeeding, BootLabel, Process, Busy
<1>4. cooling \subseteq Slot /\ slots \in SUBSET Slot /\ cats[p] \ {s} \in SUBSET Sector
      /\ guess \in BOOLEAN
  BY <1>1 DEF TypeOK, Slot
<1>5. \A slot \in slots : guess \/ \A c \in Competition : ~(Running(comp[c]) /\ InSlot(comp[c], slot))
  <2>1. SUFFICES ASSUME NEW slot \in slots, ~guess, NEW c \in Competition,
                        Running(comp[c]), InSlot(comp[c], slot)
                 PROVE  FALSE
    OBVIOUS
  <2>2. slot = <<s, slot[2]>> /\ slot[2] \in missing
    OBVIOUS
  <2>. QED BY <2>1, <2>2
<1>. DEFINE left == cats[p] \ {s}
<1>6. /\ Answered(a) /\ cooldown' \subseteq Slot /\ UNCHANGED <<list, seen>>
      /\ Continue(p, slots, left, guess)
      /\ slots \in SUBSET Slot /\ left \in SUBSET Sector /\ guess \in BOOLEAN
  BY <1>2, <1>4
<1>. HIDE DEF missing, cooling, slots, guess, left
<1>7. /\ Stands' /\ Control' /\ Untouched /\ Memory' /\ Counted' /\ Exclusive'
      /\ \A q \in Process :
                /\ fill'[q] = (IF q = p THEN slots ELSE fill[q])
                /\ guessed'[q] = (IF q = p THEN guess /\ slots # {} ELSE guessed[q])
  BY <1>3, <1>6, Continuing
<1>8. SeedsOnlyMissing'
  <2>1. SUFFICES ASSUME NEW q \in {"seed", "settle"}, NEW slot \in fill'[q], ~guessed'[q],
                        NEW c \in Competition, Running(comp[c]), InSlot(comp[c], slot)
                 PROVE  comp[c].forced
    BY <1>2 DEF SeedsOnlyMissing
  <2>2. q \in Process
    BY DEF Process
  <2>3. CASE q = p
    BY <1>5, <1>7, <2>1, <2>2, <2>3
  <2>4. CASE q # p
    BY <1>1, <1>7, <2>1, <2>2, <2>4 DEF SeedsOnlyMissing
  <2>. QED BY <2>3, <2>4
<1>9. Ages /\ Finished
  BY <1>1, <1>2, SameRows
<1>10. TypeOK'
  BY <1>7, <1>9, Typed DEF Ages
<1>. QED BY <1>7, <1>8, <1>9, <1>10 DEF Inv, Safe

LEMMA SeededRowIn ==
    ASSUME NEW slot \in Slot, NEW p
    PROVE  /\ SeededRow(slot, p) \in Row
           /\ SeededRow(slot, p).sector = slot[1] /\ SeededRow(slot, p).horizon = slot[2]
           /\ p = "reset" => SeededRow(slot, p).forced
  BY DEF SeededRow, Row, Status, Slot

\* An insert fills the slot that it strikes off; only a reset fills a slot that
\* another run has still before it.
LEMMA InsertSafe ==
    ASSUME Inv, NEW p \in Process, NEW a, Answered(a), pc[p] \in SlotLabel, Insert(p, a)
    PROVE  Safe
<1>. DEFINE slot == NextSlot(p)
            row == SeededRow(slot, p)
            slots == fill[p] \ {slot}
<1>1. TypeOK /\ Control /\ Exclusive /\ SeedsOnlyMissing
  BY DEF Inv
<1>2. slot \in fill[p] /\ slot \in Slot /\ p \in {"seed", "settle", "reset"}
  BY <1>1, SlotListed DEF SlotLabel
<1>3. row \in Row /\ row.sector = slot[1] /\ row.horizon = slot[2] /\ (p = "reset" => row.forced)
  BY <1>2, SeededRowIn
<1>4. /\ (Accepted(row) /\ InsertRow(row)) \/ UNCHANGED <<comp, pool>>
      /\ cooldown' \in {cooldown, cooldown \union {slot}}
      /\ Continue(p, slots, cats[p], guessed[p]) /\ UNCHANGED <<list, seen>>
  BY DEF Insert
<1>5. /\ Busy(p) /\ slots \in SUBSET Slot /\ cats[p] \in SUBSET Sector /\ guessed[p] \in BOOLEAN
      /\ cooldown' \subseteq Slot
  BY <1>1, <1>2, <1>4 DEF TypeOK, Busy
<1>. DEFINE sectors == cats[p]
            guess == guessed[p]
<1>6. /\ Continue(p, slots, sectors, guess) /\ slots \in SUBSET Slot
      /\ sectors \in SUBSET Sector /\ guess \in BOOLEAN
  BY <1>4, <1>5
<1>. HIDE DEF slots, sectors, guess
<1>7. /\ Stands' /\ Control' /\ Untouched /\ Memory' /\ Counted' /\ Exclusive'
      /\ \A q \in Process :
                /\ fill'[q] = (IF q = p THEN slots ELSE fill[q])
                /\ guessed'[q] = (IF q = p THEN guess /\ slots # {} ELSE guessed[q])
  BY <1>2, <1>4, <1>5, <1>6, Continuing DEF SlotLabel
<1>8. "seed" \in Process /\ "settle" \in Process
  BY DEF Process
<1>9. FewerSlots
  BY <1>7, <1>8 DEF FewerSlots, slots, guess
<1>. HIDE DEF row, slot
<1>10. CASE UNCHANGED <<comp, pool>>
  <2>1. Ages /\ Finished
    BY <1>1, <1>10, SameRows
  <2>2. SeedsOnlyMissing'
    BY <1>1, <1>9, <2>1, AgedSlots
  <2>3. TypeOK'
    BY <1>7, <2>1, Typed DEF Ages
  <2>. QED BY <1>7, <2>1, <2>2, <2>3 DEF Inv, Safe
<1>11. CASE Accepted(row) /\ InsertRow(row)
  <2>1. Inserts(row) /\ Finished
    BY <1>1, <1>3, <1>11, InsertRows
  <2>2. \A q \in {"seed", "settle"} : \A other \in fill'[q] : row.forced \/ ~InSlot(row, other)
    <3>1. SUFFICES ASSUME NEW q \in {"seed", "settle"}, NEW other \in fill'[q], ~row.forced
                   PROVE  ~InSlot(row, other)
      OBVIOUS
    <3>2. p \in {"seed", "settle"}
      BY <1>2, <1>3, <3>1
    <3>3. CASE q # p
      <4>1. fill[q] = {}
        BY <1>1, <1>5, <3>2, <3>3 DEF Exclusive, Busy
      <4>2. fill'[q] = fill[q]
        BY <1>7, <1>8, <3>3
      <4>. QED BY <4>1, <4>2
    <3>4. CASE q = p
      <4>1. other \in Slot /\ other # slot
        BY <1>6, <1>7, <1>8, <3>4 DEF slots
      <4>2. other = <<other[1], other[2]>> /\ slot = <<slot[1], slot[2]>>
        BY <1>2, <4>1 DEF Slot
      <4>. QED BY <1>3, <4>1, <4>2 DEF InSlot
    <3>. QED BY <3>3, <3>4
  <2>3. SeedsOnlyMissing'
    BY <1>1, <1>3, <1>9, <2>1, <2>2, InsertedSlots
  <2>4. TypeOK'
    BY <1>7, <2>1, Typed DEF Inserts
  <2>. QED BY <1>7, <2>1, <2>3, <2>4 DEF Inv, Safe
<1>. QED BY <1>4, <1>10, <1>11

LEMMA CreateCompetitionSafe ==
    ASSUME Inv, NEW p \in Process, NEW a, CreateCompetition(p, a) \/ RetryInsert(p, a)
    PROVE  Safe
<1>1. TypeOK /\ Control
  BY DEF Inv
<1>2. Answered(a) /\ pc[p] \in SlotLabel
  BY DEF CreateCompetition, RetryInsert, SlotLabel
<1>3. CASE Insert(p, a)
  BY <1>2, <1>3, InsertSafe
<1>4. CASE CallAutoSettle(p, TRUE) /\ UNCHANGED <<comp, pool, memory, list, seen, cats, fill, guessed>>
  <2>1. Goto(p, "settleExpired")
    BY <1>4 DEF CallAutoSettle
  <2>2. "settleExpired" \in Label /\ "settleExpired" \notin ItemLabel
        /\ "settleExpired" \notin SlotLabel /\ p # "boot" /\ p # "resolve"
    BY <1>1, <1>2 DEF Label, ItemLabel, SlotLabel, Control, NoSeeding, BootLabel
  <2>3. list' = [list EXCEPT ![p] = list[p]] /\ list[p] \in SUBSET Competition
        /\ \A c \in list[p] : Held(c) \/ ~Closed(c)
    BY <1>1, <1>2, <1>4, Keeps DEF SlotLabel
  <2>4. UNCHANGED fill
    BY <1>4
  <2>5. Goes(p, "settleExpired", list[p], fill[p])
    BY <1>1, <2>1, <2>2, <2>3, <2>4, GoesOn
  <2>6. Memory' /\ Counted'
    BY <1>1, <1>2, <1>4, MemoryKept, Counting
  <2>7. Awaits(p)
    BY <1>4, <2>5, <2>6 DEF Awaits, memory
  <2>. QED BY <1>1, <1>4, <2>7, SameRows, AwaitsSafe
<1>. QED BY <1>3, <1>4 DEF CreateCompetition, RetryInsert

\* The start of a run: autoSettleExpired is called, or was called just before.
LEMMA Starting ==
    ASSUME TypeOK, Control, NEW p \in {"seed", "settle", "reset"}, NEW force \in BOOLEAN,
           CallAutoSettle(p, force), UNCHANGED <<list, fill>>, pc[p] = "idle"
    PROVE  Stands' /\ Control' /\ Untouched
<1>1. p \in Process /\ p \in Process \ {"resolve"}
  BY DEF Process
<1>2. PICK label : Goto(p, label) /\ label \in {"settleExpired", AfterSettle(p)}
  BY DEF CallAutoSettle
<1>3. label \in Label /\ label \notin ItemLabel /\ (label \in SlotLabel => fill[p] # {})
  BY <1>1, <1>2, Afterwards DEF Label, ItemLabel, SlotLabel
<1>4. list' = [list EXCEPT ![p] = list[p]] /\ list[p] \in SUBSET Competition
      /\ \A c \in list[p] : Held(c) \/ ~Closed(c)
  BY <1>1, Keeps
<1>5. Goes(p, label, list[p], fill[p])
  BY <1>1, <1>2, <1>3, <1>4, GoesOn
<1>. QED BY <1>1, <1>5, Going

\* The crons and the reset up to their first await.
LEMMA StartSafe ==
    ASSUME Inv, SeedAllCategories \/ SettleAndReplenish \/ ForceReset
    PROVE  Safe
<1>1. TypeOK /\ Control /\ Exclusive /\ SeedsOnlyMissing /\ {"seed", "settle", "reset"} \subseteq Process
  BY DEF Inv, Process
<1>2. PICK p \in {"seed", "settle", "reset"}, force \in BOOLEAN :
        /\ pc[p] = "idle" /\ CallAutoSettle(p, force)
        /\ cats' \in {cats, [cats EXCEPT ![p] = Sector]}
        /\ isSeeding' \in {isSeeding, TRUE} /\ isSettling' \in {isSettling, TRUE}
        /\ cooldown' \in {cooldown, {}}
        /\ p = "seed" => ~isSeeding /\ isSeeding' = TRUE
        /\ p = "settle" => UNCHANGED cats
  <2>1. CASE SeedAllCategories
    BY <2>1 DEF SeedAllCategories, MaySeed
  <2>2. CASE SettleAndReplenish
    BY <2>2 DEF SettleAndReplenish
  <2>3. CASE ForceReset
    BY <2>3 DEF ForceReset
  <2>. QED BY <2>1, <2>2, <2>3
<1>3. UNCHANGED <<comp, pool, list, seen, fill, guessed, freed>>
  BY DEF SeedAllCategories, SettleAndReplenish, ForceReset
<1>4. Called \/ UNCHANGED <<faults, calls>>
  BY DEF SeedAllCategories, SettleAndReplenish, ForceReset
<1>5. Stands' /\ Control' /\ Untouched
  BY <1>1, <1>2, <1>3, Starting
<1>6. Ages /\ Finished
  BY <1>1, <1>3, SameRows
<1>7. TypeOK'
  <2>1. Counted'
    BY <1>1, <1>4, Counting
  <2>2. Memory'
    BY <1>1, <1>2, <1>3 DEF TypeOK, Memory, Outcomes
  <2>. QED BY <1>5, <1>6, <2>1, <2>2, Typed DEF Ages
<1>8. SeedsOnlyMissing'
  <2>1. FewerSlots
    BY <1>3 DEF FewerSlots
  <2>. QED BY <1>1, <1>6, <2>1, AgedSlots
<1>9. Exclusive'
  <2>1. \A q \in Process : q # p => cats'[q] = cats[q]
    BY <1>1, <1>2 DEF TypeOK
  <2>2. CASE p = "seed"
    BY <1>1, <1>2, <1>3, <2>1, <2>2 DEF Exclusive, Busy
  <2>3. CASE p = "settle" \/ p = "reset"
    <3>1. cats'["seed"] = cats["seed"] /\ cats'["settle"] = cats["settle"]
      BY <1>1, <1>2, <2>1, <2>3
    <3>2. isSeeding => isSeeding'
      BY <1>2
    <3>. QED BY <1>1, <1>3, <3>1, <3>2 DEF Exclusive, Busy
  <2>. QED BY <2>2, <2>3
<1>. QED BY <1>5, <1>6, <1>7, <1>8, <1>9 DEF Inv, Safe

\* The refill takes isSeeding only when it is free.
LEMMA PromoteSafe ==
    ASSUME Inv, NEW a, PromoteUpcoming(a)
    PROVE  Safe
<1>1. TypeOK /\ Control /\ Exclusive /\ SeedsOnlyMissing /\ {"seed", "settle"} \subseteq Process
  BY DEF Inv, Process
<1>. DEFINE label == IF MayRefill THEN "category" ELSE "idle"
<1>2. /\ Goto("settle", label) /\ Answered(a)
      /\ cats' = [cats EXCEPT !["settle"] = IF MayRefill THEN {f[1] : f \in freed} ELSE {}]
      /\ isSeeding' = (isSeeding \/ MayRefill) /\ isSettling' = MayRefill
      /\ freed' \in {freed, {}} /\ UNCHANGED <<cooldown, list, seen, fill, guessed>>
      /\ pc["settle"] = "promote"
  BY DEF PromoteUpcoming
<1>3. Ages /\ Finished
  BY <1>1, PromoteRows
<1>4. Stands' /\ Control' /\ Untouched
  <2>1. label \in Label /\ label \notin ItemLabel /\ label \notin SlotLabel
    BY DEF Label, ItemLabel, SlotLabel
  <2>2. list' = [list EXCEPT !["settle"] = list["settle"]] /\ list["settle"] \in SUBSET Competition
        /\ \A c \in list["settle"] : Held(c) \/ ~Closed(c)
    BY <1>1, <1>2, Keeps
  <2>3. UNCHANGED fill /\ Goto("settle", label)
    BY <1>2
  <2>. HIDE DEF label
  <2>4. Goes("settle", label, list["settle"], fill["settle"])
    BY <1>1, <2>1, <2>2, <2>3, GoesOn
  <2>. QED BY <1>1, <2>4, Going
<1>5. TypeOK'
  <2>1. Counted'
    BY <1>1, <1>2, Counting
  <2>2. {f[1] : f \in freed} \subseteq Sector
    BY <1>1 DEF TypeOK
  <2>3. MayRefill \in BOOLEAN
    BY DEF MayRefill
  <2>4. Memory'
    BY <1>1, <1>2, <2>2, <2>3 DEF TypeOK, Memory, Outcomes
  <2>. QED BY <1>3, <1>4, <2>1, <2>4, Typed DEF Ages
<1>6. SeedsOnlyMissing'
  <2>1. FewerSlots
    BY <1>2 DEF FewerSlots
  <2>. QED BY <1>1, <1>3, <2>1, AgedSlots
<1>7. Exclusive'
  <2>1. cats'["seed"] = cats["seed"] /\ (~MayRefill => cats'["settle"] = {}) /\ UNCHANGED fill
    BY <1>1, <1>2 DEF TypeOK
  <2>2. CASE MayRefill
    <3>1. ~isSeeding
      BY <2>2 DEF MayRefill
    <3>. QED BY <1>1, <1>2, <2>1, <2>2, <3>1 DEF Exclusive, Busy
  <2>3. CASE ~MayRefill
    BY <1>1, <1>2, <2>1, <2>3 DEF Exclusive, Busy
  <2>. QED BY <2>2, <2>3
<1>. QED BY <1>3, <1>4, <1>5, <1>6, <1>7 DEF Inv, Safe

\* A step of somebody else, who has no part in the service's memory.
LEMMA IdleSafe ==
    ASSUME Inv, Ages, Finished, UNCHANGED <<memory, work>>, Called \/ UNCHANGED <<faults, calls>>
    PROVE  Safe
<1>1. TypeOK /\ Control /\ Exclusive /\ SeedsOnlyMissing
  BY DEF Inv
<1>2. Stands' /\ Control' /\ Untouched
  BY <1>1, Staying DEF work
<1>3. Memory' /\ Counted'
  BY <1>1, MemoryKept, Counting DEF work
<1>4. TypeOK'
  BY <1>2, <1>3, Typed DEF Ages
<1>5. Exclusive'
  BY <1>1, Seeded DEF memory, work
<1>6. SeedsOnlyMissing'
  <2>1. FewerSlots
    BY DEF FewerSlots, work
  <2>. QED BY <1>1, <2>1, AgedSlots
<1>. QED BY <1>2, <1>4, <1>5, <1>6 DEF Inv, Safe

LEMMA EmptyRowIn == EmptyRow \in Row /\ LegacyRow \in Row
<1>1. Sector # {}
  BY ConstantsAssumption DEF ConstantsAssumption
<1>2. (CHOOSE s \in Sector : TRUE) \in Sector
  BY <1>1
<1>3. EmptyRow \in Row
  BY <1>2 DEF EmptyRow, Row, Status
<1>. QED BY <1>3 DEF LegacyRow, Row, Status

\* Writers that are none of the crons.
LEMMA OtherWritersSafe ==
    ASSUME Inv, OtherWriters
    PROVE  Safe
<1>1. TypeOK /\ Control /\ Exclusive /\ SeedsOnlyMissing
  BY DEF Inv
<1>2. ASSUME NEW k \in Competition, ResolveEvent(k) PROVE Safe
  <2>1. "resolve" \in Process
    BY DEF Process
  <2>2. Called /\ UNCHANGED <<comp, pool, memory, seen, cats, fill, guessed>>
        /\ Goto("resolve", "mark") /\ list' = [list EXCEPT !["resolve"] = {k}] /\ ~Closed(k)
    BY <1>2 DEF ResolveEvent, Closed
  <2>3. "mark" \in Label /\ "mark" \notin SlotLabel /\ {k} \in SUBSET Competition
        /\ \A c \in {k} : Held(c) \/ ~Closed(c)
    BY <2>2 DEF Label, SlotLabel
  <2>4. Goes("resolve", "mark", {k}, fill["resolve"])
    BY <1>1, <2>1, <2>2, <2>3, GoesOn
  <2>5. Memory' /\ Counted'
    BY <1>1, <2>2, MemoryKept, Counting
  <2>6. Awaits("resolve")
    BY <2>2, <2>4, <2>5 DEF Awaits, memory
  <2>. QED BY <1>1, <2>1, <2>2, <2>6, SameRows, AwaitsSafe
<1>3. ASSUME NEW k \in Competition, SettleByHand(k) \/ TouchRow(k) PROVE Safe
  <2>1. UNCHANGED <<memory, work>> /\ (Called \/ UNCHANGED <<faults, calls>>)
    BY <1>3 DEF SettleByHand, TouchRow
  <2>2. Ages /\ Finished
    BY <1>1, <1>3, PaidRows, TouchedRows DEF SettleByHand
  <2>. QED BY <1>1, <2>1, <2>2, IdleSafe
<1>4. ASSUME NEW s \in Sector, NEW phase \in {"future", "open"}, CreateByHand(s, phase) PROVE Safe
  <2>. DEFINE row == HandRow(s, phase)
  <2>1. Called /\ Accepted(row) /\ InsertRow(row) /\ UNCHANGED <<memory, work>>
    BY <1>4 DEF CreateByHand
  <2>2. row \in Row /\ row.horizon = NoHorizon
    BY EmptyRowIn DEF Row, EmptyRow, HandRow, Status
  <2>. HIDE DEF row
  <2>3. Inserts(row) /\ Finished
    BY <1>1, <2>1, <2>2, InsertRows
  <2>4. Stands' /\ Control' /\ Untouched /\ Memory' /\ Counted'
    BY <1>1, <2>1, Staying, MemoryKept, Counting DEF work
  <2>5. TypeOK'
    BY <2>3, <2>4, Typed DEF Inserts
  <2>6. Exclusive'
    BY <1>1, <2>1, Seeded DEF memory, work
  <2>7. FewerSlots
    BY <2>1 DEF FewerSlots, work
  <2>8. \A p \in {"seed", "settle"} : \A slot \in fill'[p] : row.forced \/ ~InSlot(row, slot)
    <3>1. SUFFICES ASSUME NEW p \in {"seed", "settle"}, NEW slot \in fill'[p]
                   PROVE  ~InSlot(row, slot)
      OBVIOUS
    <3>2. slot \in Slot
      BY <1>1, <2>1 DEF TypeOK, work, Process
    <3>. QED BY <2>2, <3>2, ConstantsAssumption DEF InSlot, Slot, ConstantsAssumption
  <2>9. SeedsOnlyMissing'
    BY <1>1, <2>2, <2>3, <2>7, <2>8, InsertedSlots
  <2>. QED BY <2>3, <2>4, <2>5, <2>6, <2>9 DEF Inv, Safe
<1>. QED BY <1>2, <1>3, <1>4 DEF OtherWriters

LEMMA TimePassesSafe ==
    ASSUME Inv, TimePasses
    PROVE  Safe
<1>1. TypeOK /\ Control
  BY DEF Inv
<1>2. ASSUME NEW k \in Competition, Begin(k) \/ End(k) PROVE Safe
  <2>1. UNCHANGED <<memory, work, faults, calls>>
    BY <1>2 DEF Begin, End
  <2>. QED BY <1>1, <1>2, <2>1, TouchedRows, IdleSafe
<1>3. ASSUME NEW slot \in Slot, CooldownElapses(slot) PROVE Safe
  <2>1. UNCHANGED <<comp, pool, isSeeding, isSettling, freed, work, faults, calls>>
        /\ cooldown' = cooldown \ {slot}
    BY <1>3 DEF CooldownElapses
  <2>2. Ages /\ Finished
    BY <1>1, <2>1, SameRows
  <2>3. Stands' /\ Control' /\ Untouched
    BY <1>1, <2>1, Staying DEF work
  <2>4. TypeOK'
    BY <1>1, <2>1 DEF TypeOK, work
  <2>5. Exclusive'
    BY <2>1, Seeded DEF Inv, work
  <2>6. SeedsOnlyMissing'
    <3>1. FewerSlots
      BY <2>1 DEF FewerSlots, work
    <3>. QED BY <1>1, <2>2, <3>1, AgedSlots DEF Inv
  <2>. QED BY <2>2, <2>3, <2>4, <2>5, <2>6 DEF Inv, Safe
<1>. QED BY <1>2, <1>3 DEF TimePasses

\* A new server has nothing in hand.
LEMMA RestartSafe ==
    ASSUME Inv, Restart
    PROVE  Safe
<1>1. TypeOK
  BY DEF Inv
<1>2. Ages /\ Finished
  BY <1>1, SameRows DEF Restart
<1>3. Counted'
  BY <1>1, Counting DEF Restart
<1>4. \A p \in Process : /\ pc'[p] = (IF p = "boot" THEN "settleExpired" ELSE "idle")
                         /\ list'[p] = {} /\ cats'[p] = {} /\ fill'[p] = {} /\ guessed'[p] = FALSE
  BY DEF Restart
<1>5. {"boot", "seed", "settle", "resolve"} \subseteq Process
  BY DEF Process
<1>6. Stands' /\ Memory'
  BY DEF Restart, Stands, Memory, Label, Outcomes
<1>7. Control'
  BY <1>4, <1>5 DEF Control, ListHeld, SlotLeft, NoSeeding, BootLabel
<1>8. Untouched
  BY <1>4 DEF Untouched, Held
<1>9. Exclusive' /\ SeedsOnlyMissing'
  BY <1>4, <1>5 DEF Exclusive, Busy, SeedsOnlyMissing
<1>10. TypeOK'
  BY <1>2, <1>3, <1>6, Typed DEF Ages
<1>. QED BY <1>2, <1>7, <1>8, <1>9, <1>10 DEF Inv, Safe

-----------------------------------------------------------------------------
(* Every step *)

LEMMA StepSafe ==
    ASSUME Inv, NEW p \in Process, Step(p)
    PROVE  Safe
<1>1. TypeOK /\ Control
  BY DEF Inv
<1>2. PICK a \in Answer :
    \/ SettleExpired(p, a) \/ ReadExpired(p, a) \/ WriteExpired(p, a)
    \/ \E s \in Sector : ReadMissing(p, s, a)
    \/ CreateCompetition(p, a) \/ RetryInsert(p, a)
    \/ \E o \in Outcome : MarkSettled(p, o, a)
    \/ SettlePool(p, a)
    \/ p = "boot" /\ \/ ReadRetired(a) \/ CancelRetired(a)
                     \/ ReadDuplicates(a) \/ CancelDuplicates(a)
    \/ p = "settle" /\ \/ ReadPools(a) \/ RetrySettlePool(a)
                       \/ \E empty \in BOOLEAN : CheckEmpty(empty, a)
                       \/ ForceEmpty(a) \/ PromoteUpcoming(a)
    \/ p = "reset" /\ ReadLive(a)
  BY DEF Step
<1>3. CASE SettleExpired(p, a) \/ ReadExpired(p, a) \/ WriteExpired(p, a)
  <2>1. Ages /\ Finished
    <3>1. CASE SettleExpired(p, a)
      BY <1>1, <3>1, SettleExpiredRows
    <3>2. CASE ReadExpired(p, a)
      BY <1>1, <3>2, SameRows DEF ReadExpired
    <3>3. CASE WriteExpired(p, a)
      BY <1>1, <3>3, WriteExpiredRows
    <3>. QED BY <1>3, <3>1, <3>2, <3>3
  <2>. QED BY <1>1, <1>3, <2>1, AutoSettleAwaits, AwaitsSafe
<1>4. CASE \E s \in Sector : ReadMissing(p, s, a)
  BY <1>4, ReadMissingSafe
<1>5. CASE CreateCompetition(p, a) \/ RetryInsert(p, a)
  BY <1>5, CreateCompetitionSafe
<1>6. CASE \E o \in Outcome : MarkSettled(p, o, a)
  BY <1>1, <1>6, MarkRows, MarkAwaits, AwaitsSafe
<1>7. CASE SettlePool(p, a) \/ (p = "settle" /\ RetrySettlePool(a))
  BY <1>1, <1>7, SettlePoolRows, SettlePoolAwaits, AwaitsSafe
<1>8. CASE p = "boot" /\ (ReadRetired(a) \/ CancelRetired(a) \/ ReadDuplicates(a) \/ CancelDuplicates(a))
  <2>1. Ages /\ Finished
    <3>1. CASE ReadRetired(a) \/ ReadDuplicates(a)
      BY <1>1, <3>1, SameRows DEF ReadRetired, ReadDuplicates
    <3>2. CASE CancelRetired(a) \/ CancelDuplicates(a)
      BY <1>1, <3>2, CancelRows
    <3>. QED BY <1>8, <3>1, <3>2
  <2>2. Awaits(p)
    BY <1>1, <1>8, CleanUpAwaits
  <2>. QED BY <2>1, <2>2, AwaitsSafe
<1>9. CASE (p = "settle" /\ ReadPools(a)) \/ (p = "reset" /\ ReadLive(a))
  <2>1. Ages /\ Finished
    BY <1>1, <1>9, SameRows DEF ReadPools, ReadLive
  <2>2. Awaits(p)
    BY <1>1, <1>9, ReadListAwaits
  <2>. QED BY <2>1, <2>2, AwaitsSafe
<1>10. CASE p = "settle" /\ \E empty \in BOOLEAN : CheckEmpty(empty, a)
  <2>1. Ages /\ Finished
    BY <1>1, <1>10, SameRows DEF CheckEmpty
  <2>2. Awaits(p)
    BY <1>1, <1>10, SettlePoolAwaits
  <2>. QED BY <2>1, <2>2, AwaitsSafe
<1>11. CASE p = "settle" /\ ForceEmpty(a)
  BY <1>1, <1>11, ForceEmptyRows, SettlePoolAwaits, AwaitsSafe
<1>12. CASE p = "settle" /\ PromoteUpcoming(a)
  BY <1>12, PromoteSafe
<1>. QED BY <1>2, <1>3, <1>4, <1>5, <1>6, <1>7, <1>8, <1>9, <1>10, <1>11, <1>12

LEMMA NextSafe == ASSUME Inv, [Next]_vars PROVE Safe
<1>1. CASE Next
  BY <1>1, StepSafe, StartSafe, OtherWritersSafe, TimePassesSafe, RestartSafe DEF Next
<1>2. CASE UNCHANGED vars
  <2>1. Ages /\ Finished
    BY <1>2, SameRows DEF Inv, vars
  <2>. QED BY <1>2, <2>1, IdleSafe DEF Inv, vars
<1>. QED BY <1>1, <1>2

LEMMA InitInv == ASSUME Init PROVE Inv
<1>1. EmptyRow \in Row /\ LegacyRow \in Row /\ \A s \in Sector : HandRow(s, "future") \in Row
  BY EmptyRowIn DEF Row, HandRow, Status
<1>2. comp \in [Competition -> Row] /\ pool \in Tables
  <2>1. PICK row \in {EmptyRow, LegacyRow} \union {HandRow(s, "future") : s \in Sector} :
           /\ comp = [c \in Competition |-> IF c = 1 THEN row ELSE EmptyRow]
           /\ pool = [c \in Competition |-> IF c = 1 /\ row # EmptyRow THEN "pending" ELSE "none"]
    BY DEF Init
  <2>. QED BY <1>1, <2>1 DEF Tables
<1>3. \A p \in Process : /\ pc[p] = (IF p = "boot" THEN "settleExpired" ELSE "idle")
                         /\ list[p] = {} /\ cats[p] = {} /\ fill[p] = {} /\ guessed[p] = FALSE
  BY DEF Init
<1>4. {"boot", "seed", "settle", "resolve"} \subseteq Process
  BY DEF Process
<1>5. Stands /\ Memory
  BY DEF Init, Stands, Memory, Label, Outcomes
<1>6. Counted
  BY ConstantsAssumption DEF Init, Counted, ConstantsAssumption
<1>7. TypeOK
  BY <1>2, <1>5, <1>6 DEF TypeOK, Tables, Stands, Memory, Counted, Outcomes
<1>8. Control
  BY <1>3, <1>4 DEF Control, ListHeld, SlotLeft, NoSeeding, BootLabel
<1>9. Exclusive /\ SeedsOnlyMissing
  BY <1>3, <1>4 DEF Exclusive, Busy, SeedsOnlyMissing
<1>. QED BY <1>7, <1>8, <1>9 DEF Inv

LEMMA Invariance == Spec => []Inv
<1>1. Inv /\ [Next]_vars => Inv'
  BY NextSafe DEF Safe
<1>. QED BY InitInv, <1>1, PTL DEF Spec

\* The tables, the service's memory and the counters keep their types, whatever
\* fails and whenever the server restarts.
THEOREM TypeCorrect == Spec => []TypeOK
<1>1. Inv => TypeOK
  BY DEF Inv
<1>. QED BY <1>1, Invariance, PTL

\* seedAllCategories and the refill never seed at the same time: a slot that
\* one of them still has to seed is empty, or was guessed after a failed read, or
\* was filled by a force reset.
THEOREM SeedingIsExclusive == Spec => []SeedsOnlyMissing
<1>1. Inv => SeedsOnlyMissing
  BY DEF Inv
<1>. QED BY <1>1, Invariance, PTL

\* A competition that is settled with its pool and in nobody's list keeps its
\* status, outcome and pool, and nobody takes it up again.
THEOREM SettlementStands == Spec => SettledIsFinal
<1>1. Inv /\ [Next]_vars =>
        [\A c \in Competition : Closed(c) /\ ~Held(c) =>
            /\ comp'[c].status = "settled" /\ comp'[c].outcome = comp[c].outcome
            /\ pool'[c] = "settled" /\ ~Held(c)']_vars
  BY NextSafe DEF Safe, Finished, Untouched
<1>. QED BY <1>1, Invariance, PTL DEF Spec, SettledIsFinal
=============================================================================
