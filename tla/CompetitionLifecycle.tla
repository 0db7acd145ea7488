------------------------ MODULE CompetitionLifecycle ------------------------
(***************************************************************************)
(* RealtimeCompetitionSeederService and CompetitionManagerService over the *)
(* tables competitions and competition_pools: the crons that seed missing  *)
(* horizon slots and settle what has expired, the clean-up at start-up,    *)
(* the administrator's force reset, competitions created by hand, and the  *)
(* resolution of simulated sports events. One server; a process is a call  *)
(* chain of the service and stops at every await.                          *)
(*                                                                         *)
(* A database call fails without effect, or takes effect and its answer is *)
(* lost; the server restarts. MaxFaults bounds how often, and              *)
(* MAX_COMPETITIONS the rows (an insert beyond it fails). Stakes, scores   *)
(* and prizes are those of StakePool: here a pool is pending or settled.   *)
(* Two inserts are never in their trigger at the same time.                *)
(***************************************************************************)
EXTENDS Integers, FiniteSets

CONSTANTS
    Sector, Horizon,    \* CATEGORIES and HORIZON_TIERS
    OldHorizon,         \* a tier that was removed from the code
    NoHorizon,          \* time_horizon NULL: a competition created by hand
    Outcome, NoOutcome, \* winning_outcome, and NULL
    MAX_PER_SECTOR, MAX_COMPETITIONS, MaxFaults, MaxCalls

Competition == 1..MAX_COMPETITIONS
Slot == Sector \X Horizon
Process == {"boot", "seed", "settle", "reset", "resolve"}

ASSUME ConstantsAssumption ==
    /\ Sector # {}
    /\ 0 \in Outcome /\ NoOutcome \notin Outcome
    /\ OldHorizon \notin Horizon /\ NoHorizon \notin Horizon \union {OldHorizon}
    /\ MAX_PER_SECTOR \in Nat /\ MAX_COMPETITIONS \in Nat
    /\ MaxFaults \in Nat /\ MaxCalls \in Nat

VARIABLES
    comp,           \* comp[c]: the row of competition c
    pool,           \* pool[c]: settlement_status of its pool
    isSeeding, isSettling,
    cooldown,       \* slots created less than CREATION_COOLDOWN_MS ago
    pc,             \* where a process stands
    list,           \* ids a process has read and not handled yet
    seen,           \* outcomes in the snapshot of settleAndReplenish
    cats, fill,     \* categories and slots a process has still to seed
    guessed,        \* the missing slots of a process were not read but assumed
    freed,          \* freedSlots of settleAndReplenish
    faults, calls   \* failures, and calls from outside, so far

memory == <<isSeeding, isSettling, cooldown, freed>>
work == <<pc, list, seen, cats, fill, guessed>>
vars == <<comp, pool, memory, work, faults, calls>>

Status == {"none", "upcoming", "active", "settled", "cancelled"}
Row == [status : Status, sector : Sector,
        horizon : Horizon \union {OldHorizon, NoHorizon},
        phase : {"future", "open", "ended"},
        outcome : Outcome \union {NoOutcome}, forced : BOOLEAN]

Label == {"idle", "settleExpired", "readExpired", "writeExpired",
          "readRetired", "cancelRetired", "readDuplicates", "cancelDuplicates",
          "readPools", "readLive", "mark", "settlePool", "retry", "checkEmpty",
          "forceEmpty", "promote", "category", "insert", "insertAgain"}

TypeOK ==
    /\ comp \in [Competition -> Row]
    /\ pool \in [Competition -> {"none", "pending", "settled"}]
    /\ isSeeding \in BOOLEAN /\ isSettling \in BOOLEAN
    /\ cooldown \subseteq Slot
    /\ pc \in [Process -> Label]
    /\ list \in [Process -> SUBSET Competition]
    /\ seen \in [Competition -> Outcome \union {NoOutcome}]
    /\ cats \in [Process -> SUBSET Sector]
    /\ fill \in [Process -> SUBSET Slot]
    /\ guessed \in [Process -> BOOLEAN]
    /\ freed \subseteq Sector \X (Horizon \union {OldHorizon})
    /\ faults \in 0..MaxFaults /\ calls \in 0..MaxCalls

-----------------------------------------------------------------------------
\* Rows of the database

Live(row) == row.status \in {"active", "upcoming"}
Running(row) == Live(row) /\ row.phase # "ended"
Expired(row) == row.status = "active" /\ row.phase = "ended"
InSlot(row, slot) == row.sector = slot[1] /\ row.horizon = slot[2]

\* trigger competition_auto_status, on every INSERT and UPDATE
AutoStatus(row) ==
    IF row.status = "upcoming" /\ row.phase = "open"
    THEN [row EXCEPT !.status = "active"]
    ELSE IF Expired(row) /\ row.outcome # NoOutcome
         THEN [row EXCEPT !.status = "settled"] ELSE row

WithStatus(row, status) == AutoStatus([row EXCEPT !.status = status])
WithOutcome(row, outcome) ==
    AutoStatus([row EXCEPT !.status = "settled", !.outcome = outcome])
Coalesced(row) == WithOutcome(row, IF row.outcome = NoOutcome THEN 0 ELSE row.outcome)

UpdateRows(ids, New(_)) ==
    [c \in Competition |-> IF c \in ids THEN New(comp[c]) ELSE comp[c]]

ExpiredIds == {c \in Competition : Expired(comp[c])}
LiveIds == {c \in Competition : Live(comp[c])}

\* auto_settle_expired_competitions
AutoSettled == UpdateRows(ExpiredIds, Coalesced)

\* settle_competition_pool: the competition is settled with its pool, and the
\* function raises an exception when the pool is not pending
PoolOpen(c) == pool[c] = "pending"
Paid(c) == IF PoolOpen(c) THEN [pool EXCEPT ![c] = "settled"] ELSE pool
PaidRow(c) ==
    IF PoolOpen(c) THEN [comp EXCEPT ![c] = WithStatus(comp[c], "settled")] ELSE comp

\* An INSERT: what enforce_competition_horizon_limit leaves of the sector, the
\* cap, the unique index on (sector, time_horizon), and the pool trigger. An
\* exception rolls back the trigger's own settlement too.
Swept(s) == UpdateRows({c \in ExpiredIds : comp[c].sector = s}, Coalesced)
AtCap(s) == Cardinality({c \in Competition :
                Running(comp[c]) /\ comp[c].sector = s}) >= MAX_PER_SECTOR
Unique(row) == row.horizon = NoHorizon \/
    ~ \E c \in Competition : Live(Swept(row.sector)[c]) /\
                             InSlot(comp[c], <<row.sector, row.horizon>>)
Unused == {c \in Competition : comp[c].status = "none"}
Free == CHOOSE c \in Unused : \A d \in Unused : c <= d
Accepted(row) == ~AtCap(row.sector) /\ Unique(row) /\ Unused # {}
InsertRow(row) ==
    /\ comp' = [Swept(row.sector) EXCEPT ![Free] = AutoStatus(row)]
    /\ pool' = [pool EXCEPT ![Free] = "pending"]

SeededRow(slot, p) ==
    [status |-> "active", sector |-> slot[1], horizon |-> slot[2],
     phase |-> "open", outcome |-> NoOutcome, forced |-> p = "reset"]

\* How a database call ends for the caller
Answer == {"ok", "failed", "lost"}
Answered(a) ==
    /\ UNCHANGED calls
    /\ IF a = "ok" THEN UNCHANGED faults ELSE faults < MaxFaults /\ faults' = faults + 1

\* a call from outside the crons
Called == calls < MaxCalls /\ calls' = calls + 1 /\ UNCHANGED faults
Takes(a) == a # "failed"

-----------------------------------------------------------------------------
EmptyRow == [status |-> "none", sector |-> CHOOSE s \in Sector : TRUE,
             horizon |-> NoHorizon, phase |-> "future",
             outcome |-> NoOutcome, forced |-> FALSE]
LegacyRow == [EmptyRow EXCEPT !.status = "active", !.horizon = OldHorizon,
                              !.phase = "open"]

\* made by hand, or still waiting to be promoted
HandRow(s, phase) == [EmptyRow EXCEPT !.status = "upcoming", !.sector = s, !.phase = phase]

\* The server starts on an empty database, or on one with a competition of a
\* removed tier or one made by hand
Init ==
    /\ \E row \in {EmptyRow, LegacyRow} \union {HandRow(s, "future") : s \in Sector} :
        /\ comp = [c \in Competition |-> IF c = 1 THEN row ELSE EmptyRow]
        /\ pool = [c \in Competition |-> IF c = 1 /\ row # EmptyRow THEN "pending" ELSE "none"]
    /\ isSeeding = FALSE /\ isSettling = FALSE
    /\ cooldown = {} /\ freed = {}
    /\ pc = [p \in Process |-> IF p = "boot" THEN "settleExpired" ELSE "idle"]
    /\ list = [p \in Process |-> {}]
    /\ seen = [c \in Competition |-> NoOutcome]
    /\ cats = [p \in Process |-> {}] /\ fill = [p \in Process |-> {}]
    /\ guessed = [p \in Process |-> FALSE]
    /\ faults = 0 /\ calls = 0

Goto(p, label) == pc' = [pc EXCEPT ![p] = label]

\* where a caller of autoSettleExpired goes on
AfterSettle(p) ==
    CASE fill[p] # {} -> "insertAgain"
      [] p = "boot" -> "readRetired"
      [] p = "seed" -> "category"
      [] p = "settle" -> "readPools"
      [] p = "reset" -> "readLive"

\* autoSettleExpired up to its first await. Whether the last call is less than
\* AUTO_SETTLE_DEBOUNCE_MS ago is left open.
CallAutoSettle(p, force) ==
    \/ Goto(p, "settleExpired")
    \/ ~force /\ Goto(p, AfterSettle(p))

SettleExpired(p, a) ==
    /\ pc[p] = "settleExpired" /\ Answered(a)
    /\ comp' = IF Takes(a) THEN AutoSettled ELSE comp
    /\ Goto(p, IF a = "ok" THEN AfterSettle(p) ELSE "readExpired")
    /\ UNCHANGED <<pool, memory, list, seen, cats, fill, guessed>>

\* autoSettleExpiredAppSide: ids first, then an update of these ids
ReadExpired(p, a) ==
    LET ids == IF a = "ok" THEN ExpiredIds ELSE {} IN
    /\ pc[p] = "readExpired" /\ Answered(a)
    /\ list' = [list EXCEPT ![p] = ids]
    /\ Goto(p, IF ids = {} THEN AfterSettle(p) ELSE "writeExpired")
    /\ UNCHANGED <<comp, pool, memory, seen, cats, fill, guessed>>

\* Mutant: the update by ids writes an outcome too, like the database function,
\* but without its COALESCE.
WriteOutcomes(p, a) ==
    /\ pc[p] = "writeExpired" /\ Answered(a)
    /\ comp' = IF Takes(a) THEN UpdateRows(list[p], LAMBDA row : WithOutcome(row, 0)) ELSE comp
    /\ list' = [list EXCEPT ![p] = {}]
    /\ Goto(p, AfterSettle(p))
    /\ UNCHANGED <<pool, memory, seen, cats, fill, guessed>>

WriteExpired(p, a) ==
    /\ pc[p] = "writeExpired" /\ Answered(a)
    /\ comp' = IF Takes(a)
               THEN UpdateRows(list[p], LAMBDA row : WithStatus(row, "settled"))
               ELSE comp
    /\ list' = [list EXCEPT ![p] = {}]
    /\ Goto(p, AfterSettle(p))
    /\ UNCHANGED <<pool, memory, seen, cats, fill, guessed>>

-----------------------------------------------------------------------------
\* onModuleInit: retireOldHorizons and cleanupExistingDuplicates. Which titles
\* are alike is left open; the oldest live competition never is a duplicate.

ReadRetired(a) ==
    LET ids == IF a = "ok" THEN {c \in LiveIds : comp[c].horizon = OldHorizon} ELSE {} IN
    /\ pc["boot"] = "readRetired" /\ Answered(a)
    /\ list' = [list EXCEPT !["boot"] = ids]
    /\ Goto("boot", IF ids = {} THEN "readDuplicates" ELSE "cancelRetired")
    /\ UNCHANGED <<comp, pool, memory, seen, cats, fill, guessed>>

ReadDuplicates(a) ==
    /\ pc["boot"] = "readDuplicates" /\ Answered(a)
    /\ \E ids \in SUBSET LiveIds :
        /\ a # "ok" => ids = {}
        /\ \A c \in ids : \E d \in LiveIds \ ids : d < c
        /\ list' = [list EXCEPT !["boot"] = ids]
        /\ Goto("boot", IF ids = {} THEN "idle" ELSE "cancelDuplicates")
    /\ UNCHANGED <<comp, pool, memory, seen, cats, fill, guessed>>

Cancel(label, next, a) ==
    /\ pc["boot"] = label /\ Answered(a)
    /\ comp' = IF Takes(a)
               THEN UpdateRows(list["boot"], LAMBDA row : WithStatus(row, "cancelled"))
               ELSE comp
    /\ list' = [list EXCEPT !["boot"] = {}]
    /\ Goto("boot", next)
    /\ UNCHANGED <<pool, memory, seen, cats, fill, guessed>>

CancelRetired(a) == Cancel("cancelRetired", "readDuplicates", a)
CancelDuplicates(a) == Cancel("cancelDuplicates", "idle", a)

-----------------------------------------------------------------------------
\* seedAllCategories (cron and start-up) and seedCategory

\* Mutant: seedAllCategories does not look at isSeeding.
AlwaysSeeds == TRUE

MaySeed == ~isSeeding

SeedAllCategories ==
    /\ pc["seed"] = "idle" /\ MaySeed
    /\ isSeeding' = TRUE
    /\ cats' = [cats EXCEPT !["seed"] = Sector]
    /\ CallAutoSettle("seed", FALSE)
    /\ UNCHANGED <<comp, pool, isSettling, cooldown, freed, list, seen, fill,
                   guessed, faults, calls>>

\* Mutant: the refill has no finally block of its own.
CronReleases(p) == p = "seed"

\* Who gives isSeeding back at the end.
Releases(p) == p # "reset"

\* what follows a step of seedCategory when these slots and categories are left;
\* at the end the finally blocks release the flags
Continue(p, slots, sectors, guess) ==
    LET end == slots = {} /\ sectors = {} IN
    /\ fill' = [fill EXCEPT ![p] = slots]
    /\ cats' = [cats EXCEPT ![p] = sectors]
    /\ guessed' = [guessed EXCEPT ![p] = guess /\ slots # {}]
    /\ Goto(p, IF slots # {} THEN "insert" ELSE IF end THEN "idle" ELSE "category")
    /\ isSeeding' = (isSeeding /\ ~(end /\ Releases(p)))
    /\ isSettling' = (isSettling /\ ~(end /\ p = "settle"))
    /\ freed' = IF end /\ p = "settle" THEN {} ELSE freed

\* getMissingHorizonSlots, whose error counts as "all missing"; the refill
\* deletes the cooldowns of the slots that were freed
ReadMissing(p, s, a) ==
    LET missing == {h \in Horizon : a # "ok" \/
                        ~ \E c \in Competition : Running(comp[c]) /\ InSlot(comp[c], <<s, h>>)}
        cooling == IF p = "settle" THEN cooldown \ {f \in freed : f[1] = s} ELSE cooldown
    IN
    /\ pc[p] = "category" /\ s \in cats[p] /\ Answered(a)
    /\ cooldown' = cooling
    /\ Continue(p, ({s} \X missing) \ cooling, cats[p] \ {s}, a # "ok")
    /\ UNCHANGED <<comp, pool, list, seen>>

\* createCompetition for the next slot: created, or given up (unique index,
\* any other error); a refusal by the cap settles by force and tries once more
NextSlot(p) == CHOOSE slot \in fill[p] : TRUE

Insert(p, a) ==
    LET slot == NextSlot(p)
        created == Takes(a) /\ Accepted(SeededRow(slot, p))
    IN
    /\ IF created THEN InsertRow(SeededRow(slot, p)) ELSE UNCHANGED <<comp, pool>>
    /\ cooldown' = IF created /\ a = "ok" THEN cooldown \union {slot} ELSE cooldown
    /\ Continue(p, fill[p] \ {slot}, cats[p], guessed[p])
    /\ UNCHANGED <<list, seen>>

CreateCompetition(p, a) ==
    /\ pc[p] = "insert" /\ Answered(a)
    /\ IF a = "ok" /\ AtCap(NextSlot(p)[1])
       THEN /\ CallAutoSettle(p, TRUE)
            /\ UNCHANGED <<comp, pool, memory, list, seen, cats, fill, guessed>>
       ELSE Insert(p, a)

RetryInsert(p, a) ==
    /\ pc[p] = "insertAgain" /\ Answered(a)
    /\ Insert(p, a)

-----------------------------------------------------------------------------
\* settleAndReplenish

SettleAndReplenish ==
    /\ pc["settle"] = "idle" /\ ~isSettling /\ ~isSeeding
    /\ isSettling' = TRUE
    /\ CallAutoSettle("settle", FALSE)
    /\ UNCHANGED <<comp, pool, isSeeding, cooldown, freed, list, seen, cats,
                   fill, guessed, faults, calls>>

\* Mutant: the query that was replaced, for competitions without an outcome.
Undecided == {c \in LiveIds : comp[c].phase = "ended" /\ comp[c].outcome = NoOutcome}

\* The unsettled pools whose competition is past its end, whatever its status.
Unsettled == {c \in Competition : PoolOpen(c) /\ comp[c].phase = "ended"}

\* the snapshot the run works from
ReadPools(a) ==
    LET ids == IF a = "ok" THEN Unsettled ELSE {} IN
    /\ pc["settle"] = "readPools" /\ Answered(a)
    /\ list' = [list EXCEPT !["settle"] = ids]
    /\ seen' = [c \in Competition |-> IF c \in ids THEN comp[c].outcome ELSE NoOutcome]
    /\ Goto("settle", IF ids = {} THEN "promote" ELSE "mark")
    /\ UNCHANGED <<comp, pool, memory, cats, fill, guessed>>

\* the outcome a process gives competition c: its snapshot's or a random one
Choice(p, c) ==
    IF p = "settle" /\ seen[c] # NoOutcome THEN {seen[c]} ELSE Outcome

Item(p) == CHOOSE c \in list[p] : \A d \in list[p] : c <= d

MarkSettled(p, o, a) ==
    LET c == Item(p) IN
    /\ pc[p] = "mark" /\ o \in Choice(p, c) /\ Answered(a)
    /\ comp' = IF Takes(a) THEN [comp EXCEPT ![c] = WithOutcome(comp[c], o)] ELSE comp
    /\ IF p = "resolve" /\ a # "ok"
       THEN Goto(p, "idle") /\ list' = [list EXCEPT ![p] = {}]
       ELSE Goto(p, "settlePool") /\ UNCHANGED list
    /\ UNCHANGED <<pool, memory, seen, cats, fill, guessed>>

\* Mutant: a competition without a horizon frees a slot too.
FreesAny(c) == {<<comp[c].sector, comp[c].horizon>>}

\* The slot a competition frees.
Frees(c) == IF comp[c].horizon = NoHorizon THEN {} ELSE {<<comp[c].sector, comp[c].horizon>>}

\* the end of the loop's body: the next competition, or what follows the loop
NextItem(p) ==
    LET c == Item(p)
        rest == list[p] \ {c}
    IN
    /\ list' = [list EXCEPT ![p] = rest]
    /\ Goto(p, CASE rest # {} -> "mark"
                 [] p = "settle" -> "promote"
                 [] p = "reset" -> "category"
                 [] OTHER -> "idle")
    /\ freed' = IF p = "settle" THEN freed \union Frees(c) ELSE freed
    /\ seen' = IF p = "settle" THEN [seen EXCEPT ![c] = NoOutcome] ELSE seen

\* settlePool, and settleAndReplenish's retry of the database function
CallSettlePool(p, label, a, Failed) ==
    LET c == Item(p) IN
    /\ pc[p] = label /\ Answered(a)
    /\ IF Takes(a) THEN pool' = Paid(c) /\ comp' = PaidRow(c)
                   ELSE UNCHANGED <<pool, comp>>
    /\ IF a = "ok" /\ PoolOpen(c) THEN NextItem(p) ELSE Failed
    /\ UNCHANGED <<isSeeding, isSettling, cooldown, cats, fill, guessed>>

SettlePool(p, a) ==
    CallSettlePool(p, "settlePool", a,
        IF p = "settle" THEN Goto(p, "retry") /\ UNCHANGED <<list, freed, seen>>
                        ELSE NextItem(p))
RetrySettlePool(a) ==
    CallSettlePool("settle", "retry", a,
        Goto("settle", "checkEmpty") /\ UNCHANGED <<list, freed, seen>>)

\* a pending pool without stakes is marked settled; stakes are left open here
CheckEmpty(empty, a) ==
    /\ pc["settle"] = "checkEmpty" /\ Answered(a)
    /\ IF a = "ok" /\ empty /\ PoolOpen(Item("settle"))
       THEN Goto("settle", "forceEmpty") /\ UNCHANGED <<list, freed, seen>>
       ELSE NextItem("settle")
    /\ UNCHANGED <<comp, pool, isSeeding, isSettling, cooldown, 
                   cats, fill, guessed>>

ForceEmpty(a) ==
    /\ pc["settle"] = "forceEmpty" /\ Answered(a)
    /\ pool' = IF Takes(a) THEN [pool EXCEPT ![Item("settle")] = "settled"] ELSE pool
    /\ NextItem("settle")
    /\ UNCHANGED <<comp, isSeeding, isSettling, cooldown, cats, fill, guessed>>

\* Mutant: the refill starts although a seeding run is under way.
RefillAnyway == freed # {}

MayRefill == freed # {} /\ ~isSeeding

\* promoteUpcoming, then the refill of the freed slots unless somebody seeds
PromoteUpcoming(a) ==
    LET ids == {c \in Competition : comp[c].status = "upcoming" /\ comp[c].phase = "open"} IN
    /\ pc["settle"] = "promote" /\ Answered(a)
    /\ comp' = IF Takes(a) THEN UpdateRows(ids, LAMBDA row : WithStatus(row, "active")) ELSE comp
    /\ Goto("settle", IF MayRefill THEN "category" ELSE "idle")
    /\ cats' = [cats EXCEPT !["settle"] = IF MayRefill THEN {f[1] : f \in freed} ELSE {}]
    /\ isSeeding' = (isSeeding \/ MayRefill)
    /\ isSettling' = MayRefill
    /\ freed' = IF MayRefill THEN freed ELSE {}
    /\ UNCHANGED <<pool, cooldown, list, seen, fill, guessed>>

-----------------------------------------------------------------------------
\* forceResetAndReseed, which looks at neither flag

ForceReset ==
    /\ Called
    /\ pc["reset"] = "idle"
    /\ cooldown' = {}
    /\ cats' = [cats EXCEPT !["reset"] = Sector]
    /\ CallAutoSettle("reset", TRUE)
    /\ UNCHANGED <<comp, pool, isSeeding, isSettling, freed, list, seen, fill,
                   guessed>>

ReadLive(a) ==
    LET ids == IF a = "ok" THEN LiveIds ELSE {} IN
    /\ pc["reset"] = "readLive" /\ Answered(a)
    /\ list' = [list EXCEPT !["reset"] = ids]
    /\ Goto("reset", IF ids = {} THEN "category" ELSE "mark")
    /\ UNCHANGED <<comp, pool, memory, seen, cats, fill, guessed>>

-----------------------------------------------------------------------------
\* Other writers: resolveCompetitionForEvent, POST /competitions,
\* POST /pool/settle, and updates of a row's other columns

ResolveEvent(c) ==
    /\ Called
    /\ pc["resolve"] = "idle"
    /\ comp[c].status \notin {"none", "settled"} /\ comp[c].horizon \in Horizon
    /\ list' = [list EXCEPT !["resolve"] = {c}]
    /\ Goto("resolve", "mark")
    /\ UNCHANGED <<comp, pool, memory, seen, cats, fill, guessed>>

CreateByHand(s, phase) ==
    /\ Called /\ Accepted(HandRow(s, phase)) /\ InsertRow(HandRow(s, phase))
    /\ UNCHANGED <<memory, work>>

SettleByHand(c) ==
    /\ Called
    /\ PoolOpen(c)
    /\ pool' = Paid(c) /\ comp' = PaidRow(c)
    /\ UNCHANGED <<memory, work>>

TouchRow(c) ==
    /\ comp[c].status # "none"
    /\ comp' = [comp EXCEPT ![c] = AutoStatus(comp[c])]
    /\ UNCHANGED <<pool, memory, work, faults, calls>>

-----------------------------------------------------------------------------
\* Time and restarts

Begin(c) ==
    /\ comp[c].status # "none" /\ comp[c].phase = "future"
    /\ comp' = [comp EXCEPT ![c].phase = "open"]
    /\ UNCHANGED <<pool, memory, work, faults, calls>>
End(c) ==
    /\ comp[c].status # "none" /\ comp[c].phase = "open"
    /\ comp' = [comp EXCEPT ![c].phase = "ended"]
    /\ UNCHANGED <<pool, memory, work, faults, calls>>
CooldownElapses(slot) ==
    /\ slot \in cooldown /\ cooldown' = cooldown \ {slot}
    /\ UNCHANGED <<comp, pool, isSeeding, isSettling, freed, work, faults, calls>>

\* the new server starts with onModuleInit; forceReset calls are not repeated
Restart ==
    /\ faults < MaxFaults /\ faults' = faults + 1
    /\ isSeeding' = FALSE /\ isSettling' = FALSE
    /\ cooldown' = {} /\ freed' = {}
    /\ pc' = [p \in Process |-> IF p = "boot" THEN "settleExpired" ELSE "idle"]
    /\ list' = [p \in Process |-> {}]
    /\ seen' = [c \in Competition |-> NoOutcome]
    /\ cats' = [p \in Process |-> {}] /\ fill' = [p \in Process |-> {}]
    /\ guessed' = [p \in Process |-> FALSE]
    /\ UNCHANGED <<comp, pool, calls>>

\* one await of process p answers
Step(p) == \E a \in Answer :
    \/ SettleExpired(p, a) \/ ReadExpired(p, a) \/ WriteExpired(p, a)
    \/ \E s \in Sector : ReadMissing(p, s, a)
    \/ CreateCompetition(p, a) \/ RetryInsert(p, a)
    \/ \E o \in Outcome : MarkSettled(p, o, a)
    \/ SettlePool(p, a)
    \/ p = "boot" /\ \/ ReadRetired(a) \/ CancelRetired(a)
                     \/ ReadDuplicates(a) \/ CancelDuplicates(a)
    \/ p = "settle" /\ \/ ReadPools(a) \/ RetrySettlePool(a)
                       \/ \E empty \in BOOLEAN : CheckEmpty(empty, a)
                       \/ ForceEmpty(a) \/ PromoteUpcoming(a)
    \/ p = "reset" /\ ReadLive(a)

TimePasses ==
    \/ \E c \in Competition : Begin(c) \/ End(c)
    \/ \E slot \in Slot : CooldownElapses(slot)

OtherWriters ==
    \/ \E c \in Competition : ResolveEvent(c) \/ SettleByHand(c) \/ TouchRow(c)
    \/ \E s \in Sector, phase \in {"future", "open"} : CreateByHand(s, phase)

Next == (\E p \in Process : Step(p)) \/ SeedAllCategories \/ SettleAndReplenish \/ ForceReset
        \/ OtherWriters \/ TimePasses \/ Restart

(***************************************************************************)
(* Every await is answered, time passes, and a cron whose guard is open    *)
(* again and again finds it open at one of its ticks.                      *)
(***************************************************************************)
Fairness ==
    /\ WF_vars(Step("seed")) /\ WF_vars(Step("settle"))
    /\ WF_vars(TimePasses)
    /\ SF_vars(SeedAllCategories) /\ SF_vars(SettleAndReplenish)

Spec == Init /\ [][Next]_vars /\ Fairness

-----------------------------------------------------------------------------
\* Properties

\* Somebody will still mark or cancel c. The fallback's list of expired ids does
\* not count: it settles whatever it has listed, and decides nothing.
Held(c) == \E p \in Process : c \in list[p] /\ pc[p] # "writeExpired"
Closed(c) == pool[c] = "settled" /\ comp[c].status = "settled"

\* The slots a cron is about to fill are still empty, or were filled by a force
\* reset, which ignores isSeeding: getMissingHorizonSlots reads them many awaits
\* before the inserts, and start-up, cron and refill must not overlap.
SeedsOnlyMissing ==
    \A p \in {"seed", "settle"} : \A slot \in fill[p] :
        guessed[p] \/ \A c \in Competition :
            Running(comp[c]) /\ InSlot(comp[c], slot) => comp[c].forced

\* Once a competition and its pool are settled and nobody who marks or cancels
\* works from a list read before, its status and outcome never change again and
\* nobody takes it up again: neither the COALESCE of the auto-settlement, the
\* fallback's update by ids, however old they are, the start-up clean-up, a
\* repeated settlement nor a reset reopens it.
SettledIsFinal ==
    [][\A c \in Competition : Closed(c) /\ ~Held(c) =>
        /\ comp'[c].status = "settled" /\ comp'[c].outcome = comp[c].outcome
        /\ pool'[c] = "settled" /\ ~Held(c)']_vars

\* Every competition whose end has passed has its pool settled and is not active
\* any more, whatever failed on the way and wherever the server stopped: also one
\* that was cancelled at start-up, or made by hand and never promoted.
ExpiredIsPaid ==
    \A c \in Competition :
        comp[c].phase = "ended" ~> pool[c] = "settled" /\ comp[c].status # "active"

\* An empty slot is filled again, unless competitions outside the slots use up
\* the cap of the sector (or the instance has no row left).
Filled(slot) == \E c \in Competition : Running(comp[c]) /\ InSlot(comp[c], slot)
SlotsAreRefilled ==
    \A slot \in Slot :
        ~Filled(slot) ~> (Filled(slot) \/ AtCap(slot[1]) \/ Unused = {})
=============================================================================
