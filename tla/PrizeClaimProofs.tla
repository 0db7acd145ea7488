-------------------------- MODULE PrizeClaimProofs --------------------------
(***************************************************************************)
(* Theorems about PrizeClaim for any number of winners, wallets, requests, *)
(* servers and pools.                                                      *)
(***************************************************************************)
EXTENDS PrizeClaim, TLAPS

USE DEF MAX_RETRIES

-----------------------------------------------------------------------------
(* Type correctness *)

LEMMA RowTypes ==
    ASSUME TypeOK, NEW r \in Request
    PROVE  /\ W(r) \in Winner
           /\ job[r].server \in Server
           /\ LockedRow(r) \in Row
           /\ RolledBackRow \in Row
BY ConstantsAssumption DEF ConstantsAssumption, TypeOK, Job, W, LockedRow, RolledBackRow, Row

LEMMA AuditTypes ==
    ASSUME TypeOK, NEW r \in Request, NEW p,
           NEW e \in AuditRow,
           InsertAudit(p, e)
    PROVE  audit' \subseteq AuditRow
BY DEF TypeOK, InsertAudit

LEMMA RejectTypes ==
    ASSUME TypeOK, NEW r \in Request, Reject(r)
    PROVE  /\ pc' \in [Request -> Label]
           /\ audit' \subseteq AuditRow
<1>1. pc' \in [Request -> Label]
  BY DEF Reject, Goto, TypeOK, Label
<1>2. audit' \subseteq AuditRow
  BY AuditTypes DEF Reject, LogClaimAttempt, AuditRow
<1>. QED BY <1>1, <1>2

\* The nested updates of the ledger and of a claim row, pointwise.
LEMMA TxUpdate ==
    ASSUME TypeOK, NEW r \in Request, NEW n \in Attempt, NEW v \in TxState,
           SetTx(r, n, v)
    PROVE  /\ tx' \in [Request -> [Attempt -> TxState]]
           /\ \A q \in Request, m \in Attempt :
                 tx'[q][m] = IF q = r /\ m = n THEN v ELSE tx[q][m]
<1>1. tx'[r] = [tx[r] EXCEPT ![n] = v] /\ tx[r] \in [Attempt -> TxState]
  BY DEF TypeOK, SetTx
<1>2. \A q \in Request : q # r => tx'[q] = tx[q]
  BY DEF TypeOK, SetTx
<1>3. tx'[r] \in [Attempt -> TxState]
  BY <1>1
<1>4. tx' = [q \in Request |-> tx'[q]]
  BY DEF TypeOK, SetTx
<1>. QED BY <1>1, <1>2, <1>3, <1>4 DEF TypeOK

LEMMA SignatureUpdate ==
    ASSUME TypeOK, NEW w \in Winner,
           row' = [row EXCEPT ![w].disburse_tx = "signature"]
    PROVE  /\ row' \in [Winner -> Row]
           /\ \A v \in Winner : row'[v].claimed = row[v].claimed
                /\ row'[v].winner_wallet = row[v].winner_wallet
<1>1. row[w] \in Row
  BY DEF TypeOK
<1>2. [row[w] EXCEPT !.disburse_tx = "signature"] \in Row
  BY <1>1 DEF Row
<1>3. row' = [row EXCEPT ![w] = [row[w] EXCEPT !.disburse_tx = "signature"]]
  OBVIOUS
<1>4. row' \in [Winner -> Row]
  BY <1>2, <1>3 DEF TypeOK
<1>. QED BY <1>1, <1>3, <1>4 DEF TypeOK, Row

LEMMA FreshUpdate ==
    ASSUME TypeOK, NEW w \in Winner,
           row' = [row EXCEPT ![w].fresh = FALSE]
    PROVE  /\ row' \in [Winner -> Row]
           /\ \A v \in Winner : row'[v].claimed = row[v].claimed
                /\ row'[v].winner_wallet = row[v].winner_wallet
<1>1. row[w] \in Row
  BY DEF TypeOK
<1>2. [row[w] EXCEPT !.fresh = FALSE] \in Row
  BY <1>1 DEF Row
<1>3. row' = [row EXCEPT ![w] = [row[w] EXCEPT !.fresh = FALSE]]
  OBVIOUS
<1>4. row' \in [Winner -> Row]
  BY <1>2, <1>3 DEF TypeOK
<1>. QED BY <1>1, <1>3, <1>4 DEF TypeOK, Row

LEMMA InitType == Init => TypeOK
BY ConstantsAssumption DEF ConstantsAssumption, Init, TypeOK, UnclaimedRow, Row, Label, Attempt, TxState

LEMMA StepType == TypeOK /\ [Next]_vars => TypeOK'
<1>. SUFFICES ASSUME TypeOK, [Next]_vars PROVE TypeOK'
  OBVIOUS
<1>1. ASSUME NEW r \in Request, Enter(r) PROVE TypeOK'
  <2>1. pc' \in [Request -> Label]
    BY <1>1 DEF Enter, Goto, TypeOK, Label
  <2>2. claimLocks' \in [Server -> SUBSET Winner]
    BY <1>1, RowTypes DEF Enter, TypeOK
  <2>. QED BY <1>1, <2>1, <2>2 DEF Enter, TypeOK, dbVars
<1>2. ASSUME NEW r \in Request, FetchWinner(r) PROVE TypeOK'
  <2>1. seenWallet' \in [Request -> Wallet \union {NoWallet}]
    BY <1>2, RowTypes DEF FetchWinner, TypeOK, Row
  <2>2. pc' \in [Request -> Label]
    BY <1>2, RejectTypes DEF FetchWinner, Goto, TypeOK, Label
  <2>3. audit' \subseteq AuditRow
    BY <1>2, RejectTypes DEF FetchWinner, TypeOK
  <2>. QED BY <1>2, <2>1, <2>2, <2>3 DEF FetchWinner, TypeOK
<1>3. ASSUME NEW r \in Request, Validate(r) PROVE TypeOK'
  <2>1. pc' \in [Request -> Label]
    BY <1>3, RejectTypes DEF Validate, Goto, TypeOK, Label
  <2>2. audit' \subseteq AuditRow
    BY <1>3, RejectTypes DEF Validate, TypeOK
  <2>. QED BY <1>3, <2>1, <2>2 DEF Validate, TypeOK
<1>4. ASSUME NEW r \in Request, CheckDailyLimit(r) PROVE TypeOK'
  <2>1. pc' \in [Request -> Label]
    BY <1>4, RejectTypes DEF CheckDailyLimit, Goto, TypeOK, Label
  <2>2. audit' \subseteq AuditRow
    BY <1>4, RejectTypes DEF CheckDailyLimit, TypeOK
  <2>. QED BY <1>4, <2>1, <2>2 DEF CheckDailyLimit, TypeOK
<1>5. ASSUME NEW r \in Request, LockRow(r) PROVE TypeOK'
  <2>1. pc' \in [Request -> Label]
    BY <1>5, RejectTypes DEF LockRow, Goto, TypeOK, Label
  <2>2. audit' \subseteq AuditRow
    BY <1>5, RejectTypes DEF LockRow, TypeOK
  <2>3. row' \in [Winner -> Row]
    BY <1>5, RowTypes DEF LockRow, TypeOK
  <2>. QED BY <1>5, <2>1, <2>2, <2>3 DEF LockRow, TypeOK
<1>6. ASSUME NEW r \in Request, SendTransfer(r) PROVE TypeOK'
  <2>1. tx' \in [Request -> [Attempt -> TxState]]
    BY <1>6, TxUpdate DEF SendTransfer, TypeOK, TxState
  <2>2. attempt' \in [Request -> 0 .. MAX_RETRIES]
    BY <1>6 DEF SendTransfer, TypeOK, Attempt
  <2>3. pc' \in [Request -> Label]
    BY <1>6 DEF SendTransfer, Goto, TypeOK, Label
  <2>. QED BY <1>6, <2>1, <2>2, <2>3 DEF SendTransfer, TypeOK, dbVars
<1>7. ASSUME NEW r \in Request, ConfirmTransfer(r) PROVE TypeOK'
  BY <1>7 DEF ConfirmTransfer, Goto, TypeOK, Label, dbVars
<1>8. ASSUME NEW r \in Request, FailTransfer(r) PROVE TypeOK'
  BY <1>8 DEF FailTransfer, Goto, TypeOK, Label, dbVars
<1>9. ASSUME NEW r \in Request, Rollback(r) PROVE TypeOK'
  <2>1. pc' \in [Request -> Label] /\
        audit' \subseteq AuditRow
    BY <1>9, RejectTypes DEF Rollback
  <2>2. row' \in [Winner -> Row]
    BY <1>9, RowTypes DEF Rollback, TypeOK
  <2>. QED BY <1>9, <2>1, <2>2 DEF Rollback, TypeOK
<1>10. ASSUME NEW r \in Request, RecordSignature(r) PROVE TypeOK'
  <2>1. row' \in [Winner -> Row]
    BY <1>10, RowTypes, SignatureUpdate DEF RecordSignature, TypeOK
  <2>. QED BY <1>10, <2>1 DEF RecordSignature, Goto, TypeOK, Label
<1>11. ASSUME NEW r \in Request, AuditClaim(r) PROVE TypeOK'
  <2>1. audit' \subseteq AuditRow
    BY <1>11, AuditTypes DEF AuditClaim, TypeOK, AuditRow
  <2>. QED BY <1>11, <2>1 DEF AuditClaim, Goto, TypeOK, Label
<1>12. ASSUME NEW r \in Request, ReadDisburseTxs(r) PROVE TypeOK'
  <2>1. PoolOf[W(r)] \in Pool
    BY RowTypes, ConstantsAssumption DEF ConstantsAssumption
  <2>. QED BY <1>12, <2>1 DEF ReadDisburseTxs, Goto, TypeOK, Label, dbVars
<1>13. ASSUME NEW r \in Request, WriteDisburseTxs(r) PROVE TypeOK'
  <2>1. PoolOf[W(r)] \in Pool /\ W(r) \in Winner
    BY RowTypes, ConstantsAssumption DEF ConstantsAssumption
  <2>2. disburseTxs' \in [Pool -> SUBSET Winner]
    <3>1. txsRead[r] \union {W(r)} \in SUBSET Winner
      BY <2>1 DEF TypeOK
    <3>. QED BY <1>13, <2>1, <3>1 DEF WriteDisburseTxs, TypeOK
  <2>. QED BY <1>13, <2>2 DEF WriteDisburseTxs, Goto, TypeOK, Label
<1>14. ASSUME NEW r \in Request, ReleaseLock(r) PROVE TypeOK'
  BY <1>14 DEF ReleaseLock, Goto, TypeOK, Label, dbVars
<1>15. ASSUME NEW r \in Request, NEW n \in Attempt, Settle(r, n) PROVE TypeOK'
  <2>1. tx' \in [Request -> [Attempt -> TxState]]
    BY <1>15, TxUpdate DEF Settle, Land, Drop, TxState
  <2>. QED BY <1>15, <2>1 DEF Settle, Land, Drop, TypeOK, dbVars
<1>16. ASSUME NEW w \in Winner, AgeOut(w) PROVE TypeOK'
  BY <1>16, FreshUpdate DEF AgeOut, TypeOK
<1>17. ASSUME NEW s \in Server, Crash(s) PROVE TypeOK'
  BY <1>17 DEF Crash, TypeOK, Label, dbVars
<1>18. CASE UNCHANGED vars
  BY <1>18 DEF TypeOK, vars, dbVars
<1>. QED
  BY <1>1, <1>2, <1>3, <1>4, <1>5, <1>6, <1>7, <1>8, <1>9, <1>10, <1>11, <1>12,
     <1>13, <1>14, <1>15, <1>16, <1>17, <1>18 DEF Next, ClaimStep

\* Every variable keeps its type in every behaviour of claimPrize.
THEOREM TypeCorrect == Spec => []TypeOK
BY InitType, StepType, PTL DEF Spec

-----------------------------------------------------------------------------
(* One claim at a time, and a confirmed claim is final.                    *)
(*                                                                         *)
(* ExclusiveClaim is inductive only together with what it means for a      *)
(* request to have been confirmed: it is past the transfer, its row is     *)
(* still locked, and nobody else holds or has been confirmed for the row.  *)

AfterConfirm == {"record", "audit", "read_txs", "write_txs", "exit", "done"}

ConfirmedInv ==
    \A r \in confirmed :
        /\ row[W(r)].claimed
        /\ pc[r] \in AfterConfirm
        /\ \A q \in Request : (Holding(q) \/ q \in confirmed) /\ W(q) = W(r) => q = r

ClaimInv == TypeOK /\ ExclusiveClaim /\ ConfirmedInv

\* A step that locks no row, gives none back, confirms nobody and lets
\* nobody become a holder keeps the invariant.
LEMMA QuietStep ==
    ASSUME ClaimInv, TypeOK', job' = job, confirmed' = confirmed,
           \A w \in Winner : /\ row'[w].claimed = row[w].claimed
                             /\ row'[w].winner_wallet = row[w].winner_wallet,
           \A q \in Request : Holding(q)' => Holding(q),
           \A q \in confirmed : pc'[q] \in AfterConfirm
    PROVE  ClaimInv'
<1>1. \A q \in Request : W(q) \in Winner /\ W(q)' = W(q)
  BY DEF ClaimInv, TypeOK, Job, W
<1>2. ExclusiveClaim'
  BY <1>1 DEF ClaimInv, ExclusiveClaim
<1>3. ConfirmedInv'
  BY <1>1 DEF ClaimInv, ConfirmedInv, TypeOK
<1>. QED BY <1>2, <1>3 DEF ClaimInv

LEMMA LockRowInv ==
    ASSUME ClaimInv, TypeOK', NEW r \in Request, LockRow(r)
    PROVE  ClaimInv'
<1>. USE DEF ClaimInv
<1>1. \A q \in Request : W(q) \in Winner /\ W(q)' = W(q)
  BY DEF TypeOK, Job, W, LockRow
<1>2. pc[r] = "lock" /\ (pc'[r] = "send" \/ pc'[r] = "exit")
      /\ \A q \in Request : q # r => pc'[q] = pc[q]
  BY DEF LockRow, Reject, Goto, TypeOK
<1>3. confirmed' = confirmed /\ job' = job
  BY DEF LockRow
<1>4. r \notin confirmed
  BY <1>2 DEF ConfirmedInv, AfterConfirm
<1>5. CASE UNCHANGED row
  <2>1. pc'[r] = "exit"
    BY <1>2, <1>5, RowTypes DEF LockRow, LockedRow, Reject, Goto, TypeOK, Row
  <2>2. \A q \in Request : Holding(q)' => Holding(q)
    BY <1>2, <2>1 DEF Holding
  <2>3. \A q \in confirmed : pc'[q] \in AfterConfirm
    BY <1>2, <1>4 DEF ConfirmedInv, TypeOK
  <2>. QED BY <1>3, <1>5, <2>2, <2>3, QuietStep
<1>6. CASE /\ ~row[W(r)].claimed
           /\ row' = [row EXCEPT ![W(r)] = LockedRow(r)]
  <2>1. row'[W(r)] = LockedRow(r) /\ \A w \in Winner : w # W(r) => row'[w] = row[w]
    BY <1>1, <1>6 DEF TypeOK
  <2>2. \A q \in Request : Holding(q) \/ q \in confirmed => W(q) # W(r)
    BY <1>6 DEF ExclusiveClaim, ConfirmedInv
  <2>3. \A q \in Request : Holding(q)' => q = r \/ Holding(q)
    BY <1>2 DEF Holding
  <2>4. ExclusiveClaim'
    BY <1>1, <1>3, <2>1, <2>2, <2>3 DEF ExclusiveClaim, LockedRow
  <2>5. ConfirmedInv'
    BY <1>1, <1>2, <1>3, <1>4, <2>1, <2>2, <2>3 DEF ConfirmedInv, TypeOK
  <2>. QED BY <2>4, <2>5
<1>. QED BY <1>5, <1>6 DEF LockRow

LEMMA ConfirmTransferInv ==
    ASSUME ClaimInv, TypeOK', NEW r \in Request, ConfirmTransfer(r)
    PROVE  ClaimInv'
<1>. USE DEF ClaimInv
<1>1. \A q \in Request : W(q) \in Winner /\ W(q)' = W(q)
  BY DEF TypeOK, Job, W, ConfirmTransfer
<1>2. pc[r] = "confirm" /\ pc'[r] = "record"
      /\ \A q \in Request : q # r => pc'[q] = pc[q]
  BY DEF ConfirmTransfer, Goto, TypeOK
<1>3. row' = row /\ job' = job /\ confirmed' = confirmed \union {r}
  BY DEF ConfirmTransfer, dbVars
<1>4. \A q \in Request : Holding(q)' <=> Holding(q)
  BY <1>2 DEF Holding
<1>5. Holding(r)
  BY <1>2 DEF Holding
<1>6. \A q \in confirmed : q # r /\ W(q) # W(r)
  BY <1>2, <1>5 DEF ConfirmedInv, AfterConfirm
<1>7. ExclusiveClaim'
  BY <1>1, <1>3, <1>4 DEF ExclusiveClaim
<1>8. ConfirmedInv'
  <2>. SUFFICES ASSUME NEW q \in confirmed'
                PROVE  /\ row'[W(q)'].claimed
                       /\ pc'[q] \in AfterConfirm
                       /\ \A p \in Request : (Holding(p)' \/ p \in confirmed') /\ W(p)' = W(q)' => p = q
    BY DEF ConfirmedInv
  <2>1. CASE q = r
    BY <1>1, <1>2, <1>3, <1>4, <1>5, <1>6, <2>1 DEF ExclusiveClaim, AfterConfirm
  <2>2. CASE q # r
    BY <1>1, <1>2, <1>3, <1>4, <1>6, <2>2 DEF ConfirmedInv, TypeOK
  <2>. QED BY <2>1, <2>2
<1>. QED BY <1>7, <1>8

LEMMA RollbackInv ==
    ASSUME ClaimInv, TypeOK', NEW r \in Request, Rollback(r)
    PROVE  ClaimInv'
<1>. USE DEF ClaimInv
<1>1. \A q \in Request : W(q) \in Winner /\ W(q)' = W(q)
  BY DEF TypeOK, Job, W, Rollback
<1>2. pc[r] = "rollback" /\ pc'[r] = "exit"
      /\ \A q \in Request : q # r => pc'[q] = pc[q]
  BY DEF Rollback, Reject, Goto, TypeOK
<1>3. job' = job /\ confirmed' = confirmed
  BY DEF Rollback
<1>4. \A w \in Winner : w # W(r) => row'[w] = row[w]
  BY <1>1 DEF Rollback, TypeOK
<1>5. Holding(r) /\ ~Holding(r)'
  BY <1>2 DEF Holding
<1>6. \A q \in Request : Holding(q)' => Holding(q) /\ W(q) # W(r)
  BY <1>2, <1>5 DEF Holding, ExclusiveClaim
<1>7. \A q \in confirmed : q # r /\ W(q) # W(r)
  BY <1>2, <1>5 DEF ConfirmedInv, AfterConfirm
<1>8. ExclusiveClaim'
  BY <1>1, <1>3, <1>4, <1>6 DEF ExclusiveClaim
<1>9. ConfirmedInv'
  BY <1>1, <1>2, <1>3, <1>4, <1>6, <1>7 DEF ConfirmedInv, TypeOK
<1>. QED BY <1>8, <1>9

LEMMA StepClaimInv == ClaimInv /\ [Next]_vars => ClaimInv'
<1>. SUFFICES ASSUME ClaimInv, [Next]_vars PROVE ClaimInv'
  OBVIOUS
<1>. USE DEF ClaimInv
<1>0. TypeOK'
  BY StepType
<1>1. ASSUME NEW r \in Request,
             \/ Enter(r) \/ FetchWinner(r) \/ Validate(r) \/ CheckDailyLimit(r)
             \/ SendTransfer(r) \/ FailTransfer(r) \/ AuditClaim(r)
             \/ ReadDisburseTxs(r) \/ WriteDisburseTxs(r) \/ ReleaseLock(r)
      PROVE  ClaimInv'
  <2>1. job' = job /\ confirmed' = confirmed /\ row' = row
    BY <1>1 DEF Enter, FetchWinner, Validate, CheckDailyLimit, SendTransfer, FailTransfer,
                AuditClaim, ReadDisburseTxs, WriteDisburseTxs, ReleaseLock, dbVars
  <2>2. \A q \in Request : q # r => pc'[q] = pc[q]
    BY <1>1 DEF Enter, FetchWinner, Validate, CheckDailyLimit, SendTransfer, FailTransfer,
                AuditClaim, ReadDisburseTxs, WriteDisburseTxs, ReleaseLock, Reject, Goto, TypeOK
  <2>3. Holding(r)' => Holding(r)
    BY <1>1 DEF Enter, FetchWinner, Validate, CheckDailyLimit, SendTransfer, FailTransfer,
                AuditClaim, ReadDisburseTxs, WriteDisburseTxs, ReleaseLock, Reject, Goto,
                TypeOK, Holding
  <2>4. pc[r] \in AfterConfirm => pc'[r] \in AfterConfirm
    BY <1>1 DEF Enter, FetchWinner, Validate, CheckDailyLimit, SendTransfer, FailTransfer,
                AuditClaim, ReadDisburseTxs, WriteDisburseTxs, ReleaseLock, Reject, Goto,
                TypeOK, AfterConfirm
  <2>5. \A q \in Request : Holding(q)' => Holding(q)
    BY <2>2, <2>3 DEF Holding
  <2>6. \A q \in confirmed : pc'[q] \in AfterConfirm
    BY <2>2, <2>4 DEF ConfirmedInv, TypeOK
  <2>. QED BY <1>0, <2>1, <2>5, <2>6, QuietStep
<1>2. ASSUME NEW r \in Request, LockRow(r) PROVE ClaimInv'
  BY <1>0, <1>2, LockRowInv
<1>3. ASSUME NEW r \in Request, ConfirmTransfer(r) PROVE ClaimInv'
  BY <1>0, <1>3, ConfirmTransferInv
<1>4. ASSUME NEW r \in Request, Rollback(r) PROVE ClaimInv'
  BY <1>0, <1>4, RollbackInv
<1>5. ASSUME NEW r \in Request, RecordSignature(r) PROVE ClaimInv'
  <2>1. \A w \in Winner : /\ row'[w].claimed = row[w].claimed
                          /\ row'[w].winner_wallet = row[w].winner_wallet
    BY <1>5, SignatureUpdate, RowTypes DEF RecordSignature
  <2>2. pc[r] = "record" /\ pc'[r] = "audit" /\ \A q \in Request : q # r => pc'[q] = pc[q]
    BY <1>5 DEF RecordSignature, Goto, TypeOK
  <2>3. \A q \in Request : Holding(q)' => Holding(q)
    BY <2>2 DEF Holding
  <2>4. \A q \in confirmed : pc'[q] \in AfterConfirm
    BY <2>2 DEF ConfirmedInv, TypeOK, AfterConfirm
  <2>. QED BY <1>0, <1>5, <2>1, <2>3, <2>4, QuietStep DEF RecordSignature
<1>6. ASSUME NEW r \in Request, NEW n \in Attempt, Settle(r, n) PROVE ClaimInv'
  <2>1. row' = row /\ job' = job /\ confirmed' = confirmed /\ pc' = pc
    BY <1>6 DEF Settle, Land, Drop, dbVars
  <2>2. \A q \in Request : Holding(q)' => Holding(q)
    BY <2>1 DEF Holding
  <2>3. \A q \in confirmed : pc'[q] \in AfterConfirm
    BY <2>1 DEF ConfirmedInv
  <2>. QED BY <1>0, <2>1, <2>2, <2>3, QuietStep
<1>7. ASSUME NEW w \in Winner, AgeOut(w) PROVE ClaimInv'
  <2>1. \A v \in Winner : /\ row'[v].claimed = row[v].claimed
                          /\ row'[v].winner_wallet = row[v].winner_wallet
    BY <1>7, FreshUpdate DEF AgeOut
  <2>2. job' = job /\ confirmed' = confirmed /\ pc' = pc
    BY <1>7 DEF AgeOut
  <2>3. \A q \in Request : Holding(q)' => Holding(q)
    BY <2>2 DEF Holding
  <2>4. \A q \in confirmed : pc'[q] \in AfterConfirm
    BY <2>2 DEF ConfirmedInv
  <2>. QED BY <1>0, <2>1, <2>2, <2>3, <2>4, QuietStep
<1>8. ASSUME NEW s \in Server, Crash(s) PROVE ClaimInv'
  <2>1. row' = row /\ job' = job /\ confirmed' = confirmed
    BY <1>8 DEF Crash, dbVars
  <2>2. \A q \in Request : pc'[q] = "done" \/ pc'[q] = pc[q]
    BY <1>8 DEF Crash
  <2>3. \A q \in Request : Holding(q)' => Holding(q)
    BY <2>2 DEF Holding
  <2>4. \A q \in confirmed : pc'[q] \in AfterConfirm
    BY <2>2 DEF ConfirmedInv, AfterConfirm, TypeOK
  <2>. QED BY <1>0, <2>1, <2>3, <2>4, QuietStep
<1>9. CASE UNCHANGED vars
  <2>1. row' = row /\ job' = job /\ confirmed' = confirmed /\ pc' = pc
    BY <1>9 DEF vars, dbVars
  <2>2. \A q \in Request : Holding(q)' => Holding(q)
    BY <2>1 DEF Holding
  <2>3. \A q \in confirmed : pc'[q] \in AfterConfirm
    BY <2>1 DEF ConfirmedInv
  <2>. QED BY <1>0, <2>1, <2>2, <2>3, QuietStep
<1>. QED
  BY <1>1, <1>2, <1>3, <1>4, <1>5, <1>6, <1>7, <1>8, <1>9 DEF Next, ClaimStep

LEMMA InitClaimInv == Init => ClaimInv
<1>1. Init => ExclusiveClaim
  BY DEF Init, ExclusiveClaim, Holding
<1>2. Init => ConfirmedInv
  BY DEF Init, ConfirmedInv
<1>. QED BY <1>1, <1>2, InitType DEF ClaimInv

LEMMA ClaimInvariant == Spec => []ClaimInv
BY InitClaimInv, StepClaimInv, PTL DEF Spec

\* Whatever crashes, lost answers and untrustworthy confirmations happen,
\* at most one request at a time drives the transfer of a prize, on any
\* number of servers, and the row carries that request's lock.
THEOREM ClaimsAreExclusive == Spec => []ExclusiveClaim
BY ClaimInvariant, PTL DEF ClaimInv

\* A prize whose transfer a server saw confirmed is never claimed again.
THEOREM ConfirmedClaimsAreFinal == Spec => []ConfirmedClaimIsFinal
<1>1. ClaimInv => ConfirmedClaimIsFinal
  BY DEF ClaimInv, ConfirmedInv, ConfirmedClaimIsFinal, TypeOK
<1>. QED BY <1>1, ClaimInvariant, PTL

-----------------------------------------------------------------------------
(* What is written about claims                                            *)

Paying == {"record", "audit", "read_txs", "write_txs"}

\* A request that writes records was confirmed; the records and the copies of
\* onchain_disburse_txs name winners of confirmed requests only.
RecordsInv ==
    /\ \A r \in Request : pc[r] \in Paying => r \in confirmed
    /\ \A p \in Pool : \A w \in disburseTxs[p] : \E r \in confirmed : W(r) = w
    /\ \A q \in Request : \A w \in txsRead[q] : \E r \in confirmed : W(r) = w
    /\ \A e \in audit : e.event = "prize_claimed" /\ e.req \in confirmed

\* logClaimAttempt names a pool that does not exist, so it records nothing.
LEMMA RejectWritesNothing ==
    ASSUME NEW r \in Request, Reject(r)
    PROVE  audit' = audit
BY ConstantsAssumption DEF ConstantsAssumption, Reject, LogClaimAttempt, InsertAudit

LEMMA StepRecordsInv == TypeOK /\ RecordsInv /\ [Next]_vars => RecordsInv'
<1>. SUFFICES ASSUME TypeOK, RecordsInv, [Next]_vars PROVE RecordsInv'
  OBVIOUS
<1>1. ASSUME NEW r \in Request,
             \/ Enter(r) \/ FetchWinner(r) \/ Validate(r) \/ CheckDailyLimit(r) \/ LockRow(r)
             \/ SendTransfer(r) \/ FailTransfer(r) \/ Rollback(r) \/ RecordSignature(r)
             \/ ReleaseLock(r)
      PROVE  RecordsInv'
  <2>1. /\ job' = job /\ confirmed' = confirmed /\ disburseTxs' = disburseTxs
        /\ txsRead' = txsRead
    BY <1>1 DEF Enter, FetchWinner, Validate, CheckDailyLimit, LockRow, SendTransfer,
                FailTransfer, Rollback, RecordSignature, ReleaseLock, dbVars
  <2>2. audit' = audit
    BY <1>1, RejectWritesNothing
       DEF Enter, FetchWinner, Validate, CheckDailyLimit, LockRow, SendTransfer,
           FailTransfer, Rollback, RecordSignature, ReleaseLock, dbVars
  <2>3. \A q \in Request : pc'[q] \in Paying => pc[q] \in Paying
    BY <1>1 DEF Enter, FetchWinner, Validate, CheckDailyLimit, LockRow, SendTransfer,
                FailTransfer, Rollback, RecordSignature, ReleaseLock, Reject, Goto,
                TypeOK, Paying
  <2>. QED BY <2>1, <2>2, <2>3 DEF RecordsInv, W
<1>2. ASSUME NEW r \in Request, ConfirmTransfer(r) PROVE RecordsInv'
  <2>1. /\ job' = job /\ confirmed' = confirmed \union {r} /\ disburseTxs' = disburseTxs
        /\ txsRead' = txsRead /\ audit' = audit
    BY <1>2 DEF ConfirmTransfer, dbVars
  <2>2. \A q \in Request : q # r => pc'[q] = pc[q]
    BY <1>2 DEF ConfirmTransfer, Goto, TypeOK
  <2>. QED BY <2>1, <2>2 DEF RecordsInv, W
<1>3. ASSUME NEW r \in Request, AuditClaim(r) PROVE RecordsInv'
  <2>1. /\ job' = job /\ confirmed' = confirmed /\ disburseTxs' = disburseTxs
        /\ txsRead' = txsRead /\ pc[r] = "audit"
    BY <1>3 DEF AuditClaim
  <2>2. audit' \subseteq audit \union {[event |-> "prize_claimed", req |-> r]}
    BY <1>3 DEF AuditClaim, InsertAudit
  <2>3. \A q \in Request : pc'[q] \in Paying => pc[q] \in Paying
    BY <1>3 DEF AuditClaim, Goto, TypeOK, Paying
  <2>4. r \in confirmed
    BY <2>1 DEF RecordsInv, Paying
  <2>. QED BY <2>1, <2>2, <2>3, <2>4 DEF RecordsInv, W
<1>4. ASSUME NEW r \in Request, ReadDisburseTxs(r) PROVE RecordsInv'
  <2>1. /\ job' = job /\ confirmed' = confirmed /\ disburseTxs' = disburseTxs
        /\ audit' = audit /\ PoolOf[W(r)] \in Pool
    BY <1>4, RowTypes, ConstantsAssumption DEF ReadDisburseTxs, dbVars, ConstantsAssumption
  <2>2. \A q \in Request : pc'[q] \in Paying => pc[q] \in Paying
    BY <1>4 DEF ReadDisburseTxs, Goto, TypeOK, Paying
  <2>3. \A q \in Request : txsRead'[q] \subseteq txsRead[q] \union disburseTxs[PoolOf[W(r)]]
    BY <1>4 DEF ReadDisburseTxs, TypeOK
  <2>. QED BY <2>1, <2>2, <2>3 DEF RecordsInv, W
<1>5. ASSUME NEW r \in Request, WriteDisburseTxs(r) PROVE RecordsInv'
  <2>1. /\ job' = job /\ confirmed' = confirmed /\ txsRead' = txsRead
        /\ audit' = audit /\ pc[r] = "write_txs"
    BY <1>5 DEF WriteDisburseTxs
  <2>2. \A q \in Request : pc'[q] \in Paying => pc[q] \in Paying
    BY <1>5 DEF WriteDisburseTxs, Goto, TypeOK, Paying
  <2>3. \A p \in Pool : disburseTxs'[p] \subseteq disburseTxs[p] \union txsRead[r] \union {W(r)}
    BY <1>5 DEF WriteDisburseTxs, TypeOK
  <2>4. r \in confirmed
    BY <2>1 DEF RecordsInv, Paying
  <2>5. \A w \in txsRead[r] \union {W(r)} : \E q \in confirmed : W(q) = w
    BY <2>4 DEF RecordsInv
  <2>6. \A p \in Pool : \A w \in disburseTxs'[p] : \E q \in confirmed : W(q) = w
    BY <2>3, <2>5 DEF RecordsInv
  <2>. QED BY <2>1, <2>2, <2>6 DEF RecordsInv, W
<1>6. ASSUME NEW s \in Server, Crash(s) PROVE RecordsInv'
  <2>1. /\ job' = job /\ confirmed' = confirmed /\ disburseTxs' = disburseTxs
        /\ txsRead' = txsRead /\ audit' = audit
    BY <1>6 DEF Crash, dbVars
  <2>2. \A q \in Request : pc'[q] \in Paying => pc[q] \in Paying
    BY <1>6 DEF Crash, Paying
  <2>. QED BY <2>1, <2>2 DEF RecordsInv, W
<1>7. CASE \/ \E r \in Request, n \in Attempt : Settle(r, n)
           \/ \E w \in Winner : AgeOut(w)
           \/ UNCHANGED vars
  <2>1. /\ job' = job /\ confirmed' = confirmed /\ disburseTxs' = disburseTxs
        /\ txsRead' = txsRead /\ audit' = audit /\ pc' = pc
    BY <1>7 DEF Settle, Land, Drop, AgeOut, vars, dbVars
  <2>. QED BY <2>1 DEF RecordsInv, W
<1>. QED
  BY <1>1, <1>2, <1>3, <1>4, <1>5, <1>6, <1>7 DEF Next, ClaimStep

\* Whatever fails, the audit table and onchain_disburse_txs speak only of
\* claims whose transfer was confirmed.
THEOREM RecordsAreTruthful == Spec => []RecordsTruthful
<1>1. Init => RecordsInv
  BY DEF Init, RecordsInv, Paying
<1>2. RecordsInv => RecordsTruthful
  BY DEF RecordsInv, RecordsTruthful
<1>. QED BY <1>1, <1>2, StepRecordsInv, TypeCorrect, PTL DEF Spec
=============================================================================
