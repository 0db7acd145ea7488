------------------------- MODULE PrizePaymentProofs -------------------------
(***************************************************************************)
(* What claimPrize pays when the answer of sendAndConfirmTransaction can   *)
(* be trusted ("rpc" is not among the faults): one payment per prize, and  *)
(* nothing that PrizePayout does not allow.                                *)
(***************************************************************************)
EXTENDS PrizeClaimProofs

-----------------------------------------------------------------------------
(* The transfers that landed or may still land                             *)

Live(r) == {n \in Attempt : tx[r][n] \in {"pending", "landed"}}

PastSend == {"confirm", "record", "audit", "read_txs", "write_txs", "exit", "done"}

\* A request with a live transfer has only its last one live, is not about to
\* send or to roll back, and nobody else can send for the prize.
PaymentInv ==
    \A r \in Request : Live(r) # {} =>
        /\ Live(r) = {attempt[r]}
        /\ pc[r] \in PastSend
        /\ row[W(r)].claimed
        /\ \A q \in Request : (Holding(q) \/ Live(q) # {}) /\ W(q) = W(r) => q = r

LEMMA PaymentQuiet ==
    ASSUME TypeOK, PaymentInv, job' = job, attempt' = attempt,
           \A w \in Winner : row'[w].claimed = row[w].claimed,
           \A q \in Request : Live(q)' \subseteq Live(q),
           \A q \in Request : Holding(q)' => Holding(q),
           \A q \in Request : Live(q) # {} /\ Live(q)' # {} => pc'[q] \in PastSend
    PROVE  PaymentInv'
<1>1. \A q \in Request : W(q) \in Winner /\ W(q)' = W(q)
  BY DEF TypeOK, Job, W
<1>2. \A q \in Request : Live(q)' # {} => Live(q) # {} /\ Live(q)' = {attempt'[q]}
  BY DEF PaymentInv
<1>. QED BY <1>1, <1>2 DEF PaymentInv

LEMMA LockRowPayment ==
    ASSUME TypeOK, ClaimInv, PaymentInv, NEW r \in Request, LockRow(r)
    PROVE  PaymentInv'
<1>1. \A q \in Request : W(q) \in Winner /\ W(q)' = W(q)
  BY DEF TypeOK, Job, W, LockRow
<1>2. pc[r] = "lock" /\ (pc'[r] = "send" \/ pc'[r] = "exit")
      /\ \A q \in Request : q # r => pc'[q] = pc[q]
  BY DEF LockRow, Reject, Goto, TypeOK
<1>3. \A q \in Request : Live(q)' = Live(q) /\ attempt'[q] = attempt[q]
  BY DEF LockRow, Live
<1>4. Live(r) = {}
  BY <1>2 DEF PaymentInv, PastSend
<1>5. CASE UNCHANGED row
  <2>1. pc'[r] = "exit"
    BY <1>2, <1>5, RowTypes DEF LockRow, LockedRow, Reject, Goto, TypeOK, Row
  <2>. QED BY <1>1, <1>2, <1>3, <1>4, <1>5, <2>1 DEF PaymentInv, Holding
<1>6. CASE /\ ~row[W(r)].claimed
           /\ row' = [row EXCEPT ![W(r)] = LockedRow(r)]
  <2>1. row'[W(r)].claimed /\ \A w \in Winner : w # W(r) => row'[w] = row[w]
    BY <1>1, <1>6 DEF TypeOK, LockedRow
  <2>2. \A q \in Request : Live(q) # {} => W(q) # W(r)
    BY <1>6 DEF PaymentInv
  <2>3. \A q \in Request : Holding(q)' => q = r \/ Holding(q)
    BY <1>2 DEF Holding
  <2>. QED BY <1>1, <1>2, <1>3, <1>4, <2>1, <2>2, <2>3 DEF PaymentInv
<1>. QED BY <1>5, <1>6 DEF LockRow

LEMMA RollbackPayment ==
    ASSUME TypeOK, ClaimInv, PaymentInv, NEW r \in Request, Rollback(r)
    PROVE  PaymentInv'
<1>1. \A q \in Request : W(q) \in Winner /\ W(q)' = W(q)
  BY DEF TypeOK, Job, W, Rollback
<1>2. pc[r] = "rollback" /\ pc'[r] = "exit"
      /\ \A q \in Request : q # r => pc'[q] = pc[q]
  BY DEF Rollback, Reject, Goto, TypeOK
<1>3. \A q \in Request : Live(q)' = Live(q) /\ attempt'[q] = attempt[q]
  BY DEF Rollback, Live
<1>4. \A q \in Request : Live(q) # {} => W(q) # W(r)
  BY <1>2 DEF PaymentInv, PastSend, Holding
<1>5. \A w \in Winner : w # W(r) => row'[w] = row[w]
  BY <1>1 DEF Rollback, TypeOK
<1>. QED BY <1>1, <1>2, <1>3, <1>4, <1>5 DEF PaymentInv, Holding

LEMMA SendPayment ==
    ASSUME TypeOK, ClaimInv, PaymentInv, NEW r \in Request, SendTransfer(r)
    PROVE  PaymentInv'
<1>1. \A q \in Request : W(q) \in Winner /\ W(q)' = W(q)
  BY DEF TypeOK, Job, W, SendTransfer
<1>2. pc[r] = "send" /\ Holding(r) /\ row' = row /\ job' = job
      /\ \A q \in Request : q # r => pc'[q] = pc[q]
  BY DEF SendTransfer, Goto, TypeOK, Holding, dbVars
<1>3. Live(r) = {}
  BY <1>2 DEF PaymentInv, PastSend
<1>4. \A q \in Request : Holding(q)' <=> Holding(q)
  <2>1. pc'[r] \in {"rollback", "confirm"}
    BY DEF SendTransfer, Goto, TypeOK
  <2>. QED BY <1>2, <2>1 DEF Holding
<1>5. CASE UNCHANGED <<attempt, tx>>
  <2>1. \A q \in Request : Live(q)' = Live(q)
    BY <1>5 DEF Live
  <2>. QED BY <1>1, <1>2, <1>3, <1>4, <1>5, <2>1 DEF PaymentInv
<1>6. CASE /\ attempt[r] + 1 \in Attempt
           /\ attempt' = [attempt EXCEPT ![r] = attempt[r] + 1]
           /\ SetTx(r, attempt[r] + 1, "pending")
           /\ Goto(r, "confirm")
  <2>. DEFINE n == attempt[r] + 1
  <2>0. n \in Attempt /\ "pending" \in TxState
    BY <1>6 DEF TxState
  <2>n. SetTx(r, n, "pending") /\ attempt' = [attempt EXCEPT ![r] = n]
    BY <1>6
  <2>. HIDE DEF n
  <2>1. \A q \in Request, m \in Attempt :
           tx'[q][m] = IF q = r /\ m = n THEN "pending" ELSE tx[q][m]
    BY <2>0, <2>n, TxUpdate
  <2>2. attempt'[r] = n /\ \A q \in Request : q # r => attempt'[q] = attempt[q]
    BY <2>n DEF TypeOK
  <2>3. \A q \in Request : q # r => Live(q)' = Live(q)
    BY <2>1 DEF Live
  <2>4. Live(r)' = {n}
    BY <1>3, <2>0, <2>1 DEF Live
  <2>5. row[W(r)].claimed /\ \A q \in Request : Holding(q) /\ W(q) = W(r) => q = r
    BY <1>2 DEF ClaimInv, ExclusiveClaim
  <2>6. \A q \in Request : Live(q) # {} => W(q) # W(r)
    BY <1>2, <1>3 DEF PaymentInv
  <2>7. pc'[r] = "confirm"
    BY <1>6 DEF Goto, TypeOK
  <2>. QED BY <1>1, <1>2, <1>4, <2>2, <2>3, <2>4, <2>5, <2>6, <2>7 DEF PaymentInv, PastSend
<1>. QED BY <1>5, <1>6 DEF SendTransfer

LEMMA StepPaymentInv ==
    ASSUME "rpc" \notin Faults
    PROVE  TypeOK /\ ClaimInv /\ PaymentInv /\ [Next]_vars => PaymentInv'
<1>. SUFFICES ASSUME TypeOK, ClaimInv, PaymentInv, [Next]_vars PROVE PaymentInv'
  OBVIOUS
<1>1. ASSUME NEW r \in Request,
             \/ Enter(r) \/ FetchWinner(r) \/ Validate(r) \/ CheckDailyLimit(r)
             \/ ConfirmTransfer(r) \/ FailTransfer(r) \/ AuditClaim(r)
             \/ ReadDisburseTxs(r) \/ WriteDisburseTxs(r) \/ ReleaseLock(r)
      PROVE  PaymentInv'
  <2>1. job' = job /\ attempt' = attempt /\ row' = row /\ tx' = tx
    BY <1>1 DEF Enter, FetchWinner, Validate, CheckDailyLimit, ConfirmTransfer, FailTransfer,
                AuditClaim, ReadDisburseTxs, WriteDisburseTxs, ReleaseLock, dbVars
  <2>2. \A q \in Request : q # r => pc'[q] = pc[q]
    BY <1>1 DEF Enter, FetchWinner, Validate, CheckDailyLimit, ConfirmTransfer, FailTransfer,
                AuditClaim, ReadDisburseTxs, WriteDisburseTxs, ReleaseLock, Reject, Goto, TypeOK
  <2>3. Holding(r)' => Holding(r)
    BY <1>1 DEF Enter, FetchWinner, Validate, CheckDailyLimit, ConfirmTransfer, FailTransfer,
                AuditClaim, ReadDisburseTxs, WriteDisburseTxs, ReleaseLock, Reject, Goto,
                TypeOK, Holding
  <2>4. Live(r) # {} => pc'[r] \in PastSend
    <3>1. CASE FailTransfer(r)
      <4>1. tx[r][attempt[r]] = "dropped"
        BY <3>1 DEF FailTransfer
      <4>2. attempt[r] \notin Live(r)
        BY <4>1 DEF Live
      <4>. QED BY <4>2 DEF PaymentInv
    <3>2. CASE ~FailTransfer(r)
      <4>1. pc[r] \in PastSend => pc'[r] \in PastSend
        BY <1>1, <3>2 DEF Enter, FetchWinner, Validate, CheckDailyLimit, ConfirmTransfer,
               AuditClaim, ReadDisburseTxs, WriteDisburseTxs, ReleaseLock, Reject, Goto,
               TypeOK, PastSend
      <4>. QED BY <4>1 DEF PaymentInv
    <3>. QED BY <3>1, <3>2
  <2>5. \A q \in Request : Holding(q)' => Holding(q)
    BY <2>2, <2>3 DEF Holding
  <2>6. \A q \in Request : Live(q)' = Live(q)
    BY <2>1 DEF Live
  <2>7. \A q \in Request : Live(q) # {} => pc'[q] \in PastSend
    BY <2>2, <2>4 DEF PaymentInv
  <2>. QED BY <2>1, <2>5, <2>6, <2>7, PaymentQuiet
<1>2. ASSUME NEW r \in Request, LockRow(r) PROVE PaymentInv'
  BY <1>2, LockRowPayment
<1>3. ASSUME NEW r \in Request, SendTransfer(r) PROVE PaymentInv'
  BY <1>3, SendPayment
<1>4. ASSUME NEW r \in Request, Rollback(r) PROVE PaymentInv'
  BY <1>4, RollbackPayment
<1>5. ASSUME NEW r \in Request, RecordSignature(r) PROVE PaymentInv'
  <2>1. \A w \in Winner : row'[w].claimed = row[w].claimed
    BY <1>5, SignatureUpdate, RowTypes DEF RecordSignature
  <2>2. pc[r] = "record" /\ pc'[r] = "audit" /\ \A q \in Request : q # r => pc'[q] = pc[q]
    BY <1>5 DEF RecordSignature, Goto, TypeOK
  <2>3. \A q \in Request : Holding(q)' => Holding(q)
    BY <2>2 DEF Holding
  <2>4. job' = job /\ attempt' = attempt /\ tx' = tx
    BY <1>5 DEF RecordSignature
  <2>5. \A q \in Request : Live(q)' = Live(q)
    BY <2>4 DEF Live
  <2>6. \A q \in Request : Live(q) # {} => pc'[q] \in PastSend
    BY <2>2 DEF PaymentInv, PastSend
  <2>. QED BY <2>1, <2>3, <2>4, <2>5, <2>6, PaymentQuiet
<1>6. ASSUME NEW r \in Request, NEW n \in Attempt, Settle(r, n) PROVE PaymentInv'
  <2>1. row' = row /\ job' = job /\ attempt' = attempt /\ pc' = pc
    BY <1>6 DEF Settle, Land, Drop, dbVars
  <2>2. \A q \in Request, m \in Attempt :
           tx'[q][m] \in {"pending", "landed"} => tx[q][m] \in {"pending", "landed"}
    BY <1>6, TxUpdate DEF Settle, Land, Drop, TxState
  <2>3. \A q \in Request : Live(q)' \subseteq Live(q)
    BY <2>2 DEF Live
  <2>4. \A q \in Request : Holding(q)' => Holding(q)
    BY <2>1 DEF Holding
  <2>5. \A q \in Request : Live(q) # {} => pc'[q] \in PastSend
    BY <2>1 DEF PaymentInv
  <2>. QED BY <2>1, <2>3, <2>4, <2>5, PaymentQuiet
<1>7. ASSUME NEW w \in Winner, AgeOut(w) PROVE PaymentInv'
  <2>1. \A v \in Winner : row'[v].claimed = row[v].claimed
    BY <1>7, FreshUpdate DEF AgeOut
  <2>2. job' = job /\ attempt' = attempt /\ pc' = pc /\ tx' = tx
    BY <1>7 DEF AgeOut
  <2>3. \A q \in Request : (Holding(q)' => Holding(q)) /\ Live(q)' = Live(q)
    BY <2>2 DEF Holding, Live
  <2>4. \A q \in Request : Live(q) # {} => pc'[q] \in PastSend
    BY <2>2 DEF PaymentInv
  <2>. QED BY <2>1, <2>2, <2>3, <2>4, PaymentQuiet
<1>8. ASSUME NEW s \in Server, Crash(s) PROVE PaymentInv'
  <2>1. row' = row /\ job' = job /\ attempt' = attempt /\ tx' = tx
    BY <1>8 DEF Crash, dbVars
  <2>2. \A q \in Request : pc'[q] = "done" \/ pc'[q] = pc[q]
    BY <1>8 DEF Crash
  <2>3. \A q \in Request : (Holding(q)' => Holding(q)) /\ Live(q)' = Live(q)
    BY <2>1, <2>2 DEF Holding, Live
  <2>4. \A q \in Request : Live(q) # {} => pc'[q] \in PastSend
    BY <2>2 DEF PaymentInv, PastSend
  <2>. QED BY <2>1, <2>3, <2>4, PaymentQuiet
<1>9. CASE UNCHANGED vars
  <2>1. row' = row /\ job' = job /\ attempt' = attempt /\ pc' = pc /\ tx' = tx
    BY <1>9 DEF vars, dbVars
  <2>2. \A q \in Request : (Holding(q)' => Holding(q)) /\ Live(q)' = Live(q)
    BY <2>1 DEF Holding, Live
  <2>3. \A q \in Request : Live(q) # {} => pc'[q] \in PastSend
    BY <2>1 DEF PaymentInv
  <2>. QED BY <2>1, <2>2, <2>3, PaymentQuiet
<1>. QED
  BY <1>1, <1>2, <1>3, <1>4, <1>5, <1>6, <1>7, <1>8, <1>9 DEF Next, ClaimStep

LEMMA PaymentInvariant ==
    ASSUME "rpc" \notin Faults
    PROVE  Spec => [](TypeOK /\ ClaimInv /\ PaymentInv)
<1>1. Init => PaymentInv
  BY DEF Init, PaymentInv, Live
<1>2. PaymentInv /\ TypeOK /\ ClaimInv /\ [Next]_vars => PaymentInv'
  BY StepPaymentInv
<1>. QED BY <1>1, <1>2, TypeCorrect, ClaimInvariant, PTL DEF Spec

\* One payment per prize: with an answer that can be trusted the ledger never
\* carries two transfers of one prize, on any number of servers, with crashes
\* and with failing database calls.
THEOREM PrizesArePaidOnce ==
    ASSUME "rpc" \notin Faults
    PROVE  Spec => []AtMostOnePayment
<1>1. TypeOK /\ PaymentInv => AtMostOnePayment
  <2>. SUFFICES ASSUME TypeOK, PaymentInv,
                       NEW t \in Transfer, NEW u \in Transfer,
                       tx[t[1]][t[2]] = "landed", tx[u[1]][u[2]] = "landed",
                       W(t[1]) = W(u[1])
                PROVE  t = u
    BY DEF AtMostOnePayment, LandedTransfers
  <2>1. /\ t[1] \in Request /\ t[2] \in Attempt /\ t = <<t[1], t[2]>>
        /\ u[1] \in Request /\ u[2] \in Attempt /\ u = <<u[1], u[2]>>
    BY DEF Transfer
  <2>2. t[2] \in Live(t[1]) /\ u[2] \in Live(u[1])
    BY <2>1 DEF Live
  <2>3. t[1] = u[1]
    BY <2>1, <2>2 DEF PaymentInv
  <2>4. t[2] = u[2]
    BY <2>1, <2>2, <2>3 DEF PaymentInv
  <2>. QED BY <2>1, <2>3, <2>4
<1>. QED BY <1>1, PaymentInvariant, PTL

-----------------------------------------------------------------------------
(* Who is paid                                                             *)

Payee(w) == Linked[w] \union {Resolved[w]}

\* The snapshot of winner_wallet that the ownership layer trusts is the one
\* of the settlement, or NULL after a rollback.
PayeeInv ==
    /\ \A w \in Winner : ~row[w].claimed => row[w].winner_wallet \in {Resolved[w], NoWallet}
    /\ \A r \in Request : seenWallet[r] \in {Resolved[W(r)], NoWallet}
    /\ \A r \in Request :
          pc[r] \in {"limit", "lock", "send", "confirm"} \/ attempt[r] > 0
             => job[r].wallet \in Payee(W(r))

\* A step that reads no wallet and starts no transfer keeps the invariant.
LEMMA PayeeQuiet ==
    ASSUME TypeOK, PayeeInv, job' = job,
           \A w \in Winner : ~row'[w].claimed =>
              \/ row'[w].winner_wallet = NoWallet
              \/ ~row[w].claimed /\ row'[w].winner_wallet = row[w].winner_wallet,
           seenWallet' = seenWallet, attempt' = attempt,
           \A q \in Request : pc'[q] \in {"limit", "lock", "send", "confirm"}
              => pc[q] \in {"limit", "lock", "send", "confirm"}
    PROVE  PayeeInv'
<1>1. \A q \in Request : W(q) \in Winner /\ W(q)' = W(q) /\ Payee(W(q))' = Payee(W(q))
  BY DEF TypeOK, Job, W, Payee
<1>. QED BY <1>1 DEF PayeeInv

LEMMA StepPayeeInv == TypeOK /\ PayeeInv /\ [Next]_vars => PayeeInv'
<1>. SUFFICES ASSUME TypeOK, PayeeInv, [Next]_vars PROVE PayeeInv'
  OBVIOUS
<1>0. job' = job
  BY DEF Next, vars, ClaimStep, Enter, FetchWinner, Validate, CheckDailyLimit, LockRow,
         SendTransfer, ConfirmTransfer, FailTransfer, Rollback, RecordSignature, AuditClaim,
         ReadDisburseTxs, WriteDisburseTxs, ReleaseLock, Settle, Land, Drop, AgeOut, Crash
<1>w. \A q \in Request : W(q) \in Winner /\ W(q)' = W(q) /\ Payee(W(q))' = Payee(W(q))
  BY <1>0 DEF TypeOK, Job, W, Payee
<1>1. ASSUME NEW r \in Request,
             \/ Enter(r) \/ CheckDailyLimit(r) \/ ConfirmTransfer(r) \/ FailTransfer(r)
             \/ AuditClaim(r) \/ ReadDisburseTxs(r) \/ WriteDisburseTxs(r) \/ ReleaseLock(r)
      PROVE  PayeeInv'
  <2>1. row' = row /\ seenWallet' = seenWallet /\ attempt' = attempt
    BY <1>1 DEF Enter, CheckDailyLimit, ConfirmTransfer, FailTransfer, AuditClaim,
                ReadDisburseTxs, WriteDisburseTxs, ReleaseLock, dbVars
  <2>2. \A q \in Request : pc'[q] \in {"limit", "lock", "send", "confirm"}
           => pc[q] \in {"limit", "lock", "send", "confirm"}
    BY <1>1 DEF Enter, CheckDailyLimit, ConfirmTransfer, FailTransfer, AuditClaim,
                ReadDisburseTxs, WriteDisburseTxs, ReleaseLock, Reject, Goto, TypeOK
  <2>. QED BY <1>0, <2>1, <2>2, PayeeQuiet
<1>2. ASSUME NEW r \in Request, FetchWinner(r) PROVE PayeeInv'
  <2>1. row' = row /\ attempt' = attempt
    BY <1>2 DEF FetchWinner
  <2>2. \A q \in Request : seenWallet'[q] \in {Resolved[W(q)], NoWallet}
    BY <1>2, <1>w DEF FetchWinner, PayeeInv, TypeOK
  <2>3. \A q \in Request : pc'[q] \in {"limit", "lock", "send", "confirm"}
           => pc[q] \in {"limit", "lock", "send", "confirm"}
    BY <1>2 DEF FetchWinner, Reject, Goto, TypeOK
  <2>. QED BY <1>0, <1>w, <2>1, <2>2, <2>3 DEF PayeeInv
<1>3. ASSUME NEW r \in Request, Validate(r) PROVE PayeeInv'
  <2>1. row' = row /\ attempt' = attempt /\ seenWallet' = seenWallet
    BY <1>3 DEF Validate
  <2>2. /\ \A q \in Request : q # r => pc'[q] = pc[q]
        /\ pc'[r] = "exit" \/ (pc'[r] = "limit" /\ IsOwner(r))
    BY <1>3 DEF Validate, Reject, Goto, TypeOK
  <2>3. job[r].wallet \in Wallet
    BY DEF TypeOK, Job
  <2>4. IsOwner(r) => job[r].wallet \in Payee(W(r))
    BY <2>3, ConstantsAssumption DEF ConstantsAssumption, IsOwner, PayeeInv, Payee
  <2>. QED BY <1>0, <1>w, <2>1, <2>2, <2>4 DEF PayeeInv
<1>4. ASSUME NEW r \in Request, LockRow(r) PROVE PayeeInv'
  <2>1. \A w \in Winner : ~row'[w].claimed =>
           ~row[w].claimed /\ row'[w].winner_wallet = row[w].winner_wallet
    <3>1. row' = row \/ row' = [row EXCEPT ![W(r)] = LockedRow(r)]
      BY <1>4 DEF LockRow
    <3>2. LockedRow(r).claimed
      BY DEF LockedRow
    <3>. QED BY <1>w, <3>1, <3>2 DEF TypeOK
  <2>2. \A q \in Request : pc'[q] \in {"limit", "lock", "send", "confirm"}
           => pc[q] \in {"limit", "lock", "send", "confirm"}
    BY <1>4 DEF LockRow, Reject, Goto, TypeOK
  <2>3. seenWallet' = seenWallet /\ attempt' = attempt
    BY <1>4 DEF LockRow
  <2>. QED BY <1>0, <2>1, <2>2, <2>3, PayeeQuiet
<1>5. ASSUME NEW r \in Request, SendTransfer(r) PROVE PayeeInv'
  <2>1. row' = row /\ seenWallet' = seenWallet /\ pc[r] = "send"
    BY <1>5 DEF SendTransfer, dbVars
  <2>2. \A q \in Request : q # r => pc'[q] = pc[q] /\ attempt'[q] = attempt[q]
    BY <1>5 DEF SendTransfer, Goto, TypeOK
  <2>3. job[r].wallet \in Payee(W(r))
    BY <2>1 DEF PayeeInv
  <2>. QED BY <1>0, <1>w, <2>1, <2>2, <2>3 DEF PayeeInv
<1>6. ASSUME NEW r \in Request, Rollback(r) PROVE PayeeInv'
  <2>1. \A w \in Winner : ~row'[w].claimed =>
           \/ row'[w].winner_wallet = NoWallet
           \/ ~row[w].claimed /\ row'[w].winner_wallet = row[w].winner_wallet
    BY <1>6, <1>w DEF Rollback, RolledBackRow, TypeOK
  <2>2. \A q \in Request : pc'[q] \in {"limit", "lock", "send", "confirm"}
           => pc[q] \in {"limit", "lock", "send", "confirm"}
    BY <1>6 DEF Rollback, Reject, Goto, TypeOK
  <2>3. seenWallet' = seenWallet /\ attempt' = attempt
    BY <1>6 DEF Rollback
  <2>. QED BY <1>0, <2>1, <2>2, <2>3, PayeeQuiet
<1>7. ASSUME NEW r \in Request, RecordSignature(r) PROVE PayeeInv'
  <2>1. \A w \in Winner : /\ row'[w].claimed = row[w].claimed
                          /\ row'[w].winner_wallet = row[w].winner_wallet
    BY <1>7, SignatureUpdate, RowTypes DEF RecordSignature
  <2>2. \A q \in Request : pc'[q] \in {"limit", "lock", "send", "confirm"}
           => pc[q] \in {"limit", "lock", "send", "confirm"}
    BY <1>7 DEF RecordSignature, Goto, TypeOK
  <2>3. seenWallet' = seenWallet /\ attempt' = attempt
    BY <1>7 DEF RecordSignature
  <2>. QED BY <1>0, <2>1, <2>2, <2>3, PayeeQuiet
<1>8. ASSUME NEW r \in Request, NEW n \in Attempt, Settle(r, n) PROVE PayeeInv'
  BY <1>0, <1>8, PayeeQuiet DEF Settle, Land, Drop, dbVars
<1>9. ASSUME NEW w \in Winner, AgeOut(w) PROVE PayeeInv'
  <2>1. \A v \in Winner : /\ row'[v].claimed = row[v].claimed
                          /\ row'[v].winner_wallet = row[v].winner_wallet
    BY <1>9, FreshUpdate DEF AgeOut
  <2>2. pc' = pc /\ seenWallet' = seenWallet /\ attempt' = attempt
    BY <1>9 DEF AgeOut
  <2>. QED BY <1>0, <2>1, <2>2, PayeeQuiet
<1>10. ASSUME NEW s \in Server, Crash(s) PROVE PayeeInv'
  <2>1. row' = row /\ seenWallet' = seenWallet /\ attempt' = attempt
    BY <1>10 DEF Crash, dbVars
  <2>2. \A q \in Request : pc'[q] = "done" \/ pc'[q] = pc[q]
    BY <1>10 DEF Crash
  <2>. QED BY <1>0, <2>1, <2>2, PayeeQuiet
<1>11. CASE UNCHANGED vars
  BY <1>0, <1>11, PayeeQuiet DEF vars, dbVars
<1>. QED
  BY <1>1, <1>2, <1>3, <1>4, <1>5, <1>6, <1>7, <1>8, <1>9, <1>10, <1>11 DEF Next, ClaimStep

LEMMA InitPayeeInv == Init => PayeeInv
BY ConstantsAssumption DEF ConstantsAssumption, Init, PayeeInv, UnclaimedRow, W, Job

-----------------------------------------------------------------------------
(* claimPrize implements PrizePayout                                       *)

Landed(r, n) == tx[r][n] = "landed"

Paid(w) == \E r \in Request, n \in Attempt : Landed(r, n) /\ W(r) = w

Receipt(r, n) == [winner |-> W(r), wallet |-> job[r].wallet, id |-> <<r, n>>]

StatusOf(w) == IF Paid(w) THEN "paid" ELSE IF row[w].claimed THEN "reserved" ELSE "open"

ReceiptRule ==
    \A x \in LandedTransfers :
        \E r \in Request, n \in Attempt : Landed(r, n) /\ x = Receipt(r, n)

StatusRule == PayoutStatus = [w \in Winner |-> StatusOf(w)]

LEMMA ReceiptsAre == ReceiptRule
<1>. SUFFICES ASSUME NEW x \in LandedTransfers
              PROVE  \E r \in Request, n \in Attempt : Landed(r, n) /\ x = Receipt(r, n)
  BY DEF ReceiptRule
<1>1. PICK t \in Transfer : tx[t[1]][t[2]] = "landed"
         /\ x = [winner |-> W(t[1]), wallet |-> job[t[1]].wallet, id |-> t]
  BY DEF LandedTransfers
<1>2. t[1] \in Request /\ t[2] \in Attempt /\ t = <<t[1], t[2]>>
  BY DEF Transfer
<1>. QED BY <1>1, <1>2 DEF Landed, Receipt

LEMMA LandedHasReceipt ==
    ASSUME NEW r \in Request, NEW n \in Attempt, Landed(r, n)
    PROVE  Receipt(r, n) \in LandedTransfers
<1>. DEFINE t == <<r, n>>
<1>1. t \in Transfer /\ t[1] = r /\ t[2] = n
  BY DEF Transfer
<1>. QED BY <1>1 DEF LandedTransfers, Landed, Receipt

LEMMA StatusIs == StatusRule
<1>. SUFFICES ASSUME NEW w \in Winner
              PROVE  (\E x \in LandedTransfers : x.winner = w) <=> Paid(w)
  BY DEF PayoutStatus, StatusOf, StatusRule
<1>1. ASSUME NEW x \in LandedTransfers, x.winner = w PROVE Paid(w)
  <2>1. PICK r \in Request, n \in Attempt : Landed(r, n) /\ x = Receipt(r, n)
    BY ReceiptsAre DEF ReceiptRule
  <2>2. Receipt(r, n).winner = W(r)
    BY DEF Receipt
  <2>. QED BY <1>1, <2>1, <2>2 DEF Paid
<1>2. ASSUME Paid(w) PROVE \E x \in LandedTransfers : x.winner = w
  <2>1. PICK r \in Request, n \in Attempt : Landed(r, n) /\ W(r) = w
    BY <1>2 DEF Paid
  <2>2. Receipt(r, n) \in LandedTransfers /\ Receipt(r, n).winner = w
    BY <2>1, LandedHasReceipt DEF Receipt
  <2>. QED BY <2>2
<1>. QED BY <1>1, <1>2

\* A step that lands no transfer and changes no claim is a stutter.
LEMMA PayoutStutter ==
    ASSUME TypeOK, job' = job,
           \A w \in Winner : row'[w].claimed = row[w].claimed,
           \A r \in Request, n \in Attempt : Landed(r, n)' <=> Landed(r, n)
    PROVE  UNCHANGED <<PayoutStatus, LandedTransfers>>
<1>1. \A r \in Request : W(r)' = W(r)
  BY DEF W
<1>2. \A w \in Winner : StatusOf(w)' = StatusOf(w)
  BY <1>1 DEF StatusOf, Paid
<1>3. PayoutStatus' = PayoutStatus
  <2>1. StatusRule'
    BY StatusIs, PTL
  <2>. QED BY <1>2, <2>1, StatusIs DEF StatusRule
<1>4. LandedTransfers' = LandedTransfers
  <2>1. \A t \in Transfer : tx'[t[1]][t[2]] = "landed" <=> tx[t[1]][t[2]] = "landed"
    BY DEF Transfer, Landed
  <2>2. \A t \in Transfer : W(t[1])' = W(t[1])
    BY <1>1 DEF Transfer
  <2>. QED BY <2>1, <2>2 DEF LandedTransfers
<1>. QED BY <1>3, <1>4

\* The state of one prize changes and no payment is made.
LEMMA PayoutMoves ==
    ASSUME TypeOK, job' = job, NEW w \in Winner,
           \A v \in Winner : v # w => row'[v].claimed = row[v].claimed,
           row'[w].claimed <=> ~row[w].claimed,
           \A r \in Request, n \in Attempt : Landed(r, n)' <=> Landed(r, n),
           ~Paid(w)
    PROVE  Payout!Reserve(w) \/ Payout!GiveBack(w)
<1>1. \A r \in Request : W(r)' = W(r)
  BY DEF W
<1>2. \A v \in Winner : v # w => StatusOf(v)' = StatusOf(v)
  BY <1>1 DEF StatusOf, Paid
<1>3. \/ StatusOf(w) = "open" /\ StatusOf(w)' = "reserved"
      \/ StatusOf(w) = "reserved" /\ StatusOf(w)' = "open"
  <2>1. row[w].claimed \in BOOLEAN
    BY DEF TypeOK, Row
  <2>2. ~Paid(w)'
    BY <1>1 DEF Paid
  <2>. QED BY <2>1, <2>2 DEF StatusOf
<1>4. StatusRule'
  BY StatusIs, PTL
<1>5. PayoutStatus' = [PayoutStatus EXCEPT ![w] = StatusOf(w)']
  BY <1>2, <1>4, StatusIs DEF StatusRule
<1>6. LandedTransfers' = LandedTransfers
  <2>1. \A t \in Transfer : tx'[t[1]][t[2]] = "landed" <=> tx[t[1]][t[2]] = "landed"
    BY DEF Transfer, Landed
  <2>2. \A t \in Transfer : W(t[1])' = W(t[1])
    BY <1>1 DEF Transfer
  <2>. QED BY <2>1, <2>2 DEF LandedTransfers
<1>7. PayoutStatus[w] = StatusOf(w)
  BY StatusIs DEF StatusRule
<1>. QED BY <1>3, <1>5, <1>6, <1>7 DEF Payout!Reserve, Payout!GiveBack

RefinementInv == TypeOK /\ ClaimInv /\ PaymentInv /\ PayeeInv

LEMMA LockRowRefines ==
    ASSUME RefinementInv, NEW r \in Request, LockRow(r)
    PROVE  [Payout!Next]_(Payout!vars)
<1>. USE DEF RefinementInv
<1>1. W(r) \in Winner /\ job' = job /\ tx' = tx
  BY DEF LockRow, TypeOK, Job, W
<1>2. \A q \in Request, n \in Attempt : Landed(q, n)' <=> Landed(q, n)
  BY <1>1 DEF Landed
<1>3. CASE UNCHANGED row
  BY <1>1, <1>2, <1>3, PayoutStutter DEF Payout!vars
<1>4. CASE /\ ~row[W(r)].claimed
           /\ row' = [row EXCEPT ![W(r)] = LockedRow(r)]
  <2>1. row'[W(r)].claimed /\ \A w \in Winner : w # W(r) => row'[w] = row[w]
    BY <1>1, <1>4 DEF TypeOK, LockedRow
  <2>2. ~Paid(W(r))
    BY <1>4 DEF Paid, Landed, PaymentInv, Live
  <2>3. row'[W(r)].claimed <=> ~row[W(r)].claimed
    BY <1>4, <2>1
  <2>. QED BY <1>1, <1>2, <2>1, <2>2, <2>3, PayoutMoves DEF Payout!Next
<1>. QED BY <1>3, <1>4 DEF LockRow

LEMMA RollbackRefines ==
    ASSUME RefinementInv, NEW r \in Request, Rollback(r)
    PROVE  [Payout!Next]_(Payout!vars)
<1>. USE DEF RefinementInv
<1>1. W(r) \in Winner /\ job' = job /\ tx' = tx
  BY DEF Rollback, TypeOK, Job, W
<1>2. \A q \in Request, n \in Attempt : Landed(q, n)' <=> Landed(q, n)
  BY <1>1 DEF Landed
<1>3. CASE UNCHANGED row
  BY <1>1, <1>2, <1>3, PayoutStutter DEF Payout!vars
<1>4. CASE row' = [row EXCEPT ![W(r)] = RolledBackRow]
  <2>1. Holding(r) /\ pc[r] = "rollback"
    BY DEF Rollback, Holding
  <2>2. row[W(r)].claimed
    BY <2>1 DEF ClaimInv, ExclusiveClaim
  <2>3. ~row'[W(r)].claimed /\ \A w \in Winner : w # W(r) => row'[w] = row[w]
    BY <1>1, <1>4 DEF TypeOK, RolledBackRow
  <2>4. ~Paid(W(r))
    BY <2>1 DEF Paid, Landed, PaymentInv, Live, PastSend
  <2>5. row'[W(r)].claimed <=> ~row[W(r)].claimed
    BY <2>2, <2>3
  <2>. QED BY <1>1, <1>2, <2>3, <2>4, <2>5, PayoutMoves DEF Payout!Next
<1>. QED BY <1>3, <1>4 DEF Rollback

LEMMA LandRefines ==
    ASSUME RefinementInv, NEW r \in Request, NEW n \in Attempt, Land(r, n)
    PROVE  Payout!Pay(W(r))
<1>. USE DEF RefinementInv
<1>0. PICK w \in Winner : w = W(r)
  BY DEF TypeOK, Job, W
<1>1. job' = job /\ row' = row /\ tx[r][n] = "pending"
  BY DEF Land, dbVars
<1>2. \A q \in Request, m \in Attempt :
         tx'[q][m] = IF q = r /\ m = n THEN "landed" ELSE tx[q][m]
  BY TxUpdate DEF Land, TxState
<1>3. \A q \in Request : W(q)' = W(q)
  BY <1>1 DEF W
<1>4. n \in Live(r)
  BY <1>1 DEF Live
<1>5. ~Paid(w)
  <2>. SUFFICES ASSUME NEW q \in Request, NEW m \in Attempt, Landed(q, m), W(q) = w
                PROVE  FALSE
    BY DEF Paid
  <2>1. m \in Live(q)
    BY DEF Live, Landed
  <2>2. q = r
    BY <1>0, <1>4, <2>1 DEF PaymentInv
  <2>3. m = n
    BY <1>4, <2>1, <2>2 DEF PaymentInv
  <2>. QED BY <1>1, <2>2, <2>3 DEF Landed
<1>6. StatusOf(w) = "reserved"
  BY <1>0, <1>4, <1>5 DEF PaymentInv, StatusOf
<1>7. Paid(w)' /\ \A v \in Winner : v # w => (Paid(v)' <=> Paid(v))
  BY <1>0, <1>2, <1>3 DEF Paid, Landed
<1>8. StatusOf(w)' = "paid" /\ \A v \in Winner : v # w => StatusOf(v)' = StatusOf(v)
  BY <1>1, <1>7 DEF StatusOf
<1>9. PayoutStatus[w] = "reserved" /\ PayoutStatus' = [PayoutStatus EXCEPT ![w] = "paid"]
  <2>1. StatusRule'
    BY StatusIs, PTL
  <2>. QED BY <1>1, <1>6, <1>8, <2>1, StatusIs DEF StatusRule
<1>10. attempt[r] > 0
  <2>1. attempt[r] = n
    BY <1>4 DEF PaymentInv
  <2>. QED BY <2>1 DEF Attempt
<1>11. job[r].wallet \in Linked[w] \union {Resolved[w]}
  BY <1>0, <1>10 DEF PayeeInv, Payee
<1>12. LandedTransfers' = LandedTransfers \union {Receipt(r, n)}
  <2>1. \A q \in Request, m \in Attempt : Receipt(q, m)' = Receipt(q, m)
    BY <1>1, <1>3 DEF Receipt
  <2>2. \A q \in Request, m \in Attempt :
           Landed(q, m)' <=> Landed(q, m) \/ (q = r /\ m = n)
    BY <1>1, <1>2 DEF Landed
  <2>3. ASSUME NEW x \in LandedTransfers' PROVE x \in LandedTransfers \union {Receipt(r, n)}
    <3>1. ReceiptRule'
      BY ReceiptsAre, PTL
    <3>2. PICK q \in Request, m \in Attempt : Landed(q, m)' /\ x = Receipt(q, m)'
      BY <3>1 DEF ReceiptRule
    <3>3. Landed(q, m) => Receipt(q, m) \in LandedTransfers
      BY LandedHasReceipt
    <3>. QED BY <2>1, <2>2, <3>2, <3>3
  <2>4. ASSUME NEW x \in LandedTransfers \union {Receipt(r, n)} PROVE x \in LandedTransfers'
    <3>1. PICK q \in Request, m \in Attempt :
             (Landed(q, m) \/ (q = r /\ m = n)) /\ x = Receipt(q, m)
      BY ReceiptsAre DEF ReceiptRule
    <3>2. Landed(q, m)' /\ x = Receipt(q, m)'
      BY <2>1, <2>2, <3>1
    <3>. DEFINE t == <<q, m>>
    <3>3. t \in Transfer /\ t[1] = q /\ t[2] = m
      BY DEF Transfer
    <3>. QED BY <3>2, <3>3 DEF LandedTransfers, Landed, Receipt
  <2>. QED BY <2>3, <2>4
<1>13. <<r, n>> \in Transfer
  BY DEF Transfer
<1>. QED BY <1>0, <1>1, <1>9, <1>11, <1>12, <1>13 DEF Payout!Pay, Receipt

LEMMA StepRefines == RefinementInv /\ [Next]_vars => [Payout!Next]_(Payout!vars)
<1>. SUFFICES ASSUME RefinementInv, [Next]_vars PROVE [Payout!Next]_(Payout!vars)
  OBVIOUS
<1>. USE DEF RefinementInv
<1>1. ASSUME NEW r \in Request,
             \/ Enter(r) \/ FetchWinner(r) \/ Validate(r) \/ CheckDailyLimit(r)
             \/ ConfirmTransfer(r) \/ FailTransfer(r) \/ AuditClaim(r)
             \/ ReadDisburseTxs(r) \/ WriteDisburseTxs(r) \/ ReleaseLock(r)
      PROVE  UNCHANGED Payout!vars
  <2>1. job' = job /\ row' = row /\ tx' = tx
    BY <1>1 DEF Enter, FetchWinner, Validate, CheckDailyLimit, ConfirmTransfer, FailTransfer,
                AuditClaim, ReadDisburseTxs, WriteDisburseTxs, ReleaseLock, dbVars
  <2>. QED BY <2>1, PayoutStutter DEF Payout!vars, Landed
<1>2. ASSUME NEW r \in Request, SendTransfer(r) PROVE UNCHANGED Payout!vars
  <2>1. job' = job /\ row' = row
    BY <1>2 DEF SendTransfer, dbVars
  <2>2. \A q \in Request, n \in Attempt : Landed(q, n)' <=> Landed(q, n)
    <3>1. CASE UNCHANGED tx
      BY <3>1 DEF Landed
    <3>2. CASE ~UNCHANGED tx
      <4>. DEFINE n == attempt[r] + 1
      <4>1. n \in Attempt /\ SetTx(r, n, "pending") /\ pc[r] = "send"
        BY <1>2, <3>2 DEF SendTransfer
      <4>p. "pending" \in TxState
        BY DEF TxState
      <4>. HIDE DEF n
      <4>2. \A q \in Request, m \in Attempt :
               tx'[q][m] = IF q = r /\ m = n THEN "pending" ELSE tx[q][m]
        BY <4>1, <4>p, TxUpdate
      <4>3. tx[r][n] # "landed"
        BY <4>1 DEF PaymentInv, PastSend, Live
      <4>. QED BY <4>2, <4>3 DEF Landed
    <3>. QED BY <3>1, <3>2
  <2>. QED BY <2>1, <2>2, PayoutStutter DEF Payout!vars
<1>3. ASSUME NEW r \in Request, LockRow(r) PROVE [Payout!Next]_(Payout!vars)
  BY <1>3, LockRowRefines
<1>4. ASSUME NEW r \in Request, Rollback(r) PROVE [Payout!Next]_(Payout!vars)
  BY <1>4, RollbackRefines
<1>5. ASSUME NEW r \in Request, RecordSignature(r) PROVE UNCHANGED Payout!vars
  <2>1. \A w \in Winner : row'[w].claimed = row[w].claimed
    BY <1>5, SignatureUpdate, RowTypes DEF RecordSignature
  <2>2. job' = job /\ tx' = tx
    BY <1>5 DEF RecordSignature
  <2>. QED BY <2>1, <2>2, PayoutStutter DEF Payout!vars, Landed
<1>6. ASSUME NEW r \in Request, NEW n \in Attempt, Land(r, n) PROVE [Payout!Next]_(Payout!vars)
  <2>1. W(r) \in Winner
    BY DEF TypeOK, Job, W
  <2>. QED BY <1>6, <2>1, LandRefines DEF Payout!Next
<1>7. ASSUME NEW r \in Request, NEW n \in Attempt, Drop(r, n) PROVE UNCHANGED Payout!vars
  <2>1. job' = job /\ row' = row
    BY <1>7 DEF Drop, dbVars
  <2>2. \A q \in Request, m \in Attempt :
           tx'[q][m] = IF q = r /\ m = n THEN "dropped" ELSE tx[q][m]
    BY <1>7, TxUpdate DEF Drop, TxState
  <2>3. \A q \in Request, m \in Attempt : Landed(q, m)' <=> Landed(q, m)
    BY <1>7, <2>2 DEF Drop, Landed
  <2>. QED BY <2>1, <2>3, PayoutStutter DEF Payout!vars
<1>8. ASSUME NEW w \in Winner, AgeOut(w) PROVE UNCHANGED Payout!vars
  <2>1. \A v \in Winner : row'[v].claimed = row[v].claimed
    BY <1>8, FreshUpdate DEF AgeOut
  <2>2. job' = job /\ tx' = tx
    BY <1>8 DEF AgeOut
  <2>. QED BY <2>1, <2>2, PayoutStutter DEF Payout!vars, Landed
<1>9. ASSUME NEW s \in Server, Crash(s) PROVE UNCHANGED Payout!vars
  <2>1. job' = job /\ row' = row /\ tx' = tx
    BY <1>9 DEF Crash, dbVars
  <2>. QED BY <2>1, PayoutStutter DEF Payout!vars, Landed
<1>10. CASE UNCHANGED vars
  <2>1. job' = job /\ row' = row /\ tx' = tx
    BY <1>10 DEF vars, dbVars
  <2>. QED BY <2>1, PayoutStutter DEF Payout!vars, Landed
<1>. QED
  BY <1>1, <1>2, <1>3, <1>4, <1>5, <1>6, <1>7, <1>8, <1>9, <1>10
  DEF Next, ClaimStep, Settle

LEMMA InitRefines == Init => Payout!Init
<1>. SUFFICES ASSUME Init PROVE Payout!Init
  OBVIOUS
<1>1. \A r \in Request, n \in Attempt : ~Landed(r, n)
  BY DEF Init, Landed
<1>2. LandedTransfers = {}
  BY <1>1, ReceiptsAre DEF ReceiptRule
<1>3. \A w \in Winner : StatusOf(w) = "open"
  BY <1>1 DEF Init, StatusOf, Paid, UnclaimedRow
<1>4. PayoutStatus = [w \in Winner |-> "open"]
  BY <1>3, StatusIs DEF StatusRule
<1>. QED BY <1>2, <1>4 DEF Payout!Init

\* claimPrize implements the abstract payout: a prize is reserved before it
\* is paid, only unpaid reservations are given back, and the one payment goes
\* to a wallet that the settlement resolved or that is linked to the winner.
THEOREM ClaimsImplementPayout ==
    ASSUME "rpc" \notin Faults
    PROVE  Spec => ImplementsPayout
<1>1. Spec => []RefinementInv
  BY PaymentInvariant, InitPayeeInv, StepPayeeInv, PTL DEF Spec, RefinementInv
<1>. QED BY <1>1, InitRefines, StepRefines, PTL DEF Spec, ImplementsPayout, Payout!Spec
=============================================================================
