--------------------------- MODULE DepositsProofs ---------------------------
(***************************************************************************)
(* Theorems about Deposits for any number of users, deposits, withdrawals  *)
(* and requests, and any amounts.                                          *)
(***************************************************************************)
EXTENDS Deposits, SumTheorems, TLAPS

-----------------------------------------------------------------------------
(* What a call is about *)

LEMMA CallTypes ==
    ASSUME TypeOK, NEW r \in Request
    PROVE  /\ item(r) \in Item
           /\ user(r) \in User
           /\ amount(r) \in Nat /\ amount(r) > 0
           /\ op(r) = "verify" => item(r) \in Deposit
           /\ op(r) # "verify" => item(r) \in Withdrawal
<1>1. call[r] \in Call
  BY DEF TypeOK
<1>2. item(r) \in Item /\ (op(r) = "verify" => item(r) \in Deposit)
        /\ (op(r) # "verify" => item(r) \in Withdrawal)
  BY <1>1 DEF Call, Item, item, op
<1>. QED BY <1>2, ConstantsAssumption DEF ConstantsAssumption, user, amount

-----------------------------------------------------------------------------
(* The account of a user *)

\* An account that was never opened is empty; what is locked is there.
Sound(a) == a.locked <= a.balance /\ (~a.open => a.balance = 0)

AccountsInv ==
    /\ account \in [User -> Account]
    /\ \A u \in User : Sound(account[u])

LEMMA AccountUpdate ==
    ASSUME AccountsInv, NEW u \in User, NEW a \in Account, Sound(a),
           account' = [account EXCEPT ![u] = a]
    PROVE  AccountsInv'
BY DEF AccountsInv, Sound

LEMMA CreditSound ==
    ASSUME TypeOK, AccountsInv, NEW r \in Request, credit_user_balance(r)
    PROVE  AccountsInv'
<1>. DEFINE u == user(r)
            a == OpenRow(u, account[u].balance + amount(r))
<1>1. u \in User /\ amount(r) \in Nat
  BY CallTypes
<1>2. account[u] \in Account /\ Sound(account[u])
  BY <1>1 DEF AccountsInv
<1>3. a \in Account /\ Sound(a)
  BY <1>1, <1>2 DEF Account, Sound, OpenRow
<1>4. account' = [account EXCEPT ![u] = a]
  BY <1>1, <1>2 DEF credit_user_balance
<1>. QED BY <1>1, <1>3, <1>4, AccountUpdate

LEMMA DebitSound ==
    ASSUME TypeOK, AccountsInv, NEW r \in Request, debit_user_balance(r)
    PROVE  AccountsInv'
<1>. DEFINE u == user(r)
            a == [account[u] EXCEPT !.balance = @ - amount(r)]
<1>1. u \in User /\ amount(r) \in Nat /\ amount(r) > 0
  BY CallTypes
<1>2. account[u] \in Account /\ Sound(account[u])
  BY <1>1 DEF AccountsInv
<1>3. CASE Available(u) < amount(r)
  BY <1>3 DEF debit_user_balance, AccountsInv
<1>4. CASE ~(Available(u) < amount(r))
  <2>1. a \in Account /\ Sound(a)
    BY <1>1, <1>2, <1>4 DEF Account, Sound, Available
  <2>2. account' = [account EXCEPT ![u] = a]
    BY <1>1, <1>2, <1>4 DEF debit_user_balance, AccountsInv, Account
  <2>. QED BY <1>1, <2>1, <2>2, AccountUpdate
<1>. QED BY <1>3, <1>4

LEMMA LockSound ==
    ASSUME TypeOK, AccountsInv, NEW r \in Request,
           amount(r) <= Available(user(r)), lock_user_balance(r)
    PROVE  AccountsInv'
<1>. DEFINE u == user(r)
            a == [account[u] EXCEPT !.locked = @ + amount(r)]
<1>1. u \in User /\ amount(r) \in Nat /\ amount(r) > 0
  BY CallTypes
<1>2. account[u] \in Account /\ Sound(account[u])
  BY <1>1 DEF AccountsInv
<1>3. a \in Account /\ Sound(a)
  BY <1>1, <1>2 DEF Account, Sound, Available
<1>4. account' = [account EXCEPT ![u] = a]
  BY <1>1, <1>2 DEF lock_user_balance, AccountsInv, Account
<1>. QED BY <1>1, <1>3, <1>4, AccountUpdate

LEMMA UnlockSound ==
    ASSUME TypeOK, AccountsInv, NEW r \in Request, unlock_user_balance(r)
    PROVE  AccountsInv'
<1>. DEFINE u == user(r)
            a == [account[u] EXCEPT !.locked =
                     IF @ < amount(r) THEN 0 ELSE @ - amount(r)]
<1>1. u \in User /\ amount(r) \in Nat
  BY CallTypes
<1>2. account[u] \in Account /\ Sound(account[u])
  BY <1>1 DEF AccountsInv
<1>3. a \in Account /\ Sound(a)
  BY <1>1, <1>2 DEF Account, Sound
<1>4. account' = [account EXCEPT ![u] = a]
  BY <1>1, <1>2 DEF unlock_user_balance, AccountsInv, Account
<1>. QED BY <1>1, <1>3, <1>4, AccountUpdate

\* The blind write of the fallback: the constraints of the table keep it sound.
LEMMA WriteSound ==
    ASSUME TypeOK, AccountsInv, NEW r \in Request, WriteBalance(r)
    PROVE  AccountsInv'
<1>. DEFINE u == user(r)
            old == balanceRead[r]
            new == IF old = NoBalance THEN amount(r) ELSE old + amount(r)
            accepted == IF old = NoBalance THEN ~account[u].open
                                           ELSE account[u].locked <= new
            a == OpenRow(u, new)
<1>1. u \in User /\ amount(r) \in Nat /\ old \in Nat \union {NoBalance}
  BY CallTypes DEF TypeOK
<1>2. account[u] \in Account /\ Sound(account[u])
  BY <1>1 DEF AccountsInv
<1>3. new \in Nat
  BY <1>1
<1>4. CASE accepted /\ account' = [account EXCEPT ![u] = OpenRow(u, new)]
  <2>1. a \in Account /\ Sound(a)
    <3>1. account[u].locked <= new
      BY <1>1, <1>2, <1>4 DEF Account, Sound
    <3>. QED BY <1>2, <1>3, <3>1 DEF Account, Sound, OpenRow
  <2>2. account' = [account EXCEPT ![u] = a]
    BY <1>4
  <2>. QED BY <1>1, <2>1, <2>2, AccountUpdate
<1>5. CASE UNCHANGED account
  BY <1>5 DEF AccountsInv
<1>. QED BY <1>4, <1>5 DEF WriteBalance

AccountInv == TypeOK /\ AccountsInv

LEMMA InitAccountInv == Init => AccountInv
BY DEF Init, AccountInv, TypeOK, AccountsInv, Account, Sound, Label

\* A step that leaves the accounts alone only has to keep the types.
LEMMA OtherStep ==
    ASSUME AccountsInv, UNCHANGED account PROVE AccountsInv'
BY DEF AccountsInv

LEMMA GotoTypes ==
    ASSUME TypeOK, NEW r \in Request, NEW l \in Label, Goto(r, l)
    PROVE  pc' \in [Request -> Label]
BY DEF TypeOK, Goto

LEMMA RacesTyped == TypeOK /\ NoteRaces => raced' \subseteq Item
BY DEF TypeOK, NoteRaces, Contested

LEMMA VerifyTypes ==
    ASSUME AccountInv, NEW r \in Request, VerifyStep(r), NoteRaces
    PROVE  AccountInv'
<1>0. TypeOK /\ AccountsInv /\ raced' \subseteq Item
  BY RacesTyped DEF AccountInv
<1>1. CASE VerifyDeposit(r)
  <2>1. pc' \in [Request -> Label]
    BY <1>0, <1>1, GotoTypes DEF VerifyDeposit, Label
  <2>. QED BY <1>0, <1>1, <2>1, OtherStep
         DEF VerifyDeposit, AccountInv, TypeOK, rows, history
<1>2. CASE LookupPending(r)
  <2>1. pc' \in [Request -> Label]
    BY <1>0, <1>2, GotoTypes DEF LookupPending, Label
  <2>. QED BY <1>0, <1>2, <2>1, OtherStep
         DEF LookupPending, AccountInv, TypeOK, rows, history
<1>3. CASE ExpireDeposit(r)
  <2>1. pc' \in [Request -> Label]
    BY <1>0, <1>3, GotoTypes DEF ExpireDeposit, Label
  <2>. QED BY <1>0, <1>3, <2>1, OtherStep
         DEF ExpireDeposit, AccountInv, TypeOK, rows, history
<1>4. CASE ConfirmDeposit(r)
  <2>1. pc' \in [Request -> Label]
    BY <1>0, <1>4, GotoTypes DEF ConfirmDeposit, Label
  <2>. QED BY <1>0, <1>4, <2>1, OtherStep
         DEF ConfirmDeposit, AccountInv, TypeOK, rows, history
<1>5. CASE CreditBalance(r)
  <2>1. pc' \in [Request -> Label]
    BY <1>0, <1>5, GotoTypes DEF CreditBalance, Label
  <2>2. AccountsInv'
    BY <1>0, <1>5, CreditSound, OtherStep DEF CreditBalance
  <2>3. credits' \in [Deposit -> Nat]
    BY <1>0, <1>5 DEF CreditBalance, credit_user_balance, TypeOK
  <2>. QED BY <1>0, <1>5, <2>1, <2>2, <2>3
         DEF CreditBalance, AccountInv, AccountsInv, TypeOK
<1>6. CASE ReadBalance(r)
  <2>1. pc' \in [Request -> Label]
    BY <1>0, <1>6, GotoTypes DEF ReadBalance, Label
  <2>2. account[user(r)] \in Account
    BY <1>0, CallTypes DEF AccountsInv
  <2>3. balanceRead' \in [Request -> Nat \union {NoBalance}]
    BY <1>0, <1>6, <2>2 DEF ReadBalance, TypeOK, Account
  <2>. QED BY <1>0, <1>6, <2>1, <2>3, OtherStep
         DEF ReadBalance, AccountInv, TypeOK, rows, history
<1>7. CASE WriteBalance(r)
  <2>1. pc' \in [Request -> Label]
    BY <1>0, <1>7, GotoTypes DEF WriteBalance, Label
  <2>2. AccountsInv'
    BY <1>0, <1>7, WriteSound
  <2>3. credits' \in [Deposit -> Nat]
    BY <1>0, <1>7 DEF WriteBalance, TypeOK
  <2>. QED BY <1>0, <1>7, <2>1, <2>2, <2>3
         DEF WriteBalance, AccountInv, AccountsInv, TypeOK
<1>8. CASE ForgetNonce(r)
  <2>1. pc' \in [Request -> Label]
    BY <1>0, <1>8, GotoTypes DEF ForgetNonce, Label
  <2>. QED BY <1>0, <1>8, <2>1, OtherStep
         DEF ForgetNonce, AccountInv, TypeOK, rows, history
<1>. QED BY <1>1, <1>2, <1>3, <1>4, <1>5, <1>6, <1>7, <1>8 DEF VerifyStep

LEMMA WithdrawTypes ==
    ASSUME AccountInv, NEW r \in Request, WithdrawStep(r), NoteRaces
    PROVE  AccountInv'
<1>0. TypeOK /\ AccountsInv /\ raced' \subseteq Item
  BY RacesTyped DEF AccountInv
<1>1. CASE CheckBalance(r)
  <2>1. pc' \in [Request -> Label]
    BY <1>0, <1>1, GotoTypes DEF CheckBalance, Label
  <2>. QED BY <1>0, <1>1, <2>1, OtherStep
         DEF CheckBalance, AccountInv, TypeOK, rows, history
<1>2. CASE LockBalance(r)
  <2>1. pc' \in [Request -> Label]
    BY <1>0, <1>2, GotoTypes DEF LockBalance, Label
  <2>2. AccountsInv'
    BY <1>0, <1>2, LockSound, OtherStep DEF LockBalance
  <2>. QED BY <1>0, <1>2, <2>1, <2>2
         DEF LockBalance, AccountInv, AccountsInv, TypeOK, history
<1>3. CASE InsertWithdrawal(r)
  <2>1. pc' \in [Request -> Label]
    BY <1>0, <1>3, GotoTypes DEF InsertWithdrawal, Label
  <2>. QED BY <1>0, <1>3, <2>1, OtherStep
         DEF InsertWithdrawal, AccountInv, TypeOK, history
<1>4. CASE RollbackLock(r)
  <2>1. pc' \in [Request -> Label]
    BY <1>0, <1>4, GotoTypes DEF RollbackLock, Label
  <2>2. AccountsInv'
    BY <1>0, <1>4, UnlockSound, OtherStep DEF RollbackLock
  <2>. QED BY <1>0, <1>4, <2>1, <2>2
         DEF RollbackLock, AccountInv, AccountsInv, TypeOK, history
<1>5. CASE ConfirmWithdrawal(r)
  <2>1. pc' \in [Request -> Label]
    BY <1>0, <1>5, GotoTypes DEF ConfirmWithdrawal, Label
  <2>. QED BY <1>0, <1>5, <2>1, OtherStep
         DEF ConfirmWithdrawal, AccountInv, TypeOK, rows, history
<1>6. CASE UnlockBalance(r)
  <2>1. pc' \in [Request -> Label]
    BY <1>0, <1>6, GotoTypes DEF UnlockBalance, Label
  <2>2. AccountsInv'
    BY <1>0, <1>6, UnlockSound, OtherStep DEF UnlockBalance
  <2>. QED BY <1>0, <1>6, <2>1, <2>2
         DEF UnlockBalance, AccountInv, AccountsInv, TypeOK, history
<1>7. CASE DebitBalance(r)
  <2>1. pc' \in [Request -> Label]
    BY <1>0, <1>7, GotoTypes DEF DebitBalance, Label
  <2>2. AccountsInv'
    BY <1>0, <1>7, DebitSound, OtherStep DEF DebitBalance
  <2>3. debits' \in [Withdrawal -> Nat]
    BY <1>0, <1>7 DEF DebitBalance, debit_user_balance, TypeOK
  <2>. QED BY <1>0, <1>7, <2>1, <2>2, <2>3
         DEF DebitBalance, AccountInv, AccountsInv, TypeOK
<1>8. CASE CompleteWithdrawal(r)
  <2>1. pc' \in [Request -> Label]
    BY <1>0, <1>8, GotoTypes DEF CompleteWithdrawal, Label
  <2>. QED BY <1>0, <1>8, <2>1, OtherStep
         DEF CompleteWithdrawal, AccountInv, TypeOK, history
<1>. QED BY <1>1, <1>2, <1>3, <1>4, <1>5, <1>6, <1>7, <1>8 DEF WithdrawStep

LEMMA NextAccountInv == AccountInv /\ [Next]_vars => AccountInv'
<1>. SUFFICES ASSUME AccountInv, [Next]_vars PROVE AccountInv'
  OBVIOUS
<1>0. TypeOK /\ AccountsInv /\ raced' \subseteq Item
  <2>1. NoteRaces \/ UNCHANGED raced
    BY DEF Next, vars
  <2>. QED BY <2>1, RacesTyped DEF AccountInv, TypeOK
<1>1. ASSUME NEW d \in Deposit, InitiateDeposit(d) PROVE AccountInv'
  BY <1>0, <1>1, OtherStep DEF InitiateDeposit, AccountInv, TypeOK, history
<1>2. ASSUME NEW d \in Deposit, Age(d) PROVE AccountInv'
  BY <1>0, <1>2, OtherStep DEF Age, AccountInv, TypeOK, rows, history
<1>3. CASE CleanupExpiredNonces
  BY <1>0, <1>3, OtherStep DEF CleanupExpiredNonces, AccountInv, TypeOK, rows, history
<1>4. CASE Restart
  <2>1. pc' \in [Request -> Label]
    BY <1>0, <1>4 DEF Restart, TypeOK, Label
  <2>. QED BY <1>0, <1>4, <2>1, OtherStep DEF Restart, AccountInv, TypeOK, rows, history
<1>5. CASE UNCHANGED vars
  BY <1>0, <1>5, OtherStep DEF vars, AccountInv, TypeOK
<1>6. ASSUME NEW r \in Request, VerifyStep(r) \/ WithdrawStep(r), NoteRaces PROVE AccountInv'
  BY <1>6, VerifyTypes, WithdrawTypes
<1>. QED BY <1>1, <1>2, <1>3, <1>4, <1>5, <1>6 DEF Next

LEMMA AccountInvariant == Spec => []AccountInv
BY InitAccountInv, NextAccountInv, PTL DEF Spec

\* Every variable keeps its type: in particular no balance and no locked
\* amount ever becomes negative, under any faults.
THEOREM TypeCorrect == Spec => []TypeOK
BY AccountInvariant, PTL DEF AccountInv

\* What pending withdrawals lock is always covered by the balance, whatever
\* the credits, the fallback writes, the confirmations and the restarts do.
THEOREM LocksAreBacked == Spec => []LockedIsBacked
<1>1. AccountInv => LockedIsBacked
  BY DEF AccountInv, AccountsInv, Sound, LockedIsBacked
<1>. QED BY <1>1, AccountInvariant, PTL

-----------------------------------------------------------------------------
(* Which calls run at once *)

VerifyLabel == {"lookup", "expire", "confirm", "credit", "read", "write", "forget"}
WithdrawLabel == {"lock", "insert", "rollback", "unlock", "debit", "complete"}
EndLabel == {"done", "failed", "broken"}

\* On an item that no two calls have raced for, one call at a time runs.
OneAtATime ==
    \A q, r \in Request :
        Running(q) /\ Running(r) /\ item(q) = item(r) => q = r \/ item(r) \in raced

VerifiesDeposit == \A r \in Request : pc[r] \in VerifyLabel => op(r) = "verify"

CallInv == AccountInv /\ OneAtATime /\ VerifiesDeposit

LEMMA InitCallInv == Init => CallInv
<1>1. Init => AccountInv
  BY InitAccountInv
<1>. QED BY <1>1 DEF Init, CallInv, OneAtATime, Running, VerifiesDeposit, VerifyLabel

LEMMA CallsStay == [Next]_vars => UNCHANGED call /\ raced \subseteq raced'
BY DEF Next, vars, InitiateDeposit, Age, CleanupExpiredNonces, Restart, NoteRaces,
       VerifyStep, VerifyDeposit, LookupPending, ExpireDeposit, ConfirmDeposit,
       CreditBalance, ReadBalance, WriteBalance, ForgetNonce,
       WithdrawStep, CheckBalance, LockBalance, InsertWithdrawal, RollbackLock,
       ConfirmWithdrawal, UnlockBalance, DebitBalance, CompleteWithdrawal

\* What a step of verifyDeposit may be and what it leaves alone
LEMMA VerifyMoves ==
    ASSUME NEW r \in Request, VerifyStep(r)
    PROVE  /\ pc[r] \in VerifyLabel \union {"idle"}
           /\ pc[r] = "idle" => op(r) = "verify"
           /\ \E l \in VerifyLabel \union {"done", "failed"} :
                Goto(r, l) /\ (pc[r] = "idle" => l \in VerifyLabel)
           /\ UNCHANGED <<call, withdrawal, debits>>
           /\ UNCHANGED account \/
                \E b : account' = [account EXCEPT ![user(r)] = OpenRow(user(r), b)]
BY DEF VerifyStep, VerifyDeposit, LookupPending, ExpireDeposit, ConfirmDeposit,
       CreditBalance, ReadBalance, WriteBalance, ForgetNonce, credit_user_balance,
       VerifyLabel, rows, history

\* ... and one of a withdrawal
LEMMA WithdrawMoves ==
    ASSUME NEW r \in Request, WithdrawStep(r)
    PROVE  /\ pc[r] \in WithdrawLabel \union {"idle"}
           /\ \E l \in WithdrawLabel \union EndLabel : Goto(r, l)
           /\ UNCHANGED <<call, credits, deposit, pendingDeposits>>
<1>1. pc[r] \in WithdrawLabel \union {"idle"} /\ UNCHANGED <<call, credits, deposit, pendingDeposits>>
  BY DEF WithdrawStep, CheckBalance, LockBalance, InsertWithdrawal, RollbackLock,
         ConfirmWithdrawal, UnlockBalance, DebitBalance, CompleteWithdrawal, WithdrawLabel,
         rows, history
<1>2. \E l \in WithdrawLabel \union EndLabel : Goto(r, l)
  BY DEF WithdrawStep, CheckBalance, LockBalance, InsertWithdrawal, RollbackLock,
         ConfirmWithdrawal, UnlockBalance, DebitBalance, CompleteWithdrawal, WithdrawLabel,
         EndLabel
<1>. QED BY <1>1, <1>2

\* Request r moves to l.
LEMMA Moved ==
    ASSUME TypeOK, NEW r \in Request, NEW l \in Label, Goto(r, l), UNCHANGED call
    PROVE  \A q \in Request : /\ pc'[q] = IF q = r THEN l ELSE pc[q]
                              /\ item(q)' = item(q) /\ op(q)' = op(q)
  BY DEF TypeOK, Goto, item, op

\* Nobody else works on the item of a running request, unless they race.
LEMMA Alone ==
    ASSUME TypeOK, OneAtATime, NEW r \in Request, NEW l \in Label, Goto(r, l), UNCHANGED call,
           NoteRaces, item(r) \notin raced',
           Running(r) \/ l \notin EndLabel \union {"idle"}
    PROVE  \A q \in Request : q # r /\ item(q) = item(r) => ~Running(q)
<1>. SUFFICES ASSUME NEW q \in Request, q # r, item(q) = item(r), Running(q) PROVE FALSE
  OBVIOUS
<1>1. item(r) \in Item
  BY CallTypes
<1>2. CASE Running(r)
  BY <1>2 DEF OneAtATime, NoteRaces
<1>3. CASE l \notin EndLabel \union {"idle"}
  <2>1. Running(q)' /\ Running(r)' /\ item(q)' = item(r) /\ item(r)' = item(r)
    BY <1>3, Moved DEF Running, EndLabel
  <2>. QED BY <1>1, <2>1 DEF NoteRaces, Contested
<1>. QED BY <1>2, <1>3

LEMMA NextCallInv == CallInv /\ [Next]_vars => CallInv'
<1>. SUFFICES ASSUME CallInv, [Next]_vars PROVE CallInv'
  OBVIOUS
<1>0. AccountInv /\ TypeOK /\ OneAtATime /\ VerifiesDeposit
  BY DEF CallInv, AccountInv
<1>1. AccountInv' /\ UNCHANGED call /\ raced \subseteq raced'
  BY <1>0, NextAccountInv, CallsStay
<1>2. \A q \in Request : item(q)' = item(q) /\ op(q)' = op(q) /\ item(q) \in Item
  BY <1>0, <1>1, CallTypes DEF item, op
<1>3. OneAtATime'
  <2>1. CASE NoteRaces
    BY <1>2, <2>1 DEF OneAtATime, NoteRaces, Contested
  <2>2. CASE UNCHANGED vars
    BY <1>0, <1>2, <2>2 DEF vars, OneAtATime, Running
  <2>. QED BY <2>1, <2>2 DEF Next
<1>4. VerifiesDeposit'
  <2>1. ASSUME NEW r \in Request, VerifyStep(r) PROVE VerifiesDeposit'
    <3>1. PICK l \in VerifyLabel \union {"done", "failed"} : Goto(r, l)
      BY <2>1, VerifyMoves
    <3>2. op(r) = "verify"
      BY <1>0, <2>1, VerifyMoves DEF VerifiesDeposit
    <3>3. l \in Label
      BY DEF VerifyLabel, Label
    <3>. QED BY <1>0, <1>1, <3>1, <3>2, <3>3, Moved DEF VerifiesDeposit
  <2>2. ASSUME NEW r \in Request, WithdrawStep(r) PROVE VerifiesDeposit'
    <3>1. PICK l \in WithdrawLabel \union EndLabel : Goto(r, l)
      BY <2>2, WithdrawMoves
    <3>2. l \in Label /\ l \notin VerifyLabel
      BY DEF VerifyLabel, WithdrawLabel, EndLabel, Label
    <3>. QED BY <1>0, <1>1, <3>1, <3>2, Moved DEF VerifiesDeposit
  <2>3. CASE Restart
    BY <1>0, <1>2, <2>3 DEF Restart, VerifiesDeposit, VerifyLabel
  <2>4. CASE UNCHANGED pc
    BY <1>0, <1>2, <2>4 DEF VerifiesDeposit
  <2>. QED BY <2>1, <2>2, <2>3, <2>4 DEF Next, vars, InitiateDeposit, Age, CleanupExpiredNonces
<1>. QED BY <1>1, <1>3, <1>4 DEF CallInv

LEMMA CallInvariant == Spec => []CallInv
BY InitCallInv, NextCallInv, PTL DEF Spec

-----------------------------------------------------------------------------
(* A deposit that no two calls raced for is credited once, when no answer  *)
(* of the database is lost.                                                *)

NotYetCredited ==
    \A r \in Request :
        item(r) \notin raced =>
            /\ pc[r] \in {"expire", "confirm", "credit", "read", "write"} => credits[item(r)] = 0
            /\ pc[r] \in {"credit", "read", "write"} => deposit[item(r)] = "confirmed"

\* A nonce that was credited can be found in memory only until it is forgotten.
Credited ==
    \A d \in Deposit \ raced :
        credits[d] # 0 =>
            /\ credits[d] = 1
            /\ deposit[d] = "confirmed"
            /\ d \in pendingDeposits => \E r \in Request : pc[r] = "forget" /\ item(r) = d

CreditInv == NotYetCredited /\ Credited

LEMMA InitCreditInv == Init => CreditInv
BY DEF Init, CreditInv, NotYetCredited, Credited

\* Withdrawals do not touch what the crediting of a deposit depends on.
LEMMA WithdrawCredit ==
    ASSUME CallInv, CreditInv, NEW r \in Request, WithdrawStep(r), raced \subseteq raced'
    PROVE  CreditInv'
<1>0. TypeOK /\ NotYetCredited /\ Credited
  BY DEF CallInv, AccountInv, CreditInv
<1>1. PICK l \in WithdrawLabel \union EndLabel : Goto(r, l)
  BY WithdrawMoves
<1>2. /\ pc[r] \in WithdrawLabel \union {"idle"}
      /\ UNCHANGED <<call, credits, deposit, pendingDeposits>>
  BY WithdrawMoves
<1>3. l \in Label /\ l \notin VerifyLabel
  BY DEF VerifyLabel, WithdrawLabel, EndLabel, Label
<1>4. \A q \in Request : pc'[q] = (IF q = r THEN l ELSE pc[q]) /\ item(q)' = item(q)
  BY <1>0, <1>1, <1>2, <1>3, Moved
<1>5. NotYetCredited'
  BY <1>0, <1>2, <1>3, <1>4 DEF NotYetCredited, VerifyLabel
<1>6. Credited'
  BY <1>0, <1>2, <1>4 DEF Credited, WithdrawLabel
<1>. QED BY <1>5, <1>6 DEF CreditInv

LEMMA VerifyCredit ==
    ASSUME CallInv, CreditInv, "lost" \notin Faults, NEW r \in Request, VerifyStep(r), NoteRaces
    PROVE  CreditInv'
<1>. DEFINE d == item(r)
<1>0. TypeOK /\ OneAtATime /\ VerifiesDeposit /\ NotYetCredited /\ Credited
  BY DEF CallInv, AccountInv, CreditInv
<1>1. raced \subseteq raced'
  BY DEF NoteRaces
<1>2. UNCHANGED call /\ pc[r] \in VerifyLabel \union {"idle"}
  BY VerifyMoves
<1>3. op(r) = "verify" /\ d \in Deposit
  BY <1>0, VerifyMoves, CallTypes DEF VerifiesDeposit
<1>4. PICK l \in VerifyLabel \union {"done", "failed"} :
         Goto(r, l) /\ (pc[r] = "idle" => l \in VerifyLabel)
  BY VerifyMoves
<1>5. l \in Label
  BY DEF Label, VerifyLabel
<1>6. \A q \in Request : pc'[q] = (IF q = r THEN l ELSE pc[q]) /\ item(q)' = item(q)
  BY <1>0, <1>2, <1>4, <1>5, Moved
\* nobody else works on d
<1>7. ASSUME d \notin raced' PROVE \A q \in Request : q # r /\ item(q) = d => ~Running(q)
  BY <1>0, <1>2, <1>4, <1>5, <1>7, Alone DEF Running, VerifyLabel, EndLabel
<1>8. CASE VerifyDeposit(r)
  <2>1. UNCHANGED <<credits, deposit>> /\ pc[r] = "idle" /\ pendingDeposits' \subseteq pendingDeposits
    BY <1>8 DEF VerifyDeposit, rows, history
  <2>2. l # "lookup" => d \in pendingDeposits
    BY <1>0, <1>6, <1>8 DEF VerifyDeposit, Goto, TypeOK
  <2>3. l \in {"lookup", "confirm", "expire"}
    BY <1>0, <1>6, <1>8 DEF VerifyDeposit, Goto, TypeOK
  <2>4. d \notin raced' /\ l # "lookup" => credits[d] = 0
    BY <1>0, <1>1, <1>3, <1>7, <2>1, <2>2 DEF Credited, Running
  <2>5. NotYetCredited'
    BY <1>0, <1>1, <1>6, <2>1, <2>3, <2>4 DEF NotYetCredited
  <2>6. Credited'
    BY <1>0, <1>1, <1>6, <2>1 DEF Credited
  <2>. QED BY <2>5, <2>6 DEF CreditInv
<1>9. CASE LookupPending(r)
  <2>1. UNCHANGED <<credits, deposit, pendingDeposits>> /\ pc[r] = "lookup"
    BY <1>9 DEF LookupPending, rows, history
  <2>2. l \in {"confirm", "failed"} /\ (l = "confirm" => deposit[d] = "pending")
    BY <1>0, <1>6, <1>9 DEF LookupPending, Goto, TypeOK
  <2>3. NotYetCredited'
    BY <1>0, <1>1, <1>3, <1>6, <2>1, <2>2 DEF NotYetCredited, Credited
  <2>4. Credited'
    BY <1>0, <1>1, <1>6, <2>1 DEF Credited
  <2>. QED BY <2>3, <2>4 DEF CreditInv
<1>10. CASE ExpireDeposit(r)
  <2>1. UNCHANGED <<credits, pendingDeposits>> /\ pc[r] = "expire" /\ l = "failed"
    BY <1>0, <1>6, <1>10 DEF ExpireDeposit, history, Goto, TypeOK
  <2>2. \A e \in Deposit : e # d => deposit'[e] = deposit[e]
    BY <1>0, <1>10 DEF ExpireDeposit, TypeOK
  <2>3. d \notin raced' => credits[d] = 0
    BY <1>0, <1>1, <2>1 DEF NotYetCredited
  <2>4. NotYetCredited'
    <3>. SUFFICES ASSUME NEW q \in Request, item(q)' \notin raced'
                  PROVE  /\ pc'[q] \in {"expire", "confirm", "credit", "read", "write"}
                              => credits'[item(q)'] = 0
                         /\ pc'[q] \in {"credit", "read", "write"}
                              => deposit'[item(q)'] = "confirmed"
      BY DEF NotYetCredited
    <3>1. CASE q = r
      BY <1>6, <2>1, <3>1
    <3>2. CASE q # r
      <4>1. pc'[q] = pc[q] /\ item(q)' = item(q) /\ item(q) \notin raced
        BY <1>1, <1>6, <3>2
      <4>2. pc[q] \in {"expire", "confirm", "credit", "read", "write"}
              => item(q) # d /\ item(q) \in Deposit
        BY <1>0, <1>6, <1>7, <3>2, CallTypes DEF Running, VerifiesDeposit, VerifyLabel
      <4>. QED BY <1>0, <2>1, <2>2, <4>1, <4>2 DEF NotYetCredited
    <3>. QED BY <3>1, <3>2
  <2>5. Credited'
    BY <1>0, <1>1, <1>6, <2>1, <2>2, <2>3 DEF Credited
  <2>. QED BY <2>4, <2>5 DEF CreditInv
<1>11. CASE ConfirmDeposit(r)
  <2>1. UNCHANGED <<credits, pendingDeposits>> /\ pc[r] = "confirm"
    BY <1>11 DEF ConfirmDeposit, history
  <2>2. l \in {"credit", "failed"} /\ (l = "credit" => deposit'[d] = "confirmed")
    BY <1>0, <1>3, <1>6, <1>11 DEF ConfirmDeposit, Goto, TypeOK
  <2>3. \A e \in Deposit : deposit'[e] = deposit[e] \/ deposit'[e] = "confirmed"
    BY <1>0, <1>11 DEF ConfirmDeposit, TypeOK
  <2>4. d \notin raced' => credits[d] = 0
    BY <1>0, <1>1, <2>1 DEF NotYetCredited
  <2>5. NotYetCredited'
    <3>. SUFFICES ASSUME NEW q \in Request, item(q)' \notin raced'
                  PROVE  /\ pc'[q] \in {"expire", "confirm", "credit", "read", "write"}
                              => credits'[item(q)'] = 0
                         /\ pc'[q] \in {"credit", "read", "write"}
                              => deposit'[item(q)'] = "confirmed"
      BY DEF NotYetCredited
    <3>1. CASE q = r
      BY <1>6, <2>1, <2>2, <2>4, <3>1
    <3>2. CASE q # r
      <4>1. pc'[q] = pc[q] /\ item(q)' = item(q) /\ item(q) \notin raced
        BY <1>1, <1>6, <3>2
      <4>2. pc[q] \in {"credit", "read", "write"} => item(q) \in Deposit
        BY <1>0, CallTypes DEF VerifiesDeposit, VerifyLabel
      <4>. QED BY <1>0, <2>1, <2>3, <4>1, <4>2 DEF NotYetCredited
    <3>. QED BY <3>1, <3>2
  <2>6. Credited'
    BY <1>0, <1>1, <1>6, <2>1, <2>3 DEF Credited
  <2>. QED BY <2>5, <2>6 DEF CreditInv
<1>12. CASE CreditBalance(r) \/ WriteBalance(r)
  <2>1. UNCHANGED <<deposit, pendingDeposits>> /\ pc[r] \in {"credit", "write"}
    BY <1>12 DEF CreditBalance, WriteBalance
  <2>2. d \notin raced' => credits[d] = 0 /\ deposit[d] = "confirmed"
    BY <1>0, <1>1, <2>1 DEF NotYetCredited
  <2>3. \/ UNCHANGED credits /\ l \in {"read", "forget"}
        \/ credits' = [credits EXCEPT ![d] = @ + 1] /\ l = "forget"
    BY <1>0, <1>6, <1>12 DEF CreditBalance, WriteBalance, credit_user_balance, Goto, TypeOK
  <2>4. \A e \in Deposit : e # d => credits'[e] = credits[e]
    BY <1>0, <1>3, <2>3 DEF TypeOK
  <2>5. l \in {"read", "forget"}
    BY <2>3
  <2>6. d \notin raced' => credits'[d] \in {0, 1} /\ (l = "read" => credits'[d] = 0)
    BY <1>0, <1>3, <2>2, <2>3 DEF TypeOK
  <2>7. NotYetCredited'
    <3>. SUFFICES ASSUME NEW q \in Request, item(q)' \notin raced'
                  PROVE  /\ pc'[q] \in {"expire", "confirm", "credit", "read", "write"}
                              => credits'[item(q)'] = 0
                         /\ pc'[q] \in {"credit", "read", "write"}
                              => deposit'[item(q)'] = "confirmed"
      BY DEF NotYetCredited
    <3>1. CASE q = r
      BY <1>6, <2>1, <2>2, <2>5, <2>6, <3>1
    <3>2. CASE q # r
      <4>1. pc'[q] = pc[q] /\ item(q)' = item(q) /\ item(q) \notin raced
        BY <1>1, <1>6, <3>2
      <4>2. pc[q] \in {"expire", "confirm", "credit", "read", "write"}
              => item(q) # d /\ item(q) \in Deposit
        BY <1>0, <1>6, <1>7, <3>2, CallTypes DEF Running, VerifiesDeposit, VerifyLabel
      <4>. QED BY <1>0, <2>1, <2>4, <4>1, <4>2 DEF NotYetCredited
    <3>. QED BY <3>1, <3>2
  <2>8. Credited'
    <3>. SUFFICES ASSUME NEW e \in Deposit \ raced', credits'[e] # 0
                  PROVE  /\ credits'[e] = 1 /\ deposit'[e] = "confirmed"
                         /\ e \in pendingDeposits' =>
                              \E q \in Request : pc'[q] = "forget" /\ item(q)' = e
      BY DEF Credited
    <3>1. CASE e = d
      BY <1>6, <2>1, <2>2, <2>5, <2>6, <3>1
    <3>2. CASE e # d
      BY <1>0, <1>1, <1>6, <2>1, <2>4, <3>2 DEF Credited
    <3>. QED BY <3>1, <3>2
  <2>. QED BY <2>7, <2>8 DEF CreditInv
<1>13. CASE ReadBalance(r)
  <2>1. UNCHANGED <<credits, deposit, pendingDeposits>> /\ pc[r] = "read" /\ l = "write"
    BY <1>0, <1>6, <1>13 DEF ReadBalance, rows, history, Goto, TypeOK
  <2>2. NotYetCredited'
    BY <1>0, <1>1, <1>6, <2>1 DEF NotYetCredited
  <2>3. Credited'
    BY <1>0, <1>1, <1>6, <2>1 DEF Credited
  <2>. QED BY <2>2, <2>3 DEF CreditInv
<1>14. CASE ForgetNonce(r)
  <2>1. UNCHANGED <<credits, deposit>> /\ pc[r] = "forget" /\ l = "done"
    BY <1>0, <1>6, <1>14 DEF ForgetNonce, rows, history, Goto, TypeOK
  <2>2. pendingDeposits' = pendingDeposits \ {d}
    BY <1>14 DEF ForgetNonce
  <2>3. NotYetCredited'
    BY <1>0, <1>1, <1>6, <2>1 DEF NotYetCredited
  <2>4. Credited'
    BY <1>0, <1>1, <1>6, <2>1, <2>2 DEF Credited
  <2>. QED BY <2>3, <2>4 DEF CreditInv
<1>. QED BY <1>8, <1>9, <1>10, <1>11, <1>12, <1>13, <1>14 DEF VerifyStep

LEMMA NextCreditInv ==
    ASSUME "lost" \notin Faults
    PROVE  CallInv /\ CreditInv /\ [Next]_vars => CreditInv'
<1>. SUFFICES ASSUME CallInv, CreditInv, [Next]_vars PROVE CreditInv'
  OBVIOUS
<1>0. TypeOK /\ OneAtATime /\ VerifiesDeposit /\ NotYetCredited /\ Credited
  BY DEF CallInv, AccountInv, CreditInv
<1>1. UNCHANGED call /\ raced \subseteq raced'
  BY CallsStay
<1>2. \A r \in Request : item(r)' = item(r)
  BY <1>1 DEF item
<1>3. ASSUME NEW d \in Deposit, InitiateDeposit(d) PROVE CreditInv'
  <2>1. UNCHANGED <<pc, credits>> /\ deposit[d] = "none"
    BY <1>3 DEF InitiateDeposit, history
  <2>2. \A e \in Deposit : e # d => deposit'[e] = deposit[e]
    BY <1>0, <1>3 DEF InitiateDeposit, TypeOK
  <2>3. pendingDeposits' = pendingDeposits \union {d}
    BY <1>3 DEF InitiateDeposit
  <2>4. d \notin raced => credits[d] = 0
    BY <1>0, <2>1 DEF Credited
  <2>5. NotYetCredited'
    <3>1. \A r \in Request : item(r) \notin raced /\ pc[r] \in {"credit", "read", "write"} =>
             item(r) \in Deposit /\ item(r) # d
      BY <1>0, <2>1, CallTypes DEF NotYetCredited, VerifiesDeposit, VerifyLabel
    <3>. QED BY <1>0, <1>1, <1>2, <2>1, <2>2, <3>1 DEF NotYetCredited
  <2>6. Credited'
    BY <1>0, <1>1, <1>2, <2>1, <2>2, <2>3, <2>4 DEF Credited
  <2>. QED BY <2>5, <2>6 DEF CreditInv
<1>4. CASE UNCHANGED <<pc, credits, deposit>> /\ pendingDeposits' \subseteq pendingDeposits
  <2>1. NotYetCredited' /\ Credited'
    BY <1>0, <1>1, <1>2, <1>4 DEF NotYetCredited, Credited
  <2>. QED BY <2>1 DEF CreditInv
<1>5. CASE Restart
  <2>1. UNCHANGED <<credits, deposit>> /\ pendingDeposits' = {}
    BY <1>5 DEF Restart, rows, history
  <2>2. \A r \in Request : ~Running(r)'
    BY <1>5 DEF Restart, Running
  <2>3. NotYetCredited'
    BY <2>2 DEF NotYetCredited, Running
  <2>4. Credited'
    BY <1>0, <1>1, <2>1 DEF Credited
  <2>. QED BY <2>3, <2>4 DEF CreditInv
<1>6. ASSUME NEW r \in Request, VerifyStep(r) \/ WithdrawStep(r), NoteRaces PROVE CreditInv'
  BY <1>1, <1>6, VerifyCredit, WithdrawCredit
<1>7. (\E d \in Deposit : Age(d)) \/ CleanupExpiredNonces \/ UNCHANGED vars =>
         UNCHANGED <<pc, credits, deposit>> /\ pendingDeposits' \subseteq pendingDeposits
  BY DEF vars, CleanupExpiredNonces, Age, rows, history
<1>. QED BY <1>3, <1>4, <1>5, <1>6, <1>7 DEF Next

LEMMA CreditInvariant ==
    ASSUME "lost" \notin Faults
    PROVE  Spec => []CreditInv
BY CallInvariant, InitCreditInv, NextCreditInv, PTL DEF Spec

\* A deposit that no two calls raced for is credited at most once when no
\* answer of the database is lost, whatever calls fail and are repeated and
\* whenever the server restarts.
THEOREM DepositsCreditedOnce ==
    ASSUME "lost" \notin Faults
    PROVE  Spec => []CreditedOnce
<1>1. CallInv /\ CreditInv => CreditedOnce
  BY DEF CallInv, AccountInv, CreditInv, TypeOK, Credited, CreditedOnce
<1>. QED BY <1>1, CallInvariant, CreditInvariant, PTL

\* Under the same assumption such a deposit, once credited, is recorded as
\* confirmed and stays so.
THEOREM CreditsAreConfirmed ==
    ASSUME "lost" \notin Faults
    PROVE  Spec => []CreditedIsConfirmed
<1>1. CallInv /\ CreditInv => CreditedIsConfirmed
  BY DEF CallInv, AccountInv, CreditInv, TypeOK, Credited, CreditedIsConfirmed
<1>. QED BY <1>1, CallInvariant, CreditInvariant, PTL

-----------------------------------------------------------------------------
(* Withdrawals, under every fault: which calls work on one, and what they  *)
(* have recorded                                                           *)

InitiateLabel == {"lock", "insert", "rollback"}
ConfirmLabel == {"unlock", "debit", "complete"}

StageOps ==
    \A r \in Request : /\ pc[r] \in InitiateLabel => op(r) = "withdraw"
                       /\ pc[r] \in ConfirmLabel => op(r) = "confirm"

\* Every call of initiateWithdrawal makes a withdrawal of its own ...
OneInitiates ==
    \A q, r \in Request :
        op(r) = "withdraw" /\ call[q] = call[r] /\ pc[q] # "idle" /\ pc[r] # "idle" => q = r

\* ... and nothing else records it.
Initiated ==
    \A w \in Withdrawal :
        withdrawal[w] # "none" =>
            \E q \in Request : call[q] = <<"withdraw", w>> /\ pc[q] \notin {"idle", "lock", "insert"}

\* Only what is recorded is confirmed, so only that can be raced for; and as
\* long as it is not, it is pending until its confirmation has completed it.
ConfirmsRecorded ==
    \A r \in Request :
        op(r) = "confirm" /\ pc[r] \in ConfirmLabel \union {"broken"} => withdrawal[item(r)] # "none"

RacedRecorded == \A w \in Withdrawal \intersect raced : withdrawal[w] # "none"

ConfirmsPending ==
    \A r \in Request :
        pc[r] \in ConfirmLabel /\ item(r) \notin raced => withdrawal[item(r)] = "pending"

StageInv ==
    StageOps /\ OneInitiates /\ Initiated /\ ConfirmsRecorded /\ RacedRecorded /\ ConfirmsPending

LEMMA InitStageInv == Init => StageInv
BY DEF Init, StageInv, StageOps, OneInitiates, Initiated, ConfirmsRecorded, RacedRecorded,
       ConfirmsPending, InitiateLabel, ConfirmLabel

LEMMA CallIs ==
    ASSUME TypeOK, NEW r \in Request
    PROVE  /\ call[r] = <<op(r), item(r)>>
           /\ op(r) \in {"verify", "withdraw", "confirm"}
           /\ op(r) = "verify" <=> item(r) \notin Withdrawal
<1>1. call[r] \in Call
  BY DEF TypeOK
<1>2. PICK o \in {"verify", "withdraw", "confirm"}, x \in Item :
         call[r] = <<o, x>> /\ (o = "verify" <=> x \in Deposit)
  BY <1>1, ConstantsAssumption DEF ConstantsAssumption, Call, Item
<1>. QED BY <1>2, ConstantsAssumption DEF ConstantsAssumption, op, item, Item

\* What a step of a withdrawal does to the label of its request, ...
LEMMA WithdrawGoes ==
    ASSUME StageOps, NEW r \in Request, WithdrawStep(r)
    PROVE  \E l \in WithdrawLabel \union EndLabel :
              /\ Goto(r, l)
              /\ l \in InitiateLabel => op(r) = "withdraw"
              /\ l \in ConfirmLabel => op(r) = "confirm"
              /\ pc[r] \in InitiateLabel => l \notin ConfirmLabel /\ l # "lock"
              /\ pc[r] = "rollback" => l \in EndLabel
              /\ pc[r] = "lock" => l \in EndLabel \union {"insert"}
              /\ pc[r] \in ConfirmLabel => l \notin InitiateLabel /\ l # "unlock"
              /\ pc[r] = "idle" => l \in {"lock", "unlock", "done", "failed"}
              /\ l = "complete" <=> pc[r] = "debit" /\ l # "broken"
              /\ l = "debit" => pc[r] = "unlock"
<1>1. CASE CheckBalance(r)
  BY <1>1 DEF CheckBalance, WithdrawLabel, EndLabel, InitiateLabel, ConfirmLabel
<1>2. CASE LockBalance(r)
  BY <1>2 DEF LockBalance, StageOps, WithdrawLabel, EndLabel, InitiateLabel, ConfirmLabel
<1>3. CASE InsertWithdrawal(r)
  BY <1>3 DEF InsertWithdrawal, StageOps, WithdrawLabel, EndLabel, InitiateLabel, ConfirmLabel
<1>4. CASE RollbackLock(r)
  BY <1>4 DEF RollbackLock, StageOps, WithdrawLabel, EndLabel, InitiateLabel, ConfirmLabel
<1>5. CASE ConfirmWithdrawal(r)
  BY <1>5 DEF ConfirmWithdrawal, WithdrawLabel, EndLabel, InitiateLabel, ConfirmLabel
<1>6. CASE UnlockBalance(r)
  BY <1>6 DEF UnlockBalance, StageOps, WithdrawLabel, EndLabel, InitiateLabel, ConfirmLabel
<1>7. CASE DebitBalance(r)
  BY <1>7 DEF DebitBalance, StageOps, WithdrawLabel, EndLabel, InitiateLabel, ConfirmLabel
<1>8. CASE CompleteWithdrawal(r)
  BY <1>8 DEF CompleteWithdrawal, StageOps, WithdrawLabel, EndLabel, InitiateLabel, ConfirmLabel
<1>. QED BY <1>1, <1>2, <1>3, <1>4, <1>5, <1>6, <1>7, <1>8 DEF WithdrawStep

\* ... to its record, ...
LEMMA WithdrawRecords ==
    ASSUME TypeOK, StageOps, NEW r \in Request, WithdrawStep(r)
    PROVE  /\ item(r) \in Withdrawal
           /\ \A x \in Withdrawal : x # item(r) => withdrawal'[x] = withdrawal[x]
           /\ \/ withdrawal'[item(r)] = withdrawal[item(r)]
              \/ pc[r] = "insert" /\ withdrawal'[item(r)] = "pending"
              \/ pc[r] = "complete" /\ withdrawal'[item(r)] = "completed"
           /\ pc[r] = "idle" /\ op(r) = "withdraw" =>
                 \A q \in Request : call[q] = call[r] => pc[q] = "idle"
           /\ pc[r] = "idle" /\ Goto(r, "unlock") => withdrawal[item(r)] = "pending"
<1>1. op(r) \in {"withdraw", "confirm"}
  BY DEF StageOps, WithdrawStep, CheckBalance, LockBalance, InsertWithdrawal, RollbackLock,
         ConfirmWithdrawal, UnlockBalance, DebitBalance, CompleteWithdrawal,
         InitiateLabel, ConfirmLabel
<1>2. item(r) \in Withdrawal
  BY <1>1, CallIs
<1>3. \/ UNCHANGED withdrawal
      \/ pc[r] = "insert" /\ withdrawal' = [withdrawal EXCEPT ![item(r)] = "pending"]
      \/ pc[r] = "complete" /\ withdrawal' = [withdrawal EXCEPT ![item(r)] = "completed"]
  BY DEF WithdrawStep, CheckBalance, LockBalance, InsertWithdrawal, RollbackLock,
         ConfirmWithdrawal, UnlockBalance, DebitBalance, CompleteWithdrawal, rows
<1>4. pc[r] = "idle" => CheckBalance(r) \/ ConfirmWithdrawal(r)
  BY DEF WithdrawStep, LockBalance, InsertWithdrawal, RollbackLock, UnlockBalance,
         DebitBalance, CompleteWithdrawal
<1>5. pc[r] = "idle" /\ op(r) = "withdraw" =>
         \A q \in Request : call[q] = call[r] => pc[q] = "idle"
  BY <1>4 DEF CheckBalance, ConfirmWithdrawal
<1>6. pc[r] = "idle" /\ Goto(r, "unlock") => withdrawal[item(r)] = "pending"
  BY <1>4 DEF TypeOK, CheckBalance, ConfirmWithdrawal, Goto
<1>. QED BY <1>2, <1>3, <1>5, <1>6 DEF TypeOK

\* ... and to what was debited.
LEMMA WithdrawDebits ==
    ASSUME TypeOK, NEW r \in Request, item(r) \in Withdrawal, WithdrawStep(r)
    PROVE  /\ \A x \in Withdrawal : x # item(r) => debits'[x] = debits[x]
           /\ \/ debits'[item(r)] = debits[item(r)]
              \/ pc[r] = "debit" /\ debits'[item(r)] = debits[item(r)] + 1
           /\ pc[r] = "complete" =>
                 withdrawal'[item(r)] = "completed" \/ Goto(r, "broken")
<1>1. \/ UNCHANGED debits
      \/ pc[r] = "debit" /\ debits' = [debits EXCEPT ![item(r)] = @ + 1]
  BY DEF WithdrawStep, CheckBalance, LockBalance, InsertWithdrawal, RollbackLock,
         ConfirmWithdrawal, UnlockBalance, DebitBalance, CompleteWithdrawal, history,
         debit_user_balance
<1>2. pc[r] = "complete" => withdrawal'[item(r)] = "completed" \/ Goto(r, "broken")
  BY DEF TypeOK, WithdrawStep, CheckBalance, LockBalance, InsertWithdrawal, RollbackLock,
         ConfirmWithdrawal, UnlockBalance, DebitBalance, CompleteWithdrawal
<1>. QED BY <1>1, <1>2 DEF TypeOK

\* While an initiated withdrawal has no record no other call works on it.
LEMMA NotRecorded ==
    ASSUME TypeOK, StageInv, NEW r \in Request, pc[r] \in InitiateLabel,
           pc[r] = "rollback" => withdrawal[item(r)] = "none"
    PROVE  /\ item(r) \in Withdrawal
           /\ withdrawal[item(r)] = "none" /\ item(r) \notin raced
           /\ \A q \in Request : q # r /\ item(q) = item(r) =>
                 pc[q] \notin WithdrawLabel \union {"broken"}
<1>0. /\ StageOps /\ OneInitiates /\ Initiated /\ ConfirmsRecorded /\ RacedRecorded
      /\ WithdrawLabel = InitiateLabel \union ConfirmLabel
  BY DEF StageInv, WithdrawLabel, InitiateLabel, ConfirmLabel
<1>1. op(r) = "withdraw" /\ item(r) \in Withdrawal /\ call[r] = <<"withdraw", item(r)>>
  BY <1>0, CallIs DEF StageOps
<1>2. withdrawal[item(r)] = "none"
  BY <1>0, <1>1 DEF Initiated, OneInitiates, InitiateLabel
<1>3. ASSUME NEW q \in Request, q # r, item(q) = item(r)
      PROVE  pc[q] \notin WithdrawLabel \union {"broken"}
  <2>1. CASE op(q) = "withdraw"
    <3>1. call[q] = call[r]
      BY <1>1, <1>3, <2>1, CallIs
    <3>. QED BY <1>0, <1>1, <1>3, <3>1 DEF OneInitiates, WithdrawLabel, InitiateLabel
  <2>2. CASE op(q) # "withdraw"
    BY <1>0, <1>1, <1>2, <1>3, <2>2, CallIs DEF StageOps, ConfirmsRecorded
  <2>. QED BY <2>1, <2>2
<1>. QED BY <1>0, <1>1, <1>2, <1>3 DEF RacedRecorded

\* Of two calls that run on one withdrawal one confirms it.
LEMMA RacedIsRecorded ==
    ASSUME CallInv, CallInv', StageOps', OneInitiates', ConfirmsRecorded',
           RacedRecorded, NoteRaces, UNCHANGED call,
           \A x \in Withdrawal : withdrawal[x] # "none" => withdrawal'[x] # "none"
    PROVE  RacedRecorded'
<1>. SUFFICES ASSUME NEW x \in Withdrawal, x \in raced', x \notin raced
              PROVE  withdrawal'[x] # "none"
  BY DEF RacedRecorded
<1>0. TypeOK /\ \A q \in Request : item(q)' = item(q) /\ op(q)' = op(q)
  BY DEF CallInv, AccountInv, item, op
<1>1. PICK p, q \in Request : p # q /\ Running(p)' /\ Running(q)' /\ item(p) = x /\ item(q) = x
  BY <1>0 DEF NoteRaces, Contested
<1>2. op(p) # "verify" /\ op(q) # "verify"
  BY <1>0, <1>1, CallIs
<1>3. pc'[p] \in WithdrawLabel /\ pc'[q] \in WithdrawLabel
  <2>1. \A s \in Request : Running(s)' => pc'[s] \in VerifyLabel \union WithdrawLabel
    BY DEF CallInv, AccountInv, TypeOK, Running, Label, VerifyLabel, WithdrawLabel
  <2>. QED BY <1>0, <1>1, <1>2, <2>1 DEF CallInv, VerifiesDeposit
<1>4. CASE op(p) = "confirm" \/ op(q) = "confirm"
  <2>1. WithdrawLabel = InitiateLabel \union ConfirmLabel
    BY DEF WithdrawLabel, InitiateLabel, ConfirmLabel
  <2>. QED BY <1>0, <1>1, <1>3, <1>4, <2>1 DEF StageOps, ConfirmsRecorded
<1>5. CASE op(p) = "withdraw" /\ op(q) = "withdraw"
  <2>1. call[p] = call[q]
    BY <1>0, <1>1, <1>5, CallIs
  <2>. QED BY <1>0, <1>1, <1>3, <1>5, <2>1 DEF OneInitiates, WithdrawLabel
<1>. QED BY <1>0, <1>2, <1>4, <1>5, CallIs

LEMMA WithdrawStage ==
    ASSUME CallInv, CallInv', StageInv, NEW r \in Request, WithdrawStep(r), NoteRaces
    PROVE  StageInv'
<1>. DEFINE w == item(r)
<1>0. /\ TypeOK /\ OneAtATime /\ StageOps /\ OneInitiates /\ Initiated
      /\ ConfirmsRecorded /\ RacedRecorded /\ ConfirmsPending
      /\ WithdrawLabel = InitiateLabel \union ConfirmLabel
  BY DEF CallInv, AccountInv, StageInv, WithdrawLabel, InitiateLabel, ConfirmLabel
<1>1. PICK l \in WithdrawLabel \union EndLabel :
              /\ Goto(r, l)
              /\ l \in InitiateLabel => op(r) = "withdraw"
              /\ l \in ConfirmLabel => op(r) = "confirm"
              /\ pc[r] \in InitiateLabel => l \notin ConfirmLabel /\ l # "lock"
              /\ pc[r] = "rollback" => l \in EndLabel
              /\ pc[r] = "lock" => l \in EndLabel \union {"insert"}
              /\ pc[r] \in ConfirmLabel => l \notin InitiateLabel /\ l # "unlock"
              /\ pc[r] = "idle" => l \in {"lock", "unlock", "done", "failed"}
              /\ l = "complete" <=> pc[r] = "debit" /\ l # "broken"
              /\ l = "debit" => pc[r] = "unlock"
  BY <1>0, WithdrawGoes
<1>2. /\ w \in Withdrawal
      /\ \A x \in Withdrawal : x # w => withdrawal'[x] = withdrawal[x]
      /\ \/ withdrawal'[w] = withdrawal[w]
         \/ pc[r] = "insert" /\ withdrawal'[w] = "pending"
         \/ pc[r] = "complete" /\ withdrawal'[w] = "completed"
      /\ pc[r] = "idle" /\ op(r) = "withdraw" =>
            \A q \in Request : call[q] = call[r] => pc[q] = "idle"
      /\ pc[r] = "idle" /\ l = "unlock" => withdrawal[w] = "pending"
  BY <1>0, <1>1, WithdrawRecords
<1>3. UNCHANGED call /\ pc[r] \in WithdrawLabel \union {"idle"} /\ raced \subseteq raced'
  BY WithdrawMoves DEF NoteRaces
<1>4. l \in Label /\ l # "idle"
  BY DEF WithdrawLabel, EndLabel, Label
<1>5. \A q \in Request : pc'[q] = (IF q = r THEN l ELSE pc[q]) /\ item(q)' = item(q) /\ op(q)' = op(q)
  BY <1>0, <1>1, <1>3, <1>4, Moved
<1>6. \A q \in Request : call[q] = <<op(q), item(q)>> /\ call'[q] = call[q]
  BY <1>0, <1>3, CallIs
<1>7. \A x \in Withdrawal : withdrawal[x] # "none" => withdrawal'[x] # "none"
  BY <1>2
<1>. HIDE DEF w
<1>8. StageOps'
  BY <1>0, <1>1, <1>5 DEF StageOps
<1>9. OneInitiates'
  BY <1>0, <1>2, <1>5, <1>6 DEF OneInitiates
<1>10. Initiated'
  <2>. SUFFICES ASSUME NEW x \in Withdrawal, withdrawal'[x] # "none"
                PROVE  \E q \in Request : /\ call'[q] = <<"withdraw", x>>
                                          /\ pc'[q] \notin {"idle", "lock", "insert"}
    BY DEF Initiated
  <2>1. CASE withdrawal[x] # "none"
    <3>1. PICK q \in Request : call[q] = <<"withdraw", x>> /\ pc[q] \notin {"idle", "lock", "insert"}
      BY <1>0, <2>1 DEF Initiated
    <3>2. q = r => l \notin {"lock", "insert"}
      <4>1. q = r => pc[r] = "rollback" \/ pc[r] \in ConfirmLabel
        BY <1>0, <1>3, <3>1 DEF InitiateLabel
      <4>. QED BY <1>1, <4>1 DEF EndLabel, InitiateLabel
    <3>. QED BY <1>4, <1>5, <1>6, <3>1, <3>2
  <2>2. CASE withdrawal[x] = "none"
    <3>1. x = w /\ pc[r] \in {"insert", "complete"}
      BY <1>2, <2>2
    <3>2. pc[r] = "insert"
      BY <1>0, <1>2, <2>2, <3>1 DEF ConfirmsRecorded, StageOps, ConfirmLabel, w
    <3>3. op(r) = "withdraw" /\ l \notin {"lock", "insert"}
      <4>1. Goto(r, "done") \/ Goto(r, "rollback")
        BY <3>2 DEF WithdrawStep, CheckBalance, LockBalance, InsertWithdrawal, RollbackLock,
             ConfirmWithdrawal, UnlockBalance, DebitBalance, CompleteWithdrawal
      <4>2. l \in {"done", "rollback"}
        BY <1>0, <1>1, <4>1 DEF Goto, TypeOK
      <4>. QED BY <1>0, <3>2, <4>2 DEF StageOps, InitiateLabel
    <3>. QED BY <1>4, <1>5, <1>6, <3>1, <3>3 DEF w
  <2>. QED BY <2>1, <2>2
<1>11. ConfirmsRecorded'
  <2>. SUFFICES ASSUME NEW q \in Request, op(q) = "confirm",
                       pc'[q] \in ConfirmLabel \union {"broken"}
                PROVE  withdrawal'[item(q)] # "none"
    BY <1>5 DEF ConfirmsRecorded
  <2>1. item(q) \in Withdrawal
    BY <1>0, CallIs
  <2>2. CASE pc[q] \in ConfirmLabel \union {"broken"}
    BY <1>0, <1>7, <2>1, <2>2 DEF ConfirmsRecorded
  <2>3. CASE pc[q] \notin ConfirmLabel \union {"broken"}
    <3>1. q = r /\ pc[r] = "idle"
      BY <1>0, <1>3, <1>5, <2>3 DEF StageOps
    <3>2. l = "unlock"
      BY <1>1, <1>5, <3>1 DEF ConfirmLabel
    <3>. QED BY <1>2, <3>1, <3>2 DEF w
  <2>. QED BY <2>2, <2>3
<1>12. RacedRecorded'
  BY <1>0, <1>3, <1>7, <1>8, <1>9, <1>11, RacedIsRecorded
<1>13. ConfirmsPending'
  <2>. SUFFICES ASSUME NEW q \in Request, pc'[q] \in ConfirmLabel, item(q) \notin raced'
                PROVE  withdrawal'[item(q)] = "pending"
    BY <1>5 DEF ConfirmsPending
  <2>1. CASE q = r
    <3>1. l \in ConfirmLabel /\ pc[r] \in ConfirmLabel \union {"idle"}
      BY <1>0, <1>1, <1>3, <1>5, <2>1
    <3>2. pc[r] \notin {"insert", "complete"}
      BY <1>1, <3>1 DEF ConfirmLabel, InitiateLabel
    <3>3. withdrawal[w] = "pending"
      BY <1>0, <1>1, <1>2, <1>3, <2>1, <3>1 DEF ConfirmsPending, ConfirmLabel, w
    <3>. QED BY <1>2, <2>1, <3>2, <3>3 DEF w
  <2>2. CASE q # r
    <3>1. pc[q] \in ConfirmLabel /\ withdrawal[item(q)] = "pending" /\ Running(q)
            /\ item(q) \in Withdrawal
      BY <1>0, <1>3, <1>5, <2>2, CallIs DEF ConfirmsPending, Running, ConfirmLabel, StageOps
    <3>2. item(q) = w => ~Running(r)
      BY <1>0, <1>3, <2>2, <3>1 DEF OneAtATime, w
    <3>. QED BY <1>2, <3>1, <3>2 DEF Running
  <2>. QED BY <2>1, <2>2
<1>. QED BY <1>8, <1>9, <1>10, <1>11, <1>12, <1>13 DEF StageInv

\* Steps that leave the withdrawals and the labels of their calls alone, ...
LEMMA OtherStage ==
    ASSUME CallInv, CallInv', StageInv, UNCHANGED <<call, withdrawal>>, NoteRaces,
           \A q \in Request : \/ pc'[q] = pc[q]
                              \/ op(q) = "verify" /\ pc'[q] \notin WithdrawLabel \union {"broken"}
    PROVE  StageInv'
<1>0. /\ TypeOK /\ StageOps /\ OneInitiates /\ Initiated
      /\ ConfirmsRecorded /\ RacedRecorded /\ ConfirmsPending
      /\ WithdrawLabel = InitiateLabel \union ConfirmLabel
  BY DEF CallInv, AccountInv, StageInv, WithdrawLabel, InitiateLabel, ConfirmLabel
<1>1. \A q \in Request : item(q)' = item(q) /\ op(q)' = op(q) /\ call[q] = <<op(q), item(q)>>
  BY <1>0, CallIs DEF item, op
<1>2. StageOps' /\ OneInitiates' /\ ConfirmsRecorded'
  BY <1>0, <1>1 DEF StageOps, OneInitiates, ConfirmsRecorded
<1>3. Initiated'
  BY <1>0, <1>1 DEF Initiated
<1>4. RacedRecorded'
  BY <1>0, <1>2, RacedIsRecorded
<1>5. ConfirmsPending'
  BY <1>0, <1>1 DEF ConfirmsPending, NoteRaces
<1>. QED BY <1>2, <1>3, <1>4, <1>5 DEF StageInv

\* ... and a restart, after which no call runs.
LEMMA RestartStage ==
    ASSUME CallInv, CallInv', StageInv, Restart, NoteRaces
    PROVE  StageInv'
<1>0. /\ TypeOK /\ StageOps /\ OneInitiates /\ Initiated
      /\ ConfirmsRecorded /\ RacedRecorded
      /\ WithdrawLabel = InitiateLabel \union ConfirmLabel
  BY DEF CallInv, AccountInv, StageInv, WithdrawLabel, InitiateLabel, ConfirmLabel
<1>1. UNCHANGED <<call, withdrawal>>
  BY DEF Restart, rows
<1>2. \A q \in Request : item(q)' = item(q) /\ op(q)' = op(q) /\ call[q] = <<op(q), item(q)>>
  BY <1>0, <1>1, CallIs DEF item, op
<1>3. \A q \in Request : /\ pc'[q] \notin WithdrawLabel
                         /\ pc[q] = "idle" <=> pc'[q] = "idle"
                         /\ pc'[q] = "broken" => pc[q] \in Midway \union {"broken"}
                         /\ pc'[q] \in {"idle", "done", "failed", "broken"}
  BY DEF Restart, Running, WithdrawLabel, Midway
<1>4. StageOps' /\ OneInitiates' /\ ConfirmsPending'
  BY <1>0, <1>1, <1>2, <1>3 DEF StageOps, OneInitiates, ConfirmsPending
<1>5. ConfirmsRecorded'
  BY <1>0, <1>1, <1>2, <1>3
  DEF ConfirmsRecorded, StageOps, Midway, ConfirmLabel, InitiateLabel
<1>6. Initiated'
  BY <1>0, <1>1, <1>2, <1>3 DEF Initiated
<1>7. RacedRecorded'
  BY <1>0, <1>1, <1>4, <1>5, RacedIsRecorded
<1>. QED BY <1>4, <1>5, <1>6, <1>7 DEF StageInv

LEMMA NextStageInv == CallInv /\ StageInv /\ [Next]_vars => StageInv'
<1>. SUFFICES ASSUME CallInv, StageInv, [Next]_vars PROVE StageInv'
  OBVIOUS
<1>1. CallInv'
  BY NextCallInv
<1>2. ASSUME NEW r \in Request, VerifyStep(r), NoteRaces PROVE StageInv'
  <2>1. TypeOK /\ VerifiesDeposit
    BY DEF CallInv, AccountInv
  <2>2. op(r) = "verify"
    BY <1>2, <2>1, VerifyMoves DEF VerifiesDeposit
  <2>3. PICK l \in VerifyLabel \union {"done", "failed"} : Goto(r, l)
    BY <1>2, VerifyMoves
  <2>4. l \in Label /\ l \notin WithdrawLabel \union {"broken"}
    BY DEF Label, VerifyLabel, WithdrawLabel
  <2>5. UNCHANGED <<call, withdrawal>>
    BY <1>2, VerifyMoves
  <2>6. \A q \in Request : pc'[q] = IF q = r THEN l ELSE pc[q]
    BY <2>1, <2>3, <2>4, <2>5, Moved
  <2>7. \A q \in Request : \/ pc'[q] = pc[q]
                           \/ op(q) = "verify" /\ pc'[q] \notin WithdrawLabel \union {"broken"}
    BY <2>2, <2>4, <2>6
  <2>. QED BY <1>1, <1>2, <2>5, <2>7, OtherStage
<1>3. ASSUME NEW r \in Request, WithdrawStep(r), NoteRaces PROVE StageInv'
  BY <1>1, <1>3, WithdrawStage
<1>4. CASE UNCHANGED <<call, withdrawal, pc>> /\ NoteRaces
  <2>1. UNCHANGED <<call, withdrawal>> /\ \A q \in Request : pc'[q] = pc[q]
    BY <1>4
  <2>2. \A q \in Request : \/ pc'[q] = pc[q]
                           \/ op(q) = "verify" /\ pc'[q] \notin WithdrawLabel \union {"broken"}
    BY <2>1
  <2>. QED BY <1>1, <1>4, <2>1, <2>2, OtherStage
<1>5. CASE UNCHANGED vars
  BY <1>5 DEF vars, StageInv, StageOps, OneInitiates, Initiated, ConfirmsRecorded,
              RacedRecorded, ConfirmsPending, item, op
<1>6. (\E d \in Deposit : InitiateDeposit(d) \/ Age(d)) \/ CleanupExpiredNonces =>
         UNCHANGED <<call, withdrawal, pc>>
  BY DEF InitiateDeposit, Age, CleanupExpiredNonces, rows
<1>. QED BY <1>1, <1>2, <1>3, <1>4, <1>5, <1>6, RestartStage DEF Next

LEMMA StageInvariant == Spec => [](CallInv /\ StageInv)
BY CallInvariant, InitStageInv, NextStageInv, PTL DEF Spec

-----------------------------------------------------------------------------
(* Debits                                                                  *)

Finished(w) ==
    withdrawal[w] = "completed" \/ \E r \in Request : pc[r] = "complete" /\ item(r) = w

\* A debit belongs to a confirmation that broke off, or to the one that has
\* completed the withdrawal or has this one step left.
Debited(w) == debits[w] <= Cardinality(Broken(w)) + (IF Finished(w) THEN 1 ELSE 0)

DebitInv == \A w \in Withdrawal \ raced : Debited(w)

LEMMA BrokenGrows ==
    ASSUME NEW w \in Withdrawal, UNCHANGED call,
           \A q \in Request : pc[q] = "broken" => pc'[q] = "broken"
    PROVE  /\ Cardinality(Broken(w)) \in Nat /\ Cardinality(Broken(w)') \in Nat
           /\ Cardinality(Broken(w)) <= Cardinality(Broken(w)')
           /\ \A r \in Broken(w)' \ Broken(w) : Cardinality(Broken(w)) + 1 <= Cardinality(Broken(w)')
<1>. DEFINE B == Broken(w)
            C == Broken(w)'
<1>1. B \subseteq C /\ C \subseteq Request /\ IsFiniteSet(Request)
  BY ConstantsAssumption DEF Broken, ConstantsAssumption
<1>. HIDE DEF B, C
<1>2. IsFiniteSet(B) /\ IsFiniteSet(C)
  BY <1>1, FS_Subset
<1>3. Cardinality(B) \in Nat /\ Cardinality(C) \in Nat /\ Cardinality(B) <= Cardinality(C)
  BY <1>1, <1>2, FS_Subset, FS_CardinalityType
<1>4. ASSUME NEW r \in C \ B PROVE Cardinality(B) + 1 <= Cardinality(C)
  <2>1. Cardinality(B \union {r}) = Cardinality(B) + 1
    BY <1>2, <1>4, FS_AddElement
  <2>2. B \union {r} \subseteq C
    BY <1>1, <1>4
  <2>. QED BY <1>2, <2>1, <2>2, FS_Subset
<1>. QED BY <1>3, <1>4 DEF B, C

\* A step that debits nothing and does not take back a completion.
LEMMA StillDebited ==
    ASSUME TypeOK, NEW w \in Withdrawal, UNCHANGED call, Debited(w), debits'[w] = debits[w],
           \A q \in Request : pc[q] = "broken" => pc'[q] = "broken",
           Finished(w) => Finished(w)'
    PROVE  Debited(w)'
<1>1. debits[w] \in Nat
  BY DEF TypeOK
<1>2. /\ Cardinality(Broken(w)) \in Nat /\ Cardinality(Broken(w)') \in Nat
      /\ Cardinality(Broken(w)) <= Cardinality(Broken(w)')
  BY BrokenGrows
<1>. QED BY <1>1, <1>2 DEF Debited

LEMMA WithdrawDebit ==
    ASSUME CallInv, StageInv, DebitInv, NEW r \in Request, WithdrawStep(r), NoteRaces
    PROVE  DebitInv'
<1>. SUFFICES ASSUME NEW w \in Withdrawal \ raced' PROVE Debited(w)'
  BY DEF DebitInv
<1>0. TypeOK /\ OneAtATime /\ StageOps /\ ConfirmsPending
  BY DEF CallInv, AccountInv, StageInv
<1>1. PICK l \in WithdrawLabel \union EndLabel :
              /\ Goto(r, l)
              /\ l = "complete" <=> pc[r] = "debit" /\ l # "broken"
  BY <1>0, WithdrawGoes
<1>2. UNCHANGED call /\ pc[r] \in WithdrawLabel \union {"idle"}
  BY WithdrawMoves
<1>3. l \in Label
  BY DEF WithdrawLabel, EndLabel, Label
<1>4. \A q \in Request : pc'[q] = (IF q = r THEN l ELSE pc[q]) /\ item(q)' = item(q)
  BY <1>0, <1>1, <1>2, <1>3, Moved
<1>5. /\ item(r) \in Withdrawal
      /\ \A x \in Withdrawal : x # item(r) => withdrawal'[x] = withdrawal[x]
      /\ \/ withdrawal'[item(r)] = withdrawal[item(r)]
         \/ pc[r] = "insert" /\ withdrawal'[item(r)] = "pending"
         \/ pc[r] = "complete" /\ withdrawal'[item(r)] = "completed"
  BY <1>0, WithdrawRecords
<1>6. /\ \A x \in Withdrawal : x # item(r) => debits'[x] = debits[x]
      /\ \/ debits'[item(r)] = debits[item(r)]
         \/ pc[r] = "debit" /\ debits'[item(r)] = debits[item(r)] + 1
      /\ pc[r] = "complete" => withdrawal'[item(r)] = "completed" \/ l = "broken"
  <2>1. Goto(r, "broken") => l = "broken"
    BY <1>0, <1>1 DEF TypeOK, Goto
  <2>. QED BY <1>0, <1>5, <2>1, WithdrawDebits
<1>7. \A q \in Request : pc[q] = "broken" => pc'[q] = "broken"
  BY <1>2, <1>4 DEF WithdrawLabel
<1>8. Debited(w) /\ w \notin raced
  BY DEF DebitInv, NoteRaces
<1>9. CASE w # item(r) \/ pc[r] \notin {"debit", "complete"}
  <2>1. debits'[w] = debits[w]
    BY <1>6, <1>9
  <2>2. withdrawal[w] = "completed" => withdrawal'[w] = "completed"
    <3>1. CASE w = item(r) /\ pc[r] = "insert"
      BY <1>0, <3>1, NotRecorded DEF InitiateLabel
    <3>. QED BY <1>5, <1>9, <3>1
  <2>3. Finished(w) => Finished(w)'
    BY <1>4, <1>9, <2>2 DEF Finished
  <2>. QED BY <1>0, <1>2, <1>7, <1>8, <2>1, <2>3, StillDebited
<1>10. CASE w = item(r) /\ pc[r] \in {"debit", "complete"}
  <2>1. /\ Cardinality(Broken(w)) \in Nat /\ Cardinality(Broken(w)') \in Nat
        /\ Cardinality(Broken(w)) <= Cardinality(Broken(w)')
        /\ \A q \in Broken(w)' \ Broken(w) : Cardinality(Broken(w)) + 1 <= Cardinality(Broken(w)')
    BY <1>2, <1>7, BrokenGrows
  <2>2. l = "broken" => r \in Broken(w)' \ Broken(w)
    <3>1. call[r] = <<"confirm", w>>
      BY <1>0, <1>10, CallIs DEF StageOps, ConfirmLabel
    <3>. QED BY <1>2, <1>4, <1>10, <3>1 DEF Broken
  <2>3. l # "broken" => Finished(w)'
    BY <1>1, <1>4, <1>6, <1>10 DEF Finished
  <2>4. pc[r] = "debit" => ~Finished(w)
    <3>1. withdrawal[w] = "pending"
      BY <1>0, <1>8, <1>10 DEF ConfirmsPending, ConfirmLabel
    <3>2. \A q \in Request : pc[q] = "complete" /\ item(q) = w => q = r
      BY <1>0, <1>8, <1>10 DEF OneAtATime, Running
    <3>. QED BY <3>1, <3>2 DEF Finished
  <2>5. debits[w] \in Nat
    BY <1>0 DEF TypeOK
  <2>6. debits'[w] <= Cardinality(Broken(w)) + 1
    BY <1>6, <1>8, <1>10, <2>1, <2>4, <2>5 DEF Debited
  <2>7. debits'[w] \in Nat
    BY <1>6, <1>10, <2>5
  <2>. QED BY <2>1, <2>2, <2>3, <2>6, <2>7 DEF Debited
<1>. QED BY <1>9, <1>10

LEMMA NextDebitInv == CallInv /\ StageInv /\ DebitInv /\ [Next]_vars => DebitInv'
<1>. SUFFICES ASSUME CallInv, StageInv, DebitInv, [Next]_vars,
                     NEW w \in Withdrawal \ raced'
              PROVE  Debited(w)'
  BY DEF DebitInv
<1>0. TypeOK /\ OneAtATime /\ ConfirmsPending /\ StageOps
  BY DEF CallInv, AccountInv, StageInv
<1>1. UNCHANGED call /\ Debited(w) /\ w \notin raced /\ w \in Withdrawal
  BY CallsStay DEF DebitInv
<1>2. \A q \in Request : item(q)' = item(q)
  BY <1>1 DEF item
<1>3. ASSUME NEW r \in Request, VerifyStep(r) PROVE Debited(w)'
  <2>1. PICK l \in VerifyLabel \union {"done", "failed"} : Goto(r, l)
    BY <1>3, VerifyMoves
  <2>2. l \in Label /\ l # "complete"
    BY DEF VerifyLabel, Label
  <2>3. UNCHANGED <<withdrawal, debits>> /\ pc[r] \notin {"complete", "broken"}
    BY <1>3, VerifyMoves DEF VerifyLabel
  <2>4. \A q \in Request : pc'[q] = IF q = r THEN l ELSE pc[q]
    BY <1>0, <1>1, <2>1, <2>2, Moved
  <2>5. Finished(w) => Finished(w)'
    BY <1>2, <2>3, <2>4 DEF Finished
  <2>6. \A q \in Request : pc[q] = "broken" => pc'[q] = "broken"
    BY <2>3, <2>4
  <2>. QED BY <1>0, <1>1, <2>3, <2>5, <2>6, StillDebited
<1>4. ASSUME NEW r \in Request, WithdrawStep(r), NoteRaces PROVE Debited(w)'
  BY <1>4, WithdrawDebit DEF DebitInv
<1>5. CASE UNCHANGED <<withdrawal, debits, pc>>
  <2>1. Finished(w) => Finished(w)'
    BY <1>2, <1>5 DEF Finished
  <2>. QED BY <1>0, <1>1, <1>5, <2>1, StillDebited
<1>6. CASE Restart
  <2>1. UNCHANGED <<withdrawal, debits>>
    BY <1>6 DEF Restart, rows, history
  <2>2. \A q \in Request : /\ pc[q] = "broken" => pc'[q] = "broken"
                           /\ pc[q] = "complete" => pc'[q] = "broken"
    BY <1>6 DEF Restart, Running, Midway
  <2>3. CASE Finished(w) => Finished(w)'
    BY <1>0, <1>1, <2>1, <2>2, <2>3, StillDebited
  <2>4. CASE ~(Finished(w) => Finished(w)')
    <3>1. PICK r \in Request : pc[r] = "complete" /\ item(r) = w
      BY <2>1, <2>4 DEF Finished
    <3>2. call[r] = <<"confirm", w>>
      BY <1>0, <3>1, CallIs DEF StageOps, ConfirmLabel
    <3>3. r \in Broken(w)' \ Broken(w)
      BY <1>1, <2>2, <3>1, <3>2 DEF Broken
    <3>4. /\ Cardinality(Broken(w)) \in Nat /\ Cardinality(Broken(w)') \in Nat
          /\ Cardinality(Broken(w)) + 1 <= Cardinality(Broken(w)')
      BY <1>1, <2>2, <3>3, BrokenGrows
    <3>5. debits[w] \in Nat /\ debits'[w] = debits[w]
      BY <1>0, <1>1, <2>1 DEF TypeOK
    <3>. QED BY <1>1, <3>4, <3>5 DEF Debited
  <2>. QED BY <2>3, <2>4
<1>7. (\E d \in Deposit : InitiateDeposit(d) \/ Age(d)) \/ CleanupExpiredNonces \/ UNCHANGED vars =>
         UNCHANGED <<withdrawal, debits, pc>>
  BY DEF InitiateDeposit, Age, CleanupExpiredNonces, vars, rows, history
<1>. QED BY <1>3, <1>4, <1>5, <1>6, <1>7 DEF Next

\* Whatever fails, answers too late or restarts, a withdrawal that no two
\* confirmations raced for is debited at most once more than confirmations of
\* it broke off. The debit precedes the status that protects it, so the
\* invariant also counts the confirmation that has only the status left.
THEOREM WithdrawalsDebitedOnce == Spec => []DebitedOnce
<1>1. Init => DebitInv
  <2>. SUFFICES ASSUME Init, NEW w \in Withdrawal PROVE Debited(w)
    BY DEF DebitInv
  <2>1. debits[w] = 0
    BY DEF Init
  <2>2. IsFiniteSet(Broken(w))
    BY ConstantsAssumption, FS_Subset DEF ConstantsAssumption, Broken
  <2>3. Cardinality(Broken(w)) \in Nat
    BY <2>2, FS_CardinalityType
  <2>. QED BY <2>1, <2>3 DEF Debited
<1>2. CallInv /\ DebitInv => DebitedOnce
  <2>. SUFFICES ASSUME CallInv, DebitInv, NEW w \in Withdrawal \ raced
                PROVE  debits[w] <= 1 + Cardinality(Broken(w))
    BY DEF DebitedOnce
  <2>1. debits[w] \in Nat /\ Debited(w)
    BY DEF CallInv, AccountInv, TypeOK, DebitInv
  <2>2. IsFiniteSet(Broken(w))
    BY ConstantsAssumption, FS_Subset DEF ConstantsAssumption, Broken
  <2>3. Cardinality(Broken(w)) \in Nat
    BY <2>2, FS_CardinalityType
  <2>. QED BY <2>1, <2>3 DEF Debited
<1>. QED BY <1>1, <1>2, StageInvariant, NextDebitInv, PTL DEF Spec

-----------------------------------------------------------------------------
(* The locked balance                                                      *)

\* Withdrawal w holds a lock; it was disturbed; it may account for a lock.
Holds(w) ==
    /\ withdrawal[w] = "pending" \/ \E r \in Request : item(r) = w /\ pc[r] \in {"insert", "rollback"}
    /\ \A r \in Request : item(r) = w => pc[r] \notin {"debit", "complete"}

Troubled(w) == w \in raced \/ \E r \in Request : item(r) = w /\ pc[r] = "broken"

Claims(w) == Holds(w) \/ Troubled(w)

Claiming(u) == {w \in Withdrawal : Owner[w] = u /\ Claims(w)}

\* The locked balance is bounded by what the claiming withdrawals lock, and
\* is exactly that for a user none of whose withdrawals was disturbed.
LockInv ==
    \A u \in User :
        /\ account[u].locked <= SumOf(Amount, Claiming(u))
        /\ (\A w \in Withdrawal : Owner[w] = u => ~Troubled(w)) =>
              account[u].locked = SumOf(Amount, Claiming(u))

LEMMA ClaimingIs ==
    ASSUME NEW u \in User
    PROVE  /\ Claiming(u) = Holding(u) \union Disturbed(u)
           /\ Disturbed(u) = {} <=> \A w \in Withdrawal : Owner[w] = u => ~Troubled(w)
BY DEF Claiming, Claims, Holding, Holds, Disturbed, Troubled

\* The sum over a set of withdrawals
LEMMA ClaimSums ==
    ASSUME NEW A \in SUBSET Withdrawal
    PROVE  /\ IsFiniteSet(A) /\ \A w \in A : Amount[w] \in Nat
           /\ SumOf(Amount, A) \in Nat
<1>1. IsFiniteSet(A)
  BY ConstantsAssumption, FS_Subset DEF ConstantsAssumption
<1>2. \A w \in A : Amount[w] \in Nat
  BY ConstantsAssumption DEF ConstantsAssumption, Item
<1>. QED BY <1>1, <1>2, SumType

LEMMA LockedTypes ==
    ASSUME TypeOK, NEW u \in User PROVE account[u].locked \in Nat
BY DEF TypeOK, Account

\* Nobody locks more; nothing ceases to claim; what newly claims is disturbed.
LEMMA LocksKept ==
    ASSUME TypeOK, TypeOK', LockInv,
           \A u \in User : account'[u].locked <= account[u].locked,
           \A w \in Withdrawal : Claims(w) => Claims(w)',
           \A w \in Withdrawal : Troubled(w) => Troubled(w)',
           \A u \in User : \/ \E w \in Withdrawal : Owner[w] = u /\ Troubled(w)'
                           \/ /\ account'[u].locked = account[u].locked
                              /\ \A w \in Withdrawal : Owner[w] = u /\ Claims(w)' => Claims(w)
    PROVE  LockInv'
<1>. SUFFICES ASSUME NEW u \in User
              PROVE  /\ account'[u].locked <= SumOf(Amount, Claiming(u)')
                     /\ (\A w \in Withdrawal : Owner[w] = u => ~Troubled(w)') =>
                           account'[u].locked = SumOf(Amount, Claiming(u)')
  BY DEF LockInv
<1>. DEFINE A == Claiming(u)
            B == Claiming(u)'
<1>1. A \subseteq B /\ B \subseteq Withdrawal
  BY DEF Claiming
<1>2. account[u].locked \in Nat /\ account'[u].locked \in Nat
  BY DEF TypeOK, Account
<1>3. account[u].locked <= SumOf(Amount, A)
  BY DEF LockInv
<1>4. (\A w \in Withdrawal : Owner[w] = u => ~Troubled(w)') =>
         A = B /\ account'[u].locked = account[u].locked /\ account[u].locked = SumOf(Amount, A)
  <2>. SUFFICES ASSUME \A w \in Withdrawal : Owner[w] = u => ~Troubled(w)'
                PROVE  A = B /\ account'[u].locked = account[u].locked
                         /\ account[u].locked = SumOf(Amount, A)
    OBVIOUS
  <2>1. \A w \in Withdrawal : Owner[w] = u => ~Troubled(w)
    OBVIOUS
  <2>2. B \subseteq A
    BY DEF Claiming
  <2>. QED BY <1>1, <2>1, <2>2 DEF LockInv
<1>. HIDE DEF A, B
<1>5. SumOf(Amount, A) <= SumOf(Amount, B)
  BY <1>1, ClaimSums, SumSubset
<1>6. SumOf(Amount, A) \in Nat /\ SumOf(Amount, B) \in Nat
  BY <1>1, ClaimSums
<1>7. account'[u].locked <= SumOf(Amount, B)
  BY <1>2, <1>3, <1>5, <1>6
<1>. QED BY <1>4, <1>7 DEF B

\* Withdrawal w starts to claim what it locks.
LEMMA LockTaken ==
    ASSUME TypeOK, LockInv, NEW w \in Withdrawal, ~Claims(w), Claims(w)',
           \A x \in Withdrawal : x # w => (Claims(x)' <=> Claims(x)) /\ (Troubled(x) => Troubled(x)'),
           \A u \in User : account'[u].locked =
               IF u = Owner[w] THEN account[u].locked + Amount[w] ELSE account[u].locked
    PROVE  LockInv'
<1>. SUFFICES ASSUME NEW u \in User
              PROVE  /\ account'[u].locked <= SumOf(Amount, Claiming(u)')
                     /\ (\A x \in Withdrawal : Owner[x] = u => ~Troubled(x)') =>
                           account'[u].locked = SumOf(Amount, Claiming(u)')
  BY DEF LockInv
<1>. DEFINE A == Claiming(u)
            B == Claiming(u)'
<1>1. A \subseteq Withdrawal /\ account[u].locked \in Nat
  BY LockedTypes DEF Claiming
<1>2. account[u].locked <= SumOf(Amount, A)
  BY DEF LockInv
<1>3. (\A x \in Withdrawal : Owner[x] = u => ~Troubled(x)') =>
         account[u].locked = SumOf(Amount, A)
  BY DEF LockInv, Claims
<1>4. CASE u = Owner[w]
  <2>1. B = A \union {w} /\ w \notin A
    BY <1>4 DEF Claiming
  <2>. HIDE DEF A, B
  <2>2. IsFiniteSet(A) /\ \A x \in A \union {w} : Amount[x] \in Nat
    BY <1>1, ClaimSums
  <2>3. SumOf(Amount, B) = SumOf(Amount, A) + Amount[w]
    BY <2>1, <2>2, SumAdd
  <2>4. SumOf(Amount, A) \in Nat /\ Amount[w] \in Nat
    BY <1>1, <2>2, ClaimSums
  <2>5. account'[u].locked <= SumOf(Amount, B)
    BY <1>1, <1>2, <1>4, <2>3, <2>4
  <2>6. account[u].locked = SumOf(Amount, A) => account'[u].locked = SumOf(Amount, B)
    BY <1>1, <1>4, <2>3, <2>4
  <2>. QED BY <1>3, <2>5, <2>6 DEF B
<1>5. CASE u # Owner[w]
  <2>1. B = A
    BY <1>5 DEF Claiming
  <2>. QED BY <1>2, <1>3, <1>5, <2>1
<1>. QED BY <1>4, <1>5

\* Withdrawal w, which was not disturbed, gives up what it has locked.
LEMMA LockReleased ==
    ASSUME TypeOK, LockInv, NEW w \in Withdrawal, Claims(w), ~Troubled(w), ~Claims(w)',
           \A x \in Withdrawal : x # w => (Claims(x)' <=> Claims(x)) /\ (Troubled(x) => Troubled(x)'),
           \A u \in User : account'[u].locked =
               IF u # Owner[w] THEN account[u].locked
               ELSE IF account[u].locked < Amount[w] THEN 0
               ELSE account[u].locked - Amount[w]
    PROVE  LockInv'
<1>. SUFFICES ASSUME NEW u \in User
              PROVE  /\ account'[u].locked <= SumOf(Amount, Claiming(u)')
                     /\ (\A x \in Withdrawal : Owner[x] = u => ~Troubled(x)') =>
                           account'[u].locked = SumOf(Amount, Claiming(u)')
  BY DEF LockInv
<1>. DEFINE A == Claiming(u)
            B == Claiming(u)'
<1>1. A \subseteq Withdrawal /\ account[u].locked \in Nat
  BY LockedTypes DEF Claiming
<1>2. account[u].locked <= SumOf(Amount, A)
  BY DEF LockInv
<1>3. (\A x \in Withdrawal : Owner[x] = u => ~Troubled(x)') =>
         account[u].locked = SumOf(Amount, A)
  BY DEF LockInv
<1>4. CASE u = Owner[w]
  <2>1. B = A \ {w} /\ w \in A
    BY <1>4 DEF Claiming
  <2>. HIDE DEF A, B
  <2>2. IsFiniteSet(A) /\ \A x \in A : Amount[x] \in Nat
    BY <1>1, ClaimSums
  <2>3. /\ SumOf(Amount, A) = Amount[w] + SumOf(Amount, A \ {w})
        /\ SumOf(Amount, A \ {w}) \in Nat
    BY <2>1, <2>2, SumRemove
  <2>4. /\ SumOf(Amount, A) = Amount[w] + SumOf(Amount, B)
        /\ SumOf(Amount, B) \in Nat /\ Amount[w] \in Nat
    BY <2>1, <2>2, <2>3
  <2>5. account'[u].locked <= SumOf(Amount, B)
    BY <1>1, <1>2, <1>4, <2>4
  <2>6. account[u].locked = SumOf(Amount, A) => account'[u].locked = SumOf(Amount, B)
    BY <1>1, <1>4, <2>4
  <2>. QED BY <1>3, <2>5, <2>6 DEF B
<1>5. CASE u # Owner[w]
  <2>1. B = A
    BY <1>5 DEF Claiming
  <2>. QED BY <1>2, <1>3, <1>5, <2>1
<1>. QED BY <1>4, <1>5

\* A step of one request leaves the claims of other withdrawals as they are.
LEMMA OthersClaim ==
    ASSUME CallInv, NEW r \in Request, NEW l \in Label, Goto(r, l), UNCHANGED call, NoteRaces,
           \A x \in Withdrawal : x # item(r) => withdrawal'[x] = withdrawal[x]
    PROVE  \A x \in Withdrawal : x # item(r) => (Claims(x)' <=> Claims(x)) /\ (Troubled(x)' <=> Troubled(x))
<1>0. TypeOK /\ OneAtATime
  BY DEF CallInv, AccountInv
<1>1. \A q \in Request : pc'[q] = (IF q = r THEN l ELSE pc[q]) /\ item(q)' = item(q)
  BY <1>0, Moved
<1>. SUFFICES ASSUME NEW x \in Withdrawal, x # item(r)
              PROVE  (Holds(x)' <=> Holds(x)) /\ (Troubled(x)' <=> Troubled(x))
  BY DEF Claims
<1>2. Holds(x)' <=> Holds(x)
  BY <1>1 DEF Holds
<1>3. x \in raced' <=> x \in raced
  BY <1>0, <1>1 DEF NoteRaces, Contested, OneAtATime, Running
<1>. QED BY <1>1, <1>2, <1>3 DEF Troubled

LEMMA StillTroubled ==
    ASSUME UNCHANGED call, raced \subseteq raced',
           \A q \in Request : pc[q] = "broken" => pc'[q] = "broken"
    PROVE  \A x \in Withdrawal : Troubled(x) => Troubled(x)'
BY DEF Troubled, item

\* A step on withdrawal w that locks nothing: it disturbs w, or locks and
\* holders stay.
LEMMA StepKept ==
    ASSUME CallInv, CallInv', LockInv, NEW r \in Request, NEW l \in Label, Goto(r, l),
           UNCHANGED call, NoteRaces, pc[r] # "broken",
           NEW w \in Withdrawal, w = item(r),
           \A x \in Withdrawal : x # w => withdrawal'[x] = withdrawal[x],
           \A u \in User : /\ account'[u].locked <= account[u].locked
                           /\ u # Owner[w] => account'[u].locked = account[u].locked,
           \/ Troubled(w)'
           \/ account'[Owner[w]].locked = account[Owner[w]].locked /\ (Holds(w)' <=> Holds(w))
    PROVE  LockInv'
<1>0. TypeOK /\ TypeOK'
  BY DEF CallInv, AccountInv
<1>1. \A x \in Withdrawal : x # w => (Claims(x)' <=> Claims(x)) /\ (Troubled(x)' <=> Troubled(x))
  BY OthersClaim
<1>2. raced \subseteq raced' /\ \A q \in Request : pc[q] = "broken" => pc'[q] = "broken"
  BY <1>0 DEF NoteRaces, Goto, TypeOK
<1>3. \A x \in Withdrawal : Troubled(x) => Troubled(x)'
  BY <1>2, StillTroubled
<1>4. Troubled(w)' \/ (Claims(w)' <=> Claims(w))
  BY <1>3 DEF Claims
<1>5. \A x \in Withdrawal : Claims(x) => Claims(x)'
  BY <1>1, <1>4 DEF Claims
<1>6. ASSUME NEW u \in User
      PROVE  \/ \E x \in Withdrawal : Owner[x] = u /\ Troubled(x)'
             \/ /\ account'[u].locked = account[u].locked
                /\ \A x \in Withdrawal : Owner[x] = u /\ Claims(x)' => Claims(x)
  <2>1. CASE u = Owner[w] /\ Troubled(w)'
    BY <2>1
  <2>2. CASE u = Owner[w] /\ ~Troubled(w)'
    BY <1>1, <1>4, <2>2
  <2>3. CASE u # Owner[w]
    BY <1>1, <2>3
  <2>. QED BY <2>1, <2>2, <2>3
<1>. QED BY <1>0, <1>3, <1>5, <1>6, LocksKept

\* The effect of the balance functions on what is locked
LEMMA LockedAfter ==
    ASSUME TypeOK, NEW r \in Request
    PROVE  /\ lock_user_balance(r) => \A u \in User : account'[u].locked =
                IF u = user(r) THEN account[u].locked + amount(r) ELSE account[u].locked
           /\ unlock_user_balance(r) => \A u \in User : account'[u].locked =
                IF u # user(r) THEN account[u].locked
                ELSE IF account[u].locked < amount(r) THEN 0
                ELSE account[u].locked - amount(r)
           /\ debit_user_balance(r) => \A u \in User : account'[u].locked = account[u].locked
<1>1. \A u \in User : account[u] \in Account
  BY DEF TypeOK
<1>2. lock_user_balance(r) => \A u \in User : account'[u].locked =
                IF u = user(r) THEN account[u].locked + amount(r) ELSE account[u].locked
  BY <1>1 DEF lock_user_balance, TypeOK, Account
<1>3. unlock_user_balance(r) => \A u \in User : account'[u].locked =
                IF u # user(r) THEN account[u].locked
                ELSE IF account[u].locked < amount(r) THEN 0
                ELSE account[u].locked - amount(r)
  BY <1>1 DEF unlock_user_balance, TypeOK, Account
<1>4. debit_user_balance(r) => \A u \in User : account'[u].locked = account[u].locked
  BY <1>1 DEF debit_user_balance, TypeOK, Account
<1>. QED BY <1>2, <1>3, <1>4

LEMMA UnlockLowers ==
    ASSUME TypeOK, NEW r \in Request, unlock_user_balance(r)
    PROVE  \A u \in User : /\ account'[u].locked <= account[u].locked
                           /\ u # user(r) => account'[u].locked = account[u].locked
<1>1. amount(r) \in Nat
  BY CallTypes
<1>2. \A u \in User : account[u].locked \in Nat
  BY LockedTypes
<1>. QED BY <1>1, <1>2, LockedAfter

LEMMA InitiateLocks ==
    ASSUME CallInv, CallInv', StageInv, LockInv, NEW r \in Request, NoteRaces,
           LockBalance(r) \/ InsertWithdrawal(r) \/ RollbackLock(r)
    PROVE  LockInv'
<1>0. TypeOK /\ StageOps /\ WithdrawStep(r)
  BY DEF CallInv, AccountInv, StageInv, WithdrawStep
<1>w. PICK w \in Withdrawal : w = item(r)
  BY <1>0, WithdrawRecords
<1>1. PICK l \in WithdrawLabel \union EndLabel : Goto(r, l)
  BY <1>0, WithdrawMoves
<1>2. UNCHANGED call /\ l \in Label
  BY <1>0, WithdrawMoves DEF WithdrawLabel, EndLabel, Label
<1>3. \A q \in Request : pc'[q] = (IF q = r THEN l ELSE pc[q]) /\ item(q)' = item(q)
  BY <1>0, <1>1, <1>2, Moved
<1>4. \A x \in Withdrawal : x # w => withdrawal'[x] = withdrawal[x]
  BY <1>0, <1>w, WithdrawRecords
<1>5. \A x \in Withdrawal : x # w => (Claims(x)' <=> Claims(x)) /\ (Troubled(x)' <=> Troubled(x))
  BY <1>1, <1>2, <1>4, <1>w, OthersClaim
<1>6. pc[r] \in InitiateLabel
  BY DEF LockBalance, InsertWithdrawal, RollbackLock, InitiateLabel
<1>7. user(r) = Owner[w] /\ amount(r) = Amount[w]
  BY <1>w DEF user, amount
<1>8. \A u \in User : account[u].locked \in Nat
  BY <1>0, LockedTypes
\* steps that lock nothing
<1>9. ASSUME \A u \in User : /\ account'[u].locked <= account[u].locked
                             /\ u # Owner[w] => account'[u].locked = account[u].locked,
             \/ Troubled(w)'
             \/ account'[Owner[w]].locked = account[Owner[w]].locked /\ (Holds(w)' <=> Holds(w))
      PROVE  LockInv'
  BY <1>1, <1>2, <1>4, <1>6, <1>9, <1>w, StepKept DEF InitiateLabel
<1>10. CASE LockBalance(r)
  <2>1. pc[r] = "lock" /\ UNCHANGED withdrawal
    BY <1>10 DEF LockBalance
  <2>2. /\ withdrawal[w] = "none" /\ w \notin raced
        /\ \A q \in Request : q # r /\ item(q) = w => pc[q] \notin WithdrawLabel \union {"broken"}
    BY <1>0, <1>6, <2>1, <1>w, NotRecorded
  <2>3. CASE lock_user_balance(r) /\ l \in {"insert", "broken"}
    <3>1. ~Claims(w)
      BY <2>1, <2>2, <1>w DEF Claims, Holds, Troubled, WithdrawLabel
    <3>2. Claims(w)'
      BY <1>3, <2>2, <2>3, <1>w DEF Claims, Holds, Troubled, WithdrawLabel
    <3>3. \A u \in User : account'[u].locked =
               IF u = Owner[w] THEN account[u].locked + Amount[w] ELSE account[u].locked
      BY <1>0, <1>7, <2>3, LockedAfter
    <3>. QED BY <1>0, <1>4, <1>5, <3>1, <3>2, <3>3, LockTaken
  <2>4. CASE UNCHANGED account /\ l = "failed"
    <3>1. Holds(w)' <=> Holds(w)
      BY <1>3, <1>w, <2>1, <2>4 DEF Holds
    <3>. QED BY <1>8, <1>9, <2>4, <3>1
  <2>. QED BY <1>0, <1>1, <1>10, <2>3, <2>4 DEF LockBalance, Goto, TypeOK
<1>11. CASE InsertWithdrawal(r)
  <2>1. pc[r] = "insert" /\ UNCHANGED account
    BY <1>11 DEF InsertWithdrawal
  <2>2. \A q \in Request : q # r /\ item(q) = w => pc[q] \notin WithdrawLabel \union {"broken"}
    BY <1>0, <1>6, <2>1, <1>w, NotRecorded
  <2>3. l = "rollback" \/ withdrawal'[w] = "pending"
    BY <1>0, <1>1, <1>4, <1>11, <1>w DEF InsertWithdrawal, Goto, TypeOK
  <2>4. l \notin {"debit", "complete"}
    BY <1>0, <1>1, <1>11 DEF InsertWithdrawal, Goto, TypeOK
  <2>5. Holds(w)
    BY <2>1, <2>2, <1>w DEF Holds, WithdrawLabel
  <2>6. Holds(w)'
    BY <1>3, <2>2, <2>3, <2>4, <1>w DEF Holds, WithdrawLabel
  <2>. QED BY <1>8, <1>9, <2>1, <2>5, <2>6
<1>12. CASE RollbackLock(r)
  <2>1. pc[r] = "rollback" /\ UNCHANGED withdrawal
    BY <1>12 DEF RollbackLock
  <2>2. CASE l = "broken"
    <3>1. unlock_user_balance(r) \/ UNCHANGED account
      BY <1>12 DEF RollbackLock
    <3>2. Troubled(w)'
      BY <1>3, <2>2, <1>w DEF Troubled
    <3>. QED BY <1>0, <1>7, <1>8, <1>9, <3>1, <3>2, UnlockLowers
  <2>3. CASE l # "broken"
    <3>1. unlock_user_balance(r) /\ withdrawal[w] = "none" /\ l = "failed"
      BY <1>0, <1>1, <1>12, <2>3, <1>w DEF RollbackLock, Goto, TypeOK
    <3>2. /\ w \notin raced
          /\ \A q \in Request : q # r /\ item(q) = w => pc[q] \notin WithdrawLabel \union {"broken"}
      BY <1>0, <1>6, <3>1, <1>w, NotRecorded
    <3>3. Claims(w) /\ ~Troubled(w)
      BY <2>1, <3>1, <3>2, <1>w DEF Claims, Holds, Troubled, WithdrawLabel
    <3>4. w \notin raced'
      <4>1. \A q \in Request : item(q) = w => ~(q # r /\ Running(q)')
        <5>1. \A q \in Request : q # r /\ item(q) = w => pc[q] \notin VerifyLabel
          BY <1>0, <1>w, CallIs DEF CallInv, VerifiesDeposit
        <5>. QED BY <1>0, <1>3, <3>2, <5>1
             DEF Running, TypeOK, Label, VerifyLabel, WithdrawLabel
      <4>. QED BY <1>3, <3>2, <4>1 DEF NoteRaces, Contested
    <3>5. ~Claims(w)'
      BY <1>3, <2>1, <3>1, <3>2, <3>4 DEF Claims, Holds, Troubled, WithdrawLabel
    <3>6. \A u \in User : account'[u].locked =
               IF u # Owner[w] THEN account[u].locked
               ELSE IF account[u].locked < Amount[w] THEN 0
               ELSE account[u].locked - Amount[w]
      BY <1>0, <1>7, <3>1, LockedAfter
    <3>. QED BY <1>0, <1>4, <1>5, <3>3, <3>5, <3>6, LockReleased
  <2>. QED BY <2>2, <2>3
<1>. QED BY <1>10, <1>11, <1>12

LEMMA ConfirmLocks ==
    ASSUME CallInv, CallInv', StageInv, LockInv, NEW r \in Request, NoteRaces,
           \/ CheckBalance(r) \/ ConfirmWithdrawal(r) \/ UnlockBalance(r)
           \/ DebitBalance(r) \/ CompleteWithdrawal(r)
    PROVE  LockInv'
<1>0. TypeOK /\ OneAtATime /\ StageOps /\ ConfirmsPending /\ WithdrawStep(r)
  BY DEF CallInv, AccountInv, StageInv, WithdrawStep
<1>w. PICK w \in Withdrawal : w = item(r)
  BY <1>0, WithdrawRecords
<1>1. PICK l \in WithdrawLabel \union EndLabel : Goto(r, l)
  BY <1>0, WithdrawMoves
<1>2. UNCHANGED call /\ l \in Label
  BY <1>0, WithdrawMoves DEF WithdrawLabel, EndLabel, Label
<1>3. \A q \in Request : pc'[q] = (IF q = r THEN l ELSE pc[q]) /\ item(q)' = item(q)
  BY <1>0, <1>1, <1>2, Moved
<1>4. \A x \in Withdrawal : x # w => withdrawal'[x] = withdrawal[x]
  BY <1>0, <1>w, WithdrawRecords
<1>5. pc[r] # "broken" /\ raced \subseteq raced'
  BY <1>0, WithdrawMoves DEF WithdrawLabel, NoteRaces
<1>6. user(r) = Owner[w] /\ amount(r) = Amount[w]
  BY <1>w DEF user, amount
<1>7. \A u \in User : account[u].locked \in Nat
  BY <1>0, LockedTypes
<1>8. ASSUME \A u \in User : /\ account'[u].locked <= account[u].locked
                             /\ u # Owner[w] => account'[u].locked = account[u].locked,
             \/ Troubled(w)'
             \/ account'[Owner[w]].locked = account[Owner[w]].locked /\ (Holds(w)' <=> Holds(w))
      PROVE  LockInv'
  BY <1>1, <1>2, <1>4, <1>5, <1>8, <1>w, StepKept
<1>9. l = "broken" => Troubled(w)'
  BY <1>3, <1>w DEF Troubled
<1>10. ASSUME ~Troubled(w)', Running(r)
       PROVE  w \notin raced /\ \A q \in Request : q # r /\ item(q) = w => ~Running(q)
  BY <1>0, <1>5, <1>10, <1>w DEF Troubled, OneAtATime
\* the calls that start, and an unlock that fails
<1>11. CASE /\ pc[r] \in {"idle", "unlock"} /\ UNCHANGED <<withdrawal, account>>
            /\ l \in {"lock", "unlock", "done", "failed"}
  <2>1. Holds(w)' <=> Holds(w)
    BY <1>3, <1>11, <1>w DEF Holds
  <2>. QED BY <1>7, <1>8, <1>11, <2>1
<1>12. CASE CheckBalance(r) \/ ConfirmWithdrawal(r)
  <2>1. UNCHANGED <<withdrawal, account>> /\ pc[r] = "idle"
    BY <1>12 DEF CheckBalance, ConfirmWithdrawal, rows
  <2>2. l \in {"lock", "unlock", "done", "failed"}
    BY <1>0, <1>1, <1>12 DEF CheckBalance, ConfirmWithdrawal, Goto, TypeOK
  <2>. QED BY <1>11, <2>1, <2>2
<1>13. CASE UnlockBalance(r)
  <2>1. pc[r] = "unlock" /\ UNCHANGED withdrawal
    BY <1>13 DEF UnlockBalance
  <2>2. CASE unlock_user_balance(r) /\ l \in {"debit", "broken"}
    <3>1. CASE Troubled(w)'
      BY <1>0, <1>6, <1>8, <2>2, <3>1, UnlockLowers
    <3>2. CASE ~Troubled(w)'
      <4>1. w \notin raced /\ \A q \in Request : q # r /\ item(q) = w => ~Running(q)
        BY <1>10, <2>1, <3>2 DEF Running
      <4>2. withdrawal[w] = "pending"
        BY <1>0, <1>w, <2>1, <4>1 DEF ConfirmsPending, ConfirmLabel
      <4>3. Claims(w)
        BY <1>w, <2>1, <4>1, <4>2 DEF Claims, Holds, Running
      <4>4. ~Troubled(w) /\ ~Claims(w)'
        <5>1. \A q \in Request : pc[q] = "broken" => pc'[q] = "broken"
          BY <1>3, <1>5
        <5>2. ~Troubled(w)
          BY <1>2, <1>5, <3>2, <5>1, StillTroubled
        <5>3. l = "debit"
          BY <1>9, <2>2, <3>2
        <5>. QED BY <1>3, <1>w, <3>2, <5>2, <5>3 DEF Claims, Holds
      <4>5. \A x \in Withdrawal : x # w => (Claims(x)' <=> Claims(x)) /\ (Troubled(x)' <=> Troubled(x))
        BY <1>1, <1>2, <1>4, <1>w, OthersClaim
      <4>6. \A u \in User : account'[u].locked =
                 IF u # Owner[w] THEN account[u].locked
                 ELSE IF account[u].locked < Amount[w] THEN 0
                 ELSE account[u].locked - Amount[w]
        BY <1>0, <1>6, <2>2, LockedAfter
      <4>. QED BY <1>0, <4>3, <4>4, <4>5, <4>6, LockReleased
    <3>. QED BY <3>1, <3>2
  <2>3. CASE UNCHANGED account /\ l = "failed"
    BY <1>11, <2>1, <2>3
  <2>. QED BY <1>0, <1>1, <1>13, <2>2, <2>3 DEF UnlockBalance, Goto, TypeOK
\* the debit and the completion: w has given its lock up before
<1>14. CASE DebitBalance(r) \/ CompleteWithdrawal(r)
  <2>1. pc[r] \in {"debit", "complete"} /\ (UNCHANGED account \/ debit_user_balance(r))
    BY <1>14 DEF DebitBalance, CompleteWithdrawal, debit_user_balance
  <2>2. \A u \in User : account'[u].locked = account[u].locked
    BY <1>0, <2>1, LockedAfter
  <2>3. ~Holds(w)
    BY <1>w, <2>1 DEF Holds
  <2>4. ASSUME ~Troubled(w)' PROVE ~Holds(w)'
    <3>1. l # "broken" /\ \A q \in Request : q # r /\ item(q) = w => ~Running(q)
      BY <1>9, <1>10, <2>1, <2>4 DEF Running
    <3>2. l = "complete" \/ (withdrawal'[w] = "completed" /\ l \in {"done", "failed"})
      BY <1>0, <1>1, <1>14, <1>w, <3>1 DEF DebitBalance, CompleteWithdrawal, Goto, TypeOK
    <3>. QED BY <1>3, <1>w, <3>1, <3>2 DEF Holds, Running
  <2>5. \A u \in User : /\ account'[u].locked <= account[u].locked
                        /\ u # Owner[w] => account'[u].locked = account[u].locked
    BY <1>7, <2>2
  <2>6. \/ Troubled(w)'
        \/ account'[Owner[w]].locked = account[Owner[w]].locked /\ (Holds(w)' <=> Holds(w))
    <3>1. Owner[w] \in User
      BY ConstantsAssumption DEF Item
    <3>2. account'[Owner[w]].locked = account[Owner[w]].locked
      BY <2>2, <3>1
    <3>. QED BY <2>3, <2>4, <3>2
  <2>. QED BY <1>8, <2>5, <2>6
<1>. QED BY <1>12, <1>13, <1>14

LEMMA NextLockInv == CallInv /\ StageInv /\ LockInv /\ [Next]_vars => LockInv'
<1>. SUFFICES ASSUME CallInv, StageInv, LockInv, [Next]_vars PROVE LockInv'
  OBVIOUS
<1>0. TypeOK /\ VerifiesDeposit
  BY DEF CallInv, AccountInv
<1>1. CallInv' /\ TypeOK'
  BY NextCallInv DEF CallInv, AccountInv
<1>2. UNCHANGED call /\ raced \subseteq raced'
  BY CallsStay
<1>3. \A q \in Request : item(q)' = item(q)
  BY <1>2 DEF item
<1>4. \A u \in User : account[u].locked \in Nat
  BY <1>0, LockedTypes
\* no step of a withdrawal: a restart may disturb withdrawals, and nothing
\* else changes the claims
<1>5. ASSUME \A u \in User : account'[u].locked = account[u].locked,
             \A q \in Request : pc[q] = "broken" => pc'[q] = "broken",
             \A w \in Withdrawal : ~Troubled(w)' => (Holds(w)' <=> Holds(w))
      PROVE  LockInv'
  <2>1. \A w \in Withdrawal : Troubled(w) => Troubled(w)'
    BY <1>2, <1>5, StillTroubled
  <2>2. \A w \in Withdrawal : Claims(w) => Claims(w)'
    BY <1>5, <2>1 DEF Claims
  <2>3. \A u \in User : account'[u].locked <= account[u].locked
    BY <1>4, <1>5
  <2>4. ASSUME NEW u \in User
        PROVE  \/ \E w \in Withdrawal : Owner[w] = u /\ Troubled(w)'
               \/ /\ account'[u].locked = account[u].locked
                  /\ \A w \in Withdrawal : Owner[w] = u /\ Claims(w)' => Claims(w)
    BY <1>5 DEF Claims
  <2>. QED BY <1>0, <1>1, <2>1, <2>2, <2>3, <2>4, LocksKept
<1>6. ASSUME NEW r \in Request, VerifyStep(r) PROVE LockInv'
  <2>1. PICK l \in VerifyLabel \union {"done", "failed"} : Goto(r, l)
    BY <1>6, VerifyMoves
  <2>2. l \in Label /\ l \notin WithdrawLabel
    BY DEF VerifyLabel, WithdrawLabel, Label
  <2>3. pc[r] \notin WithdrawLabel \union {"broken"} /\ UNCHANGED withdrawal
    BY <1>6, VerifyMoves DEF VerifyLabel, WithdrawLabel
  <2>4. \A q \in Request : pc'[q] = IF q = r THEN l ELSE pc[q]
    BY <1>0, <1>2, <2>1, <2>2, Moved
  <2>5. \A w \in Withdrawal : Holds(w)' <=> Holds(w)
    BY <1>3, <2>2, <2>3, <2>4 DEF Holds, WithdrawLabel
  <2>6. \A q \in Request : pc[q] = "broken" => pc'[q] = "broken"
    BY <2>3, <2>4
  <2>7. \A u \in User : account'[u].locked = account[u].locked
    <3>1. UNCHANGED account \/
            \E b : account' = [account EXCEPT ![user(r)] = OpenRow(user(r), b)]
      BY <1>6, VerifyMoves
    <3>. QED BY <1>0, <3>1 DEF OpenRow, TypeOK
  <2>. QED BY <1>5, <2>5, <2>6, <2>7
<1>7. CASE UNCHANGED <<withdrawal, account, pc>>
  <2>1. \A w \in Withdrawal : Holds(w)' <=> Holds(w)
    BY <1>3, <1>7 DEF Holds
  <2>. QED BY <1>5, <1>7, <2>1
<1>8. CASE Restart
  <2>1. UNCHANGED <<withdrawal, account>>
    BY <1>8 DEF Restart, rows
  <2>2. \A q \in Request : /\ pc[q] \in Midway \union {"broken"} => pc'[q] = "broken"
                           /\ pc'[q] \notin Midway
    BY <1>8 DEF Restart, Running, Midway
  <2>3. ASSUME NEW w \in Withdrawal, ~Troubled(w)' PROVE Holds(w)' <=> Holds(w)
    <3>1. \A q \in Request : item(q) = w => pc[q] \notin Midway /\ pc'[q] \notin Midway
      BY <1>3, <2>2, <2>3 DEF Troubled
    <3>. QED BY <1>3, <2>1, <3>1 DEF Holds, Midway
  <2>. QED BY <1>5, <2>1, <2>2, <2>3
<1>9. ASSUME NEW r \in Request, WithdrawStep(r), NoteRaces PROVE LockInv'
  BY <1>1, <1>9, InitiateLocks, ConfirmLocks DEF WithdrawStep
<1>10. (\E d \in Deposit : InitiateDeposit(d) \/ Age(d)) \/ CleanupExpiredNonces \/ UNCHANGED vars =>
          UNCHANGED <<withdrawal, account, pc>>
  BY DEF InitiateDeposit, Age, CleanupExpiredNonces, vars, rows
<1>. QED BY <1>6, <1>7, <1>8, <1>9, <1>10 DEF Next

\* Under every fault and every overlap of calls no more is locked for a user
\* than the pending and the disturbed withdrawals account for; and the locked
\* balance of a user none of whose withdrawals was disturbed is exactly what
\* the pending ones hold, whatever happens to other users. Each confirmation
\* releases its own lock: GREATEST(0, ...) hides nothing there.
THEOREM LocksMatch == Spec => []LocksMatchWithdrawals
<1>1. Init => LockInv
  <2>. SUFFICES ASSUME Init, NEW u \in User
                PROVE  account[u].locked = 0 /\ SumOf(Amount, Claiming(u)) = 0
    BY DEF LockInv
  <2>1. \A w \in Withdrawal : ~Claims(w)
    BY DEF Init, Claims, Holds, Troubled
  <2>2. Claiming(u) = {}
    BY <2>1 DEF Claiming
  <2>. QED BY <2>2, SumEmpty DEF Init
<1>2. LockInv => LocksMatchWithdrawals
  <2>. SUFFICES ASSUME LockInv, NEW u \in User
                PROVE  /\ account[u].locked <= SumOf(Amount, Holding(u) \union Disturbed(u))
                       /\ Disturbed(u) = {} =>
                            account[u].locked = SumOf(Amount, Holding(u) \union Disturbed(u))
    BY DEF LocksMatchWithdrawals, SumOf
  <2>. QED BY ClaimingIs DEF LockInv
<1>. QED BY <1>1, <1>2, StageInvariant, NextLockInv, PTL DEF Spec
=============================================================================
