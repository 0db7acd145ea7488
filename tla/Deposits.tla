------------------------------ MODULE Deposits ------------------------------
(***************************************************************************)
(* DepositService: initiateDeposit, verifyDeposit, initiateWithdrawal and  *)
(* confirmWithdrawal, over the tables deposit_transactions,                *)
(* withdrawal_transactions and user_balances. The balance functions of     *)
(* 002_deposits.sql are atomic (SELECT FOR UPDATE and UPDATE in one        *)
(* transaction); between two of them a handler awaits, and requests        *)
(* interleave. Amounts are whole units of USDC.                            *)
(*                                                                         *)
(* Faults: "db" a Supabase call fails without effect; "lost" it takes      *)
(* effect and its answer is lost; "restart" the server loses               *)
(* pendingDeposits and its running requests.                               *)
(***************************************************************************)
EXTENDS Integers, FiniteSetsExt

CONSTANTS
    User, Deposit, Withdrawal, Request,
    Owner,      \* Owner[x]: the user of deposit or withdrawal x
    Amount,     \* Amount[x]: its amount
    NoBalance,
    Faults

Item == Deposit \union Withdrawal

Call == ({"verify"} \X Deposit) \union ({"withdraw", "confirm"} \X Withdrawal)

ASSUME ConstantsAssumption ==
    /\ Deposit \intersect Withdrawal = {}
    /\ Owner \in [Item -> User]
    /\ Amount \in [Item -> Nat \ {0}]
    /\ NoBalance \notin Nat
    /\ IsFiniteSet(Withdrawal) /\ IsFiniteSet(Request)
    /\ Faults \subseteq {"db", "lost", "restart"}

VARIABLES
    pendingDeposits,    \* nonces in the memory of the server
    aged,               \* deposits whose expiresAt has passed
    deposit,            \* deposit[d]: status in deposit_transactions, or "none"
    withdrawal,         \* withdrawal[w]: status in withdrawal_transactions
    account,            \* account[u]: the row of user_balances
    call, pc,           \* call[r]: operation and item; where r stands
    balanceRead,        \* balanceRead[r]: balance read by the credit fallback
    credits, debits,    \* history: times a deposit was credited, a
                        \* withdrawal debited
    raced               \* history: items on which two calls ran at once

rows == <<deposit, withdrawal, account>>
history == <<credits, debits>>
vars == <<pendingDeposits, aged, deposit, withdrawal, account, call, pc,
          balanceRead, credits, debits, raced>>

\* A call ends done, or failed without effect on a withdrawal, or broken: it
\* gave up a withdrawal between two effects that belong together.

Label == {"idle", "lookup", "expire", "confirm", "credit", "read", "write",
          "forget", "lock", "insert", "rollback", "unlock", "debit",
          "complete", "done", "failed", "broken"}

Account == [open : BOOLEAN, balance : Nat, locked : Nat]

TypeOK ==
    /\ pendingDeposits \subseteq Deposit
    /\ aged \subseteq Deposit
    /\ deposit \in [Deposit -> {"none", "pending", "confirmed", "expired"}]
    /\ withdrawal \in [Withdrawal -> {"none", "pending", "completed"}]
    /\ account \in [User -> Account]
    /\ call \in [Request -> Call]
    /\ pc \in [Request -> Label]
    /\ balanceRead \in [Request -> Nat \union {NoBalance}]
    /\ credits \in [Deposit -> Nat]
    /\ debits \in [Withdrawal -> Nat]
    /\ raced \subseteq Item

Init ==
    /\ pendingDeposits = {} /\ aged = {}
    /\ deposit = [d \in Deposit |-> "none"]
    /\ withdrawal = [w \in Withdrawal |-> "none"]
    /\ account = [u \in User |-> [open |-> FALSE, balance |-> 0, locked |-> 0]]
    /\ call \in [Request -> Call]
    /\ pc = [r \in Request |-> "idle"]
    /\ balanceRead = [r \in Request |-> NoBalance]
    /\ credits = [d \in Deposit |-> 0]
    /\ debits = [w \in Withdrawal |-> 0]
    /\ raced = {}

-----------------------------------------------------------------------------
\* The balance functions of the database

op(r) == call[r][1]
item(r) == call[r][2]
user(r) == Owner[item(r)]
amount(r) == Amount[item(r)]

Available(u) == account[u].balance - account[u].locked

\* The row of u once it exists with balance b.
OpenRow(u, b) == [open |-> TRUE, balance |-> b, locked |-> account[u].locked]

credit_user_balance(r) ==
    LET u == user(r) IN
    /\ account' = [account EXCEPT ![u] = OpenRow(u, account[u].balance + amount(r))]
    /\ credits' = [credits EXCEPT ![item(r)] = @ + 1]

\* Both return FALSE, without effect, when too little is available.
debit_user_balance(r) ==
    IF Available(user(r)) < amount(r) THEN UNCHANGED <<account, debits>>
    ELSE /\ account' = [account EXCEPT ![user(r)].balance = @ - amount(r)]
         /\ debits' = [debits EXCEPT ![item(r)] = @ + 1]

lock_user_balance(r) ==
    account' = [account EXCEPT ![user(r)].locked = @ + amount(r)]

\* Mutants: subtraction without GREATEST; everything locked is released.
UnlockUnbounded(r) == account' = [account EXCEPT ![user(r)].locked = @ - amount(r)]
UnlockAll(r) == account' = [account EXCEPT ![user(r)].locked = 0]

\* GREATEST(0, locked_balance - p_amount)
unlock_user_balance(r) ==
    account' = [account EXCEPT ![user(r)].locked =
                    IF @ < amount(r) THEN 0 ELSE @ - amount(r)]

-----------------------------------------------------------------------------
\* Deposits

Goto(r, l) == pc' = [pc EXCEPT ![r] = l]

Running(r) == pc[r] \notin {"idle", "done", "failed", "broken"}

\* A nonce of its own, remembered in memory and inserted as pending. The
\* client learns it from the answer, so the two are one step.
InitiateDeposit(d) ==
    /\ deposit[d] = "none"
    /\ deposit' = [deposit EXCEPT ![d] = "pending"]
    /\ pendingDeposits' = pendingDeposits \union {d}
    /\ UNCHANGED <<aged, withdrawal, account, call, pc, balanceRead, history>>

\* expiresAt passes.
Age(d) ==
    /\ deposit[d] # "none" /\ d \notin aged
    /\ aged' = aged \union {d}
    /\ UNCHANGED <<pendingDeposits, rows, call, pc, balanceRead, history>>

\* cleanupExpiredNonces, every minute: only the memory is cleaned.
CleanupExpiredNonces ==
    /\ pendingDeposits \intersect aged # {}
    /\ pendingDeposits' = pendingDeposits \ aged
    /\ UNCHANGED <<aged, rows, call, pc, balanceRead, history>>

\* verifyDeposit until its first await: the nonce in memory, or else in the
\* database.
VerifyDeposit(r) ==
    LET d == item(r) IN
    /\ op(r) = "verify" /\ pc[r] = "idle" /\ deposit[d] # "none"
    /\ \/ d \notin pendingDeposits /\ Goto(r, "lookup") /\ UNCHANGED pendingDeposits
       \/ d \in pendingDeposits \ aged /\ Goto(r, "confirm") /\ UNCHANGED pendingDeposits
       \/ /\ d \in pendingDeposits \intersect aged
          /\ pendingDeposits' = pendingDeposits \ {d}
          /\ Goto(r, "expire")
    /\ UNCHANGED <<aged, rows, call, balanceRead, history>>

\* Mutant: the status filter is dropped.
LookupAny(r) ==
    /\ pc[r] = "lookup"
    /\ Goto(r, "confirm")
    /\ UNCHANGED <<pendingDeposits, aged, rows, call, balanceRead, history>>

\* getPendingFromDb: the status counts, expires_at is not looked at.
LookupPending(r) ==
    /\ pc[r] = "lookup"
    /\ \/ deposit[item(r)] = "pending" /\ Goto(r, "confirm")
       \/ (deposit[item(r)] # "pending" \/ "db" \in Faults) /\ Goto(r, "failed")
    /\ UNCHANGED <<pendingDeposits, aged, rows, call, balanceRead, history>>

\* updateDepositStatus(EXPIRED), whatever the status has become
ExpireDeposit(r) ==
    /\ pc[r] = "expire"
    /\ \/ deposit' = [deposit EXCEPT ![item(r)] = "expired"]
       \/ "db" \in Faults /\ UNCHANGED deposit
    /\ Goto(r, "failed")
    /\ UNCHANGED <<pendingDeposits, aged, withdrawal, account, call, balanceRead, history>>

\* UPDATE ... WHERE nonce = d, whatever the status has become
ConfirmDeposit(r) ==
    /\ pc[r] = "confirm"
    /\ \/ /\ deposit' = [deposit EXCEPT ![item(r)] = "confirmed"]
          /\ Goto(r, "credit") \/ ("lost" \in Faults /\ Goto(r, "failed"))
       \/ "db" \in Faults /\ Goto(r, "failed") /\ UNCHANGED deposit
    /\ UNCHANGED <<pendingDeposits, aged, withdrawal, account, call, balanceRead, history>>

\* creditBalance; an error of the function leads to the fallback.
CreditBalance(r) ==
    /\ pc[r] = "credit"
    /\ \/ /\ credit_user_balance(r)
          /\ Goto(r, "forget") \/ ("lost" \in Faults /\ Goto(r, "read"))
       \/ "db" \in Faults /\ Goto(r, "read") /\ UNCHANGED <<account, credits>>
    /\ UNCHANGED <<pendingDeposits, aged, deposit, withdrawal, call, balanceRead, debits>>

\* A failed read counts as no row.
ReadBalance(r) ==
    LET a == account[user(r)] IN
    /\ pc[r] = "read"
    /\ \/ balanceRead' = [balanceRead EXCEPT ![r] = IF a.open THEN a.balance ELSE NoBalance]
       \/ "db" \in Faults /\ balanceRead' = [balanceRead EXCEPT ![r] = NoBalance]
    /\ Goto(r, "write")
    /\ UNCHANGED <<pendingDeposits, aged, rows, call, history>>

\* Update to what was read plus the amount, or insert. The constraints of
\* the table (one row per user, balance >= locked_balance) may refuse it,
\* and nobody looks at the error.
WriteBalance(r) ==
    LET u == user(r)
        old == balanceRead[r]
        new == IF old = NoBalance THEN amount(r) ELSE old + amount(r)
        accepted == IF old = NoBalance THEN ~account[u].open ELSE account[u].locked <= new
    IN
    /\ pc[r] = "write"
    /\ \/ /\ accepted
          /\ account' = [account EXCEPT ![u] = OpenRow(u, new)]
          /\ credits' = [credits EXCEPT ![item(r)] = @ + 1]
       \/ /\ ~accepted \/ "db" \in Faults
          /\ UNCHANGED <<account, credits>>
    /\ Goto(r, "forget")
    /\ UNCHANGED <<pendingDeposits, aged, deposit, withdrawal, call, balanceRead, debits>>

\* Mutant: the nonce stays in memory.
KeepNonce(r) ==
    /\ pc[r] = "forget"
    /\ Goto(r, "done")
    /\ UNCHANGED <<pendingDeposits, aged, rows, call, balanceRead, history>>

ForgetNonce(r) ==
    /\ pc[r] = "forget"
    /\ pendingDeposits' = pendingDeposits \ {item(r)}
    /\ Goto(r, "done")
    /\ UNCHANGED <<aged, rows, call, balanceRead, history>>

-----------------------------------------------------------------------------
\* Withdrawals

\* initiateWithdrawal: get_available_balance first. Every call, a repeated
\* one too, makes a withdrawal of its own.
CheckBalance(r) ==
    /\ op(r) = "withdraw" /\ pc[r] = "idle"
    /\ \A q \in Request : call[q] = call[r] => pc[q] = "idle"
    /\ \/ amount(r) <= Available(user(r)) /\ Goto(r, "lock")
       \/ (Available(user(r)) < amount(r) \/ "db" \in Faults) /\ Goto(r, "failed")
    /\ UNCHANGED <<pendingDeposits, aged, rows, call, balanceRead, history>>

\* Mutant: the lock trusts the balance checked before.
LockUnchecked(r) ==
    /\ pc[r] = "lock"
    /\ lock_user_balance(r)
    /\ Goto(r, "insert")
    /\ UNCHANGED <<pendingDeposits, aged, deposit, withdrawal, call, balanceRead, history>>

LockBalance(r) ==
    /\ pc[r] = "lock"
    /\ \/ /\ amount(r) <= Available(user(r))
          /\ lock_user_balance(r)
          /\ Goto(r, "insert") \/ ("lost" \in Faults /\ Goto(r, "broken"))
       \/ /\ Available(user(r)) < amount(r) \/ "db" \in Faults
          /\ Goto(r, "failed")
          /\ UNCHANGED account
    /\ UNCHANGED <<pendingDeposits, aged, deposit, withdrawal, call, balanceRead, history>>

InsertWithdrawal(r) ==
    /\ pc[r] = "insert"
    /\ \/ /\ withdrawal' = [withdrawal EXCEPT ![item(r)] = "pending"]
          /\ Goto(r, "done") \/ ("lost" \in Faults /\ Goto(r, "rollback"))
       \/ "db" \in Faults /\ Goto(r, "rollback") /\ UNCHANGED withdrawal
    /\ UNCHANGED <<pendingDeposits, aged, deposit, account, call, balanceRead, history>>

\* A record whose answer was lost stays, and nobody looks at an error.
RollbackLock(r) ==
    /\ pc[r] = "rollback"
    /\ \/ /\ unlock_user_balance(r)
          /\ Goto(r, IF withdrawal[item(r)] = "none" THEN "failed" ELSE "broken")
       \/ "db" \in Faults /\ Goto(r, "broken") /\ UNCHANGED account
    /\ UNCHANGED <<pendingDeposits, aged, deposit, withdrawal, call, balanceRead, history>>

\* Mutant: a completed withdrawal is confirmed like a pending one.
ConfirmAnyWithdrawal(r) ==
    /\ op(r) = "confirm" /\ pc[r] = "idle"
    /\ Goto(r, IF withdrawal[item(r)] = "none" THEN "failed" ELSE "unlock")
    /\ UNCHANGED <<pendingDeposits, aged, rows, call, balanceRead, history>>

\* confirmWithdrawal: a completed one is answered again.
ConfirmWithdrawal(r) ==
    LET w == withdrawal[item(r)] IN
    /\ op(r) = "confirm" /\ pc[r] = "idle"
    /\ \/ w = "pending" /\ Goto(r, "unlock")
       \/ w = "completed" /\ Goto(r, "done")
       \/ (w = "none" \/ "db" \in Faults) /\ Goto(r, "failed")
    /\ UNCHANGED <<pendingDeposits, aged, rows, call, balanceRead, history>>

UnlockBalance(r) ==
    /\ pc[r] = "unlock"
    /\ \/ /\ unlock_user_balance(r)
          /\ Goto(r, "debit") \/ ("lost" \in Faults /\ Goto(r, "broken"))
       \/ "db" \in Faults /\ Goto(r, "failed") /\ UNCHANGED account
    /\ UNCHANGED <<pendingDeposits, aged, deposit, withdrawal, call, balanceRead, history>>

\* Only an error stops the handler: FALSE is not looked at.
DebitBalance(r) ==
    /\ pc[r] = "debit"
    /\ \/ /\ debit_user_balance(r)
          /\ Goto(r, "complete") \/ ("lost" \in Faults /\ Goto(r, "broken"))
       \/ "db" \in Faults /\ Goto(r, "broken") /\ UNCHANGED <<account, debits>>
    /\ UNCHANGED <<pendingDeposits, aged, deposit, withdrawal, call, balanceRead, credits>>

CompleteWithdrawal(r) ==
    /\ pc[r] = "complete"
    /\ \/ /\ withdrawal' = [withdrawal EXCEPT ![item(r)] = "completed"]
          /\ Goto(r, "done") \/ ("lost" \in Faults /\ Goto(r, "failed"))
       \/ "db" \in Faults /\ Goto(r, "broken") /\ UNCHANGED withdrawal
    /\ UNCHANGED <<pendingDeposits, aged, deposit, account, call, balanceRead, history>>

-----------------------------------------------------------------------------
\* Between these steps of a withdrawal a call may not simply stop.
Midway == {"insert", "rollback", "debit", "complete"}

Restart ==
    /\ "restart" \in Faults
    /\ pendingDeposits # {} \/ \E r \in Request : Running(r)
    /\ pendingDeposits' = {}
    /\ pc' = [r \in Request |-> IF pc[r] \in Midway THEN "broken"
                                ELSE IF Running(r) THEN "failed" ELSE pc[r]]
    /\ UNCHANGED <<aged, rows, call, balanceRead, history>>

VerifyStep(r) ==
    \/ VerifyDeposit(r) \/ LookupPending(r) \/ ExpireDeposit(r) \/ ConfirmDeposit(r)
    \/ CreditBalance(r) \/ ReadBalance(r) \/ WriteBalance(r) \/ ForgetNonce(r)

WithdrawStep(r) ==
    \/ CheckBalance(r) \/ LockBalance(r) \/ InsertWithdrawal(r) \/ RollbackLock(r)
    \/ ConfirmWithdrawal(r) \/ UnlockBalance(r) \/ DebitBalance(r) \/ CompleteWithdrawal(r)

Contested ==
    {x \in Item : \E q, r \in Request :
                     q # r /\ Running(q) /\ Running(r) /\ item(q) = x /\ item(r) = x}

NoteRaces == raced' = raced \union Contested'

Next ==
    \/ \E d \in Deposit : (InitiateDeposit(d) \/ Age(d)) /\ NoteRaces
    \/ (CleanupExpiredNonces \/ Restart) /\ NoteRaces
    \/ \E r \in Request : (VerifyStep(r) \/ WithdrawStep(r)) /\ NoteRaces

Spec == Init /\ [][Next]_vars

-----------------------------------------------------------------------------
\* Properties

\* What is locked is there: no interleaving of credits, fallback updates,
\* locks and debits takes the balance of a user below what is locked, so
\* balance_gte_locked never fails inside a balance function.
LockedIsBacked == \A u \in User : account[u].locked <= account[u].balance

\* A deposit is credited at most once, over failing calls, retries and
\* restarts, unless two calls of verifyDeposit ran at once: the nonce in
\* memory and the status in the database back each other up.
CreditedOnce == \A d \in Deposit \ raced : credits[d] <= 1

\* A credited deposit is recorded as confirmed, and an expired or pending
\* one has credited nothing.
CreditedIsConfirmed ==
    \A d \in Deposit \ raced : credits[d] > 0 => deposit[d] = "confirmed"

\* Confirmations of w that gave up after they had unlocked its funds.
Broken(w) == {r \in Request : call[r] = <<"confirm", w>> /\ pc[r] = "broken"}

\* A withdrawal is debited at most once, and once more for every confirmation
\* of it that broke off between the unlock and the completed status: after a
\* lost answer, a failed call or a restart the next confirmation starts over,
\* and a completed one debits nothing. Only calls that ran at once can debit
\* more.
DebitedOnce == \A w \in Withdrawal \ raced : debits[w] <= 1 + Cardinality(Broken(w))

\* Withdrawals that hold a lock: recorded and not yet unlocked by the
\* confirmation, or locked and about to be recorded.
Holding(u) ==
    {w \in Withdrawal : /\ Owner[w] = u
                        /\ withdrawal[w] = "pending" \/
                             \E r \in Request : item(r) = w /\ pc[r] \in {"insert", "rollback"}
                        /\ \A r \in Request : item(r) = w => pc[r] \notin {"debit", "complete"}}

\* Withdrawals on which a call broke off, or two calls ran at once.
Disturbed(u) ==
    {w \in Withdrawal : /\ Owner[w] = u
                        /\ w \in raced \/ \E r \in Request : item(r) = w /\ pc[r] = "broken"}

\* The locked balance of a user is exactly what the user's pending
\* withdrawals hold, under any faults, as long as none of them was disturbed:
\* concurrent withdrawals never unlock each other's funds. Disturbed ones can
\* leave a lock behind, one each and no more.
LocksMatchWithdrawals ==
    \A u \in User :
        LET most == MapThenSumSet(LAMBDA w : Amount[w], Holding(u) \union Disturbed(u)) IN
        /\ account[u].locked <= most
        /\ Disturbed(u) = {} => account[u].locked = most
=============================================================================
