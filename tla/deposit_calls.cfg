CONSTANTS
    u1 = u1  d1 = d1  d2 = d2
    User = {u1}
    Deposit = {d1, d2}
    Withdrawal = {v1, v2}
    Request = {r1, r2, r3, r4}
    Owner <- MCOwner
    Amount <- MCAmount
    NoBalance = NoBalance
    Faults = {"db", "restart"}
CHECK_DEADLOCK FALSE
SPECIFICATION Spec
SYMMETRY Symmetry
INVARIANTS TypeOK LockedIsBacked CreditedOnce CreditedIsConfirmed LocksMatchWithdrawals DebitedOnce
