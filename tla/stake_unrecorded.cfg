CONSTANTS
    u1 = u1  u2 = u2  a1 = a1  a2 = a2  a3 = a3  c1 = c1
    t1 = t1  t2 = t2  t3 = t3
    User = {u1, u2}
    Agent = {a1, a2, a3}
    Competition = {c1}
    Request = {r1, r2}
    Payment = {t1, t2, t3}
    Owner <- MCOwner
    Amount <- MCAmount
    Call <- SameUserWagers
    NoPayment = NoPayment
    NoRow = NoRow
    MinStake = 200
    MaxStake = 2000
    DeleteTrigger = FALSE
    Faults = {}
CHECK_DEADLOCK FALSE
SPECIFICATION Spec
INVARIANTS StakesMatchPayments
