CONSTANTS
    w1 = w1  w2 = w2  wa = wa  wb = wb  p1 = p1
    Winner = {w1, w2}
    Wallet = {wa, wb}
    Request = {r1, r2}
    Server = {s1}
    Pool = {p1}
    ZeroPool = ZeroPool
    PoolOf <- MCPoolOf
    Prize <- MCPrize
    Linked <- MCLinked
    Resolved <- MCResolved
    NoWallet = NoWallet
    DailyLimit = 1
    SafetyCap = 100
    Faults = {"crash", "db"}
CHECK_DEADLOCK FALSE
SPECIFICATION FairSpec
INVARIANTS AtMostOnePayment
PROPERTIES ImplementsPayout LocksReleased
