CONSTANTS
    w1 = w1  w2 = w2  wa = wa  wb = wb  p1 = p1
    Winner = {w1}
    Wallet = {wa}
    Request = {r1, r2, r3}
    Server = {s1, s2}
    Pool = {p1}
    ZeroPool = ZeroPool
    PoolOf <- MCPoolOf
    Prize <- MCPrize
    Linked <- MCLinked
    Resolved <- MCResolved
    NoWallet = NoWallet
    DailyLimit = 5
    SafetyCap = 100
    Faults = {"crash", "db", "rpc"}
CHECK_DEADLOCK FALSE
SPECIFICATION Spec
SYMMETRY Symmetry
INVARIANTS TypeOK ExclusiveClaim ConfirmedClaimIsFinal RecordsTruthful
