CONSTANTS
    a1 = a1  c1 = c1  w1 = w1
    Agent = {a1}
    Competition = {c1}
    Owner <- MCOwner
    User = {u1}
    Wager = {w1}
    Bet <- MCBet
    Deployed <- MCDeployed
    MAX_PREDICTIONS = 2
    MaxFaults = 1
CHECK_DEADLOCK FALSE
SPECIFICATION Spec
INVARIANTS TypeOK PredictedIsCounted ScoreChain
PROPERTIES PredictsOnlyStaked UnstakedLeaves IdleIsPaused EndedIsCompleted LoopReturns
