CONSTANTS
    Sector = {s1}
    Horizon = {h1}
    OldHorizon = OldHorizon
    NoHorizon = NoHorizon
    Outcome = {0, 1}
    NoOutcome = NoOutcome
    MAX_PER_SECTOR = 1
    MAX_COMPETITIONS = 2
    MaxFaults = 1
    MaxCalls = 1
CHECK_DEADLOCK FALSE
SPECIFICATION Spec
INVARIANTS TypeOK SeedsOnlyMissing
PROPERTIES SettledIsFinal
