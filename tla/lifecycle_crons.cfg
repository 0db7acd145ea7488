CONSTANTS
    Sector = {s1}
    Horizon = {h1}
    OldHorizon = OldHorizon
    NoHorizon = NoHorizon
    Outcome = {0}
    NoOutcome = NoOutcome
    MAX_PER_SECTOR = 1
    MAX_COMPETITIONS = 2
    MaxFaults = 2
    MaxCalls = 0
CHECK_DEADLOCK FALSE
SPECIFICATION Spec
INVARIANTS SeedsOnlyMissing
PROPERTIES ExpiredIsPaid SlotsAreRefilled
