SPECIFICATION Spec
CONSTANTS
    User = {u1}
    Outcome = {1, 2}
    Probabilities <- MCProbabilities
    Window <- MCWindow
    Amount = {1, 4}
    BondingK = {3}
    U64 = 1000
    PROBABILITY_DECIMALS = 100
    POOL_MULTIPLIER = 150
    PLATFORM_FEE_BPS = 200
    BONDING_PRECISION = 3
    MIN_POSITION_AMOUNT = 2
    MAX_POSITION_AMOUNT = 5
    MAX_FREE_DEPLOYS = 1
    MAX_TIME = 2
    MAX_MARKETS = 1
    MAX_POSITIONS = 2
    MAX_IN_FLIGHT = 2
PROPERTIES FirstStakeIsTaken
