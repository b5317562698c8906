SPECIFICATION FairSpec
CONSTANTS
    c1 = c1 c2 = c2 c3 = c3
    Channels = {c1, c2, c3}
    Capacity <- AllLarge
    ExpiresAt <- NoExpiry
    None = None
    U64_MAX = 127 SECOND_MS = 1
    MAX_VERIFICATION_FAILURES = 2
    MIN_WINDOW = 1 MAX_WINDOW = 4 MIN_RESERVED = 0 MIN_GAP = 0 MAX_RATE = 4
    BURST = 0 UNRESERVED = 0 MINIMUM_FLOW = 0 TICK = 1
    BuyerPolicies <- OnlyPerUse
    THRESHOLD_PCT = 75 MARGIN = 0 FUNDING_TIMEOUT = 1
    INITIAL_CAPACITY = 8 MIN_CAPACITY = 8 MAX_CAPACITY = 8 GROWTH_PCT = 100
    Demands = {1} Availables = {4}
    MAX_MOVED = 0 MAX_NOW = 1
    Allowances <- FailedAndCut Late = FALSE
PROPERTIES EventuallyPaying
