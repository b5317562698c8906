SPECIFICATION Spec
CONSTANTS
    c1 = c1 c2 = c2 c3 = c3
    Channels = {c1, c2}
    Capacity <- AllSmall
    ExpiresAt <- NoExpiry
    None = None
    U64_MAX = 127 SECOND_MS = 1
    MAX_VERIFICATION_FAILURES = 2
    MIN_WINDOW = 1 MAX_WINDOW = 4 MIN_RESERVED = 0 MIN_GAP = 0 MAX_RATE = 4
    BURST = 0 UNRESERVED = 0 MINIMUM_FLOW = 0 TICK = 1
    BuyerPolicies <- OnlyPerUse
    THRESHOLD_PCT = 75 MARGIN = 0 FUNDING_TIMEOUT = 1
    INITIAL_CAPACITY = 3 MIN_CAPACITY = 3 MAX_CAPACITY = 3 GROWTH_PCT = 100
    Demands = {1} Availables = {0, 4}
    MAX_MOVED = 1 MAX_NOW = 1
    Allowances <- TwoCuts Late = FALSE
INVARIANTS BuyerNotBehind
