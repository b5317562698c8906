SPECIFICATION Spec
CONSTANTS
    c1 = c1 c2 = c2 c3 = c3
    Channels = {c1, c2, c3}
    Capacity <- Growing
    ExpiresAt <- FirstExpires
    None = None
    U64_MAX = 127 SECOND_MS = 1
    MAX_VERIFICATION_FAILURES = 2
    MIN_WINDOW = 1 MAX_WINDOW = 4 MIN_RESERVED = 0 MIN_GAP = 1 MAX_RATE = 4
    BURST = 0 UNRESERVED = 0 MINIMUM_FLOW = 0 TICK = 1
    BuyerPolicies <- AnyPolicy
    THRESHOLD_PCT = 75 MARGIN = 2 FUNDING_TIMEOUT = 1
    INITIAL_CAPACITY = 3 MIN_CAPACITY = 3 MAX_CAPACITY = 8 GROWTH_PCT = 300
    Demands = {1} Availables = {0, 4}
    MAX_MOVED = 1 MAX_NOW = 2
    Allowances <- OneOfEach Late = FALSE
SYMMETRY OthersAlike
INVARIANTS SignedOnConfirmed OneFunding
PROPERTIES KeepsUp ImplementsAccount SignedBeforeSettling
