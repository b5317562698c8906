SPECIFICATION Spec
CONSTANTS
    p1 = p1  c1 = c1  c2 = c2
    None = None
    Payers = {p1}
    Channels = {c1, c2}
    Owner <- MCOwner
    Capacity <- MCCapacity
    ExpiresAt <- MCExpiresAt
    Purchases <- MCPurchases
    U64_MAX = 15
    SECOND_MS = 2
    MAX_VERIFICATION_FAILURES = 2
    MIN_WINDOW = 2
    MAX_WINDOW = 2
    MIN_RESERVED = 0
    MIN_GAP = 0
    MAX_RATE = 2
    BURST = 0
    UNRESERVED = 0
    MINIMUM_FLOW = 0
    TICK = 1
    LEAD = 1
    MIN_EXPIRY = 2
    STALE = 1
    Windows = {2}
    Rates = {0, 2}
    MAX_MOVED = 1
    MAX_NOW = 3
    Buying = FALSE
    Overrides = {}
    MAX_CLOSES = 0
    Overlap = TRUE
PROPERTIES NoFreeBudget
