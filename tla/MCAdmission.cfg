SPECIFICATION Spec
CONSTANTS
    p1 = p1  p2 = p2  c1 = c1  c2 = c2
    None = None
    Payers = {p1, p2}
    Channels = {c1, c2}
    Owner <- MCOwner
    Capacity <- MCCapacity
    ExpiresAt <- MCExpiresAt
    Purchases <- MCPurchases
    U64_MAX = 3
    SECOND_MS = 1
    MAX_VERIFICATION_FAILURES = 1
    MIN_WINDOW = 1
    MAX_WINDOW = 1
    MIN_RESERVED = 1
    MIN_GAP = 1
    MAX_RATE = 2
    BURST = 0
    UNRESERVED = 0
    MINIMUM_FLOW = 0
    TICK = 1
    LEAD = 1
    MIN_EXPIRY = 2
    STALE = 0
    Windows = {1}
    Rates = {2}
    MAX_MOVED = 1
    MAX_NOW = 1
    Buying = TRUE
    Overrides = {"charge", "no_charge", "blocked"}
    MAX_CLOSES = 0
    Overlap = TRUE
SYMMETRY MCSymmetry
CONSTRAINT Bound
INVARIANTS ReservedFits GateFollowsBudget SettledOnce
PROPERTIES ClosedIsSettled
