SPECIFICATION MCSpec
CONSTANTS
    Addrs = {a, b} ByAddress = TRUE None = None
    Conns = {1, 2, 3} Fundings = {f1, f2}
    MAX_DEFERRED_FUNDINGS = 1 WINDOW = 2
    Allowances <- MCAllowances
    Channels = {a, b} Tasks = {1, 2} Deadlines = {None, 3} MAX = 4 DOUBLINGS = 2 U32_MAX = 3
    GRACE = 2 OVER = 1
    MAX_REQUESTS = 3 FUNDING_TIMEOUT = 3 MAX_OUTAGES = 1
    INITIAL = 1 SETTLED_BY = 7 FUNDED_BY = 6
    STALE_TIMEOUT = 9 DEFAULT_TIMEOUT = 9 OWN_TIMEOUT = 0 PERIOD = 1 LATENCY = 1
    MAX_LOST = 1 MAX_REVISIONS = 1 CHATTY = TRUE
INVARIANTS HostSound SettledByOne WaitsForAnswer NeverTakenForGone
PROPERTIES HeldEnds RetriesInTime SettlementEnds
CHECK_DEADLOCK FALSE
