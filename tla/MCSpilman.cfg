SPECIFICATION FairSpec
CONSTANTS
    c1 = c1
    c2 = c2
    Channels = {c1, c2}
    Urls <- AllUrls
    OWN <- Own
    ACCEPTED <- Taken
    BURNED <- BurntToo
    BURNS <- Burnable
    CAPACITY = 2
    TTL = 3
    Allowances <- MCAllowances
    None = None
INVARIANTS ChannelsSound
PROPERTIES Settled
CHECK_DEADLOCK FALSE
