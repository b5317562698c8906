SPECIFICATION MCSpec
CONSTANTS
  Payers = {p1, p2}
  Addrs = {a1, a2}
  Vouched = {x}
  Identity = "address"
  Rates = {0, 99}
  Unmetered = 99
  Null = Null
  MaxBindings = 2
  Outbox = 1
  Hellos <- MCHellos
  Allowances <- MCAllowances
  MIN_FLOW = 0
  Shaped = {2, 3}
  MAX_U64 = 4
  WEIGHT = 2
  Disturbances <- MCDisturbances
  Frames <- MCFrames
  BASE = 2
  CHUNK = 7
  MAX_SENT = 3
  Samples <- MCSamples
  Unknown = {14}
  MAX_CHANNEL_UPDATES = 2
  MAX_EDITS = 2
CHECK_DEADLOCK FALSE
INVARIANTS EnforcerInSync CarriedIsCharged HolderStays MessagesInOrder MessagesUnderstood
PROPERTIES EnforcerReached
