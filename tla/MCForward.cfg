SPECIFICATION Spec
CONSTANTS
  Peers = {p, q}
  Addrs = {a, b}
  Macs = {m1, m2}
  NoMac = NoMac
  V6 = {1, 2}
  MaxV6 = 1
  Rates = {0, 1}
  Levels = {"none", "free"}
  DefaultClass = 9
  FirstRefused = 10
  MaxClass = 3
  Allowances <- MCAllowances
  Tenants = FALSE
  Clashes = FALSE
SYMMETRY Symmetric
CHECK_DEADLOCK FALSE
INVARIANTS DecisionInForce ChargedToOne ShapedAndCleared
