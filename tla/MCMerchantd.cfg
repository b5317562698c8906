SPECIFICATION MCSpec
CONSTANTS
  m1 = m1
  m2 = m2
  o1 = o1
  o2 = o2
  Funds = {f1}
  Splits = {k1, k2}
  Quotes = {q1, q2}
  Amounts = {2}
  Most = 1
  Ceiling = 1
  Nobody = Nobody
  MaxFee = 1
  Tries = 3
  Allowances <- MCAllowances
  Sales = {s1, s2}
  Tokens = {t1, t2}
  Values = {2, 3}
  Wants = {0, 5}
  Prices = {0, 2}
  OwnMax = 9
  Ceilings = {4, 9}
  MaxFaults = 1
  MaxChanges = 1
  LostAnswers = FALSE
CHECK_DEADLOCK FALSE
INVARIANTS PaperSound SaleSound
PROPERTIES PaymentEnds TableSettles
