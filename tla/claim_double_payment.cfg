SPECIFICATION Spec
CONSTANTS
  a = a
  b = b
  t1 = t1
  t2 = t2
  Plans = {a}
  Carts <- OneCart
  Tabs = {t1, t2}
  Pays = {p1, p2, p3}
  NoPay = NoPay
  Statuses = {"waiting", "live"}
  MaxAttempts = 2
  MaxFlight <- MCMaxFlight
  MaxMoves = 1
INVARIANTS DoublePaymentsArePrevented
CHECK_DEADLOCK FALSE
