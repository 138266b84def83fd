SPECIFICATION FairSpec
CONSTANTS
  c1 = c1
  h1 = h1
  o1 = o1
  o2 = o2
  None = None
  Orders = {o1, o2}
  PaystackOrders = {}
  DirectOrders = {o2}
  Handlers = {h1}
  Clerks = {c1}
  Quantity = 1
  Faults = {"worker", "clerk"}
  Edits = {}
  MaxMinted = 1
  MaxRefunds = 0
  MaxQueue = 1
INVARIANT PaidOrdersAreInHand
PROPERTY PaidIsTransient
CHECK_DEADLOCK FALSE
