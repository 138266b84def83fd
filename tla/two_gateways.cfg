SPECIFICATION Spec
CONSTANTS
  h1 = h1
  o1 = o1
  o2 = o2
  None = None
  Orders = {o1, o2}
  PaystackOrders = {o2}
  DirectOrders = {}
  Handlers = {h1}
  Clerks = {}
  Quantity = 1
  Faults = {"worker", "redis"}
  Edits = {}
  MaxMinted = 1
  MaxRefunds = 1
  MaxQueue = 2
INVARIANT SeenMeansRecorded
PROPERTY KeepsPromise
CHECK_DEADLOCK FALSE
