SPECIFICATION Spec
CONSTANTS
  h1 = h1
  h2 = h2
  o1 = o1
  None = None
  Orders = {o1}
  PaystackOrders = {}
  DirectOrders = {}
  Handlers = {h1, h2}
  Clerks = {}
  Quantity = 2
  Faults = {"redis", "handler", "worker", "cron"}
  Edits = {}
  MaxMinted = 4
  MaxRefunds = 1
  MaxQueue = 1
INVARIANTS TypeOK RefundedMeansMoneyMoved JobsAreForCharges FulfilledOrdersAreComplete
SYMMETRY Symmetry
CHECK_DEADLOCK FALSE
