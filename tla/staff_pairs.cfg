SPECIFICATION Spec
CONSTANTS
  c1 = c1
  c2 = c2
  o1 = o1
  None = None
  Orders = {o1}
  PaystackOrders = {}
  DirectOrders = {}
  Handlers = {}
  Clerks = {c1, c2}
  Quantity = 1
  Faults = {"worker", "cron"}
  Edits = {"paid"}
  MaxMinted = 2
  MaxRefunds = 1
  MaxQueue = 1
INVARIANTS JobsAreForCharges LiveOrdersHaveAWorkingCredential
  RefundedMeansMoneyMoved
PROPERTY KeepsCredentialPromise
SYMMETRY Symmetry
CHECK_DEADLOCK FALSE
