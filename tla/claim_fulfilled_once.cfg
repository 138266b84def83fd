SPECIFICATION Spec
CONSTANTS
  h1 = h1
  h2 = h2
  o1 = o1
  None = None
  Orders = {o1}
  PaystackOrders = {}
  DirectOrders = {}
  Handlers = {h1, h2}
  Clerks = {}
  Quantity = 1
  Faults = {}
  Edits = {}
  MaxMinted = 2
  MaxRefunds = 1
  MaxQueue = 2
PROPERTY OrdersAreFulfilledOnce
CHECK_DEADLOCK FALSE
