SPECIFICATION FairSpec
CONSTANTS
  r1 = r1
  r2 = r2
  r3 = r3
  single = single
  basket = basket
  None = None
  Requests = {r1, r2, r3}
  Carts = {single, basket}
  BasketCarts = {basket}
  Faults = {"db", "crash"}
INVARIANTS TypeOK RetriesAgree UrlsHaveOrders
PROPERTY RequestsAreAnswered
CHECK_DEADLOCK FALSE
