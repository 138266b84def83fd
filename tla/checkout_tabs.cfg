SPECIFICATION FairSpec
CONSTANTS
  a = a
  b = b
  t1 = t1
  t2 = t2
  Plans = {a, b}
  Carts <- CartAndBasket
  Tabs = {t1, t2}
  Pays = {p1, p2}
  NoPay = NoPay
  Statuses = {"waiting", "live"}
  MaxAttempts = 2
  MaxFlight <- MCMaxFlight
  MaxMoves = 1
INVARIANTS TypeOK AnnouncementsWereTrue
CHECK_DEADLOCK FALSE
PROPERTIES PagesSettle PagesCatchUp PagesOnlyMoveOn
