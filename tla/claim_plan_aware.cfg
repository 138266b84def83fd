SPECIFICATION Spec
CONSTANTS
  j1 = j1
  q1 = q1
  ng = ng
  uk = uk
  Jobs = {j1}
  Requests = {q1}
  Table = {ng, uk}
  Fallback = {ng}
  NoProxy = NoProxy
  MaxRetries = 2
  Need <- MCNeed
  Plan <- MCPlan
  Country <- MCCountry
  Addresses <- MCAddresses
  Loopback <- MCLoopback
PROPERTIES RejectionsFollowThePlan
