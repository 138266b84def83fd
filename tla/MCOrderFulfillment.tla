------------------------- MODULE MCOrderFulfillment -------------------------
EXTENDS OrderFulfillmentClaims, TLC

Symmetry == Permutations(Handlers) \cup Permutations(Clerks)
=============================================================================
