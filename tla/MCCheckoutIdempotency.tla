----------------------- MODULE MCCheckoutIdempotency -----------------------
EXTENDS CheckoutIdempotency, TLC

Symmetry == Permutations(Requests)
=============================================================================
