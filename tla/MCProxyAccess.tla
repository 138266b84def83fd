--------------------------- MODULE MCProxyAccess ---------------------------
EXTENDS ProxyAccess, TLC

Symmetry == Permutations(Requests) \cup Permutations(Creds \ Legacy)
=============================================================================
