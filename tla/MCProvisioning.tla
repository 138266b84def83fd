--------------------------- MODULE MCProvisioning ---------------------------
(* One multi-address job and one replacement, with an address of each kind  *)
(* the rules tell apart.                                                    *)
EXTENDS Provisioning
CONSTANTS j1, q1, ng, uk

Address(v4, score, proxy, vpn, dc) ==
  [v4 |-> v4, score |-> score, proxy |-> proxy, vpn |-> vpn,
   datacenter |-> dc, abuse |-> FALSE]
MCLoopback == Address(TRUE, 0, FALSE, FALSE, FALSE)
Hosting == Address(TRUE, 10, TRUE, FALSE, TRUE)
MCAddresses ==
  {Address(TRUE, 20, FALSE, FALSE, FALSE), Hosting,
   Address(FALSE, 0, FALSE, FALSE, FALSE)}
MCNeed == [w \in {j1, q1} |-> IF w = j1 THEN 2 ELSE 1]
MCPlan == [w \in {j1, q1} |-> IF w = j1 THEN "datacenter" ELSE "residential"]
MCCountry == [w \in {j1, q1} |-> IF w = j1 THEN ng ELSE uk]
=============================================================================
