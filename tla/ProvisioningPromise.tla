------------------------ MODULE ProvisioningPromise ------------------------
(***************************************************************************)
(* What provisioning promises of each piece of work: credentials are sold  *)
(* one at a time and never after it ended, it is delivered only with all   *)
(* of them, and the provider is not paid more than a fixed number of times *)
(* for it, whichever way it ends.                                          *)
(***************************************************************************)
EXTENDS Naturals

CONSTANTS
  Work,    \* pieces of work
  Need,    \* credentials each must produce
  Budget   \* purchases allowed for each

VARIABLES outcome, sold, spent

pvars == <<outcome, sold, spent>>

Init ==
  /\ outcome = [w \in Work |-> "open"]
  /\ sold = [w \in Work |-> 0]
  /\ spent = [w \in Work |-> 0]

Spend(w) ==
  /\ outcome[w] = "open" /\ spent[w] < Budget[w]
  /\ spent' = [spent EXCEPT ![w] = @ + 1]
  /\ UNCHANGED <<outcome, sold>>

Sell(w) ==
  /\ outcome[w] = "open" /\ sold[w] < Need[w]
  /\ sold' = [sold EXCEPT ![w] = @ + 1]
  /\ outcome' \in {outcome, [outcome EXCEPT ![w] = "delivered"]}
  /\ outcome'[w] = "delivered" => sold'[w] = Need[w]
  /\ UNCHANGED spent

End(w) ==
  /\ outcome[w] = "open"
  /\ \E how \in {"delivered", "failed"} :
       /\ how = "delivered" => sold[w] = Need[w]
       /\ outcome' = [outcome EXCEPT ![w] = how]
  /\ UNCHANGED <<sold, spent>>

Next == \E w \in Work : Spend(w) \/ Sell(w) \/ End(w)
Spec == Init /\ [][Next]_pvars
=============================================================================
