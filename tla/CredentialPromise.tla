------------------------- MODULE CredentialPromise -------------------------
(***************************************************************************)
(* What the code promises about the credentials of an order, without jobs, *)
(* requests or statuses.  A credential is issued once and works from then  *)
(* on; whoever had it issued holds it until attaching it to the order, and *)
(* nobody attaches anything else.  Revoking is for good, and what somebody *)
(* still holds is never revoked.                                           *)
(***************************************************************************)
EXTENDS Naturals

CONSTANT Orders

VARIABLES
  issued,    \* credentials ever issued for the order; their ids are 1 .. issued
  works,     \* those that log the customer in
  inHand,    \* those a job or a request still has to attach
  attached   \* the one the order row points to, 0 for none

credentials == <<issued, works, inHand, attached>>

Init ==
  /\ issued = [o \in Orders |-> 0]
  /\ works = [o \in Orders |-> {}]
  /\ inHand = [o \in Orders |-> {}]
  /\ attached = [o \in Orders |-> 0]

(* What somebody holds goes on working. *)
SparesHands(o) == inHand[o] \subseteq works'[o]

Revoke(o) ==
  /\ issued'[o] = issued[o] /\ attached'[o] = attached[o]
  /\ works'[o] \subseteq works[o]
  /\ inHand'[o] \subseteq inHand[o]

(* The new one may be held, or be nobody's: the request that had it issued   *)
(* died.  The commit may revoke an old one.                                  *)
Issue(o) ==
  LET new == issued[o] + 1 IN
  /\ issued'[o] = new /\ attached'[o] = attached[o]
  /\ new \in works'[o] /\ works'[o] \subseteq works[o] \cup {new}
  /\ inHand'[o] \subseteq inHand[o] \cup {new}

(* It leaves the hand it was in, the only one, and never comes back to one. *)
Attach(o) ==
  /\ issued'[o] = issued[o] /\ works'[o] = works[o]
  /\ attached'[o] \in inHand[o]
  /\ inHand'[o] \subseteq inHand[o] \ {attached'[o]}

Next == \A o \in Orders :
  SparesHands(o) /\ (Revoke(o) \/ Issue(o) \/ Attach(o))

Spec == Init /\ [][Next]_credentials
=============================================================================
