---------------------------- MODULE RolePromise ----------------------------
(***************************************************************************)
(* What the back office promises about roles, without rows, locks, set-up  *)
(* tokens or requests under way.  A role starts with a superadmin, who     *)
(* hands it out or puts it on an invite; it reaches another address only   *)
(* by that address redeeming an invite that is for it or for anybody, once,*)
(* for its account; and a login only passes on what its address holds.     *)
(***************************************************************************)
CONSTANTS Admins, Founder, Invites, NoOne

VARIABLES
  accounts,  \* addresses that have an account
  holds,     \* the roles each address was ever given or offered
  offered,   \* the roles each invite has carried
  addressed, \* who each invite is for, NoOne for whoever has it
  givers,    \* whoever handed out a role
  tokens     \* who is logged in as what

roles == <<accounts, holds, offered, addressed, givers, tokens>>

Init ==
  /\ accounts = {Founder}
  /\ holds = [a \in Admins |-> IF a = Founder THEN {"superadmin"} ELSE {}]
  /\ offered = [i \in Invites |-> {}] /\ addressed = [i \in Invites |-> NoOne]
  /\ givers = {} /\ tokens = {}

(* One role at a time, to addresses, with an account perhaps, or on invites; *)
(* an invite that was handed out goes to nobody else.                        *)
Give(g, role) ==
  /\ "superadmin" \in holds[g] /\ givers' = givers \cup {g}
  /\ \A a \in Admins : holds'[a] \in {holds[a], holds[a] \cup {role}}
  /\ \A i \in Invites : offered'[i] \in {offered[i], offered[i] \cup {role}}
  /\ \A i \in Invites : offered[i] # {} => addressed'[i] = addressed[i]
  /\ accounts \subseteq accounts'
  /\ \A a \in accounts' \ accounts : role \in holds'[a]
  /\ UNCHANGED tokens

Redeem(a, i, role) ==
  /\ a \notin accounts /\ accounts' = accounts \cup {a}
  /\ addressed[i] \in {NoOne, a}
  /\ role \in offered[i] /\ tokens' = tokens \cup {[who |-> a, role |-> role]}
  /\ holds' = [holds EXCEPT ![a] = @ \cup offered[i]]
  /\ UNCHANGED <<offered, addressed, givers>>

LogIn(a, role) ==
  /\ a \in accounts /\ role \in holds[a]
  /\ tokens' = tokens \cup {[who |-> a, role |-> role]}
  /\ UNCHANGED <<accounts, holds, offered, addressed, givers>>

LogOut ==
  /\ tokens' \subseteq tokens
  /\ UNCHANGED <<accounts, holds, offered, addressed, givers>>

Next ==
  \/ \E g \in Admins, role \in {"viewer", "admin", "superadmin"} : Give(g, role)
  \/ \E a \in Admins, i \in Invites : \E role \in offered[i] : Redeem(a, i, role)
  \/ \E a \in Admins : \E role \in holds[a] : LogIn(a, role)
  \/ LogOut

Spec == Init /\ [][Next]_roles
=============================================================================
