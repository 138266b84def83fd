--------------------------- MODULE AdminAccounts ----------------------------
(***************************************************************************)
(* Who is what in the back office.  A role is kept in three places: the    *)
(* row of admin_auth, the invite it came from, and the JWT that a login    *)
(* issued.  Superadmins change the first two while logins are under way    *)
(* and tokens are out; wrong passwords lock an account for minutes, staff  *)
(* lock it for years.  Handlers load rows, await, and commit.              *)
(***************************************************************************)
EXTENDS Naturals

CONSTANTS
  Admins,     \* e-mail addresses
  Founder,    \* the one that is a superadmin from the start
  Invites,    \* rows of admin_invites, each good for one use
  Logins,     \* concurrent HTTP requests to log in
  Clerks,     \* concurrent HTTP requests of staff
  NoOne,      \* no address
  LockAfter,  \* wrong passwords that lock an account (5)
  Mistyped,   \* bound: addresses tried with wrong passwords
  MaxAsked,   \* bound: requests of staff
  Asked       \* bound: the roles they ask for

Roles == {"viewer", "admin", "superadmin"}
Requests == Logins \cup Clerks

ASSUME AccountsAssumption ==
  /\ Founder \in Admins /\ Logins \cap Clerks = {} /\ NoOne \notin Admins /\ LockAfter \in Nat \ {0}
  /\ Mistyped \subseteq Admins /\ MaxAsked \in Nat /\ Asked \subseteq Roles

VARIABLES
  admin,      \* rows of admin_auth
  invite,     \* rows of admin_invites
  temp,       \* set-up tokens between the two steps of /setup
  tokens,     \* access tokens that have not expired
  request,    \* what each request is at and has loaded
  given,      \* history: roles given to each address directly
  offered,    \* history: roles each invite has carried
  users,      \* history: who each invite was addressed to or used by
  givers,     \* history: whose requests gave a role
  shut,       \* history: locked by staff and not unlocked since
  asked,      \* the staff requests so far
  raced       \* history: a last wrong password was being checked meanwhile

rows == <<admin, invite>>
history == <<given, offered, users, givers, shut, raced>>
vars == <<admin, invite, temp, tokens, request, asked, history>>

Row == [role : Roles \cup {"absent"}, lock : {"open", "short", "long"},
        failed : 0 .. LockAfter]
Invite == [role : Roles, state : {"absent", "open", "spent", "expired"},
           email : Admins \cup {NoOne}, usedBy : Admins \cup {NoOne}]
Token == [who : Admins, role : Roles]
Temp == [who : Admins, invite : Invites, role : Roles]
StaffOps == {"create", "setRole", "delete", "teamRole", "lock", "unlock",
             "invite", "dropInvite"}
Request ==
  [at : {"idle", "login", "issue", "loaded"} \cup StaffOps,
   op : StaffOps, by : Admins \cup {NoOne}, who : Admins \cup {NoOne},
   role : Roles \cup {"absent"},   \* the role asked for, or loaded by a login
   failed : 0 .. LockAfter,
   same : BOOLEAN,                 \* the loaded row has the role asked for
   due : SUBSET Invites]           \* the loaded invites that do not

TypeOK ==
  /\ admin \in [Admins -> Row]
  /\ invite \in [Invites -> Invite]
  /\ temp \in SUBSET Temp
  /\ tokens \in SUBSET Token
  /\ request \in [Requests -> Request]
  /\ \A r \in Requests : request[r].at # "idle" => request[r].who \in Admins
  /\ given \in [Admins -> SUBSET Roles]
  /\ offered \in [Invites -> SUBSET Roles]
  /\ users \in [Invites -> SUBSET Admins]
  /\ givers \in SUBSET Admins /\ asked \in 0 .. MaxAsked
  /\ shut \in [Admins -> BOOLEAN] /\ raced \in [Admins -> BOOLEAN]

Idle == [at |-> "idle", op |-> "lock", by |-> NoOne, who |-> NoOne,
         role |-> "absent", failed |-> 0, same |-> FALSE, due |-> {}]

Init ==
  /\ admin = [a \in Admins |-> [role |-> IF a = Founder THEN "superadmin" ELSE "absent",
                                lock |-> "open", failed |-> 0]]
  /\ invite = [i \in Invites |-> [role |-> "admin", state |-> "absent",
                                  email |-> NoOne, usedBy |-> NoOne]]
  /\ temp = {} /\ tokens = {}
  /\ request = [r \in Requests |-> Idle]
  /\ given = [a \in Admins |-> IF a = Founder THEN {"superadmin"} ELSE {}]
  /\ offered = [i \in Invites |-> {}] /\ users = [i \in Invites |-> {}]
  /\ givers = {} /\ asked = 0
  /\ shut = [a \in Admins |-> FALSE] /\ raced = [a \in Admins |-> FALSE]

-----------------------------------------------------------------------------
(* Login *)

(* Mutant: the address need not be known. *)
MayTryAnyone(a) == admin[a].lock = "open"
(* Mutant: the lock is looked at after the password. *)
MayTryAlways(a) == admin[a].role # "absent"
MayTry(a) == admin[a].role # "absent" /\ admin[a].lock = "open"

LoginLoad(r, a) ==
  /\ request[r].at = "idle" /\ MayTry(a)
  /\ request' = [request EXCEPT ![r] = [Idle EXCEPT !.at = "login", !.who = a,
       !.role = admin[a].role, !.failed = admin[a].failed]]
  /\ UNCHANGED <<asked, rows, temp, tokens, history>>

(* The count that was loaded, plus one; the last locks for 15 minutes.      *)
(* Counts past the last act like it.                                        *)
Last(r) == request[r].failed + 1 >= LockAfter
WrongPassword(r) ==
  LET a == request[r].who IN
  /\ request[r].at = "login" /\ a \in Mistyped
  /\ admin' = [admin EXCEPT
       ![a].failed = IF Last(r) THEN LockAfter ELSE request[r].failed + 1,
       ![a].lock = IF Last(r) THEN "short" ELSE @]
  /\ request' = [request EXCEPT ![r] = Idle]
  /\ UNCHANGED <<asked, invite, temp, tokens, history>>

(* A missing or wrong TOTP code leaves the row alone. *)
TotpRefused(r) ==
  /\ request[r].at = "login"
  /\ request' = [request EXCEPT ![r] = Idle]
  /\ UNCHANGED <<asked, rows, temp, tokens, history>>

RightPassword(r) ==
  /\ request[r].at = "login"
  /\ admin' = [admin EXCEPT ![request[r].who].failed =
                 IF request[r].failed = 0 THEN @ ELSE 0]
  /\ request' = [request EXCEPT ![r].at = "issue"]
  /\ UNCHANGED <<asked, invite, temp, tokens, history>>

(* Mutant: the invite is looked up by role only. *)
AnyInvite(a) == {i \in Invites : invite[i].state # "absent"}
(* The invites an e-mail login finds for the address; it takes the first. *)
InvitesOf(a) == {i \in Invites :
  invite[i].state # "absent" /\ a \in {invite[i].usedBy, invite[i].email}}

(* The token carries the role the row had; an invite overrides "admin". *)
LoginIssue(r) ==
  LET a == request[r].who
      others == IF request[r].role = "admin" THEN InvitesOf(a) ELSE {}
  IN
  /\ request[r].at = "issue"
  /\ \E role \in IF others = {} THEN {request[r].role}
                                ELSE {invite[i].role : i \in others} :
       tokens' = tokens \cup {[who |-> a, role |-> role]}
  /\ request' = [request EXCEPT ![r] = Idle]
  /\ UNCHANGED <<asked, rows, temp, history>>

-----------------------------------------------------------------------------
(* Setting an account up *)

(* Mutant: a personal invite is good for whoever has its code. *)
SetupStartAnyone(i, a) ==
  /\ invite[i].state = "open"
  /\ admin[a].role = "absent"
  /\ temp' = temp \cup {[who |-> a, invite |-> i, role |-> invite[i].role]}
  /\ UNCHANGED <<asked, rows, tokens, request, history>>
SetupStart(i, a) ==
  /\ invite[i].state = "open"
  /\ invite[i].email \in {NoOne, a}
  /\ admin[a].role = "absent"
  /\ temp' = temp \cup {[who |-> a, invite |-> i, role |-> invite[i].role]}
  /\ UNCHANGED <<asked, rows, tokens, request, history>>

(* The second step trusts the set-up token: it looks at the invite only to  *)
(* mark it, and the unique index on the address is what it can fail on.     *)
SetupComplete(s) ==
  /\ s \in temp
  /\ admin[s.who].role = "absent"
  /\ admin' = [admin EXCEPT ![s.who].role = s.role]
  /\ invite' = [invite EXCEPT ![s.invite] =
       IF @.state = "absent" THEN @
       ELSE [@ EXCEPT !.state = "spent", !.usedBy = s.who]]
  /\ tokens' = tokens \cup {[who |-> s.who, role |-> s.role]}
  /\ users' = [users EXCEPT ![s.invite] = @ \cup {s.who}]
  /\ UNCHANGED <<asked, temp, request, given, offered, givers, shut, raced>>

-----------------------------------------------------------------------------
(* Staff requests *)

(* Mutant: a role change asks for an admin's token, like a lock. *)
AuthorisedWidely(t, op) ==
  /\ admin[t.who].role # "absent" /\ admin[t.who].lock = "open"
  /\ IF op \in {"create", "setRole", "delete"} THEN admin[t.who].role = "superadmin"
     ELSE \/ op \in {"lock", "unlock"} /\ admin[t.who].role = "superadmin"
          \/ op \in {"lock", "unlock", "dropInvite", "teamRole"} /\ t.role = "admin"
          \/ t.role = "superadmin"
(* RoleChecker goes by the token's role, require_permission by the row's;   *)
(* both turn a locked account away.                                         *)
Authorised(t, op) ==
  /\ admin[t.who].role # "absent" /\ admin[t.who].lock = "open"
  /\ IF op \in {"create", "setRole", "delete"} THEN admin[t.who].role = "superadmin"
     ELSE \/ op \in {"lock", "unlock"} /\ admin[t.who].role = "superadmin"
          \/ op \in {"lock", "unlock", "dropInvite"} /\ t.role = "admin"
          \/ t.role = "superadmin"

Begin(r, t, op, a, role) ==
  /\ request[r].at = "idle"
  /\ t \in tokens /\ Authorised(t, op)
  /\ asked < MaxAsked /\ asked' = asked + 1
  /\ op \in {"lock", "unlock", "teamRole", "setRole", "delete"} => admin[a].role # "absent"
  /\ op = "create" => admin[a].role = "absent"
  /\ IF op = "delete" THEN a # t.who /\ role = "viewer" ELSE role \in Asked
  /\ op \in {"lock", "unlock", "dropInvite"} => role = "admin"  \* unused
  /\ op = "dropInvite" => a = t.who
  /\ request' = [request EXCEPT ![r] = [Idle EXCEPT !.at = op, !.op = op,
       !.by = t.who, !.who = a, !.role = role]]
  /\ UNCHANGED <<rows, temp, tokens, history>>

UsedBy(a) == {i \in Invites : invite[i].state # "absent" /\ invite[i].usedBy = a}
(* The handler has the row and the invite; one that has the role already is *)
(* not written again.  Two invites used by one address fail it.             *)
LoadRole(r) ==
  LET a == request[r].who IN
  /\ request[r].at \in {"setRole", "delete", "teamRole"}
  /\ \A i, j \in UsedBy(a) : i = j
  /\ request' = [request EXCEPT ![r].at = "loaded",
       ![r].same = admin[a].role = request[r].role,
       ![r].due = {i \in UsedBy(a) : invite[i].role # request[r].role}]
  /\ UNCHANGED <<asked, rows, temp, tokens, history>>

(* A wrong password that will lock the account is being checked. *)
LastTry(a) == \E q \in Requests :
  request[q].at = "login" /\ request[q].who = a /\ Last(q)

(* /superadmin/admins writes the row and the invite, /auth/team the invite  *)
(* alone; a delete is the role "viewer" and a lock for ten years.  An invite *)
(* deleted since it was loaded fails the commit.                            *)
CommitRole(r) ==
  LET a == request[r].who
      role == request[r].role
      shutting == request[r].op = "delete"
      due == request[r].due
  IN
  /\ request[r].at = "loaded"
  /\ \A i \in due : invite[i].state # "absent"
  /\ admin' = [admin EXCEPT
       ![a].role = IF request[r].op = "teamRole" \/ request[r].same THEN @ ELSE role,
       ![a].lock = IF shutting THEN "long" ELSE @]
  /\ invite' = [i \in Invites |->
       IF i \in due THEN [invite[i] EXCEPT !.role = role] ELSE invite[i]]
  /\ given' = [given EXCEPT ![a] = IF request[r].op = "teamRole" THEN @ ELSE @ \cup {role}]
  /\ offered' = [i \in Invites |->
       IF i \in due THEN offered[i] \cup {role} ELSE offered[i]]
  /\ givers' = givers \cup {request[r].by}
  /\ shut' = [shut EXCEPT ![a] = @ \/ shutting]
  /\ raced' = [raced EXCEPT ![a] = @ \/ (shutting /\ LastTry(a))]
  /\ request' = [request EXCEPT ![r] = Idle]
  /\ UNCHANGED <<asked, temp, tokens, users>>

Lock(r) ==
  LET a == request[r].who IN
  /\ request[r].at = "lock"
  /\ admin' = [admin EXCEPT ![a].lock = "long"]
  /\ shut' = [shut EXCEPT ![a] = TRUE]
  /\ raced' = [raced EXCEPT ![a] = @ \/ LastTry(a)]
  /\ request' = [request EXCEPT ![r] = Idle]
  /\ UNCHANGED <<asked, invite, temp, tokens, given, offered, users, givers>>

Opened(a) ==
  /\ admin' = [admin EXCEPT ![a].lock = "open", ![a].failed = 0]
  /\ shut' = [shut EXCEPT ![a] = FALSE]
  /\ raced' = [raced EXCEPT ![a] = FALSE]
Unlock(r) ==
  /\ request[r].at = "unlock"
  /\ Opened(request[r].who)
  /\ request' = [request EXCEPT ![r] = Idle]
  /\ UNCHANGED <<asked, invite, temp, tokens, given, offered, users, givers>>

(* An invite for one address, or for whoever has the code. *)
CreateInvite(r, i) ==
  LET a == request[r].who IN
  /\ request[r].at = "invite"
  /\ invite[i].state = "absent" /\ offered[i] = {}
  /\ \E email \in {a, NoOne} :
       invite' = [invite EXCEPT ![i] = [role |-> request[r].role, state |-> "open",
                                        email |-> email, usedBy |-> NoOne]]
  /\ offered' = [offered EXCEPT ![i] = {request[r].role}]
  /\ users' = [users EXCEPT ![i] = {invite'[i].email} \cap Admins]
  /\ givers' = givers \cup {request[r].by}
  /\ request' = [request EXCEPT ![r] = Idle]
  /\ UNCHANGED <<asked, admin, temp, tokens, given, shut, raced>>

(* The account at once, and a spent invite that says where it comes from; *)
(* the index on the address refuses one that has come up in the meantime.   *)
CreateAdmin(r, i) ==
  LET a == request[r].who
      role == request[r].role
  IN
  /\ request[r].at = "create" /\ admin[a].role = "absent"
  /\ invite[i].state = "absent" /\ offered[i] = {}
  /\ admin' = [admin EXCEPT ![a].role = role]
  /\ invite' = [invite EXCEPT ![i] =
       [role |-> role, state |-> "spent", email |-> a, usedBy |-> a]]
  /\ given' = [given EXCEPT ![a] = @ \cup {role}]
  /\ offered' = [offered EXCEPT ![i] = {role}]
  /\ users' = [users EXCEPT ![i] = {a}]
  /\ givers' = givers \cup {request[r].by}
  /\ request' = [request EXCEPT ![r] = Idle]
  /\ UNCHANGED <<asked, temp, tokens, shut, raced>>

DropInvite(r, i) ==
  /\ request[r].at = "dropInvite"
  /\ invite[i].state # "absent"
  /\ invite' = [invite EXCEPT ![i].state = "absent"]
  /\ request' = [request EXCEPT ![r] = Idle]
  /\ UNCHANGED <<asked, admin, temp, tokens, history>>

(* The process dies, or the request fails before its commit. *)
Abandon(r) ==
  /\ request[r].at # "idle"
  /\ request' = [request EXCEPT ![r] = Idle]
  /\ UNCHANGED <<asked, rows, temp, tokens, history>>

-----------------------------------------------------------------------------
(* Time, and POST /unlock with the operator's secret *)

LockExpires(a) ==
  /\ admin[a].lock = "short"
  /\ admin' = [admin EXCEPT ![a].lock = "open"]
  /\ UNCHANGED <<asked, invite, temp, tokens, request, history>>
EmergencyUnlock(a) ==
  /\ admin[a].role # "absent"
  /\ Opened(a)
  /\ UNCHANGED <<asked, invite, temp, tokens, request, given, offered, users, givers>>
TokenExpires(t) ==
  /\ t \in tokens /\ tokens' = tokens \ {t}
  /\ UNCHANGED <<asked, rows, temp, request, history>>
TempExpires(s) ==
  /\ s \in temp /\ temp' = temp \ {s}
  /\ UNCHANGED <<asked, rows, tokens, request, history>>
InviteExpires(i) ==
  /\ invite[i].state = "open"
  /\ invite' = [invite EXCEPT ![i].state = "expired"]
  /\ UNCHANGED <<asked, admin, temp, tokens, request, history>>

Login(r) ==
  \/ \E a \in Admins : LoginLoad(r, a)
  \/ WrongPassword(r) \/ TotpRefused(r) \/ RightPassword(r) \/ LoginIssue(r)
Staff(r) ==
  \/ \E t \in tokens, op \in StaffOps, a \in Admins,
        role \in Asked \cup {"viewer"} : Begin(r, t, op, a, role)
  \/ LoadRole(r) \/ CommitRole(r) \/ Lock(r) \/ Unlock(r)
  \/ \E i \in Invites : CreateInvite(r, i) \/ CreateAdmin(r, i) \/ DropInvite(r, i)
Time ==
  \/ \E a \in Admins : LockExpires(a) \/ EmergencyUnlock(a)
  \/ \E t \in tokens : TokenExpires(t)
  \/ \E s \in temp : TempExpires(s)
  \/ \E i \in Invites : InviteExpires(i)
Next ==
  \/ \E r \in Logins : Login(r)
  \/ \E r \in Clerks : Staff(r)
  \/ \E r \in Requests : Abandon(r)
  \/ \E i \in Invites, a \in Admins : SetupStart(i, a)
  \/ \E s \in temp : SetupComplete(s)
  \/ Time

Spec == Init /\ [][Next]_vars

-----------------------------------------------------------------------------
(* The roles an address has been given, or offered by an invite of its own. *)
Given(a) == given[a] \cup UNION {offered[i] : i \in {j \in Invites : a \in users[j]}}

(* No token carries a role that nobody gave its bearer, whichever of the    *)
(* three copies of the role was read before, between or after the changes   *)
(* to the others (login_admin_email, setup_admin_step2).                    *)
TokensWereGiven == \A t \in tokens : t.role \in Given(t.who)

(* Roles come from superadmins only: whoever changed a role or made an      *)
(* invite, by a token or a row however old, had been made a superadmin by   *)
(* another, back to the founder (create_invite, update_admin_role).         *)
OnlySuperadminsGive == \A a \in givers : "superadmin" \in Given(a)

(* An account that staff lock or delete stays locked until staff unlock it: *)
(* no wrong password turns the years into minutes, except one that was      *)
(* being checked when the lock was committed (delete_admin, lock_team_member*)
(* against login_admin_email).                                              *)
ShutAccountsStayLocked ==
  \A a \in Admins : shut[a] /\ ~raced[a] => admin[a].lock = "long"

(* The same without rows, locks and requests. *)
RoleBook == INSTANCE RolePromise WITH
  accounts <- {a \in Admins : admin[a].role # "absent"},
  holds <- [a \in Admins |-> Given(a)],
  addressed <- [i \in Invites |-> invite[i].email]

(* Accounts, roles, invites and tokens behave as RolePromise says: every     *)
(* role can be followed back to a superadmin's request, whichever of the     *)
(* three copies of it a login or set-up read (admin_auth, admin_invites).    *)
KeepsRolePromise == RoleBook!Spec
=============================================================================
