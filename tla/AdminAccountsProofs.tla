------------------------- MODULE AdminAccountsProofs -------------------------
(***************************************************************************)
(* Proofs about AdminAccounts for any number of addresses, invites and     *)
(* requests, any lock limit and any number of staff requests.              *)
(***************************************************************************)
EXTENDS AdminAccounts, TLAPS

(* A request under way knows whom it is about and a role; one of staff, by   *)
(* whose token it was let in.                                                *)
RequestsKnow ==
  \A r \in Requests :
    /\ request[r].at # "idle" => request[r].who \in Admins /\ request[r].role \in Roles
    /\ request[r].at \in StaffOps \cup {"loaded"} => request[r].by \in Admins

TypeInv == TypeOK /\ RequestsKnow

-----------------------------------------------------------------------------
(* Types *)

LEMMA IdleType == Idle \in Request
BY AccountsAssumption DEF Idle, Request, StaffOps

LEMMA TypeInit == Init => TypeInv
<1> SUFFICES ASSUME Init PROVE TypeInv
  OBVIOUS
<1> USE AccountsAssumption DEF Init
<1>1. RequestsKnow
  BY DEF RequestsKnow, Idle, StaffOps
<1>2. request \in [Requests -> Request]
  BY IdleType
<1>3. admin \in [Admins -> Row] /\ invite \in [Invites -> Invite]
  BY DEF Row, Invite, Roles
<1>4. given \in [Admins -> SUBSET Roles]
  BY DEF Roles
<1>5. \A r \in Requests : request[r].at = "idle"
  BY DEF Idle
<1>6. asked \in 0 .. MaxAsked /\ givers = {} /\ temp = {} /\ tokens = {}
  OBVIOUS
<1>7. /\ offered \in [Invites -> SUBSET Roles] /\ users \in [Invites -> SUBSET Admins]
      /\ shut \in [Admins -> BOOLEAN] /\ raced \in [Admins -> BOOLEAN]
  OBVIOUS
<1> HIDE DEF Init
<1>8. QED
  BY <1>1, <1>2, <1>3, <1>4, <1>5, <1>6, <1>7 DEF TypeInv, TypeOK

(* One column of a row is written. *)
LEMMA RoleType ==
  ASSUME admin \in [Admins -> Row], NEW a \in Admins, NEW role \in Roles
  PROVE  [admin EXCEPT ![a].role = role] \in [Admins -> Row]
<1>1. admin[a] \in Row
  OBVIOUS
<1>2. [admin[a] EXCEPT !.role = role] \in Row
  BY <1>1 DEF Row
<1>3. [admin EXCEPT ![a].role = role] = [admin EXCEPT ![a] = [admin[a] EXCEPT !.role = role]]
  OBVIOUS
<1>4. QED
  BY <1>2, <1>3

LEMMA LockType ==
  ASSUME admin \in [Admins -> Row], NEW a \in Admins,
         NEW lock \in {"open", "short", "long"}
  PROVE  [admin EXCEPT ![a].lock = lock] \in [Admins -> Row]
<1>1. admin[a] \in Row
  OBVIOUS
<1>2. [admin[a] EXCEPT !.lock = lock] \in Row
  BY <1>1 DEF Row
<1>3. [admin EXCEPT ![a].lock = lock] = [admin EXCEPT ![a] = [admin[a] EXCEPT !.lock = lock]]
  OBVIOUS
<1>4. QED
  BY <1>2, <1>3

(* A request that ends. *)
LEMMA EndsType ==
  ASSUME TypeInv, NEW r \in Requests, request' = [request EXCEPT ![r] = Idle]
  PROVE  /\ request' \in [Requests -> Request]
         /\ \A q \in Requests : request'[q].at # "idle" => request'[q].who \in Admins
         /\ RequestsKnow'
BY IdleType DEF TypeInv, TypeOK, RequestsKnow, Idle, StaffOps

(* One that goes on as another record. *)
LEMMA GoesOnType ==
  ASSUME TypeInv, NEW r \in Requests, NEW next \in Request,
         request' = [request EXCEPT ![r] = next],
         next.who \in Admins, next.role \in Roles,
         next.at \in StaffOps \cup {"loaded"} => next.by \in Admins
  PROVE  /\ request' \in [Requests -> Request]
         /\ \A q \in Requests : request'[q].at # "idle" => request'[q].who \in Admins
         /\ RequestsKnow'
BY DEF TypeInv, TypeOK, RequestsKnow

LEMMA StaysType ==
  ASSUME TypeInv, request' = request
  PROVE  /\ request' \in [Requests -> Request]
         /\ \A q \in Requests : request'[q].at # "idle" => request'[q].who \in Admins
         /\ RequestsKnow'
BY DEF TypeInv, TypeOK, RequestsKnow

LEMMA LoginType ==
  ASSUME TypeInv, NEW r \in Logins, Login(r) PROVE TypeInv'
<1> USE AccountsAssumption
<1>0. r \in Requests
  BY DEF Requests
<1>1. ASSUME NEW a \in Admins, LoginLoad(r, a) PROVE TypeInv'
  <2> DEFINE next == [Idle EXCEPT !.at = "login", !.who = a,
                        !.role = admin[a].role, !.failed = admin[a].failed]
  <2>1. next \in Request /\ next.who \in Admins /\ next.role \in Roles
    BY <1>1, IdleType DEF LoginLoad, MayTry, TypeInv, TypeOK, Row, Request, Idle
  <2>2. next.at \notin StaffOps \cup {"loaded"}
    BY DEF Idle, StaffOps
  <2>3. request' = [request EXCEPT ![r] = next]
    BY <1>1 DEF LoginLoad
  <2> HIDE DEF next
  <2>4. QED
    BY <1>0, <1>1, <2>1, <2>2, <2>3, GoesOnType
       DEF LoginLoad, TypeInv, TypeOK, rows, history
<1>2. ASSUME WrongPassword(r) PROVE TypeInv'
  <2> DEFINE a == request[r].who
  <2>1. a \in Admins /\ request[r].failed \in 0 .. LockAfter
    BY <1>0, <1>2 DEF WrongPassword, TypeInv, TypeOK, RequestsKnow, Request
  <2>2. admin' \in [Admins -> Row]
    BY <1>2, <2>1 DEF WrongPassword, Last, TypeInv, TypeOK, Row
  <2>3. QED
    BY <1>0, <1>2, <2>2, EndsType DEF WrongPassword, TypeInv, TypeOK, history
<1>3. ASSUME TotpRefused(r) PROVE TypeInv'
  BY <1>0, <1>3, EndsType DEF TotpRefused, TypeInv, TypeOK, rows, history
<1>4. ASSUME RightPassword(r) PROVE TypeInv'
  <2> DEFINE a == request[r].who
             next == [request[r] EXCEPT !.at = "issue"]
  <2>0. request[r] \in Request /\ a \in Admins /\ request[r].role \in Roles
    BY <1>0, <1>4 DEF RightPassword, TypeInv, TypeOK, RequestsKnow
  <2>1. admin' \in [Admins -> Row]
    <3>1. admin \in [Admins -> Row] /\ admin[a] \in Row
      BY <2>0 DEF TypeInv, TypeOK
    <3>2. [admin[a] EXCEPT !.failed = 0] \in Row
      BY <3>1 DEF Row
    <3>3. \/ admin' = admin
          \/ admin' = [admin EXCEPT ![a] = [admin[a] EXCEPT !.failed = 0]]
      BY <1>4, <3>1 DEF RightPassword, Row
    <3>4. QED
      BY <2>0, <3>1, <3>2, <3>3
  <2>2. next \in Request /\ next.who \in Admins /\ next.role \in Roles
    BY <2>0 DEF Request
  <2>3. next.at \notin StaffOps \cup {"loaded"}
    BY <1>0 DEF StaffOps, TypeInv, TypeOK, Request
  <2>4. request' = [request EXCEPT ![r] = next]
    BY <1>4 DEF RightPassword
  <2> HIDE DEF next
  <2>5. QED
    BY <1>0, <1>4, <2>1, <2>2, <2>3, <2>4, GoesOnType
       DEF RightPassword, TypeInv, TypeOK, history
<1>5. ASSUME LoginIssue(r) PROVE TypeInv'
  <2> DEFINE a == request[r].who
  <2>1. a \in Admins /\ request[r].role \in Roles
    BY <1>0, <1>5 DEF LoginIssue, TypeInv, RequestsKnow
  <2>2. tokens' \in SUBSET Token
    BY <1>5, <2>1 DEF LoginIssue, InvitesOf, TypeInv, TypeOK, Token, Invite
  <2>3. QED
    BY <1>0, <1>5, <2>2, EndsType DEF LoginIssue, TypeInv, TypeOK, rows, history
<1>6. QED
  BY <1>1, <1>2, <1>3, <1>4, <1>5 DEF Login

LEMMA BeginType ==
  ASSUME TypeInv, NEW r \in Clerks, NEW t \in tokens, NEW op \in StaffOps,
         NEW a \in Admins, NEW role \in Asked \cup {"viewer"},
         Begin(r, t, op, a, role)
  PROVE  TypeInv'
<1> USE AccountsAssumption
<1> DEFINE next == [Idle EXCEPT !.at = op, !.op = op, !.by = t.who,
                      !.who = a, !.role = role]
<1>1. t.who \in Admins
  BY DEF TypeInv, TypeOK, Token
<1>2. next \in Request /\ next.who \in Admins /\ next.role \in Roles
      /\ next.by \in Admins
  BY <1>1, IdleType DEF Request, Idle, Roles
<1>3. request' = [request EXCEPT ![r] = next] /\ r \in Requests
  BY DEF Begin, Requests
<1>4. asked' \in 0 .. MaxAsked
  BY DEF Begin, TypeInv, TypeOK
<1> HIDE DEF next
<1>5. QED
  BY <1>2, <1>3, <1>4, GoesOnType DEF Begin, TypeInv, TypeOK, rows, history

LEMMA LoadRoleType ==
  ASSUME TypeInv, NEW r \in Clerks, LoadRole(r) PROVE TypeInv'
<1> DEFINE next == [request[r] EXCEPT !.at = "loaded",
       !.same = admin[request[r].who].role = request[r].role,
       !.due = {i \in UsedBy(request[r].who) : invite[i].role # request[r].role}]
<1>1. r \in Requests
  BY DEF Requests
<1>2. /\ request[r] \in Request /\ request[r].who \in Admins
      /\ request[r].role \in Roles /\ request[r].by \in Admins
  BY <1>1 DEF LoadRole, TypeInv, TypeOK, RequestsKnow, StaffOps
<1>3. UsedBy(request[r].who) \subseteq Invites
  BY DEF UsedBy
<1>4. next \in Request /\ next.who \in Admins /\ next.role \in Roles
      /\ next.by \in Admins
  BY <1>2, <1>3 DEF Request
<1>5. request' = [request EXCEPT ![r] = next]
  BY DEF LoadRole
<1> HIDE DEF next
<1>6. QED
  BY <1>1, <1>4, <1>5, GoesOnType DEF LoadRole, TypeInv, TypeOK, rows, history

LEMMA CommitRoleType ==
  ASSUME TypeInv, NEW r \in Clerks, CommitRole(r) PROVE TypeInv'
<1> DEFINE a == request[r].who
           role == request[r].role
           shutting == request[r].op = "delete"
           due == request[r].due
<1>1. r \in Requests
  BY DEF Requests
<1>2. a \in Admins /\ role \in Roles /\ request[r].by \in Admins
  BY <1>1 DEF CommitRole, TypeInv, RequestsKnow
<1>3. /\ admin \in [Admins -> Row] /\ invite \in [Invites -> Invite]
      /\ given \in [Admins -> SUBSET Roles] /\ offered \in [Invites -> SUBSET Roles]
      /\ shut \in [Admins -> BOOLEAN] /\ raced \in [Admins -> BOOLEAN]
  BY DEF TypeInv, TypeOK
<1>4. admin' \in [Admins -> Row]
  <2> DEFINE row == [admin[a] EXCEPT
         !.role = IF request[r].op = "teamRole" \/ request[r].same THEN @ ELSE role,
         !.lock = IF shutting THEN "long" ELSE @]
  <2>1. row \in Row
    <3>1. admin[a] \in Row
      BY <1>2, <1>3
    <3>2. ASSUME NEW newRole \in Roles \cup {"absent"}, NEW newLock \in {"open", "short", "long"}
          PROVE  [admin[a] EXCEPT !.role = newRole, !.lock = newLock] \in Row
      BY <3>1 DEF Row
    <3>3. /\ (IF request[r].op = "teamRole" \/ request[r].same THEN admin[a].role ELSE role)
               \in Roles \cup {"absent"}
          /\ (IF shutting THEN "long" ELSE admin[a].lock) \in {"open", "short", "long"}
      BY <1>2, <3>1 DEF Row
    <3>4. QED
      BY <3>2, <3>3
  <2>2. admin' = [admin EXCEPT ![a] = row]
    BY <1>2, <1>3 DEF CommitRole, Row
  <2> HIDE DEF row
  <2>3. QED
    BY <1>2, <1>3, <2>1, <2>2
<1>5. invite' \in [Invites -> Invite]
  <2>1. ASSUME NEW i \in Invites PROVE [invite[i] EXCEPT !.role = role] \in Invite
    BY <1>2, <1>3 DEF Invite
  <2>2. invite' = [i \in Invites |-> IF i \in due
          THEN [invite[i] EXCEPT !.role = role] ELSE invite[i]]
    BY DEF CommitRole
  <2>3. QED
    BY <1>3, <2>1, <2>2
<1>6. given' \in [Admins -> SUBSET Roles]
  BY <1>2, <1>3 DEF CommitRole
<1>7. offered' \in [Invites -> SUBSET Roles]
  BY <1>2, <1>3 DEF CommitRole
<1>8. givers' \in SUBSET Admins
  BY <1>2 DEF CommitRole, TypeInv, TypeOK
<1>9. shut' \in [Admins -> BOOLEAN] /\ raced' \in [Admins -> BOOLEAN]
  <2>1. shut' = [shut EXCEPT ![a] = shut[a] \/ shutting]
    BY DEF CommitRole
  <2>2. raced' = [raced EXCEPT ![a] = raced[a] \/ (shutting /\ LastTry(a))]
    BY DEF CommitRole
  <2>3. (shut[a] \/ shutting) \in BOOLEAN
        /\ (raced[a] \/ (shutting /\ LastTry(a))) \in BOOLEAN
    OBVIOUS
  <2>4. QED
    BY <1>3, <2>1, <2>2, <2>3
<1>10. request' = [request EXCEPT ![r] = Idle]
  BY DEF CommitRole
<1>11. UNCHANGED <<asked, temp, tokens, users>>
  BY DEF CommitRole
<1>12. QED
  BY <1>1, <1>4, <1>5, <1>6, <1>7, <1>8, <1>9, <1>10, <1>11, EndsType
     DEF TypeInv, TypeOK

(* Locking and opening. *)
LEMMA OpenedType ==
  ASSUME TypeInv, NEW a \in Admins, Opened(a)
  PROVE  /\ admin' \in [Admins -> Row]
         /\ shut' \in [Admins -> BOOLEAN] /\ raced' \in [Admins -> BOOLEAN]
<1>1. admin \in [Admins -> Row] /\ admin[a] \in Row
  BY DEF TypeInv, TypeOK
<1>2. [admin[a] EXCEPT !.lock = "open", !.failed = 0] \in Row
  <2>1. 0 \in 0 .. LockAfter
    BY AccountsAssumption
  <2>2. QED
    BY <1>1, <2>1 DEF Row
<1>3. admin' = [admin EXCEPT ![a] = [admin[a] EXCEPT !.lock = "open", !.failed = 0]]
  BY <1>1 DEF Opened, Row
<1>4. QED
  BY <1>1, <1>2, <1>3 DEF Opened, TypeInv, TypeOK

LEMMA LocksType ==
  ASSUME TypeInv, NEW r \in Clerks, Lock(r) \/ Unlock(r) PROVE TypeInv'
<1>1. r \in Requests
  BY DEF Requests
<1>2. request[r].who \in Admins
  BY <1>1 DEF Lock, Unlock, TypeInv, RequestsKnow
<1>3. CASE Lock(r)
  <2> DEFINE a == request[r].who
  <2>1. admin' \in [Admins -> Row]
    <3>1. admin' = [admin EXCEPT ![a].lock = "long"]
      BY <1>3 DEF Lock
    <3>2. QED
      BY <1>2, <3>1, LockType DEF TypeInv, TypeOK
  <2>2. shut' \in [Admins -> BOOLEAN]
    BY <1>2, <1>3 DEF Lock, TypeInv, TypeOK
  <2>3. raced' \in [Admins -> BOOLEAN]
    <3>1. raced' = [raced EXCEPT ![a] = raced[a] \/ LastTry(a)]
      BY <1>3 DEF Lock
    <3>2. (raced[a] \/ LastTry(a)) \in BOOLEAN
      OBVIOUS
    <3>3. QED
      BY <1>2, <3>1, <3>2 DEF TypeInv, TypeOK
  <2>4. QED
    BY <1>1, <1>3, <2>1, <2>2, <2>3, EndsType DEF Lock, TypeInv, TypeOK
<1>4. CASE Unlock(r)
  BY <1>1, <1>2, <1>4, OpenedType, EndsType DEF Unlock, TypeInv, TypeOK
<1>5. QED
  BY <1>3, <1>4

LEMMA InvitesType ==
  ASSUME TypeInv, NEW r \in Clerks, NEW i \in Invites,
         CreateInvite(r, i) \/ CreateAdmin(r, i) \/ DropInvite(r, i)
  PROVE  TypeInv'
<1> DEFINE a == request[r].who
           role == request[r].role
<1>1. r \in Requests
  BY DEF Requests
<1>2. a \in Admins /\ role \in Roles /\ request[r].by \in Admins
  BY <1>1 DEF CreateInvite, CreateAdmin, DropInvite, TypeInv, RequestsKnow, StaffOps
<1>3. CASE CreateInvite(r, i)
  <2>1. PICK email \in {a, NoOne} : invite' = [invite EXCEPT ![i] =
          [role |-> role, state |-> "open", email |-> email, usedBy |-> NoOne]]
    BY <1>3 DEF CreateInvite
  <2>2. [role |-> role, state |-> "open", email |-> email, usedBy |-> NoOne] \in Invite
    BY <1>2 DEF Invite
  <2>3. invite' \in [Invites -> Invite]
    BY <2>1, <2>2 DEF TypeInv, TypeOK
  <2>4. offered' \in [Invites -> SUBSET Roles]
    BY <1>2, <1>3 DEF CreateInvite, TypeInv, TypeOK
  <2>5. users' \in [Invites -> SUBSET Admins]
    BY <1>3 DEF CreateInvite, TypeInv, TypeOK
  <2>6. givers' \in SUBSET Admins
    BY <1>2, <1>3 DEF CreateInvite, TypeInv, TypeOK
  <2>7. QED
    BY <1>1, <1>3, <2>3, <2>4, <2>5, <2>6, EndsType DEF CreateInvite, TypeInv, TypeOK
<1>4. CASE CreateAdmin(r, i)
  <2>1. admin' \in [Admins -> Row]
    <3>1. admin' = [admin EXCEPT ![a].role = role]
      BY <1>4 DEF CreateAdmin
    <3>2. QED
      BY <1>2, <3>1, RoleType DEF TypeInv, TypeOK
  <2>2. [role |-> role, state |-> "spent", email |-> a, usedBy |-> a] \in Invite
    BY <1>2 DEF Invite
  <2>3. invite' \in [Invites -> Invite]
    BY <1>4, <2>2 DEF CreateAdmin, TypeInv, TypeOK
  <2>4. given' \in [Admins -> SUBSET Roles] /\ offered' \in [Invites -> SUBSET Roles]
    BY <1>2, <1>4 DEF CreateAdmin, TypeInv, TypeOK
  <2>5. users' \in [Invites -> SUBSET Admins] /\ givers' \in SUBSET Admins
    BY <1>2, <1>4 DEF CreateAdmin, TypeInv, TypeOK
  <2>6. QED
    BY <1>1, <1>4, <2>1, <2>3, <2>4, <2>5, EndsType DEF CreateAdmin, TypeInv, TypeOK
<1>5. CASE DropInvite(r, i)
  <2>1. invite' \in [Invites -> Invite]
    BY <1>5 DEF DropInvite, TypeInv, TypeOK, Invite
  <2>2. QED
    BY <1>1, <1>5, <2>1, EndsType DEF DropInvite, TypeInv, TypeOK, history
<1>6. QED
  BY <1>3, <1>4, <1>5

LEMMA SetupType ==
  ASSUME TypeInv,
         \/ \E i \in Invites, a \in Admins : SetupStart(i, a)
         \/ \E s \in temp : SetupComplete(s)
  PROVE  TypeInv'
<1>1. ASSUME NEW i \in Invites, NEW a \in Admins, SetupStart(i, a) PROVE TypeInv'
  <2>1. temp' \in SUBSET Temp
    BY <1>1 DEF SetupStart, TypeInv, TypeOK, Temp, Invite
  <2>2. QED
    BY <1>1, <2>1, StaysType DEF SetupStart, TypeInv, TypeOK, rows, history
<1>2. ASSUME NEW s \in temp, SetupComplete(s) PROVE TypeInv'
  <2>1. s \in Temp
    BY DEF TypeInv, TypeOK
  <2>2. PICK a \in Admins, i \in Invites, role \in Roles :
          a = s.who /\ i = s.invite /\ role = s.role
    BY <2>1 DEF Temp
  <2>3. admin' \in [Admins -> Row]
    <3>1. admin' = [admin EXCEPT ![a].role = role]
      BY <1>2, <2>2 DEF SetupComplete
    <3>2. QED
      BY <3>1, RoleType DEF TypeInv, TypeOK
  <2>4. invite' \in [Invites -> Invite]
    <3> DEFINE new == [invite[i] EXCEPT !.state = "spent", !.usedBy = a]
    <3>1. invite \in [Invites -> Invite] /\ invite[i] \in Invite
      BY DEF TypeInv, TypeOK
    <3>2. new \in Invite
      BY <3>1 DEF Invite
    <3>3. invite' = invite \/ invite' = [invite EXCEPT ![i] = new]
      BY <1>2, <2>2, <3>1 DEF SetupComplete
    <3>4. QED
      BY <3>1, <3>2, <3>3
  <2>5. tokens' \in SUBSET Token
    <3>1. tokens' = tokens \cup {[who |-> a, role |-> role]}
      BY <1>2, <2>2 DEF SetupComplete
    <3>2. QED
      BY <3>1 DEF TypeInv, TypeOK, Token
  <2>6. users' \in [Invites -> SUBSET Admins]
    <3>1. users' = [users EXCEPT ![i] = users[i] \cup {a}]
      BY <1>2, <2>2 DEF SetupComplete
    <3>2. QED
      BY <3>1 DEF TypeInv, TypeOK
  <2>7. QED
    BY <1>2, <2>3, <2>4, <2>5, <2>6, StaysType DEF SetupComplete, TypeInv, TypeOK
<1>3. QED
  BY <1>1, <1>2

LEMMA TimeType ==
  ASSUME TypeInv, Time PROVE TypeInv'
<1>1. ASSUME NEW a \in Admins, LockExpires(a) PROVE TypeInv'
  <2>1. admin' \in [Admins -> Row]
    <3>1. admin' = [admin EXCEPT ![a].lock = "open"]
      BY <1>1 DEF LockExpires
    <3>2. QED
      BY <3>1, LockType DEF TypeInv, TypeOK
  <2>2. QED
    BY <1>1, <2>1, StaysType DEF LockExpires, TypeInv, TypeOK, history
<1>2. ASSUME NEW a \in Admins, EmergencyUnlock(a) PROVE TypeInv'
  BY <1>2, OpenedType, StaysType DEF EmergencyUnlock, TypeInv, TypeOK
<1>3. ASSUME NEW t \in tokens, TokenExpires(t) PROVE TypeInv'
  BY <1>3, StaysType DEF TokenExpires, TypeInv, TypeOK, rows, history
<1>4. ASSUME NEW s \in temp, TempExpires(s) PROVE TypeInv'
  BY <1>4, StaysType DEF TempExpires, TypeInv, TypeOK, rows, history
<1>5. ASSUME NEW i \in Invites, InviteExpires(i) PROVE TypeInv'
  <2>1. invite' \in [Invites -> Invite]
    BY <1>5 DEF InviteExpires, TypeInv, TypeOK, Invite
  <2>2. QED
    BY <1>5, <2>1, StaysType DEF InviteExpires, TypeInv, TypeOK, history
<1>6. QED
  BY <1>1, <1>2, <1>3, <1>4, <1>5 DEF Time

LEMMA TypeStep == TypeInv /\ [Next]_vars => TypeInv'
<1> SUFFICES ASSUME TypeInv, [Next]_vars PROVE TypeInv'
  OBVIOUS
<1>1. ASSUME NEW r \in Clerks, Staff(r) PROVE TypeInv'
  BY <1>1, BeginType, LoadRoleType, CommitRoleType, LocksType, InvitesType DEF Staff
<1>2. ASSUME NEW r \in Requests, Abandon(r) PROVE TypeInv'
  BY <1>2, EndsType DEF Abandon, TypeInv, TypeOK, rows, history
<1>3. CASE UNCHANGED vars
  BY <1>3 DEF vars, rows, history, TypeInv, TypeOK, RequestsKnow
<1>4. QED
  BY <1>1, <1>2, <1>3, LoginType, SetupType, TimeType DEF Next

(* The rows, invites, tokens and requests of the back office keep their      *)
(* types through every login, set-up and staff request.                      *)
THEOREM AccountsTypeCorrect == Spec => []TypeOK
<1>1. Init => TypeInv
  BY TypeInit
<1>2. TypeInv /\ [Next]_vars => TypeInv'
  BY TypeStep
<1>3. TypeInv => TypeOK
  BY DEF TypeInv
<1>4. QED
  BY <1>1, <1>2, <1>3, PTL DEF Spec

-----------------------------------------------------------------------------
(* Locks *)

(* What staff shut is locked, and nobody is about to lock it for minutes. *)
ShutInv ==
  /\ TypeInv
  /\ \A a \in Admins : shut[a] /\ ~raced[a] => admin[a].lock = "long" /\ ~LastTry(a)

(* A step that leaves locks and their history alone, and starts no login. *)
LocksKept ==
  /\ \A a \in Admins : admin'[a].lock = admin[a].lock
  /\ shut' = shut /\ raced' = raced
  /\ \A q \in Requests : request'[q].at = "login" => request'[q] = request[q]

LEMMA KeptLocks == ShutInv /\ TypeInv' /\ LocksKept => ShutInv'
BY DEF ShutInv, LocksKept, LastTry, Last

(* A request that ends starts no login. *)
LEMMA EndsQuietly ==
  ASSUME TypeInv, NEW r \in Requests, request' = [request EXCEPT ![r] = Idle]
  PROVE  \A q \in Requests : request'[q].at = "login" => request'[q] = request[q]
BY DEF TypeInv, TypeOK, Idle

LEMMA LoginKeepsShut ==
  ASSUME ShutInv, TypeInv', NEW r \in Logins, Login(r) PROVE ShutInv'
<1>0. r \in Requests /\ TypeInv /\ request \in [Requests -> Request]
      /\ admin \in [Admins -> Row]
  BY DEF Requests, ShutInv, TypeInv, TypeOK
<1>1. ASSUME NEW b \in Admins, LoginLoad(r, b) PROVE ShutInv'
  <2>1. \A q \in Requests \ {r} : request'[q] = request[q]
    BY <1>0, <1>1 DEF LoginLoad
  <2>2. request'[r].who = b /\ admin[b].lock = "open"
    BY <1>0, <1>1, IdleType DEF LoginLoad, MayTry, Request, Idle
  <2>3. admin' = admin /\ shut' = shut /\ raced' = raced
    BY <1>1 DEF LoginLoad, rows, history
  <2>4. ASSUME NEW a \in Admins, shut[a], ~raced[a]
        PROVE  admin[a].lock = "long" /\ ~LastTry(a)'
    BY <2>1, <2>2, <2>4 DEF ShutInv, LastTry, Last
  <2>5. QED
    BY <2>3, <2>4 DEF ShutInv
<1>2. ASSUME WrongPassword(r) PROVE ShutInv'
  <2> DEFINE b == request[r].who
  <2>1. b \in Admins
    BY <1>0, <1>2 DEF WrongPassword, TypeInv, RequestsKnow
  <2>2. \A q \in Requests : request'[q].at = "login" => request'[q] = request[q]
    BY <1>0, <1>2, EndsQuietly DEF WrongPassword
  <2>3. shut' = shut /\ raced' = raced
    BY <1>2 DEF WrongPassword, history
  <2>4. ASSUME NEW a \in Admins, shut[a], ~raced[a]
        PROVE  admin'[a].lock = "long" /\ ~LastTry(a)'
    <3>1. admin[a].lock = "long" /\ ~LastTry(a)
      BY <2>4 DEF ShutInv
    <3>2. ~LastTry(a)'
      BY <3>1, <2>2 DEF LastTry, Last
    <3>3. a # b \/ ~Last(r)
      BY <1>0, <1>2, <3>1 DEF LastTry, WrongPassword
    <3>4. admin'[a].lock = admin[a].lock
      BY <1>0, <1>2, <2>1, <3>3 DEF WrongPassword, Row
    <3>5. QED
      BY <3>1, <3>2, <3>4
  <2>5. QED
    BY <2>3, <2>4 DEF ShutInv
<1>3. ASSUME TotpRefused(r) \/ LoginIssue(r) PROVE ShutInv'
  <2>1. LocksKept
    BY <1>0, <1>3, EndsQuietly DEF TotpRefused, LoginIssue, LocksKept, rows, history
  <2>2. QED
    BY <2>1, KeptLocks
<1>4. ASSUME RightPassword(r) PROVE ShutInv'
  <2>1. \A a \in Admins : admin'[a].lock = admin[a].lock
    BY <1>0, <1>4 DEF RightPassword, Row
  <2>2. LocksKept
    BY <1>0, <1>4, <2>1 DEF RightPassword, LocksKept, history, Request
  <2>3. QED
    BY <2>2, KeptLocks
<1>5. QED
  BY <1>1, <1>2, <1>3, <1>4 DEF Login

(* An account that is opened is not shut. *)
LEMMA OpenedNotShut ==
  ASSUME ShutInv, TypeInv', NEW b \in Admins, Opened(b),
         \A q \in Requests : request'[q].at = "login" => request'[q] = request[q]
  PROVE  ShutInv'
<1>1. /\ admin \in [Admins -> Row] /\ shut \in [Admins -> BOOLEAN]
      /\ raced \in [Admins -> BOOLEAN]
  BY DEF ShutInv, TypeInv, TypeOK
<1>2. ~shut'[b]
  BY <1>1 DEF Opened
<1>3. ASSUME NEW a \in Admins, a # b
      PROVE  shut'[a] = shut[a] /\ raced'[a] = raced[a] /\ admin'[a] = admin[a]
  BY <1>1, <1>3 DEF Opened
<1>4. ASSUME NEW a \in Admins, shut'[a], ~raced'[a]
      PROVE  admin'[a].lock = "long" /\ ~LastTry(a)'
  BY <1>2, <1>3, <1>4 DEF ShutInv, LastTry, Last
<1>5. QED
  BY <1>4 DEF ShutInv

LEMMA StaffKeepsShut ==
  ASSUME ShutInv, TypeInv', NEW r \in Clerks, Staff(r) PROVE ShutInv'
<1>0. r \in Requests /\ TypeInv /\ request \in [Requests -> Request]
      /\ admin \in [Admins -> Row] /\ shut \in [Admins -> BOOLEAN]
      /\ raced \in [Admins -> BOOLEAN]
  BY DEF Requests, ShutInv, TypeInv, TypeOK
<1>1. ASSUME NEW t \in tokens, NEW op \in StaffOps, NEW a \in Admins,
             NEW role \in Asked \cup {"viewer"}, Begin(r, t, op, a, role)
      PROVE  ShutInv'
  <2>1. request'[r].at = op /\ op # "login"
    BY <1>0, <1>1, IdleType DEF Begin, Request, Idle, StaffOps
  <2>2. LocksKept
    BY <1>0, <1>1, <2>1 DEF Begin, LocksKept, rows, history
  <2>3. QED
    BY <2>2, KeptLocks
<1>2. ASSUME LoadRole(r) PROVE ShutInv'
  <2>1. request'[r].at = "loaded"
    BY <1>0, <1>2 DEF LoadRole, Request
  <2>2. LocksKept
    BY <1>0, <1>2, <2>1 DEF LoadRole, LocksKept, rows, history
  <2>3. QED
    BY <2>2, KeptLocks
<1>3. ASSUME CommitRole(r) PROVE ShutInv'
  <2> DEFINE b == request[r].who
             shutting == request[r].op = "delete"
  <2>1. b \in Admins
    BY <1>0, <1>3 DEF CommitRole, TypeInv, RequestsKnow
  <2>2. \A q \in Requests : request'[q].at = "login" => request'[q] = request[q]
    BY <1>0, <1>3, EndsQuietly DEF CommitRole
  <2>3. ASSUME NEW a \in Admins, a # b
        PROVE  shut'[a] = shut[a] /\ raced'[a] = raced[a] /\ admin'[a] = admin[a]
    BY <1>0, <1>3, <2>3 DEF CommitRole
  <2>4. CASE shutting
    <3>1. admin'[b].lock = "long"
      BY <1>0, <1>3, <2>1, <2>4 DEF CommitRole, Row
    <3>2. raced'[b] = (raced[b] \/ LastTry(b))
      BY <1>0, <1>3, <2>1, <2>4, Zenon DEF CommitRole
    <3>3. ASSUME NEW a \in Admins, shut'[a], ~raced'[a]
          PROVE  admin'[a].lock = "long" /\ ~LastTry(a)'
      <4>1. LastTry(a)' => LastTry(a)
        BY <2>2 DEF LastTry, Last
      <4>2. CASE a = b
        BY <3>1, <3>2, <3>3, <4>1, <4>2, Zenon
      <4>3. CASE a # b
        BY <2>3, <3>3, <4>1, <4>3 DEF ShutInv
      <4>4. QED
        BY <4>2, <4>3
    <3>4. QED
      BY <3>3 DEF ShutInv
  <2>5. CASE ~shutting
    <3>1. admin'[b].lock = admin[b].lock
      BY <1>0, <1>3, <2>1, <2>5 DEF CommitRole, Row
    <3>2. shut'[b] = shut[b] /\ raced'[b] = raced[b]
      BY <1>0, <1>3, <2>1, <2>5 DEF CommitRole
    <3>3. ASSUME NEW a \in Admins, shut'[a], ~raced'[a]
          PROVE  admin'[a].lock = "long" /\ ~LastTry(a)'
      BY <2>2, <2>3, <3>1, <3>2, <3>3 DEF ShutInv, LastTry, Last
    <3>4. QED
      BY <3>3 DEF ShutInv
  <2>6. QED
    BY <2>4, <2>5
<1>4. ASSUME Lock(r) PROVE ShutInv'
  <2> DEFINE b == request[r].who
  <2>1. b \in Admins
    BY <1>0, <1>4 DEF Lock, TypeInv, RequestsKnow
  <2>2. \A q \in Requests : request'[q].at = "login" => request'[q] = request[q]
    BY <1>0, <1>4, EndsQuietly DEF Lock
  <2>3. ASSUME NEW a \in Admins, a # b
        PROVE  shut'[a] = shut[a] /\ raced'[a] = raced[a] /\ admin'[a] = admin[a]
    BY <1>0, <1>4, <2>3 DEF Lock
  <2>4. admin'[b].lock = "long"
    BY <1>0, <1>4, <2>1 DEF Lock, Row
  <2>5. raced'[b] = (raced[b] \/ LastTry(b))
    BY <1>0, <1>4, <2>1, Zenon DEF Lock
  <2>6. ASSUME NEW a \in Admins, shut'[a], ~raced'[a]
        PROVE  admin'[a].lock = "long" /\ ~LastTry(a)'
    <3>1. LastTry(a)' => LastTry(a)
      BY <2>2 DEF LastTry, Last
    <3>2. CASE a = b
      BY <2>4, <2>5, <2>6, <3>1, <3>2
    <3>3. CASE a # b
      BY <2>3, <2>6, <3>1, <3>3 DEF ShutInv
    <3>4. QED
      BY <3>2, <3>3
  <2>7. QED
    BY <2>6 DEF ShutInv
<1>5. ASSUME Unlock(r) PROVE ShutInv'
  <2>1. request[r].who \in Admins
    BY <1>0, <1>5 DEF Unlock, TypeInv, RequestsKnow
  <2>2. \A q \in Requests : request'[q].at = "login" => request'[q] = request[q]
    BY <1>0, <1>5, EndsQuietly DEF Unlock
  <2>3. QED
    BY <1>5, <2>1, <2>2, OpenedNotShut DEF Unlock
<1>6. ASSUME NEW i \in Invites,
             CreateInvite(r, i) \/ CreateAdmin(r, i) \/ DropInvite(r, i)
      PROVE  ShutInv'
  <2>1. \A a \in Admins : admin'[a].lock = admin[a].lock
    BY <1>0, <1>6 DEF CreateInvite, CreateAdmin, DropInvite, Row
  <2>2. request' = [request EXCEPT ![r] = Idle]
    BY <1>6 DEF CreateInvite, CreateAdmin, DropInvite
  <2>3. shut' = shut /\ raced' = raced
    BY <1>6 DEF CreateInvite, CreateAdmin, DropInvite, history
  <2>4. LocksKept
    BY <1>0, <2>1, <2>2, <2>3, EndsQuietly DEF LocksKept
  <2>5. QED
    BY <2>4, KeptLocks
<1>7. QED
  BY <1>1, <1>2, <1>3, <1>4, <1>5, <1>6 DEF Staff

LEMMA ShutStep == ShutInv /\ [Next]_vars => ShutInv'
<1> SUFFICES ASSUME ShutInv, [Next]_vars PROVE ShutInv'
  OBVIOUS
<1>0. TypeInv' /\ TypeInv /\ admin \in [Admins -> Row]
  BY TypeStep DEF ShutInv, TypeInv, TypeOK
<1>1. ASSUME NEW r \in Requests, Abandon(r) PROVE ShutInv'
  <2>1. LocksKept
    BY <1>0, <1>1, EndsQuietly DEF Abandon, LocksKept, rows, history
  <2>2. QED
    BY <1>0, <2>1, KeptLocks
<1>2. ASSUME \/ \E i \in Invites, a \in Admins : SetupStart(i, a)
             \/ \E s \in temp : SetupComplete(s)
      PROVE  ShutInv'
  <2>1. ASSUME NEW i \in Invites, NEW a \in Admins, SetupStart(i, a) PROVE LocksKept
    BY <2>1 DEF SetupStart, LocksKept, rows, history
  <2>2. ASSUME NEW s \in temp, SetupComplete(s) PROVE LocksKept
    <3>1. admin' = [admin EXCEPT ![s.who].role = s.role]
      BY <2>2 DEF SetupComplete
    <3>2. \A a \in Admins : admin'[a].lock = admin[a].lock
      BY <1>0, <3>1 DEF Row
    <3>3. QED
      BY <2>2, <3>2 DEF SetupComplete, LocksKept
  <2>3. QED
    BY <1>0, <1>2, <2>1, <2>2, KeptLocks
<1>3. ASSUME NEW a \in Admins, LockExpires(a) PROVE ShutInv'
  <2>1. ASSUME NEW b \in Admins, shut[b], ~raced[b]
        PROVE  admin'[b].lock = "long"
    BY <1>0, <1>3, <2>1 DEF LockExpires, ShutInv, Row
  <2>2. shut' = shut /\ raced' = raced /\ request' = request
    BY <1>3 DEF LockExpires, history
  <2>3. QED
    BY <1>0, <2>1, <2>2 DEF ShutInv, LastTry, Last
<1>4. ASSUME NEW a \in Admins, EmergencyUnlock(a) PROVE ShutInv'
  BY <1>0, <1>4, OpenedNotShut DEF EmergencyUnlock
<1>5. ASSUME \/ \E t \in tokens : TokenExpires(t)
             \/ \E s \in temp : TempExpires(s)
             \/ \E i \in Invites : InviteExpires(i)
             \/ UNCHANGED vars
      PROVE  ShutInv'
  <2>1. LocksKept
    BY <1>5 DEF TokenExpires, TempExpires, InviteExpires, LocksKept, vars, rows, history
  <2>2. QED
    BY <1>0, <2>1, KeptLocks
<1>6. QED
  BY <1>0, <1>1, <1>2, <1>3, <1>4, <1>5, LoginKeepsShut, StaffKeepsShut DEF Next, Time

(* An account that staff lock or delete stays locked until staff unlock it,  *)
(* whatever wrong passwords are checked after the lock was committed.        *)
THEOREM ShutStaysLocked == Spec => []ShutAccountsStayLocked
<1>1. Init => ShutInv
  BY TypeInit DEF ShutInv, Init
<1>2. ShutInv /\ [Next]_vars => ShutInv'
  BY ShutStep
<1>3. ShutInv => ShutAccountsStayLocked
  BY DEF ShutInv, ShutAccountsStayLocked
<1>4. QED
  BY <1>1, <1>2, <1>3, PTL DEF Spec

-----------------------------------------------------------------------------
(* Roles *)

RowsGiven ==
  \A a \in Admins : admin[a].role # "absent" => admin[a].role \in Given(a)

(* An invite carries a role it has been offered with, and its addresses are  *)
(* among its users.                                                          *)
InvitesOffered ==
  \A i \in Invites : invite[i].state # "absent" =>
    /\ invite[i].role \in offered[i]
    /\ {invite[i].email, invite[i].usedBy} \cap Admins \subseteq users[i]

SetupsOffered == \A s \in temp : s.role \in offered[s.invite]

LoginsGiven ==
  \A r \in Requests : request[r].at \in {"login", "issue"} =>
    request[r].role \in Given(request[r].who)

Giving == {"create", "setRole", "delete", "teamRole", "invite", "loaded"}
GiversRequests ==
  \A r \in Requests : request[r].at \in Giving =>
    "superadmin" \in Given(request[r].by)

RolesInv ==
  /\ TypeInv
  /\ RowsGiven /\ InvitesOffered /\ SetupsOffered
  /\ LoginsGiven /\ TokensWereGiven
  /\ GiversRequests /\ OnlySuperadminsGive

(* What was given and offered is never taken back. *)
HistoryGrows ==
  /\ \A a \in Admins : given[a] \subseteq given'[a]
  /\ \A i \in Invites :
       /\ offered[i] \subseteq offered'[i]
       /\ offered[i] # {} => users[i] \subseteq users'[i]

(* Given after the step, of an address that is named before it.              *)
NewGiven(a) ==
  given'[a] \cup UNION {offered'[i] : i \in {j \in Invites : a \in users'[j]}}

LEMMA GivenNow ==
  ASSUME NEW a \in Admins, NEW role
  PROVE  role \in Given(a) <=>
           \/ role \in given[a]
           \/ \E i \in Invites : a \in users[i] /\ role \in offered[i]
BY DEF Given

LEMMA GivenNext ==
  ASSUME NEW a \in Admins, NEW role
  PROVE  role \in NewGiven(a) <=>
           \/ role \in given'[a]
           \/ \E i \in Invites : a \in users'[i] /\ role \in offered'[i]
BY DEF NewGiven

LEMMA NewGivenIs == ASSUME NEW a \in Admins PROVE Given(a)' = NewGiven(a)
BY DEF Given, NewGiven

LEMMA GivenGrows ==
  ASSUME HistoryGrows, NEW a \in Admins, NEW role, role \in Given(a)
  PROVE  role \in NewGiven(a)
BY GivenNow, GivenNext DEF HistoryGrows

LEMMA HistoryStep == TypeInv /\ [Next]_vars => HistoryGrows
<1> SUFFICES ASSUME TypeInv, [Next]_vars PROVE HistoryGrows
  OBVIOUS
<1>0. /\ given \in [Admins -> SUBSET Roles] /\ offered \in [Invites -> SUBSET Roles]
      /\ users \in [Invites -> SUBSET Admins]
  BY DEF TypeInv, TypeOK
<1>1. ASSUME UNCHANGED <<given, offered, users>> PROVE HistoryGrows
  BY <1>1 DEF HistoryGrows
<1>2. ASSUME NEW r \in Clerks, Staff(r) PROVE HistoryGrows
  <2>1. ASSUME CommitRole(r) PROVE HistoryGrows
    BY <1>0, <2>1 DEF CommitRole, HistoryGrows
  <2>2. ASSUME NEW i \in Invites, CreateInvite(r, i) PROVE HistoryGrows
    BY <1>0, <2>2 DEF CreateInvite, HistoryGrows
  <2>3. ASSUME NEW i \in Invites, CreateAdmin(r, i) PROVE HistoryGrows
    BY <1>0, <2>3 DEF CreateAdmin, HistoryGrows
  <2>4. ASSUME \/ LoadRole(r) \/ Lock(r) \/ Unlock(r)
               \/ \E i \in Invites : DropInvite(r, i)
               \/ \E t \in tokens, op \in StaffOps, a \in Admins,
                     role \in Asked \cup {"viewer"} : Begin(r, t, op, a, role)
        PROVE  UNCHANGED <<given, offered, users>>
    BY <2>4, Zenon DEF Begin, LoadRole, Lock, Unlock, DropInvite, history
  <2>5. QED
    BY <1>1, <1>2, <2>1, <2>2, <2>3, <2>4 DEF Staff
<1>3. ASSUME NEW s \in temp, SetupComplete(s) PROVE HistoryGrows
  BY <1>0, <1>3 DEF SetupComplete, HistoryGrows
<1>4. ASSUME \/ \E r \in Logins : Login(r)
             \/ \E r \in Requests : Abandon(r)
             \/ \E i \in Invites, a \in Admins : SetupStart(i, a)
             \/ Time
             \/ UNCHANGED vars
      PROVE  HistoryGrows
  <2>1. UNCHANGED <<given, offered, users>>
    BY <1>4 DEF Login, LoginLoad, WrongPassword, TotpRefused, RightPassword, LoginIssue,
                Abandon, SetupStart, Time, LockExpires, EmergencyUnlock, TokenExpires,
                TempExpires, InviteExpires, vars, history
  <2>2. QED
    BY <1>1, <2>1
<1>5. QED
  BY <1>2, <1>3, <1>4 DEF Next

LEMMA RowsStep ==
  ASSUME RolesInv, [Next]_vars PROVE RowsGiven'
<1>0. /\ HistoryGrows /\ TypeInv /\ admin \in [Admins -> Row]
      /\ given \in [Admins -> SUBSET Roles] /\ offered \in [Invites -> SUBSET Roles]
      /\ users \in [Invites -> SUBSET Admins]
  BY HistoryStep DEF RolesInv, TypeInv, TypeOK
<1>1. ASSUME \A a \in Admins : admin'[a].role = admin[a].role PROVE RowsGiven'
  BY <1>0, <1>1, GivenGrows, NewGivenIs DEF RolesInv, RowsGiven
<1>2. ASSUME NEW r \in Logins, Login(r) PROVE RowsGiven'
  <2>1. ASSUME WrongPassword(r) PROVE \A a \in Admins : admin'[a].role = admin[a].role
    <3>1. PICK lock, failed : admin' =
            [admin EXCEPT ![request[r].who].failed = failed, ![request[r].who].lock = lock]
      BY <2>1 DEF WrongPassword
    <3>2. QED
      BY <1>0, <3>1 DEF Row
  <2>2. ASSUME RightPassword(r) PROVE \A a \in Admins : admin'[a].role = admin[a].role
    BY <1>0, <2>2 DEF RightPassword, Row
  <2>3. ASSUME TotpRefused(r) \/ LoginIssue(r) \/ \E a \in Admins : LoginLoad(r, a)
        PROVE  admin' = admin
    BY <2>3 DEF TotpRefused, LoginIssue, LoginLoad, rows
  <2>4. QED
    BY <1>1, <1>2, <2>1, <2>2, <2>3 DEF Login
<1>3. ASSUME NEW r \in Clerks, CommitRole(r) PROVE RowsGiven'
  <2> DEFINE b == request[r].who
  <2>1. ASSUME NEW a \in Admins, admin'[a].role # admin[a].role
        PROVE  admin'[a].role \in given'[a]
    <3>1. a = b /\ request[r].op # "teamRole" /\ admin'[a].role = request[r].role
      BY <1>0, <1>3, <2>1 DEF CommitRole, Row
    <3>2. QED
      BY <1>0, <1>3, <3>1 DEF CommitRole
  <2>2. QED
    BY <1>0, <2>1, GivenGrows, GivenNext, NewGivenIs DEF RolesInv, RowsGiven
<1>4. ASSUME NEW r \in Clerks, NEW i \in Invites, CreateAdmin(r, i) PROVE RowsGiven'
  <2>1. ASSUME NEW a \in Admins, admin'[a].role # admin[a].role
        PROVE  admin'[a].role \in given'[a]
    BY <1>0, <1>4, <2>1 DEF CreateAdmin, Row
  <2>2. QED
    BY <1>0, <2>1, GivenGrows, GivenNext, NewGivenIs DEF RolesInv, RowsGiven
<1>5. ASSUME NEW s \in temp, SetupComplete(s) PROVE RowsGiven'
  <2>1. s.invite \in Invites /\ s.role \in offered[s.invite]
    BY DEF RolesInv, TypeInv, TypeOK, SetupsOffered, Temp
  <2>2. s.who \in users'[s.invite] /\ offered' = offered
    BY <1>0, <1>5, <2>1 DEF SetupComplete
  <2>3. admin' = [admin EXCEPT ![s.who].role = s.role]
    BY <1>5 DEF SetupComplete
  <2>4. ASSUME NEW a \in Admins, admin'[a].role # admin[a].role
        PROVE  a = s.who /\ admin'[a].role = s.role
    BY <1>0, <2>3, <2>4 DEF Row
  <2>5. QED
    BY <1>0, <2>1, <2>2, <2>4, GivenGrows, GivenNext, NewGivenIs DEF RolesInv, RowsGiven
<1>6. ASSUME NEW r \in Clerks, Lock(r) \/ Unlock(r) PROVE RowsGiven'
  <2>1. \A a \in Admins : admin'[a].role = admin[a].role
    BY <1>0, <1>6 DEF Lock, Unlock, Opened, Row
  <2>2. QED
    BY <1>1, <2>1
<1>7. ASSUME NEW r \in Clerks, Staff(r) PROVE RowsGiven'
  <2>1. ASSUME admin' = admin PROVE RowsGiven'
    BY <1>1, <2>1
  <2>2. QED
    BY <1>3, <1>4, <1>6, <1>7, <2>1
       DEF Staff, Begin, LoadRole, CreateInvite, DropInvite, rows
<1>8. ASSUME \/ \E r \in Requests : Abandon(r)
             \/ \E i \in Invites, a \in Admins : SetupStart(i, a)
             \/ Time
             \/ UNCHANGED vars
      PROVE  RowsGiven'
  <2>1. ASSUME NEW a \in Admins, LockExpires(a) \/ EmergencyUnlock(a)
        PROVE  \A b \in Admins : admin'[b].role = admin[b].role
    BY <1>0, <2>1 DEF LockExpires, EmergencyUnlock, Opened, Row
  <2>2. ASSUME ~ \E a \in Admins : LockExpires(a) \/ EmergencyUnlock(a)
        PROVE  admin' = admin
    BY <1>8, <2>2 DEF Abandon, SetupStart, Time, TokenExpires,
                      TempExpires, InviteExpires, vars, rows
  <2>3. QED
    BY <1>1, <2>1, <2>2
<1>9. QED
  BY <1>2, <1>5, <1>7, <1>8 DEF Next

LEMMA InvitesStep ==
  ASSUME RolesInv, [Next]_vars PROVE InvitesOffered'
<1>0. /\ HistoryGrows /\ TypeInv /\ InvitesOffered
      /\ invite \in [Invites -> Invite] /\ offered \in [Invites -> SUBSET Roles]
      /\ users \in [Invites -> SUBSET Admins]
  BY HistoryStep DEF RolesInv, TypeInv, TypeOK
<1>1. ASSUME NEW i \in Invites, invite'[i] = invite[i], invite'[i].state # "absent"
      PROVE  /\ invite'[i].role \in offered'[i]
             /\ {invite'[i].email, invite'[i].usedBy} \cap Admins \subseteq users'[i]
  BY <1>0, <1>1 DEF InvitesOffered, HistoryGrows
<1>2. ASSUME NEW r \in Clerks, CommitRole(r) PROVE InvitesOffered'
  <2>1. ASSUME NEW i \in Invites, i \in request[r].due
        PROVE  /\ invite'[i].role \in offered'[i]
               /\ {invite'[i].email, invite'[i].usedBy} \cap Admins \subseteq users'[i]
    <3>1. invite[i].state # "absent" /\ users' = users
      BY <1>2, <2>1 DEF CommitRole
    <3>2. invite'[i] = [invite[i] EXCEPT !.role = request[r].role]
          /\ offered'[i] = offered[i] \cup {request[r].role}
      BY <1>2, <2>1 DEF CommitRole
    <3>3. invite[i] \in Invite
      BY <1>0
    <3>4. QED
      BY <1>0, <3>1, <3>2, <3>3 DEF InvitesOffered, Invite
  <2>2. ASSUME NEW i \in Invites, i \notin request[r].due PROVE invite'[i] = invite[i]
    BY <1>2, <2>2 DEF CommitRole
  <2>3. QED
    BY <1>1, <2>1, <2>2 DEF InvitesOffered
<1>3. ASSUME NEW r \in Clerks, NEW j \in Invites,
             CreateInvite(r, j) \/ CreateAdmin(r, j)
      PROVE  InvitesOffered'
  <2>1. ASSUME NEW i \in Invites, i # j PROVE invite'[i] = invite[i]
    BY <1>0, <1>3, <2>1 DEF CreateInvite, CreateAdmin
  <2>2. invite'[j].role \in offered'[j]
    BY <1>0, <1>3 DEF CreateInvite, CreateAdmin
  <2>3. {invite'[j].email, invite'[j].usedBy} \cap Admins \subseteq users'[j]
    <3>1. CASE CreateInvite(r, j)
      <4>1. users'[j] = {invite'[j].email} \cap Admins
        BY <1>0, <3>1 DEF CreateInvite
      <4>2. invite'[j].usedBy = NoOne
        BY <1>0, <3>1 DEF CreateInvite
      <4>3. QED
        BY <4>1, <4>2, AccountsAssumption
    <3>2. CASE CreateAdmin(r, j)
      BY <1>0, <3>2 DEF CreateAdmin
    <3>3. QED
      BY <1>3, <3>1, <3>2
  <2>4. QED
    BY <1>1, <2>1, <2>2, <2>3 DEF InvitesOffered
<1>4. ASSUME NEW j \in Invites,
             InviteExpires(j) \/ \E r \in Clerks : DropInvite(r, j)
      PROVE  InvitesOffered'
  <2>1. ASSUME NEW i \in Invites, i # j PROVE invite'[i] = invite[i]
    BY <1>0, <1>4, <2>1 DEF InviteExpires, DropInvite
  <2>2. /\ invite'[j].role = invite[j].role /\ invite'[j].email = invite[j].email
        /\ invite'[j].usedBy = invite[j].usedBy
    BY <1>0, <1>4 DEF InviteExpires, DropInvite, Invite
  <2>3. invite'[j].state # "absent" => invite[j].state # "absent"
    BY <1>0, <1>4 DEF InviteExpires, DropInvite, Invite
  <2>4. QED
    BY <1>0, <1>1, <2>1, <2>2, <2>3 DEF InvitesOffered, HistoryGrows
<1>5. ASSUME NEW s \in temp, SetupComplete(s) PROVE InvitesOffered'
  <2>1. s \in Temp
    BY <1>0 DEF TypeInv, TypeOK
  <2>2. PICK a \in Admins, j \in Invites : a = s.who /\ j = s.invite
    BY <2>1 DEF Temp
  <2>3. users' = [users EXCEPT ![j] = users[j] \cup {a}] /\ offered' = offered
    BY <1>5, <2>2 DEF SetupComplete
  <2>4. ASSUME NEW i \in Invites, i # j PROVE invite'[i] = invite[i]
    BY <1>0, <1>5, <2>2, <2>4 DEF SetupComplete
  <2>5. CASE invite[j].state = "absent"
    <3>1. invite'[j] = invite[j]
      BY <1>0, <1>5, <2>2, <2>5 DEF SetupComplete
    <3>2. QED
      BY <1>1, <2>4, <3>1 DEF InvitesOffered
  <2>6. CASE invite[j].state # "absent"
    <3>1. invite'[j] = [invite[j] EXCEPT !.state = "spent", !.usedBy = a]
      BY <1>0, <1>5, <2>2, <2>6 DEF SetupComplete
    <3>2. invite'[j].role = invite[j].role /\ invite'[j].email = invite[j].email
          /\ invite'[j].usedBy = a
      BY <1>0, <3>1 DEF Invite
    <3>3. /\ invite'[j].role \in offered'[j]
          /\ {invite'[j].email, invite'[j].usedBy} \cap Admins \subseteq users'[j]
      BY <1>0, <2>3, <2>6, <3>2 DEF InvitesOffered
    <3>4. QED
      BY <1>1, <2>4, <3>3 DEF InvitesOffered
  <2>7. QED
    BY <2>5, <2>6
<1>6. ASSUME invite' = invite PROVE InvitesOffered'
  BY <1>1, <1>6 DEF InvitesOffered
<1>7. ASSUME NEW r \in Clerks, Staff(r) PROVE InvitesOffered'
  <2>1. ASSUME \/ LoadRole(r) \/ Lock(r) \/ Unlock(r)
               \/ \E t \in tokens, op \in StaffOps, a \in Admins,
                     role \in Asked \cup {"viewer"} : Begin(r, t, op, a, role)
        PROVE  invite' = invite
    BY <2>1, Zenon DEF Begin, LoadRole, Lock, Unlock, rows
  <2>2. QED
    BY <1>2, <1>3, <1>4, <1>6, <1>7, <2>1 DEF Staff
<1>8. ASSUME NEW r \in Logins, Login(r) PROVE InvitesOffered'
  BY <1>6, <1>8 DEF Login, LoginLoad, WrongPassword, TotpRefused, RightPassword,
                    LoginIssue, rows
<1>9. ASSUME \/ \E r \in Requests : Abandon(r)
             \/ \E i \in Invites, a \in Admins : SetupStart(i, a)
             \/ Time
             \/ UNCHANGED vars
      PROVE  InvitesOffered'
  BY <1>4, <1>6, <1>9 DEF Abandon, SetupStart, Time, LockExpires, EmergencyUnlock,
                          TokenExpires, TempExpires, vars, rows
<1>10. QED
  BY <1>5, <1>7, <1>8, <1>9 DEF Next

LEMMA SetupsStep ==
  ASSUME RolesInv, [Next]_vars PROVE SetupsOffered'
<1>0. /\ HistoryGrows /\ TypeInv /\ SetupsOffered /\ InvitesOffered
      /\ temp \in SUBSET Temp
  BY HistoryStep DEF RolesInv, TypeInv, TypeOK
<1>1. ASSUME NEW s \in temp PROVE s.role \in offered'[s.invite]
  <2>1. s.invite \in Invites /\ s.role \in offered[s.invite]
    BY <1>0 DEF SetupsOffered, Temp
  <2>2. QED
    BY <1>0, <2>1 DEF HistoryGrows
<1>2. ASSUME temp' \subseteq temp PROVE SetupsOffered'
  BY <1>1, <1>2 DEF SetupsOffered
<1>3. ASSUME NEW i \in Invites, NEW a \in Admins, SetupStart(i, a) PROVE SetupsOffered'
  <2> DEFINE s == [who |-> a, invite |-> i, role |-> invite[i].role]
  <2>1. temp' = temp \cup {s}
    BY <1>3 DEF SetupStart
  <2>2. invite[i].role \in offered[i]
    BY <1>0, <1>3 DEF SetupStart, InvitesOffered
  <2>3. s.role \in offered'[s.invite]
    BY <1>0, <2>2 DEF HistoryGrows
  <2> HIDE DEF s
  <2>4. QED
    BY <1>1, <2>1, <2>3 DEF SetupsOffered
<1>4. ASSUME NEW r \in Clerks, Staff(r) PROVE temp' = temp
  BY <1>4, Zenon DEF Staff, Begin, LoadRole, CommitRole, Lock, Unlock, CreateInvite,
                     CreateAdmin, DropInvite
<1>5. ASSUME NEW r \in Logins, Login(r) PROVE temp' = temp
  BY <1>5 DEF Login, LoginLoad, WrongPassword, TotpRefused, RightPassword, LoginIssue
<1>6. ASSUME \/ \E r \in Requests : Abandon(r)
             \/ \E s \in temp : SetupComplete(s)
             \/ Time
             \/ UNCHANGED vars
      PROVE  temp' \subseteq temp
  BY <1>6 DEF Abandon, SetupComplete, Time, LockExpires, EmergencyUnlock,
              TokenExpires, TempExpires, InviteExpires, vars
<1>7. QED
  BY <1>2, <1>3, <1>4, <1>5, <1>6 DEF Next

(* Requests that stay as they are keep what was given to their subjects.     *)
LEMMA SameRequests ==
  ASSUME RolesInv, HistoryGrows, NEW q \in Requests, request'[q] = request[q]
  PROVE  /\ request'[q].at \in {"login", "issue"} =>
              request'[q].role \in NewGiven(request'[q].who)
         /\ request'[q].at \in Giving => "superadmin" \in NewGiven(request'[q].by)
<1>1. /\ request[q].at # "idle" => request[q].who \in Admins
      /\ request[q].at \in Giving => request[q].by \in Admins
  BY DEF RolesInv, TypeInv, RequestsKnow, Giving, StaffOps
<1>2. ASSUME request[q].at \in {"login", "issue"}
      PROVE  request[q].role \in NewGiven(request[q].who)
  BY <1>1, <1>2, GivenGrows DEF RolesInv, LoginsGiven
<1>3. ASSUME request[q].at \in Giving PROVE "superadmin" \in NewGiven(request[q].by)
  BY <1>1, <1>3, GivenGrows DEF RolesInv, GiversRequests
<1>4. QED
  BY <1>2, <1>3

(* What the invariants on requests say after the step. *)
LEMMA RequestsNext ==
  ASSUME \A q \in Requests :
           /\ request'[q].at \in {"login", "issue"} =>
                request'[q].role \in NewGiven(request'[q].who)
           /\ request'[q].at \in Giving => "superadmin" \in NewGiven(request'[q].by)
  PROVE  LoginsGiven' /\ GiversRequests'
BY DEF LoginsGiven, GiversRequests, Given, NewGiven, Giving

LEMMA RequestsStep ==
  ASSUME RolesInv, [Next]_vars PROVE LoginsGiven' /\ GiversRequests'
<1>0. /\ HistoryGrows /\ TypeInv /\ request \in [Requests -> Request]
      /\ tokens \in SUBSET Token /\ admin \in [Admins -> Row]
  BY HistoryStep DEF RolesInv, TypeInv, TypeOK
(* One request goes on; what it knows has been given. *)
<1>1. ASSUME NEW r \in Requests,
             \A q \in Requests \ {r} : request'[q] = request[q],
             request'[r].at \in {"login", "issue"} =>
               request'[r].role \in NewGiven(request'[r].who),
             request'[r].at \in Giving => "superadmin" \in NewGiven(request'[r].by)
      PROVE  LoginsGiven' /\ GiversRequests'
  BY <1>0, <1>1, SameRequests, RequestsNext
<1>2. ASSUME NEW r \in Requests, request' = [request EXCEPT ![r] = Idle]
      PROVE  LoginsGiven' /\ GiversRequests'
  <2>1. request'[r].at = "idle" /\ \A q \in Requests \ {r} : request'[q] = request[q]
    BY <1>0, <1>2 DEF Idle
  <2>2. QED
    BY <1>1, <2>1 DEF Giving
<1>3. ASSUME request' = request PROVE LoginsGiven' /\ GiversRequests'
  BY <1>0, <1>3, SameRequests, RequestsNext
<1>4. ASSUME NEW r \in Logins, Login(r) PROVE LoginsGiven' /\ GiversRequests'
  <2>0. r \in Requests
    BY DEF Requests
  <2>1. ASSUME NEW a \in Admins, LoginLoad(r, a) PROVE LoginsGiven' /\ GiversRequests'
    <3>1. /\ request'[r].at = "login" /\ request'[r].who = a
          /\ request'[r].role = admin[a].role
      BY <1>0, <2>0, <2>1 DEF LoginLoad, Idle
    <3>2. admin[a].role \in NewGiven(a)
      BY <1>0, <2>1, GivenGrows DEF LoginLoad, MayTry, RolesInv, RowsGiven
    <3>3. \A q \in Requests \ {r} : request'[q] = request[q]
      BY <1>0, <2>1 DEF LoginLoad
    <3>4. QED
      BY <1>1, <2>0, <3>1, <3>2, <3>3 DEF Giving
  <2>2. ASSUME RightPassword(r) PROVE LoginsGiven' /\ GiversRequests'
    <3>1. /\ request'[r].at = "issue" /\ request'[r].who = request[r].who
          /\ request'[r].role = request[r].role
      BY <1>0, <2>0, <2>2 DEF RightPassword, Request
    <3>2. request[r].who \in Admins /\ request[r].role \in Given(request[r].who)
      BY <1>0, <2>0, <2>2 DEF RightPassword, RolesInv, LoginsGiven, TypeInv, RequestsKnow
    <3>3. \A q \in Requests \ {r} : request'[q] = request[q]
      BY <1>0, <2>2 DEF RightPassword
    <3>4. request[r].role \in NewGiven(request[r].who)
      BY <1>0, <3>2, GivenGrows
    <3>5. QED
      BY <1>1, <2>0, <3>1, <3>3, <3>4 DEF Giving
  <2>3. QED
    BY <1>2, <1>4, <2>0, <2>1, <2>2 DEF Login, WrongPassword, TotpRefused, LoginIssue
<1>5. ASSUME NEW r \in Clerks, NEW t \in tokens, NEW op \in StaffOps,
             NEW a \in Admins, NEW role \in Asked \cup {"viewer"},
             Begin(r, t, op, a, role)
      PROVE  LoginsGiven' /\ GiversRequests'
  <2>0. r \in Requests
    BY DEF Requests
  <2>1. request'[r].at = op /\ request'[r].by = t.who
    BY <1>0, <1>5, <2>0 DEF Begin, Idle
  <2>2. t.who \in Admins
    BY <1>0 DEF Token
  <2>3. ASSUME op \in Giving PROVE "superadmin" \in Given(t.who)
    <3>1. admin[t.who].role = "superadmin" \/ t.role = "superadmin"
      BY <1>5, <2>3 DEF Begin, Authorised, Giving
    <3>2. QED
      BY <2>2, <3>1 DEF RolesInv, RowsGiven, TokensWereGiven
  <2>4. \A q \in Requests \ {r} : request'[q] = request[q]
    BY <1>0, <1>5 DEF Begin
  <2>5. op \in Giving => "superadmin" \in NewGiven(t.who)
    BY <1>0, <2>2, <2>3, GivenGrows
  <2>6. QED
    BY <1>1, <2>0, <2>1, <2>4, <2>5 DEF StaffOps
<1>6. ASSUME NEW r \in Clerks, LoadRole(r) PROVE LoginsGiven' /\ GiversRequests'
  <2>0. r \in Requests
    BY DEF Requests
  <2>1. request'[r].at = "loaded" /\ request'[r].by = request[r].by
    BY <1>0, <1>6, <2>0 DEF LoadRole, Request
  <2>2. request[r].by \in Admins /\ "superadmin" \in Given(request[r].by)
    BY <1>0, <1>6, <2>0
       DEF LoadRole, RolesInv, GiversRequests, Giving, TypeInv, RequestsKnow, StaffOps
  <2>3. \A q \in Requests \ {r} : request'[q] = request[q]
    BY <1>0, <1>6 DEF LoadRole
  <2>4. "superadmin" \in NewGiven(request[r].by)
    BY <1>0, <2>2, GivenGrows
  <2>5. QED
    BY <1>1, <2>0, <2>1, <2>3, <2>4
<1>7. ASSUME NEW r \in Clerks, Staff(r) PROVE LoginsGiven' /\ GiversRequests'
  <2>1. ASSUME \/ CommitRole(r) \/ Lock(r) \/ Unlock(r)
               \/ \E i \in Invites : CreateInvite(r, i) \/ CreateAdmin(r, i)
                                      \/ DropInvite(r, i)
        PROVE  request' = [request EXCEPT ![r] = Idle]
    BY <2>1, Zenon DEF CommitRole, Lock, Unlock, CreateInvite, CreateAdmin, DropInvite
  <2>2. r \in Requests
    BY DEF Requests
  <2>3. QED
    BY <1>2, <1>5, <1>6, <1>7, <2>1, <2>2 DEF Staff
<1>8. ASSUME NEW r \in Requests, Abandon(r) PROVE LoginsGiven' /\ GiversRequests'
  BY <1>2, <1>8 DEF Abandon
<1>9. ASSUME \/ \E i \in Invites, a \in Admins : SetupStart(i, a)
             \/ \E s \in temp : SetupComplete(s)
             \/ Time
             \/ UNCHANGED vars
      PROVE  request' = request
  BY <1>9 DEF SetupStart, SetupComplete, Time, LockExpires, EmergencyUnlock,
              TokenExpires, TempExpires, InviteExpires, vars
<1>10. QED
  BY <1>3, <1>4, <1>7, <1>8, <1>9 DEF Next

LEMMA TokensStep ==
  ASSUME RolesInv, [Next]_vars PROVE TokensWereGiven'
<1>0. /\ HistoryGrows /\ TypeInv /\ tokens \in SUBSET Token
  BY HistoryStep DEF RolesInv, TypeInv, TypeOK
<1>1. ASSUME NEW t \in tokens PROVE t.role \in NewGiven(t.who)
  <2>1. t.who \in Admins /\ t.role \in Given(t.who)
    BY <1>0 DEF RolesInv, TokensWereGiven, Token
  <2>2. QED
    BY <1>0, <2>1, GivenGrows
<1>2. ASSUME tokens' \subseteq tokens PROVE TokensWereGiven'
  BY <1>1, <1>2 DEF TokensWereGiven, Given, NewGiven
<1>3. ASSUME NEW r \in Logins, LoginIssue(r) PROVE TokensWereGiven'
  <2> DEFINE a == request[r].who
             others == IF request[r].role = "admin" THEN InvitesOf(a) ELSE {}
  <2>0. r \in Requests /\ a \in Admins /\ request[r].role \in Given(a)
    BY <1>3 DEF Requests, LoginIssue, RolesInv, LoginsGiven, TypeInv, RequestsKnow
  <2>1. PICK role \in IF others = {} THEN {request[r].role}
                                   ELSE {invite[i].role : i \in others} :
          tokens' = tokens \cup {[who |-> a, role |-> role]}
    BY <1>3 DEF LoginIssue
  <2>2. role \in Given(a)
    <3>1. CASE others = {}
      BY <2>0, <2>1, <3>1
    <3>2. CASE others # {}
      <4>1. PICK i \in InvitesOf(a) : role = invite[i].role
        BY <2>1, <3>2
      <4>2. /\ i \in Invites /\ invite[i].state # "absent"
            /\ a \in {invite[i].usedBy, invite[i].email}
        BY <4>1 DEF InvitesOf
      <4>3. invite[i].role \in offered[i] /\ a \in users[i]
        BY <2>0, <4>2 DEF RolesInv, InvitesOffered
      <4>4. QED
        BY <2>0, <4>1, <4>2, <4>3, GivenNow
    <3>3. QED
      BY <3>1, <3>2
  <2>3. role \in NewGiven(a)
    BY <1>0, <2>0, <2>2, GivenGrows
  <2>4. QED
    BY <1>1, <2>1, <2>3 DEF TokensWereGiven, Given, NewGiven
<1>4. ASSUME NEW s \in temp, SetupComplete(s) PROVE TokensWereGiven'
  <2>1. s \in Temp /\ s.role \in offered[s.invite] /\ users \in [Invites -> SUBSET Admins]
    BY DEF RolesInv, TypeInv, TypeOK, SetupsOffered
  <2>2. s.who \in Admins /\ s.invite \in Invites
    BY <2>1 DEF Temp
  <2>3. s.who \in users'[s.invite] /\ offered' = offered
    BY <1>4, <2>1, <2>2 DEF SetupComplete
  <2>4. s.role \in NewGiven(s.who)
    BY <2>1, <2>2, <2>3, GivenNext
  <2>5. tokens' = tokens \cup {[who |-> s.who, role |-> s.role]}
    BY <1>4 DEF SetupComplete
  <2>6. QED
    BY <1>1, <2>4, <2>5 DEF TokensWereGiven, Given, NewGiven
<1>5. ASSUME NEW r \in Clerks, Staff(r) PROVE tokens' = tokens
  BY <1>5, Zenon DEF Staff, Begin, LoadRole, CommitRole, Lock, Unlock, CreateInvite,
                     CreateAdmin, DropInvite
<1>6. ASSUME NEW r \in Logins, Login(r) PROVE TokensWereGiven'
  BY <1>2, <1>3, <1>6 DEF Login, LoginLoad, WrongPassword, TotpRefused, RightPassword
<1>7. ASSUME \/ \E r \in Requests : Abandon(r)
             \/ \E i \in Invites, a \in Admins : SetupStart(i, a)
             \/ Time
             \/ UNCHANGED vars
      PROVE  tokens' \subseteq tokens
  BY <1>7 DEF Abandon, SetupStart, Time, LockExpires, EmergencyUnlock,
              TokenExpires, TempExpires, InviteExpires, vars
<1>8. QED
  BY <1>2, <1>4, <1>5, <1>6, <1>7 DEF Next

LEMMA GiversStep ==
  ASSUME RolesInv, [Next]_vars PROVE OnlySuperadminsGive'
<1>0. /\ HistoryGrows /\ TypeInv /\ givers \in SUBSET Admins
  BY HistoryStep DEF RolesInv, TypeInv, TypeOK
<1>1. ASSUME NEW a \in givers PROVE "superadmin" \in NewGiven(a)
  BY <1>0, GivenGrows DEF RolesInv, OnlySuperadminsGive
<1>2. ASSUME givers' = givers PROVE OnlySuperadminsGive'
  BY <1>1, <1>2 DEF OnlySuperadminsGive, Given, NewGiven
<1>3. ASSUME NEW r \in Clerks,
             CommitRole(r) \/ \E i \in Invites : CreateInvite(r, i) \/ CreateAdmin(r, i)
      PROVE  OnlySuperadminsGive'
  <2>1. r \in Requests /\ request[r].at \in Giving \cap (StaffOps \cup {"loaded"})
    BY <1>3 DEF Requests, CommitRole, CreateInvite, CreateAdmin, Giving, StaffOps
  <2>2. request[r].by \in Admins /\ "superadmin" \in Given(request[r].by)
    BY <2>1 DEF RolesInv, GiversRequests, TypeInv, RequestsKnow
  <2>3. "superadmin" \in NewGiven(request[r].by)
    BY <1>0, <2>2, GivenGrows
  <2>4. givers' = givers \cup {request[r].by}
    BY <1>3, Zenon DEF CommitRole, CreateInvite, CreateAdmin
  <2>5. QED
    BY <1>1, <2>3, <2>4 DEF OnlySuperadminsGive, Given, NewGiven
<1>4. ASSUME NEW r \in Clerks, Staff(r) PROVE OnlySuperadminsGive'
  <2>1. ASSUME \/ LoadRole(r) \/ Lock(r) \/ Unlock(r)
               \/ \E i \in Invites : DropInvite(r, i)
               \/ \E t \in tokens, op \in StaffOps, a \in Admins,
                     role \in Asked \cup {"viewer"} : Begin(r, t, op, a, role)
        PROVE  givers' = givers
    BY <2>1, Zenon DEF Begin, LoadRole, Lock, Unlock, DropInvite, history
  <2>2. QED
    BY <1>2, <1>3, <1>4, <2>1 DEF Staff
<1>5. ASSUME NEW r \in Logins, Login(r) PROVE givers' = givers
  BY <1>5 DEF Login, LoginLoad, WrongPassword, TotpRefused, RightPassword, LoginIssue,
              history
<1>6. ASSUME \/ \E r \in Requests : Abandon(r)
             \/ \E i \in Invites, a \in Admins : SetupStart(i, a)
             \/ \E s \in temp : SetupComplete(s)
             \/ Time
             \/ UNCHANGED vars
      PROVE  givers' = givers
  BY <1>6 DEF Abandon, SetupStart, SetupComplete, Time, LockExpires, EmergencyUnlock,
              TokenExpires, TempExpires, InviteExpires, vars, history
<1>7. QED
  BY <1>2, <1>4, <1>5, <1>6 DEF Next

LEMMA RolesInitially == Init => RolesInv
<1> SUFFICES ASSUME Init PROVE RolesInv
  OBVIOUS
<1>1. RowsGiven
  BY GivenNow, AccountsAssumption DEF Init, RowsGiven
<1>2. InvitesOffered /\ SetupsOffered /\ TokensWereGiven /\ OnlySuperadminsGive
  BY DEF Init, InvitesOffered, SetupsOffered, TokensWereGiven, OnlySuperadminsGive
<1>3. LoginsGiven /\ GiversRequests
  BY DEF Init, LoginsGiven, GiversRequests, Giving, Idle
<1>4. QED
  BY <1>1, <1>2, <1>3, TypeInit DEF RolesInv

LEMMA RolesInvariant == Spec => []RolesInv
<1>1. Init => RolesInv
  BY RolesInitially
<1>2. RolesInv /\ [Next]_vars => RolesInv'
  BY TypeStep, RowsStep, InvitesStep, SetupsStep, RequestsStep, TokensStep, GiversStep
     DEF RolesInv
<1>3. QED
  BY <1>1, <1>2, PTL DEF Spec

(* No token carries a role that was not given to its bearer.                 *)
THEOREM TokensGiven == Spec => []TokensWereGiven
<1>1. RolesInv => TokensWereGiven
  BY DEF RolesInv
<1>2. QED
  BY <1>1, RolesInvariant, PTL

(* Whoever gave a role had been made a superadmin.                           *)
THEOREM SuperadminsGive == Spec => []OnlySuperadminsGive
<1>1. RolesInv => OnlySuperadminsGive
  BY DEF RolesInv
<1>2. QED
  BY <1>1, RolesInvariant, PTL

-----------------------------------------------------------------------------
(* The promise *)

(* A set-up token is for an address its invite is for; a login is for an     *)
(* account.                                                                  *)
SetupsAddressed == \A s \in temp : invite[s.invite].email \in {NoOne, s.who}
LoginsKnown ==
  \A r \in Requests : request[r].at \in {"login", "issue"} =>
    admin[request[r].who].role # "absent"

BookInv == RolesInv /\ SetupsAddressed /\ LoginsKnown

(* Accounts stay, and an invite that was handed out keeps its address.       *)
BookGrows ==
  /\ \A a \in Admins : admin[a].role # "absent" => admin'[a].role # "absent"
  /\ \A i \in Invites : offered[i] # {} => invite'[i].email = invite[i].email

(* Nothing of the book changes but tokens that expire.                       *)
BookKept ==
  /\ \A a \in Admins : admin'[a].role = admin[a].role
  /\ \A i \in Invites : invite'[i].email = invite[i].email
  /\ UNCHANGED <<given, offered, users, givers>>
  /\ tokens' \subseteq tokens

(* One role is handed out by a superadmin's request.                         *)
BookGives(g, role) ==
  /\ "superadmin" \in Given(g) /\ givers' = givers \cup {g}
  /\ \A a \in Admins : \A x \in NewGiven(a) : x \in Given(a) \/ x = role
  /\ \A i \in Invites : offered'[i] \in {offered[i], offered[i] \cup {role}}
  /\ \A a \in Admins : admin[a].role = "absent" /\ admin'[a].role # "absent" =>
       role \in NewGiven(a)
  /\ BookGrows /\ HistoryGrows
  /\ UNCHANGED tokens

LEMMA LoginKeepsBook ==
  ASSUME TypeInv, NEW r \in Logins, Login(r), ~LoginIssue(r) PROVE BookKept
<1>0. admin \in [Admins -> Row]
  BY DEF TypeInv, TypeOK
<1>1. ASSUME WrongPassword(r) PROVE \A a \in Admins : admin'[a].role = admin[a].role
  <2>1. PICK lock, failed : admin' =
          [admin EXCEPT ![request[r].who].failed = failed, ![request[r].who].lock = lock]
    BY <1>1 DEF WrongPassword
  <2>2. QED
    BY <1>0, <2>1 DEF Row
<1>2. ASSUME RightPassword(r) PROVE \A a \in Admins : admin'[a].role = admin[a].role
  BY <1>0, <1>2 DEF RightPassword, Row
<1>3. QED
  BY <1>1, <1>2 DEF Login, LoginLoad, WrongPassword, TotpRefused, RightPassword,
                    BookKept, rows, history

LEMMA StaffKeepsBook ==
  ASSUME TypeInv, NEW r \in Clerks,
         \/ \E t \in tokens, op \in StaffOps, a \in Admins,
               role \in Asked \cup {"viewer"} : Begin(r, t, op, a, role)
         \/ LoadRole(r) \/ Lock(r) \/ Unlock(r)
         \/ \E i \in Invites : DropInvite(r, i)
  PROVE  BookKept
<1>0. admin \in [Admins -> Row] /\ invite \in [Invites -> Invite]
  BY DEF TypeInv, TypeOK
<1>1. CASE Lock(r) \/ Unlock(r)
  BY <1>0, <1>1 DEF Lock, Unlock, Opened, BookKept, Row
<1>2. CASE \E i \in Invites : DropInvite(r, i)
  BY <1>0, <1>2 DEF DropInvite, BookKept, Invite, history
<1>3. CASE \E t \in tokens, op \in StaffOps, a \in Admins,
               role \in Asked \cup {"viewer"} : Begin(r, t, op, a, role)
  BY <1>3 DEF Begin, BookKept, rows, history
<1>4. CASE LoadRole(r)
  BY <1>4 DEF LoadRole, BookKept, rows, history
<1>5. QED
  BY <1>1, <1>2, <1>3, <1>4

LEMMA OthersKeepBook ==
  ASSUME TypeInv,
         \/ \E r \in Requests : Abandon(r)
         \/ \E i \in Invites, a \in Admins : SetupStart(i, a)
         \/ Time
         \/ UNCHANGED vars
  PROVE  BookKept
<1>0. admin \in [Admins -> Row] /\ invite \in [Invites -> Invite]
  BY DEF TypeInv, TypeOK
<1>1. CASE Time
  <2>1. ASSUME NEW a \in Admins, LockExpires(a) PROVE BookKept
    BY <1>0, <2>1 DEF LockExpires, BookKept, Row, history
  <2>2. ASSUME NEW a \in Admins, EmergencyUnlock(a) PROVE BookKept
    BY <1>0, <2>2 DEF EmergencyUnlock, Opened, BookKept, Row
  <2>3. ASSUME NEW i \in Invites, InviteExpires(i) PROVE BookKept
    BY <1>0, <2>3 DEF InviteExpires, BookKept, Invite, history
  <2>4. ASSUME \/ \E t \in tokens : TokenExpires(t)
               \/ \E s \in temp : TempExpires(s)
        PROVE  BookKept
    BY <2>4 DEF TokenExpires, TempExpires, BookKept, rows, history
  <2>5. QED
    BY <1>1, <2>1, <2>2, <2>3, <2>4 DEF Time
<1>2. QED
  BY <1>1 DEF Abandon, SetupStart, BookKept, vars, rows, history

LEMMA GiverHolds ==
  ASSUME RolesInv, NEW r \in Clerks,
         request[r].at \in {"loaded", "invite", "create"}
  PROVE  /\ request[r].by \in Admins /\ request[r].who \in Admins
         /\ request[r].role \in Roles
         /\ "superadmin" \in Given(request[r].by)
BY DEF Requests, RolesInv, TypeInv, RequestsKnow, StaffOps, GiversRequests, Giving

LEMMA CommitGives ==
  ASSUME RolesInv, HistoryGrows, NEW r \in Clerks, CommitRole(r)
  PROVE  BookGives(request[r].by, request[r].role)
<1> DEFINE a == request[r].who
           role == request[r].role
           due == request[r].due
<1>0. /\ admin \in [Admins -> Row] /\ invite \in [Invites -> Invite]
      /\ given \in [Admins -> SUBSET Roles] /\ offered \in [Invites -> SUBSET Roles]
  BY DEF RolesInv, TypeInv, TypeOK
<1>1. a \in Admins /\ role \in Roles /\ "superadmin" \in Given(request[r].by)
  BY GiverHolds DEF CommitRole
<1>2. /\ \A i \in Invites : offered'[i] = IF i \in due THEN offered[i] \cup {role}
                                          ELSE offered[i]
      /\ \A b \in Admins : given'[b] \subseteq given[b] \cup {role}
      /\ users' = users /\ tokens' = tokens /\ givers' = givers \cup {request[r].by}
  BY <1>0 DEF CommitRole
<1>3. ASSUME NEW b \in Admins, NEW x \in NewGiven(b) PROVE x \in Given(b) \/ x = role
  <2>1. CASE x \in given'[b]
    BY <1>2, <2>1, GivenNow
  <2>2. ASSUME NEW j \in Invites, b \in users'[j], x \in offered'[j]
        PROVE  x \in Given(b) \/ x = role
    BY <1>2, <2>2, GivenNow
  <2>3. QED
    BY <1>3, <2>1, <2>2, GivenNext
<1>4. \A i \in Invites : invite'[i].email = invite[i].email
  <2>1. \A i \in Invites : invite'[i] = IF i \in due
          THEN [invite[i] EXCEPT !.role = role] ELSE invite[i]
    BY DEF CommitRole
  <2>2. QED
    BY <1>0, <2>1 DEF Invite
<1>5. ASSUME NEW b \in Admins
      PROVE  admin'[b].role = admin[b].role
             \/ (b = a /\ admin'[b].role = role /\ role \in given'[a])
  <2>1. admin' = [admin EXCEPT
          ![a].role = IF request[r].op = "teamRole" \/ request[r].same THEN @ ELSE role,
          ![a].lock = IF request[r].op = "delete" THEN "long" ELSE @]
    BY DEF CommitRole
  <2>2. b # a => admin'[b] = admin[b]
    BY <1>0, <2>1
  <2>3. admin'[a].role =
          IF request[r].op = "teamRole" \/ request[r].same THEN admin[a].role ELSE role
    BY <1>0, <1>1, <2>1 DEF Row
  <2>4. request[r].op # "teamRole" => role \in given'[a]
    BY <1>0, <1>1 DEF CommitRole
  <2>5. QED
    BY <2>2, <2>3, <2>4
<1>6. \A b \in Admins : admin[b].role # "absent" => admin'[b].role # "absent"
  BY <1>1, <1>5 DEF Roles
<1>7. ASSUME NEW b \in Admins, admin[b].role = "absent", admin'[b].role # "absent"
      PROVE  role \in NewGiven(b)
  BY <1>5, <1>7, GivenNext
<1>8. QED
  BY <1>1, <1>2, <1>3, <1>4, <1>6, <1>7 DEF BookGives, BookGrows

LEMMA CreateGives ==
  ASSUME RolesInv, HistoryGrows, NEW r \in Clerks, NEW i \in Invites,
         CreateInvite(r, i) \/ CreateAdmin(r, i)
  PROVE  BookGives(request[r].by, request[r].role)
<1> DEFINE a == request[r].who
           role == request[r].role
<1>0. /\ admin \in [Admins -> Row] /\ invite \in [Invites -> Invite]
      /\ given \in [Admins -> SUBSET Roles] /\ offered \in [Invites -> SUBSET Roles]
      /\ users \in [Invites -> SUBSET Admins]
  BY DEF RolesInv, TypeInv, TypeOK
<1>1. a \in Admins /\ role \in Roles /\ "superadmin" \in Given(request[r].by)
  BY GiverHolds DEF CreateInvite, CreateAdmin
<1>2. /\ offered[i] = {} /\ offered'[i] = {role}
      /\ \A j \in Invites \ {i} : offered'[j] = offered[j] /\ users'[j] = users[j]
      /\ \A b \in Admins : given'[b] \subseteq given[b] \cup {role}
      /\ tokens' = tokens /\ givers' = givers \cup {request[r].by}
  BY <1>0 DEF CreateInvite, CreateAdmin
<1>3. ASSUME NEW b \in Admins, NEW x \in NewGiven(b) PROVE x \in Given(b) \/ x = role
  <2>1. CASE x \in given'[b]
    BY <1>2, <2>1, GivenNow
  <2>2. ASSUME NEW j \in Invites, b \in users'[j], x \in offered'[j]
        PROVE  x \in Given(b) \/ x = role
    BY <1>2, <2>2, GivenNow
  <2>3. QED
    BY <1>3, <2>1, <2>2, GivenNext
<1>4. \A j \in Invites \ {i} : invite'[j] = invite[j]
  BY <1>0 DEF CreateInvite, CreateAdmin
<1>5. ASSUME NEW b \in Admins
      PROVE  admin'[b].role = admin[b].role
             \/ (b = a /\ admin'[b].role = role /\ role \in given'[a])
  <2>1. CASE CreateInvite(r, i)
    BY <2>1 DEF CreateInvite
  <2>2. CASE CreateAdmin(r, i)
    BY <1>0, <1>1, <2>2 DEF CreateAdmin, Row
  <2>3. QED
    BY <2>1, <2>2
<1>6. \A b \in Admins : admin[b].role # "absent" => admin'[b].role # "absent"
  BY <1>1, <1>5 DEF Roles
<1>7. ASSUME NEW b \in Admins, admin[b].role = "absent", admin'[b].role # "absent"
      PROVE  role \in NewGiven(b)
  BY <1>5, <1>7, GivenNext
<1>8. \A j \in Invites : offered'[j] \in {offered[j], offered[j] \cup {role}}
  BY <1>2
<1>9. QED
  BY <1>1, <1>2, <1>3, <1>4, <1>6, <1>7, <1>8 DEF BookGives, BookGrows

(* Set-up tokens and logins stay with their addresses.                       *)
LEMMA BookGrowsStep == RolesInv /\ [Next]_vars => BookGrows
<1> SUFFICES ASSUME RolesInv, [Next]_vars PROVE BookGrows
  OBVIOUS
<1>0. TypeInv /\ HistoryGrows /\ admin \in [Admins -> Row] /\ invite \in [Invites -> Invite]
  BY HistoryStep DEF RolesInv, TypeInv, TypeOK
<1>1. ASSUME BookKept PROVE BookGrows
  BY <1>1 DEF BookKept, BookGrows
<1>2. ASSUME NEW g, NEW role, BookGives(g, role) PROVE BookGrows
  BY <1>2 DEF BookGives
<1>3. ASSUME NEW r \in Logins, Login(r) PROVE BookGrows
  <2>1. CASE LoginIssue(r)
    BY <2>1 DEF LoginIssue, BookGrows, rows
  <2>2. CASE ~LoginIssue(r)
    BY <1>0, <1>1, <1>3, <2>2, LoginKeepsBook
  <2>3. QED
    BY <2>1, <2>2
<1>4. ASSUME NEW r \in Clerks, Staff(r) PROVE BookGrows
  BY <1>0, <1>1, <1>2, <1>4, StaffKeepsBook, CommitGives, CreateGives DEF Staff
<1>5. ASSUME NEW s \in temp, SetupComplete(s) PROVE BookGrows
  <2>1. s.who \in Admins /\ s.invite \in Invites /\ s.role \in Roles
    BY DEF RolesInv, TypeInv, TypeOK, Temp
  <2>2. \A a \in Admins : admin[a].role # "absent" => admin'[a].role # "absent"
    BY <1>0, <1>5, <2>1 DEF SetupComplete, Roles, Row
  <2>3. \A i \in Invites : invite'[i].email = invite[i].email
    BY <1>0, <1>5, <2>1 DEF SetupComplete, Invite
  <2>4. QED
    BY <2>2, <2>3 DEF BookGrows
<1>6. QED
  BY <1>0, <1>1, <1>3, <1>4, <1>5, OthersKeepBook DEF Next

LEMMA SetupsAddressedStep ==
  ASSUME BookInv, [Next]_vars PROVE SetupsAddressed'
<1>0. BookGrows /\ temp \in SUBSET Temp
  BY BookGrowsStep DEF BookInv, RolesInv, TypeInv, TypeOK
<1>1. ASSUME NEW s \in temp PROVE invite'[s.invite].email \in {NoOne, s.who}
  <2>1. s.invite \in Invites /\ offered[s.invite] # {}
    BY <1>0 DEF BookInv, RolesInv, SetupsOffered, Temp
  <2>2. QED
    BY <1>0, <2>1 DEF BookInv, SetupsAddressed, BookGrows
<1>2. ASSUME temp' \subseteq temp PROVE SetupsAddressed'
  BY <1>1, <1>2 DEF SetupsAddressed
<1>3. ASSUME NEW i \in Invites, NEW a \in Admins, SetupStart(i, a) PROVE SetupsAddressed'
  <2>1. /\ temp' = temp \cup {[who |-> a, invite |-> i, role |-> invite[i].role]}
        /\ invite' = invite /\ invite[i].email \in {NoOne, a}
    BY <1>3 DEF SetupStart, rows
  <2>2. QED
    BY <1>1, <2>1 DEF SetupsAddressed
<1>4. ASSUME NEW r \in Clerks, Staff(r) PROVE temp' = temp
  BY <1>4, Zenon DEF Staff, Begin, LoadRole, CommitRole, Lock, Unlock, CreateInvite,
                     CreateAdmin, DropInvite
<1>5. ASSUME \/ \E r \in Logins : Login(r)
             \/ \E r \in Requests : Abandon(r)
             \/ \E s \in temp : SetupComplete(s)
             \/ Time
             \/ UNCHANGED vars
      PROVE  temp' \subseteq temp
  BY <1>5 DEF Login, LoginLoad, WrongPassword, TotpRefused, RightPassword, LoginIssue,
              Abandon, SetupComplete, Time, LockExpires, EmergencyUnlock, TokenExpires,
              TempExpires, InviteExpires, vars
<1>6. QED
  BY <1>2, <1>3, <1>4, <1>5 DEF Next

LEMMA LoginsKnownStep ==
  ASSUME BookInv, [Next]_vars PROVE LoginsKnown'
<1>0. BookGrows /\ TypeInv /\ TypeInv' /\ request \in [Requests -> Request]
  BY BookGrowsStep, TypeStep DEF BookInv, RolesInv, TypeInv, TypeOK
<1>1. ASSUME NEW q \in Requests, request'[q].at \in {"login", "issue"},
             request'[q].who = request[q].who, request[q].at \in {"login", "issue"}
      PROVE  admin'[request'[q].who].role # "absent"
  <2>1. request[q].who \in Admins
    BY <1>0, <1>1 DEF TypeInv, RequestsKnow
  <2>2. QED
    BY <1>0, <1>1, <2>1 DEF BookInv, LoginsKnown, BookGrows
<1>2. ASSUME \A q \in Requests :
               request'[q] = request[q] \/ request'[q].at \notin {"login", "issue"}
      PROVE  LoginsKnown'
  BY <1>1, <1>2 DEF LoginsKnown
<1>3. ASSUME NEW r \in Requests, request' = [request EXCEPT ![r] = Idle]
      PROVE  LoginsKnown'
  BY <1>0, <1>2, <1>3 DEF Idle
<1>4. ASSUME NEW r \in Logins, Login(r) PROVE LoginsKnown'
  <2>0. r \in Requests
    BY DEF Requests
  <2>1. ASSUME NEW a \in Admins, LoginLoad(r, a) PROVE LoginsKnown'
    <3>1. request'[r].who = a /\ \A q \in Requests \ {r} : request'[q] = request[q]
      BY <1>0, <2>0, <2>1 DEF LoginLoad, Idle
    <3>2. admin'[a].role # "absent"
      BY <2>1 DEF LoginLoad, MayTry, rows
    <3>3. QED
      BY <1>1, <3>1, <3>2 DEF LoginsKnown
  <2>2. ASSUME RightPassword(r) PROVE LoginsKnown'
    <3>1. /\ request[r].at = "login" /\ request'[r].who = request[r].who
          /\ \A q \in Requests \ {r} : request'[q] = request[q]
      BY <1>0, <2>0, <2>2 DEF RightPassword, Request
    <3>2. QED
      BY <1>1, <3>1 DEF LoginsKnown
  <2>3. QED
    BY <1>3, <1>4, <2>0, <2>1, <2>2 DEF Login, WrongPassword, TotpRefused, LoginIssue
<1>5. ASSUME NEW r \in Clerks, Staff(r) PROVE LoginsKnown'
  <2>0. r \in Requests
    BY DEF Requests
  <2>1. ASSUME NEW t \in tokens, NEW op \in StaffOps, NEW a \in Admins,
               NEW role \in Asked \cup {"viewer"}, Begin(r, t, op, a, role)
        PROVE  LoginsKnown'
    <3>1. request'[r].at = op /\ \A q \in Requests \ {r} : request'[q] = request[q]
      BY <1>0, <2>0, <2>1 DEF Begin, Idle
    <3>2. QED
      BY <1>2, <3>1 DEF StaffOps
  <2>2. ASSUME LoadRole(r) PROVE LoginsKnown'
    <3>1. request'[r].at = "loaded" /\ \A q \in Requests \ {r} : request'[q] = request[q]
      BY <1>0, <2>0, <2>2 DEF LoadRole, Request
    <3>2. QED
      BY <1>2, <3>1
  <2>3. ASSUME \/ CommitRole(r) \/ Lock(r) \/ Unlock(r)
               \/ \E i \in Invites : CreateInvite(r, i) \/ CreateAdmin(r, i)
                                      \/ DropInvite(r, i)
        PROVE  request' = [request EXCEPT ![r] = Idle]
    BY <2>3, Zenon DEF CommitRole, Lock, Unlock, CreateInvite, CreateAdmin, DropInvite
  <2>4. QED
    BY <1>3, <1>5, <2>0, <2>1, <2>2, <2>3 DEF Staff
<1>6. ASSUME \/ \E i \in Invites, a \in Admins : SetupStart(i, a)
             \/ \E s \in temp : SetupComplete(s)
             \/ Time
             \/ UNCHANGED vars
      PROVE  LoginsKnown'
  <2>1. request' = request
    BY <1>6 DEF SetupStart, SetupComplete, Time, LockExpires, EmergencyUnlock,
                TokenExpires, TempExpires, InviteExpires, vars
  <2>2. QED
    BY <1>2, <2>1
<1>7. QED
  BY <1>3, <1>4, <1>5, <1>6 DEF Next, Abandon

(* The four ways the book changes are the actions of the promise.            *)
LEMMA KeptIsLogOut ==
  ASSUME BookKept PROVE RoleBook!LogOut
<1>1. {a \in Admins : admin'[a].role # "absent"} = {a \in Admins : admin[a].role # "absent"}
  BY DEF BookKept
<1>2. [a \in Admins |-> Given(a)]' = [a \in Admins |-> Given(a)]
  BY DEF BookKept, Given
<1>3. [i \in Invites |-> invite'[i].email] = [i \in Invites |-> invite[i].email]
  BY DEF BookKept
<1>4. QED
  BY <1>1, <1>2, <1>3 DEF BookKept, RoleBook!LogOut

LEMMA GivesIsGive ==
  ASSUME NEW g \in Admins, NEW role \in Roles, BookGives(g, role)
  PROVE  RoleBook!Give(g, role)
<1> DEFINE holds == [a \in Admins |-> Given(a)]
           newHolds == [a \in Admins |-> NewGiven(a)]
           accounts == {a \in Admins : admin[a].role # "absent"}
           newAccounts == {a \in Admins : admin'[a].role # "absent"}
<1>1. ASSUME NEW a \in Admins PROVE newHolds[a] \in {holds[a], holds[a] \cup {role}}
  <2>1. \A x : x \in NewGiven(a) => x \in Given(a) \/ x = role
    BY DEF BookGives
  <2>2. \A x : x \in Given(a) => x \in NewGiven(a)
    BY GivenGrows DEF BookGives
  <2>3. NewGiven(a) = Given(a) \/ NewGiven(a) = Given(a) \cup {role}
    BY <2>1, <2>2
  <2>4. QED
    BY <2>3
<1>2. accounts \subseteq newAccounts
  BY DEF BookGives, BookGrows
<1>3. \A a \in newAccounts \ accounts : role \in newHolds[a]
  BY DEF BookGives
<1>4. \A i \in Invites : offered[i] # {} =>
        [j \in Invites |-> invite'[j].email][i] = [j \in Invites |-> invite[j].email][i]
  BY DEF BookGives, BookGrows
<1>5. "superadmin" \in holds[g]
  BY DEF BookGives
<1>6. holds' = newHolds
  BY NewGivenIs
<1>7. QED
  BY <1>1, <1>2, <1>3, <1>4, <1>5, <1>6 DEF BookGives, RoleBook!Give

LEMMA IssueIsLogIn ==
  ASSUME BookInv, TokensWereGiven', NEW r \in Logins, LoginIssue(r)
  PROVE  RoleBook!Next
<1> DEFINE a == request[r].who
           holds == [b \in Admins |-> Given(b)]
<1>1. r \in Requests /\ a \in Admins /\ admin[a].role # "absent"
  BY DEF Requests, LoginIssue, BookInv, LoginsKnown, RolesInv, TypeInv, RequestsKnow
<1>2. PICK role : tokens' = tokens \cup {[who |-> a, role |-> role]}
  BY DEF LoginIssue
<1>3. UNCHANGED <<admin, invite, given, offered, users, givers>>
  BY DEF LoginIssue, rows, history
<1>4. role \in holds[a]
  <2>1. [who |-> a, role |-> role] \in tokens'
    BY <1>2
  <2>2. role \in NewGiven(a)
    BY <2>1 DEF TokensWereGiven, Given, NewGiven
  <2>3. QED
    BY <1>1, <1>3, <2>2 DEF Given, NewGiven
<1>5. RoleBook!LogIn(a, role)
  BY <1>1, <1>2, <1>3, <1>4 DEF RoleBook!LogIn, Given
<1>6. QED
  BY <1>1, <1>4, <1>5 DEF RoleBook!Next

LEMMA SetupIsRedeem ==
  ASSUME BookInv, NEW s \in temp, SetupComplete(s) PROVE RoleBook!Next
<1> DEFINE a == s.who
           i == s.invite
           holds == [b \in Admins |-> Given(b)]
           newHolds == [b \in Admins |-> NewGiven(b)]
<1>0. /\ a \in Admins /\ i \in Invites /\ s.role \in Roles
      /\ admin \in [Admins -> Row] /\ invite \in [Invites -> Invite]
      /\ users \in [Invites -> SUBSET Admins]
  BY DEF BookInv, RolesInv, TypeInv, TypeOK, Temp
<1>1. s.role \in offered[i] /\ invite[i].email \in {NoOne, a} /\ admin[a].role = "absent"
  BY DEF BookInv, RolesInv, SetupsOffered, SetupsAddressed, SetupComplete
<1>2. {b \in Admins : admin'[b].role # "absent"} =
        {b \in Admins : admin[b].role # "absent"} \cup {a}
  <2>1. admin'[a].role # "absent" /\ \A b \in Admins \ {a} : admin'[b] = admin[b]
    BY <1>0 DEF SetupComplete, Row, Roles
  <2>2. QED
    BY <1>0, <2>1
<1>3. [j \in Invites |-> invite'[j].email] = [j \in Invites |-> invite[j].email]
  <2>1. \A j \in Invites : invite'[j].email = invite[j].email
    BY <1>0 DEF SetupComplete, Invite
  <2>2. QED
    BY <2>1
<1>4. /\ tokens' = tokens \cup {[who |-> a, role |-> s.role]}
      /\ given' = given /\ offered' = offered /\ givers' = givers
  BY DEF SetupComplete
<1>5. \A j \in Invites : users'[j] = IF j = i THEN users[j] \cup {a} ELSE users[j]
  BY <1>0 DEF SetupComplete
<1>6. newHolds = [holds EXCEPT ![a] = @ \cup offered[i]]
  <2>1. ASSUME NEW b \in Admins, b # a PROVE NewGiven(b) = Given(b)
    <3>1. \A j \in Invites : b \in users'[j] <=> b \in users[j]
      BY <1>5, <2>1
    <3>2. {j \in Invites : b \in users'[j]} = {j \in Invites : b \in users[j]}
      BY <3>1
    <3>3. QED
      BY <1>4, <3>2 DEF Given, NewGiven
  <2>2. NewGiven(a) = Given(a) \cup offered[i]
    <3>1. ASSUME NEW x \in NewGiven(a) PROVE x \in Given(a) \cup offered[i]
      BY <1>0, <1>4, <1>5, <3>1, GivenNow, GivenNext
    <3>2. ASSUME NEW x \in Given(a) PROVE x \in NewGiven(a)
      BY <1>0, <1>4, <1>5, <3>2, GivenNow, GivenNext
    <3>3. ASSUME NEW x \in offered[i] PROVE x \in NewGiven(a)
      <4>1. a \in users'[i] /\ x \in offered'[i]
        BY <1>0, <1>4, <1>5, <3>3
      <4>2. QED
        BY <1>0, <4>1, GivenNext
    <3>4. QED
      BY <3>1, <3>2, <3>3
  <2>3. QED
    BY <1>0, <2>1, <2>2
<1>7. holds' = newHolds
  BY NewGivenIs
<1>8. RoleBook!Redeem(a, i, s.role)
  BY <1>0, <1>1, <1>2, <1>3, <1>4, <1>6, <1>7 DEF RoleBook!Redeem
<1>9. QED
  BY <1>0, <1>1, <1>8 DEF RoleBook!Next

LEMMA BookStep ==
  ASSUME BookInv, TokensWereGiven', [Next]_vars PROVE RoleBook!Next
<1>0. RolesInv /\ TypeInv /\ HistoryGrows
  BY HistoryStep DEF BookInv, RolesInv
<1>1. ASSUME BookKept PROVE RoleBook!Next
  BY <1>1, KeptIsLogOut DEF RoleBook!Next
<1>2. ASSUME NEW r \in Logins, Login(r) PROVE RoleBook!Next
  BY <1>0, <1>1, <1>2, LoginKeepsBook, IssueIsLogIn
<1>3. ASSUME NEW r \in Clerks, Staff(r) PROVE RoleBook!Next
  <2>1. ASSUME CommitRole(r) \/ \E i \in Invites : CreateInvite(r, i) \/ CreateAdmin(r, i)
        PROVE  RoleBook!Next
    <3>1. request[r].at \in {"loaded", "invite", "create"}
      BY <2>1 DEF CommitRole, CreateInvite, CreateAdmin
    <3>2. request[r].by \in Admins /\ request[r].role \in Roles
      BY <1>0, <3>1, GiverHolds
    <3>3. BookGives(request[r].by, request[r].role)
      BY <1>0, <2>1, CommitGives, CreateGives
    <3>4. QED
      BY <3>2, <3>3, GivesIsGive DEF RoleBook!Next, Roles
  <2>2. QED
    BY <1>0, <1>1, <1>3, <2>1, StaffKeepsBook DEF Staff
<1>4. QED
  BY <1>0, <1>1, <1>2, <1>3, OthersKeepBook, SetupIsRedeem DEF Next

LEMMA BookInitially == Init => RoleBook!Init /\ BookInv
<1> SUFFICES ASSUME Init PROVE RoleBook!Init /\ BookInv
  OBVIOUS
<1>1. {a \in Admins : admin[a].role # "absent"} = {Founder}
  BY AccountsAssumption DEF Init
<1>2. [a \in Admins |-> Given(a)] =
        [a \in Admins |-> IF a = Founder THEN {"superadmin"} ELSE {}]
  BY DEF Init, Given
<1>3. [i \in Invites |-> invite[i].email] = [i \in Invites |-> NoOne]
  BY DEF Init
<1>4. RoleBook!Init
  BY <1>1, <1>2, <1>3 DEF Init, RoleBook!Init
<1>5. SetupsAddressed /\ LoginsKnown
  BY DEF Init, SetupsAddressed, LoginsKnown, Idle
<1>6. QED
  BY <1>4, <1>5, RolesInitially DEF BookInv

(* Every behaviour of the back office is one of RolePromise: each role an    *)
(* address holds, an invite carries or a token shows goes back to a          *)
(* superadmin who handed it out, a personal invite is redeemed by nobody     *)
(* else, and accounts come from invites or from a superadmin.                *)
THEOREM RolesKeepThePromise == Spec => KeepsRolePromise
<1>1. Init => RoleBook!Init /\ BookInv
  BY BookInitially
<1>2. BookInv /\ TokensWereGiven' /\ [Next]_vars => [RoleBook!Next]_(RoleBook!roles)
  BY BookStep
<1>3. BookInv /\ RolesInv' /\ [Next]_vars => BookInv'
  BY SetupsAddressedStep, LoginsKnownStep DEF BookInv
<1>4. RolesInv => TokensWereGiven
  BY DEF RolesInv
<1>5. QED
  BY <1>1, <1>2, <1>3, <1>4, RolesInvariant, PTL
     DEF Spec, KeepsRolePromise, RoleBook!Spec
=============================================================================
