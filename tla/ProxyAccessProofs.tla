------------------------- MODULE ProxyAccessProofs -------------------------
(***************************************************************************)
(* Proofs about ProxyAccess for any number of credentials and requests and *)
(* every TTL, refresh time and rotation limit.                             *)
(***************************************************************************)
EXTENDS ProxyAccess, TLAPS

(* A request under way is about a row that exists. *)
RequestsHaveRows ==
  \A r \in Requests :
    request[r].at # "idle" =>
      request[r].cred \in Creds /\ cred[request[r].cred].status # "absent"

(* A row that is minted and not attached yet belongs to one request, and if  *)
(* it was revoked since, that is on record.                                  *)
MintedIsOwned ==
  \A r \in Requests :
    request[r].at = "attach" =>
      /\ request[r].new \in Creds
      /\ cred[request[r].new].status # "absent"
      /\ cred[request[r].new].status = "revoked" => request[r].new \in overtaken
      /\ attached # request[r].new
      /\ \A q \in Requests \ {r} :
           request[q].at = "attach" => request[q].new # request[r].new

AttachedExists == cred[attached].status # "absent"

AccessInv ==
  /\ TypeOK
  /\ RequestsHaveRows
  /\ MintedIsOwned
  /\ AttachedExists
  /\ LostAccessIsAccountedFor

(* What a rotation has loaded was true of the row, and is not ahead of it. *)
LoadedCounts ==
  \A r \in Requests :
    request[r].at = "rotate" =>
      /\ request[r].count < MaxRotations
      /\ request[r].count <= rotated[request[r].cred]

CountInv ==
  /\ TypeOK
  /\ RequestsHaveRows
  /\ LoadedCounts
  /\ CountedRotationsHappened

(* Each row of S was valid at time t or has been since. *)
SeenAt(S, t) == \A c \in S : c \in Valid \/ (ended[c] # NotYet /\ t <= ended[c])

(* What the relay holds was read at the time its refresh recorded, and its   *)
(* TTL runs from at most RefreshMax later.                                   *)
RelayInv ==
  /\ TypeOK
  /\ refresh.phase # "idle" =>
       refresh.readAt <= now /\ now <= refresh.readAt + RefreshMax
  /\ refresh.phase = "read" => SeenAt(refresh.rows, refresh.readAt)
  /\ refresh.phase = "closing" => SeenAt(cache, refresh.readAt)
  /\ SeenAt(cache, expiresAt - TTL - RefreshMax)
  /\ cache # {} => expiresAt <= now + TTL

-----------------------------------------------------------------------------
LEMMA AccessInit == Init => TypeOK /\ AccessInv /\ CountInv /\ RelayInv
<1> SUFFICES ASSUME Init PROVE TypeOK /\ AccessInv /\ CountInv /\ RelayInv
  OBVIOUS
<1> USE AccessAssumption DEF Init, Idle, NoRefresh, NotYet
<1>1. TypeOK
  BY DEF TypeOK, Row, RequestState, RefreshState
<1>2. RequestsHaveRows /\ MintedIsOwned /\ LoadedCounts
  BY DEF RequestsHaveRows, MintedIsOwned, LoadedCounts
<1>3. AttachedExists /\ LostAccessIsAccountedFor /\ CountedRotationsHappened
  BY DEF AttachedExists, LostAccessIsAccountedFor, CountedRotationsHappened
<1>4. RelayInv
  BY <1>1 DEF RelayInv, SeenAt
<1>5. QED
  BY <1>1, <1>2, <1>3, <1>4 DEF AccessInv, CountInv

(* The commits that only a request with a row can make. *)
LEMMA RetireType ==
  ASSUME TypeOK, NEW c \in Creds, Retire(c)
  PROVE  ended' \in [Creds -> Nat \cup {NotYet}]
BY DEF TypeOK, Retire

LEMMA DoneType ==
  ASSUME TypeOK, NEW r \in Requests, Done(r)
  PROVE  request' \in [Requests -> RequestState]
BY DEF TypeOK, Done, Idle, RequestState

(* Every step keeps the types. *)
LEMMA AccessType ==
  ASSUME TypeOK, RequestsHaveRows, MintedIsOwned, [Next]_vars
  PROVE  TypeOK'
<1> USE AccessAssumption
<1>1. ASSUME NEW r \in Requests, NEW c \in Creds, RotateLoad(r, c) PROVE TypeOK'
  BY <1>1 DEF RotateLoad, TypeOK, Row, RequestState, Idle, relay
<1>2. ASSUME NEW r \in Requests, RotateCommit(r) PROVE TypeOK'
  <2> DEFINE c == request[r].cred
  <2>1. c \in Creds
    BY <1>2 DEF RotateCommit, RequestsHaveRows
  <2>2. cred' \in [Creds -> Row]
    <3>1. request[r].count + 1 \in Nat
      BY DEF TypeOK, RequestState
    <3>2. QED
      BY <1>2, <2>1, <3>1 DEF RotateCommit, TypeOK, Row
  <2>3. ended' \in [Creds -> Nat \cup {NotYet}] /\ request' \in [Requests -> RequestState]
    BY <1>2, <2>1, RetireType, DoneType DEF RotateCommit
  <2>4. QED
    BY <1>2, <2>1, <2>2, <2>3 DEF RotateCommit, TypeOK, relay
<1>3. ASSUME NEW r \in Requests, NEW c \in Creds, PasswordLoad(r, c) PROVE TypeOK'
  BY <1>3 DEF PasswordLoad, TypeOK, Row, RequestState, Idle, relay
<1>4. ASSUME NEW r \in Requests, PasswordCommit(r) PROVE TypeOK'
  <2>1. request[r].cred \in Creds
    BY <1>4 DEF PasswordCommit, RequestsHaveRows
  <2>2. cred' \in [Creds -> Row]
    BY <1>4, <2>1 DEF PasswordCommit, TypeOK, Row
  <2>3. ended' \in [Creds -> Nat \cup {NotYet}] /\ request' \in [Requests -> RequestState]
    BY <1>4, <2>1, RetireType, DoneType DEF PasswordCommit
  <2>4. QED
    BY <1>4, <2>2, <2>3 DEF PasswordCommit, TypeOK, relay
<1>5. ASSUME NEW r \in Requests, NEW c \in Creds, ReplaceLoad(r, c) PROVE TypeOK'
  BY <1>5 DEF ReplaceLoad, TypeOK, RequestState, Idle, relay
<1>6. ASSUME NEW r \in Requests, Revoke(r) PROVE TypeOK'
  <2>1. request[r].cred \in Creds
    BY <1>6 DEF Revoke, RequestsHaveRows
  <2>2. cred' \in [Creds -> Row]
    BY <1>6, <2>1 DEF Revoke, TypeOK, Row
  <2>3. ended' \in [Creds -> Nat \cup {NotYet}]
    BY <1>6, <2>1, RetireType DEF Revoke
  <2>4. request' \in [Requests -> RequestState]
    BY <1>6 DEF Revoke, TypeOK, RequestState
  <2>5. overtaken' \in SUBSET Creds
    BY <1>6, <2>1 DEF Revoke, TypeOK
  <2>6. QED
    BY <1>6, <2>2, <2>3, <2>4, <2>5 DEF Revoke, TypeOK, relay
<1>7. ASSUME NEW r \in Requests, Mint(r) PROVE TypeOK'
  <2>1. PICK c \in Creds :
          /\ cred' = [cred EXCEPT ![c] =
               [status |-> "active", cipher |-> TRUE, count |-> 0]]
          /\ request' = [request EXCEPT ![r].at = "attach", ![r].new = c]
    BY <1>7 DEF Mint
  <2>2. cred' \in [Creds -> Row]
    BY <2>1 DEF TypeOK, Row
  <2>3. request' \in [Requests -> RequestState]
    <3>1. request \in [Requests -> RequestState]
      BY DEF TypeOK
    <3> HIDE AccessAssumption DEF TypeOK
    <3>2. QED
      BY <2>1, <3>1 DEF RequestState
  <2>4. QED
    BY <1>7, <2>2, <2>3 DEF Mint, TypeOK, relay
<1>8. ASSUME NEW r \in Requests, Attach(r) PROVE TypeOK'
  BY <1>8, DoneType DEF Attach, TypeOK, MintedIsOwned, relay
<1>9. ASSUME NEW r \in Requests, RequestFails(r) PROVE TypeOK'
  <2>1. request[r].cred \in Creds
    BY <1>9 DEF RequestFails, RequestsHaveRows
  <2>2. dropped' \in SUBSET Creds
    BY <1>9, <2>1 DEF RequestFails, TypeOK
  <2>3. request' \in [Requests -> RequestState]
    BY <1>9, DoneType DEF RequestFails
  <2>4. QED
    BY <1>9, <2>2, <2>3 DEF RequestFails, TypeOK, relay
<1>10. CASE RelayStep
  <2>1. ASSUME NEW by \in {"loop", "verify"}, RefreshRead(by) PROVE TypeOK'
    BY <2>1 DEF RefreshRead, TypeOK, RefreshState, Valid, api
  <2>2. CASE RefreshInstall
    <3>1. refresh' = [phase |-> "closing", by |-> refresh.by, rows |-> {},
                      readAt |-> refresh.readAt]
      BY <2>2 DEF RefreshInstall, TypeOK, RefreshState
    <3>2. refresh' \in RefreshState /\ cache' \in SUBSET Creds /\ expiresAt' \in Int
      BY <2>2, <3>1 DEF RefreshInstall, TypeOK, RefreshState
    <3>3. QED
      BY <2>2, <3>2 DEF RefreshInstall, TypeOK, api
  <2>3. CASE RefreshEnd
    BY <2>3 DEF RefreshEnd, TypeOK, RefreshState, NoRefresh, api
  <2>4. CASE RelayRestart
    BY <2>4 DEF RelayRestart, TypeOK, RefreshState, NoRefresh, api
  <2>5. QED
    BY <1>10, <2>1, <2>2, <2>3, <2>4 DEF RelayStep
<1>11. CASE Tick
  BY <1>11 DEF Tick, TypeOK, api, relay
<1>12. CASE UNCHANGED vars
  BY <1>12 DEF TypeOK, vars
<1>13. QED
  BY <1>1, <1>2, <1>3, <1>4, <1>5, <1>6, <1>7, <1>8, <1>9, <1>10, <1>11, <1>12
     DEF Next, RequestStep

-----------------------------------------------------------------------------
(* No step takes a row out of the table. *)
LEMMA RowsStay ==
  ASSUME TypeOK, RequestsHaveRows, [Next]_vars, NEW c \in Creds
  PROVE  cred[c].status # "absent" => cred'[c].status # "absent"
<1>1. ASSUME NEW r \in Requests, RequestStep(r), cred[c].status # "absent"
      PROVE  cred'[c].status # "absent"
  <2>1. CASE RotateCommit(r)
    BY <1>1, <2>1 DEF RotateCommit, TypeOK, Row
  <2>2. CASE PasswordCommit(r)
    BY <1>1, <2>2 DEF PasswordCommit, TypeOK, Row
  <2>3. CASE Revoke(r)
    BY <1>1, <2>3 DEF Revoke, TypeOK, Row
  <2>4. CASE Mint(r)
    BY <1>1, <2>4 DEF Mint, Present, TypeOK, Row
  <2>5. CASE UNCHANGED cred
    BY <1>1, <2>5
  <2>6. QED
    BY <1>1, <2>1, <2>2, <2>3, <2>4, <2>5
       DEF RequestStep, RotateLoad, PasswordLoad, ReplaceLoad, Attach, RequestFails
<1>2. CASE RelayStep \/ Tick \/ UNCHANGED vars
  BY <1>2 DEF RelayStep, RefreshRead, RefreshInstall, RefreshEnd, RelayRestart, Tick,
              vars, api
<1>3. QED
  BY <1>1, <1>2 DEF Next

(* A request takes up rows that exist, and keeps them. *)
LEMMA RequestsKeepRows ==
  ASSUME TypeOK, RequestsHaveRows, AttachedExists, [Next]_vars
  PROVE  RequestsHaveRows'
<1> SUFFICES ASSUME NEW q \in Requests, request'[q].at # "idle"
             PROVE  /\ request'[q].cred \in Creds
                    /\ cred'[request'[q].cred].status # "absent"
  BY DEF RequestsHaveRows
<1>1. \/ request'[q].cred = request[q].cred /\ request[q].at # "idle"
      \/ request'[q].cred \in Creds /\ cred[request'[q].cred].status # "absent"
  <2>1. ASSUME NEW r \in Requests, RequestStep(r)
        PROVE  \/ request'[q].cred = request[q].cred /\ request[q].at # "idle"
               \/ /\ request'[q].cred \in Creds
                  /\ cred[request'[q].cred].status # "absent"
    <3>1. ASSUME NEW c \in Creds,
                 RotateLoad(r, c) \/ PasswordLoad(r, c) \/ ReplaceLoad(r, c)
          PROVE  \/ request'[q].cred = request[q].cred /\ request[q].at # "idle"
                 \/ /\ request'[q].cred \in Creds
                    /\ cred[request'[q].cred].status # "absent"
      BY <3>1 DEF RotateLoad, PasswordLoad, ReplaceLoad, Present, Active, TypeOK, Idle
    <3>2. CASE RotateCommit(r) \/ PasswordCommit(r) \/ Attach(r) \/ RequestFails(r)
      BY <3>2 DEF RotateCommit, PasswordCommit, Attach, RequestFails, Done, Idle, TypeOK
    <3>3. CASE Revoke(r)
      BY <3>3 DEF Revoke, TypeOK, RequestState
    <3>4. CASE Mint(r)
      BY <3>4 DEF Mint, TypeOK, RequestState
    <3>5. QED
      BY <2>1, <3>1, <3>2, <3>3, <3>4 DEF RequestStep
  <2>2. CASE UNCHANGED request
    BY <2>2
  <2>3. QED
    BY <2>1, <2>2 DEF Next, RelayStep, RefreshRead, RefreshInstall, RefreshEnd,
                      RelayRestart, Tick, vars, api
<1>2. request'[q].cred \in Creds /\ cred[request'[q].cred].status # "absent"
  BY <1>1 DEF RequestsHaveRows
<1>3. QED
  BY <1>2, RowsStay

(* Only Attach changes what the order points at. *)
LEMMA AttachedMoves ==
  ASSUME [Next]_vars
  PROVE  attached' = attached \/ \E r \in Requests : Attach(r)
BY DEF Next, RequestStep, RotateLoad, PasswordLoad, RotateCommit, PasswordCommit,
       ReplaceLoad, Revoke, Mint, RequestFails, RelayStep, RefreshRead, RefreshInstall,
       RefreshEnd, RelayRestart, Tick, vars, api

(* The commits of the rotation routes leave every status alone. *)
LEMMA CommitsKeepStatus ==
  ASSUME TypeOK, NEW r \in Requests, RotateCommit(r) \/ PasswordCommit(r)
  PROVE  \A c \in Creds : cred'[c].status = cred[c].status
<1>1. CASE RotateCommit(r)
  BY <1>1 DEF RotateCommit, TypeOK, Row
<1>2. CASE PasswordCommit(r)
  BY <1>2 DEF PasswordCommit, TypeOK, Row
<1>3. QED
  BY <1>1, <1>2

(* A request that neither revokes nor attaches leaves alone what others have *)
(* minted.                                                                   *)
LEMMA HarmlessKeepsMinted ==
  ASSUME MintedIsOwned, NEW r \in Requests,
         \A q \in Requests \ {r} : request'[q] = request[q],
         request'[r].at # "attach", attached' = attached, overtaken' = overtaken,
         \A c \in Creds : cred'[c].status = cred[c].status
  PROVE  MintedIsOwned'
<1> SUFFICES ASSUME NEW p \in Requests, request'[p].at = "attach"
             PROVE  /\ request'[p].new \in Creds
                    /\ cred'[request'[p].new].status # "absent"
                    /\ cred'[request'[p].new].status = "revoked" =>
                         request'[p].new \in overtaken'
                    /\ attached' # request'[p].new
                    /\ \A q \in Requests \ {p} :
                         request'[q].at = "attach" => request'[q].new # request'[p].new
  BY DEF MintedIsOwned
<1>1. p # r /\ request'[p] = request[p]
  OBVIOUS
<1>2. /\ request[p].new \in Creds
      /\ cred[request[p].new].status # "absent"
      /\ cred[request[p].new].status = "revoked" => request[p].new \in overtaken
      /\ attached # request[p].new
      /\ \A q \in Requests \ {p} :
           request[q].at = "attach" => request[q].new # request[p].new
  BY <1>1 DEF MintedIsOwned
<1>3. QED
  BY <1>1, <1>2

LEMMA MintedStaysOwned ==
  ASSUME AccessInv, [Next]_vars
  PROVE  MintedIsOwned'
<1> USE DEF AccessInv, TypeOK, Row, RequestState, Idle, Done
<1>1. ASSUME NEW r \in Requests, NEW c \in Creds,
             RotateLoad(r, c) \/ PasswordLoad(r, c) \/ ReplaceLoad(r, c)
      PROVE  MintedIsOwned'
  <2>1. \A q \in Requests \ {r} : request'[q] = request[q]
    BY <1>1 DEF RotateLoad, PasswordLoad, ReplaceLoad
  <2>2. request'[r].at # "attach"
    <3>1. CASE RotateLoad(r, c)
      BY <3>1 DEF RotateLoad
    <3>2. CASE PasswordLoad(r, c)
      BY <3>2 DEF PasswordLoad
    <3>3. CASE ReplaceLoad(r, c)
      BY <3>3 DEF ReplaceLoad
    <3>4. QED
      BY <1>1, <3>1, <3>2, <3>3
  <2>3. cred' = cred /\ attached' = attached /\ overtaken' = overtaken
    BY <1>1 DEF RotateLoad, PasswordLoad, ReplaceLoad
  <2>4. QED
    BY <2>1, <2>2, <2>3, HarmlessKeepsMinted
<1>2. ASSUME NEW r \in Requests, RotateCommit(r) \/ PasswordCommit(r)
      PROVE  MintedIsOwned'
  <2>1. \A q \in Requests \ {r} : request'[q] = request[q]
    BY <1>2 DEF RotateCommit, PasswordCommit
  <2>2. request'[r].at = "idle"
    BY <1>2 DEF RotateCommit, PasswordCommit
  <2>3. /\ attached' = attached /\ overtaken' = overtaken
        /\ \A c \in Creds : cred'[c].status = cred[c].status
    BY <1>2, CommitsKeepStatus DEF RotateCommit, PasswordCommit
  <2>4. QED
    BY <2>1, <2>2, <2>3, HarmlessKeepsMinted
<1>3. ASSUME NEW r \in Requests, Revoke(r) PROVE MintedIsOwned'
  <2> DEFINE c == request[r].cred
  <2>1. \A q \in Requests \ {r} : request'[q] = request[q]
    BY <1>3 DEF Revoke
  <2>2. request'[r].at = "mint"
    BY <1>3 DEF Revoke
  <2>3. attached' = attached
    BY <1>3 DEF Revoke
  <2>4. \A d \in Creds : d # c => cred'[d] = cred[d]
    BY <1>3 DEF Revoke
  <2>5. c \in Creds /\ cred'[c].status = "revoked"
    BY <1>3 DEF Revoke, RequestsHaveRows
  <2>6. /\ \A d \in overtaken : d \in overtaken'
        /\ \A q \in Requests :
             request[q].at = "attach" /\ request[q].new = c => c \in overtaken'
    BY <1>3 DEF Revoke, Successors
  <2>7. SUFFICES ASSUME NEW p \in Requests, request'[p].at = "attach"
                 PROVE  /\ request[p] = request'[p]
                        /\ cred'[request[p].new].status # "absent"
                        /\ cred'[request[p].new].status = "revoked" =>
                             request[p].new \in overtaken'
    BY <2>1, <2>2, <2>3 DEF MintedIsOwned
  <2>8. p # r /\ request[p] = request'[p]
    BY <2>1, <2>2, <2>7
  <2>9. CASE request[p].new = c
    BY <2>5, <2>6, <2>7, <2>8, <2>9
  <2>10. CASE request[p].new # c
    BY <2>4, <2>6, <2>7, <2>8, <2>10 DEF MintedIsOwned
  <2>11. QED
    BY <2>8, <2>9, <2>10
<1>4. ASSUME NEW r \in Requests, Mint(r) PROVE MintedIsOwned'
  <2>1. PICK c \in Creds :
          /\ cred[c].status = "absent"
          /\ cred' = [cred EXCEPT ![c] =
               [status |-> "active", cipher |-> TRUE, count |-> 0]]
          /\ request' = [request EXCEPT ![r].at = "attach", ![r].new = c]
    BY <1>4 DEF Mint, Present
  <2>2. /\ attached' = attached /\ attached # c /\ overtaken' = overtaken
        /\ \A q \in Requests : request[q].at = "attach" => request[q].new # c
    BY <1>4, <2>1 DEF Mint, AttachedExists, RequestsHaveRows, MintedIsOwned
  <2>3. \A q \in Requests \ {r} : request'[q] = request[q]
    BY <2>1
  <2>4. request'[r].at = "attach" /\ request'[r].new = c
    BY <2>1
  <2>5. \A d \in Creds : d # c => cred'[d] = cred[d]
    BY <2>1
  <2>6. cred'[c].status = "active"
    BY <2>1
  <2>7. SUFFICES ASSUME NEW p \in Requests, request'[p].at = "attach"
                 PROVE  /\ request'[p].new \in Creds
                        /\ cred'[request'[p].new].status # "absent"
                        /\ cred'[request'[p].new].status = "revoked" =>
                             request'[p].new \in overtaken'
                        /\ attached' # request'[p].new
                        /\ \A q \in Requests \ {p} :
                             request'[q].at = "attach" =>
                               request'[q].new # request'[p].new
    BY DEF MintedIsOwned
  <2>8. CASE p = r
    BY <2>2, <2>3, <2>4, <2>6, <2>8
  <2>9. CASE p # r
    <3>1. /\ request[p] = request'[p] /\ request[p].new # c
          /\ request[p].new \in Creds
      BY <2>2, <2>3, <2>7, <2>9 DEF MintedIsOwned
    <3>2. cred'[request[p].new] = cred[request[p].new]
      BY <2>5, <3>1
    <3>3. /\ cred[request[p].new].status # "absent"
          /\ cred[request[p].new].status = "revoked" => request[p].new \in overtaken
          /\ attached # request[p].new
          /\ \A q \in Requests \ {p} :
               request[q].at = "attach" => request[q].new # request[p].new
      BY <2>7, <3>1 DEF MintedIsOwned
    <3>4. \A q \in Requests \ {p} :
            request'[q].at = "attach" => request'[q].new # request'[p].new
      BY <2>3, <2>4, <3>1, <3>3
    <3>5. QED
      BY <2>2, <3>1, <3>2, <3>3, <3>4
  <2>10. QED
    BY <2>8, <2>9
<1>5. ASSUME NEW r \in Requests, Attach(r) PROVE MintedIsOwned'
  BY <1>5 DEF Attach, MintedIsOwned
<1>6. ASSUME NEW r \in Requests, RequestFails(r) PROVE MintedIsOwned'
  BY <1>6 DEF RequestFails, MintedIsOwned
<1>7. CASE UNCHANGED <<cred, attached, request, overtaken>>
  BY <1>7 DEF MintedIsOwned
<1>8. QED
  BY <1>1, <1>2, <1>3, <1>4, <1>5, <1>6, <1>7
     DEF Next, RequestStep, RelayStep, RefreshRead, RefreshInstall, RefreshEnd,
         RelayRestart, Tick, vars, api

(* While a row is revoked because it is being replaced, the one who replaces *)
(* it is known, or it is recorded that he gave up.                           *)
LEMMA LossStaysAccountedFor ==
  ASSUME AccessInv, [Next]_vars
  PROVE  LostAccessIsAccountedFor'
<1> USE DEF AccessInv, TypeOK, Row, RequestState, Idle, Done
<1>1. ASSUME NEW r \in Requests, NEW c \in Creds,
             RotateLoad(r, c) \/ PasswordLoad(r, c) \/ ReplaceLoad(r, c)
      PROVE  LostAccessIsAccountedFor'
  BY <1>1 DEF RotateLoad, PasswordLoad, ReplaceLoad, LostAccessIsAccountedFor
<1>2. ASSUME NEW r \in Requests, RotateCommit(r) \/ PasswordCommit(r)
      PROVE  LostAccessIsAccountedFor'
  <2>1. \A q \in Requests \ {r} : request'[q] = request[q]
    BY <1>2 DEF RotateCommit, PasswordCommit
  <2>2. request[r].at \in {"rotate", "password"}
    BY <1>2 DEF RotateCommit, PasswordCommit
  <2>3. /\ attached' = attached /\ dropped' = dropped /\ overtaken' = overtaken
        /\ \A c \in Creds : cred'[c].status = cred[c].status
    BY <1>2, CommitsKeepStatus DEF RotateCommit, PasswordCommit
  <2>4. QED
    BY <2>1, <2>2, <2>3 DEF LostAccessIsAccountedFor
<1>3. ASSUME NEW r \in Requests, Revoke(r) PROVE LostAccessIsAccountedFor'
  <2>1. CASE request[r].cred = attached
    BY <1>3, <2>1 DEF Revoke, LostAccessIsAccountedFor
  <2>2. CASE request[r].cred # attached
    BY <1>3, <2>2 DEF Revoke, LostAccessIsAccountedFor
  <2>3. QED
    BY <2>1, <2>2
<1>4. ASSUME NEW r \in Requests, Mint(r) PROVE LostAccessIsAccountedFor'
  BY <1>4 DEF Mint, Present, AttachedExists, LostAccessIsAccountedFor
<1>5. ASSUME NEW r \in Requests, Attach(r) PROVE LostAccessIsAccountedFor'
  BY <1>5 DEF Attach, MintedIsOwned, LostAccessIsAccountedFor
<1>6. ASSUME NEW r \in Requests, RequestFails(r) PROVE LostAccessIsAccountedFor'
  BY <1>6 DEF RequestFails, LostAccessIsAccountedFor
<1>7. CASE UNCHANGED <<cred, attached, request, dropped, overtaken>>
  BY <1>7 DEF LostAccessIsAccountedFor
<1>8. QED
  BY <1>1, <1>2, <1>3, <1>4, <1>5, <1>6, <1>7
     DEF Next, RequestStep, RelayStep, RefreshRead, RefreshInstall, RefreshEnd,
         RelayRestart, Tick, vars, api

LEMMA AccessStep == AccessInv /\ [Next]_vars => AccessInv'
<1> SUFFICES ASSUME AccessInv, [Next]_vars PROVE AccessInv'
  OBVIOUS
<1>1. TypeOK' /\ RequestsHaveRows'
  BY AccessType, RequestsKeepRows DEF AccessInv
<1>2. AttachedExists'
  <2>1. CASE attached' = attached
    BY <2>1, RowsStay DEF AccessInv, AttachedExists, TypeOK
  <2>2. ASSUME NEW r \in Requests, Attach(r) PROVE AttachedExists'
    BY <2>2 DEF AccessInv, AttachedExists, Attach, MintedIsOwned
  <2>3. QED
    BY <2>1, <2>2, AttachedMoves
<1>3. QED
  BY <1>1, <1>2, MintedStaysOwned, LossStaysAccountedFor DEF AccessInv

-----------------------------------------------------------------------------
LEMMA CountStep ==
  ASSUME CountInv, AccessInv, [Next]_vars
  PROVE  LoadedCounts' /\ CountedRotationsHappened'
<1> USE AccessAssumption DEF CountInv, TypeOK, Row, RequestState, Idle, Done
<1>1. ASSUME NEW r \in Requests, NEW c \in Creds, RotateLoad(r, c)
      PROVE  LoadedCounts' /\ CountedRotationsHappened'
  <2>1. /\ \A q \in Requests \ {r} : request'[q] = request[q]
        /\ request'[r].cred = c /\ request'[r].count = cred[c].count
        /\ cred' = cred /\ rotated' = rotated
        /\ cred[c].count < MaxRotations
    BY <1>1 DEF RotateLoad
  <2>2. QED
    BY <2>1 DEF LoadedCounts, CountedRotationsHappened
<1>2. ASSUME NEW r \in Requests, RotateCommit(r)
      PROVE  LoadedCounts' /\ CountedRotationsHappened'
  <2> DEFINE c == request[r].cred
  <2>1. c \in Creds
    BY <1>2 DEF RotateCommit, RequestsHaveRows
  <2>2. /\ \A q \in Requests \ {r} : request'[q] = request[q]
        /\ request'[r].at = "idle"
    BY <1>2 DEF RotateCommit
  <2>3. /\ \A d \in Creds \ {c} : cred'[d] = cred[d] /\ rotated'[d] = rotated[d]
        /\ cred'[c].count = request[r].count + 1
        /\ rotated'[c] = rotated[c] + 1
    BY <1>2, <2>1 DEF RotateCommit
  <2>4. /\ request[r].count \in Nat /\ request[r].count < MaxRotations
        /\ request[r].count <= rotated[c]
    BY <1>2 DEF RotateCommit, LoadedCounts
  <2>5. \A d \in Creds : rotated[d] <= rotated'[d]
    BY <2>3
  <2>6. LoadedCounts'
    <3> SUFFICES ASSUME NEW q \in Requests, request'[q].at = "rotate"
                 PROVE  /\ request'[q].count < MaxRotations
                        /\ request'[q].count <= rotated'[request'[q].cred]
      BY DEF LoadedCounts
    <3>1. q # r /\ request'[q] = request[q]
      BY <2>2
    <3>2. /\ request[q].cred \in Creds /\ request[q].count \in Nat
          /\ request[q].count < MaxRotations
          /\ request[q].count <= rotated[request[q].cred]
      BY <3>1 DEF RequestsHaveRows, LoadedCounts
    <3>3. rotated[request[q].cred] \in Nat /\ rotated'[request[q].cred] \in Nat
      BY <2>3, <3>2
    <3>4. QED
      BY <2>5, <3>1, <3>2, <3>3
  <2>7. CountedRotationsHappened'
    BY <2>1, <2>3, <2>4 DEF CountedRotationsHappened
  <2>8. QED
    BY <2>6, <2>7
<1>3. ASSUME NEW r \in Requests, NEW c \in Creds, PasswordLoad(r, c)
      PROVE  LoadedCounts' /\ CountedRotationsHappened'
  BY <1>3 DEF PasswordLoad, LoadedCounts, CountedRotationsHappened
<1>4. ASSUME NEW r \in Requests, PasswordCommit(r)
      PROVE  LoadedCounts' /\ CountedRotationsHappened'
  BY <1>4 DEF PasswordCommit, LoadedCounts, CountedRotationsHappened
<1>5. ASSUME NEW r \in Requests,
             (\E c \in Creds : ReplaceLoad(r, c)) \/ Attach(r) \/ RequestFails(r)
      PROVE  LoadedCounts' /\ CountedRotationsHappened'
  <2>1. /\ \A q \in Requests \ {r} : request'[q] = request[q]
        /\ cred' = cred /\ rotated' = rotated
    BY <1>5 DEF ReplaceLoad, Attach, RequestFails
  <2>2. request'[r].at # "rotate"
    <3>1. CASE \E c \in Creds : ReplaceLoad(r, c)
      BY <3>1 DEF ReplaceLoad
    <3>2. CASE Attach(r)
      BY <3>2 DEF Attach
    <3>3. CASE RequestFails(r)
      BY <3>3 DEF RequestFails
    <3>4. QED
      BY <1>5, <3>1, <3>2, <3>3
  <2>3. QED
    BY <2>1, <2>2 DEF LoadedCounts, CountedRotationsHappened
<1>6. ASSUME NEW r \in Requests, Revoke(r)
      PROVE  LoadedCounts' /\ CountedRotationsHappened'
  BY <1>6 DEF Revoke, LoadedCounts, CountedRotationsHappened
<1>7. ASSUME NEW r \in Requests, Mint(r)
      PROVE  LoadedCounts' /\ CountedRotationsHappened'
  BY <1>7 DEF Mint, LoadedCounts, CountedRotationsHappened
<1>8. CASE UNCHANGED <<cred, request, rotated>>
  BY <1>8 DEF LoadedCounts, CountedRotationsHappened
<1>9. QED
  BY <1>1, <1>2, <1>3, <1>4, <1>5, <1>6, <1>7, <1>8
     DEF Next, RequestStep, RelayStep, RefreshRead, RefreshInstall, RefreshEnd,
         RelayRestart, Tick, vars, api

-----------------------------------------------------------------------------
(* A row that stops being valid has that recorded at the current time. *)
LEMMA LeavingIsRecorded ==
  ASSUME TypeOK, RequestsHaveRows, [Next]_vars, NEW c \in Creds
  PROVE  /\ c \in Valid => c \in Valid' \/ ended'[c] = now
         /\ ended'[c] = ended[c] \/ ended'[c] = now
<1> USE DEF TypeOK, Row, Valid, Active
<1>1. ASSUME NEW r \in Requests,
             RotateCommit(r) \/ PasswordCommit(r) \/ Revoke(r)
      PROVE  /\ c \in Valid => c \in Valid' \/ ended'[c] = now
             /\ ended'[c] = ended[c] \/ ended'[c] = now
  <2>1. request[r].cred \in Creds
    BY <1>1 DEF RotateCommit, PasswordCommit, Revoke, RequestsHaveRows
  <2>2. CASE c = request[r].cred
    BY <1>1, <2>2 DEF RotateCommit, PasswordCommit, Revoke, Retire
  <2>3. CASE c # request[r].cred
    BY <1>1, <2>1, <2>3 DEF RotateCommit, PasswordCommit, Revoke, Retire
  <2>4. QED
    BY <2>2, <2>3
<1>2. ASSUME NEW r \in Requests, Mint(r)
      PROVE  (c \in Valid => c \in Valid') /\ ended'[c] = ended[c]
  <2>1. PICK d \in Creds :
          /\ cred[d].status = "absent"
          /\ cred' = [cred EXCEPT ![d] =
               [status |-> "active", cipher |-> TRUE, count |-> 0]]
    BY <1>2 DEF Mint, Present
  <2>2. QED
    BY <1>2, <2>1 DEF Mint
<1>3. CASE UNCHANGED <<cred, ended>>
  BY <1>3
<1>4. QED
  BY <1>1, <1>2, <1>3
     DEF Next, RequestStep, RotateLoad, PasswordLoad, ReplaceLoad, Attach, RequestFails,
         RelayStep, RefreshRead, RefreshInstall, RefreshEnd, RelayRestart, Tick, vars, api

(* What was seen valid at a time that is past stays seen. *)
LEMMA SeenStays ==
  ASSUME TypeOK, RequestsHaveRows, [Next]_vars, NEW S \in SUBSET Creds, NEW t \in Int,
         SeenAt(S, t), S # {} => t <= now
  PROVE  \A c \in S : c \in Valid' \/ (ended'[c] # NotYet /\ t <= ended'[c])
<1> SUFFICES ASSUME NEW c \in S
             PROVE  c \in Valid' \/ (ended'[c] # NotYet /\ t <= ended'[c])
  OBVIOUS
<1>1. c \in Creds /\ now # NotYet /\ t <= now
  BY DEF TypeOK, NotYet
<1>2. c \in Valid \/ (ended[c] # NotYet /\ t <= ended[c])
  BY DEF SeenAt
<1>3. QED
  BY <1>1, <1>2, LeavingIsRecorded

LEMMA RelayKeeps ==
  ASSUME RelayInv, RequestsHaveRows, TypeOK', [Next]_vars
  PROVE  RelayInv'
<1> USE AccessAssumption
<1> DEFINE bound == expiresAt - TTL - RefreshMax
<1>0. /\ now \in Nat /\ now' \in Nat /\ now <= now' /\ expiresAt \in Int
      /\ refresh.readAt \in Nat /\ bound \in Int
      /\ cache \in SUBSET Creds /\ refresh.rows \in SUBSET Creds
  <2>1. now' = now \/ now' = now + 1
    BY DEF Next, RequestStep, RotateLoad, PasswordLoad, RotateCommit, PasswordCommit,
           ReplaceLoad, Revoke, Mint, Attach, RequestFails, RelayStep, RefreshRead,
           RefreshInstall, RefreshEnd, RelayRestart, Tick, vars
  <2>2. QED
    BY <2>1 DEF RelayInv, TypeOK, RefreshState
<1>1. cache # {} => bound <= now
  BY <1>0 DEF RelayInv
<1>2. \A c \in cache : c \in Valid' \/ (ended'[c] # NotYet /\ bound <= ended'[c])
  BY <1>0, <1>1, SeenStays DEF RelayInv
<1>3. refresh.phase = "read" =>
        \A c \in refresh.rows :
          c \in Valid' \/ (ended'[c] # NotYet /\ refresh.readAt <= ended'[c])
  BY <1>0, SeenStays DEF RelayInv
<1>4. refresh.phase = "closing" =>
        \A c \in cache :
          c \in Valid' \/ (ended'[c] # NotYet /\ refresh.readAt <= ended'[c])
  BY <1>0, SeenStays DEF RelayInv
<1>5. CASE UNCHANGED <<relay, now>>
  BY <1>2, <1>3, <1>4, <1>5 DEF RelayInv, SeenAt, relay
<1>6. CASE Tick
  <2>1. UNCHANGED relay /\ now' = now + 1
        /\ (refresh.phase # "idle" => now < refresh.readAt + RefreshMax)
    BY <1>6 DEF Tick
  <2>2. refresh.phase # "idle" =>
          refresh.readAt <= now + 1 /\ now + 1 <= refresh.readAt + RefreshMax
    BY <1>0, <2>1 DEF RelayInv
  <2>3. cache # {} => expiresAt <= now + 1 + TTL
    BY <1>0 DEF RelayInv
  <2>4. QED
    BY <1>2, <1>3, <1>4, <2>1, <2>2, <2>3 DEF RelayInv, SeenAt, relay
<1>7. ASSUME NEW by \in {"loop", "verify"}, RefreshRead(by) PROVE RelayInv'
  <2>1. /\ refresh' = [phase |-> "read", by |-> by, rows |-> Valid, readAt |-> now]
        /\ UNCHANGED <<now, cache, expiresAt>>
        /\ Valid' = Valid
    BY <1>7 DEF RefreshRead, api, Valid, Active
  <2>2. SeenAt(Valid, now)'
    BY <2>1 DEF SeenAt
  <2>3. QED
    BY <1>0, <1>2, <2>1, <2>2 DEF RelayInv, SeenAt
<1>8. CASE RefreshInstall
  <2>1. /\ refresh.phase = "read" /\ refresh'.phase = "closing"
        /\ refresh'.readAt = refresh.readAt
        /\ cache' = refresh.rows /\ expiresAt' = now + TTL /\ now' = now
    BY <1>8 DEF RefreshInstall, RelayInv, TypeOK, RefreshState
  <2>2. refresh.readAt <= now /\ now <= refresh.readAt + RefreshMax
    BY <2>1 DEF RelayInv
  <2>3. expiresAt' - TTL - RefreshMax <= refresh.readAt
    BY <1>0, <2>1, <2>2
  <2>4. ASSUME NEW c \in cache', ended'[c] # NotYet, refresh.readAt <= ended'[c]
        PROVE  expiresAt' - TTL - RefreshMax <= ended'[c]
    <3>1. ended'[c] \in Int
      BY <1>0, <2>1 DEF TypeOK, NotYet
    <3>2. QED
      BY <1>0, <2>1, <2>3, <2>4, <3>1
  <2>5. SeenAt(cache, expiresAt - TTL - RefreshMax)'
    BY <1>3, <2>1, <2>4 DEF SeenAt
  <2>6. SeenAt(cache, refresh.readAt)'
    BY <1>3, <2>1 DEF SeenAt
  <2>7. QED
    BY <1>0, <2>1, <2>2, <2>5, <2>6 DEF RelayInv
<1>9. CASE RefreshEnd
  BY <1>2, <1>9 DEF RefreshEnd, NoRefresh, RelayInv, SeenAt
<1>10. CASE RelayRestart
  BY <1>10 DEF RelayRestart, NoRefresh, RelayInv, SeenAt
<1>11. QED
  BY <1>5, <1>6, <1>7, <1>8, <1>9, <1>10
     DEF Next, RequestStep, RotateLoad, PasswordLoad, RotateCommit, PasswordCommit,
         ReplaceLoad, Revoke, Mint, Attach, RequestFails, RelayStep, vars, relay

(* An entry that verify() uses is younger than TTL + RefreshMax. *)
LEMMA GrantsFollow == RelayInv => GrantsAreFresh
<1> SUFFICES ASSUME RelayInv, NEW c \in Grantable
             PROVE  c \in Valid \/ (ended[c] # NotYet /\ now <= ended[c] + TTL + RefreshMax)
  BY DEF GrantsAreFresh
<1> USE AccessAssumption
<1>1. /\ c \in Creds /\ now \in Nat /\ expiresAt \in Int /\ ended[c] \in Int
      /\ refresh.readAt \in Nat /\ c \in cache
  BY DEF Grantable, RelayInv, TypeOK, RefreshState, NotYet
<1>2. CASE now <= expiresAt
  BY <1>1, <1>2 DEF RelayInv, SeenAt
<1>3. CASE refresh.phase = "closing"
  <2>1. now <= refresh.readAt + RefreshMax
    BY <1>3 DEF RelayInv
  <2>2. c \in Valid \/ (ended[c] # NotYet /\ refresh.readAt <= ended[c])
    BY <1>1, <1>3 DEF RelayInv, SeenAt
  <2>3. QED
    BY <1>1, <2>1, <2>2
<1>4. QED
  BY <1>2, <1>3 DEF Grantable

-----------------------------------------------------------------------------
(* All of it, for every reachable state. *)
AllInv == AccessInv /\ CountInv /\ RelayInv

LEMMA AllInvHolds == Spec => []AllInv
<1>1. Init => AllInv
  BY AccessInit DEF AllInv
<1>2. AllInv /\ [Next]_vars => AllInv'
  <2> SUFFICES ASSUME AllInv, [Next]_vars PROVE AllInv'
    OBVIOUS
  <2>1. AccessInv'
    BY AccessStep DEF AllInv
  <2>2. CountInv'
    BY <2>1, CountStep DEF AllInv, CountInv, AccessInv
  <2>3. RelayInv'
    BY <2>1, RelayKeeps DEF AllInv, AccessInv
  <2>4. QED
    BY <2>1, <2>2, <2>3 DEF AllInv
<1>3. QED
  BY <1>1, <1>2, PTL DEF Spec

(* The types are kept by every rotation, replacement and refresh. *)
THEOREM AccessTypeCorrect == Spec => []TypeOK
<1>1. AllInv => TypeOK
  BY DEF AllInv, AccessInv
<1>2. QED
  BY <1>1, AllInvHolds, PTL

(* The relay lets nobody in on a pair that was replaced or revoked longer    *)
(* than TTL + RefreshMax ago (relay_paid.py, RelayAuth).                     *)
THEOREM GrantsFresh == Spec => []GrantsAreFresh
<1>1. AllInv => GrantsAreFresh
  BY GrantsFollow DEF AllInv
<1>2. QED
  BY <1>1, AllInvHolds, PTL

(* A dead credential on an order is being replaced, or its replacement       *)
(* failed (credential.py, replace_credential).                               *)
THEOREM LostAccessAccounted == Spec => []LostAccessIsAccountedFor
<1>1. AllInv => LostAccessIsAccountedFor
  BY DEF AllInv, AccessInv
<1>2. QED
  BY <1>1, AllInvHolds, PTL

(* The count on a row is at most MAX_ROTATIONS and at most the rotations     *)
(* that took place (orders.py, rotate_proxy).                                *)
THEOREM CountsHappened == Spec => []CountedRotationsHappened
<1>1. AllInv => CountedRotationsHappened
  BY DEF AllInv, CountInv
<1>2. QED
  BY <1>1, AllInvHolds, PTL

(* No request, whatever it loaded before, brings a revoked row back          *)
(* (credential.py, revoke_credential).                                       *)
THEOREM RevokedForGood == Spec => RevokedIsForGood
<1>1. AllInv /\ [Next]_vars =>
        [\A c \in Creds :
           cred[c].status = "revoked" => cred'[c].status = "revoked"]_vars
  <2> SUFFICES ASSUME AllInv, [Next]_vars, NEW c \in Creds, cred[c].status = "revoked"
               PROVE  cred'[c].status = "revoked"
    OBVIOUS
  <2> USE DEF AllInv, AccessInv, TypeOK, Row
  <2>1. ASSUME NEW r \in Requests, RotateCommit(r) \/ PasswordCommit(r)
        PROVE  cred'[c].status = "revoked"
    BY <2>1, CommitsKeepStatus
  <2>2. ASSUME NEW r \in Requests, Revoke(r) PROVE cred'[c].status = "revoked"
    BY <2>2 DEF Revoke
  <2>3. ASSUME NEW r \in Requests, Mint(r) PROVE cred'[c].status = "revoked"
    BY <2>3 DEF Mint, Present
  <2>4. CASE UNCHANGED cred
    BY <2>4
  <2>5. QED
    BY <2>1, <2>2, <2>3, <2>4
       DEF Next, RequestStep, RotateLoad, PasswordLoad, ReplaceLoad, Attach, RequestFails,
           RelayStep, RefreshRead, RefreshInstall, RefreshEnd, RelayRestart, Tick, vars, api
<1>2. QED
  BY <1>1, AllInvHolds, PTL DEF Spec, RevokedIsForGood
=============================================================================
