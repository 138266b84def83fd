---------------------------- MODULE ProxyAccess ----------------------------
(***************************************************************************)
(* Who gets through the relay, while the credentials of one order are      *)
(* rotated by the customer and replaced by staff.  The API's requests load *)
(* a row, await, and commit what they computed from it; the relay answers  *)
(* from a cache of the table that it reads again when the cache is older   *)
(* than its TTL, and every 30 s in a loop.                                 *)
(* It compares the stored column with what the client sends: the password  *)
(* a row had before the column was encrypted can match, one that was       *)
(* written since (with CRED_ENCRYPTION_KEY configured) cannot.  The cache  *)
(* is therefore the set of rows it holds a password for that can match.    *)
(***************************************************************************)
EXTENDS FiniteSets, Integers

CONSTANTS
  Creds,         \* rows of styxproxy_credentials for the order
  Legacy,        \* those it was fulfilled with, before the column was encrypted
  First,         \* the one of them the order points at
  Requests,      \* concurrent HTTP requests
  NoCred,        \* no row
  MaxRotations,  \* MAX_ROTATIONS
  TTL,           \* ttl_seconds of RelayAuth
  RefreshMax,    \* longest time from the relay's SELECT to the end of its refresh
  Rotatable,     \* bound: the rows customers rotate
  MaxRotated,    \* bound: rotations committed for one row
  MaxTime        \* bound: the clock

ASSUME AccessAssumption ==
  /\ First \in Legacy /\ Legacy \subseteq Creds /\ NoCred \notin Creds
  /\ Rotatable \subseteq Creds
  /\ MaxRotations \in Nat /\ TTL \in Nat /\ RefreshMax \in Nat
  /\ MaxRotated \in Nat /\ MaxTime \in Nat

VARIABLES
  cred,      \* the rows
  attached,  \* orders.styxproxy_credential_id
  request,   \* what each request is at and has loaded
  now,       \* seconds
  cache,     \* RelayAuth._cache
  expiresAt, \* RelayAuth._expires_at
  refresh,   \* the refresh under RelayAuth._lock
  ended,     \* history: when a row's plaintext pair stopped being valid
  rotated,   \* history: rotations committed for each row
  dropped,   \* history: rows whose replacement failed after their revocation
  overtaken  \* history: rows revoked before the request that minted them got
             \*   to attach them

api == <<cred, attached, request, ended, rotated, dropped, overtaken>>
relay == <<cache, expiresAt, refresh>>
vars == <<cred, attached, request, now, cache, expiresAt, refresh,
          ended, rotated, dropped, overtaken>>

(* cipher: styxproxy_password holds a Fernet token. *)
Row == [status : {"absent", "active", "revoked"}, cipher : BOOLEAN, count : Nat]
RequestState ==
  [at : {"idle", "rotate", "password", "revoke", "mint", "attach"},
   cred : Creds \cup {NoCred}, new : Creds \cup {NoCred}, count : Nat]
RefreshState ==
  [phase : {"idle", "read", "closing"}, by : {"loop", "verify"},
   rows : SUBSET Creds, readAt : Nat]
NotYet == -1

TypeOK ==
  /\ cred \in [Creds -> Row]
  /\ attached \in Creds
  /\ request \in [Requests -> RequestState]
  /\ now \in Nat
  /\ cache \in SUBSET Creds
  /\ expiresAt \in Int
  /\ refresh \in RefreshState
  /\ ended \in [Creds -> Nat \cup {NotYet}]
  /\ rotated \in [Creds -> Nat]
  /\ dropped \in SUBSET Creds
  /\ overtaken \in SUBSET Creds

Idle == [at |-> "idle", cred |-> NoCred, new |-> NoCred, count |-> 0]
NoRefresh == [phase |-> "idle", by |-> "loop", rows |-> {}, readAt |-> 0]

Init ==
  /\ cred = [c \in Creds |->
       [status |-> IF c \in Legacy THEN "active" ELSE "absent",
        cipher |-> FALSE, count |-> 0]]
  /\ attached = First
  /\ request = [r \in Requests |-> Idle]
  /\ now = 0
  /\ cache = {}
  /\ expiresAt = -1
  /\ refresh = NoRefresh
  /\ ended = [c \in Creds |-> NotYet]
  /\ rotated = [c \in Creds |-> 0]
  /\ dropped = {}
  /\ overtaken = {}

-----------------------------------------------------------------------------
(* The API *)

Present(c) == cred[c].status # "absent"
Active(c) == cred[c].status = "active"
(* The active rows whose password column is what the customer sends. *)
Valid == {c \in Creds : Active(c) /\ ~cred[c].cipher}

Done(r) == request' = [request EXCEPT ![r] = Idle]

(* The pair that the row holds is replaced or revoked. *)
Retire(c) == ended' = IF c \in Valid THEN [ended EXCEPT ![c] = now] ELSE ended

(* POST /orders/{id}/rotate, and /orders/proxy-items/{id}/rotate for any row *)
(* of the order: the limit is checked on the row as it was loaded, its status*)
(* is not looked at.                                                         *)
RotateLoad(r, c) ==
  /\ request[r].at = "idle"
  /\ Present(c) /\ c \in Rotatable
  /\ cred[c].count < MaxRotations
  /\ request' = [request EXCEPT ![r] =
       [Idle EXCEPT !.at = "rotate", !.cred = c, !.count = cred[c].count]]
  /\ UNCHANGED <<cred, attached, now, relay, ended, rotated, dropped, overtaken>>

(* Mutant: every column is written, the status as it was loaded. *)
RotateCommitWholeRow(r) ==
  LET c == request[r].cred IN
  /\ request[r].at = "rotate" /\ rotated[c] < MaxRotated
  /\ cred' = [cred EXCEPT ![c] =
       [status |-> "active", cipher |-> TRUE, count |-> request[r].count + 1]]
  /\ Retire(c)
  /\ rotated' = [rotated EXCEPT ![c] = @ + 1]
  /\ Done(r)
  /\ UNCHANGED <<attached, now, relay, dropped, overtaken>>

(* Mutant: the count is incremented in the UPDATE (count = count + 1). *)
RotateCommitAdds(r) ==
  LET c == request[r].cred IN
  /\ request[r].at = "rotate" /\ rotated[c] < MaxRotated
  /\ cred' = [cred EXCEPT ![c].cipher = TRUE, ![c].count = @ + 1]
  /\ Retire(c)
  /\ rotated' = [rotated EXCEPT ![c] = @ + 1]
  /\ Done(r)
  /\ UNCHANGED <<attached, now, relay, dropped, overtaken>>

(* One UPDATE of name, password and count, which is the loaded one plus one. *)
RotateCommit(r) ==
  LET c == request[r].cred IN
  /\ request[r].at = "rotate" /\ rotated[c] < MaxRotated
  /\ cred' = [cred EXCEPT ![c].cipher = TRUE, ![c].count = request[r].count + 1]
  /\ Retire(c)
  /\ rotated' = [rotated EXCEPT ![c] = @ + 1]
  /\ Done(r)
  /\ UNCHANGED <<attached, now, relay, dropped, overtaken>>

(* POST /proxies/{id}/rotate-password: only active rows.  The daily counter  *)
(* refuses nobody: password_rotations_reset_at is a timestamp column, what   *)
(* is loaded from it never equals a date, so the counter is reset each time. *)
PasswordLoad(r, c) ==
  /\ request[r].at = "idle"
  /\ Active(c)
  /\ request' = [request EXCEPT ![r] = [Idle EXCEPT !.at = "password", !.cred = c]]
  /\ UNCHANGED <<cred, attached, now, relay, ended, rotated, dropped, overtaken>>

PasswordCommit(r) ==
  LET c == request[r].cred IN
  /\ request[r].at = "password"
  /\ cred' = [cred EXCEPT ![c].cipher = TRUE]
  /\ Retire(c)
  /\ Done(r)
  /\ UNCHANGED <<attached, now, relay, rotated, dropped, overtaken>>

(* POST /admin/credentials/{id}/replace, for any row of the order, attached  *)
(* or not, active or not: row, order and country are looked at before        *)
(* anything is written.                                                      *)
ReplaceLoad(r, c) ==
  /\ request[r].at = "idle"
  /\ Present(c)
  /\ request' = [request EXCEPT ![r] = [Idle EXCEPT !.at = "revoke", !.cred = c]]
  /\ UNCHANGED <<cred, attached, now, relay, ended, rotated, dropped, overtaken>>

(* The rows that were minted and wait for their request to attach them. *)
Successors == {request[q].new : q \in {p \in Requests : request[p].at = "attach"}}

(* revoke_credential: a commit of its own, also of a row that is revoked. *)
Revoke(r) ==
  LET c == request[r].cred IN
  /\ request[r].at = "revoke"
  /\ cred' = [cred EXCEPT ![c].status = "revoked"]
  /\ Retire(c)
  /\ overtaken' = IF c \in Successors THEN overtaken \cup {c} ELSE overtaken
  /\ request' = [request EXCEPT ![r].at = "mint"]
  /\ UNCHANGED <<attached, now, relay, rotated, dropped>>

(* create_credential commits the new row. *)
Mint(r) ==
  /\ request[r].at = "mint"
  /\ \E c \in Creds :
       /\ ~Present(c)
       /\ cred' = [cred EXCEPT ![c] =
            [status |-> "active", cipher |-> TRUE, count |-> 0]]
       /\ request' = [request EXCEPT ![r].at = "attach", ![r].new = c]
  /\ UNCHANGED <<attached, now, relay, ended, rotated, dropped, overtaken>>

(* Mutant: the row the request began with is written back to the order. *)
AttachOld(r) ==
  /\ request[r].at = "attach"
  /\ attached' = request[r].cred
  /\ Done(r)
  /\ UNCHANGED <<cred, now, relay, ended, rotated, dropped, overtaken>>

Attach(r) ==
  /\ request[r].at = "attach"
  /\ attached' = request[r].new
  /\ Done(r)
  /\ UNCHANGED <<cred, now, relay, ended, rotated, dropped, overtaken>>

(* Mutant: the order is pointed at what the provider did not deliver. *)
RequestFailsUnset(r) ==
  /\ request[r].at = "mint"
  /\ attached' = request[r].new
  /\ Done(r)
  /\ UNCHANGED <<cred, now, relay, ended, rotated, dropped, overtaken>>

(* The provider has no proxy (RuntimeError), a statement fails, or the       *)
(* process dies: what was not committed is rolled back, the rest stays.      *)
RequestFails(r) ==
  /\ request[r].at # "idle"
  /\ dropped' = IF request[r].at \in {"mint", "attach"}
                  THEN dropped \cup {request[r].cred} ELSE dropped
  /\ Done(r)
  /\ UNCHANGED <<cred, attached, now, relay, ended, rotated, overtaken>>

-----------------------------------------------------------------------------
(* The relay *)

(* refresh_loop wakes up, or verify() has found the cache expired, perhaps   *)
(* before it waited for the lock; PostgreSQL answers the SELECT.  A refresh  *)
(* that fails before changes nothing: the loop logs it and keeps the cache,  *)
(* the connection that waits in verify() is dropped.                         *)
RefreshRead(by) ==
  /\ refresh.phase = "idle"
  /\ refresh' = [phase |-> "read", by |-> by, rows |-> Valid, readAt |-> now]
  /\ UNCHANGED <<api, now, cache, expiresAt>>

(* Both dictionaries are replaced.  The TTL starts here, not at the SELECT.  *)
(* An expired row is kept: its epoch time is compared with the loop's clock. *)
RefreshInstall ==
  /\ refresh.phase = "read"
  /\ cache' = refresh.rows
  /\ expiresAt' = now + TTL
  /\ refresh' = [refresh EXCEPT !.phase = "closing", !.rows = {}]
  /\ UNCHANGED <<api, now>>

(* The connection is closed and the lock released; a verify() that asked for *)
(* the refresh goes on from here, or is dropped if closing failed.           *)
RefreshEnd ==
  /\ refresh.phase = "closing"
  /\ refresh' = NoRefresh
  /\ UNCHANGED <<api, now, cache, expiresAt>>

(* The relay is restarted; it listens once a first refresh has succeeded. *)
RelayRestart ==
  /\ cache' = {}
  /\ expiresAt' = -1
  /\ refresh' = NoRefresh
  /\ UNCHANGED <<api, now>>

(* Mutant: an expired cache is used when the database does not answer. *)
GrantableFailOpen == cache

(* Whom verify() lets in now: the cache has not expired, or the client's own *)
(* refresh has just filled it.                                               *)
Grantable ==
  {c \in cache : \/ now <= expiresAt
                 \/ refresh.phase = "closing" /\ refresh.by = "verify"}

(* Time passes; an answer that was read is taken over within RefreshMax. *)
Tick ==
  /\ now < MaxTime
  /\ refresh.phase # "idle" => now < refresh.readAt + RefreshMax
  /\ now' = now + 1
  /\ UNCHANGED <<api, relay>>

-----------------------------------------------------------------------------
RequestStep(r) ==
  \/ \E c \in Creds : RotateLoad(r, c) \/ PasswordLoad(r, c) \/ ReplaceLoad(r, c)
  \/ RotateCommit(r)
  \/ PasswordCommit(r)
  \/ Revoke(r)
  \/ Mint(r)
  \/ Attach(r)
  \/ RequestFails(r)

RelayStep ==
  \/ \E by \in {"loop", "verify"} : RefreshRead(by)
  \/ RefreshInstall
  \/ RefreshEnd
  \/ RelayRestart

Next == (\E r \in Requests : RequestStep(r)) \/ RelayStep \/ Tick

Spec == Init /\ [][Next]_vars

-----------------------------------------------------------------------------
(* Properties *)

(* Whoever the relay lets in (relay_paid.py, verify) presents a pair that is *)
(* stored for an active credential, or was until at most TTL + RefreshMax    *)
(* ago: rotations and revocations take hold in that time, also while the     *)
(* database cannot be reached and refreshes fail.                            *)
GrantsAreFresh ==
  \A c \in Grantable :
    c \in Valid \/ (ended[c] # NotYet /\ now <= ended[c] + TTL + RefreshMax)

(* A credential that was revoked stays so, whatever requests had loaded it   *)
(* before (credential.py, revoke_credential, against the rotation routes).   *)
RevokedIsForGood ==
  [][\A c \in Creds :
       cred[c].status = "revoked" => cred'[c].status = "revoked"]_vars

(* The order's own credential is dead only while its replacement is on its   *)
(* way, or when that replacement failed after the revocation was committed,  *)
(* or when another request replaced it between its minting and its attaching *)
(* (credential.py, replace_credential, with its three commits): whoever      *)
(* replaces what and in whichever order they attach, a replacement that went *)
(* through never leaves the order with the row it replaced.                  *)
LostAccessIsAccountedFor ==
  cred[attached].status = "revoked" =>
    \/ attached \in dropped \cup overtaken
    \/ \E r \in Requests :
         request[r].at \in {"mint", "attach"} /\ request[r].cred = attached

(* The count on a row never exceeds the limit nor the rotations that took    *)
(* place: races lose counts (orders.py, rotate_proxy), they never invent     *)
(* one, so nobody is refused a rotation he has not had.                      *)
CountedRotationsHappened ==
  \A c \in Creds :
    cred[c].count <= rotated[c] /\ cred[c].count <= MaxRotations
=============================================================================
