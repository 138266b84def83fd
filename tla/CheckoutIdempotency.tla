------------------------ MODULE CheckoutIdempotency ------------------------
(***************************************************************************)
(* POST /payments/initiate under one Idempotency-Key: what the requests    *)
(* that carry the key do to the order rows that carry it.  A request looks *)
(* the key up, opens an invoice at the gateway, and only then inserts its  *)
(* row; in between, other requests do the same and the rest of the system  *)
(* moves the rows on.  Keys do not affect each other.  A row is known by   *)
(* the request that inserted it.                                           *)
(***************************************************************************)
EXTENDS FiniteSets, Naturals

CONSTANTS
  Requests,     \* HTTP requests carrying the key, retries included
  Carts,        \* what a request may ask for (plan, quantity, email, gateway)
  BasketCarts,  \* those sent to /initiate-basket
  None,         \* no order
  Faults        \* "db": a database call fails; "crash": the process dies

ASSUME CheckoutAssumption ==
  /\ None \notin Requests
  /\ BasketCarts \subseteq Carts
  /\ Faults \subseteq {"db", "crash"}

VARIABLES
  rows,    \* status of the row a request inserted, "none" if there is none
  lapsed,  \* the row's expires_at has passed
  request, \* the requests
  faulted  \* history: a database call has failed

vars == <<rows, lapsed, request, faulted>>

(* "failed" stands for failed_unfulfilled and failed_manual_review. *)
RowStatus == {"none", "pending", "paid", "fulfilled", "active", "failed",
              "expired", "cancelled", "refunded"}
(* Outside the unique partial index on orders.idempotency_key. *)
Released == {"none", "cancelled", "expired", "refunded"}
Delivered == {"fulfilled", "active"}

RequestState ==
  [pc : {"idle", "invoice", "commit", "lookup", "cleanup", "done"},
   cart : Carts \cup {None}, answer : Requests \cup {None}, url : BOOLEAN]

TypeOK ==
  /\ rows \in [Requests -> RowStatus]
  /\ lapsed \in [Requests -> BOOLEAN]
  /\ request \in [Requests -> RequestState]
  /\ faulted \in BOOLEAN

Init ==
  /\ rows = [r \in Requests |-> "none"]
  /\ lapsed = [r \in Requests |-> FALSE]
  /\ request = [r \in Requests |->
       [pc |-> "idle", cart |-> None, answer |-> None, url |-> FALSE]]
  /\ faulted = FALSE

Existing == {e \in Requests : rows[e] # "none"}
Holds(e) == rows[e] \notin Released
IndexAdmits(e) == \A f \in Requests \ {e} : ~Holds(f)
StillLive(e) == rows[e] \in {"pending", "active"} /\ ~lapsed[e]

Goto(r, pc) == request' = [request EXCEPT ![r].pc = pc]
Answer(r, e, url) ==
  request' = [request EXCEPT ![r] =
    [pc |-> "done", cart |-> request[r].cart, answer |-> e, url |-> url]]

-----------------------------------------------------------------------------
(* Mutant: the payload of the request is not kept. *)
BeginWithoutCart(r, cart) ==
  /\ request[r].pc = "idle"
  /\ Existing = {} \/ \E e \in Existing : ~StillLive(e)
  /\ request' = [request EXCEPT ![r].pc = "invoice", ![r].cart = "none"]
  /\ UNCHANGED <<rows, lapsed, faulted>>

(* The key is looked up: any one of its rows, for the query has no ORDER BY. *)
(* A live row is replayed, to the single-item route only if it is for the    *)
(* same cart (else 409); a dead one is "released", which changes nothing.    *)
Begin(r, cart) ==
  /\ request[r].pc = "idle"
  /\ \/ \E e \in Existing :
          /\ StillLive(e)
          /\ LET replay == cart \in BasketCarts \/ request[e].cart = cart IN
             request' = [request EXCEPT ![r] =
               [pc |-> "done", cart |-> cart,
                answer |-> IF replay THEN e ELSE None, url |-> FALSE]]
     \/ /\ Existing = {} \/ \E e \in Existing : ~StillLive(e)
        /\ request' = [request EXCEPT ![r].pc = "invoice", ![r].cart = cart]
  /\ UNCHANGED <<rows, lapsed, faulted>>

(* The gateway opens the invoice, or the request ends in a 502. *)
Invoice(r) ==
  /\ request[r].pc = "invoice"
  /\ Goto(r, "commit") \/ Goto(r, "done")
  /\ UNCHANGED <<rows, lapsed, faulted>>

Insert(r) ==
  /\ rows' = [rows EXCEPT ![r] = "pending"]
  /\ lapsed' = [lapsed EXCEPT ![r] = FALSE]

(* The row is inserted and its checkout URL returned, or the index refuses   *)
(* it: IntegrityError.                                                       *)
Commit(r) ==
  /\ request[r].pc = "commit"
  /\ \/ IndexAdmits(r) /\ Insert(r) /\ Answer(r, r, TRUE)
     \/ ~IndexAdmits(r) /\ Goto(r, "lookup") /\ UNCHANGED <<rows, lapsed>>
  /\ UNCHANGED faulted

(* The commit raised something else: before it took effect, or after. *)
CommitFails(r) ==
  /\ "db" \in Faults
  /\ request[r].pc = "commit"
  /\ \/ IndexAdmits(r) /\ Insert(r)
     \/ UNCHANGED <<rows, lapsed>>
  /\ faulted' = TRUE
  /\ Goto(r, "cleanup")

(* Mutant: the loser of the race hands out the invoice it opened. *)
LookupOwnInvoice(r) ==
  /\ request[r].pc = "lookup"
  /\ Answer(r, r, TRUE)
  /\ UNCHANGED <<rows, lapsed, faulted>>

(* Mutant: the loser answers with the order it built and could not insert. *)
LookupOwnOrder(r) ==
  /\ request[r].pc = "lookup"
  /\ Answer(r, r, FALSE)
  /\ UNCHANGED <<rows, lapsed, faulted>>

(* Mutant: the loser insists on finding the winner. *)
LookupWinnerOnly(r) ==
  /\ request[r].pc = "lookup"
  /\ \E e \in Existing : Answer(r, e, FALSE)
  /\ UNCHANGED <<rows, lapsed, faulted>>

(* The winner of the race is fetched, again any row with the key, and        *)
(* returned without a look at its cart or its status.                        *)
Lookup(r) ==
  /\ request[r].pc = "lookup"
  /\ \/ UNCHANGED faulted /\ \E e \in Existing : Answer(r, e, FALSE)
     \/ UNCHANGED faulted /\ Existing = {} /\ Goto(r, "cleanup")
     \/ "db" \in Faults /\ faulted' = TRUE /\ Goto(r, "cleanup")
  /\ UNCHANGED <<rows, lapsed>>

(* DELETE of every row with the key, whoever inserted it; the foreign keys   *)
(* of credentials refuse it, and so may the database.  Then the 500.         *)
Cleanup(r) ==
  /\ request[r].pc = "cleanup"
  /\ Goto(r, "done")
  /\ \/ /\ \A e \in Requests : rows[e] \notin Delivered
        /\ rows' = [e \in Requests |-> "none"]
     \/ UNCHANGED rows
  /\ UNCHANGED <<lapsed, faulted>>

Crash(r) ==
  /\ "crash" \in Faults
  /\ request[r].pc \notin {"idle", "done"}
  /\ Goto(r, "done")
  /\ UNCHANGED <<rows, lapsed, faulted>>

-----------------------------------------------------------------------------
(* The rest of the system moves the rows on; the index refuses an UPDATE     *)
(* that would make a second row hold the key.                                *)
MoveRow(e, new) ==
  /\ new \notin Released => IndexAdmits(e)
  /\ rows' = [rows EXCEPT ![e] = new]
  /\ UNCHANGED <<request, faulted>>

(* A payment webhook: only live and expired orders are passed over. *)
PayRow(e) ==
  /\ rows[e] \notin {"none", "expired"} \cup Delivered
  /\ MoveRow(e, "paid")
  /\ UNCHANGED lapsed

(* The worker, with the credential's 30 days for the checkout's 30 minutes. *)
FulfilRow(e) ==
  /\ rows[e] \notin {"none"} \cup Delivered
  /\ MoveRow(e, "fulfilled")
  /\ lapsed' = [lapsed EXCEPT ![e] = FALSE]

FailRow(e) ==
  /\ rows[e] \notin {"none"} \cup Delivered
  /\ MoveRow(e, "failed")
  /\ UNCHANGED lapsed

RefundRow(e) ==
  /\ rows[e] \notin {"none", "refunded"}
  /\ MoveRow(e, "refunded")
  /\ UNCHANGED lapsed

RefulfilRow(e) ==
  /\ rows[e] \notin {"none", "cancelled", "refunded"}
  /\ MoveRow(e, "active")
  /\ UNCHANGED lapsed

CancelRow(e) ==
  /\ rows[e] \notin {"none", "cancelled", "refunded"}
  /\ MoveRow(e, "cancelled")
  /\ UNCHANGED lapsed

(* ORDER_TTL_MINUTES pass; the expiry cron finds the row as old as that. *)
Lapse(e) ==
  /\ rows[e] # "none"
  /\ ~lapsed[e]
  /\ lapsed' = [lapsed EXCEPT ![e] = TRUE]
  /\ UNCHANGED <<rows, request, faulted>>

ExpireRow(e) ==
  /\ rows[e] = "pending"
  /\ lapsed[e]
  /\ MoveRow(e, "expired")
  /\ UNCHANGED lapsed

-----------------------------------------------------------------------------
RequestProgress(r) ==
  \/ Invoice(r) \/ Commit(r) \/ CommitFails(r) \/ Lookup(r) \/ Cleanup(r)
RowStep(e) ==
  \/ PayRow(e) \/ FulfilRow(e) \/ FailRow(e) \/ RefundRow(e) \/ RefulfilRow(e)
  \/ CancelRow(e) \/ Lapse(e) \/ ExpireRow(e)

Next ==
  \E r \in Requests :
    \/ \E cart \in Carts : Begin(r, cart)
    \/ RequestProgress(r)
    \/ Crash(r)
    \/ RowStep(r)

Spec == Init /\ [][Next]_vars
FairSpec == Spec /\ \A r \in Requests : WF_vars(RequestProgress(r))
-----------------------------------------------------------------------------
(* Properties *)

(* Until a database call fails, requests with one key are told the same      *)
(* order, or one of the orders they were told is over: whoever wins the race *)
(* for the key, whatever row its losers and later retries fetch and whatever *)
(* becomes of the rows meanwhile, a customer who clicked twice never holds   *)
(* two open orders, nor the number of one that does not exist.               *)
Over(e) == rows[e] \in {"expired", "cancelled", "refunded"}
RetriesAgree ==
  ~faulted =>
    \A r, q \in Requests :
      LET a == request[r].answer
          b == request[q].answer
      IN  a # None /\ b # None /\ a # b => Over(a) \/ Over(b)

(* Until a database call fails, every checkout URL that was handed out       *)
(* belongs to an order row: what is paid there can be matched by the webhook.*)
UrlsHaveOrders ==
  ~faulted =>
    \A r \in Requests : request[r].url => rows[request[r].answer] # "none"

(* Every request that began gets its answer, also the ones that lose the     *)
(* race for the key or whose order is deleted under them.                    *)
RequestsAreAnswered ==
  \A r \in Requests : request[r].pc # "idle" ~> request[r].pc = "done"

=============================================================================
