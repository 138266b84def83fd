---------------------- MODULE CheckoutIdempotencyProofs ----------------------
(***************************************************************************)
(* Proofs about CheckoutIdempotency for every number of requests with one  *)
(* key, every set of carts and every combination of faults.                *)
(***************************************************************************)
EXTENDS CheckoutIdempotency, TLAPS

(* What the unique index guarantees of the rows, whoever writes them. *)
OneOpenOrder ==
  \A e, f \in Requests : Holds(e) /\ Holds(f) => e = f

(* Until a database call fails nobody deletes rows: the loser of the race for*)
(* the key finds the winner's row, in whatever state, or another one, and    *)
(* what a request was told goes on to exist.                                 *)
NobodyDeletes ==
  ~faulted =>
    \A r \in Requests :
      /\ request[r].pc # "cleanup"
      /\ request[r].pc = "lookup" => Existing # {}
      /\ request[r].url => request[r].answer \in Requests
      /\ request[r].answer # None => rows[request[r].answer] # "none"

IInv == TypeOK /\ OneOpenOrder /\ NobodyDeletes /\ UrlsHaveOrders

RequestStep(r) ==
  \/ \E cart \in Carts : Begin(r, cart)
  \/ RequestProgress(r)
  \/ Crash(r)

-----------------------------------------------------------------------------
LEMMA InitIInv == Init => IInv
<1> SUFFICES ASSUME Init PROVE IInv
  OBVIOUS
<1>1. TypeOK
  BY DEF Init, TypeOK, RowStatus, RequestState
<1>2. OneOpenOrder
  BY DEF Init, OneOpenOrder, Holds, Released
<1>3. \A r \in Requests : /\ request[r].pc = "idle" /\ request[r].url = FALSE
                          /\ request[r].answer = None
  BY DEF Init
<1>4. QED
  BY <1>1, <1>2, <1>3 DEF IInv, NobodyDeletes, UrlsHaveOrders

LEMMA NextTypes ==
  ASSUME TypeOK, [Next]_vars PROVE TypeOK'
<1> USE DEF TypeOK, RequestState
<1>1. ASSUME NEW r \in Requests, NEW cart \in Carts, Begin(r, cart) PROVE TypeOK'
  <2>1. CASE \E e \in Existing :
               LET replay == cart \in BasketCarts \/ request[e].cart = cart IN
               request' = [request EXCEPT ![r] =
                 [pc |-> "done", cart |-> cart,
                  answer |-> IF replay THEN e ELSE None, url |-> FALSE]]
    <3>1. request' \in [Requests -> RequestState]
      BY <2>1 DEF Existing
    <3>2. QED
      BY <1>1, <3>1 DEF Begin
  <2>2. CASE request' = [request EXCEPT ![r].pc = "invoice", ![r].cart = cart]
    <3>1. request' \in [Requests -> RequestState]
      BY <2>2
    <3>2. QED
      BY <1>1, <3>1 DEF Begin
  <2>3. QED
    BY <1>1, <2>1, <2>2 DEF Begin
<1>2. ASSUME NEW r \in Requests, NEW pc \in {"commit", "lookup", "cleanup", "done"},
             Goto(r, pc)
      PROVE  request' \in [Requests -> RequestState]
  BY <1>2 DEF Goto
<1>3. ASSUME NEW r \in Requests, NEW e \in Requests, NEW url \in BOOLEAN,
             Answer(r, e, url)
      PROVE  request' \in [Requests -> RequestState]
  <2>1. [pc |-> "done", cart |-> request[r].cart, answer |-> e, url |-> url]
          \in RequestState
    OBVIOUS
  <2>2. QED
    BY <1>3, <2>1 DEF Answer
<1>4. ASSUME NEW r \in Requests, Insert(r)
      PROVE  rows' \in [Requests -> RowStatus] /\ lapsed' \in [Requests -> BOOLEAN]
  BY <1>4 DEF Insert, RowStatus
<1>5. ASSUME NEW r \in Requests, RequestProgress(r) \/ Crash(r) PROVE TypeOK'
  <2>1. CASE Invoice(r) \/ Crash(r)
    BY <1>2, <2>1 DEF Invoice, Crash
  <2>2. CASE Commit(r)
    BY <1>2, <1>3, <1>4, <2>2 DEF Commit
  <2>3. CASE CommitFails(r)
    BY <1>2, <1>4, <2>3 DEF CommitFails
  <2>4. CASE Lookup(r)
    BY <1>2, <1>3, <2>4 DEF Lookup, Existing
  <2>5. CASE Cleanup(r)
    BY <1>2, <2>5 DEF Cleanup, RowStatus
  <2>6. QED
    BY <1>5, <2>1, <2>2, <2>3, <2>4, <2>5 DEF RequestProgress
<1>6. ASSUME NEW e \in Requests, RowStep(e) PROVE TypeOK'
  BY <1>6 DEF RowStep, PayRow, FulfilRow, FailRow, RefundRow, RefulfilRow, CancelRow,
              Lapse, ExpireRow, MoveRow, RowStatus
<1>7. QED
  BY <1>1, <1>5, <1>6 DEF Next, vars

(* What a step may do to the rows: insert one or move one where the index    *)
(* admits it, delete all of them, or release one.                            *)
LEMMA RowsMove ==
  ASSUME TypeOK, [Next]_vars
  PROVE  \/ rows' = rows
         \/ \E e \in Requests, new \in RowStatus :
              /\ rows' = [rows EXCEPT ![e] = new]
              /\ new # "none"
              /\ new \notin Released => IndexAdmits(e)
         \/ \E r \in Requests : Cleanup(r) /\ rows' = [e \in Requests |-> "none"]
<1>1. ASSUME NEW r \in Requests, NEW cart \in Carts, Begin(r, cart)
      PROVE  rows' = rows
  BY <1>1 DEF Begin
<1>2. ASSUME NEW r \in Requests, Invoice(r) \/ Lookup(r) \/ Crash(r)
      PROVE  rows' = rows
  BY <1>2 DEF Invoice, Lookup, Crash
<1>3. ASSUME NEW r \in Requests, Commit(r) \/ CommitFails(r)
      PROVE  \/ rows' = rows
             \/ rows' = [rows EXCEPT ![r] = "pending"] /\ IndexAdmits(r)
  BY <1>3 DEF Commit, CommitFails, Insert
<1>4. ASSUME NEW r \in Requests, Cleanup(r)
      PROVE  rows' = rows \/ rows' = [e \in Requests |-> "none"]
  BY <1>4 DEF Cleanup
<1>5. ASSUME NEW e \in Requests, RowStep(e)
      PROVE  \/ rows' = rows
             \/ \E new \in RowStatus :
                  /\ rows' = [rows EXCEPT ![e] = new]
                  /\ new # "none"
                  /\ new \notin Released => IndexAdmits(e)
  <2>1. CASE Lapse(e)
    BY <2>1 DEF Lapse
  <2>2. ASSUME NEW new \in RowStatus \ {"none"}, MoveRow(e, new)
        PROVE  /\ rows' = [rows EXCEPT ![e] = new]
               /\ new # "none"
               /\ new \notin Released => IndexAdmits(e)
    BY <2>2 DEF MoveRow
  <2>3. QED
    BY <1>5, <2>1, <2>2 DEF RowStep, PayRow, FulfilRow, FailRow, RefundRow,
                            RefulfilRow, CancelRow, ExpireRow, RowStatus
<1>6. QED
  BY <1>1, <1>2, <1>3, <1>4, <1>5 DEF Next, vars, RequestProgress, RowStatus, Released

LEMMA NextOneOpenOrder ==
  ASSUME TypeOK, OneOpenOrder, [Next]_vars PROVE OneOpenOrder'
<1> USE DEF TypeOK, OneOpenOrder, Holds
<1>1. CASE rows' = rows
  BY <1>1
<1>2. ASSUME NEW e \in Requests, NEW new \in RowStatus,
             rows' = [rows EXCEPT ![e] = new],
             new \notin Released => IndexAdmits(e)
      PROVE  OneOpenOrder'
  BY <1>2 DEF IndexAdmits
<1>3. CASE rows' = [e \in Requests |-> "none"]
  BY <1>3 DEF Released
<1>4. QED
  BY <1>1, <1>2, <1>3, RowsMove

-----------------------------------------------------------------------------
LEMMA FaultsStay ==
  ASSUME [Next]_vars, faulted PROVE faulted'
BY DEF Next, vars, RequestProgress, Begin, Invoice, Commit, CommitFails, Lookup,
       Cleanup, Crash, RowStep, PayRow, FulfilRow, FailRow, RefundRow, RefulfilRow,
       CancelRow, Lapse, ExpireRow, MoveRow

LEMMA RowsStay ==
  ASSUME IInv, [Next]_vars, ~faulted, NEW e \in Requests, rows[e] # "none"
  PROVE  rows'[e] # "none"
<1>1. \A r \in Requests : ~Cleanup(r)
  BY DEF IInv, NobodyDeletes, Cleanup
<1>2. QED
  BY <1>1, RowsMove DEF IInv, TypeOK

LEMMA NextUrls ==
  ASSUME IInv, [Next]_vars PROVE NobodyDeletes' /\ UrlsHaveOrders'
<1> SUFFICES ASSUME ~faulted', NEW r \in Requests
             PROVE  /\ request'[r].pc # "cleanup"
                    /\ request'[r].pc = "lookup" => Existing' # {}
                    /\ request'[r].url =>
                         request'[r].answer \in Requests
                           /\ rows'[request'[r].answer] # "none"
                    /\ request'[r].answer # None => rows'[request'[r].answer] # "none"
  BY DEF NobodyDeletes, UrlsHaveOrders
<1>0. ~faulted
  BY FaultsStay
<1> USE <1>0 DEF IInv, TypeOK, RequestState
<1>1. CASE request'[r] = request[r]
  BY <1>1, RowsStay DEF NobodyDeletes, UrlsHaveOrders, Existing
<1>2. CASE request'[r] # request[r]
  <2>1. RequestStep(r)
    <3>1. PICK q \in Requests : RequestStep(q) \/ RowStep(q)
      BY <1>2 DEF Next, vars, RequestStep
    <3>2. RowStep(q) => request' = request
      BY DEF RowStep, PayRow, FulfilRow, FailRow, RefundRow, RefulfilRow, CancelRow,
             Lapse, ExpireRow, MoveRow
    <3>3. RequestStep(q) /\ q # r => request'[r] = request[r]
      BY DEF RequestStep, RequestProgress, Begin, Invoice, Commit, CommitFails,
             Lookup, Cleanup, Crash, Goto, Answer
    <3>4. QED
      BY <1>2, <3>1, <3>2, <3>3
  <2>2. CASE \E cart \in Carts : Begin(r, cart)
    <3>1. PICK cart \in Carts : Begin(r, cart)
      BY <2>2
    <3>2. CASE request' = [request EXCEPT ![r].pc = "invoice", ![r].cart = cart]
      <4>1. /\ request'[r].pc = "invoice"
            /\ request'[r].url = request[r].url /\ request'[r].answer = request[r].answer
        BY <3>2
      <4>2. QED
        BY <4>1, RowsStay DEF NobodyDeletes, UrlsHaveOrders
    <3>3. CASE request' # [request EXCEPT ![r].pc = "invoice", ![r].cart = cart]
      <4>1. PICK e \in Existing :
              request' = [request EXCEPT ![r] =
                [pc |-> "done", cart |-> cart,
                 answer |-> IF cart \in BasketCarts \/ request[e].cart = cart
                            THEN e ELSE None,
                 url |-> FALSE]]
        BY <3>1, <3>3 DEF Begin
      <4>2. /\ request'[r].pc = "done" /\ request'[r].url = FALSE
            /\ request'[r].answer \in {e, None}
        BY <4>1
      <4>3. rows' = rows
        BY <3>1 DEF Begin
      <4>4. QED
        BY <4>2, <4>3 DEF Existing
    <3>4. QED
      BY <3>2, <3>3
  <2>3. CASE Invoice(r) \/ Crash(r)
    <3>1. /\ request'[r].pc \in {"commit", "done"}
          /\ request'[r].url = request[r].url /\ request'[r].answer = request[r].answer
      BY <2>3 DEF Invoice, Crash, Goto
    <3>2. QED
      BY <3>1, RowsStay DEF NobodyDeletes, UrlsHaveOrders
  <2>4. CASE Commit(r)
    <3>1. CASE IndexAdmits(r) /\ Insert(r) /\ Answer(r, r, TRUE)
      BY <3>1 DEF Insert, Answer
    <3>2. CASE ~IndexAdmits(r) /\ Goto(r, "lookup") /\ UNCHANGED <<rows, lapsed>>
      <4>1. /\ request'[r].pc = "lookup"
            /\ request'[r].url = request[r].url /\ request'[r].answer = request[r].answer
        BY <3>2 DEF Goto
      <4>2. Existing' # {}
        BY <3>2 DEF IndexAdmits, Holds, Released, Existing
      <4>3. QED
        BY <4>1, <4>2, RowsStay DEF NobodyDeletes, UrlsHaveOrders
    <3>3. QED
      BY <2>4, <3>1, <3>2 DEF Commit
  <2>5. CASE Lookup(r)
    <3>1. Existing # {}
      BY <2>5 DEF Lookup, NobodyDeletes
    <3>2. PICK e \in Existing : Answer(r, e, FALSE)
      BY <2>5, <3>1 DEF Lookup
    <3>3. rows' = rows
      BY <2>5 DEF Lookup
    <3>4. /\ request'[r].pc = "done" /\ request'[r].url = FALSE
          /\ request'[r].answer = e
      BY <3>2 DEF Answer
    <3>5. QED
      BY <3>3, <3>4 DEF Existing
  <2>6. CASE CommitFails(r) \/ Cleanup(r)
    BY <2>6 DEF CommitFails, Cleanup, NobodyDeletes
  <2>7. QED
    BY <2>1, <2>2, <2>3, <2>4, <2>5, <2>6 DEF RequestStep, RequestProgress
<1>3. QED
  BY <1>1, <1>2

LEMMA Invariance == Spec => []IInv
<1>1. IInv /\ [Next]_vars => IInv'
  BY NextTypes, NextOneOpenOrder, NextUrls DEF IInv
<1>2. QED
  BY <1>1, InitIInv, PTL DEF Spec

(* Rows and requests keep their types. *)
THEOREM TypeCorrect == Spec => []TypeOK
<1>1. IInv => TypeOK
  BY DEF IInv
<1>2. QED
  BY <1>1, Invariance, PTL

(* However many requests carry one key, and whatever dies, until a database  *)
(* call fails any two of them were told the same order, or one of the two    *)
(* orders is expired, cancelled or refunded by now.                          *)
THEOREM RetriesAlwaysAgree == Spec => []RetriesAgree
<1>1. IInv => RetriesAgree
  <2>1. SUFFICES ASSUME IInv, ~faulted, NEW r \in Requests, NEW q \in Requests,
                        request[r].answer # None, request[q].answer # None,
                        ~Over(request[r].answer), ~Over(request[q].answer)
                 PROVE  request[r].answer = request[q].answer
    BY DEF RetriesAgree
  <2>2. ASSUME NEW p \in Requests, request[p].answer # None, ~Over(request[p].answer)
        PROVE  request[p].answer \in Requests /\ Holds(request[p].answer)
    <3>1. request[p].answer \in Requests
      BY <2>1, <2>2 DEF IInv, TypeOK, RequestState
    <3>2. rows[request[p].answer] # "none"
      BY <2>1, <2>2 DEF IInv, NobodyDeletes
    <3>3. QED
      BY <2>2, <3>1, <3>2 DEF Over, Holds, Released
  <2>3. QED
    BY <2>1, <2>2 DEF IInv, OneOpenOrder
<1>2. QED
  BY <1>1, Invariance, PTL

(* Until a database call fails, no checkout URL outlives its order row.      *)
THEOREM UrlsAlwaysHaveOrders == Spec => []UrlsHaveOrders
<1>1. IInv => UrlsHaveOrders
  BY DEF IInv
<1>2. QED
  BY <1>1, Invariance, PTL
=============================================================================
