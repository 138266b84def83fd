--------------------------- MODULE PaymentPromise ---------------------------
(***************************************************************************)
(* What the payment and fulfilment code promises about a customer's money, *)
(* without rows, requests, queues or crons: automatic fulfilment is only   *)
(* ever commissioned for an order whose money was taken, and the books     *)
(* only come to say "refunded" once the money went back.                   *)
(***************************************************************************)
CONSTANT Orders

VARIABLES
  money,        \* where the customer's money is
  books,        \* what the order row says of it
  commissioned  \* the orders automatic fulfilment has in hand

promised == <<money, books, commissioned>>

Init ==
  /\ money = [o \in Orders |-> "none"]
  /\ books = [o \in Orders |-> "open"]
  /\ commissioned = {}

(* Taken once, given back after that, never silently kept again. *)
MoneyMoves(o) ==
  \/ money'[o] = money[o]
  \/ money[o] = "none" /\ money'[o] = "held"
  \/ money[o] = "held" /\ money'[o] = "returned"

BooksFollow(o) ==
  \/ books'[o] = books[o]
  \/ books'[o] = "open"
  \/ books'[o] = "refunded" /\ money[o] = "returned"

WorkFollows(o) ==
  \/ o \in commissioned
  \/ o \notin commissioned'
  \/ money[o] # "none"

Next == \A o \in Orders : MoneyMoves(o) /\ BooksFollow(o) /\ WorkFollows(o)

Spec == Init /\ [][Next]_promised
=============================================================================
