---------------------------- MODULE CheckoutTabs ----------------------------
(***************************************************************************)
(* The browser tabs of one device.  A checkout tab records the payment it  *)
(* starts in localStorage, where it stops the others from paying for the   *)
(* same plan; the gateway sends the tab on to the thank-you page, which    *)
(* polls the order until it can show the outcome and removes the record.   *)
(* Answers are read by the server at one time and arrive at another, and   *)
(* several polls of one page may be under way.                             *)
(***************************************************************************)
EXTENDS Naturals, Sequences

CONSTANTS
  Plans,        \* plan codes
  Carts,        \* sequences of plans, as OrderClient builds them
  Tabs,         \* browser tabs
  Pays,         \* payments that may be started, the bound on clicks
  NoPay,        \* no payment
  Statuses,     \* what a status is to the page
  MaxAttempts,  \* maxAttempts (60)
  MaxFlight,    \* bound: polls of each tab's page under way at once
  MaxMoves      \* bound: status changes of orders

Slots(t) == 1 .. MaxFlight[t]

ASSUME TabsAssumption ==
  /\ NoPay \notin Pays /\ MaxAttempts \in Nat \ {0} /\ MaxFlight \in [Tabs -> Nat]
  /\ MaxMoves \in Nat /\ "waiting" \in Statuses
  /\ Statuses \subseteq {"waiting", "live", "closed", "down"}
  /\ Carts \subseteq Seq(Plans)
  /\ \A c \in Carts : Len(c) > 0 /\ \A i, j \in DOMAIN c : c[i] = c[j] => i = j

VARIABLES
  inflight,   \* the record in localStorage
  order,      \* the order of each payment, as the backend has it
  plans,      \* the cart each payment is for
  tab,        \* where each tab is, and the payment it is about
  page,       \* the thank-you page of each tab
  moves,      \* status changes so far
  opened,     \* history: payments whose checkout page the customer was sent to
  been,       \* history: statuses each order has had
  excused     \* history: payments whose own record was removed: it lapsed, was
              \*   released, or had done its work

history == <<opened, been, excused>>
vars == <<inflight, order, plans, tab, page, moves, history>>

Answers == Statuses \cup {"missing", "error"}
Verdict == [live |-> "details", closed |-> "failure", down |-> "providerDown"]
Page(t) == [loading : BOOLEAN, polling : BOOLEAN, shown : Statuses \cup {"none"},
         action : {"none", "details", "failure", "providerDown"},
         attempts : 0 .. MaxAttempts + MaxFlight[t],
         flight : [Slots(t) -> Answers \cup {"free", "sent"}]]
Nothing == [pay |-> NoPay, plan |-> "none"]

TypeOK ==
  /\ inflight \in [pay : Pays, plan : Plans] \cup {Nothing}
  /\ order \in [Pays -> Statuses \cup {"unused", "asked", "refused"}]
  /\ plans \in [Pays -> Carts \cup {<<>>}]
  /\ tab \in [Tabs -> [at : {"cart", "starting", "gateway", "thanks"},
                       pay : Pays \cup {NoPay}]]
  /\ DOMAIN page = Tabs /\ \A t \in Tabs : page[t] \in Page(t)
  /\ moves \in 0 .. MaxMoves
  /\ opened \in SUBSET Pays /\ been \in [Pays -> SUBSET Statuses]
  /\ excused \in SUBSET Pays

NewPage(t) == [loading |-> TRUE, polling |-> TRUE, shown |-> "none", action |-> "none",
            attempts |-> 0, flight |-> [s \in Slots(t) |-> IF s = 1 THEN "sent" ELSE "free"]]
NoPage(t) == [NewPage(t) EXCEPT !.loading = FALSE, !.polling = FALSE,
                                !.flight = [s \in Slots(t) |-> "free"]]

Init ==
  /\ inflight = Nothing
  /\ order = [p \in Pays |-> "unused"] /\ plans = [p \in Pays |-> <<>>]
  /\ tab = [t \in Tabs |-> [at |-> "cart", pay |-> NoPay]]
  /\ page = [t \in Tabs |-> NoPage(t)]
  /\ moves = 0
  /\ opened = {} /\ been = [p \in Pays |-> {}] /\ excused = {}

-----------------------------------------------------------------------------
(* The checkout page *)

(* tryStartOrder, item by item: the first meets the record of the device,   *)
(* each later one the record that the item before it has just written.      *)
Resumes(cart) == inflight.plan = cart[1]

(* handlePay up to its request: the last item's record stays. *)
StartPay(t, p, cart) ==
  /\ tab[t].at = "cart" /\ order[p] = "unused"
  /\ ~Resumes(cart)
  /\ inflight' = [pay |-> p, plan |-> cart[Len(cart)]]
  /\ order' = [order EXCEPT ![p] = "asked"]
  /\ plans' = [plans EXCEPT ![p] = cart]
  /\ tab' = [tab EXCEPT ![t] = [at |-> "starting", pay |-> p]]
  /\ UNCHANGED <<page, moves, opened, been, excused>>

(* POST /initiate-basket commits the order, or is refused. *)
Initiate(p) ==
  /\ order[p] = "asked"
  /\ \/ /\ order' = [order EXCEPT ![p] = "waiting"]
        /\ been' = [been EXCEPT ![p] = {"waiting"}]
     \/ order' = [order EXCEPT ![p] = "refused"] /\ UNCHANGED been
  /\ UNCHANGED <<inflight, plans, tab, page, moves, opened, excused>>

Redirected(t) ==
  /\ tab[t].at = "starting" /\ been[tab[t].pay] # {}
  /\ tab' = [tab EXCEPT ![t].at = "gateway"]
  /\ opened' = opened \cup {tab[t].pay}
  /\ UNCHANGED <<inflight, order, plans, page, moves, been, excused>>

(* A refusal, no URL, or an answer that never came: the record is removed,  *)
(* whosever it is by now.                                                   *)
Drop(p) ==
  /\ inflight' = Nothing
  /\ excused' = IF inflight.pay = p THEN excused \cup {p} ELSE excused
StartFails(t) ==
  /\ tab[t].at = "starting"
  /\ Drop(tab[t].pay)
  /\ tab' = [tab EXCEPT ![t] = [at |-> "cart", pay |-> NoPay]]
  /\ UNCHANGED <<order, plans, page, moves, opened, been>>

(* The five minutes are over, or the customer releases the lock himself. *)
Release ==
  /\ inflight # Nothing
  /\ Drop(inflight.pay)
  /\ UNCHANGED <<order, plans, tab, page, moves, opened, been>>

-----------------------------------------------------------------------------
(* The thank-you page *)

Return(t) ==
  /\ tab[t].at = "gateway" /\ Slots(t) # {}
  /\ tab' = [tab EXCEPT ![t].at = "thanks"]
  /\ page' = [page EXCEPT ![t] = NewPage(t)]
  /\ UNCHANGED <<inflight, order, plans, moves, history>>

(* Another cart: the page is unmounted, and answers under way are ignored. *)
Leave(t) ==
  /\ tab[t].at \in {"gateway", "thanks"}
  /\ tab' = [tab EXCEPT ![t] = [at |-> "cart", pay |-> NoPay]]
  /\ page' = [page EXCEPT ![t] = NoPage(t)]
  /\ UNCHANGED <<inflight, order, plans, moves, history>>

Send(t) == \E s \in Slots(t) :
  /\ page[t].flight[s] = "free"
  /\ page' = [page EXCEPT ![t].flight[s] = "sent"]
GiveUp(t) == page' = [page EXCEPT ![t].loading = FALSE, ![t].polling = FALSE]

(* Mutant: terminal states stop the poll. *)
TickUntilVerdict(t) ==
  /\ page[t].polling
  /\ IF page[t].attempts >= MaxAttempts \/ page[t].action # "none"
     THEN GiveUp(t) ELSE Send(t)
  /\ UNCHANGED <<inflight, order, plans, tab, moves, history>>
(* Mutant: the attempts are compared for the display only. *)
TickForever(t) ==
  /\ page[t].polling /\ Send(t)
  /\ UNCHANGED <<inflight, order, plans, tab, moves, history>>
(* The interval of 3.5 seconds; only the attempts end it. *)
Tick(t) ==
  /\ page[t].polling
  /\ IF page[t].attempts >= MaxAttempts THEN GiveUp(t) ELSE Send(t)
  /\ UNCHANGED <<inflight, order, plans, tab, moves, history>>

(* Mutant: the reference finds the newest order of the device. *)
FindsNewest(p) ==
  {order[q] : q \in {r \in Pays : been[r] # {}}} \cup {"missing"}
(* get_order_by_payment_reference. *)
Finds(p) == {IF been[p] = {} THEN "missing" ELSE order[p]}

Serve(t, s) ==
  /\ page[t].flight[s] = "sent"
  /\ \E answer \in Finds(tab[t].pay) \cup {"error"} :
       page' = [page EXCEPT ![t].flight[s] = answer]
  /\ UNCHANGED <<inflight, order, plans, tab, moves, history>>

(* Mutant: an error is swallowed without being counted. *)
CountedStatuses(answer) == answer \in {"waiting", "missing"}
(* A 404, an error and a status to wait on count as attempts. *)
Counted(answer) == answer \in {"waiting", "missing", "error"}

Arrive(t, s) ==
  LET answer == page[t].flight[s] IN
  /\ answer \in Answers
  /\ page' = [page EXCEPT
       ![t].flight[s] = "free",
       ![t].shown = IF answer \in Statuses THEN answer ELSE @,
       ![t].attempts = IF Counted(answer) THEN @ + 1 ELSE @,
       ![t].loading = @ /\ answer \notin DOMAIN Verdict,
       ![t].action = IF answer \in DOMAIN Verdict THEN Verdict[answer] ELSE @]
  /\ IF answer = "live" THEN Drop(tab[t].pay)
                        ELSE UNCHANGED <<inflight, excused>>
  /\ UNCHANGED <<order, plans, tab, moves, opened, been>>

(* The rest of the system moves orders, in every direction it knows. *)
MoveOrder(p) ==
  /\ been[p] # {} /\ moves < MaxMoves /\ moves' = moves + 1
  /\ \E status \in Statuses \ {order[p]} :
       /\ order' = [order EXCEPT ![p] = status]
       /\ been' = [been EXCEPT ![p] = @ \cup {status}]
  /\ UNCHANGED <<inflight, plans, tab, page, opened, excused>>

Next ==
  \/ \E t \in Tabs, p \in Pays, cart \in Carts : StartPay(t, p, cart)
  \/ \E p \in Pays : Initiate(p) \/ MoveOrder(p)
  \/ \E t \in Tabs :
       \/ Redirected(t) \/ StartFails(t) \/ Return(t) \/ Leave(t) \/ Tick(t)
       \/ \E s \in Slots(t) : Serve(t, s) \/ Arrive(t, s)
  \/ Release

Spec == Init /\ [][Next]_vars
(* Timers fire and requests are answered or fail; customers owe nothing. *)
FairSpec == Spec /\ \A t \in Tabs :
  /\ WF_vars(Tick(t))
  /\ \A s \in Slots(t) : WF_vars(Serve(t, s) \/ Arrive(t, s))

-----------------------------------------------------------------------------
(* What a thank-you page announces has been true of its own order, in       *)
(* whatever order the answers came in (fetchOrderStatus).                   *)
AnnouncementsWereTrue ==
  \A t \in Tabs : tab[t].at = "thanks" =>
    /\ page[t].shown # "none" => page[t].shown \in been[tab[t].pay]
    /\ page[t].action # "none" =>
         \E status \in been[tab[t].pay] \cap DOMAIN Verdict :
           page[t].action = Verdict[status]

(* No page spins for ever: it comes to a verdict or gives up, however often *)
(* the requests fail and however they overlap (the attempts of the poll).   *)
PagesSettle ==
  \A t \in Tabs : (tab[t].at = "thanks" /\ page[t].loading) ~> ~page[t].loading

(* Why it does: as long as a page goes on loading it goes on polling, and   *)
(* each of its steps uses up an attempt, or else carries one of its polls   *)
(* from sending to an answer.  No answer is taken in without either an      *)
(* attempt or the end of the loading, whatever overlaps (fetchOrderStatus). *)
Carried(t, s) ==
  /\ <<page[t].flight[s], page'[t].flight[s]>> \in
       {<<"free", "sent">>} \cup ({"sent"} \X Answers)
  /\ \A u \in Slots(t) \ {s} : page'[t].flight[u] = page[t].flight[u]
Advances(t) ==
  /\ page'[t].polling
  /\ \/ page[t].attempts < page'[t].attempts
     \/ /\ page'[t].attempts = page[t].attempts
        /\ \E s \in Slots(t) : Carried(t, s)
PagesOnlyMoveOn ==
  [][\A t \in Tabs :
       page[t].loading /\ page'[t].loading /\ page'[t] # page[t] => Advances(t)]_vars

(* A page that stays open shows the order as delivered once it is and       *)
(* stays so, unless it has used its attempts up: an answer that was read    *)
(* before the delivery and arrives after it does not have the last word     *)
(* (setOrder in fetchOrderStatus, and the interval that goes on).           *)
PagesCatchUp ==
  \A t \in Tabs, p \in Pays :
    <>[](tab[t] = [at |-> "thanks", pay |-> p] /\ order[p] = "live") =>
      <>[](page[t].shown = "live" \/ page[t].attempts >= MaxAttempts)

Open == {p \in opened : order[p] = "waiting"}
SharePlan(p, q) ==
  \E i \in DOMAIN plans[p], j \in DOMAIN plans[q] : plans[p][i] = plans[q][j]

(* One payment for a plan at a time: within the five minutes, and unless    *)
(* the customer releases the lock, a second click on Pay resumes the first  *)
(* (device-id.ts on in-flight order tracking).                              *)
DoublePaymentsArePrevented ==
  \A p, q \in Open : p # q /\ SharePlan(p, q) => {p, q} \cap excused # {}
=============================================================================
