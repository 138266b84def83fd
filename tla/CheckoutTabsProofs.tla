------------------------- MODULE CheckoutTabsProofs -------------------------
(***************************************************************************)
(* Proofs about CheckoutTabs for any number of tabs and payments, any      *)
(* carts, any number of polls under way and any number of attempts.        *)
(***************************************************************************)
EXTENDS CheckoutTabs, FiniteSetTheorems, TLAPS

-----------------------------------------------------------------------------
(* A thank-you page *)

(* Attempts counted and polls under way together never exceed the bound, so  *)
(* overlapping answers cannot push the count past it.                        *)
Flying(t, view) == {s \in Slots(t) : view.flight[s] # "free"}
WellPage(t, view) ==
  /\ view \in Page(t)
  /\ view.attempts + Cardinality(Flying(t, view)) <= MaxAttempts + MaxFlight[t]

LEMMA Bounds ==
  ASSUME NEW t \in Tabs
  PROVE  /\ MaxFlight[t] \in Nat /\ MaxAttempts \in Nat /\ MaxAttempts > 0
         /\ IsFiniteSet(Slots(t)) /\ Cardinality(Slots(t)) = MaxFlight[t]
<1>1. MaxFlight[t] \in Nat /\ MaxAttempts \in Nat /\ MaxAttempts > 0
  BY TabsAssumption
<1>2. IsFiniteSet(1 .. MaxFlight[t]) /\ Cardinality(1 .. MaxFlight[t]) = MaxFlight[t]
  BY <1>1, FS_Interval
<1>3. QED
  BY <1>1, <1>2 DEF Slots

LEMMA FlyingBound ==
  ASSUME NEW t \in Tabs, NEW view
  PROVE  /\ IsFiniteSet(Flying(t, view)) /\ Cardinality(Flying(t, view)) \in Nat
         /\ Cardinality(Flying(t, view)) <= MaxFlight[t]
<1>1. Flying(t, view) \in SUBSET Slots(t)
  BY DEF Flying
<1>2. QED
  BY <1>1, Bounds, FS_Subset, FS_CardinalityType

LEMMA FreshPages ==
  ASSUME NEW t \in Tabs PROVE WellPage(t, NewPage(t)) /\ WellPage(t, NoPage(t))
<1>0. 0 \in 0 .. MaxAttempts + MaxFlight[t]
  BY Bounds
<1>1. NewPage(t) \in Page(t) /\ NoPage(t) \in Page(t)
  <2>1. \A flight \in [Slots(t) -> {"free", "sent"}], b \in BOOLEAN :
          [loading |-> b, polling |-> b, shown |-> "none", action |-> "none",
           attempts |-> 0, flight |-> flight] \in Page(t)
    BY <1>0 DEF Page
  <2>2. /\ [s \in Slots(t) |-> IF s = 1 THEN "sent" ELSE "free"] \in [Slots(t) -> {"free", "sent"}]
        /\ [s \in Slots(t) |-> "free"] \in [Slots(t) -> {"free", "sent"}]
    OBVIOUS
  <2>3. NewPage(t) \in Page(t)
    BY <2>1, <2>2 DEF NewPage, Page
  <2>4. ASSUME NEW view \in Page(t), NEW flight \in [Slots(t) -> {"free", "sent"}]
        PROVE  [view EXCEPT !.loading = FALSE, !.polling = FALSE, !.flight = flight] \in Page(t)
    BY DEF Page
  <2>5. QED
    BY <2>2, <2>3, <2>4 DEF NoPage
<1>2. NewPage(t).attempts = 0 /\ NoPage(t).attempts = 0
  BY DEF NewPage, NoPage
<1>3. QED
  BY <1>1, <1>2, Bounds, FlyingBound DEF WellPage

LEMMA SendWell ==
  ASSUME NEW t \in Tabs, NEW view, WellPage(t, view), view.attempts < MaxAttempts,
         NEW s \in Slots(t)
  PROVE  WellPage(t, [view EXCEPT !.flight = [view.flight EXCEPT ![s] = "sent"]])
<1> DEFINE next == [view EXCEPT !.flight = [view.flight EXCEPT ![s] = "sent"]]
<1>1. next \in Page(t) /\ next.attempts = view.attempts /\ view.attempts \in Nat
  BY Bounds DEF WellPage, Page
<1> HIDE DEF next
<1>2. QED
  BY <1>1, Bounds, FlyingBound DEF WellPage, next

LEMMA GiveUpWell ==
  ASSUME NEW t \in Tabs, NEW view, WellPage(t, view)
  PROVE  WellPage(t, [view EXCEPT !.loading = FALSE, !.polling = FALSE])
<1> DEFINE next == [view EXCEPT !.loading = FALSE, !.polling = FALSE]
<1>1. next \in Page(t) /\ next.attempts = view.attempts /\ next.flight = view.flight
  BY DEF WellPage, Page
<1>2. Flying(t, next) = Flying(t, view)
  BY <1>1 DEF Flying
<1> HIDE DEF next
<1>3. QED
  BY <1>1, <1>2 DEF WellPage, next

LEMMA ServeWell ==
  ASSUME NEW t \in Tabs, NEW view, WellPage(t, view), NEW s \in Slots(t),
         view.flight[s] = "sent", NEW answer \in Answers
  PROVE  WellPage(t, [view EXCEPT !.flight = [view.flight EXCEPT ![s] = answer]])
<1> DEFINE next == [view EXCEPT !.flight = [view.flight EXCEPT ![s] = answer]]
<1>1. /\ next \in Page(t) /\ next.attempts = view.attempts
      /\ view.flight \in [Slots(t) -> Answers \cup {"free", "sent"}]
      /\ next.flight = [view.flight EXCEPT ![s] = answer]
  BY DEF WellPage, Page
<1>2. answer # "free"
  BY TabsAssumption DEF Answers
<1> HIDE DEF next
<1>3. Flying(t, next) = Flying(t, view)
  BY <1>1, <1>2 DEF Flying
<1>4. QED
  BY <1>1, <1>3 DEF WellPage, next

(* The page after an answer has arrived. *)
Answered(view, s, answer) ==
  [view EXCEPT !.flight = [view.flight EXCEPT ![s] = "free"],
               !.shown = IF answer \in Statuses THEN answer ELSE @,
               !.attempts = IF Counted(answer) THEN @ + 1 ELSE @,
               !.loading = @ /\ answer \notin DOMAIN Verdict,
               !.action = IF answer \in DOMAIN Verdict THEN Verdict[answer] ELSE @]

LEMMA Verdicts ==
  \A answer \in DOMAIN Verdict : Verdict[answer] \in {"details", "failure", "providerDown"}
<1>1. DOMAIN Verdict = {"live", "closed", "down"}
  BY DEF Verdict
<1>2. Verdict["live"] = "details" /\ Verdict["closed"] = "failure"
      /\ Verdict["down"] = "providerDown"
  BY DEF Verdict
<1>3. QED
  BY <1>1, <1>2

LEMMA ArriveWell ==
  ASSUME NEW t \in Tabs, NEW view, WellPage(t, view), NEW s \in Slots(t),
         view.flight[s] \in Answers
  PROVE  WellPage(t, Answered(view, s, view.flight[s]))
<1> DEFINE answer == view.flight[s]
           next == Answered(view, s, answer)
<1>1. view \in Page(t) /\ view.attempts \in Nat
      /\ view.flight \in [Slots(t) -> Answers \cup {"free", "sent"}]
  BY Bounds DEF WellPage, Page
<1>2. answer # "free"
  BY TabsAssumption DEF Answers
<1>3. /\ next.flight = [view.flight EXCEPT ![s] = "free"]
      /\ next.attempts \in {view.attempts, view.attempts + 1}
  BY <1>1 DEF Answered, Page
<1>4. Flying(t, next) = Flying(t, view) \ {s} /\ s \in Flying(t, view)
  BY <1>1, <1>2, <1>3 DEF Flying
<1>5. Cardinality(Flying(t, next)) = Cardinality(Flying(t, view)) - 1
  BY <1>4, FlyingBound, FS_RemoveElement
<1>6. next.attempts + Cardinality(Flying(t, next)) <= MaxAttempts + MaxFlight[t]
  BY <1>1, <1>3, <1>5, FlyingBound, Bounds DEF WellPage
<1>7. next.attempts \in 0 .. MaxAttempts + MaxFlight[t]
  BY <1>1, <1>3, <1>6, FlyingBound, Bounds
<1>8. next \in Page(t)
  <2> DEFINE shown == IF answer \in Statuses THEN answer ELSE view.shown
             loading == view.loading /\ answer \notin DOMAIN Verdict
             action == IF answer \in DOMAIN Verdict THEN Verdict[answer] ELSE view.action
  <2>1. shown \in Statuses \cup {"none"}
    BY <1>1 DEF Page
  <2>2. loading \in BOOLEAN
    OBVIOUS
  <2>3. action \in {"none", "details", "failure", "providerDown"}
    BY <1>1, Verdicts DEF Page
  <2>4. next = [view EXCEPT !.flight = next.flight, !.shown = shown,
                  !.attempts = next.attempts, !.loading = loading, !.action = action]
    BY <1>1, <1>3 DEF Answered, Page
  <2>5. next.flight \in [Slots(t) -> Answers \cup {"free", "sent"}]
    BY <1>1, <1>3
  <2> HIDE DEF shown, loading, action, next
  <2>6. QED
    BY <1>1, <1>7, <2>1, <2>2, <2>3, <2>4, <2>5 DEF Page
<1>9. QED
  BY <1>6, <1>8 DEF WellPage

-----------------------------------------------------------------------------
(* Tabs, payments and orders *)

TabsHavePays == \A t \in Tabs : tab[t].at # "cart" => tab[t].pay \in Pays
(* An order that has had a status has one of those it has had. *)
OrdersHaveBeen == \A p \in Pays : been[p] # {} => order[p] \in been[p]
(* What a page shows, is told and announces was true of its order.           *)
PageWasTrue(t) == tab[t].at = "thanks" =>
  /\ \A s \in Slots(t) : page[t].flight[s] \in Statuses =>
       page[t].flight[s] \in been[tab[t].pay]
  /\ page[t].shown # "none" => page[t].shown \in been[tab[t].pay]
  /\ page[t].action # "none" =>
       \E status \in been[tab[t].pay] \cap DOMAIN Verdict : page[t].action = Verdict[status]

(* A tab elsewhere has no page. *)
ThanksHavePages == \A t \in Tabs : tab[t].at # "thanks" => page[t] = NoPage(t)

TypeInv ==
  /\ TypeOK /\ TabsHavePays /\ OrdersHaveBeen /\ ThanksHavePages
  /\ \A t \in Tabs : WellPage(t, page[t])

TabsInv == TypeInv /\ \A t \in Tabs : PageWasTrue(t)

LEMMA TabsInit == Init => TabsInv
<1> SUFFICES ASSUME Init PROVE TabsInv
  OBVIOUS
<1>1. DOMAIN page = Tabs /\ \A t \in Tabs : page[t] = NoPage(t)
  BY DEF Init
<1>2. \A t \in Tabs : WellPage(t, page[t])
  BY <1>1, FreshPages
<1>3. TypeOK
  <2>1. moves \in 0 .. MaxMoves
    BY TabsAssumption DEF Init
  <2>2. \A t \in Tabs : page[t] \in Page(t)
    BY <1>2 DEF WellPage
  <2>3. QED
    BY <1>1, <2>1, <2>2 DEF Init, TypeOK
<1>4. TabsHavePays /\ OrdersHaveBeen /\ ThanksHavePages
      /\ \A t \in Tabs : PageWasTrue(t)
  BY <1>1 DEF Init, TabsHavePays, OrdersHaveBeen, ThanksHavePages, PageWasTrue
<1>5. QED
  BY <1>2, <1>3, <1>4 DEF TabsInv, TypeInv

(* Statuses are none of the words an order has before it has a status. *)
LEMMA StatusesAreNoWords ==
  /\ \A w \in {"unused", "asked", "refused", "missing", "error", "free", "sent", "none"} :
       w \notin Statuses
  /\ "waiting" \in Statuses
BY TabsAssumption

(* Steps that leave the pages alone. *)
LEMMA SamePages ==
  ASSUME TypeInv, UNCHANGED page
  PROVE  /\ DOMAIN page' = Tabs /\ \A t \in Tabs : page'[t] \in Page(t)
         /\ \A t \in Tabs : WellPage(t, page'[t])
BY DEF TypeInv, TypeOK

(* Steps that give one tab a page. *)
LEMMA OnePage ==
  ASSUME TypeInv, NEW t \in Tabs, NEW view, WellPage(t, view),
         page' = [page EXCEPT ![t] = view]
  PROVE  /\ DOMAIN page' = Tabs /\ \A u \in Tabs : page'[u] \in Page(u)
         /\ \A u \in Tabs : WellPage(u, page'[u])
<1>1. DOMAIN page = Tabs /\ \A u \in Tabs : WellPage(u, page[u])
  BY DEF TypeInv, TypeOK
<1>2. DOMAIN page' = Tabs /\ page'[t] = view /\ \A u \in Tabs \ {t} : page'[u] = page[u]
  BY <1>1
<1>3. \A u \in Tabs : WellPage(u, page'[u])
  BY <1>1, <1>2
<1>4. QED
  BY <1>2, <1>3 DEF WellPage

LEMMA Elsewhere ==
  ASSUME TypeInv, NEW t \in Tabs,
         page[t].polling \/ \E s \in Slots(t) : page[t].flight[s] # "free"
  PROVE  tab[t].at = "thanks" /\ tab[t].pay \in Pays
<1>1. ~NoPage(t).polling /\ \A s \in Slots(t) : NoPage(t).flight[s] = "free"
  BY DEF NoPage, NewPage
<1>2. tab[t].at = "thanks"
  BY <1>1 DEF TypeInv, ThanksHavePages
<1>3. QED
  BY <1>2 DEF TypeInv, TabsHavePays

(* What a step of a page makes of it. *)
LEMMA TickEffect ==
  ASSUME TypeInv, NEW t \in Tabs, Tick(t)
  PROVE  \E view : /\ page' = [page EXCEPT ![t] = view] /\ WellPage(t, view)
                   /\ view.shown = page[t].shown /\ view.action = page[t].action
                   /\ \A s \in Slots(t) : view.flight[s] \in {page[t].flight[s], "sent"}
<1>0. WellPage(t, page[t]) /\ page[t] \in Page(t) /\ DOMAIN page = Tabs
      /\ page[t].attempts \in Nat
  BY Bounds DEF TypeInv, WellPage, TypeOK, Page
<1>1. CASE GiveUp(t)
  <2> DEFINE view == [page[t] EXCEPT !.loading = FALSE, !.polling = FALSE]
  <2>1. WellPage(t, view)
    BY <1>0, GiveUpWell
  <2>2. page' = [page EXCEPT ![t] = view]
    BY <1>1 DEF GiveUp
  <2>3. view.shown = page[t].shown /\ view.action = page[t].action
        /\ view.flight = page[t].flight
    BY <1>0 DEF Page
  <2> HIDE DEF view
  <2>4. QED
    BY <2>1, <2>2, <2>3
<1>2. CASE Send(t) /\ page[t].attempts < MaxAttempts
  <2>1. PICK s \in Slots(t) : page' = [page EXCEPT ![t].flight[s] = "sent"]
    BY <1>2 DEF Send
  <2> DEFINE view == [page[t] EXCEPT !.flight = [page[t].flight EXCEPT ![s] = "sent"]]
  <2>2. WellPage(t, view)
    BY <1>0, <1>2, SendWell
  <2>3. page' = [page EXCEPT ![t] = view]
    BY <2>1
  <2>4. view.shown = page[t].shown /\ view.action = page[t].action
        /\ \A u \in Slots(t) : view.flight[u] \in {page[t].flight[u], "sent"}
    BY <1>0 DEF Page
  <2> HIDE DEF view
  <2>5. QED
    BY <2>2, <2>3, <2>4
<1>3. QED
  BY <1>0, <1>1, <1>2, Bounds DEF Tick

LEMMA ServeEffect ==
  ASSUME TypeInv, OrdersHaveBeen, NEW t \in Tabs, NEW s \in Slots(t), Serve(t, s)
  PROVE  \E answer \in Answers : \E view :
           /\ page' = [page EXCEPT ![t] = view] /\ WellPage(t, view)
           /\ view.shown = page[t].shown /\ view.action = page[t].action
           /\ \A u \in Slots(t) : view.flight[u] \in {page[t].flight[u], answer}
           /\ answer \in Statuses => answer \in been[tab[t].pay]
<1>0. WellPage(t, page[t]) /\ page[t] \in Page(t) /\ DOMAIN page = Tabs
      /\ page[t].flight[s] = "sent"
  BY DEF TypeInv, WellPage, TypeOK, Serve
<1>1. PICK answer \in Finds(tab[t].pay) \cup {"error"} :
        page' = [page EXCEPT ![t].flight[s] = answer]
  BY DEF Serve
<1>2. /\ tab[t].pay \in Pays
      /\ order[tab[t].pay] \in Answers \/ been[tab[t].pay] = {}
  <2>1. tab[t].pay \in Pays
    BY <1>0, Elsewhere
  <2>2. QED
    BY <2>1 DEF TypeInv, TypeOK, OrdersHaveBeen, Answers
<1>3. CASE answer \in Answers
  <2> DEFINE view == [page[t] EXCEPT !.flight = [page[t].flight EXCEPT ![s] = answer]]
  <2>1. WellPage(t, view)
    BY <1>0, <1>3, ServeWell
  <2>2. page' = [page EXCEPT ![t] = view]
    BY <1>1
  <2>3. view.shown = page[t].shown /\ view.action = page[t].action
        /\ \A u \in Slots(t) : view.flight[u] \in {page[t].flight[u], answer}
    BY <1>0 DEF Page
  <2> HIDE DEF view
  <2>4. answer \in Statuses => answer \in been[tab[t].pay]
    BY <1>1, <1>2, StatusesAreNoWords DEF Finds, OrdersHaveBeen
  <2>5. QED
    BY <1>3, <2>1, <2>2, <2>3, <2>4
<1>4. QED
  <2>1. "missing" \in Answers /\ "error" \in Answers
    BY DEF Answers
  <2>2. QED
    BY <1>1, <1>2, <1>3, <2>1 DEF Finds

LEMMA ArriveEffect ==
  ASSUME TypeInv, NEW t \in Tabs, NEW s \in Slots(t), Arrive(t, s)
  PROVE  \E view :
           /\ page' = [page EXCEPT ![t] = view] /\ WellPage(t, view)
           /\ view.shown \in {page[t].shown, page[t].flight[s]}
           /\ view.shown # page[t].shown => page[t].flight[s] \in Statuses
           /\ \/ view.action = page[t].action
              \/ /\ page[t].flight[s] \in DOMAIN Verdict
                 /\ view.action = Verdict[page[t].flight[s]]
           /\ \A u \in Slots(t) : view.flight[u] \in {page[t].flight[u], "free"}
<1> DEFINE answer == page[t].flight[s]
           view == Answered(page[t], s, answer)
<1>1. WellPage(t, page[t]) /\ page[t] \in Page(t) /\ answer \in Answers
  BY DEF TypeInv, WellPage, TypeOK, Arrive
<1>2. WellPage(t, view)
  BY <1>1, ArriveWell
<1>3. page' = [page EXCEPT ![t] = view]
  BY DEF Arrive, Answered
<1>4. /\ view.shown = IF answer \in Statuses THEN answer ELSE page[t].shown
      /\ view.action = IF answer \in DOMAIN Verdict THEN Verdict[answer] ELSE page[t].action
      /\ view.flight = [page[t].flight EXCEPT ![s] = "free"]
  BY <1>1 DEF Answered, Page
<1> HIDE DEF view
<1>5. \A u \in Slots(t) : view.flight[u] \in {page[t].flight[u], "free"}
  BY <1>1, <1>4 DEF Page
<1>6. QED
  BY <1>2, <1>3, <1>4, <1>5

LEMMA DropTypes ==
  ASSUME TypeOK, NEW p \in Pays, Drop(p)
  PROVE  /\ inflight' \in [pay : Pays, plan : Plans] \cup {Nothing}
         /\ excused' \in SUBSET Pays
BY DEF Drop, TypeOK

(* A page moves, its tab does not. *)
LEMMA PageStepTypes ==
  ASSUME TypeInv, NEW t \in Tabs, NEW view, WellPage(t, view),
         page' = [page EXCEPT ![t] = view], tab[t].at = "thanks",
         UNCHANGED <<order, plans, tab, moves, opened, been>>,
         inflight' \in [pay : Pays, plan : Plans] \cup {Nothing},
         excused' \in SUBSET Pays
  PROVE  TypeInv'
<1>1. /\ DOMAIN page' = Tabs /\ \A u \in Tabs : page'[u] \in Page(u)
      /\ \A u \in Tabs : WellPage(u, page'[u])
  BY OnePage
<1>2. TypeOK'
  BY <1>1 DEF TypeInv, TypeOK
<1>3. ThanksHavePages'
  <2>1. \A u \in Tabs : u # t => page'[u] = page[u]
    BY DEF TypeInv, TypeOK
  <2>2. QED
    BY <2>1 DEF TypeInv, ThanksHavePages
<1>4. TabsHavePays' /\ OrdersHaveBeen'
  BY DEF TypeInv, TabsHavePays, OrdersHaveBeen
<1>5. QED
  BY <1>1, <1>2, <1>3, <1>4 DEF TypeInv

LEMMA TabsTypeStep ==
  ASSUME TypeInv, [Next]_vars PROVE TypeInv'
<1> USE DEF TypeInv, TypeOK
<1>0. UNCHANGED page => /\ DOMAIN page' = Tabs /\ \A t \in Tabs : page'[t] \in Page(t)
                        /\ \A t \in Tabs : WellPage(t, page'[t])
  BY SamePages
<1>1. ASSUME NEW t \in Tabs, NEW p \in Pays, NEW cart \in Carts, StartPay(t, p, cart)
      PROVE  TypeInv'
  <2>1. cart[Len(cart)] \in Plans
    <3>1. cart \in Seq(Plans) /\ Len(cart) > 0
      BY TabsAssumption
    <3>2. QED
      BY <3>1
  <2>2. inflight' \in [pay : Pays, plan : Plans] \cup {Nothing}
    BY <1>1, <2>1 DEF StartPay
  <2>3. UNCHANGED <<page, moves, opened, been, excused>> /\ order[p] = "unused"
    BY <1>1 DEF StartPay
  <2>4. /\ order' \in [Pays -> Statuses \cup {"unused", "asked", "refused"}]
        /\ plans' \in [Pays -> Carts \cup {<<>>}]
        /\ tab' \in [Tabs -> [at : {"cart", "starting", "gateway", "thanks"},
                              pay : Pays \cup {NoPay}]]
    BY <1>1 DEF StartPay
  <2>5. TypeOK'
    BY <1>0, <2>2, <2>3, <2>4
  <2>6. TabsHavePays' /\ ThanksHavePages'
    BY <1>1, <2>3 DEF StartPay, TabsHavePays, ThanksHavePages
  <2>7. OrdersHaveBeen'
    <3>1. been[p] = {}
      BY <2>3, StatusesAreNoWords DEF OrdersHaveBeen
    <3>2. \A q \in Pays : q # p => order'[q] = order[q]
      BY <1>1 DEF StartPay
    <3>3. QED
      BY <2>3, <3>1, <3>2 DEF OrdersHaveBeen
  <2>8. QED
    BY <1>0, <2>3, <2>5, <2>6, <2>7
<1>2. ASSUME NEW p \in Pays, Initiate(p) PROVE TypeInv'
  <2>1. UNCHANGED <<inflight, plans, tab, page, moves, opened, excused>>
    BY <1>2 DEF Initiate
  <2>2. been[p] = {}
    BY <1>2, StatusesAreNoWords DEF Initiate, OrdersHaveBeen
  <2>3. /\ order' \in [Pays -> Statuses \cup {"unused", "asked", "refused"}]
        /\ been' \in [Pays -> SUBSET Statuses]
    BY <1>2, StatusesAreNoWords DEF Initiate
  <2>4. OrdersHaveBeen'
    BY <1>2, <2>2 DEF Initiate, OrdersHaveBeen
  <2>5. TabsHavePays' /\ ThanksHavePages'
    BY <2>1 DEF TabsHavePays, ThanksHavePages
  <2>6. QED
    BY <1>0, <2>1, <2>3, <2>4, <2>5
<1>3. ASSUME NEW t \in Tabs, Redirected(t) PROVE TypeInv'
  <2>1. UNCHANGED <<inflight, order, plans, page, moves, been, excused>>
    BY <1>3 DEF Redirected
  <2>2. tab[t].pay \in Pays
    BY <1>3 DEF Redirected, TabsHavePays
  <2>3. /\ tab' \in [Tabs -> [at : {"cart", "starting", "gateway", "thanks"},
                              pay : Pays \cup {NoPay}]]
        /\ opened' \in SUBSET Pays
    BY <1>3, <2>2 DEF Redirected
  <2>4. TabsHavePays' /\ ThanksHavePages'
    BY <1>3, <2>1, <2>2 DEF Redirected, TabsHavePays, ThanksHavePages
  <2>5. OrdersHaveBeen'
    BY <2>1 DEF OrdersHaveBeen
  <2>6. QED
    BY <1>0, <2>1, <2>3, <2>4, <2>5
<1>4. ASSUME NEW t \in Tabs, StartFails(t) PROVE TypeInv'
  <2>1. UNCHANGED <<order, plans, page, moves, opened, been>> /\ Drop(tab[t].pay)
    BY <1>4 DEF StartFails
  <2>2. /\ tab' \in [Tabs -> [at : {"cart", "starting", "gateway", "thanks"},
                              pay : Pays \cup {NoPay}]]
    BY <1>4 DEF StartFails
  <2>3. TabsHavePays' /\ ThanksHavePages'
    BY <1>4, <2>1 DEF StartFails, TabsHavePays, ThanksHavePages
  <2>4. OrdersHaveBeen'
    BY <2>1 DEF OrdersHaveBeen
  <2>5. tab[t].pay \in Pays
    BY <1>4 DEF StartFails, TabsHavePays
  <2>6. QED
    BY <1>0, <2>1, <2>2, <2>3, <2>4, <2>5, DropTypes
<1>5. CASE Release
  <2>1. UNCHANGED <<order, plans, tab, page, moves, opened, been>> /\ Drop(inflight.pay)
    BY <1>5 DEF Release
  <2>2. TabsHavePays' /\ ThanksHavePages' /\ OrdersHaveBeen'
    BY <2>1 DEF TabsHavePays, ThanksHavePages, OrdersHaveBeen
  <2>3. inflight.pay \in Pays
    BY <1>5 DEF Release
  <2>4. QED
    BY <1>0, <2>1, <2>2, <2>3, DropTypes
<1>6. ASSUME NEW t \in Tabs, Return(t) \/ Leave(t) PROVE TypeInv'
  <2>1. UNCHANGED <<inflight, order, plans, moves, history>>
    BY <1>6 DEF Return, Leave
  <2>2. /\ tab' \in [Tabs -> [at : {"cart", "starting", "gateway", "thanks"},
                              pay : Pays \cup {NoPay}]]
    <3>1. CASE Return(t)
      BY <3>1 DEF Return
    <3>2. CASE Leave(t)
      BY <3>2 DEF Leave
    <3>3. QED
      BY <1>6, <3>1, <3>2
  <2>3. PICK view \in {NewPage(t), NoPage(t)} :
          /\ page' = [page EXCEPT ![t] = view]
          /\ \/ /\ view = NewPage(t) /\ tab[t].at = "gateway"
                /\ tab'[t].at = "thanks" /\ tab'[t].pay = tab[t].pay
             \/ view = NoPage(t) /\ tab'[t].at = "cart"
    <3> DEFINE P(v) ==
          /\ page' = [page EXCEPT ![t] = v]
          /\ \/ /\ v = NewPage(t) /\ tab[t].at = "gateway"
                /\ tab'[t].at = "thanks" /\ tab'[t].pay = tab[t].pay
             \/ v = NoPage(t) /\ tab'[t].at = "cart"
    <3>1. Return(t) => P(NewPage(t))
      BY DEF Return
    <3>2. Leave(t) => P(NoPage(t))
      BY DEF Leave
    <3> HIDE DEF P
    <3>3. \E v \in {NewPage(t), NoPage(t)} : P(v)
      BY <1>6, <3>1, <3>2, Zenon
    <3>4. QED
      BY <3>3 DEF P
  <2>4. /\ DOMAIN page' = Tabs /\ \A u \in Tabs : page'[u] \in Page(u)
        /\ \A u \in Tabs : WellPage(u, page'[u])
    BY <2>3, FreshPages, OnePage
  <2>5. \A u \in Tabs \ {t} : tab'[u] = tab[u] /\ page'[u] = page[u]
    <3>1. \A u \in Tabs \ {t} : tab'[u] = tab[u]
      BY <1>6 DEF Return, Leave
    <3>2. \A u \in Tabs \ {t} : page'[u] = page[u]
      BY <2>3
    <3>3. QED
      BY <3>1, <3>2
  <2>6. TabsHavePays'
    BY <2>3, <2>5 DEF TabsHavePays
  <2>7. ThanksHavePages'
    BY <2>3, <2>5 DEF ThanksHavePages
  <2>8. OrdersHaveBeen'
    BY <2>1 DEF OrdersHaveBeen, history
  <2>9. QED
    BY <2>1, <2>2, <2>4, <2>6, <2>7, <2>8 DEF history
<1>7. ASSUME NEW t \in Tabs, Tick(t) PROVE TypeInv'
  <2>1. UNCHANGED <<inflight, order, plans, tab, moves, history>> /\ page[t].polling
    BY <1>7 DEF Tick
  <2>2. PICK view : page' = [page EXCEPT ![t] = view] /\ WellPage(t, view)
    BY <1>7, TickEffect
  <2>3. QED
    BY <2>1, <2>2, Elsewhere, PageStepTypes DEF history
<1>8. ASSUME NEW t \in Tabs, NEW s \in Slots(t), Serve(t, s) PROVE TypeInv'
  <2>1. /\ UNCHANGED <<inflight, order, plans, tab, moves, history>>
        /\ page[t].flight[s] # "free"
    BY <1>8 DEF Serve
  <2>2. PICK view : page' = [page EXCEPT ![t] = view] /\ WellPage(t, view)
    BY <1>8, ServeEffect
  <2>3. QED
    BY <2>1, <2>2, Elsewhere, PageStepTypes DEF history
<1>9. ASSUME NEW t \in Tabs, NEW s \in Slots(t), Arrive(t, s) PROVE TypeInv'
  <2>1. UNCHANGED <<order, plans, tab, moves, opened, been>>
        /\ page[t].flight[s] # "free"
    BY <1>9, StatusesAreNoWords DEF Arrive, Answers
  <2>2. PICK view : page' = [page EXCEPT ![t] = view] /\ WellPage(t, view)
    BY <1>9, ArriveEffect
  <2>3. /\ inflight' \in [pay : Pays, plan : Plans] \cup {Nothing}
        /\ excused' \in SUBSET Pays
    BY <1>9, <2>1, Elsewhere, DropTypes DEF Arrive
  <2>4. QED
    BY <2>1, <2>2, <2>3, Elsewhere, PageStepTypes
<1>10. ASSUME NEW p \in Pays, MoveOrder(p) PROVE TypeInv'
  <2>1. PICK st \in Statuses : /\ order' = [order EXCEPT ![p] = st]
                               /\ been' = [been EXCEPT ![p] = been[p] \cup {st}]
    BY <1>10 DEF MoveOrder
  <2>2. UNCHANGED <<inflight, plans, tab, page, opened, excused>>
        /\ moves' \in 0 .. MaxMoves
    BY <1>10, TabsAssumption DEF MoveOrder
  <2>3. OrdersHaveBeen'
    BY <2>1 DEF OrdersHaveBeen
  <2>4. TabsHavePays' /\ ThanksHavePages'
    BY <2>2 DEF TabsHavePays, ThanksHavePages
  <2>5. QED
    BY <1>0, <2>1, <2>2, <2>3, <2>4
<1>11. CASE UNCHANGED vars
  BY <1>0, <1>11 DEF vars, history, TabsHavePays, OrdersHaveBeen, ThanksHavePages
<1>12. QED
  BY <1>1, <1>2, <1>3, <1>4, <1>5, <1>6, <1>7, <1>8, <1>9, <1>10, <1>11 DEF Next

-----------------------------------------------------------------------------
(* What has been true stays on record. *)
LEMMA BeenGrows ==
  ASSUME TypeInv, [Next]_vars
  PROVE  \A p \in Pays : been[p] \subseteq been'[p]
<1> USE DEF TypeInv, TypeOK
<1>1. ASSUME NEW q \in Pays, Initiate(q) PROVE \A p \in Pays : been[p] \subseteq been'[p]
  <2>1. been[q] = {}
    BY <1>1, StatusesAreNoWords DEF Initiate, OrdersHaveBeen
  <2>2. QED
    BY <1>1, <2>1 DEF Initiate
<1>2. ASSUME NEW q \in Pays, MoveOrder(q) PROVE \A p \in Pays : been[p] \subseteq been'[p]
  BY <1>2 DEF MoveOrder
<1>3. CASE UNCHANGED been
  BY <1>3
<1>4. \A t \in Tabs, p \in Pays, cart \in Carts : StartPay(t, p, cart) => UNCHANGED been
  BY DEF StartPay
<1>5. \A t \in Tabs : Redirected(t) \/ StartFails(t) => UNCHANGED been
  BY DEF Redirected, StartFails
<1>6. \A t \in Tabs : Return(t) \/ Leave(t) \/ Tick(t) => UNCHANGED been
  BY DEF Return, Leave, Tick, history
<1>7. \A t \in Tabs : \A s \in Slots(t) : Serve(t, s) \/ Arrive(t, s) => UNCHANGED been
  BY DEF Serve, Arrive, history
<1>8. Release \/ UNCHANGED vars => UNCHANGED been
  BY DEF Release, vars, history
<1>9. QED
  BY <1>1, <1>2, <1>3, <1>4, <1>5, <1>6, <1>7, <1>8 DEF Next

LEMMA PagesStayTrue ==
  ASSUME TypeInv, TypeInv', [Next]_vars, NEW u \in Tabs, PageWasTrue(u)
  PROVE  PageWasTrue(u)'
<1>0. \A p \in Pays : been[p] \subseteq been'[p]
  BY BeenGrows
(* A page that is not told anything new. *)
<1>1. ASSUME page'[u] = page[u], tab'[u] = tab[u] PROVE PageWasTrue(u)'
  BY <1>0, <1>1 DEF PageWasTrue, TypeInv, TabsHavePays
<1>2. ASSUME NEW t \in Tabs, NEW view, page' = [page EXCEPT ![t] = view], tab' = tab,
             t = u => PageWasTrue(u)'
      PROVE  PageWasTrue(u)'
  <2>1. t # u => page'[u] = page[u]
    BY <1>2 DEF TypeInv, TypeOK
  <2>2. QED
    BY <1>1, <1>2, <2>1
<1>3. ASSUME NEW t \in Tabs, Tick(t) PROVE PageWasTrue(u)'
  <2>1. PICK view : /\ page' = [page EXCEPT ![t] = view]
                    /\ view.shown = page[t].shown /\ view.action = page[t].action
                    /\ \A s \in Slots(t) : view.flight[s] \in {page[t].flight[s], "sent"}
    BY <1>3, TickEffect
  <2>2. tab' = tab /\ tab[t].pay \in Pays /\ page[t].polling
    BY <1>3, Elsewhere DEF Tick
  <2>3. ASSUME t = u PROVE PageWasTrue(u)'
    <3>1. page'[u] = view
      BY <2>1, <2>3 DEF TypeInv, TypeOK
    <3>2. QED
      BY <1>0, <2>1, <2>2, <2>3, <3>1, StatusesAreNoWords DEF PageWasTrue
  <2>4. QED
    BY <1>2, <2>1, <2>2, <2>3
<1>4. ASSUME NEW t \in Tabs, NEW s \in Slots(t), Serve(t, s) PROVE PageWasTrue(u)'
  <2>0. PICK answer \in Answers : \E view :
          /\ page' = [page EXCEPT ![t] = view] /\ WellPage(t, view)
          /\ view.shown = page[t].shown /\ view.action = page[t].action
          /\ \A v \in Slots(t) : view.flight[v] \in {page[t].flight[v], answer}
          /\ answer \in Statuses => answer \in been[tab[t].pay]
    BY <1>4, ServeEffect DEF TypeInv
  <2>1. PICK view :
          /\ page' = [page EXCEPT ![t] = view]
          /\ view.shown = page[t].shown /\ view.action = page[t].action
          /\ \A v \in Slots(t) : view.flight[v] \in {page[t].flight[v], answer}
          /\ answer \in Statuses => answer \in been[tab[t].pay]
    BY <2>0
  <2>2. tab' = tab /\ tab[t].pay \in Pays
    BY <1>4, Elsewhere DEF Serve
  <2>3. ASSUME t = u PROVE PageWasTrue(u)'
    <3>1. page'[u] = view
      BY <2>1, <2>3 DEF TypeInv, TypeOK
    <3>2. QED
      BY <1>0, <2>1, <2>2, <2>3, <3>1 DEF PageWasTrue
  <2>4. QED
    BY <1>2, <2>1, <2>2, <2>3
<1>5. ASSUME NEW t \in Tabs, NEW s \in Slots(t), Arrive(t, s) PROVE PageWasTrue(u)'
  <2> DEFINE answer == page[t].flight[s]
  <2>1. PICK view :
          /\ page' = [page EXCEPT ![t] = view]
          /\ view.shown \in {page[t].shown, answer}
          /\ view.shown # page[t].shown => answer \in Statuses
          /\ \/ view.action = page[t].action
             \/ answer \in DOMAIN Verdict /\ view.action = Verdict[answer]
          /\ \A v \in Slots(t) : view.flight[v] \in {page[t].flight[v], "free"}
    BY <1>5, ArriveEffect
  <2>2. tab' = tab /\ answer \in Answers
    BY <1>5 DEF Arrive
  <2>3. tab[t].pay \in Pays /\ tab[t].at = "thanks"
    BY <2>2, Elsewhere, StatusesAreNoWords DEF Answers
  <2>4. ASSUME t = u PROVE PageWasTrue(u)'
    <3>1. page'[u] = view
      BY <2>1, <2>4 DEF TypeInv, TypeOK
    <3>2. answer \in Statuses => answer \in been'[tab[u].pay]
      BY <1>0, <2>3, <2>4 DEF PageWasTrue
    <3>3. answer \in DOMAIN Verdict => answer \in Statuses
      BY <2>2 DEF Answers, Verdict
    <3>4. \A v \in Slots(u) : view.flight[v] \in Statuses => view.flight[v] \in been'[tab[u].pay]
      BY <1>0, <2>1, <2>3, <2>4, StatusesAreNoWords DEF PageWasTrue
    <3>5. view.shown # "none" => view.shown \in been'[tab[u].pay]
      BY <1>0, <2>1, <2>3, <2>4, <3>2 DEF PageWasTrue
    <3>6. view.action # "none" =>
            \E status \in been'[tab[u].pay] \cap DOMAIN Verdict : view.action = Verdict[status]
      <4>1. CASE view.action = page[u].action
        BY <1>0, <2>3, <2>4, <4>1 DEF PageWasTrue
      <4>2. CASE answer \in DOMAIN Verdict /\ view.action = Verdict[answer]
        BY <3>2, <3>3, <4>2
      <4>3. QED
        BY <2>1, <2>4, <4>1, <4>2
    <3>7. QED
      BY <2>2, <3>1, <3>4, <3>5, <3>6 DEF PageWasTrue
  <2>5. QED
    BY <1>2, <2>1, <2>2, <2>4
<1>6. ASSUME NEW t \in Tabs, Return(t) PROVE PageWasTrue(u)'
  <2>1. page' = [page EXCEPT ![t] = NewPage(t)] /\ (t # u => tab'[u] = tab[u])
    BY <1>6 DEF Return, TypeInv, TypeOK
  <2>2. CASE t = u
    <3>1. page'[u] = NewPage(u)
      BY <2>1, <2>2 DEF TypeInv, TypeOK
    <3>2. /\ NewPage(u).shown = "none" /\ NewPage(u).action = "none"
          /\ \A s \in Slots(u) : NewPage(u).flight[s] \in {"free", "sent"}
      BY DEF NewPage
    <3>3. QED
      BY <3>1, <3>2, StatusesAreNoWords DEF PageWasTrue
  <2>3. CASE t # u
    BY <1>1, <2>1, <2>3 DEF TypeInv, TypeOK
  <2>4. QED
    BY <2>2, <2>3
<1>7. ASSUME tab'[u].at # "thanks" PROVE PageWasTrue(u)'
  BY <1>7 DEF PageWasTrue
<1>8. CASE \/ \E t \in Tabs, p \in Pays, cart \in Carts : StartPay(t, p, cart)
           \/ \E p \in Pays : Initiate(p) \/ MoveOrder(p)
           \/ \E t \in Tabs : Redirected(t) \/ StartFails(t)
           \/ Release \/ UNCHANGED vars
  <2>1. page' = page /\ (tab'[u] = tab[u] \/ tab'[u].at # "thanks")
    BY <1>8 DEF StartPay, Initiate, MoveOrder, Redirected, StartFails, Release, vars,
                TypeInv, TypeOK
  <2>2. QED
    BY <1>1, <1>7, <2>1
<1>9. ASSUME NEW t \in Tabs, Leave(t) PROVE PageWasTrue(u)'
  <2>1. t = u => tab'[u].at # "thanks"
    BY <1>9 DEF Leave, TypeInv, TypeOK
  <2>2. t # u => tab'[u] = tab[u] /\ page'[u] = page[u]
    BY <1>9 DEF Leave, TypeInv, TypeOK
  <2>3. QED
    BY <1>1, <1>7, <2>1, <2>2
<1>10. QED
  BY <1>3, <1>4, <1>5, <1>6, <1>8, <1>9 DEF Next

-----------------------------------------------------------------------------
LEMMA TabsInvariance == Spec => []TabsInv
<1>1. TabsInv /\ [Next]_vars => TabsInv'
  BY TabsTypeStep, PagesStayTrue DEF TabsInv
<1>2. QED
  BY <1>1, TabsInit, PTL DEF Spec

(* Records, orders, tabs and pages keep their types; the count of attempts   *)
(* stays within its bound although several answers may arrive after it is    *)
(* reached.                                                                  *)
THEOREM TabsTypeCorrect == Spec => []TypeOK
<1>1. TabsInv => TypeOK
  BY DEF TabsInv, TypeInv
<1>2. QED
  BY <1>1, TabsInvariance, PTL

(* A thank-you page shows and announces only what has been true of its own   *)
(* order, for any overlap of polls and any movement of orders.               *)
THEOREM PagesTellTheTruth == Spec => []AnnouncementsWereTrue
<1>1. TabsInv => AnnouncementsWereTrue
  BY DEF TabsInv, PageWasTrue, AnnouncementsWereTrue
<1>2. QED
  BY <1>1, TabsInvariance, PTL

-----------------------------------------------------------------------------
(* A page that loads polls, and every step of it uses something up.          *)
LoadingPoll == \A t \in Tabs : page[t].loading => page[t].polling

Stopped(t) == ~page'[t].loading
Keeps(t) == page'[t].loading = page[t].loading /\ page'[t].polling = page[t].polling

LEMMA TickMoves ==
  ASSUME TypeInv, NEW t \in Tabs, Tick(t)
  PROVE  Stopped(t) \/ (Keeps(t) /\ (page[t].polling => Advances(t)))
<1>0. page[t] \in Page(t) /\ DOMAIN page = Tabs /\ page[t].attempts \in Nat
  BY Bounds DEF TypeInv, TypeOK, Page
<1>1. CASE GiveUp(t)
  <2>1. page' = [page EXCEPT ![t] = [page[t] EXCEPT !.loading = FALSE, !.polling = FALSE]]
    BY <1>1 DEF GiveUp
  <2>2. QED
    BY <1>0, <2>1 DEF Stopped, Page
<1>2. CASE Send(t)
  <2>1. PICK s \in Slots(t) :
          /\ page[t].flight[s] = "free"
          /\ page' = [page EXCEPT ![t] =
                        [page[t] EXCEPT !.flight = [page[t].flight EXCEPT ![s] = "sent"]]]
    BY <1>2 DEF Send
  <2>2. /\ page'[t].loading = page[t].loading /\ page'[t].polling = page[t].polling
        /\ page'[t].attempts = page[t].attempts
        /\ page'[t].flight = [page[t].flight EXCEPT ![s] = "sent"]
    BY <1>0, <2>1 DEF Page
  <2>3. Carried(t, s)
    <3>1. page[t].flight \in [Slots(t) -> Answers \cup {"free", "sent"}]
      BY <1>0 DEF Page
    <3>2. QED
      BY <2>1, <2>2, <3>1 DEF Carried
  <2>4. QED
    BY <2>2, <2>3 DEF Keeps, Advances
<1>3. QED
  BY <1>1, <1>2 DEF Tick

LEMMA ServeMoves ==
  ASSUME TypeInv, OrdersHaveBeen, NEW t \in Tabs, NEW s \in Slots(t), Serve(t, s)
  PROVE  Keeps(t) /\ (page[t].polling => Advances(t))
<1>0. page[t] \in Page(t) /\ DOMAIN page = Tabs /\ page[t].flight[s] = "sent"
  BY DEF TypeInv, TypeOK, Serve
<1>1. PICK answer \in Finds(tab[t].pay) \cup {"error"} :
        page' = [page EXCEPT ![t] =
                   [page[t] EXCEPT !.flight = [page[t].flight EXCEPT ![s] = answer]]]
  BY DEF Serve
<1>2. answer \in Answers
  <2>1. tab[t].pay \in Pays
    BY <1>0, Elsewhere
  <2>2. order[tab[t].pay] \in Answers \/ been[tab[t].pay] = {}
    BY <2>1 DEF TypeInv, TypeOK, OrdersHaveBeen, Answers
  <2>3. QED
    BY <1>1, <2>2 DEF Finds, Answers
<1>3. /\ page'[t].loading = page[t].loading /\ page'[t].polling = page[t].polling
      /\ page'[t].attempts = page[t].attempts
      /\ page'[t].flight = [page[t].flight EXCEPT ![s] = answer]
  BY <1>0, <1>1 DEF Page
<1>4. Carried(t, s)
  <2>1. page[t].flight \in [Slots(t) -> Answers \cup {"free", "sent"}]
    BY <1>0 DEF Page
  <2>2. QED
    BY <1>0, <1>2, <1>3, <2>1 DEF Carried
<1>5. QED
  BY <1>3, <1>4 DEF Keeps, Advances

(* Every answer is counted, or ends the loading. *)
LEMMA ArriveMoves ==
  ASSUME TypeInv, NEW t \in Tabs, NEW s \in Slots(t), Arrive(t, s)
  PROVE  Stopped(t) \/ (Keeps(t) /\ (page[t].polling => Advances(t)))
<1> DEFINE answer == page[t].flight[s]
<1>0. /\ page[t] \in Page(t) /\ DOMAIN page = Tabs /\ answer \in Answers
      /\ page[t].attempts \in Nat /\ page[t].loading \in BOOLEAN
  BY Bounds DEF TypeInv, TypeOK, Page, Arrive
<1>1. page' = [page EXCEPT ![t] = Answered(page[t], s, answer)]
  BY DEF Arrive, Answered
<1>2. /\ page'[t].polling = page[t].polling
      /\ page'[t].loading = (page[t].loading /\ answer \notin DOMAIN Verdict)
      /\ page'[t].attempts = IF Counted(answer) THEN page[t].attempts + 1 ELSE page[t].attempts
  BY <1>0, <1>1 DEF Answered, Page
<1>3. Counted(answer) \/ answer \in DOMAIN Verdict
  BY <1>0, TabsAssumption DEF Answers, Counted, Verdict
<1>4. CASE answer \in DOMAIN Verdict
  BY <1>2, <1>4 DEF Stopped
<1>5. CASE answer \notin DOMAIN Verdict
  <2>1. page'[t].loading = page[t].loading /\ page'[t].attempts = page[t].attempts + 1
    BY <1>0, <1>2, <1>3, <1>5
  <2>2. QED
    BY <1>0, <1>2, <2>1 DEF Keeps, Advances
<1>6. QED
  BY <1>4, <1>5

(* Every step of any tab, seen from one page. *)
LEMMA PagesMove ==
  ASSUME TypeInv, OrdersHaveBeen, [Next]_vars, NEW t \in Tabs
  PROVE  \/ page'[t] = page[t]
         \/ ~page[t].loading /\ page'[t].polling
         \/ Stopped(t)
         \/ Keeps(t) /\ (page[t].polling => Advances(t))
<1>0. page[t] \in Page(t) /\ DOMAIN page = Tabs
  BY DEF TypeInv, TypeOK
<1>1. ASSUME NEW u \in Tabs,
             Tick(u) \/ \E s \in Slots(u) : Serve(u, s) \/ Arrive(u, s)
      PROVE  \/ page'[t] = page[t] \/ Stopped(t)
             \/ Keeps(t) /\ (page[t].polling => Advances(t))
  <2>1. CASE u = t
    BY <1>1, <2>1, TickMoves, ServeMoves, ArriveMoves
  <2>2. CASE u # t
    BY <1>0, <1>1, <2>2 DEF Tick, Send, GiveUp, Serve, Arrive
  <2>3. QED
    BY <2>1, <2>2
<1>2. ASSUME NEW u \in Tabs, Return(u)
      PROVE  page'[t] = page[t] \/ (~page[t].loading /\ page'[t].polling)
  <2>1. CASE u = t
    <3>1. page[t] = NoPage(t) /\ page'[t] = NewPage(t)
      BY <1>0, <1>2, <2>1 DEF Return, TypeInv, ThanksHavePages
    <3>2. QED
      BY <3>1 DEF NoPage, NewPage
  <2>2. CASE u # t
    BY <1>0, <1>2, <2>2 DEF Return
  <2>3. QED
    BY <2>1, <2>2
<1>3. ASSUME NEW u \in Tabs, Leave(u) PROVE page'[t] = page[t] \/ Stopped(t)
  BY <1>0, <1>3 DEF Leave, NoPage, NewPage, Stopped
<1>4. ASSUME \/ \E u \in Tabs : Redirected(u) \/ StartFails(u)
             \/ \E p \in Pays : Initiate(p) \/ MoveOrder(p)
             \/ \E u \in Tabs, p \in Pays, cart \in Carts : StartPay(u, p, cart)
             \/ Release \/ UNCHANGED vars
      PROVE  page'[t] = page[t]
  BY <1>4, Zenon DEF Redirected, StartFails, Initiate, MoveOrder, StartPay, Release,
                     vars, history
<1>5. QED
  BY <1>1, <1>2, <1>3, <1>4 DEF Next

LEMMA LoadingPollStep ==
  ASSUME TypeInv, OrdersHaveBeen, LoadingPoll, [Next]_vars PROVE LoadingPoll'
<1> SUFFICES ASSUME NEW t \in Tabs, page'[t].loading PROVE page'[t].polling
  BY DEF LoadingPoll
<1>1. QED
  BY PagesMove DEF LoadingPoll, Stopped, Keeps

(* For any number of tabs, overlapping polls and attempts: a page that goes  *)
(* on loading goes on polling, and each of its steps uses up an attempt or   *)
(* carries a poll on; so it has finitely many of them left.                  *)
THEOREM PagesComeToTheirEnd == Spec => PagesOnlyMoveOn
<1>1. Init => LoadingPoll
  BY DEF Init, LoadingPoll, NoPage, NewPage
<1>2. TabsInv /\ LoadingPoll /\ [Next]_vars => LoadingPoll'
  BY LoadingPollStep DEF TabsInv, TypeInv
<1>3. TabsInv /\ LoadingPoll /\ [Next]_vars =>
        [\A t \in Tabs :
           page[t].loading /\ page'[t].loading /\ page'[t] # page[t] => Advances(t)]_vars
  BY PagesMove DEF TabsInv, TypeInv, LoadingPoll, Stopped
<1>4. QED
  BY <1>1, <1>2, <1>3, TabsInvariance, PTL DEF Spec, PagesOnlyMoveOn
=============================================================================
