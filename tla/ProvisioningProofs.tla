------------------------- MODULE ProvisioningProofs -------------------------
(***************************************************************************)
(* Proofs about Provisioning for any jobs, requests, plans and addresses,  *)
(* any number of credentials and any number of attempts.                   *)
(***************************************************************************)
EXTENDS Provisioning, TLAPS

Places == {"cart"} \cup Running \cup Ended

(* What Stay and Retry do to the state of the work. *)
LEMMA StayEffect ==
  ASSUME work \in [Work -> WorkState], NEW w \in Work, NEW at \in Places, Stay(w, at)
  PROVE  /\ work' \in [Work -> WorkState]
         /\ work'[w].at = at /\ work'[w].attempt = work[w].attempt
         /\ work'[w].proxy = work[w].proxy
         /\ \A v \in Work \ {w} : work'[v] = work[v]
<1>1. work[w] \in WorkState
  OBVIOUS
<1>2. [work[w] EXCEPT !.at = at] \in WorkState
  BY <1>1 DEF WorkState, Places
<1>3. work' = [work EXCEPT ![w] = [work[w] EXCEPT !.at = at]]
  BY DEF Stay
<1>4. QED
  BY <1>1, <1>2, <1>3 DEF WorkState

LEMMA RetryEffect ==
  ASSUME work \in [Work -> WorkState], NEW w \in Work, Retry(w),
         work[w].attempt < MaxRetries
  PROVE  /\ work' \in [Work -> WorkState]
         /\ work'[w].at = "buy" /\ work'[w].attempt = work[w].attempt + 1
         /\ \A v \in Work \ {w} : work'[v] = work[v]
<1>1. work[w].attempt \in 0 .. MaxRetries
  BY DEF WorkState
<1>2. work[w].attempt + 1 \in 0 .. MaxRetries
  BY <1>1, ProvisioningAssumption
<1>3. [at |-> "buy", attempt |-> work[w].attempt + 1, proxy |-> NoProxy] \in WorkState
  BY <1>2 DEF WorkState, Running
<1>4. work' = [work EXCEPT ![w] =
        [at |-> "buy", attempt |-> work[w].attempt + 1, proxy |-> NoProxy]]
  BY DEF Retry
<1>5. QED
  BY <1>3, <1>4

(* A proxy taken in hand for screening. *)
LEMMA TakeEffect ==
  ASSUME work \in [Work -> WorkState], NEW w \in Work, NEW proxy \in Proxy,
         work' = [work EXCEPT ![w].at = "screen", ![w].proxy = proxy]
  PROVE  /\ work' \in [Work -> WorkState]
         /\ work'[w].at = "screen" /\ work'[w].attempt = work[w].attempt
         /\ work'[w].proxy = proxy
         /\ \A v \in Work \ {w} : work'[v] = work[v]
<1>1. work[w] \in WorkState
  OBVIOUS
<1>2. [work[w] EXCEPT !.at = "screen", !.proxy = proxy] \in WorkState
  BY <1>1 DEF WorkState, Running
<1>3. work' = [work EXCEPT ![w] = [work[w] EXCEPT !.at = "screen", !.proxy = proxy]]
  OBVIOUS
<1>4. QED
  BY <1>1, <1>2, <1>3 DEF WorkState

LEMMA CommitEffect ==
  ASSUME TypeOK, NEW w \in Work, Commit(w)
  PROVE  /\ work' \in [Work -> WorkState]
         /\ work'[w].at = NextUnit(w) /\ work'[w].attempt = 0
         /\ NextUnit(w) \in {"queued", "verify", "delivered"}
         /\ \A v \in Work \ {w} : work'[v] = work[v] /\ rows'[v] = rows[v]
         /\ work[w].proxy \in Proxy
         /\ rows' \in [Work -> Seq(Proxy)]
         /\ rows'[w] = Append(rows[w], work[w].proxy)
         /\ Len(rows'[w]) = Len(rows[w]) + 1
<1>1. NextUnit(w) \in {"queued", "verify", "delivered"}
  BY DEF NextUnit
<1>2. [at |-> NextUnit(w), attempt |-> 0, proxy |-> NoProxy] \in WorkState
  BY <1>1, ProvisioningAssumption DEF WorkState, Running, Ended
<1>3. work' = [work EXCEPT ![w] = [at |-> NextUnit(w), attempt |-> 0, proxy |-> NoProxy]]
  BY DEF Commit
<1>4. work[w].proxy \in Proxy /\ rows[w] \in Seq(Proxy)
  BY DEF Commit, TypeOK
<1>5. rows' = [rows EXCEPT ![w] = Append(rows[w], work[w].proxy)]
  BY DEF Commit
<1>6. Append(rows[w], work[w].proxy) \in Seq(Proxy)
      /\ Len(Append(rows[w], work[w].proxy)) = Len(rows[w]) + 1
  BY <1>4
<1>7. QED
  BY <1>1, <1>2, <1>3, <1>4, <1>5, <1>6 DEF TypeOK

-----------------------------------------------------------------------------
(* Types *)

LEMMA ProvisioningTypeInit == Init => TypeOK
<1> SUFFICES ASSUME Init PROVE TypeOK
  OBVIOUS
<1>1. \A w \in Work : [at |-> IF w \in Jobs THEN "cart" ELSE "queued",
                       attempt |-> 0, proxy |-> NoProxy] \in WorkState
  BY ProvisioningAssumption DEF WorkState, Running
<1>2. work \in [Work -> WorkState]
  BY <1>1 DEF Init
<1>3. \A w \in Work : work[w].at \in {"cart", "queued"}
  BY DEF Init
<1>4. rows \in [Work -> Seq(Proxy)] /\ placed \in [Work -> Nat] /\ blind \in [Work -> BOOLEAN]
  BY DEF Init
<1>5. QED
  BY <1>2, <1>3, <1>4 DEF Init, TypeOK

(* The part of the type invariant about the proxy in hand. *)
InHand == \A w \in Work : work[w].at \in {"screen", "commit"} =>
            work[w].proxy \in Proxy /\ work[w].attempt < MaxRetries

LEMMA BoughtType ==
  ASSUME TypeOK, NEW w \in Work, blind' = [blind EXCEPT ![w] = @ \/ ipqs = "down"]
  PROVE  blind' \in [Work -> BOOLEAN]
<1>1. blind' = [blind EXCEPT ![w] = (blind[w] \/ ipqs = "down")]
  OBVIOUS
<1>2. (blind[w] \/ ipqs = "down") \in BOOLEAN
  OBVIOUS
<1>3. QED
  BY <1>1, <1>2 DEF TypeOK

LEMMA PurchaseType ==
  ASSUME TypeOK, NEW w \in Work, Purchase(w) PROVE TypeOK'
<1> USE DEF TypeOK
<1>1. CASE Buy(w)
  <2>1. PICK ip \in Addresses :
          work' = [work EXCEPT ![w].at = "screen", ![w].proxy = [ip |-> ip, bought |-> TRUE]]
    BY <1>1 DEF Buy
  <2>2. [ip |-> ip, bought |-> TRUE] \in Proxy
    BY ProvisioningAssumption DEF Proxy
  <2>3. work' \in [Work -> WorkState] /\ InHand'
    <3> DEFINE proxy == [ip |-> ip, bought |-> TRUE]
    <3> HIDE DEF proxy
    <3>1. /\ work' \in [Work -> WorkState]
          /\ work'[w].at = "screen" /\ work'[w].attempt = work[w].attempt
          /\ work'[w].proxy = proxy
          /\ \A v \in Work \ {w} : work'[v] = work[v]
      BY <2>1, <2>2, TakeEffect DEF proxy
    <3>2. proxy \in Proxy /\ work[w].attempt < MaxRetries
      BY <1>1, <2>1, <2>2 DEF Buy, CanTry, proxy
    <3>3. QED
      BY <3>1, <3>2 DEF InHand
  <2>4. placed' \in [Work -> Nat]
    BY <1>1 DEF Buy
  <2>5. QED
    BY <1>1, <2>3, <2>4, BoughtType DEF Buy, InHand
<1>2. CASE BuyRefused(w)
  <2>1. [ip |-> Loopback, bought |-> FALSE] \in Proxy
    BY ProvisioningAssumption DEF Proxy
  <2>2. work' = [work EXCEPT ![w].at = "screen", ![w].proxy = [ip |-> Loopback, bought |-> FALSE]]
    BY <1>2 DEF BuyRefused
  <2>3. work' \in [Work -> WorkState] /\ InHand'
    <3> DEFINE proxy == [ip |-> Loopback, bought |-> FALSE]
    <3> HIDE DEF proxy
    <3>1. /\ work' \in [Work -> WorkState]
          /\ work'[w].at = "screen" /\ work'[w].attempt = work[w].attempt
          /\ work'[w].proxy = proxy
          /\ \A v \in Work \ {w} : work'[v] = work[v]
      BY <2>1, <2>2, TakeEffect DEF proxy
    <3>2. proxy \in Proxy /\ work[w].attempt < MaxRetries
      BY <1>2, <2>1, <2>2 DEF BuyRefused, CanTry, proxy
    <3>3. QED
      BY <3>1, <3>2 DEF InHand
  <2>4. QED
    BY <1>2, <2>3, BoughtType DEF BuyRefused, InHand
<1>3. CASE BuyTimesOut(w)
  <2>1. work' \in [Work -> WorkState] /\ InHand'
    BY <1>3, RetryEffect DEF BuyTimesOut, CanTry, InHand
  <2>2. placed' \in [Work -> Nat]
    BY <1>3 DEF BuyTimesOut
  <2>3. QED
    BY <1>3, <2>1, <2>2 DEF BuyTimesOut, InHand
<1>4. CASE GiveUp(w)
  <2>1. work' \in [Work -> WorkState] /\ InHand'
    BY <1>4, StayEffect DEF GiveUp, InHand, Places, Ended
  <2>2. QED
    BY <1>4, <2>1 DEF GiveUp, InHand
<1>5. QED
  BY <1>1, <1>2, <1>3, <1>4 DEF Purchase

LEMMA ProvisioningTypeStep == TypeOK /\ [Next]_vars => TypeOK'
<1> SUFFICES ASSUME TypeOK, [Next]_vars PROVE TypeOK'
  OBVIOUS
<1> USE DEF TypeOK
<1>1. ASSUME NEW w \in Work, Checkout(w) PROVE TypeOK'
  <2>1. work' \in [Work -> WorkState] /\ InHand'
    BY <1>1, StayEffect DEF Checkout, InHand, Places, Running
  <2>2. QED
    BY <1>1, <2>1 DEF Checkout, InHand
<1>2. ASSUME NEW w \in Work, CheckCountry(w) PROVE TypeOK'
  <2>1. PICK known : /\ Stay(w, IF Country[w] \in known THEN "buy" ELSE "review")
                     /\ cached' = (cached \/ known = Table)
    BY <1>2, Zenon DEF CheckCountry
  <2>2. work' \in [Work -> WorkState] /\ InHand'
    BY <2>1, StayEffect DEF InHand, Places, Running, Ended
  <2>3. cached' \in BOOLEAN
    BY <2>1
  <2>4. QED
    BY <1>2, <2>2, <2>3 DEF CheckCountry, InHand
<1>3. ASSUME NEW w \in Work, ScreenRejects(w) PROVE TypeOK'
  <2>1. work' \in [Work -> WorkState] /\ InHand'
    BY <1>3, RetryEffect DEF ScreenRejects, InHand
  <2>2. QED
    BY <1>3, <2>1 DEF ScreenRejects, InHand
<1>4. ASSUME NEW w \in Work, ScreenAccepts(w) PROVE TypeOK'
  <2>1. work' \in [Work -> WorkState] /\ InHand'
    BY <1>4, StayEffect DEF ScreenAccepts, InHand, Places, Running
  <2>2. QED
    BY <1>4, <2>1 DEF ScreenAccepts, InHand
<1>5. ASSUME NEW w \in Work, Commit(w) PROVE TypeOK'
  <2>1. InHand'
    BY <1>5, CommitEffect DEF InHand
  <2>2. QED
    BY <1>5, <2>1, CommitEffect DEF Commit, InHand
<1>6. ASSUME NEW w \in Work,
             CommitFails(w) \/ Verify(w) \/ VerifyFails(w) \/ Crash(w)
      PROVE  TypeOK'
  <2>1. PICK at \in Ended : Stay(w, at)
    BY <1>6 DEF CommitFails, Verify, VerifyFails, Crash, Ended
  <2>2. work' \in [Work -> WorkState] /\ InHand'
    BY <2>1, StayEffect DEF InHand, Places, Ended
  <2>3. UNCHANGED <<rows, placed, cached, enabled, ipqs, blind>>
    BY <1>6, Zenon DEF CommitFails, Verify, VerifyFails, Crash
  <2>4. QED
    BY <2>2, <2>3 DEF InHand
<1>7. ASSUME ToggleProduct \/ ScreeningFails \/ ScreeningRecovers \/ UNCHANGED vars
      PROVE  TypeOK'
  BY <1>7 DEF ToggleProduct, ScreeningFails, ScreeningRecovers, vars
<1>8. QED
  BY <1>1, <1>2, <1>3, <1>4, <1>5, <1>6, <1>7, PurchaseType DEF Next, Progress

(* Jobs and requests, their credentials and the provider's count of their    *)
(* orders keep their types whatever the provider answers.                    *)
THEOREM ProvisioningTypeCorrect == Spec => []TypeOK
<1>1. QED
  BY ProvisioningTypeInit, ProvisioningTypeStep, PTL DEF Spec

-----------------------------------------------------------------------------
(* What a step does to one piece of work, seen from its counters *)

Walks(w) ==
  /\ <<work[w].at, work'[w].at>> \in
       {<<"cart", "queued">>, <<"queued", "buy">>, <<"buy", "screen">>, <<"screen", "commit">>}
  /\ work'[w].attempt = work[w].attempt
  /\ work[w].at = "buy" => work[w].attempt < MaxRetries
  /\ rows'[w] = rows[w] /\ placed'[w] = placed[w]

Retries(w) ==
  /\ work[w].at \in {"buy", "screen"} /\ work'[w].at = "buy"
  /\ work[w].attempt < MaxRetries /\ work'[w].attempt = work[w].attempt + 1
  /\ rows'[w] = rows[w] /\ placed'[w] = placed[w]

Buys(w) ==
  /\ work[w].at = "buy" /\ work[w].attempt < MaxRetries
  /\ \/ work'[w].at = "screen" /\ work'[w].attempt = work[w].attempt
     \/ work'[w].at = "buy" /\ work'[w].attempt = work[w].attempt + 1
  /\ rows'[w] = rows[w] /\ placed'[w] = placed[w] + 1

Sells(w) ==
  /\ work[w].at = "commit" /\ work[w].attempt < MaxRetries
  /\ work'[w].at = NextUnit(w) /\ work'[w].attempt = 0
  /\ Len(rows'[w]) = Len(rows[w]) + 1 /\ placed'[w] = placed[w]

Delivers(w) ==
  /\ work[w].at = "verify" /\ work'[w].at = "delivered"
  /\ \A i \in 1 .. Len(rows[w]) : rows[w][i].bought
  /\ work'[w].attempt = work[w].attempt
  /\ rows'[w] = rows[w] /\ placed'[w] = placed[w]

Fails(w) ==
  /\ work[w].at \in Running /\ work'[w].at \in Ended \ {"delivered"}
  /\ work'[w].attempt = work[w].attempt
  /\ rows'[w] = rows[w] /\ placed'[w] = placed[w]

Moves(w) == Walks(w) \/ Retries(w) \/ Buys(w) \/ Sells(w) \/ Delivers(w) \/ Fails(w)

Others(w) == \A v \in Work \ {w} :
  work'[v] = work[v] /\ rows'[v] = rows[v] /\ placed'[v] = placed[v]

(* Every step is one of these moves of one piece of work, or leaves all of   *)
(* them alone.                                                               *)
LEMMA StepsAreMoves ==
  ASSUME TypeOK, [Next]_vars
  PROVE  \/ UNCHANGED <<work, rows, placed>>
         \/ \E w \in Work : Moves(w) /\ Others(w)
<1>0. /\ work \in [Work -> WorkState] /\ rows \in [Work -> Seq(Proxy)]
      /\ placed \in [Work -> Nat]
  BY DEF TypeOK
<1>1. ASSUME NEW w \in Work, Checkout(w) PROVE Walks(w) /\ Others(w)
  BY <1>0, <1>1, StayEffect DEF Checkout, Walks, Others, Places, Running
<1>2. ASSUME NEW w \in Work, CheckCountry(w) PROVE Moves(w) /\ Others(w)
  <2>1. PICK at \in {"buy", "review"} : Stay(w, at)
    BY <1>2, Zenon DEF CheckCountry
  <2>2. UNCHANGED <<rows, placed>> /\ work[w].at = "queued"
    BY <1>2 DEF CheckCountry
  <2>3. /\ work'[w].at = at /\ work'[w].attempt = work[w].attempt
        /\ \A v \in Work \ {w} : work'[v] = work[v]
    BY <1>0, <2>1, StayEffect DEF Places, Running, Ended
  <2>4. QED
    BY <2>1, <2>2, <2>3 DEF Moves, Walks, Fails, Others, Running, Ended
<1>3. ASSUME NEW w \in Work, Buy(w) PROVE Buys(w) /\ Others(w)
  <2>1. PICK ip \in Addresses :
          work' = [work EXCEPT ![w].at = "screen", ![w].proxy = [ip |-> ip, bought |-> TRUE]]
    BY <1>3 DEF Buy
  <2> DEFINE proxy == [ip |-> ip, bought |-> TRUE]
  <2>2. proxy \in Proxy
    BY ProvisioningAssumption DEF Proxy
  <2> HIDE DEF proxy
  <2>3. /\ work'[w].at = "screen" /\ work'[w].attempt = work[w].attempt
        /\ \A v \in Work \ {w} : work'[v] = work[v]
    BY <1>0, <2>1, <2>2, TakeEffect DEF proxy
  <2>4. QED
    BY <1>0, <1>3, <2>3 DEF Buy, CanTry, Buys, Others
<1>4. ASSUME NEW w \in Work, BuyRefused(w) PROVE Walks(w) /\ Others(w)
  <2> DEFINE proxy == [ip |-> Loopback, bought |-> FALSE]
  <2>1. proxy \in Proxy
    BY ProvisioningAssumption DEF Proxy
  <2> HIDE DEF proxy
  <2>2. work' = [work EXCEPT ![w].at = "screen", ![w].proxy = proxy]
    BY <1>4 DEF BuyRefused, proxy
  <2>3. /\ work'[w].at = "screen" /\ work'[w].attempt = work[w].attempt
        /\ \A v \in Work \ {w} : work'[v] = work[v]
    BY <1>0, <2>1, <2>2, TakeEffect
  <2>4. QED
    BY <1>0, <1>4, <2>3 DEF BuyRefused, CanTry, Walks, Others
<1>5. ASSUME NEW w \in Work, BuyTimesOut(w) PROVE Moves(w) /\ Others(w)
  <2>1. /\ work'[w].at = "buy" /\ work'[w].attempt = work[w].attempt + 1
        /\ \A v \in Work \ {w} : work'[v] = work[v]
    BY <1>0, <1>5, RetryEffect DEF BuyTimesOut, CanTry
  <2>2. placed' = placed \/ placed' = [placed EXCEPT ![w] = placed[w] + 1]
    BY <1>5 DEF BuyTimesOut
  <2>3. QED
    BY <1>0, <1>5, <2>1, <2>2 DEF BuyTimesOut, CanTry, Moves, Retries, Buys, Others
<1>6. ASSUME NEW w \in Work, ScreenRejects(w) PROVE Retries(w) /\ Others(w)
  <2>1. work[w].attempt < MaxRetries
    BY <1>6 DEF ScreenRejects, TypeOK
  <2>2. QED
    BY <1>0, <1>6, <2>1, RetryEffect DEF ScreenRejects, Retries, Others
<1>7. ASSUME NEW w \in Work, ScreenAccepts(w) PROVE Walks(w) /\ Others(w)
  BY <1>0, <1>7, StayEffect DEF ScreenAccepts, Walks, Others, Places, Running
<1>8. ASSUME NEW w \in Work, Commit(w) PROVE Sells(w) /\ Others(w)
  <2>1. work[w].at = "commit" /\ work[w].attempt < MaxRetries /\ placed' = placed
    BY <1>8 DEF Commit, TypeOK
  <2>2. QED
    BY <1>8, <2>1, CommitEffect DEF Sells, Others
<1>9. ASSUME NEW w \in Work, Verify(w) PROVE Delivers(w) /\ Others(w)
  BY <1>0, <1>9, StayEffect DEF Verify, Answers, Delivers, Others, Places, Ended
<1>10. ASSUME NEW w \in Work,
              GiveUp(w) \/ CommitFails(w) \/ VerifyFails(w) \/ Crash(w)
       PROVE  Fails(w) /\ Others(w)
  <2>1. PICK at \in Ended \ {"delivered"} : Stay(w, at)
    BY <1>10 DEF GiveUp, CommitFails, VerifyFails, Crash, Ended
  <2>2. work[w].at \in Running /\ UNCHANGED <<rows, placed>>
    BY <1>10, Zenon DEF GiveUp, CommitFails, VerifyFails, Crash, Running
  <2>3. /\ work'[w].at = at /\ work'[w].attempt = work[w].attempt
        /\ \A v \in Work \ {w} : work'[v] = work[v]
    BY <1>0, <2>1, StayEffect DEF Places
  <2>4. QED
    BY <2>1, <2>2, <2>3 DEF Fails, Others
<1>11. ASSUME ToggleProduct \/ ScreeningFails \/ ScreeningRecovers \/ UNCHANGED vars
       PROVE  UNCHANGED <<work, rows, placed>>
  BY <1>11 DEF ToggleProduct, ScreeningFails, ScreeningRecovers, vars
<1>12. QED
  BY <1>1, <1>2, <1>3, <1>4, <1>5, <1>6, <1>7, <1>8, <1>9, <1>10, <1>11
     DEF Next, Progress, Purchase, Moves

-----------------------------------------------------------------------------
(* Counts *)

(* Until its last credential is committed, work is short of some; what the   *)
(* provider has recorded for it is at most MaxRetries for each that is       *)
(* committed and one for each attempt at the next.                           *)
Unfinished == {"cart", "queued", "buy", "screen", "commit"}
Complete == {"verify", "delivered"}
CountsOf(w) ==
  /\ work[w].at \in {"cart", "queued"} => work[w].attempt = 0
  /\ work[w].at \in Unfinished =>
       /\ Len(rows[w]) < Need[w]
       /\ placed[w] <= MaxRetries * Len(rows[w]) + work[w].attempt
                         + (IF work[w].at \in {"screen", "commit"} THEN 1 ELSE 0)
  /\ work[w].at \in Complete => Len(rows[w]) = Need[w]
  /\ w \in Jobs /\ work[w].at = "delivered" =>
       \A i \in 1 .. Len(rows[w]) : rows[w][i].bought
Counts == \A w \in Work : CountsOf(w)

LEMMA CountsInit == Init => Counts
<1> SUFFICES ASSUME Init, NEW w \in Work PROVE CountsOf(w)
  BY DEF Counts
<1>1. work[w].at \in {"cart", "queued"} /\ work[w].attempt = 0
  BY DEF Init
<1>2. Len(rows[w]) = 0 /\ placed[w] = 0 /\ MaxRetries * 0 = 0
  BY ProvisioningAssumption DEF Init
<1>3. Need[w] > 0 /\ MaxRetries \in Nat
  BY ProvisioningAssumption
<1>4. QED
  BY <1>1, <1>2, <1>3 DEF CountsOf, Complete

LEMMA CountsMove ==
  ASSUME TypeOK, TypeOK', Counts, NEW w \in Work, Moves(w) PROVE CountsOf(w)'
<1>0. /\ MaxRetries \in Nat \ {0} /\ Need[w] \in Nat
      /\ Len(rows[w]) \in Nat /\ placed[w] \in Nat
      /\ work[w].attempt \in 0 .. MaxRetries /\ work'[w].attempt \in 0 .. MaxRetries
      /\ CountsOf(w)
  BY ProvisioningAssumption DEF TypeOK, WorkState, Counts
<1> DEFINE spent == MaxRetries * Len(rows[w])
<1>1. spent \in Nat /\ MaxRetries * (Len(rows[w]) + 1) = spent + MaxRetries
  BY <1>0
<1> HIDE DEF spent
<1>2. CASE Walks(w) \/ Retries(w) \/ Buys(w)
  <2>1. rows'[w] = rows[w] /\ work'[w].at \in Unfinished /\ work[w].at \in Unfinished
    BY <1>2 DEF Walks, Retries, Buys, Unfinished
  <2>2. Len(rows'[w]) < Need[w] /\ MaxRetries * Len(rows'[w]) = spent
    BY <1>0, <2>1 DEF CountsOf, spent
  <2>3. placed[w] <= spent + work[w].attempt
                     + (IF work[w].at \in {"screen", "commit"} THEN 1 ELSE 0)
    BY <1>0, <2>1 DEF CountsOf, spent
  <2>4. placed'[w] <= spent + work'[w].attempt
                     + (IF work'[w].at \in {"screen", "commit"} THEN 1 ELSE 0)
    <3>1. CASE Walks(w)
      BY <1>0, <1>1, <2>3, <3>1 DEF Walks
    <3>2. CASE Retries(w)
      BY <1>0, <1>1, <2>3, <3>2 DEF Retries
    <3>3. CASE Buys(w)
      <4>1. /\ work[w].at = "buy" /\ work[w].attempt \in Nat
            /\ placed'[w] = placed[w] + 1
        BY <1>0, <3>3 DEF Buys
      <4>2. placed[w] <= spent + work[w].attempt
        BY <1>0, <1>1, <2>3, <4>1
      <4>3. CASE work'[w].at = "screen" /\ work'[w].attempt = work[w].attempt
        BY <1>0, <1>1, <4>1, <4>2, <4>3
      <4>4. CASE work'[w].at = "buy" /\ work'[w].attempt = work[w].attempt + 1
        BY <1>0, <1>1, <4>1, <4>2, <4>4
      <4>5. QED
        BY <3>3, <4>3, <4>4 DEF Buys
    <3>4. QED
      BY <1>2, <3>1, <3>2, <3>3
  <2>5. work'[w].at \in {"cart", "queued"} => work'[w].attempt = 0
    BY <1>0, <1>2 DEF Walks, Retries, Buys, CountsOf
  <2>6. work'[w].at \notin Complete
    BY <1>2 DEF Walks, Retries, Buys, Complete
  <2>7. QED
    BY <2>2, <2>4, <2>5, <2>6 DEF CountsOf, Complete
<1>3. CASE Sells(w)
  <2>1. /\ Len(rows[w]) < Need[w] /\ placed[w] <= spent + work[w].attempt + 1
        /\ work[w].attempt < MaxRetries
    BY <1>0, <1>3 DEF Sells, CountsOf, Unfinished, spent
  <2>2. placed'[w] <= MaxRetries * Len(rows'[w]) + 0
    BY <1>0, <1>1, <1>3, <2>1 DEF Sells
  <2>3. CASE Len(rows[w]) + 1 < Need[w]
    <3>1. /\ work'[w].at = "queued" /\ work'[w].attempt = 0
          /\ Len(rows'[w]) < Need[w]
      BY <1>3, <2>3 DEF Sells, NextUnit
    <3>2. placed'[w] <= MaxRetries * Len(rows'[w]) + work'[w].attempt
                          + (IF work'[w].at \in {"screen", "commit"} THEN 1 ELSE 0)
      <4>1. MaxRetries * Len(rows'[w]) \in Nat
        BY <1>0, <1>1, <1>3 DEF Sells
      <4>2. QED
        BY <2>2, <3>1, <4>1
    <3>3. QED
      BY <3>1, <3>2 DEF CountsOf, Complete
  <2>4. CASE ~(Len(rows[w]) + 1 < Need[w])
    <3>1. Len(rows'[w]) = Need[w]
      BY <1>0, <1>3, <2>1, <2>4 DEF Sells
    <3>2. work'[w].at = IF w \in Jobs THEN "verify" ELSE "delivered"
      BY <1>3, <2>4 DEF Sells, NextUnit
    <3>3. QED
      BY <3>1, <3>2 DEF CountsOf, Unfinished
  <2>5. QED
    BY <2>3, <2>4
<1>4. CASE Delivers(w)
  BY <1>0, <1>4 DEF Delivers, CountsOf, Complete, Unfinished
<1>5. CASE Fails(w)
  BY <1>5 DEF Fails, CountsOf, Complete, Unfinished, Ended
<1>6. QED
  BY <1>2, <1>3, <1>4, <1>5 DEF Moves

LEMMA CountsStep == TypeOK /\ Counts /\ [Next]_vars => Counts'
<1> SUFFICES ASSUME TypeOK, Counts, [Next]_vars, NEW v \in Work PROVE CountsOf(v)'
  BY DEF Counts
<1>0. TypeOK' /\ CountsOf(v)
  BY ProvisioningTypeStep DEF Counts
<1>1. ASSUME work'[v] = work[v], rows'[v] = rows[v], placed'[v] = placed[v]
      PROVE  CountsOf(v)'
  BY <1>0, <1>1 DEF CountsOf
<1>2. QED
  BY <1>0, <1>1, StepsAreMoves, CountsMove DEF Others

(* An order is reported fulfilled only with all its credentials, each on a   *)
(* proxy the provider sold.                                                  *)
THEOREM DeliveriesAreReal == Spec => []DeliveredJobsAreReal
<1>1. Init => TypeOK /\ Counts
  BY ProvisioningTypeInit, CountsInit
<1>2. TypeOK /\ Counts /\ [Next]_vars => (TypeOK /\ Counts)'
  BY ProvisioningTypeStep, CountsStep
<1>3. TypeOK /\ Counts => DeliveredJobsAreReal
  BY DEF Counts, CountsOf, Complete, DeliveredJobsAreReal, Work
<1>4. QED
  BY <1>1, <1>2, <1>3, PTL DEF Spec

-----------------------------------------------------------------------------
(* Reputation *)

(* screen_ip is asked without a plan type; what it lets through then, the    *)
(* rules of every plan let through.                                          *)
LEMMA UnknownIsStrictest ==
  ASSUME NEW plan \in Plans, NEW ip \in Facts, Passes("unknown", ip)
  PROVE  Passes(plan, ip)
<1>1. /\ ip.score \in Nat /\ ip.score < 85 /\ (ip.abuse => ip.score < 50)
      /\ ~ip.datacenter /\ (~ip.proxy \/ ip.vpn) /\ (~ip.vpn \/ ip.score < 75)
  BY DEF Passes, Rules, Facts
<1>2. Rules(plan).ceiling \in {85, 90}
  BY DEF Rules
<1>3. ip.score < Rules(plan).ceiling
  BY <1>1, <1>2
<1>4. QED
  BY <1>1, <1>3 DEF Passes

(* Unless a verdict was missing, the screening is up while an address waits  *)
(* for it, and what waits to be committed or is committed has passed it.     *)
Passed(ip) == ip.v4 => Passes("unknown", ip)
ScreenedOf(w) ==
  ~blind[w] =>
    /\ work[w].at = "screen" => ipqs = "up"
    /\ work[w].at = "commit" => Passed(work[w].proxy.ip)
    /\ \A i \in 1 .. Len(rows[w]) : Passed(rows[w][i].ip)
Screened == \A w \in Work : ScreenedOf(w)

LEMMA ScreenedInit == Init => Screened
<1> SUFFICES ASSUME Init, NEW w \in Work PROVE ScreenedOf(w)
  BY DEF Screened
<1>1. work[w].at \in {"cart", "queued"} /\ Len(rows[w]) = 0
  BY DEF Init
<1>2. QED
  BY <1>1 DEF ScreenedOf

LEMMA ScreenedStep == TypeOK /\ Screened /\ [Next]_vars => Screened'
<1> SUFFICES ASSUME TypeOK, Screened, [Next]_vars, NEW v \in Work
             PROVE  ScreenedOf(v)'
  BY DEF Screened
<1>0. /\ work \in [Work -> WorkState] /\ rows \in [Work -> Seq(Proxy)]
      /\ blind \in [Work -> BOOLEAN] /\ ScreenedOf(v)
  BY DEF TypeOK, Screened
(* Work that only moves on to a place where nothing is in hand. *)
<1>1. ASSUME rows'[v] = rows[v], blind'[v] = blind[v],
             work'[v].at \notin {"screen", "commit"}
      PROVE  ScreenedOf(v)'
  BY <1>0, <1>1 DEF ScreenedOf, Passed
<1>2. ASSUME rows'[v] = rows[v], blind'[v] = blind[v], work'[v] = work[v], ipqs' = ipqs
      PROVE  ScreenedOf(v)'
  BY <1>0, <1>2 DEF ScreenedOf, Passed
<1>3. ASSUME NEW w \in Work, NEW at \in Places \ {"screen", "commit"}, Stay(w, at),
             UNCHANGED <<rows, blind, ipqs>>
      PROVE  ScreenedOf(v)'
  BY <1>0, <1>1, <1>2, <1>3, StayEffect
<1>4. ASSUME NEW w \in Work, Retry(w), work[w].attempt < MaxRetries,
             UNCHANGED <<rows, blind, ipqs>>
      PROVE  ScreenedOf(v)'
  BY <1>0, <1>1, <1>2, <1>4, RetryEffect
<1>5. ASSUME NEW w \in Work, Buy(w) \/ BuyRefused(w) PROVE ScreenedOf(v)'
  <2>1. PICK proxy \in Proxy : work' = [work EXCEPT ![w].at = "screen", ![w].proxy = proxy]
    <3>1. CASE Buy(w)
      <4>1. PICK ip \in Addresses :
              work' = [work EXCEPT ![w].at = "screen", ![w].proxy = [ip |-> ip, bought |-> TRUE]]
        BY <3>1 DEF Buy
      <4>2. [ip |-> ip, bought |-> TRUE] \in Proxy
        BY ProvisioningAssumption DEF Proxy
      <4>3. QED
        BY <4>1, <4>2
    <3>2. CASE BuyRefused(w)
      <4>1. [ip |-> Loopback, bought |-> FALSE] \in Proxy
        BY ProvisioningAssumption DEF Proxy
      <4>2. QED
        BY <3>2, <4>1 DEF BuyRefused
    <3>3. QED
      BY <1>5, <3>1, <3>2
  <2>2. /\ work'[w].at = "screen" /\ \A u \in Work \ {w} : work'[u] = work[u]
    BY <1>0, <2>1, TakeEffect
  <2>3. /\ rows' = rows /\ ipqs' = ipqs
        /\ blind' = [blind EXCEPT ![w] = (blind[w] \/ ipqs = "down")]
    BY <1>5 DEF Buy, BuyRefused
  <2>4. CASE v = w
    <3>1. ~blind'[v] => ~blind[v] /\ ipqs' = "up"
      BY <1>0, <2>3, <2>4 DEF TypeOK
    <3>2. work'[v].at = "screen" /\ rows'[v] = rows[v]
      BY <2>2, <2>3, <2>4
    <3>3. QED
      BY <1>0, <3>1, <3>2 DEF ScreenedOf, Passed
  <2>5. CASE v # w
    <3>1. blind'[v] = blind[v] /\ work'[v] = work[v]
      BY <1>0, <2>2, <2>3, <2>5
    <3>2. QED
      BY <1>2, <2>3, <3>1
  <2>6. QED
    BY <2>4, <2>5
<1>6. ASSUME NEW w \in Work, ScreenAccepts(w) PROVE ScreenedOf(v)'
  <2>1. /\ work[w].at = "screen" /\ ~Rejects(work[w].proxy.ip) /\ Stay(w, "commit")
        /\ UNCHANGED <<rows, ipqs, blind>>
    BY <1>6 DEF ScreenAccepts
  <2>2. /\ work'[w].at = "commit" /\ work'[w].proxy = work[w].proxy
        /\ \A u \in Work \ {w} : work'[u] = work[u]
    BY <1>0, <2>1, StayEffect DEF Places, Running
  <2>3. CASE v = w
    <3>1. ~blind[v] => Passed(work[v].proxy.ip)
      BY <1>0, <2>1, <2>3 DEF ScreenedOf, Rejects, Passed
    <3>2. QED
      BY <1>0, <2>1, <2>2, <2>3, <3>1 DEF ScreenedOf, Passed
  <2>4. CASE v # w
    BY <1>2, <2>1, <2>2, <2>4
  <2>5. QED
    BY <2>3, <2>4
<1>7. ASSUME NEW w \in Work, Commit(w) PROVE ScreenedOf(v)'
  <2>1. UNCHANGED <<ipqs, blind>> /\ work[w].at = "commit"
    BY <1>7 DEF Commit
  <2>2. CASE v = w
    <3>1. /\ rows'[v] = Append(rows[v], work[v].proxy) /\ rows[v] \in Seq(Proxy)
          /\ work'[v].at \notin {"screen", "commit"} /\ work[v].proxy \in Proxy
      BY <1>0, <1>7, <2>2, CommitEffect
    <3>2. ASSUME ~blind[v] PROVE \A i \in 1 .. Len(rows'[v]) : Passed(rows'[v][i].ip)
      <4>1. /\ \A i \in 1 .. Len(rows[v]) : Passed(rows[v][i].ip)
            /\ Passed(work[v].proxy.ip)
        BY <1>0, <2>1, <2>2, <3>2 DEF ScreenedOf
      <4>2. TAKE i \in 1 .. Len(rows'[v])
      <4>3. \/ i \in 1 .. Len(rows[v]) /\ rows'[v][i] = rows[v][i]
            \/ rows'[v][i] = work[v].proxy
        BY <3>1
      <4>4. QED
        BY <4>1, <4>3
    <3>3. QED
      BY <2>1, <3>1, <3>2 DEF ScreenedOf, Passed
  <2>3. CASE v # w
    BY <1>2, <1>7, <2>1, <2>3, CommitEffect
  <2>4. QED
    BY <2>2, <2>3
<1>8. ASSUME NEW w \in Work, CheckCountry(w) PROVE ScreenedOf(v)'
  <2>1. PICK at \in {"buy", "review"} : Stay(w, at)
    BY <1>8, Zenon DEF CheckCountry
  <2>2. UNCHANGED <<rows, blind, ipqs>>
    BY <1>8 DEF CheckCountry
  <2>3. QED
    BY <1>3, <2>1, <2>2 DEF Places, Running, Ended
<1>9. ASSUME NEW w \in Work,
             Checkout(w) \/ GiveUp(w) \/ CommitFails(w) \/ Verify(w)
               \/ VerifyFails(w) \/ Crash(w)
      PROVE  ScreenedOf(v)'
  <2>1. PICK at \in Places \ {"screen", "commit"} : Stay(w, at)
    BY <1>9 DEF Checkout, GiveUp, CommitFails, Verify, VerifyFails, Crash, Places,
                Running, Ended
  <2>2. UNCHANGED <<rows, blind, ipqs>>
    BY <1>9, Zenon DEF Checkout, GiveUp, CommitFails, Verify, VerifyFails, Crash
  <2>3. QED
    BY <1>3, <2>1, <2>2
<1>10. ASSUME NEW w \in Work, BuyTimesOut(w) \/ ScreenRejects(w) PROVE ScreenedOf(v)'
  <2>1. /\ Retry(w) /\ work[w].attempt < MaxRetries
        /\ UNCHANGED <<rows, blind, ipqs>>
    BY <1>10 DEF BuyTimesOut, ScreenRejects, CanTry, TypeOK
  <2>2. QED
    BY <1>4, <2>1
<1>11. CASE ScreeningFails
  <2>1. /\ work' = work /\ rows' = rows
        /\ ~blind'[v] => ~blind[v] /\ work[v].at # "screen"
    BY <1>11 DEF ScreeningFails
  <2>2. QED
    BY <1>0, <2>1 DEF ScreenedOf, Passed
<1>12. CASE ScreeningRecovers
  BY <1>0, <1>12 DEF ScreeningRecovers, ScreenedOf, Passed
<1>13. CASE ToggleProduct \/ UNCHANGED vars
  BY <1>2, <1>13 DEF ToggleProduct, vars
<1>14. QED
  BY <1>5, <1>6, <1>7, <1>8, <1>9, <1>10, <1>11, <1>12, <1>13 DEF Next, Progress, Purchase

(* An address the rules of the customer's plan reject is sold only if the    *)
(* screening was out while one of his addresses waited for its verdict.      *)
THEOREM SalesSuitThePlan == Spec => []SoldAddressesSuitThePlan
<1>1. TypeOK /\ Screened => SoldAddressesSuitThePlan
  <2> SUFFICES ASSUME TypeOK, Screened, NEW w \in Work, NEW i \in 1 .. Len(rows[w]),
                      rows[w][i].ip.v4, ~blind[w]
               PROVE  Passes(Plan[w], rows[w][i].ip)
    BY DEF SoldAddressesSuitThePlan
  <2>1. Passes("unknown", rows[w][i].ip)
    BY DEF Screened, ScreenedOf, Passed
  <2>2. rows[w][i].ip \in Facts /\ Plan[w] \in Plans
    <3>1. rows[w] \in Seq(Proxy) /\ Plan[w] \in Plans
      BY ProvisioningAssumption DEF TypeOK
    <3>2. rows[w][i] \in Proxy
      BY <3>1
    <3>3. QED
      BY <3>1, <3>2 DEF Proxy
  <2>3. QED
    BY <2>1, <2>2, UnknownIsStrictest
<1>2. Init => TypeOK /\ Screened
  BY ProvisioningTypeInit, ScreenedInit
<1>3. TypeOK /\ Screened /\ [Next]_vars => (TypeOK /\ Screened)'
  BY ProvisioningTypeStep, ScreenedStep
<1>4. QED
  BY <1>1, <1>2, <1>3, PTL DEF Spec

-----------------------------------------------------------------------------
(* The promise *)

LEMMA ProvisioningInitKeepsPromise == Init => Promise!Init
<1> SUFFICES ASSUME Init PROVE Promise!Init
  OBVIOUS
<1>1. \A w \in Work : work[w].at \in {"cart", "queued"} /\ Len(rows[w]) = 0
  BY DEF Init
<1>2. placed = [w \in Work |-> 0]
  BY DEF Init
<1>3. QED
  BY <1>1, <1>2 DEF Promise!Init, Ended

(* The budget of one more credential. *)
LEMMA MoreIsMore ==
  ASSUME NEW m \in Nat, NEW i \in Nat, NEW n \in Nat, i < n
  PROVE  m * i + m <= m * n
<1>1. (n - i) - 1 \in Nat
  OBVIOUS
<1>2. \A k \in Nat : m * k \in Nat
  OBVIOUS
<1>3. m * ((n - i) - 1) \in Nat
  BY <1>1, <1>2
<1>4. m * n = m * i + m + m * ((n - i) - 1)
  BY <1>1
<1>5. QED
  BY <1>2, <1>3, <1>4

(* What the promise sees of a piece of work. *)
Shown(w) == IF work[w].at = "delivered" THEN "delivered"
            ELSE IF work[w].at \in Ended THEN "failed" ELSE "open"

LEMMA MovesKeepPromise ==
  ASSUME TypeOK, TypeOK', Counts, NEW w \in Work, Moves(w), Others(w)
  PROVE  [Promise!Next]_(Promise!pvars)
<1> DEFINE outcome == [u \in Work |-> Shown(u)]
           outcomeN == [u \in Work |-> Shown(u)']
           sold == [u \in Work |-> Len(rows[u])]
           soldN == [u \in Work |-> Len(rows'[u])]
<1>0. /\ placed \in [Work -> Nat] /\ placed' \in [Work -> Nat]
      /\ MaxRetries \in Nat \ {0} /\ Need[w] \in Nat
      /\ Len(rows[w]) \in Nat /\ Len(rows'[w]) \in Nat
      /\ work[w].attempt \in 0 .. MaxRetries /\ CountsOf(w)
  BY ProvisioningAssumption DEF TypeOK, WorkState, Counts
<1>1. \A u \in Work \ {w} : /\ Shown(u)' = Shown(u)
                            /\ Len(rows'[u]) = Len(rows[u]) /\ placed'[u] = placed[u]
  BY DEF Others, Shown
<1>2. ASSUME Shown(w)' = Shown(w) PROVE outcomeN = outcome
  BY <1>1, <1>2
<1>3. ASSUME rows'[w] = rows[w] PROVE soldN = sold
  BY <1>1, <1>3
<1>4. ASSUME placed'[w] = placed[w] PROVE placed' = placed
  BY <1>0, <1>1, <1>4
<1>5. CASE Walks(w) \/ Retries(w)
  <2>1. Shown(w)' = Shown(w)
    BY <1>5 DEF Walks, Retries, Shown, Ended
  <2>2. outcomeN = outcome /\ soldN = sold /\ placed' = placed
    BY <1>2, <1>3, <1>4, <1>5, <2>1 DEF Walks, Retries
  <2>3. QED
    BY <2>2 DEF Promise!pvars, Shown
<1>6. CASE Buys(w)
  <2>1. Shown(w)' = Shown(w) /\ Shown(w) = "open"
    BY <1>6 DEF Buys, Shown, Ended
  <2>2. outcomeN = outcome /\ soldN = sold
    BY <1>2, <1>3, <1>6, <2>1 DEF Buys
  <2>3. placed' = [placed EXCEPT ![w] = placed[w] + 1]
    BY <1>0, <1>1, <1>6 DEF Buys
  <2>4. placed[w] < MaxRetries * Need[w]
    <3>1. /\ Len(rows[w]) < Need[w] /\ work[w].attempt < MaxRetries
          /\ placed[w] <= MaxRetries * Len(rows[w]) + work[w].attempt
      BY <1>0, <1>6 DEF Buys, CountsOf, Unfinished
    <3>2. MaxRetries * Len(rows[w]) + MaxRetries <= MaxRetries * Need[w]
      BY <1>0, <3>1, MoreIsMore
    <3>3. MaxRetries * Len(rows[w]) \in Nat /\ MaxRetries * Need[w] \in Nat
      BY <1>0
    <3>4. QED
      BY <1>0, <3>1, <3>2, <3>3
  <2>5. Promise!Spend(w)
    BY <2>1, <2>2, <2>3, <2>4 DEF Promise!Spend, Shown
  <2>6. QED
    BY <2>5 DEF Promise!Next
<1>7. CASE Sells(w)
  <2>1. Shown(w) = "open" /\ Len(rows[w]) < Need[w]
    BY <1>0, <1>7 DEF Sells, Shown, Ended, CountsOf, Unfinished
  <2>2. placed' = placed
    BY <1>4, <1>7 DEF Sells
  <2>3. soldN = [sold EXCEPT ![w] = sold[w] + 1]
    BY <1>1, <1>7 DEF Sells
  <2>4. CASE work'[w].at # "delivered"
    <3>1. Shown(w)' = "open"
      BY <1>7, <2>4 DEF Sells, NextUnit, Shown, Ended
    <3>2. outcomeN = outcome
      BY <1>2, <2>1, <3>1
    <3>3. Promise!Sell(w)
      BY <2>1, <2>2, <2>3, <3>1, <3>2 DEF Promise!Sell, Shown
    <3>4. QED
      BY <3>3 DEF Promise!Next
  <2>5. CASE work'[w].at = "delivered"
    <3>1. Shown(w)' = "delivered"
      BY <2>5 DEF Shown
    <3>2. outcomeN = [outcome EXCEPT ![w] = "delivered"]
      BY <1>1, <3>1
    <3>3. Len(rows'[w]) = Need[w]
      BY <1>0, <1>7, <2>1, <2>5 DEF Sells, NextUnit
    <3>4. Promise!Sell(w)
      BY <2>1, <2>2, <2>3, <3>1, <3>2, <3>3 DEF Promise!Sell, Shown
    <3>5. QED
      BY <3>4 DEF Promise!Next
  <2>6. QED
    BY <2>4, <2>5
<1>8. CASE Delivers(w) \/ Fails(w)
  <2>1. Shown(w) = "open" /\ rows'[w] = rows[w] /\ placed'[w] = placed[w]
    BY <1>8 DEF Delivers, Fails, Shown, Ended, Running
  <2>2. soldN = sold /\ placed' = placed
    BY <1>3, <1>4, <2>1
  <2>3. PICK how \in {"delivered", "failed"} :
          Shown(w)' = how /\ (how = "delivered" => Len(rows[w]) = Need[w])
    BY <1>0, <1>8 DEF Delivers, Fails, Shown, CountsOf, Complete
  <2>4. outcomeN = [outcome EXCEPT ![w] = how]
    BY <1>1, <2>3
  <2>5. Promise!End(w)
    BY <2>1, <2>2, <2>3, <2>4 DEF Promise!End, Shown
  <2>6. QED
    BY <2>5 DEF Promise!Next
<1>9. QED
  BY <1>5, <1>6, <1>7, <1>8 DEF Moves

(* Deliveries, credentials and the provider's bill behave as                 *)
(* ProvisioningPromise says, for every number of credentials and attempts.   *)
THEOREM ProvisioningImplementsPromise == Spec => KeepsPromise
<1>1. Init => TypeOK /\ Counts
  BY ProvisioningTypeInit, CountsInit
<1>2. TypeOK /\ Counts /\ [Next]_vars => (TypeOK /\ Counts)'
  BY ProvisioningTypeStep, CountsStep
<1>3. TypeOK /\ Counts /\ [Next]_vars => [Promise!Next]_(Promise!pvars)
  <2> SUFFICES ASSUME TypeOK, Counts, [Next]_vars
               PROVE  [Promise!Next]_(Promise!pvars)
    OBVIOUS
  <2>1. CASE UNCHANGED <<work, rows, placed>>
    BY <2>1 DEF Promise!pvars
  <2>2. ASSUME NEW w \in Work, Moves(w), Others(w)
        PROVE  [Promise!Next]_(Promise!pvars)
    BY <2>2, ProvisioningTypeStep, MovesKeepPromise
  <2>3. QED
    BY <2>1, <2>2, StepsAreMoves
<1>4. QED
  BY <1>1, <1>2, <1>3, ProvisioningInitKeepsPromise, PTL
     DEF Spec, KeepsPromise, Promise!Spec

-----------------------------------------------------------------------------
(* The variant: every step of a piece of work brings it nearer its end.      *)
LEMMA CourseIsOrdered ==
  /\ Before("cart", "queued") /\ Before("queued", "buy")
  /\ Before("buy", "screen") /\ Before("screen", "commit")
  /\ \A here \in Running, there \in Ended : Before(here, there)
<1>1. Before("cart", "queued")
  <2>1. "cart" = Course[1] /\ "queued" = Course[2]
    BY DEF Course
  <2>2. QED
    BY <2>1 DEF Before
<1>2. Before("queued", "buy")
  <2>1. "queued" = Course[2] /\ "buy" = Course[3]
    BY DEF Course
  <2>2. QED
    BY <2>1 DEF Before
<1>3. Before("buy", "screen")
  <2>1. "buy" = Course[3] /\ "screen" = Course[4]
    BY DEF Course
  <2>2. QED
    BY <2>1 DEF Before
<1>4. Before("screen", "commit")
  <2>1. "screen" = Course[4] /\ "commit" = Course[5]
    BY DEF Course
  <2>2. QED
    BY <2>1 DEF Before
<1>5. ASSUME NEW here \in Running, NEW there \in Ended PROVE Before(here, there)
  <2>1. \E i \in 1 .. 6 : here = Course[i]
    <3>1. /\ "queued" = Course[2] /\ "buy" = Course[3] /\ "screen" = Course[4]
          /\ "commit" = Course[5] /\ "verify" = Course[6]
      BY DEF Course
    <3>2. QED
      BY <3>1 DEF Running
  <2>2. QED
    BY <2>1 DEF Before
<1>6. QED
  BY <1>1, <1>2, <1>3, <1>4, <1>5

LEMMA MovesComeNearer ==
  ASSUME TypeOK, TypeOK', Counts, NEW w \in Work, Moves(w)
  PROVE  Nearer(w)
<1> USE DEF Nearer
<1>0. /\ Need[w] \in Nat /\ Len(rows[w]) \in Nat /\ CountsOf(w)
      /\ work[w].attempt \in Nat
  BY ProvisioningAssumption DEF TypeOK, WorkState, Counts
<1>1. CASE Sells(w)
  BY <1>0, <1>1 DEF Sells, CountsOf, Unfinished
<1>2. CASE Retries(w) \/ (Buys(w) /\ work'[w].at = "buy")
  BY <1>0, <1>2 DEF Retries, Buys
<1>3. CASE Walks(w) \/ (Buys(w) /\ work'[w].at = "screen")
  <2>1. /\ work'[w].attempt = work[w].attempt /\ rows'[w] = rows[w]
        /\ <<work[w].at, work'[w].at>> \in
             {<<"cart", "queued">>, <<"queued", "buy">>, <<"buy", "screen">>,
              <<"screen", "commit">>}
    BY <1>0, <1>3 DEF Walks, Buys
  <2>2. Before(work[w].at, work'[w].at)
    BY <2>1, CourseIsOrdered
  <2>3. QED
    BY <2>1, <2>2
<1>4. CASE Delivers(w) \/ Fails(w)
  <2>1. /\ work'[w].attempt = work[w].attempt /\ rows'[w] = rows[w]
        /\ work[w].at \in Running /\ work'[w].at \in Ended
    BY <1>4 DEF Delivers, Fails, Running, Ended
  <2>2. QED
    BY <2>1, CourseIsOrdered
<1>5. QED
  BY <1>1, <1>2, <1>3, <1>4 DEF Moves, Buys

(* For any number of credentials and attempts: every step of a job or        *)
(* request brings it nearer its end, in the order credentials, attempts,     *)
(* place, each of which is bounded; none is ever begun anew.                 *)
THEOREM CallsComeToTheirEnd == Spec => CallsOnlyMoveOn
<1>1. Init => TypeOK /\ Counts
  BY ProvisioningTypeInit, CountsInit
<1>2. TypeOK /\ Counts /\ [Next]_vars => (TypeOK /\ Counts)'
  BY ProvisioningTypeStep, CountsStep
<1>3. TypeOK /\ Counts /\ [Next]_vars => [\A w \in Work : work'[w] # work[w] => Nearer(w)]_vars
  <2> SUFFICES ASSUME TypeOK, Counts, [Next]_vars, NEW w \in Work, work'[w] # work[w]
               PROVE  Nearer(w)
    OBVIOUS
  <2>1. Moves(w)
    BY StepsAreMoves DEF Others
  <2>2. QED
    BY <2>1, ProvisioningTypeStep, MovesComeNearer
<1>4. QED
  BY <1>1, <1>2, <1>3, PTL DEF Spec, CallsOnlyMoveOn

-----------------------------------------------------------------------------
(* How far the screening's missing plan type reaches.                        *)
LEMMA LikeUnknown ==
  ASSUME NEW plan, plan \notin {"datacenter", "isp"}, NEW ip, Passes(plan, ip)
  PROVE  Passes("unknown", ip)
<1>1. Rules(plan) = Rules("unknown")
  BY DEF Rules
<1>2. QED
  BY <1>1 DEF Passes

(* An address goes from the screening back to the provider only because it   *)
(* was rejected.                                                             *)
LEMMA OnlyRejectionGoesBack ==
  ASSUME TypeOK, [Next]_vars, NEW v \in Work,
         work[v].at = "screen", work'[v].at = "buy"
  PROVE  Rejects(work[v].proxy.ip)
<1>0. work \in [Work -> WorkState]
  BY DEF TypeOK
<1>1. ASSUME NEW w \in Work, NEW at \in Places \ {"buy"}, Stay(w, at) PROVE FALSE
  BY <1>0, <1>1, StayEffect
<1>2. ASSUME NEW w \in Work, work[w].at = "buy", Retry(w), CanTry(w) PROVE FALSE
  BY <1>0, <1>2, RetryEffect DEF CanTry
<1>3. ASSUME NEW w \in Work, NEW proxy \in Proxy,
             work' = [work EXCEPT ![w].at = "screen", ![w].proxy = proxy]
      PROVE  FALSE
  BY <1>0, <1>3, TakeEffect
<1>4. ASSUME NEW w \in Work, Checkout(w) \/ ScreenAccepts(w) PROVE FALSE
  BY <1>1, <1>4 DEF Checkout, ScreenAccepts, Places, Running
<1>5. ASSUME NEW w \in Work,
             GiveUp(w) \/ CommitFails(w) \/ Verify(w) \/ VerifyFails(w) \/ Crash(w)
      PROVE  FALSE
  <2>1. PICK at \in Ended : Stay(w, at)
    BY <1>5 DEF GiveUp, CommitFails, Verify, VerifyFails, Crash, Ended
  <2>2. QED
    BY <1>1, <2>1 DEF Places, Ended
<1>6. ASSUME NEW w \in Work, CheckCountry(w) PROVE FALSE
  <2>1. PICK at \in {"buy", "review"} : Stay(w, at)
    BY <1>6, Zenon DEF CheckCountry
  <2>2. work[w].at = "queued" /\ \A u \in Work \ {w} : work'[u] = work[u]
    BY <1>0, <1>6, <2>1, StayEffect DEF CheckCountry, Places, Running, Ended
  <2>3. QED
    BY <2>2
<1>7. ASSUME NEW w \in Work, Buy(w) PROVE FALSE
  <2>1. PICK ip \in Addresses :
          work' = [work EXCEPT ![w].at = "screen", ![w].proxy = [ip |-> ip, bought |-> TRUE]]
    BY <1>7 DEF Buy
  <2>2. [ip |-> ip, bought |-> TRUE] \in Proxy
    BY ProvisioningAssumption DEF Proxy
  <2>3. QED
    BY <1>3, <2>1, <2>2
<1>8. ASSUME NEW w \in Work, BuyRefused(w) PROVE FALSE
  <2>1. [ip |-> Loopback, bought |-> FALSE] \in Proxy
    BY ProvisioningAssumption DEF Proxy
  <2>2. QED
    BY <1>3, <1>8, <2>1 DEF BuyRefused
<1>9. ASSUME NEW w \in Work, BuyTimesOut(w) PROVE FALSE
  BY <1>2, <1>9 DEF BuyTimesOut
<1>10. ASSUME NEW w \in Work, Commit(w) PROVE FALSE
  BY <1>10, CommitEffect DEF Commit
<1>11. ASSUME NEW w \in Work, ScreenRejects(w) PROVE Rejects(work[v].proxy.ip)
  <2>1. work[w].attempt < MaxRetries
    BY <1>11 DEF ScreenRejects, TypeOK
  <2>2. v = w
    BY <1>0, <1>11, <2>1, RetryEffect DEF ScreenRejects
  <2>3. QED
    BY <1>11, <2>2 DEF ScreenRejects
<1>12. ~(ToggleProduct \/ ScreeningFails \/ ScreeningRecovers \/ UNCHANGED vars)
  BY DEF ToggleProduct, ScreeningFails, ScreeningRecovers, vars
<1>13. QED
  BY <1>4, <1>5, <1>6, <1>7, <1>8, <1>9, <1>10, <1>11, <1>12
     DEF Next, Progress, Purchase

(* The screening follows the plan for everybody who did not buy a datacenter *)
(* or an ISP product: what RejectionsFollowThePlan finds wrong (get_provider *)
(* _proxy asks without a plan type) can only hit those two product lines.    *)
THEOREM OnlyDatacenterAndIspAreMisjudged ==
  ASSUME \A w \in Work : Plan[w] \notin {"datacenter", "isp"}
  PROVE  Spec => RejectionsFollowThePlan
<1>1. TypeOK /\ [Next]_vars =>
        [\A w \in Work : work[w].at = "screen" /\ work'[w].at = "buy" =>
           ~Passes(Plan[w], work[w].proxy.ip)]_vars
  <2> SUFFICES ASSUME TypeOK, [Next]_vars, NEW w \in Work,
                      work[w].at = "screen", work'[w].at = "buy"
               PROVE  ~Passes(Plan[w], work[w].proxy.ip)
    OBVIOUS
  <2>1. ~Passes("unknown", work[w].proxy.ip)
    BY OnlyRejectionGoesBack DEF Rejects
  <2>2. QED
    BY <2>1, LikeUnknown
<1>2. QED
  BY <1>1, ProvisioningTypeInit, ProvisioningTypeStep, PTL
     DEF Spec, RejectionsFollowThePlan
=============================================================================
