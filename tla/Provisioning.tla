---------------------------- MODULE Provisioning ----------------------------
(***************************************************************************)
(* How a paid order, or a request for a replacement, gets its proxies:     *)
(* create_credential for each unit, which buys an address from the         *)
(* provider, has it screened for reputation, and commits a credential, up  *)
(* to five attempts each.  Around it the provider's product is switched on *)
(* and off, its answers arrive too late, the screening service goes away,  *)
(* the database refuses the commit and the process dies.                   *)
(***************************************************************************)
EXTENDS Integers, Sequences

CONSTANTS
  Jobs,        \* fulfilment jobs of the worker
  Requests,    \* requests that mint one credential: replace, reprocess
  Need,        \* credentials each must produce
  Plan,        \* the product line each is for
  Country,     \* the country each is for
  Table,       \* codes in the countries table
  Fallback,    \* _FALLBACK_ISO_COUNTRIES
  Addresses,   \* what the provider may hand out, as the screening sees it
  Loopback,    \* what the screening says of 127.0.0.1
  NoProxy,     \* no proxy in hand
  MaxRetries   \* MAX_PROVIDER_RETRIES

Work == Jobs \cup Requests

(* The facts of an address in IPQS's answer. *)
Facts == [v4 : BOOLEAN, score : Nat, proxy : BOOLEAN, vpn : BOOLEAN,
          datacenter : BOOLEAN, abuse : BOOLEAN]
Plans == {"residential", "mobile", "datacenter", "isp", "unknown"}

ASSUME ProvisioningAssumption ==
  /\ Jobs \cap Requests = {}
  /\ Need \in [Work -> Nat \ {0}] /\ \A w \in Requests : Need[w] = 1
  /\ Plan \in [Work -> Plans]
  /\ Addresses \subseteq Facts /\ Loopback \in Facts
  /\ MaxRetries \in Nat \ {0}

VARIABLES
  work,      \* what each job or request is at
  rows,      \* the credentials each has committed
  placed,    \* orders the provider has recorded for each
  cached,    \* _valid_country_cache is set
  enabled,   \* the provider sells the product
  ipqs,      \* whether the screening service answers
  blind      \* history: it did not while an address of this work was unscreened

vars == <<work, rows, placed, cached, enabled, ipqs, blind>>

Proxy == [ip : Facts, bought : BOOLEAN]
Ended == {"delivered", "refund", "review", "lost"}
Running == {"queued", "buy", "screen", "commit", "verify"}

WorkState == [at : {"cart"} \cup Running \cup Ended, attempt : 0 .. MaxRetries,
              proxy : Proxy \cup {NoProxy}]

TypeOK ==
  /\ work \in [Work -> WorkState]
  /\ \A w \in Work : work[w].at \in {"screen", "commit"} =>
       work[w].proxy \in Proxy /\ work[w].attempt < MaxRetries
  /\ rows \in [Work -> Seq(Proxy)]
  /\ placed \in [Work -> Nat]
  /\ cached \in BOOLEAN /\ enabled \in BOOLEAN /\ ipqs \in {"up", "down"}
  /\ blind \in [Work -> BOOLEAN]

Init ==
  /\ work = [w \in Work |-> [at |-> IF w \in Jobs THEN "cart" ELSE "queued",
                             attempt |-> 0, proxy |-> NoProxy]]
  /\ rows = [w \in Work |-> <<>>]
  /\ placed = [w \in Work |-> 0]
  /\ cached = FALSE /\ enabled = TRUE /\ ipqs = "up"
  /\ blind = [w \in Work |-> FALSE]

-----------------------------------------------------------------------------
(* The reputation rules *)

Rules(plan) ==
  IF plan \in {"datacenter", "isp"} THEN [ceiling |-> 90, datacenter |-> TRUE]
                                    ELSE [ceiling |-> 85, datacenter |-> FALSE]

(* _evaluate: the address is acceptable on the plan. *)
Passes(plan, ip) ==
  LET rule == Rules(plan) IN
  /\ ip.score < rule.ceiling
  /\ ip.abuse => ip.score < 50
  /\ rule.datacenter \/ ~ip.datacenter
  /\ rule.datacenter \/ ~ip.proxy \/ ip.vpn
  /\ rule.datacenter \/ ~ip.vpn \/ ip.score < 75

(* Mutant: a failing verdict is logged and not acted upon. *)
RejectsNothing(ip) == FALSE

(* screen_ip, as get_provider_proxy calls it: without a plan type.  A value *)
(* that is no IPv4 address raises, and the caller accepts what raises.      *)
Rejects(ip) == ipqs = "up" /\ ip.v4 /\ ~Passes("unknown", ip)

-----------------------------------------------------------------------------
(* create_credential, once per unit *)

Stay(w, at) == work' = [work EXCEPT ![w].at = at]
(* Mutant: an address that was thrown away does not count as an attempt. *)
RetryForFree(w) == work' = [work EXCEPT ![w] =
  [at |-> "buy", attempt |-> @.attempt, proxy |-> NoProxy]]
(* The next attempt, or the end of them, with nothing in hand. *)
Retry(w) == work' = [work EXCEPT ![w] =
  [at |-> "buy", attempt |-> @.attempt + 1, proxy |-> NoProxy]]

(* The checkout page asks /orders/precheck, which asks the provider.  A no  *)
(* keeps the customer from paying, an answer that does not come is taken    *)
(* for a yes, and nothing reserves the product until the payment is in: the *)
(* customer may pay whether it is sold or not.                              *)
Checkout(w) ==
  /\ work[w].at = "cart"
  /\ Stay(w, "queued")
  /\ UNCHANGED <<rows, placed, cached, enabled, ipqs, blind>>

(* The country is looked up in the table, read once per process; while it   *)
(* cannot be read the static set answers.                                   *)
CheckCountry(w) ==
  /\ work[w].at = "queued"
  /\ \E known \in IF cached THEN {Table} ELSE {Table, Fallback} :
       /\ Stay(w, IF Country[w] \in known THEN "buy" ELSE "review")
       /\ cached' = (cached \/ known = Table)
  /\ UNCHANGED <<rows, placed, enabled, ipqs, blind>>

(* Mutant: an attempt runs the provider past the last. *)
CanTryMore(w) == work[w].attempt =< MaxRetries
CanTry(w) == work[w].attempt < MaxRetries

Buy(w) ==
  /\ work[w].at = "buy" /\ CanTry(w) /\ enabled
  /\ \E ip \in Addresses :
       work' = [work EXCEPT ![w].at = "screen",
                            ![w].proxy = [ip |-> ip, bought |-> TRUE]]
  /\ placed' = [placed EXCEPT ![w] = @ + 1]
  /\ blind' = [blind EXCEPT ![w] = @ \/ ipqs = "down"]
  /\ UNCHANGED <<rows, cached, enabled, ipqs>>

(* The provider answers 503 to a product that is switched off; the client   *)
(* does not look at the status and fills the missing fields in.             *)
BuyRefused(w) ==
  /\ work[w].at = "buy" /\ CanTry(w) /\ ~enabled
  /\ work' = [work EXCEPT ![w].at = "screen",
                          ![w].proxy = [ip |-> Loopback, bought |-> FALSE]]
  /\ blind' = [blind EXCEPT ![w] = @ \/ ipqs = "down"]
  /\ UNCHANGED <<rows, placed, cached, enabled, ipqs>>

(* The provider does not answer within five seconds; it may have recorded   *)
(* the order all the same.                                                  *)
BuyTimesOut(w) ==
  /\ work[w].at = "buy" /\ CanTry(w)
  /\ Retry(w)
  /\ \/ UNCHANGED placed
     \/ enabled /\ placed' = [placed EXCEPT ![w] = @ + 1]
  /\ UNCHANGED <<rows, cached, enabled, ipqs, blind>>

(* Mutant: the caller of the exhausted loop starts it over. *)
GiveUpNever(w) ==
  /\ work[w].at = "buy" /\ ~CanTry(w)
  /\ work' = [work EXCEPT ![w].attempt = 0]
  /\ UNCHANGED <<rows, placed, cached, enabled, ipqs, blind>>
GiveUp(w) ==
  /\ work[w].at = "buy" /\ ~CanTry(w)
  /\ Stay(w, "refund")
  /\ UNCHANGED <<rows, placed, cached, enabled, ipqs, blind>>

(* The order at the provider is abandoned, not cancelled. *)
ScreenRejects(w) ==
  /\ work[w].at = "screen" /\ Rejects(work[w].proxy.ip)
  /\ Retry(w)
  /\ UNCHANGED <<rows, placed, cached, enabled, ipqs, blind>>

(* test_proxy calls every simulated proxy alive. *)
ScreenAccepts(w) ==
  /\ work[w].at = "screen" /\ ~Rejects(work[w].proxy.ip)
  /\ Stay(w, "commit")
  /\ UNCHANGED <<rows, placed, cached, enabled, ipqs, blind>>

(* Mutant: the job goes on to verify after the first credential. *)
NextUnitOnce(w) == IF w \in Jobs THEN "verify" ELSE "delivered"
(* The row is committed: the next unit, or the end. *)
NextUnit(w) ==
  IF Len(rows[w]) + 1 < Need[w] THEN "queued"
  ELSE IF w \in Jobs THEN "verify" ELSE "delivered"

Commit(w) ==
  /\ work[w].at = "commit"
  /\ rows' = [rows EXCEPT ![w] = Append(@, work[w].proxy)]
  /\ work' = [work EXCEPT ![w] =
       [at |-> NextUnit(w), attempt |-> 0, proxy |-> NoProxy]]
  /\ UNCHANGED <<placed, cached, enabled, ipqs, blind>>

(* The proxy has been bought and the database says no. *)
CommitFails(w) ==
  /\ work[w].at = "commit"
  /\ Stay(w, "review")
  /\ UNCHANGED <<rows, placed, cached, enabled, ipqs, blind>>

-----------------------------------------------------------------------------
(* The worker's check of what it created, before the order is fulfilled.    *)

(* Mutant: the loop skips addresses of the simulator. *)
AnswersAnyway(proxy) == TRUE
(* An address nobody sold refuses the connection. *)
Answers(proxy) == proxy.bought

Verify(w) ==
  /\ work[w].at = "verify"
  /\ \A i \in 1 .. Len(rows[w]) : Answers(rows[w][i])
  /\ Stay(w, "delivered")
  /\ UNCHANGED <<rows, placed, cached, enabled, ipqs, blind>>

(* One that was sold may fail to answer too. *)
VerifyFails(w) ==
  /\ work[w].at = "verify"
  /\ Stay(w, "refund")
  /\ UNCHANGED <<rows, placed, cached, enabled, ipqs, blind>>

-----------------------------------------------------------------------------
(* The surroundings *)

Crash(w) ==
  /\ work[w].at \in Running
  /\ Stay(w, "lost")
  /\ UNCHANGED <<rows, placed, cached, enabled, ipqs, blind>>

ToggleProduct ==
  /\ enabled' = ~enabled
  /\ UNCHANGED <<work, rows, placed, cached, ipqs, blind>>

(* No key, no credits, a rate limit, a timeout, a 5xx: it does not judge.   *)
ScreeningFails ==
  /\ ipqs = "up" /\ ipqs' = "down"
  /\ blind' = [w \in Work |-> blind[w] \/ work[w].at = "screen"]
  /\ UNCHANGED <<work, rows, placed, cached, enabled>>
ScreeningRecovers ==
  /\ ipqs = "down" /\ ipqs' = "up"
  /\ UNCHANGED <<work, rows, placed, cached, enabled, blind>>

Purchase(w) == Buy(w) \/ BuyRefused(w) \/ BuyTimesOut(w) \/ GiveUp(w)
Progress(w) ==
  \/ CheckCountry(w) \/ Purchase(w) \/ ScreenRejects(w) \/ ScreenAccepts(w)
  \/ Commit(w) \/ CommitFails(w) \/ Verify(w) \/ VerifyFails(w)
Next ==
  \/ \E w \in Work : Checkout(w) \/ Progress(w) \/ Crash(w)
  \/ ToggleProduct \/ ScreeningFails \/ ScreeningRecovers

Spec == Init /\ [][Next]_vars
(* A process that runs goes on with the work it took up. *)
FairSpec == Spec /\ \A w \in Work : WF_vars(Progress(w))

-----------------------------------------------------------------------------
(* A customer is not sold an address that the rules of his own plan reject, *)
(* however many attempts it took, unless the screening service was out      *)
(* while one of his addresses waited for its verdict: that is how far       *)
(* "fails open" goes (get_provider_proxy, _evaluate).                       *)
SoldAddressesSuitThePlan ==
  \A w \in Work : \A i \in 1 .. Len(rows[w]) :
    LET ip == rows[w][i].ip IN
    ip # Loopback /\ ip.v4 /\ ~blind[w] => Passes(Plan[w], ip)

(* An order is reported fulfilled only with every credential it paid for,   *)
(* each on a proxy the provider did sell, although the availability was     *)
(* checked long before and the client takes a refusal for a sale            *)
(* (fulfillment_worker's verification is what stands in between).           *)
DeliveredJobsAreReal ==
  \A w \in Jobs : work[w].at = "delivered" =>
    /\ Len(rows[w]) = Need[w]
    /\ \A i \in 1 .. Len(rows[w]) : rows[w][i].bought

(* Whatever the provider, the screening and the database do, a job or       *)
(* request that runs comes to an end: the retries are bounded.              *)
EveryCallEnds ==
  \A w \in Work : work[w].at \in Running ~> work[w].at \in Ended

(* Why it does: no answer of the provider, the screening or the database     *)
(* takes a job or request back.  Each of its steps commits one more of the   *)
(* credentials it needs, or else uses up one of the attempts at this one, or *)
(* else comes later in create_credential, and no unit is begun past the      *)
(* last (the two for loops of fulfill_order_job and get_provider_proxy).     *)
Course == <<"cart", "queued", "buy", "screen", "commit", "verify">>
Before(here, there) ==
  \E i \in 1 .. 6 : /\ here = Course[i]
                    /\ there \in Ended \cup {Course[j] : j \in (i + 1) .. 6}
Nearer(w) ==
  \/ Len(rows[w]) < Len(rows'[w]) /\ Len(rows'[w]) =< Need[w]
  \/ /\ Len(rows'[w]) = Len(rows[w])
     /\ \/ work[w].attempt < work'[w].attempt
        \/ /\ work'[w].attempt = work[w].attempt
           /\ Before(work[w].at, work'[w].at)
CallsOnlyMoveOn == [][\A w \in Work : work'[w] # work[w] => Nearer(w)]_vars

(* What the work of this module is worth to its caller. *)
Promise == INSTANCE ProvisioningPromise WITH
  Budget <- [w \in Work |-> MaxRetries * Need[w]],
  outcome <- [w \in Work |-> IF work[w].at = "delivered" THEN "delivered"
                             ELSE IF work[w].at \in Ended THEN "failed"
                             ELSE "open"],
  sold <- [w \in Work |-> Len(rows[w])],
  spent <- placed

(* Deliveries, credentials and the provider's bill of every job and request *)
(* behave as ProvisioningPromise says: at most five purchases a credential, *)
(* none after the end, and no delivery with fewer credentials than asked.   *)
KeepsPromise == Promise!Spec

(* The screening is plan-aware: an attempt that ends with an address of the *)
(* provider screened out is one the rules of the plan reject                *)
(* (IPQResult.from_api_response).                                           *)
RejectionsFollowThePlan ==
  [][\A w \in Work :
       work[w].at = "screen" /\ work'[w].at = "buy" =>
         ~Passes(Plan[w], work[w].proxy.ip)]_vars
=============================================================================
