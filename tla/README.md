# Styxproxy: specifications of orders, credentials, relay and accounts

Styxproxy sells proxy credentials. A customer opens a checkout, pays at
Flutterwave or Paystack, the gateway calls a webhook, a worker buys addresses
from a provider and mints the credentials, and crons, staff and the customer
repair, refund, cancel, rotate and replace. A relay lets in whoever presents a
credential. All of it works on one database, from several processes that share
no lock. This directory holds TLA+ models of that system, the TLC runs that
check them, and TLAPS proofs about them. Paths below are relative to the root of
the repository; `app/` is `src/backend/app/`.

## 1. The system

| Component | State it keeps | Operations | Talks to |
|---|---|---|---|
| Checkout, `app/routers/payments.py` | `orders` rows (`pending`), `orders.idempotency_key` under a partial unique index (migration 025) | `initiate_payment`, `initiate_basket_payment` | gateway, then the database |
| Webhooks, `app/routers/webhooks.py` | `processed_webhooks`, `orders.status` | `flutterwave_webhook`, `paystack_webhook` (also NOWPayments and TheoremReach) | queue; inline fallback in `app/services/flutterwave.py`, `paystack.py` |
| Fulfilment queue, `app/routers/_webhook_queue.py` | RQ list in Redis | `enqueue_fulfillment` | worker |
| Worker, `app/scripts/fulfillment_worker.py` | `styxproxy_credentials`, `orders.status`, `orders.styxproxy_credential_id` | `fulfill_order_job` | credential service, gateway refunds, e-mail |
| Credential service, `app/services/credential.py` | `styxproxy_credentials` | `create_credential`, `replace_credential`, `revoke_credential`, rotation | provider, screening |
| Provider client and simulator, `app/services/provider.py`, `src/simulator/main.py` | orders at the provider, the switch of a product | order a proxy, availability, test a proxy | - |
| Screening, `app/services/ip_quality.py` | none | `screen_ip`, rules per product line | IPQS |
| Refund retry, `src/backend/scripts/refund_retry.py` | `orders.status` | timer job over `failed_unfulfilled` | Flutterwave |
| Sweep, `src/scripts/reconcile_pending_payments.py` | `orders.status` | timer job over old `pending` rows | Flutterwave verify, queue |
| Expiry, `src/backend/scripts/expire_old_orders.py` | `orders.status` | one `UPDATE` | - |
| Refunds, `app/services/refunds.py` | none | `refund_at_gateway` | gateway |
| Staff, `app/routers/admin.py`, `ops.py` | the same rows and credentials | refund, re-fulfil, replace, status edit; ops refund, ops reprocess | gateway, provider |
| Customer, `app/routers/orders.py`, `proxies.py` | the same rows | `create_order`, `cancel_order`, `report_dead_ip`, rotations of name and password | provider |
| Relay, `src/relay/relay_paid.py` and its copy in `src/backend/relay/` | a cache of the active credentials with a TTL | `refresh`, `verify` | database |
| Back-office accounts, `app/routers/auth.py`, `superadmin.py` | `admin_auth`, `admin_invites`, JWTs | e-mail login, two-step set-up, invites, roles, locks | - |
| Checkout and thank-you pages, `src/frontend/src/` | one in-flight record per device in `localStorage` | Pay, resume, release; poll the order | checkout, order lookup |
| Status predicates, capture, `app/services/order_status.py`, `capture.py` | none | which statuses are live; what a capture writes | - |
| Idempotency dependency, renewals, trials, referrals, gateway retry | their tables | see Not modelled: none has a path the code can take to its end | - |
| Permissions, RLS toggles | change requests, step-up sessions | approve, step up | - |
| Catalogue, Charon, e-mail, blog, support, health, the rest of the front end | their own | CRUD, reports, I/O | - |

`PROJECT.json` lists every component with what is and is not modelled of it.

Components interact in five ways: through rows that each process reads, keeps in
its ORM session and writes later; through the RQ queue; through HTTP calls to a
gateway or provider that take effect before the caller has recorded them;
through redelivery, since both gateways repeat a webhook until it is answered
with 200; and through copies that outlive their original: the relay's cache, the
role in a token, the record in a browser.

### What is hard

* **No locks.** Every handler is SELECT, await, COMMIT. SQLAlchemy writes only
  attributes whose value differs from the one loaded: assigning `paid` to a row
  loaded as `paid` is no `UPDATE`, any other assignment overwrites whatever
  others committed. `Written` of `OrderFulfillment`, `same` and `due` of
  `AdminAccounts` and the single columns of `RotateCommit` model exactly this.
* **Overlapping deliveries.** The duplicate check, the `paid` commit, the
  enqueue and the insert in `processed_webhooks` are separate steps.
* **Crashes** of the API, the RQ work horse and the timers between any two of
  their steps: a gateway paid a refund that nobody recorded, a job half done.
* **Redis down**: the enqueue answers "unavailable" and the caller falls back.
* **Refunds from four places** (worker, retry cron, admin, ops), none with an
  idempotency key.
* **Credentials** minted one commit at a time and attached in a later one; a
  replacement revokes before it knows whether there is a successor.
* **A provider that says no politely.** The client does not look at the HTTP
  status, answers come after the timeout, and every attempt costs an order.
* **Stale copies**: the relay's cache, roles in three places (row, invite,
  token), locks written from a row loaded earlier, polls that arrive late.
* **One idempotency key** used by requests that all passed the lookup before
  any of them inserted.
* **One record per device** for the payments of all its tabs.

`PROJECT.json` lists each hazard at its line with the properties that guard it.

### What makes each component correct

* Webhooks: a delivery refused as a duplicate has had its effect
  (`SeenMeansRecorded`); only charged orders are queued (`JobsAreForCharges`).
* Worker: `fulfilled` means as many working credentials as were bought
  (`FulfilledOrdersAreComplete`), each on a proxy that was really sold
  (`DeliveredJobsAreReal`); a paid order is in somebody's hand or its job is on
  the list of failed ones (`PaidOrdersAreInHand`), and it does not wait for ever
  (`PaidIsTransient`).
* Refunds, wherever they come from: a row says `refunded` only after the money
  moved (`RefundedMeansMoneyMoved`).
* Staff and customer requests: a live order keeps a working credential
  (`LiveOrdersHaveAWorkingCredential`, `LostAccessIsAccountedFor`); rotations
  are counted only when they happen (`CountedRotationsHappened`) and never undo
  a revocation (`RevokedIsForGood`).
* Relay: what was rotated or revoked stops working in bounded time
  (`GrantsAreFresh`).
* Provisioning: addresses suit the plan (`SoldAddressesSuitThePlan`), purchases
  are bounded and nothing is delivered short (`ProvisioningPromise`), every
  call ends (`EveryCallEnds`) because each step uses something up
  (`CallsOnlyMoveOn`).
* Checkout: until the database fails, nobody is told of two open orders for one
  key, or of one that does not exist (`RetriesAgree`), and no URL is without an
  order (`UrlsHaveOrders`); every request ends (`RequestsAreAnswered`).
* Accounts: no role without a superadmin who gave it (`TokensWereGiven`,
  `OnlySuperadminsGive`), no wrong password that opens what staff shut, but
  for one that was being checked when they shut it: its stale row writes the
  short lock over the long one (`ShutAccountsStayLocked` exempts exactly this,
  as `raced`).
* Pages: what a page says was true (`AnnouncementsWereTrue`), it stops spinning
  (`PagesSettle`), since while it loads every answer counts
  (`PagesOnlyMoveOn`), and catches up with the delivery (`PagesCatchUp`). That
  the device's record prevents a second payment (`DoublePaymentsArePrevented`)
  is a finding, not a fact.
* All of the money together: `PaymentPromise`; all of the credentials of an
  order: `CredentialPromise`; all of the roles: `RolePromise`.

## 2. The modules

| Module | What it is |
|---|---|
| `PaymentPromise` | the abstract promise about a customer's money: taken once, given back after that; the books say refunded only once it went back; work is commissioned only for money taken |
| `CredentialPromise` | the abstract promise about the credentials of an order: issued once, held by one job or request until attached, working as long as somebody holds it, revoked for good |
| `OrderFulfillment` | the life of orders after checkout: gateway, webhooks, queue, worker, crons, sweep, staff, customers |
| `OrderFulfillmentClaims` | what a test says of it and the code does not do |
| `CheckoutIdempotency` | the checkouts that carry one idempotency key, and the rows they fight for |
| `ProvisioningPromise` | the abstract promise of provisioning: all credentials or none delivered, a bounded number of purchases, nothing after the end |
| `Provisioning` | `create_credential` attempt by attempt, for jobs and for single requests: provider, screening, commit, verification |
| `ProxyAccess` | the credentials of one order under rotation and replacement, and the relay's cache of them |
| `RolePromise` | the abstract promise about roles: they start with a superadmin, reach others by hand or by an invite that is for them, and a login passes on what its address holds |
| `AdminAccounts` | rows, invites and tokens of the back office under logins, set-ups and staff requests |
| `CheckoutTabs` | the browser tabs of one device: the in-flight record and the polls of the thank-you page |
| `MC*` | instances for TLC: symmetry sets, addresses, carts |
| `*Proofs` | theorems and proofs |

`OrderFulfillment` takes the minting of a credential as one step that succeeds
or fails, and `Provisioning` is what goes on inside that step; `ProxyAccess`
takes the credentials of an order from there on, and `CheckoutTabs` shows what
the browser makes of the statuses the others write.

### OrderFulfillment

Every step is one commit, one gateway call or one queue operation. A process
between two of them is a record with what it had loaded:

* `status`, `fk`, `edited`: a row of `orders` (`absent` before the row is
  committed; `edited` is history: staff overwrote the status by hand).
* `minted`, `active`: credentials committed for the order and those of them
  whose own status is `active`; ids count up from 1, `fk = 0` is NULL.
* `charged`, `fresh`, `refunds`: the gateway's side. `fresh` is Paystack's
  replay window.
* `seen`: the event's row in `processed_webhooks`.
* `queue`, `worker`: the RQ queue and its single worker; `worker.job` is the
  list of credentials the job has created.
* `failed`: the orders whose last job RQ keeps on its list of failed ones. Every
  job that raises gets there, whatever the row says.
* `handler`, `clerk`: webhook requests and staff/customer requests, these with
  the place they are in (`record` a refund, `mint`, `attach`, `audit`); `retry`,
  `sweep`: the two timer scripts with the batch they selected.

| Actions | Code |
|---|---|
| `CommitCheckout`, `Charge`, `GoStale` | the invoice exists before the row does; the gateway charges; the window lapses |
| `WebhookReceive`, `WebhookCommitPaid`, `WebhookEnqueue`, `WebhookMark`, `WebhookCrash` | the two webhook routes. They differ in the replay window and in what an unmatched event does: Paystack's answers 409, Flutterwave's marks it processed |
| `WorkerTake` ... `WorkerRecordRefund`, `WorkerCrash` | `fulfill_order_job`: load, one credential per commit, settle; a provider failure marks the row and asks for a refund; any other exception parks it for review. `WorkerFailsEarly` is an exception that marks a row still payable; `WorkerCrash` every end of a job that marks nothing: the process dies, RQ's 300 s timeout ends the event loop, the load fails (`order` is unbound), a failed statement makes the marking commit fail too, or a `RuntimeError` before the first credential is re-raised (`fulfillment_worker.py:638`) |
| `Expire`, `Retry*`, `Sweep*`, `CronCrash` | the timers, one action per SELECT, gateway call and UPDATE. The retry cron takes any 2xx as a refund that was paid (see below) |
| `AdminRefund`, `OpsRefund`, `RecordRefund` | gateway first, commit after. Refunds above the admin threshold never get that far: the route constructs its `RefundApproval` with a keyword that has no column |
| `Reprocess`, `Refulfil`, `StaffMint`, `Attach`, `ReprocessAudit` | staff load the order, mint a credential (re-fulfil revokes the one it loaded in the same commit), and attach it in a second commit; reprocess then has its audit entry to write inside the same `try` |
| `ReprocessFails`, `RefulfilFails` | whatever is raised on the way: reprocess commits `failed_unfulfilled` over what others have committed since its SELECT, also after its own `fulfilled`; re-fulfil rolls its revocation back |
| `CreateDirect`, `CreateDirectUndelivered`, `Cancel`, `ReportDead`, `EditStatus`, `ClerkCrash` | one commit each |

`Faults` selects what may strike: `redis` (it is down), `handler`, `worker`,
`cron`, `clerk` (a request, job or run of that kind is cut short where it
stands: its process dies, a statement of its session fails, or it is timed
out). A job that is cut short after it settled its order, while it sends e-mails
and notices, is one more failed job of a live order, which no property is about;
the model takes the settling for its end. `Edits` is the set of statuses
that staff may type over an order's own (`EditStatus`).

Abstracted: amounts and currencies, e-mails, audit rows, n8n, wording. 4xx
answers that change nothing are no step.

`enqueue_fulfillment`'s
`logger.info(job_id=...)` raises a `TypeError` after the job was queued and is
swallowed with it: the model's job is queued.

One assumption about the gateway carries `RefundedMeansMoneyMoved`, `KeepsPromise`
and the theorem `BooksFollowMoney`: a call of the retry cron that Flutterwave
answers with a 2xx has paid out. `refunds.py:12-18` and `:125-130` call a refund
confirmed only with a refund id, and the other three writers ask it;
`refund_retry.py:47-60` looks for none. `RetryRefund` therefore pays out
whenever it goes on to record: were there a 200 without a refund, the cron's
records would run ahead of the money.

### CheckoutIdempotency

`rows[r]` is the status of the row request `r` inserted, `lapsed` whether its
`expires_at` passed, `request` where each request is. `Begin` looks the key up,
`Invoice` calls the gateway, `Commit` inserts under the partial unique index,
`Lookup` fetches the winner after an `IntegrityError`, `Cleanup` deletes by key.
`CommitFails` is a commit that raised anything else, with or without having
taken effect. `faulted` is history: the database has failed under some request,
which is the only way into the cleanup: a loser of the race finds no row only
where somebody has cleaned up before. The rest of the system is `PayRow` ...
`ExpireRow`: what `OrderFulfillment` does to a row, reduced to the guard on its
status. Basket requests replay a live row without comparing carts.

### Provisioning

`work[w]` is where a fulfilment job or a single request is (`cart`, `queued`,
`buy`, `screen`, `commit`, `verify`, or one of the ends), the attempt it is in
and the proxy in hand; `rows[w]` the credentials it committed, `placed[w]` the
orders the provider recorded for it; `enabled`, `ipqs`, `cached` the provider's
product, the screening service and the country table of the process.

| Actions | Code |
|---|---|
| `Checkout` | the front end's precheck, which fails open, and the payment: nothing reserves the product |
| `CheckCountry` | `_valid_country_cache`; while the table cannot be read a static set answers |
| `Buy`, `BuyRefused`, `BuyTimesOut`, `GiveUp` | the attempts of `get_provider_proxy`. A refused order (503) is parsed as a proxy at 127.0.0.1; one that times out may have been recorded |
| `ScreenRejects`, `ScreenAccepts` | `screen_ip` without a plan type; a malformed address and a service that is out are accepted |
| `Commit`, `CommitFails` | one credential; the caller's exceptions park the order for review |
| `Verify`, `VerifyFails` | the worker's connection test of what it created; requests of staff have none |
| `Crash`, `ToggleProduct`, `Screening*` | the surroundings |

An address is the facts IPQS reports (`Facts`), a plan one of the product lines;
`Passes` is `_evaluate`, rule by rule. `blind` is history: an address of this
work waited for its verdict while the service was out.

### ProxyAccess

`cred` has a row per credential (status, whether its password column holds a
Fernet token, the rotation count), `attached` is
`orders.styxproxy_credential_id`, `request` what each request loaded, `cache`,
`expiresAt` and `refresh` the relay, `now` the clock. The relay compares the
stored column with what the client sends: a row written since the column was
encrypted can never match, so the cache is the set of rows whose plaintext pair
still can.

| Actions | Code |
|---|---|
| `RotateLoad`, `RotateCommit` | `rotate_proxy` and `rotate_proxy_item`: the limit is checked on the loaded count, the commit writes it plus one |
| `PasswordLoad`, `PasswordCommit` | the password rotation of `proxy_management.py` |
| `ReplaceLoad`, `Revoke`, `Mint`, `Attach`, `RequestFails` | `replace_credential`, for any credential of the order, attached or not: the revocation is a commit of its own, then the provider is asked, then the order is written |
| `RefreshRead`, `RefreshInstall`, `RefreshEnd` | one refresh under the lock: the SELECT, the swap of the dictionaries (where the TTL starts), the closing of the connection |
| `RelayRestart`, `Tick` | a restart empties the cache; time passes, at most `RefreshMax` within a refresh |

`ended`, `rotated`, `dropped` and `overtaken` are history. `dropped` are the
credentials whose replacement failed after they were revoked, `overtaken` those
that another request revoked before the one that minted them attached them.

### AdminAccounts

`admin` are the rows of `admin_auth` (role, lock, failed count), `invite` those
of `admin_invites`, `temp` the set-up tokens, `tokens` the access tokens that
have not expired, `request` what each request is at and has loaded.

| Actions | Code |
|---|---|
| `LoginLoad`, `WrongPassword`, `TotpRefused`, `RightPassword`, `LoginIssue` | `login_admin_email`: the count is the loaded one plus one, the last wrong password locks for 15 minutes; the role "admin" is overridden by the invite, read in a second query |
| `SetupStart`, `SetupComplete` | the two steps of `/setup`; the second trusts the token of the first |
| `Begin` | a staff request passes `RoleChecker` (the token's role) or `require_permission` (the row's) |
| `LoadRole`, `CommitRole` | role changes and deletions of `superadmin.py`, which write row and invite, and `update_team_member_role`, which writes the invite alone |
| `CreateAdmin`, `CreateInvite`, `DropInvite`, `Lock`, `Unlock` | one commit each |
| `LockExpires`, `TokenExpires`, `TempExpires`, `InviteExpires`, `EmergencyUnlock`, `Abandon` | time, the operator's secret, requests that die |

`given`, `offered`, `users`, `givers`, `shut` and `raced` are history: what was
given to whom by whom, and which locks are staff's.

### CheckoutTabs

`inflight` is the record of `device-id.ts` in `localStorage`, `order` the order
of each payment as the lookup answers it, `tab` where each tab is, `page` its
thank-you page: spinner, interval, what is shown, the attempts and the polls
under way (`flight`).

| Actions | Code |
|---|---|
| `StartPay` | `handlePay` and `tryStartOrder`, item by item: the first meets the record of the device, each later one the record of the item before it; the last one's stays |
| `Initiate`, `Redirected`, `StartFails` | the request to `/initiate-basket`, its answer, and the `clearInflightOrder` on every failure |
| `Release` | the five minutes, or the customer's own click |
| `Return`, `Leave` | the gateway's redirect; another page |
| `Tick`, `Serve`, `Arrive` | the interval, the instant the server reads the order, the instant the answer is handled |
| `MoveOrder` | the rest of the system moves orders, in any direction |

Statuses are classes, as the page tells them apart: `waiting`, `live`, `closed`,
`down` (the provider's outage).

## 3. Runs

`CHECK_DEADLOCK FALSE` where the system stops when every order is done and the
bounds are used up (`OrderFulfillment`, `ProxyAccess`), a checkout is finished
when it is answered, or a tab has no payment left to start. `Provisioning` and
`AdminAccounts` never stop, and TLC checks that they do not.

| Run | Instance | Question |
|---|---|---|
| `flutterwave_faults` | 1 order, 2 credentials, 2 deliveries, faults redis, handler, worker, cron | do money, jobs and credentials stay in step on the automatic path whatever dies? |
| `two_gateways` | a Flutterwave and a Paystack order, 1 delivery at a time, faults worker, redis | is `PaymentPromise` implemented, and are refused duplicates harmless? |
| `staff_pairs` | 1 invoiced order, 2 clerks who may type `paid`, no webhook (the sweep brings the job), faults worker, cron | can two overlapping staff or customer requests leave a live order without a working credential, or a refund without money, is `CredentialPromise` implemented, and does a typed status buy nobody a job? |
| `paid_is_transient` | an invoiced order and one from `/orders/create`, 1 delivery, 1 clerk, faults worker, clerk, fair | does somebody have every paid order, or RQ its failed job, and does each come to an outcome or onto that list? |
| `checkout` | 3 requests, single and basket carts, faults db, crash, fair | do requests with one key agree on the open order, is every URL backed by a row, and does every request end? |
| `proxy_access` | 3 credentials, 2 requests, clock to 3 | how long does a retired pair work, and what do overlapping rotations and replacements leave? |
| `provisioning` | a job for 2 datacenter addresses, a residential replacement, 2 attempts each, fair | is what is delivered complete, real and fit for the plan, is the bill bounded, does every call end, and why? |
| `admin_accounts` | 2 addresses, 1 invite, 1 login, 1 staff request at a time, 3 in all | does anybody get a role nobody gave him, or out of a lock staff set, and is `RolePromise` implemented? |
| `checkout_tabs` | 2 tabs, 2 payments, a single cart and a basket, 2 polls of one page at once, fair | are pages truthful, do they settle, and why, and do they catch up? |
| `claim_*` | the smallest instance that shows it | see Findings |

Bounds. `MaxMinted` caps the credentials of an order: 4 for the two-credential
order of `flutterwave_faults` lets a second job run to its end after a complete
or a partial first one; 2 in `staff_pairs` lets each clerk mint once, so that
one re-fulfilment overtakes another; 1 in `paid_is_transient`, which is not
about credentials. `MaxRefunds = 1`: a second full refund by Flutterwave only
raises a counter every property compares with 0, and the theorems hold for every
bound. It is 0 in `paid_is_transient`, where the gateway refuses every refund:
a refund that is recorded takes an order out of `paid` and is no way into it, so
the runs that are left are the ones with fewer ways out, and the theorem about
`PaidOrdersAreInHand` covers the others. `MaxQueue` is 1 or 2: only the head of
the queue matters to the worker, and two entries are what two orders need.
`Edits` in `staff_pairs` is `paid`, the status that would let a job run: the
sweep, the worker and the retry cron are there to react to it; elsewhere staff
type nothing, since the properties there exempt edited orders or hold for any
edit by their theorems. Two orders are enough because the
only things orders share are the queue, the worker and the batches of the crons;
two deliveries and two clerks because every hazard listed is a pair of requests
around one of the processes that are also there. Three requests are needed in
`checkout`: a winner, its loser, and one that replays. Handler crashes with two
orders are too many states for TLC: there `SeenMeansRecorded` rests on its
theorem, which covers them.

`MaxRotations = 1` (3 in the code) and `MaxRotated = 2` in `proxy_access` let a
row be rotated past its limit by a race; three credentials are the first and a successor for
each of two replacements, of which the second may replace the first's before it
is attached; `TTL = RefreshMax = 1` with `MaxTime = 3` lets a pair
outlive both by a second. `Rotatable` is the first credential: the others are
born encrypted and their rotation changes nothing the relay sees.
`MaxRetries = 2` (5 in the code) has a first, a last and no attempt; the
addresses are one that every rule accepts, one that only the datacenter rules
accept, and a malformed one. `LockAfter = 2` (5) has a wrong password that locks
and one that does not, `Mistyped = {ann}` keeps wrong passwords to one account,
and `MaxAsked = 3` staff requests are an invite, what is done about it, and a
third in between. `MaxAttempts = 2` (60), `MaxFlight` 2 and 1 and `MaxMoves = 1`
give one page an answer that overtakes another, before and after the delivery.

Some properties hold only under a stated condition, and say so in their comment.
`LiveOrdersHaveAWorkingCredential` needs staff requests that are not cut short
between their two commits: a re-fulfilment that dies there has revoked the old
credential and not attached the new one. `FulfilledOrdersAreComplete` is about
the automatic path: with staff, `ops_reprocess_order` mints one credential
whatever the quantity and calls the order fulfilled. `PaidOrdersAreInHand` and
`PaidIsTransient` are about a Redis, an API and timers that stay up: if one of
them goes away at the wrong moment, nobody has the order and no job has failed
until the gateway sends the event again or staff step in. Jobs may be cut short
anywhere: the order then stays `paid`, and RQ's list of failed jobs is the one
place that says so. `RetriesAgree` and `UrlsHaveOrders` hold until the database
has failed under a request of the key: the cleanup then deletes rows others were
told of. `LostAccessIsAccountedFor` lists the three ways in which a replacement
costs an order its access, and says there is no fourth.

Fairness. `FairSpec` of `OrderFulfillment` gives weak fairness to a request the
event loop has begun (`WebhookProgress`, `ClerkProgress`), to the worker process,
which systemd restarts, and to the sweep's enqueue of a row it claimed. Nothing obliges a customer to pay, a gateway to deliver, staff to click
or a timer to fire. `FairSpec` of `CheckoutIdempotency` is the event loop again:
`asyncio` resumes a coroutine whose I/O is done, the gateway calls carry
timeouts, and a database call returns or raises. `FairSpec` of `Provisioning` is
the same for a job or request that runs: provider and screening calls carry
timeouts of five and ten seconds, and which of the outcomes comes is left
open. `FairSpec` of `CheckoutTabs` is the browser: an interval fires, and a
`fetch` is answered or rejected. Customers owe nothing, and tabs may be left.

## 4. Findings

Runs that expect a violation, each quoting the line it contradicts:

* `claim_fulfilled_once`: a redelivery that passed the duplicate check while
  the first was being handled commits `paid` over `fulfilled` and queues a
  second job, which mints and settles again.
* `claim_plan_aware`: the screening has rules for each product line and its only
  caller passes none, so a datacenter job loses its attempts on addresses its
  own rules accept.
* `claim_double_payment`: the in-flight record is one per device and is removed
  whoever's it is: a failed start in another tab, or the thank-you page of an
  earlier order, lets a second click on Pay open a second payment for a plan
  within the five minutes.

### Divergences without a run of their own

Met while modelling; the models contain the behaviour, no run is spent on it.

Orders and payments:

* With the queue down, the inline fallback reads the row the webhook has just
  set to `paid` and answers `already_processed`; the event is marked processed
  and the order stays `paid` (`_webhook_queue.py:72`).
* The webhook assigns `paid` before it calls `record_capture`, so the veto on
  cancelled and refunded orders (`capture.py:36`) never fires.
* The evidence of payment that ops reprocess asks for (`ops.py:294`) is on every
  unpaid checkout row.
* "A dead order must not lock the key forever" (`payments.py:182`): an order that
  failed, or whose time is over but that no cron has expired yet, stays in the
  unique index, so its key is not released: the new request's insert is refused
  and it is answered with the dead order and an empty checkout URL.
* An event that matches no order is answered 409 by the Paystack route, so that
  the gateway sends it again; `flutterwave.py:242` says "Acknowledge without
  marking as processed", but its caller marks it (`webhooks.py:284`). If a
  Flutterwave webhook overtakes the commit of its checkout the charge is left to
  the sweep.
* The sweep's `UPDATE ... WHERE status = 'pending'` makes it the only sweep that
  claims a row, but the webhook's `UPDATE` is unconditional: both may queue a
  job for one order.
* Paystack's replay window reads `data.created_at` before `data.paid_at`
  (`webhooks.py:55`): a customer who takes longer than five minutes to pay is
  charged and never recorded by the webhook, and the sweep only asks Flutterwave.
* "Mark the order so a paid-but-unfulfilled state is visible and recoverable
  instead of sitting at `paid` forever" and "Already logged and already marked"
  (`fulfillment_worker.py:641-644`, `:639`): a `RuntimeError` raised before the
  first credential is re-raised unmarked; after a failed load `order` is unbound;
  after a failed statement the marking commit fails too; RQ's timeout may end the
  loop. The order then does sit at `paid`. What holds is the other half of the
  comment at `:603`, that such a job never reports success (`PaidOrdersAreInHand`).
* Whatever is raised in `ops_reprocess_order` commits `failed_unfulfilled`
  (`ops.py:346`), also a failing audit entry after the order was fulfilled, or a
  provider's answer long after somebody else delivered: the retry cron then
  refunds a customer who has a working credential.
* A job that fails revokes the credential attached to the row it loaded
  (`fulfillment_worker.py:562`), not the ones it has just minted: the rows of a
  partial job stay active.
* `ops_reprocess_order` mints one credential whatever the quantity (`ops.py:317`).
* `create_order` uses the pair `create_credential` returns as the credential
  (`orders.py:419`, `:488`): the request dies after the row was committed as
  `paid`, and the order never becomes the `active` that `order_status.py:8`
  speaks of.
* The loser of a key race is answered with the winner's order without a look at
  its cart (`payments.py:407`), although the lookup above it answers 409.
* The cleanup after a failed insert deletes every row with the key
  (`payments.py:433`), a paid one included.
* A customer's own `payment_reference` is never compared with a gateway.

Provisioning:

* The provider client does not look at the HTTP status (`provider.py`): a
  refusal becomes a proxy at 127.0.0.1. The worker's verification catches it;
  replacements and ops reprocess do not verify.
* "failing CLOSED" for a malformed address (`ip_quality.py:279`) is an exception
  its caller takes for "accept"; the test on open proxies that a comment calls
  the old one (`ip_quality.py:238`) is the one in force.
* Orders at the provider that time out, are screened out or fail to commit are
  never cancelled.
* The worker spares RFC 5737 addresses its verification
  (`fulfillment_worker.py:225`), which the simulator does not hand out any more;
  random targeting may pick another country than the order's.

Credentials and relay:

* "The relay picks up the change within 30s" (`proxies.py:184`): it compares the
  stored Fernet token with the client's password, so a rotated or new password
  is never let in. The comment in `crypto.py:163` names a `relay_paid.decrypt_stored_password()` that does not
  exist. Connections that are open are never cut, and expired rows are kept: an
  epoch time is compared with the event loop's clock (`relay_paid.py:140`).
* "Max 3 rotations per credential; reject the 4th" (`orders.py:1142`) is checked
  on a loaded count: races go past it. The daily limit on passwords never binds (`proxy_management.py:173`),
  since a timestamp is compared with a date.
* Two overlapping rotations mail one pair that is overwritten; the audit row
  logs the new name as `old_username`; `replace_credential` throws the plaintext
  of the new credential away.
* Two overlapping replacements leave an active credential no order points at. If
  one replaces the other's successor before it is attached, the order ends up
  with a revoked credential while a working one is attached to nothing: `r1`
  revokes `c1` and mints `c2`, `r2` replaces `c2` and attaches `c3`, `r1`
  attaches `c2` (`credential.py:484`).
* `suspend_credential`, `unsuspend_credential`, `reset_credential` and
  `force_rotation` have no callers.
* `update_credential_settings` compares the country after it has assigned it.

Accounts:

* The role column is called the source of truth (`models.py:638`), but a login
  lets the invite override "admin" (`auth.py:612`), and
  `update_team_member_role` writes the invite alone.

Pages:

* "Retry Now" (`thank-you/page.tsx:736`) resets the display and leaves the
  interval stopped: nothing is retried.
* "Terminal states stop the poll", says the thank-you page; its interval goes on
  and such answers count no attempt, and each later poll clears the device's
  record again. A page that gives up on a `pending` order shows nothing.
* `CheckoutClient` makes a new idempotency key for each click; the record holds
  the last item of a basket only; the precheck fails open.

## 5. Proofs

Checked by TLAPS for every value of the constants that satisfies the assumption
of the component's module. The assumptions say that ids are told apart (`None`
is no order, a job is no request, a login no staff request), that bounds are
naturals and quantities positive, and that the faults and edits allowed are
among those named: `FulfillmentAssumption`, `CheckoutAssumption`,
`ProvisioningAssumption`, `AccessAssumption`, `AccountsAssumption`,
`TabsAssumption`. Nothing bounds the number of orders, requests, credentials,
tabs or faults, and the bounds on counters are parameters of the theorems.

| Theorem | States |
|---|---|
| `OrderFulfillmentProofs!TypeCorrect` | `Spec => []TypeOK` |
| `OrderFulfillmentProofs!JobsAreAlwaysForCharges` | `Spec => []JobsAreForCharges` |
| `OrderFulfillmentProofs!BooksFollowMoney` | `Spec => []RefundedMeansMoneyMoved` |
| `OrderFulfillmentProofs!DuplicatesLoseNothing` | `Spec => []SeenMeansRecorded` |
| `OrderFulfillmentProofs!PaidOrdersAreNeverOrphans` | `Spec => []PaidOrdersAreInHand`, if `Faults \subseteq {"worker", "clerk"}` (`ServicesStayUp`) |
| `CredentialProofs!FulfilledAreComplete` | `Spec => []FulfilledOrdersAreComplete`, if `Clerks = {}` |
| `CredentialProofs!LiveOrdersWork` | `Spec => []LiveOrdersHaveAWorkingCredential`, if `"clerk" \notin Faults` |
| `CredentialProofs!CredentialsKeepThePromise` | `Spec => KeepsCredentialPromise` (`OrderFulfillment` implements `CredentialPromise`) |
| `PaymentPromiseProofs!OrdersKeepThePromise` | `Spec => KeepsPromise` (`OrderFulfillment` implements `PaymentPromise`) |
| `CheckoutIdempotencyProofs!TypeCorrect` | `Spec => []TypeOK` |
| `CheckoutIdempotencyProofs!RetriesAlwaysAgree` | `Spec => []RetriesAgree`, a property of the time until the database has failed |
| `CheckoutIdempotencyProofs!UrlsAlwaysHaveOrders` | `Spec => []UrlsHaveOrders`, of the same time |
| `ProxyAccessProofs!AccessTypeCorrect` | `Spec => []TypeOK` |
| `ProxyAccessProofs!GrantsFresh` | `Spec => []GrantsAreFresh` |
| `ProxyAccessProofs!LostAccessAccounted` | `Spec => []LostAccessIsAccountedFor` |
| `ProxyAccessProofs!CountsHappened` | `Spec => []CountedRotationsHappened` |
| `ProxyAccessProofs!RevokedForGood` | `Spec => RevokedIsForGood`, an action property |
| `ProvisioningProofs!ProvisioningTypeCorrect` | `Spec => []TypeOK` |
| `ProvisioningProofs!DeliveriesAreReal` | `Spec => []DeliveredJobsAreReal` |
| `ProvisioningProofs!SalesSuitThePlan` | `Spec => []SoldAddressesSuitThePlan` |
| `ProvisioningProofs!ProvisioningImplementsPromise` | `Spec => KeepsPromise` (`Provisioning` implements `ProvisioningPromise`) |
| `ProvisioningProofs!CallsComeToTheirEnd` | `Spec => CallsOnlyMoveOn`, an action property |
| `ProvisioningProofs!OnlyDatacenterAndIspAreMisjudged` | `Spec => RejectionsFollowThePlan`, if no plan is `"datacenter"` or `"isp"` |
| `AdminAccountsProofs!AccountsTypeCorrect` | `Spec => []TypeOK` |
| `AdminAccountsProofs!ShutStaysLocked` | `Spec => []ShutAccountsStayLocked` |
| `AdminAccountsProofs!TokensGiven` | `Spec => []TokensWereGiven` |
| `AdminAccountsProofs!SuperadminsGive` | `Spec => []OnlySuperadminsGive` |
| `AdminAccountsProofs!RolesKeepThePromise` | `Spec => KeepsRolePromise` (`AdminAccounts` implements `RolePromise`) |
| `CheckoutTabsProofs!TabsTypeCorrect` | `Spec => []TypeOK` |
| `CheckoutTabsProofs!PagesTellTheTruth` | `Spec => []AnnouncementsWereTrue` |
| `CheckoutTabsProofs!PagesComeToTheirEnd` | `Spec => PagesOnlyMoveOn`, an action property |

### The arguments

**Money and jobs.** `OrderFulfillmentProofs!IInv` joins the type invariant and
the two safety properties with what they need to be inductive.
`PayoutsPrecedeRecords` is the heart of the refund argument: a process about to
write `refunded` holds a payout, which nothing takes back. `JobsAreForCharges`
needs `ChargesAreInvoiced` (a charge implies an invoice) and that the sweep and
the handlers hold charged orders from the moment they look.
`DuplicatesLoseNothing` adds `DeliveriesAreRecorded`: a delivery past its `paid`
commit, or one that loaded the row as `paid` and will therefore write nothing,
is about a row that already shows the payment; and `RecordedStays`: nobody takes
such a row back to `absent`, `pending` or `expired`.
`PaidOrdersAreNeverOrphans` is an invariant of its own beside `IInv`: whoever
commits `paid` has the order in hand at that moment, every step that lets go of
it either queues it, starts the job that loaded it as `paid`, or writes another
status or puts the order on the list of failed jobs, and staff take an invoiced
order out of `paid` but, short of typing the status, never put one there. A job
may be cut short anywhere, since every end of a job that marks nothing is a job
that raises. The condition is what the code needs: a webhook that dies between
`paid` and the enqueue, a sweep that dies over its batch or a Redis that is down
does leave a paid order to nobody (Divergences, and the hazards at
`webhooks.py:239` and `:269`).

**Credentials.** The two properties about credentials are about ids that several
processes hold between two commits, so `CredentialProofs` first shows `Hands`:
what a job or a request has minted and not attached is active, has never been
loaded by anybody, and is in one hand only. Every step touches the credentials
of an order in one of three ways (`Quiet`, `Mints`, `Adopts`), each of which
keeps `Hands`; a revocation hits only ids that were loaded, hence never one in
hand. `FulfilInv` then counts the ids of the job that fulfils, and `LiveInv`
follows a live order (`Served`) and a job that still runs for an order that has
become live meanwhile (`Parted`: it did not load the credential the order has
now, so what it may revoke is not that one). The same three ways of touching an
order are the three actions of `CredentialPromise`, which is why the refinement
needs no condition on staff or faults: `Quiet` steps at most revoke, `Mints`
issue one credential more, `Adopts` attach one that was in hand and leave it in
no hand.

**The promise of the orders.** `PaymentPromiseProofs` adds `IdleWorkersAreFree`,
shows that initial states map to initial states and that each step is a step of
the promise or a stutter. Nothing is assumed of staff: the mapping counts a row
whose status they typed over as `open`, so the promise says nothing of its books.

**Checkout.** `RetriesAgree` needs two things. `NobodyDeletes`: while the database
answers, the loser of a race finds a row, so the cleanup that deletes the
winner's order is unreachable, and whatever a request was told of, the order it
replays, the winner it looks up or the row it inserts, is a row that stays.
`OneOpenOrder`: of the rows with the key at most one is not cancelled, expired
or refunded, which is the unique index. Two requests told of different orders
therefore name two rows, one of which is over.

**Purchases.** `ProvisioningProofs` names what a step does to the counters of one
piece of work (`StepsAreMoves`); `Counts` bounds the provider's bill by the
attempts used so far, `Screened` says that what waits for its commit has passed
the screening unless a verdict was missing, and `UnknownIsStrictest` that the
rules applied without a plan are contained in those of every plan. The
refinement maps each move to a step of the promise (`MovesKeepPromise`). The same
moves lower a measure, in this order: credentials still to commit, attempts left
for this one, place in `create_credential` (`MovesComeNearer`, with
`CourseIsOrdered` for the place). `OnlyDatacenterAndIspAreMisjudged` draws the
line around the finding of `claim_plan_aware`: only a rejection goes back from
the screening to the provider, and the rules of every other plan are those
applied without one.

**Relay.** `RequestsHaveRows` and `MintedIsOwned` (a row that is minted and not
attached belongs to one request, and is on record as overtaken if it was revoked
meanwhile) carry the two properties about replacements, `LoadedCounts` (what a rotation
loaded is not ahead of the row) the one about counts, and `RelayInv` freshness:
every pair the relay holds was valid when its refresh read, at most `RefreshMax`
before the TTL began.

**Accounts.** `RolesInv` says of every copy of a role (row, invite, set-up token,
login in flight, token, staff request in flight) that it was given to its
bearer; `HistoryGrows` keeps that true of copies a step does not touch.
`ShutInv` says nobody is about to write the short lock over the long one.
`BookInv` adds what the refinement of `RolePromise` needs of requests under way:
a set-up token is for an address its invite is for, and a login is for an
account. Every step then changes the book of roles in one of four ways: not at
all but for tokens that expire (`BookKept`), one role handed out by a request
that a superadmin's token or row let in (`BookGives`), one invite redeemed, or
one token issued; `BookStep` maps them to the four actions of the promise.

**Pages.** `PageWasTrue` carries what each poll has been answered, beside what the
page shows, back to the history of its own order, so the order of arrival does
not matter. The bound on attempts needs
`WellPage`, which counts the polls under way. `PagesComeToTheirEnd` adds
`LoadingPoll` (a page that is loading is polling): what can happen to a loading
page is an attempt, a poll that is sent, or one that is answered.

### Only model-checked

* Liveness: `PaidIsTransient`, `RequestsAreAnswered`, `EveryCallEnds`,
  `PagesSettle`, `PagesCatchUp`. They need fairness and `ENABLED`, which the
  prover does not handle. For three of them the safety half is proved, and only
  the step from "somebody can always go on" to "somebody does" is TLC's:
  `PaidIsTransient` rests on `PaidOrdersAreInHand` (somebody has the order),
  `EveryCallEnds` on `CallsOnlyMoveOn` and `PagesSettle` on `PagesOnlyMoveOn`
  (no step is made twice, so there are finitely many).
* Two of the three violations. The third, `RejectionsFollowThePlan`, has its
  theorem for the plans it holds for.

Every safety property of a passing run is proved.

## 6. Not modelled

Left out of modules that exist:

* `OrderFulfillment`: the NOWPayments and TheoremReach routes, failed-charge
  events, subscriptions; a client-supplied `payment_reference` that happens to
  match a webhook (events match orders exactly here); audit rows, e-mails, n8n
  and alerts, which nothing reads back; amounts: partial refunds, currencies,
  price arithmetic.
* `CheckoutIdempotency`: pricing, customer lookup.
* `Provisioning`: what a provider charges; the clients of the two other
  providers, which `create_credential` does not use.
* `ProxyAccess`: the bytes a relay carries and counts, country settings,
  `expires_at`.
* `AdminAccounts`: the legacy login by phone, overrides per admin, permission
  change requests, the TOTP step-up, `/refresh`, feature flags, invites with
  `max_uses` above 1, the second commit of the audit row, changing a password or
  a TOTP secret, the IP allowlist.
* `CheckoutTabs`: the precheck, the list of gateways, the ten-minute countdown,
  a page opened without a reference, the asynchronous import before the release,
  the order history; the "Retry Now" button of a page that gave up, which resets
  what the page shows (attempts, order and action are back where they began, and
  none of them is read again, for the interval is cleared) and is therefore no
  step of the model.

Workflows the code starts and cannot finish, so that no path reaches what could
go wrong in them:

* trials: `trial_delivery.py` builds a credential with an argument the row
  does not have; the lost hours and the port race are behind it;
* renewals: the routes build `OrderRenewal` rows with columns it does not have,
  and the table the webhooks look renewals up in has no writer;
* the generic idempotency dependency: it passes ISO strings for `timestamptz`
  parameters, and nothing calls `store_idempotent_response`;
* gateway retry: no caller;
* approval of large refunds: `RefundApproval` is constructed with arguments it
  does not take;
* Dante: its methods are stubs.

Hazards there are listed in `PROJECT.json` with the reason no property covers
them.

Most of the repository's lines are not in the map, and cannot be: request and
response schemas, table definitions, e-mail templates, listings and CRUD of the
back office, the blog, the support agent's prompts and tools, migrations, and
the front end's markup hold no state machine that several steps or actors could
take to a wrong place. What decides about money, credentials, access and roles
is in the modules above.

## 7. Plan

Done, in this order of weight: `OrderFulfillment` with its promise and proofs,
`CheckoutIdempotency`, `ProxyAccess`, `Provisioning` with its promise,
`AdminAccounts`, `CheckoutTabs`, the proofs of the last four, the promises about
credentials and roles, and the safety halves of three liveness properties.

What is worth adding:

1. `PermissionChanges`: an approval and a rejection of one change request that
   both loaded it as pending (`app/routers/permissions.py:516`), and the
   overrides they write, composed with the roles of `AdminAccounts`.
2. In `AdminAccounts`: that a superadmin remains. Two who delete each other
   leave none (`app/routers/superadmin.py:327`); the property is false of the
   code, and no comment promises it.
3. The NOWPayments route in `OrderFulfillment`: its events repeat with growing
   statuses instead of one success.
4. Larger instances of `two_gateways` with handler crashes, where TLC now leaves
   `SeenMeansRecorded` to its theorem.
