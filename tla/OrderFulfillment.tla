-------------------------- MODULE OrderFulfillment --------------------------
(***************************************************************************)
(* The life of an order after checkout: the gateway charges the customer   *)
(* and tells the webhook routes, which mark the order paid and queue a     *)
(* fulfilment job; the worker mints credentials or refunds; two crons and  *)
(* a sweep repair what was left behind; staff and customers act on the     *)
(* same rows over HTTP.  Nobody locks a row.  Every step is one database   *)
(* commit or one gateway call, so a handler that awaits the gateway or the *)
(* provider between its SELECT and its COMMIT is two or more steps.        *)
(***************************************************************************)
EXTENDS Naturals, Sequences, FiniteSets

CONSTANTS
  Orders,         \* the orders
  PaystackOrders, \* those invoiced through Paystack; the others use Flutterwave
  DirectOrders,   \* those POSTed to /orders/create: no gateway invoice exists
  Handlers,       \* webhook requests the API serves at the same time
  Clerks,         \* staff and customer requests it serves at the same time
  None,           \* no order
  Quantity,       \* credentials an order is for (order.quantity)
  Faults,         \* what may strike in this instance: see FaultKinds
  Edits,          \* bound: the statuses staff type over an order's own
  MaxMinted,      \* bound: credentials ever minted for one order
  MaxRefunds,     \* bound: times the gateway pays out a refund of one charge
  MaxQueue        \* bound: jobs waiting in the RQ queue

(* Redis is down; or a request, job or run of the kind is cut short where it *)
(* stands: its process dies, a statement of its session fails, or it is      *)
(* timed out.                                                                *)
FaultKinds == {"redis", "handler", "worker", "cron", "clerk"}
Status == {"absent", "pending", "paid", "fulfilled", "active",
           "pending_verification", "failed_unfulfilled", "failed_manual_review",
           "refunded", "cancelled", "expired"}

ASSUME FulfillmentAssumption ==
  /\ None \notin Orders
  /\ PaystackOrders \subseteq Orders
  /\ DirectOrders \subseteq Orders
  /\ PaystackOrders \cap DirectOrders = {}
  /\ Quantity \in Nat \ {0}
  /\ Faults \subseteq FaultKinds /\ Edits \subseteq Status \ {"absent"}
  /\ MaxMinted \in Nat
  /\ MaxRefunds \in Nat
  /\ MaxQueue \in Nat

VARIABLES
  status,   \* orders.status, "absent" before the row is committed
  charged,  \* gateway: the customer's money was taken
  fresh,    \* gateway: the transaction is younger than Paystack's replay window
  refunds,  \* gateway: full refunds paid out
  minted,   \* credentials ever committed for the order; ids are 1 .. minted
  active,   \* ids of those whose row says "active"
  fk,       \* orders.styxproxy_credential_id, 0 for NULL
  seen,     \* the event's row exists in processed_webhooks
  edited,   \* history: staff overwrote the status by hand
  queue,    \* the RQ "fulfillment" queue
  failed,   \* the orders whose last job RQ keeps as failed
  handler,  \* the webhook requests
  worker,   \* the one RQ worker process
  retry,    \* refund_retry.py
  sweep,    \* reconcile_pending_payments.py
  clerk     \* the staff and customer requests

rows   == <<status, minted, active, fk, edited>>
money  == <<charged, fresh, refunds>>
actors == <<handler, worker, retry, sweep, clerk>>
vars   == <<status, minted, active, fk, edited, charged, fresh, refunds, seen,
            queue, failed, handler, worker, retry, sweep, clerk>>

Live == {"active", "fulfilled"}
Reprocessable ==
  {"failed_unfulfilled", "failed_manual_review", "paid", "pending"}
Invoiced == Orders \ DirectOrders

MaybeOrder == Orders \cup {None}
HandlerState ==
  [pc : {"idle", "commit", "enqueue", "mark"}, order : MaybeOrder, saw : Status]
WorkerState ==
  [pc : {"idle", "mint", "refund", "record"}, order : MaybeOrder, saw : Status,
   fk : Nat, job : Seq(Nat)]
RetryState == [todo : SUBSET Orders, payout : MaybeOrder]
SweepState == [todo : SUBSET Orders, won : MaybeOrder]
ClerkState ==
  [pc : {"idle", "record", "mint", "attach", "audit"}, op : {"none", "refund",
   "ops_refund", "reprocess", "refulfil"}, order : MaybeOrder, saw : Status,
   fk : Nat, cred : Nat]

TypeOK ==
  /\ status \in [Orders -> Status]
  /\ charged \in [Orders -> BOOLEAN]
  /\ fresh \in [Orders -> BOOLEAN]
  /\ refunds \in [Orders -> Nat]
  /\ minted \in [Orders -> Nat]
  /\ active \in [Orders -> SUBSET Nat]
  /\ fk \in [Orders -> Nat]
  /\ seen \in [Orders -> BOOLEAN]
  /\ edited \in [Orders -> BOOLEAN]
  /\ queue \in Seq(Orders)
  /\ failed \subseteq Orders
  /\ handler \in [Handlers -> HandlerState]
  /\ worker \in WorkerState
  /\ retry \in RetryState
  /\ sweep \in SweepState
  /\ clerk \in [Clerks -> ClerkState]

IdleHandler == [pc |-> "idle", order |-> None, saw |-> "absent"]
IdleWorker ==
  [pc |-> "idle", order |-> None, saw |-> "absent", fk |-> 0, job |-> <<>>]
IdleRetry == [todo |-> {}, payout |-> None]
IdleSweep == [todo |-> {}, won |-> None]
IdleClerk == [pc |-> "idle", op |-> "none", order |-> None, saw |-> "absent",
              fk |-> 0, cred |-> 0]

Init ==
  /\ status = [o \in Orders |-> "absent"]
  /\ charged = [o \in Orders |-> FALSE]
  /\ fresh = [o \in Orders |-> TRUE]
  /\ refunds = [o \in Orders |-> 0]
  /\ minted = [o \in Orders |-> 0]
  /\ active = [o \in Orders |-> {}]
  /\ fk = [o \in Orders |-> 0]
  /\ seen = [o \in Orders |-> FALSE]
  /\ edited = [o \in Orders |-> FALSE]
  /\ queue = <<>>
  /\ failed = {}
  /\ handler = [h \in Handlers |-> IdleHandler]
  /\ worker = IdleWorker
  /\ retry = IdleRetry
  /\ sweep = IdleSweep
  /\ clerk = [c \in Clerks |-> IdleClerk]

-----------------------------------------------------------------------------
(* Helpers *)

(* Assigning a column to the value the session loaded emits no UPDATE: what *)
(* another session committed meanwhile stays.  Any other value overwrites. *)
Written(o, saw, new) == IF saw = new THEN status[o] ELSE new

(* create_credential commits an active row of its own. *)
Mint(o) ==
  /\ minted[o] < MaxMinted
  /\ minted' = [minted EXCEPT ![o] = @ + 1]

(* refund_at_gateway and _flutterwave_refund return only if the gateway     *)
(* paid; neither sends an idempotency key nor reads gateway_refund_id.      *)
(* Paystack's transaction is verified first: one already refunded is refused.*)
GatewayPaysOut(o) ==
  /\ charged[o]
  /\ o \in PaystackOrders => refunds[o] = 0
  /\ refunds[o] < MaxRefunds
  /\ refunds' = [refunds EXCEPT ![o] = @ + 1]

(* enqueue_fulfillment: the job is queued, or Redis is down and the caller's *)
(* inline fallback answers already_processed because the row says "paid".    *)
Enqueue(o) ==
  \/ /\ Len(queue) < MaxQueue
     /\ queue' = Append(queue, o)
  \/ /\ "redis" \in Faults
     /\ UNCHANGED queue

-----------------------------------------------------------------------------
(* Checkout and the gateway *)

(* initiate_payment commits the row after the gateway opened the invoice. *)
CommitCheckout(o) ==
  /\ o \in Invoiced
  /\ status[o] = "absent"
  /\ status' = [status EXCEPT ![o] = "pending"]
  /\ UNCHANGED <<minted, active, fk, edited, money, seen, queue, failed,
                 actors>>

(* The customer pays the invoice: it exists from before the row is committed *)
(* and nothing ever closes it.                                               *)
Charge(o) ==
  /\ o \in Invoiced
  /\ ~charged[o]
  /\ charged' = [charged EXCEPT ![o] = TRUE]
  /\ UNCHANGED <<rows, fresh, refunds, seen, queue, failed, actors>>

(* The replay window reads data.created_at, when the transaction was opened, *)
(* before data.paid_at: the 300 seconds may be over before anybody pays.     *)
GoStale(o) ==
  /\ o \in PaystackOrders
  /\ fresh[o]
  /\ fresh' = [fresh EXCEPT ![o] = FALSE]
  /\ UNCHANGED <<rows, charged, refunds, seen, queue, failed, actors>>

-----------------------------------------------------------------------------
(* Mutant: the Paystack route marks an unmatched event, as Flutterwave's does.*)
WebhookReceiveUnmatched(h, o) ==
  /\ handler[h].pc = "idle"
  /\ charged[o]
  /\ o \in PaystackOrders => fresh[o]
  /\ ~seen[o]
  /\ status[o] # "expired"
  /\ handler' = [handler EXCEPT ![h] =
       [pc |-> IF status[o] \in Live \cup {"absent"} THEN "mark" ELSE "commit",
        order |-> o, saw |-> status[o]]]
  /\ UNCHANGED <<rows, money, seen, queue, failed, worker, retry, sweep, clerk>>

(* The webhook routes: replay window, duplicate check and order lookup, then *)
(* the "paid" commit, the enqueue and the processed_webhooks insert.  The    *)
(* 4xx answers and the duplicate's 200 change nothing and are no step.       *)
WebhookReceive(h, o) ==
  /\ handler[h].pc = "idle"
  /\ charged[o]
  /\ o \in PaystackOrders => fresh[o] /\ status[o] # "absent"
  /\ ~seen[o]
  /\ status[o] # "expired"
  /\ handler' = [handler EXCEPT ![h] =
       [pc |-> IF status[o] \in Live \cup {"absent"} THEN "mark" ELSE "commit",
        order |-> o, saw |-> status[o]]]
  /\ UNCHANGED <<rows, money, seen, queue, failed, worker, retry, sweep, clerk>>

(* Mutant: the gateway's word for it is written into orders.status. *)
WebhookCommitGatewayStatus(h) ==
  /\ handler[h].pc = "commit"
  /\ status' = [status EXCEPT ![handler[h].order] = "successful"]
  /\ handler' = [handler EXCEPT ![h].pc = "enqueue"]
  /\ UNCHANGED <<minted, active, fk, edited, money, seen, queue, failed, worker,
                 retry, sweep, clerk>>

WebhookCommitPaid(h) ==
  LET o == handler[h].order IN
  /\ handler[h].pc = "commit"
  /\ status' = [status EXCEPT ![o] = Written(o, handler[h].saw, "paid")]
  /\ handler' = [handler EXCEPT ![h].pc = "enqueue"]
  /\ UNCHANGED <<minted, active, fk, edited, money, seen, queue, failed, worker,
                 retry, sweep, clerk>>

WebhookEnqueue(h) ==
  /\ handler[h].pc = "enqueue"
  /\ Enqueue(handler[h].order)
  /\ handler' = [handler EXCEPT ![h].pc = "mark"]
  /\ UNCHANGED <<rows, money, seen, failed, worker, retry, sweep, clerk>>

(* A second insert of the same id is refused by the unique column. *)
WebhookMark(h) ==
  /\ handler[h].pc = "mark"
  /\ seen' = [seen EXCEPT ![handler[h].order] = TRUE]
  /\ handler' = [handler EXCEPT ![h] = IdleHandler]
  /\ UNCHANGED <<rows, money, queue, failed, worker, retry, sweep, clerk>>

WebhookCrash(h) ==
  /\ "handler" \in Faults
  /\ handler[h].pc # "idle"
  /\ handler' = [handler EXCEPT ![h] = IdleHandler]
  /\ UNCHANGED <<rows, money, seen, queue, failed, worker, retry, sweep, clerk>>

-----------------------------------------------------------------------------
(* fulfill_order_job, run by the single RQ worker: no retry, 300 s timeout.  *)
(* Any job that raises is kept by RQ as failed, and every one raises that    *)
(* does not settle its order or find it live.                                *)
Raises ==
  /\ worker' = IdleWorker
  /\ failed' = failed \cup {worker.order}

(* Mutant: the job skips what process_payment_webhook skips. *)
WorkerTakeSkipsPaid ==
  /\ worker.pc = "idle"
  /\ queue # <<>>
  /\ queue' = Tail(queue)
  /\ LET o == Head(queue) IN
       \/ /\ status[o] \in Live \cup {"absent", "paid"}
          /\ failed' = failed \ {o}
          /\ UNCHANGED worker
       \/ /\ status[o] \notin Live \cup {"absent", "paid"}
          /\ worker' = [pc |-> "mint", order |-> o, saw |-> status[o],
                        fk |-> fk[o], job |-> <<>>]
          /\ UNCHANGED failed
  /\ UNCHANGED <<rows, money, seen, handler, retry, sweep, clerk>>

(* Load the order.  Only a live (or missing) one is skipped: a job for a     *)
(* refunded, cancelled or expired order goes on.                             *)
WorkerTake ==
  /\ worker.pc = "idle"
  /\ queue # <<>>
  /\ queue' = Tail(queue)
  /\ LET o == Head(queue) IN
       \/ /\ status[o] \in Live \cup {"absent"}
          /\ failed' = failed \ {o}
          /\ UNCHANGED worker
       \/ /\ status[o] \notin Live \cup {"absent"}
          /\ worker' = [pc |-> "mint", order |-> o, saw |-> status[o],
                        fk |-> fk[o], job |-> <<>>]
          /\ UNCHANGED failed
  /\ UNCHANGED <<rows, money, seen, handler, retry, sweep, clerk>>

WorkerMint ==
  LET o == worker.order IN
  /\ worker.pc = "mint"
  /\ Len(worker.job) < Quantity
  /\ Mint(o)
  /\ active' = [active EXCEPT ![o] = @ \cup {minted'[o]}]
  /\ worker' = [worker EXCEPT !.job = Append(@, minted'[o])]
  /\ UNCHANGED <<status, fk, edited, money, seen, queue, failed, handler, retry,
                 sweep, clerk>>

(* Mutant: the count check is gone and one credential will do. *)
WorkerSettlePartial ==
  LET o == worker.order IN
  /\ worker.pc = "mint"
  /\ worker.job # <<>>
  /\ fk' = [fk EXCEPT ![o] = worker.job[Len(worker.job)]]
  /\ status' = [status EXCEPT ![o] = "fulfilled"]
  /\ worker' = IdleWorker
  /\ failed' = failed \ {o}
  /\ UNCHANGED <<minted, active, edited, money, seen, queue, handler, retry,
                 sweep, clerk>>

(* Every credential was created and passed verification: the last one is     *)
(* attached and the order is fulfilled.                                      *)
WorkerSettle ==
  LET o == worker.order IN
  /\ worker.pc = "mint"
  /\ Len(worker.job) = Quantity
  /\ fk' = [fk EXCEPT ![o] = worker.job[Len(worker.job)]]
  /\ status' = [status EXCEPT ![o] = "fulfilled"]
  /\ worker' = IdleWorker
  /\ failed' = failed \ {o}
  /\ UNCHANGED <<minted, active, edited, money, seen, queue, handler, retry,
                 sweep, clerk>>

(* An exception before the first credential that leaves the session usable   *)
(* and is no RuntimeError (a plan without a type): only a row still loaded   *)
(* as payable is marked, and nobody refunds it here.                         *)
WorkerFailsEarly ==
  LET o == worker.order IN
  /\ worker.pc = "mint"
  /\ worker.job = <<>>
  /\ status' = [status EXCEPT ![o] =
       IF worker.saw \in {"paid", "pending"} THEN "failed_unfulfilled" ELSE @]
  /\ Raises
  /\ UNCHANGED <<minted, active, fk, edited, money, seen, queue, handler, retry,
                 sweep, clerk>>

(* Mutant: the failed order is called refunded before the gateway is asked. *)
WorkerProviderFailsRefunded ==
  LET o == worker.order IN
  /\ worker.pc = "mint"
  /\ status' = [status EXCEPT ![o] = "refunded"]
  /\ worker' = [worker EXCEPT !.pc = "refund", !.saw = "refunded"]
  /\ UNCHANGED <<minted, active, fk, edited, money, seen, queue, failed,
                 handler, retry, sweep, clerk>>

(* RuntimeError: the provider ran out of proxies or a credential failed its  *)
(* verification.  What was minted stays as it is.                            *)
WorkerProviderFails ==
  LET o == worker.order IN
  /\ worker.pc = "mint"
  /\ status' = [status EXCEPT ![o] = Written(o, worker.saw, "failed_unfulfilled")]
  /\ worker' = [worker EXCEPT !.pc = "refund", !.saw = "failed_unfulfilled"]
  /\ UNCHANGED <<minted, active, fk, edited, money, seen, queue, failed,
                 handler, retry, sweep, clerk>>

(* Any other exception: the attached credential of the loaded row is revoked.*)
WorkerOtherError ==
  LET o == worker.order IN
  /\ worker.pc = "mint"
  /\ status' = [status EXCEPT ![o] = Written(o, worker.saw, "failed_manual_review")]
  /\ active' = [active EXCEPT ![o] = @ \ {worker.fk}]
  /\ Raises
  /\ UNCHANGED <<minted, fk, edited, money, seen, queue, handler, retry, sweep,
                 clerk>>

(* refund_at_gateway; on GatewayRefundError the order stays where it is.     *)
WorkerRefund ==
  /\ worker.pc = "refund"
  /\ \/ /\ GatewayPaysOut(worker.order)
        /\ worker' = [worker EXCEPT !.pc = "record"]
        /\ UNCHANGED failed
     \/ /\ UNCHANGED refunds
        /\ Raises
  /\ UNCHANGED <<rows, charged, fresh, seen, queue, handler, retry, sweep,
                 clerk>>

WorkerRecordRefund ==
  /\ worker.pc = "record"
  /\ status' = [status EXCEPT ![worker.order] = "refunded"]
  /\ Raises
  /\ UNCHANGED <<minted, active, fk, edited, money, seen, queue, handler, retry,
                 sweep, clerk>>

(* The job ends without another commit, and the row says what it said: the   *)
(* process is killed; RQ's timeout ends the event loop; the load or a later  *)
(* statement fails, and with it the commit that should mark the row; or a    *)
(* RuntimeError before the first credential is re-raised as "already marked".*)
WorkerCrash ==
  /\ "worker" \in Faults
  /\ worker.pc # "idle"
  /\ Raises
  /\ UNCHANGED <<rows, money, seen, queue, handler, retry, sweep, clerk>>

-----------------------------------------------------------------------------
(* The timers *)

(* expire_old_orders.py: one UPDATE, rows older than 30 minutes.             *)
Expire(o) ==
  /\ status[o] = "pending"
  /\ status' = [status EXCEPT ![o] = "expired"]
  /\ UNCHANGED <<minted, active, fk, edited, money, seen, queue, failed,
                 actors>>

(* refund_retry.py: the rows it selects, those old enough.                   *)
RetrySelect ==
  /\ retry = IdleRetry
  /\ \E S \in SUBSET {o \in Orders : status[o] = "failed_unfulfilled"} :
       /\ S # {}
       /\ retry' = [retry EXCEPT !.todo = S]
  /\ UNCHANGED <<rows, money, seen, queue, failed, handler, worker, sweep,
                 clerk>>

(* Mutant: a refusal is taken for a refund. *)
RetryRefundUnconfirmed(o) ==
  /\ retry.payout = None
  /\ o \in retry.todo
  /\ GatewayPaysOut(o) \/ UNCHANGED refunds
  /\ retry' = [todo |-> retry.todo \ {o}, payout |-> o]
  /\ UNCHANGED <<rows, charged, fresh, seen, queue, failed, handler, worker,
                 sweep, clerk>>

(* It asks Flutterwave whatever the order's gateway; a refusal is logged.    *)
RetryRefund(o) ==
  /\ retry.payout = None
  /\ o \in retry.todo
  /\ \/ /\ o \notin PaystackOrders
        /\ GatewayPaysOut(o)
        /\ retry' = [todo |-> retry.todo \ {o}, payout |-> o]
     \/ /\ UNCHANGED refunds
        /\ retry' = [retry EXCEPT !.todo = @ \ {o}]
  /\ UNCHANGED <<rows, charged, fresh, seen, queue, failed, handler, worker,
                 sweep, clerk>>

(* UPDATE ... WHERE order_id: whatever the status is by now.                 *)
RetryRecord ==
  /\ retry.payout # None
  /\ status' = [status EXCEPT ![retry.payout] = "refunded"]
  /\ retry' = [retry EXCEPT !.payout = None]
  /\ UNCHANGED <<minted, active, fk, edited, money, seen, queue, failed,
                 handler, worker, sweep, clerk>>

(* reconcile_pending_payments.py: pending rows past the webhook window.      *)
SweepSelect ==
  /\ sweep = IdleSweep
  /\ \E S \in SUBSET {o \in Invoiced : status[o] = "pending"} :
       /\ S # {}
       /\ sweep' = [sweep EXCEPT !.todo = S]
  /\ UNCHANGED <<rows, money, seen, queue, failed, handler, worker, retry,
                 clerk>>

(* Mutant: the verification's status is not looked at. *)
SweepVerifyUnconfirmed(o) ==
  /\ sweep.won = None
  /\ o \in sweep.todo
  /\ status[o] = "pending"
  /\ status' = [status EXCEPT ![o] = "paid"]
  /\ sweep' = [todo |-> sweep.todo \ {o}, won |-> o]
  /\ UNCHANGED <<minted, active, fk, edited, money, seen, queue, failed,
                 handler, worker, retry, clerk>>

(* Flutterwave confirms the charge and UPDATE ... WHERE status = 'pending'   *)
(* finds the row, or the order is passed over (not paid, no answer, lost).   *)
SweepVerify(o) ==
  /\ sweep.won = None
  /\ o \in sweep.todo
  /\ \/ /\ charged[o]
        /\ o \notin PaystackOrders
        /\ status[o] = "pending"
        /\ status' = [status EXCEPT ![o] = "paid"]
        /\ sweep' = [todo |-> sweep.todo \ {o}, won |-> o]
     \/ /\ UNCHANGED status
        /\ sweep' = [sweep EXCEPT !.todo = @ \ {o}]
  /\ UNCHANGED <<minted, active, fk, edited, money, seen, queue, failed,
                 handler, worker, retry, clerk>>

SweepEnqueue ==
  /\ sweep.won # None
  /\ Enqueue(sweep.won)
  /\ sweep' = [sweep EXCEPT !.won = None]
  /\ UNCHANGED <<rows, money, seen, failed, handler, worker, retry, clerk>>

CronCrash ==
  /\ "cron" \in Faults
  /\ \/ retry # IdleRetry /\ retry' = IdleRetry /\ UNCHANGED sweep
     \/ sweep # IdleSweep /\ sweep' = IdleSweep /\ UNCHANGED retry
  /\ UNCHANGED <<rows, money, seen, queue, failed, handler, worker, clerk>>

-----------------------------------------------------------------------------
(* Staff and customer requests.  A request that awaits the gateway or the    *)
(* provider keeps what it loaded and commits later.                          *)
Busy(c, request) ==
  /\ clerk[c].pc = "idle"
  /\ clerk' = [clerk EXCEPT ![c] = request]

(* POST /admin/orders/{id}/refund up to the threshold (above it the route    *)
(* dies constructing its RefundApproval): _process_refund asks the gateway   *)
(* first; a refusal leaves the row alone.                                    *)
AdminRefund(c, o) ==
  /\ status[o] \notin {"absent", "refunded", "cancelled"}
  /\ o \in Invoiced
  /\ GatewayPaysOut(o)
  /\ Busy(c, [pc |-> "record", op |-> "refund", order |-> o, saw |-> status[o],
              fk |-> fk[o], cred |-> 0])
  /\ UNCHANGED <<rows, charged, fresh, seen, queue, failed, handler, worker,
                 retry, sweep>>

(* Mutant: the row is flipped without asking the gateway. *)
OpsRefundFlip(c, o) ==
  /\ status[o] \in {"paid", "fulfilled"}
  /\ o \in Invoiced
  /\ Busy(c, [pc |-> "record", op |-> "ops_refund", order |-> o,
              saw |-> status[o], fk |-> fk[o], cred |-> 0])
  /\ UNCHANGED <<rows, money, seen, queue, failed, handler, worker, retry,
                 sweep>>

(* POST /ops/orders/{id}/refund *)
OpsRefund(c, o) ==
  /\ status[o] \in {"paid", "fulfilled"}
  /\ o \in Invoiced
  /\ GatewayPaysOut(o)
  /\ Busy(c, [pc |-> "record", op |-> "ops_refund", order |-> o,
              saw |-> status[o], fk |-> fk[o], cred |-> 0])
  /\ UNCHANGED <<rows, charged, fresh, seen, queue, failed, handler, worker,
                 retry, sweep>>

(* The gateway confirmed.  Only the admin route revokes, and it revokes the  *)
(* credential that was attached when it loaded the order.                    *)
RecordRefund(c) ==
  LET o == clerk[c].order IN
  /\ clerk[c].pc = "record"
  /\ status' = [status EXCEPT ![o] = "refunded"]
  /\ active' = [active EXCEPT ![o] =
       IF clerk[c].op = "refund" THEN @ \ {clerk[c].fk} ELSE @]
  /\ clerk' = [clerk EXCEPT ![c] = IdleClerk]
  /\ UNCHANGED <<minted, fk, edited, money, seen, queue, failed, handler,
                 worker, retry, sweep>>

(* POST /ops/orders/{id}/reprocess.  Its "capture evidence" guard always     *)
(* holds: every order row carries an amount_paid_ngn, the invoice amount,    *)
(* from before anybody paid.                                                 *)
Reprocess(c, o) ==
  /\ status[o] \in Reprocessable
  /\ Busy(c, [pc |-> "mint", op |-> "reprocess", order |-> o, saw |-> status[o],
              fk |-> fk[o], cred |-> 0])
  /\ UNCHANGED <<rows, money, seen, queue, failed, handler, worker, retry,
                 sweep>>

(* POST /admin/orders/{id}/re-fulfill *)
Refulfil(c, o) ==
  /\ status[o] \notin {"absent", "refunded", "cancelled"}
  /\ Busy(c, [pc |-> "mint", op |-> "refulfil", order |-> o, saw |-> status[o],
              fk |-> fk[o], cred |-> 0])
  /\ UNCHANGED <<rows, money, seen, queue, failed, handler, worker, retry,
                 sweep>>

(* Mutant: re-fulfill goes on with the credential it revoked. *)
StaffMintKeepsOld(c) ==
  LET o == clerk[c].order
      old == IF clerk[c].op = "refulfil" THEN {clerk[c].fk} ELSE {}
  IN
  /\ clerk[c].pc = "mint"
  /\ Mint(o)
  /\ active' = [active EXCEPT ![o] = (@ \ old) \cup {minted'[o]}]
  /\ clerk' = [clerk EXCEPT ![c].pc = "attach", ![c].cred = clerk[c].fk]
  /\ UNCHANGED <<status, fk, edited, money, seen, queue, failed, handler, worker,
                 retry, sweep>>

(* create_credential's commit: one credential whatever the quantity, and in  *)
(* the same transaction re-fulfill's revocation of the one it loaded.        *)
StaffMint(c) ==
  LET o == clerk[c].order
      old == IF clerk[c].op = "refulfil" THEN {clerk[c].fk} ELSE {}
  IN
  /\ clerk[c].pc = "mint"
  /\ Mint(o)
  /\ active' = [active EXCEPT ![o] = (@ \ old) \cup {minted'[o]}]
  /\ clerk' = [clerk EXCEPT ![c].pc = "attach", ![c].cred = minted'[o]]
  /\ UNCHANGED <<status, fk, edited, money, seen, queue, failed, handler,
                 worker, retry, sweep>>

(* Anything raised inside reprocess's try, be it the provider, the refresh   *)
(* after the minting commit or the audit entry of an order already fulfilled,*)
(* commits the failure status.                                               *)
ReprocessFails(c) ==
  LET o == clerk[c].order IN
  /\ clerk[c].pc \in {"mint", "attach", "audit"}
  /\ clerk[c].op = "reprocess"
  /\ status' = [status EXCEPT ![o] = Written(o, clerk[c].saw, "failed_unfulfilled")]
  /\ clerk' = [clerk EXCEPT ![c] = IdleClerk]
  /\ UNCHANGED <<minted, active, fk, edited, money, seen, queue, failed,
                 handler, worker, retry, sweep>>

(* A provider failure rolls re-fulfill's revocation back. *)
RefulfilFails(c) ==
  /\ clerk[c].pc = "mint"
  /\ clerk[c].op = "refulfil"
  /\ clerk' = [clerk EXCEPT ![c] = IdleClerk]
  /\ UNCHANGED <<rows, money, seen, queue, failed, handler, worker, retry,
                 sweep>>

(* POST /orders/create with a payment_reference: the row is "paid" on the    *)
(* client's word, and create_credential's commit makes it visible so.  Then  *)
(* the request dies: it takes the pair create_credential returns for the     *)
(* credential, so neither the foreign key nor "active" is ever written.      *)
CreateDirect(c, o) ==
  /\ clerk[c].pc = "idle"
  /\ o \in DirectOrders
  /\ status[o] = "absent"
  /\ Mint(o)
  /\ status' = [status EXCEPT ![o] = "paid"]
  /\ active' = [active EXCEPT ![o] = @ \cup {minted'[o]}]
  /\ UNCHANGED <<fk, edited, money, seen, queue, failed, actors>>

(* The same request when the provider fails, or without a payment_reference. *)
CreateDirectUndelivered(c, o) ==
  /\ clerk[c].pc = "idle"
  /\ o \in DirectOrders
  /\ status[o] = "absent"
  /\ \E s \in {"refunded", "pending"} : status' = [status EXCEPT ![o] = s]
  /\ UNCHANGED <<minted, active, fk, edited, money, seen, queue, failed,
                 actors>>

(* The second commit.  Reprocess has its audit entry still to write.         *)
Attach(c) ==
  LET o == clerk[c].order
      new == IF clerk[c].op = "reprocess" THEN "fulfilled" ELSE "active"
  IN
  /\ clerk[c].pc = "attach"
  /\ fk' = [fk EXCEPT ![o] = clerk[c].cred]
  /\ status' = [status EXCEPT ![o] = Written(o, clerk[c].saw, new)]
  /\ \/ /\ clerk[c].op = "reprocess"
        /\ clerk' = [clerk EXCEPT ![c].pc = "audit", ![c].saw = "fulfilled"]
     \/ /\ clerk[c].op # "reprocess"
        /\ clerk' = [clerk EXCEPT ![c] = IdleClerk]
  /\ UNCHANGED <<minted, active, edited, money, seen, queue, failed, handler,
                 worker, retry, sweep>>

ReprocessAudit(c) ==
  /\ clerk[c].pc = "audit"
  /\ clerk' = [clerk EXCEPT ![c] = IdleClerk]
  /\ UNCHANGED <<rows, money, seen, queue, failed, handler, worker, retry,
                 sweep>>

(* Mutant: whatever was ever created for the order is revoked. *)
CancelRevokesAll(c, o) ==
  /\ clerk[c].pc = "idle"
  /\ status[o] \notin {"absent", "refunded", "cancelled"}
  /\ status' = [status EXCEPT ![o] = "cancelled"]
  /\ active' = [active EXCEPT ![o] = {}]
  /\ UNCHANGED <<minted, fk, edited, money, seen, queue, failed, actors>>

(* POST /orders/{id}/cancel by the customer. *)
Cancel(c, o) ==
  /\ clerk[c].pc = "idle"
  /\ status[o] \notin {"absent", "refunded", "cancelled"}
  /\ status' = [status EXCEPT ![o] = "cancelled"]
  /\ active' = [active EXCEPT ![o] = @ \ {fk[o]}]
  /\ UNCHANGED <<minted, fk, edited, money, seen, queue, failed, actors>>

(* POST /orders/{id}/report-dead *)
ReportDead(c, o) ==
  /\ clerk[c].pc = "idle"
  /\ status[o] = "active"
  /\ status' = [status EXCEPT ![o] = "pending_verification"]
  /\ UNCHANGED <<minted, active, fk, edited, money, seen, queue, failed,
                 actors>>

(* PATCH /admin/orders/{id}: any status staff type. *)
EditStatus(c, o) ==
  /\ clerk[c].pc = "idle"
  /\ status[o] # "absent"
  /\ \E s \in Edits : status' = [status EXCEPT ![o] = s]
  /\ edited' = [edited EXCEPT ![o] = TRUE]
  /\ UNCHANGED <<minted, active, fk, money, seen, queue, failed, actors>>

ClerkCrash(c) ==
  /\ "clerk" \in Faults
  /\ clerk[c].pc # "idle"
  /\ clerk' = [clerk EXCEPT ![c] = IdleClerk]
  /\ UNCHANGED <<rows, money, seen, queue, failed, handler, worker, retry,
                 sweep>>

-----------------------------------------------------------------------------
GatewayStep == \E o \in Orders : CommitCheckout(o) \/ Charge(o) \/ GoStale(o)

WebhookProgress(h) == WebhookCommitPaid(h) \/ WebhookEnqueue(h) \/ WebhookMark(h)
WebhookStep(h) ==
  \/ \E o \in Orders : WebhookReceive(h, o)
  \/ WebhookProgress(h)
  \/ WebhookCrash(h)

WorkerProgress ==
  \/ WorkerTake \/ WorkerMint \/ WorkerSettle
  \/ WorkerFailsEarly \/ WorkerProviderFails \/ WorkerOtherError
  \/ WorkerRefund \/ WorkerRecordRefund
WorkerStep == WorkerProgress \/ WorkerCrash

CronStep ==
  \/ \E o \in Orders : Expire(o) \/ RetryRefund(o) \/ SweepVerify(o)
  \/ RetrySelect \/ RetryRecord \/ SweepSelect \/ SweepEnqueue \/ CronCrash

ClerkProgress(c) ==
  \/ RecordRefund(c) \/ StaffMint(c) \/ Attach(c) \/ ReprocessAudit(c)
  \/ ReprocessFails(c) \/ RefulfilFails(c)
ClerkStep(c) ==
  \/ \E o \in Orders :
       \/ AdminRefund(c, o) \/ OpsRefund(c, o) \/ Reprocess(c, o)
       \/ Refulfil(c, o) \/ CreateDirect(c, o) \/ CreateDirectUndelivered(c, o)
       \/ Cancel(c, o) \/ ReportDead(c, o) \/ EditStatus(c, o)
  \/ ClerkProgress(c) \/ ClerkCrash(c)

Next ==
  \/ GatewayStep
  \/ \E h \in Handlers : WebhookStep(h)
  \/ WorkerStep
  \/ CronStep
  \/ \E c \in Clerks : ClerkStep(c)

Spec == Init /\ [][Next]_vars

(* The event loop finishes a request it began, the worker process runs, and  *)
(* the sweep finishes the row it claimed.  Nobody has to pay, call or click. *)
FairSpec ==
  /\ Spec
  /\ \A h \in Handlers : WF_vars(WebhookProgress(h))
  /\ WF_vars(WorkerProgress)
  /\ WF_vars(SweepEnqueue)
  /\ \A c \in Clerks : WF_vars(ClerkProgress(c))
-----------------------------------------------------------------------------
(* Properties *)

(* An invoiced order's row says "refunded" only after the gateway paid the   *)
(* refund out, whichever of the worker, the retry cron, the admin route and  *)
(* the ops route wrote it, and whatever the others wrote in between.         *)
RefundedMeansMoneyMoved ==
  \A o \in Invoiced : status[o] = "refunded" /\ ~edited[o] => refunds[o] > 0

(* Every job in the queue, at the worker or about to be queued is for an     *)
(* order whose money the gateway took: nothing is minted or refunded by the  *)
(* automatic path on the word of a client, a stale row or an unpaid invoice. *)
ForCharge(o) == o \in Invoiced /\ charged[o]
JobsAreForCharges ==
  /\ \A i \in 1 .. Len(queue) : ForCharge(queue[i])
  /\ worker.pc # "idle" => ForCharge(worker.order)
  /\ \A h \in Handlers : handler[h].pc # "idle" => ForCharge(handler[h].order)
  /\ sweep.won # None => ForCharge(sweep.won)

(* A Paystack event is entered in processed_webhooks only once its effect on *)
(* the order is committed, and nothing later takes the order back to an      *)
(* unpaid state: a redelivery turned away as a duplicate loses nothing.      *)
Unpaid == {"absent", "pending", "expired"}
SeenMeansRecorded ==
  \A o \in PaystackOrders : seen[o] /\ ~edited[o] => status[o] \notin Unpaid

(* While staff and customer requests are not cut short, a live order's       *)
(* attached credential works, or a re-fulfilment that just revoked it is     *)
(* about to attach its successor: no cancel, refund, failed job, failed      *)
(* reprocess or second re-fulfilment, however interleaved, leaves the        *)
(* customer a dead login behind a "your proxy is ready".                     *)
LiveOrdersHaveAWorkingCredential ==
  \A o \in Orders : status[o] \in Live /\ ~edited[o] =>
    \/ fk[o] \in active[o]
    \/ \E c \in Clerks : /\ clerk[c].pc = "attach" /\ clerk[c].order = o
                         /\ clerk[c].op = "refulfil"

(* "A partial create must NOT be reported as fulfilled" (fulfillment_worker  *)
(* .py:206): an order says fulfilled only while as many working credentials  *)
(* as were bought exist for it.  The automatic path keeps this through       *)
(* provider failures, dead workers and repeated jobs.  Where Clerks # {} it  *)
(* fails: ops reprocess mints one credential whatever the quantity.          *)
FulfilledOrdersAreComplete ==
  \A o \in Orders : status[o] = "fulfilled" /\ ~edited[o] =>
    Cardinality(active[o]) >= Quantity

(* "A job that captured money and delivered nothing must NEVER report        *)
(* success": while API, timers and Redis stay up, a paid order is in         *)
(* somebody's hands (the webhook or the sweep that marked it is about to     *)
(* queue it, a job waits, the job at work loaded it as paid), or its last    *)
(* job is on RQ's list of failed ones.  However jobs, redeliveries, expiry   *)
(* and staff requests overlap, and wherever a job is cut short, no order     *)
(* stays paid with every signal green.                                       *)
InHand(o) ==
  \/ \E h \in Handlers : handler[h].pc = "enqueue" /\ handler[h].order = o
  \/ sweep.won = o
  \/ \E i \in 1 .. Len(queue) : queue[i] = o
  \/ worker.pc = "mint" /\ worker.order = o /\ worker.saw = "paid"
PaidOrdersAreInHand ==
  \A o \in Invoiced : status[o] = "paid" /\ ~edited[o] => InHand(o) \/ o \in failed

(* While API and Redis stay up and a worker process is restarted, a paid     *)
(* order does not wait for ever: a job fulfils it, refunds it or marks it    *)
(* failed, or is itself recorded as failed, whatever staff requests do and   *)
(* wherever jobs and requests are cut short.                                 *)
PaidIsTransient ==
  \A o \in Invoiced : status[o] = "paid" ~>
    (status[o] # "paid" \/ edited[o] \/ o \in failed)

(* A credential is in hand from its commit to the commit that attaches it:   *)
(* the job at work collects them, a reprocess or re-fulfilment holds one.    *)
Job(o) == IF worker.pc = "mint" /\ worker.order = o
          THEN {worker.job[i] : i \in 1 .. Len(worker.job)} ELSE {}
Pending(c, o) == clerk[c].pc = "attach" /\ clerk[c].order = o

(* The promises this module keeps. *)
Credentials == INSTANCE CredentialPromise WITH
  issued <- minted,
  works <- active,
  attached <- fk,
  inHand <- [o \in Orders |-> Job(o) \cup
               {clerk[c].cred : c \in {d \in Clerks : Pending(d, o)}}]

(* Jobs, staff and customers, however interleaved and wherever they die,     *)
(* issue, attach and revoke credentials as CredentialPromise says.           *)
KeepsCredentialPromise == Credentials!Spec

Promise == INSTANCE PaymentPromise WITH
  Orders <- Invoiced,
  money <- [o \in Invoiced |-> IF refunds[o] > 0 THEN "returned"
                               ELSE IF charged[o] THEN "held" ELSE "none"],
  books <- [o \in Invoiced |-> IF status[o] = "refunded" /\ ~edited[o]
                               THEN "refunded" ELSE "open"],
  commissioned <- {o \in Invoiced : \/ \E i \in 1 .. Len(queue) : queue[i] = o
                                    \/ worker.order = o}

(* Money, books and commissioned work of every invoiced order behave as      *)
(* PaymentPromise says.                                                      *)
KeepsPromise == Promise!Spec
=============================================================================
