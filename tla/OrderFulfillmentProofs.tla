------------------------ MODULE OrderFulfillmentProofs ------------------------
(***************************************************************************)
(* Proofs about OrderFulfillment for every number of orders, webhook       *)
(* requests and clerks, every quantity and every combination of faults.    *)
(***************************************************************************)
EXTENDS OrderFulfillment, SequenceTheorems, TLAPS

(* What has to hold beside the properties for a step to keep them. *)

(* The gateway only ever charges invoices. *)
ChargesAreInvoiced == \A o \in Orders : charged[o] => o \in Invoiced

(* Whoever is about to write "refunded" holds the gateway's confirmation. *)
PayoutsPrecedeRecords ==
  /\ worker.pc = "record" => refunds[worker.order] > 0
  /\ retry.payout # None => refunds[retry.payout] > 0
  /\ \A c \in Clerks : clerk[c].pc = "record" => refunds[clerk[c].order] > 0

(* A request under way is about a row. *)
ClerksHaveOrders ==
  \A c \in Clerks : clerk[c].pc # "idle" => clerk[c].order \in Orders

IInv ==
  /\ TypeOK
  /\ ChargesAreInvoiced
  /\ ClerksHaveOrders
  /\ JobsAreForCharges
  /\ PayoutsPrecedeRecords
  /\ RefundedMeansMoneyMoved

-----------------------------------------------------------------------------
(* A status written through the unit of work is a status. *)
LEMMA WrittenIsStatus ==
  ASSUME TypeOK, NEW o \in Orders, NEW saw, NEW new \in Status
  PROVE  Written(o, saw, new) \in Status
BY DEF TypeOK, Written

(* The automatic actors are at work on orders only. *)
LEMMA ActorsHaveOrders ==
  ASSUME JobsAreForCharges
  PROVE  /\ worker.pc # "idle" => worker.order \in Orders
         /\ \A h \in Handlers : handler[h].pc # "idle" => handler[h].order \in Orders
         /\ sweep.won # None => sweep.won \in Orders
BY DEF JobsAreForCharges, ForCharge, Invoiced

LEMMA InitIInv == Init => IInv
<1> SUFFICES ASSUME Init PROVE IInv
  OBVIOUS
<1> USE DEF Init, IdleHandler, IdleWorker, IdleRetry, IdleSweep, IdleClerk
<1>1. TypeOK
  BY EmptySeq DEF TypeOK, Status, HandlerState, WorkerState, RetryState, SweepState,
                  ClerkState, MaybeOrder
<1>2. ChargesAreInvoiced /\ ClerksHaveOrders /\ RefundedMeansMoneyMoved
  BY DEF ChargesAreInvoiced, ClerksHaveOrders, RefundedMeansMoneyMoved, Invoiced
<1>3. JobsAreForCharges
  BY DEF JobsAreForCharges
<1>4. PayoutsPrecedeRecords
  BY DEF PayoutsPrecedeRecords
<1>5. QED
  BY <1>1, <1>2, <1>3, <1>4 DEF IInv

-----------------------------------------------------------------------------
(* Each process's steps keep the types. *)
LEMMA GatewayTypes ==
  ASSUME IInv, GatewayStep PROVE TypeOK'
<1> USE DEF IInv, TypeOK, rows, money, actors
<1>1. PICK o \in Orders : CommitCheckout(o) \/ Charge(o) \/ GoStale(o)
  BY DEF GatewayStep
<1>2. CASE CommitCheckout(o)
  BY <1>2 DEF CommitCheckout, Status
<1>3. CASE Charge(o)
  BY <1>3 DEF Charge
<1>4. CASE GoStale(o)
  BY <1>4 DEF GoStale
<1>5. QED
  BY <1>1, <1>2, <1>3, <1>4

LEMMA EnqueueTypes ==
  ASSUME queue \in Seq(Orders), NEW o \in Orders, Enqueue(o)
  PROVE  queue' \in Seq(Orders)
BY AppendProperties DEF Enqueue

LEMMA WebhookTypes ==
  ASSUME IInv, NEW h \in Handlers, WebhookStep(h) PROVE TypeOK'
<1> USE DEF IInv, TypeOK, rows, money, HandlerState, IdleHandler, MaybeOrder
<1>1. CASE \E o \in Orders : WebhookReceive(h, o)
  BY <1>1 DEF WebhookReceive, Status
<1>2. CASE WebhookCommitPaid(h)
  <2>1. handler[h].order \in Orders
    BY <1>2, ActorsHaveOrders DEF WebhookCommitPaid
  <2>2. Written(handler[h].order, handler[h].saw, "paid") \in Status
    BY <2>1, WrittenIsStatus DEF Status
  <2>3. handler' \in [Handlers -> HandlerState]
    BY <1>2 DEF WebhookCommitPaid
  <2>4. QED
    BY <1>2, <2>2, <2>3 DEF WebhookCommitPaid
<1>3. CASE WebhookEnqueue(h)
  <2>1. queue' \in Seq(Orders)
    BY <1>3, ActorsHaveOrders, EnqueueTypes DEF WebhookEnqueue
  <2>2. QED
    BY <1>3, <2>1 DEF WebhookEnqueue
<1>4. CASE WebhookMark(h)
  BY <1>4 DEF WebhookMark, Status
<1>5. CASE WebhookCrash(h)
  BY <1>5 DEF WebhookCrash, Status
<1>6. QED
  BY <1>1, <1>2, <1>3, <1>4, <1>5 DEF WebhookStep, WebhookProgress

LEMMA MintTypes ==
  ASSUME minted \in [Orders -> Nat], NEW o \in Orders, Mint(o)
  PROVE  minted' \in [Orders -> Nat] /\ minted'[o] \in Nat
BY DEF Mint

LEMMA PayoutTypes ==
  ASSUME refunds \in [Orders -> Nat], NEW o \in Orders, GatewayPaysOut(o)
  PROVE  refunds' \in [Orders -> Nat]
BY DEF GatewayPaysOut

LEMMA WorkerTypes ==
  ASSUME IInv, WorkerStep PROVE TypeOK'
<1> USE DEF IInv, TypeOK, rows, money, WorkerState, IdleWorker, MaybeOrder
<1> DEFINE o == worker.order
<1>0. ASSUME Raises, o \in Orders PROVE failed' \subseteq Orders /\ worker' \in WorkerState
  <2>1. IdleWorker \in WorkerState
    BY EmptySeq DEF Status
  <2>2. QED
    BY <1>0, <2>1 DEF Raises
<1>1. CASE WorkerTake
  <2>1. Head(queue) \in Orders /\ Tail(queue) \in Seq(Orders)
    BY <1>1, HeadTailProperties DEF WorkerTake
  <2>2. <<>> \in Seq(Nat)
    BY EmptySeq
  <2>3. failed' \subseteq Orders /\ worker' \in WorkerState
    <3> DEFINE taken == [pc |-> "mint", order |-> Head(queue),
                         saw |-> status[Head(queue)], fk |-> fk[Head(queue)],
                         job |-> <<>>]
    <3>1. taken \in WorkerState
      BY <2>1, <2>2
    <3>2. /\ failed' = failed \/ failed' = failed \ {Head(queue)}
          /\ worker' = worker \/ worker' = taken
      BY <1>1 DEF WorkerTake
    <3>3. QED
      BY <3>1, <3>2
  <2>4. QED
    BY <1>1, <2>1, <2>3 DEF WorkerTake
<1>2. CASE WorkerMint
  <2>1. o \in Orders /\ minted' \in [Orders -> Nat] /\ minted'[o] \in Nat
    BY <1>2, ActorsHaveOrders, MintTypes DEF WorkerMint
  <2>2. Append(worker.job, minted'[o]) \in Seq(Nat)
    BY <2>1, AppendProperties
  <2>3. active' \in [Orders -> SUBSET Nat]
    BY <1>2, <2>1 DEF WorkerMint
  <2>4. QED
    BY <1>2, <2>1, <2>2, <2>3 DEF WorkerMint
<1>3. CASE WorkerSettle
  <2>1. worker.job[Len(worker.job)] \in Nat
    BY <1>3, FulfillmentAssumption, ElementOfSeq, LenProperties DEF WorkerSettle
  <2>2. QED
    BY <1>3, <2>1, EmptySeq DEF WorkerSettle, Status
<1>4. CASE WorkerFailsEarly
  BY <1>0, <1>4, ActorsHaveOrders DEF WorkerFailsEarly, Status
<1>5. CASE WorkerProviderFails
  <2>1. Written(o, worker.saw, "failed_unfulfilled") \in Status
    BY <1>5, ActorsHaveOrders, WrittenIsStatus DEF WorkerProviderFails, Status
  <2>2. worker' \in WorkerState
    BY <1>5 DEF WorkerProviderFails, Status
  <2>3. QED
    BY <1>5, <2>1, <2>2 DEF WorkerProviderFails
<1>6. CASE WorkerOtherError
  <2>1. Written(o, worker.saw, "failed_manual_review") \in Status
    BY <1>6, ActorsHaveOrders, WrittenIsStatus DEF WorkerOtherError, Status
  <2>2. worker' \in WorkerState /\ failed' \subseteq Orders
    BY <1>0, <1>6, ActorsHaveOrders DEF WorkerOtherError
  <2>3. QED
    BY <1>6, <2>1, <2>2 DEF WorkerOtherError
<1>7. CASE WorkerRefund
  <2>1. refunds' \in [Orders -> Nat]
    BY <1>7, ActorsHaveOrders, PayoutTypes DEF WorkerRefund
  <2>2. worker' \in WorkerState /\ failed' \subseteq Orders
    <3>1. [worker EXCEPT !.pc = "record"] \in WorkerState
      OBVIOUS
    <3>2. QED
      BY <1>0, <1>7, <3>1, ActorsHaveOrders DEF WorkerRefund
  <2>3. QED
    BY <1>7, <2>1, <2>2 DEF WorkerRefund
<1>8. CASE WorkerRecordRefund
  BY <1>0, <1>8, ActorsHaveOrders DEF WorkerRecordRefund, Status
<1>9. CASE WorkerCrash
  BY <1>0, <1>9, ActorsHaveOrders DEF WorkerCrash
<1>10. QED
  BY <1>1, <1>2, <1>3, <1>4, <1>5, <1>6, <1>7, <1>8, <1>9
     DEF WorkerStep, WorkerProgress

LEMMA CronTypes ==
  ASSUME IInv, CronStep PROVE TypeOK'
<1> USE DEF IInv, TypeOK, rows, money, actors, RetryState, SweepState, IdleRetry,
            IdleSweep, MaybeOrder
<1>1. ASSUME NEW o \in Orders, Expire(o) PROVE TypeOK'
  BY <1>1 DEF Expire, Status
<1>2. CASE RetrySelect
  BY <1>2 DEF RetrySelect
<1>3. ASSUME NEW o \in Orders, RetryRefund(o) PROVE TypeOK'
  <2>1. refunds' \in [Orders -> Nat]
    BY <1>3, PayoutTypes DEF RetryRefund
  <2>2. QED
    BY <1>3, <2>1 DEF RetryRefund
<1>4. CASE RetryRecord
  BY <1>4 DEF RetryRecord, Status
<1>5. CASE SweepSelect
  BY <1>5 DEF SweepSelect, Invoiced
<1>6. ASSUME NEW o \in Orders, SweepVerify(o) PROVE TypeOK'
  <2>1. status' \in [Orders -> Status]
    BY <1>6 DEF SweepVerify, Status
  <2>2. sweep' \in SweepState
    BY <1>6 DEF SweepVerify
  <2>3. QED
    BY <1>6, <2>1, <2>2 DEF SweepVerify
<1>7. CASE SweepEnqueue
  <2>1. queue' \in Seq(Orders)
    BY <1>7, ActorsHaveOrders, EnqueueTypes DEF SweepEnqueue
  <2>2. QED
    BY <1>7, <2>1 DEF SweepEnqueue
<1>8. CASE CronCrash
  BY <1>8 DEF CronCrash
<1>9. QED
  BY <1>1, <1>2, <1>3, <1>4, <1>5, <1>6, <1>7, <1>8 DEF CronStep

LEMMA ClerkTypes ==
  ASSUME IInv, NEW c \in Clerks, ClerkStep(c) PROVE TypeOK'
<1> USE DEF IInv, TypeOK, rows, money, actors, ClerkState, IdleClerk, MaybeOrder, Busy
<1>1. ASSUME NEW o \in Orders, AdminRefund(c, o) \/ OpsRefund(c, o) PROVE TypeOK'
  <2>1. refunds' \in [Orders -> Nat]
    BY <1>1, PayoutTypes DEF AdminRefund, OpsRefund
  <2>2. \A op \in {"refund", "ops_refund"} :
          [pc |-> "record", op |-> op, order |-> o, saw |-> status[o],
           fk |-> fk[o], cred |-> 0] \in ClerkState
    OBVIOUS
  <2>3. CASE AdminRefund(c, o)
    BY <2>1, <2>2, <2>3 DEF AdminRefund
  <2>4. CASE OpsRefund(c, o)
    BY <2>1, <2>2, <2>4 DEF OpsRefund
  <2>5. QED
    BY <1>1, <2>3, <2>4
<1>2. ASSUME NEW o \in Orders, Reprocess(c, o) \/ Refulfil(c, o) PROVE TypeOK'
  <2>1. \A op \in {"reprocess", "refulfil"} :
          [pc |-> "mint", op |-> op, order |-> o, saw |-> status[o],
           fk |-> fk[o], cred |-> 0] \in ClerkState
    OBVIOUS
  <2>2. CASE Reprocess(c, o)
    BY <2>1, <2>2 DEF Reprocess
  <2>3. CASE Refulfil(c, o)
    BY <2>1, <2>3 DEF Refulfil
  <2>4. QED
    BY <1>2, <2>2, <2>3
<1>3. CASE StaffMint(c)
  <2> DEFINE o == clerk[c].order
  <2>1. o \in Orders /\ minted' \in [Orders -> Nat] /\ minted'[o] \in Nat
    BY <1>3, MintTypes DEF StaffMint, ClerksHaveOrders
  <2>2. clerk' \in [Clerks -> ClerkState]
    <3> DEFINE next == [clerk[c] EXCEPT !.pc = "attach", !.cred = minted'[o]]
    <3>1. next \in ClerkState
      BY <2>1
    <3>2. clerk' = [clerk EXCEPT ![c] = next]
      BY <1>3 DEF StaffMint
    <3>3. QED
      BY <3>1, <3>2
  <2>3. active' \in [Orders -> SUBSET Nat]
    BY <1>3, <2>1 DEF StaffMint
  <2>4. QED
    BY <1>3, <2>1, <2>2, <2>3 DEF StaffMint
<1>4. ASSUME NEW o \in Orders, CreateDirect(c, o) PROVE TypeOK'
  <2>1. minted' \in [Orders -> Nat] /\ minted'[o] \in Nat
    BY <1>4, MintTypes DEF CreateDirect
  <2>2. QED
    BY <1>4, <2>1 DEF CreateDirect, Status
<1>5. ASSUME NEW o \in Orders, CreateDirectUndelivered(c, o) PROVE TypeOK'
  BY <1>5 DEF CreateDirectUndelivered, Status
<1>6. ASSUME NEW o \in Orders, Cancel(c, o) PROVE TypeOK'
  BY <1>6 DEF Cancel, Status
<1>7. ASSUME NEW o \in Orders, ReportDead(c, o) PROVE TypeOK'
  BY <1>7 DEF ReportDead, Status
<1>8. ASSUME NEW o \in Orders, EditStatus(c, o) PROVE TypeOK'
  BY <1>8, FulfillmentAssumption DEF EditStatus
<1>9. CASE RecordRefund(c)
  <2>1. clerk' \in [Clerks -> ClerkState]
    BY <1>9 DEF RecordRefund, Status
  <2>2. QED
    BY <1>9, <2>1 DEF RecordRefund, Status
<1>10. CASE Attach(c)
  <2> DEFINE new == IF clerk[c].op = "reprocess" THEN "fulfilled" ELSE "active"
  <2>1. Written(clerk[c].order, clerk[c].saw, new) \in Status
    BY <1>10, WrittenIsStatus DEF Attach, ClerksHaveOrders, Status
  <2>2. clerk' \in [Clerks -> ClerkState]
    <3> DEFINE next == [clerk[c] EXCEPT !.pc = "audit", !.saw = "fulfilled"]
    <3>1. /\ "fulfilled" \in Status /\ "absent" \in Status
          /\ clerk[c] \in ClerkState /\ IdleClerk \in ClerkState
      BY DEF Status
    <3> HIDE DEF IdleClerk
    <3>2. clerk' = [clerk EXCEPT ![c] = next] \/ clerk' = [clerk EXCEPT ![c] = IdleClerk]
      BY <1>10 DEF Attach
    <3>3. next \in ClerkState
      BY <3>1
    <3>4. QED
      BY <3>1, <3>2, <3>3
  <2>3. QED
    BY <1>10, <2>1, <2>2 DEF Attach
<1>11. IdleClerk \in ClerkState
  BY DEF Status
<1>12. CASE ReprocessFails(c)
  <2>1. Written(clerk[c].order, clerk[c].saw, "failed_unfulfilled") \in Status
    BY <1>12, WrittenIsStatus DEF ReprocessFails, ClerksHaveOrders, Status
  <2>2. clerk' \in [Clerks -> ClerkState]
    BY <1>11, <1>12 DEF ReprocessFails
  <2>3. QED
    BY <1>12, <2>1, <2>2 DEF ReprocessFails
<1>13. CASE ReprocessAudit(c) \/ RefulfilFails(c) \/ ClerkCrash(c)
  <2>1. clerk' \in [Clerks -> ClerkState]
    BY <1>11, <1>13 DEF ReprocessAudit, RefulfilFails, ClerkCrash
  <2>2. QED
    BY <1>13, <2>1 DEF ReprocessAudit, RefulfilFails, ClerkCrash
<1>14. QED
  BY <1>1, <1>2, <1>3, <1>4, <1>5, <1>6, <1>7, <1>8, <1>9, <1>10, <1>12, <1>13
     DEF ClerkStep, ClerkProgress

LEMMA NextTypes ==
  ASSUME IInv, [Next]_vars PROVE TypeOK'
<1>1. CASE UNCHANGED vars
  BY <1>1 DEF vars, IInv, TypeOK
<1>2. QED
  BY <1>1, GatewayTypes, WebhookTypes, WorkerTypes, CronTypes, ClerkTypes DEF Next

-----------------------------------------------------------------------------
(* The automatic path works for charges only. *)
LEMMA ClerksLeaveTheAutomaticPath ==
  ASSUME NEW c \in Clerks, ClerkStep(c)
  PROVE  UNCHANGED <<charged, queue, failed, handler, worker, retry, sweep>>
BY DEF ClerkStep, ClerkProgress, AdminRefund, OpsRefund, Reprocess, Refulfil,
       StaffMint, ReprocessFails, RefulfilFails, ReprocessAudit, CreateDirect,
       CreateDirectUndelivered, Cancel, ReportDead, EditStatus, RecordRefund,
       Attach, ClerkCrash, money, actors

LEMMA UntouchedJobs ==
  ASSUME IInv, UNCHANGED <<charged, queue, handler, worker, sweep>>
  PROVE  JobsAreForCharges' /\ ChargesAreInvoiced'
BY DEF IInv, JobsAreForCharges, ForCharge, ChargesAreInvoiced

LEMMA EnqueuedJobs ==
  ASSUME IInv, NEW o \in Orders, ForCharge(o), Enqueue(o), charged' = charged
  PROVE  \A i \in 1 .. Len(queue') : ForCharge(queue'[i])
<1> USE DEF IInv, TypeOK, JobsAreForCharges, ForCharge
<1>1. CASE queue' = Append(queue, o)
  BY <1>1, AppendProperties, LenProperties
<1>2. CASE queue' = queue
  BY <1>2
<1>3. QED
  BY <1>1, <1>2 DEF Enqueue

LEMMA GatewayJobs ==
  ASSUME IInv, GatewayStep
  PROVE  JobsAreForCharges' /\ ChargesAreInvoiced'
<1>1. PICK o \in Orders : CommitCheckout(o) \/ Charge(o) \/ GoStale(o)
  BY DEF GatewayStep
<1>2. CASE Charge(o)
  <2>1. \A p \in Orders : charged[p] => charged'[p]
    BY <1>2 DEF Charge, IInv, TypeOK
  <2>2. \A p \in Orders : charged'[p] => p \in Invoiced
    BY <1>2 DEF Charge, IInv, TypeOK, ChargesAreInvoiced
  <2>3. \A p : ForCharge(p) => ForCharge(p)'
    BY <2>1 DEF ForCharge, Invoiced
  <2>4. UNCHANGED <<queue, handler, worker, sweep>>
    BY <1>2 DEF Charge, actors
  <2>5. JobsAreForCharges'
    BY <2>3, <2>4 DEF IInv, JobsAreForCharges
  <2>6. QED
    BY <2>2, <2>5 DEF ChargesAreInvoiced
<1>3. CASE CommitCheckout(o) \/ GoStale(o)
  BY <1>3, UntouchedJobs DEF CommitCheckout, GoStale, money, actors
<1>4. QED
  BY <1>1, <1>2, <1>3

LEMMA WebhookJobs ==
  ASSUME IInv, NEW h \in Handlers, WebhookStep(h)
  PROVE  JobsAreForCharges' /\ ChargesAreInvoiced'
<1> USE DEF IInv, TypeOK, ChargesAreInvoiced, money, HandlerState, IdleHandler
<1>1. UNCHANGED <<charged, worker, sweep>>
  BY DEF WebhookStep, WebhookProgress, WebhookReceive, WebhookCommitPaid,
         WebhookEnqueue, WebhookMark, WebhookCrash
<1>2. \A i \in 1 .. Len(queue') : ForCharge(queue'[i])
  <2>1. CASE WebhookEnqueue(h)
    <3>1. ForCharge(handler[h].order) /\ handler[h].order \in Orders
      BY <2>1, ActorsHaveOrders DEF WebhookEnqueue, JobsAreForCharges
    <3>2. QED
      BY <1>1, <2>1, <3>1, EnqueuedJobs DEF WebhookEnqueue
  <2>2. CASE ~WebhookEnqueue(h)
    <3>1. queue' = queue
      BY <2>2 DEF WebhookStep, WebhookProgress, WebhookReceive, WebhookCommitPaid,
                  WebhookMark, WebhookCrash
    <3>2. QED
      BY <1>1, <3>1 DEF JobsAreForCharges, ForCharge
  <2>3. QED
    BY <2>1, <2>2
<1>3. ASSUME NEW g \in Handlers, handler'[g].pc # "idle"
      PROVE  ForCharge(handler'[g].order)
  <2>1. CASE \E o \in Orders : WebhookReceive(h, o)
    BY <1>1, <1>3, <2>1 DEF WebhookReceive, JobsAreForCharges, ForCharge
  <2>2. CASE WebhookCommitPaid(h) \/ WebhookEnqueue(h)
    <3>1. handler[h].pc # "idle"
      BY <2>2 DEF WebhookCommitPaid, WebhookEnqueue
    <3>2. handler'[h].order = handler[h].order
      BY <2>2 DEF WebhookCommitPaid, WebhookEnqueue
    <3>3. g # h => handler'[g] = handler[g]
      BY <2>2 DEF WebhookCommitPaid, WebhookEnqueue
    <3>4. QED
      BY <1>3, <3>1, <3>2, <3>3 DEF JobsAreForCharges
  <2>3. CASE WebhookMark(h) \/ WebhookCrash(h)
    <3>1. g # h /\ handler'[g] = handler[g]
      BY <1>3, <2>3 DEF WebhookMark, WebhookCrash
    <3>2. QED
      BY <1>3, <3>1 DEF JobsAreForCharges
  <2>4. QED
    BY <2>1, <2>2, <2>3 DEF WebhookStep, WebhookProgress
<1>4. QED
  BY <1>1, <1>2, <1>3 DEF JobsAreForCharges, ForCharge

LEMMA WorkerJobs ==
  ASSUME IInv, WorkerStep
  PROVE  JobsAreForCharges' /\ ChargesAreInvoiced'
<1> USE DEF IInv, TypeOK, ChargesAreInvoiced, money, WorkerState, IdleWorker,
            JobsAreForCharges, ForCharge
<1>1. UNCHANGED <<charged, handler, sweep>>
  BY DEF WorkerStep, WorkerProgress, WorkerTake, WorkerMint, WorkerSettle,
         WorkerFailsEarly, WorkerProviderFails, WorkerOtherError, WorkerRefund,
         WorkerRecordRefund, WorkerCrash
<1>2. CASE WorkerTake
  <2>1. \A i \in 1 .. Len(queue') : ForCharge(queue'[i])
    <3>1. /\ queue' \in Seq(Orders)
          /\ Len(queue') = Len(queue) - 1
          /\ \A i \in 1 .. Len(queue') : queue'[i] = queue[i + 1]
      BY <1>2, HeadTailProperties DEF WorkerTake
    <3>2. Len(queue) \in Nat /\ Len(queue') \in Nat
      BY <3>1, LenProperties
    <3>3. ASSUME NEW i \in 1 .. Len(queue') PROVE ForCharge(queue'[i])
      <4>1. i + 1 \in 1 .. Len(queue)
        BY <3>1, <3>2
      <4>2. ForCharge(queue[i + 1])
        BY <4>1 DEF IInv, JobsAreForCharges
      <4>3. QED
        BY <3>1, <4>2
    <3>4. QED
      BY <3>3
  <2>2. ForCharge(Head(queue))
    <3>1. queue # <<>>
      BY <1>2 DEF WorkerTake
    <3>2. 1 \in 1 .. Len(queue)
      BY <3>1, EmptySeq
    <3>3. Head(queue) = queue[1]
      OBVIOUS
    <3>4. \A i \in 1 .. Len(queue) : ForCharge(queue[i])
      BY DEF IInv, JobsAreForCharges
    <3>5. ForCharge(queue[1])
      BY <3>2, <3>4
    <3>6. QED
      BY <3>3, <3>5
  <2>3. worker'.pc # "idle" => ForCharge(worker'.order)
    BY <1>1, <1>2, <2>2 DEF WorkerTake
  <2>4. QED
    BY <1>1, <2>1, <2>3
<1>3. CASE ~WorkerTake
  <2>1. queue' = queue
    BY <1>3 DEF WorkerStep, WorkerProgress, WorkerMint, WorkerSettle,
         WorkerFailsEarly, WorkerProviderFails, WorkerOtherError, WorkerRefund,
         WorkerRecordRefund, WorkerCrash
  <2>2. worker'.pc # "idle" => worker.pc # "idle" /\ worker'.order = worker.order
    <3>1. CASE WorkerMint \/ WorkerProviderFails \/ WorkerRefund
      <4>1. worker.pc # "idle"
        BY <3>1 DEF WorkerMint, WorkerProviderFails, WorkerRefund
      <4>2. CASE WorkerMint
        BY <4>1, <4>2 DEF WorkerMint
      <4>3. CASE WorkerProviderFails
        BY <4>1, <4>3 DEF WorkerProviderFails
      <4>4. CASE WorkerRefund
        BY <4>1, <4>4 DEF WorkerRefund, Raises
      <4>5. QED
        BY <3>1, <4>2, <4>3, <4>4
    <3>2. CASE ~(WorkerMint \/ WorkerProviderFails \/ WorkerRefund)
      BY <1>3, <3>2 DEF WorkerStep, WorkerProgress, WorkerSettle, WorkerFailsEarly,
                        WorkerOtherError, WorkerRecordRefund, WorkerCrash, Raises
    <3>3. QED
      BY <3>1, <3>2
  <2>3. QED
    BY <1>1, <2>1, <2>2
<1>4. QED
  BY <1>2, <1>3

LEMMA CronJobs ==
  ASSUME IInv, CronStep
  PROVE  JobsAreForCharges' /\ ChargesAreInvoiced'
<1> USE DEF IInv, TypeOK, ChargesAreInvoiced, money, actors, SweepState, IdleSweep,
            JobsAreForCharges, ForCharge
<1>1. ASSUME NEW o \in Orders, Expire(o) \/ RetryRefund(o)
      PROVE  JobsAreForCharges' /\ ChargesAreInvoiced'
  BY <1>1, UntouchedJobs DEF Expire, RetryRefund
<1>2. CASE RetrySelect \/ RetryRecord
  BY <1>2, UntouchedJobs DEF RetrySelect, RetryRecord
<1>3. CASE SweepSelect
  BY <1>3 DEF SweepSelect
<1>4. ASSUME NEW o \in Orders, SweepVerify(o)
      PROVE  JobsAreForCharges' /\ ChargesAreInvoiced'
  <2>1. sweep'.won # None => ForCharge(sweep'.won)
    BY <1>4 DEF SweepVerify
  <2>2. UNCHANGED <<charged, queue, handler, worker>>
    BY <1>4 DEF SweepVerify
  <2>3. QED
    BY <2>1, <2>2
<1>5. CASE SweepEnqueue
  <2>1. UNCHANGED <<charged, handler, worker>> /\ sweep'.won = None
    BY <1>5 DEF SweepEnqueue
  <2>2. \A i \in 1 .. Len(queue') : ForCharge(queue'[i])
    BY <1>5, <2>1, ActorsHaveOrders, EnqueuedJobs DEF SweepEnqueue
  <2>3. QED
    BY <2>1, <2>2
<1>6. CASE CronCrash
  <2>1. UNCHANGED <<charged, queue, handler, worker>>
    BY <1>6 DEF CronCrash
  <2>2. sweep' = sweep \/ sweep'.won = None
    BY <1>6 DEF CronCrash
  <2>3. QED
    BY <2>1, <2>2
<1>7. QED
  BY <1>1, <1>2, <1>3, <1>4, <1>5, <1>6 DEF CronStep

LEMMA NextJobs ==
  ASSUME IInv, [Next]_vars
  PROVE  JobsAreForCharges' /\ ChargesAreInvoiced'
<1>1. CASE UNCHANGED vars
  BY <1>1, UntouchedJobs DEF vars
<1>2. ASSUME NEW c \in Clerks, ClerkStep(c)
      PROVE  JobsAreForCharges' /\ ChargesAreInvoiced'
  BY <1>2, ClerksLeaveTheAutomaticPath, UntouchedJobs
<1>3. QED
  BY <1>1, <1>2, GatewayJobs, WebhookJobs, WorkerJobs, CronJobs DEF Next

-----------------------------------------------------------------------------
(* Money returned stays returned, and is returned only after it was taken. *)
LEMMA PayoutGrows ==
  ASSUME refunds \in [Orders -> Nat], NEW o \in Orders, GatewayPaysOut(o)
  PROVE  /\ charged[o]
         /\ refunds'[o] > 0
         /\ \A p \in Orders : refunds[p] > 0 => refunds'[p] > 0
         /\ \A p \in Orders : p # o => refunds'[p] = refunds[p]
BY DEF GatewayPaysOut

(* Who changes what the gateway paid out, and for which order. *)
PaysOut(o) ==
  \/ WorkerRefund /\ worker.order = o
  \/ RetryRefund(o)
  \/ \E c \in Clerks : AdminRefund(c, o) \/ OpsRefund(c, o)

LEMMA RefundsMove ==
  ASSUME IInv, [Next]_vars
  PROVE  \/ UNCHANGED refunds
         \/ \E o \in Orders : PaysOut(o) /\ GatewayPaysOut(o)
<1>1. CASE UNCHANGED vars
  BY <1>1 DEF vars
<1>2. CASE GatewayStep
  BY <1>2 DEF GatewayStep, CommitCheckout, Charge, GoStale, money
<1>3. ASSUME NEW h \in Handlers, WebhookStep(h) PROVE UNCHANGED refunds
  BY <1>3 DEF WebhookStep, WebhookProgress, WebhookReceive, WebhookCommitPaid,
              WebhookEnqueue, WebhookMark, WebhookCrash, money
<1>4. CASE WorkerStep
  <2>1. CASE WorkerRefund
    <3>1. worker.order \in Orders
      BY <2>1, ActorsHaveOrders DEF WorkerRefund, IInv
    <3>2. QED
      BY <2>1, <3>1 DEF WorkerRefund, PaysOut
  <2>2. CASE ~WorkerRefund
    BY <1>4, <2>2 DEF WorkerStep, WorkerProgress, WorkerTake, WorkerMint,
         WorkerSettle, WorkerFailsEarly, WorkerProviderFails, WorkerOtherError,
         WorkerRecordRefund, WorkerCrash, money
  <2>3. QED
    BY <2>1, <2>2
<1>5. CASE CronStep
  <2>1. ASSUME NEW o \in Orders, RetryRefund(o)
        PROVE  UNCHANGED refunds \/ (PaysOut(o) /\ GatewayPaysOut(o))
    BY <2>1 DEF RetryRefund, PaysOut
  <2>2. CASE ~\E o \in Orders : RetryRefund(o)
    BY <1>5, <2>2 DEF CronStep, Expire, RetrySelect, RetryRecord, SweepSelect,
         SweepVerify, SweepEnqueue, CronCrash, money
  <2>3. QED
    BY <2>1, <2>2
<1>6. ASSUME NEW c \in Clerks, ClerkStep(c)
      PROVE  UNCHANGED refunds \/ \E o \in Orders : PaysOut(o) /\ GatewayPaysOut(o)
  <2>1. ASSUME NEW o \in Orders, AdminRefund(c, o) \/ OpsRefund(c, o)
        PROVE  PaysOut(o) /\ GatewayPaysOut(o)
    BY <2>1 DEF AdminRefund, OpsRefund, PaysOut
  <2>2. CASE ~\E o \in Orders : AdminRefund(c, o) \/ OpsRefund(c, o)
    BY <1>6, <2>2 DEF ClerkStep, ClerkProgress, Reprocess, Refulfil, StaffMint,
         ReprocessFails, RefulfilFails, ReprocessAudit, CreateDirect,
         CreateDirectUndelivered, Cancel, ReportDead, EditStatus, RecordRefund,
         Attach, ClerkCrash, money
  <2>3. QED
    BY <2>1, <2>2
<1>7. QED
  BY <1>1, <1>2, <1>3, <1>4, <1>5, <1>6 DEF Next

LEMMA RefundsStay ==
  ASSUME IInv, [Next]_vars
  PROVE  \A o \in Orders : refunds[o] > 0 => refunds'[o] > 0
BY RefundsMove, PayoutGrows DEF IInv, TypeOK

(* An order comes to say "refunded" only by the three commits that follow a  *)
(* gateway's confirmation, by a hand edit, or if it has no invoice.          *)
Unrefunded(o) == status[o] # "refunded" \/ edited[o]

LEMMA BookedRefunds ==
  ASSUME IInv, [Next]_vars, NEW o \in Invoiced, Unrefunded(o)
  PROVE  Unrefunded(o)' \/ (refunds[o] > 0 /\ refunds' = refunds)
<1> USE DEF Unrefunded, IInv, TypeOK, Invoiced, rows, money, actors
<1>1. CASE UNCHANGED vars
  BY <1>1 DEF vars
<1>2. CASE GatewayStep
  BY <1>2 DEF GatewayStep, CommitCheckout, Charge, GoStale
<1>3. ASSUME NEW h \in Handlers, WebhookStep(h) PROVE Unrefunded(o)'
  BY <1>3, ActorsHaveOrders DEF WebhookStep, WebhookProgress, WebhookReceive,
       WebhookCommitPaid, WebhookEnqueue, WebhookMark, WebhookCrash, Written
<1>4. CASE WorkerStep
  <2>1. CASE WorkerRecordRefund
    BY <2>1 DEF WorkerRecordRefund, PayoutsPrecedeRecords
  <2>2. CASE WorkerTake \/ WorkerMint \/ WorkerRefund \/ WorkerCrash
    BY <2>2 DEF WorkerTake, WorkerMint, WorkerRefund, WorkerCrash
  <2>3. CASE WorkerSettle \/ WorkerFailsEarly
    BY <2>3 DEF WorkerSettle, WorkerFailsEarly
  <2>4. CASE WorkerProviderFails \/ WorkerOtherError
    BY <2>4 DEF WorkerProviderFails, WorkerOtherError, Written
  <2>5. QED
    BY <1>4, <2>1, <2>2, <2>3, <2>4 DEF WorkerStep, WorkerProgress
<1>5. CASE CronStep
  <2>1. CASE RetryRecord
    BY <2>1 DEF RetryRecord, PayoutsPrecedeRecords
  <2>2. CASE \E p \in Orders : Expire(p) \/ SweepVerify(p)
    BY <2>2 DEF Expire, SweepVerify
  <2>3. CASE \/ \E p \in Orders : RetryRefund(p)
             \/ RetrySelect \/ SweepSelect \/ SweepEnqueue \/ CronCrash
    BY <2>3 DEF RetryRefund, RetrySelect, SweepSelect, SweepEnqueue, CronCrash
  <2>4. QED
    BY <1>5, <2>1, <2>2, <2>3 DEF CronStep
<1>6. ASSUME NEW c \in Clerks, ClerkStep(c)
      PROVE  Unrefunded(o)' \/ (refunds[o] > 0 /\ refunds' = refunds)
  <2>1. CASE RecordRefund(c)
    BY <2>1 DEF RecordRefund, PayoutsPrecedeRecords
  <2>2. CASE Attach(c) \/ ReprocessFails(c)
    BY <2>2 DEF Attach, ReprocessFails, Written
  <2>3. ASSUME NEW p \in Orders,
               \/ AdminRefund(c, p) \/ OpsRefund(c, p) \/ Reprocess(c, p)
               \/ Refulfil(c, p)
        PROVE  Unrefunded(o)'
    BY <2>3 DEF AdminRefund, OpsRefund, Reprocess, Refulfil
  <2>4. ASSUME NEW p \in Orders,
               \/ CreateDirect(c, p) \/ CreateDirectUndelivered(c, p)
               \/ Cancel(c, p) \/ ReportDead(c, p)
        PROVE  Unrefunded(o)'
    BY <2>4 DEF CreateDirect, CreateDirectUndelivered, Cancel, ReportDead
  <2>5. ASSUME NEW p \in Orders, EditStatus(c, p) PROVE Unrefunded(o)'
    BY <2>5 DEF EditStatus
  <2>6. CASE StaffMint(c) \/ ReprocessAudit(c) \/ RefulfilFails(c) \/ ClerkCrash(c)
    BY <2>6 DEF StaffMint, ReprocessAudit, RefulfilFails, ClerkCrash
  <2>7. QED
    BY <1>6, <2>1, <2>2, <2>3, <2>4, <2>5, <2>6 DEF ClerkStep, ClerkProgress
<1>7. QED
  BY <1>1, <1>2, <1>3, <1>4, <1>5, <1>6 DEF Next

LEMMA NextRefunded ==
  ASSUME IInv, [Next]_vars PROVE RefundedMeansMoneyMoved'
<1> SUFFICES ASSUME NEW o \in Invoiced, ~Unrefunded(o)' PROVE refunds'[o] > 0
  BY DEF RefundedMeansMoneyMoved, Unrefunded, Invoiced
<1>1. CASE Unrefunded(o)
  BY <1>1, BookedRefunds
<1>2. CASE ~Unrefunded(o)
  BY <1>2, RefundsStay DEF IInv, RefundedMeansMoneyMoved, Unrefunded, Invoiced
<1>3. QED
  BY <1>1, <1>2

(* Who is about to write "refunded", and how it got there. *)
LEMMA NextPayouts ==
  ASSUME IInv, [Next]_vars PROVE PayoutsPrecedeRecords' /\ ClerksHaveOrders'
<1> USE DEF IInv, TypeOK
<1>1. ASSUME worker'.pc = "record" PROVE refunds'[worker'.order] > 0
  <2>1. CASE worker' = worker
    <3>1. worker.order \in Orders
      BY <1>1, <2>1, ActorsHaveOrders
    <3>2. QED
      BY <1>1, <2>1, <3>1, RefundsStay DEF PayoutsPrecedeRecords
  <2>2. CASE worker' # worker
    <3>1. WorkerStep
      BY <2>2, ClerksLeaveTheAutomaticPath
         DEF Next, vars, GatewayStep, CommitCheckout, Charge, GoStale, WebhookStep,
             WebhookProgress, WebhookReceive, WebhookCommitPaid, WebhookEnqueue,
             WebhookMark, WebhookCrash, CronStep, Expire, RetrySelect, RetryRefund,
             RetryRecord, SweepSelect, SweepVerify, SweepEnqueue, CronCrash, actors
    <3>2. worker.pc # "record"
      BY <1>1, <3>1 DEF WorkerStep, WorkerProgress, WorkerTake, WorkerMint,
           WorkerSettle, WorkerFailsEarly, WorkerProviderFails, WorkerOtherError,
           WorkerRefund, WorkerRecordRefund, WorkerCrash, Raises, IdleWorker
    <3>3. WorkerRefund /\ worker' # IdleWorker
      <4>1. ~WorkerTake /\ ~WorkerSettle /\ ~WorkerFailsEarly /\ ~WorkerOtherError
            /\ ~WorkerRecordRefund /\ ~WorkerCrash /\ worker' # IdleWorker
        BY <1>1, <3>2 DEF WorkerTake, WorkerSettle, WorkerFailsEarly,
             WorkerOtherError, WorkerRecordRefund, WorkerCrash, Raises, IdleWorker
      <4>2. ~WorkerMint
        BY <1>1, <3>2 DEF WorkerMint, WorkerState
      <4>3. ~WorkerProviderFails
        BY <1>1, <3>2 DEF WorkerProviderFails, WorkerState
      <4>4. QED
        BY <3>1, <4>1, <4>2, <4>3 DEF WorkerStep, WorkerProgress
    <3>4. GatewayPaysOut(worker.order) /\ worker'.order = worker.order
      BY <3>3 DEF WorkerRefund, WorkerState, Raises
    <3>5. worker.order \in Orders
      BY <3>3, ActorsHaveOrders DEF WorkerRefund
    <3>6. QED
      BY <3>4, <3>5, PayoutGrows
  <2>3. QED
    BY <2>1, <2>2
<1>2. ASSUME retry'.payout # None PROVE refunds'[retry'.payout] > 0
  <2>1. CASE retry'.payout = retry.payout
    <3>1. retry.payout \in Orders
      BY <1>2, <2>1 DEF RetryState, MaybeOrder
    <3>2. QED
      BY <1>2, <2>1, <3>1, RefundsStay DEF PayoutsPrecedeRecords
  <2>2. CASE retry'.payout # retry.payout
    <3>1. \E o \in Orders : RetryRefund(o)
      <4>1. CronStep
        BY <2>2, ClerksLeaveTheAutomaticPath
           DEF Next, vars, GatewayStep, CommitCheckout, Charge, GoStale, WebhookStep,
               WebhookProgress, WebhookReceive, WebhookCommitPaid, WebhookEnqueue,
               WebhookMark, WebhookCrash, WorkerStep, WorkerProgress, WorkerTake,
               WorkerMint, WorkerSettle, WorkerFailsEarly, WorkerProviderFails,
               WorkerOtherError, WorkerRefund, WorkerRecordRefund, WorkerCrash, actors
      <4>2. ~RetryRecord /\ ~RetrySelect /\ ~SweepSelect /\ ~SweepEnqueue /\ ~CronCrash
        BY <1>2, <2>2 DEF RetryRecord, RetrySelect, SweepSelect, SweepEnqueue,
             CronCrash, IdleRetry, RetryState
      <4>3. ~\E o \in Orders : Expire(o) \/ SweepVerify(o)
        BY <2>2 DEF Expire, SweepVerify, actors
      <4>4. QED
        BY <4>1, <4>2, <4>3 DEF CronStep
    <3>2. PICK o \in Orders : RetryRefund(o)
      BY <3>1
    <3>3. GatewayPaysOut(o) /\ retry'.payout = o
      BY <2>2, <3>2 DEF RetryRefund, RetryState
    <3>4. QED
      BY <3>3, PayoutGrows
  <2>3. QED
    BY <2>1, <2>2
<1>3. ASSUME NEW c \in Clerks
      PROVE  /\ clerk'[c].pc = "record" => refunds'[clerk'[c].order] > 0
             /\ clerk'[c].pc # "idle" => clerk'[c].order \in Orders
  <2>1. CASE clerk'[c] = clerk[c]
    BY <2>1, RefundsStay DEF PayoutsPrecedeRecords, ClerksHaveOrders
  <2>2. CASE clerk'[c] # clerk[c]
    <3>1. ClerkStep(c)
      <4>1. PICK d \in Clerks : ClerkStep(d)
        BY <2>2 DEF Next, vars, GatewayStep, CommitCheckout, Charge, GoStale,
             WebhookStep, WebhookProgress, WebhookReceive, WebhookCommitPaid,
             WebhookEnqueue, WebhookMark, WebhookCrash, WorkerStep, WorkerProgress,
             WorkerTake, WorkerMint, WorkerSettle, WorkerFailsEarly,
             WorkerProviderFails, WorkerOtherError, WorkerRefund, WorkerRecordRefund,
             WorkerCrash, CronStep, Expire, RetrySelect, RetryRefund, RetryRecord,
             SweepSelect, SweepVerify, SweepEnqueue, CronCrash, actors
      <4>2. d # c => clerk'[c] = clerk[c]
        BY <4>1 DEF ClerkStep, ClerkProgress, AdminRefund, OpsRefund, Reprocess,
             Refulfil, StaffMint, ReprocessFails, RefulfilFails, ReprocessAudit,
             CreateDirect, CreateDirectUndelivered, Cancel, ReportDead, EditStatus,
             RecordRefund, Attach, ClerkCrash, Busy, actors
      <4>3. QED
        BY <2>2, <4>1, <4>2
    <3>2. ASSUME NEW o \in Orders, AdminRefund(c, o) \/ OpsRefund(c, o)
          PROVE  clerk'[c].order = o /\ refunds'[o] > 0
      BY <3>2, PayoutGrows DEF AdminRefund, OpsRefund, Busy
    <3>3. ASSUME NEW o \in Orders, Reprocess(c, o) \/ Refulfil(c, o)
          PROVE  clerk'[c].order = o /\ clerk'[c].pc = "mint"
      BY <3>3 DEF Reprocess, Refulfil, Busy
    <3>4. CASE RecordRefund(c) \/ ClerkCrash(c) \/ ReprocessFails(c)
               \/ RefulfilFails(c) \/ ReprocessAudit(c)
      BY <3>4 DEF RecordRefund, ClerkCrash, ReprocessFails, RefulfilFails,
           ReprocessAudit, IdleClerk
    <3>5. CASE StaffMint(c) \/ Attach(c)
      <4>1. clerk[c].pc # "idle" /\ clerk'[c].pc # "record"
            /\ (clerk'[c].order = clerk[c].order \/ clerk'[c].pc = "idle")
        BY <3>5 DEF StaffMint, Attach, IdleClerk, ClerkState
      <4>2. QED
        BY <4>1 DEF ClerksHaveOrders
    <3>6. ~\E o \in Orders :
             \/ CreateDirect(c, o) \/ CreateDirectUndelivered(c, o)
             \/ Cancel(c, o) \/ ReportDead(c, o) \/ EditStatus(c, o)
      BY <2>2 DEF CreateDirect, CreateDirectUndelivered, Cancel, ReportDead,
           EditStatus, actors
    <3>7. QED
      BY <3>1, <3>2, <3>3, <3>4, <3>5, <3>6 DEF ClerkStep, ClerkProgress
  <2>3. QED
    BY <2>1, <2>2
<1>4. QED
  BY <1>1, <1>2, <1>3 DEF PayoutsPrecedeRecords, ClerksHaveOrders

-----------------------------------------------------------------------------
(* The invariant holds, and with it what it is made of. *)
LEMMA NextIInv == IInv /\ [Next]_vars => IInv'
BY NextTypes, NextJobs, NextRefunded, NextPayouts DEF IInv

LEMMA Invariance == Spec => []IInv
BY InitIInv, NextIInv, PTL DEF Spec

(* Every column, queue entry and in-flight request keeps its type, so no     *)
(* status outside the known ones is ever written to a row.                   *)
THEOREM TypeCorrect == Spec => []TypeOK
<1>1. IInv => TypeOK
  BY DEF IInv
<1>2. QED
  BY <1>1, Invariance, PTL

(* No job, webhook in flight or sweep claim ever is for anything but an      *)
(* invoiced order whose money the gateway took.                              *)
THEOREM JobsAreAlwaysForCharges == Spec => []JobsAreForCharges
<1>1. IInv => JobsAreForCharges
  BY DEF IInv
<1>2. QED
  BY <1>1, Invariance, PTL

(* An invoiced order that nobody edited by hand says "refunded" only after   *)
(* the gateway paid the refund, whoever else asked for it meanwhile.         *)
THEOREM BooksFollowMoney == Spec => []RefundedMeansMoneyMoved
<1>1. IInv => RefundedMeansMoneyMoved
  BY DEF IInv
<1>2. QED
  BY <1>1, Invariance, PTL

-----------------------------------------------------------------------------
(* What a row in processed_webhooks proves: a Paystack event that is refused *)
(* as a duplicate has had its effect, whatever crashes and whatever staff    *)
(* do.                                                                       *)

(* The payment is on the row, or staff took the row over. *)
Recorded(o) == status[o] \notin Unpaid \/ edited[o]

(* A delivery past its "paid" commit, or one that will leave the row as it   *)
(* found it because it found it paid, is about a recorded payment.           *)
DeliveriesAreRecorded ==
  \A h \in Handlers, o \in PaystackOrders : handler[h].order = o =>
    /\ handler[h].pc \in {"enqueue", "mark"} => Recorded(o)
    /\ handler[h].pc = "commit" /\ handler[h].saw = "paid" => Recorded(o)

SeenInv == IInv /\ DeliveriesAreRecorded /\ SeenMeansRecorded

-----------------------------------------------------------------------------
(* No commit takes an order back to where nobody has paid for it. *)
LEMMA RecordedStays ==
  ASSUME IInv, [Next]_vars, NEW o \in Orders, Recorded(o)
  PROVE  Recorded(o)'
<1> USE DEF Recorded, Unpaid, IInv, TypeOK, rows, money, actors
<1>1. CASE UNCHANGED vars
  BY <1>1 DEF vars
<1>2. CASE GatewayStep
  BY <1>2 DEF GatewayStep, CommitCheckout, Charge, GoStale
<1>3. ASSUME NEW h \in Handlers, WebhookStep(h) PROVE Recorded(o)'
  BY <1>3 DEF WebhookStep, WebhookProgress, WebhookReceive, WebhookCommitPaid,
              WebhookEnqueue, WebhookMark, WebhookCrash, Written
<1>4. CASE WorkerStep
  <2>1. CASE WorkerProviderFails \/ WorkerOtherError
    BY <2>1 DEF WorkerProviderFails, WorkerOtherError, Written
  <2>2. CASE WorkerSettle \/ WorkerFailsEarly \/ WorkerRecordRefund
    BY <2>2 DEF WorkerSettle, WorkerFailsEarly, WorkerRecordRefund
  <2>3. CASE WorkerTake \/ WorkerMint \/ WorkerRefund \/ WorkerCrash
    BY <2>3 DEF WorkerTake, WorkerMint, WorkerRefund, WorkerCrash
  <2>4. QED
    BY <1>4, <2>1, <2>2, <2>3 DEF WorkerStep, WorkerProgress
<1>5. CASE CronStep
  <2>1. CASE \E p \in Orders : Expire(p) \/ SweepVerify(p)
    BY <2>1 DEF Expire, SweepVerify
  <2>2. CASE ~\E p \in Orders : Expire(p) \/ SweepVerify(p)
    BY <1>5, <2>2 DEF CronStep, RetryRefund, RetrySelect, RetryRecord, SweepSelect,
                      SweepEnqueue, CronCrash
  <2>3. QED
    BY <2>1, <2>2
<1>6. ASSUME NEW c \in Clerks, ClerkStep(c) PROVE Recorded(o)'
  <2>1. CASE RecordRefund(c) \/ Attach(c) \/ ReprocessFails(c)
    BY <2>1 DEF RecordRefund, Attach, ReprocessFails, Written
  <2>2. ASSUME NEW p \in Orders,
               \/ AdminRefund(c, p) \/ OpsRefund(c, p) \/ Reprocess(c, p)
               \/ Refulfil(c, p)
        PROVE  Recorded(o)'
    BY <2>2 DEF AdminRefund, OpsRefund, Reprocess, Refulfil
  <2>3. ASSUME NEW p \in Orders,
               \/ CreateDirect(c, p) \/ CreateDirectUndelivered(c, p)
               \/ Cancel(c, p) \/ ReportDead(c, p)
        PROVE  Recorded(o)'
    BY <2>3 DEF CreateDirect, CreateDirectUndelivered, Cancel, ReportDead
  <2>4. ASSUME NEW p \in Orders, EditStatus(c, p) PROVE Recorded(o)'
    BY <2>4 DEF EditStatus
  <2>5. CASE StaffMint(c) \/ ReprocessAudit(c) \/ RefulfilFails(c) \/ ClerkCrash(c)
    BY <2>5 DEF StaffMint, ReprocessAudit, RefulfilFails, ClerkCrash
  <2>6. QED
    BY <1>6, <2>1, <2>2, <2>3, <2>4, <2>5 DEF ClerkStep, ClerkProgress
<1>7. QED
  BY <1>1, <1>2, <1>3, <1>4, <1>5, <1>6 DEF Next

LEMMA OnlyWebhooksHandle ==
  ASSUME [Next]_vars
  PROVE  \/ UNCHANGED <<handler, seen>>
         \/ \E h \in Handlers : WebhookStep(h)
<1> USE DEF vars, actors
<1>1. CASE UNCHANGED vars \/ GatewayStep
  BY <1>1 DEF GatewayStep, CommitCheckout, Charge, GoStale
<1>2. CASE WorkerStep
  BY <1>2 DEF WorkerStep, WorkerProgress, WorkerTake, WorkerMint, WorkerSettle,
       WorkerFailsEarly, WorkerProviderFails, WorkerOtherError, WorkerRefund,
       WorkerRecordRefund, WorkerCrash
<1>3. CASE CronStep
  BY <1>3 DEF CronStep, Expire, RetrySelect, RetryRefund, RetryRecord, SweepSelect,
       SweepVerify, SweepEnqueue, CronCrash
<1>4. CASE \E c \in Clerks : ClerkStep(c)
  <2>1. PICK c \in Clerks : ClerkStep(c)
    BY <1>4
  <2>2. UNCHANGED seen
    BY <2>1 DEF ClerkStep, ClerkProgress, AdminRefund, OpsRefund, Reprocess,
         Refulfil, StaffMint, ReprocessFails, RefulfilFails, ReprocessAudit,
         CreateDirect, CreateDirectUndelivered, Cancel, ReportDead, EditStatus,
         RecordRefund, Attach, ClerkCrash
  <2>3. QED
    BY <2>1, <2>2, ClerksLeaveTheAutomaticPath
<1>5. QED
  BY <1>1, <1>2, <1>3, <1>4 DEF Next

-----------------------------------------------------------------------------
LEMMA WebhookKeepsSeen ==
  ASSUME SeenInv, NEW h \in Handlers, WebhookStep(h)
  PROVE  DeliveriesAreRecorded' /\ SeenMeansRecorded'
<1> USE DEF SeenInv, IInv, TypeOK, HandlerState
<1>0. [Next]_vars
  BY DEF Next
<1>1. \A o \in Orders : Recorded(o) => Recorded(o)'
  BY <1>0, RecordedStays
<1>2. PaystackOrders \subseteq Orders
  BY FulfillmentAssumption
<1>3. ASSUME NEW g \in Handlers, NEW o \in PaystackOrders,
             handler'[g] = handler[g], handler[g].order = o
      PROVE  /\ handler'[g].pc \in {"enqueue", "mark"} => Recorded(o)'
             /\ handler'[g].pc = "commit" /\ handler'[g].saw = "paid" => Recorded(o)'
  BY <1>1, <1>2, <1>3 DEF DeliveriesAreRecorded
<1>4. \A g \in Handlers : g # h => handler'[g] = handler[g]
  BY DEF WebhookStep, WebhookProgress, WebhookReceive, WebhookCommitPaid,
         WebhookEnqueue, WebhookMark, WebhookCrash
<1>5. CASE \E p \in Orders : WebhookReceive(h, p)
  <2>1. PICK p \in Orders : WebhookReceive(h, p)
    BY <1>5
  <2>2. /\ handler'[h].order = p
        /\ handler'[h].saw = status[p]
        /\ handler'[h].pc = "mark" => status[p] \in Live \cup {"absent"}
        /\ handler'[h].pc \in {"mark", "commit"}
        /\ p \in PaystackOrders => status[p] # "absent"
    BY <2>1 DEF WebhookReceive
  <2>3. UNCHANGED <<status, edited, seen>>
    BY <2>1 DEF WebhookReceive, rows
  <2>4. p \in PaystackOrders =>
          /\ handler'[h].pc = "mark" => Recorded(p)
          /\ handler'[h].saw = "paid" => Recorded(p)
    BY <2>2 DEF Recorded, Unpaid, Live
  <2>5. \A o \in PaystackOrders : Recorded(o)' = Recorded(o)
    BY <2>3 DEF Recorded
  <2>6. DeliveriesAreRecorded'
    BY <1>3, <1>4, <2>2, <2>4, <2>5 DEF DeliveriesAreRecorded
  <2>7. SeenMeansRecorded'
    BY <2>3 DEF SeenMeansRecorded
  <2>8. QED
    BY <2>6, <2>7
<1> SUFFICES ASSUME NEW o, o = handler[h].order
             PROVE  DeliveriesAreRecorded' /\ SeenMeansRecorded'
  OBVIOUS
<1>6. CASE WebhookCommitPaid(h)
  <2>1. o \in Orders
    BY <1>6, ActorsHaveOrders DEF WebhookCommitPaid
  <2>2. handler'[h].pc = "enqueue" /\ handler'[h].order = o /\ UNCHANGED <<seen, edited>>
    BY <1>6 DEF WebhookCommitPaid
  <2>3. o \in PaystackOrders => Recorded(o)'
    <3>1. CASE handler[h].saw = "paid"
      BY <1>1, <1>6, <2>1, <3>1 DEF WebhookCommitPaid, DeliveriesAreRecorded
    <3>2. CASE handler[h].saw # "paid"
      <4>1. status'[o] = "paid"
        BY <1>6, <2>1, <3>2 DEF WebhookCommitPaid, Written
      <4>2. QED
        BY <4>1 DEF Recorded, Unpaid
    <3>3. QED
      BY <3>1, <3>2
  <2>4. DeliveriesAreRecorded'
    <3>1. ASSUME NEW g \in Handlers, NEW q \in PaystackOrders, handler'[g].order = q
          PROVE  /\ handler'[g].pc \in {"enqueue", "mark"} => Recorded(q)'
                 /\ handler'[g].pc = "commit" /\ handler'[g].saw = "paid" =>
                      Recorded(q)'
      <4>1. CASE g = h
        BY <2>2, <2>3, <3>1, <4>1
      <4>2. CASE g # h
        BY <1>3, <1>4, <3>1, <4>2
      <4>3. QED
        BY <4>1, <4>2
    <3>2. QED
      BY <3>1 DEF DeliveriesAreRecorded
  <2>5. SeenMeansRecorded'
    BY <1>1, <1>2, <2>2 DEF SeenMeansRecorded, Recorded
  <2>6. QED
    BY <2>4, <2>5
<1>7. CASE WebhookEnqueue(h)
  <2>1. /\ handler[h].pc = "enqueue" /\ handler'[h].pc = "mark"
        /\ handler'[h].order = o /\ UNCHANGED <<status, edited, seen>>
    BY <1>7 DEF WebhookEnqueue, rows
  <2>2. QED
    BY <1>3, <1>4, <2>1 DEF DeliveriesAreRecorded, SeenMeansRecorded, Recorded
<1>8. CASE WebhookMark(h)
  <2>1. /\ handler[h].pc = "mark" /\ handler'[h].pc = "idle"
        /\ UNCHANGED <<status, edited>>
        /\ \A p \in Orders : seen'[p] => seen[p] \/ p = o
    BY <1>8 DEF WebhookMark, IdleHandler, rows
  <2>2. o \in PaystackOrders => Recorded(o)
    BY <2>1 DEF DeliveriesAreRecorded
  <2>3. SeenMeansRecorded'
    BY <1>2, <2>1, <2>2 DEF SeenMeansRecorded, Recorded
  <2>4. DeliveriesAreRecorded'
    BY <1>3, <1>4, <2>1 DEF DeliveriesAreRecorded, Recorded
  <2>5. QED
    BY <2>3, <2>4
<1>9. CASE WebhookCrash(h)
  <2>1. handler'[h].pc = "idle" /\ UNCHANGED <<status, edited, seen>>
    BY <1>9 DEF WebhookCrash, IdleHandler, rows
  <2>2. QED
    BY <1>3, <1>4, <2>1 DEF DeliveriesAreRecorded, SeenMeansRecorded, Recorded
<1>10. QED
  BY <1>5, <1>6, <1>7, <1>8, <1>9 DEF WebhookStep, WebhookProgress

LEMMA NextSeen == SeenInv /\ [Next]_vars => SeenInv'
<1> SUFFICES ASSUME SeenInv, [Next]_vars
             PROVE  DeliveriesAreRecorded' /\ SeenMeansRecorded'
  BY NextIInv DEF SeenInv
<1>1. CASE UNCHANGED <<handler, seen>>
  <2>1. \A o \in Orders : Recorded(o) => Recorded(o)'
    BY RecordedStays DEF SeenInv
  <2>2. PaystackOrders \subseteq Orders
    BY FulfillmentAssumption
  <2>3. DeliveriesAreRecorded'
    <3>1. \A o \in PaystackOrders : Recorded(o) => Recorded(o)'
      BY <2>1, <2>2
    <3>2. QED
      BY <1>1, <3>1 DEF SeenInv, DeliveriesAreRecorded
  <2>4. SeenMeansRecorded'
    BY <1>1, <2>1, <2>2 DEF SeenInv, SeenMeansRecorded, Recorded
  <2>5. QED
    BY <2>3, <2>4
<1>2. ASSUME NEW h \in Handlers, WebhookStep(h)
      PROVE  DeliveriesAreRecorded' /\ SeenMeansRecorded'
  BY <1>2, WebhookKeepsSeen
<1>3. QED
  BY <1>1, <1>2, OnlyWebhooksHandle

(* An event is in processed_webhooks only if the Paystack order it is about  *)
(* is past "absent", "pending" and "expired", or staff set its status.       *)
THEOREM DuplicatesLoseNothing == Spec => []SeenMeansRecorded
<1>1. Init => SeenInv
  <2>1. Init => DeliveriesAreRecorded /\ SeenMeansRecorded
    BY FulfillmentAssumption
       DEF Init, IdleHandler, DeliveriesAreRecorded, SeenMeansRecorded
  <2>2. QED
    BY <2>1, InitIInv DEF SeenInv
<1>2. SeenInv => SeenMeansRecorded
  BY DEF SeenInv
<1>3. QED
  BY <1>1, <1>2, NextSeen, PTL DEF Spec

-----------------------------------------------------------------------------
(* Redis, the API and the timers stay up; jobs and staff requests may be cut *)
(* short anywhere.  A paid order nobody has in hand is on the list of failed  *)
(* jobs.                                                                      *)
ServicesStayUp == Faults \cap {"redis", "handler", "cron"} = {}
PaidInv == IInv /\ PaidOrdersAreInHand

(* Whoever queues a job has an order queued, and takes none out.             *)
LEMMA QueuedStays ==
  ASSUME TypeOK, "redis" \notin Faults, NEW p \in Orders, Enqueue(p),
         NEW o \in Orders, o = p \/ \E i \in 1 .. Len(queue) : queue[i] = o
  PROVE  \E i \in 1 .. Len(queue') : queue'[i] = o
<1>1. queue \in Seq(Orders) /\ queue' = Append(queue, p)
  BY DEF TypeOK, Enqueue
<1>2. CASE o = p
  <2>1. Len(queue) + 1 \in 1 .. Len(queue') /\ queue'[Len(queue) + 1] = o
    BY <1>1, <1>2, AppendProperties, LenProperties
  <2>2. QED
    BY <2>1
<1>3. ASSUME NEW i \in 1 .. Len(queue), queue[i] = o
      PROVE  \E j \in 1 .. Len(queue') : queue'[j] = o
  <2>1. i \in 1 .. Len(queue') /\ queue'[i] = o
    BY <1>1, <1>3, AppendProperties, LenProperties
  <2>2. QED
    BY <2>1
<1>4. QED
  BY <1>2, <1>3

LEMMA WebhookInHand ==
  ASSUME ServicesStayUp, PaidInv, NEW h \in Handlers, WebhookStep(h),
         NEW o \in Invoiced, status'[o] = "paid", ~edited'[o], o \notin failed'
  PROVE  InHand(o)'
<1> USE DEF IInv, TypeOK, rows
<1>0. o \in Orders /\ (status[o] = "paid" /\ ~edited[o] => InHand(o))
  <2>1. failed' = failed
    BY DEF WebhookStep, WebhookProgress, WebhookReceive, WebhookCommitPaid,
           WebhookEnqueue, WebhookMark, WebhookCrash
  <2>2. QED
    BY <2>1 DEF PaidInv, PaidOrdersAreInHand, Invoiced
<1>1. ASSUME NEW p \in Orders, WebhookReceive(h, p) PROVE InHand(o)'
  BY <1>0, <1>1 DEF PaidInv, WebhookReceive, InHand
<1>2. CASE WebhookCommitPaid(h)
  <2>1. /\ handler[h].pc = "commit" /\ UNCHANGED <<queue, sweep, worker, edited>>
        /\ handler' = [handler EXCEPT ![h].pc = "enqueue"]
        /\ handler[h].order # o => status'[o] = status[o]
    BY <1>2 DEF WebhookCommitPaid
  <2>2. CASE handler[h].order = o
    <3>1. handler'[h].pc = "enqueue" /\ handler'[h].order = o
      BY <2>1, <2>2 DEF PaidInv, HandlerState
    <3>2. QED
      BY <3>1 DEF InHand
  <2>3. CASE handler[h].order # o
    <3>1. InHand(o)
      BY <1>0, <2>1, <2>3
    <3>2. \A g \in Handlers \ {h} : handler'[g] = handler[g]
      BY <2>1 DEF PaidInv
    <3>3. QED
      BY <2>1, <2>3, <3>1, <3>2 DEF InHand
  <2>4. QED
    BY <2>2, <2>3
<1>3. CASE WebhookEnqueue(h)
  <2>1. /\ handler[h].pc = "enqueue" /\ Enqueue(handler[h].order)
        /\ UNCHANGED <<status, edited, sweep, worker>>
        /\ \A g \in Handlers \ {h} : handler'[g] = handler[g]
    BY <1>3 DEF WebhookEnqueue, PaidInv
  <2>2. handler[h].order \in Orders
    BY <2>1, ActorsHaveOrders DEF PaidInv
  <2>3. InHand(o)
    BY <1>0, <2>1
  <2>4. CASE handler[h].order = o \/ \E i \in 1 .. Len(queue) : queue[i] = o
    BY <1>0, <2>1, <2>2, <2>4, QueuedStays DEF InHand, PaidInv, ServicesStayUp
  <2>5. CASE ~(handler[h].order = o \/ \E i \in 1 .. Len(queue) : queue[i] = o)
    BY <2>1, <2>3, <2>5 DEF InHand
  <2>6. QED
    BY <2>4, <2>5
<1>4. CASE WebhookMark(h)
  BY <1>0, <1>4 DEF PaidInv, WebhookMark, InHand
<1>5. ~WebhookCrash(h)
  BY DEF WebhookCrash, ServicesStayUp
<1>6. QED
  BY <1>1, <1>2, <1>3, <1>4, <1>5 DEF WebhookStep, WebhookProgress

(* Hands other than the worker's stay closed while the worker moves. *)
LEMMA WorkerInHand ==
  ASSUME PaidInv, WorkerStep,
         NEW o \in Invoiced, status'[o] = "paid", ~edited'[o], o \notin failed'
  PROVE  InHand(o)'
<1> USE DEF IInv, TypeOK, rows
<1> DEFINE AtWork == worker.pc = "mint" /\ worker.order = o /\ worker.saw = "paid"
<1>0. o \in Orders /\ (status[o] = "paid" /\ ~edited[o] => InHand(o))
  <2>1. o \in Orders
    BY DEF Invoiced
  <2>2. CASE WorkerTake \/ WorkerSettle
    <3>1. o \notin failed
      BY <2>1, <2>2 DEF WorkerTake, WorkerSettle, Live, PaidInv
    <3>2. QED
      BY <2>1, <3>1 DEF PaidInv, PaidOrdersAreInHand
  <2>3. CASE ~(WorkerTake \/ WorkerSettle)
    <3>1. failed \subseteq failed'
      BY <2>3 DEF WorkerStep, WorkerProgress, WorkerMint, WorkerFailsEarly,
           WorkerProviderFails, WorkerOtherError, WorkerRefund, WorkerRecordRefund,
           WorkerCrash, Raises
    <3>2. QED
      BY <2>1, <3>1 DEF PaidInv, PaidOrdersAreInHand
  <2>4. QED
    BY <2>2, <2>3
<1>1. CASE WorkerTake
  <2>1. /\ queue # <<>> /\ queue' = Tail(queue) /\ worker.pc = "idle"
        /\ UNCHANGED <<status, edited, handler, sweep>>
    BY <1>1 DEF WorkerTake
  <2>2. InHand(o) /\ queue \in Seq(Orders)
    BY <1>0, <2>1 DEF PaidInv
  <2>3. CASE Head(queue) = o
    <3>1. status[o] = "paid"
      BY <2>1
    <3>2. worker'.pc = "mint" /\ worker'.order = o /\ worker'.saw = "paid"
      BY <1>1, <2>3, <3>1 DEF WorkerTake, Live
    <3>3. QED
      BY <3>2 DEF InHand
  <2>4. ASSUME NEW i \in 1 .. Len(queue), queue[i] = o, Head(queue) # o
        PROVE  InHand(o)'
    <3>1. i # 1 /\ i - 1 \in 1 .. Len(Tail(queue)) /\ Tail(queue)[i - 1] = queue[i]
      BY <2>1, <2>2, <2>4, HeadTailProperties, LenProperties
    <3>2. QED
      BY <2>1, <2>4, <3>1 DEF InHand
  <2>5. CASE ~\E i \in 1 .. Len(queue) : queue[i] = o
    BY <2>1, <2>2, <2>5 DEF InHand
  <2>6. QED
    BY <2>3, <2>4, <2>5
<1>2. CASE WorkerMint
  <2>1. /\ UNCHANGED <<status, edited, handler, sweep, queue>>
        /\ worker' = [worker EXCEPT !.job = Append(worker.job, minted'[worker.order])]
    BY <1>2 DEF WorkerMint
  <2>2. worker'.pc = worker.pc /\ worker'.order = worker.order /\ worker'.saw = worker.saw
    BY <2>1 DEF PaidInv, WorkerState
  <2>3. QED
    BY <1>0, <2>1, <2>2 DEF InHand
(* The job ends.  If it was this order's, the row says something else now or *)
(* the job is on the list of failed ones; if not, somebody else has the order.*)
<1>3. ASSUME UNCHANGED <<edited, handler, sweep, queue>>, status'[o] = status[o],
             ~AtWork
      PROVE  InHand(o)'
  BY <1>0, <1>3 DEF InHand
<1>4. CASE WorkerSettle
  <2>1. UNCHANGED <<edited, handler, sweep, queue>> /\ worker.order # o
        /\ status'[o] = status[o]
    BY <1>0, <1>4 DEF WorkerSettle, PaidInv
  <2>2. QED
    BY <1>3, <2>1
<1>5. CASE WorkerProviderFails
  <2>1. /\ UNCHANGED <<edited, handler, sweep, queue>> /\ worker.pc = "mint"
        /\ worker.order = o => status'[o] = status[o] /\ worker.saw # "paid"
        /\ worker.order # o => status'[o] = status[o]
    BY <1>0, <1>5 DEF WorkerProviderFails, Written, PaidInv
  <2>2. QED
    BY <1>3, <2>1
<1>6. ASSUME Raises,
             WorkerFailsEarly \/ WorkerOtherError \/ WorkerRecordRefund \/ WorkerCrash
      PROVE  InHand(o)'
  <2>1. worker.order # o
    BY <1>6 DEF Raises
  <2>2. UNCHANGED <<edited, handler, sweep, queue>> /\ status'[o] = status[o]
    BY <1>0, <1>6, <2>1 DEF WorkerFailsEarly, WorkerOtherError, WorkerRecordRefund,
         WorkerCrash, PaidInv
  <2>3. QED
    BY <1>3, <2>1, <2>2
<1>7. CASE WorkerRefund
  <2>1. /\ UNCHANGED <<edited, handler, sweep, queue>> /\ worker.pc # "mint"
        /\ status'[o] = status[o]
    BY <1>7 DEF WorkerRefund
  <2>2. QED
    BY <1>3, <2>1
<1>8. QED
  BY <1>1, <1>2, <1>4, <1>5, <1>6, <1>7
     DEF WorkerStep, WorkerProgress, WorkerFailsEarly, WorkerOtherError,
         WorkerRecordRefund, WorkerCrash

LEMMA CronInHand ==
  ASSUME ServicesStayUp, PaidInv, CronStep,
         NEW o \in Invoiced, status'[o] = "paid", ~edited'[o], o \notin failed'
  PROVE  InHand(o)'
<1> USE DEF IInv, TypeOK, rows, actors
<1>0. o \in Orders /\ o # None /\ (status[o] = "paid" /\ ~edited[o] => InHand(o))
  <2>1. failed' = failed
    BY DEF CronStep, Expire, RetrySelect, RetryRefund, RetryRecord, SweepSelect,
           SweepVerify, SweepEnqueue, CronCrash
  <2>2. QED
    BY <2>1, FulfillmentAssumption DEF PaidInv, PaidOrdersAreInHand, Invoiced
<1>1. ASSUME NEW p \in Orders, Expire(p) \/ RetryRefund(p) PROVE InHand(o)'
  BY <1>0, <1>1 DEF Expire, RetryRefund, InHand, PaidInv
<1>2. ASSUME NEW p \in Orders, SweepVerify(p) PROVE InHand(o)'
  <2>1. /\ sweep.won = None /\ UNCHANGED <<edited, handler, worker, queue>>
        /\ status'[o] = status[o] \/ sweep'.won = o
    BY <1>0, <1>2 DEF SweepVerify, PaidInv
  <2>2. CASE sweep'.won = o
    BY <2>2 DEF InHand
  <2>3. CASE status'[o] = status[o]
    BY <1>0, <2>1, <2>3 DEF InHand
  <2>4. QED
    BY <2>1, <2>2, <2>3
<1>3. CASE SweepEnqueue
  <2>1. /\ sweep.won # None /\ Enqueue(sweep.won)
        /\ UNCHANGED <<status, edited, handler, worker>>
    BY <1>3 DEF SweepEnqueue
  <2>2. sweep.won \in Orders
    BY <2>1, ActorsHaveOrders DEF PaidInv
  <2>3. InHand(o)
    BY <1>0, <2>1
  <2>4. CASE sweep.won = o \/ \E i \in 1 .. Len(queue) : queue[i] = o
    BY <1>0, <2>1, <2>2, <2>4, QueuedStays DEF InHand, PaidInv, ServicesStayUp
  <2>5. CASE ~(sweep.won = o \/ \E i \in 1 .. Len(queue) : queue[i] = o)
    BY <2>1, <2>3, <2>5 DEF InHand
  <2>6. QED
    BY <2>4, <2>5
<1>4. CASE RetrySelect \/ RetryRecord \/ SweepSelect
  <2>1. /\ UNCHANGED <<edited, handler, worker, queue>>
        /\ sweep' = sweep \/ sweep.won = None
        /\ status'[o] = "paid" => status[o] = "paid"
    BY <1>0, <1>4 DEF RetrySelect, RetryRecord, SweepSelect, IdleSweep, PaidInv
  <2>2. QED
    BY <1>0, <2>1 DEF InHand
<1>5. ~CronCrash
  BY DEF CronCrash, ServicesStayUp
<1>6. QED
  BY <1>1, <1>2, <1>3, <1>4, <1>5 DEF CronStep

(* Staff and customers take an order out of "paid", or put an invoiced one   *)
(* there by editing it.                                                      *)
LEMMA ClerkInHand ==
  ASSUME PaidInv, NEW c \in Clerks, ClerkStep(c),
         NEW o \in Invoiced, status'[o] = "paid", ~edited'[o], o \notin failed'
  PROVE  InHand(o)'
<1> USE DEF IInv, TypeOK, rows, PaidInv
<1>0. o \in Orders /\ o \notin DirectOrders
      /\ (status[o] = "paid" /\ ~edited[o] => InHand(o))
  BY ClerksLeaveTheAutomaticPath DEF PaidOrdersAreInHand, Invoiced
<1>1. status[o] = "paid" /\ ~edited[o]
  <2>1. CASE RecordRefund(c) \/ StaffMint(c) \/ ReprocessAudit(c)
             \/ RefulfilFails(c) \/ ClerkCrash(c)
    BY <1>0, <2>1 DEF RecordRefund, StaffMint, ReprocessAudit, RefulfilFails,
         ClerkCrash
  <2>2. CASE Attach(c) \/ ReprocessFails(c)
    BY <1>0, <2>2 DEF Attach, ReprocessFails, Written
  <2>3. ASSUME NEW p \in Orders,
               AdminRefund(c, p) \/ OpsRefund(c, p) \/ Reprocess(c, p) \/ Refulfil(c, p)
        PROVE  <1>1
    BY <2>3 DEF AdminRefund, OpsRefund, Reprocess, Refulfil
  <2>4. ASSUME NEW p \in Orders,
               \/ CreateDirect(c, p) \/ CreateDirectUndelivered(c, p)
               \/ Cancel(c, p) \/ ReportDead(c, p)
        PROVE  <1>1
    BY <1>0, <2>4 DEF CreateDirect, CreateDirectUndelivered, Cancel, ReportDead
  <2>5. ASSUME NEW p \in Orders, EditStatus(c, p) PROVE <1>1
    BY <1>0, <2>5 DEF EditStatus
  <2>6. QED
    BY <2>1, <2>2, <2>3, <2>4, <2>5 DEF ClerkStep, ClerkProgress
<1>2. QED
  BY <1>0, <1>1, ClerksLeaveTheAutomaticPath DEF InHand

(* While Redis, the API and the timers stay up, for any number of orders,     *)
(* deliveries, jobs and requests, and wherever jobs and staff requests are    *)
(* cut short: an invoiced order nobody edited is "paid" only as long as a     *)
(* webhook, the sweep, the queue or the worker has it, or its last job is on  *)
(* the list of failed ones.                                                   *)
THEOREM PaidOrdersAreNeverOrphans ==
  ASSUME ServicesStayUp PROVE Spec => []PaidOrdersAreInHand
<1>1. Init => PaidInv
  <2>1. Init => PaidOrdersAreInHand
    BY DEF Init, PaidOrdersAreInHand, Invoiced
  <2>2. QED
    BY <2>1, InitIInv DEF PaidInv
<1>2. ASSUME PaidInv, [Next]_vars PROVE PaidInv'
  <2>1. ASSUME NEW o \in Invoiced, status'[o] = "paid", ~edited'[o], o \notin failed'
        PROVE  InHand(o)'
    <3>1. ASSUME UNCHANGED <<edited, failed, handler, sweep, queue, worker>>,
                 status'[o] = "paid" => status[o] = "paid"
          PROVE  InHand(o)'
      BY <1>2, <2>1, <3>1 DEF PaidInv, PaidOrdersAreInHand, InHand
    <3>2. CASE UNCHANGED vars \/ GatewayStep
      <4>1. UNCHANGED <<edited, failed, handler, sweep, queue, worker>>
        BY <3>2 DEF vars, GatewayStep, CommitCheckout, Charge, GoStale, rows, actors
      <4>2. status'[o] = "paid" => status[o] = "paid"
        BY <1>2, <3>2 DEF vars, GatewayStep, CommitCheckout, Charge, GoStale, rows,
             PaidInv, IInv, TypeOK, Invoiced
      <4>3. QED
        BY <3>1, <4>1, <4>2
    <3>3. QED
      BY <1>2, <2>1, <3>2, WebhookInHand, WorkerInHand, CronInHand, ClerkInHand
         DEF Next
  <2>2. QED
    BY <1>2, <2>1, NextIInv DEF PaidInv, PaidOrdersAreInHand
<1>3. PaidInv => PaidOrdersAreInHand
  BY DEF PaidInv
<1>4. QED
  BY <1>1, <1>2, <1>3, PTL DEF Spec
=============================================================================
