------------------------ MODULE PaymentPromiseProofs ------------------------
(***************************************************************************)
(* OrderFulfillment implements PaymentPromise: for every number of orders, *)
(* requests and faults, money, books and commissioned work move only as    *)
(* the promise lets them.                                                  *)
(***************************************************************************)
EXTENDS OrderFulfillmentProofs

(* A worker that is not at work has no order. *)
IdleWorkersAreFree == worker.pc = "idle" => worker.order = None

PromiseInv == IInv /\ IdleWorkersAreFree

Commissioned(o) == (\E i \in 1 .. Len(queue) : queue[i] = o) \/ worker.order = o

LEMMA NextPromiseInv == PromiseInv /\ [Next]_vars => PromiseInv'
<1> SUFFICES ASSUME PromiseInv, [Next]_vars PROVE IdleWorkersAreFree'
  BY NextIInv DEF PromiseInv
<1> USE DEF PromiseInv, IdleWorkersAreFree, IInv, TypeOK, vars, actors
<1>1. CASE WorkerStep
  <2>1. CASE WorkerMint \/ WorkerProviderFails
    <3>1. worker'.pc # "idle"
      BY <2>1 DEF WorkerMint, WorkerProviderFails, WorkerState
    <3>2. QED
      BY <3>1
  <2>2. CASE WorkerRefund
    <3>1. worker' = IdleWorker \/ worker'.pc = "record"
      BY <2>2 DEF WorkerRefund, WorkerState, Raises
    <3>2. QED
      BY <3>1 DEF IdleWorker
  <2>3. CASE WorkerTake
    BY <2>3 DEF WorkerTake
  <2>4. CASE WorkerSettle \/ WorkerFailsEarly \/ WorkerOtherError
             \/ WorkerRecordRefund \/ WorkerCrash
    BY <2>4 DEF WorkerSettle, WorkerFailsEarly, WorkerOtherError,
                WorkerRecordRefund, WorkerCrash, Raises, IdleWorker
  <2>5. QED
    BY <1>1, <2>1, <2>2, <2>3, <2>4 DEF WorkerStep, WorkerProgress
<1>2. CASE UNCHANGED vars \/ GatewayStep
  BY <1>2 DEF GatewayStep, CommitCheckout, Charge, GoStale
<1>3. ASSUME NEW h \in Handlers, WebhookStep(h) PROVE IdleWorkersAreFree'
  BY <1>3 DEF WebhookStep, WebhookProgress, WebhookReceive, WebhookCommitPaid,
              WebhookEnqueue, WebhookMark, WebhookCrash
<1>4. CASE CronStep
  BY <1>4 DEF CronStep, Expire, RetrySelect, RetryRefund, RetryRecord, SweepSelect,
              SweepVerify, SweepEnqueue, CronCrash
<1>5. ASSUME NEW c \in Clerks, ClerkStep(c) PROVE IdleWorkersAreFree'
  BY <1>5, ClerksLeaveTheAutomaticPath
<1>6. QED
  BY <1>1, <1>2, <1>3, <1>4, <1>5 DEF Next

(* A charge is final, and no step both takes money and commissions work. *)
LEMMA ChargesMove ==
  ASSUME IInv, [Next]_vars
  PROVE  /\ \A o \in Orders : charged[o] => charged'[o]
         /\ charged' = charged \/ UNCHANGED <<queue, worker>>
<1> USE DEF IInv, TypeOK, vars, actors, money
<1>1. CASE UNCHANGED vars \/ GatewayStep
  BY <1>1 DEF GatewayStep, CommitCheckout, Charge, GoStale
<1>2. ASSUME NEW h \in Handlers, WebhookStep(h) PROVE charged' = charged
  BY <1>2 DEF WebhookStep, WebhookProgress, WebhookReceive, WebhookCommitPaid,
              WebhookEnqueue, WebhookMark, WebhookCrash
<1>3. CASE WorkerStep
  BY <1>3 DEF WorkerStep, WorkerProgress, WorkerTake, WorkerMint, WorkerSettle,
       WorkerFailsEarly, WorkerProviderFails, WorkerOtherError, WorkerRefund,
       WorkerRecordRefund, WorkerCrash
<1>4. CASE CronStep
  BY <1>4 DEF CronStep, Expire, RetrySelect, RetryRefund, RetryRecord, SweepSelect,
       SweepVerify, SweepEnqueue, CronCrash
<1>5. ASSUME NEW c \in Clerks, ClerkStep(c) PROVE charged' = charged
  BY <1>5, ClerksLeaveTheAutomaticPath
<1>6. QED
  BY <1>1, <1>2, <1>3, <1>4, <1>5 DEF Next

-----------------------------------------------------------------------------
LEMMA InitKeepsPromise == Init => Promise!Init
<1> SUFFICES ASSUME Init PROVE Promise!Init
  OBVIOUS
<1>1. \A o \in Invoiced : o \in Orders /\ o # None
  BY FulfillmentAssumption DEF Invoiced
<1>2. \A o \in Invoiced : ~Commissioned(o)
  BY <1>1 DEF Init, IdleWorker, Commissioned
<1>3. QED
  BY <1>1, <1>2 DEF Init, Promise!Init, Commissioned

LEMMA NextKeepsPromise ==
  ASSUME PromiseInv, PromiseInv', [Next]_vars
  PROVE  Promise!Next
<1> SUFFICES ASSUME NEW o \in Invoiced
             PROVE  Promise!MoneyMoves(o) /\ Promise!BooksFollow(o)
                      /\ Promise!WorkFollows(o)
  BY DEF Promise!Next
<1>0. o \in Orders /\ IInv
  BY DEF Invoiced, PromiseInv
<1>1. Promise!MoneyMoves(o)
  <2>1. charged[o] => charged'[o]
    BY <1>0, ChargesMove
  <2>2. refunds[o] > 0 => refunds'[o] > 0
    BY <1>0, RefundsStay
  <2>3. refunds'[o] > 0 => refunds[o] > 0 \/ charged[o]
    <3>1. CASE UNCHANGED refunds
      BY <3>1
    <3>2. ASSUME NEW p \in Orders, GatewayPaysOut(p) PROVE <2>3
      BY <1>0, <3>2, PayoutGrows DEF IInv, TypeOK
    <3>3. QED
      BY <1>0, <3>1, <3>2, RefundsMove
  <2>4. QED
    BY <2>1, <2>2, <2>3 DEF Promise!MoneyMoves
<1>2. Promise!BooksFollow(o)
  <2>1. CASE Unrefunded(o)
    <3>1. Unrefunded(o)' \/ refunds[o] > 0
      BY <1>0, <2>1, BookedRefunds
    <3>2. QED
      BY <3>1 DEF Promise!BooksFollow, Unrefunded
  <2>2. CASE ~Unrefunded(o)
    BY <2>2 DEF Promise!BooksFollow, Unrefunded
  <2>3. QED
    BY <2>1, <2>2
<1>3. Promise!WorkFollows(o)
  <2>1. ASSUME Commissioned(o)', ~Commissioned(o) PROVE charged[o]
    <3>1. charged'[o]
      <4>1. o # None
        BY <1>0, FulfillmentAssumption
      <4>2. QED
        BY <2>1, <4>1 DEF Commissioned, PromiseInv, IdleWorkersAreFree, IInv,
                          JobsAreForCharges, ForCharge
    <3>2. charged' = charged
      BY <1>0, <2>1, ChargesMove DEF Commissioned
    <3>3. QED
      BY <3>1, <3>2
  <2>2. QED
    BY <2>1 DEF Promise!WorkFollows, Commissioned
<1>4. QED
  BY <1>1, <1>2, <1>3

(* Every behaviour of the order life cycle is one of PaymentPromise: money   *)
(* is taken once and goes back only after that, the books say "refunded"     *)
(* only then, and automatic work is commissioned only for money taken.       *)
THEOREM OrdersKeepThePromise == Spec => KeepsPromise
<1>1. Init => PromiseInv
  BY InitIInv DEF PromiseInv, IdleWorkersAreFree, Init, IdleWorker
<1>2. PromiseInv /\ PromiseInv' /\ [Next]_vars => [Promise!Next]_(Promise!promised)
  BY NextKeepsPromise
<1>3. QED
  BY <1>1, <1>2, InitKeepsPromise, NextPromiseInv, PTL
     DEF Spec, KeepsPromise, Promise!Spec
=============================================================================
