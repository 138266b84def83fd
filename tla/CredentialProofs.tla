-------------------------- MODULE CredentialProofs --------------------------
(***************************************************************************)
(* The credentials behind the orders of OrderFulfillment, for any number   *)
(* of orders, jobs and requests: without staff a fulfilled order has as    *)
(* many as were bought, and with staff a live order's own one works.       *)
(***************************************************************************)
EXTENDS OrderFulfillmentProofs, FiniteSetTheorems

-----------------------------------------------------------------------------
(* What a revocation hits is the credential attached now, or one that was    *)
(* when a request or the job loaded the order.                               *)
Busies(o) == {c \in Clerks : clerk[c].pc # "idle" /\ clerk[c].order = o}
Loaded(o) ==
  {fk[o]} \cup {clerk[c].fk : c \in Busies(o)}
          \cup (IF worker.pc = "mint" /\ worker.order = o THEN {worker.fk} ELSE {})

(* What is in hand works, was never attached, and is in one hand only. *)
HandsOf(o) ==
  /\ active[o] \subseteq 1 .. minted[o]
  /\ Loaded(o) \subseteq 0 .. minted[o]
  /\ \A x \in Job(o) : x \in active[o] /\ x \notin Loaded(o)
  /\ \A c \in Clerks : Pending(c, o) =>
       /\ clerk[c].cred \in active[o] /\ clerk[c].cred \notin Loaded(o)
       /\ clerk[c].cred \notin Job(o)
       /\ \A d \in Clerks \ {c} : Pending(d, o) => clerk[d].cred # clerk[c].cred
Hands == \A o \in Orders : HandsOf(o)

(* The three ways in which a step touches the credentials of an order. *)
Unloaded(o) == Loaded(o)' \subseteq Loaded(o)
NobodyElse(o, D) == \A d \in D : Pending(d, o)' =>
  Pending(d, o) /\ clerk'[d].cred = clerk[d].cred

Quiet(o) ==
  /\ Unloaded(o) /\ NobodyElse(o, Clerks) /\ Job(o)' \subseteq Job(o)
  /\ minted'[o] = minted[o] /\ fk'[o] = fk[o]
  /\ active'[o] \subseteq active[o]
  /\ active[o] \ active'[o] \subseteq Loaded(o)

Mints(o) ==
  /\ Unloaded(o)
  /\ minted'[o] = minted[o] + 1 /\ fk'[o] = fk[o]
  /\ active'[o] \subseteq active[o] \cup {minted[o] + 1}
  /\ minted[o] + 1 \in active'[o]
  /\ active[o] \ active'[o] \subseteq Loaded(o)
  /\ \/ NobodyElse(o, Clerks) /\ Job(o)' \subseteq Job(o) \cup {minted[o] + 1}
     \/ \E c \in Clerks : /\ NobodyElse(o, Clerks \ {c}) /\ Job(o)' \subseteq Job(o)
                          /\ Pending(c, o)' /\ clerk'[c].cred = minted[o] + 1

Adopts(o) ==
  /\ minted'[o] = minted[o] /\ active'[o] = active[o]
  /\ Loaded(o)' \subseteq Loaded(o) \cup {fk'[o]}
  /\ \/ fk'[o] \in Job(o) /\ Job(o)' = {} /\ NobodyElse(o, Clerks)
     \/ \E c \in Clerks : /\ Pending(c, o) /\ fk'[o] = clerk[c].cred
                          /\ ~Pending(c, o)' /\ NobodyElse(o, Clerks \ {c})
                          /\ Job(o)' \subseteq Job(o)

LEMMA HandsInit == Init => Hands
<1> SUFFICES ASSUME Init, NEW o \in Orders PROVE HandsOf(o)
  BY DEF Hands
<1>1. active[o] = {} /\ minted[o] = 0 /\ Job(o) = {}
      /\ \A c \in Clerks : clerk[c].pc = "idle"
  BY DEF Init, IdleWorker, IdleClerk, Job
<1>2. Loaded(o) \subseteq {0}
  <2>1. Busies(o) = {} /\ fk[o] = 0 /\ worker.pc # "mint"
    BY <1>1 DEF Init, IdleWorker, Busies
  <2>2. QED
    BY <2>1 DEF Loaded
<1>3. QED
  BY <1>1, <1>2 DEF HandsOf, Pending

LEMMA QuietHands ==
  ASSUME TypeOK, TypeOK', NEW o \in Orders, HandsOf(o), Quiet(o)
  PROVE  HandsOf(o)'
<1>1. active'[o] \subseteq 1 .. minted'[o]
  BY DEF HandsOf, Quiet
<1>2. Loaded(o)' \subseteq 0 .. minted'[o]
  BY DEF HandsOf, Quiet, Unloaded
<1>3. \A x \in active[o] : x \in Nat
  BY DEF TypeOK
<1>4. \A x \in active[o] : x \notin Loaded(o) => x \in active'[o] /\ x \notin Loaded(o)'
  BY <1>3 DEF Quiet, Unloaded
<1>5. \A x \in Job(o)' : x \in active'[o] /\ x \notin Loaded(o)'
  BY <1>4 DEF HandsOf, Quiet
<1>6. ASSUME NEW c \in Clerks, Pending(c, o)'
      PROVE  /\ clerk'[c].cred \in active'[o] /\ clerk'[c].cred \notin Loaded(o)'
             /\ clerk'[c].cred \notin Job(o)'
             /\ \A d \in Clerks \ {c} : Pending(d, o)' => clerk'[d].cred # clerk'[c].cred
  <2>1. Pending(c, o) /\ clerk'[c].cred = clerk[c].cred
    BY <1>6 DEF Quiet, NobodyElse
  <2>2. /\ clerk[c].cred \in active[o] /\ clerk[c].cred \notin Loaded(o)
        /\ clerk[c].cred \notin Job(o)
    BY <2>1 DEF HandsOf
  <2>3. clerk[c].cred \in active'[o] /\ clerk[c].cred \notin Loaded(o)'
    BY <1>4, <2>2
  <2>4. ASSUME NEW d \in Clerks \ {c}, Pending(d, o)'
        PROVE  clerk'[d].cred # clerk'[c].cred
    <3>1. Pending(d, o) /\ clerk'[d].cred = clerk[d].cred
      BY <2>4 DEF Quiet, NobodyElse
    <3>2. QED
      BY <2>1, <3>1 DEF HandsOf
  <2>5. QED
    BY <2>1, <2>2, <2>3, <2>4 DEF Quiet
<1>7. QED
  BY <1>1, <1>2, <1>5, <1>6 DEF HandsOf

LEMMA MintsHands ==
  ASSUME TypeOK, TypeOK', NEW o \in Orders, HandsOf(o), Mints(o)
  PROVE  HandsOf(o)'
<1> DEFINE n == minted[o] + 1
<1>0. minted[o] \in Nat /\ n \in Nat /\ n > minted[o] /\ minted'[o] = n
  BY DEF TypeOK, Mints
<1>1. active'[o] \subseteq 1 .. minted'[o]
  BY <1>0 DEF HandsOf, Mints
<1>2. Loaded(o)' \subseteq 0 .. minted[o]
  BY DEF HandsOf, Mints, Unloaded
<1>3. \A x \in active[o] : x \in Nat
  BY DEF TypeOK
<1>4. \A x \in active[o] : x \notin Loaded(o) => x \in active'[o] /\ x \notin Loaded(o)'
  BY <1>3 DEF Mints, Unloaded
<1>5. n \in active'[o] /\ n \notin Loaded(o)' /\ n \notin active[o]
  BY <1>0, <1>2 DEF Mints, HandsOf
<1>6. n \notin Job(o) /\ \A d \in Clerks : Pending(d, o) => clerk[d].cred # n
  BY <1>5 DEF HandsOf
<1> HIDE DEF n
<1>7. \A x \in Job(o)' : x \in active'[o] /\ x \notin Loaded(o)'
  <2>1. Job(o)' \subseteq Job(o) \cup {n}
    BY DEF Mints, n
  <2>2. \A x \in Job(o) : x \in active[o] /\ x \notin Loaded(o)
    BY DEF HandsOf
  <2>3. QED
    BY <1>4, <1>5, <2>1, <2>2
(* A credential that was in hand stays there, and is not the new one. *)
<1>8. ASSUME NEW c \in Clerks, Pending(c, o), clerk'[c].cred = clerk[c].cred
      PROVE  /\ clerk'[c].cred \in active'[o] /\ clerk'[c].cred \notin Loaded(o)'
             /\ clerk'[c].cred \notin Job(o) \cup {n}
  BY <1>4, <1>6, <1>8 DEF HandsOf
<1>9. ASSUME NEW c \in Clerks, NEW d \in Clerks \ {c}, Pending(c, o), Pending(d, o),
             clerk'[c].cred = clerk[c].cred, clerk'[d].cred = clerk[d].cred
      PROVE  clerk'[d].cred # clerk'[c].cred
  BY <1>9 DEF HandsOf
<1>10. CASE NobodyElse(o, Clerks) /\ Job(o)' \subseteq Job(o) \cup {n}
  <2>1. \A c \in Clerks : Pending(c, o)' => Pending(c, o) /\ clerk'[c].cred = clerk[c].cred
    BY <1>10 DEF NobodyElse
  <2>2. \A c \in Clerks : Pending(c, o)' =>
          /\ clerk'[c].cred \in active'[o] /\ clerk'[c].cred \notin Loaded(o)'
          /\ clerk'[c].cred \notin Job(o)'
    BY <1>8, <1>10, <2>1
  <2>3. \A c \in Clerks : \A d \in Clerks \ {c} :
          Pending(c, o)' /\ Pending(d, o)' => clerk'[d].cred # clerk'[c].cred
    BY <1>9, <2>1
  <2>4. QED
    BY <1>0, <1>1, <1>2, <1>7, <2>2, <2>3 DEF HandsOf
<1>11. ASSUME NEW e \in Clerks, NobodyElse(o, Clerks \ {e}), Job(o)' \subseteq Job(o),
              Pending(e, o)', clerk'[e].cred = n
       PROVE  HandsOf(o)'
  <2>1. \A c \in Clerks \ {e} :
          Pending(c, o)' => Pending(c, o) /\ clerk'[c].cred = clerk[c].cred
    BY <1>11 DEF NobodyElse
  <2>2. \A c \in Clerks : Pending(c, o)' =>
          /\ clerk'[c].cred \in active'[o] /\ clerk'[c].cred \notin Loaded(o)'
          /\ clerk'[c].cred \notin Job(o)'
    BY <1>5, <1>6, <1>8, <1>11, <2>1
  <2>3. \A c \in Clerks \ {e} : Pending(c, o)' => clerk'[c].cred # n
    BY <1>6, <2>1
  <2>4. \A c \in Clerks : \A d \in Clerks \ {c} :
          Pending(c, o)' /\ Pending(d, o)' => clerk'[d].cred # clerk'[c].cred
    BY <1>9, <1>11, <2>1, <2>3
  <2>5. QED
    BY <1>0, <1>1, <1>2, <1>7, <2>2, <2>4 DEF HandsOf
<1>12. QED
  BY <1>10, <1>11 DEF Mints, n

LEMMA AdoptsHands ==
  ASSUME TypeOK, TypeOK', NEW o \in Orders, HandsOf(o), Adopts(o)
  PROVE  HandsOf(o)'
<1> DEFINE x == fk'[o]
<1>1. \A y \in active[o] : y \in Nat
  BY DEF TypeOK
<1>2. x \in active[o] /\ x \in Nat /\ x <= minted[o]
  <2>1. x \in active[o]
    BY DEF Adopts, HandsOf
  <2>2. QED
    BY <1>1, <2>1 DEF HandsOf, TypeOK
<1>3. active'[o] = active[o] /\ minted'[o] = minted[o]
  BY DEF Adopts
<1>4. Loaded(o)' \subseteq Loaded(o) \cup {x}
  BY DEF Adopts
<1>5. Loaded(o)' \subseteq 0 .. minted[o]
  BY <1>2, <1>4 DEF HandsOf
<1>6. Job(o)' \subseteq Job(o) \ {x}
  BY DEF Adopts, HandsOf
<1>7. ASSUME NEW c \in Clerks, Pending(c, o)'
      PROVE  Pending(c, o) /\ clerk'[c].cred = clerk[c].cred /\ clerk[c].cred # x
  BY <1>7 DEF Adopts, NobodyElse, HandsOf
<1> HIDE DEF x
<1>8. \A y \in Job(o)' : y \in active'[o] /\ y \notin Loaded(o)'
  <2>1. \A y \in Job(o) : y \in active[o] /\ y \notin Loaded(o)
    BY DEF HandsOf
  <2>2. QED
    BY <1>1, <1>3, <1>4, <1>6, <2>1
<1>9. ASSUME NEW c \in Clerks, Pending(c, o)'
      PROVE  /\ clerk'[c].cred \in active'[o] /\ clerk'[c].cred \notin Loaded(o)'
             /\ clerk'[c].cred \notin Job(o)'
             /\ \A d \in Clerks \ {c} : Pending(d, o)' => clerk'[d].cred # clerk'[c].cred
  <2>1. Pending(c, o) /\ clerk'[c].cred = clerk[c].cred /\ clerk[c].cred # x
    BY <1>7, <1>9
  <2>2. clerk[c].cred \in active[o] /\ clerk[c].cred \notin Loaded(o) /\ clerk[c].cred \notin Job(o)
    BY <2>1 DEF HandsOf
  <2>3. \A d \in Clerks \ {c} : Pending(d, o)' => clerk'[d].cred # clerk'[c].cred
    BY <1>7, <2>1 DEF HandsOf
  <2>4. QED
    BY <1>1, <1>3, <1>4, <1>6, <2>1, <2>2, <2>3
<1>10. QED
  BY <1>3, <1>5, <1>8, <1>9 DEF HandsOf

Touches(o) == Quiet(o) \/ Mints(o) \/ Adopts(o)

LEMMA UntouchedQuiet ==
  ASSUME NEW o \in Orders, UNCHANGED <<minted, active, fk, worker, clerk>>
  PROVE  Quiet(o)
BY DEF Quiet, Unloaded, NobodyElse, Job, Loaded, Busies, Pending

(* A request that begins, with the credential attached now, goes on with the *)
(* one it loaded, or ends.                                                   *)
LEMMA ClerkMoves ==
  ASSUME TypeOK, NEW c \in Clerks, NEW request, NEW o \in Orders,
         clerk' = [clerk EXCEPT ![c] = request], worker' = worker,
         \/ request.pc = "idle" \/ request.fk = fk[request.order]
         \/ /\ clerk[c].pc # "idle"
            /\ request.order = clerk[c].order /\ request.fk = clerk[c].fk
  PROVE  /\ clerk'[c] = request
         /\ Job(o)' = Job(o)
         /\ Loaded(o)' \subseteq Loaded(o) \cup {fk'[o]}
         /\ NobodyElse(o, Clerks \ {c})
         /\ ~Pending(c, o)' => NobodyElse(o, Clerks)
<1>1. clerk'[c] = request /\ \A d \in Clerks \ {c} : clerk'[d] = clerk[d]
  BY DEF TypeOK
<1>2. Job(o)' = Job(o)
  BY DEF Job
<1>3. NobodyElse(o, Clerks \ {c})
  BY <1>1 DEF NobodyElse, Pending
<1>4. ~Pending(c, o)' => NobodyElse(o, Clerks)
  BY <1>1 DEF NobodyElse, Pending
<1>5. ASSUME NEW d \in Busies(o)' PROVE clerk'[d].fk \in Loaded(o)
  <2>1. CASE d = c
    BY <1>1, <1>5, <2>1 DEF Busies, Loaded
  <2>2. CASE d # c
    <3>1. d \in Busies(o) /\ clerk'[d] = clerk[d]
      BY <1>1, <1>5, <2>2 DEF Busies
    <3>2. QED
      BY <3>1 DEF Loaded
  <2>3. QED
    BY <2>1, <2>2
<1>6. Loaded(o)' \subseteq Loaded(o) \cup {fk'[o]}
  <2>1. worker.pc = "mint" /\ worker.order = o => worker.fk \in Loaded(o)
    BY DEF Loaded
  <2>2. Loaded(o)' = {fk'[o]} \cup {clerk'[d].fk : d \in Busies(o)'}
          \cup (IF worker.pc = "mint" /\ worker.order = o THEN {worker.fk} ELSE {})
    BY DEF Loaded
  <2>3. QED
    BY <1>5, <2>1, <2>2
<1>7. QED
  BY <1>1, <1>2, <1>3, <1>4, <1>6

(* The two requests that go on: with a credential to attach, or to the audit. *)
Minting(c, n) == [clerk[c] EXCEPT !.pc = "attach", !.cred = n]
Auditing(c) == [clerk[c] EXCEPT !.pc = "audit", !.saw = "fulfilled"]

LEMMA GoingOn ==
  ASSUME TypeOK, NEW c \in Clerks, NEW n
  PROVE  /\ Minting(c, n).pc = "attach" /\ Minting(c, n).cred = n
         /\ Minting(c, n).order = clerk[c].order /\ Minting(c, n).fk = clerk[c].fk
         /\ Minting(c, n).op = clerk[c].op
         /\ Auditing(c).pc = "audit" /\ Auditing(c).order = clerk[c].order
         /\ Auditing(c).fk = clerk[c].fk
<1>1. clerk[c] \in ClerkState
  BY DEF TypeOK
<1>2. QED
  BY <1>1 DEF Minting, Auditing, ClerkState

(* The job ends, or goes on to the refund. *)
LEMMA JobEnds ==
  ASSUME NEW o \in Orders, worker'.pc # "mint", clerk' = clerk
  PROVE  /\ Job(o)' = {}
         /\ Loaded(o)' \subseteq Loaded(o) \cup {fk'[o]}
         /\ NobodyElse(o, Clerks)
BY DEF Job, Loaded, Busies, NobodyElse, Pending

(* How a job leaves its minting when it neither settles nor falls over.      *)
LEMMA JobOver ==
  ASSUME worker \in WorkerState,
         \/ worker' = IdleWorker \/ worker' = [worker EXCEPT !.pc = "record"]
         \/ worker' = [worker EXCEPT !.pc = "refund", !.saw = "failed_unfulfilled"]
  PROVE  worker'.pc # "mint"
<1>1. CASE worker' = IdleWorker
  BY <1>1 DEF IdleWorker
<1>2. CASE worker' = [worker EXCEPT !.pc = "record"]
  BY <1>2 DEF WorkerState
<1>3. CASE worker' = [worker EXCEPT !.pc = "refund", !.saw = "failed_unfulfilled"]
  BY <1>3 DEF WorkerState
<1>4. QED
  BY <1>1, <1>2, <1>3

LEMMA WorkerTouches ==
  ASSUME IInv, WorkerStep, NEW o \in Orders PROVE Touches(o)
<1> USE DEF IInv, TypeOK, rows, money, WorkerState, IdleWorker
<1> DEFINE p == worker.order
<1>0. worker.pc # "idle" => p \in Orders
  BY ActorsHaveOrders
<1>1. CASE WorkerTake
  <2>1. UNCHANGED <<minted, active, fk, clerk>>
    BY <1>1 DEF WorkerTake
  <2>2. CASE worker' = worker
    BY <2>1, <2>2, UntouchedQuiet DEF Touches
  <2>3. CASE worker' # worker
    <3>1. /\ worker'.pc = "mint" /\ worker'.job = <<>> /\ worker'.fk = fk[worker'.order]
      BY <1>1, <2>3 DEF WorkerTake
    <3>2. Job(o)' = {}
      BY <3>1 DEF Job
    <3>3. Loaded(o)' \subseteq Loaded(o)
      BY <2>1, <3>1 DEF Loaded, Busies
    <3>4. QED
      BY <2>1, <3>2, <3>3 DEF Touches, Quiet, Unloaded, NobodyElse, Pending
  <2>4. QED
    BY <2>2, <2>3
<1>2. CASE WorkerMint
  <2>1. /\ UNCHANGED <<fk, clerk>> /\ p \in Orders /\ worker.pc = "mint"
        /\ minted' = [minted EXCEPT ![p] = minted[p] + 1]
        /\ active' = [active EXCEPT ![p] = active[p] \cup {minted[p] + 1}]
        /\ worker' = [worker EXCEPT !.job = Append(worker.job, minted[p] + 1)]
    BY <1>0, <1>2 DEF WorkerMint, Mint
  <2>2. /\ worker'.pc = "mint" /\ worker'.order = p /\ worker'.fk = worker.fk
        /\ worker'.job = Append(worker.job, minted[p] + 1)
    BY <2>1
  <2>3. Loaded(o)' = Loaded(o) /\ NobodyElse(o, Clerks)
    BY <2>1, <2>2 DEF Loaded, Busies, NobodyElse, Pending
  <2>4. CASE o = p
    <3>1. Job(o)' \subseteq Job(o) \cup {minted[o] + 1}
      <4>1. worker.job \in Seq(Nat) /\ minted[o] + 1 \in Nat
        OBVIOUS
      <4>2. \A i \in 1 .. Len(worker'.job) :
              \/ i \in 1 .. Len(worker.job) /\ worker'.job[i] = worker.job[i]
              \/ worker'.job[i] = minted[o] + 1
        BY <2>2, <2>4, <4>1
      <4>3. Job(o) = {worker.job[i] : i \in 1 .. Len(worker.job)}
        BY <2>1, <2>4 DEF Job
      <4>4. Job(o)' = {worker'.job[i] : i \in 1 .. Len(worker'.job)}
        BY <2>2, <2>4 DEF Job
      <4>5. QED
        BY <4>2, <4>3, <4>4
    <3>2. QED
      BY <2>1, <2>3, <2>4, <3>1 DEF Touches, Mints, Unloaded
  <2>5. CASE o # p
    <3>1. Job(o)' = {}
      BY <2>2, <2>5 DEF Job
    <3>2. QED
      BY <2>1, <2>3, <2>5, <3>1 DEF Touches, Quiet, Unloaded
  <2>6. QED
    BY <2>4, <2>5
<1>3. CASE WorkerSettle
  <2>1. /\ UNCHANGED <<minted, active, clerk>> /\ worker'.pc # "mint" /\ p \in Orders
        /\ worker.pc = "mint" /\ Len(worker.job) = Quantity
        /\ fk' = [fk EXCEPT ![p] = worker.job[Quantity]]
    BY <1>0, <1>3 DEF WorkerSettle
  <2>2. /\ Job(o)' = {} /\ Loaded(o)' \subseteq Loaded(o) \cup {fk'[o]}
        /\ NobodyElse(o, Clerks)
    BY <2>1, JobEnds
  <2>3. CASE o = p
    <3>1. Quantity \in 1 .. Len(worker.job)
      BY <2>1, FulfillmentAssumption
    <3>2. fk'[o] \in Job(o)
      BY <2>1, <2>3, <3>1 DEF Job
    <3>3. QED
      BY <2>1, <2>2, <3>2 DEF Touches, Adopts
  <2>4. CASE o # p
    <3>1. fk'[o] = fk[o] /\ fk[o] \in Loaded(o)
      BY <2>1, <2>4 DEF Loaded
    <3>2. QED
      BY <2>1, <2>2, <3>1 DEF Touches, Quiet, Unloaded
  <2>5. QED
    BY <2>3, <2>4
<1>4. CASE WorkerOtherError
  <2>1. /\ UNCHANGED <<minted, fk, clerk>> /\ worker'.pc # "mint" /\ worker.pc = "mint"
        /\ active' = [active EXCEPT ![p] = active[p] \ {worker.fk}]
    BY <1>4 DEF WorkerOtherError, Raises
  <2>2. /\ Job(o)' = {} /\ Loaded(o)' \subseteq Loaded(o) \cup {fk'[o]}
        /\ NobodyElse(o, Clerks) /\ fk[o] \in Loaded(o)
    BY <2>1, JobEnds DEF Loaded
  <2>3. active'[o] \subseteq active[o] /\ active[o] \ active'[o] \subseteq Loaded(o)
    BY <2>1 DEF Loaded
  <2>4. QED
    BY <2>1, <2>2, <2>3 DEF Touches, Quiet, Unloaded
<1>5. CASE WorkerFailsEarly \/ WorkerProviderFails \/ WorkerRefund \/ WorkerRecordRefund
             \/ WorkerCrash
  <2>1. UNCHANGED <<minted, active, fk, clerk>>
    BY <1>5, Zenon DEF WorkerFailsEarly, WorkerProviderFails, WorkerRefund,
                WorkerRecordRefund, WorkerCrash, rows
  <2>2. worker'.pc # "mint"
    <3>1. \/ worker' = IdleWorker \/ worker' = [worker EXCEPT !.pc = "record"]
          \/ worker' = [worker EXCEPT !.pc = "refund", !.saw = "failed_unfulfilled"]
      BY <1>5, Zenon DEF WorkerFailsEarly, WorkerProviderFails, WorkerRefund,
                  WorkerRecordRefund, WorkerCrash, Raises
    <3>2. QED
      BY <3>1, JobOver
  <2>3. /\ Job(o)' = {} /\ Loaded(o)' \subseteq Loaded(o) \cup {fk'[o]}
        /\ NobodyElse(o, Clerks) /\ fk[o] \in Loaded(o)
    BY <2>2, <2>1, JobEnds DEF Loaded
  <2>4. QED
    BY <2>1, <2>3 DEF Touches, Quiet, Unloaded
<1>6. QED
  BY <1>1, <1>2, <1>3, <1>4, <1>5 DEF WorkerStep, WorkerProgress

LEMMA ClerkTouches ==
  ASSUME IInv, NEW c \in Clerks, ClerkStep(c), NEW o \in Orders PROVE Touches(o)
<1> USE DEF IInv, TypeOK, rows, money, actors, Busy
<1>0. fk[o] \in Loaded(o)
  BY DEF Loaded
<1>1. ASSUME NEW p \in Orders,
             \/ AdminRefund(c, p) \/ OpsRefund(c, p) \/ Reprocess(c, p)
             \/ Refulfil(c, p)
      PROVE  Touches(o)
  <2>1. PICK request :
          /\ clerk' = [clerk EXCEPT ![c] = request]
          /\ request.pc \in {"record", "mint"} /\ request.fk = fk[request.order]
    BY <1>1 DEF AdminRefund, OpsRefund, Reprocess, Refulfil
  <2>2. UNCHANGED <<minted, active, fk, worker>>
    BY <1>1, Zenon DEF AdminRefund, OpsRefund, Reprocess, Refulfil, rows
  <2>3. /\ clerk'[c].pc \in {"record", "mint"} /\ Job(o)' = Job(o)
        /\ Loaded(o)' \subseteq Loaded(o) \cup {fk'[o]}
        /\ ~Pending(c, o)' => NobodyElse(o, Clerks)
    BY <2>1, <2>2, ClerkMoves
  <2>4. ~Pending(c, o)'
    BY <2>3 DEF Pending
  <2>5. QED
    BY <1>0, <2>2, <2>3, <2>4 DEF Touches, Quiet, Unloaded
<1>2. CASE StaffMint(c)
  <2> DEFINE p == clerk[c].order
             n == minted[p] + 1
  <2>0. p \in Orders /\ clerk[c].pc = "mint"
    BY <1>2 DEF StaffMint, ClerksHaveOrders
  <2>1. /\ UNCHANGED <<fk, worker>> /\ minted' = [minted EXCEPT ![p] = n]
        /\ clerk' = [clerk EXCEPT ![c] = Minting(c, n)]
    BY <1>2, <2>0 DEF StaffMint, Mint, Minting
  <2>2. /\ active'[p] \in {active[p] \cup {n}, (active[p] \ {clerk[c].fk}) \cup {n}}
        /\ \A q \in Orders \ {p} : active'[q] = active[q]
    BY <1>2, <2>0, <2>1 DEF StaffMint
  <2>3. /\ clerk'[c].pc = "attach" /\ clerk'[c].order = p /\ clerk'[c].cred = n
        /\ Job(o)' = Job(o) /\ Loaded(o)' \subseteq Loaded(o) \cup {fk'[o]}
        /\ NobodyElse(o, Clerks \ {c}) /\ (~Pending(c, o)' => NobodyElse(o, Clerks))
    <3> DEFINE next == Minting(c, n)
    <3>1. /\ next.pc = "attach" /\ next.order = p /\ next.cred = n
          /\ next.fk = clerk[c].fk
      BY GoingOn
    <3>2. clerk' = [clerk EXCEPT ![c] = next] /\ clerk[c].pc # "idle" /\ worker' = worker
      BY <2>0, <2>1
    <3> HIDE DEF next
    <3>3. /\ clerk'[c] = next /\ Job(o)' = Job(o)
          /\ Loaded(o)' \subseteq Loaded(o) \cup {fk'[o]}
          /\ NobodyElse(o, Clerks \ {c}) /\ (~Pending(c, o)' => NobodyElse(o, Clerks))
      BY <3>1, <3>2, ClerkMoves
    <3>4. QED
      BY <3>1, <3>3
  <2>4. CASE o = p
    <3>1. Pending(c, o)' /\ clerk'[c].cred = minted[o] + 1
      BY <2>3, <2>4 DEF Pending
    <3>2. clerk[c].fk \in Loaded(o)
      BY <2>0, <2>4 DEF Loaded, Busies
    <3>3. /\ active'[o] \subseteq active[o] \cup {n} /\ n \in active'[o]
          /\ active[o] \ active'[o] \subseteq Loaded(o)
      BY <2>2, <2>4, <3>2
    <3>4. QED
      BY <1>0, <2>1, <2>3, <2>4, <3>1, <3>3 DEF Touches, Mints, Unloaded
  <2>5. CASE o # p
    <3>1. NobodyElse(o, Clerks)
      BY <2>3, <2>5 DEF Pending
    <3>2. QED
      BY <1>0, <2>1, <2>2, <2>3, <2>5, <3>1 DEF Touches, Quiet, Unloaded
  <2>6. QED
    BY <2>4, <2>5
<1>3. ASSUME NEW p \in Orders, CreateDirect(c, p) PROVE Touches(o)
  <2>1. /\ UNCHANGED <<fk, worker, clerk>>
        /\ minted' = [minted EXCEPT ![p] = minted[p] + 1]
        /\ active' = [active EXCEPT ![p] = active[p] \cup {minted[p] + 1}]
    BY <1>3 DEF CreateDirect, Mint
  <2>2. Loaded(o)' = Loaded(o) /\ Job(o)' = Job(o) /\ NobodyElse(o, Clerks)
    BY <2>1 DEF Loaded, Busies, Job, NobodyElse, Pending
  <2>3. QED
    BY <2>1, <2>2 DEF Touches, Mints, Quiet, Unloaded
<1>4. ASSUME NEW p \in Orders, Cancel(c, p) PROVE Touches(o)
  <2>1. /\ UNCHANGED <<minted, fk, worker, clerk>>
        /\ active' = [active EXCEPT ![p] = active[p] \ {fk[p]}]
    BY <1>4 DEF Cancel
  <2>2. Loaded(o)' = Loaded(o) /\ Job(o)' = Job(o) /\ NobodyElse(o, Clerks)
    BY <2>1 DEF Loaded, Busies, Job, NobodyElse, Pending
  <2>3. QED
    BY <1>0, <2>1, <2>2 DEF Touches, Quiet, Unloaded
<1>5. ASSUME NEW p \in Orders,
             CreateDirectUndelivered(c, p) \/ ReportDead(c, p) \/ EditStatus(c, p)
      PROVE  Touches(o)
  BY <1>5, UntouchedQuiet DEF Touches, CreateDirectUndelivered, ReportDead, EditStatus
<1>6. CASE \/ RecordRefund(c) \/ ReprocessFails(c) \/ RefulfilFails(c)
           \/ ReprocessAudit(c) \/ ClerkCrash(c)
  <2>1. /\ clerk' = [clerk EXCEPT ![c] = IdleClerk] /\ UNCHANGED <<minted, fk, worker>>
        /\ clerk[c].pc # "idle"
    <3>1. CASE RecordRefund(c)
      BY <3>1 DEF RecordRefund
    <3>2. CASE ReprocessFails(c)
      BY <3>2 DEF ReprocessFails
    <3>3. CASE RefulfilFails(c) \/ ReprocessAudit(c) \/ ClerkCrash(c)
      BY <3>3, Zenon DEF RefulfilFails, ReprocessAudit, ClerkCrash, rows
    <3>4. QED
      BY <1>6, <3>1, <3>2, <3>3
  <2>2. \/ active' = active
        \/ active' = [active EXCEPT ![clerk[c].order] = active[clerk[c].order] \ {clerk[c].fk}]
    BY <1>6 DEF RecordRefund, ReprocessFails, RefulfilFails, ReprocessAudit,
         ClerkCrash
  <2>3. /\ clerk'[c] = IdleClerk /\ Job(o)' = Job(o)
        /\ Loaded(o)' \subseteq Loaded(o) \cup {fk'[o]}
        /\ ~Pending(c, o)' => NobodyElse(o, Clerks)
    <3>1. IdleClerk.pc = "idle"
      BY DEF IdleClerk
    <3>2. QED
      BY <2>1, <3>1, ClerkMoves
  <2>4. ~Pending(c, o)'
    BY <2>3 DEF Pending, IdleClerk
  <2>5. clerk[c].order = o => clerk[c].fk \in Loaded(o)
    BY <2>1 DEF Loaded, Busies
  <2>6. active'[o] \subseteq active[o] /\ active[o] \ active'[o] \subseteq Loaded(o)
    BY <2>2, <2>5
  <2>7. QED
    BY <1>0, <2>1, <2>3, <2>4, <2>6 DEF Touches, Quiet, Unloaded
<1>7. CASE Attach(c)
  <2> DEFINE p == clerk[c].order
  <2>1. /\ UNCHANGED <<minted, active, worker>>
        /\ clerk[c].pc = "attach" /\ fk' = [fk EXCEPT ![p] = clerk[c].cred]
    BY <1>7 DEF Attach
  <2>2. PICK next \in {IdleClerk, Auditing(c)} : clerk' = [clerk EXCEPT ![c] = next]
    BY <1>7 DEF Attach, Auditing
  <2>3. /\ ~Pending(c, o)' /\ Job(o)' = Job(o)
        /\ Loaded(o)' \subseteq Loaded(o) \cup {fk'[o]}
        /\ NobodyElse(o, Clerks \ {c}) /\ NobodyElse(o, Clerks)
    <3>1. /\ next.pc # "attach"
          /\ \/ next.pc = "idle"
             \/ next.order = clerk[c].order /\ next.fk = clerk[c].fk
      <4>1. CASE next = IdleClerk
        BY <4>1 DEF IdleClerk
      <4>2. CASE next = Auditing(c)
        BY <4>2, GoingOn
      <4>3. QED
        BY <2>2, <4>1, <4>2
    <3>2. /\ clerk'[c] = next /\ Job(o)' = Job(o)
          /\ Loaded(o)' \subseteq Loaded(o) \cup {fk'[o]}
          /\ NobodyElse(o, Clerks \ {c}) /\ (~Pending(c, o)' => NobodyElse(o, Clerks))
      BY <2>1, <2>2, <3>1, ClerkMoves
    <3>3. QED
      BY <3>1, <3>2 DEF Pending
  <2>4. CASE o = p
    <3>1. Pending(c, o) /\ fk'[o] = clerk[c].cred
      BY <2>1, <2>4 DEF Pending
    <3>2. QED
      BY <2>1, <2>3, <3>1 DEF Touches, Adopts
  <2>5. CASE o # p
    BY <1>0, <2>1, <2>3, <2>5 DEF Touches, Quiet, Unloaded
  <2>6. QED
    BY <2>4, <2>5
<1>8. QED
  BY <1>1, <1>2, <1>3, <1>4, <1>5, <1>6, <1>7 DEF ClerkStep, ClerkProgress

LEMMA NextTouches ==
  ASSUME IInv, [Next]_vars, NEW o \in Orders PROVE Touches(o)
<1>1. CASE UNCHANGED vars
  BY <1>1, UntouchedQuiet DEF vars, Touches
<1>2. CASE GatewayStep \/ CronStep \/ \E h \in Handlers : WebhookStep(h)
  <2>1. UNCHANGED <<minted, active, fk, worker, clerk>>
    BY <1>2 DEF GatewayStep, CommitCheckout, Charge, GoStale, WebhookStep,
         WebhookProgress, WebhookReceive, WebhookCommitPaid, WebhookEnqueue,
         WebhookMark, WebhookCrash, CronStep, Expire, RetrySelect, RetryRefund,
         RetryRecord, SweepSelect, SweepVerify, SweepEnqueue, CronCrash, rows, actors
  <2>2. QED
    BY <2>1, UntouchedQuiet DEF Touches
<1>3. QED
  BY <1>1, <1>2, WorkerTouches, ClerkTouches DEF Next

LEMMA NextHands ==
  ASSUME IInv, IInv', Hands, [Next]_vars PROVE Hands'
<1> SUFFICES ASSUME NEW o \in Orders PROVE HandsOf(o)'
  BY DEF Hands
<1>1. TypeOK /\ TypeOK' /\ HandsOf(o)
  BY DEF IInv, Hands
<1>2. QED
  BY <1>1, NextTouches, QuietHands, MintsHands, AdoptsHands DEF Touches

-----------------------------------------------------------------------------
(* Without staff the worker alone fulfils, from working credentials.         *)
FulfilInv ==
  /\ worker.pc = "mint" =>
       /\ status[worker.order] \notin Live
       /\ \A i, j \in 1 .. Len(worker.job) : worker.job[i] = worker.job[j] => i = j
  /\ FulfilledOrdersAreComplete

LEMMA AsManyAsMinted ==
  ASSUME NEW S, NEW n \in Nat, NEW m \in Nat, S \subseteq 1 .. m,
         NEW s \in Seq(Nat), Len(s) = n, \A i \in 1 .. n : s[i] \in S,
         \A i, j \in 1 .. n : s[i] = s[j] => i = j
  PROVE  Cardinality(S) \in Nat /\ Cardinality(S) >= n
<1> DEFINE f == [i \in 1 .. n |-> s[i]]
<1>1. IsFiniteSet(S)
  <2>1. IsFiniteSet(1 .. m) /\ S \in SUBSET (1 .. m)
    BY FS_Interval
  <2>2. QED
    BY <2>1, FS_Subset
<1>2. IsFiniteSet(1 .. n) /\ Cardinality(1 .. n) = n
  BY FS_Interval
<1>3. f \in Injection(1 .. n, S)
  BY DEF Injection, IsInjective
<1> HIDE DEF f
<1>4. Cardinality(1 .. n) <= Cardinality(S)
  BY <1>1, <1>3, FS_Injection
<1>5. Cardinality(S) \in Nat
  BY <1>1, FS_CardinalityType
<1>6. QED
  BY <1>2, <1>4, <1>5

LEMMA FulfilInit == Init => FulfilInv
BY DEF Init, IdleWorker, FulfilInv, FulfilledOrdersAreComplete

LEMMA FulfilStep ==
  ASSUME Clerks = {}, IInv, IInv', Hands, Hands', FulfilInv, [Next]_vars
  PROVE  FulfilInv'
<1> USE DEF IInv, TypeOK
(* Who leaves the credentials alone, and writes no live status. *)
<1>1. ASSUME UNCHANGED <<active, worker, edited>>,
             \A o \in Orders : status'[o] \in Live => status'[o] = status[o]
      PROVE  FulfilInv'
  <2>1. worker.pc = "mint" => worker.order \in Orders
    BY ActorsHaveOrders
  <2>2. FulfilledOrdersAreComplete'
    BY <1>1 DEF FulfilInv, FulfilledOrdersAreComplete, Live
  <2>3. QED
    BY <1>1, <2>1, <2>2 DEF FulfilInv
<1>2. CASE WorkerStep
  <2> USE DEF rows, money
  <2>1. ASSUME worker'.pc # "mint", edited' = edited,
               \A o \in Orders : status'[o] = "fulfilled" =>
                 status[o] = "fulfilled" /\ active'[o] = active[o]
        PROVE  FulfilInv'
    BY <2>1 DEF FulfilInv, FulfilledOrdersAreComplete
  <2>2. CASE WorkerTake
    <3>1. FulfilledOrdersAreComplete'
      BY <2>2 DEF WorkerTake, FulfilInv, FulfilledOrdersAreComplete
    <3>2. worker' = worker \/ (status[worker'.order] \notin Live /\ worker'.job = <<>>)
      BY <2>2 DEF WorkerTake
    <3>3. status' = status
      BY <2>2 DEF WorkerTake
    <3>4. QED
      BY <3>1, <3>2, <3>3 DEF FulfilInv
  <2>3. CASE WorkerMint
    <3> DEFINE p == worker.order
    <3>1. /\ status' = status /\ edited' = edited /\ p \in Orders /\ worker.pc = "mint"
          /\ active' = [active EXCEPT ![p] = active[p] \cup {minted[p] + 1}]
          /\ worker' = [worker EXCEPT !.job = Append(worker.job, minted[p] + 1)]
      BY <2>3, ActorsHaveOrders DEF WorkerMint, Mint
    <3>2. /\ worker'.pc = "mint" /\ worker'.order = p
          /\ worker'.job = Append(worker.job, minted[p] + 1)
      BY <3>1 DEF WorkerState
    <3>3. \A i \in 1 .. Len(worker.job) : worker.job[i] # minted[p] + 1
      <4>1. HandsOf(p) /\ minted[p] \in Nat
        BY <3>1 DEF Hands
      <4>2. TAKE i \in 1 .. Len(worker.job)
      <4>3. worker.job[i] \in Job(p)
        BY <3>1 DEF Job
      <4>4. QED
        BY <4>1, <4>3 DEF HandsOf
    <3>4. worker.job \in Seq(Nat) /\ minted[p] + 1 \in Nat
      BY <3>1 DEF WorkerState
    <3>5. \A i, j \in 1 .. Len(worker'.job) : worker'.job[i] = worker'.job[j] => i = j
      <4>1. /\ Len(worker'.job) = Len(worker.job) + 1 /\ Len(worker.job) \in Nat
            /\ \A i \in 1 .. Len(worker.job) : worker'.job[i] = worker.job[i]
            /\ worker'.job[Len(worker.job) + 1] = minted[p] + 1
        BY <3>2, <3>4
      <4>2. \A i, j \in 1 .. Len(worker.job) : worker.job[i] = worker.job[j] => i = j
        BY <3>1 DEF FulfilInv
      <4>3. \A i \in 1 .. Len(worker'.job) :
              i \in 1 .. Len(worker.job) \/ i = Len(worker.job) + 1
        BY <4>1
      <4>4. QED
        BY <3>3, <4>1, <4>2, <4>3
    <3>6. FulfilledOrdersAreComplete'
      <4>1. status[p] # "fulfilled"
        BY <3>1 DEF FulfilInv, Live
      <4>2. QED
        BY <3>1, <4>1 DEF FulfilInv, FulfilledOrdersAreComplete
    <3>7. QED
      BY <3>1, <3>2, <3>5, <3>6 DEF FulfilInv
  <2>4. CASE WorkerSettle
    <3> DEFINE p == worker.order
    <3>1. /\ UNCHANGED <<active, edited, minted>> /\ p \in Orders /\ worker.pc = "mint"
          /\ status' = [status EXCEPT ![p] = "fulfilled"]
          /\ Len(worker.job) = Quantity /\ worker'.pc # "mint"
      BY <2>4, ActorsHaveOrders DEF WorkerSettle, IdleWorker
    <3>2. \A i \in 1 .. Quantity : worker.job[i] \in active[p]
      <4>1. TAKE i \in 1 .. Quantity
      <4>2. worker.job[i] \in Job(p)
        BY <3>1 DEF Job
      <4>3. QED
        BY <3>1, <4>2 DEF Hands, HandsOf
    <3>3. active[p] \subseteq 1 .. minted[p] /\ minted[p] \in Nat
      BY <3>1 DEF Hands, HandsOf
    <3>4. \A i, j \in 1 .. Quantity : worker.job[i] = worker.job[j] => i = j
      BY <3>1 DEF FulfilInv
    <3>5. Cardinality(active[p]) >= Quantity
      <4>1. worker.job \in Seq(Nat) /\ Quantity \in Nat
        BY FulfillmentAssumption DEF WorkerState
      <4>2. QED
        BY <3>1, <3>2, <3>3, <3>4, <4>1, AsManyAsMinted
    <3>6. QED
      BY <3>1, <3>5 DEF FulfilInv, FulfilledOrdersAreComplete
  <2>5. CASE WorkerOtherError
    <3> DEFINE p == worker.order
    <3>1. /\ edited' = edited /\ worker'.pc # "mint" /\ p \in Orders /\ worker.pc = "mint"
          /\ active' = [active EXCEPT ![p] = active[p] \ {worker.fk}]
          /\ status' = [status EXCEPT ![p] = Written(p, worker.saw, "failed_manual_review")]
      BY <2>5, ActorsHaveOrders DEF WorkerOtherError, IdleWorker, Raises
    <3>2. status'[p] # "fulfilled"
      BY <3>1 DEF FulfilInv, Live, Written
    <3>3. QED
      BY <2>1, <3>1, <3>2
  <2>6. CASE WorkerFailsEarly \/ WorkerProviderFails \/ WorkerRefund
               \/ WorkerRecordRefund \/ WorkerCrash
    <3>1. UNCHANGED <<active, edited>>
      BY <2>6, Zenon DEF WorkerFailsEarly, WorkerProviderFails, WorkerRefund,
                  WorkerRecordRefund, WorkerCrash, rows
    <3>2. worker'.pc # "mint"
      <4>1. \/ worker' = IdleWorker \/ worker' = [worker EXCEPT !.pc = "record"]
            \/ worker' = [worker EXCEPT !.pc = "refund", !.saw = "failed_unfulfilled"]
        BY <2>6, Zenon DEF WorkerFailsEarly, WorkerProviderFails, WorkerRefund,
                    WorkerRecordRefund, WorkerCrash, Raises
      <4>2. QED
        BY <4>1, JobOver
    <3>3. ASSUME NEW o \in Orders, status'[o] = "fulfilled" PROVE status[o] = "fulfilled"
      <4>1. CASE WorkerProviderFails
        BY <3>3, <4>1 DEF WorkerProviderFails, Written
      <4>2. CASE WorkerFailsEarly
        BY <3>3, <4>2 DEF WorkerFailsEarly
      <4>3. CASE WorkerRefund \/ WorkerRecordRefund \/ WorkerCrash
        BY <3>3, <4>3 DEF WorkerRefund, WorkerRecordRefund, WorkerCrash
      <4>4. QED
        BY <2>6, <4>1, <4>2, <4>3
    <3>4. QED
      BY <2>1, <3>1, <3>2, <3>3
  <2>7. QED
    BY <1>2, <2>2, <2>3, <2>4, <2>5, <2>6 DEF WorkerStep, WorkerProgress
<1>3. CASE GatewayStep \/ CronStep
  <2>1. UNCHANGED <<active, worker, edited>>
    BY <1>3 DEF GatewayStep, CommitCheckout, Charge, GoStale, CronStep, Expire,
         RetrySelect, RetryRefund, RetryRecord, SweepSelect, SweepVerify, SweepEnqueue,
         CronCrash, rows, actors
  <2>2. \A o \in Orders : status'[o] \in Live => status'[o] = status[o]
    BY <1>3 DEF GatewayStep, CommitCheckout, Charge, GoStale, CronStep, Expire,
         RetrySelect, RetryRefund, RetryRecord, SweepSelect, SweepVerify, SweepEnqueue,
         CronCrash, rows, actors, Live
  <2>3. QED
    BY <1>1, <2>1, <2>2
<1>4. ASSUME NEW h \in Handlers, WebhookStep(h) PROVE FulfilInv'
  <2>1. UNCHANGED <<active, worker, edited>>
    BY <1>4 DEF WebhookStep, WebhookProgress, WebhookReceive, WebhookCommitPaid,
         WebhookEnqueue, WebhookMark, WebhookCrash, rows
  <2>2. \A o \in Orders : status'[o] \in Live => status'[o] = status[o]
    BY <1>4 DEF WebhookStep, WebhookProgress, WebhookReceive, WebhookCommitPaid,
         WebhookEnqueue, WebhookMark, WebhookCrash, rows, Live, Written
  <2>3. QED
    BY <1>1, <2>1, <2>2
<1>5. CASE UNCHANGED vars
  BY <1>1, <1>5 DEF vars
<1>6. QED
  BY <1>2, <1>3, <1>4, <1>5 DEF Next

(* The automatic path never reports a partial create as fulfilled, for any   *)
(* quantity, whatever fails or dies and however often a job runs.            *)
THEOREM FulfilledAreComplete ==
  ASSUME Clerks = {} PROVE Spec => []FulfilledOrdersAreComplete
<1>1. Init => IInv /\ Hands /\ FulfilInv
  BY InitIInv, HandsInit, FulfilInit
<1>2. IInv /\ Hands /\ FulfilInv /\ [Next]_vars => (IInv /\ Hands /\ FulfilInv)'
  BY NextIInv, NextHands, FulfilStep
<1>3. FulfilInv => FulfilledOrdersAreComplete
  BY DEF FulfilInv
<1>4. QED
  BY <1>1, <1>2, <1>3, PTL DEF Spec

-----------------------------------------------------------------------------
(* With staff at work: a live order's credential works or is about to be     *)
(* replaced, and a job that runs for an order that has become live meanwhile *)
(* did not load the credential the order has now.                            *)
Replaces(c, o) == Pending(c, o) /\ clerk[c].op = "refulfil"
Served(o) == status[o] \in Live /\ ~edited[o] =>
  fk[o] \in active[o] \/ \E c \in Clerks : Replaces(c, o)
Parted(o) ==
  worker.pc = "mint" /\ worker.order = o /\ status[o] \in Live /\ ~edited[o] =>
    fk[o] # worker.fk
LiveInv == \A o \in Orders : Served(o) /\ Parted(o)

(* What a step may do to an order without attaching a credential to it.      *)
Unswapped(o) ==
  /\ status'[o] \in Live /\ ~edited'[o] =>
       /\ status[o] \in Live /\ ~edited[o]
       /\ fk[o] \in active[o] \ active'[o] => \E c \in Clerks : Replaces(c, o)'
  /\ \A c \in Clerks : Replaces(c, o) => Replaces(c, o)'
JobStays(o) ==
  worker'.pc = "mint" /\ worker'.order = o =>
    \/ worker.pc = "mint" /\ worker.order = o /\ worker'.fk = worker.fk
    \/ status'[o] \notin Live
Calm(o) ==
  /\ status'[o] \in Live /\ ~edited'[o] => ~edited[o]
  /\ fk'[o] = fk[o] => Unswapped(o)
  /\ JobStays(o)

(* Nobody touches credentials, and nobody writes a live status. *)
LEMMA IdleCalm ==
  ASSUME TypeOK, NEW o \in Orders, UNCHANGED <<worker, clerk>>,
         active[o] \subseteq active'[o], edited[o] => edited'[o],
         status'[o] \in Live /\ ~edited'[o] => status[o] \in Live
  PROVE  Calm(o)
BY DEF TypeOK, Calm, Unswapped, JobStays, Replaces, Pending

LEMMA GatewayCalm ==
  ASSUME IInv, GatewayStep \/ CronStep \/ (\E h \in Handlers : WebhookStep(h)),
         NEW o \in Orders
  PROVE  Calm(o)
<1> USE DEF IInv, TypeOK
<1>1. UNCHANGED <<active, worker, clerk, edited>>
  BY DEF GatewayStep, CommitCheckout, Charge, GoStale, WebhookStep,
       WebhookProgress, WebhookReceive, WebhookCommitPaid, WebhookEnqueue,
       WebhookMark, WebhookCrash, CronStep, Expire, RetrySelect, RetryRefund,
       RetryRecord, SweepSelect, SweepVerify, SweepEnqueue, CronCrash, rows, actors
<1>2. status'[o] \in Live => status[o] \in Live
  <2>1. CASE GatewayStep \/ CronStep
    BY <2>1 DEF GatewayStep, CommitCheckout, Charge, GoStale, CronStep, Expire,
         RetrySelect, RetryRefund, RetryRecord, SweepSelect, SweepVerify, SweepEnqueue,
         CronCrash, rows, actors, Live
  <2>2. ASSUME NEW h \in Handlers, WebhookStep(h) PROVE <1>2
    BY <2>2 DEF WebhookStep, WebhookProgress, WebhookReceive, WebhookCommitPaid,
         WebhookEnqueue, WebhookMark, WebhookCrash, rows, Live, Written
  <2>3. QED
    BY <2>1, <2>2
<1>3. QED
  BY <1>1, <1>2, IdleCalm

LEMMA WorkerCalm ==
  ASSUME IInv, Hands, LiveInv, WorkerStep, NEW o \in Orders PROVE Calm(o)
<1> USE DEF IInv, TypeOK, rows, money
<1> DEFINE p == worker.order
<1>0. worker.pc # "idle" => p \in Orders
  BY ActorsHaveOrders
<1>1. /\ clerk' = clerk /\ edited' = edited
      /\ \A c \in Clerks : Replaces(c, o) => Replaces(c, o)'
  <2>1. clerk' = clerk /\ edited' = edited
    BY DEF WorkerStep, WorkerProgress, WorkerTake, WorkerMint, WorkerSettle,
           WorkerFailsEarly, WorkerProviderFails, WorkerOtherError, WorkerRefund,
           WorkerRecordRefund, WorkerCrash
  <2>2. QED
    BY <2>1 DEF Replaces, Pending
<1>2. CASE WorkerTake
  BY <1>1, <1>2 DEF WorkerTake, Calm, Unswapped, JobStays
<1>3. CASE WorkerMint
  <2>1. /\ status' = status /\ p \in Orders
        /\ active' = [active EXCEPT ![p] = active[p] \cup {minted[p] + 1}]
        /\ worker' = [worker EXCEPT !.job = Append(worker.job, minted[p] + 1)]
    BY <1>0, <1>3 DEF WorkerMint, Mint
  <2>2. /\ worker'.pc = worker.pc /\ worker'.order = p /\ worker'.fk = worker.fk
        /\ active[o] \subseteq active'[o]
    BY <2>1 DEF WorkerState
  <2>3. QED
    BY <1>1, <2>1, <2>2 DEF Calm, Unswapped, JobStays
<1>4. CASE WorkerSettle
  <2>1. /\ active' = active /\ worker'.pc # "mint" /\ p \in Orders
        /\ worker.pc = "mint" /\ Len(worker.job) = Quantity
        /\ fk' = [fk EXCEPT ![p] = worker.job[Quantity]]
        /\ status' = [status EXCEPT ![p] = "fulfilled"]
    BY <1>0, <1>4 DEF WorkerSettle, IdleWorker
  <2>2. o = p => fk'[o] # fk[o]
    <3>1. worker.job[Quantity] \in Job(p)
      <4>1. Quantity \in 1 .. Len(worker.job)
        BY <2>1, FulfillmentAssumption
      <4>2. QED
        BY <2>1, <4>1 DEF Job
    <3>2. worker.job[Quantity] \notin Loaded(p)
      BY <2>1, <3>1 DEF Hands, HandsOf
    <3>3. QED
      BY <2>1, <3>2 DEF Loaded
  <2>3. QED
    BY <1>1, <2>1, <2>2 DEF Calm, Unswapped, JobStays
<1>5. CASE WorkerOtherError
  <2>1. /\ worker'.pc # "mint" /\ worker.pc = "mint" /\ p \in Orders
        /\ active' = [active EXCEPT ![p] = active[p] \ {worker.fk}]
        /\ status' = [status EXCEPT ![p] = Written(p, worker.saw, "failed_manual_review")]
    BY <1>0, <1>5 DEF WorkerOtherError, IdleWorker, Raises
  <2>2. status'[o] \in Live => status'[o] = status[o]
    BY <2>1 DEF Written, Live
  <2>3. ASSUME status'[o] \in Live, ~edited'[o] PROVE fk[o] \notin active[o] \ active'[o]
    BY <1>1, <2>1, <2>2, <2>3 DEF LiveInv, Parted
  <2>4. QED
    BY <1>1, <2>1, <2>2, <2>3 DEF Calm, Unswapped, JobStays
<1>6. CASE WorkerFailsEarly \/ WorkerProviderFails \/ WorkerRefund
             \/ WorkerRecordRefund \/ WorkerCrash
  <2>1. active' = active
    BY <1>6, Zenon DEF WorkerFailsEarly, WorkerProviderFails, WorkerRefund,
                WorkerRecordRefund, WorkerCrash, rows
  <2>2. worker'.pc # "mint"
    <3>1. \/ worker' = IdleWorker \/ worker' = [worker EXCEPT !.pc = "record"]
          \/ worker' = [worker EXCEPT !.pc = "refund", !.saw = "failed_unfulfilled"]
      BY <1>6, Zenon DEF WorkerFailsEarly, WorkerProviderFails, WorkerRefund,
                  WorkerRecordRefund, WorkerCrash, Raises
    <3>2. QED
      BY <3>1, JobOver
  <2>3. status'[o] \in Live => status[o] \in Live
    <3>1. CASE WorkerProviderFails
      BY <3>1 DEF WorkerProviderFails, Written, Live
    <3>2. CASE WorkerFailsEarly
      BY <3>2 DEF WorkerFailsEarly, Live
    <3>3. CASE WorkerRefund \/ WorkerRecordRefund \/ WorkerCrash
      BY <3>3 DEF WorkerRefund, WorkerRecordRefund, WorkerCrash, Live
    <3>4. QED
      BY <1>6, <3>1, <3>2, <3>3
  <2>4. QED
    BY <1>1, <2>1, <2>2, <2>3 DEF Calm, Unswapped, JobStays
<1>7. QED
  BY <1>2, <1>3, <1>4, <1>5, <1>6 DEF WorkerStep, WorkerProgress

LEMMA ClerkCalm ==
  ASSUME "clerk" \notin Faults, IInv, Hands, NEW c \in Clerks, ClerkStep(c),
         NEW o \in Orders
  PROVE  Calm(o)
<1> USE DEF IInv, TypeOK, rows, money, actors, Busy
<1>0. JobStays(o)
  BY ClerksLeaveTheAutomaticPath DEF JobStays
(* A request other than a re-fulfilment about to attach moves. *)
<1>1. ASSUME NEW next, clerk' = [clerk EXCEPT ![c] = next], ~Replaces(c, o)
      PROVE  \A d \in Clerks : Replaces(d, o) => Replaces(d, o)'
  BY <1>1 DEF Replaces, Pending
<1>2. ASSUME NEW p \in Orders,
             \/ AdminRefund(c, p) \/ OpsRefund(c, p) \/ Reprocess(c, p)
             \/ Refulfil(c, p)
      PROVE  Calm(o)
  <2>1. UNCHANGED <<status, active, edited>>
    BY <1>2, Zenon DEF AdminRefund, OpsRefund, Reprocess, Refulfil, rows
  <2>2. PICK request : clerk[c].pc = "idle" /\ clerk' = [clerk EXCEPT ![c] = request]
    BY <1>2 DEF AdminRefund, OpsRefund, Reprocess, Refulfil
  <2>3. \A d \in Clerks : Replaces(d, o) => Replaces(d, o)'
    BY <1>1, <2>2 DEF Replaces, Pending
  <2>4. QED
    BY <1>0, <2>1, <2>3 DEF Calm, Unswapped
<1>3. CASE StaffMint(c)
  <2> DEFINE p == clerk[c].order
             n == minted[p] + 1
  <2>0. p \in Orders /\ clerk[c].pc = "mint"
    BY <1>3 DEF StaffMint, ClerksHaveOrders
  <2>1. /\ UNCHANGED <<status, edited, fk>>
        /\ clerk' = [clerk EXCEPT ![c] = Minting(c, n)]
        /\ o # p => active'[o] = active[o]
        /\ clerk[c].op # "refulfil" => active[o] \subseteq active'[o]
    BY <1>3, <2>0 DEF StaffMint, Mint, Minting
  <2>2. \A d \in Clerks : Replaces(d, o) => Replaces(d, o)'
    BY <1>1, <2>0, <2>1 DEF Replaces, Pending
  <2>3. o = p /\ clerk[c].op = "refulfil" => Replaces(c, o)'
    <3>1. clerk'[c] = Minting(c, n)
      BY <2>1
    <3>2. QED
      BY <3>1, GoingOn DEF Replaces, Pending
  <2>4. QED
    BY <1>0, <2>1, <2>2, <2>3 DEF Calm, Unswapped
<1>4. ASSUME NEW p \in Orders, CreateDirect(c, p) PROVE Calm(o)
  <2>1. /\ UNCHANGED <<worker, clerk, edited>> /\ active[o] \subseteq active'[o]
        /\ status'[o] \in Live => status[o] \in Live
    BY <1>4 DEF CreateDirect, Live
  <2>2. QED
    BY <2>1, IdleCalm
<1>5. ASSUME NEW p \in Orders, Cancel(c, p) PROVE Calm(o)
  <2>1. /\ UNCHANGED <<worker, clerk, edited>> /\ (o # p => active'[o] = active[o])
        /\ status' = [status EXCEPT ![p] = "cancelled"]
    BY <1>5 DEF Cancel
  <2>2. QED
    BY <1>0, <2>1 DEF Calm, Unswapped, Replaces, Pending, Live
<1>6. ASSUME NEW p \in Orders,
             CreateDirectUndelivered(c, p) \/ ReportDead(c, p) \/ EditStatus(c, p)
      PROVE  Calm(o)
  <2>1. UNCHANGED <<worker, clerk, active>>
    BY <1>6 DEF CreateDirectUndelivered, ReportDead, EditStatus
  <2>2. /\ edited[o] => edited'[o]
        /\ status'[o] \in Live /\ ~edited'[o] => status[o] \in Live
    BY <1>6 DEF CreateDirectUndelivered, ReportDead, EditStatus, Live
  <2>3. QED
    BY <2>1, <2>2, IdleCalm
<1>7. CASE RecordRefund(c)
  <2> DEFINE p == clerk[c].order
  <2>1. /\ clerk[c].pc = "record" /\ clerk' = [clerk EXCEPT ![c] = IdleClerk]
        /\ status' = [status EXCEPT ![p] = "refunded"] /\ edited' = edited
        /\ \A q \in Orders \ {p} : active'[q] = active[q]
    BY <1>7 DEF RecordRefund
  <2>2. \A d \in Clerks : Replaces(d, o) => Replaces(d, o)'
    BY <1>1, <2>1 DEF Replaces, Pending
  <2>3. QED
    BY <1>0, <2>1, <2>2 DEF Calm, Unswapped, Live
<1>8. CASE Attach(c)
  <2> DEFINE p == clerk[c].order
  <2>1. /\ clerk[c].pc = "attach"
        /\ UNCHANGED <<active, edited>> /\ fk' = [fk EXCEPT ![p] = clerk[c].cred]
        /\ p # o => status'[o] = status[o]
    BY <1>8 DEF Attach
  <2>2. p # o => \A d \in Clerks : Replaces(d, o) => Replaces(d, o)'
    <3>1. PICK next \in {IdleClerk, Auditing(c)} : clerk' = [clerk EXCEPT ![c] = next]
      BY <1>8 DEF Attach, Auditing
    <3>2. QED
      BY <1>1, <3>1 DEF Replaces, Pending
  <2>3. p = o => fk'[o] # fk[o]
    <3>1. ASSUME p = o PROVE clerk[c].cred \notin Loaded(o)
      BY <2>1, <3>1 DEF Hands, HandsOf, Pending
    <3>2. QED
      BY <2>1, <3>1 DEF Loaded
  <2>4. QED
    BY <1>0, <2>1, <2>2, <2>3 DEF Calm, Unswapped
(* No failure touches a credential or ends a re-fulfilment past its minting. *)
<1>9. CASE ReprocessFails(c) \/ RefulfilFails(c) \/ ReprocessAudit(c)
  <2>1. /\ clerk' = [clerk EXCEPT ![c] = IdleClerk] /\ UNCHANGED <<active, edited>>
        /\ clerk[c].pc # "attach" \/ clerk[c].op # "refulfil"
    BY <1>9 DEF ReprocessFails, RefulfilFails, ReprocessAudit
  <2>2. \A d \in Clerks : Replaces(d, o) => Replaces(d, o)'
    BY <1>1, <2>1 DEF Replaces, Pending
  <2>3. status'[o] \in Live => status[o] \in Live
    BY <1>9 DEF ReprocessFails, RefulfilFails, ReprocessAudit, Written, Live
  <2>4. QED
    BY <1>0, <2>1, <2>2, <2>3 DEF Calm, Unswapped
<1>10. ~ClerkCrash(c)
  BY DEF ClerkCrash
<1>11. QED
  BY <1>2, <1>3, <1>4, <1>5, <1>6, <1>7, <1>8, <1>9, <1>10
     DEF ClerkStep, ClerkProgress

LEMMA LiveInit == Init => LiveInv
BY DEF Init, LiveInv, Served, Parted, Live

LEMMA LiveStep ==
  ASSUME "clerk" \notin Faults, IInv, Hands, LiveInv, [Next]_vars PROVE LiveInv'
<1> SUFFICES ASSUME NEW o \in Orders PROVE Served(o)' /\ Parted(o)'
  BY DEF LiveInv
<1>1. Calm(o)
  <2>1. CASE UNCHANGED vars
    BY <2>1, IdleCalm DEF vars, IInv
  <2>2. QED
    BY <2>1, GatewayCalm, WorkerCalm, ClerkCalm DEF Next
<1>2. Touches(o) /\ HandsOf(o) /\ Served(o) /\ Parted(o)
  BY NextTouches DEF Hands, LiveInv
<1>3. CASE Adopts(o)
  <2>1. fk'[o] \in active'[o] /\ fk'[o] \notin Loaded(o)
    BY <1>2, <1>3 DEF Adopts, HandsOf
  <2>2. Parted(o)'
    <3>1. worker.pc = "mint" /\ worker.order = o => fk'[o] # worker.fk
      BY <2>1 DEF Loaded
    <3>2. QED
      BY <1>1, <3>1 DEF Calm, JobStays, Parted
  <2>3. QED
    BY <2>1, <2>2 DEF Served
<1>4. CASE Quiet(o) \/ Mints(o)
  <2>1. fk'[o] = fk[o] /\ Unswapped(o)
    BY <1>1, <1>4 DEF Quiet, Mints, Calm
  <2>2. Served(o)'
    BY <1>2, <2>1 DEF Served, Unswapped
  <2>3. Parted(o)'
    BY <1>1, <1>2, <2>1 DEF Parted, Unswapped, Calm, JobStays
  <2>4. QED
    BY <2>2, <2>3
<1>5. QED
  BY <1>2, <1>3, <1>4 DEF Touches

(* While no staff or customer request is cut short, a live order that was    *)
(* not edited has a working credential or a re-fulfilment about to attach    *)
(* one, for any number of requests, jobs and orders.                         *)
THEOREM LiveOrdersWork ==
  ASSUME "clerk" \notin Faults PROVE Spec => []LiveOrdersHaveAWorkingCredential
<1>1. Init => IInv /\ Hands /\ LiveInv
  BY InitIInv, HandsInit, LiveInit
<1>2. IInv /\ Hands /\ LiveInv /\ [Next]_vars => (IInv /\ Hands /\ LiveInv)'
  BY NextIInv, NextHands, LiveStep
<1>3. LiveInv => LiveOrdersHaveAWorkingCredential
  BY DEF LiveInv, Served, Replaces, Pending, LiveOrdersHaveAWorkingCredential
<1>4. QED
  BY <1>1, <1>2, <1>3, PTL DEF Spec

-----------------------------------------------------------------------------
(* The credentials of every order behave as CredentialPromise says: each of  *)
(* the three ways a step touches them is a step of the promise.              *)
InHands(o) == Job(o) \cup {clerk[c].cred : c \in {d \in Clerks : Pending(d, o)}}

LEMMA HeldByClerks ==
  ASSUME NEW o \in Orders, NEW c \in Clerks, Pending(c, o)
  PROVE  clerk[c].cred \in InHands(o)
BY DEF InHands

LEMMA HandsWork ==
  ASSUME NEW o \in Orders, HandsOf(o)
  PROVE  \A x \in InHands(o) : x \in active[o] /\ x \notin Loaded(o)
BY DEF InHands, HandsOf

(* What is held after the step was held before, or is the clerk's new one. *)
LEMMA OnlyHolders ==
  ASSUME NEW o \in Orders, NEW D \in SUBSET Clerks, NobodyElse(o, D)
  PROVE  \A x \in InHands(o)' : \/ x \in Job(o)' \/ x \in InHands(o)
                                \/ \E c \in Clerks \ D : Pending(c, o)' /\ x = clerk'[c].cred
<1> SUFFICES ASSUME NEW d \in D, Pending(d, o)' PROVE clerk'[d].cred \in InHands(o)
  BY DEF InHands
<1>1. QED
  BY HeldByClerks DEF NobodyElse

LEMMA QuietKeepsPromise ==
  ASSUME NEW o \in Orders, HandsOf(o), Quiet(o)
  PROVE  /\ InHands(o)' \subseteq InHands(o)
         /\ InHands(o) \subseteq active'[o]
<1>1. Job(o)' \subseteq InHands(o)
  BY DEF Quiet, InHands
<1>2. QED
  BY <1>1, HandsWork, OnlyHolders DEF Quiet

LEMMA MintsKeepsPromise ==
  ASSUME NEW o \in Orders, HandsOf(o), Mints(o)
  PROVE  /\ InHands(o)' \subseteq InHands(o) \cup {minted[o] + 1}
         /\ InHands(o) \subseteq active'[o]
<1> DEFINE n == minted[o] + 1
<1>1. InHands(o) \subseteq active'[o]
  BY HandsWork DEF Mints
<1>2. Job(o) \subseteq InHands(o)
  BY DEF InHands
<1> HIDE DEF n
<1>3. CASE NobodyElse(o, Clerks) /\ Job(o)' \subseteq Job(o) \cup {n}
  BY <1>1, <1>2, <1>3, OnlyHolders DEF n
<1>4. ASSUME NEW c \in Clerks, NobodyElse(o, Clerks \ {c}), Job(o)' \subseteq Job(o),
             clerk'[c].cred = n
      PROVE  InHands(o)' \subseteq InHands(o) \cup {n}
  <2>1. \A x \in InHands(o)' : \/ x \in Job(o)' \/ x \in InHands(o)
          \/ \E d \in Clerks \ (Clerks \ {c}) : Pending(d, o)' /\ x = clerk'[d].cred
    BY <1>4, OnlyHolders
  <2>2. QED
    BY <1>2, <1>4, <2>1
<1>5. QED
  BY <1>1, <1>3, <1>4 DEF Mints, n

LEMMA AdoptsKeepsPromise ==
  ASSUME NEW o \in Orders, HandsOf(o), Adopts(o)
  PROVE  /\ fk'[o] \in InHands(o)
         /\ InHands(o)' \subseteq InHands(o) \ {fk'[o]}
         /\ InHands(o) \subseteq active'[o]
<1> DEFINE x == fk'[o]
<1>1. InHands(o) \subseteq active'[o]
  BY HandsWork DEF Adopts
<1>2. CASE x \in Job(o) /\ Job(o)' = {} /\ NobodyElse(o, Clerks)
  <2>1. x \in InHands(o)
    BY <1>2 DEF InHands
  <2>2. ASSUME NEW d \in Clerks, Pending(d, o)'
        PROVE  clerk'[d].cred \in InHands(o) \ {x}
    <3>1. Pending(d, o) /\ clerk'[d].cred = clerk[d].cred
      BY <1>2, <2>2 DEF NobodyElse
    <3>2. clerk[d].cred \notin Job(o)
      BY <3>1 DEF HandsOf
    <3>3. QED
      BY <1>2, <3>1, <3>2, HeldByClerks
  <2>3. QED
    BY <1>1, <1>2, <2>1, <2>2 DEF InHands
<1>3. ASSUME NEW c \in Clerks, Pending(c, o), x = clerk[c].cred, ~Pending(c, o)',
             NobodyElse(o, Clerks \ {c}), Job(o)' \subseteq Job(o)
      PROVE  x \in InHands(o) /\ InHands(o)' \subseteq InHands(o) \ {x}
  <2>1. x \in InHands(o) /\ x \notin Job(o)
    BY <1>3, HeldByClerks DEF HandsOf
  <2>2. ASSUME NEW d \in Clerks, Pending(d, o)'
        PROVE  clerk'[d].cred \in InHands(o) \ {x}
    <3>1. d # c /\ Pending(d, o) /\ clerk'[d].cred = clerk[d].cred
      BY <1>3, <2>2 DEF NobodyElse
    <3>2. clerk[d].cred # x
      BY <1>3, <3>1 DEF HandsOf
    <3>3. QED
      BY <3>1, <3>2, HeldByClerks
  <2>3. QED
    BY <1>3, <2>1, <2>2 DEF InHands
<1>4. QED
  BY <1>1, <1>2, <1>3 DEF Adopts

LEMMA TouchesKeepPromise ==
  ASSUME IInv, Hands, [Next]_vars PROVE Credentials!Next
<1> SUFFICES ASSUME NEW o \in Orders
             PROVE  /\ Credentials!SparesHands(o)
                    /\ \/ Credentials!Revoke(o) \/ Credentials!Issue(o)
                       \/ Credentials!Attach(o)
  BY DEF Credentials!Next
<1>1. Touches(o) /\ HandsOf(o)
  BY NextTouches DEF Hands
<1>2. CASE Quiet(o)
  <2>1. InHands(o)' \subseteq InHands(o) /\ InHands(o) \subseteq active'[o]
    BY <1>1, <1>2, QuietKeepsPromise
  <2>2. QED
    BY <1>2, <2>1 DEF Quiet, Credentials!SparesHands, Credentials!Revoke, InHands
<1>3. CASE Mints(o)
  <2>1. /\ InHands(o)' \subseteq InHands(o) \cup {minted[o] + 1}
        /\ InHands(o) \subseteq active'[o]
    BY <1>1, <1>3, MintsKeepsPromise
  <2>2. QED
    BY <1>3, <2>1 DEF Mints, Credentials!SparesHands, Credentials!Issue, InHands
<1>4. CASE Adopts(o)
  <2>1. /\ fk'[o] \in InHands(o)
        /\ InHands(o)' \subseteq InHands(o) \ {fk'[o]}
        /\ InHands(o) \subseteq active'[o]
    BY <1>1, <1>4, AdoptsKeepsPromise
  <2>2. QED
    BY <1>4, <2>1 DEF Adopts, Credentials!SparesHands, Credentials!Attach, InHands
<1>5. QED
  BY <1>1, <1>2, <1>3, <1>4 DEF Touches

(* Every behaviour of the order life cycle, with any staff and any faults,   *)
(* is one of CredentialPromise: only a credential fresh from the provider,   *)
(* held by one job or request and still working, is ever attached to an      *)
(* order, nothing somebody holds is revoked, and revoking is for good.       *)
THEOREM CredentialsKeepThePromise == Spec => KeepsCredentialPromise
<1>1. Init => Credentials!Init
  BY DEF Init, IdleWorker, IdleClerk, Job, Pending, Credentials!Init
<1>2. IInv /\ Hands /\ [Next]_vars => [Credentials!Next]_(Credentials!credentials)
  BY TouchesKeepPromise
<1>3. Init => IInv /\ Hands
  BY InitIInv, HandsInit
<1>4. IInv /\ Hands /\ [Next]_vars => (IInv /\ Hands)'
  BY NextIInv, NextHands
<1>5. QED
  BY <1>1, <1>2, <1>3, <1>4, PTL
     DEF Spec, KeepsCredentialPromise, Credentials!Spec
=============================================================================
