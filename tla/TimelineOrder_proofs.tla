------------------------ MODULE TimelineOrder_proofs ------------------------
(***************************************************************************)
(* Theorems about the order of TimelineScheduler, for every set of queues, *)
(* semaphores and batches and every bound: what a queue, a fence and a     *)
(* private object of the driver can rely on.                               *)
(***************************************************************************)
EXTENDS TimelineScheduler_proofs

\* A call and an enqueue never hold the same queue, and only an enqueue that
\* holds the mutex has jobs that are in no list.
TxnInv ==
    IF txn = NoTxn THEN Building = {}
    ELSE call[txn.queue].pc = "none" /\ \A j \in Building : job[j].queue = txn.queue

\* Ids are given out without gaps; the jobs of the open transaction are the last
\* ones, and the dispatched jobs of a queue the first ones.
IdsInv ==
    /\ \A j \in JobIds : IF stage[j] = "unused" THEN job[j] = NoJob ELSE job[j].queue \in Queues
    /\ \A i, j \in JobIds : (i < j /\ stage[j] # "unused") =>
          /\ stage[i] # "unused"
          /\ stage[i] = "building" => stage[j] = "building"
          /\ (OnItsWay(i) /\ job[i].queue = job[j].queue) => OnItsWay(j)

OrderInv == TxnInv /\ IdsInv /\ NothingStagedBehindIo

-----------------------------------------------------------------------------
(* What a step does to jobs and queues: it settles jobs that have finished, *)
(* enqueues, dispatches or completes.                                       *)

Settles ==
    /\ UNCHANGED <<job, txn, native, complete, waited>>
    /\ \A j \in JobIds : \/ stage'[j] = stage[j]
                         \/ stage[j] = "pending" /\ stage'[j] = "retired" /\ j \in complete
    /\ txn # NoTxn => call'[txn.queue] = call[txn.queue]
    /\ \A q \in Queues : IoHeld(q)' => IoHeld(q) \/ Staged(q) = {}

LEMMA PublishStages ==
    ASSUME TypeOK, NEW done \in SUBSET Completed, Publish(done)
    PROVE  \A j \in JobIds : \/ stage'[j] = stage[j]
                             \/ stage[j] = "pending" /\ stage'[j] = "retired" /\ j \in complete
BY DEF Publish, Completed, TypeOK

LEMMA SettlingCall ==
    ASSUME TypeInv, TxnInv, NEW q \in Queues,
           \/ \E sems \in SUBSET Binaries : PresentBegin(q, sems)
           \/ PresentReserve(q)
           \/ \E result \in PresentResults : PresentNative(q, result)
           \/ \E result \in InternalResults, next \in {"present_idle", "enqueued"} :
                 PresentEmulated(q, result, next)
           \/ PresentIdle(q)
           \/ PresentIdleFail(q)
           \/ AfterPresent(q)
           \/ IdleBegin(q)
           \/ IdleLock(q)
           \/ IdleEnd(q)
           \/ IdleFail(q)
           \/ CallFail(q)
           \/ \E b \in Binaries, result \in InternalResults : Acquire(q, b, result)
    PROVE  Settles
<1>0. TypeOK /\ Completed \in SUBSET Completed
  BY DEF TypeInv
<1>1. UNCHANGED <<job, txn, native, complete, waited>>
  BY DEF PresentBegin, PresentReserve, PresentNative, PresentEmulated, PresentIdle, PresentIdleFail, AfterPresent,
         IdleBegin, IdleLock, IdleEnd, IdleFail, CallFail, Acquire, env, sched
<1>2. stage' = stage \/ Publish(Completed)
  BY DEF PresentBegin, PresentReserve, PresentNative, PresentEmulated, PresentIdle, PresentIdleFail, AfterPresent,
         IdleBegin, IdleLock, IdleEnd, IdleFail, CallFail, Acquire, env, sched
<1>3. \A j \in JobIds : \/ stage'[j] = stage[j]
                        \/ stage[j] = "pending" /\ stage'[j] = "retired" /\ j \in complete
  BY <1>0, <1>2, PublishStages
<1>4. \A r \in Queues : r # q => call'[r] = call[r]
  BY <1>0 DEF PresentBegin, PresentReserve, PresentNative, PresentEmulated, PresentIdle, PresentIdleFail,
         AfterPresent, IdleBegin, IdleLock, IdleEnd, IdleFail, CallFail, Acquire, sched,
         Goto, Return, TypeOK
<1>5. call' = call \/ (txn # NoTxn => txn.queue # q)
  BY DEF TxnInv, PresentBegin, PresentReserve, PresentNative, PresentEmulated, PresentIdle, PresentIdleFail,
         AfterPresent, IdleBegin, IdleLock, IdleEnd, IdleFail, CallFail, Acquire, sched,
         QueueFree, MutexFree
<1>6. txn # NoTxn => call'[txn.queue] = call[txn.queue]
  <2>1. txn # NoTxn => txn.queue \in Queues
    BY <1>0 DEF TypeOK, Transaction
  <2>. QED  BY <1>4, <1>5, <2>1
<1>7. IoHeld(q)' => IoHeld(q) \/ Staged(q) = {}
  <2>1. CASE PresentReserve(q) \/ IdleLock(q)
    BY <2>1 DEF PresentReserve, IdleLock
  <2>2. ASSUME NEW sems, PresentBegin(q, sems) PROVE ~IoHeld(q)'
    BY <1>0, <2>2 DEF PresentBegin, IoHeld, TypeOK
  <2>3. ASSUME NEW result, PresentNative(q, result) PROVE IoHeld(q)
    BY <2>3 DEF PresentNative, IoHeld
  <2>4. ASSUME NEW result, NEW next, PresentEmulated(q, result, next) PROVE IoHeld(q)
    BY <2>4 DEF PresentEmulated, IoHeld
  <2>5. CASE PresentIdle(q) \/ PresentIdleFail(q) \/ IdleEnd(q) \/ IdleFail(q)
    BY <2>5 DEF PresentIdle, PresentIdleFail, IdleEnd, IdleFail, IoHeld
  <2>6. CASE AfterPresent(q) \/ CallFail(q)
    BY <1>0, <2>6 DEF AfterPresent, CallFail, IoHeld, Return, NoCall, TypeOK
  <2>7. CASE IdleBegin(q)
    BY <1>0, <2>7 DEF IdleBegin, IoHeld, Goto, TypeOK
  <2>8. ASSUME NEW b, NEW result, Acquire(q, b, result) PROVE IoHeld(q)' = IoHeld(q)
    BY <2>8 DEF Acquire, sched, IoHeld
  <2>. QED  BY <2>1, <2>2, <2>3, <2>4, <2>5, <2>6, <2>7, <2>8
<1>8. \A r \in Queues : IoHeld(r)' => IoHeld(r) \/ Staged(r) = {}
  BY <1>4, <1>7 DEF IoHeld
<1>. QED  BY <1>1, <1>3, <1>6, <1>8 DEF Settles

LEMMA OrderKind ==
    ASSUME TypeInv, TxnInv, [Next]_vars
    PROVE  \/ Settles
           \/ EnqueueNext
           \/ \E q \in Queues, j \in JobIds : Dispatch(q, j)
           \/ \E q \in Queues : Complete(q)
<1>1. ASSUME NEW done \in SUBSET Completed, Poll(done) PROVE Settles
  <2>1. \A j \in JobIds : \/ stage'[j] = stage[j]
                          \/ stage[j] = "pending" /\ stage'[j] = "retired" /\ j \in complete
    BY <1>1, PublishStages DEF Poll, TypeInv
  <2>. QED  BY <1>1, <2>1 DEF Poll, Settles, env, IoHeld
<1>2. CASE PollFail
  BY <1>2 DEF PollFail, Settles, env, IoHeld
<1>3. ASSUME NEW s, NEW value, HostSignal(s, value) PROVE Settles
  BY <1>3 DEF HostSignal, Settles, IoHeld
<1>4. ASSUME NEW q, NEW j, DispatchFail(q, j) PROVE Settles
  BY <1>4 DEF DispatchFail, Settles, env, IoHeld
<1>5. CASE CallNext
  BY <1>5, SettlingCall DEF CallNext
<1>6. CASE UNCHANGED vars
  BY <1>6 DEF vars, sched, env, Settles, IoHeld
<1>7. CASE FenceNext
  BY <1>7, FenceFrame DEF Settles, IoHeld, sched
<1>. QED  BY <1>1, <1>2, <1>3, <1>4, <1>5, <1>6, <1>7 DEF Next, SchedulerNext

-----------------------------------------------------------------------------
(* Queues and ids.                                                          *)

LEMMA OrderInit == Init => OrderInv
BY DEF Init, OrderInv, TxnInv, IdsInv, NothingStagedBehindIo, Building, IoHeld, NoCall, OnItsWay

LEMMA SettleOrder == ASSUME TypeInv, OrderInv, Settles PROVE OrderInv'
<1>1. \A j \in JobIds : /\ stage'[j] = stage[j] \/ (stage[j] = "pending" /\ stage'[j] = "retired")
                        /\ job'[j] = job[j]
  BY DEF Settles
<1>2. Building' = Building /\ \A q \in Queues : Staged(q)' = Staged(q)
  BY <1>1 DEF Building, Staged
<1>3. TxnInv'
  BY <1>1, <1>2 DEF Settles, OrderInv, TxnInv, Building
<1>4. IdsInv'
  BY <1>1 DEF OrderInv, IdsInv, OnItsWay
<1>5. NothingStagedBehindIo'
  BY <1>2 DEF Settles, OrderInv, NothingStagedBehindIo
<1>. QED  BY <1>3, <1>4, <1>5 DEF OrderInv

\* While an enqueue has the mutex, the call of its queue has not begun.
LEMMA EnqueueIo ==
    ASSUME TypeInv, OrderInv, call' = call, txn # NoTxn,
           \A j \in JobIds : stage'[j] = "staged" =>
               \/ stage[j] = "staged" /\ job'[j] = job[j]
               \/ job'[j].queue = txn.queue
    PROVE  NothingStagedBehindIo'
<1>1. \A q \in Queues : IoHeld(q)' => IoHeld(q) /\ q # txn.queue
  BY DEF OrderInv, TxnInv, IoHeld
<1>. QED  BY <1>1 DEF OrderInv, NothingStagedBehindIo, Staged

LEMMA EnqueueOrder == ASSUME TypeInv, OrderInv, EnqueueNext PROVE OrderInv'
<1>0. TypeOK
  BY DEF TypeInv
<1>1. ASSUME NEW q \in Queues, NEW sparse, EnqueueBegin(q, sparse) PROVE OrderInv'
  <2>1. txn = NoTxn /\ txn'.queue = q /\ call[q].pc = "none" /\ call' = call
    BY <1>1 DEF EnqueueBegin, MutexFree
  <2>2. UNCHANGED <<stage, job>>
    BY <1>1 DEF EnqueueBegin
  <2>3. Building = {}
    BY <2>1 DEF OrderInv, TxnInv
  <2>4. TxnInv'
    BY <2>1, <2>2, <2>3 DEF TxnInv, Building
  <2>. QED  BY <2>1, <2>2, <2>4 DEF OrderInv, IdsInv, NothingStagedBehindIo, Staged, IoHeld, OnItsWay
<1>2. ASSUME NEW j \in JobIds, NEW batch \in Batches, EnqueueBatch(j, batch) PROVE OrderInv'
  <2>1. /\ txn # NoTxn /\ txn'.queue = txn.queue /\ txn' # NoTxn /\ call' = call
        /\ txn.queue \in Queues
    <3>1. batch \in Batch /\ txn \in Transaction
      BY <1>0, <1>2, BatchesAssumption DEF EnqueueBatch, TypeOK
    <3>2. Touch(txn.before, batch) \in [Binaries -> BinaryOrder \cup {Untouched}]
      BY <1>0, <3>1 DEF Touch, Transaction, TypeOK
    <3>3. txn' \in Transaction /\ txn'.queue = txn.queue
      BY <1>2, <3>1, <3>2 DEF EnqueueBatch, Transaction
    <3>. QED  BY <1>2, <3>1, <3>3, NullsAssumption DEF EnqueueBatch, Transaction
  <2>2. stage' = [stage EXCEPT ![j] = "building"] /\ NextJob(j)
    BY <1>2 DEF EnqueueBatch
  <2>3. job'[j].queue = txn.queue /\ \A i \in JobIds : i # j => job'[i] = job[i]
    BY <1>0, <1>2 DEF EnqueueBatch, JobOf, TypeOK
  <2>4. TxnInv'
    BY <1>0, <2>1, <2>2, <2>3 DEF OrderInv, TxnInv, Building, TypeOK
  <2>5. IdsInv'
    <3>1. stage \in [JobIds -> {"unused", "building", "staged", "pending", "retired"}]
      BY <1>0 DEF TypeOK
    <3>2. stage'[j] = "building" /\ \A i \in JobIds : i # j => stage'[i] = stage[i]
      BY <2>2, <3>1
    <3>3. \A i \in JobIds : IF stage'[i] = "unused" THEN job'[i] = NoJob ELSE job'[i].queue \in Queues
      BY <2>1, <2>2, <2>3, <3>2 DEF OrderInv, IdsInv
    <3>4. ASSUME NEW i \in JobIds, NEW k \in JobIds, i < k, stage'[k] # "unused"
          PROVE  /\ stage'[i] # "unused"
                 /\ stage'[i] = "building" => stage'[k] = "building"
                 /\ (OnItsWay(i)' /\ job'[i].queue = job'[k].queue) => OnItsWay(k)'
      BY <2>2, <2>3, <3>2, <3>4 DEF OrderInv, IdsInv, NextJob, OnItsWay, JobIds
    <3>. QED  BY <3>3, <3>4 DEF IdsInv
  <2>6. NothingStagedBehindIo'
    BY <1>0, <2>1, <2>2, <2>3, EnqueueIo DEF TypeOK
  <2>. QED  BY <2>4, <2>5, <2>6 DEF OrderInv
<1>3. CASE EnqueueFail
  <2>1. /\ txn # NoTxn /\ txn' = NoTxn /\ call' = call
        /\ \A j \in JobIds : IF stage[j] = "building" THEN stage'[j] = "unused" /\ job'[j] = NoJob
                             ELSE stage'[j] = stage[j] /\ job'[j] = job[j]
    BY <1>3 DEF EnqueueFail, Building
  <2>2. TxnInv'
    BY <2>1 DEF TxnInv, Building
  <2>3. IdsInv'
    BY <2>1 DEF OrderInv, IdsInv, OnItsWay
  <2>4. NothingStagedBehindIo'
    BY <2>1, EnqueueIo
  <2>. QED  BY <2>2, <2>3, <2>4 DEF OrderInv
<1>4. CASE EnqueueCommit
  <2>1. /\ txn # NoTxn /\ txn' = NoTxn /\ call' = call /\ job' = job
        /\ \A j \in JobIds : stage'[j] = IF stage[j] = "building" THEN "staged" ELSE stage[j]
    BY <1>4 DEF EnqueueCommit, Splice, Building
  <2>2. TxnInv'
    BY <2>1 DEF TxnInv, Building
  <2>3. IdsInv'
    BY <2>1 DEF OrderInv, IdsInv, OnItsWay
  <2>4. NothingStagedBehindIo'
    BY <2>1, EnqueueIo DEF OrderInv, TxnInv, Building
  <2>. QED  BY <2>2, <2>3, <2>4 DEF OrderInv
<1>5. ASSUME NEW j \in JobIds, EnqueueCommitFence(j) PROVE OrderInv'
  <2>1. /\ txn # NoTxn /\ txn' = NoTxn /\ call' = call /\ NextJob(j) /\ stage'[j] = "staged"
        /\ \A i \in JobIds : i # j =>
              stage'[i] = (IF stage[i] = "building" THEN "staged" ELSE stage[i])
        /\ txn.queue \in Queues
    BY <1>0, <1>5 DEF EnqueueCommitFence, Splice, Building, TypeOK, Transaction
  <2>2. job'[j].queue = txn.queue /\ \A i \in JobIds : i # j => job'[i] = job[i]
    BY <1>0, <1>5 DEF EnqueueCommitFence, NoJob, TypeOK
  <2>3. TxnInv'
    BY <2>1 DEF TxnInv, Building
  <2>4. IdsInv'
    BY <2>1, <2>2 DEF OrderInv, IdsInv, OnItsWay, NextJob, JobIds
  <2>5. NothingStagedBehindIo'
    BY <2>1, <2>2, EnqueueIo DEF OrderInv, TxnInv, Building
  <2>. QED  BY <2>3, <2>4, <2>5 DEF OrderInv
<1>. QED  BY <1>1, <1>2, <1>3, <1>4, <1>5 DEF EnqueueNext

\* What a dispatch does to the lists.
LEMMA DispatchStages ==
    ASSUME TypeOK, NEW q \in Queues, NEW j \in JobIds, Dispatch(q, j)
    PROVE  /\ stage[j] = "staged" /\ job[j].queue = q /\ txn = NoTxn
           /\ \A i \in JobIds : (stage[i] = "staged" /\ job[i].queue = q) => j <= i
           /\ \A i \in JobIds : stage'[i] = IF i # j THEN stage[i]
                                            ELSE IF job[j].tail THEN "retired" ELSE "pending"
           /\ \A i \in JobIds : i # j => job'[i] = job[i]
           /\ job'[j].queue = q /\ job'[j].tail = job[j].tail /\ job'[j].waits = job[j].waits
           /\ job'[j].acquires = job[j].acquires \cup Acquires(j)
           /\ UNCHANGED <<txn, call, failed, complete>>
BY DEF Dispatch, MayDispatch, IsFront, Staged, MutexFree, TypeOK, Job

LEMMA DispatchOrder ==
    ASSUME TypeInv, OrderInv, NEW q \in Queues, NEW j \in JobIds, Dispatch(q, j)
    PROVE  OrderInv'
<1>0. TypeOK
  BY DEF TypeInv
<1>1. /\ stage[j] = "staged" /\ job[j].queue = q /\ txn = NoTxn
      /\ \A i \in JobIds : (stage[i] = "staged" /\ job[i].queue = q) => j <= i
      /\ \A i \in JobIds : stage'[i] = IF i # j THEN stage[i]
                                       ELSE IF job[j].tail THEN "retired" ELSE "pending"
      /\ \A i \in JobIds : i # j => job'[i] = job[i]
      /\ job'[j].queue = job[j].queue
      /\ txn' = txn /\ call' = call
  BY <1>0, DispatchStages
<1>2. \A i \in JobIds : stage[i] # "building"
  BY <1>1 DEF OrderInv, TxnInv, Building
<1>3. TxnInv'
  BY <1>1, <1>2 DEF TxnInv, Building
<1>4. IdsInv'
  BY <1>1, <1>2 DEF OrderInv, IdsInv, OnItsWay, JobIds
<1>5. NothingStagedBehindIo'
  BY <1>1 DEF OrderInv, NothingStagedBehindIo, Staged, IoHeld
<1>. QED  BY <1>3, <1>4, <1>5 DEF OrderInv

LEMMA OrderStep == ASSUME TypeInv, OrderInv, [Next]_vars PROVE OrderInv'
<1>1. \/ Settles
      \/ EnqueueNext
      \/ \E q \in Queues, j \in JobIds : Dispatch(q, j)
      \/ \E q \in Queues : Complete(q)
  BY OrderKind DEF OrderInv
<1>2. ASSUME NEW q \in Queues, Complete(q) PROVE OrderInv'
  BY <1>2 DEF Complete, sched, OrderInv, TxnInv, IdsInv, NothingStagedBehindIo, Building,
              Staged, IoHeld, OnItsWay
<1>. QED  BY <1>1, <1>2, SettleOrder, EnqueueOrder, DispatchOrder

LEMMA OrderInvariant == Spec => [](TypeInv /\ OrderInv)
<1>1. Init => TypeInv /\ OrderInv
  BY InitType, OrderInit
<1>2. (TypeInv /\ OrderInv) /\ [Next]_vars => (TypeInv /\ OrderInv)'
  BY TypeStep, OrderStep
<1>. QED  BY <1>1, <1>2, PTL DEF Spec

\* A thread that holds a queue's io lock never waits for the worker to empty that
\* queue, however many calls and enqueues of other queues run beside it.
THEOREM IoCorrect == Spec => []NothingStagedBehindIo
<1>1. OrderInv => NothingStagedBehindIo
  BY DEF OrderInv
<1>. QED  BY <1>1, OrderInvariant, PTL

-----------------------------------------------------------------------------
(* The driver's queues and what is in flight.                               *)

\* A queue of the driver is the dispatched jobs of that queue that have not
\* finished, in the order of their ids: the driver finishes them in that order.
NativeInv ==
    /\ \A j \in complete : Dispatched(j)
    /\ \A q \in Queues : \A n \in 1 .. Len(native[q]) :
          /\ Dispatched(native[q][n]) /\ job[native[q][n]].queue = q /\ native[q][n] \notin complete
          /\ \A m \in 1 .. Len(native[q]) : m < n => native[q][m] < native[q][n]
    /\ \A j \in JobIds : InFlight(j) =>
          \E n \in 1 .. Len(native[job[j].queue]) : native[job[j].queue][n] = j
    /\ \A i \in JobIds, j \in complete : (InFlight(i) /\ job[i].queue = job[j].queue) => j < i

\* Only a fence job, which waits for no counter, leaves pending before it has
\* finished, and a job keeps the releases whose tokens it waits for.
OwnInv ==
    /\ \A j \in JobIds : stage[j] = "retired" => j \in complete \/ job[j].tail
    /\ \A j \in JobIds : job[j].tail => job[j].waits = {}
    /\ \A w \in waited : /\ Dispatched(w.by) /\ ~job[w.by].tail
                         /\ w.token.release \in job[w.by].acquires

FlightInv == NativeInv /\ OwnInv

LEMMA FlightInit == Init => FlightInv
BY DEF Init, FlightInv, NativeInv, OwnInv, InFlight, Dispatched, NoJob

\* The jobs of the driver and of the counters are those dispatched before.
LEMMA FlightFrame ==
    ASSUME TypeInv, FlightInv, UNCHANGED <<native, complete, waited>>,
           \A j \in JobIds : Dispatched(j) <=> Dispatched(j)',
           \A j \in JobIds : Dispatched(j) => job'[j] = job[j],
           \A j \in JobIds : stage'[j] = "retired" => stage[j] = "retired" \/ j \in complete,
           \A j \in JobIds : job'[j].tail => job'[j].waits = {}
    PROVE  FlightInv'
<1>0. complete \subseteq JobIds /\ native \in [Queues -> Seq(JobIds)] /\ \A w \in waited : w.by \in JobIds
  BY DEF TypeInv, TypeOK
<1>1. ASSUME NEW q \in Queues, NEW n \in 1 .. Len(native[q]) PROVE native[q][n] \in JobIds
  BY <1>0
<1>2. \A j \in complete : Dispatched(j)'
  BY <1>0 DEF FlightInv, NativeInv
<1>3. \A q \in Queues : \A n \in 1 .. Len(native[q]) :
          /\ Dispatched(native[q][n])' /\ job'[native[q][n]].queue = q
          /\ native[q][n] \notin complete
          /\ \A m \in 1 .. Len(native[q]) : m < n => native[q][m] < native[q][n]
  BY <1>1 DEF FlightInv, NativeInv
<1>4. \A j \in JobIds : InFlight(j)' =>
          \E n \in 1 .. Len(native[job'[j].queue]) : native[job'[j].queue][n] = j
  BY DEF FlightInv, NativeInv, InFlight
<1>5. \A i \in JobIds, j \in complete : (InFlight(i)' /\ job'[i].queue = job'[j].queue) => j < i
  BY <1>0 DEF FlightInv, NativeInv, InFlight
<1>6. NativeInv'
  BY <1>2, <1>3, <1>4, <1>5 DEF NativeInv
<1>7. OwnInv'
  <2>1. \A w \in waited : /\ Dispatched(w.by)' /\ ~job'[w.by].tail
                          /\ w.token.release \in job'[w.by].acquires
    BY <1>0 DEF FlightInv, OwnInv
  <2>2. \A j \in JobIds : stage'[j] = "retired" => j \in complete \/ job'[j].tail
    BY DEF FlightInv, OwnInv, Dispatched
  <2>. QED  BY <2>1, <2>2 DEF OwnInv
<1>. QED  BY <1>6, <1>7 DEF FlightInv

LEMMA SettleFlight == ASSUME TypeInv, FlightInv, Settles PROVE FlightInv'
<1>1. \A j \in JobIds : /\ Dispatched(j) <=> Dispatched(j)'
                        /\ stage'[j] = "retired" => stage[j] = "retired" \/ j \in complete
  BY DEF Settles, Dispatched
<1>2. \A j \in JobIds : job[j].tail => job[j].waits = {}
  BY DEF FlightInv, OwnInv
<1>. QED  BY <1>1, <1>2, FlightFrame DEF Settles

LEMMA EnqueueFlight == ASSUME TypeInv, FlightInv, EnqueueNext PROVE FlightInv'
<1>0. TypeOK /\ \A j \in JobIds : job[j].tail => job[j].waits = {}
  BY DEF TypeInv, FlightInv, OwnInv
<1>1. UNCHANGED <<native, complete, waited>>
  BY DEF EnqueueNext, EnqueueBegin, EnqueueBatch, EnqueueFail, EnqueueCommit, EnqueueCommitFence, env
<1>2. Quiet \/ Enqueues
  BY EnqueueKind
<1>3. \A j \in JobIds : /\ Dispatched(j) <=> Dispatched(j)'
                        /\ Dispatched(j) => job'[j] = job[j]
                        /\ stage'[j] = "retired" => stage[j] = "retired"
  BY <1>2 DEF Quiet, Enqueues, Dispatched
<1>4. ASSUME NEW j \in JobIds, NEW batch \in Batches, EnqueueBatch(j, batch)
      PROVE  \A i \in JobIds : job'[i].tail => job'[i].waits = {}
  <2>1. ~JobOf(txn.queue, batch).tail
    BY DEF JobOf
  <2>. QED  BY <1>0, <1>4, <2>1 DEF EnqueueBatch, TypeOK
<1>5. ASSUME EnqueueFail
      PROVE  \A i \in JobIds : job'[i].tail => job'[i].waits = {}
  <2>1. NoJob.waits = {}
    BY DEF NoJob
  <2>2. \A j \in JobIds : job'[j] = NoJob \/ job'[j] = job[j]
    BY <1>5 DEF EnqueueFail
  <2>. QED  BY <1>0, <2>1, <2>2
<1>6. ASSUME NEW j \in JobIds, EnqueueCommitFence(j)
      PROVE  \A i \in JobIds : job'[i].tail => job'[i].waits = {}
  <2>. DEFINE t == [NoJob EXCEPT !.queue = txn.queue, !.tail = TRUE, !.sparse = txn.sparse]
  <2>1. t.waits = {} /\ job' = [job EXCEPT ![j] = t]
    BY <1>6 DEF EnqueueCommitFence, NoJob
  <2>. HIDE DEF t
  <2>. QED  BY <1>0, <2>1 DEF TypeOK
<1>7. \A j \in JobIds : job'[j].tail => job'[j].waits = {}
  <2>1. CASE (\E q \in Queues, sparse \in {batch.sparse : batch \in Batches} : EnqueueBegin(q, sparse))
              \/ EnqueueCommit
    BY <1>0, <2>1 DEF EnqueueBegin, EnqueueCommit
  <2>. QED  BY <1>4, <1>5, <1>6, <2>1 DEF EnqueueNext
<1>. QED  BY <1>1, <1>3, <1>7, FlightFrame

LEMMA DispatchFlight ==
    ASSUME TypeInv, OrderInv, FlightInv, NEW q \in Queues, NEW j \in JobIds, Dispatch(q, j)
    PROVE  FlightInv'
<1>0. TypeOK /\ complete \subseteq JobIds /\ \A w \in waited : w.by \in JobIds
  BY DEF TypeInv, TypeOK
<1>1. /\ stage[j] = "staged" /\ job[j].queue = q
      /\ \A i \in JobIds : stage'[i] = IF i # j THEN stage[i]
                                       ELSE IF job[j].tail THEN "retired" ELSE "pending"
      /\ \A i \in JobIds : i # j => job'[i] = job[i]
      /\ job'[j].queue = q /\ job'[j].tail = job[j].tail /\ job'[j].waits = job[j].waits
      /\ job'[j].acquires = job[j].acquires \cup Acquires(j)
      /\ complete' = complete
  BY <1>0, DispatchStages
<1>2. \A i \in JobIds : stage'[i] \in {"pending", "retired"} <=> Dispatched(i) \/ i = j
  BY <1>1 DEF Dispatched
<1>3. ~Dispatched(j) /\ j \notin complete
  BY <1>1 DEF Dispatched, FlightInv, NativeInv
<1>4. \A i \in JobIds : (Dispatched(i) /\ job[i].queue = q) => i < j
  BY <1>1, <1>3 DEF OrderInv, IdsInv, OnItsWay, Dispatched, JobIds
<1>5. \A r \in Queues : /\ native[r] \in Seq(JobIds)
                        /\ native'[r] = IF r = q THEN Append(native[q], j) ELSE native[r]
  BY <1>0 DEF Dispatch, TypeOK
<1>51. native[q] \in Seq(JobIds) /\ native'[q] = Append(native[q], j)
  BY <1>5
<1>6. ASSUME NEW r \in Queues, NEW n \in 1 .. Len(native[r])
      PROVE  /\ native[r][n] \in JobIds /\ Dispatched(native[r][n])
             /\ job[native[r][n]].queue = r /\ native[r][n] \notin complete
             /\ native[r][n] # j
             /\ \A m \in 1 .. Len(native[r]) : m < n => native[r][m] < native[r][n]
  BY <1>3, <1>5 DEF FlightInv, NativeInv
<1>7. ASSUME NEW r \in Queues, NEW n \in 1 .. Len(native'[r])
      PROVE  /\ stage'[native'[r][n]] \in {"pending", "retired"}
             /\ job'[native'[r][n]].queue = r /\ native'[r][n] \notin complete
             /\ \A m \in 1 .. Len(native'[r]) : m < n => native'[r][m] < native'[r][n]
  <2>1. CASE r # q
    <3>1. native'[r] = native[r]
      BY <1>5, <2>1
    <3>. QED  BY <1>1, <1>2, <1>6, <3>1
  <2>2. CASE r = q
    <3>1. /\ Len(native'[q]) = Len(native[q]) + 1
          /\ \A m \in 1 .. Len(native[q]) : native'[q][m] = native[q][m]
          /\ native'[q][Len(native[q]) + 1] = j
          /\ Len(native[q]) \in Nat
      BY <1>51
    <3>2. CASE n = Len(native[q]) + 1
      <4>1. \A m \in 1 .. Len(native[q]) : native[q][m] < j
        BY <1>4, <1>6
      <4>. QED  BY <1>1, <1>2, <1>3, <2>2, <3>1, <3>2, <4>1
    <3>3. CASE n \in 1 .. Len(native[q])
      BY <1>1, <1>2, <1>6, <2>2, <3>1, <3>3
    <3>. QED  BY <2>2, <3>1, <3>2, <3>3
  <2>. QED  BY <2>1, <2>2
<1>8. ASSUME NEW i \in JobIds, InFlight(i)'
      PROVE  /\ \E n \in 1 .. Len(native'[job'[i].queue]) : native'[job'[i].queue][n] = i
             /\ \A k \in complete : job'[i].queue = job'[k].queue => k < i
  <2>1. CASE i = j
    <3>1. Len(native[q]) + 1 \in 1 .. Len(native'[q]) /\ native'[q][Len(native[q]) + 1] = j
      BY <1>51
    <3>2. \A k \in complete : Dispatched(k) /\ k # j
      BY <1>3 DEF FlightInv, NativeInv
    <3>. QED  BY <1>0, <1>1, <1>4, <2>1, <3>1, <3>2
  <2>2. CASE i # j
    <3>1. InFlight(i) /\ job'[i] = job[i]
      BY <1>1, <1>2, <1>8, <2>2 DEF InFlight, Dispatched
    <3>2. job[i].queue \in Queues
      BY <3>1 DEF OrderInv, IdsInv, InFlight, Dispatched
    <3>3. PICK n \in 1 .. Len(native[job[i].queue]) : native[job[i].queue][n] = i
      BY <3>1 DEF FlightInv, NativeInv
    <3>4. n \in 1 .. Len(native'[job[i].queue]) /\ native'[job[i].queue][n] = i
      <4>1. CASE job[i].queue # q
        BY <1>5, <3>2, <3>3, <4>1
      <4>2. CASE job[i].queue = q
        BY <1>51, <3>3, <4>2
      <4>. QED  BY <4>1, <4>2
    <3>5. \A k \in complete : k # j /\ (job[i].queue = job[k].queue => k < i)
      BY <1>3, <3>1 DEF FlightInv, NativeInv
    <3>. QED  BY <1>0, <1>1, <3>1, <3>4, <3>5
  <2>. QED  BY <2>1, <2>2
<1>9. NativeInv'
  <2>1. \A i \in complete : stage'[i] \in {"pending", "retired"}
    BY <1>0, <1>2 DEF FlightInv, NativeInv
  <2>. QED  BY <1>1, <1>7, <1>8, <2>1 DEF NativeInv, Dispatched
<1>10. OwnInv'
  <2>1. job[j].tail => NewTokens(j) = {}
    BY DEF FlightInv, OwnInv, NewTokens, CurrentTokens
  <2>2. waited' = waited \cup {[token |-> t, by |-> j] : t \in NewTokens(j)}
    BY DEF Dispatch
  <2>3. \A t \in NewTokens(j) : ~job[j].tail /\ t.release \in job'[j].acquires
    BY <1>1, <2>1 DEF Acquires
  <2>4. ASSUME NEW w \in waited
        PROVE  /\ stage'[w.by] \in {"pending", "retired"} /\ ~job'[w.by].tail
               /\ w.token.release \in job'[w.by].acquires
    BY <1>0, <1>1, <1>2 DEF FlightInv, OwnInv
  <2>5. ASSUME NEW w \in waited'
        PROVE  /\ stage'[w.by] \in {"pending", "retired"} /\ ~job'[w.by].tail
               /\ w.token.release \in job'[w.by].acquires
    BY <1>1, <1>2, <2>2, <2>3, <2>4
  <2>. QED  BY <1>1, <2>5 DEF FlightInv, OwnInv, Dispatched
<1>. QED  BY <1>9, <1>10 DEF FlightInv

\* The driver finishes the oldest batch of a queue.
LEMMA CompleteFlight ==
    ASSUME TypeInv, OrderInv, FlightInv, NEW q \in Queues, Complete(q) PROVE FlightInv'
<1>. DEFINE h == Head(native[q])
<1>0. TypeOK /\ \A r \in Queues : native[r] \in Seq(JobIds)
  BY DEF TypeInv, TypeOK
<1>1. /\ UNCHANGED <<stage, job, waited>> /\ complete' = complete \cup {h}
      /\ native[q] # <<>> /\ native'[q] = Tail(native[q])
      /\ \A r \in Queues : r # q => native'[r] = native[r]
  BY <1>0 DEF Complete, sched, TypeOK
<1>2. /\ h = native[q][1] /\ 1 \in 1 .. Len(native[q]) /\ h \in JobIds
      /\ Len(native'[q]) = Len(native[q]) - 1
      /\ \A n \in 1 .. Len(native'[q]) :
            n + 1 \in 1 .. Len(native[q]) /\ native'[q][n] = native[q][n + 1]
  BY <1>0, <1>1
<1>. HIDE DEF h
<1>3. /\ Dispatched(h) /\ job[h].queue = q
      /\ \A n \in 1 .. Len(native[q]) : n > 1 => h < native[q][n]
  BY <1>0, <1>2 DEF FlightInv, NativeInv
<1>4. ASSUME NEW r \in Queues, NEW n \in 1 .. Len(native[r])
      PROVE  /\ native[r][n] \in JobIds /\ Dispatched(native[r][n])
             /\ job[native[r][n]].queue = r /\ native[r][n] \notin complete
             /\ \A m \in 1 .. Len(native[r]) : m < n => native[r][m] < native[r][n]
  BY <1>0 DEF FlightInv, NativeInv
<1>5. ASSUME NEW r \in Queues, NEW n \in 1 .. Len(native'[r])
      PROVE  /\ Dispatched(native'[r][n]) /\ job[native'[r][n]].queue = r
             /\ native'[r][n] \notin complete'
             /\ \A m \in 1 .. Len(native'[r]) : m < n => native'[r][m] < native'[r][n]
  <2>1. CASE r # q
    BY <1>1, <1>3, <1>4, <2>1
  <2>2. CASE r = q
    <3>1. n + 1 \in 1 .. Len(native[q]) /\ native'[q][n] = native[q][n + 1] /\ n + 1 > 1
      BY <1>2, <2>2
    <3>2. native[q][n + 1] # h
      <4>1. h < native[q][n + 1] /\ native[q][n + 1] \in JobIds
        BY <1>3, <1>4, <3>1
      <4>. QED  BY <1>2, <4>1 DEF JobIds
    <3>3. \A m \in 1 .. Len(native'[q]) : m < n => native'[q][m] < native'[q][n]
      BY <1>2, <1>4, <3>1
    <3>4. /\ Dispatched(native[q][n + 1]) /\ job[native[q][n + 1]].queue = q
          /\ native[q][n + 1] \notin complete
      BY <1>4, <3>1
    <3>. QED  BY <1>1, <2>2, <3>1, <3>2, <3>3, <3>4
  <2>. QED  BY <2>1, <2>2
<1>6. ASSUME NEW i \in JobIds, InFlight(i)'
      PROVE  /\ \E n \in 1 .. Len(native'[job[i].queue]) : native'[job[i].queue][n] = i
             /\ \A k \in complete' : job[i].queue = job[k].queue => k < i
  <2>1. InFlight(i) /\ i # h
    BY <1>1, <1>6 DEF InFlight, Dispatched
  <2>2. job[i].queue \in Queues
    BY <2>1 DEF OrderInv, IdsInv, InFlight, Dispatched
  <2>3. PICK n \in 1 .. Len(native[job[i].queue]) : native[job[i].queue][n] = i
    BY <2>1 DEF FlightInv, NativeInv
  <2>4. CASE job[i].queue # q
    BY <1>1, <1>3, <2>1, <2>2, <2>3, <2>4 DEF FlightInv, NativeInv
  <2>5. CASE job[i].queue = q
    <3>1. n # 1 /\ n \in Nat /\ n > 1
      BY <1>2, <2>1, <2>3, <2>5
    <3>2. h < i
      BY <1>3, <2>3, <2>5, <3>1
    <3>3. n - 1 \in 1 .. Len(native'[q]) /\ native'[q][n - 1] = i
      BY <1>0, <1>2, <2>3, <2>5, <3>1
    <3>. QED  BY <1>1, <2>1, <2>5, <3>2, <3>3 DEF FlightInv, NativeInv
  <2>. QED  BY <2>4, <2>5
<1>7. NativeInv'
  BY <1>1, <1>3, <1>5, <1>6 DEF NativeInv, FlightInv, Dispatched
<1>8. OwnInv'
  BY <1>1 DEF OwnInv, FlightInv, Dispatched
<1>. QED  BY <1>7, <1>8 DEF FlightInv

LEMMA FlightStep == ASSUME TypeInv, OrderInv, FlightInv, [Next]_vars PROVE FlightInv'
<1>1. \/ Settles
      \/ EnqueueNext
      \/ \E q \in Queues, j \in JobIds : Dispatch(q, j)
      \/ \E q \in Queues : Complete(q)
  BY OrderKind DEF OrderInv
<1>. QED  BY <1>1, SettleFlight, EnqueueFlight, DispatchFlight, CompleteFlight

FenceInv == TokensInv /\ OrderInv /\ FlightInv

LEMMA FenceInvariant == Spec => []FenceInv
<1>1. Init => FenceInv
  BY InitType, CounterInit, TokenInit, OrderInit, FlightInit DEF FenceInv, TokensInv
<1>2. FenceInv /\ [Next]_vars => FenceInv'
  BY TypeStep, CounterStep, TokenStep, OrderStep, FlightStep DEF FenceInv, TokensInv
<1>. QED  BY <1>1, <1>2, PTL DEF Spec

\* Whoever sees the application's fence finds every signal of the submission and
\* of those before it on the queue in the next value read: the driver finishes
\* the batches of a queue in the order of their ids, and a batch leaves pending
\* only when its signals are in the counters.
THEOREM FencesCover == Spec => []FenceCoversSubmission
<1>1. FenceInv => FenceCoversSubmission
  <2>. SUFFICES ASSUME FenceInv, NEW t \in complete, NEW j \in JobIds,
                       j < t, job[j].queue = job[t].queue, NEW s \in Timelines
                PROVE  job[j].signals[s] <= timeline[s].value \/ j \in Completed
    BY DEF FenceCoversSubmission
  <2>0. TypeOK /\ t \in JobIds
    BY DEF FenceInv, TokensInv, TypeInv, TypeOK
  <2>1. Dispatched(t)
    BY DEF FenceInv, FlightInv, NativeInv
  <2>2. Dispatched(j)
    <3>1. stage[j] \in {"unused", "building", "staged", "pending", "retired"}
      BY <2>0 DEF TypeOK
    <3>2. stage[t] # "unused" /\ ~OnItsWay(t)
      BY <2>1 DEF Dispatched, OnItsWay
    <3>3. stage[j] # "unused" /\ ~OnItsWay(j)
      BY <2>0, <3>2 DEF FenceInv, OrderInv, IdsInv
    <3>. QED  BY <3>1, <3>3 DEF Dispatched, OnItsWay
  <2>3. j \in complete
    BY <2>0, <2>2 DEF FenceInv, FlightInv, NativeInv, InFlight, JobIds
  <2>4. CASE stage[j] = "pending"
    BY <2>3, <2>4 DEF Completed
  <2>5. CASE stage[j] = "retired"
    <3>1. timeline[s].value >= job[j].signals[s]
      BY <2>5 DEF FenceInv, TokensInv, CounterInv, CounterJustified
    <3>2. timeline[s].value \in Nat /\ job[j].signals[s] \in Nat
      BY <2>0 DEF TypeOK, Job
    <3>. QED  BY <3>1, <3>2
  <2>. QED  BY <2>2, <2>4, <2>5 DEF Dispatched
<1>. QED  BY <1>1, FenceInvariant, PTL

\* While a batch is with the driver, a job or a counter keeps its completion
\* fence and every token it waits for.
THEOREM ObjectsOutlive == Spec => []PrivateObjectsOutliveUse
<1>1. FenceInv => PrivateObjectsOutliveUse
  <2>. SUFFICES ASSUME FenceInv, NEW j \in JobIds, InFlight(j)
                PROVE  /\ ~job[j].tail => stage[j] = "pending"
                       /\ \A w \in waited : w.by = j => Owned(w.token.release)
    BY DEF PrivateObjectsOutliveUse
  <2>1. ~job[j].tail => stage[j] = "pending"
    BY DEF FenceInv, FlightInv, OwnInv, InFlight, Dispatched
  <2>2. ASSUME NEW w \in waited, w.by = j PROVE Owned(w.token.release)
    <3>1. ~job[j].tail /\ w.token.release \in job[j].acquires
      BY <2>2 DEF FenceInv, FlightInv, OwnInv
    <3>. QED  BY <2>1, <3>1 DEF Owned
  <2>. QED  BY <2>1, <2>2
<1>. QED  BY <1>1, FenceInvariant, PTL

-----------------------------------------------------------------------------
(* The epochs of the binary semaphores.                                     *)

Holds(q, b) == call[q].pc \in Reserved /\ call[q].waits[b] # 0
Drains(q, b) == call[q].pc = "present_drain" /\ call[q].waits[b] # 0

OnWay == {j \in JobIds : OnItsWay(j)}
InStaged == {j \in JobIds : stage[j] = "staged"}

\* The counters of one semaphore, o: the driver has at most one signal more than
\* waits, besides one that the scheduler does not count (External).
Numbers(b, o) ==
    /\ o.submitted_waits <= o.waits /\ o.waits <= o.signals
    /\ o.submitted_waits <= o.submitted_signals /\ o.submitted_signals <= o.signals
    /\ o.submitted_signals <= o.submitted_waits + 1
    /\ \/ nat[b].signals = o.submitted_signals
       \/ nat[b].signals = o.submitted_signals + 1 /\ o.signals = o.submitted_waits

\* The jobs of J have epochs that are reserved and not submitted, and a present
\* has the last wait, for a signal that has been submitted.
Claims(b, o, J) ==
    /\ \A j \in J :
          /\ job[j].bwaits[b] # 0 =>
                o.submitted_waits < job[j].bwaits[b] /\ job[j].bwaits[b] <= o.waits
          /\ job[j].bsignals[b] # 0 =>
                o.submitted_signals < job[j].bsignals[b] /\ job[j].bsignals[b] <= o.signals
    /\ \A q \in Queues : Holds(q, b) =>
          /\ o.waits = call[q].waits[b]
          /\ o.submitted_waits < o.waits /\ o.waits <= o.submitted_signals
          /\ \A j \in J : job[j].bwaits[b] # o.waits

\* Every epoch reserved and not submitted has a job of J or a present.
Fills(b, o, J) ==
    /\ \A e \in o.submitted_signals + 1 .. o.signals : \E j \in J : job[j].bsignals[b] = e
    /\ ~failed => \A e \in o.submitted_waits + 1 .. o.waits :
          (\E j \in J : job[j].bwaits[b] = e) \/ (\E q \in Queues : Holds(q, b) /\ call[q].waits[b] = e)

Distinct(b) ==
    \A i, j \in OnWay : i # j =>
       /\ job[i].bwaits[b] # 0 => job[i].bwaits[b] # job[j].bwaits[b]
       /\ job[i].bsignals[b] # 0 => job[i].bsignals[b] # job[j].bsignals[b]

\* A present that waits for its turn has the next epoch, and nobody takes it.
Draining(b) ==
    \A q \in Queues : Drains(q, b) =>
       /\ call[q].waits[b] = order[b].waits + 1
       /\ order[b].signals > order[b].waits \/ External(b)
       /\ txn # NoTxn => txn.before[b] = Untouched

\* What the open transaction goes back to when it fails.
Base(b) == IF txn.before[b] = Untouched THEN order[b] ELSE txn.before[b]
Restorable(b) ==
    txn # NoTxn =>
       /\ Numbers(b, Base(b)) /\ Claims(b, Base(b), InStaged) /\ Fills(b, Base(b), InStaged)
       /\ Base(b).submitted_waits = order[b].submitted_waits
       /\ txn.before[b] # Untouched => order[b].signals > order[b].submitted_waits

EpochsOf(b) ==
    /\ Numbers(b, order[b]) /\ Claims(b, order[b], OnWay) /\ Fills(b, order[b], OnWay)
    /\ Distinct(b)
    /\ Draining(b)
    /\ Restorable(b)

EpochInv == \A b \in Binaries : EpochsOf(b)

LEMMA EpochInit == Init => EpochInv
<1>. SUFFICES ASSUME Init, NEW b \in Binaries PROVE EpochsOf(b)
  BY DEF EpochInv
<1>1. /\ OnWay = {} /\ txn = NoTxn
      /\ \A q \in Queues : ~Holds(q, b) /\ ~Drains(q, b)
  BY DEF Init, OnWay, OnItsWay, Holds, Drains, NoCall, Reserved
<1>2. /\ order[b] = [signals |-> 0, waits |-> 0, submitted_signals |-> 0, submitted_waits |-> 0]
      /\ nat[b].signals = 0
  BY DEF Init
<1>. QED  BY <1>1, <1>2 DEF EpochsOf, Numbers, Claims, Fills, Distinct, Draining, Restorable

\* The numbers that the arguments below compare.
LEMMA EpochNumbers ==
    ASSUME TypeOK, NEW b \in Binaries
    PROVE  /\ order[b].waits \in Nat /\ order[b].signals \in Nat
           /\ order[b].submitted_waits \in Nat /\ order[b].submitted_signals \in Nat
           /\ nat[b].signals \in Nat /\ nat[b].waits \in Nat
           /\ \A j \in JobIds : job[j].bwaits[b] \in Nat /\ job[j].bsignals[b] \in Nat
           /\ \A q \in Queues : call[q].waits[b] \in Nat
           /\ txn # NoTxn => txn.before[b] \in BinaryOrder \cup {Untouched}
<1>1. order[b] \in BinaryOrder /\ nat[b] \in [signals : Nat, waits : Nat]
  BY DEF TypeOK
<1>2. \A j \in JobIds : job[j].bwaits[b] \in Nat /\ job[j].bsignals[b] \in Nat
  BY DEF TypeOK, Job, Epochs
<1>3. \A q \in Queues : call[q].waits[b] \in Nat
  BY DEF TypeOK, Epochs
<1>4. txn # NoTxn => txn.before[b] \in BinaryOrder \cup {Untouched}
  BY DEF TypeOK, Transaction
<1>. QED  BY <1>1, <1>2, <1>3, <1>4 DEF BinaryOrder

-----------------------------------------------------------------------------
(* Steps that leave the epochs of a semaphore alone.                        *)

EpochFrame(b) ==
    /\ UNCHANGED <<order, txn>> /\ nat'[b].signals = nat[b].signals
    /\ \A j \in JobIds : /\ (stage'[j] = "staged") = (stage[j] = "staged")
                         /\ (stage'[j] = "building") = (stage[j] = "building")
                         /\ OnItsWay(j) => job'[j] = job[j]
    /\ \A q \in Queues : /\ Holds(q, b)' <=> Holds(q, b)
                         /\ Drains(q, b)' => Drains(q, b)
                         /\ (Holds(q, b) \/ Drains(q, b)') => call'[q].waits[b] = call[q].waits[b]
    /\ failed => failed'

LEMMA FrameEpochs == ASSUME NEW b \in Binaries, EpochsOf(b), EpochFrame(b) PROVE EpochsOf(b)'
<1>1. OnWay' = OnWay /\ InStaged' = InStaged /\ InStaged \subseteq OnWay /\ OnWay \subseteq JobIds
  BY DEF EpochFrame, OnWay, InStaged, OnItsWay
<1>2. \A j \in OnWay : job'[j] = job[j]
  BY DEF EpochFrame, OnWay
<1>3. order' = order /\ txn' = txn
  BY DEF EpochFrame
<1>4. \A q \in Queues : /\ Holds(q, b)' <=> Holds(q, b)
                        /\ Drains(q, b)' => Drains(q, b)
                        /\ (Holds(q, b) \/ Drains(q, b)') => call'[q].waits[b] = call[q].waits[b]
  BY DEF EpochFrame
<1>5. Numbers(b, order[b])' /\ (txn # NoTxn => Numbers(b, Base(b))')
  BY <1>3 DEF EpochFrame, EpochsOf, Restorable, Numbers, Base
<1>6. Claims(b, order[b], OnWay)' /\ (txn # NoTxn => Claims(b, Base(b), InStaged)')
  BY <1>1, <1>2, <1>3, <1>4 DEF EpochsOf, Restorable, Claims, Base
<1>7. Fills(b, order[b], OnWay)'
  BY <1>1, <1>2, <1>3, <1>4 DEF EpochsOf, Fills, EpochFrame
<1>8. txn # NoTxn => Fills(b, Base(b), InStaged)'
  BY <1>1, <1>2, <1>3, <1>4 DEF EpochsOf, Restorable, Fills, Base, EpochFrame
<1>9. Distinct(b)'
  BY <1>1, <1>2 DEF EpochsOf, Distinct
<1>10. Draining(b)'
  BY <1>3, <1>4 DEF EpochFrame, EpochsOf, Draining, External
<1>11. Restorable(b)'
  BY <1>3, <1>5, <1>6, <1>8 DEF EpochsOf, Restorable, Base
<1>. QED  BY <1>5, <1>6, <1>7, <1>9, <1>10, <1>11 DEF EpochsOf

-----------------------------------------------------------------------------
(* The epochs that an enqueue reserves and gives back.                      *)

LEMMA FreeOnWay == ASSUME TxnInv, txn = NoTxn PROVE OnWay = InStaged
BY DEF TxnInv, Building, OnWay, InStaged, OnItsWay

LEMMA BeginEpochs ==
    ASSUME TypeInv, TxnInv, NEW b \in Binaries, EpochsOf(b),
           NEW q \in Queues, NEW sparse, EnqueueBegin(q, sparse)
    PROVE  EpochsOf(b)'
<1>1. /\ UNCHANGED <<stage, job, order, call, failed, nat>>
      /\ txn'.before[b] = Untouched /\ txn = NoTxn
  BY DEF EnqueueBegin, env, MutexFree
<1>2. OnWay' = OnWay /\ InStaged' = InStaged /\ OnWay = InStaged
  BY <1>1, FreeOnWay DEF OnWay, InStaged, OnItsWay
<1>3. Numbers(b, order[b])' /\ Claims(b, order[b], OnWay)' /\ Fills(b, order[b], OnWay)' /\ Distinct(b)'
  BY <1>1, <1>2 DEF EpochsOf, Numbers, Claims, Fills, Distinct, Holds
<1>4. Draining(b)'
  BY <1>1 DEF EpochsOf, Draining, Drains, External
<1>5. Base(b)' = order'[b]
  BY <1>1 DEF Base
<1>6. Restorable(b)'
  BY <1>1, <1>2, <1>3, <1>5 DEF Restorable, Numbers, Claims, Fills, Holds
<1>. QED  BY <1>3, <1>4, <1>6 DEF EpochsOf

LEMMA OrderedWaitFields ==
    ASSUME NEW o \in BinaryOrder
    PROVE  /\ OrderedWait(o) \in BinaryOrder
           /\ OrderedWait(o).submitted_waits = o.submitted_waits
           /\ OrderedWait(o).waits = o.waits + 1
           /\ OrderedWait(o).signals = Larger(o.signals, o.waits + 1)
           /\ OrderedWait(o).submitted_signals =
                 IF o.signals < o.waits + 1 THEN Larger(o.submitted_signals, o.waits + 1)
                 ELSE o.submitted_signals
<1>. DEFINE e == o.waits + 1
            l == Larger(o.signals, e)
            k == IF o.signals < e THEN Larger(o.submitted_signals, e) ELSE o.submitted_signals
<1>1. e \in Nat /\ o.signals \in Nat /\ o.submitted_signals \in Nat
  BY DEF BinaryOrder
<1>2. l \in Nat /\ k \in Nat
  BY <1>1, LargerNat
<1>3. OrderedWait(o) = [o EXCEPT !.waits = e, !.signals = l, !.submitted_signals = k]
  BY DEF OrderedWait
<1>4. l = Larger(o.signals, o.waits + 1) /\ e = o.waits + 1
      /\ k = IF o.signals < o.waits + 1 THEN Larger(o.submitted_signals, o.waits + 1)
             ELSE o.submitted_signals
  OBVIOUS
<1>. HIDE DEF e, l, k
<1>. QED  BY <1>1, <1>2, <1>3, <1>4 DEF BinaryOrder

\* The counters after a batch has reserved its operations on b: its wait has the
\* epoch w, its signal the epoch f.
LEMMA ReserveEpochs ==
    ASSUME TypeOK, NEW b \in Binaries, EpochsOf(b), NEW batch \in Batch, ValidBatch(batch),
           NEW o, o = Reserve(batch, b),
           NEW w, w = IF b \in batch.bwaits THEN order[b].waits + 1 ELSE 0,
           NEW f, f = IF b \in batch.bsignals THEN o.signals ELSE 0
    PROVE  /\ o \in BinaryOrder
           /\ o.submitted_waits = order[b].submitted_waits /\ o.waits >= order[b].waits
           /\ o.signals >= order[b].signals /\ o.submitted_signals >= order[b].submitted_signals
           /\ Numbers(b, o)
           /\ o.waits = IF w # 0 THEN w ELSE order[b].waits
           /\ f # 0 => f > order[b].signals /\ f > o.submitted_signals
           /\ \A e \in Nat : (o.submitted_signals < e /\ e <= o.signals) =>
                 e = f \/ (order[b].submitted_signals < e /\ e <= order[b].signals)
           /\ \A e \in Nat : (order[b].submitted_signals < e /\ e <= order[b].signals) =>
                 o.submitted_signals < e
           /\ b \in batch.bwaits => o.signals > o.submitted_waits
           /\ b \in batch.bsignals => o.signals > o.submitted_waits
           /\ b \notin batch.bwaits => o.submitted_signals = order[b].submitted_signals
           /\ (b \notin batch.bwaits /\ b \notin batch.bsignals) => o = order[b]
<1>0. /\ order[b] \in BinaryOrder
      /\ order[b].waits \in Nat /\ order[b].signals \in Nat
      /\ order[b].submitted_waits \in Nat /\ order[b].submitted_signals \in Nat
      /\ nat[b].signals \in Nat
  BY EpochNumbers DEF TypeOK
<1>. DEFINE m == IF b \in batch.bwaits THEN OrderedWait(order[b]) ELSE order[b]
<1>1. /\ m \in BinaryOrder
      /\ m.submitted_waits = order[b].submitted_waits /\ m.signals >= order[b].signals
      /\ m.submitted_signals >= order[b].submitted_signals
      /\ Numbers(b, m)
      /\ m.waits = IF w # 0 THEN w ELSE order[b].waits
      /\ \A e \in Nat : (m.submitted_signals < e /\ e <= m.signals) =>
            (order[b].submitted_signals < e /\ e <= order[b].signals)
      /\ \A e \in Nat : (order[b].submitted_signals < e /\ e <= order[b].signals) =>
            m.submitted_signals < e
      /\ b \in batch.bwaits => m.signals > m.submitted_waits
      /\ b \in batch.bsignals => nat[b].signals = m.submitted_signals
      /\ b \notin batch.bwaits => m = order[b]
  <2>1. CASE b \notin batch.bwaits
    BY <1>0, <2>1 DEF EpochsOf, Numbers, ValidBatch, External
  <2>2. CASE b \in batch.bwaits
    <3>1. /\ m = OrderedWait(order[b]) /\ w = order[b].waits + 1 /\ w # 0
          /\ order[b].signals > order[b].waits \/ External(b)
      BY <1>0, <2>2 DEF ValidBatch
    <3>2. Numbers(b, order[b])
      BY DEF EpochsOf
    <3>3. CASE order[b].signals > order[b].waits
      <4>0. /\ Larger(order[b].signals, order[b].waits + 1) = order[b].signals
            /\ ~(order[b].signals < order[b].waits + 1)
        BY <1>0, <3>3 DEF Larger
      <4>. HIDE DEF m
      <4>2. /\ m \in BinaryOrder
            /\ m.submitted_waits = order[b].submitted_waits /\ m.waits = order[b].waits + 1
            /\ m.signals = order[b].signals /\ m.submitted_signals = order[b].submitted_signals
        BY <1>0, <3>1, <4>0, OrderedWaitFields
      <4>3. nat[b].signals = m.submitted_signals
        BY <1>0, <3>2, <3>3, <4>2 DEF Numbers
      <4>4. Numbers(b, m)
        BY <1>0, <3>2, <3>3, <4>2, <4>3 DEF Numbers
      <4>5. m.signals > m.submitted_waits
        BY <1>0, <3>2, <3>3, <4>2 DEF Numbers
      <4>. QED  BY <1>0, <2>2, <3>1, <4>2, <4>3, <4>4, <4>5
    <3>4. CASE ~(order[b].signals > order[b].waits)
      <4>1. /\ order[b].signals = order[b].waits /\ order[b].submitted_waits = order[b].waits
            /\ order[b].submitted_signals = order[b].waits
            /\ nat[b].signals = order[b].submitted_signals + 1
        BY <1>0, <3>1, <3>2, <3>4 DEF Numbers, External
      <4>2. /\ Larger(order[b].signals, order[b].waits + 1) = order[b].waits + 1
            /\ Larger(order[b].submitted_signals, order[b].waits + 1) = order[b].waits + 1
            /\ order[b].signals < order[b].waits + 1
        BY <1>0, <4>1 DEF Larger
      <4>. HIDE DEF m
      <4>4. /\ m \in BinaryOrder
            /\ m.submitted_waits = order[b].waits /\ m.waits = order[b].waits + 1
            /\ m.signals = order[b].waits + 1 /\ m.submitted_signals = order[b].waits + 1
        BY <1>0, <3>1, <4>1, <4>2, OrderedWaitFields
      <4>5. Numbers(b, m)
        BY <1>0, <4>1, <4>4 DEF Numbers
      <4>. QED  BY <1>0, <2>2, <3>1, <4>1, <4>4, <4>5
    <3>. QED  BY <3>3, <3>4
  <2>. QED  BY <2>1, <2>2
<1>2. o = IF b \in batch.bsignals THEN OrderedSignal(m) ELSE m
  BY DEF Reserve
<1>. HIDE DEF m
<1>3. CASE b \notin batch.bsignals
  BY <1>0, <1>1, <1>2, <1>3
<1>4. CASE b \in batch.bsignals
  <2>1. /\ o \in BinaryOrder
        /\ o.submitted_waits = m.submitted_waits /\ o.waits = m.waits
        /\ o.signals = m.signals + 1 /\ o.submitted_signals = m.submitted_signals
    BY <1>1, <1>2, <1>4 DEF OrderedSignal, BinaryOrder
  <2>2. /\ m.waits \in Nat /\ m.signals \in Nat
        /\ m.submitted_waits \in Nat /\ m.submitted_signals \in Nat
    BY <1>1 DEF BinaryOrder
  <2>3. f = m.signals + 1
    BY <1>4, <2>1
  <2>4. Numbers(b, o)
    BY <1>0, <1>1, <1>4, <2>1, <2>2 DEF Numbers
  <2>5. o.signals > o.submitted_waits /\ m.submitted_signals <= m.signals
    BY <1>1, <2>1, <2>2 DEF Numbers
  <2>6. \A e \in Nat : (o.submitted_signals < e /\ e <= o.signals) =>
                 e = f \/ (order[b].submitted_signals < e /\ e <= order[b].signals)
    BY <1>1, <2>1, <2>2, <2>3
  <2>. QED  BY <1>0, <1>1, <1>4, <2>1, <2>2, <2>3, <2>4, <2>5, <2>6
<1>. QED  BY <1>3, <1>4

LEMMA BatchEpochs ==
    ASSUME TypeInv, OrderInv, NEW b \in Binaries, EpochsOf(b),
           NEW j \in JobIds, NEW batch \in Batches, EnqueueBatch(j, batch)
    PROVE  EpochsOf(b)'
<1>. DEFINE o == Reserve(batch, b)
            w == IF b \in batch.bwaits THEN order[b].waits + 1 ELSE 0
            f == IF b \in batch.bsignals THEN o.signals ELSE 0
<1>0. TypeOK /\ batch \in Batch /\ ValidBatch(batch) /\ txn \in Transaction /\ txn # NoTxn
  BY BatchesAssumption DEF TypeInv, TypeOK, EnqueueBatch
<1>1. /\ order[b].waits \in Nat /\ order[b].signals \in Nat
      /\ order[b].submitted_waits \in Nat /\ order[b].submitted_signals \in Nat
      /\ \A i \in JobIds : job[i].bwaits[b] \in Nat /\ job[i].bsignals[b] \in Nat
      /\ \A q \in Queues : call[q].waits[b] \in Nat
  BY <1>0, EpochNumbers
<1>2. /\ o \in BinaryOrder
      /\ o.submitted_waits = order[b].submitted_waits /\ o.waits >= order[b].waits
      /\ o.signals >= order[b].signals /\ o.submitted_signals >= order[b].submitted_signals
      /\ Numbers(b, o)
      /\ o.waits = IF w # 0 THEN w ELSE order[b].waits
      /\ f # 0 => f > order[b].signals /\ f > o.submitted_signals
      /\ \A e \in Nat : (o.submitted_signals < e /\ e <= o.signals) =>
            e = f \/ (order[b].submitted_signals < e /\ e <= order[b].signals)
      /\ \A e \in Nat : (order[b].submitted_signals < e /\ e <= order[b].signals) =>
            o.submitted_signals < e
      /\ b \in batch.bwaits => o.signals > o.submitted_waits
      /\ b \in batch.bsignals => o.signals > o.submitted_waits
      /\ b \notin batch.bwaits => o.submitted_signals = order[b].submitted_signals
      /\ (b \notin batch.bwaits /\ b \notin batch.bsignals) => o = order[b]
  BY <1>0, ReserveEpochs
<1>3. /\ UNCHANGED <<call, failed, nat>>
      /\ order'[b] = o /\ job'[j].bwaits[b] = w /\ job'[j].bsignals[b] = f
      /\ \A i \in JobIds : i # j => job'[i] = job[i] /\ stage'[i] = stage[i]
      /\ stage[j] = "unused" /\ stage'[j] = "building"
  BY <1>0 DEF EnqueueBatch, NextJob, JobOf, TypeOK, env
<1>4. /\ txn' # NoTxn
      /\ txn'.before[b] = IF b \in batch.bwaits \cup batch.bsignals /\ txn.before[b] = Untouched
                          THEN order[b] ELSE txn.before[b]
  <2>1. Touch(txn.before, batch) \in [Binaries -> BinaryOrder \cup {Untouched}]
    BY <1>0 DEF Touch, Transaction, TypeOK
  <2>2. txn' = [txn EXCEPT !.before = Touch(txn.before, batch)]
    BY DEF EnqueueBatch
  <2>3. txn' \in Transaction
    BY <1>0, <2>1, <2>2 DEF Transaction
  <2>. QED  BY <1>0, <2>2, <2>3, NullsAssumption DEF Touch, Transaction
<1>5. /\ w # 0 <=> b \in batch.bwaits
      /\ w \in Nat /\ f \in Nat /\ (f # 0 => f = o.signals /\ b \in batch.bsignals)
      /\ w # 0 => w = order[b].waits + 1
      /\ w # 0 => ~InPresent(b)
      /\ b \in batch.bsignals => w # 0 \/ (order[b].signals = order[b].waits /\ ~External(b))
  <2>1. o.signals \in Nat
    BY <1>2 DEF BinaryOrder
  <2>. QED  BY <1>0, <1>1, <2>1 DEF ValidBatch
<1>6. o.waits \in Nat /\ o.signals \in Nat /\ o.submitted_waits \in Nat /\ o.submitted_signals \in Nat
  BY <1>2 DEF BinaryOrder
<1>. HIDE DEF o, w, f
<1>7. OnWay' = OnWay \cup {j} /\ InStaged' = InStaged /\ j \notin OnWay /\ InStaged \subseteq OnWay
  BY <1>3 DEF OnWay, InStaged, OnItsWay
<1>8. OnWay \subseteq JobIds /\ \A i \in OnWay : job'[i] = job[i]
  BY <1>3, <1>7 DEF OnWay
<1>9. \A q \in Queues : (Holds(q, b)' <=> Holds(q, b)) /\ (Drains(q, b)' <=> Drains(q, b))
  BY <1>3 DEF Holds, Drains
<1>10. \A q \in Queues : Holds(q, b) \/ Drains(q, b) => w = 0
  BY <1>5 DEF InPresent, Holds, Drains
<1>11. Numbers(b, order[b])'
  BY <1>2, <1>3 DEF Numbers
<1>12. \A i \in OnWay :
          /\ job[i].bwaits[b] # 0 =>
                order[b].submitted_waits < job[i].bwaits[b] /\ job[i].bwaits[b] <= order[b].waits
          /\ job[i].bsignals[b] # 0 =>
                o.submitted_signals < job[i].bsignals[b] /\ job[i].bsignals[b] <= order[b].signals
  BY <1>1, <1>2, <1>8 DEF EpochsOf, Claims
<1>13. \A i \in OnWay :
          /\ job[i].bwaits[b] # 0 => o.submitted_waits < job[i].bwaits[b] /\ job[i].bwaits[b] <= o.waits
          /\ job[i].bsignals[b] # 0 =>
                o.submitted_signals < job[i].bsignals[b] /\ job[i].bsignals[b] <= o.signals
  BY <1>1, <1>2, <1>6, <1>8, <1>12
<1>14. Claims(b, order[b], OnWay)'
  <2>1. /\ w # 0 => o.submitted_waits < w /\ w <= o.waits
        /\ f # 0 => o.submitted_signals < f /\ f <= o.signals
    BY <1>1, <1>2, <1>5, <1>6 DEF EpochsOf, Numbers
  <2>2. ASSUME NEW q \in Queues, Holds(q, b)
        PROVE  /\ o.waits = call[q].waits[b]
               /\ o.submitted_waits < o.waits /\ o.waits <= o.submitted_signals
               /\ \A i \in OnWay : job[i].bwaits[b] # o.waits
               /\ w # o.waits
    BY <1>1, <1>2, <1>5, <1>6, <1>10, <2>2 DEF EpochsOf, Claims
  <2>. QED  BY <1>3, <1>7, <1>8, <1>9, <1>13, <2>1, <2>2 DEF Claims
<1>15. Fills(b, order[b], OnWay)'
  <2>1. ASSUME NEW e \in o.submitted_signals + 1 .. o.signals
        PROVE  \E i \in OnWay \cup {j} : job'[i].bsignals[b] = e
    <3>1. e \in Nat /\ o.submitted_signals < e /\ e <= o.signals
      BY <1>6
    <3>2. e = f \/ e \in order[b].submitted_signals + 1 .. order[b].signals
      BY <1>1, <1>2, <3>1
    <3>. QED  BY <1>3, <1>8, <3>2 DEF EpochsOf, Fills
  <2>2. ASSUME ~failed, NEW e \in o.submitted_waits + 1 .. o.waits
        PROVE  \/ \E i \in OnWay \cup {j} : job'[i].bwaits[b] = e
               \/ \E q \in Queues : Holds(q, b) /\ call[q].waits[b] = e
    <3>1. e = w \/ e \in order[b].submitted_waits + 1 .. order[b].waits
      BY <1>1, <1>2, <1>5, <1>6
    <3>. QED  BY <1>3, <1>8, <2>2, <3>1 DEF EpochsOf, Fills
  <2>. QED  BY <1>3, <1>7, <1>9, <2>1, <2>2 DEF Fills
<1>16. Distinct(b)'
  <2>1. \A i \in OnWay : /\ job[i].bwaits[b] # 0 => job[i].bwaits[b] # w
                         /\ job[i].bsignals[b] # 0 => job[i].bsignals[b] # f
    BY <1>1, <1>2, <1>5, <1>8, <1>12
  <2>. QED  BY <1>3, <1>7, <1>8, <2>1 DEF EpochsOf, Distinct
<1>17. Draining(b)'
  <2>. SUFFICES ASSUME NEW q \in Queues, Drains(q, b)
                PROVE  /\ call[q].waits[b] = order'[b].waits + 1
                       /\ order'[b].signals > order'[b].waits \/ External(b)'
                       /\ txn'.before[b] = Untouched
    BY <1>3, <1>9 DEF Draining
  <2>1. /\ call[q].waits[b] = order[b].waits + 1
        /\ order[b].signals > order[b].waits \/ External(b)
        /\ txn.before[b] = Untouched
    BY <1>0 DEF EpochsOf, Draining
  <2>2. b \notin batch.bwaits /\ b \notin batch.bsignals
    BY <1>1, <1>5, <1>10, <2>1
  <2>. QED  BY <1>2, <1>3, <1>4, <2>1, <2>2 DEF External
<1>18. Restorable(b)'
  <2>1. Base(b)' = Base(b)
    <3>1. order[b] # Untouched
      BY <1>0, NullsAssumption DEF TypeOK
    <3>. QED  BY <1>2, <1>3, <1>4, <3>1 DEF Base
  <2>2. /\ Numbers(b, Base(b)) /\ Claims(b, Base(b), InStaged) /\ Fills(b, Base(b), InStaged)
        /\ Base(b).submitted_waits = order[b].submitted_waits
        /\ txn.before[b] # Untouched => order[b].signals > order[b].submitted_waits
    BY <1>0 DEF EpochsOf, Restorable
  <2>3. Numbers(b, Base(b))' /\ Claims(b, Base(b), InStaged)'
    BY <1>3, <1>7, <1>8, <1>9, <2>1, <2>2 DEF Numbers, Claims
  <2>4. Fills(b, Base(b), InStaged)'
    BY <1>3, <1>7, <1>8, <1>9, <2>1, <2>2 DEF Fills
  <2>5. txn'.before[b] # Untouched => order'[b].signals > order'[b].submitted_waits
    BY <1>1, <1>2, <1>3, <1>4, <1>6, <2>2
  <2>. QED  BY <1>2, <1>3, <2>1, <2>2, <2>3, <2>4, <2>5 DEF Restorable
<1>. QED  BY <1>11, <1>14, <1>15, <1>16, <1>17, <1>18 DEF EpochsOf

LEMMA FailEpochs ==
    ASSUME TypeInv, OrderInv, NEW b \in Binaries, EpochsOf(b), EnqueueFail PROVE EpochsOf(b)'
<1>0. TypeOK /\ txn # NoTxn
  BY DEF TypeInv, EnqueueFail
<1>1. /\ UNCHANGED <<call, failed, nat>> /\ txn' = NoTxn /\ order'[b] = Base(b)
      /\ \A j \in JobIds : IF stage[j] = "building" THEN stage'[j] = "unused"
                           ELSE stage'[j] = stage[j] /\ job'[j] = job[j]
  BY DEF EnqueueFail, Base, Building, env
<1>2. OnWay' = InStaged /\ InStaged \subseteq OnWay /\ \A j \in InStaged : job'[j] = job[j]
  BY <1>1 DEF OnWay, InStaged, OnItsWay
<1>3. \A q \in Queues : (Holds(q, b)' <=> Holds(q, b)) /\ (Drains(q, b)' <=> Drains(q, b))
  BY <1>1 DEF Holds, Drains
<1>4. Numbers(b, Base(b)) /\ Claims(b, Base(b), InStaged) /\ Fills(b, Base(b), InStaged)
  BY <1>0 DEF EpochsOf, Restorable
<1>5. Numbers(b, order[b])' /\ Claims(b, order[b], OnWay)'
  BY <1>1, <1>2, <1>3, <1>4 DEF Numbers, Claims
<1>6. Fills(b, order[b], OnWay)'
  BY <1>1, <1>2, <1>3, <1>4 DEF Fills
<1>7. Distinct(b)'
  BY <1>2 DEF EpochsOf, Distinct
<1>8. Draining(b)'
  BY <1>0, <1>1, <1>3 DEF EpochsOf, Draining, Base, External
<1>. QED  BY <1>1, <1>5, <1>6, <1>7, <1>8 DEF EpochsOf, Restorable

\* The batches of the transaction, and the fence job, are staged.
LEMMA CommitEpochs ==
    ASSUME TypeInv, OrderInv, NEW b \in Binaries, EpochsOf(b),
           EnqueueCommit \/ \E j \in JobIds : EnqueueCommitFence(j)
    PROVE  EpochsOf(b)'
<1>0. TypeOK /\ \A i \in JobIds : NoJob.bwaits[b] = 0 /\ NoJob.bsignals[b] = 0
  BY DEF TypeInv, NoJob, NoEpochs
<1>1. /\ UNCHANGED <<order, call, failed, nat>> /\ txn' = NoTxn
  BY DEF EnqueueCommit, EnqueueCommitFence, env
<1>2. /\ \A i \in OnWay : OnItsWay(i)' /\ job'[i] = job[i]
      /\ \A i \in JobIds : OnItsWay(i)' => i \in OnWay \/ (job'[i].bwaits[b] = 0 /\ job'[i].bsignals[b] = 0)
  <2>1. CASE EnqueueCommit
    BY <2>1 DEF EnqueueCommit, Splice, Building, OnWay, OnItsWay
  <2>2. ASSUME NEW j \in JobIds, EnqueueCommitFence(j) PROVE <1>2!1 /\ <1>2!2
    <3>1. /\ stage[j] = "unused" /\ stage'[j] = "staged"
          /\ \A i \in JobIds : i # j => /\ job'[i] = job[i]
                                        /\ stage'[i] = IF stage[i] = "building" THEN "staged" ELSE stage[i]
      BY <1>0, <2>2 DEF EnqueueCommitFence, NextJob, Splice, Building, TypeOK
    <3>2. job'[j].bwaits[b] = 0 /\ job'[j].bsignals[b] = 0
      BY <1>0, <2>2 DEF EnqueueCommitFence, TypeOK, NoJob
    <3>. QED  BY <3>1, <3>2 DEF OnWay, OnItsWay
  <2>. QED  BY <2>1, <2>2
<1>3. /\ OnWay \subseteq OnWay'
      /\ \A i \in OnWay : job'[i] = job[i]
      /\ \A i \in OnWay' : i \in OnWay \/ (job'[i].bwaits[b] = 0 /\ job'[i].bsignals[b] = 0)
  BY <1>2 DEF OnWay
<1>4. \A q \in Queues : (Holds(q, b)' <=> Holds(q, b)) /\ (Drains(q, b)' <=> Drains(q, b))
  BY <1>1 DEF Holds, Drains
<1>5. Numbers(b, order[b])'
  BY <1>1 DEF EpochsOf, Numbers
<1>6. Claims(b, order[b], OnWay)'
  <2>1. order[b].waits \in Nat /\ order[b].submitted_waits \in Nat
    BY <1>0, EpochNumbers
  <2>. QED  BY <1>1, <1>3, <1>4, <2>1 DEF EpochsOf, Claims
<1>7. Fills(b, order[b], OnWay)'
  BY <1>1, <1>3, <1>4 DEF EpochsOf, Fills
<1>8. Distinct(b)'
  BY <1>3 DEF EpochsOf, Distinct
<1>9. Draining(b)'
  BY <1>1, <1>4 DEF EpochsOf, Draining, External
<1>. QED  BY <1>1, <1>5, <1>6, <1>7, <1>8, <1>9 DEF EpochsOf, Restorable

-----------------------------------------------------------------------------
(* The epochs that a dispatch, a present and an acquire submit.             *)

LEMMA LargerIs ==
    ASSUME NEW a \in Nat, NEW c \in Nat
    PROVE  Larger(a, c) \in Nat /\ (c <= a => Larger(a, c) = a) /\ (a <= c => Larger(a, c) = c)
BY DEF Larger

\* The wait that a dispatch submits is the next one, for the last signal; a signal
\* is the next one, and the wait for the one before it is with the driver too.
LEMMA DispatchNumbers ==
    ASSUME TypeInv, OrderInv, NEW b \in Binaries, EpochsOf(b),
           NEW q \in Queues, NEW j \in JobIds, Dispatch(q, j),
           NEW w, w = job[j].bwaits[b], NEW f, f = job[j].bsignals[b]
    PROVE  /\ w \in Nat /\ f \in Nat
           /\ w # 0 => w = order[b].submitted_waits + 1 /\ w = order[b].submitted_signals
           /\ f # 0 => /\ f = order[b].submitted_signals + 1 /\ f <= order[b].signals
                       /\ IF w # 0 THEN w = order[b].submitted_signals
                          ELSE order[b].submitted_signals = order[b].submitted_waits
           /\ w <= order[b].waits
           /\ order'[b].waits = order[b].waits /\ order'[b].signals = order[b].signals
           /\ order'[b].submitted_waits =
                 IF w # 0 THEN order[b].submitted_waits + 1 ELSE order[b].submitted_waits
           /\ order'[b].submitted_signals =
                 IF f # 0 THEN order[b].submitted_signals + 1 ELSE order[b].submitted_signals
           /\ nat'[b].signals = IF f # 0 THEN nat[b].signals + 1 ELSE nat[b].signals
           /\ \A r \in Queues : Holds(r, b) => w = 0 /\ f = 0
<1>. DEFINE o == order'[b]
<1>0. TypeOK
  BY DEF TypeInv
<1>1. /\ order[b].waits \in Nat /\ order[b].signals \in Nat
      /\ order[b].submitted_waits \in Nat /\ order[b].submitted_signals \in Nat
      /\ nat[b].signals \in Nat
      /\ \A i \in JobIds : job[i].bwaits[b] \in Nat /\ job[i].bsignals[b] \in Nat
      /\ \A r \in Queues : call[r].waits[b] \in Nat
      /\ w \in Nat /\ f \in Nat
  BY <1>0, EpochNumbers
<1>2. /\ stage[j] = "staged" /\ txn = NoTxn /\ txn' = txn /\ call' = call /\ failed' = failed
      /\ \A i \in JobIds : i # j => job'[i] = job[i] /\ stage'[i] = stage[i]
      /\ ~OnItsWay(j)'
  BY <1>0, DispatchStages DEF OnItsWay
<1>3. /\ o.waits = order[b].waits /\ o.signals = order[b].signals
      /\ o.submitted_waits = Larger(order[b].submitted_waits, w)
      /\ o.submitted_signals = Larger(order[b].submitted_signals, f)
      /\ nat'[b].signals = IF f # 0 THEN nat[b].signals + 1 ELSE nat[b].signals
  <2>1. order[b] \in BinaryOrder
    BY <1>0 DEF TypeOK
  <2>2. order'[b] = [order[b] EXCEPT !.submitted_waits = Larger(order[b].submitted_waits, w),
                                     !.submitted_signals = Larger(order[b].submitted_signals, f)]
    BY DEF Dispatch, Submitted
  <2>. QED  BY <2>1, <2>2 DEF BinaryOrder, Dispatch, Counted
<1>4. /\ order[b].submitted_signals >= w
      /\ \/ f = 0
         \/ order[b].submitted_waits >= f - 1
         \/ w # 0 /\ w >= f - 1
  BY DEF Dispatch, MayDispatch, Ready, BinaryReady
<1>5. j \in OnWay /\ OnWay \subseteq JobIds
  BY <1>2 DEF OnWay, OnItsWay
<1>6. /\ w # 0 => order[b].submitted_waits < w /\ w <= order[b].waits
      /\ f # 0 => order[b].submitted_signals < f /\ f <= order[b].signals
      /\ Numbers(b, order[b])
  BY <1>5 DEF EpochsOf, Claims
<1>. HIDE DEF o
<1>7. /\ w # 0 => w = order[b].submitted_waits + 1 /\ w = order[b].submitted_signals
      /\ f # 0 => /\ f = order[b].submitted_signals + 1
                  /\ IF w # 0 THEN w = order[b].submitted_signals
                     ELSE order[b].submitted_signals = order[b].submitted_waits
  BY <1>1, <1>4, <1>6 DEF Numbers
<1>8. /\ o.submitted_waits = IF w # 0 THEN order[b].submitted_waits + 1 ELSE order[b].submitted_waits
      /\ o.submitted_signals = IF f # 0 THEN order[b].submitted_signals + 1
                               ELSE order[b].submitted_signals
  <2>1. ASSUME NEW a \in Nat, NEW c \in Nat, c # 0 => c = a + 1
        PROVE  Larger(a, c) = IF c # 0 THEN a + 1 ELSE a
    BY <2>1, LargerIs
  <2>2. /\ Larger(order[b].submitted_waits, w) =
              IF w # 0 THEN order[b].submitted_waits + 1 ELSE order[b].submitted_waits
        /\ Larger(order[b].submitted_signals, f) =
              IF f # 0 THEN order[b].submitted_signals + 1 ELSE order[b].submitted_signals
    BY <1>1, <1>7, <2>1
  <2>. QED  BY <1>3, <2>2
<1>9. \A r \in Queues : Holds(r, b) => w = 0 /\ f = 0
  <2>. SUFFICES ASSUME NEW r \in Queues, Holds(r, b) PROVE w = 0 /\ f = 0
    OBVIOUS
  <2>1. /\ order[b].submitted_waits < order[b].waits /\ order[b].waits <= order[b].submitted_signals
        /\ w # order[b].waits
    BY <1>5 DEF EpochsOf, Claims
  <2>. QED  BY <1>1, <1>6, <1>7, <2>1 DEF Numbers
<1>. QED  BY <1>1, <1>3, <1>6, <1>7, <1>8, <1>9 DEF o

LEMMA DispatchEpochs ==
    ASSUME TypeInv, OrderInv, NEW b \in Binaries, EpochsOf(b),
           NEW q \in Queues, NEW j \in JobIds, Dispatch(q, j)
    PROVE  EpochsOf(b)'
<1>. DEFINE w == job[j].bwaits[b]
            f == job[j].bsignals[b]
            o == order'[b]
<1>0. TypeOK
  BY DEF TypeInv
<1>1. /\ order[b].waits \in Nat /\ order[b].signals \in Nat
      /\ order[b].submitted_waits \in Nat /\ order[b].submitted_signals \in Nat
      /\ nat[b].signals \in Nat
      /\ \A i \in JobIds : job[i].bwaits[b] \in Nat /\ job[i].bsignals[b] \in Nat
      /\ \A r \in Queues : call[r].waits[b] \in Nat
  BY <1>0, EpochNumbers
<1>2. /\ stage[j] = "staged" /\ txn = NoTxn /\ txn' = txn /\ call' = call /\ failed' = failed
      /\ \A i \in JobIds : i # j => job'[i] = job[i] /\ stage'[i] = stage[i]
      /\ ~OnItsWay(j)'
  BY <1>0, DispatchStages DEF OnItsWay
<1>3. /\ w \in Nat /\ f \in Nat
      /\ w # 0 => w = order[b].submitted_waits + 1 /\ w = order[b].submitted_signals
      /\ f # 0 => /\ f = order[b].submitted_signals + 1 /\ f <= order[b].signals
                  /\ IF w # 0 THEN w = order[b].submitted_signals
                     ELSE order[b].submitted_signals = order[b].submitted_waits
      /\ w <= order[b].waits
      /\ o.waits = order[b].waits /\ o.signals = order[b].signals
      /\ o.submitted_waits =
            IF w # 0 THEN order[b].submitted_waits + 1 ELSE order[b].submitted_waits
      /\ o.submitted_signals =
            IF f # 0 THEN order[b].submitted_signals + 1 ELSE order[b].submitted_signals
      /\ nat'[b].signals = IF f # 0 THEN nat[b].signals + 1 ELSE nat[b].signals
      /\ \A r \in Queues : Holds(r, b) => w = 0 /\ f = 0
  BY DispatchNumbers
<1>5. j \in OnWay /\ OnWay \subseteq JobIds /\ OnWay' = OnWay \ {j}
  BY <1>2 DEF OnWay, OnItsWay
<1>6. Numbers(b, order[b])
  BY DEF EpochsOf
<1>. HIDE DEF w, f, o
<1>10. \A r \in Queues : (Holds(r, b)' <=> Holds(r, b)) /\ (Drains(r, b)' <=> Drains(r, b))
  BY <1>2 DEF Holds, Drains
<1>11. Numbers(b, order[b])'
  BY <1>1, <1>3, <1>6 DEF Numbers, o
<1>12. \A i \in OnWay \ {j} :
          /\ job[i].bwaits[b] # 0 => o.submitted_waits < job[i].bwaits[b]
          /\ job[i].bsignals[b] # 0 => o.submitted_signals < job[i].bsignals[b]
  <2>. SUFFICES ASSUME NEW i \in OnWay \ {j}
                PROVE  /\ job[i].bwaits[b] # 0 => o.submitted_waits < job[i].bwaits[b]
                       /\ job[i].bsignals[b] # 0 => o.submitted_signals < job[i].bsignals[b]
    OBVIOUS
  <2>1. /\ job[i].bwaits[b] # 0 => order[b].submitted_waits < job[i].bwaits[b] /\ job[i].bwaits[b] # w
        /\ job[i].bsignals[b] # 0 =>
              order[b].submitted_signals < job[i].bsignals[b] /\ job[i].bsignals[b] # f
    BY <1>5 DEF EpochsOf, Claims, Distinct, w, f
  <2>2. job[i].bwaits[b] \in Nat /\ job[i].bsignals[b] \in Nat
    BY <1>1, <1>5
  <2>. QED  BY <1>1, <1>3, <2>1, <2>2
<1>13. Claims(b, order[b], OnWay)'
  <2>1. \A i \in OnWay \ {j} : job'[i] = job[i]
    BY <1>2, <1>5
  <2>2. \A i \in OnWay \ {j} :
          /\ job[i].bwaits[b] # 0 => o.submitted_waits < job[i].bwaits[b] /\ job[i].bwaits[b] <= o.waits
          /\ job[i].bsignals[b] # 0 =>
                o.submitted_signals < job[i].bsignals[b] /\ job[i].bsignals[b] <= o.signals
    BY <1>3, <1>5, <1>12 DEF EpochsOf, Claims
  <2>3. \A r \in Queues : Holds(r, b) =>
          /\ o.waits = call[r].waits[b]
          /\ o.submitted_waits < o.waits /\ o.waits <= o.submitted_signals
          /\ \A i \in OnWay : job[i].bwaits[b] # o.waits
    BY <1>1, <1>3 DEF EpochsOf, Claims
  <2>. QED  BY <1>2, <1>5, <1>10, <2>1, <2>2, <2>3 DEF Claims, o
<1>14. Fills(b, order[b], OnWay)'
  <2>1. ASSUME NEW e \in o.submitted_signals + 1 .. o.signals
        PROVE  \E i \in OnWay \ {j} : job'[i].bsignals[b] = e
    <3>1. e \in order[b].submitted_signals + 1 .. order[b].signals /\ e # f
      BY <1>1, <1>3
    <3>2. PICK i \in OnWay : job[i].bsignals[b] = e
      BY <3>1 DEF EpochsOf, Fills
    <3>3. i # j
      BY <3>1, <3>2 DEF f
    <3>. QED  BY <1>2, <1>5, <3>2, <3>3
  <2>2. ASSUME ~failed, NEW e \in o.submitted_waits + 1 .. o.waits
        PROVE  \/ \E i \in OnWay \ {j} : job'[i].bwaits[b] = e
               \/ \E r \in Queues : Holds(r, b) /\ call[r].waits[b] = e
    <3>1. e \in order[b].submitted_waits + 1 .. order[b].waits /\ e # w
      BY <1>1, <1>3
    <3>2. ASSUME NEW i \in OnWay, job[i].bwaits[b] = e
          PROVE  i \in OnWay \ {j} /\ job'[i].bwaits[b] = e
      <4>1. i # j
        BY <3>1, <3>2 DEF w
      <4>. QED  BY <1>2, <1>5, <3>2, <4>1
    <3>. QED  BY <2>2, <3>1, <3>2 DEF EpochsOf, Fills
  <2>. QED  BY <1>2, <1>5, <1>10, <2>1, <2>2 DEF Fills, o
<1>15. Distinct(b)'
  BY <1>2, <1>5 DEF EpochsOf, Distinct
<1>16. Draining(b)'
  <2>. SUFFICES ASSUME NEW r \in Queues, Drains(r, b)
                PROVE  /\ call[r].waits[b] = o.waits + 1
                       /\ o.signals > o.waits \/ nat'[b].signals > o.submitted_signals
    BY <1>2, <1>10 DEF Draining, External, o
  <2>1. /\ call[r].waits[b] = order[b].waits + 1
        /\ order[b].signals > order[b].waits \/ nat[b].signals > order[b].submitted_signals
    BY DEF EpochsOf, Draining, External
  <2>. QED  BY <1>1, <1>3, <1>6, <2>1 DEF Numbers
<1>. QED  BY <1>2, <1>11, <1>13, <1>14, <1>15, <1>16 DEF EpochsOf, Restorable

LEMMA PresentBeginEpochs ==
    ASSUME TypeInv, OrderInv, NEW b \in Binaries, EpochsOf(b),
           NEW q \in Queues, NEW sems \in SUBSET Binaries, PresentBegin(q, sems)
    PROVE  EpochsOf(b)'
<1>. DEFINE ws == [c \in Binaries |-> IF c \in sems THEN order[c].waits + 1 ELSE 0]
<1>0. TypeOK
  BY DEF TypeInv
<1>1. /\ UNCHANGED <<stage, job, order, txn, failed, nat>> /\ txn = NoTxn
      /\ call' = [call EXCEPT ![q] = [pc |-> "present_drain", waits |-> ws]]
      /\ call[q].pc = "none"
      /\ b \in sems => order[b].signals > order[b].waits \/ External(b)
  BY DEF PresentBegin, QueueFree, MutexFree, env
<1>2. /\ call'[q] = [pc |-> "present_drain", waits |-> ws]
      /\ \A r \in Queues : r # q => call'[r] = call[r]
  BY <1>0, <1>1 DEF TypeOK
<1>3. call'[q].pc = "present_drain" /\ call'[q].waits[b] = IF b \in sems THEN order[b].waits + 1 ELSE 0
  BY <1>2
<1>. HIDE DEF ws
<1>4. \A r \in Queues : /\ Holds(r, b)' <=> Holds(r, b)
                        /\ Holds(r, b) => call'[r] = call[r]
  BY <1>1, <1>2, <1>3 DEF Holds, Reserved
<1>5. OnWay' = OnWay
  BY <1>1 DEF OnWay, OnItsWay
<1>6. Numbers(b, order[b])' /\ Claims(b, order[b], OnWay)' /\ Distinct(b)'
  BY <1>1, <1>4, <1>5 DEF EpochsOf, Numbers, Claims, Distinct
<1>7. Fills(b, order[b], OnWay)'
  BY <1>1, <1>4, <1>5 DEF EpochsOf, Fills
<1>8. Draining(b)'
  <2>. SUFFICES ASSUME NEW r \in Queues, Drains(r, b)'
                PROVE  /\ call'[r].waits[b] = order[b].waits + 1
                       /\ order[b].signals > order[b].waits \/ External(b)
    BY <1>1 DEF Draining, External
  <2>1. CASE r = q
    BY <1>1, <1>3, <2>1 DEF Drains
  <2>2. CASE r # q
    BY <1>2, <2>2 DEF EpochsOf, Draining, Drains
  <2>. QED  BY <2>1, <2>2
<1>. QED  BY <1>1, <1>6, <1>7, <1>8 DEF EpochsOf, Restorable

\* No other present waits for a semaphore that one waits for.
LEMMA OnePresent ==
    ASSUME PresentsHold, NEW b \in Binaries, NEW q \in Queues, call[q].waits[b] # 0
    PROVE  \A r \in Queues : Holds(r, b) \/ Drains(r, b) => r = q
BY DEF PresentsHold, Holds, Drains

LEMMA PresentReserveEpochs ==
    ASSUME TypeInv, OrderInv, NEW b \in Binaries, EpochsOf(b),
           NEW q \in Queues, PresentReserve(q)
    PROVE  EpochsOf(b)'
<1>. DEFINE e == call[q].waits[b]
            o == order'[b]
<1>0. TypeOK /\ PresentsHold
  BY DEF TypeInv
<1>1. /\ order[b].waits \in Nat /\ order[b].signals \in Nat
      /\ order[b].submitted_waits \in Nat /\ order[b].submitted_signals \in Nat
      /\ nat[b].signals \in Nat /\ e \in Nat
      /\ \A i \in JobIds : job[i].bwaits[b] \in Nat /\ job[i].bsignals[b] \in Nat
      /\ order[b] \in BinaryOrder
  BY <1>0, EpochNumbers DEF TypeOK
<1>2. /\ UNCHANGED <<stage, job, txn, failed, nat>> /\ txn = NoTxn
      /\ o = PresentOrder(b, e) /\ call[q].pc = "present_drain"
      /\ e # 0 => ~Unproduced(b, e)
  BY DEF PresentReserve, MutexFree, env
<1>3. /\ call'[q].pc = "presenting" /\ call'[q].waits = call[q].waits
      /\ \A r \in Queues : r # q => call'[r] = call[r]
  BY <1>0 DEF PresentReserve, Goto, TypeOK
<1>4. OnWay' = OnWay /\ OnWay \subseteq JobIds
  BY <1>2 DEF OnWay, OnItsWay
<1>5. Numbers(b, order[b])
  BY DEF EpochsOf
<1>6. /\ Holds(q, b)' <=> e # 0
      /\ ~Drains(q, b)' /\ ~Holds(q, b)
      /\ Drains(q, b) <=> e # 0
      /\ \A r \in Queues : r # q => (Holds(r, b)' <=> Holds(r, b)) /\ (Drains(r, b)' <=> Drains(r, b))
  BY <1>2, <1>3 DEF Holds, Drains, Reserved
<1>. HIDE DEF e, o
<1>7. CASE e = 0
  <2>1. order'[b] = order[b]
    BY <1>2, <1>7 DEF PresentOrder, o
  <2>2. Numbers(b, order[b])' /\ Claims(b, order[b], OnWay)' /\ Distinct(b)'
    BY <1>2, <1>3, <1>4, <1>6, <1>7, <2>1 DEF EpochsOf, Numbers, Claims, Distinct
  <2>3. Fills(b, order[b], OnWay)'
    BY <1>2, <1>3, <1>4, <1>6, <1>7, <2>1 DEF EpochsOf, Fills
  <2>4. Draining(b)'
    BY <1>2, <1>3, <1>6, <2>1 DEF EpochsOf, Draining, External
  <2>. QED  BY <1>2, <2>2, <2>3, <2>4 DEF EpochsOf, Restorable
<1>8. CASE e # 0
  <2>1. \A r \in Queues : Holds(r, b)' \/ Drains(r, b)' \/ Drains(r, b) => r = q
    BY <1>0, <1>6, <1>8, OnePresent DEF e
  <2>2. /\ e = order[b].waits + 1
        /\ order[b].signals > order[b].waits \/ nat[b].signals > order[b].submitted_signals
    BY <1>6, <1>8 DEF EpochsOf, Draining, External, e
  <2>3. ~(order[b].signals >= e /\ order[b].submitted_signals < e)
    BY <1>2, <1>8 DEF Unproduced
  <2>4. order[b].submitted_waits = order[b].waits
    BY <1>1, <1>5, <2>2, <2>3 DEF Numbers
  <2>5. /\ o.waits = e /\ o.submitted_waits = order[b].submitted_waits
        /\ o.signals = Larger(order[b].signals, e)
        /\ o.submitted_signals = IF order[b].signals < e THEN e ELSE order[b].submitted_signals
    BY <1>1, <1>2, <1>8 DEF PresentOrder, BinaryOrder
  <2>6. /\ o.waits = order[b].waits + 1 /\ o.submitted_waits = order[b].waits
        /\ o.submitted_signals = order[b].waits + 1
        /\ o.signals >= o.submitted_signals
        /\ nat[b].signals = o.submitted_signals
        /\ order[b].signals <= o.signals /\ o.signals \in Nat
        /\ \/ o.signals = order[b].signals /\ o.submitted_signals = order[b].submitted_signals
           \/ o.signals = o.submitted_signals /\ order[b].signals = order[b].submitted_signals
    <3>1. CASE order[b].signals < e
      <4>1. /\ order[b].signals = order[b].waits /\ order[b].submitted_signals = order[b].waits
            /\ nat[b].signals = order[b].waits + 1
        BY <1>1, <1>5, <2>2, <2>4, <3>1 DEF Numbers
      <4>2. o.signals = e
        BY <1>1, <2>5, <3>1, LargerIs
      <4>. QED  BY <1>1, <2>2, <2>4, <2>5, <3>1, <4>1, <4>2
    <3>2. CASE ~(order[b].signals < e)
      <4>1. /\ order[b].signals >= e /\ order[b].submitted_signals = e
            /\ nat[b].signals = e
        BY <1>1, <1>5, <2>2, <2>3, <2>4, <3>2 DEF Numbers
      <4>2. o.signals = order[b].signals
        BY <1>1, <2>5, <3>2, LargerIs
      <4>. QED  BY <1>1, <2>2, <2>4, <2>5, <3>2, <4>1, <4>2
    <3>. QED  BY <3>1, <3>2
  <2>7. Numbers(b, order[b])'
    BY <1>1, <1>2, <2>6 DEF Numbers, o
  <2>8. \A i \in OnWay :
          /\ job[i].bwaits[b] = 0
          /\ job[i].bsignals[b] # 0 =>
                o.submitted_signals < job[i].bsignals[b] /\ job[i].bsignals[b] <= o.signals
    <3>. SUFFICES ASSUME NEW i \in OnWay
                  PROVE  /\ job[i].bwaits[b] = 0
                         /\ job[i].bsignals[b] # 0 =>
                               o.submitted_signals < job[i].bsignals[b] /\ job[i].bsignals[b] <= o.signals
      OBVIOUS
    <3>1. job[i].bwaits[b] \in Nat /\ job[i].bsignals[b] \in Nat
      BY <1>1, <1>4
    <3>2. /\ job[i].bwaits[b] # 0 =>
               order[b].submitted_waits < job[i].bwaits[b] /\ job[i].bwaits[b] <= order[b].waits
          /\ job[i].bsignals[b] # 0 =>
                order[b].submitted_signals < job[i].bsignals[b] /\ job[i].bsignals[b] <= order[b].signals
      BY DEF EpochsOf, Claims
    <3>. QED  BY <1>1, <2>4, <2>6, <3>1, <3>2
  <2>9. Claims(b, order[b], OnWay)'
    <3>1. o.waits # 0 /\ o.waits = e /\ o.submitted_waits < o.waits /\ o.waits <= o.submitted_signals
      BY <1>1, <2>2, <2>6
    <3>2. \A r \in Queues : Holds(r, b)' => call'[r].waits[b] = e
      BY <1>3, <2>1 DEF e
    <3>. QED  BY <1>2, <1>4, <2>8, <3>1, <3>2 DEF Claims, o
  <2>10. Fills(b, order[b], OnWay)'
    <3>1. ASSUME NEW x \in o.submitted_signals + 1 .. o.signals
          PROVE  x \in order[b].submitted_signals + 1 .. order[b].signals
      BY <1>1, <2>6
    <3>2. ASSUME NEW x \in o.submitted_waits + 1 .. o.waits PROVE x = e
      BY <1>1, <2>2, <2>6
    <3>3. Holds(q, b)' /\ call'[q].waits[b] = e
      BY <1>3, <1>6, <1>8 DEF e
    <3>. QED  BY <1>2, <1>4, <3>1, <3>2, <3>3 DEF EpochsOf, Fills, o
  <2>11. Distinct(b)'
    BY <1>2, <1>4 DEF EpochsOf, Distinct
  <2>12. Draining(b)'
    BY <1>6, <2>1 DEF Draining
  <2>. QED  BY <1>2, <2>7, <2>9, <2>10, <2>11, <2>12 DEF EpochsOf, Restorable
<1>. QED  BY <1>7, <1>8

LEMMA AfterPresentEpochs ==
    ASSUME TypeInv, OrderInv, NEW b \in Binaries, EpochsOf(b),
           NEW q \in Queues, AfterPresent(q)
    PROVE  EpochsOf(b)'
<1>. DEFINE e == call[q].waits[b]
            o == order'[b]
<1>0. TypeOK /\ PresentsHold
  BY DEF TypeInv
<1>1. /\ order[b].waits \in Nat /\ order[b].signals \in Nat
      /\ order[b].submitted_waits \in Nat /\ order[b].submitted_signals \in Nat
      /\ nat[b].signals \in Nat /\ e \in Nat
      /\ \A i \in JobIds : job[i].bwaits[b] \in Nat /\ job[i].bsignals[b] \in Nat
      /\ order[b] \in BinaryOrder
  BY <1>0, EpochNumbers DEF TypeOK
<1>2. /\ UNCHANGED <<stage, job, txn, nat>> /\ txn = NoTxn /\ (failed => failed')
      /\ call[q].pc \in {"enqueued", "oom", "error"}
      /\ call[q].pc = "error" => order'[b] = order[b] /\ failed'
      /\ call[q].pc # "error" => order'[b] = AfterOrder(b, e, call[q].pc) /\ failed' = failed
  BY DEF AfterPresent, MutexFree, env
<1>3. /\ call'[q].pc = "none" /\ call'[q].waits[b] = 0
      /\ \A r \in Queues : r # q => call'[r] = call[r]
  BY <1>0 DEF AfterPresent, Return, NoCall, NoEpochs, TypeOK
<1>4. OnWay' = OnWay /\ OnWay \subseteq JobIds
  BY <1>2 DEF OnWay, OnItsWay
<1>5. Numbers(b, order[b])
  BY DEF EpochsOf
<1>6. /\ Holds(q, b) <=> e # 0
      /\ ~Drains(q, b)' /\ ~Holds(q, b)' /\ ~Drains(q, b)
      /\ \A r \in Queues : r # q => (Holds(r, b)' <=> Holds(r, b)) /\ (Drains(r, b)' <=> Drains(r, b))
  BY <1>2, <1>3 DEF Holds, Drains, Reserved
<1>. HIDE DEF e, o
<1>7. CASE e = 0
  <2>1. order'[b] = order[b]
    BY <1>2, <1>7 DEF AfterOrder
  <2>2. Numbers(b, order[b])' /\ Claims(b, order[b], OnWay)' /\ Distinct(b)'
    BY <1>2, <1>3, <1>4, <1>6, <1>7, <2>1 DEF EpochsOf, Numbers, Claims, Distinct
  <2>3. Fills(b, order[b], OnWay)'
    BY <1>2, <1>3, <1>4, <1>6, <1>7, <2>1 DEF EpochsOf, Fills
  <2>4. Draining(b)'
    BY <1>2, <1>3, <1>6, <2>1 DEF EpochsOf, Draining, External
  <2>. QED  BY <1>2, <2>2, <2>3, <2>4 DEF EpochsOf, Restorable
<1>8. CASE e # 0
  <2>1. \A r \in Queues : ~Holds(r, b)' /\ ~Drains(r, b)'
    BY <1>0, <1>6, <1>8, OnePresent DEF e
  <2>2. /\ order[b].waits = e
        /\ order[b].submitted_waits < order[b].waits /\ order[b].waits <= order[b].submitted_signals
        /\ \A i \in OnWay : job[i].bwaits[b] # order[b].waits
    BY <1>6, <1>8 DEF EpochsOf, Claims, e
  <2>3. /\ order[b].submitted_signals = order[b].waits
        /\ order[b].waits = order[b].submitted_waits + 1
        /\ nat[b].signals = order[b].submitted_signals
    BY <1>1, <1>5, <2>2 DEF Numbers
  <2>4. /\ o.signals = order[b].signals /\ o.submitted_signals = order[b].submitted_signals
        /\ o.waits \in Nat /\ o.submitted_waits \in Nat
        /\ \/ call[q].pc = "error" /\ o = order[b] /\ failed'
           \/ o.waits = order[b].submitted_waits /\ o.submitted_waits = order[b].submitted_waits
           \/ o.waits = order[b].waits /\ o.submitted_waits = order[b].waits
    <3>1. CASE call[q].pc = "error"
      BY <1>1, <1>2, <3>1 DEF o
    <3>2. CASE call[q].pc = "oom"
      <4>1. o = [order[b] EXCEPT !.waits = @ - 1]
        BY <1>2, <1>8, <3>2 DEF AfterOrder, o
      <4>. QED  BY <1>1, <2>3, <4>1 DEF BinaryOrder
    <3>3. CASE call[q].pc = "enqueued"
      <4>1. o = [order[b] EXCEPT !.submitted_waits = Larger(@, order[b].waits)]
        BY <1>2, <1>8, <3>3 DEF AfterOrder, o
      <4>2. Larger(order[b].submitted_waits, order[b].waits) = order[b].waits
        BY <1>1, <2>3, LargerIs
      <4>. QED  BY <1>1, <4>1, <4>2 DEF BinaryOrder
    <3>. QED  BY <1>2, <3>1, <3>2, <3>3
  <2>5. Numbers(b, order[b])'
    BY <1>1, <1>2, <1>5, <2>3, <2>4 DEF Numbers, o
  <2>6. \A i \in OnWay : /\ job[i].bwaits[b] = 0
                         /\ job[i].bsignals[b] # 0 => /\ o.submitted_signals < job[i].bsignals[b]
                                                      /\ job[i].bsignals[b] <= o.signals
    <3>. SUFFICES ASSUME NEW i \in OnWay
                  PROVE  /\ job[i].bwaits[b] = 0
                         /\ job[i].bsignals[b] # 0 => /\ o.submitted_signals < job[i].bsignals[b]
                                                      /\ job[i].bsignals[b] <= o.signals
      OBVIOUS
    <3>1. job[i].bwaits[b] \in Nat /\ job[i].bsignals[b] \in Nat
      BY <1>1, <1>4
    <3>2. /\ job[i].bwaits[b] # 0 =>
               order[b].submitted_waits < job[i].bwaits[b] /\ job[i].bwaits[b] <= order[b].waits
          /\ job[i].bsignals[b] # 0 =>
                order[b].submitted_signals < job[i].bsignals[b] /\ job[i].bsignals[b] <= order[b].signals
      BY DEF EpochsOf, Claims
    <3>3. job[i].bwaits[b] # order[b].waits
      BY <2>2
    <3>4. job[i].bwaits[b] = 0
      BY <1>1, <2>3, <3>1, <3>2, <3>3
    <3>. QED  BY <2>4, <3>2, <3>4
  <2>7. Claims(b, order[b], OnWay)'
    BY <1>2, <1>4, <2>1, <2>6 DEF Claims, o
  <2>8. Fills(b, order[b], OnWay)'
    <3>1. \A x \in o.submitted_signals + 1 .. o.signals : \E i \in OnWay : job[i].bsignals[b] = x
      BY <2>4 DEF EpochsOf, Fills
    <3>2. ~failed' => o.submitted_waits + 1 .. o.waits = {}
      BY <1>1, <1>2, <2>4
    <3>. QED  BY <1>2, <1>4, <3>1, <3>2 DEF Fills, o
  <2>9. Distinct(b)'
    BY <1>2, <1>4 DEF EpochsOf, Distinct
  <2>10. Draining(b)'
    BY <2>1 DEF Draining
  <2>. QED  BY <1>2, <2>5, <2>7, <2>8, <2>9, <2>10 DEF EpochsOf, Restorable
<1>. QED  BY <1>7, <1>8

\* An acquire finds nothing outstanding, so b is not in the open transaction.
LEMMA AcquireEpochs ==
    ASSUME TypeInv, OrderInv, NEW b \in Binaries, EpochsOf(b),
           NEW q \in Queues, NEW c \in Binaries, NEW result, Acquire(q, c, result)
    PROVE  EpochsOf(b)'
<1>0. TypeOK
  BY DEF TypeInv
<1>1. /\ order[b].waits \in Nat /\ order[b].signals \in Nat
      /\ order[b].submitted_waits \in Nat /\ order[b].submitted_signals \in Nat
      /\ nat[b].signals \in Nat
  BY <1>0, EpochNumbers
<1>2. UNCHANGED <<stage, job, order, txn, call, failed>>
  BY DEF Acquire, sched
<1>3. \/ nat'[b].signals = nat[b].signals
      \/ c = b /\ nat'[b].signals = nat[b].signals + 1
  BY DEF Acquire, Counted, NoEpochs
<1>4. CASE nat'[b].signals = nat[b].signals
  <2>1. EpochFrame(b)
    BY <1>2, <1>4 DEF EpochFrame, Holds, Drains
  <2>. QED  BY <2>1, FrameEpochs
<1>5. CASE c = b /\ nat'[b].signals = nat[b].signals + 1
  <2>1. /\ ~External(b) /\ ~InPresent(b)
        /\ order[b].signals = order[b].waits /\ order[b].submitted_waits = order[b].waits
    BY <1>5 DEF Acquire
  <2>2. Numbers(b, order[b])
    BY DEF EpochsOf
  <2>3. Numbers(b, order[b])'
    BY <1>1, <1>2, <1>5, <2>1, <2>2 DEF Numbers, External
  <2>4. OnWay' = OnWay /\ InStaged' = InStaged
    BY <1>2 DEF OnWay, InStaged, OnItsWay
  <2>5. Claims(b, order[b], OnWay)' /\ Fills(b, order[b], OnWay)' /\ Distinct(b)'
    BY <1>2, <2>4 DEF EpochsOf, Claims, Fills, Distinct, Holds
  <2>6. Draining(b)'
    BY <1>2, <2>1 DEF Draining, Drains, InPresent
  <2>7. Restorable(b)'
    <3>1. ASSUME txn # NoTxn PROVE Base(b) = order[b]
      BY <1>1, <2>1, <3>1 DEF EpochsOf, Restorable, Base
    <3>2. txn # NoTxn => Claims(b, Base(b), InStaged)' /\ Fills(b, Base(b), InStaged)'
      BY <1>2, <2>4 DEF EpochsOf, Restorable, Claims, Fills, Base, Holds
    <3>. QED  BY <1>2, <2>3, <3>1, <3>2 DEF EpochsOf, Restorable, Base
  <2>. QED  BY <2>3, <2>5, <2>6, <2>7 DEF EpochsOf
<1>. QED  BY <1>3, <1>4, <1>5

\* The other steps of a call change neither a counter of b nor who holds b.
LEMMA CallFrame ==
    ASSUME TypeInv, NEW b \in Binaries, NEW q \in Queues,
           \/ \E result \in PresentResults : PresentNative(q, result)
           \/ \E result \in InternalResults, next \in {"present_idle", "enqueued"} :
                 PresentEmulated(q, result, next)
           \/ PresentIdle(q)
           \/ PresentIdleFail(q)
           \/ IdleBegin(q)
           \/ IdleLock(q)
           \/ IdleEnd(q)
           \/ IdleFail(q)
           \/ CallFail(q)
    PROVE  EpochFrame(b)
<1>0. TypeOK /\ Completed \in SUBSET Completed
  BY DEF TypeInv
<1>1. UNCHANGED <<order, txn, job>> /\ nat'[b].signals = nat[b].signals /\ (failed => failed')
  BY DEF PresentNative, PresentEmulated, PresentIdle, PresentIdleFail, IdleBegin, IdleLock, IdleEnd, IdleFail,
         CallFail, env, Counted, NoEpochs
<1>2. stage' = stage \/ Publish(Completed)
  BY DEF PresentNative, PresentEmulated, PresentIdle, PresentIdleFail, IdleBegin, IdleLock, IdleEnd, IdleFail,
         CallFail, env
<1>3. \A j \in JobIds : /\ (stage'[j] = "staged") = (stage[j] = "staged")
                        /\ (stage'[j] = "building") = (stage[j] = "building")
  BY <1>0, <1>2, PublishStages
<1>4. /\ \A r \in Queues : r # q => call'[r] = call[r]
      /\ Holds(q, b)' <=> Holds(q, b)
      /\ ~Drains(q, b)'
      /\ Holds(q, b) => call'[q].waits[b] = call[q].waits[b]
  <2>1. ASSUME NEW pc \in Pcs, Goto(q, pc)
        PROVE  call'[q].pc = pc /\ call'[q].waits = call[q].waits /\ \A r \in Queues : r # q => call'[r] = call[r]
    BY <1>0, <2>1, GotoType
  <2>2. CASE \E result \in PresentResults : PresentNative(q, result)
    <3>1. PICK result \in PresentResults : PresentNative(q, result)
      BY <2>2
    <3>2. result \in {"enqueued", "oom", "error"} /\ call[q].pc = "presenting" /\ Goto(q, result)
      BY <3>1, ResultsAssumption DEF PresentNative
    <3>. QED  BY <2>1, <3>2 DEF Holds, Drains, Reserved, Pcs
  <2>3. CASE \/ \E result \in InternalResults, next \in {"present_idle", "enqueued"} :
                   PresentEmulated(q, result, next)
             \/ PresentIdle(q)
             \/ PresentIdleFail(q)
    <3>1. PICK pc \in {"present_idle", "enqueued"} :
            call[q].pc \in {"presenting", "present_idle"} /\ Goto(q, pc)
      BY <2>3 DEF PresentEmulated, PresentIdle, PresentIdleFail
    <3>. QED  BY <2>1, <3>1 DEF Holds, Drains, Reserved, Pcs
  <2>4. CASE IdleBegin(q) \/ IdleLock(q)
    <3>1. PICK pc \in {"idle_drain", "idling"} :
            call[q].pc \in {"none", "idle_drain"} /\ Goto(q, pc)
      BY <2>4 DEF IdleBegin, IdleLock, QueueFree
    <3>. QED  BY <2>1, <3>1 DEF Holds, Drains, Reserved, Pcs
  <2>5. CASE IdleEnd(q) \/ IdleFail(q) \/ CallFail(q)
    <3>1. call[q].pc \in {"idling", "present_drain", "idle_drain"} /\ Return(q)
      BY <2>5 DEF IdleEnd, IdleFail, CallFail
    <3>2. call'[q].pc = "none" /\ \A r \in Queues : r # q => call'[r] = call[r]
      BY <1>0, <3>1 DEF Return, NoCall, TypeOK
    <3>. QED  BY <3>1, <3>2 DEF Holds, Drains, Reserved
  <2>. QED  BY <2>2, <2>3, <2>4, <2>5
<1>5. \A r \in Queues : /\ Holds(r, b)' <=> Holds(r, b)
                        /\ Drains(r, b)' => Drains(r, b)
                        /\ (Holds(r, b) \/ Drains(r, b)') => call'[r].waits[b] = call[r].waits[b]
  BY <1>4 DEF Holds, Drains
<1>. QED  BY <1>1, <1>3, <1>5 DEF EpochFrame

LEMMA CallEpochs ==
    ASSUME TypeInv, OrderInv, NEW b \in Binaries, EpochsOf(b), CallNext PROVE EpochsOf(b)'
<1>1. PICK q \in Queues :
        \/ \E sems \in SUBSET Binaries : PresentBegin(q, sems)
        \/ PresentReserve(q)
        \/ \E result \in PresentResults : PresentNative(q, result)
        \/ \E result \in InternalResults, next \in {"present_idle", "enqueued"} :
              PresentEmulated(q, result, next)
        \/ PresentIdle(q)
        \/ PresentIdleFail(q)
        \/ AfterPresent(q)
        \/ IdleBegin(q)
        \/ IdleLock(q)
        \/ IdleEnd(q)
        \/ IdleFail(q)
        \/ CallFail(q)
        \/ \E c \in Binaries, result \in InternalResults : Acquire(q, c, result)
  BY DEF CallNext
<1>. QED  BY <1>1, PresentBeginEpochs, PresentReserveEpochs, AfterPresentEpochs, AcquireEpochs,
             CallFrame, FrameEpochs

LEMMA EnqueueEpochs ==
    ASSUME TypeInv, OrderInv, NEW b \in Binaries, EpochsOf(b), EnqueueNext PROVE EpochsOf(b)'
<1>1. CASE \E q \in Queues, sparse \in {batch.sparse : batch \in Batches} : EnqueueBegin(q, sparse)
  BY <1>1, BeginEpochs DEF OrderInv
<1>2. CASE \E j \in JobIds, batch \in Batches : EnqueueBatch(j, batch)
  BY <1>2, BatchEpochs
<1>3. CASE EnqueueFail
  BY <1>3, FailEpochs
<1>4. CASE EnqueueCommit \/ \E j \in JobIds : EnqueueCommitFence(j)
  BY <1>4, CommitEpochs
<1>. QED  BY <1>1, <1>2, <1>3, <1>4 DEF EnqueueNext

LEMMA EpochStep == ASSUME TypeInv, OrderInv, EpochInv, [Next]_vars PROVE EpochInv'
<1>. SUFFICES ASSUME NEW b \in Binaries PROVE EpochsOf(b)'
  BY DEF EpochInv
<1>0. EpochsOf(b) /\ TypeOK
  BY DEF EpochInv, TypeInv
<1>1. ASSUME NEW done \in SUBSET Completed, Poll(done) PROVE EpochFrame(b)
  <2>1. \A j \in JobIds : /\ (stage'[j] = "staged") = (stage[j] = "staged")
                          /\ (stage'[j] = "building") = (stage[j] = "building")
    BY <1>0, <1>1, PublishStages DEF Poll
  <2>. QED  BY <1>1, <2>1 DEF Poll, EpochFrame, Holds, Drains, env
<1>2. ASSUME PollFail PROVE EpochFrame(b)
  BY <1>2 DEF PollFail, EpochFrame, Holds, Drains, env
<1>3. ASSUME NEW s, NEW value, HostSignal(s, value) PROVE EpochFrame(b)
  BY <1>3 DEF HostSignal, EpochFrame, Holds, Drains
<1>4. ASSUME NEW q, NEW j, DispatchFail(q, j) PROVE EpochFrame(b)
  BY <1>4 DEF DispatchFail, EpochFrame, Holds, Drains, env
<1>5. ASSUME NEW q, Complete(q) PROVE EpochFrame(b)
  BY <1>5 DEF Complete, sched, EpochFrame, Holds, Drains
<1>6. ASSUME UNCHANGED vars PROVE EpochFrame(b)
  BY <1>6 DEF vars, sched, env, EpochFrame, Holds, Drains
<1>7. EpochFrame(b) => EpochsOf(b)'
  BY <1>0, FrameEpochs
<1>8. EnqueueNext => EpochsOf(b)'
  BY <1>0, EnqueueEpochs
<1>9. CallNext => EpochsOf(b)'
  BY <1>0, CallEpochs
<1>10. ASSUME NEW q \in Queues, NEW j \in JobIds, Dispatch(q, j) PROVE EpochsOf(b)'
  BY <1>0, <1>10, DispatchEpochs
<1>11. ASSUME FenceNext PROVE EpochFrame(b)
  BY <1>11, FenceFrame DEF sched, EpochFrame, Holds, Drains
<1>. QED  BY <1>1, <1>2, <1>3, <1>4, <1>5, <1>6, <1>7, <1>8, <1>9, <1>10, <1>11 DEF Next, SchedulerNext

LEMMA EpochInvariant == Spec => [](TypeInv /\ OrderInv /\ EpochInv)
<1>1. Init => TypeInv /\ OrderInv /\ EpochInv
  BY InitType, OrderInit, EpochInit
<1>2. (TypeInv /\ OrderInv /\ EpochInv) /\ [Next]_vars => (TypeInv /\ OrderInv /\ EpochInv)'
  BY TypeStep, OrderStep, EpochStep
<1>. QED  BY <1>1, <1>2, PTL DEF Spec

\* No epoch is lost: each signal or wait that has an epoch and is not counted as
\* submitted has a batch or a present on its way, also after an enqueue that
\* failed between two batches or a present that was out of memory.
THEOREM EpochsOwned == Spec => []NoOrphanEpoch
<1>1. EpochInv => NoOrphanEpoch
  <2>. SUFFICES ASSUME EpochInv, ~failed, NEW b \in Binaries
                PROVE  /\ \A e \in order[b].submitted_signals + 1 .. order[b].signals :
                            \E j \in JobIds : OnItsWay(j) /\ job[j].bsignals[b] = e
                       /\ \A e \in order[b].submitted_waits + 1 .. order[b].waits :
                            \/ \E j \in JobIds : OnItsWay(j) /\ job[j].bwaits[b] = e
                            \/ \E q \in Queues : PresentHolds(q, b, e)
    BY DEF NoOrphanEpoch
  <2>1. Fills(b, order[b], OnWay)
    BY DEF EpochInv, EpochsOf
  <2>2. \A q \in Queues : \A e : (Holds(q, b) /\ call[q].waits[b] = e) => PresentHolds(q, b, e)
    BY DEF Holds, PresentHolds, Reserved
  <2>. QED  BY <2>1, <2>2 DEF Fills, OnWay
<1>. QED  BY <1>1, EpochInvariant, PTL

-----------------------------------------------------------------------------
(* The waits that the driver counts.                                        *)

\* A present whose waits the driver has been given.
Given(q, b) == Holds(q, b) /\ call[q].pc \in {"present_idle", "enqueued", "error"}

\* The driver counts the waits that the scheduler does, and the one of a present
\* that has not returned or whose error has lost the device.
WaitsOf(b) ==
    /\ \A q \in Queues : Holds(q, b) =>
          nat[b].waits = IF Given(q, b) THEN order[b].submitted_waits + 1 ELSE order[b].submitted_waits
    /\ (\A q \in Queues : ~Holds(q, b)) =>
          \/ nat[b].waits = order[b].submitted_waits
          \/ /\ failed /\ nat[b].waits = order[b].submitted_waits + 1
             /\ order[b].submitted_waits < order[b].waits
             /\ order[b].submitted_waits < order[b].submitted_signals


WaitInv == (failed => txn = NoTxn) /\ \A b \in Binaries : WaitsOf(b)

\* Steps after which the same presents hold b, with the same waits given.
WaitFrame(b) ==
    /\ order'[b].submitted_waits = order[b].submitted_waits
    /\ nat'[b].waits = nat[b].waits
    /\ \A q \in Queues : (Holds(q, b)' <=> Holds(q, b)) /\ (Given(q, b)' <=> Given(q, b))
    /\ ~failed \/ order'[b] = order[b]
    /\ failed => failed'

LEMMA FrameWaits ==
    ASSUME NEW b \in Binaries, WaitsOf(b), WaitFrame(b) PROVE WaitsOf(b)'
<1>1. ASSUME NEW q \in Queues, Holds(q, b)'
      PROVE  nat'[b].waits = IF Given(q, b)' THEN order'[b].submitted_waits + 1
                             ELSE order'[b].submitted_waits
  BY <1>1 DEF WaitsOf, WaitFrame
<1>2. (\A q \in Queues : ~Holds(q, b)') =>
        \/ nat'[b].waits = order'[b].submitted_waits
        \/ /\ failed' /\ nat'[b].waits = order'[b].submitted_waits + 1
           /\ order'[b].submitted_waits < order'[b].waits
           /\ order'[b].submitted_waits < order'[b].submitted_signals
  BY DEF WaitsOf, WaitFrame
<1>. QED  BY <1>1, <1>2 DEF WaitsOf

LEMMA DispatchWaits ==
    ASSUME TypeInv, OrderInv, NEW b \in Binaries, EpochsOf(b), WaitsOf(b),
           NEW q \in Queues, NEW j \in JobIds, Dispatch(q, j)
    PROVE  WaitsOf(b)'
<1>. DEFINE w == job[j].bwaits[b]
<1>1. /\ order'[b].submitted_waits =
            IF w # 0 THEN order[b].submitted_waits + 1 ELSE order[b].submitted_waits
      /\ \A r \in Queues : Holds(r, b) => w = 0
  BY DispatchNumbers
<1>2. /\ nat'[b].waits = IF w # 0 THEN nat[b].waits + 1 ELSE nat[b].waits
      /\ call' = call /\ ~failed
  BY DEF Dispatch, MayDispatch, Counted
<1>3. \A r \in Queues : (Holds(r, b)' <=> Holds(r, b)) /\ (Given(r, b)' <=> Given(r, b))
  BY <1>2 DEF Holds, Given
<1>. HIDE DEF w
<1>4. ASSUME NEW r \in Queues, Holds(r, b)'
      PROVE  nat'[b].waits = IF Given(r, b)' THEN order'[b].submitted_waits + 1
                             ELSE order'[b].submitted_waits
  BY <1>1, <1>2, <1>3, <1>4 DEF WaitsOf
<1>5. (\A r \in Queues : ~Holds(r, b)') => nat'[b].waits = order'[b].submitted_waits
  BY <1>1, <1>2, <1>3 DEF WaitsOf
<1>. QED  BY <1>4, <1>5 DEF WaitsOf

\* A present reserves the wait: nobody else has one of b.
LEMMA PresentReserveWaits ==
    ASSUME TypeInv, NEW b \in Binaries, WaitsOf(b), NEW q \in Queues, PresentReserve(q)
    PROVE  WaitsOf(b)'
<1>. DEFINE e == call[q].waits[b]
<1>0. TypeOK /\ PresentsHold /\ order[b] \in BinaryOrder
  BY DEF TypeInv, TypeOK
<1>1. /\ nat' = nat /\ ~failed /\ failed' = failed
      /\ order'[b] = PresentOrder(b, e) /\ call[q].pc = "present_drain"
  BY DEF PresentReserve, env
<1>2. /\ call'[q].pc = "presenting" /\ call'[q].waits = call[q].waits
      /\ \A r \in Queues : r # q => call'[r] = call[r]
  BY <1>0 DEF PresentReserve, Goto, TypeOK
<1>3. order'[b].submitted_waits = order[b].submitted_waits
  BY <1>0, <1>1 DEF PresentOrder, BinaryOrder
<1>4. /\ Holds(q, b)' <=> e # 0
      /\ ~Given(q, b)' /\ ~Holds(q, b)
      /\ \A r \in Queues : r # q => (Holds(r, b)' <=> Holds(r, b)) /\ (Given(r, b)' <=> Given(r, b))
  BY <1>1, <1>2 DEF Holds, Given, Reserved
<1>5. CASE e = 0
  <2>1. WaitFrame(b)
    BY <1>1, <1>3, <1>4, <1>5 DEF WaitFrame, Given
  <2>. QED  BY <2>1, FrameWaits
<1>6. CASE e # 0
  <2>1. \A r \in Queues : ~Holds(r, b)
    BY <1>0, <1>4, <1>6, OnePresent
  <2>2. nat'[b].waits = order'[b].submitted_waits
    BY <1>1, <1>3, <2>1 DEF WaitsOf
  <2>3. \A r \in Queues : Holds(r, b)' => ~Given(r, b)'
    BY <1>4, <2>1
  <2>. QED  BY <2>2, <2>3 DEF WaitsOf
<1>. QED  BY <1>5, <1>6

\* The native present, or the submission of the emulated one, gives its waits to
\* the driver, unless it is out of memory.
LEMMA PresentGives ==
    ASSUME TypeInv, NEW b \in Binaries, WaitsOf(b), NEW q \in Queues, NEW pc \in Reserved,
           pc # "presenting",
           call[q].pc = "presenting", Goto(q, pc), UNCHANGED <<order, failed>>,
           nat' = IF pc = "oom" THEN nat ELSE Counted(call[q].waits, NoEpochs)
    PROVE  WaitsOf(b)'
<1>. DEFINE e == call[q].waits[b]
<1>0. TypeOK /\ PresentsHold /\ pc \in Pcs
  BY DEF TypeInv, Reserved, Pcs
<1>1. /\ call'[q].pc = pc /\ call'[q].waits = call[q].waits
      /\ \A r \in Queues : r # q => call'[r] = call[r]
  BY <1>0, GotoType
<1>2. nat'[b].waits = IF pc = "oom" \/ e = 0 THEN nat[b].waits ELSE nat[b].waits + 1
  BY DEF Counted
<1>3. /\ Holds(q, b)' <=> e # 0
      /\ Holds(q, b) <=> e # 0
      /\ ~Given(q, b)
      /\ Given(q, b)' <=> e # 0 /\ pc # "oom"
      /\ \A r \in Queues : r # q => (Holds(r, b)' <=> Holds(r, b)) /\ (Given(r, b)' <=> Given(r, b))
  BY <1>1 DEF Holds, Given, Reserved
<1>4. CASE e = 0
  <2>1. WaitFrame(b)
    BY <1>2, <1>3, <1>4 DEF WaitFrame
  <2>. QED  BY <2>1, FrameWaits
<1>5. CASE e # 0
  <2>1. \A r \in Queues : Holds(r, b)' => r = q
    BY <1>0, <1>3, <1>5, OnePresent
  <2>2. nat[b].waits = order[b].submitted_waits
    BY <1>3, <1>5 DEF WaitsOf
  <2>3. nat'[b].waits = IF Given(q, b)' THEN order'[b].submitted_waits + 1
                        ELSE order'[b].submitted_waits
    BY <1>2, <1>3, <1>5, <2>2
  <2>. QED  BY <1>3, <1>5, <2>1, <2>3 DEF WaitsOf
<1>. QED  BY <1>4, <1>5

\* The present returns: its wait is counted, taken back, or left to a device
\* that is lost.
LEMMA AfterPresentWaits ==
    ASSUME TypeInv, NEW b \in Binaries, EpochsOf(b), WaitsOf(b), NEW q \in Queues, AfterPresent(q)
    PROVE  WaitsOf(b)'
<1>. DEFINE e == call[q].waits[b]
<1>0. TypeOK /\ PresentsHold /\ order[b] \in BinaryOrder
  BY DEF TypeInv, TypeOK
<1>1. /\ order[b].waits \in Nat /\ order[b].submitted_waits \in Nat
      /\ order[b].submitted_signals \in Nat
  BY <1>0, EpochNumbers
<1>2. /\ nat' = nat /\ (failed => failed')
      /\ call[q].pc \in {"enqueued", "oom", "error"}
      /\ call[q].pc = "error" => order'[b] = order[b] /\ failed'
      /\ call[q].pc # "error" => order'[b] = AfterOrder(b, e, call[q].pc)
  BY DEF AfterPresent, env
<1>3. call'[q].pc = "none" /\ \A r \in Queues : r # q => call'[r] = call[r]
  BY <1>0 DEF AfterPresent, Return, NoCall, TypeOK
<1>4. /\ Holds(q, b) <=> e # 0
      /\ Given(q, b) <=> e # 0 /\ call[q].pc # "oom"
      /\ ~Holds(q, b)' /\ ~Given(q, b)'
      /\ \A r \in Queues : r # q => (Holds(r, b)' <=> Holds(r, b)) /\ (Given(r, b)' <=> Given(r, b))
  BY <1>2, <1>3 DEF Holds, Given, Reserved
<1>5. CASE e = 0
  <2>1. order'[b] = order[b]
    BY <1>2, <1>5 DEF AfterOrder
  <2>2. WaitFrame(b)
    BY <1>2, <1>4, <1>5, <2>1 DEF WaitFrame
  <2>. QED  BY <2>2, FrameWaits
<1>6. CASE e # 0
  <2>1. \A r \in Queues : ~Holds(r, b)'
    BY <1>0, <1>4, <1>6, OnePresent
  <2>2. /\ order[b].submitted_waits < order[b].waits
        /\ order[b].waits <= order[b].submitted_signals
        /\ order[b].waits = order[b].submitted_waits + 1
        /\ nat[b].waits = IF call[q].pc = "oom" THEN order[b].submitted_waits
                          ELSE order[b].submitted_waits + 1
    <3>1. /\ order[b].submitted_waits < order[b].waits
          /\ order[b].waits <= order[b].submitted_signals
          /\ order[b].submitted_signals <= order[b].submitted_waits + 1
      BY <1>4, <1>6 DEF EpochsOf, Claims, Numbers
    <3>2. nat[b].waits = IF call[q].pc = "oom" THEN order[b].submitted_waits
                         ELSE order[b].submitted_waits + 1
      BY <1>4, <1>6 DEF WaitsOf
    <3>. QED  BY <1>1, <3>1, <3>2
  <2>3. \/ nat'[b].waits = order'[b].submitted_waits
        \/ /\ failed' /\ nat'[b].waits = order'[b].submitted_waits + 1
           /\ order'[b].submitted_waits < order'[b].waits
           /\ order'[b].submitted_waits < order'[b].submitted_signals
    <3>1. CASE call[q].pc = "error"
      BY <1>1, <1>2, <2>2, <3>1
    <3>2. CASE call[q].pc = "oom"
      <4>1. order'[b] = [order[b] EXCEPT !.waits = @ - 1]
        BY <1>2, <1>6, <3>2 DEF AfterOrder
      <4>. QED  BY <1>0, <1>2, <2>2, <3>2, <4>1 DEF BinaryOrder
    <3>3. CASE call[q].pc = "enqueued"
      <4>1. order'[b] = [order[b] EXCEPT !.submitted_waits = Larger(@, order[b].waits)]
        BY <1>2, <1>6, <3>3 DEF AfterOrder
      <4>2. Larger(order[b].submitted_waits, order[b].waits) = order[b].waits
        BY <1>1, <2>2, LargerIs
      <4>. QED  BY <1>0, <1>2, <2>2, <3>3, <4>1, <4>2 DEF BinaryOrder
    <3>. QED  BY <1>2, <3>1, <3>2, <3>3
  <2>. QED  BY <2>1, <2>3 DEF WaitsOf
<1>. QED  BY <1>5, <1>6


\* The steps of a call that give no wait to the driver.
LEMMA QuietCall ==
    ASSUME TypeInv, NEW b \in Binaries, NEW q \in Queues,
           \/ \E sems \in SUBSET Binaries : PresentBegin(q, sems)
           \/ PresentIdle(q)
           \/ PresentIdleFail(q)
           \/ IdleBegin(q)
           \/ IdleLock(q)
           \/ IdleEnd(q)
           \/ IdleFail(q)
           \/ CallFail(q)
           \/ \E c \in Binaries, result \in InternalResults : Acquire(q, c, result)
    PROVE  WaitFrame(b)
<1>0. TypeOK
  BY DEF TypeInv
<1>1. order' = order /\ (failed => failed')
  <2>1. order' = order
    BY DEF PresentBegin, PresentIdle, PresentIdleFail, IdleBegin, IdleLock, IdleEnd, IdleFail, CallFail, Acquire, sched
  <2>2. failed' = failed \/ failed'
    BY DEF PresentBegin, PresentIdle, PresentIdleFail, IdleBegin, IdleLock, IdleEnd, IdleFail, CallFail, Acquire, sched
  <2>. QED  BY <2>1, <2>2
<1>2. nat'[b].waits = nat[b].waits
  BY DEF PresentBegin, PresentIdle, PresentIdleFail, IdleBegin, IdleLock, IdleEnd, IdleFail, CallFail, Acquire, env,
         Counted, NoEpochs
<1>3. \A r \in Queues : (Holds(r, b)' <=> Holds(r, b)) /\ (Given(r, b)' <=> Given(r, b))
  <2>1. CASE \E sems \in SUBSET Binaries : PresentBegin(q, sems)
    <3>1. /\ call[q].pc = "none" /\ call'[q].pc = "present_drain"
          /\ \A r \in Queues : r # q => call'[r] = call[r]
      BY <1>0, <2>1 DEF PresentBegin, QueueFree, TypeOK
    <3>. QED  BY <3>1 DEF Holds, Given, Reserved
  <2>2. CASE PresentIdle(q) \/ PresentIdleFail(q)
    <3>1. call[q].pc = "present_idle" /\ Goto(q, "enqueued")
      BY <2>2 DEF PresentIdle, PresentIdleFail
    <3>2. /\ call'[q].pc = "enqueued" /\ call'[q].waits = call[q].waits
          /\ \A r \in Queues : r # q => call'[r] = call[r]
      BY <1>0, <3>1, GotoType DEF Pcs
    <3>. QED  BY <3>1, <3>2 DEF Holds, Given, Reserved
  <2>3. CASE IdleBegin(q) \/ IdleLock(q)
    <3>1. PICK pc \in {"idle_drain", "idling"} :
            call[q].pc \in {"none", "idle_drain"} /\ Goto(q, pc)
      BY <2>3 DEF IdleBegin, IdleLock, QueueFree
    <3>2. call'[q].pc = pc /\ \A r \in Queues : r # q => call'[r] = call[r]
      BY <1>0, <3>1, GotoType DEF Pcs
    <3>. QED  BY <3>1, <3>2 DEF Holds, Given, Reserved
  <2>4. CASE IdleEnd(q) \/ IdleFail(q) \/ CallFail(q)
    <3>1. call[q].pc \in {"idling", "present_drain", "idle_drain"} /\ Return(q)
      BY <2>4 DEF IdleEnd, IdleFail, CallFail
    <3>2. call'[q].pc = "none" /\ \A r \in Queues : r # q => call'[r] = call[r]
      BY <1>0, <3>1 DEF Return, NoCall, TypeOK
    <3>. QED  BY <3>1, <3>2 DEF Holds, Given, Reserved
  <2>5. CASE \E c \in Binaries, result \in InternalResults : Acquire(q, c, result)
    BY <2>5 DEF Acquire, sched, Holds, Given
  <2>. QED  BY <2>1, <2>2, <2>3, <2>4, <2>5
<1>. QED  BY <1>1, <1>2, <1>3 DEF WaitFrame

LEMMA CallWaits ==
    ASSUME "refused" \notin InternalResults,
           TypeInv, NEW b \in Binaries, EpochsOf(b), WaitsOf(b), CallNext
    PROVE  WaitsOf(b)'
<1>1. PICK q \in Queues :
        \/ \E sems \in SUBSET Binaries : PresentBegin(q, sems)
        \/ PresentReserve(q)
        \/ \E result \in PresentResults : PresentNative(q, result)
        \/ \E result \in InternalResults, next \in {"present_idle", "enqueued"} :
              PresentEmulated(q, result, next)
        \/ PresentIdle(q)
        \/ PresentIdleFail(q)
        \/ AfterPresent(q)
        \/ IdleBegin(q)
        \/ IdleLock(q)
        \/ IdleEnd(q)
        \/ IdleFail(q)
        \/ CallFail(q)
        \/ \E c \in Binaries, result \in InternalResults : Acquire(q, c, result)
  BY DEF CallNext
<1>2. CASE \E result \in PresentResults : PresentNative(q, result)
  <2>1. PICK result \in PresentResults : PresentNative(q, result)
    BY <1>2
  <2>2. result \in Reserved /\ result # "presenting"
    BY ResultsAssumption DEF Reserved
  <2>. QED  BY <2>1, <2>2, PresentGives DEF PresentNative
<1>3. CASE \E result \in InternalResults, next \in {"present_idle", "enqueued"} :
              PresentEmulated(q, result, next)
  <2>1. PICK result \in InternalResults, next \in {"present_idle", "enqueued"} :
               PresentEmulated(q, result, next)
    BY <1>3
  <2>2. result # "refused" /\ next \in Reserved /\ next # "presenting" /\ next # "oom"
    BY DEF Reserved
  <2>. QED  BY <2>1, <2>2, PresentGives DEF PresentEmulated
<1>. QED  BY <1>1, <1>2, <1>3, PresentReserveWaits, AfterPresentWaits, QuietCall, FrameWaits

\* An enqueue finds the device healthy, and neither a batch nor its undoing
\* changes the waits that have been submitted.
LEMMA EnqueueWaits ==
    ASSUME TypeInv, NEW b \in Binaries, EpochsOf(b), failed => txn = NoTxn, WaitsOf(b), EnqueueNext
    PROVE  WaitsOf(b)'
<1>0. TypeOK
  BY DEF TypeInv
<1>1. /\ nat' = nat /\ call' = call /\ failed' = failed
      /\ order' = order \/ ~failed
  BY DEF EnqueueNext, EnqueueBegin, EnqueueBatch, EnqueueFail, EnqueueCommit, EnqueueCommitFence, env
<1>2. order'[b].submitted_waits = order[b].submitted_waits
  <2>1. ASSUME NEW j \in JobIds, NEW batch \in Batches, EnqueueBatch(j, batch)
        PROVE  order'[b].submitted_waits = order[b].submitted_waits
    <3>1. batch \in Batch /\ ValidBatch(batch) /\ order'[b] = Reserve(batch, b)
      BY <2>1, BatchesAssumption DEF EnqueueBatch
    <3>. QED  BY <1>0, <3>1, ReserveEpochs
  <2>2. ASSUME EnqueueFail PROVE order'[b].submitted_waits = order[b].submitted_waits
    BY <2>2 DEF EnqueueFail, EpochsOf, Restorable, Base
  <2>3. ~EnqueueFail /\ (\A j \in JobIds, batch \in Batches : ~EnqueueBatch(j, batch)) => order' = order
    BY DEF EnqueueNext, EnqueueBegin, EnqueueCommit, EnqueueCommitFence
  <2>. QED  BY <2>1, <2>2, <2>3
<1>3. WaitFrame(b)
  BY <1>1, <1>2 DEF WaitFrame, Holds, Given
<1>. QED  BY <1>3, FrameWaits

LEMMA WaitStep ==
    ASSUME "refused" \notin InternalResults, TypeInv, OrderInv, EpochInv, WaitInv, [Next]_vars
    PROVE  WaitInv'
<1>1. failed' => txn' = NoTxn
  <2>1. failed' = failed \/ (txn = NoTxn /\ txn' = txn)
    BY FenceFrame DEF Next, SchedulerNext, EnqueueNext, EnqueueBegin, EnqueueBatch, EnqueueFail, EnqueueCommit,
           EnqueueCommitFence, Poll, PollFail, HostSignal, MayDispatch, Dispatch, DispatchFail,
           CallNext, PresentBegin, PresentReserve, PresentNative, PresentEmulated, PresentIdle, PresentIdleFail,
           AfterPresent, IdleBegin, IdleLock, IdleEnd, IdleFail, CallFail, Acquire, Complete,
           MutexFree, vars, sched, env
  <2>2. txn' = txn \/ txn' = NoTxn \/ ~failed
    BY FenceFrame DEF Next, SchedulerNext, EnqueueNext, EnqueueBegin, EnqueueBatch, EnqueueFail, EnqueueCommit,
           EnqueueCommitFence, Poll, PollFail, HostSignal, Dispatch, DispatchFail,
           CallNext, PresentBegin, PresentReserve, PresentNative, PresentEmulated, PresentIdle, PresentIdleFail,
           AfterPresent, IdleBegin, IdleLock, IdleEnd, IdleFail, CallFail, Acquire, Complete,
           vars, sched, env, WaitInv
  <2>. QED  BY <2>1, <2>2 DEF WaitInv
<1>2. ASSUME NEW b \in Binaries PROVE WaitsOf(b)'
  <2>0. EpochsOf(b) /\ WaitsOf(b) /\ (failed => txn = NoTxn)
    BY DEF EpochInv, WaitInv
  <2>1. ASSUME NEW done \in SUBSET Completed, Poll(done) PROVE WaitFrame(b)
    BY <2>1 DEF Poll, WaitFrame, Holds, Given, env
  <2>2. ASSUME PollFail PROVE WaitFrame(b)
    BY <2>2 DEF PollFail, WaitFrame, Holds, Given, env
  <2>3. ASSUME NEW s, NEW value, HostSignal(s, value) PROVE WaitFrame(b)
    BY <2>3 DEF HostSignal, WaitFrame, Holds, Given
  <2>4. ASSUME NEW q, NEW j, DispatchFail(q, j) PROVE WaitFrame(b)
    BY <2>4 DEF DispatchFail, WaitFrame, Holds, Given, env
  <2>5. ASSUME NEW q, Complete(q) PROVE WaitFrame(b)
    BY <2>5 DEF Complete, sched, WaitFrame, Holds, Given
  <2>6. ASSUME UNCHANGED vars PROVE WaitFrame(b)
    BY <2>6 DEF vars, sched, env, WaitFrame, Holds, Given
  <2>7. WaitFrame(b) => WaitsOf(b)'
    BY <2>0, FrameWaits
  <2>8. EnqueueNext => WaitsOf(b)'
    BY <2>0, EnqueueWaits
  <2>9. CallNext => WaitsOf(b)'
    BY <2>0, CallWaits
  <2>10. ASSUME NEW q \in Queues, NEW j \in JobIds, Dispatch(q, j) PROVE WaitsOf(b)'
    BY <2>0, <2>10, DispatchWaits
  <2>11. ASSUME FenceNext PROVE WaitFrame(b)
    BY <2>11, FenceFrame DEF sched, WaitFrame, Holds, Given
  <2>. QED  BY <2>1, <2>2, <2>3, <2>4, <2>5, <2>6, <2>7, <2>8, <2>9, <2>10, <2>11 DEF Next, SchedulerNext
<1>. QED  BY <1>1, <1>2 DEF WaitInv

\* The driver is given a wait for a binary semaphore after its signal and before
\* the next one, whichever queues, presents and acquires they come from and
\* whatever fails, as long as the driver accepts the submissions whose result the
\* emulated swapchain does not look at.
THEOREM BinariesAlternate ==
    ASSUME "refused" \notin InternalResults PROVE Spec => []BinaryAlternates
<1>. DEFINE Inv == TypeInv /\ OrderInv /\ EpochInv /\ WaitInv
<1>1. Init => WaitInv
  BY DEF Init, WaitInv, WaitsOf, Holds, Reserved, NoCall
<1>2. Init => Inv
  BY <1>1, InitType, OrderInit, EpochInit
<1>3. Inv /\ [Next]_vars => Inv'
  BY TypeStep, OrderStep, EpochStep, WaitStep
<1>4. Inv => BinaryAlternates
  <2>. SUFFICES ASSUME Inv, NEW b \in Binaries
                PROVE  nat[b].waits <= nat[b].signals /\ nat[b].signals <= nat[b].waits + 1
    BY DEF BinaryAlternates
  <2>1. /\ order[b].waits \in Nat /\ order[b].signals \in Nat
        /\ order[b].submitted_waits \in Nat /\ order[b].submitted_signals \in Nat
        /\ nat[b].signals \in Nat /\ nat[b].waits \in Nat
    BY EpochNumbers DEF TypeInv
  <2>2. Numbers(b, order[b])
    BY DEF EpochInv, EpochsOf
  <2>3. \/ nat[b].waits = order[b].submitted_waits
        \/ /\ nat[b].waits = order[b].submitted_waits + 1
           /\ order[b].submitted_waits < order[b].submitted_signals
    <3>1. CASE \A q \in Queues : ~Holds(q, b)
      BY <3>1 DEF WaitInv, WaitsOf
    <3>2. ASSUME NEW q \in Queues, Holds(q, b) PROVE <2>3
      <4>1. order[b].submitted_waits < order[b].waits /\ order[b].waits <= order[b].submitted_signals
        BY <3>2 DEF EpochInv, EpochsOf, Claims
      <4>. QED  BY <2>1, <3>2, <4>1 DEF WaitInv, WaitsOf
    <3>. QED  BY <3>1, <3>2
  <2>. QED  BY <2>1, <2>2, <2>3 DEF Numbers
<1>. QED  BY <1>2, <1>3, <1>4, PTL DEF Spec

=============================================================================
