---------------------- MODULE TimelineScheduler_proofs ----------------------
(***************************************************************************)
(* Theorems about TimelineScheduler, for every set of queues, semaphores   *)
(* and batches and every bound.                                            *)
(***************************************************************************)
EXTENDS TimelineScheduler, TLAPS

\* A present that has reserved its waits: the counters of b are at least 1, also
\* after the rollback of an enqueue in progress, and no other present has b.
Reserved == {"presenting", "present_idle", "enqueued", "oom", "error"}
PresentsHold ==
    \A q \in Queues, b \in Binaries : call[q].waits[b] # 0 =>
       /\ \A r \in Queues : call[r].waits[b] # 0 => r = q
       /\ call[q].pc \in Reserved =>
             /\ order[b].waits >= 1
             /\ txn # NoTxn => txn.before[b] = Untouched \/ txn.before[b].waits >= 1

TypeInv == TypeOK /\ PresentsHold

LEMMA LargerNat == ASSUME NEW a \in Nat, NEW b \in Nat PROVE Larger(a, b) \in Nat
BY DEF Larger

LEMMA ReserveType ==
    ASSUME NEW batch \in Batch, NEW b \in Binaries, order \in [Binaries -> BinaryOrder]
    PROVE  Reserve(batch, b) \in BinaryOrder /\ Reserve(batch, b).waits >= order[b].waits
<1>1. order[b] \in BinaryOrder
  OBVIOUS
<1>2. ASSUME NEW o \in BinaryOrder
      PROVE  OrderedWait(o) \in BinaryOrder /\ OrderedWait(o).waits >= o.waits
  <2>. DEFINE e == o.waits + 1
              l == Larger(o.signals, e)
              m == IF o.signals < e THEN Larger(o.submitted_signals, e) ELSE o.submitted_signals
  <2>1. e \in Nat /\ e >= o.waits /\ o.signals \in Nat /\ o.submitted_signals \in Nat
    BY DEF BinaryOrder
  <2>2. l \in Nat /\ m \in Nat
    BY <2>1, LargerNat
  <2>3. OrderedWait(o) = [o EXCEPT !.waits = e, !.signals = l, !.submitted_signals = m]
    BY DEF OrderedWait
  <2>. HIDE DEF e, l, m
  <2>. QED  BY <2>1, <2>2, <2>3 DEF BinaryOrder
<1>3. ASSUME NEW o \in BinaryOrder
      PROVE  OrderedSignal(o) \in BinaryOrder /\ OrderedSignal(o).waits = o.waits
  BY DEF OrderedSignal, BinaryOrder
<1>. DEFINE o == IF b \in batch.bwaits THEN OrderedWait(order[b]) ELSE order[b]
<1>4. o \in BinaryOrder /\ o.waits >= order[b].waits
  BY <1>1, <1>2 DEF BinaryOrder
<1>5. OrderedSignal(o) \in BinaryOrder /\ OrderedSignal(o).waits = o.waits
  BY <1>3, <1>4
<1>6. Reserve(batch, b) = IF b \in batch.bsignals THEN OrderedSignal(o) ELSE o
  BY DEF Reserve
<1>. HIDE DEF o
<1>. QED  BY <1>4, <1>5, <1>6


LEMMA NoJobType == NoJob \in Job /\ NoEpochs \in Epochs /\ NoCall.waits = NoEpochs
BY DEF NoJob, NoEpochs, NoCall, Job, Epochs

LEMMA InitType == Init => TypeInv
<1>. SUFFICES ASSUME Init PROVE TypeInv
  OBVIOUS
<1>1. TypeOK
  <2>1. order \in [Binaries -> BinaryOrder]
    BY DEF Init, BinaryOrder
  <2>2. job \in [JobIds -> Job]
    BY NoJobType DEF Init
  <2>3. call \in [Queues ->
                   [pc : {"none", "present_drain", "presenting", "present_idle", "enqueued",
                          "oom", "error", "idle_drain", "idling"},
                    waits : Epochs]]
    BY NoJobType DEF Init, NoCall
  <2>4. native \in [Queues -> Seq(JobIds)]
    BY DEF Init
  <2>. QED  BY <2>1, <2>2, <2>3, <2>4 DEF Init, TypeOK, NoFenceWait
<1>2. PresentsHold
  BY DEF Init, PresentsHold, NoCall, NoEpochs
<1>. QED  BY <1>1, <1>2 DEF TypeInv

-----------------------------------------------------------------------------
(* The steps of an enqueue.                                                 *)

LEMMA EnqueueBeginType ==
    ASSUME TypeInv, NEW q \in Queues, NEW sparse \in BOOLEAN, EnqueueBegin(q, sparse)
    PROVE  TypeInv'
<1>1. txn' \in Transaction
  BY DEF EnqueueBegin, Transaction
<1>2. TypeOK'
  BY <1>1 DEF TypeInv, TypeOK, EnqueueBegin, env
<1>3. PresentsHold'
  BY DEF TypeInv, PresentsHold, EnqueueBegin
<1>. QED  BY <1>2, <1>3 DEF TypeInv

LEMMA JobOfType ==
    ASSUME TypeInv, NEW q \in Queues, NEW batch \in Batch
    PROVE  JobOf(q, batch) \in Job
<1>1. \A b \in Binaries : Reserve(batch, b).signals \in Nat /\ order[b].waits + 1 \in Nat
  BY ReserveType DEF TypeInv, TypeOK, BinaryOrder
<1>. DEFINE bw == [b \in Binaries |-> IF b \in batch.bwaits THEN order[b].waits + 1 ELSE 0]
            bs == [b \in Binaries |-> IF b \in batch.bsignals
                                      THEN Reserve(batch, b).signals ELSE 0]
<1>2. bw \in Epochs /\ bs \in Epochs
  BY <1>1 DEF Epochs
<1>3. JobOf(q, batch) = [queue |-> q, waits |-> batch.waits, signals |-> batch.signals,
                         bwaits |-> bw, bsignals |-> bs,
                         sparse |-> batch.sparse, tail |-> FALSE, acquires |-> {}]
  BY DEF JobOf
<1>. HIDE DEF bw, bs
<1>. QED  BY <1>2, <1>3 DEF Job, Batch

LEMMA EnqueueBatchType ==
    ASSUME TypeInv, NEW j \in JobIds, NEW batch \in Batches, EnqueueBatch(j, batch)
    PROVE  TypeInv'
<1>0. batch \in Batch /\ txn \in Transaction
  BY BatchesAssumption DEF EnqueueBatch, TypeInv, TypeOK
<1>1. job' \in [JobIds -> Job]
  BY <1>0, JobOfType DEF EnqueueBatch, TypeInv, TypeOK, Transaction
<1>2. order' \in [Binaries -> BinaryOrder]
  BY <1>0, ReserveType DEF EnqueueBatch, TypeInv, TypeOK
<1>3. txn' \in Transaction
  <2>1. Touch(txn.before, batch) \in [Binaries -> BinaryOrder \cup {Untouched}]
    BY <1>0 DEF Touch, Transaction, TypeInv, TypeOK
  <2>. QED  BY <1>0, <2>1 DEF EnqueueBatch, Transaction
<1>4. TypeOK'
  BY <1>1, <1>2, <1>3 DEF TypeInv, TypeOK, EnqueueBatch, env
<1>5. PresentsHold'
  <2>. SUFFICES ASSUME NEW q \in Queues, NEW b \in Binaries, call[q].waits[b] # 0,
                       call[q].pc \in Reserved
                PROVE  /\ order'[b].waits >= 1
                       /\ txn'.before[b] = Untouched \/ txn'.before[b].waits >= 1
    BY DEF PresentsHold, TypeInv, EnqueueBatch
  <2>1. order[b].waits >= 1 /\ (txn.before[b] = Untouched \/ txn.before[b].waits >= 1)
    BY DEF TypeInv, PresentsHold, EnqueueBatch
  <2>2. order'[b].waits >= order[b].waits /\ order'[b].waits \in Nat /\ order[b].waits \in Nat
    BY <1>0, <1>2, ReserveType DEF EnqueueBatch, TypeInv, TypeOK, BinaryOrder
  <2>3. txn'.before[b] = txn.before[b] \/ txn'.before[b] = order[b]
    BY <1>0 DEF EnqueueBatch, Touch, Transaction
  <2>. QED  BY <2>1, <2>2, <2>3
<1>. QED  BY <1>4, <1>5 DEF TypeInv

LEMMA EnqueueFailType == ASSUME TypeInv, EnqueueFail PROVE TypeInv'
<1>0. txn \in Transaction
  BY DEF EnqueueFail, TypeInv, TypeOK
<1>1. order' \in [Binaries -> BinaryOrder]
  BY <1>0 DEF EnqueueFail, TypeInv, TypeOK, Transaction
<1>2. job' \in [JobIds -> Job]
  BY NoJobType DEF EnqueueFail, TypeInv, TypeOK
<1>3. TypeOK'
  BY <1>1, <1>2 DEF EnqueueFail, TypeInv, TypeOK, env
<1>4. PresentsHold'
  BY <1>0 DEF EnqueueFail, TypeInv, PresentsHold, Transaction
<1>. QED  BY <1>3, <1>4 DEF TypeInv

LEMMA EnqueueCommitType == ASSUME TypeInv, EnqueueCommit PROVE TypeInv'
<1>1. TypeOK'
  BY DEF EnqueueCommit, Splice, TypeInv, TypeOK, env
<1>2. PresentsHold'
  BY DEF EnqueueCommit, TypeInv, PresentsHold
<1>. QED  BY <1>1, <1>2 DEF TypeInv

LEMMA EnqueueCommitFenceType ==
    ASSUME TypeInv, NEW j \in JobIds, EnqueueCommitFence(j) PROVE TypeInv'
<1>0. txn \in Transaction
  BY DEF EnqueueCommitFence, TypeInv, TypeOK
<1>1. job' \in [JobIds -> Job]
  <2>1. [NoJob EXCEPT !.queue = txn.queue, !.tail = TRUE, !.sparse = txn.sparse] \in Job
    BY <1>0, NoJobType DEF Job, Transaction
  <2>. QED  BY <2>1 DEF EnqueueCommitFence, TypeInv, TypeOK
<1>2. TypeOK'
  BY <1>1 DEF EnqueueCommitFence, Splice, TypeInv, TypeOK, env
<1>3. PresentsHold'
  BY DEF EnqueueCommitFence, TypeInv, PresentsHold
<1>. QED  BY <1>2, <1>3 DEF TypeInv

-----------------------------------------------------------------------------
(* Polling, host signals and dispatch.                                      *)

LEMMA PublishType ==
    ASSUME TypeOK, NEW done \in SUBSET JobIds, Publish(done)
    PROVE  /\ timeline' \in [Timelines -> [value : Nat, release : Release \cup {NoRelease}]]
           /\ stage' \in [JobIds -> {"unused", "building", "staged", "pending", "retired"}]
<1>1. PICK top \in [Timelines -> done \cup {NoRelease}] :
        timeline' = [s \in Timelines |->
            IF top[s] = NoRelease THEN timeline[s]
            ELSE [value |-> job[top[s]].signals[s], release |-> [job |-> top[s], sem |-> s]]]
  BY DEF Publish
<1>2. ASSUME NEW s \in Timelines
      PROVE  timeline'[s] \in [value : Nat, release : Release \cup {NoRelease}]
  <2>1. CASE top[s] = NoRelease
    BY <1>1, <2>1 DEF TypeOK
  <2>2. CASE top[s] # NoRelease
    <3>1. top[s] \in JobIds
      BY <2>2
    <3>2. job[top[s]].signals[s] \in Nat
      BY <3>1 DEF TypeOK, Job
    <3>3. [job |-> top[s], sem |-> s] \in Release
      BY <3>1 DEF Release
    <3>. QED  BY <1>1, <2>2, <3>2, <3>3
  <2>. QED  BY <2>1, <2>2
<1>3. stage' \in [JobIds -> {"unused", "building", "staged", "pending", "retired"}]
  BY DEF Publish, TypeOK
<1>. QED  BY <1>1, <1>2, <1>3

LEMMA PollType ==
    ASSUME TypeInv, NEW done \in SUBSET Completed, Poll(done) PROVE TypeInv'
<1>1. done \in SUBSET JobIds
  BY DEF Completed, TypeInv, TypeOK
<1>2. TypeOK'
  BY <1>1, PublishType DEF Poll, TypeInv, TypeOK, env
<1>3. PresentsHold'
  BY DEF Poll, TypeInv, PresentsHold
<1>. QED  BY <1>2, <1>3 DEF TypeInv

LEMMA PollFailType == ASSUME TypeInv, PollFail PROVE TypeInv'
BY DEF PollFail, TypeInv, TypeOK, PresentsHold, env

LEMMA HostSignalType ==
    ASSUME TypeInv, NEW s \in Timelines, NEW value \in HostValues, HostSignal(s, value)
    PROVE  TypeInv'
<1>0. value \in Nat
  BY BoundsAssumption
<1>1. TypeOK'
  BY <1>0 DEF HostSignal, TypeInv, TypeOK
<1>2. PresentsHold'
  BY DEF HostSignal, TypeInv, PresentsHold
<1>. QED  BY <1>1, <1>2 DEF TypeInv

LEMMA CurrentTokensType ==
    ASSUME TypeOK, NEW q \in Queues, NEW j \in JobIds, job[j].queue = q
    PROVE  CurrentTokens(j) \subseteq Token
<1>. SUFFICES ASSUME NEW w \in job[j].waits, timeline[w.sem].release # NoRelease
              PROVE  [release |-> timeline[w.sem].release, slot |-> SlotOf(j, w)] \in Token
  BY DEF CurrentTokens
<1>1. w \in Wait
  BY DEF TypeOK, Job
<1>2. timeline[w.sem].release \in Release
  BY <1>1 DEF Wait, TypeOK
<1>3. SlotOf(j, w) \in Slot
  BY <1>1 DEF SlotOf, Slot, Wait
<1>. QED  BY <1>2, <1>3 DEF Token

LEMMA CountedType ==
    ASSUME TypeOK, NEW bw \in Epochs, NEW bs \in Epochs
    PROVE  Counted(bw, bs) \in [Binaries -> [signals : Nat, waits : Nat]]
BY DEF TypeOK, Counted, Epochs

LEMMA DispatchType ==
    ASSUME TypeInv, NEW q \in Queues, NEW j \in JobIds, Dispatch(q, j) PROVE TypeInv'
<1>0. TypeOK /\ job[j].queue = q /\ job[j] \in Job /\ job[j].bwaits \in Epochs
        /\ job[j].bsignals \in Epochs
  BY DEF Dispatch, MayDispatch, IsFront, Staged, TypeInv, TypeOK, Job
<1>1. CurrentTokens(j) \subseteq Token /\ NewTokens(j) \subseteq Token
  BY <1>0, CurrentTokensType DEF NewTokens
<1>2. job' \in [JobIds -> Job]
  <2>1. Acquires(j) \subseteq Release
    BY <1>1 DEF Acquires, Token
  <2>. QED  BY <1>0, <2>1 DEF Dispatch, TypeOK, Job
<1>3. order' \in [Binaries -> BinaryOrder] /\ \A b \in Binaries : order'[b].waits = order[b].waits
  <2>1. ASSUME NEW b \in Binaries
        PROVE  Submitted(j)[b] \in BinaryOrder /\ Submitted(j)[b].waits = order[b].waits
    <3>. DEFINE m == Larger(order[b].submitted_waits, job[j].bwaits[b])
                n == Larger(order[b].submitted_signals, job[j].bsignals[b])
    <3>1. m \in Nat /\ n \in Nat
      <4>1. /\ order[b].submitted_waits \in Nat /\ order[b].submitted_signals \in Nat
            /\ job[j].bwaits[b] \in Nat /\ job[j].bsignals[b] \in Nat
        BY <1>0 DEF TypeOK, BinaryOrder, Epochs
      <4>. QED  BY <4>1, LargerNat
    <3>2. Submitted(j)[b] = [order[b] EXCEPT !.submitted_waits = m, !.submitted_signals = n]
      BY DEF Submitted
    <3>3. order[b] \in BinaryOrder
      BY <1>0 DEF TypeOK
    <3>. HIDE DEF m, n
    <3>. QED  BY <3>1, <3>2, <3>3 DEF BinaryOrder
  <2>. QED  BY <2>1 DEF Dispatch, Submitted
<1>4. native' \in [Queues -> Seq(JobIds)]
  BY <1>0 DEF Dispatch, TypeOK
<1>5. nat' \in [Binaries -> [signals : Nat, waits : Nat]]
  BY <1>0, CountedType DEF Dispatch
<1>6. acquired' \subseteq Token /\ waited' \subseteq [token : Token, by : JobIds]
  BY <1>0, <1>1 DEF Dispatch, Flagged, TypeOK
<1>7. stage' \in [JobIds -> {"unused", "building", "staged", "pending", "retired"}]
  BY <1>0 DEF Dispatch, TypeOK
<1>8. TypeOK'
  BY <1>0, <1>2, <1>3, <1>4, <1>5, <1>6, <1>7 DEF Dispatch, TypeOK
<1>9. PresentsHold'
  BY <1>3 DEF Dispatch, TypeInv, PresentsHold
<1>. QED  BY <1>8, <1>9 DEF TypeInv

LEMMA DispatchFailType ==
    ASSUME TypeInv, NEW q \in Queues, NEW j \in JobIds, DispatchFail(q, j) PROVE TypeInv'
BY DEF DispatchFail, TypeInv, TypeOK, PresentsHold, env

-----------------------------------------------------------------------------
(* Presents, queue idles, acquires and the driver.                          *)

Pcs == {"none", "present_drain", "presenting", "present_idle", "enqueued",
        "oom", "error", "idle_drain", "idling"}

LEMMA GotoType ==
    ASSUME TypeOK, NEW q \in Queues, NEW pc \in Pcs, Goto(q, pc)
    PROVE  /\ call' \in [Queues -> [pc : Pcs, waits : Epochs]]
           /\ \A r \in Queues : call'[r].waits = call[r].waits
           /\ call'[q].pc = pc
           /\ \A r \in Queues : r # q => call'[r] = call[r]
BY DEF Goto, TypeOK, Pcs

LEMMA ReturnType ==
    ASSUME TypeOK, NEW q \in Queues, Return(q)
    PROVE  /\ call' \in [Queues -> [pc : Pcs, waits : Epochs]]
           /\ \A b \in Binaries : call'[q].waits[b] = 0
           /\ \A r \in Queues : r # q => call'[r] = call[r]
BY NoJobType DEF Return, TypeOK, Pcs, NoCall, NoEpochs

LEMMA PresentBeginType ==
    ASSUME TypeInv, NEW q \in Queues, NEW sems \in SUBSET Binaries, PresentBegin(q, sems)
    PROVE  TypeInv'
<1>. DEFINE ws == [b \in Binaries |-> IF b \in sems THEN order[b].waits + 1 ELSE 0]
<1>1. ws \in Epochs
  BY DEF TypeInv, TypeOK, BinaryOrder, Epochs
<1>2. call' = [call EXCEPT ![q] = [pc |-> "present_drain", waits |-> ws]]
  BY DEF PresentBegin
<1>3. TypeOK'
  BY <1>1, <1>2 DEF PresentBegin, TypeInv, TypeOK, env
<1>4. PresentsHold'
  <2>. SUFFICES ASSUME NEW p \in Queues, NEW b \in Binaries, call'[p].waits[b] # 0
                PROVE  /\ \A r \in Queues : call'[r].waits[b] # 0 => r = p
                       /\ call'[p].pc \in Reserved =>
                             /\ order[b].waits >= 1
                             /\ txn # NoTxn =>
                                   txn.before[b] = Untouched \/ txn.before[b].waits >= 1
    BY DEF PresentsHold, PresentBegin
  <2>1. \A r \in Queues : call[r].waits[b] # 0 => ~ (b \in sems)
    BY DEF PresentBegin, InPresent
  <2>2. call'[q].waits[b] # 0 => b \in sems
    BY <1>2 DEF TypeInv, TypeOK
  <2>3. call'[q].pc = "present_drain" /\ \A r \in Queues : r # q => call'[r] = call[r]
    BY <1>2 DEF TypeInv, TypeOK
  <2>. QED  BY <2>1, <2>2, <2>3 DEF TypeInv, PresentsHold, Reserved
<1>. QED  BY <1>3, <1>4 DEF TypeInv

LEMMA PresentOrderType ==
    ASSUME NEW b \in Binaries, NEW e \in Nat, order[b] \in BinaryOrder
    PROVE  /\ PresentOrder(b, e) \in BinaryOrder
           /\ e # 0 => PresentOrder(b, e).waits = e
           /\ e = 0 => PresentOrder(b, e) = order[b]
<1>. DEFINE l == Larger(order[b].signals, e)
            m == IF order[b].signals < e THEN e ELSE order[b].submitted_signals
<1>1. order[b].signals \in Nat /\ order[b].submitted_signals \in Nat
  BY DEF BinaryOrder
<1>2. l \in Nat /\ m \in Nat
  BY <1>1, LargerNat
<1>3. PresentOrder(b, e) =
        IF e = 0 THEN order[b]
        ELSE [order[b] EXCEPT !.waits = e, !.signals = l, !.submitted_signals = m]
  BY DEF PresentOrder
<1>. HIDE DEF l, m
<1>. QED  BY <1>2, <1>3 DEF BinaryOrder

LEMMA PresentReserveType ==
    ASSUME TypeInv, NEW q \in Queues, PresentReserve(q) PROVE TypeInv'
<1>0. TypeOK /\ "presenting" \in Pcs /\ call[q].waits \in Epochs
  BY DEF TypeInv, TypeOK, Pcs
<1>1. \A b \in Binaries : /\ call[q].waits[b] \in Nat
                          /\ order[b] \in BinaryOrder
                          /\ order'[b] = PresentOrder(b, call[q].waits[b])
  BY <1>0 DEF TypeOK, Epochs, PresentReserve
<1>2. order' \in [Binaries -> BinaryOrder]
  BY <1>1, PresentOrderType DEF PresentReserve
<1>3. /\ call' \in [Queues -> [pc : Pcs, waits : Epochs]]
      /\ \A r \in Queues : call'[r].waits = call[r].waits
      /\ \A r \in Queues : r # q => call'[r] = call[r]
  BY <1>0, GotoType DEF PresentReserve
<1>4. TypeOK'
  BY <1>2, <1>3 DEF PresentReserve, TypeInv, TypeOK, env, Pcs
<1>5. PresentsHold'
  <2>. SUFFICES ASSUME NEW p \in Queues, NEW b \in Binaries, call[p].waits[b] # 0,
                       call'[p].pc \in Reserved
                PROVE  order'[b].waits >= 1
    BY <1>3 DEF PresentsHold, PresentReserve, MutexFree, TypeInv
  <2>1. CASE p = q
    <3>1. order'[b].waits = call[q].waits[b] /\ call[q].waits[b] \in Nat
      BY <1>1, <2>1, PresentOrderType
    <3>. QED  BY <3>1, <2>1
  <2>2. CASE p # q
    <3>1. call[q].waits[b] = 0
      BY <2>2 DEF TypeInv, PresentsHold
    <3>2. order'[b] = order[b]
      BY <1>1, <3>1, PresentOrderType
    <3>. QED  BY <3>2, <2>2, <1>3 DEF TypeInv, PresentsHold
  <2>. QED  BY <2>1, <2>2
<1>. QED  BY <1>4, <1>5 DEF TypeInv

LEMMA NatAfterPresentType ==
    ASSUME TypeInv, NEW q \in Queues, NEW pc \in Reserved, call[q].pc = "presenting",
           Goto(q, pc),
           nat' \in [Binaries -> [signals : Nat, waits : Nat]],
           UNCHANGED <<stage, job, timeline, acquired, order, txn, failed,
                       native, complete, fenceWait, waited, hostValue>>
    PROVE  TypeInv'
<1>1. /\ call' \in [Queues -> [pc : Pcs, waits : Epochs]]
      /\ \A r \in Queues : call'[r].waits = call[r].waits
      /\ \A r \in Queues : r # q => call'[r] = call[r]
  BY GotoType DEF TypeInv, Reserved, Pcs
<1>2. TypeOK'
  BY <1>1 DEF TypeInv, TypeOK, Pcs
<1>3. PresentsHold'
  BY <1>1 DEF TypeInv, PresentsHold, Reserved
<1>. QED  BY <1>2, <1>3 DEF TypeInv

LEMMA PresentNativeType ==
    ASSUME TypeInv, NEW q \in Queues, NEW result \in PresentResults, PresentNative(q, result)
    PROVE  TypeInv'
<1>1. result \in Reserved
  BY ResultsAssumption DEF Reserved
<1>2. NoEpochs \in Epochs /\ call[q].waits \in Epochs
  BY NoJobType DEF TypeInv, TypeOK
<1>3. nat' \in [Binaries -> [signals : Nat, waits : Nat]]
  BY <1>2, CountedType DEF PresentNative, TypeInv, TypeOK
<1>. QED  BY <1>1, <1>3, NatAfterPresentType DEF PresentNative

LEMMA PresentEmulatedType ==
    ASSUME TypeInv, NEW q \in Queues, NEW result \in InternalResults,
           NEW next \in {"present_idle", "enqueued"}, PresentEmulated(q, result, next)
    PROVE  TypeInv'
<1>1. next \in Reserved
  BY DEF Reserved
<1>2. NoEpochs \in Epochs /\ call[q].waits \in Epochs
  BY NoJobType DEF TypeInv, TypeOK
<1>3. nat' \in [Binaries -> [signals : Nat, waits : Nat]]
  BY <1>2, CountedType DEF PresentEmulated, TypeInv, TypeOK
<1>. QED  BY <1>1, <1>3, NatAfterPresentType DEF PresentEmulated

LEMMA PresentIdleType == ASSUME TypeInv, NEW q \in Queues, PresentIdle(q) PROVE TypeInv'
<1>0. TypeOK /\ "enqueued" \in Pcs /\ Completed \in SUBSET JobIds
  BY DEF TypeInv, TypeOK, Pcs, Completed
<1>1. /\ call' \in [Queues -> [pc : Pcs, waits : Epochs]]
      /\ \A r \in Queues : call'[r].waits = call[r].waits
      /\ \A r \in Queues : r # q => call'[r] = call[r]
  BY <1>0, GotoType DEF PresentIdle
<1>2. /\ timeline' \in [Timelines -> [value : Nat, release : Release \cup {NoRelease}]]
      /\ stage' \in [JobIds -> {"unused", "building", "staged", "pending", "retired"}]
  BY <1>0, PublishType DEF PresentIdle, TypeOK
<1>3. TypeOK'
  BY <1>1, <1>2 DEF PresentIdle, TypeInv, TypeOK, env, Pcs
<1>4. PresentsHold'
  BY <1>1 DEF PresentIdle, TypeInv, PresentsHold, Reserved
<1>. QED  BY <1>3, <1>4 DEF TypeInv

LEMMA PresentIdleFailType ==
    ASSUME TypeInv, NEW q \in Queues, PresentIdleFail(q) PROVE TypeInv'
<1>0. TypeOK /\ "enqueued" \in Pcs
  BY DEF TypeInv, Pcs
<1>1. /\ call' \in [Queues -> [pc : Pcs, waits : Epochs]]
      /\ \A r \in Queues : call'[r].waits = call[r].waits
      /\ \A r \in Queues : r # q => call'[r] = call[r]
  BY <1>0, GotoType DEF PresentIdleFail
<1>2. TypeOK'
  BY <1>1 DEF PresentIdleFail, TypeInv, TypeOK, env, Pcs
<1>3. PresentsHold'
  BY <1>1 DEF PresentIdleFail, TypeInv, PresentsHold, Reserved
<1>. QED  BY <1>2, <1>3 DEF TypeInv

LEMMA AfterOrderType ==
    ASSUME NEW b \in Binaries, NEW e \in Nat, NEW result, order[b] \in BinaryOrder,
           e # 0 => order[b].waits >= 1
    PROVE  /\ AfterOrder(b, e, result) \in BinaryOrder
           /\ e = 0 => AfterOrder(b, e, result) = order[b]
<1>1. order[b].waits \in Nat /\ order[b].submitted_waits \in Nat
  BY DEF BinaryOrder
<1>. DEFINE l == Larger(order[b].submitted_waits, order[b].waits)
<1>2. l \in Nat
  BY <1>1, LargerNat
<1>3. CASE e = 0
  BY <1>3 DEF AfterOrder
<1>4. CASE e # 0 /\ result = "oom"
  <2>1. AfterOrder(b, e, result) = [order[b] EXCEPT !.waits = order[b].waits - 1]
    BY <1>4 DEF AfterOrder
  <2>2. order[b].waits - 1 \in Nat
    BY <1>1, <1>4
  <2>. QED  BY <2>1, <2>2, <1>4 DEF BinaryOrder
<1>5. CASE e # 0 /\ result # "oom"
  <2>1. AfterOrder(b, e, result) = [order[b] EXCEPT !.submitted_waits = l]
    BY <1>5 DEF AfterOrder
  <2>. HIDE DEF l
  <2>. QED  BY <2>1, <1>2, <1>5 DEF BinaryOrder
<1>. QED  BY <1>3, <1>4, <1>5

LEMMA AfterPresentType == ASSUME TypeInv, NEW q \in Queues, AfterPresent(q) PROVE TypeInv'
<1>0. TypeOK /\ call[q].pc \in Reserved
  BY DEF TypeInv, AfterPresent, Reserved
<1>1. /\ call' \in [Queues -> [pc : Pcs, waits : Epochs]]
      /\ \A b \in Binaries : call'[q].waits[b] = 0
      /\ \A r \in Queues : r # q => call'[r] = call[r]
  BY <1>0, ReturnType DEF AfterPresent
<1>2. \A b \in Binaries :
        /\ call[q].waits[b] \in Nat /\ order[b] \in BinaryOrder
        /\ call[q].waits[b] # 0 => order[b].waits >= 1
  BY <1>0 DEF TypeInv, TypeOK, Epochs, PresentsHold
<1>3. /\ order' \in [Binaries -> BinaryOrder]
      /\ \A b \in Binaries : call[q].waits[b] = 0 => order'[b] = order[b]
  <2>1. CASE order' = order
    BY <2>1, <1>0 DEF TypeOK
  <2>2. CASE order' = [b \in Binaries |-> AfterOrder(b, call[q].waits[b], call[q].pc)]
    BY <2>2, <1>2, AfterOrderType
  <2>. QED  BY <2>1, <2>2 DEF AfterPresent
<1>4. TypeOK'
  BY <1>1, <1>3 DEF AfterPresent, TypeInv, TypeOK, env, Pcs
<1>5. PresentsHold'
  <2>. SUFFICES ASSUME NEW p \in Queues, NEW b \in Binaries, call'[p].waits[b] # 0
                PROVE  /\ \A r \in Queues : call'[r].waits[b] # 0 => r = p
                       /\ call'[p].pc \in Reserved => order'[b].waits >= 1
    BY DEF PresentsHold, AfterPresent, MutexFree
  <2>1. p # q /\ call'[p] = call[p]
    BY <1>1
  <2>2. call[q].waits[b] = 0
    BY <2>1 DEF TypeInv, PresentsHold
  <2>3. order'[b] = order[b]
    BY <1>3, <2>2
  <2>. QED  BY <1>1, <2>1, <2>3 DEF TypeInv, PresentsHold
<1>. QED  BY <1>4, <1>5 DEF TypeInv

LEMMA IdleBeginType == ASSUME TypeInv, NEW q \in Queues, IdleBegin(q) PROVE TypeInv'
<1>1. /\ call' \in [Queues -> [pc : Pcs, waits : Epochs]]
      /\ \A r \in Queues : call'[r].waits = call[r].waits
      /\ call'[q].pc = "idle_drain"
      /\ \A r \in Queues : r # q => call'[r] = call[r]
  BY GotoType DEF IdleBegin, TypeInv, Pcs
<1>2. TypeOK'
  BY <1>1 DEF IdleBegin, TypeInv, TypeOK, env, Pcs
<1>3. PresentsHold'
  BY <1>1 DEF IdleBegin, TypeInv, PresentsHold, Reserved
<1>. QED  BY <1>2, <1>3 DEF TypeInv

LEMMA IdleLockType == ASSUME TypeInv, NEW q \in Queues, IdleLock(q) PROVE TypeInv'
<1>1. /\ call' \in [Queues -> [pc : Pcs, waits : Epochs]]
      /\ \A r \in Queues : call'[r].waits = call[r].waits
      /\ call'[q].pc = "idling"
      /\ \A r \in Queues : r # q => call'[r] = call[r]
  BY GotoType DEF IdleLock, TypeInv, Pcs
<1>2. TypeOK'
  BY <1>1 DEF IdleLock, TypeInv, TypeOK, env, Pcs
<1>3. PresentsHold'
  BY <1>1 DEF IdleLock, TypeInv, PresentsHold, Reserved
<1>. QED  BY <1>2, <1>3 DEF TypeInv

LEMMA CallEndType ==
    ASSUME TypeInv, NEW q \in Queues, Return(q), order' = order, txn' = txn, TypeOK'
    PROVE  TypeInv'
<1>1. /\ \A b \in Binaries : call'[q].waits[b] = 0
      /\ \A r \in Queues : r # q => call'[r] = call[r]
  BY ReturnType DEF TypeInv
<1>2. PresentsHold'
  BY <1>1 DEF TypeInv, PresentsHold
<1>. QED  BY <1>2 DEF TypeInv

LEMMA IdleEndType == ASSUME TypeInv, NEW q \in Queues, IdleEnd(q) PROVE TypeInv'
<1>1. call' \in [Queues -> [pc : Pcs, waits : Epochs]]
  BY ReturnType DEF IdleEnd, TypeInv
<1>2. Completed \in SUBSET JobIds
  BY DEF TypeInv, TypeOK, Completed
<1>3. TypeOK'
  BY <1>1, <1>2, PublishType DEF IdleEnd, TypeInv, TypeOK, env, Pcs
<1>. QED  BY <1>3, CallEndType DEF IdleEnd

LEMMA IdleFailType == ASSUME TypeInv, NEW q \in Queues, IdleFail(q) PROVE TypeInv'
<1>1. call' \in [Queues -> [pc : Pcs, waits : Epochs]]
  BY ReturnType DEF IdleFail, TypeInv
<1>2. TypeOK'
  BY <1>1 DEF IdleFail, TypeInv, TypeOK, env, Pcs
<1>. QED  BY <1>2, CallEndType DEF IdleFail

LEMMA CallFailType == ASSUME TypeInv, NEW q \in Queues, CallFail(q) PROVE TypeInv'
<1>1. call' \in [Queues -> [pc : Pcs, waits : Epochs]]
  BY ReturnType DEF CallFail, TypeInv
<1>2. TypeOK'
  BY <1>1 DEF CallFail, TypeInv, TypeOK, env, Pcs
<1>. QED  BY <1>2, CallEndType DEF CallFail

LEMMA AcquireType ==
    ASSUME TypeInv, NEW q \in Queues, NEW b \in Binaries, NEW result, Acquire(q, b, result)
    PROVE  TypeInv'
<1>1. NoEpochs \in Epochs /\ [NoEpochs EXCEPT ![b] = 1] \in Epochs
  BY NoJobType DEF Epochs
<1>2. nat' \in [Binaries -> [signals : Nat, waits : Nat]]
  BY <1>1, CountedType DEF Acquire, TypeInv, TypeOK
<1>3. TypeOK'
  BY <1>2 DEF Acquire, TypeInv, TypeOK, sched
<1>4. PresentsHold'
  BY DEF Acquire, TypeInv, PresentsHold, sched
<1>. QED  BY <1>3, <1>4 DEF TypeInv

LEMMA CompleteType == ASSUME TypeInv, NEW q \in Queues, Complete(q) PROVE TypeInv'
<1>1. native[q] \in Seq(JobIds) /\ native[q] # <<>>
  BY DEF Complete, TypeInv, TypeOK
<1>2. Head(native[q]) \in JobIds /\ Tail(native[q]) \in Seq(JobIds)
  BY <1>1
<1>3. TypeOK'
  BY <1>2 DEF Complete, TypeInv, TypeOK, sched
<1>4. PresentsHold'
  BY DEF Complete, TypeInv, PresentsHold, sched
<1>. QED  BY <1>3, <1>4 DEF TypeInv

\* A wait for a fence changes nothing that another step reads but fence_io.
LEMMA FenceFrame ==
    ASSUME FenceNext PROVE UNCHANGED <<sched, native, complete, nat, waited, hostValue>>
BY DEF FenceNext, FenceWait, FenceProbe, FenceProbed, FenceTimeout, FenceError

LEMMA FenceType == ASSUME TypeInv, FenceNext PROVE TypeInv'
<1>1. fenceWait' \in [of : JobIds \cup {0}, io : BOOLEAN]
  <2>1. NoFenceWait \in [of : JobIds \cup {0}, io : BOOLEAN]
    BY DEF NoFenceWait
  <2>2. ASSUME NEW j \in JobIds, FenceWait(j)
        PROVE  fenceWait' \in [of : JobIds \cup {0}, io : BOOLEAN]
    BY <2>2 DEF FenceWait
  <2>3. CASE FenceProbe
    BY <2>3 DEF FenceProbe, TypeInv, TypeOK
  <2>4. CASE FenceProbed \/ FenceTimeout \/ FenceError
    BY <2>1, <2>4 DEF FenceProbed, FenceTimeout, FenceError, TypeInv, TypeOK
  <2>. QED  BY <2>2, <2>3, <2>4 DEF FenceNext
<1>2. TypeOK'
  BY <1>1, FenceFrame DEF TypeInv, TypeOK, sched
<1>3. PresentsHold'
  BY FenceFrame DEF TypeInv, PresentsHold, sched
<1>. QED  BY <1>2, <1>3 DEF TypeInv

-----------------------------------------------------------------------------

LEMMA TypeStep == TypeInv /\ [Next]_vars => TypeInv'
<1>. SUFFICES ASSUME TypeInv, [Next]_vars PROVE TypeInv'
  OBVIOUS
<1>1. CASE EnqueueNext
  <2>1. ASSUME NEW q \in Queues, NEW sparse \in {batch.sparse : batch \in Batches},
               EnqueueBegin(q, sparse)
        PROVE  TypeInv'
    <3>1. sparse \in BOOLEAN
      BY BatchesAssumption DEF Batch
    <3>. QED  BY <2>1, <3>1, EnqueueBeginType
  <2>. QED  BY <1>1, <2>1, EnqueueBatchType, EnqueueFailType, EnqueueCommitType,
               EnqueueCommitFenceType DEF EnqueueNext
<1>2. CASE \E done \in SUBSET Completed : Poll(done)
  BY <1>2, PollType
<1>3. CASE PollFail
  BY <1>3, PollFailType
<1>4. CASE \E s \in Timelines, value \in HostValues : HostSignal(s, value)
  BY <1>4, HostSignalType
<1>5. CASE \E q \in Queues, j \in JobIds : Dispatch(q, j)
  BY <1>5, DispatchType
<1>6. CASE \E q \in Queues, j \in JobIds : DispatchFail(q, j)
  BY <1>6, DispatchFailType
<1>7. CASE CallNext
  BY <1>7, PresentBeginType, PresentReserveType, PresentNativeType, PresentEmulatedType,
     PresentIdleType, PresentIdleFailType, AfterPresentType, IdleBeginType, IdleLockType, IdleEndType,
     IdleFailType, CallFailType, AcquireType DEF CallNext
<1>8. CASE \E q \in Queues : Complete(q)
  BY <1>8, CompleteType
<1>9. CASE UNCHANGED vars
  BY <1>9 DEF vars, sched, env, TypeInv, TypeOK, PresentsHold
<1>10. CASE FenceNext
  BY <1>10, FenceType
<1>. QED  BY <1>1, <1>2, <1>3, <1>4, <1>5, <1>6, <1>7, <1>8, <1>9, <1>10 DEF Next, SchedulerNext

\* Every variable keeps its type, whatever the instance.  In particular the
\* unsigned counters of a BinaryOrder never wrap: after_present takes back a
\* wait only while the present holds one, also after an enqueue is rolled back.
THEOREM TypeCorrect == Spec => []TypeOK
<1>1. Init => TypeInv
  BY InitType
<1>2. TypeInv /\ [Next]_vars => TypeInv'
  BY TypeStep
<1>3. TypeInv => TypeOK
  BY DEF TypeInv
<1>. QED  BY <1>1, <1>2, <1>3, PTL DEF Spec

-----------------------------------------------------------------------------
(* What a step does to jobs, counters and tokens: one of six kinds.         *)

Quiet == UNCHANGED <<stage, job, timeline, acquired, waited, hostValue, complete>>

\* Only jobs that the worker has not dispatched are created, staged or dropped.
Enqueues ==
    /\ UNCHANGED <<timeline, acquired, waited, hostValue, complete>>
    /\ \A j \in JobIds : Dispatched(j) => stage'[j] = stage[j] /\ job'[j] = job[j]
    /\ \A j \in JobIds : ~Dispatched(j) => stage'[j] \notin {"pending", "retired"}
    /\ \A j \in JobIds : \/ job'[j] = job[j]
                         \/ ~job'[j].tail
                         \/ \A s \in Timelines : job'[j].signals[s] = 0

Publishes ==
    /\ \E done \in SUBSET Completed : Publish(done)
    /\ UNCHANGED <<job, acquired, waited, hostValue, complete>>

Kinds ==
    \/ Quiet
    \/ Enqueues
    \/ Publishes
    \/ \E s \in Timelines, value \in HostValues : HostSignal(s, value)
    \/ \E q \in Queues, j \in JobIds : Dispatch(q, j)
    \/ \E q \in Queues : Complete(q)

LEMMA EnqueueKind == ASSUME TypeInv, EnqueueNext PROVE Quiet \/ Enqueues
<1>1. ASSUME NEW q, NEW sparse, EnqueueBegin(q, sparse) PROVE Quiet
  BY <1>1 DEF EnqueueBegin, Quiet, env
<1>2. ASSUME NEW j \in JobIds, NEW batch \in Batches, EnqueueBatch(j, batch) PROVE Enqueues
  <2>1. job' = [job EXCEPT ![j] = JobOf(txn.queue, batch)] /\ stage[j] = "unused"
    BY <1>2 DEF EnqueueBatch, NextJob
  <2>2. ~JobOf(txn.queue, batch).tail
    BY DEF JobOf
  <2>. QED  BY <1>2, <2>1, <2>2 DEF EnqueueBatch, Enqueues, Dispatched, TypeInv, TypeOK, env
<1>3. CASE EnqueueFail
  BY <1>3 DEF EnqueueFail, Enqueues, Dispatched, Building, NoJob, TypeInv, TypeOK, env
<1>4. CASE EnqueueCommit
  BY <1>4 DEF EnqueueCommit, Splice, Enqueues, Dispatched, Building, TypeInv, TypeOK, env
<1>5. ASSUME NEW j \in JobIds, EnqueueCommitFence(j) PROVE Enqueues
  <2>. DEFINE t == [NoJob EXCEPT !.queue = txn.queue, !.tail = TRUE, !.sparse = txn.sparse]
  <2>1. job' = [job EXCEPT ![j] = t] /\ stage[j] = "unused" /\ stage' = [Splice EXCEPT ![j] = "staged"]
    BY <1>5 DEF EnqueueCommitFence, NextJob
  <2>2. \A s \in Timelines : t.signals[s] = 0
    BY DEF NoJob
  <2>. HIDE DEF t
  <2>3. \A i \in JobIds : job'[i] = job[i] \/ (\A s \in Timelines : job'[i].signals[s] = 0)
    BY <2>1, <2>2 DEF TypeInv, TypeOK
  <2>. QED  BY <1>5, <2>1, <2>3
            DEF EnqueueCommitFence, Splice, Enqueues, Dispatched, Building, TypeInv, TypeOK, env
<1>. QED  BY <1>1, <1>2, <1>3, <1>4, <1>5 DEF EnqueueNext

LEMMA CallKind == ASSUME TypeInv, CallNext PROVE Quiet \/ Publishes
<1>. SUFFICES ASSUME NEW q \in Queues,
                     \/ \E sems \in SUBSET Binaries : PresentBegin(q, sems)
                     \/ PresentReserve(q)
                     \/ \E result \in PresentResults : PresentNative(q, result)
                     \/ \E result \in InternalResults, next \in {"present_idle", "enqueued"} :
                           PresentEmulated(q, result, next)
                     \/ PresentIdle(q)
                     \/ PresentIdleFail(q)
                     \/ AfterPresent(q)
                     \/ IdleBegin(q)
                     \/ IdleLock(q)
                     \/ IdleEnd(q)
                     \/ IdleFail(q)
                     \/ CallFail(q)
                     \/ \E b \in Binaries, result \in InternalResults : Acquire(q, b, result)
              PROVE  Quiet \/ Publishes
  BY DEF CallNext
<1>1. CASE PresentIdle(q)
  BY <1>1 DEF PresentIdle, Quiet, Publishes, env
<1>2. CASE IdleEnd(q)
  BY <1>2 DEF IdleEnd, Publishes, env
<1>3. ASSUME NEW sems, PresentBegin(q, sems) PROVE Quiet
  BY <1>3 DEF PresentBegin, Quiet, env
<1>4. ASSUME NEW result, PresentNative(q, result) PROVE Quiet
  BY <1>4 DEF PresentNative, Quiet
<1>5. ASSUME NEW result, NEW next, PresentEmulated(q, result, next) PROVE Quiet
  BY <1>5 DEF PresentEmulated, Quiet
<1>6. ASSUME NEW b, NEW result, Acquire(q, b, result) PROVE Quiet
  BY <1>6 DEF Acquire, Quiet, sched
<1>7. CASE PresentReserve(q)
  BY <1>7 DEF PresentReserve, Quiet, env
<1>8. CASE AfterPresent(q)
  BY <1>8 DEF AfterPresent, Quiet, env
<1>9. CASE PresentIdleFail(q) \/ IdleBegin(q) \/ IdleLock(q) \/ IdleFail(q) \/ CallFail(q)
  BY <1>9 DEF PresentIdleFail, IdleBegin, IdleLock, IdleFail, CallFail, Quiet, env
<1>. QED  BY <1>1, <1>2, <1>3, <1>4, <1>5, <1>6, <1>7, <1>8, <1>9

LEMMA StepKind == ASSUME TypeInv, [Next]_vars PROVE Kinds
<1>1. CASE EnqueueNext
  BY <1>1, EnqueueKind DEF Kinds
<1>2. ASSUME NEW done \in SUBSET Completed, Poll(done) PROVE Publishes
  BY <1>2 DEF Poll, Publishes, env
<1>3. CASE PollFail
  BY <1>3 DEF PollFail, Kinds, Quiet, env
<1>4. ASSUME NEW q, NEW j, DispatchFail(q, j) PROVE Quiet
  BY <1>4 DEF DispatchFail, Quiet, env
<1>5. CASE CallNext
  BY <1>5, CallKind DEF Kinds
<1>6. CASE UNCHANGED vars
  BY <1>6 DEF vars, sched, env, Quiet, Kinds
<1>7. CASE FenceNext
  BY <1>7, FenceFrame DEF Quiet, Kinds, sched
<1>. QED  BY <1>1, <1>2, <1>3, <1>4, <1>5, <1>6, <1>7 DEF Next, SchedulerNext, Kinds

-----------------------------------------------------------------------------
(* Counters.                                                                *)

\* A pass raises a counter to the largest value it finds, or leaves it.
LEMMA PublishCounters ==
    ASSUME TypeOK, NEW done \in SUBSET JobIds, Publish(done), NEW s \in Timelines
    PROVE  /\ timeline'[s].value >= timeline[s].value
           /\ \A j \in done : timeline'[s].value >= job[j].signals[s]
           /\ \/ timeline'[s] = timeline[s]
              \/ \E j \in done : timeline'[s] = [value |-> job[j].signals[s],
                                                 release |-> [job |-> j, sem |-> s]]
<1>1. PICK top \in [Timelines -> done \cup {NoRelease}] :
        /\ Newest(done, s, top[s])
        /\ timeline' = [r \in Timelines |->
              IF top[r] = NoRelease THEN timeline[r]
              ELSE [value |-> job[top[r]].signals[r], release |-> [job |-> top[r], sem |-> r]]]
  BY DEF Publish
<1>2. timeline[s].value \in Nat /\ \A j \in JobIds : job[j].signals[s] \in Nat
  BY DEF TypeOK, Job
<1>3. CASE top[s] = NoRelease
  BY <1>1, <1>2, <1>3 DEF Newest
<1>4. CASE top[s] # NoRelease
  <2>1. top[s] \in done
    BY <1>4
  <2>2. timeline'[s] = [value |-> job[top[s]].signals[s], release |-> [job |-> top[s], sem |-> s]]
    BY <1>1, <1>4
  <2>. QED  BY <1>1, <1>2, <1>4, <2>1, <2>2 DEF Newest
<1>. QED  BY <1>3, <1>4

\* The released job is retired, so its record cannot change; a tail signals nothing.
CounterInv ==
    /\ CounterJustified
    /\ \A s \in Timelines : timeline[s].release # NoRelease =>
          stage[timeline[s].release.job] = "retired"
    /\ \A j \in JobIds : job[j].tail => \A s \in Timelines : job[j].signals[s] = 0

LEMMA CounterInit == Init => CounterInv
BY DEF Init, CounterInv, CounterJustified, NoJob

LEMMA CounterStep == ASSUME TypeInv, CounterInv, [Next]_vars PROVE CounterInv'
<1>0. TypeOK /\ Kinds
  BY StepKind DEF TypeInv
<1>1. CASE Quiet
  BY <1>1 DEF Quiet, CounterInv, CounterJustified
<1>2. CASE Enqueues
  <2>1. \A s \in Timelines : timeline[s].release # NoRelease => timeline[s].release.job \in JobIds
    BY <1>0 DEF TypeOK, Release
  <2>. QED  BY <1>2, <2>1 DEF Enqueues, CounterInv, CounterJustified, Dispatched
<1>3. CASE Publishes
  <2>1. PICK done \in SUBSET Completed : Publish(done)
    BY <1>3 DEF Publishes
  <2>2. done \in SUBSET JobIds /\ done \in SUBSET complete
    BY <1>0 DEF Completed, TypeOK
  <2>3. \A j \in JobIds : stage'[j] = IF j \in done THEN "retired" ELSE stage[j]
    BY <2>1 DEF Publish
  <2>4. ASSUME NEW s \in Timelines
        PROVE  /\ timeline'[s].value >= timeline[s].value
               /\ timeline[s].value \in Nat /\ timeline'[s].value \in Nat /\ hostValue[s] \in Nat
               /\ \A j \in JobIds : job[j].signals[s] \in Nat
               /\ \A j \in done : timeline'[s].value >= job[j].signals[s]
               /\ \/ timeline'[s] = timeline[s]
                  \/ \E j \in done : timeline'[s] = [value |-> job[j].signals[s],
                                                     release |-> [job |-> j, sem |-> s]]
    <3>1. /\ timeline'[s].value >= timeline[s].value
          /\ \A j \in done : timeline'[s].value >= job[j].signals[s]
          /\ \/ timeline'[s] = timeline[s]
             \/ \E j \in done : timeline'[s] = [value |-> job[j].signals[s],
                                                release |-> [job |-> j, sem |-> s]]
      BY <1>0, <2>1, <2>2, PublishCounters
    <3>2. timeline[s].value \in Nat /\ hostValue[s] \in Nat /\ \A j \in JobIds : job[j].signals[s] \in Nat
      BY <1>0 DEF TypeOK, Job
    <3>3. timeline'[s].value \in Nat
      <4>1. timeline' \in [Timelines -> [value : Nat, release : Release \cup {NoRelease}]]
        BY <1>0, <2>1, <2>2, PublishType
      <4>. QED  BY <4>1
    <3>. QED  BY <3>1, <3>2, <3>3
  <2>5. job' = job /\ hostValue' = hostValue /\ complete' = complete
    BY <1>3 DEF Publishes
  <2>6. ASSUME NEW s \in Timelines
        PROVE  /\ timeline'[s].value >= hostValue[s]
               /\ \A j \in JobIds : stage'[j] = "retired" => timeline'[s].value >= job[j].signals[s]
    BY <2>3, <2>4 DEF CounterInv, CounterJustified
  <2>7. ASSUME NEW s \in Timelines
        PROVE  /\ IF timeline'[s].release = NoRelease THEN timeline'[s].value = hostValue[s]
                  ELSE LET j == timeline'[s].release.job
                       IN  j \in complete /\ timeline'[s].value = job[j].signals[s]
               /\ timeline'[s].release # NoRelease => stage'[timeline'[s].release.job] = "retired"
    <3>1. CASE timeline'[s] = timeline[s]
      <4>1. timeline[s].release # NoRelease => timeline[s].release.job \in JobIds
        BY <1>0 DEF TypeOK, Release
      <4>. QED  BY <3>1, <4>1, <2>3 DEF CounterInv, CounterJustified
    <3>2. ASSUME NEW j \in done, timeline'[s] = [value |-> job[j].signals[s],
                                                 release |-> [job |-> j, sem |-> s]]
          PROVE  <2>7!2
      <4>1. [job |-> j, sem |-> s] \in Release
        BY <2>2 DEF Release
      <4>2. timeline'[s].release # NoRelease /\ timeline'[s].release.job = j
        BY <3>2, <4>1, NullsAssumption
      <4>. QED  BY <3>2, <4>2, <2>2, <2>3
    <3>. QED  BY <2>4, <3>1, <3>2
  <2>. QED  BY <2>5, <2>6, <2>7 DEF CounterInv, CounterJustified
<1>4. ASSUME NEW s \in Timelines, NEW value \in HostValues, HostSignal(s, value)
      PROVE  CounterInv'
  <2>1. timeline' = [timeline EXCEPT ![s] = [value |-> value, release |-> NoRelease]]
        /\ hostValue' = [hostValue EXCEPT ![s] = value] /\ value > timeline[s].value
        /\ stage' = stage /\ job' = job /\ complete' = complete
    BY <1>4 DEF HostSignal
  <2>2. value \in Nat /\ timeline[s].value \in Nat /\ \A j \in JobIds : job[j].signals[s] \in Nat
    BY <1>0, BoundsAssumption DEF TypeOK, Job
  <2>3. \A j \in JobIds : stage[j] = "retired" => value >= job[j].signals[s]
    BY <2>1, <2>2 DEF CounterInv, CounterJustified
  <2>. QED  BY <1>0, <2>1, <2>2, <2>3 DEF CounterInv, CounterJustified, TypeOK
<1>5. ASSUME NEW q \in Queues, NEW j \in JobIds, Dispatch(q, j) PROVE CounterInv'
  <2>1. /\ \A i \in JobIds : stage'[i] = IF i = j THEN IF job[j].tail THEN "retired" ELSE "pending"
                                         ELSE stage[i]
        /\ \A i \in JobIds : job'[i].signals = job[i].signals /\ job'[i].tail = job[i].tail
        /\ timeline' = timeline /\ hostValue' = hostValue /\ complete' = complete
        /\ stage[j] = "staged"
    BY <1>0, <1>5 DEF Dispatch, MayDispatch, IsFront, Staged, TypeOK, Job
  <2>2. \A s \in Timelines : timeline[s].release # NoRelease => timeline[s].release.job \in JobIds
    BY <1>0 DEF TypeOK, Release
  <2>3. \A s \in Timelines : timeline[s].value \in Nat
    BY <1>0 DEF TypeOK
  <2>. QED  BY <2>1, <2>2, <2>3 DEF CounterInv, CounterJustified
<1>6. ASSUME NEW q \in Queues, Complete(q) PROVE CounterInv'
  BY <1>6 DEF Complete, sched, CounterInv, CounterJustified
<1>. QED  BY <1>0, <1>1, <1>2, <1>3, <1>4, <1>5, <1>6 DEF Kinds

\* A counter shows the last host signal or a finished release, and is never
\* behind what a pass has retired, for every instance.
THEOREM CountersCorrect == Spec => []CounterJustified
<1>1. Init => TypeInv /\ CounterInv
  BY InitType, CounterInit
<1>2. (TypeInv /\ CounterInv) /\ [Next]_vars => (TypeInv /\ CounterInv)'
  BY TypeStep, CounterStep
<1>3. TypeInv /\ CounterInv => CounterJustified
  BY DEF CounterInv
<1>. QED  BY <1>1, <1>2, <1>3, PTL DEF Spec

\* No step of any actor lowers a counter that the application can read.
THEOREM CountersMonotonic == Spec => CountersGrow
<1>1. Init => TypeInv
  BY InitType
<1>2. TypeInv /\ [Next]_vars => TypeInv'
  BY TypeStep
<1>3. ASSUME TypeInv, [Next]_vars, NEW s \in Timelines
      PROVE  timeline'[s].value >= timeline[s].value
  <2>1. TypeOK /\ Kinds
    BY <1>3, StepKind DEF TypeInv
  <2>2. timeline[s].value \in Nat
    BY <2>1 DEF TypeOK
  <2>3. CASE Quiet \/ Enqueues
    BY <2>2, <2>3 DEF Quiet, Enqueues
  <2>4. CASE Publishes
    <3>1. PICK done \in SUBSET Completed : Publish(done)
      BY <2>4 DEF Publishes
    <3>2. done \in SUBSET JobIds
      BY <2>1 DEF Completed, TypeOK
    <3>. QED  BY <2>1, <3>1, <3>2, PublishCounters
  <2>5. ASSUME NEW r \in Timelines, NEW value \in HostValues, HostSignal(r, value)
        PROVE  timeline'[s].value >= timeline[s].value
    <3>1. timeline' = [timeline EXCEPT ![r] = [value |-> value, release |-> NoRelease]]
          /\ value > timeline[r].value /\ value \in Nat
      BY <2>5, BoundsAssumption DEF HostSignal
    <3>. QED  BY <2>1, <2>2, <3>1 DEF TypeOK
  <2>6. CASE (\E q \in Queues, j \in JobIds : Dispatch(q, j)) \/ \E q \in Queues : Complete(q)
    BY <2>2, <2>6 DEF Dispatch, Complete, sched
  <2>. QED  BY <2>1, <2>3, <2>4, <2>5, <2>6 DEF Kinds
<1>4. TypeInv /\ [Next]_vars => [\A s \in Timelines : timeline'[s].value >= timeline[s].value]_vars
  BY <1>3
<1>. QED  BY <1>1, <1>2, <1>4, PTL DEF Spec, CountersGrow

-----------------------------------------------------------------------------
(* Tokens.                                                                  *)

\* A flag is set exactly when the wait for its token is with the driver, and
\* what a counter shows as its release has finished.
TokenInv ==
    /\ TokensWaitedOnce
    /\ \A w \in waited : w.token \in acquired
    /\ \A t \in acquired : \E w \in waited : w.token = t

LEMMA TokenInit == Init => TokenInv
BY DEF Init, TokenInv, TokensWaitedOnce

LEMMA CurrentTokensComplete ==
    ASSUME TypeInv, CounterInv, NEW j \in JobIds, NEW t \in CurrentTokens(j)
    PROVE  t.release.job \in complete
<1>1. ~job[j].sparse
  BY DEF CurrentTokens
<1>2. PICK w \in job[j].waits : /\ timeline[w.sem].release # NoRelease
                                /\ t = [release |-> timeline[w.sem].release, slot |-> SlotOf(j, w)]
  BY <1>1 DEF CurrentTokens
<1>3. w \in Wait
  BY DEF TypeInv, TypeOK, Job
<1>4. w.sem \in Timelines
  BY <1>3 DEF Wait
<1>. QED  BY <1>2, <1>4 DEF CounterInv, CounterJustified

\* The step that hands a batch to the driver takes each token it waits for out
\* of reach of every later batch, and covers the releases it finds current.
LEMMA DispatchTokens ==
    ASSUME TypeInv, CounterInv, TokenInv, NEW q \in Queues, NEW j \in JobIds, Dispatch(q, j)
    PROVE  /\ TokenInv'
           /\ \A t \in CurrentTokens(j) : \E w \in waited' : w.token = t
<1>1. /\ acquired' = acquired \cup CurrentTokens(j)
      /\ waited' = waited \cup {[token |-> t, by |-> j] : t \in CurrentTokens(j) \ acquired}
      /\ complete' = complete
  BY DEF Dispatch, Flagged, NewTokens
<1>2. \A t \in CurrentTokens(j) : \E w \in waited' : w.token = t
  <2>. SUFFICES ASSUME NEW t \in CurrentTokens(j) PROVE \E w \in waited' : w.token = t
    OBVIOUS
  <2>1. CASE t \in acquired
    BY <1>1, <2>1 DEF TokenInv
  <2>2. CASE t \notin acquired
    <3>1. [token |-> t, by |-> j] \in waited'
      BY <1>1, <2>2
    <3>. QED  BY <3>1
  <2>. QED  BY <2>1, <2>2
<1>3. \A w \in waited' : w.token \in acquired'
  BY <1>1 DEF TokenInv
<1>4. \A t \in acquired' : \E w \in waited' : w.token = t
  <2>1. waited \subseteq waited' /\ \A t \in acquired : \E w \in waited : w.token = t
    BY <1>1 DEF TokenInv
  <2>. QED  BY <1>1, <1>2, <2>1
<1>5. \A w \in waited' : w.token.release.job \in complete'
  BY <1>1, CurrentTokensComplete DEF TokenInv, TokensWaitedOnce
<1>6. ASSUME NEW w \in waited', NEW x \in waited', x.token = w.token PROVE x.by = w.by
  <2>1. \A y \in waited' : y \in waited \/ (y.token \notin acquired /\ y.by = j)
    BY <1>1
  <2>2. \A y \in waited : y.token \in acquired
    BY DEF TokenInv
  <2>3. CASE w \in waited /\ x \in waited
    BY <1>6, <2>3 DEF TokenInv, TokensWaitedOnce
  <2>4. CASE w \notin waited /\ x \notin waited
    BY <2>1, <2>4
  <2>. QED  BY <1>6, <2>1, <2>2, <2>3, <2>4
<1>. QED  BY <1>2, <1>3, <1>4, <1>5, <1>6 DEF TokenInv, TokensWaitedOnce

LEMMA TokenStep == ASSUME TypeInv, CounterInv, TokenInv, [Next]_vars PROVE TokenInv'
<1>1. Kinds
  BY StepKind
<1>2. CASE Quiet \/ Enqueues \/ Publishes
  BY <1>2 DEF Quiet, Enqueues, Publishes, TokenInv, TokensWaitedOnce
<1>3. CASE \E s \in Timelines, value \in HostValues : HostSignal(s, value)
  BY <1>3 DEF HostSignal, TokenInv, TokensWaitedOnce
<1>4. CASE \E q \in Queues, j \in JobIds : Dispatch(q, j)
  BY <1>4, DispatchTokens
<1>5. CASE \E q \in Queues : Complete(q)
  BY <1>5 DEF Complete, sched, TokenInv, TokensWaitedOnce
<1>. QED  BY <1>1, <1>2, <1>3, <1>4, <1>5 DEF Kinds

TokensInv == TypeInv /\ CounterInv /\ TokenInv

LEMMA TokensInvariant == Spec => []TokensInv
<1>1. Init => TokensInv
  BY InitType, CounterInit, TokenInit DEF TokensInv
<1>2. TokensInv /\ [Next]_vars => TokensInv'
  BY TypeStep, CounterStep, TokenStep DEF TokensInv
<1>. QED  BY <1>1, <1>2, PTL DEF Spec

\* No batch of any queue waits for a token that another batch waited for, nor
\* for one whose signal is not done.
THEOREM TokensConsumedOnce == Spec => []TokensWaitedOnce
<1>1. TokensInv => TokensWaitedOnce
  BY DEF TokensInv, TokenInv
<1>. QED  BY <1>1, TokensInvariant, PTL

\* The first acquire of a release in a queue covers the later batches: none but
\* a sparse bind reaches the driver with a current release not waited for.
THEOREM AcquiresCover == Spec => FirstAcquireCovers
<1>. DEFINE Step == \A j \in JobIds :
              (~Dispatched(j) /\ stage'[j] \in {"pending", "retired"} /\ ~job[j].sparse) =>
                 \A t \in CurrentTokens(j) : \E w \in waited' : w.token = t
<1>1. ASSUME TokensInv, [Next]_vars, NEW j \in JobIds,
             ~Dispatched(j), stage'[j] \in {"pending", "retired"}
      PROVE  \A t \in CurrentTokens(j) : \E w \in waited' : w.token = t
  <2>1. TypeOK /\ Kinds
    BY <1>1, StepKind DEF TokensInv, TypeInv
  <2>2. ~Quiet /\ ~Enqueues
    BY <1>1 DEF Quiet, Enqueues, Dispatched
  <2>3. ~Publishes
    BY <1>1 DEF Publishes, Publish, Completed, Dispatched
  <2>4. ~(\E s \in Timelines, value \in HostValues : HostSignal(s, value))
    BY <1>1 DEF HostSignal, Dispatched
  <2>5. ~(\E q \in Queues : Complete(q))
    BY <1>1 DEF Complete, sched, Dispatched
  <2>6. PICK q \in Queues, k \in JobIds : Dispatch(q, k)
    BY <2>1, <2>2, <2>3, <2>4, <2>5 DEF Kinds
  <2>7. k = j
    BY <1>1, <2>1, <2>6 DEF Dispatch, Dispatched, TypeOK
  <2>. QED  BY <1>1, <2>6, <2>7, DispatchTokens DEF TokensInv
<1>2. TokensInv /\ [Next]_vars => [Step]_vars
  BY <1>1
<1>. QED  BY <1>2, TokensInvariant, PTL DEF Spec, FirstAcquireCovers

=============================================================================
