------------------------- MODULE TimelineScheduler -------------------------
(***************************************************************************)
(* The timeline-semaphore scheduler of one VkDevice                        *)
(* (src/layer/src/main/cpp/core/timeline_scheduler.cpp).                   *)
(*                                                                         *)
(* The driver has binary semaphores only.  vkQueueSubmit and               *)
(* vkQueueBindSparse stage their batches; a worker thread hands a batch to *)
(* the driver once every timeline value it waits for is published and      *)
(* every binary semaphore is in the order the application asked for.  Each *)
(* timeline signal of a batch is a "release": one binary token for each    *)
(* queue and physical device, signalled by the native batch, waited for by *)
(* the first later batch of that queue and device.                         *)
(*                                                                         *)
(* Every step that the code takes under Device::mutex is one action, apart *)
(* from enqueue, which is one action for each batch so that a failure can  *)
(* come after any of them (the mutex stays taken: txn # NoTxn).  The       *)
(* driver, the GPU and the application are modelled by how the code uses   *)
(* them: Valid... operators are rules the Vulkan application keeps.        *)
(***************************************************************************)
EXTENDS Naturals, Sequences

CONSTANTS
    Queues,      \* the device's distinct VkQueue handles
    Timelines,   \* emulated timeline semaphores (Device::semaphores)
    Binaries,    \* tracked binary semaphores (Device::binaries)
    Devices,     \* device indices 0 .. physical_count - 1 of the group
    Batches,     \* the batches the application may submit
    HostValues,  \* the values vkSignalSemaphore may be called with
    MaxJobs,     \* bound: jobs created over a behaviour
    MaxEpoch,    \* bound: uses of one binary semaphore
    PresentResults,  \* what the native present may return
    InternalResults, \* what a submit_internal of the emulated swapchain may return
    Calls,       \* the calls made besides submissions
    NoQueue, NoRelease, NoTxn, Untouched  \* no job yet, null shared_ptr, no
                                          \* transaction, not in the map

JobIds == 1 .. MaxJobs

Wait == [sem : Timelines, value : Nat, dev : Devices]

\* What one VkSubmitInfo or VkBindSparseInfo asks for.  A timeline signal has a
\* value above the counter, so 0 says that the batch does not signal it.
Batch == [waits : SUBSET Wait, signals : [Timelines -> Nat],
          bwaits : SUBSET Binaries, bsignals : SUBSET Binaries, sparse : BOOLEAN]

\* A job makes at most one release of a timeline, so the pair names it.
Release == [job : JobIds, sem : Timelines]
Slot == [queue : Queues, dev : Devices]
Token == [release : Release, slot : Slot]

\* Epochs count from 1: epoch 0 of bwaits or bsignals says "not used by the job".
Epochs == [Binaries -> Nat]
Job == [queue : Queues \cup {NoQueue}, waits : SUBSET Wait, signals : [Timelines -> Nat],
        bwaits : Epochs, bsignals : Epochs,
        sparse : BOOLEAN, tail : BOOLEAN, acquires : SUBSET Release]

BinaryOrder == [signals : Nat, waits : Nat,
                submitted_signals : Nat, submitted_waits : Nat]

\* The batches of one enqueue are of one kind: its Info type.
Transaction == [queue : Queues, sparse : BOOLEAN,
                before : [Binaries -> BinaryOrder \cup {Untouched}]]

ASSUME BoundsAssumption == MaxJobs \in Nat /\ MaxEpoch \in Nat /\ HostValues \subseteq Nat
ASSUME BatchesAssumption == Batches \subseteq Batch
ASSUME ResultsAssumption == /\ PresentResults \subseteq {"enqueued", "oom", "error"}
                            /\ InternalResults \subseteq {"submitted", "refused"}
ASSUME CallsAssumption == Calls \subseteq {"present", "idle", "acquire", "fence"}
ASSUME NullsAssumption ==
    NoQueue \notin Queues /\ NoRelease \notin Release \cup JobIds /\ Untouched \notin BinaryOrder /\
    NoTxn \notin Transaction

VARIABLES
    stage,     \* where a job is: not created, in the open transaction, in
               \* Queue::staged, in Queue::pending, or in neither list
    job,       \* the Job objects
    timeline,  \* Semaphore{value, release}
    acquired,  \* Release::acquired: the tokens whose flag is set
    order,     \* BinaryOrder of each tracked binary semaphore
    txn,       \* the transaction and reservation of an enqueue in progress
    call,      \* the application call in progress on each queue
    failed,    \* Device::failure and, negated, Native::release_resources
    native,    \* external: batches the driver runs, oldest first
    complete,  \* external: jobs whose native batch has finished
    nat,       \* external: binary signals and waits submitted to the driver
    fenceWait, \* a thread in vkWaitForFences: its fence, and whether it holds
               \* Device::fence_io
    waited,    \* history: the token waits submitted to the driver
    hostValue  \* history: the last value set by vkSignalSemaphore

sched == <<stage, job, timeline, acquired, order, txn, call, failed>>
env == <<native, complete, nat, fenceWait, waited, hostValue>>
vars == <<sched, env>>

Larger(a, b) == IF a >= b THEN a ELSE b

-----------------------------------------------------------------------------
(* Reading the lists.  Ids grow in the order of enqueue, which holds the   *)
(* mutex, so the id order is the order of both lists of a queue.           *)

Staged(q) == {j \in JobIds : stage[j] = "staged" /\ job[j].queue = q}
\* Mutant: an application fence is submitted without waiting for its turn.
IsFrontOrFence(q, j) == j \in Staged(q) /\ \A i \in Staged(q) : j <= i \/ job[j].tail
IsFront(q, j) == j \in Staged(q) /\ \A i \in Staged(q) : j <= i
Building == {j \in JobIds : stage[j] = "building"}
NextJob(j) == stage[j] = "unused" /\ \A i \in JobIds : i < j => stage[i] # "unused"

\* Device::mutex is free: no enqueue is between two of its batches.
MutexFree == txn = NoTxn

\* Queue::io is taken by a call on the queue (native_queue_call, queue_idle).
IoHeld(q) == call[q].pc \in {"presenting", "present_idle", "idling"}

NoEpochs == [b \in Binaries |-> 0]
NoJob == [queue |-> NoQueue, waits |-> {},
          signals |-> [s \in Timelines |-> 0], bwaits |-> NoEpochs, bsignals |-> NoEpochs,
          sparse |-> FALSE, tail |-> FALSE, acquires |-> {}]
NoCall == [pc |-> "none", waits |-> NoEpochs]
NoFenceWait == [of |-> 0, io |-> FALSE]

Init ==
    /\ stage = [j \in JobIds |-> "unused"]
    /\ job = [j \in JobIds |-> NoJob]
    /\ timeline = [s \in Timelines |-> [value |-> 0, release |-> NoRelease]]
    /\ acquired = {}
    /\ order = [b \in Binaries |-> [signals |-> 0, waits |-> 0,
                                    submitted_signals |-> 0, submitted_waits |-> 0]]
    /\ txn = NoTxn
    /\ call = [q \in Queues |-> NoCall]
    /\ failed = FALSE
    /\ native = [q \in Queues |-> <<>>]
    /\ complete = {}
    /\ nat = [b \in Binaries |-> [signals |-> 0, waits |-> 0]]
    /\ fenceWait = NoFenceWait
    /\ waited = {}
    /\ hostValue = [s \in Timelines |-> 0]

-----------------------------------------------------------------------------
(* What the application may ask for.                                       *)

\* A binary signalled by vkAcquireNextImageKHR and not waited for since: the
\* driver knows of a signal that the scheduler has not counted.
External(b) == nat[b].signals > order[b].submitted_signals

InPresent(b) == \E q \in Queues : call[q].waits[b] # 0

\* Timeline signals of one semaphore grow; a binary wait has its signal, a
\* binary signal finds every earlier one waited for.
ValidBatch(batch) ==
    /\ \A s \in Timelines : batch.signals[s] # 0 =>
          /\ timeline[s].value < batch.signals[s]
          /\ \A j \in JobIds : job[j].signals[s] < batch.signals[s]
    /\ \A b \in batch.bwaits :
          (order[b].signals > order[b].waits \/ External(b)) /\ ~InPresent(b)
    /\ \A b \in batch.bsignals :
          \/ b \in batch.bwaits
          \/ order[b].signals = order[b].waits /\ ~External(b)

-----------------------------------------------------------------------------
(* enqueue: vkQueueSubmit, vkQueueBindSparse.                               *)

\* A wait takes the next epoch; one with no wrapped producer stands for a
\* signal issued outside the scheduler (acquire).
OrderedWait(o) ==
    LET epoch == o.waits + 1
    IN  [o EXCEPT !.waits = epoch,
                  !.signals = Larger(@, epoch),
                  !.submitted_signals = IF o.signals < epoch THEN Larger(@, epoch) ELSE @]

OrderedSignal(o) == [o EXCEPT !.signals = @ + 1]

Reserve(batch, b) ==
    LET o == IF b \in batch.bwaits THEN OrderedWait(order[b]) ELSE order[b]
    IN  IF b \in batch.bsignals THEN OrderedSignal(o) ELSE o

\* Mutant: only the waits are restored when the call fails.
TouchWaits(before, batch) ==
    [b \in Binaries |-> IF b \in batch.bwaits /\ before[b] = Untouched
                        THEN order[b] ELSE before[b]]
\* Reservation::touch: emplace keeps the order the call found.
Touch(before, batch) ==
    [b \in Binaries |-> IF b \in batch.bwaits \cup batch.bsignals /\ before[b] = Untouched
                        THEN order[b] ELSE before[b]]

JobOf(q, batch) ==
    [queue |-> q, waits |-> batch.waits, signals |-> batch.signals,
     bwaits |-> [b \in Binaries |-> IF b \in batch.bwaits THEN order[b].waits + 1 ELSE 0],
     bsignals |-> [b \in Binaries |-> IF b \in batch.bsignals
                                      THEN Reserve(batch, b).signals ELSE 0],
     sparse |-> batch.sparse, tail |-> FALSE, acquires |-> {}]

\* The call takes the mutex and finds the device healthy.
EnqueueBegin(q, sparse) ==
    /\ MutexFree
    /\ ~failed
    /\ call[q].pc = "none"
    /\ txn' = [queue |-> q, sparse |-> sparse, before |-> [b \in Binaries |-> Untouched]]
    /\ UNCHANGED <<stage, job, timeline, acquired, order, call, failed, env>>

EnqueueBatch(j, batch) ==
    /\ txn # NoTxn
    /\ NextJob(j)
    /\ batch.sparse = txn.sparse
    /\ ValidBatch(batch)
    /\ \A b \in batch.bwaits \cup batch.bsignals : order[b].signals < MaxEpoch
    /\ stage' = [stage EXCEPT ![j] = "building"]
    /\ job' = [job EXCEPT ![j] = JobOf(txn.queue, batch)]
    /\ order' = [b \in Binaries |-> Reserve(batch, b)]
    /\ txn' = [txn EXCEPT !.before = Touch(@, batch)]
    /\ UNCHANGED <<timeline, acquired, call, failed, env>>

\* A copy, token, fence or allocation fails: ~Reservation and ~Job undo all.
EnqueueFail ==
    /\ txn # NoTxn
    /\ order' = [b \in Binaries |-> IF txn.before[b] = Untouched
                                    THEN order[b] ELSE txn.before[b]]
    /\ stage' = [j \in JobIds |-> IF j \in Building THEN "unused" ELSE stage[j]]
    /\ job' = [j \in JobIds |-> IF j \in Building THEN NoJob ELSE job[j]]
    /\ txn' = NoTxn
    /\ UNCHANGED <<timeline, acquired, call, failed, env>>

Splice == [j \in JobIds |-> IF j \in Building THEN "staged" ELSE stage[j]]

EnqueueCommit ==
    /\ txn # NoTxn
    /\ stage' = Splice
    /\ txn' = NoTxn
    /\ UNCHANGED <<job, timeline, acquired, order, call, failed, env>>

\* The application's fence is submitted by a job of its own behind the batches.
EnqueueCommitFence(j) ==
    /\ txn # NoTxn
    /\ NextJob(j)
    /\ stage' = [Splice EXCEPT ![j] = "staged"]
    /\ job' = [job EXCEPT ![j] = [NoJob EXCEPT !.queue = txn.queue, !.tail = TRUE,
                                               !.sparse = txn.sparse]]
    /\ txn' = NoTxn
    /\ UNCHANGED <<timeline, acquired, order, call, failed, env>>

-----------------------------------------------------------------------------
(* poll: the counters follow the completion fences.                        *)

\* Mutant: the fence is not read.
AnyPending == {j \in JobIds : stage[j] = "pending"}
Completed == {j \in complete : stage[j] = "pending"}

\* After a pass over done, s has the release of j, the largest value found, or
\* keeps the one it has (j = NoRelease).
\* Mutant: the value is stored without comparing it.
NewestAnyValue(done, s, j) ==
    IF j = NoRelease THEN \A i \in done : job[i].signals[s] = 0
    ELSE \A i \in done : job[i].signals[s] <= job[j].signals[s]
Newest(done, s, j) ==
    IF j = NoRelease THEN \A i \in done : job[i].signals[s] <= timeline[s].value
    ELSE /\ job[j].signals[s] > timeline[s].value
         /\ \A i \in done : job[i].signals[s] <= job[j].signals[s]

Publish(done) ==
    /\ \E top \in [Timelines -> done \cup {NoRelease}] :
          /\ \A s \in Timelines : Newest(done, s, top[s])
          /\ timeline' = [s \in Timelines |->
                IF top[s] = NoRelease THEN timeline[s]
                ELSE [value |-> job[top[s]].signals[s],
                      release |-> [job |-> top[s], sem |-> s]]]
    /\ stage' = [j \in JobIds |-> IF j \in done THEN "retired" ELSE stage[j]]

\* A pass reads the fences one at a time while the GPU runs: it can miss a job
\* that finished during the pass and see a later one.  The worker, counter and
\* wait make such passes, the last two also after a device loss.
Poll(done) ==
    /\ MutexFree
    /\ done # {} /\ done \subseteq Completed
    /\ Publish(done)
    /\ UNCHANGED <<job, acquired, order, txn, call, failed, env>>

\* vkGetFenceStatus of a completion fence reports an error.
PollFail ==
    /\ MutexFree
    /\ \E j \in JobIds : stage[j] = "pending"
    /\ failed' = TRUE
    /\ UNCHANGED <<stage, job, timeline, acquired, order, txn, call, env>>

\* vkSignalSemaphore.  Valid: below every signal submitted and unfinished.
HostSignal(s, value) ==
    /\ MutexFree
    /\ \A j \in JobIds \ complete : job[j].signals[s] # 0 => value < job[j].signals[s]
    /\ ~failed /\ value > timeline[s].value
    /\ timeline' = [timeline EXCEPT ![s] = [value |-> value, release |-> NoRelease]]
    /\ hostValue' = [hostValue EXCEPT ![s] = value]
    /\ UNCHANGED <<stage, job, acquired, order, txn, call, failed,
                   native, complete, nat, fenceWait, waited>>

-----------------------------------------------------------------------------
(* ready and dispatch: the worker hands the front of a queue to the driver. *)

TimelineReady(j) == \A w \in job[j].waits : timeline[w.sem].value >= w.value

\* Mutant: a signal does not wait for the wait before it.
BinaryWaitsReady(j) ==
    \A b \in Binaries : order[b].submitted_signals >= job[j].bwaits[b]
BinaryReady(j) ==
    \A b \in Binaries :
       LET wait == job[j].bwaits[b]
           signal == job[j].bsignals[b]
       IN  /\ order[b].submitted_signals >= wait
           /\ \/ signal = 0
              \/ order[b].submitted_waits >= signal - 1
              \/ wait # 0 /\ wait >= signal - 1

Ready(j) == TimelineReady(j) /\ BinaryReady(j)

\* Mutant: queue and device index swapped in the slot.
SlotSwapped(j, w) == [queue |-> w.dev, dev |-> job[j].queue]
SlotOf(j, w) == [queue |-> job[j].queue, dev |-> w.dev]

\* The tokens of the releases that a wait of j finds current.  A sparse bind
\* looks for none: its waits have execution scope only.
CurrentTokens(j) ==
    IF job[j].sparse THEN {}
    ELSE {[release |-> timeline[w.sem].release, slot |-> SlotOf(j, w)] :
            w \in {x \in job[j].waits : timeline[x.sem].release # NoRelease}}

\* The tokens that dispatch adds to the native waits of j.
\* Mutant: the flag is not looked at.
EveryToken(j) == CurrentTokens(j)
NewTokens(j) == CurrentTokens(j) \ acquired

\* The releases that Job::acquires keeps alive.
\* Mutant: none.
NoAcquires(j) == {}
Acquires(j) == {t.release : t \in NewTokens(j)}

\* The flags that a dispatch sets: those of the current releases.
\* Mutant: a sparse bind sets them too.
FlaggedBySparse(j) ==
    {[release |-> timeline[w.sem].release, slot |-> SlotOf(j, w)] :
        w \in {x \in job[j].waits : timeline[x.sem].release # NoRelease}}
Flagged(j) == CurrentTokens(j)

Submitted(j) ==
    [b \in Binaries |->
       [order[b] EXCEPT !.submitted_waits = Larger(@, job[j].bwaits[b]),
                        !.submitted_signals = Larger(@, job[j].bsignals[b])]]

\* External: the driver counts the binary operations it is given.
Counted(waits, signals) ==
    [b \in Binaries |-> [signals |-> IF signals[b] # 0 THEN nat[b].signals + 1
                                     ELSE nat[b].signals,
                         waits |-> IF waits[b] # 0 THEN nat[b].waits + 1 ELSE nat[b].waits]]

\* The worker runs on a healthy device with the mutex and, by try_lock, io and,
\* for an application fence, fence_io.
MayDispatch(q, j) ==
    /\ MutexFree
    /\ ~failed
    /\ IsFront(q, j)
    /\ Ready(j)
    /\ ~IoHeld(q)
    /\ job[j].tail => ~fenceWait.io

Dispatch(q, j) ==
    /\ MayDispatch(q, j)
    /\ job' = [job EXCEPT ![j].acquires = @ \cup Acquires(j)]
    /\ acquired' = acquired \cup Flagged(j)
    /\ order' = Submitted(j)
    /\ stage' = [stage EXCEPT ![j] = IF job[j].tail THEN "retired" ELSE "pending"]
    /\ waited' = waited \cup {[token |-> t, by |-> j] : t \in NewTokens(j)}
    /\ native' = [native EXCEPT ![q] = Append(@, j)]
    /\ nat' = Counted(job[j].bwaits, job[j].bsignals)
    /\ UNCHANGED <<timeline, txn, call, failed, complete, fenceWait, hostValue>>

\* The native submission fails, or the worker meets an exception.
DispatchFail(q, j) ==
    /\ MayDispatch(q, j)
    /\ failed' = TRUE
    /\ UNCHANGED <<stage, job, timeline, acquired, order, txn, call, env>>

-----------------------------------------------------------------------------
(* Calls that hold a queue: vkQueuePresentKHR and vkQueueWaitIdle.          *)

Goto(q, pc) == call' = [call EXCEPT ![q].pc = pc]
Return(q) == call' = [call EXCEPT ![q] = NoCall]
QueueFree(q) == call[q].pc = "none" /\ (txn # NoTxn => txn.queue # q)

\* before_present up to its cv.wait.
PresentBegin(q, sems) ==
    /\ "present" \in Calls
    /\ MutexFree
    /\ QueueFree(q)
    /\ \A b \in sems : /\ order[b].signals > order[b].waits \/ External(b)
                       /\ ~InPresent(b)
                       /\ order[b].waits < MaxEpoch
    /\ call' = [call EXCEPT ![q] =
                  [pc |-> "present_drain",
                   waits |-> [b \in Binaries |-> IF b \in sems THEN order[b].waits + 1
                                                 ELSE 0]]]
    /\ UNCHANGED <<stage, job, timeline, acquired, order, txn, failed, env>>

\* Mutant: off by one.
UnproducedNext(b, epoch) == order[b].signals >= epoch /\ order[b].submitted_signals <= epoch
\* A wrapped signal that the present waits for is still in a staged list.
Unproduced(b, epoch) == order[b].signals >= epoch /\ order[b].submitted_signals < epoch

PresentOrder(b, epoch) ==
    IF epoch = 0 THEN order[b]
    ELSE [order[b] EXCEPT !.waits = epoch,
                          !.signals = Larger(@, epoch),
                          !.submitted_signals = IF order[b].signals < epoch THEN epoch ELSE @]

\* Mutant: the present does not wait for the staged batches of its queue.
PresentReserveEarly(q) ==
    /\ MutexFree
    /\ ~failed
    /\ call[q].pc = "present_drain"
    /\ \A b \in Binaries : call[q].waits[b] # 0 => ~Unproduced(b, call[q].waits[b])
    /\ order' = [b \in Binaries |-> PresentOrder(b, call[q].waits[b])]
    /\ Goto(q, "presenting")
    /\ UNCHANGED <<stage, job, timeline, acquired, txn, failed, env>>

\* before_present after its cv.wait, and native_queue_call takes io.
PresentReserve(q) ==
    /\ MutexFree
    /\ ~failed
    /\ call[q].pc = "present_drain"
    /\ Staged(q) = {}
    /\ \A b \in Binaries : call[q].waits[b] # 0 => ~Unproduced(b, call[q].waits[b])
    /\ order' = [b \in Binaries |-> PresentOrder(b, call[q].waits[b])]
    /\ Goto(q, "presenting")
    /\ UNCHANGED <<stage, job, timeline, acquired, txn, failed, env>>

\* The swapchain of the driver: one native call.  Only a present that is out of
\* memory leaves its semaphores alone.
PresentNative(q, result) ==
    /\ call[q].pc = "presenting"
    /\ nat' = IF result = "oom" THEN nat ELSE Counted(call[q].waits, NoEpochs)
    /\ Goto(q, result)
    /\ UNCHANGED <<stage, job, timeline, acquired, order, txn, failed,
                   native, complete, fenceWait, waited, hostValue>>

\* The emulated swapchain: submit_internal of the waits, its result ignored,
\* then, when a window is attached, vkQueueWaitIdle with io still taken.
PresentEmulated(q, result, next) ==
    /\ call[q].pc = "presenting"
    /\ nat' = IF result = "refused" THEN nat ELSE Counted(call[q].waits, NoEpochs)
    /\ Goto(q, next)
    /\ UNCHANGED <<stage, job, timeline, acquired, order, txn, failed,
                   native, complete, fenceWait, waited, hostValue>>

\* The nested queue_idle: drain, the native wait, and the pass that publishes.
PresentIdle(q) ==
    /\ MutexFree
    /\ call[q].pc = "present_idle"
    /\ failed \/ (Staged(q) = {} /\ native[q] = <<>>)
    /\ IF failed THEN UNCHANGED <<timeline, stage>> ELSE Publish(Completed)
    /\ Goto(q, "enqueued")
    /\ UNCHANGED <<job, acquired, order, txn, failed, env>>

\* Its native wait reports an error, which the swapchain ignores.
PresentIdleFail(q) ==
    /\ MutexFree
    /\ call[q].pc = "present_idle"
    /\ Staged(q) = {}
    /\ failed' = TRUE
    /\ Goto(q, "enqueued")
    /\ UNCHANGED <<stage, job, timeline, acquired, order, txn, env>>

AfterOrder(b, epoch, result) ==
    CASE epoch = 0 -> order[b]
      [] epoch # 0 /\ result = "oom" -> [order[b] EXCEPT !.waits = @ - 1]
      [] epoch # 0 /\ result # "oom" ->
           [order[b] EXCEPT !.submitted_waits = Larger(@, order[b].waits)]

AfterPresent(q) ==
    /\ MutexFree
    /\ call[q].pc \in {"enqueued", "oom", "error"}
    /\ IF call[q].pc = "error"
       THEN failed' = TRUE /\ UNCHANGED order
       ELSE /\ order' = [b \in Binaries |-> AfterOrder(b, call[q].waits[b], call[q].pc)]
            /\ UNCHANGED failed
    /\ Return(q)
    /\ UNCHANGED <<stage, job, timeline, acquired, txn, env>>

\* queue_idle: drain, then io and the native wait, then a pass.
IdleBegin(q) ==
    /\ "idle" \in Calls
    /\ QueueFree(q)
    /\ Goto(q, "idle_drain")
    /\ UNCHANGED <<stage, job, timeline, acquired, order, txn, failed, env>>

IdleLock(q) ==
    /\ MutexFree
    /\ ~failed
    /\ call[q].pc = "idle_drain"
    /\ Staged(q) = {}
    /\ Goto(q, "idling")
    /\ UNCHANGED <<stage, job, timeline, acquired, order, txn, failed, env>>

IdleEnd(q) ==
    /\ MutexFree
    /\ call[q].pc = "idling"
    /\ native[q] = <<>>
    /\ Publish(Completed)
    /\ Return(q)
    /\ UNCHANGED <<job, acquired, order, txn, failed, env>>

\* The native wait reports an error.
IdleFail(q) ==
    /\ MutexFree
    /\ call[q].pc = "idling"
    /\ failed' = TRUE
    /\ Return(q)
    /\ UNCHANGED <<stage, job, timeline, acquired, order, txn, env>>

\* A thread in drain or before_present is woken by the failure.
CallFail(q) ==
    /\ MutexFree
    /\ failed
    /\ call[q].pc \in {"present_drain", "idle_drain"}
    /\ Return(q)
    /\ UNCHANGED <<stage, job, timeline, acquired, order, txn, failed, env>>

\* vkAcquireNextImageKHR of the emulated swapchain: submit_internal signals a
\* semaphore with no operation outstanding.  A refused submit is not reported.
Acquire(q, b, result) ==
    /\ "acquire" \in Calls
    /\ ~IoHeld(q)
    /\ ~External(b) /\ ~InPresent(b)
    /\ order[b].signals = order[b].waits /\ order[b].submitted_waits = order[b].waits
    /\ order[b].signals < MaxEpoch
    /\ \A j \in JobIds \ complete : job[j].bwaits[b] = 0
    /\ nat' = IF result = "refused" THEN nat ELSE Counted(NoEpochs, [NoEpochs EXCEPT ![b] = 1])
    /\ UNCHANGED <<sched, native, complete, fenceWait, waited, hostValue>>

-----------------------------------------------------------------------------
(* vkWaitForFences and vkGetFenceStatus of a fence given to vkQueueSubmit.  *)

FenceWait(j) ==
    /\ "fence" \in Calls
    /\ fenceWait = NoFenceWait
    /\ stage[j] \in {"staged", "retired"} /\ job[j].tail
    /\ fenceWait' = [of |-> j, io |-> FALSE]
    /\ UNCHANGED <<sched, native, complete, nat, waited, hostValue>>

\* Once in each turn of the loop: error() finds the device healthy, and
\* native_fence_call takes fence_io for a look at the fence.
FenceProbe ==
    /\ MutexFree
    /\ ~failed
    /\ fenceWait # NoFenceWait /\ ~fenceWait.io
    /\ fenceWait' = [fenceWait EXCEPT !.io = TRUE]
    /\ UNCHANGED <<sched, native, complete, nat, waited, hostValue>>

\* Mutant: the fence is waited for with fence_io held.
FenceProbedLate ==
    /\ fenceWait.io
    /\ fenceWait.of \in complete
    /\ fenceWait' = NoFenceWait
    /\ UNCHANGED <<sched, native, complete, nat, waited, hostValue>>

\* The look is over: a fence that has no signal yet is looked at again after a
\* sleep without the lock.
FenceProbed ==
    /\ fenceWait.io
    /\ fenceWait' = IF fenceWait.of \in complete THEN NoFenceWait
                    ELSE [fenceWait EXCEPT !.io = FALSE]
    /\ UNCHANGED <<sched, native, complete, nat, waited, hostValue>>

\* The timeout is over (that of vkGetFenceStatus at once).
FenceTimeout ==
    /\ fenceWait.io
    /\ fenceWait' = NoFenceWait
    /\ UNCHANGED <<sched, native, complete, nat, waited, hostValue>>

FenceError ==
    /\ MutexFree
    /\ failed
    /\ fenceWait # NoFenceWait /\ ~fenceWait.io
    /\ fenceWait' = NoFenceWait
    /\ UNCHANGED <<sched, native, complete, nat, waited, hostValue>>

-----------------------------------------------------------------------------
(* External: the driver runs the batches of a queue in order.  A batch ends  *)
(* after the signals of the binary semaphores and tokens it waits for.       *)

Executable(j) ==
    /\ \A b \in Binaries : job[j].bwaits[b] # 0 =>
          \A i \in JobIds : job[i].bsignals[b] = job[j].bwaits[b] => i \in complete
    /\ \A w \in waited : w.by = j => w.token.release.job \in complete

Complete(q) ==
    /\ native[q] # <<>>
    /\ Executable(Head(native[q]))
    /\ complete' = complete \cup {Head(native[q])}
    /\ native' = [native EXCEPT ![q] = Tail(@)]
    /\ UNCHANGED <<sched, nat, fenceWait, waited, hostValue>>

-----------------------------------------------------------------------------
EnqueueNext ==
    \/ \E q \in Queues, sparse \in {batch.sparse : batch \in Batches} : EnqueueBegin(q, sparse)
    \/ \E j \in JobIds, batch \in Batches : EnqueueBatch(j, batch)
    \/ EnqueueFail
    \/ EnqueueCommit
    \/ \E j \in JobIds : EnqueueCommitFence(j)

CallNext ==
    \E q \in Queues :
       \/ \E sems \in SUBSET Binaries : PresentBegin(q, sems)
       \/ PresentReserve(q)
       \/ \E result \in PresentResults : PresentNative(q, result)
       \/ \E result \in InternalResults, next \in {"present_idle", "enqueued"} :
             PresentEmulated(q, result, next)
       \/ PresentIdle(q)
       \/ PresentIdleFail(q)
       \/ AfterPresent(q)
       \/ IdleBegin(q)
       \/ IdleLock(q)
       \/ IdleEnd(q)
       \/ IdleFail(q)
       \/ CallFail(q)
       \/ \E b \in Binaries, result \in InternalResults : Acquire(q, b, result)

FenceNext ==
    \/ \E j \in JobIds : FenceWait(j)
    \/ FenceProbe
    \/ FenceProbed
    \/ FenceTimeout
    \/ FenceError

\* All but the waits for fences, which change nothing but fenceWait.
SchedulerNext ==
    \/ EnqueueNext
    \/ \E done \in SUBSET Completed : Poll(done)
    \/ PollFail
    \/ \E s \in Timelines, value \in HostValues : HostSignal(s, value)
    \/ \E q \in Queues, j \in JobIds : Dispatch(q, j)
    \/ \E q \in Queues, j \in JobIds : DispatchFail(q, j)
    \/ CallNext
    \/ \E q \in Queues : Complete(q)

Next == SchedulerNext \/ FenceNext

Spec == Init /\ [][Next]_vars

-----------------------------------------------------------------------------
(* Scheduling.  The worker never stops retrying (it waits at most 1 ms), a  *)
(* thread inside the scheduler goes on, the driver runs what it was given,  *)
(* and a thread that keeps asking for Device::mutex gets it although others *)
(* take it in between: strong fairness of the steps that need the mutex.    *)
(* The worker's try_lock of fence_io does not meet a probe every time, for  *)
(* the prober sleeps between two of them.                                   *)
(* Nothing obliges the application to call, or a call to fail.              *)
CallStep(q) ==
    \/ PresentReserve(q)
    \/ \E result \in PresentResults : PresentNative(q, result)
    \/ PresentIdle(q)
    \/ AfterPresent(q)
    \/ IdleLock(q)
    \/ IdleEnd(q)
    \/ CallFail(q)

Fairness ==
    /\ WF_vars(EnqueueCommit \/ EnqueueFail)
    /\ SF_vars(Poll(Completed))
    /\ SF_vars(FenceProbe \/ FenceProbed \/ FenceError)
    /\ \A q \in Queues :
          /\ SF_vars(\E j \in JobIds : Dispatch(q, j))
          /\ SF_vars(CallStep(q))
          /\ WF_vars(Complete(q))

FairSpec == Spec /\ Fairness

-----------------------------------------------------------------------------
(* Properties.                                                              *)

\* Every variable stays in its type.
TypeOK ==
    /\ stage \in [JobIds -> {"unused", "building", "staged", "pending", "retired"}]
    /\ job \in [JobIds -> Job]
    /\ timeline \in [Timelines -> [value : Nat, release : Release \cup {NoRelease}]]
    /\ acquired \subseteq Token
    /\ order \in [Binaries -> BinaryOrder]
    /\ txn \in Transaction \cup {NoTxn}
    /\ call \in [Queues ->
                   [pc : {"none", "present_drain", "presenting", "present_idle", "enqueued",
                          "oom", "error", "idle_drain", "idling"},
                    waits : Epochs]]
    /\ failed \in BOOLEAN
    /\ native \in [Queues -> Seq(JobIds)]
    /\ complete \subseteq JobIds
    /\ nat \in [Binaries -> [signals : Nat, waits : Nat]]
    /\ fenceWait \in [of : JobIds \cup {0}, io : BOOLEAN]
    /\ waited \subseteq [token : Token, by : JobIds]
    /\ hostValue \in [Timelines -> Nat]

Dispatched(j) == stage[j] \in {"pending", "retired"}

\* A counter never runs ahead of the GPU and never loses a signal: it shows the
\* last host signal or a release whose batch has finished, and is no smaller
\* than either the host signal or any signal a pass has retired (poll, signal).
CounterJustified ==
    \A s \in Timelines :
       /\ timeline[s].value >= hostValue[s]
       /\ \A j \in JobIds : stage[j] = "retired" => timeline[s].value >= job[j].signals[s]
       /\ IF timeline[s].release = NoRelease THEN timeline[s].value = hostValue[s]
          ELSE LET j == timeline[s].release.job
               IN  j \in complete /\ timeline[s].value = job[j].signals[s]

\* A counter read by the application never goes back, whatever the order in
\* which passes see the fences of several queues (poll's strict comparison).
CountersGrow ==
    [][\A s \in Timelines : timeline'[s].value >= timeline[s].value]_vars

\* The driver sees at most one wait for a binary token, and only after the batch
\* that signals it has finished ("never double-consume a token", the tests).
TokensWaitedOnce ==
    \A w \in waited :
       /\ w.token.release.job \in complete
       /\ \A x \in waited : x.token = w.token => x.by = w.by

\* "Its first acquire ... covers its later submissions too" (the header): when a
\* batch that is not a sparse bind reaches the driver, the current release of
\* each timeline it waits for has its token waited for in that queue and device,
\* by this batch or one before it; no flag is set without such a wait.
FirstAcquireCovers ==
    [][\A j \in JobIds :
          (~Dispatched(j) /\ stage'[j] \in {"pending", "retired"} /\ ~job[j].sparse) =>
             \A t \in CurrentTokens(j) : \E w \in waited' : w.token = t]_vars

\* The driver never uses a token or fence the scheduler has destroyed: while a
\* batch is in flight its completion fence, the tokens it signals and those it
\* waits for are owned by a job or a counter (shared_ptr<Release>, ~Job,
\* ~Binary); after a device loss nothing is destroyed at all.
Owned(r) ==
    \/ timeline[r.sem].release = r
    \/ stage[r.job] \in {"building", "staged", "pending"}
    \/ \E k \in JobIds : stage[k] \in {"staged", "pending"} /\ r \in job[k].acquires
InFlight(j) == Dispatched(j) /\ j \notin complete
PrivateObjectsOutliveUse ==
    ~failed => \A j \in JobIds : InFlight(j) =>
       /\ ~job[j].tail => stage[j] = "pending"
       /\ \A w \in waited : w.by = j => Owned(w.token.release)

\* Once the application sees its fence signalled, the next read of a counter
\* shows every signal of that submission and of those before it on the queue:
\* each is published or will be by the pass that the read makes (enqueue's tail
\* job, counter).
FenceCoversSubmission ==
    \A t \in complete : job[t].tail =>
       \A j \in JobIds : (j < t /\ job[j].queue = job[t].queue) =>
          \A s \in Timelines :
             job[j].signals[s] <= timeline[s].value \/ j \in Completed

\* The driver is never given a wait for a binary semaphore before its signal,
\* nor a second signal before the wait for the first, whichever queues, presents
\* and acquires the operations come from (BinaryOrder, ready, before_present).
BinaryAlternates ==
    \A b \in Binaries : nat[b].waits <= nat[b].signals /\ nat[b].signals <= nat[b].waits + 1

\* "Do not let another queue re-signal the binary before that call" (the comment
\* of after_present): a signal is not given to the driver before the wait that
\* the present call submits for the previous one.
NoResignalBeforeWait == \A b \in Binaries : nat[b].signals <= nat[b].waits + 1

\* No epoch is lost: each signal or wait that has an epoch and is not counted as
\* submitted belongs to a batch or a present still on its way, so nobody waits
\* for an operation that will never come (Reservation, before/after_present).
PresentHolds(q, b, e) ==
    call[q].pc \in {"presenting", "present_idle", "enqueued", "oom", "error"} /\ call[q].waits[b] = e
OnItsWay(j) == stage[j] \in {"building", "staged"}
NoOrphanEpoch ==
    ~failed => \A b \in Binaries :
       /\ \A e \in order[b].submitted_signals + 1 .. order[b].signals :
             \E j \in JobIds : OnItsWay(j) /\ job[j].bsignals[b] = e
       /\ \A e \in order[b].submitted_waits + 1 .. order[b].waits :
             \/ \E j \in JobIds : OnItsWay(j) /\ job[j].bwaits[b] = e
             \/ \E q \in Queues : PresentHolds(q, b, e)

\* A thread that holds a queue's io lock never waits for the worker to empty that
\* queue: the worker could not, its try_lock would fail for ever (the drain
\* nested in a present of the emulated swapchain).
NothingStagedBehindIo == \A q \in Queues : IoHeld(q) => Staged(q) = {}

\* Every staged batch reaches the driver, finishes and is published, unless the
\* device is lost: no cycle of epochs, counters, locks, presents and waits for
\* fences holds it.
EveryJobRetires ==
    \A j \in JobIds : []<>(stage[j] \in {"staged", "pending"} => failed)

\* vkQueuePresentKHR and vkQueueWaitIdle return, and so does vkWaitForFences of
\* a fence that the worker has yet to submit ("an unsignaled fence cannot
\* prevent its own submission").
CallsReturn ==
    /\ \A q \in Queues : []<>(call[q].pc = "none")
    /\ []<>(fenceWait = NoFenceWait)

=============================================================================
