--------------------------- MODULE TimelineLegacy ---------------------------
(***************************************************************************)
(* Timeline semaphores without the scheduler: the synchronous fallback of  *)
(* src/layer/src/main/cpp/modules/vulkan_1_2/timeline_semaphore.cpp, for   *)
(* one device.  A submission waits on the host, gives the driver a private *)
(* fence from a pool, and leaves each value it signals with that fence for *)
(* whoever looks at the semaphore next.                                    *)
(*                                                                         *)
(* A fence held by a FenceHolder is named by itself: no two holders have   *)
(* one fence at a time, which is part of LegacySound.                      *)
(***************************************************************************)
EXTENDS Naturals, FiniteSets, SequencesExt

CONSTANTS Semaphores, Queues, Threads, Fences, Null,
    Submissions, \* [waits, signals, app]: the sequences <<semaphore, value>> of
                 \* a call, and whether the application gives it a fence
    HostValues, Lookups,
    MaxSignals   \* bound on the values submissions signal

VARIABLES
    state,    \* m_timeline_semaphores
    lock,     \* state_mutex
    fence,    \* "none", "reset", "pending" or "signaled"
    pool,     \* m_fence_pool
    gpu,      \* per queue, what the driver has not finished
    thread,
    issued, finished, hosted, fenced, \* history of <<semaphore, value>>
    destroyed

timeline == <<state, lock, fence, pool, gpu, thread, issued, finished, hosted, fenced, destroyed>>
histories == <<issued, finished, hosted, fenced, destroyed>>

Idle == [pc |-> "idle"]
Alive == {s \in Semaphores : state[s] # Null}
Created == [counter |-> 0, error |-> FALSE, pending |-> <<>>]
Higher(a, b) == IF a < b THEN b ELSE a

Init ==
    /\ state = [s \in Semaphores |-> Created]
    /\ lock = [s \in Semaphores |-> Null]
    /\ fence = [f \in Fences |-> "none"]
    /\ pool = <<>>
    /\ gpu = [q \in Queues |-> <<>>]
    /\ thread = [t \in Threads |-> Idle]
    /\ issued = {} /\ finished = {} /\ hosted = {} /\ fenced = {}
    /\ destroyed = FALSE

Goes(t, r) == thread' = [thread EXCEPT ![t] = r]
InCall(t) == thread[t].pc # "idle"
\* The threads in a call for a queue, and those that look at a semaphore.
OnQueue(q) ==
    {t \in Threads : InCall(t) /\ (IF thread[t].pc = "sweep" THEN q \in thread[t].queue ELSE thread[t].queue = q)}
Uses(t, s) ==
    /\ InCall(t)
    /\ \/ thread[t].pc = "sweep"
       \/ \E i \in DOMAIN thread[t].targets : thread[t].targets[i][1] = s
       \/ \E p \in ToSet(thread[t].waits) \cup ToSet(thread[t].signals) : p[1] = s

\* ~FenceHolder: the last reference gone, the fence is reset and pooled, or
\* destroyed when the reset fails.
Refers(S, T, f) ==
    \/ \E s \in Semaphores : S[s] # Null /\ \E i \in DOMAIN S[s].pending : S[s].pending[i].fence = f
    \/ \E t \in Threads : T[t].pc # "idle" /\ T[t].fence = f
\* Forgets the other semaphores a fence stands for.
ReleasesEach(S, T, dropped) ==
    LET gone == {f \in dropped : ~\E t \in Threads : T[t].pc # "idle" /\ T[t].fence = f}
    IN  \E kept \in {gone, {}} :
            /\ fence' = [f \in Fences |-> IF f \notin gone THEN fence[f] ELSE IF f \in kept THEN "reset" ELSE "none"]
            /\ pool' = pool \o SetToSeq(kept)
Releases(S, T, dropped) ==
    LET gone == {f \in dropped : ~Refers(S, T, f)}
    IN  \E kept \in {gone, {}} :
            /\ fence' = [f \in Fences |-> IF f \notin gone THEN fence[f] ELSE IF f \in kept THEN "reset" ELSE "none"]
            /\ pool' = pool \o SetToSeq(kept)
\* The thread and the semaphores change, and no longer hold dropped.
Becomes(S, t, r, dropped) ==
    /\ state' = S
    /\ Goes(t, r)
    /\ Releases(S, [thread EXCEPT ![t] = r], dropped)
Returns(t) == Becomes(state, t, Idle, {thread[t].fence} \ {Null})
\* A call that fails before the driver has its batches signals nothing.
Fails(t) == Returns(t) /\ issued' = issued \ ToSet(thread[t].signals)

-----------------------------------------------------------------------------
(* Calls that look at semaphores. *)

Call(queue, targets, any, timed, waits, signals, app, then) ==
    [pc |-> "look", queue |-> queue, targets |-> targets, at |-> 1, entry |-> 1, any |-> any, met |-> ~any,
     timed |-> timed, waits |-> waits, signals |-> signals, app |-> app, fence |-> Null, then |-> then]

\* vkGetSemaphoreCounterValue and vkWaitSemaphores.
LookUp(t) ==
    /\ ~InCall(t) /\ ~destroyed
    /\ \E l \in Lookups :
           /\ \A i \in DOMAIN l.targets : l.targets[i][1] \in Alive
           /\ Goes(t, Call(Null, l.targets, l.any, TRUE, <<>>, <<>>, FALSE, "return"))
    /\ UNCHANGED <<state, lock, fence, pool, gpu, histories>>

\* check_pending_signals takes the semaphore's mutex and gives up after an error.
Look(t) ==
    /\ thread[t].pc = "look"
    /\ LET s == thread[t].targets[thread[t].at][1]
       IN  /\ lock[s] = Null
           /\ IF state[s].error
              THEN Fails(t) /\ UNCHANGED lock
              ELSE /\ Goes(t, [thread[t] EXCEPT !.pc = "check", !.entry = 1])
                   /\ lock' = [lock EXCEPT ![s] = t]
                   /\ UNCHANGED <<state, fence, pool, issued>>
    /\ UNCHANGED <<gpu, finished, hosted, fenced, destroyed>>

\* One vkGetFenceStatus: while the loop goes on, the GPU does too.
CheckEntry(t) ==
    /\ thread[t].pc = "check"
    /\ LET s == thread[t].targets[thread[t].at][1]
           i == thread[t].entry
           e == state[s].pending[i]
       IN  /\ i <= Len(state[s].pending)
           /\ IF fence[e.fence] = "signaled"
              THEN Becomes([state EXCEPT ![s].counter = Higher(@, e.value), ![s].pending = RemoveAt(@, i)],
                           t, thread[t], {e.fence})
              ELSE Goes(t, [thread[t] EXCEPT !.entry = i + 1]) /\ UNCHANGED <<state, fence, pool>>
    /\ UNCHANGED <<lock, gpu, histories>>

CheckFails(t) ==
    /\ thread[t].pc = "check"
    /\ LET s == thread[t].targets[thread[t].at][1]
       IN  /\ thread[t].entry <= Len(state[s].pending)
           /\ Becomes([state EXCEPT ![s].error = TRUE], t, Idle, {})
           /\ lock' = [lock EXCEPT ![s] = Null]
           /\ issued' = issued \ ToSet(thread[t].signals)
    /\ UNCHANGED <<gpu, finished, hosted, fenced, destroyed>>

CheckEnds(t) ==
    /\ thread[t].pc = "check"
    /\ LET target == thread[t].targets[thread[t].at]
           s == target[1]
           reached == state[s].counter >= target[2]
           last == thread[t].at = Len(thread[t].targets)
       IN  /\ thread[t].entry > Len(state[s].pending)
           /\ lock' = [lock EXCEPT ![s] = Null]
           /\ Goes(t, [thread[t] EXCEPT
                  !.pc = IF last THEN "decide" ELSE "look",
                  !.at = IF last THEN 1 ELSE @ + 1,
                  !.met = IF thread[t].any THEN @ \/ reached ELSE @ /\ reached])
    /\ UNCHANGED <<state, fence, pool, gpu, histories>>

\* on_wait_semaphores returns, times out or looks again; a submission waits
\* for one value after the other and without end.
Decide(t) ==
    /\ thread[t].pc = "decide"
    /\ \/ /\ thread[t].met \/ thread[t].timed
          /\ IF thread[t].then = "return" THEN Returns(t)
             ELSE /\ Goes(t, IF thread[t].waits = <<>> THEN [thread[t] EXCEPT !.pc = "fence"]
                          ELSE [thread[t] EXCEPT !.pc = "look", !.met = TRUE,
                                    !.targets = <<Head(thread[t].waits)>>, !.waits = Tail(@)])
                  /\ UNCHANGED <<state, fence, pool>>
       \/ /\ ~thread[t].met
          /\ Goes(t, [thread[t] EXCEPT !.pc = "look", !.met = ~thread[t].any])
          /\ UNCHANGED <<state, fence, pool>>
    /\ UNCHANGED <<lock, gpu, histories>>

\* vkSignalSemaphore takes no mutex.  The value is above the current one and
\* below what is still to be signalled.
HostSignal(t, s, v) ==
    /\ ~InCall(t) /\ s \in Alive /\ v \in HostValues
    /\ \A p \in finished \cup hosted : p[1] = s => p[2] < v
    /\ \A p \in issued \ finished : p[1] = s => v < p[2]
    /\ IF state[s].error THEN UNCHANGED <<state, hosted>>
       ELSE /\ state' = [state EXCEPT ![s].counter = Higher(@, v)]
            /\ hosted' = hosted \cup {<<s, v>>}
    /\ UNCHANGED <<lock, fence, pool, gpu, thread, issued, finished, fenced, destroyed>>

-----------------------------------------------------------------------------
(* on_queue_submit. *)

\* The values grow, and nobody else is in a call for the queue.
SubmitBegins(t, q) ==
    /\ ~InCall(t) /\ OnQueue(q) = {} /\ ~destroyed
    /\ Cardinality(issued) < MaxSignals
    /\ \E c \in Submissions :
           /\ \A p \in ToSet(c.waits) \cup ToSet(c.signals) : p[1] \in Alive
           /\ \A p \in ToSet(c.signals), o \in issued \cup hosted : o[1] = p[1] => o[2] < p[2]
           /\ LET r == Call(q, <<>>, FALSE, FALSE, c.waits, c.signals, c.app, "submit")
              IN  Goes(t, IF c.waits = <<>> THEN [r EXCEPT !.pc = "fence"]
                          ELSE [r EXCEPT !.targets = <<Head(c.waits)>>, !.waits = Tail(@)])
           /\ issued' = issued \cup ToSet(c.signals)
    /\ UNCHANGED <<state, lock, fence, pool, gpu, finished, hosted, fenced, destroyed>>

\* acquire_internal_fence, if the call signals anything.
AcquireFence(t) ==
    /\ thread[t].pc = "fence"
    /\ \/ /\ thread[t].signals = <<>>
          /\ Goes(t, [thread[t] EXCEPT !.pc = "submit"])
          /\ UNCHANGED <<state, fence, pool, issued>>
       \/ /\ thread[t].signals # <<>> /\ pool # <<>>
          /\ Goes(t, [thread[t] EXCEPT !.pc = "submit", !.fence = Head(pool)])
          /\ pool' = Tail(pool) /\ UNCHANGED <<state, fence, issued>>
       \/ /\ thread[t].signals # <<>> /\ pool = <<>>
          /\ \E f \in Fences :
                /\ fence[f] = "none"
                /\ fence' = [fence EXCEPT ![f] = "reset"]
                /\ Goes(t, [thread[t] EXCEPT !.pc = "submit", !.fence = f])
          /\ UNCHANGED <<state, pool, issued>>
       \/ thread[t].signals # <<>> /\ pool = <<>> /\ Fails(t)
    /\ UNCHANGED <<lock, gpu, finished, hosted, fenced, destroyed>>

\* The driver takes the batches, or nothing happens.
NativeSubmit(t) ==
    /\ thread[t].pc = "submit"
    /\ \/ /\ gpu' = [gpu EXCEPT ![thread[t].queue] = Append(@,
                 [fence |-> thread[t].fence, signals |-> ToSet(thread[t].signals), fences |-> {}])]
          /\ fence' = [f \in Fences |-> IF f = thread[t].fence THEN "pending" ELSE fence[f]]
          /\ IF thread[t].fence = Null THEN Goes(t, Idle)
             ELSE Goes(t, [thread[t] EXCEPT !.pc = "push", !.targets = thread[t].signals])
          /\ UNCHANGED <<state, pool, issued>>
       \/ Fails(t) /\ UNCHANGED gpu
    /\ UNCHANGED <<lock, finished, hosted, fenced, destroyed>>

\* Each value is left with the fence.  The holder of the call goes last.
Push(t) ==
    /\ thread[t].pc = "push" /\ thread[t].signals # <<>>
    /\ LET p == Head(thread[t].signals)
       IN  /\ lock[p[1]] = Null
           /\ state' = [state EXCEPT ![p[1]].pending =
                  Append(@, [value |-> p[2], fence |-> thread[t].fence, queue |-> thread[t].queue])]
    /\ Goes(t, [thread[t] EXCEPT !.signals = Tail(@)])
    /\ UNCHANGED <<lock, fence, pool, gpu, histories>>

\* The application's fence follows in a submission of its own; should that
\* fail, the device is lost to every semaphore.
PushEnds(t) ==
    /\ thread[t].pc = "push" /\ thread[t].signals = <<>>
    /\ \/ ~thread[t].app /\ Returns(t) /\ UNCHANGED gpu
       \/ /\ thread[t].app /\ Returns(t)
          /\ gpu' = [gpu EXCEPT ![thread[t].queue] =
                 Append(@, [fence |-> Null, signals |-> {}, fences |-> ToSet(thread[t].targets)])]
       \/ /\ thread[t].app
          /\ Becomes([s \in Semaphores |-> IF s \in Alive THEN [state[s] EXCEPT !.error = TRUE] ELSE Null],
                     t, Idle, {thread[t].fence})
          /\ UNCHANGED gpu
    /\ UNCHANGED <<lock, histories>>

\* A queue finishes in order.
GpuFinishes(q) ==
    /\ gpu[q] # <<>>
    /\ LET b == Head(gpu[q])
       IN  /\ fence' = [f \in Fences |-> IF f = b.fence THEN "signaled" ELSE fence[f]]
           /\ finished' = finished \cup b.signals
           /\ fenced' = fenced \cup b.fences
    /\ gpu' = [gpu EXCEPT ![q] = Tail(@)]
    /\ UNCHANGED <<state, lock, pool, thread, issued, hosted, destroyed>>

-----------------------------------------------------------------------------
(* Waiting until queues are idle, and the end of semaphores and device. *)

\* The caller keeps the queue, or all of them, to itself.
IdleBegins(t) ==
    /\ ~InCall(t) /\ ~destroyed
    /\ \E Q \in {{q} : q \in Queues} \cup {Queues} :
           /\ \A q \in Q : gpu[q] = <<>> /\ OnQueue(q) = {}
           /\ Goes(t, [pc |-> "sweep", queue |-> Q, left |-> Alive, fence |-> Null])
    /\ UNCHANGED <<state, lock, fence, pool, gpu, histories>>

\* The entries of other queues, in their order.
Others(entries, Q) ==
    LET upto[n \in 0 .. Len(entries)] ==
            IF n = 0 THEN <<>>
            ELSE IF entries[n].queue \in Q THEN upto[n - 1] ELSE Append(upto[n - 1], entries[n])
    IN  upto[Len(entries)]

\* on_queue_wait_idle and on_device_wait_idle, a semaphore at a time.
Sweep(t, s) ==
    /\ thread[t].pc = "sweep" /\ s \in thread[t].left /\ lock[s] = Null
    /\ LET done == {e \in ToSet(state[s].pending) : e.queue \in thread[t].queue}
       IN  Becomes([state EXCEPT
                ![s].counter = Max({@} \cup {e.value : e \in done}),
                ![s].pending = Others(@, thread[t].queue)],
              t, [thread[t] EXCEPT !.left = @ \ {s}], {e.fence : e \in done})
    /\ UNCHANGED <<lock, gpu, histories>>

IdleEnds(t) ==
    /\ thread[t].pc = "sweep" /\ thread[t].left = {}
    /\ Goes(t, Idle)
    /\ UNCHANGED <<state, lock, fence, pool, gpu, histories>>

\* Nobody uses the semaphore any more: its entries go with it.
Destroy(s) ==
    /\ s \in Alive /\ ~\E t \in Threads : Uses(t, s)
    /\ \A p \in issued : p[1] = s => p \in finished
    /\ state' = [state EXCEPT ![s] = Null]
    /\ Releases(state', thread, {e.fence : e \in ToSet(state[s].pending)})
    /\ UNCHANGED <<lock, gpu, thread, histories>>

\* The states of the device's semaphores go, then the pool.
DestroyDevice ==
    /\ ~destroyed /\ \A t \in Threads : ~InCall(t)
    /\ \A q \in Queues : gpu[q] = <<>>
    /\ LET held == UNION {{e.fence : e \in ToSet(state[s].pending)} : s \in Alive}
       IN  fence' = [f \in Fences |-> IF f \in held \cup ToSet(pool) THEN "none" ELSE fence[f]]
    /\ state' = [s \in Semaphores |-> Null] /\ pool' = <<>> /\ destroyed' = TRUE
    /\ UNCHANGED <<lock, gpu, thread, issued, finished, hosted, fenced>>

Next ==
    \/ \E t \in Threads :
           \/ LookUp(t) \/ Look(t) \/ CheckEntry(t) \/ CheckFails(t) \/ CheckEnds(t) \/ Decide(t)
           \/ AcquireFence(t) \/ NativeSubmit(t) \/ Push(t) \/ PushEnds(t)
           \/ IdleBegins(t) \/ IdleEnds(t)
           \/ \E q \in Queues : SubmitBegins(t, q)
           \/ \E s \in Semaphores : Sweep(t, s) \/ \E v \in HostValues : HostSignal(t, s, v)
    \/ \E q \in Queues : GpuFinishes(q)
    \/ \E s \in Semaphores : Destroy(s)
    \/ DestroyDevice

Spec == Init /\ [][Next]_timeline

-----------------------------------------------------------------------------

\* A counter shows what the host signalled or the GPU has finished.
CounterHonest ==
    \A s \in Alive : state[s].counter = 0 \/ <<s, state[s].counter>> \in finished \cup hosted

\* What is finished can be found: it is in the counter, or with a fence that
\* is signaled, or about to be left there by a call that has not returned;
\* and after the application's own fence it is not the last.
FinishedFound ==
    \A p \in finished : p[1] \in Alive =>
        LET s == state[p[1]]
        IN  \/ s.counter >= p[2] \/ s.error
            \/ \E e \in ToSet(s.pending) : e.value = p[2] /\ fence[e.fence] = "signaled"
            \/ p \notin fenced /\ \E t \in Threads : thread[t].pc = "push" /\ Contains(thread[t].signals, p)

\* A fence in the pool is reset and nobody's, another belongs to somebody,
\* what the driver will signal is pending, and none is left to the device.
FencesSound ==
    /\ IsInjective(pool)
    /\ \A f \in Fences :
           /\ Contains(pool, f) => fence[f] = "reset" /\ ~Refers(state, thread, f)
           /\ fence[f] # "none" => Contains(pool, f) \/ Refers(state, thread, f)
    /\ \A q \in Queues : \A i \in DOMAIN gpu[q] : gpu[q][i].fence # Null => fence[gpu[q][i].fence] = "pending"
    /\ destroyed => \A f \in Fences : fence[f] = "none"

\* All of it (timeline_semaphore.cpp without the scheduler): no value is
\* shown early, lost, or missed by who has seen the application's fence, and
\* no private fence is reused or leaked while it stands for something.
LegacySound == CounterHonest /\ FinishedFound /\ FencesSound
=============================================================================
