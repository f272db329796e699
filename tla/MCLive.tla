------------------------------- MODULE MCLive -------------------------------
(***************************************************************************)
(* An instance of TimelineScheduler for liveness.  The application submits *)
(* signals before the waits for them, so that nothing depends on a call it *)
(* might never make, and leaves the semaphores of a present alone until it *)
(* returns (it may be out of memory, and nobody has to try again).         *)
(***************************************************************************)
EXTENDS TimelineScheduler

CONSTANTS q1, q2, b1, s1, d1

\* What happens besides submissions: calls on queues, next to two batches, or
\* only waits for fences, next to three.
VARIABLE part

Both(w, v, bw, bs) ==
    [waits |-> IF w = 0 THEN {} ELSE {[sem |-> s1, value |-> w, dev |-> d1]},
     signals |-> [s \in Timelines |-> v], bwaits |-> bw, bsignals |-> bs, sparse |-> FALSE]

LiveBatches ==
    {Both(0, 1, {}, {b1}), Both(1, 0, {b1}, {}), Both(1, 2, {}, {b1}), Both(0, 0, {b1}, {b1})}

SignalsFirst ==
    \A j \in JobIds : stage[j] = "building" =>
       /\ \A w \in job[j].waits :
             \/ timeline[w.sem].value >= w.value
             \/ \E i \in JobIds : i < j /\ job[i].signals[w.sem] >= w.value
       /\ \A b \in Binaries : job[j].bsignals[b] # 0 => ~InPresent(b)

Within ==
    /\ part = "calls" => stage[3] = "unused"
    /\ fenceWait # NoFenceWait => part = "jobs" /\ fenceWait.of = 3
    /\ part = "jobs" => \A q \in Queues : call[q].pc = "none"

LiveSpec ==
    /\ Init /\ part \in {"calls", "jobs"}
    /\ [][Next /\ UNCHANGED part /\ SignalsFirst' /\ Within']_<<vars, part>>
    /\ Fairness
=============================================================================
