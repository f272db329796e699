------------------------------ MODULE MCBinary ------------------------------
(***************************************************************************)
(* Instances of TimelineScheduler about binary semaphores: the order of    *)
(* their signals and waits across two queues, presents and acquires.  A    *)
(* batch with hold waits for the timeline value that the host signals.     *)
(***************************************************************************)
EXTENDS TimelineScheduler, TLC

CONSTANTS q1, q2, b1, s1, d1

Binary(bw, bs, hold) ==
    [waits |-> IF hold THEN {[sem |-> s, value |-> 1, dev |-> d] : s \in Timelines, d \in Devices}
               ELSE {},
     signals |-> [s \in Timelines |-> 0], bwaits |-> bw, bsignals |-> bs, sparse |-> FALSE]

BinaryBatches ==
    {Binary({}, {b1}, FALSE), Binary({}, {b1}, TRUE), Binary({b1}, {}, FALSE),
     Binary({b1}, {b1}, FALSE)}

\* Nobody asks what a retired job was: it signalled no timeline, and its epochs
\* are counted.
Remembered == [j \in JobIds |-> IF stage[j] = "retired" THEN NoJob ELSE job[j]]
BinaryView == <<stage, Remembered, timeline, acquired, order, txn, call, failed, env>>

\* Nobody waits for a fence here.
BinarySpec == Init /\ [][SchedulerNext]_vars

QueueSymmetry == Permutations(Queues)
=============================================================================
