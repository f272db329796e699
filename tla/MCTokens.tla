------------------------------ MODULE MCTokens ------------------------------
(***************************************************************************)
(* Instances of TimelineScheduler about counters, releases and tokens:     *)
(* two queues, timeline semaphores only.                                   *)
(***************************************************************************)
EXTENDS TimelineScheduler, TLC

CONSTANTS q1, q2, s1, d1

signals(v) == [s \in Timelines |-> v]
waits(v) == {[sem |-> s, value |-> v, dev |-> d] : s \in Timelines, d \in Devices}

Plain(w, v) == [waits |-> IF w = 0 THEN {} ELSE waits(w), signals |-> signals(v),
                bwaits |-> {}, bsignals |-> {}, sparse |-> FALSE]
Sparse(w, v) == [Plain(w, v) EXCEPT !.sparse = TRUE]

\* Signals of 1 and 2, waits for 1 and 2, a sparse wait, a wait that signals.
TokenBatches == {Plain(0, 1), Plain(0, 2), Plain(1, 0), Plain(1, 3), Sparse(1, 0)}

QueueSymmetry == Permutations(Queues)
=============================================================================
