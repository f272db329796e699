---------------------------- MODULE MCSemaphores ----------------------------
(***************************************************************************)
(* Timeline semaphores with the scheduler, as in MCTokens, and without it. *)
(* The two share no state; a behaviour is one of the part it starts in.    *)
(***************************************************************************)
EXTENDS MCTokens

CONSTANTS
    Semaphores, Threads, Fences, Null, s2, Submissions, Lookups, LegacyHostValues, MaxSignals

VARIABLES
    part, state, lock, fence, pool, gpu, thread, issued, finished, hosted, fenced, destroyed

\* Two semaphores signalled by one submission, and a chain through both.
Submission(w, s, a) == [waits |-> w, signals |-> s, app |-> a]
LegacySubmissions ==
    {Submission(<<>>, <<<<s1, 1>>, <<s2, 1>>>>, TRUE), Submission(<<<<s1, 1>>>>, <<<<s2, 2>>>>, FALSE),
     Submission(<<>>, <<<<s1, 2>>>>, FALSE)}
LegacyLookups ==
    {[targets |-> <<<<s1, 0>>>>, any |-> FALSE], [targets |-> <<<<s1, 2>>, <<s2, 1>>>>, any |-> TRUE]}

Legacy == INSTANCE TimelineLegacy WITH HostValues <- LegacyHostValues

\* A call names semaphores and values; a look-up names at least one.
Pairs == Semaphores \X Nat
Entries == [value : Nat, fence : Fences, queue : Queues]
ASSUME LegacyAssumption ==
    /\ Null \notin Fences \cup Queues \cup [counter : Nat, error : BOOLEAN, pending : Seq(Entries)]
    /\ Submissions \subseteq [waits : Seq(Pairs), signals : Seq(Pairs), app : BOOLEAN]
    /\ Lookups \subseteq [targets : Seq(Pairs) \ {<<>>}, any : BOOLEAN]
    /\ LegacyHostValues \subseteq Nat

legacyVars == <<state, lock, fence, pool, gpu, thread, issued, finished, hosted, fenced, destroyed>>

\* Nobody asks a job that was dispatched what it waited for, nor one that
\* retired what it kept alive.
Remembered ==
    [j \in JobIds |->
        IF ~Dispatched(j) THEN job[j]
        ELSE [job[j] EXCEPT !.waits = {}, !.sparse = FALSE,
                            !.acquires = IF stage[j] = "retired" THEN {} ELSE @]]
MCView ==
    <<part, stage, Remembered, timeline, acquired, order, txn, call, failed, env, legacyVars>>

MCInit == part \in {"scheduler", "legacy"} /\ Init /\ Legacy!Init
MCNext ==
    \/ part = "scheduler" /\ Next /\ UNCHANGED <<part, legacyVars>>
    \/ part = "legacy" /\ Legacy!Next /\ UNCHANGED <<part, vars>>
MCSpec == MCInit /\ [][MCNext]_<<part, vars, legacyVars>>

\* Without the scheduler no value is shown early, lost, or missed by who has
\* seen the application's fence, and no private fence is reused or leaked
\* while it stands for something (timeline_semaphore.cpp).
LegacySound == Legacy!LegacySound
=============================================================================
