---------------------------- MODULE BarrierDedup ----------------------------
(***************************************************************************)
(* The barrier optimiser                                                   *)
(* (src/layer/src/main/cpp/core/tbdr_barrier_optimizer.h and .cpp) and the *)
(* calls of core/layer_manager.cpp and vulkan_entry.cpp that feed it.      *)
(*                                                                         *)
(* A barrier that repeats the one recorded before it, with no action in    *)
(* between, is not forwarded.  Every command buffer has a tracker in a map *)
(* behind a mutex; a thread keeps a shared_ptr to the one it used last and *)
(* marks actions on it without the mutex.                                  *)
(*                                                                         *)
(* A barrier is ordinary (it has a signature, one of Barriers) or not (an  *)
(* extension chain, an ownership transfer or a layout transition).  Vulkan *)
(* lets one thread at a time use a command buffer, so a call is one        *)
(* action: the mutex orders those of different command buffers, and the    *)
(* two flags only ever go down.                                            *)
(***************************************************************************)
EXTENDS Naturals

CONSTANTS
    CommandBuffers, \* VkCommandBuffer handles, which the driver may use again
    Threads,        \* recording threads
    Barriers,       \* signatures of ordinary barriers
    Trackers,       \* CmdTracker objects: memory is used again when no shared_ptr is left
    Generations,    \* generation counts modulo this (2^32 in the code)
    Null            \* no tracker, no command buffer

ASSUME GenerationsAssumption == Generations \in Nat /\ Generations > 1
ASSUME NullAssumption == Null \notin Trackers /\ Null \notin CommandBuffers
ASSUME BarriersAssumption == \A b \in Barriers : b \notin {"begin", "action", "ordered"}

VARIABLES
    enabled,  \* m_enabled and m_dedup_consecutive
    complete, \* m_tracking_complete
    object,   \* the CmdTracker objects
    map,      \* m_trackers: command buffer -> tracker
    cache,    \* the thread_locals of on_cmd_action
    handed,   \* the application has the driver's pointer to some command
    phase,    \* of a command buffer: none, initial or recording
    last      \* what the driver recorded last that a barrier orders

vars == <<enabled, complete, object, map, cache, handed, phase, last>>
recording == <<handed, phase, last>>
switches == <<enabled, complete>>

NewTracker == [sig |-> Null, hadAction |-> FALSE, valid |-> TRUE, generation |-> 1, hasLast |-> FALSE]
NoCache == [cmd |-> Null, tracker |-> Null, generation |-> 0]

Init ==
    /\ enabled \in BOOLEAN
    /\ complete = TRUE
    /\ object = [x \in Trackers |-> NewTracker]
    /\ map = [c \in CommandBuffers |-> Null]
    /\ cache = [t \in Threads |-> NoCache]
    /\ handed = FALSE
    /\ phase = [c \in CommandBuffers |-> "none"]
    /\ last = [c \in CommandBuffers |-> "begin"]

IsEnabled == enabled /\ complete

\* The objects to which no shared_ptr points.
Unused == {x \in Trackers : x \notin {map[c] : c \in CommandBuffers}
                                     \cup {cache[t].tracker : t \in Threads}}

\* The tracker of c as get_or_create_tracker leaves it, at x.
Found(c, x) == IF map[c] = Null THEN x \in Unused ELSE x = map[c]
Contents(c, x) == IF map[c] = Null THEN NewTracker ELSE object[x]

Put(c, x, contents) ==
    /\ map' = [map EXCEPT ![c] = x]
    /\ object' = [object EXCEPT ![x] = contents]

-----------------------------------------------------------------------------
(* Actions: draws, dispatches, copies, clears, events, queries, render      *)
(* passes.                                                                  *)

Hit(t, c) ==
    /\ cache[t].cmd = c /\ cache[t].tracker # Null
    /\ object[cache[t].tracker].valid
    /\ object[cache[t].tracker].generation = cache[t].generation

Ignored == ~IsEnabled /\ UNCHANGED <<switches, object, map, cache>>

ActionFast(t, c) ==
    /\ IsEnabled /\ Hit(t, c)
    /\ object' = [object EXCEPT ![cache[t].tracker].hadAction = TRUE]
    /\ UNCHANGED <<switches, map, cache>>

ActionSlow(t, c) ==
    /\ IsEnabled /\ ~Hit(t, c)
    /\ \E x \in Trackers :
          /\ Found(c, x)
          /\ Put(c, x, [Contents(c, x) EXCEPT !.hadAction = TRUE])
          /\ cache' = [cache EXCEPT ![t] =
                          [cmd |-> c, tracker |-> x, generation |-> Contents(c, x).generation]]
    /\ UNCHANGED switches

\* No memory for a new tracker: the optimiser goes off for good.
ActionFails(t, c) ==
    /\ IsEnabled /\ ~Hit(t, c) /\ map[c] = Null
    /\ enabled' = FALSE
    /\ cache' = [cache EXCEPT ![t].tracker = Null]
    /\ UNCHANGED <<complete, object, map>>

Record(c, what) ==
    /\ phase[c] = "recording"
    /\ last' = [last EXCEPT ![c] = what]
    /\ UNCHANGED <<handed, phase>>

CmdAction(t, c) ==
    /\ Record(c, "action")
    /\ Ignored \/ ActionFast(t, c) \/ ActionSlow(t, c) \/ ActionFails(t, c)

\* vkGet*ProcAddr gives out the driver's pointer to a command.
LookUp ==
    /\ handed' = TRUE
    /\ complete' = (complete /\ ~IsEnabled)
    /\ UNCHANGED <<enabled, object, map, cache, phase, last>>

\* A command the application calls in the driver directly.
NativeAction(c) ==
    /\ handed
    /\ Record(c, "action")
    /\ UNCHANGED <<switches, object, map, cache>>

-----------------------------------------------------------------------------
(* Barriers.                                                                *)

\* Mutant: the action between two barriers is forgotten.
DuplicateAnyway(tracker, b) == tracker.hasLast /\ tracker.sig = b
Duplicate(tracker, b) == tracker.hasLast /\ ~tracker.hadAction /\ tracker.sig = b

Forget(c) ==
    /\ object' = IF map[c] = Null THEN object ELSE [object EXCEPT ![map[c]].hasLast = FALSE]
    /\ UNCHANGED map

RetainBarrier(c, b) ==
    \E x \in Trackers :
       /\ Found(c, x)
       /\ Put(c, x, [Contents(c, x) EXCEPT !.sig = b, !.hasLast = TRUE, !.hadAction = FALSE])
       /\ IF Duplicate(Contents(c, x), b) THEN UNCHANGED last ELSE last' = [last EXCEPT ![c] = b]

\* With no memory for the signature or the tracker the barrier passes.
Barrier(c, b) ==
    /\ phase[c] = "recording"
    /\ \/ IsEnabled /\ RetainBarrier(c, b)
       \/ IsEnabled /\ Forget(c) /\ last' = [last EXCEPT ![c] = b]
       \/ ~IsEnabled /\ last' = [last EXCEPT ![c] = b] /\ UNCHANGED <<object, map>>
    /\ UNCHANGED <<switches, cache, handed, phase>>

\* Chained, transferring ownership or changing a layout.
OrderedBarrier(c) ==
    /\ Record(c, "ordered")
    /\ IF IsEnabled THEN Forget(c) ELSE UNCHANGED <<object, map>>
    /\ UNCHANGED <<switches, cache>>

-----------------------------------------------------------------------------
(* The life of a command buffer.                                            *)

\* on_cmd_begin and on_cmd_reset.  Mutant: the generation outgrows its field.
RestartedWide(k) ==
    [k EXCEPT !.hasLast = FALSE, !.sig = Null, !.hadAction = FALSE, !.generation = @ + 1]
Restarted(k) ==
    [k EXCEPT !.hasLast = FALSE, !.sig = Null, !.hadAction = FALSE,
              !.generation = (@ + 1) % Generations]

Restart(c) ==
    /\ object' = IF map[c] = Null THEN object ELSE [object EXCEPT ![map[c]] = Restarted(@)]
    /\ UNCHANGED <<switches, map, cache>>

Enter(c, from, to) ==
    /\ phase[c] \in from
    /\ phase' = [phase EXCEPT ![c] = to]
    /\ last' = [last EXCEPT ![c] = "begin"]
    /\ UNCHANGED handed

Begin(c) == Enter(c, {"initial", "recording"}, "recording") /\ Restart(c)
Reset(c) == Enter(c, {"recording"}, "initial") /\ Restart(c)

\* vkResetCommandPool and vkDestroyCommandPool may be the driver's own.
ResetNatively(c) ==
    Enter(c, {"recording"}, "initial") /\ UNCHANGED <<switches, object, map, cache>>
DestroyNatively(c) ==
    Enter(c, {"initial", "recording"}, "none") /\ UNCHANGED <<switches, object, map, cache>>
Allocate(c) ==
    Enter(c, {"none"}, "initial") /\ UNCHANGED <<switches, object, map, cache>>

\* on_cmd_free.  Mutant: threads are not told that the tracker has gone.
ForgetTrackerQuietly(c) ==
    /\ object' = IF map[c] = Null THEN object ELSE [object EXCEPT ![map[c]].hasLast = FALSE]
    /\ map' = [map EXCEPT ![c] = Null]
    /\ UNCHANGED <<switches, cache>>
ForgetTracker(c) ==
    /\ object' = IF map[c] = Null THEN object ELSE
         [object EXCEPT ![map[c]].hasLast = FALSE, ![map[c]].valid = FALSE]
    /\ map' = [map EXCEPT ![c] = Null]
    /\ UNCHANGED <<switches, cache>>

Free(c) == Enter(c, {"initial", "recording"}, "none") /\ ForgetTracker(c)

-----------------------------------------------------------------------------

BarrierCall(c) == OrderedBarrier(c) \/ \E b \in Barriers : Barrier(c, b)

Life(c) ==
    \/ Begin(c) \/ Reset(c) \/ ResetNatively(c)
    \/ DestroyNatively(c) \/ Allocate(c) \/ Free(c)

Next ==
    \/ LookUp
    \/ \E c \in CommandBuffers :
          \/ \E t \in Threads : CmdAction(t, c)
          \/ NativeAction(c)
          \/ BarrierCall(c)
          \/ Life(c)

Spec == Init /\ [][Next]_vars

-----------------------------------------------------------------------------
(* Properties.                                                              *)

Tracker == [sig : Barriers \cup {Null}, hadAction : BOOLEAN, valid : BOOLEAN,
            generation : 0 .. Generations - 1, hasLast : BOOLEAN]

\* Type invariant: every variable stays in its type, so the generation stays
\* within its width.
TypeOK ==
    /\ enabled \in BOOLEAN /\ complete \in BOOLEAN /\ handed \in BOOLEAN
    /\ object \in [Trackers -> Tracker]
    /\ map \in [CommandBuffers -> Trackers \cup {Null}]
    /\ cache \in [Threads -> [cmd : CommandBuffers \cup {Null}, tracker : Trackers \cup {Null},
                              generation : 0 .. Generations - 1]]
    /\ phase \in [CommandBuffers -> {"none", "initial", "recording"}]
    /\ last \in [CommandBuffers -> Barriers \cup {"begin", "action", "ordered"}]

\* retain_barrier: a barrier is dropped only when it repeats what the driver
\* recorded last in this recording of this command buffer: no action of any
\* thread, no native call and no other barrier came between, whatever handles
\* and trackers have been freed and used again.
DropsOnlyDuplicates ==
    [][\A c \in CommandBuffers, b \in Barriers :
          Barrier(c, b) /\ last' = last => last[c] = b]_vars

\* A thread that caches the live tracker of a command buffer caches the one of
\* the map: what it marks without the mutex is what a barrier reads.
CacheReachesMap ==
    \A t \in Threads :
       cache[t].tracker # Null /\ object[cache[t].tracker].valid
          => map[cache[t].cmd] = cache[t].tracker

=============================================================================
