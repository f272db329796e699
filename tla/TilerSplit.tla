----------------------------- MODULE TilerSplit -----------------------------
(***************************************************************************)
(* Bounded tiler rendering: on a device whose tiler was found to fail      *)
(* under pressure, a render pass is split before a draw that would make    *)
(* the batch too large (before_draw of                                     *)
(* src/layer/src/main/cpp/modules/vulkan_1_3/dynamic_rendering.cpp with    *)
(* core/mali_tiler_budget.h).                                              *)
(*                                                                         *)
(* A split ends the native pass and begins one that loads what the first   *)
(* one stored.  It is only allowed where that cannot be seen: in a primary *)
(* command buffer, in a pass whose attachments are all stored, and not     *)
(* while a query, a transform feedback or a conditional scope is open.     *)
(*                                                                         *)
(* Work is [vertices, draws, commands]; the numbers are those of a draw    *)
(* scaled down with the limits, and stop at Cap as they stop at 2^64 - 1.  *)
(***************************************************************************)
EXTENDS Naturals

CONSTANTS
    CommandBuffers, \* VkCommandBuffer handles, which the driver may use again
    Devices,
    VertexLimit,    \* 262144
    DrawLimit,      \* 128
    CommandLimit,   \* 4
    Cap,            \* 2^64 - 1
    MaxScopes,      \* bound: open queries and other scopes
    Null

ASSUME LimitsAssumption ==
    /\ {VertexLimit, DrawLimit, CommandLimit, Cap, MaxScopes} \subseteq Nat
    /\ VertexLimit < Cap /\ DrawLimit < Cap /\ CommandLimit < Cap

VARIABLES
    kind,     \* of a device: absent, plain, or tiler when m_tiler_devices has it
    owner,    \* m_cmd_devices
    primary,  \* m_primary_commands
    state,    \* m_cmd_rendering_states
    blockers, \* m_split_blockers
    native,   \* the native pass the driver is recording for a command buffer
    scopes    \* the scopes open in a command buffer

vars == <<kind, owner, primary, state, blockers, native, scopes>>
books == <<owner, primary>>

NoWork == [vertices |-> 0, draws |-> 0, commands |-> 0]
NoState == [rendering |-> FALSE, legacy |-> FALSE, continuation |-> FALSE,
            hasWork |-> FALSE, budget |-> NoWork]

\* part flips with every split; calls counts the draws up to two; blocked:
\* one of them was recorded with a scope open.
Closed == [open |-> FALSE, splittable |-> FALSE, part |-> 0,
           calls |-> 0, blocked |-> FALSE, work |-> NoWork]

Init ==
    /\ kind = [d \in Devices |-> "absent"]
    /\ owner = [c \in CommandBuffers |-> Null]
    /\ primary = {}
    /\ state = [c \in CommandBuffers |-> NoState]
    /\ blockers = [c \in CommandBuffers |-> 0]
    /\ native = [c \in CommandBuffers |-> Closed]
    /\ scopes = [c \in CommandBuffers |-> {}]

HasTilerGuard == \E d \in Devices : kind[d] = "tiler"

-----------------------------------------------------------------------------
(* The budget.                                                              *)

Capped(n) == IF n > Cap THEN Cap ELSE n

NeedsSplit(s, vertices, draws) ==
    /\ s.hasWork /\ vertices + draws > 0
    /\ \/ s.budget.vertices + vertices > VertexLimit \/ s.budget.vertices >= VertexLimit
       \/ s.budget.draws + draws > DrawLimit \/ s.budget.draws >= DrawLimit
       \/ s.budget.commands >= CommandLimit

Added(work, vertices, draws) ==
    [vertices |-> Capped(work.vertices + vertices),
     draws |-> Capped(work.draws + draws),
     commands |-> Capped(work.commands + (IF draws > 0 THEN 1 ELSE 0))]

-----------------------------------------------------------------------------
(* Devices and command buffers.                                             *)

CreateDevice(d) ==
    /\ kind[d] = "absent"
    /\ \E k \in {"plain", "tiler"} : kind' = [kind EXCEPT ![d] = k]
    /\ UNCHANGED <<books, state, blockers, native, scopes>>

\* What is kept about command buffers is dropped for those in gone.
\* Mutant: the scopes open in a buffer survive it.
ForgottenButScopes(gone) ==
    /\ state' = [c \in CommandBuffers |-> IF c \in gone THEN NoState ELSE state[c]]
    /\ primary' = primary \ gone
    /\ UNCHANGED blockers
Forgotten(gone) ==
    /\ state' = [c \in CommandBuffers |-> IF c \in gone THEN NoState ELSE state[c]]
    /\ primary' = primary \ gone
    /\ blockers' = [c \in CommandBuffers |-> IF c \in gone THEN 0 ELSE blockers[c]]

NothingRecorded(gone) ==
    /\ native' = [c \in CommandBuffers |-> IF c \in gone THEN Closed ELSE native[c]]
    /\ scopes' = [c \in CommandBuffers |-> IF c \in gone THEN {} ELSE scopes[c]]

Release(gone) ==
    /\ Forgotten(gone) /\ NothingRecorded(gone)
    /\ owner' = [c \in CommandBuffers |-> IF c \in gone THEN Null ELSE owner[c]]

DestroyDevice(d) ==
    /\ kind[d] # "absent"
    /\ kind' = [kind EXCEPT ![d] = "absent"]
    /\ Release({c \in CommandBuffers : owner[c] = d})

FreeCommandBuffer(c) ==
    /\ owner[c] # Null
    /\ Release({c})
    /\ UNCHANGED kind

AllocateCommandBuffer(c, d) ==
    /\ kind[d] # "absent" /\ owner[c] = Null
    /\ owner' = [owner EXCEPT ![c] = d]
    /\ primary' \in {primary \cup {c}, primary \ {c}}
    /\ UNCHANGED <<kind, state, blockers, native, scopes>>

\* Begin and reset: the state stays in the map, cleared.
BeginCommandBuffer(c) ==
    /\ owner[c] # Null
    /\ state' = [state EXCEPT ![c].rendering = FALSE, ![c].continuation = FALSE,
                              ![c].hasWork = FALSE, ![c].budget = NoWork]
    /\ blockers' = [blockers EXCEPT ![c] = 0]
    /\ NothingRecorded({c})
    /\ UNCHANGED <<kind, books>>

-----------------------------------------------------------------------------
(* Passes.                                                                  *)

Opened(splittable) == [Closed EXCEPT !.open = TRUE, !.splittable = splittable]

Begun(legacy, rendering, continuation) ==
    [NoState EXCEPT !.legacy = legacy, !.rendering = rendering, !.continuation = continuation]

\* stored: inline, without extensions, and all attachments single-sampled,
\* known, stored and not transient.
Eligible(c, stored) == kind[owner[c]] = "tiler" /\ stored /\ c \in primary

\* A continuation may also fail to be created; then nothing is ever split.
BeginRendering(c) ==
    /\ owner[c] # Null /\ ~native[c].open
    /\ \E stored \in BOOLEAN, continuation \in BOOLEAN :
          /\ continuation => Eligible(c, stored)
          /\ native' = [native EXCEPT ![c] = Opened(stored /\ continuation)]
          /\ state' = [state EXCEPT ![c] = Begun(FALSE, TRUE, continuation)]
    /\ UNCHANGED <<kind, books, blockers, scopes>>

EndRendering(c) ==
    /\ native[c].open /\ ~state[c].legacy
    /\ native' = [native EXCEPT ![c] = Closed]
    /\ state' = [state EXCEPT ![c].rendering = FALSE]
    /\ UNCHANGED <<kind, books, blockers, scopes>>

\* known: the pass has a continuation, which track_render_pass only makes on
\* a tiler device for a pass that stores its attachments.
BeginLegacyRendering(c, known) ==
    IF HasTilerGuard
    THEN state' = [state EXCEPT ![c] = Begun(TRUE, known, known /\ c \in primary)]
    ELSE UNCHANGED state

BeginRenderPass(c) ==
    /\ owner[c] # Null /\ ~native[c].open
    /\ \E known \in {kind[owner[c]] = "tiler", FALSE} :
          /\ native' = [native EXCEPT ![c] = Opened(known /\ c \in primary)]
          /\ BeginLegacyRendering(c, known)
    /\ UNCHANGED <<kind, books, blockers, scopes>>

EndLegacyRendering(c) ==
    IF HasTilerGuard
    THEN state' = [state EXCEPT ![c].rendering = FALSE, ![c].continuation = FALSE]
    ELSE UNCHANGED state

\* The next subpass is not one the continuation was made for.
NextSubpass(c) ==
    /\ native[c].open /\ state[c].legacy
    /\ native' = [native EXCEPT ![c] = Opened(FALSE)]
    /\ EndLegacyRendering(c)
    /\ UNCHANGED <<kind, books, blockers, scopes>>

EndRenderPass(c) ==
    /\ native[c].open /\ (state[c].legacy \/ ~HasTilerGuard)
    /\ native' = [native EXCEPT ![c] = Closed]
    /\ EndLegacyRendering(c)
    /\ UNCHANGED <<kind, books, blockers, scopes>>

-----------------------------------------------------------------------------
(* Draws and scopes.                                                        *)

\* Mutant: a split inside a scope.
SplitsInScope(c, vertices, draws) == NeedsSplit(state[c], vertices, draws)
Splits(c, vertices, draws) == blockers[c] = 0 /\ NeedsSplit(state[c], vertices, draws)

Tracked(c) == HasTilerGuard /\ state[c].rendering /\ state[c].continuation

BeforeDraw(c, vertices, draws) ==
    IF Tracked(c)
    THEN LET base == IF Splits(c, vertices, draws) THEN NoWork ELSE state[c].budget
         IN state' = [state EXCEPT ![c].hasWork = TRUE,
                                   ![c].budget = Added(base, vertices, draws)]
    ELSE UNCHANGED state

\* The driver ends the pass, waits for it and begins the continuation.
Continued(c, vertices, draws) ==
    IF Tracked(c) /\ Splits(c, vertices, draws)
    THEN [Opened(native[c].splittable) EXCEPT !.part = 1 - native[c].part]
    ELSE native[c]

Draw(c, vertices, draws) ==
    LET before == Continued(c, vertices, draws) IN
    /\ native[c].open
    /\ BeforeDraw(c, vertices, draws)
    /\ native' = [native EXCEPT ![c] =
          [before EXCEPT !.work = Added(@, vertices, draws),
                         !.calls = IF @ = 2 THEN 2 ELSE @ + 1,
                         !.blocked = @ \/ scopes[c] # {}]]
    /\ UNCHANGED <<kind, books, blockers, scopes>>

\* block_tiler_split counts nothing when no device has the guard.
BlockTilerSplit(c, by) == IF HasTilerGuard THEN blockers' = [blockers EXCEPT ![c] = by]
                                           ELSE UNCHANGED blockers

BeginScope(c) ==
    /\ owner[c] # Null
    /\ blockers[c] < MaxScopes
    /\ \E n \in 1..MaxScopes :
          /\ {s.id : s \in scopes[c]} \cap 1..n = 1..(n - 1)
          /\ scopes' = [scopes EXCEPT ![c] = @ \cup {[id |-> n, part |-> native[c].part,
                                                    inside |-> native[c].open]}]
    /\ BlockTilerSplit(c, blockers[c] + 1)
    /\ UNCHANGED <<kind, books, state, native>>

\* Vulkan: a scope begun in a pass ends in it.
EndScope(c) ==
    /\ \E s \in scopes[c] :
          /\ s.inside = native[c].open
          /\ scopes' = [scopes EXCEPT ![c] = @ \ {s}]
    /\ BlockTilerSplit(c, IF blockers[c] = 0 THEN 0 ELSE blockers[c] - 1)
    /\ UNCHANGED <<kind, books, state, native>>

\* Vulkan: no pass ends with a scope of it open.
Nested(c) == \A s \in scopes[c] : ~s.inside

Next ==
    \/ \E d \in Devices : CreateDevice(d) \/ DestroyDevice(d)
    \/ \E c \in CommandBuffers :
          \/ \E d \in Devices : AllocateCommandBuffer(c, d)
          \/ FreeCommandBuffer(c) \/ BeginCommandBuffer(c)
          \/ BeginRendering(c) \/ BeginRenderPass(c)
          \/ Nested(c) /\ (EndRendering(c) \/ EndRenderPass(c) \/ NextSubpass(c))
          \/ \E n \in 1..(VertexLimit + 1) : Draw(c, n, 0)
          \/ \E n \in 1..(DrawLimit + 1) : Draw(c, 0, n)
          \/ BeginScope(c) \/ EndScope(c)

Spec == Init /\ [][Next]_vars

-----------------------------------------------------------------------------
(* Properties.                                                              *)

WithinLimits(w) ==
    w.vertices <= VertexLimit /\ w.draws <= DrawLimit /\ w.commands <= CommandLimit

\* The native batch of a splittable pass stays within the limits, except for
\* one draw that exceeds them alone and for draws inside a scope.
BatchBounded ==
    \A c \in CommandBuffers :
       native[c].open /\ native[c].splittable /\ ~native[c].blocked /\ native[c].calls > 1
          => WithinLimits(native[c].work)

\* No scope of a pass is cut in two, and only a pass that may be is split.
ScopesWhole ==
    \A c \in CommandBuffers :
       /\ \A s \in scopes[c] : s.inside => s.part = native[c].part
       /\ native[c].part = 1 => native[c].splittable /\ c \in primary

\* Splitting keeps its promise both ways: batches stay small, and nothing that
\* must be whole is cut.
TilerSound == BatchBounded /\ ScopesWhole

=============================================================================
