--------------------------- MODULE RenderingCache ---------------------------
(***************************************************************************)
(* The objects behind emulated dynamic rendering                           *)
(* (src/layer/src/main/cpp/modules/vulkan_1_3/dynamic_rendering.cpp).      *)
(*                                                                         *)
(* Each vkCmdBeginRendering is turned into a render pass begin.  Render    *)
(* passes and framebuffers are cached under m_rw_mutex; they are created   *)
(* outside it, so two threads can create the same one, and the loser of    *)
(* the race destroys its own.  A framebuffer dies with the first of its    *)
(* views, found through an index from views to framebuffer keys.           *)
(*                                                                         *)
(* An action is one hold of the lock or one native creation.  The key of a *)
(* render pass is what its content depends on: the formats and the load    *)
(* operation ("pipeline": the compatible pass of a pipeline, whose content *)
(* has no load operation).  Sizes, layers and clear values are left out.   *)
(***************************************************************************)
EXTENDS Naturals, Sequences, FiniteSets

CONSTANTS
    Threads,      \* threads that record and create pipelines
    Views,        \* VkImageView handles, which the driver may use again
    Formats,      \* what a view's image can hold
    Attachments,  \* the lists of views a rendering may name
    AppPasses,    \* render passes of the application
    PassHandles,  \* native VkRenderPass handles
    FrameHandles, \* native VkFramebuffer handles
    Null

Lengths == {Len(a) : a \in Attachments}
Loads == {"pipeline", "clear", "load"}
PassKeys == [formats : UNION {[1..n -> Formats] : n \in Lengths}, load : Loads]
FrameKeys == [pass : PassHandles, views : Attachments]

VARIABLES
    tiler,      \* m_tiler_devices has the device
    exists,     \* the device
    format,     \* m_image_views: the format of a view, Null when it is not there
    passes,     \* m_pipeline_rp_cache and m_dynamic_rp_cache
    frames,     \* m_framebuffer_cache
    index,      \* m_image_view_to_framebuffers
    owned,      \* m_device_resources
    legacy,     \* m_legacy_continuations
    livePass,   \* in the driver: what each live render pass was created from
    liveFrame,  \* in the driver: what each live framebuffer was created from
    call        \* where each thread is

caches == <<passes, frames, index, owned>>
driver == <<livePass, liveFrame>>
device == <<tiler, exists>>
vars == <<device, format, caches, legacy, driver, call>>

NoKey == [formats |-> <<>>, load |-> "pipeline"]

\* Null is the absence of a handle, of a format and of a key.
ASSUME RenderingAssumption ==
    /\ Attachments \subseteq Seq(Views)
    /\ Null \notin PassHandles \cup FrameHandles \cup Formats
    /\ Null \notin PassKeys \cup {NoKey} /\ Null \notin FrameKeys

Idle == [at |-> "idle", use |-> "pipeline", key |-> NoKey, views |-> <<>>, tiled |-> FALSE,
         pass |-> Null, frame |-> Null, continuation |-> Null, made |-> Null]

Init ==
    /\ tiler \in BOOLEAN /\ exists = TRUE
    /\ format = [v \in Views |-> Null]
    /\ passes = [k \in PassKeys |-> Null]
    /\ frames = [k \in FrameKeys |-> Null]
    /\ index = [v \in Views |-> {}]
    /\ owned = [passes |-> {}, frames |-> {}]
    /\ legacy = [p \in AppPasses |-> Null]
    /\ livePass = [h \in PassHandles |-> Null]
    /\ liveFrame = [h \in FrameHandles |-> Null]
    /\ call = [t \in Threads |-> Idle]

Elements(a) == {a[i] : i \in DOMAIN a}
At(t, place) == call[t].at = place
To(t, record) == call' = [call EXCEPT ![t] = record]
LoadKey(key) == [key EXCEPT !.load = "load"]

-----------------------------------------------------------------------------
(* Render passes.                                                           *)

\* Where a begin goes on once its continuation is settled.
Resume(c) == [c EXCEPT !.use = "begin", !.made = Null,
                       !.at = IF c.pass = Null THEN "create"
                              ELSE IF c.frame = Null THEN "check" ELSE "record"]

\* A pass of the key being looked for: what the caller does with it.
Give(c, h) ==
    CASE c.use = "pipeline" -> Idle
      [] c.use = "continuation" -> Resume([c EXCEPT !.continuation = h])
      [] OTHER -> [c EXCEPT !.pass = h, !.made = Null, !.at = "check"]

CompatiblePass(t, key) ==
    /\ exists /\ At(t, "idle")
    /\ key.load = "pipeline" /\ passes[key] = Null
    /\ To(t, [Idle EXCEPT !.at = "create", !.key = key])
    /\ UNCHANGED <<device, format, caches, legacy, driver>>

\* The key a thread creates a pass for.
Wanted(c) == IF c.use = "continuation" THEN LoadKey(c.key) ELSE c.key

CreatePass(t) ==
    /\ At(t, "create")
    /\ \E h \in PassHandles :
          /\ livePass[h] = Null
          /\ livePass' = [livePass EXCEPT ![h] = Wanted(call[t])]
          /\ To(t, [call[t] EXCEPT !.at = "insert", !.made = h])
    /\ UNCHANGED <<device, format, caches, legacy, liveFrame>>

\* A continuation is an option; without the other two the call gives up.
CreatePassFails(t) ==
    /\ At(t, "create")
    /\ To(t, IF call[t].use = "continuation" THEN Resume(call[t]) ELSE Idle)
    /\ UNCHANGED <<device, format, caches, legacy, driver>>

\* Mutant: a framebuffer is kept with the render passes.
OwnedAsPass(what, h) == owned' = [owned EXCEPT !.passes = @ \cup {h}]
Owned(what, h) == owned' = [owned EXCEPT ![what] = @ \cup {h}]

\* Mutant: the entry found is replaced and its pass destroyed.
ReplacePass(t) ==
    LET c == call[t] found == passes[Wanted(c)] IN
    /\ At(t, "insert")
    /\ passes' = [passes EXCEPT ![Wanted(c)] = c.made]
    /\ owned' = [owned EXCEPT !.passes = (@ \ {found}) \cup {c.made}]
    /\ livePass' = [h \in PassHandles |-> IF h = found THEN Null ELSE livePass[h]]
    /\ To(t, Give(c, c.made))
    /\ UNCHANGED <<device, format, frames, index, legacy, liveFrame>>
InsertPass(t) ==
    LET c == call[t] found == passes[Wanted(c)] IN
    /\ At(t, "insert")
    /\ IF found = Null
       THEN /\ passes' = [passes EXCEPT ![Wanted(c)] = c.made]
            /\ Owned("passes", c.made)
            /\ To(t, Give(c, c.made))
            /\ UNCHANGED livePass
       ELSE /\ livePass' = [livePass EXCEPT ![c.made] = Null]
            /\ To(t, Give(c, found))
            /\ UNCHANGED <<passes, owned>>
    /\ UNCHANGED <<device, format, frames, index, legacy, liveFrame>>

-----------------------------------------------------------------------------
(* vkCmdBeginRendering.                                                     *)

FrameOf(pass, a) ==
    IF pass = Null THEN Null ELSE frames[[pass |-> pass, views |-> a]]

\* The key, the pass and the framebuffer, under one shared lock.
BeginRendering(t, a, load) ==
    /\ exists /\ At(t, "idle")
    /\ \A v \in Elements(a) : format[v] # Null
    /\ \E eligible \in {tiler, FALSE} :
          LET key  == [formats |-> [i \in DOMAIN a |-> format[a[i]]], load |-> load]
              c    == [Idle EXCEPT !.key = key, !.views = a, !.tiled = eligible,
                                   !.pass = passes[key], !.frame = FrameOf(passes[key], a)]
          IN  To(t, IF eligible THEN [c EXCEPT !.at = "continue"] ELSE Resume(c))
    /\ UNCHANGED <<device, format, caches, legacy, driver>>

Continuation(t) ==
    LET c == call[t] found == passes[LoadKey(c.key)] IN
    /\ At(t, "continue")
    /\ To(t, IF found # Null THEN Resume([c EXCEPT !.continuation = found])
             ELSE [c EXCEPT !.at = "create", !.use = "continuation"])
    /\ UNCHANGED <<device, format, caches, legacy, driver>>

CheckFrame(t) ==
    LET c == call[t] found == FrameOf(c.pass, c.views) IN
    /\ At(t, "check")
    /\ To(t, [c EXCEPT !.frame = found, !.at = IF found = Null THEN "frame" ELSE "record"])
    /\ UNCHANGED <<device, format, caches, legacy, driver>>

CreateFrame(t) ==
    LET c == call[t] IN
    /\ At(t, "frame")
    /\ \/ \E h \in FrameHandles :
             /\ liveFrame[h] = Null
             /\ liveFrame' = [liveFrame EXCEPT ![h] = [pass |-> c.pass, views |-> c.views]]
             /\ To(t, [c EXCEPT !.at = "insertFrame", !.made = h])
       \/ To(t, Idle) /\ UNCHANGED liveFrame
    /\ UNCHANGED <<device, format, caches, legacy, livePass>>

\* Mutant: only the first view finds the framebuffer.
FirstView(key) == {key.views[1]}
Viewed(key) == Elements(key.views)

InsertFrame(t) ==
    LET c == call[t]
        key == [pass |-> c.pass, views |-> c.views]
        found == frames[key]
        Recorded(h) == [c EXCEPT !.at = "record", !.frame = h, !.made = Null]
    IN
    /\ At(t, "insertFrame")
    /\ IF found = Null
       THEN /\ frames' = [frames EXCEPT ![key] = c.made]
            /\ Owned("frames", c.made)
            /\ index' = [v \in Views |-> IF v \in Viewed(key) THEN index[v] \cup {key} ELSE index[v]]
            /\ To(t, Recorded(c.made))
            /\ UNCHANGED liveFrame
       ELSE /\ liveFrame' = [liveFrame EXCEPT ![c.made] = Null]
            /\ To(t, Recorded(found))
            /\ UNCHANGED <<frames, index, owned>>
    /\ UNCHANGED <<device, format, passes, legacy, livePass>>

\* The begin goes to the driver; draws may then split the pass.
Record(t) ==
    /\ At(t, "record")
    /\ To(t, [call[t] EXCEPT !.at = "rendering"])
    /\ UNCHANGED <<device, format, caches, legacy, driver>>

EndRendering(t) ==
    /\ At(t, "rendering")
    /\ To(t, Idle)
    /\ UNCHANGED <<device, format, caches, legacy, driver>>

-----------------------------------------------------------------------------
(* Views, render passes of the application and the device.                  *)

CreateView(v, f) ==
    /\ exists /\ format[v] = Null
    /\ format' = [format EXCEPT ![v] = f]
    /\ UNCHANGED <<device, caches, legacy, driver, call>>

Handles(keys) == {frames[k] : k \in keys} \ {Null}

\* Mutant: the siblings of a destroyed view keep its keys.
Without(v, keys) == [w \in Views |-> IF w = v THEN {} ELSE index[w]]
Unindexed(v, keys) == [w \in Views |-> IF w = v THEN {} ELSE index[w] \ keys]

\* Vulkan: a view named by a rendering in progress is not destroyed.
DestroyView(v) ==
    LET dead == Handles(index[v]) IN
    /\ format[v] # Null
    /\ \A t \in Threads : v \notin Elements(call[t].views)
    /\ format' = [format EXCEPT ![v] = Null]
    /\ liveFrame' = [h \in FrameHandles |-> IF h \in dead THEN Null ELSE liveFrame[h]]
    /\ owned' = [owned EXCEPT !.frames = @ \ dead]
    /\ frames' = [k \in FrameKeys |-> IF k \in index[v] THEN Null ELSE frames[k]]
    /\ index' = Unindexed(v, index[v])
    /\ UNCHANGED <<device, passes, legacy, livePass, call>>

\* track_render_pass: the pass may be unfit for splitting, or creation fail.
TrackRenderPass(p) ==
    /\ exists /\ tiler /\ legacy[p] = Null
    /\ \E h \in PassHandles :
          /\ livePass[h] = Null
          /\ livePass' = [livePass EXCEPT ![h] = NoKey]
          /\ legacy' = [legacy EXCEPT ![p] = h]
    /\ UNCHANGED <<device, format, caches, liveFrame, call>>

ForgetRenderPass(p) ==
    /\ legacy[p] # Null
    /\ livePass' = [livePass EXCEPT ![legacy[p]] = Null]
    /\ legacy' = [legacy EXCEPT ![p] = Null]
    /\ UNCHANGED <<device, format, caches, liveFrame, call>>

\* Mutant: the legacy continuations are forgotten, not destroyed.
DestroyedWith == owned.passes
DestroyedPasses == owned.passes \cup {legacy[p] : p \in AppPasses}

DestroyDevice ==
    /\ exists /\ \A t \in Threads : At(t, "idle")
    /\ exists' = FALSE
    /\ tiler' = FALSE
    /\ livePass' = [h \in PassHandles |-> IF h \in DestroyedPasses THEN Null ELSE livePass[h]]
    /\ liveFrame' = [h \in FrameHandles |-> IF h \in owned.frames THEN Null ELSE liveFrame[h]]
    /\ legacy' = [p \in AppPasses |-> Null]
    /\ passes' = [k \in PassKeys |-> Null]
    /\ frames' = [k \in FrameKeys |-> Null]
    /\ index' = [v \in Views |-> {}]
    /\ owned' = [passes |-> {}, frames |-> {}]
    /\ format' = [v \in Views |-> Null]
    /\ UNCHANGED call

CreateDevice ==
    /\ ~exists /\ exists' = TRUE
    /\ tiler' \in BOOLEAN
    /\ UNCHANGED <<format, caches, legacy, driver, call>>

Step(t) ==
    \/ \E key \in PassKeys : CompatiblePass(t, key)
    \/ \E a \in Attachments, load \in {"clear", "load"} : BeginRendering(t, a, load)
    \/ Continuation(t) \/ CreatePass(t) \/ CreatePassFails(t) \/ InsertPass(t)
    \/ CheckFrame(t) \/ CreateFrame(t) \/ InsertFrame(t) \/ Record(t) \/ EndRendering(t)

Next ==
    \/ \E t \in Threads : Step(t)
    \/ \E v \in Views : DestroyView(v) \/ \E f \in Formats : CreateView(v, f)
    \/ \E p \in AppPasses : TrackRenderPass(p) \/ ForgetRenderPass(p)
    \/ DestroyDevice \/ CreateDevice

Spec == Init /\ [][Next]_vars

-----------------------------------------------------------------------------
(* Properties.                                                              *)

Places == {"idle", "continue", "create", "insert", "check", "frame", "insertFrame",
           "record", "rendering"}

Calls == [at : Places, use : {"pipeline", "continuation", "begin"},
          key : PassKeys \cup {NoKey}, views : Attachments \cup {<<>>}, tiled : BOOLEAN,
          pass : PassHandles \cup {Null}, frame : FrameHandles \cup {Null},
          continuation : PassHandles \cup {Null},
          made : PassHandles \cup FrameHandles \cup {Null}]

\* Every variable stays in its type.
TypeOK ==
    /\ tiler \in BOOLEAN /\ exists \in BOOLEAN
    /\ format \in [Views -> Formats \cup {Null}]
    /\ passes \in [PassKeys -> PassHandles \cup {Null}]
    /\ frames \in [FrameKeys -> FrameHandles \cup {Null}]
    /\ index \in [Views -> SUBSET FrameKeys]
    /\ owned \in [passes : SUBSET PassHandles, frames : SUBSET FrameHandles]
    /\ legacy \in [AppPasses -> PassHandles \cup {Null}]
    /\ livePass \in [PassHandles -> PassKeys \cup {NoKey, Null}]
    /\ liveFrame \in [FrameHandles -> FrameKeys \cup {Null}]
    /\ call \in [Threads -> Calls]

\* A cached handle is alive and is what its key says; a cached framebuffer has
\* only views that exist, of the formats its pass was created for.  Handles
\* and views are used again, so an entry left behind would be taken for new.
CacheSound ==
    /\ \A k \in PassKeys : passes[k] # Null => livePass[passes[k]] = k
    /\ \A k \in FrameKeys : frames[k] # Null =>
          /\ liveFrame[frames[k]] = k
          /\ livePass[k.pass] # Null
          /\ livePass[k.pass].formats = [i \in DOMAIN k.views |-> format[k.views[i]]]

\* The index names exactly the framebuffers of a view, so none survives it
\* and the index of a view that stays does not grow with those that go.
IndexExact ==
    \A v \in Views : index[v] = {k \in FrameKeys : frames[k] # Null /\ v \in Elements(k.views)}

\* Every native object is known to one holder that will destroy it: nothing
\* is leaked by a lost race, a failed call, a view or a device.
Held(t) == IF call[t].at \in {"insert", "insertFrame"} THEN call[t].made ELSE Null
NothingLeaks ==
    /\ {h \in PassHandles : livePass[h] # Null} =
          ({passes[k] : k \in PassKeys} \cup {legacy[p] : p \in AppPasses}
              \cup {Held(t) : t \in {u \in Threads : At(u, "insert")}}) \ {Null}
    /\ {h \in FrameHandles : liveFrame[h] # Null} =
          ({frames[k] : k \in FrameKeys}
              \cup {Held(t) : t \in {u \in Threads : At(u, "insertFrame")}}) \ {Null}
    /\ owned.passes = {passes[k] : k \in PassKeys} \ {Null}
    /\ owned.frames = {frames[k] : k \in FrameKeys} \ {Null}

\* While a rendering is open its pass, its framebuffer and the pass that
\* would continue it are alive and of its attachments, whatever other
\* threads create and destroy meanwhile.
RenderingStays ==
    \A t \in Threads : call[t].at \in {"record", "rendering"} =>
       LET c == call[t] IN
       /\ livePass[c.pass] = c.key
       /\ liveFrame[c.frame] = [pass |-> c.pass, views |-> c.views]
       /\ c.continuation # Null => livePass[c.continuation] = LoadKey(c.key)

\* The objects of the renderer as a whole: the caches, their index and the
\* driver agree after every step.
ObjectsSound == TypeOK /\ CacheSound /\ IndexExact /\ NothingLeaks

=============================================================================
