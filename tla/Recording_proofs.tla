-------------------------- MODULE Recording_proofs --------------------------
(***************************************************************************)
(* Theorems about the parts of recording that MCRecording explores, for    *)
(* every value of the constants of each part: the bounded tiler rendering  *)
(* of TilerSplit keeps its promises, the draws of PushDescriptors see what *)
(* was pushed, and no function pointer of EntryPoints lets a call past a   *)
(* part of the layer that must see it.                                     *)
(***************************************************************************)
EXTENDS MCRecording, FiniteSetTheorems, TLAPS

-----------------------------------------------------------------------------
(* TilerSplit: the types.                                                   *)

Work == [vertices : Nat, draws : Nat, commands : Nat]
Rendering == [rendering : BOOLEAN, legacy : BOOLEAN, continuation : BOOLEAN,
              hasWork : BOOLEAN, budget : Work]
Native == [open : BOOLEAN, splittable : BOOLEAN, part : {0, 1},
           calls : Nat, blocked : BOOLEAN, work : Work]
Scope == [id : 1..MaxScopes, part : {0, 1}, inside : BOOLEAN]

TilerType ==
    /\ kind \in [Devices -> {"absent", "plain", "tiler"}]
    /\ owner \in [CommandBuffers -> Devices \cup {Null}]
    /\ primary \subseteq CommandBuffers
    /\ state \in [CommandBuffers -> Rendering]
    /\ blockers \in [CommandBuffers -> Nat]
    /\ native \in [CommandBuffers -> Native]
    /\ scopes \in [CommandBuffers -> SUBSET Scope]

LEMMA AddedWork ==
    ASSUME NEW w \in Work, NEW v \in Nat, NEW d \in Nat PROVE Added(w, v, d) \in Work
BY LimitsAssumption DEF Added, Capped, Work

LEMMA TilerTypes ==
    /\ NoWork \in Work /\ NoState \in Rendering /\ Closed \in Native
    /\ \A splittable \in BOOLEAN : Opened(splittable) \in Native
    /\ \A l, r, k \in BOOLEAN : Begun(l, r, k) \in Rendering
BY DEF NoWork, NoState, Closed, Opened, Begun, Work, Rendering, Native

-----------------------------------------------------------------------------
(* TilerSplit: the invariant.                                               *)

OnTiler(c) == owner[c] # Null /\ kind[owner[c]] = "tiler"
Splittable(c) == native[c].open /\ native[c].splittable

\* A command buffer belongs to a live device; the records of one that belongs
\* to none are those of one never used.
Recordable(c) ==
    /\ owner[c] # Null => kind[owner[c]] # "absent"
    /\ owner[c] = Null => /\ state[c] = NoState /\ blockers[c] = 0
                          /\ native[c] = Closed /\ scopes[c] = {}

\* The layer tracks exactly the passes that may be split; a pass that was split is
\* one of them.
Follows(c) ==
    /\ Splittable(c) <=> state[c].rendering /\ state[c].continuation
    /\ state[c].continuation => OnTiler(c)
    /\ Splittable(c) => c \in primary
    /\ native[c].part = 1 => Splittable(c)

\* The blockers of a buffer of a tiler device are the scopes open in it, and the
\* scopes of a pass are whole.
Counts(c) ==
    /\ IsFiniteSet(scopes[c])
    /\ OnTiler(c) => blockers[c] = Cardinality(scopes[c])
    /\ \A s \in scopes[c] : s.inside => native[c].open /\ s.part = native[c].part

\* The budget is the work of the native batch.
Budgeted(c) ==
    Splittable(c) =>
       /\ state[c].budget = native[c].work
       /\ state[c].hasWork <=> native[c].calls > 0
       /\ native[c].calls > 1 /\ ~native[c].blocked => WithinLimits(native[c].work)

Whole(c) == Recordable(c) /\ Follows(c) /\ Counts(c) /\ Budgeted(c)
TilerInv == TilerType /\ \A c \in CommandBuffers : Whole(c)

\* A step leaves alone a buffer, or makes it one that belongs to no device.
Same(c) ==
    /\ owner'[c] = owner[c] /\ state'[c] = state[c] /\ blockers'[c] = blockers[c]
    /\ native'[c] = native[c] /\ scopes'[c] = scopes[c]
    /\ c \in primary' <=> c \in primary
    /\ owner[c] # Null => kind'[owner[c]] = kind[owner[c]]

LEMMA SameWhole == ASSUME NEW c \in CommandBuffers, Whole(c), Same(c) PROVE Whole(c)'
<1>1. OnTiler(c)' <=> OnTiler(c)
  BY DEF Same, OnTiler
<1>2. Splittable(c)' <=> Splittable(c)
  BY DEF Same, Splittable
<1>3. Recordable(c)'
  BY DEF Same, Whole, Recordable
<1>4. Follows(c)'
  BY <1>1, <1>2 DEF Same, Whole, Follows
<1>5. Counts(c)'
  BY <1>1 DEF Same, Whole, Counts
<1>6. Budgeted(c)'
  BY <1>2 DEF Same, Whole, Budgeted, WithinLimits
<1>. QED  BY <1>3, <1>4, <1>5, <1>6 DEF Whole

LEMMA UnusedWhole ==
    ASSUME NEW c \in CommandBuffers, owner'[c] = Null, state'[c] = NoState, blockers'[c] = 0,
           native'[c] = Closed, scopes'[c] = {}
    PROVE  Whole(c)'
<1>1. IsFiniteSet({})
  BY FS_EmptySet
<1>. QED  BY <1>1 DEF Whole, Recordable, Follows, Counts, Budgeted, Splittable, OnTiler, NoState, Closed

LEMMA TilerInit == Init => TilerInv
<1>. SUFFICES ASSUME Init PROVE TilerInv
  OBVIOUS
<1>1. TilerType
  BY TilerTypes DEF Init, TilerType
<1>2. ASSUME NEW c \in CommandBuffers PROVE Whole(c)
  BY FS_EmptySet DEF Init, Whole, Recordable, Follows, Counts, Budgeted, Splittable, OnTiler, NoState,
     Closed
<1>. QED  BY <1>1, <1>2 DEF TilerInv

-----------------------------------------------------------------------------
(* TilerSplit: the steps.                                                   *)

LEMMA ReleaseStep ==
    ASSUME TilerInv, NEW gone \in SUBSET CommandBuffers, Release(gone),
           kind' \in [Devices -> {"absent", "plain", "tiler"}],
           \A c \in CommandBuffers \ gone : owner[c] # Null => kind'[owner[c]] = kind[owner[c]]
    PROVE  TilerInv'
<1>0. TilerType
  BY DEF TilerInv
<1>1. TilerType'
  BY <1>0, TilerTypes DEF TilerType, Release, Forgotten, NothingRecorded
<1>2. ASSUME NEW c \in CommandBuffers PROVE Whole(c)'
  <2>1. CASE c \in gone
    BY <2>1, UnusedWhole DEF Release, Forgotten, NothingRecorded
  <2>2. CASE c \notin gone
    <3>1. Same(c)
      BY <2>2 DEF Same, Release, Forgotten, NothingRecorded
    <3>. QED  BY <3>1, SameWhole DEF TilerInv
  <2>. QED  BY <2>1, <2>2
<1>. QED  BY <1>1, <1>2 DEF TilerInv

LEMMA DeviceStep ==
    ASSUME TilerInv, NEW d \in Devices,
           \/ CreateDevice(d)
           \/ DestroyDevice(d)
           \/ \E c \in CommandBuffers : AllocateCommandBuffer(c, d)
           \/ \E c \in CommandBuffers : FreeCommandBuffer(c)
    PROVE  TilerInv'
<1>0. TilerType
  BY DEF TilerInv
<1>1. CASE CreateDevice(d)
  <2>1. TilerType'
    BY <1>0, <1>1 DEF CreateDevice, TilerType, books
  <2>2. ASSUME NEW c \in CommandBuffers PROVE Same(c)
    <3>1. owner[c] # Null => owner[c] \in Devices /\ kind[owner[c]] # "absent"
      BY <1>0 DEF TilerInv, TilerType, Whole, Recordable
    <3>. QED  BY <1>0, <1>1, <3>1 DEF CreateDevice, Same, books, TilerType
  <2>. QED  BY <2>1, <2>2, SameWhole DEF TilerInv
<1>2. CASE DestroyDevice(d)
  <2>1. kind' \in [Devices -> {"absent", "plain", "tiler"}]
    BY <1>0, <1>2 DEF DestroyDevice, TilerType
  <2>2. \A c \in CommandBuffers : owner[c] # d /\ owner[c] # Null => kind'[owner[c]] = kind[owner[c]]
    BY <1>0, <1>2 DEF DestroyDevice, TilerType
  <2>. QED  BY <1>2, <2>1, <2>2, ReleaseStep DEF DestroyDevice
<1>3. ASSUME NEW c \in CommandBuffers, AllocateCommandBuffer(c, d) PROVE TilerInv'
  <2>1. TilerType'
    BY <1>0, <1>3 DEF AllocateCommandBuffer, TilerType
  <2>2. ASSUME NEW e \in CommandBuffers, e # c PROVE Whole(e)'
    <3>1. Same(e)
      BY <1>0, <1>3, <2>2 DEF AllocateCommandBuffer, Same, TilerType
    <3>. QED  BY <3>1, SameWhole DEF TilerInv
  <2>3. Whole(c)'
    <3>1. /\ owner'[c] = d /\ kind' = kind /\ kind[d] # "absent"
          /\ state'[c] = NoState /\ blockers'[c] = 0 /\ native'[c] = Closed /\ scopes'[c] = {}
      BY <1>0, <1>3 DEF AllocateCommandBuffer, TilerInv, TilerType, Whole, Recordable
    <3>2. Recordable(c)' /\ Follows(c)' /\ Budgeted(c)'
      <4>1. CASE d = Null
        BY <3>1, <4>1 DEF Recordable, Follows, Budgeted, Splittable, OnTiler, NoState, Closed
      <4>2. CASE d # Null
        BY <3>1, <4>2 DEF Recordable, Follows, Budgeted, Splittable, OnTiler, NoState, Closed
      <4>. QED  BY <4>1, <4>2
    <3>3. Counts(c)'
      BY <3>1, FS_EmptySet DEF Counts
    <3>. QED  BY <3>2, <3>3 DEF Whole
  <2>. QED  BY <2>1, <2>2, <2>3 DEF TilerInv
<1>4. ASSUME NEW c \in CommandBuffers, FreeCommandBuffer(c) PROVE TilerInv'
  BY <1>0, <1>4, ReleaseStep DEF FreeCommandBuffer, TilerType
<1>. QED  BY <1>1, <1>2, <1>3, <1>4


\* A step of the recording of one buffer.
Recording(c) ==
    /\ owner' = owner /\ primary' = primary /\ kind' = kind
    /\ \A e \in CommandBuffers \ {c} :
          /\ state'[e] = state[e] /\ blockers'[e] = blockers[e]
          /\ native'[e] = native[e] /\ scopes'[e] = scopes[e]

LEMMA RecordingStep ==
    ASSUME TilerInv, NEW c \in CommandBuffers, Recording(c), TilerType', Whole(c)' PROVE TilerInv'
<1>1. ASSUME NEW e \in CommandBuffers, e # c PROVE Whole(e)'
  <2>1. Same(e)
    BY <1>1 DEF Recording, Same
  <2>. QED  BY <2>1, SameWhole DEF TilerInv
<1>. QED  BY <1>1 DEF TilerInv

LEMMA BeginBufferStep ==
    ASSUME TilerInv, NEW c \in CommandBuffers, BeginCommandBuffer(c) PROVE TilerInv'
<1>0. TilerType /\ Whole(c)
  BY DEF TilerInv
<1>1. Recording(c)
  BY <1>0 DEF BeginCommandBuffer, Recording, books, NothingRecorded, TilerType
<1>2. /\ owner[c] # Null /\ native'[c] = Closed /\ scopes'[c] = {} /\ blockers'[c] = 0
      /\ state'[c].rendering = FALSE /\ state'[c].continuation = FALSE
      /\ state'[c] \in Rendering
  <2>1. state[c] \in Rendering /\ NoWork \in Work
    BY <1>0, TilerTypes DEF TilerType
  <2>2. state'[c] = [state[c] EXCEPT !.rendering = FALSE, !.continuation = FALSE,
                                     !.hasWork = FALSE, !.budget = NoWork]
    BY <1>0 DEF BeginCommandBuffer, TilerType
  <2>3. state'[c] \in Rendering /\ state'[c].rendering = FALSE /\ state'[c].continuation = FALSE
    BY <2>1, <2>2 DEF Rendering
  <2>. QED  BY <1>0, <2>3 DEF BeginCommandBuffer, NothingRecorded, TilerType
<1>3. TilerType'
  <2>1. /\ state' = [state EXCEPT ![c] = state'[c]]
        /\ blockers' = [blockers EXCEPT ![c] = 0]
        /\ native' = [e \in CommandBuffers |-> IF e = c THEN Closed ELSE native[e]]
        /\ scopes' = [e \in CommandBuffers |-> IF e = c THEN {} ELSE scopes[e]]
    BY <1>0 DEF BeginCommandBuffer, NothingRecorded, TilerType
  <2>2. state' \in [CommandBuffers -> Rendering]
    BY <1>0, <1>2, <2>1 DEF TilerType
  <2>. QED  BY <1>0, <1>1, <2>1, <2>2, TilerTypes DEF TilerType, Recording
<1>4. Recordable(c)'
  BY <1>0, <1>1, <1>2 DEF Whole, Recordable, Recording
<1>5. Follows(c)' /\ Budgeted(c)'
  BY <1>2 DEF Follows, Budgeted, Splittable, Closed
<1>6. Counts(c)'
  BY <1>2, FS_EmptySet DEF Counts
<1>. QED  BY <1>1, <1>3, <1>4, <1>5, <1>6, RecordingStep DEF Whole

\* A pass begins or ends: no scope of a pass is open, nothing is recorded yet.
LEMMA PassStep ==
    ASSUME TilerInv, NEW c \in CommandBuffers, Recording(c), owner[c] # Null,
           NEW n \in Native, NEW s \in Rendering,
           native' = [native EXCEPT ![c] = n], state' = [state EXCEPT ![c] = s],
           UNCHANGED <<blockers, scopes>>,
           \A x \in scopes[c] : ~x.inside,
           n.calls = 0, n.part = 0, n.open /\ n.splittable => n.work = s.budget /\ ~s.hasWork,
           n.open /\ n.splittable <=> s.rendering /\ s.continuation,
           s.continuation => OnTiler(c), n.open /\ n.splittable => c \in primary
    PROVE  TilerInv'
<1>0. TilerType /\ Whole(c)
  BY DEF TilerInv
<1>1. TilerType'
  BY <1>0 DEF TilerType, Recording
<1>2. native'[c] = n /\ state'[c] = s
  BY <1>0 DEF TilerType
<1>3. Recordable(c)'
  BY <1>0 DEF Whole, Recordable, Recording
<1>4. Follows(c)'
  BY <1>2 DEF Follows, Splittable, OnTiler, Recording
<1>5. Counts(c)'
  BY <1>0 DEF Whole, Counts, OnTiler, Recording
<1>6. Budgeted(c)'
  BY <1>2 DEF Budgeted, Splittable
<1>. QED  BY <1>1, <1>3, <1>4, <1>5, <1>6, RecordingStep DEF Whole

\* The fields of a pass that begins, and of what the layer keeps about it.
LEMMA PassFields ==
    /\ Closed.open = FALSE /\ Closed.calls = 0 /\ Closed.part = 0
    /\ \A k \in BOOLEAN :
          /\ Opened(k).open = TRUE /\ Opened(k).splittable = k /\ Opened(k).calls = 0
          /\ Opened(k).part = 0 /\ Opened(k).work = NoWork /\ Opened(k).blocked = FALSE
    /\ \A l, r, k \in BOOLEAN :
          /\ Begun(l, r, k).rendering = r /\ Begun(l, r, k).continuation = k
          /\ Begun(l, r, k).budget = NoWork /\ Begun(l, r, k).hasWork = FALSE
BY DEF Closed, Opened, Begun, NoState

\* Only a device that has the guard has a pass to be split.
LEMMA GuardOfBuffer ==
    ASSUME TilerInv, NEW c \in CommandBuffers, OnTiler(c) PROVE HasTilerGuard
BY DEF TilerInv, TilerType, OnTiler, HasTilerGuard

LEMMA BeginStep ==
    ASSUME TilerInv, NEW c \in CommandBuffers, BeginRendering(c) \/ BeginRenderPass(c) PROVE TilerInv'
<1>0. TilerType /\ Whole(c) /\ owner[c] # Null /\ ~native[c].open /\ \A x \in scopes[c] : ~x.inside
  BY DEF TilerInv, BeginRendering, BeginRenderPass, Whole, Counts
<1>1. CASE BeginRendering(c)
  <2>1. PICK stored \in BOOLEAN, continuation \in BOOLEAN :
          /\ continuation => Eligible(c, stored)
          /\ native' = [native EXCEPT ![c] = Opened(stored /\ continuation)]
          /\ state' = [state EXCEPT ![c] = Begun(FALSE, TRUE, continuation)]
    BY <1>1 DEF BeginRendering
  <2>2. Recording(c) /\ UNCHANGED <<blockers, scopes>>
    BY <1>0, <1>1, <2>1 DEF BeginRendering, Recording, books, TilerType
  <2>3. continuation => OnTiler(c) /\ stored /\ c \in primary
    BY <1>0, <2>1 DEF Eligible, OnTiler
  <2>. DEFINE n == Opened(stored /\ continuation)
              s == Begun(FALSE, TRUE, continuation)
  <2>4. /\ n \in Native /\ n.calls = 0 /\ n.part = 0 /\ n.open /\ n.work = NoWork
        /\ n.splittable <=> continuation
    BY <2>3, TilerTypes, PassFields
  <2>5. /\ s \in Rendering /\ s.rendering /\ s.budget = NoWork /\ ~s.hasWork
        /\ s.continuation <=> continuation
    BY TilerTypes, PassFields
  <2>6. native' = [native EXCEPT ![c] = n] /\ state' = [state EXCEPT ![c] = s]
    BY <2>1
  <2>. HIDE DEF n, s
  <2>. QED  BY <1>0, <2>2, <2>3, <2>4, <2>5, <2>6, PassStep
<1>2. CASE BeginRenderPass(c)
  <2>1. PICK known_ \in {kind[owner[c]] = "tiler", FALSE} :
          /\ native' = [native EXCEPT ![c] = Opened(known_ /\ c \in primary)]
          /\ BeginLegacyRendering(c, known_)
    BY <1>2 DEF BeginRenderPass
  <2>2. UNCHANGED <<kind, owner, primary, blockers, scopes>>
    BY <1>2 DEF BeginRenderPass, books
  <2>3. known_ \in BOOLEAN /\ (known_ => OnTiler(c))
    BY <1>0, <2>1 DEF OnTiler
  <2>4. CASE HasTilerGuard
    <3>1. state' = [state EXCEPT ![c] = Begun(TRUE, known_, known_ /\ c \in primary)]
      BY <2>1, <2>4 DEF BeginLegacyRendering
    <3>2. Recording(c)
      BY <1>0, <2>1, <2>2, <3>1 DEF Recording, TilerType
    <3>. DEFINE k == known_ /\ c \in primary
                n == Opened(k)
                s == Begun(TRUE, known_, k)
    <3>3. /\ n \in Native /\ n.calls = 0 /\ n.part = 0 /\ n.open /\ n.work = NoWork
          /\ n.splittable <=> known_ /\ c \in primary
      BY <2>3, TilerTypes, PassFields
    <3>4. /\ s \in Rendering /\ s.budget = NoWork /\ ~s.hasWork
          /\ s.rendering <=> known_
          /\ s.continuation <=> known_ /\ c \in primary
      BY <2>3, TilerTypes, PassFields
    <3>5. native' = [native EXCEPT ![c] = n] /\ state' = [state EXCEPT ![c] = s]
      BY <2>1, <3>1
    <3>. HIDE DEF k, n, s
    <3>6. /\ n.open /\ n.splittable => n.work = s.budget /\ ~s.hasWork
          /\ n.open /\ n.splittable <=> s.rendering /\ s.continuation
          /\ s.continuation => OnTiler(c)
          /\ n.open /\ n.splittable => c \in primary
      BY <2>3, <3>3, <3>4
    <3>. QED  BY <1>0, <2>2, <3>2, <3>3, <3>4, <3>5, <3>6, PassStep
  <2>5. CASE ~HasTilerGuard
    <3>1. ~known_ /\ ~state[c].continuation
      BY <1>0, <2>3, <2>5, GuardOfBuffer DEF Whole, Follows
    <3>2. state' = [state EXCEPT ![c] = state[c]] /\ state[c] \in Rendering
      BY <1>0, <2>1, <2>5 DEF BeginLegacyRendering, TilerType
    <3>3. Recording(c)
      BY <1>0, <2>1, <2>2, <3>2 DEF Recording, TilerType
    <3>. QED  BY <1>0, <2>1, <2>2, <3>1, <3>2, <3>3, TilerTypes, PassFields, PassStep
  <2>. QED  BY <2>4, <2>5
<1>. QED  BY <1>1, <1>2

LEMMA EndStep ==
    ASSUME TilerInv, NEW c \in CommandBuffers, Nested(c),
           EndRendering(c) \/ EndRenderPass(c) \/ NextSubpass(c)
    PROVE  TilerInv'
<1>0. TilerType /\ Whole(c) /\ native[c].open /\ \A x \in scopes[c] : ~x.inside
  BY DEF TilerInv, EndRendering, EndRenderPass, NextSubpass, Nested
<1>1. owner[c] # Null
  BY <1>0, PassFields DEF Whole, Recordable
<1>2. /\ UNCHANGED <<kind, owner, primary, blockers, scopes>>
      /\ native' = [native EXCEPT ![c] = Closed] \/ native' = [native EXCEPT ![c] = Opened(FALSE)]
  BY DEF EndRendering, EndRenderPass, NextSubpass, books
<1>3. PICK n \in {Closed, Opened(FALSE)} : native' = [native EXCEPT ![c] = n]
  BY <1>2
<1>4. n \in Native /\ n.calls = 0 /\ n.part = 0 /\ ~(n.open /\ n.splittable)
  BY TilerTypes, PassFields
<1>5. state[c] \in Rendering
  BY <1>0 DEF TilerType
<1>6. CASE EndRendering(c)
  <2>1. state' = [state EXCEPT ![c] = [state[c] EXCEPT !.rendering = FALSE]]
    BY <1>0, <1>6 DEF EndRendering, TilerType
  <2>2. [state[c] EXCEPT !.rendering = FALSE] \in Rendering
    BY <1>5 DEF Rendering
  <2>3. /\ [state[c] EXCEPT !.rendering = FALSE].rendering = FALSE
        /\ [state[c] EXCEPT !.rendering = FALSE].continuation = state[c].continuation
    BY <1>5 DEF Rendering
  <2>4. Recording(c)
    BY <1>0, <1>2, <1>3, <2>1 DEF Recording, TilerType
  <2>. QED  BY <1>0, <1>1, <1>2, <1>3, <1>4, <2>1, <2>2, <2>3, <2>4, PassStep DEF Whole, Follows
<1>7. CASE EndLegacyRendering(c)
  <2>1. CASE HasTilerGuard
    <3>. DEFINE s == [state[c] EXCEPT !.rendering = FALSE, !.continuation = FALSE]
    <3>1. state' = [state EXCEPT ![c] = s]
      BY <1>0, <1>7, <2>1 DEF EndLegacyRendering, TilerType
    <3>2. s \in Rendering /\ s.rendering = FALSE /\ s.continuation = FALSE
      BY <1>5 DEF Rendering
    <3>. HIDE DEF s
    <3>3. Recording(c)
      BY <1>0, <1>2, <1>3, <3>1 DEF Recording, TilerType
    <3>. QED  BY <1>0, <1>1, <1>2, <1>3, <1>4, <3>1, <3>2, <3>3, PassStep
  <2>2. CASE ~HasTilerGuard
    <3>1. ~state[c].continuation
      BY <1>0, <2>2, GuardOfBuffer DEF Whole, Follows
    <3>2. state' = [state EXCEPT ![c] = state[c]]
      BY <1>0, <1>7, <2>2 DEF EndLegacyRendering, TilerType
    <3>3. Recording(c)
      BY <1>0, <1>2, <1>3, <3>2 DEF Recording, TilerType
    <3>. QED  BY <1>0, <1>1, <1>2, <1>3, <1>4, <1>5, <3>1, <3>2, <3>3, PassStep
  <2>. QED  BY <2>1, <2>2
<1>. QED  BY <1>6, <1>7 DEF EndRenderPass, NextSubpass


\* A draw that is not split away keeps the batch within the limits, whether it is
\* the first of its batch or fits with those before it.
LEMMA DrawFits ==
    ASSUME NEW s \in Rendering, NEW v \in Nat, NEW d \in Nat, v + d > 0,
           s.hasWork, ~NeedsSplit(s, v, d)
    PROVE  WithinLimits(Added(s.budget, v, d))
<1>1. /\ s.budget \in Work
      /\ s.budget.vertices \in Nat /\ s.budget.draws \in Nat /\ s.budget.commands \in Nat
  BY DEF Rendering, Work
<1>2. /\ s.budget.vertices + v <= VertexLimit /\ s.budget.draws + d <= DrawLimit
      /\ s.budget.commands + 1 <= CommandLimit /\ s.budget.commands <= CommandLimit
  BY <1>1, LimitsAssumption DEF NeedsSplit
<1>3. \A x \in Nat : Capped(x) <= x
  BY LimitsAssumption DEF Capped
<1>4. /\ Capped(s.budget.vertices + v) <= VertexLimit
      /\ Capped(s.budget.draws + d) <= DrawLimit
      /\ Capped(s.budget.commands + (IF d > 0 THEN 1 ELSE 0)) <= CommandLimit
  BY <1>1, <1>2, LimitsAssumption DEF Capped
<1>. QED  BY <1>4 DEF WithinLimits, Added

\* What a draw leaves of the native pass n: its work is w, and x says that one of
\* its draws was recorded with a scope open.
Drawn(n, w, x) == [n EXCEPT !.work = w, !.calls = IF @ = 2 THEN 2 ELSE @ + 1, !.blocked = x]

LEMMA DrawnPass ==
    ASSUME NEW n \in Native, NEW w \in Work, NEW x \in BOOLEAN
    PROVE  LET m == Drawn(n, w, x)
           IN  /\ m \in Native /\ m.part = n.part /\ m.work = w
               /\ (m.open <=> n.open) /\ (m.splittable <=> n.splittable) /\ (m.blocked <=> x)
               /\ m.calls = IF n.calls = 2 THEN 2 ELSE n.calls + 1
<1>. DEFINE k == IF n.calls = 2 THEN 2 ELSE n.calls + 1
            m == Drawn(n, w, x)
<1>1. k \in Nat
  BY DEF Native
<1>2. m = [n EXCEPT !.work = w, !.calls = k, !.blocked = x]
  BY DEF Drawn
<1>3. k = IF n.calls = 2 THEN 2 ELSE n.calls + 1
  OBVIOUS
<1>. HIDE DEF k, m
<1>4. m = [open |-> n.open, splittable |-> n.splittable, part |-> n.part,
           calls |-> k, blocked |-> x, work |-> w]
  BY <1>2 DEF Native
<1>5. n.open \in BOOLEAN /\ n.splittable \in BOOLEAN /\ n.part \in {0, 1}
  BY DEF Native
<1>6. m \in Native
  BY <1>1, <1>4, <1>5 DEF Native
<1>7. m.part = n.part /\ m.work = w /\ m.calls = k
  BY <1>1, <1>4
<1>8. (m.open <=> n.open) /\ (m.splittable <=> n.splittable) /\ (m.blocked <=> x)
  BY <1>4, <1>5
<1>. QED  BY <1>3, <1>6, <1>7, <1>8 DEF m

\* A draw that is split away ends a batch in which no scope is open.
LEMMA SplitStep ==
    ASSUME TilerInv, NEW c \in CommandBuffers, NEW v \in Nat, NEW d \in Nat, v + d > 0,
           Draw(c, v, d), Splittable(c)
    PROVE  TilerInv'
<1>0. TilerType /\ Whole(c) /\ OnTiler(c) /\ HasTilerGuard /\ Tracked(c) /\ owner[c] # Null
  BY GuardOfBuffer DEF TilerInv, Whole, Follows, Tracked, OnTiler
<1>1. /\ UNCHANGED <<kind, owner, primary, blockers, scopes>>
      /\ state[c] \in Rendering /\ native[c] \in Native /\ state[c].budget = native[c].work
      /\ native[c].work \in Work
  BY <1>0 DEF Draw, books, TilerType, Whole, Budgeted, Native
<1>. DEFINE before == Continued(c, v, d)
            base == IF Splits(c, v, d) THEN NoWork ELSE state[c].budget
<1>2. /\ state'[c] = [state[c] EXCEPT !.hasWork = TRUE, !.budget = Added(base, v, d)]
      /\ state' = [state EXCEPT ![c] = state'[c]]
  BY <1>0 DEF Draw, BeforeDraw, TilerType
<1>3. /\ native'[c] = [before EXCEPT !.work = Added(@, v, d), !.calls = IF @ = 2 THEN 2 ELSE @ + 1,
                                     !.blocked = @ \/ scopes[c] # {}]
      /\ native' = [native EXCEPT ![c] = native'[c]]
  BY <1>0 DEF Draw, TilerType
<1>4. /\ before \in Native /\ before.open /\ before.splittable /\ before.work = base
      /\ base \in Work
      /\ Splits(c, v, d) => scopes[c] = {} /\ before.calls = 0
      /\ ~Splits(c, v, d) => before = native[c]
  <2>1. CASE Splits(c, v, d)
    <3>1. scopes[c] = {}
      BY <1>0, <2>1, FS_EmptySet DEF Splits, Whole, Counts
    <3>2. before = [Opened(native[c].splittable) EXCEPT !.part = 1 - native[c].part]
      BY <1>0, <2>1 DEF Continued
    <3>3. /\ Opened(native[c].splittable) \in Native /\ native[c].splittable
          /\ 1 - native[c].part \in {0, 1}
      <4>1. native[c].splittable \in BOOLEAN /\ native[c].part \in {0, 1}
        BY <1>1 DEF Native
      <4>2. 1 - native[c].part \in {0, 1}
        BY <4>1
      <4>3. native[c].splittable
        BY DEF Splittable
      <4>. QED  BY <4>1, <4>2, <4>3, TilerTypes
    <3>4. /\ Opened(native[c].splittable).open /\ Opened(native[c].splittable).splittable
          /\ Opened(native[c].splittable).calls = 0 /\ Opened(native[c].splittable).work = NoWork
      BY <3>3, PassFields
    <3>. QED  BY <2>1, <3>1, <3>2, <3>3, <3>4, TilerTypes DEF Native
  <2>2. CASE ~Splits(c, v, d)
    BY <1>1, <2>2 DEF Continued, Splittable
  <2>. QED  BY <2>1, <2>2
<1>. HIDE DEF before, base
<1>5. /\ Added(base, v, d) \in Work
      /\ state'[c] \in Rendering /\ state'[c].hasWork /\ state'[c].budget = Added(base, v, d)
      /\ state'[c].rendering = state[c].rendering
      /\ state'[c].continuation = state[c].continuation
  <2>1. Added(base, v, d) \in Work
    BY <1>4, AddedWork
  <2>. QED  BY <1>1, <1>2, <2>1 DEF Rendering
<1>6. /\ native'[c] \in Native /\ native'[c].open /\ native'[c].splittable
      /\ native'[c].work = Added(base, v, d)
      /\ native'[c].part = before.part
      /\ native'[c].calls = IF before.calls = 2 THEN 2 ELSE before.calls + 1
      /\ native'[c].blocked <=> before.blocked \/ scopes[c] # {}
  <2>. DEFINE x == before.blocked \/ scopes[c] # {}
  <2>1. x \in BOOLEAN
    OBVIOUS
  <2>2. native'[c] = Drawn(before, Added(base, v, d), x)
    BY <1>3, <1>4 DEF Drawn
  <2>3. x <=> before.blocked \/ scopes[c] # {}
    OBVIOUS
  <2>. HIDE DEF x
  <2>. QED  BY <1>4, <1>5, <2>1, <2>2, <2>3, DrawnPass
<1>7. Recording(c)
  BY <1>0, <1>1, <1>2, <1>3 DEF Recording, TilerType
<1>8. TilerType'
  BY <1>0, <1>1, <1>2, <1>3, <1>5, <1>6 DEF TilerType
<1>9. Recordable(c)'
  BY <1>0, <1>1 DEF Whole, Recordable
<1>10. Follows(c)'
  BY <1>0, <1>1, <1>5, <1>6 DEF Whole, Follows, Splittable, OnTiler
<1>11. Counts(c)'
  BY <1>0, <1>1, <1>4, <1>6 DEF Whole, Counts, OnTiler
<1>12. Budgeted(c)'
  <2>1. before.calls \in Nat /\ native'[c].calls > 0
    BY <1>4, <1>6 DEF Native
  <2>2. ASSUME native'[c].calls > 1, ~native'[c].blocked PROVE WithinLimits(Added(base, v, d))
    <3>1. ~Splits(c, v, d) /\ before = native[c] /\ native[c].calls > 0 /\ scopes[c] = {}
      <4>1. scopes[c] = {}
        BY <1>6, <2>2
      <4>2. before.calls # 0
        BY <1>6, <2>1, <2>2
      <4>. QED  BY <1>4, <2>1, <4>1, <4>2
    <3>2. blockers[c] = 0 /\ state[c].hasWork
      BY <1>0, <3>1, FS_EmptySet DEF Whole, Counts, Budgeted
    <3>3. ~NeedsSplit(state[c], v, d)
      BY <3>1, <3>2 DEF Splits
    <3>4. base = state[c].budget
      BY <3>1 DEF base
    <3>. QED  BY <1>1, <3>2, <3>3, <3>4, DrawFits
  <2>. QED  BY <1>5, <1>6, <2>1, <2>2 DEF Budgeted, WithinLimits
<1>. QED  BY <1>7, <1>8, <1>9, <1>10, <1>11, <1>12, RecordingStep DEF Whole

\* The layer does not follow the other passes.
LEMMA PlainDrawStep ==
    ASSUME TilerInv, NEW c \in CommandBuffers, NEW v \in Nat, NEW d \in Nat,
           Draw(c, v, d), ~Splittable(c)
    PROVE  TilerInv'
<1>0. TilerType /\ Whole(c) /\ ~Tracked(c) /\ native[c].open /\ ~native[c].splittable
  BY DEF TilerInv, Whole, Follows, Tracked, Splittable, Draw
<1>1. /\ UNCHANGED <<kind, owner, primary, blockers, scopes, state>>
      /\ native' = [native EXCEPT ![c] =
            [native[c] EXCEPT !.work = Added(@, v, d), !.calls = IF @ = 2 THEN 2 ELSE @ + 1,
                              !.blocked = @ \/ scopes[c] # {}]]
  BY <1>0 DEF Draw, BeforeDraw, Continued, books
<1>2. native[c] \in Native /\ Added(native[c].work, v, d) \in Work
  BY <1>0, AddedWork DEF TilerType, Native
<1>3. /\ native'[c] \in Native /\ native'[c].part = native[c].part
      /\ native'[c].open <=> native[c].open
      /\ native'[c].splittable <=> native[c].splittable
  <2>. DEFINE x == native[c].blocked \/ scopes[c] # {}
  <2>1. x \in BOOLEAN
    OBVIOUS
  <2>2. native'[c] = Drawn(native[c], Added(native[c].work, v, d), x)
    BY <1>0, <1>1 DEF Drawn, TilerType
  <2>. HIDE DEF x
  <2>. QED  BY <1>2, <2>1, <2>2, DrawnPass
<1>4. TilerType'
  BY <1>0, <1>1, <1>3 DEF TilerType
<1>5. Recording(c)
  BY <1>0, <1>1 DEF Recording, TilerType
<1>6. Recordable(c)' /\ Follows(c)' /\ Counts(c)' /\ Budgeted(c)'
  <2>1. Recordable(c)'
    BY <1>0, <1>1, PassFields DEF Whole, Recordable
  <2>2. Follows(c)' /\ Budgeted(c)'
    BY <1>0, <1>1, <1>3 DEF Whole, Follows, Budgeted, Splittable, OnTiler
  <2>3. Counts(c)'
    BY <1>0, <1>1, <1>3 DEF Whole, Counts, OnTiler
  <2>. QED  BY <2>1, <2>2, <2>3
<1>. QED  BY <1>4, <1>5, <1>6, RecordingStep DEF Whole


\* The scopes of a buffer change: its blockers, if it is of a tiler device, follow.
LEMMA ScopesStep ==
    ASSUME TilerInv, NEW c \in CommandBuffers, owner[c] # Null,
           NEW S \in SUBSET Scope, IsFiniteSet(S), scopes' = [scopes EXCEPT ![c] = S],
           NEW by \in Nat, BlockTilerSplit(c, by), OnTiler(c) => by = Cardinality(S),
           \A x \in S : x.inside => native[c].open /\ x.part = native[c].part,
           UNCHANGED <<kind, books, state, native>>
    PROVE  TilerInv'
<1>0. TilerType /\ Whole(c)
  BY DEF TilerInv
<1>1. blockers' = [blockers EXCEPT ![c] = by] \/ blockers' = blockers
  BY DEF BlockTilerSplit
<1>2. TilerType'
  BY <1>0, <1>1 DEF TilerType, books
<1>3. Recording(c)
  BY <1>0, <1>1 DEF Recording, TilerType, books
<1>4. Recordable(c)' /\ Follows(c)' /\ Budgeted(c)'
  BY <1>0 DEF Whole, Recordable, Follows, Budgeted, Splittable, OnTiler, WithinLimits, books
<1>5. Counts(c)'
  <2>1. scopes'[c] = S
    BY <1>0 DEF TilerType
  <2>2. OnTiler(c) => blockers'[c] = by
    BY <1>0, GuardOfBuffer DEF BlockTilerSplit, TilerType
  <2>. QED  BY <2>1, <2>2 DEF Counts, OnTiler, books
<1>. QED  BY <1>2, <1>3, <1>4, <1>5, RecordingStep DEF Whole

LEMMA ScopeStep ==
    ASSUME TilerInv, NEW c \in CommandBuffers, BeginScope(c) \/ EndScope(c) PROVE TilerInv'
<1>0. /\ TilerType /\ Whole(c) /\ blockers[c] \in Nat /\ native[c] \in Native
      /\ scopes[c] \in SUBSET Scope /\ IsFiniteSet(scopes[c])
      /\ Cardinality(scopes[c]) \in Nat
      /\ \A x \in scopes[c] : x.inside => native[c].open /\ x.part = native[c].part
      /\ OnTiler(c) => blockers[c] = Cardinality(scopes[c])
  BY FS_CardinalityType DEF TilerInv, TilerType, Whole, Counts
<1>1. CASE BeginScope(c)
  <2>1. PICK n \in 1..MaxScopes :
          /\ {s.id : s \in scopes[c]} \cap 1..n = 1..(n - 1)
          /\ scopes' = [scopes EXCEPT ![c] = @ \cup {[id |-> n, part |-> native[c].part,
                                                      inside |-> native[c].open]}]
    BY <1>1 DEF BeginScope
  <2>. DEFINE x == [id |-> n, part |-> native[c].part, inside |-> native[c].open]
              S == scopes[c] \cup {x}
  <2>2. x \in Scope /\ x.id = n /\ x.part = native[c].part /\ (x.inside => native[c].open)
    BY <1>0 DEF Native, Scope
  <2>3. x \notin scopes[c]
    <3>1. n \in 1..n /\ n \notin 1..(n - 1)
      BY LimitsAssumption
    <3>. QED  BY <2>1, <2>2, <3>1
  <2>4. scopes' = [scopes EXCEPT ![c] = S]
    BY <2>1
  <2>. HIDE DEF x
  <2>5. IsFiniteSet(S) /\ Cardinality(S) = Cardinality(scopes[c]) + 1
    BY <1>0, <2>3, FS_AddElement
  <2>6. /\ S \in SUBSET Scope
        /\ \A y \in S : y.inside => native[c].open /\ y.part = native[c].part
    BY <1>0, <2>2
  <2>. HIDE DEF S
  <2>7. /\ owner[c] # Null /\ BlockTilerSplit(c, blockers[c] + 1) /\ blockers[c] + 1 \in Nat
        /\ OnTiler(c) => blockers[c] + 1 = Cardinality(S)
        /\ UNCHANGED <<kind, books, state, native>>
    BY <1>0, <1>1, <2>5 DEF BeginScope
  <2>. QED  BY <2>4, <2>5, <2>6, <2>7, ScopesStep
<1>2. CASE EndScope(c)
  <2>1. PICK x \in scopes[c] : scopes' = [scopes EXCEPT ![c] = @ \ {x}]
    BY <1>2 DEF EndScope
  <2>. DEFINE S == scopes[c] \ {x}
              by == IF blockers[c] = 0 THEN 0 ELSE blockers[c] - 1
  <2>2. IsFiniteSet(S) /\ Cardinality(S) = Cardinality(scopes[c]) - 1 /\ Cardinality(scopes[c]) # 0
    BY <1>0, FS_RemoveElement, FS_EmptySet
  <2>3. by \in Nat /\ (OnTiler(c) => by = Cardinality(S))
    BY <1>0, <2>2
  <2>4. BlockTilerSplit(c, by) /\ UNCHANGED <<kind, books, state, native>>
    BY <1>2 DEF EndScope
  <2>5. scopes' = [scopes EXCEPT ![c] = S] /\ S \in SUBSET Scope
    BY <1>0, <2>1
  <2>6. owner[c] # Null
    BY <1>0, <2>1 DEF Whole, Recordable
  <2>7. \A y \in S : y.inside => native[c].open /\ y.part = native[c].part
    BY <1>0
  <2>. HIDE DEF S, by
  <2>. QED  BY <2>2, <2>3, <2>4, <2>5, <2>6, <2>7, ScopesStep
<1>. QED  BY <1>1, <1>2

LEMMA TilerStep == TilerInv /\ [Next]_vars => TilerInv'
<1>. SUFFICES ASSUME TilerInv, [Next]_vars PROVE TilerInv'
  OBVIOUS
<1>1. ASSUME NEW c \in CommandBuffers, NEW v \in Nat, NEW d \in Nat, v + d > 0, Draw(c, v, d)
      PROVE  TilerInv'
  BY <1>1, SplitStep, PlainDrawStep
<1>2. ASSUME NEW c \in CommandBuffers, \E n \in 1..(VertexLimit + 1) : Draw(c, n, 0)
      PROVE  TilerInv'
  <2>1. \A n \in 1..(VertexLimit + 1) : n \in Nat /\ n + 0 > 0
    BY LimitsAssumption
  <2>. QED  BY <1>1, <1>2, <2>1
<1>3. ASSUME NEW c \in CommandBuffers, \E n \in 1..(DrawLimit + 1) : Draw(c, 0, n)
      PROVE  TilerInv'
  <2>1. \A n \in 1..(DrawLimit + 1) : n \in Nat /\ 0 + n > 0
    BY LimitsAssumption
  <2>. QED  BY <1>1, <1>3, <2>1
<1>4. ASSUME NEW c \in CommandBuffers, FreeCommandBuffer(c) PROVE TilerInv'
  <2>1. owner[c] \in Devices
    BY <1>4 DEF FreeCommandBuffer, TilerInv, TilerType
  <2>. QED  BY <1>4, <2>1, DeviceStep
<1>5. CASE UNCHANGED vars
  <2>1. TilerType' /\ \A c \in CommandBuffers : Same(c)
    BY <1>5 DEF TilerInv, TilerType, Same, vars
  <2>. QED  BY <2>1, SameWhole DEF TilerInv
<1>. QED  BY <1>2, <1>3, <1>4, <1>5, DeviceStep, BeginBufferStep, BeginStep, EndStep, ScopeStep
          DEF Next

\* On a tiler device the native batches of a pass that may be split stay within the
\* limits, but for one draw that exceeds them alone and the draws of a scope, and
\* no scope of a pass is cut in two (before_draw, block_tiler_split), whatever the
\* limits, with as many devices, buffers and scopes as there may be.
THEOREM TilerKeepsBounds == Spec => []TilerSound
<1>1. TilerInv => TilerSound
  BY DEF TilerInv, Whole, Budgeted, Counts, Follows, Splittable, TilerSound, BatchBounded, ScopesWhole
<1>. QED  BY <1>1, TilerInit, TilerStep, PTL DEF Spec


-----------------------------------------------------------------------------
(* PushDescriptors: the types and the invariant.                            *)

Slot == [layout : Seq(Layouts), set : Push!Handles \cup {Null}]
Command == [error : BOOLEAN, slots : [Push!SetNumbers -> Slot], pools : Nat, current : Nat,
            allocated : Nat, batch : [layout : Layouts \cup {Null}, sets : Seq(Push!Handles)]]
Contents == [Elements -> Values \cup {Undefined}]

PushType ==
    /\ setLayout \in [SetHandles -> Layouts \cup {Null}]
    /\ pipeline \in [PipeHandles -> Seq(Layouts)]
    /\ pushState \in [Buffers -> Command]
    /\ content \in [Buffers -> [Push!Handles -> Contents \cup {Null}]]
    /\ bound \in [Buffers -> [Push!SetNumbers -> Push!Handles \cup {Null}]]
    /\ meant \in [Buffers -> [Push!SetNumbers ->
                     [layout : Seq(Layouts), values : Contents \cup {Null}]]]
    /\ drawn \in [Buffers -> SUBSET [set : Push!Handles \cup {Null}, sees : Contents \cup {Null}]]

\* The pools have been emptied up to a frontier.
Behind(s, h) == h[1] < s.current \/ (h[1] = s.current /\ h[2] <= s.allocated)
Waiting(s) == {s.batch.sets[i] : i \in DOMAIN s.batch.sets}

Once(q) == \A i, j \in DOMAIN q : i # j => q[i] # q[j]

\* The sets that wait are behind the frontier, each of them once.
Frontier(s) ==
    /\ s.current >= 1 /\ (s.current = 1 \/ s.current <= s.pools)
    /\ s.pools <= MaxPools /\ s.allocated <= PoolSize
    /\ \A h \in Waiting(s) : Behind(s, h) /\ h[1] <= s.pools
    /\ Once(s.batch.sets)

\* A set that is used holds what was pushed and does not wait.
Holds(c, h, values) ==
    /\ h \in Push!Handles \ Waiting(pushState[c])
    /\ values # Null /\ content[c][h] = values

Mirrors(c) ==
    \A n \in Push!SetNumbers :
       /\ pushState[c].slots[n].layout = meant[c][n].layout
       /\ pushState[c].slots[n].set = bound[c][n]
       /\ IF bound[c][n] = Null THEN meant[c][n].values = Null
          ELSE Holds(c, bound[c][n], meant[c][n].values)

Kept(c) ==
    /\ Frontier(pushState[c])
    /\ \A h \in Push!Handles : content[c][h] # Null => Behind(pushState[c], h)
    /\ \A h \in Waiting(pushState[c]) : content[c][h] # Null
    /\ Mirrors(c)
    /\ \A d \in drawn[c] : Holds(c, d.set, d.sees)

PushInv == PushType /\ \A c \in Buffers : Kept(c)

LEMMA Numbers == Push!SetNumbers \subseteq Nat \ {0}
BY PushAssumption DEF Push!SetNumbers

LEMMA HandleFields ==
    \A h \in Push!Handles : h[1] \in 1..MaxPools /\ h[2] \in 1..PoolSize /\ h = <<h[1], h[2]>>
BY DEF Push!Handles

LEMMA FreshCommand ==
    ASSUME NEW p \in Nat, p <= MaxPools
    PROVE  LET s == [Push!Fresh EXCEPT !.pools = p] IN s \in Command /\ Frontier(s) /\ Waiting(s) = {}
<1>1. Push!NoSlot \in Slot /\ Push!NoBatch \in [layout : Layouts \cup {Null}, sets : Seq(Push!Handles)]
  BY DEF Push!NoSlot, Push!NoBatch, Slot
<1>2. DOMAIN Push!NoBatch.sets = {} BY DEF Push!NoBatch
<1> DEFINE s == [Push!Fresh EXCEPT !.pools = p]
<1>3. s \in Command
  BY <1>1, PushAssumption DEF Push!Fresh, Command
<1>4. s.batch.sets = <<>> /\ s.pools = p /\ s.current = 1 /\ s.allocated = 0
  BY DEF Push!Fresh, Push!NoBatch
<1>5. DOMAIN s.batch.sets = {} BY <1>4
<1> HIDE DEF s
<1>6. Waiting(s) = {} BY <1>5 DEF Waiting
<1> QED BY <1>3, <1>4, <1>5, <1>6, PushAssumption DEF Frontier, Once, s

\* Taking a set from the batch, from a pool or not at all.
Handout(s, r) ==
    /\ r.s \in Command /\ Frontier(r.s)
    /\ r.s.slots = s.slots /\ (r.s.error <=> s.error)
    /\ \A h \in Push!Handles : Behind(s, h) => Behind(r.s, h)
    /\ \A h \in Waiting(r.s) \ Waiting(s) : ~Behind(s, h)
    /\ r.set = Null => Waiting(r.s) = {}
    /\ r.set # Null =>
          /\ r.set \in Push!Handles \ Waiting(r.s) /\ Behind(r.s, r.set)
          /\ r.set \in Waiting(s) \/ ~Behind(s, r.set)

LEMMA FromBatch ==
    ASSUME NEW s \in Command, Frontier(s), s.batch.sets # <<>>,
           NEW r, r = [set |-> Head(s.batch.sets), s |-> [s EXCEPT !.batch.sets = Tail(@)]]
    PROVE  Handout(s, r)
<1> DEFINE q == s.batch.sets
<1>1. q \in Seq(Push!Handles) /\ q # <<>> /\ Len(q) \in Nat \ {0} BY DEF Command
<1>2. /\ Tail(q) \in Seq(Push!Handles) /\ Len(Tail(q)) = Len(q) - 1
      /\ \A i \in 1..(Len(q) - 1) : Tail(q)[i] = q[i + 1]
      /\ Head(q) = q[1] /\ q[1] \in Push!Handles
  BY <1>1
<1>3. /\ r.s \in Command /\ r.s.batch.sets = Tail(q) /\ r.s.slots = s.slots /\ (r.s.error <=> s.error)
      /\ r.s.pools = s.pools /\ r.s.current = s.current /\ r.s.allocated = s.allocated
      /\ r.set = q[1]
  BY <1>2 DEF Command
<1>4. DOMAIN q = 1..Len(q) /\ DOMAIN Tail(q) = 1..(Len(q) - 1) BY <1>1, <1>2
<1>5. Waiting(s) = {q[i] : i \in 1..Len(q)} /\ Waiting(r.s) = {q[i + 1] : i \in 1..(Len(q) - 1)}
  <2>1. Waiting(s) = {q[i] : i \in DOMAIN q} BY DEF Waiting
  <2> HIDE DEF q
  <2>2. Waiting(r.s) = {Tail(q)[i] : i \in DOMAIN Tail(q)}
    <3>1. r.s.batch.sets = Tail(q) BY <1>3
    <3>2. Waiting(r.s) = {r.s.batch.sets[i] : i \in DOMAIN r.s.batch.sets} BY DEF Waiting
    <3> QED BY ONLY <3>1, <3>2, Zenon
  <2>3. Waiting(s) = {q[i] : i \in 1..Len(q)} BY <2>1, <1>4
  <2>4. Waiting(r.s) = {Tail(q)[i] : i \in 1..(Len(q) - 1)} BY <2>2, <1>4
  <2>5. {Tail(q)[i] : i \in 1..(Len(q) - 1)} = {q[i + 1] : i \in 1..(Len(q) - 1)} BY <1>2
  <2> QED BY <2>3, <2>4, <2>5
<1>6. \A i, j \in 1..Len(q) : i # j => q[i] # q[j] BY <1>4 DEF Frontier, Once
<1>7. Waiting(r.s) \subseteq Waiting(s) /\ q[1] \in Waiting(s) /\ q[1] \notin Waiting(r.s)
  <2> HIDE DEF q
  <2>1. \A i \in 1..(Len(q) - 1) : i + 1 \in 1..Len(q) /\ i + 1 # 1 BY <1>1
  <2>2. 1 \in 1..Len(q) BY <1>1
  <2> QED BY <2>1, <2>2, <1>5, <1>6
<1>8. \A h : Behind(s, h) <=> Behind(r.s, h) BY <1>3 DEF Behind
<1>9. Once(Tail(q)) 
  <2> HIDE DEF q
  <2>1. \A i \in 1..(Len(q) - 1) : i + 1 \in 1..Len(q) BY <1>1
  <2>2. \A i, j \in 1..(Len(q) - 1) : i # j => i + 1 # j + 1 BY <1>1
  <2> QED BY <2>1, <2>2, <1>2, <1>4, <1>6 DEF Once
<1>10. Frontier(r.s)
  <2>1. \A h \in Waiting(r.s) : Behind(r.s, h) /\ h[1] <= r.s.pools BY <1>3, <1>7, <1>8 DEF Frontier
  <2>2. Once(r.s.batch.sets) BY <1>3, <1>9
  <2>3. r.s.current >= 1 /\ (r.s.current = 1 \/ r.s.current <= r.s.pools)
    BY <1>3 DEF Frontier
  <2>4. r.s.pools <= MaxPools /\ r.s.allocated <= PoolSize BY <1>3 DEF Frontier
  <2> QED BY <2>1, <2>2, <2>3, <2>4 DEF Frontier
<1> QED BY <1>2, <1>3, <1>7, <1>8, <1>10, PushAssumption DEF Handout, Frontier


\* The next n sets of the k-th pool: one handed out, the rest to wait.
Taken(s, k, u, n, rest) ==
    [set |-> <<k, u + 1>>, s |-> [s EXCEPT !.pools = IF k > @ THEN k ELSE @, !.current = k,
                                           !.allocated = u + n, !.batch = rest]]
Rest == [layout : Layouts \cup {Null}, sets : Seq(Push!Handles)]

LEMMA TakenHandout ==
    ASSUME NEW s \in Command, Frontier(s), NEW k \in 1..MaxPools, s.current <= k,
           NEW u \in Nat, u = (IF k = s.current THEN s.allocated ELSE 0),
           NEW n \in Nat \ {0}, u + n <= PoolSize, NEW rest \in Rest,
           \A i \in DOMAIN rest.sets : i \in 1..(n - 1) /\ rest.sets[i] = <<k, u + 1 + i>>
    PROVE  Handout(s, Taken(s, k, u, n, rest))
<1> DEFINE r == Taken(s, k, u, n, rest)
<1>0. PoolSize \in Nat /\ MaxPools \in Nat BY PushAssumption
<1>1. s.pools \in Nat /\ s.current \in Nat /\ s.allocated \in Nat BY DEF Command
<1>2. /\ r.s.batch = rest /\ r.s.slots = s.slots /\ (r.s.error <=> s.error)
      /\ r.s.pools = (IF k > s.pools THEN k ELSE s.pools)
      /\ r.s.current = k /\ r.s.allocated = u + n /\ r.set = <<k, u + 1>>
  BY DEF Taken, Command
<1>3. r.s \in Command
  <2>1. /\ (IF k > s.pools THEN k ELSE s.pools) \in Nat /\ k \in Nat /\ u + n \in Nat
        /\ rest \in [layout : Layouts \cup {Null}, sets : Seq(Push!Handles)]
    BY <1>0, <1>1 DEF Rest
  <2> QED BY <2>1 DEF Taken, Command
<1>4. Waiting(r.s) = {rest.sets[i] : i \in DOMAIN rest.sets} BY <1>2 DEF Waiting
<1> HIDE DEF r
<1>5. \A h \in Waiting(r.s) : h[1] = k /\ h[2] \in Nat /\ h[2] > u + 1 /\ h[2] <= u + n
  <2> SUFFICES ASSUME NEW i \in DOMAIN rest.sets
               PROVE  LET h == rest.sets[i] IN h[1] = k /\ h[2] \in Nat /\ h[2] > u + 1 /\ h[2] <= u + n
    BY <1>4
  <2>1. i \in 1..(n - 1) /\ rest.sets[i] = <<k, u + 1 + i>> OBVIOUS
  <2> QED BY <2>1
<1>6. Frontier(r.s)
  <2>1. \A h \in Waiting(r.s) : Behind(r.s, h) /\ h[1] <= r.s.pools
    BY <1>0, <1>1, <1>2, <1>5 DEF Behind
  <2>2. Once(rest.sets)
    <3> SUFFICES ASSUME NEW i \in DOMAIN rest.sets, NEW j \in DOMAIN rest.sets, i # j
                 PROVE  rest.sets[i] # rest.sets[j]
      BY DEF Once
    <3>1. i \in 1..(n - 1) /\ j \in 1..(n - 1) OBVIOUS
    <3>2. rest.sets[i] = <<k, u + 1 + i>> /\ rest.sets[j] = <<k, u + 1 + j>> OBVIOUS
    <3>3. u + 1 + i # u + 1 + j BY <3>1
    <3> QED BY <3>2, <3>3
  <2> QED BY <2>1, <2>2, <1>0, <1>1, <1>2 DEF Frontier
<1>7. \A h \in Push!Handles : Behind(s, h) => Behind(r.s, h)
  BY <1>0, <1>1, <1>2, HandleFields DEF Behind, Frontier
<1>8. \A h \in Waiting(r.s) : ~Behind(s, h)
  BY <1>0, <1>1, <1>5 DEF Behind
<1>9. /\ r.set \in Push!Handles /\ r.set \notin Waiting(r.s)
      /\ Behind(r.s, r.set) /\ ~Behind(s, r.set)
  <2>1. r.set[1] = k /\ r.set[2] = u + 1 /\ u + 1 \in 1..PoolSize BY <1>0, <1>2
  <2>2. r.set \in Push!Handles BY <2>1, <1>2 DEF Push!Handles
  <2>3. r.set \notin Waiting(r.s) BY <2>1, <1>5
  <2> QED BY <2>1, <2>2, <2>3, <1>0, <1>1, <1>2 DEF Behind
<1> QED BY <1>2, <1>3, <1>6, <1>7, <1>8, <1>9, PushAssumption DEF Handout, r

LEMMA FromPools ==
    ASSUME NEW s \in Command, Frontier(s), NEW l \in Layouts, NEW k \in 1..MaxPools,
           s.current <= k, NEW r \in Push!FromPool([s EXCEPT !.batch = Push!NoBatch], l, k)
    PROVE  Handout(s, r)
<1> DEFINE clean == [s EXCEPT !.batch = Push!NoBatch]
           u == IF k = s.current THEN s.allocated ELSE 0
           size == Push!Smaller(Batch, PoolSize - u)
           rest == [layout |-> l, sets |-> [i \in 1..(size - 1) |-> <<k, u + 1 + i>>]]
<1>0. PoolSize \in Nat /\ MaxPools \in Nat /\ Batch \in Nat \ {0} BY PushAssumption
<1>1. u \in Nat /\ u <= PoolSize BY <1>0 DEF Command, Frontier
<1>2. size \in Nat /\ size <= PoolSize - u BY <1>0, <1>1 DEF Push!Smaller
<1>3. clean.current = s.current /\ clean.allocated = s.allocated BY DEF Command
<1>4. \A n, x : [set |-> <<k, u + 1>>,
                 s |-> [clean EXCEPT !.pools = IF k > @ THEN k ELSE @, !.current = k,
                                     !.allocated = u + n, !.batch = x]] = Taken(s, k, u, n, x)
  BY DEF Taken, Command
<1>5. size # 0 /\ (r = Taken(s, k, u, size, rest) \/ (size > 1 /\ r = Taken(s, k, u, 1, Push!NoBatch)))
  <2> HIDE DEF rest
  <2>1. size # 0 BY <1>3 DEF Push!FromPool
  <2>2. \/ r = [set |-> <<k, u + 1>>,
                s |-> [clean EXCEPT !.pools = IF k > @ THEN k ELSE @, !.current = k,
                                    !.allocated = u + size, !.batch = rest]]
        \/ /\ size > 1
           /\ r = [set |-> <<k, u + 1>>,
                   s |-> [clean EXCEPT !.pools = IF k > @ THEN k ELSE @, !.current = k,
                                       !.allocated = u + 1, !.batch = Push!NoBatch]]
    BY <2>1, <1>3 DEF Push!FromPool, rest
  <2>3. /\ Taken(s, k, u, size, rest) = [set |-> <<k, u + 1>>,
                s |-> [clean EXCEPT !.pools = IF k > @ THEN k ELSE @, !.current = k,
                                    !.allocated = u + size, !.batch = rest]]
        /\ Taken(s, k, u, 1, Push!NoBatch) = [set |-> <<k, u + 1>>,
                s |-> [clean EXCEPT !.pools = IF k > @ THEN k ELSE @, !.current = k,
                                    !.allocated = u + 1, !.batch = Push!NoBatch]]
    BY <1>4
  <2> HIDE DEF clean, u, size
  <2> QED BY <2>1, <2>2, <2>3
<1>6. Push!NoBatch \in Rest /\ DOMAIN Push!NoBatch.sets = {} BY DEF Push!NoBatch, Rest
<1>7. rest \in Rest /\ DOMAIN rest.sets = 1..(size - 1)
  <2>1. \A i \in 1..(size - 1) : <<k, u + 1 + i>> \in Push!Handles
    BY <1>0, <1>1, <1>2, <1>5 DEF Push!Handles
  <2>2. size - 1 \in Nat BY <1>2, <1>5
  <2> HIDE DEF u, size
  <2> DEFINE y(i) == <<k, u + 1 + i>>
  <2>4. \A i \in 1..(size - 1) : y(i) \in Push!Handles BY <2>1
  <2> HIDE DEF y
  <2>5. [i \in 1..(size - 1) |-> y(i)] \in Seq(Push!Handles) BY <2>4, <2>2
  <2>3. [i \in 1..(size - 1) |-> <<k, u + 1 + i>>] \in Seq(Push!Handles) BY <2>5 DEF y
  <2> QED BY <2>3 DEF Rest
<1> HIDE DEF u, size
<1>8. \A i \in DOMAIN rest.sets : i \in 1..(size - 1) /\ rest.sets[i] = <<k, u + 1 + i>> BY <1>7
<1>9. u = (IF k = s.current THEN s.allocated ELSE 0) BY DEF u
<1>10. CASE r = Taken(s, k, u, size, rest)
  <2>1. size \in Nat \ {0} /\ u + size <= PoolSize BY <1>0, <1>1, <1>2, <1>5
  <2> HIDE DEF rest
  <2> QED BY <2>1, <1>1, <1>7, <1>8, <1>9, <1>10, TakenHandout
<1>11. CASE size > 1 /\ r = Taken(s, k, u, 1, Push!NoBatch)
  <2>1. u + 1 <= PoolSize BY <1>0, <1>1, <1>2, <1>11
  <2> QED BY <2>1, <1>1, <1>6, <1>9, <1>11, TakenHandout
<1> QED BY <1>5, <1>10, <1>11

LEMMA RefusedPools ==
    ASSUME NEW s \in Command, Frontier(s), NEW k \in 1..MaxPools, s.current <= k,
           NEW r, r = Push!Refused([s EXCEPT !.batch = Push!NoBatch], k)
    PROVE  Handout(s, r)
<1>0. PoolSize \in Nat /\ MaxPools \in Nat BY PushAssumption
<1>1. s.pools \in Nat /\ s.current \in Nat /\ s.allocated \in Nat BY DEF Command
<1>2. Push!NoBatch \in Rest /\ DOMAIN Push!NoBatch.sets = {} BY DEF Push!NoBatch, Rest
<1>3. /\ r.s.batch = Push!NoBatch /\ r.s.slots = s.slots /\ (r.s.error <=> s.error)
      /\ r.s.pools = (IF k > s.pools THEN k ELSE s.pools) /\ r.s.current = k
      /\ r.s.allocated = (IF k = s.current THEN s.allocated ELSE 0) /\ r.set = Null
  BY DEF Push!Refused, Command
<1>4. r.s \in Command
  <2>1. /\ (IF k > s.pools THEN k ELSE s.pools) \in Nat
        /\ (IF k = s.current THEN s.allocated ELSE 0) \in Nat /\ k \in Nat
        /\ Push!NoBatch \in [layout : Layouts \cup {Null}, sets : Seq(Push!Handles)]
    BY <1>0, <1>1, <1>2 DEF Rest
  <2> QED BY <2>1, <1>1 DEF Push!Refused, Command
<1>5. Waiting(r.s) = {} BY <1>2, <1>3 DEF Waiting
<1>6. Once(r.s.batch.sets) BY <1>2, <1>3 DEF Once
<1>7. Frontier(r.s) BY <1>0, <1>1, <1>3, <1>5, <1>6 DEF Frontier
<1>8. \A h \in Push!Handles : Behind(s, h) => Behind(r.s, h)
  BY <1>0, <1>1, <1>3, HandleFields DEF Behind
<1> QED BY <1>3, <1>4, <1>5, <1>7, <1>8 DEF Handout

LEMMA NoPool ==
    ASSUME NEW s \in Command, Frontier(s), NEW r, r = [set |-> Null, s |-> [s EXCEPT !.batch = Push!NoBatch]]
    PROVE  Handout(s, r)
<1>2. Push!NoBatch \in Rest /\ DOMAIN Push!NoBatch.sets = {} BY DEF Push!NoBatch, Rest
<1>3. /\ r.s.batch = Push!NoBatch /\ r.s.slots = s.slots /\ (r.s.error <=> s.error)
      /\ r.s.pools = s.pools /\ r.s.current = s.current /\ r.s.allocated = s.allocated /\ r.set = Null
  BY DEF Command
<1>4. r.s \in Command BY <1>2 DEF Command, Rest
<1>5. Waiting(r.s) = {} BY <1>2, <1>3 DEF Waiting
<1>6. Once(r.s.batch.sets) BY <1>2, <1>3 DEF Once
<1>7. Frontier(r.s) BY <1>3, <1>5, <1>6 DEF Frontier
<1>8. \A h : Behind(s, h) <=> Behind(r.s, h) BY <1>3 DEF Behind
<1> QED BY <1>3, <1>4, <1>5, <1>7, <1>8 DEF Handout

LEMMA SetHandedOut ==
    ASSUME NEW s \in Command, Frontier(s), NEW l \in Layouts, NEW r \in Push!AllocatePushSet(s, l)
    PROVE  Handout(s, r)
<1> DEFINE clean == [s EXCEPT !.batch = Push!NoBatch]
           first == IF s.pools = 0 THEN 1 ELSE s.pools
           last == Push!Smaller(first + 1, MaxPools)
<1>0. MaxPools \in Nat \ {0} BY PushAssumption
<1>1. /\ s.pools \in Nat /\ s.current \in Nat /\ s.current >= 1 /\ s.pools <= MaxPools
      /\ s.current = 1 \/ s.current <= s.pools
      /\ clean.pools = s.pools /\ clean.current = s.current
  BY DEF Command, Frontier
<1>2. /\ first \in 1..MaxPools /\ last \in 1..MaxPools
      /\ s.current <= first /\ s.current <= last
      /\ first = (IF clean.pools = 0 THEN 1 ELSE clean.pools)
  BY <1>0, <1>1 DEF Push!Smaller
<1> HIDE DEF clean, first, last
<1>3. \/ /\ s.batch.sets # <<>>
         /\ r = [set |-> Head(s.batch.sets), s |-> [s EXCEPT !.batch.sets = Tail(@)]]
      \/ \E k \in s.current..last : r \in Push!FromPool(clean, l, k)
      \/ \E k \in {first, last} : r = Push!Refused(clean, k)
      \/ r = [set |-> Null, s |-> clean]
  <2>1. CASE s.batch.layout = l /\ s.batch.sets # <<>>
    BY <2>1 DEF Push!AllocatePushSet
  <2>2. CASE ~(s.batch.layout = l /\ s.batch.sets # <<>>)
    <3>1. r \in (UNION {Push!FromPool(clean, l, k) : k \in s.current..last})
                   \cup {Push!Refused(clean, k) : k \in {first, last}}
                   \cup (IF s.pools = 0 THEN {[set |-> Null, s |-> clean]} ELSE {})
      BY <2>2 DEF Push!AllocatePushSet, clean, first, last
    <3>2. CASE r \in UNION {Push!FromPool(clean, l, k) : k \in s.current..last} BY <3>2
    <3>3. CASE r \in {Push!Refused(clean, k) : k \in {first, last}} BY <3>3
    <3>4. CASE r \in (IF s.pools = 0 THEN {[set |-> Null, s |-> clean]} ELSE {}) BY <3>4
    <3> QED BY <3>1, <3>2, <3>3, <3>4
  <2> QED BY <2>1, <2>2
<1>4. \A k \in s.current..last : k \in 1..MaxPools /\ s.current <= k BY <1>0, <1>1, <1>2
<1>5. \A k \in {first, last} : k \in 1..MaxPools /\ s.current <= k BY <1>0, <1>1, <1>2
<1>6. CASE \E k \in s.current..last : r \in Push!FromPool(clean, l, k)
  BY <1>4, <1>6, FromPools DEF clean
<1>7. CASE \E k \in {first, last} : r = Push!Refused(clean, k)
  BY <1>5, <1>7, RefusedPools DEF clean
<1> QED BY <1>3, <1>6, <1>7, FromBatch, NoPool DEF clean


-----------------------------------------------------------------------------
(* PushDescriptors: the steps.                                              *)

LEMMA KeptSame ==
    ASSUME NEW c \in Buffers, Kept(c),
           pushState'[c] = pushState[c], content'[c] = content[c], bound'[c] = bound[c],
           meant'[c] = meant[c], drawn'[c] = drawn[c]
    PROVE  Kept(c)'
BY DEF Kept, Frontier, Once, Mirrors, Holds, Waiting, Behind

LEMMA ForgottenKept ==
    ASSUME NEW c \in Buffers, NEW p \in 0..MaxPools,
           pushState'[c] = [Push!Fresh EXCEPT !.pools = p],
           content'[c] = [h \in Push!Handles |-> Null],
           bound'[c] = [n \in Push!SetNumbers |-> Null],
           meant'[c] = Push!NothingMeant, drawn'[c] = {}
    PROVE  Kept(c)'
<1> DEFINE s == [Push!Fresh EXCEPT !.pools = p]
<1>1. s \in Command /\ Frontier(s) /\ Waiting(s) = {} BY FreshCommand, PushAssumption
<1>2. \A n \in Push!SetNumbers : s.slots[n] = [layout |-> <<>>, set |-> Null]
  BY DEF Push!Fresh, Push!NoSlot
<1>3. pushState'[c] = s OBVIOUS
<1> HIDE DEF s
<1>4. Frontier(pushState[c])' /\ Waiting(pushState[c])' = {}
  <2>1. Frontier(pushState'[c]) /\ Waiting(pushState'[c]) = {} BY <1>1, <1>3
  <2> QED BY <2>1 DEF Frontier, Once, Waiting, Behind
<1>5. Mirrors(c)'
  <2> SUFFICES ASSUME NEW n \in Push!SetNumbers
               PROVE  /\ pushState'[c].slots[n].layout = meant'[c][n].layout
                      /\ pushState'[c].slots[n].set = bound'[c][n]
                      /\ bound'[c][n] = Null /\ meant'[c][n].values = Null
    BY DEF Mirrors
  <2>1. pushState'[c].slots[n] = [layout |-> <<>>, set |-> Null] BY <1>2, <1>3
  <2>2. meant'[c][n] = [layout |-> <<>>, values |-> Null] BY DEF Push!NothingMeant
  <2>3. bound'[c][n] = Null OBVIOUS
  <2> QED BY <2>1, <2>2, <2>3
<1> QED BY <1>4, <1>5 DEF Kept

LEMMA ForgottenStep ==
    ASSUME PushInv, NEW gone \in SUBSET Buffers, Push!NothingRecorded(gone),
           NEW pools \in [Buffers -> 0..MaxPools],
           pushState' = [c \in Buffers |-> IF c \in gone THEN [Push!Fresh EXCEPT !.pools = pools[c]]
                                           ELSE pushState[c]],
           setLayout' \in [SetHandles -> Layouts \cup {Null}],
           pipeline' \in [PipeHandles -> Seq(Layouts)]
    PROVE  PushInv'
<1>0. MaxPools \in Nat BY PushAssumption
<1>1. ASSUME NEW c \in Buffers PROVE Kept(c)'
  <2>1. CASE c \in gone
    BY <2>1, ForgottenKept DEF Push!NothingRecorded
  <2>2. CASE c \notin gone
    BY <2>2, KeptSame DEF Push!NothingRecorded, PushInv
  <2> QED BY <2>1, <2>2
<1>2. \A c \in Buffers : [Push!Fresh EXCEPT !.pools = pools[c]] \in Command
  BY <1>0, FreshCommand
<1>3. pushState' \in [Buffers -> Command] BY <1>2 DEF PushInv, PushType
<1>4. Push!NothingMeant \in [Push!SetNumbers -> [layout : Seq(Layouts), values : Contents \cup {Null}]]
  BY DEF Push!NothingMeant
<1>5. /\ content' \in [Buffers -> [Push!Handles -> Contents \cup {Null}]]
      /\ bound' \in [Buffers -> [Push!SetNumbers -> Push!Handles \cup {Null}]]
      /\ meant' \in [Buffers -> [Push!SetNumbers ->
                        [layout : Seq(Layouts), values : Contents \cup {Null}]]]
      /\ drawn' \in [Buffers -> SUBSET [set : Push!Handles \cup {Null}, sees : Contents \cup {Null}]]
  BY <1>4 DEF Push!NothingRecorded, PushInv, PushType
<1> QED BY <1>1, <1>3, <1>5 DEF PushInv, PushType

LEMMA FreshEmpty == Push!Fresh = [Push!Fresh EXCEPT !.pools = 0]
<1> DEFINE fresh(x, slots, batch) == [error |-> x, slots |-> slots, pools |-> 0, current |-> 1,
                                      allocated |-> 0, batch |-> batch]
<1>1. \A x, slots, batch : fresh(x, slots, batch) = [fresh(x, slots, batch) EXCEPT !.pools = 0]
  OBVIOUS
<1>2. Push!Fresh = fresh(FALSE, [n \in Push!SetNumbers |-> Push!NoSlot], Push!NoBatch)
  BY Zenon DEF Push!Fresh
<1> HIDE DEF fresh
<1> QED BY <1>1, <1>2, Zenon

LEMMA PushInit == Push!Init => PushInv
<1> SUFFICES ASSUME Push!Init PROVE PushInv OBVIOUS
<1>0. MaxPools \in Nat BY PushAssumption
<1>2. Push!Fresh \in Command /\ Frontier(Push!Fresh) /\ Waiting(Push!Fresh) = {}
  BY <1>0, FreshEmpty, FreshCommand
<1>3. Push!NothingMeant \in [Push!SetNumbers -> [layout : Seq(Layouts), values : Contents \cup {Null}]]
  BY DEF Push!NothingMeant
<1>4. PushType BY <1>2, <1>3 DEF PushType, Push!Init
<1>5. \A c \in Buffers : Mirrors(c)
  BY DEF Push!Init, Mirrors, Push!Fresh, Push!NoSlot, Push!NothingMeant
<1>6. \A c \in Buffers : Kept(c) BY <1>2, <1>5 DEF Kept, Push!Init
<1> QED BY <1>4, <1>6 DEF PushInv

LEMMA StillUsed ==
    ASSUME NEW c \in Buffers, Kept(c), NEW r, Handout(pushState[c], r),
           NEW h, NEW values, Holds(c, h, values)
    PROVE  h \in Push!Handles \ Waiting(r.s) /\ h # r.set
<1>1. h \in Push!Handles /\ h \notin Waiting(pushState[c]) /\ content[c][h] # Null
  BY PushAssumption DEF Holds
<1>2. Behind(pushState[c], h) BY <1>1 DEF Kept
<1>3. h \notin Waiting(r.s) BY <1>1, <1>2 DEF Handout
<1>4. h # Null BY <1>1, PushAssumption
<1>5. h # r.set BY <1>1, <1>2, <1>4 DEF Handout
<1> QED BY <1>1, <1>3, <1>5

\* What binding at n does to the layer's slots it does to the application's.
LEMMA BindSlots ==
    ASSUME PushInv, NEW c \in Buffers, NEW n \in Push!SetNumbers, NEW layout \in Seq(Layouts),
           NEW set \in Push!Handles \cup {Null}
    PROVE  LET bind == Push!BindState(pushState[c].slots, layout, n, set) IN
           /\ bind \in [Push!SetNumbers -> Slot]
           /\ \A i \in Push!SetNumbers :
                 bind[i] = IF i = n THEN [layout |-> layout, set |-> set]
                           ELSE IF Push!Disturbs(c, layout, n, i) THEN [layout |-> layout, set |-> Null]
                           ELSE pushState[c].slots[i]
<1>1. pushState[c].slots \in [Push!SetNumbers -> Slot] BY DEF PushInv, PushType, Command
<1>2. \A i \in Push!SetNumbers : pushState[c].slots[i].layout = meant[c][i].layout
  BY DEF PushInv, Kept, Mirrors
<1>3. n \in Nat /\ \A i \in Push!SetNumbers : i \in Nat BY Numbers
<1>4. \A i \in Push!SetNumbers : i # n => (i < n \/ i > n) /\ ~(i < n /\ i > n) BY <1>3
<1>5. [layout |-> layout, set |-> set] \in Slot /\ [layout |-> layout, set |-> Null] \in Slot
  BY DEF Slot
<1> QED BY <1>1, <1>2, <1>4, <1>5 DEF Push!BindState, Push!Disturbs


LEMMA BindingTypes ==
    ASSUME PushInv, NEW c \in Buffers, NEW n \in Push!SetNumbers, NEW layout \in Seq(Layouts),
           NEW set \in Push!Handles \cup {Null}, NEW values \in Contents \cup {Null},
           Push!Binds(c, layout, n, set), Push!Means(c, layout, n, values)
    PROVE  /\ bound' \in [Buffers -> [Push!SetNumbers -> Push!Handles \cup {Null}]]
           /\ meant' \in [Buffers -> [Push!SetNumbers ->
                             [layout : Seq(Layouts), values : Contents \cup {Null}]]]
           /\ \A i \in Push!SetNumbers :
                 IF i = n THEN bound'[c][i] = set /\ meant'[c][i] = [layout |-> layout, values |-> values]
                 ELSE IF Push!Disturbs(c, layout, n, i)
                 THEN bound'[c][i] = Null /\ meant'[c][i] = [layout |-> layout, values |-> Null]
                 ELSE bound'[c][i] = bound[c][i] /\ meant'[c][i] = meant[c][i]
           /\ \A d \in Buffers \ {c} : bound'[d] = bound[d] /\ meant'[d] = meant[d]
BY DEF PushInv, PushType, Push!Binds, Push!Means

HoldsNext(c, h, values) ==
    /\ h \in Push!Handles \ Waiting(pushState'[c])
    /\ values # Null /\ content'[c][h] = values

\* Binding at n keeps the two sides alike when what it binds holds its values.
LEMMA BindKept ==
    ASSUME PushInv, NEW c \in Buffers, NEW n \in Push!SetNumbers, NEW layout \in Seq(Layouts),
           NEW set \in Push!Handles \cup {Null}, NEW values \in Contents \cup {Null},
           Push!Binds(c, layout, n, set), Push!Means(c, layout, n, values),
           pushState'[c].slots = Push!BindState(pushState[c].slots, layout, n, set),
           IF set = Null THEN values = Null ELSE HoldsNext(c, set, values),
           \A h, x : Holds(c, h, x) => HoldsNext(c, h, x)
    PROVE  Mirrors(c)'
<1>1. \A i \in Push!SetNumbers :
         pushState'[c].slots[i] = IF i = n THEN [layout |-> layout, set |-> set]
                       ELSE IF Push!Disturbs(c, layout, n, i) THEN [layout |-> layout, set |-> Null]
                       ELSE pushState[c].slots[i]
  BY BindSlots
<1>2. \A i \in Push!SetNumbers :
         IF i = n THEN bound'[c][i] = set /\ meant'[c][i] = [layout |-> layout, values |-> values]
         ELSE IF Push!Disturbs(c, layout, n, i)
         THEN bound'[c][i] = Null /\ meant'[c][i] = [layout |-> layout, values |-> Null]
         ELSE bound'[c][i] = bound[c][i] /\ meant'[c][i] = meant[c][i]
  BY BindingTypes
<1>3. Mirrors(c) BY DEF PushInv, Kept
<1> SUFFICES ASSUME NEW i \in Push!SetNumbers
             PROVE  /\ pushState'[c].slots[i].layout = meant'[c][i].layout
                    /\ pushState'[c].slots[i].set = bound'[c][i]
                    /\ IF bound'[c][i] = Null THEN meant'[c][i].values = Null
                       ELSE HoldsNext(c, bound'[c][i], meant'[c][i].values)
  BY DEF Mirrors, Holds, HoldsNext, Waiting
<1>4. CASE i = n
  <2>1. /\ pushState'[c].slots[i] = [layout |-> layout, set |-> set]
        /\ bound'[c][i] = set /\ meant'[c][i] = [layout |-> layout, values |-> values]
    BY <1>1, <1>2, <1>4
  <2> QED BY <2>1
<1>5. CASE i # n /\ Push!Disturbs(c, layout, n, i) BY <1>1, <1>2, <1>5
<1>6. CASE i # n /\ ~Push!Disturbs(c, layout, n, i)
  <2>1. /\ pushState'[c].slots[i] = pushState[c].slots[i]
        /\ bound'[c][i] = bound[c][i] /\ meant'[c][i] = meant[c][i]
    BY <1>1, <1>2, <1>6
  <2>2. /\ pushState[c].slots[i].layout = meant[c][i].layout
        /\ pushState[c].slots[i].set = bound[c][i]
        /\ IF bound[c][i] = Null THEN meant[c][i].values = Null
           ELSE Holds(c, bound[c][i], meant[c][i].values)
    BY <1>3 DEF Mirrors
  <2> QED BY <2>1, <2>2
<1> QED BY <1>4, <1>5, <1>6

FillsIn(c, r, values) ==
    content' = [content EXCEPT ![c] = [Push!Allocated(c, r.s) EXCEPT ![r.set] = values]]

\* The content of the sets that a handout leaves.
LEMMA HandedContent ==
    ASSUME PushInv, NEW c \in Buffers, NEW r, Handout(pushState[c], r), r.set # Null,
           NEW values \in Contents,
           FillsIn(c, r, values)
    PROVE  /\ content' \in [Buffers -> [Push!Handles -> Contents \cup {Null}]]
           /\ content'[c][r.set] = values
           /\ \A h \in Push!Handles \ {r.set} :
                 content'[c][h] = IF h \in Waiting(r.s) /\ content[c][h] = Null
                                  THEN [e \in Elements |-> Undefined] ELSE content[c][h]
           /\ \A d \in Buffers \ {c} : content'[d] = content[d]
<1>1. content \in [Buffers -> [Push!Handles -> Contents \cup {Null}]] BY DEF PushInv, PushType
<1>2. r.set \in Push!Handles BY DEF Handout
<1>3. [e \in Elements |-> Undefined] \in Contents BY DEF Contents
<1>4. Push!Allocated(c, r.s) =
         [h \in Push!Handles |-> IF h \in Waiting(r.s) /\ content[c][h] = Null
                                 THEN [e \in Elements |-> Undefined] ELSE content[c][h]]
  BY DEF Push!Allocated, Waiting
<1> QED BY <1>1, <1>2, <1>3, <1>4 DEF FillsIn

LEMMA HandedKept ==
    ASSUME PushInv, NEW c \in Buffers, NEW r, Handout(pushState[c], r), r.set # Null,
           NEW values \in Contents,
           FillsIn(c, r, values),
           NEW slots, pushState'[c] = [r.s EXCEPT !.slots = slots]
    PROVE  /\ Frontier(pushState'[c])
           /\ \A h \in Push!Handles : content'[c][h] # Null => Behind(pushState'[c], h)
           /\ \A h \in Waiting(pushState'[c]) : content'[c][h] # Null
           /\ \A h, x : Holds(c, h, x) => HoldsNext(c, h, x)
           /\ HoldsNext(c, r.set, values)
<1>1. /\ content'[c][r.set] = values
      /\ \A h \in Push!Handles \ {r.set} :
            content'[c][h] = IF h \in Waiting(r.s) /\ content[c][h] = Null
                             THEN [e \in Elements |-> Undefined] ELSE content[c][h]
  BY HandedContent
<1>2. /\ pushState'[c].batch = r.s.batch /\ pushState'[c].pools = r.s.pools
      /\ pushState'[c].current = r.s.current /\ pushState'[c].allocated = r.s.allocated
  BY DEF Handout, Command
<1>3. Waiting(pushState'[c]) = Waiting(r.s) BY <1>2 DEF Waiting
<1>4. \A h : Behind(pushState'[c], h) <=> Behind(r.s, h) BY <1>2 DEF Behind
<1>5. Frontier(r.s) BY DEF Handout
<1>6. Frontier(pushState'[c]) BY <1>2, <1>3, <1>4, <1>5 DEF Frontier
<1>7. [e \in Elements |-> Undefined] # Null /\ values # Null BY PushAssumption DEF Contents
<1>8. Kept(c) BY DEF PushInv
<1>9. ASSUME NEW h \in Push!Handles, content'[c][h] # Null PROVE Behind(r.s, h)
  <2>1. CASE h = r.set BY <2>1 DEF Handout
  <2>2. CASE h \in Waiting(r.s) BY <2>2, <1>5 DEF Frontier
  <2>3. CASE h # r.set /\ h \notin Waiting(r.s) BY <2>3, <1>1, <1>8, <1>9 DEF Handout, Kept
  <2> QED BY <2>1, <2>2, <2>3
<1>10. ASSUME NEW h \in Waiting(r.s) PROVE content'[c][h] # Null
  <2>1. h # r.set BY DEF Handout
  <2>2. h \in Push!Handles BY DEF Handout, Command, Waiting
  <2> QED BY <2>1, <2>2, <1>1, <1>7
<1>11. ASSUME NEW h, NEW x, Holds(c, h, x) PROVE HoldsNext(c, h, x)
  <2>1. h \in Push!Handles \ Waiting(r.s) /\ h # r.set BY <1>8, <1>11, StillUsed
  <2>2. x # Null /\ content[c][h] = x BY <1>11 DEF Holds
  <2> QED BY <2>1, <2>2, <1>1, <1>3 DEF HoldsNext
<1>12. HoldsNext(c, r.set, values) BY <1>1, <1>3, <1>7 DEF HoldsNext, Handout
<1> QED BY <1>3, <1>4, <1>6, <1>9, <1>10, <1>11, <1>12

\* The set holds what Vulkan says: what is not written and not undefined is in a
\* binding that is copied from the set pushed before.
LEMMA SnapshotIsPushed ==
    ASSUME PushInv, NEW c \in Buffers, NEW n \in Push!SetNumbers, NEW layout \in Seq(Layouts),
           NEW written \in SUBSET Elements, NEW v \in Values
    PROVE  /\ Push!Snapshot(c, layout, n, written, v) = Push!Pushed(c, layout, n, written, v)
           /\ Push!Pushed(c, layout, n, written, v) \in Contents
<1> DEFINE slot == pushState[c].slots[n]
           was == meant[c][n]
<1>1. /\ slot.layout = was.layout /\ slot.set = bound[c][n]
      /\ IF bound[c][n] = Null THEN was.values = Null ELSE Holds(c, bound[c][n], was.values)
  BY DEF PushInv, Kept, Mirrors
<1>2. was.values \in Contents \cup {Null} BY DEF PushInv, PushType
<1>3. Push!Inherits(slot, layout, n) <=> was.values # Null /\ Push!Compatible(was.layout, layout, n)
  BY <1>1 DEF Push!Inherits, Holds
<1>4. Push!Inherits(slot, layout, n) => content[c][slot.set] = was.values
  BY <1>1 DEF Push!Inherits, Holds
<1>5. \A e \in Elements \ written : e \in Push!Copied(written)
  BY DEF Push!Copied, Bindings
<1>6. Push!Snapshot(c, layout, n, written, v) =
         [e \in Elements |-> IF e \in written THEN v
                             ELSE IF Push!Inherits(slot, layout, n) /\ e \in Push!Copied(written)
                                  THEN content[c][slot.set][e] ELSE Undefined]
  BY DEF Push!Snapshot
<1>7. Push!Pushed(c, layout, n, written, v) =
         [e \in Elements |-> IF e \in written THEN v
                             ELSE IF was.values # Null /\ Push!Compatible(was.layout, layout, n)
                                  THEN was.values[e] ELSE Undefined]
  BY DEF Push!Pushed
<1> HIDE DEF slot, was
<1>8. Push!Pushed(c, layout, n, written, v) \in Contents BY <1>2, <1>7 DEF Contents
<1> QED BY <1>3, <1>4, <1>5, <1>6, <1>7, <1>8


\* What a step leaves of a command buffer, all but its recorded draws.
LEMMA KeptNext ==
    ASSUME NEW c \in Buffers,
           Frontier(pushState'[c]),
           \A h \in Push!Handles : content'[c][h] # Null => Behind(pushState'[c], h),
           \A h \in Waiting(pushState'[c]) : content'[c][h] # Null,
           Mirrors(c)', \A d \in drawn'[c] : HoldsNext(c, d.set, d.sees)
    PROVE  Kept(c)'
<1>1. Frontier(pushState[c])' BY DEF Frontier, Once, Waiting, Behind
<1>2. \A h \in Push!Handles : content'[c][h] # Null => Behind(pushState[c], h)' BY DEF Behind
<1>3. \A h \in Waiting(pushState[c])' : content'[c][h] # Null BY DEF Waiting
<1>4. \A d \in drawn'[c] : Holds(c, d.set, d.sees)' BY DEF Holds, HoldsNext, Waiting
<1> QED BY <1>1, <1>2, <1>3, <1>4 DEF Kept

LEMMA PushDoneStep ==
    ASSUME PushInv, NEW c \in Buffers, NEW n \in Push!SetNumbers, NEW layout \in Seq(Layouts),
           NEW written \in SUBSET Elements, NEW v \in Values,
           NEW r, Handout(pushState[c], r), r.set # Null,
           pushState' = [pushState EXCEPT ![c] =
                            [r.s EXCEPT !.slots = Push!BindState(@, layout, n, r.set)]],
           FillsIn(c, r, Push!Snapshot(c, layout, n, written, v)),
           Push!Binds(c, layout, n, r.set),
           Push!Means(c, layout, n, Push!Pushed(c, layout, n, written, v)),
           UNCHANGED <<setLayout, pipeline, drawn>>
    PROVE  PushInv'
<1> DEFINE values == Push!Pushed(c, layout, n, written, v)
           slots == Push!BindState(pushState[c].slots, layout, n, r.set)
<1>1. values \in Contents /\ FillsIn(c, r, values) /\ Push!Means(c, layout, n, values)
  BY SnapshotIsPushed
<1>2. r.set \in Push!Handles /\ r.s \in Command /\ r.s.slots = pushState[c].slots BY DEF Handout
<1>3. slots \in [Push!SetNumbers -> Slot] BY <1>2, BindSlots
<1>4. pushState'[c] = [r.s EXCEPT !.slots = slots] /\ pushState'[c].slots = slots
  BY <1>2 DEF PushInv, PushType, Command
<1>5. \A d \in Buffers \ {c} : pushState'[d] = pushState[d] BY DEF PushInv, PushType
<1>6. pushState' \in [Buffers -> Command]
  <2>1. [r.s EXCEPT !.slots = slots] \in Command BY <1>2, <1>3 DEF Command
  <2>2. pushState' = [pushState EXCEPT ![c] = [r.s EXCEPT !.slots = slots]] BY <1>2
  <2> QED BY <2>1, <2>2 DEF PushInv, PushType
<1> HIDE DEF values, slots
<1>7. /\ Frontier(pushState'[c])
      /\ \A h \in Push!Handles : content'[c][h] # Null => Behind(pushState'[c], h)
      /\ \A h \in Waiting(pushState'[c]) : content'[c][h] # Null
      /\ \A h, x : Holds(c, h, x) => HoldsNext(c, h, x)
      /\ HoldsNext(c, r.set, values)
  BY <1>1, <1>4, HandedKept
<1>8. /\ content' \in [Buffers -> [Push!Handles -> Contents \cup {Null}]]
      /\ \A d \in Buffers \ {c} : content'[d] = content[d]
  BY <1>1, HandedContent
<1>9. /\ bound' \in [Buffers -> [Push!SetNumbers -> Push!Handles \cup {Null}]]
      /\ meant' \in [Buffers -> [Push!SetNumbers ->
                        [layout : Seq(Layouts), values : Contents \cup {Null}]]]
      /\ \A d \in Buffers \ {c} : bound'[d] = bound[d] /\ meant'[d] = meant[d]
  BY <1>1, <1>2, BindingTypes
<1>10. Mirrors(c)' BY <1>1, <1>2, <1>4, <1>7, BindKept DEF slots
<1>11. \A d \in drawn'[c] : HoldsNext(c, d.set, d.sees) BY <1>7 DEF PushInv, Kept
<1>12. Kept(c)' BY <1>7, <1>10, <1>11, KeptNext
<1>13. \A d \in Buffers \ {c} : Kept(d)'
  BY <1>5, <1>8, <1>9, KeptSame DEF PushInv
<1> QED BY <1>6, <1>8, <1>9, <1>12, <1>13 DEF PushInv, PushType

LEMMA FailedStep ==
    ASSUME PushInv, NEW c \in Buffers, NEW r, Handout(pushState[c], r), r.set = Null,
           pushState' = [pushState EXCEPT ![c] = [r.s EXCEPT !.error = TRUE]],
           UNCHANGED <<setLayout, pipeline, content, bound, meant, drawn>>
    PROVE  PushInv'
<1>1. r.s \in Command /\ Frontier(r.s) /\ Waiting(r.s) = {} /\ r.s.slots = pushState[c].slots
  BY DEF Handout
<1>2. /\ pushState'[c].batch = r.s.batch /\ pushState'[c].pools = r.s.pools
      /\ pushState'[c].current = r.s.current /\ pushState'[c].allocated = r.s.allocated
      /\ pushState'[c].slots = pushState[c].slots
  BY <1>1 DEF PushInv, PushType, Command
<1>3. [r.s EXCEPT !.error = TRUE] \in Command BY <1>1 DEF Command
<1>4. pushState' \in [Buffers -> Command] BY <1>3 DEF PushInv, PushType
<1>5. \A d \in Buffers \ {c} : pushState'[d] = pushState[d] BY DEF PushInv, PushType
<1>6. Waiting(pushState'[c]) = {} BY <1>1, <1>2 DEF Waiting
<1>7. \A h : Behind(pushState'[c], h) <=> Behind(r.s, h) BY <1>2 DEF Behind
<1>8. Frontier(pushState'[c]) BY <1>1, <1>2, <1>6 DEF Frontier
<1>9. Kept(c) BY DEF PushInv
<1>10. \A h \in Push!Handles : content'[c][h] # Null => Behind(pushState'[c], h)
  BY <1>7, <1>9 DEF Kept, Handout
<1>11. \A h, x : Holds(c, h, x) => HoldsNext(c, h, x) BY <1>6 DEF Holds, HoldsNext
<1>12. Mirrors(c)'
  <2> SUFFICES ASSUME NEW i \in Push!SetNumbers
               PROVE  /\ pushState'[c].slots[i].layout = meant'[c][i].layout
                      /\ pushState'[c].slots[i].set = bound'[c][i]
                      /\ IF bound'[c][i] = Null THEN meant'[c][i].values = Null
                         ELSE HoldsNext(c, bound'[c][i], meant'[c][i].values)
    BY DEF Mirrors, Holds, HoldsNext, Waiting
  <2> QED BY <1>2, <1>9, <1>11 DEF Kept, Mirrors
<1>13. \A d \in drawn'[c] : HoldsNext(c, d.set, d.sees) BY <1>9, <1>11 DEF Kept
<1>14. Kept(c)' BY <1>6, <1>8, <1>10, <1>12, <1>13, KeptNext
<1>15. \A d \in Buffers \ {c} : Kept(d)' BY <1>5, KeptSame DEF PushInv
<1> QED BY <1>4, <1>14, <1>15 DEF PushInv, PushType

\* A step on one command buffer that takes no set from the pools.
LEMMA SamePools ==
    ASSUME PushInv, NEW c \in Buffers, NEW s \in Command, pushState' = [pushState EXCEPT ![c] = s],
           s.batch = pushState[c].batch, s.pools = pushState[c].pools,
           s.current = pushState[c].current, s.allocated = pushState[c].allocated,
           content' = content
    PROVE  /\ pushState' \in [Buffers -> Command] /\ pushState'[c] = s
           /\ \A d \in Buffers \ {c} : pushState'[d] = pushState[d]
           /\ Frontier(pushState'[c])
           /\ \A h \in Push!Handles : content'[c][h] # Null => Behind(pushState'[c], h)
           /\ \A h \in Waiting(pushState'[c]) : content'[c][h] # Null
           /\ \A h, x : Holds(c, h, x) => HoldsNext(c, h, x)
<1>1. /\ pushState' \in [Buffers -> Command] /\ pushState'[c] = s
      /\ \A d \in Buffers \ {c} : pushState'[d] = pushState[d]
  BY DEF PushInv, PushType
<1>2. Kept(c) BY DEF PushInv
<1>3. Waiting(s) = Waiting(pushState[c]) BY DEF Waiting
<1>4. \A h : Behind(s, h) <=> Behind(pushState[c], h) BY DEF Behind
<1>5. Frontier(s) BY <1>2, <1>3, <1>4 DEF Kept, Frontier
<1> QED BY <1>1, <1>2, <1>3, <1>4, <1>5 DEF Kept, Holds, HoldsNext


LEMMA SetStep ==
    ASSUME PushInv, NEW c \in Buffers, NEW h \in PipeHandles, NEW n \in Push!SetNumbers,
           NEW written \in SUBSET Elements, NEW v \in Values,
           Push!PushDescriptorSet(c, h, n, written, v)
    PROVE  PushInv'
<1> DEFINE layout == pipeline[h]
<1>1. layout \in Seq(Layouts) /\ pushState[c] \in Command /\ Frontier(pushState[c])
  BY DEF PushInv, PushType, Kept
<1>2. n <= Len(layout) /\ layout[n] \in Layouts
  BY <1>1, Numbers DEF Push!PushDescriptorSet
<1>3. UNCHANGED <<setLayout, pipeline>> BY DEF Push!PushDescriptorSet, Push!layouts
<1> HIDE DEF layout
<1>4. CASE layout[n] \notin usable
  <2>1. /\ pushState' = [pushState EXCEPT ![c].error = TRUE]
        /\ UNCHANGED <<content, bound, meant, drawn>>
    BY <1>4 DEF Push!PushDescriptorSet, Push!FailRecording, layout
  <2> DEFINE s == [pushState[c] EXCEPT !.error = TRUE]
  <2>2. /\ s \in Command /\ s.batch = pushState[c].batch /\ s.pools = pushState[c].pools
        /\ s.current = pushState[c].current /\ s.allocated = pushState[c].allocated
        /\ s.slots = pushState[c].slots
    BY <1>1 DEF Command
  <2>3. pushState' = [pushState EXCEPT ![c] = s] BY <2>1 DEF PushInv, PushType
  <2> HIDE DEF s
  <2>4. /\ pushState' \in [Buffers -> Command] /\ pushState'[c] = s
        /\ \A d \in Buffers \ {c} : pushState'[d] = pushState[d]
        /\ Frontier(pushState'[c])
        /\ \A x \in Push!Handles : content'[c][x] # Null => Behind(pushState'[c], x)
        /\ \A x \in Waiting(pushState'[c]) : content'[c][x] # Null
        /\ \A x, y : Holds(c, x, y) => HoldsNext(c, x, y)
    BY <2>1, <2>2, <2>3, SamePools
  <2>5. Mirrors(c)'
    <3> SUFFICES ASSUME NEW i \in Push!SetNumbers
                 PROVE  /\ pushState'[c].slots[i].layout = meant'[c][i].layout
                        /\ pushState'[c].slots[i].set = bound'[c][i]
                        /\ IF bound'[c][i] = Null THEN meant'[c][i].values = Null
                           ELSE HoldsNext(c, bound'[c][i], meant'[c][i].values)
      BY DEF Mirrors, Holds, HoldsNext, Waiting
    <3> QED BY <2>1, <2>2, <2>4 DEF PushInv, Kept, Mirrors
  <2>6. \A d \in drawn'[c] : HoldsNext(c, d.set, d.sees) BY <2>1, <2>4 DEF PushInv, Kept
  <2>7. Kept(c)' BY <2>4, <2>5, <2>6, KeptNext
  <2>8. \A d \in Buffers \ {c} : Kept(d)' BY <2>1, <2>4, KeptSame DEF PushInv
  <2> QED BY <1>3, <2>1, <2>4, <2>7, <2>8 DEF PushInv, PushType
<1>5. CASE layout[n] \in usable
  <2>1. PICK r \in Push!AllocatePushSet(pushState[c], layout[n]) :
           IF r.set = Null
           THEN /\ pushState' = [pushState EXCEPT ![c] = [r.s EXCEPT !.error = TRUE]]
                /\ UNCHANGED <<content, bound, meant, drawn>>
           ELSE /\ pushState' = [pushState EXCEPT ![c] =
                       [r.s EXCEPT !.slots = Push!BindState(@, layout, n, r.set)]]
                /\ FillsIn(c, r, Push!Snapshot(c, layout, n, written, v))
                /\ Push!Binds(c, layout, n, r.set)
                /\ Push!Means(c, layout, n, Push!Pushed(c, layout, n, written, v))
                /\ UNCHANGED drawn
    BY <1>5 DEF Push!PushDescriptorSet, FillsIn, layout
  <2>2. Handout(pushState[c], r) BY <1>1, <1>2, SetHandedOut
  <2>3. CASE r.set = Null BY <1>3, <2>1, <2>2, <2>3, FailedStep
  <2>4. CASE r.set # Null BY <1>1, <1>3, <2>1, <2>2, <2>4, PushDoneStep
  <2> QED BY <2>3, <2>4
<1> QED BY <1>4, <1>5

LEMMA BindStep ==
    ASSUME PushInv, NEW c \in Buffers, NEW h \in PipeHandles, NEW n \in Push!SetNumbers,
           Push!BindDescriptorSets(c, h, n)
    PROVE  PushInv'
<1> DEFINE layout == pipeline[h]
           slots == Push!BindState(pushState[c].slots, layout, n, Null)
           s == [pushState[c] EXCEPT !.slots = slots]
<1>1. layout \in Seq(Layouts) /\ pushState[c] \in Command BY DEF PushInv, PushType
<1>2. /\ pushState' = [pushState EXCEPT ![c].slots = slots]
      /\ Push!Binds(c, layout, n, Null) /\ Push!Means(c, layout, n, Null)
      /\ UNCHANGED <<setLayout, pipeline, content, drawn>>
  BY DEF Push!BindDescriptorSets, Push!layouts, PushInv, PushType
<1>3. slots \in [Push!SetNumbers -> Slot] BY <1>1, BindSlots
<1>4. /\ s \in Command /\ s.batch = pushState[c].batch /\ s.pools = pushState[c].pools
      /\ s.current = pushState[c].current /\ s.allocated = pushState[c].allocated
      /\ s.slots = slots
  BY <1>1, <1>3 DEF Command
<1>5. pushState' = [pushState EXCEPT ![c] = s] BY <1>2 DEF PushInv, PushType
<1> HIDE DEF s, slots, layout
<1>6. /\ pushState' \in [Buffers -> Command] /\ pushState'[c] = s
      /\ \A d \in Buffers \ {c} : pushState'[d] = pushState[d]
      /\ Frontier(pushState'[c])
      /\ \A x \in Push!Handles : content'[c][x] # Null => Behind(pushState'[c], x)
      /\ \A x \in Waiting(pushState'[c]) : content'[c][x] # Null
      /\ \A x, y : Holds(c, x, y) => HoldsNext(c, x, y)
  BY <1>2, <1>4, <1>5, SamePools
<1>7. /\ bound' \in [Buffers -> [Push!SetNumbers -> Push!Handles \cup {Null}]]
      /\ meant' \in [Buffers -> [Push!SetNumbers ->
                        [layout : Seq(Layouts), values : Contents \cup {Null}]]]
      /\ \A d \in Buffers \ {c} : bound'[d] = bound[d] /\ meant'[d] = meant[d]
  BY <1>1, <1>2, BindingTypes
<1>8. pushState'[c].slots = Push!BindState(pushState[c].slots, layout, n, Null)
  BY <1>4, <1>6 DEF slots
<1>9. Mirrors(c)'
  <2>1. IF Null = Null THEN Null = Null ELSE HoldsNext(c, Null, Null) OBVIOUS
  <2>2. Null \in Push!Handles \cup {Null} /\ Null \in Contents \cup {Null} OBVIOUS
  <2> QED BY <2>1, <2>2, <1>1, <1>2, <1>6, <1>8, BindKept
<1>10. \A d \in drawn'[c] : HoldsNext(c, d.set, d.sees) BY <1>2, <1>6 DEF PushInv, Kept
<1>11. Kept(c)' BY <1>6, <1>9, <1>10, KeptNext
<1>12. \A d \in Buffers \ {c} : Kept(d)' BY <1>2, <1>6, <1>7, KeptSame DEF PushInv
<1> QED BY <1>2, <1>6, <1>7, <1>11, <1>12 DEF PushInv, PushType

LEMMA DrawRecordedStep ==
    ASSUME PushInv, NEW c \in Buffers, Push!Draw(c) PROVE PushInv'
<1> DEFINE new == {[set |-> bound[c][n], sees |-> meant[c][n].values] :
                      n \in {i \in Push!SetNumbers : meant[c][i].values # Null}}
<1>1. /\ drawn' = [drawn EXCEPT ![c] = new]
      /\ UNCHANGED <<setLayout, pipeline, pushState, content, bound, meant>>
  BY DEF Push!Draw, Push!layouts
<1>2. new \in SUBSET [set : Push!Handles \cup {Null}, sees : Contents \cup {Null}]
  BY DEF PushInv, PushType
<1>3. ASSUME NEW d \in new PROVE Holds(c, d.set, d.sees)
  <2>1. PICK n \in Push!SetNumbers :
           /\ meant[c][n].values # Null
           /\ d = [set |-> bound[c][n], sees |-> meant[c][n].values]
    OBVIOUS
  <2>2. Holds(c, bound[c][n], meant[c][n].values) BY <2>1 DEF PushInv, Kept, Mirrors
  <2> QED BY <2>1, <2>2
<1> HIDE DEF new
<1>4. drawn' \in [Buffers -> SUBSET [set : Push!Handles \cup {Null}, sees : Contents \cup {Null}]]
  BY <1>1, <1>2 DEF PushInv, PushType
<1>5. drawn'[c] = new /\ \A d \in Buffers \ {c} : drawn'[d] = drawn[d]
  BY <1>1 DEF PushInv, PushType
<1>6. Kept(c)'
  <2>1. /\ Frontier(pushState'[c])
        /\ \A x \in Push!Handles : content'[c][x] # Null => Behind(pushState'[c], x)
        /\ \A x \in Waiting(pushState'[c]) : content'[c][x] # Null
    BY <1>1 DEF PushInv, Kept
  <2>2. Mirrors(c)' BY <1>1 DEF PushInv, Kept, Mirrors, Holds, Waiting
  <2>3. \A d \in drawn'[c] : HoldsNext(c, d.set, d.sees)
    BY <1>1, <1>3, <1>5 DEF Holds, HoldsNext
  <2> QED BY <2>1, <2>2, <2>3, KeptNext
<1>7. \A d \in Buffers \ {c} : Kept(d)' BY <1>1, <1>5, KeptSame DEF PushInv
<1> QED BY <1>1, <1>4, <1>6, <1>7 DEF PushInv, PushType

\* Layouts, templates and allocation leave what is recorded alone.
LEMMA QuietStep ==
    ASSUME PushInv, UNCHANGED <<pushState, content, bound, meant, drawn>>,
           setLayout' \in [SetHandles -> Layouts \cup {Null}], pipeline' \in [PipeHandles -> Seq(Layouts)]
    PROVE  PushInv'
<1>1. \A c \in Buffers : Kept(c)' BY KeptSame DEF PushInv
<1> QED BY <1>1 DEF PushInv, PushType

LEMMA LayoutStep ==
    ASSUME PushInv, NEW h \in SetHandles, Push!CreateSetLayout(h) \/ Push!DestroySetLayout(h)
    PROVE  PushInv'
<1>1. /\ UNCHANGED <<pushState, content, bound, meant, drawn, pipeline>>
      /\ setLayout' \in [SetHandles -> Layouts \cup {Null}]
  BY DEF Push!CreateSetLayout, Push!DestroySetLayout, PushInv, PushType
<1> QED BY <1>1, QuietStep DEF PushInv, PushType

LEMMA PipelineStep ==
    ASSUME PushInv, NEW h \in PipeHandles,
           \/ \E n \in Lengths : \E sets \in [1..n -> SetHandles] : Push!CreatePipelineLayout(h, sets)
           \/ Push!DestroyPipelineLayout(h)
    PROVE  PushInv'
<1>1. UNCHANGED <<pushState, content, bound, meant, drawn, setLayout>>
  BY DEF Push!CreatePipelineLayout, Push!DestroyPipelineLayout
<1>2. CASE Push!DestroyPipelineLayout(h)
  <2>1. pipeline' \in [PipeHandles -> Seq(Layouts)]
    BY <1>2 DEF Push!DestroyPipelineLayout, PushInv, PushType
  <2> QED BY <1>1, <2>1, QuietStep DEF PushInv, PushType
<1>3. ASSUME NEW n \in Lengths, NEW sets \in [1..n -> SetHandles], Push!CreatePipelineLayout(h, sets)
      PROVE  PushInv'
  <2>1. n \in Nat /\ DOMAIN sets = 1..n BY PushAssumption
  <2>2. \A i \in 1..n : setLayout[sets[i]] \in Layouts
    BY <1>3, <2>1 DEF Push!CreatePipelineLayout, PushInv, PushType
  <2> DEFINE made(i) == setLayout[sets[i]]
  <2>3. pipeline' = [pipeline EXCEPT ![h] = [i \in 1..n |-> made(i)]]
    BY <1>3, <2>1 DEF Push!CreatePipelineLayout
  <2> HIDE DEF made
  <2>4. [i \in 1..n |-> made(i)] \in Seq(Layouts) BY <2>1, <2>2 DEF made
  <2>5. pipeline' \in [PipeHandles -> Seq(Layouts)] BY <2>3, <2>4 DEF PushInv, PushType
  <2> QED BY <1>1, <2>5, QuietStep DEF PushInv, PushType
<1> QED BY <1>2, <1>3

LEMMA OtherStep ==
    ASSUME PushInv,
           \/ \E t \in Templates : Push!CreateTemplate(t) \/ Push!DestroyTemplate(t)
           \/ \E c \in Buffers : Push!AllocateCommandBuffer(c)
           \/ UNCHANGED Push!vars
    PROVE  PushInv'
<1>1. UNCHANGED <<pushState, content, bound, meant, drawn, setLayout, pipeline>>
  BY DEF Push!CreateTemplate, Push!DestroyTemplate, Push!AllocateCommandBuffer, Push!layouts, Push!vars
<1> QED BY <1>1, QuietStep DEF PushInv, PushType


LEMMA ResetStep ==
    ASSUME PushInv, NEW reset \in SUBSET Buffers, Push!ResetCommands(reset) PROVE PushInv'
<1>0. MaxPools \in Nat BY PushAssumption
<1> DEFINE pools == [c \in Buffers |-> pushState[c].pools]
<1>1. pools \in [Buffers -> 0..MaxPools]
  BY <1>0 DEF PushInv, PushType, Kept, Frontier, Command
<1>2. pushState' = [c \in Buffers |-> IF c \in reset THEN [Push!Fresh EXCEPT !.pools = pools[c]]
                                      ELSE pushState[c]]
  BY DEF Push!ResetCommands, Push!Rewound
<1>3. Push!NothingRecorded(reset) /\ UNCHANGED <<setLayout, pipeline>>
  BY DEF Push!ResetCommands, Push!layouts
<1> HIDE DEF pools
<1> QED BY <1>1, <1>2, <1>3, ForgottenStep DEF PushInv, PushType

LEMMA FreeStep ==
    ASSUME PushInv, NEW gone \in SUBSET Buffers, Push!FreeCommands(gone) PROVE PushInv'
<1>0. MaxPools \in Nat BY PushAssumption
<1> DEFINE pools == [c \in Buffers |-> 0]
<1>1. pools \in [Buffers -> 0..MaxPools] BY <1>0
<1>2. pushState' = [c \in Buffers |-> IF c \in gone THEN [Push!Fresh EXCEPT !.pools = pools[c]]
                                      ELSE pushState[c]]
  BY FreshEmpty DEF Push!FreeCommands
<1>3. Push!NothingRecorded(gone) /\ UNCHANGED <<setLayout, pipeline>>
  BY DEF Push!FreeCommands, Push!layouts
<1> HIDE DEF pools
<1> QED BY <1>1, <1>2, <1>3, ForgottenStep DEF PushInv, PushType

LEMMA DestroyDeviceStep == ASSUME PushInv, Push!DestroyDevice PROVE PushInv'
<1>0. MaxPools \in Nat BY PushAssumption
<1> DEFINE pools == [c \in Buffers |-> 0]
<1>1. pools \in [Buffers -> 0..MaxPools] BY <1>0
<1>2. pushState' = [c \in Buffers |-> IF c \in Buffers THEN [Push!Fresh EXCEPT !.pools = pools[c]]
                                      ELSE pushState[c]]
  BY FreshEmpty DEF Push!DestroyDevice
<1>3. /\ Push!NothingRecorded(Buffers)
      /\ setLayout' \in [SetHandles -> Layouts \cup {Null}]
      /\ pipeline' \in [PipeHandles -> Seq(Layouts)]
  BY DEF Push!DestroyDevice
<1> HIDE DEF pools
<1> QED BY <1>1, <1>2, <1>3, ForgottenStep

LEMMA TemplateStep ==
    ASSUME PushInv, NEW c \in Buffers, NEW t \in Templates, NEW h \in PipeHandles,
           NEW n \in Push!SetNumbers, NEW v \in Values, Coverage[t] \subseteq Elements,
           Push!PushWithTemplate(c, t, h, n, v)
    PROVE  PushInv'
<1>1. Push!PushDescriptorSet(c, h, n, Coverage[t], v) BY DEF Push!PushWithTemplate
<1> QED BY <1>1, SetStep

LEMMA PushStep == ASSUME PushInv, [Push!Next]_Push!vars, known \subseteq Buffers PROVE PushInv'
<1>1. \A t \in Templates : Coverage[t] \subseteq Elements BY PushAssumption DEF Coverage
<1>2. ASSUME NEW c \in Buffers, Push!Record(c) PROVE PushInv'
  <2>1. ASSUME NEW h \in PipeHandles, NEW n \in Push!SetNumbers, NEW written \in SUBSET Elements,
               NEW v \in Values, Push!PushDescriptorSet(c, h, n, written, v)
        PROVE  PushInv'
    BY <2>1, SetStep
  <2>2. ASSUME NEW h \in PipeHandles, NEW n \in Push!SetNumbers, NEW t \in Templates,
               NEW v \in Values, Push!PushWithTemplate(c, t, h, n, v)
        PROVE  PushInv'
    BY <2>2, <1>1, TemplateStep
  <2>3. ASSUME NEW h \in PipeHandles, NEW n \in Push!SetNumbers, Push!BindDescriptorSets(c, h, n)
        PROVE  PushInv'
    BY <2>3, BindStep
  <2> QED BY <1>2, <2>1, <2>2, <2>3, DrawRecordedStep DEF Push!Record
<1>3. ASSUME NEW c \in Buffers,
             Push!FreeCommandBuffer(c) \/ Push!BeginCommandBuffer(c) PROVE PushInv'
  BY <1>3, ResetStep, FreeStep DEF Push!FreeCommandBuffer, Push!BeginCommandBuffer
<1>4. CASE Push!ResetCommandPool \/ Push!DestroyCommandPool
  BY <1>4, ResetStep, FreeStep DEF Push!ResetCommandPool, Push!DestroyCommandPool
<1> QED BY <1>2, <1>3, <1>4, LayoutStep, PipelineStep, OtherStep, DestroyDeviceStep DEF Push!Next

LEMMA KnownStep ==
    ASSUME known \subseteq Buffers, [Push!Next]_Push!vars PROVE (known \subseteq Buffers)'
<1> USE DEF Push!layouts
<1>1. ASSUME NEW h \in SetHandles, Push!CreateSetLayout(h) \/ Push!DestroySetLayout(h)
      PROVE  known' \subseteq Buffers
  BY <1>1 DEF Push!CreateSetLayout, Push!DestroySetLayout
<1>2. ASSUME NEW h \in PipeHandles, NEW n \in Lengths, NEW sets \in [1..n -> SetHandles],
             Push!CreatePipelineLayout(h, sets)
      PROVE  known' \subseteq Buffers
  BY <1>2 DEF Push!CreatePipelineLayout
<1>3. ASSUME NEW h \in PipeHandles, Push!DestroyPipelineLayout(h) PROVE known' \subseteq Buffers
  BY <1>3 DEF Push!DestroyPipelineLayout
<1>4. ASSUME NEW t \in Templates, Push!CreateTemplate(t) \/ Push!DestroyTemplate(t)
      PROVE  known' \subseteq Buffers
  BY <1>4 DEF Push!CreateTemplate, Push!DestroyTemplate
<1>5. ASSUME NEW c \in Buffers,
             Push!AllocateCommandBuffer(c) \/ Push!FreeCommandBuffer(c) \/ Push!BeginCommandBuffer(c)
      PROVE  known' \subseteq Buffers
  BY <1>5 DEF Push!AllocateCommandBuffer, Push!FreeCommandBuffer, Push!FreeCommands,
              Push!BeginCommandBuffer, Push!ResetCommands
<1>6. ASSUME NEW c \in Buffers, Push!Record(c) PROVE known' \subseteq Buffers
  BY <1>6 DEF Push!Record, Push!PushDescriptorSet, Push!PushWithTemplate, Push!BindDescriptorSets, Push!Draw
<1>7. CASE Push!ResetCommandPool \/ Push!DestroyCommandPool \/ Push!DestroyDevice
  BY <1>7 DEF Push!ResetCommandPool, Push!ResetCommands, Push!DestroyCommandPool, Push!FreeCommands,
              Push!DestroyDevice
<1>8. CASE UNCHANGED Push!vars BY <1>8 DEF Push!vars
<1> QED BY <1>1, <1>2, <1>3, <1>4, <1>5, <1>6, <1>7, <1>8 DEF Push!Next

LEMMA PushInvSound == PushInv => PushesSound
<1> SUFFICES ASSUME PushInv PROVE Push!DrawsSeePushes /\ Push!BatchIsFree
  BY DEF PushesSound, Push!PushesSound
<1>1. \A c \in Buffers : Kept(c) BY DEF PushInv
<1>2. Push!DrawsSeePushes
  BY <1>1, PushAssumption DEF Push!DrawsSeePushes, Kept, Holds
<1>3. ASSUME NEW c \in Buffers
      PROVE  /\ pushState[c].allocated <= PoolSize
             /\ \A h \in Waiting(pushState[c]) : h[1] <= pushState[c].pools /\ content[c][h] # Null
             /\ Waiting(pushState[c])
                  \cap ({bound[c][n] : n \in Push!SetNumbers} \cup {d.set : d \in drawn[c]}) = {}
  <2>1. pushState[c].allocated <= PoolSize
    BY <1>1 DEF Kept, Frontier
  <2>2. \A h \in Waiting(pushState[c]) : h[1] <= pushState[c].pools /\ content[c][h] # Null
    BY <1>1 DEF Kept, Frontier
  <2>3. Waiting(pushState[c]) \subseteq Push!Handles BY DEF PushInv, PushType, Command, Waiting
  <2>4. \A n \in Push!SetNumbers : bound[c][n] \notin Waiting(pushState[c])
    BY <1>1, <2>3, PushAssumption DEF Kept, Mirrors, Holds
  <2>5. \A d \in drawn[c] : d.set \notin Waiting(pushState[c]) BY <1>1 DEF Kept, Holds
  <2> QED BY <2>1, <2>2, <2>4, <2>5
<1>4. Push!BatchIsFree BY <1>3 DEF Push!BatchIsFree, Waiting
<1> QED BY <1>2, <1>4

\* Every draw of a recording that has not failed sees what was pushed, and no
\* descriptor set is handed out twice between two resets of its pool
\* (on_cmd_push_descriptor_set, allocate_push_set, reset_cmd_pools), whatever the
\* pool and batch sizes, the layouts, templates and command buffers.
THEOREM PushesAreSeen == Push!Spec => []PushesSound
<1> DEFINE Inv == PushInv /\ known \subseteq Buffers
<1>1. Push!Init => Inv BY PushInit DEF Push!Init
<1>2. Inv /\ [Push!Next]_Push!vars => Inv' BY PushStep, KnownStep
<1>3. Inv => PushesSound BY PushInvSound
<1> QED BY <1>1, <1>2, <1>3, PTL DEF Push!Spec

-----------------------------------------------------------------------------
(* EntryPoints: what the tables say.                                        *)

Pairs(table) == \A r \in table : r = <<r[1], r[2]>>

LEMMA LookedUp ==
    ASSUME NEW table, Pairs(table), NEW n \in DOMAIN Lookup(table)
    PROVE  <<n, Lookup(table)[n]>> \in table
<1>1. PICK r \in table : r[1] = n
  BY DEF Lookup, Listed
<1>2. r = <<n, r[2]>>
  BY <1>1 DEF Pairs
<1>3. \E what \in {e[2] : e \in table} : <<n, what>> \in table
  BY <1>2
<1>. QED  BY <1>3 DEF Lookup, Listed

LEMMA OnPairs == ASSUME NEW names, NEW what PROVE Pairs(On(names, what))
BY DEF Pairs, On

LEMMA OnPair ==
    ASSUME NEW names, NEW what, NEW n, NEW v, <<n, v>> \in On(names, what)
    PROVE  n \in names /\ v = what
BY DEF On

LEMMA OnDomain ==
    ASSUME NEW table, NEW names, NEW what, On(names, what) \subseteq table, NEW n \in names
    PROVE  n \in DOMAIN Lookup(table)
<1>1. <<n, what>> \in table /\ <<n, what>>[1] = n
  BY DEF On
<1>. QED  BY <1>1 DEF Lookup, Listed

LEMMA BaseIn ==
    ASSUME NEW names, NEW suffixes, NEW n \in With(names, suffixes)
    PROVE  n[1] \in names
BY DEF With


\* The three tables are relations.
LEMMA Forwarded ==
    ASSUME NEW n \in DOMAIN Forwards
    PROVE  <<n, Forwards[n]>>
             \in DrawForwards \cup DispatchForwards
             \cup TransferForwards \cup ClearForwards
             \cup SyncForwards \cup CoreForwards
             \cup SemaphoreForwards \cup CountForwards
             \cup MemoryForwards \cup GroupForwards
             \cup PhysicalForwards \cup SurfaceForwards
             \cup ObjectForwards \cup UpdateForwards
             \cup ImageForwards \cup DebugForwards
             \cup DeviceForwards \cup QueueForwards
<1>. DEFINE table ==
           DrawForwards \cup DispatchForwards \cup TransferForwards
           \cup ClearForwards \cup SyncForwards \cup CoreForwards
           \cup SemaphoreForwards \cup CountForwards \cup MemoryForwards
           \cup GroupForwards \cup PhysicalForwards \cup SurfaceForwards
           \cup ObjectForwards \cup UpdateForwards \cup ImageForwards
           \cup DebugForwards \cup DeviceForwards \cup QueueForwards
<1>1. Pairs(table)
  BY OnPairs, ZenonT(60) DEF Pairs, DrawForwards, DispatchForwards, TransferForwards, ClearForwards,
     SyncForwards, CoreForwards, SemaphoreForwards, CountForwards, MemoryForwards, GroupForwards,
     PhysicalForwards, SurfaceForwards, ObjectForwards, UpdateForwards, ImageForwards,
     DebugForwards,
     DeviceForwards, QueueForwards
<1>2. Forwards = Lookup(table)
  BY DEF Forwards
<1>. HIDE DEF table
<1>3. <<n, Forwards[n]>> \in table
  BY <1>1, <1>2, LookedUp
<1>. QED  BY <1>3, Zenon DEF table

LEMMA Entered ==
    ASSUME NEW n \in DOMAIN Entries
    PROVE  <<n, Entries[n]>>
             \in PassEntries \cup FramebufferEntries \cup ObjectEntries
             \cup BindEntries \cup QueryEntries \cup Bind2Entries
             \cup ConditionalEntries \cup MultiDrawEntries
             \cup ViewportEntry \cup ShaderEntries
<1>. DEFINE table ==
           PassEntries \cup FramebufferEntries \cup ObjectEntries
           \cup BindEntries \cup QueryEntries \cup Bind2Entries
           \cup ConditionalEntries \cup MultiDrawEntries \cup ViewportEntry
           \cup ShaderEntries
<1>1. Pairs(table)
  BY OnPairs, ZenonT(60) DEF Pairs, PassEntries, FramebufferEntries, ObjectEntries, BindEntries,
     QueryEntries, Bind2Entries, ConditionalEntries, MultiDrawEntries, ViewportEntry, ShaderEntries
<1>2. Entries = Lookup(table)
  BY DEF Entries
<1>. HIDE DEF table
<1>3. <<n, Entries[n]>> \in table
  BY <1>1, <1>2, LookedUp
<1>. QED  BY <1>3, Zenon DEF table

LEMMA Dispatched ==
    ASSUME NEW n \in DOMAIN Dispatchers
    PROVE  <<n, Dispatchers[n]>>
             \in DrawHooks \cup IndirectHooks \cup BindHooks
             \cup RenderingHooks \cup PassHooks
             \cup TransferHooks \cup EventHooks
             \cup BarrierHooks \cup SubmitHooks
             \cup SemaphoreHooks \cup ResetHooks
             \cup Pass2Hooks \cup CountHooks \cup AddressHooks
             \cup MemoryHooks \cup RequirementHooks
             \cup UpdateHooks \cup GroupHooks \cup PushHooks
             \cup PipelineHooks \cup CacheHooks
             \cup LayoutHooks \cup CommandHooks
             \cup TemplateHooks \cup ImageHooks \cup QueueHooks
             \cup SwapchainHooks \cup SurfaceHooks
             \cup PresentHooks \cup DeviceHooks
<1>. DEFINE table ==
           DrawHooks \cup IndirectHooks \cup BindHooks \cup RenderingHooks
           \cup PassHooks \cup TransferHooks \cup EventHooks \cup BarrierHooks
           \cup SubmitHooks \cup SemaphoreHooks \cup ResetHooks \cup Pass2Hooks
           \cup CountHooks \cup AddressHooks \cup MemoryHooks
           \cup RequirementHooks \cup UpdateHooks \cup GroupHooks
           \cup PushHooks \cup PipelineHooks \cup CacheHooks \cup LayoutHooks
           \cup CommandHooks \cup TemplateHooks \cup ImageHooks \cup QueueHooks
           \cup SwapchainHooks \cup SurfaceHooks \cup PresentHooks
           \cup DeviceHooks
<1>1. Pairs(table)
  BY OnPairs, ZenonT(60) DEF Pairs, DrawHooks, IndirectHooks, BindHooks, RenderingHooks, PassHooks,
     TransferHooks, EventHooks, BarrierHooks, SubmitHooks, SemaphoreHooks, ResetHooks, Pass2Hooks,
     CountHooks, AddressHooks, MemoryHooks, RequirementHooks, UpdateHooks, GroupHooks, PushHooks,
     PipelineHooks, CacheHooks, LayoutHooks, CommandHooks, TemplateHooks, ImageHooks, QueueHooks,
     SwapchainHooks, SurfaceHooks, PresentHooks, DeviceHooks
<1>2. Dispatchers = Lookup(table)
  BY DEF Dispatchers
<1>. HIDE DEF table
<1>3. <<n, Dispatchers[n]>> \in table
  BY <1>1, <1>2, LookedUp
<1>. QED  BY <1>3, Zenon DEF table


LEMMA DrawForwardsCases ==
    ASSUME NEW n, NEW v, <<n, v>> \in DrawForwards
    PROVE  \/ n \in Named({"vkCmdBindPipeline"}) /\ v = "bind_pipeline"
           \/ n \in Named({"vkCmdBindVertexBuffers"}) /\ v = "bind_vertices"
           \/ n \in Named({"vkCmdBeginRenderPass"}) /\ v = "begin_pass"
           \/ n \in Named({"vkCmdNextSubpass"}) /\ v = "next_subpass"
           \/ n \in Named({"vkCmdEndRenderPass"}) /\ v = "end_pass"
           \/ n \in Named({"vkDestroyPipeline"}) /\ v = "destroy_pipeline"
           \/ n \in With({"vkCmdBindVertexBuffers2"}, {"EXT"}) /\ v = "bind_vertices"
           \/ n \in Named({"vkCmdDraw", "vkCmdDrawIndexed"}) /\ v = "draw"
           \/ n \in Named({"vkCmdDrawIndirect", "vkCmdDrawIndexedIndirect"}) /\ v = "draw_indirect"
BY OnPair, Zenon DEF DrawForwards

LEMMA DispatchForwardsCases ==
    ASSUME NEW n, NEW v, <<n, v>> \in DispatchForwards
    PROVE  n \in Named({"vkCmdDispatch", "vkCmdDispatchIndirect"}) /\ v = "act"
BY OnPair, Zenon DEF DispatchForwards

LEMMA TransferForwardsCases ==
    ASSUME NEW n, NEW v, <<n, v>> \in TransferForwards
    PROVE  \/ n \in Named({"vkCmdCopyBuffer", "vkCmdFillBuffer", "vkCmdUpdateBuffer",
                 "vkCmdCopyQueryPoolResults"}) /\ v = "act"
           \/ n \in Named({"vkCmdCopyImage", "vkCmdBlitImage", "vkCmdCopyBufferToImage",
                 "vkCmdCopyImageToBuffer", "vkCmdResolveImage"}) /\ v = "act_on_image"
BY OnPair, Zenon DEF TransferForwards

LEMMA ClearForwardsCases ==
    ASSUME NEW n, NEW v, <<n, v>> \in ClearForwards
    PROVE  \/ n \in Named({"vkCmdClearAttachments", "vkCmdClearColorImage",
                 "vkCmdExecuteCommands"}) /\ v = "act"
           \/ n \in Named({"vkCmdClearDepthStencilImage"}) /\ v = "act_on_image"
BY OnPair, Zenon DEF ClearForwards

LEMMA SyncForwardsCases ==
    ASSUME NEW n, NEW v, <<n, v>> \in SyncForwards
    PROVE  \/ n \in Named({"vkCmdPipelineBarrier"}) /\ v = "barrier"
           \/ n \in Khr({"vkCmdSetEvent2", "vkCmdResetEvent2", "vkCmdWaitEvents2",
                 "vkCmdWriteTimestamp2"}) /\ v = "sync2_command"
           \/ n \in Khr({"vkCmdPipelineBarrier2"}) /\ v = "barrier2"
           \/ n \in Khr({"vkQueueSubmit2"}) /\ v = "submit2"
BY OnPair, Zenon DEF SyncForwards

LEMMA CoreForwardsCases ==
    ASSUME NEW n, NEW v, <<n, v>> \in CoreForwards
    PROVE  n \in Named({"vkCmdSetEvent", "vkCmdResetEvent", "vkCmdWaitEvents",
                        "vkCmdWriteTimestamp",
                 "vkCmdResetQueryPool"}) /\ v = "act"
BY OnPair, Zenon DEF CoreForwards

LEMMA SemaphoreForwardsCases ==
    ASSUME NEW n, NEW v, <<n, v>> \in SemaphoreForwards
    PROVE  \/ n \in Named({"vkCreateSemaphore",
                           "vkDestroySemaphore"}) \cup Khr({"vkGetSemaphoreCounterValue",
                 "vkWaitSemaphores", "vkSignalSemaphore"}) /\ v = "semaphore"
           \/ n \in With({"vkResetQueryPool"}, {"EXT"}) /\ v = "reset_query_pool"
           \/ n \in Khr({"vkCreateRenderPass2"}) /\ v = "create_pass2"
           \/ n \in Khr({"vkCmdBeginRenderPass2"}) /\ v = "begin_pass2"
           \/ n \in Khr({"vkCmdNextSubpass2"}) /\ v = "next_subpass2"
           \/ n \in Khr({"vkCmdEndRenderPass2"}) /\ v = "end_pass2"
BY OnPair, Zenon DEF SemaphoreForwards

LEMMA CountForwardsCases ==
    ASSUME NEW n, NEW v, <<n, v>> \in CountForwards
    PROVE  \/ n \in With({"vkCmdDrawIndirectCount", "vkCmdDrawIndexedIndirectCount"}, {"KHR",
                 "AMD"}) /\ v = "draw_count"
           \/ n \in With({"vkGetBufferDeviceAddress"}, {"KHR", "EXT"}) /\ v = "address"
           \/ n \in Khr({"vkGetBufferOpaqueCaptureAddress",
                 "vkGetDeviceMemoryOpaqueCaptureAddress"}) /\ v = "native"
BY OnPair, Zenon DEF CountForwards

LEMMA MemoryForwardsCases ==
    ASSUME NEW n, NEW v, <<n, v>> \in MemoryForwards
    PROVE  \/ n \in Khr({"vkBindBufferMemory2", "vkBindImageMemory2"}) /\ v = "bind_memory2"
           \/ n \in Khr({"vkGetBufferMemoryRequirements2", "vkGetImageMemoryRequirements2",
                 "vkGetImageSparseMemoryRequirements2"}) /\ v = "requirements2"
           \/ n \in Khr({"vkTrimCommandPool"}) /\ v = "trim"
           \/ n \in Khr({"vkGetDescriptorSetLayoutSupport"}) /\ v = "layout_support"
BY OnPair, Zenon DEF MemoryForwards

LEMMA GroupForwardsCases ==
    ASSUME NEW n, NEW v, <<n, v>> \in GroupForwards
    PROVE  \/ n \in Khr({"vkCmdDispatchBase"}) /\ v = "dispatch_base"
           \/ n \in Khr({"vkCmdSetDeviceMask", "vkGetDeviceGroupPeerMemoryFeatures",
                 "vkEnumeratePhysicalDeviceGroups"}) /\ v = "group"
BY OnPair, Zenon DEF GroupForwards

LEMMA PhysicalForwardsCases ==
    ASSUME NEW n, NEW v, <<n, v>> \in PhysicalForwards
    PROVE  /\ n \in Khr({"vkGetPhysicalDeviceFormatProperties2",
                         "vkGetPhysicalDeviceImageFormatProperties2",
                         "vkGetPhysicalDeviceQueueFamilyProperties2",
                         "vkGetPhysicalDeviceMemoryProperties2",
                         "vkGetPhysicalDeviceSparseImageFormatProperties2",
                         "vkGetPhysicalDeviceExternalBufferProperties",
                         "vkGetPhysicalDeviceExternalFenceProperties",
                         "vkGetPhysicalDeviceExternalSemaphoreProperties",
                         "vkCreateSamplerYcbcrConversion", "vkDestroySamplerYcbcrConversion"})
                  \cup Named({"vkGetDeviceGroupPresentCapabilitiesKHR",
                              "vkGetDeviceGroupSurfacePresentModesKHR"})
           /\ v = "native"
BY OnPair DEF PhysicalForwards

LEMMA SurfaceForwardsCases ==
    ASSUME NEW n, NEW v, <<n, v>> \in SurfaceForwards
    PROVE  \/ n \in Named({"vkCreateSwapchainKHR", "vkDestroySwapchainKHR",
                           "vkGetSwapchainImagesKHR",
                 "vkAcquireNextImageKHR", "vkAcquireNextImage2KHR"}) /\ v = "swapchain"
           \/ n \in Named({"vkCreateAndroidSurfaceKHR", "vkDestroySurfaceKHR",
                 "vkGetPhysicalDeviceSurfaceSupportKHR",
                 "vkGetPhysicalDeviceSurfaceCapabilitiesKHR",
                 "vkGetPhysicalDeviceSurfaceCapabilities2KHR",
                 "vkGetPhysicalDeviceSurfaceFormatsKHR", "vkGetPhysicalDeviceSurfaceFormats2KHR",
                 "vkGetPhysicalDeviceSurfacePresentModesKHR"}) /\ v = "surface"
           \/ n \in Named({"vkQueuePresentKHR"}) /\ v = "present"
BY OnPair, Zenon DEF SurfaceForwards

LEMMA ObjectForwardsCases ==
    ASSUME NEW n, NEW v, <<n, v>> \in ObjectForwards
    PROVE  \/ n \in Named({"vkCreateGraphicsPipelines"}) /\ v = "graphics_pipelines"
           \/ n \in Named({"vkCreateComputePipelines"}) /\ v = "compute_pipelines"
           \/ n \in Named({"vkAllocateCommandBuffers"}) /\ v = "allocate_commands"
           \/ n \in Named({"vkFreeCommandBuffers"}) /\ v = "free_commands"
           \/ n \in Named({"vkBeginCommandBuffer"}) /\ v = "begin_commands"
           \/ n \in Named({"vkResetCommandBuffer"}) /\ v = "reset_commands"
           \/ n \in Named({"vkCreatePipelineCache",
                 "vkDestroyPipelineCache"}) /\ v = "pipeline_cache"
           \/ n \in Named({"vkGetPipelineCacheData", "vkMergePipelineCaches"}) /\ v = "native"
           \/ n \in Named({"vkCreateDescriptorSetLayout", "vkDestroyDescriptorSetLayout",
                 "vkCreatePipelineLayout", "vkDestroyPipelineLayout"}) /\ v = "layout"
BY OnPair, Zenon DEF ObjectForwards

LEMMA UpdateForwardsCases ==
    ASSUME NEW n, NEW v, <<n, v>> \in UpdateForwards
    PROVE  \/ n \in Khr({"vkCreateDescriptorUpdateTemplate",
                 "vkDestroyDescriptorUpdateTemplate"}) /\ v = "template"
           \/ n \in Khr({"vkUpdateDescriptorSetWithTemplate"}) /\ v = "update"
           \/ n \in Named({"vkCmdPushDescriptorSetKHR",
                 "vkCmdPushDescriptorSetWithTemplateKHR"}) /\ v = "push"
BY OnPair, Zenon DEF UpdateForwards

LEMMA ImageForwardsCases ==
    ASSUME NEW n, NEW v, <<n, v>> \in ImageForwards
    PROVE  \/ n \in Named({"vkDestroyImageView"}) /\ v = "destroy_view"
           \/ n \in Named({"vkCreateSampler"}) /\ v = "sampler"
           \/ n \in Named({"vkDestroySampler"}) /\ v = "native"
           \/ n \in Named({"vkCreateImage", "vkDestroyImage", "vkCreateImageView"}) /\ v = "image"
           \/ n \in Khr({"vkCmdBeginRendering", "vkCmdEndRendering"}) /\ v = "rendering"
BY OnPair, Zenon DEF ImageForwards

LEMMA DebugForwardsCases ==
    ASSUME NEW n, NEW v, <<n, v>> \in DebugForwards
    PROVE  n \in Named({"vkCmdBeginDebugUtilsLabelEXT", "vkCmdEndDebugUtilsLabelEXT",
                 "vkCmdInsertDebugUtilsLabelEXT", "vkSetDebugUtilsObjectNameEXT",
                 "vkSetDebugUtilsObjectTagEXT"}) /\ v = "native"
BY OnPair, Zenon DEF DebugForwards

LEMMA DeviceForwardsCases ==
    ASSUME NEW n, NEW v, <<n, v>> \in DeviceForwards
    PROVE  \/ n \in Khr({"vkGetPhysicalDeviceFeatures2",
                 "vkGetPhysicalDeviceProperties2"}) \cup Named({"vkGetPhysicalDeviceFeatures",
                 "vkGetPhysicalDeviceProperties",
                 "vkEnumerateDeviceExtensionProperties"}) /\ v = "features"
           \/ n \in Named({"vkCreateDevice", "vkDestroyDevice"}) /\ v = "device"
BY OnPair, Zenon DEF DeviceForwards

LEMMA QueueForwardsCases ==
    ASSUME NEW n, NEW v, <<n, v>> \in QueueForwards
    PROVE  \/ n \in Named({"vkGetDeviceQueue", "vkGetDeviceQueue2"}) /\ v = "queue"
           \/ n \in Named({"vkQueueSubmit", "vkQueueWaitIdle", "vkDeviceWaitIdle"}) /\ v = "submit"
           \/ n \in Named({"vkQueueBindSparse", "vkGetFenceStatus",
                 "vkWaitForFences"}) /\ v = "scheduled"
BY OnPair, Zenon DEF QueueForwards

LEMMA PassEntriesCases ==
    ASSUME NEW n, NEW v, <<n, v>> \in PassEntries
    PROVE  \/ n \in Named({"vkCreateRenderPass"}) /\ v = <<"layouts", "tiler">>
           \/ n \in Named({"vkDestroyRenderPass"}) /\ v = <<"tiler">>
BY OnPair, Zenon DEF PassEntries

LEMMA FramebufferEntriesCases ==
    ASSUME NEW n, NEW v, <<n, v>> \in FramebufferEntries
    PROVE  n \in Named({"vkCreateFramebuffer", "vkDestroyFramebuffer"}) /\ v = <<"imageless">>
BY OnPair, Zenon DEF FramebufferEntries

LEMMA ObjectEntriesCases ==
    ASSUME NEW n, NEW v, <<n, v>> \in ObjectEntries
    PROVE  \/ n \in Named({"vkCreateBuffer", "vkDestroyBuffer",
                           "vkCreateCommandPool"}) /\ v = <<"store">>
           \/ n \in Named({"vkDestroyShaderModule"}) /\ v = <<"store", "copies">>
           \/ /\ n \in Named({"vkDestroyCommandPool"})
              /\ v = <<"dead_records", "tiler", "push", "store">>
           \/ /\ n \in Named({"vkResetCommandPool"})
              /\ v = <<"store", "dead_records", "tiler", "push">>
           \/ n \in Named({"vkEndCommandBuffer"}) /\ v = <<"push", "store">>
BY OnPair DEF ObjectEntries

LEMMA BindEntriesCases ==
    ASSUME NEW n, NEW v, <<n, v>> \in BindEntries
    PROVE  \/ n \in Named({"vkCmdBindDescriptorSets"}) /\ v = <<"push", "store">>
           \/ n \in Named({"vkCmdBindIndexBuffer"}) /\ v = <<"store">>
           \/ n \in Named({"vkCmdPushConstants"}) /\ v = <<"store">>
BY OnPair, Zenon DEF BindEntries

LEMMA QueryEntriesCases ==
    ASSUME NEW n, NEW v, <<n, v>> \in QueryEntries
    PROVE  \/ n \in Named({"vkCmdBeginQuery", "vkCmdEndQuery"}) /\ v = <<"store", "tiler",
                           "action">>
           \/ n \in Named({"vkCmdBeginQueryIndexedEXT", "vkCmdEndQueryIndexedEXT",
                 "vkCmdBeginTransformFeedbackEXT",
                 "vkCmdEndTransformFeedbackEXT"}) /\ v = <<"action", "tiler">>
BY OnPair DEF QueryEntries

LEMMA Bind2EntriesCases ==
    ASSUME NEW n, NEW v, <<n, v>> \in Bind2Entries
    PROVE  \/ n \in Khr({"vkCmdBindDescriptorSets2"}) /\ v = <<"push", "store">>
           \/ n \in Khr({"vkCmdPushConstants2", "vkCmdBindIndexBuffer2"}) /\ v = <<"store">>
BY OnPair, Zenon DEF Bind2Entries

LEMMA ConditionalEntriesCases ==
    ASSUME NEW n, NEW v, <<n, v>> \in ConditionalEntries
    PROVE  n \in Named({"vkCmdBeginConditionalRenderingEXT",
                 "vkCmdEndConditionalRenderingEXT"}) /\ v = <<"store", "tiler">>
BY OnPair, Zenon DEF ConditionalEntries

LEMMA MultiDrawEntriesCases ==
    ASSUME NEW n, NEW v, <<n, v>> \in MultiDrawEntries
    PROVE  n \in Named({"vkCmdDrawMultiEXT", "vkCmdDrawMultiIndexedEXT",
                 "vkCreateShadersEXT"}) /\ v = <<"store">>
BY OnPair, Zenon DEF MultiDrawEntries

LEMMA ViewportEntryCases ==
    ASSUME NEW n, NEW v, <<n, v>> \in ViewportEntry
    PROVE  n \in Named({"vkCmdSetViewport"}) /\ v = <<"action", "viewport">>
BY OnPair, Zenon DEF ViewportEntry

LEMMA ShaderEntriesCases ==
    ASSUME NEW n, NEW v, <<n, v>> \in ShaderEntries
    PROVE  n \in Named({"vkCreateShaderModule"}) /\ v = <<"store", "copies">>
BY OnPair, Zenon DEF ShaderEntries


\* The dispatchers.
LEMMA DrawHooksCases ==
    ASSUME NEW n, NEW v, <<n, v>> \in DrawHooks
    PROVE  n \in {"draw"} /\ v = <<"tiler", "store", "action", "viewport", "fast_draw", "divisor">>
BY OnPair DEF DrawHooks

LEMMA IndirectHooksCases ==
    ASSUME NEW n, NEW v, <<n, v>> \in IndirectHooks
    PROVE  /\ n \in {"draw_indirect"}
           /\ v = <<"tiler", "store", "action", "viewport", "fast_indirect", "indirect">>
BY OnPair DEF IndirectHooks

LEMMA BindHooksCases ==
    ASSUME NEW n, NEW v, <<n, v>> \in BindHooks
    PROVE  \/ n \in {"bind_pipeline"} /\ v = <<"store", "fast_draw", "divisor", "viewport", "base">>
           \/ n \in {"bind_vertices"} /\ v = <<"store", "fast_draw", "divisor">>
BY OnPair DEF BindHooks

LEMMA RenderingHooksCases ==
    ASSUME NEW n, NEW v, <<n, v>> \in RenderingHooks
    PROVE  \/ n \in {"rendering"} /\ v = <<"store", "action", "rendering">>
           \/ n \in {"destroy_pipeline"} /\ v = <<"store", "divisor", "base">>
BY OnPair DEF RenderingHooks

LEMMA PassHooksCases ==
    ASSUME NEW n, NEW v, <<n, v>> \in PassHooks
    PROVE  \/ n \in {"begin_pass"} /\ v = <<"store", "action", "imageless", "tiler">>
           \/ n \in {"next_subpass"} /\ v = <<"tiler", "action">>
           \/ n \in {"end_pass"} /\ v = <<"tiler", "store", "action">>
BY OnPair DEF PassHooks

LEMMA TransferHooksCases ==
    ASSUME NEW n, NEW v, <<n, v>> \in TransferHooks
    PROVE  \/ n \in {"act"} /\ v = <<"action">>
           \/ n \in {"act_on_image"} /\ v = <<"action", "layouts">>
BY OnPair DEF TransferHooks

LEMMA EventHooksCases ==
    ASSUME NEW n, NEW v, <<n, v>> \in EventHooks
    PROVE  n \in {"sync2_command"} /\ v = <<"action", "sync2">>
BY OnPair DEF EventHooks

LEMMA BarrierHooksCases ==
    ASSUME NEW n, NEW v, <<n, v>> \in BarrierHooks
    PROVE  \/ n \in {"barrier"} /\ v = <<"barriers", "layouts">>
           \/ n \in {"barrier2"} /\ v = <<"barriers", "layouts", "sync2">>
BY OnPair DEF BarrierHooks

LEMMA SubmitHooksCases ==
    ASSUME NEW n, NEW v, <<n, v>> \in SubmitHooks
    PROVE  \/ n \in {"submit2"} /\ v = <<"sync2">>
           \/ n \in {"submit"} /\ v = <<"scheduler", "timeline">>
           \/ n \in {"scheduled"} /\ v = <<"scheduler">>
BY OnPair DEF SubmitHooks

LEMMA SemaphoreHooksCases ==
    ASSUME NEW n, NEW v, <<n, v>> \in SemaphoreHooks
    PROVE  n \in {"semaphore"} /\ v = <<"timeline">>
BY OnPair DEF SemaphoreHooks

LEMMA ResetHooksCases ==
    ASSUME NEW n, NEW v, <<n, v>> \in ResetHooks
    PROVE  n \in {"reset_query_pool"} /\ v = <<"reset">>
BY OnPair DEF ResetHooks

LEMMA Pass2HooksCases ==
    ASSUME NEW n, NEW v, <<n, v>> \in Pass2Hooks
    PROVE  \/ n \in {"create_pass2"} /\ v = <<"pass2", "tiler">>
           \/ n \in {"begin_pass2"} /\ v = <<"store", "action", "imageless", "tiler", "pass2">>
           \/ n \in {"next_subpass2"} /\ v = <<"tiler", "action", "pass2">>
           \/ n \in {"end_pass2"} /\ v = <<"tiler", "store", "action", "pass2">>
BY OnPair DEF Pass2Hooks

LEMMA CountHooksCases ==
    ASSUME NEW n, NEW v, <<n, v>> \in CountHooks
    PROVE  n \in {"draw_count"} /\ v = <<"tiler", "store", "action", "viewport", "count">>
BY OnPair DEF CountHooks

LEMMA AddressHooksCases ==
    ASSUME NEW n, NEW v, <<n, v>> \in AddressHooks
    PROVE  \/ n \in {"address"} /\ v = <<"address">>
           \/ n \in {"native"} /\ v = <<>>
BY OnPair DEF AddressHooks

LEMMA MemoryHooksCases ==
    ASSUME NEW n, NEW v, <<n, v>> \in MemoryHooks
    PROVE  n \in {"bind_memory2"} /\ v = <<"memory2">>
BY OnPair DEF MemoryHooks

LEMMA RequirementHooksCases ==
    ASSUME NEW n, NEW v, <<n, v>> \in RequirementHooks
    PROVE  n \in {"requirements2"} /\ v = <<"requirements2">>
BY OnPair DEF RequirementHooks

LEMMA UpdateHooksCases ==
    ASSUME NEW n, NEW v, <<n, v>> \in UpdateHooks
    PROVE  \/ n \in {"update"} /\ v = <<"template">>
           \/ n \in {"layout_support"} /\ v = <<"store", "push", "maintenance">>
BY OnPair DEF UpdateHooks

LEMMA GroupHooksCases ==
    ASSUME NEW n, NEW v, <<n, v>> \in GroupHooks
    PROVE  \/ n \in {"dispatch_base"} /\ v = <<"action", "base", "group">>
           \/ n \in {"group"} /\ v = <<"group">>
           \/ n \in {"trim"} /\ v = <<"maintenance">>
BY OnPair DEF GroupHooks

LEMMA PushHooksCases ==
    ASSUME NEW n, NEW v, <<n, v>> \in PushHooks
    PROVE  n \in {"push"} /\ v = <<"push">>
BY OnPair DEF PushHooks

LEMMA PipelineHooksCases ==
    ASSUME NEW n, NEW v, <<n, v>> \in PipelineHooks
    PROVE  \/ /\ n \in {"graphics_pipelines"}
              /\ v = <<"store", "cache", "fill", "divisor", "rendering", "viewport">>
           \/ n \in {"compute_pipelines"} /\ v = <<"cache", "base">>
BY OnPair DEF PipelineHooks

LEMMA CacheHooksCases ==
    ASSUME NEW n, NEW v, <<n, v>> \in CacheHooks
    PROVE  n \in {"pipeline_cache"} /\ v = <<"cache">>
BY OnPair DEF CacheHooks

LEMMA LayoutHooksCases ==
    ASSUME NEW n, NEW v, <<n, v>> \in LayoutHooks
    PROVE  n \in {"layout"} /\ v = <<"store", "push">>
BY OnPair DEF LayoutHooks

LEMMA CommandHooksCases ==
    ASSUME NEW n, NEW v, <<n, v>> \in CommandHooks
    PROVE  \/ n \in {"allocate_commands"} /\ v = <<"store", "records", "modules">>
           \/ n \in {"free_commands"} /\ v = <<"store", "records", "barriers", "modules">>
           \/ n \in {"begin_commands"} /\ v = <<"store", "barriers", "modules", "rendering">>
           \/ n \in {"reset_commands"} /\ v = <<"store", "barriers", "modules">>
BY OnPair DEF CommandHooks

LEMMA TemplateHooksCases ==
    ASSUME NEW n, NEW v, <<n, v>> \in TemplateHooks
    PROVE  n \in {"template"} /\ v = <<"push", "template">>
BY OnPair DEF TemplateHooks

LEMMA ImageHooksCases ==
    ASSUME NEW n, NEW v, <<n, v>> \in ImageHooks
    PROVE  \/ n \in {"image"} /\ v = <<"store", "rendering">>
           \/ n \in {"destroy_view"} /\ v = <<"store", "rendering", "imageless">>
           \/ n \in {"sampler"} /\ v = <<"anisotropy">>
BY OnPair DEF ImageHooks

LEMMA QueueHooksCases ==
    ASSUME NEW n, NEW v, <<n, v>> \in QueueHooks
    PROVE  n \in {"queue"} /\ v = <<"records">>
BY OnPair DEF QueueHooks

LEMMA SwapchainHooksCases ==
    ASSUME NEW n, NEW v, <<n, v>> \in SwapchainHooks
    PROVE  n \in {"swapchain"} /\ v = <<"swapchain">>
BY OnPair DEF SwapchainHooks

LEMMA SurfaceHooksCases ==
    ASSUME NEW n, NEW v, <<n, v>> \in SurfaceHooks
    PROVE  n \in {"surface"} /\ v = <<"swapchain">>
BY OnPair DEF SurfaceHooks

LEMMA PresentHooksCases ==
    ASSUME NEW n, NEW v, <<n, v>> \in PresentHooks
    PROVE  n \in {"present"} /\ v = <<"scheduler", "push", "swapchain", "store">>
BY OnPair DEF PresentHooks

LEMMA DeviceHooksCases ==
    ASSUME NEW n, NEW v, <<n, v>> \in DeviceHooks
    PROVE  \/ n \in {"device"} /\ v = <<"modules">>
           \/ n \in {"features"} /\ v = <<"modules">>
BY OnPair DEF DeviceHooks

LEMMA Hooked ==
    ASSUME NEW n, NEW v, <<n, v>>
             \in DrawHooks \cup IndirectHooks \cup BindHooks \cup RenderingHooks \cup PassHooks
             \cup TransferHooks \cup EventHooks \cup BarrierHooks \cup SubmitHooks
             \cup SemaphoreHooks \cup ResetHooks \cup Pass2Hooks \cup CountHooks
             \cup AddressHooks \cup MemoryHooks \cup RequirementHooks \cup UpdateHooks
             \cup GroupHooks \cup PushHooks \cup PipelineHooks \cup CacheHooks \cup LayoutHooks
             \cup CommandHooks \cup TemplateHooks \cup ImageHooks \cup QueueHooks
             \cup SwapchainHooks \cup SurfaceHooks \cup PresentHooks \cup DeviceHooks
    PROVE  n \in DOMAIN Dispatchers
<1>. DEFINE table ==
           DrawHooks \cup IndirectHooks \cup BindHooks \cup RenderingHooks \cup PassHooks
           \cup TransferHooks \cup EventHooks \cup BarrierHooks \cup SubmitHooks \cup SemaphoreHooks
           \cup ResetHooks \cup Pass2Hooks \cup CountHooks \cup AddressHooks \cup MemoryHooks
           \cup RequirementHooks \cup UpdateHooks \cup GroupHooks \cup PushHooks \cup PipelineHooks
           \cup CacheHooks \cup LayoutHooks \cup CommandHooks \cup TemplateHooks \cup ImageHooks
           \cup QueueHooks \cup SwapchainHooks \cup SurfaceHooks \cup PresentHooks \cup DeviceHooks
<1>1. <<n, v>> \in table /\ <<n, v>>[1] = n
  BY Zenon
<1>. HIDE DEF table
<1>2. n \in DOMAIN Lookup(table)
  BY <1>1 DEF Lookup, Listed
<1>. QED  BY <1>2 DEF Dispatchers, table

DispatcherNames == {"draw", "draw_indirect", "bind_pipeline", "bind_vertices", "rendering",
                    "destroy_pipeline", "begin_pass", "next_subpass", "end_pass", "act",
                    "act_on_image", "sync2_command", "barrier", "barrier2", "submit2", "submit",
                    "scheduled", "semaphore", "reset_query_pool", "create_pass2", "begin_pass2",
                    "next_subpass2", "end_pass2", "draw_count", "address", "native", "bind_memory2",
                    "requirements2", "update", "layout_support", "dispatch_base", "group", "trim",
                    "push", "graphics_pipelines", "compute_pipelines", "pipeline_cache", "layout",
                    "allocate_commands", "free_commands", "begin_commands", "reset_commands",
                    "template", "image", "destroy_view", "sampler", "queue", "swapchain", "surface",
                    "present", "device", "features"}
LEMMA DispatchersNamed == DispatcherNames \subseteq DOMAIN Dispatchers
<1>1. {"draw"} \subseteq DOMAIN Dispatchers
  BY Hooked DEF DrawHooks, On
<1>2. {"draw_indirect"} \subseteq DOMAIN Dispatchers
  BY Hooked DEF IndirectHooks, On
<1>3. {"bind_pipeline", "bind_vertices"} \subseteq DOMAIN Dispatchers
  BY Hooked DEF BindHooks, On
<1>4. {"rendering", "destroy_pipeline"} \subseteq DOMAIN Dispatchers
  BY Hooked DEF RenderingHooks, On
<1>5. {"begin_pass", "next_subpass", "end_pass"} \subseteq DOMAIN Dispatchers
  BY Hooked DEF PassHooks, On
<1>6. {"act", "act_on_image"} \subseteq DOMAIN Dispatchers
  BY Hooked DEF TransferHooks, On
<1>7. {"sync2_command"} \subseteq DOMAIN Dispatchers
  BY Hooked DEF EventHooks, On
<1>8. {"barrier", "barrier2"} \subseteq DOMAIN Dispatchers
  BY Hooked DEF BarrierHooks, On
<1>9. {"submit2", "submit", "scheduled"} \subseteq DOMAIN Dispatchers
  BY Hooked DEF SubmitHooks, On
<1>10. {"semaphore"} \subseteq DOMAIN Dispatchers
  BY Hooked DEF SemaphoreHooks, On
<1>11. {"reset_query_pool"} \subseteq DOMAIN Dispatchers
  BY Hooked DEF ResetHooks, On
<1>12. {"create_pass2", "begin_pass2", "next_subpass2", "end_pass2"} \subseteq DOMAIN Dispatchers
  BY Hooked DEF Pass2Hooks, On
<1>13. {"draw_count"} \subseteq DOMAIN Dispatchers
  BY Hooked DEF CountHooks, On
<1>14. {"address", "native"} \subseteq DOMAIN Dispatchers
  BY Hooked DEF AddressHooks, On
<1>15. {"bind_memory2"} \subseteq DOMAIN Dispatchers
  BY Hooked DEF MemoryHooks, On
<1>16. {"requirements2"} \subseteq DOMAIN Dispatchers
  BY Hooked DEF RequirementHooks, On
<1>17. {"update", "layout_support"} \subseteq DOMAIN Dispatchers
  BY Hooked DEF UpdateHooks, On
<1>18. {"dispatch_base", "group", "trim"} \subseteq DOMAIN Dispatchers
  BY Hooked DEF GroupHooks, On
<1>19. {"push"} \subseteq DOMAIN Dispatchers
  BY Hooked DEF PushHooks, On
<1>20. {"graphics_pipelines", "compute_pipelines"} \subseteq DOMAIN Dispatchers
  BY Hooked DEF PipelineHooks, On
<1>21. {"pipeline_cache"} \subseteq DOMAIN Dispatchers
  BY Hooked DEF CacheHooks, On
<1>22. {"layout"} \subseteq DOMAIN Dispatchers
  BY Hooked DEF LayoutHooks, On
<1>23. {"allocate_commands", "free_commands", "begin_commands", "reset_commands"}
        \subseteq DOMAIN Dispatchers
  BY Hooked DEF CommandHooks, On
<1>24. {"template"} \subseteq DOMAIN Dispatchers
  BY Hooked DEF TemplateHooks, On
<1>25. {"image", "destroy_view", "sampler"} \subseteq DOMAIN Dispatchers
  BY Hooked DEF ImageHooks, On
<1>26. {"queue"} \subseteq DOMAIN Dispatchers
  BY Hooked DEF QueueHooks, On
<1>27. {"swapchain"} \subseteq DOMAIN Dispatchers
  BY Hooked DEF SwapchainHooks, On
<1>28. {"surface"} \subseteq DOMAIN Dispatchers
  BY Hooked DEF SurfaceHooks, On
<1>29. {"present"} \subseteq DOMAIN Dispatchers
  BY Hooked DEF PresentHooks, On
<1>30. {"device", "features"} \subseteq DOMAIN Dispatchers
  BY Hooked DEF DeviceHooks, On
<1>. QED  BY <1>1, <1>2, <1>3, <1>4, <1>5, <1>6, <1>7, <1>8, <1>9, <1>10, <1>11, <1>12, <1>13,
              <1>14, <1>15, <1>16, <1>17, <1>18, <1>19, <1>20, <1>21, <1>22, <1>23,
              <1>24, <1>25, <1>26, <1>27, <1>28, <1>29, <1>30 DEF DispatcherNames


\* No function is in both tables of functions.
LEMMA NamedBase == ASSUME NEW names, NEW n \in Named(names) PROVE n[1] \in names
BY BaseIn DEF Named

LEMMA KhrBase == ASSUME NEW names, NEW n \in Khr(names) PROVE n[1] \in names
BY BaseIn DEF Khr

EntryBases == {"vkCmdBeginConditionalRenderingEXT", "vkCmdBeginQuery", "vkCmdBeginQueryIndexedEXT",
               "vkCmdBeginTransformFeedbackEXT", "vkCmdBindDescriptorSets",
               "vkCmdBindDescriptorSets2", "vkCmdBindIndexBuffer", "vkCmdBindIndexBuffer2",
               "vkCmdDrawMultiEXT", "vkCmdDrawMultiIndexedEXT", "vkCmdEndConditionalRenderingEXT",
               "vkCmdEndQuery", "vkCmdEndQueryIndexedEXT", "vkCmdEndTransformFeedbackEXT",
               "vkCmdPushConstants", "vkCmdPushConstants2", "vkCmdSetViewport", "vkCreateBuffer",
               "vkCreateCommandPool", "vkCreateFramebuffer", "vkCreateRenderPass",
               "vkCreateShaderModule", "vkCreateShadersEXT", "vkDestroyBuffer",
               "vkDestroyCommandPool", "vkDestroyFramebuffer", "vkDestroyRenderPass",
               "vkDestroyShaderModule", "vkEndCommandBuffer", "vkResetCommandPool"}

LEMMA EntryBased == ASSUME NEW n \in DOMAIN Entries PROVE n[1] \in EntryBases
<1>1. CASE <<n, Entries[n]>> \in PassEntries
  BY <1>1, PassEntriesCases, NamedBase, KhrBase DEF EntryBases
<1>2. CASE <<n, Entries[n]>> \in FramebufferEntries
  BY <1>2, FramebufferEntriesCases, NamedBase, KhrBase DEF EntryBases
<1>3. CASE <<n, Entries[n]>> \in ObjectEntries
  BY <1>3, ObjectEntriesCases, NamedBase, KhrBase DEF EntryBases
<1>4. CASE <<n, Entries[n]>> \in BindEntries
  BY <1>4, BindEntriesCases, NamedBase, KhrBase DEF EntryBases
<1>5. CASE <<n, Entries[n]>> \in QueryEntries
  BY <1>5, QueryEntriesCases, NamedBase, KhrBase DEF EntryBases
<1>6. CASE <<n, Entries[n]>> \in Bind2Entries
  BY <1>6, Bind2EntriesCases, NamedBase, KhrBase DEF EntryBases
<1>7. CASE <<n, Entries[n]>> \in ConditionalEntries
  BY <1>7, ConditionalEntriesCases, NamedBase, KhrBase DEF EntryBases
<1>8. CASE <<n, Entries[n]>> \in MultiDrawEntries
  BY <1>8, MultiDrawEntriesCases, NamedBase, KhrBase DEF EntryBases
<1>9. CASE <<n, Entries[n]>> \in ViewportEntry
  BY <1>9, ViewportEntryCases, NamedBase, KhrBase DEF EntryBases
<1>10. CASE <<n, Entries[n]>> \in ShaderEntries
  BY <1>10, ShaderEntriesCases, NamedBase, KhrBase DEF EntryBases
<1>. QED  BY Entered, <1>1, <1>2, <1>3, <1>4, <1>5, <1>6, <1>7, <1>8, <1>9, <1>10

\* What a function is forwarded to.
Forwarding(n, v) ==
    /\ n[1] \notin EntryBases /\ v \in DispatcherNames
    /\ n[1] \in {"vkCmdBindVertexBuffers", "vkCmdBindVertexBuffers2"} => v = "bind_vertices"
    /\ n[1] = "vkCmdPipelineBarrier" => v = "barrier"
    /\ n[1] = "vkCmdPipelineBarrier2" => v = "barrier2"
    /\ n[1] = "vkCmdSetDeviceMask" => v = "group"
    /\ n[1] = "vkCmdDispatchBase" => v = "dispatch_base"
    /\ v = "draw_count" =>
          n \in With({"vkCmdDrawIndirectCount", "vkCmdDrawIndexedIndirectCount"}, {"KHR", "AMD"})
    /\ v = "sync2_command" =>
          n \in Khr({"vkCmdSetEvent2", "vkCmdResetEvent2", "vkCmdWaitEvents2",
                     "vkCmdWriteTimestamp2"})
    /\ v = "create_pass2" => n \in Khr({"vkCreateRenderPass2"})
    /\ v = "begin_pass2" => n \in Khr({"vkCmdBeginRenderPass2"})
    /\ v = "next_subpass2" => n \in Khr({"vkCmdNextSubpass2"})
    /\ v = "end_pass2" => n \in Khr({"vkCmdEndRenderPass2"})

LEMMA ForwardedTo == ASSUME NEW n \in DOMAIN Forwards PROVE Forwarding(n, Forwards[n])
<1>1. CASE <<n, Forwards[n]>> \in DrawForwards
  BY <1>1, DrawForwardsCases, NamedBase, KhrBase, BaseIn DEF Forwarding, EntryBases, DispatcherNames
<1>2. CASE <<n, Forwards[n]>> \in DispatchForwards
  BY <1>2, DispatchForwardsCases, NamedBase, KhrBase, BaseIn DEF Forwarding, EntryBases,
     DispatcherNames
<1>3. CASE <<n, Forwards[n]>> \in TransferForwards
  BY <1>3, TransferForwardsCases, NamedBase, KhrBase, BaseIn DEF Forwarding, EntryBases,
     DispatcherNames
<1>4. CASE <<n, Forwards[n]>> \in ClearForwards
  BY <1>4, ClearForwardsCases, NamedBase, KhrBase, BaseIn DEF Forwarding, EntryBases,
     DispatcherNames
<1>5. CASE <<n, Forwards[n]>> \in SyncForwards
  BY <1>5, SyncForwardsCases, NamedBase, KhrBase, BaseIn DEF Forwarding, EntryBases, DispatcherNames
<1>6. CASE <<n, Forwards[n]>> \in CoreForwards
  BY <1>6, CoreForwardsCases, NamedBase, KhrBase, BaseIn DEF Forwarding, EntryBases, DispatcherNames
<1>7. CASE <<n, Forwards[n]>> \in SemaphoreForwards
  BY <1>7, SemaphoreForwardsCases, NamedBase, KhrBase, BaseIn DEF Forwarding, EntryBases,
     DispatcherNames
<1>8. CASE <<n, Forwards[n]>> \in CountForwards
  BY <1>8, CountForwardsCases, NamedBase, KhrBase, BaseIn DEF Forwarding, EntryBases,
     DispatcherNames
<1>9. CASE <<n, Forwards[n]>> \in MemoryForwards
  BY <1>9, MemoryForwardsCases, NamedBase, KhrBase, BaseIn DEF Forwarding, EntryBases,
     DispatcherNames
<1>10. CASE <<n, Forwards[n]>> \in GroupForwards
  BY <1>10, GroupForwardsCases, NamedBase, KhrBase, BaseIn DEF Forwarding, EntryBases,
     DispatcherNames
<1>11. CASE <<n, Forwards[n]>> \in PhysicalForwards
  BY <1>11, PhysicalForwardsCases, NamedBase, KhrBase, BaseIn DEF Forwarding, EntryBases,
     DispatcherNames
<1>12. CASE <<n, Forwards[n]>> \in SurfaceForwards
  BY <1>12, SurfaceForwardsCases, NamedBase, KhrBase, BaseIn DEF Forwarding, EntryBases,
     DispatcherNames
<1>13. CASE <<n, Forwards[n]>> \in ObjectForwards
  BY <1>13, ObjectForwardsCases, NamedBase, KhrBase, BaseIn DEF Forwarding, EntryBases,
     DispatcherNames
<1>14. CASE <<n, Forwards[n]>> \in UpdateForwards
  BY <1>14, UpdateForwardsCases, NamedBase, KhrBase, BaseIn DEF Forwarding, EntryBases,
     DispatcherNames
<1>15. CASE <<n, Forwards[n]>> \in ImageForwards
  BY <1>15, ImageForwardsCases, NamedBase, KhrBase, BaseIn DEF Forwarding, EntryBases,
     DispatcherNames
<1>16. CASE <<n, Forwards[n]>> \in DebugForwards
  BY <1>16, DebugForwardsCases, NamedBase, KhrBase, BaseIn DEF Forwarding, EntryBases,
     DispatcherNames
<1>17. CASE <<n, Forwards[n]>> \in DeviceForwards
  BY <1>17, DeviceForwardsCases, NamedBase, KhrBase, BaseIn DEF Forwarding, EntryBases,
     DispatcherNames
<1>18. CASE <<n, Forwards[n]>> \in QueueForwards
  BY <1>18, QueueForwardsCases, NamedBase, KhrBase, BaseIn DEF Forwarding, EntryBases,
     DispatcherNames
<1>. QED  BY Forwarded, <1>1, <1>2, <1>3, <1>4, <1>5, <1>6, <1>7, <1>8, <1>9, <1>10, <1>11, <1>12,
              <1>13, <1>14, <1>15, <1>16, <1>17, <1>18, Zenon


\* What the dispatchers consult.
Plain(h) == SubSeq(h, 1, Len(h)) = h
Fits(h, S) == ToSet(h) = S /\ h \in Seq(S)

LEMMA NoneOf == Fits(<<>>, {})
BY DEF ToSet, Fits

LEMMA OneOf == ASSUME NEW p PROVE Fits(<<p>>, {p})
BY DEF ToSet, Fits

LEMMA TwoOf == ASSUME NEW p, NEW q PROVE Fits(<<p, q>>, {p, q})
BY DEF ToSet, Fits

LEMMA ThreeOf == ASSUME NEW p, NEW q, NEW r PROVE Fits(<<p, q, r>>, {p, q, r})
BY DEF ToSet, Fits

LEMMA FourOf ==
    ASSUME NEW p, NEW q, NEW r, NEW s
    PROVE  Fits(<<p, q, r, s>>, {p, q, r, s})
BY DEF ToSet, Fits

LEMMA FiveOf ==
    ASSUME NEW p, NEW q, NEW r, NEW s, NEW t
    PROVE  Fits(<<p, q, r, s, t>>, {p, q, r, s, t})
BY DEF ToSet, Fits

LEMMA SixOf ==
    ASSUME NEW p, NEW q, NEW r, NEW s, NEW t, NEW u
    PROVE  Fits(<<p, q, r, s, t, u>>, {p, q, r, s, t, u})
BY DEF ToSet, Fits

LEMMA PlainFits == ASSUME NEW h, NEW S, Fits(h, S) PROVE Plain(h)
BY DEF Fits, Plain

Consults(x, h) ==
    /\ Plain(h)
    /\ x = "bind_vertices" => Fits(h, {"store", "fast_draw", "divisor"})
    /\ x = "barrier" => Fits(h, {"barriers", "layouts"})
    /\ x = "barrier2" => Fits(h, {"barriers", "layouts", "sync2"})
    /\ x = "rendering" => Fits(h, {"store", "action", "rendering"})
    /\ x = "push" => Fits(h, {"push"})
    /\ x = "begin_pass2" => Fits(h, {"store", "action", "imageless", "tiler", "pass2"})
    /\ x = "next_subpass2" => Fits(h, {"tiler", "action", "pass2"})
    /\ x = "end_pass2" => Fits(h, {"tiler", "store", "action", "pass2"})
    /\ x = "create_pass2" => Fits(h, {"pass2", "tiler"})
    /\ x = "dispatch_base" => Fits(h, {"action", "base", "group"})
    /\ x = "group" => Fits(h, {"group"})
    /\ x = "sync2_command" => Fits(h, {"action", "sync2"})
    /\ x = "submit2" => Fits(h, {"sync2"})
    /\ x = "semaphore" => Fits(h, {"timeline"})
    /\ x = "address" => Fits(h, {"address"})
    /\ x = "reset_query_pool" => Fits(h, {"reset"})

LEMMA DispatcherConsults == ASSUME NEW x \in DOMAIN Dispatchers PROVE Consults(x, Dispatchers[x])
<1>1. CASE <<x, Dispatchers[x]>> \in DrawHooks
  <2>1. Fits(<<"tiler", "store", "action", "viewport", "fast_draw", "divisor">>, {"tiler", "store",
  "action", "viewport", "fast_draw", "divisor"}) /\ Plain(<<"tiler", "store", "action", "viewport",
  "fast_draw", "divisor">>)
    BY SixOf, PlainFits, Zenon
  <2>. QED  BY <1>1, <2>1, DrawHooksCases DEF Consults
<1>2. CASE <<x, Dispatchers[x]>> \in IndirectHooks
  <2>1. Fits(<<"tiler", "store", "action", "viewport", "fast_indirect", "indirect">>, {"tiler",
  "store", "action", "viewport", "fast_indirect", "indirect"}) /\ Plain(<<"tiler", "store",
  "action", "viewport", "fast_indirect", "indirect">>)
    BY SixOf, PlainFits, Zenon
  <2>. QED  BY <1>2, <2>1, IndirectHooksCases DEF Consults
<1>3. CASE <<x, Dispatchers[x]>> \in BindHooks
  <2>1. Fits(<<"store", "fast_draw", "divisor", "viewport", "base">>, {"store", "fast_draw",
  "divisor", "viewport", "base"}) /\ Plain(<<"store", "fast_draw", "divisor", "viewport", "base">>)
    BY FiveOf, PlainFits, Zenon
  <2>2. Fits(<<"store", "fast_draw", "divisor">>, {"store", "fast_draw",
  "divisor"}) /\ Plain(<<"store", "fast_draw", "divisor">>)
    BY ThreeOf, PlainFits, Zenon
  <2>. QED  BY <1>3, <2>1, <2>2, BindHooksCases DEF Consults
<1>4. CASE <<x, Dispatchers[x]>> \in RenderingHooks
  <2>1. Fits(<<"store", "action", "rendering">>, {"store", "action",
  "rendering"}) /\ Plain(<<"store", "action", "rendering">>)
    BY ThreeOf, PlainFits, Zenon
  <2>2. Fits(<<"store", "divisor", "base">>, {"store", "divisor", "base"}) /\ Plain(<<"store",
  "divisor", "base">>)
    BY ThreeOf, PlainFits, Zenon
  <2>. QED  BY <1>4, <2>1, <2>2, RenderingHooksCases DEF Consults
<1>5. CASE <<x, Dispatchers[x]>> \in PassHooks
  <2>1. Fits(<<"store", "action", "imageless", "tiler">>, {"store", "action", "imageless",
  "tiler"}) /\ Plain(<<"store", "action", "imageless", "tiler">>)
    BY FourOf, PlainFits, Zenon
  <2>2. Fits(<<"tiler", "action">>, {"tiler", "action"}) /\ Plain(<<"tiler", "action">>)
    BY TwoOf, PlainFits, Zenon
  <2>3. Fits(<<"tiler", "store", "action">>, {"tiler", "store", "action"}) /\ Plain(<<"tiler",
  "store", "action">>)
    BY ThreeOf, PlainFits, Zenon
  <2>. QED  BY <1>5, <2>1, <2>2, <2>3, PassHooksCases DEF Consults
<1>6. CASE <<x, Dispatchers[x]>> \in TransferHooks
  <2>1. Fits(<<"action">>, {"action"}) /\ Plain(<<"action">>)
    BY OneOf, PlainFits, Zenon
  <2>2. Fits(<<"action", "layouts">>, {"action", "layouts"}) /\ Plain(<<"action", "layouts">>)
    BY TwoOf, PlainFits, Zenon
  <2>. QED  BY <1>6, <2>1, <2>2, TransferHooksCases DEF Consults
<1>7. CASE <<x, Dispatchers[x]>> \in EventHooks
  <2>1. Fits(<<"action", "sync2">>, {"action", "sync2"}) /\ Plain(<<"action", "sync2">>)
    BY TwoOf, PlainFits, Zenon
  <2>. QED  BY <1>7, <2>1, EventHooksCases DEF Consults
<1>8. CASE <<x, Dispatchers[x]>> \in BarrierHooks
  <2>1. Fits(<<"barriers", "layouts">>, {"barriers", "layouts"}) /\ Plain(<<"barriers", "layouts">>)
    BY TwoOf, PlainFits, Zenon
  <2>2. Fits(<<"barriers", "layouts", "sync2">>, {"barriers", "layouts",
  "sync2"}) /\ Plain(<<"barriers", "layouts", "sync2">>)
    BY ThreeOf, PlainFits, Zenon
  <2>. QED  BY <1>8, <2>1, <2>2, BarrierHooksCases DEF Consults
<1>9. CASE <<x, Dispatchers[x]>> \in SubmitHooks
  <2>1. Fits(<<"sync2">>, {"sync2"}) /\ Plain(<<"sync2">>)
    BY OneOf, PlainFits, Zenon
  <2>2. Fits(<<"scheduler", "timeline">>, {"scheduler", "timeline"}) /\ Plain(<<"scheduler",
  "timeline">>)
    BY TwoOf, PlainFits, Zenon
  <2>3. Fits(<<"scheduler">>, {"scheduler"}) /\ Plain(<<"scheduler">>)
    BY OneOf, PlainFits, Zenon
  <2>. QED  BY <1>9, <2>1, <2>2, <2>3, SubmitHooksCases DEF Consults
<1>10. CASE <<x, Dispatchers[x]>> \in SemaphoreHooks
  <2>1. Fits(<<"timeline">>, {"timeline"}) /\ Plain(<<"timeline">>)
    BY OneOf, PlainFits, Zenon
  <2>. QED  BY <1>10, <2>1, SemaphoreHooksCases DEF Consults
<1>11. CASE <<x, Dispatchers[x]>> \in ResetHooks
  <2>1. Fits(<<"reset">>, {"reset"}) /\ Plain(<<"reset">>)
    BY OneOf, PlainFits, Zenon
  <2>. QED  BY <1>11, <2>1, ResetHooksCases DEF Consults
<1>12. CASE <<x, Dispatchers[x]>> \in Pass2Hooks
  <2>1. Fits(<<"pass2", "tiler">>, {"pass2", "tiler"}) /\ Plain(<<"pass2", "tiler">>)
    BY TwoOf, PlainFits, Zenon
  <2>2. Fits(<<"store", "action", "imageless", "tiler", "pass2">>, {"store", "action", "imageless",
  "tiler", "pass2"}) /\ Plain(<<"store", "action", "imageless", "tiler", "pass2">>)
    BY FiveOf, PlainFits, Zenon
  <2>3. Fits(<<"tiler", "action", "pass2">>, {"tiler", "action", "pass2"}) /\ Plain(<<"tiler",
  "action", "pass2">>)
    BY ThreeOf, PlainFits, Zenon
  <2>4. Fits(<<"tiler", "store", "action", "pass2">>, {"tiler", "store", "action",
  "pass2"}) /\ Plain(<<"tiler", "store", "action", "pass2">>)
    BY FourOf, PlainFits, Zenon
  <2>. QED  BY <1>12, <2>1, <2>2, <2>3, <2>4, Pass2HooksCases DEF Consults
<1>13. CASE <<x, Dispatchers[x]>> \in CountHooks
  <2>1. Fits(<<"tiler", "store", "action", "viewport", "count">>, {"tiler", "store", "action",
  "viewport", "count"}) /\ Plain(<<"tiler", "store", "action", "viewport", "count">>)
    BY FiveOf, PlainFits, Zenon
  <2>. QED  BY <1>13, <2>1, CountHooksCases DEF Consults
<1>14. CASE <<x, Dispatchers[x]>> \in AddressHooks
  <2>1. Fits(<<"address">>, {"address"}) /\ Plain(<<"address">>)
    BY OneOf, PlainFits, Zenon
  <2>2. Fits(<<>>, {}) /\ Plain(<<>>)
    BY NoneOf, PlainFits, Zenon
  <2>. QED  BY <1>14, <2>1, <2>2, AddressHooksCases DEF Consults
<1>15. CASE <<x, Dispatchers[x]>> \in MemoryHooks
  <2>1. Fits(<<"memory2">>, {"memory2"}) /\ Plain(<<"memory2">>)
    BY OneOf, PlainFits, Zenon
  <2>. QED  BY <1>15, <2>1, MemoryHooksCases DEF Consults
<1>16. CASE <<x, Dispatchers[x]>> \in RequirementHooks
  <2>1. Fits(<<"requirements2">>, {"requirements2"}) /\ Plain(<<"requirements2">>)
    BY OneOf, PlainFits, Zenon
  <2>. QED  BY <1>16, <2>1, RequirementHooksCases DEF Consults
<1>17. CASE <<x, Dispatchers[x]>> \in UpdateHooks
  <2>1. Fits(<<"template">>, {"template"}) /\ Plain(<<"template">>)
    BY OneOf, PlainFits, Zenon
  <2>2. Fits(<<"store", "push", "maintenance">>, {"store", "push",
  "maintenance"}) /\ Plain(<<"store", "push", "maintenance">>)
    BY ThreeOf, PlainFits, Zenon
  <2>. QED  BY <1>17, <2>1, <2>2, UpdateHooksCases DEF Consults
<1>18. CASE <<x, Dispatchers[x]>> \in GroupHooks
  <2>1. Fits(<<"action", "base", "group">>, {"action", "base", "group"}) /\ Plain(<<"action",
  "base", "group">>)
    BY ThreeOf, PlainFits, Zenon
  <2>2. Fits(<<"group">>, {"group"}) /\ Plain(<<"group">>)
    BY OneOf, PlainFits, Zenon
  <2>3. Fits(<<"maintenance">>, {"maintenance"}) /\ Plain(<<"maintenance">>)
    BY OneOf, PlainFits, Zenon
  <2>. QED  BY <1>18, <2>1, <2>2, <2>3, GroupHooksCases DEF Consults
<1>19. CASE <<x, Dispatchers[x]>> \in PushHooks
  <2>1. Fits(<<"push">>, {"push"}) /\ Plain(<<"push">>)
    BY OneOf, PlainFits, Zenon
  <2>. QED  BY <1>19, <2>1, PushHooksCases DEF Consults
<1>20. CASE <<x, Dispatchers[x]>> \in PipelineHooks
  <2>1. Fits(<<"store", "cache", "fill", "divisor", "rendering", "viewport">>, {"store", "cache",
  "fill", "divisor", "rendering", "viewport"}) /\ Plain(<<"store", "cache", "fill", "divisor",
  "rendering", "viewport">>)
    BY SixOf, PlainFits, Zenon
  <2>2. Fits(<<"cache", "base">>, {"cache", "base"}) /\ Plain(<<"cache", "base">>)
    BY TwoOf, PlainFits, Zenon
  <2>. QED  BY <1>20, <2>1, <2>2, PipelineHooksCases DEF Consults
<1>21. CASE <<x, Dispatchers[x]>> \in CacheHooks
  <2>1. Fits(<<"cache">>, {"cache"}) /\ Plain(<<"cache">>)
    BY OneOf, PlainFits, Zenon
  <2>. QED  BY <1>21, <2>1, CacheHooksCases DEF Consults
<1>22. CASE <<x, Dispatchers[x]>> \in LayoutHooks
  <2>1. Fits(<<"store", "push">>, {"store", "push"}) /\ Plain(<<"store", "push">>)
    BY TwoOf, PlainFits, Zenon
  <2>. QED  BY <1>22, <2>1, LayoutHooksCases DEF Consults
<1>23. CASE <<x, Dispatchers[x]>> \in CommandHooks
  <2>1. Fits(<<"store", "records", "modules">>, {"store", "records",
  "modules"}) /\ Plain(<<"store", "records", "modules">>)
    BY ThreeOf, PlainFits, Zenon
  <2>2. Fits(<<"store", "records", "barriers", "modules">>, {"store", "records", "barriers",
  "modules"}) /\ Plain(<<"store", "records", "barriers", "modules">>)
    BY FourOf, PlainFits, Zenon
  <2>3. Fits(<<"store", "barriers", "modules", "rendering">>, {"store", "barriers", "modules",
  "rendering"}) /\ Plain(<<"store", "barriers", "modules", "rendering">>)
    BY FourOf, PlainFits, Zenon
  <2>4. Fits(<<"store", "barriers", "modules">>, {"store", "barriers",
  "modules"}) /\ Plain(<<"store", "barriers", "modules">>)
    BY ThreeOf, PlainFits, Zenon
  <2>. QED  BY <1>23, <2>1, <2>2, <2>3, <2>4, CommandHooksCases DEF Consults
<1>24. CASE <<x, Dispatchers[x]>> \in TemplateHooks
  <2>1. Fits(<<"push", "template">>, {"push", "template"}) /\ Plain(<<"push", "template">>)
    BY TwoOf, PlainFits, Zenon
  <2>. QED  BY <1>24, <2>1, TemplateHooksCases DEF Consults
<1>25. CASE <<x, Dispatchers[x]>> \in ImageHooks
  <2>1. Fits(<<"store", "rendering">>, {"store", "rendering"}) /\ Plain(<<"store", "rendering">>)
    BY TwoOf, PlainFits, Zenon
  <2>2. Fits(<<"store", "rendering", "imageless">>, {"store", "rendering",
  "imageless"}) /\ Plain(<<"store", "rendering", "imageless">>)
    BY ThreeOf, PlainFits, Zenon
  <2>3. Fits(<<"anisotropy">>, {"anisotropy"}) /\ Plain(<<"anisotropy">>)
    BY OneOf, PlainFits, Zenon
  <2>. QED  BY <1>25, <2>1, <2>2, <2>3, ImageHooksCases DEF Consults
<1>26. CASE <<x, Dispatchers[x]>> \in QueueHooks
  <2>1. Fits(<<"records">>, {"records"}) /\ Plain(<<"records">>)
    BY OneOf, PlainFits, Zenon
  <2>. QED  BY <1>26, <2>1, QueueHooksCases DEF Consults
<1>27. CASE <<x, Dispatchers[x]>> \in SwapchainHooks
  <2>1. Fits(<<"swapchain">>, {"swapchain"}) /\ Plain(<<"swapchain">>)
    BY OneOf, PlainFits, Zenon
  <2>. QED  BY <1>27, <2>1, SwapchainHooksCases DEF Consults
<1>28. CASE <<x, Dispatchers[x]>> \in SurfaceHooks
  <2>1. Fits(<<"swapchain">>, {"swapchain"}) /\ Plain(<<"swapchain">>)
    BY OneOf, PlainFits, Zenon
  <2>. QED  BY <1>28, <2>1, SurfaceHooksCases DEF Consults
<1>29. CASE <<x, Dispatchers[x]>> \in PresentHooks
  <2>1. Fits(<<"scheduler", "push", "swapchain", "store">>, {"scheduler", "push", "swapchain",
  "store"}) /\ Plain(<<"scheduler", "push", "swapchain", "store">>)
    BY FourOf, PlainFits, Zenon
  <2>. QED  BY <1>29, <2>1, PresentHooksCases DEF Consults
<1>30. CASE <<x, Dispatchers[x]>> \in DeviceHooks
  <2>1. Fits(<<"modules">>, {"modules"}) /\ Plain(<<"modules">>)
    BY OneOf, PlainFits, Zenon
  <2>. QED  BY <1>30, <2>1, DeviceHooksCases DEF Consults
<1>. QED  BY Dispatched, <1>1, <1>2, <1>3, <1>4, <1>5, <1>6, <1>7, <1>8, <1>9, <1>10, <1>11, <1>12,
              <1>13, <1>14, <1>15, <1>16, <1>17, <1>18, <1>19, <1>20, <1>21, <1>22,
              <1>23, <1>24, <1>25, <1>26, <1>27, <1>28, <1>29, <1>30, Zenon


\* What the functions of the other table consult.
LEMMA NamedIn ==
    ASSUME NEW names, NEW more, names \subseteq more, NEW n \in Named(names)
    PROVE  n \in Named(more)
BY DEF Named, With

LEMMA KhrIn ==
    ASSUME NEW names, NEW more, names \subseteq more, NEW n \in Khr(names)
    PROVE  n \in Khr(more)
BY DEF Khr, With

LEMMA ListedPair == ASSUME NEW table, NEW n, NEW v, <<n, v>> \in table PROVE n \in Listed(table)
<1>1. <<n, v>>[1] = n
  OBVIOUS
<1>. QED  BY <1>1 DEF Listed

LEMMA ListedOf ==
    ASSUME NEW table, Pairs(table), NEW n \in Listed(table)
    PROVE  \E v : <<n, v>> \in table
<1>1. PICK r \in table : r[1] = n
  BY DEF Listed
<1>2. r = <<n, r[2]>>
  BY <1>1 DEF Pairs
<1>. QED  BY <1>2

LEMMA PoolCalls ==
    ASSUME NEW n, \/ n \in Named({"vkDestroyCommandPool"}) \/ n \in Named({"vkResetCommandPool"})
    PROVE  n \in TilerCalls /\ n \in PushCalls
BY NamedIn DEF TilerCalls, PushCalls

LEMMA EndCalls == ASSUME NEW n \in Named({"vkEndCommandBuffer"}) PROVE n \in PushCalls
BY NamedIn DEF PushCalls

LEMMA QueryCalls ==
    ASSUME NEW n, \/ n \in Named({"vkCmdBeginQuery", "vkCmdEndQuery"})
                  \/ n \in Named({"vkCmdBeginQueryIndexedEXT", "vkCmdEndQueryIndexedEXT",
                                  "vkCmdBeginTransformFeedbackEXT", "vkCmdEndTransformFeedbackEXT"})
    PROVE  n \in TilerCalls
<1>1. ASSUME NEW x \in {"vkCmdBeginQuery", "vkCmdEndQuery"}, n \in Named({x})
      PROVE  n \in TilerCalls
  BY <1>1, NamedIn DEF TilerCalls
<1>2. ASSUME NEW x \in {"vkCmdBeginQueryIndexedEXT", "vkCmdEndQueryIndexedEXT"}, n \in Named({x})
      PROVE  n \in TilerCalls
  BY <1>2, NamedIn DEF TilerCalls
<1>3. ASSUME NEW x \in {"vkCmdBeginTransformFeedbackEXT", "vkCmdEndTransformFeedbackEXT"},
             n \in Named({x})
      PROVE  n \in TilerCalls
  BY <1>3, NamedIn DEF TilerCalls
<1>. QED  BY <1>1, <1>2, <1>3 DEF Named, With

EntryConsults(n, h) ==
    /\ Plain(h)
    /\ ToSet(h) \subseteq {"store", "copies", "dead_records", "tiler", "push", "action", "layouts",
                           "imageless", "viewport"}
    /\ "viewport" \in ToSet(h) => n \in Named({"vkCmdSetViewport"})
    /\ "tiler" \in ToSet(h) =>
          n \in TilerCalls \/ n[1] \in {"vkCreateRenderPass", "vkDestroyRenderPass"}
    /\ "push" \in ToSet(h) => n \in PushCalls
    /\ "action" \in ToSet(h) => n \in Commands

LEMMA EntryConsulting == ASSUME NEW n \in DOMAIN Entries PROVE EntryConsults(n, Entries[n])
<1>1. CASE <<n, Entries[n]>> \in PassEntries
  <2>1. ToSet(<<"layouts", "tiler">>) = {"layouts", "tiler"} /\ Plain(<<"layouts", "tiler">>)
    BY TwoOf, PlainFits DEF Fits
  <2>2. ToSet(<<"tiler">>) = {"tiler"} /\ Plain(<<"tiler">>)
    BY OneOf, PlainFits DEF Fits
  <2>. QED  BY <1>1, <2>1, <2>2, PassEntriesCases, NamedBase DEF EntryConsults
<1>2. CASE <<n, Entries[n]>> \in FramebufferEntries
  <2>1. ToSet(<<"imageless">>) = {"imageless"} /\ Plain(<<"imageless">>)
    BY OneOf, PlainFits DEF Fits
  <2>. QED  BY <1>2, <2>1, FramebufferEntriesCases, NamedBase DEF EntryConsults
<1>3. CASE <<n, Entries[n]>> \in ObjectEntries
  <2>1. ToSet(<<"store">>) = {"store"} /\ Plain(<<"store">>)
    BY OneOf, PlainFits DEF Fits
  <2>2. ToSet(<<"store", "copies">>) = {"store", "copies"} /\ Plain(<<"store", "copies">>)
    BY TwoOf, PlainFits DEF Fits
  <2>3. ToSet(<<"dead_records", "tiler", "push", "store">>) = {"dead_records", "tiler", "push",
  "store"} /\ Plain(<<"dead_records", "tiler", "push", "store">>)
    BY FourOf, PlainFits DEF Fits
  <2>4. ToSet(<<"store", "dead_records", "tiler", "push">>) = {"store", "dead_records", "tiler",
  "push"} /\ Plain(<<"store", "dead_records", "tiler", "push">>)
    BY FourOf, PlainFits DEF Fits
  <2>5. ToSet(<<"push", "store">>) = {"push", "store"} /\ Plain(<<"push", "store">>)
    BY TwoOf, PlainFits DEF Fits
  <2>. QED  BY <1>3, <2>1, <2>2, <2>3, <2>4, <2>5, ObjectEntriesCases, NamedBase, PoolCalls,
               EndCalls
               DEF EntryConsults
<1>4. CASE <<n, Entries[n]>> \in BindEntries
  <2>1. ToSet(<<"push", "store">>) = {"push", "store"} /\ Plain(<<"push", "store">>)
    BY TwoOf, PlainFits DEF Fits
  <2>2. ToSet(<<"store">>) = {"store"} /\ Plain(<<"store">>)
    BY OneOf, PlainFits DEF Fits
  <2>. QED  BY <1>4, <2>1, <2>2, BindEntriesCases, NamedBase, NamedIn, KhrIn, ListedPair
               DEF EntryConsults, PushCalls
<1>5. CASE <<n, Entries[n]>> \in QueryEntries
  <2>1. ToSet(<<"store", "tiler", "action">>) = {"store", "tiler", "action"} /\ Plain(<<"store",
  "tiler", "action">>)
    BY ThreeOf, PlainFits DEF Fits
  <2>2. ToSet(<<"action", "tiler">>) = {"action", "tiler"} /\ Plain(<<"action", "tiler">>)
    BY TwoOf, PlainFits DEF Fits
  <2>3. n \in Commands
    BY <1>5, ListedPair, Zenon DEF Commands
  <2>. QED  BY <1>5, <2>1, <2>2, <2>3, QueryEntriesCases, QueryCalls DEF EntryConsults
<1>6. CASE <<n, Entries[n]>> \in Bind2Entries
  <2>1. ToSet(<<"push", "store">>) = {"push", "store"} /\ Plain(<<"push", "store">>)
    BY TwoOf, PlainFits DEF Fits
  <2>2. ToSet(<<"store">>) = {"store"} /\ Plain(<<"store">>)
    BY OneOf, PlainFits DEF Fits
  <2>. QED  BY <1>6, <2>1, <2>2, Bind2EntriesCases, NamedBase, NamedIn, KhrIn, ListedPair
               DEF EntryConsults, PushCalls
<1>7. CASE <<n, Entries[n]>> \in ConditionalEntries
  <2>1. ToSet(<<"store", "tiler">>) = {"store", "tiler"} /\ Plain(<<"store", "tiler">>)
    BY TwoOf, PlainFits DEF Fits
  <2>. QED  BY <1>7, <2>1, ConditionalEntriesCases, NamedBase, NamedIn, KhrIn, ListedPair
               DEF EntryConsults, TilerCalls
<1>8. CASE <<n, Entries[n]>> \in MultiDrawEntries
  <2>1. ToSet(<<"store">>) = {"store"} /\ Plain(<<"store">>)
    BY OneOf, PlainFits DEF Fits
  <2>. QED  BY <1>8, <2>1, MultiDrawEntriesCases, NamedBase DEF EntryConsults
<1>9. CASE <<n, Entries[n]>> \in ViewportEntry
  <2>1. ToSet(<<"action", "viewport">>) = {"action", "viewport"} /\ Plain(<<"action", "viewport">>)
    BY TwoOf, PlainFits DEF Fits
  <2>. QED  BY <1>9, <2>1, ViewportEntryCases, NamedBase, NamedIn, KhrIn, ListedPair
               DEF EntryConsults, Commands
<1>10. CASE <<n, Entries[n]>> \in ShaderEntries
  <2>1. ToSet(<<"store", "copies">>) = {"store", "copies"} /\ Plain(<<"store", "copies">>)
    BY TwoOf, PlainFits DEF Fits
  <2>. QED  BY <1>10, <2>1, ShaderEntriesCases, NamedBase DEF EntryConsults
<1>. QED  BY Entered, <1>1, <1>2, <1>3, <1>4, <1>5, <1>6, <1>7, <1>8, <1>9, <1>10, Zenon

LEMMA DirectBased ==
    ASSUME NEW n \in AlwaysDirect
    PROVE  n[1] \in EntryBases \ {"vkCreateRenderPass", "vkDestroyRenderPass"}
<1>1. CASE n \in Listed(ObjectEntries)
  <2>1. Pairs(ObjectEntries)
    BY OnPairs, Zenon DEF Pairs, ObjectEntries
  <2>2. PICK v : <<n, v>> \in ObjectEntries
    BY <1>1, <2>1, ListedOf, Zenon
  <2>. QED  BY <2>2, ObjectEntriesCases, NamedBase, KhrBase DEF EntryBases
<1>2. CASE n \in Listed(BindEntries)
  <2>1. Pairs(BindEntries)
    BY OnPairs, Zenon DEF Pairs, BindEntries
  <2>2. PICK v : <<n, v>> \in BindEntries
    BY <1>2, <2>1, ListedOf, Zenon
  <2>. QED  BY <2>2, BindEntriesCases, NamedBase, KhrBase DEF EntryBases
<1>3. CASE n \in Listed(Bind2Entries)
  <2>1. Pairs(Bind2Entries)
    BY OnPairs, Zenon DEF Pairs, Bind2Entries
  <2>2. PICK v : <<n, v>> \in Bind2Entries
    BY <1>3, <2>1, ListedOf, Zenon
  <2>. QED  BY <2>2, Bind2EntriesCases, NamedBase, KhrBase DEF EntryBases
<1>4. CASE n \in Listed(ConditionalEntries)
  <2>1. Pairs(ConditionalEntries)
    BY OnPairs, Zenon DEF Pairs, ConditionalEntries
  <2>2. PICK v : <<n, v>> \in ConditionalEntries
    BY <1>4, <2>1, ListedOf, Zenon
  <2>. QED  BY <2>2, ConditionalEntriesCases, NamedBase, KhrBase DEF EntryBases
<1>5. CASE n \in Listed(MultiDrawEntries)
  <2>1. Pairs(MultiDrawEntries)
    BY OnPairs, Zenon DEF Pairs, MultiDrawEntries
  <2>2. PICK v : <<n, v>> \in MultiDrawEntries
    BY <1>5, <2>1, ListedOf, Zenon
  <2>. QED  BY <2>2, MultiDrawEntriesCases, NamedBase, KhrBase DEF EntryBases
<1>6. CASE n \in Named({"vkCmdBeginQuery", "vkCmdEndQuery"})
  BY <1>6, NamedBase DEF EntryBases
<1>. QED  BY <1>1, <1>2, <1>3, <1>4, <1>5, <1>6, Zenon DEF AlwaysDirect


\* A function's parts are its dispatcher's, or its own.
LEMMA ForwardHooks ==
    ASSUME NEW n \in DOMAIN Forwards
    PROVE  /\ n \notin DOMAIN Entries /\ n \notin AlwaysDirect
           /\ n \in DOMAIN Table /\ n \in DOMAIN Hooks
           /\ Forwards[n] \in DOMAIN Dispatchers /\ Hooks[n] = Dispatchers[Forwards[n]]
<1>1. n[1] \notin EntryBases /\ Forwards[n] \in DOMAIN Dispatchers
  BY ForwardedTo, DispatchersNamed DEF Forwarding
<1>2. n \notin DOMAIN Entries /\ n \notin AlwaysDirect
  BY <1>1, EntryBased, DirectBased
<1>. QED  BY <1>1, <1>2 DEF Table, Hooks

LEMMA EntryHooks ==
    ASSUME NEW n \in DOMAIN Entries
    PROVE  /\ n \notin DOMAIN Forwards /\ n \in DOMAIN Table /\ n \in DOMAIN Hooks
           /\ Hooks[n] = Entries[n]
<1>1. n \notin DOMAIN Forwards
  BY ForwardHooks
<1>. QED  BY <1>1 DEF Table, Hooks

LEMMA StateHooks ==
    ASSUME NEW n \in DOMAIN Hooks, n \notin DOMAIN Table
    PROVE  n \in StateOnly /\ ToSet(Hooks[n]) = {"action"} /\ Plain(Hooks[n])
<1>1. n \in Listed(StateEntries)
  BY DEF Hooks
<1>2. Hooks[n] = Lookup(StateEntries)[n] /\ n \in DOMAIN Lookup(StateEntries)
  BY <1>1 DEF Hooks, Lookup
<1>3. Pairs(StateEntries)
  BY OnPairs DEF StateEntries
<1>4. <<n, Hooks[n]>> \in StateEntries
  BY <1>2, <1>3, LookedUp
<1>5. Hooks[n] = <<"action">>
  BY <1>4, OnPair DEF StateEntries
<1>6. ToSet(<<"action">>) = {"action"} /\ Plain(<<"action">>)
  BY OneOf, PlainFits DEF Fits
<1>. QED  BY <1>1, <1>5, <1>6 DEF StateOnly

LEMMA HooksPlain == ASSUME NEW n \in DOMAIN Hooks PROVE Plain(Hooks[n])
<1>1. CASE n \in DOMAIN Entries
  BY <1>1, EntryHooks, EntryConsulting DEF EntryConsults
<1>2. CASE n \in DOMAIN Forwards
  BY <1>2, ForwardHooks, DispatcherConsults DEF Consults
<1>3. CASE n \notin DOMAIN Table
  BY <1>3, StateHooks
<1>. QED  BY <1>1, <1>2, <1>3 DEF Table

-----------------------------------------------------------------------------
(* EntryPoints: what the driver's own function leaves out.                  *)

Profile(p) == p \subseteq Parts /\ ("base" \in p => "group" \in p)

\* Nothing that consults the parts in h is needed by a device of profile p.
Clear(h, p) ==
    /\ ToSet(h) \cap (p \cup Always) = {}
    /\ Enabled => ToSet(h) \cap Optimiser = {}

LEMMA NotTracked ==
    ASSUME NEW d, NEW n, ~StateTracked(d, n)
    PROVE  /\ "store" \notin needs[d] /\ n \notin DrawCalls
           /\ n \notin Named({"vkCmdSetViewport"}) /\ n \notin Named({"vkCmdBindPipeline"})
           /\ "tiler" \in needs[d] => n \notin TilerCalls
           /\ "push" \in needs[d] => n \notin PushCalls
BY NamedIn DEF StateTracked

LEMMA EntryBypassed ==
    ASSUME NEW d, Profile(needs[d]), NEW n \in DOMAIN Entries, ~Intercept(d, n),
           ~(n \in Commands /\ Enabled)
    PROVE  Clear(Hooks[n], needs[d])
<1>1. ~StateTracked(d, n) /\ n \in AlwaysDirect
  BY EntryHooks DEF Intercept
<1>2. EntryConsults(n, Hooks[n]) /\ n[1] \notin {"vkCreateRenderPass", "vkDestroyRenderPass"}
  BY <1>1, EntryHooks, EntryConsulting, DirectBased
<1>. QED  BY <1>1, <1>2, NotTracked DEF EntryConsults, Clear, Always, Optimiser, Profile, Parts


LEMMA NamedItself == ASSUME NEW names, NEW n \in Named(names) PROVE n \in Named({n[1]})
BY DEF Named, With

LEMMA EventCommand ==
    ASSUME NEW n, n \in Khr({"vkCmdSetEvent2", "vkCmdResetEvent2", "vkCmdWaitEvents2",
                             "vkCmdWriteTimestamp2"})
    PROVE  n \in Commands
<1>1. <<n, "sync2_command">> \in SyncForwards
  BY DEF SyncForwards, On
<1>2. n \notin Khr({"vkQueueSubmit2"})
  BY KhrBase
<1>. QED  BY <1>1, <1>2, ListedPair, Zenon DEF Commands

LEMMA ForwardBypassed ==
    ASSUME NEW d, Profile(needs[d]), NEW n \in DOMAIN Forwards, ~Intercept(d, n),
           ~(n \in Commands /\ Enabled)
    PROVE  Clear(Hooks[n], needs[d])
<1>. DEFINE v == Forwards[n]
<1>1. Forwarding(n, v) /\ Consults(v, Hooks[n])
  BY ForwardedTo, ForwardHooks, DispatcherConsults, Zenon
<1>2. ~StateTracked(d, n)
  BY DEF Intercept
<1>3. \/ ~Enabled /\ DrawShortcut(d, n)
      \/ ~Enabled /\ CommandShortcut(d, n)
      \/ EventShortcut(d, n)
      \/ ObjectShortcut(d, n)
  BY ForwardHooks, Zenon DEF Intercept
<1>4. "store" \notin needs[d] /\ needs[d] \subseteq Parts
  BY <1>2, NotTracked DEF Profile
<1>. HIDE DEF v
<1>5. CASE ~Enabled /\ DrawShortcut(d, n)
  <2>1. \/ /\ "divisor" \notin needs[d]
           /\ n[1] \in {"vkCmdBindVertexBuffers", "vkCmdBindVertexBuffers2"}
        \/ n[1] = "vkCmdPipelineBarrier"
        \/ "sync2" \notin needs[d] /\ n[1] = "vkCmdPipelineBarrier2"
    <3>1. ASSUME n \in Named({"vkCmdDraw", "vkCmdDrawIndexed", "vkCmdBindPipeline",
                              "vkCmdBindVertexBuffers"})
          PROVE  n[1] = "vkCmdBindVertexBuffers"
      <4>1. n \in Named({n[1]}) /\ n[1] \in {"vkCmdDraw", "vkCmdDrawIndexed", "vkCmdBindPipeline",
                                           "vkCmdBindVertexBuffers"}
        BY <3>1, NamedBase, NamedItself
      <4>2. n[1] \notin {"vkCmdDraw", "vkCmdDrawIndexed"}
        BY <1>2, <4>1, NamedIn, NotTracked DEF DrawCalls
      <4>3. n[1] # "vkCmdBindPipeline"
        BY <1>2, <4>1, NotTracked
      <4>. QED  BY <4>1, <4>2, <4>3
    <3>2. n \notin Named({"vkCmdDrawIndirect", "vkCmdDrawIndexedIndirect"})
      BY <1>2, NamedIn, NotTracked DEF DrawCalls
    <3>. QED  BY <1>5, <3>1, <3>2, BaseIn, NamedBase, KhrBase DEF DrawShortcut
  <2>2. \/ "divisor" \notin needs[d] /\ Fits(Hooks[n], {"store", "fast_draw", "divisor"})
        \/ Fits(Hooks[n], {"barriers", "layouts"})
        \/ "sync2" \notin needs[d] /\ Fits(Hooks[n], {"barriers", "layouts", "sync2"})
    BY <1>1, <2>1 DEF Forwarding, Consults
  <2>. QED  BY <1>4, <1>5, <2>2 DEF Fits, Clear, Parts, Always
<1>6. CASE ~Enabled /\ CommandShortcut(d, n)
  <2>1. \/ "rendering" \notin needs[d] /\ v = "rendering"
        \/ "push" \notin needs[d] /\ v = "push"
        \/ "count" \notin needs[d] /\ v = "draw_count"
        \/ "pass2" \notin needs[d] /\ v \in {"begin_pass2", "next_subpass2", "end_pass2"}
        \/ "group" \notin needs[d] /\ n \in Khr({"vkCmdSetDeviceMask", "vkCmdDispatchBase"})
    BY <1>6, Zenon DEF CommandShortcut, v
  <2>2. CASE "rendering" \notin needs[d] /\ v = "rendering"
    BY <1>1, <1>4, <1>6, <2>2 DEF Consults, Fits, Clear, Parts, Always
  <2>3. CASE "push" \notin needs[d] /\ v = "push"
    BY <1>1, <1>4, <1>6, <2>3 DEF Consults, Fits, Clear, Parts, Always
  <2>4. CASE v = "draw_count"
    BY <1>1, <1>2, <2>4, NotTracked, Zenon DEF Forwarding, DrawCalls
  <2>5. CASE "pass2" \notin needs[d] /\ v \in {"begin_pass2", "next_subpass2", "end_pass2"}
    <3>1. n \in TilerCalls
      BY <1>1, <2>5, KhrIn DEF Forwarding, TilerCalls
    <3>2. "tiler" \notin needs[d]
      BY <1>2, <3>1, NotTracked
    <3>3. ToSet(Hooks[n]) \subseteq {"store", "action", "imageless", "tiler", "pass2"}
      BY <1>1, <2>5 DEF Consults, Fits
    <3>. QED  BY <1>4, <1>6, <2>5, <3>2, <3>3 DEF Clear, Parts, Always
  <2>6. CASE "group" \notin needs[d] /\ n \in Khr({"vkCmdSetDeviceMask", "vkCmdDispatchBase"})
    <3>1. "base" \notin needs[d]
      BY <2>6 DEF Profile
    <3>2. ToSet(Hooks[n]) \subseteq {"action", "base", "group"}
      BY <1>1, <2>6, KhrBase DEF Forwarding, Consults, Fits
    <3>. QED  BY <1>4, <1>6, <2>6, <3>1, <3>2 DEF Clear, Parts, Always
  <2>. QED  BY <2>1, <2>2, <2>3, <2>4, <2>5, <2>6
<1>7. CASE EventShortcut(d, n)
  <2>1. "sync2" \notin needs[d] /\ v = "sync2_command"
    BY <1>7 DEF EventShortcut, v
  <2>2. ~Enabled
    BY <1>1, <2>1, EventCommand DEF Forwarding
  <2>. QED  BY <1>1, <1>4, <2>1, <2>2 DEF Consults, Fits, Clear, Parts, Always
<1>8. CASE ObjectShortcut(d, n)
  <2>1. \/ {"sync2", "timeline"} \cap needs[d] = {} /\ v = "submit2"
        \/ "timeline" \notin needs[d] /\ v = "semaphore"
        \/ "address" \notin needs[d] /\ v = "address"
        \/ "reset" \notin needs[d] /\ v = "reset_query_pool"
        \/ "pass2" \notin needs[d] /\ v = "create_pass2"
    BY <1>8, Zenon DEF ObjectShortcut, v
  <2>2. CASE {"sync2", "timeline"} \cap needs[d] = {} /\ v = "submit2"
    BY <1>1, <1>4, <2>2 DEF Consults, Fits, Clear, Parts, Always, Optimiser
  <2>3. CASE "timeline" \notin needs[d] /\ v = "semaphore"
    BY <1>1, <1>4, <2>3 DEF Consults, Fits, Clear, Parts, Always, Optimiser
  <2>4. CASE "address" \notin needs[d] /\ v = "address"
    BY <1>1, <1>4, <2>4 DEF Consults, Fits, Clear, Parts, Always, Optimiser
  <2>5. CASE "reset" \notin needs[d] /\ v = "reset_query_pool"
    BY <1>1, <1>4, <2>5 DEF Consults, Fits, Clear, Parts, Always, Optimiser
  <2>6. CASE "pass2" \notin needs[d] /\ v = "create_pass2"
    <3>1. n \in TilerCalls
      BY <1>1, <2>6, KhrIn DEF Forwarding, TilerCalls
    <3>2. "tiler" \notin needs[d]
      BY <1>2, <3>1, NotTracked
    <3>. QED  BY <1>1, <1>4, <2>6, <3>2 DEF Consults, Fits, Clear, Parts, Always, Optimiser
  <2>. QED  BY <2>1, <2>2, <2>3, <2>4, <2>5, <2>6
<1>. QED  BY <1>3, <1>5, <1>6, <1>7, <1>8

LEMMA Bypassed ==
    ASSUME NEW d, Profile(needs[d]), NEW n \in DOMAIN Table, ~Intercept(d, n),
           ~(n \in Commands /\ Enabled)
    PROVE  Clear(Hooks[n], needs[d])
BY EntryBypassed, ForwardBypassed DEF Table


-----------------------------------------------------------------------------
(* EntryPoints: the invariant.                                              *)

\* A pointer to the layer's function is to one it has.  A pointer to the driver's
\* own was found on one device that is still there and needs nothing of what the
\* layer's would have consulted, or is to a function the layer does not look up;
\* the optimiser needs to see nothing of it.
EntryInv ==
    /\ needs = [d \in VkDevices |-> needs[d]]
    /\ optimise \in BOOLEAN /\ tracking \in BOOLEAN
    /\ \A d \in Live : Profile(needs[d])
    /\ held # Nothing /\ held.of # "driver" => held.name \in DOMAIN Hooks
    /\ held # Nothing /\ held.of = "driver" =>
         /\ Enabled /\ held.name \notin StateOnly =>
              held.name \in DOMAIN Hooks /\ ToSet(Hooks[held.name]) \cap Optimiser = {}
         /\ held.name \in DOMAIN Table =>
              \E d \in Live : /\ held.devices = {d}
                              /\ ToSet(Hooks[held.name]) \cap (needs[d] \cup Always) = {}

LEMMA EntryInits == EntryInit => EntryInv
BY DEF EntryInit, EntryInv, Live

LEMMA CreateEntryStep == ASSUME EntryInv, NEW d \in VkDevices, Create(d) PROVE EntryInv'
<1>1. PICK p \in Profiles[d] : needs' = [needs EXCEPT ![d] = p]
  BY DEF Create
<1>2. d \notin Live /\ held' = held /\ optimise' = optimise /\ tracking' = tracking
  BY DEF Create
<1>3. /\ needs' = [e \in VkDevices |-> needs'[e]] /\ needs'[d] = p
      /\ \A e \in VkDevices : e # d => needs'[e] = needs[e]
  BY <1>1 DEF EntryInv
<1>4. Live \subseteq Live' /\ \A e \in Live : needs'[e] = needs[e]
  BY <1>2, <1>3 DEF Live
<1>5. \A e \in Live' : Profile(needs'[e])
  <2>. TAKE e \in Live'
  <2>1. CASE e = d
    BY <1>1, <1>3, <2>1, ProfilesAssumption DEF Profile
  <2>2. CASE e # d
    BY <1>3, <2>2 DEF Live, EntryInv
  <2>. QED  BY <2>1, <2>2
<1>. QED  BY <1>2, <1>3, <1>4, <1>5 DEF EntryInv, Enabled

LEMMA DestroyEntryStep == ASSUME EntryInv, NEW d \in VkDevices, Destroy(d) PROVE EntryInv'
<1>1. /\ needs' = [needs EXCEPT ![d] = Nothing]
      /\ held' = (IF held # Nothing /\ held.devices = {d} THEN Nothing ELSE held)
      /\ optimise' = optimise /\ tracking' = tracking
  BY DEF Destroy
<1>2. /\ needs' = [e \in VkDevices |-> needs'[e]] /\ needs'[d] = Nothing
      /\ \A e \in VkDevices : e # d => needs'[e] = needs[e]
  BY <1>1 DEF EntryInv
<1>3. Live' = Live \ {d} /\ \A e \in Live' : needs'[e] = needs[e]
  BY <1>2 DEF Live
<1>4. CASE held' = Nothing
  BY <1>1, <1>2, <1>3, <1>4 DEF EntryInv
<1>5. CASE held' = held /\ held # Nothing /\ held.devices # {d}
  BY <1>1, <1>2, <1>3, <1>5 DEF EntryInv, Enabled
<1>. QED  BY <1>1, <1>4, <1>5

\* A stop of the optimiser for a function it will not see.
LEMMA TrackedStep ==
    ASSUME EntryInv, NEW n \in Names, TrackNativeCommand(n), optimise' = optimise
    PROVE  /\ tracking' \in BOOLEAN /\ (Enabled' => Enabled)
           /\ Enabled' /\ n \notin StateOnly => n \in DOMAIN Table
<1>1. tracking' = (tracking /\ ~(IsCommand(n) /\ optimise /\ n \notin StateOnly))
  BY DEF TrackNativeCommand
<1>2. Enabled' => Enabled /\ (n \notin StateOnly => ~IsCommand(n))
  BY <1>1, Zenon DEF Enabled
<1>3. ~IsCommand(n) => n \in DOMAIN Table
  BY DEF IsCommand, Names, Hooks
<1>. QED  BY <1>1, <1>2, <1>3

LEMMA TableHooked == DOMAIN Table \subseteq DOMAIN Hooks
BY DEF Hooks

LEMMA HeldStep ==
    ASSUME EntryInv, NEW n, NEW ds, NEW who, held' = Pointer(ds, n, who),
           needs' = needs, optimise' = optimise, tracking' \in BOOLEAN,
           who # "driver" => n \in DOMAIN Hooks,
           who = "driver" =>
             /\ Enabled' /\ n \notin StateOnly =>
                  n \in DOMAIN Hooks /\ ToSet(Hooks[n]) \cap Optimiser = {}
             /\ n \in DOMAIN Table =>
                  \E d \in Live : ds = {d} /\ ToSet(Hooks[n]) \cap (needs[d] \cup Always) = {}
    PROVE  EntryInv'
<1>1. held'.name = n /\ held'.of = who /\ held'.devices = ds
  BY DEF Pointer
<1>2. Live' = Live
  BY DEF Live
<1>. QED  BY <1>1, <1>2 DEF EntryInv, Enabled

LEMMA DeviceProcStep ==
    ASSUME EntryInv, NEW n \in Names, NEW d \in VkDevices, n \notin InstanceOnly,
           GetDeviceProcAddr(d, n)
    PROVE  EntryInv'
<1>1. PICK has \in BOOLEAN :
         /\ DeviceProc(d, n, has) # Nothing
         /\ held' = Pointer({d}, n, DeviceProc(d, n, has))
         /\ IF DeviceProc(d, n, has) = "driver" THEN TrackNativeCommand(n) ELSE UNCHANGED tracking
  BY Zenon DEF GetDeviceProcAddr
<1>2. d \in Live /\ needs' = needs /\ optimise' = optimise
  BY DEF GetDeviceProcAddr
<1>. DEFINE who == DeviceProc(d, n, has)
<1>3. CASE who # "driver"
  <2>1. Found(n, TRUE)
    BY <1>1, <1>3, Zenon DEF DeviceProc
  <2>2. n \in DOMAIN Hooks
    BY <2>1, TableHooked DEF Found
  <2>. QED  BY <1>1, <1>2, <1>3, <2>2, HeldStep DEF EntryInv
<1>4. CASE who = "driver"
  <2>1. TrackNativeCommand(n)
    BY <1>1, <1>4
  <2>2. /\ tracking' \in BOOLEAN /\ (Enabled' => Enabled)
        /\ Enabled' /\ n \notin StateOnly => n \in DOMAIN Table
    BY <1>2, <2>1, TrackedStep
  <2>3. ASSUME n \in DOMAIN Table PROVE Clear(Hooks[n], needs[d])
    <3>1. ~(n \in Commands /\ Enabled) /\ ~Intercept(d, n)
      BY <1>4, <2>3, Zenon DEF DeviceProc, Found
    <3>. QED  BY <1>2, <2>3, <3>1, Bypassed DEF EntryInv
  <2>4. Enabled' /\ n \notin StateOnly =>
          n \in DOMAIN Hooks /\ ToSet(Hooks[n]) \cap Optimiser = {}
    BY <2>2, <2>3, TableHooked DEF Clear
  <2>5. n \in DOMAIN Table =>
          \E e \in Live : {d} = {e} /\ ToSet(Hooks[n]) \cap (needs[e] \cup Always) = {}
    BY <1>2, <2>3 DEF Clear
  <2>. QED  BY <1>1, <1>2, <1>4, <2>2, <2>4, <2>5, HeldStep
<1>. QED  BY <1>3, <1>4

LEMMA InstanceProcStep ==
    ASSUME EntryInv, NEW n \in Names, GetInstanceProcAddr(n) PROVE EntryInv'
<1>1. CASE Found(n, FALSE)
  <2>1. /\ held' = Pointer(VkDevices, n, "layer") /\ tracking' = tracking
        /\ needs' = needs /\ optimise' = optimise
    BY <1>1 DEF GetInstanceProcAddr
  <2>2. n \in DOMAIN Hooks
    BY <1>1, TableHooked DEF Found
  <2>. QED  BY <2>1, <2>2, HeldStep DEF EntryInv
<1>2. CASE ~Found(n, FALSE)
  <2>1. /\ held' = Pointer(VkDevices, n, "driver") /\ TrackNativeCommand(n)
        /\ needs' = needs /\ optimise' = optimise
    BY <1>2 DEF GetInstanceProcAddr
  <2>2. n \notin DOMAIN Table
    BY <1>2 DEF Found
  <2>3. tracking' \in BOOLEAN /\ ~(Enabled' /\ n \notin StateOnly)
    BY <2>1, <2>2, TrackedStep
  <2>. QED  BY <2>1, <2>2, <2>3, HeldStep
<1>. QED  BY <1>1, <1>2

LEMMA ExportStep == ASSUME EntryInv, NEW n, Export(n) PROVE EntryInv'
<1>1. /\ held' = Pointer(VkDevices, n, "layer") /\ tracking' = tracking /\ n \in DOMAIN Hooks
      /\ needs' = needs /\ optimise' = optimise
  BY DEF Export
<1>. QED  BY <1>1, HeldStep DEF EntryInv

LEMMA StopStep ==
    ASSUME EntryInv, NEW n, TrackNativeCommand(n), ~tracking', UNCHANGED <<needs, optimise, held>>
    PROVE  EntryInv'
<1>1. tracking' \in BOOLEAN
  BY DEF TrackNativeCommand
<1>2. Live' = Live /\ ~Enabled'
  BY DEF Live, Enabled
<1>. QED  BY <1>1, <1>2 DEF EntryInv

LEMMA EntryStep == EntryInv /\ [EntryNext]_entryVars => EntryInv'
<1>. SUFFICES ASSUME EntryInv, [EntryNext]_entryVars PROVE EntryInv'
  OBVIOUS
<1>1. CASE UNCHANGED entryVars
  BY <1>1 DEF entryVars, EntryInv, Live, Enabled
<1>2. ASSUME NEW d \in VkDevices, Create(d) \/ Destroy(d) PROVE EntryInv'
  BY <1>2, CreateEntryStep, DestroyEntryStep
<1>3. ASSUME NEW n \in Names,
             \/ \E d \in VkDevices : n \notin InstanceOnly /\ GetDeviceProcAddr(d, n)
             \/ GetInstanceProcAddr(n)
             \/ Export(n)
      PROVE  EntryInv'
  BY <1>3, DeviceProcStep, InstanceProcStep, ExportStep
<1>4. ASSUME \E n \in NativeCommands : TrackNativeCommand(n) /\ ~tracking',
             UNCHANGED <<needs, optimise, held>>
      PROVE  EntryInv'
  BY <1>4, StopStep
<1>. QED  BY <1>1, <1>2, <1>3, <1>4, Zenon DEF EntryNext

-----------------------------------------------------------------------------
(* EntryPoints: what a held pointer misses.                                 *)

LEMMA AllSeen ==
    ASSUME EntryInv, held # Nothing, held.of # "driver", NEW d
    PROVE  Seen(d) = ToSet(Hooks[held.name])
<1>1. "viewport" \in Always
  BY DEF Always
<1>2. \A mark : ~Fast(d, mark)
  BY <1>1 DEF Fast
<1>3. Plain(Hooks[held.name])
  BY HooksPlain DEF EntryInv
<1>. DEFINE hooks == Hooks[held.name]
            ends == {i \in 1 .. Len(hooks) :
                       hooks[i] \in {"fast_draw", "fast_indirect"} /\ Fast(d, hooks[i])}
<1>4. ends = {}
  BY <1>2
<1>5. Seen(d) = ToSet(SubSeq(hooks, 1, Len(hooks)))
  BY <1>4, Zenon DEF Seen
<1>. QED  BY <1>3, <1>5 DEF Plain

LEMMA InvMissesNothing == EntryInv => NothingMissed
<1>. SUFFICES ASSUME EntryInv, held # Nothing, NEW d \in Live \cap held.devices
              PROVE  Required(d) \subseteq Seen(d)
  BY DEF NothingMissed
<1>1. CASE held.of # "driver"
  BY <1>1, AllSeen DEF Required, EntryInv
<1>2. CASE held.of = "driver"
  <2>1. Profile(needs[d])
    BY DEF EntryInv
  <2>2. ASSUME held.name \in DOMAIN Hooks
        PROVE  ToSet(Hooks[held.name]) \cap (needs[d] \cup Always) = {}
    <3>1. CASE held.name \in DOMAIN Table
      BY <1>2, <3>1 DEF EntryInv
    <3>2. CASE held.name \notin DOMAIN Table
      <4>1. ToSet(Hooks[held.name]) = {"action"}
        BY <2>2, <3>2, StateHooks
      <4>. QED  BY <2>1, <4>1 DEF Profile, Parts, Always
    <3>. QED  BY <3>1, <3>2
  <2>3. Required(d) = {}
    <3>1. CASE held.name \in DOMAIN Hooks
      BY <1>2, <2>2, <3>1 DEF Required, EntryInv
    <3>2. CASE held.name \notin DOMAIN Hooks
      BY <1>2, <3>2 DEF Required, EntryInv
    <3>. QED  BY <3>1, <3>2
  <2>. QED  BY <2>3
<1>. QED  BY <1>1, <1>2

\* Whatever pointer the application holds to a function, and however it got it, a
\* call through it is seen by every part of the layer that needs to see it on the
\* device it is made on (should_intercept_device_proc, GetDeviceProcAddr,
\* GetInstanceProcAddr, refresh_single_device_state_locked), for any devices and any
\* combination of parts they need.
THEOREM PointersMissNothing == EntrySpec => []NothingMissed
<1>1. EntryInit => EntryInv
  BY EntryInits
<1>2. EntryInv /\ [EntryNext]_entryVars => EntryInv'
  BY EntryStep
<1>3. EntryInv => NothingMissed
  BY InvMissesNothing
<1>. QED  BY <1>1, <1>2, <1>3, PTL DEF EntrySpec

=============================================================================
