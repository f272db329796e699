--------------------------- MODULE PushDescriptors ---------------------------
(***************************************************************************)
(* Push descriptors on a driver that lacks them or fails its probe         *)
(* (src/layer/src/main/cpp/modules/vulkan_1_4/push_descriptor.cpp).        *)
(*                                                                         *)
(* Every push takes a fresh descriptor set, copies into it what the last   *)
(* compatible push left, writes the new descriptors and binds it.  Sets    *)
(* come in batches from pools of the command buffer, which are reset, not  *)
(* freed, when it is recorded again.  A push that cannot be done makes the *)
(* recording fail.                                                         *)
(*                                                                         *)
(* The model has one emulated device and one bind point: the states of two *)
(* points share only the batch.  A descriptor is an element of a binding;  *)
(* its value stands for the resource.  Statistics are left out.            *)
(***************************************************************************)
EXTENDS Integers, Sequences, FiniteSets

CONSTANTS
    Commands,     \* VkCommandBuffer handles, of one command pool
    Layouts,      \* SetLayout objects
    Definition,   \* what makes two of them compatible
    SetHandles,   \* VkDescriptorSetLayout handles
    PipeHandles,  \* VkPipelineLayout handles
    Lengths,      \* how many set layouts a pipeline layout may have
    Templates,    \* VkDescriptorUpdateTemplate handles, each standing for
    Coverage,     \*   the elements its entries write
    Elements,     \* the descriptors of a set
    Bindings,     \* a partition of Elements
    Values,
    PoolSize,     \* 256
    Batch,        \* 8
    MaxPools,     \* bound: descriptor pools of a command buffer
    Undefined, Null

VARIABLES
    known,     \* command buffers allocated
    setLayout, \* m_set_layouts
    usable,    \* layouts whose allocation_layout could be created
    pipeline,  \* m_pipeline_layouts
    template,  \* m_templates
    state,     \* m_cmd_states
    content,   \* in the driver: the sets of each command buffer's pools
    bound,     \* in the driver: the set bound at each number
    meant,     \* what the application has pushed, by the rules of Vulkan
    drawn      \* for one draw of a recording, the sets it uses and what it is to see

layouts == <<setLayout, usable, pipeline, template>>
vars == <<known, layouts, state, content, bound, meant, drawn>>

SetNumbers == UNION {1..n : n \in Lengths}
Handles == (1..MaxPools) \X (1..PoolSize)
NoSlot == [layout |-> <<>>, set |-> Null]
NoBatch == [layout |-> Null, sets |-> <<>>]
Fresh == [error |-> FALSE, slots |-> [n \in SetNumbers |-> NoSlot], pools |-> 0,
          current |-> 1, allocated |-> 0, batch |-> NoBatch]
NothingMeant == [n \in SetNumbers |-> [layout |-> <<>>, values |-> Null]]

Init ==
    /\ known = {}
    /\ setLayout = [h \in SetHandles |-> Null]
    /\ usable = {}
    /\ pipeline = [h \in PipeHandles |-> <<>>]
    /\ template = {}
    /\ state = [c \in Commands |-> Fresh]
    /\ content = [c \in Commands |-> [h \in Handles |-> Null]]
    /\ bound = [c \in Commands |-> [n \in SetNumbers |-> Null]]
    /\ meant = [c \in Commands |-> NothingMeant]
    /\ drawn = [c \in Commands |-> {}]

-----------------------------------------------------------------------------
(* Layouts and templates.                                                   *)

Referenced ==
    {setLayout[h] : h \in SetHandles}
        \cup (UNION {{pipeline[h][i] : i \in DOMAIN pipeline[h]} : h \in PipeHandles})
        \cup {state[c].batch.layout : c \in Commands}
        \cup (UNION {UNION {{state[c].slots[n].layout[i] : i \in DOMAIN state[c].slots[n].layout} :
                              n \in SetNumbers} : c \in Commands})

\* The metadata is a new object; creating its private layout may fail.
CreateSetLayout(h) ==
    /\ setLayout[h] = Null
    /\ \E l \in Layouts \ Referenced :
          /\ setLayout' = [setLayout EXCEPT ![h] = l]
          /\ usable' \in {usable \cup {l}, usable \ {l}}
    /\ UNCHANGED <<known, pipeline, template, state, content, bound, meant, drawn>>

DestroySetLayout(h) ==
    /\ setLayout[h] # Null
    /\ setLayout' = [setLayout EXCEPT ![h] = Null]
    /\ UNCHANGED <<known, usable, pipeline, template, state, content, bound, meant, drawn>>

\* A pipeline layout keeps the objects; the handles may go before it.
CreatePipelineLayout(h, sets) ==
    /\ pipeline[h] = <<>>
    /\ \A i \in DOMAIN sets : setLayout[sets[i]] # Null
    /\ pipeline' = [pipeline EXCEPT ![h] = [i \in DOMAIN sets |-> setLayout[sets[i]]]]
    /\ UNCHANGED <<known, setLayout, usable, template, state, content, bound, meant, drawn>>

DestroyPipelineLayout(h) ==
    /\ pipeline[h] # <<>>
    /\ pipeline' = [pipeline EXCEPT ![h] = <<>>]
    /\ UNCHANGED <<known, setLayout, usable, template, state, content, bound, meant, drawn>>

CreateTemplate(t) ==
    /\ t \notin template
    /\ template' = template \cup {t}
    /\ UNCHANGED <<known, setLayout, usable, pipeline, state, content, bound, meant, drawn>>

DestroyTemplate(t) ==
    /\ t \in template
    /\ template' = template \ {t}
    /\ UNCHANGED <<known, setLayout, usable, pipeline, state, content, bound, meant, drawn>>

\* Push constant ranges and independent sets are left out, here and in what is
\* meant: they can only make fewer layouts compatible.
Compatible(a, b, n) ==
    /\ n <= Len(a) /\ n <= Len(b)
    /\ \A i \in 1..n : Definition[a[i]] = Definition[b[i]]

-----------------------------------------------------------------------------
(* Descriptor sets: batches from pools.                                     *)

Smaller(a, b) == IF a < b THEN a ELSE b

\* The ways vkAllocateDescriptorSets can answer for a pool: a batch, one set
\* when the batch is refused, or nothing.
FromPool(s, l, k) ==
    LET used == IF k = s.current THEN s.allocated ELSE 0
        size == Smaller(Batch, PoolSize - used)
        Here(n, batch) == [set |-> <<k, used + 1>>,
                           s |-> [s EXCEPT !.pools = IF k > @ THEN k ELSE @, !.current = k,
                                           !.allocated = used + n, !.batch = batch]]
    IN IF size = 0 THEN {}
       ELSE {Here(size, [layout |-> l, sets |-> [i \in 1..(size - 1) |-> <<k, used + 1 + i>>]])}
            \cup (IF size > 1 THEN {Here(1, NoBatch)} ELSE {})

\* Nothing in the current pool, the next ones, or a new one.  The count
\* starts again with every further pool that was tried.
Refused(s, k) ==
    [set |-> Null, s |-> [s EXCEPT !.pools = IF k > @ THEN k ELSE @, !.current = k,
                                   !.allocated = IF k = s.current THEN @ ELSE 0]]

\* The first pool is created before anything is tried, so a command buffer can
\* get two in one call.
AllocatePushSet(s, l) ==
    IF s.batch.layout = l /\ s.batch.sets # <<>>
    THEN {[set |-> Head(s.batch.sets), s |-> [s EXCEPT !.batch.sets = Tail(@)]]}
    ELSE LET clean == [s EXCEPT !.batch = NoBatch]
             first == IF s.pools = 0 THEN 1 ELSE s.pools
             last  == Smaller(first + 1, MaxPools)
         IN (UNION {FromPool(clean, l, k) : k \in s.current..last})
            \cup {Refused(clean, k) : k \in {first, last}}
            \cup (IF s.pools = 0 THEN {[set |-> Null, s |-> clean]} ELSE {})

-----------------------------------------------------------------------------
(* Pushing and binding.                                                     *)

\* A set bound at n with this layout: lower and higher sets may be disturbed.
BindState(slots, layout, n, set) ==
    LET disturbsHigher == slots[n].layout # <<>> /\ ~Compatible(slots[n].layout, layout, n)
        Disturbed(i) == /\ slots[i].layout # <<>>
                        /\ \/ i < n /\ ~Compatible(slots[i].layout, layout, i)
                           \/ i > n /\ disturbsHigher
    IN [i \in SetNumbers |-> IF i = n THEN [layout |-> layout, set |-> set]
                             ELSE IF Disturbed(i) THEN [layout |-> layout, set |-> Null]
                             ELSE slots[i]]

\* The elements a copy brings: those of every binding that no single write
\* of this push covers.
\* Mutant: a binding written in part is taken to be written.
Uncovered(written) == UNION {b \in Bindings : b \cap written = {}}
Copied(written) == UNION {b \in Bindings : ~(b \subseteq written)}

Inherits(slot, layout, n) == slot.set # Null /\ Compatible(slot.layout, layout, n)

Snapshot(c, layout, n, written, value) ==
    LET slot == state[c].slots[n]
        Old(e) == IF Inherits(slot, layout, n) /\ e \in Copied(written)
                  THEN content[c][slot.set][e] ELSE Undefined
    IN [e \in Elements |-> IF e \in written THEN value ELSE Old(e)]

\* Sets handed out with a batch exist from then on, and hold nothing.
Allocated(c, s) ==
    LET new == {s.batch.sets[i] : i \in DOMAIN s.batch.sets}
    IN [h \in Handles |-> IF h \in new /\ content[c][h] = Null
                          THEN [e \in Elements |-> Undefined] ELSE content[c][h]]

\* Vulkan: what a push at n leaves the application with.
Disturbs(c, layout, n, i) ==
    /\ meant[c][i].layout # <<>>
    /\ IF i < n THEN ~Compatible(meant[c][i].layout, layout, i)
       ELSE meant[c][n].layout # <<>> /\ ~Compatible(meant[c][n].layout, layout, n)
Means(c, layout, n, values) ==
    meant' = [meant EXCEPT ![c] = [i \in SetNumbers |->
        IF i = n THEN [layout |-> layout, values |-> values]
        ELSE IF Disturbs(c, layout, n, i) THEN [layout |-> layout, values |-> Null]
        ELSE meant[c][i]]]
Binds(c, layout, n, set) ==
    bound' = [bound EXCEPT ![c] = [i \in SetNumbers |->
        IF i = n THEN set ELSE IF Disturbs(c, layout, n, i) THEN Null ELSE bound[c][i]]]
Pushed(c, layout, n, written, value) ==
    LET was == meant[c][n]
    IN [e \in Elements |-> IF e \in written THEN value
                           ELSE IF was.values # Null /\ Compatible(was.layout, layout, n)
                                THEN was.values[e] ELSE Undefined]

\* vkEndCommandBuffer succeeds.
Recorded(c) == ~state[c].error
FailRecording(c) ==
    /\ state' = [state EXCEPT ![c].error = TRUE]
    /\ UNCHANGED <<content, bound, meant, drawn>>

\* on_cmd_push_descriptor_set, and the template variant with its coverage.
PushDescriptorSet(c, h, n, written, value) ==
    LET layout == pipeline[h] IN
    /\ c \in known /\ n <= Len(layout) /\ written # {}
    /\ IF layout[n] \notin usable
       THEN FailRecording(c)
       ELSE \E a \in AllocatePushSet(state[c], layout[n]) :
            IF a.set = Null
            THEN /\ state' = [state EXCEPT ![c] = [a.s EXCEPT !.error = TRUE]]
                 /\ UNCHANGED <<content, bound, meant, drawn>>
            ELSE /\ state' = [state EXCEPT ![c] =
                        [a.s EXCEPT !.slots = BindState(@, layout, n, a.set)]]
                 /\ content' = [content EXCEPT ![c] =
                        [Allocated(c, a.s) EXCEPT ![a.set] = Snapshot(c, layout, n, written, value)]]
                 /\ Binds(c, layout, n, a.set)
                 /\ Means(c, layout, n, Pushed(c, layout, n, written, value))
                 /\ UNCHANGED drawn
    /\ UNCHANGED <<known, layouts>>

PushWithTemplate(c, t, h, n, value) ==
    t \in template /\ PushDescriptorSet(c, h, n, Coverage[t], value)

\* The application binds a set of its own; the call itself is native.
BindDescriptorSets(c, h, n) ==
    /\ c \in known /\ n <= Len(pipeline[h])
    /\ state' = [state EXCEPT ![c].slots = BindState(@, pipeline[h], n, Null)]
    /\ Binds(c, pipeline[h], n, Null)
    /\ Means(c, pipeline[h], n, Null)
    /\ UNCHANGED <<known, layouts, content, drawn>>

\* A draw uses what is bound and expects what was pushed.  One of them is
\* watched, any of them.
Draw(c) ==
    /\ c \in known /\ drawn[c] = {}
    /\ drawn' = [drawn EXCEPT ![c] =
          {[set |-> bound[c][n], sees |-> meant[c][n].values] :
              n \in {i \in SetNumbers : meant[c][i].values # Null}}]
    /\ UNCHANGED <<known, layouts, state, content, bound, meant>>

-----------------------------------------------------------------------------
(* Command buffers.                                                         *)

AllocateCommandBuffer(c) ==
    /\ c \notin known
    /\ known' = known \cup {c}
    /\ UNCHANGED <<layouts, state, content, bound, meant, drawn>>

\* Mutant: a batch outlives the pool its sets are from.
RewoundWithBatch(s) == [Fresh EXCEPT !.pools = s.pools, !.batch = s.batch]
Rewound(s) == [Fresh EXCEPT !.pools = s.pools]

NothingRecorded(gone) ==
    /\ content' = [c \in Commands |-> IF c \in gone THEN [h \in Handles |-> Null] ELSE content[c]]
    /\ bound' = [c \in Commands |-> IF c \in gone THEN [n \in SetNumbers |-> Null] ELSE bound[c]]
    /\ meant' = [c \in Commands |-> IF c \in gone THEN NothingMeant ELSE meant[c]]
    /\ drawn' = [c \in Commands |-> IF c \in gone THEN {} ELSE drawn[c]]

\* reset_cmd_pools, for one command buffer or those of the pool.
ResetCommands(reset) ==
    /\ reset # {} /\ reset \subseteq known
    /\ state' = [c \in Commands |-> IF c \in reset THEN Rewound(state[c]) ELSE state[c]]
    /\ NothingRecorded(reset)
    /\ UNCHANGED <<known, layouts>>

FreeCommands(gone) ==
    /\ gone # {} /\ gone \subseteq known
    /\ known' = known \ gone
    /\ state' = [c \in Commands |-> IF c \in gone THEN Fresh ELSE state[c]]
    /\ NothingRecorded(gone)
    /\ UNCHANGED layouts

BeginCommandBuffer(c) == ResetCommands({c})
ResetCommandPool == ResetCommands(known)
FreeCommandBuffer(c) == FreeCommands({c})
DestroyCommandPool == FreeCommands(known)

DestroyDevice ==
    /\ known' = {} /\ usable' = {}
    /\ setLayout' = [h \in SetHandles |-> Null]
    /\ pipeline' = [h \in PipeHandles |-> <<>>]
    /\ template' = {}
    /\ state' = [c \in Commands |-> Fresh]
    /\ NothingRecorded(Commands)

Record(c) ==
    \/ \E h \in PipeHandles, n \in SetNumbers :
          \/ \E written \in SUBSET Elements, v \in Values : PushDescriptorSet(c, h, n, written, v)
          \/ \E t \in Templates, v \in Values : PushWithTemplate(c, t, h, n, v)
          \/ BindDescriptorSets(c, h, n)
    \/ Draw(c)

Next ==
    \/ \E h \in SetHandles : CreateSetLayout(h) \/ DestroySetLayout(h)
    \/ \E h \in PipeHandles :
          \/ \E n \in Lengths : \E sets \in [1..n -> SetHandles] : CreatePipelineLayout(h, sets)
          \/ DestroyPipelineLayout(h)
    \/ \E t \in Templates : CreateTemplate(t) \/ DestroyTemplate(t)
    \/ \E c \in Commands :
          \/ AllocateCommandBuffer(c) \/ FreeCommandBuffer(c) \/ BeginCommandBuffer(c)
          \/ Record(c)
    \/ ResetCommandPool \/ DestroyCommandPool \/ DestroyDevice

Spec == Init /\ [][Next]_vars

-----------------------------------------------------------------------------
(* Properties.                                                              *)

\* A draw of a recording that has not failed finds in its set what the
\* application had pushed when the draw was recorded, whatever was pushed
\* later: no set serves two pushes and none is of a pool that was reset.
DrawsSeePushes ==
    \A c \in Commands : Recorded(c) =>
       \A d \in drawn[c] : d.set # Null /\ content[c][d.set] = d.sees

\* The sets still to be handed out exist, in pools that exist, and no set
\* in use is among them.
BatchIsFree ==
    \A c \in Commands :
       LET s == state[c]
           waiting == {s.batch.sets[i] : i \in DOMAIN s.batch.sets}
       IN /\ s.allocated <= PoolSize
          /\ \A h \in waiting : h[1] <= s.pools /\ content[c][h] # Null
          /\ waiting \cap ({bound[c][n] : n \in SetNumbers} \cup {d.set : d \in drawn[c]}) = {}

\* A set handed out is the one the draw sees and no set is handed out twice.
PushesSound == DrawsSeePushes /\ BatchIsFree

=============================================================================
