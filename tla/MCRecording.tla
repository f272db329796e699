---------------------------- MODULE MCRecording ----------------------------
\* Parts of recording that share no state, each explored from initial states
\* of its own: a behaviour is one of the part it starts in.
\*   tiler  one command buffer of one of two devices, tiny budgets
\*   push   one command buffer, two layouts that replace each other
\*   entry  two devices that need any one part of the layer, or none, or the
\*          tiler; one pointer to any function
EXTENDS TilerSplit, EntryPoints

CONSTANTS
    Buffers, Layouts, SetHandles, PipeHandles, Lengths, Templates, Elements,
    Values, PoolSize, Batch, MaxPools, Undefined, a, b, e1, g1, g2

Coverage == [t \in Templates |-> {e1}]
Definition == [l \in Layouts |-> l]
Bindings == {Elements}

One == Parts \ {"tiler", "base"}
AnyOne == [d \in VkDevices |->
    IF d = g1 THEN {{}, {"rendering", "tiler"}, {"rendering", "tiler", "push"}, {"base", "group"}}
                       \cup {{p} : p \in One}
    ELSE {{}, {"divisor", "sync2"}}]

VARIABLES
    part, known, setLayout, usable, pipeline, template, pushState, content, bound, meant, drawn

pushVars == <<known, setLayout, usable, pipeline, template, pushState, content, bound, meant, drawn>>

Push == INSTANCE PushDescriptors
    WITH Commands <- Buffers, state <- pushState

MCInit ==
    /\ part \in {"tiler", "push", "entry"}
    /\ Init /\ Push!Init /\ EntryInit
    /\ part # "entry" => ~optimise

MCNext ==
    \/ part = "tiler" /\ Next /\ UNCHANGED <<part, pushVars, entryVars>>
    \/ part = "push" /\ Push!Next /\ UNCHANGED <<part, vars, entryVars>>
    \/ part = "entry" /\ EntryNext /\ UNCHANGED <<part, vars, pushVars>>

MCSpec == MCInit /\ [][MCNext]_<<part, vars, pushVars, entryVars>>

\* A set holds something else than Null once it is allocated.
ASSUME PushAssumption ==
    /\ PoolSize \in Nat \ {0} /\ Batch \in Nat \ {0} /\ MaxPools \in Nat \ {0}
    /\ Lengths \subseteq Nat /\ e1 \in Elements
    /\ Null \notin Push!Handles \cup [Elements -> Values \cup {Undefined}]

\* Nobody can tell what is in a set that is neither bound nor drawn with, nor
\* what a layout was whose object is gone.  A template pushes what a push of
\* the elements it covers does: one into a fresh command buffer is seen.
Used == {bound[c][n] : c \in Buffers, n \in Push!SetNumbers}
           \cup {pushState[c].slots[n].set : c \in Buffers, n \in Push!SetNumbers}
           \cup {d.set : d \in UNION {drawn[c] : c \in Buffers}}
MCView ==
    <<part, vars, entryVars, known, setLayout, usable \cap Push!Referenced, pipeline,
      IF pushState = [c \in Buffers |-> Push!Fresh] THEN template ELSE {}, pushState, bound, meant, drawn,
      [c \in Buffers |-> [h \in Push!Handles |->
          IF h \in Used \/ content[c][h] = Null THEN content[c][h] ELSE Undefined]]>>

Symmetry == Permutations(Devices) \cup Permutations(Layouts)

\* A draw sees what was pushed; no set is handed out twice.
PushesSound == Push!PushesSound
=============================================================================
