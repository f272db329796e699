---------------------------- MODULE MCRendering ----------------------------
\* Two parts of emulated rendering that share no state, each explored from
\* initial states of its own: a behaviour is one of the part it starts in.
\*   cache      two threads that render to two views
\*   imageless  two framebuffer records over two passes and two views
EXTENDS RenderingCache, TLC

CONSTANTS Synthetic, Passes, Natives, v1, v2

VARIABLES part, emulated, record, real, recordCount, realCount, alive, content

imagelessVars == <<emulated, record, real, recordCount, realCount, alive, content>>

Imageless == INSTANCE ImagelessFramebuffers

\* Null is the absence of an entry and of a framebuffer.
ASSUME ImagelessAssumption ==
    /\ Passes \cap {"new", "gone"} = {}
    /\ Null \notin Imageless!Keys
    /\ Null \notin [frame : Natives, owner : Synthetic]

MCInit ==
    /\ part \in {"cache", "imageless"}
    /\ Init /\ Imageless!Init
    /\ part # "cache" => ~tiler
    /\ part # "imageless" => ~emulated

CacheNext == part = "cache" /\ Next /\ UNCHANGED <<part, imagelessVars>>
ImagelessNext == part = "imageless" /\ Imageless!Next /\ UNCHANGED <<part, vars>>
MCNext == CacheNext \/ ImagelessNext

MCSpec == MCInit /\ [][MCNext]_<<part, vars, imagelessVars>>

Lists == {<<v1, v2>>}
Symmetry == Permutations(Threads) \cup Permutations(PassHandles) \cup Permutations(FrameHandles)
                \cup Permutations(Formats)

\* Framebuffers made late are of live views and have an owner; counters are exact.
FramebuffersSound == Imageless!FramebuffersSound
=============================================================================
