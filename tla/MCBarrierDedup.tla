--------------------------- MODULE MCBarrierDedup ---------------------------
\* Parts that share no state, each explored from initial states of its own: a
\* behaviour is one of the part it starts in.
\*   barriers   one handle recorded by two threads in turn
\*   viewports  draws with negative viewports, two kinds of pipeline at a time
\*   divisors   draws with instanced attributes, one pipeline at a time
\*   routing    two devices, the second may have the handle of the first
EXTENDS BarrierDedup, FiniteSets, TLC

CONSTANTS
    Pipelines, Kinds, Offsets, Instances, Counts, Undefined,
    Devices, Commands, Queues, Emulated, MaxDevices

VARIABLES
    part, rate, multi, pipeline, variant, samples, divisor, tracking, lookup, current, signs,
    command, native, meant, refused, drawn,
    live, owner, created, tables, flags, writer, generation, single, bypass,
    device, lastDevice, emulated, primary, info, context, tableCache, thread

Pair(a, b) == [i \in {0, 1} |-> IF i = 0 THEN a ELSE b]
KindOf(S, viewports, d) == [samples |-> S, viewports |-> viewports, divisors |-> d]
Flipped ==
    {KindOf(S, Null, Pair(1, 1)) : S \in {{1}, {0, 1}}}
        \cup {KindOf({1}, Pair(FALSE, TRUE), Pair(1, 1))}
Divided ==
    {KindOf({0}, Null, Pair(2, 1)), KindOf({0}, Pair(FALSE, TRUE), Pair(2, 3)),
     KindOf({1}, Pair(FALSE, TRUE), Pair(0, 1))}
DrawKinds == Flipped \cup Divided

ASSUME RoutesAssumption ==
    /\ Null \notin Devices \cup Threads \cup Commands \cup Queues
    /\ Commands \cap Queues = {}

Draws == INSTANCE DrawEmulation

\* Kinds are kinds, and Null and Undefined are nothing else.
Recorded == [kind : Kinds, signs : [Draws!Slots -> BOOLEAN \cup {Undefined}], flip : BOOLEAN]
ASSUME DrawsAssumption ==
    /\ Kinds \subseteq Draws!Kind /\ Instances \subseteq Nat /\ Counts \subseteq Nat
    /\ Undefined \notin BOOLEAN
    /\ Null \notin Pipelines \cup Offsets \cup Recorded \cup {"own", "stale"}
                       \cup [Draws!Slots -> BOOLEAN] \cup [Draws!Bindings -> Nat]

Routes == INSTANCE DispatchTables WITH cache <- tableCache, last <- lastDevice

commands == <<rate, multi, pipeline, variant, samples, divisor, tracking, lookup, current, signs,
              command, native, meant, refused>>
drawVars == <<commands, drawn>>
routed == <<live, owner, created, tables, flags, writer, single, bypass,
            device, lastDevice, emulated, primary, info, context>>
routeVars == <<routed, generation, tableCache, thread>>

MCInit ==
    /\ part \in {"barriers", "viewports", "divisors", "routing"}
    /\ Init /\ Draws!Init /\ Routes!Init
    /\ part \notin {"viewports", "divisors"} => rate /\ multi
    /\ part # "barriers" => enabled

\* No vertex buffer matters to the viewports; one queue or command buffer is
\* alive or being made at a time.
MCNext ==
    \/ part = "barriers" /\ Next /\ UNCHANGED <<part, drawVars, routeVars>>
    \/ /\ part \in {"viewports", "divisors"} /\ Draws!Next
       /\ UNCHANGED <<part, vars, routeVars>>
       /\ \A p \in Pipelines : pipeline'[p] # Null =>
              /\ pipeline'[p].kind \in IF part = "viewports" THEN Flipped ELSE Divided
              /\ \A q \in Pipelines \ {p} :
                     IF part = "divisors" THEN pipeline'[q] = Null
                     ELSE pipeline'[q] = Null \/ pipeline'[q].kind # pipeline'[p].kind
       /\ part = "viewports" => native'.offsets = Draws!NoBuffers
    \/ /\ part = "routing" /\ Routes!Next
       /\ UNCHANGED <<part, vars, drawVars>>
       /\ Cardinality({o \in Commands \cup Queues : owner'[o] # Null}
              \cup {t \in Threads : thread'[t].pc # "idle" /\ Routes!Making(thread'[t])}) <= 1
    \* Every device has been created and destroyed.
    \/ part = "routing" /\ created = MaxDevices /\ (\A d \in Devices : live[d] = 0)
       /\ UNCHANGED <<part, vars, drawVars, routeVars>>

MCSpec == MCInit /\ [][MCNext]_<<part, vars, drawVars, routeVars>>

\* Only who points to a tracker tells it from another.
Pointed == [t \in Threads |-> cache[t].tracker]
Trackings ==
    <<enabled, complete, recording, [c \in CommandBuffers |-> map[c] # Null],
      [t \in Threads |-> [cache[t] EXCEPT !.tracker = @ # Null]],
      [c \in CommandBuffers |-> IF map[c] = Null THEN Null ELSE object[map[c]]],
      [t \in Threads |-> IF Pointed[t] = Null THEN Null ELSE object[Pointed[t]]],
      {of \in Threads \X CommandBuffers : Pointed[of[1]] = map[of[2]]},
      {both \in Threads \X Threads : Pointed[both[1]] = Pointed[both[2]]}>>
\* A generation is only compared with the current one.
Routing ==
    <<routed,
      [t \in Threads |-> [tableCache[t] EXCEPT !.generation = @ = generation]],
      [t \in Threads |->
          IF thread[t].pc = "idle" THEN thread[t] ELSE [thread[t] EXCEPT !.generation = @ = generation]]>>
MCView ==
    <<part, CASE part = "barriers" -> Trackings [] part = "routing" -> Routing [] OTHER -> commands>>
Symmetry == Permutations(Pipelines)

\* A draw shows what the application asked for.
DrawsSound == Draws!DrawsSound
\* A call reaches the functions of its own device; records live as long as it.
RoutesSound == part = "routing" => Routes!RoutesSound
=============================================================================
