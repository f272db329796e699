--------------------------- MODULE DrawEmulation ---------------------------
(***************************************************************************)
(* How LayerManager records a draw with three modules in its way.          *)
(* NegativeViewportModule gives the driver positive heights, remembers     *)
(* which viewports were negative and draws with a variant of the pipeline  *)
(* that turns the picture over; VertexAttributeDivisorModule cuts a draw   *)
(* where an instanced attribute changes and moves the vertex buffers by    *)
(* hand; MultiDrawIndirectModule cuts an indirect draw into single ones.   *)
(* The first that takes a draw keeps it from the next.                     *)
(*                                                                         *)
(* One command buffer of one device, whose negative viewports are always   *)
(* emulated, so that no draw takes the bypass.  TRUE stands for a viewport *)
(* of negative height.  Left out: draws whose count is in a buffer, which  *)
(* go to the driver or nowhere, and dynamic strides.                       *)
(***************************************************************************)
EXTENDS Naturals, Sequences

CONSTANTS
    Pipelines, \* VkPipeline handles, which the driver may use again
    Kinds,     \* what a pipeline is created from
    Offsets,   \* of a vertex buffer
    Instances, \* instances of a draw
    Counts,    \* draws of an indirect draw
    Undefined, Null

Slots == {0, 1}
Bindings == {0, 1}
\* The viewports a shader chooses from: the first without gl_ViewportIndex, one
\* for a constant, all otherwise.  Null: the viewports are dynamic state.
Kind == [samples : (SUBSET Slots) \ {{}}, viewports : [Slots -> BOOLEAN] \cup {Null},
         divisors : [Bindings -> Nat]]

VARIABLES
    rate,      \* the driver has divisors, so they are not emulated
    multi,     \* the driver has multiDrawIndirect
    pipeline,  \* the application's pipelines and what the driver was given for them
    variant,   \* m_variants
    samples,   \* m_pipeline_uses_viewport_index, m_pipeline_constant_viewport
    divisor,   \* m_pipeline_divisors
    tracking,  \* m_has_divisor_pipelines
    lookup,    \* the thread_locals of on_cmd_bind_pipeline
    current,   \* m_cmd_pipeline
    signs,     \* m_cmd_negative, m_cmd_positive
    command,   \* CmdBufferState of the divisors
    native,    \* what is bound and set in the driver's command buffer
    meant,     \* what the application bound and set
    refused,   \* a set of viewports of both signs went to the driver as it was
    drawn      \* what the last draw made of its instances or draws

made == <<pipeline, variant, samples, divisor, tracking>>
vars == <<rate, multi, made, lookup, current, signs, command, native, meant, refused, drawn>>

NoSigns == [s \in Slots |-> Undefined]
NoBuffers == [b \in Bindings |-> Null]
NoLookup == [pipeline |-> Null, info |-> Null]
NoCommand == [info |-> Null, offsets |-> NoBuffers]
Blank == [pipeline |-> Null, signs |-> NoSigns, offsets |-> NoBuffers]
NoDraw == [command |-> "none", first |-> 0, count |-> 0, calls |-> <<>>, flip |-> FALSE]

Init ==
    /\ rate \in BOOLEAN /\ multi \in BOOLEAN
    /\ pipeline = [p \in Pipelines |-> Null]
    /\ variant = [p \in Pipelines |-> Null]
    /\ samples = [p \in Pipelines |-> {0}]
    /\ divisor = [p \in Pipelines |-> Null]
    /\ tracking = FALSE
    /\ lookup = NoLookup
    /\ current = Null
    /\ signs = NoSigns
    /\ command = NoCommand
    /\ native = Blank /\ meant = Blank
    /\ refused = FALSE
    /\ drawn = NoDraw

Dynamic(kind) == kind.viewports = Null

-----------------------------------------------------------------------------
(* Pipelines.                                                               *)

\* What becomes of static viewports: the driver's heights and the shader.
\* rewritable: the shader's code is known, and it and a module can be made.
Static(kind, rewritable) ==
    LET same == [signs |-> kind.viewports, flip |-> FALSE]
        turned == [signs |-> [s \in Slots |-> FALSE], flip |-> \A s \in kind.samples : kind.viewports[s]]
        undecided == kind.samples = Slots /\ \E s \in Slots : ~kind.viewports[s]
    IN  IF ~rewritable \/ undecided \/ \A s \in Slots : ~kind.viewports[s] THEN same
        ELSE turned

\* Bindings whose stride the driver is told to be 0.
Rewritten(kind) == {b \in Bindings : ~rate /\ kind.divisors[b] # 1}
Divided(kind) == {b \in Bindings : kind.divisors[b] > 1}

\* The variant and what the shader samples, kept for dynamic viewports.
\* varied: the variant could be created.
CreateVariant(p, kind, rewritable, varied) ==
    IF Dynamic(kind) /\ rewritable
    THEN /\ samples' = [samples EXCEPT ![p] = kind.samples]
         /\ variant' = [variant EXCEPT ![p] = IF varied THEN "own" ELSE @]
    ELSE UNCHANGED <<samples, variant>>

RecordDivisors(p, kind) ==
    IF Rewritten(kind) # {}
    THEN /\ divisor' = [divisor EXCEPT ![p] = kind.divisors]
         /\ tracking' = (tracking \/ Divided(kind) # {})
         /\ lookup' = NoLookup
    ELSE UNCHANGED <<divisor, tracking, lookup>>

\* dispatch_create_graphics_pipelines: every module changes its part, the
\* driver creates, and what is pending is recorded.
CreatePipeline(p, kind, rewritable, varied) ==
    /\ pipeline[p] = Null
    /\ LET shape == IF Dynamic(kind) THEN [signs |-> NoSigns, flip |-> FALSE]
                    ELSE Static(kind, rewritable)
       IN pipeline' = [pipeline EXCEPT ![p] = [kind |-> kind, signs |-> shape.signs, flip |-> shape.flip]]
    /\ CreateVariant(p, kind, rewritable, varied)
    /\ RecordDivisors(p, kind)
    /\ UNCHANGED <<rate, multi, current, signs, command, native, meant, refused, drawn>>

ForgetDivisors(p) ==
    /\ divisor' = [divisor EXCEPT ![p] = Null]
    /\ lookup' = IF divisor[p] = Null THEN lookup ELSE NoLookup

\* dispatch_destroy_pipeline: not told to the negative viewports, whose
\* records stay with the handle.  A pipeline in use is not destroyed.
DestroyPipeline(p) ==
    /\ pipeline[p] # Null /\ meant.pipeline # p
    /\ pipeline' = [pipeline EXCEPT ![p] = Null]
    /\ variant' = [variant EXCEPT ![p] = IF @ = Null THEN Null ELSE "stale"]
    /\ ForgetDivisors(p)
    /\ UNCHANGED <<rate, multi, samples, tracking, current, signs, command, native, meant, refused, drawn>>

-----------------------------------------------------------------------------
(* What a draw needs.                                                       *)

\* Begin: an implicit reset; the divisors hear only of an explicit one.
Begin(explicit) ==
    /\ current' = Null /\ signs' = NoSigns /\ refused' = FALSE
    /\ native' = Blank /\ meant' = Blank /\ drawn' = NoDraw
    /\ command' = IF explicit THEN [command EXCEPT !.info = Null] ELSE command
    /\ UNCHANGED <<rate, multi, made, lookup>>

\* The divisors of a pipeline, from the thread's last lookup while no pipeline
\* came or went.
Remembered(p) == IF lookup.pipeline = p THEN lookup.info ELSE divisor[p]

BindPipeline(p) ==
    /\ pipeline[p] # Null
    /\ IF tracking
       THEN /\ command' = [command EXCEPT !.info = Remembered(p)]
            /\ lookup' = [pipeline |-> p, info |-> Remembered(p)]
       ELSE UNCHANGED <<command, lookup>>
    /\ current' = p
    /\ LET fixed == ~Dynamic(pipeline[p].kind)
       IN /\ native' = [native EXCEPT !.pipeline = p, !.signs = IF fixed THEN NoSigns ELSE @]
          /\ meant' = [meant EXCEPT !.pipeline = p, !.signs = IF fixed THEN NoSigns ELSE @]
    /\ drawn' = NoDraw
    /\ UNCHANGED <<rate, multi, made, signs, refused>>

Merged(old, new) == [s \in Slots |-> IF s \in DOMAIN new THEN new[s] ELSE old[s]]
BothSigns(f) == {TRUE, FALSE} \subseteq {f[s] : s \in Slots}

SetViewport(new) ==
    LET merged == Merged(signs, new)
        mixed == current # Null /\ samples[current] = Slots /\ BothSigns(merged)
    IN  /\ signs' = IF mixed THEN signs ELSE merged
        /\ native' = [native EXCEPT !.signs =
                         Merged(@, IF mixed THEN new ELSE [s \in DOMAIN new |-> FALSE])]
        /\ meant' = [meant EXCEPT !.signs = Merged(@, new)]
        /\ refused' = (refused \/ mixed)
        /\ drawn' = NoDraw
        /\ UNCHANGED <<rate, multi, made, lookup, current, command>>

BindVertexBuffer(b, offset) ==
    /\ command' = IF tracking THEN [command EXCEPT !.offsets[b] = offset] ELSE command
    /\ native' = [native EXCEPT !.offsets[b] = offset]
    /\ meant' = [meant EXCEPT !.offsets[b] = offset]
    /\ drawn' = NoDraw
    /\ UNCHANGED <<rate, multi, made, lookup, current, signs, refused>>

-----------------------------------------------------------------------------
(* Draws.                                                                   *)

\* Vulkan: everything the pipeline reads was set.
Drawable ==
    /\ meant.pipeline # Null
    /\ Dynamic(pipeline[meant.pipeline].kind) => \A s \in Slots : meant.signs[s] # Undefined
    /\ \A b \in Bindings : pipeline[meant.pipeline].kind.divisors[b] # 1 => meant.offsets[b] # Null

\* Mutant: a constant gl_ViewportIndex is taken for 0.
TurnsOverFirst ==
    /\ current # Null /\ variant[current] # Null
    /\ \E s \in Slots : signs[s] = TRUE
    /\ IF samples[current] = Slots THEN \A s \in Slots : signs[s] # FALSE ELSE signs[0] = TRUE
\* bind_variant.
TurnsOver ==
    /\ current # Null /\ variant[current] # Null
    /\ \E s \in Slots : signs[s] = TRUE
    /\ IF samples[current] = Slots THEN \A s \in Slots : signs[s] # FALSE
       ELSE \A s \in samples[current] : signs[s] = TRUE

\* Instances until some attribute changes.
\* Mutant: the attribute is taken to change where the draw starts.
ChunkFromFirst(i, end) ==
    LET left(b) == IF command.info[b] < end - i THEN command.info[b] ELSE end - i
    IN  CHOOSE n \in {left(b) : b \in Divided([divisors |-> command.info])} :
            \A b \in Divided([divisors |-> command.info]) : n <= left(b)
Chunk(i, end) ==
    LET boundary(b) == (i \div command.info[b] + 1) * command.info[b]
        stops == {end} \cup {boundary(b) : b \in Divided([divisors |-> command.info])}
    IN  (CHOOSE n \in stops : \A m \in stops : n <= m) - i

Call(i, n, buffers) == [first |-> i, count |-> n, buffers |-> buffers]
Plain(b) == [offset |-> native.offsets[b], element |-> 0]

\* A buffer the module has not seen is left where it is.
Moved(i) ==
    [b \in Bindings |->
        IF command.info[b] > 1 /\ command.offsets[b] # Null
        THEN [offset |-> command.offsets[b], element |-> i \div command.info[b]]
        ELSE Plain(b)]
Chunks(first, count) ==
    LET from[i \in first .. first + count] ==
            IF i = first + count THEN <<>>
            ELSE LET n == Chunk(i, first + count) IN <<Call(i, n, Moved(i))>> \o from[i + n]
    IN  from[first]

Restored ==
    [b \in Bindings |-> IF command.info[b] > 1 /\ command.offsets[b] # Null
                        THEN command.offsets[b] ELSE native.offsets[b]]

Whole(first, count) == <<Call(first, count, [b \in Bindings |-> Plain(b)])>>
Divides(count) == tracking /\ count # 0 /\ command.info # Null /\ Divided([divisors |-> command.info]) # {}

Drawn(name, first, count, calls, flip) ==
    [command |-> name, first |-> first, count |-> count, calls |-> calls, flip |-> flip]

\* vkCmdDraw and vkCmdDrawIndexed.  The first instance of a divided draw is 0.
Draw(first, count) ==
    /\ Drawable
    /\ first # 0 => \A b \in Bindings : pipeline[meant.pipeline].kind.divisors[b] = 1
    /\ IF TurnsOver
       THEN /\ drawn' = Drawn("draw", first, count, Whole(first, count), TRUE)
            /\ native' = [native EXCEPT !.pipeline = current]
       ELSE IF Divides(count)
       THEN /\ drawn' = Drawn("draw", first, count, Chunks(first, count), FALSE)
            /\ native' = [native EXCEPT !.offsets = Restored]
       ELSE /\ drawn' = Drawn("draw", first, count, Whole(first, count), FALSE)
            /\ UNCHANGED native
    /\ UNCHANGED <<rate, multi, made, lookup, current, signs, command, meant, refused>>

\* MultiDrawIndirectModule.
\* Mutant: the driver gets the draws it cannot cut.
SinglesNever(n) == FALSE
Singles(n) == ~multi
Nth(i, n) == [first |-> i, count |-> n]
Single(n) == [i \in 1..n |-> Nth(i - 1, 1)]
WholeIndirect(n) == <<Nth(0, n)>>
DrawIndirect(n) ==
    /\ Drawable
    /\ LET calls == IF TurnsOver THEN WholeIndirect(n)
                    ELSE IF n = 0 THEN <<>>
                    ELSE IF Singles(n) THEN Single(n) ELSE WholeIndirect(n)
       IN drawn' = Drawn("indirect", 0, n, calls, TurnsOver)
    /\ native' = IF TurnsOver THEN [native EXCEPT !.pipeline = current] ELSE native
    /\ UNCHANGED <<rate, multi, made, lookup, current, signs, command, meant, refused>>

Next ==
    \/ \E p \in Pipelines :
          \/ \E kind \in Kinds, rewritable \in BOOLEAN :
             \E varied \in IF Dynamic(kind) /\ rewritable THEN BOOLEAN ELSE {FALSE} :
                CreatePipeline(p, kind, rewritable, varied)
          \/ DestroyPipeline(p)
          \/ BindPipeline(p)
    \/ \E explicit \in BOOLEAN : Begin(explicit)
    \/ \E S \in (SUBSET Slots) \ {{}} : \E new \in [S -> BOOLEAN] : SetViewport(new)
    \/ \E b \in Bindings, offset \in Offsets : BindVertexBuffer(b, offset)
    \/ \E first \in {0, 1}, count \in Instances : Draw(first, count)
    \/ \E n \in Counts : DrawIndirect(n)

Spec == Init /\ [][Next]_vars

-----------------------------------------------------------------------------
(* Properties.                                                              *)

\* The driver turns a picture over at a negative height, the layer with a shader.
TurnedOver(p, s) ==
    IF Dynamic(pipeline[p].kind) THEN drawn.flip # native.signs[s]
    ELSE drawn.flip # (pipeline[p].flip # pipeline[p].signs[s])
Negative(p, s) == IF Dynamic(pipeline[p].kind) THEN meant.signs[s] ELSE pipeline[p].kind.viewports[s]
Upright(p) == \A s \in pipeline[p].kind.samples : TurnedOver(p, s) = Negative(p, s)

\* The module has a variant made for the pipeline when it needs one, and none
\* made for an earlier pipeline of that handle.
Prepared(p) == variant[p] = IF Dynamic(pipeline[p].kind) THEN "own" ELSE Null

\* The calls are of every instance, or draw, once and in order.
Covers(calls, first, count) ==
    IF calls = <<>> THEN count = 0
    ELSE /\ calls[1].first = first
         /\ \A k \in 1 .. Len(calls) - 1 : calls[k + 1].first = calls[k].first + calls[k].count
         /\ calls[Len(calls)].first + calls[Len(calls)].count = first + count

\* Every instance reads its own element of a divided attribute.
ReadsOwn(c, b, d) ==
    /\ c.buffers[b].offset = meant.offsets[b]
    /\ \A i \in c.first .. c.first + c.count - 1 : c.buffers[b].element = i \div d

\* A shader that chooses among viewports is turned over as a whole.
Decided(p) == Dynamic(pipeline[p].kind) /\ pipeline[p].kind.samples = Slots => ~BothSigns(meant.signs)

\* DrawsSound: a draw shows what the application asked for, whatever was bound, set,
\* created and destroyed in between and by whichever module it was recorded: it
\* is turned over exactly when the viewport its shader chooses is negative;
\* every instance and every indirect draw is drawn once, with its own elements
\* of divided attributes; and what the application had bound is bound again.
\* Outside: pipelines whose variant could not be made or was left behind by an
\* earlier pipeline of the same handle, viewports of both signs with a shader
\* that chooses among them, and division of a draw that was turned over, of
\* an indirect draw (the code warns that it is not expanded) or of a buffer
\* bound before there was any pipeline with a divisor.
DrawSound ==
    drawn.command # "none" =>
        LET p == meant.pipeline IN
        /\ ~refused /\ Prepared(p) /\ Decided(p) => Upright(p)
        /\ native.pipeline = p /\ native.offsets = meant.offsets
        /\ Covers(drawn.calls, drawn.first, drawn.count)
        /\ drawn.command = "indirect" /\ ~multi /\ ~drawn.flip =>
               \A k \in DOMAIN drawn.calls : drawn.calls[k].count = 1
        /\ drawn.command = "draw" /\ ~rate /\ ~drawn.flip =>
               \A b \in Divided(pipeline[p].kind) : command.offsets[b] # Null =>
                  \A k \in DOMAIN drawn.calls : ReadsOwn(drawn.calls[k], b, pipeline[p].kind.divisors[b])

\* DrawSound after every draw.
DrawsSound == [][DrawSound']_vars
=============================================================================
