----------------------- MODULE ExtensionDependencies -----------------------
(***************************************************************************)
(* Which native extensions a device must be created with so that those     *)
(* asked for have what they depend on                                      *)
(* (src/layer/src/main/cpp/core/extension_dependencies.cpp).               *)
(*                                                                         *)
(* An extension's record is [instance, promoted, into, dependency]:        *)
(* promoted is the core version it is part of, or 0, into the extension    *)
(* that took it over, or Null.  A dependency is an expression over         *)
(* extensions and core versions.                                           *)
(***************************************************************************)
EXTENDS Naturals, SequencesExt

CONSTANT Null

VARIABLES
    records,     \* extension_records
    environment, \* ExtensionEnvironment: what the driver and the instance have
    asked,       \* the names vkCreateDevice is left with
    plan         \* Null, or what the closure returned

NoDependency == [kind |-> "none"]
Extension(x) == [kind |-> "extension", name |-> x]
Version(v) == [kind |-> "version", version |-> v]
Both(a, b) == [kind |-> "and", left |-> a, right |-> b]
Either(a, b) == [kind |-> "or", left |-> a, right |-> b]

InOrder(S) == FoldSet(LAMBDA x, seq : Append(seq, x), <<>>, S)
Start(names) == [names |-> names, active |-> {}, complete |-> {}]
Done(s) == [ok |-> TRUE, state |-> s]
Missing == [ok |-> FALSE, state |-> Start(<<>>)]

\* What the core, or the instance, has already.
Provided(R, env, x) ==
    \/ R[x].promoted # 0 /\ (IF R[x].instance THEN env.instanceApi ELSE env.deviceApi) >= R[x].promoted
    \/ R[x].instance /\ x \in env.enabled
Selectable(R, env, x) == ~R[x].instance /\ x \in env.available

RECURSIVE Expression(_, _, _, _), Require(_, _, _, _, _)

\* Forgets that the other side of an "or" may do when one does not.
LeftOnly(R, env, e, s) ==
    CASE e.kind = "none" -> Done(s)
      [] e.kind = "extension" -> Require(R, env, e.name, s, FALSE)
      [] e.kind = "version" -> IF env.deviceApi >= e.version THEN Done(s) ELSE Missing
      [] e.kind = "and" ->
             LET left == Expression(R, env, e.left, s)
             IN  IF left.ok THEN Expression(R, env, e.right, left.state) ELSE Missing
      [] e.kind = "or" -> Expression(R, env, e.left, s)

\* Each side of an "or" works on a copy; the one that selects less is kept.
Expression(R, env, e, s) ==
    CASE e.kind = "none" -> Done(s)
      [] e.kind = "extension" -> Require(R, env, e.name, s, FALSE)
      [] e.kind = "version" -> IF env.deviceApi >= e.version THEN Done(s) ELSE Missing
      [] e.kind = "and" ->
             LET left == Expression(R, env, e.left, s)
             IN  IF left.ok THEN Expression(R, env, e.right, left.state) ELSE Missing
      [] e.kind = "or" ->
             LET left == Expression(R, env, e.left, s)
                 right == Expression(R, env, e.right, s)
             IN  IF left.ok /\ (right.ok => Len(left.state.names) <= Len(right.state.names))
                 THEN left ELSE right

\* An extension met again on its own path is taken for granted if selected;
\* one the driver lacks may have lived on under another name.
Require(R, env, x, s, root) ==
    LET entered == [s EXCEPT !.active = @ \cup {x}]
        left(r, complete) ==
            IF r.ok THEN Done([r.state EXCEPT !.active = @ \ {x}, !.complete = @ \cup complete])
            ELSE Missing
    IN  IF \/ ~root /\ Provided(R, env, x)
           \/ x \in s.complete
           \/ x \in s.active /\ Contains(s.names, x)
        THEN Done(s)
        ELSE IF x \in s.active THEN Missing
        ELSE IF ~Selectable(R, env, x)
        THEN IF ~root /\ R[x].into # Null
             THEN left(Require(R, env, R[x].into, entered, FALSE), {}) ELSE Missing
        ELSE LET names == IF Contains(s.names, x) THEN s.names ELSE Append(s.names, x)
             IN  left(Expression(R, env, R[x].dependency, [entered EXCEPT !.names = names]), {x})

\* Names without a record are passed through.
Close(R, env, names) ==
    LET require(r, x) ==
            IF ~r.ok \/ x \notin DOMAIN R THEN r ELSE Require(R, env, x, r.state, TRUE)
    IN  IF ToSet(names) \subseteq env.available
        THEN FoldLeft(require, Done(Start(names)), names)
        ELSE Missing

\* The core 1.1 extensions a 1.0 driver can be asked for besides.
Routes(R, env, publicApi) ==
    LET add(names, x) ==
            LET r == Close(R, env, Append(names, x))
            IN  IF ~R[x].instance /\ R[x].promoted = 11 /\ x \in env.available /\ r.ok
                THEN r.state.names ELSE names
    IN  IF publicApi < 11 \/ env.deviceApi >= 11 THEN <<>>
        ELSE FoldLeft(add, <<>>, InOrder(DOMAIN R))

Plan(routes) ==
    /\ plan = Null
    /\ LET r == Close(records, environment,
                      IF routes THEN asked \o SelectSeq(Routes(records, environment, 11),
                                                        LAMBDA x : ~Contains(asked, x))
                      ELSE asked)
       IN  plan' = [ok |-> r.ok, names |-> r.state.names]
    /\ UNCHANGED <<records, environment, asked>>

Finished == plan # Null /\ UNCHANGED <<records, environment, asked, plan>>

Next == (\E routes \in BOOLEAN : Plan(routes)) \/ Finished

(***************************************************************************)
(* What a closure is, said without an algorithm.                           *)
(***************************************************************************)
RECURSIVE Satisfied(_, _), Stands(_, _, _)
Satisfied(e, S) ==
    CASE e.kind = "none" -> TRUE
      [] e.kind = "extension" -> Stands(e.name, S, {})
      [] e.kind = "version" -> environment.deviceApi >= e.version
      [] e.kind = "and" -> Satisfied(e.left, S) /\ Satisfied(e.right, S)
      [] e.kind = "or" -> Satisfied(e.left, S) \/ Satisfied(e.right, S)
Stands(x, S, seen) ==
    \/ Provided(records, environment, x)
    \/ x \in S
    \/ /\ ~Selectable(records, environment, x) /\ x \notin seen /\ records[x].into # Null
       /\ Stands(records[x].into, S, seen \cup {x})

Closed(S) ==
    \A x \in S \cap DOMAIN records :
        Selectable(records, environment, x) /\ Satisfied(records[x].dependency, S)

\* The plan succeeds exactly when some set of native extensions contains
\* what was asked for and everything it depends on, and then it is such a
\* set, each name once (close_extension_dependencies), whatever the cycles,
\* alternatives and renamed extensions in between.
ClosureSound ==
    plan # Null =>
        /\ plan.ok <=> \E S \in SUBSET environment.available : ToSet(asked) \subseteq S /\ Closed(S)
        /\ plan.ok =>
               /\ ToSet(asked) \subseteq ToSet(plan.names)
               /\ ToSet(plan.names) \subseteq environment.available
               /\ Closed(ToSet(plan.names))
               /\ IsInjective(plan.names)
=============================================================================
