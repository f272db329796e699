--------------------------- MODULE DeviceInstances ---------------------------
(***************************************************************************)
(* The drivers, chains and dependencies that runs of DeviceFeatures and    *)
(* ExtensionDependencies range over.                                       *)
(***************************************************************************)
EXTENDS Naturals, FiniteSets, Sequences

CONSTANT Null

LOCAL F == INSTANCE DeviceFeatures
    WITH Drivers <- {}, Queries <- {}, Forced <- {}, Records <- <<>>, driver <- Null,
         forced <- {}, stage <- Null, app <- <<>>, call <- Null, reported <- Null,
         wanted <- Null, given <- Null, native <- Null
LOCAL E == INSTANCE ExtensionDependencies
    WITH records <- <<>>, environment <- Null, asked <- <<>>, plan <- Null

\* The features that are also the names of extensions, and the core version
\* each is part of.
CoreOf ==
    [multiview |-> 11, timeline |-> 12, reset |-> 12, address |-> 12, mirror |-> 99,
     rendering |-> 13, sync2 |-> 13, divisor |-> 99]
Named == DOMAIN CoreOf
Listable == Named \cup {"renderpass2", "maintenance1", "variable"}

\* What a driver of a version that lists X may support, and what it must.
Possible(api, X) ==
    {f \in Named : f \in X \/ api >= CoreOf[f]} \cup F!BaseFeatures
        \cup {f \in {"geometry"} : api >= 11 \/ "multiview" \in X}
Optional == {"address", "divisor", "geometry"} \cup F!BaseFeatures

\* Drivers that list everything, nothing, one extension or all but one, that
\* support all they may, only what they must, or all but one feature.  The
\* tiler is in doubt for some of those with dynamic rendering and all else.
Drivers ==
    {d \in UNION {[api : {a}, query2 : BOOLEAN, astray : {FALSE, a >= 12}, extensions : {X},
                   tiler : {FALSE, (X \in {Listable, {"rendering"}})},
                   features : {Possible(a, X), Possible(a, X) \ Optional}
                       \cup {Possible(a, X) \ {f} : f \in IF X = Listable THEN Optional ELSE {}}] :
                  a \in {10, 11, 12, 13},
                  X \in {{}, Listable} \cup {{x} : x \in Listable} \cup {Listable \ {x} : x \in Listable}} :
        /\ d.tiler => d.features = Possible(d.api, d.extensions)
        /\ ~d.query2 => d.api = 10 /\ d.extensions \cap {"multiview", "timeline", "reset", "address"} = {}
        /\ d.api < 12 /\ "rendering" \in d.extensions => "renderpass2" \in d.extensions
        /\ d.api < 11 /\ "renderpass2" \in d.extensions => "multiview" \in d.extensions}
Queries ==
    {<<"V11", "V12">>, <<"Rendering", "V12", "Sync2">>, <<"Timeline", "Reset", "Multiview", "Address">>,
     <<"Divisor", "Sync2", "Rendering">>, <<"V13", "V12", "V11">>}
Forced == {{}, {"timeline", "rendering", "sync2", "divisor"} \cup F!BaseFeatures}
\* The aggregate for 1.3 is one of 1.3; modules are forced on the richest.
Considered(d, q, f) ==
    /\ q = <<"V13", "V12", "V11">> => d.api >= 13
    /\ f # {} => d.extensions = Listable

Dependent(p, into, d) == [instance |-> FALSE, promoted |-> p, into |-> into, dependency |-> d]
Records ==
    [x \in Listable |->
        CASE x = "rendering" -> Dependent(13, Null, E!Either(E!Version(12), E!Extension("renderpass2")))
          [] x = "renderpass2" -> Dependent(12, Null, E!Either(E!Version(11), E!Extension("multiview")))
          [] x \in {"variable", "maintenance1"} -> Dependent(11, Null, E!NoDependency)
          [] OTHER -> Dependent(IF CoreOf[x] = 99 THEN 0 ELSE CoreOf[x], Null, E!NoDependency)]

-----------------------------------------------------------------------------

\* Three extensions that need, replace and offer alternatives to each other.
\* One that took another over does not need it in turn.
Bare == {E!NoDependency, E!Version(11)}
Needs(x) == E!Extension(x)
Expressions ==
    Bare \cup {Needs(x) : x \in {"a", "b", "c"}}
        \cup {E!Both(Needs("b"), Needs("c")), E!Either(Needs("b"), Needs("c")),
              E!Either(Needs("a"), E!Version(11)), E!Either(E!Both(Needs("a"), Needs("c")), Needs("b"))}
Graphs ==
    {[a |-> Dependent(0, Null, da), b |-> Dependent(p, bInto, db), c |-> [Dependent(0, cInto, dc) EXCEPT !.instance = i]] :
        da \in Expressions, db \in Expressions, p \in {0, 11}, bInto \in {Null, "c"}, cInto \in {Null, "b"},
        dc \in {E!NoDependency, Needs("a"), E!Either(Needs("b"), Needs("a"))}, i \in BOOLEAN}
Acyclic(g) ==
    /\ g.b.into = "c" => g.c.into = Null /\ g.c.dependency \in Bare \cup {Needs("a")}
    /\ g.c.into = "b" => g.b.dependency \in Bare \cup {Needs("a"), Needs("b"), E!Either(Needs("a"), E!Version(11))}
Environments ==
    {[instanceApi |-> 10, deviceApi |-> v, enabled |-> {"c"}, available |-> A] :
        v \in {10, 11}, A \in SUBSET {"a", "b", "c"}}
AskedFor == {<<>>, <<"a">>, <<"b", "a">>}
=============================================================================
