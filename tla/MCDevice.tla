------------------------------ MODULE MCDevice ------------------------------
(***************************************************************************)
(* How a device comes about and is closed: parts that share no state, each *)
(* explored from initial states of its own.                                *)
(*   cache      the pipeline caches of devices, as in MCPipelineCache       *)
(*   features   a query, an enumeration and a vkCreateDevice, per driver   *)
(*   closure    the native extensions of one vkCreateDevice                *)
(***************************************************************************)
EXTENDS MCPipelineCache

CONSTANT Null

VARIABLES
    part,
    driver, forced, progress, app, call, reported, wanted, given, unemulated,
    records, environment, asked, plan

INSTANCE DeviceInstances

Features == INSTANCE DeviceFeatures WITH native <- unemulated, stage <- progress
featureVars == <<driver, forced, progress, app, call, reported, wanted, given, unemulated>>
FeaturesInit ==
    IF part = "features" THEN Features!Init /\ Considered(driver, app, forced)
    ELSE /\ driver = Null /\ forced = {} /\ progress = "start" /\ app = <<>> /\ call = Null
         /\ reported = Null /\ wanted = Null /\ given = Null /\ unemulated = Null

Closures == INSTANCE ExtensionDependencies
closureVars == <<records, environment, asked, plan>>
ClosureInit ==
    /\ plan = Null
    /\ IF part = "closure"
       THEN records \in {g \in Graphs : Acyclic(g)} /\ environment \in Environments /\ asked \in AskedFor
       ELSE records = Null /\ environment = Null /\ asked = <<>>

MCInit ==
    /\ part \in {"cache", "features", "closure"}
    /\ Init /\ (part # "cache" => \A p \in Paths : file[p].content = {})
    /\ FeaturesInit /\ ClosureInit

MCNext ==
    \/ part = "cache" /\ Next /\ UNCHANGED <<part, featureVars, closureVars>>
    \/ part = "features" /\ Features!Next /\ UNCHANGED <<part, vars, closureVars>>
    \/ part = "closure" /\ Closures!Next /\ UNCHANGED <<part, vars, featureVars>>

MCSpec == MCInit /\ [][MCNext]_<<part, vars, featureVars, closureVars>>

\* A cache and its file may change places with the other cache and its file.
DeviceSymmetry ==
    AppSymmetry \cup {(c1 :> c2 @@ c2 :> c1 @@ f1 :> f2 @@ f2 :> f1)}

\* What a device is said to do can be asked for and is then done, by the
\* driver or by a module (promoted features, hooks, vkCreateDevice).
DevicesSound == part = "features" => Features!DevicesSound
\* A device is created with its extensions and all they depend on, or refused.
ClosureSound == part = "closure" => Closures!ClosureSound
=============================================================================
