--------------------------- MODULE DeviceFeatures ---------------------------
(***************************************************************************)
(* What an application is told a device can do, and the device it gets     *)
(* when it asks for that: the query of features, the enumeration of        *)
(* extensions and vkCreateDevice, each through the promotions of           *)
(* src/layer/src/main/cpp/core/promoted_features.cpp, the hooks of the     *)
(* modules and the driver, in the order of core/layer_manager.cpp.         *)
(*                                                                         *)
(* A driver is [api, query2, extensions, features, astray, tiler]: query2  *)
(* when it has vkGetPhysicalDeviceFeatures2, astray when its answer in the *)
(* 1.1 aggregate is wrong, tiler when a probe did not find its tiler sound *)
(* (use_bounded_tiler_guard).  A chain is a sequence of structure types, and what *)
(* a structure says is the set of the features that are VK_TRUE in it.     *)
(***************************************************************************)
EXTENDS Chains

CONSTANTS
    Drivers,    \* the drivers considered
    Queries,    \* the chains an application queries with
    Forced,     \* sets of modules told to emulate by VULKAN_FIX_EMULATE_*
    Records,    \* the extensions' records, of ExtensionDependencies
    Null

VARIABLES
    driver, forced,
    stage,      \* the call being handled, and how far it is
    app,        \* the application's chain, before and after
    call,       \* the chain and what it says, as the layer has them
    reported,   \* what the application was told, and nothing before that
    wanted,     \* what it then asked for
    given,      \* what the driver was asked for
    native      \* of a module: TRUE when it leaves the device to the driver

state == <<driver, forced, stage, app, call, reported, wanted, given, native>>

Groups == <<"Multiview", "Timeline", "Reset", "Address">>
Aggregates == {"V11", "V12"}
\* The core version, the extension and the aggregate of a promoted structure.
Group ==
    [Multiview |-> [promoted |-> 11, extension |-> "multiview", in |-> "V11"],
     Timeline |-> [promoted |-> 12, extension |-> "timeline", in |-> "V12"],
     Reset |-> [promoted |-> 12, extension |-> "reset", in |-> "V12"],
     Address |-> [promoted |-> 12, extension |-> "address", in |-> "V12"]]
\* Of VkPhysicalDeviceFeatures: those a module stands in for.
BaseFeatures == {"multiDraw", "firstInstance", "fillMode", "anisotropy", "stores"}
\* The features in each structure; mirror is an alias, true where its
\* extension is there.
Says ==
    [Multiview |-> {"multiview", "geometry"}, Timeline |-> {"timeline"}, Reset |-> {"reset"},
     Address |-> {"address"}, Rendering |-> {"rendering"}, Sync2 |-> {"sync2"},
     Divisor |-> {"divisor"}, Features2 |-> BaseFeatures, V11 |-> {"multiview", "geometry"},
     V12 |-> {"timeline", "reset", "address", "mirror"}, V13 |-> {"rendering", "sync2"}]
Structs == DOMAIN Says
GroupSet == ToSet(Groups)
Init ==
    /\ driver \in Drivers /\ forced \in Forced /\ app \in Queries
    /\ stage = "start"
    /\ call = Null /\ reported = Null /\ wanted = Null /\ given = Null /\ native = Null

-----------------------------------------------------------------------------
(* The driver. *)

GroupNative(g) == driver.api >= Group[g].promoted \/ Group[g].extension \in driver.extensions
Understands(s) ==
    CASE s \in GroupSet -> GroupNative(s)
      [] s = "Rendering" -> driver.api >= 13 \/ "rendering" \in driver.extensions
      [] s = "Sync2" -> driver.api >= 13 \/ "sync2" \in driver.extensions
      [] s = "Divisor" -> "divisor" \in driver.extensions
      [] s = "V13" -> driver.api >= 13
      [] s = "Features2" -> driver.api >= 11
      [] OTHER -> driver.api >= 12
\* NativeFeatures: asked of each structure the driver has.
Measured ==
    IF driver.api >= 12 THEN driver.features
    ELSE (IF driver.query2 THEN driver.features \cap UNION {Says[g] : g \in {h \in GroupSet : GroupNative(h)}}
          ELSE {}) \cup ({"mirror"} \cap driver.extensions)

\* The modules' answers to is_phys_device_native.
TimelineNative ==
    /\ "timeline" \notin forced
    /\ driver.query2 /\ "timeline" \in driver.features
    /\ driver.api >= 12 \/ "timeline" \in driver.extensions
RenderingNative ==
    "rendering" \notin forced /\ "rendering" \in driver.extensions /\ ~driver.tiler
Sync2Native ==
    /\ "sync2" \notin forced
    /\ \/ "sync2" \in driver.extensions
       \/ driver.api >= 13 /\ driver.query2 /\ "sync2" \in driver.features
DivisorNative == "divisor" \in driver.extensions
DivisorRate == DivisorNative /\ "divisor" \notin forced /\ driver.query2 /\ "divisor" \in driver.features
\* ExtensionModuleBase: part of the core, or listed.
Promoted(x, version) == driver.api >= version \/ x \in driver.extensions
Core11Native == driver.api >= 11
Core12Native == driver.api >= 12
BaseNative(f) == f \in driver.features /\ f \notin forced
MultiDrawNative == BaseNative("multiDraw")
FirstInstanceNative == BaseNative("firstInstance")
FillModeNative == BaseNative("fillMode")
AnisotropyNative == BaseNative("anisotropy")
StoresEmulates == ~BaseNative("stores")

-----------------------------------------------------------------------------
(* vkGetPhysicalDeviceFeatures2. *)

Empty == [s \in Structs |-> {}]

\* Below 1.2 the aggregates leave the chain, and a structure of the layer for
\* each group of theirs enters it at the front (PromotedFeatureQuery).
Expanded(chain) ==
    Reverse(SelectSeq(Groups, LAMBDA g : Contains(chain, Group[g].in)))
Promoting ==
    IF driver.api >= 12 THEN [chain |-> app, says |-> Empty]
    ELSE [chain |-> Expanded(app) \o Without(app, Aggregates),
          says |-> [s \in Structs |-> IF s \in GroupSet THEN Measured \cap Says[s] ELSE {}]]

\* The structures the modules keep from the driver, in their order.
Hiding == <<"Timeline", "Reset", "Rendering", "Sync2", "Divisor">>
TimelineHides == ~TimelineNative
ResetHides == ~Promoted("reset", 12)
RenderingHides == ~RenderingNative
Sync2Hides == ~Sync2Native
DivisorHides == ~DivisorNative
Hides ==
    [Timeline |-> TimelineHides, Reset |-> ResetHides, Rendering |-> RenderingHides,
     Sync2 |-> Sync2Hides, Divisor |-> DivisorHides]

Promote ==
    /\ stage = "start" /\ stage' = "promoted"
    /\ LET hidden == SelectSeq(Hiding, LAMBDA s : Hides[s] /\ Contains(Promoting.chain, s))
       IN  call' = [chain |-> FoldLeft(Unlink, Promoting.chain, hidden),
                    says |-> Promoting.says, held |-> hidden, base |-> {}]
    /\ UNCHANGED <<driver, forced, app, reported, wanted, given, native>>

\* What the driver does not know it leaves as it is.
AskDriver ==
    /\ stage = "promoted" /\ stage' = "asked"
    /\ LET answered == {s \in ToSet(call.chain) : driver.query2 /\ Understands(s)}
           answer(s) == IF s = "V11" /\ driver.astray
                        THEN Says[s] \ driver.features ELSE Says[s] \cap driver.features
       IN  call' = [call EXCEPT
               !.says = [s \in Structs |-> IF s \in answered THEN answer(s) ELSE call.says[s]],
               !.base = BaseFeatures \cap driver.features]
    /\ UNCHANGED <<driver, forced, app, reported, wanted, given, native>>

\* The 1.1 aggregate is not believed: its members are asked for one by one
\* (repair_vulkan11_features).
Repaired(says) ==
    IF driver.query2 /\ driver.api >= 11 /\ Contains(call.chain, "V11")
    THEN [says EXCEPT !["V11"] = Says["V11"] \cap driver.features] ELSE says

\* The hooks after the call put back what they took, and say yes.
Supplies(says, s) == [says EXCEPT ![s] = Says[s]]
InV13(says, hides, f) == IF hides THEN [says EXCEPT !["V13"] = @ \cup {f}] ELSE says
RenderingSupplies(says) == InV13(says, RenderingHides /\ Contains(call.chain, "V13"), "rendering")
Sync2Supplies(says) == InV13(says, Sync2Hides /\ Contains(call.chain, "V13"), "sync2")
DivisorSupplies(says) ==
    IF Contains(call.chain \o call.held, "Divisor") THEN Supplies(says, "Divisor") ELSE says
Supplied(says) ==
    DivisorSupplies(Sync2Supplies(RenderingSupplies(FoldLeft(Supplies, says, call.held))))
MultiDrawSupplies(base) == IF MultiDrawNative THEN base ELSE base \cup {"multiDraw"}
FirstInstanceSupplies(base) == IF FirstInstanceNative THEN base ELSE base \cup {"firstInstance"}
FillModeSupplies(base) == IF FillModeNative THEN base ELSE base \cup {"fillMode"}
AnisotropySupplies(base) == IF AnisotropyNative THEN base ELSE base \cup {"anisotropy"}
StoresSupplies(base) == IF StoresEmulates THEN base \cup {"stores"} ELSE base
BaseSupplied(base) ==
    StoresSupplies(AnisotropySupplies(FillModeSupplies(FirstInstanceSupplies(MultiDrawSupplies(base)))))

\* Below 1.2 the aggregates are filled from what was measured and then from
\* the layer's structures, and every link is as the application made it.
Collected(says, aggregate) ==
    ((Measured \cap Says[aggregate]) \ UNION {Says[g] : g \in ToSet(Expanded(app))})
        \cup UNION {says[g] : g \in {h \in ToSet(Expanded(app)) : Group[h].in = aggregate}}
Restored(says) ==
    [s \in Structs |-> IF s \in Aggregates /\ Contains(app, s) THEN Collected(says, s) ELSE says[s]]

\* vkEnumerateDeviceExtensionProperties: the driver's list and what the
\* modules add to it.
RenderingLists == {"rendering"}
Sync2Lists == {"sync2"}
DivisorLists == {"divisor"}
BaseLists(x, version) == IF Promoted(x, version) THEN {} ELSE {x}
TimelineLists == IF TimelineNative THEN {} ELSE {"timeline"}
RenderPass2Lists == BaseLists("renderpass2", 12)
MaintenanceLists ==
    IF Promoted("maintenance1", 11) THEN {} ELSE {"maintenance1", "maintenance2"}
Core11Lists == IF Core11Native THEN {} ELSE {"variable"}
Core12Lists == IF Core12Native THEN {} ELSE {"mirror"}
Listed ==
    driver.extensions \cup RenderingLists \cup Sync2Lists \cup DivisorLists \cup TimelineLists
        \cup BaseLists("reset", 12) \cup RenderPass2Lists \cup MaintenanceLists
        \cup Core11Lists \cup Core12Lists

Answer ==
    /\ stage = "asked" /\ stage' = "answered"
    /\ LET says == Supplied(Repaired(call.says))
           chain == FoldLeft(Relink, call.chain, call.held)
       IN  /\ reported' = [says |-> IF driver.api >= 12 THEN says ELSE Restored(says),
                           base |-> BaseSupplied(call.base),
                           extensions |-> Listed]
           /\ app' = IF driver.api >= 12 THEN chain ELSE app
    /\ call' = Null
    /\ UNCHANGED <<driver, forced, wanted, given, native>>

-----------------------------------------------------------------------------
(* vkCreateDevice. *)

\* An application asks for what it was told: the features of any one
\* structure or of all with every extension listed, or a feature of each with
\* the extensions of the modules; the base features either way.
Request ==
    /\ stage = "answered" /\ stage' = "requested"
    /\ \E S \in {{}, ToSet(app)} \cup {{s} : s \in ToSet(app)}, one \in BOOLEAN,
         base \in {{}, reported.base}, chained \in BOOLEAN :
           /\ chained => base # {}
           /\ LET says == [s \in Structs |->
                      IF s \notin S THEN {}
                      ELSE IF one /\ reported.says[s] # {} THEN {CHOOSE f \in reported.says[s] : TRUE}
                      ELSE reported.says[s]]
              IN  wanted' = [chain |-> (IF chained THEN <<"Features2">> ELSE <<>>) \o app,
                             says |-> IF chained THEN [says EXCEPT !["Features2"] = base] ELSE says,
                             base |-> IF chained THEN {} ELSE base,
                             extensions |-> IF one THEN {"rendering", "sync2", "divisor"}
                                            ELSE reported.extensions]
    /\ UNCHANGED <<driver, forced, app, call, reported, given, native>>

\* PromotedDeviceFeatures: what is asked of a group, and whether it can be had.
Asks(c, g) ==
    IF Contains(c.chain, Group[g].in) THEN c.says[Group[g].in] \cap Says[g]
    ELSE IF Contains(c.chain, g) THEN c.says[g] ELSE {}
Emulated == {"timeline", "reset"}
Alias(c) == IF Contains(c.chain, "V12") THEN c.says["V12"] \cap {"mirror"} ELSE {}
Refused(c) ==
    /\ driver.api < 12
    /\ \/ \E g \in GroupSet : ~(Asks(c, g) \subseteq Measured \cup Emulated)
       \/ ~(Alias(c) \subseteq Measured)

Enabled(c, g) == Asks(c, g) \cap Measured # {} /\ driver.api < Group[g].promoted
\* The aggregates become groups; those of which nothing is asked go, and the
\* others bring the extension that enables them.
Split(c) ==
    LET asked == {g \in GroupSet : Asks(c, g) # {}}
        dropped == Aggregates \cup (GroupSet \ asked)
            \cup (IF driver.api < 11 THEN {"Features2"} ELSE {})
        added == SelectSeq(Groups, LAMBDA g : g \in asked /\ Contains(c.chain, Group[g].in))
    IN  IF driver.api >= 12 THEN c
        ELSE [chain |-> Without(c.chain, dropped) \o added,
              says |-> [s \in Structs |-> IF s \in asked THEN Asks(c, s) ELSE c.says[s]],
              base |-> IF driver.api < 11 /\ Contains(c.chain, "Features2")
                       THEN c.says["Features2"] ELSE c.base,
              extensions |-> c.extensions \cup Alias(c)
                  \cup {Group[g].extension : g \in {h \in asked : Enabled(c, h)}}]

\* The hooks before the native call.
Strip(c, X) == [c EXCEPT !.extensions = @ \ X]
Drop(c, s) == [c EXCEPT !.chain = Unlink(@, s)]
Clear(c, s, f) == IF Contains(c.chain, s) THEN [c EXCEPT !.says[s] = @ \ {f}] ELSE c
Disable(c, f) == Clear([c EXCEPT !.base = @ \ {f}], "Features2", f)

TimelineStays(c) ==
    /\ TimelineNative
    /\ \/ driver.api >= 12 /\ Contains(c.chain, "V12") /\ "timeline" \in c.says["V12"]
       \/ /\ "timeline" \in c.extensions
          /\ Contains(c.chain, "Timeline") => "timeline" \in c.says["Timeline"]
TimelinePrepares(c) == IF TimelineStays(c) THEN c ELSE Drop(Strip(c, {"timeline"}), "Timeline")
BasePrepares(c, x, version) == IF Promoted(x, version) THEN c ELSE Strip(c, {x})
ResetPrepares(c) == IF Promoted("reset", 12) THEN c ELSE Drop(Strip(c, {"reset"}), "Reset")
MaintenancePrepares(c) ==
    IF Promoted("maintenance1", 11) THEN c ELSE Strip(c, {"maintenance1", "maintenance2"})
RenderingPrepares(c) ==
    IF RenderingNative THEN c
    ELSE Clear(Drop(Strip(c, {"rendering"}), "Rendering"), "V13", "rendering")
Sync2Prepares(c) ==
    IF Sync2Native THEN c ELSE Clear(Drop(Strip(c, {"sync2"}), "Sync2"), "V13", "sync2")
DivisorPrepares(c) ==
    IF ~DivisorNative THEN Drop(Strip(c, {"divisor"}), "Divisor")
    ELSE IF DivisorRate THEN c ELSE Clear(c, "Divisor", "divisor")
Core11Prepares(c) == IF Core11Native THEN c ELSE Strip(c, {"variable"} \ driver.extensions)
\* Strips what the driver has by itself.
Core12Strips(c) == IF Core12Native THEN c ELSE Strip(c, {"mirror"})
Core12Prepares(c) == IF Core12Native THEN c ELSE Strip(c, {"mirror"} \ driver.extensions)
MultiDrawPrepares(c) == IF MultiDrawNative THEN c ELSE Disable(c, "multiDraw")
FirstInstancePrepares(c) == IF FirstInstanceNative THEN c ELSE Disable(c, "firstInstance")
FillModePrepares(c) == IF FillModeNative THEN c ELSE Disable(c, "fillMode")
AnisotropyPrepares(c) == IF AnisotropyNative THEN c ELSE Disable(c, "anisotropy")
StoresPrepares(c) == IF StoresEmulates THEN Disable(c, "stores") ELSE c
BaseAsked(c) == c.base \cup (IF Contains(c.chain, "Features2") THEN c.says["Features2"] ELSE {})

Extended(c) ==
    Core12Prepares(Core11Prepares(MaintenancePrepares(BasePrepares(DivisorPrepares(Sync2Prepares(
        RenderingPrepares(ResetPrepares(TimelinePrepares(c))))), "renderpass2", 12))))
Stripped(c) ==
    StoresPrepares(AnisotropyPrepares(FillModePrepares(FirstInstancePrepares(MultiDrawPrepares(c)))))

Prepare ==
    /\ stage = "requested" /\ stage' = "prepared"
    /\ call' = IF Refused(wanted) THEN Null ELSE Stripped(Extended(Split(wanted)))
    /\ UNCHANGED <<driver, forced, app, reported, wanted, given, native>>

\* The extensions are closed over what they need; the driver then refuses
\* what it does not have.
Environment ==
    [instanceApi |-> driver.api, deviceApi |-> driver.api, enabled |-> {},
     available |-> driver.extensions]
Dependencies == INSTANCE ExtensionDependencies
    WITH records <- Records, environment <- Environment, asked <- <<>>, plan <- Null
Missing == Dependencies!Missing
InOrder(S) == Dependencies!InOrder(S)
Closure(c) ==
    Dependencies!Close(Records, Environment,
        InOrder(c.extensions \cup ToSet(Dependencies!Routes(Records, Environment, 11))))
Accepts(c, extensions) ==
    /\ extensions \subseteq driver.extensions
    /\ c.base \subseteq driver.features
    /\ \A s \in ToSet(c.chain) : Understands(s) /\ c.says[s] \subseteq driver.features

Create ==
    /\ stage = "prepared" /\ stage' = "created"
    /\ LET closed == IF call = Null THEN Missing ELSE Closure(call)
           extensions == ToSet(closed.state.names)
           ok == closed.ok /\ Accepts(call, extensions)
       IN  /\ given' = [ok |-> ok, says |-> IF ok THEN call.says ELSE Empty,
                        chain |-> IF ok THEN call.chain ELSE <<>>,
                        base |-> IF ok THEN BaseAsked(call) ELSE {},
                        extensions |-> IF ok THEN extensions ELSE {}]
           /\ native' = IF ~ok THEN {}
                 ELSE {f \in {"timeline"} : TimelineStays(Split(wanted))}
                     \cup {f \in {"reset"} : Promoted("reset", 12)}
                     \cup {f \in {"rendering"} : RenderingNative} \cup {f \in {"sync2"} : Sync2Native}
                     \cup {f \in {"divisor"} : DivisorRate}
                     \cup {f \in BaseFeatures \ {"stores"} : BaseNative(f)}
                     \cup {f \in {"stores"} : ~(StoresEmulates /\ f \in BaseAsked(Split(wanted)))}
    /\ UNCHANGED <<driver, forced, app, call, reported, wanted>>

Finished == stage = "created" /\ UNCHANGED state

Next == Promote \/ AskDriver \/ Answer \/ Request \/ Prepare \/ Create \/ Finished

-----------------------------------------------------------------------------

\* What the driver is handed in a query holds no type twice, no structure a
\* module stands in for and, below 1.2, no aggregate; and the application has
\* its own structures back afterwards, below 1.2 linked as it linked them.
ChainsSound ==
    /\ stage = "promoted" =>
           /\ IsInjective(call.chain)
           /\ \A s \in DOMAIN Hides : Hides[s] => ~Contains(call.chain, s)
           /\ driver.api < 12 => ToSet(call.chain) \cap Aggregates = {}
    /\ stage \notin {"start", "promoted", "asked"} =>
           \E q \in Queries : Len(app) = Len(q) /\ ToSet(app) = ToSet(q) /\ (driver.api < 12 => app = q)

\* A structure the application finds says at least what the driver can do.
NothingHidden ==
    reported # Null =>
        \A s \in ToSet(app) :
            s \in GroupSet \cup Aggregates => Measured \cap Says[s] \subseteq reported.says[s]

\* Of an accepted device: where a feature was switched on.
SwitchedOn ==
    given.base \cup UNION {given.says[s] : s \in
        {t \in ToSet(given.chain) : t \in GroupSet =>
             driver.api >= Group[t].promoted \/ Group[t].extension \in given.extensions}}
        \cup (given.extensions \cap {"mirror"})

\* A driver for 1.3 that does not list synchronization2 counts as native: the
\* layer lists the extension for it, and leaves its name to the driver.
Unlisted ==
    driver.api >= 13 /\ "sync2" \in wanted.extensions /\ "sync2" \notin driver.extensions

\* A device asked for with no more than was advertised is not refused, but
\* for that name, and whatever feature was asked for is then either switched
\* on at the driver or the business of a module that knows it.
AdvertisedWorks ==
    stage = "created" /\ (given.ok \/ ~Unlisted) =>
        /\ given.ok
        /\ LET asked == UNION {wanted.says[s] : s \in ToSet(wanted.chain)} \cup wanted.base
               standins == Emulated \cup {"rendering", "sync2", "divisor"} \cup BaseFeatures
           IN  asked \subseteq SwitchedOn \cup (standins \ native)

\* All three: the chains, the answers and the device.
DevicesSound == ChainsSound /\ NothingHidden /\ AdvertisedWorks
=============================================================================
