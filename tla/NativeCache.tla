----------------------------- MODULE NativeCache -----------------------------
(***************************************************************************)
(* The native-support cache of an extension module                         *)
(* (src/layer/src/main/cpp/core/device_native_cache.h and its use in       *)
(* core/extension_module_base.h).                                          *)
(*                                                                         *)
(* Every call of every device asks each module whether the device supports *)
(* its extension natively.  The answer for one device is kept in three     *)
(* atomics that readers take without a lock; the others come from a map    *)
(* behind m_ext_mutex.  The atomics are sequentially consistent, so one    *)
(* access is one action.                                                   *)
(***************************************************************************)
EXTENDS Naturals

CONSTANTS
    Devices,     \* VkDevice handles, which the driver may use again
    Threads,     \* application threads
    NoDevice,    \* VK_NULL_HANDLE
    MaxRevision  \* bound: no device is created once m_revision is that high

ASSUME DeviceAssumption == Devices # {} /\ NoDevice \notin Devices
ASSUME BoundAssumption == MaxRevision \in Nat

VARIABLES
    known,    \* m_device_native: "native", "emulated" or, not in the map, "unknown"
    revision, \* m_revision
    device,   \* m_device
    native,   \* m_native
    thread    \* the locals of each thread

atomics == <<revision, device, native>>
vars == <<known, atomics, thread>>

Idle == [pc |-> "idle", device |-> CHOOSE d \in Devices : TRUE, revision |-> 0, value |-> FALSE]

\* Who holds which lock.
Remembering == {"opening", "publishing", "naming", "closing"}
Invalidating == {"open", "unname", "clear", "close"}
Shared(t) == thread[t].pc \in {"found", "locking"} \cup Remembering
Exclusive(t) == thread[t].pc \in {"changed"} \cup Invalidating
Writing(t) == thread[t].pc \in Remembering \cup Invalidating

NoExclusive == \A t \in Threads : ~Exclusive(t)
ExtFree == NoExclusive /\ \A t \in Threads : ~Shared(t)
WriterFree == \A t \in Threads : ~Writing(t)

Init ==
    /\ known = [d \in Devices |-> "unknown"]
    /\ revision = 0
    /\ device = NoDevice
    /\ native = FALSE
    /\ thread = [t \in Threads |-> Idle]

Go(t, from, to) ==
    /\ thread[t].pc = from
    /\ thread' = [thread EXCEPT ![t].pc = to]

\* Vulkan: who creates or destroys a device is the only one to use its handle.
Using(d) == {t \in Threads : thread[t].pc # "idle" /\ thread[t].device = d}

-----------------------------------------------------------------------------
(* DeviceNativeCache::lookup, at the head of is_device_native.  A miss goes *)
(* on to the map.                                                           *)

Ask(t, d) ==
    /\ thread[t].pc = "idle"
    /\ \A u \in Using(d) : ~Exclusive(u)
    /\ thread' = [thread EXCEPT ![t] = [Idle EXCEPT !.pc = "lookup", !.device = d]]
    /\ UNCHANGED <<known, atomics>>

LookupRevision(t) ==
    /\ thread[t].pc = "lookup"
    /\ thread' = [thread EXCEPT ![t].revision = revision,
                                ![t].pc = IF revision % 2 = 0 THEN "device" ELSE "missed"]
    /\ UNCHANGED <<known, atomics>>

LookupDevice(t) ==
    /\ Go(t, "device", IF device = thread[t].device THEN "native" ELSE "missed")
    /\ UNCHANGED <<known, atomics>>

LookupNative(t) ==
    /\ thread[t].pc = "native"
    /\ thread' = [thread EXCEPT ![t].value = native, ![t].pc = "check"]
    /\ UNCHANGED <<known, atomics>>

\* Mutant: the revision is not read again.
AnyRevision(t) == TRUE
SameRevision(t) == revision = thread[t].revision

LookupCheck(t) ==
    /\ Go(t, "check", IF SameRevision(t) THEN "answered" ELSE "missed")
    /\ UNCHANGED <<known, atomics>>

-----------------------------------------------------------------------------
(* The rest of is_device_native: the map, and DeviceNativeCache::remember   *)
(* while m_ext_mutex is shared.                                             *)

Find(t) ==
    /\ thread[t].pc = "missed"
    /\ NoExclusive
    /\ thread' = [thread EXCEPT ![t].value = (known[thread[t].device] = "native"),
                                ![t].pc = IF known[thread[t].device] = "unknown" THEN "answered" ELSE "found"]
    /\ UNCHANGED <<known, atomics>>

RememberTest(t) ==
    /\ Go(t, "found", IF device = NoDevice THEN "locking" ELSE "answered")
    /\ UNCHANGED <<known, atomics>>

\* Mutant: m_ext_mutex is taken alone before the map's answer is published.
RememberUpgrade(t) ==
    /\ WriterFree /\ ExtFree
    /\ Go(t, "locking", IF device = NoDevice THEN "opening" ELSE "answered")
    /\ UNCHANGED <<known, atomics>>
\* m_writer, and the test again.
RememberLock(t) ==
    /\ WriterFree
    /\ Go(t, "locking", IF device = NoDevice THEN "opening" ELSE "answered")
    /\ UNCHANGED <<known, atomics>>

RememberOpen(t) ==
    /\ Go(t, "opening", "publishing")
    /\ revision' = revision + 1
    /\ UNCHANGED <<known, device, native>>

RememberNative(t) ==
    /\ Go(t, "publishing", "naming")
    /\ native' = thread[t].value
    /\ UNCHANGED <<known, revision, device>>

RememberDevice(t) ==
    /\ Go(t, "naming", "closing")
    /\ device' = thread[t].device
    /\ UNCHANGED <<known, revision, native>>

RememberClose(t) ==
    /\ Go(t, "closing", "answered")
    /\ revision' = revision + 1
    /\ UNCHANGED <<known, device, native>>

Return(t) ==
    /\ thread[t].pc = "answered"
    /\ thread' = [thread EXCEPT ![t] = Idle]
    /\ UNCHANGED <<known, atomics>>

-----------------------------------------------------------------------------
(* on_post_create_device and on_destroy_device: the map changes and         *)
(* DeviceNativeCache::invalidate follows, with m_ext_mutex held alone.      *)

Created(t, d, kind) ==
    /\ thread[t].pc = "idle" /\ Using(d) = {} /\ ExtFree
    /\ known[d] = "unknown" /\ revision < MaxRevision
    /\ known' = [known EXCEPT ![d] = kind]
    /\ thread' = [thread EXCEPT ![t] = [Idle EXCEPT !.pc = "changed", !.device = d]]
    /\ UNCHANGED atomics

\* Mutant: a device that goes leaves the cache as it is.
DestroyedOnly(t, d) ==
    /\ thread[t].pc = "idle" /\ Using(d) = {} /\ ExtFree
    /\ known' = [known EXCEPT ![d] = "unknown"]
    /\ UNCHANGED <<atomics, thread>>
Destroyed(t, d) ==
    /\ thread[t].pc = "idle" /\ Using(d) = {} /\ ExtFree
    /\ known[d] # "unknown"
    /\ known' = [known EXCEPT ![d] = "unknown"]
    /\ thread' = [thread EXCEPT ![t] = [Idle EXCEPT !.pc = "changed", !.device = d]]
    /\ UNCHANGED atomics

InvalidateLock(t) ==
    /\ WriterFree
    /\ Go(t, "changed", "open")
    /\ UNCHANGED <<known, atomics>>

\* Mutants: the revision goes down and up again; it is never odd.
InvalidateOpenDown(t) ==
    /\ Go(t, "open", "unname")
    /\ revision' = revision - 1
    /\ UNCHANGED <<known, device, native>>
InvalidateOpenEven(t) ==
    /\ Go(t, "open", "unname")
    /\ revision' = revision + 2
    /\ UNCHANGED <<known, device, native>>
InvalidateOpen(t) ==
    /\ Go(t, "open", "unname")
    /\ revision' = revision + 1
    /\ UNCHANGED <<known, device, native>>

InvalidateDevice(t) ==
    /\ Go(t, "unname", "clear")
    /\ device' = NoDevice
    /\ UNCHANGED <<known, revision, native>>

InvalidateNative(t) ==
    /\ Go(t, "clear", "close")
    /\ native' = FALSE
    /\ UNCHANGED <<known, revision, device>>

InvalidateClose(t) ==
    /\ thread[t].pc = "close"
    /\ revision' = revision + 1
    /\ thread' = [thread EXCEPT ![t] = Idle]
    /\ UNCHANGED <<known, device, native>>

-----------------------------------------------------------------------------
QueryStep(t) ==
    \/ LookupRevision(t) \/ LookupDevice(t) \/ LookupNative(t) \/ LookupCheck(t)
    \/ Find(t) \/ RememberTest(t) \/ RememberLock(t)
    \/ RememberOpen(t) \/ RememberNative(t) \/ RememberDevice(t) \/ RememberClose(t)

InvalidateStep(t) ==
    \/ InvalidateLock(t) \/ InvalidateOpen(t)
    \/ InvalidateDevice(t) \/ InvalidateNative(t) \/ InvalidateClose(t)

Next ==
    \E t \in Threads :
       \/ \E d \in Devices : Ask(t, d) \/ Destroyed(t, d)
       \/ \E d \in Devices, kind \in {"native", "emulated"} : Created(t, d, kind)
       \/ QueryStep(t)
       \/ InvalidateStep(t)
       \/ Return(t)

Spec == Init /\ [][Next]_vars

\* A thread inside the module goes on, and gets a lock that becomes free again
\* and again.  Nothing obliges the application to call.
Fairness == \A t \in Threads : SF_vars(QueryStep(t) \/ InvalidateStep(t) \/ Return(t))
FairSpec == Spec /\ Fairness

-----------------------------------------------------------------------------
(* Properties.                                                              *)

Pcs == {"idle", "lookup", "device", "native", "check", "missed", "found", "locking",
        "answered", "changed"} \cup Remembering \cup Invalidating

\* Every variable stays in its type.
TypeOK ==
    /\ known \in [Devices -> {"native", "emulated", "unknown"}]
    /\ revision \in Nat
    /\ device \in Devices \cup {NoDevice}
    /\ native \in BOOLEAN
    /\ thread \in [Threads -> [pc : Pcs, device : Devices, revision : Nat, value : BOOLEAN]]

\* A query answers what the module recorded of the device, whatever other devices
\* are created, destroyed and published while it reads, and whatever an earlier
\* device with the same handle supported.
AnswersTrue ==
    \A t \in Threads :
       thread[t].pc = "answered" => thread[t].value = (known[thread[t].device] = "native")

\* What the cache names, the map has: a device that is gone or created anew leaves
\* no entry behind once its call has returned.
EntryCurrent ==
    (device # NoDevice /\ NoExclusive) =>
       known[device] = IF native THEN "native" ELSE "emulated"

\* Together the calls implement the atomic query of NativeSupport: a call has its
\* answer when it stops reading.
CallOf(t) ==
    CASE thread[t].pc = "idle" \/ Exclusive(t) -> [state |-> "resting"]
      [] thread[t].pc = "answered" ->
           [state |-> "answered", device |-> thread[t].device, answer |-> thread[t].value]
      [] OTHER -> [state |-> "asked", device |-> thread[t].device]

Promise == INSTANCE NativeSupport WITH native <- known, call <- [t \in Threads |-> CallOf(t)]
AtomicQuery == Promise!Spec

\* Every call returns: m_ext_mutex and m_writer are taken in one order, and the
\* thread that shares the map never waits to have it alone.
CallsReturn == \A t \in Threads : (thread[t].pc # "idle") ~> (thread[t].pc = "idle")
=============================================================================
