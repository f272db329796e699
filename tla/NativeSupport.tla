--------------------------- MODULE NativeSupport ---------------------------
(***************************************************************************)
(* What an extension module promises about is_device_native                *)
(* (src/layer/src/main/cpp/core/extension_module_base.h): a call answers   *)
(* what the module recorded when the device was created, and FALSE for a   *)
(* device it does not know.  A query is one step between its call and its  *)
(* return.                                                                 *)
(***************************************************************************)
CONSTANTS
    Devices, \* VkDevice handles, which the driver may use again
    Threads  \* application threads

VARIABLES
    native, \* what is recorded of each device: "native", "emulated", "unknown"
    call    \* what each thread asks, and the answer it has

vars == <<native, call>>

Kinds == {"native", "emulated"}
Resting == [state |-> "resting"]
Asked(d) == [state |-> "asked", device |-> d]
Answered(d, answer) == [state |-> "answered", device |-> d, answer |-> answer]

Init ==
    /\ native = [d \in Devices |-> "unknown"]
    /\ call = [t \in Threads |-> Resting]

Ask(t, d) ==
    /\ call[t] = Resting
    /\ call' = [call EXCEPT ![t] = Asked(d)]
    /\ UNCHANGED native

Answer(t, d) ==
    /\ call[t] = Asked(d)
    /\ call' = [call EXCEPT ![t] = Answered(d, native[d] = "native")]
    /\ UNCHANGED native

Return(t) ==
    /\ call[t].state = "answered"
    /\ call' = [call EXCEPT ![t] = Resting]
    /\ UNCHANGED native

\* Creation and destruction of a device.
Record(d, kind) ==
    /\ native' = [native EXCEPT ![d] = kind]
    /\ UNCHANGED call

Next ==
    \/ \E t \in Threads, d \in Devices : Ask(t, d) \/ Answer(t, d)
    \/ \E t \in Threads : Return(t)
    \/ \E d \in Devices, kind \in Kinds \cup {"unknown"} : Record(d, kind)

Spec == Init /\ [][Next]_vars
=============================================================================
