---------------------------- MODULE MCNativeCache ----------------------------
\* Parts that share no state, each explored from initial states of its own: a
\* behaviour is one of the part it starts in.
\*   native  two handles, each created and destroyed again, two threads
\*   trust   two threads that ask about two drivers, one of them sound, with
\*           room for one report
EXTENDS NativeCache

CONSTANTS d1, d2, t1, t2, Nothing, Capacity

VARIABLES part, defective, entry, caller, worker

trustVars == <<defective, entry, caller, worker>>

Trust == INSTANCE DriverTrust
    WITH Callers <- Threads, Identities <- Devices, None <- Nothing

\* Nothing is the absence of an entry and of a report.
ASSUME TrustAssumption == Nothing \notin Trust!Reports \cup Trust!Entries

MCInit ==
    /\ part \in {"native", "trust"}
    /\ Init /\ Trust!Init
    /\ defective[d2] = {}
    /\ part = "native" => defective[d1] = {}

NativeNext == part = "native" /\ Next /\ UNCHANGED <<part, trustVars>>
TrustNext == part = "trust" /\ Trust!Next /\ UNCHANGED <<part, vars>>
MCNext == NativeNext \/ TrustNext

MCSpec == MCInit /\ [][MCNext]_<<part, vars, trustVars>> /\ Fairness /\ Trust!Fairness

\* What is believed of a driver is true and the device's one report.
TrustSound == Trust!TrustSound

\* Whoever asks about a driver is answered, whatever its worker does.
TrustReturns == Trust!TrustReturns
=============================================================================
