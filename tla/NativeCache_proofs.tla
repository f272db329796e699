-------------------------- MODULE NativeCache_proofs --------------------------
(***************************************************************************)
(* Theorems about NativeCache, for every set of devices and threads: its   *)
(* queries answer the truth, and it implements NativeSupport.  Then about  *)
(* DriverTrust, which MCNativeCache instantiates: what is believed of a    *)
(* driver is so.                                                           *)
(***************************************************************************)
EXTENDS MCNativeCache, TLAPS

-----------------------------------------------------------------------------
(* The inductive invariant.                                                 *)

Opened == {"publishing", "naming", "closing", "unname", "clear", "close"}
Held == {"found", "locking"} \cup Remembering

\* m_ext_mutex, m_writer, and the handle that is created or destroyed.
Locks ==
    \A t, u \in Threads : t # u =>
       /\ Exclusive(t) => ~Exclusive(u) /\ ~Shared(u)
       /\ Writing(t) => ~Writing(u)
       /\ Exclusive(t) /\ thread[u].pc # "idle" => thread[u].device # thread[t].device

\* The revision is odd while a writer is inside.
Parity == (revision % 2 = 0) <=> (\A t \in Threads : thread[t].pc \notin Opened)

\* The answer of the map.
Answers ==
    \A t \in Threads :
       /\ thread[t].pc \in Held \cup {"answered"} =>
             thread[t].value = (known[thread[t].device] = "native")
       /\ thread[t].pc \in Held => known[thread[t].device] # "unknown"

\* A writer changes m_native only while no device is named.
Unnamed ==
    \A t \in Threads :
       /\ thread[t].pc \in {"opening", "publishing", "naming", "clear", "close"} => device = NoDevice
       /\ thread[t].pc = "naming" => native = thread[t].value

\* The entry is that of the map, unless its device is the one that changes.
Entry ==
    \/ device = NoDevice
    \/ known[device] = IF native THEN "native" ELSE "emulated"
    \/ \E t \in Threads : thread[t].pc \in {"changed", "open", "unname"} /\ thread[t].device = device

\* What a reader has read is still there if the revision is.
Readers ==
    \A t \in Threads :
       /\ thread[t].pc \in {"device", "native", "check"} =>
             thread[t].revision % 2 = 0 /\ thread[t].revision <= revision
       /\ thread[t].pc \in {"native", "check"} /\ revision = thread[t].revision =>
             device = thread[t].device
       /\ thread[t].pc = "check" /\ revision = thread[t].revision => native = thread[t].value

Inv ==
    /\ TypeOK
    /\ Locks
    /\ Parity
    /\ Answers
    /\ Unnamed
    /\ Entry
    /\ Readers

-----------------------------------------------------------------------------
LEMMA IdleType ==
    Idle \in [pc : Pcs, device : Devices, revision : Nat, value : BOOLEAN] /\ Idle.pc = "idle"
BY DeviceAssumption DEF Idle, Pcs

LEMMA InitInv == Init => Inv
<1>. SUFFICES ASSUME Init PROVE Inv
  OBVIOUS
<1>1. TypeOK
  BY IdleType DEF Init, TypeOK
<1>2. \A t \in Threads : thread[t].pc = "idle"
  BY IdleType DEF Init
<1>3. Locks /\ Answers /\ Unnamed /\ Readers
  BY <1>2
     DEF Locks, Answers, Unnamed, Readers, Exclusive, Shared, Writing, Held, Remembering,
         Invalidating
<1>4. Parity /\ Entry
  BY <1>2 DEF Init, Parity, Entry, Opened
<1>. QED  BY <1>1, <1>3, <1>4 DEF Inv

\* A step of one thread that changes neither the map nor the atomics.
LEMMA Move ==
    ASSUME Inv, NEW t \in Threads, UNCHANGED <<known, atomics>>,
           NEW r \in [pc : Pcs, device : Devices, revision : Nat, value : BOOLEAN],
           thread' = [thread EXCEPT ![t] = r],
           r.pc \in Held \ Remembering => (Shared(t) \/ NoExclusive),
           r.pc \in {"opening", "open"} => WriterFree,
           r.pc = "opening" => Shared(t) /\ device = NoDevice,
           r.pc = "open" => thread[t].pc = "changed" /\ r.device = thread[t].device,
           r.pc \notin {"changed", "publishing", "naming", "closing", "unname", "clear", "close"},
           thread[t].pc \notin Opened \cup {"open"},
           thread[t].pc = "changed" => r.pc = "open",
           r.pc # "idle" => \A u \in Threads \ {t} : Exclusive(u) => thread[u].device # r.device,
           r.pc \in Held \cup {"answered"} => r.value = (known[r.device] = "native"),
           r.pc \in Held => known[r.device] # "unknown",
           r.pc \in {"device", "native", "check"} => r.revision % 2 = 0 /\ r.revision <= revision,
           r.pc \in {"native", "check"} /\ revision = r.revision => device = r.device,
           r.pc = "check" /\ revision = r.revision => native = r.value
    PROVE  Inv'
<1>. USE DEF Inv
<1>1. thread'[t] = r /\ \A u \in Threads \ {t} : thread'[u] = thread[u]
  BY DEF TypeOK
<1>2. UNCHANGED <<known, revision, device, native>>
  BY DEF atomics
<1>3. TypeOK'
  BY <1>2 DEF TypeOK
<1>4. Locks'
  <2>1. ASSUME NEW u \in Threads \ {t} PROVE Exclusive(t)' => ~Exclusive(u)' /\ ~Shared(u)'
    BY <1>1 DEF Locks, Exclusive, Shared, Invalidating
  <2>2. ASSUME NEW u \in Threads \ {t} PROVE Exclusive(u)' => ~Exclusive(t)' /\ ~Shared(t)'
    <3>1. Exclusive(u)' = Exclusive(u)
      BY <1>1 DEF Exclusive
    <3>2. Exclusive(t)' => Exclusive(t)
      BY <1>1 DEF Exclusive, Invalidating
    <3>3. Shared(t)' => Shared(t) \/ NoExclusive
      BY <1>1 DEF Shared, Held, Remembering
    <3>. QED  BY <3>1, <3>2, <3>3 DEF Locks, NoExclusive
  <2>3. ASSUME NEW u \in Threads \ {t} PROVE ~(Writing(t)' /\ Writing(u)')
    <3>1. Writing(u)' = Writing(u)
      BY <1>1 DEF Writing
    <3>2. Writing(t)' => WriterFree
      BY <1>1 DEF Writing, Remembering, Invalidating
    <3>. QED  BY <3>1, <3>2 DEF WriterFree
  <2>4. ASSUME NEW u \in Threads \ {t}
        PROVE  /\ Exclusive(t)' /\ thread'[u].pc # "idle" => thread'[u].device # thread'[t].device
               /\ Exclusive(u)' /\ thread'[t].pc # "idle" => thread'[t].device # thread'[u].device
    <3>1. Exclusive(u)' = Exclusive(u)
      BY <1>1 DEF Exclusive
    <3>2. Exclusive(t)' => Exclusive(t) /\ r.device = thread[t].device
      BY <1>1 DEF Exclusive, Invalidating
    <3>. QED  BY <1>1, <3>1, <3>2 DEF Locks
  <2>5. ASSUME NEW u \in Threads \ {t}, NEW v \in Threads \ {t, u}
        PROVE  /\ Exclusive(u)' => ~Exclusive(v)' /\ ~Shared(v)'
               /\ Writing(u)' => ~Writing(v)'
               /\ Exclusive(u)' /\ thread'[v].pc # "idle" => thread'[v].device # thread'[u].device
    BY <1>1 DEF Locks, Exclusive, Shared, Writing
  <2>. QED  BY <2>1, <2>2, <2>3, <2>4, <2>5 DEF Locks
<1>5. Parity'
  BY <1>1, <1>2 DEF Parity, Opened
<1>6. Answers'
  BY <1>1, <1>2 DEF Answers
<1>7. Unnamed'
  BY <1>1, <1>2 DEF Unnamed
<1>8. Entry'
  BY <1>1, <1>2 DEF Entry, Opened
<1>9. Readers'
  BY <1>1, <1>2 DEF Readers
<1>. QED  BY <1>3, <1>4, <1>5, <1>6, <1>7, <1>8, <1>9

\* The thread that writes, and no other, goes on to its next access.
LEMMA Write ==
    ASSUME Inv, NEW t \in Threads, NEW pc \in Pcs, UNCHANGED known, Go(t, thread[t].pc, pc),
           Writing(t),
           \/ pc \in {"publishing", "naming", "closing", "answered"} /\ Shared(t)
           \/ pc \in {"unname", "clear", "close"} /\ Exclusive(t)
    PROVE  Locks' /\ Answers'
<1>. USE DEF Inv
<1>1. thread'[t].pc = pc /\ thread'[t].device = thread[t].device /\ thread'[t].value = thread[t].value
      /\ \A u \in Threads \ {t} : thread'[u] = thread[u]
  BY DEF Go, TypeOK
<1>2. /\ Exclusive(t)' => Exclusive(t)
      /\ Shared(t)' => Shared(t)
      /\ \A u \in Threads \ {t} : Exclusive(u)' = Exclusive(u) /\ Shared(u)' = Shared(u) /\ Writing(u)' = Writing(u)
  BY <1>1 DEF Exclusive, Shared, Writing, Remembering, Invalidating
<1>3. thread[t].pc # "idle"
  BY DEF Writing, Remembering, Invalidating
<1>4. Locks'
  BY <1>1, <1>2, <1>3 DEF Locks
<1>5. Answers'
  BY <1>1 DEF Answers, Held, Remembering, Shared, Exclusive, Invalidating
<1>. QED  BY <1>4, <1>5


\* A device is created or destroyed: m_ext_mutex is taken alone, nobody uses the handle.
LEMMA Change ==
    ASSUME Inv, NEW t \in Threads, NEW d \in Devices, NEW kind \in {"native", "emulated", "unknown"},
           thread[t].pc = "idle", Using(d) = {}, ExtFree,
           known' = [known EXCEPT ![d] = kind], UNCHANGED atomics,
           thread' = [thread EXCEPT ![t] = [Idle EXCEPT !.pc = "changed", !.device = d]]
    PROVE  Inv'
<1>. USE DEF Inv
<1>1. /\ thread'[t].pc = "changed" /\ thread'[t].device = d
      /\ \A u \in Threads \ {t} : thread'[u] = thread[u]
  BY IdleType DEF Idle, TypeOK
<1>2. UNCHANGED <<revision, device, native>>
  BY DEF atomics
<1>3. TypeOK'
  <2>. DEFINE r == [Idle EXCEPT !.pc = "changed", !.device = d]
  <2>1. r \in [pc : Pcs, device : Devices, revision : Nat, value : BOOLEAN]
    BY IdleType DEF Pcs
  <2>. QED  BY <1>2, <2>1 DEF TypeOK
<1>4. \A u \in Threads : thread[u].pc # "idle" => thread[u].device # d
  BY DEF Using
<1>5. \A u \in Threads \ {t} : thread[u].pc # "idle" => known'[thread[u].device] = known[thread[u].device]
  BY <1>4 DEF TypeOK
<1>6. Locks'
  BY <1>1, <1>4
     DEF Locks, ExtFree, NoExclusive, Exclusive, Shared, Writing, Remembering, Invalidating
<1>7. Parity'
  BY <1>1, <1>2 DEF Parity, Opened
<1>8. Answers'
  BY <1>1, <1>5 DEF Answers, Held, Remembering
<1>9. Unnamed' /\ Readers'
  BY <1>1, <1>2 DEF Unnamed, Readers
<1>10. Entry'
  <2>1. CASE device = d
    BY <1>1, <1>2, <2>1 DEF Entry
  <2>2. CASE device # d
    <3>1. device \in Devices => known'[device] = known[device]
      BY <2>2 DEF TypeOK
    <3>2. \A u \in Threads : thread[u].pc \notin {"changed", "open", "unname"}
      BY DEF ExtFree, NoExclusive, Exclusive, Invalidating
    <3>. QED  BY <1>2, <3>1, <3>2 DEF Entry, TypeOK
  <2>. QED  BY <2>1, <2>2
<1>. QED  BY <1>3, <1>6, <1>7, <1>8, <1>9, <1>10

LEMMA StepInv == Inv /\ [Next]_vars => Inv'
<1>. SUFFICES ASSUME Inv, [Next]_vars PROVE Inv'
  OBVIOUS
<1>. USE DEF Inv
<1>. DEFINE State == [pc : Pcs, device : Devices, revision : Nat, value : BOOLEAN]
<1>0. /\ thread \in [Threads -> State]
      /\ \A t \in Threads : thread[t] \in State
  BY DEF TypeOK
<1>1. ASSUME NEW t \in Threads, NEW d \in Devices, Ask(t, d) PROVE Inv'
  <2>. DEFINE r == [Idle EXCEPT !.pc = "lookup", !.device = d]
  <2>1. r \in State /\ r.pc = "lookup" /\ r.device = d
    BY IdleType DEF Pcs
  <2>2. thread' = [thread EXCEPT ![t] = r] /\ UNCHANGED <<known, atomics>> /\ thread[t].pc = "idle"
    BY <1>1 DEF Ask
  <2>3. \A u \in Threads : Exclusive(u) => thread[u].device # d
    BY <1>1 DEF Ask, Using, Exclusive, Invalidating
  <2>. QED  BY <2>1, <2>2, <2>3, Move DEF Held, Remembering, Opened
<1>2. ASSUME NEW t \in Threads, LookupRevision(t) PROVE Inv'
  <2>. DEFINE r == [thread[t] EXCEPT !.revision = revision,
                                     !.pc = IF revision % 2 = 0 THEN "device" ELSE "missed"]
  <2>1. r \in State /\ r.pc \in {"device", "missed"} /\ r.device = thread[t].device
    BY <1>0 DEF Pcs, TypeOK
  <2>2. r.revision = revision /\ (r.pc = "device" => revision % 2 = 0)
    BY <1>0
  <2>3. thread' = [thread EXCEPT ![t] = r] /\ UNCHANGED <<known, atomics>> /\ thread[t].pc = "lookup"
    BY <1>2 DEF LookupRevision
  <2>4. \A u \in Threads \ {t} : Exclusive(u) => thread[u].device # r.device
    BY <2>1, <2>3 DEF Locks
  <2>5. revision <= revision
    BY DEF TypeOK
  <2>. QED  BY <2>1, <2>2, <2>3, <2>4, <2>5, Move DEF Held, Remembering, Opened

<1>3. ASSUME NEW t \in Threads, LookupDevice(t) PROVE Inv'
  <2>. DEFINE r == thread'[t]
  <2>1. thread[t].pc = "device" /\ UNCHANGED <<known, atomics>> /\ thread' = [thread EXCEPT ![t] = r]
    BY <1>3, <1>0 DEF LookupDevice, Go
  <2>2. r \in State /\ r.pc \in {"native", "missed"} /\ r.device = thread[t].device /\ r.revision = thread[t].revision
    BY <1>3, <1>0 DEF LookupDevice, Go, Pcs, TypeOK, Remembering, Invalidating
  <2>3. \A u \in Threads \ {t} : Exclusive(u) => thread[u].device # r.device
    BY <2>1, <2>2 DEF Locks
  <2>4. r.revision % 2 = 0 /\ r.revision <= revision
    BY <2>1, <2>2 DEF Readers
  <2>5. r.pc = "native" => device = r.device
    BY <1>3, <1>0 DEF LookupDevice, Go
  <2>. QED  BY <2>1, <2>2, <2>3, <2>4, <2>5, Move DEF Held, Remembering, Opened
<1>4. ASSUME NEW t \in Threads, LookupNative(t) PROVE Inv'
  <2>. DEFINE r == thread'[t]
  <2>1. thread[t].pc = "native" /\ UNCHANGED <<known, atomics>> /\ thread' = [thread EXCEPT ![t] = r]
    BY <1>4, <1>0 DEF LookupNative, Go
  <2>2. r \in State /\ r.pc \in {"check"} /\ r.device = thread[t].device /\ r.revision = thread[t].revision
    BY <1>4, <1>0 DEF LookupNative, Go, Pcs, TypeOK, Remembering, Invalidating
  <2>3. \A u \in Threads \ {t} : Exclusive(u) => thread[u].device # r.device
    BY <2>1, <2>2 DEF Locks
  <2>4. r.revision % 2 = 0 /\ r.revision <= revision
    BY <2>1, <2>2 DEF Readers
  <2>5. revision = r.revision => device = r.device
    BY <2>1, <2>2 DEF Readers
  <2>6. r.value = native
    BY <1>4, <1>0 DEF LookupNative
  <2>. QED  BY <2>1, <2>2, <2>3, <2>4, <2>5, <2>6, Move DEF Held, Remembering, Opened
<1>5. ASSUME NEW t \in Threads, LookupCheck(t) PROVE Inv'
  <2>. DEFINE r == thread'[t]
  <2>1. thread[t].pc = "check" /\ UNCHANGED <<known, atomics>> /\ thread' = [thread EXCEPT ![t] = r]
    BY <1>5, <1>0 DEF LookupCheck, Go
  <2>2. r \in State /\ r.pc \in {"answered", "missed"} /\ r.device = thread[t].device /\ r.revision = thread[t].revision
    BY <1>5, <1>0 DEF LookupCheck, Go, Pcs, TypeOK, Remembering, Invalidating
  <2>3. \A u \in Threads \ {t} : Exclusive(u) => thread[u].device # r.device
    BY <2>1, <2>2 DEF Locks
  <2>4. r.pc = "answered" => revision = thread[t].revision /\ r.value = thread[t].value
    BY <1>5, <1>0 DEF LookupCheck, Go, SameRevision
  <2>5. r.pc = "answered" => device = thread[t].device /\ native = r.value
    BY <2>1, <2>4 DEF Readers
  <2>6. device = thread[t].device => \A u \in Threads : thread[u].pc \in {"changed", "open", "unname"} => thread[u].device # device
    BY <2>1 DEF Locks, Exclusive, Invalidating
  <2>7. r.pc = "answered" => r.value = (known[r.device] = "native")
    BY <2>2, <2>5, <2>6, <1>0, DeviceAssumption DEF Entry, TypeOK
  <2>. QED  BY <2>1, <2>2, <2>3, <2>4, <2>5, <2>6, <2>7, Move DEF Held, Remembering, Opened
<1>6. ASSUME NEW t \in Threads, Find(t) PROVE Inv'
  <2>. DEFINE r == thread'[t]
  <2>1. thread[t].pc = "missed" /\ UNCHANGED <<known, atomics>> /\ thread' = [thread EXCEPT ![t] = r]
    BY <1>6, <1>0 DEF Find, Go
  <2>2. r \in State /\ r.pc \in {"answered", "found"} /\ r.device = thread[t].device /\ r.revision = thread[t].revision
    BY <1>6, <1>0 DEF Find, Go, Pcs, TypeOK, Remembering, Invalidating
  <2>3. \A u \in Threads \ {t} : Exclusive(u) => thread[u].device # r.device
    BY <2>1, <2>2 DEF Locks
  <2>4. NoExclusive /\ r.value = (known[r.device] = "native")
    BY <1>6, <1>0, <2>2 DEF Find
  <2>5. r.pc = "found" => known[r.device] # "unknown"
    BY <1>6, <1>0, <2>2 DEF Find
  <2>. QED  BY <2>1, <2>2, <2>3, <2>4, <2>5, Move DEF Held, Remembering, Opened
<1>7. ASSUME NEW t \in Threads, RememberTest(t) PROVE Inv'
  <2>. DEFINE r == thread'[t]
  <2>1. thread[t].pc = "found" /\ UNCHANGED <<known, atomics>> /\ thread' = [thread EXCEPT ![t] = r]
    BY <1>7, <1>0 DEF RememberTest, Go
  <2>2. r \in State /\ r.pc \in {"answered", "locking"} /\ r.device = thread[t].device /\ r.revision = thread[t].revision
    BY <1>7, <1>0 DEF RememberTest, Go, Pcs, TypeOK, Remembering, Invalidating
  <2>3. \A u \in Threads \ {t} : Exclusive(u) => thread[u].device # r.device
    BY <2>1, <2>2 DEF Locks
  <2>4. Shared(t) /\ r.value = thread[t].value
    BY <1>7, <1>0, <2>1 DEF RememberTest, Go, Shared
  <2>5. r.value = (known[r.device] = "native") /\ known[r.device] # "unknown"
    BY <2>1, <2>2, <2>4 DEF Answers, Held
  <2>. QED  BY <2>1, <2>2, <2>3, <2>4, <2>5, Move DEF Held, Remembering, Opened
<1>8. ASSUME NEW t \in Threads, RememberLock(t) PROVE Inv'
  <2>. DEFINE r == thread'[t]
  <2>1. thread[t].pc = "locking" /\ UNCHANGED <<known, atomics>> /\ thread' = [thread EXCEPT ![t] = r]
    BY <1>8, <1>0 DEF RememberLock, Go
  <2>2. r \in State /\ r.pc \in {"answered", "opening"} /\ r.device = thread[t].device /\ r.revision = thread[t].revision
    BY <1>8, <1>0 DEF RememberLock, Go, Pcs, TypeOK, Remembering, Invalidating
  <2>3. \A u \in Threads \ {t} : Exclusive(u) => thread[u].device # r.device
    BY <2>1, <2>2 DEF Locks
  <2>4. Shared(t) /\ r.value = thread[t].value
    BY <1>8, <1>0, <2>1 DEF RememberLock, Go, Shared
  <2>5. r.value = (known[r.device] = "native") /\ known[r.device] # "unknown"
    BY <2>1, <2>2, <2>4 DEF Answers, Held
  <2>6. WriterFree /\ (r.pc = "opening" => device = NoDevice)
    BY <1>8, <1>0 DEF RememberLock, Go
  <2>. QED  BY <2>1, <2>2, <2>3, <2>4, <2>5, <2>6, Move DEF Held, Remembering, Opened
<1>9. ASSUME NEW t \in Threads, Return(t) PROVE Inv'
  <2>1. thread[t].pc = "answered" /\ UNCHANGED <<known, atomics>> /\ thread' = [thread EXCEPT ![t] = Idle]
    BY <1>9 DEF Return
  <2>. QED  BY <2>1, IdleType, Move DEF Held, Remembering, Opened
<1>10. ASSUME NEW t \in Threads, InvalidateLock(t) PROVE Inv'
  <2>. DEFINE r == thread'[t]
  <2>1. thread[t].pc = "changed" /\ UNCHANGED <<known, atomics>> /\ thread' = [thread EXCEPT ![t] = r]
    BY <1>10, <1>0 DEF InvalidateLock, Go
  <2>2. r \in State /\ r.pc \in {"open"} /\ r.device = thread[t].device /\ r.revision = thread[t].revision
    BY <1>10, <1>0 DEF InvalidateLock, Go, Pcs, TypeOK, Remembering, Invalidating
  <2>3. \A u \in Threads \ {t} : Exclusive(u) => thread[u].device # r.device
    BY <2>1, <2>2 DEF Locks
  <2>4. WriterFree
    BY <1>10 DEF InvalidateLock
  <2>. QED  BY <2>1, <2>2, <2>3, <2>4, Move DEF Held, Remembering, Opened
<1>11. ASSUME NEW t \in Threads, NEW d \in Devices, NEW kind \in {"native", "emulated"}, Created(t, d, kind)
       PROVE  Inv'
  BY <1>11, Change DEF Created
<1>12. ASSUME NEW t \in Threads, NEW d \in Devices, Destroyed(t, d) PROVE Inv'
  BY <1>12, Change DEF Destroyed
<1>13. ASSUME NEW t \in Threads, RememberOpen(t) PROVE Inv'
  <2>1. /\ thread[t].pc = "opening" /\ thread'[t] = [thread[t] EXCEPT !.pc = "publishing"] /\ thread'[t].pc = "publishing"
        /\ thread'[t].device = thread[t].device /\ thread'[t].value = thread[t].value
        /\ \A u \in Threads \ {t} : thread'[u] = thread[u]
    BY <1>13, <1>0 DEF RememberOpen, Go
  <2>2. TypeOK'
    BY <1>13, <1>0 DEF RememberOpen, Go, TypeOK, Pcs, Remembering, Invalidating
  <2>3. Writing(t) /\ Shared(t)
    BY <2>1 DEF Writing, Shared, Remembering, Invalidating
  <2>4. \A u \in Threads \ {t} : ~Writing(u)
    BY <2>3 DEF Locks
  <2>5. Locks' /\ Answers'
    <3>1. Go(t, thread[t].pc, "publishing") /\ UNCHANGED known /\ "publishing" \in Pcs
      BY <1>13 DEF RememberOpen, Go, Pcs, Remembering, Invalidating
    <3>. QED  BY <2>3, <3>1, Write
  <2>6. \A u \in Threads \ {t} : thread[u].pc \notin Opened \cup {"opening", "open"}
    BY <2>4 DEF Writing, Opened, Remembering, Invalidating
  <2>7. Parity'
    BY <1>13, <2>1, <2>6 DEF RememberOpen, Parity, Opened, TypeOK
  <2>8. Unnamed'
    <3>1. ASSUME NEW u \in Threads \ {t}
          PROVE  thread'[u].pc \notin {"opening", "publishing", "naming", "clear", "close"}
      BY <2>1, <2>6 DEF Opened
    <3>2. /\ thread'[t].pc \in {"publishing", "naming", "clear", "close"} => device' = NoDevice
          /\ thread'[t].pc = "naming" => native' = thread'[t].value
      BY <1>13, <2>1 DEF RememberOpen, Unnamed
    <3>. QED  BY <2>1, <3>1, <3>2 DEF Unnamed
  <2>9. Entry'
    BY <1>13, <1>0, <2>1, <2>3, <2>6
       DEF RememberOpen, Entry, Answers, Unnamed, Held, Remembering, Opened, TypeOK
  <2>10. Readers'
    BY <1>13, <2>1, <2>6 DEF RememberOpen, Readers, Parity, Opened, TypeOK
  <2>. QED  BY <2>2, <2>5, <2>7, <2>8, <2>9, <2>10
<1>14. ASSUME NEW t \in Threads, RememberNative(t) PROVE Inv'
  <2>1. /\ thread[t].pc = "publishing" /\ thread'[t] = [thread[t] EXCEPT !.pc = "naming"] /\ thread'[t].pc = "naming"
        /\ thread'[t].device = thread[t].device /\ thread'[t].value = thread[t].value
        /\ \A u \in Threads \ {t} : thread'[u] = thread[u]
    BY <1>14, <1>0 DEF RememberNative, Go
  <2>2. TypeOK'
    BY <1>14, <1>0 DEF RememberNative, Go, TypeOK, Pcs, Remembering, Invalidating
  <2>3. Writing(t) /\ Shared(t)
    BY <2>1 DEF Writing, Shared, Remembering, Invalidating
  <2>4. \A u \in Threads \ {t} : ~Writing(u)
    BY <2>3 DEF Locks
  <2>5. Locks' /\ Answers'
    <3>1. Go(t, thread[t].pc, "naming") /\ UNCHANGED known /\ "naming" \in Pcs
      BY <1>14 DEF RememberNative, Go, Pcs, Remembering, Invalidating
    <3>. QED  BY <2>3, <3>1, Write
  <2>6. \A u \in Threads \ {t} : thread[u].pc \notin Opened \cup {"opening", "open"}
    BY <2>4 DEF Writing, Opened, Remembering, Invalidating
  <2>7. Parity'
    BY <1>14, <2>1, <2>6 DEF RememberNative, Parity, Opened, TypeOK
  <2>8. Unnamed'
    <3>1. ASSUME NEW u \in Threads \ {t}
          PROVE  thread'[u].pc \notin {"opening", "publishing", "naming", "clear", "close"}
      BY <2>1, <2>6 DEF Opened
    <3>2. /\ thread'[t].pc \in {"publishing", "naming", "clear", "close"} => device' = NoDevice
          /\ thread'[t].pc = "naming" => native' = thread'[t].value
      BY <1>14, <2>1 DEF RememberNative, Unnamed
    <3>. QED  BY <2>1, <3>1, <3>2 DEF Unnamed
  <2>9. Entry'
    BY <1>14, <1>0, <2>1, <2>3, <2>6
       DEF RememberNative, Entry, Answers, Unnamed, Held, Remembering, Opened, TypeOK
  <2>10. Readers'
    BY <1>14, <2>1, <2>6 DEF RememberNative, Readers, Parity, Opened, TypeOK
  <2>. QED  BY <2>2, <2>5, <2>7, <2>8, <2>9, <2>10
<1>15. ASSUME NEW t \in Threads, RememberDevice(t) PROVE Inv'
  <2>1. /\ thread[t].pc = "naming" /\ thread'[t] = [thread[t] EXCEPT !.pc = "closing"] /\ thread'[t].pc = "closing"
        /\ thread'[t].device = thread[t].device /\ thread'[t].value = thread[t].value
        /\ \A u \in Threads \ {t} : thread'[u] = thread[u]
    BY <1>15, <1>0 DEF RememberDevice, Go
  <2>2. TypeOK'
    BY <1>15, <1>0 DEF RememberDevice, Go, TypeOK, Pcs, Remembering, Invalidating
  <2>3. Writing(t) /\ Shared(t)
    BY <2>1 DEF Writing, Shared, Remembering, Invalidating
  <2>4. \A u \in Threads \ {t} : ~Writing(u)
    BY <2>3 DEF Locks
  <2>5. Locks' /\ Answers'
    <3>1. Go(t, thread[t].pc, "closing") /\ UNCHANGED known /\ "closing" \in Pcs
      BY <1>15 DEF RememberDevice, Go, Pcs, Remembering, Invalidating
    <3>. QED  BY <2>3, <3>1, Write
  <2>6. \A u \in Threads \ {t} : thread[u].pc \notin Opened \cup {"opening", "open"}
    BY <2>4 DEF Writing, Opened, Remembering, Invalidating
  <2>7. Parity'
    BY <1>15, <2>1, <2>6 DEF RememberDevice, Parity, Opened, TypeOK
  <2>8. Unnamed'
    <3>1. ASSUME NEW u \in Threads \ {t}
          PROVE  thread'[u].pc \notin {"opening", "publishing", "naming", "clear", "close"}
      BY <2>1, <2>6 DEF Opened
    <3>2. /\ thread'[t].pc \in {"publishing", "naming", "clear", "close"} => device' = NoDevice
          /\ thread'[t].pc = "naming" => native' = thread'[t].value
      BY <1>15, <2>1 DEF RememberDevice, Unnamed
    <3>. QED  BY <2>1, <3>1, <3>2 DEF Unnamed
  <2>9. Entry'
    BY <1>15, <1>0, <2>1, <2>3, <2>6
       DEF RememberDevice, Entry, Answers, Unnamed, Held, Remembering, Opened, TypeOK
  <2>10. Readers'
    BY <1>15, <2>1, <2>6 DEF RememberDevice, Readers, Parity, Opened, TypeOK
  <2>. QED  BY <2>2, <2>5, <2>7, <2>8, <2>9, <2>10
<1>16. ASSUME NEW t \in Threads, RememberClose(t) PROVE Inv'
  <2>1. /\ thread[t].pc = "closing" /\ thread'[t] = [thread[t] EXCEPT !.pc = "answered"] /\ thread'[t].pc = "answered"
        /\ thread'[t].device = thread[t].device /\ thread'[t].value = thread[t].value
        /\ \A u \in Threads \ {t} : thread'[u] = thread[u]
    BY <1>16, <1>0 DEF RememberClose, Go
  <2>2. TypeOK'
    BY <1>16, <1>0 DEF RememberClose, Go, TypeOK, Pcs, Remembering, Invalidating
  <2>3. Writing(t) /\ Shared(t)
    BY <2>1 DEF Writing, Shared, Remembering, Invalidating
  <2>4. \A u \in Threads \ {t} : ~Writing(u)
    BY <2>3 DEF Locks
  <2>5. Locks' /\ Answers'
    <3>1. Go(t, thread[t].pc, "answered") /\ UNCHANGED known /\ "answered" \in Pcs
      BY <1>16 DEF RememberClose, Go, Pcs, Remembering, Invalidating
    <3>. QED  BY <2>3, <3>1, Write
  <2>6. \A u \in Threads \ {t} : thread[u].pc \notin Opened \cup {"opening", "open"}
    BY <2>4 DEF Writing, Opened, Remembering, Invalidating
  <2>7. Parity'
    BY <1>16, <2>1, <2>6 DEF RememberClose, Parity, Opened, TypeOK
  <2>8. Unnamed'
    <3>1. ASSUME NEW u \in Threads \ {t}
          PROVE  thread'[u].pc \notin {"opening", "publishing", "naming", "clear", "close"}
      BY <2>1, <2>6 DEF Opened
    <3>2. /\ thread'[t].pc \in {"publishing", "naming", "clear", "close"} => device' = NoDevice
          /\ thread'[t].pc = "naming" => native' = thread'[t].value
      BY <1>16, <2>1 DEF RememberClose, Unnamed
    <3>. QED  BY <2>1, <3>1, <3>2 DEF Unnamed
  <2>9. Entry'
    BY <1>16, <1>0, <2>1, <2>3, <2>6
       DEF RememberClose, Entry, Answers, Unnamed, Held, Remembering, Opened, TypeOK
  <2>10. Readers'
    BY <1>16, <2>1, <2>6 DEF RememberClose, Readers, Parity, Opened, TypeOK
  <2>. QED  BY <2>2, <2>5, <2>7, <2>8, <2>9, <2>10
<1>17. ASSUME NEW t \in Threads, InvalidateOpen(t) PROVE Inv'
  <2>1. /\ thread[t].pc = "open" /\ thread'[t] = [thread[t] EXCEPT !.pc = "unname"] /\ thread'[t].pc = "unname"
        /\ thread'[t].device = thread[t].device /\ thread'[t].value = thread[t].value
        /\ \A u \in Threads \ {t} : thread'[u] = thread[u]
    BY <1>17, <1>0 DEF InvalidateOpen, Go
  <2>2. TypeOK'
    BY <1>17, <1>0 DEF InvalidateOpen, Go, TypeOK, Pcs, Remembering, Invalidating
  <2>3. Writing(t) /\ Exclusive(t)
    BY <2>1 DEF Writing, Exclusive, Remembering, Invalidating
  <2>4. \A u \in Threads \ {t} : ~Writing(u)
    BY <2>3 DEF Locks
  <2>5. Locks' /\ Answers'
    <3>1. Go(t, thread[t].pc, "unname") /\ UNCHANGED known /\ "unname" \in Pcs
      BY <1>17 DEF InvalidateOpen, Go, Pcs, Remembering, Invalidating
    <3>. QED  BY <2>3, <3>1, Write
  <2>6. \A u \in Threads \ {t} : thread[u].pc \notin Opened \cup {"opening", "open"}
    BY <2>4 DEF Writing, Opened, Remembering, Invalidating
  <2>7. Parity'
    BY <1>17, <2>1, <2>6 DEF InvalidateOpen, Parity, Opened, TypeOK
  <2>8. Unnamed'
    <3>1. ASSUME NEW u \in Threads \ {t}
          PROVE  thread'[u].pc \notin {"opening", "publishing", "naming", "clear", "close"}
      BY <2>1, <2>6 DEF Opened
    <3>2. /\ thread'[t].pc \in {"publishing", "naming", "clear", "close"} => device' = NoDevice
          /\ thread'[t].pc = "naming" => native' = thread'[t].value
      BY <1>17, <2>1 DEF InvalidateOpen, Unnamed
    <3>. QED  BY <2>1, <3>1, <3>2 DEF Unnamed
  <2>9. Entry'
    BY <1>17, <1>0, <2>1, <2>3, <2>6
       DEF InvalidateOpen, Entry, Answers, Unnamed, Held, Remembering, Opened, TypeOK
  <2>10. Readers'
    BY <1>17, <2>1, <2>6 DEF InvalidateOpen, Readers, Parity, Opened, TypeOK
  <2>. QED  BY <2>2, <2>5, <2>7, <2>8, <2>9, <2>10
<1>18. ASSUME NEW t \in Threads, InvalidateDevice(t) PROVE Inv'
  <2>1. /\ thread[t].pc = "unname" /\ thread'[t] = [thread[t] EXCEPT !.pc = "clear"] /\ thread'[t].pc = "clear"
        /\ thread'[t].device = thread[t].device /\ thread'[t].value = thread[t].value
        /\ \A u \in Threads \ {t} : thread'[u] = thread[u]
    BY <1>18, <1>0 DEF InvalidateDevice, Go
  <2>2. TypeOK'
    BY <1>18, <1>0 DEF InvalidateDevice, Go, TypeOK, Pcs, Remembering, Invalidating
  <2>3. Writing(t) /\ Exclusive(t)
    BY <2>1 DEF Writing, Exclusive, Remembering, Invalidating
  <2>4. \A u \in Threads \ {t} : ~Writing(u)
    BY <2>3 DEF Locks
  <2>5. Locks' /\ Answers'
    <3>1. Go(t, thread[t].pc, "clear") /\ UNCHANGED known /\ "clear" \in Pcs
      BY <1>18 DEF InvalidateDevice, Go, Pcs, Remembering, Invalidating
    <3>. QED  BY <2>3, <3>1, Write
  <2>6. \A u \in Threads \ {t} : thread[u].pc \notin Opened \cup {"opening", "open"}
    BY <2>4 DEF Writing, Opened, Remembering, Invalidating
  <2>7. Parity'
    BY <1>18, <2>1, <2>6 DEF InvalidateDevice, Parity, Opened, TypeOK
  <2>8. Unnamed'
    <3>1. ASSUME NEW u \in Threads \ {t}
          PROVE  thread'[u].pc \notin {"opening", "publishing", "naming", "clear", "close"}
      BY <2>1, <2>6 DEF Opened
    <3>2. /\ thread'[t].pc \in {"publishing", "naming", "clear", "close"} => device' = NoDevice
          /\ thread'[t].pc = "naming" => native' = thread'[t].value
      BY <1>18, <2>1 DEF InvalidateDevice, Unnamed
    <3>. QED  BY <2>1, <3>1, <3>2 DEF Unnamed
  <2>9. Entry'
    BY <1>18, <1>0, <2>1, <2>3, <2>6
       DEF InvalidateDevice, Entry, Answers, Unnamed, Held, Remembering, Opened, TypeOK
  <2>10. Readers'
    BY <1>18, <2>1, <2>6 DEF InvalidateDevice, Readers, Parity, Opened, TypeOK
  <2>. QED  BY <2>2, <2>5, <2>7, <2>8, <2>9, <2>10
<1>19. ASSUME NEW t \in Threads, InvalidateNative(t) PROVE Inv'
  <2>1. /\ thread[t].pc = "clear" /\ thread'[t] = [thread[t] EXCEPT !.pc = "close"] /\ thread'[t].pc = "close"
        /\ thread'[t].device = thread[t].device /\ thread'[t].value = thread[t].value
        /\ \A u \in Threads \ {t} : thread'[u] = thread[u]
    BY <1>19, <1>0 DEF InvalidateNative, Go
  <2>2. TypeOK'
    BY <1>19, <1>0 DEF InvalidateNative, Go, TypeOK, Pcs, Remembering, Invalidating
  <2>3. Writing(t) /\ Exclusive(t)
    BY <2>1 DEF Writing, Exclusive, Remembering, Invalidating
  <2>4. \A u \in Threads \ {t} : ~Writing(u)
    BY <2>3 DEF Locks
  <2>5. Locks' /\ Answers'
    <3>1. Go(t, thread[t].pc, "close") /\ UNCHANGED known /\ "close" \in Pcs
      BY <1>19 DEF InvalidateNative, Go, Pcs, Remembering, Invalidating
    <3>. QED  BY <2>3, <3>1, Write
  <2>6. \A u \in Threads \ {t} : thread[u].pc \notin Opened \cup {"opening", "open"}
    BY <2>4 DEF Writing, Opened, Remembering, Invalidating
  <2>7. Parity'
    BY <1>19, <2>1, <2>6 DEF InvalidateNative, Parity, Opened, TypeOK
  <2>8. Unnamed'
    <3>1. ASSUME NEW u \in Threads \ {t}
          PROVE  thread'[u].pc \notin {"opening", "publishing", "naming", "clear", "close"}
      BY <2>1, <2>6 DEF Opened
    <3>2. /\ thread'[t].pc \in {"publishing", "naming", "clear", "close"} => device' = NoDevice
          /\ thread'[t].pc = "naming" => native' = thread'[t].value
      BY <1>19, <2>1 DEF InvalidateNative, Unnamed
    <3>. QED  BY <2>1, <3>1, <3>2 DEF Unnamed
  <2>9. Entry'
    BY <1>19, <1>0, <2>1, <2>3, <2>6
       DEF InvalidateNative, Entry, Answers, Unnamed, Held, Remembering, Opened, TypeOK
  <2>10. Readers'
    BY <1>19, <2>1, <2>6 DEF InvalidateNative, Readers, Parity, Opened, TypeOK
  <2>. QED  BY <2>2, <2>5, <2>7, <2>8, <2>9, <2>10
<1>20. ASSUME NEW t \in Threads, InvalidateClose(t) PROVE Inv'
  <2>1. /\ thread[t].pc = "close" /\ thread'[t].pc = "idle"
        /\ \A u \in Threads \ {t} : thread'[u] = thread[u]
    BY <1>20, <1>0, IdleType DEF InvalidateClose
  <2>2. TypeOK'
    BY <1>20, <1>0, IdleType DEF InvalidateClose, TypeOK
  <2>3. \A u \in Threads \ {t} : thread[u].pc \notin Opened \cup {"opening", "open"}
    BY <2>1 DEF Locks, Writing, Opened, Remembering, Invalidating
  <2>4. Locks'
    BY <2>1 DEF Locks, Exclusive, Shared, Writing, Remembering, Invalidating
  <2>5. Answers' /\ Unnamed'
    BY <1>20, <2>1 DEF InvalidateClose, Answers, Unnamed, Held, Remembering
  <2>6. Parity'
    BY <1>20, <2>1, <2>3 DEF InvalidateClose, Parity, Opened, TypeOK
  <2>7. Entry'
    BY <1>20, <2>1 DEF InvalidateClose, Entry
  <2>8. Readers'
    BY <1>20, <2>1 DEF InvalidateClose, Readers, TypeOK
  <2>. QED  BY <2>2, <2>4, <2>5, <2>6, <2>7, <2>8
<1>21. CASE UNCHANGED vars
  BY <1>21
     DEF vars, atomics, TypeOK, Locks, Parity, Answers, Unnamed, Entry, Readers, Exclusive,
         Shared, Writing
<1>. QED  BY <1>1, <1>2, <1>3, <1>4, <1>5, <1>6, <1>7, <1>8, <1>9, <1>10, <1>11, <1>12, <1>13, <1>14, <1>15, <1>16, <1>17, <1>18, <1>19, <1>20, <1>21 DEF Next, QueryStep, InvalidateStep

-----------------------------------------------------------------------------
(* The properties that the runs check.                                      *)

\* Every variable keeps its type.
THEOREM TypeCorrect == Spec => []TypeOK
<1>1. Inv => TypeOK
  BY DEF Inv
<1>. QED  BY <1>1, InitInv, StepInv, PTL DEF Spec

\* A query answers what the module recorded of its device.
THEOREM AnswersCorrect == Spec => []AnswersTrue
<1>1. Inv => AnswersTrue
  BY DEF Inv, Answers, AnswersTrue
<1>. QED  BY <1>1, InitInv, StepInv, PTL DEF Spec

\* The entry of the cache is that of the map when nobody changes the map.
THEOREM EntryCorrect == Spec => []EntryCurrent
<1>1. Inv => EntryCurrent
  BY DEF Inv, Entry, EntryCurrent, NoExclusive, Exclusive, Invalidating
<1>. QED  BY <1>1, InitInv, StepInv, PTL DEF Spec


-----------------------------------------------------------------------------
(* NativeCache implements NativeSupport.  A query answers when its thread   *)
(* stops reading; a device is recorded when the map changes; all else       *)
(* stutters.                                                                *)

CallsOf == [t \in Threads |-> CallOf(t)]
Quiet == {"lookup", "device", "native", "check", "missed"} \cup Held

LEMMA CallOfCases ==
    ASSUME NEW t \in Threads
    PROVE  /\ thread[t].pc = "idle" \/ Exclusive(t) => CallOf(t) = Promise!Resting
           /\ thread[t].pc = "answered" => CallOf(t) = Promise!Answered(thread[t].device, thread[t].value)
           /\ thread[t].pc \in Quiet => CallOf(t) = Promise!Asked(thread[t].device)
BY
   DEF CallOf, Exclusive, Quiet, Held, Remembering, Invalidating, Promise!Resting,
       Promise!Answered, Promise!Asked

LEMMA CallOfCasesNext ==
    ASSUME NEW t \in Threads
    PROVE  /\ thread'[t].pc \in {"idle", "changed"} \cup Invalidating => CallOf(t)' = Promise!Resting
           /\ thread'[t].pc = "answered" => CallOf(t)' = Promise!Answered(thread'[t].device, thread'[t].value)
           /\ thread'[t].pc \in Quiet => CallOf(t)' = Promise!Asked(thread'[t].device)
BY
   DEF CallOf, Exclusive, Quiet, Held, Remembering, Invalidating, Promise!Resting,
       Promise!Answered, Promise!Asked

LEMMA OneCall ==
    ASSUME NEW t \in Threads, \A u \in Threads \ {t} : thread'[u] = thread[u]
    PROVE  CallsOf' = [CallsOf EXCEPT ![t] = CallOf(t)']
<1>1. \A u \in Threads \ {t} : CallOf(u)' = CallOf(u)
  BY DEF CallOf, Exclusive
<1>2. CallsOf' = [u \in Threads |-> CallOf(u)']
  BY DEF CallsOf
<1>. QED  BY <1>1, <1>2 DEF CallsOf

LEMMA RefineInit == Init => Promise!Init
BY IdleType DEF Init, Promise!Init, Promise!Resting, CallOf, Exclusive, Invalidating

LEMMA RefineStep == Inv /\ Inv' /\ [Next]_vars => [Promise!Next]_(Promise!vars)
<1>. SUFFICES ASSUME Inv, Inv', [Next]_vars PROVE [Promise!Next]_<<known, CallsOf>>
  BY DEF Promise!vars, CallsOf
<1>0. thread \in [Threads -> [pc : Pcs, device : Devices, revision : Nat, value : BOOLEAN]]
  BY DEF Inv, TypeOK
<1>1. ASSUME NEW t \in Threads, NEW d \in Devices, Ask(t, d) PROVE Promise!Next
  <2>1. /\ thread[t].pc = "idle" /\ thread'[t].pc = "lookup" /\ thread'[t].device = d /\ UNCHANGED known
        /\ \A u \in Threads \ {t} : thread'[u] = thread[u]
    BY <1>0, <1>1, IdleType DEF Ask, Idle
  <2>2. CallsOf[t] = Promise!Resting /\ CallsOf' = [CallsOf EXCEPT ![t] = Promise!Asked(d)]
    BY <2>1, CallOfCases, CallOfCasesNext, OneCall DEF CallsOf, Quiet
  <2>3. Promise!Ask(t, d)
    BY <2>1, <2>2 DEF Promise!Ask, CallsOf
  <2>. QED  BY <2>3 DEF Promise!Next
\* Steps of a query.
<1>2. ASSUME NEW t \in Threads, thread[t].pc \in Quiet, thread'[t].pc \in Quiet \cup {"answered"},
             thread'[t].device = thread[t].device, UNCHANGED known,
             \A u \in Threads \ {t} : thread'[u] = thread[u]
      PROVE  [Promise!Next]_<<known, CallsOf>>
  <2>. DEFINE d == thread[t].device
  <2>1. d \in Devices /\ CallsOf[t] = Promise!Asked(d)
    BY <1>0, <1>2, CallOfCases DEF CallsOf
  <2>2. CASE thread'[t].pc \in Quiet
    <3>1. CallOf(t)' = CallsOf[t]
      BY <1>2, <2>1, <2>2, CallOfCasesNext
    <3>. QED  BY <1>2, <3>1, OneCall DEF CallsOf
  <2>3. CASE thread'[t].pc = "answered"
    <3>1. thread'[t].value = (known[d] = "native")
      BY <1>2, <2>3 DEF Inv, Answers
    <3>2. CallOf(t)' = Promise!Answered(d, known[d] = "native")
      BY <1>2, <2>3, <3>1, CallOfCasesNext
    <3>3. Promise!Answer(t, d)
      BY <1>2, <2>1, <3>2, OneCall DEF Promise!Answer, CallsOf
    <3>. QED  BY <2>1, <3>3 DEF Promise!Next
  <2>. QED  BY <1>2, <2>2, <2>3
<1>3. ASSUME NEW t \in Threads, QueryStep(t) PROVE [Promise!Next]_<<known, CallsOf>>
  <2>1. thread[t].pc \in Quiet
    BY <1>3
       DEF QueryStep, LookupRevision, LookupDevice, LookupNative, LookupCheck, Find,
           RememberTest,
                RememberLock, RememberOpen, RememberNative, RememberDevice, RememberClose, Go, Quiet, Held, Remembering
  <2>2. thread'[t].pc \in Quiet \cup {"answered"} /\ thread'[t].device = thread[t].device
    <3>1. CASE LookupRevision(t) \/ LookupDevice(t) \/ LookupNative(t) \/ LookupCheck(t)
      BY <1>0, <3>1 DEF LookupRevision, LookupDevice, LookupNative, LookupCheck, Go, Quiet
    <3>2. CASE Find(t) \/ RememberTest(t) \/ RememberLock(t)
      BY <1>0, <3>2 DEF Find, RememberTest, RememberLock, Go, Quiet, Held, Remembering
    <3>3. CASE RememberOpen(t) \/ RememberNative(t) \/ RememberDevice(t) \/ RememberClose(t)
      BY <1>0, <3>3
         DEF RememberOpen, RememberNative, RememberDevice, RememberClose, Go, Quiet, Held,
             Remembering
    <3>. QED  BY <1>3, <3>1, <3>2, <3>3 DEF QueryStep
  <2>3. UNCHANGED known /\ \A u \in Threads \ {t} : thread'[u] = thread[u]
    BY <1>0, <1>3
       DEF QueryStep, LookupRevision, LookupDevice, LookupNative, LookupCheck, Find,
           RememberTest,
                      RememberLock, RememberOpen, RememberNative, RememberDevice, RememberClose, Go
  <2>. QED  BY <1>2, <2>1, <2>2, <2>3
<1>4. ASSUME NEW t \in Threads, InvalidateStep(t) PROVE UNCHANGED <<known, CallsOf>>
  <2>1. Exclusive(t) /\ UNCHANGED known /\ \A u \in Threads \ {t} : thread'[u] = thread[u]
    BY <1>0, <1>4
       DEF InvalidateStep, InvalidateLock, InvalidateOpen, InvalidateDevice, InvalidateNative,
                      InvalidateClose, Go, Exclusive, Invalidating
  <2>2. thread'[t].pc \in {"idle", "changed"} \cup Invalidating
    BY <1>0, <1>4, IdleType DEF InvalidateStep, InvalidateLock, InvalidateOpen, InvalidateDevice,
                                InvalidateNative, InvalidateClose, Go, Invalidating
  <2>3. CallOf(t)' = CallsOf[t]
    BY <2>1, <2>2, CallOfCases, CallOfCasesNext DEF CallsOf
  <2>. QED  BY <2>1, <2>3, OneCall DEF CallsOf
<1>5. ASSUME NEW t \in Threads, Return(t) PROVE Promise!Next
  <2>1. /\ thread[t].pc = "answered" /\ thread'[t].pc = "idle" /\ UNCHANGED known
        /\ \A u \in Threads \ {t} : thread'[u] = thread[u]
    BY <1>0, <1>5, IdleType DEF Return
  <2>2. CallsOf[t].state = "answered"
    BY <2>1, CallOfCases DEF CallsOf, Promise!Answered
  <2>3. Promise!Return(t)
    BY <2>1, <2>2, CallOfCasesNext, OneCall DEF Promise!Return, CallsOf
  <2>. QED  BY <2>3 DEF Promise!Next
\* Creation and destruction.
<1>6. ASSUME NEW t \in Threads, NEW d \in Devices, NEW kind \in {"native", "emulated", "unknown"},
             thread[t].pc = "idle", known' = [known EXCEPT ![d] = kind],
             thread' = [thread EXCEPT ![t] = [Idle EXCEPT !.pc = "changed", !.device = d]]
      PROVE  Promise!Next
  <2>1. thread'[t].pc = "changed" /\ \A u \in Threads \ {t} : thread'[u] = thread[u]
    BY <1>0, <1>6 DEF Idle
  <2>2. CallOf(t)' = CallsOf[t]
    BY <1>6, <2>1, CallOfCases, CallOfCasesNext DEF CallsOf
  <2>3. UNCHANGED CallsOf
    BY <2>1, <2>2, OneCall DEF CallsOf
  <2>4. Promise!Record(d, kind)
    BY <1>6, <2>3 DEF Promise!Record, CallsOf
  <2>. QED  BY <2>4 DEF Promise!Next, Promise!Kinds
<1>7. ASSUME NEW t \in Threads, NEW d \in Devices,
             Destroyed(t, d) \/ (\E kind \in {"native", "emulated"} : Created(t, d, kind))
      PROVE  Promise!Next
  <2>1. CASE Destroyed(t, d)
    BY <1>6, <2>1 DEF Destroyed
  <2>2. ASSUME NEW kind \in {"native", "emulated"}, Created(t, d, kind) PROVE Promise!Next
    BY <1>6, <2>2 DEF Created
  <2>. QED  BY <1>7, <2>1, <2>2
<1>8. CASE UNCHANGED vars
  BY <1>8 DEF vars, CallsOf, CallOf, Exclusive
<1>. QED  BY <1>1, <1>3, <1>4, <1>5, <1>7, <1>8 DEF Next

\* Every behaviour of the cache is one of atomic queries.
THEOREM QueriesAtomic == Spec => AtomicQuery
<1>. QED  BY RefineInit, RefineStep, InitInv, StepInv, PTL DEF Spec, AtomicQuery, Promise!Spec

-----------------------------------------------------------------------------
(* DriverTrust: the invariant.                                              *)

Words == {"ready", "pass", "mismatch"}
Statuses == {"passed", "mismatch", "crashed", "unavailable", "timedout"}
Working == {"launch", "loop", "check", "exited"}
Watching == {"loop", "check", "exited"}

CallerRecords ==
    [pc : {"idle", "wait", "done"} \cup Trust!Probing, id : Devices \cup {Nothing},
     part : Trust!Parts \cup {Nothing}, run : {"before", "subject", "after", Nothing},
     subject : Statuses \cup {Nothing}, out : SUBSET Words, report : Trust!Reports,
     excused : SUBSET Trust!Parts]
WorkerRecords ==
    [state : {"none", "setup", "measuring"} \cup Trust!Exited, pipe : SUBSET Words]

TrustType ==
    /\ defective \in [Devices -> SUBSET Trust!Parts]
    /\ entry \in [Devices -> Trust!Entries \cup {Nothing}]
    /\ caller \in [Threads -> CallerRecords]
    /\ worker \in [Threads -> WorkerRecords]

\* What is said of a driver is so.
True(report, id, def) ==
    \A p \in Trust!Parts : /\ report[p] = "repair" => p \in def[id]
                           /\ report[p] = "healthy" => p \notin def[id]

\* A thread and the entry of the device it asks about.
Linked(t, c, ent) ==
    /\ c.pc # "idle" => c.id \in Devices
    /\ c.pc \in Trust!Probing => ent[c.id] = [owner |-> t, report |-> Nothing]
    /\ c.pc = "wait" => ent[c.id] # Nothing /\ (ent[c.id].report = Nothing => ent[c.id].owner # t)
    /\ c.pc = "done" =>
          \/ c.report = Trust!Unmeasured
          \/ ent[c.id] # Nothing /\ c.report = ent[c.id].report

\* A part that was measured is known, or there was a failure.
Covered(c) ==
    \A p \in Trust!Parts :
       /\ c.pc = "publish" \/ (c.pc \in Working /\ c.part = "tiler" /\ p = "push")
       /\ c.report[p] = "inconclusive"
       => p \in c.excused

\* What the status of a run says of the part that is measured.
Shows(c, status, def) ==
    /\ status = "passed" => c.part \notin def[c.id]
    /\ status \in {"mismatch", "crashed"} => c.part \in def[c.id]
    /\ status \in {"unavailable", "timedout"} => c.part \in c.excused
Says(c, status, def) ==
    IF c.run = "subject" THEN Shows(c, status, def) ELSE status # "passed" => c.part \in c.excused

Measured(c, def) ==
    /\ c.pc \in {"native", "launch"} => c.out = {}
    /\ c.pc \in Working =>
          /\ c.part \in Trust!Parts /\ c.run \in {"before", "subject", "after"}
          /\ c.run = "after" => c.subject \in Statuses /\ Shows(c, c.subject, def)

\* The words of a worker and its end fit what it is measuring.
Fits(c, w, def) ==
    LET words == c.out \cup w.pipe
        bad == c.run = "subject" /\ c.part \in def[c.id]
        excused == c.part \in c.excused IN
    IF c.pc \notin Watching THEN w = Trust!NoWorker
    ELSE /\ w.state # "none" /\ (c.pc = "exited" => w.state \in Trust!Exited)
         /\ w.state = "setup" => words = {}
         /\ w.state = "measuring" => words = {"ready"}
         /\ w.state = "exit0" => "pass" \in words /\ ~bad
         /\ w.state = "exit2" => excused
         /\ w.state = "exit3" => {"ready", "mismatch"} \subseteq words /\ (bad \/ (c.run # "subject" /\ excused))
         /\ w.state = "signal" =>
               IF "ready" \in words THEN bad \/ (c.run # "subject" /\ excused) ELSE excused

CallerSound(t, c, w, def, ent) ==
    /\ Linked(t, c, ent)
    /\ c.pc # "idle" => True(c.report, c.id, def)
    /\ Covered(c) /\ Measured(c, def) /\ Fits(c, w, def)

Believed(def, ent) ==
    \A i \in Devices : ent[i] # Nothing /\ ent[i].report # Nothing => True(ent[i].report, i, def)

TrustInv ==
    /\ TrustType /\ Believed(defective, entry)
    /\ \A t \in Threads : CallerSound(t, caller[t], worker[t], defective, entry)

TI == part = "trust" => TrustInv

-----------------------------------------------------------------------------
(* DriverTrust: the lemmas.                                                 *)

LEMMA StartsTrusted ==
    /\ Trust!Idle \in CallerRecords /\ Trust!NoWorker \in WorkerRecords
    /\ Trust!Idle.pc = "idle" /\ Trust!Idle.out = {} /\ Trust!Idle.report = Trust!Unmeasured
    /\ Trust!Unmeasured \in Trust!Reports
    /\ \A p \in Trust!Parts : Trust!Unmeasured[p] = "inconclusive"
BY DEF Trust!Idle, Trust!NoWorker, Trust!Unmeasured, CallerRecords, WorkerRecords, Trust!Reports,
       Trust!Verdicts

LEMMA EntryFacts ==
    ASSUME TrustInv, NEW i \in Devices, entry[i] # Nothing
    PROVE  /\ entry[i] \in Trust!Entries /\ entry[i].report \in Trust!Reports \cup {Nothing}
           /\ Nothing \notin Trust!Reports
BY TrustAssumption DEF TrustInv, TrustType, Trust!Entries

\* A step of a thread that does not change an entry.
LEMMA Moved ==
    ASSUME TrustInv, NEW t \in Threads, NEW c \in CallerRecords, NEW w \in WorkerRecords,
           caller' = [caller EXCEPT ![t] = c], worker' = [worker EXCEPT ![t] = w],
           defective' = defective, entry' = entry, CallerSound(t, c, w, defective, entry)
    PROVE  TrustInv'
<1>1. caller'[t] = c /\ worker'[t] = w
  BY DEF TrustInv, TrustType
<1>2. \A u \in Threads \ {t} : caller'[u] = caller[u] /\ worker'[u] = worker[u]
  BY DEF TrustInv, TrustType
<1>3. TrustType' BY DEF TrustInv, TrustType
<1>4. Believed(defective', entry') BY DEF TrustInv
<1>5. \A u \in Threads : CallerSound(u, caller'[u], worker'[u], defective', entry')
  BY <1>1, <1>2 DEF TrustInv
<1> QED BY <1>3, <1>4, <1>5 DEF TrustInv

\* The verdict on a part takes the prober to the next one.
Justified(c, verdict, def) ==
    /\ verdict = "repair" => c.part \in def[c.id]
    /\ verdict = "healthy" => c.part \notin def[c.id]
    /\ verdict = "inconclusive" => c.part \in c.excused

Ran(c, def) ==
    /\ c \in CallerRecords /\ c.id \in Devices /\ c.pc \in Working
    /\ True(c.report, c.id, def) /\ Covered(c) /\ Measured(c, def)

Goes(c, r, def) ==
    /\ r \in CallerRecords /\ r.id = c.id /\ r.pc \in {"launch", "publish"}
    /\ True(r.report, r.id, def) /\ Covered(r) /\ Measured(r, def)

LEMMA PartDone ==
    ASSUME NEW def, NEW c, Ran(c, def), NEW verdict \in Trust!Verdicts, Justified(c, verdict, def)
    PROVE  Goes(c, Trust!NextPart(c, verdict), def)
<1> DEFINE r == Trust!NextPart(c, verdict)
<1>1. c \in CallerRecords /\ c.part \in {"push", "tiler"} /\ c.report \in Trust!Reports
  BY DEF Ran, Measured, Trust!Parts, CallerRecords
<1>2. /\ r.report = [c.report EXCEPT ![c.part] = verdict] /\ r.run = "before" /\ r.out = {}
      /\ r.part = (IF c.part = "push" THEN "tiler" ELSE Nothing)
      /\ r.pc = (IF c.part = "push" THEN "launch" ELSE "publish")
      /\ r.id = c.id /\ r.excused = c.excused
  BY <1>1 DEF Trust!NextPart, CallerRecords
<1>3. r.report \in Trust!Reports /\ r.report[c.part] = verdict
      /\ \A p \in Trust!Parts \ {c.part} : r.report[p] = c.report[p]
  BY <1>1, <1>2 DEF Trust!Reports, Trust!Parts
<1>4. r \in CallerRecords
  BY <1>1, <1>3 DEF Trust!NextPart, CallerRecords, Trust!Parts, Trust!Probing
<1> HIDE DEF r
<1>5. True(r.report, r.id, def) BY <1>2, <1>3 DEF True, Ran, Justified
<1>6. Covered(r)
  <2>1. CASE c.part = "push" BY <1>2, <1>3, <2>1 DEF Covered, Justified, Working, Trust!Parts
  <2>2. CASE c.part = "tiler"
    BY <1>2, <1>3, <2>2 DEF Covered, Ran, Justified, Working, Trust!Parts
  <2> QED BY <1>1, <2>1, <2>2
<1>7. Measured(r, def) BY <1>1, <1>2 DEF Measured, Working, Trust!Parts
<1> QED BY <1>2, <1>4, <1>5, <1>6, <1>7 DEF Goes, r

\* What the prober does with the status of a run is justified by what the run shows.
LEMMA RunDone ==
    ASSUME NEW def, NEW c, Ran(c, def), NEW status \in Statuses, Says(c, status, def)
    PROVE  Goes(c, Trust!Result(c, status), def)
<1>1. c.part \in Trust!Parts /\ c.run \in {"before", "subject", "after"} BY DEF Ran, Measured
<1>2. CASE c.run = "before" /\ status # "passed"
  <2>1. Justified(c, "inconclusive", def) BY <1>2 DEF Says, Justified
  <2>2. Trust!Result(c, status) = Trust!NextPart(c, "inconclusive") BY <1>2 DEF Trust!Result
  <2> QED BY <2>1, <2>2, PartDone DEF Trust!Verdicts
<1>3. CASE c.run = "before" /\ status = "passed"
  <2> DEFINE r == [c EXCEPT !.run = "subject", !.pc = "launch", !.out = {}]
  <2>1. Trust!Result(c, status) = r BY <1>3 DEF Trust!Result
  <2>2. /\ r \in CallerRecords /\ r.id = c.id /\ r.pc = "launch" /\ r.run = "subject" /\ r.out = {}
        /\ r.part = c.part /\ r.report = c.report /\ r.excused = c.excused
    BY DEF Ran, CallerRecords, Trust!Probing
  <2> HIDE DEF r
  <2>3. Goes(c, r, def) BY <1>1, <2>2 DEF Goes, Ran, True, Covered, Measured, Working
  <2> QED BY <2>1, <2>3
<1>4. CASE c.run = "subject"
  <2> DEFINE r == [c EXCEPT !.run = "after", !.pc = "launch", !.out = {}, !.subject = status]
  <2>1. Trust!Result(c, status) = r BY <1>4 DEF Trust!Result
  <2>2. /\ r \in CallerRecords /\ r.id = c.id /\ r.pc = "launch" /\ r.run = "after" /\ r.out = {}
        /\ r.part = c.part /\ r.report = c.report /\ r.excused = c.excused /\ r.subject = status
    BY DEF Ran, CallerRecords, Trust!Probing
  <2> HIDE DEF r
  <2>3. Shows(r, status, def) BY <1>4, <2>2 DEF Says, Shows
  <2>4. Measured(r, def) BY <1>1, <2>2, <2>3 DEF Measured
  <2>5. Goes(c, r, def) BY <2>2, <2>4 DEF Goes, Ran, True, Covered, Working
  <2> QED BY <2>1, <2>5
<1>5. CASE c.run = "after"
  <2> DEFINE verdict == Trust!Assess(c.subject, status)
  <2>1. Trust!Result(c, status) = Trust!NextPart(c, verdict) BY <1>5 DEF Trust!Result
  <2>2. c.subject \in Statuses /\ Shows(c, c.subject, def) BY <1>5 DEF Ran, Measured
  <2>3. /\ verdict \in Trust!Verdicts
        /\ verdict = "repair" => c.subject \in {"mismatch", "crashed"}
        /\ verdict = "healthy" => c.subject = "passed"
        /\ verdict = "inconclusive" => status # "passed" \/ c.subject \in {"unavailable", "timedout"}
    BY <2>2 DEF Trust!Assess, Trust!Verdicts, Statuses
  <2> HIDE DEF verdict
  <2>4. Justified(c, verdict, def) BY <1>5, <2>2, <2>3 DEF Says, Shows, Justified
  <2> QED BY <2>1, <2>3, <2>4, PartDone
<1> QED BY <1>1, <1>2, <1>3, <1>4, <1>5


LEMMA Callers ==
    ASSUME TrustInv, NEW t \in Threads
    PROVE  /\ caller[t] \in CallerRecords /\ worker[t] \in WorkerRecords
           /\ CallerSound(t, caller[t], worker[t], defective, entry)
           /\ worker = [worker EXCEPT ![t] = worker[t]]
BY DEF TrustInv, TrustType

LEMMA Ended ==
    ASSUME TrustInv, NEW t \in Threads, NEW c, Ran(c, defective), c.id = caller[t].id,
           caller[t].pc \in Trust!Probing, NEW status \in Statuses, Says(c, status, defective),
           caller' = [caller EXCEPT ![t] = Trust!Result(c, status)],
           worker' = [worker EXCEPT ![t] = Trust!NoWorker], UNCHANGED <<defective, entry>>
    PROVE  TrustInv'
<1> DEFINE r == Trust!Result(c, status)
<1>1. Goes(c, r, defective) BY RunDone
<1>2. caller' = [caller EXCEPT ![t] = r] OBVIOUS
<1> HIDE DEF r
<1>3. Linked(t, r, entry)
  BY <1>1, Callers DEF Goes, Linked, CallerSound, Ran, Trust!Probing
<1>4. Fits(r, Trust!NoWorker, defective) BY <1>1 DEF Goes, Fits, Watching
<1>5. CallerSound(t, r, Trust!NoWorker, defective, entry) BY <1>1, <1>3, <1>4 DEF Goes, CallerSound
<1> QED BY <1>1, <1>2, <1>5, StartsTrusted, Moved DEF Goes

\* A failure is written down for the part that is measured.
LEMMA Excused ==
    ASSUME NEW def, NEW c, Ran(c, def)
    PROVE  /\ Ran(Trust!Excuse(c), def) /\ Trust!Excuse(c).id = c.id
           /\ \A status \in {"unavailable", "timedout"} : Says(Trust!Excuse(c), status, def)
<1> DEFINE r == Trust!Excuse(c)
<1>1. c \in CallerRecords /\ c.part \in Trust!Parts BY DEF Ran, Measured
<1>2. /\ r \in CallerRecords /\ r.excused = c.excused \cup {c.part} /\ r.id = c.id /\ r.pc = c.pc
      /\ r.part = c.part /\ r.run = c.run /\ r.report = c.report /\ r.subject = c.subject /\ r.out = c.out
  BY <1>1 DEF Trust!Excuse, CallerRecords
<1> HIDE DEF r
<1>3. Measured(r, def) BY <1>2 DEF Measured, Ran, Shows
<1>4. Ran(r, def) BY <1>2, <1>3 DEF Ran, True, Covered
<1>5. \A status \in {"unavailable", "timedout"} : Says(r, status, def) BY <1>2 DEF Says, Shows
<1> QED BY <1>2, <1>4, <1>5 DEF r

LEMMA AtWork ==
    ASSUME TrustInv, NEW t \in Threads, caller[t].pc \in Working
    PROVE  /\ Ran(caller[t], defective) /\ caller[t].pc \in Trust!Probing
           /\ entry[caller[t].id] = [owner |-> t, report |-> Nothing]
BY Callers DEF CallerSound, Ran, Linked, Working, Trust!Probing

-----------------------------------------------------------------------------
(* DriverTrust: the steps.                                                  *)

LEMMA AskStep ==
    ASSUME TrustInv, NEW t \in Threads, NEW i \in Devices, Trust!Ask(t, i) PROVE TrustInv'
<1> DEFINE next == Trust!Lookup(t, i)
           at == IF next = "probe" THEN "native" ELSE IF next = "wait" THEN "wait" ELSE "done"
           c == [Trust!Idle EXCEPT !.id = i, !.pc = at]
<1>1. /\ caller[t].pc = "idle" /\ caller' = [caller EXCEPT ![t] = c]
      /\ entry' = IF next = "probe" THEN [entry EXCEPT ![i] = [owner |-> t, report |-> Nothing]]
                                    ELSE entry
      /\ UNCHANGED <<defective, worker>>
  BY DEF Trust!Ask
<1>2. /\ next = "probe" => entry[i] = Nothing
      /\ next = "wait" => entry[i] # Nothing /\ ~(entry[i].report = Nothing /\ entry[i].owner = t)
  BY DEF Trust!Lookup, Trust!Known, Trust!Pending
<1> HIDE DEF next
<1>3. /\ c \in CallerRecords /\ c.pc = at /\ c.id = i /\ c.report = Trust!Unmeasured /\ c.out = {}
  BY StartsTrusted DEF CallerRecords, Trust!Probing
<1>4. /\ worker[t] = Trust!NoWorker /\ worker[t] \in WorkerRecords
      /\ worker' = [worker EXCEPT ![t] = worker[t]]
  BY <1>1, Callers DEF CallerSound, Fits, Watching
<1> HIDE DEF c
<1>5. True(c.report, c.id, defective) BY <1>3, StartsTrusted DEF True
<1>6. Covered(c) /\ Measured(c, defective) /\ Fits(c, worker[t], defective)
  BY <1>3, <1>4 DEF Covered, Measured, Fits, Working, Watching
<1>7. CASE next # "probe"
  <2>1. Linked(t, c, entry) BY <1>2, <1>3, <1>7 DEF Linked, Trust!Probing
  <2>2. CallerSound(t, c, worker[t], defective, entry) BY <1>5, <1>6, <2>1 DEF CallerSound
  <2> QED BY <1>1, <1>3, <1>4, <1>7, <2>2, Moved
<1>8. CASE next = "probe"
  <2> DEFINE e == [owner |-> t, report |-> Nothing]
  <2>1. e \in Trust!Entries /\ e # Nothing /\ e.report = Nothing
    BY TrustAssumption DEF Trust!Entries
  <2>2. entry' = [entry EXCEPT ![i] = e] BY <1>1, <1>8
  <2>3. e = [owner |-> t, report |-> Nothing] OBVIOUS
  <2> HIDE DEF e
  <2>4. /\ entry' \in [Devices -> Trust!Entries \cup {Nothing}] /\ entry'[i] = e
        /\ \A j \in Devices \ {i} : entry'[j] = entry[j]
    BY <2>1, <2>2 DEF TrustInv, TrustType
  <2>5. caller'[t] = c /\ \A u \in Threads \ {t} : caller'[u] = caller[u]
    BY <1>1 DEF TrustInv, TrustType
  <2>6. TrustType' BY <1>1, <1>3, <2>4 DEF TrustInv, TrustType
  <2>7. Believed(defective', entry') BY <1>1, <2>1, <2>4 DEF TrustInv, Believed
  <2>8. CallerSound(t, caller'[t], worker'[t], defective', entry')
    <3>1. Linked(t, c, entry') BY <1>3, <1>8, <2>3, <2>4 DEF Linked, Trust!Probing
    <3> QED BY <1>1, <1>5, <1>6, <2>5, <3>1 DEF CallerSound
  <2>9. ASSUME NEW u \in Threads \ {t} PROVE CallerSound(u, caller'[u], worker'[u], defective', entry')
    <3>1. CallerSound(u, caller[u], worker[u], defective, entry) BY Callers
    <3>2. Linked(u, caller[u], entry) BY <3>1 DEF CallerSound
    <3>3. caller[u].pc \in Trust!Probing => entry[caller[u].id] # Nothing
      BY <3>2, TrustAssumption DEF Linked, Trust!Entries
    <3>4. CASE caller[u].id = i
      <4>1. caller[u].pc \notin Trust!Probing /\ caller[u].pc # "wait"
        BY <1>2, <1>8, <3>2, <3>3, <3>4 DEF Linked
      <4>2. caller[u].pc = "done" => caller[u].report = Trust!Unmeasured
        BY <1>2, <1>8, <3>2, <3>4 DEF Linked
      <4> QED BY <3>1, <4>1, <4>2, <1>1, <2>5, <3>2 DEF Linked, CallerSound
    <3>5. CASE caller[u].id # i
      <4>1. caller[u].pc # "idle" => entry'[caller[u].id] = entry[caller[u].id]
        BY <2>4, <3>2, <3>5 DEF Linked
      <4>2. Linked(u, caller[u], entry') BY <3>2, <4>1 DEF Linked, Trust!Probing
      <4> QED BY <1>1, <2>5, <3>1, <4>2 DEF CallerSound
    <3> QED BY <3>4, <3>5
  <2> QED BY <2>6, <2>7, <2>8, <2>9 DEF TrustInv
<1> QED BY <1>7, <1>8

LEMMA PublishStep ==
    ASSUME TrustInv, NEW t \in Threads, Trust!Publish(t) PROVE TrustInv'
<1> DEFINE c == caller[t]
           i == c.id
           d == [c EXCEPT !.pc = "done"]
           e == [owner |-> t, report |-> c.report]
<1>1. /\ c.pc = "publish" /\ UNCHANGED <<defective, worker>>
      /\ entry' = [entry EXCEPT ![i].report = c.report]
      /\ caller' = [caller EXCEPT ![t].pc = "done"]
  BY DEF Trust!Publish
<1>2. c \in CallerRecords /\ CallerSound(t, c, worker[t], defective, entry) BY Callers
<1>3. /\ i \in Devices /\ entry[i] = [owner |-> t, report |-> Nothing]
      /\ c.report \in Trust!Reports /\ True(c.report, i, defective) /\ worker[t] = Trust!NoWorker
  BY <1>1, <1>2 DEF CallerSound, Linked, Fits, CallerRecords, Watching, Trust!Probing
<1>4. /\ d \in CallerRecords /\ d.pc = "done" /\ d.id = i /\ d.report = c.report
      /\ caller' = [caller EXCEPT ![t] = d]
  BY <1>1, <1>2 DEF CallerRecords, TrustInv, TrustType
<1>5. entry' = [entry EXCEPT ![i] = e]
  <2>1. entry' = [entry EXCEPT ![i] = [entry[i] EXCEPT !.report = c.report]] BY <1>1
  <2> DEFINE old == [owner |-> t, report |-> Nothing]
  <2>2. [old EXCEPT !.report = c.report] = e OBVIOUS
  <2> QED BY <1>3, <2>1, <2>2
<1>6. e \in Trust!Entries /\ e # Nothing /\ e.report = c.report /\ c.report # Nothing
  BY <1>3, TrustAssumption DEF Trust!Entries
<1> HIDE DEF e, d
<1>7. /\ entry' \in [Devices -> Trust!Entries \cup {Nothing}] /\ entry'[i] = e
      /\ \A j \in Devices \ {i} : entry'[j] = entry[j]
  BY <1>3, <1>5, <1>6 DEF TrustInv, TrustType
<1>8. caller'[t] = d /\ \A u \in Threads \ {t} : caller'[u] = caller[u]
  BY <1>4 DEF TrustInv, TrustType
<1>9. TrustType' BY <1>1, <1>4, <1>7 DEF TrustInv, TrustType
<1>10. Believed(defective', entry')
  BY <1>1, <1>3, <1>6, <1>7 DEF TrustInv, Believed
<1>11. CallerSound(t, caller'[t], worker'[t], defective', entry')
  <2>1. Linked(t, d, entry') BY <1>3, <1>4, <1>6, <1>7 DEF Linked, Trust!Probing
  <2>2. True(d.report, d.id, defective) BY <1>3, <1>4
  <2>3. Covered(d) /\ Measured(d, defective) /\ Fits(d, worker[t], defective)
    BY <1>3, <1>4 DEF Covered, Measured, Fits, Working, Watching
  <2> QED BY <1>1, <1>8, <2>1, <2>2, <2>3 DEF CallerSound
<1>12. ASSUME NEW u \in Threads \ {t} PROVE CallerSound(u, caller'[u], worker'[u], defective', entry')
  <2>1. CallerSound(u, caller[u], worker[u], defective, entry) /\ caller[u] \in CallerRecords BY Callers
  <2>2. Linked(u, caller[u], entry) BY <2>1 DEF CallerSound
  <2>3. entry[i].report = Nothing /\ entry[i].owner = t BY <1>3
  <2>4. caller[u].pc \in Trust!Probing => caller[u].id # i BY <1>3, <2>2, <2>3 DEF Linked
  <2>5. caller[u].report # Nothing BY <2>1, TrustAssumption DEF CallerRecords
  <2>6. CASE caller[u].id = i
    <3>1. caller[u].pc = "done" => caller[u].report = Trust!Unmeasured
      BY <2>2, <2>3, <2>5, <2>6 DEF Linked
    <3>2. Linked(u, caller[u], entry') BY <1>6, <1>7, <2>2, <2>4, <2>6, <3>1 DEF Linked
    <3> QED BY <1>1, <1>8, <2>1, <3>2 DEF CallerSound
  <2>7. CASE caller[u].id # i
    <3>1. caller[u].pc # "idle" => entry'[caller[u].id] = entry[caller[u].id]
      BY <1>7, <2>2, <2>7 DEF Linked
    <3>2. Linked(u, caller[u], entry') BY <2>2, <3>1 DEF Linked, Trust!Probing
    <3> QED BY <1>1, <1>8, <2>1, <3>2 DEF CallerSound
  <2> QED BY <2>6, <2>7
<1> QED BY <1>9, <1>10, <1>11, <1>12 DEF TrustInv

LEMMA WaitStep ==
    ASSUME TrustInv, NEW t \in Threads, Trust!Wait(t) PROVE TrustInv'
<1> DEFINE c == caller[t]
           i == c.id
           d == [c EXCEPT !.pc = "done", !.report = entry[i].report]
<1>1. /\ c.pc = "wait" /\ ~Trust!Pending(i) /\ UNCHANGED <<defective, entry, worker>>
      /\ caller' = [caller EXCEPT ![t].pc = "done", ![t].report = entry[i].report]
  BY DEF Trust!Wait
<1>2. c \in CallerRecords /\ CallerSound(t, c, worker[t], defective, entry) BY Callers
<1>3. i \in Devices /\ entry[i] # Nothing /\ worker[t] = Trust!NoWorker
  BY <1>1, <1>2 DEF CallerSound, Linked, Fits, Watching
<1>4. entry[i].report # Nothing BY <1>1, <1>3 DEF Trust!Pending, Trust!Known
<1>5. entry[i].report \in Trust!Reports /\ True(entry[i].report, i, defective)
  BY <1>3, <1>4, EntryFacts DEF TrustInv, Believed
<1>6. caller' = [caller EXCEPT ![t] = d] BY <1>1, <1>2 DEF TrustInv, TrustType, CallerRecords
<1>7. d \in CallerRecords /\ d.pc = "done" /\ d.id = i /\ d.report = entry[i].report
  BY <1>2, <1>5 DEF CallerRecords
<1> HIDE DEF d
<1>8. CallerSound(t, d, worker[t], defective, entry)
  BY <1>3, <1>5, <1>7
     DEF CallerSound, Linked, Covered, Measured, Fits, Working, Watching, Trust!Probing
<1> QED BY <1>1, <1>6, <1>7, <1>8, Callers, Moved

LEMMA ReturnStep ==
    ASSUME TrustInv, NEW t \in Threads, Trust!Return(t) PROVE TrustInv'
<1>1. /\ caller[t].pc = "done" /\ caller' = [caller EXCEPT ![t] = Trust!Idle]
      /\ UNCHANGED <<defective, entry, worker>>
  BY DEF Trust!Return
<1>2. worker[t] = Trust!NoWorker BY <1>1, Callers DEF CallerSound, Fits, Watching
<1>3. CallerSound(t, Trust!Idle, worker[t], defective, entry)
  BY <1>2, StartsTrusted
     DEF CallerSound, Linked, Covered, Measured, Fits, Working, Watching, Trust!Probing
<1> QED BY <1>1, <1>3, StartsTrusted, Callers, Moved

\* A prober that asks again is told from those that may wait.
LEMMA ReenterStep ==
    ASSUME TrustInv, NEW t \in Threads, Trust!Reenter(t) PROVE TrustInv'
<1> DEFINE c == caller[t]
<1>1. /\ c.pc \in {"native", "launch"} /\ UNCHANGED <<defective, entry, worker>>
      /\ caller' = [caller EXCEPT ![t].pc = IF Trust!Lookup(t, c.id) = "wait" THEN "wait" ELSE @]
  BY DEF Trust!Reenter
<1>2. c.id \in Devices /\ entry[c.id] = [owner |-> t, report |-> Nothing]
  BY <1>1, Callers DEF CallerSound, Linked, Trust!Probing
<1>3. entry[c.id] # Nothing BY <1>2, TrustAssumption DEF Trust!Entries
<1>4. Trust!Lookup(t, c.id) = "empty" BY <1>2, <1>3 DEF Trust!Lookup, Trust!Pending, Trust!Known
<1>5. caller' = [caller EXCEPT ![t] = caller[t]] BY <1>1, <1>4
   DEF TrustInv, TrustType, CallerRecords
<1> QED BY <1>1, <1>5, Callers, Moved


LEMMA NativeStep ==
    ASSUME TrustInv, NEW t \in Threads, Trust!Native(t) PROVE TrustInv'
<1> DEFINE c == caller[t]
<1>1. PICK first \in {"push", "tiler", "none"} :
         caller' = [caller EXCEPT
            ![t].pc = IF first = "none" THEN "publish" ELSE "launch",
            ![t].part = IF first = "none" THEN Nothing ELSE first,
            ![t].run = "before",
            ![t].excused = IF first = "push" THEN {}
                           ELSE IF first = "tiler" THEN {"push"} ELSE Trust!Parts]
  BY DEF Trust!Native
<1>2. c.pc = "native" /\ UNCHANGED <<defective, entry, worker>> BY DEF Trust!Native
<1> DEFINE d == [c EXCEPT !.pc = IF first = "none" THEN "publish" ELSE "launch",
                          !.part = IF first = "none" THEN Nothing ELSE first, !.run = "before",
                          !.excused = IF first = "push" THEN {}
                                      ELSE IF first = "tiler" THEN {"push"} ELSE Trust!Parts]
<1>3. c \in CallerRecords /\ CallerSound(t, c, worker[t], defective, entry) BY Callers
<1>4. caller' = [caller EXCEPT ![t] = d] BY <1>1, <1>3 DEF TrustInv, TrustType, CallerRecords
<1>5. /\ d \in CallerRecords /\ d.id = c.id /\ d.report = c.report /\ d.run = "before"
      /\ d.out = c.out /\ d.pc = (IF first = "none" THEN "publish" ELSE "launch")
      /\ d.part = (IF first = "none" THEN Nothing ELSE first)
      /\ d.excused = (IF first = "push" THEN {} ELSE IF first = "tiler" THEN {"push"} ELSE Trust!Parts)
  BY <1>3 DEF CallerRecords, Trust!Probing, Trust!Parts
<1> HIDE DEF d
<1>6. Linked(t, d, entry) /\ True(d.report, d.id, defective)
  BY <1>2, <1>3, <1>5 DEF CallerSound, Linked, Trust!Probing
<1>7. Covered(d) BY <1>5 DEF Covered, Working, Trust!Parts
<1>8. c.out = {} /\ worker[t] = Trust!NoWorker
  BY <1>2, <1>3 DEF CallerSound, Measured, Fits, Watching
<1>9. Measured(d, defective) /\ Fits(d, worker[t], defective)
  BY <1>5, <1>8 DEF Measured, Fits, Working, Watching, Trust!Parts
<1> QED BY <1>2, <1>4, <1>5, <1>6, <1>7, <1>9, Callers, Moved DEF CallerSound

LEMMA LaunchStep ==
    ASSUME TrustInv, NEW t \in Threads, Trust!Launch(t) PROVE TrustInv'
<1> DEFINE c == caller[t]
           d == [c EXCEPT !.pc = "loop"]
           w == [state |-> "setup", pipe |-> {}]
<1>1. c.pc = "launch" /\ UNCHANGED <<defective, entry>>
  BY DEF Trust!Launch
<1>2. /\ c \in CallerRecords /\ CallerSound(t, c, worker[t], defective, entry)
      /\ Ran(c, defective) /\ c.pc \in Trust!Probing
      /\ worker = [worker EXCEPT ![t] = worker[t]] /\ worker[t] = Trust!NoWorker
  BY <1>1, Callers, AtWork DEF Working, CallerSound, Fits, Watching
<1>3. CASE worker' = [worker EXCEPT ![t] = w] /\ caller' = [caller EXCEPT ![t].pc = "loop"]
  <2>1. caller' = [caller EXCEPT ![t] = d] BY <1>3
  <2>2. /\ d \in CallerRecords /\ d.pc = "loop" /\ d.id = c.id /\ d.report = c.report /\ d.run = c.run
        /\ d.out = c.out /\ d.part = c.part /\ d.excused = c.excused /\ d.subject = c.subject
    BY <1>2 DEF CallerRecords, Trust!Probing
  <2> HIDE DEF d
  <2>3. w \in WorkerRecords BY DEF WorkerRecords
  <2>4. Linked(t, d, entry) BY <1>1, <1>2, <2>2 DEF CallerSound, Linked, Trust!Probing
  <2>5. Covered(d) BY <1>1, <1>2, <2>2 DEF Covered, Ran, Working
  <2>6. Measured(d, defective) BY <1>1, <1>2, <2>2 DEF Measured, Ran, Working, Shows
  <2>7. Fits(d, w, defective) BY <1>1, <1>2, <2>2 DEF Fits, Ran, Measured, Working, Watching
  <2>8. CallerSound(t, d, w, defective, entry)
    BY <1>2, <2>2, <2>4, <2>5, <2>6, <2>7 DEF CallerSound, Ran
  <2> HIDE DEF w
  <2> QED BY <1>1, <1>3, <2>1, <2>2, <2>3, <2>8, Moved
<1>4. CASE caller' = [caller EXCEPT ![t] = Trust!Result(Trust!Excuse(@), "unavailable")] /\ UNCHANGED worker
  <2>1. caller' = [caller EXCEPT ![t] = Trust!Result(Trust!Excuse(c), "unavailable")] BY <1>4
  <2>2. worker' = [worker EXCEPT ![t] = Trust!NoWorker] BY <1>2, <1>4
  <2> QED BY <1>1, <1>2, <2>1, <2>2, Excused, Ended DEF Statuses
<1> QED BY <1>3, <1>4 DEF Trust!Launch


\* A prober that watches its worker, and what the worker has said so far.
LEMMA AtWatch ==
    ASSUME TrustInv, NEW t \in Threads, caller[t].pc \in Watching
    PROVE  /\ Ran(caller[t], defective) /\ caller[t].pc \in Trust!Probing
           /\ caller[t] \in CallerRecords /\ worker[t] \in WorkerRecords
           /\ CallerSound(t, caller[t], worker[t], defective, entry)
           /\ worker[t].state # "none"
BY AtWork, Callers DEF Watching, Working, CallerSound, Fits

\* A prober that goes on watching with the same words.
LEMMA Watches ==
    ASSUME NEW t, NEW c \in CallerRecords, NEW w \in WorkerRecords, NEW d \in CallerRecords,
           NEW v \in WorkerRecords, NEW def, NEW ent, CallerSound(t, c, w, def, ent),
           c.pc \in Watching, d.pc \in Watching, v.state = w.state,
           d.pc = "exited" => w.state \in Trust!Exited,
           d.out \cup v.pipe = c.out \cup w.pipe, d.id = c.id, d.part = c.part, d.run = c.run,
           d.subject = c.subject, d.report = c.report, d.excused = c.excused
    PROVE  CallerSound(t, d, v, def, ent)
<1>1. Linked(t, d, ent) BY DEF CallerSound, Linked, Watching, Trust!Probing
<1>2. True(d.report, d.id, def) BY DEF CallerSound, Watching
<1>3. Covered(d) BY DEF CallerSound, Covered, Watching, Working
<1>4. Measured(d, def) BY DEF CallerSound, Measured, Shows, Watching, Working
<1>5. Fits(d, v, def) BY DEF CallerSound, Fits
<1> QED BY <1>1, <1>2, <1>3, <1>4, <1>5 DEF CallerSound

LEMMA ReadStep ==
    ASSUME TrustInv, NEW t \in Threads, Trust!ReadOutput(t) PROVE TrustInv'
<1> DEFINE c == caller[t]
           w == worker[t]
           d == [c EXCEPT !.pc = "check", !.out = @ \cup w.pipe]
           v == [w EXCEPT !.pipe = {}]
<1>1. /\ c.pc = "loop" /\ UNCHANGED <<defective, entry>>
      /\ caller' = [caller EXCEPT ![t].pc = "check", ![t].out = @ \cup w.pipe]
      /\ worker' = [worker EXCEPT ![t].pipe = {}]
  BY DEF Trust!ReadOutput
<1>2. c \in CallerRecords /\ w \in WorkerRecords /\ CallerSound(t, c, w, defective, entry)
  BY Callers
<1>3. caller' = [caller EXCEPT ![t] = d] /\ worker' = [worker EXCEPT ![t] = v]
  BY <1>1, <1>2 DEF TrustInv, TrustType, CallerRecords
<1>4. /\ d \in CallerRecords /\ d.pc = "check" /\ d.out = c.out \cup w.pipe /\ d.id = c.id
      /\ d.part = c.part /\ d.run = c.run /\ d.subject = c.subject /\ d.report = c.report
      /\ d.excused = c.excused /\ v \in WorkerRecords /\ v.state = w.state /\ v.pipe = {}
  BY <1>2 DEF CallerRecords, WorkerRecords, Trust!Probing
<1> HIDE DEF d, v
<1>5. CallerSound(t, d, v, defective, entry) BY <1>1, <1>2, <1>4, Watches DEF Watching
<1> QED BY <1>1, <1>3, <1>4, <1>5, Moved

LEMMA CheckStep ==
    ASSUME TrustInv, NEW t \in Threads, Trust!CheckExit(t) PROVE TrustInv'
<1> DEFINE c == caller[t]
           w == worker[t]
           at == IF w.state \in Trust!Exited THEN "exited" ELSE "loop"
           d == [c EXCEPT !.pc = at]
<1>1. /\ c.pc = "check" /\ UNCHANGED <<defective, entry, worker>>
      /\ caller' = [caller EXCEPT ![t] = d]
  BY DEF Trust!CheckExit
<1>2. c \in CallerRecords /\ w \in WorkerRecords /\ CallerSound(t, c, w, defective, entry)
  BY Callers
<1>3. /\ d \in CallerRecords /\ d.pc \in {"exited", "loop"}
      /\ d.pc = "exited" => w.state \in Trust!Exited
      /\ d.out = c.out /\ d.id = c.id /\ d.part = c.part /\ d.run = c.run /\ d.subject = c.subject /\ d.report = c.report
      /\ d.excused = c.excused
  BY <1>2 DEF CallerRecords, Trust!Probing
<1> HIDE DEF d
<1>4. CallerSound(t, d, w, defective, entry) BY <1>1, <1>2, <1>3, Watches DEF Watching
<1> QED BY <1>1, <1>2, <1>3, <1>4, Callers, Moved

LEMMA GivesUpStep ==
    ASSUME TrustInv, NEW t \in Threads, Trust!Expire(t) \/ Trust!Unwaitable(t) PROVE TrustInv'
<1> DEFINE c == caller[t]
<1>1. c.pc \in Watching /\ worker' = [worker EXCEPT ![t] = Trust!NoWorker] /\ UNCHANGED <<defective, entry>>
  BY DEF Trust!Expire, Trust!Unwaitable, Watching
<1>2. \E status \in {"unavailable", "timedout"} :
         caller' = [caller EXCEPT ![t] = Trust!Result(Trust!Excuse(c), status)]
  BY DEF Trust!Expire, Trust!Unwaitable
<1>3. Ran(c, defective) /\ c.pc \in Trust!Probing BY <1>1, AtWatch
<1> QED BY <1>1, <1>2, <1>3, Excused, Ended DEF Statuses

\* The end of a worker and its words say what they should of the part.
LEMMA FinishStep ==
    ASSUME TrustInv, NEW t \in Threads, Trust!Finish(t) PROVE TrustInv'
<1> DEFINE c == caller[t]
           w == worker[t]
           words == c.out \cup w.pipe
           status == Trust!Classify(w.state, words)
<1>1. /\ c.pc = "exited" /\ UNCHANGED <<defective, entry>>
      /\ caller' = [caller EXCEPT ![t] = Trust!Result(c, status)]
      /\ worker' = [worker EXCEPT ![t] = Trust!NoWorker]
  BY DEF Trust!Finish
<1>2. /\ Ran(c, defective) /\ c.pc \in Trust!Probing /\ w \in WorkerRecords
      /\ Fits(c, w, defective) /\ w.state \in Trust!Exited
  BY <1>1, AtWatch DEF Watching, CallerSound, Fits
<1>3. /\ w.state = "exit0" => "pass" \in words /\ ~(c.run = "subject" /\ c.part \in defective[c.id])
      /\ w.state = "exit2" => c.part \in c.excused
      /\ w.state = "exit3" => /\ {"ready", "mismatch"} \subseteq words
                              /\ IF c.run = "subject" THEN c.part \in defective[c.id]
                                                      ELSE c.part \in c.excused
      /\ w.state = "signal" => IF "ready" \in words /\ c.run = "subject"
                               THEN c.part \in defective[c.id] ELSE c.part \in c.excused
  BY <1>1, <1>2 DEF Fits, Watching
<1> HIDE DEF words
<1>4. status \in Statuses BY DEF Trust!Classify, Statuses
<1>5. Says(c, status, defective)
  BY <1>2, <1>3 DEF Trust!Classify, Trust!Exited, Says, Shows
<1> HIDE DEF status
<1> QED BY <1>1, <1>2, <1>4, <1>5, Ended

\* A worker says something, or ends; its prober is excused when it fails.
LEMMA WorkerStep ==
    ASSUME TrustInv, NEW t \in Threads, Trust!Ready(t) \/ Trust!Measure(t) \/ Trust!Fail(t)
    PROVE  TrustInv'
<1> DEFINE c == caller[t]
           w == worker[t]
           bad == c.run = "subject" /\ c.part \in defective[c.id]
           Said(state, words) == worker' = [worker EXCEPT ![t] = [state |-> state, pipe |-> w.pipe \cup words]]
<1>1. /\ c \in CallerRecords /\ w \in WorkerRecords /\ CallerSound(t, c, w, defective, entry)
      /\ caller = [caller EXCEPT ![t] = c]
  BY Callers DEF TrustInv, TrustType
<1>2. w.state \in {"setup", "measuring"} /\ UNCHANGED <<defective, entry>>
  BY DEF Trust!Ready, Trust!Measure, Trust!Fail
<1>3. c.pc \in Watching /\ c.pc # "exited"
  BY <1>1, <1>2 DEF CallerSound, Fits, Trust!NoWorker, Trust!Exited
<1>4. Ran(c, defective) /\ Linked(t, c, entry) BY <1>1, <1>3, AtWatch DEF CallerSound
<1>5. /\ w.state = "setup" => c.out = {} /\ w.pipe = {}
      /\ w.state = "measuring" => c.out \cup w.pipe = {"ready"}
  BY <1>1, <1>3 DEF CallerSound, Fits
<1>6. CASE Trust!Ready(t) \/ Trust!Measure(t)
  <2>0. \/ w.state = "setup" /\ Said("measuring", {"ready"})
        \/ w.state = "measuring" /\ bad /\ (Said("exit3", {"mismatch"}) \/ Said("signal", {}))
        \/ w.state = "measuring" /\ ~bad /\ Said("exit0", {"pass"})
    BY <1>6 DEF Trust!Ready, Trust!Measure, Trust!Say, Trust!Bad, Trust!Subject
  <2> HIDE DEF Said, bad
  <2>1. PICK state \in {"measuring", "exit3", "signal", "exit0"}, said \in SUBSET Words :
           /\ Said(state, said)
           /\ state = "measuring" => w.state = "setup" /\ said = {"ready"}
           /\ state # "measuring" => w.state = "measuring"
           /\ state = "exit3" => bad /\ said = {"mismatch"}
           /\ state = "signal" => bad
           /\ state = "exit0" => ~bad /\ said = {"pass"}
    BY <2>0 DEF Words
  <2> DEFINE v == [state |-> state, pipe |-> w.pipe \cup said]
  <2>2. worker' = [worker EXCEPT ![t] = v] BY <2>1 DEF Said
  <2>3. v \in WorkerRecords /\ v.state = state /\ v.pipe = w.pipe \cup said
    BY <1>1 DEF WorkerRecords, Trust!Exited
  <2> HIDE DEF v
  <2>4. c.out \cup v.pipe = (c.out \cup w.pipe) \cup said BY <2>3
  <2>5. Fits(c, v, defective)
    BY <1>2, <1>3, <1>5, <2>1, <2>3, <2>4 DEF Fits, bad
  <2>6. CallerSound(t, c, v, defective, entry) BY <1>1, <2>5 DEF CallerSound
  <2>7. caller' = caller BY <1>6 DEF Trust!Ready, Trust!Measure
  <2> QED BY <1>1, <1>2, <2>2, <2>3, <2>6, <2>7, Moved
<1>7. CASE Trust!Fail(t)
  <2> DEFINE d == Trust!Excuse(c)
  <2>0. \/ w.state = "setup" /\ (Said("exit2", {}) \/ Said("signal", {}))
        \/ /\ w.state = "measuring"
           /\ \/ Said("exit2", {})
              \/ c.run # "subject" /\ (Said("exit3", {"mismatch"}) \/ Said("signal", {}))
    BY <1>7 DEF Trust!Fail, Trust!Say, Trust!Subject
  <2> HIDE DEF Said
  <2>1. PICK state \in {"exit2", "exit3", "signal"}, said \in SUBSET Words :
           /\ Said(state, said)
           /\ state = "exit3" => w.state = "measuring" /\ said = {"mismatch"} /\ c.run # "subject"
           /\ state = "signal" => said = {} /\ (w.state = "measuring" => c.run # "subject")
    BY <2>0 DEF Words
  <2> DEFINE v == [state |-> state, pipe |-> w.pipe \cup said]
  <2>2. worker' = [worker EXCEPT ![t] = v] BY <2>1 DEF Said
  <2>3. v \in WorkerRecords /\ v.state = state /\ v.pipe = w.pipe \cup said
    BY <1>1 DEF WorkerRecords, Trust!Exited
  <2>4. caller' = [caller EXCEPT ![t] = d] BY <1>7 DEF Trust!Fail
  <2>5. Ran(d, defective) /\ d.id = c.id BY <1>4, Excused
  <2>6. /\ d.pc = c.pc /\ d.part = c.part /\ d.run = c.run /\ d.out = c.out
        /\ d.report = c.report /\ d.excused = c.excused \cup {c.part}
    BY <1>1 DEF Trust!Excuse, CallerRecords
  <2> HIDE DEF d, v
  <2>7. c.out \cup v.pipe = (c.out \cup w.pipe) \cup said BY <2>3
  <2>8. Fits(d, v, defective)
    BY <1>2, <1>3, <1>5, <2>1, <2>3, <2>5, <2>6, <2>7 DEF Fits
  <2>9. Linked(t, d, entry) BY <1>4, <2>5, <2>6 DEF Linked
  <2>10. CallerSound(t, d, v, defective, entry) BY <2>5, <2>8, <2>9 DEF CallerSound, Ran
  <2> QED BY <1>2, <2>2, <2>3, <2>4, <2>5, <2>10, Moved DEF Ran
<1> QED BY <1>6, <1>7

-----------------------------------------------------------------------------
(* DriverTrust: the theorem.                                                *)

LEMMA TrustInit == Trust!Init => TrustInv
<1> SUFFICES ASSUME Trust!Init PROVE TrustInv OBVIOUS
<1>1. TrustType BY StartsTrusted DEF Trust!Init, TrustType
<1>2. Believed(defective, entry) BY DEF Trust!Init, Believed
<1>3. ASSUME NEW t \in Threads PROVE CallerSound(t, caller[t], worker[t], defective, entry)
  <2>1. caller[t] = Trust!Idle /\ worker[t] = Trust!NoWorker BY DEF Trust!Init
  <2> QED BY <2>1, StartsTrusted
     DEF CallerSound, Linked, Covered, Measured, Fits, Working, Watching, Trust!Probing
<1> QED BY <1>1, <1>2, <1>3 DEF TrustInv

LEMMA TrustStep == TrustInv /\ [Trust!Next]_(Trust!vars) => TrustInv'
<1> SUFFICES ASSUME TrustInv, [Trust!Next]_(Trust!vars) PROVE TrustInv' OBVIOUS
<1>1. ASSUME NEW t \in Threads, NEW i \in Devices, Trust!Ask(t, i) PROVE TrustInv' BY <1>1, AskStep
<1>2. ASSUME NEW t \in Threads, Trust!Reenter(t) PROVE TrustInv' BY <1>2, ReenterStep
<1>3. ASSUME NEW t \in Threads, Trust!Prober(t) PROVE TrustInv'
  BY <1>3, WaitStep, PublishStep, ReturnStep, NativeStep, LaunchStep, ReadStep, CheckStep, FinishStep
     DEF Trust!Prober
<1>4. ASSUME NEW t \in Threads, Trust!Expire(t) \/ Trust!Unwaitable(t) PROVE TrustInv'
  BY <1>4, GivesUpStep
<1>5. ASSUME NEW t \in Threads, Trust!Ready(t) \/ Trust!Measure(t) \/ Trust!Fail(t) PROVE TrustInv'
  BY <1>5, WorkerStep
<1>6. CASE UNCHANGED Trust!vars
  BY <1>6 DEF Trust!vars, TrustInv, TrustType
<1> QED BY <1>1, <1>2, <1>3, <1>4, <1>5, <1>6 DEF Trust!Next

\* One thread probes a device and never waits for itself; a report calls a
\* driver defective or healthy only if it is, and does not know only if some
\* part of the measurement failed; and who asked has the one report of the
\* device, or none (driver_trust.cpp, driver_trust_probe.cpp,
\* driver_probe_process.cpp), for any number of threads and devices, whatever
\* the workers do and whichever of them hang.
THEOREM TrustCorrect == Trust!Spec => []TrustSound
<1>1. TrustInv => TrustSound
  <2> SUFFICES ASSUME TrustInv, NEW t \in Threads
               PROVE  LET c == caller[t] IN
       /\ c.pc \in Trust!Probing => Trust!Pending(c.id) /\ entry[c.id].owner = t
       /\ c.pc = "wait" /\ Trust!Pending(c.id) => entry[c.id].owner # t
       /\ \A p \in Trust!Parts : c.pc \in {"publish", "done"} =>
             /\ c.report[p] = "repair" => p \in defective[c.id]
             /\ c.report[p] = "healthy" => p \notin defective[c.id]
             /\ c.pc = "publish" /\ c.report[p] = "inconclusive" => p \in c.excused
       /\ c.pc = "done" =>
             \/ c.report = Trust!Unmeasured
             \/ c.id \in Trust!Known /\ c.report = entry[c.id].report
    BY DEF TrustSound, Trust!TrustSound
  <2> DEFINE c == caller[t]
  <2>1. CallerSound(t, c, worker[t], defective, entry) BY Callers
  <2>2. c.pc # "idle" => c.id \in Devices BY <2>1 DEF CallerSound, Linked
  <2>3. c.pc \in Trust!Probing => Trust!Pending(c.id) /\ entry[c.id].owner = t
    BY <2>1, <2>2, TrustAssumption
       DEF CallerSound, Linked, Trust!Pending, Trust!Known, Trust!Entries, Trust!Probing
  <2>4. c.pc = "wait" /\ Trust!Pending(c.id) => entry[c.id].owner # t
    BY <2>1 DEF CallerSound, Linked, Trust!Pending
  <2>5. c.pc = "done" => \/ c.report = Trust!Unmeasured
                         \/ c.id \in Trust!Known /\ c.report = entry[c.id].report
    BY <2>1, <2>2 DEF CallerSound, Linked, Trust!Known
  <2>6. \A p \in Trust!Parts : c.pc \in {"publish", "done"} =>
           /\ c.report[p] = "repair" => p \in defective[c.id]
           /\ c.report[p] = "healthy" => p \notin defective[c.id]
           /\ c.pc = "publish" /\ c.report[p] = "inconclusive" => p \in c.excused
    BY <2>1 DEF CallerSound, True, Covered
  <2> QED BY <2>3, <2>4, <2>5, <2>6
<1> QED BY TrustInit, TrustStep, <1>1, PTL DEF Trust!Spec
=============================================================================
