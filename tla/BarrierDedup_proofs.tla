------------------------ MODULE BarrierDedup_proofs -------------------------
(***************************************************************************)
(* Theorems about BarrierDedup, for any command buffers, threads, barriers *)
(* and trackers: a dropped barrier is a duplicate.  Then about             *)
(* DispatchTables, which MCBarrierDedup instantiates: calls reach their    *)
(* own device.  Last about DrawEmulation, which it instantiates too: a     *)
(* draw shows what was asked for.                                          *)
(***************************************************************************)
EXTENDS MCBarrierDedup, Sequences, WellFoundedInduction, TLAPS

\* No two command buffers share a tracker, and the map holds live ones.
MapOwns ==
    /\ \A c, d \in CommandBuffers : map[c] # Null /\ map[c] = map[d] => c = d
    /\ \A c \in CommandBuffers : map[c] # Null => object[map[c]].valid

CacheNamed == \A t \in Threads : cache[t].tracker # Null => cache[t].cmd \in CommandBuffers

\* Who has the driver's pointers has switched the optimiser off.
HandedOff == handed => ~IsEnabled

\* While the optimiser is on, a tracker without an action has what was recorded.
Tracked ==
    \A c \in CommandBuffers :
       IsEnabled /\ map[c] # Null /\ phase[c] = "recording"
         /\ object[map[c]].hasLast /\ ~object[map[c]].hadAction
            => last[c] = object[map[c]].sig

Inv == TypeOK /\ CacheReachesMap /\ MapOwns /\ CacheNamed /\ HandedOff /\ Tracked

LEMMA NewOK == NewTracker \in Tracker /\ NewTracker.valid
BY GenerationsAssumption, SMT DEF NewTracker, Tracker

LEMMA InitInv == Init => Inv
<1> SUFFICES ASSUME Init PROVE Inv
  OBVIOUS
<1>1. object \in [Trackers -> Tracker] /\ \A x \in Trackers : object[x].valid
  BY NewOK, Zenon DEF Init
<1>2. cache \in [Threads -> [cmd : CommandBuffers \cup {Null}, tracker : Trackers \cup {Null},
                              generation : 0 .. Generations - 1]]
  BY GenerationsAssumption, SMT DEF Init, NoCache
<1>3. TypeOK
  BY <1>1, <1>2, Zenon DEF Init, TypeOK
<1>4. CacheReachesMap /\ CacheNamed
  BY SMT DEF Init, NoCache, CacheReachesMap, CacheNamed
<1>5. MapOwns /\ HandedOff /\ Tracked
  BY Zenon, NullAssumption DEF Init, MapOwns, HandedOff, Tracked
<1> QED BY <1>3, <1>4, <1>5 DEF Inv

\* What the code writes to a tracker leaves it one.
LEMMA TrackerOK ==
    ASSUME NEW k \in Tracker, NEW b \in Barriers
    PROVE  /\ [k EXCEPT !.hadAction = TRUE] \in Tracker
           /\ [k EXCEPT !.hadAction = TRUE].hadAction
           /\ [k EXCEPT !.hadAction = TRUE].valid = k.valid
           /\ [k EXCEPT !.sig = b, !.hasLast = TRUE, !.hadAction = FALSE] \in Tracker
           /\ [k EXCEPT !.sig = b, !.hasLast = TRUE, !.hadAction = FALSE].valid = k.valid
           /\ [k EXCEPT !.sig = b, !.hasLast = TRUE, !.hadAction = FALSE].sig = b
BY Zenon DEF Tracker

LEMMA MarkedOK ==
    ASSUME NEW k \in Tracker
    PROVE  /\ [k EXCEPT !.hadAction = TRUE] \in Tracker
           /\ [k EXCEPT !.hadAction = TRUE].hadAction
           /\ [k EXCEPT !.hadAction = TRUE].valid = k.valid
BY Zenon DEF Tracker

LEMMA ForgottenOK ==
    ASSUME NEW k \in Tracker
    PROVE  /\ [k EXCEPT !.hasLast = FALSE] \in Tracker
           /\ ~[k EXCEPT !.hasLast = FALSE].hasLast
           /\ [k EXCEPT !.hasLast = FALSE].valid = k.valid
BY Zenon DEF Tracker

LEMMA RetiredOK ==
    ASSUME NEW k \in Tracker
    PROVE  /\ [k EXCEPT !.hasLast = FALSE, !.valid = FALSE] \in Tracker
           /\ ~[k EXCEPT !.hasLast = FALSE, !.valid = FALSE].valid
BY Zenon DEF Tracker

LEMMA RestartedOK ==
    ASSUME NEW k \in Tracker
    PROVE  /\ Restarted(k) \in Tracker
           /\ ~Restarted(k).hasLast
           /\ Restarted(k).valid = k.valid
<1>1. (k.generation + 1) % Generations \in 0 .. Generations - 1
  BY GenerationsAssumption, SMT DEF Tracker
<1> QED BY <1>1, Zenon DEF Tracker, Restarted

\* One tracker of the map is written.
LEMMA WriteOK ==
    ASSUME Inv, NEW c \in CommandBuffers, map[c] # Null, NEW k \in Tracker,
           object' = [object EXCEPT ![map[c]] = k]
    PROVE  /\ map[c] \in Trackers
           /\ object[map[c]] \in Tracker
           /\ object' \in [Trackers -> Tracker]
           /\ \A y \in Trackers : y # map[c] => object'[y] = object[y]
           /\ object'[map[c]] = k
BY Zenon DEF Inv, TypeOK

LEMMA MapObject ==
    ASSUME Inv, NEW c \in CommandBuffers, map[c] # Null
    PROVE  map[c] \in Trackers /\ object[map[c]] \in Tracker
BY Zenon DEF Inv, TypeOK

\* A new tracker, or the one the map has.
LEMMA FoundOK ==
    ASSUME Inv, NEW c \in CommandBuffers, NEW x \in Trackers, Found(c, x)
    PROVE  /\ Contents(c, x) \in Tracker
           /\ Contents(c, x).valid
           /\ map[c] = Null => /\ x \in Unused
                               /\ Contents(c, x) = NewTracker
           /\ map[c] # Null => x = map[c] /\ Contents(c, x) = object[x]
           /\ \A d \in CommandBuffers : map[d] = x => d = c
<1>1. NewTracker \in Tracker /\ NewTracker.valid
  BY NewOK
<1>2. CASE map[c] = Null
  BY <1>1, <1>2, NullAssumption, Zenon DEF Found, Contents, Unused
<1>3. CASE map[c] # Null
  <2>1. x = map[c] /\ Contents(c, x) = object[x]
    BY <1>3, Zenon DEF Found, Contents
  <2> QED BY <1>3, <2>1, Zenon DEF Inv, TypeOK, MapOwns
<1> QED BY <1>2, <1>3

\* The conjuncts of Inv after the tracker of c is put at x with a content that
\* keeps it live: what a thread caches still is what the map has.
LEMMA PutOK ==
    ASSUME Inv, NEW c \in CommandBuffers, NEW x \in Trackers, Found(c, x),
           NEW k \in Tracker, k.valid, Put(c, x, k)
    PROVE  /\ object' \in [Trackers -> Tracker]
           /\ map' \in [CommandBuffers -> Trackers \cup {Null}]
           /\ object'[x] = k /\ map'[c] = x
           /\ \A d \in CommandBuffers : d # c => map'[d] = map[d] /\ map[d] # x
           /\ \A y \in Trackers : y # x => object'[y] = object[y]
           /\ MapOwns'
           /\ UNCHANGED cache => CacheReachesMap'
<1> USE NullAssumption, GenerationsAssumption
<1>1. /\ object' \in [Trackers -> Tracker]
      /\ map' \in [CommandBuffers -> Trackers \cup {Null}]
      /\ object'[x] = k /\ map'[c] = x
      /\ \A d \in CommandBuffers : d # c => map'[d] = map[d]
      /\ \A y \in Trackers : y # x => object'[y] = object[y]
  BY SMT DEF Put, Inv, TypeOK
<1>2. \A d \in CommandBuffers : map[d] = x => d = c
  BY FoundOK
<1>3. MapOwns'
  BY <1>1, <1>2, SMT DEF MapOwns, Inv, TypeOK
<1>4. ASSUME UNCHANGED cache, NEW t \in Threads, cache[t].tracker # Null, object'[cache[t].tracker].valid
      PROVE  map'[cache[t].cmd] = cache[t].tracker
  <2>1. cache[t].cmd \in CommandBuffers /\ cache[t].tracker \in Trackers
    BY <1>4, SMT DEF Inv, TypeOK, CacheNamed
  <2>2. CASE cache[t].tracker = x
    <3>1. /\ map[c] = Null => x \in Unused
          /\ map[c] # Null => x = map[c] /\ Contents(c, x) = object[x]
          /\ Contents(c, x).valid
      BY FoundOK
    <3>2. map[c] = x /\ object[x].valid
      BY <2>2, <3>1 DEF Unused
    <3>3. map[cache[t].cmd] = x
      BY <3>2, <2>2, <1>4 DEF Inv, CacheReachesMap
    <3> QED BY <3>3, <2>1, <2>2, <1>1, <1>2
  <2>3. CASE cache[t].tracker # x
    <3>1. map[cache[t].cmd] = cache[t].tracker
      BY <2>1, <2>3, <1>1, <1>4 DEF Inv, CacheReachesMap
    <3>2. CASE cache[t].cmd = c
      <4>1. map[c] # Null /\ map[c] # x
        BY <3>1, <3>2, <2>3, <1>4
      <4> QED BY <4>1, FoundOK
    <3> QED BY <3>1, <3>2, <2>1, <1>1
  <2> QED BY <2>2, <2>3
<1>5. UNCHANGED cache => CacheReachesMap'
  BY <1>4, Zenon DEF CacheReachesMap
<1> QED BY <1>1, <1>2, <1>3, <1>5

LEMMA ActionInv ==
    ASSUME Inv, NEW t \in Threads, NEW c \in CommandBuffers, CmdAction(t, c)
    PROVE  Inv'
<1> USE NullAssumption, GenerationsAssumption DEF CmdAction, Record
<1>0. /\ last' = [last EXCEPT ![c] = "action"] /\ UNCHANGED <<handed, phase>>
      /\ \A d \in CommandBuffers : d # c => last'[d] = last[d]
      /\ last' \in [CommandBuffers -> Barriers \cup {"begin", "action", "ordered"}]
  BY SMT DEF Inv, TypeOK
<1>1. CASE Ignored
  BY <1>0, <1>1, SMT DEF Ignored, switches, Inv, TypeOK, Tracker, CacheReachesMap, MapOwns,
     CacheNamed, HandedOff, Tracked, IsEnabled
<1>2. CASE ActionFast(t, c)
  <2>1. cache[t].tracker \in Trackers /\ cache[t].tracker = map[c] /\ map[c] # Null
    BY <1>2, SMT DEF ActionFast, Hit, Inv, CacheReachesMap, TypeOK
  <2>2. object' = [object EXCEPT ![map[c]].hadAction = TRUE] /\ UNCHANGED <<enabled, complete, map, cache>>
    BY <1>2, <2>1 DEF ActionFast, switches
  <2>3. /\ object' \in [Trackers -> Tracker]
        /\ \A y \in Trackers : object'[y].valid = object[y].valid
        /\ \A y \in Trackers : y # map[c] => object'[y] = object[y]
        /\ object'[map[c]].hadAction
    <3> DEFINE k == [object[map[c]] EXCEPT !.hadAction = TRUE]
    <3>1. k \in Tracker /\ k.hadAction /\ k.valid = object[map[c]].valid
      BY <2>1, MapObject, MarkedOK
    <3>2. object' = [object EXCEPT ![map[c]] = k]
      BY <2>2
    <3> HIDE DEF k
    <3>3. /\ object' \in [Trackers -> Tracker]
          /\ \A y \in Trackers : y # map[c] => object'[y] = object[y]
          /\ object'[map[c]] = k
      BY <2>1, <3>1, <3>2, WriteOK
    <3> QED BY <3>1, <3>3
  <2>4. TypeOK' /\ CacheReachesMap' /\ CacheNamed' /\ HandedOff'
    BY <2>2, <2>3, <1>0, SMT DEF Inv, TypeOK, CacheReachesMap, CacheNamed, HandedOff, IsEnabled
  <2>5. MapOwns' /\ Tracked'
    BY <2>1, <2>2, <2>3, <1>0, SMT DEF Inv, TypeOK, MapOwns, Tracked, IsEnabled
  <2> QED BY <2>4, <2>5 DEF Inv
<1>3. CASE ActionSlow(t, c)
  <2>1. PICK x \in Trackers :
          /\ Found(c, x)
          /\ Put(c, x, [Contents(c, x) EXCEPT !.hadAction = TRUE])
          /\ cache' = [cache EXCEPT ![t] =
                          [cmd |-> c, tracker |-> x, generation |-> Contents(c, x).generation]]
    BY <1>3 DEF ActionSlow
  <2> DEFINE k == [Contents(c, x) EXCEPT !.hadAction = TRUE]
  <2>2. Contents(c, x) \in Tracker /\ Contents(c, x).valid
    BY <2>1, FoundOK
  <2>3. k \in Tracker /\ k.valid /\ k.hadAction
    BY <2>2, MarkedOK
  <2> HIDE DEF k
  <2>4. Put(c, x, k)
    BY <2>1 DEF k
  <2>5. /\ object' \in [Trackers -> Tracker]
        /\ map' \in [CommandBuffers -> Trackers \cup {Null}]
        /\ object'[x] = k /\ map'[c] = x
        /\ \A d \in CommandBuffers : d # c => map'[d] = map[d] /\ map[d] # x
        /\ \A y \in Trackers : y # x => object'[y] = object[y]
        /\ MapOwns'
    BY <2>1, <2>3, <2>4, PutOK
  <2>6. /\ cache'[t] = [cmd |-> c, tracker |-> x, generation |-> Contents(c, x).generation]
        /\ \A u \in Threads : u # t => cache'[u] = cache[u]
        /\ cache' \in [Threads -> [cmd : CommandBuffers \cup {Null}, tracker : Trackers \cup {Null},
                              generation : 0 .. Generations - 1]]
    BY <2>1, <2>2, SMT DEF Inv, TypeOK, Tracker
  <2>7. TypeOK' /\ CacheNamed' /\ HandedOff'
    BY <2>5, <2>6, <1>0, <1>3, SMT
       DEF ActionSlow, switches, Inv, TypeOK, CacheNamed, HandedOff, IsEnabled
  <2>8. CacheReachesMap'
    <3>1. ASSUME NEW u \in Threads, u # t, cache[u].tracker # Null, object'[cache[u].tracker].valid
          PROVE  map'[cache[u].cmd] = cache[u].tracker
      <4>1. cache[u].cmd \in CommandBuffers /\ cache[u].tracker \in Trackers
        BY <3>1, SMT DEF Inv, TypeOK, CacheNamed
      <4>2. CASE cache[u].tracker = x
        <5>1. /\ map[c] = Null => x \in Unused
              /\ map[c] # Null => x = map[c] /\ Contents(c, x) = object[x]
          BY <2>1, FoundOK
        <5>2. map[c] = x /\ object[x].valid
          BY <5>1, <2>2, <3>1, <4>2 DEF Unused
        <5>3. map[cache[u].cmd] = x
          BY <5>2, <4>2, <3>1 DEF Inv, CacheReachesMap
        <5> QED BY <5>3, <4>1, <4>2, <2>5
      <4>3. CASE cache[u].tracker # x
        <5>1. map[cache[u].cmd] = cache[u].tracker
          BY <4>1, <4>3, <2>5, <3>1 DEF Inv, CacheReachesMap
        <5>2. cache[u].cmd # c
          BY <5>1, <4>3, <3>1, <2>1, FoundOK
        <5> QED BY <5>1, <5>2, <4>1, <2>5
      <4> QED BY <4>2, <4>3
    <3> QED BY <3>1, <2>5, <2>6, SMT DEF CacheReachesMap
  <2>9. Tracked'
    BY <2>3, <2>5, <1>0, <1>3, SMT DEF ActionSlow, switches, Inv, TypeOK, Tracked, IsEnabled
  <2> QED BY <2>5, <2>7, <2>8, <2>9 DEF Inv
<1>4. CASE ActionFails(t, c)
  <2>1. /\ \A u \in Threads : u # t => cache'[u] = cache[u]
        /\ cache'[t].tracker = Null
        /\ cache' \in [Threads -> [cmd : CommandBuffers \cup {Null}, tracker : Trackers \cup {Null},
                                  generation : 0 .. Generations - 1]]
    BY <1>4, SMT DEF ActionFails, Inv, TypeOK
  <2>2. TypeOK'
    BY <1>0, <1>4, <2>1, Zenon DEF ActionFails, Inv, TypeOK
  <2>3. CacheReachesMap' /\ CacheNamed'
    BY <1>0, <1>4, <2>1, SMT DEF ActionFails, Inv, CacheReachesMap, CacheNamed
  <2>4. MapOwns' /\ HandedOff' /\ Tracked'
    BY <1>4, Zenon DEF ActionFails, Inv, MapOwns, HandedOff, Tracked, IsEnabled
  <2> QED BY <2>2, <2>3, <2>4 DEF Inv
<1> QED BY <1>1, <1>2, <1>3, <1>4

\* A content that forgets the last barrier disturbs nothing.
LEMMA ForgetInv ==
    ASSUME Inv, NEW c \in CommandBuffers, Forget(c)
    PROVE  /\ object' \in [Trackers -> Tracker]
           /\ \A y \in Trackers : object'[y].valid = object[y].valid
           /\ \A y \in Trackers : y # map[c] => object'[y] = object[y]
           /\ map[c] # Null => ~object'[map[c]].hasLast
           /\ map' = map
<1>1. CASE map[c] = Null
  BY <1>1, Zenon DEF Forget, Inv, TypeOK
<1>2. CASE map[c] # Null
  <2> DEFINE k == [object[map[c]] EXCEPT !.hasLast = FALSE]
  <2>1. k \in Tracker /\ ~k.hasLast /\ k.valid = object[map[c]].valid
    BY <1>2, MapObject, ForgottenOK
  <2>2. object' = [object EXCEPT ![map[c]] = k] /\ map' = map
    BY <1>2 DEF Forget
  <2> HIDE DEF k
  <2> QED BY <1>2, <2>1, <2>2, WriteOK
<1> QED BY <1>1, <1>2

LEMMA BarrierInv ==
    ASSUME Inv, NEW c \in CommandBuffers, NEW b \in Barriers, Barrier(c, b)
    PROVE  Inv' /\ (last' = last => last[c] = b)
<1> USE NullAssumption, GenerationsAssumption
<1>0. UNCHANGED <<enabled, complete, cache, handed, phase>>
  BY DEF Barrier, switches
<1>1. CASE IsEnabled /\ RetainBarrier(c, b)
  <2>1. PICK x \in Trackers :
          /\ Found(c, x)
          /\ Put(c, x, [Contents(c, x) EXCEPT !.sig = b, !.hasLast = TRUE, !.hadAction = FALSE])
          /\ IF Duplicate(Contents(c, x), b) THEN UNCHANGED last ELSE last' = [last EXCEPT ![c] = b]
    BY <1>1 DEF RetainBarrier
  <2> DEFINE k == [Contents(c, x) EXCEPT !.sig = b, !.hasLast = TRUE, !.hadAction = FALSE]
  <2>2. Contents(c, x) \in Tracker /\ Contents(c, x).valid
    BY <2>1, FoundOK
  <2>3. k \in Tracker /\ k.valid /\ k.sig = b
    BY <2>2, TrackerOK
  <2> HIDE DEF k
  <2>4. Put(c, x, k)
    BY <2>1 DEF k
  <2>5. /\ object' \in [Trackers -> Tracker]
        /\ map' \in [CommandBuffers -> Trackers \cup {Null}]
        /\ object'[x] = k /\ map'[c] = x
        /\ \A d \in CommandBuffers : d # c => map'[d] = map[d] /\ map[d] # x
        /\ \A y \in Trackers : y # x => object'[y] = object[y]
        /\ MapOwns'
        /\ CacheReachesMap'
    BY <1>0, <2>1, <2>3, <2>4, PutOK
  <2>6. Duplicate(Contents(c, x), b) => last[c] = b
    <3>1. SUFFICES ASSUME Duplicate(Contents(c, x), b) PROVE last[c] = b
      OBVIOUS
    <3>2. Contents(c, x) # NewTracker
      BY <3>1 DEF Duplicate, NewTracker
    <3>3. map[c] # Null /\ Contents(c, x) = object[map[c]]
      BY <3>2, <2>1, FoundOK
    <3> QED BY <3>1, <3>3, <1>1 DEF Duplicate, Inv, Tracked, Barrier
  <2>7. /\ last'[c] = b
        /\ \A d \in CommandBuffers : d # c => last'[d] = last[d]
        /\ last' \in [CommandBuffers -> Barriers \cup {"begin", "action", "ordered"}]
    BY <2>1, <2>6, SMT DEF Inv, TypeOK
  <2>8. TypeOK' /\ CacheNamed' /\ HandedOff'
    BY <2>5, <2>7, <1>0, Zenon DEF Inv, TypeOK, CacheNamed, HandedOff, IsEnabled
  <2>9. Tracked'
    BY <2>3, <2>5, <2>7, <1>0, SMT DEF Inv, TypeOK, Tracked, IsEnabled
  <2> QED BY <2>5, <2>6, <2>7, <2>8, <2>9 DEF Inv
<1>2. CASE IsEnabled /\ Forget(c) /\ last' = [last EXCEPT ![c] = b]
  <2>1. /\ object' \in [Trackers -> Tracker]
        /\ \A y \in Trackers : object'[y].valid = object[y].valid
        /\ \A y \in Trackers : y # map[c] => object'[y] = object[y]
        /\ map[c] # Null => ~object'[map[c]].hasLast
        /\ map' = map
    BY <1>2, ForgetInv
  <2> QED
    BY <1>0, <1>2, <2>1, SMT DEF Inv, TypeOK, CacheReachesMap, MapOwns, CacheNamed, HandedOff,
       Tracked, IsEnabled
<1>3. CASE ~IsEnabled /\ last' = [last EXCEPT ![c] = b] /\ UNCHANGED <<object, map>>
  BY <1>0, <1>3, SMT DEF Inv, TypeOK, Tracker, CacheReachesMap, MapOwns, CacheNamed, HandedOff,
     Tracked, IsEnabled
<1> QED BY <1>1, <1>2, <1>3 DEF Barrier

LEMMA OrderedInv ==
    ASSUME Inv, NEW c \in CommandBuffers, OrderedBarrier(c)
    PROVE  Inv'
<1> USE NullAssumption, GenerationsAssumption
<1>0. UNCHANGED <<enabled, complete, cache, handed, phase>> /\ last' = [last EXCEPT ![c] = "ordered"]
  BY DEF OrderedBarrier, Record, switches
<1>1. CASE IsEnabled /\ Forget(c)
  <2>1. /\ object' \in [Trackers -> Tracker]
        /\ \A y \in Trackers : object'[y].valid = object[y].valid
        /\ \A y \in Trackers : y # map[c] => object'[y] = object[y]
        /\ map[c] # Null => ~object'[map[c]].hasLast
        /\ map' = map
    BY <1>1, ForgetInv
  <2> QED
    BY <1>0, <2>1, SMT DEF Inv, TypeOK, CacheReachesMap, MapOwns, CacheNamed, HandedOff,
       Tracked, IsEnabled
<1>2. CASE ~IsEnabled /\ UNCHANGED <<object, map>>
  BY <1>0, <1>2, SMT DEF Inv, TypeOK, Tracker, CacheReachesMap, MapOwns, CacheNamed, HandedOff,
     Tracked, IsEnabled
<1> QED BY <1>1, <1>2 DEF OrderedBarrier

LEMMA LifeInv ==
    ASSUME Inv, NEW c \in CommandBuffers, Life(c)
    PROVE  Inv'
<1> USE NullAssumption, GenerationsAssumption
<1>0. /\ UNCHANGED <<enabled, complete, cache, handed>>
      /\ last' = [last EXCEPT ![c] = "begin"]
      /\ phase' \in [CommandBuffers -> {"none", "initial", "recording"}]
      /\ \A d \in CommandBuffers : d # c => phase'[d] = phase[d] /\ last'[d] = last[d]
      /\ phase'[c] = "recording" => Restart(c)
  BY SMT DEF Life, Begin, Reset, ResetNatively, DestroyNatively, Allocate, Free, Enter, Restart,
     ForgetTracker, switches, Inv, TypeOK
<1>1. CASE Restart(c)
  <2>1. /\ object' \in [Trackers -> Tracker]
        /\ \A y \in Trackers : object'[y].valid = object[y].valid
        /\ \A y \in Trackers : y # map[c] => object'[y] = object[y]
        /\ map[c] # Null => ~object'[map[c]].hasLast
        /\ map' = map
    <3>1. CASE map[c] = Null
      BY <1>1, <3>1, Zenon DEF Restart, Inv, TypeOK
    <3>2. CASE map[c] # Null
      <4> DEFINE k == Restarted(object[map[c]])
      <4>1. k \in Tracker /\ ~k.hasLast /\ k.valid = object[map[c]].valid
        BY <3>2, MapObject, RestartedOK
      <4>2. object' = [object EXCEPT ![map[c]] = k] /\ map' = map
        BY <1>1, <3>2 DEF Restart
      <4> HIDE DEF k
      <4> QED BY <3>2, <4>1, <4>2, WriteOK
    <3> QED BY <3>1, <3>2
  <2>2. TypeOK'
    BY <1>0, <2>1, Zenon DEF Inv, TypeOK
  <2>3. CacheReachesMap' /\ MapOwns' /\ CacheNamed' /\ HandedOff'
    BY <1>0, <2>1, SMT DEF Inv, TypeOK, CacheReachesMap, MapOwns, CacheNamed, HandedOff, IsEnabled
  <2>4. Tracked'
    BY <1>0, <2>1, SMT DEF Inv, TypeOK, MapOwns, Tracked, IsEnabled
  <2> QED BY <2>2, <2>3, <2>4 DEF Inv
<1>2. CASE ForgetTracker(c) /\ phase'[c] # "recording"
  <2>1. /\ object' \in [Trackers -> Tracker]
        /\ \A y \in Trackers : y # map[c] => object'[y] = object[y]
        /\ map[c] # Null => ~object'[map[c]].valid
        /\ map' = [map EXCEPT ![c] = Null]
    <3>1. CASE map[c] = Null
      BY <1>2, <3>1, Zenon DEF ForgetTracker, Inv, TypeOK
    <3>2. CASE map[c] # Null
      <4> DEFINE k == [object[map[c]] EXCEPT !.hasLast = FALSE, !.valid = FALSE]
      <4>1. k \in Tracker /\ ~k.valid
        BY <3>2, MapObject, RetiredOK
      <4>2. object' = [object EXCEPT ![map[c]] = k] /\ map' = [map EXCEPT ![c] = Null]
        BY <1>2, <3>2 DEF ForgetTracker
      <4> HIDE DEF k
      <4> QED BY <3>2, <4>1, <4>2, WriteOK
    <3> QED BY <3>1, <3>2
  <2>4. TypeOK'
    BY <1>0, <2>1, SMT DEF Inv, TypeOK
  <2>5. CacheNamed' /\ HandedOff' /\ MapOwns'
    BY <1>0, <2>1, SMT DEF Inv, TypeOK, MapOwns, CacheNamed, HandedOff, IsEnabled
  <2>6. Tracked'
    BY <1>0, <1>2, <2>1, SMT DEF Inv, TypeOK, MapOwns, Tracked, IsEnabled
  <2>2. TypeOK' /\ CacheNamed' /\ HandedOff' /\ MapOwns' /\ Tracked'
    BY <2>4, <2>5, <2>6
  <2>3. CacheReachesMap'
    BY <1>0, <2>1, SMT DEF Inv, TypeOK, CacheReachesMap, CacheNamed
  <2> QED BY <2>2, <2>3 DEF Inv
<1>3. CASE UNCHANGED <<object, map>> /\ phase'[c] # "recording"
  <2>1. TypeOK'
    BY <1>0, <1>3, SMT DEF Inv, TypeOK
  <2>2. CacheReachesMap' /\ MapOwns' /\ CacheNamed' /\ HandedOff'
    BY <1>0, <1>3, SMT DEF Inv, CacheReachesMap, MapOwns, CacheNamed, HandedOff, IsEnabled
  <2>3. Tracked'
    BY <1>0, <1>3, SMT DEF Inv, Tracked, IsEnabled
  <2> QED BY <2>1, <2>2, <2>3 DEF Inv
<1>4. Restart(c) \/ ForgetTracker(c) \/ UNCHANGED <<object, map>>
  BY DEF Life, Begin, Reset, ResetNatively, DestroyNatively, Allocate, Free
<1> QED BY <1>0, <1>1, <1>2, <1>3, <1>4

LEMMA NextInv == Inv /\ [Next]_vars => Inv'
<1> USE GenerationsAssumption
<1> SUFFICES ASSUME Inv, [Next]_vars PROVE Inv'
  OBVIOUS
<1>1. CASE LookUp
  <2>1. UNCHANGED <<enabled, object, map, cache, phase, last>> /\ complete' \in BOOLEAN /\ ~IsEnabled'
    BY <1>1, Zenon DEF LookUp, IsEnabled, Inv, TypeOK
  <2>2. TypeOK'
    BY <1>1, <2>1, Zenon DEF LookUp, Inv, TypeOK
  <2> QED BY <2>1, <2>2, Zenon DEF Inv, CacheReachesMap, MapOwns, CacheNamed, HandedOff, Tracked
<1>2. ASSUME NEW c \in CommandBuffers, NativeAction(c) PROVE Inv'
  BY <1>2, SMT DEF NativeAction, Record, switches, Inv, TypeOK, Tracker, CacheReachesMap, MapOwns,
     CacheNamed, HandedOff, Tracked, IsEnabled
<1>3. CASE UNCHANGED vars
  BY <1>3, SMT DEF vars, Inv, TypeOK, Tracker, CacheReachesMap, MapOwns, CacheNamed, HandedOff,
     Tracked, IsEnabled
<1> QED BY <1>1, <1>2, <1>3, ActionInv, BarrierInv, OrderedInv, LifeInv DEF Next, BarrierCall

\* Every variable of the optimiser stays in its type.
THEOREM TypeCorrect == Spec => []TypeOK
<1>1. Inv => TypeOK
  BY DEF Inv
<1> QED BY <1>1, InitInv, NextInv, PTL DEF Spec

\* The thread_local shortcut marks the tracker the next barrier reads.
THEOREM CacheCorrect == Spec => []CacheReachesMap
<1>1. Inv => CacheReachesMap
  BY DEF Inv
<1> QED BY <1>1, InitInv, NextInv, PTL DEF Spec

\* retain_barrier drops only what repeats the end of the recording.
THEOREM DropsCorrect == Spec => DropsOnlyDuplicates
<1>1. Inv /\ [Next]_vars => [\A c \in CommandBuffers, b \in Barriers :
                                Barrier(c, b) /\ last' = last => last[c] = b]_vars
  BY BarrierInv
<1> QED BY <1>1, InitInv, NextInv, PTL DEF Spec, DropsOnlyDuplicates

-----------------------------------------------------------------------------
(* DispatchTables: the invariant.                                           *)

Handles == Devices \cup {Null}
RegularKinds == {"draw", "submit", "allocate", "queue", "free", "pool", "reset"}
CallKinds == RegularKinds \cup {"create", "destroy"}
Steps ==
    {"device", "find", "lookup", "slow", "native", "allocate", "queue", "record", "free",
     "announce", "load", "flags", "info", "noflags", "notable", "norecords", "forget", "destroy",
     "single", "generation"}
CallRecords ==
    [pc : Steps, kind : CallKinds, on : Devices, object : Routes!Objects \cup {Null},
     device : Handles, next : Steps \cup {"idle"}, bump : BOOLEAN, generation : Nat, table : Nat,
     bypass : BOOLEAN]
CacheRecords == [device : Handles, generation : Nat, table : Nat]

RoutesType ==
    /\ live \in [Devices -> Nat] /\ created \in Nat
    /\ owner \in [Routes!Objects -> Handles]
    /\ tables \in [Devices -> Nat] /\ flags \in [Devices -> Nat] /\ info \in [Devices -> Nat]
    /\ writer \in Threads \cup {Null} /\ generation \in Nat \ {0}
    /\ single \in Handles /\ bypass \in BOOLEAN
    /\ device \in [Routes!Objects -> Handles] /\ lastDevice \in Handles
    /\ emulated \in SUBSET Devices /\ context \in SUBSET Devices
    /\ tableCache \in [Threads -> CacheRecords]
    /\ thread \in [Threads -> CallRecords \cup {Routes!Idle}]

Busy(t) == thread[t].pc # "idle"
Wrote(c) == c.pc \in {"single", "generation"}

\* What steps a call of each kind takes.
Staged(c) ==
    \/ c.kind \in {"draw", "submit"} /\ c.pc \in {"device", "find", "lookup", "slow", "native"}
    \/ c.kind = "reset" /\ c.pc \in {"lookup", "slow", "native"}
    \/ c.kind \in {"allocate", "queue"} /\ c.pc \in {"lookup", "slow", c.kind, "record"}
    \/ c.kind = "free" /\ c.pc \in {"lookup", "slow", "free"}
    \/ c.kind = "pool" /\ c.pc = "free"
    \/ /\ c.kind = "create"
       /\ \/ c.pc \in {"announce", "load", "flags", "info"}
          \/ Wrote(c) /\ c.next = "flags" /\ c.bump
          \/ c.pc = "single" /\ c.next = "info" /\ ~c.bump
    \/ /\ c.kind = "destroy"
       /\ \/ c.pc \in {"noflags", "notable", "norecords", "lookup", "slow", "forget", "destroy"}
          \/ Wrote(c) /\ c.next \in {"norecords", "slow"} /\ c.bump
          \/ c.pc = "single" /\ c.next = "notable" /\ ~c.bump

\* The object of a call is of the device of the call, once there is one.
Holds(c) ==
    /\ c.kind \in {"draw", "free"} => c.object \in Commands /\ owner[c.object] = c.on
    /\ c.kind = "submit" => c.object \in Queues /\ owner[c.object] = c.on
    /\ c.kind = "allocate" => c.object \in Commands \cup {Null}
    /\ c.kind = "queue" => c.object \in Queues \cup {Null}
    /\ c.pc = "record" => c.object # Null /\ owner[c.object] = c.on
    /\ c.kind \in {"allocate", "queue"} /\ c.pc # "record" => c.object = Null
    /\ c.kind = "pool" => c.object = Null

\* What it has found, and read before.
Finds(c) ==
    /\ live[c.on] # 0 /\ (c.pc # "find" => c.device = c.on)
    /\ c.bypass => live[c.on] \notin Emulated
    /\ c.generation <= generation
    /\ c.pc \in {"native", "allocate", "queue"} \/ (c.pc = "free" /\ c.kind = "free") =>
           c.table = live[c.on]

\* A handle of which the layer knows nothing but a table.
Bare(d) ==
    /\ d \notin emulated /\ lastDevice # d /\ flags[d] = 0 /\ info[d] = 0
    /\ \A o \in Routes!Objects : device[o] # d
Unowned(d) == \A o \in Routes!Objects : owner[o] # d
Told(d) == single \in {Null, d}

\* How far the records of a device have come, or gone.
Making(c) ==
    c.kind = "create" =>
        /\ Unowned(c.on)
        /\ IF c.pc = "announce" THEN Bare(c.on) ELSE c.on \in emulated
        /\ c.pc \notin {"announce", "load"} => tables[c.on] = live[c.on]
        /\ c.pc \notin {"announce", "load"} /\ ~(c.pc = "single" /\ c.bump) => Told(c.on)
        /\ c.pc = "info" \/ (c.pc = "single" /\ ~c.bump) => flags[c.on] = live[c.on]
Forgot(c) == c.pc \in {"lookup", "slow", "forget", "destroy"} \/ (Wrote(c) /\ c.next = "slow")
Unmaking(c) ==
    c.kind = "destroy" =>
        /\ c.pc # "noflags" => flags[c.on] = 0
        /\ Forgot(c) => lastDevice # c.on /\ \A o \in Routes!Objects : device[o] # c.on
        /\ c.pc = "destroy" => c.on \notin emulated /\ info[c.on] = 0

CallSound(t) ==
    Busy(t) => LET c == thread[t] IN Staged(c) /\ Holds(c) /\ Finds(c) /\ Making(c) /\ Unmaking(c)

\* Who may use a device at a time.
Together(c, e) ==
    c.on = e.on =>
        /\ c.kind \in RegularKinds
        /\ ~(c.kind \in Routes!PoolCalls /\ e.kind \in Routes!PoolCalls)
        /\ ~(c.kind \in Routes!QueueCalls /\ e.kind \in Routes!QueueCalls)
Separated == \A t, u \in Threads : t # u /\ Busy(t) /\ Busy(u) => Together(thread[t], thread[u])

DeviceSound(d) ==
    /\ live[d] = 0 => Bare(d) /\ Unowned(d)
    /\ Routes!Returned(d) =>
           d \in emulated /\ tables[d] = live[d] /\ flags[d] = live[d] /\ info[d] = live[d] /\ Told(d)

\* Who may have taken the record of an object, or owes it.
Excuses(c, o) ==
    /\ c.on = owner[o]
    /\ \/ c.kind \in {"allocate", "queue", "free"} /\ c.object = o
       \/ c.kind = "pool" /\ o \in Commands
       \/ c.kind = "destroy"
ObjectSound(o) ==
    owner[o] # Null =>
        device[o] = owner[o] \/ \E t \in Threads : Busy(t) /\ Excuses(thread[t], o)

\* The table of a device changes before the generation does.
Changing(d) == writer # Null /\ thread[writer].bump /\ thread[writer].on = d
CacheSound(k) ==
    /\ k.generation <= generation
    /\ k.generation = generation /\ k.device # Null =>
           k.table = tables[k.device] \/ Changing(k.device)

Locked == \A t \in Threads : Wrote(thread[t]) <=> writer = t

RoutesInv ==
    /\ RoutesType
    /\ Separated
    /\ Locked
    /\ primary \in emulated \cup {Null}
    /\ bypass = Routes!Bypass(tables, flags)
    /\ \A t \in Threads : CallSound(t)
    /\ \A d \in Devices : DeviceSound(d)
    /\ \A o \in Routes!Objects : ObjectSound(o)
    /\ \A t \in Threads : CacheSound(tableCache[t])

LEMMA BusyCall ==
    ASSUME RoutesType, NEW t \in Threads, Busy(t)
    PROVE  thread[t] \in CallRecords
<1>1. thread[t] \in CallRecords \cup {Routes!Idle}
  BY DEF RoutesType
<1>2. Routes!Idle.pc = "idle"
  BY DEF Routes!Idle
<1> QED BY <1>1, <1>2 DEF Busy

LEMMA IdleCall ==
    ASSUME RoutesType, NEW t \in Threads, ~Busy(t)
    PROVE  thread[t] = Routes!Idle
<1>1. thread[t] \in CallRecords \cup {Routes!Idle}
  BY DEF RoutesType
<1>2. \A c \in CallRecords : c.pc # "idle"
  BY SMT DEF CallRecords, Steps
<1> QED BY <1>1, <1>2 DEF Busy

LEMMA OneHeld ==
    ASSUME NEW T \in [Devices -> Nat]
    PROVE  /\ Routes!Single(T) \in Handles
           /\ Routes!Single(T) # Null => T[Routes!Single(T)] # 0
           /\ \A d \in Devices : T[d] # 0 => Routes!Single(T) \in {Null, d}
<1> DEFINE H == {d \in Devices : T[d] # 0}
<1>1. CASE \E d \in H : H = {d}
  <2>1. PICK d \in H : H = {d}
    BY <1>1
  <2>2. Routes!Single(T) = CHOOSE e \in H : TRUE
    BY <1>1 DEF Routes!Single
  <2> QED BY <2>1, <2>2 DEF Handles
<1>2. CASE ~\E d \in H : H = {d}
  BY <1>2 DEF Routes!Single, Handles
<1> QED BY <1>1, <1>2

LEMMA RoutesInit == Routes!Init => RoutesInv
<1> SUFFICES ASSUME Routes!Init PROVE RoutesInv
  OBVIOUS
<1>1. RoutesType
  <2>1. /\ live \in [Devices -> Nat] /\ created \in Nat
        /\ tables \in [Devices -> Nat] /\ flags \in [Devices -> Nat] /\ info \in [Devices -> Nat]
        /\ generation \in Nat \ {0}
    BY SMT DEF Routes!Init
  <2>4. /\ owner \in [Routes!Objects -> Handles]
        /\ device \in [Routes!Objects -> Handles]
    BY Zenon DEF Routes!Init, Handles
  <2>5. /\ writer \in Threads \cup {Null}
        /\ single \in Handles /\ bypass \in BOOLEAN /\ lastDevice \in Handles
        /\ emulated \in SUBSET Devices /\ context \in SUBSET Devices
    BY Zenon DEF Routes!Init, Handles
  <2>3. thread \in [Threads -> CallRecords \cup {Routes!Idle}]
    BY Zenon DEF Routes!Init
  <2>2. tableCache \in [Threads -> CacheRecords]
    BY DEF Routes!Init, Handles, CacheRecords
  <2> QED BY <2>1, <2>2, <2>3, <2>4, <2>5 DEF RoutesType
<1>2. \A t \in Threads : thread[t].pc = "idle"
  BY DEF Routes!Init, Routes!Idle
<1>3. Separated /\ Locked /\ \A t \in Threads : CallSound(t)
  BY <1>2, RoutesAssumption DEF Routes!Init, Separated, Locked, Wrote, Busy, CallSound
<1>4. primary \in emulated \cup {Null} /\ bypass = Routes!Bypass(tables, flags)
  <2>1. tables \in [Devices -> Nat] /\ \A d \in Devices : tables[d] = 0
    BY DEF Routes!Init
  <2>2. Routes!Single(tables) = Null
    BY <2>1, OneHeld DEF Handles
  <2> QED BY <2>2 DEF Routes!Init, Routes!Bypass
<1>5. \A d \in Devices : DeviceSound(d)
  BY RoutesAssumption DEF Routes!Init, DeviceSound, Bare, Unowned, Routes!Returned
<1>6. \A o \in Routes!Objects : ObjectSound(o)
  BY DEF Routes!Init, ObjectSound
<1>7. \A t \in Threads : CacheSound(tableCache[t])
  BY DEF Routes!Init, CacheSound
<1> QED BY <1>1, <1>3, <1>4, <1>5, <1>6, <1>7 DEF RoutesInv


-----------------------------------------------------------------------------
(* DispatchTables: what a step of a call leaves as it was.                  *)

\* A call goes on, on the same device.
LEMMA GoesOn ==
    ASSUME RoutesType, Separated, NEW t \in Threads, Busy(t), NEW r \in CallRecords,
           thread' = [thread EXCEPT ![t] = r], r.kind = thread[t].kind, r.on = thread[t].on
    PROVE  /\ thread' \in [Threads -> CallRecords \cup {Routes!Idle}]
           /\ thread'[t] = r /\ \A u \in Threads : u # t => thread'[u] = thread[u]
           /\ Busy(t)' /\ \A u \in Threads : Busy(u)' <=> Busy(u)
           /\ \A u \in Threads : thread'[u].pc = "idle" <=> thread[u].pc = "idle"
           /\ \A u \in Threads : Busy(u) =>
                  thread'[u].kind = thread[u].kind /\ thread'[u].on = thread[u].on
           /\ Separated'
           /\ \A d \in Devices : live'[d] = live[d] => (Routes!Returned(d)' <=> Routes!Returned(d))
<1>1. thread \in [Threads -> CallRecords \cup {Routes!Idle}]
  BY DEF RoutesType
<1>2. /\ thread' \in [Threads -> CallRecords \cup {Routes!Idle}]
      /\ thread'[t] = r /\ \A u \in Threads : u # t => thread'[u] = thread[u]
  BY <1>1
<1>3. r.pc # "idle"
  BY SMT DEF CallRecords, Steps
<1>4. /\ Busy(t)' /\ \A u \in Threads : Busy(u)' <=> Busy(u)
      /\ \A u \in Threads : thread'[u].pc = "idle" <=> thread[u].pc = "idle"
  BY <1>2, <1>3 DEF Busy
<1>5. \A u \in Threads : Busy(u) =>
          thread'[u].kind = thread[u].kind /\ thread'[u].on = thread[u].on
  BY <1>2
<1>6. Separated'
  BY <1>4, <1>5, Zenon DEF Separated, Together
<1>7. ASSUME NEW d \in Devices, live'[d] = live[d]
      PROVE  Routes!Returned(d)' <=> Routes!Returned(d)
  <2>1. \A u \in Threads : u \in Routes!Using(d)' <=> u \in Routes!Using(d)
    BY <1>4, <1>5, Zenon DEF Routes!Using, Routes!At, Busy
  <2>2. Routes!Using(d)' = Routes!Using(d) /\ Routes!Using(d) \subseteq Threads
    BY <2>1, Zenon DEF Routes!Using
  <2>3. \A u \in Routes!Using(d) : thread'[u].kind = thread[u].kind
    BY <1>5, Zenon DEF Routes!Using, Routes!At, Busy
  <2> QED BY <2>2, <2>3, <1>7, Zenon DEF Routes!Returned
<1> QED BY <1>2, <1>4, <1>5, <1>6, <1>7

\* A device that is used as usual has been created and is not destroyed yet.
LEMMA UsedReturned ==
    ASSUME RoutesType, Separated, NEW t \in Threads, Busy(t), CallSound(t),
           thread[t].kind \in RegularKinds
    PROVE  Routes!Returned(thread[t].on)
<1> DEFINE d == thread[t].on
<1>1. thread[t] \in CallRecords /\ live[d] # 0
  BY BusyCall DEF CallSound, Finds
<1>2. ASSUME NEW u \in Routes!Using(d) PROVE thread[u].kind \in RegularKinds
  <2>1. u \in Threads /\ Busy(u) /\ thread[u].on = d
    BY DEF Routes!Using, Routes!At, Busy
  <2> QED BY <2>1 DEF Separated, Together
<1>3. \A k \in RegularKinds : k \notin {"create", "destroy"}
  BY DEF RegularKinds
<1> QED BY <1>1, <1>2, <1>3 DEF Routes!Returned

\* Nobody else uses a device that is created or destroyed.
LEMMA Alone ==
    ASSUME RoutesType, Separated, NEW t \in Threads, Busy(t),
           thread[t].kind \in {"create", "destroy"},
           NEW u \in Threads, Busy(u), u # t
    PROVE  thread[u].on # thread[t].on
BY DEF Separated, Together, RegularKinds

LEMMA ObjectsKept ==
    ASSUME RoutesType, Separated, NEW t \in Threads, Busy(t), NEW r \in CallRecords,
           thread' = [thread EXCEPT ![t] = r], r.kind = thread[t].kind, r.on = thread[t].on,
           r.object = thread[t].object,
           owner' = owner, device' = device, \A o \in Routes!Objects : ObjectSound(o)
    PROVE  \A o \in Routes!Objects : ObjectSound(o)'
<1>1. \A u \in Threads :
         /\ Busy(u)' <=> Busy(u)
         /\ Busy(u) => /\ thread'[u].kind = thread[u].kind /\ thread'[u].on = thread[u].on
                       /\ thread'[u].object = thread[u].object
  BY GoesOn
<1>2. \A u \in Threads, o \in Routes!Objects :
          Busy(u) /\ Excuses(thread[u], o) => Busy(u)' /\ Excuses(thread[u], o)'
  BY <1>1, Zenon DEF Excuses
<1> QED BY <1>2, Zenon DEF ObjectSound

\* A call goes on and changes nothing but what its thread remembers.
LEMMA Advance ==
    ASSUME RoutesInv, NEW t \in Threads, Busy(t), NEW r \in CallRecords,
           thread' = [thread EXCEPT ![t] = r], r.kind = thread[t].kind, r.on = thread[t].on,
           r.object = thread[t].object, ~Wrote(r), ~Wrote(thread[t]),
           UNCHANGED routed, UNCHANGED generation,
           NEW k \in CacheRecords, tableCache' = [tableCache EXCEPT ![t] = k], CacheSound(k),
           Staged(r) /\ Holds(r) /\ Finds(r) /\ Making(r) /\ Unmaking(r)
    PROVE  RoutesInv'
<1> USE DEF RoutesInv, routed
<1>1. /\ thread' \in [Threads -> CallRecords \cup {Routes!Idle}]
      /\ thread'[t] = r /\ \A u \in Threads : u # t => thread'[u] = thread[u]
      /\ Busy(t)' /\ \A u \in Threads : Busy(u)' <=> Busy(u)
      /\ Separated'
      /\ \A d \in Devices : Routes!Returned(d)' <=> Routes!Returned(d)
  BY GoesOn
<1>2. tableCache' \in [Threads -> CacheRecords]
  BY DEF RoutesType
<1>3. RoutesType'
  BY <1>1, <1>2 DEF RoutesType
<1>4. Locked'
  BY <1>1 DEF Locked, Wrote
<1>5. (primary \in emulated \cup {Null})' /\ (bypass = Routes!Bypass(tables, flags))'
  BY DEF Routes!Bypass, Routes!Single
<1>6. ASSUME NEW u \in Threads PROVE CallSound(u)'
  <2>1. CASE u = t
    BY <1>1, <2>1
       DEF CallSound, Staged, Wrote, Holds, Finds, Making, Unmaking, Forgot, Bare, Unowned, Told
  <2>2. CASE u # t
    BY <1>1, <2>2
       DEF CallSound, Staged, Wrote, Holds, Finds, Making, Unmaking, Forgot, Bare, Unowned, Told
  <2> QED BY <2>1, <2>2
<1>7. \A d \in Devices : DeviceSound(d)'
  BY <1>1 DEF DeviceSound, Bare, Unowned, Told
<1>8. \A o \in Routes!Objects : ObjectSound(o)'
  BY ObjectsKept
<1>9. ASSUME NEW u \in Threads PROVE CacheSound(tableCache[u])'
  <2>1. tableCache'[u] = tableCache[u] \/ tableCache'[u] = k
    BY DEF RoutesType
  <2>2. \A d : Changing(d) => Changing(d)'
    <3>1. ASSUME writer # Null PROVE writer \in Threads /\ Wrote(thread[writer]) /\ writer # t
      BY <3>1 DEF RoutesType, Locked
    <3> QED BY <3>1, <1>1 DEF Changing
  <2> QED BY <2>1, <2>2 DEF CacheSound
<1> QED BY <1>3, <1>1, <1>4, <1>5, <1>6, <1>7, <1>8, <1>9


\* The same where the thread's cache stays as well.
LEMMA AdvanceOnly ==
    ASSUME RoutesInv, NEW t \in Threads, Busy(t), NEW r \in CallRecords,
           thread' = [thread EXCEPT ![t] = r], r.kind = thread[t].kind, r.on = thread[t].on,
           r.object = thread[t].object, ~Wrote(r), ~Wrote(thread[t]),
           UNCHANGED <<routed, generation, tableCache>>,
           Staged(r) /\ Holds(r) /\ Finds(r) /\ Making(r) /\ Unmaking(r)
    PROVE  RoutesInv'
<1>1. tableCache[t] \in CacheRecords /\ tableCache' = [tableCache EXCEPT ![t] = tableCache[t]]
  BY DEF RoutesInv, RoutesType
<1>2. CacheSound(tableCache[t])
  BY DEF RoutesInv
<1> QED BY <1>1, <1>2, Advance

LEMMA FindDeviceStep ==
    ASSUME RoutesInv, NEW t \in Threads, Routes!FindDevice(t)
    PROVE  RoutesInv'
<1> DEFINE c == thread[t]
<1> DEFINE r == [c EXCEPT !.pc = IF single = Null THEN "find" ELSE "lookup", !.device = single]
<1>1. c.pc = "device" /\ Busy(t) /\ c \in CallRecords /\ CallSound(t) /\ RoutesType /\ Separated
  BY BusyCall DEF Routes!FindDevice, Routes!At, Busy, RoutesInv
<1>2. c.kind \in {"draw", "submit"}
  BY <1>1 DEF CallSound, Staged, Wrote
<1>3. Told(c.on) /\ c.on \in Devices
  <2>1. Routes!Returned(c.on)
    BY <1>1, <1>2, UsedReturned DEF RegularKinds
  <2>2. c.on \in Devices
    BY <1>1 DEF CallRecords
  <2> QED BY <2>1, <2>2 DEF RoutesInv, DeviceSound
<1>4. thread' = [thread EXCEPT ![t] = r] /\ UNCHANGED <<routed, generation, tableCache>>
  BY <1>1 DEF Routes!FindDevice, Routes!driver, Routes!routes, Routes!records, routed, RoutesType
<1>5. single \in Handles
  BY <1>1 DEF RoutesType
<1>6. (IF single = Null THEN "find" ELSE "lookup") \in Steps
  BY DEF Steps
<1>7. /\ r \in CallRecords /\ r.kind = c.kind /\ r.on = c.on /\ r.object = c.object /\ r.bypass = c.bypass
      /\ r.generation = c.generation /\ r.device = single
      /\ r.pc = IF single = Null THEN "find" ELSE "lookup"
  <2> DEFINE p == IF single = Null THEN "find" ELSE "lookup"
  <2>1. r = [c EXCEPT !.pc = p, !.device = single] /\ p \in Steps /\ c \in CallRecords
    BY <1>1, <1>6
  <2> HIDE DEF c, r, p
  <2>2. /\ r \in CallRecords /\ r.kind = c.kind /\ r.on = c.on /\ r.object = c.object
        /\ r.bypass = c.bypass /\ r.generation = c.generation /\ r.device = single /\ r.pc = p
    BY <2>1, <1>5, Zenon DEF CallRecords
  <2> QED BY <2>2 DEF p
<1>8. Staged(r) /\ Holds(r) /\ Finds(r) /\ Making(r) /\ Unmaking(r) /\ ~Wrote(r)
  BY <1>1, <1>2, <1>3, <1>7 DEF CallSound, Staged, Holds, Finds, Making, Unmaking, Wrote, Told
<1>9. ~Wrote(c)
  BY <1>1 DEF Wrote
<1> QED BY <1>1, <1>4, <1>7, <1>8, <1>9, AdvanceOnly

LEMMA FindDeviceSlowStep ==
    ASSUME RoutesInv, NEW t \in Threads, Routes!FindDeviceSlow(t)
    PROVE  RoutesInv'
<1> DEFINE c == thread[t]
<1> DEFINE found == device[c.object]
<1> DEFINE r == [c EXCEPT !.pc = "lookup", !.device = IF found = Null THEN lastDevice ELSE found]
<1>1. c.pc = "find" /\ Busy(t) /\ c \in CallRecords /\ CallSound(t) /\ RoutesType /\ Separated
  BY BusyCall DEF Routes!FindDeviceSlow, Routes!At, Busy, RoutesInv
<1>2. c.kind \in {"draw", "submit"}
  BY <1>1 DEF CallSound, Staged, Wrote
<1>3. /\ c.object \in Commands \cup Queues /\ owner[c.object] = c.on
      /\ c.object \in Commands <=> c.kind = "draw"
  BY <1>1, <1>2, RoutesAssumption DEF CallSound, Holds
<1>4. c.on \in Devices /\ c.on # Null
  BY <1>1, RoutesAssumption DEF CallRecords
<1>5. ASSUME NEW u \in Threads, Busy(u), Excuses(thread[u], c.object)
      PROVE  FALSE
  <2>1. u # t
    BY <1>2, <1>5 DEF Excuses
  <2>2. thread[u].on = c.on
    BY <1>3, <1>5 DEF Excuses
  <2>3. Together(c, thread[u]) /\ Together(thread[u], c)
    BY <1>1, <1>5, <2>1 DEF Separated
  <2>4. CallSound(u)
    BY DEF RoutesInv
  <2>5. CASE c.kind = "draw"
    <3>1. thread[u].kind # "queue"
      BY <1>3, <1>4, <1>5, <2>4, <2>5, RoutesAssumption DEF Excuses, CallSound, Holds
    <3> QED BY <2>2, <2>3, <2>5, <3>1, <1>5 DEF Together, Excuses, Routes!PoolCalls, RegularKinds
  <2>6. CASE c.kind = "submit"
    <3>1. c.object \in Queues /\ c.object \notin Commands /\ c.object # Null
      BY <1>3, <2>6, RoutesAssumption
    <3>2. thread[u].kind = "queue"
      BY <1>5, <2>2, <2>3, <2>4, <3>1 DEF Excuses, CallSound, Holds, Together, RegularKinds
    <3> QED BY <2>2, <2>3, <2>6, <3>2 DEF Together, Routes!QueueCalls
  <2> QED BY <1>2, <2>5, <2>6
<1>6. found = c.on
  BY <1>3, <1>4, <1>5 DEF RoutesInv, ObjectSound, Routes!Objects
<1>7. r = [c EXCEPT !.pc = "lookup", !.device = c.on]
  BY <1>4, <1>6
<1>8. thread' = [thread EXCEPT ![t] = r] /\ UNCHANGED <<routed, generation, tableCache>>
  BY <1>1
     DEF Routes!FindDeviceSlow, Routes!driver, Routes!routes, Routes!records, routed, RoutesType
<1>9. "lookup" \in Steps /\ c.on \in Handles
  BY <1>4 DEF Steps, Handles
<1>10. /\ r \in CallRecords /\ r.kind = c.kind /\ r.on = c.on /\ r.object = c.object /\ r.bypass = c.bypass
       /\ r.generation = c.generation /\ r.device = c.on /\ r.pc = "lookup"
  BY <1>1, <1>7, <1>9, Zenon DEF CallRecords
<1>11. Staged(r) /\ Holds(r) /\ Finds(r) /\ Making(r) /\ Unmaking(r) /\ ~Wrote(r) /\ ~Wrote(c)
  BY <1>1, <1>2, <1>10 DEF CallSound, Staged, Holds, Finds, Making, Unmaking, Wrote
<1> QED BY <1>1, <1>8, <1>10, <1>11, AdvanceOnly

\* A table remembered for the current generation is the one of the device.
LEMMA Remembers ==
    ASSUME RoutesInv, NEW t \in Threads, Busy(t), ~Wrote(thread[t]),
           tableCache[t].device = thread[t].on, tableCache[t].generation = generation
    PROVE  tableCache[t].table = tables[thread[t].on]
<1> DEFINE d == thread[t].on
<1>1. thread[t] \in CallRecords /\ d \in Devices /\ d # Null
  BY BusyCall, RoutesAssumption DEF RoutesInv, CallRecords
<1>2. CacheSound(tableCache[t])
  BY DEF RoutesInv
<1>3. ASSUME Changing(d) PROVE FALSE
  <2>1. writer \in Threads /\ Wrote(thread[writer]) /\ writer # t /\ thread[writer].on = d
    BY <1>3 DEF Changing, RoutesInv, RoutesType, Locked
  <2>2. Busy(writer) /\ CallSound(writer)
    BY <2>1 DEF Wrote, Busy, RoutesInv
  <2>3. thread[writer].kind \in {"create", "destroy"}
    BY <2>1, <2>2 DEF CallSound, Staged, Wrote
  <2> QED BY <2>1, <2>2, <2>3, Alone DEF RoutesInv
<1> QED BY <1>1, <1>2, <1>3 DEF CacheSound


LEMMA LookUpStep ==
    ASSUME RoutesInv, NEW t \in Threads, Routes!LookUp(t)
    PROVE  RoutesInv'
<1> DEFINE c == thread[t]
<1> DEFINE hit == tableCache[t].device = c.device /\ tableCache[t].generation = generation
<1> DEFINE p == IF hit THEN Routes!Found(t) ELSE "slow"
<1> DEFINE x == IF hit THEN tableCache[t].table ELSE 0
<1> DEFINE r == [c EXCEPT !.pc = p, !.generation = generation, !.table = x]
<1>1. c.pc = "lookup" /\ Busy(t) /\ c \in CallRecords /\ CallSound(t) /\ RoutesType /\ Separated
  BY BusyCall DEF Routes!LookUp, Routes!At, Busy, RoutesInv
<1>2. c.kind \in {"draw", "submit", "reset", "allocate", "queue", "free", "destroy"}
  BY <1>1 DEF CallSound, Staged, Wrote
<1>3. Routes!Found(t) = CASE c.kind \in {"allocate", "free", "queue"} -> c.kind
                          [] c.kind = "destroy" -> "forget" [] OTHER -> "native"
  BY <1>2 DEF Routes!Found
<1>4. p \in Steps /\ x \in Nat /\ generation \in Nat
  BY <1>1, <1>2, <1>3 DEF RoutesType, CacheRecords, Steps
<1>5. thread' = [thread EXCEPT ![t] = r] /\ UNCHANGED <<routed, generation, tableCache>>
  BY <1>1 DEF Routes!LookUp, Routes!driver, Routes!routes, Routes!records, routed, RoutesType
<1>6. /\ r \in CallRecords /\ r.kind = c.kind /\ r.on = c.on /\ r.object = c.object
      /\ r.bypass = c.bypass /\ r.generation = generation /\ r.device = c.device /\ r.pc = p
      /\ r.table = x
  <2>1. r = [c EXCEPT !.pc = p, !.generation = generation, !.table = x]
    OBVIOUS
  <2> HIDE DEF c, r, p, x
  <2> QED BY <1>1, <1>4, <2>1, Zenon DEF CallRecords
<1>7. c.device = c.on
  BY <1>1 DEF CallSound, Finds
<1>8. c.kind # "destroy" /\ hit => x = live[c.on]
  <2> SUFFICES ASSUME c.kind # "destroy", hit PROVE x = live[c.on]
    OBVIOUS
  <2>1. c.kind \in RegularKinds /\ c.on \in Devices
    BY <1>1, <1>2 DEF RegularKinds, CallRecords
  <2>2. tables[c.on] = live[c.on]
    BY <1>1, <2>1, UsedReturned DEF RoutesInv, DeviceSound
  <2>3. tableCache[t].table = tables[c.on]
    BY <1>1, <1>7, Remembers DEF Wrote
  <2> QED BY <2>2, <2>3
<1>9. Staged(r) /\ Holds(r) /\ Unmaking(r) /\ Making(r) /\ ~Wrote(r) /\ ~Wrote(c)
  BY <1>1, <1>2, <1>3, <1>6 DEF CallSound, Staged, Holds, Unmaking, Forgot, Making, Wrote
<1>10. Finds(r)
  <2>1. generation <= generation
    BY <1>4
  <2>2. r.pc \in {"native", "allocate", "queue", "free"} => c.kind # "destroy" /\ hit
    BY <1>2, <1>3, <1>6
  <2> QED BY <1>1, <1>6, <1>7, <1>8, <2>1, <2>2 DEF CallSound, Finds
<1> QED BY <1>1, <1>5, <1>6, <1>9, <1>10, AdvanceOnly

LEMMA ReadTable ==
    ASSUME RoutesInv, NEW t \in Threads, Routes!LookUpSlow(t), tables[thread[t].on] # 0
    PROVE  RoutesInv'
<1> DEFINE c == thread[t]
<1> DEFINE p == Routes!Found(t)
<1> DEFINE x == tables[c.on]
<1> DEFINE r == [c EXCEPT !.pc = p, !.table = x]
<1> DEFINE k == [device |-> c.on, generation |-> c.generation, table |-> x]
<1>1. c.pc = "slow" /\ Busy(t) /\ c \in CallRecords /\ CallSound(t) /\ RoutesType /\ Separated
  BY BusyCall DEF Routes!LookUpSlow, Routes!At, Busy, RoutesInv
<1>2. c.kind \in {"draw", "submit", "reset", "allocate", "queue", "free", "destroy"}
  BY <1>1 DEF CallSound, Staged, Wrote
<1>3. p = CASE c.kind \in {"allocate", "free", "queue"} -> c.kind
            [] c.kind = "destroy" -> "forget" [] OTHER -> "native"
  BY <1>2 DEF Routes!Found
<1>4. c.device = c.on /\ c.on \in Devices /\ c.on # Null /\ c.on \in Handles
  BY <1>1, RoutesAssumption DEF CallSound, Finds, CallRecords, Handles
<1>5. p \in Steps /\ x \in Nat /\ c.generation \in Nat
  BY <1>1, <1>2, <1>3, <1>4 DEF RoutesType, Steps, CallRecords
<1>6. /\ writer = Null /\ thread' = [thread EXCEPT ![t] = r]
      /\ tableCache' = [tableCache EXCEPT ![t] = k] /\ UNCHANGED <<routed, generation>>
  BY <1>1, <1>4 DEF Routes!LookUpSlow, Routes!driver, Routes!routes, Routes!records, routed
<1>7. /\ r \in CallRecords /\ r.kind = c.kind /\ r.on = c.on /\ r.object = c.object
      /\ r.bypass = c.bypass /\ r.generation = c.generation /\ r.device = c.device /\ r.pc = p
      /\ r.table = x
  <2>1. r = [c EXCEPT !.pc = p, !.table = x]
    OBVIOUS
  <2> HIDE DEF c, r, p, x
  <2> QED BY <1>1, <1>5, <2>1, Zenon DEF CallRecords
<1>8. c.kind # "destroy" => x = live[c.on]
  <2> SUFFICES ASSUME c.kind # "destroy" PROVE x = live[c.on]
    OBVIOUS
  <2>1. c.kind \in RegularKinds
    BY <1>2 DEF RegularKinds
  <2> QED BY <1>1, <1>4, <2>1, UsedReturned DEF RoutesInv, DeviceSound
<1>9. Staged(r) /\ Holds(r) /\ Unmaking(r) /\ Making(r) /\ ~Wrote(r) /\ ~Wrote(c)
  BY <1>1, <1>2, <1>3, <1>7 DEF CallSound, Staged, Holds, Unmaking, Forgot, Making, Wrote
<1>10. Finds(r)
  <2>1. r.pc \in {"native", "allocate", "queue", "free"} => c.kind # "destroy"
    BY <1>2, <1>3, <1>7
  <2> QED BY <1>1, <1>7, <1>8, <2>1 DEF CallSound, Finds
<1>11. k \in CacheRecords /\ CacheSound(k)
  BY <1>1, <1>4, <1>5 DEF CacheRecords, CacheSound, CallSound, Finds
<1> QED BY <1>1, <1>6, <1>7, <1>9, <1>10, <1>11, Advance


-----------------------------------------------------------------------------
(* DispatchTables: the tables and what follows from them.                   *)

\* A thread changes the table or the flags of the device it has to itself.
LEMMA Written ==
    ASSUME RoutesInv, NEW t \in Threads, Busy(t), ~Wrote(thread[t]),
           thread[t].kind \in {"create", "destroy"},
           NEW T \in [Devices -> Nat], NEW F \in [Devices -> Nat], NEW n \in Steps, NEW b \in BOOLEAN,
           Routes!Writes(t, T, F, n, b),
           \A d \in Devices : d # thread[t].on => T[d] = tables[d] /\ F[d] = flags[d],
           ~b => T = tables,
           NEW r, r = [thread[t] EXCEPT !.pc = "single", !.next = n, !.bump = b],
           Staged(r), Making(r)', Unmaking(r)'
    PROVE  RoutesInv'
<1> DEFINE c == thread[t]
<1>1. c \in CallRecords /\ c.on \in Devices /\ c.pc # "idle"
  BY BusyCall DEF RoutesInv, CallRecords, Busy
<1>2. /\ r \in CallRecords /\ r.kind = c.kind /\ r.on = c.on /\ r.object = c.object
      /\ r.bypass = c.bypass /\ r.generation = c.generation /\ r.device = c.device
      /\ r.pc = "single" /\ r.next = n /\ r.bump = b /\ r.table = c.table
  <2>1. r = [c EXCEPT !.pc = "single", !.next = n, !.bump = b] /\ "single" \in Steps
    BY DEF Steps
  <2> HIDE DEF c
  <2> QED BY <1>1, <2>1, Zenon DEF CallRecords
<1>3. /\ writer = Null /\ writer' = t /\ tables' = T /\ flags' = F
      /\ bypass' = Routes!Bypass(T, F)
      /\ thread' = [thread EXCEPT ![t] = r]
      /\ UNCHANGED <<live, owner, created, generation, single, device, lastDevice, emulated, primary,
                     info, context, tableCache>>
  BY <1>1 DEF Routes!Writes, Routes!driver, Routes!records, RoutesInv, RoutesType
<1>4. /\ thread' \in [Threads -> CallRecords \cup {Routes!Idle}]
      /\ thread'[t] = r /\ \A u \in Threads : u # t => thread'[u] = thread[u]
      /\ Busy(t)' /\ \A u \in Threads : Busy(u)' <=> Busy(u)
      /\ Separated'
      /\ \A d \in Devices : Routes!Returned(d)' <=> Routes!Returned(d)
  BY <1>2, <1>3, GoesOn DEF RoutesInv
<1>5. RoutesType'
  <2>1. bypass' \in BOOLEAN
    BY <1>3 DEF Routes!Bypass
  <2> QED BY <1>3, <1>4, <2>1 DEF RoutesType, RoutesInv
<1>6. Locked'
  <2>1. \A u \in Threads : ~Wrote(thread[u])
    BY <1>3, RoutesAssumption DEF RoutesInv, Locked
  <2> QED BY <1>2, <1>3, <1>4, <2>1 DEF Locked, Wrote
<1>7. (primary \in emulated \cup {Null})' /\ (bypass = Routes!Bypass(tables, flags))'
  <2>1. Routes!Bypass(T, F)' = Routes!Bypass(T, F)
    BY DEF Routes!Bypass, Routes!Single
  <2> QED BY <1>3 DEF RoutesInv, Routes!Bypass, Routes!Single
<1>8. ASSUME NEW u \in Threads PROVE CallSound(u)'
  <2>1. CallSound(u)
    BY DEF RoutesInv
  <2>2. CASE u = t
    <3>1. Staged(r)' /\ Making(r)' /\ Unmaking(r)'
      BY DEF Staged, Wrote
    <3>2. Holds(r)' /\ Finds(r)'
      BY <1>2, <1>3, <2>1, <2>2 DEF CallSound, Holds, Finds, Staged, Wrote
    <3>3. thread'[u] = r
      BY <1>4, <2>2
    <3> QED BY <3>1, <3>2, <3>3 DEF CallSound
  <2>3. CASE u # t /\ Busy(u)
    <3>1. thread[u].on # c.on
      BY <2>3, Alone DEF RoutesInv
    <3>2. thread[u] \in CallRecords /\ thread[u].on \in Devices
      BY <2>3, BusyCall DEF RoutesInv, CallRecords
    <3>3. tables'[thread[u].on] = tables[thread[u].on] /\ flags'[thread[u].on] = flags[thread[u].on]
      BY <1>3, <3>1, <3>2
    <3> QED BY <1>3, <1>4, <2>1, <2>3, <3>3
       DEF CallSound, Staged, Wrote, Holds, Finds, Making, Unmaking, Forgot, Bare, Unowned, Told
  <2>4. CASE u # t /\ ~Busy(u)
    BY <1>4, <2>4 DEF CallSound
  <2> QED BY <2>2, <2>3, <2>4
<1>9. ASSUME NEW d \in Devices PROVE DeviceSound(d)'
  <2>1. DeviceSound(d)
    BY DEF RoutesInv
  <2>2. CASE d = c.on
    <3>1. live[d] # 0
      BY <2>2 DEF RoutesInv, CallSound, Finds
    <3>2. ~Routes!Returned(d)
      BY <1>1, <2>2 DEF Routes!Returned, Routes!Using, Routes!At
    <3> QED BY <1>3, <1>4, <3>1, <3>2 DEF DeviceSound
  <2>3. CASE d # c.on
    BY <1>3, <1>4, <2>1, <2>3 DEF DeviceSound, Bare, Unowned, Told
  <2> QED BY <2>2, <2>3
<1>10. \A o \in Routes!Objects : ObjectSound(o)'
  BY <1>2, <1>3, ObjectsKept DEF RoutesInv
<1>11. ASSUME NEW u \in Threads PROVE CacheSound(tableCache[u])'
  <2>1. CacheSound(tableCache[u]) /\ tableCache[u] \in CacheRecords
    BY DEF RoutesInv, RoutesType
  <2>2. \A d : ~Changing(d)
    BY <1>3 DEF Changing
  <2>3. b => Changing(c.on)'
    BY <1>2, <1>3, <1>4, RoutesAssumption DEF Changing
  <2>4. \A d \in Devices : T[d] = tables[d] \/ (d = c.on /\ b)
    OBVIOUS
  <2>5. tableCache[u].device # Null => tableCache[u].device \in Devices
    BY <2>1 DEF CacheRecords, Handles
  <2> DEFINE k == tableCache[u]
  <2>6. ASSUME k.generation = generation, k.device # Null
        PROVE  k.table = T[k.device] \/ Changing(k.device)'
    <3>1. k.table = tables[k.device]
      BY <2>1, <2>2, <2>6 DEF CacheSound
    <3>2. CASE T[k.device] = tables[k.device]
      BY <3>1, <3>2
    <3>3. CASE k.device = c.on /\ b
      BY <1>2, <1>3, <1>4, <2>3, <3>3 DEF Changing
    <3>4. k.device \in Devices
      BY <2>5, <2>6
    <3> QED BY <2>4, <3>2, <3>3, <3>4
  <2> QED BY <1>3, <2>1, <2>6 DEF CacheSound
<1> QED BY <1>5, <1>4, <1>6, <1>7, <1>8, <1>9, <1>10, <1>11 DEF RoutesInv


LEMMA CreateTableStep ==
    ASSUME RoutesInv, NEW t \in Threads, Routes!CreateTable(t)
    PROVE  RoutesInv'
<1> DEFINE c == thread[t]
<1>1. c.pc = "load" /\ Busy(t) /\ c \in CallRecords /\ c.on \in Devices /\ CallSound(t) /\ RoutesType
  BY BusyCall DEF Routes!CreateTable, Routes!At, Busy, RoutesInv, CallRecords
<1>2. c.kind = "create" /\ ~Wrote(c)
  BY <1>1 DEF CallSound, Staged, Wrote
<1> DEFINE T == [tables EXCEPT ![c.on] = live[c.on]]
<1> DEFINE F == flags
<1>3. T \in [Devices -> Nat] /\ F \in [Devices -> Nat] /\ "flags" \in Steps /\ TRUE \in BOOLEAN
  BY <1>1 DEF RoutesType, Steps
<1>4. \A d \in Devices : d # c.on => T[d] = tables[d] /\ F[d] = flags[d]
  BY <1>1 DEF RoutesType
<1>5. Routes!Writes(t, T, F, "flags", TRUE)
  BY DEF Routes!CreateTable, Routes!LoadTable
<1>6. PICK r : r = [c EXCEPT !.pc = "single", !.next = "flags", !.bump = TRUE]
  OBVIOUS
<1>7. r.kind = c.kind /\ r.on = c.on /\ r.pc = "single" /\ r.next = "flags" /\ r.bump = TRUE
  <2> HIDE DEF c
  <2> QED BY <1>1, <1>6, Zenon DEF CallRecords
<1>8. /\ tables' = T /\ flags' = F
      /\ UNCHANGED <<live, owner, device, lastDevice, single, emulated, info>>
  BY <1>5 DEF Routes!Writes, Routes!driver, Routes!records
<1>9. Staged(r) /\ Making(r)' /\ Unmaking(r)'
  BY <1>1, <1>2, <1>7, <1>8
     DEF CallSound, Finds, Staged, Wrote, Making, Unmaking, Forgot, Unowned, Told, RoutesType
<1> QED BY <1>1, <1>2, <1>3, <1>4, <1>5, <1>6, <1>9, Written

LEMMA CreateFlagsStep ==
    ASSUME RoutesInv, NEW t \in Threads, Routes!CreateFlags(t)
    PROVE  RoutesInv'
<1> DEFINE c == thread[t]
<1>1. c.pc = "flags" /\ Busy(t) /\ c \in CallRecords /\ c.on \in Devices /\ CallSound(t) /\ RoutesType
  BY BusyCall DEF Routes!CreateFlags, Routes!At, Busy, RoutesInv, CallRecords
<1>2. c.kind = "create" /\ ~Wrote(c)
  BY <1>1 DEF CallSound, Staged, Wrote
<1> DEFINE T == tables
<1> DEFINE F == [flags EXCEPT ![c.on] = live[c.on]]
<1>3. T \in [Devices -> Nat] /\ F \in [Devices -> Nat] /\ "info" \in Steps /\ FALSE \in BOOLEAN
  BY <1>1 DEF RoutesType, Steps
<1>4. \A d \in Devices : d # c.on => T[d] = tables[d] /\ F[d] = flags[d]
  BY <1>1 DEF RoutesType
<1>5. Routes!Writes(t, T, F, "info", FALSE)
  BY DEF Routes!CreateFlags, Routes!SetFlags
<1>6. PICK r : r = [c EXCEPT !.pc = "single", !.next = "info", !.bump = FALSE]
  OBVIOUS
<1>7. r.kind = c.kind /\ r.on = c.on /\ r.pc = "single" /\ r.next = "info" /\ r.bump = FALSE
  <2> HIDE DEF c
  <2> QED BY <1>1, <1>6, Zenon DEF CallRecords
<1>8. /\ tables' = T /\ flags' = F
      /\ UNCHANGED <<live, owner, device, lastDevice, single, emulated, info>>
  BY <1>5 DEF Routes!Writes, Routes!driver, Routes!records
<1>9. Staged(r) /\ Making(r)' /\ Unmaking(r)'
  BY <1>1, <1>2, <1>7, <1>8
     DEF CallSound, Finds, Staged, Wrote, Making, Unmaking, Forgot, Unowned, Told, RoutesType
<1> QED BY <1>1, <1>2, <1>3, <1>4, <1>5, <1>6, <1>9, Written

LEMMA DestroyFlagsStep ==
    ASSUME RoutesInv, NEW t \in Threads, Routes!DestroyFlags(t)
    PROVE  RoutesInv'
<1> DEFINE c == thread[t]
<1>1. c.pc = "noflags" /\ Busy(t) /\ c \in CallRecords /\ c.on \in Devices /\ CallSound(t) /\ RoutesType
  BY BusyCall DEF Routes!DestroyFlags, Routes!At, Busy, RoutesInv, CallRecords
<1>2. c.kind = "destroy" /\ ~Wrote(c)
  BY <1>1 DEF CallSound, Staged, Wrote
<1> DEFINE T == tables
<1> DEFINE F == [flags EXCEPT ![c.on] = 0]
<1>3. T \in [Devices -> Nat] /\ F \in [Devices -> Nat] /\ "notable" \in Steps /\ FALSE \in BOOLEAN
  BY <1>1 DEF RoutesType, Steps
<1>4. \A d \in Devices : d # c.on => T[d] = tables[d] /\ F[d] = flags[d]
  BY <1>1 DEF RoutesType
<1>5. Routes!Writes(t, T, F, "notable", FALSE)
  BY DEF Routes!DestroyFlags, Routes!SetFlags
<1>6. PICK r : r = [c EXCEPT !.pc = "single", !.next = "notable", !.bump = FALSE]
  OBVIOUS
<1>7. r.kind = c.kind /\ r.on = c.on /\ r.pc = "single" /\ r.next = "notable" /\ r.bump = FALSE
  <2> HIDE DEF c
  <2> QED BY <1>1, <1>6, Zenon DEF CallRecords
<1>8. /\ tables' = T /\ flags' = F
      /\ UNCHANGED <<live, owner, device, lastDevice, single, emulated, info>>
  BY <1>5 DEF Routes!Writes, Routes!driver, Routes!records
<1>9. Staged(r) /\ Making(r)' /\ Unmaking(r)'
  BY <1>1, <1>2, <1>7, <1>8
     DEF CallSound, Finds, Staged, Wrote, Making, Unmaking, Forgot, Unowned, Told, RoutesType
<1> QED BY <1>1, <1>2, <1>3, <1>4, <1>5, <1>6, <1>9, Written

LEMMA DestroyTableStep ==
    ASSUME RoutesInv, NEW t \in Threads, Routes!DestroyTable(t)
    PROVE  RoutesInv'
<1> DEFINE c == thread[t]
<1>1. c.pc = "notable" /\ Busy(t) /\ c \in CallRecords /\ c.on \in Devices /\ CallSound(t) /\ RoutesType
  BY BusyCall DEF Routes!DestroyTable, Routes!At, Busy, RoutesInv, CallRecords
<1>2. c.kind = "destroy" /\ ~Wrote(c)
  BY <1>1 DEF CallSound, Staged, Wrote
<1> DEFINE T == [tables EXCEPT ![c.on] = 0]
<1> DEFINE F == flags
<1>3. T \in [Devices -> Nat] /\ F \in [Devices -> Nat] /\ "norecords" \in Steps /\ TRUE \in BOOLEAN
  BY <1>1 DEF RoutesType, Steps
<1>4. \A d \in Devices : d # c.on => T[d] = tables[d] /\ F[d] = flags[d]
  BY <1>1 DEF RoutesType
<1>5. Routes!Writes(t, T, F, "norecords", TRUE)
  BY DEF Routes!DestroyTable, Routes!DropTable
<1>6. PICK r : r = [c EXCEPT !.pc = "single", !.next = "norecords", !.bump = TRUE]
  OBVIOUS
<1>7. r.kind = c.kind /\ r.on = c.on /\ r.pc = "single" /\ r.next = "norecords" /\ r.bump = TRUE
  <2> HIDE DEF c
  <2> QED BY <1>1, <1>6, Zenon DEF CallRecords
<1>8. /\ tables' = T /\ flags' = F
      /\ UNCHANGED <<live, owner, device, lastDevice, single, emulated, info>>
  BY <1>5 DEF Routes!Writes, Routes!driver, Routes!records
<1>9. Staged(r) /\ Making(r)' /\ Unmaking(r)'
  BY <1>1, <1>2, <1>7, <1>8
     DEF CallSound, Finds, Staged, Wrote, Making, Unmaking, Forgot, Unowned, Told, RoutesType
<1> QED BY <1>1, <1>2, <1>3, <1>4, <1>5, <1>6, <1>9, Written

\* The table of a device that is destroyed comes back when its module asks.
LEMMA LookUpSlowStep ==
    ASSUME RoutesInv, NEW t \in Threads, Routes!LookUpSlow(t)
    PROVE  RoutesInv'
<1> DEFINE c == thread[t]
<1>1. CASE tables[c.on] # 0
  BY <1>1, ReadTable
<1>2. CASE tables[c.on] = 0
  <2>1. c.pc = "slow" /\ Busy(t) /\ c \in CallRecords /\ c.on \in Devices /\ CallSound(t) /\ RoutesType
    BY BusyCall DEF Routes!LookUpSlow, Routes!At, Busy, RoutesInv, CallRecords
  <2>2. c.device = c.on /\ c.on # Null
    BY <2>1, RoutesAssumption DEF CallSound, Finds
  <2>3. c.kind \notin RegularKinds
    <3> SUFFICES ASSUME c.kind \in RegularKinds PROVE FALSE
      OBVIOUS
    <3>1. Routes!Returned(c.on)
      BY <2>1, UsedReturned DEF RoutesInv
    <3> QED BY <1>2, <2>1, <3>1 DEF RoutesInv, DeviceSound, Routes!Returned
  <2>4. c.kind = "destroy" /\ ~Wrote(c)
    BY <2>1, <2>3 DEF CallSound, Staged, Wrote, RegularKinds
  <2> DEFINE T == [tables EXCEPT ![c.on] = live[c.on]]
  <2>5. T \in [Devices -> Nat] /\ flags \in [Devices -> Nat] /\ "slow" \in Steps
    BY <2>1 DEF RoutesType, Steps
  <2>6. \A d \in Devices : d # c.on => T[d] = tables[d] /\ flags[d] = flags[d]
    BY <2>1 DEF RoutesType
  <2>7. Routes!Writes(t, T, flags, "slow", TRUE)
    BY <1>2, <2>2 DEF Routes!LookUpSlow, Routes!LoadTable
  <2>8. PICK r : r = [c EXCEPT !.pc = "single", !.next = "slow", !.bump = TRUE]
    OBVIOUS
  <2>9. r.kind = c.kind /\ r.on = c.on /\ r.pc = "single" /\ r.next = "slow" /\ r.bump = TRUE
    <3> HIDE DEF c
    <3> QED BY <2>1, <2>8, Zenon DEF CallRecords
  <2>10. /\ tables' = T /\ flags' = flags
         /\ UNCHANGED <<live, owner, device, lastDevice, single, emulated, info>>
    BY <2>7 DEF Routes!Writes, Routes!driver, Routes!records
  <2>11. Staged(r) /\ Making(r)' /\ Unmaking(r)'
    BY <2>1, <2>4, <2>9, <2>10
       DEF CallSound, Finds, Staged, Wrote, Making, Unmaking, Forgot, Unowned, Told
  <2> QED BY <2>1, <2>4, <2>5, <2>6, <2>7, <2>8, <2>11, Written
<1> QED BY <1>1, <1>2


LEMMA StoreSingleStep ==
    ASSUME RoutesInv, NEW t \in Threads, Routes!StoreSingle(t)
    PROVE  RoutesInv'
<1> DEFINE c == thread[t]
<1> DEFINE p == IF c.bump THEN "generation" ELSE c.next
<1>1. c.pc = "single" /\ Busy(t) /\ c \in CallRecords /\ c.on \in Devices /\ CallSound(t) /\ Separated
  BY BusyCall DEF Routes!StoreSingle, Routes!At, Busy, RoutesInv, CallRecords
<1>2. \/ c.kind = "create" /\ c.next = "flags" /\ c.bump
      \/ c.kind = "create" /\ c.next = "info" /\ ~c.bump
      \/ c.kind = "destroy" /\ c.next \in {"norecords", "slow"} /\ c.bump
      \/ c.kind = "destroy" /\ c.next = "notable" /\ ~c.bump
  BY <1>1 DEF CallSound, Staged, Wrote
<1>3. p \in Steps /\ c.bump \in BOOLEAN
  BY <1>1, <1>2 DEF Steps, CallRecords
<1>4. PICK r : r = [c EXCEPT !.pc = p]
  OBVIOUS
<1>5. /\ r \in CallRecords /\ r.kind = c.kind /\ r.on = c.on /\ r.object = c.object
      /\ r.bypass = c.bypass /\ r.generation = c.generation /\ r.device = c.device
      /\ r.pc = p /\ r.next = c.next /\ r.bump = c.bump /\ r.table = c.table
  <2> HIDE DEF c, p
  <2> QED BY <1>1, <1>3, <1>4, Zenon DEF CallRecords
<1>6. thread' = [thread EXCEPT ![t] = r]
  BY <1>4 DEF Routes!StoreSingle, Routes!To
<1>7. /\ single' = Routes!Single(tables)
      /\ writer' = IF c.bump THEN writer ELSE Null
      /\ UNCHANGED <<live, owner, created, tables, flags, generation, bypass, device, lastDevice,
                     emulated, primary, info, context, tableCache>>
  BY DEF Routes!StoreSingle, Routes!driver, Routes!records
<1>8. single' \in Handles /\ \A d \in Devices : tables[d] # 0 => Told(d)'
  BY <1>7, OneHeld DEF RoutesInv, RoutesType, Told
<1>9. /\ thread' \in [Threads -> CallRecords \cup {Routes!Idle}]
      /\ thread'[t] = r /\ \A u \in Threads : u # t => thread'[u] = thread[u]
      /\ Busy(t)' /\ \A u \in Threads : Busy(u)' <=> Busy(u)
      /\ Separated'
      /\ \A d \in Devices : Routes!Returned(d)' <=> Routes!Returned(d)
  BY <1>1, <1>5, <1>6, <1>7, GoesOn DEF RoutesInv
<1>10. RoutesType'
  BY <1>7, <1>8, <1>9 DEF RoutesType, RoutesInv
<1>11. writer = t
  BY <1>1 DEF RoutesInv, Locked, Wrote
<1>12. Locked'
  BY <1>1, <1>2, <1>5, <1>7, <1>9, <1>11, RoutesAssumption DEF RoutesInv, Locked, Wrote
<1>13. (primary \in emulated \cup {Null})' /\ (bypass = Routes!Bypass(tables, flags))'
  BY <1>7 DEF RoutesInv, Routes!Bypass, Routes!Single
<1>14. ASSUME NEW u \in Threads PROVE CallSound(u)'
  <2>1. CallSound(u)
    BY DEF RoutesInv
  <2>2. CASE u = t
    <3>1. live[c.on] # 0
      BY <1>1 DEF CallSound, Finds
    <3>2. c.kind = "create" => tables[c.on] = live[c.on]
      BY <1>1 DEF CallSound, Making
    <3>3. c.kind = "create" => Told(r.on)'
      BY <1>1, <1>5, <1>8, <3>1, <3>2, Zenon
    <3>4. Staged(r)' /\ Holds(r)' /\ Finds(r)'
      BY <1>1, <1>2, <1>5, <1>7 DEF CallSound, Staged, Wrote, Holds, Finds
    <3>5. Making(r)'
      BY <1>1, <1>2, <1>5, <1>7, <3>2, <3>3 DEF CallSound, Making, Unowned, Told
    <3>6. Unmaking(r)'
      BY <1>1, <1>2, <1>5, <1>7 DEF CallSound, Unmaking, Forgot, Wrote
    <3> QED BY <1>9, <2>2, <3>4, <3>5, <3>6 DEF CallSound
  <2>3. CASE u # t /\ Busy(u)
    <3>1. thread[u] \in CallRecords /\ thread[u].on \in Devices
      BY <2>3, BusyCall DEF RoutesInv, CallRecords
    <3>2. tables[thread[u].on] # 0 => Told(thread[u].on)'
      BY <1>7, <1>8, <1>9, <2>3, <3>1 DEF Told
    <3> QED BY <1>7, <1>9, <2>1, <2>3, <3>2
       DEF CallSound, Staged, Wrote, Holds, Finds, Making, Unmaking, Forgot, Bare, Unowned, Told
  <2>4. CASE u # t /\ ~Busy(u)
    BY <1>9, <2>4 DEF CallSound
  <2> QED BY <2>2, <2>3, <2>4
<1>15. ASSUME NEW d \in Devices PROVE DeviceSound(d)'
  <2>1. DeviceSound(d)
    BY DEF RoutesInv
  <2>2. Routes!Returned(d) => live[d] # 0
    BY DEF Routes!Returned
  <2>3. Routes!Returned(d) => Told(d)'
    BY <1>8, <2>1, <2>2 DEF DeviceSound
  <2> QED BY <1>7, <1>9, <2>1, <2>3 DEF DeviceSound, Bare, Unowned
<1>16. \A o \in Routes!Objects : ObjectSound(o)'
  BY <1>1, <1>5, <1>6, <1>7, ObjectsKept DEF RoutesInv
<1>17. ASSUME NEW u \in Threads PROVE CacheSound(tableCache[u])'
  <2>1. CacheSound(tableCache[u])
    BY DEF RoutesInv
  <2>2. \A d : Changing(d) => c.bump /\ c.on = d
    BY <1>11 DEF Changing
  <2>3. \A d : c.bump /\ c.on = d => writer' # Null /\ thread'[writer'].bump /\ thread'[writer'].on = d
    BY <1>5, <1>7, <1>9, <1>11, RoutesAssumption
  <2> QED BY <1>7, <2>1, <2>2, <2>3 DEF CacheSound, Changing
<1> QED BY <1>10, <1>9, <1>12, <1>13, <1>14, <1>15, <1>16, <1>17 DEF RoutesInv

LEMMA StoreGenerationStep ==
    ASSUME RoutesInv, NEW t \in Threads, Routes!StoreGeneration(t)
    PROVE  RoutesInv'
<1> DEFINE c == thread[t]
<1>1. c.pc = "generation" /\ Busy(t) /\ c \in CallRecords /\ c.on \in Devices /\ CallSound(t) /\ Separated
  BY BusyCall DEF Routes!StoreGeneration, Routes!At, Busy, RoutesInv, CallRecords
<1>2. /\ \/ c.kind = "create" /\ c.next = "flags"
         \/ c.kind = "destroy" /\ c.next \in {"norecords", "slow"}
      /\ c.bump
  BY <1>1 DEF CallSound, Staged, Wrote
<1>3. PICK r : r = [c EXCEPT !.pc = c.next]
  OBVIOUS
<1>4. /\ r \in CallRecords /\ r.kind = c.kind /\ r.on = c.on /\ r.object = c.object
      /\ r.bypass = c.bypass /\ r.generation = c.generation /\ r.device = c.device
      /\ r.pc = c.next /\ r.next = c.next /\ r.bump = c.bump /\ r.table = c.table
  <2>1. c.next \in Steps
    BY <1>2 DEF Steps
  <2> HIDE DEF c
  <2> QED BY <1>1, <1>3, <2>1, Zenon DEF CallRecords
<1>5. thread' = [thread EXCEPT ![t] = r]
  BY <1>3 DEF Routes!StoreGeneration, Routes!To
<1>6. /\ generation' = generation + 1 /\ writer' = Null
      /\ UNCHANGED <<live, owner, created, tables, flags, single, bypass, device, lastDevice,
                     emulated, primary, info, context, tableCache>>
  BY DEF Routes!StoreGeneration, Routes!driver, Routes!records
<1>7. generation \in Nat /\ generation' \in Nat \ {0}
  BY <1>6 DEF RoutesInv, RoutesType
<1>8. /\ thread' \in [Threads -> CallRecords \cup {Routes!Idle}]
      /\ thread'[t] = r /\ \A u \in Threads : u # t => thread'[u] = thread[u]
      /\ Busy(t)' /\ \A u \in Threads : Busy(u)' <=> Busy(u)
      /\ Separated'
      /\ \A d \in Devices : Routes!Returned(d)' <=> Routes!Returned(d)
  BY <1>1, <1>4, <1>5, <1>6, GoesOn DEF RoutesInv
<1>9. RoutesType'
  BY <1>6, <1>7, <1>8 DEF RoutesType, RoutesInv
<1>10. writer = t
  BY <1>1 DEF RoutesInv, Locked, Wrote
<1>11. Locked'
  BY <1>1, <1>2, <1>4, <1>6, <1>8, <1>10, RoutesAssumption DEF RoutesInv, Locked, Wrote
<1>12. (primary \in emulated \cup {Null})' /\ (bypass = Routes!Bypass(tables, flags))'
  BY <1>6 DEF RoutesInv, Routes!Bypass, Routes!Single
<1>13. ASSUME NEW u \in Threads PROVE CallSound(u)'
  <2>1. CallSound(u)
    BY DEF RoutesInv
  <2>2. CASE u = t
    <3>1. c.generation \in Nat
      BY <1>1 DEF CallRecords
    <3>2. Staged(r)' /\ Holds(r)' /\ Finds(r)'
      BY <1>1, <1>2, <1>4, <1>6, <1>7, <3>1 DEF CallSound, Staged, Wrote, Holds, Finds
    <3>3. Making(r)' /\ Unmaking(r)'
      BY <1>1, <1>2, <1>4, <1>6 DEF CallSound, Making, Unmaking, Forgot, Wrote, Unowned, Told
    <3> QED BY <1>8, <2>2, <3>2, <3>3 DEF CallSound
  <2>3. CASE u # t /\ Busy(u)
    <3>1. thread[u].generation \in Nat
      BY <2>3, BusyCall DEF RoutesInv, CallRecords
    <3>2. thread[u].generation <= generation => thread[u].generation <= generation'
      BY <1>6, <1>7, <3>1
    <3> QED BY <1>6, <1>8, <2>1, <2>3, <3>2
       DEF CallSound, Staged, Wrote, Holds, Finds, Making, Unmaking, Forgot, Bare, Unowned, Told
  <2>4. CASE u # t /\ ~Busy(u)
    BY <1>8, <2>4 DEF CallSound
  <2> QED BY <2>2, <2>3, <2>4
<1>14. ASSUME NEW d \in Devices PROVE DeviceSound(d)'
  BY <1>6, <1>8 DEF RoutesInv, DeviceSound, Bare, Unowned, Told
<1>15. \A o \in Routes!Objects : ObjectSound(o)'
  BY <1>1, <1>4, <1>5, <1>6, ObjectsKept DEF RoutesInv
<1>16. ASSUME NEW u \in Threads PROVE CacheSound(tableCache[u])'
  <2>1. tableCache[u].generation \in Nat /\ tableCache[u].generation <= generation
    BY DEF RoutesInv, RoutesType, CacheRecords, CacheSound
  <2>2. tableCache[u].generation <= generation' /\ tableCache[u].generation # generation'
    BY <1>6, <1>7, <2>1
  <2> QED BY <1>6, <2>2 DEF CacheSound
<1> QED BY <1>9, <1>8, <1>11, <1>12, <1>13, <1>14, <1>15, <1>16 DEF RoutesInv


LEMMA NativeAllocateStep ==
    ASSUME RoutesInv, NEW t \in Threads, Routes!NativeAllocate(t)
    PROVE  RoutesInv'
<1> DEFINE c == thread[t]
<1>1. c.pc \in {"allocate", "queue"} /\ Busy(t) /\ c \in CallRecords /\ c.on \in Devices /\ CallSound(t) /\ Separated
  BY BusyCall DEF Routes!NativeAllocate, Routes!At, Busy, RoutesInv, CallRecords
<1>2. c.kind = c.pc /\ ~Wrote(c)
  BY <1>1 DEF CallSound, Staged, Wrote
<1>13. PICK o \in IF c.pc = "queue" THEN Queues ELSE Commands :
           /\ owner[o] = Null /\ owner' = [owner EXCEPT ![o] = c.on]
           /\ thread' = [thread EXCEPT ![t].pc = "record", ![t].object = o]
  BY DEF Routes!NativeAllocate, Routes!At
<1>14. o \in Routes!Objects /\ o # Null
  BY RoutesAssumption DEF Routes!Objects
<1>3. PICK r : r = [c EXCEPT !.pc = "record", !.object = o]
  OBVIOUS
<1>4. /\ r \in CallRecords /\ r.kind = c.kind /\ r.on = c.on
      /\ r.bypass = c.bypass /\ r.generation = c.generation /\ r.device = c.device
      /\ r.next = c.next /\ r.bump = c.bump /\ r.table = c.table
      /\ r.pc = "record" /\ r.object = o
  <2>1. "record" \in Steps
    BY DEF Steps
  <2> HIDE DEF c
  <2> QED BY <1>1, <1>3, <1>14, <2>1, Zenon DEF CallRecords
<1>5. thread' = [thread EXCEPT ![t] = r]
  BY <1>1, <1>3, <1>13 DEF RoutesInv, RoutesType
<1>6. UNCHANGED <<live, created, tables, flags, writer, generation, single, bypass, device, lastDevice,
                  emulated, primary, info, context, tableCache>>
  BY DEF Routes!NativeAllocate, Routes!routes, Routes!records
<1>15. /\ owner' \in [Routes!Objects -> Handles] /\ owner'[o] = c.on
       /\ \A x \in Routes!Objects : x # o => owner'[x] = owner[x]
  BY <1>1, <1>13, <1>14 DEF RoutesInv, RoutesType, Handles
<1>7. /\ thread' \in [Threads -> CallRecords \cup {Routes!Idle}]
      /\ thread'[t] = r /\ \A u \in Threads : u # t => thread'[u] = thread[u]
      /\ Busy(t)' /\ \A u \in Threads : Busy(u)' <=> Busy(u)
      /\ Separated'
      /\ \A d \in Devices : Routes!Returned(d)' <=> Routes!Returned(d)
  BY <1>1, <1>4, <1>5, <1>6, GoesOn DEF RoutesInv
<1>8. RoutesType'
  BY <1>6, <1>7, <1>15 DEF RoutesType, RoutesInv
<1>9. Locked'
  BY <1>2, <1>4, <1>6, <1>7 DEF RoutesInv, Locked, Wrote
<1>10. (primary \in emulated \cup {Null})' /\ (bypass = Routes!Bypass(tables, flags))'
  BY <1>6 DEF RoutesInv, Routes!Bypass, Routes!Single
<1>11. ASSUME NEW u \in Threads PROVE CallSound(u)'
  <2>1. CallSound(u)
    BY DEF RoutesInv
  <2>2. CASE u = t
    <3>1. Staged(r)' /\ Holds(r)' /\ Finds(r)'
      BY <1>1, <1>2, <1>4, <1>6, <1>13, <1>14, <1>15, <2>1, <2>2
         DEF CallSound, Staged, Wrote, Holds, Finds
    <3>2. Making(r)' /\ Unmaking(r)'
      BY <1>1, <1>2, <1>4 DEF Making, Unmaking
    <3> QED BY <1>7, <2>2, <3>1, <3>2 DEF CallSound
  <2>3. CASE u # t /\ Busy(u)
    <3>1. thread[u] \in CallRecords /\ thread[u].on \in Devices /\ thread[u].on # Null
      BY <2>3, BusyCall, RoutesAssumption DEF RoutesInv, CallRecords
    <3>2. Holds(thread[u])'
      BY <1>1, <1>7, <1>13, <1>14, <1>15, <2>1, <2>3, <3>1, RoutesAssumption
         DEF CallSound, Holds, Routes!Objects, CallRecords
    <3>3. Making(thread[u])'
      <4>1. thread[u].kind = "create" => thread[u].on # c.on
        BY <1>1, <2>3, Alone DEF RoutesInv
      <4> QED BY <1>6, <1>7, <1>13, <1>14, <1>15, <2>1, <2>3, <3>1, <4>1
         DEF CallSound, Making, Unowned, Bare, Told
    <3> QED BY <1>6, <1>7, <2>1, <2>3, <3>2, <3>3
       DEF CallSound, Staged, Wrote, Holds, Making, Finds, Unmaking, Forgot
  <2>4. CASE u # t /\ ~Busy(u)
    BY <1>7, <2>4 DEF CallSound
  <2> QED BY <2>2, <2>3, <2>4
<1>12. ASSUME NEW d \in Devices PROVE DeviceSound(d)'
  <2>1. live[c.on] # 0
    BY <1>1 DEF CallSound, Finds
  <2>2. live[d] = 0 => \A x \in Routes!Objects : owner'[x] # d
    BY <1>15, <2>1 DEF RoutesInv, DeviceSound, Unowned
  <2> QED BY <1>6, <1>7, <2>2 DEF RoutesInv, DeviceSound, Bare, Unowned, Told
<1>16. ASSUME NEW x \in Routes!Objects PROVE ObjectSound(x)'
  <2>1. CASE x = o
    BY <1>1, <1>2, <1>4, <1>7, <1>15, <2>1 DEF ObjectSound, Excuses
  <2>2. CASE x # o
    <3>1. \A u \in Threads : Busy(u) /\ Excuses(thread[u], x) => Busy(u)' /\ Excuses(thread[u], x)'
      <4>1. owner'[x] = owner[x]
        BY <1>15, <2>2
      <4>2. x # Null
        BY RoutesAssumption DEF Routes!Objects
      <4>3. Busy(t) => ~Excuses(thread[t], x)
        BY <1>1, <1>2, <4>2 DEF CallSound, Holds, Excuses
      <4> QED BY <1>7, <4>1, <4>3 DEF Excuses
    <3>2. ObjectSound(x) /\ owner'[x] = owner[x] /\ device'[x] = device[x]
      BY <1>6, <1>15, <2>2 DEF RoutesInv
    <3> QED BY <3>1, <3>2 DEF ObjectSound
  <2> QED BY <2>1, <2>2
<1>17. ASSUME NEW u \in Threads PROVE CacheSound(tableCache[u])'
  <2>1. CacheSound(tableCache[u])
    BY DEF RoutesInv
  <2>2. \A d : Changing(d) => writer # Null /\ thread'[writer].bump /\ thread'[writer].on = d
    <3>1. ASSUME writer # Null PROVE writer \in Threads /\ writer # t
      BY <1>2, <3>1 DEF RoutesInv, RoutesType, Locked
    <3> QED BY <1>7, <3>1 DEF Changing
  <2> QED BY <1>6, <2>1, <2>2 DEF CacheSound, Changing
<1> QED BY <1>7, <1>8, <1>9, <1>10, <1>11, <1>12, <1>16, <1>17 DEF RoutesInv


LEMMA AnnounceStep ==
    ASSUME RoutesInv, NEW t \in Threads, Routes!Announce(t)
    PROVE  RoutesInv'
<1> DEFINE c == thread[t]
<1>1. c.pc = "announce" /\ Busy(t) /\ c \in CallRecords /\ c.on \in Devices /\ CallSound(t) /\ Separated
  BY BusyCall DEF Routes!Announce, Routes!At, Busy, RoutesInv, CallRecords
<1>2. c.kind = "create" /\ ~Wrote(c)
  BY <1>1 DEF CallSound, Staged, Wrote
<1>3. PICK r : r = [c EXCEPT !.pc = "load"]
  OBVIOUS
<1>4. /\ r \in CallRecords /\ r.kind = c.kind /\ r.on = c.on
      /\ r.bypass = c.bypass /\ r.generation = c.generation /\ r.device = c.device
      /\ r.next = c.next /\ r.bump = c.bump /\ r.table = c.table
      /\ r.pc = "load" /\ r.object = c.object
  <2>1. "load" \in Steps
    BY <1>2 DEF Steps
  <2> HIDE DEF c
  <2> QED BY <1>1, <1>3, <2>1, Zenon DEF CallRecords
<1>5. thread' = [thread EXCEPT ![t] = r]
  BY <1>3 DEF Routes!Announce, Routes!To
<1>6. /\ emulated' = emulated \cup {c.on} /\ primary' = c.on /\ lastDevice' = c.on
      /\ UNCHANGED <<live, owner, created, tables, flags, writer, generation, single, bypass, device,
                     info, context, tableCache>>
  BY DEF Routes!Announce, Routes!driver, Routes!routes
<1>7. /\ thread' \in [Threads -> CallRecords \cup {Routes!Idle}]
      /\ thread'[t] = r /\ \A u \in Threads : u # t => thread'[u] = thread[u]
      /\ Busy(t)' /\ \A u \in Threads : Busy(u)' <=> Busy(u)
      /\ Separated'
      /\ \A d \in Devices : Routes!Returned(d)' <=> Routes!Returned(d)
  BY <1>1, <1>4, <1>5, <1>6, GoesOn DEF RoutesInv
<1>8. RoutesType'
  BY <1>1, <1>6, <1>7 DEF RoutesType, RoutesInv, Handles
<1>9. Locked'
  BY <1>2, <1>4, <1>6, <1>7 DEF RoutesInv, Locked, Wrote
<1>10. (primary \in emulated \cup {Null})' /\ (bypass = Routes!Bypass(tables, flags))'
  BY <1>6 DEF RoutesInv, Routes!Bypass, Routes!Single
<1>11. ASSUME NEW u \in Threads PROVE CallSound(u)'
  <2>1. CallSound(u)
    BY DEF RoutesInv
  <2>2. CASE u = t
    <3>1. Staged(r)' /\ Holds(r)' /\ Finds(r)'
      BY <1>1, <1>2, <1>4, <1>6 DEF CallSound, Staged, Wrote, Holds, Finds
    <3>2. Making(r)' /\ Unmaking(r)'
      BY <1>1, <1>2, <1>4, <1>6 DEF CallSound, Making, Unmaking, Unowned
    <3> QED BY <1>7, <2>2, <3>1, <3>2 DEF CallSound
  <2>3. CASE u # t /\ Busy(u)
    <3>1. thread[u].on # c.on
      BY <1>1, <1>2, <2>3, Alone DEF RoutesInv
    <3> QED BY <1>6, <1>7, <2>1, <2>3, <3>1
       DEF CallSound, Staged, Wrote, Holds, Finds, Making, Unmaking, Forgot, Bare, Unowned, Told
  <2>4. CASE u # t /\ ~Busy(u)
    BY <1>7, <2>4 DEF CallSound
  <2> QED BY <2>2, <2>3, <2>4
<1>12. ASSUME NEW d \in Devices PROVE DeviceSound(d)'
  <2>1. live[c.on] # 0
    BY <1>1 DEF CallSound, Finds
  <2> QED BY <1>6, <1>7, <2>1 DEF RoutesInv, DeviceSound, Bare, Unowned, Told
<1>13. \A o \in Routes!Objects : ObjectSound(o)'
  BY <1>1, <1>4, <1>5, <1>6, ObjectsKept DEF RoutesInv
<1>14. ASSUME NEW u \in Threads PROVE CacheSound(tableCache[u])'
  <2>1. CacheSound(tableCache[u])
    BY DEF RoutesInv
  <2>2. \A d : Changing(d) => writer # Null /\ thread'[writer].bump /\ thread'[writer].on = d
    <3>1. ASSUME writer # Null PROVE writer \in Threads /\ writer # t
      BY <1>2, <3>1 DEF RoutesInv, RoutesType, Locked
    <3> QED BY <1>7, <3>1 DEF Changing
  <2> QED BY <1>6, <2>1, <2>2 DEF CacheSound, Changing
<1> QED BY <1>7, <1>8, <1>9, <1>10, <1>11, <1>12, <1>13, <1>14 DEF RoutesInv

LEMMA DestroyRecordsStep ==
    ASSUME RoutesInv, NEW t \in Threads, Routes!DestroyRecords(t)
    PROVE  RoutesInv'
<1> DEFINE c == thread[t]
<1>1. c.pc = "norecords" /\ Busy(t) /\ c \in CallRecords /\ c.on \in Devices /\ CallSound(t) /\ Separated
  BY BusyCall DEF Routes!DestroyRecords, Routes!At, Busy, RoutesInv, CallRecords
<1>2. c.kind = "destroy" /\ ~Wrote(c)
  BY <1>1 DEF CallSound, Staged, Wrote
<1> DEFINE p == IF c.on \in context THEN "lookup" ELSE "forget"
<1>3. PICK r : r = [c EXCEPT !.pc = p]
  OBVIOUS
<1>4. /\ r \in CallRecords /\ r.kind = c.kind /\ r.on = c.on
      /\ r.bypass = c.bypass /\ r.generation = c.generation /\ r.device = c.device
      /\ r.next = c.next /\ r.bump = c.bump /\ r.table = c.table
      /\ r.pc = p /\ r.object = c.object
  <2>1. p \in Steps
    BY DEF Steps
  <2> HIDE DEF c, p
  <2> QED BY <1>1, <1>3, <2>1, Zenon DEF CallRecords
<1>5. thread' = [thread EXCEPT ![t] = r]
  BY <1>3 DEF Routes!DestroyRecords, Routes!To
<1>6. /\ device' = [o \in Routes!Objects |-> IF device[o] = c.on THEN Null ELSE device[o]]
      /\ lastDevice' = IF lastDevice = c.on THEN Null ELSE lastDevice
      /\ context' = context \ {c.on}
      /\ UNCHANGED <<live, owner, created, tables, flags, writer, generation, single, bypass,
                     emulated, primary, info, tableCache>>
  BY DEF Routes!DestroyRecords, Routes!driver, Routes!routes
<1>7. /\ thread' \in [Threads -> CallRecords \cup {Routes!Idle}]
      /\ thread'[t] = r /\ \A u \in Threads : u # t => thread'[u] = thread[u]
      /\ Busy(t)' /\ \A u \in Threads : Busy(u)' <=> Busy(u)
      /\ Separated'
      /\ \A d \in Devices : Routes!Returned(d)' <=> Routes!Returned(d)
  BY <1>1, <1>4, <1>5, <1>6, GoesOn DEF RoutesInv
<1>8. RoutesType'
  BY <1>1, <1>6, <1>7 DEF RoutesType, RoutesInv, Handles
<1>9. Locked'
  BY <1>2, <1>4, <1>6, <1>7 DEF RoutesInv, Locked, Wrote
<1>10. (primary \in emulated \cup {Null})' /\ (bypass = Routes!Bypass(tables, flags))'
  BY <1>6 DEF RoutesInv, Routes!Bypass, Routes!Single
<1>15. \A d \in Devices :
          /\ lastDevice # d => lastDevice' # d
          /\ \A o \in Routes!Objects : device[o] # d => device'[o] # d
  BY <1>6, RoutesAssumption
<1>16. lastDevice' # c.on /\ \A o \in Routes!Objects : device'[o] # c.on
  BY <1>1, <1>6, RoutesAssumption
<1>11. ASSUME NEW u \in Threads PROVE CallSound(u)'
  <2>1. CallSound(u)
    BY DEF RoutesInv
  <2>2. CASE u = t
    <3>1. Staged(r)' /\ Holds(r)' /\ Finds(r)'
      BY <1>1, <1>2, <1>4, <1>6 DEF CallSound, Staged, Wrote, Holds, Finds
    <3>2. Making(r)' /\ Unmaking(r)'
      BY <1>1, <1>2, <1>4, <1>6, <1>16 DEF CallSound, Making, Unmaking
    <3> QED BY <1>7, <2>2, <3>1, <3>2 DEF CallSound
  <2>3. CASE u # t /\ Busy(u)
    <3>1. thread[u] \in CallRecords /\ thread[u].on \in Devices
      BY <2>3, BusyCall DEF RoutesInv, CallRecords
    <3> QED BY <1>6, <1>7, <1>15, <2>1, <2>3, <3>1
       DEF CallSound, Staged, Wrote, Holds, Finds, Making, Unmaking, Forgot, Bare, Unowned, Told
  <2>4. CASE u # t /\ ~Busy(u)
    BY <1>7, <2>4 DEF CallSound
  <2> QED BY <2>2, <2>3, <2>4
<1>12. ASSUME NEW d \in Devices PROVE DeviceSound(d)'
  BY <1>6, <1>7, <1>15 DEF RoutesInv, DeviceSound, Bare, Unowned, Told
<1>13. ASSUME NEW o \in Routes!Objects PROVE ObjectSound(o)'
  <2>1. \A u \in Threads : Busy(u) /\ Excuses(thread[u], o) => Busy(u)' /\ Excuses(thread[u], o)'
    BY <1>4, <1>6, <1>7 DEF Excuses
  <2>2. ObjectSound(o) /\ owner'[o] = owner[o]
    BY <1>6 DEF RoutesInv
  <2>3. CASE device[o] = c.on /\ owner[o] = c.on
    BY <1>2, <1>4, <1>6, <1>7, <2>3 DEF ObjectSound, Excuses
  <2>4. CASE device[o] = c.on /\ owner[o] # c.on
    BY <2>1, <2>2, <2>4 DEF ObjectSound
  <2>5. CASE device[o] # c.on
    BY <1>6, <2>1, <2>2, <2>5 DEF ObjectSound
  <2> QED BY <2>3, <2>4, <2>5
<1>14. ASSUME NEW u \in Threads PROVE CacheSound(tableCache[u])'
  <2>1. CacheSound(tableCache[u])
    BY DEF RoutesInv
  <2>2. \A d : Changing(d) => writer # Null /\ thread'[writer].bump /\ thread'[writer].on = d
    <3>1. ASSUME writer # Null PROVE writer \in Threads /\ writer # t
      BY <1>2, <3>1 DEF RoutesInv, RoutesType, Locked
    <3> QED BY <1>7, <3>1 DEF Changing
  <2> QED BY <1>6, <2>1, <2>2 DEF CacheSound, Changing
<1> QED BY <1>7, <1>8, <1>9, <1>10, <1>11, <1>12, <1>13, <1>14 DEF RoutesInv

LEMMA ForgetStep ==
    ASSUME RoutesInv, NEW t \in Threads, Routes!Forget(t)
    PROVE  RoutesInv'
<1> DEFINE c == thread[t]
<1>1. c.pc = "forget" /\ Busy(t) /\ c \in CallRecords /\ c.on \in Devices /\ CallSound(t) /\ Separated
  BY BusyCall DEF Routes!Forget, Routes!At, Busy, RoutesInv, CallRecords
<1>2. c.kind = "destroy" /\ ~Wrote(c)
  BY <1>1 DEF CallSound, Staged, Wrote
<1>3. PICK r : r = [c EXCEPT !.pc = "destroy"]
  OBVIOUS
<1>4. /\ r \in CallRecords /\ r.kind = c.kind /\ r.on = c.on
      /\ r.bypass = c.bypass /\ r.generation = c.generation /\ r.device = c.device
      /\ r.next = c.next /\ r.bump = c.bump /\ r.table = c.table
      /\ r.pc = "destroy" /\ r.object = c.object
  <2>1. "destroy" \in Steps
    BY <1>2 DEF Steps
  <2> HIDE DEF c
  <2> QED BY <1>1, <1>3, <2>1, Zenon DEF CallRecords
<1>5. thread' = [thread EXCEPT ![t] = r]
  BY <1>3 DEF Routes!Forget, Routes!To
<1>6. /\ emulated' = emulated \ {c.on} /\ info' = [info EXCEPT ![c.on] = 0]
      /\ UNCHANGED <<live, owner, created, tables, flags, writer, generation, single, bypass, device,
                     lastDevice, context, tableCache>>
  BY DEF Routes!Forget, Routes!driver, Routes!routes
<1>15. primary' \in emulated' \cup {Null}
  <2>1. CASE primary # c.on
    BY <1>6, <2>1 DEF Routes!Forget, RoutesInv
  <2>2. CASE primary = c.on
    BY <1>6, <2>2 DEF Routes!Forget
  <2> QED BY <2>1, <2>2
<1>7. /\ thread' \in [Threads -> CallRecords \cup {Routes!Idle}]
      /\ thread'[t] = r /\ \A u \in Threads : u # t => thread'[u] = thread[u]
      /\ Busy(t)' /\ \A u \in Threads : Busy(u)' <=> Busy(u)
      /\ Separated'
      /\ \A d \in Devices : Routes!Returned(d)' <=> Routes!Returned(d)
  BY <1>1, <1>4, <1>5, <1>6, GoesOn DEF RoutesInv
<1>8. RoutesType'
  BY <1>1, <1>6, <1>7 DEF RoutesType, RoutesInv, Handles
<1>9. Locked'
  BY <1>2, <1>4, <1>6, <1>7 DEF RoutesInv, Locked, Wrote
<1>10. (primary \in emulated \cup {Null})' /\ (bypass = Routes!Bypass(tables, flags))'
  BY <1>6, <1>15 DEF RoutesInv, Routes!Bypass, Routes!Single
<1>16. info'[c.on] = 0 /\ \A d \in Devices : d # c.on => info'[d] = info[d]
  BY <1>1, <1>6 DEF RoutesInv, RoutesType
<1>11. ASSUME NEW u \in Threads PROVE CallSound(u)'
  <2>1. CallSound(u)
    BY DEF RoutesInv
  <2>2. CASE u = t
    <3>1. Staged(r)' /\ Holds(r)' /\ Finds(r)'
      BY <1>1, <1>2, <1>4, <1>6 DEF CallSound, Staged, Wrote, Holds, Finds
    <3>2. Making(r)' /\ Unmaking(r)'
      BY <1>1, <1>2, <1>4, <1>6, <1>16 DEF CallSound, Making, Unmaking, Forgot
    <3> QED BY <1>7, <2>2, <3>1, <3>2 DEF CallSound
  <2>3. CASE u # t /\ Busy(u)
    <3>1. thread[u].on # c.on /\ thread[u] \in CallRecords /\ thread[u].on \in Devices
      BY <1>1, <1>2, <2>3, Alone, BusyCall DEF RoutesInv, CallRecords
    <3> QED BY <1>6, <1>7, <1>16, <2>1, <2>3, <3>1
       DEF CallSound, Staged, Wrote, Holds, Finds, Making, Unmaking, Forgot, Bare, Unowned, Told
  <2>4. CASE u # t /\ ~Busy(u)
    BY <1>7, <2>4 DEF CallSound
  <2> QED BY <2>2, <2>3, <2>4
<1>12. ASSUME NEW d \in Devices PROVE DeviceSound(d)'
  <2>1. CASE d = c.on
    <3>1. live[d] # 0
      BY <1>1, <2>1 DEF CallSound, Finds
    <3>2. ~Routes!Returned(d)
      BY <1>1, <1>2, <2>1 DEF Routes!Returned, Routes!Using, Routes!At
    <3> QED BY <1>6, <1>7, <3>1, <3>2 DEF DeviceSound
  <2>2. CASE d # c.on
    BY <1>6, <1>7, <1>16, <2>2 DEF RoutesInv, DeviceSound, Bare, Unowned, Told
  <2> QED BY <2>1, <2>2
<1>13. \A o \in Routes!Objects : ObjectSound(o)'
  BY <1>1, <1>4, <1>5, <1>6, ObjectsKept DEF RoutesInv
<1>14. ASSUME NEW u \in Threads PROVE CacheSound(tableCache[u])'
  <2>1. CacheSound(tableCache[u])
    BY DEF RoutesInv
  <2>2. \A d : Changing(d) => writer # Null /\ thread'[writer].bump /\ thread'[writer].on = d
    <3>1. ASSUME writer # Null PROVE writer \in Threads /\ writer # t
      BY <1>2, <3>1 DEF RoutesInv, RoutesType, Locked
    <3> QED BY <1>7, <3>1 DEF Changing
  <2> QED BY <1>6, <2>1, <2>2 DEF CacheSound, Changing
<1> QED BY <1>7, <1>8, <1>9, <1>10, <1>11, <1>12, <1>13, <1>14 DEF RoutesInv


-----------------------------------------------------------------------------
(* DispatchTables: calls return.                                            *)

LEMMA Returns ==
    ASSUME RoutesType, Separated, Locked, NEW t \in Threads, Busy(t), ~Wrote(thread[t]),
           Routes!Return(t), writer' = writer
    PROVE  /\ thread' \in [Threads -> CallRecords \cup {Routes!Idle}]
           /\ ~Busy(t)' /\ \A u \in Threads : u # t => thread'[u] = thread[u] /\ (Busy(u)' <=> Busy(u))
           /\ Separated' /\ Locked'
           /\ \A d \in Devices :
                 live'[d] = live[d] /\ (thread[t].kind \in RegularKinds \/ thread[t].on # d)
                    => (Routes!Returned(d)' <=> Routes!Returned(d))
           /\ \A d : Changing(d) => Changing(d)'
<1>1. thread \in [Threads -> CallRecords \cup {Routes!Idle}] /\ thread' = [thread EXCEPT ![t] = Routes!Idle]
  BY DEF RoutesType, Routes!Return
<1>2. /\ thread' \in [Threads -> CallRecords \cup {Routes!Idle}]
      /\ thread'[t] = Routes!Idle /\ \A u \in Threads : u # t => thread'[u] = thread[u]
  BY <1>1
<1>3. Routes!Idle.pc = "idle"
  BY DEF Routes!Idle
<1>4. ~Busy(t)' /\ \A u \in Threads : u # t => (Busy(u)' <=> Busy(u))
  BY <1>2, <1>3 DEF Busy
<1>5. Separated'
  BY <1>2, <1>4, Zenon DEF Separated, Together
<1>6. Locked'
  BY <1>2, <1>3 DEF Locked, Wrote
<1>7. ASSUME NEW d \in Devices, live'[d] = live[d],
             thread[t].kind \in RegularKinds \/ thread[t].on # d
      PROVE  Routes!Returned(d)' <=> Routes!Returned(d)
  <2>1. \A u \in Threads : u \in Routes!Using(d)' <=> (u \in Routes!Using(d) /\ u # t)
    BY <1>2, <1>3, <1>4 DEF Routes!Using, Routes!At
  <2>2. \A u \in Threads : u # t => thread'[u].kind = thread[u].kind
    BY <1>2
  <2>3. t \in Routes!Using(d) => thread[t].kind \notin {"create", "destroy"}
    BY <1>7 DEF Routes!Using, RegularKinds
  <2>4. Routes!Using(d) \subseteq Threads /\ Routes!Using(d)' \subseteq Threads
    BY DEF Routes!Using
  <2> QED BY <2>1, <2>2, <2>3, <2>4, <1>7 DEF Routes!Returned
<1>8. ASSUME NEW d, Changing(d) PROVE Changing(d)'
  <2>1. writer \in Threads /\ writer # t
    BY <1>8 DEF Changing, RoutesType, Locked
  <2> QED BY <1>2, <1>8, <2>1 DEF Changing
<1> QED BY <1>2, <1>4, <1>5, <1>6, <1>7, <1>8

LEMMA NativeStep ==
    ASSUME RoutesInv, NEW t \in Threads, Routes!Native(t)
    PROVE  RoutesInv'
<1> DEFINE c == thread[t]
<1>1. c.pc = "native" /\ Busy(t) /\ c \in CallRecords /\ c.on \in Devices /\ c.on # Null /\ CallSound(t)
  BY BusyCall, RoutesAssumption DEF Routes!Native, Routes!At, Busy, RoutesInv, CallRecords
<1>2. c.kind \in {"draw", "submit", "reset"} /\ c.kind \in RegularKinds /\ ~Wrote(c)
  BY <1>1 DEF CallSound, Staged, Wrote, RegularKinds
<1>3. UNCHANGED <<live, owner, created, tables, flags, writer, generation, single, bypass,
                  device, lastDevice, emulated, primary, info, context, tableCache>>
  BY DEF Routes!Native, Routes!driver, Routes!routes, Routes!records
<1>4. Routes!Return(t)
  BY DEF Routes!Native
<1>5. /\ thread' \in [Threads -> CallRecords \cup {Routes!Idle}]
      /\ ~Busy(t)' /\ \A u \in Threads : u # t => thread'[u] = thread[u] /\ (Busy(u)' <=> Busy(u))
      /\ Separated' /\ Locked'
      /\ \A d \in Devices : live'[d] = live[d] /\ (c.kind \in RegularKinds \/ c.on # d)
                           => (Routes!Returned(d)' <=> Routes!Returned(d))
      /\ \A d : Changing(d) => Changing(d)'
  BY <1>1, <1>2, <1>3, <1>4, Returns DEF RoutesInv
<1>6. RoutesType'
  BY <1>1, <1>3, <1>5 DEF RoutesType, RoutesInv, Handles
<1>7. (primary \in emulated \cup {Null})' /\ (bypass = Routes!Bypass(tables, flags))'
  BY <1>3 DEF RoutesInv, Routes!Bypass, Routes!Single
<1>8. ASSUME NEW u \in Threads PROVE CallSound(u)'
  <2>1. CallSound(u)
    BY DEF RoutesInv
  <2>2. CASE u # t /\ Busy(u)
    BY <1>3, <1>5, <2>1, <2>2
       DEF CallSound, Staged, Wrote, Holds, Finds, Making, Unmaking, Forgot, Bare, Unowned, Told
  <2> QED BY <1>5, <2>2 DEF CallSound
<1>9. ASSUME NEW d \in Devices PROVE DeviceSound(d)'
  BY <1>2, <1>3, <1>5 DEF RoutesInv, DeviceSound, Bare, Unowned, Told
<1>10. ASSUME NEW o \in Routes!Objects PROVE ObjectSound(o)'
  <2>1. owner'[o] # Null => owner'[o] = owner[o] /\ (Busy(t) => ~Excuses(thread[t], o))
    BY <1>2, <1>3 DEF Excuses
  <2>2. \A u \in Threads : u # t /\ owner'[o] = owner[o] /\ Busy(u) /\ Excuses(thread[u], o)
                          => Busy(u)' /\ Excuses(thread[u], o)'
    BY <1>5 DEF Excuses
  <2> QED BY <1>3, <2>1, <2>2 DEF RoutesInv, ObjectSound
<1>11. ASSUME NEW u \in Threads PROVE CacheSound(tableCache[u])'
  BY <1>3, <1>5 DEF RoutesInv, CacheSound
<1> QED BY <1>5, <1>6, <1>7, <1>8, <1>9, <1>10, <1>11 DEF RoutesInv

LEMMA CreateInfoStep ==
    ASSUME RoutesInv, NEW t \in Threads, Routes!CreateInfo(t)
    PROVE  RoutesInv'
<1> DEFINE c == thread[t]
<1>1. c.pc = "info" /\ Busy(t) /\ c \in CallRecords /\ c.on \in Devices /\ c.on # Null /\ CallSound(t)
  BY BusyCall, RoutesAssumption DEF Routes!CreateInfo, Routes!At, Busy, RoutesInv, CallRecords
<1>2. c.kind = "create" /\ ~Wrote(c)
  BY <1>1 DEF CallSound, Staged, Wrote
<1>3. UNCHANGED <<live, owner, created, tables, flags, writer, generation, single, bypass,
                  device, lastDevice, emulated, primary, context, tableCache>>
  BY DEF Routes!CreateInfo, Routes!driver, Routes!routes, Routes!records
<1>4. Routes!Return(t)
  BY DEF Routes!CreateInfo
<1>12. info' = [info EXCEPT ![c.on] = live[c.on]]
  BY DEF Routes!CreateInfo
<1>13. info'[c.on] = live[c.on] /\ \A d \in Devices : d # c.on => info'[d] = info[d]
  BY <1>1, <1>12 DEF RoutesInv, RoutesType
<1>5. /\ thread' \in [Threads -> CallRecords \cup {Routes!Idle}]
      /\ ~Busy(t)' /\ \A u \in Threads : u # t => thread'[u] = thread[u] /\ (Busy(u)' <=> Busy(u))
      /\ Separated' /\ Locked'
      /\ \A d \in Devices : live'[d] = live[d] /\ (c.kind \in RegularKinds \/ c.on # d)
                           => (Routes!Returned(d)' <=> Routes!Returned(d))
      /\ \A d : Changing(d) => Changing(d)'
  BY <1>1, <1>2, <1>3, <1>4, Returns DEF RoutesInv
<1>6. RoutesType'
  BY <1>1, <1>3, <1>5, <1>12 DEF RoutesType, RoutesInv, Handles
<1>7. (primary \in emulated \cup {Null})' /\ (bypass = Routes!Bypass(tables, flags))'
  BY <1>3 DEF RoutesInv, Routes!Bypass, Routes!Single
<1>8. ASSUME NEW u \in Threads PROVE CallSound(u)'
  <2>1. CallSound(u)
    BY DEF RoutesInv
  <2>2. CASE u # t /\ Busy(u)
    <3>1. thread[u] \in CallRecords /\ thread[u].on \in Devices /\ thread[u].on # Null
      BY <2>2, BusyCall, RoutesAssumption DEF RoutesInv, CallRecords
    <3>2. thread[u].on # c.on
      BY <1>1, <1>2, <2>2, Alone DEF RoutesInv
    <3> QED BY <1>3, <1>5, <1>13, <2>1, <2>2, <3>1, <3>2
       DEF CallSound, Staged, Wrote, Holds, Finds, Making, Unmaking, Forgot, Bare, Unowned, Told
  <2> QED BY <1>5, <2>2 DEF CallSound
<1>9. ASSUME NEW d \in Devices PROVE DeviceSound(d)'
  <2>1. CASE d = c.on
    <3>1. live[d] # 0
      BY <1>1, <2>1 DEF CallSound, Finds
    <3>2. d \in emulated /\ tables[d] = live[d] /\ flags[d] = live[d] /\ Told(d)
      BY <1>1, <1>2, <2>1 DEF CallSound, Making
    <3> QED BY <1>3, <1>13, <2>1, <3>1, <3>2 DEF DeviceSound, Told
  <2>2. CASE d # c.on
    BY <1>3, <1>5, <1>13, <2>2 DEF RoutesInv, DeviceSound, Bare, Unowned, Told
  <2> QED BY <2>1, <2>2
<1>10. ASSUME NEW o \in Routes!Objects PROVE ObjectSound(o)'
  <2>1. owner'[o] # Null => owner'[o] = owner[o] /\ (Busy(t) => ~Excuses(thread[t], o))
    BY <1>2, <1>3 DEF Excuses
  <2>2. \A u \in Threads : u # t /\ owner'[o] = owner[o] /\ Busy(u) /\ Excuses(thread[u], o)
                          => Busy(u)' /\ Excuses(thread[u], o)'
    BY <1>5 DEF Excuses
  <2> QED BY <1>3, <2>1, <2>2 DEF RoutesInv, ObjectSound
<1>11. ASSUME NEW u \in Threads PROVE CacheSound(tableCache[u])'
  BY <1>3, <1>5 DEF RoutesInv, CacheSound
<1> QED BY <1>5, <1>6, <1>7, <1>8, <1>9, <1>10, <1>11 DEF RoutesInv

LEMMA StartFailsStep ==
    ASSUME RoutesInv, NEW t \in Threads, Routes!StartFails(t)
    PROVE  RoutesInv'
<1> DEFINE c == thread[t]
<1>1. c.pc = "announce" /\ Busy(t) /\ c \in CallRecords /\ c.on \in Devices /\ c.on # Null /\ CallSound(t)
  BY BusyCall, RoutesAssumption DEF Routes!StartFails, Routes!At, Busy, RoutesInv, CallRecords
<1>2. c.kind = "create" /\ ~Wrote(c)
  BY <1>1 DEF CallSound, Staged, Wrote
<1>3. UNCHANGED <<owner, created, tables, flags, writer, generation, single, bypass, device,
                  lastDevice, emulated, primary, info, context, tableCache>>
  BY DEF Routes!StartFails, Routes!driver, Routes!routes, Routes!records
<1>4. Routes!Return(t)
  BY DEF Routes!StartFails
<1>12. live' = [live EXCEPT ![c.on] = 0]
  BY DEF Routes!StartFails
<1>13. live'[c.on] = 0 /\ \A d \in Devices : d # c.on => live'[d] = live[d]
  BY <1>1, <1>12 DEF RoutesInv, RoutesType
<1>5. /\ thread' \in [Threads -> CallRecords \cup {Routes!Idle}]
      /\ ~Busy(t)' /\ \A u \in Threads : u # t => thread'[u] = thread[u] /\ (Busy(u)' <=> Busy(u))
      /\ Separated' /\ Locked'
      /\ \A d \in Devices : live'[d] = live[d] /\ (c.kind \in RegularKinds \/ c.on # d)
                           => (Routes!Returned(d)' <=> Routes!Returned(d))
      /\ \A d : Changing(d) => Changing(d)'
  BY <1>1, <1>2, <1>3, <1>4, Returns DEF RoutesInv
<1>6. RoutesType'
  BY <1>1, <1>3, <1>5, <1>12 DEF RoutesType, RoutesInv, Handles
<1>7. (primary \in emulated \cup {Null})' /\ (bypass = Routes!Bypass(tables, flags))'
  BY <1>3 DEF RoutesInv, Routes!Bypass, Routes!Single
<1>8. ASSUME NEW u \in Threads PROVE CallSound(u)'
  <2>1. CallSound(u)
    BY DEF RoutesInv
  <2>2. CASE u # t /\ Busy(u)
    <3>1. thread[u] \in CallRecords /\ thread[u].on \in Devices /\ thread[u].on # Null
      BY <2>2, BusyCall, RoutesAssumption DEF RoutesInv, CallRecords
    <3>2. thread[u].on # c.on
      BY <1>1, <1>2, <2>2, Alone DEF RoutesInv
    <3> QED BY <1>3, <1>5, <1>13, <2>1, <2>2, <3>1, <3>2
       DEF CallSound, Staged, Wrote, Holds, Finds, Making, Unmaking, Forgot, Bare, Unowned, Told
  <2> QED BY <1>5, <2>2 DEF CallSound
<1>9. ASSUME NEW d \in Devices PROVE DeviceSound(d)'
  <2>1. CASE d = c.on
    <3>1. Bare(d) /\ Unowned(d)
      BY <1>1, <1>2, <2>1 DEF CallSound, Making
    <3>2. ~Routes!Returned(d)'
      BY <1>13, <2>1 DEF Routes!Returned
    <3> QED BY <1>3, <3>1, <3>2 DEF DeviceSound, Bare, Unowned
  <2>2. CASE d # c.on
    BY <1>3, <1>5, <1>13, <2>2 DEF RoutesInv, DeviceSound, Bare, Unowned, Told
  <2> QED BY <2>1, <2>2
<1>10. ASSUME NEW o \in Routes!Objects PROVE ObjectSound(o)'
  <2>1. owner'[o] # Null => owner'[o] = owner[o] /\ (Busy(t) => ~Excuses(thread[t], o))
    BY <1>2, <1>3 DEF Excuses
  <2>2. \A u \in Threads : u # t /\ owner'[o] = owner[o] /\ Busy(u) /\ Excuses(thread[u], o)
                          => Busy(u)' /\ Excuses(thread[u], o)'
    BY <1>5 DEF Excuses
  <2> QED BY <1>3, <2>1, <2>2 DEF RoutesInv, ObjectSound
<1>11. ASSUME NEW u \in Threads PROVE CacheSound(tableCache[u])'
  BY <1>3, <1>5 DEF RoutesInv, CacheSound
<1> QED BY <1>5, <1>6, <1>7, <1>8, <1>9, <1>10, <1>11 DEF RoutesInv

LEMMA NativeDestroyStep ==
    ASSUME RoutesInv, NEW t \in Threads, Routes!NativeDestroy(t)
    PROVE  RoutesInv'
<1> DEFINE c == thread[t]
<1>1. c.pc = "destroy" /\ Busy(t) /\ c \in CallRecords /\ c.on \in Devices /\ c.on # Null /\ CallSound(t)
  BY BusyCall, RoutesAssumption DEF Routes!NativeDestroy, Routes!At, Busy, RoutesInv, CallRecords
<1>2. c.kind = "destroy" /\ ~Wrote(c)
  BY <1>1 DEF CallSound, Staged, Wrote
<1>3. UNCHANGED <<created, tables, flags, writer, generation, single, bypass, device, lastDevice,
                  emulated, primary, info, context, tableCache>>
  BY DEF Routes!NativeDestroy, Routes!driver, Routes!routes, Routes!records
<1>4. Routes!Return(t)
  BY DEF Routes!NativeDestroy
<1>12. /\ live' = [live EXCEPT ![c.on] = 0]
       /\ owner' = [o \in Routes!Objects |-> IF owner[o] = c.on THEN Null ELSE owner[o]]
  BY DEF Routes!NativeDestroy
<1>13. live'[c.on] = 0 /\ \A d \in Devices : d # c.on => live'[d] = live[d]
  BY <1>1, <1>12 DEF RoutesInv, RoutesType
<1>14. /\ \A o \in Routes!Objects : owner'[o] # c.on
       /\ \A o \in Routes!Objects : owner[o] # c.on => owner'[o] = owner[o]
       /\ \A o \in Routes!Objects : owner[o] = c.on => owner'[o] = Null
  BY <1>1, <1>12
<1>5. /\ thread' \in [Threads -> CallRecords \cup {Routes!Idle}]
      /\ ~Busy(t)' /\ \A u \in Threads : u # t => thread'[u] = thread[u] /\ (Busy(u)' <=> Busy(u))
      /\ Separated' /\ Locked'
      /\ \A d \in Devices : live'[d] = live[d] /\ (c.kind \in RegularKinds \/ c.on # d)
                           => (Routes!Returned(d)' <=> Routes!Returned(d))
      /\ \A d : Changing(d) => Changing(d)'
  BY <1>1, <1>2, <1>3, <1>4, Returns DEF RoutesInv
<1>6. RoutesType'
  BY <1>1, <1>3, <1>5, <1>12 DEF RoutesType, RoutesInv, Handles
<1>7. (primary \in emulated \cup {Null})' /\ (bypass = Routes!Bypass(tables, flags))'
  BY <1>3 DEF RoutesInv, Routes!Bypass, Routes!Single
<1>8. ASSUME NEW u \in Threads PROVE CallSound(u)'
  <2>1. CallSound(u)
    BY DEF RoutesInv
  <2>2. CASE u # t /\ Busy(u)
    <3>1. thread[u] \in CallRecords /\ thread[u].on \in Devices /\ thread[u].on # Null
      BY <2>2, BusyCall, RoutesAssumption DEF RoutesInv, CallRecords
    <3>2. thread[u].on # c.on
      BY <1>1, <1>2, <2>2, Alone DEF RoutesInv
    <3>3. Holds(thread[u])'
      BY <1>5, <1>14, <2>1, <2>2, <3>1, <3>2 DEF CallSound, Holds, Routes!Objects, CallRecords
    <3>4. Unowned(thread[u].on) => Unowned(thread[u].on)'
      BY <1>5, <1>14, <2>2, <3>1 DEF Unowned
    <3> QED BY <1>3, <1>5, <1>13, <2>1, <2>2, <3>1, <3>2, <3>3, <3>4
       DEF CallSound, Staged, Wrote, Finds, Making, Unmaking, Forgot, Bare, Told
  <2> QED BY <1>5, <2>2 DEF CallSound
<1>9. ASSUME NEW d \in Devices PROVE DeviceSound(d)'
  <2>1. CASE d = c.on
    <3>1. Bare(d)
      <4>1. flags[d] = 0 /\ lastDevice # d /\ (\A o \in Routes!Objects : device[o] # d)
            /\ d \notin emulated /\ info[d] = 0
        BY <1>1, <1>2, <2>1 DEF CallSound, Unmaking, Forgot
      <4> QED BY <4>1 DEF Bare
    <3>2. ~Routes!Returned(d)'
      BY <1>13, <2>1 DEF Routes!Returned
    <3> QED BY <1>3, <1>14, <2>1, <3>1, <3>2 DEF DeviceSound, Bare, Unowned
  <2>2. CASE d # c.on
    <3>1. Unowned(d) => Unowned(d)'
      BY <1>14, <2>2, RoutesAssumption DEF Unowned
    <3> QED BY <1>3, <1>5, <1>13, <2>2, <3>1 DEF RoutesInv, DeviceSound, Bare, Told
  <2> QED BY <2>1, <2>2
<1>10. ASSUME NEW o \in Routes!Objects PROVE ObjectSound(o)'
  <2>1. owner'[o] # Null => owner'[o] = owner[o] /\ (Busy(t) => ~Excuses(thread[t], o))
    BY <1>2, <1>3, <1>14 DEF Excuses
  <2>2. \A u \in Threads : u # t /\ owner'[o] = owner[o] /\ Busy(u) /\ Excuses(thread[u], o)
                          => Busy(u)' /\ Excuses(thread[u], o)'
    BY <1>5 DEF Excuses
  <2> QED BY <1>3, <2>1, <2>2 DEF RoutesInv, ObjectSound
<1>11. ASSUME NEW u \in Threads PROVE CacheSound(tableCache[u])'
  BY <1>3, <1>5 DEF RoutesInv, CacheSound
<1> QED BY <1>5, <1>6, <1>7, <1>8, <1>9, <1>10, <1>11 DEF RoutesInv


LEMMA RecordStep ==
    ASSUME RoutesInv, NEW t \in Threads, Routes!Record(t)
    PROVE  RoutesInv'
<1> DEFINE c == thread[t]
<1>1. c.pc = "record" /\ Busy(t) /\ c \in CallRecords /\ c.on \in Devices /\ c.on # Null /\ CallSound(t)
  BY BusyCall, RoutesAssumption DEF Routes!Record, Routes!At, Busy, RoutesInv, CallRecords
<1>2. c.kind \in {"allocate", "queue"} /\ c.kind \in RegularKinds /\ ~Wrote(c)
  BY <1>1 DEF CallSound, Staged, Wrote, RegularKinds
<1>3. UNCHANGED <<live, owner, created, tables, flags, writer, generation, single, bypass,
                  lastDevice, emulated, primary, info, context, tableCache>>
  BY DEF Routes!Record, Routes!driver, Routes!routes, Routes!records
<1>4. Routes!Return(t)
  BY DEF Routes!Record
<1>12. /\ device' = [device EXCEPT ![c.object] = c.on]
       /\ c.object \in Routes!Objects /\ owner[c.object] = c.on /\ c.object # Null
  BY <1>1 DEF Routes!Record, CallSound, Holds, CallRecords
<1>13. device'[c.object] = c.on /\ \A o \in Routes!Objects : o # c.object => device'[o] = device[o]
  BY <1>1, <1>12 DEF RoutesInv, RoutesType
<1>5. /\ thread' \in [Threads -> CallRecords \cup {Routes!Idle}]
      /\ ~Busy(t)' /\ \A u \in Threads : u # t => thread'[u] = thread[u] /\ (Busy(u)' <=> Busy(u))
      /\ Separated' /\ Locked'
      /\ \A d \in Devices : live'[d] = live[d] /\ (c.kind \in RegularKinds \/ c.on # d)
                           => (Routes!Returned(d)' <=> Routes!Returned(d))
      /\ \A d : Changing(d) => Changing(d)'
  BY <1>1, <1>2, <1>3, <1>4, Returns DEF RoutesInv
<1>6. RoutesType'
  BY <1>1, <1>3, <1>5, <1>12 DEF RoutesType, RoutesInv, Handles
<1>7. (primary \in emulated \cup {Null})' /\ (bypass = Routes!Bypass(tables, flags))'
  BY <1>3 DEF RoutesInv, Routes!Bypass, Routes!Single
<1>8. ASSUME NEW u \in Threads PROVE CallSound(u)'
  <2>1. CallSound(u)
    BY DEF RoutesInv
  <2>2. CASE u # t /\ Busy(u)
    <3>1. thread[u] \in CallRecords /\ thread[u].on \in Devices /\ thread[u].on # Null
      BY <2>2, BusyCall, RoutesAssumption DEF RoutesInv, CallRecords
    <3>2. thread[u].kind \in {"create", "destroy"} => thread[u].on # c.on
      BY <1>1, <2>2, Alone DEF RoutesInv
    <3> QED BY <1>3, <1>5, <1>12, <1>13, <2>1, <2>2, <3>1, <3>2
       DEF CallSound, Staged, Wrote, Holds, Finds, Making, Unmaking, Forgot, Bare, Unowned, Told
  <2> QED BY <1>5, <2>2 DEF CallSound
<1>9. ASSUME NEW d \in Devices PROVE DeviceSound(d)'
  <2>1. live[c.on] # 0
    BY <1>1 DEF CallSound, Finds
  <2> QED BY <1>2, <1>3, <1>5, <1>12, <1>13, <2>1 DEF RoutesInv, DeviceSound, Bare, Unowned, Told
<1>10. ASSUME NEW o \in Routes!Objects PROVE ObjectSound(o)'
  <2>1. CASE o = c.object
    BY <1>3, <1>12, <1>13, <2>1 DEF ObjectSound
  <2>2. CASE o # c.object
    <3>1. ~Excuses(c, o)
      BY <1>2, <2>2 DEF Excuses
    <3>2. \A u \in Threads : u # t /\ Busy(u) /\ Excuses(thread[u], o) => Busy(u)' /\ Excuses(thread[u], o)'
      BY <1>3, <1>5 DEF Excuses
    <3> QED BY <1>3, <1>13, <2>2, <3>1, <3>2 DEF RoutesInv, ObjectSound
  <2> QED BY <2>1, <2>2
<1>11. ASSUME NEW u \in Threads PROVE CacheSound(tableCache[u])'
  BY <1>3, <1>5 DEF RoutesInv, CacheSound
<1> QED BY <1>5, <1>6, <1>7, <1>8, <1>9, <1>10, <1>11 DEF RoutesInv

LEMMA NativeFreeStep ==
    ASSUME RoutesInv, NEW t \in Threads, Routes!NativeFree(t)
    PROVE  RoutesInv'
<1> DEFINE c == thread[t]
<1>1. c.pc = "free" /\ Busy(t) /\ c \in CallRecords /\ c.on \in Devices /\ c.on # Null /\ CallSound(t)
  BY BusyCall, RoutesAssumption DEF Routes!NativeFree, Routes!At, Busy, RoutesInv, CallRecords
<1>2. c.kind \in {"free", "pool"} /\ c.kind \in RegularKinds /\ ~Wrote(c)
  BY <1>1 DEF CallSound, Staged, Wrote, RegularKinds
<1>3. UNCHANGED <<live, created, tables, flags, writer, generation, single, bypass, device,
                  lastDevice, emulated, primary, info, context, tableCache>>
  BY DEF Routes!NativeFree, Routes!driver, Routes!routes, Routes!records
<1>4. Routes!Return(t)
  BY DEF Routes!NativeFree
<1>12. owner' = [o \in Routes!Objects |->
           IF o = c.object \/ (c.kind = "pool" /\ o \in Commands /\ owner[o] = c.on)
           THEN Null ELSE owner[o]]
  BY DEF Routes!NativeFree
<1>13. /\ c.kind = "free" => c.object \in Commands /\ owner[c.object] = c.on
       /\ c.kind = "pool" => c.object = Null
  BY <1>1 DEF CallSound, Holds
<1>14. \A o \in Routes!Objects :
           /\ owner'[o] \in {Null, owner[o]}
           /\ o \notin Commands \/ owner[o] # c.on => owner'[o] = owner[o]
           /\ owner'[o] # Null => ~Excuses(c, o)
  <2> SUFFICES ASSUME NEW o \in Routes!Objects
               PROVE  /\ owner'[o] \in {Null, owner[o]}
                      /\ o \notin Commands \/ owner[o] # c.on => owner'[o] = owner[o]
                      /\ owner'[o] # Null => ~Excuses(c, o)
    OBVIOUS
  <2>1. o # Null
    BY RoutesAssumption DEF Routes!Objects
  <2> QED BY <1>2, <1>12, <1>13, <2>1 DEF Excuses
<1>5. /\ thread' \in [Threads -> CallRecords \cup {Routes!Idle}]
      /\ ~Busy(t)' /\ \A u \in Threads : u # t => thread'[u] = thread[u] /\ (Busy(u)' <=> Busy(u))
      /\ Separated' /\ Locked'
      /\ \A d \in Devices : live'[d] = live[d] /\ (c.kind \in RegularKinds \/ c.on # d)
                           => (Routes!Returned(d)' <=> Routes!Returned(d))
      /\ \A d : Changing(d) => Changing(d)'
  BY <1>1, <1>2, <1>3, <1>4, Returns DEF RoutesInv
<1>6. RoutesType'
  BY <1>1, <1>3, <1>5, <1>12 DEF RoutesType, RoutesInv, Handles
<1>7. (primary \in emulated \cup {Null})' /\ (bypass = Routes!Bypass(tables, flags))'
  BY <1>3 DEF RoutesInv, Routes!Bypass, Routes!Single
<1>8. ASSUME NEW u \in Threads PROVE CallSound(u)'
  <2>1. CallSound(u)
    BY DEF RoutesInv
  <2>2. CASE u # t /\ Busy(u)
    <3>1. thread[u] \in CallRecords /\ thread[u].on \in Devices /\ thread[u].on # Null
      BY <2>2, BusyCall, RoutesAssumption DEF RoutesInv, CallRecords
    <3>2. Together(thread[u], c)
      BY <1>1, <2>2 DEF RoutesInv, Separated
    <3>3. Holds(thread[u])'
      <4>1. thread[u].object \in Routes!Objects /\ owner[thread[u].object] = thread[u].on
               /\ (thread[u].object \in Commands => thread[u].kind \in Routes!PoolCalls)
            => owner'[thread[u].object] = thread[u].on
        BY <1>2, <1>14, <3>2 DEF Together, Routes!PoolCalls
      <4>2. thread[u].object \in Routes!Objects \cup {Null}
        BY <3>1 DEF CallRecords
      <4>3. thread[u].kind = "draw" \/ thread[u].kind = "free" =>
                thread[u].object \in Commands /\ owner[thread[u].object] = thread[u].on
        BY <2>1, <2>2 DEF CallSound, Holds
      <4>4. thread[u].kind = "submit" => thread[u].object \in Queues /\ owner[thread[u].object] = thread[u].on
        BY <2>1, <2>2 DEF CallSound, Holds
      <4>5. thread[u].pc = "record" =>
                /\ thread[u].kind \in {"allocate", "queue"} /\ thread[u].object # Null
                /\ owner[thread[u].object] = thread[u].on
                /\ (thread[u].object \in Commands => thread[u].kind \in Routes!PoolCalls)
        BY <2>1, <2>2, RoutesAssumption DEF CallSound, Staged, Wrote, Holds, Routes!PoolCalls
      <4>6. (thread[u].kind \in {"draw", "free", "submit"} \/ thread[u].pc = "record")
            => owner'[thread[u].object] = thread[u].on
        BY <4>1, <4>2, <4>3, <4>4, <4>5, RoutesAssumption DEF Routes!PoolCalls, Routes!Objects
      <4> QED BY <1>5, <2>1, <2>2, <4>6 DEF CallSound, Holds
    <3>4. Unowned(thread[u].on) => Unowned(thread[u].on)'
      BY <1>5, <1>14, <2>2, <3>1 DEF Unowned
    <3> QED BY <1>3, <1>5, <2>1, <2>2, <3>1, <3>3, <3>4
       DEF CallSound, Staged, Wrote, Finds, Making, Unmaking, Forgot, Bare, Told
  <2> QED BY <1>5, <2>2 DEF CallSound
<1>9. ASSUME NEW d \in Devices PROVE DeviceSound(d)'
  <2>1. Unowned(d) => Unowned(d)'
    BY <1>14, RoutesAssumption DEF Unowned
  <2> QED BY <1>2, <1>3, <1>5, <2>1 DEF RoutesInv, DeviceSound, Bare, Told
<1>10. ASSUME NEW o \in Routes!Objects PROVE ObjectSound(o)'
  <2>1. owner'[o] # Null => owner'[o] = owner[o] /\ (Busy(t) => ~Excuses(thread[t], o))
    BY <1>14
  <2>2. \A u \in Threads : u # t /\ owner'[o] = owner[o] /\ Busy(u) /\ Excuses(thread[u], o)
                          => Busy(u)' /\ Excuses(thread[u], o)'
    BY <1>5 DEF Excuses
  <2> QED BY <1>3, <2>1, <2>2 DEF RoutesInv, ObjectSound
<1>11. ASSUME NEW u \in Threads PROVE CacheSound(tableCache[u])'
  BY <1>3, <1>5 DEF RoutesInv, CacheSound
<1> QED BY <1>5, <1>6, <1>7, <1>8, <1>9, <1>10, <1>11 DEF RoutesInv


-----------------------------------------------------------------------------
(* DispatchTables: calls begin.                                             *)

LEMMA Begins ==
    ASSUME RoutesType, Separated, Locked, NEW t \in Threads, ~Busy(t), NEW r \in CallRecords,
           ~Wrote(r), thread' = [thread EXCEPT ![t] = r], writer' = writer,
           \A u \in Threads : u # t /\ Busy(u) => Together(r, thread[u]) /\ Together(thread[u], r)
    PROVE  /\ thread' \in [Threads -> CallRecords \cup {Routes!Idle}]
           /\ Busy(t)' /\ thread'[t] = r
           /\ \A u \in Threads : u # t => thread'[u] = thread[u] /\ (Busy(u)' <=> Busy(u))
           /\ Separated' /\ Locked'
           /\ \A d \in Devices :
                 live'[d] = live[d] /\ (r.kind \in RegularKinds \/ r.on # d)
                    => (Routes!Returned(d)' <=> Routes!Returned(d))
           /\ \A d : Changing(d) => Changing(d)'
<1>1. thread \in [Threads -> CallRecords \cup {Routes!Idle}]
  BY DEF RoutesType
<1>2. /\ thread' \in [Threads -> CallRecords \cup {Routes!Idle}]
      /\ thread'[t] = r /\ \A u \in Threads : u # t => thread'[u] = thread[u]
  BY <1>1
<1>3. r.pc # "idle" /\ thread[t].pc = "idle"
  BY SMT DEF CallRecords, Steps, Busy
<1>4. Busy(t)' /\ \A u \in Threads : u # t => (Busy(u)' <=> Busy(u))
  BY <1>2, <1>3 DEF Busy
<1>5. ASSUME NEW u \in Threads, NEW v \in Threads, u # v, Busy(u)', Busy(v)'
      PROVE  Together(thread[u], thread[v])'
  <2>1. CASE u # t /\ v # t
    <3>1. Together(thread[u], thread[v])
      BY <1>4, <1>5, <2>1 DEF Separated
    <3> QED BY <1>2, <2>1, <3>1 DEF Together
  <2>2. CASE u = t
    <3>1. Together(r, thread[v])
      BY <1>4, <1>5, <2>2
    <3> QED BY <1>2, <1>5, <2>2, <3>1 DEF Together
  <2>3. CASE v = t
    <3>1. Together(thread[u], r)
      BY <1>4, <1>5, <2>3
    <3> QED BY <1>2, <1>5, <2>3, <3>1 DEF Together
  <2> QED BY <2>1, <2>2, <2>3
<1>6. Separated'
  BY <1>5 DEF Separated
<1>7. Locked'
  BY <1>2, <1>3 DEF Locked, Wrote
<1>8. ASSUME NEW d \in Devices, live'[d] = live[d], r.kind \in RegularKinds \/ r.on # d
      PROVE  Routes!Returned(d)' <=> Routes!Returned(d)
  <2>1. \A u \in Threads : u # t => (u \in Routes!Using(d)' <=> u \in Routes!Using(d))
    BY <1>2, <1>4 DEF Routes!Using, Routes!At, Busy
  <2>2. \A u \in Threads : u # t => thread'[u].kind = thread[u].kind
    BY <1>2
  <2>3. t \notin Routes!Using(d)
    BY <1>3 DEF Routes!Using, Routes!At
  <2>4. t \in Routes!Using(d)' => thread'[t].kind \notin {"create", "destroy"}
    BY <1>2, <1>8 DEF Routes!Using, RegularKinds
  <2>5. Routes!Using(d) \subseteq Threads /\ Routes!Using(d)' \subseteq Threads
    BY DEF Routes!Using
  <2> QED BY <2>1, <2>2, <2>3, <2>4, <2>5, <1>8 DEF Routes!Returned
<1>9. ASSUME NEW d, Changing(d) PROVE Changing(d)'
  <2>1. writer \in Threads /\ writer # t
    BY <1>3, <1>9 DEF Changing, RoutesType, Locked, Wrote
  <2> QED BY <1>2, <1>9, <2>1 DEF Changing
<1> QED BY <1>2, <1>4, <1>6, <1>7, <1>8, <1>9

\* Anything but the creation or the destruction of the device.
LEMMA UsualCall ==
    ASSUME RoutesInv, NEW t \in Threads, ~Busy(t), NEW r \in CallRecords, r.kind \in RegularKinds,
           thread' = [thread EXCEPT ![t] = r], ~Wrote(r),
           Routes!Returned(r.on),
           \A u \in Routes!Using(r.on) :
               /\ ~(r.kind \in Routes!PoolCalls /\ thread[u].kind \in Routes!PoolCalls)
               /\ ~(r.kind \in Routes!QueueCalls /\ thread[u].kind \in Routes!QueueCalls),
           Staged(r), Holds(r), Finds(r), context' \in SUBSET Devices,
           device' \in [Routes!Objects -> Handles],
           \A o \in Routes!Objects : device'[o] = device[o] \/ (device'[o] = Null /\ Excuses(r, o)),
           UNCHANGED <<live, owner, created, tables, flags, writer, generation, single, bypass,
                       lastDevice, emulated, primary, info, tableCache>>
    PROVE  RoutesInv'
<1>1. r.on \in Devices /\ r.on # Null
  BY RoutesAssumption DEF CallRecords
<1>2. ASSUME NEW u \in Threads, u # t, Busy(u)
      PROVE  Together(r, thread[u]) /\ Together(thread[u], r)
  <2>1. CASE thread[u].on = r.on
    <3>1. u \in Routes!Using(r.on)
      BY <1>2, <2>1 DEF Routes!Using, Routes!At, Busy
    <3>2. thread[u].kind \in RegularKinds
      BY <1>2, <3>1, BusyCall DEF Routes!Returned, CallRecords, CallKinds, RoutesInv
    <3> QED BY <3>1, <3>2 DEF Together
  <2>2. CASE thread[u].on # r.on
    BY <2>2 DEF Together
  <2> QED BY <2>1, <2>2
<1>3. /\ thread' \in [Threads -> CallRecords \cup {Routes!Idle}]
      /\ Busy(t)' /\ thread'[t] = r
      /\ \A u \in Threads : u # t => thread'[u] = thread[u] /\ (Busy(u)' <=> Busy(u))
      /\ Separated' /\ Locked'
      /\ \A d \in Devices : Routes!Returned(d)' <=> Routes!Returned(d)
      /\ \A d : Changing(d) => Changing(d)'
  BY <1>2, Begins DEF RoutesInv
<1>4. RoutesType'
  BY <1>3 DEF RoutesType, RoutesInv
<1>5. (primary \in emulated \cup {Null})' /\ (bypass = Routes!Bypass(tables, flags))'
  BY DEF RoutesInv, Routes!Bypass, Routes!Single
<1>6. \A d \in Devices : (\A o \in Routes!Objects : device[o] # d) => \A o \in Routes!Objects : device'[o] # d
  BY RoutesAssumption
<1>7. ASSUME NEW u \in Threads PROVE CallSound(u)'
  <2>1. CallSound(u)
    BY DEF RoutesInv
  <2>2. CASE u = t
    <3>1. Staged(r)' /\ Holds(r)' /\ Finds(r)' /\ Making(r)' /\ Unmaking(r)'
      BY DEF Staged, Wrote, Holds, Finds, Making, Unmaking, RegularKinds
    <3> QED BY <1>3, <2>2, <3>1 DEF CallSound
  <2>3. CASE u # t /\ Busy(u)
    <3>1. thread[u] \in CallRecords /\ thread[u].on \in Devices
      BY <2>3, BusyCall DEF RoutesInv, CallRecords
    <3> QED BY <1>3, <1>6, <2>1, <2>3, <3>1
       DEF CallSound, Staged, Wrote, Holds, Finds, Making, Unmaking, Forgot, Bare, Unowned, Told
  <2>4. CASE u # t /\ ~Busy(u)
    BY <1>3, <2>4 DEF CallSound
  <2> QED BY <2>2, <2>3, <2>4
<1>8. ASSUME NEW d \in Devices PROVE DeviceSound(d)'
  BY <1>3, <1>6 DEF RoutesInv, DeviceSound, Bare, Unowned, Told
<1>9. ASSUME NEW o \in Routes!Objects PROVE ObjectSound(o)'
  <2>1. ObjectSound(o)
    BY DEF RoutesInv
  <2>2. \A u \in Threads : Busy(u) /\ Excuses(thread[u], o) => Busy(u)' /\ Excuses(thread[u], o)'
    BY <1>3 DEF Excuses
  <2>3. Excuses(r, o) => Busy(t)' /\ Excuses(thread[t], o)'
    BY <1>3 DEF Excuses
  <2> QED BY <2>1, <2>2, <2>3 DEF ObjectSound
<1>10. ASSUME NEW u \in Threads PROVE CacheSound(tableCache[u])'
  BY <1>3 DEF RoutesInv, CacheSound
<1> QED BY <1>3, <1>4, <1>5, <1>7, <1>8, <1>9, <1>10 DEF RoutesInv


NewCall(d, kind, item, pc, past) ==
    [pc |-> pc, kind |-> kind, on |-> d, object |-> item, device |-> d, next |-> "idle",
     bump |-> FALSE, generation |-> 0, table |-> 0, bypass |-> past]

LEMMA NewCallOK ==
    ASSUME NEW d \in Devices, NEW kind \in CallKinds, NEW o \in Routes!Objects \cup {Null},
           NEW pc \in Steps, NEW past \in BOOLEAN
    PROVE  NewCall(d, kind, o, pc, past) \in CallRecords
BY SMT DEF NewCall, CallRecords, Handles

\* What a draw that goes past the layer knows of the device.
LEMMA Bypassed ==
    ASSUME RoutesInv, bypass, NEW d \in Devices, Routes!Returned(d)
    PROVE  live[d] \notin Emulated
<1>1. live[d] # 0 /\ tables[d] = live[d] /\ flags[d] = live[d]
  BY DEF RoutesInv, DeviceSound, Routes!Returned
<1>2. Routes!Single(tables) # Null /\ flags[Routes!Single(tables)] \notin Emulated
  BY DEF RoutesInv, Routes!Bypass
<1>3. Routes!Single(tables) = d
  BY <1>1, <1>2, OneHeld DEF RoutesInv, RoutesType
<1> QED BY <1>1, <1>2, <1>3

LEMMA DrawStep ==
    ASSUME RoutesInv, NEW t \in Threads, NEW x \in Commands, Routes!Draw(t, x)
    PROVE  RoutesInv'
<1> DEFINE d == owner[x]
<1>1. /\ x \in Commands /\ owner[x] # Null /\ Routes!Free(d, Routes!PoolCalls)
      /\ Routes!Call(t, d, "draw", x, "device", bypass)
      /\ device' = device /\ context' = context
      /\ UNCHANGED <<live, owner, created, tables, flags, writer, generation, single, bypass,
                     lastDevice, emulated, primary, info, tableCache>>
  BY DEF Routes!Draw, Routes!driver, Routes!routes, Routes!records
<1>2. PICK r : r = NewCall(d, "draw", x, "device", bypass)
  OBVIOUS
<1>3. d \in Devices /\ Routes!Returned(d)
  BY <1>1 DEF Routes!Free, Routes!Returned, RoutesInv, RoutesType, Handles, Routes!Objects
<1>4. ~Busy(t) /\ thread' = [thread EXCEPT ![t] = r]
  BY <1>1, <1>2 DEF Routes!Call, Routes!At, Busy, NewCall
<1>5. "draw" \in RegularKinds /\ "draw" \in CallKinds /\ "device" \in Steps /\ bypass \in BOOLEAN
      /\ x \in Routes!Objects \cup {Null}
  BY <1>1 DEF RegularKinds, CallKinds, Steps, RoutesInv, RoutesType, Routes!Objects
<1>6. /\ r.pc = "device" /\ r.kind = "draw" /\ r.on = d /\ r.object = x
      /\ r.device = d /\ r.generation = 0 /\ r.bypass = bypass
  BY <1>2 DEF NewCall
<1>7. r \in CallRecords
  BY <1>2, <1>3, <1>5, NewCallOK
<1>8. Staged(r) /\ Holds(r) /\ ~Wrote(r)
  BY <1>1, <1>6 DEF Staged, Wrote, Holds
<1>9. Finds(r)
  <2>1. live[d] # 0 /\ 0 <= generation
    BY <1>3 DEF Routes!Returned, RoutesInv, RoutesType
  <2>2. bypass => live[d] \notin Emulated
    BY <1>3, Bypassed
  <2> QED BY <1>6, <2>1, <2>2 DEF Finds
<1>10. \A u \in Routes!Using(r.on) :
           /\ ~(r.kind \in Routes!PoolCalls /\ thread[u].kind \in Routes!PoolCalls)
           /\ ~(r.kind \in Routes!QueueCalls /\ thread[u].kind \in Routes!QueueCalls)
  BY <1>1, <1>6 DEF Routes!Free, Routes!PoolCalls, Routes!QueueCalls
<1>11. context' \in SUBSET Devices
  BY <1>1 DEF RoutesInv, RoutesType
<1>12. /\ device' \in [Routes!Objects -> Handles]
       /\ \A o \in Routes!Objects : device'[o] = device[o] \/ (device'[o] = Null /\ Excuses(r, o))
  BY <1>1 DEF RoutesInv, RoutesType
<1> QED BY <1>1, <1>3, <1>4, <1>5, <1>6, <1>7, <1>8, <1>9, <1>10, <1>11, <1>12, UsualCall

LEMMA SubmitStep ==
    ASSUME RoutesInv, NEW t \in Threads, NEW x \in Queues, Routes!Submit(t, x)
    PROVE  RoutesInv'
<1> DEFINE d == owner[x]
<1>1. /\ x \in Queues /\ owner[x] # Null /\ Routes!Free(d, Routes!QueueCalls)
      /\ Routes!Call(t, d, "submit", x, "device", FALSE)
      /\ device' = device /\ context' = context
      /\ UNCHANGED <<live, owner, created, tables, flags, writer, generation, single, bypass,
                     lastDevice, emulated, primary, info, tableCache>>
  BY DEF Routes!Submit, Routes!driver, Routes!routes, Routes!records
<1>2. PICK r : r = NewCall(d, "submit", x, "device", FALSE)
  OBVIOUS
<1>3. d \in Devices /\ Routes!Returned(d)
  BY <1>1 DEF Routes!Free, Routes!Returned, RoutesInv, RoutesType, Handles, Routes!Objects
<1>4. ~Busy(t) /\ thread' = [thread EXCEPT ![t] = r]
  BY <1>1, <1>2 DEF Routes!Call, Routes!At, Busy, NewCall
<1>5. "submit" \in RegularKinds /\ "submit" \in CallKinds /\ "device" \in Steps /\ FALSE \in BOOLEAN
      /\ x \in Routes!Objects \cup {Null}
  BY <1>1 DEF RegularKinds, CallKinds, Steps, RoutesInv, RoutesType, Routes!Objects
<1>6. /\ r.pc = "device" /\ r.kind = "submit" /\ r.on = d /\ r.object = x
      /\ r.device = d /\ r.generation = 0 /\ r.bypass = FALSE
  BY <1>2 DEF NewCall
<1>7. r \in CallRecords
  BY <1>2, <1>3, <1>5, NewCallOK
<1>8. Staged(r) /\ Holds(r) /\ ~Wrote(r)
  BY <1>1, <1>6 DEF Staged, Wrote, Holds
<1>9. Finds(r)
  <2>1. live[d] # 0 /\ 0 <= generation
    BY <1>3 DEF Routes!Returned, RoutesInv, RoutesType
  <2>2. FALSE => live[d] \notin Emulated
    BY <1>3, Bypassed
  <2> QED BY <1>6, <2>1, <2>2 DEF Finds
<1>10. \A u \in Routes!Using(r.on) :
           /\ ~(r.kind \in Routes!PoolCalls /\ thread[u].kind \in Routes!PoolCalls)
           /\ ~(r.kind \in Routes!QueueCalls /\ thread[u].kind \in Routes!QueueCalls)
  BY <1>1, <1>6 DEF Routes!Free, Routes!PoolCalls, Routes!QueueCalls
<1>11. context' \in SUBSET Devices
  BY <1>1 DEF RoutesInv, RoutesType
<1>12. /\ device' \in [Routes!Objects -> Handles]
       /\ \A o \in Routes!Objects : device'[o] = device[o] \/ (device'[o] = Null /\ Excuses(r, o))
  BY <1>1 DEF RoutesInv, RoutesType
<1> QED BY <1>1, <1>3, <1>4, <1>5, <1>6, <1>7, <1>8, <1>9, <1>10, <1>11, <1>12, UsualCall

LEMMA FreeCommandStep ==
    ASSUME RoutesInv, NEW t \in Threads, NEW x \in Commands, Routes!FreeCommand(t, x)
    PROVE  RoutesInv'
<1> DEFINE d == owner[x]
<1>1. /\ x \in Commands /\ owner[x] # Null /\ Routes!Free(d, Routes!PoolCalls)
      /\ Routes!Call(t, d, "free", x, "lookup", FALSE)
      /\ device' = [device EXCEPT ![x] = Null] /\ context' = context
      /\ UNCHANGED <<live, owner, created, tables, flags, writer, generation, single, bypass,
                     lastDevice, emulated, primary, info, tableCache>>
  BY DEF Routes!FreeCommand, Routes!driver, Routes!routes, Routes!records
<1>2. PICK r : r = NewCall(d, "free", x, "lookup", FALSE)
  OBVIOUS
<1>3. d \in Devices /\ Routes!Returned(d)
  BY <1>1 DEF Routes!Free, Routes!Returned, RoutesInv, RoutesType, Handles, Routes!Objects
<1>4. ~Busy(t) /\ thread' = [thread EXCEPT ![t] = r]
  BY <1>1, <1>2 DEF Routes!Call, Routes!At, Busy, NewCall
<1>5. "free" \in RegularKinds /\ "free" \in CallKinds /\ "lookup" \in Steps /\ FALSE \in BOOLEAN
      /\ x \in Routes!Objects \cup {Null}
  BY <1>1 DEF RegularKinds, CallKinds, Steps, RoutesInv, RoutesType, Routes!Objects
<1>6. /\ r.pc = "lookup" /\ r.kind = "free" /\ r.on = d /\ r.object = x
      /\ r.device = d /\ r.generation = 0 /\ r.bypass = FALSE
  BY <1>2 DEF NewCall
<1>7. r \in CallRecords
  BY <1>2, <1>3, <1>5, NewCallOK
<1>8. Staged(r) /\ Holds(r) /\ ~Wrote(r)
  BY <1>1, <1>6 DEF Staged, Wrote, Holds
<1>9. Finds(r)
  <2>1. live[d] # 0 /\ 0 <= generation
    BY <1>3 DEF Routes!Returned, RoutesInv, RoutesType
  <2>2. FALSE => live[d] \notin Emulated
    BY <1>3, Bypassed
  <2> QED BY <1>6, <2>1, <2>2 DEF Finds
<1>10. \A u \in Routes!Using(r.on) :
           /\ ~(r.kind \in Routes!PoolCalls /\ thread[u].kind \in Routes!PoolCalls)
           /\ ~(r.kind \in Routes!QueueCalls /\ thread[u].kind \in Routes!QueueCalls)
  BY <1>1, <1>6 DEF Routes!Free, Routes!PoolCalls, Routes!QueueCalls
<1>11. context' \in SUBSET Devices
  BY <1>1 DEF RoutesInv, RoutesType
<1>12. /\ device' \in [Routes!Objects -> Handles]
       /\ \A o \in Routes!Objects : device'[o] = device[o] \/ (device'[o] = Null /\ Excuses(r, o))
  BY <1>1, <1>3, <1>5, <1>6 DEF RoutesInv, RoutesType, Handles, Excuses
<1> QED BY <1>1, <1>3, <1>4, <1>5, <1>6, <1>7, <1>8, <1>9, <1>10, <1>11, <1>12, UsualCall

LEMMA DestroyPoolStep ==
    ASSUME RoutesInv, NEW t \in Threads, NEW x \in Devices, Routes!DestroyPool(t, x)
    PROVE  RoutesInv'
<1> DEFINE d == x
<1>1. /\ Routes!Free(d, Routes!PoolCalls)
      /\ Routes!Call(t, d, "pool", Null, "free", FALSE)
      /\ device' = [o \in Routes!Objects |-> IF o \in Commands /\ owner[o] = d /\ live[d] \in Emulated
                                              THEN Null ELSE device[o]]
       /\ context' = context
      /\ UNCHANGED <<live, owner, created, tables, flags, writer, generation, single, bypass,
                     lastDevice, emulated, primary, info, tableCache>>
  BY DEF Routes!DestroyPool, Routes!driver, Routes!routes, Routes!records
<1>2. PICK r : r = NewCall(d, "pool", Null, "free", FALSE)
  OBVIOUS
<1>3. d \in Devices /\ Routes!Returned(d)
  BY <1>1 DEF Routes!Free, Routes!Returned, RoutesInv, RoutesType, Handles, Routes!Objects
<1>4. ~Busy(t) /\ thread' = [thread EXCEPT ![t] = r]
  BY <1>1, <1>2 DEF Routes!Call, Routes!At, Busy, NewCall
<1>5. "pool" \in RegularKinds /\ "pool" \in CallKinds /\ "free" \in Steps /\ FALSE \in BOOLEAN
      /\ Null \in Routes!Objects \cup {Null}
  BY <1>1 DEF RegularKinds, CallKinds, Steps, RoutesInv, RoutesType, Routes!Objects
<1>6. /\ r.pc = "free" /\ r.kind = "pool" /\ r.on = d /\ r.object = Null
      /\ r.device = d /\ r.generation = 0 /\ r.bypass = FALSE
  BY <1>2 DEF NewCall
<1>7. r \in CallRecords
  BY <1>2, <1>3, <1>5, NewCallOK
<1>8. Staged(r) /\ Holds(r) /\ ~Wrote(r)
  BY <1>1, <1>6 DEF Staged, Wrote, Holds
<1>9. Finds(r)
  <2>1. live[d] # 0 /\ 0 <= generation
    BY <1>3 DEF Routes!Returned, RoutesInv, RoutesType
  <2>2. FALSE => live[d] \notin Emulated
    BY <1>3, Bypassed
  <2> QED BY <1>6, <2>1, <2>2 DEF Finds
<1>10. \A u \in Routes!Using(r.on) :
           /\ ~(r.kind \in Routes!PoolCalls /\ thread[u].kind \in Routes!PoolCalls)
           /\ ~(r.kind \in Routes!QueueCalls /\ thread[u].kind \in Routes!QueueCalls)
  BY <1>1, <1>6 DEF Routes!Free, Routes!PoolCalls, Routes!QueueCalls
<1>11. context' \in SUBSET Devices
  BY <1>1 DEF RoutesInv, RoutesType
<1>12. /\ device' \in [Routes!Objects -> Handles]
       /\ \A o \in Routes!Objects : device'[o] = device[o] \/ (device'[o] = Null /\ Excuses(r, o))
  BY <1>1, <1>6 DEF RoutesInv, RoutesType, Handles, Excuses
<1> QED BY <1>1, <1>3, <1>4, <1>5, <1>6, <1>7, <1>8, <1>9, <1>10, <1>11, <1>12, UsualCall

LEMMA ResetQueriesStep ==
    ASSUME RoutesInv, NEW t \in Threads, NEW x \in Devices, Routes!ResetQueries(t, x)
    PROVE  RoutesInv'
<1> DEFINE d == x
<1>1. /\ Routes!Returned(d)
      /\ Routes!Call(t, d, "reset", Null, "lookup", FALSE)
      /\ device' = device /\ context' = context \cup {d}
      /\ UNCHANGED <<live, owner, created, tables, flags, writer, generation, single, bypass,
                     lastDevice, emulated, primary, info, tableCache>>
  BY DEF Routes!ResetQueries, Routes!driver, Routes!routes, Routes!records
<1>2. PICK r : r = NewCall(d, "reset", Null, "lookup", FALSE)
  OBVIOUS
<1>3. d \in Devices /\ Routes!Returned(d)
  BY <1>1 DEF Routes!Free, Routes!Returned, RoutesInv, RoutesType, Handles, Routes!Objects
<1>4. ~Busy(t) /\ thread' = [thread EXCEPT ![t] = r]
  BY <1>1, <1>2 DEF Routes!Call, Routes!At, Busy, NewCall
<1>5. "reset" \in RegularKinds /\ "reset" \in CallKinds /\ "lookup" \in Steps /\ FALSE \in BOOLEAN
      /\ Null \in Routes!Objects \cup {Null}
  BY <1>1 DEF RegularKinds, CallKinds, Steps, RoutesInv, RoutesType, Routes!Objects
<1>6. /\ r.pc = "lookup" /\ r.kind = "reset" /\ r.on = d /\ r.object = Null
      /\ r.device = d /\ r.generation = 0 /\ r.bypass = FALSE
  BY <1>2 DEF NewCall
<1>7. r \in CallRecords
  BY <1>2, <1>3, <1>5, NewCallOK
<1>8. Staged(r) /\ Holds(r) /\ ~Wrote(r)
  BY <1>1, <1>6 DEF Staged, Wrote, Holds
<1>9. Finds(r)
  <2>1. live[d] # 0 /\ 0 <= generation
    BY <1>3 DEF Routes!Returned, RoutesInv, RoutesType
  <2>2. FALSE => live[d] \notin Emulated
    BY <1>3, Bypassed
  <2> QED BY <1>6, <2>1, <2>2 DEF Finds
<1>10. \A u \in Routes!Using(r.on) :
           /\ ~(r.kind \in Routes!PoolCalls /\ thread[u].kind \in Routes!PoolCalls)
           /\ ~(r.kind \in Routes!QueueCalls /\ thread[u].kind \in Routes!QueueCalls)
  BY <1>1, <1>6 DEF Routes!Free, Routes!PoolCalls, Routes!QueueCalls
<1>11. context' \in SUBSET Devices
  BY <1>1 DEF RoutesInv, RoutesType
<1>12. /\ device' \in [Routes!Objects -> Handles]
       /\ \A o \in Routes!Objects : device'[o] = device[o] \/ (device'[o] = Null /\ Excuses(r, o))
  BY <1>1 DEF RoutesInv, RoutesType
<1> QED BY <1>1, <1>3, <1>4, <1>5, <1>6, <1>7, <1>8, <1>9, <1>10, <1>11, <1>12, UsualCall

LEMMA AllocateStep ==
    ASSUME RoutesInv, NEW t \in Threads, NEW x \in Devices, NEW kind \in {"allocate", "queue"}, Routes!Allocate(t, x, kind)
    PROVE  RoutesInv'
<1> DEFINE d == x
<1>1. /\ Routes!Free(d, IF kind = "queue" THEN Routes!QueueCalls ELSE Routes!PoolCalls)
      /\ Routes!Call(t, d, kind, Null, "lookup", FALSE)
      /\ device' = device /\ context' = context
      /\ UNCHANGED <<live, owner, created, tables, flags, writer, generation, single, bypass,
                     lastDevice, emulated, primary, info, tableCache>>
  BY DEF Routes!Allocate, Routes!driver, Routes!routes, Routes!records
<1>2. PICK r : r = NewCall(d, kind, Null, "lookup", FALSE)
  OBVIOUS
<1>3. d \in Devices /\ Routes!Returned(d)
  BY <1>1 DEF Routes!Free, Routes!Returned, RoutesInv, RoutesType, Handles, Routes!Objects
<1>4. ~Busy(t) /\ thread' = [thread EXCEPT ![t] = r]
  BY <1>1, <1>2 DEF Routes!Call, Routes!At, Busy, NewCall
<1>5. kind \in RegularKinds /\ kind \in CallKinds /\ "lookup" \in Steps /\ FALSE \in BOOLEAN
      /\ Null \in Routes!Objects \cup {Null}
  BY <1>1 DEF RegularKinds, CallKinds, Steps, RoutesInv, RoutesType, Routes!Objects
<1>6. /\ r.pc = "lookup" /\ r.kind = kind /\ r.on = d /\ r.object = Null
      /\ r.device = d /\ r.generation = 0 /\ r.bypass = FALSE
  BY <1>2 DEF NewCall
<1>7. r \in CallRecords
  BY <1>2, <1>3, <1>5, NewCallOK
<1>8. Staged(r) /\ Holds(r) /\ ~Wrote(r)
  BY <1>1, <1>6, RoutesAssumption DEF Staged, Wrote, Holds
<1>9. Finds(r)
  <2>1. live[d] # 0 /\ 0 <= generation
    BY <1>3 DEF Routes!Returned, RoutesInv, RoutesType
  <2>2. FALSE => live[d] \notin Emulated
    BY <1>3, Bypassed
  <2> QED BY <1>6, <2>1, <2>2 DEF Finds
<1>10. \A u \in Routes!Using(r.on) :
           /\ ~(r.kind \in Routes!PoolCalls /\ thread[u].kind \in Routes!PoolCalls)
           /\ ~(r.kind \in Routes!QueueCalls /\ thread[u].kind \in Routes!QueueCalls)
  BY <1>1, <1>6 DEF Routes!Free, Routes!PoolCalls, Routes!QueueCalls
<1>11. context' \in SUBSET Devices
  BY <1>1 DEF RoutesInv, RoutesType
<1>12. /\ device' \in [Routes!Objects -> Handles]
       /\ \A o \in Routes!Objects : device'[o] = device[o] \/ (device'[o] = Null /\ Excuses(r, o))
  BY <1>1 DEF RoutesInv, RoutesType
<1> QED BY <1>1, <1>3, <1>4, <1>5, <1>6, <1>7, <1>8, <1>9, <1>10, <1>11, <1>12, UsualCall


LEMMA CreateStep ==
    ASSUME RoutesInv, NEW t \in Threads, NEW d \in Devices, Routes!Create(t, d)
    PROVE  RoutesInv'
<1>1. /\ live[d] = 0
      /\ Routes!Call(t, d, "create", Null, "announce", FALSE)
      /\ UNCHANGED <<owner, tables, flags, writer, generation, single, bypass, device, lastDevice,
                     emulated, primary, info, context, tableCache>>
  BY DEF Routes!Create, Routes!driver, Routes!routes, Routes!records
<1>2. PICK r : r = NewCall(d, "create", Null, "announce", FALSE)
  OBVIOUS
<1>3. ~Busy(t) /\ thread' = [thread EXCEPT ![t] = r]
  BY <1>1, <1>2 DEF Routes!Call, Routes!At, Busy, NewCall
<1>4. r \in CallRecords
  BY <1>2, NewCallOK DEF CallKinds, Steps
<1>5. /\ r.pc = "announce" /\ r.kind = "create" /\ r.on = d /\ r.object = Null
      /\ r.device = d /\ r.generation = 0 /\ r.bypass = FALSE
  BY <1>2 DEF NewCall
<1>6. live' \in [Devices -> Nat] /\ created' \in Nat /\ live'[d] # 0 /\ \A x \in Devices : x # d => live'[x] = live[x]
  BY <1>1 DEF Routes!Create, Routes!Returned, Routes!driver, RoutesInv, RoutesType
<1>7. ASSUME NEW u \in Threads, u # t, Busy(u)
      PROVE  Together(r, thread[u]) /\ Together(thread[u], r) /\ thread[u].on # d
  <2>1. thread[u].on # d
    BY <1>1, <1>7 DEF RoutesInv, CallSound, Finds
  <2> QED BY <1>5, <2>1 DEF Together
<1>8. /\ thread' \in [Threads -> CallRecords \cup {Routes!Idle}]
      /\ Busy(t)' /\ thread'[t] = r
      /\ \A u \in Threads : u # t => thread'[u] = thread[u] /\ (Busy(u)' <=> Busy(u))
      /\ Separated' /\ Locked'
      /\ \A x \in Devices : live'[x] = live[x] /\ x # d => (Routes!Returned(x)' <=> Routes!Returned(x))
      /\ \A x : Changing(x) => Changing(x)'
  BY <1>1, <1>3, <1>4, <1>5, <1>7, Begins DEF RoutesInv, Wrote
<1>9. RoutesType'
  BY <1>1, <1>6, <1>8 DEF RoutesType, RoutesInv
<1>10. (primary \in emulated \cup {Null})' /\ (bypass = Routes!Bypass(tables, flags))'
  BY <1>1 DEF RoutesInv, Routes!Bypass, Routes!Single
<1>11. ASSUME NEW u \in Threads PROVE CallSound(u)'
  <2>1. CallSound(u)
    BY DEF RoutesInv
  <2>2. CASE u = t
    <3>1. Staged(r)' /\ Holds(r)' /\ Finds(r)'
      BY <1>1, <1>5, <1>6 DEF Staged, Wrote, Holds, Finds, RoutesInv, RoutesType
    <3>2. Making(r)' /\ Unmaking(r)'
      BY <1>1, <1>5 DEF RoutesInv, DeviceSound, Making, Unmaking, Bare, Unowned
    <3> QED BY <1>8, <2>2, <3>1, <3>2 DEF CallSound
  <2>3. CASE u # t /\ Busy(u)
    <3>1. thread[u].on # d /\ thread[u] \in CallRecords /\ thread[u].on \in Devices
      BY <1>7, <2>3, BusyCall DEF RoutesInv, CallRecords
    <3> QED BY <1>1, <1>6, <1>8, <2>1, <2>3, <3>1
       DEF CallSound, Staged, Wrote, Holds, Finds, Making, Unmaking, Forgot, Bare, Unowned, Told
  <2>4. CASE u # t /\ ~Busy(u)
    BY <1>8, <2>4 DEF CallSound
  <2> QED BY <2>2, <2>3, <2>4
<1>12. ASSUME NEW x \in Devices PROVE DeviceSound(x)'
  <2>1. CASE x = d
    <3>1. ~Routes!Returned(d)'
      BY <1>5, <1>8 DEF Routes!Returned, Routes!Using, Routes!At, Busy
    <3> QED BY <1>6, <2>1, <3>1 DEF DeviceSound
  <2>2. CASE x # d
    BY <1>1, <1>6, <1>8, <2>2 DEF RoutesInv, DeviceSound, Bare, Unowned, Told
  <2> QED BY <2>1, <2>2
<1>13. ASSUME NEW o \in Routes!Objects PROVE ObjectSound(o)'
  <2>1. \A u \in Threads : Busy(u) /\ Excuses(thread[u], o) => Busy(u)' /\ Excuses(thread[u], o)'
    BY <1>1, <1>3, <1>8 DEF Excuses
  <2> QED BY <1>1, <2>1 DEF RoutesInv, ObjectSound
<1>14. ASSUME NEW u \in Threads PROVE CacheSound(tableCache[u])'
  BY <1>1, <1>8 DEF RoutesInv, CacheSound
<1> QED BY <1>8, <1>9, <1>10, <1>11, <1>12, <1>13, <1>14 DEF RoutesInv

LEMMA DestroyStep ==
    ASSUME RoutesInv, NEW t \in Threads, NEW d \in Devices, Routes!Destroy(t, d)
    PROVE  RoutesInv'
<1>1. /\ Routes!Returned(d) /\ Routes!Using(d) = {}
      /\ Routes!Call(t, d, "destroy", Null, "noflags", FALSE)
      /\ UNCHANGED <<owner, tables, flags, writer, generation, single, bypass, device, lastDevice,
                     emulated, primary, info, context, tableCache>>
  BY DEF Routes!Destroy, Routes!driver, Routes!routes, Routes!records
<1>2. PICK r : r = NewCall(d, "destroy", Null, "noflags", FALSE)
  OBVIOUS
<1>3. ~Busy(t) /\ thread' = [thread EXCEPT ![t] = r]
  BY <1>1, <1>2 DEF Routes!Call, Routes!At, Busy, NewCall
<1>4. r \in CallRecords
  BY <1>2, NewCallOK DEF CallKinds, Steps
<1>5. /\ r.pc = "noflags" /\ r.kind = "destroy" /\ r.on = d /\ r.object = Null
      /\ r.device = d /\ r.generation = 0 /\ r.bypass = FALSE
  BY <1>2 DEF NewCall
<1>6. live' = live /\ created' = created /\ live[d] # 0
  BY <1>1 DEF Routes!Destroy, Routes!Returned, Routes!driver, RoutesInv, RoutesType
<1>7. ASSUME NEW u \in Threads, u # t, Busy(u)
      PROVE  Together(r, thread[u]) /\ Together(thread[u], r) /\ thread[u].on # d
  <2>1. thread[u].on # d
    BY <1>1, <1>7 DEF Routes!Using, Routes!At, Busy
  <2> QED BY <1>5, <2>1 DEF Together
<1>8. /\ thread' \in [Threads -> CallRecords \cup {Routes!Idle}]
      /\ Busy(t)' /\ thread'[t] = r
      /\ \A u \in Threads : u # t => thread'[u] = thread[u] /\ (Busy(u)' <=> Busy(u))
      /\ Separated' /\ Locked'
      /\ \A x \in Devices : live'[x] = live[x] /\ x # d => (Routes!Returned(x)' <=> Routes!Returned(x))
      /\ \A x : Changing(x) => Changing(x)'
  BY <1>1, <1>3, <1>4, <1>5, <1>7, Begins DEF RoutesInv, Wrote
<1>9. RoutesType'
  BY <1>1, <1>6, <1>8 DEF RoutesType, RoutesInv
<1>10. (primary \in emulated \cup {Null})' /\ (bypass = Routes!Bypass(tables, flags))'
  BY <1>1 DEF RoutesInv, Routes!Bypass, Routes!Single
<1>11. ASSUME NEW u \in Threads PROVE CallSound(u)'
  <2>1. CallSound(u)
    BY DEF RoutesInv
  <2>2. CASE u = t
    <3>1. Staged(r)' /\ Holds(r)' /\ Finds(r)'
      BY <1>1, <1>5, <1>6 DEF Staged, Wrote, Holds, Finds, RoutesInv, RoutesType
    <3>2. Making(r)' /\ Unmaking(r)'
      BY <1>5 DEF Making, Unmaking, Forgot, Wrote
    <3> QED BY <1>8, <2>2, <3>1, <3>2 DEF CallSound
  <2>3. CASE u # t /\ Busy(u)
    <3>1. thread[u].on # d /\ thread[u] \in CallRecords /\ thread[u].on \in Devices
      BY <1>7, <2>3, BusyCall DEF RoutesInv, CallRecords
    <3> QED BY <1>1, <1>6, <1>8, <2>1, <2>3, <3>1
       DEF CallSound, Staged, Wrote, Holds, Finds, Making, Unmaking, Forgot, Bare, Unowned, Told
  <2>4. CASE u # t /\ ~Busy(u)
    BY <1>8, <2>4 DEF CallSound
  <2> QED BY <2>2, <2>3, <2>4
<1>12. ASSUME NEW x \in Devices PROVE DeviceSound(x)'
  <2>1. CASE x = d
    <3>1. ~Routes!Returned(d)'
      BY <1>5, <1>8 DEF Routes!Returned, Routes!Using, Routes!At, Busy
    <3> QED BY <1>6, <2>1, <3>1 DEF DeviceSound
  <2>2. CASE x # d
    BY <1>1, <1>6, <1>8, <2>2 DEF RoutesInv, DeviceSound, Bare, Unowned, Told
  <2> QED BY <2>1, <2>2
<1>13. ASSUME NEW o \in Routes!Objects PROVE ObjectSound(o)'
  <2>1. \A u \in Threads : Busy(u) /\ Excuses(thread[u], o) => Busy(u)' /\ Excuses(thread[u], o)'
    BY <1>1, <1>3, <1>8 DEF Excuses
  <2> QED BY <1>1, <2>1 DEF RoutesInv, ObjectSound
<1>14. ASSUME NEW u \in Threads PROVE CacheSound(tableCache[u])'
  BY <1>1, <1>8 DEF RoutesInv, CacheSound
<1> QED BY <1>8, <1>9, <1>10, <1>11, <1>12, <1>13, <1>14 DEF RoutesInv

-----------------------------------------------------------------------------
(* DispatchTables: the theorem.                                             *)

LEMMA RoutesStep == RoutesInv /\ [Routes!Next]_(Routes!vars) => RoutesInv'
<1> SUFFICES ASSUME RoutesInv, [Routes!Next]_(Routes!vars) PROVE RoutesInv'
  OBVIOUS
<1>1. CASE UNCHANGED Routes!vars
  <2>1. /\ UNCHANGED <<live, owner, created, tables, flags, writer, generation, single, bypass>>
        /\ UNCHANGED <<device, lastDevice, emulated, primary, info, context, tableCache, thread>>
    BY <1>1 DEF Routes!vars, Routes!driver, Routes!routes, Routes!records
  <2>2. RoutesType' /\ Separated' /\ Locked' /\ (primary \in emulated \cup {Null})'
        /\ (bypass = Routes!Bypass(tables, flags))'
    BY <2>1 DEF RoutesInv, RoutesType, Separated, Busy, Locked, Routes!Bypass, Routes!Single
  <2>3. \A t \in Threads : CallSound(t)'
    BY <2>1
       DEF RoutesInv, CallSound, Busy, Staged, Wrote, Holds, Finds, Making, Unmaking, Forgot,
           Bare, Unowned, Told
  <2>4. \A d \in Devices : DeviceSound(d)'
    BY <2>1
       DEF RoutesInv, DeviceSound, Bare, Unowned, Told, Routes!Returned, Routes!Using, Routes!At
  <2>5. \A o \in Routes!Objects : ObjectSound(o)'
    BY <2>1 DEF RoutesInv, ObjectSound, Excuses, Busy
  <2>6. \A t \in Threads : CacheSound(tableCache[t])'
    BY <2>1 DEF RoutesInv, CacheSound, Changing
  <2> QED BY <2>2, <2>3, <2>4, <2>5, <2>6 DEF RoutesInv
<1>2. CASE Routes!Next
  <2>1. PICK t \in Threads :
        \/ Routes!StoreSingle(t) \/ Routes!StoreGeneration(t) \/ Routes!LookUp(t) \/ Routes!LookUpSlow(t)
        \/ Routes!FindDevice(t) \/ Routes!FindDeviceSlow(t) \/ Routes!Native(t)
        \/ Routes!NativeAllocate(t) \/ Routes!Record(t) \/ Routes!NativeFree(t)
        \/ Routes!StartFails(t) \/ Routes!Announce(t) \/ Routes!CreateTable(t)
        \/ Routes!CreateFlags(t) \/ Routes!CreateInfo(t)
        \/ Routes!DestroyFlags(t) \/ Routes!DestroyTable(t) \/ Routes!DestroyRecords(t)
        \/ Routes!Forget(t) \/ Routes!NativeDestroy(t)
        \/ \E c \in Commands : Routes!Draw(t, c) \/ Routes!FreeCommand(t, c)
        \/ \E q \in Queues : Routes!Submit(t, q)
        \/ \E d \in Devices :
               \/ Routes!Create(t, d) \/ Routes!Destroy(t, d) \/ Routes!DestroyPool(t, d)
               \/ Routes!ResetQueries(t, d)
               \/ Routes!Allocate(t, d, "allocate") \/ Routes!Allocate(t, d, "queue")
    BY <1>2 DEF Routes!Next
  <2>2. CASE \/ Routes!StoreSingle(t) \/ Routes!StoreGeneration(t) \/ Routes!LookUp(t) \/ Routes!LookUpSlow(t)
             \/ Routes!FindDevice(t) \/ Routes!FindDeviceSlow(t) \/ Routes!Native(t)
    BY <2>2, StoreSingleStep, StoreGenerationStep, LookUpStep, LookUpSlowStep, FindDeviceStep,
       FindDeviceSlowStep, NativeStep
  <2>3. CASE Routes!NativeAllocate(t) \/ Routes!Record(t) \/ Routes!NativeFree(t)
    BY <2>3, NativeAllocateStep, RecordStep, NativeFreeStep
  <2>4. CASE \/ Routes!StartFails(t) \/ Routes!Announce(t) \/ Routes!CreateTable(t)
             \/ Routes!CreateFlags(t) \/ Routes!CreateInfo(t)
    BY <2>4, StartFailsStep, AnnounceStep, CreateTableStep, CreateFlagsStep, CreateInfoStep
  <2>5. CASE \/ Routes!DestroyFlags(t) \/ Routes!DestroyTable(t) \/ Routes!DestroyRecords(t)
             \/ Routes!Forget(t) \/ Routes!NativeDestroy(t)
    BY <2>5, DestroyFlagsStep, DestroyTableStep, DestroyRecordsStep, ForgetStep, NativeDestroyStep
  <2>6. CASE \E c \in Commands : Routes!Draw(t, c) \/ Routes!FreeCommand(t, c)
    BY <2>6, DrawStep, FreeCommandStep
  <2>7. CASE \E q \in Queues : Routes!Submit(t, q)
    BY <2>7, SubmitStep
  <2>8. CASE \E d \in Devices :
               \/ Routes!Create(t, d) \/ Routes!Destroy(t, d) \/ Routes!DestroyPool(t, d)
               \/ Routes!ResetQueries(t, d)
               \/ Routes!Allocate(t, d, "allocate") \/ Routes!Allocate(t, d, "queue")
    BY <2>8, CreateStep, DestroyStep, DestroyPoolStep, ResetQueriesStep, AllocateStep
  <2> QED BY <2>1, <2>2, <2>3, <2>4, <2>5, <2>6, <2>7, <2>8
<1> QED BY <1>1, <1>2

LEMMA RoutesFollow == RoutesInv => Routes!RoutesSound
<1> SUFFICES ASSUME RoutesInv PROVE Routes!RoutesSound
  OBVIOUS
<1>1. Routes!CallsRouted
  <2> SUFFICES ASSUME NEW t \in Threads, thread[t].pc # "idle"
               PROVE  /\ thread[t].pc = "native" =>
                             /\ thread[t].device = thread[t].on /\ thread[t].table = live[thread[t].on]
                             /\ thread[t].bypass => live[thread[t].on] \notin Emulated
                      /\ (thread[t].pc \in {"allocate", "queue"}
                             \/ (thread[t].pc = "free" /\ thread[t].kind = "free"))
                          => thread[t].table = live[thread[t].on]
    BY DEF Routes!CallsRouted, Routes!At
  <2>1. CallSound(t) /\ Busy(t)
    BY DEF RoutesInv, Busy
  <2> QED BY <2>1 DEF CallSound, Finds
<1>2. Routes!RecordsCurrent
  <2>1. \A d \in Devices : live[d] = 0 => primary # d
    BY RoutesAssumption DEF RoutesInv, DeviceSound, Bare
  <2> QED BY <2>1 DEF RoutesInv, DeviceSound, Bare, Routes!RecordsCurrent
<1> QED BY <1>1, <1>2 DEF Routes!RoutesSound

\* A call reaches the functions of the device its object belongs to, past the
\* layer only if the device does not need it, and the records of a device are
\* there from the return of its creation to its end and belong to nothing once
\* the handle means nothing (layer_manager.cpp): for any handles, threads and
\* number of devices created.
THEOREM RoutesCorrect == Routes!Spec => []RoutesSound
<1>1. RoutesInv => RoutesSound
  BY RoutesFollow DEF RoutesSound
<1> QED BY <1>1, RoutesInit, RoutesStep, PTL DEF Routes!Spec

-----------------------------------------------------------------------------
(* DrawEmulation: induction over the natural numbers, by a least element.   *)

Below == {x \in Nat \X Nat : x[1] < x[2]}

LEMMA Least ==
    ASSUME NEW S \in SUBSET Nat, S # {} PROVE \E n \in S : \A m \in S : n <= m
<1>1. IsWellFoundedOn(Below, Nat)
  BY NatLessThanWellFounded, Zenon DEF OpToRel, Below
<1>2. PICK n \in S : \A m \in S : ~(<<m, n>> \in Below)
  BY <1>1, WFMin
<1>3. ASSUME NEW m \in S PROVE n <= m
  <2>1. n \in Nat /\ m \in Nat /\ <<m, n>> \in Nat \X Nat
    OBVIOUS
  <2>2. ~(m < n)
    BY <1>2, <2>1 DEF Below
  <2>. QED  BY <2>1, <2>2
<1>. QED  BY <1>3

\* A set of natural numbers that has 0 and with n its successor up to N has 0 .. N.
LEMMA Upto ==
    ASSUME NEW N \in Nat, NEW S, 0 \in S, \A n \in 0 .. N : n # N /\ n \in S => n + 1 \in S
    PROVE  0 .. N \subseteq S
<1>. SUFFICES ASSUME ~(0 .. N \subseteq S) PROVE FALSE
  OBVIOUS
<1>. DEFINE Bad == {n \in 0 .. N : n \notin S}
<1>1. Bad \in SUBSET Nat /\ Bad # {}
  OBVIOUS
<1>2. PICK n \in Bad : \A m \in Bad : n <= m
  BY <1>1, Least
<1>3. n \in 0 .. N /\ n \notin S /\ n # 0
  BY <1>2
<1>4. n - 1 \in 0 .. N /\ n - 1 # N /\ ~(n <= n - 1)
  BY <1>3
<1>5. n - 1 \in S
  BY <1>2, <1>4
<1>. QED  BY <1>3, <1>4, <1>5

-----------------------------------------------------------------------------
(* DrawEmulation: how a draw is cut up.                                     *)

LEMMA Quotient ==
    ASSUME NEW i \in Nat, NEW d \in Nat, d > 0
    PROVE  i \div d \in Nat /\ (i \div d) * d <= i /\ i < (i \div d + 1) * d
OBVIOUS

LEMMA SameQuotient ==
    ASSUME NEW j \in Nat, NEW d \in Nat, d > 0, NEW q \in Nat, q * d <= j, j < (q + 1) * d
    PROVE  j \div d = q
OBVIOUS

Places == [offset : Offsets \cup {Null}, element : Nat]
Calls == [first : Nat, count : Nat, buffers : [Draws!Bindings -> Places]]
Divisors == [Draws!Bindings -> Nat]
DivisorsOf(d) == Draws!Divided([divisors |-> d])

\* A chunk has an instance and ends where the draw does, if no attribute changes
\* before: none changes within it.
LEMMA ChunkEnds ==
    ASSUME command.info \in Divisors, NEW i \in Nat, NEW end \in Nat, i < end
    PROVE  /\ Draws!Chunk(i, end) \in 1 .. end - i
           /\ \A b \in DivisorsOf(command.info) : \A j \in i .. i + Draws!Chunk(i, end) - 1 :
                  j \div command.info[b] = i \div command.info[b]
<1>. DEFINE divided == Draws!Divided([divisors |-> command.info])
            boundary(b) == (i \div command.info[b] + 1) * command.info[b]
            stops == {end} \cup {boundary(b) : b \in divided}
<1>1. \A b \in divided : b \in Draws!Bindings /\ command.info[b] \in Nat /\ command.info[b] > 1
  BY DEF Divisors, Draws!Divided
<1>2. ASSUME NEW b \in divided
      PROVE  /\ i \div command.info[b] \in Nat
             /\ (i \div command.info[b]) * command.info[b] <= i
             /\ i < boundary(b) /\ boundary(b) \in Nat
  <2>1. command.info[b] \in Nat /\ command.info[b] > 0
    BY <1>1
  <2>2. i \div command.info[b] \in Nat
    BY <2>1, Quotient
  <2>3. boundary(b) \in Nat
    <3>1. \A x, y \in Nat : (x + 1) * y \in Nat
      OBVIOUS
    <3>. QED  BY <2>1, <2>2, <3>1
  <2>. QED  BY <2>1, <2>2, <2>3, Quotient
<1>. HIDE DEF boundary
<1>3. stops \in SUBSET Nat /\ stops # {} /\ \A n \in stops : i < n
  BY <1>2
<1>. DEFINE least == CHOOSE n \in stops : \A m \in stops : n <= m
<1>4. least \in stops /\ \A m \in stops : least <= m
  BY <1>3, Least
<1>5. Draws!Chunk(i, end) = least - i
  BY Zenon DEF Draws!Chunk, boundary
<1>6. least \in Nat /\ i < least /\ least <= end
  BY <1>3, <1>4
<1>. HIDE DEF least
<1>7. ASSUME NEW b \in divided, NEW j \in i .. i + Draws!Chunk(i, end) - 1
      PROVE  j \div command.info[b] = i \div command.info[b]
  <2>. DEFINE d == command.info[b]
  <2>1. least <= boundary(b)
    BY <1>4
  <2>2. j \in Nat /\ i <= j /\ j < least
    BY <1>5, <1>6
  <2>3. d \in Nat /\ d > 0 /\ boundary(b) \in Nat
    BY <1>1, <1>2
  <2>4. (i \div d) * d <= j
    <3>1. i \div d \in Nat /\ (i \div d) * d <= i /\ (i \div d) * d \in Nat
      <4>1. \A x, y \in Nat : x * y \in Nat
        OBVIOUS
      <4>. QED  BY <1>2, <2>3, <4>1
    <3>. QED  BY <2>2, <3>1
  <2>5. j < (i \div d + 1) * d
    BY <1>6, <2>1, <2>2, <2>3 DEF boundary
  <2>6. i \div d \in Nat
    BY <1>2
  <2>. HIDE DEF d
  <2>7. j \div d = i \div d
    BY <2>2, <2>3, <2>4, <2>5, <2>6, SameQuotient
  <2>. QED  BY <2>7 DEF d
<1>8. least - i \in 1 .. end - i
  BY <1>6
<1>. QED  BY <1>5, <1>7, <1>8 DEF DivisorsOf

LEMMA PrefixOf ==
    ASSUME NEW S, NEW c \in S, NEW s \in Seq(S)
    PROVE  /\ <<c>> \o s \in Seq(S) /\ Len(<<c>> \o s) = Len(s) + 1 /\ (<<c>> \o s)[1] = c
           /\ \A k \in 1 .. Len(s) : (<<c>> \o s)[k + 1] = s[k]
OBVIOUS

\* What a module has bound and the driver has.
BuffersType ==
    /\ command.info \in Divisors \cup {Null}
    /\ command.offsets \in [Draws!Bindings -> Offsets \cup {Null}]
    /\ native.offsets \in [Draws!Bindings -> Offsets \cup {Null}]

\* Every instance of a call reads the element of its own.
Whole(c) ==
    \A b \in DivisorsOf(command.info) : command.offsets[b] # Null =>
        /\ c.buffers[b].offset = command.offsets[b]
        /\ \A j \in c.first .. c.first + c.count - 1 : c.buffers[b].element = j \div command.info[b]
Cut(calls, i, n) ==
    /\ calls \in Seq(Calls) /\ (calls = <<>> => n = 0) /\ Draws!Covers(calls, i, n)
    /\ \A k \in 1 .. Len(calls) : Whole(calls[k])

LEMMA MovedType ==
    ASSUME BuffersType, command.info \in Divisors, NEW i \in Nat
    PROVE  Draws!Moved(i) \in [Draws!Bindings -> Places]
<1>1. \A b \in Draws!Bindings : command.info[b] > 1 => i \div command.info[b] \in Nat
  BY DEF Divisors
<1>. QED  BY <1>1 DEF BuffersType, Places, Draws!Moved, Draws!Plain

\* The recursive function of Chunks: its value at i, given the others.
ChunksFrom(f, i, end) ==
    IF i = end THEN <<>>
    ELSE <<Draws!Call(i, Draws!Chunk(i, end), Draws!Moved(i))>> \o f[i + Draws!Chunk(i, end)]

LEMMA OneCall ==
    ASSUME BuffersType, command.info \in Divisors, NEW i \in Nat, NEW end \in Nat, i < end
    PROVE  LET c == Draws!Call(i, Draws!Chunk(i, end), Draws!Moved(i))
           IN  c \in Calls /\ c.first = i /\ c.count = Draws!Chunk(i, end) /\ Whole(c)
<1>. DEFINE n == Draws!Chunk(i, end)
            c == Draws!Call(i, n, Draws!Moved(i))
<1>1. n \in 1 .. end - i /\ \A b \in DivisorsOf(command.info) : \A j \in i .. i + n - 1 :
                                j \div command.info[b] = i \div command.info[b]
  BY ChunkEnds
<1>. HIDE DEF n
<1>2. Draws!Moved(i) \in [Draws!Bindings -> Places]
  BY MovedType
<1>3. c \in Calls /\ c.first = i /\ c.count = n /\ c.buffers = Draws!Moved(i)
  BY <1>1, <1>2 DEF Calls, Draws!Call
<1>. HIDE DEF c
<1>4. \A b \in DivisorsOf(command.info) : command.offsets[b] # Null =>
          Draws!Moved(i)[b] = [offset |-> command.offsets[b], element |-> i \div command.info[b]]
  BY DEF DivisorsOf, Draws!Divided, Draws!Moved
<1>5. Whole(c)
  <2>1. ASSUME NEW b \in DivisorsOf(command.info), command.offsets[b] # Null
        PROVE  /\ c.buffers[b].offset = command.offsets[b]
               /\ \A j \in i .. i + n - 1 : c.buffers[b].element = j \div command.info[b]
    <3>1. c.buffers[b] = [offset |-> command.offsets[b], element |-> i \div command.info[b]]
      BY <1>3, <1>4, <2>1
    <3>2. \A j \in i .. i + n - 1 : j \div command.info[b] = i \div command.info[b]
      BY <1>1
    <3>. QED  BY <3>1, <3>2
  <2>. QED  BY <1>3, <2>1 DEF Whole
<1>. QED  BY <1>3, <1>5 DEF c, n

LEMMA ChunksExist ==
    ASSUME BuffersType, command.info \in Divisors, NEW i \in Nat, NEW n \in Nat
    PROVE  \E f : f = [j \in i .. i + n |-> ChunksFrom(f, j, i + n)]
<1>. DEFINE end == i + n
            S == {k \in 0 .. n : \E f \in [end - k .. end -> Seq(Calls)] :
                                   \A j \in end - k .. end : f[j] = ChunksFrom(f, j, end)}
<1>0. end \in Nat /\ \A j \in i .. end : j \in Nat
  OBVIOUS
<1>1. 0 \in S
  <2>. DEFINE f == [j \in end - 0 .. end |-> <<>>]
  <2>1. f \in [end - 0 .. end -> Seq(Calls)] /\ \A j \in end - 0 .. end : f[j] = ChunksFrom(f, j, end)
    BY DEF ChunksFrom
  <2>. HIDE DEF f
  <2>. QED  BY <2>1
<1>2. ASSUME NEW k \in 0 .. n, k # n, k \in S PROVE k + 1 \in S
  <2>1. PICK f \in [end - k .. end -> Seq(Calls)] : \A j \in end - k .. end : f[j] = ChunksFrom(f, j, end)
    BY <1>2
  <2>. DEFINE m == end - (k + 1)
              c == Draws!Call(m, Draws!Chunk(m, end), Draws!Moved(m))
              g == [j \in m .. end |-> IF j = m THEN ChunksFrom(f, m, end) ELSE f[j]]
  <2>2. m \in Nat /\ m < end /\ m + 1 = end - k /\ end \in Nat /\ k + 1 \in 0 .. n
    BY <1>2
  <2>. HIDE DEF m
  <2>3. Draws!Chunk(m, end) \in 1 .. end - m /\ c \in Calls
    BY <2>2, OneCall, ChunkEnds
  <2>4. \A j \in m .. end : j = m \/ j \in end - k .. end
    BY <2>2
  <2>5. \A j \in end - k .. end : j # m /\ j \in m .. end /\ g[j] = f[j]
    BY <2>2
  <2>6. m + Draws!Chunk(m, end) \in end - k .. end
    BY <2>2, <2>3
  <2>7. ChunksFrom(f, m, end) \in Seq(Calls)
    <3>1. f[m + Draws!Chunk(m, end)] \in Seq(Calls)
      BY <2>1, <2>6
    <3>2. <<c>> \o f[m + Draws!Chunk(m, end)] \in Seq(Calls)
      BY <2>3, <3>1, PrefixOf
    <3>. QED  BY <2>2, <3>2 DEF ChunksFrom
  <2>8. g \in [m .. end -> Seq(Calls)]
    BY <2>1, <2>4, <2>7
  <2>9. ASSUME NEW j \in m .. end PROVE g[j] = ChunksFrom(g, j, end)
    <3>1. CASE j = m
      <4>1. g[m] = ChunksFrom(f, m, end) /\ g[m + Draws!Chunk(m, end)] = f[m + Draws!Chunk(m, end)]
        BY <2>2, <2>5, <2>6
      <4>. QED  BY <2>2, <3>1, <4>1 DEF ChunksFrom
    <3>2. CASE j # m
      <4>1. j \in end - k .. end /\ g[j] = ChunksFrom(f, j, end)
        BY <2>1, <2>4, <2>5, <3>2
      <4>2. j # end => j + Draws!Chunk(j, end) \in end - k .. end
        <5>1. j # end => j \in Nat /\ j < end
          BY <2>2, <4>1
        <5>2. j # end => Draws!Chunk(j, end) \in 1 .. end - j
          BY <2>2, <5>1, ChunkEnds
        <5>. QED  BY <2>2, <4>1, <5>1, <5>2
      <4>3. j # end => g[j + Draws!Chunk(j, end)] = f[j + Draws!Chunk(j, end)]
        BY <2>5, <4>2
      <4>. QED  BY <4>1, <4>3 DEF ChunksFrom
    <3>. QED  BY <3>1, <3>2
  <2>. HIDE DEF g
  <2>. QED  BY <2>2, <2>8, <2>9 DEF m
<1>3. n \in S
  <2>. HIDE DEF S
  <2>. QED  BY <1>1, <1>2, Upto
<1>4. end - n = i
  OBVIOUS
<1>5. PICK f \in [i .. end -> Seq(Calls)] : \A j \in i .. end : f[j] = ChunksFrom(f, j, end)
  BY <1>3, <1>4
<1>6. f = [j \in i .. end |-> ChunksFrom(f, j, end)]
  BY <1>5
<1>. QED  BY <1>6

\* A draw is cut into its instances, in order, each with its own elements.
LEMMA ChunksCut ==
    ASSUME BuffersType, command.info \in Divisors, NEW i \in Nat, NEW n \in Nat
    PROVE  Cut(Draws!Chunks(i, n), i, n)
<1>. DEFINE end == i + n
            f == CHOOSE f : f = [j \in i .. end |-> ChunksFrom(f, j, end)]
<1>1. f = [j \in i .. end |-> ChunksFrom(f, j, end)]
  BY ChunksExist, Zenon
<1>2. Draws!Chunks(i, n) = f[i]
  BY Zenon DEF Draws!Chunks, ChunksFrom
<1>. HIDE DEF f
<1>3. \A j \in i .. end : f[j] = ChunksFrom(f, j, end)
  BY <1>1
<1>4. end \in Nat /\ end - 0 = end /\ end - n = i /\ end \in i .. end
  OBVIOUS
<1>. HIDE DEF end
<1>. DEFINE S == {k \in 0 .. n : \A m \in 0 .. k : Cut(f[end - m], end - m, m)}
<1>5. 0 \in S
  <2>0. f[end] = ChunksFrom(f, end, end)
    BY <1>3, <1>4
  <2>1. f[end] = <<>>
    BY <2>0, Zenon DEF ChunksFrom
  <2>2. Cut(<<>>, end, 0)
    BY DEF Cut, Draws!Covers
  <2>. QED  BY <1>4, <2>1, <2>2
<1>6. ASSUME NEW k \in 0 .. n, k # n, k \in S PROVE k + 1 \in S
  <2>. DEFINE m == end - (k + 1)
              c == Draws!Call(m, Draws!Chunk(m, end), Draws!Moved(m))
              r == end - (m + Draws!Chunk(m, end))
              s == f[m + Draws!Chunk(m, end)]
  <2>1. m \in i .. end /\ m \in Nat /\ m < end /\ k + 1 \in 0 .. n /\ end - m = k + 1 /\ k \in Nat
    BY <1>4, <1>6 DEF end
  <2>. HIDE DEF m
  <2>2. /\ c \in Calls /\ c.first = m /\ c.count = Draws!Chunk(m, end) /\ Whole(c)
        /\ Draws!Chunk(m, end) \in 1 .. k + 1
    BY <1>4, <2>1, OneCall, ChunkEnds
  <2>. HIDE DEF c
  <2>3. r \in 0 .. k /\ m + Draws!Chunk(m, end) = end - r /\ r + Draws!Chunk(m, end) = k + 1
    BY <1>4, <2>1, <2>2
  <2>. HIDE DEF r
  <2>4. Cut(s, end - r, r)
    BY <1>6, <2>3
  <2>5. f[m] = <<c>> \o s
    <3>1. f[m] = ChunksFrom(f, m, end) /\ m # end
      BY <1>3, <1>4, <2>1
    <3>. QED  BY <3>1, Zenon DEF ChunksFrom, c, s
  <2>. HIDE DEF s
  <2>. DEFINE t == <<c>> \o s
  <2>6. s \in Seq(Calls) /\ Len(s) \in Nat /\ (s = <<>> <=> Len(s) = 0)
    BY <2>4 DEF Cut
  <2>7. /\ t \in Seq(Calls) /\ Len(t) = Len(s) + 1 /\ t[1] = c
        /\ \A l \in 1 .. Len(s) : t[l + 1] = s[l]
    BY <2>2, <2>6, PrefixOf
  <2>. HIDE DEF t
  <2>8. t # <<>>
    BY <2>6, <2>7
  <2>9. \A l \in 1 .. Len(t) : l = 1 \/ (l - 1 \in 1 .. Len(s) /\ t[l] = s[l - 1])
    BY <2>6, <2>7
  <2>10. \A l \in 1 .. Len(t) : Whole(t[l])
    BY <2>2, <2>4, <2>7, <2>9 DEF Cut
  <2>11. Draws!Covers(t, m, k + 1)
    <3>1. CASE s = <<>>
      <4>1. r = 0 /\ Len(t) = 1 /\ c.count = k + 1
        BY <2>2, <2>3, <2>4, <2>6, <2>7, <3>1 DEF Cut
      <4>2. t[Len(t)] = c /\ 1 .. Len(t) - 1 = {} /\ c.first + c.count = m + (k + 1)
        <5>1. 1 .. Len(t) - 1 = {}
          BY <4>1
        <5>. QED  BY <2>2, <2>7, <4>1, <5>1
      <4>. QED  BY <2>2, <2>7, <2>8, <4>2 DEF Draws!Covers
    <3>2. CASE s # <<>>
      <4>1. /\ s[1].first = end - r
            /\ \A l \in 1 .. Len(s) - 1 : s[l + 1].first = s[l].first + s[l].count
            /\ s[Len(s)].first + s[Len(s)].count = end - r + r
        BY <2>4, <3>2 DEF Cut, Draws!Covers
      <4>2. \A l \in 1 .. Len(t) - 1 : t[l + 1].first = t[l].first + t[l].count
        <5>1. t[2] = s[1]
          BY <2>6, <2>7, <3>2
        <5>2. t[2].first = t[1].first + t[1].count
          BY <2>2, <2>3, <2>7, <4>1, <5>1
        <5>3. ASSUME NEW l \in 1 .. Len(t) - 1, l # 1 PROVE t[l + 1].first = t[l].first + t[l].count
          <6>1. l - 1 \in 1 .. Len(s) - 1 /\ l \in 1 .. Len(t) /\ l + 1 \in 1 .. Len(t) /\ l \in 1 .. Len(s)
            BY <2>6, <2>7, <5>3
          <6>2. t[l] = s[l - 1] /\ t[l + 1] = s[l - 1 + 1]
            BY <2>7, <2>9, <5>3, <6>1
          <6>. QED  BY <4>1, <6>1, <6>2
        <5>. QED  BY <5>2, <5>3
      <4>3. t[Len(t)] = s[Len(s)]
        BY <2>6, <2>7, <3>2
      <4>4. end - r + r = m + (k + 1)
        BY <1>4, <2>1, <2>3
      <4>. QED  BY <2>2, <2>7, <2>8, <4>1, <4>2, <4>3, <4>4 DEF Draws!Covers
    <3>. QED  BY <3>1, <3>2
  <2>12. Cut(f[m], m, k + 1)
    BY <2>5, <2>7, <2>8, <2>10, <2>11 DEF Cut, t
  <2>13. \A l \in 0 .. k + 1 : l \in 0 .. k \/ l = k + 1
    BY <2>1
  <2>14. \A l \in 0 .. k : Cut(f[end - l], end - l, l)
    BY <1>6
  <2>15. end - (k + 1) = m
    BY DEF m
  <2>16. \A l \in 0 .. k + 1 : Cut(f[end - l], end - l, l)
    BY <2>12, <2>13, <2>14, <2>15
  <2>. QED  BY <2>1, <2>16
<1>7. n \in S
  <2>. HIDE DEF S
  <2>. QED  BY <1>5, <1>6, Upto
<1>8. Cut(f[i], i, n)
  BY <1>4, <1>7
<1>. QED  BY <1>2, <1>8

-----------------------------------------------------------------------------
(* DrawEmulation: the inductive invariant.                                  *)

Signs == [Draws!Slots -> BOOLEAN \cup {Undefined}]
Buffers == [Draws!Bindings -> Offsets \cup {Null}]
Commanded == [pipeline : Pipelines \cup {Null}, signs : Signs, offsets : Buffers]

DrawType ==
    /\ rate \in BOOLEAN /\ tracking \in BOOLEAN /\ refused \in BOOLEAN
    /\ pipeline \in [Pipelines -> Recorded \cup {Null}]
    /\ variant \in [Pipelines -> {"own", "stale", Null}]
    /\ samples \in [Pipelines -> SUBSET Draws!Slots]
    /\ divisor \in [Pipelines -> Divisors \cup {Null}]
    /\ lookup \in [pipeline : Pipelines \cup {Null}, info : Divisors \cup {Null}]
    /\ current \in Pipelines \cup {Null}
    /\ signs \in Signs
    /\ command \in [info : Divisors \cup {Null}, offsets : Buffers]
    /\ native \in Commanded /\ meant \in Commanded

\* What the driver was given for a pipeline shows what was asked for.
AsAsked(shape, kind) ==
    \/ shape.signs = kind.viewports /\ shape.flip = FALSE
    \/ /\ \A s \in Draws!Slots : shape.signs[s] = FALSE
       /\ \A s \in kind.samples : kind.viewports[s] = shape.flip

\* The records of a pipeline are its own; only the variant and what was sampled
\* stay with the handle.
PipelinesInv ==
    \A p \in Pipelines :
        IF pipeline[p] = Null THEN divisor[p] = Null /\ variant[p] # "own"
        ELSE LET kind == pipeline[p].kind IN
             /\ Draws!Dynamic(kind) \/ AsAsked(pipeline[p], kind)
             /\ variant[p] = "own" => Draws!Dynamic(kind) /\ samples[p] = kind.samples
             /\ divisor[p] = IF Draws!Rewritten(kind) = {} THEN Null ELSE kind.divisors
             /\ ~rate /\ Draws!Divided(kind) # {} => tracking

\* What a thread remembers of a pipeline is so; nothing is remembered of
\* buffers or divisors before there is a divided pipeline.
RemembersInv ==
    /\ lookup.pipeline # Null => lookup.info = divisor[lookup.pipeline]
    /\ ~tracking => command = Draws!NoCommand

\* The driver has bound what the application did, and the module knows it, or
\* nothing where there is nothing to divide.
BoundInv ==
    /\ current = meant.pipeline /\ native.pipeline = current /\ native.offsets = meant.offsets
    /\ drawn.command # "none" => current # Null
    /\ current # Null =>
           /\ pipeline[current] # Null
           /\ \/ command.info = divisor[current]
              \/ command.info = Null /\ Draws!Divided(pipeline[current].kind) = {}
    /\ \A b \in Draws!Bindings :
           meant.offsets[b] # Null /\ command.offsets[b] # Null => command.offsets[b] = meant.offsets[b]

\* Until a set of viewports was refused, the layer knows the signs of those
\* that are set, and the driver has positive heights.
SignsInv ==
    ~refused => \A s \in Draws!Slots :
        meant.signs[s] # Undefined => signs[s] = meant.signs[s] /\ native.signs[s] = FALSE

KnownInv == DrawType /\ PipelinesInv /\ RemembersInv /\ BoundInv /\ SignsInv
DrawInv == KnownInv /\ Draws!DrawSound

-----------------------------------------------------------------------------
(* DrawEmulation: pipelines.                                                *)

LEMMA NullApart ==
    /\ Null \notin Pipelines /\ Null \notin Offsets /\ Null \notin Recorded /\ Null \notin Divisors
    /\ Null # "own" /\ Null # "stale" /\ Undefined \notin BOOLEAN
    /\ Null \notin [Draws!Slots -> BOOLEAN]
BY DrawsAssumption DEF Divisors

LEMMA KindType ==
    ASSUME NEW kind \in Kinds
    PROVE  /\ kind.samples \in (SUBSET Draws!Slots) \ {{}} /\ kind.divisors \in Divisors
           /\ kind.viewports \in [Draws!Slots -> BOOLEAN] \cup {Null}
BY DrawsAssumption DEF Draws!Kind, Divisors

LEMMA StaticType ==
    ASSUME NEW kind \in Kinds, ~Draws!Dynamic(kind)
    PROVE  kind.viewports \in [Draws!Slots -> BOOLEAN]
BY KindType, Zenon DEF Draws!Dynamic

LEMMA SomeSlot ==
    ASSUME NEW T \in (SUBSET Draws!Slots) \ {{}}
    PROVE  \E u \in T : TRUE
OBVIOUS

LEMMA OneSlot ==
    ASSUME NEW T \in SUBSET Draws!Slots, T # Draws!Slots, NEW s \in T, NEW u \in T
    PROVE  s = u
BY DEF Draws!Slots

LEMMA StaticShows ==
    ASSUME NEW kind \in Kinds, NEW rewritable \in BOOLEAN, ~Draws!Dynamic(kind)
    PROVE  /\ Draws!Static(kind, rewritable) \in [signs : Signs, flip : BOOLEAN]
           /\ AsAsked(Draws!Static(kind, rewritable), kind)
<1>. DEFINE S == Draws!Slots
            all == \A s \in kind.samples : kind.viewports[s]
            same == [signs |-> kind.viewports, flip |-> FALSE]
            turned == [signs |-> [s \in S |-> FALSE], flip |-> all]
            undecided == kind.samples = S /\ \E s \in S : ~kind.viewports[s]
            kept == ~rewritable \/ undecided \/ \A s \in S : ~kind.viewports[s]
<1>1. kind.samples \in (SUBSET S) \ {{}}
  BY KindType, Zenon
<1>2. kind.viewports \in [S -> BOOLEAN]
  BY StaticType, Zenon
<1>3. CASE kept
  <2>1. Draws!Static(kind, rewritable) = same
    BY <1>3, Zenon DEF Draws!Static
  <2>2. same.signs \in Signs /\ same.flip \in BOOLEAN /\ AsAsked(same, kind)
    BY <1>2 DEF Signs, AsAsked
  <2>3. same \in [signs : Signs, flip : BOOLEAN]
    BY <2>2
  <2>. QED  BY <2>1, <2>2, <2>3
<1>4. CASE ~kept
  <2>1. Draws!Static(kind, rewritable) = turned
    BY <1>4, Zenon DEF Draws!Static
  <2>2. all \in BOOLEAN
    OBVIOUS
  <2>3. \A s \in kind.samples : kind.viewports[s] = all
    <3>1. CASE kind.samples = S
      <4>1. \A s \in S : kind.viewports[s] = TRUE
        BY <1>2, <1>4, <3>1, Zenon
      <4>. QED  BY <3>1, <4>1, Zenon
    <3>2. CASE kind.samples # S
      <4>1. \A s, u \in kind.samples : s = u
        BY <1>1, <3>2, OneSlot, Zenon
      <4>2. PICK u \in kind.samples : TRUE
        BY <1>1, SomeSlot, Zenon
      <4>3. kind.samples = {u} /\ u \in S
        BY <1>1, <4>1, <4>2, Zenon
      <4>4. all <=> kind.viewports[u]
        BY <4>3, Zenon
      <4>5. kind.viewports[u] \in BOOLEAN
        BY <1>2, <4>3, Zenon
      <4>6. kind.viewports[u] = all
        <5>1. CASE all  BY <4>4, <4>5, <5>1, Zenon
        <5>2. CASE ~all  BY <4>4, <4>5, <5>2, Zenon
        <5>. QED  BY <5>1, <5>2
      <4>. QED  BY <4>3, <4>6, Zenon
    <3>. QED  BY <3>1, <3>2
  <2>. HIDE DEF all
  <2>4. turned \in [signs : Signs, flip : BOOLEAN] /\ AsAsked(turned, kind)
    BY <2>2, <2>3 DEF Signs, AsAsked
  <2>. QED  BY <2>1, <2>4
<1>. QED  BY <1>3, <1>4

LEMMA KnownInit == Draws!Init => DrawInv
<1>. SUFFICES ASSUME Draws!Init PROVE DrawInv
  OBVIOUS
<1>. USE DEF Draws!Init
<1>1. Draws!NoSigns \in Signs /\ Draws!NoBuffers \in Buffers
  BY DEF Signs, Buffers, Draws!NoSigns, Draws!NoBuffers
<1>2. Draws!Blank \in Commanded /\ Draws!NoCommand \in [info : Divisors \cup {Null}, offsets : Buffers]
  BY <1>1 DEF Commanded, Draws!Blank, Draws!NoCommand
<1>3. Draws!NoLookup \in [pipeline : Pipelines \cup {Null}, info : Divisors \cup {Null}]
  BY DEF Draws!NoLookup
<1>4. DrawType
  BY <1>1, <1>2, <1>3 DEF DrawType, Draws!Slots
<1>5. PipelinesInv
  BY NullApart DEF PipelinesInv
<1>6. RemembersInv
  BY DEF RemembersInv, Draws!NoLookup
<1>7. BoundInv
  BY DEF BoundInv, Draws!Blank, Draws!NoCommand, Draws!NoBuffers, Draws!NoDraw
<1>8. SignsInv
  BY DEF SignsInv, Draws!Blank, Draws!NoSigns
<1>9. Draws!DrawSound
  BY DEF Draws!DrawSound, Draws!NoDraw
<1>. QED  BY <1>4, <1>5, <1>6, <1>7, <1>8, <1>9 DEF DrawInv, KnownInv

LEMMA DrawBegins ==
    ASSUME KnownInv, NEW explicit \in BOOLEAN, Draws!Begin(explicit)
    PROVE  DrawInv'
<1>. USE DEF Draws!Begin, Draws!made, KnownInv
<1>1. Draws!NoSigns \in Signs /\ Draws!NoBuffers \in Buffers
  BY DEF Signs, Buffers, Draws!NoSigns, Draws!NoBuffers
<1>2. Draws!Blank \in Commanded
  BY <1>1 DEF Commanded, Draws!Blank
<1>3. command' \in [info : Divisors \cup {Null}, offsets : Buffers]
  BY DEF DrawType
<1>4. DrawType'
  BY <1>1, <1>2, <1>3 DEF DrawType
<1>5. PipelinesInv'
  BY Zenon DEF PipelinesInv, Draws!Dynamic, Draws!Rewritten, Draws!Divided, Draws!Bindings
<1>6. RemembersInv'
  BY DEF RemembersInv, Draws!NoCommand, Draws!NoBuffers
<1>7. BoundInv'
  BY DEF BoundInv, Draws!Blank, Draws!NoBuffers, Draws!NoDraw
<1>8. SignsInv'
  BY DEF SignsInv, Draws!Blank, Draws!NoSigns
<1>9. Draws!DrawSound'
  BY DEF Draws!DrawSound, Draws!NoDraw
<1>. QED  BY <1>4, <1>5, <1>6, <1>7, <1>8, <1>9 DEF DrawInv

LEMMA BindsVertexBuffer ==
    ASSUME KnownInv, NEW b \in Draws!Bindings, NEW offset \in Offsets, Draws!BindVertexBuffer(b, offset)
    PROVE  DrawInv'
<1>. USE DEF Draws!BindVertexBuffer, Draws!made, KnownInv
<1>1. /\ command' \in [info : Divisors \cup {Null}, offsets : Buffers]
      /\ native' \in Commanded /\ meant' \in Commanded
  BY DEF DrawType, Buffers, Commanded
<1>4. DrawType'
  BY <1>1 DEF DrawType
<1>5. PipelinesInv'
  BY Zenon DEF PipelinesInv, Draws!Dynamic, Draws!Rewritten, Draws!Divided, Draws!Bindings
<1>6. RemembersInv'
  BY DEF RemembersInv
<1>7. BoundInv'
  <2>1. /\ current' = meant'.pipeline /\ native'.pipeline = current' /\ native'.offsets = meant'.offsets
        /\ command'.info = command.info
    BY DEF BoundInv, DrawType, Commanded
  <2>2. \A c \in Draws!Bindings :
           meant'.offsets[c] # Null /\ command'.offsets[c] # Null => command'.offsets[c] = meant'.offsets[c]
    BY DEF BoundInv, DrawType, Commanded, Buffers, RemembersInv, Draws!NoCommand, Draws!NoBuffers
  <2>. QED  BY <2>1, <2>2 DEF BoundInv, Draws!Divided, Draws!NoDraw
<1>8. SignsInv'
  BY DEF SignsInv, DrawType, Commanded
<1>9. Draws!DrawSound'
  BY DEF Draws!DrawSound, Draws!NoDraw
<1>. QED  BY <1>4, <1>5, <1>6, <1>7, <1>8, <1>9 DEF DrawInv

LEMMA OneRecord ==
    ASSUME PipelinesInv, NEW p \in Pipelines, pipeline[p] # Null
    PROVE  /\ Draws!Dynamic(pipeline[p].kind) \/ AsAsked(pipeline[p], pipeline[p].kind)
           /\ variant[p] = "own" =>
                  Draws!Dynamic(pipeline[p].kind) /\ samples[p] = pipeline[p].kind.samples
           /\ Draws!Rewritten(pipeline[p].kind) = {} => divisor[p] = Null
           /\ Draws!Rewritten(pipeline[p].kind) # {} => divisor[p] = pipeline[p].kind.divisors
           /\ ~rate /\ Draws!Divided(pipeline[p].kind) # {} => tracking
<1>. DEFINE kind == pipeline[p].kind
<1>1. /\ Draws!Dynamic(kind) \/ AsAsked(pipeline[p], kind)
      /\ variant[p] = "own" => Draws!Dynamic(kind) /\ samples[p] = kind.samples
      /\ divisor[p] = IF Draws!Rewritten(kind) = {} THEN Null ELSE kind.divisors
      /\ ~rate /\ Draws!Divided(kind) # {} => tracking
  BY DEF PipelinesInv
<1>. HIDE DEF kind
<1>. QED  BY <1>1 DEF kind

LEMMA SetsViewport ==
    ASSUME KnownInv, NEW S \in SUBSET Draws!Slots, NEW new \in [S -> BOOLEAN], Draws!SetViewport(new)
    PROVE  DrawInv'
<1>. DEFINE merged == Draws!Merged(signs, new)
            mixed == current # Null /\ samples[current] = Draws!Slots /\ Draws!BothSigns(merged)
            shown == Draws!Merged(native.signs, IF mixed THEN new ELSE [s \in DOMAIN new |-> FALSE])
            asked == Draws!Merged(meant.signs, new)
<1>1. /\ signs' = (IF mixed THEN signs ELSE merged) /\ refused' = (refused \/ mixed)
      /\ native' = [native EXCEPT !.signs = shown] /\ meant' = [meant EXCEPT !.signs = asked]
      /\ drawn' = Draws!NoDraw
      /\ UNCHANGED <<rate, multi, pipeline, variant, samples, divisor, tracking, lookup, current, command>>
  BY Zenon DEF Draws!SetViewport, Draws!made
<1>2. \A old \in Signs : \A f \in [S -> BOOLEAN] : Draws!Merged(old, f) \in Signs
  BY DEF Signs, Draws!Merged
<1>3. signs \in Signs /\ native.signs \in Signs /\ meant.signs \in Signs
  BY DEF KnownInv, DrawType, Commanded
<1>4. shown \in Signs /\ merged \in Signs /\ asked \in Signs
  BY <1>2, <1>3
<1>5. \A s \in Draws!Slots :
          /\ merged[s] = IF s \in S THEN new[s] ELSE signs[s]
          /\ asked[s] = IF s \in S THEN new[s] ELSE meant.signs[s]
          /\ ~mixed => shown[s] = IF s \in S THEN FALSE ELSE native.signs[s]
  BY DEF Draws!Merged
<1>. HIDE DEF mixed, merged, shown, asked
<1>. USE DEF KnownInv
<1>6. native' \in Commanded /\ meant' \in Commanded
  BY <1>1, <1>4 DEF DrawType, Commanded
<1>7. refused' \in BOOLEAN
  BY <1>1
<1>8. DrawType'
  <2>1. signs' \in Signs
    BY <1>1, <1>3, <1>4
  <2>. QED  BY <1>1, <1>6, <1>7, <2>1 DEF DrawType
<1>9. PipelinesInv'
  BY <1>1, Zenon DEF PipelinesInv, Draws!Dynamic, Draws!Rewritten, Draws!Divided, Draws!Bindings
<1>10. RemembersInv'
  BY <1>1 DEF RemembersInv, Draws!NoCommand
<1>11. BoundInv'
  BY <1>1 DEF BoundInv, DrawType, Commanded, Draws!NoDraw, Draws!Divided
<1>12. SignsInv'
  <2>1. SUFFICES ASSUME ~refused', NEW s \in Draws!Slots, meant'.signs[s] # Undefined
                 PROVE  signs'[s] = meant'.signs[s] /\ native'.signs[s] = FALSE
    BY DEF SignsInv
  <2>2. ~mixed /\ ~refused
    BY <1>1, <2>1
  <2>3. signs' = merged /\ native'.signs = shown /\ meant'.signs = asked
    BY <1>1, <2>2 DEF DrawType, Commanded
  <2>4. meant.signs[s] # Undefined => signs[s] = meant.signs[s] /\ native.signs[s] = FALSE
    BY <2>2 DEF SignsInv
  <2>5. CASE s \in S
    BY <1>5, <2>2, <2>3, <2>5
  <2>6. CASE s \notin S
    BY <1>5, <2>1, <2>2, <2>3, <2>4, <2>6
  <2>. QED  BY <2>5, <2>6
<1>13. Draws!DrawSound'
  BY <1>1 DEF Draws!DrawSound, Draws!NoDraw
<1>. QED  BY <1>8, <1>9, <1>10, <1>11, <1>12, <1>13 DEF DrawInv

LEMMA BindsPipeline ==
    ASSUME KnownInv, NEW p \in Pipelines, Draws!BindPipeline(p)
    PROVE  DrawInv'
<1>. USE DEF KnownInv
<1>. DEFINE fixed == ~Draws!Dynamic(pipeline[p].kind)
<1>1. /\ pipeline[p] # Null /\ current' = p /\ drawn' = Draws!NoDraw
      /\ native' = [native EXCEPT !.pipeline = p, !.signs = IF fixed THEN Draws!NoSigns ELSE @]
      /\ meant' = [meant EXCEPT !.pipeline = p, !.signs = IF fixed THEN Draws!NoSigns ELSE @]
      /\ UNCHANGED <<rate, multi, pipeline, variant, samples, divisor, tracking, signs, refused>>
  BY Zenon DEF Draws!BindPipeline, Draws!made
<1>2. Draws!Remembered(p) = divisor[p] /\ divisor[p] \in Divisors \cup {Null}
  BY NullApart DEF Draws!Remembered, RemembersInv, DrawType
<1>3. IF tracking
      THEN command' = [command EXCEPT !.info = divisor[p]] /\ lookup' = [pipeline |-> p, info |-> divisor[p]]
      ELSE command' = command /\ lookup' = lookup
  BY <1>2, Zenon DEF Draws!BindPipeline
<1>4. Draws!NoSigns \in Signs
  BY DEF Signs, Draws!NoSigns
<1>. HIDE DEF fixed
<1>5. native' \in Commanded /\ meant' \in Commanded
  BY <1>1, <1>4 DEF DrawType, Commanded
<1>6. /\ command' \in [info : Divisors \cup {Null}, offsets : Buffers]
      /\ lookup' \in [pipeline : Pipelines \cup {Null}, info : Divisors \cup {Null}]
  BY <1>2, <1>3 DEF DrawType
<1>7. DrawType'
  BY <1>1, <1>5, <1>6 DEF DrawType
<1>8. PipelinesInv'
  BY <1>1, Zenon DEF PipelinesInv, Draws!Dynamic, Draws!Rewritten, Draws!Divided, Draws!Bindings
<1>9. RemembersInv'
  BY <1>1, <1>3 DEF RemembersInv, Draws!NoCommand
<1>10. BoundInv'
  <2>1. /\ native'.offsets = native.offsets /\ meant'.offsets = meant.offsets
        /\ native'.pipeline = p /\ meant'.pipeline = p /\ command'.offsets = command.offsets
    BY <1>1, <1>3 DEF DrawType, Commanded
  <2>2. \/ command'.info = divisor[p]
        \/ command'.info = Null /\ Draws!Divided(pipeline[p].kind) = {}
    <3>1. CASE tracking
      <4>1. command'.info = divisor[p]
        BY <1>3, <3>1 DEF DrawType
      <4>. QED  BY <4>1
    <3>2. CASE ~tracking
      <4>1. command'.info = Null
        BY <1>3, <3>2 DEF RemembersInv, Draws!NoCommand
      <4>2. CASE rate
        <5>1. Draws!Rewritten(pipeline[p].kind) = {}
          BY <4>2 DEF Draws!Rewritten
        <5>2. divisor[p] = Null
          BY <1>1, <5>1, OneRecord, Zenon
        <5>. QED  BY <4>1, <5>2
      <4>3. CASE ~rate
        <5>1. Draws!Divided(pipeline[p].kind) = {}
          BY <1>1, <3>2, <4>3, OneRecord, Zenon
        <5>. QED  BY <4>1, <5>1
      <4>. QED  BY <4>2, <4>3
    <3>. QED  BY <3>1, <3>2
  <2>3. \A b \in Draws!Bindings :
          meant'.offsets[b] # Null /\ command'.offsets[b] # Null => command'.offsets[b] = meant'.offsets[b]
    BY <2>1 DEF BoundInv
  <2>4. native'.offsets = meant'.offsets
    BY <2>1 DEF BoundInv
  <2>5. Draws!Divided(pipeline[p].kind)' = Draws!Divided(pipeline[p].kind)
    BY <1>1 DEF Draws!Divided
  <2>6. drawn'.command = "none"
    BY <1>1 DEF Draws!NoDraw
  <2>. QED  BY <1>1, <2>1, <2>2, <2>3, <2>4, <2>5, <2>6 DEF BoundInv, Draws!Divided
<1>11. SignsInv'
  <2>1. /\ native'.signs = IF fixed THEN Draws!NoSigns ELSE native.signs
        /\ meant'.signs = IF fixed THEN Draws!NoSigns ELSE meant.signs
    BY <1>1 DEF DrawType, Commanded
  <2>. QED  BY <1>1, <2>1 DEF SignsInv, Draws!NoSigns
<1>12. Draws!DrawSound'
  BY <1>1 DEF Draws!DrawSound, Draws!NoDraw
<1>. QED  BY <1>7, <1>8, <1>9, <1>10, <1>11, <1>12 DEF DrawInv

LEMMA SoundKept ==
    ASSUME Draws!DrawSound, UNCHANGED <<rate, multi, native, meant, refused, command, drawn>>,
           drawn.command # "none" =>
               /\ pipeline'[meant.pipeline] = pipeline[meant.pipeline]
               /\ variant'[meant.pipeline] = variant[meant.pipeline]
    PROVE  Draws!DrawSound'
<1>. DEFINE p == meant.pipeline
<1>1. CASE drawn.command = "none"
  BY <1>1 DEF Draws!DrawSound
<1>2. CASE drawn.command # "none"
  <2>1. meant' = meant /\ pipeline'[p] = pipeline[p] /\ variant'[p] = variant[p]
    BY <1>2
  <2>2. Draws!Dynamic(pipeline'[p].kind) <=> Draws!Dynamic(pipeline[p].kind)
    BY <2>1
  <2>3. Draws!Prepared(p)' <=> Draws!Prepared(p)
    BY <2>1 DEF Draws!Prepared, Draws!Dynamic
  <2>4. Draws!Decided(p)' <=> Draws!Decided(p)
    BY <2>1 DEF Draws!Decided, Draws!Dynamic, Draws!BothSigns
  <2>5. Draws!Upright(p)' <=> Draws!Upright(p)
    BY <2>1, Zenon DEF Draws!Upright, Draws!TurnedOver, Draws!Negative, Draws!Dynamic
  <2>6. Draws!Divided(pipeline[p].kind)' = Draws!Divided(pipeline[p].kind)
    BY <2>1 DEF Draws!Divided
  <2>7. \A c, b, d : Draws!ReadsOwn(c, b, d)' <=> Draws!ReadsOwn(c, b, d)
    BY <2>1 DEF Draws!ReadsOwn
  <2>8. \A s, i, n : Draws!Covers(s, i, n)' <=> Draws!Covers(s, i, n)
    BY DEF Draws!Covers
  <2>. QED  BY <2>1, <2>3, <2>4, <2>5, <2>6, <2>7, <2>8, Zenon DEF Draws!DrawSound, Draws!Covers
<1>. QED  BY <1>1, <1>2

LEMMA CreatesPipeline ==
    ASSUME DrawInv, NEW p \in Pipelines, NEW kind \in Kinds, NEW rewritable \in BOOLEAN,
           NEW varied \in BOOLEAN, Draws!CreatePipeline(p, kind, rewritable, varied)
    PROVE  DrawInv'
<1>. DEFINE shape == IF Draws!Dynamic(kind) THEN [signs |-> Draws!NoSigns, flip |-> FALSE]
                     ELSE Draws!Static(kind, rewritable)
<1>1. /\ pipeline[p] = Null
      /\ pipeline' = [pipeline EXCEPT ![p] = [kind |-> kind, signs |-> shape.signs, flip |-> shape.flip]]
      /\ Draws!CreateVariant(p, kind, rewritable, varied)
      /\ Draws!RecordDivisors(p, kind)
      /\ UNCHANGED <<rate, multi, current, signs, command, native, meant, refused, drawn>>
  BY Zenon DEF Draws!CreatePipeline
<1>2. shape \in [signs : Signs, flip : BOOLEAN] /\ (Draws!Dynamic(kind) \/ AsAsked(shape, kind))
  <2>1. CASE Draws!Dynamic(kind)
    BY <2>1 DEF Signs, Draws!NoSigns
  <2>2. CASE ~Draws!Dynamic(kind)
    BY <2>2, StaticShows, Zenon
  <2>. QED  BY <2>1, <2>2
<1>. HIDE DEF shape
<1>3. shape.signs \in Signs /\ shape.flip \in BOOLEAN
  BY <1>2
<1>. USE DEF DrawInv, KnownInv
<1>4. divisor[p] = Null /\ variant[p] # "own"
  BY <1>1 DEF PipelinesInv
<1>5. \A q \in Pipelines \ {p} :
          /\ pipeline'[q] = pipeline[q] /\ variant'[q] = variant[q]
          /\ samples'[q] = samples[q] /\ divisor'[q] = divisor[q]
  BY <1>1 DEF Draws!CreateVariant, Draws!RecordDivisors, DrawType
<1>6. pipeline'[p] = [kind |-> kind, signs |-> shape.signs, flip |-> shape.flip]
  BY <1>1 DEF DrawType
<1>7. kind.divisors \in Divisors /\ kind.samples \in SUBSET Draws!Slots
  BY KindType
<1>8. DrawType'
  <2>1. [kind |-> kind, signs |-> shape.signs, flip |-> shape.flip] \in Recorded
    BY <1>3 DEF Recorded, Signs
  <2>2. pipeline' \in [Pipelines -> Recorded \cup {Null}]
    BY <1>1, <2>1 DEF DrawType
  <2>3. variant' \in [Pipelines -> {"own", "stale", Null}] /\ samples' \in [Pipelines -> SUBSET Draws!Slots]
    BY <1>1, <1>7 DEF DrawType, Draws!CreateVariant
  <2>4. /\ divisor' \in [Pipelines -> Divisors \cup {Null}] /\ tracking' \in BOOLEAN
        /\ lookup' \in [pipeline : Pipelines \cup {Null}, info : Divisors \cup {Null}]
    <3>1. Draws!NoLookup \in [pipeline : Pipelines \cup {Null}, info : Divisors \cup {Null}]
      BY DEF Draws!NoLookup
    <3>2. CASE Draws!Rewritten(kind) = {}
      BY <1>1, <3>2 DEF DrawType, Draws!RecordDivisors
    <3>3. CASE Draws!Rewritten(kind) # {}
      <4>1. divisor' \in [Pipelines -> Divisors \cup {Null}]
        BY <1>1, <1>7, <3>3 DEF DrawType, Draws!RecordDivisors
      <4>2. lookup' = Draws!NoLookup /\ tracking' = (tracking \/ Draws!Divided(kind) # {})
        BY <1>1, <3>3, Zenon DEF Draws!RecordDivisors
      <4>3. tracking' \in BOOLEAN
        BY <4>2, Zenon
      <4>. QED  BY <3>1, <4>1, <4>2, <4>3, Zenon
    <3>. QED  BY <3>2, <3>3
  <2>. QED  BY <1>1, <2>2, <2>3, <2>4 DEF DrawType
<1>9. tracking => tracking'
  BY <1>1 DEF Draws!RecordDivisors
<1>10. PipelinesInv'
  <2>1. \A q \in Pipelines \ {p} : pipeline[q] = Null => divisor'[q] = Null /\ variant'[q] # "own"
    BY <1>5 DEF PipelinesInv
  <2>2. \A k : (Draws!Rewritten(k)' = Draws!Rewritten(k)) /\ (Draws!Divided(k)' = Draws!Divided(k))
    BY <1>1 DEF Draws!Rewritten, Draws!Divided
  <2>3. \A q \in Pipelines : pipeline'[q] # Null =>
           /\ Draws!Dynamic(pipeline'[q].kind) \/ AsAsked(pipeline'[q], pipeline'[q].kind)
           /\ variant'[q] = "own" => Draws!Dynamic(pipeline'[q].kind) /\ samples'[q] = pipeline'[q].kind.samples
           /\ divisor'[q] = IF Draws!Rewritten(pipeline'[q].kind) = {} THEN Null ELSE pipeline'[q].kind.divisors
           /\ ~rate /\ Draws!Divided(pipeline'[q].kind) # {} => tracking'
    <3>1. SUFFICES ASSUME NEW q \in Pipelines, pipeline'[q] # Null
                   PROVE  /\ Draws!Dynamic(pipeline'[q].kind) \/ AsAsked(pipeline'[q], pipeline'[q].kind)
                          /\ variant'[q] = "own" =>
                                 Draws!Dynamic(pipeline'[q].kind) /\ samples'[q] = pipeline'[q].kind.samples
                          /\ divisor'[q] = IF Draws!Rewritten(pipeline'[q].kind) = {} THEN Null
                                           ELSE pipeline'[q].kind.divisors
                          /\ ~rate /\ Draws!Divided(pipeline'[q].kind) # {} => tracking'
      OBVIOUS
    <3>2. CASE q # p
      BY <1>5, <1>9, <3>1, <3>2, OneRecord, Zenon
    <3>3. CASE q = p
      <4>1. pipeline'[q].kind = kind /\ (Draws!Dynamic(kind) \/ AsAsked(pipeline'[q], kind))
        BY <1>2, <1>6, <3>3 DEF AsAsked
      <4>2. variant'[q] = "own" => Draws!Dynamic(kind) /\ samples'[q] = kind.samples
        BY <1>1, <1>4, <3>3 DEF Draws!CreateVariant, DrawType
      <4>3. divisor'[q] = IF Draws!Rewritten(kind) = {} THEN Null ELSE kind.divisors
        BY <1>1, <1>4, <3>3 DEF Draws!RecordDivisors, DrawType
      <4>4. ~rate /\ Draws!Divided(kind) # {} => tracking'
        <5>1. ~rate /\ Draws!Divided(kind) # {} => Draws!Rewritten(kind) # {}
          BY <1>7 DEF Draws!Rewritten, Draws!Divided, Divisors
        <5>. QED  BY <1>1, <5>1 DEF Draws!RecordDivisors
      <4>. QED  BY <4>1, <4>2, <4>3, <4>4, Zenon
    <3>. QED  BY <3>2, <3>3
  <2>4. \A q \in Pipelines : pipeline'[q] = Null => divisor'[q] = Null /\ variant'[q] # "own"
    <3>1. [kind |-> kind, signs |-> shape.signs, flip |-> shape.flip] # Null
      BY <1>3, NullApart DEF Recorded, Signs
    <3>. QED  BY <1>5, <1>6, <2>1, <3>1
  <2>5. UNCHANGED rate
    BY <1>1
  <2>. QED  BY <2>2, <2>3, <2>4, <2>5, Zenon DEF PipelinesInv, Draws!Dynamic, Draws!Rewritten, Draws!Divided
<1>11. current # p /\ (current # Null => current \in Pipelines \ {p})
  BY <1>1, NullApart DEF BoundInv, DrawType
<1>12. RemembersInv'
  <2>1. \/ lookup' = Draws!NoLookup
        \/ lookup' = lookup /\ divisor' = divisor
    BY <1>1, Zenon DEF Draws!RecordDivisors
  <2>. QED  BY <1>1, <1>9, <2>1 DEF RemembersInv, Draws!NoLookup, Draws!NoCommand, Draws!NoBuffers
<1>13. BoundInv'
  BY <1>1, <1>5, <1>11 DEF BoundInv, Draws!Divided
<1>14. SignsInv'
  BY <1>1 DEF SignsInv
<1>15. Draws!DrawSound'
  BY <1>1, <1>5, <1>11, SoundKept DEF BoundInv
<1>. QED  BY <1>8, <1>10, <1>12, <1>13, <1>14, <1>15 DEF DrawInv

LEMMA DestroysPipeline ==
    ASSUME DrawInv, NEW p \in Pipelines, Draws!DestroyPipeline(p)
    PROVE  DrawInv'
<1>. USE DEF DrawInv, KnownInv
<1>1. /\ pipeline[p] # Null /\ meant.pipeline # p
      /\ pipeline' = [pipeline EXCEPT ![p] = Null]
      /\ variant' = [variant EXCEPT ![p] = IF @ = Null THEN Null ELSE "stale"]
      /\ divisor' = [divisor EXCEPT ![p] = Null]
      /\ lookup' = IF divisor[p] = Null THEN lookup ELSE Draws!NoLookup
      /\ UNCHANGED <<rate, multi, samples, tracking, current, signs, command, native, meant, refused, drawn>>
  BY Zenon DEF Draws!DestroyPipeline, Draws!ForgetDivisors
<1>2. \A q \in Pipelines \ {p} :
          pipeline'[q] = pipeline[q] /\ variant'[q] = variant[q] /\ divisor'[q] = divisor[q]
  BY <1>1 DEF DrawType
<1>3. pipeline'[p] = Null /\ variant'[p] \in {"stale", Null} /\ divisor'[p] = Null
  BY <1>1 DEF DrawType
<1>4. DrawType'
  <2>1. lookup' \in [pipeline : Pipelines \cup {Null}, info : Divisors \cup {Null}]
    BY <1>1 DEF DrawType, Draws!NoLookup
  <2>. QED  BY <1>1, <2>1 DEF DrawType
<1>5. PipelinesInv'
  <2>1. "stale" # "own" /\ Null # "own"
    BY NullApart
  <2>2. \A k : (Draws!Rewritten(k)' = Draws!Rewritten(k)) /\ (Draws!Divided(k)' = Draws!Divided(k))
    BY <1>1 DEF Draws!Rewritten, Draws!Divided
  <2>3. \A q \in Pipelines : pipeline'[q] # Null =>
           /\ Draws!Dynamic(pipeline'[q].kind) \/ AsAsked(pipeline'[q], pipeline'[q].kind)
           /\ variant'[q] = "own" => Draws!Dynamic(pipeline'[q].kind) /\ samples'[q] = pipeline'[q].kind.samples
           /\ divisor'[q] = IF Draws!Rewritten(pipeline'[q].kind) = {} THEN Null ELSE pipeline'[q].kind.divisors
           /\ ~rate /\ Draws!Divided(pipeline'[q].kind) # {} => tracking'
    BY <1>1, <1>2, <1>3, OneRecord, Zenon
  <2>4. \A q \in Pipelines : pipeline'[q] = Null => divisor'[q] = Null /\ variant'[q] # "own"
    BY <1>2, <1>3, <2>1 DEF PipelinesInv
  <2>5. UNCHANGED <<rate, samples, tracking>>
    BY <1>1
  <2>. QED  BY <2>2, <2>3, <2>4, <2>5, Zenon DEF PipelinesInv, Draws!Dynamic, Draws!Rewritten, Draws!Divided
<1>6. current # p /\ (current # Null => current \in Pipelines \ {p})
  BY <1>1, NullApart DEF BoundInv, DrawType
<1>7. RemembersInv'
  <2>1. lookup'.pipeline # Null => lookup'.info = divisor'[lookup'.pipeline]
    <3>1. CASE divisor[p] = Null
      <4>1. divisor' = divisor /\ lookup' = lookup
        BY <1>1, <3>1 DEF DrawType
      <4>. QED  BY <4>1 DEF RemembersInv
    <3>2. CASE divisor[p] # Null
      BY <1>1, <3>2 DEF Draws!NoLookup
    <3>. QED  BY <3>1, <3>2
  <2>. QED  BY <1>1, <2>1 DEF RemembersInv, Draws!NoCommand, Draws!NoBuffers
<1>8. BoundInv'
  BY <1>1, <1>2, <1>6 DEF BoundInv, Draws!Divided
<1>9. SignsInv'
  BY <1>1 DEF SignsInv
<1>10. Draws!DrawSound'
  BY <1>1, <1>2, <1>6, SoundKept DEF BoundInv
<1>. QED  BY <1>4, <1>5, <1>7, <1>8, <1>9, <1>10

-----------------------------------------------------------------------------
(* DrawEmulation: draws.                                                    *)

\* What the pipeline of a draw is, and what the module knows of it.
LEMMA DrawnPipeline ==
    ASSUME KnownInv, Draws!Drawable
    PROVE  LET p == meant.pipeline IN
           /\ p \in Pipelines /\ current = p /\ pipeline[p] \in Recorded /\ pipeline[p].kind \in Kinds
           /\ ~rate /\ Draws!Divided(pipeline[p].kind) # {} =>
                  tracking /\ command.info = pipeline[p].kind.divisors
           /\ command.info # Null => command.info = pipeline[p].kind.divisors
<1>. DEFINE p == meant.pipeline
            kind == pipeline[p].kind
<1>. USE DEF KnownInv
<1>1. p \in Pipelines /\ current = p
  BY DEF Draws!Drawable, DrawType, Commanded, BoundInv
<1>2. pipeline[p] # Null
  BY <1>1, NullApart DEF BoundInv
<1>3. pipeline[p] \in Recorded
  BY <1>1, <1>2 DEF DrawType
<1>4. kind \in Kinds
  BY <1>3 DEF Recorded
<1>5. \/ command.info = divisor[p]
      \/ command.info = Null /\ Draws!Divided(kind) = {}
  BY <1>1, NullApart DEF BoundInv
<1>6. kind.divisors \in Divisors
  BY <1>4, KindType
<1>7. Draws!Rewritten(kind) = {} => divisor[p] = Null
  BY <1>1, <1>2, OneRecord, Zenon
<1>8. Draws!Rewritten(kind) # {} => divisor[p] = kind.divisors
  BY <1>1, <1>2, OneRecord, Zenon
<1>9. ~rate /\ Draws!Divided(kind) # {} => tracking
  BY <1>1, <1>2, OneRecord, Zenon
<1>10. ~rate /\ Draws!Divided(kind) # {} => Draws!Rewritten(kind) # {}
  BY <1>6 DEF Draws!Rewritten, Draws!Divided, Divisors
<1>. HIDE DEF kind
<1>11. ~rate /\ Draws!Divided(kind) # {} => tracking /\ command.info = kind.divisors
  BY <1>5, <1>8, <1>9, <1>10
<1>12. command.info # Null => command.info = kind.divisors
  BY <1>5, <1>7, <1>8
<1>. QED  BY <1>1, <1>3, <1>4, <1>11, <1>12 DEF kind

\* A draw is turned over when the viewport of its shader is negative.
LEMMA TurnsRight ==
    ASSUME KnownInv, Draws!Drawable, ~refused,
           Draws!Prepared(meant.pipeline), Draws!Decided(meant.pipeline),
           IF Draws!TurnsOver THEN drawn'.flip = TRUE ELSE drawn'.flip = FALSE,
           native'.signs = native.signs, UNCHANGED <<pipeline, meant>>
    PROVE  Draws!Upright(meant.pipeline)'
<1>. DEFINE p == meant.pipeline
            kind == pipeline[p].kind
<1>1. /\ p \in Pipelines /\ current = p /\ pipeline[p] \in Recorded /\ kind \in Kinds
  BY DrawnPipeline, Zenon
<1>2. pipeline[p] # Null
  BY <1>1, NullApart
<1>3. kind.samples \in (SUBSET Draws!Slots) \ {{}}
  BY <1>1, KindType, Zenon
<1>4. PICK u \in kind.samples : TRUE
  BY <1>3, SomeSlot, Zenon
<1>5. CASE Draws!Dynamic(kind)
  <2>1. variant[p] = "own"
    BY <1>5, Zenon DEF Draws!Prepared
  <2>2. samples[p] = kind.samples
    BY <1>1, <1>2, <2>1, OneRecord, Zenon DEF KnownInv
  <2>3. current # Null /\ variant[current] # Null
    BY <1>1, <2>1, NullApart
  <2>4. \A s \in Draws!Slots : meant.signs[s] # Undefined
    BY <1>5, Zenon DEF Draws!Drawable
  <2>5. \A s \in Draws!Slots : meant.signs[s] \in BOOLEAN
    BY <2>4 DEF KnownInv, DrawType, Commanded, Signs
  <2>6. \A s \in Draws!Slots : signs[s] = meant.signs[s] /\ native.signs[s] = FALSE
    BY <2>4 DEF KnownInv, SignsInv
  <2>7. SUFFICES ASSUME NEW s \in kind.samples
                 PROVE  Draws!TurnsOver <=> meant.signs[s] = TRUE
    <3>1. \A s \in kind.samples : meant.signs[s] \in BOOLEAN /\ native'.signs[s] = FALSE
      BY <1>3, <2>5, <2>6
    <3>2. pipeline' = pipeline /\ meant' = meant
      OBVIOUS
    <3>3. \A s \in kind.samples : (drawn'.flip # native'.signs[s]) = meant.signs[s]
      <4>1. SUFFICES ASSUME NEW s \in kind.samples
                     PROVE  (drawn'.flip # native'.signs[s]) = meant.signs[s]
        OBVIOUS
      <4>2. native'.signs[s] = FALSE /\ meant.signs[s] \in BOOLEAN
        BY <3>1
      <4>3. CASE Draws!TurnsOver
        <5>1. drawn'.flip = TRUE /\ meant.signs[s] = TRUE
          BY <2>7, <4>3, Zenon
        <5>. QED  BY <4>2, <5>1
      <4>4. CASE ~Draws!TurnsOver
        <5>1. drawn'.flip = FALSE
          BY <4>4
        <5>2. meant.signs[s] # TRUE
          BY <2>7, <4>4, Zenon
        <5>. QED  BY <4>2, <5>1, <5>2
      <4>. QED  BY <4>3, <4>4
    <3>. QED  BY <1>5, <3>2, <3>3, Zenon DEF Draws!Upright, Draws!TurnedOver, Draws!Negative, Draws!Dynamic
  <2>8. s \in Draws!Slots
    BY <1>3
  <2>9. CASE kind.samples = Draws!Slots
    <3>1. ~Draws!BothSigns(meant.signs)
      BY <1>5, <2>9, Zenon DEF Draws!Decided
    <3>2. \A t \in Draws!Slots : meant.signs[t] = meant.signs[s]
      BY <2>5, <2>8, <3>1 DEF Draws!BothSigns
    <3>3. Draws!TurnsOver <=> (\E t \in Draws!Slots : signs[t] = TRUE) /\ \A t \in Draws!Slots : signs[t] # FALSE
      BY <1>1, <2>2, <2>3, <2>9, Zenon DEF Draws!TurnsOver
    <3>. QED  BY <2>5, <2>6, <2>8, <3>2, <3>3
  <2>10. CASE kind.samples # Draws!Slots
    <3>1. \A t \in kind.samples : t = s
      BY <1>3, <2>10, OneSlot
    <3>2. Draws!TurnsOver <=> (\E t \in Draws!Slots : signs[t] = TRUE) /\ \A t \in kind.samples : signs[t] = TRUE
      BY <1>1, <2>2, <2>3, <2>10, Zenon DEF Draws!TurnsOver
    <3>. QED  BY <2>5, <2>6, <2>8, <3>1, <3>2
  <2>. QED  BY <2>9, <2>10
<1>6. CASE ~Draws!Dynamic(kind)
  <2>1. variant[p] = Null
    BY <1>6, Zenon DEF Draws!Prepared
  <2>2. ~Draws!TurnsOver
    BY <1>1, <2>1 DEF Draws!TurnsOver
  <2>3. AsAsked(pipeline[p], kind)
    BY <1>1, <1>2, <1>6, OneRecord, Zenon DEF KnownInv
  <2>4. kind.viewports \in [Draws!Slots -> BOOLEAN]
    BY <1>1, <1>6, StaticType, Zenon
  <2>5. pipeline[p].flip \in BOOLEAN
    BY <1>1 DEF Recorded
  <2>6. drawn'.flip = FALSE
    BY <2>2
  <2>7. \A s \in kind.samples : (FALSE # (pipeline[p].flip # pipeline[p].signs[s])) = kind.viewports[s]
    BY <1>3, <2>3, <2>4, <2>5 DEF AsAsked
  <2>8. pipeline' = pipeline /\ meant' = meant
    OBVIOUS
  <2>. QED  BY <1>6, <2>6, <2>7, <2>8, Zenon DEF Draws!Upright, Draws!TurnedOver, Draws!Negative, Draws!Dynamic
<1>. QED  BY <1>5, <1>6

\* A draw leaves the command buffer as the application has it.
LEMMA BoundAgain ==
    ASSUME KnownInv, Draws!Drawable
    PROVE  /\ [native EXCEPT !.pipeline = current] = native
           /\ command.info # Null => [native EXCEPT !.offsets = Draws!Restored] = native
<1>. USE DEF KnownInv
<1>1. native \in Commanded /\ native.pipeline = current
  BY DEF DrawType, BoundInv
<1>2. [native EXCEPT !.pipeline = current] = native
  BY <1>1 DEF Commanded
<1>3. ASSUME command.info # Null
      PROVE  Draws!Restored = native.offsets
  <2>1. command.info = pipeline[meant.pipeline].kind.divisors
    BY <1>3, DrawnPipeline, Zenon
  <2>2. \A b \in Draws!Bindings : command.info[b] > 1 /\ command.offsets[b] # Null =>
            command.offsets[b] = native.offsets[b]
    <3>1. SUFFICES ASSUME NEW b \in Draws!Bindings, command.info[b] > 1, command.offsets[b] # Null
                   PROVE  command.offsets[b] = native.offsets[b]
      OBVIOUS
    <3>2. command.info \in Divisors
      BY <1>3 DEF DrawType
    <3>3. command.info[b] # 1
      BY <3>1, <3>2 DEF Divisors
    <3>4. meant.offsets[b] # Null
      BY <2>1, <3>3, Zenon DEF Draws!Drawable
    <3>. QED  BY <3>1, <3>4 DEF BoundInv
  <2>3. native.offsets \in [Draws!Bindings -> Offsets \cup {Null}]
    BY <1>1 DEF Commanded, Buffers
  <2>. QED  BY <2>2, <2>3 DEF Draws!Restored
<1>4. command.info # Null => [native EXCEPT !.offsets = Draws!Restored] = native
  BY <1>1, <1>3 DEF Commanded
<1>. QED  BY <1>2, <1>4

LEMMA DrawKeeps ==
    ASSUME KnownInv, current # Null, Draws!made' = Draws!made,
           UNCHANGED <<rate, multi, lookup, current, signs, command, native, meant, refused>>
    PROVE  KnownInv'
<1>. USE DEF KnownInv
<1>0. UNCHANGED <<pipeline, variant, samples, divisor, tracking>>
  BY DEF Draws!made
<1>1. DrawType'
  BY <1>0 DEF DrawType
<1>2. PipelinesInv'
  BY <1>0, Zenon DEF PipelinesInv, Draws!Dynamic, Draws!Rewritten, Draws!Divided, Draws!Bindings
<1>3. RemembersInv'
  BY <1>0 DEF RemembersInv, Draws!NoCommand, Draws!NoBuffers
<1>4. BoundInv'
  BY <1>0 DEF BoundInv, Draws!Divided
<1>5. SignsInv'
  BY DEF SignsInv
<1>. QED  BY <1>1, <1>2, <1>3, <1>4, <1>5

\* A draw is sound when its calls are.
LEMMA SoundDraw ==
    ASSUME KnownInv, Draws!Drawable, Draws!made' = Draws!made,
           UNCHANGED <<rate, multi, lookup, current, signs, command, native, meant, refused>>,
           IF Draws!TurnsOver THEN drawn'.flip = TRUE ELSE drawn'.flip = FALSE,
           Draws!Covers(drawn'.calls, drawn'.first, drawn'.count),
           drawn'.command = "indirect" /\ ~multi /\ ~drawn'.flip =>
               \A k \in DOMAIN drawn'.calls : drawn'.calls[k].count = 1,
           drawn'.command = "draw" /\ ~rate /\ ~drawn'.flip =>
               \A b \in Draws!Divided(pipeline[meant.pipeline].kind) : command.offsets[b] # Null =>
                  \A k \in DOMAIN drawn'.calls :
                     Draws!ReadsOwn(drawn'.calls[k], b, pipeline[meant.pipeline].kind.divisors[b])
    PROVE  DrawInv'
<1>. DEFINE p == meant.pipeline
<1>1. UNCHANGED <<pipeline, variant, samples>>
  BY DEF Draws!made
<1>2. KnownInv'
  <2>1. current # Null
    BY DrawnPipeline, NullApart
  <2>. QED  BY <2>1, DrawKeeps
<1>3. Draws!Prepared(p)' <=> Draws!Prepared(p)
  BY <1>1 DEF Draws!Prepared, Draws!Dynamic
<1>4. Draws!Decided(p)' <=> Draws!Decided(p)
  BY <1>1 DEF Draws!Decided, Draws!Dynamic, Draws!BothSigns
<1>5. ~refused /\ Draws!Prepared(p) /\ Draws!Decided(p) => Draws!Upright(p)'
  BY <1>1, TurnsRight
<1>6. native.pipeline = p /\ native.offsets = meant.offsets
  BY DEF KnownInv, BoundInv
<1>7. Draws!Divided(pipeline[p].kind)' = Draws!Divided(pipeline[p].kind)
  BY <1>1 DEF Draws!Divided
<1>8. \A c, b, d : Draws!ReadsOwn(c, b, d)' <=> Draws!ReadsOwn(c, b, d)
  BY DEF Draws!ReadsOwn
<1>9. \A s, i, n : Draws!Covers(s, i, n)' <=> Draws!Covers(s, i, n)
  BY DEF Draws!Covers
<1>10. Draws!Covers(drawn.calls, drawn.first, drawn.count)'
  BY DEF Draws!Covers
<1>11. Draws!DrawSound'
  BY <1>1, <1>3, <1>4, <1>5, <1>6, <1>7, <1>8, <1>10, Zenon DEF Draws!DrawSound
<1>. QED  BY <1>2, <1>11 DEF DrawInv

\* The draw that is not cut.
LEMMA WholeReads ==
    ASSUME KnownInv, Draws!Drawable, NEW first \in Nat, NEW count \in Nat
    PROVE  /\ Draws!Covers(Draws!Whole(first, count), first, count)
           /\ ~rate /\ ~Draws!Divides(count) =>
                 \A b \in Draws!Divided(pipeline[meant.pipeline].kind) :
                    \A k \in DOMAIN Draws!Whole(first, count) :
                       Draws!ReadsOwn(Draws!Whole(first, count)[k], b,
                                      pipeline[meant.pipeline].kind.divisors[b])
<1>. DEFINE calls == Draws!Whole(first, count)
            kind == pipeline[meant.pipeline].kind
            c == Draws!Call(first, count, [b \in Draws!Bindings |-> Draws!Plain(b)])
<1>1. calls = <<c>>
  BY DEF Draws!Whole
<1>2. c.first = first /\ c.count = count /\ c.buffers = [b \in Draws!Bindings |-> Draws!Plain(b)]
  BY DEF Draws!Call
<1>. HIDE DEF c
<1>3. Len(<<c>>) = 1 /\ <<c>>[1] = c /\ DOMAIN <<c>> = {1} /\ <<c>> # <<>>
  OBVIOUS
<1>4. Draws!Covers(calls, first, count)
  BY <1>1, <1>2, <1>3 DEF Draws!Covers
<1>5. ASSUME ~rate, ~Draws!Divides(count), NEW b \in Draws!Divided(kind)
      PROVE  Draws!ReadsOwn(c, b, kind.divisors[b])
  <2>1. tracking /\ command.info = kind.divisors
    BY <1>5, DrawnPipeline, Zenon
  <2>2. kind.divisors \in Divisors
    BY DrawnPipeline, KindType
  <2>3. Draws!Divided([divisors |-> command.info]) # {}
    BY <1>5, <2>1 DEF Draws!Divided
  <2>4. count = 0
    BY <1>5, <2>1, <2>2, <2>3, NullApart DEF Draws!Divides
  <2>5. b \in Draws!Bindings
    BY <1>5 DEF Draws!Divided
  <2>6. c.buffers[b].offset = meant.offsets[b]
    BY <1>2, <2>5 DEF Draws!Plain, KnownInv, BoundInv
  <2>7. c.first .. c.first + c.count - 1 = {}
    BY <1>2, <2>4
  <2>. QED  BY <2>6, <2>7 DEF Draws!ReadsOwn
<1>6. ASSUME ~rate, ~Draws!Divides(count)
      PROVE  \A b \in Draws!Divided(kind) : \A k \in DOMAIN calls :
                Draws!ReadsOwn(calls[k], b, kind.divisors[b])
  <2>1. \A k \in DOMAIN calls : calls[k] = c
    BY <1>1, <1>3
  <2>. HIDE DEF calls
  <2>. QED  BY <1>5, <1>6, <2>1
<1>. QED  BY <1>4, <1>6

LEMMA CutReads ==
    ASSUME KnownInv, Draws!Drawable, NEW first \in Nat, NEW count \in Nat, Draws!Divides(count)
    PROVE  LET calls == Draws!Chunks(first, count)
           IN  /\ Draws!Covers(calls, first, count)
               /\ \A b \in Draws!Divided(pipeline[meant.pipeline].kind) : command.offsets[b] # Null =>
                     \A k \in DOMAIN calls :
                        Draws!ReadsOwn(calls[k], b, pipeline[meant.pipeline].kind.divisors[b])
<1>. DEFINE calls == Draws!Chunks(first, count)
            kind == pipeline[meant.pipeline].kind
<1>1. command.info # Null
  BY DEF Draws!Divides
<1>2. command.info \in Divisors /\ BuffersType
  BY <1>1 DEF KnownInv, DrawType, BuffersType, Commanded, Buffers
<1>3. Cut(calls, first, count)
  BY <1>2, ChunksCut, Zenon
<1>4. command.info = kind.divisors
  BY <1>1, DrawnPipeline, Zenon
<1>5. ASSUME NEW b \in Draws!Divided(kind), command.offsets[b] # Null, NEW k \in DOMAIN calls
      PROVE  Draws!ReadsOwn(calls[k], b, kind.divisors[b])
  <2>1. calls \in Seq(Calls)
    BY <1>3 DEF Cut
  <2>2. k \in 1 .. Len(calls)
    BY <1>5, <2>1
  <2>3. Whole(calls[k])
    BY <1>3, <2>2 DEF Cut
  <2>4. b \in DivisorsOf(command.info) /\ b \in Draws!Bindings
    BY <1>4, <1>5 DEF DivisorsOf, Draws!Divided
  <2>5. kind.divisors[b] # 1
    BY <1>2, <1>4, <1>5 DEF Draws!Divided, Divisors
  <2>6. meant.offsets[b] # Null
    BY <2>4, <2>5, Zenon DEF Draws!Drawable
  <2>7. command.offsets[b] = meant.offsets[b]
    BY <1>5, <2>4, <2>6, Zenon DEF KnownInv, BoundInv
  <2>. QED  BY <1>4, <1>5, <2>3, <2>4, <2>7, Zenon DEF Whole, Draws!ReadsOwn
<1>6. Draws!Covers(calls, first, count)
  BY <1>3 DEF Cut
<1>. QED  BY <1>5, <1>6

LEMMA DrawsDirectly ==
    ASSUME KnownInv, NEW first \in {0, 1}, NEW count \in Instances, Draws!Draw(first, count)
    PROVE  DrawInv'
<1>1. first \in Nat /\ count \in Nat
  BY DrawsAssumption
<1>2. /\ Draws!Drawable
      /\ UNCHANGED <<rate, multi, lookup, current, signs, command, meant, refused>> /\ Draws!made' = Draws!made
  BY Zenon DEF Draws!Draw
<1>3. CASE Draws!TurnsOver
  <2>1. /\ drawn' = Draws!Drawn("draw", first, count, Draws!Whole(first, count), TRUE)
        /\ native' = [native EXCEPT !.pipeline = current]
    BY <1>3, Zenon DEF Draws!Draw
  <2>2. native' = native
    BY <1>2, <2>1, BoundAgain
  <2>3. /\ drawn'.flip = TRUE /\ drawn'.command = "draw" /\ drawn'.first = first /\ drawn'.count = count
        /\ drawn'.calls = Draws!Whole(first, count)
    BY <2>1 DEF Draws!Drawn
  <2>4. IF Draws!TurnsOver THEN drawn'.flip = TRUE ELSE drawn'.flip = FALSE
    BY <1>3, <2>3
  <2>5. Draws!Covers(drawn'.calls, drawn'.first, drawn'.count)
    BY <1>1, <1>2, <2>3, WholeReads, Zenon
  <2>. QED  BY <1>2, <2>2, <2>3, <2>4, <2>5, SoundDraw
<1>4. CASE ~Draws!TurnsOver /\ Draws!Divides(count)
  <2>1. /\ drawn' = Draws!Drawn("draw", first, count, Draws!Chunks(first, count), FALSE)
        /\ native' = [native EXCEPT !.offsets = Draws!Restored]
    BY <1>4, Zenon DEF Draws!Draw
  <2>2. native' = native
    BY <1>2, <1>4, <2>1, BoundAgain DEF Draws!Divides
  <2>3. /\ drawn'.flip = FALSE /\ drawn'.command = "draw" /\ drawn'.first = first /\ drawn'.count = count
        /\ drawn'.calls = Draws!Chunks(first, count)
    BY <2>1 DEF Draws!Drawn
  <2>4. IF Draws!TurnsOver THEN drawn'.flip = TRUE ELSE drawn'.flip = FALSE
    BY <1>4, <2>3
  <2>5. Draws!Covers(drawn'.calls, drawn'.first, drawn'.count)
    BY <1>1, <1>2, <1>4, <2>3, CutReads, Zenon
  <2>6. \A b \in Draws!Divided(pipeline[meant.pipeline].kind) : command.offsets[b] # Null =>
            \A k \in DOMAIN drawn'.calls :
               Draws!ReadsOwn(drawn'.calls[k], b, pipeline[meant.pipeline].kind.divisors[b])
    BY <1>1, <1>2, <1>4, <2>3, CutReads, Zenon
  <2>. QED  BY <1>2, <2>2, <2>3, <2>4, <2>5, <2>6, SoundDraw
<1>5. CASE ~Draws!TurnsOver /\ ~Draws!Divides(count)
  <2>1. drawn' = Draws!Drawn("draw", first, count, Draws!Whole(first, count), FALSE) /\ native' = native
    BY <1>5, Zenon DEF Draws!Draw
  <2>3. /\ drawn'.flip = FALSE /\ drawn'.command = "draw" /\ drawn'.first = first /\ drawn'.count = count
        /\ drawn'.calls = Draws!Whole(first, count)
    BY <2>1 DEF Draws!Drawn
  <2>4. IF Draws!TurnsOver THEN drawn'.flip = TRUE ELSE drawn'.flip = FALSE
    BY <1>5, <2>3
  <2>5. Draws!Covers(drawn'.calls, drawn'.first, drawn'.count)
    BY <1>1, <1>2, <2>3, WholeReads, Zenon
  <2>6. ~rate => \A b \in Draws!Divided(pipeline[meant.pipeline].kind) :
            \A k \in DOMAIN drawn'.calls :
               Draws!ReadsOwn(drawn'.calls[k], b, pipeline[meant.pipeline].kind.divisors[b])
    BY <1>1, <1>2, <1>5, <2>3, WholeReads, Zenon
  <2>. QED  BY <1>2, <2>1, <2>3, <2>4, <2>5, <2>6, SoundDraw
<1>. QED  BY <1>3, <1>4, <1>5

LEMMA SinglesCover ==
    ASSUME NEW n \in Nat, n # 0
    PROVE  /\ Draws!Covers(Draws!Single(n), 0, n)
           /\ \A k \in DOMAIN Draws!Single(n) : Draws!Single(n)[k].count = 1
<1>. DEFINE calls == Draws!Single(n)
<1>1. /\ calls \in Seq([first : Nat, count : Nat]) /\ Len(calls) = n /\ DOMAIN calls = 1 .. n
      /\ \A k \in 1 .. n : calls[k].first = k - 1 /\ calls[k].count = 1
  BY DEF Draws!Single, Draws!Nth
<1>. HIDE DEF calls
<1>2. calls # <<>>
  BY <1>1
<1>3. Draws!Covers(calls, 0, n)
  BY <1>1, <1>2 DEF Draws!Covers
<1>. QED  BY <1>1, <1>3 DEF calls

LEMMA DrawsIndirectly ==
    ASSUME KnownInv, NEW n \in Counts, Draws!DrawIndirect(n)
    PROVE  DrawInv'
<1>. DEFINE calls == IF Draws!TurnsOver THEN Draws!WholeIndirect(n)
                     ELSE IF n = 0 THEN <<>>
                     ELSE IF Draws!Singles(n) THEN Draws!Single(n) ELSE Draws!WholeIndirect(n)
<1>1. n \in Nat
  BY DrawsAssumption
<1>2. /\ Draws!Drawable /\ drawn' = Draws!Drawn("indirect", 0, n, calls, Draws!TurnsOver)
      /\ native' = IF Draws!TurnsOver THEN [native EXCEPT !.pipeline = current] ELSE native
      /\ UNCHANGED <<rate, multi, lookup, current, signs, command, meant, refused>> /\ Draws!made' = Draws!made
  BY Zenon DEF Draws!DrawIndirect
<1>3. native' = native
  BY <1>2, BoundAgain
<1>4. Draws!Covers(Draws!WholeIndirect(n), 0, n)
  <2>1. Draws!WholeIndirect(n) = <<Draws!Nth(0, n)>> /\ Draws!Nth(0, n).first = 0 /\ Draws!Nth(0, n).count = n
    BY DEF Draws!WholeIndirect, Draws!Nth
  <2>. QED  BY <1>1, <2>1 DEF Draws!Covers
<1>5. Draws!Covers(calls, 0, n)
  <2>1. n = 0 => Draws!Covers(<<>>, 0, n)
    BY DEF Draws!Covers
  <2>. QED  BY <1>1, <1>4, <2>1, SinglesCover
<1>6. ~multi /\ ~Draws!TurnsOver => \A k \in DOMAIN calls : calls[k].count = 1
  <2>1. CASE n = 0
    BY <2>1
  <2>2. CASE n # 0
    BY <1>1, <2>2, SinglesCover, Zenon DEF Draws!Singles
  <2>. QED  BY <2>1, <2>2
<1>. HIDE DEF calls
<1>7. /\ IF Draws!TurnsOver THEN drawn'.flip = TRUE ELSE drawn'.flip = FALSE
      /\ drawn'.command = "indirect" /\ drawn'.first = 0 /\ drawn'.count = n
      /\ drawn'.calls = calls
  BY <1>2 DEF Draws!Drawn
<1>8. drawn'.command # "draw"
  BY <1>7
<1>. QED  BY <1>2, <1>3, <1>5, <1>6, <1>7, <1>8, SoundDraw

\* DrawSound holds after every step of DrawEmulation.
LEMMA DrawsNext ==
    ASSUME DrawInv, [Draws!Next]_(Draws!vars)
    PROVE  DrawInv'
<1>1. CASE UNCHANGED Draws!vars
  <2>1. /\ UNCHANGED <<rate, multi, lookup, current, signs, command, native, meant, refused, drawn>>
        /\ UNCHANGED <<pipeline, variant, samples, divisor, tracking>>
    BY <1>1 DEF Draws!vars, Draws!made
  <2>2. Draws!DrawSound'
    BY <2>1, SoundKept DEF DrawInv
  <2>3. DrawType' /\ RemembersInv' /\ SignsInv'
    BY <2>1 DEF DrawInv, KnownInv, DrawType, RemembersInv, Draws!NoCommand, Draws!NoBuffers, SignsInv
  <2>4. BoundInv'
    BY <2>1 DEF DrawInv, KnownInv, BoundInv, Draws!Divided
  <2>5. PipelinesInv'
    BY <2>1, Zenon DEF DrawInv, KnownInv, PipelinesInv, Draws!Dynamic, Draws!Rewritten, Draws!Divided, Draws!Bindings
  <2>. QED  BY <2>2, <2>3, <2>4, <2>5 DEF DrawInv, KnownInv
<1>2. ASSUME NEW p \in Pipelines, NEW kind \in Kinds, NEW rewritable \in BOOLEAN,
             NEW varied \in IF Draws!Dynamic(kind) /\ rewritable THEN BOOLEAN ELSE {FALSE},
             Draws!CreatePipeline(p, kind, rewritable, varied)
      PROVE  DrawInv'
  <2>1. varied \in BOOLEAN
    OBVIOUS
  <2>. QED  BY <1>2, <2>1, CreatesPipeline
<1>3. ASSUME NEW p \in Pipelines, Draws!DestroyPipeline(p)
      PROVE  DrawInv'
  BY <1>3, DestroysPipeline
<1>4. ASSUME NEW p \in Pipelines, Draws!BindPipeline(p)
      PROVE  DrawInv'
  BY <1>4, BindsPipeline DEF DrawInv
<1>5. ASSUME NEW explicit \in BOOLEAN, Draws!Begin(explicit)
      PROVE  DrawInv'
  BY <1>5, DrawBegins DEF DrawInv
<1>6. ASSUME NEW S \in (SUBSET Draws!Slots) \ {{}}, NEW new \in [S -> BOOLEAN], Draws!SetViewport(new)
      PROVE  DrawInv'
  <2>1. S \in SUBSET Draws!Slots
    OBVIOUS
  <2>. QED  BY <1>6, <2>1, SetsViewport DEF DrawInv
<1>7. ASSUME NEW b \in Draws!Bindings, NEW offset \in Offsets, Draws!BindVertexBuffer(b, offset)
      PROVE  DrawInv'
  BY <1>7, BindsVertexBuffer DEF DrawInv
<1>8. ASSUME NEW first \in {0, 1}, NEW count \in Instances, Draws!Draw(first, count)
      PROVE  DrawInv'
  BY <1>8, DrawsDirectly DEF DrawInv
<1>9. ASSUME NEW n \in Counts, Draws!DrawIndirect(n)
      PROVE  DrawInv'
  BY <1>9, DrawsIndirectly DEF DrawInv
<1>10. CASE \E p \in Pipelines :
               \/ \E kind \in Kinds, rewritable \in BOOLEAN :
                  \E varied \in IF Draws!Dynamic(kind) /\ rewritable THEN BOOLEAN ELSE {FALSE} :
                     Draws!CreatePipeline(p, kind, rewritable, varied)
               \/ Draws!DestroyPipeline(p)
               \/ Draws!BindPipeline(p)
  BY <1>2, <1>3, <1>4, <1>10, Zenon
<1>11. CASE \E S \in (SUBSET Draws!Slots) \ {{}} : \E new \in [S -> BOOLEAN] : Draws!SetViewport(new)
  BY <1>6, <1>11, Zenon
<1>. QED  BY <1>1, <1>5, <1>7, <1>8, <1>9, <1>10, <1>11, Zenon DEF Draws!Next

\* Every draw shows what the application asked for, whatever it bound, set,
\* created and destroyed before, for any kinds of pipeline, any divisors and any
\* number of instances and draws: it is turned over when the viewport of its
\* shader is negative, covers its instances and draws once and in order, reads
\* its own elements, and leaves what was bound as it was.
THEOREM DrawsAreSound == Draws!Spec => DrawsSound
<1>1. Draws!Init => DrawInv
  BY KnownInit
<1>2. DrawInv /\ [Draws!Next]_(Draws!vars) => DrawInv'
  BY DrawsNext
<1>3. DrawInv => Draws!DrawSound
  BY DEF DrawInv
<1>. QED  BY <1>1, <1>2, <1>3, PTL DEF Draws!Spec, DrawsSound, Draws!DrawsSound
=============================================================================
