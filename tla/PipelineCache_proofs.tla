------------------------ MODULE PipelineCache_proofs ------------------------
(***************************************************************************)
(* Theorems about PipelineCache, for every set of devices, states, files   *)
(* and application threads and every bound: no native cache is used out of *)
(* its life, the file keeps what it has, a clean cache is on disk, and the *)
(* flusher forgets no dirty one.                                           *)
(***************************************************************************)
EXTENDS PipelineCache, TLAPS

-----------------------------------------------------------------------------
(* Types.  A thread that is at work has a state in hand.                    *)

Resting == {"idle", "collect", "flushing", "exited"}
GoodThread == {r \in ThreadState : r.pc \notin Resting => r.cache \in Caches}
TypeInv == TypeOK /\ thread \in [Threads -> GoodThread]

LEMMA IdleType == Idle \in GoodThread /\ Idle.pc = "idle"
BY DeviceAssumption DEF Idle, GoodThread, Resting, ThreadState, Pcs

\* A step that writes one thread.
LEMMA UpdateType ==
    ASSUME TypeInv, NEW t \in Threads, NEW r \in GoodThread, thread' = [thread EXCEPT ![t] = r]
    PROVE  thread' \in [Threads -> GoodThread] /\ thread' \in [Threads -> ThreadState]
BY DEF TypeInv, GoodThread

LEMMA BecomeType ==
    ASSUME TypeInv, NEW t \in Threads, NEW pc \in Pcs, Become(t, pc),
           pc \in Resting \/ thread[t].pc \notin Resting
    PROVE  thread' \in [Threads -> GoodThread]
<1>. DEFINE r == [thread[t] EXCEPT !.pc = pc]
<1>1. r \in GoodThread
  BY DEF TypeInv, GoodThread, ThreadState
<1>2. thread' = [thread EXCEPT ![t] = r]
  BY DEF Become
<1>. QED  BY <1>1, <1>2, UpdateType

LEMMA ReturnType ==
    ASSUME TypeInv, NEW t \in Threads, Return(t), thread[t].pc \notin Resting
    PROVE  thread' \in [Threads -> GoodThread] /\ todo' \subseteq Devices
<1>1. CASE t = Flusher
  <2>. DEFINE r == [Idle EXCEPT !.pc = "flushing", !.force = thread[t].force]
  <2>1. r \in GoodThread
    BY IdleType DEF TypeInv, GoodThread, Resting, ThreadState, Pcs
  <2>2. thread' = [thread EXCEPT ![t] = r]
    BY <1>1 DEF Return
  <2>. QED  BY <1>1, <2>1, <2>2, UpdateType DEF Return, TypeInv, TypeOK
<1>2. CASE t # Flusher
  <2>1. "erase" \in Pcs
    BY DEF Pcs
  <2>. QED  BY <1>2, <2>1, BecomeType DEF Return, TypeInv, TypeOK
<1>. QED  BY <1>1, <1>2

LEMMA MarkType ==
    ASSUME TypeInv, NEW c, NEW added \in SUBSET Pipelines, MarkDirty(c, added)
    PROVE  /\ revision' \in [Caches -> Nat]
           /\ dirty' \subseteq Caches
           /\ pending' \in BOOLEAN
           /\ marked' \in [Caches -> SUBSET Pipelines]
           /\ unsaved' \subseteq Caches
<1>1. CASE c \in alive
  BY <1>1 DEF MarkDirty, TypeInv, TypeOK
<1>2. CASE c \notin alive
  BY <1>2 DEF MarkDirty, TypeInv, TypeOK, flags
<1>. QED  BY <1>1, <1>2

LEMMA InitType == Init => TypeInv
<1>. SUFFICES ASSUME Init PROVE TypeInv
  OBVIOUS
<1>1. thread \in [Threads -> GoodThread] /\ thread \in [Threads -> ThreadState]
  BY IdleType DEF Init, GoodThread
<1>2. file \in [Paths -> [by : Caches \cup {NoCache}, content : SUBSET Pipelines]]
  BY DEF Init
<1>. QED  BY <1>1, <1>2 DEF Init, TypeOK, TypeInv

\* The thread of a step that works has a state.
LEMMA CacheType ==
    ASSUME TypeInv, NEW t \in Threads, thread[t].pc \notin Resting
    PROVE  thread[t].cache \in Caches
BY DEF TypeInv, GoodThread

LEMMA StepType == TypeInv /\ [Next]_vars => TypeInv'
<1>. SUFFICES ASSUME TypeInv, [Next]_vars PROVE TypeInv'
  OBVIOUS
<1>0. ASSUME thread' \in [Threads -> GoodThread] PROVE thread' \in [Threads -> ThreadState]
  BY <1>0 DEF GoodThread
<1>1. ASSUME NEW t \in Apps, NEW d \in Devices, NEW c \in Caches, CreateLoad(t, d, c) PROVE TypeInv'
  <2>1. thread' \in [Threads -> GoodThread]
    <3>1. PICK content \in {file[PathOf[c]].content, {}} : thread' = [thread EXCEPT ![t] =
                [Idle EXCEPT !.pc = "loaded", !.device = d, !.cache = c, !.content = content]]
      BY <1>1 DEF CreateLoad
    <3>2. content \in SUBSET Pipelines
      BY PathAssumption DEF TypeInv, TypeOK
    <3>. DEFINE r == [Idle EXCEPT !.pc = "loaded", !.device = d, !.cache = c, !.content = content]
    <3>3. r \in GoodThread
      BY <3>2, IdleType DEF GoodThread, ThreadState, Pcs, Resting
    <3>. QED  BY <3>1, <3>3, UpdateType DEF Threads
  <2>. QED  BY <1>0, <1>1, <2>1 DEF CreateLoad, TypeInv, TypeOK, flags, disk, Threads
<1>2. ASSUME NEW t \in Apps, CreatePublish(t) PROVE TypeInv'
  <2>1. thread' \in [Threads -> GoodThread]
    BY <1>2, IdleType, UpdateType DEF CreatePublish, Rest, Threads
  <2>2. thread[t].cache \in Caches
    BY <1>2, CacheType DEF CreatePublish, Resting, Threads
  <2>3. thread[t].device \in Devices /\ thread[t].content \subseteq Pipelines
    BY DEF TypeInv, TypeOK, ThreadState, Threads
  <2>. QED  BY <1>0, <1>2, <2>1, <2>2, <2>3 DEF CreatePublish, TypeInv, TypeOK, flags, disk, Threads
<1>3. ASSUME NEW t \in Apps, CreateFail(t) PROVE TypeInv'
  <2>1. thread' \in [Threads -> GoodThread]
    BY <1>3, IdleType, UpdateType DEF CreateFail, Rest, Threads
  <2>2. thread[t].cache \in Caches
    BY <1>3, CacheType DEF CreateFail, Resting, Threads
  <2>. QED  BY <1>0, <1>3, <2>1, <2>2 DEF CreateFail, TypeInv, TypeOK, flags, disk, Threads
<1>4. ASSUME NEW t \in Apps, NEW d \in Devices, DestroyBegin(t, d) PROVE TypeInv'
  <2>1. thread' \in [Threads -> GoodThread]
    <3>. DEFINE r == [Idle EXCEPT !.pc = "sync", !.device = d,
                                  !.cache = table[d], !.force = TRUE]
    <3>1. r \in GoodThread
      BY <1>4, IdleType DEF DestroyBegin, TypeInv, TypeOK, GoodThread, ThreadState, Pcs, Resting, Threads
    <3>2. thread' = [thread EXCEPT ![t] = r]
      BY <1>4 DEF DestroyBegin
    <3>. QED  BY <3>1, <3>2, UpdateType DEF Threads
  <2>. QED  BY <1>0, <1>4, <2>1 DEF DestroyBegin, TypeInv, TypeOK, flags, disk, Threads
<1>5. ASSUME NEW t \in Apps, DestroyErase(t) PROVE TypeInv'
  <2>1. thread' \in [Threads -> GoodThread]
    BY <1>5, BecomeType DEF DestroyErase, Threads, Pcs, Resting
  <2>. QED  BY <1>0, <1>5, <2>1 DEF DestroyErase, TypeInv, TypeOK, flags, disk, Threads
<1>6. ASSUME NEW t \in Apps, DestroyRetire(t) PROVE TypeInv'
  <2>1. thread' \in [Threads -> GoodThread]
    BY <1>6, IdleType, UpdateType DEF DestroyRetire, Rest, Threads
  <2>2. thread[t].cache \in Caches
    BY <1>6, CacheType DEF DestroyRetire, Resting, Threads
  <2>. QED  BY <1>0, <1>6, <2>1, <2>2 DEF DestroyRetire, TypeInv, TypeOK, flags, disk, Threads
<1>7. ASSUME NEW t \in Apps, NEW d \in Devices, CompileBegin(t, d) PROVE TypeInv'
  <2>1. thread' \in [Threads -> GoodThread]
    <3>. DEFINE r == [Idle EXCEPT !.pc = "compiling", !.device = d, !.cache = table[d]]
    <3>1. r \in GoodThread
      BY <1>7, IdleType DEF CompileBegin, MayBegin, TypeInv, TypeOK, GoodThread, ThreadState, Pcs, Resting, Threads
    <3>2. thread' = [thread EXCEPT ![t] = r]
      BY <1>7 DEF CompileBegin, Start
    <3>. QED  BY <3>1, <3>2, UpdateType DEF Threads
  <2>. QED  BY <1>0, <1>7, <2>1 DEF CompileBegin, TypeInv, TypeOK, flags, disk, Threads
<1>8. ASSUME NEW t \in Apps, NEW added \in SUBSET Pipelines, NEW success \in BOOLEAN, CompileEnd(t, added, success) PROVE TypeInv'
  <2>1. thread' \in [Threads -> GoodThread]
    BY <1>8, IdleType, UpdateType DEF CompileEnd, Rest, Threads
  <2>2. thread[t].cache \in Caches
    BY <1>8, CacheType DEF CompileEnd, Resting, Threads
  <2>3. /\ revision' \in [Caches -> Nat] /\ dirty' \subseteq Caches /\ pending' \in BOOLEAN
        /\ marked' \in [Caches -> SUBSET Pipelines] /\ unsaved' \subseteq Caches
    BY <1>8, MarkType DEF CompileEnd, Announce, TypeInv, TypeOK, flags
  <2>. QED  BY <1>0, <1>8, <2>1, <2>2, <2>3 DEF CompileEnd, TypeInv, TypeOK, flags, disk, Threads
<1>9. ASSUME NEW t \in Apps, NEW d \in Devices, MergeBegin(t, d) PROVE TypeInv'
  <2>1. thread' \in [Threads -> GoodThread]
    <3>. DEFINE r == [Idle EXCEPT !.pc = "merging", !.device = d, !.cache = table[d]]
    <3>1. r \in GoodThread
      BY <1>9, IdleType DEF MergeBegin, MayBegin, TypeInv, TypeOK, GoodThread, ThreadState, Pcs, Resting, Threads
    <3>2. thread' = [thread EXCEPT ![t] = r]
      BY <1>9 DEF MergeBegin, Start
    <3>. QED  BY <3>1, <3>2, UpdateType DEF Threads
  <2>. QED  BY <1>0, <1>9, <2>1 DEF MergeBegin, TypeInv, TypeOK, flags, disk, Threads
<1>10. ASSUME NEW t \in Apps, NEW added \in SUBSET Pipelines, MergeEnd(t, added) PROVE TypeInv'
  <2>1. thread' \in [Threads -> GoodThread]
    <3>. DEFINE r == [thread[t] EXCEPT !.pc = "marking", !.content = added]
    <3>1. r \in GoodThread
      BY <1>10, IdleType DEF MergeEnd, TypeInv, TypeOK, GoodThread, ThreadState, Pcs, Resting, Threads
    <3>2. thread' = [thread EXCEPT ![t] = r]
      BY <1>10 DEF MergeEnd
    <3>. QED  BY <3>1, <3>2, UpdateType DEF Threads
  <2>2. thread[t].cache \in Caches
    BY <1>10, CacheType DEF MergeEnd, Resting, Threads
  <2>. QED  BY <1>0, <1>10, <2>1, <2>2 DEF MergeEnd, TypeInv, TypeOK, flags, disk, Threads
<1>11. ASSUME NEW t \in Apps, MergeMark(t) PROVE TypeInv'
  <2>1. thread' \in [Threads -> GoodThread]
    BY <1>11, IdleType, UpdateType DEF MergeMark, Rest, Threads
  <2>3. /\ revision' \in [Caches -> Nat] /\ dirty' \subseteq Caches /\ pending' \in BOOLEAN
        /\ marked' \in [Caches -> SUBSET Pipelines] /\ unsaved' \subseteq Caches
    BY <1>11, MarkType DEF MergeMark, Announce, TypeInv, TypeOK, ThreadState, Threads
  <2>. QED  BY <1>0, <1>11, <2>1, <2>3 DEF MergeMark, TypeInv, TypeOK, flags, disk, Threads
<1>12. ASSUME NEW t \in Apps, NEW d \in Devices, ReadBegin(t, d) PROVE TypeInv'
  <2>1. thread' \in [Threads -> GoodThread]
    <3>. DEFINE r == [Idle EXCEPT !.pc = "reading", !.device = d, !.cache = table[d]]
    <3>1. r \in GoodThread
      BY <1>12, IdleType DEF ReadBegin, MayBegin, TypeInv, TypeOK, GoodThread, ThreadState, Pcs, Resting, Threads
    <3>2. thread' = [thread EXCEPT ![t] = r]
      BY <1>12 DEF ReadBegin, Start
    <3>. QED  BY <3>1, <3>2, UpdateType DEF Threads
  <2>. QED  BY <1>0, <1>12, <2>1 DEF ReadBegin, TypeInv, TypeOK, flags, disk, Threads
<1>13. ASSUME NEW t \in Apps, ReadEnd(t) PROVE TypeInv'
  <2>1. thread' \in [Threads -> GoodThread]
    BY <1>13, IdleType, UpdateType DEF ReadEnd, Rest, Threads
  <2>. QED  BY <1>0, <1>13, <2>1 DEF ReadEnd, TypeInv, TypeOK, flags, disk, Threads
<1>14. ASSUME NEW t \in Threads, SyncLock(t) PROVE TypeInv'
  <2>1. thread' \in [Threads -> GoodThread]
    <3>1. CASE thread[t].cache \in alive /\ (thread[t].force \/ thread[t].cache \in dirty)
      <4>. DEFINE r == [thread[t] EXCEPT !.pc = "snapshot", !.rev = revision[thread[t].cache]]
      <4>1. r \in GoodThread
        BY <3>1 DEF TypeInv, TypeOK, GoodThread, ThreadState, Pcs
      <4>2. thread' = [thread EXCEPT ![t] = r]
        BY <1>14, <3>1 DEF SyncLock
      <4>. QED  BY <4>1, <4>2, UpdateType
    <3>2. CASE ~(thread[t].cache \in alive /\ (thread[t].force \/ thread[t].cache \in dirty))
      BY <1>14, <3>2, ReturnType DEF SyncLock, Resting
    <3>. QED  BY <3>1, <3>2
  <2>3. todo' \subseteq Devices
    BY <1>14, ReturnType DEF SyncLock, Resting, TypeInv, TypeOK
  <2>. QED  BY <1>0, <1>14, <2>1, <2>3 DEF SyncLock, TypeInv, TypeOK, flags, disk, Threads
<1>26. ASSUME NEW t \in Threads, SyncPersist(t) PROVE TypeInv'
  <2>1. thread' \in [Threads -> GoodThread]
    BY <1>26, BecomeType DEF SyncPersist, Threads, Pcs, Resting
  <2>. QED  BY <1>0, <1>26, <2>1 DEF SyncPersist, TypeInv, TypeOK, flags, disk, Threads
<1>15. ASSUME NEW t \in Threads, SyncSnapshot(t) PROVE TypeInv'
  <2>1. thread' \in [Threads -> GoodThread]
    <3>. DEFINE r == [thread[t] EXCEPT !.pc = "writing", !.content = data[thread[t].cache]]
    <3>1. r \in GoodThread
      BY <1>15, IdleType DEF SyncSnapshot, TypeInv, TypeOK, GoodThread, ThreadState, Pcs, Resting, Threads
    <3>2. thread' = [thread EXCEPT ![t] = r]
      BY <1>15 DEF SyncSnapshot
    <3>. QED  BY <3>1, <3>2, UpdateType DEF Threads
  <2>. QED  BY <1>0, <1>15, <2>1 DEF SyncSnapshot, TypeInv, TypeOK, flags, disk, Threads
<1>16. ASSUME NEW t \in Threads, SyncFail(t) PROVE TypeInv'
  <2>1. thread' \in [Threads -> GoodThread]
    BY <1>16, ReturnType DEF SyncFail, Resting
  <2>2. thread[t].cache \in Caches
    BY <1>16, CacheType DEF SyncFail, Resting, Threads
  <2>3. todo' \subseteq Devices
    BY <1>16, ReturnType DEF SyncFail, Resting, TypeInv, TypeOK
  <2>. QED  BY <1>0, <1>16, <2>1, <2>2, <2>3 DEF SyncFail, TypeInv, TypeOK, flags, disk, Threads
<1>17. ASSUME NEW t \in Threads, SyncWrite(t) PROVE TypeInv'
  <2>1. thread' \in [Threads -> GoodThread]
    BY <1>17, BecomeType DEF SyncWrite, Threads, Pcs, Resting
  <2>2. thread[t].cache \in Caches
    BY <1>17, CacheType DEF SyncWrite, Resting, Threads
  <2>3. thread[t].content \subseteq Pipelines
    BY DEF TypeInv, TypeOK, ThreadState
  <2>. QED  BY <1>0, <1>17, <2>1, <2>2, <2>3, PathAssumption DEF SyncWrite, TypeInv, TypeOK, flags, disk, Threads
<1>18. ASSUME NEW t \in Threads, SyncFinish(t) PROVE TypeInv'
  <2>1. thread' \in [Threads -> GoodThread]
    BY <1>18, ReturnType DEF SyncFinish, Resting
  <2>2. thread[t].cache \in Caches
    BY <1>18, CacheType DEF SyncFinish, Resting, Threads
  <2>3. todo' \subseteq Devices
    BY <1>18, ReturnType DEF SyncFinish, Resting, TypeInv, TypeOK
  <2>. QED  BY <1>0, <1>18, <2>1, <2>2, <2>3 DEF SyncFinish, TypeInv, TypeOK, flags, disk, Threads
<1>19. ASSUME FlusherTake PROVE TypeInv'
  <2>1. thread' \in [Threads -> GoodThread]
    BY <1>19, BecomeType DEF FlusherTake, Threads, Pcs, Resting
  <2>. QED  BY <1>0, <1>19, <2>1 DEF FlusherTake, TypeInv, TypeOK, flags, disk, Threads
<1>20. ASSUME FlusherCollect PROVE TypeInv'
  <2>1. thread' \in [Threads -> GoodThread]
    BY <1>20, BecomeType DEF FlusherCollect, Threads, Pcs, Resting
  <2>. QED  BY <1>0, <1>20, <2>1 DEF FlusherCollect, TypeInv, TypeOK, flags, disk, DirtyDevices
<1>21. ASSUME NEW d \in Devices, FlusherSync(d) PROVE TypeInv'
  <2>1. thread' \in [Threads -> GoodThread]
    <3>1. CASE table[d] = NoCache
      BY <1>21, <3>1 DEF FlusherSync, TypeInv
    <3>2. CASE table[d] # NoCache
      <4>. DEFINE r == [thread[Flusher] EXCEPT !.pc = "sync", !.device = d, !.cache = table[d]]
      <4>1. r \in GoodThread
        BY <3>2 DEF TypeInv, TypeOK, GoodThread, ThreadState, Pcs, Threads
      <4>2. thread' = [thread EXCEPT ![Flusher] = r]
        BY <1>21, <3>2 DEF FlusherSync
      <4>. QED  BY <4>1, <4>2, UpdateType DEF Threads
    <3>. QED  BY <3>1, <3>2
  <2>. QED  BY <1>0, <1>21, <2>1 DEF FlusherSync, TypeInv, TypeOK, flags, disk, Threads
<1>22. ASSUME FlusherDone PROVE TypeInv'
  <2>1. thread' \in [Threads -> GoodThread]
    BY <1>22, BecomeType DEF FlusherDone, Threads, Pcs, Resting
  <2>. QED  BY <1>0, <1>22, <2>1 DEF FlusherDone, TypeInv, TypeOK, flags, disk, Threads
<1>23. ASSUME FlusherLast PROVE TypeInv'
  <2>1. thread' \in [Threads -> GoodThread]
    <3>. DEFINE r == [thread[Flusher] EXCEPT !.pc = "flushing", !.force = TRUE]
    <3>1. r \in GoodThread
      BY <1>23, IdleType DEF FlusherLast, TypeInv, TypeOK, GoodThread, ThreadState, Pcs, Resting, Threads
    <3>2. thread' = [thread EXCEPT ![Flusher] = r]
      BY <1>23 DEF FlusherLast
    <3>. QED  BY <3>1, <3>2, UpdateType DEF Threads
  <2>. QED  BY <1>0, <1>23, <2>1 DEF FlusherLast, TypeInv, TypeOK, flags, disk, DirtyDevices
<1>24. ASSUME Stop PROVE TypeInv'
  <2>1. thread' \in [Threads -> GoodThread]
    BY <1>24 DEF Stop, TypeInv
  <2>. QED  BY <1>0, <1>24, <2>1 DEF Stop, TypeInv, TypeOK, flags, disk, Threads
<1>25. CASE UNCHANGED vars
  BY <1>25 DEF TypeInv, TypeOK, vars, flags, disk
<1>. QED  BY <1>1, <1>2, <1>3, <1>4, <1>5, <1>6, <1>7, <1>8, <1>9, <1>10, <1>11, <1>12, <1>13, <1>14, <1>15, <1>16, <1>17, <1>18, <1>19, <1>20, <1>21, <1>22, <1>23, <1>24, <1>25, <1>26 DEF Next, AppNext, SyncNext, FlusherNext

\* Every variable keeps its type.
THEOREM TypeCorrect == Spec => []TypeOK
<1>1. TypeInv => TypeOK
  BY DEF TypeInv
<1>. QED  BY <1>1, InitType, StepType, PTL DEF Spec

-----------------------------------------------------------------------------
(* Locks and lifetimes.  Whoever is inside the driver has the lock, and the *)
(* cache is alive: a device has one state, a destroying thread has the      *)
(* device to itself, and the native cache goes when no lock is held on it.  *)

ExclusivePcs == {"merging", "reading", "snapshot"}
DestroyPcs == {"sync", "locking", "snapshot", "writing", "saved", "erase"}
OwnerPcs == DestroyPcs \cup {"loaded", "retire"}

LockSafe ==
    \A t \in Threads : thread[t].pc \in ExclusivePcs =>
       \A u \in Threads \ {t} :
          thread[u].pc \in ExclusivePcs \cup {"compiling"} => thread[u].cache # thread[t].cache

LiveUse ==
    \A t \in Threads : thread[t].pc \in ExclusivePcs \cup {"compiling"} => stage[thread[t].cache] = "live"

AliveLive == \A c \in alive : stage[c] = "live"

TableLive ==
    /\ \A d \in Devices : table[d] # NoCache => stage[table[d]] = "live"
    /\ \A d, e \in Devices : table[d] = table[e] /\ table[d] # NoCache => d = e

Loading ==
    \A t \in Apps : thread[t].pc = "loaded" =>
       /\ stage[thread[t].cache] = "loading"
       /\ table[thread[t].device] = NoCache
       /\ \A u \in Apps \ {t} : thread[u].pc = "loaded" => thread[u].cache # thread[t].cache

Destroying ==
    \A t \in Apps : thread[t].pc \in DestroyPcs => table[thread[t].device] = thread[t].cache

Retiring ==
    \A t \in Apps : thread[t].pc = "retire" =>
       /\ stage[thread[t].cache] = "live"
       /\ \A d \in Devices : table[d] # thread[t].cache
       /\ \A u \in Apps \ {t} : thread[u].pc = "retire" => thread[u].cache # thread[t].cache

Alone(t, d) == \A u \in Apps \ {t} : thread[u].pc # "idle" => thread[u].device # d

Owned == \A t \in Apps : thread[t].pc \in OwnerPcs => Alone(t, thread[t].device)

LifeInv ==
    /\ TypeInv
    /\ LockSafe
    /\ LiveUse
    /\ AliveLive
    /\ TableLive
    /\ Loading
    /\ Destroying
    /\ Retiring
    /\ Owned

\* A step of one thread that creates, publishes and destroys nothing.  What it
\* takes must be free, and a device it takes for itself unused by others.
LEMMA Move ==
    ASSUME LifeInv, TypeInv', NEW t \in Threads, UNCHANGED <<table, stage, alive>>,
           \A u \in Threads \ {t} : thread'[u] = thread[u],
           thread'[t].pc \in ExclusivePcs \cup {"compiling"} => stage[thread'[t].cache] = "live",
           thread'[t].pc \in ExclusivePcs =>
              UseFree(thread'[t].cache)
              \/ (thread[t].pc \in ExclusivePcs /\ thread'[t].cache = thread[t].cache),
           thread'[t].pc = "compiling" => NoExclusive(thread'[t].cache),
           t \in Apps => thread'[t].pc \notin {"loaded", "retire"},
           t \in Apps /\ thread'[t].pc \in DestroyPcs =>
              table[thread'[t].device] = thread'[t].cache /\ Alone(t, thread'[t].device),
           t \in Apps /\ thread'[t].pc # "idle" =>
              \A u \in Apps \ {t} : thread[u].pc \in OwnerPcs => thread[u].device # thread'[t].device
    PROVE  LifeInv'
<1>1. LockSafe'
  <2>1. ASSUME UseFree(thread'[t].cache), NEW u \in Threads
        PROVE  thread[u].pc \in ExclusivePcs \cup {"compiling"} => thread[u].cache # thread'[t].cache
    BY <2>1 DEF UseFree, NoExclusive, Exclusive, Compiling, Doing, ExclusivePcs
  <2>2. ASSUME NoExclusive(thread'[t].cache), NEW u \in Threads
        PROVE  thread[u].pc \in ExclusivePcs => thread[u].cache # thread'[t].cache
    BY <2>2 DEF NoExclusive, Exclusive, Doing, ExclusivePcs
  <2>3. ASSUME NEW u \in Threads \ {t}, thread'[t].pc \in ExclusivePcs,
               thread[u].pc \in ExclusivePcs \cup {"compiling"}
        PROVE  thread[u].cache # thread'[t].cache
    BY <2>1, <2>3 DEF LifeInv, LockSafe
  <2>4. ASSUME NEW u \in Threads \ {t}, thread[u].pc \in ExclusivePcs,
               thread'[t].pc \in ExclusivePcs \cup {"compiling"}
        PROVE  thread[u].cache # thread'[t].cache
    BY <2>2, <2>3, <2>4 DEF ExclusivePcs
  <2>. QED  BY <2>3, <2>4 DEF LifeInv, LockSafe
<1>2. LiveUse'
  BY DEF LifeInv, LiveUse
<1>3. AliveLive' /\ TableLive'
  BY DEF LifeInv, AliveLive, TableLive
<1>4. Loading /\ Retiring /\ Destroying /\ Owned
  BY DEF LifeInv
<1>5. \A u \in Apps : u # t => thread'[u] = thread[u]
  BY DEF Threads
<1>6. Loading'
  BY <1>4, <1>5 DEF Loading
<1>7. Retiring'
  BY <1>4, <1>5 DEF Retiring
<1>8. Destroying'
  <2>. SUFFICES ASSUME NEW u \in Apps, thread'[u].pc \in DestroyPcs
                PROVE  table[thread'[u].device] = thread'[u].cache
    BY DEF Destroying
  <2>1. CASE u = t
    BY <2>1
  <2>2. CASE u # t
    BY <2>2, <1>4, <1>5 DEF Destroying
  <2>. QED  BY <2>1, <2>2
<1>9. Owned'
  <2>. SUFFICES ASSUME NEW u \in Apps, thread'[u].pc \in OwnerPcs,
                       NEW v \in Apps \ {u}, thread'[v].pc # "idle"
                PROVE  thread'[v].device # thread'[u].device
    BY DEF Owned, Alone
  <2>1. CASE u = t
    <3>1. thread'[t].pc \in DestroyPcs
      BY <2>1 DEF OwnerPcs
    <3>. QED  BY <2>1, <3>1, <1>5 DEF Alone
  <2>2. CASE u # t /\ v = t
    BY <2>2, <1>5
  <2>3. CASE u # t /\ v # t
    BY <2>3, <1>4, <1>5 DEF Owned, Alone
  <2>. QED  BY <2>1, <2>2, <2>3
<1>. QED  BY <1>1, <1>2, <1>3, <1>6, <1>7, <1>8, <1>9 DEF LifeInv

\* A step after which the thread has no lock and no device.
LEMMA Settle ==
    ASSUME LifeInv, TypeInv', NEW t \in Threads, UNCHANGED <<table, stage, alive>>,
           \A u \in Threads \ {t} : thread'[u] = thread[u],
           thread'[t].pc = "idle" \/ (t \notin Apps /\ thread'[t].pc \notin ExclusivePcs \cup {"compiling"})
    PROVE  LifeInv'
BY Move DEF ExclusivePcs, DestroyPcs

\* A thread inside the manager goes on without a lock of the cache's use.
LEMMA GoOn ==
    ASSUME LifeInv, TypeInv', NEW t \in Threads, UNCHANGED <<table, stage, alive>>,
           \A u \in Threads \ {t} : thread'[u] = thread[u],
           thread'[t].cache = thread[t].cache, thread'[t].device = thread[t].device,
           thread[t].pc \in DestroyPcs, thread'[t].pc \in DestroyPcs \ ExclusivePcs
    PROVE  LifeInv'
<1>1. t \in Apps => table[thread[t].device] = thread[t].cache /\ Alone(t, thread[t].device)
  BY DEF LifeInv, Destroying, Owned, OwnerPcs
<1>2. t \in Apps => \A u \in Apps \ {t} : thread[u].pc \in OwnerPcs => thread[u].device # thread[t].device
  BY DEF LifeInv, Owned, Alone, DestroyPcs
<1>3. thread'[t].pc \notin ExclusivePcs \cup {"compiling", "loaded", "retire"}
  BY DEF DestroyPcs, ExclusivePcs
<1>. QED  BY <1>1, <1>2, <1>3, Move

\* The thread of a save that ends.
LEMMA ReturnLife ==
    ASSUME LifeInv, TypeInv', NEW t \in Threads, UNCHANGED <<table, stage, alive>>, Return(t),
           thread[t].pc \in DestroyPcs
    PROVE  LifeInv'
<1>1. CASE t = Flusher
  <2>. DEFINE r == [Idle EXCEPT !.pc = "flushing", !.force = thread[t].force]
  <2>1. thread' = [thread EXCEPT ![t] = r]
    BY <1>1 DEF Return
  <2>2. r.pc = "flushing"
    BY DEF Idle
  <2>3. thread'[t] = r /\ \A u \in Threads \ {t} : thread'[u] = thread[u]
    BY <2>1 DEF LifeInv, TypeInv
  <2>. QED  BY <1>1, <2>2, <2>3, Settle, ThreadAssumption DEF ExclusivePcs
<1>2. CASE t # Flusher
  <2>1. thread' = [thread EXCEPT ![t].pc = "erase"]
    BY <1>2 DEF Return, Become
  <2>2. "erase" \in DestroyPcs \ ExclusivePcs
    BY DEF DestroyPcs, ExclusivePcs
  <2>. QED  BY <2>1, <2>2, GoOn DEF LifeInv, TypeInv, GoodThread, ThreadState
<1>. QED  BY <1>1, <1>2

\* A call on a device that nobody destroys or creates.
LEMMA BeginLife ==
    ASSUME LifeInv, TypeInv', NEW t \in Apps, NEW d \in Devices, NEW pc \in {"compiling", "merging", "reading"},
           UNCHANGED <<table, stage, alive>>, MayBegin(t, d), Start(t, pc, d, table[d]),
           NoExclusive(table[d]), pc # "compiling" => UseFree(table[d])
    PROVE  LifeInv'
<1>1. thread'[t].pc = pc /\ thread'[t].cache = table[d] /\ thread'[t].device = d
  BY DeviceAssumption DEF Start, Idle, LifeInv, TypeInv, Threads
<1>2. \A u \in Threads \ {t} : thread'[u] = thread[u]
  BY DEF Start, LifeInv, TypeInv
<1>3. stage[table[d]] = "live"
  BY DEF MayBegin, LifeInv, TableLive
<1>4. ASSUME NEW u \in Apps \ {t}, thread[u].pc \in OwnerPcs PROVE thread[u].device # d
  BY <1>4 DEF MayBegin, OwnerPcs, DestroyPcs, LifeInv, Loading
<1>5. pc \notin DestroyPcs \cup {"loaded", "retire"} /\ (pc \in ExclusivePcs => pc # "compiling")
  BY DEF DestroyPcs, ExclusivePcs
<1>6. t \in Threads
  BY DEF Threads
<1>. QED  BY <1>1, <1>2, <1>3, <1>4, <1>5, <1>6, Move

LEMMA InitLife == Init => LifeInv
<1>. SUFFICES ASSUME Init PROVE LifeInv
  OBVIOUS
<1>1. \A t \in Threads : thread[t].pc = "idle"
  BY IdleType DEF Init
<1>2. LockSafe /\ LiveUse /\ Loading /\ Destroying /\ Retiring /\ Owned
  BY <1>1 DEF LockSafe, LiveUse, Loading, Destroying, Retiring, Owned, ExclusivePcs, DestroyPcs, OwnerPcs, Threads
<1>3. AliveLive /\ TableLive
  BY DEF Init, AliveLive, TableLive
<1>. QED  BY <1>2, <1>3, InitType DEF LifeInv

LEMMA StepLife == LifeInv /\ TypeInv' /\ [Next]_vars => LifeInv'
<1>. SUFFICES ASSUME LifeInv, TypeInv', [Next]_vars PROVE LifeInv'
  OBVIOUS
<1>. USE DEF LifeInv
<1>1. ASSUME NEW t \in Apps, NEW d \in Devices, NEW c \in Caches, CreateLoad(t, d, c) PROVE LifeInv'
  <2>1. thread'[t].pc = "loaded" /\ thread'[t].device = d /\ thread'[t].cache = c
    BY <1>1, DeviceAssumption DEF CreateLoad, Idle, TypeInv, Threads
  <2>2. \A u \in Threads \ {t} : thread'[u] = thread[u]
    BY <1>1 DEF CreateLoad, TypeInv
  <2>3. stage[c] = "unused" /\ table[d] = NoCache /\ Alone(t, d) /\ UNCHANGED <<table, alive>>
    BY <1>1 DEF CreateLoad, DeviceUnused, Alone
  <2>4. stage'[c] = "loading" /\ \A e \in Caches \ {c} : stage'[e] = stage[e]
    BY <1>1 DEF CreateLoad, TypeInv, TypeOK
  <2>5. \A u \in Threads : thread[u].pc \notin Resting => thread[u].cache \in Caches
    BY CacheType
  <2>6. LockSafe'
    BY <2>1, <2>2 DEF LockSafe, ExclusivePcs
  <2>7. LiveUse'
    BY <2>1, <2>2, <2>3, <2>4, <2>5 DEF LiveUse, ExclusivePcs, Resting
  <2>8. AliveLive' /\ TableLive'
    BY <2>3, <2>4 DEF AliveLive, TableLive, TypeInv, TypeOK
  <2>9. Loading'
    BY <2>1, <2>2, <2>3, <2>4, <2>5 DEF Loading, Threads, Resting
  <2>10. Destroying'
    BY <2>1, <2>2, <2>3 DEF Destroying, DestroyPcs, Threads
  <2>11. Retiring'
    BY <2>1, <2>2, <2>3, <2>4, <2>5 DEF Retiring, Threads, Resting
  <2>12. Owned'
    BY <2>1, <2>2, <2>3 DEF Owned, Alone, OwnerPcs, DestroyPcs, Threads
  <2>. QED  BY <2>6, <2>7, <2>8, <2>9, <2>10, <2>11, <2>12
<1>2. ASSUME NEW t \in Apps, CreatePublish(t) PROVE LifeInv'
  <2>. DEFINE c == thread[t].cache
              d == thread[t].device
  <2>1. thread'[t].pc = "idle" /\ \A u \in Threads \ {t} : thread'[u] = thread[u]
    BY <1>2, IdleType DEF CreatePublish, Rest, TypeInv, Threads
  <2>2. c \in Caches /\ d \in Devices /\ thread[t].pc = "loaded"
    BY <1>2, CacheType DEF CreatePublish, Resting, TypeInv, TypeOK, ThreadState, Threads
  <2>3. stage[c] = "loading" /\ table[d] = NoCache
    BY <2>2 DEF Loading
  <2>4. stage'[c] = "live" /\ \A e \in Caches \ {c} : stage'[e] = stage[e]
    BY <1>2, <2>2 DEF CreatePublish, TypeInv, TypeOK
  <2>5. alive' = alive \cup {c} /\ table'[d] = c /\ \A e \in Devices \ {d} : table'[e] = table[e]
    BY <1>2, <2>2 DEF CreatePublish, TypeInv, TypeOK
  <2>6. \A e \in Devices : table[e] # c
    BY <2>2, <2>3, NullAssumption DEF TableLive
  <2>7. \A u \in Apps \ {t} : thread[u].pc # "idle" => thread[u].device # d
    BY <2>2 DEF Owned, OwnerPcs, Alone
  <2>8. \A u \in Threads : thread[u].pc \notin Resting => thread[u].cache \in Caches
    BY CacheType
  <2>9. \A u \in Threads : thread[u].device \in Devices
    BY DEF TypeInv, TypeOK, ThreadState
  <2>10. LockSafe'
    BY <2>1 DEF LockSafe, ExclusivePcs
  <2>11. LiveUse'
    BY <2>1, <2>4, <2>8 DEF LiveUse, ExclusivePcs, Resting
  <2>12. AliveLive'
    BY <2>4, <2>5 DEF AliveLive, TypeInv, TypeOK
  <2>13. TableLive'
    <3>1. ASSUME NEW e \in Devices, table'[e] # NoCache PROVE stage'[table'[e]] = "live"
      BY <2>4, <2>5, <2>6, <3>1 DEF TableLive, TypeInv, TypeOK
    <3>2. ASSUME NEW e \in Devices, NEW f \in Devices, table'[e] = table'[f], table'[e] # NoCache PROVE e = f
      BY <2>5, <2>6, <3>2 DEF TableLive
    <3>. QED  BY <3>1, <3>2 DEF TableLive
  <2>14. Loading'
    BY <2>1, <2>2, <2>4, <2>5, <2>7, <2>8, <2>9 DEF Loading, Threads, Resting
  <2>15. Destroying'
    BY <2>1, <2>5, <2>7, <2>9 DEF Destroying, DestroyPcs, Threads
  <2>16. Retiring'
    BY <2>1, <2>3, <2>4, <2>5, <2>8 DEF Retiring, Threads, Resting
  <2>17. Owned'
    BY <2>1 DEF Owned, Alone, OwnerPcs, DestroyPcs, Threads
  <2>. QED  BY <2>10, <2>11, <2>12, <2>13, <2>14, <2>15, <2>16, <2>17
<1>3. ASSUME NEW t \in Apps, CreateFail(t) PROVE LifeInv'
  <2>. DEFINE c == thread[t].cache
  <2>1. thread'[t].pc = "idle" /\ \A u \in Threads \ {t} : thread'[u] = thread[u]
    BY <1>3, IdleType DEF CreateFail, Rest, TypeInv, Threads
  <2>2. c \in Caches /\ thread[t].pc = "loaded" /\ UNCHANGED <<table, alive>>
    BY <1>3, CacheType DEF CreateFail, Resting, TypeInv, TypeOK, ThreadState, Threads
  <2>3. stage[c] = "loading"
    BY <2>2 DEF Loading
  <2>4. \A e \in Caches \ {c} : stage'[e] = stage[e]
    BY <1>3, <2>2 DEF CreateFail, TypeInv, TypeOK
  <2>5. \A u \in Threads : thread[u].pc \notin Resting => thread[u].cache \in Caches
    BY CacheType
  <2>6. LockSafe' /\ Destroying' /\ Owned'
    BY <2>1, <2>2 DEF LockSafe, Destroying, Owned, Alone, ExclusivePcs, DestroyPcs, OwnerPcs, Threads
  <2>7. LiveUse'
    BY <2>1, <2>3, <2>4, <2>5 DEF LiveUse, ExclusivePcs, Resting
  <2>8. AliveLive' /\ TableLive'
    BY <2>2, <2>3, <2>4 DEF AliveLive, TableLive, TypeInv, TypeOK
  <2>9. Loading' /\ Retiring'
    BY <2>1, <2>2, <2>3, <2>4, <2>5 DEF Loading, Retiring, Threads, Resting
  <2>. QED  BY <2>6, <2>7, <2>8, <2>9
<1>4. ASSUME NEW t \in Apps, NEW d \in Devices, DestroyBegin(t, d) PROVE LifeInv'
  <2>1. thread'[t].pc = "sync" /\ thread'[t].device = d /\ thread'[t].cache = table[d]
    BY <1>4, DeviceAssumption DEF DestroyBegin, Idle, TypeInv, Threads
  <2>2. \A u \in Threads \ {t} : thread'[u] = thread[u]
    BY <1>4 DEF DestroyBegin, TypeInv
  <2>3. Alone(t, d) /\ UNCHANGED <<table, stage, alive>>
    BY <1>4 DEF DestroyBegin, DeviceUnused, Alone
  <2>4. \A u \in Apps \ {t} : thread[u].pc \in OwnerPcs => thread[u].device # d
    BY <2>3 DEF Alone, OwnerPcs, DestroyPcs
  <2>. QED  BY <2>1, <2>2, <2>3, <2>4, Move DEF ExclusivePcs, Threads
<1>5. ASSUME NEW t \in Apps, DestroyErase(t) PROVE LifeInv'
  <2>. DEFINE c == thread[t].cache
              d == thread[t].device
  <2>1. /\ thread'[t].pc = "retire" /\ thread'[t].cache = c /\ thread'[t].device = d
        /\ \A u \in Threads \ {t} : thread'[u] = thread[u]
    BY <1>5 DEF DestroyErase, Become, TypeInv, GoodThread, ThreadState, Threads
  <2>2. c \in Caches /\ d \in Devices /\ thread[t].pc = "erase" /\ UNCHANGED <<stage, alive>>
    BY <1>5, CacheType DEF DestroyErase, Resting, TypeInv, TypeOK, ThreadState, Threads
  <2>3. table[d] = c /\ stage[c] = "live" /\ \A e \in Devices \ {d} : table[e] # c
    BY <2>2, NullAssumption DEF Destroying, DestroyPcs, TableLive
  <2>4. table'[d] = NoCache /\ \A e \in Devices \ {d} : table'[e] = table[e]
    BY <1>5, <2>2 DEF DestroyErase, TypeInv, TypeOK
  <2>5. Alone(t, d)
    BY <2>2 DEF Owned, OwnerPcs, DestroyPcs
  <2>6. \A u \in Threads : thread[u].device \in Devices
    BY DEF TypeInv, TypeOK, ThreadState
  <2>7. LockSafe' /\ LiveUse'
    BY <2>1, <2>2 DEF LockSafe, LiveUse, ExclusivePcs
  <2>8. AliveLive' /\ TableLive'
    BY <2>2, <2>4 DEF AliveLive, TableLive
  <2>9. Loading' /\ Destroying'
    BY <2>1, <2>2, <2>4, <2>5, <2>6 DEF Loading, Destroying, DestroyPcs, Alone, Threads
  <2>10. Retiring'
    BY <2>1, <2>2, <2>3, <2>4, NullAssumption, CacheType DEF Retiring, Threads, Resting
  <2>11. Owned'
    BY <2>1, <2>2, <2>5 DEF Owned, Alone, OwnerPcs, DestroyPcs, Threads
  <2>. QED  BY <2>7, <2>8, <2>9, <2>10, <2>11
<1>6. ASSUME NEW t \in Apps, DestroyRetire(t) PROVE LifeInv'
  <2>. DEFINE c == thread[t].cache
  <2>1. thread'[t].pc = "idle" /\ \A u \in Threads \ {t} : thread'[u] = thread[u]
    BY <1>6, IdleType DEF DestroyRetire, Rest, TypeInv, Threads
  <2>2. c \in Caches /\ thread[t].pc = "retire" /\ UNCHANGED table /\ alive' = alive \ {c}
    BY <1>6, CacheType DEF DestroyRetire, Resting, Threads
  <2>3. \A e \in Caches \ {c} : stage'[e] = stage[e]
    BY <1>6, <2>2 DEF DestroyRetire, TypeInv, TypeOK
  <2>4. \A u \in Threads : thread[u].pc \in ExclusivePcs \cup {"compiling"} => thread[u].cache # c
    BY <1>6 DEF DestroyRetire, UseFree, NoExclusive, Exclusive, Compiling, Doing, ExclusivePcs
  <2>5. stage[c] = "live" /\ \A d \in Devices : table[d] # c
    BY <2>2 DEF Retiring
  <2>6. \A u \in Threads : thread[u].pc \notin Resting => thread[u].cache \in Caches
    BY CacheType
  <2>7. LockSafe' /\ Destroying' /\ Owned'
    BY <2>1, <2>2 DEF LockSafe, Destroying, Owned, Alone, ExclusivePcs, DestroyPcs, OwnerPcs, Threads
  <2>8. LiveUse'
    BY <2>1, <2>3, <2>4, <2>6 DEF LiveUse, ExclusivePcs, Resting
  <2>9. AliveLive' /\ TableLive'
    BY <2>2, <2>3, <2>5 DEF AliveLive, TableLive, TypeInv, TypeOK
  <2>10. Loading' /\ Retiring'
    BY <2>1, <2>2, <2>3, <2>5, <2>6 DEF Loading, Retiring, Threads, Resting
  <2>. QED  BY <2>7, <2>8, <2>9, <2>10

<1>7. ASSUME NEW t \in Apps, NEW d \in Devices, CompileBegin(t, d) PROVE LifeInv'
  <2>1. /\ MayBegin(t, d) /\ Start(t, "compiling", d, table[d]) /\ UNCHANGED <<table, stage, alive>>
        /\ NoExclusive(table[d])
    BY <1>7 DEF CompileBegin
  <2>. QED  BY <2>1, BeginLife

<1>8. ASSUME NEW t \in Apps, NEW added \in SUBSET Pipelines, NEW success \in BOOLEAN, CompileEnd(t, added, success) PROVE LifeInv'
  <2>1. thread'[t].pc = "idle" /\ \A u \in Threads \ {t} : thread'[u] = thread[u]
    BY <1>8, IdleType DEF CompileEnd, Rest, TypeInv, Threads
  <2>. QED  BY <1>8, <2>1, Settle DEF CompileEnd, Threads

<1>9. ASSUME NEW t \in Apps, NEW d \in Devices, MergeBegin(t, d) PROVE LifeInv'
  <2>1. /\ MayBegin(t, d) /\ Start(t, "merging", d, table[d]) /\ UNCHANGED <<table, stage, alive>>
        /\ UseFree(table[d])
    BY <1>9 DEF MergeBegin
  <2>. QED  BY <2>1, BeginLife DEF UseFree

<1>10. ASSUME NEW t \in Apps, NEW added \in SUBSET Pipelines, MergeEnd(t, added) PROVE LifeInv'
  <2>1. /\ thread'[t].pc = "marking" /\ thread'[t].device = thread[t].device
        /\ thread[t].pc = "merging" /\ \A u \in Threads \ {t} : thread'[u] = thread[u]
    BY <1>10 DEF MergeEnd, TypeInv, GoodThread, ThreadState, Threads
  <2>2. \A u \in Apps \ {t} : thread[u].pc \in OwnerPcs => thread[u].device # thread[t].device
    BY <2>1 DEF Owned, Alone
  <2>3. t \in Threads /\ UNCHANGED <<table, stage, alive>>
    BY <1>10 DEF MergeEnd, Threads
  <2>4. thread'[t].pc \notin ExclusivePcs \cup DestroyPcs \cup {"compiling", "loaded", "retire"}
    BY <2>1 DEF ExclusivePcs, DestroyPcs
  <2>. QED  BY <2>1, <2>2, <2>3, <2>4, Move

<1>11. ASSUME NEW t \in Apps, MergeMark(t) PROVE LifeInv'
  <2>1. thread'[t].pc = "idle" /\ \A u \in Threads \ {t} : thread'[u] = thread[u]
    BY <1>11, IdleType DEF MergeMark, Rest, TypeInv, Threads
  <2>. QED  BY <1>11, <2>1, Settle DEF MergeMark, Threads

<1>12. ASSUME NEW t \in Apps, NEW d \in Devices, ReadBegin(t, d) PROVE LifeInv'
  <2>1. /\ MayBegin(t, d) /\ Start(t, "reading", d, table[d]) /\ UNCHANGED <<table, stage, alive>>
        /\ UseFree(table[d])
    BY <1>12 DEF ReadBegin
  <2>. QED  BY <2>1, BeginLife DEF UseFree

<1>13. ASSUME NEW t \in Apps, ReadEnd(t) PROVE LifeInv'
  <2>1. thread'[t].pc = "idle" /\ \A u \in Threads \ {t} : thread'[u] = thread[u]
    BY <1>13, IdleType DEF ReadEnd, Rest, TypeInv, Threads
  <2>. QED  BY <1>13, <2>1, Settle DEF ReadEnd, Threads

<1>14. ASSUME NEW t \in Threads, SyncPersist(t) PROVE LifeInv'
  <2>1. "sync" \in DestroyPcs /\ "locking" \in DestroyPcs \ ExclusivePcs
    BY DEF DestroyPcs, ExclusivePcs
  <2>. QED  BY <1>14, <2>1, GoOn DEF SyncPersist, Become, TypeInv, GoodThread, ThreadState
<1>15. ASSUME NEW t \in Threads, SyncLock(t) PROVE LifeInv'
  <2>. DEFINE c == thread[t].cache
  <2>1. thread[t].pc = "locking" /\ thread[t].pc \in DestroyPcs /\ UNCHANGED <<table, stage, alive>>
    BY <1>15 DEF SyncLock, DestroyPcs
  <2>2. CASE c \in alive /\ (thread[t].force \/ c \in dirty)
    <3>1. /\ thread'[t].pc = "snapshot" /\ thread'[t].cache = c /\ thread'[t].device = thread[t].device
          /\ \A u \in Threads \ {t} : thread'[u] = thread[u]
      BY <1>15, <2>2 DEF SyncLock, TypeInv, GoodThread, ThreadState
    <3>2. stage[c] = "live" /\ UseFree(c)
      BY <1>15, <2>2 DEF SyncLock, AliveLive
    <3>3. t \in Apps => table[thread[t].device] = c /\ Alone(t, thread[t].device)
      BY <2>1 DEF Destroying, Owned, OwnerPcs
    <3>4. t \in Apps => \A u \in Apps \ {t} : thread[u].pc \in OwnerPcs => thread[u].device # thread[t].device
      BY <2>1 DEF Owned, Alone
    <3>. QED  BY <2>1, <3>1, <3>2, <3>3, <3>4, Move
  <2>3. CASE ~(c \in alive /\ (thread[t].force \/ c \in dirty))
    BY <1>15, <2>1, <2>3, ReturnLife DEF SyncLock
  <2>. QED  BY <2>2, <2>3
<1>16. ASSUME NEW t \in Threads, SyncSnapshot(t) PROVE LifeInv'
  <2>1. "snapshot" \in DestroyPcs /\ "writing" \in DestroyPcs \ ExclusivePcs
    BY DEF DestroyPcs, ExclusivePcs
  <2>. QED  BY <1>16, <2>1, GoOn DEF SyncSnapshot, TypeInv, GoodThread, ThreadState
<1>17. ASSUME NEW t \in Threads, SyncFail(t) PROVE LifeInv'
  BY <1>17, ReturnLife DEF SyncFail, DestroyPcs
<1>18. ASSUME NEW t \in Threads, SyncWrite(t) PROVE LifeInv'
  <2>1. "writing" \in DestroyPcs /\ "saved" \in DestroyPcs \ ExclusivePcs
    BY DEF DestroyPcs, ExclusivePcs
  <2>. QED  BY <1>18, <2>1, GoOn DEF SyncWrite, Become, TypeInv, GoodThread, ThreadState
<1>19. ASSUME NEW t \in Threads, SyncFinish(t) PROVE LifeInv'
  BY <1>19, ReturnLife DEF SyncFinish, DestroyPcs
<1>20. ASSUME FlusherTake \/ FlusherCollect \/ FlusherDone \/ FlusherLast \/ (\E d \in Devices : FlusherSync(d))
       PROVE  LifeInv'
  <2>1. \A u \in Threads \ {Flusher} : thread'[u] = thread[u]
    BY <1>20 DEF FlusherTake, FlusherCollect, FlusherDone, FlusherLast, FlusherSync, Become, TypeInv
  <2>2. thread'[Flusher].pc \in {"collect", "flushing", "exited", "idle", "sync"}
    <3>1. thread[Flusher] \in GoodThread /\ thread \in [Threads -> GoodThread] /\ Flusher \in Threads
      BY DEF TypeInv, Threads
    <3>2. CASE FlusherTake \/ FlusherCollect \/ FlusherDone
      BY <3>1, <3>2 DEF FlusherTake, FlusherCollect, FlusherDone, Become, GoodThread, ThreadState
    <3>3. CASE FlusherLast
      BY <3>1, <3>3 DEF FlusherLast, GoodThread, ThreadState
    <3>4. ASSUME NEW d \in Devices, FlusherSync(d) PROVE thread'[Flusher].pc \in {"flushing", "sync"}
      BY <3>1, <3>4 DEF FlusherSync, GoodThread, ThreadState
    <3>. QED  BY <1>20, <3>2, <3>3, <3>4
  <2>3. UNCHANGED <<table, stage, alive>>
    BY <1>20 DEF FlusherTake, FlusherCollect, FlusherDone, FlusherLast, FlusherSync
  <2>. QED  BY <2>1, <2>2, <2>3, Settle, ThreadAssumption DEF ExclusivePcs, Threads
<1>21. CASE Stop \/ UNCHANGED vars
  BY <1>21 DEF Stop, vars, LockSafe, LiveUse, AliveLive, TableLive, Loading, Destroying, Retiring, Owned, Alone

<1>. QED  BY <1>1, <1>2, <1>3, <1>4, <1>5, <1>6, <1>7, <1>8, <1>9, <1>10, <1>11, <1>12, <1>13, <1>14, <1>15, <1>16, <1>17, <1>18, <1>19, <1>20, <1>21 DEF Next, AppNext, SyncNext, FlusherNext

\* No two threads are in the driver with one cache while one of them changes or
\* reads it, and nobody is with a cache that was destroyed.
THEOREM NativeAccessCorrect == Spec => []NativeAccessSafe
<1>1. LifeInv => NativeAccessSafe
  BY DEF LifeInv, LockSafe, LiveUse, NativeAccessSafe, Exclusive, Compiling, Doing, ExclusivePcs
<1>2. LifeInv /\ [Next]_vars => LifeInv'
  BY StepType, StepLife DEF LifeInv
<1>. QED  BY <1>1, <1>2, InitLife, PTL DEF Spec
-----------------------------------------------------------------------------
(* The inductive invariant of data, marks and files.                        *)

PersistPcs == {"locking", "snapshot", "writing", "saved"}
BusyPcs == PersistPcs \cup {"sync", "compiling", "merging", "marking"}

\* The native cache was created: its content only grows from now on.
Begun(c) == stage[c] \in {"live", "destroyed"}

Announced == \A c \in Caches : marked[c] \subseteq data[c]
DirtyBegun == \A c \in dirty : Begun(c)
FileOlder ==
    \A p \in Paths : file[p].by \in Caches =>
       Begun(file[p].by) /\ file[p].content \subseteq data[file[p].by]

PersistSafe ==
    \A t, u \in Threads : t # u /\ thread[t].pc \in PersistPcs /\ thread[u].pc \in PersistPcs =>
       thread[t].cache # thread[u].cache

\* What a thread with locals r knows of its cache c.
LoadedOK(r, c) == r.pc = "loaded" /\ OwnFile(c) => r.content \subseteq file[PathOf[c]].content
MarkingOK(r, c) == r.pc = "marking" => r.content \subseteq data[c]
RevisionOK(r, c) == r.pc \in {"snapshot", "writing", "saved"} => r.rev <= revision[c]
WritingOK(r, c) ==
    r.pc = "writing" =>
       /\ r.content \subseteq data[c]
       /\ \A p \in Paths : file[p].by = c => file[p].content \subseteq r.content
       /\ c \notin dirty => marked[c] \subseteq r.content
SnapshotOK(r, c) ==
    r.pc \in {"writing", "saved"} /\ r.rev = revision[c] => marked[c] \subseteq r.content
SavedOK(r, c) == r.pc = "saved" /\ OwnFile(c) => file[PathOf[c]].content = r.content

LocalOK(r, c) ==
    /\ r.pc \in BusyPcs => Begun(c)
    /\ MarkingOK(r, c)
    /\ RevisionOK(r, c)
    /\ WritingOK(r, c)
    /\ SnapshotOK(r, c)
    /\ SavedOK(r, c)

Locals ==
    /\ \A t \in Threads : LocalOK(thread[t], thread[t].cache)
    /\ \A t \in Apps : LoadedOK(thread[t], thread[t].cache)

SaveInv ==
    /\ Announced
    /\ DirtyBegun
    /\ FileOlder
    /\ PersistSafe
    /\ Locals
    /\ CleanMeansSaved

LEMMA InitSave == Init => SaveInv
<1>. SUFFICES ASSUME Init PROVE SaveInv
  OBVIOUS
<1>1. \A t \in Threads : thread[t].pc = "idle"
  BY IdleType DEF Init
<1>2. Announced /\ DirtyBegun
  BY DEF Init, Announced, DirtyBegun
<1>3. FileOlder
  BY NullAssumption DEF Init, FileOlder
<1>4. PersistSafe /\ Locals
  BY <1>1 DEF Threads, PersistSafe, Locals, LocalOK, PersistPcs, BusyPcs, LoadedOK, MarkingOK, RevisionOK,
              WritingOK, SnapshotOK, SavedOK
<1>5. CleanMeansSaved
  BY DEF Init, CleanMeansSaved, OnDisk
<1>. QED  BY <1>2, <1>3, <1>4, <1>5 DEF SaveInv

\* A thread takes the persistence mutex when it is free.
LEMMA KeepPersist ==
    ASSUME PersistSafe, TypeInv, NEW t \in Threads, NEW r, thread' = [thread EXCEPT ![t] = r],
           r.pc \in PersistPcs =>
              PersistFree(r.cache) \/ (thread[t].pc \in PersistPcs /\ thread[t].cache = r.cache)
    PROVE  PersistSafe'
<1>1. thread'[t] = r /\ \A u \in Threads \ {t} : thread'[u] = thread[u]
  BY DEF TypeInv
<1>2. ASSUME NEW u \in Threads \ {t}, r.pc \in PersistPcs, thread[u].pc \in PersistPcs
      PROVE  thread[u].cache # r.cache
  BY <1>2 DEF PersistFree, Persisting, Doing, PersistPcs, PersistSafe
<1>. QED  BY <1>1, <1>2 DEF PersistSafe

\* A step that changes no data, mark or file.
LEMMA SaveMove ==
    ASSUME SaveInv, TypeInv, NEW t \in Threads, NEW r \in GoodThread,
           thread' = [thread EXCEPT ![t] = r],
           UNCHANGED <<data, revision, dirty, file, marked>>, alive' \subseteq alive,
           \A c \in Caches : Begun(c) => Begun(c)',
           LocalOK(r, r.cache), t \in Apps => LoadedOK(r, r.cache),
           r.pc \in PersistPcs =>
              PersistFree(r.cache) \/ (thread[t].pc \in PersistPcs /\ thread[t].cache = r.cache)
    PROVE  SaveInv'
<1>. USE DEF SaveInv
<1>1. thread'[t] = r /\ \A u \in Threads \ {t} : thread'[u] = thread[u]
  BY DEF TypeInv
<1>2. PersistSafe'
  BY KeepPersist
<1>3. Announced' /\ FileOlder' /\ CleanMeansSaved'
  BY DEF Announced, FileOlder, CleanMeansSaved, OnDisk
<1>4. DirtyBegun'
  BY DEF DirtyBegun, TypeInv, TypeOK
<1>5. ASSUME NEW u \in Threads PROVE LocalOK(thread[u], thread[u].cache)'
  <2>1. thread'[u] \in GoodThread /\ LocalOK(thread'[u], thread'[u].cache)
    BY <1>1 DEF Locals, TypeInv
  <2>2. thread'[u].pc \in BusyPcs => Begun(thread[u].cache)'
    <3>1. thread'[u].pc \in BusyPcs => thread'[u].cache \in Caches
      BY <2>1 DEF GoodThread, BusyPcs, PersistPcs, Resting
    <3>. QED  BY <2>1, <3>1 DEF LocalOK, Begun
  <2>3. /\ MarkingOK(thread[u], thread[u].cache)' /\ RevisionOK(thread[u], thread[u].cache)'
        /\ WritingOK(thread[u], thread[u].cache)' /\ SnapshotOK(thread[u], thread[u].cache)'
        /\ SavedOK(thread[u], thread[u].cache)'
    BY <2>1 DEF LocalOK, MarkingOK, RevisionOK, WritingOK, SnapshotOK, SavedOK
  <2>. QED  BY <2>2, <2>3 DEF LocalOK
<1>6. ASSUME NEW u \in Apps PROVE LoadedOK(thread[u], thread[u].cache)'
  BY <1>1 DEF Locals, LoadedOK, Threads
<1>7. Locals'
  BY <1>5, <1>6 DEF Locals
<1>. QED  BY <1>2, <1>3, <1>4, <1>7

\* Locals that promise nothing.
LEMMA Unconcerned ==
    ASSUME NEW r, r.pc \notin BusyPcs \cup {"loaded"}
    PROVE  LocalOK(r, r.cache) /\ LoadedOK(r, r.cache)
BY DEF LocalOK, BusyPcs, PersistPcs, LoadedOK, MarkingOK, RevisionOK, WritingOK, SnapshotOK, SavedOK

\* The thread of a save that ends.
LEMMA ReturnThread ==
    ASSUME TypeInv, NEW t \in Threads, Return(t), thread[t].pc \notin Resting
    PROVE  \E r \in GoodThread : r.pc \in {"flushing", "erase"} /\ thread' = [thread EXCEPT ![t] = r]
<1>1. CASE t = Flusher
  <2>. DEFINE r == [Idle EXCEPT !.pc = "flushing", !.force = thread[t].force]
  <2>1. r \in GoodThread /\ r.pc = "flushing"
    BY IdleType DEF TypeInv, GoodThread, Resting, ThreadState, Pcs
  <2>. QED  BY <1>1, <2>1 DEF Return
<1>2. CASE t # Flusher
  <2>. DEFINE r == [thread[t] EXCEPT !.pc = "erase"]
  <2>1. r \in GoodThread /\ r.pc = "erase"
    BY DEF TypeInv, GoodThread, ThreadState, Pcs
  <2>. QED  BY <1>2, <2>1 DEF Return, Become
<1>. QED  BY <1>1, <1>2

LEMMA ReturnSave ==
    ASSUME SaveInv, TypeInv, NEW t \in Threads, Return(t), thread[t].pc \notin Resting,
           UNCHANGED <<data, revision, dirty, file, marked, alive, stage>>
    PROVE  SaveInv'
<1>1. PICK r \in GoodThread : r.pc \in {"flushing", "erase"} /\ thread' = [thread EXCEPT ![t] = r]
  BY ReturnThread
<1>2. r.pc \notin BusyPcs \cup {"loaded"} /\ r.pc \notin PersistPcs
  BY <1>1 DEF BusyPcs, PersistPcs
<1>3. \A c \in Caches : Begun(c) => Begun(c)'
  BY DEF Begun
<1>4. LocalOK(r, r.cache) /\ LoadedOK(r, r.cache)
  BY <1>2, Unconcerned
<1>. QED  BY <1>1, <1>2, <1>3, <1>4, SaveMove

\* Pipelines are added to cache c; what is announced of it was added before.
LEMMA SaveGrow ==
    ASSUME SaveInv, LifeInv, NEW t \in Threads, NEW r \in GoodThread, NEW c \in Caches,
           thread' = [thread EXCEPT ![t] = r], UNCHANGED <<stage, alive, file>>,
           Begun(c), data' \in [Caches -> SUBSET Pipelines],
           \A e \in Caches : data[e] \subseteq data'[e],
           \A e \in Caches \ {c} :
              marked'[e] = marked[e] /\ revision'[e] = revision[e] /\ (e \in dirty' <=> e \in dirty),
           \/ UNCHANGED <<marked, revision, dirty>>
           \/ c \in dirty' /\ revision'[c] = revision[c] + 1 /\ marked'[c] \subseteq data'[c],
           dirty' \subseteq Caches,
           r.pc \notin PersistPcs \cup {"loaded", "sync"},
           r.pc \in BusyPcs => r.cache = c,
           r.pc = "marking" => r.content \subseteq data'[c]
    PROVE  SaveInv'
<1>. USE DEF SaveInv
<1>0. TypeInv
  BY DEF LifeInv
<1>1. thread'[t] = r /\ \A u \in Threads \ {t} : thread'[u] = thread[u]
  BY <1>0 DEF TypeInv
<1>2. PersistSafe'
  BY <1>0, KeepPersist
<1>3. Announced'
  BY DEF Announced
<1>4. DirtyBegun'
  BY DEF DirtyBegun, Begun
<1>5. FileOlder'
  BY DEF FileOlder, Begun
<1>6. CleanMeansSaved'
  BY DEF CleanMeansSaved, OnDisk
<1>7. LocalOK(thread[t], thread[t].cache)'
  BY <1>1 DEF LocalOK, BusyPcs, PersistPcs, Begun, MarkingOK, RevisionOK, WritingOK, SnapshotOK, SavedOK
<1>8. ASSUME NEW u \in Threads \ {t} PROVE LocalOK(thread[u], thread[u].cache)'
  <2>1. LocalOK(thread[u], thread[u].cache) /\ thread'[u] = thread[u] /\ thread[u].rev \in Nat
    BY <1>0, <1>1 DEF Locals, TypeInv, TypeOK, ThreadState
  <2>2. thread[u].pc \in BusyPcs => thread[u].cache \in Caches
    BY <1>0, CacheType DEF BusyPcs, PersistPcs, Resting
  <2>3. (thread[u].pc \in BusyPcs => Begun(thread[u].cache))'
    BY <2>1 DEF LocalOK, Begun
  <2>4. MarkingOK(thread[u], thread[u].cache)'
    BY <2>1, <2>2 DEF LocalOK, MarkingOK, BusyPcs
  <2>5. ASSUME thread[u].pc \in {"snapshot", "writing", "saved"}
        PROVE  /\ revision[thread[u].cache] \in Nat /\ thread[u].rev <= revision[thread[u].cache]
               /\ \/ /\ marked'[thread[u].cache] = marked[thread[u].cache]
                     /\ revision'[thread[u].cache] = revision[thread[u].cache]
                     /\ thread[u].cache \in dirty' <=> thread[u].cache \in dirty
                  \/ /\ thread[u].cache \in dirty'
                     /\ revision'[thread[u].cache] = revision[thread[u].cache] + 1
    BY <1>0, <2>1, <2>2, <2>5 DEF LocalOK, RevisionOK, BusyPcs, PersistPcs, TypeInv, TypeOK
  <2>6. RevisionOK(thread[u], thread[u].cache)'
    BY <2>1, <2>5 DEF RevisionOK
  <2>7. WritingOK(thread[u], thread[u].cache)'
    BY <2>1, <2>2, <2>5 DEF LocalOK, WritingOK, BusyPcs, PersistPcs
  <2>8. SnapshotOK(thread[u], thread[u].cache)'
    BY <2>1, <2>5 DEF LocalOK, SnapshotOK
  <2>9. SavedOK(thread[u], thread[u].cache)'
    BY <2>1 DEF LocalOK, SavedOK
  <2>. QED  BY <2>3, <2>4, <2>6, <2>7, <2>8, <2>9 DEF LocalOK
<1>9. ASSUME NEW u \in Apps PROVE LoadedOK(thread[u], thread[u].cache)'
  BY <1>1 DEF Locals, LoadedOK, Threads
<1>. QED  BY <1>2, <1>3, <1>4, <1>5, <1>6, <1>7, <1>8, <1>9 DEF Locals

\* A call on a device in the table, by the application.
LEMMA BeginSave ==
    ASSUME SaveInv, LifeInv, NEW t \in Apps, NEW d \in Devices,
           NEW pc \in {"compiling", "merging", "reading"}, MayBegin(t, d), Start(t, pc, d, table[d]),
           UNCHANGED <<data, revision, dirty, file, marked, alive, stage>>
    PROVE  SaveInv'
<1>. DEFINE r == [Idle EXCEPT !.pc = pc, !.device = d, !.cache = table[d]]
<1>1. table[d] \in Caches /\ Begun(table[d])
  BY DEF MayBegin, LifeInv, TypeInv, TypeOK, TableLive, Begun
<1>2. r \in GoodThread /\ r.pc = pc /\ r.cache = table[d]
  BY <1>1, IdleType DEF GoodThread, ThreadState, Pcs
<1>3. LocalOK(r, r.cache) /\ LoadedOK(r, r.cache)
  BY <1>1, <1>2 DEF LocalOK, LoadedOK, MarkingOK, RevisionOK, WritingOK, SnapshotOK, SavedOK
<1>4. thread' = [thread EXCEPT ![t] = r] /\ t \in Threads /\ r.pc \notin PersistPcs
  BY <1>2 DEF Start, Threads, PersistPcs
<1>5. \A c \in Caches : Begun(c) => Begun(c)'
  BY DEF Begun
<1>. QED  BY <1>2, <1>3, <1>4, <1>5, SaveMove DEF LifeInv

\* The first step of a save, by the flusher or by destruction.
LEMMA EnterSave ==
    ASSUME SaveInv, LifeInv, NEW t \in Threads, NEW d \in Devices, NEW r \in GoodThread,
           r.pc = "sync", r.cache = table[d], table[d] # NoCache, thread' = [thread EXCEPT ![t] = r],
           UNCHANGED <<data, revision, dirty, file, marked, alive, stage>>
    PROVE  SaveInv'
<1>1. Begun(r.cache)
  BY DEF LifeInv, TableLive, Begun
<1>2. LocalOK(r, r.cache) /\ LoadedOK(r, r.cache) /\ r.pc \notin PersistPcs
  BY <1>1 DEF LocalOK, LoadedOK, MarkingOK, RevisionOK, WritingOK, SnapshotOK, SavedOK, PersistPcs
<1>3. \A c \in Caches : Begun(c) => Begun(c)'
  BY DEF Begun
<1>. QED  BY <1>2, <1>3, SaveMove DEF LifeInv

\* A thread goes where nothing is promised.
LEMMA LeaveSave ==
    ASSUME SaveInv, LifeInv, NEW t \in Threads, NEW r \in GoodThread,
           r.pc \notin BusyPcs \cup {"loaded"}, thread' = [thread EXCEPT ![t] = r],
           UNCHANGED <<data, revision, dirty, file, marked>>, alive' \subseteq alive,
           \A c \in Caches : Begun(c) => Begun(c)'
    PROVE  SaveInv'
<1>1. LocalOK(r, r.cache) /\ LoadedOK(r, r.cache) /\ r.pc \notin PersistPcs
  BY Unconcerned DEF BusyPcs
<1>. QED  BY <1>1, SaveMove DEF LifeInv

LEMMA PublishSave ==
    ASSUME SaveInv, LifeInv, NEW t \in Apps, CreatePublish(t)
    PROVE  SaveInv'
<1>. USE DEF SaveInv
<1>. DEFINE c == thread[t].cache
<1>0. TypeInv /\ t \in Threads
  BY DEF LifeInv, Threads
<1>1. c \in Caches /\ stage[c] = "loading"
  BY <1>0, CacheType DEF CreatePublish, LifeInv, Loading, Resting
<1>2. thread' = [thread EXCEPT ![t] = Idle] /\ UNCHANGED <<revision, dirty, file>>
  BY DEF CreatePublish, Rest, flags
<1>3. PICK content \in {thread[t].content, {}} :
         data' = [data EXCEPT ![c] = content] /\ marked' = [marked EXCEPT ![c] = content]
  BY DEF CreatePublish
<1>4. /\ data'[c] = content /\ marked'[c] = content
      /\ \A e \in Caches \ {c} : data'[e] = data[e] /\ marked'[e] = marked[e]
  BY <1>0, <1>1, <1>3 DEF TypeInv, TypeOK
<1>5. \A e \in Caches : Begun(e) => e # c /\ Begun(e)'
  BY <1>0, <1>1 DEF Begun, CreatePublish, TypeInv, TypeOK
<1>6. thread'[t] = Idle /\ Idle.pc = "idle" /\ \A u \in Threads \ {t} : thread'[u] = thread[u]
  BY <1>0, <1>2, IdleType DEF TypeInv
<1>7. Announced'
  BY <1>4 DEF Announced
<1>8. DirtyBegun'
  BY <1>0, <1>2, <1>5 DEF DirtyBegun, TypeInv, TypeOK
<1>9. FileOlder'
  BY <1>2, <1>4, <1>5 DEF FileOlder
<1>10. PersistSafe'
  BY <1>0, <1>2, <1>6, KeepPersist DEF PersistPcs
<1>11. ASSUME NEW u \in Threads PROVE LocalOK(thread[u], thread[u].cache)'
  <2>1. CASE u = t
    BY <2>1, <1>6, Unconcerned DEF LocalOK, BusyPcs, PersistPcs, MarkingOK, RevisionOK, WritingOK, SnapshotOK, SavedOK
  <2>2. CASE u # t
    <3>1. LocalOK(thread[u], thread[u].cache) /\ thread'[u] = thread[u]
      BY <2>2, <1>6 DEF Locals
    <3>2. ASSUME thread[u].pc \in BusyPcs
          PROVE  /\ thread[u].cache \in Caches \ {c} /\ Begun(thread[u].cache)'
                 /\ data'[thread[u].cache] = data[thread[u].cache]
                 /\ marked'[thread[u].cache] = marked[thread[u].cache]
      <4>1. thread[u].cache \in Caches
        BY <1>0, <3>2, CacheType DEF BusyPcs, PersistPcs, Resting
      <4>. QED  BY <4>1, <3>1, <3>2, <1>4, <1>5 DEF LocalOK
    <3>3. (thread[u].pc \in BusyPcs => Begun(thread[u].cache))'
      BY <3>1, <3>2 DEF Begun
    <3>. QED  BY <3>1, <3>2, <3>3, <1>2 DEF LocalOK, BusyPcs, PersistPcs, MarkingOK, RevisionOK, WritingOK, SnapshotOK, SavedOK
  <2>. QED  BY <2>1, <2>2
<1>12. ASSUME NEW u \in Apps PROVE LoadedOK(thread[u], thread[u].cache)'
  BY <1>2, <1>6 DEF Locals, LoadedOK, Threads
<1>13. CleanMeansSaved'
  <2>1. OwnFile(c) => content \subseteq file[PathOf[c]].content
    BY <1>3 DEF Locals, LoadedOK, CreatePublish
  <2>2. \A e \in Caches \ {c} : e \in alive' => e \in alive
    BY DEF CreatePublish
  <2>. QED  BY <2>1, <2>2, <1>2, <1>4 DEF CleanMeansSaved, OnDisk
<1>. QED  BY <1>7, <1>8, <1>9, <1>10, <1>11, <1>12, <1>13 DEF Locals

LEMMA WriteSave ==
    ASSUME SaveInv, LifeInv, NEW t \in Threads, SyncWrite(t)
    PROVE  SaveInv'
<1>. USE DEF SaveInv
<1>. DEFINE c == thread[t].cache
            r == [thread[t] EXCEPT !.pc = "saved"]
<1>0. TypeInv /\ thread[t] \in ThreadState
  BY DEF LifeInv, TypeInv, TypeOK
<1>1. c \in Caches /\ thread[t].pc = "writing"
  BY <1>0, CacheType DEF SyncWrite, Resting
<1>2. thread' = [thread EXCEPT ![t] = r] /\ UNCHANGED <<stage, data, revision, dirty, alive, marked>>
  BY DEF SyncWrite, Become, flags
<1>3. /\ file'[PathOf[c]].by = c /\ file'[PathOf[c]].content = thread[t].content
      /\ \A p \in Paths \ {PathOf[c]} : file'[p] = file[p]
  BY <1>0, <1>1, PathAssumption DEF SyncWrite, TypeInv, TypeOK
<1>4. thread'[t] = r /\ \A u \in Threads \ {t} : thread'[u] = thread[u]
  BY <1>0, <1>2 DEF TypeInv
<1>5. /\ Begun(c) /\ WritingOK(thread[t], c) /\ RevisionOK(thread[t], c) /\ SnapshotOK(thread[t], c)
  BY <1>1 DEF Locals, LocalOK, BusyPcs, PersistPcs
<1>6. Announced' /\ DirtyBegun'
  BY <1>2 DEF Announced, DirtyBegun, Begun
<1>7. FileOlder'
  BY <1>1, <1>2, <1>3, <1>5 DEF FileOlder, Begun, WritingOK
<1>8. r.pc = "saved" /\ r.cache = c /\ r.rev = thread[t].rev /\ r.content = thread[t].content
  BY <1>0 DEF ThreadState
<1>9. PersistSafe'
  BY <1>0, <1>1, <1>2, <1>8, KeepPersist DEF PersistPcs
<1>10. LocalOK(thread[t], thread[t].cache)'
  BY <1>1, <1>2, <1>3, <1>4, <1>5, <1>8
     DEF LocalOK, Begun, BusyPcs, PersistPcs, MarkingOK, RevisionOK, WritingOK, SnapshotOK, SavedOK
<1>11. ASSUME NEW u \in Threads \ {t} PROVE LocalOK(thread[u], thread[u].cache)'
  <2>1. LocalOK(thread[u], thread[u].cache) /\ thread'[u] = thread[u]
    BY <1>4 DEF Locals
  <2>2. thread[u].pc \in {"writing", "saved"} => thread[u].cache \in Caches \ {c}
    BY <1>0, <1>1, CacheType DEF PersistSafe, PersistPcs, Resting
  <2>3. (thread[u].pc \in BusyPcs => Begun(thread[u].cache))' /\ MarkingOK(thread[u], thread[u].cache)'
        /\ RevisionOK(thread[u], thread[u].cache)' /\ SnapshotOK(thread[u], thread[u].cache)'
    BY <2>1, <1>2 DEF LocalOK, Begun, MarkingOK, RevisionOK, SnapshotOK
  <2>4. WritingOK(thread[u], thread[u].cache)'
    BY <2>1, <2>2, <1>2, <1>3 DEF LocalOK, WritingOK
  <2>5. SavedOK(thread[u], thread[u].cache)'
    BY <2>1, <2>2, <1>1, <1>2, <1>3, PathAssumption DEF LocalOK, SavedOK, OwnFile
  <2>. QED  BY <2>3, <2>4, <2>5 DEF LocalOK
<1>12. ASSUME NEW u \in Apps PROVE LoadedOK(thread[u], thread[u].cache)'
  <2>1. CASE u = t
    BY <2>1, <1>4, <1>8 DEF LoadedOK
  <2>2. CASE u # t /\ thread[u].pc = "loaded"
    <3>1. thread[u].cache \in Caches \ {c}
      BY <2>2, <1>0, <1>5, CacheType DEF LifeInv, Loading, Begun, Resting, Threads
    <3>. QED  BY <2>2, <3>1, <1>1, <1>2, <1>3, <1>4, PathAssumption DEF Locals, LoadedOK, OwnFile, Threads
  <2>3. CASE u # t /\ thread[u].pc # "loaded"
    BY <2>3, <1>4 DEF LoadedOK, Threads
  <2>. QED  BY <2>1, <2>2, <2>3
<1>13. CleanMeansSaved'
  <2>. SUFFICES ASSUME NEW e \in Caches, OwnFile(e), e \in alive, e \notin dirty
                PROVE  marked[e] \subseteq file'[PathOf[e]].content
    BY <1>2 DEF CleanMeansSaved, OnDisk
  <2>1. CASE e = c
    BY <2>1, <1>1, <1>3, <1>5 DEF WritingOK
  <2>2. CASE e # c
    BY <2>2, <1>1, <1>3, PathAssumption DEF CleanMeansSaved, OnDisk, OwnFile
  <2>. QED  BY <2>1, <2>2
<1>. QED  BY <1>6, <1>7, <1>9, <1>10, <1>11, <1>12, <1>13 DEF Locals

LEMMA FinishSave ==
    ASSUME SaveInv, LifeInv, NEW t \in Threads, SyncFinish(t)
    PROVE  SaveInv'
<1>. USE DEF SaveInv
<1>. DEFINE c == thread[t].cache
<1>0. TypeInv /\ thread[t].pc = "saved"
  BY DEF LifeInv, SyncFinish
<1>1. c \in Caches
  BY <1>0, CacheType DEF Resting
<1>2. UNCHANGED <<stage, data, revision, alive, file, marked>> /\ dirty' \subseteq dirty /\ dirty \ {c} \subseteq dirty'
  BY DEF SyncFinish, disk
<1>3. PICK r \in GoodThread : r.pc \in {"flushing", "erase"} /\ thread' = [thread EXCEPT ![t] = r]
  BY <1>0, ReturnThread DEF SyncFinish, Resting
<1>4. thread'[t] = r /\ \A u \in Threads \ {t} : thread'[u] = thread[u]
  BY <1>0, <1>3 DEF TypeInv
<1>5. Announced' /\ DirtyBegun' /\ FileOlder'
  BY <1>2 DEF Announced, DirtyBegun, FileOlder, Begun
<1>6. PersistSafe'
  BY <1>0, <1>3, KeepPersist DEF PersistPcs
<1>7. LocalOK(thread[t], thread[t].cache)' /\ LoadedOK(thread[t], thread[t].cache)'
  BY <1>3, <1>4 DEF LocalOK, LoadedOK, BusyPcs, PersistPcs, MarkingOK, RevisionOK, WritingOK, SnapshotOK, SavedOK
<1>8. ASSUME NEW u \in Threads \ {t} PROVE LocalOK(thread[u], thread[u].cache)'
  <2>1. LocalOK(thread[u], thread[u].cache) /\ thread'[u] = thread[u]
    BY <1>4 DEF Locals
  <2>2. thread[u].pc = "writing" => thread[u].cache # c
    BY <1>0 DEF PersistSafe, PersistPcs
  <2>3. WritingOK(thread[u], thread[u].cache)'
    BY <2>1, <2>2, <1>2 DEF LocalOK, WritingOK
  <2>. QED  BY <2>1, <2>3, <1>2 DEF LocalOK, Begun, MarkingOK, RevisionOK, SnapshotOK, SavedOK
<1>9. ASSUME NEW u \in Apps \ {t} PROVE LoadedOK(thread[u], thread[u].cache)'
  BY <1>2, <1>4 DEF Locals, LoadedOK, Threads
<1>10. CleanMeansSaved'
  <2>. SUFFICES ASSUME NEW e \in Caches, OwnFile(e), e \in alive, e \notin dirty'
                PROVE  marked[e] \subseteq file[PathOf[e]].content
    BY <1>2 DEF CleanMeansSaved, OnDisk
  <2>1. CASE e \notin dirty
    BY <2>1 DEF CleanMeansSaved, OnDisk
  <2>2. CASE e \in dirty
    <3>1. e = c /\ revision[c] = thread[t].rev
      BY <2>2, <1>2 DEF SyncFinish, Unchanged
    <3>. QED  BY <3>1, <1>0, <1>1 DEF Locals, LocalOK, SnapshotOK, SavedOK
  <2>. QED  BY <2>1, <2>2
<1>. QED  BY <1>5, <1>6, <1>7, <1>8, <1>9, <1>10 DEF Locals

\* Compilations and merges.
LEMMA AnnounceStep ==
    ASSUME TypeInv, SaveInv, NEW c \in Caches, NEW added \in SUBSET Pipelines, Announce(c, added),
           added \subseteq data'[c], \A e \in Caches : data[e] \subseteq data'[e]
    PROVE  /\ \A e \in Caches \ {c} :
                marked'[e] = marked[e] /\ revision'[e] = revision[e] /\ (e \in dirty' <=> e \in dirty)
           /\ \/ UNCHANGED <<marked, revision, dirty>>
              \/ c \in dirty' /\ revision'[c] = revision[c] + 1 /\ marked'[c] \subseteq data'[c]
           /\ dirty' \subseteq Caches
<1>1. CASE c \in alive
  <2>1. marked[c] \subseteq data[c]
    BY DEF SaveInv, Announced
  <2>. QED  BY <1>1, <2>1 DEF Announce, MarkDirty, TypeInv, TypeOK
<1>2. CASE c \notin alive
  BY <1>2 DEF Announce, MarkDirty, TypeInv, TypeOK, flags
<1>. QED  BY <1>1, <1>2

LEMMA CompileSave ==
    ASSUME SaveInv, LifeInv, NEW t \in Apps, NEW added \in SUBSET Pipelines, NEW success \in BOOLEAN,
           CompileEnd(t, added, success)
    PROVE  SaveInv'
<1>. DEFINE c == thread[t].cache
<1>0. TypeInv /\ t \in Threads
  BY DEF LifeInv, Threads
<1>1. c \in Caches /\ Begun(c)
  BY <1>0, CacheType DEF CompileEnd, SaveInv, Locals, LocalOK, BusyPcs, Resting
<1>2. /\ thread' = [thread EXCEPT ![t] = Idle] /\ UNCHANGED <<stage, alive, file>>
      /\ data' = [data EXCEPT ![c] = @ \cup added]
  BY DEF CompileEnd, Rest
<1>3. /\ data' \in [Caches -> SUBSET Pipelines] /\ added \subseteq data'[c]
      /\ \A e \in Caches : data[e] \subseteq data'[e]
  BY <1>0, <1>1, <1>2 DEF TypeInv, TypeOK
<1>4. Idle.pc \notin PersistPcs \cup BusyPcs \cup {"loaded", "sync", "marking"}
  BY IdleType DEF PersistPcs, BusyPcs
<1>5. CASE success
  <2>1. Announce(c, added)
    BY <1>5 DEF CompileEnd
  <2>. QED  BY <1>0, <1>1, <1>2, <1>3, <1>4, <2>1, IdleType, AnnounceStep, SaveGrow
<1>6. CASE ~success
  <2>1. UNCHANGED <<marked, revision, dirty>>
    BY <1>6 DEF CompileEnd, flags
  <2>2. dirty' \subseteq Caches
    BY <1>0, <2>1 DEF TypeInv, TypeOK
  <2>. QED  BY <1>0, <1>1, <1>2, <1>3, <1>4, <2>1, <2>2, IdleType, SaveGrow
<1>. QED  BY <1>5, <1>6

LEMMA MergeSave ==
    ASSUME SaveInv, LifeInv, NEW t \in Apps, NEW added \in SUBSET Pipelines, MergeEnd(t, added)
    PROVE  SaveInv'
<1>. DEFINE c == thread[t].cache
            r == [thread[t] EXCEPT !.pc = "marking", !.content = added]
<1>0. TypeInv /\ t \in Threads
  BY DEF LifeInv, Threads
<1>1. c \in Caches /\ Begun(c)
  BY <1>0, CacheType DEF MergeEnd, SaveInv, Locals, LocalOK, BusyPcs, Resting
<1>2. /\ thread' = [thread EXCEPT ![t] = r] /\ UNCHANGED <<stage, alive, file>>
      /\ data' = [data EXCEPT ![c] = @ \cup added]
  BY DEF MergeEnd, disk
<1>3. /\ data' \in [Caches -> SUBSET Pipelines] /\ added \subseteq data'[c]
      /\ \A e \in Caches : data[e] \subseteq data'[e]
  BY <1>0, <1>1, <1>2 DEF TypeInv, TypeOK
<1>4. r \in GoodThread /\ r.pc = "marking" /\ r.cache = c /\ r.content = added
  BY <1>0, <1>1 DEF TypeInv, GoodThread, ThreadState, Pcs
<1>5. UNCHANGED <<marked, revision, dirty>> /\ dirty \subseteq Caches
  BY <1>0 DEF MergeEnd, flags, disk, TypeInv, TypeOK
<1>6. r.pc \notin PersistPcs \cup {"loaded", "sync"}
  BY <1>4 DEF PersistPcs
<1>. QED  BY <1>0, <1>1, <1>2, <1>3, <1>4, <1>5, <1>6, SaveGrow

LEMMA MarkSave ==
    ASSUME SaveInv, LifeInv, NEW t \in Apps, MergeMark(t)
    PROVE  SaveInv'
<1>. DEFINE c == thread[t].cache
            added == thread[t].content
<1>0. TypeInv /\ t \in Threads
  BY DEF LifeInv, Threads
<1>1. c \in Caches /\ Begun(c) /\ added \subseteq data[c]
  BY <1>0, CacheType DEF MergeMark, SaveInv, Locals, LocalOK, MarkingOK, BusyPcs, Resting
<1>2. /\ thread' = [thread EXCEPT ![t] = Idle] /\ UNCHANGED <<stage, alive, file, data>>
  BY DEF MergeMark, Rest
<1>3. added \in SUBSET Pipelines /\ data \in [Caches -> SUBSET Pipelines]
  BY <1>0 DEF TypeInv, TypeOK, ThreadState
<1>4. Idle.pc \notin PersistPcs \cup BusyPcs \cup {"loaded", "sync", "marking"}
  BY IdleType DEF PersistPcs, BusyPcs
<1>5. Announce(c, added)
  BY DEF MergeMark
<1>. QED  BY <1>0, <1>1, <1>2, <1>3, <1>4, <1>5, IdleType, AnnounceStep, SaveGrow

LEMMA StepSave == SaveInv /\ LifeInv /\ [Next]_vars => SaveInv'
<1>. SUFFICES ASSUME SaveInv, LifeInv, [Next]_vars PROVE SaveInv'
  OBVIOUS
<1>0. TypeInv /\ Apps \subseteq Threads /\ Flusher \in Threads
  BY DEF LifeInv, Threads
<1>1. ASSUME NEW t \in Apps, NEW d \in Devices, NEW c \in Caches, CreateLoad(t, d, c) PROVE SaveInv'
  <2>1. PICK content \in {file[PathOf[c]].content, {}} : thread' = [thread EXCEPT ![t] =
              [Idle EXCEPT !.pc = "loaded", !.device = d, !.cache = c, !.content = content]]
    BY <1>1 DEF CreateLoad
  <2>. DEFINE r == [Idle EXCEPT !.pc = "loaded", !.device = d, !.cache = c, !.content = content]
  <2>2. content \in SUBSET Pipelines
    BY <1>0, PathAssumption DEF TypeInv, TypeOK
  <2>3. r \in GoodThread /\ r.pc = "loaded" /\ r.cache = c /\ r.content = content
    BY <2>2, IdleType DEF GoodThread, ThreadState, Pcs, Resting
  <2>4. LocalOK(r, r.cache) /\ LoadedOK(r, r.cache) /\ r.pc \notin PersistPcs
    BY <2>3 DEF LocalOK, LoadedOK, MarkingOK, RevisionOK, WritingOK, SnapshotOK, SavedOK, BusyPcs, PersistPcs
  <2>5. \A e \in Caches : Begun(e) => Begun(e)'
    BY <1>0, <1>1 DEF CreateLoad, Begun, TypeInv, TypeOK
  <2>6. UNCHANGED <<data, revision, dirty, file, marked, alive>>
    BY <1>1 DEF CreateLoad, flags, disk
  <2>. QED  BY <1>0, <2>1, <2>3, <2>4, <2>5, <2>6, SaveMove
<1>2. ASSUME NEW t \in Apps, CreatePublish(t) PROVE SaveInv'
  BY <1>2, PublishSave
<1>3. ASSUME NEW t \in Apps, CreateFail(t) \/ DestroyRetire(t) PROVE SaveInv'
  <2>1. thread' = [thread EXCEPT ![t] = Idle]
    BY <1>3 DEF CreateFail, DestroyRetire, Rest
  <2>2. \A e \in Caches : Begun(e) => Begun(e)'
    BY <1>0, <1>3 DEF CreateFail, DestroyRetire, Begun, TypeInv, TypeOK
  <2>3. UNCHANGED <<data, revision, dirty, file, marked>> /\ alive' \subseteq alive
    BY <1>3 DEF CreateFail, DestroyRetire, flags, disk
  <2>4. Idle.pc \notin BusyPcs \cup {"loaded"}
    BY IdleType DEF BusyPcs, PersistPcs
  <2>. QED  BY <1>0, <2>1, <2>2, <2>3, <2>4, IdleType, LeaveSave
<1>4. ASSUME NEW t \in Apps, NEW d \in Devices, DestroyBegin(t, d) PROVE SaveInv'
  <2>. DEFINE r == [Idle EXCEPT !.pc = "sync", !.device = d, !.cache = table[d], !.force = TRUE]
  <2>1. r \in GoodThread /\ r.pc = "sync" /\ r.cache = table[d] /\ table[d] # NoCache
    BY <1>0, <1>4, IdleType DEF DestroyBegin, TypeInv, TypeOK, GoodThread, ThreadState, Pcs
  <2>2. thread' = [thread EXCEPT ![t] = r] /\ UNCHANGED <<data, revision, dirty, file, marked, alive, stage>>
    BY <1>4 DEF DestroyBegin, flags, disk
  <2>. QED  BY <1>0, <2>1, <2>2, EnterSave
<1>5. ASSUME NEW t \in Apps, DestroyErase(t) PROVE SaveInv'
  <2>. DEFINE r == [thread[t] EXCEPT !.pc = "retire"]
  <2>1. r \in GoodThread /\ r.pc = "retire"
    BY <1>0, <1>5 DEF DestroyErase, TypeInv, GoodThread, ThreadState, Pcs, Resting
  <2>2. thread' = [thread EXCEPT ![t] = r] /\ UNCHANGED <<data, revision, dirty, file, marked, alive, stage>>
    BY <1>5 DEF DestroyErase, Become, flags, disk
  <2>. QED  BY <1>0, <2>1, <2>2, LeaveSave DEF BusyPcs, PersistPcs, Begun
<1>6. ASSUME NEW t \in Apps, NEW d \in Devices, CompileBegin(t, d) PROVE SaveInv'
  BY <1>6, BeginSave DEF CompileBegin, flags, disk
<1>7. ASSUME NEW t \in Apps, NEW added \in SUBSET Pipelines, NEW success \in BOOLEAN,
             CompileEnd(t, added, success)
      PROVE  SaveInv'
  BY <1>7, CompileSave
<1>8. ASSUME NEW t \in Apps, NEW d \in Devices, MergeBegin(t, d) PROVE SaveInv'
  BY <1>8, BeginSave DEF MergeBegin, flags, disk
<1>9. ASSUME NEW t \in Apps, NEW added \in SUBSET Pipelines, MergeEnd(t, added) PROVE SaveInv'
  BY <1>9, MergeSave
<1>10. ASSUME NEW t \in Apps, MergeMark(t) PROVE SaveInv'
  BY <1>10, MarkSave
<1>11. ASSUME NEW t \in Apps, NEW d \in Devices, ReadBegin(t, d) PROVE SaveInv'
  BY <1>11, BeginSave DEF ReadBegin, flags, disk
<1>12. ASSUME NEW t \in Apps, ReadEnd(t) PROVE SaveInv'
  BY <1>0, <1>12, IdleType, LeaveSave DEF ReadEnd, Rest, flags, disk, BusyPcs, PersistPcs, Begun
<1>13. ASSUME NEW t \in Threads, SyncPersist(t) PROVE SaveInv'
  <2>. DEFINE r == [thread[t] EXCEPT !.pc = "locking"]
  <2>1. r \in GoodThread /\ r.pc = "locking" /\ r.cache = thread[t].cache
    BY <1>0, <1>13 DEF SyncPersist, TypeInv, GoodThread, ThreadState, Pcs, Resting
  <2>2. Begun(r.cache) /\ PersistFree(r.cache)
    BY <1>13, <2>1 DEF SyncPersist, SaveInv, Locals, LocalOK, BusyPcs
  <2>3. LocalOK(r, r.cache) /\ LoadedOK(r, r.cache)
    BY <2>1, <2>2 DEF LocalOK, LoadedOK, MarkingOK, RevisionOK, WritingOK, SnapshotOK, SavedOK
  <2>4. thread' = [thread EXCEPT ![t] = r] /\ UNCHANGED <<data, revision, dirty, file, marked, alive, stage>>
    BY <1>13 DEF SyncPersist, Become, flags, disk
  <2>5. \A c \in Caches : Begun(c) => Begun(c)'
    BY <2>4 DEF Begun
  <2>. QED  BY <1>0, <2>1, <2>2, <2>3, <2>4, <2>5, SaveMove
<1>14. ASSUME NEW t \in Threads, SyncLock(t) PROVE SaveInv'
  <2>1. UNCHANGED <<data, revision, dirty, file, marked, alive, stage>>
    BY <1>14 DEF SyncLock, flags, disk
  <2>2. CASE thread[t].cache \in alive /\ (thread[t].force \/ thread[t].cache \in dirty)
    <3>. DEFINE r == [thread[t] EXCEPT !.pc = "snapshot", !.rev = revision[thread[t].cache]]
    <3>1. thread' = [thread EXCEPT ![t] = r] /\ thread[t].pc = "locking"
      BY <1>14, <2>2 DEF SyncLock
    <3>2. thread[t].cache \in Caches /\ revision[thread[t].cache] \in Nat
      BY <1>0, <3>1, CacheType DEF Resting, TypeInv, TypeOK
    <3>3. r \in GoodThread /\ r.pc = "snapshot" /\ r.cache = thread[t].cache /\ r.rev = revision[thread[t].cache]
      BY <1>0, <3>2 DEF TypeInv, GoodThread, ThreadState, Pcs
    <3>4. Begun(r.cache)
      BY <3>1, <3>3 DEF SaveInv, Locals, LocalOK, BusyPcs, PersistPcs
    <3>5. LocalOK(r, r.cache) /\ LoadedOK(r, r.cache)
      BY <3>2, <3>3, <3>4 DEF LocalOK, LoadedOK, MarkingOK, RevisionOK, WritingOK, SnapshotOK, SavedOK
    <3>6. \A c \in Caches : Begun(c) => Begun(c)'
      BY <2>1 DEF Begun
    <3>7. thread[t].pc \in PersistPcs
      BY <3>1 DEF PersistPcs
    <3>. QED  BY <1>0, <2>1, <3>1, <3>3, <3>5, <3>6, <3>7, SaveMove
  <2>3. CASE ~(thread[t].cache \in alive /\ (thread[t].force \/ thread[t].cache \in dirty))
    BY <1>0, <1>14, <2>1, <2>3, ReturnSave DEF SyncLock, Resting
  <2>. QED  BY <2>2, <2>3
<1>15. ASSUME NEW t \in Threads, SyncSnapshot(t) PROVE SaveInv'
  <2>. DEFINE c == thread[t].cache
              r == [thread[t] EXCEPT !.pc = "writing", !.content = data[c]]
  <2>1. /\ thread' = [thread EXCEPT ![t] = r] /\ thread[t].pc = "snapshot"
        /\ UNCHANGED <<data, revision, dirty, file, marked, alive, stage>>
    BY <1>15 DEF SyncSnapshot, flags, disk
  <2>2. c \in Caches /\ data[c] \in SUBSET Pipelines
    BY <1>0, <2>1, CacheType DEF Resting, TypeInv, TypeOK
  <2>3. r \in GoodThread /\ r.pc = "writing" /\ r.cache = c /\ r.rev = thread[t].rev /\ r.content = data[c]
    BY <1>0, <2>2 DEF TypeInv, GoodThread, ThreadState, Pcs
  <2>4. Begun(c) /\ RevisionOK(thread[t], c) /\ marked[c] \subseteq data[c]
    BY <2>1, <2>2 DEF SaveInv, Locals, LocalOK, BusyPcs, PersistPcs, Announced
  <2>5. \A p \in Paths : file[p].by = c => file[p].content \subseteq data[c]
    BY <2>2 DEF SaveInv, FileOlder
  <2>6. LocalOK(r, r.cache) /\ LoadedOK(r, r.cache)
    BY <2>1, <2>3, <2>4, <2>5 DEF LocalOK, LoadedOK, MarkingOK, RevisionOK, WritingOK, SnapshotOK, SavedOK
  <2>7. \A e \in Caches : Begun(e) => Begun(e)'
    BY <2>1 DEF Begun
  <2>8. thread[t].pc \in PersistPcs
    BY <2>1 DEF PersistPcs
  <2>. QED  BY <1>0, <2>1, <2>3, <2>6, <2>7, <2>8, SaveMove
<1>16. ASSUME NEW t \in Threads, SyncFail(t) PROVE SaveInv'
  BY <1>0, <1>16, ReturnSave DEF SyncFail, Resting, flags
<1>17. ASSUME NEW t \in Threads, SyncWrite(t) PROVE SaveInv'
  BY <1>17, WriteSave
<1>18. ASSUME NEW t \in Threads, SyncFinish(t) PROVE SaveInv'
  BY <1>18, FinishSave
<1>19. ASSUME NEW d \in Devices, FlusherSync(d), table[d] # NoCache PROVE SaveInv'
  <2>. DEFINE r == [thread[Flusher] EXCEPT !.pc = "sync", !.device = d, !.cache = table[d]]
  <2>1. r \in GoodThread /\ r.pc = "sync" /\ r.cache = table[d]
    BY <1>0, <1>19 DEF TypeInv, TypeOK, GoodThread, ThreadState, Pcs
  <2>2. thread' = [thread EXCEPT ![Flusher] = r] /\ UNCHANGED <<data, revision, dirty, file, marked, alive, stage>>
    BY <1>19 DEF FlusherSync, flags, disk
  <2>. QED  BY <1>0, <1>19, <2>1, <2>2, EnterSave
<1>20. CASE FlusherTake \/ FlusherCollect \/ FlusherDone \/ FlusherLast
  <2>1. PICK pc \in {"collect", "flushing", "exited", "idle"}, force \in BOOLEAN :
           thread' = [thread EXCEPT ![Flusher] = [thread[Flusher] EXCEPT !.pc = pc, !.force = force]]
    <3>1. thread[Flusher] \in ThreadState
      BY <1>0 DEF TypeInv, TypeOK
    <3>2. \A pc : [thread[Flusher] EXCEPT !.pc = pc] =
                  [thread[Flusher] EXCEPT !.pc = pc, !.force = thread[Flusher].force]
      BY <3>1 DEF ThreadState
    <3>3. CASE FlusherTake \/ FlusherCollect \/ FlusherDone
      <4>1. PICK pc \in {"collect", "flushing", "exited", "idle"} :
               thread' = [thread EXCEPT ![Flusher] = [thread[Flusher] EXCEPT !.pc = pc]]
        BY <3>3 DEF FlusherTake, FlusherCollect, FlusherDone, Become
      <4>. QED  BY <3>1, <3>2, <4>1 DEF ThreadState
    <3>4. CASE FlusherLast
      BY <3>4 DEF FlusherLast
    <3>. QED  BY <1>20, <3>3, <3>4
  <2>. DEFINE r == [thread[Flusher] EXCEPT !.pc = pc, !.force = force]
  <2>2. r \in GoodThread /\ r.pc = pc
    BY <1>0 DEF TypeInv, GoodThread, ThreadState, Pcs, Resting
  <2>3. UNCHANGED <<data, revision, dirty, file, marked, alive, stage>>
    BY <1>20 DEF FlusherTake, FlusherCollect, FlusherDone, FlusherLast, flags, disk
  <2>. QED  BY <1>0, <2>1, <2>2, <2>3, LeaveSave DEF BusyPcs, PersistPcs, Begun
<1>21. ASSUME thread' = thread, UNCHANGED <<data, revision, dirty, file, marked, alive, stage>> PROVE SaveInv'
  <2>1. \A t \in Threads : LocalOK(thread[t], thread[t].cache)'
    BY <1>21 DEF SaveInv, Locals, LocalOK, Begun, MarkingOK, RevisionOK, WritingOK, SnapshotOK, SavedOK
  <2>. QED  BY <1>21, <2>1 DEF SaveInv, Announced, DirtyBegun, FileOlder, PersistSafe, Locals, LoadedOK,
                             Begun, CleanMeansSaved, OnDisk
<1>22. CASE Stop \/ UNCHANGED vars
  BY <1>21, <1>22 DEF Stop, vars, flags, disk
<1>23. ASSUME NEW d \in Devices, FlusherSync(d), table[d] = NoCache PROVE SaveInv'
  BY <1>21, <1>23 DEF FlusherSync, flags, disk
<1>. QED  BY <1>1, <1>2, <1>3, <1>4, <1>5, <1>6, <1>7, <1>8, <1>9, <1>10, <1>11, <1>12, <1>13, <1>14, <1>15,
             <1>16, <1>17, <1>18, <1>19, <1>20, <1>22, <1>23 DEF Next, AppNext, SyncNext, FlusherNext

LEMMA SpecLife == Spec => []LifeInv
<1>1. LifeInv /\ [Next]_vars => LifeInv'
  BY StepType, StepLife DEF LifeInv
<1>. QED  BY <1>1, InitLife, PTL DEF Spec

LEMMA SpecSave == Spec => []SaveInv
BY SpecLife, InitSave, StepSave, PTL DEF Spec

\* A cache that is not dirty is on disk, for a cache with a file of its own.
THEOREM CleanCorrect == Spec => []CleanMeansSaved
<1>1. SaveInv => CleanMeansSaved
  BY DEF SaveInv
<1>. QED  BY <1>1, SpecSave, PTL

\* A later save of a cache never takes content away from its file.
THEOREM FileCorrect == Spec => FileNeverGoesBack
<1>. DEFINE Kept == \A p \in Paths : (file'[p].by = file[p].by) => file[p].content \subseteq file'[p].content
<1>1. ASSUME SaveInv, LifeInv, [Next]_vars PROVE Kept
  <2>1. ASSUME NEW t \in Threads, SyncWrite(t) PROVE Kept
    <3>1. thread[t].cache \in Caches
      BY <1>1, <2>1, CacheType DEF SyncWrite, Resting, LifeInv
    <3>2. WritingOK(thread[t], thread[t].cache)
      BY <1>1 DEF SaveInv, Locals, LocalOK
    <3>3. thread[t].pc = "writing" /\ file' = [file EXCEPT ![PathOf[thread[t].cache]] =
              [by |-> thread[t].cache, content |-> thread[t].content]]
      BY <2>1 DEF SyncWrite
    <3>. QED  BY <1>1, <3>1, <3>2, <3>3, PathAssumption DEF WritingOK, LifeInv, TypeInv, TypeOK
  <2>2. ASSUME UNCHANGED file PROVE Kept
    BY <2>2
  <2>3. ASSUME NEW t \in Apps, AppNext(t) PROVE UNCHANGED file
    BY <2>3 DEF AppNext, CreateLoad, CreatePublish, CreateFail, DestroyBegin, DestroyErase, DestroyRetire,
                CompileBegin, CompileEnd, MergeBegin, MergeEnd, MergeMark, ReadBegin, ReadEnd, disk
  <2>4. ASSUME NEW t \in Threads, SyncNext(t), ~SyncWrite(t) PROVE UNCHANGED file
    BY <2>4 DEF SyncNext, SyncPersist, SyncLock, SyncSnapshot, SyncFail, SyncFinish, disk
  <2>5. CASE FlusherNext \/ Stop \/ UNCHANGED vars
    BY <2>5, <2>2 DEF FlusherNext, FlusherTake, FlusherCollect, FlusherSync, FlusherDone, FlusherLast, Stop, vars, disk
  <2>. QED  BY <1>1, <2>1, <2>2, <2>3, <2>4, <2>5 DEF Next
<1>2. SaveInv /\ LifeInv /\ [Next]_vars => [Kept]_vars
  BY <1>1
<1>. QED  BY <1>2, SpecLife, SpecSave, PTL DEF Spec, FileNeverGoesBack

-----------------------------------------------------------------------------
(* The flusher.  Its list holds devices: the cache in hand may have left    *)
(* the table, and a later one under the same handle announces itself.       *)

TableAlive == \A d \in Devices : table[d] # NoCache => table[d] \in alive

FlusherAt ==
    (running /\ thread[Flusher].pc \in PersistPcs \cup {"sync"}) =>
       LET c == thread[Flusher].cache
           other == table[thread[Flusher].device]
       IN  /\ other \in dirty /\ other # c => pending \/ other \in unsaved
           /\ thread[Flusher].pc \in {"snapshot", "writing", "saved"} /\ revision[c] # thread[Flusher].rev =>
                 pending

FlushInv == TableAlive /\ NothingForgotten /\ FlusherAt

LEMMA InitFlush == Init => FlushInv
<1>. SUFFICES ASSUME Init PROVE FlushInv
  OBVIOUS
<1>1. thread[Flusher].pc = "idle"
  BY IdleType DEF Init, Threads
<1>. QED  BY <1>1 DEF Init, FlushInv, TableAlive, NothingForgotten, FlusherAt, PersistPcs

\* A step of another thread: what becomes dirty raises the flag.
LEMMA OtherStep ==
    ASSUME FlushInv, TypeInv, thread'[Flusher] = thread[Flusher], todo' = todo,
           running' => running, pending => pending',
           \A d \in Devices : table'[d] \in dirty' =>
              \/ pending'
              \/ /\ table'[d] = table[d] /\ table[d] \in dirty
                 /\ table[d] \in unsaved => table[d] \in unsaved',
           UNCHANGED revision \/ pending'
    PROVE  NothingForgotten' /\ FlusherAt'
<1>1. NothingForgotten'
  BY DEF FlushInv, NothingForgotten
<1>2. thread[Flusher].device \in Devices
  BY DEF TypeInv, TypeOK, ThreadState, Threads
<1>3. FlusherAt'
  BY <1>2 DEF FlushInv, FlusherAt
<1>. QED  BY <1>1, <1>3

\* The flusher is done with a device.
LEMMA FlusherReturns ==
    ASSUME FlushInv, TypeInv, thread[Flusher].pc \in PersistPcs \cup {"sync"}, Return(Flusher),
           UNCHANGED <<table, pending, running>>, dirty' \subseteq dirty, unsaved \subseteq unsaved',
           thread[Flusher].cache \in dirty' /\ table[thread[Flusher].device] = thread[Flusher].cache /\ running =>
              pending \/ thread[Flusher].cache \in unsaved'
    PROVE  NothingForgotten' /\ FlusherAt'
<1>1. thread'[Flusher].pc = "flushing" /\ todo' = todo \ {thread[Flusher].device}
  BY DeviceAssumption DEF Return, TypeInv, Threads, Idle
<1>2. FlusherAt'
  BY <1>1 DEF FlusherAt, PersistPcs
<1>3. ASSUME NEW d \in Devices, running', table'[d] \in dirty'
      PROVE  pending' \/ d \in todo' \/ table'[d] \in unsaved'
  <2>1. CASE d = thread[Flusher].device
    BY <1>3, <2>1 DEF FlushInv, FlusherAt
  <2>2. CASE d # thread[Flusher].device
    BY <1>1, <1>3, <2>2 DEF FlushInv, NothingForgotten, PersistPcs
  <2>. QED  BY <2>1, <2>2
<1>4. NothingForgotten'
  BY <1>3 DEF NothingForgotten
<1>. QED  BY <1>2, <1>4

\* The flusher goes on with the device in hand.
LEMMA FlusherGoesOn ==
    ASSUME FlushInv, TypeInv, NEW r \in GoodThread, thread' = [thread EXCEPT ![Flusher] = r],
           UNCHANGED <<table, pending, running, dirty, unsaved, todo, revision>>,
           thread[Flusher].pc \in PersistPcs \cup {"sync"},
           r.cache = thread[Flusher].cache, r.device = thread[Flusher].device,
           r.pc \in PersistPcs,
           r.pc \in {"snapshot", "writing", "saved"} =>
              \/ r.rev = revision[r.cache]
              \/ r.rev = thread[Flusher].rev /\ thread[Flusher].pc \in {"snapshot", "writing", "saved"}
    PROVE  NothingForgotten' /\ FlusherAt'
<1>1. thread'[Flusher] = r
  BY DEF TypeInv, Threads
<1>2. r.pc # "collect" /\ thread[Flusher].pc # "collect"
  BY DEF PersistPcs
<1>3. NothingForgotten'
  BY <1>1, <1>2 DEF FlushInv, NothingForgotten
<1>4. FlusherAt'
  BY <1>1 DEF FlushInv, FlusherAt
<1>. QED  BY <1>3, <1>4

LEMMA AliveStep == FlushInv /\ LifeInv /\ [Next]_vars => TableAlive'
<1>. SUFFICES ASSUME FlushInv, LifeInv, [Next]_vars PROVE TableAlive'
  OBVIOUS
<1>0. TypeInv /\ TableAlive
  BY DEF LifeInv, FlushInv
<1>1. ASSUME NEW t \in Apps, CreatePublish(t) PROVE TableAlive'
  BY <1>0, <1>1 DEF CreatePublish, TableAlive, TypeInv, TypeOK
<1>2. ASSUME NEW t \in Apps, DestroyErase(t) PROVE TableAlive'
  BY <1>0, <1>2 DEF DestroyErase, TableAlive, TypeInv, TypeOK
<1>3. ASSUME NEW t \in Apps, DestroyRetire(t) PROVE TableAlive'
  BY <1>0, <1>3 DEF DestroyRetire, TableAlive, LifeInv, Retiring
<1>4. ASSUME UNCHANGED <<table, alive>> PROVE TableAlive'
  BY <1>0, <1>4 DEF TableAlive
<1>5. ASSUME NEW t \in Apps, AppNext(t), ~CreatePublish(t), ~DestroyErase(t), ~DestroyRetire(t)
      PROVE  UNCHANGED <<table, alive>>
  BY <1>5 DEF AppNext, CreateLoad, CreateFail, DestroyBegin, CompileBegin, CompileEnd, MergeBegin, MergeEnd,
              MergeMark, ReadBegin, ReadEnd
<1>6. ASSUME NEW t \in Threads, SyncNext(t) PROVE UNCHANGED <<table, alive>>
  BY <1>6 DEF SyncNext, SyncPersist, SyncLock, SyncSnapshot, SyncFail, SyncWrite, SyncFinish
<1>7. CASE FlusherNext \/ Stop \/ UNCHANGED vars
  BY <1>4, <1>7 DEF FlusherNext, FlusherTake, FlusherCollect, FlusherSync, FlusherDone, FlusherLast, Stop, vars
<1>. QED  BY <1>1, <1>2, <1>3, <1>4, <1>5, <1>6, <1>7 DEF Next

\* The application, and the saves that destruction makes.
LEMMA AppFlush ==
    ASSUME FlushInv, LifeInv, SaveInv, TypeInv', NEW t \in Apps, AppNext(t) \/ SyncNext(t)
    PROVE  NothingForgotten' /\ FlusherAt'
<1>0. TypeInv /\ t # Flusher /\ Flusher \in Threads /\ t \in Threads
  BY ThreadAssumption DEF LifeInv, Threads
<1>1. thread'[Flusher] = thread[Flusher]
  <2>1. CASE AppNext(t)
    BY <1>0, <2>1 DEF AppNext, CreateLoad, CreatePublish, CreateFail, DestroyBegin, DestroyErase, DestroyRetire,
          CompileBegin, CompileEnd, MergeBegin, MergeEnd, MergeMark, ReadBegin, ReadEnd, Rest, Become, Start, TypeInv
  <2>2. CASE SyncNext(t)
    BY <1>0, <2>2 DEF SyncNext, SyncPersist, SyncLock, SyncSnapshot, SyncFail, SyncWrite, SyncFinish,
          Return, Become, TypeInv
  <2>. QED  BY <2>1, <2>2
<1>2. todo' = todo
  BY <1>0 DEF AppNext, CreateLoad, CreatePublish, CreateFail, DestroyBegin, DestroyErase, DestroyRetire,
        CompileBegin, CompileEnd, MergeBegin, MergeEnd, MergeMark, ReadBegin, ReadEnd,
        SyncNext, SyncPersist, SyncLock, SyncSnapshot, SyncFail, SyncWrite, SyncFinish, Return
<1>3. running' = running
  BY DEF AppNext, CreateLoad, CreatePublish, CreateFail, DestroyBegin, DestroyErase, DestroyRetire,
        CompileBegin, CompileEnd, MergeBegin, MergeEnd, MergeMark, ReadBegin, ReadEnd,
        SyncNext, SyncPersist, SyncLock, SyncSnapshot, SyncFail, SyncWrite, SyncFinish
<1>4. CASE CreatePublish(t)
  <2>. DEFINE c == thread[t].cache
  <2>1. c \notin dirty
    BY <1>4 DEF CreatePublish, LifeInv, Loading, SaveInv, DirtyBegun, Begun
  <2>2. \A d \in Devices : table'[d] \in {table[d], c}
    BY <1>0, <1>4 DEF CreatePublish, TypeInv, TypeOK
  <2>. QED  BY <1>0, <1>1, <1>2, <1>3, <1>4, <2>1, <2>2, OtherStep DEF CreatePublish, flags
<1>5. CASE DestroyErase(t)
  <2>1. \A d \in Devices : table'[d] \in {table[d], NoCache}
    BY <1>0, <1>5 DEF DestroyErase, TypeInv, TypeOK
  <2>2. NoCache \notin dirty
    BY <1>0, NullAssumption DEF TypeInv, TypeOK
  <2>. QED  BY <1>0, <1>1, <1>2, <1>3, <1>5, <2>1, <2>2, OtherStep DEF DestroyErase, flags, disk
<1>6. ASSUME NEW c, NEW added, Announce(c, added), UNCHANGED table PROVE NothingForgotten' /\ FlusherAt'
  <2>1. CASE c \in alive
    BY <1>0, <1>1, <1>2, <1>3, <1>6, <2>1, OtherStep DEF Announce, MarkDirty
  <2>2. CASE c \notin alive
    BY <1>0, <1>1, <1>2, <1>3, <1>6, <2>2, OtherStep DEF Announce, MarkDirty, flags
  <2>. QED  BY <2>1, <2>2
<1>7. ASSUME UNCHANGED <<table, revision, pending>>, dirty' \subseteq dirty, unsaved \subseteq unsaved'
      PROVE  NothingForgotten' /\ FlusherAt'
  BY <1>0, <1>1, <1>2, <1>3, <1>7, OtherStep
<1>8. ASSUME NEW added \in SUBSET Pipelines, NEW success \in BOOLEAN, CompileEnd(t, added, success)
      PROVE  NothingForgotten' /\ FlusherAt'
  <2>1. CASE success
    BY <1>6, <1>8, <2>1 DEF CompileEnd
  <2>2. CASE ~success
    BY <1>7, <1>8, <2>2 DEF CompileEnd, flags
  <2>. QED  BY <2>1, <2>2
<1>9. CASE MergeMark(t)
  BY <1>6, <1>9 DEF MergeMark
<1>10. CASE SyncNext(t)
  BY <1>7, <1>10 DEF SyncNext, SyncPersist, SyncLock, SyncSnapshot, SyncFail, SyncWrite, SyncFinish, flags, disk
<1>11. CASE CreateFail(t) \/ DestroyRetire(t) \/ ReadEnd(t)
  BY <1>7, <1>11 DEF CreateFail, DestroyRetire, ReadEnd, flags, disk
<1>12. ASSUME NEW d \in Devices, \/ \E c \in Caches : CreateLoad(t, d, c)
                                 \/ DestroyBegin(t, d) \/ CompileBegin(t, d) \/ MergeBegin(t, d) \/ ReadBegin(t, d)
       PROVE  NothingForgotten' /\ FlusherAt'
  BY <1>7, <1>12 DEF CreateLoad, DestroyBegin, CompileBegin, MergeBegin, ReadBegin, flags, disk
<1>13. ASSUME NEW added \in SUBSET Pipelines, MergeEnd(t, added) PROVE NothingForgotten' /\ FlusherAt'
  BY <1>7, <1>13 DEF MergeEnd, flags, disk
<1>. QED  BY <1>4, <1>5, <1>8, <1>9, <1>10, <1>11, <1>12, <1>13 DEF AppNext

\* The saves that the flusher makes.
LEMMA FlusherSaves ==
    ASSUME FlushInv, LifeInv, SaveInv, SyncNext(Flusher)
    PROVE  NothingForgotten' /\ FlusherAt'
<1>. DEFINE c == thread[Flusher].cache
<1>0. TypeInv /\ Flusher \in Threads
  BY DEF LifeInv, Threads
<1>1. thread[Flusher] \in GoodThread /\ (thread[Flusher].pc \in PersistPcs \cup {"sync"} => c \in Caches)
  BY <1>0, CacheType DEF TypeInv, PersistPcs, Resting
<1>2. CASE SyncPersist(Flusher)
  <2>. DEFINE r == [thread[Flusher] EXCEPT !.pc = "locking"]
  <2>1. thread' = [thread EXCEPT ![Flusher] = r] /\ thread[Flusher].pc = "sync"
    BY <1>2 DEF SyncPersist, Become
  <2>2. r \in GoodThread /\ r.pc = "locking" /\ r.cache = c /\ r.device = thread[Flusher].device
    BY <1>1, <2>1 DEF GoodThread, ThreadState, Pcs, Resting
  <2>3. UNCHANGED <<table, pending, running, dirty, unsaved, todo, revision>>
    BY <1>2 DEF SyncPersist, flags, disk
  <2>. QED  BY <1>0, <2>1, <2>2, <2>3, FlusherGoesOn DEF PersistPcs
<1>3. CASE SyncLock(Flusher) /\ c \in alive /\ (thread[Flusher].force \/ c \in dirty)
  <2>. DEFINE r == [thread[Flusher] EXCEPT !.pc = "snapshot", !.rev = revision[c]]
  <2>1. thread' = [thread EXCEPT ![Flusher] = r] /\ thread[Flusher].pc = "locking"
    BY <1>3 DEF SyncLock
  <2>2. revision[c] \in Nat
    BY <1>0, <1>1, <2>1 DEF TypeInv, TypeOK, PersistPcs
  <2>3. r \in GoodThread /\ r.pc = "snapshot" /\ r.cache = c /\ r.device = thread[Flusher].device /\ r.rev = revision[c]
    BY <1>1, <2>1, <2>2 DEF GoodThread, ThreadState, Pcs, Resting
  <2>4. UNCHANGED <<table, pending, running, dirty, unsaved, todo, revision>>
    BY <1>3 DEF SyncLock, flags, disk
  <2>. QED  BY <1>0, <2>1, <2>3, <2>4, FlusherGoesOn DEF PersistPcs
<1>4. CASE SyncLock(Flusher) /\ ~(c \in alive /\ (thread[Flusher].force \/ c \in dirty))
  <2>1. thread[Flusher].pc = "locking" /\ Return(Flusher)
        /\ UNCHANGED <<table, pending, running, dirty, unsaved>>
    BY <1>4 DEF SyncLock, flags, disk
  <2>2. thread[Flusher].device \in Devices /\ c # NoCache
    BY <1>0, <1>1, <2>1, NullAssumption DEF TypeInv, TypeOK, ThreadState, PersistPcs
  <2>3. c \in dirty /\ table[thread[Flusher].device] = c => FALSE
    BY <1>4, <2>2 DEF FlushInv, TableAlive
  <2>. QED  BY <1>0, <2>1, <2>3, FlusherReturns DEF PersistPcs
<1>5. CASE SyncSnapshot(Flusher)
  <2>. DEFINE r == [thread[Flusher] EXCEPT !.pc = "writing", !.content = data[c]]
  <2>1. thread' = [thread EXCEPT ![Flusher] = r] /\ thread[Flusher].pc = "snapshot"
    BY <1>5 DEF SyncSnapshot
  <2>2. data[c] \in SUBSET Pipelines
    BY <1>0, <1>1, <2>1 DEF TypeInv, TypeOK, PersistPcs
  <2>3. /\ r \in GoodThread /\ r.pc = "writing" /\ r.cache = c /\ r.device = thread[Flusher].device
        /\ r.rev = thread[Flusher].rev
    BY <1>1, <2>1, <2>2 DEF GoodThread, ThreadState, Pcs, Resting
  <2>4. UNCHANGED <<table, pending, running, dirty, unsaved, todo, revision>>
    BY <1>5 DEF SyncSnapshot, flags, disk
  <2>. QED  BY <1>0, <2>1, <2>3, <2>4, FlusherGoesOn DEF PersistPcs
<1>6. CASE SyncFail(Flusher)
  BY <1>0, <1>6, FlusherReturns DEF SyncFail, PersistPcs, flags
<1>7. CASE SyncWrite(Flusher)
  <2>. DEFINE r == [thread[Flusher] EXCEPT !.pc = "saved"]
  <2>1. thread' = [thread EXCEPT ![Flusher] = r] /\ thread[Flusher].pc = "writing"
    BY <1>7 DEF SyncWrite, Become
  <2>2. /\ r \in GoodThread /\ r.pc = "saved" /\ r.cache = c /\ r.device = thread[Flusher].device
        /\ r.rev = thread[Flusher].rev
    BY <1>1, <2>1 DEF GoodThread, ThreadState, Pcs, Resting
  <2>3. UNCHANGED <<table, pending, running, dirty, unsaved, todo, revision>>
    BY <1>7 DEF SyncWrite, flags
  <2>. QED  BY <1>0, <2>1, <2>2, <2>3, FlusherGoesOn DEF PersistPcs
<1>8. CASE SyncFinish(Flusher)
  <2>1. /\ thread[Flusher].pc = "saved" /\ Return(Flusher) /\ dirty' \subseteq dirty
        /\ UNCHANGED <<table, pending, running, unsaved>>
        /\ c \in dirty' => revision[c] # thread[Flusher].rev
    BY <1>8 DEF SyncFinish, Unchanged, disk
  <2>2. running /\ c \in dirty' => pending
    BY <2>1 DEF FlushInv, FlusherAt, PersistPcs
  <2>. QED  BY <1>0, <2>1, <2>2, FlusherReturns DEF PersistPcs
<1>. QED  BY <1>2, <1>3, <1>4, <1>5, <1>6, <1>7, <1>8 DEF SyncNext

\* The flusher's own steps.
LEMMA FlusherFlush ==
    ASSUME FlushInv, LifeInv, FlusherNext
    PROVE  NothingForgotten' /\ FlusherAt'
<1>0. TypeInv /\ Flusher \in Threads /\ thread[Flusher] \in ThreadState
  BY DEF LifeInv, Threads, TypeInv, TypeOK
<1>1. CASE FlusherTake
  <2>1. thread'[Flusher].pc = "collect"
    BY <1>0, <1>1 DEF FlusherTake, Become, TypeInv, ThreadState
  <2>. QED  BY <2>1 DEF NothingForgotten, FlusherAt, PersistPcs
<1>2. CASE FlusherCollect
  <2>1. /\ thread'[Flusher].pc = "flushing" /\ todo' = {d \in Devices : table[d] \in dirty}
        /\ UNCHANGED <<table, dirty>>
    BY <1>0, <1>2 DEF FlusherCollect, DirtyDevices, Become, TypeInv, ThreadState, flags
  <2>. QED  BY <2>1 DEF NothingForgotten, FlusherAt, PersistPcs
<1>3. CASE FlusherDone
  <2>1. /\ thread'[Flusher].pc \in {"exited", "idle"} /\ thread[Flusher].pc = "flushing"
        /\ UNCHANGED <<table, dirty, running, pending, unsaved, todo>>
    BY <1>0, <1>3 DEF FlusherDone, Become, TypeInv, ThreadState, flags, disk
  <2>. QED  BY <2>1 DEF FlushInv, NothingForgotten, FlusherAt, PersistPcs
<1>4. CASE FlusherLast
  BY <1>4 DEF FlusherLast, NothingForgotten, FlusherAt
<1>5. ASSUME NEW d \in Devices, FlusherSync(d) PROVE NothingForgotten' /\ FlusherAt'
  <2>1. /\ UNCHANGED <<table, dirty, running, pending, unsaved, revision>> /\ thread[Flusher].pc = "flushing"
    BY <1>5 DEF FlusherSync, flags, disk
  <2>2. CASE table[d] = NoCache
    <3>1. NoCache \notin dirty
      BY <1>0, NullAssumption DEF TypeInv, TypeOK
    <3>2. todo' = todo \ {d} /\ thread' = thread
      BY <1>5, <2>2 DEF FlusherSync
    <3>. QED  BY <2>1, <2>2, <3>1, <3>2 DEF FlushInv, NothingForgotten, FlusherAt, PersistPcs
  <2>3. CASE table[d] # NoCache
    <3>1. /\ todo' = todo /\ thread'[Flusher].pc = "sync" /\ thread'[Flusher].device = d
          /\ thread'[Flusher].cache = table[d]
      BY <1>0, <1>5, <2>3 DEF FlusherSync, TypeInv, ThreadState
    <3>. QED  BY <2>1, <3>1 DEF FlushInv, NothingForgotten, FlusherAt, PersistPcs
  <2>. QED  BY <2>2, <2>3
<1>. QED  BY <1>1, <1>2, <1>3, <1>4, <1>5 DEF FlusherNext

LEMMA StepFlush == FlushInv /\ SaveInv /\ LifeInv /\ LifeInv' /\ [Next]_vars => FlushInv'
<1>. SUFFICES ASSUME FlushInv, SaveInv, LifeInv, LifeInv', [Next]_vars PROVE NothingForgotten' /\ FlusherAt'
  BY AliveStep DEF FlushInv
<1>1. TypeInv /\ TypeInv'
  BY DEF LifeInv
<1>2. ASSUME NEW t \in Apps, AppNext(t) \/ SyncNext(t) PROVE NothingForgotten' /\ FlusherAt'
  BY <1>1, <1>2, AppFlush
<1>3. CASE SyncNext(Flusher)
  BY <1>3, FlusherSaves
<1>4. CASE FlusherNext
  BY <1>4, FlusherFlush
<1>5. CASE Stop \/ UNCHANGED vars
  BY <1>1, <1>5, OtherStep DEF Stop, vars, flags, disk
<1>. QED  BY <1>2, <1>3, <1>4, <1>5 DEF Next, Threads

\* No dirty cache is forgotten: a flush is pending, or the flusher comes to it, or
\* its last save failed.
THEOREM FlushCorrect == Spec => []NothingForgotten
<1>1. FlushInv => NothingForgotten
  BY DEF FlushInv
<1>. QED  BY <1>1, SpecLife, SpecSave, InitFlush, StepFlush, PTL DEF Spec
=============================================================================
