--------------------------- MODULE PipelineCache ---------------------------
(***************************************************************************)
(* The persistent pipeline cache                                           *)
(* (src/layer/src/main/cpp/core/pipeline_cache_manager.cpp).               *)
(*                                                                         *)
(* Each device has a native VkPipelineCache of the layer's own, loaded     *)
(* from a file when the device is created, given to pipeline creations     *)
(* that bring none, and saved by a background thread, the flusher, and     *)
(* when the device is destroyed.  Application threads compile and merge at *)
(* the same time as the flusher takes snapshots.                           *)
(*                                                                         *)
(* Who holds which lock follows from what the threads are doing:           *)
(* cache_use_mutex is shared by compilations and exclusive for snapshots   *)
(* and merges; persistence_mutex spans a snapshot and its write.  Sections *)
(* under m_mutex or m_flusher_mutex are one action.                        *)
(***************************************************************************)
EXTENDS Naturals

CONSTANTS
    Caches,      \* DevicePipelineCacheState objects, each created at most once
    Devices,     \* VkDevice handles, which the driver may use again
    Paths,       \* cache files
    PathOf,      \* the file that resolve_cache_path gives to each cache
    Apps,        \* application threads
    Flusher,     \* the thread of flusher_thread_loop
    Pipelines,   \* what a cache can contain
    MaxRevision, \* bound: pipeline creations and merges of one cache
    NoCache      \* no entry in m_devices

ASSUME PathAssumption == PathOf \in [Caches -> Paths]
ASSUME DeviceAssumption == Devices # {}
ASSUME ThreadAssumption == Flusher \notin Apps
ASSUME NullAssumption == NoCache \notin Caches
ASSUME RevisionAssumption == MaxRevision \in Nat

Threads == Apps \cup {Flusher}

VARIABLES
    table,    \* m_devices
    stage,    \* whether the native cache of a state exists
    data,     \* external: what the native cache contains
    revision, \* DevicePipelineCacheState::revision
    dirty,    \* the states with is_dirty
    alive,    \* the states with alive
    pending,  \* m_has_pending_flush
    running,  \* m_flusher_running
    thread,   \* what each thread does
    todo,     \* devices_to_sync of the flusher
    file,     \* the files on disk: content, and history: the cache that wrote it
    marked,   \* history: the content that mark_dirty has announced
    unsaved   \* history: caches with a failed save and no mark_dirty since

flags == <<revision, dirty, pending>>
disk == <<file, marked, unsaved>>
vars == <<table, stage, data, flags, alive, running, thread, todo, disk>>

Idle == [pc |-> "idle", cache |-> NoCache, device |-> CHOOSE d \in Devices : TRUE,
         force |-> FALSE, rev |-> 0, content |-> {}]

Doing(t, c, pcs) == thread[t].pc \in pcs /\ thread[t].cache = c

\* cache_use_mutex and persistence_mutex of a state.
Compiling(t, c) == Doing(t, c, {"compiling"})
Exclusive(t, c) == Doing(t, c, {"merging", "reading", "snapshot"})
NoExclusive(c) == \A t \in Threads : ~Exclusive(t, c)
UseFree(c) == NoExclusive(c) /\ \A t \in Threads : ~Compiling(t, c)
Persisting(t, c) == Doing(t, c, {"locking", "snapshot", "writing", "saved"})

Init ==
    /\ table = [d \in Devices |-> NoCache]
    /\ stage = [c \in Caches |-> "unused"]
    /\ data = [c \in Caches |-> {}]
    /\ revision = [c \in Caches |-> 0]
    /\ dirty = {}
    /\ alive = {}
    /\ pending = FALSE
    /\ running = TRUE
    /\ thread = [t \in Threads |-> Idle]
    /\ todo = {}
    /\ \E old \in SUBSET Pipelines : file = [p \in Paths |-> [by |-> NoCache, content |-> old]]
    /\ marked = [c \in Caches |-> {}]
    /\ unsaved = {}

Become(t, pc) == thread' = [thread EXCEPT ![t].pc = pc]
Start(t, pc, d, c) == thread' = [thread EXCEPT ![t] = [Idle EXCEPT !.pc = pc, !.device = d, !.cache = c]]
Rest(t) == thread' = [thread EXCEPT ![t] = Idle]

\* mark_dirty, under m_flusher_mutex.
MarkDirty(c, added) ==
    IF c \in alive
    THEN /\ revision' = [revision EXCEPT ![c] = @ + 1]
         /\ dirty' = dirty \cup {c}
         /\ pending' = TRUE
         /\ marked' = [marked EXCEPT ![c] = @ \cup added]
         /\ unsaved' = unsaved \ {c}
    ELSE UNCHANGED <<flags, marked, unsaved>>

-----------------------------------------------------------------------------
(* The application creates a device, and destroys it when no other thread   *)
(* uses it.                                                                 *)

DeviceUnused(d) == \A t \in Apps : thread[t].pc # "idle" => thread[t].device # d

\* The file is read; an unreadable or incompatible one gives no content.
CreateLoad(t, d, c) ==
    /\ thread[t].pc = "idle" /\ DeviceUnused(d)
    /\ table[d] = NoCache /\ stage[c] = "unused"
    /\ stage' = [stage EXCEPT ![c] = "loading"]
    /\ \E content \in {file[PathOf[c]].content, {}} :
          thread' = [thread EXCEPT ![t] = [Idle EXCEPT !.pc = "loaded", !.device = d,
                                                       !.cache = c, !.content = content]]
    /\ UNCHANGED <<table, data, flags, alive, running, todo, disk>>

\* The driver may refuse the content; then the cache starts empty.
CreatePublish(t) ==
    LET c == thread[t].cache
    IN  /\ thread[t].pc = "loaded"
        /\ stage' = [stage EXCEPT ![c] = "live"]
        /\ alive' = alive \cup {c}
        /\ \E content \in {thread[t].content, {}} :
              /\ data' = [data EXCEPT ![c] = content]
              /\ marked' = [marked EXCEPT ![c] = content]
        /\ table' = [table EXCEPT ![thread[t].device] = c]
        /\ Rest(t)
        /\ UNCHANGED <<flags, running, todo, file, unsaved>>

\* Neither attempt to create the native cache succeeds.
CreateFail(t) ==
    /\ thread[t].pc = "loaded"
    /\ stage' = [stage EXCEPT ![thread[t].cache] = "destroyed"]
    /\ Rest(t)
    /\ UNCHANGED <<table, data, flags, alive, running, todo, disk>>

\* on_destroy_device finds the state and saves it first.
DestroyBegin(t, d) ==
    /\ thread[t].pc = "idle" /\ DeviceUnused(d) /\ table[d] # NoCache
    /\ thread' = [thread EXCEPT ![t] = [Idle EXCEPT !.pc = "sync", !.device = d,
                                                    !.cache = table[d], !.force = TRUE]]
    /\ UNCHANGED <<table, stage, data, flags, alive, running, todo, disk>>

DestroyErase(t) ==
    /\ thread[t].pc = "erase"
    /\ table' = [table EXCEPT ![thread[t].device] = NoCache]
    /\ Become(t, "retire")
    /\ UNCHANGED <<stage, data, flags, alive, running, todo, disk>>

\* Mutant: the native cache is destroyed without the exclusive lock.
RetireUnlocked(t) ==
    LET c == thread[t].cache
    IN  /\ thread[t].pc = "retire"
        /\ alive' = alive \ {c}
        /\ stage' = [stage EXCEPT ![c] = "destroyed"]
        /\ Rest(t)
        /\ UNCHANGED <<table, data, flags, running, todo, disk>>
DestroyRetire(t) ==
    LET c == thread[t].cache
    IN  /\ thread[t].pc = "retire"
        /\ UseFree(c)
        /\ alive' = alive \ {c}
        /\ stage' = [stage EXCEPT ![c] = "destroyed"]
        /\ Rest(t)
        /\ UNCHANGED <<table, data, flags, running, todo, disk>>

-----------------------------------------------------------------------------
(* Pipeline creation with the layer's cache, and merges with a cache of the *)
(* application.  MaxRevision bounds how many are begun.                     *)

MayBegin(t, d) ==
    /\ thread[t].pc = "idle" /\ table[d] # NoCache
    /\ \A u \in Apps : thread[u].device = d => thread[u].pc \notin {"sync", "locking", "snapshot",
                                                         "writing", "saved", "erase", "retire"}
    /\ revision[table[d]] < MaxRevision

\* prepare_pipeline_cache and lock_cache_for_creation.
CompileBegin(t, d) ==
    /\ MayBegin(t, d)
    /\ NoExclusive(table[d])
    /\ Start(t, "compiling", d, table[d])
    /\ UNCHANGED <<table, stage, data, flags, alive, running, todo, disk>>

\* Mutant: a cache that is dirty already asks for no other flush.
MarkOnce(c, added) ==
    /\ revision' = [revision EXCEPT ![c] = @ + 1]
    /\ dirty' = dirty \cup {c}
    /\ pending' = (pending \/ c \notin dirty)
    /\ marked' = [marked EXCEPT ![c] = @ \cup added]
    /\ unsaved' = unsaved \ {c}
Announce(c, added) == MarkDirty(c, added)

\* The native call returns.  A failed batch may have added content, which
\* nobody announces; on_pipelines_created announces that of a successful one.
CompileEnd(t, added, success) ==
    LET c == thread[t].cache
    IN  /\ thread[t].pc = "compiling"
        /\ data' = [data EXCEPT ![c] = @ \cup added]
        /\ IF success THEN Announce(c, added) ELSE UNCHANGED <<flags, marked, unsaved>>
        /\ Rest(t)
        /\ UNCHANGED <<table, stage, alive, running, todo, file>>

\* on_pre_destroy_app_pipeline_cache.
MergeBegin(t, d) ==
    /\ MayBegin(t, d)
    /\ UseFree(table[d])
    /\ Start(t, "merging", d, table[d])
    /\ UNCHANGED <<table, stage, data, flags, alive, running, todo, disk>>

MergeEnd(t, added) ==
    LET c == thread[t].cache
    IN  /\ thread[t].pc = "merging"
        /\ data' = [data EXCEPT ![c] = @ \cup added]
        /\ thread' = [thread EXCEPT ![t].pc = "marking", ![t].content = added]
        /\ UNCHANGED <<table, stage, flags, alive, running, todo, disk>>

MergeMark(t) ==
    /\ thread[t].pc = "marking"
    /\ Announce(thread[t].cache, thread[t].content)
    /\ Rest(t)
    /\ UNCHANGED <<table, stage, data, alive, running, todo, file>>

\* on_post_create_app_pipeline_cache copies out of the layer's cache.
ReadBegin(t, d) ==
    /\ MayBegin(t, d)
    /\ UseFree(table[d])
    /\ Start(t, "reading", d, table[d])
    /\ UNCHANGED <<table, stage, data, flags, alive, running, todo, disk>>

ReadEnd(t) ==
    /\ thread[t].pc = "reading"
    /\ Rest(t)
    /\ UNCHANGED <<table, stage, data, flags, alive, running, todo, disk>>

-----------------------------------------------------------------------------
(* sync_device_cache_to_disk, called by the flusher and by destruction.     *)

\* The caller goes on: the flusher with its other devices.
Return(t) ==
    IF t = Flusher
    THEN /\ todo' = todo \ {thread[t].device}
         /\ thread' = [thread EXCEPT ![t] = [Idle EXCEPT !.pc = "flushing", !.force = thread[t].force]]
    ELSE /\ Become(t, "erase")
         /\ UNCHANGED todo

\* Mutant: the persistence mutex is not taken.
PersistUnlocked(c) == TRUE
PersistFree(c) == \A t \in Threads : ~Persisting(t, c)

\* persistence_mutex; the state found stays in hand, whatever its device does.
SyncPersist(t) ==
    /\ thread[t].pc = "sync"
    /\ PersistFree(thread[t].cache)
    /\ Become(t, "locking")
    /\ UNCHANGED <<table, stage, data, flags, alive, running, todo, disk>>

\* Then cache_use_mutex, the tests, the revision.
SyncLock(t) ==
    LET c == thread[t].cache
    IN  /\ thread[t].pc = "locking"
        /\ UseFree(c)
        /\ IF c \in alive /\ (thread[t].force \/ c \in dirty)
           THEN /\ thread' = [thread EXCEPT ![t].pc = "snapshot", ![t].rev = revision[c]]
                /\ UNCHANGED todo
           ELSE Return(t)
        /\ UNCHANGED <<table, stage, data, flags, alive, running, disk>>

\* vkGetPipelineCacheData; a cache with no more than its header is not saved.
SyncSnapshot(t) ==
    LET c == thread[t].cache
    IN  /\ thread[t].pc = "snapshot"
        /\ data[c] # {}
        /\ thread' = [thread EXCEPT ![t].pc = "writing", ![t].content = data[c]]
        /\ UNCHANGED <<table, stage, data, flags, alive, running, todo, disk>>

\* Mutant: a save that failed is tried again.
SyncRetry(t) ==
    /\ thread[t].pc \in {"snapshot", "writing"}
    /\ unsaved' = unsaved \cup {thread[t].cache}
    /\ Become(t, "sync")
    /\ UNCHANGED <<table, stage, data, flags, alive, running, todo, file, marked>>
\* The driver gives no data, or the write fails and leaves the file alone.
SyncFail(t) ==
    /\ thread[t].pc \in {"snapshot", "writing"}
    /\ unsaved' = unsaved \cup {thread[t].cache}
    /\ Return(t)
    /\ UNCHANGED <<table, stage, data, flags, alive, running, file, marked>>

\* write_cache_data_to_file: a file of its own, renamed over the old one.
SyncWrite(t) ==
    LET c == thread[t].cache
    IN  /\ thread[t].pc = "writing"
        /\ file' = [file EXCEPT ![PathOf[c]] = [by |-> c, content |-> thread[t].content]]
        /\ Become(t, "saved")
        /\ UNCHANGED <<table, stage, data, flags, alive, running, todo, marked, unsaved>>

\* Mutant: the revision is not compared.
CleanAlways(t) == TRUE
Unchanged(t) == revision[thread[t].cache] = thread[t].rev

SyncFinish(t) ==
    /\ thread[t].pc = "saved"
    /\ dirty' = IF Unchanged(t) THEN dirty \ {thread[t].cache} ELSE dirty
    /\ Return(t)
    /\ UNCHANGED <<table, stage, data, revision, pending, alive, running, disk>>

-----------------------------------------------------------------------------
(* flusher_thread_loop.                                                     *)

\* Mutant: the states are collected, not the devices.
DirtyStates == {table[d] : d \in Devices} \cap dirty
DirtyDevices == {d \in Devices : table[d] \in dirty}

\* The quiet period is over: the pending flag is taken back.
FlusherTake ==
    /\ thread[Flusher].pc = "idle" /\ running /\ pending
    /\ pending' = FALSE
    /\ Become(Flusher, "collect")
    /\ UNCHANGED <<table, stage, data, revision, dirty, alive, running, todo, disk>>

FlusherCollect ==
    /\ thread[Flusher].pc = "collect"
    /\ todo' = DirtyDevices
    /\ Become(Flusher, "flushing")
    /\ UNCHANGED <<table, stage, data, flags, alive, running, disk>>

\* The device may have been destroyed since, and its handle used again.
FlusherSync(d) ==
    /\ thread[Flusher].pc = "flushing" /\ d \in todo
    /\ IF table[d] = NoCache
       THEN todo' = todo \ {d} /\ UNCHANGED thread
       ELSE /\ thread' = [thread EXCEPT ![Flusher].pc = "sync", ![Flusher].device = d,
                                        ![Flusher].cache = table[d]]
            /\ UNCHANGED todo
    /\ UNCHANGED <<table, stage, data, flags, alive, running, disk>>

FlusherDone ==
    /\ thread[Flusher].pc = "flushing" /\ todo = {}
    /\ Become(Flusher, IF thread[Flusher].force THEN "exited" ELSE "idle")
    /\ UNCHANGED <<table, stage, data, flags, alive, running, todo, disk>>

\* stop_flusher_thread, when the process exits.
Stop ==
    /\ running
    /\ running' = FALSE
    /\ UNCHANGED <<table, stage, data, flags, alive, thread, todo, disk>>

\* The last pass saves what is dirty, come what may.
FlusherLast ==
    /\ thread[Flusher].pc = "idle" /\ ~running
    /\ todo' = DirtyDevices
    /\ thread' = [thread EXCEPT ![Flusher].pc = "flushing", ![Flusher].force = TRUE]
    /\ UNCHANGED <<table, stage, data, flags, alive, running, disk>>

-----------------------------------------------------------------------------
AppNext(t) ==
    \/ \E d \in Devices, c \in Caches : CreateLoad(t, d, c)
    \/ CreatePublish(t)
    \/ CreateFail(t)
    \/ \E d \in Devices : DestroyBegin(t, d)
    \/ DestroyErase(t)
    \/ DestroyRetire(t)
    \/ \E d \in Devices : CompileBegin(t, d)
    \/ \E added \in SUBSET Pipelines, success \in BOOLEAN : CompileEnd(t, added, success)
    \/ \E d \in Devices : MergeBegin(t, d)
    \/ \E added \in SUBSET Pipelines : MergeEnd(t, added)
    \/ MergeMark(t)
    \/ \E d \in Devices : ReadBegin(t, d)
    \/ ReadEnd(t)

SyncNext(t) ==
    \/ SyncPersist(t)
    \/ SyncLock(t)
    \/ SyncSnapshot(t)
    \/ SyncFail(t)
    \/ SyncWrite(t)
    \/ SyncFinish(t)

FlusherNext ==
    \/ FlusherTake
    \/ FlusherCollect
    \/ \E d \in Devices : FlusherSync(d)
    \/ FlusherDone
    \/ FlusherLast

Next ==
    \/ \E t \in Apps : AppNext(t)
    \/ \E t \in Threads : SyncNext(t)
    \/ FlusherNext
    \/ Stop

Spec == Init /\ [][Next]_vars

\* A thread inside the manager goes on and gets the lock it asks for although
\* others take it in between (strong fairness); the quiet period after the last
\* pipeline ends.  Nothing obliges the application to call.
AppStep(t) ==
    \/ CreatePublish(t) \/ CreateFail(t)
    \/ DestroyErase(t) \/ DestroyRetire(t)
    \/ \E added \in SUBSET Pipelines, success \in BOOLEAN : CompileEnd(t, added, success)
    \/ \E added \in SUBSET Pipelines : MergeEnd(t, added)
    \/ MergeMark(t) \/ ReadEnd(t)

Fairness ==
    /\ \A t \in Apps : SF_vars(AppStep(t) \/ SyncNext(t))
    /\ SF_vars(FlusherNext \/ SyncNext(Flusher))

\* A shared_mutex of libc++ lets no reader in once a writer waits, so
\* compilations do not overlap for ever.
Quiet == \A c \in Caches : []<>(\A t \in Apps : ~Compiling(t, c))

FairSpec == Spec /\ Fairness /\ Quiet

-----------------------------------------------------------------------------
(* Properties.                                                              *)

Pcs == {"idle", "loaded", "sync", "locking", "snapshot", "writing", "saved", "erase", "retire",
        "compiling", "merging", "marking", "reading", "collect", "flushing", "exited"}

ThreadState == [pc : Pcs, cache : Caches \cup {NoCache}, device : Devices,
                force : BOOLEAN, rev : Nat, content : SUBSET Pipelines]

\* Every variable stays in its type.
TypeOK ==
    /\ table \in [Devices -> Caches \cup {NoCache}]
    /\ stage \in [Caches -> {"unused", "loading", "live", "destroyed"}]
    /\ data \in [Caches -> SUBSET Pipelines]
    /\ revision \in [Caches -> Nat]
    /\ dirty \subseteq Caches
    /\ alive \subseteq Caches
    /\ pending \in BOOLEAN
    /\ running \in BOOLEAN
    /\ thread \in [Threads -> ThreadState]
    /\ todo \subseteq Devices
    /\ file \in [Paths -> [by : Caches \cup {NoCache}, content : SUBSET Pipelines]]
    /\ marked \in [Caches -> SUBSET Pipelines]
    /\ unsaved \subseteq Caches

\* "Vulkan requires host access to a VkPipelineCache to be externally
\* synchronized" (the header): while one thread merges or takes a snapshot nobody
\* else is inside the driver with that cache, and nobody is there once the cache
\* is destroyed, the flusher that found the state before its device went included.
NativeAccessSafe ==
    \A c \in Caches, t \in Threads :
       /\ Exclusive(t, c) => \A u \in Threads \ {t} : ~Exclusive(u, c) /\ ~Compiling(u, c)
       /\ Exclusive(t, c) \/ Compiling(t, c) => stage[c] = "live"

\* A cache that is not dirty is on disk: all that was loaded and announced is in
\* its file, whatever was compiled or merged during the save (revision).
OnDisk(c) ==
    (c \in alive /\ c \notin dirty) => marked[c] \subseteq file[PathOf[c]].content
OwnFile(c) == \A e \in Caches \ {c} : PathOf[e] # PathOf[c]
CleanMeansSaved == \A c \in Caches : OwnFile(c) => OnDisk(c)

\* The same with no regard to who else writes the file: what "safely flushing
\* newly compiled pipelines to storage" says of two devices of one GPU.
EveryCleanCacheSaved == \A c \in Caches : OnDisk(c)

\* Saves of one cache reach the file in the order of their snapshots: a later one
\* never takes content away (persistence_mutex).
FileNeverGoesBack ==
    [][\A p \in Paths : (file'[p].by = file[p].by) => file[p].content \subseteq file'[p].content]_vars

\* A dirty cache is never forgotten: a flush is pending, or the flusher is on
\* its way to it, or its last save failed and nothing was compiled since.
NothingForgotten ==
    \A d \in Devices : (running /\ table[d] \in dirty) =>
       \/ pending
       \/ thread[Flusher].pc = "collect"
       \/ d \in todo
       \/ table[d] \in unsaved

\* What is dirty is saved in the end, unless a save fails, the device goes or
\* the process exits.
DirtSaved ==
    \A c \in Caches : (c \in dirty) ~> (c \notin dirty \/ c \in unsaved \/ c \notin alive \/ ~running)

\* Every call into the manager returns; no order of its locks makes threads wait
\* for each other.
ThreadsReturn == \A t \in Apps : (thread[t].pc # "idle") ~> (thread[t].pc = "idle")
=============================================================================
