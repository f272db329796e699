# A verification of VulkanFix

VulkanFix (`src/layer/src/main/cpp`) is a Vulkan compatibility layer for Android.
It sits between an application and an old driver and supplies what the driver
lacks: timeline semaphores, dynamic rendering, push descriptors, a swapchain, a
persistent pipeline cache. Part of it is translation of structures; the part this
project is about is the part with *state that several threads share*.

The modules are TLA+; TLC checks them on small instances and TLAPS proves theorems
about them for every value of the constants. `PROJECT.json` holds the lists: the
components, the runs, the lines each definition models, the hazards, the theorems.

## 1. Inventory

| component | state | operations | hard behaviour |
|---|---|---|---|
| **Timeline scheduler** `core/timeline_scheduler.cpp` | per device: staged and pending jobs of each queue, counters and releases of timelines, epochs of binary semaphores, a failure flag | enqueue (submit, bind sparse), the worker's poll and dispatch, counter, wait, signal, queue and device idle, before and after a present, start, stop | a worker thread against application threads; two kinds of lock (mutex, io) taken in opposite orders; out-of-order submission to several queues; partial failure; device loss |
| Legacy timeline semaphores `modules/vulkan_1_2/timeline_semaphore.cpp` | counters, pending signals with fences, a pool of fences | submit, wait, signal, idle | pending signals published after the native submission; one fence for several semaphores |
| Swapchain emulation `modules/vulkan_1_0/swapchain.cpp` | images and their state | acquire, present, destroy | reenters the scheduler while it holds a queue |
| Persistent pipeline cache `core/pipeline_cache_manager.cpp` | a native cache, a revision and a dirty flag for each device; the file | create device, create pipelines, merge, background flush, destroy device | flusher thread against compilation and destruction; writes that fail; several devices and one file |
| Native-support cache `core/device_native_cache.h` | a revision, a device, a flag, all atomic | lookup, remember, invalidate | a reader that takes no lock |
| Layer manager `core/layer_manager.{h,cpp}` | dispatch tables, routing maps, bypass flags, thread-local copies | every dispatched call; create and destroy device | copies that are out of date; handles that are used again |
| Driver trust, probe process | verdicts by driver; a child process | one probe for many callers; a deadline | re-entrance, time-out, exceptions |
| Vulkan entry points `vulkan_entry.cpp` | none of their own; which functions may be the driver's own | every exported function; lookups through the instance and the device | a rule per name, kept apart from the modules that must see the call |
| Barrier optimiser `core/tbdr_barrier_optimizer.cpp` | a tracker for each command buffer, a thread-local copy | begin, action, barrier, free | copies that are out of date |
| Imageless framebuffers | synthetic framebuffers, real ones by key | create, resolve, destroy | real framebuffers shared but owned by one |
| Recording state: push descriptors, dynamic rendering, divisor, indirect draws, vertex stores | shadow state of each command buffer, caches, pools | bind, push, draw, begin and end rendering, reset | long sequences of legal calls; failed allocations in the middle |
| Feature queries and device creation `core/promoted_features.cpp`, hooks of the modules | the application's chain of structures while a call handles it | query, enumerate, create | structures unlinked and relinked by many hooks; what is promised must be kept |
| Extension dependencies | none (a pure resolver) | close the set of extensions | recursion with alternatives and cycles |
| Structure translation, shader rewriting, diagnostics, packaging | none, or maps behind one lock | pure functions | not a subject for model checking |

How they interact. `vulkan_entry.cpp` receives the call and hands it to
`LayerManager`, which finds the device of the handle, runs the hooks of the modules
and calls the driver. A submission goes to the scheduler when it is active
(`dispatch_queue_submit`), else through the legacy module. A present is bracketed:
`before_present`, the native or emulated present inside `native_queue_call`,
`after_present`. The emulated present calls back into the scheduler
(`submit_internal`, `queue_idle`) with the queue's io lock taken. Device creation
starts the scheduler and the pipeline cache, destruction stops them first.

What makes each correct:
- scheduler: counters only show finished work, never go back, lose no signal; the
  driver sees binary operations in a legal order; private objects live as long as
  the GPU uses them; failed calls leave no trace; nothing waits for ever;
- pipeline cache: the native handle is never used by two in conflict nor after its
  destruction; "not dirty" means "on disk"; the file is always whole and never goes back;
- native-support cache: a lookup that answers, answers for the device asked about;
- dispatch tables: a call on a live device never uses the table of another;
- barrier optimiser: a dropped barrier is equal to one with no action in between;
- framebuffers: a real framebuffer outlives every command that was recorded with it;
- recording state: the shadow state equals what the driver holds;
- entry points: whoever must see a call sees it, whatever pointer it came through;
- device creation: what was advertised is accepted, and done by the driver or a module;
- driver trust: a verdict is true, and everybody who asks is answered.

## 2. Plan

The most important behaviour first: threads that share state, then objects that outlive
their use, then what a command buffer records, then what is promised at creation.

| module | models | state of the work |
|---|---|---|
| `TimelineScheduler` | the scheduler, with presents and idles | checked; all safety proved |
| `PipelineCache` | the cache manager and its flusher | checked; all safety proved |
| `NativeCache`, `NativeSupport` | the lock-free reader, and what it implements | checked; all safety and the refinement proved |
| `BarrierDedup` | the barrier optimiser | checked; all proved |
| `TimelineLegacy` | timeline semaphores without the scheduler | checked and proved |
| `DispatchTables` | tables, fast path and routing while devices come and go | checked and proved |
| `EntryPoints` | what each exported function consults, what each lookup returns | checked and proved |
| `DriverTrust` | the single-flight memo, the workers, the deadline | checked; all safety proved |
| `RenderingCache`, `ImagelessFramebuffers` | objects made late and shared | checked and proved |
| `TilerSplit`, `PushDescriptors` | what a command buffer records | checked and proved |
| `DrawEmulation` | one call as many draws | checked and proved |
| `DeviceFeatures`, `ExtensionDependencies`, `Chains` | queries, device creation, the closure of extensions | checked |

**Composition by parts.** Modules that share no state are hosted by one MC module: a variable
`part` is chosen by the initial states and never changes, and only the module it names
takes steps. So one run explores each module from all of its own initial states, and never
the product, in which the modules could not meet anyway. Where components do interact
(scheduler and present, legacy fallback and fences, three modules in the way of one draw,
queries and creation and closure) they are in one module or use each other by `INSTANCE`.

**Left to do.** In the scheduler: `device_idle`, `stop`, semaphores that come and go; an abstract `TimelinePromise` (a submission is a set of counters that become
visible together, in order) that both it and `TimelineLegacy` implement. Modules not begun:
host query reset (a context that is half made when an allocation fails), the images of
the emulated swapchain, the lowering of synchronization2 and of a rendering's attachments.

## 3. The timeline scheduler

`TimelineScheduler` models `core/timeline_scheduler.cpp` for one device.

**State.** A job is in one of five stages: not created, in the transaction of an
enqueue, in `Queue::staged`, in `Queue::pending`, or retired. `timeline` is
`Semaphore{value, release}`, `acquired` the flags `Release::acquired`, `order` the
`BinaryOrder` of each semaphore, `failed` is `Device::failure` (and
`release_resources`, set by the same function). `txn` is the transaction and the
`Reservation` of an enqueue that is half done. `call` is what a present or a queue idle
is doing on each queue, hence who holds `Queue::io`, and `fenceWait` a thread in `vkWaitForFences`, with
`Device::fence_io` or without. Three variables stand for the
driver and the GPU (`native`, `complete`, `nat`), two are history (`waited`,
`hostValue`). A release needs no object of its own: the job and the timeline name it,
and the slot of a token is its queue and device index. Ids of jobs grow in the order of
enqueue, so they are also the order of the two lists.

**Steps.** What the code does under `Device::mutex` is one action, with one exception:
`enqueue` is one action for each batch (`EnqueueBegin`, `EnqueueBatch`, then
`EnqueueCommit`, `EnqueueCommitFence` or `EnqueueFail`), so that a failure can come after
any of them. The mutex stays taken in between (`MutexFree`). `Poll(done)` is a
pass of the worker or of `counter` or `wait`: the GPU runs during the pass, so it
publishes *any* non-empty set of the finished jobs. `Dispatch` is the whole of `dispatch`,
with both try_locks; `DispatchFail` its failure. A present is `PresentBegin` (up to the
sleep), `PresentReserve` (after it), `PresentNative` or `PresentEmulated` (the call, with
io taken), `PresentIdle` or `PresentIdleFail` (the idle nested in an emulated present), `AfterPresent`.
`queue_idle` is `IdleBegin`, `IdleLock`, `IdleEnd` or `IdleFail`. `CallFail` wakes the
sleepers of a lost device. `Acquire` is the emulated acquire. A wait for a fence is
`FenceWait`, then `FenceProbe` and `FenceProbed` in each turn of its loop, of which only the look at the
fence is made with `fence_io`; it ends with the signal, with `FenceTimeout` or with `FenceError`. One
thread waits for one fence: `vkWaitForFences` looks at several one after the other, in the same way.

**The application** keeps Vulkan's rules, and the model relies on these: values of a
timeline's signals are enqueued in growing order; a host signal is below the signals still pending; a binary wait
has its signal, a binary signal finds the previous one waited for; one thread at a time
uses a queue. The operators that say so (`ValidBatch`, and guards of `HostSignal`,
`PresentBegin`, `Acquire`) are in the module's section on the application or commented
where they stand. `Vk` calls that a rule forbids are not modelled. One order that Vulkan allows is left out as well:
to enqueue the signal of a greater value of a timeline, in a batch that waits for a smaller one, before the signal of the
smaller one. A wait may be enqueued before the signal it is for.

**Properties** and what would break them: see the comments in the module. In short,
`CounterJustified` and `CountersGrow` are the promise of the counters; `TokensWaitedOnce`
and `FirstAcquireCovers` are the two halves of "each queue acquires a release exactly
once"; `PrivateObjectsOutliveUse` is the ownership of fences and tokens by
`shared_ptr`; `FenceCoversSubmission` is the promise of the application's fence;
`BinaryAlternates` and `NoOrphanEpoch` are the order of binary semaphores across
queues, failed calls and presents; `NothingStagedBehindIo` is why the worker's try_lock
cannot fail for ever; `EveryJobRetires` and `CallsReturn` are the liveness.

**Runs.**

| run | instance | shows |
|---|---|---|
| `tokens` | 2 queues, 1 timeline, 3 jobs, idles, host signals, a sparse bind, fences; and the part `legacy` of section 6 | counters, tokens, ownership, fences |
| `binary` | 2 queues, 1 binary semaphore with up to 2 epochs, 3 jobs, presents, idles and acquires; a present succeeds or is out of memory | alternation and epochs; nothing staged behind io |
| `live_calls` | part `calls`: 2 jobs, presents with every result, idles, failures; part `jobs`: 3 jobs that depend on one another over 2 queues, 1 timeline, 1 binary, and waits for the fence of the third | liveness of calls, waits for fences and jobs, and of a chain of dependences |
| `refused_submit` | `binary` with an internal submission that may be refused | a disagreement, below |

The exact constants are in the `.cfg` and `MC` files. Two queues are enough for every
interaction of queues in the code, which compares a queue only with itself. Three jobs
let a signal, a wait and a second signal meet in any order, and let a release be replaced
while a batch still holds it. Bounds: `MaxJobs` counts jobs over a behaviour, `MaxEpoch`
the uses of a binary semaphore. Deadlock is off because the application may stop calling.
The three parts of the batch space (tokens, binaries, liveness) are separate runs since
their product is beyond five minutes; a fourth job doubles the time of each. `tokens` and `binary` have a `VIEW`
that forgets of a dispatched or retired job what no step and no property reads any more: what it waited for,
what it kept alive and, in `binary`, its epochs, which are counted by then. `live_calls` has none.
`binary` takes the steps of `SchedulerNext`: nobody waits for fences in it.

**Fairness** (`FairSpec`). The worker's loop sleeps at most 1 ms and retries, so what stays
possible for it is done. Every step needs `Device::mutex`, which other steps
release and take again: the fairness is strong, i.e. a thread that asks again and again
gets the mutex. The same does not hide a starving `try_lock`: a thread that holds io does
so with nothing staged on that queue (`NothingStagedBehindIo`), so the worker needs no luck. The `try_lock`
of `fence_io` is another matter: a thread that waits for a fence takes that lock about every millisecond for the length of one
`vkGetFenceStatus`, and the fairness of `Dispatch` says that the worker does not meet it every time. A
thread that kept the lock while it waits would stop the worker for good, which is the mutant `FenceProbedLate`.
`EveryJobRetires` and `CallsReturn` say `[]<>` of being over: what begins ends, each time.
The driver runs what it was given. No failure is obliged to happen, and the application is not obliged to call. The live
runs use `LiveSpec`: `FairSpec` with `SignalsFirst`, by which the application enqueues a
signal before the batches that wait for it and leaves a present's semaphores alone
until the present is over; without it an application can wait for what it never signals.

**A disagreement** (run `refused_submit`). `after_present` relies on "only the native present
call has actually submitted this wait". The emulated present submits the wait with
`submit_internal` and ignores the result (`swapchain.cpp:760`). If the driver refuses
it, the wait is counted although it never happened, and the next signal is given to the
driver with the previous one unwaited for.

## 4. The persistent pipeline cache

`PipelineCache` models `core/pipeline_cache_manager.cpp` for several devices, and the
hooks of `LayerManager` that call it.

**State.** A member of `Caches` is a `DevicePipelineCacheState`; `stage` says whether its
native cache exists, `data` what that contains, `revision`, `dirty`, `alive` are its
fields, `table` is `m_devices`. The state outlives its entry in the table, as with the
`shared_ptr`: a thread keeps the state it found (`thread[t].cache`). `pending`, `running`
are the flags of the flusher. `thread[t]` holds the locals of a thread, and its `pc`
says which locks it has: `Compiling` is the shared lock of `cache_use_mutex`,
`Exclusive` the exclusive one, `Persisting` `persistence_mutex`. `file` is the disk.
`marked`, `unsaved` and the writer of a file are history.

**Steps.** A section under `m_mutex` or `m_flusher_mutex` is one action. A native call and
a write end in an action of their own, so that anything may come in between: `CompileBegin`
and `CompileEnd`, `MergeBegin`, `MergeEnd` and `MergeMark` (the mark comes after the lock is released),
`ReadBegin` and `ReadEnd`, `CreateLoad` and `CreatePublish` or `CreateFail`. A save is `SyncPersist`,
`SyncLock`, `SyncSnapshot`, `SyncWrite`, `SyncFinish`, or `SyncFail` where the driver or
the disk says no; the flusher and `on_destroy_device` both make it, and `Return` is where
each goes on. The flusher takes the flag (`FlusherTake`), collects *devices*
(`FlusherCollect`) and looks each up again (`FlusherSync`), so a handle may have changed its
owner. The 2.5 s of quiet is the freedom of `FlusherTake` to wait.

**Data.** Content is a set of pipelines. A file that is missing, short or of another driver
gives no content, and so may the driver. `SyncWrite` replaces the file in one step: the
code writes a file of its own and renames it. A crash of the process between two steps
is a behaviour that stops there; what the file system loses without fsync is
outside. Which file `resolve_cache_path` finds is the constant `PathOf`.

**The application** destroys a device when none of its threads uses it (`DeviceUnused`,
`MayBegin`).

**Runs.**

| run | instance | shows |
|---|---|---|
| `pipeline` | 2 caches with a file each, 1 device handle that both use in turn, 2 threads, 2 revisions; and the parts `features` and `closure` of section 9 | locks, lifetime, no dirty cache forgotten |
| `pipeline_live` | 1 cache, 2 pipelines, 2 threads, 2 revisions | clean means saved; the file never loses content; dirt is saved, calls return |
| `pipeline_shared` | 2 devices, 1 file that is empty at first | a disagreement, below |

`pipeline` takes threads, and caches with their files, to be interchangeable (`DeviceSymmetry`); it has no temporal property.
One handle used twice is the case in which the flusher's list is out of date; two threads
and the flusher are three users of one lock, of which each pair is of a different kind.
`MaxRevision` bounds the creations and merges that begin on one cache: two, so that one can
come before a snapshot and one during its write. Marks are finite for that reason: an application whose
marks restart the 2.5 s for ever (`pipeline_cache_manager.cpp:93`) puts its save off for ever, and `DirtSaved` says
nothing of it.

**Fairness.** A thread inside the manager goes on (strong fairness, since a lock may be
taken by others in between). A native call ends. The flusher asks for the lock that
compilations share: `Quiet` assumes that they do not overlap for ever. `std::shared_mutex` of
libc++ lets no reader in once a writer waits, so the code's platform grants this;
the C++ standard does not.

**A disagreement** (run `pipeline_shared`). The class comment promises to flush "newly
compiled pipelines to storage", but `resolve_cache_path` gives all devices of a process
one file, and a save replaces it with the snapshot of one device. A cache
that was saved and marked clean is gone from the file when another device is saved.
`CleanMeansSaved` is therefore stated for caches with a file of their own.

## 5. The native-support cache

`NativeCache` models `core/device_native_cache.h` with the calls of
`core/extension_module_base.h` that use it. Every Vulkan call that a module intercepts
asks it whether the device supports its extension natively; the answer is read without a
lock when the cache holds that device.

**State.** `known` is the map `m_device_native`; `revision`, `device`, `native` are the three
atomics; `thread[t]` holds the locals of a thread and, in `pc`, where it is and thereby
which of `m_ext_mutex` (`Shared`, `Exclusive`) and `m_writer` (`Writing`) it has.

**Steps.** The atomics are sequentially consistent, so each load or store is one action: a
query is `Ask`, `LookupRevision`, `LookupDevice`, `LookupNative`, `LookupCheck`, and on
a miss `Find`, `RememberTest`, `RememberLock`, `RememberOpen`, `RememberNative`,
`RememberDevice`, `RememberClose`; the answer goes back with `Return`. `Created` and
`Destroyed` change the map under the exclusive lock and go on with the five
`Invalidate` steps.

**The application** does not use a handle while it is created or destroyed (`Using`).
The driver may give the handle of a destroyed device to a new one, of which `known` may say
something else.

**The abstract specification** `NativeSupport` has a map and calls; a query is one step
between its call and its return. The refinement mapping takes `native` to `known` and
reads the state of a call off the `pc` (`CallOf`): it is asked until it has stopped
reading. That `Created` publishes in the map before it invalidates is the `Record` step.

**Runs.**

| run | instance | shows |
|---|---|---|
| `native` | 2 devices, 2 threads, revision up to 5; and the part `trust` of section 10 | true answers, no entry without its device, the refinement, calls return |

Two threads are a reader and a writer, or two readers that both miss; readers do not touch
one another, and the theorems below hold for any number of threads. `MaxRevision` only
stops new creations: from it on, the devices that are left can still be destroyed. An
invalidation and a publication add two each, so 5 leaves room for a publication, a
destruction or creation of the same handle, and a second publication, during one read. The type of `revision` is the
naturals: the code's 64 bits would have to wrap during one query.

**Fairness.** A thread inside the module goes on, strongly, since it takes locks that others
take and release. Nothing obliges the application to call.

## 6. Timeline semaphores without the scheduler

`TimelineLegacy` models `modules/vulkan_1_2/timeline_semaphore.cpp` for one device: what
serves an application when the scheduler could not be started.

**State.** `state` is `m_timeline_semaphores` (counter, error, pending entries with a
fence each), `lock` its mutexes, `pool` `m_fence_pool`, `fence` the driver's view of each
private fence, `gpu` what each queue has still to finish, `thread` the locals of calls.
`issued`, `finished`, `hosted` and `fenced` are history. The reference count of a
`FenceHolder` is not a variable: `Refers` says who refers to a fence.

**Steps.** A look at a semaphore is `Look` (take its mutex), one `CheckEntry` for each
`vkGetFenceStatus`, `CheckEnds`, so the GPU goes on between two entries of one list. A
submission is `SubmitBegins`, host waits as above, `AcquireFence`, `NativeSubmit`, one
`Push` for each value, `PushEnds` with the application's fence in a submission of its own.
A call that fails before that has signalled nothing (`Fails`).
`IdleBegins`, `Sweep`, `IdleEnds` are the two idles; `Destroy` and `DestroyDevice` the end.

**Property.** `LegacySound` is three facts. A counter shows only what the host signalled or
the GPU finished. A finished value can be found by whoever looks next: it is in the
counter, with a signaled fence, or in the hand of a call that has not returned, and after the
application's fence never in the last. A fence in the pool is reset and stands for nothing; no other is leaked.

**Run.** The part `legacy` of `tokens`: 2 semaphores, 2 threads, 2 queues, 2 fences, at most
3 signalled values (`MaxSignals`; the theorem of section 12 needs none of these bounds). One submission signals both semaphores by one fence, one waits
for one and signals the other; a second value of the first can go to the other queue. With
two fences the pool is empty when both are under way. More threads would
only be more readers of a list behind a mutex.

**The application** gives no value a later batch of the *same* call that waits for an
earlier one: the fallback waits on the host before it submits anything, and would wait
for ever. Semaphores created while others run are left out.

## 7. Barriers, draws and routing

Three modules, checked by `barriers` through `MCBarrierDedup`.

### `BarrierDedup`

Models `core/tbdr_barrier_optimizer.*` and the calls that feed it. `object` are the
`CmdTracker`s, `map` is `m_trackers`, `cache[t]` the three thread-locals by which an action
is marked without the mutex (`ActionFast`) or with it (`ActionSlow`). A tracker's memory is used again once
no `shared_ptr` is left (`Unused`), a handle once it is freed, and a
generation once it wraps: these are the ways in which the copy of a thread could
mean another recording. `ActionFails` is a failed allocation, which turns the optimiser
off for good. `last` is what the driver recorded last, the truth that the properties use.

`DropsOnlyDuplicates`: a barrier is dropped only if it repeats what the driver recorded last
in this recording. `CacheReachesMap`: a live tracker in a thread's cache is the one
of the map, i.e. what is marked without the mutex is what a barrier reads. Both are proved (section 12).

### `DrawEmulation`

One command buffer with negative viewports, divisors and cut indirect draws, in the order in
which `LayerManager` asks the modules. `DrawsSound` is of every draw: it is turned over
exactly if the viewport its shader chooses is negative; every instance is drawn once, in
order, with its own element of each divided attribute; and the bindings afterwards are those of
the application. `DrawSound`'s comment lists what it excludes; these are cases in which the code
does not do so: a variant that could not be made (drawn unflipped) or was left with a reused handle,
because `dispatch_destroy_pipeline` does not tell the module; mixed signs with a shader that
chooses; division of a draw that is turned over; buffers bound before the first pipeline
with a divisor; and indirect draws of a pipeline with divisors, which the code only warns of
(`layer_manager.cpp:2158`). A refused mixed `set_viewport` leaves `m_cmd_negative` as it was, so a later
pipeline with constant index can flip a positive viewport although `src/README.md:53` says
a positive viewport is never flipped; and with `firstInstance` other than 0 the code's element is
instance/divisor, which is why the model's divided draws begin at 0. The module also forgets the
variants of all devices when one goes (`negative_viewport.cpp:103`), which a model of one device does not show.

### `DispatchTables`

Devices that come and go under handles that the driver uses again; `live` says which
device, by number, a handle now means. A lookup is `Draw` or `Submit`, `FindDevice` or its slow path, `LookUp` or
`LookUpSlow`, `Native`; a creation is `Create`, `StartFails` or `Announce`, `CreateTable`,
`CreateFlags`, `CreateInfo`, and a destruction the reverse. The two atomics of the fast path and the generation are
stored one at a time (`StoreSingle`, `StoreGeneration`) under the exclusive lock and read without it.

`RoutesSound`: a call is served by the functions of the device its object belongs to and
passes the layer only if that device needs nothing; and a device has all its records from the return
of its creation until its end, with nothing left to a handle without a device. The
exception in the last is a table: `HostQueryResetModule::on_destroy_device`
(`host_query_reset.cpp:199`) asks for a table after `remove_device_dispatch_table`
(`layer_manager.cpp:1073`), which makes one for the dead device that stays until the handle is
used again. `m_single_device` is then not restored for the surviving device, although
`layer_manager.cpp:341` says so; calls are slower, not wrong.

### Bounds of `barriers`

One command buffer and two threads, because the optimiser's state is per command buffer and the only thing
shared between two is the memory of trackers, of which there are three. Generations wrap
at 2. `VIEW` drops what cannot be told apart: which object a tracker is, and
how far an old generation is behind. The draws have two pipelines, of kinds chosen so that each
module has to act: two dynamic and one static kind with negative viewports, and divisors 0, 2 and 3;
4 instances are cut at 2, at 3, or at both. The routing has two handles and two
devices, so the second may take the handle of the first. One object of a device is alive at
a time, since none of the maps relates two of them.

## 8. Rendering and recording

### `RenderingCache`

The render passes and framebuffers behind emulated dynamic rendering. An action is one hold
of `m_rw_mutex` or one native creation; they alternate, so two threads can create the same
pass (`CreatePass`, then `InsertPass`, where the loser destroys its own) while a view dies in between
(`DestroyView`) and its handle comes back (`CreateView`). A continuation (the pass that loads what
a split left) is optional and its failure is not that of the rendering.
`RenderingStays`: while a rendering is open, its pass, framebuffer and continuation are alive and
fit its attachments. A view the layer was not told of, for which it assumes a format
(`dynamic_rendering.cpp:1213`, `1281`), is outside. `ObjectsSound`: the caches say what the driver has, the index from
views to framebuffers is exact, and every native object has one holder who will destroy it.

### `ImagelessFramebuffers`

Framebuffer records, and real framebuffers made at the first begin and shared by key.
`FramebuffersSound`: each real one is in one entry, is what the key says, has only live views and an
owner, and the two counters that skip the mutex are exact. A key names its views as a set, where the
code has a list (`imageless_framebuffer_manager.cpp:161`): the same views in another order would be one more key of those views.
Handles of render passes, which are in the key too (`:157`), are not used again. It does *not* say that a real framebuffer
lives as long as each record that used it: it dies with the record begun first
(`imageless_framebuffer_manager.cpp:253`), even if a command buffer recorded through another
is still to be run. It goes with the hazards; whether an application destroys one of
two equal framebuffers while the other is in use depends on it.

### `TilerSplit`

`before_draw` of `dynamic_rendering.cpp` with `mali_tiler_budget.h`: a native pass is split before a
draw that would overload a tiler. `state` and `blockers` are the layer's books, `native` and
`scopes` the driver's command buffer. `TilerSound` is two promises against each other: `BatchBounded`,
the batches of a pass that may be split stay in the budget unless one draw alone exceeds it or a scope forbids
the split, and `ScopesWhole`, no query or other scope of a pass is cut in two and only what may be split is.
Arithmetic saturates at `Cap` for 2^64 - 1; TLC checks `LimitsAssumption`.

### `PushDescriptors`

Each push takes a fresh set, copies what the last compatible push left, writes and binds. `PushesSound`: a
draw sees what the application had pushed by then, by Vulkan's rules of compatibility and whatever is
pushed later; and the sets still to be handed out exist and are not in use, over batches,
pools that fill, resets and frees. A push that
fails makes the recording fail. Layouts are compatible when their sets are: push constant ranges and
independent sets (`push_descriptor.cpp:478`), which can only make fewer of them compatible, in the code as in Vulkan, are left out.

### Bounds

`rendering`: two threads are the race; two views of two formats are one framebuffer that dies
with either; three handles for passes and two for frames let both threads hold one of their own.
For `imageless`, two records over two passes and two views with two real framebuffers.
`recording`: one command buffer of two devices for the tiler, since budgets are per command
buffer, with a limit of 2 vertices and 2 draws, 1 command, cap 4, 2 scopes; for the pushes two
layouts that replace each other, two pools of two sets in batches of two, so that a batch is
left half used, a pool ends within one, the next is tried or made (from none as well), and a pool cannot be had. `VIEW` ignores what is
in sets nobody can see, and a template once something was recorded, since it pushes what a push of the same elements does;
`SYMMETRY` permutes handles and layouts. These runs have no temporal property, so neither hides anything.

## 9. Feature queries, device creation, extension closure

`DeviceFeatures` follows one application through one query, one enumeration and one
`vkCreateDevice`. `Promote` is `promoted_features.cpp` and the hooks before the driver,
`AskDriver` the driver, `Answer` the repair and the hooks after it; `Request` is the application asking for some of what
it was told, `Prepare` the hooks of device creation in the manager's order, `Create`
the closure of extensions and the driver. A chain is a sequence of structure types; a structure is the set of features that are true in it.

`DevicesSound`: the driver never sees a structure twice, one a module stands in for, or an
aggregate it cannot know, and the application's chain is its own again; no feature of the driver is
hidden; and *what was advertised works*: a device asked for with any part of it is created, and each feature
asked for is switched on at the driver or is the business of a module that knows so.

`ExtensionDependencies` is the resolver with alternatives, cycles and successors. `ClosureSound` compares it with a
definition without an algorithm: it succeeds exactly if *some* set of the driver's
extensions contains what was asked for and all it depends on, and then gives such a set
without repetition. `Create` uses the same operators.

**Bounds** (`DeviceInstances`, run `pipeline`). Drivers of Vulkan 1.0 to 1.3 that list every
extension, none, one, or all but one, with all features they may have, only those they must, or all
but one, whose tiler a probe found sound or, for a few of them, not (then dynamic rendering is emulated although the driver has it,
`dynamic_rendering.cpp:163`); five chains with aggregates before and after what they contain; modules forced or not. The
closure ranges over graphs of three extensions whose dependences need one or both of the others, one of them, a core version or
themselves in a cycle, with successors (a successor does not depend on what it replaces, as in the generated table), every set of
extensions the driver may have, at 1.0 or 1.1, and three lists asked for.
Nothing runs concurrently here: each instance is a short deterministic path but for what the
application asks, and the worth of the run is in the instances.

**An exception.** *What was advertised works* excepts one name. A driver for 1.3 need not list
synchronization2, which is part of 1.3. The layer then lists the extension (`synchronization2.cpp:206`), counts
the device as native for its feature (`:154`) and leaves the name in `vkCreateDevice` (`:275`), so the driver refuses
whoever asks for it by name (`Unlisted`). Such drivers are among those checked.

**Outside.** `VULKAN_FIX_EMULATE_DYNAMIC_RENDERING_FEATURE=skip`
and the other switches that skip a step; a driver that has only the EXT name of the divisor
extension; the `zeroDivisor` feature, which is always reported.

## 10. Driver trust

`DriverTrust` models the memo of verdicts and the child processes that measure a driver.

**State.** `entry` is `DriverTrustCache::entries_` (owner and future), `caller` the locals of each
thread, `worker` the child as its parent can see it, `defective` the truth.

**Steps.** `Ask` looks the device up: wait, probe, or go without. A prober measures natively (`Native`), starts a worker for control,
subject and control again (`Launch`), reads (`ReadOutput`), looks at the exit (`CheckExit`), settles (`Finish`), publishes (`Publish`). A worker
may say it is ready, measure, fail, or hang for ever; `Expire` is the deadline, after which it is
killed and abandoned, `Unwaitable` a `waitpid` that fails, `Reenter` the probe asking about its own device through the layer.

**Properties.** `TrustSound`: there is one prober, who never waits for itself; a verdict "repair" or "healthy" is true, and a doubt has
an excuse; all who asked have the one report or none. `TrustReturns`: everybody is answered.

**Fairness.** Weak for the prober's steps, strong for `Expire`, which is a clock: deadlines pass. Nothing
is expected of a worker.

**Bounds** (part `trust` of `native`): two threads, so one can wait for the other; two drivers, the first with any defect and the second sound; room for one report, so
the memo is full for the second (`Capacity`). What counts as a sign of the defect is as in the code: a worker that dies after it was ready counts as a crash
of the subject, also if the system killed it. In the model only a defect crashes a worker, so "true" means that.
Output beyond the pipe's 4096 bytes, the measurements made in the layer's own process and the
environment's overrides are outside.

## 11. Entry points

`EntryPoints` says of each exported function which parts of the layer it consults, in order, and of
each kind of lookup which pointer it returns: the layer's, or the driver's own if
`should_intercept_device_proc` and its like hold that the layer has nothing to do. Devices are created and destroyed with needs of
their own, the application keeps one pointer to any function from any lookup.
`NothingMissed`: a call through it is seen by each part that needs to see it on any live
device it may be used for, and by the optimiser while that drops barriers. It is proved (section 12).

A name is a pair of its base and the suffix of its extension, so that `Khr(S)` is what the code's
macros for aliases are. A table is a relation of names to what they stand for, one definition for each
section of the source, and `Lookup` of their union is the function the model uses. `ProfilesAssumption`
says what a device may need: any of `Parts`, with one condition, which the end of the next paragraph is about.

What is needed is read from the modules; three needs are excluded because the code does not
meet them. *Layouts* and *imageless*: `vkCmdPipelineBarrier` is the driver's whenever the optimiser is off,
`vkCmdPipelineBarrier2` with native synchronization2, `vkCmdBeginRenderPass2` with native render passes 2,
whatever else the device needs of them (`vulkan_entry.cpp:988`). *Dead records*: pool calls pass
the layer unless tiler tracking or push descriptors need them, so records of command buffers stay until
the handle returns; *copies*: `vkDestroyShaderModule` may be direct, so the shader cache is emptied
only when it is full. Those two cost memory only. Emulated `vkCmdDispatchBase` is needed only
together with emulated device groups: with `VULKAN_FIX_EMULATE_DISPATCH_BASE=1` and native groups
the lookup goes past it, although `src/README.md:53` offers the variable for verification.

**Bounds.** Two devices in run `recording`: the first needs nothing, any one part, the tiler's combinations or dispatch
base; the second nothing, or two parts the first may not have. One pointer is enough, as pointers do not influence one another.

**A disagreement** (run `hidden_action`). `vkCmdDrawMultiEXT` and `vkCmdDrawMultiIndexedEXT` call the
driver without telling the optimiser, which "high-frequency action notification (called on draw, …)" promises.
A barrier repeated after such a draw inside a render pass is dropped. `NothingMissed` holds all the
same, since it asks a lookup to be no worse than the layer's own function, and here that is at fault. The same two functions consult neither viewports, tiler nor divisors.

## 12. What is proved

### Scheduler

`TimelineScheduler_proofs` proves, for all constants that meet the named assumptions
(`BoundsAssumption`, `BatchesAssumption`, `ResultsAssumption`, `CallsAssumption`,
`NullsAssumption`; no set need be finite), and `TimelineOrder_proofs` on top of it:

| theorem | statement |
|---|---|
| `TypeCorrect` | `Spec => []TypeOK` |
| `CountersCorrect` | `Spec => []CounterJustified` |
| `CountersMonotonic` | `Spec => CountersGrow` |
| `TokensConsumedOnce` | `Spec => []TokensWaitedOnce` |
| `AcquiresCover` | `Spec => FirstAcquireCovers` |
| `IoCorrect` | `Spec => []NothingStagedBehindIo` |
| `FencesCover` | `Spec => []FenceCoversSubmission` |
| `ObjectsOutlive` | `Spec => []PrivateObjectsOutliveUse` |
| `EpochsOwned` | `Spec => []NoOrphanEpoch` |
| `BinariesAlternate` | `Spec => []BinaryAlternates`, if `"refused"` is not in `InternalResults` |

The argument. *Types* need one fact more than `TypeOK`: a present that has reserved an epoch
finds `order.waits` at least that large, so that taking it back stays in the naturals
(`PresentsHold`). *Counters*: `CounterJustified` is not inductive; added to it are that
a retired or released job has finished and that the job of an application fence signals
nothing. *Tokens*: `TokensWaitedOnce` says nothing of the flags; the inductive invariant
says that each submitted wait has its flag set, so a new wait is for a token without a
flag, and that each flag has a wait, which is also what `FirstAcquireCovers` needs. The
next-state relation is first split into a few kinds of step (those that leave the relevant variables
alone, those that add jobs, publish, host signals, dispatch, completion), so that each
proof treats a kind once and not twenty actions.

*Order* (`OrderInv`). An enqueue and a call never hold one queue, and only the enqueue that
holds the mutex has jobs in no list (`TxnInv`). Ids have no gaps, the open transaction has the last ones and
what was dispatched to a queue the first of that queue (`IdsInv`).

*Fences and private objects* (`FlightInv`). The driver's queue is, in order, the jobs that were dispatched
and have not finished (`NativeInv`), so a fence that has finished has all jobs before it behind it. A
job stays in `pending` until it has finished, unless it is a fence job, which waits for no counter; so each
submitted wait belongs to a job that still lists the release (`OwnInv`).

*Epochs* (`EpochInv`, per semaphore). Submitted epochs never exceed reserved ones and the driver has at
most one signal more than waits (`Numbers`); jobs have epochs between those two counts (`Claims`), each such
epoch has a job or a present (`Fills`) and only one (`Distinct`). A present that
waits for its turn has the next epoch, which nobody takes (`Draining`). The hard case is an enqueue that fails half-way:
all of it must hold of the counts the transaction would go back to as well, with the jobs
that would be left (`Restorable`).

*Alternation* (`WaitInv`). The waits that the driver has counted are those the scheduler counts, and one
more while a present whose wait was submitted has not returned, or once its error has lost the device. The hypothesis of
`BinariesAlternate` is not a convenience: the emulated swapchain ignores the result of its internal
submissions, and with a driver that refuses one the statement is false, as `refused_submit` shows.

Only model-checked: the liveness.

### Timeline semaphores without the scheduler

`TimelineLegacy_proofs` proves `LegacyCorrect`, `Legacy!Spec => []LegacySound`, from
`LegacyAssumption` (`Null` is no fence, queue or semaphore's state; submissions and look-ups name semaphores
and values, a look-up at least one). No set need be finite, and no bound is used.

The argument (`LegacyInv`). `LegacySound` speaks of fences and values, and the calls between them carry both.

- *Calls* (`CallsInv`): what a call has in hand at each of its steps (`Shaped`); two calls never have one
  queue, one fence or one value to signal (`Apart`), and an idle sees its queues empty until it ends.
- *Values* (`ValuesInv`, `OnceInv`): a value is finished, with the driver in one submission, or owed by one call.
- *Fences* (`WorkInv`, `TellsInv`, `PoolInv`): what the driver is to signal is pending. A fence that a semaphore's
  entry or a call holds tells of exactly the value it is kept for: signaled, the value is finished; pending,
  the driver has both together. This is why a fence may serve several semaphores, and why
  a counter raised for it is right (`Honest`).
- *Finding* (`FoundInv`, `PushedInv`): already what the driver *has*, not only what it finished, can be found or
  is still to be pushed by its call; and what goes before an application's fence has been pushed.
  Stated of finished values alone it is not inductive, because the GPU does not wait for the call.

Most steps write one thread and leave the fences, or release some: the lemmas `StepOfCall`, `Released` and
`LetsGo`, with a frame lemma for each part of the invariant, treat these once. The maximum that a sweep raises a counter to,
and `Others`, what a sweep leaves, are computed over sequences of any length. The library's induction takes
an operator as its parameter, which the provers cannot use, so these lemmas take the least
element of the set of numbers for which they fail, as relation and set (`Least`, `Upto`, `MaxOf`, `OthersOf`).

### Pipeline cache

`PipelineCache_proofs` proves, from `PathAssumption`, `DeviceAssumption`, `ThreadAssumption`,
`NullAssumption` and `RevisionAssumption`:

| theorem | statement |
|---|---|
| `TypeCorrect` | `Spec => []TypeOK` |
| `NativeAccessCorrect` | `Spec => []NativeAccessSafe` |
| `CleanCorrect` | `Spec => []CleanMeansSaved` |
| `FileCorrect` | `Spec => FileNeverGoesBack` |
| `FlushCorrect` | `Spec => []NothingForgotten` |

The argument. *Locks and lifetime.* That locks exclude each other (`LockSafe`) is inductive alone. That the
cache is alive is not: the flusher knows it from `alive`, a call of the application from
the table. `LifeInv` therefore says that entries of the table are live and different
(`TableLive`), that a thread which creates or destroys has its device to itself (`Owned`), that
its state is the table's until the entry is erased (`Destroying`) and in no entry after that
(`Retiring`), and that a state being loaded is nobody else's (`Loading`). Destruction waits for the exclusive
lock, so no user is left. The lemma `Move` treats at once the steps that neither publish nor
retire a state.

*Saves* (`SaveInv`). The persistence mutex lets one thread at a time save a cache
(`PersistSafe`). Content only grows once the cache is created (`Begun`), what is announced is in it
(`Announced`), and what the cache itself wrote to a file is older than its content
(`FileOlder`); so the snapshot that a thread is about to write contains what the file has
(`WritingOK`), which is `FileNeverGoesBack`. If the revision is still the one that was read, nothing was
announced since and the snapshot has all of it (`SnapshotOK`); with a file of its own,
that is also what the file has (`SavedOK`). A forced save of a clean cache needs the other half
of `WritingOK`: as long as it is clean, the snapshot has all that was announced.

*The flusher* (`FlushInv`). Its list holds devices, its hand a cache. A cache in the table is
alive (`TableAlive`), so the flusher skips one only because it is clean. If the handle has a new owner
meanwhile, that one was clean when it was published and raised the flag when it became dirty; if the
revision moved, so did the flag (`FlusherAt`). Only an idle flusher takes the flag back.

Only model-checked: the liveness.

### Native-support cache

`NativeCache_proofs` proves, from `DeviceAssumption` and `BoundAssumption`, for any sets of
devices and threads:

| theorem | statement |
|---|---|
| `TypeCorrect` | `Spec => []TypeOK` |
| `AnswersCorrect` | `Spec => []AnswersTrue` |
| `EntryCorrect` | `Spec => []EntryCurrent` |
| `QueriesAtomic` | `Spec => AtomicQuery`, the refinement |

The argument is the one of a sequence lock. The revision is odd exactly while a writer is
inside (`Parity`), so a reader that starts at an even revision and finds the same one again
has met no writer: what it read is still there (`Readers`). The entry agrees with the map,
unless the device it names is just being changed (`Entry`), and then no query for
that device is under way (`Locks`). The flag is written only while no device is named
(`Unnamed`). What the map answered stays true since the lock is shared until the
answer is published (`Answers`). For the refinement, a step that reaches "answered" is
`Answer` by `AnswersTrue`, `Created` and `Destroyed` are `Record`, and all other steps but
`Ask` and `Return` stutter. Liveness (`CallsReturn`) is only model-checked.

### Barrier optimiser

`BarrierDedup_proofs` proves, from `GenerationsAssumption` (a generation has at least two values),
`NullAssumption` and `BarriersAssumption`, for any sets of command buffers, threads,
signatures and trackers:

| theorem | statement |
|---|---|
| `TypeCorrect` | `Spec => []TypeOK` |
| `CacheCorrect` | `Spec => []CacheReachesMap` |
| `DropsCorrect` | `Spec => DropsOnlyDuplicates` |

The argument. `Inv` adds four facts. No two command buffers share a tracker and those in the map are
live (`MapOwns`), so writing one disturbs no other. A thread's cached pointer comes with the command buffer it
was found for (`CacheNamed`). While the optimiser is on, a tracker that has a signature and no
action since names what the driver recorded last (`Tracked`): this is what a dropped barrier needs. Commands that the
layer does not see are recorded only after the lookup that turned the optimiser off (`HandedOff`). Since
liveness is a flag of the object and not a comparison of generations, the wrap of the
generation is harmless: that is why `CacheReachesMap` holds for a modulus of two.

### Draws

`BarrierDedup_proofs` also proves `DrawsAreSound`, `Draws!Spec => DrawsSound`, for `DrawEmulation`, from
`DrawsAssumption` (`Kinds` are kinds, numbers of instances and draws are natural, `Null` and `Undefined` are none of the values
they stand beside). It holds for any handles and offsets, any set of kinds with any divisors and all
of them at once, and draws of any length; the run takes two kinds at a time and four instances.

The argument (`DrawInv`). The driver has bound what the application did (`BoundInv`), and the divisor module has
the divisors of that pipeline or there is nothing to divide. A thread's remembered lookup is right, because
whatever changes a pipeline's divisors clears it, and nothing is remembered before the first divided pipeline
(`RemembersInv`). Shapes of pipelines are what was asked for, and of what earlier pipelines of a handle leave behind
only the variant and the samples can differ (`PipelinesInv`, `AsAsked`): hence the premise `Prepared` of `DrawSound`. Unless
viewports were refused, the layer knows each sign that the application set and the driver has positive heights
(`SignsInv`); `TurnsRight` draws the conclusion for a shader with a constant index and one that chooses.
How a draw is cut is a recursive function on the instances. A cut is never empty, ends within the draw and
crosses no multiple of a divisor (`ChunkEnds`), so `ChunksExist` and `ChunksCut` follow by induction on the instances that are left,
stated as the least counterexample of a well-founded order (`WFMin`), which needs no operator as a parameter.

### Routing

`BarrierDedup_proofs` also proves `RoutesCorrect`, `Routes!Spec => []RoutesSound`, for `DispatchTables`,
from `RoutesAssumption` (`Null` is none of the handles, a handle is not a command buffer and a queue). It holds
without the run's limit of one object alive, for any number of devices, threads and handles.

The argument (`RoutesInv`, which TLC also checked without that limit on two command buffers). A table
changes under the lock before the generation does, so a thread's cached table of the current generation
is right unless its device is just the one being changed (`CacheSound`, `Changing`). A
call needs its table only for its own device, and who creates or destroys a device has it alone
(`Separated`, from Vulkan's external synchronisation). `single` names the device or nothing for
every device that has a table (`Told`), which makes the route that asks nobody right. A
record of an object may lag behind its owner only while a call that allocates, frees or
destroys it is under way (`ObjectSound`, `Excuses`). How far creation and destruction of a device have come
says which of its records exist (`Making`, `Unmaking`, `DeviceSound`).

### Driver trust

`NativeCache_proofs` also proves `TrustCorrect`, `Trust!Spec => []TrustSound`, from
`TrustAssumption` (`Nothing` is neither a report nor an entry), for any devices, threads and `Capacity`.

The argument (`TrustInv`). What is in the memo and in the hands of a caller is true (`Believed`, `True`). A
caller that probes owns the entry of its device, one that waits found the entry of another, one that is
done has that entry's report or none (`Linked`). A verdict follows from a run only if the words that a worker has
written, read or unread, and the way it ended fit what was measured (`Fits`, `Measured`): this is where
a worker that dies before it is ready differs from one that dies after. Each part is measured or
has an excuse when a report is published (`Covered`).

### Recording

`Recording_proofs` proves, for any command buffers, devices, layouts and handles:

| theorem | statement | from |
|---|---|---|
| `TilerKeepsBounds` | `Spec => []TilerSound` | `LimitsAssumption` (limits below the value at which counts saturate) |
| `PushesAreSeen` | `Push!Spec => []PushesSound` | `PushAssumption` (pools, batches and their number are positive) |
| `PointersMissNothing` | `EntrySpec => []NothingMissed` | `ProfilesAssumption` (what a device needs are parts, and dispatch base comes with groups) |

*Tiler* (`TilerInv`). The layer tracks exactly the native passes that may be split (`Follows`), its
blockers are the number of open scopes (`Counts`), its budget is the work of the current native
batch (`Budgeted`); so the decision before a draw is made on the right number, saturation included.

*Pushes* (`PushInv`). Pools are used up to a frontier; what waits in the batch is behind it, each set once
(`Frontier`), and nothing beyond it has contents until a reset. The slots mirror what is bound (`Mirrors`), and a set
that is bound, or was drawn with, has the contents meant and is not among those that wait (`Holds`), so
no later push writes it.

*Entry points* (`EntryInv`). First the tables, as lemmas of one line for each section of the source: what a name is
forwarded to (`ForwardedTo`), what a dispatcher consults (`DispatcherConsults`), which names a part can be
behind (`EntryConsulting`, `EntryBased`). Then `Bypassed`: if a lookup on a device hands out the driver's function
for a name the layer has, each part behind that name is one the device does not need. This is the comparison of
the rule per name (`should_intercept_device_proc`) with the bodies of 221 functions, which nothing
in the source makes agree, and it covers any combination of needs, where the run has the empty one, single ones
and a few more. The rest is about time. A driver's pointer is held for one device, whose needs do not change while it lives, and is gone
with it; the optimiser has nothing to see behind it, or it is off: commands the driver serves
turned it off for good when they were looked up. A layer's pointer names a function of `Hooks`, and nothing behind it is cut off,
since every device needs the viewports, so that no dispatcher leaves early.

### Rendering

`Rendering_proofs` proves, from `RenderingAssumption` and `ImagelessAssumption` (`Null` and the states of
a record are not handles or keys):

| theorem | statement |
|---|---|
| `ObjectsStaySound` | `Spec => []ObjectsSound` |
| `RenderingsStay` | `Spec => []RenderingStays` |
| `FramebuffersStaySound` | `Imageless!Spec => []FramebuffersSound` |

*The caches* (`CacheInv`). Each native object is in one cache, or the application's, or just made by one
thread (`Separate`, `Accounted`); a cached framebuffer is of a cached pass and of views that exist
(`FramesOfPasses`) and the index says so (`Indexed`); what a call has found is still there
(`FoundIn`), since Vulkan forbids the destruction of a view that a rendering uses, and what it has made is
nobody else's (`MadePass`, `MadeFrame`), so the loser of a race destroys its own.

*Imageless framebuffers* (`FrameInv`). Every entry is of live views and owned by a record that has been begun
(`InOrder`); the counters equal the cardinalities (`Counted`), which needs that the two sets stay finite
and nothing about the constants.

### Not proved

- `DevicesSound` and `ClosureSound`: they rest on recursive operators (the resolver), which the prover's
  backends do not take.
- Liveness, everywhere: `EveryJobRetires`, `CallsReturn`, `DirtSaved`, `ThreadsReturn`, `TrustReturns` depend
  on fairness and `ENABLED`, which are out of the prover's reach.

## 13. What is not modelled

The components marked so in `PROJECT.json`, each with its reason: shader rewriting and the
vertex-store emulation (translations of data), the shader module cache and RenderDoc (one map behind one lock), the loader (done
once), diagnostics and packaging. Of the components marked "partly":

- **Scheduler.** `start` is only the initial state; the loop and the deadline of `wait` are left to
  the caller (its reads are `Poll`). `device_idle` idles all queues, which Vulkan gives to the
  calling thread. The caller of `stop` has idled the device. A native semaphore mixed into a wait and
  `contains`, `active` change no state.
- **Pipeline cache.** The search for a writable path, the bytes of headers, the environment's switch.
- **Native-support cache.** The memo of physical devices, whose writers all store the driver's one answer.
- **Host query reset.** If the command buffer cannot be allocated after the pool was, later
  resets are silently skipped (`host_query_reset.cpp:106`); without the scheduler, the
  application's queue is used with no lock although `vkResetQueryPool` asks for none.
- **Forwarders.** `vkCreateFramebuffer`, `vkDestroyFramebuffer` and the `FORWARD_DEV` functions keep the
  pointer of the first device in a static variable, against
  `vulkan10_forwarders.inc:2` ("never cache a device's pointer globally"). With one driver they are the same.
- **Dynamic rendering.** The lowering of attachments, layouts and resolves, and suspended renderings. A failed begin
  followed by an end gives the driver an end with no begin; the modelled failure is reported first.
- **Push descriptors.** The private layout is made from the application's create info, the native one
  from a changed copy when vertex stores are emulated. A failed malloc for more than 16 writes.
- **Indirect counts.** `draw_indirect_count.cpp` is not advertised, and drops the call where the driver has none (line 132).
- **Synchronization2.** The lowering of submits and barriers; `m_primary_dev` and `m_primary_native` are two
  atomics that the last device overwrites (line 196).
- **Swapchain.** Images, memory and blits.
