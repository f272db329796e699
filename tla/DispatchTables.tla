--------------------------- MODULE DispatchTables ---------------------------
(***************************************************************************)
(* Which device a call belongs to and which functions serve it             *)
(* (src/layer/src/main/cpp/core/layer_manager.cpp and layer_manager.h),    *)
(* while devices come and go and the driver uses handles again.            *)
(*                                                                         *)
(* The driver's devices are numbered as they are created, and a dispatch   *)
(* table or a record is named by the device it was made for; 0 is none.    *)
(* A device has one command pool and one queue.                            *)
(***************************************************************************)
EXTENDS Naturals

CONSTANTS
    Devices, Commands, Queues, \* handles
    Threads, Null,
    Emulated,                  \* the devices, by number, that need the layer's draws
    MaxDevices                 \* bound on the devices created

VARIABLES
    live,       \* the driver: the device behind a handle
    owner,      \* the driver: the handle of the device of a command buffer or queue
    created,
    tables,     \* m_device_tables
    flags,      \* m_device_bypass_flags
    writer,     \* who holds m_table_rw_mutex exclusively
    generation, \* m_table_generation
    single,     \* m_single_device
    bypass,     \* m_single_device_bypass
    device,     \* m_cmd_devices and m_queue_devices
    last,       \* m_last_device
    emulated, primary, \* m_emulated_devices, m_primary_emulated_device
    info,       \* m_device_phys, m_device_spirv_versions and their like
    context,    \* devices for which a query pool was reset on the host
    cache,      \* thread_local device, generation and table
    thread

driver == <<live, owner, created>>
routes == <<tables, flags, writer, generation, single, bypass>>
records == <<device, last, emulated, primary, info>>
vars == <<driver, routes, records, context, cache, thread>>

Objects == Commands \cup Queues
Idle == [pc |-> "idle"]

Init ==
    /\ live = [d \in Devices |-> 0] /\ created = 0
    /\ owner = [o \in Objects |-> Null]
    /\ tables = [d \in Devices |-> 0] /\ flags = [d \in Devices |-> 0]
    /\ writer = Null /\ generation = 1 /\ single = Null /\ bypass = FALSE
    /\ device = [o \in Objects |-> Null]
    /\ last = Null /\ emulated = {} /\ primary = Null
    /\ info = [d \in Devices |-> 0]
    /\ context = {}
    /\ cache = [t \in Threads |-> [device |-> Null, generation |-> 0, table |-> 0]]
    /\ thread = [t \in Threads |-> Idle]

At(t, pc) == thread[t].pc = pc
To(t, pc) == thread' = [thread EXCEPT ![t].pc = pc]
\* What Vulkan asks of callers: a device is created and destroyed by a thread
\* that has it to itself, and so is its pool or its queue used.
Using(d) == {t \in Threads : ~At(t, "idle") /\ thread[t].on = d}
Returned(d) == live[d] # 0 /\ \A t \in Using(d) : thread[t].kind \notin {"create", "destroy"}
Free(d, kinds) == Returned(d) /\ \A t \in Using(d) : thread[t].kind \notin kinds
PoolCalls == {"draw", "allocate", "free", "pool"}
QueueCalls == {"submit", "queue"}
Call(t, d, kind, object, pc, past) ==
    /\ At(t, "idle")
    /\ thread' = [thread EXCEPT ![t] =
           [pc |-> pc, kind |-> kind, on |-> d, object |-> object, device |-> d, next |-> "idle",
            bump |-> FALSE, generation |-> 0, table |-> 0, bypass |-> past]]
Return(t) == thread' = [thread EXCEPT ![t] = Idle]

-----------------------------------------------------------------------------
(* m_device_tables, m_device_bypass_flags and what follows from them.  The *)
(* two atomics and the generation are read without the lock.               *)

\* refresh_single_device_state_locked.
Single(T) ==
    LET held == {d \in Devices : T[d] # 0}
    IN  IF \E d \in held : held = {d} THEN CHOOSE d \in held : TRUE ELSE Null
Bypass(T, F) == Single(T) # Null /\ F[Single(T)] # 0 /\ F[Single(T)] \notin Emulated

Writes(t, T, F, next, bump) ==
    /\ writer = Null /\ writer' = t
    /\ tables' = T /\ flags' = F
    /\ bypass' = Bypass(T, F)
    /\ thread' = [thread EXCEPT ![t].pc = "single", ![t].next = next, ![t].bump = bump]
    /\ UNCHANGED <<driver, generation, single, records, context, cache>>

StoreSingle(t) ==
    /\ At(t, "single")
    /\ single' = Single(tables)
    /\ IF thread[t].bump THEN To(t, "generation") /\ UNCHANGED writer
       ELSE To(t, thread[t].next) /\ writer' = Null
    /\ UNCHANGED <<driver, tables, flags, generation, bypass, records, context, cache>>

StoreGeneration(t) ==
    /\ At(t, "generation")
    /\ generation' = generation + 1
    /\ writer' = Null
    /\ To(t, thread[t].next)
    /\ UNCHANGED <<driver, tables, flags, single, bypass, records, context, cache>>

\* init_device_dispatch_table and remove_device_dispatch_table;
\* update_device_bypass_flags and remove_device_bypass_flags.
LoadTable(t, d, next) == Writes(t, [tables EXCEPT ![d] = live[d]], flags, next, TRUE)
DropTable(t, d, next) == Writes(t, [tables EXCEPT ![d] = 0], flags, next, TRUE)
SetFlags(t, d, f, next) == Writes(t, tables, [flags EXCEPT ![d] = f], next, FALSE)

\* get_dispatch_table: what follows the lookup in each kind of call.
Found(t) ==
    CASE thread[t].kind = "allocate" -> "allocate" [] thread[t].kind = "free" -> "free"
      [] thread[t].kind = "queue" -> "queue" [] thread[t].kind = "destroy" -> "forget" [] OTHER -> "native"
LookUp(t) ==
    /\ At(t, "lookup")
    /\ LET d == thread[t].device
           hit == cache[t].device = d /\ cache[t].generation = generation
       IN  thread' = [thread EXCEPT ![t].pc = IF hit THEN Found(t) ELSE "slow",
                          ![t].generation = generation, ![t].table = IF hit THEN cache[t].table ELSE 0]
    /\ UNCHANGED <<driver, routes, records, context, cache>>

\* get_dispatch_table_slow; a device without a table gets one.
LookUpSlow(t) ==
    /\ At(t, "slow")
    /\ LET d == thread[t].device
       IN  IF d # Null /\ tables[d] = 0
           THEN LoadTable(t, d, "slow")
           ELSE /\ writer = Null
                /\ LET T == IF d = Null THEN 0 ELSE tables[d]
                   IN  /\ cache' = [cache EXCEPT ![t] = [device |-> d, generation |-> thread[t].generation, table |-> T]]
                       /\ thread' = [thread EXCEPT ![t].pc = Found(t), ![t].table = T]
                /\ UNCHANGED <<driver, routes, records, context>>

-----------------------------------------------------------------------------
(* Draws, submissions and the objects they need. *)

\* A draw reads the fast path before it asks for the device.
Draw(t, c) ==
    /\ c \in Commands /\ owner[c] # Null /\ Free(owner[c], PoolCalls)
    /\ Call(t, owner[c], "draw", c, "device", bypass)
    /\ UNCHANGED <<driver, routes, records, context, cache>>
Submit(t, q) ==
    /\ q \in Queues /\ owner[q] # Null /\ Free(owner[q], QueueCalls)
    /\ Call(t, owner[q], "submit", q, "device", FALSE)
    /\ UNCHANGED <<driver, routes, records, context, cache>>

\* get_device_for_cmd and get_device_for_queue.
FindDevice(t) ==
    /\ At(t, "device")
    /\ thread' = [thread EXCEPT ![t].pc = IF single = Null THEN "find" ELSE "lookup", ![t].device = single]
    /\ UNCHANGED <<driver, routes, records, context, cache>>
FindDeviceSlow(t) ==
    /\ At(t, "find")
    /\ LET d == device[thread[t].object]
       IN  thread' = [thread EXCEPT ![t].pc = "lookup", ![t].device = IF d = Null THEN last ELSE d]
    /\ UNCHANGED <<driver, routes, records, context, cache>>
Native(t) ==
    /\ At(t, "native") /\ Return(t)
    /\ UNCHANGED <<driver, routes, records, context, cache>>

\* dispatch_allocate_command_buffers and dispatch_get_device_queue: the
\* driver's object is recorded once the driver has returned it.
Allocate(t, d, kind) ==
    /\ \E o \in IF kind = "queue" THEN Queues ELSE Commands : owner[o] = Null
    /\ Free(d, IF kind = "queue" THEN QueueCalls ELSE PoolCalls)
    /\ kind = "queue" => \A q \in Queues : owner[q] # d
    /\ Call(t, d, kind, Null, "lookup", FALSE)
    /\ UNCHANGED <<driver, routes, records, context, cache>>
Making(call) == call.kind \in {"allocate", "queue"} /\ call.object = Null
NativeAllocate(t) ==
    /\ thread[t].pc \in {"allocate", "queue"}
    /\ \E o \in IF At(t, "queue") THEN Queues ELSE Commands :
           /\ owner[o] = Null
           /\ owner' = [owner EXCEPT ![o] = thread[t].on]
           /\ thread' = [thread EXCEPT ![t].pc = "record", ![t].object = o]
    /\ UNCHANGED <<live, created, routes, records, context, cache>>
Record(t) ==
    /\ At(t, "record")
    /\ device' = [device EXCEPT ![thread[t].object] = thread[t].on]
    /\ Return(t)
    /\ UNCHANGED <<driver, routes, last, emulated, primary, info, context, cache>>

\* dispatch_free_command_buffers forgets first.
FreeCommand(t, c) ==
    /\ c \in Commands /\ owner[c] # Null /\ Free(owner[c], PoolCalls)
    /\ Call(t, owner[c], "free", c, "lookup", FALSE)
    /\ device' = [device EXCEPT ![c] = Null]
    /\ UNCHANGED <<driver, routes, last, emulated, primary, info, context, cache>>
\* vkDestroyCommandPool with track_command_pool_reset, which the application
\* only reaches on a device that needs it.
DestroyPool(t, d) ==
    /\ Free(d, PoolCalls)
    /\ Call(t, d, "pool", Null, "free", FALSE)
    /\ device' = [o \in Objects |-> IF o \in Commands /\ owner[o] = d /\ live[d] \in Emulated THEN Null ELSE device[o]]
    /\ UNCHANGED <<driver, routes, last, emulated, primary, info, context, cache>>
NativeFree(t) ==
    /\ At(t, "free")
    /\ owner' = [o \in Objects |->
           IF o = thread[t].object \/ (thread[t].kind = "pool" /\ o \in Commands /\ owner[o] = thread[t].on)
           THEN Null ELSE owner[o]]
    /\ Return(t)
    /\ UNCHANGED <<live, created, routes, records, context, cache>>

\* vkResetQueryPool leaves a context with the module.
ResetQueries(t, d) ==
    /\ Returned(d) /\ live[d] \in Emulated
    /\ Call(t, d, "reset", Null, "lookup", FALSE)
    /\ context' = context \cup {d}
    /\ UNCHANGED <<driver, routes, records, cache>>

-----------------------------------------------------------------------------
(* dispatch_create_device and dispatch_destroy_device. *)

Create(t, d) ==
    /\ live[d] = 0 /\ created < MaxDevices
    /\ Call(t, d, "create", Null, "announce", FALSE)
    /\ live' = [live EXCEPT ![d] = created + 1] /\ created' = created + 1
    /\ UNCHANGED <<owner, routes, records, context, cache>>

\* The timeline scheduler did not start.
\* Mutant: it is started once the device was announced.
StartFailsLate(t) ==
    /\ At(t, "load")
    /\ live' = [live EXCEPT ![thread[t].on] = 0]
    /\ Return(t)
    /\ UNCHANGED <<owner, created, routes, records, context, cache>>
StartFails(t) ==
    /\ At(t, "announce")
    /\ live' = [live EXCEPT ![thread[t].on] = 0]
    /\ Return(t)
    /\ UNCHANGED <<owner, created, routes, records, context, cache>>

Announce(t) ==
    /\ At(t, "announce")
    /\ emulated' = emulated \cup {thread[t].on}
    /\ primary' = thread[t].on /\ last' = thread[t].on
    /\ To(t, "load")
    /\ UNCHANGED <<driver, routes, device, info, context, cache>>
CreateTable(t) == At(t, "load") /\ LoadTable(t, thread[t].on, "flags")
CreateFlags(t) == At(t, "flags") /\ SetFlags(t, thread[t].on, live[thread[t].on], "info")
CreateInfo(t) ==
    /\ At(t, "info")
    /\ info' = [info EXCEPT ![thread[t].on] = live[thread[t].on]]
    /\ Return(t)
    /\ UNCHANGED <<driver, routes, device, last, emulated, primary, context, cache>>

Destroy(t, d) ==
    /\ Returned(d) /\ Using(d) = {}
    /\ Call(t, d, "destroy", Null, "noflags", FALSE)
    /\ UNCHANGED <<driver, routes, records, context, cache>>
DestroyFlags(t) == At(t, "noflags") /\ SetFlags(t, thread[t].on, 0, "notable")
DestroyTable(t) == At(t, "notable") /\ DropTable(t, thread[t].on, "norecords")
DestroyRecords(t) ==
    /\ At(t, "norecords")
    /\ LET d == thread[t].on
       IN  /\ device' = [o \in Objects |-> IF device[o] = d THEN Null ELSE device[o]]
           /\ last' = IF last = d THEN Null ELSE last
           \* HostQueryResetModule::on_destroy_device asks for the table.
           /\ IF d \in context THEN To(t, "lookup") ELSE To(t, "forget")
           /\ context' = context \ {d}
    /\ UNCHANGED <<driver, routes, emulated, primary, info, cache>>
Forget(t) ==
    /\ At(t, "forget")
    /\ LET d == thread[t].on
       IN  /\ emulated' = emulated \ {d}
           /\ IF primary # d THEN UNCHANGED primary
              ELSE primary' \in IF emulated \ {d} = {} THEN {Null} ELSE emulated \ {d}
           /\ info' = [info EXCEPT ![d] = 0]
    /\ To(t, "destroy")
    /\ UNCHANGED <<driver, routes, device, last, context, cache>>
NativeDestroy(t) ==
    /\ At(t, "destroy")
    /\ live' = [live EXCEPT ![thread[t].on] = 0]
    /\ owner' = [o \in Objects |-> IF owner[o] = thread[t].on THEN Null ELSE owner[o]]
    /\ Return(t)
    /\ UNCHANGED <<created, routes, records, context, cache>>

Next ==
    \E t \in Threads :
        \/ StoreSingle(t) \/ StoreGeneration(t) \/ LookUp(t) \/ LookUpSlow(t)
        \/ FindDevice(t) \/ FindDeviceSlow(t) \/ Native(t)
        \/ NativeAllocate(t) \/ Record(t) \/ NativeFree(t)
        \/ StartFails(t) \/ Announce(t) \/ CreateTable(t) \/ CreateFlags(t) \/ CreateInfo(t)
        \/ DestroyFlags(t) \/ DestroyTable(t) \/ DestroyRecords(t) \/ Forget(t) \/ NativeDestroy(t)
        \/ \E c \in Commands : Draw(t, c) \/ FreeCommand(t, c)
        \/ \E q \in Queues : Submit(t, q)
        \/ \E d \in Devices :
               \/ Create(t, d) \/ Destroy(t, d) \/ DestroyPool(t, d) \/ ResetQueries(t, d)
               \/ Allocate(t, d, "allocate") \/ Allocate(t, d, "queue")

Spec == Init /\ [][Next]_vars

-----------------------------------------------------------------------------

\* A call reaches the functions of the device its object belongs to, and goes
\* past the layer only if that device does not need it.
CallsRouted ==
    \A t \in Threads :
        /\ At(t, "native") =>
               /\ thread[t].device = thread[t].on /\ thread[t].table = live[thread[t].on]
               /\ thread[t].bypass => live[thread[t].on] \notin Emulated
        /\ (thread[t].pc \in {"allocate", "queue"} \/ (At(t, "free") /\ thread[t].kind = "free")) =>
               thread[t].table = live[thread[t].on]

\* A device has its records from the return of its creation to its end, and
\* a handle that means nothing has none, but for a table.
RecordsCurrent ==
    \A d \in Devices :
        /\ Returned(d) => d \in emulated /\ tables[d] = live[d] /\ flags[d] = live[d] /\ info[d] = live[d]
        /\ live[d] = 0 =>
               /\ d \notin emulated /\ primary # d /\ last # d
               /\ flags[d] = 0 /\ info[d] = 0 /\ \A o \in Objects : device[o] # d

\* All of it (layer_manager.cpp, dispatch tables and routing).
RoutesSound == CallsRouted /\ RecordsCurrent
=============================================================================
