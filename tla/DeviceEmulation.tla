-------------------------- MODULE DeviceEmulation --------------------------
(***************************************************************************)
(* Devices under a compatibility profile: the ICD's vkCreateDevice and     *)
(* vkDestroyDevice, and compatibility/device_emulation.cpp, which answers  *)
(* the calls of features the driver was not asked for.  Sparse buffers and *)
(* images become dense ones under a budget of the device; pools of         *)
(* pipeline statistics are made up, their handles being heap addresses of  *)
(* the wrapper; zero divisors and sparse binds are rewritten.              *)
(*                                                                         *)
(* Threads of the application run calls side by side.  A stretch of code   *)
(* under state_mutex is one step, a call of the driver is one step, and    *)
(* the application keeps the rules of Vulkan: it uses what it was given,   *)
(* enables what it uses, and destroys nothing that a call still uses.      *)
(***************************************************************************)
EXTENDS CompatibilityProfiles, Integers

CONSTANTS
    Threads,
    Buffers, Images,  \* handles it may give a buffer, an image
    Pools,            \* addresses that may become the handle of a query pool
    Budget,           \* MALI_WRAPPER_SPARSE_COMMIT_BUDGET
    Sizes,            \* memory requirements of resources
    Wanted            \* sets of features the application would like to enable

Resources == Buffers \union Images

ASSUME EmulationAssumption ==
    /\ Budget \in Nat /\ Sizes \subseteq Nat \ {0}
    /\ Wanted \subseteq SUBSET Features
    /\ None \notin Threads \union Devices \union Resources \union Pools
    /\ \A features \in SUBSET Features : features # None

VARIABLES
    devices,        \* the registry: the selection of each device, or None
    denseUsed,      \* DeviceState::dense_used of each device that is registered
    dense,          \* dense_buffers, dense_images: size held per device and handle, or 0
    queues,         \* queue_devices: devices whose queue is known
    fakePools,      \* fake_query_pools: the device of each, or None
    realPools,      \* real_query_pool_devices: the same
    heap,           \* addresses that hold a FakeQueryPool
    driverDevices,  \* the features of each device alive in the driver, or None
    driverResources,    \* resources alive in the driver: the device, or None
    memory,         \* memory the driver holds for dense resources of each device
    driverPools,    \* pools alive in the driver: the device, or None
    appDevices,     \* devices of the application: the features it enabled, or None
    appResources,   \* resources it may use or destroy, each with its device
    appPools,       \* pools it may use or destroy, each with its device
    appQueues,      \* devices whose queue it has
    pc, call        \* per thread: where it is, and its arguments and locals

registry == <<devices, denseUsed, dense, queues, fakePools, realPools, heap>>
driver == <<driverDevices, driverResources, memory, driverPools>>
app == <<appDevices, appResources, appPools, appQueues>>
emulationVars == <<profileVars, registry, driver, app, pc, call>>

NoCall == [device |-> None, sel |-> Native, asked |-> None, want |-> {},
           resource |-> None, sparse |-> FALSE, size |-> 0, pool |-> None, uses |-> {}]

Goto(t, label) == pc' = [pc EXCEPT ![t] = label]
Finish(t) == Goto(t, "idle") /\ call' = [call EXCEPT ![t] = NoCall]
Call(t, label, arguments) ==
    /\ pc[t] = "idle"
    /\ Goto(t, label)
    /\ call' = [call EXCEPT ![t] = arguments]

(* Calls that use a device, a resource or a pool.                          *)
Using(d) == {t \in Threads : call[t].device = d}
PoolUsers(p) == {t \in Threads : call[t].pool = p}

-----------------------------------------------------------------------------
(* vkCreateDevice.  The application enables some of what it was told.      *)

CreateDevice(t, i, want, extensions, wellKnown) ==
    LET sel == SelectionFor(i)
        asked == Prepare(sel, want, extensions, wellKnown)
    IN  /\ LayerCanRun /\ asked.ok
        /\ Call(t, "create_device", [NoCall EXCEPT !.sel = sel, !.want = want, !.asked = asked])
        /\ UNCHANGED <<profileVars, registry, driver, app>>

DriverCreatesDevice(t, d) ==
    /\ pc[t] = "create_device"
    /\ driverDevices[d] = None
    /\ DriverAccepts(call[t].asked)
    /\ driverDevices' = [driverDevices EXCEPT ![d] = call[t].asked.features]
    /\ call' = [call EXCEPT ![t].device = d]
    /\ Goto(t, "register_device")
    /\ UNCHANGED <<profileVars, registry, driverResources, memory, driverPools, app>>

(* It may fail for other reasons than what it is asked for.                *)
DriverRefusesDevice(t) ==
    /\ pc[t] = "create_device"
    /\ Finish(t)
    /\ UNCHANGED <<profileVars, registry, driver, app>>

(* register_device() puts a fresh DeviceState over whatever the handle had *)
(* before.                                                                 *)
RegisterDevice(t) ==
    LET d == call[t].device IN
    /\ pc[t] = "register_device"
    /\ devices' = [devices EXCEPT ![d] = call[t].sel]
    /\ denseUsed' = [denseUsed EXCEPT ![d] = 0]
    /\ dense' = [dense EXCEPT ![d] = [r \in Resources |-> 0]]
    /\ appDevices' = [appDevices EXCEPT ![d] = call[t].want]
    /\ Finish(t)
    /\ UNCHANGED <<profileVars, queues, fakePools, realPools, heap, driver,
                   appResources, appPools, appQueues>>

(* vkDestroyDevice, once the children are gone and no call uses it.        *)
DestroyDevice(t, d) ==
    /\ appDevices[d] # None
    /\ Using(d) = {}
    /\ \A r \in Resources : appResources[r] # d
    /\ \A p \in Pools : appPools[p] # d
    /\ Call(t, "unregister_device", [NoCall EXCEPT !.device = d])
    /\ appDevices' = [appDevices EXCEPT ![d] = None]
    /\ appQueues' = appQueues \ {d}
    /\ UNCHANGED <<profileVars, registry, driver, appResources, appPools>>

ForgetDevice(d) ==
    /\ devices' = [devices EXCEPT ![d] = None]
    /\ denseUsed' = [denseUsed EXCEPT ![d] = 0]
    /\ dense' = [dense EXCEPT ![d] = [r \in Resources |-> 0]]
    /\ queues' = queues \ {d}
    /\ realPools' = [p \in Pools |-> IF realPools[p] = d THEN None ELSE realPools[p]]
    /\ fakePools' = [p \in Pools |-> IF fakePools[p] = d THEN None ELSE fakePools[p]]
    /\ heap' = heap \ {p \in Pools : fakePools[p] = d}

UnregisterDevice(t) ==
    /\ pc[t] = "unregister_device"
    /\ ForgetDevice(call[t].device)
    /\ Goto(t, "destroy_device")
    /\ UNCHANGED <<profileVars, driver, app, call>>

DriverDestroysDevice(t) ==
    /\ pc[t] = "destroy_device"
    /\ driverDevices' = [driverDevices EXCEPT ![call[t].device] = None]
    /\ Finish(t)
    /\ UNCHANGED <<profileVars, registry, driverResources, memory, driverPools, app>>

-----------------------------------------------------------------------------
(* get_device_hook(): a device of the profile gets the hooks of the        *)
(* queries, in unsafe mode also those of sparse resources.                 *)
QueryHooks(d) == devices[d] # None /\ devices[d].vkd3d
SparseHooks(d) == QueryHooks(d) /\ devices[d].unsafe

(* vkCreateBuffer and vkCreateImage.  Only a sparse resource under the     *)
(* hooks is made dense; any other goes to the driver as it is.             *)
CreateResource(t, d, label, sparse) ==
    /\ appDevices[d] # None
    /\ sparse => "sparseBinding" \in appDevices[d]
    /\ LET made == sparse /\ SparseHooks(d) IN
       Call(t, label,
            [NoCall EXCEPT !.device = d, !.sparse = made,
             !.uses = IF sparse /\ ~made THEN {"sparseBinding"} ELSE {}])
    /\ UNCHANGED <<profileVars, registry, driver, app>>

CreateBuffer(t, d, sparse) == CreateResource(t, d, "create_buffer", sparse)

CreateImage(t, d, sparse, plain2d) ==
    /\ appDevices[d] # None
    /\ sparse => SparseImageFormats(devices[d], plain2d)
    /\ CreateResource(t, d, "create_image", sparse)

DriverCreatesResource(t, r) ==
    /\ \/ pc[t] = "create_buffer" /\ r \in Buffers
       \/ pc[t] = "create_image" /\ r \in Images
    /\ driverResources[r] = None
    /\ driverResources' = [driverResources EXCEPT ![r] = call[t].device]
    /\ IF call[t].sparse
       THEN /\ call' = [call EXCEPT ![t].resource = r]
            /\ Goto(t, "reserve")
            /\ UNCHANGED app
       ELSE /\ appResources' = [appResources EXCEPT ![r] = call[t].device]
            /\ Finish(t)
            /\ UNCHANGED <<appDevices, appPools, appQueues>>
    /\ UNCHANGED <<profileVars, registry, driverDevices, memory, driverPools>>

(* reserve_dense_budget(), with the size the driver requires.              *)
Reserve(t, size) ==
    LET d == call[t].device
        fits == devices[d] # None /\ size + denseUsed[d] <= Budget
    IN  /\ pc[t] = "reserve"
        /\ denseUsed' = [denseUsed EXCEPT ![d] = IF fits THEN @ + size ELSE @]
        /\ call' = [call EXCEPT ![t].size = IF fits THEN size ELSE 0]
        /\ Goto(t, IF fits THEN "allocate" ELSE "undo")
        /\ UNCHANGED <<profileVars, devices, dense, queues, fakePools, realPools, heap,
                       driver, app>>

Allocate(t) ==
    /\ pc[t] = "allocate"
    /\ \/ /\ memory' = [memory EXCEPT ![call[t].device] = @ + call[t].size]
          /\ Goto(t, "bind")
       \/ /\ Goto(t, "release_undo")
          /\ UNCHANGED memory
    /\ UNCHANGED <<profileVars, registry, driverDevices, driverResources, driverPools, app, call>>

(* vkBindBufferMemory, vkBindImageMemory: a failure frees the memory.      *)
Bind(t) ==
    /\ pc[t] = "bind"
    /\ \/ Goto(t, "record") /\ UNCHANGED memory
       \/ /\ memory' = [memory EXCEPT ![call[t].device] = @ - call[t].size]
          /\ Goto(t, "release_undo")
    /\ UNCHANGED <<profileVars, registry, driverDevices, driverResources, driverPools, app, call>>

(* release_dense_budget(), which keeps clear of an unsigned wrap.          *)
Released(d, size) == IF size > denseUsed[d] THEN 0 ELSE denseUsed[d] - size

ReleaseBudget(t) ==
    /\ pc[t] \in {"release_undo", "release"}
    /\ denseUsed' = [denseUsed EXCEPT ![call[t].device] =
                         IF devices[call[t].device] # None
                         THEN Released(call[t].device, call[t].size) ELSE @]
    /\ IF pc[t] = "release" THEN Finish(t)
       ELSE /\ Goto(t, "undo")
            /\ call' = [call EXCEPT ![t].size = 0]
    /\ UNCHANGED <<profileVars, devices, dense, queues, fakePools, realPools, heap,
                   driver, app>>

(* The resource is destroyed again and the error returned.                 *)
Undo(t) ==
    /\ pc[t] = "undo"
    /\ driverResources' = [driverResources EXCEPT ![call[t].resource] = None]
    /\ Finish(t)
    /\ UNCHANGED <<profileVars, registry, driverDevices, memory, driverPools, app>>

(* The record is emplaced: one that is there already stays.                *)
Record(t) ==
    LET d == call[t].device
        r == call[t].resource
    IN  /\ pc[t] = "record"
        /\ dense' = [dense EXCEPT ![d][r] =
                         IF devices[d] # None /\ @ = 0 THEN call[t].size ELSE @]
        /\ appResources' = [appResources EXCEPT ![r] = d]
        /\ Finish(t)
        /\ UNCHANGED <<profileVars, devices, denseUsed, queues, fakePools, realPools, heap,
                       driver, appDevices, appPools, appQueues>>

-----------------------------------------------------------------------------
(* A mutant: the budget is given back with the record.                     *)
DestroyAndRelease(t, r) ==
    LET d == appResources[r]
        size == IF SparseHooks(d) THEN dense[d][r] ELSE 0
    IN  /\ d # None
        /\ Call(t, "destroy_resource", [NoCall EXCEPT !.device = d, !.resource = r, !.size = size])
        /\ dense' = [dense EXCEPT ![d][r] = IF SparseHooks(d) THEN 0 ELSE @]
        /\ denseUsed' = [denseUsed EXCEPT ![d] = Released(d, size)]
        /\ appResources' = [appResources EXCEPT ![r] = None]
        /\ UNCHANGED <<profileVars, devices, queues, fakePools, realPools, heap, driver,
                       appDevices, appPools, appQueues>>

(* vkDestroyBuffer and vkDestroyImage: the record goes first, under the    *)
(* lock, then the resource, then its memory, then the budget.              *)
DestroyResource(t, r) ==
    LET d == appResources[r] IN
    /\ d # None
    /\ Call(t, "destroy_resource",
            [NoCall EXCEPT !.device = d, !.resource = r,
             !.size = IF SparseHooks(d) THEN dense[d][r] ELSE 0])
    /\ dense' = [dense EXCEPT ![d][r] = IF SparseHooks(d) THEN 0 ELSE @]
    /\ appResources' = [appResources EXCEPT ![r] = None]
    /\ UNCHANGED <<profileVars, devices, denseUsed, queues, fakePools, realPools, heap,
                   driver, appDevices, appPools, appQueues>>

DestroyBuffer(t, r) == DestroyResource(t, r)
DestroyImage(t, r) == DestroyResource(t, r)

(* The driver may give the handle to another caller from now on.           *)
DriverDestroysResource(t) ==
    /\ pc[t] = "destroy_resource"
    /\ driverResources' = [driverResources EXCEPT ![call[t].resource] = None]
    /\ IF call[t].size > 0
       THEN /\ Goto(t, "free_memory")
            /\ call' = [call EXCEPT ![t].resource = None]
       ELSE Finish(t)
    /\ UNCHANGED <<profileVars, registry, driverDevices, memory, driverPools, app>>

FreeMemory(t) ==
    /\ pc[t] = "free_memory"
    /\ memory' = [memory EXCEPT ![call[t].device] = @ - call[t].size]
    /\ Goto(t, "release")
    /\ UNCHANGED <<profileVars, registry, driverDevices, driverResources, driverPools, app, call>>

(* The driver is not asked about the sparse layout of an image made dense. *)
GetImageSparseMemoryRequirements(t, r) ==
    LET d == appResources[r] IN
    /\ d # None
    /\ ~(SparseHooks(d) /\ dense[d][r] > 0)
    /\ Call(t, "at_driver", [NoCall EXCEPT !.device = d])
    /\ UNCHANGED <<profileVars, registry, driver, app>>

-----------------------------------------------------------------------------
(* Query pools.  The driver's pools and the made-up ones share the heap.   *)

Unused(p) == p \notin heap /\ driverPools[p] = None

NewFakePool(t, d, p) ==
    /\ appDevices[d] # None /\ "pipelineStatisticsQuery" \in appDevices[d]
    /\ QueryHooks(d)
    /\ Unused(p)
    /\ heap' = heap \union {p}
    /\ Call(t, "emplace_pool", [NoCall EXCEPT !.device = d, !.pool = p])
    /\ UNCHANGED <<profileVars, devices, denseUsed, dense, queues, fakePools, realPools,
                   driver, app>>

(* An entry that is there already stays, and the new pool dies with its    *)
(* owner.                                                                  *)
EmplaceFakePool(t) ==
    LET p == call[t].pool IN
    /\ pc[t] = "emplace_pool"
    /\ IF fakePools[p] = None
       THEN /\ fakePools' = [fakePools EXCEPT ![p] = call[t].device]
            /\ UNCHANGED heap
       ELSE heap' = heap \ {p} /\ UNCHANGED fakePools
    /\ appPools' = [appPools EXCEPT ![p] = call[t].device]
    /\ Finish(t)
    /\ UNCHANGED <<profileVars, devices, denseUsed, dense, queues, realPools, driver,
                   appDevices, appResources, appQueues>>

(* Any other pool, and a pool of statistics of a native device, is the     *)
(* driver's.                                                               *)
CreatePool(t, d, statistics) ==
    /\ appDevices[d] # None
    /\ statistics => "pipelineStatisticsQuery" \in appDevices[d] /\ ~QueryHooks(d)
    /\ Call(t, "create_pool",
            [NoCall EXCEPT !.device = d,
             !.uses = IF statistics THEN {"pipelineStatisticsQuery"} ELSE {}])
    /\ UNCHANGED <<profileVars, registry, driver, app>>

GivePool(t, p) ==
    /\ appPools' = [appPools EXCEPT ![p] = call[t].device]
    /\ Finish(t)
    /\ UNCHANGED <<appDevices, appResources, appQueues>>

DriverCreatesPool(t, p) ==
    /\ pc[t] = "create_pool"
    /\ Unused(p)
    /\ driverPools' = [driverPools EXCEPT ![p] = call[t].device]
    /\ IF QueryHooks(call[t].device)
       THEN /\ call' = [call EXCEPT ![t].pool = p]
            /\ Goto(t, "record_pool")
            /\ UNCHANGED app
       ELSE GivePool(t, p)
    /\ UNCHANGED <<profileVars, registry, driverDevices, driverResources, memory>>

RecordPool(t) ==
    LET p == call[t].pool IN
    /\ pc[t] = "record_pool"
    /\ realPools' = [realPools EXCEPT ![p] = call[t].device]
    /\ GivePool(t, p)
    /\ UNCHANGED <<profileVars, devices, denseUsed, dense, queues, fakePools, heap, driver>>

(* vkDestroyQueryPool: both registries forget the pool before its address  *)
(* is free, be it the wrapper's or the driver's.                           *)
DestroyPool(t, p) ==
    LET d == appPools[p] IN
    /\ d # None
    /\ PoolUsers(p) = {}
    /\ Call(t, IF QueryHooks(d) THEN "forget_pool" ELSE "destroy_pool",
            [NoCall EXCEPT !.device = d, !.pool = p])
    /\ appPools' = [appPools EXCEPT ![p] = None]
    /\ UNCHANGED <<profileVars, registry, driver, appDevices, appResources, appQueues>>

(* A mutant: a made-up pool is freed and its entry is left.                *)
ForgetPoolKeepsEntry(t) ==
    LET p == call[t].pool IN
    /\ pc[t] = "forget_pool"
    /\ IF fakePools[p] # None
       THEN heap' = heap \ {p} /\ Finish(t) /\ UNCHANGED realPools
       ELSE /\ realPools' = [realPools EXCEPT ![p] = None]
            /\ Goto(t, "destroy_pool")
            /\ UNCHANGED <<heap, call>>
    /\ UNCHANGED <<profileVars, devices, denseUsed, dense, queues, fakePools, driver, app>>

ForgetPool(t) ==
    LET p == call[t].pool IN
    /\ pc[t] = "forget_pool"
    /\ IF fakePools[p] # None
       THEN /\ fakePools' = [fakePools EXCEPT ![p] = None]
            /\ heap' = heap \ {p}
            /\ Finish(t)
            /\ UNCHANGED realPools
       ELSE /\ realPools' = [realPools EXCEPT ![p] = None]
            /\ Goto(t, "destroy_pool")
            /\ UNCHANGED <<fakePools, heap, call>>
    /\ UNCHANGED <<profileVars, devices, denseUsed, dense, queues, driver, app>>

DriverDestroysPool(t) ==
    /\ pc[t] = "destroy_pool"
    /\ driverPools' = [driverPools EXCEPT ![call[t].pool] = None]
    /\ Finish(t)
    /\ UNCHANGED <<profileVars, registry, driverDevices, driverResources, memory, app>>

(* vkCmdBeginQuery and the other commands on a pool: a made-up pool is     *)
(* answered with zeros; another is looked up again, then its device.  The  *)
(* indexed ones, vkCmdBeginQueryIndexedEXT and vkCmdEndQueryIndexedEXT,    *)
(* have no hook: they are the driver's, whatever the pool is.              *)
PoolCommand(t, p, indexed) ==
    LET d == appPools[p] IN
    /\ d # None
    /\ Call(t, IF indexed THEN "indexed_at_driver"
               ELSE IF QueryHooks(d) THEN "find_fake" ELSE "pool_at_driver",
            [NoCall EXCEPT !.device = d, !.pool = p])
    /\ UNCHANGED <<profileVars, registry, driver, app>>

FindFakePool(t) ==
    /\ pc[t] = "find_fake"
    /\ IF fakePools[call[t].pool] # None THEN Finish(t)
       ELSE Goto(t, "find_pool") /\ UNCHANGED call
    /\ UNCHANGED <<profileVars, registry, driver, app>>

FindRealPool(t) ==
    /\ pc[t] = "find_pool"
    /\ Goto(t, IF realPools[call[t].pool] # None THEN "find_state" ELSE "dropped")
    /\ UNCHANGED <<profileVars, registry, driver, app, call>>

(* vkGetQueryPoolResults names its device and need not look for it.        *)
GetQueryPoolResults(t, p) ==
    LET d == appPools[p] IN
    /\ d # None
    /\ Call(t, IF QueryHooks(d) THEN "results" ELSE "pool_at_driver",
            [NoCall EXCEPT !.device = d, !.pool = p])
    /\ UNCHANGED <<profileVars, registry, driver, app>>

FindResults(t) ==
    /\ pc[t] = "results"
    /\ IF fakePools[call[t].pool] # None THEN Finish(t)
       ELSE /\ Goto(t, IF devices[call[t].device] # None THEN "pool_at_driver" ELSE "dropped")
            /\ UNCHANGED call
    /\ UNCHANGED <<profileVars, registry, driver, app>>

FindState(t) ==
    /\ pc[t] = "find_state"
    /\ Goto(t, IF devices[realPools[call[t].pool]] # None THEN "pool_at_driver" ELSE "dropped")
    /\ UNCHANGED <<profileVars, registry, driver, app, call>>

-----------------------------------------------------------------------------
(* Other calls that are rewritten on their way to the driver.              *)

GetDeviceQueue(t, d) ==
    /\ appDevices[d] # None /\ d \notin appQueues
    /\ pc[t] = "idle"
    /\ queues' = IF devices[d] # None THEN queues \union {d} ELSE queues
    /\ appQueues' = appQueues \union {d}
    /\ UNCHANGED <<profileVars, devices, denseUsed, dense, fakePools, realPools, heap,
                   driver, appDevices, appResources, appPools, pc, call>>

(* vkQueueBindSparse: under the hooks only its semaphores are submitted,   *)
(* to the device whose queue it is; a queue that is not known is an error. *)
QueueBindSparse(t, d) ==
    /\ d \in appQueues /\ "sparseBinding" \in appDevices[d]
    /\ IF SparseHooks(d)
       THEN Call(t, IF d \in queues THEN "at_driver" ELSE "dropped", [NoCall EXCEPT !.device = d])
       ELSE Call(t, "at_driver", [NoCall EXCEPT !.device = d, !.uses = {"sparseBinding"}])
    /\ UNCHANGED <<profileVars, registry, driver, app>>

(* What a graphics pipeline may rely on: divisors, a zero divisor among    *)
(* them, stores and atomics of its vertex stages (which stand for all that *)
(* unsafe mode claims of shaders), the robustness of its device.           *)
PipelineNeeds == {{"divisor"}, {"divisor", "zeroDivisor"},
                  {"vertexPipelineStoresAndAtomics"}, {"robustness2"}}

(* A mutant: the transform is of the profile's safe mode.                  *)
PipelinesKeepZero(t, d, needs) ==
    /\ appDevices[d] # None
    /\ needs \subseteq appDevices[d]
    /\ Call(t, "at_driver", [NoCall EXCEPT !.device = d, !.uses = needs])
    /\ UNCHANGED <<profileVars, registry, driver, app>>

(* GraphicsPipelineTransform::prepare(): in unsafe mode a zero divisor     *)
(* becomes the largest.  Nothing else is rewritten.                        *)
CreateGraphicsPipelines(t, d, needs) ==
    /\ appDevices[d] # None
    /\ needs \subseteq appDevices[d]
    /\ LET unsafe == devices[d] # None /\ devices[d].unsafe IN
       Call(t, "at_driver",
            [NoCall EXCEPT !.device = d, !.uses = IF unsafe THEN needs \ {"zeroDivisor"} ELSE needs])
    /\ UNCHANGED <<profileVars, registry, driver, app>>

(* The memory requirements of a resource that is not there yet.            *)
GetDeviceMemoryRequirements(t, d) ==
    /\ appDevices[d] # None /\ "sparseBinding" \in appDevices[d]
    /\ Call(t, "at_driver",
            [NoCall EXCEPT !.device = d, !.uses = IF SparseHooks(d) THEN {} ELSE {"sparseBinding"}])
    /\ UNCHANGED <<profileVars, registry, driver, app>>

DriverReturns(t) ==
    /\ pc[t] \in {"at_driver", "pool_at_driver", "indexed_at_driver"}
    /\ Finish(t)
    /\ UNCHANGED <<profileVars, registry, driver, app>>

-----------------------------------------------------------------------------
EmulationInit ==
    /\ ProfilesInit
    /\ devices = [d \in Devices |-> None]
    /\ denseUsed = [d \in Devices |-> 0]
    /\ dense = [d \in Devices |-> [r \in Resources |-> 0]]
    /\ queues = {}
    /\ fakePools = [p \in Pools |-> None]
    /\ realPools = [p \in Pools |-> None]
    /\ heap = {}
    /\ driverDevices = [d \in Devices |-> None]
    /\ driverResources = [r \in Resources |-> None]
    /\ memory = [d \in Devices |-> 0]
    /\ driverPools = [p \in Pools |-> None]
    /\ appDevices = [d \in Devices |-> None]
    /\ appResources = [r \in Resources |-> None]
    /\ appPools = [p \in Pools |-> None]
    /\ appQueues = {}
    /\ pc = [t \in Threads |-> "idle"]
    /\ call = [t \in Threads |-> NoCall]

(* An application asks for what it would like and was told of; the         *)
(* features of divisors come with either extension, and sparse memory is   *)
(* of use on a queue that binds it.                                        *)
Enables(i, want) ==
    {f \in want \intersect told[i].features :
         f \in {"divisor", "zeroDivisor"} =>
             told[i].extensions \intersect {"KHR_divisor", "EXT_divisor"} # {}}
    \ (IF told[i].binds THEN {} ELSE {"sparseBinding"})

InstanceStep ==
    /\ \E i \in Instances : \/ \E engine \in Engines : RegisterInstance(i, engine)
                            \/ EnumeratePhysicalDevices(i)
                            \/ AskPhysicalDevice(i)
    /\ UNCHANGED <<registry, driver, app, pc, call>>

DeviceStep(t) ==
    \/ \E i \in Instances, want \in Wanted, wellKnown \in BOOLEAN :
           /\ told[i] # None
           /\ CreateDevice(t, i, Enables(i, want), told[i].extensions, wellKnown)
    \/ DriverRefusesDevice(t) \/ RegisterDevice(t)
    \/ UnregisterDevice(t) \/ DriverDestroysDevice(t)
    \/ \E d \in Devices : \/ DriverCreatesDevice(t, d) \/ DestroyDevice(t, d)
                          \/ GetDeviceQueue(t, d)

ResourceStep(t) ==
    \/ \E d \in Devices, sparse \in BOOLEAN :
           \/ CreateBuffer(t, d, sparse)
           \/ \E plain2d \in BOOLEAN : CreateImage(t, d, sparse, plain2d)
    \/ \E r \in Resources : DriverCreatesResource(t, r)
    \/ \E r \in Buffers : DestroyBuffer(t, r)
    \/ \E r \in Images : DestroyImage(t, r) \/ GetImageSparseMemoryRequirements(t, r)
    \/ \E size \in Sizes : Reserve(t, size)
    \/ Allocate(t) \/ Bind(t) \/ ReleaseBudget(t) \/ Undo(t) \/ Record(t)
    \/ DriverDestroysResource(t) \/ FreeMemory(t)

PoolStep(t) ==
    \/ \E d \in Devices : \/ \E p \in Pools : NewFakePool(t, d, p)
                          \/ \E statistics \in BOOLEAN : CreatePool(t, d, statistics)
    \/ \E p \in Pools : \/ DriverCreatesPool(t, p) \/ DestroyPool(t, p)
                        \/ GetQueryPoolResults(t, p)
                        \/ \E indexed \in BOOLEAN : PoolCommand(t, p, indexed)
    \/ EmplaceFakePool(t) \/ RecordPool(t) \/ ForgetPool(t) \/ DriverDestroysPool(t)
    \/ FindFakePool(t) \/ FindRealPool(t) \/ FindState(t) \/ FindResults(t)

OtherStep(t) ==
    \/ \E d \in Devices : \/ QueueBindSparse(t, d)
                          \/ \E needs \in PipelineNeeds : CreateGraphicsPipelines(t, d, needs)
                          \/ GetDeviceMemoryRequirements(t, d)
    \/ DriverReturns(t)

EmulationNext ==
    \/ InstanceStep
    \/ \E t \in Threads : DeviceStep(t) \/ ResourceStep(t) \/ PoolStep(t) \/ OtherStep(t)

EmulationSpec == EmulationInit /\ [][EmulationNext]_emulationVars

-----------------------------------------------------------------------------
FeatureSets == SUBSET Features
Requests == [ok : BOOLEAN, features : FeatureSets, extensions : SUBSET Extensions]
Calls == [device : Devices \union {None}, sel : Selections, asked : Requests \union {None},
          want : FeatureSets, resource : Resources \union {None}, sparse : BOOLEAN,
          size : Nat, pool : Pools \union {None}, uses : FeatureSets]

RegistryTypeOK ==
    /\ devices \in [Devices -> Selections \union {None}]
    /\ denseUsed \in [Devices -> Nat]
    /\ dense \in [Devices -> [Resources -> Nat]]
    /\ queues \subseteq Devices
    /\ fakePools \in [Pools -> Devices \union {None}]
    /\ realPools \in [Pools -> Devices \union {None}]
    /\ heap \subseteq Pools

DriverTypeOK ==
    /\ driverDevices \in [Devices -> FeatureSets \union {None}]
    /\ driverResources \in [Resources -> Devices \union {None}]
    /\ memory \in [Devices -> Int]
    /\ driverPools \in [Pools -> Devices \union {None}]

AppTypeOK ==
    /\ appDevices \in [Devices -> FeatureSets \union {None}]
    /\ appResources \in [Resources -> Devices \union {None}]
    /\ appPools \in [Pools -> Devices \union {None}]
    /\ appQueues \subseteq Devices

CallsTypeOK == DOMAIN pc = Threads /\ call \in [Threads -> Calls]

(* The types of the variables.                                             *)
EmulationTypeOK ==
    ProfilesTypeOK /\ RegistryTypeOK /\ DriverTypeOK /\ AppTypeOK /\ CallsTypeOK

(* The driver can always give what an application enables of what it was   *)
(* told: nothing that only the wrapper provides is left in the request,    *)
(* and nothing is asked for under a name the driver does not know.         *)
AdvertisedCanBeEnabled ==
    \A t \in Threads : pc[t] = "create_device" => DriverAccepts(call[t].asked)

(* No call reaches the driver that relies on a feature its device was      *)
(* created without, though the application may have enabled it: what is    *)
(* taken out of the request is rewritten wherever it is used, by the       *)
(* profile of the device.  Unsafe mode makes two exceptions, which it      *)
(* claims, takes out of the request and rewrites nowhere.                  *)
Unanswered == {"vertexPipelineStoresAndAtomics", "robustness2"}
Excused(d) == IF devices[d] # None /\ devices[d].unsafe THEN Unanswered ELSE {}
DriverUsedAsEnabled ==
    \A t \in Threads :
        call[t].uses # {} =>
            call[t].uses \ Excused(call[t].device) \subseteq driverDevices[call[t].device]

(* docs/compatibility.md: feature enables are removed so that "unsupported *)
(* bits are not sent".  A bit the driver does support is to be sent if the *)
(* application uses it.  Not checked, because it fails: unsafe mode takes  *)
(* out vertexPipelineStoresAndAtomics, supported or not.                   *)
SupportedIsEnabled ==
    \A t \in Threads :
        call[t].uses # {} => call[t].uses \intersect DriverFeatures \subseteq driverDevices[call[t].device]

(* The dense resources of a device, with those whose creation or whose     *)
(* destruction is on its way, hold no more memory than the budget.         *)
BudgetHolds == \A d \in Devices : memory[d] <= Budget

(* To the commands with a hook a pool of the application is known for what *)
(* it is, whatever handles went before it: a made-up one is never given to *)
(* the driver, and a command on a real one is neither swallowed nor        *)
(* dropped.                                                                *)
PoolsAreKnown ==
    /\ \A t \in Threads : pc[t] # "dropped"
    /\ \A t \in Threads : pc[t] = "pool_at_driver" =>
           driverPools[call[t].pool] = call[t].device
    /\ \A p \in Pools : appPools[p] # None /\ driverPools[p] # None => fakePools[p] = None

(* docs/compatibility.md: "Query commands and result copies are handled by *)
(* the wrapper instead of being passed to a driver feature that was not    *)
(* enabled".  Not checked, because it fails: an indexed command takes a    *)
(* made-up pool to the driver.                                             *)
DriverSeesItsPools ==
    \A t \in Threads : pc[t] \in {"pool_at_driver", "indexed_at_driver"} =>
        driverPools[call[t].pool] = call[t].device
=============================================================================
