--------------------------- MODULE DeviceRegistry ---------------------------
(***************************************************************************)
(* The registries of the ICD: core/mali_wrapper_icd.cpp keeps the Vulkan   *)
(* instances with a reference count and the devices with their dispatch    *)
(* tables, cached per thread by a generation number; core/wsi_manager.cpp  *)
(* keeps the private data of both.  Any thread of the application creates, *)
(* uses and destroys instances, surfaces and devices; the driver reuses    *)
(* the handles of what was destroyed.                                      *)
(*                                                                         *)
(* A stretch of code that holds one mutex is one step, except that the     *)
(* generation is read without managed_device_mutex: a writer that holds it *)
(* changes the map and the generation in two steps.                        *)
(***************************************************************************)
EXTENDS Integers, FiniteSets

CONSTANTS
    None,             \* a null handle or pointer
    Threads,          \* threads of the application
    Instances,        \* handles the driver may give an instance
    Devices,          \* handles the driver may give a device
    DriverSurfaces,   \* the application also creates surfaces of the driver
    MaxDevices,       \* bound on the devices created
    MaxInstances,     \* bound on the instances created
    MaxSurfaces       \* bound on the surfaces created

(* A dispatch table is made for one device, which a handle may outlive.    *)
Dispatch == [number : 1 .. MaxDevices, parent : Instances]
DeviceData == [number : 1 .. MaxDevices, instance : Instances]

ASSUME RegistryAssumption ==
    /\ None \notin Instances \union Devices \union Threads \union Dispatch
    /\ DriverSurfaces \in BOOLEAN
    /\ {MaxDevices, MaxInstances, MaxSurfaces} \subseteq Nat

VARIABLES
    managedInstances, \* keys of managed_instances
    refCount,         \* InstanceInfo::ref_count
    marked,           \* InstanceInfo::marked_for_destruction
    latestInstance,   \* latest_instance, or None
    managedDevices,   \* managed_devices: a dispatch table per device, or None
    generation,       \* managed_device_generation
    writer,           \* the thread that holds managed_device_mutex, or None
    instanceData,     \* instances that have instance_private_data
    wsiDevices,       \* WSIManager::Impl::devices
    deviceData,       \* device_private_data: for which device, of which instance
    driverInstances,  \* instances alive in the driver
    driverDevice,     \* the device alive in the driver under each handle: a number, or 0
    appInstances,     \* instances the application has and may use
    appDevices,       \* devices the application has and may use
    parent,           \* the instance whose physical device each was created from
    surfaces,         \* surfaces of each instance, of the wrapper and of the driver
    devicesMade, instancesMade, surfacesMade,   \* how many so far
    pc,               \* where each thread is
    dev, inst,        \* the device and the instance its call is about
    own,              \* it uses a device of the application, not one it found
    gen,              \* the local "generation" of get_managed_device_dispatch()
    got,              \* the local "dispatch"
    cache             \* its thread_local cached_generation, _device, _dispatch

instanceVars == <<managedInstances, refCount, marked, latestInstance, instanceData,
                  driverInstances, appInstances, surfaces, instancesMade, surfacesMade>>
deviceVars == <<managedDevices, generation, writer>>
wsiVars == <<wsiDevices, deviceData>>
driverVars == <<driverDevice, appDevices, parent, devicesMade>>
localVars == <<dev, inst, own, gen, got, cache>>
vars == <<instanceVars, deviceVars, wsiVars, driverVars, pc, localVars>>

Surfaces == [wrapper : 0 .. MaxSurfaces, driver : 0 .. MaxSurfaces]
NoSurface == [wrapper |-> 0, driver |-> 0]

Goto(t, label) == pc' = [pc EXCEPT ![t] = label]

Init ==
    /\ managedInstances = {} /\ marked = {} /\ latestInstance = None
    /\ refCount = [i \in Instances |-> 0]
    /\ managedDevices = [d \in Devices |-> None]
    /\ generation = 1
    /\ writer = None
    /\ instanceData = {} /\ wsiDevices = {}
    /\ deviceData = [d \in Devices |-> None]
    /\ driverInstances = {}
    /\ driverDevice = [d \in Devices |-> 0]
    /\ appInstances = {} /\ appDevices = {}
    /\ parent = [d \in Devices |-> None]
    /\ surfaces = [i \in Instances |-> NoSurface]
    /\ devicesMade = 0 /\ instancesMade = 0 /\ surfacesMade = 0
    /\ pc = [t \in Threads |-> "idle"]
    /\ dev = [t \in Threads |-> None]
    /\ inst = [t \in Threads |-> None]
    /\ own = [t \in Threads |-> FALSE]
    /\ gen = [t \in Threads |-> 0]
    /\ got = [t \in Threads |-> None]
    /\ cache = [t \in Threads |-> [generation |-> 0, device |-> None, dispatch |-> None]]

-----------------------------------------------------------------------------
(* vkCreateInstance: all of it after the driver's call holds               *)
(* instance_mutex.  WSIManager::initialize() keeps private data it finds.  *)
CreateInstance(t, i) ==
    /\ pc[t] = "idle"
    /\ i \notin driverInstances
    /\ instancesMade < MaxInstances
    /\ instancesMade' = instancesMade + 1
    /\ driverInstances' = driverInstances \union {i}
    /\ managedInstances' = managedInstances \union {i}
    /\ refCount' = [refCount EXCEPT ![i] = 1]
    /\ marked' = marked \ {i}
    /\ latestInstance' = i
    /\ instanceData' = instanceData \union {i}
    /\ appInstances' = appInstances \union {i}
    /\ UNCHANGED <<surfaces, surfacesMade, deviceVars, wsiVars, driverVars, pc, localVars>>

(* add_instance_reference() and remove_instance_reference().  The branch   *)
(* that cleans up a marked instance cannot be taken: Vulkan has the        *)
(* application destroy an instance after its surfaces.                     *)
AddReference(i) ==
    refCount' = [refCount EXCEPT ![i] = IF i \in managedInstances THEN @ + 1 ELSE @]
RemoveReference(i) ==
    refCount' = [refCount EXCEPT ![i] = IF i \in managedInstances THEN @ - 1 ELSE @]

surfaceFrame == <<managedInstances, marked, latestInstance, instanceData, driverInstances,
                  appInstances, instancesMade, deviceVars, wsiVars, driverVars, pc, localVars>>

(* WSIManager::create_surface_xcb(), _xlib() and _wayland() count the      *)
(* surface, and uncount it when its creation fails.                        *)
CreateSurface(t, i) ==
    /\ pc[t] = "idle"
    /\ i \in appInstances
    /\ surfacesMade < MaxSurfaces
    /\ surfacesMade' = surfacesMade + 1
    /\ \/ AddReference(i) /\ surfaces' = [surfaces EXCEPT ![i].wrapper = @ + 1]
       \/ UNCHANGED <<refCount, surfaces>>
    /\ UNCHANGED surfaceFrame

(* A surface of an extension the wrapper does not know, made by the driver. *)
CreateDriverSurface(t, i) ==
    /\ DriverSurfaces
    /\ pc[t] = "idle"
    /\ i \in appInstances
    /\ surfacesMade < MaxSurfaces
    /\ surfacesMade' = surfacesMade + 1
    /\ surfaces' = [surfaces EXCEPT ![i].driver = @ + 1]
    /\ UNCHANGED <<refCount, surfaceFrame>>

(* WSIManager::destroy_surface(): either kind gives up a reference. *)
DestroySurface(t, i, kind) ==
    /\ pc[t] = "idle"
    /\ i \in appInstances
    /\ surfaces[i][kind] > 0
    /\ surfaces' = [surfaces EXCEPT ![i][kind] = @ - 1]
    /\ RemoveReference(i)
    /\ UNCHANGED <<surfacesMade, surfaceFrame>>

(* The application may destroy an instance nobody uses any more. *)
Unused(i) == /\ surfaces[i] = NoSurface
             /\ \A d \in Devices : driverDevice[d] # 0 => parent[d] # i
             /\ \A t \in Threads : pc[t] # "idle" => inst[t] # i

instanceFrame == <<surfaces, surfacesMade, instancesMade, dev, own, gen, got, cache>>

(* vkDestroyInstance with references left: mark it, and leave the rest to  *)
(* remove_instance_reference().                                            *)
DeferDestroyInstance(t, i) ==
    /\ pc[t] = "idle"
    /\ i \in appInstances
    /\ Unused(i)
    /\ refCount[i] > 0
    /\ appInstances' = appInstances \ {i}
    /\ marked' = marked \union {i}
    /\ UNCHANGED <<managedInstances, refCount, latestInstance, instanceData, driverInstances,
                   deviceVars, wsiVars, driverVars, pc, inst, instanceFrame>>

(* vkDestroyInstance with none: begin() of the map becomes the latest. *)
DestroyInstance(t, i) ==
    /\ pc[t] = "idle"
    /\ i \in appInstances
    /\ Unused(i)
    /\ refCount[i] =< 0
    /\ appInstances' = appInstances \ {i}
    /\ managedInstances' = managedInstances \ {i}
    /\ latestInstance' \in IF latestInstance # i THEN {latestInstance}
                           ELSE IF managedInstances' = {} THEN {None} ELSE managedInstances'
    /\ inst' = [inst EXCEPT ![t] = i]
    /\ Goto(t, "forget_all")
    /\ UNCHANGED <<refCount, marked, instanceData, driverInstances, deviceVars, wsiVars,
                   driverVars, instanceFrame>>

(* forget_managed_devices_for_instance() and release_device() of each. *)
ForgetDevicesOf(t) ==
    /\ pc[t] = "forget_all"
    /\ writer = None
    /\ LET stale == {d \in Devices : managedDevices[d] # None /\ managedDevices[d].parent = inst[t]}
       IN  /\ managedDevices' = [d \in Devices |-> IF d \in stale THEN None ELSE managedDevices[d]]
           /\ generation' = IF stale = {} THEN generation ELSE generation + 1
           /\ wsiDevices' = wsiDevices \ stale
           /\ deviceData' = [d \in Devices |-> IF d \in stale THEN None ELSE deviceData[d]]
    /\ Goto(t, "driver_instance")
    /\ UNCHANGED <<instanceVars, writer, driverVars, localVars>>

(* The driver destroys it and may give the handle to another ... *)
DriverDestroysInstance(t) ==
    /\ pc[t] = "driver_instance"
    /\ driverInstances' = driverInstances \ {inst[t]}
    /\ Goto(t, "release_instance")
    /\ UNCHANGED <<managedInstances, refCount, marked, latestInstance, instanceData, appInstances,
                   deviceVars, wsiVars, driverVars, inst, instanceFrame>>

(* ... before release_instance() drops the private data of the handle. *)
ReleaseInstance(t) ==
    /\ pc[t] = "release_instance"
    /\ instanceData' = instanceData \ {inst[t]}
    /\ inst' = [inst EXCEPT ![t] = None]
    /\ Goto(t, "idle")
    /\ UNCHANGED <<managedInstances, refCount, marked, latestInstance, appInstances,
                   driverInstances, deviceVars, wsiVars, driverVars, instanceFrame>>

-----------------------------------------------------------------------------
(* vkCreateDevice from a physical device of i: the driver makes it ... *)
CreateDevice(t, i, d) ==
    /\ pc[t] = "idle"
    /\ i \in appInstances \intersect instanceData
    /\ driverDevice[d] = 0
    /\ devicesMade < MaxDevices
    /\ devicesMade' = devicesMade + 1
    /\ driverDevice' = [driverDevice EXCEPT ![d] = devicesMade']
    /\ parent' = [parent EXCEPT ![d] = i]
    /\ dev' = [dev EXCEPT ![t] = d]
    /\ inst' = [inst EXCEPT ![t] = i]
    /\ Goto(t, "remember")
    /\ UNCHANGED <<instanceVars, deviceVars, wsiVars, appDevices, own, gen, got, cache>>

(* ... remember_managed_device() puts a dispatch table for it in the map ... *)
Remember(t) ==
    /\ pc[t] = "remember"
    /\ writer = None
    /\ writer' = t
    /\ managedDevices' = [managedDevices EXCEPT ![dev[t]] =
                             [number |-> driverDevice[dev[t]], parent |-> inst[t]]]
    /\ Goto(t, "remembered")
    /\ UNCHANGED <<instanceVars, generation, wsiVars, driverVars, localVars>>

(* ... and, as forget_managed_device() does, raises the generation ... *)
RaiseGeneration(t) ==
    /\ pc[t] \in {"remembered", "forgotten"}
    /\ generation' = generation + 1
    /\ writer' = None
    /\ Goto(t, IF pc[t] = "remembered" THEN "target" ELSE "release")
    /\ UNCHANGED <<instanceVars, managedDevices, wsiVars, driverVars, localVars>>

(* ... an instance is chosen under instance_mutex: the latest, unless it   *)
(* is the device's own; then the first one of the map ...                  *)
Targets(i) == IF latestInstance \in managedInstances \ {i} THEN {latestInstance}
              ELSE IF managedInstances = {} THEN {i} ELSE managedInstances

ChooseTarget(t) ==
    /\ pc[t] = "target"
    /\ inst' \in {[inst EXCEPT ![t] = i] : i \in Targets(inst[t])}
    /\ Goto(t, "init_device")
    /\ UNCHANGED <<instanceVars, deviceVars, wsiVars, driverVars, dev, own, gen, got, cache>>

(* The application gets the device. *)
Hand(t) == /\ appDevices' = appDevices \union {dev[t]}
           /\ dev' = [dev EXCEPT ![t] = None]
           /\ inst' = [inst EXCEPT ![t] = None]
           /\ Goto(t, "idle")

(* ... and WSIManager::init_device() makes private data that refers to it, *)
(* or fails, which is logged and no more.                                  *)
InitDevice(t) ==
    /\ pc[t] = "init_device"
    /\ inst[t] \in instanceData
    /\ \/ /\ dev[t] \notin wsiDevices
          /\ wsiDevices' = wsiDevices \union {dev[t]}
          /\ deviceData' = [deviceData EXCEPT ![dev[t]] =
                               [number |-> driverDevice[dev[t]], instance |-> inst[t]]]
       \/ UNCHANGED wsiVars
    /\ Hand(t)
    /\ UNCHANGED <<instanceVars, deviceVars, driverDevice, parent, devicesMade, own, gen,
                   got, cache>>

(* instance_private_data::get() throws: the chosen instance is gone, and   *)
(* nothing catches it.                                                     *)
InitDeviceThrows(t) ==
    /\ pc[t] = "init_device"
    /\ inst[t] \notin instanceData
    /\ pc' = [u \in Threads |-> "terminated"]
    /\ UNCHANGED <<instanceVars, deviceVars, wsiVars, driverVars, localVars>>

-----------------------------------------------------------------------------
(* vkDestroyDevice, which the application calls when no other thread uses  *)
(* the device.                                                             *)
InUse(d) == \E t \in Threads : pc[t] \in {"load", "find", "store", "call"} /\ own[t] /\ dev[t] = d

DestroyDevice(t, d) ==
    /\ pc[t] = "idle"
    /\ d \in appDevices
    /\ ~InUse(d)
    /\ appDevices' = appDevices \ {d}
    /\ dev' = [dev EXCEPT ![t] = d]
    /\ inst' = [inst EXCEPT ![t] = parent[d]]
    /\ Goto(t, "forget")
    /\ UNCHANGED <<instanceVars, deviceVars, wsiVars, driverDevice, parent, devicesMade, own, gen,
                   got, cache>>

(* forget_managed_device() ... *)
Forget(t) ==
    /\ pc[t] = "forget"
    /\ writer = None
    /\ writer' = t
    /\ managedDevices' = [managedDevices EXCEPT ![dev[t]] = None]
    /\ Goto(t, "forgotten")
    /\ UNCHANGED <<instanceVars, generation, wsiVars, driverVars, localVars>>

(* ... release_device(): out of the manager's map, then the private data ... *)
ReleaseDevice(t) ==
    /\ pc[t] = "release"
    /\ wsiDevices' = wsiDevices \ {dev[t]}
    /\ Goto(t, "disassociate")
    /\ UNCHANGED <<instanceVars, deviceVars, deviceData, driverVars, localVars>>

(* Mutant of Disassociate: the private data is looked for in the manager's *)
(* map, which the device has just left.                                    *)
DisassociateKnown(t) ==
    /\ pc[t] = "disassociate"
    /\ deviceData' = IF dev[t] \in wsiDevices THEN [deviceData EXCEPT ![dev[t]] = None]
                     ELSE deviceData
    /\ Goto(t, "driver_device")
    /\ UNCHANGED <<instanceVars, deviceVars, wsiDevices, driverVars, localVars>>

Disassociate(t) ==
    /\ pc[t] = "disassociate"
    /\ deviceData' = [deviceData EXCEPT ![dev[t]] = None]
    /\ Goto(t, "driver_device")
    /\ UNCHANGED <<instanceVars, deviceVars, wsiDevices, driverVars, localVars>>

(* ... and only then the driver, which may reuse the handle. *)
DriverDestroysDevice(t) ==
    /\ pc[t] = "driver_device"
    /\ driverDevice' = [driverDevice EXCEPT ![dev[t]] = 0]
    /\ parent' = [parent EXCEPT ![dev[t]] = None]
    /\ dev' = [dev EXCEPT ![t] = None]
    /\ inst' = [inst EXCEPT ![t] = None]
    /\ Goto(t, "idle")
    /\ UNCHANGED <<instanceVars, deviceVars, wsiVars, appDevices, devicesMade, own, gen, got,
                   cache>>

-----------------------------------------------------------------------------
(* Any call on a device goes through get_managed_device_dispatch().        *)
Use(t, d) ==
    /\ pc[t] = "idle"
    /\ d \in appDevices
    /\ dev' = [dev EXCEPT ![t] = d]
    /\ own' = [own EXCEPT ![t] = TRUE]
    /\ Goto(t, "load")
    /\ UNCHANGED <<instanceVars, deviceVars, wsiVars, driverVars, inst, gen, got, cache>>

(* A submission to a queue whose device is unknown takes any device from   *)
(* the map: get_any_managed_device().  Another thread may be destroying it. *)
UseAny(t, d) ==
    /\ pc[t] = "idle"
    /\ appDevices # {}
    /\ writer = None
    /\ managedDevices[d] # None
    /\ dev' = [dev EXCEPT ![t] = d]
    /\ own' = [own EXCEPT ![t] = FALSE]
    /\ Goto(t, "load")
    /\ UNCHANGED <<instanceVars, deviceVars, wsiVars, driverVars, inst, gen, got, cache>>

(* Mutant of LoadGeneration: the cache is tested for the device only. *)
LoadDeviceOnly(t) ==
    /\ pc[t] = "load"
    /\ gen' = [gen EXCEPT ![t] = generation]
    /\ IF cache[t].device = dev[t]
       THEN got' = [got EXCEPT ![t] = cache[t].dispatch] /\ Goto(t, "call")
       ELSE UNCHANGED got /\ Goto(t, "find")
    /\ UNCHANGED <<instanceVars, deviceVars, wsiVars, driverVars, dev, inst, own, cache>>

(* The generation is read first, without a lock; the cache is good if it   *)
(* was filled under the same generation, for the same device.              *)
LoadGeneration(t) ==
    /\ pc[t] = "load"
    /\ gen' = [gen EXCEPT ![t] = generation]
    /\ IF cache[t].generation = generation /\ cache[t].device = dev[t]
       THEN got' = [got EXCEPT ![t] = cache[t].dispatch] /\ Goto(t, "call")
       ELSE UNCHANGED got /\ Goto(t, "find")
    /\ UNCHANGED <<instanceVars, deviceVars, wsiVars, driverVars, dev, inst, own, cache>>

(* The map is read under the shared lock. *)
Find(t) ==
    /\ pc[t] = "find"
    /\ writer = None
    /\ got' = [got EXCEPT ![t] = managedDevices[dev[t]]]
    /\ Goto(t, "store")
    /\ UNCHANGED <<instanceVars, deviceVars, wsiVars, driverVars, dev, inst, own, gen, cache>>

(* The cache is filled with the generation read before. *)
Store(t) ==
    /\ pc[t] = "store"
    /\ cache' = [cache EXCEPT ![t] =
                    [generation |-> gen[t], device |-> dev[t], dispatch |-> got[t]]]
    /\ Goto(t, "call")
    /\ UNCHANGED <<instanceVars, deviceVars, wsiVars, driverVars, dev, inst, own, gen, got>>

(* The driver is called through the table; the locals go out of scope. *)
Call(t) ==
    /\ pc[t] = "call"
    /\ dev' = [dev EXCEPT ![t] = None]
    /\ own' = [own EXCEPT ![t] = FALSE]
    /\ gen' = [gen EXCEPT ![t] = 0]
    /\ got' = [got EXCEPT ![t] = None]
    /\ Goto(t, "idle")
    /\ UNCHANGED <<instanceVars, deviceVars, wsiVars, driverVars, inst, cache>>

-----------------------------------------------------------------------------
InstanceCalls(t) ==
    \/ \E i \in Instances : \/ CreateInstance(t, i) \/ CreateSurface(t, i)
                            \/ CreateDriverSurface(t, i)
                            \/ DestroySurface(t, i, "wrapper") \/ DestroySurface(t, i, "driver")
                            \/ DeferDestroyInstance(t, i) \/ DestroyInstance(t, i)
    \/ ForgetDevicesOf(t) \/ DriverDestroysInstance(t) \/ ReleaseInstance(t)

DeviceCalls(t) ==
    \/ \E d \in Devices : DestroyDevice(t, d) \/ \E i \in Instances : CreateDevice(t, i, d)
    \/ Remember(t) \/ RaiseGeneration(t) \/ ChooseTarget(t) \/ InitDevice(t) \/ InitDeviceThrows(t)
    \/ Forget(t) \/ ReleaseDevice(t) \/ Disassociate(t) \/ DriverDestroysDevice(t)

Lookups(t) ==
    \/ \E d \in Devices : Use(t, d) \/ UseAny(t, d)
    \/ LoadGeneration(t) \/ Find(t) \/ Store(t) \/ Call(t)

Next == \E t \in Threads : InstanceCalls(t) \/ DeviceCalls(t) \/ Lookups(t)

Spec == Init /\ [][Next]_vars

-----------------------------------------------------------------------------
(* Every variable keeps to the values its declaration allows, and the       *)
(* thread between the two writes of remember_managed_device() or            *)
(* forget_managed_device(), and no other, holds managed_device_mutex.       *)
Labels == {"idle", "load", "find", "store", "call", "remember", "remembered", "target",
           "init_device", "forget", "forgotten", "release", "disassociate", "driver_device",
           "forget_all", "driver_instance", "release_instance", "terminated"}

TypeOK ==
    /\ managedInstances \subseteq Instances /\ marked \subseteq Instances
    /\ refCount \in [Instances -> Int]
    /\ latestInstance \in Instances \union {None}
    /\ managedDevices \in [Devices -> Dispatch \union {None}]
    /\ generation \in Nat
    /\ writer \in Threads \union {None}
    /\ instanceData \subseteq Instances /\ wsiDevices \subseteq Devices
    /\ deviceData \in [Devices -> DeviceData \union {None}]
    /\ driverInstances \subseteq Instances
    /\ driverDevice \in [Devices -> 0 .. MaxDevices]
    /\ appInstances \subseteq Instances /\ appDevices \subseteq Devices
    /\ parent \in [Devices -> Instances \union {None}]
    /\ surfaces \in [Instances -> Surfaces]
    /\ devicesMade \in 0 .. MaxDevices
    /\ instancesMade \in 0 .. MaxInstances
    /\ surfacesMade \in 0 .. MaxSurfaces
    /\ pc \in [Threads -> Labels]
    /\ dev \in [Threads -> Devices \union {None}]
    /\ inst \in [Threads -> Instances \union {None}]
    /\ own \in [Threads -> BOOLEAN]
    /\ gen \in [Threads -> Nat]
    /\ got \in [Threads -> Dispatch \union {None}]
    /\ cache \in [Threads -> [generation : Nat, device : Devices \union {None},
                              dispatch : Dispatch \union {None}]]
    /\ \A t \in Threads : /\ pc[t] \in {"remembered", "forgotten"} => writer = t
                          /\ writer = t => pc[t] \in {"remembered", "forgotten", "terminated"}

(* What the driver has under a handle, as a dispatch table made for it says. *)
TableOf(d) == [number |-> driverDevice[d], parent |-> parent[d]]

(* The test get_managed_device_dispatch() makes without a lock is sound: a *)
(* thread whose cache has the current generation has in it what the map    *)
(* has, unless a writer is about to raise the generation.                  *)
CacheIsCurrent ==
    \A t \in Threads : (writer = None /\ cache[t].generation = generation)
        => /\ cache[t].device # None
           /\ cache[t].dispatch = managedDevices[cache[t].device]

(* A call on a device of the application goes to the driver through the    *)
(* table made for that device, never through one made for an earlier       *)
(* device under the same handle, and never finds none.                     *)
NeverStale ==
    \A t \in Threads : (pc[t] = "call" /\ own[t]) => got[t] = TableOf(dev[t])

(* The three registries agree with the driver on every device the          *)
(* application has, and hold nothing for a handle the driver is free to    *)
(* give out again.                                                         *)
RegistriesAgree ==
    \A d \in Devices :
        /\ d \in appDevices => /\ managedDevices[d] = TableOf(d)
                               /\ deviceData[d] # None => /\ deviceData[d].number = driverDevice[d]
                                                          /\ d \in wsiDevices
        /\ driverDevice[d] = 0 => /\ managedDevices[d] = None /\ deviceData[d] = None
                                  /\ d \notin wsiDevices

(* An instance whose destruction was put off because of its references     *)
(* still has a surface that will give up the last of them: vkDestroyInstance *)
(* returns early to "let reference cleanup handle it".                     *)
ReleasedWhenUnused == \A i \in marked \intersect managedInstances : surfaces[i] # NoSurface
=============================================================================
