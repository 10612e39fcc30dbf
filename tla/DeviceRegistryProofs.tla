------------------------ MODULE DeviceRegistryProofs ------------------------
(* That the cache of dispatch tables never serves an earlier device, and   *)
(* that the registries agree with the driver, for any number of threads,   *)
(* handles, instances, devices and surfaces.                               *)
EXTENDS DeviceRegistry, TLAPS

Making == {"remember", "remembered", "target", "init_device"}
Breaking == {"forget", "forgotten", "release", "disassociate", "driver_device"}
Busy(t) == pc[t] \in Making \union Breaking
Looking(t) == pc[t] \in {"load", "find", "store", "call"}
Leaving(t) == pc[t] \in {"forget_all", "driver_instance"}

(* The inductive invariant.  The surfaces are counted as they are made;    *)
SurfacesCounted == \A i \in Instances : /\ surfaces[i].wrapper =< surfacesMade
                                        /\ surfaces[i].driver =< surfacesMade

(* ... a table cached or found under the current generation is that of the *)
(* map, unless the writer has just changed it and is about to raise it;    *)
Written(d) == writer # None /\ dev[writer] = d

Fresh == \A t \in Threads :
    /\ cache[t].generation =< generation
    /\ cache[t].generation = generation =>
          /\ cache[t].device # None
          /\ cache[t].dispatch = managedDevices[cache[t].device] \/ Written(cache[t].device)
    /\ gen[t] =< generation
    /\ Looking(t) => dev[t] # None
    /\ pc[t] = "store" /\ gen[t] = generation =>
          got[t] = managedDevices[dev[t]] \/ Written(dev[t])

(* ... a device the application uses is its own while it uses it;          *)
OwnLookups == \A t \in Threads : Looking(t) /\ own[t] =>
    /\ dev[t] \in appDevices
    /\ pc[t] \in {"store", "call"} => got[t] = TableOf(dev[t])

(* ... the map and the manager know only what is alive in the driver;      *)
MapIsTrue == \A d \in Devices : managedDevices[d] # None =>
    driverDevice[d] # 0 /\ managedDevices[d] = TableOf(d)

DataIsTrue == \A d \in Devices :
    /\ deviceData[d] # None => driverDevice[d] # 0 /\ deviceData[d].number = driverDevice[d]
    /\ d \in wsiDevices => driverDevice[d] # 0

(* ... and all that the application has;                                   *)
Handed == \A d \in appDevices : /\ managedDevices[d] # None
                                /\ deviceData[d] # None => d \in wsiDevices

(* ... a device is created or destroyed by one thread, and the application *)
(* does not have it meanwhile;                                             *)
OneCaller == \A t \in Threads : Busy(t) =>
    /\ dev[t] \in Devices \ appDevices
    /\ driverDevice[dev[t]] # 0
    /\ \A u \in Threads \ {t} : Busy(u) => dev[u] # dev[t]

(* ... each stage of a creation or a destruction finds the work of the     *)
(* stages before it;                                                       *)
Stages == \A t \in Threads :
    /\ pc[t] \in Making => deviceData[dev[t]] = None
    /\ pc[t] = "remember" => inst[t] = parent[dev[t]] /\ inst[t] # None
    /\ pc[t] \in {"remembered", "target", "init_device"} => managedDevices[dev[t]] # None
    /\ pc[t] \in {"forgotten", "release", "disassociate", "driver_device"} =>
          managedDevices[dev[t]] = None
    /\ pc[t] \in {"disassociate", "driver_device"} => dev[t] \notin wsiDevices
    /\ pc[t] = "driver_device" => deviceData[dev[t]] = None

(* ... an instance is destroyed by one thread, after its devices;          *)
InstancesLeave ==
    /\ appInstances \subseteq driverInstances
    /\ \A t \in Threads : Leaving(t) =>
        /\ inst[t] \in driverInstances \ appInstances
        /\ \A u \in Threads \ {t} : Leaving(u) => inst[u] # inst[t]
        /\ pc[t] = "forget_all" => \A d \in Devices : driverDevice[d] # 0 => parent[d] # inst[t]

(* ... and an exception that nothing catches ends every thread.            *)
EndedTogether == \A t, u \in Threads : pc[t] = "terminated" => pc[u] = "terminated"

Registered == /\ Fresh /\ OwnLookups /\ MapIsTrue /\ DataIsTrue /\ Handed
              /\ OneCaller /\ Stages /\ InstancesLeave /\ EndedTogether

Inv == TypeOK /\ SurfacesCounted /\ Registered

-----------------------------------------------------------------------------
(* A step keeps every variable to its values: the writer's table needs a   *)
(* live device, and the count of the surfaces bounds those of an instance. *)
LEMMA TypeStep ==
    TypeOK /\ SurfacesCounted /\ Fresh /\ OneCaller /\ Stages /\ [Next]_vars
        => TypeOK' /\ SurfacesCounted'
<1> SUFFICES ASSUME TypeOK, SurfacesCounted, Fresh, OneCaller, Stages, [Next]_vars
             PROVE  TypeOK' /\ SurfacesCounted'
  OBVIOUS
<1> USE RegistryAssumption DEF TypeOK, SurfacesCounted, Goto, Labels, instanceVars, deviceVars,
        wsiVars, driverVars, localVars
<1>1. CASE UNCHANGED vars
  BY <1>1 DEF vars
<1>2. ASSUME NEW t \in Threads, InstanceCalls(t)
      PROVE  TypeOK' /\ SurfacesCounted'
  <2> USE DEF surfaceFrame, instanceFrame
  <2>1. ASSUME NEW i \in Instances, CreateInstance(t, i) PROVE TypeOK' /\ SurfacesCounted'
    BY <2>1 DEF CreateInstance
  <2>2. ASSUME NEW i \in Instances, CreateSurface(t, i) PROVE TypeOK' /\ SurfacesCounted'
    <3>1. surfacesMade' \in 0 .. MaxSurfaces /\ surfacesMade' = surfacesMade + 1
      BY <2>2 DEF CreateSurface
    <3>2. [surfaces[i] EXCEPT !.wrapper = @ + 1] \in Surfaces
      BY <2>2 DEF CreateSurface, Surfaces
    <3>3. surfaces' \in [Instances -> Surfaces] /\ SurfacesCounted'
      <4>1. CASE surfaces' = [surfaces EXCEPT ![i].wrapper = @ + 1]
        BY <4>1, <3>1, <3>2 DEF Surfaces
      <4>2. CASE UNCHANGED surfaces
        BY <4>2, <3>1 DEF Surfaces
      <4> QED
        BY <2>2, <4>1, <4>2 DEF CreateSurface
    <3>4. refCount' \in [Instances -> Int]
      BY <2>2 DEF CreateSurface, AddReference
    <3> QED
      BY <2>2, <3>1, <3>3, <3>4 DEF CreateSurface
  <2>3. ASSUME NEW i \in Instances, CreateDriverSurface(t, i) PROVE TypeOK' /\ SurfacesCounted'
    <3>1. surfacesMade' \in 0 .. MaxSurfaces /\ surfacesMade' = surfacesMade + 1
      BY <2>3 DEF CreateDriverSurface
    <3>2. [surfaces[i] EXCEPT !.driver = @ + 1] \in Surfaces
      BY <2>3 DEF CreateDriverSurface, Surfaces
    <3>3. surfaces' \in [Instances -> Surfaces] /\ SurfacesCounted'
      BY <2>3, <3>1, <3>2 DEF CreateDriverSurface, Surfaces
    <3> QED
      BY <2>3, <3>1, <3>3 DEF CreateDriverSurface
  <2>4. ASSUME NEW i \in Instances, DestroySurface(t, i, "wrapper")
        PROVE  TypeOK' /\ SurfacesCounted'
    <3>1. surfaces' \in [Instances -> Surfaces] /\ SurfacesCounted'
      BY <2>4 DEF DestroySurface, Surfaces
    <3> QED
      BY <2>4, <3>1 DEF DestroySurface, RemoveReference
  <2>5. ASSUME NEW i \in Instances, DestroySurface(t, i, "driver")
        PROVE  TypeOK' /\ SurfacesCounted'
    <3>1. surfaces' \in [Instances -> Surfaces] /\ SurfacesCounted'
      BY <2>5 DEF DestroySurface, Surfaces
    <3> QED
      BY <2>5, <3>1 DEF DestroySurface, RemoveReference
  <2>6. ASSUME NEW i \in Instances, DeferDestroyInstance(t, i) PROVE TypeOK' /\ SurfacesCounted'
    BY <2>6 DEF DeferDestroyInstance
  <2>7. ASSUME NEW i \in Instances, DestroyInstance(t, i) PROVE TypeOK' /\ SurfacesCounted'
    BY <2>7 DEF DestroyInstance
  <2>8. CASE ForgetDevicesOf(t)
    BY <2>8 DEF ForgetDevicesOf
  <2>9. CASE DriverDestroysInstance(t)
    BY <2>9 DEF DriverDestroysInstance
  <2>10. CASE ReleaseInstance(t)
    BY <2>10 DEF ReleaseInstance
  <2> QED
    BY <1>2, <2>1, <2>2, <2>3, <2>4, <2>5, <2>6, <2>7, <2>8, <2>9, <2>10 DEF InstanceCalls
<1>3. ASSUME NEW t \in Threads, DeviceCalls(t)
      PROVE  TypeOK' /\ SurfacesCounted'
  <2> USE DEF Dispatch, DeviceData, OneCaller, Stages, Busy, Making, Breaking
  <2>1. ASSUME NEW d \in Devices, NEW i \in Instances, CreateDevice(t, i, d)
        PROVE  TypeOK' /\ SurfacesCounted'
    BY <2>1 DEF CreateDevice
  <2>2. CASE Remember(t)
    BY <2>2 DEF Remember
  <2>3. CASE RaiseGeneration(t)
    BY <2>3 DEF RaiseGeneration
  <2>4. CASE ChooseTarget(t)
    <3>1. Targets(inst[t]) \subseteq Instances \union {None}
      BY DEF Targets
    <3>2. PICK i \in Targets(inst[t]) : inst' = [inst EXCEPT ![t] = i]
      BY <2>4 DEF ChooseTarget
    <3> QED
      BY <2>4, <3>1, <3>2 DEF ChooseTarget
  <2>5. CASE InitDevice(t)
    <3>1. /\ dev[t] \in Devices
          /\ inst[t] \in Instances
          /\ driverDevice[dev[t]] \in 1 .. MaxDevices
      BY <2>5 DEF InitDevice
    <3>2. wsiDevices' \subseteq Devices /\ deviceData' \in [Devices -> DeviceData \union {None}]
      BY <2>5, <3>1 DEF InitDevice
    <3>3. /\ appDevices' \subseteq Devices
          /\ dev' \in [Threads -> Devices \union {None}]
          /\ inst' \in [Threads -> Instances \union {None}]
          /\ pc' = [pc EXCEPT ![t] = "idle"]
      BY <2>5, <3>1 DEF InitDevice, Hand
    <3>4. UNCHANGED <<instanceVars, deviceVars, driverDevice, parent, devicesMade, own, gen, got,
                      cache>>
      BY <2>5 DEF InitDevice
    <3> HIDE DEF OneCaller, Stages, Dispatch, DeviceData
    <3> QED
      BY <2>5, <3>2, <3>3, <3>4 DEF InitDevice
  <2>6. CASE InitDeviceThrows(t)
    BY <2>6 DEF InitDeviceThrows
  <2>7. ASSUME NEW d \in Devices, DestroyDevice(t, d) PROVE TypeOK' /\ SurfacesCounted'
    BY <2>7 DEF DestroyDevice
  <2>8. CASE Forget(t)
    BY <2>8 DEF Forget
  <2>9. CASE ReleaseDevice(t)
    BY <2>9 DEF ReleaseDevice
  <2>10. CASE Disassociate(t)
    BY <2>10 DEF Disassociate
  <2>11. CASE DriverDestroysDevice(t)
    BY <2>11 DEF DriverDestroysDevice
  <2> QED
    BY <1>3, <2>1, <2>2, <2>3, <2>4, <2>5, <2>6, <2>7, <2>8, <2>9, <2>10, <2>11 DEF DeviceCalls
<1>4. ASSUME NEW t \in Threads, Lookups(t)
      PROVE  TypeOK' /\ SurfacesCounted'
  <2>1. ASSUME NEW d \in Devices, Use(t, d) PROVE TypeOK' /\ SurfacesCounted'
    BY <2>1 DEF Use
  <2>2. ASSUME NEW d \in Devices, UseAny(t, d) PROVE TypeOK' /\ SurfacesCounted'
    BY <2>2 DEF UseAny
  <2>3. CASE LoadGeneration(t)
    BY <2>3 DEF LoadGeneration
  <2>4. CASE Find(t)
    BY <2>4 DEF Find, Fresh, Looking
  <2>5. CASE Store(t)
    BY <2>5 DEF Store
  <2>6. CASE Call(t)
    BY <2>6 DEF Call
  <2> QED
    BY <1>4, <2>1, <2>2, <2>3, <2>4, <2>5, <2>6 DEF Lookups
<1> QED
  BY <1>1, <1>2, <1>3, <1>4 DEF Next

-----------------------------------------------------------------------------
(* What a thread has cached or found stays current: a writer changes the map *)
(* only between taking the lock and raising the generation past all caches. *)
LEMMA KeepFresh == TypeOK /\ TypeOK' /\ Registered /\ [Next]_vars => Fresh'
<1> SUFFICES ASSUME TypeOK, TypeOK', Registered, [Next]_vars PROVE Fresh'
  OBVIOUS
<1> USE RegistryAssumption DEF TypeOK, Goto, instanceVars, deviceVars, wsiVars, driverVars,
        localVars, Registered, Fresh, Written, Looking
<1>1. ASSUME NEW t \in Threads, InstanceCalls(t) PROVE Fresh'
  BY <1>1, SMTT(30) DEF InstanceCalls, CreateInstance, CreateSurface, CreateDriverSurface,
      DestroySurface, DeferDestroyInstance, DestroyInstance, Unused, ForgetDevicesOf,
      DriverDestroysInstance, ReleaseInstance, surfaceFrame, instanceFrame
<1>2. ASSUME NEW t \in Threads, DeviceCalls(t) PROVE Fresh'
  <2>1. ASSUME NEW d \in Devices, NEW i \in Instances, CreateDevice(t, i, d) PROVE Fresh'
    BY <2>1 DEF CreateDevice
  <2>2. CASE Remember(t)
    BY <2>2 DEF Remember
  <2>3. CASE RaiseGeneration(t)
    BY <2>3 DEF RaiseGeneration
  <2>4. CASE ChooseTarget(t)
    BY <2>4 DEF ChooseTarget
  <2>5. CASE InitDevice(t)
    BY <2>5 DEF InitDevice, Hand
  <2>6. CASE InitDeviceThrows(t)
    BY <2>6 DEF InitDeviceThrows
  <2>7. ASSUME NEW d \in Devices, DestroyDevice(t, d) PROVE Fresh'
    BY <2>7 DEF DestroyDevice, InUse
  <2>8. CASE Forget(t)
    BY <2>8 DEF Forget
  <2>9. CASE ReleaseDevice(t)
    BY <2>9 DEF ReleaseDevice
  <2>10. CASE Disassociate(t)
    BY <2>10 DEF Disassociate
  <2>11. CASE DriverDestroysDevice(t)
    BY <2>11 DEF DriverDestroysDevice
  <2> QED
    BY <1>2, <2>1, <2>2, <2>3, <2>4, <2>5, <2>6, <2>7, <2>8, <2>9, <2>10, <2>11 DEF DeviceCalls
<1>3. ASSUME NEW t \in Threads, Lookups(t) PROVE Fresh'
  <2>1. ASSUME NEW d \in Devices, Use(t, d) PROVE Fresh'
    BY <2>1 DEF Use
  <2>2. ASSUME NEW d \in Devices, UseAny(t, d) PROVE Fresh'
    BY <2>2 DEF UseAny
  <2>3. CASE LoadGeneration(t)
    BY <2>3 DEF LoadGeneration
  <2>4. CASE Find(t)
    BY <2>4 DEF Find
  <2>5. CASE Store(t)
    BY <2>5 DEF Store
  <2>6. CASE Call(t)
    BY <2>6 DEF Call
  <2> QED
    BY <1>3, <2>1, <2>2, <2>3, <2>4, <2>5, <2>6 DEF Lookups
<1>4. CASE UNCHANGED vars
  BY <1>4 DEF vars
<1> QED
  BY <1>1, <1>2, <1>3, <1>4 DEF Next

(* The table got for a device of the application is that device's: a writer *)
(* that makes a cached table stale works on a device nobody has.           *)
LEMMA KeepOwnLookups == TypeOK /\ TypeOK' /\ Registered /\ [Next]_vars => OwnLookups'
<1> SUFFICES ASSUME TypeOK, TypeOK', Registered, [Next]_vars PROVE OwnLookups'
  OBVIOUS
<1> USE RegistryAssumption DEF TypeOK, Goto, instanceVars, deviceVars, wsiVars, driverVars,
        localVars, Registered, Fresh, OwnLookups, MapIsTrue, Handed, OneCaller,
        EndedTogether, TableOf, Busy, Making, Breaking, Written, Looking
<1>1. ASSUME NEW t \in Threads, InstanceCalls(t) PROVE OwnLookups'
  BY <1>1, SMTT(30) DEF InstanceCalls, CreateInstance, CreateSurface, CreateDriverSurface,
      DestroySurface, DeferDestroyInstance, DestroyInstance, Unused, ForgetDevicesOf,
      DriverDestroysInstance, ReleaseInstance, surfaceFrame, instanceFrame
<1>2. ASSUME NEW t \in Threads, DeviceCalls(t) PROVE OwnLookups'
  BY <1>2, SMTT(30) DEF DeviceCalls, CreateDevice, Remember, RaiseGeneration, ChooseTarget,
      InitDevice, Hand, InitDeviceThrows, DestroyDevice, InUse, Forget, ReleaseDevice,
      Disassociate, DriverDestroysDevice
<1>3. ASSUME NEW t \in Threads, Lookups(t) PROVE OwnLookups'
  <2>1. ASSUME NEW d \in Devices, Use(t, d) PROVE OwnLookups'
    BY <2>1 DEF Use
  <2>2. ASSUME NEW d \in Devices, UseAny(t, d) PROVE OwnLookups'
    BY <2>2 DEF UseAny
  <2>3. CASE LoadGeneration(t)
    BY <2>3 DEF LoadGeneration
  <2>4. CASE Find(t)
    BY <2>4 DEF Find
  <2>5. CASE Store(t)
    BY <2>5 DEF Store
  <2>6. CASE Call(t)
    BY <2>6 DEF Call
  <2> QED
    BY <1>3, <2>1, <2>2, <2>3, <2>4, <2>5, <2>6 DEF Lookups
<1>4. CASE UNCHANGED vars
  BY <1>4 DEF vars
<1> QED
  BY <1>1, <1>2, <1>3, <1>4 DEF Next

(* The map holds tables of live devices only.                              *)
LEMMA KeepMapIsTrue == TypeOK /\ TypeOK' /\ Registered /\ [Next]_vars => MapIsTrue'
<1> SUFFICES ASSUME TypeOK, TypeOK', Registered, [Next]_vars PROVE MapIsTrue'
  OBVIOUS
<1> USE RegistryAssumption DEF TypeOK, Goto, instanceVars, deviceVars, wsiVars, driverVars,
        localVars, Registered, MapIsTrue, OneCaller, Stages, TableOf, Busy, Making, Breaking
<1>1. ASSUME NEW t \in Threads, InstanceCalls(t) PROVE MapIsTrue'
  BY <1>1, SMTT(30) DEF InstanceCalls, CreateInstance, CreateSurface, CreateDriverSurface,
      DestroySurface, DeferDestroyInstance, DestroyInstance, Unused, ForgetDevicesOf,
      DriverDestroysInstance, ReleaseInstance, surfaceFrame, instanceFrame
<1>2. ASSUME NEW t \in Threads, DeviceCalls(t) PROVE MapIsTrue'
  <2>1. ASSUME NEW d \in Devices, NEW i \in Instances, CreateDevice(t, i, d) PROVE MapIsTrue'
    BY <2>1 DEF CreateDevice
  <2>2. CASE Remember(t)
    BY <2>2 DEF Remember
  <2>3. CASE RaiseGeneration(t)
    BY <2>3 DEF RaiseGeneration
  <2>4. CASE ChooseTarget(t)
    BY <2>4 DEF ChooseTarget
  <2>5. CASE InitDevice(t)
    BY <2>5 DEF InitDevice, Hand
  <2>6. CASE InitDeviceThrows(t)
    BY <2>6 DEF InitDeviceThrows
  <2>7. ASSUME NEW d \in Devices, DestroyDevice(t, d) PROVE MapIsTrue'
    BY <2>7 DEF DestroyDevice, InUse
  <2>8. CASE Forget(t)
    BY <2>8 DEF Forget
  <2>9. CASE ReleaseDevice(t)
    BY <2>9 DEF ReleaseDevice
  <2>10. CASE Disassociate(t)
    BY <2>10 DEF Disassociate
  <2>11. CASE DriverDestroysDevice(t)
    BY <2>11 DEF DriverDestroysDevice
  <2> QED
    BY <1>2, <2>1, <2>2, <2>3, <2>4, <2>5, <2>6, <2>7, <2>8, <2>9, <2>10, <2>11 DEF DeviceCalls
<1>3. ASSUME NEW t \in Threads, Lookups(t) PROVE MapIsTrue'
  BY <1>3, SMTT(30) DEF Lookups, Use, UseAny, LoadGeneration, Find, Store, Call
<1>4. CASE UNCHANGED vars
  BY <1>4 DEF vars
<1> QED
  BY <1>1, <1>2, <1>3, <1>4 DEF Next

(* So do the manager and the private data.                                 *)
LEMMA KeepDataIsTrue == TypeOK /\ TypeOK' /\ Registered /\ [Next]_vars => DataIsTrue'
<1> SUFFICES ASSUME TypeOK, TypeOK', Registered, [Next]_vars PROVE DataIsTrue'
  OBVIOUS
<1> USE RegistryAssumption DEF TypeOK, Goto, instanceVars, deviceVars, wsiVars, driverVars,
        localVars, Registered, DataIsTrue, OneCaller, Stages, Busy, Making, Breaking
<1>1. ASSUME NEW t \in Threads, InstanceCalls(t) PROVE DataIsTrue'
  BY <1>1, SMTT(30) DEF InstanceCalls, CreateInstance, CreateSurface, CreateDriverSurface,
      DestroySurface, DeferDestroyInstance, DestroyInstance, Unused, ForgetDevicesOf,
      DriverDestroysInstance, ReleaseInstance, surfaceFrame, instanceFrame
<1>2. ASSUME NEW t \in Threads, DeviceCalls(t) PROVE DataIsTrue'
  <2>1. ASSUME NEW d \in Devices, NEW i \in Instances, CreateDevice(t, i, d) PROVE DataIsTrue'
    BY <2>1 DEF CreateDevice
  <2>2. CASE Remember(t)
    BY <2>2 DEF Remember
  <2>3. CASE RaiseGeneration(t)
    BY <2>3 DEF RaiseGeneration
  <2>4. CASE ChooseTarget(t)
    BY <2>4 DEF ChooseTarget
  <2>5. CASE InitDevice(t)
    BY <2>5 DEF InitDevice, Hand
  <2>6. CASE InitDeviceThrows(t)
    BY <2>6 DEF InitDeviceThrows
  <2>7. ASSUME NEW d \in Devices, DestroyDevice(t, d) PROVE DataIsTrue'
    BY <2>7 DEF DestroyDevice, InUse
  <2>8. CASE Forget(t)
    BY <2>8 DEF Forget
  <2>9. CASE ReleaseDevice(t)
    BY <2>9 DEF ReleaseDevice
  <2>10. CASE Disassociate(t)
    BY <2>10 DEF Disassociate
  <2>11. CASE DriverDestroysDevice(t)
    BY <2>11 DEF DriverDestroysDevice
  <2> QED
    BY <1>2, <2>1, <2>2, <2>3, <2>4, <2>5, <2>6, <2>7, <2>8, <2>9, <2>10, <2>11 DEF DeviceCalls
<1>3. ASSUME NEW t \in Threads, Lookups(t) PROVE DataIsTrue'
  BY <1>3, SMTT(30) DEF Lookups, Use, UseAny, LoadGeneration, Find, Store, Call
<1>4. CASE UNCHANGED vars
  BY <1>4 DEF vars
<1> QED
  BY <1>1, <1>2, <1>3, <1>4 DEF Next

(* What the application has is in all of them.                             *)
LEMMA KeepHanded == TypeOK /\ TypeOK' /\ Registered /\ [Next]_vars => Handed'
<1> SUFFICES ASSUME TypeOK, TypeOK', Registered, [Next]_vars PROVE Handed'
  OBVIOUS
<1> USE RegistryAssumption DEF TypeOK, Goto, instanceVars, deviceVars, wsiVars, driverVars,
        localVars, Registered, Handed, MapIsTrue, OneCaller, Stages, InstancesLeave,
        TableOf, Busy, Making, Breaking, Leaving
<1>1. ASSUME NEW t \in Threads, InstanceCalls(t) PROVE Handed'
  BY <1>1, SMTT(30) DEF InstanceCalls, CreateInstance, CreateSurface, CreateDriverSurface,
      DestroySurface, DeferDestroyInstance, DestroyInstance, Unused, ForgetDevicesOf,
      DriverDestroysInstance, ReleaseInstance, surfaceFrame, instanceFrame
<1>2. ASSUME NEW t \in Threads, DeviceCalls(t) PROVE Handed'
  <2>1. ASSUME NEW d \in Devices, NEW i \in Instances, CreateDevice(t, i, d) PROVE Handed'
    BY <2>1 DEF CreateDevice
  <2>2. CASE Remember(t)
    BY <2>2 DEF Remember
  <2>3. CASE RaiseGeneration(t)
    BY <2>3 DEF RaiseGeneration
  <2>4. CASE ChooseTarget(t)
    BY <2>4 DEF ChooseTarget
  <2>5. CASE InitDevice(t)
    BY <2>5 DEF InitDevice, Hand
  <2>6. CASE InitDeviceThrows(t)
    BY <2>6 DEF InitDeviceThrows
  <2>7. ASSUME NEW d \in Devices, DestroyDevice(t, d) PROVE Handed'
    BY <2>7 DEF DestroyDevice, InUse
  <2>8. CASE Forget(t)
    BY <2>8 DEF Forget
  <2>9. CASE ReleaseDevice(t)
    BY <2>9 DEF ReleaseDevice
  <2>10. CASE Disassociate(t)
    BY <2>10 DEF Disassociate
  <2>11. CASE DriverDestroysDevice(t)
    BY <2>11 DEF DriverDestroysDevice
  <2> QED
    BY <1>2, <2>1, <2>2, <2>3, <2>4, <2>5, <2>6, <2>7, <2>8, <2>9, <2>10, <2>11 DEF DeviceCalls
<1>3. ASSUME NEW t \in Threads, Lookups(t) PROVE Handed'
  BY <1>3, SMTT(30) DEF Lookups, Use, UseAny, LoadGeneration, Find, Store, Call
<1>4. CASE UNCHANGED vars
  BY <1>4 DEF vars
<1> QED
  BY <1>1, <1>2, <1>3, <1>4 DEF Next

(* A device belongs to one creation or destruction, or to the application. *)
LEMMA KeepOneCaller == TypeOK /\ TypeOK' /\ Registered /\ [Next]_vars => OneCaller'
<1> SUFFICES ASSUME TypeOK, TypeOK', Registered, [Next]_vars PROVE OneCaller'
  OBVIOUS
<1> USE RegistryAssumption DEF TypeOK, Goto, instanceVars, deviceVars, wsiVars, driverVars,
        localVars, Registered, OneCaller, Handed, MapIsTrue, Busy, Making, Breaking
<1>1. ASSUME NEW t \in Threads, InstanceCalls(t) PROVE OneCaller'
  BY <1>1, SMTT(30) DEF InstanceCalls, CreateInstance, CreateSurface, CreateDriverSurface,
      DestroySurface, DeferDestroyInstance, DestroyInstance, Unused, ForgetDevicesOf,
      DriverDestroysInstance, ReleaseInstance, surfaceFrame, instanceFrame
<1>2. ASSUME NEW t \in Threads, DeviceCalls(t) PROVE OneCaller'
  <2>1. ASSUME NEW d \in Devices, NEW i \in Instances, CreateDevice(t, i, d) PROVE OneCaller'
    BY <2>1 DEF CreateDevice
  <2>2. CASE Remember(t)
    BY <2>2 DEF Remember
  <2>3. CASE RaiseGeneration(t)
    BY <2>3 DEF RaiseGeneration
  <2>4. CASE ChooseTarget(t)
    BY <2>4 DEF ChooseTarget
  <2>5. CASE InitDevice(t)
    BY <2>5 DEF InitDevice, Hand
  <2>6. CASE InitDeviceThrows(t)
    BY <2>6 DEF InitDeviceThrows
  <2>7. ASSUME NEW d \in Devices, DestroyDevice(t, d) PROVE OneCaller'
    BY <2>7 DEF DestroyDevice, InUse
  <2>8. CASE Forget(t)
    BY <2>8 DEF Forget
  <2>9. CASE ReleaseDevice(t)
    BY <2>9 DEF ReleaseDevice
  <2>10. CASE Disassociate(t)
    BY <2>10 DEF Disassociate
  <2>11. CASE DriverDestroysDevice(t)
    BY <2>11 DEF DriverDestroysDevice
  <2> QED
    BY <1>2, <2>1, <2>2, <2>3, <2>4, <2>5, <2>6, <2>7, <2>8, <2>9, <2>10, <2>11 DEF DeviceCalls
<1>3. ASSUME NEW t \in Threads, Lookups(t) PROVE OneCaller'
  BY <1>3, SMTT(30) DEF Lookups, Use, UseAny, LoadGeneration, Find, Store, Call
<1>4. CASE UNCHANGED vars
  BY <1>4 DEF vars
<1> QED
  BY <1>1, <1>2, <1>3, <1>4 DEF Next

(* The stages of a creation or a destruction do not undo one another.      *)
LEMMA KeepStages == TypeOK /\ TypeOK' /\ Registered /\ [Next]_vars => Stages'
<1> SUFFICES ASSUME TypeOK, TypeOK', Registered, [Next]_vars PROVE Stages'
  OBVIOUS
<1> USE RegistryAssumption DEF TypeOK, Goto, instanceVars, deviceVars, wsiVars, driverVars,
        localVars, Registered, Stages, OneCaller, MapIsTrue, DataIsTrue, Handed,
        InstancesLeave, TableOf, Busy, Making, Breaking, Leaving
<1>1. ASSUME NEW t \in Threads, InstanceCalls(t) PROVE Stages'
  BY <1>1, SMTT(30) DEF InstanceCalls, CreateInstance, CreateSurface, CreateDriverSurface,
      DestroySurface, DeferDestroyInstance, DestroyInstance, Unused, ForgetDevicesOf,
      DriverDestroysInstance, ReleaseInstance, surfaceFrame, instanceFrame
<1>2. ASSUME NEW t \in Threads, DeviceCalls(t) PROVE Stages'
  <2>1. ASSUME NEW d \in Devices, NEW i \in Instances, CreateDevice(t, i, d) PROVE Stages'
    BY <2>1 DEF CreateDevice
  <2>2. CASE Remember(t)
    <3>1. /\ dev[t] \in Devices
          /\ [number |-> driverDevice[dev[t]], parent |-> inst[t]] \in Dispatch
      BY <2>2 DEF Remember, Dispatch
    <3>2. managedDevices'[dev[t]] # None
      BY <2>2, <3>1 DEF Remember
    <3> QED
      BY <2>2, <3>1, <3>2 DEF Remember
  <2>3. CASE RaiseGeneration(t)
    BY <2>3 DEF RaiseGeneration
  <2>4. CASE ChooseTarget(t)
    BY <2>4 DEF ChooseTarget
  <2>5. CASE InitDevice(t)
    BY <2>5 DEF InitDevice, Hand
  <2>6. CASE InitDeviceThrows(t)
    BY <2>6 DEF InitDeviceThrows
  <2>7. ASSUME NEW d \in Devices, DestroyDevice(t, d) PROVE Stages'
    BY <2>7 DEF DestroyDevice, InUse
  <2>8. CASE Forget(t)
    BY <2>8 DEF Forget
  <2>9. CASE ReleaseDevice(t)
    BY <2>9 DEF ReleaseDevice
  <2>10. CASE Disassociate(t)
    BY <2>10 DEF Disassociate
  <2>11. CASE DriverDestroysDevice(t)
    BY <2>11 DEF DriverDestroysDevice
  <2> QED
    BY <1>2, <2>1, <2>2, <2>3, <2>4, <2>5, <2>6, <2>7, <2>8, <2>9, <2>10, <2>11 DEF DeviceCalls
<1>3. ASSUME NEW t \in Threads, Lookups(t) PROVE Stages'
  BY <1>3, SMTT(30) DEF Lookups, Use, UseAny, LoadGeneration, Find, Store, Call
<1>4. CASE UNCHANGED vars
  BY <1>4 DEF vars
<1> QED
  BY <1>1, <1>2, <1>3, <1>4 DEF Next

(* An instance is gone from the application before the driver destroys it. *)
LEMMA KeepInstancesLeave == TypeOK /\ TypeOK' /\ Registered /\ [Next]_vars => InstancesLeave'
<1> SUFFICES ASSUME TypeOK, TypeOK', Registered, [Next]_vars PROVE InstancesLeave'
  OBVIOUS
<1> USE RegistryAssumption DEF TypeOK, Goto, instanceVars, deviceVars, wsiVars, driverVars,
        localVars, Registered, InstancesLeave, Leaving
<1>1. ASSUME NEW t \in Threads, InstanceCalls(t) PROVE InstancesLeave'
  <2>1. ASSUME NEW i \in Instances, CreateInstance(t, i) PROVE InstancesLeave'
    BY <2>1 DEF CreateInstance
  <2>2. ASSUME NEW i \in Instances, CreateSurface(t, i) PROVE InstancesLeave'
    BY <2>2 DEF CreateSurface, surfaceFrame
  <2>3. ASSUME NEW i \in Instances, CreateDriverSurface(t, i) PROVE InstancesLeave'
    BY <2>3 DEF CreateDriverSurface, surfaceFrame
  <2>4. ASSUME NEW i \in Instances, DestroySurface(t, i, "wrapper") PROVE InstancesLeave'
    BY <2>4 DEF DestroySurface, surfaceFrame
  <2>5. ASSUME NEW i \in Instances, DestroySurface(t, i, "driver") PROVE InstancesLeave'
    BY <2>5 DEF DestroySurface, surfaceFrame
  <2>6. ASSUME NEW i \in Instances, DeferDestroyInstance(t, i) PROVE InstancesLeave'
    BY <2>6 DEF DeferDestroyInstance, instanceFrame
  <2>7. ASSUME NEW i \in Instances, DestroyInstance(t, i) PROVE InstancesLeave'
    BY <2>7 DEF DestroyInstance, Unused, instanceFrame
  <2>8. CASE ForgetDevicesOf(t)
    BY <2>8 DEF ForgetDevicesOf, instanceFrame
  <2>9. CASE DriverDestroysInstance(t)
    BY <2>9 DEF DriverDestroysInstance, instanceFrame
  <2>10. CASE ReleaseInstance(t)
    BY <2>10 DEF ReleaseInstance, instanceFrame
  <2> QED
    BY <1>1, <2>1, <2>2, <2>3, <2>4, <2>5, <2>6, <2>7, <2>8, <2>9, <2>10 DEF InstanceCalls
<1>2. ASSUME NEW t \in Threads, DeviceCalls(t) PROVE InstancesLeave'
  <2>1. ASSUME NEW d \in Devices, NEW i \in Instances, CreateDevice(t, i, d) PROVE InstancesLeave'
    BY <2>1 DEF CreateDevice
  <2>2. CASE Remember(t)
    BY <2>2 DEF Remember
  <2>3. CASE RaiseGeneration(t)
    BY <2>3 DEF RaiseGeneration
  <2>4. CASE ChooseTarget(t)
    BY <2>4 DEF ChooseTarget
  <2>5. CASE InitDevice(t)
    BY <2>5 DEF InitDevice, Hand
  <2>6. CASE InitDeviceThrows(t)
    BY <2>6 DEF InitDeviceThrows
  <2>7. ASSUME NEW d \in Devices, DestroyDevice(t, d) PROVE InstancesLeave'
    BY <2>7 DEF DestroyDevice, InUse
  <2>8. CASE Forget(t)
    BY <2>8 DEF Forget
  <2>9. CASE ReleaseDevice(t)
    BY <2>9 DEF ReleaseDevice
  <2>10. CASE Disassociate(t)
    BY <2>10 DEF Disassociate
  <2>11. CASE DriverDestroysDevice(t)
    BY <2>11 DEF DriverDestroysDevice
  <2> QED
    BY <1>2, <2>1, <2>2, <2>3, <2>4, <2>5, <2>6, <2>7, <2>8, <2>9, <2>10, <2>11 DEF DeviceCalls
<1>3. ASSUME NEW t \in Threads, Lookups(t) PROVE InstancesLeave'
  BY <1>3, SMTT(30) DEF Lookups, Use, UseAny, LoadGeneration, Find, Store, Call
<1>4. CASE UNCHANGED vars
  BY <1>4 DEF vars
<1> QED
  BY <1>1, <1>2, <1>3, <1>4 DEF Next

(* All threads end together.                                               *)
LEMMA KeepEndedTogether == TypeOK /\ TypeOK' /\ Registered /\ [Next]_vars => EndedTogether'
<1> SUFFICES ASSUME TypeOK, TypeOK', Registered, [Next]_vars PROVE EndedTogether'
  OBVIOUS
<1> USE RegistryAssumption DEF TypeOK, Goto, instanceVars, deviceVars, wsiVars, driverVars,
        localVars, Registered, EndedTogether
<1>1. ASSUME NEW t \in Threads, InstanceCalls(t) PROVE EndedTogether'
  BY <1>1, SMTT(30) DEF InstanceCalls, CreateInstance, CreateSurface, CreateDriverSurface,
      DestroySurface, DeferDestroyInstance, DestroyInstance, Unused, ForgetDevicesOf,
      DriverDestroysInstance, ReleaseInstance, surfaceFrame, instanceFrame
<1>2. ASSUME NEW t \in Threads, DeviceCalls(t) PROVE EndedTogether'
  BY <1>2, SMTT(30) DEF DeviceCalls, CreateDevice, Remember, RaiseGeneration, ChooseTarget,
      InitDevice, Hand, InitDeviceThrows, DestroyDevice, InUse, Forget, ReleaseDevice,
      Disassociate, DriverDestroysDevice
<1>3. ASSUME NEW t \in Threads, Lookups(t) PROVE EndedTogether'
  BY <1>3, SMTT(30) DEF Lookups, Use, UseAny, LoadGeneration, Find, Store, Call
<1>4. CASE UNCHANGED vars
  BY <1>4 DEF vars
<1> QED
  BY <1>1, <1>2, <1>3, <1>4 DEF Next
-----------------------------------------------------------------------------
(* The invariant holds at the start and is kept by every step. *)
LEMMA InvInit == Init => Inv
<1> SUFFICES ASSUME Init PROVE Inv
  OBVIOUS
<1> USE RegistryAssumption DEF Init
<1>1. TypeOK
  <2>1. /\ refCount \in [Instances -> Int]
        /\ surfaces \in [Instances -> Surfaces]
        /\ parent \in [Devices -> Instances \union {None}]
        /\ driverDevice \in [Devices -> 0 .. MaxDevices]
    BY DEF Surfaces, NoSurface
  <2>2. /\ managedDevices \in [Devices -> Dispatch \union {None}]
        /\ deviceData \in [Devices -> DeviceData \union {None}]
    OBVIOUS
  <2>3. /\ pc \in [Threads -> Labels]
        /\ dev \in [Threads -> Devices \union {None}]
        /\ inst \in [Threads -> Instances \union {None}]
        /\ own \in [Threads -> BOOLEAN]
        /\ gen \in [Threads -> Nat]
        /\ got \in [Threads -> Dispatch \union {None}]
    BY DEF Labels
  <2>4. cache \in [Threads -> [generation : Nat, device : Devices \union {None},
                               dispatch : Dispatch \union {None}]]
    OBVIOUS
  <2>5. \A t \in Threads : pc[t] = "idle" /\ writer # t
    OBVIOUS
  <2> QED
    BY <2>1, <2>2, <2>3, <2>4, <2>5 DEF TypeOK
<1>2. SurfacesCounted
  BY DEF SurfacesCounted, NoSurface
<1>3. Fresh /\ OwnLookups
  BY DEF Fresh, OwnLookups, Looking
<1>4. MapIsTrue /\ DataIsTrue /\ Handed
  BY DEF MapIsTrue, DataIsTrue, Handed
<1>5. OneCaller /\ Stages /\ InstancesLeave /\ EndedTogether
  BY DEF OneCaller, Stages, InstancesLeave, EndedTogether, Busy, Making, Breaking, Leaving
<1> QED
  BY <1>1, <1>2, <1>3, <1>4, <1>5 DEF Inv, Registered

LEMMA InvStep == Inv /\ [Next]_vars => Inv'
<1> SUFFICES ASSUME Inv, [Next]_vars PROVE Inv'
  OBVIOUS
<1>1. TypeOK' /\ SurfacesCounted'
  BY TypeStep DEF Inv, Registered
<1>2. Fresh' /\ OwnLookups' /\ MapIsTrue' /\ DataIsTrue' /\ Handed'
  BY <1>1, KeepFresh, KeepOwnLookups, KeepMapIsTrue, KeepDataIsTrue, KeepHanded DEF Inv
<1>3. OneCaller' /\ Stages' /\ InstancesLeave' /\ EndedTogether'
  BY <1>1, KeepOneCaller, KeepStages, KeepInstancesLeave, KeepEndedTogether DEF Inv
<1> QED
  BY <1>1, <1>2, <1>3 DEF Inv, Registered

LEMMA InvHolds == Spec => []Inv
<1>1. Init => Inv
  BY InvInit
<1>2. Inv /\ [Next]_vars => Inv'
  BY InvStep
<1> QED
  BY <1>1, <1>2, PTL DEF Spec

-----------------------------------------------------------------------------
(* The state of the registries is well formed in every behaviour.          *)
THEOREM TypeCorrect == Spec => []TypeOK
<1>1. Spec => []Inv
  BY InvHolds
<1>2. Inv => TypeOK
  BY DEF Inv
<1> QED
  BY <1>1, <1>2, PTL

(* The test of the generation without a lock is sound: with no writer at   *)
(* work, a cache of the current generation has what the map has.           *)
THEOREM CacheCurrent == Spec => []CacheIsCurrent
<1>1. Spec => []Inv
  BY InvHolds
<1>2. Inv => CacheIsCurrent
  BY DEF Inv, Registered, Fresh, Written, CacheIsCurrent
<1> QED
  BY <1>1, <1>2, PTL

(* A call on a device of the application never goes through the table of   *)
(* an earlier device under the same handle, and always finds one.          *)
THEOREM CallsNeverStale == Spec => []NeverStale
<1>1. Spec => []Inv
  BY InvHolds
<1>2. Inv => NeverStale
  BY DEF Inv, Registered, OwnLookups, Looking, NeverStale
<1> QED
  BY <1>1, <1>2, PTL

(* The map, the manager and the private data agree with the driver on what *)
(* the application has, and hold nothing for a handle that is free.        *)
THEOREM RegistriesCorrect == Spec => []RegistriesAgree
<1>1. Spec => []Inv
  BY InvHolds
<1>2. Inv => RegistriesAgree
  <2> SUFFICES ASSUME Inv, NEW d \in Devices
               PROVE  /\ d \in appDevices =>
                            /\ managedDevices[d] = TableOf(d)
                            /\ deviceData[d] # None => /\ deviceData[d].number = driverDevice[d]
                                                       /\ d \in wsiDevices
                      /\ driverDevice[d] = 0 =>
                            managedDevices[d] = None /\ deviceData[d] = None /\ d \notin wsiDevices
    BY DEF RegistriesAgree
  <2> QED
    BY DEF Inv, Registered, MapIsTrue, DataIsTrue, Handed
<1> QED
  BY <1>1, <1>2, PTL
=============================================================================
