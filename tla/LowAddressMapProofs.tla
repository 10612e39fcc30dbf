------------------------ MODULE LowAddressMapProofs ------------------------
(* That copies touch only live memory, that no low region is lost and that *)
(* no write of the host is, for any threads, allocations, devices, regions *)
(* and sizes.                                                              *)
EXTENDS LowAddressMap, FiniteSetTheorems, TLAPS

(* The inductive invariant.  An allocation is in one call at a time;       *)
OneCall == \A t \in Threads :
    /\ pc[t] = "idle" <=> mem[t] = None
    /\ \A u \in Threads \ {t} : mem[t] # None => mem[u] # mem[t]

(* ... the size recorded of what the application has is that of the        *)
(* driver, and a mapped range lies inside it;                              *)
SizesAgree ==
    /\ \A m \in appMemory : tracked[m] = size[m] /\ size[m] > 0
    /\ \A t \in Threads : pc[t] = "track" => size[mem[t]] > 0
    /\ \A m \in Memories : driverMap[m] # None =>
           driverMap[m].offset + driverMap[m].size =< size[m]

(* ... an entry of the table has a live region and the range that the      *)
(* driver has mapped;                                                      *)
Maps(mapping, m) == /\ mapping.low \in live
                    /\ driverMap[m] # None
                    /\ mapping.offset = driverMap[m].offset
                    /\ mapping.size = driverMap[m].size

EntriesMap == \A m \in Memories : entry[m] # None => m \in appMemory /\ Maps(entry[m], m)

(* ... vkMapMemory on its way has mapped what it was asked for, and        *)
(* resolves it to what the driver mapped;                                  *)
Mapping == \A t \in Threads : pc[t] \in {"mapped", "resolved", "install"} =>
    /\ mem[t] \in appMemory
    /\ entry[mem[t]] = None
    /\ driverMap[mem[t]] # None
    /\ request[t] # None
    /\ request[t].offset = driverMap[mem[t]].offset
    /\ pc[t] = "mapped" =>
          driverMap[mem[t]].size = IF request[t].size = WholeSize
                                   THEN size[mem[t]] - request[t].offset ELSE request[t].size
    /\ pc[t] # "mapped" => driverMap[mem[t]].size = request[t].size

(* ... a call that takes a mapping out has taken it out of the table;      *)
Removing == \A t \in Threads :
    /\ pc[t] \in {"finalize", "driver_unmap", "erased", "driver_free"} => entry[mem[t]] = None
    /\ pc[t] \in {"finalize", "driver_unmap"} => pointer[mem[t]] = "none"
    /\ pc[t] \in {"track", "erased", "driver_free"} => mem[t] \notin appMemory

(* ... what a call holds is live, and mapped unless it is being freed;     *)
Holding == \A t \in Threads :
    /\ pc[t] = "install" => held[t] # None
    /\ held[t] # None => /\ pc[t] \in {"install", "finalize", "erased"}
                         /\ held[t].low \in live
                         /\ pc[t] # "erased" => Maps(held[t], mem[t])

(* ... no region is in two places;                                         *)
LowsDiffer ==
    /\ \A m, n \in Memories : m # n /\ entry[m] # None /\ entry[n] # None
           => entry[m].low # entry[n].low
    /\ \A m \in Memories, t \in Threads : entry[m] # None /\ held[t] # None
           => entry[m].low # held[t].low
    /\ \A t, u \in Threads : t # u /\ held[t] # None /\ held[u] # None
           => held[t].low # held[u].low

(* ... every live region is in the table or held by a call;                *)
LiveOwned == \A low \in live : \/ \E m \in Memories : entry[m] # None /\ entry[m].low = low
                               \/ \E t \in Threads : held[t] # None /\ held[t].low = low

(* ... the pointer of the application is that of the entry;                *)
PointersMatch == \A m \in Memories :
    /\ pointer[m] # "none" => m \in appMemory /\ driverMap[m] # None
    /\ pointer[m] \in {"alias", "shadow"} => entry[m] # None /\ entry[m].mode = pointer[m]

(* ... the shadows counted are those of the table and of the calls;        *)
TableShadows == {m \in Memories : IsShadow(entry[m])}
HeldShadows == {t \in Threads : pc[t] # "install" /\ IsShadow(held[t])}
Counted == activeShadows = Cardinality(TableShadows) + Cardinality(HeldShadows)

(* ... and what is newest below is in a shadow that a call or a submission *)
(* will copy, or in memory that is being freed.                            *)
InShadow(mapping, c) == IsShadow(mapping) /\ c \in CellsOf(mapping)
LowIsKept == \A m \in Memories, c \in CellNumbers :
    /\ newest[m][c] # "host_write_lost"
    /\ newest[m][c] = "low" =>
          \/ InShadow(entry[m], c)
          \/ \E t \in Threads : /\ mem[t] = m
                                 /\ \/ pc[t] = "finalize" /\ InShadow(held[t], c)
                                    \/ pc[t] \in {"erased", "driver_free"}

Safe == /\ OneCall /\ SizesAgree /\ EntriesMap /\ Mapping /\ Removing /\ Holding /\ LowsDiffer
        /\ LiveOwned /\ PointersMatch /\ LowIsKept

Inv == TypeOK /\ Safe /\ Counted

-----------------------------------------------------------------------------
(* The steps, sorted: those that only write or copy data change nothing    *)
(* but newest and jobs.                                                    *)
Moves(t) ==
    \/ \E m \in Memories : \/ \E n \in 1 .. MaxSize : AllocateMemory(t, m, n)
                           \/ \E r \in Ranges : MapMemory(t, m, r)
                           \/ Pop(t, m) \/ FreeMemory(t, m)
    \/ \E d \in Devices : DestroyDevice(t, d)
    \/ Steps(t)

LEMMA StepsSorted == ASSUME [Next]_vars PROVE UNCHANGED dataFrame \/ \E t \in Threads : Moves(t)
BY DEF Next, Calls, Moves, vars, dataFrame, Flush, Invalidate, Submit, HostWrites, DeviceWrites,
       DeviceFinishes, driverVars, tableVars, regionVars, appVars, threadVars

-----------------------------------------------------------------------------
(* A region made by vkMapMemory is what the call says it holds.            *)
LEMMA NewRegionMaps ==
    ASSUME Shape, Safe, NEW t \in Threads, NEW mode \in {"alias", "shadow"}, NewRegion(t, mode)
    PROVE  Shape' /\ Holding'
<1> USE LowAddressAssumption DEF NewRegion, FreeRegions, Goto, driverVars, tableVars, regionVars, appVars, threadVars
<1>0. /\ mem[t] \in Memories /\ request[t] \in [offset : CellNumbers, size : 1 .. MaxSize]
      /\ driverMap[mem[t]] # None
      /\ driverMap[mem[t]].offset = request[t].offset
      /\ driverMap[mem[t]].size = request[t].size
      /\ held[t] = None
  <2>1. mem[t] \in Memories
    BY DEF Shape, Safe, OneCall
  <2>2. /\ request[t] # None /\ driverMap[mem[t]] # None /\ driverMap[mem[t]].offset = request[t].offset
      /\ driverMap[mem[t]].size = request[t].size
    BY DEF Safe, Mapping
  <2>3. driverMap[mem[t]].offset + driverMap[mem[t]].size =< MaxSize
    BY <2>1, <2>2 DEF Safe, SizesAgree, Shape, Ranges, CellNumbers
  <2>4. request[t] \in Ranges
    BY <2>2 DEF Shape
  <2> QED BY <2>1, <2>2, <2>3, <2>4 DEF Ranges, CellNumbers, WholeSize, Safe, Holding
<1>1. PICK low \in Regions \ live :
           /\ live' = live \union {low}
           /\ held' = [held EXCEPT ![t] = [mode |-> mode, low |-> low,
                                           offset |-> request[t].offset, size |-> request[t].size]]
  OBVIOUS
<1> DEFINE new == [mode |-> mode, low |-> low, offset |-> request[t].offset, size |-> request[t].size]
<1>2. new \in Mappings
  BY <1>0 DEF Mappings
<1>3. held' \in [Threads -> Mappings \union {None}] /\ live' \subseteq Regions
  BY <1>1, <1>2 DEF Shape
<1>4. newest' \in [Memories -> [CellNumbers ->
                      {"real", "low", "both", "invalidated", "host_write_lost", "device_write_lost"}]]
  BY <1>0 DEF Shape, FromReal
<1>5. Shape'
  BY <1>3, <1>4 DEF Shape
<1>6. new # None /\ new.low \in live' /\ Maps(new, mem[t])'
  BY <1>0, <1>1, <1>2 DEF Maps
<1>7. SUFFICES ASSUME NEW u \in Threads
      PROVE  /\ (pc[u] = "install" => held[u] # None)'
             /\ (held[u] # None => /\ pc[u] \in {"install", "finalize", "erased"}
                                   /\ held[u].low \in live
                                   /\ pc[u] # "erased" => Maps(held[u], mem[u]))'
  BY <1>5 DEF Holding
<1>8. CASE u = t
  BY <1>1, <1>6, <1>8 DEF Shape
<1>9. CASE u # t
  <2>1. held'[u] = held[u] /\ pc'[u] = pc[u] /\ mem'[u] = mem[u] /\ driverMap' = driverMap /\ live \subseteq live'
    BY <1>1, <1>9 DEF Shape
  <2> QED BY <2>1 DEF Safe, Holding, Maps
<1> QED BY <1>5, <1>8, <1>9

(* Every variable keeps to its values: the offsets and sizes stay in the   *)
(* allocation they are of.                                                 *)
LEMMA ShapeStep == ASSUME Shape, Safe, [Next]_vars PROVE Shape'
<1>a. OneCall /\ SizesAgree /\ Mapping /\ Holding
  BY DEF Safe
<1> USE LowAddressAssumption, <1>a
    DEF Shape, Goto, Start, Finish, Busy, driverVars, tableVars, regionVars, appVars, threadVars
<1>1. ASSUME NEW t \in Threads, NEW m \in Memories, NEW n \in 1 .. MaxSize, AllocateMemory(t,
             m, n)
      PROVE  Shape'
  BY <1>1 DEF AllocateMemory
<1>2. ASSUME NEW t \in Threads, NEW m \in Memories, NEW r \in Ranges, MapMemory(t, m, r)
      PROVE  Shape'
  BY <1>2 DEF MapMemory, Ranges, CellNumbers, WholeSize
<1>3. ASSUME NEW t \in Threads, NEW m \in Memories, NEW r \in Ranges, Flush(t, m, r)
      PROVE  Shape'
  BY <1>3 DEF Flush, SyncShadowToReal, dataFrame, ToReal
<1>4. ASSUME NEW t \in Threads, NEW m \in Memories, NEW r \in Ranges, Invalidate(t, m, r)
      PROVE  Shape'
  BY <1>4 DEF Invalidate, SyncRealToShadow, dataFrame, FromReal
<1>5. ASSUME NEW t \in Threads, NEW m \in Memories, Pop(t, m) PROVE Shape'
  BY <1>5 DEF Pop
<1>6. ASSUME NEW t \in Threads, NEW m \in Memories, FreeMemory(t, m) PROVE Shape'
  BY <1>6 DEF FreeMemory
<1>7. ASSUME NEW t \in Threads, NEW devices \in SUBSET Devices, Submit(t, devices)
      PROVE  Shape'
  BY <1>7 DEF Submit, SyncAllShadows, dataFrame, ToReal
<1>8. ASSUME NEW t \in Threads, NEW d \in Devices, DestroyDevice(t, d) PROVE Shape'
  BY <1>8 DEF DestroyDevice
<1>9. ASSUME NEW t \in Threads, Track(t) PROVE Shape'
  BY <1>9 DEF Track, OneCall
<1>10. ASSUME NEW t \in Threads, KeepPointer(t) PROVE Shape'
  BY <1>10 DEF KeepPointer
<1>11. ASSUME NEW t \in Threads, Resolve(t) PROVE Shape'
  BY <1>11 DEF Resolve, Resolved, OneCall, Mapping, Ranges, CellNumbers, WholeSize
<1>12. ASSUME NEW t \in Threads, NEW mode \in {"alias", "shadow"}, NewRegion(t, mode)
       PROVE  Shape'
  BY <1>12, NewRegionMaps
<1>13. ASSUME NEW t \in Threads, Install(t) PROVE Shape'
  BY <1>13 DEF Install, OneCall, Holding, Mappings
<1>14. ASSUME NEW t \in Threads, FinalizeShadow(t) PROVE Shape'
  BY <1>14 DEF FinalizeShadow, Release, ToReal, WithoutLow
<1>15. ASSUME NEW t \in Threads, DriverUnmaps(t) PROVE Shape'
  BY <1>15 DEF DriverUnmaps
<1>16. ASSUME NEW t \in Threads, FreeReleases(t) PROVE Shape'
  BY <1>16 DEF FreeReleases, Release
<1>17. ASSUME NEW t \in Threads, DriverFrees(t) PROVE Shape'
  <2>1. [c \in CellNumbers |-> "real"] \in
           [CellNumbers -> {"real", "low", "both", "invalidated", "host_write_lost", "device_write_lost"}]
    OBVIOUS
  <2>2. newest' \in [Memories ->
           [CellNumbers -> {"real", "low", "both", "invalidated", "host_write_lost", "device_write_lost"}]]
    BY <1>17, <2>1 DEF DriverFrees
  <2> QED BY <1>17, <2>2 DEF DriverFrees
<1>18. ASSUME NEW m \in Memories, NEW c \in CellNumbers, HostWrites(m, c) \/ DeviceWrites(m, c)
       PROVE  Shape'
  <2>1. newest' \in [Memories ->
           [CellNumbers -> {"real", "low", "both", "invalidated", "host_write_lost", "device_write_lost"}]]
    <3>1. PICK where \in {"real", "low"} : newest' = [newest EXCEPT ![m][c] = where]
      BY <1>18 DEF HostWrites, DeviceWrites
    <3> QED BY <3>1
  <2> QED BY <1>18, <2>1 DEF HostWrites, DeviceWrites, dataFrame
<1>19. CASE DeviceFinishes \/ UNCHANGED vars
  BY <1>19 DEF DeviceFinishes, dataFrame, vars
<1> QED BY <1>1, <1>2, <1>3, <1>4, <1>5, <1>6, <1>7, <1>8, <1>9, <1>10, <1>11, <1>12, <1>13, <1>14,
           <1>15, <1>16, <1>17, <1>18, <1>19 DEF Next, Calls, QueueDevices, Steps

-----------------------------------------------------------------------------
(* The threads' program counters move together with the memory they have.  *)
LEMMA OneCallStep == ASSUME Shape, Shape', Safe, [Next]_vars PROVE OneCall'
<1>a. OneCall
  BY DEF Safe
<1> USE LowAddressAssumption, <1>a DEF Shape, Goto, Start, Finish, Busy, driverVars, tableVars,
            regionVars, appVars, threadVars, OneCall
<1>1. CASE UNCHANGED dataFrame
  BY <1>1 DEF dataFrame
<1>2. ASSUME NEW t \in Threads, NEW m \in Memories, NEW n \in 1 .. MaxSize, AllocateMemory(t,
             m, n)
      PROVE  OneCall'
  BY <1>2 DEF AllocateMemory
<1>3. ASSUME NEW t \in Threads, NEW m \in Memories, NEW r \in Ranges, MapMemory(t, m, r)
      PROVE  OneCall'
  BY <1>3 DEF MapMemory
<1>4. ASSUME NEW t \in Threads, NEW m \in Memories, Pop(t, m) PROVE OneCall'
  BY <1>4 DEF Pop
<1>5. ASSUME NEW t \in Threads, NEW m \in Memories, FreeMemory(t, m) PROVE OneCall'
  BY <1>5 DEF FreeMemory
<1>6. ASSUME NEW t \in Threads, NEW d \in Devices, DestroyDevice(t, d) PROVE OneCall'
  BY <1>6 DEF DestroyDevice
<1>7. ASSUME NEW t \in Threads, Track(t) PROVE OneCall'
  BY <1>7 DEF Track
<1>8. ASSUME NEW t \in Threads, KeepPointer(t) PROVE OneCall'
  BY <1>8 DEF KeepPointer
<1>9. ASSUME NEW t \in Threads, Resolve(t) PROVE OneCall'
  BY <1>9 DEF Resolve, Resolved
<1>10. ASSUME NEW t \in Threads, NEW mode \in {"alias", "shadow"}, NewRegion(t, mode)
       PROVE  OneCall'
  BY <1>10 DEF NewRegion, FreeRegions
<1>11. ASSUME NEW t \in Threads, Install(t) PROVE OneCall'
  BY <1>11 DEF Install
<1>12. ASSUME NEW t \in Threads, FinalizeShadow(t) PROVE OneCall'
  BY <1>12 DEF FinalizeShadow, Release
<1>13. ASSUME NEW t \in Threads, DriverUnmaps(t) PROVE OneCall'
  BY <1>13 DEF DriverUnmaps
<1>14. ASSUME NEW t \in Threads, FreeReleases(t) PROVE OneCall'
  BY <1>14 DEF FreeReleases, Release
<1>15. ASSUME NEW t \in Threads, DriverFrees(t) PROVE OneCall'
  BY <1>15 DEF DriverFrees
<1> QED BY <1>1, <1>2, <1>3, <1>4, <1>5, <1>6, <1>7, <1>8, <1>9, <1>10, <1>11, <1>12, <1>13,
           <1>14, <1>15, StepsSorted DEF Moves, Steps

(* What is recorded is what the driver allocated and mapped.               *)
LEMMA SizesAgreeStep == ASSUME Shape, Shape', Safe, [Next]_vars PROVE SizesAgree'
<1>a. SizesAgree /\ OneCall /\ Mapping /\ Removing
  BY DEF Safe
<1> USE LowAddressAssumption, <1>a DEF Shape, Goto, Start, Finish, Busy, driverVars, tableVars,
            regionVars, appVars, threadVars, SizesAgree, OneCall, Mapping, Removing, WholeSize,
            CellNumbers, Ranges
<1>1. CASE UNCHANGED dataFrame
  BY <1>1 DEF dataFrame
<1>2. ASSUME NEW t \in Threads, NEW m \in Memories, NEW n \in 1 .. MaxSize, AllocateMemory(t,
             m, n)
      PROVE  SizesAgree'
  BY <1>2 DEF AllocateMemory
<1>3. ASSUME NEW t \in Threads, NEW m \in Memories, NEW r \in Ranges, MapMemory(t, m, r)
      PROVE  SizesAgree'
  BY <1>3 DEF MapMemory
<1>4. ASSUME NEW t \in Threads, NEW m \in Memories, Pop(t, m) PROVE SizesAgree'
  BY <1>4 DEF Pop
<1>5. ASSUME NEW t \in Threads, NEW m \in Memories, FreeMemory(t, m) PROVE SizesAgree'
  BY <1>5 DEF FreeMemory
<1>6. ASSUME NEW t \in Threads, NEW d \in Devices, DestroyDevice(t, d) PROVE SizesAgree'
  BY <1>6 DEF DestroyDevice
<1>7. ASSUME NEW t \in Threads, Track(t) PROVE SizesAgree'
  BY <1>7 DEF Track
<1>8. ASSUME NEW t \in Threads, KeepPointer(t) PROVE SizesAgree'
  BY <1>8 DEF KeepPointer
<1>9. ASSUME NEW t \in Threads, Resolve(t) PROVE SizesAgree'
  BY <1>9 DEF Resolve, Resolved
<1>10. ASSUME NEW t \in Threads, NEW mode \in {"alias", "shadow"}, NewRegion(t, mode)
       PROVE  SizesAgree'
  BY <1>10 DEF NewRegion, FreeRegions
<1>11. ASSUME NEW t \in Threads, Install(t) PROVE SizesAgree'
  BY <1>11 DEF Install
<1>12. ASSUME NEW t \in Threads, FinalizeShadow(t) PROVE SizesAgree'
  BY <1>12 DEF FinalizeShadow, Release
<1>13. ASSUME NEW t \in Threads, DriverUnmaps(t) PROVE SizesAgree'
  BY <1>13 DEF DriverUnmaps
<1>14. ASSUME NEW t \in Threads, FreeReleases(t) PROVE SizesAgree'
  BY <1>14 DEF FreeReleases, Release
<1>15. ASSUME NEW t \in Threads, DriverFrees(t) PROVE SizesAgree'
  BY <1>15 DEF DriverFrees
<1> QED BY <1>1, <1>2, <1>3, <1>4, <1>5, <1>6, <1>7, <1>8, <1>9, <1>10, <1>11, <1>12, <1>13,
           <1>14, <1>15, StepsSorted DEF Moves, Steps

(* A new region is not live yet, and a mapping moves from one place to     *)
(* another without being copied.                                           *)
LEMMA LowsDifferStep == ASSUME Shape, Shape', Safe, [Next]_vars PROVE LowsDiffer'
<1>a. LowsDiffer /\ OneCall /\ EntriesMap /\ Mapping /\ Holding
  BY DEF Safe
<1> USE LowAddressAssumption, <1>a DEF Shape, Goto, Start, Finish, Busy, driverVars, tableVars,
            regionVars, appVars, threadVars, LowsDiffer, OneCall, EntriesMap, Mapping, Holding,
            Maps, Mappings
<1>1. CASE UNCHANGED dataFrame
  BY <1>1 DEF dataFrame
<1>2. ASSUME NEW t \in Threads, NEW m \in Memories, NEW n \in 1 .. MaxSize, AllocateMemory(t,
             m, n)
      PROVE  LowsDiffer'
  BY <1>2 DEF AllocateMemory
<1>3. ASSUME NEW t \in Threads, NEW m \in Memories, NEW r \in Ranges, MapMemory(t, m, r)
      PROVE  LowsDiffer'
  BY <1>3 DEF MapMemory
<1>4. ASSUME NEW t \in Threads, NEW m \in Memories, Pop(t, m) PROVE LowsDiffer'
  BY <1>4 DEF Pop
<1>5. ASSUME NEW t \in Threads, NEW m \in Memories, FreeMemory(t, m) PROVE LowsDiffer'
  BY <1>5 DEF FreeMemory
<1>6. ASSUME NEW t \in Threads, NEW d \in Devices, DestroyDevice(t, d) PROVE LowsDiffer'
  BY <1>6 DEF DestroyDevice
<1>7. ASSUME NEW t \in Threads, Track(t) PROVE LowsDiffer'
  BY <1>7 DEF Track
<1>8. ASSUME NEW t \in Threads, KeepPointer(t) PROVE LowsDiffer'
  BY <1>8 DEF KeepPointer
<1>9. ASSUME NEW t \in Threads, Resolve(t) PROVE LowsDiffer'
  BY <1>9 DEF Resolve, Resolved
<1>10. ASSUME NEW t \in Threads, NEW mode \in {"alias", "shadow"}, NewRegion(t, mode)
       PROVE  LowsDiffer'
  BY <1>10 DEF NewRegion, FreeRegions
<1>11. ASSUME NEW t \in Threads, Install(t) PROVE LowsDiffer'
  BY <1>11 DEF Install
<1>12. ASSUME NEW t \in Threads, FinalizeShadow(t) PROVE LowsDiffer'
  BY <1>12 DEF FinalizeShadow, Release
<1>13. ASSUME NEW t \in Threads, DriverUnmaps(t) PROVE LowsDiffer'
  BY <1>13 DEF DriverUnmaps
<1>14. ASSUME NEW t \in Threads, FreeReleases(t) PROVE LowsDiffer'
  BY <1>14 DEF FreeReleases, Release
<1>15. ASSUME NEW t \in Threads, DriverFrees(t) PROVE LowsDiffer'
  BY <1>15 DEF DriverFrees
<1> QED BY <1>1, <1>2, <1>3, <1>4, <1>5, <1>6, <1>7, <1>8, <1>9, <1>10, <1>11, <1>12, <1>13,
           <1>14, <1>15, StepsSorted DEF Moves, Steps

(* No region of another device goes with a device.                         *)
LEMMA DestroyKeepsEntries ==
    ASSUME Shape, Shape', Safe, NEW t \in Threads, NEW d \in Devices, DestroyDevice(t, d)
    PROVE  EntriesMap'
<1> USE LowAddressAssumption DEF DestroyDevice, driverVars, tableVars, regionVars, appVars, threadVars
<1> SUFFICES ASSUME NEW n \in Memories, entry'[n] # None PROVE n \in appMemory' /\ Maps(entry[n], n)'
  BY DEF EntriesMap
<1>1. DeviceOf[n] # d /\ entry'[n] = entry[n] /\ entry[n] # None /\ driverMap'[n] = driverMap[n] /\ n \in appMemory
  BY DEF Safe, EntriesMap
<1>2. \A k \in Memories : DeviceOf[k] = d /\ entry[k] # None => entry[k].low # entry[n].low
  BY <1>1 DEF Safe, LowsDiffer
<1>3. entry[n].low \in live'
  BY <1>1, <1>2 DEF Safe, EntriesMap, Maps
<1> QED BY <1>1, <1>3 DEF Safe, EntriesMap, Maps

(* An entry is put in for a range that is mapped, and is taken out before  *)
(* the region or the driver's mapping goes.                                *)
LEMMA EntriesMapStep == ASSUME Shape, Shape', Safe, [Next]_vars PROVE EntriesMap'
<1>a. EntriesMap /\ OneCall /\ SizesAgree /\ Mapping /\ Removing /\ Holding /\ LowsDiffer
  BY DEF Safe
<1> USE LowAddressAssumption, <1>a DEF Shape, Goto, Start, Finish, Busy, driverVars, tableVars,
            regionVars, appVars, threadVars, EntriesMap, OneCall, SizesAgree, Mapping,
            Removing, Holding, LowsDiffer, Maps
<1>1. CASE UNCHANGED dataFrame
  BY <1>1 DEF dataFrame
<1>2. ASSUME NEW t \in Threads, NEW m \in Memories, NEW n \in 1 .. MaxSize, AllocateMemory(t,
             m, n)
      PROVE  EntriesMap'
  BY <1>2 DEF AllocateMemory
<1>3. ASSUME NEW t \in Threads, NEW m \in Memories, NEW r \in Ranges, MapMemory(t, m, r)
      PROVE  EntriesMap'
  BY <1>3 DEF MapMemory
<1>4. ASSUME NEW t \in Threads, NEW m \in Memories, Pop(t, m) PROVE EntriesMap'
  BY <1>4 DEF Pop
<1>5. ASSUME NEW t \in Threads, NEW m \in Memories, FreeMemory(t, m) PROVE EntriesMap'
  BY <1>5 DEF FreeMemory
<1>6. ASSUME NEW t \in Threads, NEW d \in Devices, DestroyDevice(t, d) PROVE EntriesMap'
  BY <1>6, DestroyKeepsEntries
<1>7. ASSUME NEW t \in Threads, Track(t) PROVE EntriesMap'
  BY <1>7 DEF Track
<1>8. ASSUME NEW t \in Threads, KeepPointer(t) PROVE EntriesMap'
  BY <1>8 DEF KeepPointer
<1>9. ASSUME NEW t \in Threads, Resolve(t) PROVE EntriesMap'
  BY <1>9 DEF Resolve, Resolved
<1>10. ASSUME NEW t \in Threads, NEW mode \in {"alias", "shadow"}, NewRegion(t, mode)
       PROVE  EntriesMap'
  BY <1>10 DEF NewRegion, FreeRegions
<1>11. ASSUME NEW t \in Threads, Install(t) PROVE EntriesMap'
  BY <1>11 DEF Install
<1>12. ASSUME NEW t \in Threads, FinalizeShadow(t) PROVE EntriesMap'
  BY <1>12 DEF FinalizeShadow, Release
<1>13. ASSUME NEW t \in Threads, DriverUnmaps(t) PROVE EntriesMap'
  BY <1>13 DEF DriverUnmaps
<1>14. ASSUME NEW t \in Threads, FreeReleases(t) PROVE EntriesMap'
  BY <1>14 DEF FreeReleases, Release
<1>15. ASSUME NEW t \in Threads, DriverFrees(t) PROVE EntriesMap'
  BY <1>15 DEF DriverFrees
<1> QED BY <1>1, <1>2, <1>3, <1>4, <1>5, <1>6, <1>7, <1>8, <1>9, <1>10, <1>11, <1>12, <1>13,
           <1>14, <1>15, StepsSorted DEF Moves, Steps

(* What the driver maps is what it was asked for.                          *)
LEMMA MapMemoryMaps ==
    ASSUME Shape, Shape', Safe, NEW t \in Threads, NEW m \in Memories, NEW r \in Ranges, MapMemory(t, m, r)
    PROVE  Mapping'
<1> USE LowAddressAssumption DEF MapMemory, Start, Goto, Busy, driverVars, tableVars, regionVars, appVars
<1>1. entry[m] = None
  BY DEF Safe, EntriesMap, Maps
<1> QED BY <1>1 DEF Mapping, Safe, OneCall, Shape, Ranges, CellNumbers, WholeSize

(* Between the driver's map and the entry, nothing else touches the memory. *)
LEMMA MappingStep == ASSUME Shape, Shape', Safe, [Next]_vars PROVE Mapping'
<1>a. Mapping /\ OneCall /\ SizesAgree
  BY DEF Safe
<1> USE LowAddressAssumption, <1>a DEF Shape, Goto, Start, Finish, Busy, driverVars, tableVars,
            regionVars, appVars, threadVars, Mapping, OneCall, SizesAgree, WholeSize,
            CellNumbers, Ranges
<1>1. CASE UNCHANGED dataFrame
  BY <1>1 DEF dataFrame
<1>2. ASSUME NEW t \in Threads, NEW m \in Memories, NEW n \in 1 .. MaxSize, AllocateMemory(t,
             m, n)
      PROVE  Mapping'
  BY <1>2 DEF AllocateMemory
<1>3. ASSUME NEW t \in Threads, NEW m \in Memories, NEW r \in Ranges, MapMemory(t, m, r)
      PROVE  Mapping'
  BY <1>3, MapMemoryMaps
<1>4. ASSUME NEW t \in Threads, NEW m \in Memories, Pop(t, m) PROVE Mapping'
  BY <1>4 DEF Pop
<1>5. ASSUME NEW t \in Threads, NEW m \in Memories, FreeMemory(t, m) PROVE Mapping'
  BY <1>5 DEF FreeMemory
<1>6. ASSUME NEW t \in Threads, NEW d \in Devices, DestroyDevice(t, d) PROVE Mapping'
  BY <1>6 DEF DestroyDevice
<1>7. ASSUME NEW t \in Threads, Track(t) PROVE Mapping'
  BY <1>7 DEF Track
<1>8. ASSUME NEW t \in Threads, KeepPointer(t) PROVE Mapping'
  BY <1>8 DEF KeepPointer
<1>9. ASSUME NEW t \in Threads, Resolve(t) PROVE Mapping'
  BY <1>9 DEF Resolve, Resolved
<1>10. ASSUME NEW t \in Threads, NEW mode \in {"alias", "shadow"}, NewRegion(t, mode)
       PROVE  Mapping'
  BY <1>10 DEF NewRegion, FreeRegions
<1>11. ASSUME NEW t \in Threads, Install(t) PROVE Mapping'
  BY <1>11 DEF Install
<1>12. ASSUME NEW t \in Threads, FinalizeShadow(t) PROVE Mapping'
  BY <1>12 DEF FinalizeShadow, Release
<1>13. ASSUME NEW t \in Threads, DriverUnmaps(t) PROVE Mapping'
  BY <1>13 DEF DriverUnmaps
<1>14. ASSUME NEW t \in Threads, FreeReleases(t) PROVE Mapping'
  BY <1>14 DEF FreeReleases, Release
<1>15. ASSUME NEW t \in Threads, DriverFrees(t) PROVE Mapping'
  BY <1>15 DEF DriverFrees
<1> QED BY <1>1, <1>2, <1>3, <1>4, <1>5, <1>6, <1>7, <1>8, <1>9, <1>10, <1>11, <1>12, <1>13,
           <1>14, <1>15, StepsSorted DEF Moves, Steps

(* What a call took out of the table stays out of it until it is done.     *)
LEMMA RemovingStep == ASSUME Shape, Shape', Safe, [Next]_vars PROVE Removing'
<1>a. Removing /\ OneCall /\ SizesAgree
  BY DEF Safe
<1> USE LowAddressAssumption, <1>a DEF Shape, Goto, Start, Finish, Busy, driverVars, tableVars,
            regionVars, appVars, threadVars, Removing, OneCall, SizesAgree
<1>1. CASE UNCHANGED dataFrame
  BY <1>1 DEF dataFrame
<1>2. ASSUME NEW t \in Threads, NEW m \in Memories, NEW n \in 1 .. MaxSize, AllocateMemory(t,
             m, n)
      PROVE  Removing'
  BY <1>2 DEF AllocateMemory
<1>3. ASSUME NEW t \in Threads, NEW m \in Memories, NEW r \in Ranges, MapMemory(t, m, r)
      PROVE  Removing'
  BY <1>3 DEF MapMemory
<1>4. ASSUME NEW t \in Threads, NEW m \in Memories, Pop(t, m) PROVE Removing'
  BY <1>4 DEF Pop
<1>5. ASSUME NEW t \in Threads, NEW m \in Memories, FreeMemory(t, m) PROVE Removing'
  BY <1>5 DEF FreeMemory
<1>6. ASSUME NEW t \in Threads, NEW d \in Devices, DestroyDevice(t, d) PROVE Removing'
  BY <1>6 DEF DestroyDevice
<1>7. ASSUME NEW t \in Threads, Track(t) PROVE Removing'
  BY <1>7 DEF Track
<1>8. ASSUME NEW t \in Threads, KeepPointer(t) PROVE Removing'
  BY <1>8 DEF KeepPointer
<1>9. ASSUME NEW t \in Threads, Resolve(t) PROVE Removing'
  BY <1>9 DEF Resolve, Resolved
<1>10. ASSUME NEW t \in Threads, NEW mode \in {"alias", "shadow"}, NewRegion(t, mode)
       PROVE  Removing'
  BY <1>10 DEF NewRegion, FreeRegions
<1>11. ASSUME NEW t \in Threads, Install(t) PROVE Removing'
  BY <1>11 DEF Install
<1>12. ASSUME NEW t \in Threads, FinalizeShadow(t) PROVE Removing'
  BY <1>12 DEF FinalizeShadow, Release
<1>13. ASSUME NEW t \in Threads, DriverUnmaps(t) PROVE Removing'
  BY <1>13 DEF DriverUnmaps
<1>14. ASSUME NEW t \in Threads, FreeReleases(t) PROVE Removing'
  BY <1>14 DEF FreeReleases, Release
<1>15. ASSUME NEW t \in Threads, DriverFrees(t) PROVE Removing'
  BY <1>15 DEF DriverFrees
<1> QED BY <1>1, <1>2, <1>3, <1>4, <1>5, <1>6, <1>7, <1>8, <1>9, <1>10, <1>11, <1>12, <1>13,
           <1>14, <1>15, StepsSorted DEF Moves, Steps

(* No other call releases the region or the mapping that a call holds.     *)
LEMMA HoldingStep == ASSUME Shape, Shape', Safe, [Next]_vars PROVE Holding'
<1>a. Holding /\ OneCall /\ EntriesMap /\ Mapping /\ Removing /\ LowsDiffer
  BY DEF Safe
<1> USE LowAddressAssumption, <1>a DEF Shape, Goto, Start, Finish, Busy, driverVars, tableVars,
            regionVars, appVars, threadVars, Holding, OneCall, EntriesMap, Mapping, Removing,
            LowsDiffer, Maps
<1>1. CASE UNCHANGED dataFrame
  BY <1>1 DEF dataFrame
<1>2. ASSUME NEW t \in Threads, NEW m \in Memories, NEW n \in 1 .. MaxSize, AllocateMemory(t,
             m, n)
      PROVE  Holding'
  BY <1>2 DEF AllocateMemory
<1>3. ASSUME NEW t \in Threads, NEW m \in Memories, NEW r \in Ranges, MapMemory(t, m, r)
      PROVE  Holding'
  BY <1>3 DEF MapMemory
<1>4. ASSUME NEW t \in Threads, NEW m \in Memories, Pop(t, m) PROVE Holding'
  BY <1>4 DEF Pop
<1>5. ASSUME NEW t \in Threads, NEW m \in Memories, FreeMemory(t, m) PROVE Holding'
  BY <1>5 DEF FreeMemory
<1>6. ASSUME NEW t \in Threads, NEW d \in Devices, DestroyDevice(t, d) PROVE Holding'
  BY <1>6 DEF DestroyDevice
<1>7. ASSUME NEW t \in Threads, Track(t) PROVE Holding'
  BY <1>7 DEF Track
<1>8. ASSUME NEW t \in Threads, KeepPointer(t) PROVE Holding'
  BY <1>8 DEF KeepPointer
<1>9. ASSUME NEW t \in Threads, Resolve(t) PROVE Holding'
  BY <1>9 DEF Resolve, Resolved
<1>10. ASSUME NEW t \in Threads, NEW mode \in {"alias", "shadow"}, NewRegion(t, mode)
       PROVE  Holding'
  BY <1>10, NewRegionMaps
<1>11. ASSUME NEW t \in Threads, Install(t) PROVE Holding'
  BY <1>11 DEF Install
<1>12. ASSUME NEW t \in Threads, FinalizeShadow(t) PROVE Holding'
  BY <1>12 DEF FinalizeShadow, Release
<1>13. ASSUME NEW t \in Threads, DriverUnmaps(t) PROVE Holding'
  BY <1>13 DEF DriverUnmaps
<1>14. ASSUME NEW t \in Threads, FreeReleases(t) PROVE Holding'
  BY <1>14 DEF FreeReleases, Release
<1>15. ASSUME NEW t \in Threads, DriverFrees(t) PROVE Holding'
  BY <1>15 DEF DriverFrees
<1> QED BY <1>1, <1>2, <1>3, <1>4, <1>5, <1>6, <1>7, <1>8, <1>9, <1>10, <1>11, <1>12, <1>13,
           <1>14, <1>15, StepsSorted DEF Moves, Steps

(* The pointer of the application and the entry change in the same step.   *)
LEMMA PointersMatchStep == ASSUME Shape, Shape', Safe, [Next]_vars PROVE PointersMatch'
<1>a. PointersMatch /\ OneCall /\ EntriesMap /\ Mapping /\ Removing /\ Holding
  BY DEF Safe
<1> USE LowAddressAssumption, <1>a DEF Shape, Goto, Start, Finish, Busy, driverVars, tableVars,
            regionVars, appVars, threadVars, PointersMatch, OneCall, EntriesMap, Mapping,
            Removing, Holding, Maps, Mappings
<1>1. CASE UNCHANGED dataFrame
  BY <1>1 DEF dataFrame
<1>2. ASSUME NEW t \in Threads, NEW m \in Memories, NEW n \in 1 .. MaxSize, AllocateMemory(t,
             m, n)
      PROVE  PointersMatch'
  BY <1>2 DEF AllocateMemory
<1>3. ASSUME NEW t \in Threads, NEW m \in Memories, NEW r \in Ranges, MapMemory(t, m, r)
      PROVE  PointersMatch'
  BY <1>3 DEF MapMemory
<1>4. ASSUME NEW t \in Threads, NEW m \in Memories, Pop(t, m) PROVE PointersMatch'
  BY <1>4 DEF Pop
<1>5. ASSUME NEW t \in Threads, NEW m \in Memories, FreeMemory(t, m) PROVE PointersMatch'
  BY <1>5 DEF FreeMemory
<1>6. ASSUME NEW t \in Threads, NEW d \in Devices, DestroyDevice(t, d) PROVE PointersMatch'
  BY <1>6 DEF DestroyDevice
<1>7. ASSUME NEW t \in Threads, Track(t) PROVE PointersMatch'
  BY <1>7 DEF Track
<1>8. ASSUME NEW t \in Threads, KeepPointer(t) PROVE PointersMatch'
  BY <1>8 DEF KeepPointer
<1>9. ASSUME NEW t \in Threads, Resolve(t) PROVE PointersMatch'
  BY <1>9 DEF Resolve, Resolved
<1>10. ASSUME NEW t \in Threads, NEW mode \in {"alias", "shadow"}, NewRegion(t, mode)
       PROVE  PointersMatch'
  BY <1>10 DEF NewRegion, FreeRegions
<1>11. ASSUME NEW t \in Threads, Install(t) PROVE PointersMatch'
  BY <1>11 DEF Install
<1>12. ASSUME NEW t \in Threads, FinalizeShadow(t) PROVE PointersMatch'
  BY <1>12 DEF FinalizeShadow, Release
<1>13. ASSUME NEW t \in Threads, DriverUnmaps(t) PROVE PointersMatch'
  BY <1>13 DEF DriverUnmaps
<1>14. ASSUME NEW t \in Threads, FreeReleases(t) PROVE PointersMatch'
  BY <1>14 DEF FreeReleases, Release
<1>15. ASSUME NEW t \in Threads, DriverFrees(t) PROVE PointersMatch'
  BY <1>15 DEF DriverFrees
<1> QED BY <1>1, <1>2, <1>3, <1>4, <1>5, <1>6, <1>7, <1>8, <1>9, <1>10, <1>11, <1>12, <1>13,
           <1>14, <1>15, StepsSorted DEF Moves, Steps

InTable(low) == \E m \in Memories : entry[m] # None /\ entry[m].low = low
InCall(low) == \E t \in Threads : held[t] # None /\ held[t].low = low

(* A step that moves no mapping and no region keeps every region owned.    *)
LEMMA OwnedFrame == ASSUME LiveOwned, entry' = entry, held' = held, live' = live PROVE LiveOwned'
BY DEF LiveOwned

(* A region that is mapped moves from the call that made it to the table,  *)
(* and from there to the call that unmaps it.                              *)
LEMMA LiveOwnedStep ==
    ASSUME Shape, Shape', Safe, Holding', [Next]_vars PROVE LiveOwned'
<1>0. LiveOwned /\ OneCall /\ Holding /\ LowsDiffer /\ Removing
  BY DEF Safe
<1> USE LowAddressAssumption DEF Goto, Start, Finish, Busy, driverVars, tableVars, regionVars, appVars, threadVars
<1>f. ASSUME NEW t \in Threads, pc[t] \notin {"install", "finalize", "erased"}, held' = [held EXCEPT ![t] = None]
      PROVE held' = held
  BY <1>0, <1>f DEF Shape, Holding
<1>1. CASE UNCHANGED dataFrame
  BY <1>0, <1>1, OwnedFrame DEF dataFrame
<1>2. ASSUME NEW t \in Threads, NEW m \in Memories, NEW n \in 1 .. MaxSize, AllocateMemory(t,
             m, n)
      PROVE  LiveOwned'
  BY <1>0, <1>2, OwnedFrame DEF AllocateMemory
<1>3. ASSUME NEW t \in Threads, NEW m \in Memories, NEW r \in Ranges, MapMemory(t, m, r)
      PROVE  LiveOwned'
  BY <1>0, <1>3, OwnedFrame DEF MapMemory
<1>4. ASSUME NEW t \in Threads,
             Track(t) \/ KeepPointer(t) \/ Resolve(t) \/ DriverUnmaps(t) \/ DriverFrees(t)
      PROVE  LiveOwned'
  <2>1. Resolve(t) => held' = held
    BY DEF Resolve
  <2>2. ~Resolve(t) => /\ pc[t] \notin {"install", "finalize", "erased"}
                       /\ held' = [held EXCEPT ![t] = None]
    BY <1>4 DEF Track, KeepPointer, DriverUnmaps, DriverFrees
  <2>3. held' = held
    BY <2>1, <2>2, <1>f
  <2>4. entry' = entry /\ live' = live
    BY <1>4 DEF Track, KeepPointer, Resolve, DriverUnmaps, DriverFrees
  <2> QED BY <1>0, <2>3, <2>4, OwnedFrame
<1>s. SUFFICES ASSUME NEW low \in live' PROVE (InTable(low) \/ InCall(low))'
  BY DEF LiveOwned, InTable, InCall
<1>o. low \in live => InTable(low) \/ InCall(low)
  BY <1>0 DEF LiveOwned, InTable, InCall
<1>5. ASSUME NEW t \in Threads, NEW m \in Memories, Pop(t, m) \/ FreeMemory(t, m)
      PROVE  (InTable(low) \/ InCall(low))'
  <2>1. /\ held' = [held EXCEPT ![t] = entry[m]] /\ held[t] = None
        /\ entry' = [entry EXCEPT ![m] = None] /\ live' = live
    BY <1>5, <1>0 DEF Pop, FreeMemory, Holding
  <2>2. CASE InTable(low)
    <3>1. PICK n \in Memories : entry[n] # None /\ entry[n].low = low
      BY <2>2 DEF InTable
    <3>2. CASE n = m
      BY <2>1, <3>1, <3>2 DEF InCall, Shape
    <3>3. CASE n # m
      BY <2>1, <3>1, <3>3 DEF InTable, Shape
    <3> QED BY <3>2, <3>3
  <2>3. CASE InCall(low)
    BY <2>1, <2>3 DEF InCall, Shape
  <2> QED BY <2>1, <2>2, <2>3, <1>o
<1>6. ASSUME NEW t \in Threads, NEW mode \in {"alias", "shadow"}, NewRegion(t, mode)
      PROVE  (InTable(low) \/ InCall(low))'
  <2>1. PICK new \in Regions \ live :
           /\ live' = live \union {new}
           /\ held' = [held EXCEPT ![t] = [mode |-> mode, low |-> new,
                                           offset |-> request[t].offset, size |-> request[t].size]]
    BY <1>6 DEF NewRegion, FreeRegions
  <2>2. entry' = entry /\ held[t] = None
    BY <1>0, <1>6 DEF NewRegion, FreeRegions, Holding
  <2>3. CASE low = new
    <3>1. held'[t].low = low
      BY <2>1, <2>3 DEF Shape
    <3>2. held'[t] # None
      BY <1>6 DEF NewRegion, FreeRegions, Shape, Holding
    <3> QED BY <3>1, <3>2 DEF InCall
  <2>4. CASE low # new
    <3>1. CASE InTable(low)
      BY <2>2, <3>1 DEF InTable
    <3>2. CASE InCall(low)
      BY <2>1, <2>2, <3>2 DEF InCall, Shape
    <3> QED BY <2>1, <2>4, <3>1, <3>2, <1>o
  <2> QED BY <2>3, <2>4
<1>7. ASSUME NEW t \in Threads, Install(t) PROVE (InTable(low) \/ InCall(low))'
  <2>1. /\ mem[t] \in Memories /\ held[t] # None /\ entry[mem[t]] = None
        /\ entry' = [entry EXCEPT ![mem[t]] = held[t]]
        /\ held' = [held EXCEPT ![t] = None] /\ live' = live
    BY <1>7, <1>0 DEF Install, OneCall, Holding, Shape, Safe, Mapping
  <2>2. CASE InTable(low)
    BY <2>1, <2>2 DEF InTable, Shape
  <2>3. CASE InCall(low)
    <3>1. PICK u \in Threads : held[u] # None /\ held[u].low = low
      BY <2>3 DEF InCall
    <3>2. CASE u = t
      BY <2>1, <3>1, <3>2 DEF InTable, Shape
    <3>3. CASE u # t
      BY <2>1, <3>1, <3>3 DEF InCall, Shape
    <3> QED BY <3>2, <3>3
  <2> QED BY <2>1, <2>2, <2>3, <1>o
<1>8. ASSUME NEW t \in Threads, FinalizeShadow(t) \/ FreeReleases(t)
      PROVE  (InTable(low) \/ InCall(low))'
  <2>1. /\ entry' = entry /\ held' = [held EXCEPT ![t] = None]
        /\ live' = live \ (IF held[t] = None THEN {} ELSE {held[t].low})
    BY <1>8 DEF FinalizeShadow, FreeReleases, Release
  <2>2. CASE InTable(low)
    BY <2>1, <2>2 DEF InTable
  <2>3. CASE InCall(low)
    BY <2>1, <2>3 DEF InCall, Shape
  <2> QED BY <2>1, <2>2, <2>3, <1>o
<1>9. ASSUME NEW t \in Threads, NEW d \in Devices, DestroyDevice(t, d)
      PROVE  (InTable(low) \/ InCall(low))'
  <2>1. /\ entry' = [m \in Memories |-> IF m \in {n \in Memories : DeviceOf[n] = d} THEN None ELSE entry[m]]
        /\ held' = held
        /\ live' = live \ {entry[m].low : m \in {n \in {k \in Memories : DeviceOf[k] = d} : entry[n] # None}}
    BY <1>9 DEF DestroyDevice
  <2>2. CASE InTable(low)
    <3>1. PICK n \in Memories : entry[n] # None /\ entry[n].low = low
      BY <2>2 DEF InTable
    <3>2. DeviceOf[n] # d
      BY <2>1, <3>1
    <3> QED BY <2>1, <3>1, <3>2 DEF InTable
  <2>3. CASE InCall(low)
    BY <2>1, <2>3 DEF InCall
  <2> QED BY <2>1, <2>2, <2>3, <1>o
<1> QED BY <1>1, <1>2, <1>3, <1>4, <1>5, <1>6, <1>7, <1>8, <1>9, StepsSorted
        DEF Moves, Steps, LiveOwned, InTable, InCall

Copying(t, m, c) == /\ mem[t] = m
                    /\ \/ pc[t] = "finalize" /\ InShadow(held[t], c)
                       \/ pc[t] \in {"erased", "driver_free"}
Kept(m, c) == InShadow(entry[m], c) \/ \E t \in Threads : Copying(t, m, c)
CellIsKept(m, c) == newest[m][c] # "host_write_lost" /\ (newest[m][c] = "low" => Kept(m, c))
OthersStay(t) == \A u \in Threads \ {t} : pc'[u] = pc[u] /\ mem'[u] = mem[u] /\ held'[u] = held[u]

(* A step that leaves the cell and its mapping alone keeps it, unless its  *)
(* thread is the one that is to copy it.                                   *)
LEMMA CellFrame ==
    ASSUME NEW m \in Memories, NEW c \in CellNumbers, NEW t \in Threads,
           CellIsKept(m, c), newest'[m][c] = newest[m][c], entry'[m] = entry[m], OthersStay(t),
           mem[t] # m \/ pc[t] \notin {"finalize", "erased", "driver_free"}
    PROVE  CellIsKept(m, c)'
BY DEF CellIsKept, Kept, Copying, InShadow, IsShadow, CellsOf, OthersStay

(* Nor does a copy or a write that leaves it anywhere but below.           *)
LEMMA StillFrame ==
    ASSUME NEW m \in Memories, NEW c \in CellNumbers, UNCHANGED <<entry, threadVars>>,
           CellIsKept(m, c), newest'[m][c] \in {newest[m][c], "real", "both", "invalidated", "device_write_lost"}
    PROVE  CellIsKept(m, c)'
BY DEF CellIsKept, Kept, Copying, InShadow, IsShadow, CellsOf, threadVars

(* What is newest below stays in a shadow that will be copied, and a copy  *)
(* from the real memory never meets it.                                    *)
LEMMA LowIsKeptStep == ASSUME Shape, Shape', Safe, [Next]_vars PROVE LowIsKept'
<1>0. LowIsKept /\ OneCall /\ Holding /\ Mapping /\ Removing /\ EntriesMap /\ PointersMatch
  BY DEF Safe
<1>s. SUFFICES ASSUME NEW n \in Memories, NEW c \in CellNumbers PROVE CellIsKept(n, c)'
  BY DEF LowIsKept, CellIsKept, Kept, Copying
<1>k. CellIsKept(n, c)
  BY <1>0 DEF LowIsKept, CellIsKept, Kept, Copying
<1>t. ASSUME NEW t \in Threads, mem[t] = n, entry[n] = None,
             pc[t] = "finalize" => ~InShadow(held[t], c), pc[t] \notin {"erased", "driver_free"}
      PROVE newest[n][c] \notin {"low", "host_write_lost"}
  BY <1>t, <1>0, <1>k, LowAddressAssumption DEF OneCall, CellIsKept, Kept, Copying, InShadow, IsShadow
<1> USE DEF Goto, Start, Finish, Busy, driverVars, tableVars, regionVars, appVars
<1>1. ASSUME NEW t \in Threads, NEW m \in Memories, NEW i \in 1 .. MaxSize, AllocateMemory(t,
             m, i)
      PROVE  CellIsKept(n, c)'
  BY <1>1, <1>k, CellFrame DEF AllocateMemory, OthersStay, Shape
<1>2. ASSUME NEW t \in Threads, NEW m \in Memories, NEW r \in Ranges, MapMemory(t, m, r)
      PROVE  CellIsKept(n, c)'
  BY <1>2, <1>k, CellFrame DEF MapMemory, OthersStay, Shape
<1>3. ASSUME NEW t \in Threads, NEW m \in Memories, NEW r \in Ranges, Flush(t, m, r)
      PROVE  CellIsKept(n, c)'
  <2>1. newest'[n][c] \in {newest[n][c], "both", "device_write_lost"}
    BY <1>3 DEF Flush, SyncShadowToReal, ToReal, Shape
  <2> QED BY <1>3, <2>1, <1>k, StillFrame DEF Flush, SyncShadowToReal, dataFrame
<1>4. ASSUME NEW t \in Threads, NEW m \in Memories, NEW r \in Ranges, Invalidate(t, m, r)
      PROVE  CellIsKept(n, c)'
  <2>1. newest'[n][c] \in {newest[n][c], "both", "invalidated"}
    BY <1>4 DEF Invalidate, SyncRealToShadow, FromReal, Shape
  <2> QED BY <1>4, <2>1, <1>k, StillFrame DEF Invalidate, SyncRealToShadow, dataFrame
<1>5. ASSUME NEW t \in Threads, NEW m \in Memories, Pop(t, m) PROVE CellIsKept(n, c)'
  <2>1. CASE n = m
    <3>1. newest'[n][c] = newest[n][c] /\ ~Busy(m) /\ mem'[t] = n /\ pc'[t] = "finalize" /\ held'[t] = entry[n]
      BY <1>5, <2>1 DEF Pop, Shape
    <3> QED BY <3>1, <2>1, <1>k DEF CellIsKept, Kept, Copying, InShadow, IsShadow, CellsOf
  <2>2. CASE n # m
    BY <1>5, <2>2, <1>k, CellFrame DEF Pop, OthersStay, Shape
  <2> QED BY <2>1, <2>2
<1>6. ASSUME NEW t \in Threads, NEW m \in Memories, FreeMemory(t, m) PROVE CellIsKept(n, c)'
  <2>1. CASE n = m
    <3>1. newest'[n][c] = newest[n][c] /\ mem'[t] = n /\ pc'[t] = "erased"
      BY <1>6, <2>1 DEF FreeMemory, Shape
    <3> QED BY <3>1, <2>1, <1>k DEF CellIsKept, Kept, Copying
  <2>2. CASE n # m
    BY <1>6, <2>2, <1>k, CellFrame DEF FreeMemory, OthersStay, Shape
  <2> QED BY <2>1, <2>2
<1>7. ASSUME NEW t \in Threads, NEW devices \in SUBSET Devices, Submit(t, devices)
      PROVE  CellIsKept(n, c)'
  <2>1. newest'[n][c] \in {newest[n][c], "both", "device_write_lost"}
    BY <1>7 DEF Submit, SyncAllShadows, ToReal
  <2> QED BY <1>7, <2>1, <1>k, StillFrame DEF Submit, SyncAllShadows, dataFrame
<1>8. ASSUME NEW t \in Threads, NEW d \in Devices, DestroyDevice(t, d)
      PROVE  CellIsKept(n, c)'
  <2>1. CASE DeviceOf[n] = d
    BY <1>8, <2>1 DEF DestroyDevice, CellIsKept
  <2>2. CASE DeviceOf[n] # d
    BY <1>8, <2>2, <1>k DEF DestroyDevice, threadVars, CellIsKept, Kept, Copying, InShadow, IsShadow, CellsOf
  <2> QED BY <2>1, <2>2
<1>9. ASSUME NEW t \in Threads, Track(t) \/ KeepPointer(t) \/ Resolve(t)
      PROVE  CellIsKept(n, c)'
  <2>1. newest' = newest /\ entry' = entry /\ pc[t] \notin {"finalize", "erased", "driver_free"}
    BY <1>9 DEF Track, KeepPointer, Resolve
  <2>2. OthersStay(t)
    BY <1>9 DEF Track, KeepPointer, Resolve, OthersStay, Shape
  <2> QED BY <2>1, <2>2, <1>k, CellFrame
<1>10. ASSUME NEW t \in Threads, NEW mode \in {"alias", "shadow"}, NewRegion(t, mode)
       PROVE  CellIsKept(n, c)'
  <2>1. OthersStay(t) /\ entry' = entry /\ pc[t] = "resolved"
    BY <1>10 DEF NewRegion, FreeRegions, OthersStay, Shape
  <2>2. CASE mem[t] # n
    <3>1. newest'[n] = newest[n]
      BY <1>10, <2>2 DEF NewRegion, FreeRegions, Shape
    <3> QED BY <2>1, <2>2, <3>1, <1>k, CellFrame
  <2>3. CASE mem[t] = n
    <3>1. newest[n][c] \notin {"low", "host_write_lost"}
      BY <2>1, <2>3, <1>t, <1>0 DEF Mapping
    <3>2. newest'[n][c] \in {newest[n][c], "both"}
      BY <1>10, <2>3, <3>1 DEF NewRegion, FreeRegions, FromReal, Shape
    <3> QED BY <3>1, <3>2 DEF CellIsKept
  <2> QED BY <2>2, <2>3
<1>11. ASSUME NEW t \in Threads, Install(t) PROVE CellIsKept(n, c)'
  <2>1. OthersStay(t) /\ newest' = newest /\ pc[t] = "install"
    BY <1>11 DEF Install, OthersStay, Shape
  <2>2. CASE mem[t] # n
    <3>1. entry'[n] = entry[n]
      BY <1>11, <2>2 DEF Install, Shape
    <3> QED BY <2>1, <2>2, <3>1, <1>k, CellFrame
  <2>3. CASE mem[t] = n
    BY <2>1, <2>3, <1>t, <1>0 DEF Mapping, CellIsKept
  <2> QED BY <2>2, <2>3
<1>12. ASSUME NEW t \in Threads, FinalizeShadow(t) PROVE CellIsKept(n, c)'
  <2>1. OthersStay(t) /\ entry' = entry /\ pc[t] = "finalize"
    BY <1>12 DEF FinalizeShadow, OthersStay, Shape
  <2>2. CASE mem[t] # n
    <3>1. newest'[n] = newest[n]
      BY <1>12, <2>2 DEF FinalizeShadow, Shape
    <3> QED BY <2>1, <2>2, <3>1, <1>k, CellFrame
  <2>3. CASE mem[t] = n
    <3>1. newest[n][c] \in {"low", "host_write_lost"} => InShadow(held[t], c)
      BY <2>1, <2>3, <1>t, <1>0 DEF Removing
    <3>2. newest[n][c] # "host_write_lost"
      BY <1>k DEF CellIsKept
    <3>3. newest'[n] = IF IsShadow(held[t]) THEN WithoutLow(ToReal(n, CellsOf(held[t]))) ELSE newest[n]
      BY <1>12, <2>3 DEF FinalizeShadow, Shape
    <3>4. newest'[n][c] \notin {"low", "host_write_lost"}
      <4>1. CASE IsShadow(held[t])
        BY <4>1, <3>1, <3>2, <3>3 DEF WithoutLow, ToReal, InShadow
      <4>2. CASE ~IsShadow(held[t])
        BY <4>2, <3>1, <3>2, <3>3 DEF InShadow
      <4> QED BY <4>1, <4>2
    <3> QED BY <3>4 DEF CellIsKept
  <2> QED BY <2>2, <2>3
<1>13. ASSUME NEW t \in Threads, DriverUnmaps(t) PROVE CellIsKept(n, c)'
  <2>1. OthersStay(t) /\ newest' = newest /\ entry' = entry /\ pc[t] = "driver_unmap"
    BY <1>13 DEF DriverUnmaps, OthersStay, Shape
  <2> QED BY <2>1, <1>k, CellFrame
<1>14. ASSUME NEW t \in Threads, FreeReleases(t) PROVE CellIsKept(n, c)'
  <2>1. newest' = newest /\ entry' = entry /\ OthersStay(t) /\ pc'[t] = "driver_free" /\ mem' = mem
    BY <1>14 DEF FreeReleases, OthersStay, Shape
  <2> QED BY <2>1, <1>k, <1>14 DEF FreeReleases, OthersStay, CellIsKept, Kept, Copying, InShadow, IsShadow, CellsOf
<1>15. ASSUME NEW t \in Threads, DriverFrees(t) PROVE CellIsKept(n, c)'
  <2>1. OthersStay(t) /\ entry' = entry
    BY <1>15 DEF DriverFrees, OthersStay, Shape
  <2>2. CASE mem[t] # n
    <3>1. newest'[n] = newest[n]
      BY <1>15, <2>2 DEF DriverFrees, Shape
    <3> QED BY <2>1, <2>2, <3>1, <1>k, CellFrame
  <2>3. CASE mem[t] = n
    BY <1>15, <2>3 DEF DriverFrees, Shape, CellIsKept
  <2> QED BY <2>2, <2>3
<1>16. ASSUME NEW m \in Memories, NEW b \in CellNumbers, HostWrites(m, b)
       PROVE  CellIsKept(n, c)'
  <2>1. CASE m = n /\ b = c /\ pointer[m] = "shadow"
    <3>1. /\ IsShadow(entry[n]) /\ CellsOf(entry[n]) = CellsOf(driverMap[n]) /\ entry' = entry /\ newest'[n][c] = "low"
          /\ c \in CellsOf(driverMap[n])
      BY <1>16, <2>1, <1>0 DEF HostWrites, dataFrame, PointersMatch, EntriesMap, Maps, IsShadow, CellsOf, Shape
    <3> QED BY <3>1 DEF CellIsKept, Kept, InShadow
  <2>2. CASE ~(m = n /\ b = c /\ pointer[m] = "shadow")
    <3>1. newest'[n][c] \in {newest[n][c], "real"}
      BY <1>16, <2>2 DEF HostWrites, Shape
    <3> QED BY <1>16, <3>1, <1>k, StillFrame DEF HostWrites, dataFrame
  <2> QED BY <2>1, <2>2
<1>17. ASSUME NEW m \in Memories, NEW b \in CellNumbers, DeviceWrites(m, b)
       PROVE  CellIsKept(n, c)'
  <2>1. newest'[n][c] \in {newest[n][c], "real"}
    BY <1>17 DEF DeviceWrites, Shape
  <2> QED BY <1>17, <2>1, <1>k, StillFrame DEF DeviceWrites, dataFrame
<1>18. CASE DeviceFinishes \/ UNCHANGED vars
  BY <1>18, <1>k, StillFrame DEF DeviceFinishes, dataFrame, vars
<1> QED BY <1>1, <1>2, <1>3, <1>4, <1>5, <1>6, <1>7, <1>8, <1>9, <1>10, <1>11, <1>12, <1>13, <1>14,
           <1>15, <1>16, <1>17, <1>18 DEF Next, Calls, QueueDevices, Steps

(* The shadows of the table and of the calls are finitely many, and stay    *)
(* as many as a step leaves them.                                          *)
LEMMA ShadowsFinite ==
    /\ IsFiniteSet(TableShadows) /\ Cardinality(TableShadows) \in Nat
    /\ IsFiniteSet(HeldShadows) /\ Cardinality(HeldShadows) \in Nat
<1>1. TableShadows \subseteq Memories /\ HeldShadows \subseteq Threads
  BY DEF TableShadows, HeldShadows
<1> QED BY <1>1, LowAddressAssumption, FS_Subset, FS_CardinalityType

(* The count goes up and down with the shadows that are put in the table   *)
(* and released.                                                           *)
LEMMA CountedStep ==
    ASSUME Shape, Shape', Safe, Holding', Counted, [Next]_vars
    PROVE  Counted' /\ activeShadows' \in Nat
<1> SUFFICES Counted'
  <2>1. TableShadows' \subseteq Memories /\ HeldShadows' \subseteq Threads
    BY DEF TableShadows, HeldShadows
  <2>2. Cardinality(TableShadows') \in Nat /\ Cardinality(HeldShadows') \in Nat
    BY <2>1, LowAddressAssumption, FS_Subset, FS_CardinalityType
  <2> QED BY <2>2 DEF Counted
<1>a. OneCall /\ Holding /\ Mapping
  BY DEF Safe
<1>n. ~IsShadow(None)
  BY DEF IsShadow
<1> USE DEF Shape, Goto, Start, Finish, Busy, driverVars, tableVars, regionVars, appVars, threadVars
<1>k. ASSUME TableShadows' = TableShadows, HeldShadows' = HeldShadows, activeShadows' = activeShadows
      PROVE Counted'
  BY <1>k DEF Counted
<1>1. CASE UNCHANGED dataFrame
  BY <1>1, <1>k DEF dataFrame, TableShadows, HeldShadows
<1>2. ASSUME NEW t \in Threads, pc[t] \notin {"install", "finalize", "erased"}, UNCHANGED <<entry, activeShadows>>,
             \A u \in Threads \ {t} : pc'[u] = pc[u] /\ held'[u] = held[u],
             pc'[t] = "install" \/ held'[t] \in {None, held[t]}
      PROVE  Counted'
  <2>1. held[t] = None
    BY <1>2, <1>a DEF Holding
  <2>2. HeldShadows' = HeldShadows
    BY <1>2, <1>n, <2>1 DEF HeldShadows
  <2> QED BY <1>2, <2>2, <1>k DEF TableShadows
<1>3. ASSUME NEW t \in Threads, NEW m \in Memories, NEW n \in 1 .. MaxSize, AllocateMemory(t,
             m, n)
      PROVE  Counted'
  BY <1>2, <1>3 DEF AllocateMemory
<1>4. ASSUME NEW t \in Threads, NEW m \in Memories, NEW r \in Ranges, MapMemory(t, m, r)
      PROVE  Counted'
  BY <1>2, <1>4 DEF MapMemory
<1>5. ASSUME NEW t \in Threads, Track(t) \/ KeepPointer(t) \/ Resolve(t) \/ DriverUnmaps(t) \/ DriverFrees(t)
      PROVE Counted'
  BY <1>2, <1>5 DEF Track, KeepPointer, Resolve, DriverUnmaps, DriverFrees
<1>6. ASSUME NEW t \in Threads, NEW mode \in {"alias", "shadow"}, NewRegion(t, mode)
      PROVE  Counted'
  BY <1>2, <1>6 DEF NewRegion
<1>7. ASSUME NEW t \in Threads, NEW m \in Memories, Pop(t, m) \/ FreeMemory(t, m)
      PROVE  Counted'
  <2>1. /\ held[t] = None /\ held'[t] = entry[m] /\ pc'[t] # "install"
        /\ \A u \in Threads \ {t} : pc'[u] = pc[u] /\ held'[u] = held[u]
        /\ entry'[m] = None /\ \A n \in Memories \ {m} : entry'[n] = entry[n]
        /\ activeShadows' = activeShadows
    BY <1>7, <1>a DEF Pop, FreeMemory, Holding
  <2>2. t \notin HeldShadows
    BY <2>1, <1>n DEF HeldShadows
  <2>3. CASE IsShadow(entry[m])
    <3>1. TableShadows' = TableShadows \ {m} /\ m \in TableShadows
      BY <2>1, <2>3, <1>n DEF TableShadows
    <3>2. HeldShadows' = HeldShadows \union {t}
      BY <2>1, <2>3, <1>n DEF HeldShadows
    <3>3. Cardinality(TableShadows') = Cardinality(TableShadows) - 1
      BY <3>1, ShadowsFinite, FS_RemoveElement
    <3>4. Cardinality(HeldShadows') = Cardinality(HeldShadows) + 1
      BY <3>2, <2>2, ShadowsFinite, FS_AddElement
    <3> QED BY <2>1, <3>3, <3>4, ShadowsFinite DEF Counted
  <2>4. CASE ~IsShadow(entry[m])
    <3>1. \A n \in Memories : IsShadow(entry'[n]) <=> IsShadow(entry[n])
      <4>1. IsShadow(entry'[m]) <=> IsShadow(entry[m])
        BY <2>1, <2>4, <1>n
      <4> QED BY <2>1, <4>1
    <3>2. TableShadows' = TableShadows
      BY <3>1 DEF TableShadows
    <3>3. HeldShadows' = HeldShadows
      BY <2>1, <2>2, <2>4, <1>n DEF HeldShadows
    <3> QED BY <2>1, <3>2, <3>3, <1>k
  <2> QED BY <2>3, <2>4
<1>8. ASSUME NEW t \in Threads, Install(t) PROVE Counted'
  <2>1. /\ mem[t] \in Memories /\ held[t] # None /\ entry[mem[t]] = None
        /\ pc[t] = "install" /\ pc'[t] # "install" /\ held'[t] = None
        /\ \A u \in Threads \ {t} : pc'[u] = pc[u] /\ held'[u] = held[u]
        /\ entry'[mem[t]] = held[t] /\ \A n \in Memories \ {mem[t]} : entry'[n] = entry[n]
        /\ activeShadows' = activeShadows + (IF IsShadow(held[t]) THEN 1 ELSE 0)
    <3>1. mem[t] \in Memories /\ held[t] # None /\ entry[mem[t]] = None
      BY <1>8, <1>a DEF Install, CountInstalled, IsShadow, OneCall, Holding, Mapping
    <3>2. activeShadows \in Int
      BY ShadowsFinite DEF Counted
    <3> QED BY <1>8, <3>1, <3>2 DEF Install, CountInstalled, IsShadow
  <2>2. HeldShadows' = HeldShadows
    BY <2>1, <1>n DEF HeldShadows, IsShadow
  <2>3. CASE IsShadow(held[t])
    <3>1. TableShadows' = TableShadows \union {mem[t]} /\ mem[t] \notin TableShadows
      BY <2>1, <2>3, <1>n DEF TableShadows
    <3>2. Cardinality(TableShadows') = Cardinality(TableShadows) + 1
      BY <3>1, ShadowsFinite, FS_AddElement
    <3> QED BY <2>1, <2>2, <2>3, <3>2, ShadowsFinite DEF Counted
  <2>4. CASE ~IsShadow(held[t])
    <3>1. \A n \in Memories : IsShadow(entry'[n]) <=> IsShadow(entry[n])
      <4>1. IsShadow(entry'[mem[t]]) <=> IsShadow(entry[mem[t]])
        BY <2>1, <2>4, <1>n
      <4> QED BY <2>1, <4>1
    <3>2. TableShadows' = TableShadows
      BY <3>1 DEF TableShadows
    <3> QED BY <2>1, <2>2, <2>4, <3>2, ShadowsFinite DEF Counted
  <2> QED BY <2>3, <2>4
<1>9. ASSUME NEW t \in Threads, FinalizeShadow(t) \/ FreeReleases(t) PROVE Counted'
  <2>1. /\ pc[t] # "install" /\ held'[t] = None /\ entry' = entry
        /\ \A u \in Threads \ {t} : pc'[u] = pc[u] /\ held'[u] = held[u]
        /\ activeShadows' = IF IsShadow(held[t]) THEN activeShadows - 1 ELSE activeShadows
    BY <1>9 DEF FinalizeShadow, FreeReleases, Release, IsShadow
  <2>2. TableShadows' = TableShadows
    BY <2>1 DEF TableShadows
  <2>3. CASE IsShadow(held[t])
    <3>1. HeldShadows' = HeldShadows \ {t} /\ t \in HeldShadows
      BY <2>1, <2>3, <1>n DEF HeldShadows
    <3>2. Cardinality(HeldShadows') = Cardinality(HeldShadows) - 1
      BY <3>1, ShadowsFinite, FS_RemoveElement
    <3> QED BY <2>1, <2>2, <2>3, <3>2, ShadowsFinite DEF Counted
  <2>4. CASE ~IsShadow(held[t])
    <3>1. HeldShadows' = HeldShadows
      BY <2>1, <2>4, <1>n DEF HeldShadows
    <3> QED BY <2>1, <2>2, <2>4, <3>1, <1>k
  <2> QED BY <2>3, <2>4
<1>10. ASSUME NEW t \in Threads, NEW d \in Devices, DestroyDevice(t, d) PROVE Counted'
  <2> DEFINE its == {m \in Memories : DeviceOf[m] = d}
             gone == {m \in {n \in its : entry[n] # None} : entry[m].mode = "shadow"}
  <2>1. /\ entry' = [m \in Memories |-> IF m \in its THEN None ELSE entry[m]]
        /\ activeShadows' = activeShadows - Cardinality(gone)
        /\ pc' = pc /\ held' = held
    BY <1>10 DEF DestroyDevice
  <2>2. HeldShadows' = HeldShadows
    BY <2>1 DEF HeldShadows
  <2>3. gone \subseteq TableShadows
    BY DEF TableShadows, IsShadow
  <2>4. TableShadows' = TableShadows \ gone
    BY <2>1 DEF TableShadows, IsShadow
  <2>5. TableShadows \intersect gone = gone
    BY <2>3
  <2> HIDE DEF gone
  <2>6. Cardinality(TableShadows') = Cardinality(TableShadows) - Cardinality(gone)
    BY <2>4, <2>5, ShadowsFinite, FS_Difference
  <2>7. Cardinality(gone) \in Nat
    BY <2>3, ShadowsFinite, FS_Subset, FS_CardinalityType
  <2> QED BY <2>1, <2>2, <2>6, <2>7, ShadowsFinite DEF Counted
<1> QED BY <1>1, <1>3, <1>4, <1>5, <1>6, <1>7, <1>8, <1>9, <1>10, StepsSorted DEF Moves, Steps

-----------------------------------------------------------------------------
(* The invariant is inductive.                                             *)
LEMMA InitInv == Init => Inv
<1> SUFFICES ASSUME Init PROVE Inv
  OBVIOUS
<1>1. Shape
  <2>1. newest \in [Memories ->
           [CellNumbers -> {"real", "low", "both", "invalidated", "host_write_lost", "device_write_lost"}]]
    BY DEF Init
  <2>2. /\ size \in [Memories -> 0 .. MaxSize] /\ tracked \in [Memories -> 0 .. MaxSize]
        /\ driverMap \in [Memories -> Ranges \union {None}]
        /\ entry \in [Memories -> Mappings \union {None}]
    BY LowAddressAssumption DEF Init
  <2>3. /\ pointer \in [Memories -> {"none", "real", "alias", "shadow"}]
        /\ mem \in [Threads -> Memories \union {None}]
        /\ request \in [Threads -> Ranges \union {None}]
        /\ held \in [Threads -> Mappings \union {None}]
    BY DEF Init
  <2> QED BY <2>1, <2>2, <2>3 DEF Init, Shape
<1>2. Safe
  BY DEF Init, Safe, OneCall, SizesAgree, EntriesMap, Mapping, Removing, Holding, LowsDiffer,
         LiveOwned, PointersMatch, LowIsKept
<1>3. TableShadows = {} /\ HeldShadows = {}
  BY DEF Init, TableShadows, HeldShadows, IsShadow
<1>4. Counted /\ activeShadows \in Nat
  BY <1>3, FS_EmptySet DEF Init, Counted
<1> QED BY <1>1, <1>2, <1>4 DEF Inv, TypeOK

(* Every step keeps it: one lemma above for each of its parts.             *)
LEMMA InvStep == Inv /\ [Next]_vars => Inv'
<1> SUFFICES ASSUME Inv, [Next]_vars PROVE Inv'
  OBVIOUS
<1>1. Shape /\ Safe /\ Counted
  BY DEF Inv, TypeOK
<1>2. Shape'
  BY <1>1, ShapeStep
<1>3. Holding'
  BY <1>1, <1>2, HoldingStep
<1>4. Safe'
  BY <1>1, <1>2, <1>3, OneCallStep, SizesAgreeStep, LowsDifferStep, EntriesMapStep, MappingStep,
     RemovingStep, LiveOwnedStep, PointersMatchStep, LowIsKeptStep DEF Safe
<1>5. Counted' /\ activeShadows' \in Nat
  BY <1>1, <1>2, <1>3, CountedStep
<1> QED BY <1>2, <1>4, <1>5 DEF Inv, TypeOK

(* The invariant holds at every step of every run.                         *)
THEOREM Invariant == Spec => []Inv
<1>1. Init => Inv
  BY InitInv
<1>2. Inv /\ [Next]_vars => Inv'
  BY InvStep
<1> QED BY <1>1, <1>2, PTL DEF Spec

(* Every variable keeps to its values, and the unsigned count of shadows   *)
(* (low_address_map_stats) never goes below zero.                          *)
THEOREM TypeCorrect == Spec => []TypeOK
<1>1. Inv => TypeOK
  BY DEF Inv
<1> QED BY <1>1, Invariant, PTL

(* Every mapping that a copy may use has a region that is mapped and a     *)
(* range that the driver maps in a live allocation.                        *)
THEOREM CopiesSafe == Spec => []CopiesAreSafe
<1>1. Inv => CopiesAreSafe
  <2> SUFFICES ASSUME Inv, NEW m \in Memories,
                      NEW mapping \in {entry[m]} \union {held[t] : t \in Threads}, InUse(m, mapping)
               PROVE  /\ mapping.low \in live
                      /\ driverMap[m] # None
                      /\ CellsOf(mapping) \subseteq CellsOf(driverMap[m])
                      /\ mapping.offset + mapping.size =< size[m]
    BY DEF CopiesAreSafe
  <2>1. Maps(mapping, m)
    BY DEF Inv, Safe, EntriesMap, Holding, InUse
  <2> QED BY <2>1 DEF Maps, Inv, Safe, SizesAgree, CellsOf
<1> QED BY <1>1, Invariant, PTL

(* Every low region that is mapped is in one mapping, of the table or of a *)
(* call; the count agrees; and the application's pointer leads to its own. *)
THEOREM RegionsOwned == Spec => []RegionsAreOwned
<1>1. Inv => RegionsAreOwned
  <2> SUFFICES ASSUME Inv PROVE RegionsAreOwned
    OBVIOUS
  <2>a. EntriesMap /\ Holding /\ LowsDiffer /\ LiveOwned /\ PointersMatch /\ Counted
    BY DEF Inv, Safe
  <2>1. ASSUME NEW low \in Regions
        PROVE  Cardinality({m \in Memories : entry[m] # None /\ entry[m].low = low})
                 + Cardinality({t \in Threads : held[t] # None /\ held[t].low = low})
               = IF low \in live THEN 1 ELSE 0
    <3> DEFINE inTable == {m \in Memories : entry[m] # None /\ entry[m].low = low}
               inCall == {t \in Threads : held[t] # None /\ held[t].low = low}
    <3>1. \/ low \notin live /\ inTable = {} /\ inCall = {}
          \/ low \in live /\ inCall = {} /\ \E m : inTable = {m}
          \/ low \in live /\ inTable = {} /\ \E t : inCall = {t}
      <4>1. CASE low \notin live
        BY <4>1, <2>a DEF EntriesMap, Maps, Holding
      <4>2. ASSUME NEW m \in Memories, entry[m] # None, entry[m].low = low
            PROVE  low \in live /\ inTable = {m} /\ inCall = {}
        BY <4>2, <2>a DEF LowsDiffer, EntriesMap, Maps
      <4>3. ASSUME NEW t \in Threads, held[t] # None, held[t].low = low
            PROVE  low \in live /\ inTable = {} /\ inCall = {t}
        BY <4>3, <2>a DEF LowsDiffer, Holding
      <4> QED BY <4>1, <4>2, <4>3, <2>a DEF LiveOwned
    <3> HIDE DEF inTable, inCall
    <3>2. Cardinality(inTable) + Cardinality(inCall) = IF low \in live THEN 1 ELSE 0
      <4>1. Cardinality({}) = 0 /\ \A x : Cardinality({x}) = 1
        BY FS_EmptySet, FS_Singleton
      <4>2. CASE low \notin live /\ inTable = {} /\ inCall = {}
        BY <4>1, <4>2
      <4>3. ASSUME NEW m, low \in live, inTable = {m}, inCall = {}
            PROVE  Cardinality(inTable) + Cardinality(inCall) = 1
        <5>1. Cardinality(inTable) = 1 /\ Cardinality(inCall) = 0
          BY <4>1, <4>3
        <5> QED BY <5>1
      <4>4. ASSUME NEW t, low \in live, inTable = {}, inCall = {t}
            PROVE  Cardinality(inTable) + Cardinality(inCall) = 1
        <5>1. Cardinality(inTable) = 0 /\ Cardinality(inCall) = 1
          BY <4>1, <4>4
        <5> QED BY <5>1
      <4> QED BY <3>1, <4>2, <4>3, <4>4
    <3> QED BY <3>2 DEF inTable, inCall
  <2>2. activeShadows = Cardinality({m \in Memories : IsShadow(entry[m])})
                        + Cardinality({t \in Threads : pc[t] # "install" /\ IsShadow(held[t])})
    BY <2>a DEF Counted, TableShadows, HeldShadows
  <2>3. \A m \in Memories : pointer[m] \in {"alias", "shadow"} => entry[m] # None /\ entry[m].mode = pointer[m]
    BY <2>a DEF PointersMatch
  <2> QED BY <2>1, <2>2, <2>3 DEF RegionsAreOwned
<1> QED BY <1>1, Invariant, PTL

(* No write of the host through a low pointer is lost, but those in a range *)
(* that the application invalidates before a flush or a submission carried *)
(* them.                                                                   *)
THEOREM HostWritesKept == Spec => []HostWritesSurvive
<1>1. Inv => HostWritesSurvive
  BY DEF Inv, TypeOK, Shape, Safe, LowIsKept, HostWritesSurvive
<1> QED BY <1>1, Invariant, PTL

(* A submission and a flush carry over all that the host wrote before.     *)
THEOREM WritesCarried == Spec => WritesAreCarried
<1>1. ASSUME Inv, NEW t \in Threads, NEW devices, Submit(t, devices)
      PROVE  CarriesWrites(devices)
  <2> SUFFICES ASSUME NEW m \in Memories, NEW c \in CellNumbers,
                      DeviceOf[m] \in devices, newest'[m][c] = "low", ~Busy(m)
               PROVE  FALSE
    BY DEF CarriesWrites
  <2>1. newest[m][c] = "low" => InShadow(entry[m], c)
    BY <1>1 DEF Inv, Safe, LowIsKept, Busy
  <2>2. newest'[m] = IF IsShadow(entry[m]) THEN ToReal(m, CellsOf(entry[m])) ELSE newest[m]
    BY <1>1 DEF Submit, SyncAllShadows
  <2> QED BY <2>1, <2>2 DEF InShadow, ToReal
<1>2. ASSUME Inv, NEW t \in Threads, NEW m \in Memories, NEW r \in Ranges, Flush(t, m, r),
             NEW c \in Asked(m, r)
      PROVE  newest'[m][c] # "low"
  <2>1. Shape /\ EntriesMap /\ LowIsKept /\ SizesAgree /\ PointersMatch
    BY <1>2 DEF Inv, TypeOK, Safe
  <2>2. /\ driverMap[m] \in Ranges /\ ~Busy(m) /\ r.offset \in CellsOf(driverMap[m])
        /\ c \in CellsOf(driverMap[m])
        /\ driverMap[m] # None
    BY <1>2, <2>1 DEF Flush, SyncShadowToReal, MayTouch, PointersMatch, Shape
  <2>3. c \in CellNumbers
    <3>1. /\ driverMap[m].offset \in CellNumbers /\ driverMap[m].size \in Int
          /\ driverMap[m].offset + driverMap[m].size =< MaxSize /\ size[m] \in 0 .. MaxSize
      BY <2>1, <2>2, LowAddressAssumption DEF SizesAgree, Shape, Ranges, CellNumbers, WholeSize
    <3> QED BY <2>2, <3>1, LowAddressAssumption DEF CellsOf, CellNumbers
  <2>4. newest[m][c] = "low" => InShadow(entry[m], c)
    BY <2>1, <2>2, <2>3 DEF LowIsKept, Busy
  <2>5. newest'[m] = ToReal(m, CopyRegion(entry[m], r))
    BY <1>2, <2>1 DEF Flush, SyncShadowToReal, Shape
  <2>6. CASE InShadow(entry[m], c)
    <3>1. CellsOf(entry[m]) = CellsOf(driverMap[m]) /\ entry[m] \in Mappings
      BY <2>1, <2>6 DEF InShadow, IsShadow, EntriesMap, Maps, CellsOf, Shape
    <3>2. /\ r.offset \in CellsOf(entry[m]) /\ c \in CellsOf(entry[m])
          /\ IF r.size = WholeSize THEN c >= r.offset ELSE c \in CellsOf(r)
      BY <1>2, <2>2, <3>1 DEF Asked
    <3>3. /\ r.offset \in Int /\ r.size \in Int /\ c \in Int
          /\ entry[m].offset \in Int /\ entry[m].size \in Int
      BY <2>3, <3>1, LowAddressAssumption DEF Ranges, Mappings, CellNumbers, WholeSize
    <3>4. c \in CopyRegion(entry[m], r)
      BY <3>2, <3>3 DEF CopyRegion, CellsOf
    <3> QED BY <2>3, <2>5, <3>4 DEF ToReal
  <2>7. CASE newest[m][c] # "low"
    BY <2>3, <2>5, <2>7 DEF ToReal
  <2> QED BY <2>4, <2>6, <2>7
<1>3. Inv /\ [Next]_vars =>
          [\A t \in Threads :
              /\ \A devices \in QueueDevices :
                     Submit(t, devices) => CarriesWrites(devices)
              /\ \A m \in Memories, r \in Ranges :
                     Flush(t, m, r) => \A c \in Asked(m, r) : newest'[m][c] # "low"]_vars
  BY <1>1, <1>2
<1> QED BY <1>3, Invariant, PTL DEF Spec, WritesAreCarried
=============================================================================
