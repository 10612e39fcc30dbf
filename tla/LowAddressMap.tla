---------------------------- MODULE LowAddressMap ----------------------------
(***************************************************************************)
(* The low-address mapping of core/mali_wrapper_icd.cpp.  When the driver  *)
(* maps device memory above 4 GiB, the application gets a pointer below    *)
(* it: an alias of the same pages, or a shadow region that the wrapper     *)
(* copies to and from the real memory around flushes, invalidations,       *)
(* submissions and unmaps.  Two maps under memory_tracking_mutex say how   *)
(* large each allocation is and where it is mapped.                        *)
(*                                                                         *)
(* Memory is a row of cells.  Of each cell the model keeps where its       *)
(* newest value is: a copy carries it over or destroys it.                 *)
(*                                                                         *)
(* A stretch of code under the mutex is one step; the copies and munmap()  *)
(* that the code makes outside it are steps of their own.                  *)
(***************************************************************************)
EXTENDS Integers, FiniteSets

CONSTANTS
    None,        \* a null handle, or nothing
    Threads,     \* threads of the application
    Memories,    \* handles the driver may give an allocation
    Devices,
    DeviceOf,    \* the device of each of them
    Coherent,    \* those of a host-coherent memory type, which the code never asks for
    Regions,     \* places below 4 GiB
    MaxSize      \* bound on the size of an allocation

WholeSize == MaxSize + 1    \* VK_WHOLE_SIZE
CellNumbers == 0 .. MaxSize - 1
Ranges == [offset : CellNumbers, size : 1 .. WholeSize]
Mappings == [mode : {"shadow", "alias"}, low : Regions,
             offset : CellNumbers, size : 1 .. MaxSize]

ASSUME LowAddressAssumption ==
    /\ None \notin Memories \union Regions \union Ranges \union Mappings
    /\ IsFiniteSet(Memories) /\ IsFiniteSet(Threads)
    /\ DeviceOf \in [Memories -> Devices]
    /\ Coherent \subseteq Memories
    /\ MaxSize \in Nat

VARIABLES
    size,        \* of each allocation alive in the driver, or 0
    driverMap,   \* the range the driver has mapped, or None
    tracked,     \* tracked_memory_allocations: a size, or 0
    entry,       \* shadow_mappings: a mapping, or None
    live,        \* the regions that are mapped
    activeShadows,  \* low_address_map_stats.active_shadow_maps
    appMemory,   \* the allocations the application has
    pointer,     \* what the pointer it got from vkMapMemory leads to
    newest,      \* where the newest value of each cell is
    jobs,        \* a submission is executing
    pc, mem,     \* where each thread is, and the memory its call is about
    request,     \* the offset and size it asked to map
    held         \* the local new_mapping, stale_mapping or mapping

driverVars == <<size, driverMap>>
tableVars == <<tracked, entry>>
regionVars == <<live, activeShadows>>
appVars == <<appMemory, pointer, newest, jobs>>
threadVars == <<pc, mem, request, held>>
vars == <<driverVars, tableVars, regionVars, appVars, threadVars>>

CellsOf(r) == r.offset .. r.offset + r.size - 1
Goto(t, label) == pc' = [pc EXCEPT ![t] = label]

Init ==
    /\ size = [m \in Memories |-> 0]
    /\ driverMap = [m \in Memories |-> None]
    /\ tracked = [m \in Memories |-> 0]
    /\ entry = [m \in Memories |-> None]
    /\ live = {} /\ activeShadows = 0
    /\ appMemory = {}
    /\ pointer = [m \in Memories |-> "none"]
    /\ newest = [m \in Memories |-> [c \in CellNumbers |-> "real"]]
    /\ jobs = FALSE
    /\ pc = [t \in Threads |-> "idle"]
    /\ mem = [t \in Threads |-> None]
    /\ request = [t \in Threads |-> None]
    /\ held = [t \in Threads |-> None]

-----------------------------------------------------------------------------
(* The copies: of the cells "which" of m, from the shadow to the real      *)
(* memory or back.                                                         *)
ToReal(m, which) ==
    [c \in CellNumbers |-> IF c \notin which THEN newest[m][c]
                           ELSE IF newest[m][c] = "low" THEN "both"
                           ELSE IF newest[m][c] = "real" THEN "device_write_lost"
                           ELSE newest[m][c]]

FromReal(m, which) ==
    [c \in CellNumbers |-> IF c \notin which THEN newest[m][c]
                           ELSE IF newest[m][c] = "real" THEN "both"
                           ELSE IF newest[m][c] = "low" THEN "host_write_lost"
                           ELSE newest[m][c]]

(* When the shadow goes, what was only in it goes too. *)
WithoutLow(cells) ==
    [c \in CellNumbers |-> IF cells[c] = "both" THEN "real"
                           ELSE IF cells[c] = "low" THEN "host_write_lost" ELSE cells[c]]

-----------------------------------------------------------------------------
(* The application uses one allocation in one thread at a time. *)
Busy(m) == \E t \in Threads : mem[t] = m

Start(t, m, label) ==
    /\ pc[t] = "idle"
    /\ ~Busy(m)
    /\ mem' = [mem EXCEPT ![t] = m]
    /\ Goto(t, label)

Finish(t) == /\ Goto(t, "idle")
             /\ mem' = [mem EXCEPT ![t] = None]
             /\ request' = [request EXCEPT ![t] = None]
             /\ held' = [held EXCEPT ![t] = None]

(* vkAllocateMemory: the driver allocates, then the size is recorded. *)
AllocateMemory(t, m, n) ==
    /\ size[m] = 0
    /\ Start(t, m, "track")
    /\ size' = [size EXCEPT ![m] = n]
    /\ UNCHANGED <<driverMap, tableVars, regionVars, appVars, request, held>>

Track(t) ==
    /\ pc[t] = "track"
    /\ tracked' = [tracked EXCEPT ![mem[t]] = size[mem[t]]]
    /\ appMemory' = appMemory \union {mem[t]}
    /\ Finish(t)
    /\ UNCHANGED <<driverVars, entry, regionVars, pointer, newest, jobs>>

(* vkMapMemory or vkMapMemory2: the driver maps the range ... *)
MapMemory(t, m, r) ==
    /\ m \in appMemory
    /\ driverMap[m] = None
    /\ r.offset < size[m]
    /\ r.size # WholeSize => r.offset + r.size =< size[m]
    /\ Start(t, m, "mapped")
    /\ request' = [request EXCEPT ![t] = r]
    /\ driverMap' = [driverMap EXCEPT ![m] =
          [offset |-> r.offset, size |-> IF r.size = WholeSize THEN size[m] - r.offset ELSE r.size]]
    /\ UNCHANGED <<size, tableVars, regionVars, appVars, held>>

(* ... and the pointer is kept when it is low already, when no size is     *)
(* known, or when no low region can be had ...                             *)
KeepPointer(t) ==
    /\ pc[t] \in {"mapped", "resolved"}
    /\ pointer' = [pointer EXCEPT ![mem[t]] = "real"]
    /\ Finish(t)
    /\ UNCHANGED <<driverVars, tableVars, regionVars, appMemory, newest, jobs>>

(* Mutant of Resolved: the offset is not taken off the size. *)
ResolvedWhole(m, r) == IF r.size # WholeSize THEN r.size ELSE tracked[m]

(* ... resolve_map_size_locked() finds the size of the range ...           *)
Resolved(m, r) == IF r.size # WholeSize THEN r.size
                  ELSE IF r.offset < tracked[m] THEN tracked[m] - r.offset ELSE 0

Resolve(t) ==
    /\ pc[t] = "mapped"
    /\ LET n == Resolved(mem[t], request[t])
       IN  /\ n > 0
           /\ request' = [request EXCEPT ![t].size = n]
    /\ Goto(t, "resolved")
    /\ UNCHANGED <<driverVars, tableVars, regionVars, appVars, mem, held>>

(* allocate_low_address_shadow(): the kernel is asked for a place below    *)
(* 4 GiB, or for one place after another there until one is free.          *)
FreeRegions == Regions \ live

(* ... try_create_low_address_alias() makes an alias of the pages, or, if  *)
(* that fails, a region is allocated that gets a copy ...                  *)
NewRegion(t, mode) ==
    /\ pc[t] = "resolved"
    /\ \E low \in FreeRegions :
           /\ live' = live \union {low}
           /\ held' = [held EXCEPT ![t] = [mode |-> mode, low |-> low,
                                           offset |-> request[t].offset, size |-> request[t].size]]
    /\ newest' = IF mode = "alias" THEN newest
                 ELSE [newest EXCEPT ![mem[t]] = FromReal(mem[t], CellsOf(request[t]))]
    /\ Goto(t, "install")
    /\ UNCHANGED <<driverVars, tableVars, activeShadows, appMemory, pointer, jobs, mem, request>>

(* munmap() of a mapping, and the count of the shadows; None is no mapping. *)
Release(mapping) ==
    /\ live' = live \ (IF mapping = None THEN {} ELSE {mapping.low})
    /\ activeShadows' = IF mapping # None /\ mapping.mode = "shadow" THEN activeShadows - 1
                        ELSE activeShadows

IsShadow(mapping) == mapping # None /\ mapping.mode = "shadow"

(* record_shadow_mapping_installed(): one more, unless it replaces one. *)
CountInstalled(mapping, stale) == IF IsShadow(mapping) /\ ~IsShadow(stale) THEN 1 ELSE 0

(* ... which goes into the table, in the place of any other, and the       *)
(* application gets the low pointer.                                       *)
Install(t) ==
    /\ pc[t] = "install"
    /\ entry' = [entry EXCEPT ![mem[t]] = held[t]]
    /\ pointer' = [pointer EXCEPT ![mem[t]] = held[t].mode]
    /\ live' = live \ (IF entry[mem[t]] = None THEN {} ELSE {entry[mem[t]].low})
    /\ activeShadows' = activeShadows + CountInstalled(held[t], entry[mem[t]])
                        - (IF IsShadow(entry[mem[t]]) THEN 1 ELSE 0)
    /\ Finish(t)
    /\ UNCHANGED <<driverVars, tracked, appMemory, newest, jobs>>

(* vkUnmapMemory or vkUnmapMemory2: the mapping is taken out of the table, *)
(* finalize_shadow_mapping() copies the whole of it and unmaps the region, *)
(* and only then the driver unmaps.                                        *)
Pop(t, m) ==
    /\ m \in appMemory
    /\ pointer[m] # "none"
    /\ Start(t, m, "finalize")
    /\ held' = [held EXCEPT ![t] = entry[m]]
    /\ entry' = [entry EXCEPT ![m] = None]
    /\ pointer' = [pointer EXCEPT ![m] = "none"]
    /\ UNCHANGED <<driverVars, tracked, regionVars, appMemory, newest, jobs, request>>

(* Mutant of FinalizeShadow: the region is unmapped without the copy. *)
FinalizeWithoutCopy(t) ==
    /\ pc[t] = "finalize"
    /\ newest' = IF IsShadow(held[t])
                 THEN [newest EXCEPT ![mem[t]] = WithoutLow(newest[mem[t]])] ELSE newest
    /\ Release(held[t])
    /\ held' = [held EXCEPT ![t] = None]
    /\ Goto(t, "driver_unmap")
    /\ UNCHANGED <<driverVars, tableVars, appMemory, pointer, jobs, mem, request>>

FinalizeShadow(t) ==
    /\ pc[t] = "finalize"
    /\ newest' = IF IsShadow(held[t])
                 THEN [newest EXCEPT ![mem[t]] = WithoutLow(ToReal(mem[t], CellsOf(held[t])))]
                 ELSE newest
    /\ Release(held[t])
    /\ held' = [held EXCEPT ![t] = None]
    /\ Goto(t, "driver_unmap")
    /\ UNCHANGED <<driverVars, tableVars, appMemory, pointer, jobs, mem, request>>

DriverUnmaps(t) ==
    /\ pc[t] = "driver_unmap"
    /\ driverMap' = [driverMap EXCEPT ![mem[t]] = None]
    /\ Finish(t)
    /\ UNCHANGED <<size, tableVars, regionVars, appVars>>

(* Mutant of FreeMemory: the mapping is erased and its region forgotten. *)
FreeMemoryForgets(t, m) ==
    /\ m \in appMemory
    /\ ~jobs
    /\ Start(t, m, "erased")
    /\ tracked' = [tracked EXCEPT ![m] = 0]
    /\ entry' = [entry EXCEPT ![m] = None]
    /\ appMemory' = appMemory \ {m}
    /\ pointer' = [pointer EXCEPT ![m] = "none"]
    /\ UNCHANGED <<held, driverVars, regionVars, newest, jobs, request>>

(* vkFreeMemory, of mapped memory too, once no submission uses it: both    *)
(* maps forget it, the region is unmapped, and only then the driver frees  *)
(* it and may reuse the handle.                                            *)
FreeMemory(t, m) ==
    /\ m \in appMemory
    /\ ~jobs
    /\ Start(t, m, "erased")
    /\ tracked' = [tracked EXCEPT ![m] = 0]
    /\ entry' = [entry EXCEPT ![m] = None]
    /\ held' = [held EXCEPT ![t] = entry[m]]
    /\ appMemory' = appMemory \ {m}
    /\ pointer' = [pointer EXCEPT ![m] = "none"]
    /\ UNCHANGED <<driverVars, regionVars, newest, jobs, request>>

FreeReleases(t) ==
    /\ pc[t] = "erased"
    /\ Release(held[t])
    /\ held' = [held EXCEPT ![t] = None]
    /\ Goto(t, "driver_free")
    /\ UNCHANGED <<driverVars, tableVars, appVars, mem, request>>

DriverFrees(t) ==
    /\ pc[t] = "driver_free"
    /\ size' = [size EXCEPT ![mem[t]] = 0]
    /\ driverMap' = [driverMap EXCEPT ![mem[t]] = None]
    /\ newest' = [newest EXCEPT ![mem[t]] = [c \in CellNumbers |-> "real"]]
    /\ Finish(t)
    /\ UNCHANGED <<tableVars, regionVars, appMemory, pointer, jobs>>

-----------------------------------------------------------------------------
dataFrame == <<driverVars, tableVars, regionVars, appMemory, pointer, threadVars>>

(* compute_copy_region(): the part of a range that is mapped. *)
CopyRegion(mapping, r) ==
    IF r.offset < mapping.offset \/ r.offset >= mapping.offset + mapping.size THEN {}
    ELSE IF r.size = WholeSize THEN r.offset .. mapping.offset + mapping.size - 1
    ELSE CellsOf(r) \intersect CellsOf(mapping)

(* The application flushes and invalidates within what it has mapped. *)
Asked(m, r) == IF r.size = WholeSize THEN {c \in CellsOf(driverMap[m]) : c >= r.offset} ELSE CellsOf(r)

MayTouch(m, r) == /\ pointer[m] # "none"
                  /\ ~Busy(m)
                  /\ r.offset \in CellsOf(driverMap[m])
                  /\ Asked(m, r) \subseteq CellsOf(driverMap[m])

SyncShadowToReal(m, r) == ToReal(m, CopyRegion(entry[m], r))

(* A write of the host that was not copied yet is overwritten.             *)
SyncRealToShadow(m, r) ==
    [c \in CellNumbers |-> IF c \in CopyRegion(entry[m], r) /\ newest[m][c] = "low"
                           THEN "invalidated" ELSE FromReal(m, CopyRegion(entry[m], r))[c]]

(* vkFlushMappedMemoryRanges: sync_shadow_to_real() before the driver's.   *)
(* The application flushes ranges it has written to.                       *)
Flush(t, m, r) ==
    /\ pc[t] = "idle"
    /\ MayTouch(m, r)
    /\ \E c \in Asked(m, r) : newest[m][c] = "low"
    /\ newest' = [newest EXCEPT ![m] = SyncShadowToReal(m, r)]
    /\ UNCHANGED <<dataFrame, jobs>>

(* vkInvalidateMappedMemoryRanges: sync_real_to_shadow() after the         *)
(* driver's, of any memory type and whatever the host wrote there.         *)
Invalidate(t, m, r) ==
    /\ pc[t] = "idle"
    /\ MayTouch(m, r)
    /\ IsShadow(entry[m])
    /\ newest' = [newest EXCEPT ![m] = SyncRealToShadow(m, r)]
    /\ UNCHANGED <<dataFrame, jobs>>

(* Mutant of Submit: an alias ends the loop over the mappings. *)
SubmitStopsAtAlias(t, devices) ==
    /\ pc[t] = "idle"
    /\ newest' = [m \in Memories |->
                     IF /\ DeviceOf[m] \in devices /\ IsShadow(entry[m])
                        /\ \A o \in Memories : entry[o] # None => entry[o].mode = "shadow"
                     THEN ToReal(m, CellsOf(entry[m])) ELSE newest[m]]
    /\ jobs' = TRUE
    /\ UNCHANGED dataFrame

(* vkQueueSubmit, vkQueueSubmit2 and vkQueueSubmit2KHR: every shadow of    *)
(* the queue's device, of every device when it is not known, is copied.    *)
SyncAllShadows(devices) ==
    [m \in Memories |-> IF DeviceOf[m] \in devices /\ IsShadow(entry[m])
                        THEN ToReal(m, CellsOf(entry[m])) ELSE newest[m]]
QueueDevices == {{d} : d \in Devices} \union {Devices}

Submit(t, devices) ==
    /\ pc[t] = "idle"
    /\ newest' = SyncAllShadows(devices)
    /\ jobs' = TRUE
    /\ UNCHANGED dataFrame

(* vkDestroyDevice by an application that leaves allocations behind:       *)
(* remove_tracking_for_device() forgets and unmaps them all.               *)
DestroyDevice(t, d) ==
    LET its == {m \in Memories : DeviceOf[m] = d}
        stale == {m \in its : entry[m] # None}
    IN  /\ pc[t] = "idle"
        /\ ~jobs
        /\ \A m \in its : ~Busy(m)
        /\ tracked' = [m \in Memories |-> IF m \in its THEN 0 ELSE tracked[m]]
        /\ entry' = [m \in Memories |-> IF m \in its THEN None ELSE entry[m]]
        /\ live' = live \ {entry[m].low : m \in stale}
        /\ activeShadows' = activeShadows - Cardinality({m \in stale : entry[m].mode = "shadow"})
        /\ size' = [m \in Memories |-> IF m \in its THEN 0 ELSE size[m]]
        /\ driverMap' = [m \in Memories |-> IF m \in its THEN None ELSE driverMap[m]]
        /\ appMemory' = appMemory \ its
        /\ pointer' = [m \in Memories |-> IF m \in its THEN "none" ELSE pointer[m]]
        /\ newest' = [m \in Memories |-> IF m \in its THEN [c \in CellNumbers |-> "real"]
                                         ELSE newest[m]]
        /\ UNCHANGED <<jobs, threadVars>>

(* The application writes through its pointer; the device writes where the *)
(* application has no write of its own pending.                            *)
HostWrites(m, c) ==
    /\ pointer[m] # "none"
    /\ ~Busy(m)
    /\ c \in CellsOf(driverMap[m])
    /\ newest' = [newest EXCEPT ![m][c] = IF pointer[m] = "shadow" THEN "low" ELSE "real"]
    /\ UNCHANGED <<dataFrame, jobs>>

DeviceWrites(m, c) ==
    /\ jobs
    /\ m \in appMemory
    /\ c < size[m]
    /\ newest[m][c] # "low"
    /\ newest' = [newest EXCEPT ![m][c] = "real"]
    /\ UNCHANGED <<dataFrame, jobs>>

DeviceFinishes ==
    /\ jobs
    /\ jobs' = FALSE
    /\ UNCHANGED <<dataFrame, newest>>

-----------------------------------------------------------------------------
Calls(t) ==
    \/ \E m \in Memories : \/ \E n \in 1 .. MaxSize : AllocateMemory(t, m, n)
                           \/ \E r \in Ranges : MapMemory(t, m, r) \/ Flush(t, m, r)
                                                \/ Invalidate(t, m, r)
                           \/ Pop(t, m) \/ FreeMemory(t, m)
    \/ \E devices \in QueueDevices : Submit(t, devices)
    \/ \E d \in Devices : DestroyDevice(t, d)

Steps(t) == \/ Track(t) \/ KeepPointer(t) \/ Resolve(t)
            \/ NewRegion(t, "alias") \/ NewRegion(t, "shadow") \/ Install(t)
            \/ FinalizeShadow(t) \/ DriverUnmaps(t) \/ FreeReleases(t) \/ DriverFrees(t)

Next == \/ \E t \in Threads : Calls(t) \/ Steps(t)
        \/ \E m \in Memories, c \in CellNumbers : HostWrites(m, c) \/ DeviceWrites(m, c)
        \/ DeviceFinishes

Spec == Init /\ [][Next]_vars

-----------------------------------------------------------------------------
Shape ==
    /\ size \in [Memories -> 0 .. MaxSize] /\ tracked \in [Memories -> 0 .. MaxSize]
    /\ driverMap \in [Memories -> Ranges \union {None}]
    /\ entry \in [Memories -> Mappings \union {None}]
    /\ live \subseteq Regions
    /\ appMemory \subseteq Memories
    /\ pointer \in [Memories -> {"none", "real", "alias", "shadow"}]
    /\ newest \in [Memories -> [CellNumbers ->
                      {"real", "low", "both", "invalidated", "host_write_lost", "device_write_lost"}]]
    /\ jobs \in BOOLEAN
    /\ pc \in [Threads -> {"idle", "track", "mapped", "resolved", "install", "finalize",
                           "driver_unmap", "erased", "driver_free"}]
    /\ mem \in [Threads -> Memories \union {None}]
    /\ request \in [Threads -> Ranges \union {None}]
    /\ held \in [Threads -> Mappings \union {None}]

(* Every variable keeps to the values its declaration allows; the count of *)
(* the shadows, which is unsigned, never goes below zero.                  *)
TypeOK == Shape /\ activeShadows \in Nat

(* A mapping that a copy may use, from the table or from the local of a    *)
(* thread in vkUnmapMemory.                                                *)
InUse(m, mapping) == \/ mapping = entry[m] /\ mapping # None
                     \/ \E t \in Threads : /\ mem[t] = m /\ pc[t] \in {"install", "finalize"}
                                           /\ mapping = held[t] /\ mapping # None

(* Whenever another thread submits, every mapping it or an unmap may copy  *)
(* has a region that is still mapped below and a range that the driver     *)
(* still maps, inside an allocation that is still alive, though the handle *)
(* of the memory may be a reused one.                                      *)
CopiesAreSafe ==
    \A m \in Memories : \A mapping \in {entry[m]} \union {held[t] : t \in Threads} :
        InUse(m, mapping) =>
            /\ mapping.low \in live
            /\ driverMap[m] # None
            /\ CellsOf(mapping) \subseteq CellsOf(driverMap[m])
            /\ mapping.offset + mapping.size =< size[m]

(* No low region is lost or unmapped twice: each one that is mapped is in  *)
(* one mapping, of the table or of a thread; the count agrees with the     *)
(* table; and the pointer the application holds leads to the region of its *)
(* own mapping.                                                            *)
RegionsAreOwned ==
    /\ \A low \in Regions :
           Cardinality({m \in Memories : entry[m] # None /\ entry[m].low = low})
             + Cardinality({t \in Threads : held[t] # None /\ held[t].low = low})
           = IF low \in live THEN 1 ELSE 0
    /\ activeShadows = Cardinality({m \in Memories : IsShadow(entry[m])})
                       + Cardinality({t \in Threads : pc[t] # "install" /\ IsShadow(held[t])})
    /\ \A m \in Memories : pointer[m] \in {"alias", "shadow"} =>
           entry[m] # None /\ entry[m].mode = pointer[m]

(* What the host writes through a low pointer reaches the real memory      *)
(* before the shadow is unmapped, replaced or filled: no write is lost,    *)
(* through any of this.  The only writes excepted ("invalidated") are      *)
(* those in a range that the application itself invalidates after them,    *)
(* before a flush or a submission carried them.                            *)
HostWritesSurvive ==
    \A m \in appMemory, c \in CellNumbers : newest[m][c] # "host_write_lost"

(* What Vulkan leaves undefined there for non-coherent memory it allows    *)
(* for coherent memory, where an invalidation changes nothing: "The        *)
(* wrapper can provide a low pointer without changing applications".  The  *)
(* code copies over the host's write, so that this does not hold.          *)
CoherentWritesSurvive ==
    \A m \in appMemory \intersect Coherent, c \in CellNumbers : newest[m][c] # "invalidated"

(* A flush, and a submission to any of the devices it may be for, leaves   *)
(* in the real memory all that the host wrote before it in the range or on *)
(* those devices, except in an allocation that another thread is unmapping. *)
CarriesWrites(devices) ==
    \A m \in Memories, c \in CellNumbers :
        (DeviceOf[m] \in devices /\ newest'[m][c] = "low") => Busy(m)

WritesAreCarried ==
    [][\A t \in Threads :
           /\ \A devices \in QueueDevices :
                  Submit(t, devices) => CarriesWrites(devices)
           /\ \A m \in Memories, r \in Ranges :
                  Flush(t, m, r) => \A c \in Asked(m, r) : newest'[m][c] # "low"]_vars

(* What the device writes is there until the application reads it: "A      *)
(* shadow result is functional but copied".                                *)
DeviceWritesSurvive ==
    \A m \in appMemory, c \in CellNumbers : newest[m][c] # "device_write_lost"
=============================================================================
