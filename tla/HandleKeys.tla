----------------------------- MODULE HandleKeys -----------------------------
(***************************************************************************)
(* How the layer finds its data of a Vulkan handle (wsi_private_data.cpp). *)
(* The data of instances and devices is filed under a key: the first word  *)
(* of the object, where the Vulkan loader keeps its dispatch table.  But   *)
(* the loader writes that word after the wrapper has filed the data, and   *)
(* the driver gives the same word to several objects; so the layer also    *)
(* keeps the key of each handle it knows, falls back on a search, and      *)
(* files the data of a second device under its own address.                *)
(*                                                                         *)
(* Each function of the maps holds g_data_lock, and is one step here.      *)
(***************************************************************************)
EXTENDS EntryPoints, VulkanHandles, Integers

CONSTANTS
    Queues,        \* handles the driver may give a queue
    Words,         \* first words the driver gives an object
    Blocks,        \* addresses of private data of devices
    MaxInstances,  \* bound on the instances created
    MaxDevices     \* bound on the devices created

(* The word the loader writes into a device and its queues. *)
LoaderWord(d) == <<"loader", d>>
Keys == Words \union Blocks
PrivateData == [device : Devices, block : Blocks, owns : BOOLEAN]

ASSUME KeysAssumption ==
    /\ Cardinality(Blocks) >= Cardinality(Devices)
    /\ {MaxInstances, MaxDevices} \subseteq Nat
    /\ None \notin Keys \union Instances \union Devices \union PrivateData
    /\ Words \intersect Blocks = {}
    /\ Devices \intersect (Instances \union Queues) = {}
    /\ \A d \in Devices : LoaderWord(d) \notin Keys \union {None}

VARIABLES
    word,          \* the first word of every handle, or None
    live,          \* instances the application has
    parent,        \* the instance each device was created from, or None
    queueOf,       \* the device of each queue the application has, or None
    given,         \* devices vkCreateDevice has returned to the application
    chain,         \* devices on which the application has a swapchain of the layer
    instanceData,  \* g_instance_data: by key, the instance of the data, or None
    instanceKey,   \* g_instance_key_mapping
    sharers,       \* instances that had their first word together with another
    wsiDevices,    \* WSIManager::Impl::devices
    deviceData,    \* g_device_data: by key, the private data of a device, or None
    deviceKey,     \* g_device_key_mapping
    queueKey,      \* g_queue_key_mapping
    instancesMade, devicesMade

instanceVars == <<live, instanceData, instanceKey, sharers, instancesMade>>
deviceVars == <<parent, given, wsiDevices, deviceKey, devicesMade>>
queueVars == <<queueOf, queueKey>>
vars == <<word, instanceVars, deviceVars, queueVars, chain, deviceData>>

Handles == Instances \union Devices \union Queues
Init ==
    /\ word = [h \in Handles |-> None]
    /\ live = {} /\ given = {} /\ chain = {} /\ sharers = {} /\ wsiDevices = {}
    /\ parent = [d \in Devices |-> None]
    /\ queueOf = [q \in Queues |-> None]
    /\ instanceData = [k \in Words |-> None]
    /\ instanceKey = [i \in Instances |-> None]
    /\ deviceData = [k \in Keys |-> None]
    /\ deviceKey = [d \in Devices |-> None]
    /\ queueKey = [q \in Queues |-> None]
    /\ instancesMade = 0 /\ devicesMade = 0

-----------------------------------------------------------------------------
(* instance_private_data.  The physical devices of an instance have its    *)
(* first word, and no key of their own.                                    *)
KeyOfInstance(i) == IF instanceKey[i] = None THEN word[i] ELSE instanceKey[i]
OfPhysicalDevice(i) == instanceData[word[i]]

(* get() and try_get(): by the key, then by the handle. *)
FindInstance(i) ==
    IF instanceData[KeyOfInstance(i)] # None THEN instanceData[KeyOfInstance(i)]
    ELSE IF \E k \in Words : instanceData[k] = i THEN i ELSE None

(* associate(): data of an instance with the same first word is taken for  *)
(* data of this one.                                                       *)
AssociateInstance(i, w) ==
    /\ LET same == {j \in live : word[j] = w} IN
       /\ instanceData' = IF \E j \in same, k \in Words : instanceData[k] = j THEN instanceData
                          ELSE [instanceData EXCEPT ![w] = i]
       /\ sharers' = (sharers \ {i}) \union IF same = {} THEN {} ELSE same \union {i}
    /\ instanceKey' = [instanceKey EXCEPT ![i] = IF @ = None THEN w ELSE @]

(* WSIManager::initialize(), for an instance it does not know.             *)
CreateInstance(i, w) ==
    /\ i \notin live /\ instancesMade < MaxInstances
    /\ instancesMade' = instancesMade + 1
    /\ live' = live \union {i}
    /\ word' = [word EXCEPT ![i] = w]
    /\ AssociateInstance(i, w)
    /\ UNCHANGED <<deviceVars, queueVars, chain, deviceData>>

(* WSIManager::release_instance() and disassociate(), when vkDestroyInstance *)
(* does release the instance: shared data is gone for all who share it.    *)
ReleaseInstance(i) ==
    /\ i \in live /\ \A d \in Devices : parent[d] # i
    /\ live' = live \ {i}
    /\ IF FindInstance(i) = None THEN UNCHANGED <<instanceData, instanceKey>>
       ELSE /\ instanceKey' = [instanceKey EXCEPT ![i] = None]
            /\ instanceData' = [instanceData EXCEPT ![KeyOfInstance(i)] = None]
    /\ word' = [word EXCEPT ![i] = None]
    /\ UNCHANGED <<sharers, instancesMade, deviceVars, queueVars, chain, deviceData>>

-----------------------------------------------------------------------------
(* device_private_data. *)
Data(d, b) == [device |-> d, block |-> b, owns |-> FALSE]
Tracked == {k \in Keys : deviceData[k] # None}
FreeBlocks == Blocks \ {deviceData[k].block : k \in Tracked}
At(k) == IF k \in Tracked THEN deviceData[k] ELSE None

KeyOfDevice(d) == IF deviceKey[d] = None THEN word[d] ELSE deviceKey[d]
KeysOfData(d) == {k \in Tracked : deviceData[k].device = d}

(* get(VkDevice): by the key, then by the handle. *)
FindDevice(d) ==
    IF At(KeyOfDevice(d)) # None THEN At(KeyOfDevice(d))
    ELSE IF KeysOfData(d) # {} THEN deviceData[CHOOSE k \in KeysOfData(d) : TRUE] ELSE None

(* Bug: a second device with the word of another is filed under it too:    *)
(* try_insert() keeps what is there.                                       *)
StoreKeyIsWord(d, b) == word'[d]

(* The key associate() files the data under. *)
StoreKey(d, b) ==
    IF deviceKey[d] # None THEN deviceKey[d]
    ELSE IF At(word'[d]) = None \/ KeysOfData(d) # {} THEN word'[d]
    ELSE b

Associate(d, b) ==
    LET k == StoreKey(d, b) IN
    /\ deviceData' = IF k \in Tracked /\ deviceData[k].device # d /\ deviceKey[d] = None
                     THEN deviceData
                     ELSE [deviceData EXCEPT ![k] = Data(d, b)]
    /\ deviceKey' = [deviceKey EXCEPT ![d] = k]

(* vkCreateDevice from a physical device of instance i; init_device() is   *)
(* given another instance t.  It may fail, which is only logged.           *)
DeviceCreated(d, i, t, w) ==
    /\ parent[d] = None /\ devicesMade < MaxDevices
    /\ {i, t} \subseteq live /\ OfPhysicalDevice(i) # None
    /\ ResolveInstance("vkCreateDevice") = "wrapper"
    /\ devicesMade' = devicesMade + 1
    /\ parent' = [parent EXCEPT ![d] = i]
    /\ word' = [word EXCEPT ![d] = w]
    /\ \/ /\ FindInstance(t) # None /\ d \notin wsiDevices
          /\ \E b \in FreeBlocks : Associate(d, b)
          /\ wsiDevices' = wsiDevices \union {d}
       \/ UNCHANGED <<wsiDevices, deviceData, deviceKey>>
    /\ UNCHANGED <<instanceVars, queueVars, given, chain>>

(* The loader writes its word before it returns the device. *)
LoaderTakes(d) ==
    /\ parent[d] # None /\ d \notin given
    /\ word' = [word EXCEPT ![d] = LoaderWord(d)]
    /\ given' = given \union {d}
    /\ UNCHANGED <<instanceVars, parent, wsiDevices, deviceKey, devicesMade, queueVars, chain, deviceData>>

(* Bug: the key of a handle that is known already is not replaced. *)
RegisterKeepsKey(d, q) ==
    queueKey' = [queueKey EXCEPT ![q] = IF @ = None THEN KeyOfDevice(d) ELSE @]

(* register_queue_key_mapping(). *)
RegisterQueue(d, q) == queueKey' = [queueKey EXCEPT ![q] = KeyOfDevice(d)]

(* vkGetDeviceQueue, after which the loader writes its word. *)
QueueHandedOut(d, q) ==
    /\ d \in given /\ queueOf[q] \in {None, d}
    /\ queueOf' = [queueOf EXCEPT ![q] = d]
    /\ RegisterQueue(d, q)
    /\ word' = [word EXCEPT ![q] = LoaderWord(d)]
    /\ UNCHANGED <<instanceVars, deviceVars, chain, deviceData>>

(* get(VkQueue): by the key, or the only device there is. *)
KeyOfQueue(q) == IF queueKey[q] = None THEN word[q] ELSE queueKey[q]
Sole == CHOOSE k \in Tracked : TRUE
Recovers(q) == At(KeyOfQueue(q)) = None /\ Cardinality(Tracked) = 1
FindQueue(q) == IF Recovers(q) THEN deviceData[Sole] ELSE At(KeyOfQueue(q))

(* vkCreateSwapchainKHR: the layer's data of the device has the swapchain, *)
(* and the first queue of the device is registered on the way.             *)
Owns(d, yes) == LET k == CHOOSE k \in Tracked : deviceData[k] = FindDevice(d) IN
                deviceData' = [deviceData EXCEPT ![k].owns = yes]
CreateSwapchain(d, q) ==
    /\ d \in given \ chain /\ FindDevice(d) # None
    /\ queueOf[q] = d
    /\ RegisterQueue(d, q)
    /\ Resolve(d, "vkCreateSwapchainKHR", TRUE) = "layer"
    /\ \/ Owns(d, TRUE) /\ chain' = chain \union {d}
       \/ UNCHANGED <<deviceData, chain>>
    /\ UNCHANGED <<word, instanceVars, deviceVars, queueOf>>

(* vkGetSwapchainImagesKHR, vkAcquireNextImageKHR and the like look at the *)
(* swapchain only if the data of the device has it, and forward the call   *)
(* to the driver otherwise.                                                *)
StaysHome(d, c) ==
    Resolve(d, c, TRUE) = "layer" /\ FindDevice(d) # None /\ FindDevice(d).owns

DestroySwapchain(d) ==
    /\ d \in chain /\ StaysHome(d, "vkDestroySwapchainKHR")
    /\ Owns(d, FALSE)
    /\ chain' = chain \ {d}
    /\ UNCHANGED <<word, instanceVars, deviceVars, queueVars>>

(* vkQueuePresentKHR looks its queue up, and keeps the key it recovers. *)
QueuePresent(q) ==
    /\ queueOf[q] \in chain
    /\ queueKey' = IF Recovers(q) /\ queueKey[q] = None
                   THEN [queueKey EXCEPT ![q] = Sole] ELSE queueKey
    /\ UNCHANGED <<word, instanceVars, deviceVars, queueOf, chain, deviceData>>

(* release_device() and disassociate(): the keys of the queues go with the *)
(* data of the device, if it has any.                                      *)
Disassociate(d) ==
    LET k == KeyOfDevice(d) IN
    IF At(k) = None THEN UNCHANGED <<deviceData, deviceKey, queueKey>>
    ELSE /\ deviceKey' = [deviceKey EXCEPT ![d] = None]
         /\ deviceData' = [deviceData EXCEPT ![k] = None]
         /\ queueKey' = [q \in Queues |-> IF queueKey[q] = k THEN None ELSE queueKey[q]]

DeviceDestroyed(d) ==
    /\ d \in given \ chain
    /\ Disassociate(d)
    /\ wsiDevices' = wsiDevices \ {d}
    /\ parent' = [parent EXCEPT ![d] = None]
    /\ given' = given \ {d}
    /\ queueOf' = [q \in Queues |-> IF queueOf[q] = d THEN None ELSE queueOf[q]]
    /\ word' = [h \in Handles |-> IF h = d \/ (h \in Queues /\ queueOf[h] = d) THEN None ELSE word[h]]
    /\ UNCHANGED <<instanceVars, devicesMade, chain>>

InstanceCalls == \E i \in Instances : ReleaseInstance(i) \/ \E w \in Words : CreateInstance(i, w)
DeviceCalls == \E d \in Devices :
    \/ \E i, t \in Instances, w \in Words : DeviceCreated(d, i, t, w)
    \/ LoaderTakes(d) \/ DeviceDestroyed(d)
QueueCalls ==
    \/ \E d \in Devices, q \in Queues : QueueHandedOut(d, q) \/ CreateSwapchain(d, q)
    \/ \E d \in Devices : DestroySwapchain(d)
    \/ \E q \in Queues : QueuePresent(q)
Next == InstanceCalls \/ DeviceCalls \/ QueueCalls

Spec == Init /\ [][Next]_vars

-----------------------------------------------------------------------------
TypeOK ==
    /\ live \subseteq Instances /\ given \subseteq Devices /\ chain \subseteq given
    /\ wsiDevices \subseteq Devices
    /\ DOMAIN word = Handles
    /\ parent \in [Devices -> Instances \union {None}]
    /\ queueOf \in [Queues -> Devices \union {None}]
    /\ instanceData \in [Words -> Instances \union {None}]
    /\ instanceKey \in [Instances -> Words \union {None}]
    /\ deviceData \in [Keys -> PrivateData \union {None}]
    /\ deviceKey \in [Devices -> Keys \union {None}]
    /\ DOMAIN queueKey = Queues

(* The layer finds, for a device the application has, the data it made for *)
(* this device, whatever first words the driver and the loader gave it and *)
(* the others and whatever was destroyed before it; and for a device whose *)
(* set-up failed, nobody else's.                                           *)
DevicesFindTheirData == \A d \in given :
    IF d \in wsiDevices THEN FindDevice(d) # None /\ FindDevice(d).device = d
    ELSE FindDevice(d) = None

(* A swapchain the layer made is never handed to the driver: every command *)
(* on it is the layer's, whichever function the application asked for the  *)
(* command, and the layer finds that it owns the swapchain, whether the    *)
(* command names the device or a queue.                                    *)
CallsStayHome == \A d \in chain :
    /\ \A c \in SwapchainCommands : ResolveInstance(c) = "layer" /\ StaysHome(d, c)
    /\ \A q \in Queues : queueOf[q] = d =>
          FindQueue(q) # None /\ FindQueue(q).device = d /\ FindQueue(q).owns

(* An instance whose first word no other has had finds its own data, and   *)
(* so do its physical devices.                                             *)
InstancesFindTheirData == \A i \in live \ sharers :
    FindInstance(i) = i /\ OfPhysicalDevice(i) = i
=============================================================================
