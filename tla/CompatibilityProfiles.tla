----------------------- MODULE CompatibilityProfiles -----------------------
(***************************************************************************)
(* What the wrapper tells an application of a physical device, and what it *)
(* then asks of the driver for it: compatibility/compatibility_manager.cpp *)
(* keeps a profile per instance and finds it again through the physical    *)
(* device; the ICD overlays the answers of the driver with it (what is     *)
(* "told") and rewrites a VkDeviceCreateInfo with it (what is "asked").    *)
(*                                                                         *)
(* Features and extensions are names in sets: a VkPhysicalDeviceFeatures   *)
(* and a chain of feature structures are the set of the features they      *)
(* enable.  Each instance has one physical device, which the driver tells  *)
(* apart from that of any other instance, so that it goes by the name of   *)
(* its instance.  No instance is ever unregistered, for the reference that *)
(* vkCreateInstance leaves (see DeviceRegistry).                           *)
(***************************************************************************)
EXTENDS VulkanHandles, Naturals, FiniteSets

CONSTANTS
    Engines,            \* VkApplicationInfo::pEngineName of its instances
    Override,           \* MALI_WRAPPER_COMPAT_PROFILE: "auto", "off" or "vkd3d"
    UnsafeSpoof,        \* MALI_WRAPPER_UNSAFE_SPOOF
    FilterMemoryHost,   \* MALI_WRAPPER_FILTER_EXTERNAL_MEMORY_HOST, or Wine WoW64
    DriverFeatures,     \* what the driver supports
    DriverExtensions,
    OptionalByLayer,    \* extensions the layer enables where the driver has them
    RequiredByLayer     \* extensions the built platforms cannot do without

(* Features of VkPhysicalDeviceFeatures that some profile answers for, and *)
(* those of chained structures.                                            *)
UnsafeCore == {"vertexPipelineStoresAndAtomics", "sparseBinding"}
CoreFeatures == {"pipelineStatisticsQuery"} \union UnsafeCore
UnsafeChain == {"zeroDivisor", "robustness2"}
Features == CoreFeatures \union UnsafeChain \union {"divisor"}

Extensions == {"KHR_divisor", "EXT_divisor", "memory_host", "external_fence", "dma_buf"}

Selections == [vkd3d : BOOLEAN, unsafe : BOOLEAN]

(* Vulkan requires the feature of the extension.  A driver of the older    *)
(* name alone is none the profile works on.                                *)
ASSUME ProfilesAssumption ==
    /\ Override \in {"auto", "off", "vkd3d"}
    /\ {UnsafeSpoof, FilterMemoryHost} \subseteq BOOLEAN
    /\ DriverFeatures \subseteq Features
    /\ DriverExtensions \subseteq Extensions
    /\ "EXT_divisor" \in DriverExtensions => "KHR_divisor" \in DriverExtensions
    /\ OptionalByLayer \union RequiredByLayer \subseteq Extensions
    /\ "KHR_divisor" \in DriverExtensions => "divisor" \in DriverFeatures
    /\ None \notin Instances
    /\ \A sel \in Selections : sel # None

VARIABLES
    profile,      \* instance_profiles: the selection of each instance, or None
    enumerated,   \* physical_device_instances: those associated with their instance
    appPhysical,  \* physical devices whose handle the application has
    told          \* what it was last told of each, or None

profileVars == <<profile, enumerated, appPhysical, told>>

-----------------------------------------------------------------------------
(* The selection of a profile.                                             *)

Native == [vkd3d |-> FALSE, unsafe |-> FALSE]

DetectProfile(engine) == engine = "vkd3d"

SelectProfile(engine) ==
    LET vkd3d == Override # "off" /\ (Override = "vkd3d" \/ DetectProfile(engine))
    IN  [vkd3d |-> vkd3d, unsafe |-> vkd3d /\ UnsafeSpoof]

Registered == {i \in Instances : profile[i] # None}

(* The profile of the instance that enumerated the device; else that of    *)
(* the only instance, else the default.                                    *)
SelectionFor(i) ==
    IF i \in enumerated /\ profile[i] # None THEN profile[i]
    ELSE IF Cardinality(Registered) = 1 THEN profile[CHOOSE j \in Registered : TRUE]
    ELSE Native

-----------------------------------------------------------------------------
(* What is told: the answers of the driver, overlaid.                      *)

OverlayFeatures(sel) ==
    IF ~sel.vkd3d THEN {}
    ELSE {"pipelineStatisticsQuery"} \union (IF sel.unsafe THEN UnsafeCore ELSE {})

OverlayFeatureChain(sel) ==
    IF ~sel.vkd3d THEN {}
    ELSE {"divisor"} \union (IF sel.unsafe THEN UnsafeChain ELSE {})

GetPhysicalDeviceFeatures2(i) ==
    DriverFeatures \union OverlayFeatures(SelectionFor(i))
                   \union OverlayFeatureChain(SelectionFor(i))

Filtered(extensions) ==
    IF FilterMemoryHost THEN extensions \ {"memory_host"} ELSE extensions

OverlayDeviceExtensions(sel, extensions) ==
    IF sel.vkd3d /\ "KHR_divisor" \in extensions
    THEN extensions \union {"EXT_divisor"} ELSE extensions

EnumerateDeviceExtensionProperties(i) ==
    OverlayDeviceExtensions(SelectionFor(i), Filtered(DriverExtensions))

(* A queue family can bind sparse memory: unsafe mode says so of those     *)
(* that do graphics or compute.                                            *)
OverlayQueueFamilies(sel) == sel.unsafe

(* Formats of sparse images: those of the driver, in unsafe mode only      *)
(* those of single-sample 2D images.                                       *)
SparseImageFormats(sel, plain2d) == sel.unsafe => plain2d

-----------------------------------------------------------------------------
(* What is asked: the extensions and features of a new device.             *)

LayerCanRun == RequiredByLayer \subseteq DriverExtensions

AddRequiredByLayer(extensions) ==
    extensions \union (OptionalByLayer \intersect DriverExtensions) \union RequiredByLayer

SanitizeCoreFeatures(sel, features) ==
    features \ ({"pipelineStatisticsQuery"} \union (IF sel.unsafe THEN UnsafeCore ELSE {}))

SanitizeChain(sel, features) ==
    IF sel.unsafe THEN features \ UnsafeChain ELSE features

PrepareExtensions(sel, extensions) ==
    IF sel.vkd3d /\ "EXT_divisor" \in extensions
    THEN (extensions \ {"EXT_divisor"}) \union {"KHR_divisor"} ELSE extensions

(* DeviceCreateTransform::prepare(): a chain is copied, and a structure of *)
(* a size that is not known cannot be (wellKnown); a native chain goes     *)
(* through as it is.                                                       *)
Prepare(sel, features, extensions, wellKnown) ==
    [ok |-> ~sel.vkd3d \/ wellKnown,
     features |-> IF sel.vkd3d THEN SanitizeChain(sel, SanitizeCoreFeatures(sel, features))
                  ELSE features,
     extensions |-> PrepareExtensions(sel, Filtered(AddRequiredByLayer(extensions)))]

-----------------------------------------------------------------------------
(* vkCreateInstance on success, the enumeration of physical devices, from  *)
(* which the application has their handles, and its queries.               *)

ProfilesInit ==
    /\ profile = [i \in Instances |-> None]
    /\ enumerated = {}
    /\ appPhysical = {}
    /\ told = [i \in Instances |-> None]

RegisterInstance(i, engine) ==
    /\ profile[i] = None
    /\ profile' = [profile EXCEPT ![i] = SelectProfile(engine)]
    /\ UNCHANGED <<enumerated, appPhysical, told>>

(* A mutant: only the groups of physical devices are associated.           *)
EnumerateWithoutAssociation(i) ==
    /\ profile[i] # None
    /\ i \notin appPhysical
    /\ appPhysical' = appPhysical \union {i}
    /\ UNCHANGED <<profile, enumerated, told>>

EnumeratePhysicalDevices(i) ==
    /\ profile[i] # None
    /\ i \notin appPhysical
    /\ enumerated' = enumerated \union {i}
    /\ appPhysical' = appPhysical \union {i}
    /\ UNCHANGED <<profile, told>>

AskPhysicalDevice(i) ==
    /\ i \in appPhysical
    /\ told' = [told EXCEPT ![i] = [features |-> GetPhysicalDeviceFeatures2(i),
                                    extensions |-> EnumerateDeviceExtensionProperties(i),
                                    binds |-> \/ "sparseBinding" \in DriverFeatures
                                              \/ OverlayQueueFamilies(SelectionFor(i))]]
    /\ UNCHANGED <<profile, enumerated, appPhysical>>

Told == [features : SUBSET Features, extensions : SUBSET Extensions, binds : BOOLEAN]

ProfilesTypeOK ==
    /\ profile \in [Instances -> Selections \union {None}]
    /\ enumerated \subseteq Instances
    /\ appPhysical \subseteq Instances
    /\ told \in [Instances -> Told \union {None}]

-----------------------------------------------------------------------------
(* The driver gives what it has, and no more.                              *)
DriverAccepts(asked) ==
    /\ asked.features \subseteq DriverFeatures
    /\ asked.extensions \subseteq DriverExtensions
=============================================================================
