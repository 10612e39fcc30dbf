---------------------------- MODULE DeviceProofs ----------------------------
(***************************************************************************)
(* Proofs about what a device is to the wrapper, for any number of         *)
(* instances, devices, threads and handles, and any driver.                *)
(*                                                                         *)
(* DeviceEmulation: what is told can be enabled, the driver is used as its *)
(* devices were created, a query pool is known for what it is, and dense   *)
(* resources stay within the budget of their device.                       *)
(*                                                                         *)
(* HandleKeys: the layer finds the data of every device and queue,         *)
(* whatever first words the driver and the loader give them.               *)
(***************************************************************************)
EXTENDS DeviceEmulation, HandleKeys, FiniteSetTheorems, TLAPS

-----------------------------------------------------------------------------
(* Profiles.  A selection is unsafe only where there is a profile, and an  *)
(* instance whose physical device the application has is found by it.      *)

Sane(sel) == sel \in Selections /\ (sel.unsafe => sel.vkd3d)

ProfilesInv ==
    /\ ProfilesTypeOK
    /\ \A i \in Instances : profile[i] # None => Sane(profile[i])
    /\ \A i \in appPhysical : i \in enumerated /\ profile[i] # None
    /\ \A i \in Instances : told[i] # None =>
           /\ i \in appPhysical
           /\ told[i].features = DriverFeatures \union OverlayFeatures(profile[i])
                                                \union OverlayFeatureChain(profile[i])
           /\ told[i].extensions =
                  OverlayDeviceExtensions(profile[i], Filtered(DriverExtensions))

(* The selection of an instance whose physical device is known is its own. *)
LEMMA SelectionFound ==
    ASSUME ProfilesInv, NEW i \in appPhysical
    PROVE  SelectionFor(i) = profile[i] /\ Sane(profile[i]) /\ i \in Instances
BY DEF ProfilesInv, ProfilesTypeOK, SelectionFor

(* What an instance selects is sane, whatever its engine.                  *)
LEMMA SelectedSane ==
    ASSUME NEW engine \in Engines
    PROVE  Sane(SelectProfile(engine))
<1>1. UnsafeSpoof \in BOOLEAN /\ DetectProfile(engine) \in BOOLEAN
  BY ProfilesAssumption DEF DetectProfile
<1> QED BY <1>1 DEF Sane, SelectProfile, Selections

(* Creating an instance, enumerating and asking keep the profiles.         *)
LEMMA KeepProfiles ==
    ASSUME ProfilesInv, InstanceStep
    PROVE  ProfilesInv'
<1>1. ASSUME NEW i \in Instances, NEW engine \in Engines, RegisterInstance(i, engine)
      PROVE  ProfilesInv'
  <2>1. Sane(SelectProfile(engine)) /\ SelectProfile(engine) \in Selections
    BY SelectedSane DEF Sane
  <2> HIDE DEF SelectProfile
  <2>2. i \notin appPhysical
    BY <1>1 DEF ProfilesInv, RegisterInstance
  <2>3. profile' \in [Instances -> Selections \union {None}]
    BY <1>1, <2>1 DEF ProfilesInv, ProfilesTypeOK, RegisterInstance
  <2>4. \A j \in Instances : profile'[j] = IF j = i THEN SelectProfile(engine) ELSE profile[j]
    BY <1>1 DEF ProfilesInv, ProfilesTypeOK, RegisterInstance
  <2>5. UNCHANGED <<enumerated, appPhysical, told>>
    BY <1>1 DEF RegisterInstance
  <2>6. \A j \in Instances : told[j] # None => profile'[j] = profile[j]
    BY <2>2, <2>4 DEF ProfilesInv
  <2>7. \A j \in appPhysical : j \in Instances /\ j # i
    BY <2>2 DEF ProfilesInv, ProfilesTypeOK
  <2> QED BY <2>1, <2>3, <2>4, <2>5, <2>6, <2>7 DEF ProfilesInv, ProfilesTypeOK
<1>2. ASSUME NEW i \in Instances, EnumeratePhysicalDevices(i) PROVE ProfilesInv'
  BY <1>2 DEF ProfilesInv, ProfilesTypeOK, EnumeratePhysicalDevices
<1>3. ASSUME NEW i \in Instances, AskPhysicalDevice(i) PROVE ProfilesInv'
  <2> DEFINE answer == [features |-> GetPhysicalDeviceFeatures2(i),
                        extensions |-> EnumerateDeviceExtensionProperties(i),
                        binds |-> \/ "sparseBinding" \in DriverFeatures
                                  \/ OverlayQueueFamilies(SelectionFor(i))]
  <2>1. /\ i \in appPhysical /\ SelectionFor(i) = profile[i] /\ Sane(profile[i])
        /\ profile[i] \in Selections
    BY <1>3, SelectionFound DEF AskPhysicalDevice, Sane
  <2>2. answer.features = DriverFeatures \union OverlayFeatures(profile[i])
                                         \union OverlayFeatureChain(profile[i])
    BY <2>1 DEF GetPhysicalDeviceFeatures2
  <2>3. answer.extensions = OverlayDeviceExtensions(profile[i], Filtered(DriverExtensions))
    BY <2>1 DEF EnumerateDeviceExtensionProperties
  <2>4. answer.features \in SUBSET Features
    BY <2>2, ProfilesAssumption
       DEF OverlayFeatures, OverlayFeatureChain, Features, CoreFeatures, UnsafeCore, UnsafeChain
  <2>5. answer.extensions \in SUBSET Extensions
    BY <2>3, ProfilesAssumption DEF OverlayDeviceExtensions, Filtered, Extensions
  <2>6. answer.binds \in BOOLEAN
    BY <2>1 DEF OverlayQueueFamilies, Selections
  <2>7. answer \in Told
    BY <2>4, <2>5, <2>6 DEF Told
  <2>8. told' = [told EXCEPT ![i] = answer] /\ UNCHANGED <<profile, enumerated, appPhysical>>
    BY <1>3 DEF AskPhysicalDevice
  <2> HIDE DEF answer
  <2>9. told' \in [Instances -> Told \union {None}]
    BY <2>7, <2>8 DEF ProfilesInv, ProfilesTypeOK
  <2>10. \A j \in Instances : told'[j] = IF j = i THEN answer ELSE told[j]
    BY <2>8 DEF ProfilesInv, ProfilesTypeOK
  <2> QED BY <2>1, <2>2, <2>3, <2>8, <2>9, <2>10 DEF ProfilesInv, ProfilesTypeOK
<1> QED BY <1>1, <1>2, <1>3 DEF InstanceStep

-----------------------------------------------------------------------------
(* What the profile answers for instead of the driver.                     *)
Backed(sel) ==
    (IF sel.vkd3d THEN {"pipelineStatisticsQuery"} ELSE {})
    \union (IF sel.unsafe THEN UnsafeCore \union UnsafeChain ELSE {})

Served(sel, want, granted) == want \ Backed(sel) \subseteq granted

(* The request for a device asks for what was told, and only for what the  *)
(* driver has.                                                             *)
LEMMA RequestServed ==
    ASSUME ProfilesInv, LayerCanRun, NEW i \in Instances, told[i] # None,
           NEW want, NEW wellKnown \in BOOLEAN
    PROVE  LET sel == SelectionFor(i)
               asked == Prepare(sel, Enables(i, want), told[i].extensions, wellKnown)
           IN  /\ Sane(sel) /\ asked \in Requests /\ DriverAccepts(asked)
               /\ Enables(i, want) \in FeatureSets
               /\ Served(sel, Enables(i, want), asked.features)
<1> DEFINE sel == profile[i]
           wanted == Enables(i, want)
           asked == Prepare(sel, wanted, told[i].extensions, wellKnown)
<1>1. /\ SelectionFor(i) = sel /\ Sane(sel) /\ sel \in Selections
      /\ sel.vkd3d \in BOOLEAN /\ sel.unsafe \in BOOLEAN
  BY SelectionFound DEF ProfilesInv, Sane, Selections
<1>2. told[i].features = DriverFeatures \union OverlayFeatures(sel) \union OverlayFeatureChain(sel)
  BY DEF ProfilesInv
<1>3. told[i].extensions = OverlayDeviceExtensions(sel, Filtered(DriverExtensions))
  BY DEF ProfilesInv
<1> HIDE DEF sel
<1>4. wanted \subseteq told[i].features
  BY DEF Enables
<1>5. "KHR_divisor" \in told[i].extensions \/ "EXT_divisor" \in told[i].extensions
        => "KHR_divisor" \in DriverExtensions
  BY <1>3, ProfilesAssumption DEF OverlayDeviceExtensions, Filtered
<1>6. "divisor" \in wanted => "divisor" \in DriverFeatures
  <2>1. "divisor" \in wanted =>
            "KHR_divisor" \in told[i].extensions \/ "EXT_divisor" \in told[i].extensions
    BY DEF Enables
  <2> QED BY <2>1, <1>5, ProfilesAssumption
<1> HIDE DEF wanted
<1>7. wanted \in FeatureSets
  BY <1>2, <1>4, ProfilesAssumption
     DEF FeatureSets, OverlayFeatures, OverlayFeatureChain, Features, CoreFeatures, UnsafeCore,
            UnsafeChain
<1>8. asked.features \subseteq DriverFeatures /\ asked.features \subseteq wanted
  <2>1. CASE sel.vkd3d
    <3>1. asked.features = SanitizeChain(sel, SanitizeCoreFeatures(sel, wanted))
      BY <2>1 DEF Prepare
    <3> QED BY <1>1, <1>2, <1>4, <1>6, <2>1, <3>1
         DEF OverlayFeatures, OverlayFeatureChain, SanitizeChain, SanitizeCoreFeatures, UnsafeCore,
                UnsafeChain
  <2>2. CASE ~sel.vkd3d
    <3>1. asked.features = wanted
      BY <2>2 DEF Prepare
    <3> QED BY <1>2, <1>4, <2>2, <3>1 DEF OverlayFeatures, OverlayFeatureChain
  <2> QED BY <2>1, <2>2
<1>9. Served(sel, wanted, asked.features)
  BY <1>1 DEF Served, Backed, Prepare, SanitizeChain, SanitizeCoreFeatures, Sane
<1>10. asked.extensions \subseteq DriverExtensions
  <2>1. asked.extensions = PrepareExtensions(sel, Filtered(AddRequiredByLayer(told[i].extensions)))
    BY DEF Prepare
  <2>2. AddRequiredByLayer(told[i].extensions) \subseteq told[i].extensions \union DriverExtensions
    BY DEF AddRequiredByLayer, LayerCanRun
  <2>3. told[i].extensions \subseteq DriverExtensions \union {"EXT_divisor"}
    BY <1>3 DEF OverlayDeviceExtensions, Filtered
  <2>4. "EXT_divisor" \in told[i].extensions =>
            \/ sel.vkd3d /\ "KHR_divisor" \in DriverExtensions
            \/ "EXT_divisor" \in DriverExtensions
    BY <1>3, ProfilesAssumption DEF OverlayDeviceExtensions, Filtered
  <2>5. \A e \in asked.extensions : \/ e \in AddRequiredByLayer(told[i].extensions)
                                    \/ /\ e = "KHR_divisor"
                                       /\ "EXT_divisor" \in AddRequiredByLayer(told[i].extensions)
    BY <2>1 DEF PrepareExtensions, Filtered
  <2>6. sel.vkd3d => "EXT_divisor" \notin asked.extensions
    BY <2>1 DEF PrepareExtensions
  <2>7. "EXT_divisor" \in DriverExtensions => "KHR_divisor" \in DriverExtensions
    BY ProfilesAssumption
  <2> HIDE DEF asked
  <2> QED BY <2>2, <2>3, <2>4, <2>5, <2>6, <2>7
<1>11. asked \in Requests
  <2>1. asked.features \in FeatureSets
    BY <1>7, <1>8 DEF FeatureSets
  <2>2. asked.extensions \in SUBSET Extensions
    BY <1>10, ProfilesAssumption
  <2>3. asked.ok \in BOOLEAN
    BY DEF Prepare
  <2>4. asked = [ok |-> asked.ok, features |-> asked.features, extensions |-> asked.extensions]
    BY DEF Prepare
  <2> HIDE DEF asked
  <2> QED BY <2>1, <2>2, <2>3, <2>4 DEF Requests
<1>12. /\ DriverAccepts(asked) /\ wanted = Enables(i, want)
       /\ Prepare(SelectionFor(i), Enables(i, want), told[i].extensions, wellKnown) = asked
  BY <1>1, <1>8, <1>10 DEF DriverAccepts, wanted
<1> HIDE DEF asked
<1> QED BY <1>1, <1>7, <1>9, <1>11, <1>12

-----------------------------------------------------------------------------
(* Who is where.  A thread that makes or destroys a device has it alone;   *)
(* what any other call uses, the application has.                          *)

Alone == {"register_device", "unregister_device", "destroy_device"}

DevicesKept ==
    \A d \in Devices : appDevices[d] # None =>
        /\ driverDevices[d] # None
        /\ Sane(devices[d])
        /\ Served(devices[d], appDevices[d], driverDevices[d])

ChildrenKept ==
    /\ \A r \in Resources : appResources[r] # None => appDevices[appResources[r]] # None
    /\ \A p \in Pools : appPools[p] # None => appDevices[appPools[p]] # None
    /\ \A d \in appQueues : appDevices[d] # None /\ d \in queues

CallKept(t) ==
    LET c == call[t] IN
    /\ pc[t] \in {"idle", "create_device"} => c.device = None /\ c.uses = {}
    /\ pc[t] \notin {"idle", "create_device"} => c.device # None
    /\ pc[t] = "create_device" =>
           c.asked \in Requests /\ DriverAccepts(c.asked) /\ Sane(c.sel)
                          /\ Served(c.sel, c.want, c.asked.features)
    /\ pc[t] = "register_device" => Sane(c.sel) /\ Served(c.sel, c.want, driverDevices[c.device])
    /\ pc[t] \in Alone =>
           /\ c.uses = {} /\ driverDevices[c.device] # None /\ appDevices[c.device] = None
           /\ \A u \in Threads : u # t => call[u].device # c.device
    /\ pc[t] \notin Alone /\ c.device # None => appDevices[c.device] # None
    /\ c.uses # {} => c.uses \ Excused(c.device) \subseteq driverDevices[c.device]

CallsKept == \A t \in Threads : CallKept(t)

DevicesInv == DevicesKept /\ ChildrenKept /\ CallsKept

(* The type of a call, field by field.                                     *)
LEMMA CallTypes ==
    ASSUME EmulationTypeOK, NEW t \in Threads
    PROVE  /\ call[t] \in Calls
           /\ call[t].device \in Devices \union {None} /\ call[t].pool \in Pools \union {None}
           /\ call[t].resource \in Resources \union {None}
           /\ call[t].sel \in Selections /\ call[t].want \in FeatureSets
           /\ call[t].asked \in Requests \union {None}
           /\ call[t].size \in Nat /\ call[t].uses \in FeatureSets
BY DEF EmulationTypeOK, CallsTypeOK, Calls

(* A thread at rest has a call of the right type.                          *)
LEMMA NoCallTyped == NoCall \in Calls
BY EmulationAssumption DEF NoCall, Calls, Native, Selections, FeatureSets

(* The features that the calls of the wrapper use.                         *)
LEMMA FeaturesUsed ==
    /\ {{}, {"sparseBinding"}, {"pipelineStatisticsQuery"}} \subseteq FeatureSets
    /\ \A needs \in PipelineNeeds : needs \in FeatureSets /\ needs \ {"zeroDivisor"} \in FeatureSets
BY DEF FeatureSets, Features, CoreFeatures, UnsafeCore, UnsafeChain, PipelineNeeds

(* The calls that are made.                                                *)
LEMMA CallForms ==
    /\ \A d \in Devices : /\ [NoCall EXCEPT !.device = d] \in Calls
                          /\ \A p \in Pools : [NoCall EXCEPT !.device = d, !.pool = p] \in Calls
                          /\ \A u \in FeatureSets : [NoCall EXCEPT !.device = d, !.uses = u] \in Calls
                          /\ \A s \in BOOLEAN, u \in FeatureSets :
                                 [NoCall EXCEPT !.device = d, !.sparse = s, !.uses = u] \in Calls
                          /\ \A r \in Resources, n \in Nat :
                                 [NoCall EXCEPT !.device = d, !.resource = r, !.size = n] \in Calls
    /\ \A c \in Calls : /\ \A d \in Devices : [c EXCEPT !.device = d] \in Calls
                        /\ \A r \in Resources \union {None} : [c EXCEPT !.resource = r] \in Calls
                        /\ \A n \in Nat : [c EXCEPT !.size = n] \in Calls
                        /\ \A p \in Pools : [c EXCEPT !.pool = p] \in Calls
<1> USE DEF Calls
<1>1. ASSUME NEW d \in Devices
      PROVE  /\ [NoCall EXCEPT !.device = d] \in Calls
             /\ \A p \in Pools : [NoCall EXCEPT !.device = d, !.pool = p] \in Calls
             /\ \A u \in FeatureSets : [NoCall EXCEPT !.device = d, !.uses = u] \in Calls
  BY NoCallTyped
<1>2. ASSUME NEW d \in Devices, NEW s \in BOOLEAN, NEW u \in FeatureSets
      PROVE  [NoCall EXCEPT !.device = d, !.sparse = s, !.uses = u] \in Calls
  BY NoCallTyped
<1>3. ASSUME NEW d \in Devices, NEW r \in Resources, NEW n \in Nat
      PROVE  [NoCall EXCEPT !.device = d, !.resource = r, !.size = n] \in Calls
  BY NoCallTyped
<1>4. ASSUME NEW c \in Calls
      PROVE  /\ \A d \in Devices : [c EXCEPT !.device = d] \in Calls
             /\ \A r \in Resources \union {None} : [c EXCEPT !.resource = r] \in Calls
             /\ \A n \in Nat : [c EXCEPT !.size = n] \in Calls
             /\ \A p \in Pools : [c EXCEPT !.pool = p] \in Calls
  OBVIOUS
<1> HIDE DEF Calls
<1> QED
  BY <1>1, <1>2, <1>3, <1>4

(* Every step keeps the types.                                             *)
LEMMA TypeStep ==
    ASSUME EmulationTypeOK, ProfilesInv, DevicesInv, EmulationNext
    PROVE  EmulationTypeOK'
<1> USE DEF profileVars, registry, driver, app
<1>0. /\ ProfilesTypeOK /\ RegistryTypeOK /\ DriverTypeOK /\ AppTypeOK /\ CallsTypeOK
      /\ \A t \in Threads : call[t] \in Calls
      /\ \A t \in Threads : pc[t] \notin {"idle", "create_device"} => call[t].device \in Devices
  BY CallTypes DEF EmulationTypeOK, DevicesInv, CallsKept, CallKept
<1>typed. /\ \A r \in Resources : appResources[r] # None => appResources[r] \in Devices
          /\ \A p \in Pools : appPools[p] # None => appPools[p] \in Devices
          /\ \A d \in Devices, r \in Resources : dense[d][r] \in Nat /\ dense[d] \in [Resources -> Nat]
          /\ \A d \in Devices : denseUsed[d] \in Nat
  BY <1>0 DEF AppTypeOK, RegistryTypeOK
<1>1. CASE InstanceStep
  <2>1. ASSUME NEW i \in Instances, NEW engine \in Engines, RegisterInstance(i, engine),
               UNCHANGED <<registry, driver, app, pc, call>>
        PROVE  EmulationTypeOK'
    <3>1. ProfilesTypeOK'
      BY <1>1, KeepProfiles DEF ProfilesInv
    <3> QED BY <1>0, <2>1, <3>1
       DEF EmulationTypeOK, RegistryTypeOK, DriverTypeOK, AppTypeOK, CallsTypeOK
  <2>2. ASSUME NEW i \in Instances, EnumeratePhysicalDevices(i),
               UNCHANGED <<registry, driver, app, pc, call>>
        PROVE  EmulationTypeOK'
    <3>1. ProfilesTypeOK'
      BY <1>1, KeepProfiles DEF ProfilesInv
    <3> QED BY <1>0, <2>2, <3>1
       DEF EmulationTypeOK, RegistryTypeOK, DriverTypeOK, AppTypeOK, CallsTypeOK
  <2>3. ASSUME NEW i \in Instances, AskPhysicalDevice(i), UNCHANGED <<registry, driver, app, pc, call>>
        PROVE  EmulationTypeOK'
    <3>1. ProfilesTypeOK'
      BY <1>1, KeepProfiles DEF ProfilesInv
    <3> QED BY <1>0, <2>3, <3>1
       DEF EmulationTypeOK, RegistryTypeOK, DriverTypeOK, AppTypeOK, CallsTypeOK
  <2> QED BY <1>1, <2>1, <2>2, <2>3 DEF InstanceStep
<1>2. ASSUME NEW t \in Threads, DeviceStep(t) PROVE EmulationTypeOK'
  <2>1. ASSUME NEW i \in Instances, NEW want \in Wanted, NEW wellKnown \in BOOLEAN, told[i] # None,
               CreateDevice(t, i, Enables(i, want), told[i].extensions, wellKnown)
        PROVE  EmulationTypeOK'
    <3> DEFINE sel == SelectionFor(i)
               wanted == Enables(i, want)
               asked == Prepare(sel, wanted, told[i].extensions, wellKnown)
    <3>1. sel \in Selections /\ asked \in Requests /\ wanted \in FeatureSets
      BY <2>1, RequestServed DEF CreateDevice, Sane
    <3>2. call' = [call EXCEPT ![t] = [NoCall EXCEPT !.sel = sel, !.want = wanted, !.asked = asked]]
      BY <2>1 DEF CreateDevice, Call
    <3> HIDE DEF sel, wanted, asked
    <3>3. [NoCall EXCEPT !.sel = sel, !.want = wanted, !.asked = asked] \in Calls
      BY <3>1, NoCallTyped DEF Calls
    <3>4. CallsTypeOK'
      BY <2>1, <1>0, <3>2, <3>3 DEF CreateDevice, Call, Goto, CallsTypeOK
    <3>5. ProfilesTypeOK' /\ RegistryTypeOK' /\ DriverTypeOK' /\ AppTypeOK'
      BY <2>1, <1>0 DEF CreateDevice, ProfilesTypeOK, RegistryTypeOK, DriverTypeOK, AppTypeOK
    <3> QED BY <3>4, <3>5 DEF EmulationTypeOK
  <2>2. CASE DriverRefusesDevice(t)
    <3>1. CallsTypeOK'
      BY <2>2, <1>0, <1>typed, CallForms, NoCallTyped
      DEF DriverRefusesDevice, Finish, Goto, CallsTypeOK
    <3>2. ProfilesTypeOK' /\ RegistryTypeOK' /\ DriverTypeOK' /\ AppTypeOK'
      BY <2>2, <1>0
      DEF DriverRefusesDevice, ProfilesTypeOK, RegistryTypeOK, DriverTypeOK, AppTypeOK
    <3> QED BY <3>1, <3>2 DEF EmulationTypeOK
  <2>3. CASE RegisterDevice(t)
    <3>1. CallsTypeOK'
      BY <2>3, <1>0, <1>typed, CallForms, NoCallTyped
      DEF RegisterDevice, Finish, Goto, CallsTypeOK
    <3>2. ProfilesTypeOK' /\ RegistryTypeOK' /\ DriverTypeOK' /\ AppTypeOK'
      BY <2>3, <1>0, <1>typed, CallTypes
      DEF RegisterDevice, ProfilesTypeOK, RegistryTypeOK, DriverTypeOK, AppTypeOK
    <3> QED BY <3>1, <3>2 DEF EmulationTypeOK
  <2>4. CASE UnregisterDevice(t)
    <3>1. CallsTypeOK'
      BY <2>4, <1>0, <1>typed, CallForms, NoCallTyped
      DEF UnregisterDevice, ForgetDevice, Goto, CallsTypeOK
    <3>2. ProfilesTypeOK' /\ RegistryTypeOK' /\ DriverTypeOK' /\ AppTypeOK'
      BY <2>4, <1>0, <1>typed, CallTypes
      DEF UnregisterDevice, ForgetDevice, ProfilesTypeOK, RegistryTypeOK, DriverTypeOK,
          AppTypeOK
    <3> QED BY <3>1, <3>2 DEF EmulationTypeOK
  <2>5. CASE DriverDestroysDevice(t)
    <3>1. CallsTypeOK'
      BY <2>5, <1>0, <1>typed, CallForms, NoCallTyped
      DEF DriverDestroysDevice, Finish, Goto, CallsTypeOK
    <3>2. ProfilesTypeOK' /\ RegistryTypeOK' /\ DriverTypeOK' /\ AppTypeOK'
      BY <2>5, <1>0
      DEF DriverDestroysDevice, ProfilesTypeOK, RegistryTypeOK, DriverTypeOK, AppTypeOK
    <3> QED BY <3>1, <3>2 DEF EmulationTypeOK
  <2>6. ASSUME NEW d \in Devices, DriverCreatesDevice(t, d) PROVE EmulationTypeOK'
    <3>1. CallsTypeOK'
      BY <2>6, <1>0, CallForms DEF DriverCreatesDevice, Goto, CallsTypeOK
    <3>2. call[t].asked \in Requests
      BY <2>6 DEF DriverCreatesDevice, DevicesInv, CallsKept, CallKept
    <3>3. call[t].asked.features \in FeatureSets
      BY <3>2 DEF Requests
    <3>4. ProfilesTypeOK' /\ RegistryTypeOK' /\ DriverTypeOK' /\ AppTypeOK'
      BY <2>6, <1>0, <3>2, <3>3
      DEF DriverCreatesDevice, ProfilesTypeOK, RegistryTypeOK, DriverTypeOK, AppTypeOK
    <3> QED BY <3>1, <3>4 DEF EmulationTypeOK
  <2>7. ASSUME NEW d \in Devices, DestroyDevice(t, d) PROVE EmulationTypeOK'
    <3>1. CallsTypeOK'
      BY <2>7, <1>0, <1>typed, CallForms, NoCallTyped
      DEF DestroyDevice, Call, Goto, Using, CallsTypeOK
    <3>2. ProfilesTypeOK' /\ RegistryTypeOK' /\ DriverTypeOK' /\ AppTypeOK'
      BY <2>7, <1>0
      DEF DestroyDevice, Using, ProfilesTypeOK, RegistryTypeOK, DriverTypeOK, AppTypeOK
    <3> QED BY <3>1, <3>2 DEF EmulationTypeOK
  <2>8. ASSUME NEW d \in Devices, GetDeviceQueue(t, d) PROVE EmulationTypeOK'
    <3>1. CallsTypeOK'
      BY <2>8, <1>0, <1>typed, CallForms, NoCallTyped
      DEF GetDeviceQueue, CallsTypeOK
    <3>2. ProfilesTypeOK' /\ RegistryTypeOK' /\ DriverTypeOK' /\ AppTypeOK'
      BY <2>8, <1>0
      DEF GetDeviceQueue, ProfilesTypeOK, RegistryTypeOK, DriverTypeOK, AppTypeOK
    <3> QED BY <3>1, <3>2 DEF EmulationTypeOK
  <2> QED BY <1>2, <2>1, <2>2, <2>3, <2>4, <2>5, <2>6, <2>7, <2>8 DEF DeviceStep
<1>3. ASSUME NEW t \in Threads, ResourceStep(t) PROVE EmulationTypeOK'
  <2>1. ASSUME NEW d \in Devices, NEW sparse \in BOOLEAN, CreateBuffer(t, d, sparse)
        PROVE  EmulationTypeOK'
    <3>1. CallsTypeOK'
      BY <2>1, <1>0, <1>typed, CallForms, NoCallTyped, FeaturesUsed
      DEF CreateBuffer, CreateResource, Call, Goto, CallsTypeOK
    <3>2. ProfilesTypeOK' /\ RegistryTypeOK' /\ DriverTypeOK' /\ AppTypeOK'
      BY <2>1, <1>0
      DEF CreateBuffer, CreateResource, ProfilesTypeOK, RegistryTypeOK, DriverTypeOK,
          AppTypeOK
    <3> QED BY <3>1, <3>2 DEF EmulationTypeOK
  <2>2. ASSUME NEW d \in Devices, NEW sparse \in BOOLEAN, NEW plain2d \in BOOLEAN,
               CreateImage(t, d, sparse, plain2d)
        PROVE  EmulationTypeOK'
    <3>1. CallsTypeOK'
      BY <2>2, <1>0, <1>typed, CallForms, NoCallTyped, FeaturesUsed
      DEF CreateImage, CreateResource, Call, Goto, CallsTypeOK
    <3>2. ProfilesTypeOK' /\ RegistryTypeOK' /\ DriverTypeOK' /\ AppTypeOK'
      BY <2>2, <1>0
      DEF CreateImage, CreateResource, ProfilesTypeOK, RegistryTypeOK, DriverTypeOK, AppTypeOK
    <3> QED BY <3>1, <3>2 DEF EmulationTypeOK
  <2>3. ASSUME NEW r \in Resources, DriverCreatesResource(t, r) PROVE EmulationTypeOK'
    <3>1. [call[t] EXCEPT !.resource = r] \in Calls /\ NoCall \in Calls
      BY <1>0, <2>3, CallForms, NoCallTyped DEF DriverCreatesResource
    <3>2. \/ call' = [call EXCEPT ![t] = [call[t] EXCEPT !.resource = r]]
          \/ call' = [call EXCEPT ![t] = NoCall]
      BY <2>3 DEF DriverCreatesResource, Finish, Goto
    <3>3. CallsTypeOK'
      BY <2>3, <1>0, <3>1, <3>2 DEF DriverCreatesResource, Finish, Goto, CallsTypeOK
    <3>4. ProfilesTypeOK' /\ RegistryTypeOK' /\ DriverTypeOK' /\ AppTypeOK'
      BY <2>3, <1>0, CallTypes
      DEF DriverCreatesResource, ProfilesTypeOK, RegistryTypeOK, DriverTypeOK, AppTypeOK
    <3> QED BY <3>3, <3>4 DEF EmulationTypeOK
  <2>4. ASSUME NEW r \in Buffers, DestroyBuffer(t, r) PROVE EmulationTypeOK'
    <3>1. CallsTypeOK'
      BY <2>4, <1>0, <1>typed, CallForms, NoCallTyped
      DEF DestroyBuffer, DestroyResource, Call, Goto, CallsTypeOK, Resources
    <3>2. ProfilesTypeOK' /\ RegistryTypeOK' /\ DriverTypeOK' /\ AppTypeOK'
      BY <2>4, <1>0, <1>typed, CallTypes
      DEF DestroyBuffer, DestroyResource, ProfilesTypeOK, RegistryTypeOK, DriverTypeOK,
          AppTypeOK
    <3> QED BY <3>1, <3>2 DEF EmulationTypeOK
  <2>5. ASSUME NEW r \in Images, DestroyImage(t, r) PROVE EmulationTypeOK'
    <3>1. CallsTypeOK'
      BY <2>5, <1>0, <1>typed, CallForms, NoCallTyped
      DEF DestroyImage, DestroyResource, Call, Goto, CallsTypeOK, Resources
    <3>2. ProfilesTypeOK' /\ RegistryTypeOK' /\ DriverTypeOK' /\ AppTypeOK'
      BY <2>5, <1>0, <1>typed, CallTypes
      DEF DestroyImage, DestroyResource, ProfilesTypeOK, RegistryTypeOK, DriverTypeOK,
          AppTypeOK
    <3> QED BY <3>1, <3>2 DEF EmulationTypeOK
  <2>6. ASSUME NEW r \in Images, GetImageSparseMemoryRequirements(t, r) PROVE EmulationTypeOK'
    <3>1. CallsTypeOK'
      BY <2>6, <1>0, <1>typed, CallForms, NoCallTyped
      DEF GetImageSparseMemoryRequirements, Call, Goto, CallsTypeOK, Resources
    <3>2. ProfilesTypeOK' /\ RegistryTypeOK' /\ DriverTypeOK' /\ AppTypeOK'
      BY <2>6, <1>0
      DEF GetImageSparseMemoryRequirements, ProfilesTypeOK, RegistryTypeOK, DriverTypeOK,
          AppTypeOK
    <3> QED BY <3>1, <3>2 DEF EmulationTypeOK
  <2>7. ASSUME NEW size \in Sizes, Reserve(t, size) PROVE EmulationTypeOK'
    <3> DEFINE held == call'[t].size
               made == [call[t] EXCEPT !.size = held]
    <3>1. call[t].device \in Devices /\ size \in Nat /\ size + denseUsed[call[t].device] \in Nat
      BY <2>7, <1>0, <1>typed, EmulationAssumption DEF Reserve
    <3>2. /\ [call[t] EXCEPT !.size = size] \in Calls /\ [call[t] EXCEPT !.size = 0] \in Calls
          /\ \/ call' = [call EXCEPT ![t] = [call[t] EXCEPT !.size = size]]
             \/ call' = [call EXCEPT ![t] = [call[t] EXCEPT !.size = 0]]
      BY <2>7, <1>0, <3>1, CallForms DEF Reserve
    <3>3. CallsTypeOK'
      BY <2>7, <1>0, <3>2 DEF Reserve, Goto, CallsTypeOK
    <3>4. ProfilesTypeOK' /\ RegistryTypeOK' /\ DriverTypeOK' /\ AppTypeOK'
      BY <2>7, <1>0, <1>typed, <3>1
      DEF Reserve, ProfilesTypeOK, RegistryTypeOK, DriverTypeOK, AppTypeOK
    <3> QED BY <3>3, <3>4 DEF EmulationTypeOK
  <2>8. CASE Allocate(t)
    <3>1. CallsTypeOK'
      BY <2>8, <1>0, <1>typed, CallForms, NoCallTyped
      DEF Allocate, Goto, CallsTypeOK
    <3>2. ProfilesTypeOK' /\ RegistryTypeOK' /\ DriverTypeOK' /\ AppTypeOK'
      BY <2>8, <1>0, <1>typed, CallTypes
      DEF Allocate, ProfilesTypeOK, RegistryTypeOK, DriverTypeOK, AppTypeOK
    <3> QED BY <3>1, <3>2 DEF EmulationTypeOK
  <2>9. CASE Bind(t)
    <3>1. CallsTypeOK'
      BY <2>9, <1>0, <1>typed, CallForms, NoCallTyped
      DEF Bind, Goto, CallsTypeOK
    <3>2. ProfilesTypeOK' /\ RegistryTypeOK' /\ DriverTypeOK' /\ AppTypeOK'
      BY <2>9, <1>0, <1>typed, CallTypes
      DEF Bind, ProfilesTypeOK, RegistryTypeOK, DriverTypeOK, AppTypeOK
    <3> QED BY <3>1, <3>2 DEF EmulationTypeOK
  <2>10. CASE ReleaseBudget(t)
    <3>1. [call[t] EXCEPT !.size = 0] \in Calls /\ NoCall \in Calls
      BY <1>0, <2>10, CallForms, NoCallTyped DEF ReleaseBudget
    <3>2. \/ call' = [call EXCEPT ![t] = [call[t] EXCEPT !.size = 0]]
          \/ call' = [call EXCEPT ![t] = NoCall]
      BY <2>10 DEF ReleaseBudget, Finish, Goto
    <3>3. CallsTypeOK'
      BY <2>10, <1>0, <3>1, <3>2 DEF ReleaseBudget, Finish, Goto, CallsTypeOK
    <3>4. ProfilesTypeOK' /\ DriverTypeOK' /\ AppTypeOK'
      BY <2>10, <1>0 DEF ReleaseBudget, ProfilesTypeOK, DriverTypeOK, AppTypeOK
    <3>5. call[t].device \in Devices /\ Released(call[t].device, call[t].size) \in Nat
      BY <2>10, <1>0, <1>typed, CallTypes DEF ReleaseBudget, Released
    <3>6. denseUsed' \in [Devices -> Nat]
      BY <2>10, <1>0, <3>5 DEF ReleaseBudget, RegistryTypeOK
    <3>7. RegistryTypeOK'
      BY <2>10, <1>0, <3>6 DEF ReleaseBudget, RegistryTypeOK
    <3> QED BY <3>3, <3>4, <3>7 DEF EmulationTypeOK
  <2>11. CASE Undo(t)
    <3>1. CallsTypeOK'
      BY <2>11, <1>0, <1>typed, CallForms, NoCallTyped
      DEF Undo, Finish, Goto, CallsTypeOK
    <3>2. ProfilesTypeOK' /\ RegistryTypeOK' /\ DriverTypeOK' /\ AppTypeOK'
      BY <2>11, <1>0
      DEF Undo, ProfilesTypeOK, RegistryTypeOK, DriverTypeOK, AppTypeOK
    <3> QED BY <3>1, <3>2 DEF EmulationTypeOK
  <2>12. CASE Record(t)
    <3>1. CallsTypeOK'
      BY <2>12, <1>0, <1>typed, CallForms, NoCallTyped
      DEF Record, Finish, Goto, CallsTypeOK
    <3>2. ProfilesTypeOK' /\ RegistryTypeOK' /\ DriverTypeOK' /\ AppTypeOK'
      BY <2>12, <1>0, <1>typed, CallTypes
      DEF Record, ProfilesTypeOK, RegistryTypeOK, DriverTypeOK, AppTypeOK
    <3> QED BY <3>1, <3>2 DEF EmulationTypeOK
  <2>13. CASE DriverDestroysResource(t)
    <3>1. [call[t] EXCEPT !.resource = None] \in Calls /\ NoCall \in Calls
      BY <1>0, <2>13, CallForms, NoCallTyped DEF DriverDestroysResource
    <3>2. \/ call' = [call EXCEPT ![t] = [call[t] EXCEPT !.resource = None]]
          \/ call' = [call EXCEPT ![t] = NoCall]
      BY <2>13 DEF DriverDestroysResource, Finish, Goto
    <3>3. CallsTypeOK'
      BY <2>13, <1>0, <3>1, <3>2 DEF DriverDestroysResource, Finish, Goto, CallsTypeOK
    <3>4. ProfilesTypeOK' /\ RegistryTypeOK' /\ DriverTypeOK' /\ AppTypeOK'
      BY <2>13, <1>0, CallTypes
      DEF DriverDestroysResource, ProfilesTypeOK, RegistryTypeOK, DriverTypeOK, AppTypeOK
    <3> QED BY <3>3, <3>4 DEF EmulationTypeOK
  <2>14. CASE FreeMemory(t)
    <3>1. CallsTypeOK'
      BY <2>14, <1>0 DEF FreeMemory, Goto, CallsTypeOK
    <3>2. DriverTypeOK'
      BY <2>14, <1>0, CallTypes DEF FreeMemory, DriverTypeOK
    <3>3. ProfilesTypeOK' /\ RegistryTypeOK' /\ AppTypeOK'
      BY <2>14, <1>0 DEF FreeMemory, ProfilesTypeOK, RegistryTypeOK, AppTypeOK
    <3> QED BY <3>1, <3>2, <3>3 DEF EmulationTypeOK
  <2> QED BY <1>3, <2>1, <2>2, <2>3, <2>4, <2>5, <2>6, <2>7, <2>8, <2>9, <2>10, <2>11, <2>12,
             <2>13, <2>14 DEF ResourceStep
<1>4. ASSUME NEW t \in Threads, PoolStep(t) PROVE EmulationTypeOK'
  <2>1. ASSUME NEW d \in Devices, NEW p \in Pools, NewFakePool(t, d, p) PROVE EmulationTypeOK'
    <3>1. CallsTypeOK'
      BY <2>1, <1>0, <1>typed, CallForms, NoCallTyped
      DEF NewFakePool, Unused, Call, Goto, CallsTypeOK
    <3>2. ProfilesTypeOK' /\ RegistryTypeOK' /\ DriverTypeOK' /\ AppTypeOK'
      BY <2>1, <1>0
      DEF NewFakePool, Unused, ProfilesTypeOK, RegistryTypeOK, DriverTypeOK, AppTypeOK
    <3> QED BY <3>1, <3>2 DEF EmulationTypeOK
  <2>2. ASSUME NEW d \in Devices, NEW statistics \in BOOLEAN, CreatePool(t, d, statistics)
        PROVE  EmulationTypeOK'
    <3>1. CallsTypeOK'
      BY <2>2, <1>0, <1>typed, CallForms, NoCallTyped, FeaturesUsed
      DEF CreatePool, Call, Goto, CallsTypeOK
    <3>2. ProfilesTypeOK' /\ RegistryTypeOK' /\ DriverTypeOK' /\ AppTypeOK'
      BY <2>2, <1>0
      DEF CreatePool, ProfilesTypeOK, RegistryTypeOK, DriverTypeOK, AppTypeOK
    <3> QED BY <3>1, <3>2 DEF EmulationTypeOK
  <2>3. ASSUME NEW p \in Pools, DriverCreatesPool(t, p) PROVE EmulationTypeOK'
    <3>1. [call[t] EXCEPT !.pool = p] \in Calls /\ NoCall \in Calls
      BY <1>0, <2>3, CallForms, NoCallTyped DEF DriverCreatesPool
    <3>2. \/ call' = [call EXCEPT ![t] = [call[t] EXCEPT !.pool = p]]
          \/ call' = [call EXCEPT ![t] = NoCall]
      BY <2>3 DEF DriverCreatesPool, GivePool, Finish, Goto
    <3>3. CallsTypeOK'
      BY <2>3, <1>0, <3>1, <3>2 DEF DriverCreatesPool, GivePool, Finish, Goto, CallsTypeOK
    <3>4. ProfilesTypeOK' /\ RegistryTypeOK' /\ DriverTypeOK' /\ AppTypeOK'
      BY <2>3, <1>0, CallTypes
      DEF DriverCreatesPool, GivePool, ProfilesTypeOK, RegistryTypeOK, DriverTypeOK, AppTypeOK
    <3> QED BY <3>3, <3>4 DEF EmulationTypeOK
  <2>4. ASSUME NEW p \in Pools, DestroyPool(t, p) PROVE EmulationTypeOK'
    <3>1. CallsTypeOK'
      BY <2>4, <1>0, <1>typed, CallForms, NoCallTyped
      DEF DestroyPool, PoolUsers, Call, Goto, CallsTypeOK
    <3>2. ProfilesTypeOK' /\ RegistryTypeOK' /\ DriverTypeOK' /\ AppTypeOK'
      BY <2>4, <1>0
      DEF DestroyPool, PoolUsers, ProfilesTypeOK, RegistryTypeOK, DriverTypeOK, AppTypeOK
    <3> QED BY <3>1, <3>2 DEF EmulationTypeOK
  <2>5. ASSUME NEW p \in Pools, NEW indexed \in BOOLEAN, PoolCommand(t, p, indexed) PROVE EmulationTypeOK'
    <3>1. CallsTypeOK'
      BY <2>5, <1>0, <1>typed, CallForms, NoCallTyped
      DEF PoolCommand, Call, Goto, CallsTypeOK
    <3>2. ProfilesTypeOK' /\ RegistryTypeOK' /\ DriverTypeOK' /\ AppTypeOK'
      BY <2>5, <1>0
      DEF PoolCommand, ProfilesTypeOK, RegistryTypeOK, DriverTypeOK, AppTypeOK
    <3> QED BY <3>1, <3>2 DEF EmulationTypeOK
  <2>6. ASSUME NEW p \in Pools, GetQueryPoolResults(t, p) PROVE EmulationTypeOK'
    <3>1. CallsTypeOK'
      BY <2>6, <1>0, <1>typed, CallForms, NoCallTyped
      DEF GetQueryPoolResults, Call, Goto, CallsTypeOK
    <3>2. ProfilesTypeOK' /\ RegistryTypeOK' /\ DriverTypeOK' /\ AppTypeOK'
      BY <2>6, <1>0
      DEF GetQueryPoolResults, ProfilesTypeOK, RegistryTypeOK, DriverTypeOK, AppTypeOK
    <3> QED BY <3>1, <3>2 DEF EmulationTypeOK
  <2>7. CASE EmplaceFakePool(t)
    <3>1. CallsTypeOK'
      BY <2>7, <1>0, <1>typed, CallForms, NoCallTyped
      DEF EmplaceFakePool, Finish, Goto, CallsTypeOK
    <3>2. ProfilesTypeOK' /\ RegistryTypeOK' /\ DriverTypeOK' /\ AppTypeOK'
      BY <2>7, <1>0
      DEF EmplaceFakePool, ProfilesTypeOK, RegistryTypeOK, DriverTypeOK, AppTypeOK
    <3> QED BY <3>1, <3>2 DEF EmulationTypeOK
  <2>8. CASE RecordPool(t)
    <3>1. CallsTypeOK'
      BY <2>8, <1>0, <1>typed, CallForms, NoCallTyped
      DEF RecordPool, GivePool, Finish, Goto, CallsTypeOK
    <3>2. ProfilesTypeOK' /\ RegistryTypeOK' /\ DriverTypeOK' /\ AppTypeOK'
      BY <2>8, <1>0
      DEF RecordPool, GivePool, ProfilesTypeOK, RegistryTypeOK, DriverTypeOK, AppTypeOK
    <3> QED BY <3>1, <3>2 DEF EmulationTypeOK
  <2>9. CASE ForgetPool(t)
    <3>1. CallsTypeOK'
      BY <2>9, <1>0, <1>typed, CallForms, NoCallTyped
      DEF ForgetPool, Finish, Goto, CallsTypeOK
    <3>2. ProfilesTypeOK' /\ RegistryTypeOK' /\ DriverTypeOK' /\ AppTypeOK'
      BY <2>9, <1>0
      DEF ForgetPool, ProfilesTypeOK, RegistryTypeOK, DriverTypeOK, AppTypeOK
    <3> QED BY <3>1, <3>2 DEF EmulationTypeOK
  <2>10. CASE DriverDestroysPool(t)
    <3>1. CallsTypeOK'
      BY <2>10, <1>0, <1>typed, CallForms, NoCallTyped
      DEF DriverDestroysPool, Finish, Goto, CallsTypeOK
    <3>2. ProfilesTypeOK' /\ RegistryTypeOK' /\ DriverTypeOK' /\ AppTypeOK'
      BY <2>10, <1>0
      DEF DriverDestroysPool, ProfilesTypeOK, RegistryTypeOK, DriverTypeOK, AppTypeOK
    <3> QED BY <3>1, <3>2 DEF EmulationTypeOK
  <2>11. CASE FindFakePool(t)
    <3>1. CallsTypeOK'
      BY <2>11, <1>0, <1>typed, CallForms, NoCallTyped
      DEF FindFakePool, Finish, Goto, CallsTypeOK
    <3>2. ProfilesTypeOK' /\ RegistryTypeOK' /\ DriverTypeOK' /\ AppTypeOK'
      BY <2>11, <1>0
      DEF FindFakePool, ProfilesTypeOK, RegistryTypeOK, DriverTypeOK, AppTypeOK
    <3> QED BY <3>1, <3>2 DEF EmulationTypeOK
  <2>12. CASE FindRealPool(t)
    <3>1. CallsTypeOK'
      BY <2>12, <1>0, <1>typed, CallForms, NoCallTyped
      DEF FindRealPool, Goto, CallsTypeOK
    <3>2. ProfilesTypeOK' /\ RegistryTypeOK' /\ DriverTypeOK' /\ AppTypeOK'
      BY <2>12, <1>0
      DEF FindRealPool, ProfilesTypeOK, RegistryTypeOK, DriverTypeOK, AppTypeOK
    <3> QED BY <3>1, <3>2 DEF EmulationTypeOK
  <2>13. CASE FindState(t)
    <3>1. CallsTypeOK'
      BY <2>13, <1>0, <1>typed, CallForms, NoCallTyped
      DEF FindState, Goto, CallsTypeOK
    <3>2. ProfilesTypeOK' /\ RegistryTypeOK' /\ DriverTypeOK' /\ AppTypeOK'
      BY <2>13, <1>0
      DEF FindState, ProfilesTypeOK, RegistryTypeOK, DriverTypeOK, AppTypeOK
    <3> QED BY <3>1, <3>2 DEF EmulationTypeOK
  <2>14. CASE FindResults(t)
    <3>1. CallsTypeOK'
      BY <2>14, <1>0, <1>typed, CallForms, NoCallTyped
      DEF FindResults, Finish, Goto, CallsTypeOK
    <3>2. ProfilesTypeOK' /\ RegistryTypeOK' /\ DriverTypeOK' /\ AppTypeOK'
      BY <2>14, <1>0
      DEF FindResults, ProfilesTypeOK, RegistryTypeOK, DriverTypeOK, AppTypeOK
    <3> QED BY <3>1, <3>2 DEF EmulationTypeOK
  <2> QED BY <1>4, <2>1, <2>2, <2>3, <2>4, <2>5, <2>6, <2>7, <2>8, <2>9, <2>10, <2>11, <2>12,
             <2>13, <2>14 DEF PoolStep
<1>5. ASSUME NEW t \in Threads, OtherStep(t) PROVE EmulationTypeOK'
  <2>1. ASSUME NEW d \in Devices, QueueBindSparse(t, d) PROVE EmulationTypeOK'
    <3>0. PICK c \in Calls, l \in {"at_driver", "dropped"} :
              pc' = [pc EXCEPT ![t] = l] /\ call' = [call EXCEPT ![t] = c]
      BY <2>1, CallForms, FeaturesUsed DEF QueueBindSparse, Call, Goto
    <3>1. CallsTypeOK'
      BY <3>0, <1>0 DEF CallsTypeOK
    <3>2. ProfilesTypeOK' /\ RegistryTypeOK' /\ DriverTypeOK' /\ AppTypeOK'
      BY <2>1, <1>0
      DEF QueueBindSparse, ProfilesTypeOK, RegistryTypeOK, DriverTypeOK, AppTypeOK
    <3> QED BY <3>1, <3>2 DEF EmulationTypeOK
  <2>2. ASSUME NEW d \in Devices, NEW needs \in PipelineNeeds, CreateGraphicsPipelines(t, d, needs)
        PROVE  EmulationTypeOK'
    <3>1. CallsTypeOK'
      BY <2>2, <1>0, <1>typed, CallForms, NoCallTyped, FeaturesUsed
      DEF CreateGraphicsPipelines, Call, Goto, CallsTypeOK
    <3>2. ProfilesTypeOK' /\ RegistryTypeOK' /\ DriverTypeOK' /\ AppTypeOK'
      BY <2>2, <1>0
      DEF CreateGraphicsPipelines, ProfilesTypeOK, RegistryTypeOK, DriverTypeOK, AppTypeOK
    <3> QED BY <3>1, <3>2 DEF EmulationTypeOK
  <2>3. ASSUME NEW d \in Devices, GetDeviceMemoryRequirements(t, d) PROVE EmulationTypeOK'
    <3>1. CallsTypeOK'
      BY <2>3, <1>0, <1>typed, CallForms, NoCallTyped, FeaturesUsed
      DEF GetDeviceMemoryRequirements, Call, Goto, CallsTypeOK
    <3>2. ProfilesTypeOK' /\ RegistryTypeOK' /\ DriverTypeOK' /\ AppTypeOK'
      BY <2>3, <1>0
      DEF GetDeviceMemoryRequirements, ProfilesTypeOK, RegistryTypeOK, DriverTypeOK, AppTypeOK
    <3> QED BY <3>1, <3>2 DEF EmulationTypeOK
  <2>4. CASE DriverReturns(t)
    <3>1. CallsTypeOK'
      BY <2>4, <1>0, <1>typed, CallForms, NoCallTyped
      DEF DriverReturns, Finish, Goto, CallsTypeOK
    <3>2. ProfilesTypeOK' /\ RegistryTypeOK' /\ DriverTypeOK' /\ AppTypeOK'
      BY <2>4, <1>0
      DEF DriverReturns, ProfilesTypeOK, RegistryTypeOK, DriverTypeOK, AppTypeOK
    <3> QED BY <3>1, <3>2 DEF EmulationTypeOK
  <2> QED BY <1>5, <2>1, <2>2, <2>3, <2>4 DEF OtherStep
<1> QED BY <1>1, <1>2, <1>3, <1>4, <1>5 DEF EmulationNext

-----------------------------------------------------------------------------
(* Devices and calls.  What the application enabled and the profile does   *)
(* not answer for, the driver has.                                         *)

(* A feature the application enabled and no hook answers for, the driver   *)
(* was asked for.                                                          *)
LEMMA EnabledIsThere ==
    ASSUME EmulationTypeOK, DevicesInv, NEW d \in Devices, appDevices[d] # None
    PROVE  /\ devices[d] # None /\ driverDevices[d] # None
           /\ "sparseBinding" \in appDevices[d] /\ ~SparseHooks(d) => "sparseBinding" \in driverDevices[d]
           /\ "pipelineStatisticsQuery" \in appDevices[d] /\ ~QueryHooks(d)
                  => "pipelineStatisticsQuery" \in driverDevices[d]
           /\ "divisor" \in appDevices[d] => "divisor" \in driverDevices[d]
           /\ ~devices[d].unsafe => appDevices[d] \ {"pipelineStatisticsQuery"} \subseteq driverDevices[d]
<1>1. /\ Sane(devices[d]) /\ Served(devices[d], appDevices[d], driverDevices[d])
      /\ driverDevices[d] # None
  BY DEF DevicesInv, DevicesKept
<1>2. devices[d] # None
  BY <1>1, ProfilesAssumption DEF Sane
<1> QED
  BY <1>1, <1>2 DEF Served, Backed, UnsafeCore, UnsafeChain, SparseHooks, QueryHooks, Sane

(* Most steps begin, go on with or end a call on a device that the         *)
(* application has, and leave the devices as they are.                     *)
Begins(t) ==
    LET c == call'[t] IN
    /\ pc[t] = "idle" /\ pc'[t] \notin Alone \union {"idle", "create_device"}
    /\ c.device # None /\ appDevices[c.device] # None
    /\ c.uses # {} => c.uses \ Excused(c.device) \subseteq driverDevices[c.device]

Goes(t) ==
    /\ pc[t] \notin {"idle", "create_device"} \union Alone
    /\ pc'[t] \notin {"idle", "create_device"} \union Alone
    /\ call'[t].device = call[t].device /\ call'[t].uses = call[t].uses

Ends(t) == pc[t] \notin Alone /\ pc'[t] = "idle" /\ call'[t].device = None /\ call'[t].uses = {}

Quiet(t) ==
    /\ UNCHANGED <<devices, driverDevices, appDevices, appQueues, queues>>
    /\ \A u \in Threads : u # t => pc'[u] = pc[u] /\ call'[u] = call[u]
    /\ Begins(t) \/ Goes(t) \/ Ends(t)
    /\ \A r \in Resources : appResources'[r] \in {appResources[r], None, call[t].device}
    /\ \A p \in Pools : appPools'[p] \in {appPools[p], None, call[t].device}

(* A step that leaves devices and children alone keeps the invariant.      *)
LEMMA QuietKeeps ==
    ASSUME EmulationTypeOK, DevicesInv, NEW t \in Threads, Quiet(t)
    PROVE  DevicesInv'
<1>1. DevicesKept'
  BY DEF DevicesInv, DevicesKept, Quiet
<1>2. call[t].device # None => appDevices[call[t].device] # None
  BY DEF DevicesInv, CallsKept, CallKept, Quiet, Begins, Goes, Ends
<1>3. ChildrenKept'
  BY <1>2 DEF DevicesInv, ChildrenKept, Quiet
<1>4. CallKept(t)'
  <2>1. \A d : Excused(d)' = Excused(d)
    BY DEF Quiet, Excused
  <2> QED
    BY <2>1 DEF DevicesInv, DevicesKept, CallsKept, CallKept, Quiet, Begins, Goes, Ends, Alone
<1>5. ASSUME NEW u \in Threads, u # t PROVE CallKept(u)'
  <2>1. CallKept(u) /\ pc'[u] = pc[u] /\ call'[u] = call[u]
    BY <1>5 DEF DevicesInv, CallsKept, Quiet
  <2>2. pc[u] \in Alone => call'[t].device # call[u].device
    <3>1. pc[u] \in Alone => /\ call[t].device # call[u].device
                            /\ call[u].device # None /\ appDevices[call[u].device] = None
      BY <1>5, <2>1 DEF CallKept, Alone
    <3> QED BY <3>1 DEF Quiet, Begins, Goes, Ends
  <2>3. \A v \in Threads : v # t => call'[v] = call[v]
    BY DEF Quiet
  <2>4. Excused(call[u].device)' = Excused(call[u].device)
    BY <2>1 DEF Quiet, Excused
  <2> QED BY <1>5, <2>1, <2>2, <2>3, <2>4 DEF CallKept, Quiet
<1> QED BY <1>1, <1>3, <1>4, <1>5 DEF DevicesInv, CallsKept

(* A step of one thread on a device of its own keeps the calls of others.  *)
LEMMA OthersKept ==
    ASSUME NEW t \in Threads, NEW u \in Threads, u # t, CallKept(u),
           pc'[u] = pc[u], \A v \in Threads : v # t => call'[v] = call[v],
           call'[t].device = None \/ call'[t].device # call[u].device,
           call[u].device # None => /\ appDevices'[call[u].device] = appDevices[call[u].device]
                                    /\ driverDevices'[call[u].device] = driverDevices[call[u].device]
                                    /\ devices'[call[u].device] = devices[call[u].device]
    PROVE  CallKept(u)'
BY DEF CallKept, Alone, Excused

(* Every step keeps what the devices, their children and the calls are.    *)
LEMMA DevicesStep ==
    ASSUME EmulationTypeOK, ProfilesInv, DevicesInv, EmulationNext
    PROVE  DevicesInv'
<1> USE DEF profileVars, registry, driver, app
<1>0. /\ DOMAIN pc = Threads /\ DOMAIN call = Threads
      /\ \A t \in Threads : call[t] \in Calls
      /\ \A r \in Resources : appResources[r] \in Devices \union {None}
      /\ \A p \in Pools : appPools[p] \in Devices \union {None}
      /\ appResources \in [Resources -> Devices \union {None}]
      /\ appPools \in [Pools -> Devices \union {None}]
      /\ appDevices \in [Devices -> FeatureSets \union {None}]
      /\ driverDevices \in [Devices -> FeatureSets \union {None}]
      /\ devices \in [Devices -> Selections \union {None}]
      /\ None \notin Devices /\ appQueues \subseteq Devices
  BY EmulationAssumption DEF EmulationTypeOK, CallsTypeOK, AppTypeOK, DriverTypeOK, RegistryTypeOK
<1>children. ChildrenKept
  BY DEF DevicesInv
<1>1. CASE InstanceStep
  <2>1. ASSUME NEW i \in Instances, NEW engine \in Engines, RegisterInstance(i, engine),
               UNCHANGED <<registry, driver, app, pc, call>>
        PROVE  DevicesInv'
    BY <2>1 DEF DevicesInv, DevicesKept, ChildrenKept, CallsKept, CallKept, Excused
  <2>2. ASSUME NEW i \in Instances, EnumeratePhysicalDevices(i),
               UNCHANGED <<registry, driver, app, pc, call>>
        PROVE  DevicesInv'
    BY <2>2 DEF DevicesInv, DevicesKept, ChildrenKept, CallsKept, CallKept, Excused
  <2>3. ASSUME NEW i \in Instances, AskPhysicalDevice(i), UNCHANGED <<registry, driver, app, pc, call>>
        PROVE  DevicesInv'
    BY <2>3 DEF DevicesInv, DevicesKept, ChildrenKept, CallsKept, CallKept, Excused
  <2> QED BY <1>1, <2>1, <2>2, <2>3 DEF InstanceStep
<1>2. ASSUME NEW t \in Threads, DeviceStep(t) PROVE DevicesInv'
  <2>1. ASSUME NEW i \in Instances, NEW want \in Wanted, NEW wellKnown \in BOOLEAN, told[i] # None,
               CreateDevice(t, i, Enables(i, want), told[i].extensions, wellKnown)
        PROVE  DevicesInv'
    <3> DEFINE sel == SelectionFor(i)
               wanted == Enables(i, want)
               asked == Prepare(sel, wanted, told[i].extensions, wellKnown)
    <3>1. /\ Sane(sel) /\ asked \in Requests /\ DriverAccepts(asked)
          /\ Served(sel, wanted, asked.features)
          /\ call' = [call EXCEPT ![t] = [NoCall EXCEPT !.sel = sel, !.want = wanted, !.asked = asked]]
          /\ pc[t] = "idle" /\ pc' = [pc EXCEPT ![t] = "create_device"]
          /\ UNCHANGED <<registry, driver, app>>
      BY <2>1, RequestServed DEF CreateDevice, Call, Goto
    <3> HIDE DEF sel, wanted, asked
    <3>2. /\ call'[t].device = None /\ call'[t].uses = {} /\ call'[t].sel = sel
          /\ call'[t].want = wanted
          /\ call'[t].asked = asked /\ pc'[t] = "create_device"
      BY <1>0, <3>1 DEF NoCall
    <3>3. CallKept(t)'
      BY <3>1, <3>2 DEF CallKept, Alone
    <3>4. ASSUME NEW u \in Threads, u # t PROVE CallKept(u)'
      <4>1. CallKept(u) /\ pc'[u] = pc[u] /\ call'[u] = call[u]
        BY <1>0, <3>1, <3>4 DEF DevicesInv, CallsKept
      <4>2. \A v \in Threads : v # t => call'[v] = call[v]
        BY <1>0, <3>1
      <4>3. pc[u] \in Alone => call[u].device # None
        BY <4>1 DEF CallKept, Alone
      <4> QED BY <3>1, <3>2, <4>1, <4>2, <4>3 DEF CallKept, Excused
    <3>5. DevicesKept' /\ ChildrenKept'
      BY <3>1 DEF DevicesInv, DevicesKept, ChildrenKept
    <3> QED BY <3>3, <3>4, <3>5 DEF DevicesInv, CallsKept
  <2>2. CASE DriverRefusesDevice(t)
    <3>1. Quiet(t)
      BY <2>2, <1>0
      DEF DriverRefusesDevice, Finish, Goto, Quiet, Goes, Ends, Alone, NoCall, Calls
    <3> QED BY <3>1, QuietKeeps
  <2>3. CASE RegisterDevice(t)
    <3>1. /\ pc[t] = "register_device" /\ call[t].device \in Devices
          /\ appDevices[call[t].device] = None
          /\ \A u \in Threads : u # t => call[u].device # call[t].device
          /\ driverDevices[call[t].device] # None
          /\ Sane(call[t].sel) /\ Served(call[t].sel, call[t].want, driverDevices[call[t].device])
          /\ pc'[t] = "idle" /\ call'[t].device = None /\ call'[t].uses = {}
          /\ call' = [call EXCEPT ![t] = NoCall] /\ pc' = [pc EXCEPT ![t] = "idle"]
      BY <2>3, <1>0, CallTypes
         DEF RegisterDevice, Finish, Goto, NoCall, DevicesInv, CallsKept, CallKept, Alone
    <3>2. CallKept(t)'
      BY <2>3, <1>0, <3>1 DEF CallKept, Alone
    <3>3. ASSUME NEW u \in Threads, u # t PROVE CallKept(u)'
      <4>1. CallKept(u) /\ pc'[u] = pc[u] /\ \A v \in Threads : v # t => call'[v] = call[v]
        BY <2>3, <1>0, <3>1, <3>3 DEF DevicesInv, CallsKept, RegisterDevice
      <4>2. call[u].device \in Devices \union {None}
        BY CallTypes
      <4>3. /\ call'[t].device = None \/ call'[t].device # call[u].device
            /\ call[u].device # None =>
                   /\ appDevices'[call[u].device] = appDevices[call[u].device]
                   /\ driverDevices'[call[u].device] = driverDevices[call[u].device]
                   /\ devices'[call[u].device] = devices[call[u].device]
        BY <2>3, <1>0, <3>1, <3>3, <4>2 DEF RegisterDevice
      <4> QED BY <3>3, <4>1, <4>3, OthersKept
    <3>4. DevicesKept'
      BY <2>3, <1>0, <3>1 DEF RegisterDevice, DevicesInv, DevicesKept
    <3>5. ChildrenKept'
      BY <2>3, <1>0, <1>children, <3>1 DEF RegisterDevice, ForgetDevice, ChildrenKept
    <3> QED BY <3>2, <3>3, <3>4, <3>5 DEF DevicesInv, CallsKept
  <2>4. CASE UnregisterDevice(t)
    <3>1. /\ pc[t] = "unregister_device" /\ call[t].device \in Devices /\ CallKept(t)
          /\ appDevices[call[t].device] = None /\ pc' = [pc EXCEPT ![t] = "destroy_device"]
          /\ pc'[t] = "destroy_device" /\ UNCHANGED <<call, appDevices, driverDevices>>
          /\ \A u \in Threads : u # t => call[u].device # call[t].device
      BY <2>4, <1>0, CallTypes DEF UnregisterDevice, Goto, DevicesInv, CallsKept, CallKept, Alone
    <3>2. CallKept(t)'
      BY <2>4, <1>0, <3>1 DEF UnregisterDevice, CallKept, Alone
    <3>3. ASSUME NEW u \in Threads, u # t PROVE CallKept(u)'
      <4>1. CallKept(u) /\ pc'[u] = pc[u] /\ \A v \in Threads : v # t => call'[v] = call[v]
        BY <2>4, <1>0, <3>1, <3>3 DEF DevicesInv, CallsKept, UnregisterDevice
      <4>2. call[u].device \in Devices \union {None}
        BY CallTypes
      <4>3. /\ call'[t].device = None \/ call'[t].device # call[u].device
            /\ call[u].device # None =>
                   /\ appDevices'[call[u].device] = appDevices[call[u].device]
                   /\ driverDevices'[call[u].device] = driverDevices[call[u].device]
                   /\ devices'[call[u].device] = devices[call[u].device]
        BY <2>4, <1>0, <3>1, <3>3, <4>2 DEF UnregisterDevice, ForgetDevice
      <4> QED BY <3>3, <4>1, <4>3, OthersKept
    <3>4. DevicesKept'
      BY <2>4, <1>0, <3>1 DEF UnregisterDevice, ForgetDevice, DevicesInv, DevicesKept
    <3>5. ChildrenKept'
      BY <2>4, <1>0, <1>children, <3>1 DEF UnregisterDevice, ForgetDevice, ChildrenKept
    <3> QED BY <3>2, <3>3, <3>4, <3>5 DEF DevicesInv, CallsKept
  <2>5. CASE DriverDestroysDevice(t)
    <3>1. /\ pc[t] = "destroy_device" /\ call[t].device \in Devices /\ appDevices[call[t].device] = None
          /\ \A u \in Threads : u # t => call[u].device # call[t].device
          /\ pc'[t] = "idle" /\ call'[t].device = None /\ call'[t].uses = {}
          /\ call' = [call EXCEPT ![t] = NoCall] /\ pc' = [pc EXCEPT ![t] = "idle"]
      BY <2>5, <1>0, CallTypes
         DEF DriverDestroysDevice, Finish, Goto, NoCall, DevicesInv, CallsKept, CallKept, Alone
    <3>2. CallKept(t)'
      BY <2>5, <1>0, <3>1 DEF CallKept, Alone
    <3>3. ASSUME NEW u \in Threads, u # t PROVE CallKept(u)'
      <4>1. CallKept(u) /\ pc'[u] = pc[u] /\ \A v \in Threads : v # t => call'[v] = call[v]
        BY <2>5, <1>0, <3>1, <3>3 DEF DevicesInv, CallsKept, DriverDestroysDevice
      <4>2. call[u].device \in Devices \union {None}
        BY CallTypes
      <4>3. /\ call'[t].device = None \/ call'[t].device # call[u].device
            /\ call[u].device # None =>
                   /\ appDevices'[call[u].device] = appDevices[call[u].device]
                   /\ driverDevices'[call[u].device] = driverDevices[call[u].device]
                   /\ devices'[call[u].device] = devices[call[u].device]
        BY <2>5, <1>0, <3>1, <3>3, <4>2 DEF DriverDestroysDevice
      <4> QED BY <3>3, <4>1, <4>3, OthersKept
    <3>4. DevicesKept'
      BY <2>5, <1>0, <3>1 DEF DriverDestroysDevice, DevicesInv, DevicesKept
    <3>5. ChildrenKept'
      BY <2>5, <1>0, <1>children, <3>1 DEF DriverDestroysDevice, ForgetDevice, ChildrenKept
    <3> QED BY <3>2, <3>3, <3>4, <3>5 DEF DevicesInv, CallsKept
  <2>6. ASSUME NEW d \in Devices, DriverCreatesDevice(t, d) PROVE DevicesInv'
    <3>apart. CallKept(t) /\ appDevices[d] = None /\ driverDevices[d] = None
      BY <2>6 DEF DriverCreatesDevice, DevicesInv, DevicesKept, CallsKept
    <3>asked. call[t].asked.features \in SUBSET Features /\ call[t].asked.features # None
      <4>1. call[t].asked \in Requests
        BY <2>6, <3>apart DEF DriverCreatesDevice, CallKept
      <4>2. call[t].asked.features \in SUBSET Features
        BY <4>1 DEF Requests, FeatureSets
      <4>3. \A features \in SUBSET Features : features # None
        BY EmulationAssumption
      <4> QED BY ONLY <4>2, <4>3, Zenon
    <3>unused. ASSUME NEW u \in Threads PROVE call[u].device # d
      BY <1>0, <3>apart DEF DevicesInv, CallsKept, CallKept
    <3>1. /\ pc[t] = "create_device" /\ CallKept(t) /\ driverDevices[d] = None /\ appDevices[d] = None
          /\ \A u \in Threads : call[u].device # d
          /\ call[t].asked.features # None /\ driverDevices'[d] = call[t].asked.features
          /\ call' = [call EXCEPT ![t].device = d] /\ pc' = [pc EXCEPT ![t] = "register_device"]
          /\ call'[t] = [call[t] EXCEPT !.device = d] /\ call'[t].device = d
      BY <2>6, <1>0, <3>apart, <3>asked, <3>unused DEF DriverCreatesDevice, Goto, Calls
    <3>2. CallKept(t)'
      BY <2>6, <1>0, <3>1 DEF DriverCreatesDevice, CallKept, Alone, Calls
    <3>3. ASSUME NEW u \in Threads, u # t PROVE CallKept(u)'
      <4>1. CallKept(u) /\ pc'[u] = pc[u] /\ \A v \in Threads : v # t => call'[v] = call[v]
        BY <2>6, <1>0, <3>1, <3>3 DEF DevicesInv, CallsKept, DriverCreatesDevice
      <4>2. call[u].device \in Devices \union {None}
        BY CallTypes
      <4>3. /\ call'[t].device = None \/ call'[t].device # call[u].device
            /\ call[u].device # None =>
                   /\ appDevices'[call[u].device] = appDevices[call[u].device]
                   /\ driverDevices'[call[u].device] = driverDevices[call[u].device]
                   /\ devices'[call[u].device] = devices[call[u].device]
        BY <2>6, <1>0, <3>1, <3>3, <4>2 DEF DriverCreatesDevice
      <4> QED BY <3>3, <4>1, <4>3, OthersKept
    <3>4. DevicesKept'
      BY <2>6, <1>0, <3>1 DEF DriverCreatesDevice, DevicesInv, DevicesKept
    <3>5. ChildrenKept'
      BY <2>6, <1>0, <1>children, <3>1 DEF DriverCreatesDevice, ForgetDevice, ChildrenKept
    <3> QED BY <3>2, <3>3, <3>4, <3>5 DEF DevicesInv, CallsKept
  <2>7. ASSUME NEW d \in Devices, DestroyDevice(t, d) PROVE DevicesInv'
    <3>1. /\ pc[t] = "idle" /\ appDevices[d] # None /\ driverDevices[d] # None
          /\ \A u \in Threads : call[u].device # d
          /\ call'[t].device = d /\ call'[t].uses = {} /\ pc'[t] = "unregister_device"
          /\ call' = [call EXCEPT ![t] = [NoCall EXCEPT !.device = d]]
          /\ pc' = [pc EXCEPT ![t] = "unregister_device"]
      BY <2>7, <1>0, EnabledIsThere DEF DestroyDevice, Using, Call, Goto, NoCall
    <3>2. CallKept(t)'
      BY <2>7, <1>0, <3>1 DEF DestroyDevice, CallKept, Alone
    <3>3. ASSUME NEW u \in Threads, u # t PROVE CallKept(u)'
      <4>1. CallKept(u) /\ pc'[u] = pc[u] /\ \A v \in Threads : v # t => call'[v] = call[v]
        BY <2>7, <1>0, <3>1, <3>3 DEF DevicesInv, CallsKept, DestroyDevice
      <4>2. call[u].device \in Devices \union {None}
        BY CallTypes
      <4>3. /\ call'[t].device = None \/ call'[t].device # call[u].device
            /\ call[u].device # None =>
                   /\ appDevices'[call[u].device] = appDevices[call[u].device]
                   /\ driverDevices'[call[u].device] = driverDevices[call[u].device]
                   /\ devices'[call[u].device] = devices[call[u].device]
        BY <2>7, <1>0, <3>1, <3>3, <4>2 DEF DestroyDevice
      <4> QED BY <3>3, <4>1, <4>3, OthersKept
    <3>4. DevicesKept'
      BY <2>7, <1>0, <3>1 DEF DestroyDevice, DevicesInv, DevicesKept
    <3>5. ChildrenKept'
      BY <2>7, <1>0, <1>children, <3>1 DEF DestroyDevice, ForgetDevice, ChildrenKept
    <3> QED BY <3>2, <3>3, <3>4, <3>5 DEF DevicesInv, CallsKept
  <2>8. ASSUME NEW d \in Devices, GetDeviceQueue(t, d) PROVE DevicesInv'
    <3>1. devices[d] # None
      BY <2>8, EnabledIsThere DEF GetDeviceQueue
    <3> QED BY <2>8, <3>1
             DEF GetDeviceQueue, DevicesInv, DevicesKept, ChildrenKept, CallsKept, CallKept, Excused
  <2> QED BY <1>2, <2>1, <2>2, <2>3, <2>4, <2>5, <2>6, <2>7, <2>8 DEF DeviceStep
<1>3. ASSUME NEW t \in Threads, ResourceStep(t) PROVE DevicesInv'
  <2>1. ASSUME NEW d \in Devices, NEW sparse \in BOOLEAN, CreateBuffer(t, d, sparse)
        PROVE  DevicesInv'
    <3>1. Quiet(t)
      BY <2>1, <1>0, <1>children, EnabledIsThere
      DEF CreateBuffer, CreateResource, Call, Goto, ChildrenKept, Quiet, Begins, Alone, NoCall,
          Resources
    <3> QED BY <3>1, QuietKeeps
  <2>2. ASSUME NEW d \in Devices, NEW sparse \in BOOLEAN, NEW plain2d \in BOOLEAN,
               CreateImage(t, d, sparse, plain2d)
        PROVE  DevicesInv'
    <3>1. Quiet(t)
      BY <2>2, <1>0, <1>children, EnabledIsThere
      DEF CreateImage, CreateResource, Call, Goto, ChildrenKept, Quiet, Begins, Alone, NoCall,
          Resources
    <3> QED BY <3>1, QuietKeeps
  <2>3. ASSUME NEW r \in Resources, DriverCreatesResource(t, r) PROVE DevicesInv'
    <3>1. Quiet(t)
      BY <2>3, <1>0
      DEF DriverCreatesResource, Finish, Goto, Quiet, Goes, Ends, Alone, NoCall, Calls
    <3> QED BY <3>1, QuietKeeps
  <2>4. ASSUME NEW r \in Buffers, DestroyBuffer(t, r) PROVE DevicesInv'
    <3>1. Quiet(t)
      BY <2>4, <1>0, <1>children, EnabledIsThere
      DEF DestroyBuffer, DestroyResource, Call, Goto, ChildrenKept, Quiet, Begins, Alone,
          NoCall, Resources
    <3> QED BY <3>1, QuietKeeps
  <2>5. ASSUME NEW r \in Images, DestroyImage(t, r) PROVE DevicesInv'
    <3>1. Quiet(t)
      BY <2>5, <1>0, <1>children, EnabledIsThere
      DEF DestroyImage, DestroyResource, Call, Goto, ChildrenKept, Quiet, Begins, Alone,
          NoCall, Resources
    <3> QED BY <3>1, QuietKeeps
  <2>6. ASSUME NEW r \in Images, GetImageSparseMemoryRequirements(t, r) PROVE DevicesInv'
    <3>1. Quiet(t)
      BY <2>6, <1>0, <1>children, EnabledIsThere
      DEF GetImageSparseMemoryRequirements, Call, Goto, ChildrenKept, Quiet, Begins, Alone,
          NoCall, Resources
    <3> QED BY <3>1, QuietKeeps
  <2>7. ASSUME NEW size \in Sizes, Reserve(t, size) PROVE DevicesInv'
    <3>1. Quiet(t)
      BY <2>7, <1>0
      DEF Reserve, Goto, Quiet, Goes, Ends, Alone, NoCall, Calls
    <3> QED BY <3>1, QuietKeeps
  <2>8. CASE Allocate(t)
    <3>1. Quiet(t)
      BY <2>8, <1>0
      DEF Allocate, Goto, Quiet, Goes, Ends, Alone, NoCall, Calls
    <3> QED BY <3>1, QuietKeeps
  <2>9. CASE Bind(t)
    <3>1. Quiet(t)
      BY <2>9, <1>0
      DEF Bind, Goto, Quiet, Goes, Ends, Alone, NoCall, Calls
    <3> QED BY <3>1, QuietKeeps
  <2>10. CASE ReleaseBudget(t)
    <3>1. Quiet(t)
      BY <2>10, <1>0
      DEF ReleaseBudget, Released, Finish, Goto, Quiet, Goes, Ends, Alone, NoCall, Calls
    <3> QED BY <3>1, QuietKeeps
  <2>11. CASE Undo(t)
    <3>1. Quiet(t)
      BY <2>11, <1>0
      DEF Undo, Finish, Goto, Quiet, Goes, Ends, Alone, NoCall, Calls
    <3> QED BY <3>1, QuietKeeps
  <2>12. CASE Record(t)
    <3>1. Quiet(t)
      BY <2>12, <1>0
      DEF Record, Finish, Goto, Quiet, Goes, Ends, Alone, NoCall, Calls
    <3> QED BY <3>1, QuietKeeps
  <2>13. CASE DriverDestroysResource(t)
    <3>1. Quiet(t)
      BY <2>13, <1>0
      DEF DriverDestroysResource, Finish, Goto, Quiet, Goes, Ends, Alone, NoCall, Calls
    <3> QED BY <3>1, QuietKeeps
  <2>14. CASE FreeMemory(t)
    <3>1. Quiet(t)
      BY <2>14, <1>0
      DEF FreeMemory, Goto, Quiet, Goes, Ends, Alone, NoCall, Calls
    <3> QED BY <3>1, QuietKeeps
  <2> QED BY <1>3, <2>1, <2>2, <2>3, <2>4, <2>5, <2>6, <2>7, <2>8, <2>9, <2>10, <2>11, <2>12,
             <2>13, <2>14 DEF ResourceStep
<1>4. ASSUME NEW t \in Threads, PoolStep(t) PROVE DevicesInv'
  <2>1. ASSUME NEW d \in Devices, NEW p \in Pools, NewFakePool(t, d, p) PROVE DevicesInv'
    <3>1. Quiet(t)
      BY <2>1, <1>0, <1>children, EnabledIsThere
      DEF NewFakePool, Unused, Call, Goto, ChildrenKept, Quiet, Begins, Alone, NoCall,
          Resources
    <3> QED BY <3>1, QuietKeeps
  <2>2. ASSUME NEW d \in Devices, NEW statistics \in BOOLEAN, CreatePool(t, d, statistics)
        PROVE  DevicesInv'
    <3>1. Quiet(t)
      BY <2>2, <1>0, <1>children, EnabledIsThere
      DEF CreatePool, Call, Goto, ChildrenKept, Quiet, Begins, Alone, NoCall, Resources
    <3> QED BY <3>1, QuietKeeps
  <2>3. ASSUME NEW p \in Pools, DriverCreatesPool(t, p) PROVE DevicesInv'
    <3>1. Quiet(t)
      BY <2>3, <1>0
      DEF DriverCreatesPool, GivePool, Unused, Finish, Goto, Quiet, Goes, Ends, Alone, NoCall,
          Calls
    <3> QED BY <3>1, QuietKeeps
  <2>4. ASSUME NEW p \in Pools, DestroyPool(t, p) PROVE DevicesInv'
    <3>1. Quiet(t)
      BY <2>4, <1>0, <1>children, EnabledIsThere
      DEF DestroyPool, PoolUsers, Call, Goto, ChildrenKept, Quiet, Begins, Alone, NoCall,
          Resources
    <3> QED BY <3>1, QuietKeeps
  <2>5. ASSUME NEW p \in Pools, NEW indexed \in BOOLEAN, PoolCommand(t, p, indexed) PROVE DevicesInv'
    <3>1. Quiet(t)
      BY <2>5, <1>0, <1>children, EnabledIsThere
      DEF PoolCommand, Call, Goto, ChildrenKept, Quiet, Begins, Alone, NoCall, Resources
    <3> QED BY <3>1, QuietKeeps
  <2>6. ASSUME NEW p \in Pools, GetQueryPoolResults(t, p) PROVE DevicesInv'
    <3>1. Quiet(t)
      BY <2>6, <1>0, <1>children, EnabledIsThere
      DEF GetQueryPoolResults, Call, Goto, ChildrenKept, Quiet, Begins, Alone, NoCall,
          Resources
    <3> QED BY <3>1, QuietKeeps
  <2>7. CASE EmplaceFakePool(t)
    <3>1. Quiet(t)
      BY <2>7, <1>0
      DEF EmplaceFakePool, Finish, Goto, Quiet, Goes, Ends, Alone, NoCall, Calls
    <3> QED BY <3>1, QuietKeeps
  <2>8. CASE RecordPool(t)
    <3>1. Quiet(t)
      BY <2>8, <1>0
      DEF RecordPool, GivePool, Finish, Goto, Quiet, Goes, Ends, Alone, NoCall, Calls
    <3> QED BY <3>1, QuietKeeps
  <2>9. CASE ForgetPool(t)
    <3>1. Quiet(t)
      BY <2>9, <1>0
      DEF ForgetPool, Finish, Goto, Quiet, Goes, Ends, Alone, NoCall, Calls
    <3> QED BY <3>1, QuietKeeps
  <2>10. CASE DriverDestroysPool(t)
    <3>1. Quiet(t)
      BY <2>10, <1>0
      DEF DriverDestroysPool, Finish, Goto, Quiet, Goes, Ends, Alone, NoCall, Calls
    <3> QED BY <3>1, QuietKeeps
  <2>11. CASE FindFakePool(t)
    <3>1. Quiet(t)
      BY <2>11, <1>0
      DEF FindFakePool, Finish, Goto, Quiet, Goes, Ends, Alone, NoCall, Calls
    <3> QED BY <3>1, QuietKeeps
  <2>12. CASE FindRealPool(t)
    <3>1. Quiet(t)
      BY <2>12, <1>0
      DEF FindRealPool, Goto, Quiet, Goes, Ends, Alone, NoCall, Calls
    <3> QED BY <3>1, QuietKeeps
  <2>13. CASE FindState(t)
    <3>1. Quiet(t)
      BY <2>13, <1>0
      DEF FindState, Goto, Quiet, Goes, Ends, Alone, NoCall, Calls
    <3> QED BY <3>1, QuietKeeps
  <2>14. CASE FindResults(t)
    <3>1. Quiet(t)
      BY <2>14, <1>0
      DEF FindResults, Finish, Goto, Quiet, Goes, Ends, Alone, NoCall, Calls
    <3> QED BY <3>1, QuietKeeps
  <2> QED BY <1>4, <2>1, <2>2, <2>3, <2>4, <2>5, <2>6, <2>7, <2>8, <2>9, <2>10, <2>11, <2>12,
             <2>13, <2>14 DEF PoolStep
<1>5. ASSUME NEW t \in Threads, OtherStep(t) PROVE DevicesInv'
  <2>1. ASSUME NEW d \in Devices, QueueBindSparse(t, d) PROVE DevicesInv'
    <3>1. appDevices[d] # None
      BY <2>1, <1>children DEF QueueBindSparse, ChildrenKept
    <3>2. CASE SparseHooks(d)
      <4>1. Quiet(t)
        BY <2>1, <1>0, <3>1, <3>2 DEF QueueBindSparse, Call, Goto, NoCall, Quiet, Begins, Alone
      <4> QED BY <4>1, QuietKeeps
    <3>3. CASE ~SparseHooks(d)
      <4>1. "sparseBinding" \in driverDevices[d]
        BY <2>1, <3>1, <3>3, EnabledIsThere DEF QueueBindSparse
      <4>2. /\ pc[t] = "idle" /\ pc' = [pc EXCEPT ![t] = "at_driver"]
            /\ call' = [call EXCEPT ![t] = [NoCall EXCEPT !.device = d, !.uses = {"sparseBinding"}]]
        BY <2>1, <3>3 DEF QueueBindSparse, Call, Goto
      <4>3. call'[t].device = d /\ call'[t].uses = {"sparseBinding"}
        BY <1>0, <4>2 DEF NoCall
      <4>4. Begins(t)
        BY <1>0, <3>1, <4>1, <4>2, <4>3 DEF Begins, Alone
      <4>5. Quiet(t)
        BY <2>1, <1>0, <4>2, <4>4 DEF QueueBindSparse, Quiet
      <4> QED BY <4>5, QuietKeeps
    <3> QED BY <3>2, <3>3
  <2>2. ASSUME NEW d \in Devices, NEW needs \in PipelineNeeds, CreateGraphicsPipelines(t, d, needs)
        PROVE  DevicesInv'
    <3> DEFINE uses == IF devices[d] # None /\ devices[d].unsafe THEN needs \ {"zeroDivisor"}
                       ELSE needs
    <3>1. /\ appDevices[d] # None /\ needs \subseteq appDevices[d] /\ devices[d] # None
          /\ pc[t] = "idle" /\ pc' = [pc EXCEPT ![t] = "at_driver"]
          /\ call' = [call EXCEPT ![t] = [NoCall EXCEPT !.device = d, !.uses = uses]]
          /\ UNCHANGED <<profileVars, registry, driver, app>>
      BY <2>2, EnabledIsThere DEF CreateGraphicsPipelines, Call, Goto
    <3>2. uses \ Excused(d) \subseteq driverDevices[d]
      <4>1. CASE devices[d].unsafe
        <5>1. uses \ Excused(d) \subseteq {"divisor"}
          BY <3>1, <4>1, <2>2 DEF PipelineNeeds, Excused, Unanswered
        <5>2. "divisor" \in uses => "divisor" \in appDevices[d]
          BY <3>1
        <5> QED BY <5>1, <5>2, <3>1, EnabledIsThere
      <4>2. CASE ~devices[d].unsafe
        <5>1. uses = needs /\ "pipelineStatisticsQuery" \notin needs
          BY <3>1, <4>2, <2>2 DEF PipelineNeeds
        <5> QED BY <5>1, <3>1, <4>2, EnabledIsThere
      <4> QED BY <4>1, <4>2
    <3> HIDE DEF uses
    <3>3. call'[t].device = d /\ call'[t].uses = uses
      BY <1>0, <3>1 DEF NoCall
    <3>4. Begins(t)
      BY <1>0, <3>1, <3>2, <3>3 DEF Begins, Alone
    <3>5. Quiet(t)
      BY <1>0, <3>1, <3>4 DEF Quiet
    <3> QED BY <3>5, QuietKeeps
  <2>3. ASSUME NEW d \in Devices, GetDeviceMemoryRequirements(t, d) PROVE DevicesInv'
    <3>1. Quiet(t)
      BY <2>3, <1>0, <1>children, EnabledIsThere
      DEF GetDeviceMemoryRequirements, Call, Goto, ChildrenKept, Quiet, Begins, Alone, NoCall,
          Resources
    <3> QED BY <3>1, QuietKeeps
  <2>4. CASE DriverReturns(t)
    <3>1. Quiet(t)
      BY <2>4, <1>0
      DEF DriverReturns, Finish, Goto, Quiet, Goes, Ends, Alone, NoCall, Calls
    <3> QED BY <3>1, QuietKeeps
  <2> QED BY <1>5, <2>1, <2>2, <2>3, <2>4 DEF OtherStep
<1> QED BY <1>1, <1>2, <1>3, <1>4, <1>5 DEF EmulationNext

-----------------------------------------------------------------------------
(* Query pools.  The address of a made-up pool is on the wrapper's heap,   *)
(* that of a real one is the driver's; who makes or destroys a pool has it *)
(* alone, and who looks it up looks up one the application has.            *)

Owning == {"emplace_pool", "record_pool", "forget_pool", "destroy_pool"}
Looking == {"find_fake", "find_pool", "find_state", "results", "pool_at_driver", "indexed_at_driver"}

Real(p, d) == p \notin heap /\ driverPools[p] = d

Known(p, d) ==
    \/ QueryHooks(d) /\ p \in heap /\ fakePools[p] = d
    \/ Real(p, d) /\ (QueryHooks(d) => realPools[p] = d)

HeapKept ==
    \A p \in Pools : /\ fakePools[p] # None => p \in heap
                     /\ p \in heap => driverPools[p] = None

PoolsKept == \A p \in Pools : appPools[p] # None => Known(p, appPools[p])

PoolCallKept(t) ==
    LET p == call[t].pool
        d == call[t].device
    IN  /\ pc[t] # "dropped"
        /\ pc[t] \notin Owning \union Looking => p = None
        /\ pc[t] \in Owning \union Looking => p # None
        /\ pc[t] \in Looking => appPools[p] = d
        /\ pc[t] \in {"find_fake", "results", "find_pool", "find_state"} => QueryHooks(d)
        /\ pc[t] \in {"find_pool", "find_state", "pool_at_driver"} => Real(p, d)
        /\ pc[t] \in Owning => appPools[p] = None /\ \A u \in Threads : u # t => call[u].pool # p
        /\ pc[t] = "emplace_pool" => QueryHooks(d) /\ p \in heap /\ fakePools[p] = None
        /\ pc[t] \in {"record_pool", "destroy_pool"} => Real(p, d)
        /\ pc[t] = "forget_pool" => QueryHooks(d) /\ Known(p, d)

PoolsInv == HeapKept /\ PoolsKept /\ \A t \in Threads : PoolCallKept(t)

(* A thread that has a pool has a device, and the pool is somebody's.      *)
LEMMA PoolInUse ==
    ASSUME EmulationTypeOK, DevicesInv, PoolsInv, NEW t \in Threads, call[t].pool # None
    PROVE  /\ pc[t] \in Owning \union Looking /\ call[t].pool \in Pools /\ call[t].device \in Devices
           /\ appDevices[call[t].device] # None
           /\ pc[t] \in Looking => Known(call[t].pool, call[t].device)
           /\ call[t].pool \in heap \/ driverPools[call[t].pool] # None
<1>1. pc[t] \in Owning \union Looking /\ call[t].pool \in Pools /\ PoolCallKept(t)
  BY CallTypes DEF PoolsInv, PoolCallKept
<1>2. pc[t] \notin Alone \union {"idle", "create_device"}
  BY <1>1 DEF Owning, Looking, Alone
<1>3. call[t].device \in Devices /\ appDevices[call[t].device] # None
  BY <1>1, <1>2, CallTypes DEF DevicesInv, CallsKept, CallKept
<1>4. pc[t] \in Looking => Known(call[t].pool, call[t].device)
  BY <1>1, <1>3, EmulationAssumption DEF PoolsInv, PoolsKept, PoolCallKept
<1>5. call[t].device # None
  BY <1>3, EmulationAssumption
<1>6. pc[t] \in Owning => call[t].pool \in heap \/ driverPools[call[t].pool] # None
  BY <1>1, <1>5 DEF PoolCallKept, Owning, Known, Real
<1> QED BY <1>1, <1>3, <1>4, <1>5, <1>6 DEF Known, Real

(* A step of one thread on a pool of its own, or one that looks a pool up, *)
(* keeps the calls of others.                                              *)
LEMMA PoolOthersKept ==
    ASSUME NEW t \in Threads, NEW u \in Threads, u # t, PoolCallKept(u),
           pc'[u] = pc[u], \A v \in Threads : v # t => call'[v] = call[v],
           call'[t].pool = None \/ pc[u] \notin Owning \/ call'[t].pool # call[u].pool,
           call[u].pool # None =>
               /\ appPools'[call[u].pool] = appPools[call[u].pool]
               /\ fakePools'[call[u].pool] = fakePools[call[u].pool]
               /\ driverPools'[call[u].pool] = driverPools[call[u].pool]
               /\ call[u].pool \in heap' <=> call[u].pool \in heap
               /\ realPools[call[u].pool] = call[u].device =>
                      realPools'[call[u].pool] = realPools[call[u].pool]
               /\ devices'[call[u].device] = devices[call[u].device]
    PROVE  PoolCallKept(u)'
<1>1. pc[u] \in Owning \union Looking => call[u].pool # None
  BY DEF PoolCallKept
<1>2. CASE call[u].pool = None
  BY <1>1, <1>2 DEF PoolCallKept, Owning, Looking
<1>3. CASE call[u].pool # None
  <2>1. call'[u] = call[u]
    OBVIOUS
  <2>2. QueryHooks(call[u].device)' <=> QueryHooks(call[u].device)
    BY <1>3, <2>1 DEF QueryHooks
  <2>3. /\ Real(call[u].pool, call[u].device)' <=> Real(call[u].pool, call[u].device)
        /\ Known(call[u].pool, call[u].device) => Known(call[u].pool, call[u].device)'
    BY <1>3, <2>1, <2>2 DEF Real, Known
  <2> QED BY <1>3, <2>1, <2>2, <2>3 DEF PoolCallKept, Owning
<1> QED BY <1>2, <1>3

(* A step that leaves the pools and the hooks as they are, of a thread     *)
(* that has no pool afterwards.                                            *)
PoolQuiet(t) ==
    /\ UNCHANGED <<devices, heap, fakePools, realPools, driverPools, appPools>>
    /\ \A u \in Threads : u # t => pc'[u] = pc[u] /\ call'[u] = call[u]
    /\ call'[t].pool = None /\ pc'[t] \notin Owning \union Looking \union {"dropped"}

(* A step that leaves the pools alone keeps the invariant.                 *)
LEMMA PoolQuietKeeps ==
    ASSUME PoolsInv, NEW t \in Threads, PoolQuiet(t)
    PROVE  PoolsInv'
<1>1. HeapKept' /\ PoolsKept'
  BY DEF PoolsInv, HeapKept, PoolsKept, PoolQuiet, Known, Real, QueryHooks
<1>2. PoolCallKept(t)'
  BY DEF PoolQuiet, PoolCallKept, Owning, Looking
<1>3. ASSUME NEW u \in Threads, u # t PROVE PoolCallKept(u)'
  BY <1>3, PoolOthersKept DEF PoolsInv, PoolQuiet
<1> QED BY <1>1, <1>2, <1>3 DEF PoolsInv

(* Every step keeps the pools.                                             *)
LEMMA PoolsStep ==
    ASSUME EmulationTypeOK, DevicesInv, PoolsInv, EmulationNext
    PROVE  PoolsInv'
<1> USE DEF profileVars, registry, driver, app
<1>0. /\ DOMAIN pc = Threads /\ DOMAIN call = Threads
      /\ \A t \in Threads : call[t] \in Calls
      /\ devices \in [Devices -> Selections \union {None}]
      /\ fakePools \in [Pools -> Devices \union {None}]
      /\ realPools \in [Pools -> Devices \union {None}]
      /\ driverPools \in [Pools -> Devices \union {None}]
      /\ appPools \in [Pools -> Devices \union {None}]
      /\ None \notin Devices /\ None \notin Pools
  BY EmulationAssumption DEF EmulationTypeOK, CallsTypeOK, AppTypeOK, DriverTypeOK, RegistryTypeOK
<1>kept. /\ HeapKept /\ PoolsKept
         /\ \A t \in Threads : pc[t] \notin Owning \union Looking => call[t].pool = None
         /\ \A t \in Threads : call[t].pool # None => call[t].pool \in heap \/ driverPools[call[t].pool] # None
  BY PoolInUse DEF PoolsInv, PoolCallKept
<1>1. CASE InstanceStep
  <2>1. ASSUME NEW i \in Instances, NEW engine \in Engines, RegisterInstance(i, engine),
               UNCHANGED <<registry, driver, app, pc, call>>
        PROVE  PoolsInv'
    BY <2>1 DEF PoolsInv, HeapKept, PoolsKept, PoolCallKept, Known, Real, QueryHooks
  <2>2. ASSUME NEW i \in Instances, EnumeratePhysicalDevices(i),
               UNCHANGED <<registry, driver, app, pc, call>>
        PROVE  PoolsInv'
    BY <2>2 DEF PoolsInv, HeapKept, PoolsKept, PoolCallKept, Known, Real, QueryHooks
  <2>3. ASSUME NEW i \in Instances, AskPhysicalDevice(i), UNCHANGED <<registry, driver, app, pc, call>>
        PROVE  PoolsInv'
    BY <2>3 DEF PoolsInv, HeapKept, PoolsKept, PoolCallKept, Known, Real, QueryHooks
  <2> QED BY <1>1, <2>1, <2>2, <2>3 DEF InstanceStep
<1>2. ASSUME NEW t \in Threads, DeviceStep(t) PROVE PoolsInv'
  <2>1. ASSUME NEW i \in Instances, NEW want \in Wanted, NEW wellKnown \in BOOLEAN, told[i] # None,
               CreateDevice(t, i, Enables(i, want), told[i].extensions, wellKnown)
        PROVE  PoolsInv'
    <3>1. PoolQuiet(t)
      BY <2>1, <1>0, <1>kept
      DEF CreateDevice, Call, Goto, PoolQuiet, Owning, Looking, NoCall
    <3> QED BY <3>1, PoolQuietKeeps
  <2>2. CASE DriverRefusesDevice(t)
    <3>1. call[t].pool = None
      BY <2>2, <1>kept DEF DriverRefusesDevice, Owning, Looking
    <3>2. call'[t].pool = None /\ \A u \in Threads : u # t => pc'[u] = pc[u] /\ call'[u] = call[u]
      BY <2>2, <1>0, <3>1 DEF DriverRefusesDevice, Finish, Goto, NoCall, Calls
    <3>3. PoolQuiet(t)
      BY <2>2, <1>0, <3>2 DEF DriverRefusesDevice, Finish, Goto, PoolQuiet, Owning, Looking
    <3> QED BY <3>3, PoolQuietKeeps
  <2>3. CASE RegisterDevice(t)
    <3>0. /\ call[t].device \in Devices /\ call[t].device # None /\ appDevices[call[t].device] = None
          /\ \A u \in Threads : u # t => call[u].device # call[t].device
          /\ \A p \in Pools : appPools[p] # call[t].device
          /\ call[t].pool = None
      BY <2>3, <1>0, <1>kept, CallTypes
         DEF RegisterDevice, DevicesInv, CallsKept, CallKept, ChildrenKept, Alone, Owning, Looking
    <3>apart. ASSUME NEW u \in Threads, u # t, call[u].pool # None
              PROVE  /\ call[u].device \in Devices /\ call[u].device # call[t].device
                     /\ fakePools[call[u].pool] # call[t].device
                     /\ realPools[call[u].pool] = call[u].device => realPools[call[u].pool] # call[t].device
      <4>1. /\ pc[u] \in Owning \union Looking /\ PoolCallKept(u) /\ call[u].pool \in Pools
            /\ call[u].device \in Devices /\ call[u].device # call[t].device
            /\ pc[u] \in Looking => Known(call[u].pool, call[u].device)
        BY <3>0, <3>apart, PoolInUse DEF PoolsInv
      <4> QED BY <1>0, <1>kept, <3>0, <4>1 DEF PoolCallKept, HeapKept, Owning, Known, Real
    <3>1. /\ pc' = [pc EXCEPT ![t] = "idle"] /\ pc'[t] = "idle" /\ call' = [call EXCEPT ![t] = NoCall]
          /\ call'[t].pool = None
          /\ \A e \in Devices : e # call[t].device => devices'[e] = devices[e]
          /\ UNCHANGED <<heap, fakePools, realPools, driverPools, appPools>>
      BY <2>3, <1>0, <1>kept, <3>0 DEF RegisterDevice, Finish, Goto, NoCall
    <3>2. HeapKept'
      BY <1>0, <1>kept, <3>0, <3>1 DEF HeapKept
    <3>3. PoolsKept'
      BY <1>0, <1>kept, <3>0, <3>1 DEF PoolsKept, HeapKept, Known, Real, QueryHooks
    <3>4. PoolCallKept(t)'
      BY <1>0, <1>kept, <3>0, <3>1
         DEF PoolCallKept, PoolsKept, HeapKept, Owning, Looking, Known, Real, QueryHooks
    <3>5. ASSUME NEW u \in Threads, u # t PROVE PoolCallKept(u)'
      <4>1. /\ PoolCallKept(u) /\ pc'[u] = pc[u] /\ \A v \in Threads : v # t => call'[v] = call[v]
            /\ call[u].pool \in Pools \union {None} /\ call[u].device \in Devices \union {None}
        BY <1>0, <3>1, <3>5, CallTypes DEF PoolsInv
      <4>2. /\ call'[t].pool = None \/ pc[u] \notin Owning \/ call'[t].pool # call[u].pool
            /\ call[u].pool # None =>
                   /\ appPools'[call[u].pool] = appPools[call[u].pool]
                   /\ fakePools'[call[u].pool] = fakePools[call[u].pool]
                   /\ driverPools'[call[u].pool] = driverPools[call[u].pool]
                   /\ call[u].pool \in heap' <=> call[u].pool \in heap
                   /\ realPools[call[u].pool] = call[u].device =>
                          realPools'[call[u].pool] = realPools[call[u].pool]
                   /\ devices'[call[u].device] = devices[call[u].device]
        BY <1>0, <3>0, <3>apart, <3>1, <3>5, <4>1
      <4> QED BY <3>5, <4>1, <4>2, PoolOthersKept
    <3> QED BY <3>2, <3>3, <3>4, <3>5 DEF PoolsInv
  <2>4. CASE UnregisterDevice(t)
    <3>0. /\ call[t].device \in Devices /\ call[t].device # None /\ appDevices[call[t].device] = None
          /\ \A u \in Threads : u # t => call[u].device # call[t].device
          /\ \A p \in Pools : appPools[p] # call[t].device
          /\ call[t].pool = None
      BY <2>4, <1>0, <1>kept, CallTypes
         DEF UnregisterDevice, DevicesInv, CallsKept, CallKept, ChildrenKept, Alone, Owning, Looking
    <3>apart. ASSUME NEW u \in Threads, u # t, call[u].pool # None
              PROVE  /\ call[u].device \in Devices /\ call[u].device # call[t].device
                     /\ fakePools[call[u].pool] # call[t].device
                     /\ realPools[call[u].pool] = call[u].device => realPools[call[u].pool] # call[t].device
      <4>1. /\ pc[u] \in Owning \union Looking /\ PoolCallKept(u) /\ call[u].pool \in Pools
            /\ call[u].device \in Devices /\ call[u].device # call[t].device
            /\ pc[u] \in Looking => Known(call[u].pool, call[u].device)
        BY <3>0, <3>apart, PoolInUse DEF PoolsInv
      <4> QED BY <1>0, <1>kept, <3>0, <4>1 DEF PoolCallKept, HeapKept, Owning, Known, Real
    <3>1. /\ pc'[t] = "destroy_device" /\ pc' = [pc EXCEPT ![t] = "destroy_device"] /\ UNCHANGED call
          /\ call'[t].pool = None
          /\ \A e \in Devices : e # call[t].device => devices'[e] = devices[e]
          /\ \A p \in Pools : /\ realPools'[p] = IF realPools[p] = call[t].device THEN None ELSE realPools[p]
                              /\ fakePools'[p] = IF fakePools[p] = call[t].device THEN None ELSE fakePools[p]
                              /\ p \in heap' <=> p \in heap /\ fakePools[p] # call[t].device
          /\ UNCHANGED <<driverPools, appPools>>
      BY <2>4, <1>0, <1>kept, <3>0 DEF UnregisterDevice, ForgetDevice, Goto
    <3>2. HeapKept'
      BY <1>0, <1>kept, <3>0, <3>1 DEF HeapKept
    <3>3. PoolsKept'
      BY <1>0, <1>kept, <3>0, <3>1 DEF PoolsKept, HeapKept, Known, Real, QueryHooks
    <3>4. PoolCallKept(t)'
      BY <1>0, <1>kept, <3>0, <3>1
         DEF PoolCallKept, PoolsKept, HeapKept, Owning, Looking, Known, Real, QueryHooks
    <3>5. ASSUME NEW u \in Threads, u # t PROVE PoolCallKept(u)'
      <4>1. /\ PoolCallKept(u) /\ pc'[u] = pc[u] /\ \A v \in Threads : v # t => call'[v] = call[v]
            /\ call[u].pool \in Pools \union {None} /\ call[u].device \in Devices \union {None}
        BY <1>0, <3>1, <3>5, CallTypes DEF PoolsInv
      <4>2. /\ call'[t].pool = None \/ pc[u] \notin Owning \/ call'[t].pool # call[u].pool
            /\ call[u].pool # None =>
                   /\ appPools'[call[u].pool] = appPools[call[u].pool]
                   /\ fakePools'[call[u].pool] = fakePools[call[u].pool]
                   /\ driverPools'[call[u].pool] = driverPools[call[u].pool]
                   /\ call[u].pool \in heap' <=> call[u].pool \in heap
                   /\ realPools[call[u].pool] = call[u].device =>
                          realPools'[call[u].pool] = realPools[call[u].pool]
                   /\ devices'[call[u].device] = devices[call[u].device]
        BY <1>0, <3>0, <3>apart, <3>1, <3>5, <4>1
      <4> QED BY <3>5, <4>1, <4>2, PoolOthersKept
    <3> QED BY <3>2, <3>3, <3>4, <3>5 DEF PoolsInv
  <2>5. CASE DriverDestroysDevice(t)
    <3>1. call[t].pool = None
      BY <2>5, <1>kept DEF DriverDestroysDevice, Owning, Looking
    <3>2. call'[t].pool = None /\ \A u \in Threads : u # t => pc'[u] = pc[u] /\ call'[u] = call[u]
      BY <2>5, <1>0, <3>1 DEF DriverDestroysDevice, Finish, Goto, NoCall, Calls
    <3>3. PoolQuiet(t)
      BY <2>5, <1>0, <3>2 DEF DriverDestroysDevice, Finish, Goto, PoolQuiet, Owning, Looking
    <3> QED BY <3>3, PoolQuietKeeps
  <2>6. ASSUME NEW d \in Devices, DriverCreatesDevice(t, d) PROVE PoolsInv'
    <3>1. call[t].pool = None
      BY <2>6, <1>kept DEF DriverCreatesDevice, Owning, Looking
    <3>2. call'[t].pool = None /\ \A u \in Threads : u # t => pc'[u] = pc[u] /\ call'[u] = call[u]
      BY <2>6, <1>0, <3>1 DEF DriverCreatesDevice, Goto, NoCall, Calls
    <3>3. PoolQuiet(t)
      BY <2>6, <1>0, <3>2 DEF DriverCreatesDevice, Goto, PoolQuiet, Owning, Looking
    <3> QED BY <3>3, PoolQuietKeeps
  <2>7. ASSUME NEW d \in Devices, DestroyDevice(t, d) PROVE PoolsInv'
    <3>1. PoolQuiet(t)
      BY <2>7, <1>0, <1>kept
      DEF DestroyDevice, Call, Goto, PoolQuiet, Owning, Looking, NoCall
    <3> QED BY <3>1, PoolQuietKeeps
  <2>8. ASSUME NEW d \in Devices, GetDeviceQueue(t, d) PROVE PoolsInv'
    <3>1. call[t].pool = None
      BY <2>8, <1>kept DEF GetDeviceQueue, Owning, Looking
    <3>2. call'[t].pool = None /\ \A u \in Threads : u # t => pc'[u] = pc[u] /\ call'[u] = call[u]
      BY <2>8, <1>0, <3>1 DEF GetDeviceQueue, NoCall, Calls
    <3>3. PoolQuiet(t)
      BY <2>8, <1>0, <3>2 DEF GetDeviceQueue, PoolQuiet, Owning, Looking
    <3> QED BY <3>3, PoolQuietKeeps
  <2> QED BY <1>2, <2>1, <2>2, <2>3, <2>4, <2>5, <2>6, <2>7, <2>8 DEF DeviceStep
<1>3. ASSUME NEW t \in Threads, ResourceStep(t) PROVE PoolsInv'
  <2>1. ASSUME NEW d \in Devices, NEW sparse \in BOOLEAN, CreateBuffer(t, d, sparse)
        PROVE  PoolsInv'
    <3>1. PoolQuiet(t)
      BY <2>1, <1>0, <1>kept
      DEF CreateBuffer, CreateResource, Call, Goto, PoolQuiet, Owning, Looking, NoCall
    <3> QED BY <3>1, PoolQuietKeeps
  <2>2. ASSUME NEW d \in Devices, NEW sparse \in BOOLEAN, NEW plain2d \in BOOLEAN,
               CreateImage(t, d, sparse, plain2d)
        PROVE  PoolsInv'
    <3>1. PoolQuiet(t)
      BY <2>2, <1>0, <1>kept
      DEF CreateImage, CreateResource, Call, Goto, PoolQuiet, Owning, Looking, NoCall
    <3> QED BY <3>1, PoolQuietKeeps
  <2>3. ASSUME NEW r \in Resources, DriverCreatesResource(t, r) PROVE PoolsInv'
    <3>1. call[t].pool = None
      BY <2>3, <1>kept DEF DriverCreatesResource, Owning, Looking
    <3>2. call'[t].pool = None /\ \A u \in Threads : u # t => pc'[u] = pc[u] /\ call'[u] = call[u]
      BY <2>3, <1>0, <3>1 DEF DriverCreatesResource, Finish, Goto, NoCall, Calls
    <3>3. PoolQuiet(t)
      BY <2>3, <1>0, <3>2 DEF DriverCreatesResource, Finish, Goto, PoolQuiet, Owning, Looking
    <3> QED BY <3>3, PoolQuietKeeps
  <2>4. ASSUME NEW r \in Buffers, DestroyBuffer(t, r) PROVE PoolsInv'
    <3>1. PoolQuiet(t)
      BY <2>4, <1>0, <1>kept
      DEF DestroyBuffer, DestroyResource, Call, Goto, PoolQuiet, Owning, Looking, NoCall
    <3> QED BY <3>1, PoolQuietKeeps
  <2>5. ASSUME NEW r \in Images, DestroyImage(t, r) PROVE PoolsInv'
    <3>1. PoolQuiet(t)
      BY <2>5, <1>0, <1>kept
      DEF DestroyImage, DestroyResource, Call, Goto, PoolQuiet, Owning, Looking, NoCall
    <3> QED BY <3>1, PoolQuietKeeps
  <2>6. ASSUME NEW r \in Images, GetImageSparseMemoryRequirements(t, r) PROVE PoolsInv'
    <3>1. PoolQuiet(t)
      BY <2>6, <1>0, <1>kept
      DEF GetImageSparseMemoryRequirements, Call, Goto, PoolQuiet, Owning, Looking, NoCall
    <3> QED BY <3>1, PoolQuietKeeps
  <2>7. ASSUME NEW size \in Sizes, Reserve(t, size) PROVE PoolsInv'
    <3>1. call[t].pool = None
      BY <2>7, <1>kept DEF Reserve, Owning, Looking
    <3>2. call'[t].pool = None /\ \A u \in Threads : u # t => pc'[u] = pc[u] /\ call'[u] = call[u]
      BY <2>7, <1>0, <3>1 DEF Reserve, Goto, NoCall, Calls
    <3>3. PoolQuiet(t)
      BY <2>7, <1>0, <3>2 DEF Reserve, Goto, PoolQuiet, Owning, Looking
    <3> QED BY <3>3, PoolQuietKeeps
  <2>8. CASE Allocate(t)
    <3>1. call[t].pool = None
      BY <2>8, <1>kept DEF Allocate, Owning, Looking
    <3>2. call'[t].pool = None /\ \A u \in Threads : u # t => pc'[u] = pc[u] /\ call'[u] = call[u]
      BY <2>8, <1>0, <3>1 DEF Allocate, Goto, NoCall, Calls
    <3>3. PoolQuiet(t)
      BY <2>8, <1>0, <3>2 DEF Allocate, Goto, PoolQuiet, Owning, Looking
    <3> QED BY <3>3, PoolQuietKeeps
  <2>9. CASE Bind(t)
    <3>1. call[t].pool = None
      BY <2>9, <1>kept DEF Bind, Owning, Looking
    <3>2. call'[t].pool = None /\ \A u \in Threads : u # t => pc'[u] = pc[u] /\ call'[u] = call[u]
      BY <2>9, <1>0, <3>1 DEF Bind, Goto, NoCall, Calls
    <3>3. PoolQuiet(t)
      BY <2>9, <1>0, <3>2 DEF Bind, Goto, PoolQuiet, Owning, Looking
    <3> QED BY <3>3, PoolQuietKeeps
  <2>10. CASE ReleaseBudget(t)
    <3>1. call[t].pool = None
      BY <2>10, <1>kept DEF ReleaseBudget, Owning, Looking
    <3>2. call'[t].pool = None /\ \A u \in Threads : u # t => pc'[u] = pc[u] /\ call'[u] = call[u]
      BY <2>10, <1>0, <3>1 DEF ReleaseBudget, Released, Finish, Goto, NoCall, Calls
    <3>3. PoolQuiet(t)
      BY <2>10, <1>0, <3>2 DEF ReleaseBudget, Released, Finish, Goto, PoolQuiet, Owning, Looking
    <3> QED BY <3>3, PoolQuietKeeps
  <2>11. CASE Undo(t)
    <3>1. call[t].pool = None
      BY <2>11, <1>kept DEF Undo, Owning, Looking
    <3>2. call'[t].pool = None /\ \A u \in Threads : u # t => pc'[u] = pc[u] /\ call'[u] = call[u]
      BY <2>11, <1>0, <3>1 DEF Undo, Finish, Goto, NoCall, Calls
    <3>3. PoolQuiet(t)
      BY <2>11, <1>0, <3>2 DEF Undo, Finish, Goto, PoolQuiet, Owning, Looking
    <3> QED BY <3>3, PoolQuietKeeps
  <2>12. CASE Record(t)
    <3>1. call[t].pool = None
      BY <2>12, <1>kept DEF Record, Owning, Looking
    <3>2. call'[t].pool = None /\ \A u \in Threads : u # t => pc'[u] = pc[u] /\ call'[u] = call[u]
      BY <2>12, <1>0, <3>1 DEF Record, Finish, Goto, NoCall, Calls
    <3>3. PoolQuiet(t)
      BY <2>12, <1>0, <3>2 DEF Record, Finish, Goto, PoolQuiet, Owning, Looking
    <3> QED BY <3>3, PoolQuietKeeps
  <2>13. CASE DriverDestroysResource(t)
    <3>1. call[t].pool = None
      BY <2>13, <1>kept DEF DriverDestroysResource, Owning, Looking
    <3>2. call'[t].pool = None /\ \A u \in Threads : u # t => pc'[u] = pc[u] /\ call'[u] = call[u]
      BY <2>13, <1>0, <3>1 DEF DriverDestroysResource, Finish, Goto, NoCall, Calls
    <3>3. PoolQuiet(t)
      BY <2>13, <1>0, <3>2 DEF DriverDestroysResource, Finish, Goto, PoolQuiet, Owning, Looking
    <3> QED BY <3>3, PoolQuietKeeps
  <2>14. CASE FreeMemory(t)
    <3>1. call[t].pool = None
      BY <2>14, <1>kept DEF FreeMemory, Owning, Looking
    <3>2. call'[t].pool = None /\ \A u \in Threads : u # t => pc'[u] = pc[u] /\ call'[u] = call[u]
      BY <2>14, <1>0, <3>1 DEF FreeMemory, Goto, NoCall, Calls
    <3>3. PoolQuiet(t)
      BY <2>14, <1>0, <3>2 DEF FreeMemory, Goto, PoolQuiet, Owning, Looking
    <3> QED BY <3>3, PoolQuietKeeps
  <2> QED BY <1>3, <2>1, <2>2, <2>3, <2>4, <2>5, <2>6, <2>7, <2>8, <2>9, <2>10, <2>11, <2>12,
             <2>13, <2>14 DEF ResourceStep
<1>4. ASSUME NEW t \in Threads, PoolStep(t) PROVE PoolsInv'
  <2>1. ASSUME NEW d \in Devices, NEW p \in Pools, NewFakePool(t, d, p) PROVE PoolsInv'
    <3>1. /\ QueryHooks(d) /\ d # None
          /\ p \notin heap /\ driverPools[p] = None /\ fakePools[p] = None
          /\ appPools[p] = None /\ \A u \in Threads : call[u].pool # p
          /\ pc' = [pc EXCEPT ![t] = "emplace_pool"] /\ pc'[t] = "emplace_pool"
          /\ call' = [call EXCEPT ![t] = [NoCall EXCEPT !.device = d, !.pool = p]]
          /\ call'[t].pool = p /\ call'[t].device = d
          /\ heap' = heap \union {p}
          /\ UNCHANGED <<devices, fakePools, realPools, driverPools, appPools>>
      BY <2>1, <1>0, <1>kept DEF NewFakePool, Unused, Call, Goto, NoCall, HeapKept, PoolsKept,
                              Known, Real
    <3>2. HeapKept'
      BY <1>0, <1>kept, <3>1 DEF HeapKept
    <3>3. PoolsKept'
      BY <1>0, <1>kept, <3>1 DEF PoolsKept, HeapKept, Known, Real, QueryHooks
    <3>4. PoolCallKept(t)'
      BY <1>0, <1>kept, <3>1
         DEF PoolCallKept, PoolsKept, HeapKept, Owning, Looking, Known, Real, QueryHooks
    <3>5. ASSUME NEW u \in Threads, u # t PROVE PoolCallKept(u)'
      <4>1. /\ PoolCallKept(u) /\ pc'[u] = pc[u] /\ \A v \in Threads : v # t => call'[v] = call[v]
            /\ call[u].pool \in Pools \union {None} /\ call[u].device \in Devices \union {None}
        BY <1>0, <3>1, <3>5, CallTypes DEF PoolsInv
      <4>2. /\ call'[t].pool = None \/ pc[u] \notin Owning \/ call'[t].pool # call[u].pool
            /\ call[u].pool # None =>
                   /\ appPools'[call[u].pool] = appPools[call[u].pool]
                   /\ fakePools'[call[u].pool] = fakePools[call[u].pool]
                   /\ driverPools'[call[u].pool] = driverPools[call[u].pool]
                   /\ call[u].pool \in heap' <=> call[u].pool \in heap
                   /\ realPools[call[u].pool] = call[u].device =>
                          realPools'[call[u].pool] = realPools[call[u].pool]
                   /\ devices'[call[u].device] = devices[call[u].device]
        BY <1>0, <3>1, <3>5, <4>1
      <4> QED BY <3>5, <4>1, <4>2, PoolOthersKept
    <3> QED BY <3>2, <3>3, <3>4, <3>5 DEF PoolsInv
  <2>2. ASSUME NEW d \in Devices, NEW statistics \in BOOLEAN, CreatePool(t, d, statistics)
        PROVE  PoolsInv'
    <3>1. PoolQuiet(t)
      BY <2>2, <1>0, <1>kept
      DEF CreatePool, Call, Goto, PoolQuiet, Owning, Looking, NoCall
    <3> QED BY <3>1, PoolQuietKeeps
  <2>3. ASSUME NEW p \in Pools, DriverCreatesPool(t, p) PROVE PoolsInv'
    <3>0. call[t].device \in Devices /\ call[t].device # None
      BY <2>3, <1>0, CallTypes DEF DriverCreatesPool, DevicesInv, CallsKept, CallKept
    <3>apart. /\ p \notin heap /\ driverPools[p] = None /\ fakePools[p] = None
              /\ appPools[p] = None /\ \A u \in Threads : call[u].pool # p
      BY <2>3, <1>0, <1>kept DEF DriverCreatesPool, Unused, HeapKept, PoolsKept, Known, Real
    <3>yes. CASE QueryHooks(call[t].device)
      <4>1. /\ pc' = [pc EXCEPT ![t] = "record_pool"] /\ pc'[t] = "record_pool"
            /\ call' = [call EXCEPT ![t].pool = p]
            /\ call'[t].pool = p /\ call'[t].device = call[t].device
            /\ p \notin heap /\ driverPools[p] = None /\ fakePools[p] = None
            /\ appPools[p] = None /\ \A u \in Threads : call[u].pool # p
            /\ call[t].device # None
            /\ driverPools' = [driverPools EXCEPT ![p] = call[t].device]
            /\ UNCHANGED <<devices, heap, fakePools, realPools, appPools>>
        BY <2>3, <1>0, <1>kept, <3>0, <3>apart, <3>yes DEF DriverCreatesPool, Goto, Calls
      <4>2. HeapKept'
        BY <1>0, <1>kept, <4>1 DEF HeapKept
      <4>3. PoolsKept'
        BY <1>0, <1>kept, <4>1 DEF PoolsKept, HeapKept, Known, Real, QueryHooks
      <4>4. PoolCallKept(t)'
        BY <1>0, <1>kept, <4>1
           DEF PoolCallKept, PoolsKept, HeapKept, Owning, Looking, Known, Real, QueryHooks
      <4>5. ASSUME NEW u \in Threads, u # t PROVE PoolCallKept(u)'
        <5>1. /\ PoolCallKept(u) /\ pc'[u] = pc[u] /\ \A v \in Threads : v # t => call'[v] = call[v]
              /\ call[u].pool \in Pools \union {None} /\ call[u].device \in Devices \union {None}
          BY <1>0, <4>1, <4>5, CallTypes DEF PoolsInv
        <5>2. /\ call'[t].pool = None \/ pc[u] \notin Owning \/ call'[t].pool # call[u].pool
              /\ call[u].pool # None =>
                     /\ appPools'[call[u].pool] = appPools[call[u].pool]
                     /\ fakePools'[call[u].pool] = fakePools[call[u].pool]
                     /\ driverPools'[call[u].pool] = driverPools[call[u].pool]
                     /\ call[u].pool \in heap' <=> call[u].pool \in heap
                     /\ realPools[call[u].pool] = call[u].device =>
                            realPools'[call[u].pool] = realPools[call[u].pool]
                     /\ devices'[call[u].device] = devices[call[u].device]
          BY <1>0, <4>1, <4>5, <5>1
        <5> QED BY <4>5, <5>1, <5>2, PoolOthersKept
      <4> QED BY <4>2, <4>3, <4>4, <4>5 DEF PoolsInv
    <3>no. CASE ~QueryHooks(call[t].device)
      <4>1. /\ pc' = [pc EXCEPT ![t] = "idle"] /\ pc'[t] = "idle" /\ call' = [call EXCEPT ![t] = NoCall]
            /\ call'[t].pool = None
            /\ p \notin heap /\ driverPools[p] = None /\ fakePools[p] = None
            /\ appPools[p] = None /\ \A u \in Threads : call[u].pool # p
            /\ call[t].device # None /\ ~QueryHooks(call[t].device)
            /\ driverPools' = [driverPools EXCEPT ![p] = call[t].device]
            /\ appPools' = [appPools EXCEPT ![p] = call[t].device]
            /\ UNCHANGED <<devices, heap, fakePools, realPools>>
        BY <2>3, <1>0, <1>kept, <3>0, <3>apart, <3>no DEF DriverCreatesPool, GivePool, Finish, Goto,
                                                   NoCall
      <4>2. HeapKept'
        BY <1>0, <1>kept, <4>1 DEF HeapKept
      <4>3. PoolsKept'
        BY <1>0, <1>kept, <4>1 DEF PoolsKept, HeapKept, Known, Real, QueryHooks
      <4>4. PoolCallKept(t)'
        BY <1>0, <1>kept, <4>1
           DEF PoolCallKept, PoolsKept, HeapKept, Owning, Looking, Known, Real, QueryHooks
      <4>5. ASSUME NEW u \in Threads, u # t PROVE PoolCallKept(u)'
        <5>1. /\ PoolCallKept(u) /\ pc'[u] = pc[u] /\ \A v \in Threads : v # t => call'[v] = call[v]
              /\ call[u].pool \in Pools \union {None} /\ call[u].device \in Devices \union {None}
          BY <1>0, <4>1, <4>5, CallTypes DEF PoolsInv
        <5>2. /\ call'[t].pool = None \/ pc[u] \notin Owning \/ call'[t].pool # call[u].pool
              /\ call[u].pool # None =>
                     /\ appPools'[call[u].pool] = appPools[call[u].pool]
                     /\ fakePools'[call[u].pool] = fakePools[call[u].pool]
                     /\ driverPools'[call[u].pool] = driverPools[call[u].pool]
                     /\ call[u].pool \in heap' <=> call[u].pool \in heap
                     /\ realPools[call[u].pool] = call[u].device =>
                            realPools'[call[u].pool] = realPools[call[u].pool]
                     /\ devices'[call[u].device] = devices[call[u].device]
          BY <1>0, <4>1, <4>5, <5>1
        <5> QED BY <4>5, <5>1, <5>2, PoolOthersKept
      <4> QED BY <4>2, <4>3, <4>4, <4>5 DEF PoolsInv
    <3> QED BY <3>yes, <3>no
  <2>4. ASSUME NEW p \in Pools, DestroyPool(t, p) PROVE PoolsInv'
    <3>1. /\ pc'[t] = (IF QueryHooks(appPools[p]) THEN "forget_pool" ELSE "destroy_pool")
          /\ pc' = [pc EXCEPT ![t] = pc'[t]]
          /\ call' = [call EXCEPT ![t] = [NoCall EXCEPT !.device = appPools[p], !.pool = p]]
          /\ call'[t].pool = p /\ call'[t].device = appPools[p]
          /\ appPools[p] # None /\ Known(p, appPools[p]) /\ \A u \in Threads : call[u].pool # p
          /\ appPools' = [appPools EXCEPT ![p] = None]
          /\ UNCHANGED <<devices, heap, fakePools, realPools, driverPools>>
      BY <2>4, <1>0, <1>kept DEF DestroyPool, PoolUsers, Call, Goto, NoCall, PoolsKept
    <3>2. HeapKept'
      BY <1>0, <1>kept, <3>1 DEF HeapKept
    <3>3. PoolsKept'
      BY <1>0, <1>kept, <3>1 DEF PoolsKept, HeapKept, Known, Real, QueryHooks
    <3>4. PoolCallKept(t)'
      BY <1>0, <1>kept, <3>1
         DEF PoolCallKept, PoolsKept, HeapKept, Owning, Looking, Known, Real, QueryHooks
    <3>5. ASSUME NEW u \in Threads, u # t PROVE PoolCallKept(u)'
      <4>1. /\ PoolCallKept(u) /\ pc'[u] = pc[u] /\ \A v \in Threads : v # t => call'[v] = call[v]
            /\ call[u].pool \in Pools \union {None} /\ call[u].device \in Devices \union {None}
        BY <1>0, <3>1, <3>5, CallTypes DEF PoolsInv
      <4>2. /\ call'[t].pool = None \/ pc[u] \notin Owning \/ call'[t].pool # call[u].pool
            /\ call[u].pool # None =>
                   /\ appPools'[call[u].pool] = appPools[call[u].pool]
                   /\ fakePools'[call[u].pool] = fakePools[call[u].pool]
                   /\ driverPools'[call[u].pool] = driverPools[call[u].pool]
                   /\ call[u].pool \in heap' <=> call[u].pool \in heap
                   /\ realPools[call[u].pool] = call[u].device =>
                          realPools'[call[u].pool] = realPools[call[u].pool]
                   /\ devices'[call[u].device] = devices[call[u].device]
        BY <1>0, <3>1, <3>5, <4>1
      <4> QED BY <3>5, <4>1, <4>2, PoolOthersKept
    <3> QED BY <3>2, <3>3, <3>4, <3>5 DEF PoolsInv
  <2>5. ASSUME NEW p \in Pools, NEW indexed \in BOOLEAN, PoolCommand(t, p, indexed) PROVE PoolsInv'
    <3>0. \A u \in Threads : pc[u] \in Owning => call[u].pool # p
      BY <2>5 DEF PoolCommand, PoolsInv, PoolCallKept
    <3>1. /\ pc'[t] = (IF indexed THEN "indexed_at_driver"
                     ELSE IF QueryHooks(appPools[p]) THEN "find_fake" ELSE "pool_at_driver")
          /\ pc' = [pc EXCEPT ![t] = pc'[t]]
          /\ call' = [call EXCEPT ![t] = [NoCall EXCEPT !.device = appPools[p], !.pool = p]]
          /\ call'[t].pool = p /\ call'[t].device = appPools[p]
          /\ appPools[p] # None /\ Known(p, appPools[p])
          /\ \A u \in Threads : pc[u] \in Owning => call[u].pool # p
          /\ UNCHANGED <<devices, heap, fakePools, realPools, driverPools, appPools>>
      BY <2>5, <1>0, <1>kept, <3>0 DEF PoolCommand, Call, Goto, NoCall, PoolsKept
    <3>2. HeapKept'
      BY <1>0, <1>kept, <3>1 DEF HeapKept
    <3>3. PoolsKept'
      BY <1>0, <1>kept, <3>1 DEF PoolsKept, HeapKept, Known, Real, QueryHooks
    <3>4. PoolCallKept(t)'
      BY <1>0, <1>kept, <3>1
         DEF PoolCallKept, PoolsKept, HeapKept, Owning, Looking, Known, Real, QueryHooks
    <3>5. ASSUME NEW u \in Threads, u # t PROVE PoolCallKept(u)'
      <4>1. /\ PoolCallKept(u) /\ pc'[u] = pc[u] /\ \A v \in Threads : v # t => call'[v] = call[v]
            /\ call[u].pool \in Pools \union {None} /\ call[u].device \in Devices \union {None}
        BY <1>0, <3>1, <3>5, CallTypes DEF PoolsInv
      <4>2. /\ call'[t].pool = None \/ pc[u] \notin Owning \/ call'[t].pool # call[u].pool
            /\ call[u].pool # None =>
                   /\ appPools'[call[u].pool] = appPools[call[u].pool]
                   /\ fakePools'[call[u].pool] = fakePools[call[u].pool]
                   /\ driverPools'[call[u].pool] = driverPools[call[u].pool]
                   /\ call[u].pool \in heap' <=> call[u].pool \in heap
                   /\ realPools[call[u].pool] = call[u].device =>
                          realPools'[call[u].pool] = realPools[call[u].pool]
                   /\ devices'[call[u].device] = devices[call[u].device]
        BY <1>0, <3>1, <3>5, <4>1
      <4> QED BY <3>5, <4>1, <4>2, PoolOthersKept
    <3> QED BY <3>2, <3>3, <3>4, <3>5 DEF PoolsInv
  <2>6. ASSUME NEW p \in Pools, GetQueryPoolResults(t, p) PROVE PoolsInv'
    <3>0. \A u \in Threads : pc[u] \in Owning => call[u].pool # p
      BY <2>6 DEF GetQueryPoolResults, PoolsInv, PoolCallKept
    <3>1. /\ pc'[t] = (IF QueryHooks(appPools[p]) THEN "results" ELSE "pool_at_driver")
          /\ pc' = [pc EXCEPT ![t] = pc'[t]]
          /\ call' = [call EXCEPT ![t] = [NoCall EXCEPT !.device = appPools[p], !.pool = p]]
          /\ call'[t].pool = p /\ call'[t].device = appPools[p]
          /\ appPools[p] # None /\ Known(p, appPools[p])
          /\ \A u \in Threads : pc[u] \in Owning => call[u].pool # p
          /\ UNCHANGED <<devices, heap, fakePools, realPools, driverPools, appPools>>
      BY <2>6, <1>0, <1>kept, <3>0 DEF GetQueryPoolResults, Call, Goto, NoCall, PoolsKept
    <3>2. HeapKept'
      BY <1>0, <1>kept, <3>1 DEF HeapKept
    <3>3. PoolsKept'
      BY <1>0, <1>kept, <3>1 DEF PoolsKept, HeapKept, Known, Real, QueryHooks
    <3>4. PoolCallKept(t)'
      BY <1>0, <1>kept, <3>1
         DEF PoolCallKept, PoolsKept, HeapKept, Owning, Looking, Known, Real, QueryHooks
    <3>5. ASSUME NEW u \in Threads, u # t PROVE PoolCallKept(u)'
      <4>1. /\ PoolCallKept(u) /\ pc'[u] = pc[u] /\ \A v \in Threads : v # t => call'[v] = call[v]
            /\ call[u].pool \in Pools \union {None} /\ call[u].device \in Devices \union {None}
        BY <1>0, <3>1, <3>5, CallTypes DEF PoolsInv
      <4>2. /\ call'[t].pool = None \/ pc[u] \notin Owning \/ call'[t].pool # call[u].pool
            /\ call[u].pool # None =>
                   /\ appPools'[call[u].pool] = appPools[call[u].pool]
                   /\ fakePools'[call[u].pool] = fakePools[call[u].pool]
                   /\ driverPools'[call[u].pool] = driverPools[call[u].pool]
                   /\ call[u].pool \in heap' <=> call[u].pool \in heap
                   /\ realPools[call[u].pool] = call[u].device =>
                          realPools'[call[u].pool] = realPools[call[u].pool]
                   /\ devices'[call[u].device] = devices[call[u].device]
        BY <1>0, <3>1, <3>5, <4>1
      <4> QED BY <3>5, <4>1, <4>2, PoolOthersKept
    <3> QED BY <3>2, <3>3, <3>4, <3>5 DEF PoolsInv
  <2>7. CASE EmplaceFakePool(t)
    <3>0. /\ PoolCallKept(t) /\ call[t].pool \in Pools /\ call[t].device \in Devices
          /\ call[t].device # None
          /\ pc[t] \in Looking => Known(call[t].pool, call[t].device)
      <4>1. PoolCallKept(t) /\ call[t].pool # None
        BY <2>7 DEF EmplaceFakePool, PoolsInv, PoolCallKept, Owning, Looking
      <4> QED BY <1>0, <4>1, PoolInUse
    <3>1. /\ pc' = [pc EXCEPT ![t] = "idle"] /\ pc'[t] = "idle" /\ call' = [call EXCEPT ![t] = NoCall]
          /\ call'[t].pool = None
          /\ QueryHooks(call[t].device) /\ call[t].pool \in heap /\ call[t].pool \in Pools
          /\ call[t].device # None
          /\ \A u \in Threads : u # t => call[u].pool # call[t].pool
          /\ fakePools' = [fakePools EXCEPT ![call[t].pool] = call[t].device]
          /\ appPools' = [appPools EXCEPT ![call[t].pool] = call[t].device]
          /\ UNCHANGED <<devices, heap, realPools, driverPools>>
      BY <2>7, <1>0, <1>kept, <3>0 DEF EmplaceFakePool, Finish, Goto, NoCall, PoolCallKept,
                                    Owning, Looking
    <3>2. HeapKept'
      BY <1>0, <1>kept, <3>1 DEF HeapKept
    <3>3. PoolsKept'
      BY <1>0, <1>kept, <3>1 DEF PoolsKept, HeapKept, Known, Real, QueryHooks
    <3>4. PoolCallKept(t)'
      BY <1>0, <1>kept, <3>1
         DEF PoolCallKept, PoolsKept, HeapKept, Owning, Looking, Known, Real, QueryHooks
    <3>5. ASSUME NEW u \in Threads, u # t PROVE PoolCallKept(u)'
      <4>1. /\ PoolCallKept(u) /\ pc'[u] = pc[u] /\ \A v \in Threads : v # t => call'[v] = call[v]
            /\ call[u].pool \in Pools \union {None} /\ call[u].device \in Devices \union {None}
        BY <1>0, <3>1, <3>5, CallTypes DEF PoolsInv
      <4>2. /\ call'[t].pool = None \/ pc[u] \notin Owning \/ call'[t].pool # call[u].pool
            /\ call[u].pool # None =>
                   /\ appPools'[call[u].pool] = appPools[call[u].pool]
                   /\ fakePools'[call[u].pool] = fakePools[call[u].pool]
                   /\ driverPools'[call[u].pool] = driverPools[call[u].pool]
                   /\ call[u].pool \in heap' <=> call[u].pool \in heap
                   /\ realPools[call[u].pool] = call[u].device =>
                          realPools'[call[u].pool] = realPools[call[u].pool]
                   /\ devices'[call[u].device] = devices[call[u].device]
        BY <1>0, <3>1, <3>5, <4>1
      <4> QED BY <3>5, <4>1, <4>2, PoolOthersKept
    <3> QED BY <3>2, <3>3, <3>4, <3>5 DEF PoolsInv
  <2>8. CASE RecordPool(t)
    <3>0. /\ PoolCallKept(t) /\ call[t].pool \in Pools /\ call[t].device \in Devices
          /\ call[t].device # None
          /\ pc[t] \in Looking => Known(call[t].pool, call[t].device)
      <4>1. PoolCallKept(t) /\ call[t].pool # None
        BY <2>8 DEF RecordPool, PoolsInv, PoolCallKept, Owning, Looking
      <4> QED BY <1>0, <4>1, PoolInUse
    <3>1. /\ pc' = [pc EXCEPT ![t] = "idle"] /\ pc'[t] = "idle" /\ call' = [call EXCEPT ![t] = NoCall]
          /\ call'[t].pool = None
          /\ Real(call[t].pool, call[t].device) /\ call[t].pool \in Pools /\ call[t].device # None
          /\ appPools[call[t].pool] = None
          /\ \A u \in Threads : u # t => call[u].pool # call[t].pool
          /\ realPools' = [realPools EXCEPT ![call[t].pool] = call[t].device]
          /\ appPools' = [appPools EXCEPT ![call[t].pool] = call[t].device]
          /\ UNCHANGED <<devices, heap, fakePools, driverPools>>
      BY <2>8, <1>0, <1>kept, <3>0 DEF RecordPool, GivePool, Finish, Goto, NoCall, PoolCallKept,
                                    Owning, Looking
    <3>2. HeapKept'
      BY <1>0, <1>kept, <3>1 DEF HeapKept
    <3>3. PoolsKept'
      BY <1>0, <1>kept, <3>1 DEF PoolsKept, HeapKept, Known, Real, QueryHooks
    <3>4. PoolCallKept(t)'
      BY <1>0, <1>kept, <3>1
         DEF PoolCallKept, PoolsKept, HeapKept, Owning, Looking, Known, Real, QueryHooks
    <3>5. ASSUME NEW u \in Threads, u # t PROVE PoolCallKept(u)'
      <4>1. /\ PoolCallKept(u) /\ pc'[u] = pc[u] /\ \A v \in Threads : v # t => call'[v] = call[v]
            /\ call[u].pool \in Pools \union {None} /\ call[u].device \in Devices \union {None}
        BY <1>0, <3>1, <3>5, CallTypes DEF PoolsInv
      <4>2. /\ call'[t].pool = None \/ pc[u] \notin Owning \/ call'[t].pool # call[u].pool
            /\ call[u].pool # None =>
                   /\ appPools'[call[u].pool] = appPools[call[u].pool]
                   /\ fakePools'[call[u].pool] = fakePools[call[u].pool]
                   /\ driverPools'[call[u].pool] = driverPools[call[u].pool]
                   /\ call[u].pool \in heap' <=> call[u].pool \in heap
                   /\ realPools[call[u].pool] = call[u].device =>
                          realPools'[call[u].pool] = realPools[call[u].pool]
                   /\ devices'[call[u].device] = devices[call[u].device]
        BY <1>0, <3>1, <3>5, <4>1
      <4> QED BY <3>5, <4>1, <4>2, PoolOthersKept
    <3> QED BY <3>2, <3>3, <3>4, <3>5 DEF PoolsInv
  <2>9. CASE ForgetPool(t)
    <3>0. /\ PoolCallKept(t) /\ call[t].pool \in Pools /\ call[t].device \in Devices
          /\ call[t].device # None
          /\ pc[t] \in Looking => Known(call[t].pool, call[t].device)
      <4>1. PoolCallKept(t) /\ call[t].pool # None
        BY <2>9 DEF ForgetPool, PoolsInv, PoolCallKept, Owning, Looking
      <4> QED BY <1>0, <4>1, PoolInUse
    <3>yes. CASE fakePools[call[t].pool] # None
      <4>1. /\ pc' = [pc EXCEPT ![t] = "idle"] /\ pc'[t] = "idle" /\ call' = [call EXCEPT ![t] = NoCall]
            /\ call'[t].pool = None
            /\ \A u \in Threads : u # t => call[u].pool # call[t].pool
            /\ call[t].pool \in Pools /\ appPools[call[t].pool] = None
            /\ driverPools[call[t].pool] = None
            /\ fakePools' = [fakePools EXCEPT ![call[t].pool] = None]
            /\ heap' = heap \ {call[t].pool} /\ UNCHANGED <<devices, realPools, driverPools, appPools>>
        BY <2>9, <1>0, <1>kept, <3>0, <3>yes DEF ForgetPool, Finish, Goto, NoCall, PoolCallKept,
                                            Owning, Looking, HeapKept
      <4>2. HeapKept'
        BY <1>0, <1>kept, <4>1 DEF HeapKept
      <4>3. PoolsKept'
        BY <1>0, <1>kept, <4>1 DEF PoolsKept, HeapKept, Known, Real, QueryHooks
      <4>4. PoolCallKept(t)'
        BY <1>0, <1>kept, <4>1
           DEF PoolCallKept, PoolsKept, HeapKept, Owning, Looking, Known, Real, QueryHooks
      <4>5. ASSUME NEW u \in Threads, u # t PROVE PoolCallKept(u)'
        <5>1. /\ PoolCallKept(u) /\ pc'[u] = pc[u] /\ \A v \in Threads : v # t => call'[v] = call[v]
              /\ call[u].pool \in Pools \union {None} /\ call[u].device \in Devices \union {None}
          BY <1>0, <4>1, <4>5, CallTypes DEF PoolsInv
        <5>2. /\ call'[t].pool = None \/ pc[u] \notin Owning \/ call'[t].pool # call[u].pool
              /\ call[u].pool # None =>
                     /\ appPools'[call[u].pool] = appPools[call[u].pool]
                     /\ fakePools'[call[u].pool] = fakePools[call[u].pool]
                     /\ driverPools'[call[u].pool] = driverPools[call[u].pool]
                     /\ call[u].pool \in heap' <=> call[u].pool \in heap
                     /\ realPools[call[u].pool] = call[u].device =>
                            realPools'[call[u].pool] = realPools[call[u].pool]
                     /\ devices'[call[u].device] = devices[call[u].device]
          BY <1>0, <4>1, <4>5, <5>1
        <5> QED BY <4>5, <5>1, <5>2, PoolOthersKept
      <4> QED BY <4>2, <4>3, <4>4, <4>5 DEF PoolsInv
    <3>no. CASE fakePools[call[t].pool] = None
      <4>1. /\ pc'[t] = "destroy_pool" /\ pc' = [pc EXCEPT ![t] = "destroy_pool"] /\ UNCHANGED call
            /\ \A u \in Threads : u # t => call[u].pool # call[t].pool
            /\ call[t].pool \in Pools /\ call[t].pool # None /\ appPools[call[t].pool] = None
            /\ Real(call[t].pool, call[t].device)
            /\ realPools' = [realPools EXCEPT ![call[t].pool] = None]
            /\ UNCHANGED <<devices, heap, fakePools, driverPools, appPools>>
        BY <2>9, <1>0, <1>kept, <3>0, <3>no DEF ForgetPool, Goto, PoolCallKept, Owning, Looking,
                                            Known
      <4>2. HeapKept'
        BY <1>0, <1>kept, <4>1 DEF HeapKept
      <4>3. PoolsKept'
        BY <1>0, <1>kept, <4>1 DEF PoolsKept, HeapKept, Known, Real, QueryHooks
      <4>4. PoolCallKept(t)'
        BY <1>0, <1>kept, <4>1
           DEF PoolCallKept, PoolsKept, HeapKept, Owning, Looking, Known, Real, QueryHooks
      <4>5. ASSUME NEW u \in Threads, u # t PROVE PoolCallKept(u)'
        <5>1. /\ PoolCallKept(u) /\ pc'[u] = pc[u] /\ \A v \in Threads : v # t => call'[v] = call[v]
              /\ call[u].pool \in Pools \union {None} /\ call[u].device \in Devices \union {None}
          BY <1>0, <4>1, <4>5, CallTypes DEF PoolsInv
        <5>2. /\ call'[t].pool = None \/ pc[u] \notin Owning \/ call'[t].pool # call[u].pool
              /\ call[u].pool # None =>
                     /\ appPools'[call[u].pool] = appPools[call[u].pool]
                     /\ fakePools'[call[u].pool] = fakePools[call[u].pool]
                     /\ driverPools'[call[u].pool] = driverPools[call[u].pool]
                     /\ call[u].pool \in heap' <=> call[u].pool \in heap
                     /\ realPools[call[u].pool] = call[u].device =>
                            realPools'[call[u].pool] = realPools[call[u].pool]
                     /\ devices'[call[u].device] = devices[call[u].device]
          BY <1>0, <4>1, <4>5, <5>1
        <5> QED BY <4>5, <5>1, <5>2, PoolOthersKept
      <4> QED BY <4>2, <4>3, <4>4, <4>5 DEF PoolsInv
    <3> QED BY <3>yes, <3>no
  <2>10. CASE DriverDestroysPool(t)
    <3>0. /\ PoolCallKept(t) /\ call[t].pool \in Pools /\ call[t].device \in Devices
          /\ call[t].device # None
          /\ pc[t] \in Looking => Known(call[t].pool, call[t].device)
      <4>1. PoolCallKept(t) /\ call[t].pool # None
        BY <2>10 DEF DriverDestroysPool, PoolsInv, PoolCallKept, Owning, Looking
      <4> QED BY <1>0, <4>1, PoolInUse
    <3>1. /\ pc' = [pc EXCEPT ![t] = "idle"] /\ pc'[t] = "idle" /\ call' = [call EXCEPT ![t] = NoCall]
          /\ call'[t].pool = None
          /\ Real(call[t].pool, call[t].device) /\ call[t].pool \in Pools
          /\ appPools[call[t].pool] = None
          /\ \A u \in Threads : u # t => call[u].pool # call[t].pool
          /\ driverPools' = [driverPools EXCEPT ![call[t].pool] = None]
          /\ UNCHANGED <<devices, heap, fakePools, realPools, appPools>>
      BY <2>10, <1>0, <1>kept, <3>0 DEF DriverDestroysPool, Finish, Goto, NoCall, PoolCallKept,
                                    Owning, Looking
    <3>2. HeapKept'
      BY <1>0, <1>kept, <3>1 DEF HeapKept
    <3>3. PoolsKept'
      BY <1>0, <1>kept, <3>1 DEF PoolsKept, HeapKept, Known, Real, QueryHooks
    <3>4. PoolCallKept(t)'
      BY <1>0, <1>kept, <3>1
         DEF PoolCallKept, PoolsKept, HeapKept, Owning, Looking, Known, Real, QueryHooks
    <3>5. ASSUME NEW u \in Threads, u # t PROVE PoolCallKept(u)'
      <4>1. /\ PoolCallKept(u) /\ pc'[u] = pc[u] /\ \A v \in Threads : v # t => call'[v] = call[v]
            /\ call[u].pool \in Pools \union {None} /\ call[u].device \in Devices \union {None}
        BY <1>0, <3>1, <3>5, CallTypes DEF PoolsInv
      <4>2. /\ call'[t].pool = None \/ pc[u] \notin Owning \/ call'[t].pool # call[u].pool
            /\ call[u].pool # None =>
                   /\ appPools'[call[u].pool] = appPools[call[u].pool]
                   /\ fakePools'[call[u].pool] = fakePools[call[u].pool]
                   /\ driverPools'[call[u].pool] = driverPools[call[u].pool]
                   /\ call[u].pool \in heap' <=> call[u].pool \in heap
                   /\ realPools[call[u].pool] = call[u].device =>
                          realPools'[call[u].pool] = realPools[call[u].pool]
                   /\ devices'[call[u].device] = devices[call[u].device]
        BY <1>0, <3>1, <3>5, <4>1
      <4> QED BY <3>5, <4>1, <4>2, PoolOthersKept
    <3> QED BY <3>2, <3>3, <3>4, <3>5 DEF PoolsInv
  <2>11. CASE FindFakePool(t)
    <3>0. /\ PoolCallKept(t) /\ call[t].pool \in Pools /\ call[t].device \in Devices
          /\ call[t].device # None
          /\ pc[t] \in Looking => Known(call[t].pool, call[t].device)
      <4>1. PoolCallKept(t) /\ call[t].pool # None
        BY <2>11 DEF FindFakePool, PoolsInv, PoolCallKept, Owning, Looking
      <4> QED BY <1>0, <4>1, PoolInUse
    <3>yes. CASE fakePools[call[t].pool] # None
      <4>1. PoolQuiet(t)
        BY <2>11, <1>0, <3>yes DEF FindFakePool, Finish, Goto, NoCall, PoolQuiet, Owning, Looking
      <4> QED BY <4>1, PoolQuietKeeps
    <3>no. CASE fakePools[call[t].pool] = None
      <4>1. /\ pc[t] = "find_fake" /\ pc'[t] = "find_pool" /\ pc' = [pc EXCEPT ![t] = "find_pool"]
            /\ UNCHANGED call
            /\ PoolCallKept(t) /\ Known(call[t].pool, call[t].device)
            /\ fakePools[call[t].pool] = None /\ call[t].device # None
            /\ UNCHANGED <<devices, heap, fakePools, realPools, driverPools, appPools>>
        BY <2>11, <1>0, <1>kept, <3>0, <3>no DEF FindFakePool, Goto, PoolCallKept, Owning, Looking
      <4>2. HeapKept'
        BY <1>0, <1>kept, <4>1 DEF HeapKept
      <4>3. PoolsKept'
        BY <1>0, <1>kept, <4>1 DEF PoolsKept, HeapKept, Known, Real, QueryHooks
      <4>4. PoolCallKept(t)'
        BY <1>0, <1>kept, <4>1
           DEF PoolCallKept, PoolsKept, HeapKept, Owning, Looking, Known, Real, QueryHooks
      <4>5. ASSUME NEW u \in Threads, u # t PROVE PoolCallKept(u)'
        <5>1. /\ PoolCallKept(u) /\ pc'[u] = pc[u] /\ \A v \in Threads : v # t => call'[v] = call[v]
              /\ call[u].pool \in Pools \union {None} /\ call[u].device \in Devices \union {None}
          BY <1>0, <4>1, <4>5, CallTypes DEF PoolsInv
        <5>2. /\ call'[t].pool = None \/ pc[u] \notin Owning \/ call'[t].pool # call[u].pool
              /\ call[u].pool # None =>
                     /\ appPools'[call[u].pool] = appPools[call[u].pool]
                     /\ fakePools'[call[u].pool] = fakePools[call[u].pool]
                     /\ driverPools'[call[u].pool] = driverPools[call[u].pool]
                     /\ call[u].pool \in heap' <=> call[u].pool \in heap
                     /\ realPools[call[u].pool] = call[u].device =>
                            realPools'[call[u].pool] = realPools[call[u].pool]
                     /\ devices'[call[u].device] = devices[call[u].device]
          BY <1>0, <4>1, <4>5, <5>1 DEF PoolCallKept
        <5> QED BY <4>5, <5>1, <5>2, PoolOthersKept
      <4> QED BY <4>2, <4>3, <4>4, <4>5 DEF PoolsInv
    <3> QED BY <3>yes, <3>no
  <2>12. CASE FindRealPool(t)
    <3>0. /\ PoolCallKept(t) /\ call[t].pool \in Pools /\ call[t].device \in Devices
          /\ call[t].device # None
          /\ pc[t] \in Looking => Known(call[t].pool, call[t].device)
      <4>1. PoolCallKept(t) /\ call[t].pool # None
        BY <2>12 DEF FindRealPool, PoolsInv, PoolCallKept, Owning, Looking
      <4> QED BY <1>0, <4>1, PoolInUse
    <3>1. /\ pc[t] = "find_pool" /\ pc'[t] = "find_state" /\ pc' = [pc EXCEPT ![t] = "find_state"]
          /\ UNCHANGED call
          /\ PoolCallKept(t) /\ Known(call[t].pool, call[t].device)
          /\ call[t].device # None
          /\ UNCHANGED <<devices, heap, fakePools, realPools, driverPools, appPools>>
      BY <2>12, <1>0, <1>kept, <3>0 DEF FindRealPool, Goto, PoolCallKept, Owning, Looking, Known,
                                    Real
    <3>2. HeapKept'
      BY <1>0, <1>kept, <3>1 DEF HeapKept
    <3>3. PoolsKept'
      BY <1>0, <1>kept, <3>1 DEF PoolsKept, HeapKept, Known, Real, QueryHooks
    <3>4. PoolCallKept(t)'
      BY <1>0, <1>kept, <3>1
         DEF PoolCallKept, PoolsKept, HeapKept, Owning, Looking, Known, Real, QueryHooks
    <3>5. ASSUME NEW u \in Threads, u # t PROVE PoolCallKept(u)'
      <4>1. /\ PoolCallKept(u) /\ pc'[u] = pc[u] /\ \A v \in Threads : v # t => call'[v] = call[v]
            /\ call[u].pool \in Pools \union {None} /\ call[u].device \in Devices \union {None}
        BY <1>0, <3>1, <3>5, CallTypes DEF PoolsInv
      <4>2. /\ call'[t].pool = None \/ pc[u] \notin Owning \/ call'[t].pool # call[u].pool
            /\ call[u].pool # None =>
                   /\ appPools'[call[u].pool] = appPools[call[u].pool]
                   /\ fakePools'[call[u].pool] = fakePools[call[u].pool]
                   /\ driverPools'[call[u].pool] = driverPools[call[u].pool]
                   /\ call[u].pool \in heap' <=> call[u].pool \in heap
                   /\ realPools[call[u].pool] = call[u].device =>
                          realPools'[call[u].pool] = realPools[call[u].pool]
                   /\ devices'[call[u].device] = devices[call[u].device]
        BY <1>0, <3>1, <3>5, <4>1 DEF PoolCallKept
      <4> QED BY <3>5, <4>1, <4>2, PoolOthersKept
    <3> QED BY <3>2, <3>3, <3>4, <3>5 DEF PoolsInv
  <2>13. CASE FindState(t)
    <3>0. /\ PoolCallKept(t) /\ call[t].pool \in Pools /\ call[t].device \in Devices
          /\ call[t].device # None
          /\ pc[t] \in Looking => Known(call[t].pool, call[t].device)
      <4>1. PoolCallKept(t) /\ call[t].pool # None
        BY <2>13 DEF FindState, PoolsInv, PoolCallKept, Owning, Looking
      <4> QED BY <1>0, <4>1, PoolInUse
    <3>1. /\ pc[t] = "find_state" /\ pc'[t] = "pool_at_driver" /\ pc' = [pc EXCEPT ![t] = "pool_at_driver"]
          /\ UNCHANGED call
          /\ PoolCallKept(t) /\ Known(call[t].pool, call[t].device)
          /\ call[t].device # None
          /\ UNCHANGED <<devices, heap, fakePools, realPools, driverPools, appPools>>
      BY <2>13, <1>0, <1>kept, <3>0 DEF FindState, Goto, PoolCallKept, Owning, Looking, Known,
                                    Real, QueryHooks
    <3>2. HeapKept'
      BY <1>0, <1>kept, <3>1 DEF HeapKept
    <3>3. PoolsKept'
      BY <1>0, <1>kept, <3>1 DEF PoolsKept, HeapKept, Known, Real, QueryHooks
    <3>4. PoolCallKept(t)'
      BY <1>0, <1>kept, <3>1
         DEF PoolCallKept, PoolsKept, HeapKept, Owning, Looking, Known, Real, QueryHooks
    <3>5. ASSUME NEW u \in Threads, u # t PROVE PoolCallKept(u)'
      <4>1. /\ PoolCallKept(u) /\ pc'[u] = pc[u] /\ \A v \in Threads : v # t => call'[v] = call[v]
            /\ call[u].pool \in Pools \union {None} /\ call[u].device \in Devices \union {None}
        BY <1>0, <3>1, <3>5, CallTypes DEF PoolsInv
      <4>2. /\ call'[t].pool = None \/ pc[u] \notin Owning \/ call'[t].pool # call[u].pool
            /\ call[u].pool # None =>
                   /\ appPools'[call[u].pool] = appPools[call[u].pool]
                   /\ fakePools'[call[u].pool] = fakePools[call[u].pool]
                   /\ driverPools'[call[u].pool] = driverPools[call[u].pool]
                   /\ call[u].pool \in heap' <=> call[u].pool \in heap
                   /\ realPools[call[u].pool] = call[u].device =>
                          realPools'[call[u].pool] = realPools[call[u].pool]
                   /\ devices'[call[u].device] = devices[call[u].device]
        BY <1>0, <3>1, <3>5, <4>1 DEF PoolCallKept
      <4> QED BY <3>5, <4>1, <4>2, PoolOthersKept
    <3> QED BY <3>2, <3>3, <3>4, <3>5 DEF PoolsInv
  <2>14. CASE FindResults(t)
    <3>0. /\ PoolCallKept(t) /\ call[t].pool \in Pools /\ call[t].device \in Devices
          /\ call[t].device # None
          /\ pc[t] \in Looking => Known(call[t].pool, call[t].device)
      <4>1. PoolCallKept(t) /\ call[t].pool # None
        BY <2>14 DEF FindResults, PoolsInv, PoolCallKept, Owning, Looking
      <4> QED BY <1>0, <4>1, PoolInUse
    <3>yes. CASE fakePools[call[t].pool] # None
      <4>1. PoolQuiet(t)
        BY <2>14, <1>0, <3>yes DEF FindResults, Finish, Goto, NoCall, PoolQuiet, Owning, Looking
      <4> QED BY <4>1, PoolQuietKeeps
    <3>no. CASE fakePools[call[t].pool] = None
      <4>1. /\ pc[t] = "results" /\ pc'[t] = "pool_at_driver" /\ pc' = [pc EXCEPT ![t] = "pool_at_driver"]
            /\ UNCHANGED call
            /\ PoolCallKept(t) /\ Known(call[t].pool, call[t].device)
            /\ fakePools[call[t].pool] = None /\ call[t].device # None
            /\ UNCHANGED <<devices, heap, fakePools, realPools, driverPools, appPools>>
        BY <2>14, <1>0, <1>kept, <3>0, <3>no DEF FindResults, Goto, PoolCallKept, Owning, Looking,
                                            QueryHooks
      <4>2. HeapKept'
        BY <1>0, <1>kept, <4>1 DEF HeapKept
      <4>3. PoolsKept'
        BY <1>0, <1>kept, <4>1 DEF PoolsKept, HeapKept, Known, Real, QueryHooks
      <4>4. PoolCallKept(t)'
        BY <1>0, <1>kept, <4>1
           DEF PoolCallKept, PoolsKept, HeapKept, Owning, Looking, Known, Real, QueryHooks
      <4>5. ASSUME NEW u \in Threads, u # t PROVE PoolCallKept(u)'
        <5>1. /\ PoolCallKept(u) /\ pc'[u] = pc[u] /\ \A v \in Threads : v # t => call'[v] = call[v]
              /\ call[u].pool \in Pools \union {None} /\ call[u].device \in Devices \union {None}
          BY <1>0, <4>1, <4>5, CallTypes DEF PoolsInv
        <5>2. /\ call'[t].pool = None \/ pc[u] \notin Owning \/ call'[t].pool # call[u].pool
              /\ call[u].pool # None =>
                     /\ appPools'[call[u].pool] = appPools[call[u].pool]
                     /\ fakePools'[call[u].pool] = fakePools[call[u].pool]
                     /\ driverPools'[call[u].pool] = driverPools[call[u].pool]
                     /\ call[u].pool \in heap' <=> call[u].pool \in heap
                     /\ realPools[call[u].pool] = call[u].device =>
                            realPools'[call[u].pool] = realPools[call[u].pool]
                     /\ devices'[call[u].device] = devices[call[u].device]
          BY <1>0, <4>1, <4>5, <5>1 DEF PoolCallKept
        <5> QED BY <4>5, <5>1, <5>2, PoolOthersKept
      <4> QED BY <4>2, <4>3, <4>4, <4>5 DEF PoolsInv
    <3> QED BY <3>yes, <3>no
  <2> QED BY <1>4, <2>1, <2>2, <2>3, <2>4, <2>5, <2>6, <2>7, <2>8, <2>9, <2>10, <2>11, <2>12,
             <2>13, <2>14 DEF PoolStep
<1>5. ASSUME NEW t \in Threads, OtherStep(t) PROVE PoolsInv'
  <2>1. ASSUME NEW d \in Devices, QueueBindSparse(t, d) PROVE PoolsInv'
    <3>1. d \in queues /\ d \in Devices
      BY <2>1 DEF QueueBindSparse, DevicesInv, ChildrenKept
    <3>2. /\ pc[t] = "idle" /\ pc' = [pc EXCEPT ![t] = "at_driver"]
          /\ \/ call' = [call EXCEPT ![t] = [NoCall EXCEPT !.device = d]]
             \/ \E uses \in FeatureSets :
                    call' = [call EXCEPT ![t] = [NoCall EXCEPT !.device = d, !.uses = uses]]
      <4>1. CASE SparseHooks(d)
        BY <2>1, <3>1, <4>1 DEF QueueBindSparse, Call, Goto
      <4>2. CASE ~SparseHooks(d)
        BY <2>1, <4>2, FeaturesUsed DEF QueueBindSparse, Call, Goto
      <4> QED BY <4>1, <4>2
    <3>3. call'[t].pool = None /\ \A u \in Threads : u # t => pc'[u] = pc[u] /\ call'[u] = call[u]
      BY <1>0, <3>2 DEF NoCall
    <3>4. PoolQuiet(t)
      BY <2>1, <1>0, <3>2, <3>3 DEF QueueBindSparse, PoolQuiet, Owning, Looking
    <3> QED BY <3>4, PoolQuietKeeps
  <2>2. ASSUME NEW d \in Devices, NEW needs \in PipelineNeeds, CreateGraphicsPipelines(t, d, needs)
        PROVE  PoolsInv'
    <3>1. PoolQuiet(t)
      BY <2>2, <1>0, <1>kept
      DEF CreateGraphicsPipelines, Call, Goto, PoolQuiet, Owning, Looking, NoCall
    <3> QED BY <3>1, PoolQuietKeeps
  <2>3. ASSUME NEW d \in Devices, GetDeviceMemoryRequirements(t, d) PROVE PoolsInv'
    <3>1. PoolQuiet(t)
      BY <2>3, <1>0, <1>kept
      DEF GetDeviceMemoryRequirements, Call, Goto, PoolQuiet, Owning, Looking, NoCall
    <3> QED BY <3>1, PoolQuietKeeps
  <2>4. CASE DriverReturns(t)
    <3>2. call'[t].pool = None /\ \A u \in Threads : u # t => pc'[u] = pc[u] /\ call'[u] = call[u]
      BY <2>4, <1>0 DEF DriverReturns, Finish, Goto, NoCall, Calls
    <3>3. PoolQuiet(t)
      BY <2>4, <1>0, <3>2 DEF DriverReturns, Finish, Goto, PoolQuiet, Owning, Looking
    <3> QED BY <3>3, PoolQuietKeeps
  <2> QED BY <1>5, <2>1, <2>2, <2>3, <2>4 DEF OtherStep
<1> QED BY <1>1, <1>2, <1>3, <1>4, <1>5 DEF EmulationNext

-----------------------------------------------------------------------------
(* The inductive invariant and what follows from it.                       *)

EmulationInv == EmulationTypeOK /\ ProfilesInv /\ DevicesInv /\ PoolsInv

(* It holds at the start, and every step keeps it.                         *)
LEMMA EmulationStarts ==
    ASSUME EmulationInit
    PROVE  EmulationInv
<1>1. /\ \A t \in Threads : pc[t] = "idle" /\ call[t] = NoCall
      /\ \A d \in Devices : appDevices[d] = None
      /\ \A r \in Resources : appResources[r] = None
      /\ \A p \in Pools : fakePools[p] = None /\ appPools[p] = None
      /\ heap = {} /\ appQueues = {} /\ NoCall.device = None /\ NoCall.pool = None /\ NoCall.uses = {}
  BY DEF EmulationInit, NoCall
<1>2. ProfilesInv
  BY DEF EmulationInit, ProfilesInit, ProfilesInv, ProfilesTypeOK
<1>3. EmulationTypeOK
  <2>1. RegistryTypeOK /\ DriverTypeOK /\ AppTypeOK
    BY DEF EmulationInit, RegistryTypeOK, DriverTypeOK, AppTypeOK
  <2>2. CallsTypeOK
    BY NoCallTyped DEF EmulationInit, CallsTypeOK
  <2> QED BY <1>2, <2>1, <2>2 DEF EmulationTypeOK, ProfilesInv
<1>4. DevicesInv
  BY <1>1 DEF DevicesInv, DevicesKept, ChildrenKept, CallsKept, CallKept, Alone
<1>5. PoolsInv
  BY <1>1 DEF PoolsInv, HeapKept, PoolsKept, PoolCallKept, Owning, Looking
<1> QED BY <1>2, <1>3, <1>4, <1>5 DEF EmulationInv

(* A step of the next-state relation, or a stutter, keeps it.              *)
LEMMA EmulationSteps ==
    ASSUME EmulationInv, [EmulationNext]_emulationVars
    PROVE  EmulationInv'
<1>1. CASE EmulationNext
  <2>1. ProfilesInv'
    <3>1. CASE InstanceStep
      BY <3>1, KeepProfiles DEF EmulationInv
    <3>2. CASE UNCHANGED profileVars
      BY <3>2 DEF EmulationInv, ProfilesInv, ProfilesTypeOK, profileVars
    <3>3. InstanceStep \/ UNCHANGED profileVars
      <4>1. ASSUME NEW t \in Threads, DeviceStep(t) PROVE UNCHANGED profileVars
        BY <4>1 DEF DeviceStep, CreateDevice, DriverRefusesDevice, RegisterDevice, UnregisterDevice,
                    DriverDestroysDevice, DriverCreatesDevice, DestroyDevice, GetDeviceQueue
      <4>2. ASSUME NEW t \in Threads, ResourceStep(t) PROVE UNCHANGED profileVars
        <5>1. ASSUME NEW d \in Devices, NEW sparse \in BOOLEAN,
                     CreateBuffer(t, d, sparse) \/ \E plain2d \in BOOLEAN : CreateImage(t, d, sparse, plain2d)
              PROVE  UNCHANGED profileVars
          <6>1. PICK label : CreateResource(t, d, label, sparse)
            BY <5>1 DEF CreateBuffer, CreateImage
          <6> QED BY <6>1 DEF CreateResource
        <5>2. ASSUME NEW r \in Resources,
                     \/ DriverCreatesResource(t, r) \/ DestroyBuffer(t, r) \/ DestroyImage(t, r)
                     \/ GetImageSparseMemoryRequirements(t, r)
              PROVE  UNCHANGED profileVars
          BY <5>2 DEF DriverCreatesResource, DestroyBuffer, DestroyImage,
                      GetImageSparseMemoryRequirements, DestroyResource
        <5>3. ASSUME NEW size \in Sizes, Reserve(t, size) PROVE UNCHANGED profileVars
          BY <5>3 DEF Reserve
        <5>4. ASSUME \/ Allocate(t) \/ Bind(t) \/ ReleaseBudget(t) \/ Undo(t) \/ Record(t)
                     \/ DriverDestroysResource(t) \/ FreeMemory(t)
              PROVE  UNCHANGED profileVars
          BY <5>4 DEF Allocate, Bind, ReleaseBudget, Undo, Record, DriverDestroysResource, FreeMemory
        <5> QED BY <4>2, <5>1, <5>2, <5>3, <5>4 DEF ResourceStep, Resources
      <4>3. ASSUME NEW t \in Threads, PoolStep(t) PROVE UNCHANGED profileVars
        BY <4>3 DEF PoolStep, NewFakePool, CreatePool, DriverCreatesPool, DestroyPool, PoolCommand,
                    GetQueryPoolResults, EmplaceFakePool, RecordPool, ForgetPool, DriverDestroysPool,
                    FindFakePool, FindRealPool, FindState, FindResults
      <4>4. ASSUME NEW t \in Threads, OtherStep(t) PROVE UNCHANGED profileVars
        BY <4>4 DEF OtherStep, QueueBindSparse, CreateGraphicsPipelines,
                    GetDeviceMemoryRequirements, DriverReturns
      <4> QED BY <1>1, <4>1, <4>2, <4>3, <4>4 DEF EmulationNext
    <3> QED BY <3>1, <3>2, <3>3
  <2> QED BY <1>1, <2>1, TypeStep, DevicesStep, PoolsStep DEF EmulationInv
<1>2. CASE UNCHANGED emulationVars
  <2>1. /\ UNCHANGED <<profile, enumerated, appPhysical, told>>
        /\ UNCHANGED <<devices, denseUsed, dense, queues, fakePools, realPools, heap>>
        /\ UNCHANGED <<driverDevices, driverResources, memory, driverPools>>
        /\ UNCHANGED <<appDevices, appResources, appPools, appQueues, pc, call>>
    BY <1>2 DEF emulationVars, profileVars, registry, driver, app
  <2>2. ProfilesInv'
    BY <2>1 DEF EmulationInv, ProfilesInv, ProfilesTypeOK
  <2>3. EmulationTypeOK'
    BY <2>1 DEF EmulationInv, EmulationTypeOK, ProfilesTypeOK, RegistryTypeOK, DriverTypeOK,
                AppTypeOK, CallsTypeOK
  <2>4. DevicesInv'
    BY <2>1 DEF EmulationInv, DevicesInv, DevicesKept, ChildrenKept, CallsKept, CallKept, Excused
  <2>5. PoolsInv'
    BY <2>1 DEF EmulationInv, PoolsInv, HeapKept, PoolsKept, PoolCallKept, Known, Real, QueryHooks
  <2> QED BY <2>2, <2>3, <2>4, <2>5 DEF EmulationInv
<1> QED BY <1>1, <1>2

(* The invariant holds in every behaviour.                                 *)
THEOREM EmulationInvariant == EmulationSpec => []EmulationInv
BY EmulationStarts, EmulationSteps, PTL DEF EmulationSpec

(* The registry, the driver, the application and the calls keep their      *)
(* types.                                                                  *)
THEOREM TypeCorrect == EmulationSpec => []EmulationTypeOK
<1>1. EmulationInv => EmulationTypeOK
  BY DEF EmulationInv
<1> QED BY <1>1, EmulationInvariant, PTL

(* What the wrapper says a device can do is granted when the device is     *)
(* created with any part of it: features of the profile are not passed on, *)
(* and extensions go to the driver under the names it knows.               *)
THEOREM AdvertisedIsGranted == EmulationSpec => []AdvertisedCanBeEnabled
<1>1. EmulationInv => AdvertisedCanBeEnabled
  BY DEF EmulationInv, DevicesInv, CallsKept, CallKept, AdvertisedCanBeEnabled
<1> QED BY <1>1, EmulationInvariant, PTL

(* A call that reaches the driver relies on nothing its device was created *)
(* without, whatever the application enabled under the profile, but for    *)
(* the two features that unsafe mode claims and rewrites nowhere.          *)
THEOREM DriverIsUsedAsEnabled == EmulationSpec => []DriverUsedAsEnabled
<1>1. EmulationInv => DriverUsedAsEnabled
  BY DEF EmulationInv, DevicesInv, CallsKept, CallKept, DriverUsedAsEnabled
<1> QED BY <1>1, EmulationInvariant, PTL

(* No command that has a hook gives a made-up query pool to the driver or  *)
(* is swallowed on a real one, however the addresses of pools are used     *)
(* again.  The indexed commands have none.                                 *)
THEOREM PoolsAreTheirOwn == EmulationSpec => []PoolsAreKnown
<1>1. ASSUME EmulationInv PROVE PoolsAreKnown
  <2>1. ASSUME NEW t \in Threads
        PROVE  /\ pc[t] # "dropped"
               /\ pc[t] = "pool_at_driver" => driverPools[call[t].pool] = call[t].device
    BY <1>1 DEF EmulationInv, PoolsInv, PoolCallKept, Real
  <2>2. ASSUME NEW p \in Pools, driverPools[p] # None PROVE fakePools[p] = None
    BY <1>1, <2>2 DEF EmulationInv, PoolsInv, HeapKept
  <2> QED BY <2>1, <2>2 DEF PoolsAreKnown
<1> QED BY <1>1, EmulationInvariant, PTL

-----------------------------------------------------------------------------
(* The budget of a device.  A sum over records and calls is the number of  *)
(* cells that stand for their sizes: what a step does to one size it does  *)
(* to the sum, whatever the others are.                                    *)

(* Sizes are added up as numbers of cells: as many for each x as f[x].     *)
Cells(f) == {c \in (DOMAIN f) \X Nat : c[2] < f[c[1]]}
Countable(f) == IsFiniteSet(Cells(f))
Total(f) == Cardinality(Cells(f))

(* One size is that of an interval.                                        *)
LEMMA ColumnCounted ==
    ASSUME NEW x, NEW n \in Nat
    PROVE  /\ IsFiniteSet({x} \X (0 .. n - 1))
           /\ Cardinality({x} \X (0 .. n - 1)) = n
<1> DEFINE I == 0 .. n - 1
           C == {x} \X I
           f == [k \in I |-> <<x, k>>]
<1>1. IsFiniteSet(I) /\ Cardinality(I) = n
  <2>1. IsFiniteSet(0 .. n - 1) /\ Cardinality(0 .. n - 1) = IF 0 > n - 1 THEN 0 ELSE n - 1 - 0 + 1
    BY FS_Interval, n - 1 \in Int, 0 \in Int
  <2> QED BY <2>1
<1>2. f \in Bijection(I, C)
  <2>1. f \in [I -> C]
    OBVIOUS
  <2>2. \A c \in C : \E k \in I : f[k] = c
    OBVIOUS
  <2>3. \A j, k \in I : f[j] = f[k] => j = k
    OBVIOUS
  <2> HIDE DEF f, I, C
  <2> QED BY <2>1, <2>2, <2>3 DEF Bijection, Injection, Surjection, IsInjective
<1>3. ExistsBijection(I, C)
  BY <1>2 DEF ExistsBijection
<1> HIDE DEF I, C
<1>4. IsFiniteSet(C) /\ Cardinality(C) = n
  BY <1>1, <1>3, FS_Bijection
<1> QED BY <1>4 DEF I, C

(* When one size changes, the total changes by as much.                    *)
LEMMA TotalMoves ==
    ASSUME NEW S, NEW f \in [S -> Nat], NEW g \in [S -> Nat], NEW x \in S,
           \A y \in S : y # x => g[y] = f[y], Countable(f)
    PROVE  /\ Countable(g) /\ Total(f) \in Nat /\ Total(g) \in Nat
           /\ f[x] <= Total(f) /\ g[x] <= Total(g)
           /\ Total(g) = Total(f) - f[x] + g[x]
<1> DEFINE rest == {c \in Cells(f) : c[1] # x}
           F == {x} \X (0 .. f[x] - 1)
           G == {x} \X (0 .. g[x] - 1)
<1>1. f[x] \in Nat /\ g[x] \in Nat /\ DOMAIN f = S /\ DOMAIN g = S
  OBVIOUS
<1>2. IsFiniteSet(F) /\ Cardinality(F) = f[x] /\ IsFiniteSet(G) /\ Cardinality(G) = g[x]
  BY <1>1, ColumnCounted
<1>3. Cells(f) = rest \union F /\ rest \intersect F = {}
  BY <1>1 DEF Cells
<1>4. Cells(g) = rest \union G /\ rest \intersect G = {}
  BY <1>1 DEF Cells
<1>5. IsFiniteSet(rest) /\ Cardinality(rest) \in Nat
  BY FS_Subset, FS_CardinalityType DEF Countable
<1> HIDE DEF rest, F, G
<1>6. Cardinality({}) = 0
  BY FS_EmptySet
<1>7. IsFiniteSet(Cells(f)) /\ Cardinality(Cells(f)) = Cardinality(rest) + f[x]
  <2>1. /\ IsFiniteSet(rest \union F)
        /\ Cardinality(rest \union F) = Cardinality(rest) + Cardinality(F) - Cardinality(rest \intersect F)
    BY <1>2, <1>5, FS_Union
  <2>2. Cardinality(rest \intersect F) = 0
    BY <1>3, <1>6
  <2> QED BY <1>1, <1>2, <1>3, <1>5, <2>1, <2>2
<1>8. IsFiniteSet(Cells(g)) /\ Cardinality(Cells(g)) = Cardinality(rest) + g[x]
  <2>1. /\ IsFiniteSet(rest \union G)
        /\ Cardinality(rest \union G) = Cardinality(rest) + Cardinality(G) - Cardinality(rest \intersect G)
    BY <1>2, <1>5, FS_Union
  <2>2. Cardinality(rest \intersect G) = 0
    BY <1>4, <1>6
  <2> QED BY <1>1, <1>2, <1>4, <1>5, <2>1, <2>2
<1> QED BY <1>1, <1>5, <1>7, <1>8 DEF Countable, Total

(* Smaller sizes have a smaller total, and no sizes none.                  *)
LEMMA TotalOrdered ==
    ASSUME NEW S, NEW f \in [S -> Nat], NEW g \in [S -> Nat],
           \A y \in S : g[y] <= f[y], Countable(f)
    PROVE  Countable(g) /\ Total(f) \in Nat /\ Total(g) \in Nat /\ Total(g) <= Total(f)
<1>1. Cells(g) \subseteq Cells(f)
  BY DEF Cells
<1> QED BY <1>1, FS_Subset, FS_CardinalityType DEF Countable, Total

(* No sizes have no total.                                                 *)
LEMMA TotalOfNothing ==
    ASSUME NEW S, NEW f \in [S -> Nat], \A y \in S : f[y] = 0
    PROVE  Countable(f) /\ Total(f) = 0
<1>1. Cells(f) = {}
  BY DEF Cells
<1> QED BY <1>1, FS_EmptySet DEF Countable, Total

-----------------------------------------------------------------------------
(* The account of a device: every part of its budget is held by a record   *)
(* or by the call that makes or unmakes one, and so is every part of its   *)
(* memory; a resource is the application's, or one call's, or nobody's.    *)

(* What a call holds of the budget of a device, and of its memory.         *)
Charge(t, d) == IF call[t].device = d THEN call[t].size ELSE 0
Charges(d) == [t \in Threads |-> Charge(t, d)]

Financed == {"bind", "record", "destroy_resource", "free_memory"}
Loan(t, d) == IF pc[t] \in Financed THEN Charge(t, d) ELSE 0
Loans(d) == [t \in Threads |-> Loan(t, d)]

(* What is used of the budget is what the records and the calls hold, and  *)
(* so is the memory.                                                       *)
AccountKept(d) ==
    /\ Countable(dense[d]) /\ Countable(Charges(d))
    /\ denseUsed[d] = Total(dense[d]) + Total(Charges(d))
    /\ denseUsed[d] <= Budget
    /\ memory[d] = Total(dense[d]) + Total(Loans(d))

(* A record is of a resource that the application has, alive in the driver *)
(* and made on a device under the hooks of sparse resources.               *)
RecordsKept ==
    /\ \A r \in Resources : appResources[r] # None => driverResources[r] # None
    /\ \A d \in Devices, r \in Resources : dense[d][r] # 0 => appResources[r] = d /\ SparseHooks(d)

(* A call that makes or destroys a resource has it alone, and only calls   *)
(* on such a device hold a size.                                           *)
Making == {"reserve", "allocate", "bind", "record", "release_undo", "undo"}
Creating == {"create_buffer", "create_image"}
Charged == {"allocate", "bind", "record", "release_undo", "destroy_resource", "free_memory", "release"}

ResourceCallKept(t) ==
    LET r == call[t].resource
        d == call[t].device
    IN  /\ pc[t] \in Making \union {"destroy_resource"} <=> r # None
        /\ r # None => /\ driverResources[r] # None /\ appResources[r] = None
                       /\ \A u \in Threads : u # t => call[u].resource # r
        /\ pc[t] \in Making => SparseHooks(d)
        /\ pc[t] \in Creating /\ call[t].sparse => SparseHooks(d)
        /\ call[t].size # 0 => pc[t] \in Charged

BudgetInv ==
    (\A d \in Devices : AccountKept(d)) /\ RecordsKept /\ \A t \in Threads : ResourceCallKept(t)

(* Only one thread's call moves in a step.                                 *)
Others(t) == \A u \in Threads : u # t => pc'[u] = pc[u] /\ call'[u] = call[u]

(* The types of the accounts.                                              *)
LEMMA AccountTypes ==
    ASSUME EmulationTypeOK, NEW d \in Devices
    PROVE  /\ dense[d] \in [Resources -> Nat] /\ denseUsed[d] \in Nat /\ memory[d] \in Int
           /\ Charges(d) \in [Threads -> Nat] /\ Loans(d) \in [Threads -> Nat]
           /\ \A t \in Threads : /\ Charge(t, d) \in Nat /\ Loan(t, d) \in Nat
                                 /\ Charges(d)[t] = Charge(t, d) /\ Loans(d)[t] = Loan(t, d)
                                 /\ Loan(t, d) <= Charge(t, d)
<1>1. \A t \in Threads : call[t].size \in Nat
  BY CallTypes
<1> QED BY <1>1 DEF EmulationTypeOK, RegistryTypeOK, DriverTypeOK, Charges, Charge, Loans, Loan

(* The calls hold no more memory than budget, and a call no more than all. *)
LEMMA LoansCounted ==
    ASSUME EmulationTypeOK, NEW d \in Devices, Countable(Charges(d))
    PROVE  /\ Countable(Loans(d)) /\ Total(Loans(d)) \in Nat /\ Total(Charges(d)) \in Nat
           /\ Total(Loans(d)) <= Total(Charges(d))
<1>1. /\ Charges(d) \in [Threads -> Nat] /\ Loans(d) \in [Threads -> Nat]
      /\ \A t \in Threads : Loans(d)[t] <= Charges(d)[t]
  BY AccountTypes
<1> QED BY <1>1, TotalOrdered

(* Within the budget it stays.                                             *)
LEMMA AccountHolds ==
    ASSUME EmulationTypeOK, NEW d \in Devices, AccountKept(d)
    PROVE  memory[d] <= Budget
<1>1. /\ Total(Loans(d)) \in Nat /\ Total(Charges(d)) \in Nat
      /\ Total(Loans(d)) <= Total(Charges(d))
  BY LoansCounted DEF AccountKept
<1>2. dense[d] \in [Resources -> Nat] /\ denseUsed[d] \in Nat
  BY AccountTypes
<1>3. Total(dense[d]) \in Nat
  BY <1>2, FS_CardinalityType DEF AccountKept, Countable, Total
<1> QED BY <1>1, <1>2, <1>3, EmulationAssumption DEF AccountKept

(* A call that goes on moves the totals by what it takes or gives back.    *)
LEMMA CallMoves ==
    ASSUME EmulationTypeOK, EmulationTypeOK', NEW t \in Threads, NEW d \in Devices, Others(t),
           Countable(Charges(d))
    PROVE  /\ Countable(Charges(d))'
           /\ Total(Charges(d))' = Total(Charges(d)) - Charge(t, d) + Charge(t, d)'
           /\ Total(Loans(d))' = Total(Loans(d)) - Loan(t, d) + Loan(t, d)'
           /\ Charge(t, d) <= Total(Charges(d)) /\ Charge(t, d)' <= Total(Charges(d))'
           /\ Total(Charges(d))' \in Nat /\ Total(Loans(d))' \in Nat
<1> DEFINE f == Charges(d)
           g == Charges(d)'
           h == Loans(d)
           k == Loans(d)'
<1>1. /\ f \in [Threads -> Nat] /\ h \in [Threads -> Nat]
      /\ f[t] = Charge(t, d) /\ h[t] = Loan(t, d)
  BY AccountTypes
<1>2. /\ g \in [Threads -> Nat] /\ k \in [Threads -> Nat]
      /\ g[t] = Charge(t, d)' /\ k[t] = Loan(t, d)'
  <2>1. call' \in [Threads -> Calls] /\ call'[t].size \in Nat /\ \A u \in Threads : call'[u].size \in Nat
    BY DEF EmulationTypeOK, CallsTypeOK, Calls
  <2> QED BY <2>1 DEF Charges, Charge, Loans, Loan
<1>3. \A u \in Threads : u # t => g[u] = f[u] /\ k[u] = h[u]
  BY DEF Others, Charges, Loans, Charge, Loan
<1>4. Countable(f) /\ Countable(h)
  BY LoansCounted
<1>5. /\ Total(Charges(d))' = Total(g) /\ Total(Loans(d))' = Total(k)
      /\ Countable(Charges(d))' <=> Countable(g)
  BY DEF Total, Countable, Cells
<1> HIDE DEF f, g, h, k
<1>6. /\ Countable(g) /\ Total(g) = Total(f) - f[t] + g[t] /\ f[t] <= Total(f) /\ g[t] <= Total(g)
      /\ Total(g) \in Nat
  BY <1>1, <1>2, <1>3, <1>4, TotalMoves
<1>7. Total(k) = Total(h) - h[t] + k[t] /\ Total(k) \in Nat
  BY <1>1, <1>2, <1>3, <1>4, TotalMoves
<1> QED BY <1>1, <1>2, <1>5, <1>6, <1>7 DEF f, h

(* A call that takes from the budget, gives back to it, or does neither,   *)
(* keeps the account.                                                      *)
LEMMA AccountMoves ==
    ASSUME EmulationTypeOK, EmulationTypeOK', NEW t \in Threads, NEW d \in Devices, Others(t),
           AccountKept(d), dense'[d] = dense[d],
           denseUsed'[d] = denseUsed[d] - Charge(t, d) + Charge(t, d)',
           memory'[d] = memory[d] - Loan(t, d) + Loan(t, d)',
           denseUsed'[d] <= Budget
    PROVE  AccountKept(d)'
<1>1. Countable(dense[d]) /\ Countable(Charges(d))
  BY DEF AccountKept
<1>2. /\ Countable(Charges(d))'
      /\ Total(Charges(d))' = Total(Charges(d)) - Charge(t, d) + Charge(t, d)'
      /\ Total(Loans(d))' = Total(Loans(d)) - Loan(t, d) + Loan(t, d)'
      /\ Total(Charges(d))' \in Nat /\ Total(Loans(d))' \in Nat
  BY <1>1, CallMoves
<1>3. Countable(dense[d])' /\ Total(dense[d])' = Total(dense[d])
  BY <1>1 DEF Countable, Total, Cells
<1>4. Total(dense[d]) \in Nat
  BY <1>1, FS_CardinalityType DEF Countable, Total
<1>5. Total(Charges(d)) \in Nat /\ Total(Loans(d)) \in Nat
  BY <1>1, LoansCounted
<1>6. /\ Charge(t, d) \in Nat /\ Loan(t, d) \in Nat
  BY AccountTypes
<1>7. /\ Charge(t, d)' \in Nat /\ Loan(t, d)' \in Nat
  <2>1. call' \in [Threads -> Calls] /\ call'[t].size \in Nat
    BY DEF EmulationTypeOK, CallsTypeOK, Calls
  <2> QED BY <2>1 DEF Charge, Loan
<1> DEFINE D == Total(dense[d])
           C == Total(Charges(d))
           L == Total(Loans(d))
           D2 == Total(dense[d])'
           C2 == Total(Charges(d))'
           L2 == Total(Loans(d))'
           a == Charge(t, d)
           b == Charge(t, d)'
           m == Loan(t, d)
           n == Loan(t, d)'
<1>8. denseUsed[d] = D + C /\ memory[d] = D + L
  BY DEF AccountKept
<1>9. /\ denseUsed'[d] = denseUsed[d] - a + b /\ memory'[d] = memory[d] - m + n
      /\ D2 = D /\ C2 = C - a + b /\ L2 = L - m + n
  BY <1>2, <1>3
<1>10. /\ D \in Nat /\ C \in Nat /\ L \in Nat /\ C2 \in Nat /\ L2 \in Nat
       /\ a \in Nat /\ b \in Nat /\ m \in Nat /\ n \in Nat
  BY <1>2, <1>4, <1>5, <1>6, <1>7
<1> HIDE DEF D, C, L, D2, C2, L2, a, b, m, n
<1>11. denseUsed'[d] = D2 + C2 /\ memory'[d] = D2 + L2
  BY <1>8, <1>9, <1>10
<1> QED BY <1>2, <1>3, <1>11 DEF AccountKept, D2, C2, L2

(* So does one that puts the size it holds into a record, or takes the     *)
(* size of a record.                                                       *)
LEMMA RecordMoves ==
    ASSUME EmulationTypeOK, EmulationTypeOK', NEW t \in Threads, NEW d \in Devices, Others(t),
           AccountKept(d), NEW r \in Resources,
           \A q \in Resources : q # r => dense'[d][q] = dense[d][q],
           denseUsed'[d] = denseUsed[d], memory'[d] = memory[d],
           dense[d][r] + Charge(t, d) = dense'[d][r] + Charge(t, d)',
           dense[d][r] + Loan(t, d) = dense'[d][r] + Loan(t, d)'
    PROVE  AccountKept(d)'
<1>1. Countable(dense[d]) /\ Countable(Charges(d))
  BY DEF AccountKept
<1>2. /\ Countable(Charges(d))'
      /\ Total(Charges(d))' = Total(Charges(d)) - Charge(t, d) + Charge(t, d)'
      /\ Total(Loans(d))' = Total(Loans(d)) - Loan(t, d) + Loan(t, d)'
      /\ Total(Charges(d))' \in Nat /\ Total(Loans(d))' \in Nat
  BY <1>1, CallMoves
<1>3. /\ Countable(dense'[d]) /\ Total(dense[d]) \in Nat /\ Total(dense'[d]) \in Nat
      /\ Total(dense'[d]) = Total(dense[d]) - dense[d][r] + dense'[d][r]
      /\ dense[d][r] \in Nat /\ dense'[d][r] \in Nat
  <2>1. dense[d] \in [Resources -> Nat] /\ dense'[d] \in [Resources -> Nat]
    BY DEF EmulationTypeOK, RegistryTypeOK
  <2> QED BY <1>1, <2>1, TotalMoves
<1>4. Countable(dense[d])' /\ Total(dense[d])' = Total(dense'[d])
  BY <1>3 DEF Countable, Total, Cells
<1>5. Total(Charges(d)) \in Nat /\ Total(Loans(d)) \in Nat
  BY <1>1, LoansCounted
<1>6. /\ Charge(t, d) \in Nat /\ Loan(t, d) \in Nat
  BY AccountTypes
<1>7. /\ Charge(t, d)' \in Nat /\ Loan(t, d)' \in Nat
  <2>1. call' \in [Threads -> Calls] /\ call'[t].size \in Nat
    BY DEF EmulationTypeOK, CallsTypeOK, Calls
  <2> QED BY <2>1 DEF Charge, Loan
<1> DEFINE D == Total(dense[d])
           C == Total(Charges(d))
           L == Total(Loans(d))
           D2 == Total(dense[d])'
           C2 == Total(Charges(d))'
           L2 == Total(Loans(d))'
           a == Charge(t, d)
           b == Charge(t, d)'
           m == Loan(t, d)
           n == Loan(t, d)'
           x == dense[d][r]
           y == dense'[d][r]
<1>8. denseUsed[d] = D + C /\ memory[d] = D + L /\ denseUsed[d] <= Budget
  BY DEF AccountKept
<1>9. /\ denseUsed'[d] = denseUsed[d] /\ memory'[d] = memory[d]
      /\ D2 = D - x + y /\ C2 = C - a + b /\ L2 = L - m + n
      /\ x + a = y + b /\ x + m = y + n
  BY <1>2, <1>3, <1>4
<1>10. /\ D \in Nat /\ C \in Nat /\ L \in Nat /\ C2 \in Nat /\ L2 \in Nat
       /\ a \in Nat /\ b \in Nat /\ m \in Nat /\ n \in Nat /\ x \in Nat /\ y \in Nat
  BY <1>2, <1>3, <1>5, <1>6, <1>7
<1> HIDE DEF D, C, L, D2, C2, L2, a, b, m, n, x, y
<1>11. denseUsed'[d] = D2 + C2 /\ memory'[d] = D2 + L2
  BY <1>8, <1>9, <1>10
<1> QED BY <1>2, <1>4, <1>8, <1>9, <1>11 DEF AccountKept, D2, C2, L2

(* A call that holds nothing before and after keeps every account.         *)
LEMMA AccountIdle ==
    ASSUME EmulationTypeOK, EmulationTypeOK', NEW t \in Threads, NEW d \in Devices, Others(t),
           AccountKept(d), dense'[d] = dense[d], denseUsed'[d] = denseUsed[d], memory'[d] = memory[d],
           call[t].size = 0, call'[t].size = 0
    PROVE  AccountKept(d)'
<1>1. /\ Charge(t, d) = 0 /\ Loan(t, d) = 0
  BY DEF Charge, Loan
<1>2. /\ Charge(t, d)' = 0 /\ Loan(t, d)' = 0
  BY DEF Charge, Loan
<1>3. denseUsed[d] \in Nat /\ memory[d] \in Int /\ denseUsed[d] <= Budget
  BY AccountTypes DEF AccountKept
<1>4. /\ denseUsed'[d] = denseUsed[d] - Charge(t, d) + Charge(t, d)'
      /\ memory'[d] = memory[d] - Loan(t, d) + Loan(t, d)'
      /\ denseUsed'[d] <= Budget
  BY <1>1, <1>2, <1>3
<1> QED BY <1>4, AccountMoves

(* A device that no call and no record holds a part of has a clear account.*)
LEMMA AccountClear ==
    ASSUME EmulationTypeOK, NEW d \in Devices, \A r \in Resources : dense[d][r] = 0,
           \A t \in Threads : Charge(t, d) = 0
    PROVE  /\ Countable(dense[d]) /\ Total(dense[d]) = 0
           /\ Countable(Charges(d)) /\ Total(Charges(d)) = 0 /\ Total(Loans(d)) = 0
<1>1. /\ dense[d] \in [Resources -> Nat]
      /\ Charges(d) \in [Threads -> Nat] /\ Loans(d) \in [Threads -> Nat]
      /\ \A t \in Threads : Charges(d)[t] = 0 /\ Loans(d)[t] = 0
  BY AccountTypes DEF Loan
<1> QED BY <1>1, TotalOfNothing

(* A step of one thread keeps what another thread knows of its resource.   *)
LEMMA ResourceOthersKept ==
    ASSUME NEW t \in Threads, NEW u \in Threads, u # t, Others(t), CallKept(u), ResourceCallKept(u),
           call[u].resource # None =>
               /\ driverResources'[call[u].resource] # None /\ appResources'[call[u].resource] = None
               /\ call'[t].resource # call[u].resource,
           call[u].device # None => devices'[call[u].device] = devices[call[u].device]
    PROVE  ResourceCallKept(u)'
<1>1. pc'[u] = pc[u] /\ call'[u] = call[u] /\ \A v \in Threads : v # t => call'[v] = call[v]
  BY DEF Others
<1>2. pc[u] \in Making \union Creating => call[u].device # None
  BY DEF CallKept, Making, Creating
<1>3. pc[u] \in Making \/ (pc[u] \in Creating /\ call[u].sparse) => SparseHooks(call[u].device)'
  BY <1>1, <1>2 DEF ResourceCallKept, SparseHooks, QueryHooks
<1> QED BY <1>1, <1>3 DEF ResourceCallKept

(* Most calls have nothing to do with the budget.                          *)
Modest(t) ==
    /\ UNCHANGED <<devices, denseUsed, dense, driverResources, memory, appResources>>
    /\ Others(t)
    /\ pc[t] \notin Making \union Charged
    /\ pc'[t] \notin Making \union Charged
    /\ call'[t].size = 0 /\ call'[t].resource = None
    /\ pc'[t] \in Creating /\ call'[t].sparse => SparseHooks(call'[t].device)

(* A step of such a call keeps the invariant.                              *)
LEMMA ModestKeeps ==
    ASSUME EmulationInv, EmulationTypeOK', BudgetInv, NEW t \in Threads, Modest(t)
    PROVE  BudgetInv'
<1>1. call[t].size = 0
  BY DEF BudgetInv, ResourceCallKept, Modest
<1>2. ASSUME NEW d \in Devices PROVE AccountKept(d)'
  <2>1. /\ AccountKept(d) /\ EmulationTypeOK /\ Others(t) /\ call'[t].size = 0
        /\ dense'[d] = dense[d] /\ denseUsed'[d] = denseUsed[d] /\ memory'[d] = memory[d]
    BY DEF BudgetInv, EmulationInv, Modest
  <2> QED BY <1>1, <2>1, AccountIdle
<1>3. RecordsKept'
  BY DEF BudgetInv, RecordsKept, Modest, SparseHooks, QueryHooks
<1>4. ASSUME NEW u \in Threads, u # t PROVE ResourceCallKept(u)'
  <2>1. /\ ResourceCallKept(u) /\ CallKept(u) /\ Others(t)
        /\ UNCHANGED <<devices, driverResources, appResources>> /\ call'[t].resource = None
    BY DEF BudgetInv, EmulationInv, DevicesInv, CallsKept, Modest
  <2>2. call[u].resource # None =>
            driverResources[call[u].resource] # None /\ appResources[call[u].resource] = None
    BY <2>1 DEF ResourceCallKept
  <2> QED BY <1>4, <2>1, <2>2, ResourceOthersKept
<1>5. ResourceCallKept(t)'
  BY DEF ResourceCallKept, Modest, Charged, SparseHooks, QueryHooks
<1> QED BY <1>2, <1>3, <1>4, <1>5 DEF BudgetInv

(* What a call of a thread that is where it is comes to.                   *)
LEMMA ChargeOf ==
    ASSUME EmulationTypeOK, NEW t \in Threads, NEW d \in Devices
    PROVE  /\ d = call[t].device => Charge(t, d) = call[t].size
           /\ d # call[t].device => Charge(t, d) = 0
           /\ pc[t] \in Financed => Loan(t, d) = Charge(t, d)
           /\ pc[t] \notin Financed => Loan(t, d) = 0
BY DEF Charge, Loan

(* Instances and their profiles are not part of it.                        *)
LEMMA BudgetSame ==
    ASSUME BudgetInv, UNCHANGED <<devices, denseUsed, dense, driverResources, memory, appResources, pc, call>>
    PROVE  BudgetInv'
<1>1. ASSUME NEW d \in Devices PROVE AccountKept(d)'
  <2>1. AccountKept(d) /\ Charges(d)' = Charges(d) /\ Loans(d)' = Loans(d) /\ dense'[d] = dense[d]
        /\ denseUsed'[d] = denseUsed[d] /\ memory'[d] = memory[d]
    BY DEF BudgetInv, Charges, Loans, Charge, Loan
  <2> QED BY <2>1 DEF AccountKept, Countable, Total, Cells
<1>2. RecordsKept'
  BY DEF BudgetInv, RecordsKept, SparseHooks, QueryHooks
<1>3. ASSUME NEW t \in Threads PROVE ResourceCallKept(t)'
  <2>1. ResourceCallKept(t)
    BY DEF BudgetInv
  <2> QED BY <2>1 DEF ResourceCallKept, SparseHooks, QueryHooks
<1> QED BY <1>1, <1>2, <1>3 DEF BudgetInv

(* A thread that makes or destroys a device finds its account clear.       *)
LEMMA DeviceIsClear ==
    ASSUME EmulationInv, BudgetInv, NEW t \in Threads, pc[t] \in Alone
    PROVE  /\ call[t].size = 0 /\ call[t].resource = None
           /\ call[t].device \in Devices
           /\ \A u \in Threads : u # t => call[u].device # call[t].device
           /\ \A r \in Resources : dense[call[t].device][r] = 0
           /\ denseUsed[call[t].device] = 0
<1> DEFINE d == call[t].device
<1>1. /\ pc[t] \notin Charged \union Making \union {"destroy_resource"}
      /\ pc[t] \notin {"idle", "create_device"}
  BY DEF Alone, Charged, Making
<1>2. call[t].size = 0 /\ call[t].resource = None
  BY <1>1 DEF BudgetInv, ResourceCallKept
<1>3. /\ d # None /\ appDevices[d] = None /\ \A u \in Threads : u # t => call[u].device # d
  BY <1>1 DEF EmulationInv, DevicesInv, CallsKept, CallKept
<1>4. d \in Devices
  BY <1>3, CallTypes DEF EmulationInv
<1>5. ASSUME NEW r \in Resources PROVE dense[d][r] = 0
  <2>1. appResources[r] # d
    BY <1>3 DEF EmulationInv, DevicesInv, ChildrenKept
  <2> QED BY <1>4, <2>1 DEF BudgetInv, RecordsKept
<1>6. \A u \in Threads : Charge(u, d) = 0
  BY <1>2, <1>3 DEF Charge
<1>7. AccountKept(d) /\ EmulationTypeOK
  BY <1>4 DEF BudgetInv, EmulationInv
<1> HIDE DEF d
<1>8. Total(dense[d]) = 0 /\ Total(Charges(d)) = 0
  BY <1>4, <1>5, <1>6, <1>7, AccountClear
<1>9. denseUsed[d] = 0
  BY <1>7, <1>8 DEF AccountKept
<1> QED BY <1>2, <1>3, <1>4, <1>5, <1>9 DEF d

(* Its registration and its end leave every account as it is.              *)
LEMMA DeviceChanges ==
    ASSUME EmulationInv, EmulationTypeOK', BudgetInv, NEW t \in Threads, pc[t] \in Alone, Others(t),
           \A d \in Devices : /\ d # call[t].device => devices'[d] = devices[d]
                              /\ dense'[d] = dense[d] /\ denseUsed'[d] = denseUsed[d]
                              /\ memory'[d] = memory[d],
           UNCHANGED <<driverResources, appResources>>,
           call'[t].size = 0, call'[t].resource = None,
           pc'[t] \notin Making \union Charged \union Creating
    PROVE  BudgetInv'
<1>1. /\ call[t].size = 0 /\ call[t].resource = None /\ call[t].device \in Devices
      /\ \A u \in Threads : u # t => call[u].device # call[t].device
      /\ \A r \in Resources : dense[call[t].device][r] = 0
  BY DeviceIsClear
<1>2. ASSUME NEW d \in Devices PROVE AccountKept(d)'
  <2>1. AccountKept(d) /\ EmulationTypeOK
    BY DEF BudgetInv, EmulationInv
  <2> QED BY <1>1, <2>1, AccountIdle
<1>3. RecordsKept'
  BY <1>1 DEF BudgetInv, RecordsKept, SparseHooks, QueryHooks
<1>4. ASSUME NEW u \in Threads, u # t PROVE ResourceCallKept(u)'
  <2>1. ResourceCallKept(u) /\ CallKept(u)
    BY DEF BudgetInv, EmulationInv, DevicesInv, CallsKept
  <2>2. call[u].device \in Devices \union {None}
    BY CallTypes DEF EmulationInv
  <2>3. call[u].resource # None =>
            /\ driverResources'[call[u].resource] # None /\ appResources'[call[u].resource] = None
            /\ call'[t].resource # call[u].resource
    BY <2>1 DEF ResourceCallKept
  <2>4. call[u].device # None => devices'[call[u].device] = devices[call[u].device]
    BY <1>1, <1>4, <2>2
  <2> QED BY <1>4, <2>1, <2>3, <2>4, ResourceOthersKept
<1>5. ResourceCallKept(t)'
  BY DEF ResourceCallKept, Charged, Making
<1> QED BY <1>2, <1>3, <1>4, <1>5 DEF BudgetInv

(* Registering a device, and forgetting it, are such steps.                *)
LEMMA RegistrationKeeps ==
    ASSUME EmulationInv, EmulationTypeOK', BudgetInv, NEW t \in Threads,
           RegisterDevice(t) \/ UnregisterDevice(t)
    PROVE  BudgetInv'
<1> DEFINE d == call[t].device
<1>0. /\ DOMAIN pc = Threads /\ call \in [Threads -> Calls]
      /\ devices \in [Devices -> Selections \union {None}]
      /\ denseUsed \in [Devices -> Nat] /\ dense \in [Devices -> [Resources -> Nat]]
  BY DEF EmulationInv, EmulationTypeOK, CallsTypeOK, RegistryTypeOK
<1>1. pc[t] \in Alone /\ pc[t] \in {"register_device", "unregister_device"}
  BY DEF Alone, RegisterDevice, UnregisterDevice
<1>2. /\ call[t].size = 0 /\ call[t].resource = None /\ d \in Devices
      /\ \A r \in Resources : dense[d][r] = 0
      /\ denseUsed[d] = 0
  BY <1>1, DeviceIsClear
<1>3. /\ Others(t) /\ call'[t].size = 0 /\ call'[t].resource = None
      /\ pc'[t] \in {"idle", "destroy_device"}
      /\ UNCHANGED <<driverResources, appResources, memory>>
  <2>1. CASE RegisterDevice(t)
    BY <1>0, <2>1 DEF RegisterDevice, Finish, Goto, Others, NoCall, driver
  <2>2. CASE UnregisterDevice(t)
    BY <1>0, <1>2, <2>2 DEF UnregisterDevice, Goto, Others, driver, app
  <2> QED BY <2>1, <2>2
<1>4. /\ \E sel : devices' = [devices EXCEPT ![d] = sel]
      /\ denseUsed' = [denseUsed EXCEPT ![d] = 0]
      /\ dense' = [dense EXCEPT ![d] = [r \in Resources |-> 0]]
  BY DEF RegisterDevice, UnregisterDevice, ForgetDevice
<1>5. dense[d] = [r \in Resources |-> 0]
  BY <1>0, <1>2
<1> HIDE DEF d
<1>6. \A e \in Devices : /\ e # d => devices'[e] = devices[e]
                         /\ dense'[e] = dense[e] /\ denseUsed'[e] = denseUsed[e]
                         /\ memory'[e] = memory[e]
  BY <1>0, <1>2, <1>3, <1>4, <1>5
<1>7. pc'[t] \notin Making \union Charged \union Creating
  BY <1>3 DEF Making, Charged, Creating
<1> QED BY <1>1, <1>3, <1>6, <1>7, DeviceChanges DEF d

(* What others know of their resources, while a thread goes on with its    *)
(* own.                                                                    *)
LEMMA ResourceStays ==
    ASSUME EmulationInv, BudgetInv, NEW t \in Threads, Others(t),
           UNCHANGED <<devices, driverResources, appResources>>,
           call'[t].resource \in {call[t].resource, None}
    PROVE  \A u \in Threads : u # t => ResourceCallKept(u)'
<1> SUFFICES ASSUME NEW u \in Threads, u # t PROVE ResourceCallKept(u)'
  OBVIOUS
<1>1. ResourceCallKept(u) /\ ResourceCallKept(t) /\ CallKept(u)
  BY DEF BudgetInv, EmulationInv, DevicesInv, CallsKept
<1>2. call[u].resource # None =>
          /\ driverResources'[call[u].resource] # None /\ appResources'[call[u].resource] = None
          /\ call'[t].resource # call[u].resource
  BY <1>1 DEF ResourceCallKept
<1> QED BY <1>1, <1>2, ResourceOthersKept

(* The accounts of other devices stay.                                     *)
LEMMA AccountElsewhere ==
    ASSUME EmulationInv, EmulationTypeOK', BudgetInv, NEW t \in Threads, Others(t), NEW d \in Devices,
           d # call[t].device, d # call'[t].device,
           dense'[d] = dense[d], denseUsed'[d] = denseUsed[d], memory'[d] = memory[d]
    PROVE  AccountKept(d)'
<1>1. AccountKept(d) /\ EmulationTypeOK
  BY DEF BudgetInv, EmulationInv
<1>2. /\ Charge(t, d) = 0 /\ Loan(t, d) = 0
  BY DEF Charge, Loan
<1>3. /\ Charge(t, d)' = 0 /\ Loan(t, d)' = 0
  BY DEF Charge, Loan
<1>4. denseUsed[d] \in Nat /\ memory[d] \in Int /\ denseUsed[d] <= Budget
  BY <1>1, AccountTypes DEF AccountKept
<1>5. /\ denseUsed'[d] = denseUsed[d] - Charge(t, d) + Charge(t, d)'
      /\ memory'[d] = memory[d] - Loan(t, d) + Loan(t, d)'
      /\ denseUsed'[d] <= Budget
  BY <1>2, <1>3, <1>4
<1> QED BY <1>1, <1>5, AccountMoves

(* The device of a call that holds a part of its budget is registered.     *)
LEMMA CallTakes ==
    ASSUME EmulationInv, BudgetInv, NEW t \in Threads,
           pc[t] \in Creating \union Making \union Charged
    PROVE  /\ call[t].device \in Devices /\ devices[call[t].device] # None
           /\ AccountKept(call[t].device)
           /\ call[t].size \in Nat /\ denseUsed[call[t].device] \in Nat
           /\ memory[call[t].device] \in Int
           /\ call[t].size <= denseUsed[call[t].device]
           /\ pc[t] \in {"reserve", "undo"} \union Creating => call[t].size = 0
<1> DEFINE d == call[t].device
<1>1. pc[t] \notin Alone \union {"idle", "create_device"}
  BY DEF Alone, Creating, Making, Charged
<1>2. d # None /\ appDevices[d] # None /\ EmulationTypeOK
  BY <1>1 DEF EmulationInv, DevicesInv, CallsKept, CallKept
<1>3. d \in Devices /\ call[t].size \in Nat
  BY <1>2, CallTypes
<1>4. devices[d] # None
  BY <1>2, <1>3, EnabledIsThere DEF EmulationInv
<1>5. AccountKept(d)
  BY <1>3 DEF BudgetInv
<1> HIDE DEF d
<1>6. dense[d] \in [Resources -> Nat] /\ denseUsed[d] \in Nat /\ memory[d] \in Int
      /\ Charges(d) \in [Threads -> Nat] /\ Charges(d)[t] = Charge(t, d)
  BY <1>2, <1>3, AccountTypes
<1>7. Charge(t, d) = call[t].size
  BY DEF Charge, d
<1>8. Charge(t, d) <= Total(Charges(d)) /\ Total(Charges(d)) \in Nat
  BY <1>5, <1>6, TotalMoves DEF AccountKept
<1>9. Total(dense[d]) \in Nat
  BY <1>5, FS_CardinalityType DEF AccountKept, Countable, Total
<1>10. call[t].size <= denseUsed[d]
  BY <1>3, <1>5, <1>6, <1>7, <1>8, <1>9 DEF AccountKept
<1>11. pc[t] \in {"reserve", "undo"} \union Creating => call[t].size = 0
  BY DEF BudgetInv, ResourceCallKept, Charged, Creating
<1> QED BY <1>3, <1>4, <1>5, <1>6, <1>10, <1>11 DEF d

(* A step of a call in the middle of making or unmaking a dense resource:  *)
(* what it holds of its device changes with what the device counts.        *)
Moves(t) ==
    /\ UNCHANGED <<devices, dense, driverResources, appResources>>
    /\ Others(t)
    /\ pc[t] \in Making \union Charged
    /\ call'[t].resource \in {call[t].resource, None}
    /\ call'[t].device \in {call[t].device, None}
    /\ \A d \in Devices : d # call[t].device => denseUsed'[d] = denseUsed[d] /\ memory'[d] = memory[d]

(* Where the counts follow, it keeps the invariant.                        *)
LEMMA MovesKeep ==
    ASSUME EmulationInv, EmulationTypeOK', BudgetInv, NEW t \in Threads, Moves(t), NEW d, d = call[t].device,
           denseUsed'[d] = denseUsed[d] - Charge(t, d) + Charge(t, d)',
           memory'[d] = memory[d] - Loan(t, d) + Loan(t, d)',
           denseUsed'[d] <= Budget,
           ResourceCallKept(t)'
    PROVE  BudgetInv'
<1>1. d \in Devices /\ AccountKept(d) /\ EmulationTypeOK /\ Others(t) /\ dense' = dense
  BY CallTakes DEF Moves, EmulationInv
<1>2. AccountKept(d)'
  BY <1>1, AccountMoves
<1>3. ASSUME NEW e \in Devices, e # d PROVE AccountKept(e)'
  <2>1. e # call[t].device /\ e # call'[t].device /\ e # None
    BY <1>3, EmulationAssumption DEF Moves
  <2>2. dense'[e] = dense[e] /\ denseUsed'[e] = denseUsed[e] /\ memory'[e] = memory[e]
    BY <2>1 DEF Moves
  <2> QED BY <1>1, <2>1, <2>2, AccountElsewhere
<1>4. RecordsKept'
  BY DEF BudgetInv, RecordsKept, Moves, SparseHooks, QueryHooks
<1>5. \A u \in Threads : u # t => ResourceCallKept(u)'
  BY ResourceStays DEF Moves
<1> QED BY <1>2, <1>3, <1>4, <1>5 DEF BudgetInv

(* The call itself goes on with its resource.                              *)
LEMMA MovesOn ==
    ASSUME EmulationInv, BudgetInv, NEW t \in Threads, Moves(t),
           pc[t] \in Making => call'[t].device = call[t].device,
           pc'[t] \in Making => pc[t] \in Making,
           pc'[t] \notin Creating,
           pc'[t] \in Making \union {"destroy_resource"} <=> call'[t].resource # None,
           call'[t].size # 0 => pc'[t] \in Charged
    PROVE  ResourceCallKept(t)'
<1>1. ResourceCallKept(t)
  BY DEF BudgetInv
<1> QED BY <1>1 DEF ResourceCallKept, Moves, Others, SparseHooks, QueryHooks

(* The types that the steps on dense resources need.                       *)
LEMMA ResourceTypes ==
    ASSUME EmulationInv
    PROVE  /\ DOMAIN pc = Threads /\ call \in [Threads -> Calls]
           /\ devices \in [Devices -> Selections \union {None}]
           /\ denseUsed \in [Devices -> Nat] /\ dense \in [Devices -> [Resources -> Nat]]
           /\ memory \in [Devices -> Int]
           /\ driverResources \in [Resources -> Devices \union {None}]
           /\ appResources \in [Resources -> Devices \union {None}]
           /\ None \notin Devices /\ None \notin Resources
BY EmulationAssumption
DEF EmulationInv, EmulationTypeOK, CallsTypeOK, RegistryTypeOK, DriverTypeOK, AppTypeOK

(* A resource reserves its size where the budget allows it.                *)
LEMMA ReserveKeeps ==
    ASSUME EmulationInv, EmulationTypeOK', BudgetInv, NEW t \in Threads, NEW size \in Sizes, Reserve(t, size)
    PROVE  BudgetInv'
<1>0. /\ DOMAIN pc = Threads /\ call \in [Threads -> Calls]
      /\ denseUsed \in [Devices -> Nat]
  BY ResourceTypes
<1>1. pc[t] = "reserve" /\ size \in Nat
  BY EmulationAssumption DEF Reserve
<1>2. PICK d \in Devices : d = call[t].device
  BY <1>1, CallTakes DEF Making
<1>3. /\ devices[d] # None /\ denseUsed[d] \in Nat /\ denseUsed[d] <= Budget
      /\ call[t].size = 0 /\ memory[d] \in Int
  BY <1>1, <1>2, CallTakes DEF AccountKept, Making
<1>4. call[t].resource # None
  BY <1>1 DEF BudgetInv, ResourceCallKept, Making
<1>5. /\ UNCHANGED <<devices, dense, driverResources, appResources, memory>>
      /\ Others(t) /\ pc'[t] \in {"allocate", "undo"}
      /\ call'[t].device = d /\ call'[t].resource = call[t].resource
      /\ \A e \in Devices : e # d => denseUsed'[e] = denseUsed[e]
  BY <1>0, <1>2 DEF Reserve, Goto, Others, driver, app, Calls
<1>6. PICK n \in Nat : /\ n = call'[t].size /\ denseUsed'[d] = denseUsed[d] + n
                       /\ denseUsed[d] + n <= Budget
                       /\ n # 0 => pc'[t] = "allocate"
  <2>1. CASE size + denseUsed[d] <= Budget
    <3>1. /\ call' = [call EXCEPT ![t].size = size] /\ denseUsed' = [denseUsed EXCEPT ![d] = @ + size]
          /\ pc'[t] = "allocate"
      BY <1>0, <1>2, <1>3, <2>1 DEF Reserve, Goto
    <3>2. call'[t].size = size /\ denseUsed'[d] = denseUsed[d] + size
      BY <1>0, <3>1
    <3>3. denseUsed[d] + size <= Budget
      BY <1>1, <1>3, <2>1
    <3> QED BY <1>1, <3>1, <3>2, <3>3
  <2>2. CASE ~(size + denseUsed[d] <= Budget)
    <3>1. call' = [call EXCEPT ![t].size = 0] /\ denseUsed' = [denseUsed EXCEPT ![d] = @]
      BY <1>2, <2>2 DEF Reserve
    <3>2. call'[t].size = 0 /\ denseUsed'[d] = denseUsed[d]
      BY <1>0, <3>1
    <3>3. denseUsed[d] + 0 = denseUsed[d] /\ denseUsed[d] + 0 <= Budget
      BY <1>3
    <3> QED BY <3>2, <3>3
  <2> QED BY <2>1, <2>2
<1>7. Moves(t)
  BY <1>1, <1>2, <1>5 DEF Moves, Making
<1>8. ResourceCallKept(t)'
  <2>1. pc'[t] \in Making /\ pc[t] \in Making /\ pc'[t] \notin Creating
    BY <1>1, <1>5 DEF Making, Creating
  <2>2. call'[t].size # 0 => pc'[t] \in Charged
    BY <1>6 DEF Charged
  <2> QED BY <1>2, <1>4, <1>5, <1>7, <2>1, <2>2, MovesOn
<1>9. Charge(t, d) = 0 /\ Loan(t, d) = 0
  BY <1>3 DEF Charge, Loan
<1>10. Charge(t, d)' = n /\ Loan(t, d)' = 0
  BY <1>5, <1>6 DEF Charge, Loan, Financed
<1>11. /\ denseUsed'[d] = denseUsed[d] - Charge(t, d) + Charge(t, d)'
       /\ memory'[d] = memory[d] - Loan(t, d) + Loan(t, d)'
       /\ denseUsed'[d] <= Budget
  BY <1>3, <1>5, <1>6, <1>9, <1>10
<1> QED BY <1>2, <1>7, <1>8, <1>11, MovesKeep

(* Memory is allocated and bound within what was reserved.                 *)
LEMMA FinanceKeeps ==
    ASSUME EmulationInv, EmulationTypeOK', BudgetInv, NEW t \in Threads,
           Allocate(t) \/ Bind(t) \/ FreeMemory(t)
    PROVE  BudgetInv'
<1>0. DOMAIN pc = Threads /\ call \in [Threads -> Calls] /\ memory \in [Devices -> Int]
  BY ResourceTypes
<1>1. /\ pc[t] \in {"allocate", "bind", "free_memory"}
      /\ pc'[t] \in {"bind", "release_undo", "record", "release"}
      /\ pc[t] \in {"allocate", "bind"} => pc'[t] \in {"bind", "release_undo", "record"}
      /\ pc[t] = "free_memory" => pc'[t] = "release"
      /\ pc' = [pc EXCEPT ![t] = pc'[t]]
      /\ UNCHANGED <<devices, dense, denseUsed, driverResources, appResources, call>>
  BY <1>0 DEF Allocate, Bind, FreeMemory, Goto, registry, app
<1>d. PICK d \in Devices, s \in Nat : d = call[t].device /\ s = call[t].size
  BY <1>1, CallTakes DEF Charged
<1>2. /\ d \in Devices /\ denseUsed[d] \in Nat /\ denseUsed[d] <= Budget
      /\ s \in Nat /\ memory[d] \in Int
  BY <1>1, <1>d, CallTakes DEF AccountKept, Charged
<1>3. pc[t] # "free_memory" <=> call[t].resource # None
  BY <1>1 DEF BudgetInv, ResourceCallKept, Making
<1>4. /\ \A e \in Devices : e # d => memory'[e] = memory[e]
      /\ memory'[d] = memory[d] - (IF pc[t] \in Financed THEN s ELSE 0)
                                + (IF pc'[t] \in Financed THEN s ELSE 0)
  <2>1. CASE Allocate(t)
    BY <1>0, <1>d, <1>2, <2>1 DEF Allocate, Goto, Financed
  <2>2. CASE Bind(t)
    BY <1>0, <1>d, <1>2, <2>2 DEF Bind, Goto, Financed
  <2>3. CASE FreeMemory(t)
    BY <1>0, <1>d, <1>2, <2>3 DEF FreeMemory, Goto, Financed
  <2> QED BY <2>1, <2>2, <2>3
<1>5. Moves(t)
  BY <1>0, <1>d, <1>1, <1>4 DEF Moves, Others, Charged
<1>6. ResourceCallKept(t)'
  <2>1. /\ pc'[t] \in Making => pc[t] \in Making
        /\ pc'[t] \notin Creating /\ pc'[t] \in Charged /\ pc'[t] # "destroy_resource"
        /\ pc'[t] \in Making <=> pc[t] # "free_memory"
    BY <1>1 DEF Making, Creating, Charged
  <2> QED BY <1>d, <1>1, <1>3, <1>5, <2>1, MovesOn
<1>7. Charge(t, d) = s /\ Charge(t, d)' = s
  BY <1>d, <1>1 DEF Charge
<1>8. Loan(t, d) = IF pc[t] \in Financed THEN s ELSE 0
  BY <1>d DEF Loan, Charge
<1>9. Loan(t, d)' = IF pc'[t] \in Financed THEN s ELSE 0
  BY <1>7 DEF Loan
<1>10. /\ denseUsed'[d] = denseUsed[d] - Charge(t, d) + Charge(t, d)'
       /\ memory'[d] = memory[d] - Loan(t, d) + Loan(t, d)'
       /\ denseUsed'[d] <= Budget
  BY <1>1, <1>2, <1>4, <1>7, <1>8, <1>9
<1> QED BY <1>5, <1>6, <1>10, MovesKeep, <1>d

(* What is given back was reserved, and never more than is counted.        *)
LEMMA ReleaseKeeps ==
    ASSUME EmulationInv, EmulationTypeOK', BudgetInv, NEW t \in Threads, ReleaseBudget(t)
    PROVE  BudgetInv'
<1>0. DOMAIN pc = Threads /\ call \in [Threads -> Calls] /\ denseUsed \in [Devices -> Nat]
  BY ResourceTypes
<1>1. /\ pc[t] \in {"release_undo", "release"}
      /\ pc'[t] = (IF pc[t] = "release" THEN "idle" ELSE "undo")
      /\ pc' = [pc EXCEPT ![t] = pc'[t]]
      /\ call' = [call EXCEPT ![t] = IF pc[t] = "release" THEN NoCall ELSE [@ EXCEPT !.size = 0]]
      /\ UNCHANGED <<devices, dense, memory, driverResources, appResources>>
  BY <1>0 DEF ReleaseBudget, Finish, Goto, driver, app
<1>d. PICK d \in Devices, s \in Nat : d = call[t].device /\ s = call[t].size
  BY <1>1, CallTakes DEF Charged
<1>2. /\ d \in Devices /\ denseUsed[d] \in Nat /\ denseUsed[d] <= Budget /\ devices[d] # None
      /\ s \in Nat /\ s <= denseUsed[d] /\ memory[d] \in Int
  BY <1>1, <1>d, CallTakes DEF AccountKept, Charged
<1>3. pc[t] = "release_undo" <=> call[t].resource # None
  BY <1>1 DEF BudgetInv, ResourceCallKept, Making
<1>4. /\ call'[t].size = 0
      /\ pc[t] = "release" => call'[t].device = None /\ call'[t].resource = None
      /\ pc[t] # "release" => call'[t].device = d /\ call'[t].resource = call[t].resource
  BY <1>0, <1>d, <1>1 DEF NoCall, Calls
<1>5. denseUsed' = [denseUsed EXCEPT ![d] = denseUsed[d] - s]
  <2>1. Released(d, s) = denseUsed[d] - s
    BY <1>2 DEF Released
  <2>2. denseUsed' = [denseUsed EXCEPT ![d] = Released(d, s)]
    BY <1>d, <1>2 DEF ReleaseBudget
  <2> QED BY <2>1, <2>2
<1>6. denseUsed'[d] = denseUsed[d] - s /\ \A e \in Devices : e # d => denseUsed'[e] = denseUsed[e]
  BY <1>0, <1>2, <1>5
<1>7. Moves(t)
  BY <1>0, <1>d, <1>1, <1>4, <1>6 DEF Moves, Others, Charged
<1>8. ResourceCallKept(t)'
  <2>1. /\ pc'[t] \in Making => pc[t] \in Making
        /\ pc'[t] \notin Creating /\ pc'[t] # "destroy_resource"
        /\ pc'[t] \in Making <=> pc[t] = "release_undo"
        /\ pc[t] \in Making => pc[t] # "release"
    BY <1>1 DEF Making, Creating
  <2> QED BY <1>d, <1>1, <1>3, <1>4, <1>7, <2>1, MovesOn
<1>9. Charge(t, d) = s /\ Loan(t, d) = 0
  BY <1>d, <1>1 DEF Charge, Loan, Financed
<1>10. Charge(t, d)' = 0 /\ Loan(t, d)' = 0
  BY <1>4 DEF Charge, Loan
<1>11. /\ denseUsed'[d] = denseUsed[d] - Charge(t, d) + Charge(t, d)'
       /\ memory'[d] = memory[d] - Loan(t, d) + Loan(t, d)'
       /\ denseUsed'[d] <= Budget
  <2>1. denseUsed[d] - s <= Budget
    BY <1>2, EmulationAssumption
  <2> QED BY <1>1, <1>2, <1>6, <1>9, <1>10, <2>1
<1> QED BY <1>7, <1>8, <1>11, MovesKeep, <1>d

(* A call that holds as much as before keeps every account.                *)
LEMMA AccountSame ==
    ASSUME EmulationInv, EmulationTypeOK', BudgetInv, NEW t \in Threads, Others(t),
           UNCHANGED <<dense, denseUsed, memory>>, NEW d \in Devices,
           Charge(t, d)' = Charge(t, d), Loan(t, d)' = Loan(t, d)
    PROVE  AccountKept(d)'
<1>1. AccountKept(d) /\ EmulationTypeOK
  BY DEF BudgetInv, EmulationInv
<1>2. /\ Charge(t, d) \in Nat /\ Loan(t, d) \in Nat
      /\ denseUsed[d] \in Nat /\ memory[d] \in Int /\ denseUsed[d] <= Budget
  BY <1>1, AccountTypes DEF AccountKept
<1>3. /\ denseUsed'[d] = denseUsed[d] - Charge(t, d) + Charge(t, d)'
      /\ memory'[d] = memory[d] - Loan(t, d) + Loan(t, d)'
      /\ denseUsed'[d] <= Budget
  BY <1>2
<1> QED BY <1>1, <1>3, AccountMoves

(* The driver makes a resource that nobody has.                            *)
LEMMA CreationKeepsBudget ==
    ASSUME EmulationInv, EmulationTypeOK', BudgetInv, NEW t \in Threads, NEW r \in Resources,
           DriverCreatesResource(t, r)
    PROVE  BudgetInv'
<1>0. /\ DOMAIN pc = Threads /\ call \in [Threads -> Calls]
      /\ driverResources \in [Resources -> Devices \union {None}]
      /\ appResources \in [Resources -> Devices \union {None}]
      /\ None \notin Devices /\ None \notin Resources
  BY ResourceTypes
<1>1. pc[t] \in Creating /\ driverResources[r] = None
  BY DEF DriverCreatesResource, Creating
<1>2. PICK d \in Devices : d = call[t].device
  BY <1>1, CallTakes
<1>3. call[t].size = 0
  BY <1>1, CallTakes
<1>4. /\ appResources[r] = None /\ \A u \in Threads : call[u].resource # r
      /\ \A e \in Devices : dense[e][r] = 0
  <2>1. appResources[r] = None
    BY <1>1 DEF BudgetInv, RecordsKept
  <2>2. \A u \in Threads : call[u].resource # r
    BY <1>0, <1>1 DEF BudgetInv, ResourceCallKept
  <2> QED BY <1>0, <2>1, <2>2 DEF BudgetInv, RecordsKept
<1>5. /\ UNCHANGED <<devices, dense, denseUsed, memory>> /\ Others(t) /\ call'[t].size = 0
      /\ driverResources' = [driverResources EXCEPT ![r] = d]
      /\ \/ /\ call[t].sparse /\ call'[t].resource = r /\ call'[t].device = d
            /\ pc'[t] = "reserve" /\ UNCHANGED appResources
         \/ /\ call'[t].resource = None /\ pc'[t] = "idle"
            /\ appResources' = [appResources EXCEPT ![r] = d]
  BY <1>0, <1>2, <1>3 DEF DriverCreatesResource, Finish, Goto, Others, registry, app, Calls, NoCall
<1>6. ASSUME NEW e \in Devices PROVE AccountKept(e)'
  <2>1. AccountKept(e) /\ EmulationTypeOK
    BY DEF BudgetInv, EmulationInv
  <2> QED BY <1>3, <1>5, <2>1, AccountIdle
<1>7. RecordsKept'
  BY <1>0, <1>4, <1>5 DEF BudgetInv, RecordsKept, SparseHooks, QueryHooks
<1>8. ASSUME NEW u \in Threads, u # t PROVE ResourceCallKept(u)'
  <2>1. ResourceCallKept(u) /\ CallKept(u) /\ call[u].resource \in Resources \union {None}
    BY CallTypes DEF BudgetInv, EmulationInv, DevicesInv, CallsKept
  <2>2. call[u].resource # None =>
            /\ driverResources'[call[u].resource] # None /\ appResources'[call[u].resource] = None
            /\ call'[t].resource # call[u].resource
    BY <1>0, <1>4, <1>5, <2>1 DEF ResourceCallKept
  <2> QED BY <1>5, <1>8, <2>1, <2>2, ResourceOthersKept
<1>9. ResourceCallKept(t)'
  <2>1. CASE pc'[t] = "reserve"
    <3>1. SparseHooks(d)
      BY <1>1, <1>2, <1>5, <2>1 DEF BudgetInv, ResourceCallKept
    <3>2. /\ call'[t].resource = r /\ r # None /\ driverResources'[r] # None /\ appResources'[r] = None
          /\ call'[t].device = d /\ \A u \in Threads : u # t => call'[u].resource # r
      BY <1>0, <1>4, <1>5, <2>1 DEF Others
    <3> QED BY <1>5, <2>1, <3>1, <3>2 DEF ResourceCallKept, Making, Creating, SparseHooks, QueryHooks
  <2>2. CASE pc'[t] = "idle"
    BY <1>5, <2>2 DEF ResourceCallKept, Making, Creating
  <2> QED BY <1>5, <2>1, <2>2
<1> QED BY <1>6, <1>7, <1>8, <1>9 DEF BudgetInv

(* The driver destroys a resource, because it could not be made dense or   *)
(* because the application is done with it.                                *)
LEMMA DestructionKeepsBudget ==
    ASSUME EmulationInv, EmulationTypeOK', BudgetInv, NEW t \in Threads,
           Undo(t) \/ DriverDestroysResource(t)
    PROVE  BudgetInv'
<1>0. /\ DOMAIN pc = Threads /\ call \in [Threads -> Calls]
      /\ driverResources \in [Resources -> Devices \union {None}]
      /\ None \notin Devices /\ None \notin Resources
  BY ResourceTypes
<1>1. pc[t] \in {"undo", "destroy_resource"} /\ call[t].size \in Nat
  BY <1>0 DEF Undo, DriverDestroysResource, Calls
<1>2. PICK r \in Resources : r = call[t].resource
  <2>1. call[t].resource # None /\ call[t].resource \in Resources \union {None}
    BY <1>1, CallTypes DEF BudgetInv, ResourceCallKept, Making, EmulationInv
  <2> QED BY <2>1
<1>3. /\ appResources[r] = None /\ \A u \in Threads : u # t => call[u].resource # r
  BY <1>0, <1>2 DEF BudgetInv, ResourceCallKept
<1>4. pc[t] = "undo" => call[t].size = 0
  BY DEF BudgetInv, ResourceCallKept, Charged
<1>5. /\ UNCHANGED <<devices, dense, denseUsed, memory, appResources>> /\ Others(t)
      /\ driverResources' = [driverResources EXCEPT ![r] = None]
      /\ call'[t].resource = None
      /\ \/ call[t].size = 0 /\ call'[t].size = 0 /\ pc'[t] = "idle"
         \/ /\ pc[t] = "destroy_resource" /\ pc'[t] = "free_memory"
            /\ call'[t].size = call[t].size /\ call'[t].device = call[t].device
  <2>1. CASE Undo(t)
    BY <1>0, <1>2, <1>4, <2>1 DEF Undo, Finish, Goto, Others, registry, app, NoCall
  <2>2. CASE DriverDestroysResource(t)
    <3>1. call[t].size > 0 \/ call[t].size = 0
      BY <1>1
    <3> QED
      BY <1>0, <1>2, <2>2, <3>1
      DEF DriverDestroysResource, Finish, Goto, Others, registry, app, NoCall, Calls
  <2> QED BY <2>1, <2>2
<1>6. ASSUME NEW e \in Devices PROVE AccountKept(e)'
  <2>1. /\ Charge(t, e)' = Charge(t, e) /\ Loan(t, e)' = Loan(t, e)
    BY <1>5 DEF Charge, Loan, Financed
  <2> QED BY <1>5, <2>1, AccountSame
<1>7. RecordsKept'
  BY <1>0, <1>3, <1>5 DEF BudgetInv, RecordsKept, SparseHooks, QueryHooks
<1>8. ASSUME NEW u \in Threads, u # t PROVE ResourceCallKept(u)'
  <2>1. ResourceCallKept(u) /\ CallKept(u) /\ call[u].resource \in Resources \union {None}
    BY CallTypes DEF BudgetInv, EmulationInv, DevicesInv, CallsKept
  <2>2. call[u].resource # None =>
            /\ driverResources'[call[u].resource] # None /\ appResources'[call[u].resource] = None
            /\ call'[t].resource # call[u].resource
    BY <1>0, <1>3, <1>5, <1>8, <2>1 DEF ResourceCallKept
  <2> QED BY <1>5, <1>8, <2>1, <2>2, ResourceOthersKept
<1>9. ResourceCallKept(t)'
  BY <1>5 DEF ResourceCallKept, Making, Creating, Charged
<1> QED BY <1>6, <1>7, <1>8, <1>9 DEF BudgetInv

(* The record of a dense resource takes over what its call held.           *)
LEMMA RecordKeeps ==
    ASSUME EmulationInv, EmulationTypeOK', BudgetInv, NEW t \in Threads, Record(t)
    PROVE  BudgetInv'
<1>0. /\ DOMAIN pc = Threads /\ call \in [Threads -> Calls]
      /\ dense \in [Devices -> [Resources -> Nat]]
      /\ appResources \in [Resources -> Devices \union {None}]
      /\ None \notin Devices /\ None \notin Resources
  BY ResourceTypes
<1>1. pc[t] = "record" /\ pc[t] \in Making /\ pc[t] \in Charged
  BY DEF Record, Making, Charged
<1>2. PICK d \in Devices, s \in Nat : d = call[t].device /\ s = call[t].size
  BY <1>1, CallTakes
<1>3. PICK r \in Resources : r = call[t].resource
  <2>1. call[t].resource # None /\ call[t].resource \in Resources \union {None}
    BY <1>1, CallTypes DEF BudgetInv, ResourceCallKept, EmulationInv
  <2> QED BY <2>1
<1>4. /\ appResources[r] = None /\ driverResources[r] # None
      /\ \A u \in Threads : u # t => call[u].resource # r
      /\ SparseHooks(d) /\ devices[d] # None
  BY <1>0, <1>1, <1>2, <1>3, CallTakes DEF BudgetInv, ResourceCallKept
<1>5. dense[d][r] = 0
  BY <1>0, <1>4 DEF BudgetInv, RecordsKept
<1>6. /\ dense' = [dense EXCEPT ![d][r] = s]
      /\ UNCHANGED <<devices, denseUsed, memory, driverResources>> /\ Others(t)
      /\ appResources' = [appResources EXCEPT ![r] = d]
      /\ pc'[t] = "idle"
      /\ call'[t].size = 0 /\ call'[t].resource = None /\ call'[t].device = None
  <2>1. /\ UNCHANGED <<devices, denseUsed, memory, driverResources>> /\ Others(t)
        /\ appResources' = [appResources EXCEPT ![r] = d]
        /\ pc'[t] = "idle" /\ call'[t] = NoCall
    BY <1>0, <1>2, <1>3 DEF Record, Finish, Goto, Others, driver
  <2>2. dense' = [dense EXCEPT ![d][r] = s]
    BY <1>0, <1>2, <1>3, <1>4, <1>5 DEF Record
  <2> QED BY <2>1, <2>2 DEF NoCall
<1>7. /\ dense'[d][r] = s
      /\ \A q \in Resources : q # r => dense'[d][q] = dense[d][q]
      /\ \A e \in Devices : e # d => dense'[e] = dense[e]
  BY <1>0, <1>6
<1>8. AccountKept(d)'
  <2>1. Charge(t, d) = s /\ Loan(t, d) = s
    BY <1>1, <1>2 DEF Charge, Loan, Financed
  <2>2. Charge(t, d)' = 0 /\ Loan(t, d)' = 0
    BY <1>6 DEF Charge, Loan
  <2>3. /\ dense[d][r] + Charge(t, d) = dense'[d][r] + Charge(t, d)'
        /\ dense[d][r] + Loan(t, d) = dense'[d][r] + Loan(t, d)'
    BY <1>5, <1>7, <2>1, <2>2
  <2>4. AccountKept(d) /\ EmulationTypeOK
    BY DEF BudgetInv, EmulationInv
  <2> QED BY <1>6, <1>7, <2>3, <2>4, RecordMoves
<1>9. ASSUME NEW e \in Devices, e # d PROVE AccountKept(e)'
  BY <1>0, <1>2, <1>6, <1>7, <1>9, AccountElsewhere
<1>10. RecordsKept'
  BY <1>0, <1>4, <1>6, <1>7 DEF BudgetInv, RecordsKept, SparseHooks, QueryHooks
<1>11. ASSUME NEW u \in Threads, u # t PROVE ResourceCallKept(u)'
  <2>1. ResourceCallKept(u) /\ CallKept(u) /\ call[u].resource \in Resources \union {None}
    BY CallTypes DEF BudgetInv, EmulationInv, DevicesInv, CallsKept
  <2>2. call[u].resource # None =>
            /\ driverResources'[call[u].resource] # None /\ appResources'[call[u].resource] = None
            /\ call'[t].resource # call[u].resource
    BY <1>0, <1>4, <1>6, <1>11, <2>1 DEF ResourceCallKept
  <2> QED BY <1>6, <1>11, <2>1, <2>2, ResourceOthersKept
<1>12. ResourceCallKept(t)'
  BY <1>6 DEF ResourceCallKept, Making, Creating
<1> QED BY <1>8, <1>9, <1>10, <1>11, <1>12 DEF BudgetInv

(* The call that destroys a resource takes over what its record held.      *)
LEMMA UnrecordKeeps ==
    ASSUME EmulationInv, EmulationTypeOK', BudgetInv, NEW t \in Threads, NEW r \in Resources,
           DestroyResource(t, r)
    PROVE  BudgetInv'
<1>0. /\ DOMAIN pc = Threads /\ call \in [Threads -> Calls]
      /\ dense \in [Devices -> [Resources -> Nat]]
      /\ appResources \in [Resources -> Devices \union {None}]
      /\ None \notin Devices /\ None \notin Resources
  BY ResourceTypes
<1>1. PICK d \in Devices : d = appResources[r]
  BY <1>0 DEF DestroyResource
<1>2. PICK s \in Nat : s = dense[d][r]
  BY <1>0
<1>3. pc[t] = "idle" /\ call[t].size = 0 /\ call[t].device = None
  <2>1. pc[t] = "idle"
    BY DEF DestroyResource, Call
  <2> QED BY <2>1 DEF BudgetInv, ResourceCallKept, Charged, EmulationInv, DevicesInv, CallsKept, CallKept
<1>4. ~SparseHooks(d) => s = 0
  BY <1>1, <1>2 DEF BudgetInv, RecordsKept
<1>5. /\ dense' = [dense EXCEPT ![d][r] = 0]
      /\ call' = [call EXCEPT ![t] = [NoCall EXCEPT !.device = d, !.resource = r, !.size = s]]
  BY <1>0, <1>1, <1>2, <1>4 DEF DestroyResource, Call
<1>6. /\ UNCHANGED <<devices, denseUsed, memory, driverResources>> /\ Others(t)
      /\ appResources' = [appResources EXCEPT ![r] = None]
      /\ pc'[t] = "destroy_resource"
  BY <1>0 DEF DestroyResource, Call, Goto, Others, driver
<1>7. call'[t].size = s /\ call'[t].resource = r /\ call'[t].device = d
  BY <1>0, <1>5 DEF NoCall
<1>8. /\ dense'[d][r] = 0
      /\ \A q \in Resources : q # r => dense'[d][q] = dense[d][q]
      /\ \A e \in Devices : e # d => dense'[e] = dense[e]
  BY <1>0, <1>5
<1>9. AccountKept(d)'
  <2>1. Charge(t, d) = 0 /\ Loan(t, d) = 0
    BY <1>3 DEF Charge, Loan
  <2>2. Charge(t, d)' = s /\ Loan(t, d)' = s
    BY <1>6, <1>7 DEF Charge, Loan, Financed
  <2>3. /\ dense[d][r] + Charge(t, d) = dense'[d][r] + Charge(t, d)'
        /\ dense[d][r] + Loan(t, d) = dense'[d][r] + Loan(t, d)'
    BY <1>2, <1>8, <2>1, <2>2
  <2>4. AccountKept(d) /\ EmulationTypeOK
    BY DEF BudgetInv, EmulationInv
  <2> QED BY <1>6, <1>8, <2>3, <2>4, RecordMoves
<1>10. ASSUME NEW e \in Devices, e # d PROVE AccountKept(e)'
  BY <1>0, <1>3, <1>6, <1>7, <1>8, <1>10, AccountElsewhere
<1>11. \A e \in Devices : dense'[e][r] = 0
  BY <1>1, <1>8 DEF BudgetInv, RecordsKept
<1>12. RecordsKept'
  BY <1>0, <1>6, <1>8, <1>11 DEF BudgetInv, RecordsKept, SparseHooks, QueryHooks
<1>13. driverResources[r] # None /\ \A u \in Threads : call[u].resource # r
  BY <1>0, <1>1 DEF BudgetInv, RecordsKept, ResourceCallKept
<1>14. ASSUME NEW u \in Threads, u # t PROVE ResourceCallKept(u)'
  <2>1. ResourceCallKept(u) /\ CallKept(u) /\ call[u].resource \in Resources \union {None}
    BY CallTypes DEF BudgetInv, EmulationInv, DevicesInv, CallsKept
  <2>2. call[u].resource # None =>
            /\ driverResources'[call[u].resource] # None /\ appResources'[call[u].resource] = None
            /\ call'[t].resource # call[u].resource
    BY <1>0, <1>6, <1>7, <1>13, <2>1 DEF ResourceCallKept
  <2> QED BY <1>6, <1>14, <2>1, <2>2, ResourceOthersKept
<1>15. ResourceCallKept(t)'
  <2>1. appResources'[r] = None /\ r # None /\ \A u \in Threads : u # t => call'[u].resource # r
    BY <1>0, <1>6, <1>13 DEF Others
  <2> QED BY <1>6, <1>7, <1>13, <2>1 DEF ResourceCallKept, Making, Creating, Charged
<1> QED BY <1>9, <1>10, <1>12, <1>14, <1>15 DEF BudgetInv

(* Calls that have nothing to do with dense resources.                     *)
LEMMA ModestSteps ==
    ASSUME EmulationInv, BudgetInv, NEW t \in Threads
    PROVE  /\ \A i \in Instances, want \in Wanted, wellKnown \in BOOLEAN :
                  CreateDevice(t, i, Enables(i, want), told[i].extensions, wellKnown) => Modest(t)
           /\ DriverRefusesDevice(t) \/ DriverDestroysDevice(t) => Modest(t)
           /\ \A d \in Devices : DriverCreatesDevice(t, d) \/ DestroyDevice(t, d) => Modest(t)
           /\ \A d \in Devices, sparse \in BOOLEAN :
                  \/ CreateBuffer(t, d, sparse)
                  \/ \E plain2d \in BOOLEAN : CreateImage(t, d, sparse, plain2d)
                  => Modest(t)
           /\ \A r \in Images : GetImageSparseMemoryRequirements(t, r) => Modest(t)
           /\ PoolStep(t) \/ OtherStep(t) => Modest(t)
<1> USE DEF registry, driver, app
<1>0. /\ DOMAIN pc = Threads /\ call \in [Threads -> Calls]
  BY ResourceTypes
<1>1. /\ Making \union Charged = {"reserve", "allocate", "bind", "record", "release_undo", "undo",
                                  "destroy_resource", "free_memory", "release"}
      /\ Creating = {"create_buffer", "create_image"}
      /\ NoCall.size = 0 /\ NoCall.resource = None
  BY DEF Making, Charged, Creating, NoCall
<1>2. pc[t] \notin Making \union Charged => call[t].size = 0 /\ call[t].resource = None
  BY <1>1 DEF BudgetInv, ResourceCallKept, Making
<1> HIDE DEF Making
<1>3. ASSUME NEW i \in Instances, NEW want, NEW wellKnown \in BOOLEAN,
             CreateDevice(t, i, Enables(i, want), told[i].extensions, wellKnown)
      PROVE  Modest(t)
  BY <1>0, <1>1, <1>2, <1>3 DEF CreateDevice, Call, Goto, Others, Modest, NoCall, Calls
<1>4. ASSUME DriverRefusesDevice(t) PROVE Modest(t)
  BY <1>0, <1>1, <1>2, <1>4 DEF DriverRefusesDevice, Finish, Goto, Others, Modest, NoCall, Calls
<1>5. ASSUME DriverDestroysDevice(t) PROVE Modest(t)
  BY <1>0, <1>1, <1>2, <1>5 DEF DriverDestroysDevice, Finish, Goto, Others, Modest, NoCall, Calls
<1>6. ASSUME NEW d \in Devices, DriverCreatesDevice(t, d) PROVE Modest(t)
  BY <1>0, <1>1, <1>2, <1>6 DEF DriverCreatesDevice, Goto, Others, Modest, NoCall, Calls
<1>7. ASSUME NEW d \in Devices, DestroyDevice(t, d) PROVE Modest(t)
  BY <1>0, <1>1, <1>2, <1>7 DEF DestroyDevice, Call, Goto, Others, Modest, NoCall, Calls
<1>8. ASSUME NEW d \in Devices, NEW sparse \in BOOLEAN, NEW label \in Creating,
             CreateResource(t, d, label, sparse)
      PROVE  Modest(t)
  BY <1>0, <1>1, <1>2, <1>8 DEF CreateResource, Call, Goto, Others, Modest, NoCall, Calls
<1>9. ASSUME NEW r \in Images, GetImageSparseMemoryRequirements(t, r) PROVE Modest(t)
  BY <1>0, <1>1, <1>2, <1>9 DEF GetImageSparseMemoryRequirements, Call, Goto, Others, Modest, NoCall, Calls
<1>10. ASSUME PoolStep(t) PROVE Modest(t)
  <2>1. ASSUME NEW d \in Devices, NEW p \in Pools, NewFakePool(t, d, p) PROVE Modest(t)
    BY <1>0, <1>1, <1>2, <2>1 DEF NewFakePool, Call, Goto, Others, Modest, NoCall, Calls
  <2>2. ASSUME NEW d \in Devices, NEW statistics \in BOOLEAN, CreatePool(t, d, statistics) PROVE Modest(t)
    BY <1>0, <1>1, <1>2, <2>2 DEF CreatePool, Call, Goto, Others, Modest, NoCall, Calls
  <2>3. ASSUME NEW p \in Pools, DriverCreatesPool(t, p) PROVE Modest(t)
    <3>1. /\ pc[t] = "create_pool" /\ pc[t] \notin Making \union Charged
          /\ UNCHANGED <<devices, denseUsed, dense, driverResources, memory, appResources>>
      BY <1>1, <2>3 DEF DriverCreatesPool, GivePool
    <3>2. CASE QueryHooks(call[t].device)
      <4>1. call' = [call EXCEPT ![t].pool = p] /\ pc' = [pc EXCEPT ![t] = "record_pool"]
        BY <2>3, <3>2 DEF DriverCreatesPool, Goto
      <4> QED BY <1>0, <1>1, <1>2, <3>1, <4>1 DEF Others, Modest, Calls
    <3>3. CASE ~QueryHooks(call[t].device)
      <4>1. call' = [call EXCEPT ![t] = NoCall] /\ pc' = [pc EXCEPT ![t] = "idle"]
        BY <2>3, <3>3 DEF DriverCreatesPool, GivePool, Finish, Goto
      <4> QED BY <1>0, <1>1, <3>1, <4>1 DEF Others, Modest
    <3> QED BY <3>2, <3>3
  <2>4. ASSUME NEW p \in Pools, DestroyPool(t, p) PROVE Modest(t)
    BY <1>0, <1>1, <1>2, <2>4 DEF DestroyPool, Call, Goto, Others, Modest, NoCall, Calls
  <2>5. ASSUME NEW p \in Pools, NEW indexed \in BOOLEAN, PoolCommand(t, p, indexed) PROVE Modest(t)
    BY <1>0, <1>1, <1>2, <2>5 DEF PoolCommand, Call, Goto, Others, Modest, NoCall, Calls
  <2>6. ASSUME NEW p \in Pools, GetQueryPoolResults(t, p) PROVE Modest(t)
    BY <1>0, <1>1, <1>2, <2>6 DEF GetQueryPoolResults, Call, Goto, Others, Modest, NoCall, Calls
  <2>7. ASSUME EmplaceFakePool(t) PROVE Modest(t)
    BY <1>0, <1>1, <1>2, <2>7 DEF EmplaceFakePool, Finish, Goto, Others, Modest, NoCall, Calls
  <2>8. ASSUME RecordPool(t) PROVE Modest(t)
    BY <1>0, <1>1, <1>2, <2>8 DEF RecordPool, GivePool, Finish, Goto, Others, Modest, NoCall, Calls
  <2>9. ASSUME ForgetPool(t) PROVE Modest(t)
    BY <1>0, <1>1, <1>2, <2>9 DEF ForgetPool, Finish, Goto, Others, Modest, NoCall, Calls
  <2>10. ASSUME DriverDestroysPool(t) PROVE Modest(t)
    BY <1>0, <1>1, <1>2, <2>10 DEF DriverDestroysPool, Finish, Goto, Others, Modest, NoCall, Calls
  <2>11. ASSUME FindFakePool(t) PROVE Modest(t)
    BY <1>0, <1>1, <1>2, <2>11 DEF FindFakePool, Finish, Goto, Others, Modest, NoCall, Calls
  <2>12. ASSUME FindRealPool(t) PROVE Modest(t)
    BY <1>0, <1>1, <1>2, <2>12 DEF FindRealPool, Goto, Others, Modest, NoCall, Calls
  <2>13. ASSUME FindState(t) PROVE Modest(t)
    BY <1>0, <1>1, <1>2, <2>13 DEF FindState, Goto, Others, Modest, NoCall, Calls
  <2>14. ASSUME FindResults(t) PROVE Modest(t)
    BY <1>0, <1>1, <1>2, <2>14 DEF FindResults, Finish, Goto, Others, Modest, NoCall, Calls
  <2> QED BY <1>10, <2>1, <2>2, <2>3, <2>4, <2>5, <2>6, <2>7, <2>8, <2>9, <2>10, <2>11, <2>12,
             <2>13, <2>14 DEF PoolStep
<1>11. ASSUME OtherStep(t) PROVE Modest(t)
  <2>1. ASSUME NEW d \in Devices, QueueBindSparse(t, d) PROVE Modest(t)
    <3>1. PICK label, c : /\ Call(t, label, c) /\ c.size = 0 /\ c.resource = None
                          /\ label \in {"at_driver", "dropped"}
      <4>1. CASE SparseHooks(d)
        <5>1. /\ Call(t, IF d \in queues THEN "at_driver" ELSE "dropped", [NoCall EXCEPT !.device = d])
              /\ [NoCall EXCEPT !.device = d].size = 0 /\ [NoCall EXCEPT !.device = d].resource = None
          BY <2>1, <4>1 DEF QueueBindSparse, NoCall
        <5>2. CASE d \in queues
          BY <5>1, <5>2
        <5>3. CASE d \notin queues
          BY <5>1, <5>3
        <5> QED BY <5>2, <5>3
      <4>2. CASE ~SparseHooks(d)
        <5> DEFINE c == [NoCall EXCEPT !.device = d, !.uses = {"sparseBinding"}]
        <5>1. Call(t, "at_driver", c) /\ c.size = 0 /\ c.resource = None
          BY <2>1, <4>2 DEF QueueBindSparse, NoCall
        <5> QED BY <5>1
      <4> QED BY <4>1, <4>2
    <3> QED BY <1>0, <1>1, <2>1, <3>1 DEF QueueBindSparse, Call, Goto, Others, Modest
  <2>2. ASSUME NEW d \in Devices, NEW needs \in PipelineNeeds, CreateGraphicsPipelines(t, d, needs) PROVE Modest(t)
    BY <1>0, <1>1, <1>2, <2>2 DEF CreateGraphicsPipelines, Call, Goto, Others, Modest, NoCall, Calls
  <2>3. ASSUME NEW d \in Devices, GetDeviceMemoryRequirements(t, d) PROVE Modest(t)
    BY <1>0, <1>1, <1>2, <2>3 DEF GetDeviceMemoryRequirements, Call, Goto, Others, Modest, NoCall, Calls
  <2>4. ASSUME DriverReturns(t) PROVE Modest(t)
    BY <1>0, <1>1, <1>2, <2>4 DEF DriverReturns, Finish, Goto, Others, Modest, NoCall, Calls
  <2> QED BY <1>11, <2>1, <2>2, <2>3, <2>4 DEF OtherStep
<1>12. ASSUME NEW d \in Devices, NEW sparse \in BOOLEAN,
             CreateBuffer(t, d, sparse) \/ \E plain2d \in BOOLEAN : CreateImage(t, d, sparse, plain2d)
      PROVE  Modest(t)
  <2>1. PICK label \in Creating : CreateResource(t, d, label, sparse)
    BY <1>12 DEF CreateBuffer, CreateImage, Creating
  <2> QED BY <2>1, <1>8
<1> QED BY <1>3, <1>4, <1>5, <1>6, <1>7, <1>9, <1>10, <1>11, <1>12

(* Every step keeps what the budget counts.                                *)
LEMMA BudgetStep ==
    ASSUME EmulationInv, BudgetInv, [EmulationNext]_emulationVars
    PROVE  BudgetInv'
<1>0. EmulationTypeOK'
  BY EmulationSteps DEF EmulationInv
<1>1. ASSUME UNCHANGED <<registry, driver, app, pc, call>> PROVE BudgetInv'
  BY <1>1, BudgetSame DEF registry, driver, app
<1>2. ASSUME NEW t \in Threads, Modest(t) PROVE BudgetInv'
  BY <1>0, <1>2, ModestKeeps
<1>3. ASSUME NEW t \in Threads, DeviceStep(t) PROVE BudgetInv'
  <2>1. ASSUME RegisterDevice(t) \/ UnregisterDevice(t) PROVE BudgetInv'
    BY <1>0, <2>1, RegistrationKeeps
  <2>2. ASSUME NEW d \in Devices, GetDeviceQueue(t, d) PROVE BudgetInv'
    BY <2>2, BudgetSame DEF GetDeviceQueue, driver
  <2>3. ASSUME NEW i \in Instances, NEW want \in Wanted, NEW wellKnown \in BOOLEAN,
               CreateDevice(t, i, Enables(i, want), told[i].extensions, wellKnown)
        PROVE  BudgetInv'
    BY <1>2, <2>3, ModestSteps
  <2>4. ASSUME DriverRefusesDevice(t) \/ DriverDestroysDevice(t) PROVE BudgetInv'
    BY <1>2, <2>4, ModestSteps
  <2>5. ASSUME NEW d \in Devices, DriverCreatesDevice(t, d) \/ DestroyDevice(t, d) PROVE BudgetInv'
    BY <1>2, <2>5, ModestSteps
  <2> QED BY <1>3, <2>1, <2>2, <2>3, <2>4, <2>5 DEF DeviceStep
<1>4. ASSUME NEW t \in Threads, ResourceStep(t) PROVE BudgetInv'
  <2>1. ASSUME NEW d \in Devices, NEW sparse \in BOOLEAN,
               CreateBuffer(t, d, sparse) \/ \E plain2d \in BOOLEAN : CreateImage(t, d, sparse, plain2d)
        PROVE  BudgetInv'
    BY <1>2, <2>1, ModestSteps
  <2>2. ASSUME NEW r \in Images, GetImageSparseMemoryRequirements(t, r) PROVE BudgetInv'
    BY <1>2, <2>2, ModestSteps
  <2>3. ASSUME NEW r \in Resources, DriverCreatesResource(t, r) PROVE BudgetInv'
    BY <1>0, <2>3, CreationKeepsBudget
  <2>4. ASSUME NEW r \in Resources, DestroyBuffer(t, r) \/ DestroyImage(t, r) PROVE BudgetInv'
    BY <1>0, <2>4, UnrecordKeeps DEF DestroyBuffer, DestroyImage
  <2>5. ASSUME NEW size \in Sizes, Reserve(t, size) PROVE BudgetInv'
    BY <1>0, <2>5, ReserveKeeps
  <2>6. ASSUME Allocate(t) \/ Bind(t) \/ FreeMemory(t) PROVE BudgetInv'
    BY <1>0, <2>6, FinanceKeeps
  <2>7. ASSUME ReleaseBudget(t) PROVE BudgetInv'
    BY <1>0, <2>7, ReleaseKeeps
  <2>8. ASSUME Undo(t) \/ DriverDestroysResource(t) PROVE BudgetInv'
    BY <1>0, <2>8, DestructionKeepsBudget
  <2>9. ASSUME Record(t) PROVE BudgetInv'
    BY <1>0, <2>9, RecordKeeps
  <2> QED
    BY <1>4, <2>1, <2>2, <2>3, <2>4, <2>5, <2>6, <2>7, <2>8, <2>9 DEF ResourceStep, Resources
<1>5. ASSUME NEW t \in Threads, PoolStep(t) \/ OtherStep(t) PROVE BudgetInv'
  BY <1>2, <1>5, ModestSteps
<1>6. CASE InstanceStep
  BY <1>1, <1>6 DEF InstanceStep
<1>7. CASE UNCHANGED emulationVars
  BY <1>1, <1>7 DEF emulationVars
<1> QED BY <1>3, <1>4, <1>5, <1>6, <1>7 DEF EmulationNext

(* At first nothing is reserved and no memory held.                        *)
LEMMA BudgetStarts ==
    ASSUME EmulationInit
    PROVE  BudgetInv
<1>1. EmulationTypeOK
  BY EmulationStarts DEF EmulationInv
<1>2. /\ \A t \in Threads : call[t] = NoCall /\ pc[t] = "idle"
      /\ NoCall.size = 0 /\ NoCall.resource = None
  BY DEF EmulationInit, NoCall
<1>3. ASSUME NEW d \in Devices PROVE AccountKept(d)
  <2>1. /\ \A r \in Resources : dense[d][r] = 0
        /\ denseUsed[d] = 0 /\ memory[d] = 0
    BY DEF EmulationInit
  <2>2. \A t \in Threads : Charge(t, d) = 0
    BY <1>2 DEF Charge
  <2>3. /\ Countable(dense[d]) /\ Total(dense[d]) = 0
        /\ Countable(Charges(d)) /\ Total(Charges(d)) = 0 /\ Total(Loans(d)) = 0
    BY <1>1, <2>1, <2>2, AccountClear
  <2> QED BY <2>1, <2>3, EmulationAssumption DEF AccountKept
<1>4. RecordsKept
  BY DEF EmulationInit, RecordsKept
<1>5. ASSUME NEW t \in Threads PROVE ResourceCallKept(t)
  BY <1>2 DEF ResourceCallKept, Making, Creating
<1> QED BY <1>3, <1>4, <1>5 DEF BudgetInv

(* The memory of the dense resources of a device, those on their way       *)
(* included, stays within the budget.                                      *)
THEOREM BudgetIsKept == EmulationSpec => []BudgetHolds
<1>1. EmulationInit => EmulationInv /\ BudgetInv
  BY EmulationStarts, BudgetStarts
<1>2. EmulationInv /\ BudgetInv /\ [EmulationNext]_emulationVars => EmulationInv' /\ BudgetInv'
  BY EmulationSteps, BudgetStep
<1>3. EmulationInv /\ BudgetInv => BudgetHolds
  BY AccountHolds DEF EmulationInv, BudgetInv, BudgetHolds
<1> QED BY <1>1, <1>2, <1>3, PTL DEF EmulationSpec

-----------------------------------------------------------------------------
(* HandleKeys.                                                             *)

(* The inductive invariant.  The data of a device and the key of its       *)
(* handle point at each other, and nothing else is filed;                  *)
Filed == /\ \A k \in Tracked : /\ deviceData[k].device \in wsiDevices
                               /\ deviceKey[deviceData[k].device] = k
         /\ \A d \in wsiDevices : /\ deviceKey[d] \in Tracked
                                  /\ deviceData[deviceKey[d]].device = d
         /\ \A d \in Devices \ wsiDevices : deviceKey[d] = None

(* ... what is filed under an address of private data is at that address;  *)
BlocksHold == \A k \in Tracked \intersect Blocks : deviceData[k].block = k

(* ... a device the application has bears the word of the loader, and      *)
(* nobody knows of a device that was not created;                          *)
Given == /\ \A d \in given : word[d] = LoaderWord(d)
         /\ \A d \in given \union wsiDevices : parent[d] # None

(* ... the devices with a swapchain have data, which says so;              *)
ChainsOwned == \A d \in chain : d \in given \intersect wsiDevices /\ deviceData[deviceKey[d]].owns

(* ... and a queue has the key of its device.                              *)
QueuesKeyed == \A q \in Queues : queueOf[q] # None =>
    /\ queueOf[q] \in given
    /\ queueOf[q] \in wsiDevices => queueKey[q] = deviceKey[queueOf[q]]

Inv == TypeOK /\ Filed /\ BlocksHold /\ Given /\ ChainsOwned /\ QueuesKeyed

-----------------------------------------------------------------------------
(* What a look-up of a device gives: its data, or nothing. *)
LEMMA DeviceIsFound ==
    ASSUME TypeOK, Filed, Given, NEW d \in given
    PROVE  /\ d \in wsiDevices => /\ FindDevice(d) = deviceData[deviceKey[d]]
                                  /\ FindDevice(d) # None
                                  /\ FindDevice(d).device = d
           /\ d \notin wsiDevices => /\ FindDevice(d) = None
                                     /\ At(KeyOfDevice(d)) = None
<1>1. CASE d \in wsiDevices
  <2>1. deviceKey[d] \in Tracked /\ deviceKey[d] # None
    BY <1>1, KeysAssumption DEF Filed, Tracked
  <2>2. FindDevice(d) = deviceData[deviceKey[d]] /\ deviceData[deviceKey[d]] # None
    BY <2>1 DEF FindDevice, KeyOfDevice, At, Tracked
  <2> QED BY <1>1, <2>2 DEF Filed
<1>2. CASE d \notin wsiDevices
  <2>1. KeyOfDevice(d) = LoaderWord(d) /\ LoaderWord(d) \notin Keys
    BY <1>2, KeysAssumption DEF KeyOfDevice, Filed, Given, TypeOK
  <2>2. At(KeyOfDevice(d)) = None
    BY <2>1 DEF At, Tracked
  <2>3. KeysOfData(d) = {}
    BY <1>2 DEF KeysOfData, Filed
  <2> QED BY <1>2, <2>2, <2>3 DEF FindDevice
<1> QED BY <1>1, <1>2

(* The record of a device is at its key alone. *)
LEMMA RecordIsUnique ==
    ASSUME TypeOK, Filed, Given, NEW d \in given \intersect wsiDevices
    PROVE  (CHOOSE k \in Tracked : deviceData[k] = FindDevice(d)) = deviceKey[d]
<1>1. deviceKey[d] \in Tracked /\ deviceData[deviceKey[d]] = FindDevice(d)
  BY DeviceIsFound DEF Filed
<1>2. ASSUME NEW k \in Tracked, deviceData[k] = FindDevice(d) PROVE k = deviceKey[d]
  BY <1>2, DeviceIsFound DEF Filed
<1> QED BY <1>1, <1>2

(* The queues of the devices with data are looked up in one step. *)
LEMMA QueueIsFound ==
    ASSUME TypeOK, Filed, QueuesKeyed, NEW q \in Queues, queueOf[q] # None,
           queueOf[q] \in wsiDevices
    PROVE  /\ FindQueue(q) = deviceData[deviceKey[queueOf[q]]]
           /\ FindQueue(q) # None
           /\ ~Recovers(q)
<1>1. queueKey[q] \in Tracked /\ queueKey[q] = deviceKey[queueOf[q]]
  BY DEF QueuesKeyed, Filed
<1>2. KeyOfQueue(q) = queueKey[q]
  BY <1>1, KeysAssumption DEF KeyOfQueue, Tracked
<1>3. At(KeyOfQueue(q)) = deviceData[deviceKey[queueOf[q]]] /\ At(KeyOfQueue(q)) # None
  BY <1>1, <1>2 DEF At, Tracked
<1> QED BY <1>3 DEF FindQueue, Recovers

(* The functions of the layer's swapchain commands, from either table. *)
LEMMA CommandsAreTheLayers ==
    ASSUME NEW c \in SwapchainCommands, NEW d
    PROVE  ResolveInstance(c) = "layer" /\ Resolve(d, c, TRUE) = "layer"
<1>1. c \in FunctionPointers /\ c \in WsiFunctions
  BY DEF FunctionPointers, WsiFunctions, SwapchainCommands, GroupCommands
<1>2. c \notin InstanceWrappers
  BY DEF InstanceWrappers, SwapchainCommands
<1>3. c \notin Hooks(d) /\ c \notin DeviceWrappers /\ c \notin Withheld
  BY DEF Hooks, EmulationHooks, SparseCommands, DeviceWrappers, MapCommands, Withheld, SwapchainCommands
<1> QED BY <1>1, <1>2, <1>3 DEF ResolveInstance, Resolve

-----------------------------------------------------------------------------
(* No device: nothing to find, and nothing filed wrongly. *)
LEMMA Initially == Init => Inv
<1> SUFFICES ASSUME Init PROVE Inv
  OBVIOUS
<1>1. Tracked = {}
  BY DEF Init, Tracked
<1> QED BY <1>1 DEF Init, Inv, TypeOK, Filed, BlocksHold, Given, ChainsOwned, QueuesKeyed, Handles, Keys

(* A new device is filed under a key that nothing is filed under. *)
LEMMA KeyIsFree ==
    ASSUME Inv, NEW d \in Devices, NEW b \in FreeBlocks, parent[d] = None,
           word'[d] \in Words
    PROVE  /\ StoreKey(d, b) \in Keys \ Tracked
           /\ StoreKey(d, b) \in Blocks => StoreKey(d, b) = b
<1>1. d \notin wsiDevices /\ deviceKey[d] = None /\ KeysOfData(d) = {}
  BY DEF Inv, Given, Filed, KeysOfData
<1>2. b \notin Tracked /\ b \in Blocks
  BY DEF Inv, BlocksHold, FreeBlocks
<1>3. word'[d] \in Keys /\ word'[d] \notin Blocks
  BY KeysAssumption DEF Keys
<1>4. CASE word'[d] \in Tracked
  <2>1. StoreKey(d, b) = b
    BY <1>1, <1>4 DEF StoreKey, At, Tracked
  <2> QED BY <2>1, <1>2 DEF Keys
<1>5. CASE word'[d] \notin Tracked
  <2>1. StoreKey(d, b) = word'[d]
    BY <1>1, <1>5 DEF StoreKey, At
  <2> QED BY <2>1, <1>3, <1>5
<1> QED BY <1>4, <1>5

(* Creating a device keeps the invariant ... *)
LEMMA CreationKeeps ==
    ASSUME Inv, NEW d \in Devices, NEW i \in Instances, NEW t \in Instances, NEW w \in Words,
           DeviceCreated(d, i, t, w)
    PROVE  Inv'
<1>1. parent[d] = None /\ d \notin given \union wsiDevices /\ d \notin chain
  BY DEF DeviceCreated, Inv, Given, ChainsOwned
<1>2. word' = [word EXCEPT ![d] = w] /\ word'[d] = w /\ \A e \in Devices \ {d} : word'[e] = word[e]
  BY DEF DeviceCreated, Inv, TypeOK, Handles
<1>3. parent' = [parent EXCEPT ![d] = i] /\ parent'[d] # None /\ \A e \in Devices \ {d} : parent'[e] = parent[e]
  BY KeysAssumption DEF DeviceCreated, Inv, TypeOK
<1>4. UNCHANGED <<given, chain, queueOf, queueKey, live, instanceData, instanceKey>>
  BY DEF DeviceCreated, queueVars, instanceVars
<1>5. CASE UNCHANGED <<wsiDevices, deviceData, deviceKey>>
  <2>1. Tracked' = Tracked
    BY <1>5 DEF Tracked
  <2> QED BY <1>1, <1>2, <1>3, <1>4, <1>5, <2>1
          DEF Inv, TypeOK, Filed, BlocksHold, Given, ChainsOwned, QueuesKeyed
<1>6. CASE \E b \in FreeBlocks : Associate(d, b) /\ wsiDevices' = wsiDevices \union {d}
  <2>1. PICK b \in FreeBlocks : Associate(d, b)
    BY <1>6
  <2> DEFINE k == StoreKey(d, b)
  <2>2. k \in Keys \ Tracked /\ (k \in Blocks => k = b)
    BY <1>1, <1>2, KeyIsFree
  <2>3. deviceData' = [deviceData EXCEPT ![k] = Data(d, b)] /\ deviceKey' = [deviceKey EXCEPT ![d] = k]
    BY <2>1, <2>2 DEF Associate
  <2>4. Data(d, b) \in PrivateData /\ Data(d, b) # None /\ Data(d, b).device = d /\ Data(d, b).block = b
    <3>1. b \in Blocks
      BY DEF FreeBlocks
    <3>2. Data(d, b) \in PrivateData
      BY <3>1 DEF Data, PrivateData
    <3>3. Data(d, b) # None
      BY <3>2, KeysAssumption
    <3> QED BY <3>2, <3>3 DEF Data
  <2>5. Tracked' = Tracked \union {k}
    BY <2>2, <2>3, <2>4 DEF Tracked, Inv, TypeOK
  <2>6. deviceData'[k] = Data(d, b) /\ \A j \in Tracked : deviceData'[j] = deviceData[j]
    BY <2>2, <2>3 DEF Tracked, Inv, TypeOK
  <2>7. deviceKey'[d] = k /\ \A e \in Devices \ {d} : deviceKey'[e] = deviceKey[e]
    BY <2>3 DEF Inv, TypeOK
  <2>8. wsiDevices' = wsiDevices \union {d}
    BY <1>6
  <2>9. TypeOK'
    BY <1>2, <1>3, <1>4, <2>2, <2>3, <2>4, <2>8 DEF Inv, TypeOK, Handles
  <2>10. Filed'
    <3>1. ASSUME NEW j \in Tracked'
          PROVE  deviceData'[j].device \in wsiDevices' /\ deviceKey'[deviceData'[j].device] = j
      <4>1. CASE j = k
        BY <4>1, <2>4, <2>6, <2>7, <2>8
      <4>2. CASE j # k
        BY <4>2, <1>1, <2>5, <2>6, <2>7, <2>8 DEF Inv, Filed, TypeOK
      <4> QED BY <4>1, <4>2
    <3>2. ASSUME NEW e \in wsiDevices'
          PROVE  deviceKey'[e] \in Tracked' /\ deviceData'[deviceKey'[e]].device = e
      <4>1. CASE e = d
        BY <4>1, <2>4, <2>5, <2>6, <2>7
      <4>2. CASE e # d
        BY <4>2, <2>5, <2>6, <2>7, <2>8 DEF Inv, Filed, TypeOK
      <4> QED BY <4>1, <4>2
    <3>3. \A e \in Devices \ wsiDevices' : deviceKey'[e] = None
      BY <2>7, <2>8 DEF Inv, Filed
    <3> QED BY <3>1, <3>2, <3>3 DEF Filed
  <2>11. BlocksHold'
    BY <2>2, <2>4, <2>5, <2>6 DEF Inv, BlocksHold
  <2>12. Given'
    BY <1>1, <1>2, <1>3, <1>4, <2>8 DEF Inv, Given, TypeOK
  <2>13. ChainsOwned'
    <3> SUFFICES ASSUME NEW e \in chain
                 PROVE  e \in given' \intersect wsiDevices' /\ deviceData'[deviceKey'[e]].owns
      BY <1>4 DEF ChainsOwned
    <3>1. e # d /\ e \in wsiDevices /\ deviceKey[e] \in Tracked
      BY <1>1 DEF Inv, ChainsOwned, Filed
    <3> QED BY <3>1, <1>4, <2>6, <2>7, <2>8 DEF Inv, ChainsOwned, TypeOK
  <2>14. QueuesKeyed'
    BY <1>1, <1>4, <2>7, <2>8 DEF Inv, QueuesKeyed, TypeOK
  <2> QED BY <2>9, <2>10, <2>11, <2>12, <2>13, <2>14 DEF Inv
<1> QED BY <1>5, <1>6 DEF DeviceCreated

(* The records change their mark alone. *)
LEMMA MarkKeeps ==
    ASSUME Inv, NEW d \in given \intersect wsiDevices, NEW yes \in BOOLEAN, Owns(d, yes),
           UNCHANGED <<wsiDevices, deviceKey>>
    PROVE  /\ deviceData' \in [Keys -> PrivateData \union {None}]
           /\ Filed' /\ BlocksHold'
           /\ deviceData'[deviceKey[d]].owns = yes
           /\ \A e \in wsiDevices \ {d} : deviceData'[deviceKey[e]] = deviceData[deviceKey[e]]
<1> DEFINE k == deviceKey[d]
           r == [deviceData[k] EXCEPT !.owns = yes]
<1>1. k \in Tracked /\ k \in Keys /\ deviceData[k] \in PrivateData
  BY DEF Inv, Filed, Tracked, TypeOK
<1>2. deviceData' = [deviceData EXCEPT ![k] = r]
  BY RecordIsUnique DEF Owns, Inv
<1>3. r \in PrivateData /\ r.device = deviceData[k].device /\ r.block = deviceData[k].block /\ r.owns = yes
  BY <1>1 DEF PrivateData
<1>4. r # None
  BY <1>3, KeysAssumption
<1>5. deviceData'[k] = r /\ \A j \in Keys \ {k} : deviceData'[j] = deviceData[j]
  BY <1>1, <1>2 DEF Inv, TypeOK
<1>6. deviceData' \in [Keys -> PrivateData \union {None}]
  BY <1>1, <1>2, <1>3 DEF Inv, TypeOK
<1>7. Tracked' = Tracked
  BY <1>1, <1>4, <1>5 DEF Tracked
<1>8. \A j \in Tracked : /\ deviceData'[j].device = deviceData[j].device
                         /\ deviceData'[j].block = deviceData[j].block
  BY <1>3, <1>5 DEF Tracked
<1>9. Filed' /\ BlocksHold'
  BY <1>7, <1>8 DEF Inv, Filed, BlocksHold
<1>10. ASSUME NEW e \in wsiDevices \ {d} PROVE deviceKey[e] \in Keys \ {k}
  BY DEF Inv, Filed, Tracked
<1> HIDE DEF k, r
<1> QED BY <1>3, <1>5, <1>6, <1>9, <1>10 DEF k

(* ... so does a swapchain that comes or goes ... *)
LEMMA SwapchainsKeep ==
    ASSUME Inv, NEW d \in Devices, DestroySwapchain(d) \/ \E q \in Queues : CreateSwapchain(d, q)
    PROVE  Inv'
<1>1. d \in given \intersect wsiDevices
  BY DeviceIsFound DEF CreateSwapchain, DestroySwapchain, Inv, ChainsOwned
<1>2. UNCHANGED <<word, live, parent, given, wsiDevices, deviceKey, queueOf, instanceData, instanceKey>>
  BY DEF CreateSwapchain, DestroySwapchain, instanceVars, deviceVars, queueVars
<1>3. QueuesKeyed' /\ DOMAIN queueKey' = Queues
  <2>1. CASE UNCHANGED queueKey
    BY <2>1, <1>2 DEF Inv, QueuesKeyed, TypeOK
  <2>2. ASSUME NEW q \in Queues, RegisterQueue(d, q), queueOf[q] = d
        PROVE  QueuesKeyed' /\ DOMAIN queueKey' = Queues
    <3>1. deviceKey[d] # None
      BY <1>1, KeysAssumption DEF Inv, Filed, Tracked
    <3>2. queueKey' = [queueKey EXCEPT ![q] = deviceKey[d]]
      BY <2>2, <3>1 DEF RegisterQueue, KeyOfDevice
    <3> QED BY <3>2, <2>2, <1>2 DEF Inv, QueuesKeyed, TypeOK
  <2> QED BY <2>1, <2>2 DEF CreateSwapchain, DestroySwapchain, queueVars
<1>4. CASE UNCHANGED <<deviceData, chain>>
  <2>1. Tracked' = Tracked
    BY <1>4 DEF Tracked
  <2> QED BY <1>2, <1>3, <1>4, <2>1 DEF Inv, TypeOK, Filed, BlocksHold, Given, ChainsOwned
<1>5. CASE Owns(d, TRUE) /\ chain' = chain \union {d}
  <2>1. ChainsOwned'
    BY <1>1, <1>2, <1>5, MarkKeeps DEF Inv, ChainsOwned
  <2> QED BY <1>1, <1>2, <1>3, <1>5, <2>1, MarkKeeps DEF Inv, TypeOK, Given
<1>6. CASE Owns(d, FALSE) /\ chain' = chain \ {d}
  <2>1. ChainsOwned'
    BY <1>1, <1>2, <1>6, MarkKeeps DEF Inv, ChainsOwned
  <2> QED BY <1>1, <1>2, <1>3, <1>6, <2>1, MarkKeeps DEF Inv, TypeOK, Given
<1> QED BY <1>4, <1>5, <1>6 DEF CreateSwapchain, DestroySwapchain

(* ... and destroying a device. *)
LEMMA DestructionKeeps ==
    ASSUME Inv, NEW d \in Devices, DeviceDestroyed(d)
    PROVE  Inv'
<1> DEFINE k == KeyOfDevice(d)
<1>1. d \in given \ chain /\ UNCHANGED <<chain, live, instanceData, instanceKey>>
  BY DEF DeviceDestroyed, instanceVars
<1>2. /\ wsiDevices' = wsiDevices \ {d} /\ given' = given \ {d}
      /\ parent' = [parent EXCEPT ![d] = None]
      /\ queueOf' = [q \in Queues |-> IF queueOf[q] = d THEN None ELSE queueOf[q]]
  BY DEF DeviceDestroyed
<1>3. \A e \in Devices \ {d} : word'[e] = word[e]
  BY KeysAssumption DEF DeviceDestroyed, Handles
<1>4. DOMAIN word' = Handles
  BY DEF DeviceDestroyed
<1>5. Given'
  BY <1>2, <1>3 DEF Inv, Given, TypeOK
<1>6. CASE d \in wsiDevices
  <2>1. k = deviceKey[d] /\ k \in Tracked
    BY <1>6, KeysAssumption DEF Inv, Filed, KeyOfDevice, Tracked
  <2>2. /\ deviceKey' = [deviceKey EXCEPT ![d] = None]
        /\ deviceData' = [deviceData EXCEPT ![k] = None]
        /\ queueKey' = [q \in Queues |-> IF queueKey[q] = k THEN None ELSE queueKey[q]]
    BY <2>1 DEF DeviceDestroyed, Disassociate, At, Tracked
  <2>3. Tracked' = Tracked \ {k} /\ \A j \in Tracked \ {k} : deviceData'[j] = deviceData[j]
    BY <2>1, <2>2 DEF Tracked, Inv, TypeOK
  <2>4. deviceKey'[d] = None /\ \A e \in Devices \ {d} : deviceKey'[e] = deviceKey[e]
    BY <2>2 DEF Inv, TypeOK
  <2>5. \A e \in wsiDevices \ {d} : deviceKey[e] # k
    BY <1>6, <2>1 DEF Inv, Filed
  <2>6. Filed' /\ BlocksHold'
    <3>1. ASSUME NEW j \in Tracked'
          PROVE  deviceData'[j].device \in wsiDevices' /\ deviceKey'[deviceData'[j].device] = j
      <4>1. j \in Tracked /\ j # k /\ deviceData'[j] = deviceData[j]
        BY <2>3
      <4>2. deviceData[j].device # d
        BY <4>1, <2>1 DEF Inv, Filed
      <4> QED BY <4>1, <4>2, <1>2, <2>4 DEF Inv, Filed, TypeOK
    <3>2. ASSUME NEW e \in wsiDevices'
          PROVE  deviceKey'[e] \in Tracked' /\ deviceData'[deviceKey'[e]].device = e
      BY <1>2, <2>3, <2>4, <2>5 DEF Inv, Filed, TypeOK
    <3>3. \A e \in Devices \ wsiDevices' : deviceKey'[e] = None
      BY <1>2, <2>4 DEF Inv, Filed
    <3>4. BlocksHold'
      BY <2>3 DEF Inv, BlocksHold
    <3> QED BY <3>1, <3>2, <3>3, <3>4 DEF Filed
  <2>7. ChainsOwned'
    <3> SUFFICES ASSUME NEW e \in chain
                 PROVE  e \in given' \intersect wsiDevices' /\ deviceData'[deviceKey'[e]].owns
      BY <1>1 DEF ChainsOwned
    <3>1. e \in wsiDevices \ {d} /\ deviceKey[e] \in Tracked \ {k}
      BY <1>1, <2>5 DEF Inv, ChainsOwned, Filed
    <3> QED BY <3>1, <1>2, <2>3, <2>4 DEF Inv, ChainsOwned, TypeOK
  <2>8. QueuesKeyed'
    <3> SUFFICES ASSUME NEW q \in Queues, queueOf'[q] # None
                 PROVE  queueOf'[q] \in given' /\ (queueOf'[q] \in wsiDevices' => queueKey'[q] = deviceKey'[queueOf'[q]])
      BY DEF QueuesKeyed
    <3>1. queueOf'[q] = queueOf[q] /\ queueOf[q] \in given \ {d}
      BY <1>2 DEF Inv, QueuesKeyed
    <3> QED BY <3>1, <1>2, <2>2, <2>4, <2>5 DEF Inv, QueuesKeyed, TypeOK
  <2>9. TypeOK'
    BY <1>1, <1>2, <1>4, <2>2 DEF Inv, TypeOK
  <2> QED BY <1>5, <2>6, <2>7, <2>8, <2>9 DEF Inv
<1>7. CASE d \notin wsiDevices
  <2>1. UNCHANGED <<deviceData, deviceKey, queueKey>>
    BY <1>1, <1>7, DeviceIsFound DEF DeviceDestroyed, Disassociate, Inv
  <2>2. Tracked' = Tracked /\ wsiDevices' = wsiDevices
    BY <2>1, <1>2, <1>7 DEF Tracked
  <2>3. TypeOK'
    BY <1>1, <1>2, <1>4, <2>1 DEF Inv, TypeOK
  <2>4. Filed' /\ BlocksHold' /\ ChainsOwned'
    BY <1>1, <1>2, <2>1, <2>2 DEF Inv, Filed, BlocksHold, ChainsOwned
  <2>5. QueuesKeyed'
    BY <1>2, <2>1, <2>2 DEF Inv, QueuesKeyed
  <2> QED BY <1>5, <2>3, <2>4, <2>5 DEF Inv
<1> QED BY <1>6, <1>7

(* The other steps neither file nor mark anything. *)
LEMMA OthersKeep ==
    ASSUME Inv, UNCHANGED <<wsiDevices, deviceData, deviceKey, chain>>, TypeOK', Given', QueuesKeyed',
           given \subseteq given'
    PROVE  Inv'
<1>1. Tracked' = Tracked
  BY DEF Tracked
<1> QED BY <1>1 DEF Inv, Filed, BlocksHold, ChainsOwned

(* Every step of HandleKeys keeps the invariant. *)
LEMMA StepKeeps == Inv /\ [Next]_vars => Inv'
<1> SUFFICES ASSUME Inv, [Next]_vars PROVE Inv'
  OBVIOUS
<1> USE DEF Inv
<1>1. CASE UNCHANGED vars
  <2>1. TypeOK' /\ Given' /\ QueuesKeyed'
    BY <1>1 DEF vars, instanceVars, deviceVars, queueVars, TypeOK, Given, QueuesKeyed
  <2> QED BY <1>1, <2>1, OthersKeep DEF vars, deviceVars
<1>2. ASSUME NEW i \in Instances, ReleaseInstance(i) PROVE Inv'
  <2>1. Given' /\ QueuesKeyed'
    BY <1>2, KeysAssumption DEF ReleaseInstance, deviceVars, queueVars, Given, QueuesKeyed, TypeOK, Handles
  <2>2. TypeOK'
    BY <1>2 DEF ReleaseInstance, deviceVars, queueVars, TypeOK, Handles
  <2> QED BY <1>2, <2>1, <2>2, OthersKeep DEF ReleaseInstance, deviceVars
<1>3. ASSUME NEW i \in Instances, NEW w \in Words, CreateInstance(i, w) PROVE Inv'
  <2>1. Given' /\ QueuesKeyed'
    BY <1>3, KeysAssumption DEF CreateInstance, deviceVars, queueVars, Given, QueuesKeyed, TypeOK, Handles
  <2>2. TypeOK'
    BY <1>3 DEF CreateInstance, AssociateInstance, deviceVars, queueVars, TypeOK, Handles
  <2> QED BY <1>3, <2>1, <2>2, OthersKeep DEF CreateInstance, deviceVars
<1>4. ASSUME NEW d \in Devices, LoaderTakes(d) PROVE Inv'
  <2>1. Given' /\ QueuesKeyed' /\ TypeOK'
    BY <1>4 DEF LoaderTakes, instanceVars, queueVars, Given, QueuesKeyed, TypeOK, Handles
  <2> QED BY <1>4, <2>1, OthersKeep DEF LoaderTakes
<1>5. ASSUME NEW d \in Devices, NEW q \in Queues, QueueHandedOut(d, q) PROVE Inv'
  <2>1. d \in wsiDevices => KeyOfDevice(d) = deviceKey[d]
    BY KeysAssumption DEF KeyOfDevice, Filed, Tracked
  <2>2. Given' /\ QueuesKeyed' /\ TypeOK'
    BY <1>5, <2>1, KeysAssumption
       DEF QueueHandedOut, RegisterQueue, instanceVars, deviceVars, Given, QueuesKeyed, TypeOK, Handles
  <2> QED BY <1>5, <2>2, OthersKeep DEF QueueHandedOut, deviceVars
<1>6. ASSUME NEW q \in Queues, QueuePresent(q) PROVE Inv'
  <2>1. ~Recovers(q)
    BY <1>6, QueueIsFound, KeysAssumption DEF QueuePresent, ChainsOwned, TypeOK
  <2>2. Given' /\ QueuesKeyed' /\ TypeOK'
    BY <1>6, <2>1 DEF QueuePresent, instanceVars, deviceVars, Given, QueuesKeyed, TypeOK
  <2> QED BY <1>6, <2>2, OthersKeep DEF QueuePresent, deviceVars
<1>7. CASE InstanceCalls
  BY <1>2, <1>3, <1>7 DEF InstanceCalls
<1>8. CASE DeviceCalls
  BY <1>4, <1>8, CreationKeeps, DestructionKeeps DEF DeviceCalls
<1>9. CASE QueueCalls
  BY <1>5, <1>6, <1>9, SwapchainsKeep DEF QueueCalls
<1> QED BY <1>1, <1>7, <1>8, <1>9 DEF Next

(* The invariant of HandleKeys: each handle is found by the key it is filed *)
(* under, and a swapchain lives only on a device the layer knows.           *)
THEOREM Inductive == Spec => []Inv
BY Initially, StepKeeps, PTL DEF Spec

(* The state is well formed. *)
THEOREM KeysTypeCorrect == Spec => []TypeOK
<1>1. Inv => TypeOK
  BY DEF Inv
<1> QED BY <1>1, Inductive, PTL

(* get() and try_get() of wsi_private_data.cpp give the data of the device *)
(* the application asks for, and none for a device that has none.          *)
THEOREM DevicesFound == Spec => []DevicesFindTheirData
<1>1. Inv => DevicesFindTheirData
  BY DeviceIsFound DEF Inv, DevicesFindTheirData
<1> QED BY <1>1, Inductive, PTL

(* Every command on a swapchain of the layer is resolved to the layer, and *)
(* finds that the layer owns it.                                           *)
THEOREM CallsStay == Spec => []CallsStayHome
<1>1. ASSUME Inv PROVE CallsStayHome
  <2> SUFFICES ASSUME NEW d \in chain
               PROVE  /\ \A c \in SwapchainCommands : ResolveInstance(c) = "layer" /\ StaysHome(d, c)
                      /\ \A q \in Queues : queueOf[q] = d =>
                            FindQueue(q) # None /\ FindQueue(q).device = d /\ FindQueue(q).owns
    BY DEF CallsStayHome
  <2>1. d \in given \intersect wsiDevices /\ deviceData[deviceKey[d]].owns /\ d # None
    BY <1>1, KeysAssumption DEF Inv, ChainsOwned, TypeOK
  <2>2. \A c \in SwapchainCommands : ResolveInstance(c) = "layer" /\ StaysHome(d, c)
    BY <1>1, <2>1, DeviceIsFound, CommandsAreTheLayers DEF Inv, StaysHome
  <2>3. ASSUME NEW q \in Queues, queueOf[q] = d
        PROVE  FindQueue(q) # None /\ FindQueue(q).device = d /\ FindQueue(q).owns
    BY <1>1, <2>1, <2>3, QueueIsFound DEF Inv, Filed
  <2> QED BY <2>2, <2>3
<1> QED BY <1>1, Inductive, PTL
=============================================================================
