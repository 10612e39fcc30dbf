---------------------------- MODULE HudRenderer ----------------------------
(***************************************************************************)
(* The HUD as swapchain_base uses it (src/src/hud/hud_renderer.cpp and the *)
(* BUILD_HUD parts of src/src/wsi/swapchain_base.cpp).  The driver objects *)
(* of a device (font atlas, shaders, layouts) are shared by its            *)
(* swapchains through a weak pointer; each swapchain has a pipeline and,   *)
(* for each image, a vertex buffer and a command recorded once.  A present *)
(* rewrites the vertices of its image when the sample has changed and      *)
(* submits the command with the application's work.                        *)
(*                                                                         *)
(* The GPU executes what was submitted at its own pace.  A swapchain is    *)
(* created, presents and is destroyed by one thread; what the presentation *)
(* engine does with a presented image is SwapchainBase's matter, here it   *)
(* gives the image back some time later.                                   *)
(***************************************************************************)
EXTENDS HudRuntime

CONSTANTS
    Images,         \* the images of a swapchain
    FlipThread,     \* the swapchains that have a page flip thread
    QueueOf         \* QueueOf[s]: the queue the application presents s on

ASSUME RendererAssumption ==
    /\ "device" \notin Swapchains
    /\ FlipThread \subseteq Swapchains
    /\ QueueOf \in [Swapchains -> {"m_queue", "another queue"}]

VARIABLES
    shared,     \* the shared objects of the device: who uses them and whose
                \* allocation callbacks destroy them
    held,       \* held[s], held["device"]: the driver objects that exist
    image,      \* image[s][i]: where the image is
    overlay,    \* overlay[s][i]: its vertex buffer: the generation it was
                \* built from, or "unset", and last_generation
    gpu,        \* gpu[s][i]: the last submission of the image
    current,    \* current[s]: the image being presented
    enabled     \* enabled[s]: no update of a vertex buffer has failed

rendererVars == <<shared, held, image, overlay, gpu, current, enabled>>
hudVars == <<runtimeVars, rendererVars>>

Unset == 2 * MaxSamples + 1      \* no generation: UINT64_MAX, or never built
NoImage == 0
Owners == Swapchains \union {"device"}

\* What initialize() creates for a device, in order: upload_atlas leaves the
\* first two and destroys the other four again, create_descriptors_and_shaders
\* follows.
AtlasObjects == <<"atlas", "atlas_memory">>
StagingObjects == <<"staging", "staging_memory", "command_pool", "fence">>
DescriptorObjects == <<"atlas_view", "sampler", "descriptor_layout",
                       "descriptor_pool", "pipeline_layout", "pipeline_cache",
                       "vertex_shader", "fragment_shader">>

\* What Impl::initialize() creates for a swapchain, in order.
SwapchainObjects == <<"render_pass", "pipeline", "swapchain_command_pool", "view",
                      "framebuffer", "buffer", "memory">>

Kinds(seq) == {seq[k] : k \in DOMAIN seq}
DeviceKinds == Kinds(AtlasObjects) \union Kinds(DescriptorObjects)

InitRenderer ==
    /\ InitRuntime
    /\ pc = [s \in Swapchains |-> "unattached"]
    /\ shared = [users |-> {}, callbacks |-> Nobody]
    /\ held = [o \in Owners |-> {}]
    /\ image = [s \in Swapchains |-> [i \in Images |-> "free"]]
    /\ overlay = [s \in Swapchains |->
                     [i \in Images |-> [built |-> Unset, last |-> Unset]]]
    /\ gpu = [s \in Swapchains |-> [i \in Images |-> "idle"]]
    /\ current = [s \in Swapchains |-> NoImage]
    /\ enabled = [s \in Swapchains |-> TRUE]

Goto(s, next) == pc' = [pc EXCEPT ![s] = next]

unchangedRuntime == UNCHANGED <<records, primary, lifecycle, sampler, generation,
                                words, reading>>

-----------------------------------------------------------------------------
(* Attaching.                                                              *)

Prefixes(seq) == {SubSeq(seq, 1, n) : n \in 0..Len(seq)}

\* Mutant: a failure returns before the cleanup.
UploadReturnsEarly ==
    LET Attempts == Prefixes(AtlasObjects \o StagingObjects)
    IN  {[ok |-> FALSE, objects |-> Kinds(a)] : a \in Attempts}
        \union {[ok |-> TRUE, objects |-> Kinds(AtlasObjects)]}

\* upload_atlas: its cleanup destroys the staging objects on every path; the
\* two atlas objects stay, also when it fails.
UploadedAtlas ==
    LET Attempts == Prefixes(AtlasObjects \o StagingObjects)
    IN  {[ok |-> FALSE, objects |-> Kinds(a) \ Kinds(StagingObjects)] : a \in Attempts}
        \union {[ok |-> TRUE, objects |-> Kinds(AtlasObjects)]}

\* create_descriptors_and_shaders: what was made so far stays when it fails.
DescribedAtlas ==
    {[ok |-> Len(a) = Len(DescriptorObjects), objects |-> Kinds(AtlasObjects \o a)] :
        a \in Prefixes(DescriptorObjects)}

\* ~HudDeviceResources: every object that was made.
DestroyDeviceObjects(objects) == objects \ DeviceKinds

\* acquire: the existing resources of the device, or new ones; when they
\* cannot be initialised their destructor takes what was made.
AcquireShared(s) ==
    /\ pc[s] = "unattached"
    /\ \/ /\ shared.users # {}
          /\ shared' = [shared EXCEPT !.users = @ \union {s}]
          /\ Goto(s, "create")
          /\ UNCHANGED held
       \/ /\ shared.users = {}
          /\ \E upload \in UploadedAtlas, rest \in DescribedAtlas :
                /\ upload.ok \/ rest.objects = Kinds(AtlasObjects)
                /\ IF upload.ok /\ rest.ok
                   THEN /\ shared' = [users |-> {s}, callbacks |-> s]
                        /\ held' = [held EXCEPT !["device"] = rest.objects]
                        /\ Goto(s, "create")
                   ELSE /\ held' = [held EXCEPT !["device"] = DestroyDeviceObjects(
                                      IF upload.ok THEN rest.objects ELSE upload.objects)]
                        /\ Goto(s, "no hud")
                        /\ UNCHANGED shared
    /\ unchangedRuntime
    /\ UNCHANGED <<image, overlay, gpu, current, enabled>>

\* create_render_pass, create_pipeline, create_images_and_buffers and
\* record_command: any of them may fail.
CreateObjects(s) ==
    /\ pc[s] = "create"
    /\ \E made \in Prefixes(SwapchainObjects), recorded \in BOOLEAN :
          /\ held' = [held EXCEPT ![s] = Kinds(made)]
          /\ Goto(s, IF made = SwapchainObjects /\ recorded THEN "register"
                                                            ELSE "destruct")
    /\ unchangedRuntime
    /\ UNCHANGED <<shared, image, overlay, gpu, current, enabled>>

Register(s) ==
    /\ RegisterSwapchain(s, "ready", "destruct")
    /\ UNCHANGED rendererVars

-----------------------------------------------------------------------------
(* Presenting.                                                             *)

AcquireImage(s, i) ==
    /\ pc[s] = "ready"
    /\ image[s][i] = "free"
    /\ image' = [image EXCEPT ![s][i] = "acquired"]
    /\ UNCHANGED <<runtimeVars, shared, held, overlay, gpu, current, enabled>>

\* queue_present up to the HUD: without a page flip thread the present
\* payload that is there must have finished, else the call fails.
\* Mutant: a present without a page flip thread does not wait either.
PayloadIgnored(s, i) == s \in Swapchains /\ i \in Images

PayloadIsOver(s, i) == s \in FlipThread \/ gpu[s][i] = "idle"

QueuePresent(s, i) ==
    /\ pc[s] = "ready"
    /\ image[s][i] = "acquired"
    /\ PayloadIsOver(s, i)
    /\ Goto(s, "prepare")
    /\ current' = [current EXCEPT ![s] = i]
    /\ unchangedRuntime
    /\ UNCHANGED <<shared, held, image, overlay, gpu, enabled>>

\* prepare: only the primary swapchain draws, while its updates succeed.
Prepare(s) ==
    /\ pc[s] = "prepare"
    /\ Goto(s, IF enabled[s] /\ primary = s THEN "snapshot" ELSE "submit")
    /\ unchangedRuntime
    /\ UNCHANGED rendererVars

ReadSnapshot(s) ==
    /\ LoadBefore(s) \/ Load(s) \/ LastLoad(s, "compare")
    /\ UNCHANGED rendererVars

\* prepare: the command of the image may be used as it is when its vertices
\* were built from this generation.
NeedsRebuild(s) == overlay[s][current[s]].last # reading[s].after

Compare(s) ==
    /\ pc[s] = "compare"
    /\ Goto(s, IF NeedsRebuild(s) THEN "rebuild" ELSE "submit with overlay")
    /\ reading' = [reading EXCEPT ![s] =
                      IF NeedsRebuild(s) THEN @ ELSE NotReading]
    /\ UNCHANGED <<records, primary, lifecycle, sampler, generation, words>>
    /\ UNCHANGED rendererVars

\* rebuild: the vertices and the indirect draw are in place; the flush of
\* memory that is not coherent may fail, and then the HUD is off for good.
Rebuild(s) ==
    /\ pc[s] = "rebuild"
    /\ LET made == reading[s].after
       IN \/ /\ overlay' = [overlay EXCEPT ![s][current[s]] =
                               [built |-> made, last |-> made]]
             /\ Goto(s, "submit with overlay")
             /\ UNCHANGED enabled
          \/ /\ overlay' = [overlay EXCEPT ![s][current[s]].built = made]
             /\ enabled' = [enabled EXCEPT ![s] = FALSE]
             /\ Goto(s, "submit")
    /\ reading' = [reading EXCEPT ![s] = NotReading]
    /\ UNCHANGED <<records, primary, lifecycle, sampler, generation, words>>
    /\ UNCHANGED <<shared, held, image, gpu, current>>

\* set_payload: the wait semaphores and the overlay are submitted; a submission
\* that fails leaves the image with the application.
Submit(s) ==
    /\ pc[s] \in {"submit", "submit with overlay"}
    /\ \/ /\ gpu' = [gpu EXCEPT ![s][current[s]] =
                        IF pc[s] = "submit" THEN "running" ELSE "drawing"]
          /\ image' = [image EXCEPT ![s][current[s]] = "pending"]
       \/ UNCHANGED <<gpu, image>>
    /\ Goto(s, "ready")
    /\ current' = [current EXCEPT ![s] = NoImage]
    /\ unchangedRuntime
    /\ UNCHANGED <<shared, held, overlay, enabled>>

\* The page flip thread waits for the payload before it presents; without it
\* queue_present presents at once.  Then the engine gives the image back.
Present(s, i) ==
    /\ image[s][i] = "pending"
    /\ s \in FlipThread => gpu[s][i] = "idle"
    /\ image' = [image EXCEPT ![s][i] = "free"]
    /\ UNCHANGED <<runtimeVars, shared, held, overlay, gpu, current, enabled>>

GpuFinishes(s, i) ==
    /\ gpu[s][i] # "idle"
    /\ gpu' = [gpu EXCEPT ![s][i] = "idle"]
    /\ UNCHANGED <<runtimeVars, shared, held, image, overlay, current, enabled>>

-----------------------------------------------------------------------------
(* Teardown.                                                               *)

\* Mutant: the HUD is destroyed before the queue is idle.
QueueIsNotAwaited(queue) == queue \in {"m_queue", "another queue"}

\* teardown: m_queue is waited for, whatever queue was presented on.
QueueIsIdle(queue) ==
    \A s \in Swapchains : QueueOf[s] = queue =>
        \A i \in Images : gpu[s][i] = "idle"

WaitQueueIdle(s) ==
    /\ pc[s] = "ready"
    /\ QueueIsIdle("m_queue")
    /\ Goto(s, "unregister")
    /\ unchangedRuntime
    /\ UNCHANGED rendererVars

Unregister(s) ==
    /\ \/ UnregisterSwapchain(s, "destruct")
       \/ NotifySampler(s)
       \/ JoinSampler(s, "destruct")
    /\ UNCHANGED rendererVars

\* ~Impl: the objects of the swapchain; with the last user of the shared
\* objects they go too.
DestroySwapchainObjects(objects) == objects \ Kinds(SwapchainObjects)

Destruct(s) ==
    /\ pc[s] = "destruct"
    /\ LET users == shared.users \ {s}
       IN /\ shared' = [users |-> users,
                        callbacks |-> IF users = {} THEN Nobody ELSE shared.callbacks]
          /\ held' = [held EXCEPT ![s] = DestroySwapchainObjects(@),
                                  !["device"] = IF users = {}
                                                THEN DestroyDeviceObjects(@) ELSE @]
    /\ Goto(s, "no hud")
    /\ unchangedRuntime
    /\ UNCHANGED <<image, overlay, gpu, current, enabled>>

\* The swapchain itself is freed: m_allocator, and the callbacks in it.
FreeSwapchain(s) ==
    /\ pc[s] = "no hud"
    /\ Goto(s, "freed")
    /\ unchangedRuntime
    /\ UNCHANGED rendererVars

-----------------------------------------------------------------------------
SwapchainStep(s) ==
    \/ AcquireShared(s) \/ CreateObjects(s) \/ Register(s)
    \/ Prepare(s) \/ ReadSnapshot(s) \/ Compare(s) \/ Rebuild(s) \/ Submit(s)
    \/ WaitQueueIdle(s) \/ Unregister(s) \/ Destruct(s) \/ FreeSwapchain(s)

Sampler == SamplerStep /\ UNCHANGED rendererVars

HudNext ==
    \/ Sampler
    \/ \E s \in Swapchains : SwapchainStep(s)
    \/ \E s \in Swapchains, i \in Images :
          AcquireImage(s, i) \/ QueuePresent(s, i) \/ Present(s, i) \/ GpuFinishes(s, i)

HudSpec == InitRenderer /\ [][HudNext]_hudVars

-----------------------------------------------------------------------------
(* Properties.                                                             *)

Samplers == [pc : {"none", "reading", "storing", "published", "falling asleep",
                   "asleep", "woken", "done"},
             stopping : BOOLEAN, sources : BOOLEAN]
Readings == [before : 0 .. 2 * MaxSamples, left : SUBSET Loads,
             after : 0 .. 2 * MaxSamples, copy : [Words -> 0 .. MaxSamples]]

\* The state of the sampler, of the publication and of its readers is well formed.
RuntimeShape ==
    /\ pc \in [Swapchains ->
             {"unattached", "create", "register", "ready", "prepare", "snapshot",
              "compare", "rebuild", "submit", "submit with overlay", "unregister",
              "notify", "join", "destruct", "no hud", "freed"}]
    /\ records \in Seq(Swapchains)
    /\ lifecycle \in Swapchains \union {Nobody}
    /\ sampler \in Samplers
    /\ generation \in 0 .. 2 * MaxSamples
    /\ words \in [Words -> 0 .. MaxSamples]
    /\ reading \in [Swapchains -> Readings]

\* So is that of the renderers.
RendererShape ==
    /\ shared \in [users : SUBSET Swapchains,
                   callbacks : Swapchains \union {Nobody}]
    /\ held \in [Owners -> SUBSET (DeviceKinds \union Kinds(SwapchainObjects))]
    /\ image \in [Swapchains -> [Images -> {"free", "acquired", "pending"}]]
    /\ overlay \in [Swapchains -> [Images ->
             [built : 0 .. 2 * MaxSamples \union {Unset},
              last : 0 .. 2 * MaxSamples \union {Unset}]]]
    /\ gpu \in [Swapchains -> [Images -> {"idle", "running", "drawing"}]]
    /\ current \in [Swapchains -> Images \union {NoImage}]
    /\ enabled \in [Swapchains -> BOOLEAN]

\* Every variable has its type.
HudTypeOK ==
    /\ RuntimeShape
    /\ RendererShape
    /\ primary \in Swapchains \union {Nobody}

\* An overlay the GPU executes draws from a vertex buffer that was built - its
\* indirect draw is never what the memory happened to hold - and every object
\* its command names still exists, those of the device as well.
OverlayReadsLiveData ==
    \A s \in Swapchains, i \in Images : gpu[s][i] = "drawing" =>
        /\ overlay[s][i].built # Unset
        /\ Kinds(SwapchainObjects) \subseteq held[s]
        /\ DeviceKinds \subseteq held["device"]

\* The vertices of an image are never rewritten while the GPU draws from them.
VerticesAreStill ==
    \A s \in Swapchains : pc[s] = "rebuild" => gpu[s][current[s]] # "drawing"

\* No word of a snapshot is older than the sample its generation names.  The
\* picture of an image is kept until the generation moves (last_generation,
\* hud_renderer.cpp:1195): an older word would stay on the screen after the
\* sampler had published its successor.
SnapshotIsCurrent ==
    \A s \in Swapchains : pc[s] \in {"compare", "rebuild"} =>
        \A w \in Words : reading[s].copy[w] >= reading[s].after \div 2

\* What the HUD makes is gone with its last user, also when it was made only in
\* part: the objects of a swapchain, those of the device, the sampler thread
\* and the descriptors of its sources.
NothingIsLeaked ==
    /\ \A s \in Swapchains : pc[s] \in {"unattached", "no hud", "freed"} => held[s] = {}
    /\ shared.users = {} => held["device"] = {}
    /\ records = <<>> /\ lifecycle = Nobody => sampler.pc = "none" /\ ~sampler.sources

\* A snapshot that was read is one sample, as hud_tests.cpp:337-342 asserts.
\* It is so in program order only: with WeakOrder a word of the next sample may
\* be among those of this one.
SnapshotIsWhole ==
    \A s \in Swapchains : pc[s] \in {"compare", "rebuild"} =>
        \A w \in Words : reading[s].copy[w] = reading[s].after \div 2

\* The allocation callbacks that will destroy the shared objects belong to a
\* swapchain that exists: custom_allocator.hpp:91 promises "a copy of the
\* VkAllocationCallback argument", not a pointer into the swapchain.
CallbacksAreAlive ==
    shared.callbacks # Nobody => pc[shared.callbacks] # "freed"

=============================================================================
