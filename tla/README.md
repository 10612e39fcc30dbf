# TLA+ models of the Mali Vulkan ICD wrapper

The wrapper is a Vulkan ICD that loads the vendor's Mali driver, forwards most
calls to it, and adds what the driver lacks: window-system integration (a copy
of the Vulkan WSI layer under `src/src/wsi`), low-address memory mapping,
compatibility profiles and a HUD.  This directory models the parts of it where
threads, handles, failures and other processes meet, checks the models with TLC
on small instances and proves the central facts with TLAPS for all of them.

Line references are to the sources under `src/src/`.

## The system and its parts

| Part | State it keeps | Operations | Touched by | Modelled by |
|---|---|---|---|---|
| `util::timed_semaphore` | a count, a mutex, a condition variable | `init`, `wait(timeout)`, `post` | every thread of a swapchain | `TimedSemaphore`, `CountingSemaphore` |
| `util::ring_buffer` | slots, first index, size | `push_back`, `pop_front`, `front`, `back` | application, page flip thread, event thread | `RingBuffer`, `BoundedFifo`, `PageFlipQueue` |
| `swapchain_base` | status of each image, free-image and page-flip semaphores, pool of pending buffers, error state, two locks, pointers to ancestor and descendant | acquire, queue present, release images, deprecate, teardown; the page flip thread | application, page flip thread, flip threads of relatives, GPU | `SwapchainBase`, `SwapchainHandoff`, `PresentationContract` |
| creation of a swapchain | what the object and each of its images own | `init`, `init_platform`, `create_swapchain_image`, `allocate_and_bind_swapchain_image`, the destructors | application | `SwapchainCreation`, `ImageFormats` |
| headless back end | none of its own | `present_image` | page flip thread, or the application | `HeadlessSwapchain` |
| X11 back end and presenters | pending completions per image, pool of idle pixmaps, event thread, SHM segments, images held back for the bridge | `present_image`, `get_free_buffer`, event thread, destructor | application, flip thread, event thread, X server | `X11Swapchain` |
| Xwayland bridge client | socket, sequence number, whether frames are acknowledged | connect, probe, send, wait for feedback, stop | whoever presents | `BridgeClient` |
| Wayland back end | event queues, frame callback, buffers at the compositor | `present_image`, `get_free_buffer`, release and frame events | application, flip thread, heir, compositor | `WaylandSwapchain` |
| presents and synchronisation | semaphores and fences per image | `vkQueuePresentKHR`, `queue_present`, payloads, present fences | application, GPU | `PresentCalls` |
| ICD registries | instances and their reference counts, latest instance, devices with their dispatch tables and a generation, a cache per thread | create, destroy and use instances and devices | any thread of the application | `DeviceRegistry` |
| WSI manager, private data | private data of instances and devices by key, the key of each handle | associate, get, disassociate, register queues | the same calls | `DeviceRegistry`, `HandleKeys` |
| entry points | three tables of commands | `vkGetInstanceProcAddr`, `vkGetDeviceProcAddr` | loader, application | `EntryPoints` |
| low-address mapping | tracked allocations, shadow and alias mappings, counters | allocate, map, flush, invalidate, submit, unmap, free | any thread of the application | `LowAddressMap` |
| compatibility profiles, device emulation | a profile per instance; per device the selection, budget, query pools, dense resources | queries, creation, and the hooks of emulated commands | any thread of the application | `CompatibilityProfiles`, `DeviceEmulation` |
| HUD | registered swapchains, a primary one, a sampling thread and its publication; renderers per swapchain, shared objects per device | register, sample, publish, draw, tear down | application, flip threads, sampler | `HudRuntime`, `HudRenderer` |
| logging, format tables, scripts, patches, signal guard | - | - | - | not modelled |

`PROJECT.json` lists the same parts with their files.

### How they interact

* The application asks for entry points by name; `EntryPoints` says whose
  function it gets.  `DeviceRegistry` says which driver a call then reaches, and
  `HandleKeys`, which uses `EntryPoints`, which private data the layer finds.
  Handles are named in `VulkanHandles`.
* Under a profile, `CompatibilityProfiles` says what an application is told and
  what the driver is asked for; `DeviceEmulation` extends it with the calls on
  the device that was made.
* `vkCreateSwapchainKHR` is `SwapchainCreation`, which takes its modifiers from
  `ImageFormats` and leaves the object that `SwapchainBase` starts from.
* `swapchain_base` calls two virtual functions, `get_free_buffer()` (inside the
  wait for a free image) and `present_image()` (inside `call_present()`), and
  the back ends call back `unpresent_image()`.  In `SwapchainBase` these are
  the labels "backend" and "present"; `HeadlessSwapchain`, `X11Swapchain` and
  `WaylandSwapchain` extend it and supply the steps between them, as a derived
  class does.  `X11Swapchain` also extends `BridgeClient`.
* Two swapchains related by `oldSwapchain` hold raw pointers to each other and
  read each other's fields from four places: `SwapchainHandoff`.
* Semaphores and the ring buffer are used by all of them, through the
  abstract behaviour that `CountingSemaphore` and `BoundedFifo` state:
  `SwapchainBase` has a number where the code has a `timed_semaphore`, and a
  sequence where it has a `ring_buffer`.  `PageFlipQueue` composes the two in
  detail and is the reason why it may.
* `HudRenderer` extends `HudRuntime`: it reads the metrics that the sampler
  publishes, in the thread that presents.

### What is hard here

* An image passes between the application, the GPU, the flip thread, the
  event thread and the display server; a unit of the free-image semaphore stands
  for it on the way.  The unit and the status of the image change in separate
  steps (`unpresent_image` 191-212, `acquire_next_image` 467-588), and every
  failure path has to keep them together.
* Teardown waits for images, for a descendant and for threads, in an order
  that a failure or a destruction in the other order may break.
* Events of the display server are read by whichever thread polls first.
* The generation of the device registry is read without its lock, the driver
  reuses handles, and the first word of a handle, the key of the layer's data, is
  repeated by the driver and overwritten by the loader.
* Low-address copies run in one thread while another unmaps or frees.
* Features that the driver lacks are told to the application and have to be
  rewritten in every later call that uses them.
* The HUD draws with objects that outlive neither their swapchain nor,
  for the shared ones, their device, while the GPU executes.

The `hazards` of `PROJECT.json` list each such place with the properties that
guard it, or the reason why none does.

## The modules

Each module begins with a comment on what it is a model of; `map` in
`PROJECT.json` gives for each definition the lines it stands for.  The operators that `mutants`
names, most with a comment that begins with "Bug:" or "A bug:", are wrong variants
of the operator that follows them, one for each checked property; no specification
uses them.

**`TimedSemaphore`** (layer_utils/timed_semaphore.cpp).  `count` is `m_count`;
threads blocked in `wait()` are in one of three stages: sleeping on the
condition variable, signalled, or past their deadline.  A stretch under
`m_mutex` is one step, so a wait is a check, a sleep and a recheck.  Spurious
wake-ups are a step of their own.  It implements `CountingSemaphore`.

**`RingBuffer`** (layer_utils/ring_buffer.hpp).  Slots, `begin` and `size` with
the modular index arithmetic of the code; it implements `BoundedFifo`.

**`PageFlipQueue`** puts the two together as `m_pending_buffer_pool` and
`m_page_flip_semaphore`: push under the mutex, post, wait, pop under the mutex.

**`SwapchainBase`** (wsi/swapchain_base.cpp) has one swapchain and the three
threads that touch it: "app", "flip" and "heir" (the first present of the
swapchain created from it).  Each call is a chain of labelled steps; the code
between two acquisitions of `m_image_status_mutex` is one step, and so is each
semaphore operation.  A driver call that may fail is guarded by
`MayFail(kind)`.  The GPU is `payload`: set by a submission, cleared by
`GpuFinishes`.  Relatives are an environment: a descendant that is created,
starts to present and is destroyed, an ancestor that drains.

**`HeadlessSwapchain`** completes it: `present_image()` is `unpresent_image()`,
in whatever thread it runs, and `get_free_buffer()` is the default.

**`PresentationContract`** is what a swapchain promises: every image belongs to
the engine, the application, the queue, the display or nobody, is shown in the
order it was queued, and changes hands only in the ways listed there.  Three
refinement mappings lead to it: `KeepsContract` for the headless back end, whose
display keeps nothing, `CommitsInOrder` for Wayland and `SendsInOrder` for X11, where
the display has an image until the thread that reads the event has put it back.

**`SwapchainHandoff`** has a whole chain of swapchains, with their links, their
flip threads and their teardowns, but counts the images of each instead of
naming them.  It shows what the environment of `SwapchainBase` assumes of the
relatives, and what no single swapchain can: use of a deleted relative, and
waits between two swapchains.

**`X11Swapchain`** (wsi/x11/swapchain.cpp and the presenters) has three paths.
Over DRI3 the X server is given pixmaps and answers with COMPLETE and IDLE
events, which a third thread takes from the connection and passes on through a
bounded pool.  Over SHM an image is copied to one of two segments and is free at
once.  Over the bridge the dma-buf is sent and the image held back for some
frames.  `m_thread_status_lock` and its condition variable are in the model with
every sleeper; a failure of the connection stops the event thread.

**`BridgeClient`** (wsi/x11/xwayland_dmabuf_bridge.cpp): one call at a time over
a socket that may refuse, break, answer late, never, or about an earlier packet.

**`WaylandSwapchain`** (wsi/wayland/swapchain.cpp, surface.cpp, wl_helpers.cpp).
One wire carries buffer releases, answers to frame callbacks and events for
others.  Whoever polls reads it for all; each event waits in its queue until
somebody dispatches that queue.

**`SwapchainCreation`** follows each resource (memory, images, descriptors,
fences, threads, semaphores, the allocator) from the call that makes it to the
one that destroys it, with a failure possible at each; **`ImageFormats`** is the
choice of a DRM modifier.

**`PresentCalls`** (wsi/swapchain_api.cpp, `queue_present()`,
wsi/synchronization.cpp) has the binary semaphores and fences of a present of
several swapchains, and a GPU that executes the submissions in order.

**`DeviceRegistry`** (core/mali_wrapper_icd.cpp, core/wsi_manager.cpp,
wsi/wsi_private_data.cpp).  Threads create and destroy instances, surfaces and
devices and use devices.  What the driver has under a handle is a number, so that
a reused handle is another device.  `remember_managed_device()` and
`forget_managed_device()` change the map and raise the generation in two
steps, because `get_managed_device_dispatch()` reads the generation without
the lock.  Each handle has a first word of its own there; `HandleKeys` drops
that.

**`HandleKeys`** (wsi/wsi_private_data.cpp) and **`EntryPoints`**
(core/wsi_manager.cpp, core/mali_wrapper_icd.cpp).  The keys under which
the layer files its data, with collisions, the loader's word, searches and the
recovery for queues; and which of four parties a command belongs to.

**`LowAddressMap`** (core/mali_wrapper_icd.cpp).  Device memory is a row of
cells, and of each cell the model keeps where its newest value is: in the real
memory, in the shadow below 4 GiB, in both, or destroyed by a copy.  Mapping
and unmapping are split where the code leaves `memory_tracking_mutex`; alias,
shadow and the refusal of either are choices of the environment.

**`CompatibilityProfiles`** (compatibility/compatibility_manager.cpp): an
instance per profile, what it tells, what is asked.  **`DeviceEmulation`**
(compatibility/device_emulation.cpp): devices whose hooks run in several
threads; a stretch under `state_mutex` is one step, a call of the driver another.

**`HudRuntime`** (hud/hud_runtime.cpp, hud_metrics.cpp, hud_types.hpp): the
registration, the sampler and a publication that is written and read word by word.
**`HudRenderer`** (hud/hud_renderer.cpp): Vulkan objects, frames in flight, teardown.

## What is checked

Run them with `tlc -config <cfg> <module>`; the module of a run is the `MC`
module of the same name, but for `PageFlipQueue`, which needs none.

| Run (cfg) | Instance | What it shows |
|---|---|---|
| page_flip_queue (`PageFlipQueue`) | 3 threads, 3 slots, at most 3 units, 2 items | the condition-variable code is a counting semaphore (`ImplementsSemaphore`), the ring a bounded FIFO queue (`ImplementsFifo`), no unit is left beside an unsignalled sleeper (`NoLostWakeup`), who gets a unit finds a request (`RequestIsThere`) |
| headless (`Headless`) | 2 images in FIFO, or 1 in each shared mode; deferred allocation, ancestor, descendant, 1 failure of 4 kinds | `AcquireFindsImage` (the assertion of the code), `KeepsContract` (refinement), `QueuedIsShown`, `AcquireReturns`, `ContinuousRefreshes` |
| handoff (`Handoff`) | 2 swapchains of 3 images, 1 failure, one application thread | `NobodyUsesTheDead`, `OldIsShownFirst`; `DestroyEnds`, but in three cases it names |
| x11 (`X11`) | 2 images, FIFO and MAILBOX, the three paths, SHM with and without an XSync fence and 2 segments unread, 1 failure of the X connection, failures of the socket | `ServerOwnsWhatItReads`, `UnitsAreImages`, `X11CallsReturn` |
| wayland (`Wayland`) | 2 images, FIFO and MAILBOX, with and without explicit synchronisation, 1 failure | `BufferIsTheirs`, `GoesOutFinished`, `WaylandCallsReturn` |
| creation (`Creation`) | all back ends, 3 images, any step of a creation or an acquire fails | `UnitsHaveImages`, `NothingElseIsLost`, `UsersGoFirst`, `CallsReturn` |
| present_calls (`PresentCalls`) | 2 swapchains of 1 image, one with a flip thread, 1 failure | `SubmissionsAreValid`, `FencesAreSignalled` |
| registry (`Registry`) | 2 threads, 2 instance handles, 2 device handles, 2 of each created, 1 surface | `NeverStale`, `RegistriesAgree` |
| handle_keys (`HandleKeys`) | 2 instances, 3 devices, 2 queues, 2 first words; 3 instances and 4 devices created | `DevicesFindTheirData`, `CallsStayHome` |
| low_address (`LowAddress`) | 2 threads, 2 allocations, one of them coherent, on 2 devices, 2 cells, 2 low regions | `CopiesAreSafe`, `RegionsAreOwned`, `HostWritesSurvive`, `WritesAreCarried` |
| device_emulation (`DeviceEmulation`) | 2 instances of 2 engines, 1 device, 2 threads, 1 buffer, 1 image, 1 pool, a budget of 2 | `AdvertisedCanBeEnabled`, `DriverUsedAsEnabled`, `BudgetHolds`, `PoolsAreKnown` |
| hud (`Hud`) | 2 swapchains of 1 image, one with a flip thread, 1 sample, relaxed accesses out of order, any Vulkan object may fail | `OverlayReadsLiveData`, `VerticesAreStill`, `SnapshotIsCurrent`, `NothingIsLeaked` |

Each property has a wrong variant of the code, listed under `mutants`, under
which TLC finds it violated in the same instance.

### Bounds, and why they are enough

* *Page flip queue*: three threads give a waiter that is signalled, one that
  sleeps and one that posts or times out; three slots wrap in both indices and
  differ from the special cases of one and two.  Most is proved without bounds.
* *Headless*: two images are the smallest number at which one is shown while
  another is acquired or queued, and at which a unit may stand for the wrong
  image.  `PoolCapacity` is the number of images, not the code's nine;
  `MaxFlips` bounds only the units that continuous presents would add.
* *Handoff*: two swapchains are every pair of relatives; three images give a
  drain of two units, so that the first present of the new swapchain can leave
  the old one too few for its own teardown.  The proof has no bound on the chain, the images
  or the failures.
* *X11, Wayland*: two images let one be at the server while another is
  acquired; one pending completion (the code has more) makes the flip thread
  wait for the event thread; one image reserved is the least the bridge may have.
  Two segments unread are the two of one image: the second next frame of it
  goes to the first of them again.
  One failure breaks every path at every step once.  Neither instance is passed
  as `oldSwapchain` (`Retires` is FALSE): the state space is then out of reach,
  and the drain of an ancestor is checked in headless and handoff.  A drain at
  destruction is part of both.
* *Creation*: three images are the least that the bridge takes, and leave images
  before and after the one that fails; each may fail in an acquire.
* *Present calls*: two swapchains are the least for which the layer splits the
  wait and the fences of a present.
* *Registry*: two threads are a writer and a reader of the generation; two
  devices under two handles give a reused handle and two devices at a time.
* *Handle keys*: with two words for three devices some share a word; four
  creations reuse a handle.  The proof has no bounds.
* *Low address*: two cells make a partial mapping with an offset and a
  `VK_WHOLE_SIZE` tail; two regions are exhausted by two mappings; two devices
  tell a submission to one from one to all; one allocation is coherent, so that
  `CoherentWritesSurvive` can be tried there.
* *Device emulation*: a budget of two with resources of one and two makes two
  threads compete for it; the engines are one with a profile and one without; the
  driver has vertex stores, which unsafe mode takes away, and not robustness2.
* *HUD*: one image makes the wait for the last payload necessary in every
  present; equal areas make the primary swapchain a matter of order;
  one sample is published over the initial state; `WeakOrder` is TRUE, as the
  memory of ARM is.

Symmetry is declared only in runs without temporal properties, for
constants that no definition orders: threads, instances and devices of the
registry, threads and regions of the low-address map, instances, queues, words
and blocks of the handle keys (devices are told apart by their profile there).

Deadlock is checked in low_address alone.  The others stop where the system may:
an application that calls no more, one that has destroyed everything, a model
that has created all it may.  A thread that is blocked for ever inside a call is
what the liveness properties (`DestroyEnds`, `X11CallsReturn`, `CallsReturn`, ...) report.

### Fairness

* `HeadlessSwapchain`: weak fairness of each thread inside the library, of the
  GPU for each payload it was given, and of an ancestor that is draining.  None of
  the application's calls is fair: it may stop calling, but not stop inside a
  call.
* `SwapchainHandoff`: a destruction that began and the flip threads go on.
* `X11Swapchain`: the same as `HeadlessSwapchain`, and the event thread, deadlines (absolute in the
  code, so that needless wake-ups do not move them; strong fairness for the
  condition variable, whose sleeper is also woken by others), and an X server that
  completes every frame it was given and returns every pixmap once it has another.
  The server owes nothing after the connection failed.
* `WaylandSwapchain`: the same, and a compositor that releases a buffer once it was
  given another; it need not answer frame callbacks.  `WaylandCallsReturn` assumes
  that events for others cease, because each restarts a time-out in the code.
* `PresentCalls`: the GPU executes what it can, calls run on, flip threads show.
* `SwapchainCreation`: a call runs on.

A temporal counterexample is thus always a thread that is blocked for ever, not
one that was not scheduled.

## Where the code departs from what it says

`findings` quotes the line of each.  Where a property states the promise, it is
in the module named, in no `.cfg`: adding it to the one named shows the
behaviour that breaks it.

1. `acquire_next_image()` waits for an image before it looks at the error state,
   and an acquire that returns the error keeps the unit; once they are spent, the
   next acquire never returns (swapchain_base.cpp:472-485; `AcquireAlwaysReturns`, headless).
2. Destroying the new swapchain before the old one makes the old one's teardown
   wait for units the new one has taken (swapchain_base.cpp:394-411, 780-807;
   `IdleDestroyEnds`, handoff).  `DestroyEnds` excepts it.  When the destruction of
   the old one overlaps the first present of the new one, each may take some of the
   units and both wait for the rest.
3. `vkDestroyInstance` always finds the reference of the creation itself and
   defers to a clean-up that no later call performs
   (mali_wrapper_icd.cpp:83, 1972-1975; `ReleasedWhenUnused`, registry).
4. A submission or an unmap copies the whole of a shadow over what the device
   has written since (mali_wrapper_icd.cpp:2955, 3114; `DeviceWritesSurvive`, low_address).
5. `get_free_buffer()` of X11 turns an infinite acquire into a poll when a unit
   is on its way (x11/swapchain.cpp:1603-1606; `IndefiniteNeverGivesUp`, x11).
6. A Wayland drain of two images makes one wait of the first time-out and one of
   none (wayland/swapchain.cpp:637; `TeardownEnds`, wayland).
7. The destructor of X11 drains through a semaphore that a failed creation has
   not initialised (x11/swapchain.cpp:568; `SemaphoreIsReady`, creation).
8. The shared objects of the HUD keep a pointer into the allocator of a
   swapchain that may be gone (hud/hud_renderer.cpp:130; `CallbacksAreAlive`, hud).
9. With two present queues, the HUD frees command buffers the other queue still
   executes (swapchain_base.cpp:423; `OverlayReadsLiveData`, hud, with `QueueOf` of two queues).
10. The frame boundary event is lost or passed twice when several swapchains are
    presented (swapchain_api.cpp:246, 321), and the event of the application is never
    found (extensions/frame_boundary.cpp:62).
11. `vkUnmapMemory2` on a driver without it returns VK_SUCCESS and unmaps nothing
    (mali_wrapper_icd.cpp:3221).
12. A failed `init_device()` is only logged; `vkCreateSwapchainKHR` on the device
    throws out of a C entry point (mali_wrapper_icd.cpp:3710).
13. The indexed query commands reach the driver with emulated pools
    (compatibility/device_emulation.cpp:978; `DriverSeesItsPools`, device_emulation).
14. An invalidation copies over what the host wrote and nothing has carried yet, also in
    host-coherent memory, where Vulkan lets the application invalidate at any time
    (mali_wrapper_icd.cpp:2891-2928, 3163-3178; `CoherentWritesSurvive`, low_address).
15. A copy of the HUD's metrics may have words of the next sample: nothing keeps the
    relaxed loads of the words before the second load of the generation
    (hud/hud_types.hpp:154-165; `SnapshotIsWhole`, hud).
16. The SHM presenter overwrites a segment the X server has not read when it has an XSync
    fence, the normal case: the server is told to wait for the fence, the
    client waits for nothing (x11/shm_presenter.cpp:500-519, 659-662;
    `SegmentsAreStable`, x11).
17. Unsafe mode takes vertex stores and atomics, and robustness2, from the driver,
    supported or not, and rewrites no use of them; so it does with shader resource
    residency and minimum LOD, for which vertex stores stand in the model
    (compatibility_manager.cpp:115-121, 434-435; `SupportedIsEnabled`, device_emulation).
18. An X11 or Wayland image whose deferred allocation failed stays FREE, and the next
    acquire hands it out without memory (x11/swapchain.cpp:900,
    wayland/swapchain.cpp:465; `HandedOutIsWhole`, creation).
19. A headless image for whose data there is no memory is destroyed and keeps its
    status and handle: it is bound to memory, or destroyed, once more
    (headless/swapchain.cpp:162-167; `DestroyedOnce`, creation).
20. A failed deferred allocation keeps the unit of its acquire; after two, the teardown
    of a headless swapchain waits for ever (swapchain_base.cpp:499-504; the exception
    in `CallsReturn`, creation).
21. A failed `wl_buffer` listener destroys the image in an acquire, though the HUD
    has a view of it (wayland/swapchain.cpp:453-457; the exception in
    `UsersGoFirst`, creation).

`InstancesFindTheirData` of `HandleKeys` also fails, with four instances: the
key of an instance whose data was shared stays behind, and a later instance of
the same handle uses it (wsi_private_data.cpp:319-345).

Met while modelling, in the model as the code has it:

*Swapchains.*

* The drain waits for one image less than are not acquired (798), so that a
  destruction may leave one queued image unshown, against 394-397.
* In SHARED_CONTINUOUS_REFRESH the pool is never popped; the tenth present meets
  the assertion at 660-662, although the comment at 78-79 takes one present for
  granted.
* When the first present fails in the flip thread, the start semaphore is not
  posted and the destruction of the ancestor waits for ever (119-126, 405).
* A present answered OUT_OF_DATE posts a unit that the drain takes for a shown
  image (649-653): `OldIsShownFirst` excludes it by `late`.
* In a shared mode, a present after the descendant's first frees the image while the
  flip thread has it (640-655).
* If the application destroys the ancestor in one thread while it presents the
  descendant in another, which Vulkan allows, the heir may be inside a deleted
  object (399-411).  `NobodyUsesTheDead` is checked and proved for `Concurrent = FALSE`.
* An import of the acquire fence that fails leaves the image ACQUIRED though
  the application never got it (523-588).
* A present that fails half-way leaves semaphores or a fence signalled, which
  the next present of the image signals again; in a shared mode with a flip
  thread the payload's fence is reset while it may execute (704-711).
  `SubmissionsAreValid` excludes these images by `broken`.
* VK_SUBOPTIMAL_KHR of one swapchain hides an error of a later one
  (swapchain_api.cpp:342-345).
* `add_layer_swapchain()` failing destroys a swapchain whose ancestor is
  already deprecated.

*X11.*

* The SHM path notifies the sleepers before it frees the image
  (x11/swapchain.cpp:1511).
* The bridge may hold back all images but one; a second infinite acquire blocks:
  the exception in `X11CallsReturn`.
* The destructor sends STOP on the bridge before the flip thread is joined, and
  never waits for completions of pending images.
* With MAILBOX over DRI3, a present of the application takes the two locks in the
  other order than the drain of an heir.
* One feedback that times out turns synchronisation off for the life of the
  client, one failed connect ends it; rejected frames are reported as shown
  (xwayland_dmabuf_bridge.cpp).
* Nothing deletes the wsialloc allocator, the graphics context of the SHM
  presenter, and an SHM image whose memory fails: `KnownLosses`.
* DRI3 always fails for windows of depth 30: no DRM format is known for them.
* The bridge is documented to prefer tiled images (docs/configuration.md:105);
  the allocator has linear ones only.

*Wayland.*

* Every event for anybody restarts the time-out of an acquire and of the wait
  for a frame callback; UINT64_MAX becomes INT_MAX milliseconds.
* MAILBOX without a flip thread presents while the payload executes, and with
  explicit synchronisation nobody waits for it: `GoesOutFinished` speaks of FIFO.
* The unit posted when a fence wait fails is not seen by an acquire inside `poll`.

*Handles and instances.*

* The private data of a device is attached to the latest instance, or to any
  other, rather than to its own (mali_wrapper_icd.cpp:3689-3705, against
  wsi_private_data.hpp:825, "The instance that was used to create VkDevice"): a
  device may not know the surfaces of its own instance.
* The driver destroys an instance before its private data is released; another
  thread may have got the same handle in between, and loses its own private data.
* Two live instances with the same first word share private data, and releasing
  either destroys it (wsi_private_data.cpp:257-280).  A failed `try_insert` is
  dereferenced (310-313, 638-641).  A queue is taken for one of the sole device (749).
* `vkReleaseSwapchainImagesEXT` is in no table that is used; the layer's
  `vkCreateImage` and `vkBindImageMemory2` are never reached; a name with
  "RayTracing" or "MeshTask" gives null.
* `instance_profiles` never shrinks.  `overlay_feature_chain` tells of instance
  rate divisors also where the extension is not told of.  `prepare()` renames
  the EXT divisor extension also on a driver that has no other, which refuses
  the KHR name then (compatibility_manager.cpp:397-400); the module assumes such a driver away.

*Low addresses, HUD.*

* A mapping is out of the table before it is copied back, so that a submission
  from another thread in between does not carry what the host wrote there:
  `WritesAreCarried` excludes allocations being unmapped.
* A swapchain whose HUD is disabled stays primary; a sampler that failed to start
  is only tried again when no swapchain is left; `vkCreateSwapchainKHR` submits
  the atlas on `m_queue` without the application's synchronisation.

## What is proved

`tlapm` checks the following for every value of the constants that the
assumptions named in the modules allow.

| Theorem | Module | Statement |
|---|---|---|
| `TypeCorrect`, `NoWakeupIsLost`, `SemaphoreRefinement` | `PresentPathProofs` | `TypeOK` and `NoLostWakeup` of the semaphore are invariants; it implements `CountingSemaphore` |
| `QueueUsesItsParts`, `QueueIsCorrect`, `RequestIsAlwaysThere` | `PresentPathProofs` | the page flip queue stays within the specifications of its semaphore and its ring buffer, so it keeps what was proved of both; `RequestIsThere` is an invariant |
| `RingTypeCorrect`, `EndsCorrect`, `FifoRefinement` | `PresentPathProofs` | `RingTypeOK` and `EndsAreRight` are invariants; the module implements `BoundedFifo` |
| `HudIsInOrder`, `VerticesStayStill`, `HudLeaksNothing` | `PresentPathProofs` | `VerticesAreStill` and `NothingIsLeaked` are invariants, and so is `HudInv`, from which they follow |
| `SnapshotsAreCurrent`, `OverlaysReadLiveData` | `PresentPathProofs` | `SnapshotIsCurrent` is an invariant, whatever the order of memory; `OverlayReadsLiveData` if every swapchain is presented on the queue that teardown waits for |
| `CreationsAreUndone`, `UsersAreGone`, `UnitsAreImages` | `CallProofs` | `NothingElseIsLost`, `UsersGoFirst` and `UnitsHaveImages` are invariants |
| `SubmissionsAreSound` | `CallProofs` | `SubmissionsAreValid` is an invariant |
| `TypeCorrect`, `AcquireFinds`, `QueueMatches`, `NoneTwice`, `OwnersDiffer`, `ContractKept` | `HeadlessSwapchainProofs` | `TypeOK`, `AcquireFindsImage`, `FlipQueueMatches`, `NoImagePromisedTwice` and `OneOwner` are invariants; the swapchain implements `PresentationContract` |
| `WaylandInvariant`, `BuffersAreTheirs`, `ImagesGoOutFinished`, `WaylandKeepsContract` | `BackendProofs` | `WaylandInv`, `BufferIsTheirs` and `GoesOutFinished` are invariants; the swapchain and its compositor implement `PresentationContract` (`CommitsInOrder`) |
| `X11Invariant`, `ServersAreLeftAlone`, `EveryUnitIsAnImage`, `X11KeepsContract` | `BackendProofs` | `X11Inv`, `ServerOwnsWhatItReads` and `UnitsAreImages` are invariants; the swapchain and its server implement `PresentationContract` (`SendsInOrder`) |
| `TypeCorrect`, `AdvertisedIsGranted`, `DriverIsUsedAsEnabled`, `PoolsAreTheirOwn`, `BudgetIsKept` | `DeviceProofs` | `EmulationTypeOK`, `AdvertisedCanBeEnabled`, `DriverUsedAsEnabled`, `PoolsAreKnown` and `BudgetHolds` are invariants |
| `TypeCorrect`, `NobodyUsesTheDeadAlone`, `OldShownFirst` | `SwapchainHandoffProofs` | `TypeOK` and `OldIsShownFirst` are invariants; so is `NobodyUsesTheDead` if calls do not overlap |
| `TypeCorrect`, `CacheCurrent`, `CallsNeverStale`, `RegistriesCorrect` | `DeviceRegistryProofs` | `TypeOK`, `CacheIsCurrent`, `NeverStale` and `RegistriesAgree` are invariants |
| `KeysTypeCorrect`, `DevicesFound`, `CallsStay` | `DeviceProofs` | `TypeOK`, `DevicesFindTheirData` and `CallsStayHome` are invariants |
| `TypeCorrect`, `CopiesSafe`, `RegionsOwned`, `HostWritesKept`, `WritesCarried` | `LowAddressMapProofs` | `TypeOK`, `CopiesAreSafe`, `RegionsAreOwned` and `HostWritesSurvive` are invariants; every step satisfies `WritesAreCarried` |

* *Semaphore.*  `NoLostWakeup` counts: while somebody sleeps, at least as many
  threads are signalled as there are units.  It is inductive with `TypeOK`;
  the cardinalities come from `FiniteSetTheorems`.  The refinement maps the
  count to the count and hides the stages of a wait.
* *Ring.*  The abstract queue is the function `i -> slot (begin + i) mod N`.
  Lemmas on the remainder (`NoWrap`, `OneWrap`, `SlotsDiffer`, `SlotShift`)
  carry the steps.
* *Page flip queue.*  Each of its steps is one of the semaphore or of the ring, and
  stutters on the other (`QueueSteps`), so that their theorems carry over.
  `RequestIsThere` says nothing of the moment between push and post; `QueueInv` adds
  that there is exactly one request more than units while the mutex is held.
* *HUD.*  `Publication` says that no word is older than the sample the generation names,
  whatever stores of the next one were seen early.  Words and generation only grow and
  the first load of the generation holds the others back, so that a snapshot whose two
  generations agree has nothing older than they say, also when loads of words are
  performed after the second: `SnapshotsAreCurrent` is proved for any `WeakOrder`.  That
  a snapshot has nothing newer either (`SnapshotIsWhole`) holds in program order only.
  `Owning` says which Vulkan objects a renderer has at each stage of an attach, `Sampling` that the
  sampler and its sensors live as long as a swapchain is registered, `Readers` that shared
  objects live as long as a renderer reads them, and `Drawing` that a fence
  stands between what the GPU executes and the image's next record.  Which swapchain
  becomes the primary one is a maximum over the registered ones, an induction over
  data: the proof uses only that there is one.
* *Creation.*  `OwnFits` says what the swapchain object, and `ImageFits` what each image
  holds at each stage of a call: nothing before `init()` reaches it, its data and its image
  from there on (`Begun`), nothing but a leaked SHM image after the teardown of it
  (`Released`).  What a call gets before it fails is a first part of a sequence of
  resources, so that lemmas on first parts (`PartHolds`) carry the failing
  steps.  `NothingElseIsLost` is part of the invariant, because what is lost
  stays lost; `UsersGoFirst` follows.  `UnitsHaveImages` needs `UnitsInv` beside it: while images
  are made there are as many units as the swapchain shall have images, and each image
  that is finished (`Finished`) is FREE or UNALLOCATED, so that the two agree when the
  swapchain is handed out.  An acquire then takes a unit and at most one image
  (`AvailableWithout`), whichever way its allocation fails.
* *Present calls.*  `SubmissionsAreValid` counts signals against waits.  What is
  missing between two submissions of one call is `Promised`: a wait that the call has
  still to submit.  `Balance` says that the difference is one exactly while a wait is
  promised, `SignalsApart` that between any two signals in the queue there is a wait,
  `Settled` that without a promise the last one has its wait too; together they
  survive the GPU's taking a batch from the head of the queue, which counting alone does
  not.  `PayloadFits` relates a pending payload to the place of its image (`Awaits`): the
  flip thread shows no image whose payload pends, and a swapchain without one has waited
  for it.  `AppFenceFits` says that the application's fence is unused until the call has
  chained it.  An image for which a present failed half-way is out of all of this.
* *Headless swapchain.*  The properties are about images; what protects them is
  where each thread stands.  `Places` says which labels a thread may be at and
  `OnePresenter` that only one presents, with the lock.  The conjuncts of `Owned`
  tie status and place: an image in the pool is PENDING and there once (`PoolPends`,
  `PoolDiffers`), the one a presenter or an acquirer works on has the status that stage
  left it (`FlipShows`, `AppShows`, `AcquiringHas`, ...).  `PoolHasRoom` follows
  by counting, from the assumption that the pool has a slot per image.  The
  assertion of `acquire_next_image()` needs `NoImagePromisedTwice`: units, free images
  and threads between the two never add up to more than there are images.  For the
  refinement most steps are shown to leave the abstract state alone at once
  (`QuietSteps`); each other has a lemma with its effect and the contract's
  step it takes (`Simulation`).
* *X11 and Wayland.*  Both extend `swapchain_base`, so that the first part of
  `BackendProofs` is about its steps alone: `Common` has the places, statuses and
  owners as in the headless proof, with the labels of the two back ends added,
  and `Apart(K)` says of any set K of images that they are PENDING and that
  neither the application nor a thread, the pool or a call about to return has
  them.  `ApartStep` shows once that no step of the base disturbs it.
  For Wayland K is what the compositor has, together with the releases on the wire and in
  the queue of the swapchain (`Theirs`), and `ReleasesDiffer` says that these
  three are disjoint: else an image released twice would be posted twice.
  `Waited` carries what the page flip thread's fence wait found to the
  commit, which `GoesOutFinished` needs.  For X11 K is what the server reads, the pixmaps it
  reported idle and the images held back for the bridge (`TheServers`), and
  `ServersDiffer` says that each image is in one of them, once.  `UnitsAreImages` is
  inductive with these: each step has a lemma on how many units and how many
  images it adds (`Shifts`, `Balanced`), so that the sum over threads is
  one of three terms.  The wait of
  a first present for an ancestor is not among the steps of these two modules.
  Both implement `PresentationContract`, each from its invariant: `Simulated(K, L)` says what
  a step may do to the queue and the owners when the display has the images K
  before it and L after it.  `BaseSimulated` shows once that every step of the base does so
  with L = K, from its effect on the view of the images (`Effects`).  Of the back ends'
  steps most leave that view alone; the others take the oldest request out
  of the queue, to the display or back to the engine (`OldestLeaves`), or give an image
  back (`BackendFrees`).  The invariant and the simulation are proved of
  each step together (`WaylandKept`, `X11Kept`).  An idle event for which the ring
  of pixmaps had no room would lose its image: `QueueTakesIt` counts that it has.
* *Handoff.*  `NobodyUsesTheDead` is not inductive: an heir may enter its
  ancestor at any time.  `HandoffInv` adds that only one call runs and on a
  live swapchain (`OneCall`), that links join live neighbours and are cut on both
  sides (`Linked`), that an heir inside its ancestor is linked to it
  (`InAncestor`), that nothing is queued before `started` (`NotStarted`), that
  a unit of the start semaphore means that the ancestor was left
  (`StartPosted`), and that a teardown past its wait has no heir inside or on the way
  (`TeardownWaits`).  Only the last two together make deletion safe.
  `OldIsShownFirst` rests on `OrderInv` instead, which needs nothing of the
  application: a unit of the free image semaphore stands for an image that is neither acquired
  nor on its way to the screen (`UnitsBounded`), so that what the heir still awaits
  bounds what is not shown (`Awaited`, then `AlmostShown`), as long as
  `queue_present()` refuses more (`NoMorePresents`).
* *Registry.*  `CacheIsCurrent` speaks only of moments without a writer, but a
  thread may hit its cache while a writer has changed the map and not yet raised
  the generation.  `Fresh` therefore says that a table cached under the current
  generation is that of the map or of the device the writer works on, and
  `OneCaller` that nobody has that device; together they give `NeverStale`.
  `MapIsTrue`, `DataIsTrue`, `Handed` and `Stages` say what each stage of a creation or a
  destruction has done, and give `RegistriesAgree`; `InstancesLeave` that an
  instance is destroyed after its devices, so that
  `forget_managed_devices_for_instance()` takes nothing from anybody.  Each
  conjunct has a lemma of its own (`KeepFresh`, ...), with a step per action where
  the actions can disturb it.
* *Handle keys.*  `Filed` says that the data of a device and the key it is filed
  under point at each other, whatever words the driver repeats; `BlocksHold` that
  a handle's block holds the word written last, `Given` that a device
  the application has bears the loader's word, `ChainsOwned` and `QueuesKeyed` that
  swapchains and queues belong to live devices.  The searches and the recovery
  for queues are safe because each candidate they may return satisfies `Filed`.
* *Low addresses.*  The code takes a mapping out of its table before it copies and
  unmaps it, and the driver's part comes last, so every checked property is about a
  mapping that may be in a call instead of the table.  `EntriesMap`, `Mapping`,
  `Removing` and `Holding` say, stage by stage, who has the mapping of a memory and
  that its region and range are live; `LowsDiffer` and `LiveOwned` that each region has
  one owner; `SizesAgree` that the recorded size is the driver's, which makes a
  `VK_WHOLE_SIZE` mapping end where the allocation does; `Counted` relates the counter to the
  shadows of the table and of the calls (the cardinalities need finitely many memories and
  threads).  `LowIsKept` says that a value that is newest below lies in a shadow
  that will still be copied: it gives `HostWritesSurvive` and `WritesAreCarried`.  A
  write that an invalidation copies over is "invalidated" from there on and in neither.
  The steps that only move data change neither table nor calls, and are one case
  of most lemmas (`StepsSorted`).

* *Device emulation.*  A device handle comes back while queries, children and hooks
  of its predecessor are forgotten one by one.  `ProfilesInv` says that what an
  instance was told is what its profile overlays on the driver, so that
  `RequestServed` gives all of a request: the driver has it, and whatever was wanted and
  not asked for is answered by the profile (`Served`).  `DevicesInv` carries
  `Served` from the request to the device, and says that a thread which makes or
  destroys a device has it alone; then no call relies on less than it needs, but for
  what unsafe mode leaves without an answer (`Unanswered`).
  `PoolsInv` says for each pool of the application which of the two it is
  (`Known`): at a heap address with an entry of its device, or the driver's and in
  `realPools`; that no entry outlives its heap address makes a reused
  address safe.  The indexed commands look nothing up and are outside `PoolsAreKnown`.
  Assumed of the driver: the KHR divisor extension comes with its
  feature, and the EXT one not without the KHR one.
* *Budget of a device.*  `BudgetHolds` is about a sum over resources and threads, for
  any number of both.  It is stated without recursion: `Total(f)` is the
  cardinality of the set of cells `<<x, k>>` with `k < f[x]`, and `TotalMoves` says that it
  changes by what one `f[x]` does.  `AccountKept` then holds of every device: what is used of
  the budget is what the records and the calls on their way hold, what is
  used is at most the budget, and the memory is what the records and those
  calls hold that are between allocation and release (`Financed`).  The two sums have the same
  first part, and a call's loan is at most its charge.  The account
  is kept because a record is emplaced where none is: a handle is the application's, or
  of one call alone, or nobody's (`RecordsKept`, `ResourceCallKept`); and because the
  hooks of a device do not change while a call uses it, so that what is recorded under
  them is found under them.  TLC found `BudgetInv` to hold on the instance of
  `DeviceEmulation.cfg`.

`CommitsInOrder` and `SendsInOrder` are in no configuration: TLC found no violation of them on the
instances of `Wayland.cfg` and `X11.cfg`, where `PROPERTIES` takes either.

Only model-checked: all liveness (fairness and ENABLED are out of the prover's
reach: eight properties of six runs).
No module declares a recursive operator, so that each of them can be proved about.

## What is not modelled

* Time: a deadline passes at some point, never at a moment.  The one-second wait for
  a previous payload is a wait that may fail while the payload is there.
* The contents of dispatch tables, extension lists and creation infos beyond
  the features and extensions that a property tells apart; `mali_driver_create_device()`,
  a second way to create a device that picks its instance from the map
  (mali_wrapper_icd.cpp:3780-3900).
* `DeviceRegistry` has distinct first words for distinct handles; that they may be
  equal is `HandleKeys`, where calls do not overlap.
* The search for a low region (a choice of any free one), page alignment, the
  statistics other than the count of shadows, and what `vkMapMemory2` does on a
  driver without it.
* Surface queries (formats, modes, capabilities), which keep no state; surface
  mappings of the bridge; the loader of the driver's library.
* Present timing, present-id waits and image compression: timing queues
  are filled by the driver's time stamps, which no property here could tell from
  any others.
* An X11 or Wayland swapchain that is created with an `oldSwapchain` (`HasAncestor`): the
  modules have no step out of its first present.  The runs do not retire one
  either (`Retires`); the proofs cover that.
* Conversion of pixels for SHM, the answers to `wp_presentation`, the layout of the HUD
  and the statistics of its frames.
* The signal guard around pipeline creation, logging, format tables, external
  memory handles, and what is not C++: patches, scripts, packaging.

## Plan

In the order they were written, with the question each answers:

1. `TimedSemaphore`, `RingBuffer`, `PageFlipQueue`: may the engine be built on
   units and sequences?
2. `SwapchainBase`, `HeadlessSwapchain`, `PresentationContract`,
   `SwapchainHandoff`: who owns an image, and what do relatives do to each other?
3. `DeviceRegistry`, `HandleKeys`, `EntryPoints`: whose driver and whose data does a call reach?
4. `LowAddressMap`: does what the host writes reach the device?
5. `X11Swapchain` with `BridgeClient`, `WaylandSwapchain`: does every image come
   back from the server, and nobody write it before?
6. `SwapchainCreation` with `ImageFormats`, `PresentCalls`: what is left by a failure?
7. `CompatibilityProfiles`, `DeviceEmulation`: is what was told kept?
8. `HudRuntime`, `HudRenderer`: does the overlay outlive what it draws with?

Left: present timing, once a property of it can be stated from the code; and a back end
that is created with an `oldSwapchain`.
