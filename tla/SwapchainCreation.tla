-------------------------- MODULE SwapchainCreation --------------------------
(***************************************************************************)
(* vkCreateSwapchainKHR and vkDestroySwapchainKHR, resource by resource:   *)
(* swapchain_base::init() with the init_platform(), the                    *)
(* create_swapchain_image() and the allocate_and_bind_swapchain_image() of *)
(* the headless, Wayland and X11 back ends, and the destructors that undo  *)
(* whatever part of it was done.  Every call of the code that can fail may *)
(* fail here; the call then gives up where it is and the swapchain object  *)
(* is destroyed.                                                           *)
(*                                                                         *)
(* "own" is what the swapchain object holds and "held[i]" what its image i *)
(* holds; what is left in them when the object is freed is "lost".  Images *)
(* with deferred memory get it when they are acquired (AcquireImage), and  *)
(* that may fail as well.  The life of the images after that is the matter *)
(* of SwapchainBase and of the back ends' modules.                         *)
(***************************************************************************)
EXTENDS ImageFormats, FiniteSets, Sequences

CONSTANTS
    MaxImages,      \* MAX_SWAPCHAIN_IMAGE_COUNT
    Displays        \* \subseteq {"headless", "wayland", "x11"}

ASSUME CreationAssumption ==
    /\ MaxImages \in Nat \ {0}
    /\ Displays \subseteq {"headless", "wayland", "x11"}

VARIABLES
    at,         \* what the call does next; "idle": no swapchain, "live": no call
    result,     \* what the last call returned
    path,       \* the back end and, for X11, the presentation path
    deferred,   \* VK_SWAPCHAIN_CREATE_DEFERRED_MEMORY_ALLOCATION_BIT_EXT
    mailbox,    \* m_present_mode is VK_PRESENT_MODE_MAILBOX_KHR
    count,      \* m_swapchain_images.size()
    modifier,   \* of m_image_creation_parameters.m_allocated_format
    shared,     \* modifiers that driver and display server both take
    next,       \* the image that is being created or destroyed
    status,     \* of the images
    held,       \* what each image holds
    stale,      \* images whose field image still names a VkImage already destroyed
    own,        \* what the swapchain holds
    lost,       \* what the last swapchain still held when it was freed
    error,      \* m_error_state is not VK_SUCCESS
    units,      \* of m_free_image_semaphore
    spent,      \* units that acquires took which then failed (a history)
    drain,      \* free images that wait_for_pending_buffers() still waits for
    heir        \* the m_descendant of the old swapchain: none, or this one

creationVars == <<at, result, path, deferred, mailbox, count, modifier, shared, next,
                  status, held, stale, own, lost, error, units, spent, drain, heir>>
request == <<path, deferred, mailbox, count>>
images == <<status, held, stale>>
format == <<modifier, shared>>

Slots == 1 .. MaxImages
Existing == 1 .. count
X11 == path \in {"dri3", "bridge", "shm"}
DmaBuf == path \in {"wayland", "dri3", "bridge"}

CreationInit ==
    /\ at = "idle" /\ result = "none" /\ path = "headless"
    /\ deferred = FALSE /\ mailbox = FALSE /\ count = 1
    /\ modifier = NoModifier /\ shared = {}
    /\ next = 1
    /\ status = [i \in Slots |-> "INVALID"]
    /\ held = [i \in Slots |-> {}]
    /\ stale = {} /\ own = {} /\ lost = {}
    /\ error = TRUE /\ units = 0 /\ spent = 0 /\ drain = 0
    /\ heir = "none"

(* A member of the code's TRY_LOG_CALL chain: on success the call goes on  *)
(* at "there" and the swapchain holds r as well.                           *)
Fail == at' = "destructor" /\ result' = "failure"
Take(r, there) ==
    \/ own' = own \cup r /\ at' = there /\ UNCHANGED result
    \/ UNCHANGED own /\ Fail

(* The same for an image and the ordered resources "wanted": the call gets *)
(* some first part of them, and succeeds when it gets them all.            *)
Parts(wanted) == {SubSeq(wanted, 1, n) : n \in 0 .. Len(wanted)}
Elements(s) == {s[n] : n \in DOMAIN s}
-----------------------------------------------------------------------------
(* vkCreateSwapchainKHR: the surface allocates the object, and init()      *)
(* is called with the swapchain extensions still to add.                   *)
CreateSwapchain ==
    /\ at = "idle"
    /\ \/ /\ result' = "failure"
          /\ UNCHANGED <<at, own, request, images, error, format, units, spent>>
       \/ /\ path' \in Displays
          /\ deferred' \in BOOLEAN
          /\ mailbox' \in BOOLEAN
          /\ count' \in Slots
          /\ own' = {"object"}
          /\ status' = [i \in Slots |-> "INVALID"]
          /\ held' = [i \in Slots |-> {}] /\ stale' = {}
          /\ modifier' = NoModifier /\ shared' = {}
          /\ error' = TRUE /\ units' = 0 /\ spent' = 0
          /\ at' = "extensions"
          /\ result' = "none"
    /\ UNCHANGED <<next, lost, drain, heir>>

AddRequiredExtensions ==
    /\ at = "extensions"
    /\ Take({}, IF path = "headless" THEN "flip_thread"
                ELSE IF path = "wayland" THEN "queue" ELSE "allocator")
    /\ UNCHANGED <<request, format, next, images, lost, error, units, spent, drain, heir>>

(* init_platform() of the Wayland back end.                                *)
CreateQueue ==
    /\ at = "queue"
    /\ Take({"wl_queue"}, "allocator")
    /\ UNCHANGED <<request, format, next, images, lost, error, units, spent, drain, heir>>

(* wsialloc_new(): an open DMA heap.                                       *)
CreateAllocator ==
    /\ at = "allocator"
    /\ Take({"allocator"}, IF path = "wayland" THEN "flip_thread" ELSE "path")
    /\ UNCHANGED <<request, format, next, images, lost, error, units, spent, drain, heir>>

(* init_platform() of the X11 back end: the environment, the bridge and    *)
(* the server's DRI3 decide on the path.  A DRI3 presenter that cannot     *)
(* register for its events is dropped for the bridge or for SHM.           *)
PresentationPath(forceShm, forceBridge, bridge, dri3) ==
    IF forceShm THEN "shm"
    ELSE IF bridge /\ (forceBridge \/ ~dri3) THEN "bridge"
    ELSE IF dri3 THEN "dri3" ELSE "shm"

ChoosePath ==
    /\ at = "path"
    /\ \E forceShm, forceBridge, bridge, dri3 \in BOOLEAN :
           path' = PresentationPath(forceShm, forceBridge, bridge, dri3)
    /\ own' = own \cup (IF path' = "dri3" THEN {"special_event"} ELSE {})
    /\ at' = IF path' = "shm" THEN "shm_presenter" ELSE "mode"
    /\ UNCHANGED <<result, deferred, mailbox, count, format, next, images, lost, error,
                   units, spent, drain, heir>>

(* shm_presenter::init(): a graphics context and, with XSync, a fence.     *)
InitShmPresenter ==
    /\ at = "shm_presenter"
    /\ \E fence \in SUBSET {"xsync_fence"} : Take({"gc"} \cup fence, "mode")
    /\ UNCHANGED <<request, format, next, images, lost, error, units, spent, drain, heir>>

(* DRI3 and the bridge present in FIFO order unless the environment allows *)
(* otherwise; the bridge takes all the images there can be.  The swapchain *)
(* is then declared healthy, before its event thread starts.               *)
SettleMode ==
    /\ at = "mode"
    /\ mailbox' \in IF path = "shm" THEN {mailbox} ELSE {FALSE, mailbox}
    /\ count' = IF path = "bridge" THEN MaxImages ELSE count
    /\ \/ at' = "event_thread" /\ error' = FALSE /\ UNCHANGED result
       \/ path = "bridge" /\ count < MaxImages /\ Fail /\ UNCHANGED error
    /\ UNCHANGED <<path, deferred, format, next, images, own, lost, units, spent, drain, heir>>

StartEventThread ==
    /\ at = "event_thread"
    /\ Take({"event_thread"}, "flip_thread")
    /\ UNCHANGED <<request, format, next, images, lost, error, units, spent, drain, heir>>
-----------------------------------------------------------------------------
(* init() goes on.  Mailbox presents in the caller's thread.               *)
InitPageFlipThread ==
    /\ at = "flip_thread"
    /\ Take(IF mailbox /\ path # "headless" THEN {} ELSE {"flip_thread"}, "semaphore")
    /\ UNCHANGED <<request, format, next, images, lost, error, units, spent, drain, heir>>

InitFreeImageSemaphore ==
    /\ at = "semaphore"
    /\ Take({"free_semaphore"}, "image")
    /\ units' = IF at' = "image" THEN count ELSE 0
    /\ next' = 1
    /\ UNCHANGED <<request, format, images, lost, error, spent, drain, heir>>

(* The first image decides on the format; what it may be is kept in        *)
(* "shared".  An SHM image has the window's own linear layout.             *)
FormatIsChosen == ~DmaBuf \/ modifier # NoModifier
ChooseFormat ==
    /\ at = "image" /\ ~FormatIsChosen
    /\ \E driver \in [DriverModifiers -> DriverAnswers], server \in SUBSET Modifiers,
          depth \in {16, 24, 30, 32, 8}, preferLinear \in BOOLEAN :
        LET taken == IF path = "wayland" THEN server ELSE Modifiers
            importable == Importable(driver, taken)
            picked == WsiallocPicks(Candidates(path, importable, server, preferLinear))
        IN  /\ modifier' = IF path = "dri3" /\ ~DepthHasFormat(depth) THEN NoModifier
                                                                     ELSE picked
            /\ shared' = importable \cap
                   (IF path = "dri3" THEN Dri3Modifiers(server) \cup Dri3FallbackModifiers
                                     ELSE taken)
    /\ IF modifier' # NoModifier
       THEN UNCHANGED <<at, result>> /\ UNCHANGED held
       ELSE Fail /\ held' = [held EXCEPT ![next] = {"data"}]
    /\ UNCHANGED <<request, next, status, stale, own, lost, error, units, spent, drain, heir>>

(* create_swapchain_image().  An image for SHM gets memory that the host   *)
(* can see and is bound there and then.                                    *)
HostVisible == <<"memory", "binding">>
CreationOf == IF path = "headless" THEN <<"image">>
              ELSE <<"data", "image">> \o (IF path = "shm" THEN HostVisible ELSE <<>>)
CreateSwapchainImage ==
    /\ at = "image" /\ FormatIsChosen
    /\ \E got \in Parts(CreationOf) :
          /\ held' = [held EXCEPT ![next] = @ \cup Elements(got)]
          /\ IF got = CreationOf
             THEN /\ at' = IF deferred THEN "semaphores" ELSE "allocate"
                  /\ status' = [status EXCEPT ![next] = IF deferred THEN "UNALLOCATED" ELSE @]
                  /\ UNCHANGED result
             ELSE Fail /\ UNCHANGED status
    /\ UNCHANGED <<request, format, next, stale, own, lost, error, units, spent, drain, heir>>

(* allocate_and_bind_swapchain_image(): the image is declared free first.  *)
(* A dma-buf of wsialloc is imported through a duplicate, closed or given  *)
(* to the driver, and bound; the display server gets another one.  A       *)
(* second SHM segment is welcome but not needed.                           *)
WaylandDmaBufs == <<"fd">>
X11DmaBufs == <<"fd">>
Imported == <<"memory", "binding">>
WlBuffer == <<"wl_buffer">>
Pixmap == <<"pixmap">>
Segment == <<"segment">>
PresentFence == <<"fence">>
HeadlessAllocation == <<"data", "memory", "binding">> \o PresentFence
WaylandAllocation == WaylandDmaBufs \o WlBuffer \o Imported \o PresentFence
X11Allocation == (IF path = "shm" THEN Segment ELSE X11DmaBufs \o Imported)
                 \o (IF path = "dri3" THEN Pixmap ELSE <<>>) \o PresentFence
AllocationOf == IF path = "headless" THEN HeadlessAllocation
                ELSE IF path = "wayland" THEN WaylandAllocation ELSE X11Allocation

(* The data of an image: its destructor frees the memory and the dma-buf,  *)
(* destroy_image() the rest.                                               *)
MemoryResources == {"memory", "binding", "fd"}
SegmentResources == {"segment", "alt_segment"}
DataResources == {"data", "fence", "wl_buffer", "pixmap"} \cup MemoryResources
                 \cup SegmentResources

(* What becomes of image i.  When it fails, X11 and Wayland leave it       *)
(* declared free with what it got, for the swapchain's destructor.  The    *)
(* headless back end, and Wayland when a wl_buffer takes no listener, call *)
(* destroy_image().  A headless image for which there is no data loses its *)
(* VkImage and nothing else: status and field stay as they are.            *)
Outcome(ok, has, becomes, names) == [ok |-> ok, held |-> has, status |-> becomes, stale |-> names]
With(i, got) == {held[i] \cup Elements(got) \cup spare :
                 spare \in IF "segment" \in Elements(got) THEN SUBSET {"alt_segment"} ELSE {{}}}
Undone(i) == held[i] \ (DataResources \cup {"image"})
Partial(i) == UNION {With(i, got) : got \in Parts(AllocationOf) \ {AllocationOf}}
AllocationOutcomes(i) ==
    {Outcome(TRUE, has, "FREE", stale) : has \in With(i, AllocationOf)}
    \cup (IF path = "headless" THEN {Outcome(FALSE, held[i] \ {"image"}, status[i], stale \cup {i})}
          ELSE {Outcome(FALSE, has, "FREE", stale) : has \in Partial(i)})
    \cup (IF path \in {"headless", "wayland"} THEN {Outcome(FALSE, Undone(i), "INVALID", stale \ {i})}
          ELSE {})

AllocateSwapchainImage ==
    /\ at = "allocate"
    /\ \E o \in AllocationOutcomes(next) :
          /\ held' = [held EXCEPT ![next] = o.held]
          /\ status' = [status EXCEPT ![next] = o.status]
          /\ stale' = o.stale
          /\ IF o.ok THEN at' = "semaphores" /\ UNCHANGED result ELSE Fail
    /\ UNCHANGED <<request, format, next, own, lost, error, units, spent, drain, heir>>

CreateSemaphores ==
    LET wanted == <<"present_semaphore", "present_fence_wait">>
    IN  /\ at = "semaphores"
        /\ \E got \in Parts(wanted) :
              /\ held' = [held EXCEPT ![next] = @ \cup Elements(got)]
              /\ IF got # wanted THEN Fail /\ UNCHANGED next
                 ELSE /\ at' = IF next = count THEN "queue_data" ELSE "image"
                      /\ next' = IF next = count THEN next ELSE next + 1
                      /\ UNCHANGED result
        /\ UNCHANGED <<request, format, status, stale, own, lost, error, units, spent, drain,
                       heir>>

(* The queue, its loader data, and a HUD if one can be attached (never to  *)
(* a headless swapchain).                                                  *)
SetDeviceLoaderData ==
    /\ at = "queue_data"
    /\ \/ \E hud \in SUBSET (IF path = "headless" THEN {} ELSE {"hud"}) :
              own' = own \cup {"queue"} \cup hud /\ at' = "link" /\ UNCHANGED result
       \/ own' = own \cup {"queue"} /\ Fail
    /\ UNCHANGED <<request, format, next, images, lost, error, units, spent, drain, heir>>

(* The end of init(): an old swapchain is deprecated last.                 *)
LinkAncestor ==
    /\ at = "link"
    /\ heir' \in {"none", "this"}
    /\ error' = FALSE
    /\ at' = "register"
    /\ UNCHANGED <<result, request, format, next, images, own, lost, units, spent, drain>>

AddLayerSwapchain ==
    /\ at = "register"
    /\ \/ at' = "live" /\ result' = "success" /\ own' = own \cup {"registered"}
       \/ Fail /\ UNCHANGED own
    /\ UNCHANGED <<request, format, next, images, lost, error, units, spent, drain, heir>>
-----------------------------------------------------------------------------
(* acquire_next_image() with a unit to take: the first image from the hint *)
(* on that is free or can be allocated.  The unit is not given back when   *)
(* the allocation fails.  (Only the first round is modelled here: nothing  *)
(* is presented.)                                                          *)
Available == {i \in Existing : status[i] \in {"FREE", "UNALLOCATED"}}
FirstAvailable == {i \in Available : \A k \in Available : i =< k}
Acquired(i) == IF status[i] = "FREE" THEN {Outcome(TRUE, held[i], "FREE", stale)}
               ELSE AllocationOutcomes(i)

(* A bug: an acquire that fails gives its unit back.                       *)
AcquireGivesBack ==
    /\ at = "live" /\ units > 0
    /\ \E i \in FirstAvailable : \E o \in Acquired(i) :
          /\ held' = [held EXCEPT ![i] = o.held]
          /\ status' = [status EXCEPT ![i] = IF o.ok THEN "ACQUIRED" ELSE o.status]
          /\ stale' = o.stale
          /\ units' = IF o.ok THEN units - 1 ELSE units
          /\ result' = IF o.ok THEN "success" ELSE "failure"
    /\ UNCHANGED <<at, request, format, next, own, lost, error, spent, drain, heir>>

AcquireImage ==
    /\ at = "live" /\ units > 0
    /\ units' = units - 1
    /\ \E i \in FirstAvailable : \E o \in Acquired(i) :
          /\ held' = [held EXCEPT ![i] = o.held]
          /\ status' = [status EXCEPT ![i] = IF o.ok THEN "ACQUIRED" ELSE o.status]
          /\ stale' = o.stale
          /\ spent' = IF o.ok THEN spent ELSE spent + 1
          /\ result' = IF o.ok THEN "success" ELSE "failure"
    /\ UNCHANGED <<at, request, format, next, own, lost, error, drain, heir>>

DestroySwapchain ==
    /\ at = "live"
    /\ own' = own \ {"registered"}
    /\ at' = "destructor" /\ result' = "none"
    /\ UNCHANGED <<request, format, next, images, lost, error, units, spent, drain, heir>>

(* A bug: the event thread is told to end and not waited for.              *)
StopWithoutJoin ==
    /\ at = "destructor"
    /\ at' = "teardown"
    /\ UNCHANGED <<result, request, format, next, images, own, lost, error, units, spent,
                   drain, heir>>

(* The destructor of the X11 back end joins the event thread first.        *)
StopEventThread ==
    /\ at = "destructor"
    /\ own' = own \ {"event_thread"}
    /\ at' = "teardown"
    /\ UNCHANGED <<result, request, format, next, images, lost, error, units, spent, drain, heir>>

(* A bug: the images that the application holds are waited for too.        *)
TeardownCountsAcquired ==
    /\ at = "teardown"
    /\ at' = "drain"
    /\ drain' = IF error THEN 0 ELSE count - 1
    /\ UNCHANGED <<result, request, format, next, images, own, lost, error, units, spent, heir>>

(* teardown(): a healthy swapchain waits until all its images but one and  *)
(* the acquired ones are free.                                             *)
Teardown ==
    LET acquired == Cardinality({i \in Existing : status[i] = "ACQUIRED"})
    IN  /\ at = "teardown"
        /\ at' = "drain"
        /\ drain' = IF error \/ count < acquired + 1 THEN 0 ELSE count - acquired - 1
        /\ UNCHANGED <<result, request, format, next, images, own, lost, error, units, spent,
                       heir>>

(* wait_for_free_buffer() takes a unit, or asks the back end: without an   *)
(* event thread the X11 back end gives up, the Wayland display ends the    *)
(* wait after INT_MAX milliseconds, and the headless back end has the      *)
(* semaphore wait for a post.                                              *)
WaitForPendingBuffers ==
    /\ at = "drain" /\ drain > 0
    /\ units > 0 \/ (path # "headless" /\ "event_thread" \notin own)
    /\ drain' = drain - 1
    /\ units' = IF units > 0 THEN units - 1 ELSE units
    /\ UNCHANGED <<at, result, request, format, next, images, own, lost, error, spent, heir>>

JoinFlipThread ==
    /\ at = "drain" /\ drain = 0
    /\ own' = own \ {"hud", "flip_thread"}
    /\ heir' = "none"
    /\ next' = 1
    /\ at' = "images"
    /\ UNCHANGED <<result, request, format, images, lost, error, units, spent, drain>>

(* destroy_image(): the VkImage goes only with a status, the rest with the *)
(* image's data; the destructors of its members free the memory, the       *)
(* dma-buf and the fence.  Then the two semaphores.                        *)
(* A bug: an image whose memory was deferred is taken for one never made.  *)
DestroyImageOnlyIfFree(i) ==
    held[i] \ ((IF status[i] \in {"FREE", "ACQUIRED"} THEN {"image"} ELSE {})
               \cup DataResources \cup {"present_semaphore", "present_fence_wait"})

(* destroy_image() and the two DestroySemaphore() of teardown().           *)
DestroyImage(i) ==
    held[i] \ ((IF status[i] # "INVALID" THEN {"image"} ELSE {})
               \cup (IF "data" \in held[i] THEN DataResources ELSE {})
               \cup {"present_semaphore", "present_fence_wait"})
ReleaseImages ==
    /\ at = "images"
    /\ held' = [held EXCEPT ![next] = DestroyImage(next)]
    /\ status' = [status EXCEPT ![next] = "INVALID"]
    /\ stale' = stale \ {next}
    /\ IF next < count THEN next' = next + 1 /\ UNCHANGED at
                       ELSE at' = "members" /\ UNCHANGED next
    /\ UNCHANGED <<result, request, format, own, lost, error, units, spent, drain, heir>>

(* The members go with the object: of the back ends only Wayland's deletes *)
(* its allocator.  What is still held is lost.                             *)
Members == {"object", "special_event", "xsync_fence", "free_semaphore", "queue", "wl_queue"}
           \cup (IF path = "wayland" THEN {"allocator"} ELSE {})
FreeSwapchain ==
    /\ at = "members"
    /\ lost' = (own \ Members) \cup UNION {held[i] : i \in Slots}
    /\ own' = {}
    /\ held' = [i \in Slots |-> {}]
    /\ at' = "idle"
    /\ UNCHANGED <<result, request, format, next, status, stale, error, units, spent, drain, heir>>
-----------------------------------------------------------------------------
InitPlatform ==
    \/ AddRequiredExtensions \/ CreateQueue \/ CreateAllocator \/ ChoosePath
    \/ InitShmPresenter \/ SettleMode \/ StartEventThread
InitImages ==
    \/ InitPageFlipThread \/ InitFreeImageSemaphore \/ ChooseFormat
    \/ CreateSwapchainImage \/ AllocateSwapchainImage \/ CreateSemaphores
    \/ SetDeviceLoaderData \/ LinkAncestor \/ AddLayerSwapchain
Destruct ==
    \/ StopEventThread \/ Teardown \/ WaitForPendingBuffers \/ JoinFlipThread
    \/ ReleaseImages \/ FreeSwapchain
Call == InitPlatform \/ InitImages \/ Destruct

CreationNext == CreateSwapchain \/ AcquireImage \/ DestroySwapchain \/ Call

CreationSpec == CreationInit /\ [][CreationNext]_creationVars
(* A call that has been made runs on; nothing makes the application call.  *)
CreationFairSpec == CreationSpec /\ WF_creationVars(Call)
-----------------------------------------------------------------------------
(* A unit of the free image semaphore stands for an image that an acquire  *)
(* can hand out, however many deferred allocations failed before, be their *)
(* images destroyed, kept or half made (acquire_next_image() asserts that  *)
(* it finds one).                                                          *)
UnitsHaveImages == at = "live" => units =< Cardinality(Available)

(* An image that the application has been given has all that its back end  *)
(* needs to draw it and to show it.  Not checked, because it fails: an     *)
(* acquire hands out the X11 or Wayland image that an earlier acquire      *)
(* could not allocate and left free, or the headless image that it         *)
(* destroyed.                                                              *)
Whole == Elements(CreationOf) \cup Elements(AllocationOf)
         \cup {"present_semaphore", "present_fence_wait"}
HandedOutIsWhole == \A i \in Slots : status[i] = "ACQUIRED" => Whole \subseteq held[i]

(* What destroy_image() is going to destroy has not been destroyed.  Not   *)
(* checked, because it fails for a headless image without data.            *)
DestroyedOnce == \A i \in stale : status[i] = "INVALID"

(* Whatever step of a creation or of an acquire fails, and after a         *)
(* destruction, nothing is left behind, but for three things that the      *)
(* destructors of the X11 back end forget: the allocator, the graphics     *)
(* context of the SHM presenter and, when its memory fails, an SHM image   *)
(* that has no status yet.                                                 *)
KnownLosses == (IF path = "x11" \/ X11 THEN {"allocator"} ELSE {})
               \cup (IF path = "shm" THEN {"gc", "image"} ELSE {})
NothingElseIsLost == at = "idle" => lost \subseteq KnownLosses

(* What uses an image goes before it: the threads that look at images and  *)
(* their data, the HUD's views of them, the queue that a wl_buffer's       *)
(* events are sent to (teardown() and the destructors of the back ends).   *)
(* The HUD keeps a view of the image that a failed acquire of a Wayland    *)
(* swapchain destroyed.                                                    *)
Refused(i) == path = "wayland" /\ deferred /\ status[i] = "INVALID"
UsersGoFirst ==
    /\ "event_thread" \in own =>
           \A i \in Slots : status[i] # "INVALID" => "data" \in held[i]
    /\ "hud" \in own => \A i \in Existing : "image" \in held[i] \/ Refused(i)
    /\ (\E i \in Slots : "wl_buffer" \in held[i]) => "wl_queue" \in own
    /\ at \in {"images", "members"} => own \cap {"flip_thread", "event_thread"} = {}

(* The drain of a teardown only waits on a semaphore that was initialised  *)
(* (timed_semaphore.cpp asserts it).                                       *)
SemaphoreIsReady == at = "drain" /\ drain > 0 => "free_semaphore" \in own

(* A creation or a destruction returns, also the one that undoes a failed  *)
(* creation and has to drain the images of a swapchain that never showed   *)
(* one.  The exception: a headless swapchain waits for the units of failed *)
(* acquires, of which it can spare one.                                    *)
CallsReturn ==
    at \notin {"idle", "live"} /\ ~(path = "headless" /\ spent > 1) ~> at \in {"idle", "live"}
=============================================================================
