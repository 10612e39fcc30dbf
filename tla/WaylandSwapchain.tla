--------------------------- MODULE WaylandSwapchain ---------------------------
(***************************************************************************)
(* wsi::wayland::swapchain (wsi/wayland/swapchain.cpp) over swapchain_base, *)
(* with the frame callbacks of its surface (wsi/wayland/surface.cpp) and   *)
(* dispatch_queue() (wsi/wayland/wl_helpers.cpp).                          *)
(*                                                                         *)
(* The compositor answers with events on one wire.  Any thread that polls  *)
(* the display reads the wire for everybody: a release of a buffer goes to *)
(* m_buffer_queue, the answer to a frame callback to surface_queue, the    *)
(* rest to the queues of others.  Each is handled by whoever dispatches    *)
(* that queue next: an acquire or a drain the first, a present the second. *)
(***************************************************************************)
EXTENDS SwapchainBase

CONSTANT ExplicitSync   \* whether the compositor may have explicit synchronisation

ASSUME WaylandAssumption ==
    /\ PresentModes \subseteq {"FIFO", "MAILBOX"}
    /\ ThreadModes = AllModes \ {"MAILBOX"}
    /\ ExplicitSync \subseteq BOOLEAN

VARIABLES
    explicit,       \* the surface has a synchronisation interface
    wire,           \* events nobody has read: released images, Frame, Other
    bufferQueue,    \* m_buffer_queue: released images
    frameQueued,    \* surface_queue holds the answer to last_frame_callback
    frameOwed,      \* the compositor has still to answer it
    presentPending, \* present_pending of the surface
    atCompositor,   \* images committed and not released
    fenced,         \* those committed with an acquire fence
    current,        \* the image committed last
    displayLost     \* the connection to the display is broken

(* Events that carry no image: the answer to a frame callback, all others. *)
Frame == -1
Other == -2

displayVars == <<wire, bufferQueue, frameQueued, displayLost>>
frameVars == <<frameOwed, presentPending>>
compositorVars == <<atCompositor, fenced, current>>
waylandVars == <<explicit, displayVars, frameVars, compositorVars>>
wvars == <<vars, waylandVars>>

(* A surface that had another swapchain may still wait for its last frame. *)
WInit ==
    /\ Init
    /\ explicit \in ExplicitSync
    /\ wire = {}
    /\ bufferQueue = {}
    /\ frameQueued = FALSE
    /\ presentPending \in BOOLEAN
    /\ frameOwed = presentPending
    /\ atCompositor = {}
    /\ fenced = {}
    /\ current = NoImage
    /\ displayLost = FALSE

Polling(t) == pc[t] \in {"poll", "frame_poll"}

(* wl_display_read_events(): one thread reads, all that poll go on to      *)
(* dispatch their queues.                                                  *)
ReadEvents ==
    /\ wire # {}
    /\ ~displayLost
    /\ \E t \in Threads : Polling(t)
    /\ wire' = {}
    /\ bufferQueue' = bufferQueue \union (wire \intersect Images)
    /\ frameQueued' = (frameQueued \/ Frame \in wire)
    /\ pc' = [t \in Threads |-> IF pc[t] = "poll" THEN "dispatch"
                                ELSE IF pc[t] = "frame_poll" THEN "present" ELSE pc[t]]
    /\ BaseKept
    /\ UNCHANGED <<explicit, displayLost, frameVars, compositorVars>>

-----------------------------------------------------------------------------
(* get_free_buffer(): dispatch_queue() on m_buffer_queue.  Events that are *)
(* there already are handled: release_buffer() calls unpresent_image().    *)
DispatchRelease(t) ==
    /\ pc[t] \in {"backend", "dispatch"}
    /\ \E i \in bufferQueue : /\ ReleaseStatus(t, i)
                              /\ bufferQueue' = bufferQueue \ {i}
    /\ Goto(t, "release_done")
    /\ UNCHANGED <<payload, hint, freeSem, queueVars, error, presentVars, lockVars, lifeVars,
                   held, failures, image, timeout, left, callVars>>
    /\ UNCHANGED <<explicit, wire, frameQueued, displayLost, frameVars, compositorVars>>

ReleasePostsUnit(t) ==
    /\ pc[t] = "release_done"
    /\ PostFree
    /\ Goto(t, "dispatch")
    /\ UNCHANGED <<imageVars, queueVars, error, presentVars, lockVars, lifeVars,
                   held, failures, image, timeout, left, callVars>>
    /\ UNCHANGED waylandVars

(* Nothing to dispatch: poll for the time-out that is left to the caller. *)
PrepareRead(t) ==
    /\ pc[t] = "backend"
    /\ bufferQueue = {}
    /\ Goto(t, "poll")
    /\ BaseKept
    /\ UNCHANGED waylandVars

(* Something was read or dispatched: look for a free image (without the    *)
(* lock), dispatch again, with the whole time-out, when there is none.     *)
DispatchEnds(t) ==
    /\ pc[t] = "dispatch"
    /\ bufferQueue = {}
    /\ Goto(t, IF \E i \in Images : status[i] = "FREE" THEN "second_wait" ELSE "backend")
    /\ BaseKept
    /\ UNCHANGED waylandVars

PollReturns(t, r) ==
    /\ pc[t] = "poll"
    /\ WaitReturns(t, r)
    /\ UNCHANGED <<imageVars, freeSem, queueVars, error, presentVars, statusLock, lifeVars,
                   held, failures, image, todo>>
    /\ UNCHANGED waylandVars

PollTimesOut(t) ==
    \/ wire = {} /\ timeout[t] = "zero" /\ PollReturns(t, "NOT_READY")
    \/ wire = {} /\ timeout[t] = "finite" /\ PollReturns(t, "TIMEOUT")
    \/ displayLost /\ PollReturns(t, "ERROR")

(* A wait for ever is one of INT_MAX milliseconds. *)
PollExpires(t) == wire = {} /\ timeout[t] = "forever" /\ PollReturns(t, "TIMEOUT")

(* *timeout is zero now: the second wait of wait_for_free_buffer() polls.  *)
SecondWait(t) ==
    /\ pc[t] = "second_wait"
    /\ IF freeSem > 0 THEN freeSem' = freeSem - 1 /\ WaitReturns(t, "SUCCESS")
                      ELSE WaitReturns(t, "NOT_READY") /\ UNCHANGED freeSem
    /\ UNCHANGED <<imageVars, queueVars, error, presentVars, statusLock, lifeVars,
                   held, failures, image, todo>>
    /\ UNCHANGED waylandVars

WaylandGetFreeBuffer(t) ==
    \/ DispatchRelease(t) \/ ReleasePostsUnit(t) \/ PrepareRead(t) \/ DispatchEnds(t)
    \/ PollTimesOut(t) \/ SecondWait(t)

-----------------------------------------------------------------------------
(* present_image(), in the page flip thread (FIFO) or inside the call      *)
(* (MAILBOX).  wait_next_frame_event() handles the answer to the last      *)
(* frame callback when it is there ...                                     *)
FrameDone(t) ==
    /\ pc[t] = "present"
    /\ presentPending /\ frameQueued
    /\ presentPending' = FALSE
    /\ frameQueued' = FALSE
    /\ UNCHANGED vars
    /\ UNCHANGED <<explicit, wire, bufferQueue, displayLost, frameOwed, compositorVars>>

(* ... and polls for it when it is not ...                                 *)
FrameAwaited(t) ==
    /\ pc[t] = "present"
    /\ presentPending /\ ~frameQueued
    /\ Goto(t, "frame_poll")
    /\ BaseKept
    /\ UNCHANGED waylandVars

(* Bug: there is no time-out. *)
FrameNeverTimesOut(t) ==
    /\ pc[t] = "frame_poll"
    /\ displayLost
    /\ error' = TRUE
    /\ Goto(t, "commit")
    /\ UNCHANGED <<imageVars, freeSem, queueVars, presentVars, lockVars, lifeVars,
                   held, failures, image, timeout, left, callVars>>
    /\ UNCHANGED waylandVars

(* ... for a second, after which the image is presented anyway; a broken   *)
(* connection is an error, and does not end present_image() either.        *)
FrameTimesOut(t) ==
    /\ pc[t] = "frame_poll"
    /\ \/ /\ wire = {}
          /\ presentPending' = FALSE
          /\ Goto(t, "present")
          /\ UNCHANGED error
       \/ /\ displayLost
          /\ error' = TRUE
          /\ Goto(t, "commit")
          /\ UNCHANGED presentPending
    /\ UNCHANGED <<imageVars, freeSem, queueVars, presentVars, lockVars, lifeVars,
                   held, failures, image, timeout, left, callVars>>
    /\ UNCHANGED <<explicit, displayVars, frameOwed, compositorVars>>

(* The acquire fence is exported and handed over, or the image goes out    *)
(* without one and the swapchain is in error.                              *)
FenceExported == explicit /\ UNCHANGED failures
ExportFails == explicit /\ MayFail("export")

(* A new frame callback replaces the last one, whose answer is dropped.    *)
SetFrameCallback ==
    IF presentMode = "FIFO"
    THEN /\ presentPending' = TRUE
         /\ frameOwed' = ~displayLost
         /\ frameQueued' = FALSE
         /\ wire' = wire \ {Frame}
    ELSE UNCHANGED <<frameVars, frameQueued, wire>>

(* Bug: the image is given back as soon as it is committed. *)
CommitAndRelease(t) ==
    /\ pc[t] = "commit" \/ (pc[t] = "present" /\ ~presentPending)
    /\ StatusLockFree(t)
    /\ SetFrameCallback
    /\ atCompositor' = atCompositor \union {image[t]}
    /\ fenced' = IF explicit THEN fenced \union {image[t]} ELSE fenced \ {image[t]}
    /\ current' = image[t]
    /\ status' = [status EXCEPT ![image[t]] = "FREE"]
    /\ freeSem' = freeSem + 1
    /\ PresentReturns(t)
    /\ UNCHANGED <<payload, hint, queueVars, started, startSem, acquireLock,
                   lifeVars, held, failures, error, timeout, left, todo>>
    /\ UNCHANGED <<explicit, bufferQueue, displayLost>>

(* attach, fence, damage, frame callback, commit and flush.                *)
Commit(t) ==
    /\ pc[t] = "commit" \/ (pc[t] = "present" /\ ~presentPending)
    /\ SetFrameCallback
    /\ \/ ~explicit /\ error' = (error \/ displayLost) /\ UNCHANGED failures
       \/ FenceExported /\ error' = (error \/ displayLost)
       \/ ExportFails /\ error' = TRUE
    /\ fenced' = IF explicit /\ failures' = failures THEN fenced \union {image[t]}
                                                     ELSE fenced \ {image[t]}
    /\ atCompositor' = IF displayLost THEN atCompositor ELSE atCompositor \union {image[t]}
    /\ current' = IF displayLost THEN current ELSE image[t]
    /\ PresentReturns(t)
    /\ UNCHANGED <<imageVars, freeSem, queueVars, started, startSem, acquireLock,
                   lifeVars, held, timeout, left, todo>>
    /\ UNCHANGED <<explicit, bufferQueue, displayLost>>

(* set_frame_callback() fails: the image is committed all the same.        *)
CommitWithoutCallback(t) ==
    /\ pc[t] = "commit" \/ (pc[t] = "present" /\ ~presentPending)
    /\ presentMode = "FIFO"
    /\ ~displayLost
    /\ MayFail("present")
    /\ error' = TRUE
    /\ fenced' = IF explicit THEN fenced \union {image[t]} ELSE fenced \ {image[t]}
    /\ atCompositor' = atCompositor \union {image[t]}
    /\ current' = image[t]
    /\ PresentReturns(t)
    /\ UNCHANGED <<imageVars, freeSem, queueVars, started, startSem, acquireLock,
                   lifeVars, held, timeout, left, todo>>
    /\ UNCHANGED <<explicit, displayVars, frameVars>>

(* Bug: image_wait_present() never waits. *)
FlipNeverWaits ==
    /\ pc["flip"] = "fence"
    /\ Goto("flip", "call")
    /\ BaseKept

(* image_wait_present() is a wait only without explicit synchronisation.   *)
WaylandFlipFence ==
    IF explicit
    THEN /\ pc["flip"] = "fence"
         /\ Goto("flip", "call")
         /\ BaseKept
    ELSE FlipFence

WaylandPresentImage(t) == FrameDone(t) \/ FrameAwaited(t) \/ FrameTimesOut(t) \/ Commit(t)

-----------------------------------------------------------------------------
(* The compositor: it releases an image, the current one too if it made a  *)
(* copy, answers frame callbacks when it likes, and sends other events.    *)
CompositorReleases(i) ==
    /\ i \in atCompositor
    /\ ~displayLost
    /\ atCompositor' = atCompositor \ {i}
    /\ fenced' = fenced \ {i}
    /\ wire' = wire \union {i}
    /\ UNCHANGED vars
    /\ UNCHANGED <<explicit, bufferQueue, frameQueued, displayLost, frameVars, current>>

CompositorFrames ==
    /\ frameOwed
    /\ ~displayLost
    /\ frameOwed' = FALSE
    /\ wire' = wire \union {Frame}
    /\ UNCHANGED vars
    /\ UNCHANGED <<explicit, bufferQueue, frameQueued, displayLost, presentPending, compositorVars>>

OtherEvent ==
    /\ \E t \in Threads : Polling(t)
    /\ ~displayLost
    /\ wire' = wire \union {Other}
    /\ UNCHANGED vars
    /\ UNCHANGED <<explicit, bufferQueue, frameQueued, displayLost, frameVars, compositorVars>>

DisplayBreaks ==
    /\ ~displayLost
    /\ MayFail("connection")
    /\ displayLost' = TRUE
    /\ UNCHANGED <<imageVars, freeSem, queueVars, error, presentVars, lockVars, lifeVars, held,
                   threadVars, callVars>>
    /\ UNCHANGED <<explicit, wire, bufferQueue, frameQueued, frameVars, compositorVars>>

-----------------------------------------------------------------------------
DisplayKept(A) == A /\ UNCHANGED waylandVars

WaylandAppInside == \/ DisplayKept(AppRuns)
                    \/ WaylandGetFreeBuffer("app") \/ WaylandPresentImage("app")
WaylandFlipInside ==
    \/ DisplayKept(FlipTakesUnit \/ FlipExits \/ FlipPops \/ WaylandFlipFence \/ FlipAbandons \/ CallPresent("flip"))
    \/ WaylandPresentImage("flip")

WaylandNext ==
    \/ DisplayKept(AppCalls \/ Deprecate \/ Destroy("teardown") \/ DescendantNotifies \/ HeirRuns)
    \/ WaylandAppInside
    \/ WaylandFlipInside
    \/ WaylandGetFreeBuffer("heir")
    \/ ReadEvents
    \/ \E t \in {"app", "flip"} : CommitWithoutCallback(t)
    \/ \E t \in {"app", "heir"} : PollExpires(t)
    \/ \E i \in Images : CompositorReleases(i)
    \/ CompositorFrames \/ OtherEvent \/ DisplayBreaks
    \/ \E i \in Images : DisplayKept(GpuFinishes(i))

WaylandSpec == WInit /\ [][WaylandNext]_wvars

(* Threads inside the library run, a thread that polls wakes up for events *)
(* and for its time-out, the GPU finishes payloads, and the compositor     *)
(* releases an image once it was given another one.  It need not answer    *)
(* frame callbacks ("if we are, e.g. minimised").                          *)
WaylandFairness ==
    /\ WF_wvars(WaylandAppInside)
    /\ WF_wvars(WaylandFlipInside)
    /\ WF_wvars(DisplayKept(HeirRuns) \/ WaylandGetFreeBuffer("heir"))
    /\ WF_wvars(ReadEvents)
    /\ \A i \in Images : /\ WF_wvars(i # current /\ CompositorReleases(i))
                         /\ WF_wvars(DisplayKept(GpuFinishes(i)))

WaylandFairSpec == WaylandSpec /\ WaylandFairness

-----------------------------------------------------------------------------
(* From its commit until its release was dispatched an image is PENDING,   *)
(* not in the application's hands, and its release is in one place only:   *)
(* the compositor never reads what the application may be writing.         *)
InRelease == (wire \intersect Images) \union bufferQueue
BufferIsTheirs ==
    pc["app"] # "dead" =>
        /\ atCompositor \intersect InRelease = {}
        /\ \A i \in atCompositor \union InRelease : status[i] = "PENDING" /\ i \notin held

(* Images are committed in the order they were queued, and change hands    *)
(* only as PresentationContract allows.                                    *)
WaylandContract == INSTANCE PresentationContract WITH
    owner <- OwnersBeside(atCompositor \union InRelease),
    queue <- QueueShown
CommitsInOrder == WaylandContract!Spec

(* In FIFO an image goes out finished, or with a fence that says when it   *)
(* is, unless the export of the fence failed and the swapchain is in error. *)
GoesOutFinished ==
    \A i \in atCompositor : payload[i] /\ presentMode = "FIFO" => i \in fenced \/ error

(* Every call returns, whatever the compositor does with frame callbacks,  *)
(* once no other events keep arriving: each of them makes dispatch_queue() *)
(* return and a finite time-out start from the beginning.  Two exceptions: *)
(* an acquire of a swapchain in error, and a destruction that began before *)
(* the descendant's first present: both drain, and there is one unit.      *)
WaylandCallsReturn ==
    <>[](Other \notin wire) =>
        (task # "none" ~> \/ task = "none"
                          \/ pc["app"] = "dead"
                          \/ task = "acquire" /\ error
                          \/ task = "destroy" /\ pc["heir"] # "idle")

(* The comment on teardown(): for images in the PENDING state, it blocks    *)
(* "until the presentation engine is finished with them", and not for ever. *)
TeardownEnds == <>[](Other \notin wire) => (task = "destroy" ~> pc["app"] = "dead")
=============================================================================
