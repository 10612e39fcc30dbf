---------------------------- MODULE SwapchainBase ----------------------------
(***************************************************************************)
(* wsi::swapchain_base (wsi/swapchain_base.cpp): the part of a swapchain   *)
(* that every windowing system shares.  One swapchain object is touched by *)
(* three threads:                                                          *)
(*                                                                         *)
(*   "app"    the application, inside vkAcquireNextImageKHR,               *)
(*            vkQueuePresentKHR, vkReleaseSwapchainImagesEXT,              *)
(*            vkCreateSwapchainKHR (as oldSwapchain), vkDestroySwapchainKHR *)
(*            (Vulkan makes it synchronise these calls per swapchain);     *)
(*   "flip"   the swapchain's own page flip thread;                        *)
(*   "heir"   the thread that makes the first present of the swapchain     *)
(*            created from this one, inside wait_for_pending_buffers().    *)
(*                                                                         *)
(* A stretch of code that holds m_image_status_mutex is one step.  The     *)
(* virtual functions of the class are the labels "backend"                 *)
(* (get_free_buffer) and "present" (present_image): the modules that       *)
(* extend this one supply their steps, as the derived classes do.          *)
(***************************************************************************)
EXTENDS Integers, FiniteSets, Sequences

CONSTANTS
    NumImages,      \* m_swapchain_images.size(), but one in a shared present mode
    PresentModes,   \* the present modes a swapchain may be created with
    ThreadModes,    \* those for which init_platform() asks for a page flip thread
    Deferred,       \* VK_SWAPCHAIN_CREATE_DEFERRED_MEMORY_ALLOCATION_BIT_EXT
    HasAncestor,    \* created with an oldSwapchain
    Retires,        \* the application will pass it as oldSwapchain
    SurfaceMin,     \* minImageCount of the surface
    PoolCapacity,   \* capacity of m_pending_buffer_pool
    Failures,       \* driver calls that may fail
    MaxFailures,    \* bound on how many of them do
    MaxFlips        \* bound on m_page_flip_semaphore

AllModes == {"FIFO", "MAILBOX", "SHARED_DEMAND", "SHARED_CONTINUOUS"}

ASSUME SwapchainAssumption ==
    /\ NumImages \in Nat \ {0}
    /\ PresentModes \subseteq AllModes
    /\ ThreadModes \subseteq AllModes
    /\ {Deferred, HasAncestor, Retires} \subseteq BOOLEAN
    /\ PoolCapacity \in Nat /\ PoolCapacity >= NumImages
    /\ SurfaceMin \in Nat
    /\ Failures \subseteq {"fence", "submit", "import", "memory", "present", "connection", "export"}
    /\ MaxFailures \in Nat
    /\ MaxFlips \in Nat

Images == 0 .. NumImages - 1
NoImage == -1
Threads == {"app", "flip", "heir"}

VARIABLES
    presentMode,    \* m_present_mode
    status,         \* swapchain_image::status of each image
    payload,        \* a present payload of the image is still executing on the GPU
    hint,           \* m_next_image_index_hint
    freeSem,        \* m_free_image_semaphore
    flipSem,        \* m_page_flip_semaphore
    pool,           \* m_pending_buffer_pool, oldest first
    error,          \* m_error_state holds an error
    firstPresent,   \* m_first_present
    started,        \* m_started_presenting
    startSem,       \* m_start_present_semaphore
    threadRun,      \* m_page_flip_thread_run
    acquireLock,    \* owner of m_image_acquire_lock
    statusLock,     \* owner of m_image_status_mutex across several steps
    ancestor,       \* m_ancestor is not null
    descendant,     \* m_descendant, and whether it has started presenting
    retired,        \* the application passed it as oldSwapchain
    heirSem,        \* m_start_present_semaphore of the descendant
    held,           \* images the application has been given and not given back
    failures,       \* driver failures so far, and whether one was in an acquire
    pc,             \* where each thread is
    image,          \* the image each thread works on
    timeout,        \* the timeout of its wait_for_free_buffer()
    left,           \* the local "wait" of its wait_for_pending_buffers()
    task,           \* the call the application is in
    todo,           \* images its loop still has to visit
    result          \* what its last call returned

imageVars   == <<status, payload, hint>>
queueVars   == <<pool, flipSem>>
presentVars == <<firstPresent, started, startSem>>
lockVars    == <<acquireLock, statusLock>>
lifeVars    == <<presentMode, threadRun, ancestor, descendant, retired, heirSem>>
threadVars  == <<pc, image, timeout, left>>
callVars    == <<task, todo, result>>
vars == <<imageVars, freeSem, queueVars, error, presentVars, lockVars, lifeVars,
          held, failures, threadVars, callVars>>

(* All of the swapchain but the label of a thread. *)
BaseKept == UNCHANGED <<imageVars, freeSem, queueVars, error, presentVars, lockVars, lifeVars,
                        held, failures, image, timeout, left, callVars>>

Shared == presentMode \in {"SHARED_DEMAND", "SHARED_CONTINUOUS"}
UseThread == presentMode \in ThreadModes
ImageCount == IF Shared THEN 1 ELSE NumImages

Goto(t, label) == pc' = [pc EXCEPT ![t] = label]

(* The application's call ends with the result r. *)
Return(r) == /\ Goto("app", "idle")
             /\ task' = "none"
             /\ result' = r

(* acquire_next_image() and queue_present() end. *)
EndAcquire(r) == /\ Return(r)
                 /\ acquireLock' = "none"
                 /\ timeout' = [timeout EXCEPT !["app"] = "forever"]

EndPresent(r) == /\ Return(r)
                 /\ image' = [image EXCEPT !["app"] = NoImage]

(* A driver call of this kind fails; the bound keeps the runs finite. *)
MayFail(kind) == /\ kind \in Failures
                 /\ failures.count < MaxFailures
                 /\ failures' = [count |-> failures.count + 1,
                                 acquire |-> failures.acquire \/ kind \in {"memory", "import"}]

StatusLockFree(t) == statusLock \in {"none", t}

(* The state init() leaves, in either allocation mode. *)
Init ==
    /\ presentMode \in PresentModes
    /\ status = [i \in Images |-> IF i >= ImageCount THEN "INVALID"
                                  ELSE IF Deferred THEN "UNALLOCATED" ELSE "FREE"]
    /\ payload = [i \in Images |-> FALSE]
    /\ hint = 0
    /\ freeSem = ImageCount
    /\ flipSem = 0
    /\ pool = <<>>
    /\ error = FALSE
    /\ firstPresent = TRUE
    /\ started = FALSE
    /\ startSem = 0
    /\ threadRun = UseThread
    /\ acquireLock = "none"
    /\ statusLock = "none"
    /\ ancestor = HasAncestor
    /\ descendant = "none"
    /\ retired = FALSE
    /\ heirSem = 0
    /\ held = {}
    /\ failures = [count |-> 0, acquire |-> FALSE]
    /\ pc = [app |-> "idle", flip |-> IF UseThread THEN "top" ELSE "exited", heir |-> "idle"]
    /\ image = [t \in Threads |-> NoImage]
    /\ timeout = [t \in Threads |-> "forever"]
    /\ left = [t \in Threads |-> 0]
    /\ task = "none"
    /\ todo = {}
    /\ result = "none"

-----------------------------------------------------------------------------
(* wait_for_free_buffer(), called by acquire_next_image() and, in a loop   *)
(* that ignores its result, by wait_for_pending_buffers().                 *)

DrainedLabel(t) == IF t = "heir" THEN "drained" ELSE "queue_idle"

(* It returns r to its caller. *)
WaitReturns(t, r) ==
    IF left[t] = 0
    THEN /\ IF r = "SUCCESS"
            THEN Goto(t, "check") /\ UNCHANGED <<task, result, acquireLock, timeout>>
            ELSE EndAcquire(r)
         /\ UNCHANGED left
    ELSE /\ left' = [left EXCEPT ![t] = @ - 1]
         /\ IF left[t] = 1
            THEN Goto(t, DrainedLabel(t)) /\ acquireLock' = "none"
            ELSE Goto(t, "try") /\ UNCHANGED acquireLock
         /\ UNCHANGED <<task, result, timeout>>

(* m_free_image_semaphore.wait() succeeds, before or after the backend.    *)
TakeUnit(t) ==
    /\ pc[t] \in {"try", "wait"}
    /\ freeSem > 0
    /\ freeSem' = freeSem - 1
    /\ WaitReturns(t, "SUCCESS")
    /\ UNCHANGED <<imageVars, queueVars, error, presentVars, statusLock, lifeVars,
                   held, failures, image, todo>>

(* wait(0) says VK_NOT_READY: ask get_free_buffer(). *)
AskBackend(t) ==
    /\ pc[t] = "try"
    /\ freeSem = 0
    /\ Goto(t, "backend")
    /\ UNCHANGED <<imageVars, freeSem, queueVars, error, presentVars, lockVars, lifeVars,
                   held, failures, image, timeout, left, callVars>>

(* The default get_free_buffer(): VK_SUCCESS, timeout untouched. *)
DefaultGetFreeBuffer(t) ==
    /\ pc[t] = "backend"
    /\ Goto(t, "wait")
    /\ UNCHANGED <<imageVars, freeSem, queueVars, error, presentVars, lockVars, lifeVars,
                   held, failures, image, timeout, left, callVars>>

(* The second wait gives up; a timed wait does not look at the count       *)
(* again after its deadline (see TimedSemaphore).                          *)
WaitFails(t) ==
    /\ pc[t] = "wait"
    /\ \/ timeout[t] = "zero" /\ freeSem = 0 /\ WaitReturns(t, "NOT_READY")
       \/ timeout[t] = "finite" /\ WaitReturns(t, "TIMEOUT")
    /\ UNCHANGED <<imageVars, freeSem, queueVars, error, presentVars, statusLock, lifeVars,
                   held, failures, image, todo>>

WaitForFreeBuffer(t) == TakeUnit(t) \/ AskBackend(t) \/ WaitFails(t)

-----------------------------------------------------------------------------
(* acquire_next_image(), under m_image_acquire_lock from start to end.  An *)
(* application may not acquire from a retired swapchain, nor wait without  *)
(* a timeout when it already holds all but SurfaceMin images.              *)
Acquire(tm) ==
    /\ pc["app"] = "idle"
    /\ ~retired
    /\ acquireLock = "none"
    /\ tm = "forever" => Cardinality(held) =< ImageCount - SurfaceMin
    /\ acquireLock' = "app"
    /\ timeout' = [timeout EXCEPT !["app"] = tm]
    /\ task' = "acquire"
    /\ result' = "none"
    /\ Goto("app", "try")
    /\ UNCHANGED <<imageVars, freeSem, queueVars, error, presentVars, statusLock, lifeVars,
                   held, failures, image, left, todo>>

(* Bug: the error is not looked at. *)
CheckNothing ==
    /\ pc["app"] = "check"
    /\ Goto("app", "select")
    /\ UNCHANGED <<imageVars, freeSem, queueVars, error, presentVars, lockVars, lifeVars,
                   held, failures, image, timeout, left, callVars>>

(* error_has_occured() after the wait: the unit is spent either way. *)
CheckError ==
    /\ pc["app"] = "check"
    /\ IF error
       THEN EndAcquire("ERROR")
       ELSE Goto("app", "select") /\ UNCHANGED <<task, result, acquireLock, timeout>>
    /\ UNCHANGED <<imageVars, freeSem, queueVars, error, presentVars, statusLock, lifeVars,
                   held, failures, image, left, todo>>

Usable(i) == status[i] \in {"FREE", "UNALLOCATED"}
RoundRobin(k) == (hint + k) % ImageCount

(* The loop over the images from the hint on takes the first that is free; *)
(* an unallocated one is allocated first, which makes it free.             *)
SelectImage ==
    /\ pc["app"] = "select"
    /\ StatusLockFree("app")
    /\ \E k \in Images :
          /\ Usable(RoundRobin(k))
          /\ \A j \in Images : j < k => ~Usable(RoundRobin(j))
          /\ status' = [status EXCEPT ![RoundRobin(k)] = "ACQUIRED"]
          /\ image' = [image EXCEPT !["app"] = RoundRobin(k)]
          /\ hint' = (RoundRobin(k) + 1) % ImageCount
    /\ Goto("app", "signal")
    /\ UNCHANGED <<payload, freeSem, queueVars, error, presentVars, lockVars, lifeVars,
                   held, failures, timeout, left, callVars>>

(* Allocation of an unallocated image fails: the image stays as it was or  *)
(* is destroyed, the call returns the error, the unit is gone.             *)
SelectFails ==
    /\ pc["app"] = "select"
    /\ StatusLockFree("app")
    /\ MayFail("memory")
    /\ \E k \in Images, s \in {"UNALLOCATED", "INVALID"} :
          /\ status[RoundRobin(k)] = "UNALLOCATED"
          /\ \A j \in Images : j < k => ~Usable(RoundRobin(j))
          /\ status' = [status EXCEPT ![RoundRobin(k)] = s]
    /\ EndAcquire("ERROR")
    /\ UNCHANGED <<payload, hint, freeSem, queueVars, error, presentVars, statusLock,
                   lifeVars, held, image, left, todo>>

(* The semaphore and the fence of the application are signalled and the    *)
(* image is handed over; if that fails, the image stays ACQUIRED although  *)
(* the application was not given it.                                       *)
SignalAcquired ==
    /\ pc["app"] = "signal"
    /\ \/ /\ held' = held \union {image["app"]}
          /\ EndAcquire("SUCCESS")
          /\ UNCHANGED failures
       \/ /\ MayFail("import")
          /\ EndAcquire("ERROR")
          /\ UNCHANGED held
    /\ image' = [image EXCEPT !["app"] = NoImage]
    /\ UNCHANGED <<imageVars, freeSem, queueVars, error, presentVars, statusLock, lifeVars,
                   left, todo>>

-----------------------------------------------------------------------------
(* queue_present().  Without a page flip thread the image's previous       *)
(* payload is waited for first.                                            *)
QueuePresent(i) ==
    /\ pc["app"] = "idle"
    /\ i \in held
    /\ flipSem < MaxFlips
    /\ image' = [image EXCEPT !["app"] = i]
    /\ task' = "present"
    /\ result' = "none"
    /\ Goto("app", IF threadRun THEN "submit" ELSE "sync")
    /\ UNCHANGED <<imageVars, freeSem, queueVars, error, presentVars, lockVars, lifeVars,
                   held, failures, timeout, left, todo>>

(* image_wait_present() with a timeout of one second. *)
SyncBeforePresent ==
    /\ pc["app"] = "sync"
    /\ \/ /\ ~payload[image["app"]]
          /\ Goto("app", "submit")
          /\ UNCHANGED <<task, result, image, failures>>
       \/ payload[image["app"]] /\ EndPresent("TIMEOUT") /\ UNCHANGED failures
       \/ MayFail("fence") /\ EndPresent("ERROR")
    /\ UNCHANGED <<imageVars, freeSem, queueVars, error, presentVars, lockVars, lifeVars,
                   held, timeout, left, todo>>

(* image_set_present_payload() and the present fence.  A failure leaves    *)
(* the old payload, none, or the new one, according to the step that       *)
(* failed; the image stays with the application.                           *)
SubmitPayload ==
    /\ pc["app"] = "submit"
    /\ \/ /\ payload' = [payload EXCEPT ![image["app"]] = TRUE]
          /\ Goto("app", "notify")
          /\ UNCHANGED <<task, result, image, failures>>
       \/ /\ MayFail("submit")
          /\ \E p \in {payload[image["app"]], FALSE, TRUE} :
                payload' = [payload EXCEPT ![image["app"]] = p]
          /\ EndPresent("ERROR")
    /\ UNCHANGED <<status, hint, freeSem, queueVars, error, presentVars, lockVars, lifeVars,
                   held, timeout, left, todo>>

(* notify_presentation_engine() when the descendant presents already: the  *)
(* image is free again and the application is told VK_ERROR_OUT_OF_DATE.   *)
NotifyOutOfDate ==
    /\ pc["app"] = "notify"
    /\ StatusLockFree("app")
    /\ descendant = "presenting"
    /\ status' = [status EXCEPT ![image["app"]] = "FREE"]
    /\ freeSem' = freeSem + 1
    /\ held' = held \ {image["app"]}
    /\ EndPresent("OUT_OF_DATE")
    /\ UNCHANGED <<payload, hint, queueVars, error, presentVars, lockVars, lifeVars,
                   failures, timeout, left, todo>>

GivenAway == IF Shared THEN held ELSE held \ {image["app"]}

(* Bug: the page flip thread is not told. *)
NotifyThreadSilently ==
    /\ pc["app"] = "notify"
    /\ StatusLockFree("app")
    /\ descendant # "presenting"
    /\ threadRun
    /\ status' = [status EXCEPT ![image["app"]] = "PENDING"]
    /\ started' = TRUE
    /\ pool' = Append(pool, image["app"])
    /\ held' = GivenAway
    /\ EndPresent("SUCCESS")
    /\ UNCHANGED <<payload, hint, freeSem, flipSem, error, firstPresent, startSem, lockVars,
                   lifeVars, failures, timeout, left, todo>>

(* ... when the page flip thread runs: the request is queued for it. *)
NotifyThread ==
    /\ pc["app"] = "notify"
    /\ StatusLockFree("app")
    /\ descendant # "presenting"
    /\ threadRun
    /\ status' = [status EXCEPT ![image["app"]] = "PENDING"]
    /\ started' = TRUE
    /\ pool' = IF Len(pool) < PoolCapacity THEN Append(pool, image["app"]) ELSE pool
    /\ flipSem' = flipSem + 1
    /\ held' = GivenAway
    /\ EndPresent("SUCCESS")
    /\ UNCHANGED <<payload, hint, freeSem, error, firstPresent, startSem, lockVars, lifeVars,
                   failures, timeout, left, todo>>

(* ... and without one: call_present() under m_image_status_mutex. *)
NotifyInline ==
    /\ pc["app"] = "notify"
    /\ StatusLockFree("app")
    /\ descendant # "presenting"
    /\ ~threadRun
    /\ status' = [status EXCEPT ![image["app"]] = "PENDING"]
    /\ started' = TRUE
    /\ statusLock' = "app"
    /\ held' = GivenAway
    /\ Goto("app", "call")
    /\ UNCHANGED <<payload, hint, freeSem, queueVars, error, firstPresent, startSem,
                   acquireLock, lifeVars, failures, image, timeout, left, callVars>>

-----------------------------------------------------------------------------
(* call_present(), by the page flip thread or inline.  On the first        *)
(* present the ancestor is waited for and m_start_present_semaphore raised. *)
CallPresent(t) ==
    /\ pc[t] = "call"
    /\ IF firstPresent /\ ancestor
       THEN Goto(t, "ancestor") /\ UNCHANGED startSem
       ELSE /\ startSem' = IF firstPresent THEN startSem + 1 ELSE startSem
            /\ Goto(t, "present")
    /\ UNCHANGED <<imageVars, freeSem, queueVars, error, firstPresent, started, lockVars,
                   lifeVars, held, failures, image, timeout, left, callVars>>

(* ancestor->wait_for_pending_buffers() returned. *)
AncestorDrained(t) ==
    /\ pc[t] = "ancestor"
    /\ startSem' = startSem + 1
    /\ Goto(t, "present")
    /\ UNCHANGED <<imageVars, freeSem, queueVars, error, firstPresent, started, lockVars,
                   lifeVars, held, failures, image, timeout, left, callVars>>

(* unpresent_image(), the part under m_image_status_mutex ... *)
ReleaseStatus(t, i) ==
    /\ StatusLockFree(t)
    /\ status' = [status EXCEPT ![i] = IF Shared THEN "ACQUIRED" ELSE "FREE"]

(* ... and the post, after the mutex was given back. *)
PostFree == freeSem' = IF Shared THEN freeSem ELSE freeSem + 1

(* present_image() has returned to call_present(). *)
PresentReturns(t) ==
    /\ firstPresent' = FALSE
    /\ image' = [image EXCEPT ![t] = NoImage]
    /\ IF t = "app"
       THEN Return("SUCCESS") /\ statusLock' = "none"
       ELSE Goto(t, "top") /\ UNCHANGED <<task, result, statusLock>>

-----------------------------------------------------------------------------
(* page_flip_thread().  Waiting 250 ms for the semaphore in vain only      *)
(* makes it look at m_page_flip_thread_run again.                          *)
Continuous == presentMode = "SHARED_CONTINUOUS"

FlipTakesUnit ==
    /\ pc["flip"] = "top"
    /\ ~(Continuous /\ ~firstPresent)
    /\ flipSem > 0
    /\ flipSem' = flipSem - 1
    /\ Goto("flip", IF Continuous THEN "fence" ELSE "pop")
    /\ image' = [image EXCEPT !["flip"] = IF Continuous THEN 0 ELSE NoImage]
    /\ UNCHANGED <<imageVars, freeSem, pool, error, presentVars, lockVars, lifeVars,
                   held, failures, timeout, left, callVars>>

(* Bug: every refresh waits for a request. *)
FlipRefreshesOnRequest ==
    /\ pc["flip"] = "top"
    /\ Continuous /\ ~firstPresent
    /\ flipSem > 0
    /\ flipSem' = flipSem - 1
    /\ Goto("flip", "fence")
    /\ image' = [image EXCEPT !["flip"] = 0]
    /\ UNCHANGED <<imageVars, freeSem, pool, error, presentVars, lockVars, lifeVars,
                   held, failures, timeout, left, callVars>>

(* In continuous mode the only image is shown again and again. *)
FlipRefreshes ==
    /\ pc["flip"] = "top"
    /\ Continuous /\ ~firstPresent
    /\ threadRun
    /\ Goto("flip", "fence")
    /\ image' = [image EXCEPT !["flip"] = 0]
    /\ UNCHANGED <<imageVars, freeSem, queueVars, error, presentVars, lockVars, lifeVars,
                   held, failures, timeout, left, callVars>>

FlipExits ==
    /\ pc["flip"] = "top"
    /\ ~threadRun
    /\ Goto("flip", "exited")
    /\ UNCHANGED <<imageVars, freeSem, queueVars, error, presentVars, lockVars, lifeVars,
                   held, failures, image, timeout, left, callVars>>

(* Bug: the newest request is taken first. *)
FlipPopsNewest ==
    /\ pc["flip"] = "pop"
    /\ StatusLockFree("flip")
    /\ pool # <<>>
    /\ image' = [image EXCEPT !["flip"] = pool[Len(pool)]]
    /\ pool' = SubSeq(pool, 1, Len(pool) - 1)
    /\ Goto("flip", "fence")
    /\ UNCHANGED <<imageVars, freeSem, flipSem, error, presentVars, lockVars, lifeVars,
                   held, failures, timeout, left, callVars>>

(* The oldest request, under m_image_status_mutex. *)
FlipPops ==
    /\ pc["flip"] = "pop"
    /\ StatusLockFree("flip")
    /\ pool # <<>>
    /\ image' = [image EXCEPT !["flip"] = Head(pool)]
    /\ pool' = Tail(pool)
    /\ Goto("flip", "fence")
    /\ UNCHANGED <<imageVars, freeSem, flipSem, error, presentVars, lockVars, lifeVars,
                   held, failures, timeout, left, callVars>>

(* image_wait_present() without a timeout, repeated while it times out. *)
FlipFence ==
    /\ pc["flip"] = "fence"
    /\ \/ /\ ~payload[image["flip"]]
          /\ Goto("flip", "call")
          /\ UNCHANGED <<error, failures>>
       \/ /\ MayFail("fence")
          /\ error' = TRUE
          /\ Goto("flip", "abandon")
    /\ UNCHANGED <<imageVars, freeSem, queueVars, presentVars, lockVars, lifeVars,
                   held, image, timeout, left, callVars>>

(* The image of a failed wait keeps its status; the post lets a waiting    *)
(* acquire_next_image() see the error.                                     *)
FlipAbandons ==
    /\ pc["flip"] = "abandon"
    /\ freeSem' = freeSem + 1
    /\ image' = [image EXCEPT !["flip"] = NoImage]
    /\ Goto("flip", "top")
    /\ UNCHANGED <<imageVars, queueVars, error, presentVars, lockVars, lifeVars,
                   held, failures, timeout, left, callVars>>

FlipThread == \/ FlipTakesUnit \/ FlipRefreshes \/ FlipExits \/ FlipPops
              \/ FlipFence \/ FlipAbandons \/ CallPresent("flip")

-----------------------------------------------------------------------------
(* release_images(): unpresent_image() for each index. *)
ReleaseImages(S) ==
    /\ pc["app"] = "idle"
    /\ S # {}
    /\ S \subseteq held
    /\ ~Shared
    /\ held' = held \ S
    /\ todo' = S
    /\ task' = "release"
    /\ result' = "none"
    /\ Goto("app", "release")
    /\ UNCHANGED <<imageVars, freeSem, queueVars, error, presentVars, lockVars, lifeVars,
                   failures, image, timeout, left>>

ReleaseOne ==
    /\ pc["app"] = "release"
    /\ \E i \in todo : /\ ReleaseStatus("app", i)
                       /\ todo' = todo \ {i}
    /\ Goto("app", "release_post")
    /\ UNCHANGED <<payload, hint, freeSem, queueVars, error, presentVars, lockVars, lifeVars,
                   held, failures, image, timeout, left, task, result>>

ReleasePosts ==
    /\ pc["app"] = "release_post"
    /\ PostFree
    /\ IF todo = {} THEN Return("SUCCESS") ELSE Goto("app", "release") /\ UNCHANGED <<task, result>>
    /\ UNCHANGED <<imageVars, queueVars, error, presentVars, lockVars, lifeVars,
                   held, failures, image, timeout, left, todo>>

-----------------------------------------------------------------------------
(* wait_for_pending_buffers(): a unit for every image that is neither      *)
(* acquired nor the one a compositor may keep.                             *)
StartDrain(t) ==
    /\ acquireLock = "none"
    /\ StatusLockFree(t)
    /\ LET wait == ImageCount - Cardinality({i \in Images : status[i] = "ACQUIRED"}) - 1
       IN  IF wait > 0
           THEN /\ left' = [left EXCEPT ![t] = wait]
                /\ acquireLock' = t
                /\ timeout' = [timeout EXCEPT ![t] = "forever"]
                /\ Goto(t, "try")
           ELSE /\ Goto(t, DrainedLabel(t))
                /\ UNCHANGED <<left, acquireLock, timeout>>
    /\ UNCHANGED <<imageVars, freeSem, queueVars, error, presentVars, statusLock, lifeVars,
                   held, failures, image, callVars>>

(* deprecate(), called while the descendant is created: images seen FREE   *)
(* are destroyed one by one, their units stay.                             *)
Deprecate ==
    /\ pc["app"] = "idle"
    /\ Retires /\ ~retired
    /\ retired' = TRUE
    /\ todo' = Images
    /\ task' = "deprecate"
    /\ result' = "none"
    /\ Goto("app", "deprecate")
    /\ UNCHANGED <<imageVars, freeSem, queueVars, error, presentVars, lockVars, presentMode, threadRun,
                   ancestor, descendant, heirSem, held, failures, image, timeout, left>>

DeprecateImage ==
    /\ pc["app"] = "deprecate"
    /\ todo # {}
    /\ \E i \in todo :
          /\ status[i] = "FREE" => StatusLockFree("app")
          /\ status' = [status EXCEPT ![i] = IF @ = "FREE" THEN "INVALID" ELSE @]
          /\ todo' = todo \ {i}
    /\ UNCHANGED <<payload, hint, freeSem, queueVars, error, presentVars, lockVars, lifeVars,
                   held, failures, threadVars, task, result>>

SetDescendant ==
    /\ pc["app"] = "deprecate"
    /\ todo = {}
    /\ descendant' = "created"
    /\ Return("SUCCESS")
    /\ UNCHANGED <<imageVars, freeSem, queueVars, error, presentVars, lockVars, presentMode, threadRun,
                   ancestor, retired, heirSem, held, failures, image, timeout, left, todo>>

-----------------------------------------------------------------------------
(* vkDestroySwapchainKHR: the destructor and teardown(). *)
Destroy(entry) ==
    /\ pc["app"] = "idle"
    /\ task' = "destroy"
    /\ result' = "none"
    /\ Goto("app", entry)
    /\ UNCHANGED <<imageVars, freeSem, queueVars, error, presentVars, lockVars, lifeVars,
                   held, failures, image, timeout, left, todo>>

Teardown ==
    /\ pc["app"] = "teardown"
    /\ Goto("app", IF descendant = "presenting" THEN "await_heir"
                   ELSE IF error THEN "queue_idle" ELSE "drain")
    /\ UNCHANGED <<imageVars, freeSem, queueVars, error, presentVars, lockVars, lifeVars,
                   held, failures, image, timeout, left, callVars>>

AwaitHeir ==
    /\ pc["app"] = "await_heir"
    /\ heirSem > 0
    /\ heirSem' = heirSem - 1
    /\ Goto("app", "queue_idle")
    /\ UNCHANGED <<imageVars, freeSem, queueVars, error, presentVars, lockVars, presentMode, threadRun,
                   ancestor, descendant, retired, held, failures, image, timeout, left, callVars>>

DrainForTeardown == pc["app"] = "drain" /\ StartDrain("app")

(* QueueWaitIdle, then m_page_flip_thread_run = false. *)
StopFlipThread ==
    /\ pc["app"] = "queue_idle"
    /\ \A i \in Images : ~payload[i]
    /\ threadRun' = FALSE
    /\ Goto("app", "join")
    /\ UNCHANGED <<imageVars, freeSem, queueVars, error, presentVars, lockVars, presentMode,
                   ancestor, descendant, retired, heirSem, held, failures, image, timeout, left, callVars>>

(* join(), the links to the relatives, and every image. *)
DestroyImages ==
    /\ pc["app"] = "join"
    /\ pc["flip"] = "exited"
    /\ status' = [i \in Images |-> "INVALID"]
    /\ descendant' = "none"
    /\ ancestor' = FALSE
    /\ Goto("app", "dead")
    /\ UNCHANGED <<payload, hint, freeSem, queueVars, error, presentVars, lockVars, presentMode, threadRun,
                   retired, heirSem, held, failures, image, timeout, left, callVars>>

-----------------------------------------------------------------------------
(* Outside this object: the GPU finishes a payload, and the relatives.     *)
GpuFinishes(i) ==
    /\ payload[i]
    /\ payload' = [payload EXCEPT ![i] = FALSE]
    /\ UNCHANGED <<status, hint, freeSem, queueVars, error, presentVars, lockVars, lifeVars,
                   held, failures, threadVars, callVars>>

(* The descendant's notify_presentation_engine() sets m_started_presenting. *)
DescendantNotifies ==
    /\ descendant = "created"
    /\ descendant' = "presenting"
    /\ UNCHANGED <<imageVars, freeSem, queueVars, error, presentVars, lockVars, presentMode, threadRun,
                   ancestor, retired, heirSem, held, failures, threadVars, callVars>>

(* Its first call_present() waits for our pending buffers ... *)
HeirDrains ==
    /\ pc["heir"] = "idle"
    /\ descendant = "presenting"
    /\ StartDrain("heir")

(* ... and raises its m_start_present_semaphore. *)
HeirPresents ==
    /\ pc["heir"] = "drained"
    /\ heirSem' = heirSem + 1
    /\ Goto("heir", "done")
    /\ UNCHANGED <<imageVars, freeSem, queueVars, error, presentVars, lockVars, presentMode, threadRun,
                   ancestor, descendant, retired, held, failures, image, timeout, left, callVars>>

(* The descendant is destroyed and calls clear_descendant().  Its own      *)
(* teardown drains its queue first, so that one that presents is done with *)
(* its first present; SwapchainHandoff has the one that fails before.      *)
DescendantDestroyed ==
    /\ \/ descendant = "created"
       \/ descendant = "presenting" /\ pc["heir"] = "done"
    /\ descendant' = "none"
    /\ UNCHANGED <<imageVars, freeSem, queueVars, error, presentVars, lockVars, presentMode, threadRun,
                   ancestor, retired, heirSem, held, failures, threadVars, callVars>>

(* The ancestor is destroyed and calls clear_ancestor(). *)
AncestorDestroyed ==
    /\ ancestor
    /\ ancestor' = FALSE
    /\ UNCHANGED <<imageVars, freeSem, queueVars, error, presentVars, lockVars, presentMode, threadRun,
                   descendant, retired, heirSem, held, failures, threadVars, callVars>>

-----------------------------------------------------------------------------
(* The steps of each party, for the derived classes to complete.           *)
Timeouts == {"zero", "finite", "forever"}

AppCalls == \/ \E tm \in Timeouts : Acquire(tm)
            \/ \E i \in Images : QueuePresent(i)
            \/ \E S \in SUBSET Images : ReleaseImages(S)

AppRuns == \/ WaitForFreeBuffer("app")
           \/ CheckError \/ SelectImage \/ SelectFails \/ SignalAcquired
           \/ SyncBeforePresent \/ SubmitPayload
           \/ NotifyOutOfDate \/ NotifyThread \/ NotifyInline
           \/ CallPresent("app")
           \/ ReleaseOne \/ ReleasePosts
           \/ DeprecateImage \/ SetDescendant
           \/ Teardown \/ AwaitHeir \/ DrainForTeardown \/ StopFlipThread \/ DestroyImages

HeirRuns == WaitForFreeBuffer("heir") \/ HeirDrains \/ HeirPresents

-----------------------------------------------------------------------------
Statuses == {"INVALID", "ACQUIRED", "PENDING", "PRESENTED", "FREE", "UNALLOCATED"}
Results == {"none", "SUCCESS", "NOT_READY", "TIMEOUT", "ERROR", "OUT_OF_DATE"}
Tasks == {"none", "acquire", "present", "release", "deprecate", "destroy"}

(* The state is well formed. *)
TypeOK ==
    /\ presentMode \in AllModes
    /\ status \in [Images -> Statuses]
    /\ payload \in [Images -> BOOLEAN]
    /\ hint \in Images
    /\ freeSem \in Nat
    /\ flipSem \in Nat
    /\ pool \in Seq(Images)
    /\ error \in BOOLEAN /\ firstPresent \in BOOLEAN /\ started \in BOOLEAN
    /\ threadRun \in BOOLEAN /\ ancestor \in BOOLEAN /\ retired \in BOOLEAN
    /\ startSem \in Nat
    /\ heirSem \in Nat
    /\ acquireLock \in Threads \union {"none"}
    /\ statusLock \in Threads \union {"none"}
    /\ descendant \in {"none", "created", "presenting"}
    /\ held \subseteq Images
    /\ failures \in [count : Nat, acquire : BOOLEAN]
    /\ DOMAIN pc = Threads
    /\ image \in [Threads -> Images \union {NoImage}]
    /\ timeout \in [Threads -> Timeouts]
    /\ left \in [Threads -> Nat]
    /\ task \in Tasks
    /\ todo \subseteq Images
    /\ result \in Results

(* The images the queue of presents holds: those in the ring buffer and    *)
(* the one the presenting thread took out of it.                           *)
Showing == {"fence", "call", "ancestor", "present"}
Front == IF pc["flip"] \in Showing THEN <<image["flip"]>>
         ELSE IF pc["app"] \in Showing THEN <<image["app"]>>
         ELSE <<>>
PresentQueue == Front \o pool
Queued == {PresentQueue[k] : k \in 1 .. Len(PresentQueue)}

(* The assertion of acquire_next_image(), "selected_index < image_count":  *)
(* a call that got a unit of m_free_image_semaphore finds an image to hand *)
(* out, however the page flip thread, failures and retries interleave.     *)
AcquireFindsImage ==
    pc["app"] = "select" => \E i \in Images : Usable(i)

(* The assertion of notify_presentation_engine(), "buffer_pool_res": the    *)
(* pool has room for the request it is about to push.                      *)
PoolHasRoom == pc["app"] = "notify" /\ threadRun => Len(pool) < PoolCapacity

(* The assertions of the page flip queue: there is room for a request, and *)
(* a unit of m_page_flip_semaphore is a request in m_pending_buffer_pool,  *)
(* so that the thread that took a unit never pops an empty pool.  (In the  *)
(* continuous mode nothing is popped.)                                     *)
FlipQueueMatches == ~Shared =>
    /\ PoolHasRoom
    /\ Len(pool) = flipSem + (IF pc["flip"] = "pop" THEN 1 ELSE 0)

(* An image queued or being shown is PENDING, is queued once, and is not   *)
(* in the application's hands; what the application holds is ACQUIRED.     *)
(* So the engine never reads an image the application may be writing.      *)
OneOwner ==
    ~Shared /\ pc["app"] # "dead" =>
        /\ \A i \in Queued : status[i] = "PENDING" /\ i \notin held
        /\ \A j, k \in 1 .. Len(PresentQueue) : j # k => PresentQueue[j] # PresentQueue[k]
        /\ \A i \in held : status[i] = "ACQUIRED"

(* Units of m_free_image_semaphore, those spent by the acquire in progress *)
(* and those about to be posted never outnumber the images that are free,  *)
(* or were when the swapchain was retired: no image is promised twice.     *)
(* (A failed fence wait posts a unit without an image, to wake up who      *)
(* waits; so does, in a shared mode, a present after the descendant's.)    *)
Spare == {i \in Images : Usable(i)} \union {i \in Images : retired /\ status[i] = "INVALID"}
Promised == freeSem
            + (IF pc["app"] \in {"check", "select"} THEN 1 ELSE 0)
            + (IF ~Shared /\ pc["app"] \in {"post", "release_post"} THEN 1 ELSE 0)
            + (IF ~Shared /\ pc["flip"] = "post" THEN 1 ELSE 0)
NoImagePromisedTwice ==
    ~error /\ (Shared => ~retired) /\ pc["app"] # "dead" => Promised =< Cardinality(Spare)

(* The contract with the application that this code implements.            *)
Unqueued(i) ==
    IF i \in held \/ (task = "release" /\ i \in todo) THEN "app"
    ELSE IF \/ status[i] \in {"FREE", "UNALLOCATED"}
            \/ pc["app"] = "signal" /\ i = image["app"] THEN "engine"
    ELSE "nobody"
OwnerOf(i) == IF ~Shared /\ i \in Queued THEN "queue" ELSE Unqueued(i)

Owner == [i \in Images |-> IF pc["app"] = "dead" THEN "nobody" ELSE OwnerOf(i)]

Contract == INSTANCE PresentationContract WITH
    owner <- Owner,
    queue <- IF Shared \/ pc["app"] = "dead" THEN <<>> ELSE PresentQueue

(* Images are shown in the order they were queued and change hands only as *)
(* PresentationContract allows.                                            *)
KeepsContract == Contract!Spec

(* The same for a backend with steps of its own between the queue and a    *)
(* display that keeps what it was given for a while: the labels at which a *)
(* thread has the oldest request, the queue, and who has each image.       *)
Shown == {"fence", "call", "ancestor", "present", "frame_poll", "commit", "shm_sync", "shm_copy",
          "unpresent", "bridge", "throttle", "flush", "flush_post"}
QueueShown ==
    IF pc["app"] = "dead" THEN <<>>
    ELSE (IF pc["flip"] \in Shown THEN <<image["flip"]>>
          ELSE IF pc["app"] \in Shown /\ task = "present" THEN <<image["app"]>>
          ELSE <<>>) \o pool
OwnersBeside(displayed) ==
    [i \in Images |-> IF pc["app"] = "dead" THEN "nobody"
                      ELSE IF \E k \in 1 .. Len(QueueShown) : QueueShown[k] = i THEN "queue"
                      ELSE IF i \in displayed THEN "display"
                      ELSE Unqueued(i)]

-----------------------------------------------------------------------------
(* Every image queued for presentation is shown, unless a fence wait failed *)
(* or the swapchain is being destroyed.                                    *)
QueuedIsShown == \A i \in Images :
    status[i] = "PENDING" ~> (status[i] # "PENDING" \/ error \/ task = "destroy")

(* An acquire returns: no legal call waits for ever, unless the swapchain  *)
(* is in error or an acquire that failed before kept the unit it had taken. *)
AcquireReturns == task = "acquire" ~> (task # "acquire" \/ error \/ failures.acquire)

(* The comment on m_error_state: the error "is returned to the user        *)
(* through the next acquire_next_image call"; so every acquire returns.    *)
AcquireAlwaysReturns == task = "acquire" ~> task # "acquire"

(* In continuous mode the engine refreshes the image on its own, without a *)
(* further present, until the swapchain is destroyed.                      *)
ContinuousRefreshes == [](Continuous /\ ~firstPresent => <>(pc["flip"] = "present" \/ task = "destroy"))
=============================================================================
