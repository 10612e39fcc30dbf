----------------------------- MODULE X11Swapchain -----------------------------
(***************************************************************************)
(* wsi::x11::swapchain (wsi/x11/swapchain.cpp) over swapchain_base, with   *)
(* its three ways to show an image:                                        *)
(*                                                                         *)
(*   "DRI3"    the X server is given the pixmap of the image and tells a   *)
(*             present event thread when the frame was shown (COMPLETE)    *)
(*             and when it has done with the pixmap (IDLE);                *)
(*   "SHM"     the image is copied to a shared memory segment from which   *)
(*             the X server reads, and is free again at once;              *)
(*   "BRIDGE"  the dma-buf of the image is sent to Xwayland, and the image *)
(*             is kept back until a number of later frames were sent.      *)
(*                                                                         *)
(* m_thread_status_lock guards the present event thread's state, and       *)
(* m_thread_status_cond is what get_free_buffer(), a full present_image()  *)
(* and the event thread sleep on.  A stretch of code under that lock is    *)
(* one step unless it posts a semaphore, takes the other lock, or waits.   *)
(***************************************************************************)
EXTENDS SwapchainBase, BridgeClient

CONSTANTS
    Paths,          \* the presentation paths init_platform() may choose
    AllowNonFifo,   \* WSI_ALLOW_NON_FIFO_PRESENT_MODE
    ShmFences,      \* whether init_fence_sync() may succeed, and may fail
    ReservedFree,   \* bridge_reserved_free_image_count()
    MaxPending,     \* X11_SWAPCHAIN_MAX_PENDING_COMPLETIONS
    MaxUnread       \* bound: copies the X server may be behind

ASSUME X11Assumption ==
    /\ Paths \subseteq {"DRI3", "SHM", "BRIDGE"}
    /\ PresentModes \subseteq {"FIFO", "MAILBOX"}
    /\ ThreadModes = AllModes \ {"MAILBOX"}
    /\ AllowNonFifo \in BOOLEAN
    /\ ShmFences \subseteq BOOLEAN
    /\ {ReservedFree, MaxPending, MaxUnread} \subseteq Nat \ {0}

VARIABLES
    path,           \* m_use_dri3_presenter, m_use_xwayland_bridge
    threadLock,     \* owner of m_thread_status_lock across several steps
    asleep,         \* the threads that sleep on m_thread_status_cond
    eventRun,       \* m_present_event_thread_run
    eventPc,        \* where the present event thread is
    pixmaps,        \* m_free_buffer_pool: images whose pixmap was reported idle
    pending,        \* pending_completions of each image, counted
    atServer,       \* pixmaps the X server was given and has not reported idle
    shown,          \* the pixmap it was given last
    lost,           \* the X connection is broken
    shmFence,       \* m_fence_available: an XSync fence, or else replies, pace the copies
    syncPending,    \* m_sync_pending: a reply is owed, it comes after the last copy was read
    unread,         \* copies the X server has been told of and has not read: the image,
                    \* and whether use_alt_buffer gives its next copy the same segment
    bridgeHeld      \* m_bridge_pending_unpresent

serverVars == <<pixmaps, pending, atServer, shown, lost>>
shmVars == <<shmFence, syncPending, unread>>
syncVars == <<threadLock, asleep, eventRun, eventPc>>
x11Vars == <<path, syncVars, serverVars, shmVars, bridgeHeld, clientVars>>
xvars == <<vars, x11Vars>>

(* init_platform() forces FIFO on the paths that are not safe otherwise.   *)
XInit ==
    /\ Init
    /\ path \in Paths
    /\ path # "SHM" /\ ~AllowNonFifo => presentMode = "FIFO"
    /\ threadLock = "none"
    /\ asleep = {}
    /\ eventRun = TRUE
    /\ eventPc = "loop"
    /\ pixmaps = <<>>
    /\ pending = [i \in Images |-> 0]
    /\ atServer = {}
    /\ shown = NoImage
    /\ lost = FALSE
    /\ shmFence \in ShmFences
    /\ syncPending = FALSE
    /\ unread = <<>>
    /\ bridgeHeld = <<>>
    /\ ClientInit
    /\ path # "BRIDGE" => ~feedbackWait

Lock(t) == threadLock = "none" /\ threadLock' = t
LockFree == threadLock = "none"
NotifyAll == asleep' = {}

-----------------------------------------------------------------------------
(* get_free_buffer(), with the lock from "scan" on. *)
GetFreeBuffer(t) ==
    /\ pc[t] = "backend"
    /\ Lock(t)
    /\ Goto(t, "scan")
    /\ BaseKept
    /\ UNCHANGED <<path, asleep, eventRun, eventPc, serverVars, shmVars, bridgeHeld, clientVars>>

(* free_image_found(): the images of the idle pixmaps are released, except *)
(* those that were destroyed meanwhile ...                                 *)
ScanPixmap(t) ==
    /\ pc[t] = "scan"
    /\ pixmaps # <<>>
    /\ pixmaps' = Tail(pixmaps)
    /\ IF status[Head(pixmaps)] = "INVALID"
       THEN UNCHANGED <<status, pc>>
       ELSE ReleaseStatus(t, Head(pixmaps)) /\ Goto(t, "scan_post")
    /\ UNCHANGED <<payload, hint, freeSem, queueVars, error, presentVars, lockVars, lifeVars,
                   held, failures, image, timeout, left, callVars>>
    /\ UNCHANGED <<path, syncVars, pending, atServer, shown, lost, shmVars, bridgeHeld, clientVars>>

ScanPosts(t) ==
    /\ pc[t] = "scan_post"
    /\ PostFree
    /\ Goto(t, "scan")
    /\ UNCHANGED <<imageVars, queueVars, error, presentVars, lockVars, lifeVars,
                   held, failures, image, timeout, left, callVars>>
    /\ UNCHANGED x11Vars

FreeImageFound == \E i \in Images : status[i] = "FREE"

(* ... and then a FREE image ends the call, and *timeout becomes zero      *)
(* (label "poll"); without one the caller is turned away or sleeps.        *)
ScanEnds(t) ==
    /\ pc[t] = "scan"
    /\ pixmaps = <<>>
    /\ threadLock' = "none"
    /\ \/ /\ FreeImageFound
          /\ Goto(t, "poll")
          /\ UNCHANGED <<asleep, left, task, result, acquireLock, timeout>>
       \/ /\ ~FreeImageFound
          /\ \/ timeout[t] = "zero" /\ WaitReturns(t, "NOT_READY")
             \/ timeout[t] # "zero" /\ error /\ WaitReturns(t, "ERROR")
             \/ timeout[t] # "zero" /\ ~error /\ ~eventRun /\ WaitReturns(t, "OUT_OF_DATE")
          /\ UNCHANGED asleep
       \/ /\ ~FreeImageFound
          /\ timeout[t] # "zero"
          /\ ~error /\ eventRun
          /\ asleep' = asleep \union {t}
          /\ Goto(t, "cond")
          /\ UNCHANGED <<left, task, result, acquireLock, timeout>>
    /\ UNCHANGED <<imageVars, freeSem, queueVars, error, presentVars, statusLock, lifeVars,
                   held, failures, image, todo>>
    /\ UNCHANGED <<path, eventRun, eventPc, serverVars, shmVars, bridgeHeld, clientVars>>

(* m_thread_status_cond.wait() and wait_until() return with the lock.  The *)
(* notifications are for whoever sleeps there, so many wake-ups are for    *)
(* nothing and the loops look again; spurious ones add no other behaviour. *)
CondWakes(t) ==
    /\ pc[t] = "cond"
    /\ t \notin asleep
    /\ Lock(t)
    /\ Goto(t, "scan")
    /\ BaseKept
    /\ UNCHANGED <<path, asleep, eventRun, eventPc, serverVars, shmVars, bridgeHeld, clientVars>>

CondTimesOut(t) ==
    /\ pc[t] = "cond"
    /\ timeout[t] = "finite"
    /\ LockFree
    /\ asleep' = asleep \ {t}
    /\ WaitReturns(t, "TIMEOUT")
    /\ UNCHANGED <<imageVars, freeSem, queueVars, error, presentVars, statusLock, lifeVars,
                   held, failures, image, todo>>
    /\ UNCHANGED <<path, threadLock, eventRun, eventPc, serverVars, shmVars, bridgeHeld, clientVars>>

(* The second wait of wait_for_free_buffer() polls: the image that was     *)
(* seen FREE may not have been posted yet.                                 *)
PollFreeSemaphore(t) ==
    /\ pc[t] = "poll"
    /\ IF freeSem > 0 THEN freeSem' = freeSem - 1 /\ WaitReturns(t, "SUCCESS")
                      ELSE WaitReturns(t, "NOT_READY") /\ UNCHANGED freeSem
    /\ UNCHANGED <<imageVars, queueVars, error, presentVars, statusLock, lifeVars,
                   held, failures, image, todo>>
    /\ UNCHANGED x11Vars

X11GetFreeBuffer(t) == \/ GetFreeBuffer(t) \/ ScanPixmap(t) \/ ScanPosts(t) \/ ScanEnds(t)
                       \/ CondWakes(t) \/ CondTimesOut(t) \/ PollFreeSemaphore(t)

-----------------------------------------------------------------------------
(* present_image(), over DRI3.  Too many completions outstanding: sleep,   *)
(* or give the image up when the event thread has gone.                    *)
Dri3Full(t) ==
    /\ pc[t] = "present" /\ path = "DRI3" /\ t \notin asleep
    /\ pending[image[t]] = MaxPending
    /\ \/ eventRun /\ LockFree /\ asleep' = asleep \union {t} /\ UNCHANGED <<threadLock, pc>>
       \/ ~eventRun /\ Lock(t) /\ Goto(t, "unpresent") /\ UNCHANGED asleep
    /\ BaseKept
    /\ UNCHANGED <<path, eventRun, eventPc, serverVars, shmVars, bridgeHeld, clientVars>>

(* Bug: the image is released although the server has it. *)
Dri3PresentsAndReleases(t) ==
    /\ pc[t] = "present" /\ path = "DRI3" /\ t \notin asleep
    /\ pending[image[t]] < MaxPending
    /\ LockFree
    /\ pending' = [pending EXCEPT ![image[t]] = @ + 1]
    /\ atServer' = atServer \union {image[t]}
    /\ shown' = image[t]
    /\ NotifyAll
    /\ Goto(t, "unpresent")
    /\ BaseKept
    /\ UNCHANGED <<path, threadLock, eventRun, eventPc, pixmaps, lost, shmVars, bridgeHeld, clientVars>>

(* The request goes to the X server ... *)
Dri3Presents(t) ==
    /\ pc[t] = "present" /\ path = "DRI3" /\ t \notin asleep
    /\ pending[image[t]] < MaxPending
    /\ LockFree
    /\ ~lost
    /\ pending' = [pending EXCEPT ![image[t]] = @ + 1]
    /\ atServer' = atServer \union {image[t]}
    /\ shown' = image[t]
    /\ NotifyAll
    /\ PresentReturns(t)
    /\ UNCHANGED <<imageVars, freeSem, queueVars, error, started, startSem, acquireLock, lifeVars,
                   held, failures, timeout, left, todo>>
    /\ UNCHANGED <<path, threadLock, eventRun, eventPc, pixmaps, lost, shmVars, bridgeHeld, clientVars>>

(* ... or does not: the image is given back, and no error is remembered.   *)
Dri3Fails(t) ==
    /\ pc[t] = "present" /\ path = "DRI3" /\ t \notin asleep
    /\ pending[image[t]] < MaxPending
    /\ LockFree
    /\ lost
    /\ NotifyAll
    /\ Goto(t, "unpresent")
    /\ BaseKept
    /\ UNCHANGED <<path, threadLock, eventRun, eventPc, serverVars, shmVars, bridgeHeld, clientVars>>

-----------------------------------------------------------------------------
(* ... over SHM, under the lock until the X server has the request.        *)
ShmLocks(t) ==
    /\ pc[t] = "present" /\ path = "SHM"
    /\ Lock(t)
    /\ Goto(t, "shm_sync")
    /\ BaseKept
    /\ UNCHANGED <<path, asleep, eventRun, eventPc, serverVars, shmVars, bridgeHeld, clientVars>>

(* wait_for_presentation_fence() makes the X server wait, and the client   *)
(* for nothing; ensure_sync_completion() waits for the reply the server    *)
(* owes since the previous frame, which follows its reads.                 *)
ShmSyncs(t) ==
    /\ pc[t] = "shm_sync"
    /\ ~shmFence /\ syncPending => unread = <<>>
    /\ syncPending' = (shmFence /\ syncPending)
    /\ Goto(t, "shm_copy")
    /\ BaseKept
    /\ UNCHANGED <<path, syncVars, serverVars, shmFence, unread, bridgeHeld, clientVars>>

(* The copy to the segment whose turn it is, and the request to show it;   *)
(* the image is given back whether that works or not.  An image has two    *)
(* segments, which take turns even when the copy fails.                    *)
TurnsTaken(i) == [k \in 1 .. Len(unread) |-> IF unread[k].image = i
                                             THEN [image |-> i, same |-> ~unread[k].same]
                                             ELSE unread[k]]

ShmCopies(t) ==
    /\ pc[t] = "shm_copy"
    /\ Len(unread) < MaxUnread
    /\ \/ /\ unread' = Append(TurnsTaken(image[t]), [image |-> image[t], same |-> FALSE])
          /\ syncPending' = ~shmFence
          /\ UNCHANGED failures
       \/ MayFail("present") /\ unread' = TurnsTaken(image[t]) /\ UNCHANGED syncPending
    /\ threadLock' = "none"
    /\ NotifyAll
    /\ Goto(t, "unpresent")
    /\ UNCHANGED <<imageVars, freeSem, queueVars, error, presentVars, lockVars, lifeVars,
                   held, image, timeout, left, callVars>>
    /\ UNCHANGED <<path, eventRun, eventPc, serverVars, shmFence, bridgeHeld, clientVars>>

(* The X server reads the oldest copy. *)
ServerReads ==
    /\ unread # <<>>
    /\ unread' = Tail(unread)
    /\ UNCHANGED vars
    /\ UNCHANGED <<path, syncVars, serverVars, shmFence, syncPending, bridgeHeld, clientVars>>

(* unpresent_image(), after which present_image() returns. *)
Unpresent(t) ==
    /\ pc[t] = "unpresent"
    /\ ReleaseStatus(t, image[t])
    /\ Goto(t, "post")
    /\ UNCHANGED <<payload, hint, freeSem, queueVars, error, presentVars, lockVars, lifeVars,
                   held, failures, image, timeout, left, callVars>>
    /\ UNCHANGED x11Vars

UnpresentPosts(t) ==
    /\ pc[t] = "post"
    /\ PostFree
    /\ PresentReturns(t)
    /\ threadLock' = IF threadLock = t THEN "none" ELSE threadLock
    /\ UNCHANGED <<imageVars, queueVars, error, started, startSem, acquireLock, lifeVars,
                   held, failures, timeout, left, todo>>
    /\ UNCHANGED <<path, asleep, eventRun, eventPc, serverVars, shmVars, bridgeHeld, clientVars>>

-----------------------------------------------------------------------------
(* ... and over the bridge.  present_frame() is called under the lock.     *)
Lag == IF NumImages > ReservedFree THEN NumImages - ReservedFree ELSE 1

BridgeSends(t) ==
    /\ pc[t] = "present" /\ path = "BRIDGE"
    /\ Lock(t)
    /\ CallClient("frame")
    /\ Goto(t, "bridge")
    /\ BaseKept
    /\ UNCHANGED <<path, asleep, eventRun, eventPc, serverVars, shmVars, bridgeHeld>>

(* A frame that could not be sent puts the swapchain out of date; after a  *)
(* frame that was, the pacing sleeps without the lock.                     *)
BridgeSent(t) ==
    /\ pc[t] = "bridge"
    /\ LeaveClient
    /\ IF delivered
       THEN Goto(t, "throttle") /\ threadLock' = "none" /\ UNCHANGED error
       ELSE Goto(t, "flush") /\ error' = TRUE /\ UNCHANGED threadLock
    /\ UNCHANGED <<imageVars, freeSem, queueVars, presentVars, lockVars, lifeVars,
                   held, failures, image, timeout, left, callVars>>
    /\ UNCHANGED <<path, asleep, eventRun, eventPc, serverVars, shmVars, bridgeHeld>>

(* throttle_bridge_present_if_needed() is over: the image joins those kept. *)
BridgeKeeps(t) ==
    /\ pc[t] = "throttle"
    /\ Lock(t)
    /\ bridgeHeld' = Append(bridgeHeld, image[t])
    /\ Goto(t, "lag")
    /\ BaseKept
    /\ UNCHANGED <<path, asleep, eventRun, eventPc, serverVars, shmVars, clientVars>>

(* The oldest are released, one by one. *)
ReleaseOldest(t, from, to) ==
    /\ pc[t] = from
    /\ ReleaseStatus(t, Head(bridgeHeld))
    /\ bridgeHeld' = Tail(bridgeHeld)
    /\ Goto(t, to)
    /\ UNCHANGED <<payload, hint, freeSem, queueVars, error, presentVars, lockVars, lifeVars,
                   held, failures, image, timeout, left, callVars>>
    /\ UNCHANGED <<path, syncVars, serverVars, shmVars, clientVars>>

BridgeReleases(t) == Len(bridgeHeld) > Lag /\ ReleaseOldest(t, "lag", "lag_post")

(* Bug: the images that have waited long enough are not posted. *)
BridgePostsNothing(t) ==
    /\ pc[t] \in {"lag_post", "flush_post"}
    /\ Goto(t, IF pc[t] = "lag_post" THEN "lag" ELSE "flush")
    /\ BaseKept
    /\ UNCHANGED x11Vars

BridgePosts(t) ==
    /\ pc[t] \in {"lag_post", "flush_post"}
    /\ PostFree
    /\ Goto(t, IF pc[t] = "lag_post" THEN "lag" ELSE "flush")
    /\ UNCHANGED <<imageVars, queueVars, error, presentVars, lockVars, lifeVars,
                   held, failures, image, timeout, left, callVars>>
    /\ UNCHANGED x11Vars

BridgeReturns(t) ==
    /\ pc[t] = "lag"
    /\ Len(bridgeHeld) =< Lag
    /\ NotifyAll
    /\ threadLock' = "none"
    /\ PresentReturns(t)
    /\ UNCHANGED <<imageVars, freeSem, queueVars, error, started, startSem, acquireLock, lifeVars,
                   held, failures, timeout, left, todo>>
    /\ UNCHANGED <<path, eventRun, eventPc, serverVars, shmVars, bridgeHeld, clientVars>>

(* After a failure, and in the destructor, all of them are. *)
BridgeFlushes(t) == bridgeHeld # <<>> /\ ReleaseOldest(t, "flush", "flush_post")

BridgeGivesUp(t) ==
    /\ pc[t] = "flush" /\ ~(t = "app" /\ task = "destroy")
    /\ bridgeHeld = <<>>
    /\ NotifyAll
    /\ threadLock' = "none"
    /\ Goto(t, "unpresent")
    /\ BaseKept
    /\ UNCHANGED <<path, eventRun, eventPc, serverVars, shmVars, bridgeHeld, clientVars>>

X11PresentImage(t) ==
    \/ Dri3Full(t) \/ Dri3Presents(t) \/ Dri3Fails(t)
    \/ ShmLocks(t) \/ ShmSyncs(t) \/ ShmCopies(t)
    \/ Unpresent(t) \/ UnpresentPosts(t)
    \/ BridgeSends(t) \/ BridgeSent(t) \/ BridgeKeeps(t) \/ BridgeReleases(t)
    \/ BridgePosts(t) \/ BridgeReturns(t) \/ BridgeFlushes(t) \/ BridgeGivesUp(t)

-----------------------------------------------------------------------------
(* present_event_thread().  Over DRI3 it polls for events every 2 ms. *)
EventLoop == eventPc = "loop" /\ LockFree /\ "event" \notin asleep

(* IDLE: the pixmap joins the pool, which drops it when it is full. *)
EventIdle(i) ==
    /\ EventLoop /\ path = "DRI3" /\ eventRun
    /\ i \in atServer
    /\ atServer' = atServer \ {i}
    /\ pixmaps' = IF Len(pixmaps) < PoolCapacity THEN Append(pixmaps, i) ELSE pixmaps
    /\ NotifyAll
    /\ UNCHANGED vars
    /\ UNCHANGED <<path, threadLock, eventRun, eventPc, pending, shown, lost, shmVars, bridgeHeld, clientVars>>

(* COMPLETE: one completion of an image is no longer pending. *)
EventCompletes(i) ==
    /\ EventLoop /\ path = "DRI3" /\ eventRun
    /\ pending[i] > 0
    /\ pending' = [pending EXCEPT ![i] = @ - 1]
    /\ NotifyAll
    /\ UNCHANGED vars
    /\ UNCHANGED <<path, threadLock, eventRun, eventPc, pixmaps, atServer, shown, lost, shmVars, bridgeHeld, clientVars>>

EventThreadExits == eventRun' = FALSE /\ eventPc' = "exited" /\ NotifyAll

(* The connection to the X server breaks; what it sent before may still be *)
(* read.                                                                   *)
ConnectionBreaks ==
    /\ path = "DRI3" /\ ~lost
    /\ MayFail("connection")
    /\ lost' = TRUE
    /\ UNCHANGED <<imageVars, freeSem, queueVars, error, presentVars, lockVars, lifeVars, held,
                   threadVars, callVars>>
    /\ UNCHANGED <<path, syncVars, pixmaps, pending, atServer, shown, shmVars, bridgeHeld, clientVars>>

(* The thread sees it: the swapchain is in error. *)
EventFails ==
    /\ EventLoop /\ eventRun
    /\ lost
    /\ error' = TRUE
    /\ EventThreadExits
    /\ UNCHANGED <<imageVars, freeSem, queueVars, presentVars, lockVars, lifeVars, held,
                   failures, threadVars, callVars>>
    /\ UNCHANGED <<path, threadLock, serverVars, shmVars, bridgeHeld, clientVars>>

(* It was told to stop, or sees an error somebody else has set.  Without   *)
(* DRI3 no completion is ever pending and it only sleeps.                  *)
EventStops ==
    /\ EventLoop
    /\ ~eventRun \/ (path = "DRI3" /\ error)
    /\ EventThreadExits
    /\ UNCHANGED vars
    /\ UNCHANGED <<path, threadLock, serverVars, shmVars, bridgeHeld, clientVars>>

EventSleeps ==
    /\ EventLoop /\ path # "DRI3" /\ eventRun
    /\ asleep' = asleep \union {"event"}
    /\ UNCHANGED vars
    /\ UNCHANGED <<path, threadLock, eventRun, eventPc, serverVars, shmVars, bridgeHeld, clientVars>>

-----------------------------------------------------------------------------
(* The destructor: the event thread is stopped and joined first ... *)
StopEventThread ==
    /\ pc["app"] = "stop_events"
    /\ LockFree
    /\ eventRun' = FALSE
    /\ asleep' = IF eventRun THEN {} ELSE asleep
    /\ Goto("app", "join_events")
    /\ BaseKept
    /\ UNCHANGED <<path, threadLock, eventPc, serverVars, shmVars, bridgeHeld, clientVars>>

JoinEventThread ==
    /\ pc["app"] = "join_events"
    /\ eventPc = "exited"
    /\ IF path = "BRIDGE" THEN Lock("app") /\ Goto("app", "flush")
                          ELSE LockFree /\ Goto("app", "teardown") /\ UNCHANGED threadLock
    /\ BaseKept
    /\ UNCHANGED <<path, asleep, eventRun, eventPc, serverVars, shmVars, bridgeHeld, clientVars>>

(* ... the images kept back are released and the stream is stopped ... *)
BridgeStops ==
    /\ pc["app"] = "flush" /\ task = "destroy"
    /\ bridgeHeld = <<>>
    /\ CallClient("stop")
    /\ Goto("app", "stopping")
    /\ BaseKept
    /\ UNCHANGED <<path, syncVars, serverVars, shmVars, bridgeHeld>>

(* ... and teardown() follows. *)
BridgeStopped ==
    /\ pc["app"] = "stopping"
    /\ LeaveClient
    /\ threadLock' = "none"
    /\ Goto("app", "teardown")
    /\ BaseKept
    /\ UNCHANGED <<path, asleep, eventRun, eventPc, serverVars, shmVars, bridgeHeld>>

-----------------------------------------------------------------------------
ServerKept(A) == A /\ UNCHANGED x11Vars

X11AppInside == \/ ServerKept(AppRuns)
                \/ X11GetFreeBuffer("app") \/ X11PresentImage("app")
                \/ StopEventThread \/ JoinEventThread \/ BridgeStops \/ BridgeStopped
X11FlipInside == ServerKept(FlipThread) \/ X11PresentImage("flip")
ClientInside == ClientRuns /\ UNCHANGED <<vars, path, syncVars, serverVars, shmVars, bridgeHeld>>
ClientDeadlines == (EndProbe \/ AwaitFeedback) /\ UNCHANGED <<vars, path, syncVars, serverVars, shmVars, bridgeHeld>>
BridgeServer == (ServerAnswers \/ ReceiveFails) /\ UNCHANGED <<vars, path, syncVars, serverVars, shmVars, bridgeHeld>>

X11Next == \/ ServerKept(AppCalls \/ Deprecate \/ Destroy("stop_events") \/ DescendantNotifies \/ HeirRuns)
           \/ X11AppInside
           \/ X11FlipInside
           \/ X11GetFreeBuffer("heir")
           \/ \E i \in Images : EventIdle(i) \/ EventCompletes(i)
           \/ ConnectionBreaks \/ EventFails \/ EventStops \/ EventSleeps
           \/ ClientInside \/ BridgeServer
           \/ ServerReads
           \/ \E i \in Images : ServerKept(GpuFinishes(i))

X11Spec == XInit /\ [][X11Next]_xvars

(* Threads inside the library keep running and deadlines pass (both are    *)
(* absolute: needless wake-ups and stray answers do not move them), the    *)
(* GPU finishes payloads, and the X server reports what it owes: every     *)
(* completion, and every pixmap as idle once it was given another one.     *)
X11Fairness ==
    /\ WF_xvars(X11AppInside)
    /\ WF_xvars(X11FlipInside)
    /\ WF_xvars(ServerKept(HeirRuns) \/ X11GetFreeBuffer("heir"))
    /\ WF_xvars(EventFails \/ EventStops)
    /\ SF_xvars(CondTimesOut("app"))
    /\ WF_xvars(ClientInside)
    /\ WF_xvars(ClientDeadlines)
    /\ WF_xvars(ServerReads)
    /\ \A i \in Images : /\ WF_xvars(~lost /\ i # shown /\ EventIdle(i))
                         /\ WF_xvars(~lost /\ EventCompletes(i))
                         /\ WF_xvars(ServerKept(GpuFinishes(i)))

X11FairSpec == X11Spec /\ X11Fairness

-----------------------------------------------------------------------------
(* While the X server may still read the buffer of an image, or its idle   *)
(* event waits to be looked at, or Xwayland may still sample it, the image *)
(* is PENDING: nobody may acquire it, and it is in one of these places     *)
(* only.                                                                   *)
Shows(i) == (IF i \in atServer THEN 1 ELSE 0)
            + Cardinality({k \in 1 .. Len(pixmaps) : pixmaps[k] = i})
            + Cardinality({k \in 1 .. Len(bridgeHeld) : bridgeHeld[k] = i})
ServerOwnsWhatItReads ==
    \A i \in Images : /\ Shows(i) =< 1
                      /\ Shows(i) = 1 => status[i] \in {"PENDING", "INVALID"} /\ i \notin held

(* Images go to the X server and to Xwayland in the order they were queued *)
(* and change hands only as PresentationContract allows.                   *)
X11Contract == INSTANCE PresentationContract WITH
    owner <- OwnersBeside({i \in Images : Shows(i) > 0}),
    queue <- QueueShown
SendsInOrder == X11Contract!Spec

(* Units, those just spent and those about to be posted are exactly the    *)
(* images an acquire may take, on every path and whatever fails: none is   *)
(* promised twice, and none is lost but to an acquire that failed, until   *)
(* the swapchain is deprecated, drained or a fence wait failed.            *)
InFlight == {t \in Threads : pc[t] \in {"post", "scan_post", "lag_post", "flush_post", "release_post"}}
Spent == IF pc["app"] \in {"check", "select"} THEN 1 ELSE 0
Units == freeSem + Spent + Cardinality(InFlight)
UnitsAreImages ==
    ~retired /\ ~error /\ task # "destroy" =>
        /\ Units =< Cardinality({i \in Images : Usable(i)})
        /\ ~failures.acquire => Units = Cardinality({i \in Images : Usable(i)})

(* A segment the X server has still to read is not written to.  Not        *)
(* checked, because it fails with a fence, which the client does not wait  *)
(* for: the second next frame of an image goes to the segment of the first *)
(* (X11.cfg with ShmFences = {TRUE}).  It holds with ShmFences = {FALSE}.  *)
SegmentsAreStable ==
    \A t \in {"app", "flip"} :
        pc[t] = "shm_copy" => \A k \in 1 .. Len(unread) : unread[k] # [image |-> image[t], same |-> TRUE]

(* The comment on get_free_buffer(): a timeout of UINT64_MAX "waits         *)
(* indefinitely"; an acquire that asked for it is not told to try again.   *)
IndefiniteNeverGivesUp ==
    [][ task = "acquire" /\ task' = "none" /\ timeout["app"] = "forever"
        => result' \notin {"NOT_READY", "TIMEOUT"} ]_vars

(* Every call of the application returns, a destruction in error or not    *)
(* included, unless it is an acquire on the bridge while the application   *)
(* has an image: the lag may leave no other.                               *)
X11CallsReturn ==
    task # "none" ~> \/ task = "none"
                     \/ pc["app"] = "dead"
                     \/ path = "BRIDGE" /\ task = "acquire" /\ held # {}
=============================================================================
