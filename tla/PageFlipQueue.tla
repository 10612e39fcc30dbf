---------------------------- MODULE PageFlipQueue ----------------------------
(***************************************************************************)
(* The queue between the application and the page flip thread of a         *)
(* swapchain, with the two utilities it is made of in full detail:         *)
(* m_pending_buffer_pool (RingBuffer), guarded by m_image_status_mutex,    *)
(* and m_page_flip_semaphore (TimedSemaphore).  SwapchainBase takes the    *)
(* pair as a sequence and a number; this module is the reason why it may.  *)
(*                                                                         *)
(* In a swapchain one thread presents and one flips; here any of Threads   *)
(* may do either, so that several wait on one semaphore as the application *)
(* and an heir do on m_free_image_semaphore.                               *)
(***************************************************************************)
EXTENDS TimedSemaphore, RingBuffer

VARIABLES
    mutex,     \* owner of m_image_status_mutex, or None
    taking     \* threads whose wait() returned VK_SUCCESS and that have not popped

(* init_page_flip_thread() starts the semaphore at zero. *)
ASSUME QueueAssumption == InitCount = 0 /\ None \notin Threads

queueVars == <<mutex, taking>>
allVars == <<vars, ringVars, queueVars>>

QueueInit == Init /\ EmptyRing /\ mutex = None /\ taking = {}

Busy == InWait \union taking

(* notify_presentation_engine() pushes the request ... *)
PushRequest(t, item) ==
    /\ t \notin Busy
    /\ mutex = None
    /\ size < N
    /\ PushBack(item)
    /\ mutex' = t
    /\ UNCHANGED <<vars, taking>>

(* ... and posts, before it gives the mutex back. *)
PostRequest(t) ==
    /\ mutex = t
    /\ Post
    /\ mutex' = None
    /\ UNCHANGED <<ringVars, taking>>

(* Bug: VK_TIMEOUT is taken for a success. *)
WaitIgnoresTimeout(t) ==
    /\ mutex # t
    /\ t \notin taking
    /\ \/ /\ WaitTakes(t) \/ RecheckTakes(t) \/ ReturnTimeout(t)
          /\ taking' = taking \union {t}
       \/ /\ \/ \E finite \in BOOLEAN : WaitSleeps(t, finite)
             \/ SpuriousWakeup(t)
             \/ DeadlinePasses(t)
             \/ RecheckSleeps(t)
          /\ UNCHANGED taking
    /\ UNCHANGED <<ringVars, mutex>>

(* page_flip_thread() waits, with a deadline of 250 ms or, for the other   *)
(* semaphores of a swapchain, without one ... *)
WaitForRequest(t) ==
    /\ mutex # t
    /\ t \notin taking
    /\ \/ /\ WaitTakes(t) \/ RecheckTakes(t)
          /\ taking' = taking \union {t}
       \/ /\ \/ \E finite \in BOOLEAN : WaitSleeps(t, finite)
             \/ SpuriousWakeup(t)
             \/ DeadlinePasses(t)
             \/ RecheckSleeps(t)
             \/ ReturnTimeout(t)
          /\ UNCHANGED taking
    /\ UNCHANGED <<ringVars, mutex>>

(* ... and pops the oldest request under the mutex. *)
PopRequest(t) ==
    /\ t \in taking
    /\ mutex = None
    /\ PopFront
    /\ taking' = taking \ {t}
    /\ UNCHANGED <<vars, mutex>>

(* The ring buffer at its limits, where the semaphore plays no part: the   *)
(* X11 back end drops an item that does not fit and pops until nothing is  *)
(* left.                                                                   *)
PushInVain ==
    /\ mutex = None
    /\ size = N
    /\ \E item \in Items : PushBack(item)
    /\ UNCHANGED <<vars, queueVars>>

PopInVain ==
    /\ mutex = None
    /\ size = 0
    /\ PopFront
    /\ UNCHANGED <<vars, queueVars>>

QueueNext ==
    \/ PushInVain
    \/ PopInVain
    \/ \E t \in Threads : \/ \E item \in Items : PushRequest(t, item)
                          \/ PostRequest(t)
                          \/ WaitForRequest(t)
                          \/ PopRequest(t)

(* The threads that are inside a call go on. *)
QueueFairness ==
    \A t \in Threads : /\ WF_allVars(PostRequest(t))
                       /\ WF_allVars(PopRequest(t))
                       /\ WF_allVars(Recheck(t) /\ WaitForRequest(t))
                       /\ SF_allVars(DeadlinePasses(t) /\ WaitForRequest(t))

QueueSpec == QueueInit /\ [][QueueNext]_allVars /\ QueueFairness

-----------------------------------------------------------------------------
(* assert(pending_submission.has_value()): a thread whose wait succeeded   *)
(* pops a request, and requests and units agree whenever the mutex is free. *)
RequestIsThere ==
    /\ size >= Cardinality(taking)
    /\ mutex = None => size = count + Cardinality(taking)
=============================================================================
