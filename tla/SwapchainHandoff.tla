-------------------------- MODULE SwapchainHandoff --------------------------
(***************************************************************************)
(* The handoff between a swapchain and the one created from it as          *)
(* oldSwapchain (wsi/swapchain_base.cpp).  Each swapchain of a chain keeps *)
(* raw pointers to its two neighbours; deprecate(), call_present(),        *)
(* notify_presentation_engine() and teardown() follow them from the        *)
(* application's threads and from the page flip threads.                   *)
(*                                                                         *)
(* SwapchainBase has one swapchain in detail and its relatives as an       *)
(* environment.  Here all the swapchains of a chain are whole, and the     *)
(* images are counted, not named: which image it is matters to no step of  *)
(* the handoff.  A call that touches one swapchain only is one step.       *)
(***************************************************************************)
EXTENDS Integers, FiniteSets

CONSTANTS
    K,              \* swapchains in the chain
    NumImages,      \* images of each
    Concurrent,     \* calls on different swapchains may overlap
    MaxFailures     \* fence waits that fail

ASSUME HandoffAssumption ==
    /\ K \in Nat \ {0}
    /\ NumImages \in Nat \ {0}
    /\ Concurrent \in BOOLEAN
    /\ MaxFailures \in Nat

Chain == 1 .. K
Null == 0

VARIABLES
    life,           \* "none", "alive" or "dead" (deleted)
    acquired,       \* images with status ACQUIRED
    queued,         \* images with status PENDING that the page flip thread has not taken
    dropped,        \* images left PENDING by a failed fence wait
    free,           \* m_free_image_semaphore
    usable,         \* images with status FREE
    error,          \* error_has_occured()
    started,        \* m_started_presenting
    firstPresent,   \* m_first_present
    startSem,       \* m_start_present_semaphore
    ancestor,       \* m_ancestor
    descendant,     \* m_descendant
    retired,        \* was passed as oldSwapchain
    run,            \* m_page_flip_thread_run
    lock,           \* who holds m_image_acquire_lock in wait_for_pending_buffers()
    left,           \* the "wait" of that call
    flip,           \* where the page flip thread is
    target,         \* the ancestor its call_present() waits for
    call,           \* where the application is inside vkDestroySwapchainKHR
    failures,       \* fence waits that failed
    late,           \* history: a present was answered VK_ERROR_OUT_OF_DATE_KHR
    spent           \* history: units of each that its descendant waited for

imageVars == <<acquired, queued, dropped, usable, free>>
linkVars  == <<ancestor, descendant, retired, life>>
startVars == <<started, firstPresent, startSem>>
waitVars  == <<lock, left>>
threadVars == <<run, flip, target, call>>
historyVars == <<late, spent>>
vars == <<imageVars, linkVars, startVars, waitVars, threadVars, historyVars, error, failures>>

Alive(s) == life[s] = "alive"

(* The calls on one swapchain are synchronised by the application; those   *)
(* on different swapchains are too when it has one thread.                 *)
MayCall(s) == /\ Alive(s)
              /\ call[s] = "none"
              /\ Concurrent \/ \A r \in Chain : call[r] = "none"

Init ==
    /\ life = [s \in Chain |-> IF s = 1 THEN "alive" ELSE "none"]
    /\ acquired = [s \in Chain |-> 0]
    /\ queued = [s \in Chain |-> 0]
    /\ dropped = [s \in Chain |-> 0]
    /\ usable = [s \in Chain |-> NumImages]
    /\ free = [s \in Chain |-> NumImages]
    /\ error = [s \in Chain |-> FALSE]
    /\ started = [s \in Chain |-> FALSE]
    /\ firstPresent = [s \in Chain |-> TRUE]
    /\ startSem = [s \in Chain |-> 0]
    /\ ancestor = [s \in Chain |-> Null]
    /\ descendant = [s \in Chain |-> Null]
    /\ retired = [s \in Chain |-> FALSE]
    /\ run = [s \in Chain |-> TRUE]
    /\ lock = [s \in Chain |-> "none"]
    /\ left = [s \in Chain |-> 0]
    /\ flip = [s \in Chain |-> "top"]
    /\ target = [s \in Chain |-> Null]
    /\ call = [s \in Chain |-> "none"]
    /\ failures = 0
    /\ late = FALSE
    /\ spent = [s \in Chain |-> 0]

-----------------------------------------------------------------------------
(* The end of init() with an oldSwapchain: the links, and deprecate(),     *)
(* which destroys the images that are FREE but leaves their units.         *)
Create(s) ==
    /\ s > 1
    /\ life[s] = "none"
    /\ MayCall(s - 1)
    /\ ~retired[s - 1]
    /\ life' = [life EXCEPT ![s] = "alive"]
    /\ ancestor' = [ancestor EXCEPT ![s] = s - 1]
    /\ descendant' = [descendant EXCEPT ![s - 1] = s]
    /\ retired' = [retired EXCEPT ![s - 1] = TRUE]
    /\ usable' = [usable EXCEPT ![s - 1] = 0]
    /\ UNCHANGED <<historyVars, acquired, queued, dropped, free, startVars, waitVars, threadVars,
                   error, failures>>

(* acquire_next_image(), when there is a unit; in error it returns that.   *)
Acquire(s) ==
    /\ MayCall(s)
    /\ ~retired[s]
    /\ free[s] > 0
    /\ free' = [free EXCEPT ![s] = @ - 1]
    /\ \/ /\ ~error[s]
          /\ usable[s] > 0
          /\ usable' = [usable EXCEPT ![s] = @ - 1]
          /\ acquired' = [acquired EXCEPT ![s] = @ + 1]
       \/ error[s] /\ UNCHANGED <<usable, acquired>>
    /\ UNCHANGED <<historyVars, queued, dropped, linkVars, startVars, waitVars, threadVars, error, failures>>

(* has_descendant_started_presenting(): m_descendant is followed. *)
DescendantPresents(s) == descendant[s] # Null /\ started[descendant[s]]

(* queue_present() as far as notify_presentation_engine() ... *)
Present(s) ==
    /\ MayCall(s)
    /\ acquired[s] > 0
    /\ ~DescendantPresents(s)
    /\ acquired' = [acquired EXCEPT ![s] = @ - 1]
    /\ queued' = [queued EXCEPT ![s] = @ + 1]
    /\ started' = [started EXCEPT ![s] = TRUE]
    /\ UNCHANGED <<historyVars, dropped, usable, free, linkVars, firstPresent, startSem, waitVars,
                   threadVars, error, failures>>

(* ... and when the descendant presents: VK_ERROR_OUT_OF_DATE_KHR. *)
PresentLate(s) ==
    /\ MayCall(s)
    /\ acquired[s] > 0
    /\ DescendantPresents(s)
    /\ acquired' = [acquired EXCEPT ![s] = @ - 1]
    /\ usable' = [usable EXCEPT ![s] = @ + 1]
    /\ free' = [free EXCEPT ![s] = @ + 1]
    /\ late' = TRUE
    /\ UNCHANGED <<spent, queued, dropped, linkVars, startVars, waitVars, threadVars, error, failures>>

-----------------------------------------------------------------------------
(* Bug: a second image is not waited for. *)
BeginDrainShort(a, who) ==
    /\ lock[a] = "none"
    /\ lock' = [lock EXCEPT ![a] = who]
    /\ left' = [left EXCEPT ![a] = NumImages - acquired[a] - 2]

(* wait_for_pending_buffers() of swapchain a, called by "heir" or "app":   *)
(* to begin it, to take one unit, and to be done with it.                  *)
BeginDrain(a, who) ==
    /\ lock[a] = "none"
    /\ lock' = [lock EXCEPT ![a] = who]
    /\ left' = [left EXCEPT ![a] = NumImages - acquired[a] - 1]

TakeOne(a, who) ==
    /\ lock[a] = who
    /\ left[a] > 0
    /\ free[a] > 0
    /\ free' = [free EXCEPT ![a] = @ - 1]
    /\ left' = [left EXCEPT ![a] = @ - 1]

Drained(a, who) ==
    /\ lock[a] = who
    /\ left[a] =< 0
    /\ lock' = [lock EXCEPT ![a] = "none"]

-----------------------------------------------------------------------------
(* The page flip thread of s: a request is taken ... *)
FlipTakes(s) ==
    /\ flip[s] = "top"
    /\ queued[s] > 0
    /\ queued' = [queued EXCEPT ![s] = @ - 1]
    /\ flip' = [flip EXCEPT ![s] = "fence"]
    /\ UNCHANGED <<historyVars, acquired, dropped, usable, free, linkVars, startVars, waitVars,
                   run, target, call, error, failures>>

FlipExits(s) ==
    /\ flip[s] = "top"
    /\ ~run[s]
    /\ flip' = [flip EXCEPT ![s] = "exited"]
    /\ UNCHANGED <<historyVars, imageVars, linkVars, startVars, waitVars, run, target, call, error, failures>>

(* ... its fence waited for; call_present() reads m_ancestor once, on the  *)
(* first present ...                                                       *)
FlipFence(s) ==
    /\ flip[s] = "fence"
    /\ IF firstPresent[s] /\ ancestor[s] # Null
       THEN /\ flip' = [flip EXCEPT ![s] = "ancestor"]
            /\ target' = [target EXCEPT ![s] = ancestor[s]]
       ELSE /\ flip' = [flip EXCEPT ![s] = IF firstPresent[s] THEN "start" ELSE "present"]
            /\ UNCHANGED target
    /\ UNCHANGED <<historyVars, imageVars, linkVars, startVars, waitVars, run, call, error, failures>>

FlipFails(s) ==
    /\ flip[s] = "fence"
    /\ failures < MaxFailures
    /\ failures' = failures + 1
    /\ error' = [error EXCEPT ![s] = TRUE]
    /\ dropped' = [dropped EXCEPT ![s] = @ + 1]
    /\ free' = [free EXCEPT ![s] = @ + 1]
    /\ flip' = [flip EXCEPT ![s] = "top"]
    /\ UNCHANGED <<historyVars, acquired, queued, usable, linkVars, startVars, waitVars, run, target, call>>

(* ... ancestor->wait_for_pending_buffers() ... *)
FlipEntersAncestor(s) ==
    /\ flip[s] = "ancestor"
    /\ BeginDrain(target[s], "heir")
    /\ flip' = [flip EXCEPT ![s] = "draining"]
    /\ UNCHANGED <<historyVars, imageVars, linkVars, startVars, run, target, call, error, failures>>

FlipDrains(s) ==
    /\ flip[s] = "draining"
    /\ TakeOne(target[s], "heir")
    /\ spent' = [spent EXCEPT ![target[s]] = @ + 1]
    /\ UNCHANGED <<late, acquired, queued, dropped, usable, linkVars, startVars, lock, threadVars,
                   error, failures>>

FlipLeavesAncestor(s) ==
    /\ flip[s] = "draining"
    /\ Drained(target[s], "heir")
    /\ flip' = [flip EXCEPT ![s] = "start"]
    /\ UNCHANGED <<historyVars, imageVars, linkVars, startVars, left, run, target, call, error, failures>>

(* ... sem_post(&m_start_present_semaphore) ... *)
FlipStarts(s) ==
    /\ flip[s] = "start"
    /\ startSem' = [startSem EXCEPT ![s] = @ + 1]
    /\ flip' = [flip EXCEPT ![s] = "present"]
    /\ UNCHANGED <<historyVars, imageVars, linkVars, started, firstPresent, waitVars, run, target, call,
                   error, failures>>

(* ... and present_image(), which frees the image at once (headless).      *)
FlipPresents(s) ==
    /\ flip[s] = "present"
    /\ usable' = [usable EXCEPT ![s] = @ + 1]
    /\ free' = [free EXCEPT ![s] = @ + 1]
    /\ firstPresent' = [firstPresent EXCEPT ![s] = FALSE]
    /\ flip' = [flip EXCEPT ![s] = "top"]
    /\ UNCHANGED <<historyVars, acquired, queued, dropped, linkVars, started, startSem, waitVars,
                   run, target, call, error, failures>>

FlipThread(s) == \/ FlipTakes(s) \/ FlipExits(s) \/ FlipFence(s) \/ FlipFails(s)
                 \/ FlipEntersAncestor(s) \/ FlipDrains(s) \/ FlipLeavesAncestor(s)
                 \/ FlipStarts(s) \/ FlipPresents(s)

-----------------------------------------------------------------------------
(* vkDestroySwapchainKHR *)
Destroy(s) ==
    /\ MayCall(s)
    /\ call' = [call EXCEPT ![s] = "teardown"]
    /\ UNCHANGED <<historyVars, imageVars, linkVars, startVars, waitVars, run, flip, target, error, failures>>

(* Bug: a descendant that presents is not waited for. *)
TeardownNeverAwaits(s) ==
    /\ call[s] = "teardown"
    /\ call' = [call EXCEPT ![s] = IF error[s] THEN "stop" ELSE "drain"]
    /\ UNCHANGED <<historyVars, imageVars, linkVars, startVars, waitVars, run, flip, target, error, failures>>

(* Bug: the images of a swapchain in error are waited for too. *)
TeardownDrainsAlways(s) ==
    /\ call[s] = "teardown"
    /\ call' = [call EXCEPT ![s] = IF DescendantPresents(s) THEN "await" ELSE "drain"]
    /\ UNCHANGED <<historyVars, imageVars, linkVars, startVars, waitVars, run, flip, target, error, failures>>

Teardown(s) ==
    /\ call[s] = "teardown"
    /\ call' = [call EXCEPT ![s] = IF DescendantPresents(s) THEN "await"
                                   ELSE IF error[s] THEN "stop" ELSE "drain"]
    /\ UNCHANGED <<historyVars, imageVars, linkVars, startVars, waitVars, run, flip, target, error, failures>>

(* sem_wait(&desc->m_start_present_semaphore) *)
AwaitHeir(s) ==
    /\ call[s] = "await"
    /\ startSem[descendant[s]] > 0
    /\ startSem' = [startSem EXCEPT ![descendant[s]] = @ - 1]
    /\ call' = [call EXCEPT ![s] = "stop"]
    /\ UNCHANGED <<historyVars, imageVars, linkVars, started, firstPresent, waitVars, run, flip, target,
                   error, failures>>

DrainBegins(s) ==
    /\ call[s] = "drain"
    /\ BeginDrain(s, "app")
    /\ call' = [call EXCEPT ![s] = "draining"]
    /\ UNCHANGED <<historyVars, imageVars, linkVars, startVars, run, flip, target, error, failures>>

DrainTakes(s) ==
    /\ call[s] = "draining"
    /\ TakeOne(s, "app")
    /\ UNCHANGED <<historyVars, acquired, queued, dropped, usable, linkVars, startVars, lock, threadVars,
                   error, failures>>

DrainEnds(s) ==
    /\ call[s] = "draining"
    /\ Drained(s, "app")
    /\ call' = [call EXCEPT ![s] = "stop"]
    /\ UNCHANGED <<historyVars, imageVars, linkVars, startVars, left, run, flip, target, error, failures>>

StopFlipThread(s) ==
    /\ call[s] = "stop"
    /\ run' = [run EXCEPT ![s] = FALSE]
    /\ call' = [call EXCEPT ![s] = "join"]
    /\ UNCHANGED <<historyVars, imageVars, linkVars, startVars, waitVars, flip, target, error, failures>>

(* The links are cut on both sides and the object is deleted. *)
Unlink(s) ==
    /\ call[s] = "join"
    /\ flip[s] = "exited"
    /\ ancestor' = [r \in Chain |-> IF r = s \/ r = descendant[s] THEN Null ELSE ancestor[r]]
    /\ descendant' = [r \in Chain |-> IF r = s \/ r = ancestor[s] THEN Null ELSE descendant[r]]
    /\ life' = [life EXCEPT ![s] = "dead"]
    /\ call' = [call EXCEPT ![s] = "none"]
    /\ UNCHANGED <<historyVars, imageVars, retired, startVars, waitVars, run, flip, target, error, failures>>

DestroyRuns(s) == \/ Teardown(s) \/ AwaitHeir(s)
                  \/ DrainBegins(s) \/ DrainTakes(s) \/ DrainEnds(s)
                  \/ StopFlipThread(s) \/ Unlink(s)

-----------------------------------------------------------------------------
Next == \E s \in Chain : \/ Create(s) \/ Acquire(s) \/ Present(s) \/ PresentLate(s)
                         \/ Destroy(s) \/ DestroyRuns(s) \/ FlipThread(s)

Spec == Init /\ [][Next]_vars

(* The threads of the library keep running; the application may stop       *)
(* calling at any time, but not inside a call.                             *)
FairSpec == Spec /\ \A s \in Chain : WF_vars(FlipThread(s)) /\ WF_vars(DestroyRuns(s))

-----------------------------------------------------------------------------
Flips == {"top", "fence", "ancestor", "draining", "start", "present", "exited"}
Calls == {"none", "teardown", "await", "drain", "draining", "stop", "join"}

(* The state is well formed. *)
TypeOK ==
    /\ life \in [Chain -> {"none", "alive", "dead"}]
    /\ acquired \in [Chain -> Nat]
    /\ queued \in [Chain -> Nat]
    /\ dropped \in [Chain -> Nat]
    /\ usable \in [Chain -> Nat]
    /\ free \in [Chain -> Nat]
    /\ startSem \in [Chain -> Nat]
    /\ error \in [Chain -> BOOLEAN]
    /\ started \in [Chain -> BOOLEAN]
    /\ firstPresent \in [Chain -> BOOLEAN]
    /\ retired \in [Chain -> BOOLEAN]
    /\ run \in [Chain -> BOOLEAN]
    /\ ancestor \in [Chain -> Chain \union {Null}]
    /\ descendant \in [Chain -> Chain \union {Null}]
    /\ target \in [Chain -> Chain \union {Null}]
    /\ lock \in [Chain -> {"none", "app", "heir"}]
    /\ left \in [Chain -> Int]
    /\ flip \in [Chain -> Flips]
    /\ call \in [Chain -> Calls]
    /\ failures \in Nat
    /\ late \in BOOLEAN
    /\ spent \in [Chain -> Nat]

(* Nobody follows a pointer to a swapchain that was deleted: neither the   *)
(* page flip thread inside its ancestor, nor a destroyed swapchain's       *)
(* teardown() inside its descendant, nor anyone through a link.  "We don't *)
(* want to delete vkImages and vkFences and semaphores before the waiting  *)
(* is done."                                                               *)
NobodyUsesTheDead == \A s \in Chain : Alive(s) =>
    /\ flip[s] \in {"ancestor", "draining"} => Alive(target[s])
    /\ call[s] = "await" => descendant[s] # Null
    /\ ancestor[s] # Null => Alive(ancestor[s])
    /\ descendant[s] # Null => Alive(descendant[s])

(* "If it has an ancestor, wait until all the pending buffers from the     *)
(* ancestor have been presented", save the one a compositor may keep: the  *)
(* new swapchain's first image never overtakes two of the old one's,       *)
(* unless a present to the old one was answered VK_ERROR_OUT_OF_DATE_KHR,  *)
(* whose unit passes for that of a shown image.                            *)
Unshown(a) == queued[a] + (IF flip[a] \in {"fence", "ancestor", "draining", "start", "present"}
                           THEN 1 ELSE 0)
OldIsShownFirst == \A s \in Chain :
    flip[s] \in {"start", "present"} /\ firstPresent[s] /\ target[s] # Null
    => late \/ Unshown(target[s]) =< 1

(* A destruction that begins ends, but for three cases in which teardown() *)
(* waits for what nobody will post any more:                               *)
(*   - its own units, some of which its descendant's first present had     *)
(*     taken before the descendant was destroyed;                          *)
(*   - a descendant in error, whose first present never got so far as to   *)
(*     raise the semaphore;                                                *)
(*   - a page flip thread, its own or the descendant's, inside the drain   *)
(*     of a swapchain in error, where acquires that returned the error     *)
(*     kept the units.                                                     *)
DrainedBefore(s) == call[s] = "draining" /\ spent[s] > 0
HeirFailed(s) == call[s] = "await" /\ error[descendant[s]]
DrainsTheFailed(s) == flip[s] = "draining" /\ error[target[s]]
DestroyEnds == \A s \in Chain : call[s] # "none" ~>
    \/ life[s] = "dead"
    \/ DrainedBefore(s) \/ HeirFailed(s)
    \/ DrainsTheFailed(s) \/ (call[s] = "await" /\ DrainsTheFailed(descendant[s]))

(* The comment at the top of teardown(): "Images in the ACQUIRED or FREE   *)
(* state can be freed immediately"; so the destruction of a swapchain none *)
(* of whose images is queued or being shown ends.                          *)
IdleDestroyEnds == \A s \in Chain :
    (call[s] # "none" /\ Unshown(s) = 0 /\ dropped[s] = 0) ~> life[s] = "dead"
=============================================================================
