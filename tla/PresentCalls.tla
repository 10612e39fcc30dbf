---------------------------- MODULE PresentCalls ----------------------------
(***************************************************************************)
(* vkQueuePresentKHR as the GPU sees it (swapchain_api.cpp, queue_present() *)
(* of swapchain_base.cpp, synchronization.cpp).  One call presents images  *)
(* of several swapchains.  Each present is a submission that waits for the *)
(* application's semaphore and signals the fence the image's presentation  *)
(* waits for; several swapchains share the application's semaphore through *)
(* one more submission, and the application's present fence is chained to  *)
(* the payload by another.  The module has the semaphores, the fences and  *)
(* the submissions, which Vulkan lets nobody check at run time; the life   *)
(* of the images themselves is in SwapchainBase.                           *)
(***************************************************************************)
EXTENDS Naturals, FiniteSets, Sequences

CONSTANTS
    Swapchains,     \* the swapchains of one device and queue
    Threaded,       \* those with a page flip thread
    NumImages,      \* images of each
    MaxFailures     \* bound on failing driver calls

ASSUME PresentAssumption ==
    /\ IsFiniteSet(Swapchains)
    /\ Threaded \subseteq Swapchains
    /\ NumImages \in Nat \ {0}
    /\ MaxFailures \in Nat

Images == Swapchains \X (1 .. NumImages)
Of(x) == x[1]

(* The semaphores of an image: the one the application's rendering signals *)
(* (one image of a call is enough to tell it apart), present_semaphore and *)
(* present_fence_wait; and its fences: that of its payload and the one the *)
(* application chains to the present.                                      *)
Semaphores == {"render", "present", "chain"} \X Images
Fences == {"payload", "app"} \X Images
NoFence == <<>>

VARIABLES
    life,       \* [Images -> "free", "held", "drawn", "queued"]
    rendering,  \* the application's frames the GPU is working on, each a set of images
    submitted,  \* the submissions of the present queue still to execute, oldest first
    signalled,  \* the semaphores it has signalled and nobody has waited for
    fences,     \* the fences it has signalled since they were last reset
    payload,    \* images whose fence_sync has a payload not seen to finish
    appFence,   \* [Images -> "idle", "given"]: VkSwapchainPresentFenceInfoEXT
    outOfDate,  \* swapchains whose descendant has started presenting
    call,       \* the vkQueuePresentKHR in progress
    failures,   \* driver failures so far
    broken      \* images a present has failed for after a submission

gpuVars == <<rendering, submitted, signalled, fences>>
hostVars == <<life, payload, appFence>>
vars == <<gpuVars, hostVars, outOfDate, call, failures, broken>>

NoCall == [at |-> "none", todo |-> {}, image |-> <<>>, frame |-> <<>>, shared |-> FALSE]

Init ==
    /\ life = [x \in Images |-> "free"]
    /\ rendering = {}
    /\ submitted = <<>>
    /\ signalled = {}
    /\ fences = {}
    /\ payload = {}
    /\ appFence = [x \in Images |-> "idle"]
    /\ outOfDate = {}
    /\ call = NoCall
    /\ failures = 0
    /\ broken = {}

-----------------------------------------------------------------------------
(* sync_queue_submit(): one batch for the queue.                           *)
Batch(waits, signals, fence) == [waits |-> waits, signals |-> signals, fence |-> fence]
Submit(b) == submitted' = Append(submitted, b)

Pending(f) == {k \in 1 .. Len(submitted) : submitted[k].fence = f}

MayFail == failures < MaxFailures /\ failures' = failures + 1

(* The GPU finishes a frame, on any queue; on the present queue it signals *)
(* in the order of the submissions, each when its semaphores let it start. *)
Frame(S) == CHOOSE x \in S : TRUE
FinishFrame(S) ==
    /\ S \in rendering
    /\ rendering' = rendering \ {S}
    /\ signalled' = signalled \union {<<"render", Frame(S)>>}
    /\ UNCHANGED <<submitted, fences, hostVars, outOfDate, call, failures, broken>>

Execute ==
    /\ submitted # <<>>
    /\ LET b == Head(submitted) IN
       /\ b.waits \subseteq signalled
       /\ signalled' = (signalled \ b.waits) \union b.signals
       /\ fences' = IF b.fence = NoFence THEN fences ELSE fences \union {b.fence}
    /\ submitted' = Tail(submitted)
    /\ UNCHANGED <<rendering, hostVars, outOfDate, call, failures, broken>>

-----------------------------------------------------------------------------
(* The application: it acquires an image, renders to it, and waits for its *)
(* present fence before it gives it to another present.                    *)
Acquire(x) ==
    /\ life[x] = "free" /\ Of(x) \notin outOfDate
    /\ life' = [life EXCEPT ![x] = "held"]
    /\ UNCHANGED <<gpuVars, payload, appFence, outOfDate, call, failures, broken>>

RenderSemaphoreIsFree(x) ==
    /\ <<"render", x>> \notin signalled
    /\ \A k \in 1 .. Len(submitted) : <<"render", x>> \notin submitted[k].waits

(* One submission renders to every image of the frame S, and signals the   *)
(* one semaphore that the present of the frame will wait for.              *)
Frames == {S \in (SUBSET Images) \ {{}} : \A x, y \in S : Of(x) = Of(y) => x = y}
Render(S) ==
    /\ call.at = "none"
    /\ \A x \in S : life[x] = "held" /\ appFence[x] = "idle" /\ RenderSemaphoreIsFree(x)
    /\ life' = [x \in Images |-> IF x \in S THEN "drawn" ELSE life[x]]
    /\ rendering' = rendering \union {S}
    /\ call' = [NoCall EXCEPT !.at = "drawn", !.todo = S, !.frame = Frame(S)]
    /\ UNCHANGED <<submitted, signalled, fences, payload, appFence, outOfDate, failures, broken>>

(* The application sees its fence signalled and resets it. *)
TakeFence(x) ==
    /\ appFence[x] = "given" /\ <<"app", x>> \in fences
    /\ appFence' = [appFence EXCEPT ![x] = "idle"]
    /\ fences' = fences \ {<<"app", x>>}
    /\ UNCHANGED <<rendering, submitted, signalled, life, payload, outOfDate, call, failures, broken>>

(* A swapchain created from this one makes its first present. *)
DescendantPresents(s) ==
    /\ s \notin outOfDate
    /\ outOfDate' = outOfDate \union {s}
    /\ UNCHANGED <<gpuVars, hostVars, call, failures, broken>>

-----------------------------------------------------------------------------
(* wsi_layer_vkQueuePresentKHR() with present fences for the images of F.  *)
(* With one swapchain its present waits for the application's semaphore;   *)
(* with several, submit_wait_request() waits for it and signals the        *)
(* present_semaphore of every image.                                       *)
QueuePresent(F) ==
    /\ call.at = "drawn"
    /\ F \subseteq call.todo
    /\ appFence' = [x \in Images |-> IF x \in F THEN "given" ELSE appFence[x]]
    /\ call' = [call EXCEPT !.at = IF Cardinality(call.todo) > 1 THEN "wait_request" ELSE "next",
                            !.shared = Cardinality(call.todo) > 1]
    /\ UNCHANGED <<gpuVars, life, payload, outOfDate, failures, broken>>

(* The application's call ends: an image it still has is drawn again. *)
GivesBack(S) == [x \in Images |-> IF x \in S THEN "held" ELSE life[x]]
Refuses(S) == [x \in Images |-> IF x \in S THEN "idle" ELSE appFence[x]]

(* Bug: the semaphore of the first image only. *)
SubmitWaitRequestForFirst ==
    /\ call.at = "wait_request"
    /\ Submit(Batch({<<"render", call.frame>>}, {<<"present", call.frame>>}, NoFence))
    /\ call' = [call EXCEPT !.at = "next"]
    /\ UNCHANGED <<rendering, signalled, fences, hostVars, outOfDate, failures, broken>>

SubmitWaitRequest ==
    /\ call.at = "wait_request"
    /\ \/ /\ Submit(Batch({<<"render", call.frame>>}, {<<"present", x>> : x \in call.todo}, NoFence))
          /\ call' = [call EXCEPT !.at = "next"]
          /\ UNCHANGED <<hostVars, failures, broken>>
       \/ /\ MayFail
          /\ life' = GivesBack(call.todo)
          /\ appFence' = Refuses(call.todo)
          /\ broken' = broken \union {call.frame}
          /\ call' = NoCall
          /\ UNCHANGED <<submitted, payload>>
    /\ UNCHANGED <<rendering, signalled, fences, outOfDate>>

(* The loop over the swapchains: queue_present() of each in turn, whatever *)
(* the one before returned.                                                *)
NextSwapchain ==
    /\ call.at = "next"
    /\ IF call.todo = {} THEN call' = NoCall
       ELSE \E x \in call.todo :
               call' = [call EXCEPT !.at = "mode", !.image = x, !.todo = @ \ {x}]
    /\ UNCHANGED <<gpuVars, hostVars, outOfDate, failures, broken>>

(* Bug: the loop over the swapchains returns the first error. *)
PresentFailsAtOnce ==
    /\ MayFail
    /\ life' = GivesBack({call.image})
    /\ appFence' = Refuses({call.image})
    /\ broken' = broken \union {call.image, call.frame}
    /\ call' = NoCall

(* queue_present() returns an error: the image stays with the application, *)
(* and the loop goes on with the next swapchain.                           *)
PresentFails ==
    /\ MayFail
    /\ life' = GivesBack({call.image})
    /\ appFence' = Refuses({call.image})
    /\ broken' = broken \union {call.image, call.frame}
    /\ call' = [call EXCEPT !.at = "next"]

(* VkSwapchainPresentModeInfoEXT: a mode the swapchain was not created for *)
(* is refused.                                                             *)
SwitchMode ==
    /\ call.at = "mode"
    /\ \/ /\ call' = [call EXCEPT !.at = IF Of(call.image) \in Threaded THEN "payload" ELSE "sync"]
          /\ UNCHANGED <<life, appFence, failures, broken>>
       \/ PresentFails
    /\ UNCHANGED <<gpuVars, payload, outOfDate>>

(* fence_sync::wait_payload(): without a page flip thread the previous     *)
(* payload is waited for, for a second.                                    *)
PayloadIsOver(x) == x \in payload => <<"payload", x>> \in fences
Sync ==
    /\ call.at = "sync"
    /\ \/ /\ PayloadIsOver(call.image)
          /\ payload' = payload \ {call.image}
          /\ call' = [call EXCEPT !.at = "payload"]
          /\ UNCHANGED <<life, appFence, failures, broken>>
       \/ PresentFails /\ UNCHANGED payload
    /\ UNCHANGED <<gpuVars, outOfDate>>

(* The semaphore the payload waits for. *)
WaitSemaphore(x) == IF call.shared THEN <<"present", x>> ELSE <<"render", call.frame>>

(* fence_sync::set_payload(): the fence is reset and a submission signals  *)
(* it, and present_fence_wait too when a present fence is to follow.       *)
SetPayload ==
    /\ call.at = "payload"
    /\ LET x == call.image IN
       \/ /\ Submit(Batch({WaitSemaphore(x)},
                          IF appFence[x] = "given" THEN {<<"chain", x>>} ELSE {},
                          <<"payload", x>>))
          /\ fences' = fences \ {<<"payload", x>>}
          /\ payload' = payload \union {x}
          /\ call' = [call EXCEPT !.at = IF appFence[x] = "given" THEN "fence" ELSE "notify"]
          /\ UNCHANGED <<life, appFence, failures, broken>>
       \/ /\ PresentFails
          /\ fences' = fences \ {<<"payload", x>>}
          /\ payload' = payload \ {x}
          /\ UNCHANGED submitted
       \/ PresentFails /\ UNCHANGED <<submitted, fences, payload>>
    /\ UNCHANGED <<rendering, signalled, outOfDate>>

(* A submission that waits for present_fence_wait signals the fence of the *)
(* application.                                                            *)
ChainFence ==
    /\ call.at = "fence"
    /\ \/ /\ Submit(Batch({<<"chain", call.image>>}, {}, <<"app", call.image>>))
          /\ call' = [call EXCEPT !.at = "notify"]
          /\ UNCHANGED <<life, appFence, failures, broken>>
       \/ PresentFails /\ UNCHANGED submitted
    /\ UNCHANGED <<rendering, signalled, fences, payload, outOfDate>>

(* notify_presentation_engine(): the request is queued for the page flip   *)
(* thread, shown at once without one, or refused as VK_ERROR_OUT_OF_DATE,  *)
(* which frees the image.                                                  *)
Notify ==
    /\ call.at = "notify"
    /\ LET s == Of(call.image) IN
       life' = [life EXCEPT ![call.image] =
                   IF s \in Threaded /\ s \notin outOfDate THEN "queued" ELSE "free"]
    /\ call' = [call EXCEPT !.at = "next"]
    /\ UNCHANGED <<gpuVars, payload, appFence, outOfDate, failures, broken>>

-----------------------------------------------------------------------------
(* The page flip thread waits for the payload of an image it has queued,   *)
(* shows the image and frees it.                                           *)
Show(x) ==
    /\ life[x] = "queued"
    /\ PayloadIsOver(x)
    /\ payload' = payload \ {x}
    /\ life' = [life EXCEPT ![x] = "free"]
    /\ UNCHANGED <<gpuVars, appFence, outOfDate, call, failures, broken>>

PresentCall == \/ \E F \in SUBSET Images : QueuePresent(F)
               \/ SubmitWaitRequest \/ NextSwapchain
               \/ SwitchMode \/ Sync \/ SetPayload \/ ChainFence \/ Notify

Next ==
    \/ Execute
    \/ \E x \in Images : Acquire(x) \/ TakeFence(x) \/ Show(x)
    \/ \E S \in Frames : Render(S) \/ FinishFrame(S)
    \/ \E s \in Swapchains : DescendantPresents(s)
    \/ PresentCall

Spec == Init /\ [][Next]_vars

(* The GPU executes what it can, a call runs on, the page flip threads do. *)
Fairness ==
    /\ \A S \in Frames : WF_vars(FinishFrame(S))
    /\ WF_vars(Execute)
    /\ WF_vars(PresentCall)
    /\ \A x \in Images : WF_vars(Show(x))

FairSpec == Spec /\ Fairness

-----------------------------------------------------------------------------
Batches == [waits : SUBSET Semaphores, signals : SUBSET Semaphores, fence : Fences \union {NoFence}]
TypeOK ==
    /\ life \in [Images -> {"free", "held", "drawn", "queued"}]
    /\ rendering \subseteq Frames
    /\ submitted \in Seq(Batches)
    /\ signalled \subseteq Semaphores
    /\ fences \subseteq Fences
    /\ payload \subseteq Images
    /\ appFence \in [Images -> {"idle", "given"}]
    /\ outOfDate \subseteq Swapchains
    /\ failures \in Nat
    /\ broken \subseteq Images

(* What Vulkan demands of a binary semaphore and of a fence, and nobody    *)
(* checks: a semaphore is signalled only when no signal of it is left, and *)
(* waited for only when one is; no fence is submitted twice at a time.  A  *)
(* present that failed half-way leaves its semaphores signalled (the next  *)
(* present of the image signals them again), hence the exception.          *)
Signals(s) == {k \in 1 .. Len(submitted) : s \in submitted[k].signals}
Waits(s) == {k \in 1 .. Len(submitted) : s \in submitted[k].waits}
Left(s) == (IF s \in signalled THEN 1 ELSE 0) + Cardinality(Signals(s))
           + Cardinality({S \in rendering : s = <<"render", Frame(S)>>})
SubmissionsAreValid == \A x \in Images \ broken :
    /\ \A kind \in {"render", "present", "chain"} :
          Left(<<kind, x>>) - Cardinality(Waits(<<kind, x>>)) \in {0, 1}
    /\ Cardinality(Pending(<<"payload", x>>)) =< 1
    /\ Cardinality(Pending(<<"app", x>>)) =< 1

(* Every present fence the application gave to a present is signalled,     *)
(* unless that very present fails (the fence is then the application's     *)
(* again, Refuses): whatever becomes of the other swapchains of the call,  *)
(* before it in the loop or after it, of earlier presents of the image,    *)
(* and of its own swapchain, which may be out of date.  The GPU is taken to *)
(* see one signal where a failed present left a semaphore signalled twice. *)
FencesAreSignalled == \A x \in Images :
    appFence[x] = "given" ~> (appFence[x] = "idle" \/ <<"app", x>> \in fences)
=============================================================================
