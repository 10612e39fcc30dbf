-------------------------- MODULE HeadlessSwapchain --------------------------
(***************************************************************************)
(* wsi::headless::swapchain: the base class with a presentation engine     *)
(* that shows nothing.  present_image() gives the image back at once, in   *)
(* whatever thread it runs, and get_free_buffer() is the default.  It is   *)
(* the smallest complete swapchain, and the one the base class's own       *)
(* promises are checked and proved on.                                     *)
(***************************************************************************)
EXTENDS SwapchainBase

(* init_platform(): only SHARED_DEMAND does without a page flip thread. *)
HeadlessThreadModes == AllModes \ {"SHARED_DEMAND"}

ASSUME HeadlessAssumption == ThreadModes = HeadlessThreadModes

(* present_image(): the first half of unpresent_image() ... *)
PresentImage(t) ==
    /\ pc[t] = "present"
    /\ ReleaseStatus(t, image[t])
    /\ Goto(t, "post")
    /\ UNCHANGED <<payload, hint, freeSem, queueVars, error, presentVars, lockVars, lifeVars,
                   held, failures, image, timeout, left, callVars>>

(* Bug: the image is free, nobody is told. *)
PresentPostsNothing(t) ==
    /\ pc[t] = "post"
    /\ PresentReturns(t)
    /\ UNCHANGED <<imageVars, freeSem, queueVars, error, started, startSem, acquireLock,
                   lifeVars, held, failures, timeout, left, todo>>

(* ... and the second, after which call_present() ends. *)
PresentPosts(t) ==
    /\ pc[t] = "post"
    /\ PostFree
    /\ PresentReturns(t)
    /\ UNCHANGED <<imageVars, queueVars, error, started, startSem, acquireLock, lifeVars,
                   held, failures, timeout, left, todo>>

Engine(t) == DefaultGetFreeBuffer(t) \/ PresentImage(t) \/ PresentPosts(t)

AppInside == AppRuns \/ Engine("app")
FlipInside == FlipThread \/ Engine("flip")
HeirInside == HeirRuns \/ DefaultGetFreeBuffer("heir")

Relatives == \/ DescendantNotifies \/ DescendantDestroyed
             \/ AncestorDrained("flip") \/ AncestorDrained("app") \/ AncestorDestroyed

Next == \/ AppCalls \/ Deprecate \/ Destroy("teardown")
        \/ AppInside
        \/ FlipInside
        \/ HeirInside
        \/ Relatives
        \/ \E i \in Images : GpuFinishes(i)

Spec == Init /\ [][Next]_vars

(* A thread inside the library keeps running and the GPU finishes what it  *)
(* was given.  The application need not call anything; the relatives need  *)
(* not do anything unless they are inside this swapchain.                  *)
Fairness == /\ WF_vars(AppInside)
            /\ WF_vars(FlipInside)
            /\ WF_vars(HeirInside)
            /\ WF_vars(AncestorDrained("flip") \/ AncestorDrained("app"))
            /\ \A i \in Images : WF_vars(GpuFinishes(i))

FairSpec == Spec /\ Fairness
=============================================================================
