------------------------ MODULE PresentationContract ------------------------
(***************************************************************************)
(* What a swapchain promises about its images, whatever the threads do:    *)
(* an image belongs to the presentation engine, to the application, to the *)
(* queue of presents, to the display, or to nobody any more; images are    *)
(* shown in the order they were queued; and only the owner gives one away. *)
(***************************************************************************)
EXTENDS Sequences, Naturals

CONSTANT Images

VARIABLES
    owner,    \* [Images -> {"engine", "app", "queue", "display", "nobody"}]
    queue     \* the images to show, oldest first

vars == <<owner, queue>>

(* A shared present mode has but one of the images.                        *)
Init == /\ owner \in [Images -> {"engine", "nobody"}]
        /\ queue = <<>>

(* vkAcquireNextImageKHR hands an image to the application. *)
Give(i) == /\ owner[i] = "engine"
           /\ owner' = [owner EXCEPT ![i] = "app"]
           /\ UNCHANGED queue

(* vkQueuePresentKHR puts one of its images at the end of the queue. *)
Enqueue(i) == /\ owner[i] = "app"
              /\ owner' = [owner EXCEPT ![i] = "queue"]
              /\ queue' = Append(queue, i)

(* The oldest queued image is shown, and is the engine's again ... *)
Show == /\ queue # <<>>
        /\ owner' = [owner EXCEPT ![Head(queue)] = "engine"]
        /\ queue' = Tail(queue)

(* ... or goes to a display that reads it, until that gives it back, in    *)
(* whatever order ...                                                      *)
Display == /\ queue # <<>>
           /\ owner' = [owner EXCEPT ![Head(queue)] = "display"]
           /\ queue' = Tail(queue)

Release(i) == /\ owner[i] = "display"
              /\ owner' = [owner EXCEPT ![i] = "engine"]
              /\ UNCHANGED queue

(* ... or is dropped because the device failed. *)
Drop == /\ queue # <<>>
        /\ owner' = [owner EXCEPT ![Head(queue)] = "nobody"]
        /\ queue' = Tail(queue)

(* The application returns an image unshown: vkReleaseSwapchainImagesEXT,  *)
(* or a present that is out of date.                                       *)
GiveBack(i) == /\ owner[i] = "app"
               /\ owner' = [owner EXCEPT ![i] = "engine"]
               /\ UNCHANGED queue

(* The engine loses an image nobody else owns: a failure, a retirement. *)
Lose(i) == /\ owner[i] = "engine"
           /\ owner' = [owner EXCEPT ![i] = "nobody"]
           /\ UNCHANGED queue

(* The swapchain is destroyed. *)
End == /\ owner' = [i \in Images |-> "nobody"]
       /\ queue' = <<>>

Next == \/ \E i \in Images : Give(i) \/ Enqueue(i) \/ Release(i) \/ GiveBack(i) \/ Lose(i)
        \/ Show \/ Display \/ Drop \/ End

Spec == Init /\ [][Next]_vars
=============================================================================
