-------------------------- MODULE CountingSemaphore --------------------------
(***************************************************************************)
(* What util::timed_semaphore promises its callers, with no mutex, no      *)
(* condition variable and no wake-ups: a counter and the set of threads    *)
(* that have called wait(timeout > 0) and have not returned.               *)
(***************************************************************************)
EXTENDS Naturals

CONSTANTS
    Threads,     \* the threads that may wait
    InitCount    \* the argument of init()

VARIABLES
    count,       \* posts minus successful waits
    waiting      \* [Threads -> {"no", "forever", "finite"}]

vars == <<count, waiting>>

Init == /\ count = InitCount
        /\ waiting = [t \in Threads |-> "no"]

(* post(): one more unit. *)
Post == /\ count' = count + 1
        /\ UNCHANGED waiting

(* A wait, of any timeout, that finds a unit at once. *)
Take(t) == /\ waiting[t] = "no"
           /\ count > 0
           /\ count' = count - 1
           /\ UNCHANGED waiting

(* A wait that finds none and is willing to block. *)
Block(t, kind) == /\ waiting[t] = "no"
                  /\ count = 0
                  /\ waiting' = [waiting EXCEPT ![t] = kind]
                  /\ UNCHANGED count

(* A blocked wait that obtains a unit: VK_SUCCESS. *)
Obtain(t) == /\ waiting[t] # "no"
             /\ count > 0
             /\ count' = count - 1
             /\ waiting' = [waiting EXCEPT ![t] = "no"]

(* A blocked finite wait that gives up: VK_TIMEOUT. *)
GiveUp(t) == /\ waiting[t] = "finite"
             /\ waiting' = [waiting EXCEPT ![t] = "no"]
             /\ UNCHANGED count

Next == \/ Post
        \/ \E t \in Threads : \/ Take(t)
                              \/ \E kind \in {"forever", "finite"} : Block(t, kind)
                              \/ Obtain(t)
                              \/ GiveUp(t)

Spec == Init /\ [][Next]_vars
=============================================================================
