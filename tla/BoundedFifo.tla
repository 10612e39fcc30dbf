---------------------------- MODULE BoundedFifo ----------------------------
(* What util::ring_buffer promises: a first-in first-out queue of at most N *)
(* items, whose push fails when it is full and whose pop fails when empty.  *)
EXTENDS Naturals, Sequences

CONSTANTS N, Items, None

VARIABLES
    queue,     \* the items, oldest first
    result     \* what the last operation returned

vars == <<queue, result>>

Init == /\ queue = <<>>
        /\ result = None

Push(item) ==
    \/ /\ Len(queue) < N
       /\ queue' = Append(queue, item)
       /\ result' = TRUE
    \/ /\ Len(queue) = N
       /\ UNCHANGED queue
       /\ result' = FALSE

Pop ==
    \/ /\ queue # <<>>
       /\ result' = Head(queue)
       /\ queue' = Tail(queue)
    \/ /\ queue = <<>>
       /\ UNCHANGED queue
       /\ result' = None

Next == Pop \/ \E item \in Items : Push(item)

Spec == Init /\ [][Next]_vars
=============================================================================
