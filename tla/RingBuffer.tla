----------------------------- MODULE RingBuffer -----------------------------
(***************************************************************************)
(* util::ring_buffer<T, N> (wsi/layer_utils/ring_buffer.hpp): an array of  *)
(* N optional slots, the index of the oldest item and the item count.  It  *)
(* holds the page flip queue of every swapchain and the idle pixmaps of    *)
(* the X11 backend.                                                        *)
(***************************************************************************)
EXTENDS Naturals, Sequences

CONSTANTS
    N,        \* the capacity, a template parameter
    Items,    \* the values stored
    None      \* std::nullopt

ASSUME RingAssumption == N \in Nat \ {0} /\ None \notin Items

VARIABLES
    data,     \* m_data: [0..N-1 -> Items \union {None}]
    begin,    \* m_begin
    size,     \* m_size
    result    \* what the last operation returned

ringVars == <<data, begin, size, result>>

Slots == 0 .. N - 1

EmptyRing == /\ data = [k \in Slots |-> None]
        /\ begin = 0
        /\ size = 0
        /\ result = None

PopStaysAtBegin ==
    IF size = 0
    THEN /\ result' = None
         /\ UNCHANGED <<data, begin, size>>
    ELSE /\ result' = data[begin]
         /\ begin' = IF begin + 1 = N THEN begin ELSE begin + 1
         /\ size' = size - 1
         /\ UNCHANGED data

PushBack(item) ==
    IF size = N
    THEN /\ result' = FALSE
         /\ UNCHANGED <<data, begin, size>>
    ELSE /\ data' = [data EXCEPT ![(begin + size) % N] = item]
         /\ size' = size + 1
         /\ result' = TRUE
         /\ UNCHANGED begin

(* The slot is moved from, and a std::optional that was moved from stays   *)
(* engaged: m_data[m_begin] keeps a value.                                 *)
PopFront ==
    IF size = 0
    THEN /\ result' = None
         /\ UNCHANGED <<data, begin, size>>
    ELSE /\ result' = data[begin]
         /\ begin' = (begin + 1) % N
         /\ size' = size - 1
         /\ UNCHANGED data

(* front() and back(): a pointer into the slot, null if it is disengaged. *)
Front == data[begin]
Back == data[(begin + size + N - 1) % N]

RingNext == PopFront \/ \E item \in Items : PushBack(item)

RingSpec == EmptyRing /\ [][RingNext]_ringVars

-----------------------------------------------------------------------------
(* Well-formed state; the occupied slots hold items. *)
RingTypeOK ==
    /\ data \in [Slots -> Items \union {None}]
    /\ begin \in Slots
    /\ size \in 0 .. N
    /\ \A k \in 0 .. N - 1 : k < size => data[(begin + k) % N] \in Items

(* The items in order, oldest first: what the indices stand for. *)
Contents == [k \in 1 .. size |-> data[(begin + (k - 1)) % N]]

Fifo == INSTANCE BoundedFifo WITH queue <- Contents

(* The index arithmetic implements a bounded first-in first-out queue:     *)
(* nothing is overwritten, lost or reordered when the indices wrap, and    *)
(* push_back and pop_front fail exactly when full and empty.               *)
ImplementsFifo == Fifo!Spec

(* While something is stored, front() and back() are the oldest and the    *)
(* newest item.                                                            *)
EndsAreRight ==
    size > 0 => Front = Contents[1] /\ Back = Contents[size]
=============================================================================
