--------------------------- MODULE PresentPathProofs ---------------------------
(***************************************************************************)
(* What TLAPS proves of two things on the way of a presented image: its    *)
(* queue to the page flip thread (RingBuffer, for every capacity and every *)
(* item set, TimedSemaphore, for every finite set of threads, and          *)
(* PageFlipQueue, which drives the two together), and the overlay that is  *)
(* drawn on it (HudRenderer, for any swapchains and images, any number of  *)
(* samples and every failure of an attach).                                *)
(***************************************************************************)
EXTENDS PageFlipQueue, HudRenderer, Integers, FiniteSetTheorems, SequenceTheorems, TLAPS

-----------------------------------------------------------------------------
(* The ring buffer, for every capacity and every item set.                 *)

(* Index arithmetic: an index below twice the capacity wraps at most once. *)
LEMMA NoWrap == ASSUME NEW i \in Slots PROVE i % N = i
BY RingAssumption, SMTT(30) DEF Slots

LEMMA OneWrap == ASSUME NEW i \in N .. 2 * N - 1 PROVE i % N = i - N
BY RingAssumption, SMTT(30)

(* The slot of the k-th stored item, and of the free slot after the last:  *)
(* always a slot, and a different one for each k below the capacity.       *)
LEMMA SlotOf ==
    ASSUME NEW b \in Slots, NEW k \in 0 .. N - 1
    PROVE  (b + k) % N = IF b + k < N THEN b + k ELSE b + k - N
BY NoWrap, OneWrap, RingAssumption DEF Slots

LEMMA SlotsDiffer ==
    ASSUME NEW b \in Slots, NEW j \in 0 .. N - 1, NEW k \in 0 .. N - 1, j # k
    PROVE  (b + j) % N # (b + k) % N
<1>1. (b + j) % N = IF b + j < N THEN b + j ELSE b + j - N
  BY SlotOf
<1>2. (b + k) % N = IF b + k < N THEN b + k ELSE b + k - N
  BY SlotOf
<1> QED
  BY <1>1, <1>2, RingAssumption DEF Slots

LEMMA SlotIsSlot ==
    ASSUME NEW b \in Slots, NEW k \in 0 .. N - 1
    PROVE  (b + k) % N \in Slots
BY SlotOf, RingAssumption DEF Slots

LEMMA NextSlot == ASSUME NEW b \in Slots PROVE (b + 1) % N \in Slots
<1>1. CASE b + 1 < N
  BY <1>1, NoWrap, RingAssumption DEF Slots
<1>2. CASE b + 1 = N
  BY <1>2, OneWrap, RingAssumption DEF Slots
<1> QED
  BY <1>1, <1>2, RingAssumption DEF Slots

(* Advancing the first slot by one shifts every later item down by one. *)
LEMMA SlotShift ==
    ASSUME NEW b \in Slots, NEW k \in 0 .. N - 1, k + 1 < N
    PROVE  (((b + 1) % N) + k) % N = (b + (k + 1)) % N
<1>1. CASE N = 1
  BY <1>1
<1>2. CASE N > 1
  <2>1. (b + 1) % N = IF b + 1 < N THEN b + 1 ELSE b + 1 - N
    BY <1>2, SlotOf, RingAssumption DEF Slots
  <2>2. (b + 1) % N \in Slots
    BY <2>1, RingAssumption DEF Slots
  <2>3. (((b + 1) % N) + k) % N
          = IF ((b + 1) % N) + k < N THEN ((b + 1) % N) + k ELSE ((b + 1) % N) + k - N
    BY <2>2, SlotOf
  <2>4. (b + (k + 1)) % N = IF b + (k + 1) < N THEN b + (k + 1) ELSE b + (k + 1) - N
    BY SlotOf, RingAssumption
  <2> QED
    BY <2>1, <2>3, <2>4, RingAssumption DEF Slots
<1> QED
  BY <1>1, <1>2, RingAssumption

(* Type correctness: the indices stay in range and every occupied slot     *)
(* holds an item, so pop_front() never returns an empty optional.          *)
THEOREM RingTypeCorrect == RingSpec => []RingTypeOK
<1>1. EmptyRing => RingTypeOK
  BY RingAssumption DEF EmptyRing, RingTypeOK, Slots
<1>2. RingTypeOK /\ [RingNext]_ringVars => RingTypeOK'
  <2> SUFFICES ASSUME RingTypeOK, [RingNext]_ringVars PROVE RingTypeOK'
    OBVIOUS
  <2> USE RingAssumption DEF RingTypeOK
  <2>1. CASE PopFront
    <3>1. CASE size = 0
      BY <2>1, <3>1 DEF PopFront
    <3>2. CASE size # 0
      <4>1. begin' \in Slots
        BY <2>1, <3>2, NextSlot DEF PopFront
      <4>2. ASSUME NEW k \in 0 .. N - 1, k < size'
            PROVE  data'[(begin' + k) % N] \in Items
        <5>1. k + 1 < N /\ k + 1 < size
          BY <2>1, <3>2, <4>2 DEF PopFront
        <5>2. (begin' + k) % N = (begin + (k + 1)) % N
          BY <2>1, <3>2, <5>1, SlotShift DEF PopFront
        <5>3. data[(begin + (k + 1)) % N] \in Items
          BY <5>1
        <5> QED
          BY <2>1, <3>2, <5>2, <5>3 DEF PopFront
      <4> QED
        BY <2>1, <3>2, <4>1, <4>2 DEF PopFront
    <3> QED
      BY <3>1, <3>2
  <2>2. ASSUME NEW item \in Items, PushBack(item)
        PROVE  RingTypeOK'
    <3>1. CASE size = N
      BY <2>2, <3>1 DEF PushBack
    <3>2. CASE size # N
      <4>1. size \in 0 .. N - 1 /\ (begin + size) % N \in Slots
        BY <3>2, SlotIsSlot
      <4>2. data' \in [Slots -> Items \union {None}]
        BY <2>2, <3>2, <4>1 DEF PushBack
      <4>3. ASSUME NEW k \in 0 .. N - 1, k < size'
            PROVE  data'[(begin' + k) % N] \in Items
        <5>1. CASE k = size
          BY <2>2, <3>2, <4>1, <5>1 DEF PushBack
        <5>2. CASE k # size
          <6>1. (begin + k) % N # (begin + size) % N
            BY <4>1, <5>2, SlotsDiffer
          <6>2. (begin + k) % N \in Slots /\ data[(begin + k) % N] \in Items
            BY <2>2, <3>2, <4>3, <5>2, SlotIsSlot DEF PushBack
          <6> QED
            BY <2>2, <3>2, <4>1, <6>1, <6>2 DEF PushBack
        <5> QED
          BY <5>1, <5>2
      <4> QED
        BY <2>2, <3>2, <4>1, <4>2, <4>3 DEF PushBack
    <3> QED
      BY <3>1, <3>2
  <2>3. CASE UNCHANGED ringVars
    BY <2>3 DEF ringVars
  <2> QED
    BY <2>1, <2>2, <2>3 DEF RingNext
<1> QED
  BY <1>1, <1>2, PTL DEF RingSpec

(* The contents are a sequence of items, as long as m_size says. *)
LEMMA ContentsType ==
    ASSUME RingTypeOK
    PROVE  /\ Contents \in Seq(Items)
           /\ Len(Contents) = size
           /\ DOMAIN Contents = 1 .. size
<1>1. \A k \in 1 .. size : data[(begin + (k - 1)) % N] \in Items
  BY RingAssumption DEF RingTypeOK
<1>2. size \in Nat
  BY RingAssumption DEF RingTypeOK
<1>3. Contents \in [1 .. size -> Items]
  BY <1>1 DEF Contents
<1> QED
  BY <1>2, <1>3

(* The ring buffer implements the bounded first-in first-out queue: the    *)
(* sequence its indices stand for changes as the queue's operations say,   *)
(* whatever wraps.                                                         *)
THEOREM FifoRefinement == RingSpec => ImplementsFifo
<1>1. EmptyRing => Fifo!Init
  <2> SUFFICES ASSUME EmptyRing PROVE Contents = <<>> /\ result = None
    BY DEF Fifo!Init
  <2> QED
    BY DEF EmptyRing, Contents
<1>2. RingTypeOK /\ RingTypeOK' /\ [RingNext]_ringVars => [Fifo!Next]_(Fifo!vars)
  <2> SUFFICES ASSUME RingTypeOK, RingTypeOK', [RingNext]_ringVars
               PROVE  Fifo!Next \/ UNCHANGED <<Contents, result>>
    BY DEF Fifo!vars
  <2> USE RingAssumption
  <2>0. /\ begin \in Slots
        /\ size \in 0 .. N
        /\ Contents \in Seq(Items)
        /\ Len(Contents) = size
        /\ DOMAIN Contents = 1 .. size
    BY ContentsType DEF RingTypeOK
  <2>1. CASE PopFront
    <3>1. CASE size = 0
      <4>1. Contents' = Contents
        BY <2>1, <3>1 DEF PopFront, Contents
      <4>2. Contents = <<>>
        BY <2>0, <3>1
      <4> QED
        BY <2>1, <3>1, <4>1, <4>2 DEF PopFront, Fifo!Next, Fifo!Pop
    <3>2. CASE size # 0
      <4>1. Contents # <<>>
        BY <2>0, <3>2
      <4>2. result' = Head(Contents)
        <5>1. (begin + (1 - 1)) % N = begin
          BY <2>0, NoWrap DEF Slots
        <5> QED
          BY <2>0, <2>1, <3>2, <5>1 DEF PopFront, Contents
      <4>3. Contents' = [k \in 1 .. size - 1 |-> data[(begin + k) % N]]
        <5>1. ASSUME NEW k \in 1 .. size - 1
              PROVE  (begin' + (k - 1)) % N = (begin + k) % N
          <6> DEFINE j == k - 1
          <6>1. j \in 0 .. N - 1 /\ j + 1 < N /\ j + 1 = k
            BY <2>0
          <6>2. (((begin + 1) % N) + j) % N = (begin + (j + 1)) % N
            BY <2>0, <6>1, SlotShift
          <6> QED
            BY <2>1, <3>2, <6>1, <6>2 DEF PopFront
        <5>2. size' = size - 1 /\ data' = data
          BY <2>1, <3>2 DEF PopFront
        <5> QED
          BY <2>0, <5>1, <5>2 DEF Contents
      <4>4. Tail(Contents) = [k \in 1 .. size - 1 |-> data[(begin + k) % N]]
        <5>1. Tail(Contents) = [k \in 1 .. size - 1 |-> Contents[k + 1]]
          <6>1. /\ Tail(Contents) \in Seq(Items)
                /\ Len(Tail(Contents)) = size - 1
                /\ \A k \in 1 .. size - 1 : Tail(Contents)[k] = Contents[k + 1]
            BY <2>0, <4>1, HeadTailProperties
          <6>2. Tail(Contents) \in [1 .. size - 1 -> Items]
            BY <6>1, LenProperties
          <6> QED
            BY <6>1, <6>2
        <5>2. \A k \in 1 .. size - 1 : Contents[k + 1] = data[(begin + k) % N]
          BY <2>0 DEF Contents
        <5> QED
          BY <5>1, <5>2
      <4> QED
        BY <4>1, <4>2, <4>3, <4>4 DEF Fifo!Next, Fifo!Pop
    <3> QED
      BY <3>1, <3>2
  <2>2. ASSUME NEW item \in Items, PushBack(item)
        PROVE  Fifo!Push(item)
    <3>1. CASE size = N
      <4>1. Contents' = Contents
        BY <2>2, <3>1 DEF PushBack, Contents
      <4> QED
        BY <2>0, <2>2, <3>1, <4>1 DEF PushBack, Fifo!Push
    <3>2. CASE size # N
      <4>1. size \in 0 .. N - 1 /\ (begin + size) % N \in Slots
        BY <2>0, <3>2, SlotIsSlot
      <4>2. size' = size + 1 /\ begin' = begin /\ result' = TRUE
        BY <2>2, <3>2 DEF PushBack
      <4>3. ASSUME NEW k \in 1 .. size
            PROVE  data'[(begin + (k - 1)) % N] = data[(begin + (k - 1)) % N]
        <5>1. (begin + (k - 1)) % N # (begin + size) % N
          BY <2>0, <4>1, SlotsDiffer
        <5>2. (begin + (k - 1)) % N \in Slots
          BY <2>0, <4>1, SlotIsSlot
        <5> QED
          BY <2>2, <3>2, <5>1, <5>2 DEF PushBack, RingTypeOK
      <4>4. data'[(begin + size) % N] = item
        BY <2>2, <3>2, <4>1 DEF PushBack, RingTypeOK
      <4>5. Contents' = [k \in 1 .. size + 1 |-> data'[(begin + (k - 1)) % N]]
        BY <4>2 DEF Contents
      <4>6. Append(Contents, item)
              = [k \in 1 .. size + 1 |-> IF k = size + 1 THEN item ELSE Contents[k]]
        <5> DEFINE longer == Append(Contents, item)
        <5>1. /\ longer \in Seq(Items)
              /\ Len(longer) = size + 1
              /\ \A k \in 1 .. size : longer[k] = Contents[k]
              /\ longer[size + 1] = item
          BY <2>0, AppendProperties
        <5>2. longer \in [1 .. size + 1 -> Items]
          BY <5>1, LenProperties
        <5> HIDE DEF longer
        <5>3. \A k \in 1 .. size + 1 :
                longer[k] = IF k = size + 1 THEN item ELSE Contents[k]
          BY <2>0, <5>1
        <5>4. longer = [k \in 1 .. size + 1 |-> IF k = size + 1 THEN item ELSE Contents[k]]
          BY <5>2, <5>3
        <5> QED
          BY <5>4 DEF longer
      <4>7. \A k \in 1 .. size + 1 :
              data'[(begin + (k - 1)) % N] = IF k = size + 1 THEN item ELSE Contents[k]
        <5> SUFFICES ASSUME NEW k \in 1 .. size + 1
                     PROVE  data'[(begin + (k - 1)) % N]
                              = IF k = size + 1 THEN item ELSE Contents[k]
          OBVIOUS
        <5>1. CASE k = size + 1
          <6>1. k - 1 = size
            BY <2>0, <5>1
          <6> QED
            BY <4>4, <5>1, <6>1
        <5>2. CASE k # size + 1
          BY <2>0, <4>3, <5>2 DEF Contents
        <5> QED
          BY <5>1, <5>2
      <4>8. Contents' = Append(Contents, item)
        BY <4>5, <4>6, <4>7
      <4> QED
        BY <2>0, <4>1, <4>2, <4>8 DEF Fifo!Push
    <3> QED
      BY <3>1, <3>2
  <2>3. CASE UNCHANGED ringVars
    BY <2>3 DEF ringVars, Contents
  <2> QED
    BY <2>1, <2>2, <2>3 DEF RingNext, Fifo!Next
<1> QED
  BY <1>1, <1>2, RingTypeCorrect, PTL DEF RingSpec, ImplementsFifo, Fifo!Spec

(* front() and back() point at the oldest and the newest item whenever     *)
(* something is stored, wherever the indices are.                          *)
THEOREM EndsCorrect == RingSpec => []EndsAreRight
<1>1. RingTypeOK => EndsAreRight
  <2> SUFFICES ASSUME RingTypeOK, size > 0
               PROVE  Front = Contents[1] /\ Back = Contents[size]
    BY DEF EndsAreRight
  <2> USE RingAssumption
  <2>0. begin \in Slots /\ size \in 1 .. N
    BY DEF RingTypeOK
  <2>1. (begin + (1 - 1)) % N = begin
    BY <2>0, NoWrap DEF Slots
  <2>2. (begin + size + N - 1) % N = (begin + (size - 1)) % N
    <3> DEFINE i == begin + size - 1
    <3>0. i \in 0 .. 2 * N - 2 /\ begin + size + N - 1 = i + N /\ begin + (size - 1) = i
      BY <2>0 DEF Slots
    <3>1. (i + N) % N = i % N
      BY <3>0, SMTT(30)
    <3> QED
      BY <3>0, <3>1
  <2> QED
    BY <2>0, <2>1, <2>2 DEF Front, Back, Contents
<1> QED
  BY <1>1, RingTypeCorrect, PTL


-----------------------------------------------------------------------------
(* The semaphore, and the page flip queue.                                 *)

(* Type correctness: the three stages of a blocked wait never overlap, and *)
(* m_count never goes below zero.                                          *)
THEOREM TypeCorrect == Spec => []TypeOK
<1>1. Init => TypeOK
  BY SemaphoreAssumption DEF Init, TypeOK
<1>2. TypeOK /\ [Next]_vars => TypeOK'
  <2> SUFFICES ASSUME TypeOK, [Next]_vars PROVE TypeOK'
    OBVIOUS
  <2> USE DEF TypeOK, InWait
  <2>1. CASE Post
    BY <2>1 DEF Post
  <2>2. ASSUME NEW t \in Threads, WaitTakes(t) PROVE TypeOK'
    BY <2>2 DEF WaitTakes
  <2>3. ASSUME NEW t \in Threads, NEW finite \in BOOLEAN, WaitSleeps(t, finite)
        PROVE  TypeOK'
    BY <2>3 DEF WaitSleeps
  <2>4. ASSUME NEW t \in Threads, SpuriousWakeup(t) PROVE TypeOK'
    BY <2>4 DEF SpuriousWakeup
  <2>5. ASSUME NEW t \in Threads, DeadlinePasses(t) PROVE TypeOK'
    BY <2>5 DEF DeadlinePasses
  <2>6. ASSUME NEW t \in Threads, RecheckTakes(t) PROVE TypeOK'
    BY <2>6 DEF RecheckTakes
  <2>7. ASSUME NEW t \in Threads, RecheckSleeps(t) PROVE TypeOK'
    BY <2>7 DEF RecheckSleeps
  <2>8. ASSUME NEW t \in Threads, ReturnTimeout(t) PROVE TypeOK'
    BY <2>8 DEF ReturnTimeout
  <2>9. CASE UNCHANGED vars
    BY <2>9 DEF vars
  <2> QED
    BY <2>1, <2>2, <2>3, <2>4, <2>5, <2>6, <2>7, <2>8, <2>9 DEF Next, Recheck
<1> QED
  BY <1>1, <1>2, PTL DEF Spec

(* A set of threads is finite, so that it can be counted. *)
LEMMA ThreadsCountable ==
    ASSUME NEW S \in SUBSET Threads
    PROVE  IsFiniteSet(S) /\ Cardinality(S) \in Nat
BY SemaphoreAssumption, FS_Subset, FS_CardinalityType

(* No lost wake-up: for any number of threads, while one sleeps every unit *)
(* has a signalled thread on its way to it.                                *)
THEOREM NoWakeupIsLost == Spec => []NoLostWakeup
<1>1. Init => NoLostWakeup
  BY DEF Init, NoLostWakeup
<1>2. TypeOK /\ TypeOK' /\ NoLostWakeup /\ [Next]_vars => NoLostWakeup'
  <2> SUFFICES ASSUME TypeOK, TypeOK', NoLostWakeup, [Next]_vars
               PROVE  NoLostWakeup'
    OBVIOUS
  <2>0. /\ IsFiniteSet(woken)
        /\ Cardinality(woken) \in Nat
        /\ Cardinality(woken') \in Nat
    BY ThreadsCountable DEF TypeOK
  <2>a. ASSUME NEW t \in Threads, t \notin woken, woken' = woken \union {t}
        PROVE  Cardinality(woken') = Cardinality(woken) + 1
    BY <2>a, <2>0, FS_AddElement
  <2>b. ASSUME NEW t \in Threads, t \in woken, woken' = woken \ {t}
        PROVE  Cardinality(woken') = Cardinality(woken) - 1
    BY <2>b, <2>0, FS_RemoveElement
  <2> USE DEF NoLostWakeup, TypeOK, InWait
  <2>1. CASE Post
    <3>1. CASE waiters = {}
      BY <2>1, <3>1 DEF Post
    <3>2. CASE waiters # {}
      <4>1. PICK t \in waiters : waiters' = waiters \ {t} /\ woken' = woken \union {t}
        BY <2>1, <3>2 DEF Post
      <4>2. Cardinality(woken') = Cardinality(woken) + 1
        BY <4>1, <2>a
      <4> QED
        BY <4>2, <2>0, <2>1, <3>2 DEF Post
    <3> QED
      BY <3>1, <3>2
  <2>2. ASSUME NEW t \in Threads, WaitTakes(t) PROVE NoLostWakeup'
    BY <2>2, <2>0 DEF WaitTakes
  <2>3. ASSUME NEW t \in Threads, NEW finite \in BOOLEAN, WaitSleeps(t, finite)
        PROVE  NoLostWakeup'
    BY <2>3, <2>0 DEF WaitSleeps
  <2>4. ASSUME NEW t \in Threads, SpuriousWakeup(t) PROVE NoLostWakeup'
    <3>1. Cardinality(woken') = Cardinality(woken) + 1
      BY <2>4, <2>a DEF SpuriousWakeup
    <3> QED
      BY <3>1, <2>4, <2>0 DEF SpuriousWakeup
  <2>5. ASSUME NEW t \in Threads, DeadlinePasses(t) PROVE NoLostWakeup'
    BY <2>5, <2>0 DEF DeadlinePasses
  <2>6. ASSUME NEW t \in Threads, RecheckTakes(t) PROVE NoLostWakeup'
    <3>1. Cardinality(woken') = Cardinality(woken) - 1
      BY <2>6, <2>b DEF RecheckTakes
    <3> QED
      BY <3>1, <2>6, <2>0 DEF RecheckTakes
  <2>7. ASSUME NEW t \in Threads, RecheckSleeps(t) PROVE NoLostWakeup'
    BY <2>7, <2>0 DEF RecheckSleeps
  <2>8. ASSUME NEW t \in Threads, ReturnTimeout(t) PROVE NoLostWakeup'
    BY <2>8, <2>0 DEF ReturnTimeout
  <2>9. CASE UNCHANGED vars
    BY <2>9 DEF vars
  <2> QED
    BY <2>1, <2>2, <2>3, <2>4, <2>5, <2>6, <2>7, <2>8, <2>9 DEF Next, Recheck
<1> QED
  BY <1>1, <1>2, TypeCorrect, PTL DEF Spec

(* VK_TIMEOUT is only ever returned to a wait that had a deadline: the     *)
(* strengthening the refinement needs.                                     *)
OnlyDeadlinesExpire == \A t \in expired : deadline[t]

THEOREM TimeoutsHaveDeadlines == Spec => []OnlyDeadlinesExpire
<1>1. Init => OnlyDeadlinesExpire
  BY DEF Init, OnlyDeadlinesExpire
<1>2. TypeOK /\ OnlyDeadlinesExpire /\ [Next]_vars => OnlyDeadlinesExpire'
  BY DEF TypeOK, OnlyDeadlinesExpire, Next, vars, InWait, Post, WaitTakes, WaitSleeps,
         SpuriousWakeup, DeadlinePasses, Recheck, RecheckTakes, RecheckSleeps, ReturnTimeout
<1> QED
  BY <1>1, <1>2, TypeCorrect, PTL DEF Spec

(* The condition variable code implements the abstract counting semaphore: *)
(* its sleeping, signalled and expired threads are one set of blocked      *)
(* waits, and moving between them is invisible.                            *)
THEOREM SemaphoreRefinement == Spec => ImplementsSemaphore
<1>1. Init => Abstract!Init
  BY DEF Init, Abstract!Init, AbstractWaiting, InWait
<1>2. TypeOK /\ OnlyDeadlinesExpire /\ [Next]_vars => [Abstract!Next]_(Abstract!vars)
  <2> SUFFICES ASSUME TypeOK, OnlyDeadlinesExpire, [Next]_vars
               PROVE  Abstract!Next \/ UNCHANGED <<count, AbstractWaiting>>
    BY DEF Abstract!vars
  <2> USE DEF TypeOK, AbstractWaiting, InWait
  <2>1. CASE Post
    <3>1. AbstractWaiting' = AbstractWaiting
      BY <2>1 DEF Post
    <3> QED
      BY <2>1, <3>1 DEF Post, Abstract!Next, Abstract!Post
  <2>2. ASSUME NEW t \in Threads, WaitTakes(t)
        PROVE  Abstract!Take(t)
    BY <2>2 DEF WaitTakes, Abstract!Take
  <2>3. ASSUME NEW t \in Threads, NEW finite \in BOOLEAN, WaitSleeps(t, finite)
        PROVE  Abstract!Block(t, IF finite THEN "finite" ELSE "forever")
    BY <2>3 DEF WaitSleeps, Abstract!Block
  <2>4. ASSUME NEW t \in Threads, SpuriousWakeup(t)
        PROVE  UNCHANGED <<count, AbstractWaiting>>
    BY <2>4 DEF SpuriousWakeup
  <2>5. ASSUME NEW t \in Threads, DeadlinePasses(t)
        PROVE  UNCHANGED <<count, AbstractWaiting>>
    BY <2>5 DEF DeadlinePasses
  <2>6. ASSUME NEW t \in Threads, RecheckTakes(t)
        PROVE  Abstract!Obtain(t)
    BY <2>6 DEF RecheckTakes, Abstract!Obtain
  <2>7. ASSUME NEW t \in Threads, RecheckSleeps(t)
        PROVE  UNCHANGED <<count, AbstractWaiting>>
    BY <2>7 DEF RecheckSleeps
  <2>8. ASSUME NEW t \in Threads, ReturnTimeout(t)
        PROVE  Abstract!GiveUp(t)
    BY <2>8 DEF ReturnTimeout, Abstract!GiveUp, OnlyDeadlinesExpire
  <2>9. CASE UNCHANGED vars
    BY <2>9 DEF vars
  <2> QED
    BY <2>1, <2>2, <2>3, <2>4, <2>5, <2>6, <2>7, <2>8, <2>9
       DEF Next, Recheck, Abstract!Next
<1> QED
  BY <1>1, <1>2, TypeCorrect, TimeoutsHaveDeadlines, PTL DEF Spec, ImplementsSemaphore, Abstract!Spec

-----------------------------------------------------------------------------
(* A thread of the queue uses the semaphore and the ring buffer only       *)
(* through their operations.                                               *)
LEMMA QueueSteps == ASSUME [QueueNext]_allVars PROVE [Next]_vars /\ [RingNext]_ringVars
<1>1. ASSUME NEW t \in Threads, NEW item \in Items, PushRequest(t, item)
      PROVE  [Next]_vars /\ [RingNext]_ringVars
  BY <1>1 DEF PushRequest, RingNext
<1>2. ASSUME NEW t \in Threads, PostRequest(t)
      PROVE  [Next]_vars /\ [RingNext]_ringVars
  BY <1>2 DEF PostRequest, Next
<1>3. ASSUME NEW t \in Threads, WaitForRequest(t)
      PROVE  [Next]_vars /\ [RingNext]_ringVars
  BY <1>3 DEF WaitForRequest, Next, Recheck
<1>4. ASSUME NEW t \in Threads, PopRequest(t)
      PROVE  [Next]_vars /\ [RingNext]_ringVars
  BY <1>4 DEF PopRequest, RingNext
<1>5. CASE PushInVain
  BY <1>5 DEF PushInVain, RingNext
<1>6. CASE PopInVain
  BY <1>6 DEF PopInVain, RingNext
<1>7. CASE UNCHANGED allVars
  BY <1>7 DEF allVars, vars, ringVars
<1> QED
  BY <1>1, <1>2, <1>3, <1>4, <1>5, <1>6, <1>7 DEF QueueNext

(* Whatever was proved of the two utilities alone holds of the queue that  *)
(* is made of them: neither is used outside its own specification.         *)
THEOREM QueueUsesItsParts == QueueSpec => Spec /\ RingSpec
<1>1. QueueInit => Init /\ EmptyRing
  BY DEF QueueInit
<1>2. [QueueNext]_allVars => [Next]_vars /\ [RingNext]_ringVars
  BY QueueSteps
<1> QED
  BY <1>1, <1>2, PTL DEF QueueSpec, Spec, RingSpec

(* The queue keeps no unit beside an unsignalled sleeper, and its two      *)
(* halves implement a counting semaphore and a bounded queue.              *)
THEOREM QueueIsCorrect ==
    QueueSpec => []NoLostWakeup /\ ImplementsSemaphore /\ ImplementsFifo
BY QueueUsesItsParts, NoWakeupIsLost, SemaphoreRefinement, FifoRefinement, PTL

(* RequestIsThere, and its other half: a request that is pushed and not    *)
(* yet posted has no unit, and its thread still holds the mutex.           *)
QueueInv ==
    /\ mutex \in Threads \union {None}
    /\ taking \subseteq Threads
    /\ mutex = None => size = count + Cardinality(taking)
    /\ mutex # None => size = count + Cardinality(taking) + 1

(* Only WaitForRequest and PopRequest move a thread in and out of taking,  *)
(* one at a time.                                                          *)
LEMMA OneMoreTaking ==
    ASSUME NEW t \in Threads, taking \subseteq Threads, t \notin taking,
           taking' = taking \union {t}
    PROVE  Cardinality(taking') = Cardinality(taking) + 1
BY ThreadsCountable, FS_AddElement

LEMMA OneLessTaking ==
    ASSUME NEW t \in taking, taking \subseteq Threads, taking' = taking \ {t}
    PROVE  Cardinality(taking') = Cardinality(taking) - 1
BY ThreadsCountable, FS_RemoveElement

(* Every step keeps requests and units in agreement. *)
LEMMA QueueInvKept ==
    ASSUME TypeOK, RingTypeOK, QueueInv, [QueueNext]_allVars PROVE QueueInv'
<1>0. count \in Nat /\ size \in Nat /\ size =< N /\ N \in Nat \ {0}
      /\ Cardinality(taking) \in Nat
  BY RingAssumption, ThreadsCountable DEF TypeOK, RingTypeOK, QueueInv
<1>1. ASSUME NEW t \in Threads, NEW item \in Items, PushRequest(t, item) PROVE QueueInv'
  BY <1>1, <1>0, QueueAssumption DEF PushRequest, PushBack, QueueInv, vars
<1>2. ASSUME NEW t \in Threads, PostRequest(t) PROVE QueueInv'
  BY <1>2, <1>0, QueueAssumption DEF PostRequest, Post, QueueInv, ringVars
<1>3. ASSUME NEW t \in Threads, WaitForRequest(t) PROVE QueueInv'
  <2>1. CASE (WaitTakes(t) \/ RecheckTakes(t)) /\ taking' = taking \union {t}
    <3>1. Cardinality(taking') = Cardinality(taking) + 1
      BY <1>3, <2>1, OneMoreTaking DEF WaitForRequest, QueueInv
    <3>2. count' = count - 1
      BY <2>1 DEF WaitTakes, RecheckTakes
    <3> QED
      BY <1>3, <2>1, <3>1, <3>2, <1>0 DEF WaitForRequest, QueueInv, ringVars
  <2>2. CASE taking' = taking /\ count' = count
    BY <1>3, <2>2 DEF WaitForRequest, QueueInv, ringVars
  <2> QED
    BY <1>3, <2>1, <2>2
       DEF WaitForRequest, WaitSleeps, SpuriousWakeup, DeadlinePasses, RecheckSleeps,
           ReturnTimeout
<1>4. ASSUME NEW t \in Threads, PopRequest(t) PROVE QueueInv'
  <2>1. Cardinality(taking') = Cardinality(taking) - 1
    BY <1>4, OneLessTaking DEF PopRequest, QueueInv
  <2>2. Cardinality(taking') \in Nat
    BY <1>4, ThreadsCountable DEF PopRequest, QueueInv
  <2>3. size' = size - 1
    BY <1>4, <1>0, <2>1, <2>2 DEF PopRequest, PopFront, QueueInv
  <2> QED
    BY <1>4, <1>0, <2>1, <2>3 DEF PopRequest, QueueInv, vars
<1>5. CASE PushInVain
  BY <1>5 DEF PushInVain, PushBack, QueueInv, vars, queueVars
<1>6. CASE PopInVain
  BY <1>6 DEF PopInVain, PopFront, QueueInv, vars, queueVars
<1>7. CASE UNCHANGED allVars
  BY <1>7 DEF allVars, vars, ringVars, queueVars, QueueInv
<1> QED
  BY <1>1, <1>2, <1>3, <1>4, <1>5, <1>6, <1>7 DEF QueueNext

(* The assertion of page_flip_thread(), for any number of threads and any  *)
(* capacity: who got a unit finds a request in the pool.                   *)
THEOREM RequestIsAlwaysThere == QueueSpec => []RequestIsThere
<1>1. QueueInit => QueueInv
  BY SemaphoreAssumption, QueueAssumption, FS_EmptySet
     DEF QueueInit, Init, EmptyRing, QueueInv
<1>2. TypeOK /\ RingTypeOK /\ QueueInv /\ [QueueNext]_allVars => QueueInv'
  BY QueueInvKept
<1>3. TypeOK /\ RingTypeOK /\ QueueInv => RequestIsThere
  <2> SUFFICES ASSUME TypeOK, RingTypeOK, QueueInv PROVE RequestIsThere
    OBVIOUS
  <2>1. Cardinality(taking) \in Nat /\ count \in Nat /\ size \in Nat
    BY ThreadsCountable, RingAssumption DEF QueueInv, TypeOK, RingTypeOK
  <2> QED
    BY <2>1 DEF QueueInv, RequestIsThere
<1> QED
  BY <1>1, <1>2, <1>3, QueueUsesItsParts, TypeCorrect, RingTypeCorrect, PTL DEF QueueSpec
-----------------------------------------------------------------------------
(* The HUD.                                                                *)

(* A publication is being written exactly while its generation is odd; no  *)
(* word is older than the last sample whose writing has ended.             *)
Publication ==
    /\ sampler.pc = "storing" <=> generation % 2 = 1
    /\ \A w \in Words : words[w] >= generation \div 2

(* What a word and the generation may be next.                             *)
LEMMA Halves ==
    ASSUME NEW n \in Nat
    PROVE  /\ n \div 2 \in Nat /\ n % 2 \in {0, 1}
           /\ n % 2 = 0 => (n + 1) % 2 = 1
           /\ n % 2 = 1 => (n + 1) % 2 = 0
           /\ n % 2 = 0 => (n + 1) \div 2 = n \div 2
           /\ n % 2 = 1 => (n + 1) \div 2 = n \div 2 + 1
           /\ n < 2 * MaxSamples => n \div 2 + 1 =< MaxSamples
           /\ n % 2 = 1 /\ n =< 2 * MaxSamples => n < 2 * MaxSamples
           /\ \A m \in Nat : m =< n => m \div 2 =< n \div 2
BY HudAssumption

(* The records stay a sequence of swapchains.                              *)
LEMMA WithoutIsRecords ==
    ASSUME records \in Seq(Swapchains), NEW s \in Swapchains
    PROVE  Without(s) \in Seq(Swapchains)
<1>1. CASE \A k \in DOMAIN records : records[k] # s
  BY <1>1 DEF Without
<1>2. CASE \E k \in DOMAIN records : records[k] = s
  <2> DEFINE gone == CHOOSE k \in DOMAIN records : records[k] = s
  <2>1. gone \in 1 .. Len(records)
    BY <1>2, LenProperties
  <2>2. Without(s) = [k \in 1 .. Len(records) - 1 |-> records[IF k < gone THEN k ELSE k + 1]]
    BY <1>2 DEF Without
  <2>3. Len(records) \in Nat /\ Len(records) > 0
    BY <2>1, LenProperties
  <2> HIDE DEF gone
  <2>4. \A k \in 1 .. Len(records) - 1 : records[IF k < gone THEN k ELSE k + 1] \in Swapchains
    BY <2>1, <2>3, ElementOfSeq
  <2> QED
    BY <2>2, <2>3, <2>4, IsASeq
<1> QED
  BY <1>1, <1>2

(* A registered swapchain makes the records a sequence that is not empty.  *)
LEMMA AppendIsNotEmpty ==
    ASSUME records \in Seq(Swapchains), NEW s \in Swapchains
    PROVE  Append(records, s) \in Seq(Swapchains) /\ Append(records, s) # <<>>
BY AppendProperties, EmptySeq, LenProperties

(* Whatever a reader loads next, its copy stays a copy.                    *)
LEMMA NotReadingShape == NotReading \in Readings
BY HudAssumption DEF NotReading, Readings, Loads

(* A load leaves a well-formed copy.                                       *)
LEMMA LoadKeepsShape ==
    ASSUME RuntimeShape, NEW s \in Swapchains, NEW l \in Loads
    PROVE  Reads(s, l) \in Readings
<1>1. reading[s] \in Readings /\ generation \in 0 .. 2 * MaxSamples
  BY DEF RuntimeShape
<1>2. l # 0 => l \in Words /\ words[l] \in 0 .. MaxSamples
  BY DEF RuntimeShape, Loads
<1> QED
  BY <1>1, <1>2 DEF Readings, Reads

(* Type correctness of the runtime, with the parity of the generation.     *)
LEMMA RuntimeStep ==
    ASSUME RuntimeShape, Publication, [HudNext]_hudVars
    PROVE  RuntimeShape' /\ Publication'
<1>0. MaxSamples \in Nat
  BY HudAssumption
<1>b. generation \in 0 .. 2 * MaxSamples
  BY DEF RuntimeShape
<1>a. generation \in Nat /\ generation =< 2 * MaxSamples /\ generation + 1 \in Nat
  BY <1>0, <1>b
<1>1. CASE Sampler /\ PublishBegins
  <2>1. CASE generation < 2 * MaxSamples
    <3>1. /\ generation' \in 0 .. 2 * MaxSamples
          /\ generation' % 2 = 1 /\ generation' \div 2 = generation \div 2
          /\ sampler' = [sampler EXCEPT !.pc = "storing"]
      BY <1>1, <2>1, <1>0, <1>a, Halves DEF Sampler, PublishBegins, SamplerTo, Publication
    <3>2. sampler' \in Samplers /\ sampler'.pc = "storing"
      BY <3>1 DEF RuntimeShape, Samplers
    <3>4. UNCHANGED <<pc, records, primary, lifecycle, words, reading>>
      BY <1>1 DEF Sampler, PublishBegins
    <3>3. Publication'
      BY <3>1, <3>2, <3>4 DEF Publication
    <3> QED
      BY <3>1, <3>2, <3>3, <3>4 DEF RuntimeShape
  <2>2. CASE ~(generation < 2 * MaxSamples)
    BY <1>1, <2>2, <1>0, <1>a, ZenonT(40)
       DEF Sampler, PublishBegins, SamplerTo, rendererVars, RuntimeShape, Samplers, Publication
  <2> QED
    BY <2>1, <2>2
<1>2. CASE Sampler /\ StoreWord
  <2>1. generation < 2 * MaxSamples
    BY <1>2, <1>0, <1>a, Halves DEF Sampler, StoreWord, Publication
  <2>4. NextSample \in 0 .. MaxSamples /\ NextSample >= generation \div 2
    BY <2>1, <1>0, <1>a, Halves DEF NextSample
  <2>2. words' \in [Words -> 0 .. MaxSamples]
    BY <1>2, <2>4 DEF Sampler, StoreWord, RuntimeShape
  <2>5. PICK w \in Words : words' = [words EXCEPT ![w] = NextSample]
    BY <1>2 DEF Sampler, StoreWord
  <2>6. UNCHANGED <<sampler, generation>>
    BY <1>2 DEF Sampler, StoreWord
  <2>7. \A v \in Words : words'[v] >= generation \div 2
    BY <2>4, <2>5 DEF RuntimeShape, Publication
  <2>3. Publication'
    BY <2>6, <2>7 DEF Publication
  <2> QED
    BY <1>2, <2>2, <2>3 DEF Sampler, StoreWord, rendererVars, RuntimeShape
<1>3. CASE Sampler /\ PublishEnds
  <2>1. /\ generation + 1 =< 2 * MaxSamples
        /\ (generation + 1) % 2 = 0 /\ (generation + 1) \div 2 = generation \div 2 + 1
    BY <1>3, <1>0, <1>a, Halves DEF Sampler, PublishEnds, Publication
  <2>5. \A w \in Words : words[w] >= generation \div 2 + 1
    BY <1>3, <1>a, Halves DEF Sampler, PublishEnds, NextSample
  <2>2. generation' \in 0 .. 2 * MaxSamples
    BY <1>3, <2>1, <1>0, <1>a DEF Sampler, PublishEnds
  <2>3. sampler' \in Samplers /\ sampler'.pc = "published"
    BY <1>3 DEF Sampler, PublishEnds, SamplerTo, RuntimeShape, Samplers
  <2>4. Publication'
    BY <1>3, <2>1, <2>3, <2>5 DEF Sampler, PublishEnds, Publication
  <2> QED
    BY <1>3, <2>2, <2>3, <2>4 DEF Sampler, PublishEnds, rendererVars, RuntimeShape
<1>4. CASE Sampler /\ TestStopping
  BY <1>4 DEF Sampler, TestStopping, SamplerTo, rendererVars, RuntimeShape, Samplers, Publication
<1>5. CASE Sampler /\ FallAsleep
  BY <1>5 DEF Sampler, FallAsleep, SamplerTo, rendererVars, RuntimeShape, Samplers, Publication
<1>6. CASE Sampler /\ IntervalEnds
  BY <1>6 DEF Sampler, IntervalEnds, SamplerTo, rendererVars, RuntimeShape, Samplers, Publication
<1>7. CASE Sampler /\ SampleAgain
  BY <1>7 DEF Sampler, SampleAgain, SamplerTo, rendererVars, RuntimeShape, Samplers, Publication
<1>8. ASSUME NEW s \in Swapchains, AcquireShared(s) PROVE RuntimeShape' /\ Publication'
  BY <1>8 DEF AcquireShared, Goto, unchangedRuntime, RuntimeShape, Publication
<1>9. ASSUME NEW s \in Swapchains, CreateObjects(s) PROVE RuntimeShape' /\ Publication'
  BY <1>9 DEF CreateObjects, Goto, unchangedRuntime, RuntimeShape, Publication
<1>10. ASSUME NEW s \in Swapchains, Register(s) PROVE RuntimeShape' /\ Publication'
  <2>1. records' \in Seq(Swapchains)
    BY <1>10, AppendIsNotEmpty DEF Register, RegisterSwapchain, RuntimeShape
  <2>2. sampler' \in Samplers /\ (sampler'.pc = "storing" <=> sampler.pc = "storing")
    <3>1. CASE sampler' = sampler
      BY <3>1 DEF RuntimeShape
    <3>2. CASE sampler' \in Started
      <4>1. CASE sampler.pc # "none"
        BY <3>2, <4>1 DEF Started, RuntimeShape
      <4>2. CASE sampler.pc = "none"
        <5>1. sampler' \in {[pc |-> "reading", stopping |-> FALSE, sources |-> TRUE],
                           [pc |-> "none", stopping |-> FALSE, sources |-> FALSE]}
          BY <3>2, <4>2 DEF Started
        <5>2. CASE sampler' = [pc |-> "reading", stopping |-> FALSE, sources |-> TRUE]
          BY <5>2, <4>2 DEF Samplers
        <5>3. CASE sampler' = [pc |-> "none", stopping |-> FALSE, sources |-> FALSE]
          BY <5>3, <4>2 DEF Samplers
        <5> QED
          BY <5>1, <5>2, <5>3
      <4> QED
        BY <4>1, <4>2
    <3> QED
      BY <1>10, <3>1, <3>2 DEF Register, RegisterSwapchain
  <2>3. Publication'
    BY <1>10, <2>2 DEF Register, RegisterSwapchain, Publication
  <2> QED
    BY <1>10, <2>1, <2>2, <2>3 DEF Register, RegisterSwapchain, rendererVars, RuntimeShape
<1>11. ASSUME NEW s \in Swapchains, Prepare(s) PROVE RuntimeShape' /\ Publication'
  BY <1>11 DEF Prepare, Goto, unchangedRuntime, rendererVars, RuntimeShape, Publication
<1>12. ASSUME NEW s \in Swapchains, ReadSnapshot(s) /\ LoadBefore(s) PROVE RuntimeShape' /\ Publication'
  <2>1. [NotReading EXCEPT !.before = generation, !.left = Loads] \in Readings
    BY <1>b, NotReadingShape DEF Readings
  <2> QED
    BY <1>12, <2>1 DEF ReadSnapshot, LoadBefore, rendererVars, RuntimeShape, Publication
<1>13. ASSUME NEW s \in Swapchains, ReadSnapshot(s) /\ Load(s) PROVE RuntimeShape' /\ Publication'
  <2>1. \E r \in Readings : reading' = [reading EXCEPT ![s] = r]
    <3>1. reading[s].left \subseteq Loads
      BY DEF RuntimeShape, Readings
    <3> QED
      BY <1>13, <3>1, LoadKeepsShape DEF ReadSnapshot, Load
  <2> QED
    BY <1>13, <2>1 DEF ReadSnapshot, Load, rendererVars, RuntimeShape, Publication
<1>14. ASSUME NEW s \in Swapchains, ReadSnapshot(s) /\ LastLoad(s, "compare") PROVE RuntimeShape' /\ Publication'
  <2>1. \E r \in Readings : reading' = [reading EXCEPT ![s] = r]
    BY <1>14, LoadKeepsShape DEF ReadSnapshot, LastLoad
  <2> QED
    BY <1>14, <2>1 DEF ReadSnapshot, LastLoad, rendererVars, RuntimeShape, Publication
<1>15. ASSUME NEW s \in Swapchains, Compare(s) PROVE RuntimeShape' /\ Publication'
  <2>1. reading' \in [Swapchains -> Readings]
    BY <1>15, <1>0, NotReadingShape DEF Compare, RuntimeShape
  <2> QED
    BY <1>15, <2>1 DEF Compare, Goto, rendererVars, RuntimeShape, Publication
<1>16. ASSUME NEW s \in Swapchains, Rebuild(s) PROVE RuntimeShape' /\ Publication'
  <2>1. reading' \in [Swapchains -> Readings]
    BY <1>16, <1>0, NotReadingShape DEF Rebuild, RuntimeShape
  <2> QED
    BY <1>16, <2>1 DEF Rebuild, Goto, RuntimeShape, Publication
<1>17. ASSUME NEW s \in Swapchains, Submit(s) PROVE RuntimeShape' /\ Publication'
  BY <1>17 DEF Submit, Goto, unchangedRuntime, RuntimeShape, Publication
<1>18. ASSUME NEW s \in Swapchains, WaitQueueIdle(s) PROVE RuntimeShape' /\ Publication'
  BY <1>18 DEF WaitQueueIdle, Goto, unchangedRuntime, rendererVars, RuntimeShape, Publication
<1>19. ASSUME NEW s \in Swapchains, Unregister(s) /\ UnregisterSwapchain(s, "destruct") PROVE RuntimeShape' /\ Publication'
  <2>1. records' \in Seq(Swapchains)
    BY <1>19, WithoutIsRecords DEF Unregister, UnregisterSwapchain, RuntimeShape
  <2> QED
    BY <1>19, <2>1 DEF Unregister, UnregisterSwapchain, rendererVars, RuntimeShape, Samplers, Publication
<1>20. ASSUME NEW s \in Swapchains, Unregister(s) /\ NotifySampler(s) PROVE RuntimeShape' /\ Publication'
  BY <1>20 DEF Unregister, NotifySampler, rendererVars, RuntimeShape, Samplers, Publication
<1>21. ASSUME NEW s \in Swapchains, Unregister(s) /\ JoinSampler(s, "destruct") PROVE RuntimeShape' /\ Publication'
  BY <1>21 DEF Unregister, JoinSampler, rendererVars, RuntimeShape, Samplers, Publication
<1>22. ASSUME NEW s \in Swapchains, Destruct(s) PROVE RuntimeShape' /\ Publication'
  BY <1>22 DEF Destruct, Goto, unchangedRuntime, RuntimeShape, Publication
<1>23. ASSUME NEW s \in Swapchains, FreeSwapchain(s) PROVE RuntimeShape' /\ Publication'
  BY <1>23 DEF FreeSwapchain, Goto, unchangedRuntime, rendererVars, RuntimeShape, Publication
<1>24. ASSUME NEW s \in Swapchains, NEW i \in Images, AcquireImage(s, i) PROVE RuntimeShape' /\ Publication'
  BY <1>24 DEF AcquireImage, runtimeVars, RuntimeShape, Publication
<1>25. ASSUME NEW s \in Swapchains, NEW i \in Images, QueuePresent(s, i) PROVE RuntimeShape' /\ Publication'
  BY <1>25 DEF QueuePresent, PayloadIsOver, Goto, unchangedRuntime, RuntimeShape, Publication
<1>26. ASSUME NEW s \in Swapchains, NEW i \in Images, Present(s, i) PROVE RuntimeShape' /\ Publication'
  BY <1>26 DEF Present, runtimeVars, RuntimeShape, Publication
<1>27. ASSUME NEW s \in Swapchains, NEW i \in Images, GpuFinishes(s, i) PROVE RuntimeShape' /\ Publication'
  BY <1>27 DEF GpuFinishes, runtimeVars, RuntimeShape, Publication
<1>28. CASE UNCHANGED hudVars
  BY <1>28 DEF hudVars, runtimeVars, rendererVars, RuntimeShape, Publication
<1> QED
  BY <1>1, <1>2, <1>3, <1>4, <1>5, <1>6, <1>7, <1>8, <1>9, <1>10, <1>11, <1>12, <1>13, <1>14, <1>15, <1>16, <1>17, <1>18, <1>19, <1>20, <1>21, <1>22, <1>23, <1>24, <1>25, <1>26, <1>27, <1>28
     DEF HudNext, Sampler, SamplerStep, SwapchainStep, ReadSnapshot, Unregister

-----------------------------------------------------------------------------
(* What the creation paths leave behind.                                   *)

(* The objects of a sequence, and of two one after the other.              *)
LEMMA KindsOfConcat ==
    ASSUME NEW S, NEW a \in Seq(S), NEW b \in Seq(S)
    PROVE  Kinds(a \o b) = Kinds(a) \union Kinds(b)
<1>1. /\ Len(a) \in Nat /\ Len(b) \in Nat
      /\ DOMAIN a = 1 .. Len(a) /\ DOMAIN b = 1 .. Len(b)
      /\ DOMAIN (a \o b) = 1 .. Len(a) + Len(b)
  BY ConcatProperties, LenProperties
<1>2. \A k \in 1 .. Len(a) + Len(b) : (a \o b)[k] = IF k =< Len(a) THEN a[k] ELSE b[k - Len(a)]
  BY ConcatProperties
<1>3. \A k \in 1 .. Len(b) : (a \o b)[k + Len(a)] = b[k] /\ k + Len(a) \in 1 .. Len(a) + Len(b)
  BY <1>1, <1>2
<1>4. \A k \in 1 .. Len(a) : (a \o b)[k] = a[k] /\ k \in 1 .. Len(a) + Len(b)
  BY <1>1, <1>2
<1>5. Kinds(a) \union Kinds(b) \subseteq Kinds(a \o b)
  BY <1>1, <1>3, <1>4 DEF Kinds
<1>6. Kinds(a \o b) \subseteq Kinds(a) \union Kinds(b)
  BY <1>1, <1>2 DEF Kinds
<1> QED
  BY <1>5, <1>6

(* What was made before a failure is some of what would have been made.    *)
LEMMA KindsOfPrefix ==
    ASSUME NEW S, NEW q \in Seq(S), NEW p \in Prefixes(q)
    PROVE  /\ p \in Seq(S)
           /\ Kinds(p) \subseteq Kinds(q)
           /\ Len(p) = Len(q) => p = q
<1>0. Len(q) \in Nat /\ DOMAIN q = 1 .. Len(q)
  BY LenProperties
<1>1. PICK n \in 0 .. Len(q) : p = SubSeq(q, 1, n)
  BY DEF Prefixes
<1>2. /\ p \in Seq(S) /\ Len(p) = n
      /\ \A k \in 1 .. n : p[k] = q[k]
  <2>1. \A k \in 1 .. n : k \in 1 .. Len(q)
    BY <1>0
  <2>2. n = n - 1 + 1 /\ n \in Nat
    BY <1>0
  <2>3. \A k \in 1 .. n : q[k] \in S
    BY <2>1, ElementOfSeq
  <2> QED
    BY <1>1, <1>0, <2>1, <2>2, <2>3, SubSeqProperties
<1>3. DOMAIN p = 1 .. n
  BY <1>2, LenProperties
<1>4. Kinds(p) \subseteq Kinds(q)
  BY <1>0, <1>2, <1>3 DEF Kinds
<1>5. ASSUME Len(p) = Len(q) PROVE p = q
  BY <1>0, <1>2, <1>5, SeqEqual
<1> QED
  BY <1>2, <1>4, <1>5

(* Every list of driver objects is a sequence of these.                    *)
Objects ==
    {"atlas", "atlas_memory", "staging", "staging_memory", "command_pool", "fence",
     "atlas_view", "sampler", "descriptor_layout", "descriptor_pool", "pipeline_layout",
     "pipeline_cache", "vertex_shader", "fragment_shader", "render_pass", "pipeline",
     "swapchain_command_pool", "view", "framebuffer", "buffer", "memory"}

(* AtlasObjects and the others are such sequences.                         *)
LEMMA ObjectSequences ==
    /\ AtlasObjects \in Seq(Objects) /\ StagingObjects \in Seq(Objects)
    /\ DescriptorObjects \in Seq(Objects) /\ SwapchainObjects \in Seq(Objects)
<1>1. AtlasObjects \in Seq(Objects) /\ StagingObjects \in Seq(Objects)
  BY DEF AtlasObjects, StagingObjects, Objects
<1>2. DescriptorObjects \in Seq(Objects)
  BY DEF DescriptorObjects, Objects
<1>3. SwapchainObjects \in Seq(Objects)
  BY DEF SwapchainObjects, Objects
<1> QED
  BY <1>1, <1>2, <1>3

(* upload_atlas leaves objects of the atlas only.                          *)
LEMMA UploadLeavesAtlas ==
    ASSUME NEW u \in UploadedAtlas
    PROVE  u.objects \subseteq Kinds(AtlasObjects)
<1>1. CASE u = [ok |-> TRUE, objects |-> Kinds(AtlasObjects)]
  BY <1>1
<1>2. CASE \E a \in Prefixes(AtlasObjects \o StagingObjects) :
               u = [ok |-> FALSE, objects |-> Kinds(a) \ Kinds(StagingObjects)]
  <2>1. PICK a \in Prefixes(AtlasObjects \o StagingObjects) :
               u = [ok |-> FALSE, objects |-> Kinds(a) \ Kinds(StagingObjects)]
    BY <1>2
  <2>2. AtlasObjects \o StagingObjects \in Seq(Objects)
    BY ObjectSequences, ConcatProperties
  <2>3. Kinds(a) \subseteq Kinds(AtlasObjects \o StagingObjects)
    BY <2>2, KindsOfPrefix
  <2>4. Kinds(a) \subseteq Kinds(AtlasObjects) \union Kinds(StagingObjects)
    BY <2>3, ObjectSequences, KindsOfConcat
  <2> QED
    BY <2>1, <2>4
<1> QED
  BY <1>1, <1>2 DEF UploadedAtlas

(* What create_descriptors_and_shaders leaves are objects of the device,   *)
(* all of them when it succeeds.                                           *)
LEMMA DescriptionLeavesDevice ==
    ASSUME NEW d \in DescribedAtlas
    PROVE  /\ d.objects \subseteq DeviceKinds
           /\ d.ok => d.objects = DeviceKinds
<1>1. PICK a \in Prefixes(DescriptorObjects) :
          d = [ok |-> Len(a) = Len(DescriptorObjects), objects |-> Kinds(AtlasObjects \o a)]
  BY DEF DescribedAtlas
<1>2. /\ a \in Seq(Objects) /\ Kinds(a) \subseteq Kinds(DescriptorObjects)
      /\ Len(a) = Len(DescriptorObjects) => a = DescriptorObjects
  BY ObjectSequences, KindsOfPrefix
<1>3. Kinds(AtlasObjects \o a) = Kinds(AtlasObjects) \union Kinds(a)
  BY <1>2, ObjectSequences, KindsOfConcat
<1> QED
  BY <1>1, <1>2, <1>3 DEF DeviceKinds

(* What Impl::initialize() made before it failed.                          *)
LEMMA MadeIsOfSwapchain ==
    ASSUME NEW made \in Prefixes(SwapchainObjects)
    PROVE  Kinds(made) \subseteq Kinds(SwapchainObjects)
BY ObjectSequences, KindsOfPrefix

-----------------------------------------------------------------------------
(* Type correctness of the renderers.                                      *)

Presenting == {"prepare", "snapshot", "compare", "rebuild", "submit", "submit with overlay"}

(* The image a thread presents is acquired, and the GPU is done with it: a *)
(* page flip thread frees an image only then, the others look first.       *)
Presented ==
    /\ \A s \in Swapchains : pc[s] \in Presenting =>
          /\ current[s] \in Images
          /\ image[s][current[s]] = "acquired"
          /\ gpu[s][current[s]] = "idle"
    /\ \A s \in FlipThread, i \in Images :
          image[s][i] \in {"free", "acquired"} => gpu[s][i] = "idle"

(* Every step keeps the renderers well formed.                             *)
LEMMA RendererStep ==
    ASSUME RuntimeShape, RendererShape, Presented, [HudNext]_hudVars
    PROVE  RendererShape'
<1>1. CASE Sampler /\ PublishBegins
  BY <1>1 DEF Sampler, PublishBegins, SamplerTo, rendererVars, RendererShape
<1>2. CASE Sampler /\ StoreWord
  BY <1>2 DEF Sampler, StoreWord, rendererVars, RendererShape
<1>3. CASE Sampler /\ PublishEnds
  BY <1>3 DEF Sampler, PublishEnds, SamplerTo, rendererVars, RendererShape
<1>4. CASE Sampler /\ TestStopping
  BY <1>4 DEF Sampler, TestStopping, SamplerTo, rendererVars, RendererShape
<1>5. CASE Sampler /\ FallAsleep
  BY <1>5 DEF Sampler, FallAsleep, SamplerTo, rendererVars, RendererShape
<1>6. CASE Sampler /\ IntervalEnds
  BY <1>6 DEF Sampler, IntervalEnds, SamplerTo, rendererVars, RendererShape
<1>7. CASE Sampler /\ SampleAgain
  BY <1>7 DEF Sampler, SampleAgain, SamplerTo, rendererVars, RendererShape
<1>8. ASSUME NEW s \in Swapchains, AcquireShared(s) PROVE RendererShape'
  <2>1. held' \in [Owners -> SUBSET (DeviceKinds \union Kinds(SwapchainObjects))]
    <3>1. CASE UNCHANGED held
      BY <3>1 DEF RendererShape
    <3>2. CASE \E o \in SUBSET DeviceKinds : held' = [held EXCEPT !["device"] = o]
      BY <3>2 DEF RendererShape
    <3>3. (\E o \in SUBSET DeviceKinds : held' = [held EXCEPT !["device"] = o]) \/ UNCHANGED held
      <4>1. CASE UNCHANGED held
        BY <4>1
      <4>2. CASE shared.users = {}
        <5>1. PICK upload \in UploadedAtlas, rest \in DescribedAtlas :
                  \/ held' = [held EXCEPT !["device"] = rest.objects]
                  \/ held' = [held EXCEPT !["device"] = DestroyDeviceObjects(
                                      IF upload.ok THEN rest.objects ELSE upload.objects)]
          BY <1>8, <4>2 DEF AcquireShared
        <5>2. rest.objects \subseteq DeviceKinds /\ upload.objects \subseteq DeviceKinds
          BY UploadLeavesAtlas, DescriptionLeavesDevice DEF DeviceKinds
        <5>3. DestroyDeviceObjects(IF upload.ok THEN rest.objects ELSE upload.objects)
                  \subseteq DeviceKinds
          BY <5>2 DEF DestroyDeviceObjects
        <5> QED
          BY <5>1, <5>2, <5>3
      <4> QED
        BY <1>8, <4>1, <4>2 DEF AcquireShared
    <3> QED
      BY <3>1, <3>2, <3>3
  <2>2. shared' \in [users : SUBSET Swapchains, callbacks : Swapchains \union {Nobody}]
    <3>1. shared \in [users : SUBSET Swapchains, callbacks : Swapchains \union {Nobody}]
      BY DEF RendererShape
    <3>2. \/ shared' = [shared EXCEPT !.users = @ \union {s}]
          \/ shared' = [users |-> {s}, callbacks |-> s]
          \/ shared' = shared
      BY <1>8 DEF AcquireShared
    <3> QED
      BY <3>1, <3>2
  <2> QED
    BY <1>8, <2>1, <2>2 DEF AcquireShared, RendererShape
<1>9. ASSUME NEW s \in Swapchains, CreateObjects(s) PROVE RendererShape'
  <2>1. held' \in [Owners -> SUBSET (DeviceKinds \union Kinds(SwapchainObjects))]
    <3>1. PICK made \in Prefixes(SwapchainObjects) : held' = [held EXCEPT ![s] = Kinds(made)]
      BY <1>9 DEF CreateObjects
    <3>2. Kinds(made) \subseteq Kinds(SwapchainObjects)
      BY MadeIsOfSwapchain
    <3>3. held \in [Owners -> SUBSET (DeviceKinds \union Kinds(SwapchainObjects))]
      BY DEF RendererShape
    <3> QED
      BY <3>1, <3>2, <3>3
  <2> QED
    BY <1>9, <2>1 DEF CreateObjects, RendererShape
<1>10. ASSUME NEW s \in Swapchains, Register(s) PROVE RendererShape'
  BY <1>10 DEF Register, RegisterSwapchain, rendererVars, RendererShape
<1>11. ASSUME NEW s \in Swapchains, Prepare(s) PROVE RendererShape'
  BY <1>11 DEF Prepare, Goto, unchangedRuntime, rendererVars, RendererShape
<1>12. ASSUME NEW s \in Swapchains, ReadSnapshot(s) /\ LoadBefore(s) PROVE RendererShape'
  BY <1>12 DEF ReadSnapshot, LoadBefore, rendererVars, RendererShape
<1>13. ASSUME NEW s \in Swapchains, ReadSnapshot(s) /\ Load(s) PROVE RendererShape'
  BY <1>13 DEF ReadSnapshot, Load, rendererVars, RendererShape
<1>14. ASSUME NEW s \in Swapchains, ReadSnapshot(s) /\ LastLoad(s, "compare") PROVE RendererShape'
  BY <1>14 DEF ReadSnapshot, LastLoad, rendererVars, RendererShape
<1>15. ASSUME NEW s \in Swapchains, Compare(s) PROVE RendererShape'
  BY <1>15 DEF Compare, Goto, NeedsRebuild, rendererVars, RendererShape
<1>16. ASSUME NEW s \in Swapchains, Rebuild(s) PROVE RendererShape'
  <2> DEFINE G == 0 .. 2 * MaxSamples \union {Unset}
             made == reading[s].after
  <2>1. made \in G
    BY DEF RuntimeShape, Readings
  <2>2. overlay \in [Swapchains -> [Images -> [built : G, last : G]]]
    BY DEF RendererShape
  <2>3. enabled' \in [Swapchains -> BOOLEAN]
    BY <1>16 DEF Rebuild, RendererShape
  <2>4. overlay' \in [Swapchains -> [Images -> [built : G, last : G]]]
    <3> HIDE DEF G
    <3>1. CASE overlay' = [overlay EXCEPT ![s][current[s]] = [built |-> made, last |-> made]]
      <4>1. [overlay[s] EXCEPT ![current[s]] = [built |-> made, last |-> made]]
                \in [Images -> [built : G, last : G]]
        BY <2>1, <2>2
      <4>2. overlay' = [overlay EXCEPT ![s] =
                [overlay[s] EXCEPT ![current[s]] = [built |-> made, last |-> made]]]
        BY <2>2, <3>1
      <4> QED
        BY <2>2, <4>1, <4>2
    <3>2. CASE overlay' = [overlay EXCEPT ![s][current[s]].built = made]
      <4>1. overlay[s][current[s]] \in [built : G, last : G]
        <5>1. current[s] \in Images
          BY <1>16 DEF Rebuild, Presented, Presenting
        <5> QED
          BY <2>2, <5>1
      <4>2. [overlay[s][current[s]] EXCEPT !.built = made] \in [built : G, last : G]
        BY <2>1, <4>1
      <4>3. [overlay[s] EXCEPT ![current[s]] = [overlay[s][current[s]] EXCEPT !.built = made]]
                \in [Images -> [built : G, last : G]]
        BY <2>2, <4>2
      <4>4. overlay' = [overlay EXCEPT ![s] = [overlay[s] EXCEPT ![current[s]] =
                                       [overlay[s][current[s]] EXCEPT !.built = made]]]
        BY <2>2, <3>2
      <4> QED
        BY <2>2, <4>3, <4>4
    <3> QED
      BY <1>16, <3>1, <3>2 DEF Rebuild
  <2> QED
    BY <1>16, <2>3, <2>4 DEF Rebuild, RendererShape
<1>17. ASSUME NEW s \in Swapchains, Submit(s) PROVE RendererShape'
  <2> DEFINE GpuStates == {"idle", "running", "drawing"}
             Places == {"free", "acquired", "pending"}
  <2>1. gpu \in [Swapchains -> [Images -> GpuStates]] /\ image \in [Swapchains -> [Images -> Places]]
    BY DEF RendererShape
  <2>2. gpu' \in [Swapchains -> [Images -> GpuStates]]
    <3>1. CASE gpu' = gpu
      BY <2>1, <3>1
    <3>2. CASE \E v \in GpuStates : gpu' = [gpu EXCEPT ![s][current[s]] = v]
      <4>1. PICK v \in GpuStates : gpu' = [gpu EXCEPT ![s][current[s]] = v]
        BY <3>2
      <4>2. [gpu[s] EXCEPT ![current[s]] = v] \in [Images -> GpuStates]
        BY <2>1
      <4>3. gpu' = [gpu EXCEPT ![s] = [gpu[s] EXCEPT ![current[s]] = v]]
        BY <4>1
      <4> QED
        BY <2>1, <4>2, <4>3
    <3> QED
      BY <1>17, <3>1, <3>2 DEF Submit
  <2>3. image' \in [Swapchains -> [Images -> Places]]
    <3>1. CASE image' = image
      BY <2>1, <3>1
    <3>2. CASE image' = [image EXCEPT ![s][current[s]] = "pending"]
      <4>1. [image[s] EXCEPT ![current[s]] = "pending"] \in [Images -> Places]
        BY <2>1
      <4>2. image' = [image EXCEPT ![s] = [image[s] EXCEPT ![current[s]] = "pending"]]
        BY <3>2
      <4> QED
        BY <2>1, <4>1, <4>2
    <3> QED
      BY <1>17, <3>1, <3>2 DEF Submit
  <2> QED
    BY <1>17, <2>2, <2>3 DEF Submit, RendererShape
<1>18. ASSUME NEW s \in Swapchains, WaitQueueIdle(s) PROVE RendererShape'
  BY <1>18 DEF WaitQueueIdle, Goto, unchangedRuntime, rendererVars, RendererShape
<1>19. ASSUME NEW s \in Swapchains, Unregister(s) /\ UnregisterSwapchain(s, "destruct") PROVE RendererShape'
  BY <1>19 DEF Unregister, UnregisterSwapchain, rendererVars, RendererShape
<1>20. ASSUME NEW s \in Swapchains, Unregister(s) /\ NotifySampler(s) PROVE RendererShape'
  BY <1>20 DEF Unregister, NotifySampler, rendererVars, RendererShape
<1>21. ASSUME NEW s \in Swapchains, Unregister(s) /\ JoinSampler(s, "destruct") PROVE RendererShape'
  BY <1>21 DEF Unregister, JoinSampler, rendererVars, RendererShape
<1>22. ASSUME NEW s \in Swapchains, Destruct(s) PROVE RendererShape'
  <2>1. shared' \in [users : SUBSET Swapchains, callbacks : Swapchains \union {Nobody}]
    BY <1>22 DEF Destruct, RendererShape
  <2>2. held' \in [Owners -> SUBSET (DeviceKinds \union Kinds(SwapchainObjects))]
    BY <1>22 DEF Destruct, RendererShape, DestroySwapchainObjects, DestroyDeviceObjects
  <2> QED
    BY <1>22, <2>1, <2>2 DEF Destruct, RendererShape
<1>23. ASSUME NEW s \in Swapchains, FreeSwapchain(s) PROVE RendererShape'
  BY <1>23 DEF FreeSwapchain, Goto, unchangedRuntime, rendererVars, RendererShape
<1>24. ASSUME NEW s \in Swapchains, NEW i \in Images, AcquireImage(s, i) PROVE RendererShape'
  BY <1>24 DEF AcquireImage, runtimeVars, RendererShape
<1>25. ASSUME NEW s \in Swapchains, NEW i \in Images, QueuePresent(s, i) PROVE RendererShape'
  BY <1>25 DEF QueuePresent, PayloadIsOver, Goto, unchangedRuntime, RendererShape
<1>26. ASSUME NEW s \in Swapchains, NEW i \in Images, Present(s, i) PROVE RendererShape'
  BY <1>26 DEF Present, runtimeVars, RendererShape
<1>27. ASSUME NEW s \in Swapchains, NEW i \in Images, GpuFinishes(s, i) PROVE RendererShape'
  BY <1>27 DEF GpuFinishes, runtimeVars, RendererShape
<1>28. CASE UNCHANGED hudVars
  BY <1>28 DEF hudVars, runtimeVars, rendererVars, RendererShape
<1> QED
  BY <1>1, <1>2, <1>3, <1>4, <1>5, <1>6, <1>7, <1>8, <1>9, <1>10, <1>11, <1>12, <1>13, <1>14, <1>15, <1>16, <1>17, <1>18, <1>19, <1>20, <1>21, <1>22, <1>23, <1>24, <1>25, <1>26, <1>27, <1>28
     DEF HudNext, Sampler, SamplerStep, SwapchainStep, ReadSnapshot, Unregister
-----------------------------------------------------------------------------
(* The image being presented.                                              *)

(* Every step keeps the presented images acquired and idle.                *)
LEMMA PresentedStep ==
    ASSUME RuntimeShape, RendererShape, Presented, [HudNext]_hudVars
    PROVE  Presented'
<1>a. /\ pc \in [Swapchains -> {"unattached", "create", "register", "ready", "prepare", "snapshot",
              "compare", "rebuild", "submit", "submit with overlay", "unregister",
              "notify", "join", "destruct", "no hud", "freed"}]
      /\ current \in [Swapchains -> Images \union {NoImage}]
      /\ image \in [Swapchains -> [Images -> {"free", "acquired", "pending"}]]
      /\ gpu \in [Swapchains -> [Images -> {"idle", "running", "drawing"}]]
      /\ FlipThread \subseteq Swapchains
  BY RendererAssumption DEF RuntimeShape, RendererShape
<1>b. gpu \in [Swapchains -> [Images -> {"idle", "running", "drawing"}]]
  BY <1>a
<1>c. image \in [Swapchains -> [Images -> {"free", "acquired", "pending"}]]
  BY <1>a
<1>1. CASE Sampler /\ PublishBegins
  BY <1>1, <1>a DEF Sampler, PublishBegins, SamplerTo, rendererVars, Presented, Presenting
<1>2. CASE Sampler /\ StoreWord
  BY <1>2, <1>a DEF Sampler, StoreWord, rendererVars, Presented, Presenting
<1>3. CASE Sampler /\ PublishEnds
  BY <1>3, <1>a DEF Sampler, PublishEnds, SamplerTo, rendererVars, Presented, Presenting
<1>4. CASE Sampler /\ TestStopping
  BY <1>4, <1>a DEF Sampler, TestStopping, SamplerTo, rendererVars, Presented, Presenting
<1>5. CASE Sampler /\ FallAsleep
  BY <1>5, <1>a DEF Sampler, FallAsleep, SamplerTo, rendererVars, Presented, Presenting
<1>6. CASE Sampler /\ IntervalEnds
  BY <1>6, <1>a DEF Sampler, IntervalEnds, SamplerTo, rendererVars, Presented, Presenting
<1>7. CASE Sampler /\ SampleAgain
  BY <1>7, <1>a DEF Sampler, SampleAgain, SamplerTo, rendererVars, Presented, Presenting
<1>8. ASSUME NEW s \in Swapchains, AcquireShared(s) PROVE Presented'
  <2>1. (\E n \in {"create", "no hud"} : pc' = [pc EXCEPT ![s] = n]) /\ UNCHANGED <<image, gpu, current>>
    BY <1>8 DEF AcquireShared, Goto
  <2> QED
    BY <2>1, <1>a DEF Presented, Presenting
<1>9. ASSUME NEW s \in Swapchains, CreateObjects(s) PROVE Presented'
  BY <1>9, <1>a DEF CreateObjects, Goto, unchangedRuntime, Presented, Presenting
<1>10. ASSUME NEW s \in Swapchains, Register(s) PROVE Presented'
  <2>1. (\E n \in {"ready", "destruct"} : pc' = [pc EXCEPT ![s] = n]) /\ UNCHANGED <<image, gpu, current>>
    BY <1>10 DEF Register, RegisterSwapchain, rendererVars
  <2> QED
    BY <2>1, <1>a DEF Presented, Presenting
<1>11. ASSUME NEW s \in Swapchains, Prepare(s) PROVE Presented'
  BY <1>11, <1>a DEF Prepare, Goto, unchangedRuntime, rendererVars, Presented, Presenting
<1>12. ASSUME NEW s \in Swapchains, ReadSnapshot(s) /\ LoadBefore(s) PROVE Presented'
  BY <1>12, <1>a DEF ReadSnapshot, LoadBefore, rendererVars, Presented, Presenting
<1>13. ASSUME NEW s \in Swapchains, ReadSnapshot(s) /\ Load(s) PROVE Presented'
  BY <1>13, <1>a DEF ReadSnapshot, Load, rendererVars, Presented, Presenting
<1>14. ASSUME NEW s \in Swapchains, ReadSnapshot(s) /\ LastLoad(s, "compare") PROVE Presented'
  BY <1>14, <1>a DEF ReadSnapshot, LastLoad, rendererVars, Presented, Presenting
<1>15. ASSUME NEW s \in Swapchains, Compare(s) PROVE Presented'
  BY <1>15, <1>a, ZenonT(40) DEF Compare, Goto, NeedsRebuild, rendererVars, Presented, Presenting
<1>16. ASSUME NEW s \in Swapchains, Rebuild(s) PROVE Presented'
  BY <1>16, <1>a DEF Rebuild, Goto, Presented, Presenting
<1>17. ASSUME NEW s \in Swapchains, Submit(s) PROVE Presented'
  <2>1. /\ current[s] \in Images
        /\ pc' = [pc EXCEPT ![s] = "ready"]
        /\ current' = [current EXCEPT ![s] = NoImage]
    BY <1>17 DEF Submit, Goto, Presented, Presenting
  <2>2. CASE UNCHANGED <<gpu, image>>
    BY <2>1, <2>2, <1>a DEF Presented, Presenting
  <2>3. CASE /\ \E v \in {"running", "drawing"} : gpu' = [gpu EXCEPT ![s][current[s]] = v]
             /\ image' = [image EXCEPT ![s][current[s]] = "pending"]
    <3>1. \A r \in Swapchains, j \in Images :
             IF r = s /\ j = current[s]
             THEN image'[r][j] = "pending"
             ELSE image'[r][j] = image[r][j] /\ gpu'[r][j] = gpu[r][j]
      <4>1. PICK v \in {"running", "drawing"} : gpu' = [gpu EXCEPT ![s][current[s]] = v]
        BY <2>3
      <4>2. \A r \in Swapchains, j \in Images :
               gpu'[r][j] = IF r = s /\ j = current[s] THEN v ELSE gpu[r][j]
        BY <4>1, <2>1, <1>b
      <4>3. \A r \in Swapchains, j \in Images :
               image'[r][j] = IF r = s /\ j = current[s] THEN "pending" ELSE image[r][j]
        BY <2>3, <2>1, <1>c
      <4> QED
        BY <4>2, <4>3
    <3>2. \A r \in Swapchains : pc'[r] \in Presenting =>
              r # s /\ pc[r] \in Presenting /\ current'[r] = current[r]
      BY <2>1, <1>a DEF Presenting
    <3>3. \A r \in Swapchains : pc'[r] \in Presenting =>
              /\ current'[r] \in Images
              /\ image'[r][current'[r]] = "acquired"
              /\ gpu'[r][current'[r]] = "idle"
      BY <3>1, <3>2 DEF Presented
    <3>4. \A r \in FlipThread, j \in Images :
              image'[r][j] \in {"free", "acquired"} => gpu'[r][j] = "idle"
      <4>1. FlipThread \subseteq Swapchains
        BY RendererAssumption
      <4>2. \A r \in FlipThread, j \in Images :
               image[r][j] \in {"free", "acquired"} => gpu[r][j] = "idle"
        BY DEF Presented
      <4> QED
        BY <3>1, <4>1, <4>2
    <3> QED
      BY <3>3, <3>4 DEF Presented
  <2> QED
    BY <1>17, <2>2, <2>3 DEF Submit
<1>18. ASSUME NEW s \in Swapchains, WaitQueueIdle(s) PROVE Presented'
  BY <1>18, <1>a DEF WaitQueueIdle, Goto, unchangedRuntime, rendererVars, Presented, Presenting
<1>19. ASSUME NEW s \in Swapchains, Unregister(s) /\ UnregisterSwapchain(s, "destruct") PROVE Presented'
  <2>1. (\E n \in {"destruct", "notify"} : pc' = [pc EXCEPT ![s] = n]) /\ UNCHANGED <<image, gpu, current>>
    BY <1>19 DEF Unregister, UnregisterSwapchain, rendererVars
  <2> QED
    BY <2>1, <1>a DEF Presented, Presenting
<1>20. ASSUME NEW s \in Swapchains, Unregister(s) /\ NotifySampler(s) PROVE Presented'
  BY <1>20, <1>a DEF Unregister, NotifySampler, rendererVars, Presented, Presenting
<1>21. ASSUME NEW s \in Swapchains, Unregister(s) /\ JoinSampler(s, "destruct") PROVE Presented'
  BY <1>21, <1>a DEF Unregister, JoinSampler, rendererVars, Presented, Presenting
<1>22. ASSUME NEW s \in Swapchains, Destruct(s) PROVE Presented'
  BY <1>22, <1>a DEF Destruct, Goto, unchangedRuntime, Presented, Presenting
<1>23. ASSUME NEW s \in Swapchains, FreeSwapchain(s) PROVE Presented'
  BY <1>23, <1>a DEF FreeSwapchain, Goto, unchangedRuntime, rendererVars, Presented, Presenting
<1>24. ASSUME NEW s \in Swapchains, NEW i \in Images, AcquireImage(s, i) PROVE Presented'
  BY <1>24, <1>a, ZenonT(40) DEF AcquireImage, runtimeVars, Presented, Presenting
<1>25. ASSUME NEW s \in Swapchains, NEW i \in Images, QueuePresent(s, i) PROVE Presented'
  BY <1>25, <1>a, ZenonT(40) DEF QueuePresent, PayloadIsOver, Goto, unchangedRuntime, Presented, Presenting
<1>26. ASSUME NEW s \in Swapchains, NEW i \in Images, Present(s, i) PROVE Presented'
  BY <1>26, <1>a, ZenonT(40) DEF Present, runtimeVars, Presented, Presenting
<1>27. ASSUME NEW s \in Swapchains, NEW i \in Images, GpuFinishes(s, i) PROVE Presented'
  BY <1>27, <1>a, ZenonT(40) DEF GpuFinishes, runtimeVars, Presented, Presenting
<1>28. CASE UNCHANGED hudVars
  BY <1>28, <1>a DEF hudVars, runtimeVars, rendererVars, Presented, Presenting
<1> QED
  BY <1>1, <1>2, <1>3, <1>4, <1>5, <1>6, <1>7, <1>8, <1>9, <1>10, <1>11, <1>12, <1>13, <1>14, <1>15, <1>16, <1>17, <1>18, <1>19, <1>20, <1>21, <1>22, <1>23, <1>24, <1>25, <1>26, <1>27, <1>28
     DEF HudNext, Sampler, SamplerStep, SwapchainStep, ReadSnapshot, Unregister

-----------------------------------------------------------------------------
(* Reading the publication.                                                *)

(* Whatever the order of its loads, the words a reader has copied are no   *)
(* older than the sample of the generation it loaded first.                *)
ReaderIsFine(s) ==
    /\ pc[s] # "snapshot" => reading[s].left = {}
    /\ pc[s] = "snapshot" /\ reading[s].left # {} =>
          /\ reading[s].before =< generation
          /\ \A w \in Words \ reading[s].left :
                reading[s].copy[w] >= reading[s].before \div 2
    /\ pc[s] \in {"compare", "rebuild"} =>
          \A w \in Words : reading[s].copy[w] >= reading[s].after \div 2

Readers == \A s \in Swapchains : ReaderIsFine(s)

(* A reader is not disturbed by a generation that moves on, nor by a word  *)
(* that is stored.                                                         *)
LEMMA ReaderIsFineWhile ==
    ASSUME NEW s \in Swapchains, ReaderIsFine(s),
           generation \in Nat, reading[s].before \in Nat,
           generation' \in {generation, generation + 1},
           UNCHANGED <<pc[s], reading[s]>>
    PROVE  ReaderIsFine(s)'
BY DEF ReaderIsFine

(* A load, of a word or of the generation, keeps the copy that fresh.      *)
LEMMA LoadIsFresh ==
    ASSUME RuntimeShape, Publication, NEW s \in Swapchains, ReaderIsFine(s),
           generation \in Nat, reading[s].before \in Nat,
           pc[s] = "snapshot", NEW l \in Loads, l \in reading[s].left,
           reading' = [reading EXCEPT ![s] = Reads(s, l)]
    PROVE  /\ reading'[s].left = reading[s].left \ {l}
           /\ reading'[s].before = reading[s].before
           /\ \A w \in Words \ reading'[s].left :
                 reading'[s].copy[w] >= reading[s].before \div 2
<1>1. reading \in [Swapchains -> Readings] /\ reading[s] \in Readings
  BY DEF RuntimeShape
<1>2. /\ reading[s].before =< generation
      /\ \A w \in Words \ reading[s].left : reading[s].copy[w] >= reading[s].before \div 2
  BY DEF ReaderIsFine
<1>3. \A w \in Words : words[w] >= reading[s].before \div 2
  <2>1. words \in [Words -> 0 .. MaxSamples] /\ MaxSamples \in Nat
    BY HudAssumption DEF RuntimeShape
  <2>2. \A w \in Words : words[w] \in Nat /\ words[w] >= generation \div 2
    BY <2>1 DEF Publication
  <2>3. /\ reading[s].before \div 2 =< generation \div 2
        /\ reading[s].before \div 2 \in Nat /\ generation \div 2 \in Nat
    BY <1>2, Halves
  <2> QED
    BY <2>2, <2>3
<1>4. reading'[s] = Reads(s, l)
  BY <1>1
<1>5. CASE l = 0
  <2>1. reading'[s] = [reading[s] EXCEPT !.left = @ \ {l}, !.after = generation]
    BY <1>4, <1>5 DEF Reads
  <2>2. /\ reading'[s].left = reading[s].left \ {l}
        /\ reading'[s].before = reading[s].before
        /\ reading'[s].copy = reading[s].copy
    BY <1>1, <2>1 DEF Readings
  <2>3. \A w \in Words : w # l
    BY <1>5 DEF Words
  <2> QED
    BY <1>2, <2>2, <2>3
<1>6. CASE l # 0
  <2>1. reading'[s] = [reading[s] EXCEPT !.left = @ \ {l}, !.copy[l] = words[l]]
    BY <1>4, <1>6 DEF Reads
  <2>2. /\ reading'[s].left = reading[s].left \ {l}
        /\ reading'[s].before = reading[s].before
        /\ reading'[s].copy = [reading[s].copy EXCEPT ![l] = words[l]]
    BY <1>1, <2>1 DEF Readings
  <2>3. reading[s].copy \in [Words -> 0 .. MaxSamples] /\ l \in Words
    BY <1>1, <1>6 DEF Readings, Loads
  <2> QED
    BY <1>2, <1>3, <2>2, <2>3
<1> QED
  BY <1>5, <1>6

(* Every step keeps every reader so.                                       *)
LEMMA ReadersStep ==
    ASSUME RuntimeShape, Publication, Readers, [HudNext]_hudVars
    PROVE  Readers'
<1>a. /\ pc \in [Swapchains -> {"unattached", "create", "register", "ready", "prepare", "snapshot",
              "compare", "rebuild", "submit", "submit with overlay", "unregister",
              "notify", "join", "destruct", "no hud", "freed"}]
      /\ reading \in [Swapchains -> Readings]
      /\ generation \in Nat
      /\ \A s \in Swapchains : reading[s].before \in Nat
  <2>1. MaxSamples \in Nat
    BY HudAssumption
  <2>2. generation \in 0 .. 2 * MaxSamples
    BY DEF RuntimeShape
  <2>3. \A s \in Swapchains : reading[s].before \in 0 .. 2 * MaxSamples
    BY DEF RuntimeShape, Readings
  <2>4. generation \in Nat /\ \A s \in Swapchains : reading[s].before \in Nat
    BY <2>1, <2>2, <2>3
  <2>5. /\ pc \in [Swapchains -> {"unattached", "create", "register", "ready", "prepare", "snapshot",
              "compare", "rebuild", "submit", "submit with overlay", "unregister",
              "notify", "join", "destruct", "no hud", "freed"}]
        /\ reading \in [Swapchains -> Readings]
    BY DEF RuntimeShape
  <2> QED
    BY <2>4, <2>5
<1>1. CASE Sampler /\ PublishBegins
  <2>1. UNCHANGED <<pc, reading>> /\ generation' \in {generation, generation + 1}
    BY <1>1 DEF Sampler, PublishBegins, SamplerTo
  <2> QED
    BY <2>1, <1>a, ReaderIsFineWhile DEF Readers
<1>2. CASE Sampler /\ StoreWord
  <2>1. UNCHANGED <<pc, reading, generation>>
    BY <1>2 DEF Sampler, StoreWord
  <2> QED
    BY <2>1, <1>a, ReaderIsFineWhile DEF Readers
<1>3. CASE Sampler /\ PublishEnds
  <2>1. UNCHANGED <<pc, reading>> /\ generation' \in {generation, generation + 1}
    BY <1>3 DEF Sampler, PublishEnds, SamplerTo
  <2> QED
    BY <2>1, <1>a, ReaderIsFineWhile DEF Readers
<1>4. CASE Sampler /\ TestStopping
  <2>1. UNCHANGED <<pc, reading>> /\ generation' \in {generation, generation + 1}
    BY <1>4 DEF Sampler, TestStopping, SamplerTo
  <2> QED
    BY <2>1, <1>a, ReaderIsFineWhile DEF Readers
<1>5. CASE Sampler /\ FallAsleep
  <2>1. UNCHANGED <<pc, reading>> /\ generation' \in {generation, generation + 1}
    BY <1>5 DEF Sampler, FallAsleep, SamplerTo
  <2> QED
    BY <2>1, <1>a, ReaderIsFineWhile DEF Readers
<1>6. CASE Sampler /\ IntervalEnds
  <2>1. UNCHANGED <<pc, reading>> /\ generation' \in {generation, generation + 1}
    BY <1>6 DEF Sampler, IntervalEnds, SamplerTo
  <2> QED
    BY <2>1, <1>a, ReaderIsFineWhile DEF Readers
<1>7. CASE Sampler /\ SampleAgain
  <2>1. UNCHANGED <<pc, reading>> /\ generation' \in {generation, generation + 1}
    BY <1>7 DEF Sampler, SampleAgain, SamplerTo
  <2> QED
    BY <2>1, <1>a, ReaderIsFineWhile DEF Readers
<1>8. ASSUME NEW s \in Swapchains, AcquireShared(s) PROVE Readers'
  <2>8. ReaderIsFine(s)'
    BY <1>8, <1>a DEF AcquireShared, Goto, unchangedRuntime, Readers, ReaderIsFine
  <2>9. ASSUME NEW r \in Swapchains, r # s PROVE ReaderIsFine(r)'
    <3>1. UNCHANGED <<pc[r], reading[r], generation>>
      BY <1>8, <2>9, <1>a DEF AcquireShared, Goto, unchangedRuntime
    <3> QED
      BY <3>1, <1>a, ReaderIsFineWhile DEF Readers
  <2> QED
    BY <2>8, <2>9 DEF Readers
<1>9. ASSUME NEW s \in Swapchains, CreateObjects(s) PROVE Readers'
  <2>8. ReaderIsFine(s)'
    BY <1>9, <1>a DEF CreateObjects, Goto, unchangedRuntime, Readers, ReaderIsFine
  <2>9. ASSUME NEW r \in Swapchains, r # s PROVE ReaderIsFine(r)'
    <3>1. UNCHANGED <<pc[r], reading[r], generation>>
      BY <1>9, <2>9, <1>a DEF CreateObjects, Goto, unchangedRuntime
    <3> QED
      BY <3>1, <1>a, ReaderIsFineWhile DEF Readers
  <2> QED
    BY <2>8, <2>9 DEF Readers
<1>10. ASSUME NEW s \in Swapchains, Register(s) PROVE Readers'
  <2>8. ReaderIsFine(s)'
    BY <1>10, <1>a DEF Register, RegisterSwapchain, rendererVars, Readers, ReaderIsFine
  <2>9. ASSUME NEW r \in Swapchains, r # s PROVE ReaderIsFine(r)'
    <3>1. UNCHANGED <<pc[r], reading[r], generation>>
      BY <1>10, <2>9, <1>a DEF Register, RegisterSwapchain, rendererVars
    <3> QED
      BY <3>1, <1>a, ReaderIsFineWhile DEF Readers
  <2> QED
    BY <2>8, <2>9 DEF Readers
<1>11. ASSUME NEW s \in Swapchains, Prepare(s) PROVE Readers'
  <2>8. ReaderIsFine(s)'
    BY <1>11, <1>a DEF Prepare, Goto, unchangedRuntime, rendererVars, Readers, ReaderIsFine
  <2>9. ASSUME NEW r \in Swapchains, r # s PROVE ReaderIsFine(r)'
    <3>1. UNCHANGED <<pc[r], reading[r], generation>>
      BY <1>11, <2>9, <1>a DEF Prepare, Goto, unchangedRuntime, rendererVars
    <3> QED
      BY <3>1, <1>a, ReaderIsFineWhile DEF Readers
  <2> QED
    BY <2>8, <2>9 DEF Readers
<1>12. ASSUME NEW s \in Swapchains, ReadSnapshot(s) /\ LoadBefore(s) PROVE Readers'
  <2>8. ReaderIsFine(s)'
    <3>1. /\ reading'[s] = [NotReading EXCEPT !.before = generation, !.left = Loads]
          /\ UNCHANGED <<pc, generation>> /\ pc[s] = "snapshot"
      BY <1>12, <1>a DEF ReadSnapshot, LoadBefore
    <3>2. /\ reading'[s].left = Loads /\ reading'[s].before = generation
      BY <3>1 DEF NotReading
    <3>3. Words \ Loads = {}
      BY DEF Loads
    <3>4. generation =< generation
      <4>1. generation \in Nat
        BY <1>a
      <4> QED
        BY <4>1
    <3> QED
      BY <3>1, <3>2, <3>3, <3>4 DEF ReaderIsFine
  <2>9. ASSUME NEW r \in Swapchains, r # s PROVE ReaderIsFine(r)'
    <3>1. UNCHANGED <<pc[r], reading[r], generation>>
      BY <1>12, <2>9, <1>a DEF ReadSnapshot, LoadBefore
    <3> QED
      BY <3>1, <1>a, ReaderIsFineWhile DEF Readers
  <2> QED
    BY <2>8, <2>9 DEF Readers
<1>13. ASSUME NEW s \in Swapchains, ReadSnapshot(s) /\ Load(s) PROVE Readers'
  <2>8. ReaderIsFine(s)'
    <3>1. PICK l \in reading[s].left :
             /\ reading[s].left # {l}
             /\ reading' = [reading EXCEPT ![s] = Reads(s, l)]
      BY <1>13 DEF ReadSnapshot, Load
    <3>2. UNCHANGED <<pc, generation, words>> /\ pc[s] = "snapshot"
      BY <1>13 DEF ReadSnapshot, Load
    <3>3. l \in Loads
      BY <3>1, <1>a DEF Readings
    <3>4. /\ reading'[s].left = reading[s].left \ {l}
          /\ reading'[s].before = reading[s].before
          /\ \A w \in Words \ reading'[s].left :
                reading'[s].copy[w] >= reading[s].before \div 2
      BY <3>1, <3>2, <3>3, <1>a, LoadIsFresh DEF Readers
    <3>5. reading[s].before =< generation
      BY <3>1, <3>2 DEF Readers, ReaderIsFine
    <3> QED
      BY <3>2, <3>4, <3>5 DEF ReaderIsFine
  <2>9. ASSUME NEW r \in Swapchains, r # s PROVE ReaderIsFine(r)'
    <3>1. UNCHANGED <<pc[r], reading[r], generation>>
      BY <1>13, <2>9, <1>a DEF ReadSnapshot, Load
    <3> QED
      BY <3>1, <1>a, ReaderIsFineWhile DEF Readers
  <2> QED
    BY <2>8, <2>9 DEF Readers
<1>14. ASSUME NEW s \in Swapchains, ReadSnapshot(s) /\ LastLoad(s, "compare") PROVE Readers'
  <2>8. ReaderIsFine(s)'
    <3>1. PICK l \in Loads : reading[s].left = {l} /\ reading' = [reading EXCEPT ![s] = Reads(s, l)]
      BY <1>14 DEF ReadSnapshot, LastLoad
    <3>2. /\ UNCHANGED <<generation, words>> /\ pc[s] = "snapshot"
          /\ pc' = IF reading'[s].before = reading'[s].after
                   THEN [pc EXCEPT ![s] = "compare"] ELSE pc
      BY <1>14 DEF ReadSnapshot, LastLoad
    <3>3. /\ reading'[s].left = {}
          /\ reading'[s].before = reading[s].before
          /\ \A w \in Words : reading'[s].copy[w] >= reading[s].before \div 2
      <4>1. /\ reading'[s].left = reading[s].left \ {l}
            /\ reading'[s].before = reading[s].before
            /\ \A w \in Words \ reading'[s].left :
                  reading'[s].copy[w] >= reading[s].before \div 2
        BY <3>1, <3>2, <1>a, LoadIsFresh DEF Readers
      <4>2. reading'[s].left = {}
        BY <3>1, <4>1
      <4> QED
        BY <4>1, <4>2
    <3>4. pc'[s] \in {"compare", "rebuild"} => reading'[s].before = reading'[s].after
      BY <3>2, <1>a
    <3>5. pc'[s] \in {"compare", "rebuild"} =>
             \A w \in Words : reading'[s].copy[w] >= reading'[s].after \div 2
      BY <3>3, <3>4
    <3> QED
      BY <3>3, <3>5 DEF ReaderIsFine
  <2>9. ASSUME NEW r \in Swapchains, r # s PROVE ReaderIsFine(r)'
    <3>1. UNCHANGED <<pc[r], reading[r], generation>>
      BY <1>14, <2>9, <1>a DEF ReadSnapshot, LastLoad
    <3> QED
      BY <3>1, <1>a, ReaderIsFineWhile DEF Readers
  <2> QED
    BY <2>8, <2>9 DEF Readers
<1>15. ASSUME NEW s \in Swapchains, Compare(s) PROVE Readers'
  <2>1. NotReading.left = {}
    BY DEF NotReading
  <2>8. ReaderIsFine(s)'
    BY <1>15, <1>a, <2>1 DEF Compare, Goto, Readers, ReaderIsFine
  <2>9. ASSUME NEW r \in Swapchains, r # s PROVE ReaderIsFine(r)'
    <3>1. UNCHANGED <<pc[r], reading[r], generation>>
      BY <1>15, <2>9, <1>a DEF Compare, Goto
    <3> QED
      BY <3>1, <1>a, ReaderIsFineWhile DEF Readers
  <2> QED
    BY <2>8, <2>9 DEF Readers
<1>16. ASSUME NEW s \in Swapchains, Rebuild(s) PROVE Readers'
  <2>1. NotReading.left = {}
    BY DEF NotReading
  <2>8. ReaderIsFine(s)'
    BY <1>16, <1>a, <2>1 DEF Rebuild, Goto, Readers, ReaderIsFine
  <2>9. ASSUME NEW r \in Swapchains, r # s PROVE ReaderIsFine(r)'
    <3>1. UNCHANGED <<pc[r], reading[r], generation>>
      BY <1>16, <2>9, <1>a DEF Rebuild, Goto
    <3> QED
      BY <3>1, <1>a, ReaderIsFineWhile DEF Readers
  <2> QED
    BY <2>8, <2>9 DEF Readers
<1>17. ASSUME NEW s \in Swapchains, Submit(s) PROVE Readers'
  <2>8. ReaderIsFine(s)'
    BY <1>17, <1>a DEF Submit, Goto, unchangedRuntime, Readers, ReaderIsFine
  <2>9. ASSUME NEW r \in Swapchains, r # s PROVE ReaderIsFine(r)'
    <3>1. UNCHANGED <<pc[r], reading[r], generation>>
      BY <1>17, <2>9, <1>a DEF Submit, Goto, unchangedRuntime
    <3> QED
      BY <3>1, <1>a, ReaderIsFineWhile DEF Readers
  <2> QED
    BY <2>8, <2>9 DEF Readers
<1>18. ASSUME NEW s \in Swapchains, WaitQueueIdle(s) PROVE Readers'
  <2>8. ReaderIsFine(s)'
    BY <1>18, <1>a DEF WaitQueueIdle, Goto, unchangedRuntime, rendererVars, Readers, ReaderIsFine
  <2>9. ASSUME NEW r \in Swapchains, r # s PROVE ReaderIsFine(r)'
    <3>1. UNCHANGED <<pc[r], reading[r], generation>>
      BY <1>18, <2>9, <1>a DEF WaitQueueIdle, Goto, unchangedRuntime, rendererVars
    <3> QED
      BY <3>1, <1>a, ReaderIsFineWhile DEF Readers
  <2> QED
    BY <2>8, <2>9 DEF Readers
<1>19. ASSUME NEW s \in Swapchains, Unregister(s) /\ UnregisterSwapchain(s, "destruct") PROVE Readers'
  <2>8. ReaderIsFine(s)'
    BY <1>19, <1>a DEF Unregister, UnregisterSwapchain, rendererVars, Readers, ReaderIsFine
  <2>9. ASSUME NEW r \in Swapchains, r # s PROVE ReaderIsFine(r)'
    <3>1. UNCHANGED <<pc[r], reading[r], generation>>
      BY <1>19, <2>9, <1>a DEF Unregister, UnregisterSwapchain, rendererVars
    <3> QED
      BY <3>1, <1>a, ReaderIsFineWhile DEF Readers
  <2> QED
    BY <2>8, <2>9 DEF Readers
<1>20. ASSUME NEW s \in Swapchains, Unregister(s) /\ NotifySampler(s) PROVE Readers'
  <2>8. ReaderIsFine(s)'
    BY <1>20, <1>a DEF Unregister, NotifySampler, rendererVars, Readers, ReaderIsFine
  <2>9. ASSUME NEW r \in Swapchains, r # s PROVE ReaderIsFine(r)'
    <3>1. UNCHANGED <<pc[r], reading[r], generation>>
      BY <1>20, <2>9, <1>a DEF Unregister, NotifySampler, rendererVars
    <3> QED
      BY <3>1, <1>a, ReaderIsFineWhile DEF Readers
  <2> QED
    BY <2>8, <2>9 DEF Readers
<1>21. ASSUME NEW s \in Swapchains, Unregister(s) /\ JoinSampler(s, "destruct") PROVE Readers'
  <2>8. ReaderIsFine(s)'
    BY <1>21, <1>a DEF Unregister, JoinSampler, rendererVars, Readers, ReaderIsFine
  <2>9. ASSUME NEW r \in Swapchains, r # s PROVE ReaderIsFine(r)'
    <3>1. UNCHANGED <<pc[r], reading[r], generation>>
      BY <1>21, <2>9, <1>a DEF Unregister, JoinSampler, rendererVars
    <3> QED
      BY <3>1, <1>a, ReaderIsFineWhile DEF Readers
  <2> QED
    BY <2>8, <2>9 DEF Readers
<1>22. ASSUME NEW s \in Swapchains, Destruct(s) PROVE Readers'
  <2>8. ReaderIsFine(s)'
    BY <1>22, <1>a DEF Destruct, Goto, unchangedRuntime, Readers, ReaderIsFine
  <2>9. ASSUME NEW r \in Swapchains, r # s PROVE ReaderIsFine(r)'
    <3>1. UNCHANGED <<pc[r], reading[r], generation>>
      BY <1>22, <2>9, <1>a DEF Destruct, Goto, unchangedRuntime
    <3> QED
      BY <3>1, <1>a, ReaderIsFineWhile DEF Readers
  <2> QED
    BY <2>8, <2>9 DEF Readers
<1>23. ASSUME NEW s \in Swapchains, FreeSwapchain(s) PROVE Readers'
  <2>8. ReaderIsFine(s)'
    BY <1>23, <1>a DEF FreeSwapchain, Goto, unchangedRuntime, rendererVars, Readers, ReaderIsFine
  <2>9. ASSUME NEW r \in Swapchains, r # s PROVE ReaderIsFine(r)'
    <3>1. UNCHANGED <<pc[r], reading[r], generation>>
      BY <1>23, <2>9, <1>a DEF FreeSwapchain, Goto, unchangedRuntime, rendererVars
    <3> QED
      BY <3>1, <1>a, ReaderIsFineWhile DEF Readers
  <2> QED
    BY <2>8, <2>9 DEF Readers
<1>24. ASSUME NEW s \in Swapchains, NEW i \in Images, AcquireImage(s, i) PROVE Readers'
  <2>1. UNCHANGED <<pc, reading, generation>>
    BY <1>24 DEF AcquireImage, runtimeVars
  <2> QED
    BY <2>1, <1>a, ReaderIsFineWhile DEF Readers
<1>25. ASSUME NEW s \in Swapchains, NEW i \in Images, QueuePresent(s, i) PROVE Readers'
  <2>8. ReaderIsFine(s)'
    BY <1>25, <1>a DEF QueuePresent, PayloadIsOver, Goto, unchangedRuntime, Readers, ReaderIsFine
  <2>9. ASSUME NEW r \in Swapchains, r # s PROVE ReaderIsFine(r)'
    <3>1. UNCHANGED <<pc[r], reading[r], generation>>
      BY <1>25, <2>9, <1>a DEF QueuePresent, PayloadIsOver, Goto, unchangedRuntime
    <3> QED
      BY <3>1, <1>a, ReaderIsFineWhile DEF Readers
  <2> QED
    BY <2>8, <2>9 DEF Readers
<1>26. ASSUME NEW s \in Swapchains, NEW i \in Images, Present(s, i) PROVE Readers'
  <2>1. UNCHANGED <<pc, reading, generation>>
    BY <1>26 DEF Present, runtimeVars
  <2> QED
    BY <2>1, <1>a, ReaderIsFineWhile DEF Readers
<1>27. ASSUME NEW s \in Swapchains, NEW i \in Images, GpuFinishes(s, i) PROVE Readers'
  <2>1. UNCHANGED <<pc, reading, generation>>
    BY <1>27 DEF GpuFinishes, runtimeVars
  <2> QED
    BY <2>1, <1>a, ReaderIsFineWhile DEF Readers
<1>28. CASE UNCHANGED hudVars
  <2>1. UNCHANGED <<pc, reading, generation>>
    BY <1>28 DEF hudVars, runtimeVars
  <2> QED
    BY <2>1, <1>a, ReaderIsFineWhile DEF Readers
<1> QED
  BY <1>1, <1>2, <1>3, <1>4, <1>5, <1>6, <1>7, <1>8, <1>9, <1>10, <1>11, <1>12, <1>13, <1>14, <1>15, <1>16, <1>17, <1>18, <1>19, <1>20, <1>21, <1>22, <1>23, <1>24, <1>25, <1>26, <1>27, <1>28
     DEF HudNext, Sampler, SamplerStep, SwapchainStep, ReadSnapshot, Unregister

-----------------------------------------------------------------------------
(* The sampler thread.                                                     *)

(* There is a sampler only while a swapchain is registered or the last one *)
(* is being unregistered, and its sources are closed with it.              *)
Sampling ==
    /\ records = <<>> /\ lifecycle = Nobody => sampler.pc = "none"
    /\ sampler.pc = "none" => ~sampler.sources

(* Every step keeps it so.                                                 *)
LEMMA SamplingStep ==
    ASSUME RuntimeShape, Sampling, [HudNext]_hudVars
    PROVE  Sampling'
<1>a. Nobody \notin Swapchains
  BY HudAssumption DEF Nobody
<1>b. sampler \in Samplers /\ records \in Seq(Swapchains)
  BY DEF RuntimeShape
<1>1. CASE Sampler /\ PublishBegins
  BY <1>1, <1>a, <1>b DEF Sampler, PublishBegins, SamplerTo, rendererVars, Sampling, Samplers
<1>2. CASE Sampler /\ StoreWord
  BY <1>2, <1>a, <1>b DEF Sampler, StoreWord, rendererVars, Sampling, Samplers
<1>3. CASE Sampler /\ PublishEnds
  BY <1>3, <1>a, <1>b DEF Sampler, PublishEnds, SamplerTo, rendererVars, Sampling, Samplers
<1>4. CASE Sampler /\ TestStopping
  BY <1>4, <1>a, <1>b DEF Sampler, TestStopping, SamplerTo, rendererVars, Sampling, Samplers
<1>5. CASE Sampler /\ FallAsleep
  BY <1>5, <1>a, <1>b DEF Sampler, FallAsleep, SamplerTo, rendererVars, Sampling, Samplers
<1>6. CASE Sampler /\ IntervalEnds
  BY <1>6, <1>a, <1>b DEF Sampler, IntervalEnds, SamplerTo, rendererVars, Sampling, Samplers
<1>7. CASE Sampler /\ SampleAgain
  BY <1>7, <1>a, <1>b DEF Sampler, SampleAgain, SamplerTo, rendererVars, Sampling, Samplers
<1>8. ASSUME NEW s \in Swapchains, AcquireShared(s) PROVE Sampling'
  BY <1>8, <1>a, <1>b DEF AcquireShared, Goto, unchangedRuntime, Sampling, Samplers
<1>9. ASSUME NEW s \in Swapchains, CreateObjects(s) PROVE Sampling'
  BY <1>9, <1>a, <1>b DEF CreateObjects, Goto, unchangedRuntime, Sampling, Samplers
<1>10. ASSUME NEW s \in Swapchains, Register(s) PROVE Sampling'
  <2>1. sampler.pc = "none" => ~sampler.sources
    BY DEF Sampling
  <2>2. sampler' \in Started => (sampler'.pc = "none" => ~sampler'.sources)
    BY <2>1 DEF Started
  <2>3. CASE records' = Append(records, s)
    <3>1. records' # <<>>
      BY <1>b, <2>3, AppendIsNotEmpty
    <3>2. sampler' = sampler \/ sampler' \in Started
      BY <1>10 DEF Register, RegisterSwapchain
    <3> QED
      BY <2>1, <2>2, <3>1, <3>2 DEF Sampling
  <2>4. CASE UNCHANGED <<records, sampler>>
    BY <1>10, <2>4 DEF Register, RegisterSwapchain, Sampling
  <2> QED
    BY <1>10, <2>3, <2>4 DEF Register, RegisterSwapchain
<1>11. ASSUME NEW s \in Swapchains, Prepare(s) PROVE Sampling'
  BY <1>11, <1>a, <1>b DEF Prepare, Goto, unchangedRuntime, rendererVars, Sampling, Samplers
<1>12. ASSUME NEW s \in Swapchains, ReadSnapshot(s) /\ LoadBefore(s) PROVE Sampling'
  BY <1>12, <1>a, <1>b DEF ReadSnapshot, LoadBefore, rendererVars, Sampling, Samplers
<1>13. ASSUME NEW s \in Swapchains, ReadSnapshot(s) /\ Load(s) PROVE Sampling'
  BY <1>13, <1>a, <1>b DEF ReadSnapshot, Load, rendererVars, Sampling, Samplers
<1>14. ASSUME NEW s \in Swapchains, ReadSnapshot(s) /\ LastLoad(s, "compare") PROVE Sampling'
  BY <1>14, <1>a, <1>b DEF ReadSnapshot, LastLoad, rendererVars, Sampling, Samplers
<1>15. ASSUME NEW s \in Swapchains, Compare(s) PROVE Sampling'
  BY <1>15, <1>a, <1>b DEF Compare, Goto, NeedsRebuild, rendererVars, Sampling, Samplers
<1>16. ASSUME NEW s \in Swapchains, Rebuild(s) PROVE Sampling'
  BY <1>16, <1>a, <1>b DEF Rebuild, Goto, Sampling, Samplers
<1>17. ASSUME NEW s \in Swapchains, Submit(s) PROVE Sampling'
  BY <1>17, <1>a, <1>b DEF Submit, Goto, unchangedRuntime, Sampling, Samplers
<1>18. ASSUME NEW s \in Swapchains, WaitQueueIdle(s) PROVE Sampling'
  BY <1>18, <1>a, <1>b DEF WaitQueueIdle, Goto, unchangedRuntime, rendererVars, Sampling, Samplers
<1>19. ASSUME NEW s \in Swapchains, Unregister(s) /\ UnregisterSwapchain(s, "destruct") PROVE Sampling'
  BY <1>19, <1>a, <1>b DEF Unregister, UnregisterSwapchain, rendererVars, Sampling, Samplers
<1>20. ASSUME NEW s \in Swapchains, Unregister(s) /\ NotifySampler(s) PROVE Sampling'
  BY <1>20, <1>a, <1>b DEF Unregister, NotifySampler, rendererVars, Sampling, Samplers
<1>21. ASSUME NEW s \in Swapchains, Unregister(s) /\ JoinSampler(s, "destruct") PROVE Sampling'
  BY <1>21, <1>a, <1>b DEF Unregister, JoinSampler, rendererVars, Sampling, Samplers
<1>22. ASSUME NEW s \in Swapchains, Destruct(s) PROVE Sampling'
  BY <1>22, <1>a, <1>b DEF Destruct, Goto, unchangedRuntime, Sampling, Samplers
<1>23. ASSUME NEW s \in Swapchains, FreeSwapchain(s) PROVE Sampling'
  BY <1>23, <1>a, <1>b DEF FreeSwapchain, Goto, unchangedRuntime, rendererVars, Sampling, Samplers
<1>24. ASSUME NEW s \in Swapchains, NEW i \in Images, AcquireImage(s, i) PROVE Sampling'
  BY <1>24, <1>a, <1>b DEF AcquireImage, runtimeVars, Sampling, Samplers
<1>25. ASSUME NEW s \in Swapchains, NEW i \in Images, QueuePresent(s, i) PROVE Sampling'
  BY <1>25, <1>a, <1>b DEF QueuePresent, PayloadIsOver, Goto, unchangedRuntime, Sampling, Samplers
<1>26. ASSUME NEW s \in Swapchains, NEW i \in Images, Present(s, i) PROVE Sampling'
  BY <1>26, <1>a, <1>b DEF Present, runtimeVars, Sampling, Samplers
<1>27. ASSUME NEW s \in Swapchains, NEW i \in Images, GpuFinishes(s, i) PROVE Sampling'
  BY <1>27, <1>a, <1>b DEF GpuFinishes, runtimeVars, Sampling, Samplers
<1>28. CASE UNCHANGED hudVars
  BY <1>28, <1>a, <1>b DEF hudVars, runtimeVars, rendererVars, Sampling, Samplers
<1> QED
  BY <1>1, <1>2, <1>3, <1>4, <1>5, <1>6, <1>7, <1>8, <1>9, <1>10, <1>11, <1>12, <1>13, <1>14, <1>15, <1>16, <1>17, <1>18, <1>19, <1>20, <1>21, <1>22, <1>23, <1>24, <1>25, <1>26, <1>27, <1>28
     DEF HudNext, Sampler, SamplerStep, SwapchainStep, ReadSnapshot, Unregister

-----------------------------------------------------------------------------
(* The driver objects.                                                     *)

Attached == Presenting \union {"register", "ready", "unregister", "notify", "join"}

(* An attached swapchain has all of its objects and uses those of the      *)
(* device, which exist while, and only while, somebody uses them.          *)
Owns(s) ==
    /\ held[s] \subseteq Kinds(SwapchainObjects)
    /\ pc[s] \in Attached => held[s] = Kinds(SwapchainObjects)
    /\ pc[s] \in {"unattached", "create", "no hud", "freed"} => held[s] = {}
    /\ s \in shared.users <=> pc[s] \in Attached \union {"create", "destruct"}

Owning ==
    /\ \A s \in Swapchains : Owns(s)
    /\ held["device"] = IF shared.users = {} THEN {} ELSE DeviceKinds

(* A swapchain nobody touches is not disturbed.                            *)
LEMMA OwnsWhile ==
    ASSUME NEW s \in Swapchains, Owns(s), UNCHANGED <<pc[s], held[s]>>,
           s \in shared'.users <=> s \in shared.users
    PROVE  Owns(s)'
BY DEF Owns

(* Nor does it matter where a thread is while its swapchain is attached.   *)
LEMMA OwningMoves ==
    ASSUME Owning, UNCHANGED <<held, shared>>, NEW s \in Swapchains,
           \A r \in Swapchains : r # s => pc'[r] = pc[r],
           \/ pc[s] \in Attached /\ pc'[s] \in Attached \union {"destruct"}
           \/ pc[s] = "no hud" /\ pc'[s] = "freed"
    PROVE  Owning'
<1>1. \A r \in Swapchains : r # s => Owns(r)'
  BY OwnsWhile DEF Owning
<1>2. Owns(s)'
  BY DEF Owning, Owns, Attached, Presenting
<1> QED
  BY <1>1, <1>2 DEF Owning

(* Every step keeps it so.                                                 *)
LEMMA OwningStep ==
    ASSUME RuntimeShape, RendererShape, Owning, [HudNext]_hudVars
    PROVE  Owning'
<1>a. /\ pc \in [Swapchains -> {"unattached", "create", "register", "ready", "prepare", "snapshot",
              "compare", "rebuild", "submit", "submit with overlay", "unregister",
              "notify", "join", "destruct", "no hud", "freed"}]
      /\ DOMAIN held = Swapchains \union {"device"}
      /\ "device" \notin Swapchains
      /\ shared \in [users : SUBSET Swapchains, callbacks : Swapchains \union {Nobody}]
  BY RendererAssumption DEF RuntimeShape, RendererShape, Owners
<1>1. CASE Sampler /\ PublishBegins
  <2>1. UNCHANGED <<pc, held, shared>>
    BY <1>1 DEF Sampler, PublishBegins, rendererVars, SamplerTo
  <2> QED
    BY <2>1, OwnsWhile DEF Owning
<1>2. CASE Sampler /\ StoreWord
  <2>1. UNCHANGED <<pc, held, shared>>
    BY <1>2 DEF Sampler, StoreWord, rendererVars
  <2> QED
    BY <2>1, OwnsWhile DEF Owning
<1>3. CASE Sampler /\ PublishEnds
  <2>1. UNCHANGED <<pc, held, shared>>
    BY <1>3 DEF Sampler, PublishEnds, rendererVars, SamplerTo
  <2> QED
    BY <2>1, OwnsWhile DEF Owning
<1>4. CASE Sampler /\ TestStopping
  <2>1. UNCHANGED <<pc, held, shared>>
    BY <1>4 DEF Sampler, TestStopping, rendererVars, SamplerTo
  <2> QED
    BY <2>1, OwnsWhile DEF Owning
<1>5. CASE Sampler /\ FallAsleep
  <2>1. UNCHANGED <<pc, held, shared>>
    BY <1>5 DEF Sampler, FallAsleep, rendererVars, SamplerTo
  <2> QED
    BY <2>1, OwnsWhile DEF Owning
<1>6. CASE Sampler /\ IntervalEnds
  <2>1. UNCHANGED <<pc, held, shared>>
    BY <1>6 DEF Sampler, IntervalEnds, rendererVars, SamplerTo
  <2> QED
    BY <2>1, OwnsWhile DEF Owning
<1>7. CASE Sampler /\ SampleAgain
  <2>1. UNCHANGED <<pc, held, shared>>
    BY <1>7 DEF Sampler, SampleAgain, rendererVars, SamplerTo
  <2> QED
    BY <2>1, OwnsWhile DEF Owning
<1>8. ASSUME NEW s \in Swapchains, AcquireShared(s) PROVE Owning'
  <2>1. pc[s] = "unattached" /\ s \notin shared.users /\ held[s] = {}
    BY <1>8 DEF AcquireShared, Owning, Owns, Attached, Presenting
  <2>2. CASE /\ shared.users # {} /\ UNCHANGED held
             /\ shared' = [shared EXCEPT !.users = @ \union {s}]
             /\ pc' = [pc EXCEPT ![s] = "create"]
    <3>1. shared'.users = shared.users \union {s}
      BY <2>2, <1>a
    <3>2. Owns(s)'
      BY <2>1, <2>2, <3>1, <1>a DEF Owns, Attached, Presenting
    <3>3. ASSUME NEW r \in Swapchains, r # s PROVE Owns(r)'
      BY <2>2, <3>1, <3>3, <1>a, OwnsWhile DEF Owning
    <3> QED
      BY <2>2, <3>1, <3>2, <3>3 DEF Owning
  <2>3. CASE /\ shared.users = {}
             /\ \E upload \in UploadedAtlas, rest \in DescribedAtlas :
                   IF upload.ok /\ rest.ok
                   THEN /\ shared' = [users |-> {s}, callbacks |-> s]
                        /\ held' = [held EXCEPT !["device"] = rest.objects]
                        /\ pc' = [pc EXCEPT ![s] = "create"]
                   ELSE /\ held' = [held EXCEPT !["device"] = DestroyDeviceObjects(
                                      IF upload.ok THEN rest.objects ELSE upload.objects)]
                        /\ pc' = [pc EXCEPT ![s] = "no hud"]
                        /\ UNCHANGED shared
    <3>1. PICK upload \in UploadedAtlas, rest \in DescribedAtlas :
             IF upload.ok /\ rest.ok
             THEN /\ shared' = [users |-> {s}, callbacks |-> s]
                  /\ held' = [held EXCEPT !["device"] = rest.objects]
                  /\ pc' = [pc EXCEPT ![s] = "create"]
             ELSE /\ held' = [held EXCEPT !["device"] = DestroyDeviceObjects(
                                IF upload.ok THEN rest.objects ELSE upload.objects)]
                  /\ pc' = [pc EXCEPT ![s] = "no hud"]
                  /\ UNCHANGED shared
      BY <2>3
    <3>2. rest.objects \subseteq DeviceKinds /\ upload.objects \subseteq DeviceKinds
      BY UploadLeavesAtlas, DescriptionLeavesDevice DEF DeviceKinds
    <3>3. DestroyDeviceObjects(IF upload.ok THEN rest.objects ELSE upload.objects) = {}
      BY <3>2 DEF DestroyDeviceObjects
    <3>4. \A r \in Swapchains : held'[r] = held[r] /\ (r # s => pc'[r] = pc[r])
      BY <3>1, <1>a
    <3>5. /\ shared'.users = IF upload.ok /\ rest.ok THEN {s} ELSE {}
          /\ held'["device"] = IF upload.ok /\ rest.ok THEN DeviceKinds ELSE {}
          /\ pc'[s] = IF upload.ok /\ rest.ok THEN "create" ELSE "no hud"
      <4>1. CASE upload.ok /\ rest.ok
        <5>1. shared'.users = {s} /\ rest.objects = DeviceKinds
          BY <3>1, <4>1, DescriptionLeavesDevice
        <5> QED
          BY <3>1, <4>1, <5>1, <1>a
      <4>2. CASE ~(upload.ok /\ rest.ok)
        BY <2>3, <3>1, <3>3, <4>2, <1>a
      <4> QED
        BY <4>1, <4>2
    <3>6. Owns(s)'
      BY <2>1, <3>4, <3>5 DEF Owns, Attached, Presenting
    <3>7. ASSUME NEW r \in Swapchains, r # s PROVE Owns(r)'
      BY <2>3, <3>4, <3>5, <3>7, OwnsWhile DEF Owning
    <3> QED
      BY <3>5, <3>6, <3>7 DEF Owning
  <2> QED
    BY <1>8, <2>2, <2>3 DEF AcquireShared, Goto
<1>9. ASSUME NEW s \in Swapchains, CreateObjects(s) PROVE Owning'
  <2>1. PICK made \in Prefixes(SwapchainObjects), n \in {"register", "destruct"} :
           /\ held' = [held EXCEPT ![s] = Kinds(made)]
           /\ pc' = [pc EXCEPT ![s] = n]
           /\ n = "register" => made = SwapchainObjects
    BY <1>9 DEF CreateObjects, Goto
  <2>2. Kinds(made) \subseteq Kinds(SwapchainObjects)
    BY MadeIsOfSwapchain
  <2>3. UNCHANGED shared /\ pc[s] = "create" /\ held'["device"] = held["device"]
    BY <1>9, <2>1, <1>a DEF CreateObjects
  <2>7. (held["device"] = IF shared.users = {} THEN {} ELSE DeviceKinds)'
    BY <2>3 DEF Owning
  <2>8. Owns(s)'
    BY <2>1, <2>2, <2>3, <1>a DEF Owning, Owns, Attached, Presenting
  <2>9. ASSUME NEW r \in Swapchains, r # s PROVE Owns(r)'
    <3>1. UNCHANGED <<pc[r], held[r]>>
      BY <1>9, <2>9, <1>a DEF CreateObjects, Goto
    <3>2. r \in shared'.users <=> r \in shared.users
      BY <1>9, <2>9, <1>a DEF CreateObjects, Goto
    <3> QED
      BY <3>1, <3>2, OwnsWhile DEF Owning
  <2> QED
    BY <2>7, <2>8, <2>9 DEF Owning
<1>10. ASSUME NEW s \in Swapchains, Register(s) PROVE Owning'
  <2>1. UNCHANGED <<held, shared>> /\ \A r \in Swapchains : r # s => pc'[r] = pc[r]
    BY <1>10, <1>a DEF Register, RegisterSwapchain, rendererVars
  <2>2. \/ pc[s] \in Attached /\ pc'[s] \in Attached \union {"destruct"}
        \/ pc[s] = "no hud" /\ pc'[s] = "freed"
    BY <1>10, <1>a DEF Register, RegisterSwapchain, rendererVars, Attached, Presenting
  <2> QED
    BY <2>1, <2>2, OwningMoves
<1>11. ASSUME NEW s \in Swapchains, Prepare(s) PROVE Owning'
  <2>1. UNCHANGED <<held, shared>> /\ \A r \in Swapchains : r # s => pc'[r] = pc[r]
    BY <1>11, <1>a DEF Prepare, Goto, unchangedRuntime, rendererVars
  <2>2. \/ pc[s] \in Attached /\ pc'[s] \in Attached \union {"destruct"}
        \/ pc[s] = "no hud" /\ pc'[s] = "freed"
    BY <1>11, <1>a DEF Prepare, Goto, unchangedRuntime, rendererVars, Attached, Presenting
  <2> QED
    BY <2>1, <2>2, OwningMoves
<1>12. ASSUME NEW s \in Swapchains, ReadSnapshot(s) /\ LoadBefore(s) PROVE Owning'
  <2>1. UNCHANGED <<held, shared>> /\ \A r \in Swapchains : r # s => pc'[r] = pc[r]
    BY <1>12, <1>a DEF ReadSnapshot, LoadBefore, rendererVars
  <2>2. \/ pc[s] \in Attached /\ pc'[s] \in Attached \union {"destruct"}
        \/ pc[s] = "no hud" /\ pc'[s] = "freed"
    BY <1>12, <1>a DEF ReadSnapshot, LoadBefore, rendererVars, Attached, Presenting
  <2> QED
    BY <2>1, <2>2, OwningMoves
<1>13. ASSUME NEW s \in Swapchains, ReadSnapshot(s) /\ Load(s) PROVE Owning'
  <2>1. UNCHANGED <<held, shared>> /\ \A r \in Swapchains : r # s => pc'[r] = pc[r]
    BY <1>13, <1>a DEF ReadSnapshot, Load, rendererVars
  <2>2. \/ pc[s] \in Attached /\ pc'[s] \in Attached \union {"destruct"}
        \/ pc[s] = "no hud" /\ pc'[s] = "freed"
    BY <1>13, <1>a DEF ReadSnapshot, Load, rendererVars, Attached, Presenting
  <2> QED
    BY <2>1, <2>2, OwningMoves
<1>14. ASSUME NEW s \in Swapchains, ReadSnapshot(s) /\ LastLoad(s, "compare") PROVE Owning'
  <2>1. UNCHANGED <<held, shared>> /\ \A r \in Swapchains : r # s => pc'[r] = pc[r]
    BY <1>14, <1>a DEF ReadSnapshot, LastLoad, rendererVars
  <2>2. \/ pc[s] \in Attached /\ pc'[s] \in Attached \union {"destruct"}
        \/ pc[s] = "no hud" /\ pc'[s] = "freed"
    BY <1>14, <1>a DEF ReadSnapshot, LastLoad, rendererVars, Attached, Presenting
  <2> QED
    BY <2>1, <2>2, OwningMoves
<1>15. ASSUME NEW s \in Swapchains, Compare(s) PROVE Owning'
  <2>1. UNCHANGED <<held, shared>> /\ \A r \in Swapchains : r # s => pc'[r] = pc[r]
    BY <1>15, <1>a DEF Compare, Goto, NeedsRebuild, rendererVars
  <2>2. \/ pc[s] \in Attached /\ pc'[s] \in Attached \union {"destruct"}
        \/ pc[s] = "no hud" /\ pc'[s] = "freed"
    BY <1>15, <1>a DEF Compare, Goto, NeedsRebuild, rendererVars, Attached, Presenting
  <2> QED
    BY <2>1, <2>2, OwningMoves
<1>16. ASSUME NEW s \in Swapchains, Rebuild(s) PROVE Owning'
  <2>1. UNCHANGED <<held, shared>> /\ \A r \in Swapchains : r # s => pc'[r] = pc[r]
    BY <1>16, <1>a DEF Rebuild, Goto
  <2>2. \/ pc[s] \in Attached /\ pc'[s] \in Attached \union {"destruct"}
        \/ pc[s] = "no hud" /\ pc'[s] = "freed"
    BY <1>16, <1>a DEF Rebuild, Goto, Attached, Presenting
  <2> QED
    BY <2>1, <2>2, OwningMoves
<1>17. ASSUME NEW s \in Swapchains, Submit(s) PROVE Owning'
  <2>1. UNCHANGED <<held, shared>> /\ \A r \in Swapchains : r # s => pc'[r] = pc[r]
    BY <1>17, <1>a DEF Submit, Goto, unchangedRuntime
  <2>2. \/ pc[s] \in Attached /\ pc'[s] \in Attached \union {"destruct"}
        \/ pc[s] = "no hud" /\ pc'[s] = "freed"
    BY <1>17, <1>a DEF Submit, Goto, unchangedRuntime, Attached, Presenting
  <2> QED
    BY <2>1, <2>2, OwningMoves
<1>18. ASSUME NEW s \in Swapchains, WaitQueueIdle(s) PROVE Owning'
  <2>1. UNCHANGED <<held, shared>> /\ \A r \in Swapchains : r # s => pc'[r] = pc[r]
    BY <1>18, <1>a DEF WaitQueueIdle, Goto, unchangedRuntime, rendererVars
  <2>2. \/ pc[s] \in Attached /\ pc'[s] \in Attached \union {"destruct"}
        \/ pc[s] = "no hud" /\ pc'[s] = "freed"
    BY <1>18, <1>a DEF WaitQueueIdle, Goto, unchangedRuntime, rendererVars, Attached, Presenting
  <2> QED
    BY <2>1, <2>2, OwningMoves
<1>19. ASSUME NEW s \in Swapchains, Unregister(s) /\ UnregisterSwapchain(s, "destruct") PROVE Owning'
  <2>1. UNCHANGED <<held, shared>> /\ \A r \in Swapchains : r # s => pc'[r] = pc[r]
    BY <1>19, <1>a DEF Unregister, UnregisterSwapchain, rendererVars
  <2>2. \/ pc[s] \in Attached /\ pc'[s] \in Attached \union {"destruct"}
        \/ pc[s] = "no hud" /\ pc'[s] = "freed"
    BY <1>19, <1>a DEF Unregister, UnregisterSwapchain, rendererVars, Attached, Presenting
  <2> QED
    BY <2>1, <2>2, OwningMoves
<1>20. ASSUME NEW s \in Swapchains, Unregister(s) /\ NotifySampler(s) PROVE Owning'
  <2>1. UNCHANGED <<held, shared>> /\ \A r \in Swapchains : r # s => pc'[r] = pc[r]
    BY <1>20, <1>a DEF Unregister, NotifySampler, rendererVars
  <2>2. \/ pc[s] \in Attached /\ pc'[s] \in Attached \union {"destruct"}
        \/ pc[s] = "no hud" /\ pc'[s] = "freed"
    BY <1>20, <1>a DEF Unregister, NotifySampler, rendererVars, Attached, Presenting
  <2> QED
    BY <2>1, <2>2, OwningMoves
<1>21. ASSUME NEW s \in Swapchains, Unregister(s) /\ JoinSampler(s, "destruct") PROVE Owning'
  <2>1. UNCHANGED <<held, shared>> /\ \A r \in Swapchains : r # s => pc'[r] = pc[r]
    BY <1>21, <1>a DEF Unregister, JoinSampler, rendererVars
  <2>2. \/ pc[s] \in Attached /\ pc'[s] \in Attached \union {"destruct"}
        \/ pc[s] = "no hud" /\ pc'[s] = "freed"
    BY <1>21, <1>a DEF Unregister, JoinSampler, rendererVars, Attached, Presenting
  <2> QED
    BY <2>1, <2>2, OwningMoves
<1>22. ASSUME NEW s \in Swapchains, Destruct(s) PROVE Owning'
  <2>1. /\ pc[s] = "destruct" /\ pc' = [pc EXCEPT ![s] = "no hud"]
        /\ shared'.users = shared.users \ {s}
    BY <1>22 DEF Destruct, Goto
  <2>2. held[s] \subseteq Kinds(SwapchainObjects) /\ held["device"] \subseteq DeviceKinds
    BY DEF Owning, Owns
  <2>3. /\ held'[s] = {}
        /\ held'["device"] = IF shared'.users = {} THEN {} ELSE held["device"]
        /\ \A r \in Swapchains \ {s} : held'[r] = held[r]
    BY <1>22, <2>1, <2>2, <1>a DEF Destruct, DestroySwapchainObjects, DestroyDeviceObjects
  <2>4. s \in shared.users
    BY <2>1 DEF Owning, Owns
  <2>7. (held["device"] = IF shared.users = {} THEN {} ELSE DeviceKinds)'
    BY <2>1, <2>3, <2>4 DEF Owning
  <2>8. Owns(s)'
    BY <2>1, <2>3, <1>a DEF Owns, Attached, Presenting
  <2>9. ASSUME NEW r \in Swapchains, r # s PROVE Owns(r)'
    <3>1. UNCHANGED <<pc[r], held[r]>>
      BY <2>1, <2>3, <2>9, <1>a
    <3>2. r \in shared'.users <=> r \in shared.users
      BY <2>1, <2>3, <2>9, <1>a
    <3> QED
      BY <3>1, <3>2, OwnsWhile DEF Owning
  <2> QED
    BY <2>7, <2>8, <2>9 DEF Owning
<1>23. ASSUME NEW s \in Swapchains, FreeSwapchain(s) PROVE Owning'
  <2>1. UNCHANGED <<held, shared>> /\ \A r \in Swapchains : r # s => pc'[r] = pc[r]
    BY <1>23, <1>a DEF FreeSwapchain, Goto, unchangedRuntime, rendererVars
  <2>2. \/ pc[s] \in Attached /\ pc'[s] \in Attached \union {"destruct"}
        \/ pc[s] = "no hud" /\ pc'[s] = "freed"
    BY <1>23, <1>a DEF FreeSwapchain, Goto, unchangedRuntime, rendererVars, Attached, Presenting
  <2> QED
    BY <2>1, <2>2, OwningMoves
<1>24. ASSUME NEW s \in Swapchains, NEW i \in Images, AcquireImage(s, i) PROVE Owning'
  <2>1. UNCHANGED <<pc, held, shared>>
    BY <1>24 DEF AcquireImage, runtimeVars
  <2> QED
    BY <2>1, OwnsWhile DEF Owning
<1>25. ASSUME NEW s \in Swapchains, NEW i \in Images, QueuePresent(s, i) PROVE Owning'
  <2>1. UNCHANGED <<held, shared>> /\ \A r \in Swapchains : r # s => pc'[r] = pc[r]
    BY <1>25, <1>a DEF QueuePresent, PayloadIsOver, Goto, unchangedRuntime
  <2>2. \/ pc[s] \in Attached /\ pc'[s] \in Attached \union {"destruct"}
        \/ pc[s] = "no hud" /\ pc'[s] = "freed"
    BY <1>25, <1>a DEF QueuePresent, PayloadIsOver, Goto, unchangedRuntime, Attached, Presenting
  <2> QED
    BY <2>1, <2>2, OwningMoves
<1>26. ASSUME NEW s \in Swapchains, NEW i \in Images, Present(s, i) PROVE Owning'
  <2>1. UNCHANGED <<pc, held, shared>>
    BY <1>26 DEF Present, runtimeVars
  <2> QED
    BY <2>1, OwnsWhile DEF Owning
<1>27. ASSUME NEW s \in Swapchains, NEW i \in Images, GpuFinishes(s, i) PROVE Owning'
  <2>1. UNCHANGED <<pc, held, shared>>
    BY <1>27 DEF GpuFinishes, runtimeVars
  <2> QED
    BY <2>1, OwnsWhile DEF Owning
<1>28. CASE UNCHANGED hudVars
  <2>1. UNCHANGED <<pc, held, shared>>
    BY <1>28 DEF hudVars, runtimeVars, rendererVars
  <2> QED
    BY <2>1, OwnsWhile DEF Owning
<1> QED
  BY <1>1, <1>2, <1>3, <1>4, <1>5, <1>6, <1>7, <1>8, <1>9, <1>10, <1>11, <1>12, <1>13, <1>14, <1>15, <1>16, <1>17, <1>18, <1>19, <1>20, <1>21, <1>22, <1>23, <1>24, <1>25, <1>26, <1>27, <1>28
     DEF HudNext, Sampler, SamplerStep, SwapchainStep, ReadSnapshot, Unregister

-----------------------------------------------------------------------------
(* What the GPU executes.                                                  *)

Built(s, i) == overlay[s][i].built
Last(s, i) == overlay[s][i].last

(* An overlay is submitted only once its vertices were built, and outside  *)
(* the presenting states of a swapchain its queue has been idle.           *)
DrawsBuilt(s) ==
    /\ pc[s] \notin Presenting \union {"ready"} =>
          \A i \in Images : gpu[s][i] = "idle"
    /\ \A i \in Images :
          /\ gpu[s][i] = "drawing" => Built(s, i) # Unset
          /\ Last(s, i) # Unset => Built(s, i) # Unset
    /\ pc[s] = "submit with overlay" => Built(s, current[s]) # Unset

Drawing == \A s \in Swapchains : DrawsBuilt(s)

(* A swapchain nobody touches is not disturbed.                            *)
LEMMA DrawsBuiltWhile ==
    ASSUME NEW s \in Swapchains, DrawsBuilt(s),
           UNCHANGED <<pc[s], gpu[s], overlay[s], current[s]>>
    PROVE  DrawsBuilt(s)'
<1>1. \A i : Built(s, i)' = Built(s, i) /\ Last(s, i)' = Last(s, i)
  BY DEF Built, Last
<1> QED
  BY <1>1 DEF DrawsBuilt

(* Nor is one whose thread moves on where nothing is submitted.            *)
LEMMA DrawingMoves ==
    ASSUME Drawing, UNCHANGED <<gpu, overlay, current>>, NEW s \in Swapchains,
           \A r \in Swapchains : r # s => pc'[r] = pc[r],
           pc'[s] # "submit with overlay",
           pc[s] \in Presenting \union {"ready"} => pc'[s] \in Presenting \union {"ready"}
    PROVE  Drawing'
<1>1. \A r \in Swapchains : r # s => DrawsBuilt(r)'
  BY DrawsBuiltWhile DEF Drawing
<1>2. \A i : Built(s, i)' = Built(s, i) /\ Last(s, i)' = Last(s, i)
  BY DEF Built, Last
<1>3. DrawsBuilt(s)'
  BY <1>2 DEF Drawing, DrawsBuilt
<1> QED
  BY <1>1, <1>3 DEF Drawing

(* Every step keeps it so, when everything is presented on m_queue.        *)
LEMMA DrawingStep ==
    ASSUME \A s \in Swapchains : QueueOf[s] = "m_queue",
           RuntimeShape, RendererShape, Presented, Drawing, [HudNext]_hudVars
    PROVE  Drawing'
<1>a. /\ pc \in [Swapchains -> {"unattached", "create", "register", "ready", "prepare", "snapshot",
              "compare", "rebuild", "submit", "submit with overlay", "unregister",
              "notify", "join", "destruct", "no hud", "freed"}]
      /\ gpu \in [Swapchains -> [Images -> {"idle", "running", "drawing"}]]
      /\ DOMAIN current = Swapchains
      /\ DOMAIN overlay = Swapchains /\ \A s \in Swapchains : DOMAIN overlay[s] = Images
      /\ \A s \in Swapchains : pc[s] \in Presenting => current[s] \in Images
      /\ \A s \in Swapchains : reading[s].after # Unset
  <2>1. MaxSamples \in Nat
    BY HudAssumption
  <2>2. \A s \in Swapchains : reading[s].after \in 0 .. 2 * MaxSamples
    BY DEF RuntimeShape, Readings
  <2>3. \A s \in Swapchains : reading[s].after # Unset
    BY <2>1, <2>2 DEF Unset
  <2> QED
    BY <2>3 DEF RuntimeShape, RendererShape, Presented
<1>1. CASE Sampler /\ PublishBegins
  <2>1. UNCHANGED <<pc, gpu, overlay, current>>
    BY <1>1 DEF Sampler, PublishBegins, rendererVars, SamplerTo
  <2> QED
    BY <2>1, DrawsBuiltWhile DEF Drawing
<1>2. CASE Sampler /\ StoreWord
  <2>1. UNCHANGED <<pc, gpu, overlay, current>>
    BY <1>2 DEF Sampler, StoreWord, rendererVars
  <2> QED
    BY <2>1, DrawsBuiltWhile DEF Drawing
<1>3. CASE Sampler /\ PublishEnds
  <2>1. UNCHANGED <<pc, gpu, overlay, current>>
    BY <1>3 DEF Sampler, PublishEnds, rendererVars, SamplerTo
  <2> QED
    BY <2>1, DrawsBuiltWhile DEF Drawing
<1>4. CASE Sampler /\ TestStopping
  <2>1. UNCHANGED <<pc, gpu, overlay, current>>
    BY <1>4 DEF Sampler, TestStopping, rendererVars, SamplerTo
  <2> QED
    BY <2>1, DrawsBuiltWhile DEF Drawing
<1>5. CASE Sampler /\ FallAsleep
  <2>1. UNCHANGED <<pc, gpu, overlay, current>>
    BY <1>5 DEF Sampler, FallAsleep, rendererVars, SamplerTo
  <2> QED
    BY <2>1, DrawsBuiltWhile DEF Drawing
<1>6. CASE Sampler /\ IntervalEnds
  <2>1. UNCHANGED <<pc, gpu, overlay, current>>
    BY <1>6 DEF Sampler, IntervalEnds, rendererVars, SamplerTo
  <2> QED
    BY <2>1, DrawsBuiltWhile DEF Drawing
<1>7. CASE Sampler /\ SampleAgain
  <2>1. UNCHANGED <<pc, gpu, overlay, current>>
    BY <1>7 DEF Sampler, SampleAgain, rendererVars, SamplerTo
  <2> QED
    BY <2>1, DrawsBuiltWhile DEF Drawing
<1>8. ASSUME NEW s \in Swapchains, AcquireShared(s) PROVE Drawing'
  <2>1. /\ pc'[s] \in {"create", "no hud"} /\ UNCHANGED <<gpu, overlay, current>>
        /\ \A r \in Swapchains : r # s => pc'[r] = pc[r]
    BY <1>8, <1>a DEF AcquireShared, Goto, unchangedRuntime
  <2>2. pc[s] \in Presenting \union {"ready"} => pc'[s] \in Presenting \union {"ready"}
    BY <1>8, <2>1 DEF AcquireShared, Presenting
  <2> QED
    BY <2>1, <2>2, DrawingMoves
<1>9. ASSUME NEW s \in Swapchains, CreateObjects(s) PROVE Drawing'
  <2>1. /\ pc'[s] \in {"register", "destruct"} /\ UNCHANGED <<gpu, overlay, current>>
        /\ \A r \in Swapchains : r # s => pc'[r] = pc[r]
    BY <1>9, <1>a DEF CreateObjects, Goto, unchangedRuntime
  <2>2. pc[s] \in Presenting \union {"ready"} => pc'[s] \in Presenting \union {"ready"}
    BY <1>9, <2>1 DEF CreateObjects, Presenting
  <2> QED
    BY <2>1, <2>2, DrawingMoves
<1>10. ASSUME NEW s \in Swapchains, Register(s) PROVE Drawing'
  <2>1. /\ pc'[s] \in {"ready", "destruct"} /\ UNCHANGED <<gpu, overlay, current>>
        /\ \A r \in Swapchains : r # s => pc'[r] = pc[r]
    BY <1>10, <1>a DEF Register, RegisterSwapchain, rendererVars
  <2>2. pc[s] \in Presenting \union {"ready"} => pc'[s] \in Presenting \union {"ready"}
    BY <1>10, <2>1 DEF Register, RegisterSwapchain, Presenting
  <2> QED
    BY <2>1, <2>2, DrawingMoves
<1>11. ASSUME NEW s \in Swapchains, Prepare(s) PROVE Drawing'
  <2>1. /\ pc'[s] \in {"snapshot", "submit"} /\ UNCHANGED <<gpu, overlay, current>>
        /\ \A r \in Swapchains : r # s => pc'[r] = pc[r]
    BY <1>11, <1>a DEF Prepare, Goto, unchangedRuntime, rendererVars
  <2>2. pc[s] \in Presenting \union {"ready"} => pc'[s] \in Presenting \union {"ready"}
    BY <1>11, <2>1 DEF Prepare, Presenting
  <2> QED
    BY <2>1, <2>2, DrawingMoves
<1>12. ASSUME NEW s \in Swapchains, ReadSnapshot(s) /\ LoadBefore(s) PROVE Drawing'
  <2>1. UNCHANGED <<pc, gpu, overlay, current>>
    BY <1>12 DEF ReadSnapshot, LoadBefore, rendererVars
  <2> QED
    BY <2>1, DrawsBuiltWhile DEF Drawing
<1>13. ASSUME NEW s \in Swapchains, ReadSnapshot(s) /\ Load(s) PROVE Drawing'
  <2>1. UNCHANGED <<pc, gpu, overlay, current>>
    BY <1>13 DEF ReadSnapshot, Load, rendererVars
  <2> QED
    BY <2>1, DrawsBuiltWhile DEF Drawing
<1>14. ASSUME NEW s \in Swapchains, ReadSnapshot(s) /\ LastLoad(s, "compare") PROVE Drawing'
  <2>1. /\ pc'[s] \in {"compare", "snapshot"} /\ UNCHANGED <<gpu, overlay, current>>
        /\ \A r \in Swapchains : r # s => pc'[r] = pc[r]
    BY <1>14, <1>a DEF ReadSnapshot, LastLoad, rendererVars
  <2>2. pc[s] \in Presenting \union {"ready"} => pc'[s] \in Presenting \union {"ready"}
    BY <1>14, <2>1 DEF ReadSnapshot, LastLoad, Presenting
  <2> QED
    BY <2>1, <2>2, DrawingMoves
<1>15. ASSUME NEW s \in Swapchains, Compare(s) PROVE Drawing'
  <2>1. /\ pc'[s] \in {"rebuild", "submit with overlay"} /\ UNCHANGED <<gpu, overlay, current>>
        /\ pc'[s] = "submit with overlay" => overlay[s][current[s]].last # Unset
        /\ current[s] \in Images
    BY <1>15, <1>a DEF Compare, Goto, NeedsRebuild, rendererVars, Presenting
  <2>2. /\ \A i : Built(s, i)' = Built(s, i) /\ Last(s, i)' = Last(s, i)
        /\ pc'[s] = "submit with overlay" => Last(s, current[s]) # Unset
    BY <2>1 DEF Built, Last
  <2>8. DrawsBuilt(s)'
    BY <2>1, <2>2 DEF Drawing, DrawsBuilt, Presenting
  <2>9. ASSUME NEW r \in Swapchains, r # s PROVE DrawsBuilt(r)'
    <3>1. UNCHANGED <<pc[r], gpu[r], overlay[r], current[r]>>
      BY <1>15, <2>9, <1>a DEF Compare, Goto, rendererVars
    <3> QED
      BY <3>1, DrawsBuiltWhile DEF Drawing
  <2> QED
    BY <2>8, <2>9 DEF Drawing
<1>16. ASSUME NEW s \in Swapchains, Rebuild(s) PROVE Drawing'
  <2> DEFINE made == reading[s].after
             c == current[s]
  <2>1. /\ made # Unset /\ c \in Images /\ pc[s] = "rebuild"
        /\ pc'[s] \in {"submit with overlay", "submit"}
        /\ UNCHANGED <<gpu, current>>
    BY <1>16, <1>a DEF Rebuild, Goto, Presenting
  <2>2. \A j \in Images : j # c => overlay'[s][j] = overlay[s][j]
    <3>1. CASE overlay' = [overlay EXCEPT ![s][c] = [built |-> made, last |-> made]]
      BY <3>1, <1>a
    <3>2. CASE overlay' = [overlay EXCEPT ![s][c].built = made]
      <4>1. overlay' = [overlay EXCEPT ![s] = [overlay[s] EXCEPT ![c] =
                                                  [overlay[s][c] EXCEPT !.built = made]]]
        BY <3>2, <1>a
      <4> QED
        BY <4>1, <1>a
    <3> QED
      BY <1>16, <3>1, <3>2 DEF Rebuild
  <2>3. overlay'[s][c].built = made
    <3>1. CASE overlay' = [overlay EXCEPT ![s][c] = [built |-> made, last |-> made]]
      BY <3>1, <2>1, <1>a
    <3>2. CASE overlay' = [overlay EXCEPT ![s][c].built = made]
      <4> DEFINE G == 0 .. 2 * MaxSamples \union {Unset}
      <4>0. overlay \in [Swapchains -> [Images -> [built : G, last : G]]]
        BY DEF RendererShape
      <4> HIDE DEF G
      <4>1. overlay[s][c] \in [built : G, last : G]
        BY <2>1, <4>0
      <4>2. [overlay[s][c] EXCEPT !.built = made].built = made
        BY <4>1
      <4>3. overlay'[s][c] = [overlay[s][c] EXCEPT !.built = made]
        BY <3>2, <2>1, <1>a
      <4> QED
        BY <4>2, <4>3
    <3> QED
      BY <1>16, <3>1, <3>2 DEF Rebuild
  <2>4. /\ Built(s, c)' = made
        /\ \A j \in Images : j # c => Built(s, j)' = Built(s, j) /\ Last(s, j)' = Last(s, j)
    BY <2>1, <2>2, <2>3 DEF Built, Last
  <2> HIDE DEF made
  <2>8. DrawsBuilt(s)'
    BY <2>1, <2>4 DEF Drawing, DrawsBuilt, Presenting
  <2>9. ASSUME NEW r \in Swapchains, r # s PROVE DrawsBuilt(r)'
    <3>1. UNCHANGED <<pc[r], gpu[r], overlay[r], current[r]>>
      BY <1>16, <2>9, <1>a DEF Rebuild, Goto
    <3> QED
      BY <3>1, DrawsBuiltWhile DEF Drawing
  <2> QED
    BY <2>8, <2>9 DEF Drawing
<1>17. ASSUME NEW s \in Swapchains, Submit(s) PROVE Drawing'
  <2>1. /\ current[s] \in Images /\ pc[s] \in Presenting /\ pc'[s] = "ready"
        /\ pc[s] # "submit" => pc[s] = "submit with overlay"
        /\ UNCHANGED overlay
    BY <1>17, <1>a DEF Submit, Goto, Presenting
  <2>2. \A i : Built(s, i)' = Built(s, i) /\ Last(s, i)' = Last(s, i)
    BY <2>1 DEF Built, Last
  <2>3. \A j \in Images :
            \/ gpu'[s][j] = gpu[s][j]
            \/ gpu'[s][j] = "running"
            \/ pc[s] = "submit with overlay" /\ j = current[s]
    <3>1. \/ UNCHANGED gpu
          \/ gpu' = [gpu EXCEPT ![s][current[s]] = IF pc[s] = "submit" THEN "running"
                                                                      ELSE "drawing"]
      BY <1>17 DEF Submit
    <3>2. CASE UNCHANGED gpu
      BY <3>2
    <3>3. CASE gpu' = [gpu EXCEPT ![s][current[s]] = IF pc[s] = "submit" THEN "running"
                                                                          ELSE "drawing"]
      BY <3>3, <2>1, <1>a
    <3> QED
      BY <3>1, <3>2, <3>3
  <2>8. DrawsBuilt(s)'
    BY <2>1, <2>2, <2>3 DEF Drawing, DrawsBuilt
  <2>9. ASSUME NEW r \in Swapchains, r # s PROVE DrawsBuilt(r)'
    <3>1. UNCHANGED <<pc[r], gpu[r], overlay[r], current[r]>>
      BY <1>17, <2>9, <1>a DEF Submit, Goto, unchangedRuntime
    <3> QED
      BY <3>1, DrawsBuiltWhile DEF Drawing
  <2> QED
    BY <2>8, <2>9 DEF Drawing
<1>18. ASSUME NEW s \in Swapchains, WaitQueueIdle(s) PROVE Drawing'
  <2>1. \A i \in Images : gpu[s][i] = "idle"
    BY <1>18 DEF WaitQueueIdle, QueueIsIdle
  <2>2. pc'[s] = "unregister" /\ UNCHANGED <<gpu, overlay, current>>
    BY <1>18, <1>a DEF WaitQueueIdle, Goto, rendererVars
  <2>3. \A i : Built(s, i)' = Built(s, i) /\ Last(s, i)' = Last(s, i)
    BY <2>2 DEF Built, Last
  <2>8. DrawsBuilt(s)'
    BY <2>1, <2>2, <2>3 DEF Drawing, DrawsBuilt
  <2>9. ASSUME NEW r \in Swapchains, r # s PROVE DrawsBuilt(r)'
    <3>1. UNCHANGED <<pc[r], gpu[r], overlay[r], current[r]>>
      BY <1>18, <2>9, <1>a DEF WaitQueueIdle, Goto, unchangedRuntime, rendererVars
    <3> QED
      BY <3>1, DrawsBuiltWhile DEF Drawing
  <2> QED
    BY <2>8, <2>9 DEF Drawing
<1>19. ASSUME NEW s \in Swapchains, Unregister(s) /\ UnregisterSwapchain(s, "destruct") PROVE Drawing'
  <2>1. /\ pc'[s] \in {"destruct", "notify"} /\ UNCHANGED <<gpu, overlay, current>>
        /\ \A r \in Swapchains : r # s => pc'[r] = pc[r]
    BY <1>19, <1>a DEF Unregister, UnregisterSwapchain, rendererVars
  <2>2. pc[s] \in Presenting \union {"ready"} => pc'[s] \in Presenting \union {"ready"}
    BY <1>19, <2>1 DEF Unregister, UnregisterSwapchain, rendererVars, Presenting
  <2> QED
    BY <2>1, <2>2, DrawingMoves
<1>20. ASSUME NEW s \in Swapchains, Unregister(s) /\ NotifySampler(s) PROVE Drawing'
  <2>1. /\ pc'[s] \in {"join"} /\ UNCHANGED <<gpu, overlay, current>>
        /\ \A r \in Swapchains : r # s => pc'[r] = pc[r]
    BY <1>20, <1>a DEF Unregister, NotifySampler, rendererVars
  <2>2. pc[s] \in Presenting \union {"ready"} => pc'[s] \in Presenting \union {"ready"}
    BY <1>20, <2>1 DEF Unregister, NotifySampler, rendererVars, Presenting
  <2> QED
    BY <2>1, <2>2, DrawingMoves
<1>21. ASSUME NEW s \in Swapchains, Unregister(s) /\ JoinSampler(s, "destruct") PROVE Drawing'
  <2>1. /\ pc'[s] \in {"destruct"} /\ UNCHANGED <<gpu, overlay, current>>
        /\ \A r \in Swapchains : r # s => pc'[r] = pc[r]
    BY <1>21, <1>a DEF Unregister, JoinSampler, rendererVars
  <2>2. pc[s] \in Presenting \union {"ready"} => pc'[s] \in Presenting \union {"ready"}
    BY <1>21, <2>1 DEF Unregister, JoinSampler, rendererVars, Presenting
  <2> QED
    BY <2>1, <2>2, DrawingMoves
<1>22. ASSUME NEW s \in Swapchains, Destruct(s) PROVE Drawing'
  <2>1. /\ pc'[s] \in {"no hud"} /\ UNCHANGED <<gpu, overlay, current>>
        /\ \A r \in Swapchains : r # s => pc'[r] = pc[r]
    BY <1>22, <1>a DEF Destruct, Goto, unchangedRuntime
  <2>2. pc[s] \in Presenting \union {"ready"} => pc'[s] \in Presenting \union {"ready"}
    BY <1>22, <2>1 DEF Destruct, Presenting
  <2> QED
    BY <2>1, <2>2, DrawingMoves
<1>23. ASSUME NEW s \in Swapchains, FreeSwapchain(s) PROVE Drawing'
  <2>1. /\ pc'[s] \in {"freed"} /\ UNCHANGED <<gpu, overlay, current>>
        /\ \A r \in Swapchains : r # s => pc'[r] = pc[r]
    BY <1>23, <1>a DEF FreeSwapchain, Goto, unchangedRuntime, rendererVars
  <2>2. pc[s] \in Presenting \union {"ready"} => pc'[s] \in Presenting \union {"ready"}
    BY <1>23, <2>1 DEF FreeSwapchain, Presenting
  <2> QED
    BY <2>1, <2>2, DrawingMoves
<1>24. ASSUME NEW s \in Swapchains, NEW i \in Images, AcquireImage(s, i) PROVE Drawing'
  <2>1. UNCHANGED <<pc, gpu, overlay, current>>
    BY <1>24 DEF AcquireImage, runtimeVars
  <2> QED
    BY <2>1, DrawsBuiltWhile DEF Drawing
<1>25. ASSUME NEW s \in Swapchains, NEW i \in Images, QueuePresent(s, i) PROVE Drawing'
  <2>1. pc'[s] = "prepare" /\ UNCHANGED <<gpu, overlay>>
    BY <1>25, <1>a DEF QueuePresent, Goto
  <2>2. \A j : Built(s, j)' = Built(s, j) /\ Last(s, j)' = Last(s, j)
    BY <2>1 DEF Built, Last
  <2>8. DrawsBuilt(s)'
    BY <2>1, <2>2 DEF Drawing, DrawsBuilt, Presenting
  <2>9. ASSUME NEW r \in Swapchains, r # s PROVE DrawsBuilt(r)'
    <3>1. UNCHANGED <<pc[r], gpu[r], overlay[r], current[r]>>
      BY <1>25, <2>9, <1>a DEF QueuePresent, PayloadIsOver, Goto, unchangedRuntime
    <3> QED
      BY <3>1, DrawsBuiltWhile DEF Drawing
  <2> QED
    BY <2>8, <2>9 DEF Drawing
<1>26. ASSUME NEW s \in Swapchains, NEW i \in Images, Present(s, i) PROVE Drawing'
  <2>1. UNCHANGED <<pc, gpu, overlay, current>>
    BY <1>26 DEF Present, runtimeVars
  <2> QED
    BY <2>1, DrawsBuiltWhile DEF Drawing
<1>27. ASSUME NEW s \in Swapchains, NEW i \in Images, GpuFinishes(s, i) PROVE Drawing'
  <2>1. UNCHANGED <<pc, overlay, current>>
    BY <1>27 DEF GpuFinishes, runtimeVars
  <2>2. \A j \in Images : gpu'[s][j] = gpu[s][j] \/ gpu'[s][j] = "idle"
    BY <1>27, <1>a DEF GpuFinishes
  <2>3. \A j : Built(s, j)' = Built(s, j) /\ Last(s, j)' = Last(s, j)
    BY <2>1 DEF Built, Last
  <2>4. \A j \in Images : gpu'[s][j] # "idle" => gpu'[s][j] = gpu[s][j]
    BY <2>2
  <2>8. DrawsBuilt(s)'
    <3>1. DrawsBuilt(s)
      BY DEF Drawing
    <3>2. \A j \in Images : gpu'[s][j] = "drawing" => Built(s, j)' # Unset
      BY <2>3, <2>4, <3>1 DEF DrawsBuilt
    <3>3. pc'[s] \notin Presenting \union {"ready"} => \A j \in Images : gpu'[s][j] = "idle"
      BY <2>1, <2>4, <3>1 DEF DrawsBuilt
    <3> QED
      BY <2>1, <2>3, <3>1, <3>2, <3>3 DEF DrawsBuilt
  <2>9. ASSUME NEW r \in Swapchains, r # s PROVE DrawsBuilt(r)'
    <3>1. UNCHANGED <<pc[r], gpu[r], overlay[r], current[r]>>
      BY <1>27, <2>9, <1>a DEF GpuFinishes, runtimeVars
    <3> QED
      BY <3>1, DrawsBuiltWhile DEF Drawing
  <2> QED
    BY <2>8, <2>9 DEF Drawing
<1>28. CASE UNCHANGED hudVars
  <2>1. UNCHANGED <<pc, gpu, overlay, current>>
    BY <1>28 DEF hudVars, runtimeVars, rendererVars
  <2> QED
    BY <2>1, DrawsBuiltWhile DEF Drawing
<1> QED
  BY <1>1, <1>2, <1>3, <1>4, <1>5, <1>6, <1>7, <1>8, <1>9, <1>10, <1>11, <1>12, <1>13, <1>14, <1>15, <1>16, <1>17, <1>18, <1>19, <1>20, <1>21, <1>22, <1>23, <1>24, <1>25, <1>26, <1>27, <1>28
     DEF HudNext, Sampler, SamplerStep, SwapchainStep, ReadSnapshot, Unregister

-----------------------------------------------------------------------------
(* The theorems.                                                           *)

HudInv ==
    /\ RuntimeShape /\ RendererShape
    /\ Publication /\ Presented /\ Sampling /\ Owning

(* A HUD nobody uses yet is in order.                                      *)
LEMMA HudInitially ==
    ASSUME InitRenderer
    PROVE  HudInv /\ Readers /\ Drawing
<1>0. MaxSamples \in Nat /\ 0 \in 0 .. 2 * MaxSamples /\ 0 \in 0 .. MaxSamples
  BY HudAssumption
<1>1. RuntimeShape
  <2>1. sampler \in Samplers
    BY DEF InitRenderer, InitRuntime, Samplers
  <2>2. words \in [Words -> 0 .. MaxSamples] /\ generation \in 0 .. 2 * MaxSamples
    BY <1>0 DEF InitRenderer, InitRuntime
  <2>3. reading \in [Swapchains -> Readings]
    BY NotReadingShape DEF InitRenderer, InitRuntime
  <2>4. records \in Seq(Swapchains) /\ lifecycle \in Swapchains \union {Nobody}
    BY EmptySeq DEF InitRenderer, InitRuntime
  <2> QED
    BY <2>1, <2>2, <2>3, <2>4 DEF InitRenderer, RuntimeShape
<1>2. RendererShape
  <2>1. shared \in [users : SUBSET Swapchains, callbacks : Swapchains \union {Nobody}]
    BY DEF InitRenderer
  <2>2. [built |-> Unset, last |-> Unset] \in
            [built : 0 .. 2 * MaxSamples \union {Unset},
             last : 0 .. 2 * MaxSamples \union {Unset}]
    OBVIOUS
  <2>3. overlay \in [Swapchains -> [Images ->
            [built : 0 .. 2 * MaxSamples \union {Unset},
             last : 0 .. 2 * MaxSamples \union {Unset}]]]
    BY <2>2 DEF InitRenderer
  <2> QED
    BY <2>1, <2>3 DEF InitRenderer, RendererShape
<1>3. Publication
  BY DEF InitRenderer, InitRuntime, Publication
<1>4. Presented
  BY RendererAssumption DEF InitRenderer, Presented, Presenting
<1>5. Sampling
  BY DEF InitRenderer, InitRuntime, Sampling
<1>6. Owning
  <2>1. "device" \in Owners /\ Swapchains \subseteq Owners
    BY DEF Owners
  <2>2. shared.users = {} /\ \A o \in Owners : held[o] = {}
    BY DEF InitRenderer
  <2>3. \A s \in Swapchains : pc[s] = "unattached"
    BY DEF InitRenderer
  <2> QED
    BY <2>1, <2>2, <2>3 DEF Owning, Owns, Attached, Presenting
<1>7. Readers
  <2>1. \A s \in Swapchains : pc[s] = "unattached" /\ reading[s] = NotReading
    BY DEF InitRenderer, InitRuntime
  <2>2. NotReading.left = {}
    BY DEF NotReading
  <2> QED
    BY <2>1, <2>2 DEF Readers, ReaderIsFine
<1>8. Drawing
  <2>1. ASSUME NEW s \in Swapchains PROVE DrawsBuilt(s)
    <3>1. pc[s] = "unattached" /\ \A i \in Images : gpu[s][i] = "idle"
      BY DEF InitRenderer
    <3>2. \A i \in Images : Last(s, i) = Unset
      BY DEF InitRenderer, Last
    <3> QED
      BY <3>1, <3>2 DEF DrawsBuilt
  <2> QED
    BY <2>1 DEF Drawing
<1> QED
  BY <1>1, <1>2, <1>3, <1>4, <1>5, <1>6, <1>7, <1>8 DEF HudInv

(* Every step keeps it in order.                                           *)
LEMMA HudStep ==
    ASSUME HudInv, [HudNext]_hudVars
    PROVE  HudInv'
BY RuntimeStep, RendererStep, PresentedStep, SamplingStep, OwningStep DEF HudInv

(* The HUD keeps its state well formed: a publication is being written     *)
(* exactly while its generation is odd (hud_types.hpp, publish), an image  *)
(* being presented is acquired and idle, the sampler lives as long as a    *)
(* swapchain is registered, and objects exist as long as they are used.    *)
THEOREM HudIsInOrder == HudSpec => []HudInv
<1>1. InitRenderer => HudInv
  BY HudInitially
<1>2. HudInv /\ [HudNext]_hudVars => HudInv'
  BY HudStep
<1> QED
  BY <1>1, <1>2, PTL DEF HudSpec

(* Whoever rewrites the vertices of an image finds the GPU done with them: *)
(* no fence is waited for in prepare, the image being presented is enough. *)
THEOREM VerticesStayStill == HudSpec => []VerticesAreStill
<1>1. HudInv => VerticesAreStill
  BY DEF HudInv, Presented, Presenting, VerticesAreStill
<1> QED
  BY <1>1, HudIsInOrder, PTL

(* Every failure of an attach and every teardown gives back what was made: *)
(* driver objects, the sampler thread and the sensors it holds open.       *)
THEOREM HudLeaksNothing == HudSpec => []NothingIsLeaked
<1>1. HudInv => NothingIsLeaked
  BY DEF HudInv, Owning, Owns, Sampling, NothingIsLeaked
<1> QED
  BY <1>1, HudIsInOrder, PTL

(* No word of a snapshot that SnapshotPublication::read returns is older   *)
(* than the sample its generation names, in whatever order the machine     *)
(* performs the relaxed loads and stores: last_generation files no picture *)
(* of old metrics under a new generation.                                  *)
THEOREM SnapshotsAreCurrent == HudSpec => []SnapshotIsCurrent
<1>1. InitRenderer => HudInv /\ Readers
  BY HudInitially
<1>2. HudInv /\ Readers /\ [HudNext]_hudVars => (HudInv /\ Readers)'
  BY HudStep, ReadersStep DEF HudInv
<1>3. Readers => SnapshotIsCurrent
  BY DEF Readers, ReaderIsFine, SnapshotIsCurrent
<1> QED
  BY <1>1, <1>2, <1>3, PTL DEF HudSpec

(* An overlay the GPU executes was built and names objects that exist: the *)
(* teardown of swapchain_base waits for m_queue before it destroys the HUD *)
(* of a swapchain, and what is presented on m_queue has finished by then.  *)
THEOREM OverlaysReadLiveData ==
    ASSUME \A s \in Swapchains : QueueOf[s] = "m_queue"
    PROVE  HudSpec => []OverlayReadsLiveData
<1>1. InitRenderer => HudInv /\ Drawing
  BY HudInitially
<1>2. HudInv /\ Drawing /\ [HudNext]_hudVars => (HudInv /\ Drawing)'
  BY HudStep, DrawingStep DEF HudInv
<1>3. HudInv /\ Drawing => OverlayReadsLiveData
  <2> SUFFICES ASSUME HudInv, Drawing, NEW s \in Swapchains, NEW i \in Images,
                      gpu[s][i] = "drawing"
               PROVE  /\ overlay[s][i].built # Unset
                      /\ Kinds(SwapchainObjects) \subseteq held[s]
                      /\ DeviceKinds \subseteq held["device"]
    BY DEF OverlayReadsLiveData
  <2>1. pc[s] \in Presenting \union {"ready"} /\ Built(s, i) # Unset
    BY DEF Drawing, DrawsBuilt
  <2>2. pc[s] \in Attached
    BY <2>1 DEF Attached
  <2>3. held[s] = Kinds(SwapchainObjects) /\ s \in shared.users
    BY <2>2 DEF HudInv, Owning, Owns
  <2>4. held["device"] = DeviceKinds
    BY <2>3 DEF HudInv, Owning
  <2> QED
    BY <2>1, <2>3, <2>4 DEF Built
<1> QED
  BY <1>1, <1>2, <1>3, PTL DEF HudSpec

=============================================================================
