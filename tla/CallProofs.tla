------------------------------ MODULE CallProofs ------------------------------
(* Two calls on swapchains.  First the resources of a swapchain of any     *)
(* back end, for any number of images, from vkCreateSwapchainKHR to        *)
(* vkDestroySwapchainKHR, whatever step of the creation fails: what is     *)
(* left behind, what goes before what, and that whoever gets a unit finds  *)
(* an image.  Then vkQueuePresentKHR as the GPU sees it, for any           *)
(* swapchains and images: its semaphores and fences.                       *)
EXTENDS SwapchainCreation, PresentCalls, Integers, FiniteSetTheorems, SequenceTheorems, TLAPS

(* The stages of a call: before the images, at one of them, after them, in *)
(* the destructors.                                                        *)
Early == {"extensions", "queue", "allocator", "path", "shm_presenter", "mode",
          "event_thread", "flip_thread", "semaphore"}
Making == {"image", "allocate", "semaphores"}
Made == {"queue_data", "link", "register", "live"}
Ending == {"destructor", "teardown", "drain", "images", "members"}

(* What the swapchain object holds, and what an image does.                *)
OwnKinds == {"object", "wl_queue", "allocator", "special_event", "gc", "xsync_fence",
             "event_thread", "flip_thread", "free_semaphore", "queue", "hud", "registered"}
ImageKinds == DataResources \cup {"image", "present_semaphore", "present_fence_wait"}

(* What the proofs need of the variables' types.                           *)
CallShape ==
    /\ at \in {"idle"} \cup Early \cup Making \cup Made \cup Ending
    /\ path \in {"headless", "wayland", "x11", "dri3", "bridge", "shm"}
Numbers ==
    /\ count \in Slots /\ next \in Slots
    /\ units \in Nat /\ drain \in Nat /\ error \in BOOLEAN
ImageShape ==
    /\ status \in [Slots -> {"INVALID", "UNALLOCATED", "FREE", "ACQUIRED"}]
    /\ held \in [Slots -> SUBSET ImageKinds]
CreationTypeOK == CallShape /\ Numbers /\ ImageShape /\ own \subseteq OwnKinds

(* Which display a call is for at each of its stages.                      *)
PathFits ==
    /\ at = "extensions" => path \in {"headless", "wayland", "x11"}
    /\ at = "queue" => path = "wayland"
    /\ at = "allocator" => path \in {"wayland", "x11"}
    /\ at = "path" => path = "x11"
    /\ at = "shm_presenter" => path = "shm"
    /\ at \in {"mode", "event_thread"} => X11
    /\ at \in {"flip_thread", "semaphore"} \cup Making \cup Made => path # "x11"
    /\ at \in Making \cup {"images"} => next =< count

(* What the swapchain object holds at each stage.                          *)
OwnFits ==
    /\ at = "idle" => own = {}
    /\ "allocator" \in own => path # "headless"
    /\ "gc" \in own => path = "shm"
    /\ "event_thread" \in own => X11 /\ at \notin {"teardown", "drain", "images", "members"}
    /\ "flip_thread" \in own => at \notin {"images", "members"}
    /\ "hud" \in own =>
          path # "headless" /\ at \in Made \cup {"destructor", "teardown", "drain"}
    /\ "registered" \in own => at = "live"
    /\ path = "wayland" /\ at \in {"allocator", "flip_thread", "semaphore"} \cup Making \cup Made
          => "wl_queue" \in own

(* What image i holds at each stage.                                       *)
Begun(i) ==
    \/ at \in Making /\ i < next
    \/ at \in {"allocate", "semaphores"} /\ i = next
    \/ at \in Made /\ i =< count
Released(i) ==
    \/ at = "images" /\ i < next
    \/ at = "members"

Dropped(i) ==
    Refused(i) /\ at \in {"live", "destructor", "teardown", "drain"}

ImageFits(i) ==
    /\ held[i] # {} \/ status[i] # "INVALID" => i =< count
    /\ held[i] \cap DataResources # {} => "data" \in held[i]
    /\ status[i] # "INVALID" /\ path # "headless" => "data" \in held[i]
    /\ "wl_buffer" \in held[i] => "wl_queue" \in own
    /\ status[i] = "UNALLOCATED" => deferred
    /\ at = "allocate" /\ i = next => status[i] = "INVALID"
    /\ "image" \in held[i] /\ status[i] = "INVALID" =>
          path = "shm" \/ (at = "allocate" /\ i = next)
    /\ at \in Early \cup {"idle"} \/ (at \in Making /\ i >= next /\ ~Begun(i)) =>
          held[i] = {} /\ status[i] = "INVALID"
    /\ Begun(i) /\ path # "headless" => {"data", "image"} \subseteq held[i] \/ Dropped(i)
    /\ "hud" \in own /\ i =< count => "image" \in held[i] \/ Dropped(i)
    /\ Released(i) => status[i] = "INVALID" /\
             (held[i] = {} \/ (path = "shm" /\ held[i] = {"image"}))

(* All of it, the losses included: the inductive invariant.                *)
Holdings == \A i \in Slots : ImageFits(i)

CreationInv == CreationTypeOK /\ PathFits /\ OwnFits /\ Holdings /\ NothingElseIsLost

(* What an image gets last.                                                *)
ImageSemaphores == {"present_semaphore", "present_fence_wait"}
-----------------------------------------------------------------------------
(* What a call gets before it fails.                                       *)

(* The resources of a sequence, and of two one after the other.            *)
LEMMA ElementsOfConcat ==
    ASSUME NEW S, NEW a \in Seq(S), NEW b \in Seq(S)
    PROVE  a \o b \in Seq(S) /\ Elements(a \o b) = Elements(a) \cup Elements(b)
<1>1. /\ Len(a) \in Nat /\ Len(b) \in Nat
      /\ DOMAIN a = 1 .. Len(a) /\ DOMAIN b = 1 .. Len(b)
      /\ DOMAIN (a \o b) = 1 .. Len(a) + Len(b)
      /\ a \o b \in Seq(S)
  BY ConcatProperties, LenProperties
<1>2. \A k \in 1 .. Len(a) + Len(b) : (a \o b)[k] = IF k =< Len(a) THEN a[k] ELSE b[k - Len(a)]
  BY ConcatProperties
<1>3. \A k \in 1 .. Len(b) : (a \o b)[k + Len(a)] = b[k] /\ k + Len(a) \in 1 .. Len(a) + Len(b)
  BY <1>1, <1>2
<1>4. \A k \in 1 .. Len(a) : (a \o b)[k] = a[k] /\ k \in 1 .. Len(a) + Len(b)
  BY <1>1, <1>2
<1>5. Elements(a) \cup Elements(b) \subseteq Elements(a \o b)
  BY <1>1, <1>3, <1>4 DEF Elements
<1>6. Elements(a \o b) \subseteq Elements(a) \cup Elements(b)
  BY <1>1, <1>2 DEF Elements
<1> QED
  BY <1>1, <1>5, <1>6

(* Some first part of a sequence holds its first so many elements.         *)
LEMMA PartHolds ==
    ASSUME NEW S, NEW q \in Seq(S), NEW p \in Parts(q)
    PROVE  \E n \in 0 .. Len(q) :
              /\ Elements(p) = {q[k] : k \in 1 .. n}
              /\ n = Len(q) => p = q
              /\ Elements(p) \subseteq Elements(q)
<1>0. Len(q) \in Nat /\ DOMAIN q = 1 .. Len(q)
  BY LenProperties
<1>1. PICK n \in 0 .. Len(q) : p = SubSeq(q, 1, n)
  BY DEF Parts
<1>2. /\ p \in Seq(S) /\ Len(p) = n
      /\ \A k \in 1 .. n : p[k] = q[k]
  <2>1. \A k \in 1 .. n : k \in 1 .. Len(q)
    BY <1>0
  <2>2. n = n - 1 + 1 /\ n \in Nat
    BY <1>0
  <2>3. \A k \in 1 .. n : q[k] \in S
    BY <2>1, ElementOfSeq
  <2> QED
    BY <1>1, <1>0, <2>1, <2>2, <2>3, SubSeqProperties
<1>3. DOMAIN p = 1 .. n
  BY <1>2, LenProperties
<1>4. Elements(p) = {q[k] : k \in 1 .. n}
  BY <1>2, <1>3 DEF Elements
<1>5. Elements(p) \subseteq Elements(q)
  BY <1>0, <1>4 DEF Elements
<1>6. ASSUME n = Len(q) PROVE p = q
  BY <1>0, <1>2, <1>6, SeqEqual
<1> QED
  BY <1>1, <1>4, <1>5, <1>6

(* The same of the resources of an image.                                  *)
LEMMA ConcatHolds ==
    \A a, b \in Seq(ImageKinds) :
       a \o b \in Seq(ImageKinds) /\ Elements(a \o b) = Elements(a) \cup Elements(b)
BY ElementsOfConcat

(* The pieces that allocations are put together from.                      *)
LEMMA Singles ==
    /\ <<>> \in Seq(ImageKinds) /\ Elements(<<>>) = {}
    /\ WaylandDmaBufs \in Seq(ImageKinds) /\ Elements(WaylandDmaBufs) = {"fd"}
    /\ X11DmaBufs \in Seq(ImageKinds) /\ Elements(X11DmaBufs) = {"fd"}
    /\ WlBuffer \in Seq(ImageKinds) /\ Elements(WlBuffer) = {"wl_buffer"}
    /\ Pixmap \in Seq(ImageKinds) /\ Elements(Pixmap) = {"pixmap"}
    /\ Segment \in Seq(ImageKinds) /\ Elements(Segment) = {"segment"}
    /\ PresentFence \in Seq(ImageKinds) /\ Elements(PresentFence) = {"fence"}
    /\ Imported \in Seq(ImageKinds) /\ Elements(Imported) = {"memory", "binding"}
<1>1. {"fd", "wl_buffer", "pixmap", "segment", "fence", "memory", "binding"} \subseteq ImageKinds
  BY DEF ImageKinds, DataResources, MemoryResources, SegmentResources
<1>2. \A x \in ImageKinds : <<x>> \in Seq(ImageKinds) /\ Elements(<<x>>) = {x}
  BY DEF Elements
<1>3. Imported \in Seq(ImageKinds) /\ Elements(Imported) = {"memory", "binding"}
  BY <1>1 DEF Imported, Elements
<1>4. <<>> \in Seq(ImageKinds) /\ Elements(<<>>) = {}
  BY DEF Elements
<1> QED
  BY <1>1, <1>2, <1>3, <1>4
  DEF WaylandDmaBufs, X11DmaBufs, WlBuffer, Pixmap, Segment, PresentFence

(* What the creation of an image gets, all of it or some first part.       *)
LEMMA CreationParts ==
    ASSUME NEW got \in Parts(CreationOf)
    PROVE  /\ Elements(got) \subseteq Elements(CreationOf)
           /\ Elements(CreationOf) \subseteq {"data", "image", "memory", "binding"}
           /\ "image" \in Elements(CreationOf)
           /\ path # "headless" => "data" \in Elements(CreationOf)
           /\ Elements(got) \cap DataResources # {} => "data" \in Elements(got)
           /\ got # CreationOf /\ path # "shm" => "image" \notin Elements(got)
<1>1. {"data", "image", "memory", "binding"} \subseteq ImageKinds
  BY DEF ImageKinds, DataResources, MemoryResources
<1>2. CASE path = "headless"
  <2> DEFINE q == <<"image">>
  <2>1. CreationOf = q /\ q \in Seq(ImageKinds) /\ Len(q) = 1 /\ Elements(q) = {"image"}
    BY <1>1, <1>2 DEF CreationOf, Elements
  <2>2. PICK n \in 0 .. 1 : /\ Elements(got) = {q[k] : k \in 1 .. n}
                            /\ n = 1 => got = q
                            /\ Elements(got) \subseteq Elements(q)
    BY <2>1, PartHolds
  <2>3. got # q => Elements(got) = {}
    BY <2>2
  <2>4. "image" \notin DataResources
    BY DEF DataResources, MemoryResources, SegmentResources
  <2> QED
    BY <1>2, <2>1, <2>2, <2>3, <2>4
<1>3. CASE path # "headless" /\ path # "shm"
  <2> DEFINE q == <<"data", "image">>
  <2>1. CreationOf = q /\ q \in Seq(ImageKinds) /\ Len(q) = 2 /\ Elements(q) = {"data", "image"}
    BY <1>1, <1>3 DEF CreationOf, Elements
  <2>2. PICK n \in 0 .. 2 : /\ Elements(got) = {q[k] : k \in 1 .. n}
                            /\ n = 2 => got = q
                            /\ Elements(got) \subseteq Elements(q)
    BY <2>1, PartHolds
  <2>3. got # q => Elements(got) \subseteq {"data"}
    BY <2>2
  <2>4. "image" \notin DataResources
    BY DEF DataResources, MemoryResources, SegmentResources
  <2> QED
    BY <1>3, <2>1, <2>2, <2>3, <2>4
<1>4. CASE path = "shm"
  <2> DEFINE a == <<"data", "image">>
             b == <<"memory", "binding">>
             q == a \o b
  <2>1. CreationOf = q
    BY <1>4 DEF CreationOf, HostVisible
  <2>2. /\ a \in Seq(ImageKinds) /\ Len(a) = 2 /\ a[1] = "data"
        /\ Elements(a) = {"data", "image"}
        /\ b \in Seq(ImageKinds) /\ Len(b) = 2 /\ Elements(b) = {"memory", "binding"}
    BY <1>1 DEF Elements
  <2> HIDE DEF a, b
  <2>3. q \in Seq(ImageKinds) /\ Len(q) = 4 /\ q[1] = "data"
    <3>0. a \in Seq(ImageKinds) /\ b \in Seq(ImageKinds)
      BY <2>2
    <3>1. q \in Seq(ImageKinds) /\ Len(q) = Len(a) + Len(b)
      BY <3>0, ConcatProperties
    <3>2. \A k \in 1 .. Len(a) + Len(b) : q[k] = IF k =< Len(a) THEN a[k] ELSE b[k - Len(a)]
      BY <3>0, ConcatProperties
    <3> HIDE DEF q
    <3>3. q[1] = a[1]
      BY <2>2, <3>2
    <3> QED
      BY <2>2, <3>1, <3>3
  <2>4. Elements(q) = Elements(a) \cup Elements(b)
    BY <2>2, ConcatHolds
  <2> HIDE DEF q
  <2>5. Elements(q) = {"data", "image", "memory", "binding"}
    BY <2>2, <2>4
  <2>6. got \in Parts(q)
    BY <2>1
  <2>7. PICK n \in 0 .. 4 : /\ Elements(got) = {q[k] : k \in 1 .. n}
                            /\ Elements(got) \subseteq Elements(q)
    BY <2>3, <2>6, PartHolds, SMTT(30)
  <2>8. Elements(got) = {} \/ "data" \in Elements(got)
    BY <2>3, <2>7
  <2> QED
    BY <1>4, <2>1, <2>5, <2>7, <2>8
<1> QED
  BY <1>2, <1>3, <1>4

(* What the allocation of an image is to get.                              *)
LEMMA AllocationHolds ==
    /\ AllocationOf \in Seq(ImageKinds)
    /\ Elements(AllocationOf) \subseteq DataResources
    /\ path = "headless" => "data" \in Elements(AllocationOf)
    /\ "wl_buffer" \in Elements(AllocationOf) => path = "wayland"
<1>1. CASE path = "headless"
  <2> DEFINE q == <<"data", "memory", "binding">>
  <2>1. q \in Seq(ImageKinds) /\ Elements(q) = {"data", "memory", "binding"}
    BY DEF Elements, ImageKinds, DataResources, MemoryResources
  <2>2. AllocationOf = q \o PresentFence
    BY <1>1 DEF AllocationOf, HeadlessAllocation
  <2>3. PresentFence \in Seq(ImageKinds) /\ Elements(PresentFence) = {"fence"}
    BY Singles
  <2> HIDE DEF q
  <2>4. q \o PresentFence \in Seq(ImageKinds)
        /\ Elements(q \o PresentFence) = Elements(q) \cup Elements(PresentFence)
    BY <2>1, <2>3, ConcatHolds
  <2>5. AllocationOf \in Seq(ImageKinds)
        /\ Elements(AllocationOf) = {"data", "memory", "binding", "fence"}
    BY <2>1, <2>2, <2>3, <2>4
  <2> QED
    BY <1>1, <2>5 DEF DataResources, MemoryResources
<1>2. CASE path = "wayland"
  <2>1. AllocationOf = WaylandDmaBufs \o WlBuffer \o Imported \o PresentFence
    BY <1>2 DEF AllocationOf, WaylandAllocation
  <2>2. /\ WaylandDmaBufs \in Seq(ImageKinds) /\ WlBuffer \in Seq(ImageKinds)
        /\ Imported \in Seq(ImageKinds) /\ PresentFence \in Seq(ImageKinds)
    BY Singles
  <2>3. /\ WaylandDmaBufs \o WlBuffer \in Seq(ImageKinds)
        /\ Elements(WaylandDmaBufs \o WlBuffer) = Elements(WaylandDmaBufs) \cup Elements(WlBuffer)
    BY <2>2, ConcatHolds
  <2> DEFINE a == WaylandDmaBufs \o WlBuffer
             b == a \o Imported
  <2> HIDE DEF a
  <2>4. b \in Seq(ImageKinds) /\ Elements(b) = Elements(a) \cup Elements(Imported)
    BY <2>2, <2>3, ConcatHolds DEF a
  <2> HIDE DEF b
  <2>5. AllocationOf = b \o PresentFence
    BY <2>1 DEF a, b
  <2>6. AllocationOf \in Seq(ImageKinds)
        /\ Elements(AllocationOf) = Elements(b) \cup Elements(PresentFence)
    BY <2>2, <2>4, <2>5, ConcatHolds
  <2>7. Elements(AllocationOf) = ((Elements(WaylandDmaBufs) \cup Elements(WlBuffer))
                                   \cup Elements(Imported)) \cup Elements(PresentFence)
    BY <2>3, <2>4, <2>6 DEF a
  <2>8. Elements(AllocationOf) = {"fd", "wl_buffer", "memory", "binding", "fence"}
    <3>1. /\ Elements(WaylandDmaBufs) = {"fd"} /\ Elements(WlBuffer) = {"wl_buffer"}
          /\ Elements(Imported) = {"memory", "binding"} /\ Elements(PresentFence) = {"fence"}
      BY Singles
    <3> QED
      BY <2>7, <3>1
  <2> QED
    BY <1>2, <2>6, <2>8 DEF DataResources, MemoryResources
<1>3. CASE path # "headless" /\ path # "wayland"
  <2> DEFINE a == IF path = "shm" THEN Segment ELSE X11DmaBufs \o Imported
             b == IF path = "dri3" THEN Pixmap ELSE <<>>
  <2>1. AllocationOf = (a \o b) \o PresentFence
    BY <1>3 DEF AllocationOf, X11Allocation
  <2>2. /\ Segment \in Seq(ImageKinds) /\ Elements(Segment) = {"segment"}
        /\ X11DmaBufs \in Seq(ImageKinds) /\ Elements(X11DmaBufs) = {"fd"}
        /\ Imported \in Seq(ImageKinds) /\ Elements(Imported) = {"memory", "binding"}
        /\ Pixmap \in Seq(ImageKinds) /\ Elements(Pixmap) = {"pixmap"}
        /\ <<>> \in Seq(ImageKinds) /\ Elements(<<>>) = {}
        /\ PresentFence \in Seq(ImageKinds) /\ Elements(PresentFence) = {"fence"}
    BY Singles
  <2>3. /\ X11DmaBufs \o Imported \in Seq(ImageKinds)
        /\ Elements(X11DmaBufs \o Imported) = Elements(X11DmaBufs) \cup Elements(Imported)
    BY <2>2, ConcatHolds
  <2>4. a \in Seq(ImageKinds) /\ Elements(a) \subseteq {"segment", "fd", "memory", "binding"}
    <3>1. CASE path = "shm"
      BY <2>2, <3>1
    <3>2. CASE path # "shm"
      <4>1. a = X11DmaBufs \o Imported
        BY <3>2
      <4>2. Elements(X11DmaBufs \o Imported) \subseteq {"segment", "fd", "memory", "binding"}
        BY <2>2, <2>3
      <4> QED
        BY <2>3, <4>1, <4>2
    <3> QED
      BY <3>1, <3>2
  <2>5. b \in Seq(ImageKinds) /\ Elements(b) \subseteq {"pixmap"}
    <3>1. CASE path = "dri3"
      BY <2>2, <3>1
    <3>2. CASE path # "dri3"
      BY <2>2, <3>2
    <3> QED
      BY <3>1, <3>2
  <2> HIDE DEF a, b
  <2>6. a \o b \in Seq(ImageKinds) /\ Elements(a \o b) = Elements(a) \cup Elements(b)
    BY <2>4, <2>5, ConcatHolds
  <2> DEFINE c == a \o b
  <2>7. c \in Seq(ImageKinds) /\ AllocationOf = c \o PresentFence
    BY <2>1, <2>6
  <2> HIDE DEF c
  <2>8. AllocationOf \in Seq(ImageKinds)
        /\ Elements(AllocationOf) = Elements(c) \cup Elements(PresentFence)
    BY <2>2, <2>7, ConcatHolds
  <2>9. Elements(AllocationOf)
           \subseteq {"segment", "fd", "memory", "binding", "pixmap", "fence"}
    BY <2>2, <2>4, <2>5, <2>6, <2>8 DEF c
  <2> QED
    BY <1>3, <2>8, <2>9 DEF DataResources, MemoryResources, SegmentResources
<1> QED
  BY <1>1, <1>2, <1>3

(* What a part of an allocation gets.                                      *)
LEMMA AllocationParts ==
    ASSUME NEW got \in Parts(AllocationOf)
    PROVE  Elements(got) \subseteq Elements(AllocationOf)
<1> DEFINE q == AllocationOf
<1>1. q \in Seq(ImageKinds) /\ got \in Parts(q)
  BY AllocationHolds
<1> HIDE DEF q
<1>2. Elements(got) \subseteq Elements(q)
  BY <1>1, PartHolds
<1> QED
  BY <1>2 DEF q

(* What an image has with some part of an allocation.                      *)
LEMMA WithPart ==
    ASSUME NEW i \in Slots, held[i] \in SUBSET ImageKinds, NEW got,
           Elements(got) \subseteq Elements(AllocationOf), NEW has \in With(i, got)
    PROVE  /\ has \in SUBSET ImageKinds /\ held[i] \subseteq has
           /\ has \subseteq held[i] \cup DataResources
           /\ "wl_buffer" \in has => "wl_buffer" \in held[i] \/ path = "wayland"
           /\ Elements(got) \subseteq has
<1>1. PICK spare \in SUBSET {"alt_segment"} : has = held[i] \cup Elements(got) \cup spare
  BY DEF With
<1>2. /\ Elements(got) \subseteq DataResources
      /\ "wl_buffer" \in Elements(got) => path = "wayland"
  BY AllocationHolds
<1>3. spare \subseteq DataResources /\ "wl_buffer" \notin spare /\ DataResources \subseteq ImageKinds
  BY DEF DataResources, SegmentResources, ImageKinds
<1> QED
  BY <1>1, <1>2, <1>3

(* What an image has after an allocation, whole or failed.                 *)
Afterwards(i, ok, h, s) ==
    /\ h \in SUBSET ImageKinds
    /\ s \in {"FREE", "INVALID", "UNALLOCATED"}
    /\ h \subseteq held[i] \cup DataResources
    /\ ok => s = "FREE"
    /\ s = "FREE" => /\ held[i] \subseteq h
                     /\ path = "headless" => "data" \in h
    /\ s = "UNALLOCATED" => /\ status[i] = "UNALLOCATED" /\ path = "headless"
                            /\ h = held[i] \ {"image"}
    /\ s = "INVALID" => /\ path \in {"headless", "wayland"}
                        /\ \/ h = Undone(i)
                           \/ status[i] = "INVALID" /\ path = "headless" /\ h = held[i] \ {"image"}
    /\ "wl_buffer" \in h => "wl_buffer" \in held[i] \/ path = "wayland"
LEMMA OutcomeOfAllocation ==
    ASSUME NEW i \in Slots, held[i] \in SUBSET ImageKinds, status[i] \in {"INVALID", "UNALLOCATED"},
           NEW o \in AllocationOutcomes(i)
    PROVE  o.ok \in BOOLEAN /\ Afterwards(i, o.ok, o.held, o.status)
<1>0. path = "headless" => "data" \in Elements(AllocationOf)
  BY AllocationHolds
<1>1. CASE \E has \in With(i, AllocationOf) : o = Outcome(TRUE, has, "FREE", stale)
  <2>1. PICK has \in With(i, AllocationOf) : o = Outcome(TRUE, has, "FREE", stale)
    BY <1>1
  <2>2. o.ok = TRUE /\ o.held = has /\ o.status = "FREE"
    BY <2>1 DEF Outcome
  <2>3. /\ has \in SUBSET ImageKinds /\ held[i] \subseteq has
        /\ has \subseteq held[i] \cup DataResources
        /\ "wl_buffer" \in has => "wl_buffer" \in held[i] \/ path = "wayland"
        /\ path = "headless" => "data" \in has
    BY <1>0, WithPart
  <2> QED
    BY <2>2, <2>3 DEF Afterwards
<1>2. CASE path = "headless" /\ o = Outcome(FALSE, held[i] \ {"image"}, status[i], stale \cup {i})
  <2>1. o.ok = FALSE /\ o.held = held[i] \ {"image"} /\ o.status = status[i]
    BY <1>2 DEF Outcome
  <2> QED
    BY <1>2, <2>1 DEF Afterwards
<1>3. CASE path # "headless" /\ \E has \in Partial(i) : o = Outcome(FALSE, has, "FREE", stale)
  <2>1. PICK has \in Partial(i) : o = Outcome(FALSE, has, "FREE", stale)
    BY <1>3
  <2>2. o.ok = FALSE /\ o.held = has /\ o.status = "FREE"
    BY <2>1 DEF Outcome
  <2>3. PICK got \in Parts(AllocationOf) : has \in With(i, got)
    BY DEF Partial
  <2>4. /\ has \in SUBSET ImageKinds /\ held[i] \subseteq has
        /\ has \subseteq held[i] \cup DataResources
        /\ "wl_buffer" \in has => "wl_buffer" \in held[i] \/ path = "wayland"
    BY <2>3, WithPart, AllocationParts
  <2> QED
    BY <1>3, <2>2, <2>4 DEF Afterwards
<1>4. CASE path \in {"headless", "wayland"} /\ o = Outcome(FALSE, Undone(i), "INVALID", stale \ {i})
  <2>1. o.ok = FALSE /\ o.held = Undone(i) /\ o.status = "INVALID"
    BY <1>4 DEF Outcome
  <2>2. Undone(i) \subseteq held[i] /\ "wl_buffer" \notin Undone(i)
    BY DEF Undone, DataResources
  <2> QED
    BY <1>4, <2>1, <2>2 DEF Afterwards
<1> QED
  BY <1>1, <1>2, <1>3, <1>4 DEF AllocationOutcomes

(* What acquiring an image does to it.                                     *)
LEMMA AcquireDoes ==
    ASSUME CreationTypeOK, AcquireImage
    PROVE  \E i \in Existing, h \in SUBSET ImageKinds,
              s \in {"INVALID", "UNALLOCATED", "FREE", "ACQUIRED"} :
              /\ i \in Slots /\ at = "live" /\ status[i] \in {"FREE", "UNALLOCATED"}
              /\ held' = [held EXCEPT ![i] = h]
              /\ status' = [status EXCEPT ![i] = s]
              /\ UNCHANGED <<at, path, deferred, count, next, own>>
              /\ h \subseteq held[i] \cup DataResources
              /\ "wl_buffer" \in h => "wl_buffer" \in held[i] \/ path = "wayland"
              /\ s \in {"FREE", "ACQUIRED"} =>
                    /\ held[i] \subseteq h
                    /\ path = "headless" => "data" \in h \/ h = held[i]
              /\ s = "UNALLOCATED" => path = "headless" /\ h = held[i] \ {"image"}
              /\ s = "INVALID" => path \in {"headless", "wayland"} /\ h = Undone(i)
              /\ s \in {"INVALID", "UNALLOCATED"} => status[i] = "UNALLOCATED"
<1>1. /\ at = "live" /\ UNCHANGED <<at, path, deferred, count, next, own>>
      /\ Existing \subseteq Slots
  BY CreationAssumption DEF AcquireImage, request, Existing, Slots, CreationTypeOK, Numbers
<1>2. PICK i \in Existing :
        /\ status[i] \in {"FREE", "UNALLOCATED"}
        /\ \E o \in Acquired(i) :
              /\ held' = [held EXCEPT ![i] = o.held]
              /\ status' = [status EXCEPT ![i] = IF o.ok THEN "ACQUIRED" ELSE o.status]
  BY DEF AcquireImage, FirstAvailable, Available
<1>3. i \in Slots /\ held[i] \in SUBSET ImageKinds
  BY <1>1 DEF CreationTypeOK, ImageShape
<1>4. CASE status[i] = "FREE"
  <2>1. PICK o \in {Outcome(TRUE, held[i], "FREE", stale)} :
          /\ held' = [held EXCEPT ![i] = o.held]
          /\ status' = [status EXCEPT ![i] = IF o.ok THEN "ACQUIRED" ELSE o.status]
    BY <1>2, <1>4 DEF Acquired
  <2>2. o.ok = TRUE /\ o.held = held[i]
    BY <2>1 DEF Outcome
  <2>3. held' = [held EXCEPT ![i] = held[i]] /\ status' = [status EXCEPT ![i] = "ACQUIRED"]
    BY <2>1, <2>2
  <2> QED
    BY <1>1, <1>3, <1>4, <2>3
<1>5. CASE status[i] = "UNALLOCATED"
  <2>1. PICK o \in AllocationOutcomes(i) :
          /\ held' = [held EXCEPT ![i] = o.held]
          /\ status' = [status EXCEPT ![i] = IF o.ok THEN "ACQUIRED" ELSE o.status]
    BY <1>2, <1>5 DEF Acquired
  <2> DEFINE h == o.held
             s == IF o.ok THEN "ACQUIRED" ELSE o.status
  <2>2. o.ok \in BOOLEAN /\ Afterwards(i, o.ok, h, o.status)
    BY <1>3, <1>5, <2>1, OutcomeOfAllocation
  <2>3. held' = [held EXCEPT ![i] = h] /\ status' = [status EXCEPT ![i] = s]
    BY <2>1
  <2>4. /\ s \in {"INVALID", "UNALLOCATED", "FREE", "ACQUIRED"}
        /\ s \in {"FREE", "ACQUIRED"} => o.status = "FREE"
        /\ s \in {"UNALLOCATED", "INVALID"} => o.status = s
    BY <2>2 DEF Afterwards
  <2>5. /\ h \in SUBSET ImageKinds
        /\ h \subseteq held[i] \cup DataResources
        /\ "wl_buffer" \in h => "wl_buffer" \in held[i] \/ path = "wayland"
        /\ s \in {"FREE", "ACQUIRED"} => held[i] \subseteq h /\ (path = "headless" => "data" \in h)
        /\ s = "UNALLOCATED" => path = "headless" /\ h = held[i] \ {"image"}
        /\ s = "INVALID" => path \in {"headless", "wayland"} /\ h = Undone(i)
    BY <1>5, <2>2, <2>4 DEF Afterwards
  <2> HIDE DEF h, s
  <2> QED
    BY <1>1, <1>3, <1>5, <2>3, <2>4, <2>5
<1> QED
  BY <1>2, <1>4, <1>5

(* What allocating memory for the next image does to it.                   *)
LEMMA AllocateDoes ==
    ASSUME CreationTypeOK, AllocateSwapchainImage, status[next] = "INVALID"
    PROVE  \E h \in SUBSET ImageKinds, s \in {"INVALID", "FREE"} :
              /\ next \in Slots /\ at = "allocate" /\ at' \in {"semaphores", "destructor"}
              /\ held' = [held EXCEPT ![next] = h]
              /\ status' = [status EXCEPT ![next] = s]
              /\ UNCHANGED <<path, deferred, count, next, own>>
              /\ h \subseteq held[next] \cup DataResources
              /\ "wl_buffer" \in h => "wl_buffer" \in held[next] \/ path = "wayland"
              /\ s = "FREE" => held[next] \subseteq h /\ (path = "headless" => "data" \in h)
              /\ s = "INVALID" =>
                    /\ path \in {"headless", "wayland"} /\ at' = "destructor"
                    /\ h = Undone(next) \/ (path = "headless" /\ h = held[next] \ {"image"})
<1>1. PICK o \in AllocationOutcomes(next) :
        /\ held' = [held EXCEPT ![next] = o.held]
        /\ status' = [status EXCEPT ![next] = o.status]
        /\ IF o.ok THEN at' = "semaphores" /\ UNCHANGED result ELSE Fail
  BY DEF AllocateSwapchainImage
<1>2. next \in Slots /\ held[next] \in SUBSET ImageKinds
  BY DEF CreationTypeOK, Numbers, ImageShape
<1> DEFINE h == o.held
           s == o.status
<1>3. o.ok \in BOOLEAN /\ Afterwards(next, o.ok, h, s)
  BY <1>1, <1>2, OutcomeOfAllocation
<1>4. held' = [held EXCEPT ![next] = h] /\ status' = [status EXCEPT ![next] = s]
  BY <1>1
<1>5. at' = IF o.ok THEN "semaphores" ELSE "destructor"
  BY <1>1, <1>3 DEF Fail
<1> HIDE DEF h, s
<1>6. at = "allocate" /\ UNCHANGED <<path, deferred, count, next, own>>
  BY DEF AllocateSwapchainImage, request
<1>7. s \in {"INVALID", "FREE"}
  BY <1>3 DEF Afterwards
<1>8. /\ h \in SUBSET ImageKinds
      /\ h \subseteq held[next] \cup DataResources
      /\ "wl_buffer" \in h => "wl_buffer" \in held[next] \/ path = "wayland"
      /\ s = "FREE" => held[next] \subseteq h /\ (path = "headless" => "data" \in h)
      /\ s = "INVALID" =>
            /\ path \in {"headless", "wayland"} /\ at' = "destructor"
            /\ h = Undone(next) \/ (path = "headless" /\ h = held[next] \ {"image"})
  BY <1>3, <1>5 DEF Afterwards
<1> QED
  BY <1>2, <1>4, <1>5, <1>6, <1>7, <1>8

(* What creating the next image does to it.                                *)
LEMMA CreateDoes ==
    ASSUME CreationTypeOK, CreateSwapchainImage
    PROVE  \E e \in SUBSET ImageKinds, s \in {status[next], "UNALLOCATED"} :
              /\ next \in Slots /\ at = "image"
              /\ at' \in {"semaphores", "allocate", "destructor"}
              /\ held' = [held EXCEPT ![next] = held[next] \cup e]
              /\ status' = [status EXCEPT ![next] = s]
              /\ UNCHANGED <<path, deferred, count, next, own>>
              /\ at' = "semaphores" => s = "UNALLOCATED" /\ deferred
              /\ at' # "semaphores" => s = status[next]
              /\ e \subseteq {"data", "image", "memory", "binding"}
              /\ e \cap DataResources # {} => "data" \in e
              /\ at' = "destructor" => path = "shm" \/ "image" \notin e
              /\ at' # "destructor" => /\ Elements(CreationOf) \subseteq e /\ "image" \in e
                                       /\ path # "headless" => "data" \in e
<1>1. PICK got \in Parts(CreationOf) :
        /\ held' = [held EXCEPT ![next] = @ \cup Elements(got)]
        /\ IF got = CreationOf
           THEN /\ at' = IF deferred THEN "semaphores" ELSE "allocate"
                /\ status' = [status EXCEPT ![next] = IF deferred THEN "UNALLOCATED" ELSE @]
                /\ UNCHANGED result
           ELSE Fail /\ UNCHANGED status
  BY DEF CreateSwapchainImage
<1>2. /\ next \in Slots /\ at = "image" /\ UNCHANGED <<path, deferred, count, next, own>>
      /\ status = [status EXCEPT ![next] = status[next]]
  BY DEF CreationTypeOK, Numbers, ImageShape, CreateSwapchainImage, request
<1> DEFINE e == Elements(got)
<1>3. /\ e \subseteq Elements(CreationOf)
      /\ Elements(CreationOf) \subseteq {"data", "image", "memory", "binding"}
      /\ "image" \in Elements(CreationOf)
      /\ path # "headless" => "data" \in Elements(CreationOf)
      /\ e \cap DataResources # {} => "data" \in e
      /\ got # CreationOf /\ path # "shm" => "image" \notin e
      /\ got = CreationOf => e = Elements(CreationOf)
  BY CreationParts
<1>4. {"data", "image", "memory", "binding"} \subseteq ImageKinds
  BY DEF ImageKinds, DataResources, MemoryResources
<1> HIDE DEF e
<1>5. held' = [held EXCEPT ![next] = held[next] \cup e]
  BY <1>1 DEF e
<1>6. e \in SUBSET ImageKinds /\ e \subseteq {"data", "image", "memory", "binding"}
  BY <1>3, <1>4
<1>7. CASE got = CreationOf /\ deferred
  <2>1. at' = "semaphores" /\ status' = [status EXCEPT ![next] = "UNALLOCATED"]
    BY <1>1, <1>7
  <2> QED
    BY <1>2, <1>3, <1>5, <1>6, <1>7, <2>1
<1>8. CASE got = CreationOf /\ ~deferred
  <2>1. at' = "allocate" /\ status' = [status EXCEPT ![next] = status[next]]
    BY <1>1, <1>8
  <2> QED
    BY <1>2, <1>3, <1>5, <1>6, <1>8, <2>1
<1>9. CASE got # CreationOf
  <2>1. at' = "destructor" /\ status' = [status EXCEPT ![next] = status[next]]
    BY <1>1, <1>2, <1>9 DEF Fail
  <2> QED
    BY <1>2, <1>3, <1>5, <1>6, <1>9, <2>1
<1> QED
  BY <1>7, <1>8, <1>9

(* What creating its semaphores does to the next image.                    *)
LEMMA SemaphoresDo ==
    ASSUME CreationTypeOK, CreateSemaphores
    PROVE  \E e \in SUBSET ImageSemaphores :
              /\ next \in Slots /\ at = "semaphores"
              /\ held' = [held EXCEPT ![next] = held[next] \cup e]
              /\ status' = status
              /\ UNCHANGED <<path, deferred, count, own>>
              /\ \/ at' = "destructor" /\ next' = next
                 \/ at' = "queue_data" /\ next = count /\ next' = next /\ e = ImageSemaphores
                 \/ at' = "image" /\ next # count /\ next' = next + 1 /\ e = ImageSemaphores
<1> DEFINE wanted == <<"present_semaphore", "present_fence_wait">>
<1>1. PICK got \in Parts(wanted) :
        /\ held' = [held EXCEPT ![next] = @ \cup Elements(got)]
        /\ IF got # wanted THEN Fail /\ UNCHANGED next
           ELSE /\ at' = IF next = count THEN "queue_data" ELSE "image"
                /\ next' = IF next = count THEN next ELSE next + 1
                /\ UNCHANGED result
  BY DEF CreateSemaphores
<1>2. wanted \in Seq(ImageKinds) /\ Elements(wanted) = ImageSemaphores
  BY DEF Elements, ImageSemaphores, ImageKinds
<1> HIDE DEF wanted
<1>3. Elements(got) \in SUBSET ImageSemaphores
  BY <1>2, PartHolds
<1>4. got = wanted => Elements(got) = ImageSemaphores
  BY <1>2
<1>5. next \in Slots /\ at = "semaphores" /\ UNCHANGED <<path, deferred, count, own, status>>
  BY DEF CreationTypeOK, Numbers, CreateSemaphores, request
<1>6. CASE got # wanted
  BY <1>1, <1>3, <1>5, <1>6 DEF Fail
<1>7. CASE got = wanted
  BY <1>1, <1>3, <1>4, <1>5, <1>7
<1> QED
  BY <1>6, <1>7
(* A call stays on the display and the path it is for.                     *)
LEMMA PathStep ==
    ASSUME CreationInv, [CreationNext]_creationVars
    PROVE  PathFits'
<1>1. CASE CreateSwapchain
  BY <1>1, CreationAssumption
  DEF CreateSwapchain, CreationInv, CreationTypeOK, CallShape, Numbers, PathFits, X11,
      Early, Making, Made, Ending, request, Slots, Existing
<1>2. CASE AcquireImage
  BY <1>2, CreationAssumption
  DEF AcquireImage, CreationInv, CreationTypeOK, CallShape, Numbers, PathFits, X11, Early,
      Making, Made, Ending, request, Slots, Existing
<1>3. CASE DestroySwapchain
  BY <1>3, CreationAssumption
  DEF DestroySwapchain, CreationInv, CreationTypeOK, CallShape, Numbers, PathFits, X11,
      Early, Making, Made, Ending, request, Slots, Existing
<1>4. CASE AddRequiredExtensions
  <2>1. CASE path = "headless"
    BY <1>4, <2>1
    DEF AddRequiredExtensions, Take, Fail, PathFits, X11, Early, Making, Made, request
  <2>2. CASE path = "wayland"
    BY <1>4, <2>2
    DEF AddRequiredExtensions, Take, Fail, PathFits, X11, Early, Making, Made, request
  <2>3. CASE path = "x11"
    BY <1>4, <2>3
    DEF AddRequiredExtensions, Take, Fail, PathFits, X11, Early, Making, Made, request
  <2> QED
    BY <1>4, <2>1, <2>2, <2>3 DEF AddRequiredExtensions, CreationInv, PathFits
<1>5. CASE CreateQueue
  BY <1>5, CreationAssumption
  DEF CreateQueue, Take, Fail, CreationInv, CreationTypeOK, CallShape, Numbers, PathFits,
      X11, Early, Making, Made, Ending, request, Slots, Existing
<1>6. CASE CreateAllocator
  BY <1>6, CreationAssumption
  DEF CreateAllocator, Take, Fail, CreationInv, CreationTypeOK, CallShape, Numbers,
      PathFits, X11, Early, Making, Made, Ending, request, Slots, Existing
<1>7. CASE ChoosePath
  BY <1>7, CreationAssumption
  DEF ChoosePath, PresentationPath, CreationInv, CreationTypeOK, CallShape, Numbers,
      PathFits, X11, Early, Making, Made, Ending, request, Slots, Existing
<1>8. CASE InitShmPresenter
  BY <1>8, CreationAssumption
  DEF InitShmPresenter, Take, Fail, CreationInv, CreationTypeOK, CallShape, Numbers,
      PathFits, X11, Early, Making, Made, Ending, request, Slots, Existing
<1>9. CASE SettleMode
  BY <1>9, CreationAssumption
  DEF SettleMode, Fail, CreationInv, CreationTypeOK, CallShape, Numbers, PathFits, X11,
      Early, Making, Made, Ending, request, Slots, Existing
<1>10. CASE StartEventThread
  BY <1>10, CreationAssumption
  DEF StartEventThread, Take, Fail, CreationInv, CreationTypeOK, CallShape, Numbers,
      PathFits, X11, Early, Making, Made, Ending, request, Slots, Existing
<1>11. CASE InitPageFlipThread
  BY <1>11, CreationAssumption
  DEF InitPageFlipThread, Take, Fail, CreationInv, CreationTypeOK, CallShape, Numbers,
      PathFits, X11, Early, Making, Made, Ending, request, Slots, Existing
<1>12. CASE InitFreeImageSemaphore
  BY <1>12, CreationAssumption
  DEF InitFreeImageSemaphore, Take, Fail, CreationInv, CreationTypeOK, CallShape, Numbers,
      PathFits, X11, Early, Making, Made, Ending, request, Slots, Existing
<1>13. CASE ChooseFormat
  BY <1>13, CreationAssumption
  DEF ChooseFormat, Fail, CreationInv, CreationTypeOK, CallShape, Numbers, PathFits, X11,
      Early, Making, Made, Ending, request, Slots, Existing
<1>14. CASE CreateSwapchainImage
  BY <1>14, CreationAssumption
  DEF CreateSwapchainImage, Fail, CreationInv, CreationTypeOK, CallShape, Numbers, PathFits,
      X11, Early, Making, Made, Ending, request, Slots, Existing
<1>15. CASE AllocateSwapchainImage
  BY <1>15, CreationAssumption
  DEF AllocateSwapchainImage, Fail, CreationInv, CreationTypeOK, CallShape, Numbers,
      PathFits, X11, Early, Making, Made, Ending, request, Slots, Existing
<1>16. CASE CreateSemaphores
  BY <1>16, CreationAssumption
  DEF CreateSemaphores, Fail, CreationInv, CreationTypeOK, CallShape, Numbers, PathFits,
      X11, Early, Making, Made, Ending, request, Slots, Existing
<1>17. CASE SetDeviceLoaderData
  BY <1>17, CreationAssumption
  DEF SetDeviceLoaderData, Fail, CreationInv, CreationTypeOK, CallShape, Numbers, PathFits,
      X11, Early, Making, Made, Ending, request, Slots, Existing
<1>18. CASE LinkAncestor
  BY <1>18, CreationAssumption
  DEF LinkAncestor, CreationInv, CreationTypeOK, CallShape, Numbers, PathFits, X11, Early,
      Making, Made, Ending, request, Slots, Existing
<1>19. CASE AddLayerSwapchain
  BY <1>19, CreationAssumption
  DEF AddLayerSwapchain, Fail, CreationInv, CreationTypeOK, CallShape, Numbers, PathFits,
      X11, Early, Making, Made, Ending, request, Slots, Existing
<1>20. CASE StopEventThread
  BY <1>20, CreationAssumption
  DEF StopEventThread, CreationInv, CreationTypeOK, CallShape, Numbers, PathFits, X11,
      Early, Making, Made, Ending, request, Slots, Existing
<1>21. CASE Teardown
  BY <1>21, CreationAssumption
  DEF Teardown, CreationInv, CreationTypeOK, CallShape, Numbers, PathFits, X11, Early,
      Making, Made, Ending, request, Slots, Existing
<1>22. CASE WaitForPendingBuffers
  BY <1>22, CreationAssumption
  DEF WaitForPendingBuffers, CreationInv, CreationTypeOK, CallShape, Numbers, PathFits, X11,
      Early, Making, Made, Ending, request, Slots, Existing
<1>23. CASE JoinFlipThread
  BY <1>23, CreationAssumption
  DEF JoinFlipThread, CreationInv, CreationTypeOK, CallShape, Numbers, PathFits, X11, Early,
      Making, Made, Ending, request, Slots, Existing
<1>24. CASE ReleaseImages
  BY <1>24, CreationAssumption
  DEF ReleaseImages, CreationInv, CreationTypeOK, CallShape, Numbers, PathFits, X11, Early,
      Making, Made, Ending, request, Slots, Existing
<1>25. CASE FreeSwapchain
  BY <1>25, CreationAssumption
  DEF FreeSwapchain, CreationInv, CreationTypeOK, CallShape, Numbers, PathFits, X11, Early,
      Making, Made, Ending, request, Slots, Existing
<1>26. CASE UNCHANGED creationVars
  BY <1>26, CreationAssumption
  DEF creationVars, request, images, format, CreationInv, CreationTypeOK, CallShape,
      Numbers, PathFits, X11, Early, Making, Made, Ending, request, Slots, Existing
<1> QED
  BY <1>1, <1>2, <1>3, <1>4, <1>5, <1>6, <1>7, <1>8, <1>9, <1>10, <1>11, <1>12, <1>13,
     <1>14, <1>15, <1>16, <1>17, <1>18, <1>19, <1>20, <1>21, <1>22, <1>23, <1>24, <1>25,
     <1>26
  DEF CreationNext, Call, InitPlatform, InitImages, Destruct

(* What the object holds fits the stage.                                   *)
LEMMA OwnStep ==
    ASSUME CreationInv, [CreationNext]_creationVars
    PROVE  OwnFits'
<1>1. CASE CreateSwapchain
  BY <1>1
  DEF CreateSwapchain, CreationInv, CreationTypeOK, CallShape, Numbers, PathFits, OwnFits,
      X11, Early, Making, Made, Ending, request
<1>2. CASE AcquireImage
  BY <1>2
  DEF AcquireImage, CreationInv, CreationTypeOK, CallShape, Numbers, PathFits, OwnFits, X11,
      Early, Making, Made, Ending, request
<1>3. CASE DestroySwapchain
  BY <1>3
  DEF DestroySwapchain, CreationInv, CreationTypeOK, CallShape, Numbers, PathFits, OwnFits,
      X11, Early, Making, Made, Ending, request
<1>4. CASE AddRequiredExtensions
  BY <1>4
  DEF AddRequiredExtensions, Take, Fail, CreationInv, CreationTypeOK, CallShape, Numbers,
      PathFits, OwnFits, X11, Early, Making, Made, Ending, request
<1>5. CASE CreateQueue
  BY <1>5
  DEF CreateQueue, Take, Fail, CreationInv, CreationTypeOK, CallShape, Numbers, PathFits,
      OwnFits, X11, Early, Making, Made, Ending, request
<1>6. CASE CreateAllocator
  BY <1>6
  DEF CreateAllocator, Take, Fail, CreationInv, CreationTypeOK, CallShape, Numbers,
      PathFits, OwnFits, X11, Early, Making, Made, Ending, request
<1>7. CASE ChoosePath
  BY <1>7
  DEF ChoosePath, PresentationPath, CreationInv, CreationTypeOK, CallShape, Numbers,
      PathFits, OwnFits, X11, Early, Making, Made, Ending, request
<1>8. CASE InitShmPresenter
  BY <1>8
  DEF InitShmPresenter, Take, Fail, CreationInv, CreationTypeOK, CallShape, Numbers,
      PathFits, OwnFits, X11, Early, Making, Made, Ending, request
<1>9. CASE SettleMode
  BY <1>9
  DEF SettleMode, Fail, CreationInv, CreationTypeOK, CallShape, Numbers, PathFits, OwnFits,
      X11, Early, Making, Made, Ending, request
<1>10. CASE StartEventThread
  BY <1>10
  DEF StartEventThread, Take, Fail, CreationInv, CreationTypeOK, CallShape, Numbers,
      PathFits, OwnFits, X11, Early, Making, Made, Ending, request
<1>11. CASE InitPageFlipThread
  BY <1>11
  DEF InitPageFlipThread, Take, Fail, CreationInv, CreationTypeOK, CallShape, Numbers,
      PathFits, OwnFits, X11, Early, Making, Made, Ending, request
<1>12. CASE InitFreeImageSemaphore
  BY <1>12
  DEF InitFreeImageSemaphore, Take, Fail, CreationInv, CreationTypeOK, CallShape, Numbers,
      PathFits, OwnFits, X11, Early, Making, Made, Ending, request
<1>13. CASE ChooseFormat
  BY <1>13
  DEF ChooseFormat, Fail, CreationInv, CreationTypeOK, CallShape, Numbers, PathFits,
      OwnFits, X11, Early, Making, Made, Ending, request
<1>14. CASE CreateSwapchainImage
  BY <1>14
  DEF CreateSwapchainImage, Fail, CreationInv, CreationTypeOK, CallShape, Numbers, PathFits,
      OwnFits, X11, Early, Making, Made, Ending, request
<1>15. CASE AllocateSwapchainImage
  BY <1>15
  DEF AllocateSwapchainImage, Fail, CreationInv, CreationTypeOK, CallShape, Numbers,
      PathFits, OwnFits, X11, Early, Making, Made, Ending, request
<1>16. CASE CreateSemaphores
  BY <1>16
  DEF CreateSemaphores, Fail, CreationInv, CreationTypeOK, CallShape, Numbers, PathFits,
      OwnFits, X11, Early, Making, Made, Ending, request
<1>17. CASE SetDeviceLoaderData
  BY <1>17
  DEF SetDeviceLoaderData, Fail, CreationInv, CreationTypeOK, CallShape, Numbers, PathFits,
      OwnFits, X11, Early, Making, Made, Ending, request
<1>18. CASE LinkAncestor
  BY <1>18
  DEF LinkAncestor, CreationInv, CreationTypeOK, CallShape, Numbers, PathFits, OwnFits, X11,
      Early, Making, Made, Ending, request
<1>19. CASE AddLayerSwapchain
  BY <1>19
  DEF AddLayerSwapchain, Fail, CreationInv, CreationTypeOK, CallShape, Numbers, PathFits,
      OwnFits, X11, Early, Making, Made, Ending, request
<1>20. CASE StopEventThread
  BY <1>20
  DEF StopEventThread, CreationInv, CreationTypeOK, CallShape, Numbers, PathFits, OwnFits,
      X11, Early, Making, Made, Ending, request
<1>21. CASE Teardown
  BY <1>21
  DEF Teardown, CreationInv, CreationTypeOK, CallShape, Numbers, PathFits, OwnFits, X11,
      Early, Making, Made, Ending, request
<1>22. CASE WaitForPendingBuffers
  BY <1>22
  DEF WaitForPendingBuffers, CreationInv, CreationTypeOK, CallShape, Numbers, PathFits,
      OwnFits, X11, Early, Making, Made, Ending, request
<1>23. CASE JoinFlipThread
  BY <1>23
  DEF JoinFlipThread, CreationInv, CreationTypeOK, CallShape, Numbers, PathFits, OwnFits,
      X11, Early, Making, Made, Ending, request
<1>24. CASE ReleaseImages
  BY <1>24
  DEF ReleaseImages, CreationInv, CreationTypeOK, CallShape, Numbers, PathFits, OwnFits,
      X11, Early, Making, Made, Ending, request
<1>25. CASE FreeSwapchain
  BY <1>25
  DEF FreeSwapchain, CreationInv, CreationTypeOK, CallShape, Numbers, PathFits, OwnFits,
      X11, Early, Making, Made, Ending, request
<1>26. CASE UNCHANGED creationVars
  BY <1>26
  DEF creationVars, request, images, format, CreationInv, CreationTypeOK, CallShape,
      Numbers, PathFits, OwnFits, X11, Early, Making, Made, Ending, request
<1> QED
  BY <1>1, <1>2, <1>3, <1>4, <1>5, <1>6, <1>7, <1>8, <1>9, <1>10, <1>11, <1>12, <1>13,
     <1>14, <1>15, <1>16, <1>17, <1>18, <1>19, <1>20, <1>21, <1>22, <1>23, <1>24, <1>25,
     <1>26
  DEF CreationNext, Call, InitPlatform, InitImages, Destruct

(* A call goes from a stage to a stage.                                    *)
LEMMA ShapeStep ==
    ASSUME CreationInv, [CreationNext]_creationVars
    PROVE  CallShape'
<1>1. CASE CreateSwapchain
  BY <1>1, CreationAssumption
  DEF CreateSwapchain, CreationInv, CreationTypeOK, CallShape, Early, Making, Made, Ending,
      request
<1>2. CASE AcquireImage
  BY <1>2, CreationAssumption
  DEF AcquireImage, CreationInv, CreationTypeOK, CallShape, Early, Making, Made, Ending,
      request
<1>3. CASE DestroySwapchain
  BY <1>3, CreationAssumption
  DEF DestroySwapchain, CreationInv, CreationTypeOK, CallShape, Early, Making, Made, Ending,
      request
<1>4. CASE AddRequiredExtensions
  BY <1>4, CreationAssumption
  DEF AddRequiredExtensions, Take, Fail, CreationInv, CreationTypeOK, CallShape, Early,
      Making, Made, Ending, request
<1>5. CASE CreateQueue
  BY <1>5, CreationAssumption
  DEF CreateQueue, Take, Fail, CreationInv, CreationTypeOK, CallShape, Early, Making, Made,
      Ending, request
<1>6. CASE CreateAllocator
  BY <1>6, CreationAssumption
  DEF CreateAllocator, Take, Fail, CreationInv, CreationTypeOK, CallShape, Early, Making,
      Made, Ending, request
<1>7. CASE ChoosePath
  BY <1>7, CreationAssumption
  DEF ChoosePath, PresentationPath, CreationInv, CreationTypeOK, CallShape, Early, Making,
      Made, Ending, request
<1>8. CASE InitShmPresenter
  BY <1>8, CreationAssumption
  DEF InitShmPresenter, Take, Fail, CreationInv, CreationTypeOK, CallShape, Early, Making,
      Made, Ending, request
<1>9. CASE SettleMode
  BY <1>9, CreationAssumption
  DEF SettleMode, Fail, CreationInv, CreationTypeOK, CallShape, Early, Making, Made, Ending,
      request
<1>10. CASE StartEventThread
  BY <1>10, CreationAssumption
  DEF StartEventThread, Take, Fail, CreationInv, CreationTypeOK, CallShape, Early, Making,
      Made, Ending, request
<1>11. CASE InitPageFlipThread
  BY <1>11, CreationAssumption
  DEF InitPageFlipThread, Take, Fail, CreationInv, CreationTypeOK, CallShape, Early, Making,
      Made, Ending, request
<1>12. CASE InitFreeImageSemaphore
  BY <1>12, CreationAssumption
  DEF InitFreeImageSemaphore, Take, Fail, CreationInv, CreationTypeOK, CallShape, Early,
      Making, Made, Ending, request
<1>13. CASE ChooseFormat
  BY <1>13, CreationAssumption
  DEF ChooseFormat, Fail, CreationInv, CreationTypeOK, CallShape, Early, Making, Made,
      Ending, request
<1>14. CASE CreateSwapchainImage
  BY <1>14, CreationAssumption
  DEF CreateSwapchainImage, Fail, CreationInv, CreationTypeOK, CallShape, Early, Making,
      Made, Ending, request
<1>15. CASE AllocateSwapchainImage
  BY <1>15, CreationAssumption
  DEF AllocateSwapchainImage, Fail, CreationInv, CreationTypeOK, CallShape, Early, Making,
      Made, Ending, request
<1>16. CASE CreateSemaphores
  BY <1>16, CreationAssumption
  DEF CreateSemaphores, Fail, CreationInv, CreationTypeOK, CallShape, Early, Making, Made,
      Ending, request
<1>17. CASE SetDeviceLoaderData
  BY <1>17, CreationAssumption
  DEF SetDeviceLoaderData, Fail, CreationInv, CreationTypeOK, CallShape, Early, Making,
      Made, Ending, request
<1>18. CASE LinkAncestor
  BY <1>18, CreationAssumption
  DEF LinkAncestor, CreationInv, CreationTypeOK, CallShape, Early, Making, Made, Ending,
      request
<1>19. CASE AddLayerSwapchain
  BY <1>19, CreationAssumption
  DEF AddLayerSwapchain, Fail, CreationInv, CreationTypeOK, CallShape, Early, Making, Made,
      Ending, request
<1>20. CASE StopEventThread
  BY <1>20, CreationAssumption
  DEF StopEventThread, CreationInv, CreationTypeOK, CallShape, Early, Making, Made, Ending,
      request
<1>21. CASE Teardown
  BY <1>21, CreationAssumption
  DEF Teardown, CreationInv, CreationTypeOK, CallShape, Early, Making, Made, Ending, request
<1>22. CASE WaitForPendingBuffers
  BY <1>22, CreationAssumption
  DEF WaitForPendingBuffers, CreationInv, CreationTypeOK, CallShape, Early, Making, Made,
      Ending, request
<1>23. CASE JoinFlipThread
  BY <1>23, CreationAssumption
  DEF JoinFlipThread, CreationInv, CreationTypeOK, CallShape, Early, Making, Made, Ending,
      request
<1>24. CASE ReleaseImages
  BY <1>24, CreationAssumption
  DEF ReleaseImages, CreationInv, CreationTypeOK, CallShape, Early, Making, Made, Ending,
      request
<1>25. CASE FreeSwapchain
  BY <1>25, CreationAssumption
  DEF FreeSwapchain, CreationInv, CreationTypeOK, CallShape, Early, Making, Made, Ending,
      request
<1>26. CASE UNCHANGED creationVars
  BY <1>26, CreationAssumption
  DEF creationVars, request, images, format, CreationInv, CreationTypeOK, CallShape, Early,
      Making, Made, Ending, request
<1> QED
  BY <1>1, <1>2, <1>3, <1>4, <1>5, <1>6, <1>7, <1>8, <1>9, <1>10, <1>11, <1>12, <1>13,
     <1>14, <1>15, <1>16, <1>17, <1>18, <1>19, <1>20, <1>21, <1>22, <1>23, <1>24, <1>25,
     <1>26
  DEF CreationNext, Call, InitPlatform, InitImages, Destruct

(* The counters keep their types.                                          *)
LEMMA NumbersStep ==
    ASSUME CreationInv, [CreationNext]_creationVars
    PROVE  Numbers'
<1>1. CASE CreateSwapchain
  <2>1. /\ count \in Slots /\ next \in Slots /\ units \in Nat /\ drain \in Nat
        /\ error \in BOOLEAN
    BY DEF CreationInv, CreationTypeOK, Numbers
  <2>2. /\ UNCHANGED <<next, drain>>
        /\ units' \in Nat /\ count' \in Slots
    BY <1>1, <2>1 DEF CreateSwapchain, request
  <2>4. error' = TRUE \/ error' = error
    BY <1>1 DEF CreateSwapchain
  <2>3. Slots' = Slots
    BY DEF Slots
  <2> QED
    BY <2>1, <2>2, <2>3, <2>4 DEF Numbers
<1>2. CASE AcquireImage
  BY <1>2, CreationAssumption
  DEF AcquireImage, CreationInv, CreationTypeOK, CallShape, Numbers, PathFits, Making,
      Slots, Existing, request
<1>3. CASE DestroySwapchain
  BY <1>3, CreationAssumption
  DEF DestroySwapchain, CreationInv, CreationTypeOK, CallShape, Numbers, PathFits, Making,
      Slots, Existing, request
<1>4. CASE AddRequiredExtensions
  BY <1>4, CreationAssumption
  DEF AddRequiredExtensions, Take, Fail, CreationInv, CreationTypeOK, CallShape, Numbers,
      PathFits, Making, Slots, Existing, request
<1>5. CASE CreateQueue
  BY <1>5, CreationAssumption
  DEF CreateQueue, Take, Fail, CreationInv, CreationTypeOK, CallShape, Numbers, PathFits,
      Making, Slots, Existing, request
<1>6. CASE CreateAllocator
  BY <1>6, CreationAssumption
  DEF CreateAllocator, Take, Fail, CreationInv, CreationTypeOK, CallShape, Numbers,
      PathFits, Making, Slots, Existing, request
<1>7. CASE ChoosePath
  BY <1>7, CreationAssumption
  DEF ChoosePath, PresentationPath, CreationInv, CreationTypeOK, CallShape, Numbers,
      PathFits, Making, Slots, Existing, request
<1>8. CASE InitShmPresenter
  BY <1>8, CreationAssumption
  DEF InitShmPresenter, Take, Fail, CreationInv, CreationTypeOK, CallShape, Numbers,
      PathFits, Making, Slots, Existing, request
<1>9. CASE SettleMode
  <2>1. /\ count \in Slots /\ next \in Slots /\ units \in Nat /\ drain \in Nat
        /\ error \in BOOLEAN
    BY DEF CreationInv, CreationTypeOK, Numbers
  <2>2. MaxImages \in Slots
    BY CreationAssumption DEF Slots
  <2>3. count' \in {count, MaxImages} /\ UNCHANGED <<next, units, drain>> /\ error' \in {FALSE, error}
    BY <1>9 DEF SettleMode
  <2>4. Slots' = Slots
    BY DEF Slots
  <2> QED
    BY <2>1, <2>2, <2>3, <2>4 DEF Numbers
<1>10. CASE StartEventThread
  BY <1>10, CreationAssumption
  DEF StartEventThread, Take, Fail, CreationInv, CreationTypeOK, CallShape, Numbers,
      PathFits, Making, Slots, Existing, request
<1>11. CASE InitPageFlipThread
  BY <1>11, CreationAssumption
  DEF InitPageFlipThread, Take, Fail, CreationInv, CreationTypeOK, CallShape, Numbers,
      PathFits, Making, Slots, Existing, request
<1>12. CASE InitFreeImageSemaphore
  BY <1>12, CreationAssumption
  DEF InitFreeImageSemaphore, Take, Fail, CreationInv, CreationTypeOK, CallShape, Numbers,
      PathFits, Making, Slots, Existing, request
<1>13. CASE ChooseFormat
  BY <1>13, CreationAssumption
  DEF ChooseFormat, Fail, CreationInv, CreationTypeOK, CallShape, Numbers, PathFits, Making,
      Slots, Existing, request
<1>14. CASE CreateSwapchainImage
  BY <1>14, CreationAssumption
  DEF CreateSwapchainImage, Fail, CreationInv, CreationTypeOK, CallShape, Numbers, PathFits,
      Making, Slots, Existing, request
<1>15. CASE AllocateSwapchainImage
  BY <1>15, CreationAssumption
  DEF AllocateSwapchainImage, Fail, CreationInv, CreationTypeOK, CallShape, Numbers,
      PathFits, Making, Slots, Existing, request
<1>16. CASE CreateSemaphores
  BY <1>16, CreationAssumption
  DEF CreateSemaphores, Fail, CreationInv, CreationTypeOK, CallShape, Numbers, PathFits,
      Making, Slots, Existing, request
<1>17. CASE SetDeviceLoaderData
  BY <1>17, CreationAssumption
  DEF SetDeviceLoaderData, Fail, CreationInv, CreationTypeOK, CallShape, Numbers, PathFits,
      Making, Slots, Existing, request
<1>18. CASE LinkAncestor
  BY <1>18, CreationAssumption
  DEF LinkAncestor, CreationInv, CreationTypeOK, CallShape, Numbers, PathFits, Making,
      Slots, Existing, request
<1>19. CASE AddLayerSwapchain
  BY <1>19, CreationAssumption
  DEF AddLayerSwapchain, Fail, CreationInv, CreationTypeOK, CallShape, Numbers, PathFits,
      Making, Slots, Existing, request
<1>20. CASE StopEventThread
  BY <1>20, CreationAssumption
  DEF StopEventThread, CreationInv, CreationTypeOK, CallShape, Numbers, PathFits, Making,
      Slots, Existing, request
<1>21. CASE Teardown
  <2> DEFINE acquired == Cardinality({i \in Existing : status[i] = "ACQUIRED"})
  <2>1. acquired \in Nat
    <3>1. count \in Nat /\ Existing = 1 .. count
      BY CreationAssumption DEF CreationInv, CreationTypeOK, Numbers, Slots, Existing
    <3>2. IsFiniteSet(Existing)
      BY <3>1, FS_Interval
    <3> QED
      BY <3>2, FS_Subset, FS_CardinalityType
  <2>2. /\ UNCHANGED <<next, count, units, error>>
        /\ drain' = IF error \/ count < acquired + 1 THEN 0 ELSE count - acquired - 1
    BY <1>21 DEF Teardown, request
  <2> HIDE DEF acquired
  <2>3. drain' \in Nat
    BY <2>1, <2>2, CreationAssumption DEF CreationInv, CreationTypeOK, Numbers, Slots
  <2> QED
    BY <2>2, <2>3 DEF CreationInv, CreationTypeOK, Numbers, Slots
<1>22. CASE WaitForPendingBuffers
  BY <1>22, CreationAssumption
  DEF WaitForPendingBuffers, CreationInv, CreationTypeOK, CallShape, Numbers, PathFits,
      Making, Slots, Existing, request
<1>23. CASE JoinFlipThread
  BY <1>23, CreationAssumption
  DEF JoinFlipThread, CreationInv, CreationTypeOK, CallShape, Numbers, PathFits, Making,
      Slots, Existing, request
<1>24. CASE ReleaseImages
  BY <1>24, CreationAssumption
  DEF ReleaseImages, CreationInv, CreationTypeOK, CallShape, Numbers, PathFits, Making,
      Slots, Existing, request
<1>25. CASE FreeSwapchain
  BY <1>25, CreationAssumption
  DEF FreeSwapchain, CreationInv, CreationTypeOK, CallShape, Numbers, PathFits, Making,
      Slots, Existing, request
<1>26. CASE UNCHANGED creationVars
  BY <1>26, CreationAssumption
  DEF creationVars, request, images, format, CreationInv, CreationTypeOK, CallShape,
      Numbers, PathFits, Making, Slots, Existing, request
<1> QED
  BY <1>1, <1>2, <1>3, <1>4, <1>5, <1>6, <1>7, <1>8, <1>9, <1>10, <1>11, <1>12, <1>13,
     <1>14, <1>15, <1>16, <1>17, <1>18, <1>19, <1>20, <1>21, <1>22, <1>23, <1>24, <1>25,
     <1>26
  DEF CreationNext, Call, InitPlatform, InitImages, Destruct

(* The object holds what it may hold.                                      *)
LEMMA OwnKindsStep ==
    ASSUME CreationInv, [CreationNext]_creationVars
    PROVE  own' \subseteq OwnKinds
<1>1. CASE CreateSwapchain
  BY <1>1 DEF CreateSwapchain, CreationInv, CreationTypeOK, OwnKinds
<1>2. CASE AcquireImage
  BY <1>2 DEF AcquireImage, CreationInv, CreationTypeOK
<1>3. CASE DestroySwapchain
  BY <1>3 DEF DestroySwapchain, CreationInv, CreationTypeOK
<1>4. CASE AddRequiredExtensions
  BY <1>4 DEF AddRequiredExtensions, Take, Fail, CreationInv, CreationTypeOK
<1>5. CASE CreateQueue
  BY <1>5 DEF CreateQueue, Take, Fail, CreationInv, CreationTypeOK, OwnKinds
<1>6. CASE CreateAllocator
  BY <1>6 DEF CreateAllocator, Take, Fail, CreationInv, CreationTypeOK, OwnKinds
<1>7. CASE ChoosePath
  BY <1>7 DEF ChoosePath, PresentationPath, CreationInv, CreationTypeOK, OwnKinds
<1>8. CASE InitShmPresenter
  BY <1>8 DEF InitShmPresenter, Take, Fail, CreationInv, CreationTypeOK, OwnKinds
<1>9. CASE SettleMode
  BY <1>9 DEF SettleMode, Fail, CreationInv, CreationTypeOK
<1>10. CASE StartEventThread
  BY <1>10 DEF StartEventThread, Take, Fail, CreationInv, CreationTypeOK, OwnKinds
<1>11. CASE InitPageFlipThread
  BY <1>11 DEF InitPageFlipThread, Take, Fail, CreationInv, CreationTypeOK, OwnKinds
<1>12. CASE InitFreeImageSemaphore
  BY <1>12 DEF InitFreeImageSemaphore, Take, Fail, CreationInv, CreationTypeOK, OwnKinds
<1>13. CASE ChooseFormat
  BY <1>13 DEF ChooseFormat, Fail, CreationInv, CreationTypeOK
<1>14. CASE CreateSwapchainImage
  BY <1>14 DEF CreateSwapchainImage, Fail, CreationInv, CreationTypeOK
<1>15. CASE AllocateSwapchainImage
  BY <1>15 DEF AllocateSwapchainImage, Fail, CreationInv, CreationTypeOK
<1>16. CASE CreateSemaphores
  BY <1>16 DEF CreateSemaphores, Fail, CreationInv, CreationTypeOK
<1>17. CASE SetDeviceLoaderData
  BY <1>17 DEF SetDeviceLoaderData, Fail, CreationInv, CreationTypeOK, OwnKinds
<1>18. CASE LinkAncestor
  BY <1>18 DEF LinkAncestor, CreationInv, CreationTypeOK
<1>19. CASE AddLayerSwapchain
  BY <1>19 DEF AddLayerSwapchain, Fail, CreationInv, CreationTypeOK, OwnKinds
<1>20. CASE StopEventThread
  BY <1>20 DEF StopEventThread, CreationInv, CreationTypeOK
<1>21. CASE Teardown
  BY <1>21 DEF Teardown, CreationInv, CreationTypeOK
<1>22. CASE WaitForPendingBuffers
  BY <1>22 DEF WaitForPendingBuffers, CreationInv, CreationTypeOK
<1>23. CASE JoinFlipThread
  BY <1>23 DEF JoinFlipThread, CreationInv, CreationTypeOK
<1>24. CASE ReleaseImages
  BY <1>24 DEF ReleaseImages, CreationInv, CreationTypeOK
<1>25. CASE FreeSwapchain
  BY <1>25 DEF FreeSwapchain, CreationInv, CreationTypeOK
<1>26. CASE UNCHANGED creationVars
  BY <1>26 DEF creationVars, request, images, format, CreationInv, CreationTypeOK
<1> QED
  BY <1>1, <1>2, <1>3, <1>4, <1>5, <1>6, <1>7, <1>8, <1>9, <1>10, <1>11, <1>12, <1>13,
     <1>14, <1>15, <1>16, <1>17, <1>18, <1>19, <1>20, <1>21, <1>22, <1>23, <1>24, <1>25,
     <1>26
  DEF CreationNext, Call, InitPlatform, InitImages, Destruct

(* The images keep their types.                                            *)
LEMMA ImageShapeStep ==
    ASSUME CreationInv, [CreationNext]_creationVars
    PROVE  ImageShape'
<1>1. CASE CreateSwapchain
  BY <1>1 DEF CreateSwapchain, CreationInv, CreationTypeOK, Numbers, ImageShape, images
<1>2. CASE AcquireImage
  <2>1. PICK i \in Existing, h \in SUBSET ImageKinds,
             s \in {"INVALID", "UNALLOCATED", "FREE", "ACQUIRED"} :
          /\ i \in Slots
          /\ held' = [held EXCEPT ![i] = h] /\ status' = [status EXCEPT ![i] = s]
    BY <1>2, AcquireDoes DEF CreationInv
  <2> QED
    BY <2>1 DEF CreationInv, CreationTypeOK, ImageShape
<1>3. CASE DestroySwapchain
  BY <1>3 DEF DestroySwapchain, CreationInv, CreationTypeOK, Numbers, ImageShape, images
<1>4. CASE AddRequiredExtensions
  BY <1>4
  DEF AddRequiredExtensions, Take, Fail, CreationInv, CreationTypeOK, Numbers, ImageShape,
      images
<1>5. CASE CreateQueue
  BY <1>5
  DEF CreateQueue, Take, Fail, CreationInv, CreationTypeOK, Numbers, ImageShape, images
<1>6. CASE CreateAllocator
  BY <1>6
  DEF CreateAllocator, Take, Fail, CreationInv, CreationTypeOK, Numbers, ImageShape, images
<1>7. CASE ChoosePath
  BY <1>7
  DEF ChoosePath, PresentationPath, CreationInv, CreationTypeOK, Numbers, ImageShape, images
<1>8. CASE InitShmPresenter
  BY <1>8
  DEF InitShmPresenter, Take, Fail, CreationInv, CreationTypeOK, Numbers, ImageShape, images
<1>9. CASE SettleMode
  BY <1>9 DEF SettleMode, Fail, CreationInv, CreationTypeOK, Numbers, ImageShape, images
<1>10. CASE StartEventThread
  BY <1>10
  DEF StartEventThread, Take, Fail, CreationInv, CreationTypeOK, Numbers, ImageShape, images
<1>11. CASE InitPageFlipThread
  BY <1>11
  DEF InitPageFlipThread, Take, Fail, CreationInv, CreationTypeOK, Numbers, ImageShape,
      images
<1>12. CASE InitFreeImageSemaphore
  BY <1>12
  DEF InitFreeImageSemaphore, Take, Fail, CreationInv, CreationTypeOK, Numbers, ImageShape,
      images
<1>13. CASE ChooseFormat
  <2>1. status' = status /\ (held' = held \/ held' = [held EXCEPT ![next] = {"data"}])
    BY <1>13 DEF ChooseFormat
  <2>2. {"data"} \in SUBSET ImageKinds
    BY DEF ImageKinds, DataResources
  <2> QED
    BY <2>1, <2>2 DEF CreationInv, CreationTypeOK, ImageShape
<1>14. CASE CreateSwapchainImage
  <2>1. PICK e \in SUBSET ImageKinds, s \in {status[next], "UNALLOCATED"} :
          /\ next \in Slots
          /\ held' = [held EXCEPT ![next] = held[next] \cup e]
          /\ status' = [status EXCEPT ![next] = s]
    BY <1>14, CreateDoes DEF CreationInv
  <2>2. held[next] \cup e \in SUBSET ImageKinds
        /\ s \in {"INVALID", "UNALLOCATED", "FREE", "ACQUIRED"}
    BY <2>1 DEF CreationInv, CreationTypeOK, ImageShape
  <2> QED
    BY <2>1, <2>2 DEF CreationInv, CreationTypeOK, ImageShape
<1>15. CASE AllocateSwapchainImage
  <2>1. status[next] = "INVALID"
    BY <1>15
    DEF AllocateSwapchainImage, CreationInv, CreationTypeOK, Numbers, Holdings, ImageFits
  <2>2. PICK h \in SUBSET ImageKinds, s \in {"INVALID", "FREE"} :
          /\ held' = [held EXCEPT ![next] = h] /\ status' = [status EXCEPT ![next] = s]
    BY <1>15, <2>1, AllocateDoes DEF CreationInv
  <2> QED
    BY <2>2 DEF CreationInv, CreationTypeOK, ImageShape
<1>16. CASE CreateSemaphores
  <2>1. PICK e \in SUBSET ImageSemaphores :
          /\ next \in Slots /\ status' = status
          /\ held' = [held EXCEPT ![next] = held[next] \cup e]
    BY <1>16, SemaphoresDo DEF CreationInv
  <2>2. held[next] \cup e \in SUBSET ImageKinds
    BY <2>1 DEF CreationInv, CreationTypeOK, ImageShape, ImageSemaphores, ImageKinds
  <2> QED
    BY <2>1, <2>2 DEF CreationInv, CreationTypeOK, ImageShape
<1>17. CASE SetDeviceLoaderData
  BY <1>17
  DEF SetDeviceLoaderData, Fail, CreationInv, CreationTypeOK, Numbers, ImageShape, images
<1>18. CASE LinkAncestor
  BY <1>18 DEF LinkAncestor, CreationInv, CreationTypeOK, Numbers, ImageShape, images
<1>19. CASE AddLayerSwapchain
  BY <1>19
  DEF AddLayerSwapchain, Fail, CreationInv, CreationTypeOK, Numbers, ImageShape, images
<1>20. CASE StopEventThread
  BY <1>20 DEF StopEventThread, CreationInv, CreationTypeOK, Numbers, ImageShape, images
<1>21. CASE Teardown
  BY <1>21 DEF Teardown, CreationInv, CreationTypeOK, Numbers, ImageShape, images
<1>22. CASE WaitForPendingBuffers
  BY <1>22
  DEF WaitForPendingBuffers, CreationInv, CreationTypeOK, Numbers, ImageShape, images
<1>23. CASE JoinFlipThread
  BY <1>23 DEF JoinFlipThread, CreationInv, CreationTypeOK, Numbers, ImageShape, images
<1>24. CASE ReleaseImages
  <2>1. /\ held' = [held EXCEPT ![next] = DestroyImage(next)]
        /\ status' = [status EXCEPT ![next] = "INVALID"]
    BY <1>24 DEF ReleaseImages
  <2>2. next \in Slots /\ held[next] \in SUBSET ImageKinds
    BY DEF CreationInv, CreationTypeOK, Numbers, ImageShape
  <2>3. DestroyImage(next) \in SUBSET ImageKinds
    BY <2>2 DEF DestroyImage
  <2> QED
    BY <2>1, <2>3 DEF CreationInv, CreationTypeOK, ImageShape
<1>25. CASE FreeSwapchain
  BY <1>25 DEF FreeSwapchain, CreationInv, CreationTypeOK, Numbers, ImageShape, images
<1>26. CASE UNCHANGED creationVars
  BY <1>26
  DEF creationVars, request, images, format, CreationInv, CreationTypeOK, Numbers,
      ImageShape, images
<1> QED
  BY <1>1, <1>2, <1>3, <1>4, <1>5, <1>6, <1>7, <1>8, <1>9, <1>10, <1>11, <1>12, <1>13,
     <1>14, <1>15, <1>16, <1>17, <1>18, <1>19, <1>20, <1>21, <1>22, <1>23, <1>24, <1>25,
     <1>26
  DEF CreationNext, Call, InitPlatform, InitImages, Destruct

(* What the images hold fits the stage.                                    *)
LEMMA HoldingsStep ==
    ASSUME CreationInv, [CreationNext]_creationVars
    PROVE  Holdings'
<1>1. CASE CreateSwapchain
  <2>1. CASE UNCHANGED <<at, path, deferred, count, next, own, status, held>>
    BY <2>1 DEF CreationInv, Holdings, ImageFits, Begun, Released, Dropped, Refused, Slots
  <2>2. CASE /\ at' = "extensions" /\ own' = {"object"}
             /\ status' = [i \in Slots |-> "INVALID"] /\ held' = [i \in Slots |-> {}]
    <3>1. ASSUME NEW k \in Slots PROVE ImageFits(k)'
      <4>1. held'[k] = {} /\ status'[k] = "INVALID"
        BY <2>2
      <4> QED
        BY <2>2, <4>1 DEF ImageFits, Begun, Released, Dropped, Refused, Made, Making, Early
    <3> QED
      BY <3>1 DEF Holdings, Slots
  <2> QED
    BY <1>1, <2>1, <2>2 DEF CreateSwapchain, request, images
<1>2. CASE AcquireImage
  <2>1. PICK i \in Existing, h \in SUBSET ImageKinds,
             s \in {"INVALID", "UNALLOCATED", "FREE", "ACQUIRED"} :
          /\ i \in Slots /\ at = "live" /\ status[i] \in {"FREE", "UNALLOCATED"}
          /\ held' = [held EXCEPT ![i] = h]
          /\ status' = [status EXCEPT ![i] = s]
          /\ UNCHANGED <<at, path, deferred, count, next, own>>
          /\ h \subseteq held[i] \cup DataResources
          /\ "wl_buffer" \in h => "wl_buffer" \in held[i] \/ path = "wayland"
          /\ s \in {"FREE", "ACQUIRED"} =>
                /\ held[i] \subseteq h
                /\ path = "headless" => "data" \in h \/ h = held[i]
          /\ s = "UNALLOCATED" => path = "headless" /\ h = held[i] \ {"image"}
          /\ s = "INVALID" => path \in {"headless", "wayland"} /\ h = Undone(i)
          /\ s \in {"INVALID", "UNALLOCATED"} => status[i] = "UNALLOCATED"
    BY <1>2, AcquireDoes, ZenonT(40) DEF CreationInv
  <2>2. ASSUME NEW k \in Slots, k # i PROVE ImageFits(k)'
    <3>1. held'[k] = held[k] /\ status'[k] = status[k]
      BY <2>1, <2>2 DEF CreationInv, CreationTypeOK, ImageShape
    <3>2. ImageFits(k)
      BY DEF CreationInv, Holdings
    <3> QED
      BY <2>1, <3>1, <3>2 DEF ImageFits, Begun, Released, Dropped, Refused
  <2>3. ImageFits(i)'
    <3>1. held'[i] = h /\ status'[i] = s
      BY <2>1 DEF CreationInv, CreationTypeOK, ImageShape
    <3>2. ImageFits(i) /\ (path = "wayland" => "wl_queue" \in own) /\ i =< count
      BY <2>1 DEF CreationInv, Holdings, OwnFits, Made, Existing
    <3>3. path # "headless" => {"data", "image"} \subseteq held[i]
      BY <2>1, <3>2 DEF ImageFits, Begun, Made, Dropped, Refused
    <3>4. "hud" \in own => path # "headless"
      BY DEF CreationInv, OwnFits
    <3>5. h \cap DataResources # {} => "data" \in h
      <4>1. held[i] \cap DataResources # {} => "data" \in held[i]
        BY <3>2 DEF ImageFits
      <4>2. Undone(i) \cap DataResources = {}
        BY DEF Undone
      <4>3. "data" \in DataResources
        BY DEF DataResources
      <4> QED
        BY <2>1, <3>3, <4>1, <4>2, <4>3
    <3>6. s = "INVALID" => "image" \notin h
      BY <2>1 DEF Undone
    <3>7. s \in {"FREE", "ACQUIRED"} /\ path # "headless" => {"data", "image"} \subseteq h
      BY <2>1, <3>3
    <3> QED
      <4>0. s = "UNALLOCATED" \/ s = "INVALID" => deferred
        BY <2>1, <3>2 DEF ImageFits
      <4>1. CASE s \in {"FREE", "ACQUIRED"}
        BY <2>1, <3>1, <3>2, <3>4, <3>5, <3>7, <4>1
        DEF ImageFits, Begun, Released, Made, Making, Early
      <4>2. CASE s = "UNALLOCATED"
        BY <2>1, <3>1, <3>2, <3>4, <3>5, <4>0, <4>2
        DEF ImageFits, Begun, Released, Made, Making, Early
      <4>3. CASE s = "INVALID"
        BY <2>1, <3>1, <3>2, <3>4, <3>5, <3>6, <4>0, <4>3
        DEF ImageFits, Begun, Released, Dropped, Refused, Made, Making, Early
      <4> QED
        BY <2>1, <4>1, <4>2, <4>3
  <2> QED
    BY <2>2, <2>3 DEF Holdings, Slots
<1>3. CASE DestroySwapchain
  BY <1>3, CreationAssumption
  DEF DestroySwapchain, CreationInv, CreationTypeOK, CallShape, Numbers, PathFits, OwnFits,
      Holdings, ImageFits, Begun, Released, Dropped, Refused, X11, Early, Making, Made,
      Ending, request, images, Slots
<1>4. CASE AddRequiredExtensions
  BY <1>4, CreationAssumption
  DEF AddRequiredExtensions, Take, Fail, CreationInv, CreationTypeOK, CallShape, Numbers,
      PathFits, OwnFits, Holdings, ImageFits, Begun, Released, Dropped, Refused, X11,
      Early, Making, Made, Ending, request, images, Slots
<1>5. CASE CreateQueue
  BY <1>5, CreationAssumption
  DEF CreateQueue, Take, Fail, CreationInv, CreationTypeOK, CallShape, Numbers, PathFits,
      OwnFits, Holdings, ImageFits, Begun, Released, Dropped, Refused, X11, Early, Making,
      Made, Ending, request, images, Slots
<1>6. CASE CreateAllocator
  BY <1>6, CreationAssumption
  DEF CreateAllocator, Take, Fail, CreationInv, CreationTypeOK, CallShape, Numbers,
      PathFits, OwnFits, Holdings, ImageFits, Begun, Released, Dropped, Refused, X11,
      Early, Making, Made, Ending, request, images, Slots
<1>7. CASE ChoosePath
  BY <1>7, CreationAssumption
  DEF ChoosePath, PresentationPath, CreationInv, CreationTypeOK, CallShape, Numbers,
      PathFits, OwnFits, Holdings, ImageFits, Begun, Released, Dropped, Refused, X11,
      Early, Making, Made, Ending, request, images, Slots
<1>8. CASE InitShmPresenter
  BY <1>8, CreationAssumption
  DEF InitShmPresenter, Take, Fail, CreationInv, CreationTypeOK, CallShape, Numbers,
      PathFits, OwnFits, Holdings, ImageFits, Begun, Released, Dropped, Refused, X11,
      Early, Making, Made, Ending, request, images, Slots
<1>9. CASE SettleMode
  BY <1>9, CreationAssumption
  DEF SettleMode, Fail, CreationInv, CreationTypeOK, CallShape, Numbers, PathFits, OwnFits,
      Holdings, ImageFits, Begun, Released, Dropped, Refused, X11, Early, Making, Made,
      Ending, request, images, Slots
<1>10. CASE StartEventThread
  BY <1>10, CreationAssumption
  DEF StartEventThread, Take, Fail, CreationInv, CreationTypeOK, CallShape, Numbers,
      PathFits, OwnFits, Holdings, ImageFits, Begun, Released, Dropped, Refused, X11,
      Early, Making, Made, Ending, request, images, Slots
<1>11. CASE InitPageFlipThread
  BY <1>11, CreationAssumption
  DEF InitPageFlipThread, Take, Fail, CreationInv, CreationTypeOK, CallShape, Numbers,
      PathFits, OwnFits, Holdings, ImageFits, Begun, Released, Dropped, Refused, X11,
      Early, Making, Made, Ending, request, images, Slots
<1>12. CASE InitFreeImageSemaphore
  BY <1>12, CreationAssumption
  DEF InitFreeImageSemaphore, Take, Fail, CreationInv, CreationTypeOK, CallShape, Numbers,
      PathFits, OwnFits, Holdings, ImageFits, Begun, Released, Dropped, Refused, X11,
      Early, Making, Made, Ending, request, images, Slots
<1>13. CASE ChooseFormat
  <2>1. /\ at = "image" /\ status' = status /\ UNCHANGED <<path, deferred, count, next, own>>
        /\ \/ at' = at /\ held' = held
           \/ at' = "destructor" /\ held' = [held EXCEPT ![next] = {"data"}]
    BY <1>13 DEF ChooseFormat, Fail, request
  <2>2. "hud" \notin own /\ next =< count /\ next \in Slots
    BY <2>1 DEF CreationInv, CreationTypeOK, Numbers, OwnFits, PathFits, Made, Making
  <2>3. ASSUME NEW k \in Slots, held'[k] = held[k] PROVE ImageFits(k)'
    <3>1. ImageFits(k)
      BY DEF CreationInv, Holdings
    <3> QED
      BY <2>1, <2>2, <2>3, <3>1
      DEF ImageFits, Begun, Released, Dropped, Refused, Made, Making, Early, Slots
  <2>4. ASSUME held' = [held EXCEPT ![next] = {"data"}], at' = "destructor" PROVE ImageFits(next)'
    <3>1. held'[next] = {"data"} /\ status'[next] = status[next]
      BY <2>1, <2>2, <2>4 DEF CreationInv, CreationTypeOK, ImageShape
    <3>2. ImageFits(next)
      BY <2>2 DEF CreationInv, Holdings
    <3> QED
      BY <2>1, <2>2, <2>4, <3>1, <3>2
      DEF ImageFits, Begun, Released, Dropped, Refused, Made, Making, Early, Slots
  <2>5. \A k \in Slots : held'[k] = held[k] \/ k = next
    BY <2>1 DEF CreationInv, CreationTypeOK, ImageShape
  <2> QED
    BY <2>1, <2>3, <2>4, <2>5 DEF Holdings, Slots
<1>14. CASE CreateSwapchainImage
  <2>1. PICK e \in SUBSET ImageKinds, s \in {status[next], "UNALLOCATED"} :
          /\ next \in Slots /\ at = "image"
          /\ at' \in {"semaphores", "allocate", "destructor"}
          /\ held' = [held EXCEPT ![next] = held[next] \cup e]
          /\ status' = [status EXCEPT ![next] = s]
          /\ UNCHANGED <<path, deferred, count, next, own>>
          /\ at' = "semaphores" => s = "UNALLOCATED" /\ deferred
          /\ at' # "semaphores" => s = status[next]
          /\ e \subseteq {"data", "image", "memory", "binding"}
          /\ e \cap DataResources # {} => "data" \in e
          /\ at' = "destructor" => path = "shm" \/ "image" \notin e
          /\ at' # "destructor" => "image" \in e /\ (path # "headless" => "data" \in e)
    BY <1>14, CreateDoes DEF CreationInv
  <2>2. ASSUME NEW k \in Slots, k # next PROVE ImageFits(k)'
    <3>1. held'[k] = held[k] /\ status'[k] = status[k]
      BY <2>1, <2>2 DEF CreationInv, CreationTypeOK, ImageShape
    <3>2. ImageFits(k) /\ "hud" \notin own
      BY <2>1 DEF CreationInv, Holdings, OwnFits, Made
    <3> QED
      BY <2>1, <2>2, <3>1, <3>2
      DEF ImageFits, Begun, Released, Dropped, Refused, Made, Making, Early
  <2>3. ImageFits(next)'
    <3>1. next =< count /\ "hud" \notin own /\ ImageFits(next)
      BY <2>1 DEF CreationInv, Holdings, PathFits, OwnFits, Made, Making
    <3>2. held[next] = {} /\ status[next] = "INVALID"
      BY <2>1, <3>1 DEF ImageFits, Begun, Made, Making, Slots
    <3>3. held'[next] = e /\ status'[next] = s
      BY <2>1, <3>2 DEF CreationInv, CreationTypeOK, ImageShape
    <3>4. "wl_buffer" \notin e
      BY <2>1
    <3> QED
      BY <2>1, <3>1, <3>2, <3>3, <3>4
      DEF ImageFits, Begun, Released, Dropped, Refused, Made, Making, Early
  <2> QED
    BY <2>1, <2>2, <2>3 DEF Holdings, Slots
<1>15. CASE AllocateSwapchainImage
  <2>0. next \in Slots /\ ImageFits(next) /\ at = "allocate" /\ next =< count /\ "hud" \notin own
    BY <1>15
    DEF AllocateSwapchainImage, CreationInv, CreationTypeOK, Numbers, Holdings, PathFits,
        OwnFits, Made, Making
  <2>1. PICK h \in SUBSET ImageKinds, s \in {"INVALID", "FREE"} :
          /\ next \in Slots /\ at = "allocate" /\ at' \in {"semaphores", "destructor"}
          /\ held' = [held EXCEPT ![next] = h]
          /\ status' = [status EXCEPT ![next] = s]
          /\ UNCHANGED <<path, deferred, count, next, own>>
          /\ h \subseteq held[next] \cup DataResources
          /\ "wl_buffer" \in h => "wl_buffer" \in held[next] \/ path = "wayland"
          /\ s = "FREE" => held[next] \subseteq h /\ (path = "headless" => "data" \in h)
          /\ s = "INVALID" =>
                /\ path \in {"headless", "wayland"} /\ at' = "destructor"
                /\ h = Undone(next) \/ (path = "headless" /\ h = held[next] \ {"image"})
    <3>1. status[next] = "INVALID"
      BY <2>0 DEF ImageFits
    <3> QED
      BY <1>15, <3>1, AllocateDoes, ZenonT(40) DEF CreationInv
  <2>2. ASSUME NEW k \in Slots, k # next PROVE ImageFits(k)'
    <3>1. held'[k] = held[k] /\ status'[k] = status[k]
      BY <2>1, <2>2 DEF CreationInv, CreationTypeOK, ImageShape
    <3>2. ImageFits(k) /\ "hud" \notin own
      BY <2>1 DEF CreationInv, Holdings, OwnFits, Made
    <3> QED
      BY <2>1, <2>2, <3>1, <3>2
      DEF ImageFits, Begun, Released, Dropped, Refused, Made, Making, Early
  <2>3. ImageFits(next)'
    <3>1. held'[next] = h /\ status'[next] = s
      BY <2>1 DEF CreationInv, CreationTypeOK, ImageShape
    <3>2. /\ ImageFits(next) /\ (path = "wayland" => "wl_queue" \in own)
          /\ next =< count /\ "hud" \notin own
      BY <2>1 DEF CreationInv, Holdings, PathFits, OwnFits, Made, Making
    <3>3. path # "headless" => {"data", "image"} \subseteq held[next]
      BY <2>1, <3>2 DEF ImageFits, Begun, Dropped
    <3>4. h \cap DataResources # {} => "data" \in h
      <4>1. held[next] \cap DataResources # {} => "data" \in held[next]
        BY <3>2 DEF ImageFits
      <4>2. Undone(next) \cap DataResources = {}
        BY DEF Undone
      <4>3. "data" \in DataResources /\ "data" # "image"
        BY DEF DataResources
      <4> QED
        BY <2>1, <3>3, <4>1, <4>2, <4>3
    <3>5. s = "INVALID" => "image" \notin h
      BY <2>1 DEF Undone
    <3>6. s = "FREE" /\ path # "headless" => {"data", "image"} \subseteq h
      BY <2>1, <3>3
    <3> QED
      <4>1. CASE s = "FREE"
        BY <2>1, <3>1, <3>2, <3>4, <3>6, <4>1
        DEF ImageFits, Begun, Released, Made, Making, Early
      <4>2. CASE s = "INVALID"
        BY <2>1, <3>1, <3>2, <3>4, <3>5, <4>2
        DEF ImageFits, Begun, Released, Made, Making, Early
      <4> QED
        BY <2>1, <4>1, <4>2
  <2> QED
    BY <2>1, <2>2, <2>3 DEF Holdings, Slots
<1>16. CASE CreateSemaphores
  <2>1. PICK e \in SUBSET ImageSemaphores :
          /\ next \in Slots /\ at = "semaphores"
          /\ held' = [held EXCEPT ![next] = held[next] \cup e]
          /\ status' = status
          /\ UNCHANGED <<path, deferred, count, own>>
          /\ \/ at' = "destructor" /\ next' = next
             \/ at' = "queue_data" /\ next = count /\ next' = next /\ e = ImageSemaphores
             \/ at' = "image" /\ next # count /\ next' = next + 1 /\ e = ImageSemaphores
    BY <1>16, SemaphoresDo DEF CreationInv
  <2>2. "hud" \notin own /\ next =< count /\ count \in Slots
    BY <2>1 DEF CreationInv, CreationTypeOK, Numbers, OwnFits, PathFits, Made, Making
  <2>3. ASSUME NEW k \in Slots, k # next PROVE ImageFits(k)'
    <3>1. held'[k] = held[k] /\ status'[k] = status[k]
      BY <2>1, <2>3 DEF CreationInv, CreationTypeOK, ImageShape
    <3>2. ImageFits(k)
      BY DEF CreationInv, Holdings
    <3> QED
      BY <2>1, <2>2, <2>3, <3>1, <3>2
      DEF ImageFits, Begun, Released, Dropped, Refused, Made, Making, Early, Slots
  <2>4. ASSUME NEW k \in Slots, k = next PROVE ImageFits(k)'
    <3>1. held'[k] = held[next] \cup e /\ status'[k] = status[next]
      BY <2>1, <2>4 DEF CreationInv, CreationTypeOK, ImageShape
    <3>2. ImageFits(k)
      BY <2>1 DEF CreationInv, Holdings
    <3>3. e \cap (DataResources \cup {"image"}) = {}
      BY <2>1 DEF ImageSemaphores, DataResources, MemoryResources, SegmentResources
    <3>4. "wl_buffer" \in DataResources
      BY DEF DataResources
    <3> QED
      BY <2>1, <2>2, <2>4, <3>1, <3>2, <3>3, <3>4
      DEF ImageFits, Begun, Released, Dropped, Refused, Made, Making, Early, Slots
  <2> QED
    BY <2>3, <2>4 DEF Holdings, Slots
<1>17. CASE SetDeviceLoaderData
  BY <1>17, CreationAssumption
  DEF SetDeviceLoaderData, Fail, CreationInv, CreationTypeOK, CallShape, Numbers, PathFits,
      OwnFits, Holdings, ImageFits, Begun, Released, Dropped, Refused, X11, Early, Making,
      Made, Ending, request, images, Slots
<1>18. CASE LinkAncestor
  BY <1>18, CreationAssumption
  DEF LinkAncestor, CreationInv, CreationTypeOK, CallShape, Numbers, PathFits, OwnFits,
      Holdings, ImageFits, Begun, Released, Dropped, Refused, X11, Early, Making, Made,
      Ending, request, images, Slots
<1>19. CASE AddLayerSwapchain
  BY <1>19, CreationAssumption
  DEF AddLayerSwapchain, Fail, CreationInv, CreationTypeOK, CallShape, Numbers, PathFits,
      OwnFits, Holdings, ImageFits, Begun, Released, Dropped, Refused, X11, Early, Making,
      Made, Ending, request, images, Slots
<1>20. CASE StopEventThread
  BY <1>20, CreationAssumption
  DEF StopEventThread, CreationInv, CreationTypeOK, CallShape, Numbers, PathFits, OwnFits,
      Holdings, ImageFits, Begun, Released, Dropped, Refused, X11, Early, Making, Made,
      Ending, request, images, Slots
<1>21. CASE Teardown
  BY <1>21, CreationAssumption
  DEF Teardown, CreationInv, CreationTypeOK, CallShape, Numbers, PathFits, OwnFits,
      Holdings, ImageFits, Begun, Released, Dropped, Refused, X11, Early, Making, Made,
      Ending, request, images, Slots
<1>22. CASE WaitForPendingBuffers
  BY <1>22, CreationAssumption
  DEF WaitForPendingBuffers, CreationInv, CreationTypeOK, CallShape, Numbers, PathFits,
      OwnFits, Holdings, ImageFits, Begun, Released, Dropped, Refused, X11, Early, Making,
      Made, Ending, request, images, Slots
<1>23. CASE JoinFlipThread
  BY <1>23, CreationAssumption
  DEF JoinFlipThread, CreationInv, CreationTypeOK, CallShape, Numbers, PathFits, OwnFits,
      Holdings, ImageFits, Begun, Released, Dropped, Refused, X11, Early, Making, Made,
      Ending, request, images, Slots
<1>24. CASE ReleaseImages
  <2>1. /\ at = "images" /\ UNCHANGED <<path, deferred, count, own>>
        /\ held' = [held EXCEPT ![next] = DestroyImage(next)]
        /\ status' = [status EXCEPT ![next] = "INVALID"]
        /\ \/ at' = at /\ next < count /\ next' = next + 1
           \/ at' = "members" /\ next' = next /\ ~(next < count)
    BY <1>24 DEF ReleaseImages, request
  <2>2. /\ "hud" \notin own /\ next =< count /\ next \in Slots /\ count \in Slots
        /\ held[next] \in SUBSET ImageKinds
    BY <2>1
    DEF CreationInv, CreationTypeOK, Numbers, ImageShape, OwnFits, PathFits, Made, Making
  <2>3. ASSUME NEW k \in Slots, k # next PROVE ImageFits(k)'
    <3>1. held'[k] = held[k] /\ status'[k] = status[k]
      BY <2>1, <2>3 DEF CreationInv, CreationTypeOK, ImageShape
    <3>2. ImageFits(k)
      BY DEF CreationInv, Holdings
    <3> QED
      BY <2>1, <2>2, <2>3, <3>1, <3>2
      DEF ImageFits, Begun, Released, Dropped, Refused, Made, Making, Early, Slots
  <2>4. ASSUME NEW k \in Slots, k = next PROVE ImageFits(k)'
    <3>1. held'[k] = DestroyImage(next) /\ status'[k] = "INVALID"
      BY <2>1, <2>2, <2>4 DEF CreationInv, CreationTypeOK, ImageShape
    <3>2. ImageFits(k)
      BY <2>2 DEF CreationInv, Holdings
    <3>3. DestroyImage(next) = {} \/ (path = "shm" /\ DestroyImage(next) = {"image"})
      <4>1. held[next] \subseteq DataResources \cup {"image", "present_semaphore", "present_fence_wait"}
        BY <2>2 DEF ImageKinds
      <4>2. held[next] \cap DataResources # {} => "data" \in held[next]
        BY <2>4, <3>2 DEF ImageFits
      <4>3. "image" \in held[next] /\ status[next] = "INVALID" => path = "shm"
        BY <2>1, <2>4, <3>2 DEF ImageFits
      <4> QED
        BY <4>1, <4>2, <4>3 DEF DestroyImage
    <3>4. "image" \notin DataResources /\ "wl_buffer" # "image"
      BY DEF DataResources, MemoryResources, SegmentResources
    <3> QED
      BY <2>1, <2>2, <2>4, <3>1, <3>3, <3>4
      DEF ImageFits, Begun, Released, Dropped, Refused, Made, Making, Early, Slots
  <2> QED
    BY <2>3, <2>4 DEF Holdings, Slots
<1>25. CASE FreeSwapchain
  <2>1. /\ at = "members" /\ at' = "idle" /\ status' = status /\ own' = {}
        /\ held' = [i \in Slots |-> {}] /\ UNCHANGED <<path, count, next>>
    BY <1>25 DEF FreeSwapchain, request
  <2>2. ASSUME NEW k \in Slots PROVE ImageFits(k)'
    <3>1. held'[k] = {} /\ status'[k] = "INVALID"
      BY <2>1 DEF CreationInv, Holdings, ImageFits, Released
    <3> QED
      BY <2>1, <3>1 DEF ImageFits, Begun, Released, Dropped, Refused, Made, Making, Early
  <2> QED
    BY <2>2 DEF Holdings, Slots
<1>26. CASE UNCHANGED creationVars
  BY <1>26, CreationAssumption
  DEF creationVars, request, images, format, CreationInv, CreationTypeOK, CallShape,
      Numbers, PathFits, OwnFits, Holdings, ImageFits, Begun, Released, Dropped, Refused,
      X11, Early, Making, Made, Ending, Slots
<1> QED
  BY <1>1, <1>2, <1>3, <1>4, <1>5, <1>6, <1>7, <1>8, <1>9, <1>10, <1>11, <1>12, <1>13,
     <1>14, <1>15, <1>16, <1>17, <1>18, <1>19, <1>20, <1>21, <1>22, <1>23, <1>24, <1>25,
     <1>26
  DEF CreationNext, Call, InitPlatform, InitImages, Destruct

(* What is lost when the object is freed.                                  *)
LEMMA LossesStep ==
    ASSUME CreationInv, [CreationNext]_creationVars
    PROVE  NothingElseIsLost'
<1>1. CASE CreateSwapchain
  BY <1>1 DEF CreateSwapchain, CreationInv, NothingElseIsLost, KnownLosses, X11, request
<1>2. CASE AcquireImage
  BY <1>2 DEF AcquireImage, CreationInv, NothingElseIsLost, KnownLosses, X11, request
<1>3. CASE DestroySwapchain
  BY <1>3 DEF DestroySwapchain, CreationInv, NothingElseIsLost, KnownLosses, X11, request
<1>4. CASE AddRequiredExtensions
  BY <1>4
  DEF AddRequiredExtensions, Take, Fail, CreationInv, NothingElseIsLost, KnownLosses, X11,
      request
<1>5. CASE CreateQueue
  BY <1>5
  DEF CreateQueue, Take, Fail, CreationInv, NothingElseIsLost, KnownLosses, X11, request
<1>6. CASE CreateAllocator
  BY <1>6
  DEF CreateAllocator, Take, Fail, CreationInv, NothingElseIsLost, KnownLosses, X11, request
<1>7. CASE ChoosePath
  BY <1>7
  DEF ChoosePath, PresentationPath, CreationInv, NothingElseIsLost, KnownLosses, X11,
      request
<1>8. CASE InitShmPresenter
  BY <1>8
  DEF InitShmPresenter, Take, Fail, CreationInv, NothingElseIsLost, KnownLosses, X11,
      request
<1>9. CASE SettleMode
  BY <1>9 DEF SettleMode, Fail, CreationInv, NothingElseIsLost, KnownLosses, X11, request
<1>10. CASE StartEventThread
  BY <1>10
  DEF StartEventThread, Take, Fail, CreationInv, NothingElseIsLost, KnownLosses, X11,
      request
<1>11. CASE InitPageFlipThread
  BY <1>11
  DEF InitPageFlipThread, Take, Fail, CreationInv, NothingElseIsLost, KnownLosses, X11,
      request
<1>12. CASE InitFreeImageSemaphore
  BY <1>12
  DEF InitFreeImageSemaphore, Take, Fail, CreationInv, NothingElseIsLost, KnownLosses, X11,
      request
<1>13. CASE ChooseFormat
  BY <1>13 DEF ChooseFormat, Fail, CreationInv, NothingElseIsLost, KnownLosses, X11, request
<1>14. CASE CreateSwapchainImage
  BY <1>14
  DEF CreateSwapchainImage, Fail, CreationInv, NothingElseIsLost, KnownLosses, X11, request
<1>15. CASE AllocateSwapchainImage
  BY <1>15
  DEF AllocateSwapchainImage, Fail, CreationInv, NothingElseIsLost, KnownLosses, X11,
      request
<1>16. CASE CreateSemaphores
  BY <1>16
  DEF CreateSemaphores, Fail, CreationInv, NothingElseIsLost, KnownLosses, X11, request
<1>17. CASE SetDeviceLoaderData
  BY <1>17
  DEF SetDeviceLoaderData, Fail, CreationInv, NothingElseIsLost, KnownLosses, X11, request
<1>18. CASE LinkAncestor
  BY <1>18 DEF LinkAncestor, CreationInv, NothingElseIsLost, KnownLosses, X11, request
<1>19. CASE AddLayerSwapchain
  BY <1>19
  DEF AddLayerSwapchain, Fail, CreationInv, NothingElseIsLost, KnownLosses, X11, request
<1>20. CASE StopEventThread
  BY <1>20 DEF StopEventThread, CreationInv, NothingElseIsLost, KnownLosses, X11, request
<1>21. CASE Teardown
  BY <1>21 DEF Teardown, CreationInv, NothingElseIsLost, KnownLosses, X11, request
<1>22. CASE WaitForPendingBuffers
  BY <1>22
  DEF WaitForPendingBuffers, CreationInv, NothingElseIsLost, KnownLosses, X11, request
<1>23. CASE JoinFlipThread
  BY <1>23 DEF JoinFlipThread, CreationInv, NothingElseIsLost, KnownLosses, X11, request
<1>24. CASE ReleaseImages
  BY <1>24 DEF ReleaseImages, CreationInv, NothingElseIsLost, KnownLosses, X11, request
<1>25. CASE FreeSwapchain
  <2>1. /\ at = "members" /\ path' = path
        /\ lost' = (own \ Members) \cup UNION {held[i] : i \in Slots}
    BY <1>25 DEF FreeSwapchain, request
  <2>2. ASSUME NEW i \in Slots, NEW r \in held[i] PROVE r \in KnownLosses
    <3>1. held[i] = {} \/ (path = "shm" /\ held[i] = {"image"})
      BY <2>1 DEF CreationInv, Holdings, ImageFits, Released
    <3> QED
      BY <2>2, <3>1 DEF KnownLosses
  <2>3. ASSUME NEW r \in own, r \notin Members PROVE r \in KnownLosses
    <3>1. r \in OwnKinds
      BY DEF CreationInv, CreationTypeOK
    <3>2. r \notin {"event_thread", "flip_thread", "hud", "registered"}
      BY <2>1 DEF CreationInv, OwnFits, Made
    <3>3. r \in {"allocator", "gc"} /\ (r = "allocator" => path # "wayland")
      BY <2>3, <3>1, <3>2 DEF OwnKinds, Members
    <3>4. CASE r = "gc"
      BY <3>4 DEF KnownLosses, CreationInv, OwnFits
    <3>5. CASE r = "allocator"
      <4>1. path \in {"x11", "dri3", "bridge", "shm"}
        BY <3>3, <3>5 DEF CreationInv, CreationTypeOK, CallShape, OwnFits
      <4> QED
        BY <3>5, <4>1 DEF KnownLosses, X11
    <3> QED
      BY <3>3, <3>4, <3>5
  <2>4. KnownLosses' = KnownLosses
    BY <2>1 DEF KnownLosses, X11
  <2> QED
    BY <2>1, <2>2, <2>3, <2>4 DEF NothingElseIsLost
<1>26. CASE UNCHANGED creationVars
  BY <1>26
  DEF creationVars, request, images, format, CreationInv, NothingElseIsLost, KnownLosses,
      X11, request
<1> QED
  BY <1>1, <1>2, <1>3, <1>4, <1>5, <1>6, <1>7, <1>8, <1>9, <1>10, <1>11, <1>12, <1>13,
     <1>14, <1>15, <1>16, <1>17, <1>18, <1>19, <1>20, <1>21, <1>22, <1>23, <1>24, <1>25,
     <1>26
  DEF CreationNext, Call, InitPlatform, InitImages, Destruct

(* All of it together.                                                     *)
LEMMA CreationInvariant == CreationSpec => []CreationInv
<1>1. CreationInit => CreationInv
  <2> SUFFICES ASSUME CreationInit PROVE CreationInv
    OBVIOUS
  <2>1. 1 \in Slots
    BY CreationAssumption DEF Slots
  <2>2. CallShape /\ Numbers
    BY <2>1 DEF CreationInit, CallShape, Numbers
  <2>3. ImageShape /\ own \subseteq OwnKinds
    BY DEF CreationInit, ImageShape
  <2>4. PathFits /\ OwnFits
    BY DEF CreationInit, PathFits, OwnFits, Making, Made, X11
  <2>5. Holdings
    BY
    DEF CreationInit, Holdings, ImageFits, Begun, Released, Dropped, Refused, Making, Made
  <2>6. NothingElseIsLost
    BY DEF CreationInit, NothingElseIsLost
  <2> QED
    BY <2>2, <2>3, <2>4, <2>5, <2>6 DEF CreationInv, CreationTypeOK
<1>2. CreationInv /\ [CreationNext]_creationVars => CreationInv'
  <2> SUFFICES ASSUME CreationInv, [CreationNext]_creationVars PROVE CreationInv'
    OBVIOUS
  <2> QED
    BY ShapeStep, NumbersStep, ImageShapeStep, OwnKindsStep, PathStep, OwnStep,
       HoldingsStep,
       LossesStep
    DEF CreationInv, CreationTypeOK
<1> QED
  BY <1>1, <1>2, PTL DEF CreationSpec

(* Whatever step of a creation fails, and after a destruction: what is     *)
(* still held when the object is freed is what the X11 back end's          *)
(* destructors forget, and nothing else (vkCreateSwapchainKHR,             *)
(* teardown(), destroy_image()).                                           *)
THEOREM CreationsAreUndone == CreationSpec => []NothingElseIsLost
<1>1. CreationInv => NothingElseIsLost
  BY DEF CreationInv
<1> QED
  BY <1>1, CreationInvariant, PTL

(* The threads, the HUD's views and the buffers are gone before what they  *)
(* use (teardown() and the destructors of the back ends).                  *)
THEOREM UsersAreGone == CreationSpec => []UsersGoFirst
<1>1. CreationInv => UsersGoFirst
  <2> SUFFICES ASSUME CreationInv PROVE UsersGoFirst
    OBVIOUS
  <2>1. ASSUME "event_thread" \in own, NEW i \in Slots, status[i] # "INVALID"
        PROVE  "data" \in held[i]
    <3>1. path # "headless"
      BY <2>1 DEF CreationInv, OwnFits, X11
    <3> QED
      BY <2>1, <3>1 DEF CreationInv, Holdings, ImageFits
  <2>2. ASSUME "hud" \in own, NEW i \in Existing PROVE "image" \in held[i] \/ Refused(i)
    <3>1. i \in Slots /\ i =< count
      BY CreationAssumption DEF CreationInv, CreationTypeOK, Numbers, Slots, Existing
    <3> QED
      BY <2>2, <3>1 DEF CreationInv, Holdings, ImageFits, Dropped
  <2>3. ASSUME NEW i \in Slots, "wl_buffer" \in held[i] PROVE "wl_queue" \in own
    BY <2>3 DEF CreationInv, Holdings, ImageFits
  <2>4. at \in {"images", "members"} => own \cap {"flip_thread", "event_thread"} = {}
    BY DEF CreationInv, OwnFits
  <2> QED
    BY <2>1, <2>2, <2>3, <2>4 DEF UsersGoFirst
<1> QED
  BY <1>1, CreationInvariant, PTL

(* Units against images.  A creation gives the semaphore one unit for      *)
(* every image, and an image has something to hand out once it is made.    *)
Counted == {"image", "allocate", "semaphores", "queue_data", "link", "register"}
Finished(i) ==
    \/ at \in Making /\ i < next
    \/ at = "semaphores" /\ i = next
    \/ at \in {"queue_data", "link", "register"} /\ i =< count
UnitsInv ==
    /\ at \in Counted => units = count
    /\ \A i \in Slots : Finished(i) => status[i] \in {"FREE", "UNALLOCATED"}
    /\ UnitsHaveImages

(* What is left of the images when one of them is taken.                   *)
LEMMA AvailableWithout ==
    ASSUME CreationTypeOK, NEW i \in Available, units =< Cardinality(Available),
           UNCHANGED count, units' = units - 1,
           \A k \in Slots \ {i} : status'[k] = status[k]
    PROVE  units' =< Cardinality(Available)'
<1> DEFINE S == Available
           T == {k \in Existing' : status'[k] \in {"FREE", "UNALLOCATED"}}
<1>1. /\ count \in Nat /\ Existing = 1 .. count /\ Existing' = Existing
      /\ Existing \subseteq Slots /\ units \in Nat
  BY CreationAssumption DEF CreationTypeOK, Numbers, Slots, Existing
<1>2. IsFiniteSet(Existing)
  BY <1>1, FS_Interval
<1>3. S \subseteq Existing /\ T \subseteq Existing /\ S \ {i} \subseteq T
  BY <1>1 DEF Available
<1>4. IsFiniteSet(S) /\ IsFiniteSet(T)
  BY <1>2, <1>3, FS_Subset
<1>5. Available' = T
  BY DEF Available
<1> HIDE DEF S, T
<1>6. i \in S /\ units =< Cardinality(S)
  BY DEF S
<1>7. Cardinality(S \ {i}) = Cardinality(S) - 1
  BY <1>4, <1>6, FS_RemoveElement
<1>8. Cardinality(S \ {i}) =< Cardinality(T)
  BY <1>3, <1>4, FS_Subset
<1>9. Cardinality(S) \in Nat /\ Cardinality(T) \in Nat
  BY <1>4, FS_CardinalityType
<1>10. units - 1 =< Cardinality(T)
  BY <1>1, <1>6, <1>7, <1>8, <1>9
<1> QED
  BY <1>5, <1>10

(* A call that does not touch the images, before they are made or after.   *)
LEMMA UnitsElsewhere ==
    ASSUME at' \notin Counted \cup {"live"}
    PROVE  UnitsInv'
<1> QED
  BY DEF UnitsInv, Counted, Finished, Making, UnitsHaveImages

(* Every step keeps them in balance.                                       *)
LEMMA UnitsStep ==
    ASSUME CreationInv, UnitsInv, [CreationNext]_creationVars
    PROVE  UnitsInv'
<1>0. CreationTypeOK
  BY DEF CreationInv
<1>1. ASSUME UNCHANGED <<at, next, count, status, units>> PROVE UnitsInv'
  <2>1. Finished(0)' = Finished(0) /\ \A i \in Slots : Finished(i)' = Finished(i)
    BY <1>1 DEF Finished
  <2>2. Available' = Available
    BY <1>1 DEF Available, Existing
  <2>3. UnitsHaveImages'
    BY <1>1, <2>2 DEF UnitsInv, UnitsHaveImages
  <2> QED
    BY <1>1, <2>1, <2>3 DEF UnitsInv, Slots
<1>2. CASE CreateSwapchain
  <2>1. at = "idle" /\ (at' = at \/ at' = "extensions")
    BY <1>2 DEF CreateSwapchain
  <2> QED
    BY <2>1, UnitsElsewhere DEF Counted
<1>3. CASE InitPlatform
  <2>1. at' \in {"flip_thread", "queue", "allocator", "path", "shm_presenter", "mode",
                 "event_thread", "destructor"}
    BY <1>3
    DEF InitPlatform, AddRequiredExtensions, CreateQueue, CreateAllocator, ChoosePath,
        InitShmPresenter, SettleMode, StartEventThread, Take, Fail
  <2> QED
    BY <2>1, UnitsElsewhere DEF Counted
<1>4. CASE InitPageFlipThread
  <2>1. at' \in {"semaphore", "destructor"}
    BY <1>4 DEF InitPageFlipThread, Take, Fail
  <2> QED
    BY <2>1, UnitsElsewhere DEF Counted
<1>5. CASE InitFreeImageSemaphore
  <2>1. CASE at' = "image"
    <3>1. units' = count' /\ next' = 1
      BY <1>5, <2>1 DEF InitFreeImageSemaphore, request
    <3>2. ASSUME NEW i \in Slots PROVE ~Finished(i)'
      BY <2>1, <3>1 DEF Finished, Making, Slots
    <3> QED
      BY <2>1, <3>1, <3>2 DEF UnitsInv, UnitsHaveImages, Slots
  <2>2. CASE at' # "image"
    <3>1. at' = "destructor"
      BY <1>5, <2>2 DEF InitFreeImageSemaphore, Take, Fail
    <3> QED
      BY <3>1, UnitsElsewhere DEF Counted
  <2> QED
    BY <2>1, <2>2
<1>6. CASE ChooseFormat
  <2>1. UNCHANGED <<next, count, status, units>> /\ (at' = at \/ at' = "destructor")
    BY <1>6 DEF ChooseFormat, Fail, request
  <2>2. CASE at' = at
    BY <1>1, <2>1, <2>2
  <2>3. CASE at' = "destructor"
    BY <2>3, UnitsElsewhere DEF Counted
  <2> QED
    BY <2>1, <2>2, <2>3
<1>7. CASE CreateSwapchainImage
  <2>1. PICK s \in {status[next], "UNALLOCATED"} :
          /\ next \in Slots /\ at = "image"
          /\ at' \in {"semaphores", "allocate", "destructor"}
          /\ status' = [status EXCEPT ![next] = s]
          /\ UNCHANGED <<count, next>>
          /\ at' = "semaphores" => s = "UNALLOCATED"
    BY <1>0, <1>7, CreateDoes
  <2>2. units' = units
    BY <1>7 DEF CreateSwapchainImage
  <2>3. units' = count'
    BY <2>1, <2>2 DEF UnitsInv, Counted
  <2>4. ASSUME NEW i \in Slots, Finished(i)' PROVE status'[i] \in {"FREE", "UNALLOCATED"}
    <3>1. CASE i = next
      <4>1. at' = "semaphores"
        BY <2>1, <2>4, <3>1 DEF Finished, Slots
      <4> QED
        BY <1>0, <2>1, <3>1, <4>1 DEF CreationTypeOK, ImageShape
    <3>2. CASE i # next
      <4>1. i < next /\ status'[i] = status[i]
        BY <1>0, <2>1, <2>4, <3>2 DEF Finished, CreationTypeOK, ImageShape
      <4> QED
        BY <2>1, <4>1 DEF UnitsInv, Finished, Making
    <3> QED
      BY <3>1, <3>2
  <2> QED
    BY <2>1, <2>3, <2>4 DEF UnitsInv, UnitsHaveImages, Slots
<1>8. CASE AllocateSwapchainImage
  <2>1. status[next] = "INVALID" /\ at = "allocate"
    BY <1>8
    DEF AllocateSwapchainImage, CreationInv, CreationTypeOK, Numbers, Holdings, ImageFits
  <2>2. PICK s \in {"INVALID", "FREE"} :
          /\ next \in Slots /\ at' \in {"semaphores", "destructor"}
          /\ status' = [status EXCEPT ![next] = s]
          /\ UNCHANGED <<count, next>>
          /\ s = "INVALID" => at' = "destructor"
    BY <1>0, <1>8, <2>1, AllocateDoes
  <2>3. units' = units
    BY <1>8 DEF AllocateSwapchainImage
  <2>4. units' = count'
    BY <2>1, <2>2, <2>3 DEF UnitsInv, Counted
  <2>5. CASE at' = "destructor"
    BY <2>5, UnitsElsewhere DEF Counted
  <2>6. CASE at' = "semaphores"
    <3>1. ASSUME NEW i \in Slots, Finished(i)' PROVE status'[i] \in {"FREE", "UNALLOCATED"}
      <4>1. CASE i = next
        BY <1>0, <2>2, <2>6, <4>1 DEF CreationTypeOK, ImageShape
      <4>2. CASE i # next
        <5>1. i < next /\ status'[i] = status[i]
          BY <1>0, <2>2, <2>6, <3>1, <4>2 DEF Finished, CreationTypeOK, ImageShape
        <5> QED
          BY <2>1, <5>1 DEF UnitsInv, Finished, Making
      <4> QED
        BY <4>1, <4>2
    <3> QED
      BY <2>4, <2>6, <3>1 DEF UnitsInv, UnitsHaveImages, Slots
  <2> QED
    BY <2>2, <2>5, <2>6
<1>9. CASE CreateSemaphores
  <2>1. /\ next \in Slots /\ at = "semaphores"
        /\ UNCHANGED <<status, count>>
        /\ \/ at' = "destructor" /\ next' = next
           \/ at' = "queue_data" /\ next = count /\ next' = next
           \/ at' = "image" /\ next # count /\ next' = next + 1
    BY <1>0, <1>9, SemaphoresDo
  <2>2. units' = units
    BY <1>9 DEF CreateSemaphores
  <2>3. units' = count' /\ count \in Slots
    BY <1>0, <2>1, <2>2 DEF UnitsInv, Counted, CreationTypeOK, Numbers
  <2>4. CASE at' = "destructor"
    BY <2>4, UnitsElsewhere DEF Counted
  <2>5. CASE at' \in {"queue_data", "image"}
    <3>1. ASSUME NEW i \in Slots, Finished(i)' PROVE status'[i] \in {"FREE", "UNALLOCATED"}
      <4>1. i =< next
        BY <2>1, <2>3, <2>5, <3>1 DEF Finished, Making, Slots
      <4>2. Finished(i)
        BY <2>1, <4>1 DEF Finished, Making, Slots
      <4> QED
        BY <2>1, <4>2 DEF UnitsInv
    <3> QED
      BY <2>3, <2>5, <3>1 DEF UnitsInv, UnitsHaveImages, Slots
  <2> QED
    BY <2>1, <2>4, <2>5
<1>10. CASE SetDeviceLoaderData \/ LinkAncestor
  <2>1. /\ UNCHANGED <<next, count, status, units>>
        /\ \/ at = "queue_data" /\ at' \in {"link", "destructor"}
           \/ at = "link" /\ at' = "register"
    BY <1>10 DEF SetDeviceLoaderData, LinkAncestor, Fail, request, images
  <2>2. CASE at' = "destructor"
    BY <2>2, UnitsElsewhere DEF Counted
  <2>3. CASE at' \in {"link", "register"}
    <3>1. units' = count'
      BY <2>1, <2>3 DEF UnitsInv, Counted
    <3>2. ASSUME NEW i \in Slots, Finished(i)' PROVE status'[i] \in {"FREE", "UNALLOCATED"}
      <4>1. Finished(i)
        BY <2>1, <2>3, <3>2 DEF Finished, Making
      <4> QED
        BY <2>1, <4>1 DEF UnitsInv
    <3> QED
      BY <2>3, <3>1, <3>2 DEF UnitsInv, UnitsHaveImages, Slots
  <2> QED
    BY <2>1, <2>2, <2>3
<1>11. CASE AddLayerSwapchain
  <2>1. /\ UNCHANGED <<next, count, status, units>> /\ at = "register"
        /\ at' \in {"live", "destructor"}
    BY <1>11 DEF AddLayerSwapchain, Fail, request, images
  <2>2. CASE at' = "destructor"
    BY <2>2, UnitsElsewhere DEF Counted
  <2>3. CASE at' = "live"
    <3>1. units = count /\ count \in Nat /\ Existing = 1 .. count /\ Existing \subseteq Slots
      BY <1>0, <2>1, CreationAssumption
      DEF UnitsInv, Counted, CreationTypeOK, Numbers, Slots, Existing
    <3>2. ASSUME NEW i \in Existing PROVE status[i] \in {"FREE", "UNALLOCATED"}
      BY <2>1, <3>1, <3>2 DEF UnitsInv, Finished
    <3>3. Available = 1 .. count /\ Available' = Available
      BY <2>1, <3>1, <3>2 DEF Available, Existing
    <3>4. Cardinality(1 .. count) = count
      BY <3>1, FS_Interval
    <3>5. UnitsHaveImages'
      BY <2>1, <3>1, <3>3, <3>4 DEF UnitsHaveImages
    <3>6. ASSUME NEW i \in Slots PROVE ~Finished(i)'
      BY <2>3 DEF Finished, Making
    <3> QED
      BY <2>3, <3>5, <3>6 DEF UnitsInv, Counted, Slots
  <2> QED
    BY <2>1, <2>2, <2>3
<1>12. CASE AcquireImage
  <2>1. /\ at = "live" /\ at' = "live" /\ UNCHANGED count /\ units' = units - 1
    BY <1>12 DEF AcquireImage, request
  <2>2. PICK i \in Existing, s \in {"INVALID", "UNALLOCATED", "FREE", "ACQUIRED"} :
          /\ i \in Slots /\ status[i] \in {"FREE", "UNALLOCATED"}
          /\ status' = [status EXCEPT ![i] = s]
    BY <1>0, <1>12, AcquireDoes
  <2>3. i \in Available /\ \A k \in Slots \ {i} : status'[k] = status[k]
    BY <1>0, <2>2 DEF Available, CreationTypeOK, ImageShape
  <2>4. units =< Cardinality(Available)
    BY <2>1 DEF UnitsInv, UnitsHaveImages
  <2>5. units' =< Cardinality(Available)'
    BY <1>0, <2>1, <2>3, <2>4, AvailableWithout
  <2>6. ASSUME NEW k \in Slots PROVE ~Finished(k)'
    BY <2>1 DEF Finished, Making
  <2> QED
    BY <2>1, <2>5, <2>6 DEF UnitsInv, UnitsHaveImages, Counted, Slots
<1>13. CASE DestroySwapchain \/ Destruct
  <2>1. at' \in Ending \cup {"idle"}
    BY <1>13, <1>0
    DEF DestroySwapchain, Destruct, StopEventThread, Teardown, WaitForPendingBuffers,
        JoinFlipThread, ReleaseImages, FreeSwapchain, Ending
  <2> QED
    BY <2>1, UnitsElsewhere DEF Counted, Ending
<1>14. CASE UNCHANGED creationVars
  BY <1>1, <1>14 DEF creationVars, request, images
<1> QED
  BY <1>2, <1>3, <1>4, <1>5, <1>6, <1>7, <1>8, <1>9, <1>10, <1>11, <1>12, <1>13, <1>14
  DEF CreationNext, Call, InitImages

(* Whoever gets a unit of the free image semaphore finds an image that is  *)
(* free or can still be given memory, for any number of images and however *)
(* many of the deferred allocations failed (acquire_next_image(), which    *)
(* asserts it).                                                            *)
THEOREM UnitsAreImages == CreationSpec => []UnitsHaveImages
<1>1. CreationInit => UnitsInv
  <2> SUFFICES ASSUME CreationInit PROVE UnitsInv
    OBVIOUS
  <2> QED
    BY DEF CreationInit, UnitsInv, Counted, Finished, Making, UnitsHaveImages
<1>2. CreationInv /\ UnitsInv /\ [CreationNext]_creationVars => UnitsInv'
  BY UnitsStep
<1>3. UnitsInv => UnitsHaveImages
  BY DEF UnitsInv
<1> QED
  BY <1>1, <1>2, <1>3, CreationInvariant, PTL DEF CreationSpec
-----------------------------------------------------------------------------
(***************************************************************************)
(* vkQueuePresentKHR.                                                      *)
(***************************************************************************)

(* What the proofs need of the variables' types; no batch signals the      *)
(* application's semaphore, and none signals what it waits for.            *)
Stages == {"none", "drawn", "wait_request", "next", "mode", "sync", "payload", "fence", "notify"}
AtImage == {"mode", "sync", "payload", "fence", "notify"}
SubmissionShape ==
    /\ submitted \in Seq(Batches)
    /\ \A k \in 1 .. Len(submitted) :
          /\ submitted[k].signals \subseteq {"present", "chain"} \X Images
          /\ submitted[k].signals \cap submitted[k].waits = {}
PresentShape ==
    /\ life \in [Images -> {"free", "held", "drawn", "queued"}]
    /\ appFence \in [Images -> {"idle", "given"}]
    /\ rendering \subseteq Frames
    /\ SubmissionShape

(* The call: the images it has still to present, the one it is at, and the *)
(* one whose rendering it waits for.                                       *)
CallFits ==
    /\ call \in [at : Stages, todo : SUBSET Images, image : Images \cup {<<>>},
                 frame : Images \cup {<<>>}, shared : BOOLEAN]
    /\ call.at # "none" => call.frame \in Images
    /\ call.at \in AtImage => call.image \in Images \ call.todo
    /\ call.at \in {"drawn", "wait_request"} => call.frame \in call.todo
    /\ call.at = "drawn" => IsFiniteSet(call.todo)
    /\ call.at = "wait_request" => call.shared
    /\ call.at = "next" /\ ~call.shared => call.todo \subseteq {call.frame}
    /\ call.at \in AtImage /\ ~call.shared => call.todo = {} /\ call.image = call.frame
    /\ call.at # "none" => \A x \in call.todo : life[x] = "drawn"
    /\ call.at \in AtImage => life[call.image] = "drawn"

(* A semaphore for which the call has a wait to submit still.              *)
Promised(s) ==
    \/ /\ s = <<"render", call.frame>>
       /\ \/ call.at \in {"drawn", "wait_request"}
          \/ ~call.shared /\ call.at \in {"mode", "sync", "payload"}
          \/ ~call.shared /\ call.at = "next" /\ call.todo # {}
    \/ /\ call.shared /\ call.at \in {"next"} \cup AtImage
       /\ \E x \in call.todo : s = <<"present", x>>
    \/ call.shared /\ call.at \in {"mode", "sync", "payload"} /\ s = <<"present", call.image>>
    \/ call.at = "fence" /\ s = <<"chain", call.image>>

(* Between two signals of a semaphore there is a wait.                     *)
SignalsApart(s) ==
    /\ \A j, k \in Signals(s) : j < k => \E i \in Waits(s) : j < i /\ i < k
    /\ s \in signalled => \A k \in Signals(s) : \E i \in Waits(s) : i < k
(* Every signal has a wait after it.                                       *)
Settled(s) ==
    /\ \A k \in Signals(s) : \E i \in Waits(s) : k < i
    /\ s \in signalled => Waits(s) # {}
Balance(s) == Left(s) - Cardinality(Waits(s)) = IF Promised(s) THEN 1 ELSE 0
SemaphoreFits(s) == SignalsApart(s) /\ (~Promised(s) => Settled(s)) /\ Balance(s)

(* An image is the frame of one rendering at a time, which nobody has      *)
(* waited for when it ends.                                                *)
FrameFits(x) ==
    /\ \A S, T \in rendering : Frame(S) = x /\ Frame(T) = x => S = T
    /\ <<"render", x>> \in signalled => \A S \in rendering : Frame(S) # x

(* A fence is submitted once, and unsignalled.                             *)
Once(f) == \A j, k \in Pending(f) : j = k

(* Where the image of a pending payload is: shown later, thrown away, or   *)
(* in the call that has just set it.                                       *)
Awaits(x) ==
    \/ life[x] = "queued"
    \/ life[x] = "free" /\ Of(x) \in outOfDate
    \/ call.at \in {"fence", "notify"} /\ call.image = x
PayloadFits(x) ==
    LET f == <<"payload", x>> IN
    /\ Once(f)
    /\ Pending(f) # {} => x \in payload /\ f \notin fences
    /\ Pending(f) # {} /\ Of(x) \in Threaded => Awaits(x)
    /\ call.at = "payload" /\ call.image = x /\ Of(x) \notin Threaded => x \notin payload

(* The application's fence is neither, until the call has chained it.      *)
NotChained(x) ==
    \/ appFence[x] = "idle"
    \/ call.at # "none" /\ x \in call.todo
    \/ call.at \in AtImage \ {"notify"} /\ x = call.image
AppFenceFits(x) ==
    LET f == <<"app", x>> IN
    /\ Once(f)
    /\ Pending(f) # {} => f \notin fences
    /\ NotChained(x) => Pending(f) = {} /\ f \notin fences
    /\ call.at = "fence" /\ x = call.image => appFence[x] = "given"

Kinds == {"render", "present", "chain"}
UsesFit(x) ==
    /\ \A kind \in Kinds : SemaphoreFits(<<kind, x>>)
    /\ FrameFits(x) /\ PayloadFits(x) /\ AppFenceFits(x)
PresentInv == PresentShape /\ CallFits /\ \A x \in Images \ broken : UsesFit(x)
-----------------------------------------------------------------------------
(* An element of a frame is its own.                                       *)
LEMMA FrameOf == ASSUME NEW S, S # {} PROVE Frame(S) \in S
BY DEF Frame

(* The queue with one submission more.                                     *)
LEMMA AppendDoes ==
    ASSUME SubmissionShape, NEW b \in Batches, Submit(b)
    PROVE  LET n == Len(submitted) IN
           /\ n \in Nat /\ Len(submitted') = n + 1
           /\ submitted' \in Seq(Batches)
           /\ \A k \in 1 .. n : submitted'[k] = submitted[k]
           /\ submitted'[n + 1] = b
<1>1. submitted \in Seq(Batches) /\ submitted' = Append(submitted, b)
  BY DEF SubmissionShape, Submit
<1> QED
  BY <1>1, AppendProperties

(* The queue without its head.                                             *)
LEMMA ExecuteDoes ==
    ASSUME SubmissionShape, Execute
    PROVE  LET n == Len(submitted)  b == submitted[1] IN
           /\ n \in Nat /\ n >= 1 /\ Len(submitted') = n - 1
           /\ submitted' \in Seq(Batches)
           /\ \A k \in 1 .. n - 1 : submitted'[k] = submitted[k + 1]
           /\ b.waits \subseteq signalled
           /\ signalled' = (signalled \ b.waits) \union b.signals
           /\ fences' = IF b.fence = NoFence THEN fences ELSE fences \union {b.fence}
<1>1. submitted \in Seq(Batches) /\ submitted # <<>> /\ submitted' = Tail(submitted)
  BY DEF SubmissionShape, Execute
<1>2. Len(submitted) \in Nat /\ Len(submitted) >= 1
  BY <1>1, LenProperties, EmptySeq
<1>3. Head(submitted) = submitted[1]
  BY <1>1, HeadTailProperties
<1>4. /\ submitted' \in Seq(Batches) /\ Len(submitted') = Len(submitted) - 1
      /\ \A k \in 1 .. Len(submitted) - 1 : submitted'[k] = submitted[k + 1]
  BY <1>1, HeadTailProperties
<1> QED
  BY <1>2, <1>3, <1>4 DEF Execute

(* Sets of positions of a queue are finite.                                *)
LEMMA Positions ==
    ASSUME NEW n \in Nat, NEW A \in SUBSET (1 .. n)
    PROVE  IsFiniteSet(A) /\ Cardinality(A) \in Nat
<1>1. IsFiniteSet(1 .. n)
  BY FS_Interval
<1>2. IsFiniteSet(A)
  BY <1>1, FS_Subset
<1> QED
  BY <1>2, FS_CardinalityType

(* As many are left after a shift by one, but for the first.               *)
LEMMA Shifted ==
    ASSUME NEW n \in Nat, NEW A \in SUBSET (1 .. n), NEW B \in SUBSET (1 .. n),
           \A k \in 1 .. n : k \in B <=> k + 1 \in A /\ k < n,
           NEW c \in {0, 1}, c = 1 <=> 1 \in A
    PROVE  Cardinality(A) = Cardinality(B) + c
<1> DEFINE C == A \ {1}
<1>1. IsFiniteSet(A) /\ IsFiniteSet(B) /\ IsFiniteSet(C) /\ Cardinality(C) \in Nat
      /\ Cardinality(B) \in Nat /\ Cardinality(A) \in Nat
  BY Positions
<1>2. Cardinality(A) = Cardinality(C) + c
  <2>1. CASE 1 \in A
    BY <1>1, <2>1, FS_RemoveElement
  <2>2. CASE 1 \notin A
    BY <1>1, <2>2
  <2> QED
    BY <2>1, <2>2
<1>3. Cardinality(B) = Cardinality(C)
  <2> DEFINE f == [k \in B |-> k + 1]
  <2>1. f \in Bijection(B, C)
    <3>1. f \in [B -> C]
      OBVIOUS
    <3>2. \A j, k \in B : f[j] = f[k] => j = k
      OBVIOUS
    <3>3. \A m \in C : \E k \in B : f[k] = m
      <4> SUFFICES ASSUME NEW m \in C PROVE m - 1 \in B /\ f[m - 1] = m
        OBVIOUS
      <4>1. m \in 2 .. n
        OBVIOUS
      <4>2. m - 1 \in B
        BY <4>1
      <4> QED
        BY <4>1, <4>2
    <3> QED
      BY <3>1, <3>2, <3>3 DEF Bijection, Injection, Surjection, IsInjective
  <2>2. ExistsBijection(B, C)
    BY <2>1 DEF ExistsBijection
  <2> QED
    BY <1>1, <2>2, FS_Bijection
<1> QED
  BY <1>2, <1>3
-----------------------------------------------------------------------------
(* The semaphores, one at a time.                                          *)

(* Where a semaphore is signalled and waited for is a set of positions.    *)
LEMMA Touches ==
    ASSUME SubmissionShape, NEW s
    PROVE  /\ Len(submitted) \in Nat
           /\ Signals(s) \in SUBSET (1 .. Len(submitted))
           /\ Waits(s) \in SUBSET (1 .. Len(submitted))
           /\ Cardinality(Signals(s)) \in Nat /\ Cardinality(Waits(s)) \in Nat
           /\ IsFiniteSet(Signals(s)) /\ IsFiniteSet(Waits(s))
<1>1. Len(submitted) \in Nat
  BY LenProperties DEF SubmissionShape
<1>2. Signals(s) \in SUBSET (1 .. Len(submitted)) /\ Waits(s) \in SUBSET (1 .. Len(submitted))
  BY DEF Signals, Waits
<1> QED
  BY <1>1, <1>2, Positions

(* What a submission adds to them.                                         *)
LEMMA TouchesOfAppend ==
    ASSUME SubmissionShape, NEW b \in Batches, Submit(b), NEW s
    PROVE  LET n == Len(submitted) IN
           /\ Signals(s)' = Signals(s) \cup (IF s \in b.signals THEN {n + 1} ELSE {})
           /\ Waits(s)' = Waits(s) \cup (IF s \in b.waits THEN {n + 1} ELSE {})
<1> DEFINE n == Len(submitted)
<1>1. /\ n \in Nat /\ Len(submitted') = n + 1
      /\ \A k \in 1 .. n : submitted'[k] = submitted[k]
      /\ submitted'[n + 1] = b
  BY AppendDoes
<1>2. \A k : k \in 1 .. n + 1 <=> k \in 1 .. n \/ k = n + 1
  BY <1>1
<1>3. Signals(s)' = {k \in 1 .. n + 1 : s \in submitted'[k].signals}
      /\ Waits(s)' = {k \in 1 .. n + 1 : s \in submitted'[k].waits}
  BY <1>1 DEF Signals, Waits
<1>4. Signals(s) = {k \in 1 .. n : s \in submitted[k].signals}
      /\ Waits(s) = {k \in 1 .. n : s \in submitted[k].waits}
  BY DEF Signals, Waits
<1> HIDE DEF n
<1>5. Signals(s)' = Signals(s) \cup (IF s \in b.signals THEN {n + 1} ELSE {})
  BY <1>1, <1>2, <1>3, <1>4
<1>6. Waits(s)' = Waits(s) \cup (IF s \in b.waits THEN {n + 1} ELSE {})
  BY <1>1, <1>2, <1>3, <1>4
<1> QED
  BY <1>5, <1>6 DEF n

(* A submission that has nothing to do with a semaphore.                   *)
LEMMA SemaphoreLeft ==
    ASSUME SubmissionShape, NEW b \in Batches, Submit(b), NEW s, SemaphoreFits(s),
           s \notin b.waits, s \notin b.signals, UNCHANGED <<signalled, rendering>>,
           Promised(s)' <=> Promised(s)
    PROVE  SemaphoreFits(s)'
<1>1. Signals(s)' = Signals(s) /\ Waits(s)' = Waits(s)
  BY TouchesOfAppend
<1>2. Left(s)' = Left(s)
  BY <1>1 DEF Left
<1> QED
  BY <1>1, <1>2 DEF SemaphoreFits, SignalsApart, Settled, Balance

(* A submission that waits for a semaphore that is promised to.            *)
LEMMA SemaphoreWaited ==
    ASSUME SubmissionShape, NEW b \in Batches, Submit(b), NEW s, SemaphoreFits(s),
           s \in b.waits, s \notin b.signals, UNCHANGED <<signalled, rendering>>,
           Promised(s), ~Promised(s)', Left(s) \in Int
    PROVE  SemaphoreFits(s)'
<1> DEFINE n == Len(submitted)
<1>1. Signals(s)' = Signals(s) /\ Waits(s)' = Waits(s) \cup {n + 1}
  BY TouchesOfAppend
<1>2. /\ n \in Nat /\ Signals(s) \in SUBSET (1 .. n) /\ Waits(s) \in SUBSET (1 .. n)
      /\ Cardinality(Waits(s)) \in Nat /\ IsFiniteSet(Waits(s))
  BY Touches
<1> HIDE DEF n
<1>3. Cardinality(Waits(s)') = Cardinality(Waits(s)) + 1
  <2>1. n + 1 \notin Waits(s)
    BY <1>2
  <2> QED
    BY <1>1, <1>2, <2>1, FS_AddElement
<1>4. Left(s)' = Left(s)
  BY <1>1 DEF Left
<1>5. Balance(s)'
  BY <1>2, <1>3, <1>4 DEF SemaphoreFits, Balance
<1>6. SignalsApart(s)'
  BY <1>1, <1>2 DEF SemaphoreFits, SignalsApart
<1>7. Settled(s)'
  BY <1>1, <1>2 DEF Settled
<1> QED
  BY <1>5, <1>6, <1>7 DEF SemaphoreFits

(* A submission that signals a semaphore that was settled.                 *)
LEMMA SemaphoreSignalled ==
    ASSUME SubmissionShape, NEW b \in Batches, Submit(b), NEW s, SemaphoreFits(s),
           s \notin b.waits, s \in b.signals, UNCHANGED <<signalled, rendering>>,
           ~Promised(s), Promised(s)',
           Cardinality({S \in rendering : s = <<"render", Frame(S)>>}) \in Int
    PROVE  SemaphoreFits(s)'
<1> DEFINE n == Len(submitted)
<1>1. Signals(s)' = Signals(s) \cup {n + 1} /\ Waits(s)' = Waits(s)
  BY TouchesOfAppend
<1>2. /\ n \in Nat /\ Signals(s) \in SUBSET (1 .. n) /\ Waits(s) \in SUBSET (1 .. n)
      /\ Cardinality(Signals(s)) \in Nat /\ IsFiniteSet(Signals(s))
      /\ Cardinality(Waits(s)) \in Nat
  BY Touches
<1> HIDE DEF n
<1>3. Cardinality(Signals(s)') = Cardinality(Signals(s)) + 1
  <2>1. n + 1 \notin Signals(s)
    BY <1>2
  <2> QED
    BY <1>1, <1>2, <2>1, FS_AddElement
<1>4. Left(s)' = Left(s) + 1 /\ Left(s) \in Int
  BY <1>2, <1>3 DEF Left
<1>5. Balance(s)'
  BY <1>1, <1>2, <1>4 DEF SemaphoreFits, Balance
<1>6. SignalsApart(s)'
  <2>1. Settled(s) /\ SignalsApart(s)
    BY DEF SemaphoreFits
  <2>2. ASSUME NEW j \in Signals(s), NEW k \in Signals(s)', j < k
        PROVE  \E i \in Waits(s) : j < i /\ i < k
    <3>1. CASE k \in Signals(s)
      BY <2>1, <2>2, <3>1 DEF SignalsApart
    <3>2. CASE k = n + 1
      <4>1. PICK i \in Waits(s) : j < i
        BY <2>1 DEF Settled
      <4>2. i < n + 1
        BY <1>2
      <4> QED
        BY <3>2, <4>1, <4>2
    <3> QED
      BY <1>1, <3>1, <3>2
  <2>3. ASSUME s \in signalled, NEW k \in Signals(s)'
        PROVE  \E i \in Waits(s) : i < k
    <3>1. CASE k \in Signals(s)
      BY <2>1, <2>3, <3>1 DEF SignalsApart
    <3>2. CASE k = n + 1
      <4>1. PICK i \in Waits(s) : TRUE
        BY <2>1, <2>3 DEF Settled
      <4>2. i < n + 1
        BY <1>2
      <4> QED
        BY <3>2, <4>1, <4>2
    <3> QED
      BY <1>1, <3>1, <3>2
  <2>4. \A j \in Signals(s)', k \in Signals(s)' : j < k => j \in Signals(s)
    BY <1>1, <1>2
  <2>5. \A j, k \in Signals(s)' : j < k => \E i \in Waits(s)' : j < i /\ i < k
    BY <1>1, <2>2, <2>4
  <2>6. s \in signalled' => \A k \in Signals(s)' : \E i \in Waits(s)' : i < k
    BY <1>1, <2>3
  <2> QED
    BY <2>5, <2>6 DEF SignalsApart
<1> QED
  BY <1>5, <1>6 DEF SemaphoreFits

(* The GPU takes a batch from the head of the queue.                       *)
LEMMA SemaphoreExecuted ==
    ASSUME SubmissionShape, Execute, NEW s, SemaphoreFits(s), Promised(s)' <=> Promised(s),
           Cardinality({S \in rendering : s = <<"render", Frame(S)>>}) \in Int
    PROVE  SemaphoreFits(s)'
<1> DEFINE n == Len(submitted)
           b == submitted[1]
           inSignals == IF s \in b.signals THEN 1 ELSE 0
           inWaits == IF s \in b.waits THEN 1 ELSE 0
<1>1. /\ n \in Nat /\ n >= 1 /\ Len(submitted') = n - 1
      /\ \A k \in 1 .. n - 1 : submitted'[k] = submitted[k + 1]
      /\ b.waits \subseteq signalled
      /\ signalled' = (signalled \ b.waits) \union b.signals
      /\ rendering' = rendering
  BY ExecuteDoes DEF Execute
<1>2. ~(s \in b.signals /\ s \in b.waits)
  BY <1>1 DEF SubmissionShape
<1>3. /\ Signals(s) \in SUBSET (1 .. n) /\ Waits(s) \in SUBSET (1 .. n)
      /\ Cardinality(Signals(s)) \in Nat /\ Cardinality(Waits(s)) \in Nat
  BY Touches
<1>4. /\ 1 \in Signals(s) <=> s \in b.signals
      /\ 1 \in Waits(s) <=> s \in b.waits
  BY <1>1 DEF Signals, Waits
<1>5. /\ \A k \in 1 .. n : k \in Signals(s)' <=> k + 1 \in Signals(s) /\ k < n
      /\ \A k \in 1 .. n : k \in Waits(s)' <=> k + 1 \in Waits(s) /\ k < n
      /\ Signals(s)' \in SUBSET (1 .. n) /\ Waits(s)' \in SUBSET (1 .. n)
  <2>1. /\ Signals(s)' = {k \in 1 .. n - 1 : s \in submitted'[k].signals}
        /\ Waits(s)' = {k \in 1 .. n - 1 : s \in submitted'[k].waits}
    BY <1>1 DEF Signals, Waits
  <2>2. /\ Signals(s) = {k \in 1 .. n : s \in submitted[k].signals}
        /\ Waits(s) = {k \in 1 .. n : s \in submitted[k].waits}
    BY DEF Signals, Waits
  <2> HIDE DEF n
  <2> QED
    BY <1>1, <2>1, <2>2
<1> HIDE DEF n, b
<1>6. /\ Cardinality(Signals(s)) = Cardinality(Signals(s)') + inSignals
      /\ Cardinality(Waits(s)) = Cardinality(Waits(s)') + inWaits
      /\ inSignals \in {0, 1} /\ inWaits \in {0, 1}
  <2>1. inSignals \in {0, 1} /\ inWaits \in {0, 1}
    OBVIOUS
  <2>2. (inSignals = 1 <=> 1 \in Signals(s)) /\ (inWaits = 1 <=> 1 \in Waits(s))
    BY <1>4
  <2> HIDE DEF inSignals, inWaits
  <2>3. Cardinality(Signals(s)) = Cardinality(Signals(s)') + inSignals
    <3>1. /\ n \in Nat /\ Signals(s) \in SUBSET (1 .. n) /\ Signals(s)' \in SUBSET (1 .. n)
          /\ \A k \in 1 .. n : k \in Signals(s)' <=> k + 1 \in Signals(s) /\ k < n
      BY <1>1, <1>3, <1>5
    <3>2. inSignals \in {0, 1} /\ (inSignals = 1 <=> 1 \in Signals(s))
      BY <2>1, <2>2
    <3> QED
      BY <3>1, <3>2, Shifted
  <2>4. Cardinality(Waits(s)) = Cardinality(Waits(s)') + inWaits
    <3>1. /\ n \in Nat /\ Waits(s) \in SUBSET (1 .. n) /\ Waits(s)' \in SUBSET (1 .. n)
          /\ \A k \in 1 .. n : k \in Waits(s)' <=> k + 1 \in Waits(s) /\ k < n
      BY <1>1, <1>3, <1>5
    <3>2. inWaits \in {0, 1} /\ (inWaits = 1 <=> 1 \in Waits(s))
      BY <2>1, <2>2
    <3> QED
      BY <3>1, <3>2, Shifted
  <2> QED
    BY <2>1, <2>3, <2>4
<1>7. s \in b.signals => s \notin signalled
  BY <1>3, <1>4 DEF SemaphoreFits, SignalsApart
<1>8. (IF s \in signalled' THEN 1 ELSE 0)
         = (IF s \in signalled THEN 1 ELSE 0) + inSignals - inWaits
  BY <1>1, <1>2, <1>7
<1>9. Cardinality(Signals(s)') \in Nat /\ Cardinality(Waits(s)') \in Nat
  BY <1>1, <1>5, Positions
<1>10. Balance(s)'
  <2> DEFINE a == IF s \in signalled THEN 1 ELSE 0
             c == Cardinality({S \in rendering : s = <<"render", Frame(S)>>})
  <2>1. Left(s) = a + Cardinality(Signals(s)) + c /\ a \in {0, 1}
    BY DEF Left
  <2>2. Left(s)' = (a + inSignals - inWaits) + Cardinality(Signals(s)') + c
    BY <1>1, <1>8 DEF Left
  <2> HIDE DEF a, c, inSignals, inWaits
  <2>3. c \in Int
    BY DEF c
  <2>4. Left(s)' - Cardinality(Waits(s)') = Left(s) - Cardinality(Waits(s))
    BY <1>3, <1>6, <1>9, <2>1, <2>2, <2>3
  <2> QED
    BY <2>4 DEF SemaphoreFits, Balance
<1>11. SignalsApart(s)'
  <2>1. ASSUME NEW j \in Signals(s)', NEW k \in Signals(s)', j < k
        PROVE  \E i \in Waits(s)' : j < i /\ i < k
    <3>1. /\ j \in 1 .. n /\ k \in 1 .. n /\ j < n /\ k < n
          /\ j + 1 \in Signals(s) /\ k + 1 \in Signals(s) /\ j + 1 < k + 1
      BY <1>5, <2>1
    <3>2. PICK i \in Waits(s) : j + 1 < i /\ i < k + 1
      BY <3>1 DEF SemaphoreFits, SignalsApart
    <3>3. i - 1 \in 1 .. n /\ i - 1 < n /\ i - 1 + 1 = i /\ j < i - 1 /\ i - 1 < k
      BY <1>1, <1>3, <3>1, <3>2
    <3>4. i - 1 \in Waits(s)'
      BY <1>5, <3>3
    <3> QED
      BY <3>3, <3>4
  <2>2. ASSUME s \in signalled', NEW k \in Signals(s)'
        PROVE  \E i \in Waits(s)' : i < k
    <3>1. k \in 1 .. n /\ k < n /\ k + 1 \in Signals(s)
      BY <1>5
    <3>2. \E i \in Waits(s) : 1 < i /\ i < k + 1
      <4>1. CASE s \in b.signals
        BY <1>1, <1>4, <3>1, <4>1 DEF SemaphoreFits, SignalsApart
      <4>2. CASE s \notin b.signals
        <5>1. s \in signalled /\ s \notin b.waits
          BY <1>1, <2>2, <4>2
        <5>2. PICK i \in Waits(s) : i < k + 1
          BY <3>1, <5>1 DEF SemaphoreFits, SignalsApart
        <5>3. i # 1
          BY <1>4, <5>1
        <5> QED
          BY <1>3, <5>2, <5>3
      <4> QED
        BY <4>1, <4>2
    <3>3. PICK i \in Waits(s) : 1 < i /\ i < k + 1
      BY <3>2
    <3>4. i - 1 \in Waits(s)' /\ i - 1 < k
      BY <1>1, <1>3, <1>5, <3>1, <3>3
    <3> QED
      BY <3>4
  <2> QED
    BY <2>1, <2>2 DEF SignalsApart
<1>12. ASSUME Settled(s) PROVE Settled(s)'
  <2>1. ASSUME NEW k \in Signals(s)' PROVE \E i \in Waits(s)' : k < i
    <3>1. k \in 1 .. n /\ k < n /\ k + 1 \in Signals(s)
      BY <1>5
    <3>2. PICK i \in Waits(s) : k + 1 < i
      BY <1>12, <3>1 DEF Settled
    <3>3. i - 1 \in 1 .. n /\ i - 1 < n /\ i - 1 + 1 = i /\ k < i - 1
      BY <1>1, <1>3, <3>1, <3>2
    <3>4. i - 1 \in Waits(s)'
      BY <1>5, <3>3
    <3> QED
      BY <3>3, <3>4
  <2>2. ASSUME s \in signalled' PROVE Waits(s)' # {}
    <3>1. \E i \in Waits(s) : 1 < i
      <4>1. CASE s \in b.signals
        BY <1>4, <1>12, <4>1 DEF Settled
      <4>2. CASE s \notin b.signals
        <5>1. s \in signalled /\ s \notin b.waits
          BY <1>1, <2>2, <4>2
        <5>2. PICK i \in Waits(s) : TRUE
          BY <1>12, <5>1 DEF Settled
        <5>3. i # 1
          BY <1>4, <5>1
        <5> QED
          BY <1>3, <5>2, <5>3
      <4> QED
        BY <4>1, <4>2
    <3>2. PICK i \in Waits(s) : 1 < i
      BY <3>1
    <3>3. i - 1 \in Waits(s)'
      BY <1>1, <1>3, <1>5, <3>2
    <3> QED
      BY <3>3
  <2> QED
    BY <2>1, <2>2 DEF Settled
<1> QED
  BY <1>10, <1>11, <1>12 DEF SemaphoreFits

(* A step that touches neither the queue nor the semaphores.               *)
LEMMA SemaphoreStays ==
    ASSUME NEW s, SemaphoreFits(s), UNCHANGED <<submitted, signalled, rendering>>,
           Promised(s)' <=> Promised(s)
    PROVE  SemaphoreFits(s)'
<1>1. /\ Signals(s)' = Signals(s) /\ Waits(s)' = Waits(s) /\ Left(s)' = Left(s)
  BY DEF Signals, Waits, Left
<1> QED
  BY <1>1 DEF SemaphoreFits, SignalsApart, Settled, Balance
-----------------------------------------------------------------------------
(* The frames the GPU works on.                                            *)

(* Images, and so frames, are finitely many.                               *)
LEMMA FinitelyMany ==
    /\ IsFiniteSet(Images)
    /\ \A R \in SUBSET Frames : IsFiniteSet(R) /\ Cardinality(R) \in Nat
    /\ \A S \in Frames : S \subseteq Images /\ IsFiniteSet(S) /\ S # {} /\ Frame(S) \in S
<1>1. IsFiniteSet(Swapchains) /\ IsFiniteSet(1 .. NumImages)
  BY PresentAssumption, FS_Interval
<1>2. IsFiniteSet(Images)
  BY <1>1, FS_Product DEF Images
<1>3. IsFiniteSet(SUBSET Images)
  BY <1>2, FS_SUBSET
<1>4. Frames \subseteq SUBSET Images
  BY DEF Frames
<1>5. ASSUME NEW R \in SUBSET Frames PROVE IsFiniteSet(R) /\ Cardinality(R) \in Nat
  <2>1. IsFiniteSet(R)
    BY <1>3, <1>4, <1>5, FS_Subset
  <2> QED
    BY <2>1, FS_CardinalityType
<1>6. ASSUME NEW S \in Frames
      PROVE S \subseteq Images /\ IsFiniteSet(S) /\ S # {} /\ Frame(S) \in S
  <2>1. S \subseteq Images /\ S # {}
    BY DEF Frames
  <2>2. IsFiniteSet(S)
    BY <1>2, <2>1, FS_Subset
  <2> QED
    BY <2>1, <2>2, FrameOf
<1> QED
  BY <1>2, <1>5, <1>6

(* The frames whose semaphore is s.                                        *)
Rendering(s) == {S \in rendering : s = <<"render", Frame(S)>>}
(* They are finitely many.                                                 *)
LEMMA RenderingCounted ==
    ASSUME PresentShape, NEW s
    PROVE  /\ Cardinality(Rendering(s)) \in Nat
           /\ IsFiniteSet(Rendering(s))
           /\ Rendering(s) = {} => Cardinality(Rendering(s)) = 0
           /\ Rendering(s) # {} => Cardinality(Rendering(s)) > 0
           /\ Cardinality({S \in rendering : s = <<"render", Frame(S)>>}) \in Nat
<1>1. Rendering(s) \subseteq Frames
  BY DEF Rendering, PresentShape
<1>2. IsFiniteSet(Rendering(s)) /\ Cardinality(Rendering(s)) \in Nat
  BY <1>1, FinitelyMany
<1>3. Cardinality(Rendering(s)) = 0 <=> Rendering(s) = {}
  BY <1>2, FS_EmptySet
<1> QED
  BY <1>2, <1>3 DEF Rendering

(* Nobody but a frame signals a render semaphore.                          *)
LEMMA RenderIsTheFrames ==
    ASSUME SubmissionShape, NEW x
    PROVE  Signals(<<"render", x>>) = {}
<1> SUFFICES ASSUME NEW k \in 1 .. Len(submitted), <<"render", x>> \in submitted[k].signals
             PROVE FALSE
  BY DEF Signals
<1>1. <<"render", x>> \in {"present", "chain"} \X Images
  BY DEF SubmissionShape
<1> QED
  BY <1>1

(* What is left of a semaphore is a number.                                *)
LEMMA LeftCounts ==
    ASSUME PresentShape, NEW s
    PROVE  /\ Left(s) \in Nat
           /\ Left(s) = (IF s \in signalled THEN 1 ELSE 0) + Cardinality(Signals(s))
                        + Cardinality(Rendering(s))
<1>1. /\ Cardinality(Signals(s)) \in Nat /\ Cardinality(Rendering(s)) \in Nat
  BY Touches, RenderingCounted DEF PresentShape
<1>2. Left(s) = (IF s \in signalled THEN 1 ELSE 0) + Cardinality(Signals(s))
                        + Cardinality(Rendering(s))
  BY DEF Left, Rendering
<1> QED
  BY <1>1, <1>2

(* A frame is finished: its semaphore is signalled in its place.           *)
LEMMA SemaphoreFinished ==
    ASSUME PresentShape, NEW S \in Frames, FinishFrame(S), NEW x \in Images, FrameFits(x),
           NEW kind \in Kinds, SemaphoreFits(<<kind, x>>),
           Promised(<<kind, x>>)' <=> Promised(<<kind, x>>)
    PROVE  SemaphoreFits(<<kind, x>>)'
<1> DEFINE s == <<kind, x>>
<1>1. S \in rendering /\ rendering' = rendering \ {S}
      /\ signalled' = signalled \cup {<<"render", Frame(S)>>} /\ submitted' = submitted
  BY DEF FinishFrame
<1>2. Signals(s)' = Signals(s) /\ Waits(s)' = Waits(s)
  BY <1>1 DEF Signals, Waits
<1>3. CASE s # <<"render", Frame(S)>>
  <2>1. Rendering(s)' = Rendering(s) /\ (s \in signalled' <=> s \in signalled)
    BY <1>1, <1>3 DEF Rendering
  <2>2. Left(s)' = Left(s)
    BY <1>2, <2>1 DEF Left, Rendering
  <2> QED
    BY <1>2, <2>1, <2>2 DEF SemaphoreFits, SignalsApart, Settled, Balance
<1>4. CASE s = <<"render", Frame(S)>>
  <2>1. kind = "render" /\ Frame(S) = x
    BY <1>4
  <2>2. s \notin signalled /\ s \in signalled'
    BY <1>1, <1>4, <2>1 DEF FrameFits
  <2>3. S \in Rendering(s) /\ Rendering(s)' = Rendering(s) \ {S}
    BY <1>1, <1>4 DEF Rendering
  <2>4. IsFiniteSet(Rendering(s)) /\ Cardinality(Rendering(s)) \in Nat
        /\ Cardinality(Signals(s)) \in Nat /\ Cardinality(Waits(s)) \in Nat
        /\ IsFiniteSet(Waits(s))
    BY RenderingCounted, Touches DEF PresentShape
  <2>5. Cardinality(Rendering(s)') = Cardinality(Rendering(s)) - 1
    BY <2>3, <2>4, FS_RemoveElement
  <2>6. Cardinality(Rendering(s)) > 0
    BY <2>3, RenderingCounted
  <2>7. Left(s)' = 1 + Cardinality(Signals(s)) + Cardinality(Rendering(s)')
    BY <1>2, <2>2 DEF Left, Rendering
  <2>8. Left(s) = Cardinality(Signals(s)) + Cardinality(Rendering(s)) /\ Left(s) \in Nat
    BY <2>2, <2>4, LeftCounts
  <2> HIDE DEF s
  <2>9. Left(s)' = Left(s) /\ Left(s) > 0
    BY <2>4, <2>5, <2>6, <2>7, <2>8
  <2>10. Balance(s) /\ Balance(s)'
    BY <1>2, <2>9 DEF SemaphoreFits, Balance, s
  <2>11. Signals(s) = {}
    BY <2>1, RenderIsTheFrames DEF s, PresentShape
  <2>12. SignalsApart(s)'
    BY <1>2, <2>11 DEF SignalsApart
  <2>13. ~Promised(s) => Waits(s) # {}
    <3> SUFFICES ASSUME ~Promised(s), Waits(s) = {} PROVE FALSE
      OBVIOUS
    <3>1. Left(s) - Cardinality(Waits(s)) = 0
      BY <2>10 DEF Balance
    <3>2. Cardinality(Waits(s)) = 0
      BY FS_EmptySet
    <3> QED
      BY <2>8, <2>9, <3>1, <3>2
  <2>14. ~Promised(s)' => Settled(s)'
    BY <1>2, <2>11, <2>13 DEF Settled, s
  <2> QED
    BY <2>10, <2>12, <2>14 DEF SemaphoreFits, s
<1> QED
  BY <1>3, <1>4
-----------------------------------------------------------------------------
(* What a call promises changes with the call alone.                       *)

(* A call that stays where it is.                                          *)
LEMMA PromiseStays ==
    ASSUME UNCHANGED call, NEW s
    PROVE  Promised(s)' <=> Promised(s)
BY DEF Promised

(* A present that fails breaks its image and its frame, and promises       *)
(* nothing of any other.                                                   *)
LEMMA PromiseOfFailure ==
    ASSUME CallFits, call.at \in AtImage, PresentFails,
           NEW x \in Images \ broken', NEW kind \in Kinds
    PROVE  Promised(<<kind, x>>)' <=> Promised(<<kind, x>>)
<1>1. call' = [call EXCEPT !.at = "next"] /\ x # call.image /\ x # call.frame
  BY DEF PresentFails
<1>2. call'.at = "next" /\ call'.todo = call.todo /\ call'.shared = call.shared
      /\ call'.frame = call.frame /\ call'.image = call.image
  BY <1>1 DEF CallFits
<1>3. ~call.shared => call.todo = {}
  BY DEF CallFits
<1>4. Promised(<<kind, x>>) <=> call.shared /\ \E y \in call.todo : <<kind, x>> = <<"present", y>>
  BY <1>1 DEF Promised
<1>5. Promised(<<kind, x>>)' <=> call.shared /\ \E y \in call.todo : <<kind, x>> = <<"present", y>>
  BY <1>1, <1>2, <1>3 DEF Promised
<1> QED
  BY <1>4, <1>5

(* The fields of a call that only moves on.                                *)
LEMMA CallMoves ==
    ASSUME CallFits, NEW to, call' = [call EXCEPT !.at = to]
    PROVE  /\ call'.at = to /\ call'.todo = call.todo /\ call'.shared = call.shared
           /\ call'.frame = call.frame /\ call'.image = call.image
BY DEF CallFits

(* The calls that submit nothing and refuse nothing keep their promises.   *)
LEMMA PromiseOfQueuePresent ==
    ASSUME CallFits, NEW F, QueuePresent(F), NEW s
    PROVE  Promised(s)' <=> Promised(s)
<1>1. /\ call.at = "drawn" /\ call.frame \in call.todo
      /\ call' = [call EXCEPT !.at = IF Cardinality(call.todo) > 1 THEN "wait_request" ELSE "next",
                              !.shared = Cardinality(call.todo) > 1]
  BY DEF QueuePresent, CallFits
<1>2. /\ call'.at = (IF Cardinality(call.todo) > 1 THEN "wait_request" ELSE "next")
      /\ call'.shared = (Cardinality(call.todo) > 1)
      /\ call'.todo = call.todo /\ call'.frame = call.frame
  BY <1>1 DEF CallFits
<1>3. Promised(s) <=> s = <<"render", call.frame>>
  BY <1>1 DEF Promised, AtImage
<1>4. CASE Cardinality(call.todo) > 1
  BY <1>2, <1>3, <1>4 DEF Promised, AtImage
<1>5. CASE ~(Cardinality(call.todo) > 1)
  <2>1. call'.at = "next" /\ ~call'.shared
    BY <1>2, <1>5
  <2> QED
    BY <1>1, <1>2, <1>3, <2>1 DEF Promised, AtImage
<1> QED
  BY <1>4, <1>5

(* The wait for the next image was promised for the ones still to do.      *)
LEMMA PromiseOfNextSwapchain ==
    ASSUME CallFits, NextSwapchain, NEW s
    PROVE  Promised(s)' <=> Promised(s)
<1>1. call.at = "next"
  BY DEF NextSwapchain
<1>2. CASE call.todo = {}
  <2>1. call'.at = "none"
    BY <1>2 DEF NextSwapchain, NoCall
  <2>2. ~Promised(s)
    BY <1>1, <1>2 DEF Promised, AtImage
  <2>3. ~Promised(s)'
    BY <2>1 DEF Promised, AtImage
  <2> QED
    BY <2>2, <2>3
<1>3. ASSUME NEW x \in call.todo,
             call' = [call EXCEPT !.at = "mode", !.image = x, !.todo = @ \ {x}]
      PROVE  Promised(s)' <=> Promised(s)
  <2>1. call'.at = "mode" /\ call'.image = x /\ call'.todo = call.todo \ {x}
        /\ call'.shared = call.shared /\ call'.frame = call.frame
    BY <1>3 DEF CallFits
  <2>2. CASE call.shared
    BY <1>1, <2>1, <2>2 DEF Promised, AtImage
  <2>3. CASE ~call.shared
    BY <1>1, <2>1, <2>3 DEF Promised, AtImage
  <2> QED
    BY <2>2, <2>3
<1> QED
  BY <1>2, <1>3 DEF NextSwapchain

(* The steps of a present before its payload.                              *)
LEMMA PromiseBeforePayload ==
    ASSUME CallFits, NEW s, call.at \in {"mode", "sync"}, NEW to \in {"sync", "payload"},
           call' = [call EXCEPT !.at = to]
    PROVE  Promised(s)' <=> Promised(s)
<1>1. call'.at = to /\ call'.todo = call.todo /\ call'.shared = call.shared
      /\ call'.frame = call.frame /\ call'.image = call.image
  BY CallMoves
<1> QED
  BY <1>1 DEF Promised, AtImage

(* The engine is notified when all of the image's batches are submitted.   *)
LEMMA PromiseOfNotify ==
    ASSUME CallFits, Notify, NEW s
    PROVE  Promised(s)' <=> Promised(s)
<1>1. call.at = "notify" /\ call' = [call EXCEPT !.at = "next"]
  BY DEF Notify
<1>2. call'.at = "next" /\ call'.todo = call.todo /\ call'.shared = call.shared
      /\ call'.frame = call.frame /\ call'.image = call.image
  BY <1>1, CallMoves
<1>3. ~call.shared => call.todo = {}
  BY <1>1 DEF CallFits, AtImage
<1> QED
  BY <1>1, <1>2, <1>3 DEF Promised, AtImage
-----------------------------------------------------------------------------
(* Every step keeps what is signalled and what is waited for in balance.   *)

(* The application starts a frame.                                         *)
LEMMA SemaphoreRendered ==
    ASSUME PresentShape, CallFits, NEW S \in Frames, Render(S), NEW x \in Images,
           NEW kind \in Kinds, SemaphoreFits(<<kind, x>>)
    PROVE  SemaphoreFits(<<kind, x>>)'
<1> DEFINE s == <<kind, x>>
<1>1. /\ call.at = "none" /\ Frame(S) \in S
      /\ call' = [NoCall EXCEPT !.at = "drawn", !.todo = S, !.frame = Frame(S)]
      /\ rendering' = rendering \cup {S} /\ UNCHANGED <<submitted, signalled>>
      /\ \A y \in S : RenderSemaphoreIsFree(y)
  BY FinitelyMany DEF Render
<1>2. call'.at = "drawn" /\ call'.frame = Frame(S)
  BY <1>1 DEF NoCall
<1>3. ~Promised(s) /\ (Promised(s)' <=> s = <<"render", Frame(S)>>)
  BY <1>1, <1>2 DEF Promised, AtImage
<1>4. Signals(s)' = Signals(s) /\ Waits(s)' = Waits(s)
  BY <1>1 DEF Signals, Waits
<1>5. CASE s # <<"render", Frame(S)>>
  <2>1. Rendering(s)' = Rendering(s)
    BY <1>1, <1>5 DEF Rendering
  <2>2. Left(s)' = Left(s)
    BY <1>1, <1>4, <2>1 DEF Left, Rendering
  <2> QED
    BY <1>1, <1>3, <1>4, <1>5, <2>2 DEF SemaphoreFits, SignalsApart, Settled, Balance
<1>6. CASE s = <<"render", Frame(S)>>
  <2>1. kind = "render" /\ x = Frame(S) /\ RenderSemaphoreIsFree(x)
    BY <1>1, <1>6
  <2>2. s \notin signalled /\ Waits(s) = {}
    BY <2>1 DEF RenderSemaphoreIsFree, Waits
  <2>3. Signals(s) = {}
    BY <2>1, RenderIsTheFrames DEF PresentShape
  <2>4. Cardinality(Waits(s)) = 0 /\ Cardinality(Signals(s)) = 0
    BY <2>2, <2>3, FS_EmptySet
  <2>5. /\ Left(s) = Cardinality(Rendering(s)) /\ Cardinality(Rendering(s)) \in Nat
        /\ Rendering(s) # {} => Cardinality(Rendering(s)) > 0
    <3>1. /\ Cardinality(Rendering(s)) \in Nat
          /\ Rendering(s) # {} => Cardinality(Rendering(s)) > 0
      BY RenderingCounted
    <3>2. Left(s) = (IF s \in signalled THEN 1 ELSE 0) + Cardinality(Signals(s))
                    + Cardinality(Rendering(s))
      BY LeftCounts
    <3> HIDE DEF s
    <3> QED
      BY <2>2, <2>4, <3>1, <3>2
  <2>6. Rendering(s) = {}
    <3>1. Left(s) - Cardinality(Waits(s)) = 0
      BY <1>3 DEF SemaphoreFits, Balance
    <3> HIDE DEF s
    <3> QED
      BY <2>4, <2>5, <3>1
  <2>7. Rendering(s)' = {S}
    BY <1>1, <1>6, <2>6 DEF Rendering
  <2>8. Cardinality(Rendering(s)') = 1
    BY <2>7, FS_Singleton
  <2>9. Left(s)' = 1
    BY <1>1, <1>4, <2>2, <2>4, <2>8 DEF Left, Rendering
  <2>10. Balance(s)'
    BY <1>3, <1>4, <1>6, <2>4, <2>9 DEF Balance
  <2>11. SignalsApart(s)'
    BY <1>4, <2>3 DEF SignalsApart
  <2> QED
    BY <1>3, <1>6, <2>10, <2>11 DEF SemaphoreFits
<1> QED
  BY <1>5, <1>6

(* A batch that waits for semaphores, signals others and a fence.          *)
LEMMA IsBatch ==
    ASSUME NEW W \in SUBSET Semaphores, NEW G \in SUBSET Semaphores, NEW f \in Fences \cup {NoFence}
    PROVE  /\ Batch(W, G, f) \in Batches
           /\ Batch(W, G, f).waits = W /\ Batch(W, G, f).signals = G /\ Batch(W, G, f).fence = f
BY DEF Batch, Batches

(* submit_wait_request() went through.                                     *)
WaitRequest == Batch({<<"render", call.frame>>}, {<<"present", x>> : x \in call.todo}, NoFence)
(* It is a batch.                                                          *)
LEMMA WaitRequestIsBatch ==
    ASSUME CallFits, call.at = "wait_request"
    PROVE  /\ WaitRequest \in Batches
           /\ WaitRequest.waits = {<<"render", call.frame>>}
           /\ WaitRequest.signals = {<<"present", x>> : x \in call.todo}
           /\ WaitRequest.fence = NoFence
<1>1. {<<"render", call.frame>>} \in SUBSET Semaphores
  BY DEF CallFits, Semaphores
<1>2. {<<"present", x>> : x \in call.todo} \in SUBSET Semaphores
  BY DEF CallFits, Semaphores
<1> QED
  BY <1>1, <1>2, IsBatch DEF WaitRequest

(* It takes the frame's semaphore and gives each image its own.            *)
LEMMA SemaphoreRequested ==
    ASSUME PresentShape, CallFits, call.at = "wait_request", Submit(WaitRequest),
           call' = [call EXCEPT !.at = "next"], UNCHANGED <<signalled, rendering>>,
           NEW x \in Images, NEW kind \in Kinds, SemaphoreFits(<<kind, x>>)
    PROVE  SemaphoreFits(<<kind, x>>)'
<1> DEFINE s == <<kind, x>>
<1>1. call'.at = "next" /\ call'.todo = call.todo /\ call'.shared = call.shared
      /\ call'.frame = call.frame /\ call'.image = call.image
  BY CallMoves
<1>2. call.shared /\ SubmissionShape
  BY DEF CallFits, PresentShape
<1>3. Promised(s) <=> s = <<"render", call.frame>>
  BY DEF Promised, AtImage
<1>4. Promised(s)' <=> \E y \in call.todo : s = <<"present", y>>
  BY <1>1, <1>2 DEF Promised, AtImage
<1>5. /\ WaitRequest \in Batches
      /\ WaitRequest.waits = {<<"render", call.frame>>}
      /\ WaitRequest.signals = {<<"present", y>> : y \in call.todo}
  BY WaitRequestIsBatch
<1>6. /\ Left(s) \in Int
      /\ Cardinality({S \in rendering : s = <<"render", Frame(S)>>}) \in Int
  BY LeftCounts, RenderingCounted
<1>7. CASE s = <<"render", call.frame>>
  <2>1. s \in WaitRequest.waits /\ s \notin WaitRequest.signals
    BY <1>5, <1>7
  <2>2. Promised(s) /\ ~Promised(s)'
    BY <1>3, <1>4, <1>7
  <2> QED
    BY <1>2, <1>5, <1>6, <2>1, <2>2, SemaphoreWaited
<1>8. CASE \E y \in call.todo : s = <<"present", y>>
  <2>1. s \notin WaitRequest.waits /\ s \in WaitRequest.signals
    BY <1>5, <1>8
  <2>2. ~Promised(s) /\ Promised(s)'
    BY <1>3, <1>4, <1>8
  <2> QED
    BY <1>2, <1>5, <1>6, <2>1, <2>2, SemaphoreSignalled
<1>9. CASE s # <<"render", call.frame>> /\ ~(\E y \in call.todo : s = <<"present", y>>)
  <2>1. s \notin WaitRequest.waits /\ s \notin WaitRequest.signals
    BY <1>5, <1>9
  <2>2. Promised(s)' <=> Promised(s)
    BY <1>3, <1>4, <1>9
  <2> QED
    BY <1>2, <1>5, <2>1, <2>2, SemaphoreLeft
<1> QED
  BY <1>7, <1>8, <1>9

(* set_payload() went through.                                             *)
PayloadBatch ==
    Batch({WaitSemaphore(call.image)},
          IF appFence[call.image] = "given" THEN {<<"chain", call.image>>} ELSE {},
          <<"payload", call.image>>)
(* It is a batch.                                                          *)
LEMMA PayloadIsBatch ==
    ASSUME CallFits, call.at = "payload"
    PROVE  /\ PayloadBatch \in Batches
           /\ PayloadBatch.waits = {WaitSemaphore(call.image)}
           /\ PayloadBatch.signals =
                 IF appFence[call.image] = "given" THEN {<<"chain", call.image>>} ELSE {}
           /\ PayloadBatch.fence = <<"payload", call.image>>
           /\ call.image \in Images
<1>0. call.image \in Images /\ call.frame \in Images
  BY DEF CallFits, AtImage
<1>1. {WaitSemaphore(call.image)} \in SUBSET Semaphores
  BY <1>0 DEF Semaphores, WaitSemaphore
<1>2. (IF appFence[call.image] = "given" THEN {<<"chain", call.image>>} ELSE {}) \in SUBSET Semaphores
  BY <1>0 DEF Semaphores
<1>3. <<"payload", call.image>> \in Fences \cup {NoFence}
  BY <1>0 DEF Fences
<1> QED
  BY <1>0, <1>1, <1>2, <1>3, IsBatch DEF PayloadBatch

(* It waits as promised, and promises to chain what it signals.            *)
LEMMA SemaphoreOfPayload ==
    ASSUME PresentShape, CallFits, call.at = "payload", Submit(PayloadBatch),
           call' = [call EXCEPT !.at = IF appFence[call.image] = "given" THEN "fence" ELSE "notify"],
           UNCHANGED <<signalled, rendering>>,
           NEW x \in Images, NEW kind \in Kinds, SemaphoreFits(<<kind, x>>)
    PROVE  SemaphoreFits(<<kind, x>>)'
<1> DEFINE s == <<kind, x>>
           given == appFence[call.image] = "given"
           chained == <<"chain", call.image>>
<1>1. call'.at = (IF given THEN "fence" ELSE "notify") /\ call'.todo = call.todo
      /\ call'.shared = call.shared /\ call'.frame = call.frame /\ call'.image = call.image
  BY CallMoves
<1>2. SubmissionShape /\ call.image \notin call.todo /\ (~call.shared => call.todo = {})
  BY DEF CallFits, PresentShape, AtImage
<1> DEFINE later == call.shared /\ \E y \in call.todo : s = <<"present", y>>
<1>3. Promised(s) <=> later \/ s = WaitSemaphore(call.image)
  BY DEF Promised, AtImage, WaitSemaphore
<1>4. Promised(s)' <=> later \/ (given /\ s = chained)
  BY <1>1 DEF Promised, AtImage
<1>5. /\ PayloadBatch \in Batches
      /\ PayloadBatch.waits = {WaitSemaphore(call.image)}
      /\ PayloadBatch.signals = IF given THEN {chained} ELSE {}
  BY PayloadIsBatch
<1>6. /\ Left(s) \in Int
      /\ Cardinality({S \in rendering : s = <<"render", Frame(S)>>}) \in Int
  BY LeftCounts, RenderingCounted
<1>7. s = WaitSemaphore(call.image) => ~later /\ s # chained
  BY <1>2 DEF WaitSemaphore
<1>8. s = chained => ~later
  OBVIOUS
<1> HIDE DEF later, chained, given
<1>9. CASE s = WaitSemaphore(call.image)
  <2>1. s \in PayloadBatch.waits /\ s \notin PayloadBatch.signals
    BY <1>5, <1>7, <1>9
  <2>2. Promised(s) /\ ~Promised(s)'
    BY <1>3, <1>4, <1>7, <1>9
  <2> QED
    BY <1>2, <1>5, <1>6, <2>1, <2>2, SemaphoreWaited
<1>10. CASE given /\ s = chained
  <2>0. s # WaitSemaphore(call.image)
    BY <1>7, <1>10
  <2>1. s \notin PayloadBatch.waits /\ s \in PayloadBatch.signals
    BY <1>5, <1>10, <2>0
  <2>2. ~Promised(s) /\ Promised(s)'
    BY <1>3, <1>4, <1>8, <1>10, <2>0
  <2> QED
    BY <1>2, <1>5, <1>6, <2>1, <2>2, SemaphoreSignalled
<1>11. CASE s # WaitSemaphore(call.image) /\ ~(given /\ s = chained)
  <2>1. s \notin PayloadBatch.waits /\ s \notin PayloadBatch.signals
    BY <1>5, <1>11
  <2>2. Promised(s)' <=> Promised(s)
    BY <1>3, <1>4, <1>11
  <2> QED
    BY <1>2, <1>5, <2>1, <2>2, SemaphoreLeft
<1> QED
  BY <1>9, <1>10, <1>11

(* The application's fence was chained.                                    *)
FenceBatch == Batch({<<"chain", call.image>>}, {}, <<"app", call.image>>)
(* It is a batch.                                                          *)
LEMMA FenceIsBatch ==
    ASSUME CallFits, call.at = "fence"
    PROVE  /\ FenceBatch \in Batches
           /\ FenceBatch.waits = {<<"chain", call.image>>} /\ FenceBatch.signals = {}
           /\ FenceBatch.fence = <<"app", call.image>>
           /\ call.image \in Images
<1>0. call.image \in Images
  BY DEF CallFits, AtImage
<1>1. {<<"chain", call.image>>} \in SUBSET Semaphores /\ {} \in SUBSET Semaphores
      /\ <<"app", call.image>> \in Fences \cup {NoFence}
  BY <1>0 DEF Semaphores, Fences
<1> QED
  BY <1>0, <1>1, IsBatch DEF FenceBatch

(* It waits for present_fence_wait as promised.                            *)
LEMMA SemaphoreOfFence ==
    ASSUME PresentShape, CallFits, call.at = "fence", Submit(FenceBatch),
           call' = [call EXCEPT !.at = "notify"],
           UNCHANGED <<signalled, rendering>>,
           NEW x \in Images, NEW kind \in Kinds, SemaphoreFits(<<kind, x>>)
    PROVE  SemaphoreFits(<<kind, x>>)'
<1> DEFINE s == <<kind, x>>
           chained == <<"chain", call.image>>
           later == call.shared /\ \E y \in call.todo : s = <<"present", y>>
<1>1. call'.at = "notify" /\ call'.todo = call.todo
      /\ call'.shared = call.shared /\ call'.frame = call.frame /\ call'.image = call.image
  BY CallMoves
<1>2. SubmissionShape
  BY DEF PresentShape
<1>3. Promised(s) <=> later \/ s = chained
  BY DEF Promised, AtImage
<1>4. Promised(s)' <=> later
  BY <1>1 DEF Promised, AtImage
<1>5. /\ FenceBatch \in Batches /\ FenceBatch.waits = {chained} /\ FenceBatch.signals = {}
  BY FenceIsBatch
<1>6. Left(s) \in Int
  BY LeftCounts
<1>7. s = chained => ~later
  OBVIOUS
<1> HIDE DEF later, chained
<1>8. CASE s = chained
  <2>1. s \in FenceBatch.waits /\ s \notin FenceBatch.signals
    BY <1>5, <1>8
  <2>2. Promised(s) /\ ~Promised(s)'
    BY <1>3, <1>4, <1>7, <1>8
  <2> QED
    BY <1>2, <1>5, <1>6, <2>1, <2>2, SemaphoreWaited
<1>9. CASE s # chained
  <2>1. s \notin FenceBatch.waits /\ s \notin FenceBatch.signals
    BY <1>5, <1>9
  <2>2. Promised(s)' <=> Promised(s)
    BY <1>3, <1>4, <1>9
  <2> QED
    BY <1>2, <1>5, <2>1, <2>2, SemaphoreLeft
<1> QED
  BY <1>8, <1>9
-----------------------------------------------------------------------------
(* Every step keeps the shape of the queue, of the images and of the call. *)

(* A batch of the right shape is added.                                    *)
LEMMA QueueAppended ==
    ASSUME SubmissionShape, NEW b \in Batches, Submit(b),
           b.signals \subseteq {"present", "chain"} \X Images, b.signals \cap b.waits = {}
    PROVE  SubmissionShape'
<1> DEFINE n == Len(submitted)
<1>1. /\ n \in Nat /\ Len(submitted') = n + 1
      /\ submitted' \in Seq(Batches)
      /\ \A k \in 1 .. n : submitted'[k] = submitted[k]
      /\ submitted'[n + 1] = b
  BY AppendDoes
<1>2. \A k \in 1 .. n : /\ submitted[k].signals \subseteq {"present", "chain"} \X Images
                        /\ submitted[k].signals \cap submitted[k].waits = {}
  BY DEF SubmissionShape
<1> HIDE DEF n
<1>3. ASSUME NEW k \in 1 .. n + 1
      PROVE  /\ submitted'[k].signals \subseteq {"present", "chain"} \X Images
             /\ submitted'[k].signals \cap submitted'[k].waits = {}
  <2>1. k \in 1 .. n \/ k = n + 1
    BY <1>1
  <2>2. CASE k \in 1 .. n
    BY <1>1, <1>2, <2>2
  <2>3. CASE k = n + 1
    BY <1>1, <2>3
  <2> QED
    BY <2>1, <2>2, <2>3
<1> QED
  BY <1>1, <1>3 DEF SubmissionShape

(* The first batch is gone.                                                *)
LEMMA QueueExecuted ==
    ASSUME SubmissionShape, Execute
    PROVE  SubmissionShape'
<1> DEFINE n == Len(submitted)
<1>1. /\ n \in Nat /\ Len(submitted') = n - 1
      /\ submitted' \in Seq(Batches)
      /\ \A k \in 1 .. n - 1 : submitted'[k] = submitted[k + 1]
  BY ExecuteDoes
<1>2. \A k \in 1 .. n : /\ submitted[k].signals \subseteq {"present", "chain"} \X Images
                        /\ submitted[k].signals \cap submitted[k].waits = {}
  BY DEF SubmissionShape
<1> HIDE DEF n
<1>3. \A k \in 1 .. n - 1 : k + 1 \in 1 .. n
  BY <1>1
<1> QED
  BY <1>1, <1>2, <1>3 DEF SubmissionShape

(* Nothing is added or gone.                                               *)
LEMMA QueueStays ==
    ASSUME SubmissionShape, UNCHANGED submitted
    PROVE  SubmissionShape'
BY DEF SubmissionShape

(* All steps.                                                              *)
LEMMA KeepQueue == ASSUME PresentShape, CallFits, Next PROVE SubmissionShape'
<1>0. SubmissionShape
  BY DEF PresentShape
<1>1. CASE Execute
  BY <1>0, <1>1, QueueExecuted
<1>2. CASE SubmitWaitRequest
  <2>1. CASE call.at = "wait_request" /\ Submit(WaitRequest)
    <3>1. /\ WaitRequest.signals \subseteq {"present", "chain"} \X Images
          /\ WaitRequest.signals \cap WaitRequest.waits = {}
      BY <2>1, WaitRequestIsBatch DEF CallFits
    <3> QED
      BY <1>0, <2>1, <3>1, QueueAppended, WaitRequestIsBatch
  <2>2. CASE UNCHANGED submitted
    BY <1>0, <2>2, QueueStays
  <2> QED
    BY <1>2, <2>1, <2>2 DEF SubmitWaitRequest, WaitRequest
<1>3. CASE SetPayload
  <2>1. CASE call.at = "payload" /\ Submit(PayloadBatch)
    <3>1. PayloadBatch.signals \subseteq {"present", "chain"} \X Images
      BY <2>1, PayloadIsBatch
    <3>2. PayloadBatch.signals \cap PayloadBatch.waits = {}
      BY <2>1, PayloadIsBatch DEF WaitSemaphore
    <3> QED
      BY <1>0, <2>1, <3>1, <3>2, QueueAppended, PayloadIsBatch
  <2>2. CASE UNCHANGED submitted
    BY <1>0, <2>2, QueueStays
  <2> QED
    BY <1>3, <2>1, <2>2 DEF SetPayload, PayloadBatch
<1>4. CASE ChainFence
  <2>1. CASE call.at = "fence" /\ Submit(FenceBatch)
    <3>1. /\ FenceBatch.signals \subseteq {"present", "chain"} \X Images
          /\ FenceBatch.signals \cap FenceBatch.waits = {}
      BY <2>1, FenceIsBatch
    <3> QED
      BY <1>0, <2>1, <3>1, QueueAppended, FenceIsBatch
  <2>2. CASE UNCHANGED submitted
    BY <1>0, <2>2, QueueStays
  <2> QED
    BY <1>4, <2>1, <2>2 DEF ChainFence, FenceBatch
<1>5. ASSUME NEW x \in Images, Acquire(x) \/ TakeFence(x) \/ Show(x) PROVE UNCHANGED submitted
  BY <1>5 DEF Acquire, TakeFence, Show, gpuVars
<1>6. ASSUME NEW S \in Frames, Render(S) \/ FinishFrame(S) PROVE UNCHANGED submitted
  BY <1>6 DEF Render, FinishFrame
<1>7. ASSUME NEW s \in Swapchains, DescendantPresents(s) PROVE UNCHANGED submitted
  BY <1>7 DEF DescendantPresents, gpuVars
<1>8. ASSUME NEW F \in SUBSET Images, QueuePresent(F) PROVE UNCHANGED submitted
  BY <1>8 DEF QueuePresent, gpuVars
<1>9. ASSUME NextSwapchain \/ SwitchMode \/ Sync \/ Notify PROVE UNCHANGED submitted
  BY <1>9 DEF NextSwapchain, SwitchMode, Sync, Notify, gpuVars
<1> QED
  BY <1>0, <1>1, <1>2, <1>3, <1>4, <1>5, <1>6, <1>7, <1>8, <1>9, QueueStays
  DEF Next, PresentCall

(* What the application and the present engine do with images.             *)
LEMMA KeepShape == ASSUME PresentShape, CallFits, Next PROVE PresentShape'
<1> DEFINE Shape == /\ life \in [Images -> {"free", "held", "drawn", "queued"}]
                    /\ appFence \in [Images -> {"idle", "given"}]
                    /\ rendering \subseteq Frames
<1>0. SubmissionShape' /\ Shape
  BY KeepQueue DEF PresentShape
<1>1. ASSUME NEW x \in Images, Acquire(x) \/ TakeFence(x) \/ Show(x) PROVE Shape'
  BY <1>0, <1>1 DEF Acquire, TakeFence, Show, gpuVars
<1>2. ASSUME NEW S \in Frames, Render(S) \/ FinishFrame(S) PROVE Shape'
  BY <1>0, <1>2 DEF Render, FinishFrame, hostVars
<1>3. ASSUME NEW s \in Swapchains, DescendantPresents(s) PROVE Shape'
  BY <1>0, <1>3 DEF DescendantPresents, gpuVars, hostVars
<1>4. ASSUME NEW F \in SUBSET Images, QueuePresent(F) PROVE Shape'
  BY <1>0, <1>4 DEF QueuePresent, gpuVars
<1>5. ASSUME Execute PROVE Shape'
  BY <1>0, <1>5 DEF Execute, hostVars
<1>6. ASSUME SubmitWaitRequest PROVE Shape'
  BY <1>0, <1>6 DEF SubmitWaitRequest, hostVars, GivesBack, Refuses
<1>7. ASSUME NextSwapchain PROVE Shape'
  BY <1>0, <1>7 DEF NextSwapchain, gpuVars, hostVars
<1>8. ASSUME SwitchMode PROVE Shape'
  BY <1>0, <1>8 DEF SwitchMode, gpuVars, PresentFails, GivesBack, Refuses
<1>9. ASSUME Sync PROVE Shape'
  BY <1>0, <1>9 DEF Sync, gpuVars, PresentFails, GivesBack, Refuses
<1>10. ASSUME SetPayload PROVE Shape'
  BY <1>0, <1>10 DEF SetPayload, PresentFails, GivesBack, Refuses
<1>11. ASSUME ChainFence PROVE Shape'
  BY <1>0, <1>11 DEF ChainFence, PresentFails, GivesBack, Refuses
<1>12. ASSUME Notify PROVE Shape'
  BY <1>0, <1>12 DEF Notify, gpuVars
<1>13. Shape'
  BY <1>1, <1>2, <1>3, <1>4, <1>5, <1>6, <1>7, <1>8, <1>9, <1>10, <1>11, <1>12
  DEF Next, PresentCall
<1> QED
  BY <1>0, <1>13 DEF PresentShape

(* A call that fails for an image leaves it to the application.            *)
LEMMA FailureKeepsCall ==
    ASSUME PresentShape, CallFits, call.at \in AtImage, PresentFails
    PROVE  CallFits'
<1>1. /\ call'.at = "next" /\ call'.todo = call.todo /\ call'.shared = call.shared
      /\ call'.frame = call.frame /\ call'.image = call.image
  BY CallMoves DEF PresentFails
<1>2. call' \in [at : Stages, todo : SUBSET Images, image : Images \cup {<<>>},
                 frame : Images \cup {<<>>}, shared : BOOLEAN]
  BY DEF CallFits, PresentFails, Stages
<1>3. call.frame \in Images /\ (~call.shared => call.todo = {}) /\ call.image \notin call.todo
      /\ \A x \in call.todo : life[x] = "drawn"
  BY DEF CallFits, AtImage
<1>4. call.todo \subseteq Images
  BY DEF CallFits
<1>5. \A x \in call.todo : life'[x] = "drawn"
  BY <1>3, <1>4 DEF PresentFails, GivesBack
<1> QED
  BY <1>1, <1>2, <1>3, <1>5 DEF CallFits, AtImage

(* A call that moves on at its image.                                      *)
LEMMA MoveKeepsCall ==
    ASSUME CallFits, call.at \in AtImage, NEW to \in AtImage,
           call' = [call EXCEPT !.at = to], UNCHANGED life
    PROVE  CallFits'
<1>1. /\ call'.at = to /\ call'.todo = call.todo /\ call'.shared = call.shared
      /\ call'.frame = call.frame /\ call'.image = call.image
  BY CallMoves
<1>2. call' \in [at : Stages, todo : SUBSET Images, image : Images \cup {<<>>},
                 frame : Images \cup {<<>>}, shared : BOOLEAN]
  BY DEF CallFits, Stages, AtImage
<1> QED
  BY <1>1, <1>2 DEF CallFits, AtImage

(* A call that others do not disturb.                                      *)
LEMMA CallStays ==
    ASSUME CallFits, UNCHANGED call, \A x \in Images : life[x] = "drawn" => life'[x] = "drawn"
    PROVE  CallFits'
<1>1. call.todo \subseteq Images
  BY DEF CallFits
<1>2. call.at # "none" => \A x \in call.todo : life'[x] = "drawn"
  BY <1>1 DEF CallFits
<1>3. call.at \in AtImage => life'[call.image] = "drawn"
  BY DEF CallFits
<1> QED
  BY <1>2, <1>3 DEF CallFits, AtImage, Stages

(* No call.                                                                *)
LEMMA NoCallFits ==
    ASSUME call' = NoCall
    PROVE  CallFits'
BY DEF CallFits, NoCall, Stages, AtImage

(* All steps.                                                              *)
LEMMA KeepCall == ASSUME PresentShape, CallFits, Next PROVE CallFits'
<1>0. life \in [Images -> {"free", "held", "drawn", "queued"}]
  BY DEF PresentShape
<1>1. ASSUME NEW x \in Images, Acquire(x) \/ TakeFence(x) \/ Show(x) PROVE CallFits'
  <2>1. UNCHANGED call
    BY <1>1 DEF Acquire, TakeFence, Show
  <2>2. \A y \in Images : life[y] = "drawn" => life'[y] = "drawn"
    BY <1>0, <1>1 DEF Acquire, TakeFence, Show
  <2> QED
    BY <2>1, <2>2, CallStays
<1>2. ASSUME NEW S \in Frames, Render(S) PROVE CallFits'
  <2>1. S \subseteq Images /\ IsFiniteSet(S) /\ Frame(S) \in S
    BY FinitelyMany
  <2>2. /\ call' = [NoCall EXCEPT !.at = "drawn", !.todo = S, !.frame = Frame(S)]
        /\ life' = [x \in Images |-> IF x \in S THEN "drawn" ELSE life[x]]
    BY <1>2 DEF Render
  <2>3. /\ call' \in [at : Stages, todo : SUBSET Images, image : Images \cup {<<>>},
                     frame : Images \cup {<<>>}, shared : BOOLEAN]
        /\ call'.at = "drawn" /\ call'.todo = S /\ call'.frame = Frame(S)
    BY <2>1, <2>2 DEF NoCall, Stages
  <2>4. \A x \in S : life'[x] = "drawn"
    BY <2>1, <2>2
  <2> QED
    BY <2>1, <2>3, <2>4 DEF CallFits, AtImage
<1>3. ASSUME NEW S \in Frames, FinishFrame(S) PROVE CallFits'
  BY <1>3, CallStays DEF FinishFrame, hostVars
<1>4. ASSUME NEW s \in Swapchains, DescendantPresents(s) PROVE CallFits'
  BY <1>4, CallStays DEF DescendantPresents, hostVars
<1>5. ASSUME Execute PROVE CallFits'
  BY <1>5, CallStays DEF Execute, hostVars
<1>6. ASSUME NEW F \in SUBSET Images, QueuePresent(F) PROVE CallFits'
  <2> DEFINE many == Cardinality(call.todo) > 1
  <2>1. /\ call.at = "drawn" /\ UNCHANGED life
        /\ call' = [call EXCEPT !.at = IF many THEN "wait_request" ELSE "next", !.shared = many]
    BY <1>6 DEF QueuePresent
  <2>2. /\ IsFiniteSet(call.todo) /\ call.frame \in call.todo
        /\ \A x \in call.todo : life[x] = "drawn"
    BY <2>1 DEF CallFits
  <2>3. Cardinality(call.todo) \in Nat
    BY <2>2, FS_CardinalityType
  <2>4. ~many => call.todo \subseteq {call.frame}
    <3>1. ASSUME ~many PROVE Cardinality(call.todo) = 1
      <4>1. Cardinality(call.todo) # 0
        BY <2>2, FS_EmptySet
      <4> QED
        BY <2>3, <3>1, <4>1
    <3> QED
      BY <2>2, <3>1, FS_Singleton
  <2>5. many \in BOOLEAN
    BY <2>3
  <2> HIDE DEF many
  <2>6. /\ call'.at = (IF many THEN "wait_request" ELSE "next") /\ call'.shared = many
        /\ call'.todo = call.todo /\ call'.frame = call.frame /\ call'.image = call.image
        /\ call' \in [at : Stages, todo : SUBSET Images, image : Images \cup {<<>>},
                     frame : Images \cup {<<>>}, shared : BOOLEAN]
    BY <2>1, <2>5 DEF CallFits, Stages
  <2> QED
    BY <2>1, <2>2, <2>4, <2>6 DEF CallFits, AtImage
<1>7. ASSUME SubmitWaitRequest PROVE CallFits'
  <2>1. CASE call' = NoCall
    BY <2>1, NoCallFits
  <2>2. CASE call' = [call EXCEPT !.at = "next"] /\ UNCHANGED hostVars
    <3>1. call.at = "wait_request" /\ UNCHANGED life
      BY <1>7, <2>2 DEF SubmitWaitRequest, hostVars
    <3>2. /\ call'.at = "next" /\ call'.todo = call.todo /\ call'.shared = call.shared
          /\ call'.frame = call.frame /\ call'.image = call.image
      BY <2>2, CallMoves
    <3>3. call' \in [at : Stages, todo : SUBSET Images, image : Images \cup {<<>>},
                 frame : Images \cup {<<>>}, shared : BOOLEAN]
      BY <2>2 DEF CallFits, Stages
    <3> QED
      BY <3>1, <3>2, <3>3 DEF CallFits, AtImage
  <2> QED
    BY <1>7, <2>1, <2>2 DEF SubmitWaitRequest
<1>8. ASSUME NextSwapchain PROVE CallFits'
  <2>1. call.at = "next" /\ UNCHANGED life
    BY <1>8 DEF NextSwapchain, hostVars
  <2>2. CASE call.todo = {}
    BY <1>8, <2>2, NoCallFits DEF NextSwapchain
  <2>3. ASSUME NEW x \in call.todo,
               call' = [call EXCEPT !.at = "mode", !.image = x, !.todo = @ \ {x}]
        PROVE  CallFits'
    <3>1. /\ call'.at = "mode" /\ call'.todo = call.todo \ {x} /\ call'.shared = call.shared
          /\ call'.frame = call.frame /\ call'.image = x
      BY <2>3 DEF CallFits
    <3>2. x \in Images /\ life[x] = "drawn" /\ \A y \in call.todo : life[y] = "drawn"
      BY <2>1 DEF CallFits
    <3>3. call' \in [at : Stages, todo : SUBSET Images, image : Images \cup {<<>>},
                 frame : Images \cup {<<>>}, shared : BOOLEAN]
      BY <2>3, <3>2 DEF CallFits, Stages
    <3>4. ~call.shared => call.todo \ {x} = {} /\ x = call.frame
      BY <2>1 DEF CallFits
    <3>5. call.frame \in Images
      BY <2>1 DEF CallFits
    <3> QED
      BY <2>1, <3>1, <3>2, <3>3, <3>4, <3>5 DEF CallFits, AtImage
  <2> QED
    BY <1>8, <2>2, <2>3 DEF NextSwapchain
<1>9. ASSUME SwitchMode PROVE CallFits'
  <2>1. call.at = "mode" /\ call.at \in AtImage
    BY <1>9 DEF SwitchMode, AtImage
  <2>2. CASE PresentFails
    BY <2>1, <2>2, FailureKeepsCall
  <2>3. CASE ~PresentFails
    <3>1. PICK to \in AtImage : call' = [call EXCEPT !.at = to] /\ UNCHANGED life
      BY <1>9, <2>3 DEF SwitchMode, AtImage
    <3> QED
      BY <2>1, <3>1, MoveKeepsCall
  <2> QED
    BY <2>2, <2>3
<1>10. ASSUME Sync PROVE CallFits'
  <2>1. call.at \in AtImage
    BY <1>10 DEF Sync, AtImage
  <2>2. CASE PresentFails
    BY <2>1, <2>2, FailureKeepsCall
  <2>3. CASE ~PresentFails
    <3>1. PICK to \in AtImage : call' = [call EXCEPT !.at = to] /\ UNCHANGED life
      BY <1>10, <2>3 DEF Sync, AtImage
    <3> QED
      BY <2>1, <3>1, MoveKeepsCall
  <2> QED
    BY <2>2, <2>3
<1>11. ASSUME SetPayload PROVE CallFits'
  <2>1. call.at \in AtImage
    BY <1>11 DEF SetPayload, AtImage
  <2>2. CASE PresentFails
    BY <2>1, <2>2, FailureKeepsCall
  <2>3. CASE ~PresentFails
    <3>1. PICK to \in AtImage : call' = [call EXCEPT !.at = to] /\ UNCHANGED life
      BY <1>11, <2>3 DEF SetPayload, AtImage
    <3> QED
      BY <2>1, <3>1, MoveKeepsCall
  <2> QED
    BY <2>2, <2>3
<1>12. ASSUME ChainFence PROVE CallFits'
  <2>1. call.at \in AtImage
    BY <1>12 DEF ChainFence, AtImage
  <2>2. CASE PresentFails
    BY <2>1, <2>2, FailureKeepsCall
  <2>3. CASE ~PresentFails
    <3>1. PICK to \in AtImage : call' = [call EXCEPT !.at = to] /\ UNCHANGED life
      BY <1>12, <2>3 DEF ChainFence, AtImage
    <3> QED
      BY <2>1, <3>1, MoveKeepsCall
  <2> QED
    BY <2>2, <2>3
<1>13. ASSUME Notify PROVE CallFits'
  <2>1. call.at = "notify" /\ call' = [call EXCEPT !.at = "next"]
        /\ \A x \in Images : x # call.image => life'[x] = life[x]
    BY <1>0, <1>13 DEF Notify
  <2>2. /\ call'.at = "next" /\ call'.todo = call.todo /\ call'.shared = call.shared
        /\ call'.frame = call.frame /\ call'.image = call.image
    BY <2>1, CallMoves
  <2>3. call' \in [at : Stages, todo : SUBSET Images, image : Images \cup {<<>>},
                 frame : Images \cup {<<>>}, shared : BOOLEAN]
    BY <2>1 DEF CallFits, Stages
  <2>4. /\ call.frame \in Images /\ (~call.shared => call.todo = {})
        /\ call.image \notin call.todo /\ call.todo \subseteq Images
        /\ \A x \in call.todo : life[x] = "drawn"
    BY <2>1 DEF CallFits, AtImage
  <2>5. \A x \in call.todo : life'[x] = "drawn"
    BY <2>1, <2>4
  <2> QED
    BY <2>2, <2>3, <2>4, <2>5 DEF CallFits, AtImage
<1> QED
  BY <1>1, <1>2, <1>3, <1>4, <1>5, <1>6, <1>7, <1>8, <1>9, <1>10, <1>11, <1>12, <1>13
     DEF Next, PresentCall
-----------------------------------------------------------------------------
(* Every step keeps what is known of an image that no present failed for.  *)

(* Semaphores, whose promises a step leaves alone with the queue.          *)
LEMMA KeepSemaphores ==
    ASSUME PresentShape, CallFits, Next, NEW x \in Images \ broken', FrameFits(x),
           NEW kind \in Kinds, SemaphoreFits(<<kind, x>>)
    PROVE  SemaphoreFits(<<kind, x>>)'
<1> DEFINE s == <<kind, x>>
           Fits == SemaphoreFits(<<kind, x>>)
<1>0. x \in Images /\ SubmissionShape
  BY DEF PresentShape
<1>1. ASSUME NEW y \in Images, Acquire(y) \/ TakeFence(y) \/ Show(y) PROVE Fits'
  <2>1. UNCHANGED <<call, submitted, signalled, rendering>>
    BY <1>1 DEF Acquire, TakeFence, Show, gpuVars
  <2> QED
    BY <2>1, PromiseStays, SemaphoreStays
<1>2. ASSUME NEW S \in Frames, Render(S) PROVE Fits'
  BY <1>0, <1>2, SemaphoreRendered
<1>3. ASSUME NEW S \in Frames, FinishFrame(S) PROVE Fits'
  <2>1. UNCHANGED call
    BY <1>3 DEF FinishFrame
  <2> QED
    BY <1>0, <1>3, <2>1, PromiseStays, SemaphoreFinished
<1>4. ASSUME NEW t \in Swapchains, DescendantPresents(t) PROVE Fits'
  <2>1. UNCHANGED <<call, submitted, signalled, rendering>>
    BY <1>4 DEF DescendantPresents, gpuVars
  <2> QED
    BY <2>1, PromiseStays, SemaphoreStays
<1>5. ASSUME Execute PROVE Fits'
  <2>1. UNCHANGED call
    BY <1>5 DEF Execute
  <2>2. Cardinality({S \in rendering : s = <<"render", Frame(S)>>}) \in Int
    BY RenderingCounted
  <2> QED
    BY <1>0, <1>5, <2>1, <2>2, PromiseStays, SemaphoreExecuted
<1>6. ASSUME NEW F \in SUBSET Images, QueuePresent(F) PROVE Fits'
  <2>1. UNCHANGED <<submitted, signalled, rendering>>
    BY <1>6 DEF QueuePresent, gpuVars
  <2> QED
    BY <1>6, <2>1, PromiseOfQueuePresent, SemaphoreStays
<1>7. ASSUME SubmitWaitRequest PROVE Fits'
  <2>0. call.at = "wait_request" /\ UNCHANGED <<rendering, signalled>>
    BY <1>7 DEF SubmitWaitRequest
  <2>1. CASE Submit(WaitRequest) /\ call' = [call EXCEPT !.at = "next"]
    BY <1>0, <2>0, <2>1, SemaphoreRequested
  <2>2. CASE broken' = broken \cup {call.frame} /\ call' = NoCall /\ UNCHANGED submitted
    <3>1. ~Promised(s)'
      BY <2>2 DEF NoCall, Promised, AtImage
    <3>2. ~Promised(s)
      BY <2>0, <2>2 DEF Promised, AtImage
    <3> QED
      BY <2>0, <2>2, <3>1, <3>2, SemaphoreStays
  <2> QED
    BY <1>7, <2>1, <2>2 DEF SubmitWaitRequest, WaitRequest
<1>8. ASSUME NextSwapchain PROVE Fits'
  <2>1. UNCHANGED <<submitted, signalled, rendering>>
    BY <1>8 DEF NextSwapchain, gpuVars
  <2> QED
    BY <1>8, <2>1, PromiseOfNextSwapchain, SemaphoreStays
<1>9. ASSUME call.at \in AtImage, PresentFails, UNCHANGED <<submitted, signalled, rendering>>
      PROVE  Fits'
  BY <1>9, PromiseOfFailure, SemaphoreStays
<1>10. ASSUME SwitchMode \/ Sync PROVE Fits'
  <2>1. call.at \in {"mode", "sync"} /\ UNCHANGED <<submitted, signalled, rendering>>
    BY <1>10 DEF SwitchMode, Sync, gpuVars
  <2>2. CASE PresentFails
    BY <1>9, <2>1, <2>2 DEF AtImage
  <2>3. CASE ~PresentFails
    <3>1. PICK to \in {"sync", "payload"} : call' = [call EXCEPT !.at = to]
      BY <1>10, <2>3 DEF SwitchMode, Sync
    <3> QED
      BY <2>1, <3>1, PromiseBeforePayload, SemaphoreStays
  <2> QED
    BY <2>2, <2>3
<1>11. ASSUME SetPayload PROVE Fits'
  <2>0. call.at = "payload" /\ UNCHANGED <<rendering, signalled>>
    BY <1>11 DEF SetPayload
  <2>1. CASE PresentFails /\ UNCHANGED submitted
    BY <1>9, <2>0, <2>1 DEF AtImage
  <2>2. CASE /\ Submit(PayloadBatch)
             /\ call' = [call EXCEPT !.at = IF appFence[call.image] = "given" THEN "fence"
                                            ELSE "notify"]
    BY <1>0, <2>0, <2>2, SemaphoreOfPayload
  <2> QED
    BY <1>11, <2>1, <2>2 DEF SetPayload, PayloadBatch
<1>12. ASSUME ChainFence PROVE Fits'
  <2>0. call.at = "fence" /\ UNCHANGED <<rendering, signalled>>
    BY <1>12 DEF ChainFence
  <2>1. CASE PresentFails /\ UNCHANGED submitted
    BY <1>9, <2>0, <2>1 DEF AtImage
  <2>2. CASE Submit(FenceBatch) /\ call' = [call EXCEPT !.at = "notify"]
    BY <1>0, <2>0, <2>2, SemaphoreOfFence
  <2> QED
    BY <1>12, <2>1, <2>2 DEF ChainFence, FenceBatch
<1>13. ASSUME Notify PROVE Fits'
  <2>1. UNCHANGED <<submitted, signalled, rendering>>
    BY <1>13 DEF Notify, gpuVars
  <2> QED
    BY <1>13, <2>1, PromiseOfNotify, SemaphoreStays
<1> QED
  BY <1>1, <1>2, <1>3, <1>4, <1>5, <1>6, <1>7, <1>8, <1>10, <1>11, <1>12, <1>13
     DEF Next, PresentCall

(* Frames, which the application starts and the GPU ends.                  *)
LEMMA KeepFrames ==
    ASSUME PresentShape, CallFits, Next, NEW x \in Images \ broken', FrameFits(x),
           SemaphoreFits(<<"render", x>>)
    PROVE  FrameFits(x)'
<1> DEFINE s == <<"render", x>>
<1>0. x \in Images /\ SubmissionShape
  BY DEF PresentShape
<1>1. ASSUME rendering' = rendering, s \in signalled' => s \in signalled PROVE FrameFits(x)'
  BY <1>1 DEF FrameFits
<1>2. ASSUME Execute PROVE FrameFits(x)'
  <2>1. /\ Len(submitted) \in Nat /\ Len(submitted) >= 1
        /\ signalled' = (signalled \ submitted[1].waits) \cup submitted[1].signals
        /\ rendering' = rendering
    BY <1>0, <1>2, ExecuteDoes DEF Execute
  <2>2. submitted[1].signals \subseteq {"present", "chain"} \X Images
    BY <1>0, <2>1 DEF SubmissionShape
  <2>3. s \in signalled' => s \in signalled
    BY <2>1, <2>2
  <2> QED
    BY <1>1, <2>1, <2>3
<1>3. ASSUME NEW S \in Frames, Render(S) PROVE FrameFits(x)'
  <2>1. /\ call.at = "none" /\ Frame(S) \in S
        /\ rendering' = rendering \cup {S} /\ UNCHANGED <<submitted, signalled>>
        /\ \A y \in S : RenderSemaphoreIsFree(y)
    BY <1>3, FinitelyMany DEF Render
  <2>2. CASE Frame(S) # x
    BY <2>1, <2>2 DEF FrameFits
  <2>3. CASE Frame(S) = x
    <3>1. s \notin signalled /\ Waits(s) = {}
      BY <2>1, <2>3 DEF RenderSemaphoreIsFree, Waits
    <3>2. Signals(s) = {} /\ ~Promised(s)
      BY <1>0, <2>1, RenderIsTheFrames DEF Promised, AtImage
    <3>3. Cardinality(Waits(s)) = 0 /\ Cardinality(Signals(s)) = 0
      BY <3>1, <3>2, FS_EmptySet
    <3>4. /\ Cardinality(Rendering(s)) \in Nat
          /\ Rendering(s) # {} => Cardinality(Rendering(s)) > 0
      BY RenderingCounted
    <3>5. Left(s) = (IF s \in signalled THEN 1 ELSE 0) + Cardinality(Signals(s))
                    + Cardinality(Rendering(s))
      BY LeftCounts
    <3>6. Left(s) - Cardinality(Waits(s)) = 0
      BY <3>2 DEF SemaphoreFits, Balance
    <3>7. Rendering(s) = {}
      <4> HIDE DEF s
      <4> QED
        BY <3>1, <3>3, <3>4, <3>5, <3>6
    <3>8. \A T \in rendering : Frame(T) # x
      BY <3>7 DEF Rendering
    <3> QED
      BY <2>1, <3>1, <3>8 DEF FrameFits
  <2> QED
    BY <2>2, <2>3
<1>4. ASSUME NEW S \in Frames, FinishFrame(S) PROVE FrameFits(x)'
  <2>1. /\ S \in rendering /\ rendering' = rendering \ {S}
        /\ signalled' = signalled \cup {<<"render", Frame(S)>>}
    BY <1>4 DEF FinishFrame
  <2>2. CASE Frame(S) # x
    BY <2>1, <2>2 DEF FrameFits
  <2>3. CASE Frame(S) = x
    <3>1. \A T \in rendering' : Frame(T) # x
      BY <2>1, <2>3 DEF FrameFits
    <3> QED
      BY <3>1 DEF FrameFits
  <2> QED
    BY <2>2, <2>3
<1>5. ASSUME NEW y \in Images, Acquire(y) \/ TakeFence(y) \/ Show(y) PROVE FrameFits(x)'
  BY <1>1, <1>5 DEF Acquire, TakeFence, Show, gpuVars
<1>6. ASSUME NEW t \in Swapchains, DescendantPresents(t) PROVE FrameFits(x)'
  BY <1>1, <1>6 DEF DescendantPresents, gpuVars
<1>7. ASSUME PresentCall PROVE FrameFits(x)'
  <2>1. UNCHANGED <<rendering, signalled>>
    BY <1>7
    DEF PresentCall, QueuePresent, SubmitWaitRequest, NextSwapchain, SwitchMode, Sync,
        SetPayload, ChainFence, Notify, gpuVars
  <2> QED
    BY <1>1, <2>1
<1> QED
  BY <1>2, <1>3, <1>4, <1>5, <1>6, <1>7 DEF Next
-----------------------------------------------------------------------------
(* Fences: where they are pending.                                         *)

(* A submission pends for its fence alone.                                 *)
LEMMA PendingOfAppend ==
    ASSUME SubmissionShape, NEW b \in Batches, Submit(b), NEW f
    PROVE  /\ f # b.fence => Pending(f)' = Pending(f)
           /\ f = b.fence /\ Pending(f) = {} => Pending(f)' = {Len(submitted) + 1}
<1> DEFINE n == Len(submitted)
<1>1. /\ n \in Nat /\ Len(submitted') = n + 1
      /\ \A k \in 1 .. n : submitted'[k] = submitted[k]
      /\ submitted'[n + 1] = b
  BY AppendDoes
<1>2. \A k : k \in 1 .. n + 1 <=> k \in 1 .. n \/ k = n + 1
  BY <1>1
<1>3. Pending(f)' = {k \in 1 .. n + 1 : submitted'[k].fence = f}
  BY <1>1 DEF Pending
<1>4. Pending(f) = {k \in 1 .. n : submitted[k].fence = f}
  BY DEF Pending
<1> HIDE DEF n
<1>5. f # b.fence => Pending(f)' = Pending(f)
  BY <1>1, <1>2, <1>3, <1>4
<1>6. f = b.fence /\ Pending(f) = {} => Pending(f)' = {n + 1}
  BY <1>1, <1>2, <1>3, <1>4
<1> QED
  BY <1>5, <1>6 DEF n

(* The GPU signals a fence that is submitted once: no more pends for it.   *)
LEMMA PendingOfExecute ==
    ASSUME SubmissionShape, Execute, NEW f, Once(f), Pending(f) # {} => f \notin fences
    PROVE  /\ Once(f)'
           /\ Pending(f)' # {} => Pending(f) # {} /\ f \notin fences'
           /\ Pending(f) = {} /\ f \notin fences /\ f # NoFence => f \notin fences'
<1> DEFINE n == Len(submitted)  b == submitted[1]
<1>1. /\ n \in Nat /\ n >= 1 /\ Len(submitted') = n - 1
      /\ \A k \in 1 .. n - 1 : submitted'[k] = submitted[k + 1]
      /\ fences' = IF b.fence = NoFence THEN fences ELSE fences \union {b.fence}
  BY ExecuteDoes
<1>2. Pending(f)' = {k \in 1 .. n - 1 : submitted'[k].fence = f}
  BY <1>1 DEF Pending
<1>3. Pending(f) = {k \in 1 .. n : submitted[k].fence = f}
  BY DEF Pending
<1> HIDE DEF n
<1>4. \A k \in Pending(f)' : k \in 1 .. n - 1 /\ k + 1 \in Pending(f)
  BY <1>1, <1>2, <1>3
<1>5. b.fence = f => 1 \in Pending(f)
  BY <1>1, <1>3
<1>6. Once(f)'
  <2> SUFFICES ASSUME NEW j \in Pending(f)', NEW k \in Pending(f)' PROVE j = k
    BY DEF Once
  <2>1. j + 1 = k + 1 /\ j \in 1 .. n - 1 /\ k \in 1 .. n - 1
    BY <1>4 DEF Once
  <2> QED
    BY <1>1, <2>1
<1>7. ASSUME NEW k \in Pending(f)' PROVE Pending(f) # {} /\ f \notin fences'
  <2>1. k + 1 \in Pending(f) /\ k \in 1 .. n - 1
    BY <1>4
  <2>2. b.fence # f
    <3>1. ASSUME b.fence = f PROVE k + 1 = 1
      BY <1>5, <2>1, <3>1 DEF Once
    <3> QED
      BY <1>1, <2>1, <3>1
  <2>3. f \notin fences
    BY <2>1
  <2> QED
    BY <1>1, <2>1, <2>2, <2>3
<1>8. Pending(f) = {} /\ f \notin fences /\ f # NoFence => f \notin fences'
  BY <1>1, <1>5
<1> QED
  BY <1>6, <1>7, <1>8

(* A step that leaves the queue alone.                                     *)
LEMMA PendingStays == ASSUME UNCHANGED submitted, NEW f PROVE Pending(f)' = Pending(f)
BY DEF Pending

(* The fences of images, and no fence, are told apart.                     *)
LEMMA FencesDiffer ==
    ASSUME NEW x, NEW y
    PROVE  /\ <<"payload", x>> # <<"app", y>> /\ <<"payload", x>> # NoFence /\ <<"app", x>> # NoFence
           /\ <<"payload", x>> = <<"payload", y>> <=> x = y
           /\ <<"app", x>> = <<"app", y>> <=> x = y
<1>1. Len(<<"payload", x>>) = 2 /\ Len(<<"app", x>>) = 2 /\ Len(NoFence) = 0
  BY DEF NoFence
<1> QED
  BY <1>1
-----------------------------------------------------------------------------
(* Every step keeps the payload's fence submitted once, and unsignalled    *)
(* while it pends.                                                         *)
LEMMA KeepPayloads ==
    ASSUME PresentShape, CallFits, Next, NEW x \in Images \ broken', PayloadFits(x)
    PROVE  PayloadFits(x)'
<1> DEFINE f == <<"payload", x>>
<1>0. /\ x \in Images /\ SubmissionShape
      /\ life \in [Images -> {"free", "held", "drawn", "queued"}]
  BY DEF PresentShape
<1>1. PayloadFits(x)
  OBVIOUS
<1>2. ASSUME Pending(f)' = Pending(f), UNCHANGED payload, f \in fences' => f \in fences,
             Pending(f) # {} /\ Of(x) \in Threaded /\ Awaits(x) => Awaits(x)',
             call'.at = "payload" /\ call'.image = x => Of(x) \in Threaded \/ x \notin payload
      PROVE  PayloadFits(x)'
  <2>1. Once(f)'
    BY <1>1, <1>2 DEF PayloadFits, Once
  <2> QED
    BY <1>1, <1>2, <2>1 DEF PayloadFits, Of
<1>3. ASSUME NEW y \in Images, Acquire(y) PROVE PayloadFits(x)'
  <2>1. /\ life[y] = "free" /\ Of(y) \notin outOfDate
        /\ life' = [life EXCEPT ![y] = "held"]
        /\ UNCHANGED <<submitted, payload, fences, call, outOfDate>>
    BY <1>3 DEF Acquire, gpuVars
  <2>2. Awaits(x) => Awaits(x)'
    BY <1>0, <2>1 DEF Awaits, Of, CallFits, AtImage
  <2> QED
    BY <1>1, <1>2, <2>1, <2>2, PendingStays DEF PayloadFits
<1>4. ASSUME NEW y \in Images, TakeFence(y) PROVE PayloadFits(x)'
  <2>1. /\ fences' = fences \ {<<"app", y>>}
        /\ UNCHANGED <<submitted, payload, life, call, outOfDate>>
    BY <1>4 DEF TakeFence
  <2>2. Awaits(x) => Awaits(x)'
    BY <2>1 DEF Awaits, Of
  <2> QED
    BY <1>1, <1>2, <2>1, <2>2, PendingStays DEF PayloadFits
<1>5. ASSUME NEW y \in Images, Show(y) PROVE PayloadFits(x)'
  <2>1. /\ life[y] = "queued" /\ PayloadIsOver(y) /\ payload' = payload \ {y}
        /\ life' = [life EXCEPT ![y] = "free"]
        /\ UNCHANGED <<submitted, fences, call, outOfDate>>
    BY <1>5 DEF Show, gpuVars
  <2>2. Pending(f)' = Pending(f)
    BY <2>1, PendingStays
  <2>3. CASE y = x
    <3>1. Pending(f) = {}
      BY <1>1, <2>1, <2>3 DEF PayloadFits, PayloadIsOver
    <3> QED
      BY <1>1, <2>1, <2>2, <2>3, <3>1 DEF PayloadFits, Once
  <2>4. CASE y # x
    <3>1. Awaits(x) => Awaits(x)'
      BY <1>0, <2>1, <2>4 DEF Awaits, Of
    <3>2. x \in payload' <=> x \in payload
      BY <2>1, <2>4
    <3>3. Once(f)'
      BY <1>1, <2>2 DEF PayloadFits, Once
    <3> QED
      BY <1>1, <2>1, <2>2, <3>1, <3>2, <3>3 DEF PayloadFits, Of
  <2> QED
    BY <2>3, <2>4
<1>6. ASSUME NEW S \in Frames, Render(S) PROVE PayloadFits(x)'
  <2>1. /\ call.at = "none" /\ \A y \in S : life[y] = "held"
        /\ life' = [y \in Images |-> IF y \in S THEN "drawn" ELSE life[y]]
        /\ call' = [NoCall EXCEPT !.at = "drawn", !.todo = S, !.frame = Frame(S)]
        /\ UNCHANGED <<submitted, fences, payload, outOfDate>>
    BY <1>6 DEF Render
  <2>2. call'.at = "drawn"
    BY <2>1 DEF NoCall
  <2>3. Awaits(x) => Awaits(x)'
    BY <1>0, <2>1, <2>2 DEF Awaits, Of
  <2> QED
    BY <1>2, <2>1, <2>2, <2>3, PendingStays
<1>7. ASSUME NEW S \in Frames, FinishFrame(S) PROVE PayloadFits(x)'
  <2>1. UNCHANGED <<submitted, payload, life, call, outOfDate, fences>>
    BY <1>7 DEF FinishFrame, hostVars
  <2>2. Awaits(x) => Awaits(x)'
    BY <2>1 DEF Awaits, Of
  <2> QED
    BY <1>1, <1>2, <2>1, <2>2, PendingStays DEF PayloadFits
<1>8. ASSUME NEW t \in Swapchains, DescendantPresents(t) PROVE PayloadFits(x)'
  <2>1. UNCHANGED <<submitted, payload, life, call, fences>> /\ outOfDate' = outOfDate \cup {t}
    BY <1>8 DEF DescendantPresents, hostVars, gpuVars
  <2>2. Awaits(x) => Awaits(x)'
    BY <2>1 DEF Awaits, Of
  <2> QED
    BY <1>1, <1>2, <2>1, <2>2, PendingStays DEF PayloadFits
<1>9. ASSUME Execute PROVE PayloadFits(x)'
  <2>1. UNCHANGED <<payload, life, call, outOfDate>>
    BY <1>9 DEF Execute, hostVars
  <2>2. Awaits(x) => Awaits(x)'
    BY <2>1 DEF Awaits, Of
  <2>3. Once(f)' /\ (Pending(f)' # {} => Pending(f) # {} /\ f \notin fences')
    BY <1>0, <1>1, <1>9, PendingOfExecute DEF PayloadFits
  <2> QED
    BY <1>1, <2>1, <2>2, <2>3 DEF PayloadFits, Of
<1>10. ASSUME NEW F \in SUBSET Images, QueuePresent(F) PROVE PayloadFits(x)'
  <2>1. /\ UNCHANGED <<submitted, fences, payload, life, outOfDate>> /\ call.at = "drawn"
        /\ call' = [call EXCEPT !.at = IF Cardinality(call.todo) > 1 THEN "wait_request" ELSE "next",
                                !.shared = Cardinality(call.todo) > 1]
    BY <1>10 DEF QueuePresent, gpuVars
  <2>2. call'.at # "payload"
    BY <2>1 DEF CallFits
  <2>3. Awaits(x) => Awaits(x)'
    BY <2>1 DEF Awaits, Of
  <2> QED
    BY <1>2, <2>1, <2>2, <2>3, PendingStays
<1>11. ASSUME SubmitWaitRequest PROVE PayloadFits(x)'
  <2>1. /\ call.at = "wait_request" /\ UNCHANGED <<fences, outOfDate, payload>>
    BY <1>11 DEF SubmitWaitRequest, hostVars
  <2>2. CASE Submit(WaitRequest) /\ call' = [call EXCEPT !.at = "next"] /\ UNCHANGED hostVars
    <3>1. Pending(f)' = Pending(f)
      BY <1>0, <2>1, <2>2, WaitRequestIsBatch, FencesDiffer, PendingOfAppend
    <3>2. call'.at = "next"
      BY <2>2 DEF CallFits
    <3>3. Awaits(x) => Awaits(x)'
      BY <2>1, <2>2 DEF Awaits, Of, hostVars
    <3> QED
      BY <1>2, <2>1, <3>1, <3>2, <3>3
  <2>3. CASE call' = NoCall /\ UNCHANGED submitted /\ life' = GivesBack(call.todo)
    <3>1. call'.at = "none"
      BY <2>3 DEF NoCall
    <3>2. Awaits(x) => Awaits(x)'
      <4>1. ASSUME x \in call.todo PROVE life[x] = "drawn"
        BY <2>1, <4>1 DEF CallFits
      <4>2. x \notin call.todo => life'[x] = life[x]
        BY <1>0, <2>3 DEF GivesBack
      <4> QED
        BY <2>1, <4>1, <4>2 DEF Awaits, Of
    <3> QED
      BY <1>2, <2>1, <2>3, <3>1, <3>2, PendingStays
  <2> QED
    BY <1>11, <2>1, <2>2, <2>3 DEF SubmitWaitRequest, WaitRequest
<1>12. ASSUME NextSwapchain PROVE PayloadFits(x)'
  <2>1. call.at = "next" /\ UNCHANGED <<submitted, fences, payload, life, outOfDate>>
    BY <1>12 DEF NextSwapchain, gpuVars, hostVars
  <2>2. call'.at # "payload"
    <3>1. CASE call' = NoCall
      BY <3>1 DEF NoCall
    <3>2. CASE \E y \in call.todo :
                  call' = [call EXCEPT !.at = "mode", !.image = y, !.todo = call.todo \ {y}]
      BY <3>2 DEF CallFits
    <3> QED
      BY <1>12, <3>1, <3>2 DEF NextSwapchain
  <2>3. Awaits(x) => Awaits(x)'
    BY <2>1 DEF Awaits, Of
  <2> QED
    BY <1>2, <2>1, <2>2, <2>3, PendingStays
<1>13. ASSUME call.at \in AtImage, PresentFails, UNCHANGED outOfDate,
              Pending(f)' = Pending(f), f \in fences' => f \in fences,
              x # call.image => (x \in payload' <=> x \in payload)
       PROVE  PayloadFits(x)'
  <2>1. /\ life' = GivesBack({call.image}) /\ x # call.image
        /\ call' = [call EXCEPT !.at = "next"]
    BY <1>13 DEF PresentFails
  <2>2. life'[x] = life[x] /\ call'.at = "next"
    BY <1>0, <2>1 DEF GivesBack, CallFits
  <2>3. Awaits(x) => Awaits(x)'
    BY <1>13, <2>1, <2>2 DEF Awaits, Of
  <2>4. Once(f)'
    BY <1>1, <1>13 DEF PayloadFits, Once
  <2> QED
    BY <1>1, <1>13, <2>1, <2>2, <2>3, <2>4 DEF PayloadFits, Of
<1>14. ASSUME SwitchMode PROVE PayloadFits(x)'
  <2>1. call.at = "mode" /\ UNCHANGED <<submitted, fences, payload, outOfDate>>
    BY <1>14 DEF SwitchMode, gpuVars
  <2>2. CASE PresentFails
    BY <1>13, <2>1, <2>2, PendingStays DEF AtImage
  <2>3. CASE /\ call' = [call EXCEPT !.at = IF Of(call.image) \in Threaded THEN "payload" ELSE "sync"]
             /\ UNCHANGED life
    <3>1. call'.at = (IF Of(call.image) \in Threaded THEN "payload" ELSE "sync")
          /\ call'.image = call.image
      BY <2>3 DEF CallFits
    <3>2. Awaits(x) => Awaits(x)'
      BY <2>1, <2>3 DEF Awaits, Of
    <3> QED
      BY <1>2, <2>1, <3>1, <3>2, PendingStays
  <2> QED
    BY <1>14, <2>2, <2>3 DEF SwitchMode
<1>15. ASSUME Sync PROVE PayloadFits(x)'
  <2>1. call.at = "sync" /\ UNCHANGED <<submitted, fences, outOfDate>>
    BY <1>15 DEF Sync, gpuVars
  <2>2. CASE PresentFails /\ UNCHANGED payload
    BY <1>13, <2>1, <2>2, PendingStays DEF AtImage
  <2>3. CASE /\ PayloadIsOver(call.image) /\ payload' = payload \ {call.image}
             /\ call' = [call EXCEPT !.at = "payload"] /\ UNCHANGED life
    <3>1. call'.at = "payload" /\ call'.image = call.image
      BY <2>3 DEF CallFits
    <3>2. Awaits(x) => Awaits(x)'
      BY <2>1, <2>3 DEF Awaits, Of
    <3>3. x = call.image => Pending(f) = {}
      BY <1>1, <2>3 DEF PayloadFits, PayloadIsOver
    <3>4. Pending(f)' = Pending(f) /\ Once(f)'
      BY <1>1, <2>1, PendingStays DEF PayloadFits, Once
    <3> QED
      BY <1>1, <2>1, <2>3, <3>1, <3>2, <3>3, <3>4 DEF PayloadFits, Of
  <2> QED
    BY <1>15, <2>2, <2>3 DEF Sync
<1>16. ASSUME SetPayload PROVE PayloadFits(x)'
  <2>1. call.at = "payload" /\ UNCHANGED outOfDate
    BY <1>16 DEF SetPayload
  <2>2. CASE /\ PresentFails /\ UNCHANGED submitted
             /\ \/ UNCHANGED <<fences, payload>>
                \/ /\ fences' = fences \ {<<"payload", call.image>>}
                   /\ payload' = payload \ {call.image}
    <3>1. Pending(f)' = Pending(f) /\ (f \in fences' => f \in fences)
          /\ (x # call.image => (x \in payload' <=> x \in payload))
      BY <2>2, PendingStays
    <3> QED
      BY <1>13, <2>1, <2>2, <3>1 DEF AtImage
  <2>3. CASE /\ Submit(PayloadBatch)
             /\ fences' = fences \ {<<"payload", call.image>>}
             /\ payload' = payload \cup {call.image}
             /\ call' = [call EXCEPT !.at = IF appFence[call.image] = "given" THEN "fence"
                                            ELSE "notify"]
             /\ UNCHANGED life
    <3>1. call'.at \in {"fence", "notify"} /\ call'.image = call.image
      BY <2>3 DEF CallFits
    <3>2. PayloadBatch \in Batches /\ PayloadBatch.fence = <<"payload", call.image>>
      BY <2>1, PayloadIsBatch
    <3>3. CASE x # call.image
      <4>1. Pending(f)' = Pending(f)
        BY <1>0, <2>3, <3>2, <3>3, FencesDiffer, PendingOfAppend
      <4>2. Awaits(x) => Awaits(x)'
        BY <2>1, <2>3, <3>1, <3>3 DEF Awaits, Of
      <4>3. (x \in payload' <=> x \in payload) /\ (f \in fences' <=> f \in fences) /\ Once(f)'
        BY <1>1, <2>3, <3>3, <4>1 DEF PayloadFits, Once
      <4> QED
        BY <1>1, <3>1, <3>3, <4>1, <4>2, <4>3 DEF PayloadFits, Of
    <3>4. CASE x = call.image
      <4>1. life[x] = "drawn"
        BY <2>1, <3>4 DEF CallFits, AtImage
      <4>2. Pending(f) = {}
        BY <1>1, <2>1, <3>4, <4>1 DEF PayloadFits, Awaits
      <4>3. Pending(f)' = {Len(submitted) + 1}
        BY <1>0, <2>3, <3>2, <3>4, <4>2, PendingOfAppend
      <4>4. Once(f)' /\ x \in payload' /\ f \notin fences' /\ Awaits(x)'
        BY <2>3, <3>1, <3>4, <4>3 DEF Once, Awaits
      <4> QED
        BY <3>1, <4>4 DEF PayloadFits
    <3> QED
      BY <3>3, <3>4
  <2> QED
    BY <1>16, <2>2, <2>3 DEF SetPayload, PayloadBatch
<1>17. ASSUME ChainFence PROVE PayloadFits(x)'
  <2>1. call.at = "fence" /\ UNCHANGED <<fences, payload, outOfDate>>
    BY <1>17 DEF ChainFence
  <2>2. CASE PresentFails /\ UNCHANGED submitted
    BY <1>13, <2>1, <2>2, PendingStays DEF AtImage
  <2>3. CASE Submit(FenceBatch) /\ call' = [call EXCEPT !.at = "notify"] /\ UNCHANGED life
    <3>1. call'.at = "notify" /\ call'.image = call.image
      BY <2>3 DEF CallFits
    <3>2. Pending(f)' = Pending(f)
      BY <1>0, <2>1, <2>3, FenceIsBatch, FencesDiffer, PendingOfAppend
    <3>3. Awaits(x) => Awaits(x)'
      BY <2>1, <2>3, <3>1 DEF Awaits, Of
    <3> QED
      BY <1>2, <2>1, <3>1, <3>2, <3>3
  <2> QED
    BY <1>17, <2>2, <2>3 DEF ChainFence, FenceBatch
<1>18. ASSUME Notify PROVE PayloadFits(x)'
  <2>1. /\ call.at = "notify" /\ UNCHANGED <<submitted, fences, payload, outOfDate>>
        /\ call' = [call EXCEPT !.at = "next"]
        /\ life' = [life EXCEPT ![call.image] =
                       IF Of(call.image) \in Threaded /\ Of(call.image) \notin outOfDate
                       THEN "queued" ELSE "free"]
    BY <1>18 DEF Notify, gpuVars
  <2>2. call'.at = "next"
    BY <2>1 DEF CallFits
  <2>3. Of(x) \in Threaded /\ Awaits(x) => Awaits(x)'
    BY <1>0, <2>1, <2>2 DEF Awaits, Of
  <2> QED
    BY <1>2, <2>1, <2>2, <2>3, PendingStays
<1> QED
  BY <1>3, <1>4, <1>5, <1>6, <1>7, <1>8, <1>9, <1>10, <1>11, <1>12, <1>14, <1>15, <1>16, <1>17,
     <1>18 DEF Next, PresentCall

(* Every step keeps the application's fence unused until the call chains   *)
(* it, once.                                                               *)
LEMMA KeepAppFences ==
    ASSUME PresentShape, CallFits, Next, NEW x \in Images \ broken', AppFenceFits(x)
    PROVE  AppFenceFits(x)'
<1> DEFINE f == <<"app", x>>
<1>0. /\ x \in Images /\ SubmissionShape
      /\ appFence \in [Images -> {"idle", "given"}]
  BY DEF PresentShape
<1>1. AppFenceFits(x)
  OBVIOUS
<1>2. ASSUME Pending(f)' = Pending(f), f \in fences' => f \in fences,
             NotChained(x)' => NotChained(x),
             call'.at = "fence" /\ call'.image = x => appFence'[x] = "given"
      PROVE  AppFenceFits(x)'
  <2>1. Once(f)'
    BY <1>1, <1>2 DEF AppFenceFits, Once
  <2> QED
    BY <1>1, <1>2, <2>1 DEF AppFenceFits
<1>3. ASSUME UNCHANGED <<submitted, call, appFence>>, f \in fences' => f \in fences
      PROVE  AppFenceFits(x)'
  <2>1. NotChained(x)' => NotChained(x)
    BY <1>3 DEF NotChained
  <2> QED
    BY <1>1, <1>2, <1>3, <2>1, PendingStays DEF AppFenceFits
<1>4. ASSUME NEW y \in Images, Acquire(y) \/ Show(y) PROVE AppFenceFits(x)'
  BY <1>3, <1>4 DEF Acquire, Show, gpuVars
<1>5. ASSUME NEW y \in Images, TakeFence(y) PROVE AppFenceFits(x)'
  <2>1. /\ <<"app", y>> \in fences /\ fences' = fences \ {<<"app", y>>}
        /\ appFence' = [appFence EXCEPT ![y] = "idle"]
        /\ UNCHANGED <<submitted, call>>
    BY <1>5 DEF TakeFence
  <2>2. Pending(f)' = Pending(f) /\ Once(f)'
    BY <1>1, <2>1, PendingStays DEF AppFenceFits, Once
  <2>3. CASE x = y
    <3>1. Pending(f) = {} /\ f \notin fences' /\ ~(call.at = "fence" /\ x = call.image)
      BY <1>1, <2>1, <2>3 DEF AppFenceFits, NotChained, AtImage
    <3> QED
      BY <2>1, <2>2, <3>1 DEF AppFenceFits
  <2>4. CASE x # y
    <3>1. appFence'[x] = appFence[x]
      BY <1>0, <2>1, <2>4
    <3>2. NotChained(x)' => NotChained(x)
      BY <2>1, <3>1 DEF NotChained
    <3> QED
      BY <1>1, <1>2, <2>1, <2>2, <3>1, <3>2 DEF AppFenceFits
  <2> QED
    BY <2>3, <2>4
<1>6. ASSUME NEW S \in Frames, Render(S) PROVE AppFenceFits(x)'
  <2>1. /\ \A y \in S : appFence[y] = "idle"
        /\ call' = [NoCall EXCEPT !.at = "drawn", !.todo = S, !.frame = Frame(S)]
        /\ UNCHANGED <<submitted, fences, appFence>>
    BY <1>6 DEF Render
  <2>2. call'.at = "drawn" /\ call'.todo = S
    BY <2>1 DEF NoCall
  <2>3. NotChained(x)' => NotChained(x)
    BY <2>1, <2>2 DEF NotChained, AtImage
  <2> QED
    BY <1>2, <2>1, <2>2, <2>3, PendingStays
<1>7. ASSUME NEW S \in Frames, FinishFrame(S) PROVE AppFenceFits(x)'
  BY <1>3, <1>7 DEF FinishFrame, hostVars
<1>8. ASSUME NEW t \in Swapchains, DescendantPresents(t) PROVE AppFenceFits(x)'
  BY <1>3, <1>8 DEF DescendantPresents, hostVars, gpuVars
<1>9. ASSUME Execute PROVE AppFenceFits(x)'
  <2>1. UNCHANGED <<appFence, call>>
    BY <1>9 DEF Execute, hostVars
  <2>2. NotChained(x)' => NotChained(x)
    BY <2>1 DEF NotChained
  <2>3. /\ Once(f)' /\ (Pending(f)' # {} => Pending(f) # {} /\ f \notin fences')
        /\ (Pending(f) = {} /\ f \notin fences => f \notin fences')
    BY <1>0, <1>1, <1>9, PendingOfExecute, FencesDiffer DEF AppFenceFits
  <2> QED
    BY <1>1, <2>1, <2>2, <2>3 DEF AppFenceFits
<1>10. ASSUME NEW F \in SUBSET Images, QueuePresent(F) PROVE AppFenceFits(x)'
  <2>1. /\ UNCHANGED <<submitted, fences>> /\ call.at = "drawn" /\ F \subseteq call.todo
        /\ appFence' = [y \in Images |-> IF y \in F THEN "given" ELSE appFence[y]]
        /\ call' = [call EXCEPT !.at = IF Cardinality(call.todo) > 1 THEN "wait_request" ELSE "next",
                                !.shared = Cardinality(call.todo) > 1]
    BY <1>10 DEF QueuePresent, gpuVars
  <2>2. call'.at \in {"wait_request", "next"} /\ call'.todo = call.todo
    BY <2>1 DEF CallFits
  <2>3. NotChained(x)' => NotChained(x)
    BY <1>0, <2>1, <2>2 DEF NotChained, AtImage
  <2> QED
    BY <1>2, <2>1, <2>2, <2>3, PendingStays
<1>11. ASSUME SubmitWaitRequest PROVE AppFenceFits(x)'
  <2>1. /\ call.at = "wait_request" /\ UNCHANGED fences
    BY <1>11 DEF SubmitWaitRequest
  <2>2. CASE Submit(WaitRequest) /\ call' = [call EXCEPT !.at = "next"] /\ UNCHANGED appFence
    <3>1. Pending(f)' = Pending(f)
      BY <1>0, <2>1, <2>2, WaitRequestIsBatch, FencesDiffer, PendingOfAppend
    <3>2. call'.at = "next" /\ call'.todo = call.todo
      BY <2>2 DEF CallFits
    <3>3. NotChained(x)' => NotChained(x)
      BY <2>1, <2>2, <3>2 DEF NotChained, AtImage
    <3> QED
      BY <1>2, <2>1, <3>1, <3>2, <3>3
  <2>3. CASE call' = NoCall /\ UNCHANGED submitted /\ appFence' = Refuses(call.todo)
    <3>1. call'.at = "none"
      BY <2>3 DEF NoCall
    <3>2. x \notin call.todo => appFence'[x] = appFence[x]
      BY <1>0, <2>3 DEF Refuses
    <3>3. NotChained(x)' => NotChained(x)
      BY <2>1, <3>1, <3>2 DEF NotChained, AtImage
    <3> QED
      BY <1>2, <2>1, <2>3, <3>1, <3>3, PendingStays
  <2> QED
    BY <1>11, <2>1, <2>2, <2>3 DEF SubmitWaitRequest, WaitRequest, hostVars
<1>12. ASSUME NextSwapchain PROVE AppFenceFits(x)'
  <2>1. call.at = "next" /\ UNCHANGED <<submitted, fences, appFence>>
    BY <1>12 DEF NextSwapchain, gpuVars, hostVars
  <2>2. CASE call' = NoCall
    <3>1. call'.at = "none"
      BY <2>2 DEF NoCall
    <3>2. NotChained(x)' => NotChained(x)
      BY <2>1, <3>1 DEF NotChained, AtImage
    <3> QED
      BY <1>2, <2>1, <3>1, <3>2, PendingStays
  <2>3. ASSUME NEW y \in call.todo,
               call' = [call EXCEPT !.at = "mode", !.image = y, !.todo = call.todo \ {y}]
        PROVE  AppFenceFits(x)'
    <3>1. call'.at = "mode" /\ call'.todo = call.todo \ {y} /\ call'.image = y
      BY <2>3 DEF CallFits
    <3>2. NotChained(x)' => NotChained(x)
      BY <2>1, <3>1 DEF NotChained, AtImage
    <3> QED
      BY <1>2, <2>1, <3>1, <3>2, PendingStays
  <2> QED
    BY <1>12, <2>2, <2>3 DEF NextSwapchain
<1>13. ASSUME call.at \in AtImage, PresentFails, Pending(f)' = Pending(f),
              f \in fences' => f \in fences
       PROVE  AppFenceFits(x)'
  <2>1. /\ appFence' = Refuses({call.image}) /\ x # call.image
        /\ call' = [call EXCEPT !.at = "next"]
    BY <1>13 DEF PresentFails
  <2>2. appFence'[x] = appFence[x] /\ call'.at = "next" /\ call'.todo = call.todo
    BY <1>0, <2>1 DEF Refuses, CallFits
  <2>3. NotChained(x)' => NotChained(x)
    BY <1>13, <2>2 DEF NotChained, AtImage
  <2> QED
    BY <1>2, <1>13, <2>2, <2>3
<1>14. ASSUME SwitchMode \/ Sync PROVE AppFenceFits(x)'
  <2>1. call.at \in {"mode", "sync"} /\ UNCHANGED <<submitted, fences>>
    BY <1>14 DEF SwitchMode, Sync, gpuVars
  <2>2. CASE PresentFails
    BY <1>13, <2>1, <2>2, PendingStays DEF AtImage
  <2>3. CASE ~PresentFails
    <3>1. PICK to \in {"sync", "payload"} :
             call' = [call EXCEPT !.at = to] /\ UNCHANGED appFence
      BY <1>14, <2>3 DEF SwitchMode, Sync
    <3>2. call'.at = to /\ call'.todo = call.todo /\ call'.image = call.image
      BY <3>1, CallMoves
    <3>3. NotChained(x)' => NotChained(x)
      BY <2>1, <3>1, <3>2 DEF NotChained, AtImage
    <3> QED
      BY <1>2, <2>1, <3>2, <3>3, PendingStays
  <2> QED
    BY <2>2, <2>3
<1>15. ASSUME SetPayload PROVE AppFenceFits(x)'
  <2>1. call.at = "payload"
    BY <1>15 DEF SetPayload
  <2>2. CASE /\ PresentFails /\ UNCHANGED submitted
             /\ \/ UNCHANGED fences
                \/ fences' = fences \ {<<"payload", call.image>>}
    BY <1>13, <2>1, <2>2, PendingStays DEF AtImage
  <2>3. CASE /\ Submit(PayloadBatch)
             /\ fences' = fences \ {<<"payload", call.image>>}
             /\ call' = [call EXCEPT !.at = IF appFence[call.image] = "given" THEN "fence"
                                            ELSE "notify"]
             /\ UNCHANGED appFence
    <3>1. call'.at = (IF appFence[call.image] = "given" THEN "fence" ELSE "notify")
          /\ call'.image = call.image /\ call'.todo = call.todo
      BY <2>3 DEF CallFits
    <3>2. Pending(f)' = Pending(f)
      BY <1>0, <2>1, <2>3, PayloadIsBatch, FencesDiffer, PendingOfAppend
    <3>3. NotChained(x)' => NotChained(x)
      BY <2>1, <2>3, <3>1 DEF NotChained, AtImage
    <3> QED
      BY <1>2, <2>3, <3>1, <3>2, <3>3
  <2> QED
    BY <1>15, <2>2, <2>3 DEF SetPayload, PayloadBatch
<1>16. ASSUME ChainFence PROVE AppFenceFits(x)'
  <2>1. call.at = "fence" /\ UNCHANGED fences
    BY <1>16 DEF ChainFence
  <2>2. CASE PresentFails /\ UNCHANGED submitted
    BY <1>13, <2>1, <2>2, PendingStays DEF AtImage
  <2>3. CASE Submit(FenceBatch) /\ call' = [call EXCEPT !.at = "notify"] /\ UNCHANGED appFence
    <3>1. call'.at = "notify" /\ call'.image = call.image /\ call'.todo = call.todo
      BY <2>3 DEF CallFits
    <3>2. FenceBatch \in Batches /\ FenceBatch.fence = <<"app", call.image>>
      BY <2>1, FenceIsBatch
    <3>3. CASE x # call.image
      <4>1. Pending(f)' = Pending(f)
        BY <1>0, <2>3, <3>2, <3>3, FencesDiffer, PendingOfAppend
      <4>2. NotChained(x)' => NotChained(x)
        BY <2>1, <2>3, <3>1, <3>3 DEF NotChained, AtImage
      <4> QED
        BY <1>2, <2>1, <3>1, <4>1, <4>2
    <3>4. CASE x = call.image
      <4>1. Pending(f) = {} /\ f \notin fences /\ appFence[x] = "given" /\ x \notin call.todo
        BY <1>1, <2>1, <3>4 DEF AppFenceFits, NotChained, AtImage, CallFits
      <4>2. Pending(f)' = {Len(submitted) + 1}
        BY <1>0, <2>3, <3>2, <3>4, <4>1, PendingOfAppend
      <4>3. ~NotChained(x)'
        BY <2>3, <3>1, <4>1 DEF NotChained
      <4> QED
        BY <2>1, <3>1, <4>1, <4>2, <4>3 DEF AppFenceFits, Once
    <3> QED
      BY <3>3, <3>4
  <2> QED
    BY <1>16, <2>2, <2>3 DEF ChainFence, FenceBatch
<1>17. ASSUME Notify PROVE AppFenceFits(x)'
  <2>1. /\ call.at = "notify" /\ UNCHANGED <<submitted, fences, appFence>>
        /\ call' = [call EXCEPT !.at = "next"]
    BY <1>17 DEF Notify, gpuVars
  <2>2. call'.at = "next" /\ call'.todo = call.todo
    BY <2>1 DEF CallFits
  <2>3. NotChained(x)' => NotChained(x)
    BY <2>1, <2>2 DEF NotChained, AtImage
  <2> QED
    BY <1>2, <2>1, <2>2, <2>3, PendingStays
<1> QED
  BY <1>4, <1>5, <1>6, <1>7, <1>8, <1>9, <1>10, <1>11, <1>12, <1>14, <1>15, <1>16, <1>17
     DEF Next, PresentCall
-----------------------------------------------------------------------------
(* All of it.                                                              *)

(* The invariant holds at first.                                           *)
LEMMA PresentStarts == Init => PresentInv
<1> SUFFICES ASSUME Init PROVE PresentInv
  OBVIOUS
<1>1. /\ submitted = <<>> /\ Len(submitted) = 0 /\ signalled = {} /\ fences = {} /\ rendering = {}
      /\ payload = {} /\ call.at = "none"
  BY DEF Init, NoCall
<1>2. PresentShape
  <2>1. submitted \in Seq(Batches)
    BY <1>1, EmptySeq
  <2> QED
    BY <1>1, <2>1 DEF Init, PresentShape, SubmissionShape
<1>3. CallFits
  BY DEF Init, NoCall, CallFits, Stages, AtImage
<1>4. ASSUME NEW x \in Images PROVE UsesFit(x)
  <2>1. \A f : Pending(f) = {}
    BY <1>1 DEF Pending
  <2>2. \A s : Signals(s) = {} /\ Waits(s) = {}
    BY <1>1 DEF Signals, Waits
  <2>3. \A s : ~Promised(s)
    BY <1>1 DEF Promised, AtImage
  <2>4. \A s : SemaphoreFits(s)
    <3> TAKE s
    <3>1. {S \in rendering : s = <<"render", Frame(S)>>} = {}
      BY <1>1
    <3>2. Cardinality({}) = 0
      BY FS_EmptySet
    <3>3. /\ Cardinality(Signals(s)) = 0 /\ Cardinality(Waits(s)) = 0
          /\ Cardinality({S \in rendering : s = <<"render", Frame(S)>>}) = 0
          /\ s \notin signalled
      BY <1>1, <2>2, <3>1, <3>2
    <3>4. Left(s) = 0
      BY <3>3 DEF Left
    <3> QED
      BY <1>1, <2>2, <2>3, <3>3, <3>4 DEF SemaphoreFits, SignalsApart, Settled, Balance
  <2>5. FrameFits(x)
    BY <1>1 DEF FrameFits
  <2>6. PayloadFits(x)
    BY <1>1, <2>1 DEF PayloadFits, Once
  <2>7. AppFenceFits(x)
    BY <1>1, <2>1 DEF AppFenceFits, Once
  <2> QED
    BY <2>4, <2>5, <2>6, <2>7 DEF UsesFit
<1> QED
  BY <1>2, <1>3, <1>4 DEF PresentInv

(* Nothing is mended that a failure broke.                                 *)
LEMMA BrokenStays == ASSUME Next PROVE broken \subseteq broken'
<1>1. ASSUME NEW x \in Images, Acquire(x) \/ TakeFence(x) \/ Show(x) PROVE broken \subseteq broken'
  BY <1>1 DEF Acquire, TakeFence, Show
<1>2. ASSUME NEW S \in Frames, Render(S) \/ FinishFrame(S) PROVE broken \subseteq broken'
  BY <1>2 DEF Render, FinishFrame
<1>3. ASSUME NEW s \in Swapchains, DescendantPresents(s) PROVE broken \subseteq broken'
  BY <1>3 DEF DescendantPresents
<1>4. ASSUME NEW F \in SUBSET Images, QueuePresent(F) PROVE broken \subseteq broken'
  BY <1>4 DEF QueuePresent
<1>5. ASSUME \/ Execute \/ SubmitWaitRequest \/ NextSwapchain \/ SwitchMode \/ Sync
             \/ SetPayload \/ ChainFence \/ Notify
      PROVE  broken \subseteq broken'
  BY <1>5 DEF Execute, SubmitWaitRequest, NextSwapchain, SwitchMode, Sync, SetPayload,
              ChainFence, Notify, PresentFails
<1> QED
  BY <1>1, <1>2, <1>3, <1>4, <1>5 DEF Next, PresentCall

(* Every step keeps it.                                                    *)
LEMMA PresentSteps == PresentInv /\ [Next]_vars => PresentInv'
<1> SUFFICES ASSUME PresentInv, [Next]_vars PROVE PresentInv'
  OBVIOUS
<1>1. CASE Next
  <2>1. PresentShape' /\ CallFits'
    BY <1>1, KeepShape, KeepCall DEF PresentInv
  <2>2. ASSUME NEW x \in Images \ broken' PROVE UsesFit(x)'
    <3>1. x \in Images \ broken
      BY <1>1, BrokenStays
    <3>2. UsesFit(x) /\ PresentShape /\ CallFits
      BY <3>1 DEF PresentInv
    <3>3. ASSUME NEW kind \in Kinds PROVE SemaphoreFits(<<kind, x>>)'
      BY <1>1, <3>2, KeepSemaphores DEF UsesFit
    <3>4. FrameFits(x)'
      BY <1>1, <3>2, KeepFrames DEF UsesFit, Kinds
    <3>5. PayloadFits(x)' /\ AppFenceFits(x)'
      BY <1>1, <3>2, KeepPayloads, KeepAppFences DEF UsesFit
    <3> QED
      BY <3>3, <3>4, <3>5 DEF UsesFit, Kinds
  <2> QED
    BY <2>1, <2>2 DEF PresentInv, Images
<1>2. CASE UNCHANGED vars
  <2>1. UNCHANGED <<life, rendering, submitted, signalled, fences, payload, appFence, outOfDate,
                    call, broken>>
    BY <1>2 DEF vars, gpuVars, hostVars
  <2>2. PresentShape /\ CallFits /\ SubmissionShape
    BY DEF PresentInv, PresentShape
  <2>3. SubmissionShape' /\ CallFits'
    BY <2>1, <2>2, QueueStays, CallStays
  <2>4. PresentShape'
    BY <2>1, <2>2, <2>3 DEF PresentShape
  <2>5. ASSUME NEW x \in Images \ broken PROVE UsesFit(x)'
    <3>1. UsesFit(x)
      BY DEF PresentInv
    <3>2. ASSUME NEW kind \in Kinds PROVE SemaphoreFits(<<kind, x>>)'
      BY <2>1, <3>1, PromiseStays, SemaphoreStays DEF UsesFit
    <3>3. Pending(<<"payload", x>>)' = Pending(<<"payload", x>>)
          /\ Pending(<<"app", x>>)' = Pending(<<"app", x>>)
      BY <2>1, PendingStays
    <3>4. FrameFits(x)'
      BY <2>1, <3>1 DEF UsesFit, FrameFits
    <3>5. PayloadFits(x)'
      BY <2>1, <3>1, <3>3 DEF UsesFit, PayloadFits, Awaits, Once, Of
    <3>6. AppFenceFits(x)'
      BY <2>1, <3>1, <3>3 DEF UsesFit, AppFenceFits, NotChained, Once
    <3> QED
      BY <3>2, <3>4, <3>5, <3>6 DEF UsesFit, Kinds
  <2> QED
    BY <2>1, <2>3, <2>4, <2>5 DEF PresentInv, Images
<1> QED
  BY <1>1, <1>2

(* One submission at a time means at most one.                             *)
LEMMA OnceIsOne ==
    ASSUME SubmissionShape, NEW f, Once(f)
    PROVE  Cardinality(Pending(f)) =< 1
<1>1. CASE Pending(f) = {}
  BY <1>1, FS_EmptySet
<1>2. ASSUME NEW k \in Pending(f) PROVE Cardinality(Pending(f)) =< 1
  <2>1. Pending(f) = {k}
    BY <1>2 DEF Once
  <2> QED
    BY <2>1, FS_Singleton
<1> QED
  BY <1>1, <1>2

(* A binary semaphore is signalled when no signal of it is left and waited *)
(* for when one is, and a fence is submitted once at a time, whatever the  *)
(* calls, the GPU and the page flip threads do: for any swapchains, images *)
(* and failures, but of images a present has failed for.                   *)
THEOREM SubmissionsAreSound == Spec => []SubmissionsAreValid
<1>1. PresentInv => SubmissionsAreValid
  <2> SUFFICES ASSUME PresentInv, NEW x \in Images \ broken
               PROVE  /\ \A kind \in Kinds :
                            Left(<<kind, x>>) - Cardinality(Waits(<<kind, x>>)) \in {0, 1}
                      /\ Cardinality(Pending(<<"payload", x>>)) =< 1
                      /\ Cardinality(Pending(<<"app", x>>)) =< 1
    BY DEF SubmissionsAreValid, Kinds
  <2>1. UsesFit(x) /\ SubmissionShape
    BY DEF PresentInv, PresentShape
  <2>2. ASSUME NEW kind \in Kinds
        PROVE  Left(<<kind, x>>) - Cardinality(Waits(<<kind, x>>)) \in {0, 1}
    BY <2>1 DEF UsesFit, SemaphoreFits, Balance
  <2> QED
    BY <2>1, <2>2, OnceIsOne DEF UsesFit, PayloadFits, AppFenceFits
<1> QED
  BY <1>1, PresentStarts, PresentSteps, PTL DEF Spec
=============================================================================
