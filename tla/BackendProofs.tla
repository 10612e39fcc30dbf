---------------------------- MODULE BackendProofs ----------------------------
(***************************************************************************)
(* Who has the images of a swapchain on Wayland and on X11, for any number *)
(* of them, whatever fails and with a descendant that waits for them: the  *)
(* compositor and the X server never read what the application may be      *)
(* writing, an image goes out finished, units of the free image semaphore  *)
(* are images, and a shared memory segment is not written while it is      *)
(* read.  The wait for an ancestor is that of SwapchainHandoff: created    *)
(* with one, these two swapchains go no further than their first present.  *)
(*                                                                         *)
(* The first part is about swapchain_base under either backend: what its   *)
(* steps do to the images it has, and that they touch no image K the       *)
(* backend has given away.                                                 *)
(***************************************************************************)
EXTENDS WaylandSwapchain, X11Swapchain, FiniteSetTheorems, TLAPS

(* Where a thread waits for a free image, and where it has an image to     *)
(* show: between its queue and the backend.                                *)
Waits == {"try", "backend", "wait", "poll", "dispatch", "release_done", "second_wait",
          "scan", "scan_post", "cond"}
Parting == {"post", "lag", "lag_post"}
Requesting == {"sync", "submit", "notify"}
Acquires == {"check", "select", "signal"}
Leaves == {"teardown", "await_heir", "drain", "queue_idle", "join", "dead",
           "stop_events", "join_events", "stopping"}
Flushes == {"flush", "flush_post"}

AppPlaces == {"idle", "release", "release_post", "deprecate"}
             \union Waits \union Acquires \union Requesting \union Shown \union Parting \union Leaves
FlipPlaces == {"top", "exited", "pop", "abandon"} \union Shown \union Parting
HeirPlaces == {"idle", "drained", "done"} \union Waits

(* Where the threads are: a wait that counts is a drain, one that does not *)
(* is that of an acquire;                                                  *)
Places ==
    /\ pc["app"] \in AppPlaces /\ pc["flip"] \in FlipPlaces /\ pc["heir"] \in HeirPlaces
    /\ pc["heir"] \in Waits => left["heir"] > 0
    /\ pc["app"] \notin Waits => left["app"] = 0
    /\ pc["app"] \in Waits => task = IF left["app"] = 0 THEN "acquire" ELSE "destroy"
    /\ pc["app"] \in Acquires => task = "acquire"
    /\ pc["app"] \in {"release", "release_post"} <=> task = "release"
    /\ pc["app"] = "idle" <=> task = "none"
    /\ pc["app"] = "deprecate" => task = "deprecate" /\ retired
    /\ pc["app"] \in Requesting \union Parting \union (Shown \ Flushes) => task = "present"
    /\ pc["app"] \in Flushes => task \in {"present", "destroy"}
    /\ pc["app"] \in Leaves => task = "destroy"
    /\ descendant # "none" => retired
    /\ pc["heir"] # "idle" => retired

(* ... there is a page flip thread in FIFO, and then the application never *)
(* presents itself;                                                        *)
OnePresenter ==
    /\ presentMode \in {"FIFO", "MAILBOX"}
    /\ pc["app"] \notin {"join", "dead"} => threadRun = UseThread
    /\ ~UseThread => pc["flip"] = "exited" /\ pool = <<>>
    /\ pc["app"] \in Shown \union Parting /\ task = "present" => ~UseThread
    /\ pc["app"] = "dead" => pc["flip"] = "exited"
    /\ pc["flip"] = "abandon" => error

(* ... who works on an image has one;                                      *)
HaveImages ==
    /\ pc["app"] = "signal" => image["app"] # NoImage
    /\ pc["app"] \in Shown /\ task = "present" => image["app"] # NoImage
    /\ pc["flip"] \in Shown \union {"abandon"} => image["flip"] # NoImage
    /\ pc["app"] \in Requesting => image["app"] \in held

(* ... the images queued, about to be shown, about to be acquired, held and *)
(* being released are told apart by their status;                          *)
Dead == pc["app"] = "dead"
FlipImage == IF pc["flip"] \in Shown THEN image["flip"] ELSE NoImage
AppImage == IF pc["app"] \in Shown /\ task = "present" THEN image["app"] ELSE NoImage
Acquiring == IF pc["app"] = "signal" THEN image["app"] ELSE NoImage
Returning == IF task = "release" THEN todo ELSE {}

PoolPends == \A k \in 1 .. Len(pool) : status[pool[k]] = "PENDING"
PoolDiffers == \A j, k \in 1 .. Len(pool) : j # k => pool[j] # pool[k]
FlipShows == FlipImage # NoImage =>
    status[FlipImage] = "PENDING" /\ \A k \in 1 .. Len(pool) : pool[k] # FlipImage
AppShows == AppImage # NoImage => status[AppImage] = "PENDING"
AcquiringHas == Acquiring # NoImage => status[Acquiring] = "ACQUIRED" /\ Acquiring \notin held
HeldAcquired == \A i \in held : status[i] = "ACQUIRED"
ReturningAcquired == \A i \in Returning : status[i] = "ACQUIRED" /\ i \notin held
Owned == ~Dead =>
    PoolPends /\ PoolDiffers /\ FlipShows /\ AppShows /\ AcquiringHas /\ HeldAcquired /\ ReturningAcquired

(* ... and the images K the backend has given away are PENDING and nowhere *)
(* else.                                                                   *)
Apart(K) ==
    /\ ~Dead => \A i \in K : /\ status[i] = "PENDING"
                             /\ i # FlipImage /\ i # AppImage
                             /\ \A k \in 1 .. Len(pool) : pool[k] # i
    /\ \A i \in K : i \notin held

Common == TypeOK /\ Places /\ OnePresenter /\ HaveImages /\ Owned

(* The steps of swapchain_base that both backends take. *)
BaseStep ==
    \/ \E tm \in Timeouts : Acquire(tm)
    \/ \E i \in Images : QueuePresent(i)
    \/ \E S \in SUBSET Images : ReleaseImages(S)
    \/ \E i \in Images : GpuFinishes(i)
    \/ Deprecate
    \/ \E entry \in {"teardown", "stop_events"} : Destroy(entry)
    \/ \E t \in {"app", "heir"} : TakeUnit(t)
    \/ \E t \in {"app", "heir"} : AskBackend(t)
    \/ \E t \in {"app", "heir"} : WaitFails(t)
    \/ CheckError
    \/ SelectImage
    \/ SelectFails
    \/ SignalAcquired
    \/ SyncBeforePresent
    \/ SubmitPayload
    \/ NotifyOutOfDate
    \/ NotifyThread
    \/ NotifyInline
    \/ \E t \in {"app", "flip"} : CallPresent(t)
    \/ ReleaseOne
    \/ ReleasePosts
    \/ DeprecateImage
    \/ SetDescendant
    \/ Teardown
    \/ AwaitHeir
    \/ DrainForTeardown
    \/ StopFlipThread
    \/ DestroyImages
    \/ FlipTakesUnit
    \/ FlipExits
    \/ FlipPops
    \/ FlipFence
    \/ FlipAbandons
    \/ HeirDrains
    \/ HeirPresents
    \/ DescendantNotifies

view == <<status, pool, held, FlipImage, AppImage, Acquiring, Returning, Dead>>
LoudStep ==
    \/ SelectImage \/ SelectFails \/ SignalAcquired
    \/ NotifyOutOfDate \/ NotifyThread \/ NotifyInline
    \/ FlipPops \/ FlipFence
    \/ \E S \in SUBSET Images : ReleaseImages(S)
    \/ ReleaseOne \/ DeprecateImage \/ DestroyImages

-----------------------------------------------------------------------------
(* Images and numbers. *)
LEMMA ImagesFinite == IsFiniteSet(Images) /\ Cardinality(Images) = NumImages /\ 0 \in Images
<1>1. NumImages \in Nat \ {0}
  BY SwapchainAssumption
<1> QED BY <1>1, FS_Interval DEF Images

(* A set of images is finite. *)
LEMMA CountOfImages ==
    ASSUME NEW S \in SUBSET Images
    PROVE  IsFiniteSet(S) /\ Cardinality(S) \in Nat /\ Cardinality(S) =< NumImages
BY ImagesFinite, FS_Subset, FS_CardinalityType

(* The search for an image stays inside the swapchain. *)
LEMMA RoundRobinStays ==
    ASSUME hint \in Images, NEW k \in Images
    PROVE  RoundRobin(k) \in Images /\ (RoundRobin(k) + 1) % ImageCount \in Images
<1>1. ImageCount \in Nat \ {0} /\ ImageCount =< NumImages
  BY SwapchainAssumption DEF ImageCount
<1>2. \A n \in Nat : n % ImageCount \in 0 .. ImageCount - 1
  BY <1>1
<1> QED BY <1>1, <1>2, SwapchainAssumption DEF Images, RoundRobin

(* A driver call that fails is counted. *)
LEMMA MayFailCounts ==
    ASSUME NEW kind, MayFail(kind), failures \in [count : Nat, acquire : BOOLEAN]
    PROVE  failures' \in [count : Nat, acquire : BOOLEAN]
<1>1. (failures.acquire \/ kind \in {"memory", "import"}) \in BOOLEAN
  OBVIOUS
<1> QED BY <1>1 DEF MayFail

(* No image is called NoImage. *)
LEMMA NoImageIsNone == \A i \in Images : i # NoImage
BY SwapchainAssumption DEF Images, NoImage

-----------------------------------------------------------------------------
(* Every step of the base keeps the types. *)
LEMMA TypeStep ==
    ASSUME Common, BaseStep
    PROVE  TypeOK'
<1> USE DEF TypeOK, imageVars, queueVars, presentVars, lockVars, lifeVars, threadVars, callVars,
            Goto, Return, EndAcquire, EndPresent, Threads, Timeouts, Tasks, Results
<1>a. TypeOK /\ HaveImages
  BY DEF Common
<1>1. ASSUME NEW tm \in Timeouts, Acquire(tm) PROVE TypeOK'
  BY <1>1, <1>a DEF Acquire
<1>2. ASSUME NEW i \in Images, QueuePresent(i) PROVE TypeOK'
  BY <1>2, <1>a DEF QueuePresent
<1>3. ASSUME NEW S \in SUBSET Images, ReleaseImages(S) PROVE TypeOK'
  BY <1>3, <1>a DEF ReleaseImages
<1>4. ASSUME NEW i \in Images, GpuFinishes(i) PROVE TypeOK'
  BY <1>4, <1>a DEF GpuFinishes
<1>5. ASSUME Deprecate PROVE TypeOK'
  BY <1>5, <1>a DEF Deprecate
<1>6. ASSUME NEW entry \in {"teardown", "stop_events"}, Destroy(entry) PROVE TypeOK'
  BY <1>6, <1>a DEF Destroy
<1>7. ASSUME NEW t \in {"app", "heir"}, TakeUnit(t) PROVE TypeOK'
  BY <1>7, <1>a DEF TakeUnit, WaitReturns, DrainedLabel
<1>8. ASSUME NEW t \in {"app", "heir"}, AskBackend(t) PROVE TypeOK'
  BY <1>8, <1>a DEF AskBackend
<1>9. ASSUME NEW t \in {"app", "heir"}, WaitFails(t) PROVE TypeOK'
  BY <1>9, <1>a DEF WaitFails, WaitReturns, DrainedLabel
<1>10. ASSUME CheckError PROVE TypeOK'
  BY <1>10, <1>a DEF CheckError
<1>11. ASSUME SelectImage PROVE TypeOK'
  <2>1. PICK k \in Images : /\ status' = [status EXCEPT ![RoundRobin(k)] = "ACQUIRED"]
                            /\ image' = [image EXCEPT !["app"] = RoundRobin(k)]
                            /\ hint' = (RoundRobin(k) + 1) % ImageCount
    BY <1>11 DEF SelectImage
  <2> QED BY <1>11, <1>a, <2>1, RoundRobinStays DEF SelectImage, Statuses
<1>12. ASSUME SelectFails PROVE TypeOK'
  <2>1. status' \in [Images -> Statuses]
    BY <1>12, <1>a DEF SelectFails, Statuses
  <2> QED BY <1>12, <1>a, <2>1, MayFailCounts DEF SelectFails
<1>13. ASSUME SignalAcquired PROVE TypeOK'
  <2>1. image["app"] \in Images
    BY <1>13, <1>a DEF SignalAcquired, HaveImages
  <2> QED BY <1>13, <1>a, <2>1, MayFailCounts DEF SignalAcquired
<1>14. ASSUME SyncBeforePresent PROVE TypeOK'
  BY <1>14, <1>a, MayFailCounts DEF SyncBeforePresent
<1>15. ASSUME SubmitPayload PROVE TypeOK'
  <2>1. image["app"] \in Images
    BY <1>15, <1>a DEF SubmitPayload, HaveImages, Requesting
  <2>2. payload' \in [Images -> BOOLEAN]
    BY <1>15, <1>a, <2>1 DEF SubmitPayload
  <2> QED BY <1>15, <1>a, <2>2, MayFailCounts DEF SubmitPayload
<1>16. ASSUME NotifyOutOfDate PROVE TypeOK'
  <2>1. status' \in [Images -> Statuses] /\ held' \subseteq Images
    BY <1>16, <1>a DEF NotifyOutOfDate, Statuses
  <2> QED BY <1>16, <1>a, <2>1 DEF NotifyOutOfDate
<1>17. ASSUME NotifyThread PROVE TypeOK'
  <2>1. image["app"] \in Images
    BY <1>17, <1>a DEF NotifyThread, HaveImages, Requesting
  <2> QED BY <1>17, <1>a, <2>1 DEF NotifyThread, GivenAway, Statuses
<1>18. ASSUME NotifyInline PROVE TypeOK'
  <2>1. status' \in [Images -> Statuses] /\ held' \subseteq Images
    BY <1>18, <1>a DEF NotifyInline, GivenAway, Statuses
  <2> QED BY <1>18, <1>a, <2>1 DEF NotifyInline
<1>19. ASSUME NEW t \in {"app", "flip"}, CallPresent(t) PROVE TypeOK'
  BY <1>19, <1>a DEF CallPresent
<1>20. ASSUME ReleaseOne PROVE TypeOK'
  BY <1>20, <1>a DEF ReleaseOne, ReleaseStatus, Shared, Statuses
<1>21. ASSUME ReleasePosts PROVE TypeOK'
  BY <1>21, <1>a DEF ReleasePosts, PostFree, Shared
<1>22. ASSUME DeprecateImage PROVE TypeOK'
  BY <1>22, <1>a DEF DeprecateImage, Statuses
<1>23. ASSUME SetDescendant PROVE TypeOK'
  BY <1>23, <1>a DEF SetDescendant
<1>24. ASSUME Teardown PROVE TypeOK'
  BY <1>24, <1>a DEF Teardown
<1>25. ASSUME AwaitHeir PROVE TypeOK'
  BY <1>25, <1>a DEF AwaitHeir
<1>26. ASSUME DrainForTeardown PROVE TypeOK'
  BY <1>26, <1>a, CountOfImages, SwapchainAssumption DEF DrainForTeardown, StartDrain, DrainedLabel, ImageCount
<1>27. ASSUME StopFlipThread PROVE TypeOK'
  <2>1. threadRun' \in BOOLEAN /\ DOMAIN pc' = Threads
    BY <1>27, <1>a DEF StopFlipThread
  <2>2. UNCHANGED <<status, payload, hint, freeSem, queueVars, error, presentVars, lockVars, presentMode,
                    ancestor, descendant, retired, heirSem, held, failures, image, timeout, left, callVars>>
    BY <1>27 DEF StopFlipThread
  <2> QED BY <1>a, <2>1, <2>2
<1>28. ASSUME DestroyImages PROVE TypeOK'
  <2>1. status' \in [Images -> Statuses]
    BY <1>28 DEF DestroyImages, Statuses
  <2>2. UNCHANGED <<payload, hint, freeSem, queueVars, error, presentVars, lockVars, presentMode, threadRun,
                    retired, heirSem, held, failures, image, timeout, left, callVars>>
        /\ descendant' = "none" /\ ancestor' \in BOOLEAN /\ DOMAIN pc' = Threads
    BY <1>28, <1>a DEF DestroyImages
  <2> QED BY <1>a, <2>1, <2>2
<1>29. ASSUME FlipTakesUnit PROVE TypeOK'
  BY <1>29, <1>a, ImagesFinite DEF FlipTakesUnit, Continuous
<1>30. ASSUME FlipExits PROVE TypeOK'
  BY <1>30, <1>a DEF FlipExits
<1>31. ASSUME FlipPops PROVE TypeOK'
  <2>1. Head(pool) \in Images /\ Tail(pool) \in Seq(Images)
    BY <1>31, <1>a DEF FlipPops
  <2> QED BY <1>31, <1>a, <2>1 DEF FlipPops
<1>32. ASSUME FlipFence PROVE TypeOK'
  <2>1. error' \in BOOLEAN /\ failures' \in [count : Nat, acquire : BOOLEAN] /\ DOMAIN pc' = Threads
    BY <1>32, <1>a, MayFailCounts DEF FlipFence
  <2> QED BY <1>32, <1>a, <2>1 DEF FlipFence
<1>33. ASSUME FlipAbandons PROVE TypeOK'
  BY <1>33, <1>a DEF FlipAbandons
<1>34. ASSUME HeirDrains PROVE TypeOK'
  BY <1>34, <1>a, CountOfImages, SwapchainAssumption DEF HeirDrains, StartDrain, DrainedLabel, ImageCount
<1>35. ASSUME HeirPresents PROVE TypeOK'
  BY <1>35, <1>a DEF HeirPresents
<1>36. ASSUME DescendantNotifies PROVE TypeOK'
  BY <1>36, <1>a DEF DescendantNotifies
<1> QED
  BY <1>1, <1>2, <1>3, <1>4, <1>5, <1>6, <1>7, <1>8, <1>9, <1>10, <1>11, <1>12, <1>13, <1>14, <1>15, <1>16, <1>17, <1>18, <1>19, <1>20, <1>21, <1>22, <1>23, <1>24, <1>25, <1>26, <1>27, <1>28, <1>29, <1>30, <1>31, <1>32, <1>33, <1>34, <1>35, <1>36 DEF BaseStep

(* Every step of the base goes where the code goes. *)
LEMMA PlacesStep ==
    ASSUME Common, BaseStep
    PROVE  Places'
<1> USE DEF TypeOK, Places, OnePresenter, imageVars, queueVars, presentVars, lockVars, lifeVars, threadVars, callVars,
            Goto, Return, EndAcquire, EndPresent, Threads,
            Waits, Shown, Parting, Requesting, Acquires, Leaves, Flushes, AppPlaces, FlipPlaces, HeirPlaces
<1>a. TypeOK /\ Places /\ OnePresenter
  BY DEF Common
<1>1. ASSUME NEW tm \in Timeouts, Acquire(tm) PROVE Places'
  BY <1>1, <1>a DEF Acquire
<1>2. ASSUME NEW i \in Images, QueuePresent(i) PROVE Places'
  BY <1>2, <1>a DEF QueuePresent
<1>3. ASSUME NEW S \in SUBSET Images, ReleaseImages(S) PROVE Places'
  BY <1>3, <1>a DEF ReleaseImages
<1>4. ASSUME NEW i \in Images, GpuFinishes(i) PROVE Places'
  BY <1>4, <1>a DEF GpuFinishes
<1>5. ASSUME Deprecate PROVE Places'
  BY <1>5, <1>a DEF Deprecate
<1>6. ASSUME NEW entry \in {"teardown", "stop_events"}, Destroy(entry) PROVE Places'
  BY <1>6, <1>a DEF Destroy
<1>7. ASSUME NEW t \in {"app", "heir"}, TakeUnit(t) PROVE Places'
  <2>1. CASE t = "app"
    BY <1>7, <1>a, <2>1 DEF TakeUnit, WaitReturns, DrainedLabel
  <2>2. CASE t = "heir"
    BY <1>7, <1>a, <2>2 DEF TakeUnit, WaitReturns, DrainedLabel
  <2> QED BY <1>7, <2>1, <2>2
<1>8. ASSUME NEW t \in {"app", "heir"}, AskBackend(t) PROVE Places'
  BY <1>8, <1>a DEF AskBackend
<1>9. ASSUME NEW t \in {"app", "heir"}, WaitFails(t) PROVE Places'
  <2>1. CASE t = "app"
    BY <1>9, <1>a, <2>1 DEF WaitFails, WaitReturns, DrainedLabel
  <2>2. CASE t = "heir"
    BY <1>9, <1>a, <2>2 DEF WaitFails, WaitReturns, DrainedLabel
  <2> QED BY <1>9, <2>1, <2>2
<1>10. ASSUME CheckError PROVE Places'
  BY <1>10, <1>a DEF CheckError
<1>11. ASSUME SelectImage PROVE Places'
  BY <1>11, <1>a DEF SelectImage
<1>12. ASSUME SelectFails PROVE Places'
  BY <1>12, <1>a DEF SelectFails
<1>13. ASSUME SignalAcquired PROVE Places'
  BY <1>13, <1>a DEF SignalAcquired
<1>14. ASSUME SyncBeforePresent PROVE Places'
  BY <1>14, <1>a DEF SyncBeforePresent
<1>15. ASSUME SubmitPayload PROVE Places'
  BY <1>15, <1>a DEF SubmitPayload
<1>16. ASSUME NotifyOutOfDate PROVE Places'
  BY <1>16, <1>a DEF NotifyOutOfDate
<1>17. ASSUME NotifyThread PROVE Places'
  BY <1>17, <1>a DEF NotifyThread, GivenAway, Shared
<1>18. ASSUME NotifyInline PROVE Places'
  BY <1>18, <1>a DEF NotifyInline, GivenAway, Shared, UseThread
<1>19. ASSUME NEW t \in {"app", "flip"}, CallPresent(t) PROVE Places'
  BY <1>19, <1>a DEF CallPresent
<1>20. ASSUME ReleaseOne PROVE Places'
  BY <1>20, <1>a DEF ReleaseOne, ReleaseStatus, Shared
<1>21. ASSUME ReleasePosts PROVE Places'
  BY <1>21, <1>a DEF ReleasePosts, PostFree, Shared
<1>22. ASSUME DeprecateImage PROVE Places'
  BY <1>22, <1>a DEF DeprecateImage
<1>23. ASSUME SetDescendant PROVE Places'
  BY <1>23, <1>a DEF SetDescendant
<1>24. ASSUME Teardown PROVE Places'
  BY <1>24, <1>a DEF Teardown
<1>25. ASSUME AwaitHeir PROVE Places'
  BY <1>25, <1>a DEF AwaitHeir
<1>26. ASSUME DrainForTeardown PROVE Places'
  BY <1>26, <1>a DEF DrainForTeardown, StartDrain, DrainedLabel
<1>27. ASSUME StopFlipThread PROVE Places'
  BY <1>27, <1>a DEF StopFlipThread
<1>28. ASSUME DestroyImages PROVE Places'
  BY <1>28, <1>a DEF DestroyImages
<1>29. ASSUME FlipTakesUnit PROVE Places'
  BY <1>29, <1>a DEF FlipTakesUnit, Continuous
<1>30. ASSUME FlipExits PROVE Places'
  BY <1>30, <1>a DEF FlipExits
<1>31. ASSUME FlipPops PROVE Places'
  BY <1>31, <1>a DEF FlipPops
<1>32. ASSUME FlipFence PROVE Places'
  BY <1>32, <1>a DEF FlipFence
<1>33. ASSUME FlipAbandons PROVE Places'
  BY <1>33, <1>a DEF FlipAbandons
<1>34. ASSUME HeirDrains PROVE Places'
  BY <1>34, <1>a DEF HeirDrains, StartDrain, DrainedLabel
<1>35. ASSUME HeirPresents PROVE Places'
  BY <1>35, <1>a DEF HeirPresents
<1>36. ASSUME DescendantNotifies PROVE Places'
  BY <1>36, <1>a DEF DescendantNotifies
<1> QED
  BY <1>1, <1>2, <1>3, <1>4, <1>5, <1>6, <1>7, <1>8, <1>9, <1>10, <1>11, <1>12, <1>13, <1>14, <1>15, <1>16, <1>17, <1>18, <1>19, <1>20, <1>21, <1>22, <1>23, <1>24, <1>25, <1>26, <1>27, <1>28, <1>29, <1>30, <1>31, <1>32, <1>33, <1>34, <1>35, <1>36 DEF BaseStep

(* The application and the page flip thread never both present. *)
LEMMA OnePresenterStep ==
    ASSUME Common, BaseStep
    PROVE  OnePresenter'
<1> USE DEF TypeOK, OnePresenter, UseThread, imageVars, queueVars, presentVars, lockVars, lifeVars, threadVars, callVars,
            Goto, Return, EndAcquire, EndPresent, Threads,
            Waits, Shown, Parting, Requesting, Acquires, Leaves, Flushes
<1>a. TypeOK /\ Places /\ OnePresenter
  BY DEF Common
<1>1. ASSUME NEW tm \in Timeouts, Acquire(tm) PROVE OnePresenter'
  BY <1>1, <1>a DEF Acquire, Places
<1>2. ASSUME NEW i \in Images, QueuePresent(i) PROVE OnePresenter'
  BY <1>2, <1>a DEF QueuePresent, Places
<1>3. ASSUME NEW S \in SUBSET Images, ReleaseImages(S) PROVE OnePresenter'
  BY <1>3, <1>a DEF ReleaseImages, Places
<1>4. ASSUME NEW i \in Images, GpuFinishes(i) PROVE OnePresenter'
  BY <1>4, <1>a DEF GpuFinishes, Places
<1>5. ASSUME Deprecate PROVE OnePresenter'
  BY <1>5, <1>a DEF Deprecate, Places
<1>6. ASSUME NEW entry \in {"teardown", "stop_events"}, Destroy(entry) PROVE OnePresenter'
  BY <1>6, <1>a DEF Destroy, Places
<1>7. ASSUME NEW t \in {"app", "heir"}, TakeUnit(t) PROVE OnePresenter'
  <2>1. CASE t = "app"
    BY <1>7, <1>a, <2>1 DEF TakeUnit, WaitReturns, DrainedLabel, Places
  <2>2. CASE t = "heir"
    <3>1. left["heir"] # 0
      BY <1>7, <1>a, <2>2 DEF TakeUnit, Places
    <3> QED BY <1>7, <1>a, <2>2, <3>1 DEF TakeUnit, WaitReturns, DrainedLabel
  <2> QED BY <1>7, <2>1, <2>2
<1>8. ASSUME NEW t \in {"app", "heir"}, AskBackend(t) PROVE OnePresenter'
  BY <1>8, <1>a DEF AskBackend, Places
<1>9. ASSUME NEW t \in {"app", "heir"}, WaitFails(t) PROVE OnePresenter'
  <2>1. CASE t = "app"
    BY <1>9, <1>a, <2>1 DEF WaitFails, WaitReturns, DrainedLabel, Places
  <2>2. CASE t = "heir"
    <3>1. left["heir"] # 0
      BY <1>9, <1>a, <2>2 DEF WaitFails, Places
    <3> QED BY <1>9, <1>a, <2>2, <3>1 DEF WaitFails, WaitReturns, DrainedLabel
  <2> QED BY <1>9, <2>1, <2>2
<1>10. ASSUME CheckError PROVE OnePresenter'
  BY <1>10, <1>a DEF CheckError, Places
<1>11. ASSUME SelectImage PROVE OnePresenter'
  BY <1>11, <1>a DEF SelectImage, Places
<1>12. ASSUME SelectFails PROVE OnePresenter'
  BY <1>12, <1>a DEF SelectFails, Places
<1>13. ASSUME SignalAcquired PROVE OnePresenter'
  BY <1>13, <1>a DEF SignalAcquired, Places
<1>14. ASSUME SyncBeforePresent PROVE OnePresenter'
  BY <1>14, <1>a DEF SyncBeforePresent, Places
<1>15. ASSUME SubmitPayload PROVE OnePresenter'
  BY <1>15, <1>a DEF SubmitPayload, Places
<1>16. ASSUME NotifyOutOfDate PROVE OnePresenter'
  BY <1>16, <1>a DEF NotifyOutOfDate, Places
<1>17. ASSUME NotifyThread PROVE OnePresenter'
  BY <1>17, <1>a DEF NotifyThread, GivenAway, Shared, Places
<1>18. ASSUME NotifyInline PROVE OnePresenter'
  BY <1>18, <1>a DEF NotifyInline, GivenAway, Shared, Places
<1>19. ASSUME NEW t \in {"app", "flip"}, CallPresent(t) PROVE OnePresenter'
  BY <1>19, <1>a DEF CallPresent, Places
<1>20. ASSUME ReleaseOne PROVE OnePresenter'
  BY <1>20, <1>a DEF ReleaseOne, ReleaseStatus, Shared, Places
<1>21. ASSUME ReleasePosts PROVE OnePresenter'
  BY <1>21, <1>a DEF ReleasePosts, PostFree, Shared, Places
<1>22. ASSUME DeprecateImage PROVE OnePresenter'
  BY <1>22, <1>a DEF DeprecateImage, Places
<1>23. ASSUME SetDescendant PROVE OnePresenter'
  BY <1>23, <1>a DEF SetDescendant, Places
<1>24. ASSUME Teardown PROVE OnePresenter'
  BY <1>24, <1>a DEF Teardown, Places
<1>25. ASSUME AwaitHeir PROVE OnePresenter'
  BY <1>25, <1>a DEF AwaitHeir, Places
<1>26. ASSUME DrainForTeardown PROVE OnePresenter'
  BY <1>26, <1>a DEF DrainForTeardown, StartDrain, DrainedLabel, Places
<1>27. ASSUME StopFlipThread PROVE OnePresenter'
  BY <1>27, <1>a DEF StopFlipThread, Places
<1>28. ASSUME DestroyImages PROVE OnePresenter'
  BY <1>28, <1>a DEF DestroyImages, Places
<1>29. ASSUME FlipTakesUnit PROVE OnePresenter'
  BY <1>29, <1>a DEF FlipTakesUnit, Continuous, Places
<1>30. ASSUME FlipExits PROVE OnePresenter'
  BY <1>30, <1>a DEF FlipExits, Places
<1>31. ASSUME FlipPops PROVE OnePresenter'
  BY <1>31, <1>a DEF FlipPops, Places
<1>32. ASSUME FlipFence PROVE OnePresenter'
  BY <1>32, <1>a DEF FlipFence, Places
<1>33. ASSUME FlipAbandons PROVE OnePresenter'
  BY <1>33, <1>a DEF FlipAbandons, Places
<1>34. ASSUME HeirDrains PROVE OnePresenter'
  BY <1>34, <1>a DEF HeirDrains, StartDrain, DrainedLabel, Places
<1>35. ASSUME HeirPresents PROVE OnePresenter'
  BY <1>35, <1>a DEF HeirPresents, Places
<1>36. ASSUME DescendantNotifies PROVE OnePresenter'
  BY <1>36, <1>a DEF DescendantNotifies, Places
<1> QED
  BY <1>1, <1>2, <1>3, <1>4, <1>5, <1>6, <1>7, <1>8, <1>9, <1>10, <1>11, <1>12, <1>13, <1>14, <1>15, <1>16, <1>17, <1>18, <1>19, <1>20, <1>21, <1>22, <1>23, <1>24, <1>25, <1>26, <1>27, <1>28, <1>29, <1>30, <1>31, <1>32, <1>33, <1>34, <1>35, <1>36 DEF BaseStep

(* Who works on an image has one. *)
LEMMA HaveImagesStep ==
    ASSUME Common, BaseStep
    PROVE  HaveImages'
<1> USE DEF TypeOK, HaveImages, imageVars, queueVars, presentVars, lockVars, lifeVars, threadVars, callVars,
            Goto, Return, EndAcquire, EndPresent, Threads,
            Waits, Shown, Parting, Requesting, Acquires, Leaves, Flushes
<1>a. TypeOK /\ Places /\ OnePresenter /\ HaveImages
  BY DEF Common
<1>1. ASSUME NEW tm \in Timeouts, Acquire(tm) PROVE HaveImages'
  BY <1>1, <1>a DEF Acquire
<1>2. ASSUME NEW i \in Images, QueuePresent(i) PROVE HaveImages'
  BY <1>2, <1>a, NoImageIsNone DEF QueuePresent
<1>3. ASSUME NEW S \in SUBSET Images, ReleaseImages(S) PROVE HaveImages'
  BY <1>3, <1>a DEF ReleaseImages
<1>4. ASSUME NEW i \in Images, GpuFinishes(i) PROVE HaveImages'
  BY <1>4, <1>a DEF GpuFinishes
<1>5. ASSUME Deprecate PROVE HaveImages'
  BY <1>5, <1>a DEF Deprecate
<1>6. ASSUME NEW entry \in {"teardown", "stop_events"}, Destroy(entry) PROVE HaveImages'
  BY <1>6, <1>a DEF Destroy, Places
<1>7. ASSUME NEW t \in {"app", "heir"}, TakeUnit(t) PROVE HaveImages'
  <2>1. CASE t = "app"
    BY <1>7, <1>a, <2>1 DEF TakeUnit, WaitReturns, DrainedLabel
  <2>2. CASE t = "heir"
    <3>1. left["heir"] # 0
      BY <1>7, <1>a, <2>2 DEF TakeUnit, Places
    <3> QED BY <1>7, <1>a, <2>2, <3>1 DEF TakeUnit, WaitReturns, DrainedLabel
  <2> QED BY <1>7, <2>1, <2>2
<1>8. ASSUME NEW t \in {"app", "heir"}, AskBackend(t) PROVE HaveImages'
  BY <1>8, <1>a DEF AskBackend
<1>9. ASSUME NEW t \in {"app", "heir"}, WaitFails(t) PROVE HaveImages'
  <2>1. CASE t = "app"
    BY <1>9, <1>a, <2>1 DEF WaitFails, WaitReturns, DrainedLabel
  <2>2. CASE t = "heir"
    <3>1. left["heir"] # 0
      BY <1>9, <1>a, <2>2 DEF WaitFails, Places
    <3> QED BY <1>9, <1>a, <2>2, <3>1 DEF WaitFails, WaitReturns, DrainedLabel
  <2> QED BY <1>9, <2>1, <2>2
<1>10. ASSUME CheckError PROVE HaveImages'
  BY <1>10, <1>a DEF CheckError
<1>11. ASSUME SelectImage PROVE HaveImages'
  <2>1. PICK k \in Images : image' = [image EXCEPT !["app"] = RoundRobin(k)]
    BY <1>11 DEF SelectImage
  <2> QED BY <1>11, <1>a, <2>1, RoundRobinStays, NoImageIsNone DEF SelectImage
<1>12. ASSUME SelectFails PROVE HaveImages'
  BY <1>12, <1>a DEF SelectFails
<1>13. ASSUME SignalAcquired PROVE HaveImages'
  BY <1>13, <1>a DEF SignalAcquired
<1>14. ASSUME SyncBeforePresent PROVE HaveImages'
  BY <1>14, <1>a DEF SyncBeforePresent
<1>15. ASSUME SubmitPayload PROVE HaveImages'
  BY <1>15, <1>a DEF SubmitPayload
<1>16. ASSUME NotifyOutOfDate PROVE HaveImages'
  BY <1>16, <1>a DEF NotifyOutOfDate
<1>17. ASSUME NotifyThread PROVE HaveImages'
  BY <1>17, <1>a DEF NotifyThread, GivenAway, Shared
<1>18. ASSUME NotifyInline PROVE HaveImages'
  <2>1. image["app"] \in Images
    BY <1>18, <1>a DEF NotifyInline
  <2> QED BY <1>18, <1>a, <2>1, NoImageIsNone DEF NotifyInline
<1>19. ASSUME NEW t \in {"app", "flip"}, CallPresent(t) PROVE HaveImages'
  BY <1>19, <1>a DEF CallPresent
<1>20. ASSUME ReleaseOne PROVE HaveImages'
  BY <1>20, <1>a DEF ReleaseOne, ReleaseStatus, Shared
<1>21. ASSUME ReleasePosts PROVE HaveImages'
  BY <1>21, <1>a DEF ReleasePosts, PostFree, Shared
<1>22. ASSUME DeprecateImage PROVE HaveImages'
  BY <1>22, <1>a DEF DeprecateImage
<1>23. ASSUME SetDescendant PROVE HaveImages'
  BY <1>23, <1>a DEF SetDescendant
<1>24. ASSUME Teardown PROVE HaveImages'
  BY <1>24, <1>a DEF Teardown
<1>25. ASSUME AwaitHeir PROVE HaveImages'
  BY <1>25, <1>a DEF AwaitHeir
<1>26. ASSUME DrainForTeardown PROVE HaveImages'
  BY <1>26, <1>a DEF DrainForTeardown, StartDrain, DrainedLabel
<1>27. ASSUME StopFlipThread PROVE HaveImages'
  BY <1>27, <1>a DEF StopFlipThread
<1>28. ASSUME DestroyImages PROVE HaveImages'
  BY <1>28, <1>a DEF DestroyImages
<1>29. ASSUME FlipTakesUnit PROVE HaveImages'
  BY <1>29, <1>a, ImagesFinite, NoImageIsNone DEF FlipTakesUnit, Continuous
<1>30. ASSUME FlipExits PROVE HaveImages'
  BY <1>30, <1>a DEF FlipExits
<1>31. ASSUME FlipPops PROVE HaveImages'
  <2>1. Head(pool) \in Images
    BY <1>31, <1>a DEF FlipPops
  <2> QED BY <1>31, <1>a, <2>1, NoImageIsNone DEF FlipPops
<1>32. ASSUME FlipFence PROVE HaveImages'
  BY <1>32, <1>a DEF FlipFence
<1>33. ASSUME FlipAbandons PROVE HaveImages'
  BY <1>33, <1>a DEF FlipAbandons
<1>34. ASSUME HeirDrains PROVE HaveImages'
  BY <1>34, <1>a DEF HeirDrains, StartDrain, DrainedLabel
<1>35. ASSUME HeirPresents PROVE HaveImages'
  BY <1>35, <1>a DEF HeirPresents
<1>36. ASSUME DescendantNotifies PROVE HaveImages'
  BY <1>36, <1>a DEF DescendantNotifies
<1> QED
  BY <1>1, <1>2, <1>3, <1>4, <1>5, <1>6, <1>7, <1>8, <1>9, <1>10, <1>11, <1>12, <1>13, <1>14, <1>15, <1>16, <1>17, <1>18, <1>19, <1>20, <1>21, <1>22, <1>23, <1>24, <1>25, <1>26, <1>27, <1>28, <1>29, <1>30, <1>31, <1>32, <1>33, <1>34, <1>35, <1>36 DEF BaseStep

-----------------------------------------------------------------------------
(* Most steps leave the images alone. *)
LEMMA QuietSteps ==
    ASSUME Common, BaseStep
    PROVE  view' = view \/ LoudStep
<1> SUFFICES ASSUME ~LoudStep
             PROVE  view' = view
  OBVIOUS
<1> USE DEF view, Dead, FlipImage, AppImage, Acquiring, Returning, imageVars, queueVars, presentVars, lockVars, lifeVars, threadVars, callVars,
            Goto, Return, EndAcquire, EndPresent, Threads,
            Waits, Shown, Parting, Requesting, Acquires, Leaves, Flushes, TypeOK
<1>a. TypeOK /\ (pc["app"] \notin {"release", "release_post"} => task # "release")
  BY DEF Common, Places
<1>1. ASSUME NEW tm \in Timeouts, Acquire(tm) PROVE view' = view
  BY <1>1, <1>a DEF Acquire
<1>2. ASSUME NEW i \in Images, QueuePresent(i) PROVE view' = view
  BY <1>2, <1>a DEF QueuePresent
<1>3. ASSUME NEW i \in Images, GpuFinishes(i) PROVE view' = view
  BY <1>3, <1>a DEF GpuFinishes
<1>4. ASSUME Deprecate PROVE view' = view
  BY <1>4, <1>a DEF Deprecate
<1>5. ASSUME NEW entry \in {"teardown", "stop_events"}, Destroy(entry) PROVE view' = view
  BY <1>5, <1>a DEF Destroy
<1>6. ASSUME NEW t \in {"app", "heir"}, TakeUnit(t) PROVE view' = view
  <2>1. CASE t = "app"
    BY <1>6, <1>a, <2>1 DEF TakeUnit, WaitReturns, DrainedLabel
  <2>2. CASE t = "heir"
    <3>1. left["heir"] # 0
      BY <1>6, <2>2 DEF Common, TakeUnit, Places
    <3> QED BY <1>6, <1>a, <2>2, <3>1 DEF TakeUnit, WaitReturns, DrainedLabel
  <2> QED BY <1>6, <2>1, <2>2
<1>7. ASSUME NEW t \in {"app", "heir"}, AskBackend(t) PROVE view' = view
  BY <1>7, <1>a DEF AskBackend
<1>8. ASSUME NEW t \in {"app", "heir"}, WaitFails(t) PROVE view' = view
  <2>1. CASE t = "app"
    BY <1>8, <1>a, <2>1 DEF WaitFails, WaitReturns, DrainedLabel
  <2>2. CASE t = "heir"
    <3>1. left["heir"] # 0
      BY <1>8, <2>2 DEF Common, WaitFails, Places
    <3> QED BY <1>8, <1>a, <2>2, <3>1 DEF WaitFails, WaitReturns, DrainedLabel
  <2> QED BY <1>8, <2>1, <2>2
<1>9. ASSUME CheckError PROVE view' = view
  BY <1>9, <1>a DEF CheckError
<1>10. ASSUME SyncBeforePresent PROVE view' = view
  BY <1>10, <1>a DEF SyncBeforePresent
<1>11. ASSUME SubmitPayload PROVE view' = view
  BY <1>11, <1>a DEF SubmitPayload
<1>12. ASSUME NEW t \in {"app", "flip"}, CallPresent(t) PROVE view' = view
  BY <1>12, <1>a DEF CallPresent
<1>13. ASSUME ReleasePosts PROVE view' = view
  BY <1>13, <1>a DEF ReleasePosts, PostFree, Shared
<1>14. ASSUME SetDescendant PROVE view' = view
  BY <1>14, <1>a DEF SetDescendant
<1>15. ASSUME Teardown PROVE view' = view
  BY <1>15, <1>a DEF Teardown
<1>16. ASSUME AwaitHeir PROVE view' = view
  BY <1>16, <1>a DEF AwaitHeir
<1>17. ASSUME DrainForTeardown PROVE view' = view
  BY <1>17, <1>a DEF DrainForTeardown, StartDrain, DrainedLabel
<1>18. ASSUME StopFlipThread PROVE view' = view
  <2>1. UNCHANGED <<status, pool, held, image, task, todo>> /\ pc["app"] = "queue_idle"
        /\ pc' = [pc EXCEPT !["app"] = "join"]
    BY <1>18 DEF StopFlipThread
  <2>2. pc'["flip"] = pc["flip"] /\ pc'["app"] = "join"
    BY <1>a, <2>1
  <2>3. FlipImage' = FlipImage
    BY <2>1, <2>2
  <2>4. AppImage' = AppImage /\ Acquiring' = Acquiring /\ Dead' = Dead
    BY <2>1, <2>2
  <2>5. Returning' = Returning
    BY <2>1
  <2> HIDE DEF FlipImage, AppImage, Acquiring, Returning, Dead
  <2> QED BY <2>1, <2>3, <2>4, <2>5 DEF view
<1>19. ASSUME FlipTakesUnit PROVE view' = view
  <2>1. ~Continuous /\ pc["flip"] = "top" /\ pc' = [pc EXCEPT !["flip"] = "pop"]
    BY <1>19 DEF FlipTakesUnit, Common, OnePresenter, Continuous
  <2>2. UNCHANGED <<status, pool, held, task, todo>> /\ image' = [image EXCEPT !["flip"] = NoImage]
    BY <1>19, <2>1 DEF FlipTakesUnit
  <2> QED BY <1>a, <2>1, <2>2
<1>20. ASSUME FlipExits PROVE view' = view
  BY <1>20, <1>a DEF FlipExits
<1>21. ASSUME FlipAbandons PROVE view' = view
  BY <1>21, <1>a DEF FlipAbandons
<1>22. ASSUME HeirDrains PROVE view' = view
  BY <1>22, <1>a DEF HeirDrains, StartDrain, DrainedLabel
<1>23. ASSUME HeirPresents PROVE view' = view
  BY <1>23, <1>a DEF HeirPresents
<1>24. ASSUME DescendantNotifies PROVE view' = view
  BY <1>24, <1>a DEF DescendantNotifies
<1> QED
  BY <1>1, <1>2, <1>3, <1>4, <1>5, <1>6, <1>7, <1>8, <1>9, <1>10, <1>11, <1>12, <1>13, <1>14, <1>15, <1>16, <1>17, <1>18, <1>19, <1>20, <1>21, <1>22, <1>23, <1>24 DEF BaseStep, LoudStep

(* The others keep the images apart. *)
LEMMA OwnedStep ==
    ASSUME Common, BaseStep
    PROVE  Owned'
<1>a. TypeOK /\ Places /\ OnePresenter /\ HaveImages /\ Owned
  BY DEF Common
<1>b. TypeOK'
  BY TypeStep
<1> SUFFICES ASSUME ~Dead, ~Dead', LoudStep
             PROVE  Owned'
  <2>1. CASE view' = view
    BY <1>a, <2>1 DEF view, Owned, PoolPends, PoolDiffers, FlipShows, AppShows, AcquiringHas, HeldAcquired,
                ReturningAcquired
  <2>2. LoudStep /\ Dead => Dead'
    BY <1>a DEF LoudStep, SelectImage, SelectFails, SignalAcquired, NotifyOutOfDate, NotifyThread,
       NotifyInline, FlipPops, FlipFence, ReleaseImages, ReleaseOne, DeprecateImage,
       DestroyImages, Dead, Goto, OnePresenter, TypeOK, Threads, threadVars
  <2> QED BY <2>1, <2>2, QuietSteps DEF Owned
<1>c. PoolPends /\ PoolDiffers /\ FlipShows /\ AppShows /\ AcquiringHas /\ HeldAcquired /\ ReturningAcquired
  BY <1>a DEF Owned
<1> USE DEF Owned, PoolPends, PoolDiffers, FlipShows, AppShows, AcquiringHas, HeldAcquired, ReturningAcquired,
            FlipImage, AppImage, Acquiring, Returning, Shown, Threads, TypeOK,
            imageVars, queueVars, presentVars, lockVars, lifeVars, threadVars, callVars, Goto, Return,
            EndAcquire, EndPresent
<1>1. CASE SelectImage
  <2>1. PICK k \in Images : /\ Usable(RoundRobin(k))
                            /\ status' = [status EXCEPT ![RoundRobin(k)] = "ACQUIRED"]
                            /\ image' = [image EXCEPT !["app"] = RoundRobin(k)]
    BY <1>1 DEF SelectImage
  <2>2. RoundRobin(k) \in Images /\ status[RoundRobin(k)] \notin {"PENDING", "ACQUIRED"}
    BY <1>a, <2>1, RoundRobinStays DEF Usable
  <2>3. PICK i \in Images : i = RoundRobin(k)
    BY <2>2
  <2>4. Acquiring' = i /\ UNCHANGED <<pool, held, task, todo>>
    BY <1>1, <1>a, <2>1, <2>3 DEF SelectImage
  <2>5. UNCHANGED <<FlipImage, AppImage>>
    BY <1>1, <1>a, <2>1 DEF SelectImage
  <2>6. i \notin held /\ task # "release"
    BY <1>1, <1>a, <1>c, <2>2, <2>3 DEF SelectImage, Places
  <2>7. \A j \in Images : status'[j] = IF j = i THEN "ACQUIRED" ELSE status[j]
    BY <1>a, <2>1, <2>3
  <2>8. PoolPends' /\ PoolDiffers' /\ HeldAcquired'
    BY <1>a, <1>c, <2>2, <2>3, <2>4, <2>7
  <2>9. FlipShows' /\ AppShows'
    BY <1>a, <1>c, <2>2, <2>3, <2>4, <2>5, <2>7
  <2>10. AcquiringHas' /\ ReturningAcquired'
    BY <2>4, <2>6, <2>7
  <2> QED BY <2>8, <2>9, <2>10
<1>2. CASE SelectFails
  BY <1>2, <1>a, <1>c DEF SelectFails
<1>3. CASE SignalAcquired
  <2>1. image["app"] \in Images /\ task # "release"
    BY <1>3, <1>a DEF SignalAcquired, HaveImages, Places
  <2>2. status[image["app"]] = "ACQUIRED" /\ image["app"] \notin held
    BY <1>3, <1>a, <1>c, <2>1, NoImageIsNone DEF SignalAcquired
  <2> QED BY <1>3, <1>a, <1>c, <2>1, <2>2 DEF SignalAcquired
<1>4. CASE NotifyOutOfDate
  <2>1. image["app"] \in held /\ task # "release"
    BY <1>4, <1>a DEF NotifyOutOfDate, HaveImages, Requesting, Places
  <2>2. \A k \in 1 .. Len(pool) : pool[k] # image["app"]
    BY <1>c, <2>1
  <2> QED BY <1>4, <1>a, <1>c, <2>1, <2>2 DEF NotifyOutOfDate
<1>5. CASE NotifyThread
  <2>1. image["app"] \in held /\ task # "release"
    BY <1>5, <1>a DEF NotifyThread, HaveImages, Requesting, Places
  <2>2. \A k \in 1 .. Len(pool) : pool[k] # image["app"]
    BY <1>c, <2>1
  <2>3. pool' \in {pool, Append(pool, image["app"])} /\ status' = [status EXCEPT ![image["app"]] = "PENDING"]
    BY <1>5 DEF NotifyThread
  <2>4. UNCHANGED <<FlipImage, AppImage>> /\ image["app"] \in Images
    BY <1>5, <1>a, <2>1 DEF NotifyThread
  <2>5. ASSUME pool' = pool PROVE PoolPends' /\ PoolDiffers' /\ FlipShows' /\ AppShows'
    BY <1>a, <1>c, <2>1, <2>2, <2>3, <2>4, <2>5
  <2>6. ASSUME pool' = Append(pool, image["app"]) PROVE PoolPends' /\ PoolDiffers' /\ FlipShows' /\ AppShows'
    <3>1. /\ Len(pool') = Len(pool) + 1 /\ Len(pool) \in Nat
          /\ \A k \in 1 .. Len(pool') : IF k = Len(pool) + 1 THEN pool'[k] = image["app"]
                                         ELSE k \in 1 .. Len(pool) /\ pool'[k] = pool[k] /\ pool[k] \in Images
      BY <1>a, <2>4, <2>6
    <3>2. \A i \in Images : status'[i] = IF i = image["app"] THEN "PENDING" ELSE status[i]
      BY <1>a, <2>3
    <3>3. PoolPends' /\ PoolDiffers'
      BY <1>c, <2>2, <2>4, <3>1, <3>2
    <3>4. FlipShows' /\ AppShows'
      BY <1>a, <1>c, <2>1, <2>4, <3>1, <3>2
    <3> QED BY <3>3, <3>4
  <2>7. AcquiringHas' /\ HeldAcquired' /\ ReturningAcquired'
    BY <1>5, <1>a, <1>c, <2>1 DEF NotifyThread, GivenAway, Shared, OnePresenter
  <2> QED BY <2>3, <2>5, <2>6, <2>7
<1>6. CASE NotifyInline
  <2>1. image["app"] \in held /\ task # "release"
    BY <1>6, <1>a DEF NotifyInline, HaveImages, Requesting, Places
  <2>2. pool = <<>> /\ pc["flip"] = "exited"
    BY <1>6, <1>a DEF NotifyInline, OnePresenter
  <2> QED BY <1>6, <1>a, <1>c, <2>1, <2>2 DEF NotifyInline, GivenAway, Shared, OnePresenter
<1>7. CASE FlipPops
  BY <1>7, <1>a, <1>c DEF FlipPops
<1>8. CASE FlipFence
  BY <1>8, <1>a, <1>c DEF FlipFence
<1>9. ASSUME NEW S \in SUBSET Images, ReleaseImages(S) PROVE Owned'
  BY <1>9, <1>a, <1>c DEF ReleaseImages
<1>10. CASE ReleaseOne
  <2>1. PICK i \in todo : todo' = todo \ {i} /\ status' = [status EXCEPT ![i] = "FREE"]
    BY <1>10, <1>a DEF ReleaseOne, ReleaseStatus, Shared, OnePresenter
  <2>2. status[i] = "ACQUIRED" /\ i \notin held /\ i \in Images
    BY <1>10, <1>a, <1>c, <2>1 DEF ReleaseOne, Places
  <2> QED BY <1>10, <1>a, <1>c, <2>1, <2>2 DEF ReleaseOne
<1>11. CASE DeprecateImage
  BY <1>11, <1>a, <1>c DEF DeprecateImage
<1>12. CASE DestroyImages
  BY <1>12, <1>a DEF DestroyImages, Dead
<1> QED
  BY <1>1, <1>2, <1>3, <1>4, <1>5, <1>6, <1>7, <1>8, <1>9, <1>10, <1>11, <1>12 DEF LoudStep

(* The base leaves alone what the backend has given away.                  *)
LEMMA ApartStep ==
    ASSUME Common, BaseStep, NEW K \in SUBSET Images, Apart(K)
    PROVE  Apart(K)'
<1>a. TypeOK /\ Places /\ OnePresenter /\ HaveImages /\ Owned
  BY DEF Common
<1>b. TypeOK'
  BY TypeStep
<1>d. K \subseteq Images /\ (\A i \in K : i \notin held)
      /\ (~Dead => \A i \in K : /\ status[i] = "PENDING" /\ i # FlipImage /\ i # AppImage
                                /\ \A k \in 1 .. Len(pool) : pool[k] # i)
  BY DEF Apart
<1>0. CASE view' = view
  BY <1>0 DEF view, Apart
<1>e. ~Dead => HeldAcquired /\ AcquiringHas /\ ReturningAcquired
  BY <1>a DEF Owned
<1> USE DEF HeldAcquired, AcquiringHas, ReturningAcquired, Dead,
            FlipImage, AppImage, Acquiring, Returning, Shown, Threads, TypeOK,
            imageVars, queueVars, presentVars, lockVars, lifeVars, threadVars, callVars, Goto, Return,
            EndAcquire, EndPresent
<1> DEFINE Elsewhere == /\ \A i \in K : i \notin held'
                        /\ ~Dead' => \A i \in K : /\ status'[i] = "PENDING" /\ i # FlipImage' /\ i # AppImage'
                                                  /\ \A k \in 1 .. Len(pool') : pool'[k] # i
<1>f. Elsewhere => Apart(K)'
  BY DEF Apart
<1>1. ASSUME SelectImage PROVE Elsewhere
  <2>1. PICK k \in Images : /\ Usable(RoundRobin(k))
                            /\ status' = [status EXCEPT ![RoundRobin(k)] = "ACQUIRED"]
                            /\ image' = [image EXCEPT !["app"] = RoundRobin(k)]
    BY <1>1 DEF SelectImage
  <2>2. status[RoundRobin(k)] # "PENDING"
    BY <2>1 DEF Usable
  <2> QED BY <1>1, <1>a, <1>d, <2>1, <2>2 DEF SelectImage
<1>2. ASSUME SelectFails PROVE Elsewhere
  BY <1>2, <1>a, <1>d DEF SelectFails
<1>3. ASSUME SignalAcquired PROVE Elsewhere
  <2>1. image["app"] \notin K
    BY <1>3, <1>a, <1>d, <1>e, NoImageIsNone DEF SignalAcquired, HaveImages
  <2> QED BY <1>3, <1>a, <1>d, <2>1 DEF SignalAcquired
<1>4. ASSUME NotifyOutOfDate PROVE Elsewhere
  <2>1. image["app"] \notin K
    BY <1>4, <1>a, <1>d DEF NotifyOutOfDate, HaveImages, Requesting
  <2> QED BY <1>4, <1>a, <1>d, <2>1 DEF NotifyOutOfDate
<1>5. ASSUME NotifyThread PROVE Elsewhere
  <2>1. image["app"] \notin K /\ image["app"] \in Images
    BY <1>5, <1>a, <1>d DEF NotifyThread, HaveImages, Requesting
  <2>2. UNCHANGED <<FlipImage, AppImage>> /\ held' \subseteq held
        /\ status' = [status EXCEPT ![image["app"]] = "PENDING"]
    BY <1>5, <1>a DEF NotifyThread, GivenAway
  <2>3. \A i \in K : ~Dead => \A k \in 1 .. Len(pool') : pool'[k] # i
    BY <1>5, <1>a, <1>d, <2>1 DEF NotifyThread
  <2> QED BY <1>5, <1>a, <1>d, <2>1, <2>2, <2>3 DEF NotifyThread
<1>6. ASSUME NotifyInline PROVE Elsewhere
  <2>1. image["app"] \notin K
    BY <1>6, <1>a, <1>d DEF NotifyInline, HaveImages, Requesting
  <2> QED BY <1>6, <1>a, <1>d, <2>1 DEF NotifyInline, GivenAway
<1>7. ASSUME FlipPops PROVE Elsewhere
  BY <1>7, <1>a, <1>d DEF FlipPops, OnePresenter
<1>8. ASSUME FlipFence PROVE Elsewhere
  <2>1. UNCHANGED <<status, pool, held, image>> /\ (pc' = [pc EXCEPT !["flip"] = "call"] \/ pc' = [pc EXCEPT !["flip"] = "abandon"])
        /\ pc["flip"] = "fence" /\ task' = task
    BY <1>8 DEF FlipFence
  <2>2. \A i \in K : i # NoImage
    BY <1>d, NoImageIsNone
  <2> QED BY <1>a, <1>d, <2>1, <2>2
<1>9. ASSUME NEW S \in SUBSET Images, ReleaseImages(S) PROVE Elsewhere
  BY <1>9, <1>a, <1>d DEF ReleaseImages
<1>10. ASSUME ReleaseOne PROVE Elsewhere
  <2>1. PICK i \in todo : todo' = todo \ {i} /\ status' = [status EXCEPT ![i] = "FREE"]
    BY <1>10, <1>a DEF ReleaseOne, ReleaseStatus, Shared, OnePresenter
  <2>2. i \notin K
    BY <1>10, <1>a, <1>d, <1>e, <2>1 DEF ReleaseOne, Places
  <2> QED BY <1>10, <1>a, <1>d, <2>1, <2>2 DEF ReleaseOne
<1>11. ASSUME DeprecateImage PROVE Elsewhere
  BY <1>11, <1>a, <1>d DEF DeprecateImage
<1>12. ASSUME DestroyImages PROVE Elsewhere
  BY <1>12, <1>a, <1>d DEF DestroyImages
<1> QED
  <2> HIDE DEF Elsewhere
  <2> QED BY <1>0, <1>f, <1>1, <1>2, <1>3, <1>4, <1>5, <1>6, <1>7, <1>8, <1>9, <1>10, <1>11, <1>12, QuietSteps DEF LoudStep

(* So every step of the base keeps what is common to the backends. *)
LEMMA CommonStep ==
    ASSUME Common, BaseStep
    PROVE  Common'
BY TypeStep, PlacesStep, OnePresenterStep, HaveImagesStep, OwnedStep DEF Common

(* A swapchain begins with every image free or unallocated.                *)
LEMMA InitIsCommon ==
    ASSUME Init, PresentModes \subseteq {"FIFO", "MAILBOX"}
    PROVE  Common
<1>1. NumImages \in Nat \ {0} /\ 0 \in Images
  BY ImagesFinite, SwapchainAssumption
<1>2. presentMode \in {"FIFO", "MAILBOX"}
  BY DEF Init
<1>3. TypeOK
  <2>1. status \in [Images -> Statuses] /\ payload \in [Images -> BOOLEAN]
    BY DEF Init, Statuses
  <2>2. ImageCount \in Nat /\ hint \in Images /\ freeSem \in Nat
    BY <1>1 DEF Init, ImageCount
  <2>3. image \in [Threads -> Images \union {NoImage}] /\ timeout \in [Threads -> Timeouts] /\ left \in [Threads -> Nat]
    BY DEF Init, Timeouts
  <2>4. failures \in [count : Nat, acquire : BOOLEAN] /\ DOMAIN pc = Threads
    BY DEF Init, Threads
  <2>5. threadRun \in BOOLEAN /\ ancestor \in BOOLEAN
    <3>1. HasAncestor \in BOOLEAN /\ (presentMode \in ThreadModes) \in BOOLEAN
      BY SwapchainAssumption
    <3>2. threadRun = (presentMode \in ThreadModes) /\ ancestor = HasAncestor
      BY DEF Init, UseThread
    <3> QED BY <3>1, <3>2
  <2>6. /\ flipSem = 0 /\ pool = <<>>
        /\ startSem = 0 /\ acquireLock = "none" /\ statusLock = "none" /\ descendant = "none"
        /\ heirSem = 0 /\ held = {} /\ task = "none" /\ todo = {} /\ result = "none"
    BY DEF Init
  <2>7. error \in BOOLEAN /\ firstPresent \in BOOLEAN /\ started \in BOOLEAN /\ retired \in BOOLEAN
    BY DEF Init
  <2> QED BY <1>2, <2>1, <2>2, <2>3, <2>4, <2>5, <2>6, <2>7 DEF TypeOK, AllModes, Tasks, Results
<1>4. Places
  <2>1. /\ pc["app"] = "idle" /\ pc["flip"] \in {"top", "exited"} /\ pc["heir"] = "idle"
        /\ left["app"] = 0 /\ task = "none" /\ descendant = "none"
    BY DEF Init, Threads
  <2> QED BY <2>1 DEF Places, AppPlaces, FlipPlaces, HeirPlaces, Waits, Shown, Parting, Requesting, Acquires, Leaves, Flushes
<1>5. OnePresenter /\ HaveImages
  BY <1>2 DEF Init, OnePresenter, HaveImages, Shown, Parting, Requesting
<1>6. Owned
  BY DEF Init, Owned, PoolPends, PoolDiffers, FlipShows, AppShows, AcquiringHas, HeldAcquired, ReturningAcquired,
         FlipImage, AppImage, Acquiring, Returning, Shown
<1> QED BY <1>3, <1>4, <1>5, <1>6 DEF Common

Finishing == {"call", "ancestor", "present", "frame_poll", "commit"}
PayloadsGrow ==
    /\ error => error'
    /\ presentMode' = presentMode
    /\ \A i \in Images : payload'[i] => payload[i] \/ (i \in held /\ ~Dead)
    /\ pc'["flip"] \in Finishing =>
          /\ image'["flip"] = image["flip"]
          /\ \/ pc["flip"] \in Finishing
             \/ pc["flip"] = "fence" /\ ~payload[image["flip"]] /\ UNCHANGED payload

(* Only the present of an image the application holds starts a payload,   *)
(* and the page flip thread waits for it where it takes the image out.     *)
LEMMA PayloadStep ==
    ASSUME Common, BaseStep
    PROVE  PayloadsGrow
<1>a. TypeOK /\ HaveImages /\ Places
  BY DEF Common
<1> USE DEF TypeOK, PayloadsGrow, Finishing, Dead, imageVars, queueVars, presentVars, lockVars, lifeVars, threadVars, callVars,
            Goto, Return, EndAcquire, EndPresent, Threads
<1>1. ASSUME NEW tm \in Timeouts, Acquire(tm) PROVE PayloadsGrow
  BY <1>1, <1>a DEF Acquire
<1>2. ASSUME NEW i \in Images, QueuePresent(i) PROVE PayloadsGrow
  BY <1>2, <1>a DEF QueuePresent
<1>3. ASSUME NEW S \in SUBSET Images, ReleaseImages(S) PROVE PayloadsGrow
  BY <1>3, <1>a DEF ReleaseImages
<1>4. ASSUME NEW i \in Images, GpuFinishes(i) PROVE PayloadsGrow
  BY <1>4, <1>a DEF GpuFinishes
<1>5. ASSUME Deprecate PROVE PayloadsGrow
  BY <1>5, <1>a DEF Deprecate
<1>6. ASSUME NEW entry \in {"teardown", "stop_events"}, Destroy(entry) PROVE PayloadsGrow
  BY <1>6, <1>a DEF Destroy
<1>7. ASSUME NEW t \in {"app", "heir"}, TakeUnit(t) PROVE PayloadsGrow
  <2>1. error' = error /\ presentMode' = presentMode /\ payload' = payload /\ image' = image
    BY <1>7 DEF TakeUnit
  <2>2. pc'["flip"] = pc["flip"]
    BY <1>7, <1>a DEF TakeUnit, WaitReturns, DrainedLabel
  <2> QED BY <2>1, <2>2
<1>8. ASSUME NEW t \in {"app", "heir"}, AskBackend(t) PROVE PayloadsGrow
  BY <1>8, <1>a DEF AskBackend
<1>9. ASSUME NEW t \in {"app", "heir"}, WaitFails(t) PROVE PayloadsGrow
  <2>1. error' = error /\ presentMode' = presentMode /\ payload' = payload /\ image' = image
    BY <1>9 DEF WaitFails
  <2>2. pc'["flip"] = pc["flip"]
    BY <1>9, <1>a DEF WaitFails, WaitReturns, DrainedLabel
  <2> QED BY <2>1, <2>2
<1>10. ASSUME CheckError PROVE PayloadsGrow
  BY <1>10, <1>a DEF CheckError
<1>11. ASSUME SelectImage PROVE PayloadsGrow
  BY <1>11, <1>a DEF SelectImage
<1>12. ASSUME SelectFails PROVE PayloadsGrow
  BY <1>12, <1>a DEF SelectFails
<1>13. ASSUME SignalAcquired PROVE PayloadsGrow
  BY <1>13, <1>a DEF SignalAcquired
<1>14. ASSUME SyncBeforePresent PROVE PayloadsGrow
  BY <1>14, <1>a DEF SyncBeforePresent
<1>15. ASSUME SubmitPayload PROVE PayloadsGrow
  <2>1. image["app"] \in held /\ image["app"] \in Images /\ pc["app"] = "submit"
    BY <1>15, <1>a DEF SubmitPayload, HaveImages, Requesting
  <2>2. error' = error /\ presentMode' = presentMode /\ pc'["flip"] = pc["flip"] /\ image'["flip"] = image["flip"]
    BY <1>15, <1>a DEF SubmitPayload
  <2>3. \A i \in Images : payload'[i] => payload[i] \/ i = image["app"]
    BY <1>15, <1>a DEF SubmitPayload
  <2> QED BY <2>1, <2>2, <2>3
<1>16. ASSUME NotifyOutOfDate PROVE PayloadsGrow
  BY <1>16, <1>a DEF NotifyOutOfDate
<1>17. ASSUME NotifyThread PROVE PayloadsGrow
  BY <1>17, <1>a DEF NotifyThread, GivenAway, Shared
<1>18. ASSUME NotifyInline PROVE PayloadsGrow
  BY <1>18, <1>a DEF NotifyInline, GivenAway, Shared
<1>19. ASSUME NEW t \in {"app", "flip"}, CallPresent(t) PROVE PayloadsGrow
  BY <1>19, <1>a DEF CallPresent
<1>20. ASSUME ReleaseOne PROVE PayloadsGrow
  BY <1>20, <1>a DEF ReleaseOne, ReleaseStatus, Shared
<1>21. ASSUME ReleasePosts PROVE PayloadsGrow
  BY <1>21, <1>a DEF ReleasePosts, PostFree, Shared
<1>22. ASSUME DeprecateImage PROVE PayloadsGrow
  BY <1>22, <1>a DEF DeprecateImage
<1>23. ASSUME SetDescendant PROVE PayloadsGrow
  BY <1>23, <1>a DEF SetDescendant
<1>24. ASSUME Teardown PROVE PayloadsGrow
  BY <1>24, <1>a DEF Teardown
<1>25. ASSUME AwaitHeir PROVE PayloadsGrow
  BY <1>25, <1>a DEF AwaitHeir
<1>26. ASSUME DrainForTeardown PROVE PayloadsGrow
  BY <1>26, <1>a DEF DrainForTeardown, StartDrain, DrainedLabel
<1>27. ASSUME StopFlipThread PROVE PayloadsGrow
  <2>1. UNCHANGED <<error, presentMode, payload, image>> /\ pc' = [pc EXCEPT !["app"] = "join"]
    BY <1>27 DEF StopFlipThread
  <2> QED BY <1>a, <2>1
<1>28. ASSUME DestroyImages PROVE PayloadsGrow
  <2>1. UNCHANGED <<error, presentMode, payload, image>> /\ pc' = [pc EXCEPT !["app"] = "dead"]
    BY <1>28 DEF DestroyImages
  <2> QED BY <1>a, <2>1
<1>29. ASSUME FlipTakesUnit PROVE PayloadsGrow
  <2>1. UNCHANGED <<error, presentMode, payload>> /\ pc'["flip"] \in {"pop", "fence"}
    BY <1>29, <1>a DEF FlipTakesUnit
  <2> QED BY <1>a, <2>1
<1>30. ASSUME FlipExits PROVE PayloadsGrow
  BY <1>30, <1>a DEF FlipExits
<1>31. ASSUME FlipPops PROVE PayloadsGrow
  BY <1>31, <1>a DEF FlipPops
<1>32. ASSUME FlipFence PROVE PayloadsGrow
  BY <1>32, <1>a DEF FlipFence
<1>33. ASSUME FlipAbandons PROVE PayloadsGrow
  BY <1>33, <1>a DEF FlipAbandons
<1>34. ASSUME HeirDrains PROVE PayloadsGrow
  BY <1>34, <1>a DEF HeirDrains, StartDrain, DrainedLabel
<1>35. ASSUME HeirPresents PROVE PayloadsGrow
  BY <1>35, <1>a DEF HeirPresents
<1>36. ASSUME DescendantNotifies PROVE PayloadsGrow
  BY <1>36, <1>a DEF DescendantNotifies
<1> QED
  BY <1>1, <1>2, <1>3, <1>4, <1>5, <1>6, <1>7, <1>8, <1>9, <1>10, <1>11, <1>12, <1>13, <1>14, <1>15, <1>16, <1>17, <1>18, <1>19, <1>20, <1>21, <1>22, <1>23, <1>24, <1>25, <1>26, <1>27, <1>28, <1>29, <1>30, <1>31, <1>32, <1>33, <1>34, <1>35, <1>36 DEF BaseStep

-----------------------------------------------------------------------------
(* The steps of the backends go from label to label inside a wait, inside  *)
(* a present, or inside a destructor.                                      *)
Closing == {"stop_events", "join_events", "stopping", "teardown"} \union Flushes
Moves ==
    /\ DOMAIN pc' = Threads
    /\ \A t \in Threads :
          \/ pc'[t] = pc[t]
          \/ t # "flip" /\ {pc[t], pc'[t]} \subseteq Waits
          \/ t # "heir" /\ {pc[t], pc'[t]} \subseteq Shown /\ (t = "app" => task = "present")
          \/ t # "heir" /\ {pc[t], pc'[t]} \subseteq Parting
          \/ t = "app" /\ {pc[t], pc'[t]} \subseteq Closing /\ task = "destroy"
Counted == /\ freeSem' \in Nat
           /\ error' \in BOOLEAN /\ (error => error')
           /\ failures' \in [count : Nat, acquire : BOOLEAN]

(* Such a step leaves the images where they were.                          *)
LEMMA MoveLeaves ==
    ASSUME Common, Moves, UNCHANGED <<image, task, todo>>
    PROVE  UNCHANGED <<FlipImage, AppImage, Acquiring, Returning, Dead>>
<1>1. TypeOK /\ Places /\ OnePresenter
  BY DEF Common
<1>2. FlipImage' = FlipImage
  BY DEF Moves, FlipImage, Threads, Waits, Shown, Parting
<1>3. AppImage' = AppImage
  BY <1>1 DEF Moves, AppImage, Threads, Waits, Shown, Parting, Closing, Flushes
<1>4. Acquiring' = Acquiring
  BY DEF Moves, Acquiring, Threads, Waits, Shown, Parting, Closing, Flushes
<1>5. Returning' = Returning
  BY DEF Returning
<1>6. Dead' = Dead
  BY DEF Moves, Dead, Threads, Waits, Shown, Parting, Closing, Flushes
<1> QED BY <1>2, <1>3, <1>4, <1>5, <1>6

(* It goes where the code goes.                                            *)
LEMMA MoveControls ==
    ASSUME Common, Moves, Counted, status' \in [Images -> Statuses],
           UNCHANGED <<payload, hint, queueVars, presentVars, lockVars, lifeVars, held, image, timeout, left, callVars>>
    PROVE  TypeOK' /\ Places' /\ OnePresenter' /\ HaveImages'
<1>1. TypeOK /\ Places /\ OnePresenter /\ HaveImages
  BY DEF Common
<1> USE DEF imageVars, queueVars, presentVars, lockVars, lifeVars, callVars
<1>3. TypeOK'
  BY <1>1 DEF TypeOK, Moves, Counted
<1>4. Places'
  <2> USE DEF Waits, Shown, Parting, Requesting, Acquires, Leaves, Flushes, Closing
  <2>1. pc'["app"] \in AppPlaces
    BY <1>1 DEF Moves, Threads, Places, AppPlaces
  <2>2. pc'["flip"] \in FlipPlaces
    BY <1>1 DEF Moves, Threads, Places, FlipPlaces
  <2>3. pc'["heir"] \in HeirPlaces /\ (pc'["heir"] \in Waits => left["heir"] > 0) /\ (pc'["heir"] # "idle" => retired)
    BY <1>1 DEF Moves, Threads, Places, HeirPlaces
  <2>4. CASE pc'["app"] = pc["app"]
    BY <1>1, <2>1, <2>2, <2>3, <2>4 DEF Places
  <2>5. CASE {pc["app"], pc'["app"]} \subseteq Waits
    BY <1>1, <2>1, <2>2, <2>3, <2>5 DEF Places
  <2>6. CASE {pc["app"], pc'["app"]} \subseteq Shown /\ task = "present"
    BY <1>1, <2>1, <2>2, <2>3, <2>6 DEF Places
  <2>7. CASE {pc["app"], pc'["app"]} \subseteq Parting
    BY <1>1, <2>1, <2>2, <2>3, <2>7 DEF Places
  <2>8. CASE {pc["app"], pc'["app"]} \subseteq Closing /\ task = "destroy"
    BY <1>1, <2>1, <2>2, <2>3, <2>8 DEF Places
  <2> QED BY <2>4, <2>5, <2>6, <2>7, <2>8 DEF Moves, Threads
<1>5. OnePresenter'
  BY <1>1 DEF OnePresenter, UseThread, Moves, Threads, Counted, Waits, Shown, Parting, Closing, Flushes
<1>6. HaveImages'
  BY <1>1 DEF HaveImages, Moves, Threads, Waits, Shown, Parting, Requesting, Closing, Flushes
<1> QED BY <1>3, <1>4, <1>5, <1>6

(* It keeps what is common to the backends.                                *)
LEMMA MoveKeeps ==
    ASSUME Common, Moves, Counted,
           UNCHANGED <<imageVars, queueVars, presentVars, lockVars, lifeVars, held, image, timeout, left, callVars>>
    PROVE  Common' /\ view' = view
<1>1. TypeOK /\ Owned
  BY DEF Common
<1>2. TypeOK' /\ Places' /\ OnePresenter' /\ HaveImages'
  BY <1>1, MoveControls DEF TypeOK, imageVars
<1>3. view' = view
  BY MoveLeaves DEF view, imageVars, queueVars, callVars
<1>4. Owned'
  BY <1>1, <1>3 DEF view, Owned, PoolPends, PoolDiffers, FlipShows, AppShows, AcquiringHas, HeldAcquired,
                ReturningAcquired
<1> QED BY <1>2, <1>3, <1>4 DEF Common

(* A wait for a free image returns.                                        *)
LEMMA ReturnKeeps ==
    ASSUME Common, NEW t \in {"app", "heir"}, NEW r \in Results, pc[t] \in Waits,
           WaitReturns(t, r), freeSem' \in Nat,
           UNCHANGED <<imageVars, queueVars, error, presentVars, statusLock, lifeVars, held, failures, image, todo>>
    PROVE  Common' /\ view' = view
<1>a. TypeOK /\ Places /\ OnePresenter /\ HaveImages /\ Owned
  BY DEF Common
<1> USE DEF imageVars, queueVars, presentVars, lockVars, lifeVars, callVars, Threads, Waits
<1>b. (t = "app" /\ left["app"] = 0) \/ left[t] > 0
  BY <1>a DEF Places, TypeOK
<1>1. ASSUME t = "app", left["app"] = 0 PROVE Common' /\ view' = view
  <2>1. task = "acquire"
    BY <1>a, <1>1 DEF Places
  <2>2. /\ DOMAIN pc' = Threads /\ pc'["flip"] = pc["flip"] /\ pc'["heir"] = pc["heir"] /\ left' = left
        /\ \/ pc'["app"] = "check" /\ UNCHANGED <<task, result, acquireLock, timeout>>
           \/ /\ pc'["app"] = "idle" /\ task' = "none" /\ result' = r /\ acquireLock' = "none"
              /\ timeout' = [timeout EXCEPT !["app"] = "forever"]
    BY <1>a, <1>1 DEF WaitReturns, EndAcquire, Return, Goto, TypeOK
  <2>3. timeout' \in [Threads -> Timeouts] /\ task' \in Tasks /\ result' \in Results
        /\ acquireLock' \in Threads \union {"none"}
    BY <1>a, <2>2 DEF TypeOK, Timeouts, Tasks
  <2>4. TypeOK'
    BY <1>a, <2>2, <2>3 DEF TypeOK
  <2>5. Places'
    BY <1>a, <1>1, <2>1, <2>2 DEF Places, AppPlaces, Shown, Parting, Requesting, Acquires, Leaves, Flushes
  <2>6. OnePresenter' /\ HaveImages'
    BY <1>a, <1>1, <2>1, <2>2 DEF OnePresenter, HaveImages, UseThread, Shown, Parting, Requesting
  <2>7. FlipImage' = FlipImage /\ AppImage' = AppImage /\ Acquiring' = Acquiring /\ Returning' = Returning /\ Dead' = Dead
    BY <1>a, <1>1, <2>1, <2>2 DEF FlipImage, AppImage, Acquiring, Returning, Dead, Shown
  <2>8. view' = view
    BY <2>7 DEF view
  <2>9. Owned'
    BY <1>a, <2>8 DEF view, Owned, PoolPends, PoolDiffers, FlipShows, AppShows, AcquiringHas, HeldAcquired,
                ReturningAcquired
  <2> QED BY <2>4, <2>5, <2>6, <2>8, <2>9 DEF Common
<1>2. ASSUME left[t] > 0 PROVE Common' /\ view' = view
  <2>1. t = "app" => task = "destroy"
    BY <1>a, <1>2 DEF Places
  <2>2. /\ DOMAIN pc' = Threads /\ (\A u \in Threads \ {t} : pc'[u] = pc[u])
        /\ \/ pc'[t] = "try" /\ left[t] # 1
           \/ t = "heir" /\ pc'[t] = "drained" /\ left[t] = 1
           \/ t = "app" /\ pc'[t] = "queue_idle" /\ left[t] = 1
        /\ left' = [left EXCEPT ![t] = @ - 1]
        /\ acquireLock' \in Threads \union {"none"} /\ UNCHANGED <<task, result, timeout>>
    BY <1>a, <1>2 DEF WaitReturns, DrainedLabel, Goto, TypeOK
  <2>3. left' \in [Threads -> Nat] /\ left'[t] = left[t] - 1 /\ \A u \in Threads \ {t} : left'[u] = left[u]
    BY <1>a, <1>2, <2>2 DEF TypeOK
  <2>4. TypeOK'
    BY <1>a, <2>2, <2>3 DEF TypeOK
  <2>5. ASSUME t = "app" PROVE Places' /\ OnePresenter' /\ HaveImages'
    <3>a. /\ pc'["flip"] = pc["flip"] /\ pc'["heir"] = pc["heir"] /\ left'["heir"] = left["heir"]
          /\ task = "destroy" /\ task' = "destroy" /\ UNCHANGED <<retired, descendant>>
          /\ left["app"] \in Nat \ {0} /\ left'["app"] = left["app"] - 1
      BY <1>a, <1>2, <2>1, <2>2, <2>3, <2>5 DEF TypeOK
    <3>b. \/ pc'["app"] = "try" /\ left'["app"] # 0
          \/ pc'["app"] = "queue_idle" /\ left'["app"] = 0
      BY <2>2, <2>5, <3>a
    <3>1. Places'
      <4>1. CASE pc'["app"] = "try" /\ left'["app"] # 0
        BY <1>a, <3>a, <4>1 DEF Places, AppPlaces, Shown, Parting, Requesting, Acquires, Leaves, Flushes
      <4>2. CASE pc'["app"] = "queue_idle" /\ left'["app"] = 0
        BY <1>a, <3>a, <4>2 DEF Places, AppPlaces, Shown, Parting, Requesting, Acquires, Leaves, Flushes
      <4> QED BY <3>b, <4>1, <4>2
    <3>2. OnePresenter' /\ HaveImages'
      BY <1>a, <1>2, <2>1, <2>2, <2>5 DEF OnePresenter, HaveImages, UseThread, Shown, Parting, Requesting
    <3> QED BY <3>1, <3>2
  <2>6. ASSUME t = "heir" PROVE Places' /\ OnePresenter' /\ HaveImages'
    <3>1. Places'
      BY <1>a, <1>2, <2>2, <2>3, <2>6 DEF Places, HeirPlaces, TypeOK
    <3>2. OnePresenter' /\ HaveImages'
      BY <1>a, <1>2, <2>2, <2>6 DEF OnePresenter, HaveImages, UseThread
    <3> QED BY <3>1, <3>2
  <2>7. FlipImage' = FlipImage /\ AppImage' = AppImage /\ Acquiring' = Acquiring /\ Returning' = Returning /\ Dead' = Dead
    BY <1>a, <1>2, <2>1, <2>2 DEF FlipImage, AppImage, Acquiring, Returning, Dead, Shown
  <2>8. view' = view
    BY <2>7 DEF view
  <2>9. Owned'
    BY <1>a, <2>8 DEF view, Owned, PoolPends, PoolDiffers, FlipShows, AppShows, AcquiringHas, HeldAcquired,
                ReturningAcquired
  <2> QED BY <2>4, <2>5, <2>6, <2>8, <2>9 DEF Common
<1> QED BY <1>b, <1>1, <1>2

(* present_image() returns.  The image that was shown may be given away.   *)
LEMMA PresentReturnKeeps ==
    ASSUME Common, NEW t \in {"app", "flip"}, pc[t] \in Shown \union Parting,
           t = "app" => task = "present",
           PresentReturns(t), Counted,
           UNCHANGED <<imageVars, queueVars, started, startSem, acquireLock, lifeVars, held, timeout, left, todo>>,
           NEW K \in SUBSET Images, Apart(K), NEW j, j = image[t]
    PROVE  Common' /\ Apart(K)' /\ (pc[t] \in Shown => Apart(K \union {j})')
<1>a. TypeOK /\ Places /\ OnePresenter /\ HaveImages /\ Owned
  BY DEF Common
<1> USE DEF imageVars, queueVars, presentVars, lockVars, lifeVars, callVars, Threads
<1>b. /\ DOMAIN pc' = Threads /\ (\A u \in Threads \ {t} : pc'[u] = pc[u])
      /\ t = "app" => pc'[t] = "idle" /\ task' = "none"
      /\ t = "flip" => pc'[t] = "top" /\ task' = task
      /\ image' = [image EXCEPT ![t] = NoImage]
  BY <1>a DEF PresentReturns, Return, Goto, TypeOK
<1>1. TypeOK'
  <2>1. task' \in Tasks /\ result' \in Results /\ statusLock' \in Threads \union {"none"}
        /\ firstPresent' \in BOOLEAN
    BY <1>a DEF PresentReturns, Return, TypeOK, Tasks, Results
  <2>2. image' \in [Threads -> Images \union {NoImage}]
    BY <1>a, <1>b DEF TypeOK
  <2> QED BY <1>a, <1>b, <2>1, <2>2 DEF TypeOK, Counted
<1>2. Places'
  <2>1. CASE t = "app"
    BY <1>a, <1>b, <2>1 DEF Places, AppPlaces, Waits, Shown, Parting, Requesting, Acquires, Leaves, Flushes
  <2>2. CASE t = "flip"
    BY <1>a, <1>b, <2>2 DEF Places, FlipPlaces
  <2> QED BY <2>1, <2>2
<1>3. OnePresenter'
  <2>1. CASE t = "app"
    BY <1>a, <1>b, <2>1 DEF OnePresenter, UseThread, Shown, Parting, Counted
  <2>2. CASE t = "flip"
    BY <1>a, <1>b, <2>2 DEF OnePresenter, UseThread, Shown, Parting, Counted
  <2> QED BY <2>1, <2>2
<1>4. HaveImages'
  BY <1>a, <1>b DEF HaveImages, Shown, Requesting, TypeOK
<1>5. ~Dead
  BY <1>a DEF Dead, OnePresenter, Shown, Parting
<1>6. PoolPends /\ PoolDiffers /\ FlipShows /\ AppShows /\ AcquiringHas /\ HeldAcquired /\ ReturningAcquired
  BY <1>a, <1>5 DEF Owned
<1>7. FlipImage' \in {FlipImage, NoImage} /\ AppImage' \in {AppImage, NoImage}
  BY <1>a, <1>b DEF FlipImage, AppImage, Shown, TypeOK
<1>8. Acquiring' = Acquiring /\ Returning' = Returning
  BY <1>a, <1>b DEF Acquiring, Returning, Shown, Parting, TypeOK
<1>9. UNCHANGED <<status, pool, held>>
  OBVIOUS
<1>10. Owned'
  <2>1. PoolPends' /\ PoolDiffers' /\ HeldAcquired'
    BY <1>6, <1>9 DEF PoolPends, PoolDiffers, HeldAcquired
  <2>2. FlipShows' /\ AppShows'
    BY <1>6, <1>7, <1>9 DEF FlipShows, AppShows
  <2>3. AcquiringHas' /\ ReturningAcquired'
    BY <1>6, <1>8, <1>9 DEF AcquiringHas, ReturningAcquired
  <2> QED BY <2>1, <2>2, <2>3 DEF Owned
<1>11. Apart(K)'
  BY <1>5, <1>7, <1>9, NoImageIsNone DEF Apart
<1>12. ASSUME pc[t] \in Shown PROVE Apart(K \union {j})'
  <2>1. j # NoImage /\ (t = "app" => AppImage = j) /\ (t = "flip" => FlipImage = j)
    BY <1>a, <1>12 DEF AppImage, FlipImage, HaveImages
  <2>2. status[j] = "PENDING" /\ j \notin held
    BY <1>6, <2>1 DEF FlipShows, AppShows, HeldAcquired
  <2>3. \A k \in 1 .. Len(pool) : pool[k] # j
    BY <1>a, <1>6, <1>12, <2>1 DEF FlipShows, OnePresenter
  <2>4. FlipImage' # j /\ AppImage' # j
    BY <1>a, <1>b, <1>12, <2>1 DEF FlipImage, AppImage, OnePresenter, Shown
  <2> QED BY <1>9, <1>11, <2>2, <2>3, <2>4 DEF Apart
<1> QED BY <1>1, <1>2, <1>3, <1>4, <1>10, <1>11, <1>12 DEF Common

(* An image that was given away is released and is free.                   *)
LEMMA ReleaseKeeps ==
    ASSUME Common, Moves, Counted, NEW K \in SUBSET Images, Apart(K), NEW i \in K,
           status' = [status EXCEPT ![i] = "FREE"],
           UNCHANGED <<payload, hint, queueVars, presentVars, lockVars, lifeVars, held, image, timeout, left, callVars>>
    PROVE  Common' /\ Apart(K \ {i})'
<1>1. TypeOK /\ Owned
  BY DEF Common
<1>2. status' \in [Images -> Statuses] /\ \A n \in Images : status'[n] = IF n = i THEN "FREE" ELSE status[n]
  BY <1>1 DEF TypeOK, Statuses
<1>3. TypeOK' /\ Places' /\ OnePresenter' /\ HaveImages'
  BY <1>2, MoveControls
<1>4. UNCHANGED <<FlipImage, AppImage, Acquiring, Returning, Dead>>
  BY MoveLeaves DEF callVars
<1>5. UNCHANGED <<pool, held>> /\ pool \in Seq(Images) /\ held \subseteq Images
  BY <1>1 DEF TypeOK, queueVars
<1>6. FlipImage \in Images \union {NoImage} /\ AppImage \in Images \union {NoImage}
      /\ Acquiring \in Images \union {NoImage} /\ Returning \subseteq Images
  BY <1>1 DEF TypeOK, FlipImage, AppImage, Acquiring, Returning, Threads
<1>7. Apart(K \ {i})'
  BY <1>2, <1>4, <1>5 DEF Apart
<1>8. ASSUME ~Dead PROVE Owned'
  <2>1. status[i] = "PENDING" /\ i # FlipImage /\ i # AppImage /\ (\A k \in 1 .. Len(pool) : pool[k] # i) /\ i \notin held
    BY <1>8 DEF Apart
  <2>2. PoolPends /\ PoolDiffers /\ FlipShows /\ AppShows /\ AcquiringHas /\ HeldAcquired /\ ReturningAcquired
    BY <1>1, <1>8 DEF Owned
  <2>3. PoolPends' /\ PoolDiffers'
    BY <1>2, <1>5, <2>1, <2>2 DEF PoolPends, PoolDiffers
  <2>4. FlipShows' /\ AppShows'
    BY <1>2, <1>4, <1>5, <1>6, <2>1, <2>2 DEF FlipShows, AppShows
  <2>5. AcquiringHas' /\ HeldAcquired' /\ ReturningAcquired'
    BY <1>2, <1>4, <1>5, <1>6, <2>1, <2>2 DEF AcquiringHas, HeldAcquired, ReturningAcquired
  <2> QED BY <2>3, <2>4, <2>5 DEF Owned
<1> QED BY <1>3, <1>4, <1>7, <1>8 DEF Common, Owned

-----------------------------------------------------------------------------
(* The contract with the application, in terms of the view, for a backend  *)
(* that has given away the images K.                                       *)
QueueIs == IF Dead THEN <<>>
           ELSE IF FlipImage # NoImage THEN <<FlipImage>> \o pool
           ELSE IF AppImage # NoImage THEN <<AppImage>> ELSE pool
QueuedIn == {pool[k] : k \in 1 .. Len(pool)} \union ({FlipImage, AppImage} \ {NoImage})
OwnerIs(K, i) == IF Dead THEN "nobody"
                 ELSE IF i \in QueuedIn THEN "queue"
                 ELSE IF i \in K THEN "display"
                 ELSE IF i \in held \union Returning THEN "app"
                 ELSE IF Usable(i) \/ i = Acquiring THEN "engine"
                 ELSE "nobody"

(* Only one of the threads shows an image, and inline nothing is queued.   *)
LEMMA OneShown ==
    ASSUME Common
    PROVE  /\ pool \in Seq(Images)
           /\ FlipImage \in Images \union {NoImage} /\ AppImage \in Images \union {NoImage}
           /\ AppImage # NoImage => FlipImage = NoImage /\ pool = <<>>
<1>1. TypeOK /\ OnePresenter
  BY DEF Common
<1> QED BY <1>1 DEF TypeOK, OnePresenter, FlipImage, AppImage, Shown, Threads

(* The contract of the backends is about this queue and these owners.      *)
LEMMA QueueMapping ==
    ASSUME Common
    PROVE  /\ QueueShown = QueueIs
           /\ \A i : (\E k \in 1 .. Len(QueueIs) : QueueIs[k] = i) <=> ~Dead /\ i \in QueuedIn
<1>1. TypeOK /\ HaveImages
  BY DEF Common
<1>2. pool \in Seq(Images) /\ Len(pool) \in Nat /\ <<>> \o pool = pool
  BY <1>1 DEF TypeOK
<1>3. /\ pc["flip"] \in Shown <=> FlipImage # NoImage
      /\ pc["app"] \in Shown /\ task = "present" <=> AppImage # NoImage
  BY <1>1 DEF HaveImages, FlipImage, AppImage
<1>4. QueueShown = QueueIs
  <2>1. AppImage # NoImage => <<AppImage>> \o pool = <<AppImage>>
    BY OneShown
  <2>2. CASE FlipImage # NoImage
    BY <1>3, <2>2 DEF QueueShown, QueueIs, Dead, FlipImage
  <2>3. CASE FlipImage = NoImage /\ AppImage # NoImage
    BY <1>3, <2>1, <2>3 DEF QueueShown, QueueIs, Dead, AppImage
  <2>4. CASE FlipImage = NoImage /\ AppImage = NoImage
    BY <1>2, <1>3, <2>4 DEF QueueShown, QueueIs, Dead
  <2> QED BY <2>2, <2>3, <2>4
<1>5. ASSUME NEW i PROVE (\E k \in 1 .. Len(QueueIs) : QueueIs[k] = i) <=> ~Dead /\ i \in QueuedIn
  <2>1. CASE Dead
    BY <2>1 DEF QueueIs
  <2>2. CASE ~Dead /\ FlipImage # NoImage
    <3>1. QueueIs = <<FlipImage>> \o pool /\ AppImage = NoImage
      BY <2>2, OneShown DEF QueueIs
    <3>2. /\ Len(QueueIs) = Len(pool) + 1 /\ QueueIs[1] = FlipImage
          /\ \A k \in 1 .. Len(pool) : QueueIs[k + 1] = pool[k]
      BY <1>2, <3>1
    <3>3. /\ \A k \in 1 .. Len(QueueIs) : k = 1 \/ (k - 1 \in 1 .. Len(pool) /\ QueueIs[k] = pool[k - 1])
          /\ \A k \in 1 .. Len(pool) : k + 1 \in 1 .. Len(QueueIs)
          /\ 1 \in 1 .. Len(QueueIs)
      BY <1>2, <3>2
    <3>4. QueuedIn = {pool[k] : k \in 1 .. Len(pool)} \union {FlipImage}
      BY <2>2, <3>1 DEF QueuedIn
    <3>5. ASSUME NEW k \in 1 .. Len(QueueIs), QueueIs[k] = i PROVE i \in QueuedIn
      BY <3>2, <3>3, <3>4, <3>5
    <3>6. ASSUME i \in QueuedIn PROVE \E k \in 1 .. Len(QueueIs) : QueueIs[k] = i
      <4>1. CASE i = FlipImage
        BY <3>2, <3>3, <4>1
      <4>2. ASSUME NEW k \in 1 .. Len(pool), i = pool[k] PROVE QueueIs[k + 1] = i /\ k + 1 \in 1 .. Len(QueueIs)
        BY <3>2, <3>3, <4>2
      <4> QED BY <3>4, <3>6, <4>1, <4>2
    <3> QED BY <2>2, <3>5, <3>6
  <2>3. CASE ~Dead /\ FlipImage = NoImage /\ AppImage # NoImage
    <3>1. QueueIs = <<AppImage>> /\ pool = <<>>
      BY <2>3, OneShown DEF QueueIs
    <3> QED BY <2>3, <3>1 DEF QueuedIn
  <2>4. CASE ~Dead /\ FlipImage = NoImage /\ AppImage = NoImage
    BY <2>4 DEF QueueIs, QueuedIn
  <2> QED BY <2>1, <2>2, <2>3, <2>4
<1> QED BY <1>4, <1>5

(* ... and these are the owners, when the backend has given away K.        *)
LEMMA OwnerMapping ==
    ASSUME Common, NEW K \in SUBSET Images
    PROVE  OwnersBeside(K) = [i \in Images |-> OwnerIs(K, i)]
<1>1. Acquiring = IF pc["app"] = "signal" THEN image["app"] ELSE NoImage
  BY DEF Acquiring
<1>2. ASSUME NEW i \in Images
      PROVE  (IF pc["app"] = "dead" THEN "nobody"
              ELSE IF \E k \in 1 .. Len(QueueShown) : QueueShown[k] = i THEN "queue"
              ELSE IF i \in K THEN "display"
              ELSE Unqueued(i)) = OwnerIs(K, i)
  <2>1. (\E k \in 1 .. Len(QueueShown) : QueueShown[k] = i) <=> ~Dead /\ i \in QueuedIn
    BY QueueMapping
  <2>2. /\ i \in held \/ (task = "release" /\ i \in todo) <=> i \in held \union Returning
        /\ status[i] \in {"FREE", "UNALLOCATED"} \/ (pc["app"] = "signal" /\ i = image["app"])
              <=> Usable(i) \/ i = Acquiring
    BY <1>1, <1>2, NoImageIsNone DEF Returning, Usable
  <2> HIDE DEF QueuedIn, Acquiring, Returning, Usable
  <2> QED BY <2>1, <2>2 DEF OwnerIs, Unqueued, Dead
<1> QED BY <1>2 DEF OwnersBeside

(* What a step may do to the queue and to the owner of an image, when the  *)
(* backend has K before and L after it.                                    *)
Moved(K, L, i, x, y) == /\ OwnerIs(K, i) = x
                        /\ \A j \in Images : OwnerIs(L, j)' = IF j = i THEN y ELSE OwnerIs(K, j)
OthersStay(K, L, i) == \A j \in Images : j # i => OwnerIs(L, j)' = OwnerIs(K, j)
Simulated(K, L) ==
    \/ QueueIs' = QueueIs /\ \A i \in Images : OwnerIs(L, i)' = OwnerIs(K, i)
    \/ /\ QueueIs' = QueueIs
       /\ \E i \in Images : \/ Moved(K, L, i, "engine", "app") \/ Moved(K, L, i, "app", "engine")
                            \/ Moved(K, L, i, "engine", "nobody") \/ Moved(K, L, i, "display", "engine")
    \/ \E i \in Images : Moved(K, L, i, "app", "queue") /\ QueueIs' = Append(QueueIs, i)
    \/ /\ QueueIs # <<>> /\ QueueIs' = Tail(QueueIs)
       /\ \E y \in {"engine", "display", "nobody"} : Moved(K, L, Head(QueueIs), "queue", y)
    \/ QueueIs' = <<>> /\ \A i \in Images : OwnerIs(L, i)' = "nobody"

(* The same of functions and sequences.                                    *)
Allowed(owner, queue, next, rest) ==
    \/ next = owner /\ rest = queue
    \/ /\ rest = queue
       /\ \E i \in Images : \/ owner[i] = "engine" /\ next = [owner EXCEPT ![i] = "app"]
                            \/ owner[i] = "app" /\ next = [owner EXCEPT ![i] = "engine"]
                            \/ owner[i] = "engine" /\ next = [owner EXCEPT ![i] = "nobody"]
                            \/ owner[i] = "display" /\ next = [owner EXCEPT ![i] = "engine"]
    \/ \E i \in Images : /\ owner[i] = "app" /\ next = [owner EXCEPT ![i] = "queue"]
                         /\ rest = Append(queue, i)
    \/ /\ queue # <<>> /\ rest = Tail(queue)
       /\ \E y \in {"engine", "display", "nobody"} : next = [owner EXCEPT ![Head(queue)] = y]
    \/ next = [i \in Images |-> "nobody"] /\ rest = <<>>

(* What the view of the images does, their owners and the queue do.        *)
LEMMA SimulatedIsAllowed ==
    ASSUME NEW K \in SUBSET Images, NEW L \in SUBSET Images, Simulated(K, L)
    PROVE  Allowed([i \in Images |-> OwnerIs(K, i)], QueueIs, [i \in Images |-> OwnerIs(L, i)'], QueueIs')
<1> DEFINE owner == [i \in Images |-> OwnerIs(K, i)]
           next == [i \in Images |-> OwnerIs(L, i)']
<1>1. ASSUME NEW i, NEW x, NEW y, Moved(K, L, i, x, y)
      PROVE  (i \in Images => owner[i] = x) /\ next = [owner EXCEPT ![i] = y]
  BY <1>1 DEF Moved
<1>2. CASE QueueIs' = QueueIs /\ \A i \in Images : OwnerIs(L, i)' = OwnerIs(K, i)
  BY <1>2 DEF Allowed
<1>3. ASSUME QueueIs' = QueueIs, NEW i \in Images,
             \/ Moved(K, L, i, "engine", "app") \/ Moved(K, L, i, "app", "engine")
             \/ Moved(K, L, i, "engine", "nobody") \/ Moved(K, L, i, "display", "engine")
      PROVE  Allowed(owner, QueueIs, next, QueueIs')
  <2>1. \/ owner[i] = "engine" /\ next = [owner EXCEPT ![i] = "app"]
        \/ owner[i] = "app" /\ next = [owner EXCEPT ![i] = "engine"]
        \/ owner[i] = "engine" /\ next = [owner EXCEPT ![i] = "nobody"]
        \/ owner[i] = "display" /\ next = [owner EXCEPT ![i] = "engine"]
    <3> HIDE DEF owner, next
    <3> QED BY <1>1, <1>3
  <2> HIDE DEF owner, next
  <2> QED BY <1>3, <2>1 DEF Allowed
<1>4. ASSUME NEW i \in Images, Moved(K, L, i, "app", "queue"), QueueIs' = Append(QueueIs, i)
      PROVE  Allowed(owner, QueueIs, next, QueueIs')
  <2>1. owner[i] = "app" /\ next = [owner EXCEPT ![i] = "queue"]
    BY <1>1, <1>4
  <2> HIDE DEF owner, next
  <2> QED BY <1>4, <2>1 DEF Allowed
<1>5. ASSUME QueueIs # <<>>, QueueIs' = Tail(QueueIs),
             NEW y \in {"engine", "display", "nobody"}, Moved(K, L, Head(QueueIs), "queue", y)
      PROVE  Allowed(owner, QueueIs, next, QueueIs')
  <2>1. next = [owner EXCEPT ![Head(QueueIs)] = y]
    BY <1>1, <1>5
  <2> HIDE DEF owner, next
  <2> QED BY <1>5, <2>1 DEF Allowed
<1>6. CASE QueueIs' = <<>> /\ \A i \in Images : OwnerIs(L, i)' = "nobody"
  <2>1. next = [i \in Images |-> "nobody"]
    BY <1>6
  <2> QED BY <1>6, <2>1 DEF Allowed
<1> HIDE DEF owner, next
<1> QED BY <1>2, <1>3, <1>4, <1>5, <1>6 DEF Simulated, owner, next

(* A step that changes no part of the view changes no owner.               *)
LEMMA StillOwned ==
    ASSUME view' = view, NEW K \in SUBSET Images
    PROVE  Simulated(K, K)
<1>1. UNCHANGED <<status, pool, held, FlipImage, AppImage, Acquiring, Returning, Dead>>
  BY DEF view
<1> QED BY <1>1 DEF Simulated, QueueIs, OwnerIs, QueuedIn, Usable

(* In the end nobody owns an image any more.                               *)
LEMMA NobodyOwns ==
    ASSUME Dead', NEW K \in SUBSET Images, NEW L \in SUBSET Images
    PROVE  Simulated(K, L)
BY DEF Simulated, QueueIs, OwnerIs

(* The oldest of the queue leaves it for the backend, for the engine, or   *)
(* for nobody.                                                             *)
LEMMA OldestLeaves ==
    ASSUME Common, ~Dead, ~Dead', NEW j \in Images, FlipImage = j \/ AppImage = j,
           FlipImage' = NoImage, AppImage' = NoImage, UNCHANGED <<pool, held, Acquiring, Returning>>,
           NEW K \in SUBSET Images, NEW L \in SUBSET Images, L \in {K, K \union {j}}, Apart(K),
           \A i \in Images : status'[i] = status[i] \/ (i = j /\ L = K /\ status'[i] = "FREE")
    PROVE  Simulated(K, L)
<1>1. /\ pool \in Seq(Images) /\ FlipImage \in Images \union {NoImage} /\ AppImage \in Images \union {NoImage}
      /\ AppImage # NoImage => FlipImage = NoImage /\ pool = <<>>
  BY OneShown
<1>2. PoolPends /\ PoolDiffers /\ FlipShows /\ AppShows /\ AcquiringHas /\ HeldAcquired /\ ReturningAcquired
  BY DEF Common, Owned
<1>3. QueueIs # <<>> /\ Head(QueueIs) = j /\ QueueIs' = Tail(QueueIs) /\ QueuedIn' = QueuedIn \ {j} /\ j \in QueuedIn
  <2>1. CASE FlipImage = j
    <3>1. QueueIs = <<j>> \o pool /\ AppImage = NoImage /\ QueueIs' = pool
      BY <1>1, <2>1, NoImageIsNone DEF QueueIs
    <3>2. <<j>> \o pool # <<>> /\ Head(<<j>> \o pool) = j /\ Tail(<<j>> \o pool) = pool
      BY <1>1
    <3>3. \A k \in 1 .. Len(pool) : pool[k] # j
      BY <1>2, <2>1, NoImageIsNone DEF FlipShows
    <3> QED BY <2>1, <3>1, <3>2, <3>3, NoImageIsNone DEF QueuedIn
  <2>2. CASE AppImage = j
    <3>1. QueueIs = <<j>> /\ FlipImage = NoImage /\ QueueIs' = <<>> /\ pool = <<>>
      BY <1>1, <2>2, NoImageIsNone DEF QueueIs
    <3> QED BY <2>2, <3>1, NoImageIsNone DEF QueuedIn
  <2> QED BY <2>1, <2>2
<1>4. status[j] = "PENDING" /\ j \notin held /\ j \notin Returning /\ j # Acquiring /\ j \notin K
  BY <1>2, NoImageIsNone DEF FlipShows, AppShows, HeldAcquired, ReturningAcquired, AcquiringHas, Apart
<1>5. OthersStay(K, L, j)
  BY <1>3 DEF OthersStay, OwnerIs, Usable
<1>6. OwnerIs(K, j) = "queue"
  BY <1>3 DEF OwnerIs
<1>7. OwnerIs(L, j)' \in {"engine", "display", "nobody"}
  BY <1>3, <1>4 DEF OwnerIs, Usable
<1>8. PICK y \in {"engine", "display", "nobody"} : OwnerIs(L, j)' = y
  BY <1>7
<1>9. Moved(K, L, j, "queue", y)
  BY <1>5, <1>6, <1>8 DEF Moved, OthersStay
<1> QED BY <1>3, <1>9 DEF Simulated

(* The backend gives an image back, and it is free.                        *)
LEMMA BackendFrees ==
    ASSUME Common, ~Dead, ~Dead', NEW K \in SUBSET Images, Apart(K), NEW j \in K,
           UNCHANGED <<pool, held, FlipImage, AppImage, Acquiring, Returning>>,
           status' = [status EXCEPT ![j] = "FREE"]
    PROVE  Simulated(K, K \ {j})
<1>1. /\ pool \in Seq(Images) /\ FlipImage \in Images \union {NoImage} /\ AppImage \in Images \union {NoImage}
      /\ status \in [Images -> Statuses]
  BY OneShown DEF Common, TypeOK
<1>2. AcquiringHas /\ ReturningAcquired
  BY DEF Common, Owned
<1>3. status[j] = "PENDING" /\ j # FlipImage /\ j # AppImage /\ (\A k \in 1 .. Len(pool) : pool[k] # j) /\ j \notin held
  BY DEF Apart
<1>4. j # Acquiring /\ j \notin Returning
  BY <1>2, <1>3, NoImageIsNone DEF AcquiringHas, ReturningAcquired
<1>5. QueueIs' = QueueIs /\ QueuedIn' = QueuedIn /\ j \notin QueuedIn
  BY <1>3 DEF QueueIs, QueuedIn
<1>6. OwnerIs(K, j) = "display" /\ OwnerIs(K \ {j}, j)' = "engine"
  BY <1>1, <1>3, <1>4, <1>5 DEF OwnerIs, Usable
<1>7. OthersStay(K, K \ {j}, j)
  BY <1>1, <1>5 DEF OthersStay, OwnerIs, Usable
<1>8. Moved(K, K \ {j}, j, "display", "engine")
  BY <1>6, <1>7 DEF Moved, OthersStay
<1> QED BY <1>5, <1>8 DEF Simulated

-----------------------------------------------------------------------------
(* What each step of the base does to the view of an image. *)
Sets(i, x) == status' = [status EXCEPT ![i] = x]
Selects(i) == /\ Usable(i) /\ Sets(i, "ACQUIRED") /\ Acquiring = NoImage /\ Acquiring' = i
              /\ UNCHANGED <<pool, held, FlipImage, AppImage, Returning, Dead>>
Spoils(i) == /\ Usable(i) /\ (Sets(i, "INVALID") \/ Sets(i, "UNALLOCATED"))
             /\ UNCHANGED <<pool, held, FlipImage, AppImage, Acquiring, Returning, Dead>>
Hands(i) == /\ Acquiring = i /\ Acquiring' = NoImage /\ Returning = {} /\ held' \in {held, held \union {i}}
            /\ UNCHANGED <<status, pool, FlipImage, AppImage, Returning, Dead>>
Refuses(i) == /\ i \in held /\ Returning = {} /\ Sets(i, "FREE") /\ held' = held \ {i}
              /\ UNCHANGED <<pool, FlipImage, AppImage, Acquiring, Returning, Dead>>
Queues(i) == /\ i \in held /\ Returning = {} /\ Sets(i, "PENDING") /\ held' = held \ {i} /\ AppImage = NoImage
             /\ UNCHANGED <<FlipImage, Acquiring, Returning, Dead>>
             /\ \/ pool' = Append(pool, i) /\ UNCHANGED AppImage
                \/ pool = <<>> /\ FlipImage = NoImage /\ AppImage' = i /\ UNCHANGED pool
Pops == /\ FlipImage = NoImage /\ AppImage = NoImage
        /\ pool # <<>> /\ FlipImage' = Head(pool) /\ pool' = Tail(pool)
        /\ UNCHANGED <<status, held, AppImage, Acquiring, Returning, Dead>>
Drops == /\ FlipImage # NoImage /\ FlipImage' = NoImage
         /\ UNCHANGED <<status, pool, held, AppImage, Acquiring, Returning, Dead>>
Takes(S) == /\ S \subseteq held /\ held' = held \ S /\ Returning = {} /\ Returning' = S
            /\ UNCHANGED <<status, pool, FlipImage, AppImage, Acquiring, Dead>>
Frees(i) == /\ i \in Returning /\ Returning' = Returning \ {i} /\ Sets(i, "FREE")
            /\ UNCHANGED <<pool, held, FlipImage, AppImage, Acquiring, Dead>>
Withdraws(i) == /\ Sets(i, IF status[i] = "FREE" THEN "INVALID" ELSE status[i])
                /\ UNCHANGED <<pool, held, FlipImage, AppImage, Acquiring, Returning, Dead>>

(* A queue of distinct images has room for one that is not in it.          *)
LEMMA QueueTakesIt ==
    ASSUME NEW s \in Seq(Images), \A j, k \in 1 .. Len(s) : j # k => s[j] # s[k],
           NEW i \in Images, \A k \in 1 .. Len(s) : s[k] # i
    PROVE  Len(s) < PoolCapacity
<1> SUFFICES ASSUME Len(s) >= PoolCapacity
             PROVE  FALSE
  BY SwapchainAssumption
<1> DEFINE Slots == 1 .. Len(s)
           Others == Images \ {i}
<1>1. Len(s) \in Nat /\ s \in [Slots -> Others]
  OBVIOUS
<1>2. IsFiniteSet(Slots) /\ Cardinality(Slots) = Len(s)
  BY <1>1, FS_Interval
<1>3. IsFiniteSet(Others) /\ Cardinality(Others) = NumImages - 1
  BY ImagesFinite, FS_RemoveElement
<1>4. Cardinality(Others) < Cardinality(Slots)
  BY <1>1, <1>2, <1>3, SwapchainAssumption
<1>5. PICK x, y \in Slots : x # y /\ s[x] = s[y]
  <2> HIDE DEF Slots, Others
  <2>1. s \in [Slots -> Others] /\ IsFiniteSet(Slots) /\ IsFiniteSet(Others)
    BY <1>1, <1>2, <1>3
  <2> QED BY ONLY <1>4, <2>1, FS_PigeonHole
<1> QED BY <1>5

(* The pool has room for an image the application presents.                *)
LEMMA PoolTakesIt ==
    ASSUME Common, pc["app"] = "notify"
    PROVE  Len(pool) < PoolCapacity
<1>1. TypeOK /\ HaveImages /\ PoolPends /\ PoolDiffers /\ HeldAcquired
  BY DEF Common, Owned, Dead
<1>2. image["app"] \in Images /\ image["app"] \in held
  BY <1>1 DEF HaveImages, TypeOK, Threads, Requesting
<1>3. \A k \in 1 .. Len(pool) : pool[k] # image["app"]
  BY <1>1, <1>2 DEF PoolPends, HeldAcquired
<1> QED BY <1>1, <1>2, <1>3, QueueTakesIt DEF TypeOK, PoolDiffers

(* Every step that is not quiet is one of these.                           *)
LEMMA Effects ==
    ASSUME Common, LoudStep
    PROVE  /\ ~Dead
           /\ \/ view' = view
              \/ \E i \in Images : \/ Selects(i) \/ Spoils(i) \/ Hands(i) \/ Refuses(i) \/ Queues(i)
                                   \/ Frees(i) \/ Withdraws(i)
              \/ Pops \/ Drops \/ Dead'
              \/ \E S \in SUBSET Images : Takes(S)
<1> DEFINE Goal == /\ ~Dead
                   /\ \/ view' = view
                      \/ \E i \in Images : \/ Selects(i) \/ Spoils(i) \/ Hands(i) \/ Refuses(i) \/ Queues(i)
                                           \/ Frees(i) \/ Withdraws(i)
                      \/ Pops \/ Drops \/ Dead'
                      \/ \E S \in SUBSET Images : Takes(S)
<1>a. TypeOK /\ Places /\ OnePresenter /\ HaveImages
  BY DEF Common
<1> USE DEF FlipImage, AppImage, Acquiring, Returning, Dead, Sets, TypeOK, Threads, Shared, Shown,
            imageVars, queueVars, presentVars, lockVars, lifeVars, threadVars, callVars,
            Goto, Return, EndAcquire, EndPresent
<1>1. CASE SelectImage
  <2>1. PICK k \in Images : /\ Usable(RoundRobin(k))
                            /\ status' = [status EXCEPT ![RoundRobin(k)] = "ACQUIRED"]
                            /\ image' = [image EXCEPT !["app"] = RoundRobin(k)]
    BY <1>1 DEF SelectImage
  <2>2. PICK i \in Images : /\ Usable(i) /\ status' = [status EXCEPT ![i] = "ACQUIRED"]
                            /\ image' = [image EXCEPT !["app"] = i]
    BY <1>a, <2>1, RoundRobinStays
  <2>3. Selects(i) /\ ~Dead
    BY <1>1, <1>a, <2>2 DEF SelectImage, Selects
  <2> QED BY <2>3
<1>2. CASE SelectFails
  <2>1. PICK k \in Images, s \in {"UNALLOCATED", "INVALID"} :
            status[RoundRobin(k)] = "UNALLOCATED" /\ status' = [status EXCEPT ![RoundRobin(k)] = s]
    BY <1>2 DEF SelectFails
  <2>2. PICK i \in Images : status[i] = "UNALLOCATED" /\ status' = [status EXCEPT ![i] = s]
    BY <1>a, <2>1, RoundRobinStays
  <2>3. task = "acquire"
    BY <1>2, <1>a DEF SelectFails, Places, Acquires
  <2>4. Spoils(i) /\ ~Dead
    BY <1>2, <1>a, <2>2, <2>3 DEF SelectFails, Spoils, Usable
  <2> QED BY <2>4
<1>3. CASE SignalAcquired
  <2>1. image["app"] \in Images /\ task = "acquire"
    BY <1>3, <1>a DEF SignalAcquired, HaveImages, Places, Acquires
  <2>2. Hands(image["app"]) /\ ~Dead
    BY <1>3, <1>a, <2>1 DEF SignalAcquired, Hands
  <2> QED BY <2>1, <2>2
<1>4. CASE NotifyOutOfDate
  <2>1. image["app"] \in held /\ task # "release"
    BY <1>4, <1>a DEF NotifyOutOfDate, HaveImages, Places, Requesting
  <2>2. Refuses(image["app"]) /\ ~Dead
    BY <1>4, <1>a, <2>1 DEF NotifyOutOfDate, Refuses
  <2> QED BY <1>a, <2>1, <2>2
<1>5. CASE NotifyThread
  <2>1. image["app"] \in held /\ task # "release" /\ pool' = Append(pool, image["app"])
    BY <1>5, <1>a, PoolTakesIt DEF NotifyThread, HaveImages, Places, Requesting
  <2>2. Queues(image["app"]) /\ ~Dead
    BY <1>5, <1>a, <2>1 DEF NotifyThread, Queues, GivenAway, OnePresenter
  <2> QED BY <1>a, <2>1, <2>2
<1>6. CASE NotifyInline
  <2>1. image["app"] \in held /\ task = "present" /\ pool = <<>> /\ pc["flip"] = "exited"
    BY <1>6, <1>a DEF NotifyInline, HaveImages, Places, OnePresenter, Requesting
  <2>2. Queues(image["app"]) /\ ~Dead
    BY <1>6, <1>a, <2>1 DEF NotifyInline, Queues, GivenAway, OnePresenter
  <2> QED BY <1>a, <2>1, <2>2
<1>7. CASE FlipPops
  <2>1. ~(pc["app"] \in Shown /\ task = "present") /\ ~Dead
    BY <1>7, <1>a DEF FlipPops, OnePresenter
  <2>2. Pops
    BY <1>7, <1>a, <2>1 DEF FlipPops, Pops
  <2> QED BY <2>1, <2>2
<1>8. CASE FlipFence
  <2>1. ~Dead /\ image["flip"] # NoImage
    BY <1>8, <1>a DEF FlipFence, OnePresenter, HaveImages
  <2>2. CASE pc'["flip"] = "call"
    BY <1>8, <1>a, <2>1, <2>2 DEF FlipFence, view
  <2>3. CASE pc'["flip"] = "abandon"
    BY <1>8, <1>a, <2>1, <2>3 DEF FlipFence, Drops
  <2> QED BY <1>8, <1>a, <2>2, <2>3 DEF FlipFence
<1>9. ASSUME NEW S \in SUBSET Images, ReleaseImages(S) PROVE Goal
  <2>1. Takes(S) /\ ~Dead
    BY <1>9, <1>a DEF ReleaseImages, Takes, Places
  <2> QED BY <2>1
<1>10. CASE ReleaseOne
  <2>1. PICK i \in todo : status' = [status EXCEPT ![i] = "FREE"] /\ todo' = todo \ {i}
    BY <1>10, <1>a DEF ReleaseOne, ReleaseStatus, OnePresenter
  <2>2. Frees(i) /\ ~Dead
    BY <1>10, <1>a, <2>1 DEF ReleaseOne, Frees, Places
  <2> QED BY <1>a, <2>1, <2>2
<1>11. CASE DeprecateImage
  <2>1. PICK i \in todo : status' = [status EXCEPT ![i] = IF status[i] = "FREE" THEN "INVALID" ELSE status[i]]
    BY <1>11 DEF DeprecateImage
  <2>2. Withdraws(i) /\ ~Dead
    BY <1>11, <1>a, <2>1 DEF DeprecateImage, Withdraws, Places
  <2> QED BY <1>a, <2>1, <2>2
<1>12. CASE DestroyImages
  BY <1>12, <1>a DEF DestroyImages
<1> QED
  BY <1>1, <1>2, <1>3, <1>4, <1>5, <1>6, <1>7, <1>8, <1>9, <1>10, <1>11, <1>12 DEF LoudStep

(* A step of the base is one the contract allows, whatever K the backend   *)
(* has given away.                                                         *)
LEMMA LoudSimulated ==
    ASSUME Common, LoudStep, view' # view, ~Dead', NEW K \in SUBSET Images, Apart(K)
    PROVE  Simulated(K, K)
<1>1. ~Dead
  BY Effects
<1>2. PoolPends /\ PoolDiffers /\ FlipShows /\ AppShows /\ AcquiringHas /\ HeldAcquired /\ ReturningAcquired
  BY <1>1 DEF Common, Owned
<1>3. /\ status \in [Images -> Statuses] /\ held \subseteq Images /\ pool \in Seq(Images)
      /\ FlipImage \in Images \union {NoImage} /\ AppImage \in Images \union {NoImage}
      /\ AppImage # NoImage => FlipImage = NoImage /\ pool = <<>>
  BY OneShown DEF Common, TypeOK
<1>4. \A i \in QueuedIn : i \in Images /\ status[i] = "PENDING" /\ i \notin held /\ i \notin Returning /\ i # Acquiring
  BY <1>2, <1>3, NoImageIsNone DEF QueuedIn, PoolPends, FlipShows, AppShows, AcquiringHas, HeldAcquired, ReturningAcquired
<1>5. \A i \in K : status[i] = "PENDING" /\ i \notin QueuedIn /\ i \notin held /\ i \notin Returning /\ i # Acquiring
  BY <1>1, <1>2, NoImageIsNone DEF Apart, QueuedIn, AcquiringHas, ReturningAcquired
<1>6. /\ \A i \in Images : OwnerIs(K, i) = IF i \in QueuedIn THEN "queue"
                                         ELSE IF i \in K THEN "display"
                                         ELSE IF i \in held \union Returning THEN "app"
                                         ELSE IF Usable(i) \/ i = Acquiring THEN "engine" ELSE "nobody"
      /\ \A i \in Images : OwnerIs(K, i)' = IF i \in QueuedIn' THEN "queue"
                                          ELSE IF i \in K THEN "display"
                                          ELSE IF i \in held' \union Returning' THEN "app"
                                          ELSE IF Usable(i)' \/ i = Acquiring' THEN "engine" ELSE "nobody"
  BY <1>1 DEF OwnerIs
<1>q. /\ QueueIs = IF FlipImage # NoImage THEN <<FlipImage>> \o pool
                   ELSE IF AppImage # NoImage THEN <<AppImage>> ELSE pool
      /\ QueueIs' = IF FlipImage' # NoImage THEN <<FlipImage'>> \o pool'
                    ELSE IF AppImage' # NoImage THEN <<AppImage'>> ELSE pool'
  BY <1>1 DEF QueueIs
<1>7. ASSUME UNCHANGED <<pool, FlipImage, AppImage>> PROVE UNCHANGED <<QueueIs, QueuedIn>>
  BY <1>q, <1>7 DEF QueuedIn
<1>8. Acquiring # NoImage => status[Acquiring] = "ACQUIRED" /\ Acquiring \notin held
  BY <1>2 DEF AcquiringHas
<1>9. /\ \A i \in held : status[i] = "ACQUIRED"
      /\ \A i \in Returning : status[i] = "ACQUIRED" /\ i \notin held
  BY <1>2 DEF HeldAcquired, ReturningAcquired
<1>10. ASSUME NEW i \in Images, Selects(i) PROVE Simulated(K, K)
  <2>1. \A j \in Images : OwnerIs(K, j)' = OwnerIs(K, j)
    BY <1>3, <1>4, <1>5, <1>6, <1>7, <1>9, <1>10, NoImageIsNone DEF Selects, Sets, Usable
  <2> QED BY <1>7, <1>10, <2>1 DEF Selects, Simulated
<1>11. ASSUME NEW i \in Images, Spoils(i) PROVE Simulated(K, K)
  <2>1. OwnerIs(K, i) = "engine"
    BY <1>4, <1>5, <1>6, <1>9, <1>11 DEF Spoils, Usable
  <2>2. \A j \in Images : j # i => OwnerIs(K, j)' = OwnerIs(K, j)
    BY <1>3, <1>6, <1>7, <1>11 DEF Spoils, Sets, Usable
  <2>3. OwnerIs(K, i)' \in {"engine", "nobody"}
    BY <1>3, <1>4, <1>5, <1>6, <1>7, <1>9, <1>11 DEF Spoils, Sets, Usable
  <2> QED BY <1>7, <1>11, <2>1, <2>2, <2>3 DEF Spoils, Simulated, Moved
<1>12. ASSUME NEW i \in Images, Hands(i) PROVE Simulated(K, K)
  <2>1. OwnerIs(K, i) = "engine" /\ ~Usable(i)
    BY <1>4, <1>5, <1>6, <1>8, <1>12, NoImageIsNone DEF Hands, Usable
  <2>2. \A j \in Images : j # i => OwnerIs(K, j)' = OwnerIs(K, j)
    BY <1>6, <1>7, <1>12, NoImageIsNone DEF Hands, Usable
  <2>3. OwnerIs(K, i)' \in {"app", "nobody"}
    BY <1>4, <1>5, <1>6, <1>7, <1>12, <2>1, NoImageIsNone DEF Hands, Usable
  <2> QED BY <1>7, <1>12, <2>1, <2>2, <2>3 DEF Hands, Simulated, Moved
<1>13. ASSUME NEW i \in Images, Refuses(i) PROVE Simulated(K, K)
  <2>1. i \notin QueuedIn /\ i \notin K /\ OwnerIs(K, i) = "app"
    BY <1>4, <1>5, <1>6, <1>13 DEF Refuses
  <2>2. \A j \in Images : j # i => OwnerIs(K, j)' = OwnerIs(K, j)
    BY <1>3, <1>6, <1>7, <1>13 DEF Refuses, Sets, Usable
  <2>3. OwnerIs(K, i)' = "engine"
    BY <1>3, <1>6, <1>7, <1>13, <2>1 DEF Refuses, Sets, Usable
  <2> QED BY <1>7, <1>13, <2>1, <2>2, <2>3 DEF Refuses, Simulated, Moved
<1>14. ASSUME NEW i \in Images, Queues(i) PROVE Simulated(K, K)
  <2>1. i \notin QueuedIn /\ i \notin K /\ OwnerIs(K, i) = "app"
    BY <1>4, <1>5, <1>6, <1>14 DEF Queues
  <2>2. QueueIs' = Append(QueueIs, i) /\ QueuedIn' = QueuedIn \union {i}
    <3>1. CASE pool' = Append(pool, i) /\ UNCHANGED <<FlipImage, AppImage>>
      <4>1. {pool'[k] : k \in 1 .. Len(pool')} = {pool[k] : k \in 1 .. Len(pool)} \union {i}
        BY <1>3, <3>1
      <4>2. FlipImage # NoImage => <<FlipImage>> \o Append(pool, i) = Append(<<FlipImage>> \o pool, i)
        BY <1>3
      <4>3. QueueIs' = Append(QueueIs, i)
        BY <1>q, <1>14, <3>1, <4>2 DEF Queues
      <4> QED BY <3>1, <4>1, <4>3 DEF QueuedIn
    <3>2. CASE pool = <<>> /\ FlipImage = NoImage /\ AppImage' = i /\ UNCHANGED <<FlipImage, pool>>
      BY <1>q, <1>14, <3>2, NoImageIsNone DEF Queues, QueuedIn
    <3> QED BY <1>14, <3>1, <3>2 DEF Queues
  <2>3. \A j \in Images : j # i => OwnerIs(K, j)' = OwnerIs(K, j)
    BY <1>3, <1>6, <1>14, <2>2 DEF Queues, Sets, Usable
  <2>4. OwnerIs(K, i)' = "queue"
    BY <1>6, <2>2
  <2> QED BY <2>1, <2>2, <2>3, <2>4 DEF Simulated, Moved
<1>15. ASSUME NEW i \in Images, Frees(i) PROVE Simulated(K, K)
  <2>1. i \notin QueuedIn /\ i \notin K /\ i \notin held /\ OwnerIs(K, i) = "app"
    BY <1>4, <1>5, <1>6, <1>9, <1>15 DEF Frees
  <2>2. \A j \in Images : j # i => OwnerIs(K, j)' = OwnerIs(K, j)
    BY <1>3, <1>6, <1>7, <1>15 DEF Frees, Sets, Usable
  <2>3. OwnerIs(K, i)' = "engine"
    BY <1>3, <1>6, <1>7, <1>15, <2>1 DEF Frees, Sets, Usable
  <2> QED BY <1>7, <1>15, <2>1, <2>2, <2>3 DEF Frees, Simulated, Moved
<1>16. ASSUME NEW i \in Images, Withdraws(i) PROVE Simulated(K, K)
  <2>1. \A j \in Images : j # i => OwnerIs(K, j)' = OwnerIs(K, j)
    BY <1>3, <1>6, <1>7, <1>16 DEF Withdraws, Sets, Usable
  <2>2. CASE status[i] = "FREE"
    <3>1. OwnerIs(K, i) = "engine" /\ OwnerIs(K, i)' = "nobody"
      BY <1>3, <1>4, <1>5, <1>6, <1>7, <1>8, <1>9, <1>16, <2>2, NoImageIsNone DEF Withdraws, Sets, Usable
    <3> QED BY <1>7, <1>16, <2>1, <3>1 DEF Withdraws, Simulated, Moved
  <2>3. CASE status[i] # "FREE"
    <3>1. OwnerIs(K, i)' = OwnerIs(K, i)
      BY <1>3, <1>6, <1>7, <1>16, <2>3 DEF Withdraws, Sets, Usable
    <3> QED BY <1>7, <1>16, <2>1, <3>1 DEF Withdraws, Simulated
  <2> QED BY <2>2, <2>3
<1>17. CASE Pops
  <2>1. QueueIs' = QueueIs /\ QueuedIn' = QueuedIn
    <3>1. /\ pool # <<>> /\ Head(pool) \in Images /\ FlipImage' = Head(pool) /\ pool' = Tail(pool)
          /\ FlipImage = NoImage /\ AppImage = NoImage /\ AppImage' = NoImage
      BY <1>3, <1>17 DEF Pops
    <3>2. <<Head(pool)>> \o Tail(pool) = pool
      BY <1>3, <3>1
    <3>3. {pool[k] : k \in 1 .. Len(pool)} = {Tail(pool)[k] : k \in 1 .. Len(Tail(pool))} \union {Head(pool)}
      <4>1. /\ Len(pool) \in Nat /\ Len(pool) >= 1 /\ Len(Tail(pool)) = Len(pool) - 1 /\ Head(pool) = pool[1]
            /\ \A k \in 1 .. Len(pool) - 1 : Tail(pool)[k] = pool[k + 1]
        BY <1>3, <3>1
      <4>2. ASSUME NEW k \in 1 .. Len(pool)
            PROVE  pool[k] \in {Tail(pool)[j] : j \in 1 .. Len(Tail(pool))} \union {Head(pool)}
        <5>1. k = 1 \/ (k - 1 \in 1 .. Len(pool) - 1 /\ Tail(pool)[k - 1] = pool[k])
          BY <4>1
        <5> QED BY <4>1, <5>1
      <4>3. ASSUME NEW k \in 1 .. Len(Tail(pool))
            PROVE  Tail(pool)[k] \in {pool[j] : j \in 1 .. Len(pool)}
        <5>1. k + 1 \in 1 .. Len(pool)
          BY <4>1
        <5> QED BY <4>1, <5>1
      <4>4. Head(pool) \in {pool[j] : j \in 1 .. Len(pool)}
        BY <4>1
      <4> QED BY <4>2, <4>3, <4>4
    <3>4. FlipImage' # NoImage
      BY <3>1, NoImageIsNone
    <3>5. QueueIs' = QueueIs
      BY <1>q, <3>1, <3>2, <3>4
    <3>6. QueuedIn = {pool[k] : k \in 1 .. Len(pool)}
      BY <3>1 DEF QueuedIn
    <3>7. QueuedIn' = {pool'[k] : k \in 1 .. Len(pool')} \union {Head(pool)}
      BY <3>1, <3>4 DEF QueuedIn
    <3>8. {pool'[k] : k \in 1 .. Len(pool')} = {Tail(pool)[k] : k \in 1 .. Len(Tail(pool))}
      BY <3>1
    <3> QED BY <3>3, <3>5, <3>6, <3>7, <3>8
  <2>2. \A j \in Images : OwnerIs(K, j)' = OwnerIs(K, j)
    BY <1>6, <1>17, <2>1 DEF Pops, Usable
  <2> QED BY <2>1, <2>2 DEF Simulated
<1>18. CASE Drops
  <2>1. PICK i \in Images : i = FlipImage
    BY <1>3, <1>18 DEF Drops
  <2>2. AppImage' = NoImage
    BY <1>3, <1>18 DEF Drops
  <2>3. UNCHANGED <<pool, held, Acquiring, Returning, status>> /\ FlipImage' = NoImage
    BY <1>18 DEF Drops
  <2> QED BY <1>1, <2>1, <2>2, <2>3, OldestLeaves
<1>19. ASSUME NEW S \in SUBSET Images, Takes(S) PROVE Simulated(K, K)
  <2>1. \A j \in Images : OwnerIs(K, j)' = OwnerIs(K, j)
    BY <1>6, <1>7, <1>19 DEF Takes, Usable
  <2> QED BY <1>7, <1>19, <2>1 DEF Takes, Simulated
<1> QED
  BY <1>10, <1>11, <1>12, <1>13, <1>14, <1>15, <1>16, <1>17, <1>18, <1>19, Effects

(* So is every step of the base, quiet or not.                             *)
LEMMA BaseSimulated ==
    ASSUME Common, BaseStep, NEW K \in SUBSET Images, Apart(K)
    PROVE  Simulated(K, K)
<1>1. CASE view' = view
  BY <1>1, StillOwned
<1>2. CASE Dead'
  BY <1>2, NobodyOwns
<1>3. CASE LoudStep /\ view' # view /\ ~Dead'
  BY <1>3, LoudSimulated
<1> QED BY <1>1, <1>2, <1>3, QuietSteps

(* The oldest leaves the queue when present_image() returns.                *)
LEMMA ShownLeaves ==
    ASSUME Common, NEW t \in {"app", "flip"}, pc[t] \in Shown, t = "app" => task = "present",
           PresentReturns(t), UNCHANGED <<pool, held, todo>>,
           NEW j \in Images, FlipImage = j \/ AppImage = j,
           NEW K \in SUBSET Images, NEW L \in SUBSET Images, L \in {K, K \union {j}}, Apart(K),
           \A i \in Images : status'[i] = status[i] \/ (i = j /\ L = K /\ status'[i] = "FREE")
    PROVE  Simulated(K, L)
<1>1. TypeOK /\ Places /\ OnePresenter
  BY DEF Common
<1> USE DEF TypeOK, Threads
<1>2. /\ \A u \in Threads \ {t} : pc'[u] = pc[u]
      /\ t = "app" => pc'[t] = "idle" /\ task' = "none"
      /\ t = "flip" => pc'[t] = "top" /\ task' = task
      /\ image' = [image EXCEPT ![t] = NoImage]
  BY <1>1 DEF PresentReturns, Return, Goto
<1>3. ~Dead /\ ~Dead'
  BY <1>1, <1>2 DEF Dead, OnePresenter, Shown
<1>4. FlipImage' = NoImage /\ AppImage' = NoImage
  BY <1>1, <1>2 DEF FlipImage, AppImage, OnePresenter, Shown
<1>5. Acquiring' = Acquiring /\ Returning' = Returning
  BY <1>1, <1>2 DEF Acquiring, Returning, Shown
<1> QED BY <1>3, <1>4, <1>5, OldestLeaves

-----------------------------------------------------------------------------
(* The images the compositor has, or has given back to somebody who has    *)
(* not heard of it yet, are apart from all others and from each other.     *)
WaylandTypes ==
    /\ explicit \in BOOLEAN
    /\ wire \subseteq Images \union {Frame, Other}
    /\ bufferQueue \subseteq Images
    /\ atCompositor \subseteq Images
ReleasesDiffer ==
    /\ atCompositor \intersect wire = {}
    /\ atCompositor \intersect bufferQueue = {}
    /\ wire \intersect bufferQueue = {}
Theirs == atCompositor \union InRelease

(* Without explicit synchronisation the page flip thread has waited.       *)
Waited == presentMode = "FIFO" /\ ~explicit /\ pc["flip"] \in Finishing => ~payload[image["flip"]]

WaylandInv == Common /\ WaylandTypes /\ ReleasesDiffer /\ Apart(Theirs) /\ Waited /\ GoesOutFinished

(* What the invariant promises.                                            *)
LEMMA WaylandPromises == WaylandInv => BufferIsTheirs /\ GoesOutFinished
<1> SUFFICES ASSUME WaylandInv PROVE BufferIsTheirs /\ GoesOutFinished
  OBVIOUS
<1>1. atCompositor \intersect InRelease = {}
  BY DEF WaylandInv, ReleasesDiffer, InRelease
<1>2. ASSUME ~Dead, NEW i \in Theirs PROVE status[i] = "PENDING" /\ i \notin held
  BY <1>2 DEF WaylandInv, Apart
<1> QED BY <1>1, <1>2 DEF WaylandInv, BufferIsTheirs, Theirs, Dead

(* Nothing is at the compositor to begin with.                             *)
LEMMA WaylandStarts == WInit => WaylandInv
<1> SUFFICES ASSUME WInit PROVE WaylandInv
  OBVIOUS
<1>1. Init
  BY DEF WInit
<1>2. Common
  BY <1>1, InitIsCommon, WaylandAssumption
<1>3. WaylandTypes /\ ReleasesDiffer /\ Theirs = {}
  BY WaylandAssumption DEF WInit, WaylandTypes, ReleasesDiffer, Theirs, InRelease
<1>4. Waited
  BY <1>1 DEF Init, Waited, Finishing
<1>5. Apart(Theirs) /\ GoesOutFinished
  BY <1>3 DEF Apart, WInit, GoesOutFinished
<1> QED BY <1>2, <1>3, <1>4, <1>5 DEF WaylandInv

(* A step keeps the invariant, and is one the contract allows.              *)
WaylandSimulated == \E K, L \in SUBSET Images : K = Theirs /\ L = Theirs' /\ Simulated(K, L)
WaylandKept == WaylandInv' /\ WaylandSimulated

(* A step of the base touches nothing the compositor has: it starts no     *)
(* payload of an image there.                                              *)
LEMMA WaylandBaseStep ==
    ASSUME WaylandInv, DisplayKept(BaseStep)
    PROVE  WaylandKept
<1>1. BaseStep /\ Common /\ UNCHANGED <<explicit, wire, bufferQueue, atCompositor, fenced>>
  BY DEF WaylandInv, DisplayKept, waylandVars, displayVars, compositorVars
<1>2. Common' /\ PayloadsGrow
  BY <1>1, CommonStep, PayloadStep
<1>3. PICK K \in SUBSET Images : K = Theirs /\ Theirs' = K /\ Apart(K)
  BY <1>1 DEF WaylandInv, WaylandTypes, Theirs, InRelease
<1>4. Apart(K)'
  BY <1>1, <1>3, ApartStep
<1>5. Apart(Theirs)'
  BY <1>3, <1>4 DEF Apart
<1>6. WaylandTypes' /\ ReleasesDiffer'
  BY <1>1 DEF WaylandInv, WaylandTypes, ReleasesDiffer
<1>7. Waited'
  <2> SUFFICES ASSUME presentMode = "FIFO", ~explicit, pc'["flip"] \in Finishing
               PROVE  ~payload'[image'["flip"]]
    BY <1>1, <1>2 DEF PayloadsGrow, Waited
  <2>1. image'["flip"] = image["flip"]
    BY <1>2 DEF PayloadsGrow
  <2>2. CASE pc["flip"] = "fence" /\ ~payload[image["flip"]] /\ UNCHANGED payload
    BY <2>1, <2>2
  <2>3. CASE pc["flip"] \in Finishing
    <3>1. ~payload[image["flip"]]
      BY <2>3 DEF WaylandInv, Waited
    <3>2. FlipImage = image["flip"] /\ image["flip"] \in Images /\ image["flip"] # NoImage
      BY <1>1, <2>3 DEF FlipImage, Common, HaveImages, TypeOK, Shown, Finishing, Threads
    <3>3. ~Dead => image["flip"] \notin held
      BY <1>1, <3>2 DEF Common, Owned, FlipShows, HeldAcquired
    <3> QED BY <1>2, <2>1, <3>1, <3>2, <3>3 DEF PayloadsGrow
  <2> QED BY <1>2, <2>2, <2>3 DEF PayloadsGrow
<1>8. GoesOutFinished'
  <2>1. \A i \in atCompositor : i \in Images /\ i \notin held
    BY DEF WaylandInv, WaylandTypes, Apart, Theirs
  <2> QED BY <1>1, <1>2, <2>1 DEF WaylandInv, PayloadsGrow, GoesOutFinished
<1>9. WaylandSimulated
  <2>1. Simulated(K, K)
    BY <1>1, <1>3, BaseSimulated
  <2> QED BY <1>3, <2>1 DEF WaylandSimulated
<1> QED BY <1>2, <1>5, <1>6, <1>7, <1>8, <1>9 DEF WaylandInv, WaylandKept

(* A thread moves on, or an event does, and no image is shown or released. *)
LEMMA WaylandKeeps ==
    ASSUME WaylandInv, Moves, Counted,
           UNCHANGED <<imageVars, queueVars, presentVars, lockVars, lifeVars, held, image, timeout, left, callVars>>,
           UNCHANGED explicit,
           explicit \/ (pc'["flip"] \in Finishing => pc["flip"] \in Finishing),
           WaylandTypes', ReleasesDiffer', Theirs' = Theirs,
           atCompositor' \subseteq atCompositor, atCompositor' \intersect fenced \subseteq fenced'
    PROVE  WaylandKept
<1>1. Common /\ Apart(Theirs) /\ Waited /\ GoesOutFinished
  BY DEF WaylandInv
<1>2. Common' /\ view' = view
  BY <1>1, MoveKeeps
<1>3. Apart(Theirs)'
  BY <1>1, <1>2 DEF view, Apart
<1>4. payload' = payload /\ presentMode' = presentMode /\ image' = image
  BY DEF imageVars, lifeVars
<1>5. Waited'
  BY <1>1, <1>4 DEF Waited
<1>6. GoesOutFinished'
  BY <1>1, <1>4 DEF GoesOutFinished, Counted
<1>7. WaylandSimulated
  <2>1. PICK K \in SUBSET Images : K = Theirs
    BY DEF WaylandInv, WaylandTypes, Theirs, InRelease
  <2>2. Simulated(K, K)
    BY <1>2, StillOwned
  <2> QED BY <2>1, <2>2 DEF WaylandSimulated
<1> QED BY <1>2, <1>3, <1>5, <1>6, <1>7 DEF WaylandInv, WaylandKept

(* The wait of a caller of get_free_buffer() ends.                         *)
LEMMA WaylandReturns ==
    ASSUME WaylandInv, NEW t \in {"app", "heir"}, NEW r \in Results, pc[t] \in Waits,
           WaitReturns(t, r), freeSem' \in Nat,
           UNCHANGED <<imageVars, queueVars, error, presentVars, statusLock, lifeVars, held, failures, image, todo>>,
           UNCHANGED waylandVars
    PROVE  WaylandKept
<1>1. Common /\ Apart(Theirs) /\ Waited /\ GoesOutFinished /\ WaylandTypes /\ ReleasesDiffer
  BY DEF WaylandInv
<1>2. Common' /\ view' = view
  BY <1>1, ReturnKeeps
<1>3. UNCHANGED <<explicit, wire, bufferQueue, atCompositor, fenced, payload, presentMode, image, error>>
  BY DEF waylandVars, displayVars, compositorVars, imageVars, lifeVars
<1>4. pc'["flip"] = pc["flip"]
  BY <1>1 DEF WaitReturns, EndAcquire, Return, Goto, DrainedLabel, Common, TypeOK, Threads
<1>5. Apart(Theirs)'
  <2>1. Theirs' = Theirs
    BY <1>3 DEF Theirs, InRelease
  <2> QED BY <1>1, <1>2, <2>1 DEF view, Apart
<1>6. Waited' /\ GoesOutFinished' /\ WaylandTypes' /\ ReleasesDiffer'
  BY <1>1, <1>3, <1>4 DEF Waited, GoesOutFinished, WaylandTypes, ReleasesDiffer
<1>7. WaylandSimulated
  <2>1. PICK K \in SUBSET Images : K = Theirs
    BY <1>1 DEF WaylandTypes, Theirs, InRelease
  <2>2. Simulated(K, K)
    BY <1>2, StillOwned
  <2>3. Theirs' = Theirs
    BY <1>3 DEF Theirs, InRelease
  <2> QED BY <2>1, <2>2, <2>3 DEF WaylandSimulated
<1> QED BY <1>2, <1>5, <1>6, <1>7 DEF WaylandInv, WaylandKept

(* An image is committed: it goes out finished or with a fence, or the     *)
(* swapchain is in error.                                                  *)
LEMMA WaylandCommits ==
    ASSUME WaylandInv, NEW t \in {"app", "flip"}, pc[t] \in {"present", "commit"},
           PresentReturns(t), Counted,
           UNCHANGED <<imageVars, freeSem, queueVars, started, startSem, acquireLock,
                       lifeVars, held, timeout, left, todo, explicit, bufferQueue>>,
           wire' \in {wire, wire \ {Frame}},
           atCompositor' \in {atCompositor, atCompositor \union {image[t]}},
           fenced \ {image[t]} \subseteq fenced',
           image[t] \in fenced' \/ ~explicit \/ error'
    PROVE  WaylandKept
<1>1. Common /\ Apart(Theirs) /\ Waited /\ GoesOutFinished /\ WaylandTypes /\ ReleasesDiffer
  BY DEF WaylandInv
<1>2. TypeOK /\ Places /\ OnePresenter /\ HaveImages
  BY <1>1 DEF Common
<1>3. t = "app" => task = "present"
  BY <1>2 DEF Places, Shown, Flushes
<1>4. PICK j \in Images : j = image[t]
  BY <1>2, <1>3, NoImageIsNone DEF HaveImages, TypeOK, Shown, Threads
<1>5. PICK K \in SUBSET Images : K = Theirs /\ Apart(K)
  BY <1>1 DEF WaylandTypes, Theirs, InRelease
<1>6. pc[t] \in Shown
  BY DEF Shown
<1>7. Common' /\ Apart(K)' /\ Apart(K \union {j})'
  BY <1>1, <1>3, <1>4, <1>5, <1>6, PresentReturnKeeps
<1>8. j \notin Theirs
  <2>1. ~Dead
    BY <1>2, <1>6 DEF Dead, OnePresenter, Shown
  <2>2. j = FlipImage \/ j = AppImage
    BY <1>3, <1>4, <1>6 DEF FlipImage, AppImage
  <2> QED BY <1>1, <2>1, <2>2 DEF Apart
<1>9. \A i \in Images : i # Frame
  BY SwapchainAssumption DEF Images, Frame
<1>10. InRelease' = InRelease
  BY <1>9 DEF InRelease
<1>11. Apart(Theirs)'
  <2>1. Theirs' = K \/ Theirs' = K \union {j}
    BY <1>4, <1>5, <1>10 DEF Theirs
  <2> QED BY <1>7, <2>1 DEF Apart
<1>12. WaylandTypes' /\ ReleasesDiffer'
  <2>1. WaylandTypes'
    BY <1>1, <1>4 DEF WaylandTypes
  <2>2. j \notin wire /\ j \notin bufferQueue
    BY <1>8 DEF Theirs, InRelease
  <2> QED BY <1>1, <1>4, <2>1, <2>2 DEF ReleasesDiffer
<1>13. UNCHANGED <<payload, presentMode, explicit>>
  BY DEF imageVars, lifeVars
<1>14. Waited'
  <2>1. t = "flip" => pc'["flip"] \notin Finishing
    BY <1>2 DEF PresentReturns, Goto, TypeOK, Threads, Finishing
  <2>2. t = "app" => pc'["flip"] = pc["flip"] /\ image'["flip"] = image["flip"]
    BY <1>2 DEF PresentReturns, Return, Goto, TypeOK, Threads
  <2> QED BY <1>1, <1>13, <2>1, <2>2 DEF Waited
<1>15. GoesOutFinished'
  <2> SUFFICES ASSUME NEW i \in atCompositor', payload[i], presentMode = "FIFO", ~error'
               PROVE  i \in fenced'
    BY <1>13 DEF GoesOutFinished
  <2>1. CASE i # j
    BY <1>1, <1>4, <2>1 DEF GoesOutFinished, Counted
  <2>2. CASE i = j
    <3>1. UseThread
      BY WaylandAssumption DEF UseThread, AllModes
    <3>2. t = "flip"
      BY <1>2, <1>3, <1>6, <3>1 DEF OnePresenter
    <3>3. explicit
      BY <1>1, <1>4, <2>2, <3>2 DEF Waited, Finishing
    <3> QED BY <1>4, <2>2, <3>3
  <2> QED BY <2>1, <2>2
<1>16. WaylandSimulated
  <2>1. PICK L \in SUBSET Images : L = Theirs' /\ L \in {K, K \union {j}}
    BY <1>4, <1>5, <1>10 DEF Theirs
  <2>2. FlipImage = j \/ AppImage = j
    BY <1>3, <1>4, <1>6 DEF FlipImage, AppImage
  <2>3. UNCHANGED <<status, pool, held>>
    BY DEF imageVars, queueVars
  <2>4. Simulated(K, L)
    BY <1>1, <1>3, <1>5, <1>6, <2>1, <2>2, <2>3, ShownLeaves
  <2> QED BY <1>5, <2>1, <2>4 DEF WaylandSimulated
<1> QED BY <1>7, <1>11, <1>12, <1>14, <1>15, <1>16 DEF WaylandInv, WaylandKept

(* Steps in which no image is shown: they only move threads and events.    *)
LEMMA WaylandQuiet ==
    ASSUME WaylandInv,
           \/ ReadEvents
           \/ \E t \in {"app", "heir"} : ReleasePostsUnit(t) \/ PrepareRead(t) \/ DispatchEnds(t)
           \/ \E t \in {"app", "flip"} : FrameDone(t) \/ FrameAwaited(t) \/ FrameTimesOut(t)
           \/ DisplayKept(explicit /\ WaylandFlipFence)
           \/ \E i \in Images : CompositorReleases(i)
           \/ CompositorFrames \/ OtherEvent \/ DisplayBreaks
    PROVE  WaylandKept
<1>a. Common /\ WaylandTypes /\ ReleasesDiffer /\ TypeOK /\ Places /\ OnePresenter
  BY DEF WaylandInv, Common
<1> USE DEF BaseKept, vars, threadVars, imageVars, queueVars, presentVars, lockVars, lifeVars, callVars, Goto, Threads,
            waylandVars, displayVars, frameVars, compositorVars, Moves, Counted, TypeOK, Waits, Shown, Finishing
<1>b. Frame \notin Images /\ Other \notin Images
  BY SwapchainAssumption DEF Images, Frame, Other
<1>1. ASSUME ReadEvents PROVE WaylandKept
  <2>1. Moves /\ Counted
    <3>1. pc' = [u \in Threads |-> IF pc[u] = "poll" THEN "dispatch" ELSE IF pc[u] = "frame_poll" THEN "present" ELSE pc[u]]
      BY <1>1 DEF ReadEvents
    <3>2. pc["flip"] # "poll" /\ pc["heir"] # "frame_poll" /\ (pc["app"] = "frame_poll" => task = "present")
      BY <1>a DEF Places, FlipPlaces, HeirPlaces, Parting, Flushes
    <3>3. Moves
      BY <3>1, <3>2
    <3>4. Counted
      BY <1>a, <1>1 DEF ReadEvents
    <3> QED BY <3>3, <3>4
  <2>2. (pc'["flip"] \in Finishing => pc["flip"] \in Finishing) /\ explicit' = explicit
    BY <1>1 DEF ReadEvents
  <2>3. WaylandTypes' /\ ReleasesDiffer' /\ Theirs' = Theirs
    BY <1>a, <1>1 DEF ReadEvents, WaylandTypes, ReleasesDiffer, Theirs, InRelease
  <2>4. UNCHANGED <<atCompositor, fenced>>
    BY <1>1 DEF ReadEvents
  <2>5. UNCHANGED <<imageVars, queueVars, presentVars, lockVars, lifeVars, held, image, timeout, left, callVars>>
    BY <1>1 DEF ReadEvents
  <2> QED BY <2>1, <2>2, <2>3, <2>4, <2>5, WaylandKeeps
<1>2. ASSUME NEW t \in {"app", "heir"}, ReleasePostsUnit(t) \/ PrepareRead(t) \/ DispatchEnds(t) PROVE WaylandKept
  <2>1. UNCHANGED <<imageVars, queueVars, error, failures, presentVars, lockVars, lifeVars, held, image, timeout, left, callVars>>
        /\ UNCHANGED waylandVars
    BY <1>2 DEF ReleasePostsUnit, PrepareRead, DispatchEnds
  <2>2. pc[t] \in Waits /\ \E l \in Waits : pc' = [pc EXCEPT ![t] = l]
    BY <1>2 DEF ReleasePostsUnit, PrepareRead, DispatchEnds
  <2>3. Moves
    BY <1>a, <2>2
  <2>4. freeSem' \in Nat
    BY <1>a, <1>2 DEF ReleasePostsUnit, PrepareRead, DispatchEnds, PostFree
  <2>5. pc'["flip"] = pc["flip"]
    BY <1>a, <2>2
  <2>6. WaylandTypes' /\ ReleasesDiffer' /\ Theirs' = Theirs
    BY <1>a, <2>1 DEF WaylandTypes, ReleasesDiffer, Theirs, InRelease
  <2>7. Counted
    BY <1>a, <2>1, <2>4
  <2> QED BY <2>1, <2>3, <2>5, <2>6, <2>7, WaylandKeeps
<1>3. ASSUME NEW t \in {"app", "flip"}, FrameDone(t) \/ FrameAwaited(t) \/ FrameTimesOut(t) PROVE WaylandKept
  <2>1. UNCHANGED <<imageVars, queueVars, failures, freeSem, presentVars, lockVars, lifeVars, held, image, timeout, left, callVars>>
        /\ UNCHANGED <<explicit, wire, bufferQueue, compositorVars>>
    BY <1>3 DEF FrameDone, FrameAwaited, FrameTimesOut
  <2>2. pc[t] \in Finishing /\ (pc' = pc \/ \E l \in {"present", "frame_poll", "commit"} : pc' = [pc EXCEPT ![t] = l])
    BY <1>3 DEF FrameDone, FrameAwaited, FrameTimesOut
  <2>3. t = "app" => task = "present"
    BY <1>a, <2>2 DEF Places, Flushes
  <2>4. Moves
    BY <1>a, <2>2, <2>3
  <2>5. error' \in BOOLEAN /\ (error => error')
    BY <1>a, <1>3 DEF FrameDone, FrameAwaited, FrameTimesOut
  <2>6. pc'["flip"] \in Finishing => pc["flip"] \in Finishing
    BY <1>a, <2>2
  <2>7. WaylandTypes' /\ ReleasesDiffer' /\ Theirs' = Theirs
    BY <1>a, <2>1 DEF WaylandTypes, ReleasesDiffer, Theirs, InRelease
  <2>8. Counted
    BY <1>a, <2>1, <2>5
  <2> QED BY <2>1, <2>4, <2>6, <2>7, <2>8, WaylandKeeps
<1>4. ASSUME DisplayKept(explicit /\ WaylandFlipFence) PROVE WaylandKept
  <2>1. explicit /\ BaseKept /\ pc["flip"] = "fence" /\ pc' = [pc EXCEPT !["flip"] = "call"] /\ UNCHANGED waylandVars
    BY <1>4 DEF DisplayKept, WaylandFlipFence
  <2>2. Moves /\ Counted
    BY <1>a, <2>1
  <2>3. WaylandTypes' /\ ReleasesDiffer' /\ Theirs' = Theirs
    BY <1>a, <2>1 DEF WaylandTypes, ReleasesDiffer, Theirs, InRelease
  <2> QED BY <2>1, <2>2, <2>3, WaylandKeeps
<1>5. ASSUME NEW i \in Images, CompositorReleases(i) PROVE WaylandKept
  <2>1. WaylandTypes' /\ ReleasesDiffer' /\ Theirs' = Theirs
    BY <1>a, <1>5 DEF CompositorReleases, WaylandTypes, ReleasesDiffer, Theirs, InRelease
  <2>2. vars' = vars /\ explicit' = explicit /\ atCompositor' = atCompositor \ {i} /\ fenced' = fenced \ {i}
    BY <1>5 DEF CompositorReleases
  <2>3. Moves /\ Counted
    BY <1>a, <2>2
  <2> QED BY <2>1, <2>2, <2>3, WaylandKeeps
<1>6. ASSUME CompositorFrames \/ OtherEvent PROVE WaylandKept
  <2>1. WaylandTypes' /\ ReleasesDiffer' /\ Theirs' = Theirs
    BY <1>a, <1>b, <1>6 DEF CompositorFrames, OtherEvent, WaylandTypes, ReleasesDiffer, Theirs, InRelease
  <2>2. vars' = vars /\ explicit' = explicit /\ UNCHANGED compositorVars
    BY <1>6 DEF CompositorFrames, OtherEvent
  <2>3. Moves /\ Counted
    BY <1>a, <2>2
  <2> QED BY <2>1, <2>2, <2>3, WaylandKeeps
<1>7. ASSUME DisplayBreaks PROVE WaylandKept
  <2>1. UNCHANGED <<imageVars, freeSem, queueVars, error, presentVars, lockVars, lifeVars, held, threadVars, callVars>>
        /\ UNCHANGED <<explicit, wire, bufferQueue, frameQueued, frameVars, compositorVars>>
    BY <1>7 DEF DisplayBreaks
  <2>2. failures' \in [count : Nat, acquire : BOOLEAN]
    BY <1>a, <1>7, MayFailCounts DEF DisplayBreaks
  <2>3. WaylandTypes' /\ ReleasesDiffer' /\ Theirs' = Theirs
    BY <1>a, <2>1 DEF WaylandTypes, ReleasesDiffer, Theirs, InRelease
  <2>4. Moves /\ Counted
    BY <1>a, <2>1, <2>2
  <2> QED BY <2>1, <2>3, <2>4, WaylandKeeps
<1> QED BY <1>1, <1>2, <1>3, <1>4, <1>5, <1>6, <1>7

(* The waits that end.                                                     *)
LEMMA WaylandWaitEnds ==
    ASSUME WaylandInv, NEW t \in {"app", "heir"}, PollTimesOut(t) \/ PollExpires(t) \/ SecondWait(t)
    PROVE  WaylandKept
<1>a. freeSem \in Nat
  BY DEF WaylandInv, Common, TypeOK
<1>1. ASSUME NEW r \in {"NOT_READY", "TIMEOUT", "ERROR"}, PollReturns(t, r) PROVE WaylandKept
  <2>1. pc[t] \in Waits /\ r \in Results /\ WaitReturns(t, r) /\ freeSem' \in Nat
    BY <1>a, <1>1 DEF PollReturns, Waits, Results
  <2>2. UNCHANGED <<imageVars, queueVars, error, presentVars, statusLock, lifeVars, held, failures, image, todo>>
        /\ UNCHANGED waylandVars
    BY <1>1 DEF PollReturns
  <2> QED BY <2>1, <2>2, WaylandReturns
<1>2. ASSUME SecondWait(t) PROVE WaylandKept
  <2>1. pc[t] \in Waits /\ \E r \in Results : WaitReturns(t, r) /\ freeSem' \in Nat
    BY <1>a, <1>2 DEF SecondWait, Waits, Results
  <2>2. UNCHANGED <<imageVars, queueVars, error, presentVars, statusLock, lifeVars, held, failures, image, todo>>
        /\ UNCHANGED waylandVars
    BY <1>2 DEF SecondWait
  <2> QED BY <2>1, <2>2, WaylandReturns
<1> QED BY <1>1, <1>2 DEF PollTimesOut, PollExpires

(* A release is dispatched: the image is in no other place.                *)
LEMMA WaylandReleases ==
    ASSUME WaylandInv, NEW t \in {"app", "heir"}, DispatchRelease(t)
    PROVE  WaylandKept
<1>a. Common /\ WaylandTypes /\ ReleasesDiffer /\ Waited /\ GoesOutFinished /\ TypeOK /\ OnePresenter
  BY DEF WaylandInv, Common
<1>1. PICK K \in SUBSET Images : K = Theirs /\ Apart(K)
  BY <1>a DEF WaylandInv, WaylandTypes, Theirs, InRelease
<1>2. PICK i \in bufferQueue : status' = [status EXCEPT ![i] = "FREE"] /\ bufferQueue' = bufferQueue \ {i}
  BY <1>a DEF DispatchRelease, ReleaseStatus, Shared, OnePresenter
<1>3. i \in K
  BY <1>1, <1>2 DEF Theirs, InRelease
<1>4. /\ UNCHANGED <<payload, hint, freeSem, queueVars, error, presentVars, lockVars, lifeVars,
                   held, failures, image, timeout, left, callVars>>
      /\ UNCHANGED <<explicit, wire, compositorVars>>
      /\ pc[t] \in Waits /\ pc' = [pc EXCEPT ![t] = "release_done"]
  BY DEF DispatchRelease, Goto, Waits
<1>5. Moves /\ Counted
  BY <1>a, <1>4 DEF Moves, Counted, Threads, Waits, TypeOK
<1>6. Common' /\ Apart(K \ {i})'
  BY <1>1, <1>2, <1>3, <1>4, <1>5, <1>a, ReleaseKeeps
<1>7. Theirs' = K \ {i}
  BY <1>a, <1>1, <1>2, <1>4 DEF Theirs, InRelease, compositorVars, WaylandTypes, ReleasesDiffer
<1>8. Apart(Theirs)'
  BY <1>6, <1>7 DEF Apart
<1>9. WaylandTypes' /\ ReleasesDiffer'
  BY <1>a, <1>2, <1>4 DEF WaylandTypes, ReleasesDiffer, compositorVars
<1>10. pc'["flip"] = pc["flip"]
  BY <1>a, <1>4 DEF TypeOK, Threads
<1>11. Waited' /\ GoesOutFinished'
  BY <1>a, <1>4, <1>10 DEF Waited, GoesOutFinished, compositorVars, lifeVars
<1>12. WaylandSimulated
  <2>1. PICK L \in SUBSET Images : L = Theirs' /\ L = K \ {i}
    BY <1>7
  <2>2. UNCHANGED <<pool, held, FlipImage, AppImage, Acquiring, Returning, Dead>>
    BY <1>a, <1>4, <1>5, MoveLeaves DEF queueVars, callVars
  <2>3. CASE ~Dead
    <3>1. Simulated(K, K \ {i})
      BY <1>a, <1>1, <1>2, <1>3, <2>2, <2>3, BackendFrees
    <3> QED BY <1>1, <2>1, <3>1 DEF WaylandSimulated
  <2>4. CASE Dead
    <3>1. Simulated(K, L)
      BY <2>2, <2>4, NobodyOwns
    <3> QED BY <1>1, <2>1, <3>1 DEF WaylandSimulated
  <2> QED BY <2>3, <2>4
<1> QED BY <1>6, <1>8, <1>9, <1>11, <1>12 DEF WaylandInv, WaylandKept

(* The two ways to commit.                                                 *)
LEMMA WaylandShows ==
    ASSUME WaylandInv, NEW t \in {"app", "flip"}, Commit(t) \/ CommitWithoutCallback(t)
    PROVE  WaylandKept
<1>a. TypeOK
  BY DEF WaylandInv, Common
<1>1. CASE Commit(t)
  <2>1. /\ pc[t] \in {"present", "commit"} /\ PresentReturns(t)
        /\ UNCHANGED <<imageVars, freeSem, queueVars, started, startSem, acquireLock,
                       lifeVars, held, timeout, left, todo, explicit, bufferQueue>>
    BY <1>1 DEF Commit
  <2>2. wire' \in {wire, wire \ {Frame}}
    BY <1>1 DEF Commit, SetFrameCallback
  <2>3. atCompositor' \in {atCompositor, atCompositor \union {image[t]}}
    BY <1>1 DEF Commit
  <2>4. fenced \ {image[t]} \subseteq fenced'
    BY <1>1 DEF Commit
  <2>5. Counted
    <3>1. error' \in BOOLEAN /\ (error => error')
      BY <1>a, <1>1 DEF Commit, TypeOK
    <3>2. failures' \in [count : Nat, acquire : BOOLEAN]
      BY <1>a, <1>1, MayFailCounts DEF Commit, FenceExported, ExportFails, TypeOK
    <3> QED BY <1>a, <2>1, <3>1, <3>2 DEF Counted, TypeOK
  <2>6. image[t] \in fenced' \/ ~explicit \/ error'
    BY <1>1 DEF Commit, FenceExported, ExportFails
  <2> QED BY <2>1, <2>2, <2>3, <2>4, <2>5, <2>6, WaylandCommits
<1>2. CASE CommitWithoutCallback(t)
  <2>1. /\ pc[t] \in {"present", "commit"} /\ PresentReturns(t)
        /\ UNCHANGED <<imageVars, freeSem, queueVars, started, startSem, acquireLock,
                       lifeVars, held, timeout, left, todo, explicit, bufferQueue>>
        /\ wire' = wire
    BY <1>2 DEF CommitWithoutCallback, displayVars
  <2>2. atCompositor' \in {atCompositor, atCompositor \union {image[t]}}
        /\ fenced \ {image[t]} \subseteq fenced' /\ error'
    BY <1>2 DEF CommitWithoutCallback
  <2>3. Counted
    <3>1. failures' \in [count : Nat, acquire : BOOLEAN]
      BY <1>a, <1>2, MayFailCounts DEF CommitWithoutCallback, TypeOK
    <3>2. error' \in BOOLEAN
      BY <1>2 DEF CommitWithoutCallback
    <3> QED BY <1>a, <2>1, <2>2, <3>1, <3>2 DEF Counted, TypeOK
  <2> QED BY <2>1, <2>2, <2>3, WaylandCommits
<1> QED BY <1>1, <1>2

(* The steps of the application, of its page flip thread and of the heir   *)
(* that are those of swapchain_base.                                       *)
LEMMA PartiesAreBase ==
    /\ AppRuns => BaseStep
    /\ AppCalls \/ Deprecate \/ DescendantNotifies => BaseStep
    /\ HeirRuns => BaseStep
<1>1. AppRuns => BaseStep
  BY DEF AppRuns, WaitForFreeBuffer, BaseStep
<1>2. AppCalls \/ Deprecate \/ DescendantNotifies => BaseStep
  BY DEF AppCalls, BaseStep
<1>3. HeirRuns => BaseStep
  BY DEF HeirRuns, WaitForFreeBuffer, BaseStep
<1> QED BY <1>1, <1>2, <1>3

(* Every step keeps the invariant.                                         *)
LEMMA WaylandStep ==
    ASSUME WaylandInv, [WaylandNext]_wvars
    PROVE  WaylandKept
<1>1. ASSUME DisplayKept(AppCalls \/ Deprecate \/ Destroy("teardown") \/ DescendantNotifies \/ HeirRuns)
      PROVE  WaylandKept
  <2>1. Destroy("teardown") => BaseStep
    BY DEF BaseStep
  <2>2. DisplayKept(BaseStep)
    BY <1>1, <2>1, PartiesAreBase DEF DisplayKept
  <2> QED BY <2>2, WaylandBaseStep
<1>2. ASSUME DisplayKept(AppRuns) PROVE WaylandKept
  <2>1. DisplayKept(BaseStep)
    BY <1>2, PartiesAreBase DEF DisplayKept
  <2> QED BY <2>1, WaylandBaseStep
<1>3. ASSUME NEW t \in {"app", "heir"}, WaylandGetFreeBuffer(t) PROVE WaylandKept
  BY <1>3, WaylandQuiet, WaylandWaitEnds, WaylandReleases DEF WaylandGetFreeBuffer
<1>4. ASSUME NEW t \in {"app", "flip"}, WaylandPresentImage(t) PROVE WaylandKept
  BY <1>4, WaylandQuiet, WaylandShows DEF WaylandPresentImage
<1>5. ASSUME DisplayKept(FlipTakesUnit \/ FlipExits \/ FlipPops \/ WaylandFlipFence \/ FlipAbandons \/ CallPresent("flip"))
      PROVE  WaylandKept
  <2>1. CASE DisplayKept(explicit /\ WaylandFlipFence)
    BY <2>1, WaylandQuiet
  <2>2. CASE DisplayKept(BaseStep)
    BY <2>2, WaylandBaseStep
  <2>3. WaylandFlipFence => (explicit /\ WaylandFlipFence) \/ FlipFence
    BY DEF WaylandFlipFence
  <2>4. FlipTakesUnit \/ FlipExits \/ FlipPops \/ FlipFence \/ FlipAbandons \/ CallPresent("flip") => BaseStep
    BY DEF BaseStep
  <2> QED BY <1>5, <2>1, <2>2, <2>3, <2>4 DEF DisplayKept
<1>6. ASSUME NEW t \in {"app", "flip"}, CommitWithoutCallback(t) PROVE WaylandKept
  BY <1>6, WaylandShows
<1>7. ASSUME NEW t \in {"app", "heir"}, PollExpires(t) PROVE WaylandKept
  BY <1>7, WaylandWaitEnds
<1>8. ASSUME ReadEvents \/ (\E i \in Images : CompositorReleases(i)) \/ CompositorFrames \/ OtherEvent \/ DisplayBreaks
      PROVE  WaylandKept
  BY <1>8, WaylandQuiet
<1>9. ASSUME NEW i \in Images, DisplayKept(GpuFinishes(i)) PROVE WaylandKept
  <2>1. DisplayKept(BaseStep)
    BY <1>9 DEF DisplayKept, BaseStep
  <2> QED BY <2>1, WaylandBaseStep
<1>10. ASSUME UNCHANGED wvars PROVE WaylandKept
  <2>1. UNCHANGED <<imageVars, queueVars, presentVars, lockVars, lifeVars, held, image, timeout, left, callVars,
                    freeSem, error, failures, pc>>
        /\ UNCHANGED <<explicit, wire, bufferQueue, atCompositor, fenced>>
    BY <1>10 DEF wvars, vars, threadVars, waylandVars, displayVars, compositorVars
  <2>2. Moves /\ Counted
    BY <2>1 DEF Moves, Counted, WaylandInv, Common, TypeOK
  <2>3. WaylandTypes' /\ ReleasesDiffer' /\ Theirs' = Theirs
    BY <2>1 DEF WaylandInv, WaylandTypes, ReleasesDiffer, Theirs, InRelease
  <2> QED BY <2>1, <2>2, <2>3, WaylandKeeps
<1> QED
  BY <1>1, <1>2, <1>3, <1>4, <1>5, <1>6, <1>7, <1>8, <1>9, <1>10
  DEF WaylandNext, WaylandAppInside, WaylandFlipInside

WaylandOwners ==
    /\ QueueShown = QueueIs
    /\ \A K \in SUBSET Images : K = Theirs =>
          OwnersBeside(atCompositor \union InRelease) = [i \in Images |-> OwnerIs(K, i)]

(* The contract the commits keep is about these owners.                    *)
LEMMA WaylandMapping == WaylandInv => WaylandOwners
<1> SUFFICES ASSUME WaylandInv, NEW K \in SUBSET Images, K = Theirs
             PROVE  OwnersBeside(K) = [i \in Images |-> OwnerIs(K, i)] /\ QueueShown = QueueIs
  <2>1. WaylandInv => Theirs \in SUBSET Images
    BY DEF WaylandInv, WaylandTypes, Theirs, InRelease
  <2>2. Theirs = atCompositor \union InRelease
    BY DEF Theirs
  <2> HIDE DEF Theirs
  <2> QED BY <2>1, <2>2 DEF WaylandOwners
<1> QED BY QueueMapping, OwnerMapping DEF WaylandInv

(* A step the owners and the queue may take is one of the contract.        *)
LEMMA WaylandImplements ==
    ASSUME WaylandInv, WaylandInv', WaylandSimulated
    PROVE  [WaylandContract!Next]_(WaylandContract!vars)
<1>1. PICK K \in SUBSET Images, L \in SUBSET Images : K = Theirs /\ L = Theirs' /\ Simulated(K, L)
  BY DEF WaylandSimulated
<1> DEFINE owner == OwnersBeside(atCompositor \union InRelease)
<1>2. owner = [i \in Images |-> OwnerIs(K, i)] /\ QueueShown = QueueIs
  BY <1>1, WaylandMapping DEF WaylandOwners
<1>3. owner' = [i \in Images |-> OwnerIs(L, i)'] /\ QueueShown' = QueueIs'
  <2>1. WaylandOwners'
    BY WaylandMapping, PTL
  <2> QED BY <1>1, <2>1 DEF WaylandOwners
<1>4. Allowed(owner, QueueShown, owner', QueueShown')
  BY <1>1, <1>2, <1>3, SimulatedIsAllowed
<1> HIDE DEF owner
<1> QED
  BY <1>4
  DEF Allowed, owner, WaylandContract!Next, WaylandContract!vars, WaylandContract!Give, WaylandContract!Enqueue,
      WaylandContract!Release, WaylandContract!GiveBack, WaylandContract!Lose, WaylandContract!Show,
      WaylandContract!Display, WaylandContract!Drop, WaylandContract!End

(* The invariant holds, whatever fails and however many images there are.  *)
THEOREM WaylandInvariant == WaylandSpec => []WaylandInv
<1>1. WaylandInv /\ [WaylandNext]_wvars => WaylandInv'
  BY WaylandStep DEF WaylandKept
<1> QED BY <1>1, WaylandStarts, PTL DEF WaylandSpec

(* The swapchain and the compositor implement the contract with the        *)
(* application: images are committed in the order they were queued, and    *)
(* they change hands only as PresentationContract says.                    *)
THEOREM WaylandKeepsContract == WaylandSpec => CommitsInOrder
<1>1. WInit => WaylandContract!Init
  <2> SUFFICES ASSUME WInit PROVE WaylandContract!Init
    OBVIOUS
  <2>1. WaylandInv /\ Common
    BY WaylandStarts DEF WaylandInv
  <2>2. PICK K \in SUBSET Images : K = Theirs /\ K = {}
    BY WaylandAssumption DEF WInit, Theirs, InRelease
  <2>3. pool = <<>> /\ held = {} /\ Returning = {} /\ FlipImage = NoImage /\ AppImage = NoImage
    BY DEF WInit, Init, Returning, FlipImage, AppImage, Shown, Threads
  <2>4. QueueIs = <<>> /\ \A i \in Images : OwnerIs(K, i) \in {"engine", "nobody"}
    BY <2>2, <2>3 DEF QueueIs, OwnerIs, QueuedIn
  <2>5. /\ QueueShown = <<>>
        /\ OwnersBeside(atCompositor \union InRelease) = [i \in Images |-> OwnerIs(K, i)]
    BY <2>1, <2>2, <2>4, WaylandMapping DEF WaylandOwners
  <2> QED BY <2>4, <2>5 DEF WaylandContract!Init
<1>2. WaylandInv /\ WaylandInv' /\ [WaylandNext]_wvars => [WaylandContract!Next]_(WaylandContract!vars)
  BY WaylandStep, WaylandImplements DEF WaylandKept
<1> QED BY <1>1, <1>2, WaylandInvariant, PTL DEF WaylandSpec, CommitsInOrder, WaylandContract!Spec

(* From its commit until its release was dispatched an image is PENDING    *)
(* and out of the application's hands, and its release is in one place.    *)
THEOREM BuffersAreTheirs == WaylandSpec => []BufferIsTheirs
BY WaylandInvariant, WaylandPromises, PTL

(* In FIFO no image is committed whose payload still executes but with a   *)
(* fence, or in a swapchain that is in error.                              *)
THEOREM ImagesGoOutFinished == WaylandSpec => []GoesOutFinished
BY WaylandInvariant, WaylandPromises, PTL

-----------------------------------------------------------------------------
(* The images the X server has, those whose pixmap it reported idle and    *)
(* those Xwayland may sample are apart from all others and from each other. *)
X11Types ==
    /\ path \in {"DRI3", "SHM", "BRIDGE"}
    /\ pixmaps \in Seq(Images)
    /\ bridgeHeld \in Seq(Images)
    /\ atServer \subseteq Images
Members(s) == {s[k] : k \in 1 .. Len(s)}
AllDiffer(s) == \A j, k \in 1 .. Len(s) : j # k => s[j] # s[k]
Idle == Members(pixmaps)
Sampled == Members(bridgeHeld)
ServersDiffer ==
    /\ AllDiffer(pixmaps) /\ AllDiffer(bridgeHeld)
    /\ atServer \intersect Idle = {} /\ atServer \intersect Sampled = {} /\ Idle \intersect Sampled = {}
Gone == Dead => \A i \in Images : status[i] = "INVALID"
TheServers == atServer \union Idle \union Sampled

X11Inv == /\ Common /\ X11Types /\ ServersDiffer /\ Apart(TheServers) /\ Gone
          /\ UnitsAreImages

(* Units of the free image semaphore, in hand, spent or on their way.      *)
Posting == {"post", "scan_post", "lag_post", "flush_post", "release_post"}
Weight(label) == IF label \in Posting THEN 1 ELSE 0
Posts(t) == Weight(pc[t])
Load == freeSem + Spent + (Posts("app") + Posts("flip") + Posts("heir"))
Free == Cardinality({i \in Images : Usable(i)})
Healthy == ~retired /\ ~error /\ task # "destroy"
Balanced == Healthy' =>
    /\ Healthy
    /\ failures.acquire => failures'.acquire
    /\ \/ Load' - Free' = Load - Free
       \/ failures'.acquire /\ Load' - Free' =< Load - Free

(* Images that can be acquired, counted.                                   *)
LEMMA FreeChanges ==
    ASSUME TypeOK
    PROVE  /\ Free \in Nat /\ Free' \in Nat
           /\ (\A i \in Images : Usable(i)' <=> Usable(i)) => Free' = Free
           /\ \A j \in Images :
                 /\ ~Usable(j) /\ status' = [status EXCEPT ![j] = "FREE"] => Free' = Free + 1
                 /\ \A s \in {"ACQUIRED", "INVALID"} :
                       Usable(j) /\ status' = [status EXCEPT ![j] = s] => Free' = Free - 1
<1> DEFINE S == {i \in Images : Usable(i)}
<1>1. IsFiniteSet(S) /\ Cardinality(S) \in Nat
  BY CountOfImages
<1>2. S' = {i \in Images : Usable(i)'}
  OBVIOUS
<1>3. Free = Cardinality(S) /\ Free' = Cardinality(S')
  BY DEF Free
<1>4. Cardinality(S') \in Nat
  <2>1. PICK T \in SUBSET Images : T = S'
    BY <1>2
  <2> QED BY <2>1, CountOfImages
<1>5. ASSUME \A i \in Images : Usable(i)' <=> Usable(i) PROVE Free' = Free
  <2>1. S' = S
    BY <1>2, <1>5
  <2> QED BY <1>3, <2>1
<1>6. ASSUME NEW j \in Images, ~Usable(j), status' = [status EXCEPT ![j] = "FREE"] PROVE Free' = Free + 1
  <2>1. \A i \in Images : status'[i] = IF i = j THEN "FREE" ELSE status[i]
    BY <1>6 DEF TypeOK
  <2>2. S' = S \union {j} /\ j \notin S
    BY <1>2, <1>6, <2>1 DEF Usable
  <2>3. Cardinality(S \union {j}) = Cardinality(S) + 1
    BY <1>1, <2>2, FS_AddElement
  <2> HIDE DEF S
  <2> QED BY <1>3, <2>2, <2>3
<1>7. ASSUME NEW j \in Images, NEW s \in {"ACQUIRED", "INVALID"}, Usable(j), status' = [status EXCEPT ![j] = s]
      PROVE  Free' = Free - 1
  <2>1. \A i \in Images : status'[i] = IF i = j THEN s ELSE status[i]
    BY <1>7 DEF TypeOK
  <2>2. S' = S \ {j} /\ j \in S
    BY <1>2, <1>7, <2>1 DEF Usable
  <2>3. Cardinality(S \ {j}) = Cardinality(S) - 1
    BY <1>1, <2>2, FS_RemoveElement
  <2> HIDE DEF S
  <2> QED BY <1>3, <2>2, <2>3
<1> QED
  <2> HIDE DEF S
  <2> QED BY <1>1, <1>3, <1>4, <1>5, <1>6, <1>7

(* The units on their way are counted thread by thread.                    *)
LEMMA InFlightCounts ==
    ASSUME NEW p
    PROVE  Cardinality({t \in Threads : p[t] \in Posting}) = Weight(p["app"]) + Weight(p["flip"]) + Weight(p["heir"])
<1> DEFINE F(u) == {t \in {u} : p[t] \in Posting}
<1>1. ASSUME NEW u PROVE IsFiniteSet(F(u)) /\ Cardinality(F(u)) = Weight(p[u])
  <2>1. CASE p[u] \in Posting
    <3>1. F(u) = {u} /\ Weight(p[u]) = 1
      BY <2>1 DEF Weight
    <3> QED BY <3>1, FS_Singleton
  <2>2. CASE p[u] \notin Posting
    <3>1. F(u) = {} /\ Weight(p[u]) = 0
      BY <2>2 DEF Weight
    <3> QED BY <3>1, FS_EmptySet
  <2> QED BY <2>1, <2>2
<1> DEFINE A == F("app")
           B == F("flip")
           C == F("heir")
<1>2. {t \in Threads : p[t] \in Posting} = A \union (B \union C)
  BY DEF Threads
<1>3. Cardinality(B \intersect C) = 0 /\ Cardinality(A \intersect (B \union C)) = 0
  <2>1. B \intersect C = {} /\ A \intersect (B \union C) = {}
    OBVIOUS
  <2> QED BY <2>1, FS_EmptySet
<1>4. /\ IsFiniteSet(A) /\ Cardinality(A) = Weight(p["app"])
      /\ IsFiniteSet(B) /\ Cardinality(B) = Weight(p["flip"])
      /\ IsFiniteSet(C) /\ Cardinality(C) = Weight(p["heir"])
  BY <1>1
<1>5. Weight(p["app"]) \in Nat /\ Weight(p["flip"]) \in Nat /\ Weight(p["heir"]) \in Nat
  BY DEF Weight
<1> HIDE DEF A, B, C
<1>6. IsFiniteSet(B \union C) /\ Cardinality(B \union C) = Cardinality(B) + Cardinality(C) - Cardinality(B \intersect C)
  BY <1>4, FS_Union
<1>7. Cardinality(A \union (B \union C)) = Cardinality(A) + Cardinality(B \union C) - Cardinality(A \intersect (B \union C))
  BY <1>4, <1>6, FS_Union
<1>8. PICK a \in Nat, b \in Nat, c \in Nat : a = Weight(p["app"]) /\ b = Weight(p["flip"]) /\ c = Weight(p["heir"])
  BY <1>5
<1>9. Cardinality(B \union C) = b + c
  BY <1>3, <1>4, <1>6, <1>8
<1>10. Cardinality(A \union (B \union C)) = a + b + c
  BY <1>3, <1>4, <1>7, <1>8, <1>9
<1> QED BY <1>2, <1>8, <1>10

(* A balanced step keeps the units equal to the images.                    *)
LEMMA BalanceKeeps ==
    ASSUME TypeOK, TypeOK', UnitsAreImages, Balanced
    PROVE  UnitsAreImages'
<1>0. freeSem \in Nat /\ freeSem' \in Nat
  BY DEF TypeOK
<1>1. Units = Load /\ Units' = Load'
  <2>1. Cardinality(InFlight) = Posts("app") + Posts("flip") + Posts("heir")
    BY InFlightCounts DEF InFlight, Posts, Posting
  <2>2. Cardinality(InFlight)' = Posts("app")' + Posts("flip")' + Posts("heir")'
    BY InFlightCounts DEF InFlight, Posts, Posting
  <2> QED BY <2>1, <2>2 DEF Units, Load
<1>2. Load \in Nat /\ Load' \in Nat
  <2>1. \A l : Weight(l) \in Nat
    BY DEF Weight
  <2>2. \A k, l, m, n, o \in Nat : k + l + (m + n + o) \in Nat
    OBVIOUS
  <2>3. Spent \in Nat /\ Spent' \in Nat
    BY DEF Spent
  <2> QED BY <1>0, <2>1, <2>2, <2>3 DEF Load, Posts
<1>3. Free \in Nat /\ Free' \in Nat
  BY FreeChanges
<1> SUFFICES ASSUME Healthy'
             PROVE  Load' =< Free' /\ (~failures'.acquire => Load' = Free')
  BY <1>1 DEF UnitsAreImages, Healthy, Free
<1>4. Healthy /\ (failures.acquire => failures'.acquire)
      /\ (Load' - Free' = Load - Free \/ (failures'.acquire /\ Load' - Free' =< Load - Free))
  BY DEF Balanced
<1>5. Load =< Free /\ (~failures.acquire => Load = Free)
  BY <1>1, <1>4 DEF UnitsAreImages, Healthy, Free
<1>6. PICK l \in Nat, m \in Nat, f \in Nat, g \in Nat : l = Load /\ m = Load' /\ f = Free /\ g = Free'
  BY <1>2, <1>3
<1>7. m - g = l - f \/ (failures'.acquire /\ m - g =< l - f)
  BY <1>4, <1>6
<1>8. l =< f /\ (~failures.acquire => l = f)
  BY <1>5, <1>6
<1>9. m =< g
  BY <1>7, <1>8
<1>10. ASSUME ~failures'.acquire PROVE m = g
  <2>1. m - g = l - f /\ l = f
    BY <1>4, <1>7, <1>8, <1>10
  <2> QED BY <2>1
<1> QED BY <1>6, <1>9, <1>10

(* The steps of the base keep the balance: what an acquire takes is an     *)
(* image, and what is released will be posted.                             *)
LEMMA BaseBalance ==
    ASSUME Common, BaseStep
    PROVE  Balanced
<1> SUFFICES ASSUME Healthy'
             PROVE  /\ Healthy
                    /\ failures.acquire => failures'.acquire
                    /\ \/ Load' - Free' = Load - Free
                       \/ failures'.acquire /\ Load' - Free' =< Load - Free
  BY DEF Balanced
<1> DEFINE Goal == /\ Healthy
                   /\ failures.acquire => failures'.acquire
                   /\ \/ Load' - Free' = Load - Free
                      \/ failures'.acquire /\ Load' - Free' =< Load - Free
<1>a. TypeOK /\ Places /\ OnePresenter
  BY DEF Common
<1>b. Free \in Nat /\ Free' \in Nat
  BY <1>a, FreeChanges
<1>c. UNCHANGED status => Free' = Free
  BY <1>a, FreeChanges DEF Usable
<1>d. /\ pc["heir"] # "idle" => retired
      /\ pc["app"] = "deprecate" => retired
      /\ descendant # "none" => retired
      /\ pc["flip"] = "abandon" => error
      /\ pc["app"] = "join" => task = "destroy"
      /\ pc["app"] \in {"idle", "check", "select", "signal", "sync", "submit", "notify", "release", "release_post"}
            => task # "destroy"
  BY <1>a DEF Places, OnePresenter, Leaves, Acquires, Requesting
<1>e. pc["app"] \in {"try", "wait"} => task = IF left["app"] = 0 THEN "acquire" ELSE "destroy"
  BY <1>a DEF Places, Waits
<1> USE DEF Healthy, Load, Spent, Posts, Weight, Posting, TypeOK, imageVars, queueVars, presentVars, lockVars, lifeVars, threadVars, callVars,
            Goto, Return, EndAcquire, EndPresent, Threads
<1>1. ASSUME NEW tm \in Timeouts, Acquire(tm) PROVE Goal
  BY <1>1, <1>a, <1>b, <1>c, <1>d DEF Acquire
<1>2. ASSUME NEW i \in Images, QueuePresent(i) PROVE Goal
  BY <1>2, <1>a, <1>b, <1>c, <1>d DEF QueuePresent
<1>3. ASSUME NEW S \in SUBSET Images, ReleaseImages(S) PROVE Goal
  BY <1>3, <1>a, <1>b, <1>c, <1>d DEF ReleaseImages
<1>4. ASSUME NEW i \in Images, GpuFinishes(i) PROVE Goal
  BY <1>4, <1>a, <1>b, <1>c, <1>d DEF GpuFinishes
<1>5. ASSUME Deprecate PROVE Goal
  BY <1>5, <1>a, <1>b, <1>c, <1>d DEF Deprecate
<1>6. ASSUME NEW entry \in {"teardown", "stop_events"}, Destroy(entry) PROVE Goal
  BY <1>6, <1>a, <1>b, <1>c, <1>d DEF Destroy
<1>7. ASSUME NEW t \in {"app", "heir"}, TakeUnit(t) PROVE Goal
  <2>1. CASE t = "app"
    BY <1>7, <1>a, <1>b, <1>c, <1>e, <2>1 DEF TakeUnit, WaitReturns, DrainedLabel
  <2>2. CASE t = "heir"
    BY <1>7, <1>d, <2>2 DEF TakeUnit
  <2> QED BY <1>7, <2>1, <2>2
<1>8. ASSUME NEW t \in {"app", "heir"}, AskBackend(t) PROVE Goal
  <2>1. CASE t = "app"
    BY <1>8, <1>a, <1>b, <1>c, <1>e, <2>1 DEF AskBackend
  <2>2. CASE t = "heir"
    BY <1>8, <1>d, <2>2 DEF AskBackend
  <2> QED BY <1>8, <2>1, <2>2
<1>9. ASSUME NEW t \in {"app", "heir"}, WaitFails(t) PROVE Goal
  <2>1. CASE t = "app"
    BY <1>9, <1>a, <1>b, <1>c, <1>e, <2>1 DEF WaitFails, WaitReturns, DrainedLabel
  <2>2. CASE t = "heir"
    BY <1>9, <1>d, <2>2 DEF WaitFails
  <2> QED BY <1>9, <2>1, <2>2
<1>10. ASSUME CheckError PROVE Goal
  BY <1>10, <1>a, <1>b, <1>c, <1>d DEF CheckError
<1>11. ASSUME SelectImage PROVE Goal
  <2>1. PICK k \in Images : /\ Usable(RoundRobin(k))
                            /\ status' = [status EXCEPT ![RoundRobin(k)] = "ACQUIRED"]
    BY <1>11 DEF SelectImage
  <2>2. Free' = Free - 1
    BY <1>a, <2>1, RoundRobinStays, FreeChanges
  <2>3. pc["app"] = "select" /\ pc' = [pc EXCEPT !["app"] = "signal"]
        /\ UNCHANGED <<freeSem, error, retired, failures, task>>
    BY <1>11 DEF SelectImage
  <2> QED BY <1>a, <1>b, <2>2, <2>3
<1>12. ASSUME SelectFails PROVE Goal
  <2>1. PICK k \in Images, s \in {"UNALLOCATED", "INVALID"} :
              /\ status[RoundRobin(k)] = "UNALLOCATED"
              /\ status' = [status EXCEPT ![RoundRobin(k)] = s]
    BY <1>12 DEF SelectFails
  <2>2. Free' \in {Free, Free - 1}
    <3>1. RoundRobin(k) \in Images /\ Usable(RoundRobin(k))
      BY <1>a, <2>1, RoundRobinStays DEF Usable
    <3>2. CASE s = "INVALID"
      BY <1>a, <2>1, <3>1, <3>2, FreeChanges
    <3>3. CASE s = "UNALLOCATED"
      <4>1. status' = status
        BY <1>a, <2>1, <3>1, <3>3
      <4> QED BY <1>c, <4>1
    <3> QED BY <2>1, <3>2, <3>3
  <2>3. pc["app"] = "select" /\ pc' = [pc EXCEPT !["app"] = "idle"] /\ UNCHANGED <<freeSem, error, retired>>
    BY <1>12 DEF SelectFails
  <2>4. failures'.acquire
    BY <1>12 DEF SelectFails, MayFail
  <2>5. Load' = Load - 1
    BY <1>a, <2>3
  <2>6. Load \in Int
    BY <1>a
  <2>7. Healthy
    BY <1>d, <2>3
  <2> HIDE DEF Load, Healthy
  <2>8. Load' - Free' =< Load - Free
    <3>1. PICK l \in Int, f \in Nat, g \in Nat : l = Load /\ f = Free /\ g = Free'
      BY <1>b, <2>6
    <3>2. g \in {f, f - 1} /\ Load' = l - 1
      BY <2>2, <2>5, <3>1
    <3>3. (l - 1) - g =< l - f
      BY <3>2
    <3> QED BY <3>1, <3>2, <3>3
  <2>9. (failures.acquire => failures'.acquire) /\ (failures'.acquire /\ Load' - Free' =< Load - Free)
    BY <2>4, <2>8
  <2> QED BY <2>7, <2>9
<1>13. ASSUME SignalAcquired PROVE Goal
  BY <1>13, <1>a, <1>b, <1>c, <1>d DEF SignalAcquired, MayFail
<1>14. ASSUME SyncBeforePresent PROVE Goal
  <2>1. /\ status' = status /\ freeSem' = freeSem /\ error' = error /\ retired' = retired
        /\ pc["app"] = "sync" /\ (pc' = [pc EXCEPT !["app"] = "submit"] \/ pc' = [pc EXCEPT !["app"] = "idle"])
        /\ failures.acquire => failures'.acquire
    BY <1>14, <1>a DEF SyncBeforePresent, MayFail
  <2> QED BY <1>a, <1>b, <1>c, <1>d, <2>1
<1>15. ASSUME SubmitPayload PROVE Goal
  <2>1. /\ status' = status /\ freeSem' = freeSem /\ error' = error /\ retired' = retired
        /\ pc["app"] = "submit" /\ (pc' = [pc EXCEPT !["app"] = "notify"] \/ pc' = [pc EXCEPT !["app"] = "idle"])
        /\ failures.acquire => failures'.acquire
    BY <1>15, <1>a DEF SubmitPayload, MayFail
  <2> QED BY <1>a, <1>b, <1>c, <1>d, <2>1
<1>16. ASSUME NotifyOutOfDate PROVE Goal
  BY <1>16, <1>a, <1>b, <1>c, <1>d DEF NotifyOutOfDate
<1>17. ASSUME NotifyThread PROVE Goal
  <2>1. image["app"] \in held /\ status' = [status EXCEPT ![image["app"]] = "PENDING"]
    BY <1>17, <1>a DEF Common, HaveImages, Requesting, NotifyThread
  <2>2. ~Dead /\ image["app"] \in Images
    BY <1>17, <1>a, <2>1 DEF NotifyThread, Dead
  <2>3. status[image["app"]] = "ACQUIRED"
    BY <2>1, <2>2 DEF Common, Owned, HeldAcquired
  <2>4. \A i \in Images : Usable(i)' <=> Usable(i)
    BY <1>a, <2>1, <2>2, <2>3 DEF Usable
  <2>5. Free' = Free
    BY <1>a, <2>4, FreeChanges
  <2> QED BY <1>17, <1>a, <1>b, <1>d, <2>5 DEF NotifyThread
<1>18. ASSUME NotifyInline PROVE Goal
  <2>1. image["app"] \in held /\ status' = [status EXCEPT ![image["app"]] = "PENDING"]
    BY <1>18, <1>a DEF Common, HaveImages, Requesting, NotifyInline
  <2>2. ~Dead /\ image["app"] \in Images
    BY <1>18, <1>a, <2>1 DEF NotifyInline, Dead
  <2>3. status[image["app"]] = "ACQUIRED"
    BY <2>1, <2>2 DEF Common, Owned, HeldAcquired
  <2>4. \A i \in Images : Usable(i)' <=> Usable(i)
    BY <1>a, <2>1, <2>2, <2>3 DEF Usable
  <2>5. Free' = Free
    BY <1>a, <2>4, FreeChanges
  <2> QED BY <1>18, <1>a, <1>b, <1>d, <2>5 DEF NotifyInline
<1>19. ASSUME NEW t \in {"app", "flip"}, CallPresent(t) PROVE Goal
  BY <1>19, <1>a, <1>b, <1>c, <1>d DEF CallPresent
<1>20. ASSUME ReleaseOne PROVE Goal
  <2>1. PICK i \in todo : status' = [status EXCEPT ![i] = "FREE"]
    BY <1>20, <1>a DEF ReleaseOne, ReleaseStatus, Shared, OnePresenter
  <2>2. ~Dead /\ i \in Returning
    BY <1>20, <1>a, <2>1 DEF ReleaseOne, Dead, Returning, Places
  <2>3. ~Usable(i) /\ i \in Images
    BY <1>a, <2>1, <2>2 DEF Common, Owned, ReturningAcquired, Usable
  <2>4. Free' = Free + 1
    BY <1>a, <2>1, <2>3, FreeChanges
  <2>5. pc["app"] = "release" /\ pc' = [pc EXCEPT !["app"] = "release_post"]
        /\ UNCHANGED <<freeSem, error, retired, failures, task>>
    BY <1>20 DEF ReleaseOne
  <2> QED BY <1>a, <1>b, <2>4, <2>5
<1>21. ASSUME ReleasePosts PROVE Goal
  BY <1>21, <1>a, <1>b, <1>c, <1>d DEF ReleasePosts, PostFree, Shared, OnePresenter
<1>22. ASSUME DeprecateImage PROVE Goal
  BY <1>22, <1>a, <1>b, <1>c, <1>d DEF DeprecateImage
<1>23. ASSUME SetDescendant PROVE Goal
  BY <1>23, <1>a, <1>b, <1>c, <1>d DEF SetDescendant
<1>24. ASSUME Teardown PROVE Goal
  BY <1>24, <1>a, <1>b, <1>c, <1>d DEF Teardown
<1>25. ASSUME AwaitHeir PROVE Goal
  BY <1>25, <1>a, <1>b, <1>c, <1>d DEF AwaitHeir
<1>26. ASSUME DrainForTeardown PROVE Goal
  BY <1>26, <1>a, <1>b, <1>c, <1>d DEF DrainForTeardown, StartDrain, DrainedLabel
<1>27. ASSUME StopFlipThread PROVE Goal
  BY <1>27, <1>a, <1>b, <1>c, <1>d DEF StopFlipThread
<1>28. ASSUME DestroyImages PROVE Goal
  BY <1>28, <1>a, <1>b, <1>c, <1>d DEF DestroyImages
<1>29. ASSUME FlipTakesUnit PROVE Goal
  BY <1>29, <1>a, <1>b, <1>c, <1>d DEF FlipTakesUnit, Continuous
<1>30. ASSUME FlipExits PROVE Goal
  BY <1>30, <1>a, <1>b, <1>c, <1>d DEF FlipExits
<1>31. ASSUME FlipPops PROVE Goal
  BY <1>31, <1>a, <1>b, <1>c, <1>d DEF FlipPops
<1>32. ASSUME FlipFence PROVE Goal
  BY <1>32, <1>a, <1>b, <1>c, <1>d DEF FlipFence, MayFail
<1>33. ASSUME FlipAbandons PROVE Goal
  BY <1>33, <1>a, <1>b, <1>c, <1>d DEF FlipAbandons
<1>34. ASSUME HeirDrains PROVE Goal
  BY <1>34, <1>a, <1>b, <1>c, <1>d DEF HeirDrains, StartDrain, DrainedLabel
<1>35. ASSUME HeirPresents PROVE Goal
  BY <1>35, <1>a, <1>b, <1>c, <1>d DEF HeirPresents
<1>36. ASSUME DescendantNotifies PROVE Goal
  BY <1>36, <1>a, <1>b, <1>c, <1>d DEF DescendantNotifies
<1> QED
  BY <1>1, <1>2, <1>3, <1>4, <1>5, <1>6, <1>7, <1>8, <1>9, <1>10, <1>11, <1>12, <1>13, <1>14, <1>15, <1>16, <1>17, <1>18, <1>19, <1>20, <1>21, <1>22, <1>23, <1>24, <1>25, <1>26, <1>27, <1>28, <1>29, <1>30, <1>31, <1>32, <1>33, <1>34, <1>35, <1>36 DEF BaseStep

(* A step that moves no thread and touches no image keeps the balance.     *)
LEMMA StillBalanced ==
    ASSUME TypeOK, UNCHANGED <<pc, freeSem, status, retired, task>>,
           error => error', failures.acquire => failures'.acquire
    PROVE  Balanced
<1>1. Load' = Load
  BY DEF Load, Spent, Posts
<1>2. Free' = Free
  BY FreeChanges DEF Usable
<1>3. Load' - Free' = Load - Free
  BY <1>1, <1>2
<1> QED BY <1>3 DEF Balanced, Healthy

(* One thread moves: d units more are free, and e more on their way.       *)
Shifts(t, l, d, e) ==
    /\ pc' = [pc EXCEPT ![t] = l]
    /\ t = "app" => pc[t] \notin {"check", "select"} /\ l \notin {"check", "select"}
    /\ freeSem' = freeSem + d /\ Free' = Free + (d + e) /\ Weight(l) = Weight(pc[t]) + e
    /\ retired' = retired /\ (task = "destroy" => task' = "destroy") /\ (error => error')
    /\ failures.acquire => failures'.acquire

(* Such a step leaves the balance of units and images as it was.           *)
LEMMA PostsBalance ==
    ASSUME TypeOK, NEW t \in Threads, NEW l, NEW d \in Int, NEW e \in Int, Shifts(t, l, d, e)
    PROVE  Balanced
<1> USE DEF Shifts
<1>1. PICK s \in Nat : s = Spent
  BY DEF Spent
<1>2. Spent' = s
  BY <1>1 DEF Spent, TypeOK, Threads
<1>3. PICK p \in Nat, q \in Nat, r \in Nat : p = Weight(pc["app"]) /\ q = Weight(pc["flip"]) /\ r = Weight(pc["heir"])
  BY DEF Weight
<1>4. PICK a \in Nat, f \in Nat : a = freeSem /\ f = Free
  BY FreeChanges DEF TypeOK
<1>5. Load = a + s + (p + q + r)
  BY <1>1, <1>3, <1>4 DEF Load, Posts
<1>6. Load' = (a + d) + s + ((p + q + r) + e)
  <2>1. Load' = (a + d) + s + (Weight(pc'["app"]) + Weight(pc'["flip"]) + Weight(pc'["heir"]))
    BY <1>2, <1>4 DEF Load, Posts
  <2>2. CASE t = "app"
    <3>1. Weight(pc'["app"]) = p + e /\ Weight(pc'["flip"]) = q /\ Weight(pc'["heir"]) = r
      BY <1>3, <2>2 DEF TypeOK, Threads
    <3> QED BY <2>1, <3>1
  <2>3. CASE t = "flip"
    <3>1. Weight(pc'["app"]) = p /\ Weight(pc'["flip"]) = q + e /\ Weight(pc'["heir"]) = r
      BY <1>3, <2>3 DEF TypeOK, Threads
    <3> QED BY <2>1, <3>1
  <2>4. CASE t = "heir"
    <3>1. Weight(pc'["app"]) = p /\ Weight(pc'["flip"]) = q /\ Weight(pc'["heir"]) = r + e
      BY <1>3, <2>4 DEF TypeOK, Threads
    <3> QED BY <2>1, <3>1
  <2> QED BY <2>2, <2>3, <2>4 DEF Threads
<1>7. ((a + d) + s + ((p + q + r) + e)) - (f + (d + e)) = (a + s + (p + q + r)) - f
  OBVIOUS
<1>8. Load' - Free' = Load - Free
  BY <1>4, <1>5, <1>6, <1>7
<1> QED BY <1>8 DEF Balanced, Healthy

(* ... in the steps that only change a label, or post.                     *)
LEMMA LabelBalance ==
    ASSUME TypeOK, NEW t \in Threads, NEW l, pc' = [pc EXCEPT ![t] = l],
           t = "app" => pc[t] \notin {"check", "select"} /\ l \notin {"check", "select"},
           l \notin Posting,
           IF pc[t] \in Posting THEN freeSem' = freeSem + 1 ELSE freeSem' = freeSem,
           status' = status,
           retired' = retired, (task = "destroy" => task' = "destroy"), error => error',
           failures.acquire => failures'.acquire
    PROVE  Balanced
<1>1. Free' = Free /\ Free \in Nat /\ freeSem \in Nat
  BY FreeChanges DEF Usable, TypeOK
<1>2. CASE pc[t] \in Posting
  <2>1. Weight(l) = Weight(pc[t]) + (-1) /\ freeSem' = freeSem + 1 /\ Free' = Free + (1 + (-1))
    BY <1>1, <1>2 DEF Weight
  <2>2. Shifts(t, l, 1, -1)
    BY <2>1 DEF Shifts
  <2> QED BY <2>2, PostsBalance
<1>3. CASE pc[t] \notin Posting
  <2>1. Weight(l) = Weight(pc[t]) + 0 /\ freeSem' = freeSem + 0 /\ Free' = Free + (0 + 0)
    BY <1>1, <1>3 DEF Weight
  <2>2. Shifts(t, l, 0, 0)
    BY <2>1 DEF Shifts
  <2> QED BY <2>2, PostsBalance
<1> QED BY <1>2, <1>3

(* ... and in those that release an image they will post.                  *)
LEMMA ReleaseBalance ==
    ASSUME TypeOK, NEW t \in Threads, NEW l \in Posting, pc' = [pc EXCEPT ![t] = l],
           t = "app" => pc[t] \notin {"check", "select"},
           pc[t] \notin Posting, freeSem' = freeSem,
           NEW i \in Images, ~Usable(i), status' = [status EXCEPT ![i] = "FREE"],
           UNCHANGED <<retired, task, error, failures>>
    PROVE  Balanced
<1>0. Free' = Free + 1 /\ Free \in Nat
  BY FreeChanges
<1>1. Free' = Free + (0 + 1) /\ freeSem' = freeSem + 0
  BY <1>0 DEF TypeOK
<1>2. Weight(l) = Weight(pc[t]) + 1
  BY DEF Weight
<1>3. l \notin {"check", "select"}
  BY DEF Posting
<1>4. Shifts(t, l, 0, 1)
  BY <1>1, <1>2, <1>3 DEF Shifts
<1> QED BY <1>4, PostsBalance

(* A wait that returns takes its unit along.                               *)
LEMMA ReturnBalance ==
    ASSUME Common, NEW t \in {"app", "heir"}, NEW r, pc[t] \in Waits \ Posting, WaitReturns(t, r),
           IF r = "SUCCESS" THEN freeSem > 0 /\ freeSem' = freeSem - 1 ELSE freeSem' = freeSem,
           UNCHANGED <<status, retired, error, failures>>
    PROVE  Balanced
<1>a. TypeOK /\ Places
  BY DEF Common
<1>1. CASE t = "heir"
  BY <1>a, <1>1 DEF Places, Waits, Balanced, Healthy
<1>2. CASE t = "app" /\ left["app"] # 0
  <2>1. task = "destroy" /\ task' = task
    BY <1>a, <1>2 DEF Places, WaitReturns
  <2> QED BY <2>1 DEF Balanced, Healthy
<1>3. CASE t = "app" /\ left["app"] = 0
  <2>1. PICK a \in Nat, f \in Nat : a = freeSem /\ f = Free
    BY <1>a, FreeChanges DEF TypeOK
  <2>2. Free' = f
    BY <1>a, <2>1, FreeChanges DEF Usable
  <2>3. task = "acquire"
    BY <1>a, <1>3 DEF Places
  <2>4. PICK q \in Nat : q = Posts("flip") + Posts("heir")
    BY DEF Posts, Weight
  <2>5. Posts("app") = 0 /\ Posts("app")' = 0 /\ Posts("flip")' = Posts("flip") /\ Posts("heir")' = Posts("heir")
    BY <1>a, <1>3 DEF Posts, Weight, Posting, WaitReturns, EndAcquire, Return, Goto, TypeOK, Threads
  <2>6. Load = a + 0 + q
    <3>1. Spent = 0
      BY <1>3 DEF Spent, Waits
    <3> QED BY <2>1, <2>4, <2>5, <3>1 DEF Load, Posts, Weight
  <2>7. Load' = a + 0 + q
    <3>1. CASE r = "SUCCESS"
      <4>1. Spent' = 1 /\ freeSem' = a - 1
        BY <1>a, <1>3, <2>1, <3>1 DEF Spent, WaitReturns, Goto, TypeOK, Threads
      <4>2. (a - 1) + 1 + q = a + 0 + q
        OBVIOUS
      <4> QED BY <2>4, <2>5, <4>1, <4>2 DEF Load, Posts, Weight
    <3>2. CASE r # "SUCCESS"
      <4>1. Spent' = 0 /\ freeSem' = a
        BY <1>a, <1>3, <2>1, <3>2 DEF Spent, WaitReturns, EndAcquire, Return, Goto, TypeOK, Threads
      <4> QED BY <2>4, <2>5, <4>1 DEF Load, Posts, Weight
    <3> QED BY <3>1, <3>2
  <2>8. Load' - Free' = Load - Free
    BY <2>1, <2>2, <2>6, <2>7
  <2> QED BY <2>3, <2>8 DEF Balanced, Healthy
<1> QED BY <1>1, <1>2, <1>3

(* The queues of images lose their head, and gain at their end.            *)
LEMMA HeadLeaves ==
    ASSUME NEW s \in Seq(Images), s # <<>>, AllDiffer(s)
    PROVE  /\ Head(s) \in Members(s) /\ Head(s) \in Images
           /\ Tail(s) \in Seq(Images) /\ AllDiffer(Tail(s))
           /\ Members(Tail(s)) = Members(s) \ {Head(s)}
<1>1. /\ Len(s) \in Nat \ {0} /\ Head(s) = s[1] /\ Len(Tail(s)) = Len(s) - 1
      /\ \A k \in 1 .. Len(s) : s[k] \in Images
      /\ \A k \in 1 .. Len(s) - 1 : Tail(s)[k] = s[k + 1]
  OBVIOUS
<1>2. Head(s) \in Members(s) /\ Head(s) \in Images
  BY <1>1 DEF Members
<1>3. AllDiffer(Tail(s))
  BY <1>1 DEF AllDiffer
<1>4. ASSUME NEW i \in Members(Tail(s)) PROVE i \in Members(s) \ {Head(s)}
  <2>1. PICK k \in 1 .. Len(s) - 1 : i = s[k + 1]
    BY <1>1, <1>4 DEF Members
  <2>2. k + 1 \in 1 .. Len(s) /\ k + 1 # 1 /\ 1 \in 1 .. Len(s)
    BY <1>1
  <2> QED BY <1>1, <2>1, <2>2 DEF Members, AllDiffer
<1>5. ASSUME NEW i \in Members(s) \ {Head(s)} PROVE i \in Members(Tail(s))
  <2>1. PICK k \in 1 .. Len(s) : i = s[k]
    BY <1>5 DEF Members
  <2>2. k - 1 \in 1 .. Len(s) - 1 /\ (k - 1) + 1 = k
    BY <1>1, <1>5, <2>1
  <2> QED BY <1>1, <2>1, <2>2 DEF Members
<1> QED BY <1>2, <1>3, <1>4, <1>5

(* An image that joins a sequence of different images keeps them so.       *)
LEMMA LastJoins ==
    ASSUME NEW s \in Seq(Images), NEW i \in Images, AllDiffer(s), i \notin Members(s)
    PROVE  /\ Append(s, i) \in Seq(Images) /\ AllDiffer(Append(s, i))
           /\ Members(Append(s, i)) = Members(s) \union {i}
<1>1. /\ Len(s) \in Nat /\ Len(Append(s, i)) = Len(s) + 1 /\ Append(s, i) \in Seq(Images)
      /\ \A k \in 1 .. Len(s) : Append(s, i)[k] = s[k]
      /\ Append(s, i)[Len(s) + 1] = i
  OBVIOUS
<1>2. \A k \in 1 .. Len(s) + 1 : k \in 1 .. Len(s) \/ k = Len(s) + 1
  BY <1>1
<1>3. AllDiffer(Append(s, i))
  BY <1>1, <1>2 DEF AllDiffer, Members
<1>4. ASSUME NEW j \in Members(Append(s, i)) PROVE j \in Members(s) \union {i}
  BY <1>1, <1>2, <1>4 DEF Members
<1>5. ASSUME NEW j \in Members(s) \union {i} PROVE j \in Members(Append(s, i))
  <2>1. CASE j = i
    BY <1>1, <2>1 DEF Members
  <2>2. CASE j \in Members(s)
    <3>1. PICK k \in 1 .. Len(s) : j = s[k]
      BY <2>2 DEF Members
    <3>2. k \in 1 .. Len(s) + 1
      BY <1>1
    <3> QED BY <1>1, <3>1, <3>2 DEF Members
  <2> QED BY <1>5, <2>1, <2>2
<1> QED BY <1>1, <1>3, <1>4, <1>5

(* An image is once in a queue at most.                                    *)
LEMMA TimesInQueue ==
    ASSUME NEW s \in Seq(Images), AllDiffer(s), NEW i
    PROVE  Cardinality({k \in 1 .. Len(s) : s[k] = i}) = IF i \in Members(s) THEN 1 ELSE 0
<1>1. CASE i \in Members(s)
  <2>1. PICK k \in 1 .. Len(s) : i = s[k]
    BY <1>1 DEF Members
  <2>2. {j \in 1 .. Len(s) : s[j] = i} = {k}
    BY <2>1 DEF AllDiffer
  <2> QED BY <1>1, <2>2, FS_Singleton
<1>2. CASE i \notin Members(s)
  <2>1. {j \in 1 .. Len(s) : s[j] = i} = {}
    BY <1>2 DEF Members
  <2> QED BY <1>2, <2>1, FS_EmptySet
<1> QED BY <1>1, <1>2

(* So it is in one place at most, and there it counts once.                *)
LEMMA ShowsOnce ==
    ASSUME X11Types, ServersDiffer, NEW i \in Images
    PROVE  Shows(i) = IF i \in TheServers THEN 1 ELSE 0
<1>1. Cardinality({k \in 1 .. Len(pixmaps) : pixmaps[k] = i}) = IF i \in Idle THEN 1 ELSE 0
  BY TimesInQueue DEF X11Types, ServersDiffer, Idle
<1>2. Cardinality({k \in 1 .. Len(bridgeHeld) : bridgeHeld[k] = i}) = IF i \in Sampled THEN 1 ELSE 0
  BY TimesInQueue DEF X11Types, ServersDiffer, Sampled
<1>3. Shows(i) = (IF i \in atServer THEN 1 ELSE 0) + (IF i \in Idle THEN 1 ELSE 0) + (IF i \in Sampled THEN 1 ELSE 0)
  BY <1>1, <1>2 DEF Shows
<1> QED BY <1>3 DEF ServersDiffer, TheServers

(* What the invariant promises.                                            *)
LEMMA X11Promises == X11Inv => ServerOwnsWhatItReads /\ UnitsAreImages
<1> SUFFICES ASSUME X11Inv PROVE ServerOwnsWhatItReads /\ UnitsAreImages
  OBVIOUS
<1>1. X11Types /\ ServersDiffer /\ Apart(TheServers) /\ Gone /\ UnitsAreImages
  BY DEF X11Inv
<1>2. ASSUME NEW i \in Images
      PROVE  /\ Shows(i) =< 1
             /\ Shows(i) = 1 => status[i] \in {"PENDING", "INVALID"} /\ i \notin held
  <2>1. Shows(i) = IF i \in TheServers THEN 1 ELSE 0
    BY <1>1, ShowsOnce
  <2>2. i \in TheServers => status[i] \in {"PENDING", "INVALID"} /\ i \notin held
    BY <1>1 DEF Apart, Gone
  <2> QED BY <2>1, <2>2
<1> QED BY <1>1, <1>2 DEF ServerOwnsWhatItReads

(* Nothing is at the X server to begin with, and every image has a unit.   *)
LEMMA X11Starts == XInit => X11Inv
<1> SUFFICES ASSUME XInit PROVE X11Inv
  OBVIOUS
<1>1. Init
  BY DEF XInit
<1>2. Common
  BY <1>1, InitIsCommon, X11Assumption
<1>3. X11Types /\ Idle = {} /\ Sampled = {} /\ atServer = {} /\ ServersDiffer
  <2>1. pixmaps = <<>> /\ bridgeHeld = <<>> /\ atServer = {} /\ path \in {"DRI3", "SHM", "BRIDGE"}
    BY X11Assumption DEF XInit
  <2>2. \A s : s = <<>> => s \in Seq(Images) /\ Members(s) = {} /\ AllDiffer(s)
    BY DEF Members, AllDiffer
  <2> QED BY <2>1, <2>2 DEF X11Types, Idle, Sampled, ServersDiffer
<1>4. Apart(TheServers)
  BY <1>3 DEF Apart, TheServers
<1>5. pc = [app |-> "idle", flip |-> IF UseThread THEN "top" ELSE "exited", heir |-> "idle"]
  BY <1>1 DEF Init
<1>6. Gone
  BY <1>5 DEF Gone, Dead
<1>7. UnitsAreImages
  <2>1. ~Shared /\ freeSem = NumImages
    BY <1>1, X11Assumption DEF Init, Shared, ImageCount
  <2>2. {i \in Images : Usable(i)} = Images
    <3>1. \A i \in Images : i < NumImages
      BY SwapchainAssumption DEF Images
    <3>2. \A i \in Images : status[i] \in {"UNALLOCATED", "FREE"}
      BY <1>1, <2>1, <3>1, SwapchainAssumption DEF Init, ImageCount, Images
    <3> QED BY <3>2 DEF Usable
  <2>3. Spent = 0 /\ InFlight = {}
    BY <1>5 DEF Spent, InFlight, Threads
  <2>4. Units = NumImages
    BY <2>1, <2>3, FS_EmptySet, SwapchainAssumption DEF Units
  <2> QED BY <2>2, <2>4, ImagesFinite, SwapchainAssumption DEF UnitsAreImages
<1> QED BY <1>2, <1>3, <1>4, <1>6, <1>7 DEF X11Inv

(* The base does not take the presenter to its copy.                       *)
LEMMA NoCopyBegins ==
    ASSUME Common, BaseStep
    PROVE  \A t \in {"app", "flip"} : pc'[t] = "shm_copy" => pc[t] = "shm_copy"
<1>a. TypeOK
  BY DEF Common
<1> USE DEF TypeOK, imageVars, queueVars, presentVars, lockVars, lifeVars, threadVars, callVars,
            Goto, Return, EndAcquire, EndPresent, Threads
<1> DEFINE NoCopy == \A u \in {"app", "flip"} : pc'[u] = "shm_copy" => pc[u] = "shm_copy"
<1>1. ASSUME NEW tm \in Timeouts, Acquire(tm) PROVE NoCopy
  BY <1>1, <1>a DEF Acquire
<1>2. ASSUME NEW i \in Images, QueuePresent(i) PROVE NoCopy
  BY <1>2, <1>a DEF QueuePresent
<1>3. ASSUME NEW S \in SUBSET Images, ReleaseImages(S) PROVE NoCopy
  BY <1>3, <1>a DEF ReleaseImages
<1>4. ASSUME NEW i \in Images, GpuFinishes(i) PROVE NoCopy
  BY <1>4, <1>a DEF GpuFinishes
<1>5. ASSUME Deprecate PROVE NoCopy
  BY <1>5, <1>a DEF Deprecate
<1>6. ASSUME NEW entry \in {"teardown", "stop_events"}, Destroy(entry) PROVE NoCopy
  BY <1>6, <1>a DEF Destroy
<1>7. ASSUME NEW t \in {"app", "heir"}, TakeUnit(t) PROVE NoCopy
  BY <1>7, <1>a DEF TakeUnit, WaitReturns, DrainedLabel
<1>8. ASSUME NEW t \in {"app", "heir"}, AskBackend(t) PROVE NoCopy
  BY <1>8, <1>a DEF AskBackend
<1>9. ASSUME NEW t \in {"app", "heir"}, WaitFails(t) PROVE NoCopy
  BY <1>9, <1>a DEF WaitFails, WaitReturns, DrainedLabel
<1>10. ASSUME CheckError PROVE NoCopy
  BY <1>10, <1>a DEF CheckError
<1>11. ASSUME SelectImage PROVE NoCopy
  BY <1>11, <1>a DEF SelectImage
<1>12. ASSUME SelectFails PROVE NoCopy
  BY <1>12, <1>a DEF SelectFails
<1>13. ASSUME SignalAcquired PROVE NoCopy
  BY <1>13, <1>a DEF SignalAcquired
<1>14. ASSUME SyncBeforePresent PROVE NoCopy
  BY <1>14, <1>a DEF SyncBeforePresent
<1>15. ASSUME SubmitPayload PROVE NoCopy
  BY <1>15, <1>a DEF SubmitPayload
<1>16. ASSUME NotifyOutOfDate PROVE NoCopy
  BY <1>16, <1>a DEF NotifyOutOfDate
<1>17. ASSUME NotifyThread PROVE NoCopy
  BY <1>17, <1>a DEF NotifyThread, GivenAway, Shared
<1>18. ASSUME NotifyInline PROVE NoCopy
  BY <1>18, <1>a DEF NotifyInline, GivenAway, Shared
<1>19. ASSUME NEW t \in {"app", "flip"}, CallPresent(t) PROVE NoCopy
  BY <1>19, <1>a DEF CallPresent
<1>20. ASSUME ReleaseOne PROVE NoCopy
  BY <1>20, <1>a DEF ReleaseOne, ReleaseStatus, Shared
<1>21. ASSUME ReleasePosts PROVE NoCopy
  BY <1>21, <1>a DEF ReleasePosts, PostFree, Shared
<1>22. ASSUME DeprecateImage PROVE NoCopy
  BY <1>22, <1>a DEF DeprecateImage
<1>23. ASSUME SetDescendant PROVE NoCopy
  BY <1>23, <1>a DEF SetDescendant
<1>24. ASSUME Teardown PROVE NoCopy
  BY <1>24, <1>a DEF Teardown
<1>25. ASSUME AwaitHeir PROVE NoCopy
  BY <1>25, <1>a DEF AwaitHeir
<1>26. ASSUME DrainForTeardown PROVE NoCopy
  BY <1>26, <1>a DEF DrainForTeardown, StartDrain, DrainedLabel
<1>27. ASSUME StopFlipThread PROVE NoCopy
  BY <1>27, <1>a DEF StopFlipThread
<1>28. ASSUME DestroyImages PROVE NoCopy
  BY <1>28, <1>a DEF DestroyImages
<1>29. ASSUME FlipTakesUnit PROVE NoCopy
  BY <1>29, <1>a DEF FlipTakesUnit, Continuous
<1>30. ASSUME FlipExits PROVE NoCopy
  BY <1>30, <1>a DEF FlipExits
<1>31. ASSUME FlipPops PROVE NoCopy
  BY <1>31, <1>a DEF FlipPops
<1>32. ASSUME FlipFence PROVE NoCopy
  BY <1>32, <1>a DEF FlipFence
<1>33. ASSUME FlipAbandons PROVE NoCopy
  BY <1>33, <1>a DEF FlipAbandons
<1>34. ASSUME HeirDrains PROVE NoCopy
  BY <1>34, <1>a DEF HeirDrains, StartDrain, DrainedLabel
<1>35. ASSUME HeirPresents PROVE NoCopy
  BY <1>35, <1>a DEF HeirPresents
<1>36. ASSUME DescendantNotifies PROVE NoCopy
  BY <1>36, <1>a DEF DescendantNotifies
<1> QED
  BY <1>1, <1>2, <1>3, <1>4, <1>5, <1>6, <1>7, <1>8, <1>9, <1>10, <1>11, <1>12, <1>13, <1>14, <1>15, <1>16, <1>17, <1>18, <1>19, <1>20, <1>21, <1>22, <1>23, <1>24, <1>25, <1>26, <1>27, <1>28, <1>29, <1>30, <1>31, <1>32, <1>33, <1>34, <1>35, <1>36 DEF BaseStep

(* Where the swapchain is gone all of its images are.                      *)
LEMMA GoneStep ==
    ASSUME Common, BaseStep, Gone
    PROVE  Gone'
<1>a. TypeOK /\ OnePresenter
  BY DEF Common
<1> SUFFICES ASSUME LoudStep PROVE Gone'
  BY QuietSteps DEF view, Gone
<1> USE DEF Gone, Dead, Goto, Return, EndAcquire, EndPresent, TypeOK, Threads, imageVars, threadVars
<1>1. CASE SelectImage \/ SelectFails \/ SignalAcquired
  BY <1>a, <1>1 DEF SelectImage, SelectFails, SignalAcquired
<1>2. CASE NotifyOutOfDate \/ NotifyThread \/ NotifyInline
  BY <1>a, <1>2 DEF NotifyOutOfDate, NotifyThread, NotifyInline
<1>3. CASE FlipPops \/ FlipFence
  BY <1>a, <1>3 DEF FlipPops, FlipFence
<1>4. CASE (\E S \in SUBSET Images : ReleaseImages(S)) \/ ReleaseOne
  BY <1>a, <1>4 DEF ReleaseImages, ReleaseOne
<1>5. CASE DeprecateImage
  BY <1>a, <1>5 DEF DeprecateImage
<1>6. CASE DestroyImages
  BY <1>a, <1>6 DEF DestroyImages
<1> QED BY <1>1, <1>2, <1>3, <1>4, <1>5, <1>6 DEF LoudStep

(* What the X server and Xwayland have are images.                         *)
LEMMA ServersHaveImages ==
    ASSUME X11Types
    PROVE  TheServers \subseteq Images
<1>1. \A s \in Seq(Images) : Members(s) \subseteq Images
  BY DEF Members
<1> QED BY <1>1 DEF X11Types, TheServers, Idle, Sampled

(* A step keeps the invariant, and is one the contract allows.             *)
X11Simulated == \E K, L \in SUBSET Images : K = TheServers /\ L = TheServers' /\ Simulated(K, L)
X11Kept == X11Inv' /\ X11Simulated

(* So is one that changes no part of the view, nor what the servers have   *)
(* but in the end.                                                         *)
LEMMA X11StillOwned ==
    ASSUME X11Inv, view' = view, TheServers' \subseteq TheServers, Dead \/ TheServers' = TheServers
    PROVE  X11Simulated
<1>1. PICK K \in SUBSET Images, L \in SUBSET Images : K = TheServers /\ L = TheServers'
  BY ServersHaveImages DEF X11Inv
<1>2. CASE Dead
  <2>1. Dead'
    BY <1>2 DEF view
  <2> QED BY <1>1, <2>1, NobodyOwns DEF X11Simulated
<1>3. CASE TheServers' = TheServers
  <2>1. Simulated(K, K)
    BY StillOwned
  <2> QED BY <1>1, <1>3, <2>1 DEF X11Simulated
<1> QED BY <1>2, <1>3

(* A step of the base touches nothing the X server or Xwayland has.        *)
LEMMA X11BaseStep ==
    ASSUME X11Inv, ServerKept(BaseStep)
    PROVE  X11Kept
<1>1. BaseStep /\ Common /\ UNCHANGED <<path, pixmaps, bridgeHeld, atServer>>
  BY DEF X11Inv, ServerKept, x11Vars, serverVars
<1>2. Common' /\ Gone' /\ Balanced
  BY <1>1, CommonStep, GoneStep, BaseBalance DEF X11Inv
<1>3. PICK K \in SUBSET Images : K = TheServers /\ TheServers' = K /\ Apart(K)
  <2>1. TheServers' = TheServers
    BY <1>1 DEF TheServers, Idle, Sampled
  <2> QED BY <2>1, ServersHaveImages DEF X11Inv
<1>4. Apart(K)'
  BY <1>1, <1>3, ApartStep
<1>5. Apart(TheServers)'
  BY <1>3, <1>4 DEF Apart
<1>6. X11Types' /\ ServersDiffer'
  BY <1>1 DEF X11Inv, X11Types, ServersDiffer, Idle, Sampled
<1>8. UnitsAreImages'
  BY <1>1, <1>2, BalanceKeeps DEF X11Inv, Common
<1>9. X11Simulated
  <2>1. Simulated(K, K)
    BY <1>1, <1>3, BaseSimulated
  <2> QED BY <1>3, <2>1 DEF X11Simulated
<1> QED BY <1>2, <1>5, <1>6, <1>8, <1>9 DEF X11Inv, X11Kept

(* A thread moves on, or the X server does, and no image is shown.         *)
LEMMA X11Keeps ==
    ASSUME X11Inv, Moves, Counted, Balanced,
           UNCHANGED <<imageVars, queueVars, presentVars, lockVars, lifeVars, held, image, timeout, left, callVars>>,
           X11Types', ServersDiffer', TheServers' \subseteq TheServers, Dead \/ TheServers' = TheServers
    PROVE  X11Kept
<1>1. Common /\ Apart(TheServers) /\ Gone /\ UnitsAreImages
  BY DEF X11Inv
<1>2. Common' /\ view' = view
  BY <1>1, MoveKeeps
<1>3. Apart(TheServers)' /\ Gone'
  BY <1>1, <1>2 DEF view, Apart, Gone
<1>4. UnitsAreImages'
  BY <1>1, <1>2, BalanceKeeps DEF Common
<1>5. X11Simulated
  BY <1>2, X11StillOwned
<1> QED BY <1>2, <1>3, <1>4, <1>5 DEF X11Inv, X11Kept

(* ... one thread, from one label to the next.                             *)
Within(t, l) ==
    \/ t # "flip" /\ {pc[t], l} \subseteq Waits
    \/ t # "heir" /\ {pc[t], l} \subseteq Shown /\ (t = "app" => task = "present")
    \/ t # "heir" /\ {pc[t], l} \subseteq Parting
    \/ t = "app" /\ {pc[t], l} \subseteq Closing /\ task = "destroy"
ImagesKept == UNCHANGED <<imageVars, queueVars, presentVars, lockVars, lifeVars, held, image, timeout, left, callVars>>
PlacesKept == UNCHANGED <<path, pixmaps, bridgeHeld, atServer>>
Posted(t) == freeSem' = IF pc[t] \in Posting THEN freeSem + 1 ELSE freeSem
Fails == /\ error' \in BOOLEAN /\ (error => error')
         /\ failures' \in [count : Nat, acquire : BOOLEAN]
         /\ failures.acquire => failures'.acquire

(* A thread that only moves on, and posts what it leaves, keeps X11Inv.    *)
LEMMA X11Moves ==
    ASSUME X11Inv, NEW t \in Threads, NEW l, Goto(t, l), Within(t, l), l \notin Posting,
           Posted(t), Fails, ImagesKept, PlacesKept
    PROVE  X11Kept
<1>1. Common /\ TypeOK /\ X11Types /\ ServersDiffer
  BY DEF X11Inv, Common
<1>2. Moves
  BY <1>1 DEF Moves, Goto, Within, TypeOK
<1>3. Counted
  BY <1>1 DEF Counted, Posted, Fails, TypeOK
<1>4. Balanced
  <2>1. t = "app" => pc[t] \notin {"check", "select"} /\ l \notin {"check", "select"}
    BY DEF Within, Waits, Shown, Parting, Closing, Flushes
  <2>2. pc' = [pc EXCEPT ![t] = l] /\ UNCHANGED <<status, retired, task>>
    BY DEF Goto, ImagesKept, imageVars, lifeVars, callVars
  <2> QED BY <1>1, <2>1, <2>2, LabelBalance DEF Posted, Fails
<1>5. X11Types' /\ ServersDiffer' /\ TheServers' = TheServers
  BY <1>1 DEF PlacesKept, X11Types, ServersDiffer, Idle, Sampled, TheServers
<1> QED BY <1>2, <1>3, <1>4, <1>5, X11Keeps DEF ImagesKept

(* ... none, while the X server or its event thread goes on.               *)
LEMMA X11Rests ==
    ASSUME X11Inv, UNCHANGED <<pc, freeSem>>, Fails, ImagesKept,
           X11Types', ServersDiffer', TheServers' \subseteq TheServers, Dead \/ TheServers' = TheServers
    PROVE  X11Kept
<1>1. TypeOK
  BY DEF X11Inv, Common
<1>2. Moves /\ Counted
  BY <1>1 DEF Moves, Counted, Fails, TypeOK
<1>3. Balanced
  BY <1>1, StillBalanced DEF Fails, ImagesKept, imageVars, lifeVars, callVars
<1> QED BY <1>2, <1>3, X11Keeps DEF ImagesKept

(* The wait of a caller of get_free_buffer() ends.                         *)
LEMMA X11Returns ==
    ASSUME X11Inv, NEW t \in {"app", "heir"}, NEW r \in Results, pc[t] \in Waits \ Posting, WaitReturns(t, r),
           IF r = "SUCCESS" THEN freeSem > 0 /\ freeSem' = freeSem - 1 ELSE freeSem' = freeSem,
           UNCHANGED <<imageVars, queueVars, error, presentVars, statusLock, lifeVars, held, failures, image, todo>>,
           PlacesKept
    PROVE  X11Kept
<1>1. Common /\ TypeOK /\ X11Types /\ ServersDiffer /\ Apart(TheServers) /\ Gone /\ UnitsAreImages
  BY DEF X11Inv, Common
<1>2. freeSem' \in Nat
  BY <1>1 DEF TypeOK
<1>3. Common' /\ view' = view
  BY <1>1, <1>2, ReturnKeeps
<1>4. X11Types' /\ ServersDiffer' /\ TheServers' = TheServers
  BY <1>1 DEF PlacesKept, X11Types, ServersDiffer, Idle, Sampled, TheServers
<1>5. Apart(TheServers)' /\ Gone'
  BY <1>1, <1>3, <1>4 DEF view, Apart, Gone
<1>7. UnitsAreImages'
  <2>1. UNCHANGED <<status, retired, error, failures>>
    BY DEF imageVars, lifeVars
  <2>2. Balanced
    BY <1>1, <2>1, ReturnBalance
  <2> QED BY <1>1, <1>3, <2>2, BalanceKeeps DEF Common
<1>8. X11Simulated
  BY <1>3, <1>4, X11StillOwned
<1> QED BY <1>3, <1>4, <1>5, <1>7, <1>8 DEF X11Inv, X11Kept

(* present_image() returns: the image may be the X server's from now on.   *)
LEMMA X11Presents ==
    ASSUME X11Inv, NEW t \in {"app", "flip"}, pc[t] \in Shown \union Parting, t = "app" => task = "present",
           PresentReturns(t), Posted(t),
           UNCHANGED <<imageVars, queueVars, error, started, startSem, acquireLock, lifeVars, held, failures,
                       timeout, left, todo>>,
           X11Types', ServersDiffer',
           \/ TheServers' = TheServers
           \/ pc[t] \in Shown /\ TheServers' = TheServers \union {image[t]}
    PROVE  X11Kept
<1>1. Common /\ TypeOK /\ OnePresenter /\ X11Types /\ Apart(TheServers) /\ Gone /\ UnitsAreImages
  BY DEF X11Inv, Common
<1>2. PICK K \in SUBSET Images : K = TheServers /\ Apart(K)
  BY <1>1, ServersHaveImages
<1>3. PICK j : j = image[t]
  OBVIOUS
<1>4. Counted
  BY <1>1 DEF Counted, Posted, TypeOK
<1>5. Common' /\ Apart(K)' /\ (pc[t] \in Shown => Apart(K \union {j})')
  BY <1>1, <1>2, <1>3, <1>4, PresentReturnKeeps
<1>6. Apart(TheServers)'
  <2>1. TheServers' = K \/ (pc[t] \in Shown /\ TheServers' = K \union {j})
    BY <1>2, <1>3
  <2> QED BY <1>5, <2>1 DEF Apart
<1>7. PICK l \in {"idle", "top"} : pc' = [pc EXCEPT ![t] = l] /\ (t = "flip" => task' = task)
  BY DEF PresentReturns, Return, Goto
<1>8. Gone'
  <2>1. ~Dead /\ ~Dead'
    BY <1>1, <1>7 DEF Dead, OnePresenter, Shown, Parting, TypeOK, Threads
  <2>2. \A u \in {"app", "flip"} : pc'[u] = "shm_copy" => pc[u] = "shm_copy"
    BY <1>1, <1>7 DEF TypeOK, Threads
  <2> QED BY <1>1, <2>1, <2>2 DEF Gone
<1>9. UnitsAreImages'
  <2>1. /\ t = "app" => pc[t] \notin {"check", "select"} /\ l \notin {"check", "select"}
        /\ l \notin Posting /\ t \in Threads
        /\ task = "destroy" => task' = "destroy"
        /\ status' = status /\ retired' = retired
    BY <1>7 DEF Shown, Parting, Posting, Threads, imageVars, lifeVars
  <2>2. Balanced
    BY <1>1, <1>7, <2>1, LabelBalance DEF Posted
  <2> QED BY <1>1, <1>5, <2>2, BalanceKeeps DEF Common
<1>10. X11Simulated
  <2>1. PICK L \in SUBSET Images : L = TheServers' /\ (L = K \/ (pc[t] \in Shown /\ L = K \union {j}))
    <3>1. pc[t] \in Shown => j \in Images
      BY <1>1, <1>3 DEF Common, HaveImages, TypeOK, Threads
    <3> QED BY <1>2, <1>3, <3>1
  <2>2. UNCHANGED <<status, pool, held>>
    BY DEF imageVars, queueVars
  <2>3. CASE pc[t] \in Shown
    <3>1. j \in Images /\ (FlipImage = j \/ AppImage = j)
      BY <1>1, <1>3, <2>3 DEF Common, HaveImages, TypeOK, Threads, FlipImage, AppImage
    <3>2. Simulated(K, L)
      BY <1>1, <1>2, <2>1, <2>2, <2>3, <3>1, ShownLeaves
    <3> QED BY <1>2, <2>1, <3>2 DEF X11Simulated
  <2>4. CASE pc[t] \notin Shown
    <3>1. FlipImage' = FlipImage /\ AppImage' = AppImage
      BY <1>1, <1>7, <2>4 DEF FlipImage, AppImage, PresentReturns, Return, Goto, Shown, Parting, TypeOK, Threads
    <3>2. Acquiring' = Acquiring /\ Returning' = Returning /\ Dead' = Dead
      BY <1>1, <1>7, <2>4 DEF Acquiring, Returning, Dead, OnePresenter, PresentReturns, Return, Goto, Shown, Parting, TypeOK, Threads
    <3>3. TheServers' = TheServers
      BY <1>2, <2>1, <2>4
    <3> QED BY <2>2, <3>1, <3>2, <3>3, X11StillOwned DEF view
  <2> QED BY <2>3, <2>4
<1> QED BY <1>5, <1>6, <1>8, <1>9, <1>10 DEF X11Inv, X11Kept

(* An image leaves the hands of the thread that shows it: it is free, or   *)
(* the backend's.                                                          *)
LEMMA LeaveShown ==
    ASSUME Common, NEW t \in {"app", "flip"}, pc[t] \in Shown, t = "app" => task = "present",
           NEW l \in Parting, Goto(t, l), Counted,
           UNCHANGED <<payload, hint, queueVars, presentVars, lockVars, lifeVars, held, image, timeout, left, callVars>>,
           NEW K \in SUBSET Images, Apart(K), NEW j, j = image[t],
           status' \in {status, [status EXCEPT ![j] = "FREE"]}
    PROVE  /\ Common' /\ Apart(K)' /\ (status' = status => Apart(K \union {j})')
           /\ j \in Images \ K /\ status[j] = "PENDING" /\ ~Dead /\ ~Dead'
           /\ FlipImage = j \/ AppImage = j
           /\ FlipImage' = NoImage /\ AppImage' = NoImage /\ UNCHANGED <<Acquiring, Returning>>
<1>a. TypeOK /\ Places /\ OnePresenter /\ HaveImages /\ Owned
  BY DEF Common
<1> USE DEF queueVars, presentVars, lockVars, lifeVars, callVars, Threads
<1>b. DOMAIN pc' = Threads /\ pc'[t] = l /\ \A u \in Threads \ {t} : pc'[u] = pc[u]
  BY <1>a DEF Goto, TypeOK
<1>c. j \in Images /\ j # NoImage
  BY <1>a DEF HaveImages, TypeOK
<1>1. status' \in [Images -> Statuses] /\ \A i \in Images : status'[i] = status[i] \/ (i = j /\ status'[i] = "FREE")
  BY <1>a, <1>c DEF TypeOK, Statuses
<1>2. TypeOK'
  BY <1>a, <1>b, <1>1 DEF TypeOK, Counted
<1>3. Places'
  <2>1. CASE t = "app"
    BY <1>a, <1>b, <2>1 DEF Places, AppPlaces, Waits, Shown, Parting, Requesting, Acquires, Leaves, Flushes
  <2>2. CASE t = "flip"
    BY <1>a, <1>b, <2>2 DEF Places, FlipPlaces
  <2> QED BY <2>1, <2>2
<1>4. OnePresenter'
  BY <1>a, <1>b DEF OnePresenter, UseThread, Shown, Parting, Counted
<1>5. HaveImages'
  BY <1>a, <1>b DEF HaveImages, Shown, Parting, Requesting
<1>6. ~Dead /\ ~Dead'
  BY <1>a, <1>b DEF Dead, OnePresenter, Shown, Parting
<1>7. PoolPends /\ PoolDiffers /\ FlipShows /\ AppShows /\ AcquiringHas /\ HeldAcquired /\ ReturningAcquired
  BY <1>a, <1>6 DEF Owned
<1>8. /\ t = "app" => AppImage = j /\ AppImage' = NoImage /\ FlipImage = NoImage /\ FlipImage' = NoImage /\ pool = <<>>
      /\ t = "flip" => FlipImage = j /\ FlipImage' = NoImage /\ AppImage = NoImage /\ AppImage' = NoImage
  BY <1>a, <1>b DEF FlipImage, AppImage, OnePresenter, Shown, Parting
<1>9. Acquiring' = Acquiring /\ Returning' = Returning /\ Acquiring \in Images \union {NoImage} /\ Returning \subseteq Images
  BY <1>a, <1>b DEF Acquiring, Returning, Shown, Parting, TypeOK
<1>10. status[j] = "PENDING" /\ j \notin held /\ (\A k \in 1 .. Len(pool) : pool[k] # j)
  BY <1>c, <1>7, <1>8 DEF FlipShows, AppShows, HeldAcquired
<1>11. j \notin K
  BY <1>6, <1>8 DEF Apart
<1>12. UNCHANGED <<pool, held>> /\ pool \in Seq(Images) /\ held \subseteq Images
  BY <1>a DEF TypeOK
<1>13. Owned'
  <2>1. PoolPends' /\ PoolDiffers'
    BY <1>1, <1>7, <1>10, <1>12 DEF PoolPends, PoolDiffers
  <2>2. FlipShows' /\ AppShows'
    BY <1>8 DEF FlipShows, AppShows
  <2>3. AcquiringHas' /\ HeldAcquired' /\ ReturningAcquired'
    BY <1>1, <1>7, <1>9, <1>10, <1>12 DEF AcquiringHas, HeldAcquired, ReturningAcquired
  <2> QED BY <2>1, <2>2, <2>3 DEF Owned
<1>14. FlipImage' = NoImage /\ AppImage' = NoImage
  BY <1>8
<1>15. Apart(K)'
  <2>1. \A i \in K : i # NoImage /\ status[i] = "PENDING" /\ i \notin held /\ \A k \in 1 .. Len(pool) : pool[k] # i
    BY <1>6, NoImageIsNone DEF Apart
  <2>2. \A i \in K : status'[i] = "PENDING"
    BY <1>1, <1>11, <2>1
  <2> QED BY <1>12, <1>14, <2>1, <2>2 DEF Apart
<1>16. status' = status => Apart(K \union {j})'
  BY <1>c, <1>10, <1>12, <1>14, <1>15 DEF Apart
<1> QED BY <1>c, <1>2, <1>3, <1>4, <1>5, <1>6, <1>8, <1>9, <1>10, <1>11, <1>13, <1>14, <1>15, <1>16 DEF Common

(* An image the backend had is released and will be posted.                *)
LEMMA X11Releases ==
    ASSUME X11Inv, NEW t \in Threads, NEW l \in Posting, Goto(t, l), Within(t, l), pc[t] \notin Posting,
           NEW i \in TheServers, ~Dead, status' = [status EXCEPT ![i] = "FREE"],
           UNCHANGED <<payload, hint, freeSem, queueVars, error, presentVars, lockVars, lifeVars,
                       held, failures, image, timeout, left, callVars>>,
           X11Types', ServersDiffer', TheServers' = TheServers \ {i}
    PROVE  X11Kept
<1>1. Common /\ TypeOK /\ X11Types /\ Apart(TheServers) /\ UnitsAreImages
  BY DEF X11Inv, Common
<1>2. PICK K \in SUBSET Images : K = TheServers /\ Apart(K)
  BY <1>1, ServersHaveImages
<1>3. Moves /\ Counted
  BY <1>1 DEF Moves, Goto, Within, TypeOK, Counted
<1>4. Common' /\ Apart(K \ {i})'
  BY <1>1, <1>2, <1>3, ReleaseKeeps
<1>5. Apart(TheServers)'
  BY <1>2, <1>4 DEF Apart
<1>6. Gone'
  <2>1. pc'["app"] = pc["app"] \/ pc'["app"] \in Posting
    BY <1>1 DEF Goto, TypeOK, Threads
  <2>2. ~Dead'
    BY <2>1 DEF Dead, Posting
  <2>3. \A u \in {"app", "flip"} : pc'[u] = "shm_copy" => pc[u] = "shm_copy"
    BY <1>1 DEF Goto, TypeOK, Threads, Posting
  <2> QED BY <1>1, <2>2, <2>3 DEF Gone
<1>7. UnitsAreImages'
  <2>1. t = "app" => pc[t] \notin {"check", "select"}
    BY DEF Within, Waits, Shown, Parting, Closing, Flushes
  <2>2. i \in Images /\ ~Usable(i)
    BY <1>2 DEF Apart, Usable
  <2>3. pc' = [pc EXCEPT ![t] = l] /\ UNCHANGED <<retired, task>>
    BY DEF Goto, lifeVars, callVars
  <2>4. Balanced
    BY <1>1, <2>1, <2>2, <2>3, ReleaseBalance
  <2> QED BY <1>1, <1>4, <2>4, BalanceKeeps DEF Common
<1>8. X11Simulated
  <2>1. PICK L \in SUBSET Images : L = TheServers' /\ L = K \ {i}
    BY <1>2
  <2>2. UNCHANGED <<pool, held, FlipImage, AppImage, Acquiring, Returning, Dead>>
    BY <1>1, <1>3, MoveLeaves DEF queueVars, callVars
  <2>3. Simulated(K, K \ {i})
    BY <1>1, <1>2, <2>2, BackendFrees
  <2> QED BY <1>2, <2>1, <2>3 DEF X11Simulated
<1> QED BY <1>4, <1>5, <1>6, <1>7, <1>8 DEF X11Inv, X11Kept

(* An idle pixmap is looked at: its image is released, if it still is one. *)
LEMMA X11Scans ==
    ASSUME X11Inv, NEW t \in {"app", "heir"}, ScanPixmap(t)
    PROVE  X11Kept
<1>1. Common /\ TypeOK /\ OnePresenter /\ X11Types /\ ServersDiffer /\ Apart(TheServers) /\ Gone
  BY DEF X11Inv, Common
<1>2. PICK i : i = Head(pixmaps)
  OBVIOUS
<1>3. /\ pc[t] = "scan" /\ pixmaps # <<>> /\ pixmaps' = Tail(pixmaps)
      /\ UNCHANGED <<payload, hint, freeSem, queueVars, error, presentVars, lockVars, lifeVars,
                     held, failures, image, timeout, left, callVars>>
      /\ UNCHANGED <<path, bridgeHeld, atServer>>
      /\ IF status[i] = "INVALID" THEN UNCHANGED <<status, pc>>
         ELSE status' = [status EXCEPT ![i] = "FREE"] /\ Goto(t, "scan_post")
  BY <1>1, <1>2 DEF ScanPixmap, ReleaseStatus, Shared, OnePresenter
<1>4. i \in Idle /\ i \in Images /\ pixmaps' \in Seq(Images) /\ AllDiffer(pixmaps') /\ Idle' = Idle \ {i}
  BY <1>1, <1>2, <1>3, HeadLeaves DEF X11Types, ServersDiffer, Idle
<1>5. X11Types' /\ ServersDiffer' /\ TheServers' = TheServers \ {i}
  <2>1. Sampled' = Sampled /\ atServer' = atServer
    BY <1>3 DEF Sampled
  <2>2. X11Types'
    BY <1>1, <1>3, <1>4 DEF X11Types
  <2>3. ServersDiffer'
    BY <1>1, <1>3, <1>4, <2>1 DEF ServersDiffer
  <2>4. TheServers' = TheServers \ {i}
    BY <1>1, <1>4, <2>1 DEF ServersDiffer, TheServers
  <2> QED BY <2>2, <2>3, <2>4
<1>6. CASE status[i] = "INVALID"
  <2>1. UNCHANGED <<pc, freeSem>> /\ ImagesKept /\ Fails
    BY <1>1, <1>3, <1>6 DEF ImagesKept, Fails, imageVars, TypeOK
  <2>3. Dead
    BY <1>1, <1>4, <1>6 DEF Apart, TheServers
  <2>4. X11Types' /\ ServersDiffer' /\ TheServers' \subseteq TheServers
    BY <1>5
  <2> QED BY <2>1, <2>3, <2>4, X11Rests
<1>7. CASE status[i] # "INVALID"
  <2>1. ~Dead
    BY <1>1, <1>4, <1>7 DEF Gone
  <2>2. Within(t, "scan_post") /\ "scan_post" \in Posting /\ pc[t] \notin Posting
    BY <1>3 DEF Within, Waits, Posting
  <2>3. i \in TheServers /\ t \in Threads
    BY <1>4 DEF TheServers, Threads
  <2> QED BY <1>3, <1>5, <1>7, <2>1, <2>2, <2>3, X11Releases
<1> QED BY <1>6, <1>7

(* The image that was kept back longest is released.                       *)
LEMMA X11Oldest ==
    ASSUME X11Inv, NEW t \in {"app", "flip"}, BridgeReleases(t) \/ BridgeFlushes(t)
    PROVE  X11Kept
<1>1. Common /\ TypeOK /\ Places /\ OnePresenter /\ X11Types /\ ServersDiffer
  BY DEF X11Inv, Common
<1>2. bridgeHeld # <<>>
  <2>1. Lag \in Nat
    BY SwapchainAssumption, X11Assumption DEF Lag
  <2>2. BridgeReleases(t) => bridgeHeld # <<>>
    BY <1>1, <2>1 DEF BridgeReleases, X11Types
  <2> QED BY <2>2 DEF BridgeFlushes
<1>3. PICK from \in {"lag", "flush"}, to \in {"lag_post", "flush_post"} :
          ReleaseOldest(t, from, to) /\ (from = "lag" <=> to = "lag_post")
  BY DEF BridgeReleases, BridgeFlushes
<1>4. PICK i : i = Head(bridgeHeld)
  OBVIOUS
<1>5. /\ pc[t] = from /\ bridgeHeld' = Tail(bridgeHeld)
      /\ UNCHANGED <<payload, hint, freeSem, queueVars, error, presentVars, lockVars, lifeVars,
                     held, failures, image, timeout, left, callVars>>
      /\ UNCHANGED <<path, pixmaps, atServer>>
      /\ status' = [status EXCEPT ![i] = "FREE"] /\ Goto(t, to)
  BY <1>1, <1>3, <1>4 DEF ReleaseOldest, ReleaseStatus, Shared, OnePresenter, serverVars
<1>6. i \in Sampled /\ bridgeHeld' \in Seq(Images) /\ AllDiffer(bridgeHeld') /\ Sampled' = Sampled \ {i}
  BY <1>1, <1>2, <1>4, <1>5, HeadLeaves DEF X11Types, ServersDiffer, Sampled
<1>7. X11Types' /\ ServersDiffer' /\ TheServers' = TheServers \ {i}
  <2>1. Idle' = Idle /\ atServer' = atServer
    BY <1>5 DEF Idle
  <2>2. X11Types'
    BY <1>1, <1>5, <1>6 DEF X11Types
  <2>3. ServersDiffer'
    BY <1>1, <1>5, <1>6, <2>1 DEF ServersDiffer
  <2>4. TheServers' = TheServers \ {i}
    BY <1>1, <1>6, <2>1 DEF ServersDiffer, TheServers
  <2> QED BY <2>2, <2>3, <2>4
<1>8. ~Dead
  BY <1>1, <1>5 DEF Dead, OnePresenter
<1>9. Within(t, to) /\ to \in Posting /\ pc[t] \notin Posting
  BY <1>1, <1>3, <1>5 DEF Within, Posting, Shown, Parting, Closing, Flushes, Places
<1>10. i \in TheServers /\ t \in Threads
  BY <1>6 DEF TheServers, Threads
<1> QED BY <1>5, <1>7, <1>8, <1>9, <1>10, X11Releases

(* An image the thread has shown is free again ...                         *)
LEMMA X11Unpresents ==
    ASSUME X11Inv, NEW t \in {"app", "flip"}, Unpresent(t)
    PROVE  X11Kept
<1>1. Common /\ TypeOK /\ Places /\ OnePresenter /\ X11Types /\ ServersDiffer /\ Apart(TheServers)
      /\ UnitsAreImages
  BY DEF X11Inv, Common
<1>2. PICK j : j = image[t]
  OBVIOUS
<1>3. /\ pc[t] = "unpresent" /\ Goto(t, "post") /\ status' = [status EXCEPT ![j] = "FREE"]
      /\ UNCHANGED <<payload, hint, freeSem, queueVars, error, presentVars, lockVars, lifeVars,
                     held, failures, image, timeout, left, callVars>>
      /\ UNCHANGED <<path, pixmaps, bridgeHeld, atServer>>
  BY <1>1, <1>2 DEF Unpresent, ReleaseStatus, Shared, OnePresenter, x11Vars, serverVars
<1>4. PICK K \in SUBSET Images : K = TheServers /\ Apart(K)
  BY <1>1, ServersHaveImages
<1>5. Counted /\ pc[t] \in Shown /\ "post" \in Parting /\ (t = "app" => task = "present")
  BY <1>1, <1>3 DEF Counted, TypeOK, Shown, Parting, Places, Flushes
<1>6. Common' /\ Apart(K)' /\ j \in Images /\ status[j] = "PENDING" /\ ~Dead'
  BY <1>1, <1>2, <1>3, <1>4, <1>5, LeaveShown
<1>7. X11Types' /\ ServersDiffer' /\ TheServers' = TheServers
  BY <1>1, <1>3 DEF X11Types, ServersDiffer, Idle, Sampled, TheServers
<1>8. Apart(TheServers)' /\ Gone'
  BY <1>4, <1>6, <1>7 DEF Apart, Gone
<1>10. UnitsAreImages'
  <2>1. pc' = [pc EXCEPT ![t] = "post"] /\ UNCHANGED <<retired, task>> /\ t \in Threads
    BY <1>3 DEF Goto, lifeVars, callVars, Threads
  <2>2. ~Usable(j) /\ "post" \in Posting /\ pc[t] \notin Posting /\ pc[t] \notin {"check", "select"}
    BY <1>3, <1>6 DEF Usable, Posting
  <2>3. Balanced
    BY <1>1, <1>3, <1>6, <2>1, <2>2, ReleaseBalance
  <2> QED BY <1>1, <1>6, <2>3, BalanceKeeps DEF Common
<1>11. X11Simulated
  <2>1. PICK L \in SUBSET Images : L = TheServers' /\ L = K
    BY <1>4, <1>6, <1>7
  <2>2. UNCHANGED <<pool, held>>
    BY <1>3 DEF queueVars
  <2>3. \A i \in Images : status'[i] = status[i] \/ (i = j /\ status'[i] = "FREE")
    BY <1>1, <1>3 DEF TypeOK
  <2>4. FlipImage = j \/ AppImage = j
    BY <1>1, <1>2, <1>3, <1>4, <1>5, LeaveShown
  <2>5. FlipImage' = NoImage /\ AppImage' = NoImage /\ UNCHANGED <<Acquiring, Returning>> /\ ~Dead
    BY <1>1, <1>2, <1>3, <1>4, <1>5, LeaveShown
  <2>6. Simulated(K, L)
    BY <1>1, <1>4, <1>6, <2>1, <2>2, <2>3, <2>4, <2>5, OldestLeaves
  <2> QED BY <1>4, <2>1, <2>6 DEF X11Simulated
<1> QED BY <1>6, <1>7, <1>8, <1>10, <1>11 DEF X11Inv, X11Kept

(* ... or is kept back for Xwayland.                                       *)
LEMMA X11KeepsBack ==
    ASSUME X11Inv, NEW t \in {"app", "flip"}, BridgeKeeps(t)
    PROVE  X11Kept
<1>1. Common /\ TypeOK /\ Places /\ OnePresenter /\ X11Types /\ ServersDiffer /\ Apart(TheServers)
      /\ UnitsAreImages
  BY DEF X11Inv, Common
<1>2. PICK j : j = image[t]
  OBVIOUS
<1>3. /\ pc[t] = "throttle" /\ Goto(t, "lag") /\ status' = status /\ bridgeHeld' = Append(bridgeHeld, j)
      /\ UNCHANGED <<payload, hint, freeSem, queueVars, error, presentVars, lockVars, lifeVars,
                     held, failures, image, timeout, left, callVars>>
      /\ UNCHANGED <<path, pixmaps, atServer>>
  BY <1>1, <1>2 DEF BridgeKeeps, BaseKept, imageVars, serverVars
<1>4. PICK K \in SUBSET Images : K = TheServers /\ Apart(K)
  BY <1>1, ServersHaveImages
<1>5. Counted /\ pc[t] \in Shown /\ "lag" \in Parting /\ (t = "app" => task = "present")
  BY <1>1, <1>3 DEF Counted, TypeOK, Shown, Parting, Places, Flushes
<1>6. Common' /\ Apart(K \union {j})' /\ j \in Images \ K /\ ~Dead'
  BY <1>1, <1>2, <1>3, <1>4, <1>5, LeaveShown
<1>7. bridgeHeld' \in Seq(Images) /\ AllDiffer(bridgeHeld') /\ Sampled' = Sampled \union {j}
  <2>1. j \notin Sampled
    BY <1>4, <1>6 DEF TheServers
  <2> QED BY <1>1, <1>3, <1>6, <2>1, LastJoins DEF X11Types, ServersDiffer, Sampled
<1>8. X11Types' /\ ServersDiffer' /\ TheServers' = TheServers \union {j}
  <2>1. Idle' = Idle /\ atServer' = atServer
    BY <1>3 DEF Idle
  <2>2. X11Types'
    BY <1>1, <1>3, <1>7 DEF X11Types
  <2>3. ServersDiffer'
    BY <1>1, <1>3, <1>4, <1>6, <1>7, <2>1 DEF ServersDiffer, TheServers
  <2>4. TheServers' = TheServers \union {j}
    BY <1>7, <2>1 DEF TheServers
  <2> QED BY <2>2, <2>3, <2>4
<1>9. Apart(TheServers)' /\ Gone'
  BY <1>4, <1>6, <1>8 DEF Apart, Gone
<1>11. UnitsAreImages'
  <2>1. pc' = [pc EXCEPT ![t] = "lag"] /\ UNCHANGED <<retired, task>> /\ t \in Threads
    BY <1>3 DEF Goto, lifeVars, callVars, Threads
  <2>2. "lag" \notin Posting /\ pc[t] \notin Posting /\ pc[t] \notin {"check", "select"} /\ "lag" \notin {"check", "select"}
    BY <1>3 DEF Posting
  <2>3. Balanced
    BY <1>1, <1>3, <2>1, <2>2, LabelBalance
  <2> QED BY <1>1, <1>6, <2>3, BalanceKeeps DEF Common
<1>12. X11Simulated
  <2>1. PICK L \in SUBSET Images : L = TheServers' /\ L = K \union {j}
    BY <1>4, <1>6, <1>8
  <2>2. UNCHANGED <<pool, held>>
    BY <1>3 DEF queueVars
  <2>3. \A i \in Images : status'[i] = status[i]
    BY <1>1, <1>3 DEF TypeOK
  <2>4. FlipImage = j \/ AppImage = j
    BY <1>1, <1>2, <1>3, <1>4, <1>5, LeaveShown
  <2>5. FlipImage' = NoImage /\ AppImage' = NoImage /\ UNCHANGED <<Acquiring, Returning>> /\ ~Dead
    BY <1>1, <1>2, <1>3, <1>4, <1>5, LeaveShown
  <2>6. Simulated(K, L)
    BY <1>1, <1>4, <1>6, <2>1, <2>2, <2>3, <2>4, <2>5, OldestLeaves
  <2> QED BY <1>4, <2>1, <2>6 DEF X11Simulated
<1> QED BY <1>6, <1>8, <1>9, <1>11, <1>12 DEF X11Inv, X11Kept

(* A caller of get_free_buffer() goes on.                                  *)
LEMMA X11WaitStep ==
    ASSUME X11Inv, NEW t \in {"app", "heir"}, X11GetFreeBuffer(t)
    PROVE  X11Kept
<1>a. Common /\ TypeOK
  BY DEF X11Inv, Common
<1>b. t \in Threads
  BY DEF Threads
<1>1. ASSUME NEW l \in {"scan", "poll", "cond"}, pc[t] \in {"backend", "scan", "scan_post", "cond"}, Goto(t, l),
             Posted(t), UNCHANGED <<error, failures>>, ImagesKept, PlacesKept
      PROVE  X11Kept
  <2>1. Within(t, l) /\ l \notin Posting
    BY <1>1 DEF Within, Waits, Posting
  <2>2. Fails
    BY <1>a, <1>1 DEF Fails, TypeOK
  <2> QED BY <1>b, <1>1, <2>1, <2>2, X11Moves
<1>2. ASSUME GetFreeBuffer(t) \/ CondWakes(t) PROVE X11Kept
  <2>1. pc[t] \in {"backend", "cond"} /\ Goto(t, "scan") /\ BaseKept
        /\ UNCHANGED <<path, serverVars, bridgeHeld>>
    BY <1>2 DEF GetFreeBuffer, CondWakes
  <2>2. Posted(t) /\ UNCHANGED <<error, failures>> /\ ImagesKept /\ PlacesKept
    BY <2>1 DEF Posted, Posting, BaseKept, ImagesKept, PlacesKept, serverVars
  <2> QED BY <1>1, <2>1, <2>2
<1>3. ASSUME ScanPosts(t) PROVE X11Kept
  <2>1. pc[t] = "scan_post" /\ Goto(t, "scan") /\ UNCHANGED x11Vars
        /\ UNCHANGED <<imageVars, queueVars, error, presentVars, lockVars, lifeVars,
                       held, failures, image, timeout, left, callVars>>
    BY <1>3 DEF ScanPosts
  <2>2. Posted(t)
    BY <1>a, <1>3 DEF ScanPosts, PostFree, Posted, Posting, Shared, Common, OnePresenter
  <2>3. ImagesKept /\ PlacesKept
    BY <2>1 DEF ImagesKept, PlacesKept, x11Vars, serverVars
  <2> QED BY <1>1, <2>1, <2>2, <2>3
<1>4. ASSUME NEW r \in Results, pc[t] \in {"scan", "cond", "poll"}, WaitReturns(t, r),
             IF r = "SUCCESS" THEN freeSem > 0 /\ freeSem' = freeSem - 1 ELSE freeSem' = freeSem,
             UNCHANGED <<imageVars, queueVars, error, presentVars, statusLock, lifeVars, held, failures, image, todo>>,
             UNCHANGED <<path, serverVars, bridgeHeld>>
      PROVE  X11Kept
  <2>1. pc[t] \in Waits \ Posting
    BY <1>4 DEF Waits, Posting
  <2>2. PlacesKept
    BY <1>4 DEF PlacesKept, serverVars
  <2> QED BY <1>4, <2>1, <2>2, X11Returns
<1>5. ASSUME ScanEnds(t) PROVE X11Kept
  <2>1. pc[t] = "scan" /\ UNCHANGED <<imageVars, freeSem, queueVars, error, presentVars, statusLock, lifeVars,
                                      held, failures, image, todo>>
        /\ UNCHANGED <<path, serverVars, bridgeHeld>>
    BY <1>5 DEF ScanEnds
  <2>2. CASE \E r \in {"NOT_READY", "ERROR", "OUT_OF_DATE"} : WaitReturns(t, r)
    <3>1. PICK r \in {"NOT_READY", "ERROR", "OUT_OF_DATE"} : WaitReturns(t, r)
      BY <2>2
    <3>2. r \in Results /\ r # "SUCCESS"
      BY DEF Results
    <3> QED BY <1>4, <2>1, <3>1, <3>2
  <2>3. CASE \E l \in {"poll", "cond"} : Goto(t, l) /\ UNCHANGED <<left, task, result, acquireLock, timeout>>
    <3>1. PICK l \in {"poll", "cond"} : Goto(t, l) /\ UNCHANGED <<left, task, result, acquireLock, timeout>>
      BY <2>3
    <3>2. Posted(t) /\ UNCHANGED <<error, failures>> /\ ImagesKept /\ PlacesKept
      BY <2>1, <3>1 DEF Posted, Posting, ImagesKept, PlacesKept, lockVars, callVars, serverVars
    <3> QED BY <1>1, <2>1, <3>1, <3>2
  <2>4. \/ \E r \in {"NOT_READY", "ERROR", "OUT_OF_DATE"} : WaitReturns(t, r)
        \/ \E l \in {"poll", "cond"} : Goto(t, l) /\ UNCHANGED <<left, task, result, acquireLock, timeout>>
    BY <1>5 DEF ScanEnds
  <2> QED BY <2>2, <2>3, <2>4
<1>6. ASSUME CondTimesOut(t) PROVE X11Kept
  <2>1. /\ pc[t] = "cond" /\ WaitReturns(t, "TIMEOUT")
        /\ UNCHANGED <<imageVars, freeSem, queueVars, error, presentVars, statusLock, lifeVars,
                       held, failures, image, todo>>
        /\ UNCHANGED <<path, serverVars, bridgeHeld>>
    BY <1>6 DEF CondTimesOut
  <2>2. "TIMEOUT" \in Results /\ "TIMEOUT" # "SUCCESS"
    BY DEF Results
  <2> QED BY <1>4, <2>1, <2>2
<1>7. ASSUME PollFreeSemaphore(t) PROVE X11Kept
  <2>1. /\ pc[t] = "poll"
        /\ UNCHANGED <<imageVars, queueVars, error, presentVars, statusLock, lifeVars, held, failures, image, todo>>
        /\ UNCHANGED <<path, serverVars, bridgeHeld>>
    BY <1>7 DEF PollFreeSemaphore, x11Vars
  <2>2. PICK r \in {"SUCCESS", "NOT_READY"} :
            WaitReturns(t, r) /\ IF r = "SUCCESS" THEN freeSem > 0 /\ freeSem' = freeSem - 1 ELSE freeSem' = freeSem
    BY <1>7 DEF PollFreeSemaphore
  <2>3. r \in Results
    BY DEF Results
  <2> QED BY <1>4, <2>1, <2>2, <2>3
<1> QED BY <1>2, <1>3, <1>5, <1>6, <1>7, X11Scans DEF X11GetFreeBuffer

(* present_image() goes on.                                                *)
LEMMA X11ShowStep ==
    ASSUME X11Inv, NEW t \in {"app", "flip"}, X11PresentImage(t)
    PROVE  X11Kept
<1>a. Common /\ TypeOK /\ Places /\ OnePresenter /\ X11Types /\ ServersDiffer /\ Apart(TheServers)
  BY DEF X11Inv, Common
<1>b. t \in Threads
  BY DEF Threads
<1>c. pc[t] \in Shown \ Flushes => (t = "app" => task = "present")
  BY <1>a DEF Places
<1>0. ASSUME NEW l \in Shown \ {"shm_copy", "flush_post"}, pc[t] \in Shown, t = "app" => task = "present", Goto(t, l),
             Posted(t), Fails, ImagesKept, PlacesKept
      PROVE  X11Kept
  <2>1. Within(t, l) /\ l \notin Posting
    BY <1>0 DEF Within, Shown, Posting
  <2> QED BY <1>b, <1>0, <2>1, X11Moves
<1>1. ASSUME NEW l \in {"unpresent", "shm_sync", "bridge"}, pc[t] \in Shown, pc[t] # "flush_post",
             t = "app" => task = "present", Goto(t, l), BaseKept, UNCHANGED <<path, serverVars, bridgeHeld>>
      PROVE  X11Kept
  <2>1. l \in Shown \ {"shm_copy", "flush_post"} /\ Posted(t)
    BY <1>1 DEF Shown, Posted, Posting, BaseKept
  <2>2. Fails /\ ImagesKept /\ PlacesKept
    BY <1>a, <1>1 DEF BaseKept, Fails, ImagesKept, PlacesKept, TypeOK, serverVars
  <2> QED BY <1>0, <1>1, <2>1, <2>2
<1>2. ASSUME Dri3Full(t) PROVE X11Kept
  <2>1. BaseKept /\ UNCHANGED <<path, serverVars, bridgeHeld>> /\ pc[t] = "present"
        /\ (pc' = pc \/ Goto(t, "unpresent"))
    BY <1>2 DEF Dri3Full
  <2>2. CASE pc' = pc
    <3>1. UNCHANGED <<pc, freeSem>> /\ ImagesKept /\ Fails
      BY <1>a, <2>1, <2>2 DEF BaseKept, ImagesKept, Fails, TypeOK
    <3>2. X11Types' /\ ServersDiffer' /\ TheServers' = TheServers
      BY <1>a, <2>1, <2>2 DEF X11Types, ServersDiffer, TheServers, Idle, Sampled, serverVars
    <3> QED BY <3>1, <3>2, X11Rests
  <2>3. CASE Goto(t, "unpresent")
    BY <1>1, <1>c, <2>1, <2>3 DEF Shown, Flushes
  <2> QED BY <2>1, <2>2, <2>3
<1>3. ASSUME Dri3Fails(t) \/ ShmLocks(t) PROVE X11Kept
  <2>1. BaseKept /\ UNCHANGED <<path, serverVars, bridgeHeld>> /\ pc[t] = "present"
        /\ (Goto(t, "shm_sync") \/ Goto(t, "unpresent"))
    BY <1>3 DEF Dri3Fails, ShmLocks
  <2> QED BY <1>1, <1>c, <2>1 DEF Shown, Flushes
<1>4. ASSUME BridgeSends(t) PROVE X11Kept
  <2>1. BaseKept /\ UNCHANGED <<path, serverVars, bridgeHeld>> /\ pc[t] = "present" /\ Goto(t, "bridge")
    BY <1>4 DEF BridgeSends
  <2> QED BY <1>1, <1>c, <2>1 DEF Shown, Flushes
<1>5. ASSUME BridgeGivesUp(t) PROVE X11Kept
  <2>1. BaseKept /\ UNCHANGED <<path, serverVars, bridgeHeld>> /\ pc[t] = "flush" /\ Goto(t, "unpresent")
        /\ ~(t = "app" /\ task = "destroy")
    BY <1>5 DEF BridgeGivesUp
  <2>2. t = "app" => task = "present"
    BY <1>a, <2>1 DEF Places, Flushes
  <2> QED BY <1>1, <2>1, <2>2 DEF Shown
<1>6. ASSUME ShmSyncs(t) PROVE X11Kept
  <2>1. pc[t] = "shm_sync" /\ Goto(t, "shm_copy") /\ BaseKept /\ UNCHANGED <<path, serverVars, bridgeHeld>>
    BY <1>6 DEF ShmSyncs
  <2>2. Within(t, "shm_copy") /\ "shm_copy" \notin Posting /\ Posted(t)
    BY <1>c, <2>1 DEF Within, Shown, Flushes, Posting, Posted, BaseKept
  <2>3. Fails /\ ImagesKept /\ PlacesKept
    BY <1>a, <2>1 DEF BaseKept, Fails, ImagesKept, PlacesKept, TypeOK, x11Vars, serverVars
  <2> QED BY <1>b, <2>1, <2>2, <2>3, X11Moves
<1>7. ASSUME ShmCopies(t) PROVE X11Kept
  <2>1. /\ pc[t] = "shm_copy" /\ Goto(t, "unpresent")
        /\ UNCHANGED <<imageVars, freeSem, queueVars, error, presentVars, lockVars, lifeVars,
                       held, image, timeout, left, callVars>>
        /\ UNCHANGED <<path, serverVars, bridgeHeld>>
    BY <1>7 DEF ShmCopies
  <2>2. failures' \in [count : Nat, acquire : BOOLEAN] /\ (failures.acquire => failures'.acquire)
    <3>1. CASE failures' = failures
      BY <1>a, <3>1 DEF TypeOK
    <3>2. CASE MayFail("present")
      BY <1>a, <3>2, MayFailCounts DEF TypeOK, MayFail
    <3> QED BY <1>7, <3>1, <3>2 DEF ShmCopies
  <2>3. Fails
    BY <1>a, <2>1, <2>2 DEF Fails, TypeOK
  <2>4. "unpresent" \in Shown \ {"shm_copy", "flush_post"} /\ pc[t] \in Shown \ Flushes /\ Posted(t)
    BY <2>1 DEF Shown, Flushes, Posted, Posting
  <2>5. ImagesKept /\ PlacesKept
    BY <2>1 DEF ImagesKept, PlacesKept, serverVars
  <2> QED BY <1>0, <1>c, <2>1, <2>3, <2>4, <2>5
<1>8. ASSUME BridgeSent(t) PROVE X11Kept
  <2>1. /\ pc[t] = "bridge" /\ (Goto(t, "throttle") \/ Goto(t, "flush"))
        /\ UNCHANGED <<imageVars, freeSem, queueVars, presentVars, lockVars, lifeVars,
                       held, failures, image, timeout, left, callVars>>
        /\ UNCHANGED <<path, serverVars, bridgeHeld>>
    BY <1>8 DEF BridgeSent
  <2>2. error' \in BOOLEAN /\ (error => error')
    <3>1. CASE delivered
      BY <1>a, <1>8, <3>1 DEF BridgeSent, TypeOK
    <3>2. CASE ~delivered
      BY <1>a, <1>8, <3>2 DEF BridgeSent, TypeOK
    <3> QED BY <3>1, <3>2
  <2>3. Fails
    BY <1>a, <2>1, <2>2 DEF Fails, TypeOK
  <2>4. {"throttle", "flush"} \subseteq Shown \ {"shm_copy", "flush_post"} /\ pc[t] \in Shown \ Flushes /\ Posted(t)
    BY <2>1 DEF Shown, Flushes, Posted, Posting
  <2>5. ImagesKept /\ PlacesKept
    BY <2>1 DEF ImagesKept, PlacesKept, serverVars
  <2> QED BY <1>0, <1>c, <2>1, <2>3, <2>4, <2>5
<1>9. ASSUME BridgePosts(t) PROVE X11Kept
  <2>1. PICK l \in {"lag", "flush"} :
            /\ pc[t] = (IF l = "lag" THEN "lag_post" ELSE "flush_post") /\ Goto(t, l) /\ UNCHANGED x11Vars
            /\ UNCHANGED <<imageVars, queueVars, error, presentVars, lockVars, lifeVars,
                           held, failures, image, timeout, left, callVars>>
    BY <1>9 DEF BridgePosts
  <2>2. Posted(t)
    BY <1>a, <1>9 DEF BridgePosts, PostFree, Posted, Posting, Shared, OnePresenter
  <2>3. Within(t, l) /\ l \notin Posting
    BY <1>a, <2>1 DEF Within, Shown, Parting, Closing, Flushes, Places, Posting
  <2>4. Fails /\ ImagesKept /\ PlacesKept
    BY <1>a, <2>1 DEF Fails, ImagesKept, PlacesKept, TypeOK, x11Vars, serverVars
  <2> QED BY <1>b, <2>1, <2>2, <2>3, <2>4, X11Moves
<1>10. ASSUME UnpresentPosts(t) \/ BridgeReturns(t) PROVE X11Kept
  <2>1. /\ pc[t] \in {"post", "lag"} /\ PresentReturns(t)
        /\ UNCHANGED <<imageVars, queueVars, error, started, startSem, acquireLock, lifeVars,
                       held, failures, timeout, left, todo>>
        /\ UNCHANGED <<path, serverVars, bridgeHeld>>
    BY <1>10 DEF UnpresentPosts, BridgeReturns
  <2>2. Posted(t)
    BY <1>a, <1>10 DEF UnpresentPosts, BridgeReturns, PostFree, Posted, Posting, Shared, OnePresenter
  <2>3. pc[t] \in Shown \union Parting /\ (t = "app" => task = "present")
    BY <1>a, <2>1 DEF Parting, Places
  <2>4. X11Types' /\ ServersDiffer' /\ TheServers' = TheServers
    BY <1>a, <2>1 DEF X11Types, ServersDiffer, TheServers, Idle, Sampled, serverVars
  <2> QED BY <2>1, <2>2, <2>3, <2>4, X11Presents
<1>11. ASSUME Dri3Presents(t) PROVE X11Kept
  <2>1. /\ pc[t] = "present" /\ PresentReturns(t)
        /\ UNCHANGED <<imageVars, freeSem, queueVars, error, started, startSem, acquireLock, lifeVars,
                       held, failures, timeout, left, todo>>
        /\ UNCHANGED <<path, pixmaps, bridgeHeld>>
        /\ atServer' = atServer \union {image[t]}
    BY <1>11 DEF Dri3Presents
  <2>2. Posted(t) /\ pc[t] \in Shown /\ (t = "app" => task = "present")
    BY <1>c, <2>1 DEF Posted, Posting, Shown, Flushes
  <2>3. image[t] \in Images /\ image[t] \notin TheServers
    <3>1. image[t] \in Images /\ ~Dead
      BY <1>a, <2>1, <2>2 DEF Common, HaveImages, TypeOK, Shown, Dead, OnePresenter, Threads
    <3>2. image[t] = FlipImage \/ image[t] = AppImage
      BY <2>2 DEF FlipImage, AppImage
    <3> QED BY <1>a, <3>1, <3>2 DEF Apart
  <2>4. Idle' = Idle /\ Sampled' = Sampled
    BY <2>1 DEF Idle, Sampled
  <2>5. X11Types' /\ ServersDiffer' /\ TheServers' = TheServers \union {image[t]}
    BY <1>a, <2>1, <2>3, <2>4 DEF X11Types, ServersDiffer, TheServers
  <2> QED BY <2>1, <2>2, <2>5, X11Presents
<1> QED
  BY <1>2, <1>3, <1>4, <1>5, <1>6, <1>7, <1>8, <1>9, <1>10, <1>11, X11Unpresents, X11KeepsBack, X11Oldest
  DEF X11PresentImage

(* The X server and its event thread go on.                                *)
LEMMA X11EventStep ==
    ASSUME X11Inv,
           \/ \E i \in Images : EventIdle(i) \/ EventCompletes(i)
           \/ ConnectionBreaks \/ EventFails \/ EventStops \/ EventSleeps
           \/ ClientInside \/ BridgeServer \/ ServerReads
    PROVE  X11Kept
<1>a. Common /\ TypeOK /\ X11Types /\ ServersDiffer
  BY DEF X11Inv, Common
<1>1. ASSUME UNCHANGED <<pc, freeSem>>, Fails, ImagesKept, PlacesKept
      PROVE  X11Kept
  <2>1. X11Types' /\ ServersDiffer' /\ TheServers' = TheServers
    BY <1>a, <1>1 DEF PlacesKept, X11Types, ServersDiffer, TheServers, Idle, Sampled
  <2> QED BY <1>1, <2>1, X11Rests
<1>2. ASSUME UNCHANGED vars PROVE UNCHANGED <<pc, freeSem>> /\ Fails /\ ImagesKept
  BY <1>a, <1>2 DEF vars, threadVars, Fails, ImagesKept, TypeOK
<1>3. ASSUME NEW i \in Images, EventIdle(i) PROVE X11Kept
  <2>1. /\ i \in atServer /\ atServer' = atServer \ {i} /\ UNCHANGED vars
        /\ pixmaps' = (IF Len(pixmaps) < PoolCapacity THEN Append(pixmaps, i) ELSE pixmaps)
        /\ UNCHANGED <<path, bridgeHeld>>
    BY <1>3 DEF EventIdle
  <2>2. i \notin Idle /\ i \notin Sampled /\ Sampled' = Sampled
    BY <1>a, <2>1 DEF ServersDiffer, Sampled
  <2>3. pixmaps' \in Seq(Images) /\ AllDiffer(pixmaps') /\ Idle' = Idle \union {i}
    <3>1. Len(pixmaps) < PoolCapacity
      BY <1>a, <2>2, QueueTakesIt DEF X11Types, ServersDiffer, AllDiffer, Idle, Members
    <3> QED BY <1>a, <2>1, <2>2, <3>1, LastJoins DEF X11Types, ServersDiffer, Idle
  <2>4. X11Types' /\ ServersDiffer' /\ TheServers' = TheServers
    <3>1. X11Types'
      BY <1>a, <2>1, <2>3 DEF X11Types
    <3>2. ServersDiffer'
      BY <1>a, <2>1, <2>2, <2>3 DEF ServersDiffer
    <3>3. TheServers' = TheServers
      BY <2>1, <2>2, <2>3 DEF TheServers
    <3> QED BY <3>1, <3>2, <3>3
  <2> QED BY <1>2, <2>1, <2>4, X11Rests
<1>4. ASSUME NEW i \in Images, EventCompletes(i) PROVE X11Kept
  <2>1. UNCHANGED vars /\ PlacesKept
    BY <1>4 DEF EventCompletes, PlacesKept
  <2> QED BY <1>1, <1>2, <2>1
<1>5. ASSUME ConnectionBreaks PROVE X11Kept
  <2>1. /\ UNCHANGED <<imageVars, freeSem, queueVars, error, presentVars, lockVars, lifeVars, held,
                       threadVars, callVars>>
        /\ UNCHANGED <<path, pixmaps, atServer, bridgeHeld>>
    BY <1>5 DEF ConnectionBreaks
  <2>2. failures' \in [count : Nat, acquire : BOOLEAN] /\ (failures.acquire => failures'.acquire)
    BY <1>a, <1>5, MayFailCounts DEF ConnectionBreaks, MayFail, TypeOK
  <2>3. Fails
    BY <1>a, <2>1, <2>2 DEF Fails, TypeOK
  <2>4. UNCHANGED <<pc, freeSem>> /\ ImagesKept /\ PlacesKept
    BY <2>1 DEF ImagesKept, PlacesKept, threadVars
  <2> QED BY <1>1, <2>3, <2>4
<1>6. ASSUME EventFails PROVE X11Kept
  <2>1. /\ UNCHANGED <<imageVars, freeSem, queueVars, presentVars, lockVars, lifeVars, held,
                       failures, threadVars, callVars>>
        /\ UNCHANGED <<path, serverVars, bridgeHeld>>
    BY <1>6 DEF EventFails
  <2>2. error' \in BOOLEAN /\ (error => error')
    BY <1>6 DEF EventFails
  <2>3. Fails
    BY <1>a, <2>1, <2>2 DEF Fails, TypeOK
  <2>4. UNCHANGED <<pc, freeSem>> /\ ImagesKept /\ PlacesKept
    BY <2>1 DEF ImagesKept, PlacesKept, threadVars, serverVars
  <2> QED BY <1>1, <2>3, <2>4
<1>7. ASSUME EventStops \/ EventSleeps PROVE X11Kept
  <2>1. UNCHANGED vars /\ UNCHANGED <<path, serverVars, bridgeHeld>>
    BY <1>7 DEF EventStops, EventSleeps
  <2>2. PlacesKept
    BY <2>1 DEF PlacesKept, serverVars
  <2> QED BY <1>1, <1>2, <2>1, <2>2
<1>8. ASSUME ClientInside \/ BridgeServer PROVE X11Kept
  <2>1. UNCHANGED <<vars, path, serverVars, bridgeHeld>>
    BY <1>8 DEF ClientInside, BridgeServer
  <2>2. PlacesKept
    BY <2>1 DEF PlacesKept, serverVars
  <2> QED BY <1>1, <1>2, <2>1, <2>2
<1>9. ASSUME ServerReads PROVE X11Kept
  <2>1. UNCHANGED vars /\ UNCHANGED <<path, serverVars, bridgeHeld>>
    BY <1>9 DEF ServerReads
  <2>2. X11Types' /\ ServersDiffer' /\ TheServers' = TheServers
    BY <1>a, <2>1 DEF serverVars, X11Types, ServersDiffer, TheServers, Idle, Sampled
  <2> QED BY <1>2, <2>1, <2>2, X11Rests
<1> QED BY <1>3, <1>4, <1>5, <1>6, <1>7, <1>8, <1>9

(* The destructor stops the event thread and the stream.                   *)
LEMMA X11CloseStep ==
    ASSUME X11Inv, StopEventThread \/ JoinEventThread \/ BridgeStops \/ BridgeStopped
    PROVE  X11Kept
<1>a. Common /\ TypeOK /\ Places
  BY DEF X11Inv, Common
<1>1. PICK l \in {"join_events", "flush", "teardown", "stopping"} : Goto("app", l)
  BY DEF StopEventThread, JoinEventThread, BridgeStops, BridgeStopped
<1>2. BaseKept /\ UNCHANGED <<path, serverVars, bridgeHeld>>
  BY DEF StopEventThread, JoinEventThread, BridgeStops, BridgeStopped, syncVars
<1>3. pc["app"] \in {"stop_events", "join_events", "stopping"} \/ (pc["app"] = "flush" /\ task = "destroy")
  BY DEF StopEventThread, JoinEventThread, BridgeStops, BridgeStopped
<1>4. Within("app", l) /\ l \notin Posting
  BY <1>a, <1>3 DEF Within, Closing, Flushes, Leaves, Places, Posting
<1>5. Posted("app") /\ Fails /\ ImagesKept /\ PlacesKept
  BY <1>a, <1>2, <1>3 DEF Posted, Posting, Fails, ImagesKept, PlacesKept, BaseKept, TypeOK, serverVars
<1>7. "app" \in Threads
  BY DEF Threads
<1> QED BY <1>1, <1>4, <1>5, <1>7, X11Moves

(* Every step keeps the invariant.                                         *)
LEMMA X11Step ==
    ASSUME X11Inv, [X11Next]_xvars
    PROVE  X11Kept
<1>1. ASSUME ServerKept(AppCalls \/ Deprecate \/ Destroy("stop_events") \/ DescendantNotifies \/ HeirRuns)
      PROVE  X11Kept
  <2>1. Destroy("stop_events") => BaseStep
    BY DEF BaseStep
  <2>2. ServerKept(BaseStep)
    BY <1>1, <2>1, PartiesAreBase DEF ServerKept
  <2> QED BY <2>2, X11BaseStep
<1>2. ASSUME ServerKept(AppRuns) PROVE X11Kept
  <2>1. ServerKept(BaseStep)
    BY <1>2, PartiesAreBase DEF ServerKept
  <2> QED BY <2>1, X11BaseStep
<1>3. ASSUME NEW t \in {"app", "heir"}, X11GetFreeBuffer(t) PROVE X11Kept
  BY <1>3, X11WaitStep
<1>4. ASSUME NEW t \in {"app", "flip"}, X11PresentImage(t) PROVE X11Kept
  BY <1>4, X11ShowStep
<1>5. ASSUME ServerKept(FlipThread) PROVE X11Kept
  <2>1. ~FlipRefreshes
    BY DEF X11Inv, Common, OnePresenter, FlipRefreshes, Continuous
  <2>2. FlipThread => BaseStep
    BY <2>1 DEF FlipThread, BaseStep
  <2>3. ServerKept(BaseStep)
    BY <1>5, <2>2 DEF ServerKept
  <2> QED BY <2>3, X11BaseStep
<1>6. ASSUME StopEventThread \/ JoinEventThread \/ BridgeStops \/ BridgeStopped PROVE X11Kept
  BY <1>6, X11CloseStep
<1>7. ASSUME NEW i \in Images, ServerKept(GpuFinishes(i)) PROVE X11Kept
  <2>1. ServerKept(BaseStep)
    BY <1>7 DEF ServerKept, BaseStep
  <2> QED BY <2>1, X11BaseStep
<1>8. ASSUME \/ \E i \in Images : EventIdle(i) \/ EventCompletes(i)
             \/ ConnectionBreaks \/ EventFails \/ EventStops \/ EventSleeps
             \/ ClientInside \/ BridgeServer \/ ServerReads
      PROVE  X11Kept
  BY <1>8, X11EventStep
<1>9. ASSUME UNCHANGED xvars PROVE X11Kept
  <2>1. UNCHANGED <<pc, freeSem, error, failures>> /\ ImagesKept /\ PlacesKept
    BY <1>9 DEF xvars, vars, threadVars, x11Vars, serverVars, ImagesKept, PlacesKept
  <2>2. Fails
    BY <2>1 DEF X11Inv, Common, TypeOK, Fails
  <2>3. X11Types' /\ ServersDiffer' /\ TheServers' = TheServers
    BY <2>1 DEF X11Inv, PlacesKept, X11Types, ServersDiffer, TheServers, Idle, Sampled
  <2> QED BY <2>1, <2>2, <2>3, X11Rests
<1> QED
  BY <1>1, <1>2, <1>3, <1>4, <1>5, <1>6, <1>7, <1>8, <1>9 DEF X11Next, X11AppInside, X11FlipInside

X11Owners ==
    /\ QueueShown = QueueIs
    /\ \A K \in SUBSET Images : K = TheServers =>
          OwnersBeside({i \in Images : Shows(i) > 0}) = [i \in Images |-> OwnerIs(K, i)]

(* The contract the presents keep is about these owners.                   *)
LEMMA X11Mapping == X11Inv => X11Owners
<1> SUFFICES ASSUME X11Inv, NEW K \in SUBSET Images, K = TheServers
             PROVE  /\ OwnersBeside({i \in Images : Shows(i) > 0}) = [i \in Images |-> OwnerIs(K, i)]
                    /\ QueueShown = QueueIs
  <2>1. X11Inv => TheServers \in SUBSET Images
    BY ServersHaveImages DEF X11Inv
  <2> QED BY <2>1 DEF X11Owners
<1>1. \A i \in Images : Shows(i) > 0 <=> i \in K
  BY ShowsOnce DEF X11Inv
<1>2. {i \in Images : Shows(i) > 0} = K
  BY <1>1
<1> QED BY <1>2, QueueMapping, OwnerMapping DEF X11Inv

(* A step the owners and the queue may take is one of the contract.        *)
LEMMA X11Implements ==
    ASSUME X11Inv, X11Inv', X11Simulated
    PROVE  [X11Contract!Next]_(X11Contract!vars)
<1>1. PICK K \in SUBSET Images, L \in SUBSET Images : K = TheServers /\ L = TheServers' /\ Simulated(K, L)
  BY DEF X11Simulated
<1> DEFINE owner == OwnersBeside({i \in Images : Shows(i) > 0})
<1>2. owner = [i \in Images |-> OwnerIs(K, i)] /\ QueueShown = QueueIs
  BY <1>1, X11Mapping DEF X11Owners
<1>3. owner' = [i \in Images |-> OwnerIs(L, i)'] /\ QueueShown' = QueueIs'
  <2>1. X11Owners'
    BY X11Mapping, PTL
  <2> QED BY <1>1, <2>1 DEF X11Owners
<1>4. Allowed(owner, QueueShown, owner', QueueShown')
  BY <1>1, <1>2, <1>3, SimulatedIsAllowed
<1> HIDE DEF owner
<1> QED
  BY <1>4
  DEF Allowed, owner, X11Contract!Next, X11Contract!vars, X11Contract!Give, X11Contract!Enqueue,
      X11Contract!Release, X11Contract!GiveBack, X11Contract!Lose, X11Contract!Show,
      X11Contract!Display, X11Contract!Drop, X11Contract!End

(* The invariant holds, on every path, whatever fails and however many     *)
(* images there are.                                                       *)
THEOREM X11Invariant == X11Spec => []X11Inv
<1>1. X11Inv /\ [X11Next]_xvars => X11Inv'
  BY X11Step DEF X11Kept
<1> QED BY <1>1, X11Starts, PTL DEF X11Spec

(* The swapchain and the X server implement the contract with the          *)
(* application: images go to the X server and to Xwayland in the order     *)
(* they were queued, and change hands only as PresentationContract says.   *)
THEOREM X11KeepsContract == X11Spec => SendsInOrder
<1>1. XInit => X11Contract!Init
  <2> SUFFICES ASSUME XInit PROVE X11Contract!Init
    OBVIOUS
  <2>1. X11Inv /\ Common
    BY X11Starts DEF X11Inv
  <2>2. PICK K \in SUBSET Images : K = TheServers /\ K = {}
    BY DEF XInit, TheServers, Idle, Sampled, Members
  <2>3. pool = <<>> /\ held = {} /\ Returning = {} /\ FlipImage = NoImage /\ AppImage = NoImage
    BY DEF XInit, Init, Returning, FlipImage, AppImage, Shown, Threads
  <2>4. QueueIs = <<>> /\ \A i \in Images : OwnerIs(K, i) \in {"engine", "nobody"}
    BY <2>2, <2>3 DEF QueueIs, OwnerIs, QueuedIn
  <2>5. /\ QueueShown = <<>>
        /\ OwnersBeside({i \in Images : Shows(i) > 0}) = [i \in Images |-> OwnerIs(K, i)]
    BY <2>1, <2>2, <2>4, X11Mapping DEF X11Owners
  <2> QED BY <2>4, <2>5 DEF X11Contract!Init
<1>2. X11Inv /\ X11Inv' /\ [X11Next]_xvars => [X11Contract!Next]_(X11Contract!vars)
  BY X11Step, X11Implements DEF X11Kept
<1> QED BY <1>1, <1>2, X11Invariant, PTL DEF X11Spec, SendsInOrder, X11Contract!Spec

(* An image the X server or Xwayland may read is in one place, PENDING and *)
(* out of the application's hands.                                         *)
THEOREM ServersAreLeftAlone == X11Spec => []ServerOwnsWhatItReads
BY X11Invariant, X11Promises, PTL

(* Units of the free image semaphore are images: none is promised twice,   *)
(* none is lost.                                                           *)
THEOREM EveryUnitIsAnImage == X11Spec => []UnitsAreImages
BY X11Invariant, X11Promises, PTL
=============================================================================
