----------------------- MODULE HeadlessSwapchainProofs -----------------------
(* The life of the images of a swapchain, for any number of them, in every *)
(* present mode, with every failure, ancestor and descendant: an acquire   *)
(* that got a unit finds an image, the page flip queue and its semaphore   *)
(* agree, nobody owns an image together with another, and the swapchain    *)
(* implements PresentationContract.                                        *)
EXTENDS HeadlessSwapchain, FiniteSetTheorems, TLAPS

AppPlaces == {"idle", "try", "backend", "wait", "check", "select", "signal", "sync", "submit",
              "notify", "call", "ancestor", "present", "post", "release", "release_post",
              "deprecate", "teardown", "await_heir", "drain", "queue_idle", "join", "dead"}
FlipPlaces == {"top", "exited", "pop", "fence", "abandon", "call", "ancestor", "present", "post"}
HeirPlaces == {"idle", "try", "backend", "wait", "drained", "done"}
Waiting == {"try", "backend", "wait"}
Inline == {"call", "ancestor", "present", "post"}
Presenting == {"sync", "submit", "notify"} \union Inline

(* Where the threads are.  A wait without anything left to drain is that   *)
(* of an acquire, and an acquire is never made on a retired swapchain;     *)
Places ==
    /\ pc["app"] \in AppPlaces /\ pc["flip"] \in FlipPlaces /\ pc["heir"] \in HeirPlaces
    /\ pc["heir"] \in Waiting => left["heir"] > 0
    /\ pc["app"] \notin Waiting => left["app"] = 0
    /\ pc["app"] \in Waiting /\ left["app"] = 0 => ~retired /\ task = "acquire"
    /\ pc["app"] \in {"check", "select", "signal"} => ~retired /\ task = "acquire"
    /\ pc["app"] \in {"release", "release_post"} <=> task = "release"
    /\ task = "release" => ~Shared
    /\ pc["app"] = "idle" => task = "none"
    /\ pc["app"] = "deprecate" => retired
    /\ descendant # "none" => retired

(* ... only one of the application and the flip thread ever presents, the  *)
(* application under m_image_status_mutex;                                 *)
OnePresenter ==
    /\ statusLock = IF pc["app"] \in Inline THEN "app" ELSE "none"
    /\ pc["app"] \notin {"join", "dead"} => threadRun = UseThread
    /\ ~UseThread => pc["flip"] = "exited" /\ pool = <<>>
    /\ pc["app"] \in Inline => ~UseThread
    /\ pc["app"] = "dead" => pc["flip"] = "exited"
    /\ Continuous => pc["flip"] # "pop"
    /\ pc["flip"] = "abandon" => error

(* ... who works on an image has one;                                      *)
HaveImages ==
    /\ pc["app"] \in Presenting \union {"signal"} => image["app"] # NoImage
    /\ pc["flip"] \in Showing \union {"abandon"} => image["flip"] # NoImage
    /\ pc["app"] \in {"sync", "submit", "notify"} => image["app"] \in held

(* ... what is queued, shown, acquired, held and released, where the modes *)
(* are not shared, is told apart by the status of the images;              *)
Dead == pc["app"] = "dead"
FlipImage == IF ~Shared /\ pc["flip"] \in Showing THEN image["flip"] ELSE NoImage
AppImage == IF ~Shared /\ pc["app"] \in Showing THEN image["app"] ELSE NoImage
Acquiring == IF pc["app"] = "signal" THEN image["app"] ELSE NoImage
Returning == IF task = "release" THEN todo ELSE {}
view == <<presentMode, status, pool, held, FlipImage, AppImage, Acquiring, Returning, Dead>>

PoolPends == \A k \in 1 .. Len(pool) : status[pool[k]] = "PENDING"
PoolDiffers == \A j, k \in 1 .. Len(pool) : j # k => pool[j] # pool[k]
FlipShows == FlipImage # NoImage =>
    status[FlipImage] = "PENDING" /\ \A k \in 1 .. Len(pool) : pool[k] # FlipImage
AppShows == AppImage # NoImage => status[AppImage] = "PENDING"
AcquiringHas == Acquiring # NoImage => status[Acquiring] = "ACQUIRED" /\ Acquiring \notin held
HeldAcquired == \A i \in held : status[i] = "ACQUIRED"
ReturningAcquired == \A i \in Returning : status[i] = "ACQUIRED" /\ i \notin held
Owned == ~Shared /\ ~Dead =>
    PoolPends /\ PoolDiffers /\ FlipShows /\ AppShows /\ AcquiringHas /\ HeldAcquired /\ ReturningAcquired

(* ... how units stand for images; a shared image has a unit until it is   *)
(* first acquired, and only then is it ever presented.                     *)
Fresh ==
    /\ held = {} /\ pool = <<>> /\ flipSem = 0 /\ firstPresent
    /\ pc["app"] \notin Presenting \union {"signal"}
    /\ pc["flip"] \in {"top", "exited"}
SharedUnits == Shared =>
    /\ pc["app"] = "select" => Fresh
    /\ ~error /\ ~retired /\ ~Dead =>
          Promised = 0 \/ (Promised = 1 /\ Fresh /\ \E i \in Images : Usable(i))
Units == SharedUnits /\ (~Shared => NoImagePromisedTwice)
Inv == TypeOK /\ Places /\ OnePresenter /\ HaveImages /\ Owned /\ FlipQueueMatches
       /\ Units /\ AcquireFindsImage

-----------------------------------------------------------------------------
(* Images and numbers. *)
LEMMA ImagesFinite == IsFiniteSet(Images) /\ Cardinality(Images) = NumImages /\ 0 \in Images
<1>1. NumImages \in Nat \ {0}
  BY SwapchainAssumption
<1> QED BY <1>1, FS_Interval DEF Images

LEMMA CountOfImages ==
    ASSUME NEW S \in SUBSET Images
    PROVE  IsFiniteSet(S) /\ Cardinality(S) \in Nat /\ Cardinality(S) =< NumImages
BY ImagesFinite, FS_Subset, FS_CardinalityType

LEMMA RoundRobinStays ==
    ASSUME hint \in Images, NEW k \in Images
    PROVE  RoundRobin(k) \in Images /\ (RoundRobin(k) + 1) % ImageCount \in Images
<1>1. ImageCount \in Nat \ {0} /\ ImageCount =< NumImages
  BY SwapchainAssumption DEF ImageCount
<1>2. \A n \in Nat : n % ImageCount \in 0 .. ImageCount - 1
  BY <1>1
<1> QED BY <1>1, <1>2, SwapchainAssumption DEF Images, RoundRobin

(* The steps, one by one. *)
LEMMA Steps ==
    ASSUME Next
    PROVE  \/ \E tm \in Timeouts : Acquire(tm)
           \/ \E i \in Images : QueuePresent(i) \/ GpuFinishes(i)
           \/ \E S \in SUBSET Images : ReleaseImages(S)
           \/ Deprecate \/ Destroy("teardown")
           \/ \E t \in {"app", "heir"} : TakeUnit(t) \/ AskBackend(t) \/ WaitFails(t)
           \/ \E t \in Threads : DefaultGetFreeBuffer(t)
           \/ \E t \in {"app", "flip"} : PresentImage(t) \/ PresentPosts(t) \/ CallPresent(t) \/ AncestorDrained(t)
           \/ CheckError \/ SelectImage \/ SelectFails \/ SignalAcquired
           \/ SyncBeforePresent \/ SubmitPayload \/ NotifyOutOfDate \/ NotifyThread \/ NotifyInline
           \/ ReleaseOne \/ ReleasePosts \/ DeprecateImage \/ SetDescendant
           \/ Teardown \/ AwaitHeir \/ DrainForTeardown \/ StopFlipThread \/ DestroyImages
           \/ FlipTakesUnit \/ FlipRefreshes \/ FlipExits \/ FlipPops \/ FlipFence \/ FlipAbandons
           \/ HeirDrains \/ HeirPresents \/ DescendantNotifies \/ DescendantDestroyed \/ AncestorDestroyed
<1>1. CASE AppCalls \/ Deprecate \/ Destroy("teardown")
  BY <1>1 DEF AppCalls
<1>2. CASE AppInside
  BY <1>2 DEF AppInside, AppRuns, Engine, WaitForFreeBuffer, Threads
<1>3. CASE FlipInside
  BY <1>3 DEF FlipInside, FlipThread, Engine, Threads
<1>4. CASE HeirInside \/ Relatives \/ \E i \in Images : GpuFinishes(i)
  BY <1>4 DEF HeirInside, HeirRuns, WaitForFreeBuffer, Relatives, Threads
<1> QED BY <1>1, <1>2, <1>3, <1>4 DEF Next

LEMMA MayFailCounts ==
    ASSUME NEW kind, MayFail(kind), failures \in [count : Nat, acquire : BOOLEAN]
    PROVE  failures' \in [count : Nat, acquire : BOOLEAN]
<1>1. (failures.acquire \/ kind \in {"memory", "import"}) \in BOOLEAN
  OBVIOUS
<1> QED BY <1>1 DEF MayFail

LEMMA NoImageIsNone == \A i \in Images : i # NoImage
BY SwapchainAssumption DEF Images, NoImage

-----------------------------------------------------------------------------
LEMMA TypeStep ==
    ASSUME TypeOK, Places, HaveImages, [Next]_vars
    PROVE  TypeOK'
<1> USE DEF TypeOK, imageVars, queueVars, presentVars, lockVars, lifeVars, threadVars, callVars,
            Goto, Return, EndAcquire, EndPresent
<1>0. CASE UNCHANGED vars
  BY <1>0 DEF vars
<1>1. ASSUME NEW tm \in Timeouts, Acquire(tm) PROVE TypeOK'
  BY <1>1 DEF Acquire, Threads, Tasks, Results
<1>2. ASSUME NEW i \in Images, QueuePresent(i) PROVE TypeOK'
  BY <1>2 DEF QueuePresent, Threads, Tasks, Results
<1>3. ASSUME NEW i \in Images, GpuFinishes(i) PROVE TypeOK'
  BY <1>3 DEF GpuFinishes
<1>4. ASSUME NEW S \in SUBSET Images, ReleaseImages(S) PROVE TypeOK'
  BY <1>4 DEF ReleaseImages, Tasks, Results
<1>5. CASE Deprecate
  BY <1>5 DEF Deprecate, Tasks, Results
<1>6. CASE Destroy("teardown")
  BY <1>6 DEF Destroy, Tasks, Results
<1>7. ASSUME NEW t \in {"app", "heir"}, TakeUnit(t) PROVE TypeOK'
  BY <1>7 DEF TakeUnit, WaitReturns, DrainedLabel, Threads, Timeouts, Tasks, Results
<1>8. ASSUME NEW t \in {"app", "heir"}, AskBackend(t) PROVE TypeOK'
  BY <1>8 DEF AskBackend
<1>9. ASSUME NEW t \in {"app", "heir"}, WaitFails(t) PROVE TypeOK'
  BY <1>9 DEF WaitFails, WaitReturns, DrainedLabel, Threads, Timeouts, Tasks, Results
<1>10. ASSUME NEW t \in Threads, DefaultGetFreeBuffer(t) PROVE TypeOK'
  BY <1>10 DEF DefaultGetFreeBuffer
<1>11. ASSUME NEW t \in {"app", "flip"}, PresentImage(t) PROVE TypeOK'
  BY <1>11 DEF PresentImage, ReleaseStatus, Statuses
<1>12. ASSUME NEW t \in {"app", "flip"}, PresentPosts(t) PROVE TypeOK'
  <2>1. freeSem' \in Nat
    BY <1>12 DEF PresentPosts, PostFree
  <2>2. CASE t = "app"
    BY <1>12, <2>1, <2>2 DEF PresentPosts, PresentReturns, Threads, Tasks, Results
  <2>3. CASE t = "flip"
    <3>1. UNCHANGED <<task, result, statusLock>> /\ firstPresent' \in BOOLEAN
      BY <1>12, <2>3 DEF PresentPosts, PresentReturns
    <3>2. image' \in [Threads -> Images \union {NoImage}] /\ DOMAIN pc' = Threads
      BY <1>12, <2>3 DEF PresentPosts, PresentReturns, Threads
    <3> QED BY <1>12, <2>1, <3>1, <3>2 DEF PresentPosts
  <2> QED BY <1>12, <2>2, <2>3
<1>13. ASSUME NEW t \in {"app", "flip"}, CallPresent(t) PROVE TypeOK'
  BY <1>13 DEF CallPresent
<1>14. ASSUME NEW t \in {"app", "flip"}, AncestorDrained(t) PROVE TypeOK'
  BY <1>14 DEF AncestorDrained
<1>15. CASE CheckError
  BY <1>15 DEF CheckError, Threads, Timeouts, Tasks, Results
<1>16. CASE SelectImage
  <2>1. PICK k \in Images : /\ status' = [status EXCEPT ![RoundRobin(k)] = "ACQUIRED"]
                            /\ image' = [image EXCEPT !["app"] = RoundRobin(k)]
                            /\ hint' = (RoundRobin(k) + 1) % ImageCount
    BY <1>16 DEF SelectImage
  <2> QED BY <1>16, <2>1, RoundRobinStays DEF SelectImage, Threads, Statuses
<1>17. CASE SelectFails
  <2>1. status' \in [Images -> Statuses]
    BY <1>17 DEF SelectFails, Statuses
  <2> QED BY <1>17, <2>1, MayFailCounts DEF SelectFails, Threads, Timeouts, Tasks, Results
<1>18. CASE SignalAcquired
  <2>1. image["app"] \in Images
    BY <1>18 DEF SignalAcquired, HaveImages, Threads
  <2> QED BY <1>18, <2>1, MayFailCounts DEF SignalAcquired, Threads, Timeouts, Tasks, Results
<1>19. CASE SyncBeforePresent
  BY <1>19, MayFailCounts DEF SyncBeforePresent, Threads, Tasks, Results
<1>20. CASE SubmitPayload
  <2>1. image["app"] \in Images
    BY <1>20 DEF SubmitPayload, HaveImages, Presenting, Threads
  <2>2. payload' \in [Images -> BOOLEAN]
    BY <1>20, <2>1 DEF SubmitPayload
  <2> QED BY <1>20, <2>2, MayFailCounts DEF SubmitPayload, Threads, Tasks, Results
<1>21. CASE NotifyOutOfDate
  <2>1. status' \in [Images -> Statuses] /\ held' \subseteq Images
    BY <1>21 DEF NotifyOutOfDate, Statuses
  <2> QED BY <1>21, <2>1 DEF NotifyOutOfDate, Threads, Tasks, Results
<1>22. CASE NotifyThread
  <2>1. image["app"] \in Images
    BY <1>22 DEF NotifyThread, HaveImages, Presenting, Threads
  <2> QED BY <1>22, <2>1 DEF NotifyThread, GivenAway, Statuses, Threads, Tasks, Results
<1>23. CASE NotifyInline
  BY <1>23 DEF NotifyInline, GivenAway, Statuses, Threads
<1>24. CASE ReleaseOne
  BY <1>24 DEF ReleaseOne, ReleaseStatus, Statuses
<1>25. CASE ReleasePosts
  BY <1>25 DEF ReleasePosts, PostFree, Tasks, Results
<1>26. CASE DeprecateImage
  BY <1>26 DEF DeprecateImage, Statuses
<1>27. CASE SetDescendant
  BY <1>27 DEF SetDescendant, Tasks, Results
<1>28. CASE Teardown
  BY <1>28 DEF Teardown
<1>29. CASE AwaitHeir
  BY <1>29 DEF AwaitHeir
<1>30. CASE StopFlipThread
  BY <1>30 DEF StopFlipThread
<1>31. CASE DestroyImages
  BY <1>31 DEF DestroyImages, Statuses
<1>32. CASE DrainForTeardown
  BY <1>32, CountOfImages, SwapchainAssumption DEF DrainForTeardown, StartDrain, DrainedLabel, ImageCount, Threads, Timeouts
<1>33. CASE HeirDrains
  BY <1>33, CountOfImages, SwapchainAssumption DEF HeirDrains, StartDrain, DrainedLabel, ImageCount, Threads, Timeouts
<1>34. CASE FlipTakesUnit
  BY <1>34, ImagesFinite DEF FlipTakesUnit, Threads
<1>35. CASE FlipRefreshes
  BY <1>35, ImagesFinite DEF FlipRefreshes
<1>36. CASE FlipExits
  BY <1>36 DEF FlipExits
<1>37. CASE FlipPops
  <2>1. Head(pool) \in Images /\ Tail(pool) \in Seq(Images)
    BY <1>37 DEF FlipPops
  <2> QED BY <1>37, <2>1 DEF FlipPops, Threads
<1>38. CASE FlipFence
  BY <1>38, MayFailCounts DEF FlipFence
<1>39. CASE FlipAbandons
  BY <1>39 DEF FlipAbandons, Threads
<1>40. CASE HeirPresents
  BY <1>40 DEF HeirPresents
<1>41. CASE DescendantNotifies
  BY <1>41 DEF DescendantNotifies
<1>42. CASE DescendantDestroyed
  BY <1>42 DEF DescendantDestroyed
<1>43. CASE AncestorDestroyed
  BY <1>43 DEF AncestorDestroyed
<1> QED
  BY <1>0, <1>1, <1>2, <1>3, <1>4, <1>5, <1>6, <1>7, <1>8, <1>9, <1>10, <1>11, <1>12,
     <1>13, <1>14, <1>15, <1>16, <1>17, <1>18, <1>19, <1>20, <1>21, <1>22, <1>23, <1>24,
     <1>25, <1>26, <1>27, <1>28, <1>29, <1>30, <1>31, <1>32, <1>33, <1>34, <1>35, <1>36,
     <1>37, <1>38, <1>39, <1>40, <1>41, <1>42, <1>43, Steps

LEMMA PlacesStep ==
    ASSUME TypeOK, Places, OnePresenter, HaveImages, [Next]_vars
    PROVE  Places'
<1> USE DEF TypeOK, Threads, imageVars, queueVars, presentVars, lockVars, lifeVars, threadVars, callVars,
            Goto, Return, EndAcquire, EndPresent, Waiting, Inline, Presenting, Showing, UseThread, Shared, Continuous, AppPlaces, FlipPlaces, HeirPlaces, Places
<1>0. CASE UNCHANGED vars
  BY <1>0 DEF vars
<1>1. ASSUME NEW tm \in Timeouts, Acquire(tm) PROVE Places'
  BY <1>1 DEF Acquire
<1>2. ASSUME NEW i \in Images, QueuePresent(i) PROVE Places'
  BY <1>2 DEF QueuePresent
<1>3. ASSUME NEW i \in Images, GpuFinishes(i) PROVE Places'
  BY <1>3 DEF GpuFinishes
<1>4. ASSUME NEW S \in SUBSET Images, ReleaseImages(S) PROVE Places'
  BY <1>4 DEF ReleaseImages
<1>5. CASE Deprecate
  BY <1>5 DEF Deprecate
<1>6. CASE Destroy("teardown")
  BY <1>6 DEF Destroy
<1>7. ASSUME NEW t \in {"app", "heir"}, TakeUnit(t) PROVE Places'
  BY <1>7 DEF TakeUnit, WaitReturns, DrainedLabel
<1>8. ASSUME NEW t \in {"app", "heir"}, AskBackend(t) PROVE Places'
  BY <1>8 DEF AskBackend
<1>9. ASSUME NEW t \in {"app", "heir"}, WaitFails(t) PROVE Places'
  <2>1. CASE t = "app"
    BY <1>9, <2>1 DEF WaitFails, WaitReturns, DrainedLabel
  <2>2. CASE t = "heir"
    BY <1>9, <2>2 DEF WaitFails, WaitReturns, DrainedLabel
  <2> QED BY <1>9, <2>1, <2>2
<1>10. ASSUME NEW t \in Threads, DefaultGetFreeBuffer(t) PROVE Places'
  BY <1>10 DEF DefaultGetFreeBuffer
<1>11. ASSUME NEW t \in {"app", "flip"}, PresentImage(t) PROVE Places'
  BY <1>11 DEF PresentImage, ReleaseStatus
<1>12. ASSUME NEW t \in {"app", "flip"}, PresentPosts(t) PROVE Places'
  BY <1>12 DEF PresentPosts, PresentReturns
<1>13. ASSUME NEW t \in {"app", "flip"}, CallPresent(t) PROVE Places'
  BY <1>13 DEF CallPresent
<1>14. ASSUME NEW t \in {"app", "flip"}, AncestorDrained(t) PROVE Places'
  BY <1>14 DEF AncestorDrained
<1>15. CASE CheckError
  BY <1>15 DEF CheckError
<1>16. CASE SelectImage
  BY <1>16 DEF SelectImage
<1>17. CASE SelectFails
  BY <1>17 DEF SelectFails
<1>18. CASE SignalAcquired
  BY <1>18 DEF SignalAcquired
<1>19. CASE SyncBeforePresent
  BY <1>19 DEF SyncBeforePresent
<1>20. CASE SubmitPayload
  BY <1>20 DEF SubmitPayload
<1>21. CASE NotifyOutOfDate
  BY <1>21 DEF NotifyOutOfDate
<1>22. CASE NotifyThread
  BY <1>22 DEF NotifyThread, GivenAway
<1>23. CASE NotifyInline
  BY <1>23 DEF NotifyInline, GivenAway
<1>24. CASE ReleaseOne
  BY <1>24 DEF ReleaseOne, ReleaseStatus
<1>25. CASE ReleasePosts
  BY <1>25 DEF ReleasePosts
<1>26. CASE DeprecateImage
  BY <1>26 DEF DeprecateImage
<1>27. CASE SetDescendant
  BY <1>27 DEF SetDescendant
<1>28. CASE Teardown
  BY <1>28 DEF Teardown
<1>29. CASE AwaitHeir
  BY <1>29 DEF AwaitHeir
<1>30. CASE StopFlipThread
  BY <1>30 DEF StopFlipThread
<1>31. CASE DestroyImages
  BY <1>31 DEF DestroyImages
<1>32. CASE DrainForTeardown
  BY <1>32 DEF DrainForTeardown, StartDrain, DrainedLabel
<1>33. CASE HeirDrains
  BY <1>33 DEF HeirDrains, StartDrain, DrainedLabel
<1>34. CASE FlipTakesUnit
  BY <1>34 DEF FlipTakesUnit
<1>35. CASE FlipRefreshes
  BY <1>35 DEF FlipRefreshes
<1>36. CASE FlipExits
  BY <1>36 DEF FlipExits
<1>37. CASE FlipPops
  BY <1>37 DEF FlipPops
<1>38. CASE FlipFence
  BY <1>38 DEF FlipFence
<1>39. CASE FlipAbandons
  BY <1>39 DEF FlipAbandons
<1>40. CASE HeirPresents
  BY <1>40 DEF HeirPresents
<1>41. CASE DescendantNotifies
  BY <1>41 DEF DescendantNotifies
<1>42. CASE DescendantDestroyed
  BY <1>42 DEF DescendantDestroyed
<1>43. CASE AncestorDestroyed
  BY <1>43 DEF AncestorDestroyed
<1> QED
  BY <1>0, <1>1, <1>2, <1>3, <1>4, <1>5, <1>6, <1>7, <1>8, <1>9, <1>10, <1>11, <1>12,
     <1>13, <1>14, <1>15, <1>16, <1>17, <1>18, <1>19, <1>20, <1>21, <1>22, <1>23, <1>24,
     <1>25, <1>26, <1>27, <1>28, <1>29, <1>30, <1>31, <1>32, <1>33, <1>34, <1>35, <1>36,
     <1>37, <1>38, <1>39, <1>40, <1>41, <1>42, <1>43, Steps

LEMMA OnePresenterStep ==
    ASSUME TypeOK, Places, OnePresenter, HaveImages, [Next]_vars
    PROVE  OnePresenter'
<1> USE DEF TypeOK, Threads, imageVars, queueVars, presentVars, lockVars, lifeVars, threadVars, callVars,
            Goto, Return, EndAcquire, EndPresent, Waiting, Inline, Presenting, Showing, UseThread, Shared, Continuous, StatusLockFree, OnePresenter
<1>0. CASE UNCHANGED vars
  BY <1>0 DEF vars
<1>1. ASSUME NEW tm \in Timeouts, Acquire(tm) PROVE OnePresenter'
  BY <1>1 DEF Acquire
<1>2. ASSUME NEW i \in Images, QueuePresent(i) PROVE OnePresenter'
  BY <1>2 DEF QueuePresent
<1>3. ASSUME NEW i \in Images, GpuFinishes(i) PROVE OnePresenter'
  BY <1>3 DEF GpuFinishes
<1>4. ASSUME NEW S \in SUBSET Images, ReleaseImages(S) PROVE OnePresenter'
  BY <1>4 DEF ReleaseImages
<1>5. CASE Deprecate
  BY <1>5 DEF Deprecate
<1>6. CASE Destroy("teardown")
  BY <1>6 DEF Destroy
<1>7. ASSUME NEW t \in {"app", "heir"}, TakeUnit(t) PROVE OnePresenter'
  BY <1>7 DEF TakeUnit, WaitReturns, DrainedLabel
<1>8. ASSUME NEW t \in {"app", "heir"}, AskBackend(t) PROVE OnePresenter'
  BY <1>8 DEF AskBackend
<1>9. ASSUME NEW t \in {"app", "heir"}, WaitFails(t) PROVE OnePresenter'
  <2>1. CASE t = "app"
    BY <1>9, <2>1 DEF WaitFails, WaitReturns, DrainedLabel
  <2>2. CASE t = "heir"
    <3>1. left["heir"] # 0
      BY <1>9, <2>2 DEF WaitFails, Places
    <3> QED BY <1>9, <2>2, <3>1 DEF WaitFails, WaitReturns, DrainedLabel
  <2> QED BY <1>9, <2>1, <2>2
<1>10. ASSUME NEW t \in Threads, DefaultGetFreeBuffer(t) PROVE OnePresenter'
  BY <1>10 DEF DefaultGetFreeBuffer
<1>11. ASSUME NEW t \in {"app", "flip"}, PresentImage(t) PROVE OnePresenter'
  BY <1>11 DEF PresentImage, ReleaseStatus
<1>12. ASSUME NEW t \in {"app", "flip"}, PresentPosts(t) PROVE OnePresenter'
  BY <1>12 DEF PresentPosts, PresentReturns
<1>13. ASSUME NEW t \in {"app", "flip"}, CallPresent(t) PROVE OnePresenter'
  BY <1>13 DEF CallPresent
<1>14. ASSUME NEW t \in {"app", "flip"}, AncestorDrained(t) PROVE OnePresenter'
  BY <1>14 DEF AncestorDrained
<1>15. CASE CheckError
  BY <1>15 DEF CheckError
<1>16. CASE SelectImage
  BY <1>16 DEF SelectImage
<1>17. CASE SelectFails
  BY <1>17 DEF SelectFails
<1>18. CASE SignalAcquired
  BY <1>18 DEF SignalAcquired
<1>19. CASE SyncBeforePresent
  BY <1>19 DEF SyncBeforePresent
<1>20. CASE SubmitPayload
  BY <1>20 DEF SubmitPayload
<1>21. CASE NotifyOutOfDate
  BY <1>21 DEF NotifyOutOfDate
<1>22. CASE NotifyThread
  BY <1>22 DEF NotifyThread, GivenAway
<1>23. CASE NotifyInline
  BY <1>23 DEF NotifyInline, GivenAway
<1>24. CASE ReleaseOne
  BY <1>24 DEF ReleaseOne, ReleaseStatus
<1>25. CASE ReleasePosts
  BY <1>25 DEF ReleasePosts
<1>26. CASE DeprecateImage
  BY <1>26 DEF DeprecateImage
<1>27. CASE SetDescendant
  BY <1>27 DEF SetDescendant
<1>28. CASE Teardown
  BY <1>28 DEF Teardown
<1>29. CASE AwaitHeir
  BY <1>29 DEF AwaitHeir
<1>30. CASE StopFlipThread
  BY <1>30 DEF StopFlipThread
<1>31. CASE DestroyImages
  BY <1>31 DEF DestroyImages
<1>32. CASE DrainForTeardown
  BY <1>32 DEF DrainForTeardown, StartDrain, DrainedLabel
<1>33. CASE HeirDrains
  BY <1>33 DEF HeirDrains, StartDrain, DrainedLabel
<1>34. CASE FlipTakesUnit
  BY <1>34 DEF FlipTakesUnit
<1>35. CASE FlipRefreshes
  BY <1>35 DEF FlipRefreshes
<1>36. CASE FlipExits
  BY <1>36 DEF FlipExits
<1>37. CASE FlipPops
  BY <1>37 DEF FlipPops
<1>38. CASE FlipFence
  BY <1>38 DEF FlipFence
<1>39. CASE FlipAbandons
  BY <1>39 DEF FlipAbandons
<1>40. CASE HeirPresents
  BY <1>40 DEF HeirPresents
<1>41. CASE DescendantNotifies
  BY <1>41 DEF DescendantNotifies
<1>42. CASE DescendantDestroyed
  BY <1>42 DEF DescendantDestroyed
<1>43. CASE AncestorDestroyed
  BY <1>43 DEF AncestorDestroyed
<1> QED
  BY <1>0, <1>1, <1>2, <1>3, <1>4, <1>5, <1>6, <1>7, <1>8, <1>9, <1>10, <1>11, <1>12,
     <1>13, <1>14, <1>15, <1>16, <1>17, <1>18, <1>19, <1>20, <1>21, <1>22, <1>23, <1>24,
     <1>25, <1>26, <1>27, <1>28, <1>29, <1>30, <1>31, <1>32, <1>33, <1>34, <1>35, <1>36,
     <1>37, <1>38, <1>39, <1>40, <1>41, <1>42, <1>43, Steps

LEMMA HaveImagesStep ==
    ASSUME TypeOK, Places, OnePresenter, HaveImages, [Next]_vars
    PROVE  HaveImages'
<1> USE DEF TypeOK, Threads, imageVars, queueVars, presentVars, lockVars, lifeVars, threadVars, callVars,
            Goto, Return, EndAcquire, EndPresent, Waiting, Inline, Presenting, Showing, UseThread, Shared, Continuous, HaveImages
<1>0. CASE UNCHANGED vars
  BY <1>0 DEF vars
<1>1. ASSUME NEW tm \in Timeouts, Acquire(tm) PROVE HaveImages'
  BY <1>1 DEF Acquire
<1>2. ASSUME NEW i \in Images, QueuePresent(i) PROVE HaveImages'
  BY <1>2, NoImageIsNone DEF QueuePresent
<1>3. ASSUME NEW i \in Images, GpuFinishes(i) PROVE HaveImages'
  BY <1>3 DEF GpuFinishes
<1>4. ASSUME NEW S \in SUBSET Images, ReleaseImages(S) PROVE HaveImages'
  BY <1>4 DEF ReleaseImages
<1>5. CASE Deprecate
  BY <1>5 DEF Deprecate
<1>6. CASE Destroy("teardown")
  BY <1>6 DEF Destroy
<1>7. ASSUME NEW t \in {"app", "heir"}, TakeUnit(t) PROVE HaveImages'
  BY <1>7 DEF TakeUnit, WaitReturns, DrainedLabel
<1>8. ASSUME NEW t \in {"app", "heir"}, AskBackend(t) PROVE HaveImages'
  BY <1>8 DEF AskBackend
<1>9. ASSUME NEW t \in {"app", "heir"}, WaitFails(t) PROVE HaveImages'
  BY <1>9 DEF WaitFails, WaitReturns, DrainedLabel
<1>10. ASSUME NEW t \in Threads, DefaultGetFreeBuffer(t) PROVE HaveImages'
  BY <1>10 DEF DefaultGetFreeBuffer
<1>11. ASSUME NEW t \in {"app", "flip"}, PresentImage(t) PROVE HaveImages'
  BY <1>11 DEF PresentImage, ReleaseStatus
<1>12. ASSUME NEW t \in {"app", "flip"}, PresentPosts(t) PROVE HaveImages'
  BY <1>12 DEF PresentPosts, PresentReturns
<1>13. ASSUME NEW t \in {"app", "flip"}, CallPresent(t) PROVE HaveImages'
  BY <1>13 DEF CallPresent
<1>14. ASSUME NEW t \in {"app", "flip"}, AncestorDrained(t) PROVE HaveImages'
  BY <1>14 DEF AncestorDrained
<1>15. CASE CheckError
  BY <1>15 DEF CheckError
<1>16. CASE SelectImage
  <2>1. PICK k \in Images : image' = [image EXCEPT !["app"] = RoundRobin(k)]
    BY <1>16 DEF SelectImage
  <2> QED BY <1>16, <2>1, RoundRobinStays, NoImageIsNone DEF SelectImage
<1>17. CASE SelectFails
  BY <1>17 DEF SelectFails
<1>18. CASE SignalAcquired
  BY <1>18 DEF SignalAcquired
<1>19. CASE SyncBeforePresent
  BY <1>19 DEF SyncBeforePresent
<1>20. CASE SubmitPayload
  BY <1>20 DEF SubmitPayload
<1>21. CASE NotifyOutOfDate
  BY <1>21 DEF NotifyOutOfDate
<1>22. CASE NotifyThread
  BY <1>22 DEF NotifyThread, GivenAway
<1>23. CASE NotifyInline
  BY <1>23 DEF NotifyInline, GivenAway
<1>24. CASE ReleaseOne
  BY <1>24 DEF ReleaseOne, ReleaseStatus
<1>25. CASE ReleasePosts
  BY <1>25 DEF ReleasePosts
<1>26. CASE DeprecateImage
  BY <1>26 DEF DeprecateImage
<1>27. CASE SetDescendant
  BY <1>27 DEF SetDescendant
<1>28. CASE Teardown
  BY <1>28 DEF Teardown
<1>29. CASE AwaitHeir
  BY <1>29 DEF AwaitHeir
<1>30. CASE StopFlipThread
  BY <1>30 DEF StopFlipThread
<1>31. CASE DestroyImages
  BY <1>31 DEF DestroyImages
<1>32. CASE DrainForTeardown
  BY <1>32 DEF DrainForTeardown, StartDrain, DrainedLabel
<1>33. CASE HeirDrains
  BY <1>33 DEF HeirDrains, StartDrain, DrainedLabel
<1>34. CASE FlipTakesUnit
  BY <1>34, ImagesFinite, NoImageIsNone DEF FlipTakesUnit
<1>35. CASE FlipRefreshes
  BY <1>35, ImagesFinite, NoImageIsNone DEF FlipRefreshes
<1>36. CASE FlipExits
  BY <1>36 DEF FlipExits
<1>37. CASE FlipPops
  <2>1. Head(pool) \in Images
    BY <1>37 DEF FlipPops
  <2> QED BY <1>37, <2>1, NoImageIsNone DEF FlipPops
<1>38. CASE FlipFence
  BY <1>38 DEF FlipFence
<1>39. CASE FlipAbandons
  BY <1>39 DEF FlipAbandons
<1>40. CASE HeirPresents
  BY <1>40 DEF HeirPresents
<1>41. CASE DescendantNotifies
  BY <1>41 DEF DescendantNotifies
<1>42. CASE DescendantDestroyed
  BY <1>42 DEF DescendantDestroyed
<1>43. CASE AncestorDestroyed
  BY <1>43 DEF AncestorDestroyed
<1> QED
  BY <1>0, <1>1, <1>2, <1>3, <1>4, <1>5, <1>6, <1>7, <1>8, <1>9, <1>10, <1>11, <1>12,
     <1>13, <1>14, <1>15, <1>16, <1>17, <1>18, <1>19, <1>20, <1>21, <1>22, <1>23, <1>24,
     <1>25, <1>26, <1>27, <1>28, <1>29, <1>30, <1>31, <1>32, <1>33, <1>34, <1>35, <1>36,
     <1>37, <1>38, <1>39, <1>40, <1>41, <1>42, <1>43, Steps

-----------------------------------------------------------------------------
(* Most steps leave the images alone. *)
LoudStep ==
    \/ SelectImage \/ SelectFails \/ SignalAcquired
    \/ NotifyOutOfDate \/ NotifyThread \/ NotifyInline
    \/ FlipPops \/ FlipFence
    \/ \E t \in {"app", "flip"} : PresentImage(t)
    \/ \E S \in SUBSET Images : ReleaseImages(S)
    \/ ReleaseOne \/ DeprecateImage \/ DestroyImages

LEMMA QuietSteps ==
    ASSUME TypeOK, Places, OnePresenter, HaveImages, [Next]_vars
    PROVE  view' = view \/ LoudStep
<1> SUFFICES ASSUME ~LoudStep
             PROVE  view' = view
  OBVIOUS
<1> USE DEF view, Dead, FlipImage, AppImage, Acquiring, Returning, Showing, Shared, Continuous, Threads,
            imageVars, queueVars, presentVars, lockVars, lifeVars, threadVars, callVars, TypeOK,
            Goto, Return, EndAcquire, EndPresent
<1>a. pc["app"] \notin {"release", "release_post"} => task # "release"
  BY DEF Places
<1>0. CASE UNCHANGED vars
  BY <1>0 DEF vars
<1>1. ASSUME NEW tm \in Timeouts, Acquire(tm) PROVE view' = view
  BY <1>1, <1>a DEF Acquire
<1>2. ASSUME NEW i \in Images, QueuePresent(i) PROVE view' = view
  BY <1>2, <1>a DEF QueuePresent
<1>3. ASSUME NEW i \in Images, GpuFinishes(i) PROVE view' = view
  BY <1>3 DEF GpuFinishes
<1>4. CASE Deprecate
  BY <1>4, <1>a DEF Deprecate
<1>5. CASE Destroy("teardown")
  BY <1>5, <1>a DEF Destroy
<1>6. ASSUME NEW t \in {"app", "heir"}, TakeUnit(t) PROVE view' = view
  BY <1>6, <1>a DEF TakeUnit, WaitReturns, DrainedLabel
<1>7. ASSUME NEW t \in {"app", "heir"}, AskBackend(t) PROVE view' = view
  BY <1>7 DEF AskBackend
<1>8. ASSUME NEW t \in {"app", "heir"}, WaitFails(t) PROVE view' = view
  <2>1. CASE t = "app"
    BY <1>8, <1>a, <2>1 DEF WaitFails, WaitReturns, DrainedLabel
  <2>2. CASE t = "heir"
    <3>1. left["heir"] # 0
      BY <1>8, <2>2 DEF WaitFails, Places, Waiting
    <3> QED BY <1>8, <2>2, <3>1 DEF WaitFails, WaitReturns, DrainedLabel
  <2> QED BY <1>8, <2>1, <2>2
<1>9. ASSUME NEW t \in Threads, DefaultGetFreeBuffer(t) PROVE view' = view
  BY <1>9 DEF DefaultGetFreeBuffer
<1>10. ASSUME NEW t \in {"app", "flip"}, PresentPosts(t) PROVE view' = view
  BY <1>10, <1>a DEF PresentPosts, PresentReturns
<1>11. ASSUME NEW t \in {"app", "flip"}, CallPresent(t) PROVE view' = view
  BY <1>11 DEF CallPresent
<1>12. ASSUME NEW t \in {"app", "flip"}, AncestorDrained(t) PROVE view' = view
  BY <1>12 DEF AncestorDrained
<1>13. CASE CheckError
  BY <1>13, <1>a DEF CheckError
<1>14. CASE SyncBeforePresent
  BY <1>14, <1>a DEF SyncBeforePresent
<1>15. CASE SubmitPayload
  BY <1>15, <1>a DEF SubmitPayload
<1>16. CASE ReleasePosts
  BY <1>16 DEF ReleasePosts
<1>17. CASE SetDescendant
  BY <1>17 DEF SetDescendant
<1>18. CASE Teardown
  BY <1>18 DEF Teardown
<1>19. CASE AwaitHeir
  BY <1>19 DEF AwaitHeir
<1>20. CASE StopFlipThread
  BY <1>20 DEF StopFlipThread
<1>21. CASE DrainForTeardown
  BY <1>21 DEF DrainForTeardown, StartDrain, DrainedLabel
<1>22. CASE HeirDrains
  BY <1>22 DEF HeirDrains, StartDrain, DrainedLabel
<1>23. CASE FlipTakesUnit
  BY <1>23 DEF FlipTakesUnit
<1>24. CASE FlipRefreshes
  BY <1>24 DEF FlipRefreshes
<1>25. CASE FlipExits
  BY <1>25 DEF FlipExits
<1>26. CASE FlipAbandons
  BY <1>26 DEF FlipAbandons
<1>27. CASE HeirPresents
  BY <1>27 DEF HeirPresents
<1>28. CASE DescendantNotifies
  BY <1>28 DEF DescendantNotifies
<1>29. CASE DescendantDestroyed
  BY <1>29 DEF DescendantDestroyed
<1>30. CASE AncestorDestroyed
  BY <1>30 DEF AncestorDestroyed
<1> QED
  BY <1>0, <1>1, <1>2, <1>3, <1>4, <1>5, <1>6, <1>7, <1>8, <1>9, <1>10, <1>11, <1>12,
     <1>13, <1>14, <1>15, <1>16, <1>17, <1>18, <1>19, <1>20, <1>21, <1>22, <1>23, <1>24,
     <1>25, <1>26, <1>27, <1>28, <1>29, <1>30, Steps DEF LoudStep

LEMMA ModeStays ==
    ASSUME TypeOK, Places, OnePresenter, HaveImages, [Next]_vars
    PROVE  presentMode' = presentMode
BY QuietSteps DEF view, LoudStep, SelectImage, SelectFails, SignalAcquired, NotifyOutOfDate, NotifyThread,
   NotifyInline, FlipPops, FlipFence, PresentImage, ReleaseImages, ReleaseOne, DeprecateImage,
   DestroyImages, lifeVars

-----------------------------------------------------------------------------
(* What the views of two successive states say of the queue. *)
LEMMA QueueParts ==
    ASSUME TypeOK, Places, OnePresenter, HaveImages, ~Shared
    PROVE  /\ FlipImage \in Images \union {NoImage} /\ AppImage \in Images \union {NoImage}
           /\ Acquiring \in Images \union {NoImage}
           /\ AppImage # NoImage => FlipImage = NoImage /\ pool = <<>>
           /\ PresentQueue = IF FlipImage # NoImage THEN <<FlipImage>> \o pool
                             ELSE IF AppImage # NoImage THEN <<AppImage>> ELSE pool
           /\ Queued = {pool[k] : k \in 1 .. Len(pool)} \union ({FlipImage, AppImage} \ {NoImage})
<1> USE DEF TypeOK, Threads, FlipImage, AppImage, Acquiring, Showing
<1>1. FlipImage \in Images \union {NoImage} /\ AppImage \in Images \union {NoImage} /\ Acquiring \in Images \union {NoImage}
  OBVIOUS
<1>2. AppImage # NoImage => FlipImage = NoImage /\ pool = <<>>
  BY DEF OnePresenter, Inline, Places, AppPlaces
<1>3. /\ pc["flip"] \in Showing <=> FlipImage # NoImage
      /\ pc["app"] \in Showing /\ ~(pc["flip"] \in Showing) <=> AppImage # NoImage
  BY <1>2 DEF HaveImages, Presenting, Inline, OnePresenter, Places, AppPlaces
<1>4. PresentQueue = IF FlipImage # NoImage THEN <<FlipImage>> \o pool
                     ELSE IF AppImage # NoImage THEN <<AppImage>> ELSE pool
  <2>1. \A s \in Seq(Images) : <<>> \o s = s /\ s \o <<>> = s
    OBVIOUS
  <2>2. CASE FlipImage # NoImage
    BY <1>3, <2>2 DEF PresentQueue, Front
  <2>3. CASE FlipImage = NoImage /\ AppImage # NoImage
    <3>1. <<AppImage>> \in Seq(Images)
      BY <1>1, <2>3
    <3>2. PresentQueue = <<AppImage>> \o <<>>
      BY <1>2, <1>3, <2>3 DEF PresentQueue, Front
    <3> QED BY <2>1, <2>3, <3>1, <3>2
  <2>4. CASE FlipImage = NoImage /\ AppImage = NoImage
    BY <1>2, <1>3, <2>1, <2>4 DEF PresentQueue, Front
  <2> QED BY <2>2, <2>3, <2>4
<1>5. Queued = {pool[k] : k \in 1 .. Len(pool)} \union ({FlipImage, AppImage} \ {NoImage})
  <2>1. CASE FlipImage # NoImage
    <3>1. PresentQueue \in Seq(Images) /\ Len(PresentQueue) = Len(pool) + 1
          /\ PresentQueue[1] = FlipImage /\ \A k \in 1 .. Len(pool) : PresentQueue[k + 1] = pool[k]
      BY <1>1, <1>4, <2>1
    <3>2. \A k \in 2 .. Len(pool) + 1 : PresentQueue[k] = pool[k - 1]
      BY <1>1, <1>4, <2>1
    <3>3. AppImage = NoImage /\ Len(pool) \in Nat
      BY <1>2, <2>1
    <3>4. ASSUME NEW k \in 1 .. Len(PresentQueue)
          PROVE  PresentQueue[k] \in {pool[j] : j \in 1 .. Len(pool)} \union {FlipImage}
      <4>1. k = 1 \/ (k \in 2 .. Len(pool) + 1 /\ k - 1 \in 1 .. Len(pool))
        BY <3>1, <3>3
      <4> QED BY <3>1, <3>2, <4>1
    <3>5. ASSUME NEW k \in 1 .. Len(pool)
          PROVE  pool[k] \in {PresentQueue[j] : j \in 1 .. Len(PresentQueue)}
      <4>1. k + 1 \in 1 .. Len(PresentQueue)
        BY <3>1, <3>3
      <4> QED BY <3>1, <4>1
    <3>6. 1 \in 1 .. Len(PresentQueue)
      BY <3>1, <3>3
    <3> QED BY <2>1, <3>1, <3>3, <3>4, <3>5, <3>6 DEF Queued
  <2>2. CASE FlipImage = NoImage /\ AppImage # NoImage
    BY <1>1, <1>2, <1>4, <2>2 DEF Queued
  <2>3. CASE FlipImage = NoImage /\ AppImage = NoImage
    BY <1>4, <2>3 DEF Queued
  <2> QED BY <2>1, <2>2, <2>3
<1> QED BY <1>1, <1>2, <1>4, <1>5

(* The loud steps keep what is said of the status of the images. *)
LEMMA OwnedStep ==
    ASSUME TypeOK, Places, OnePresenter, HaveImages, Owned, FlipQueueMatches, TypeOK', [Next]_vars
    PROVE  Owned'
<1> SUFFICES ASSUME ~Shared, ~Dead, ~Dead', LoudStep
             PROVE  Owned'
  <2>1. CASE view' = view
    BY <2>1 DEF view, Owned, PoolPends, PoolDiffers, FlipShows, AppShows, AcquiringHas, HeldAcquired,
                ReturningAcquired, Shared
  <2>2. presentMode' = presentMode
    BY ModeStays
  <2>3. Dead => Dead'
    BY QuietSteps DEF view, LoudStep, SelectImage, SelectFails, SignalAcquired, NotifyOutOfDate, NotifyThread,
       NotifyInline, FlipPops, FlipFence, PresentImage, ReleaseImages, ReleaseOne, DeprecateImage,
       DestroyImages, Dead, Goto, OnePresenter, TypeOK, Threads
  <2> QED BY <2>1, <2>2, <2>3, QuietSteps DEF Owned, Shared
<1>a. PoolPends /\ PoolDiffers /\ FlipShows /\ AppShows /\ AcquiringHas /\ HeldAcquired /\ ReturningAcquired
  BY DEF Owned
<1> USE DEF Owned, PoolPends, PoolDiffers, FlipShows, AppShows, AcquiringHas, HeldAcquired, ReturningAcquired,
            FlipImage, AppImage, Acquiring, Returning, Showing, Shared, Threads, TypeOK,
            imageVars, queueVars, presentVars, lockVars, lifeVars, threadVars, callVars, Goto, Return,
            EndAcquire, EndPresent
<1>1. CASE SelectImage
  <2>1. PICK k \in Images : /\ Usable(RoundRobin(k))
                            /\ status' = [status EXCEPT ![RoundRobin(k)] = "ACQUIRED"]
                            /\ image' = [image EXCEPT !["app"] = RoundRobin(k)]
    BY <1>1 DEF SelectImage
  <2>2. RoundRobin(k) \in Images /\ status[RoundRobin(k)] \notin {"PENDING", "ACQUIRED"}
    BY <2>1, RoundRobinStays DEF Usable
  <2>3. PICK i \in Images : i = RoundRobin(k)
    BY <2>2
  <2>4. Acquiring' = i /\ UNCHANGED <<pool, held, presentMode, task, todo>>
    BY <1>1, <2>1, <2>3 DEF SelectImage
  <2>5. UNCHANGED <<FlipImage, AppImage>>
    BY <1>1, <2>1 DEF SelectImage
  <2>6. i \notin held /\ task # "release"
    BY <1>1, <1>a, <2>2, <2>3 DEF SelectImage, Places
  <2>7. \A j \in Images : status'[j] = IF j = i THEN "ACQUIRED" ELSE status[j]
    BY <2>1, <2>3
  <2>8. PoolPends' /\ PoolDiffers' /\ HeldAcquired'
    BY <1>a, <2>2, <2>3, <2>4, <2>7
  <2>9. FlipShows' /\ AppShows'
    BY <1>a, <2>2, <2>3, <2>4, <2>5, <2>7
  <2>10. AcquiringHas' /\ ReturningAcquired'
    BY <2>4, <2>6, <2>7
  <2> QED BY <2>8, <2>9, <2>10
<1>2. CASE SelectFails
  BY <1>2, <1>a DEF SelectFails
<1>3. CASE SignalAcquired
  <2>1. image["app"] \in Images /\ task # "release"
    BY <1>3 DEF SignalAcquired, HaveImages, Places
  <2>2. status[image["app"]] = "ACQUIRED" /\ image["app"] \notin held
    BY <1>3, <1>a, <2>1, NoImageIsNone DEF SignalAcquired
  <2> QED BY <1>3, <1>a, <2>1, <2>2 DEF SignalAcquired
<1>4. CASE NotifyOutOfDate
  <2>1. image["app"] \in held /\ task # "release"
    BY <1>4 DEF NotifyOutOfDate, HaveImages, Places
  <2>2. \A k \in 1 .. Len(pool) : pool[k] # image["app"]
    BY <1>a, <2>1
  <2> QED BY <1>4, <1>a, <2>1, <2>2 DEF NotifyOutOfDate
<1>5. CASE NotifyThread
  <2>1. image["app"] \in held /\ task # "release"
    BY <1>5 DEF NotifyThread, HaveImages, Places
  <2>2. \A k \in 1 .. Len(pool) : pool[k] # image["app"]
    BY <1>a, <2>1
  <2>3. pool' = Append(pool, image["app"])
    BY <1>5 DEF NotifyThread, FlipQueueMatches, PoolHasRoom
  <2>4. PoolPends' /\ PoolDiffers'
    BY <1>5, <1>a, <2>1, <2>2, <2>3 DEF NotifyThread
  <2>5. FlipShows' /\ AppShows'
    BY <1>5, <1>a, <2>1, <2>2, <2>3 DEF NotifyThread
  <2>6. AcquiringHas' /\ HeldAcquired' /\ ReturningAcquired'
    BY <1>5, <1>a, <2>1 DEF NotifyThread, GivenAway
  <2> QED BY <2>4, <2>5, <2>6
<1>6. CASE NotifyInline
  <2>1. image["app"] \in held /\ task # "release"
    BY <1>6 DEF NotifyInline, HaveImages, Places
  <2>2. pool = <<>> /\ pc["flip"] = "exited"
    BY <1>6 DEF NotifyInline, OnePresenter
  <2> QED BY <1>6, <1>a, <2>1, <2>2 DEF NotifyInline, GivenAway
<1>7. CASE FlipPops
  BY <1>7, <1>a DEF FlipPops
<1>8. CASE FlipFence
  BY <1>8, <1>a DEF FlipFence
<1>9. ASSUME NEW t \in {"app", "flip"}, PresentImage(t) PROVE Owned'
  <2>1. CASE t = "app"
    <3>1. pool = <<>> /\ pc["flip"] = "exited"
      BY <1>9, <2>1 DEF PresentImage, OnePresenter, Inline
    <3>2. status[image["app"]] = "PENDING" /\ task # "release"
      BY <1>9, <1>a, <2>1, NoImageIsNone DEF PresentImage, HaveImages, Presenting, Inline, Places
    <3> QED BY <1>9, <1>a, <2>1, <3>1, <3>2 DEF PresentImage, ReleaseStatus
  <2>2. CASE t = "flip"
    <3>1. status[image["flip"]] = "PENDING" /\ \A k \in 1 .. Len(pool) : pool[k] # image["flip"]
      BY <1>9, <1>a, <2>2 DEF PresentImage, HaveImages
    <3>2. ~(pc["app"] \in Showing)
      BY <1>9, <2>2 DEF PresentImage, OnePresenter, Inline, Places, AppPlaces
    <3> QED BY <1>9, <1>a, <2>2, <3>1, <3>2 DEF PresentImage, ReleaseStatus
  <2> QED BY <1>9, <2>1, <2>2
<1>10. ASSUME NEW S \in SUBSET Images, ReleaseImages(S) PROVE Owned'
  BY <1>10, <1>a DEF ReleaseImages
<1>11. CASE ReleaseOne
  <2>1. PICK i \in todo : todo' = todo \ {i} /\ status' = [status EXCEPT ![i] = "FREE"]
    BY <1>11 DEF ReleaseOne, ReleaseStatus
  <2>2. status[i] = "ACQUIRED" /\ i \notin held
    BY <1>11, <1>a, <2>1 DEF ReleaseOne, Places
  <2> QED BY <1>11, <1>a, <2>1, <2>2 DEF ReleaseOne
<1>12. CASE DeprecateImage
  BY <1>12, <1>a DEF DeprecateImage
<1>13. CASE DestroyImages
  BY <1>13 DEF DestroyImages, Dead
<1> QED
  BY <1>1, <1>2, <1>3, <1>4, <1>5, <1>6, <1>7, <1>8, <1>9, <1>10, <1>11, <1>12, <1>13 DEF LoudStep

-----------------------------------------------------------------------------
(* The pool holds distinct images, and none the application has.           *)
LEMMA RoomInPool ==
    TypeOK /\ Places /\ HaveImages /\ Owned /\ ~Shared => PoolHasRoom
<1> SUFFICES ASSUME TypeOK, Places, HaveImages, Owned, ~Shared, pc["app"] = "notify", Len(pool) >= PoolCapacity
             PROVE  FALSE
  BY SwapchainAssumption DEF PoolHasRoom, TypeOK
<1> DEFINE Slots == 1 .. Len(pool)
           Others == Images \ {image["app"]}
<1>1. image["app"] \in Images /\ image["app"] \in held
  BY DEF HaveImages, TypeOK, Threads
<1>2. Len(pool) \in Nat /\ pool \in [Slots -> Others]
  <2>1. Len(pool) \in Nat /\ pool \in [Slots -> Images]
    BY DEF TypeOK
  <2>2. \A k \in Slots : pool[k] # image["app"]
    BY <1>1 DEF Owned, Dead, PoolPends, HeldAcquired
  <2> QED BY <2>1, <2>2
<1>3. IsFiniteSet(Slots) /\ Cardinality(Slots) = Len(pool)
  BY <1>2, FS_Interval
<1>4. IsFiniteSet(Others) /\ Cardinality(Others) = NumImages - 1
  BY <1>1, ImagesFinite, FS_RemoveElement
<1>5. Cardinality(Others) < Cardinality(Slots)
  BY <1>2, <1>3, <1>4, SwapchainAssumption
<1>6. PICK x, y \in Slots : x # y /\ pool[x] = pool[y]
  <2> HIDE DEF Slots, Others
  <2>1. pool \in [Slots -> Others] /\ IsFiniteSet(Slots) /\ IsFiniteSet(Others)
    BY <1>2, <1>3, <1>4
  <2> QED BY ONLY <1>5, <2>1, FS_PigeonHole
<1> QED BY <1>6 DEF Owned, Dead, PoolDiffers

LEMMA FlipQueueStep ==
    ASSUME TypeOK, Places, OnePresenter, HaveImages, FlipQueueMatches, [Next]_vars,
           ~Shared' => PoolHasRoom'
    PROVE  FlipQueueMatches'
<1> DEFINE Same == UNCHANGED <<presentMode, pool, flipSem>> /\ (pc'["flip"] = "pop" <=> pc["flip"] = "pop")
<1> USE DEF TypeOK, Threads, imageVars, queueVars, presentVars, lockVars, lifeVars, threadVars, callVars,
            Goto, Return, EndAcquire, EndPresent
<1>0. CASE UNCHANGED vars
  BY <1>0 DEF vars, FlipQueueMatches, Shared
<1>1. ASSUME NEW tm \in Timeouts, Acquire(tm) PROVE  Same
  BY <1>1 DEF Acquire
<1>2. ASSUME NEW i \in Images, QueuePresent(i) PROVE  Same
  BY <1>2 DEF QueuePresent
<1>3. ASSUME NEW i \in Images, GpuFinishes(i) PROVE  Same
  BY <1>3 DEF GpuFinishes
<1>4. ASSUME NEW S \in SUBSET Images, ReleaseImages(S) PROVE  Same
  BY <1>4 DEF ReleaseImages
<1>5. ASSUME Deprecate PROVE  Same
  BY <1>5 DEF Deprecate
<1>6. ASSUME Destroy("teardown") PROVE  Same
  BY <1>6 DEF Destroy
<1>7. ASSUME NEW t \in {"app", "heir"}, TakeUnit(t) PROVE  Same
  BY <1>7 DEF TakeUnit, WaitReturns, DrainedLabel
<1>8. ASSUME NEW t \in {"app", "heir"}, AskBackend(t) PROVE  Same
  BY <1>8 DEF AskBackend
<1>9. ASSUME NEW t \in {"app", "heir"}, WaitFails(t) PROVE  Same
  BY <1>9 DEF WaitFails, WaitReturns, DrainedLabel
<1>10. ASSUME NEW t \in Threads, DefaultGetFreeBuffer(t) PROVE  Same
  BY <1>10 DEF DefaultGetFreeBuffer
<1>11. ASSUME NEW t \in {"app", "flip"}, PresentImage(t) PROVE  Same
  BY <1>11 DEF PresentImage, ReleaseStatus
<1>12. ASSUME NEW t \in {"app", "flip"}, PresentPosts(t) PROVE  Same
  BY <1>12 DEF PresentPosts, PresentReturns
<1>13. ASSUME NEW t \in {"app", "flip"}, CallPresent(t) PROVE  Same
  BY <1>13 DEF CallPresent
<1>14. ASSUME NEW t \in {"app", "flip"}, AncestorDrained(t) PROVE  Same
  BY <1>14 DEF AncestorDrained
<1>15. ASSUME CheckError PROVE  Same
  BY <1>15 DEF CheckError
<1>16. ASSUME SelectImage PROVE  Same
  BY <1>16 DEF SelectImage
<1>17. ASSUME SelectFails PROVE  Same
  BY <1>17 DEF SelectFails
<1>18. ASSUME SignalAcquired PROVE  Same
  BY <1>18 DEF SignalAcquired
<1>19. ASSUME SyncBeforePresent PROVE  Same
  BY <1>19 DEF SyncBeforePresent
<1>20. ASSUME SubmitPayload PROVE  Same
  BY <1>20 DEF SubmitPayload
<1>21. ASSUME NotifyOutOfDate PROVE  Same
  BY <1>21 DEF NotifyOutOfDate
<1>22. ASSUME NotifyThread PROVE  FlipQueueMatches'
  <2>1. ~Shared => pool' = Append(pool, image["app"])
    BY <1>22 DEF NotifyThread, FlipQueueMatches, PoolHasRoom
  <2> QED BY <1>22, <2>1 DEF NotifyThread, FlipQueueMatches, Shared
<1>23. ASSUME NotifyInline PROVE  Same
  BY <1>23 DEF NotifyInline, GivenAway
<1>24. ASSUME ReleaseOne PROVE  Same
  BY <1>24 DEF ReleaseOne, ReleaseStatus
<1>25. ASSUME ReleasePosts PROVE  Same
  BY <1>25 DEF ReleasePosts
<1>26. ASSUME DeprecateImage PROVE  Same
  BY <1>26 DEF DeprecateImage
<1>27. ASSUME SetDescendant PROVE  Same
  BY <1>27 DEF SetDescendant
<1>28. ASSUME Teardown PROVE  Same
  BY <1>28 DEF Teardown
<1>29. ASSUME AwaitHeir PROVE  Same
  BY <1>29 DEF AwaitHeir
<1>30. ASSUME StopFlipThread PROVE  Same
  BY <1>30 DEF StopFlipThread
<1>31. ASSUME DestroyImages PROVE  Same
  BY <1>31 DEF DestroyImages
<1>32. ASSUME DrainForTeardown PROVE  Same
  BY <1>32 DEF DrainForTeardown, StartDrain, DrainedLabel
<1>33. ASSUME HeirDrains PROVE  Same
  BY <1>33 DEF HeirDrains, StartDrain, DrainedLabel
<1>34. ASSUME FlipTakesUnit PROVE  FlipQueueMatches'
  BY <1>34 DEF FlipTakesUnit, FlipQueueMatches, Shared, Continuous
<1>35. ASSUME FlipRefreshes PROVE  Same
  BY <1>35 DEF FlipRefreshes
<1>36. ASSUME FlipExits PROVE  Same
  BY <1>36 DEF FlipExits
<1>37. ASSUME FlipPops PROVE  FlipQueueMatches'
  BY <1>37 DEF FlipPops, FlipQueueMatches, Shared, Continuous
<1>38. ASSUME FlipFence PROVE  Same
  BY <1>38 DEF FlipFence
<1>39. ASSUME FlipAbandons PROVE  Same
  BY <1>39 DEF FlipAbandons
<1>40. ASSUME HeirPresents PROVE  Same
  BY <1>40 DEF HeirPresents
<1>41. ASSUME DescendantNotifies PROVE  Same
  BY <1>41 DEF DescendantNotifies
<1>42. ASSUME DescendantDestroyed PROVE  Same
  BY <1>42 DEF DescendantDestroyed
<1>43. ASSUME AncestorDestroyed PROVE  Same
  BY <1>43 DEF AncestorDestroyed
<1> QED
  BY <1>0, <1>1, <1>2, <1>3, <1>4, <1>5, <1>6, <1>7, <1>8, <1>9, <1>10, <1>11, <1>12,
     <1>13, <1>14, <1>15, <1>16, <1>17, <1>18, <1>19, <1>20, <1>21, <1>22, <1>23, <1>24,
     <1>25, <1>26, <1>27, <1>28, <1>29, <1>30, <1>31, <1>32, <1>33, <1>34, <1>35, <1>36,
     <1>37, <1>38, <1>39, <1>40, <1>41, <1>42, <1>43, Steps DEF FlipQueueMatches, Shared

-----------------------------------------------------------------------------
(* In a shared mode the unit the swapchain begins with is the only one.    *)
LEMMA SharedUnitsStep ==
    ASSUME TypeOK, Places, OnePresenter, HaveImages, Units, Shared, [Next]_vars
    PROVE  SharedUnits'
<1> USE DEF Units, SharedUnits, Dead, Fresh, Usable, Promised, Shared, Continuous, Presenting, Inline, UseThread
<1> USE DEF TypeOK, Threads, imageVars, queueVars, presentVars, lockVars, lifeVars, threadVars, callVars,
            Goto, Return, EndAcquire, EndPresent
<1>0. CASE UNCHANGED vars
  BY <1>0 DEF vars
<1>1. ASSUME NEW tm \in Timeouts, Acquire(tm) PROVE SharedUnits'
  BY <1>1 DEF Acquire
<1>2. ASSUME NEW i \in Images, QueuePresent(i) PROVE SharedUnits'
  BY <1>2 DEF QueuePresent
<1>3. ASSUME NEW i \in Images, GpuFinishes(i) PROVE SharedUnits'
  BY <1>3 DEF GpuFinishes
<1>4. ASSUME NEW S \in SUBSET Images, ReleaseImages(S) PROVE SharedUnits'
  BY <1>4 DEF ReleaseImages
<1>5. ASSUME Deprecate PROVE SharedUnits'
  BY <1>5 DEF Deprecate
<1>6. ASSUME Destroy("teardown") PROVE SharedUnits'
  BY <1>6 DEF Destroy
<1>7. ASSUME NEW t \in {"app", "heir"}, TakeUnit(t) PROVE SharedUnits'
  BY <1>7 DEF TakeUnit, WaitReturns, DrainedLabel
<1>8. ASSUME NEW t \in {"app", "heir"}, AskBackend(t) PROVE SharedUnits'
  BY <1>8 DEF AskBackend
<1>9. ASSUME NEW t \in {"app", "heir"}, WaitFails(t) PROVE SharedUnits'
  <2>1. CASE t = "app"
    BY <1>9, <2>1 DEF WaitFails, WaitReturns, DrainedLabel, Places
  <2>2. CASE t = "heir"
    <3>1. left["heir"] # 0
      BY <1>9, <2>2 DEF WaitFails, Places, Waiting
    <3> QED BY <1>9, <2>2, <3>1 DEF WaitFails, WaitReturns, DrainedLabel
  <2> QED BY <1>9, <2>1, <2>2
<1>10. ASSUME NEW t \in Threads, DefaultGetFreeBuffer(t) PROVE SharedUnits'
  BY <1>10 DEF DefaultGetFreeBuffer
<1>11. ASSUME NEW t \in {"app", "flip"}, PresentImage(t) PROVE SharedUnits'
  BY <1>11 DEF PresentImage, ReleaseStatus
<1>12. ASSUME NEW t \in {"app", "flip"}, PresentPosts(t) PROVE SharedUnits'
  BY <1>12 DEF PresentPosts, PresentReturns, PostFree
<1>13. ASSUME NEW t \in {"app", "flip"}, CallPresent(t) PROVE SharedUnits'
  BY <1>13 DEF CallPresent
<1>14. ASSUME NEW t \in {"app", "flip"}, AncestorDrained(t) PROVE SharedUnits'
  BY <1>14 DEF AncestorDrained
<1>15. ASSUME CheckError PROVE SharedUnits'
  BY <1>15 DEF CheckError, Places
<1>16. ASSUME SelectImage PROVE SharedUnits'
  BY <1>16 DEF SelectImage
<1>17. ASSUME SelectFails PROVE SharedUnits'
  BY <1>17 DEF SelectFails
<1>18. ASSUME SignalAcquired PROVE SharedUnits'
  BY <1>18 DEF SignalAcquired
<1>19. ASSUME SyncBeforePresent PROVE SharedUnits'
  BY <1>19 DEF SyncBeforePresent
<1>20. ASSUME SubmitPayload PROVE SharedUnits'
  BY <1>20 DEF SubmitPayload
<1>21. ASSUME NotifyOutOfDate PROVE SharedUnits'
  BY <1>21 DEF NotifyOutOfDate, Places
<1>22. ASSUME NotifyThread PROVE SharedUnits'
  BY <1>22 DEF NotifyThread, GivenAway
<1>23. ASSUME NotifyInline PROVE SharedUnits'
  BY <1>23 DEF NotifyInline, GivenAway
<1>24. ASSUME ReleaseOne PROVE SharedUnits'
  BY <1>24 DEF ReleaseOne, ReleaseStatus, Places
<1>25. ASSUME ReleasePosts PROVE SharedUnits'
  BY <1>25 DEF ReleasePosts, Places
<1>26. ASSUME DeprecateImage PROVE SharedUnits'
  BY <1>26 DEF DeprecateImage, Places
<1>27. ASSUME SetDescendant PROVE SharedUnits'
  BY <1>27 DEF SetDescendant
<1>28. ASSUME Teardown PROVE SharedUnits'
  BY <1>28 DEF Teardown
<1>29. ASSUME AwaitHeir PROVE SharedUnits'
  BY <1>29 DEF AwaitHeir
<1>30. ASSUME StopFlipThread PROVE SharedUnits'
  BY <1>30 DEF StopFlipThread
<1>31. ASSUME DestroyImages PROVE SharedUnits'
  BY <1>31 DEF DestroyImages
<1>32. ASSUME DrainForTeardown PROVE SharedUnits'
  BY <1>32 DEF DrainForTeardown, StartDrain, DrainedLabel
<1>33. ASSUME HeirDrains PROVE SharedUnits'
  BY <1>33 DEF HeirDrains, StartDrain, DrainedLabel
<1>34. ASSUME FlipTakesUnit PROVE SharedUnits'
  BY <1>34 DEF FlipTakesUnit
<1>35. ASSUME FlipRefreshes PROVE SharedUnits'
  BY <1>35 DEF FlipRefreshes
<1>36. ASSUME FlipExits PROVE SharedUnits'
  BY <1>36 DEF FlipExits
<1>37. ASSUME FlipPops PROVE SharedUnits'
  BY <1>37 DEF FlipPops
<1>38. ASSUME FlipFence PROVE SharedUnits'
  BY <1>38 DEF FlipFence
<1>39. ASSUME FlipAbandons PROVE SharedUnits'
  BY <1>39 DEF FlipAbandons, OnePresenter
<1>40. ASSUME HeirPresents PROVE SharedUnits'
  BY <1>40 DEF HeirPresents
<1>41. ASSUME DescendantNotifies PROVE SharedUnits'
  BY <1>41 DEF DescendantNotifies
<1>42. ASSUME DescendantDestroyed PROVE SharedUnits'
  BY <1>42 DEF DescendantDestroyed
<1>43. ASSUME AncestorDestroyed PROVE SharedUnits'
  BY <1>43 DEF AncestorDestroyed
<1> QED
  BY <1>0, <1>1, <1>2, <1>3, <1>4, <1>5, <1>6, <1>7, <1>8, <1>9, <1>10, <1>11, <1>12,
     <1>13, <1>14, <1>15, <1>16, <1>17, <1>18, <1>19, <1>20, <1>21, <1>22, <1>23, <1>24,
     <1>25, <1>26, <1>27, <1>28, <1>29, <1>30, <1>31, <1>32, <1>33, <1>34, <1>35, <1>36,
     <1>37, <1>38, <1>39, <1>40, <1>41, <1>42, <1>43, Steps

(* Otherwise every unit is an image to spare, and a step that adds or      *)
(* removes one does it to both.                                            *)
LEMMA SpareCounts ==
    ASSUME TypeOK, TypeOK'
    PROVE  /\ Spare \subseteq Images /\ Spare' \subseteq Images
           /\ Cardinality(Spare) \in Nat /\ Cardinality(Spare') \in Nat
           /\ Spare \subseteq Spare' => Cardinality(Spare) =< Cardinality(Spare')
           /\ \A i \in Images : i \in Spare' /\ i \notin Spare /\ Spare \subseteq Spare'
                 => Cardinality(Spare') >= Cardinality(Spare) + 1
           /\ \A i \in Images : Spare \subseteq Spare' \union {i} => Cardinality(Spare') >= Cardinality(Spare) - 1
<1>1. Spare \subseteq Images /\ Spare' \subseteq Images
  BY DEF Spare
<1>2. IsFiniteSet(Spare) /\ IsFiniteSet(Spare') /\ Cardinality(Spare) \in Nat /\ Cardinality(Spare') \in Nat
  BY <1>1, CountOfImages
<1>3. ASSUME Spare \subseteq Spare' PROVE Cardinality(Spare) =< Cardinality(Spare')
  BY <1>2, <1>3, FS_Subset
<1>4. ASSUME NEW i \in Images, i \in Spare', i \notin Spare, Spare \subseteq Spare'
      PROVE  Cardinality(Spare') >= Cardinality(Spare) + 1
  <2>1. Spare \union {i} \subseteq Spare'
    BY <1>4
  <2>2. Cardinality(Spare \union {i}) = Cardinality(Spare) + 1
    BY <1>2, <1>4, FS_AddElement
  <2> QED BY <1>2, <2>1, <2>2, FS_Subset
<1>5. ASSUME NEW i \in Images, Spare \subseteq Spare' \union {i}
      PROVE  Cardinality(Spare') >= Cardinality(Spare) - 1
  <2>1. IsFiniteSet(Spare' \union {i}) /\ Cardinality(Spare' \union {i}) =< Cardinality(Spare') + 1
    <3>1. Cardinality(Spare' \union {i}) = IF i \in Spare' THEN Cardinality(Spare') ELSE Cardinality(Spare') + 1
      BY <1>2, FS_AddElement
    <3>2. IsFiniteSet(Spare' \union {i})
      BY <1>2, FS_AddElement
    <3> QED BY <1>2, <3>1, <3>2
  <2>2. Cardinality(Spare) =< Cardinality(Spare' \union {i})
    BY <1>5, <2>1, FS_Subset
  <2> QED BY <1>2, <2>1, <2>2, FS_CardinalityType
<1> QED BY <1>1, <1>2, <1>3, <1>4, <1>5

LEMMA PromisedIsNat ==
    ASSUME freeSem \in Nat, freeSem' \in Nat
    PROVE  Promised \in Nat /\ Promised' \in Nat
<1>1. \A P, Q, R \in BOOLEAN, n \in Nat :
          n + (IF P THEN 1 ELSE 0) + (IF Q THEN 1 ELSE 0) + (IF R THEN 1 ELSE 0) \in Nat
  OBVIOUS
<1>2. Promised \in Nat
  BY <1>1 DEF Promised
<1>3. Promised' \in Nat
  BY <1>1 DEF Promised
<1> QED BY <1>2, <1>3

LEMMA UnitsStep ==
    ASSUME TypeOK, Places, OnePresenter, HaveImages, Owned, Units, ~Shared, TypeOK', [Next]_vars
    PROVE  ~Shared' /\ NoImagePromisedTwice'
<1> DEFINE Kept == ~Shared' /\ NoImagePromisedTwice'
           Fewer == UNCHANGED <<presentMode, status, retired, error>> /\ Promised' =< Promised
                    /\ (Dead' <=> Dead)
<1>a. Promised \in Nat /\ Promised' \in Nat
  BY PromisedIsNat DEF TypeOK
<1>b. ~error /\ ~Dead => Promised =< Cardinality(Spare)
  BY DEF Units, NoImagePromisedTwice, Dead
<1>c. ASSUME UNCHANGED presentMode, error => error', Dead => Dead',
             Promised' =< Promised, Spare \subseteq Spare'
      PROVE  Kept
  BY <1>a, <1>b, <1>c, SpareCounts DEF NoImagePromisedTwice, Dead, Shared
<1>d. ASSUME UNCHANGED presentMode, error => error', Dead => Dead', Promised' =< Promised + 1,
             NEW i \in Images, i \in Spare', i \notin Spare, Spare \subseteq Spare'
      PROVE  Kept
  <2>1. Cardinality(Spare') >= Cardinality(Spare) + 1
    BY <1>d, SpareCounts
  <2> QED BY <1>a, <1>b, <1>d, <2>1, SpareCounts DEF NoImagePromisedTwice, Dead, Shared
<1>e. ASSUME UNCHANGED presentMode, error => error', Dead => Dead', Promised' =< Promised - 1,
             NEW i \in Images, Spare \subseteq Spare' \union {i}
      PROVE  Kept
  <2>1. Cardinality(Spare') >= Cardinality(Spare) - 1
    BY <1>e, SpareCounts
  <2> QED BY <1>a, <1>b, <1>e, <2>1, SpareCounts DEF NoImagePromisedTwice, Dead, Shared
<1>z. ASSUME Fewer PROVE Kept
  <2>1. Spare' = Spare
    BY <1>z DEF Spare, Usable
  <2> QED BY <1>c, <1>z, <2>1
<1> USE DEF Promised, Shared
<1> USE DEF TypeOK, Threads, imageVars, queueVars, presentVars, lockVars, lifeVars, threadVars, callVars,
            Goto, Return, EndAcquire, EndPresent
<1>0. CASE UNCHANGED vars
  <2>1. Fewer
    <3>1. Promised' = Promised
      BY <1>0 DEF vars
    <3> HIDE DEF Promised
    <3> QED BY <1>0, <1>a, <3>1 DEF vars, Dead
  <2> QED BY <1>z, <2>1
<1>1. ASSUME NEW tm \in Timeouts, Acquire(tm) PROVE Fewer
  BY <1>1 DEF Acquire, Dead
<1>2. ASSUME NEW i \in Images, QueuePresent(i) PROVE Fewer
  BY <1>2 DEF QueuePresent, Dead
<1>3. ASSUME NEW i \in Images, GpuFinishes(i) PROVE Fewer
  BY <1>3 DEF GpuFinishes, Dead
<1>4. ASSUME NEW S \in SUBSET Images, ReleaseImages(S) PROVE Fewer
  BY <1>4 DEF ReleaseImages, Dead
<1>5. ASSUME Deprecate PROVE Kept
  <2>1. Spare \subseteq Spare' /\ Promised' =< Promised /\ UNCHANGED <<presentMode, error>> /\ ~Dead
    BY <1>5 DEF Deprecate, Spare, Usable, Dead
  <2> HIDE DEF Promised
  <2> QED BY <1>c, <2>1
<1>6. ASSUME Destroy("teardown") PROVE Fewer
  BY <1>6 DEF Destroy, Dead
<1>7. ASSUME NEW t \in {"app", "heir"}, TakeUnit(t) PROVE Fewer
  BY <1>7 DEF TakeUnit, WaitReturns, DrainedLabel, Dead
<1>8. ASSUME NEW t \in {"app", "heir"}, AskBackend(t) PROVE Fewer
  BY <1>8 DEF AskBackend, Dead
<1>9. ASSUME NEW t \in {"app", "heir"}, WaitFails(t) PROVE Fewer
  <2>1. CASE t = "app"
    BY <1>9, <2>1 DEF WaitFails, WaitReturns, DrainedLabel, Dead
  <2>2. CASE t = "heir"
    <3>1. left["heir"] # 0
      BY <1>9, <2>2 DEF WaitFails, Places, Waiting
    <3> QED BY <1>9, <2>2, <3>1 DEF WaitFails, WaitReturns, DrainedLabel, Dead
  <2> QED BY <1>9, <2>1, <2>2
<1>10. ASSUME NEW t \in Threads, DefaultGetFreeBuffer(t) PROVE Fewer
  BY <1>10 DEF DefaultGetFreeBuffer, Dead
<1>11. ASSUME NEW t \in {"app", "flip"}, PresentImage(t) PROVE Kept
  <2>1. image[t] \in Images /\ status[image[t]] = "PENDING"
    BY <1>11, NoImageIsNone DEF PresentImage, HaveImages, Presenting, Inline, Showing, Owned, FlipShows, AppShows,
       FlipImage, AppImage, OnePresenter, Dead
  <2>2. PICK i \in Images : status[i] = "PENDING" /\ status' = [status EXCEPT ![i] = "FREE"]
    BY <1>11, <2>1 DEF PresentImage, ReleaseStatus
  <2>3. i \in Spare' /\ i \notin Spare /\ Spare \subseteq Spare'
    BY <1>11, <2>2 DEF PresentImage, Spare, Usable
  <2>4. Promised' =< Promised + 1 /\ UNCHANGED <<presentMode, error>> /\ (Dead => Dead')
    BY <1>11 DEF PresentImage, Dead
  <2> HIDE DEF Promised
  <2> QED BY <1>d, <2>3, <2>4
<1>12. ASSUME NEW t \in {"app", "flip"}, PresentPosts(t) PROVE Fewer
  BY <1>12 DEF PresentPosts, PresentReturns, PostFree, Dead
<1>13. ASSUME NEW t \in {"app", "flip"}, CallPresent(t) PROVE Fewer
  BY <1>13 DEF CallPresent, Dead
<1>14. ASSUME NEW t \in {"app", "flip"}, AncestorDrained(t) PROVE Fewer
  BY <1>14 DEF AncestorDrained, Dead
<1>15. ASSUME CheckError PROVE Fewer
  BY <1>15 DEF CheckError, Dead
<1>16. ASSUME SelectImage PROVE Kept
  <2>1. PICK k \in Images : status' = [status EXCEPT ![RoundRobin(k)] = "ACQUIRED"]
    BY <1>16 DEF SelectImage
  <2>2. PICK i \in Images : status' = [status EXCEPT ![i] = "ACQUIRED"]
    BY <2>1, RoundRobinStays
  <2>3. Spare \subseteq Spare' \union {i}
    BY <1>16, <2>2 DEF SelectImage, Spare, Usable
  <2>4. Promised' =< Promised - 1 /\ UNCHANGED <<presentMode, error>> /\ ~Dead
    BY <1>16 DEF SelectImage, Dead
  <2> HIDE DEF Promised
  <2> QED BY <1>e, <2>3, <2>4
<1>17. ASSUME SelectFails PROVE Kept
  <2>1. PICK k \in Images, s \in {"UNALLOCATED", "INVALID"} : status' = [status EXCEPT ![RoundRobin(k)] = s]
    BY <1>17 DEF SelectFails
  <2>2. PICK i \in Images : status' = [status EXCEPT ![i] = s]
    BY <2>1, RoundRobinStays
  <2>3. Spare \subseteq Spare' \union {i}
    BY <1>17, <2>2 DEF SelectFails, Spare, Usable
  <2>4. Promised' =< Promised - 1 /\ UNCHANGED <<presentMode, error>> /\ ~Dead
    BY <1>17 DEF SelectFails, Dead
  <2> HIDE DEF Promised
  <2> QED BY <1>e, <2>3, <2>4
<1>18. ASSUME SignalAcquired PROVE Fewer
  BY <1>18 DEF SignalAcquired, Dead
<1>19. ASSUME SyncBeforePresent PROVE Fewer
  BY <1>19 DEF SyncBeforePresent, Dead
<1>20. ASSUME SubmitPayload PROVE Fewer
  BY <1>20 DEF SubmitPayload, Dead
<1>21. ASSUME NotifyOutOfDate PROVE Kept
  <2>1. PICK i \in held : i = image["app"] /\ status[i] = "ACQUIRED"
    BY <1>21 DEF NotifyOutOfDate, HaveImages, Owned, HeldAcquired, Dead
  <2>2. i \in Images /\ i \in Spare' /\ i \notin Spare /\ Spare \subseteq Spare'
    BY <1>21, <2>1 DEF NotifyOutOfDate, Spare, Usable
  <2>3. Promised' =< Promised + 1 /\ UNCHANGED <<presentMode, error>> /\ ~Dead
    BY <1>21 DEF NotifyOutOfDate, Dead
  <2> HIDE DEF Promised
  <2> QED BY <1>d, <2>2, <2>3
<1>22. ASSUME NotifyThread PROVE Kept
  <2>1. image["app"] \in held /\ status[image["app"]] = "ACQUIRED"
    BY <1>22 DEF NotifyThread, HaveImages, Owned, HeldAcquired, Dead
  <2>2. Spare' = Spare
    BY <1>22, <2>1 DEF NotifyThread, Spare, Usable
  <2>3. Promised' =< Promised /\ UNCHANGED <<presentMode, error>> /\ ~Dead
    BY <1>22 DEF NotifyThread, Dead
  <2> HIDE DEF Promised
  <2> QED BY <1>c, <2>2, <2>3
<1>23. ASSUME NotifyInline PROVE Kept
  <2>1. image["app"] \in held /\ status[image["app"]] = "ACQUIRED"
    BY <1>23 DEF NotifyInline, HaveImages, Owned, HeldAcquired, Dead
  <2>2. Spare' = Spare
    BY <1>23, <2>1 DEF NotifyInline, Spare, Usable
  <2>3. Promised' =< Promised /\ UNCHANGED <<presentMode, error>> /\ ~Dead
    BY <1>23 DEF NotifyInline, Dead
  <2> HIDE DEF Promised
  <2> QED BY <1>c, <2>2, <2>3
<1>24. ASSUME ReleaseOne PROVE Kept
  <2>1. PICK i \in todo : status' = [status EXCEPT ![i] = "FREE"]
    BY <1>24 DEF ReleaseOne, ReleaseStatus
  <2>2. status[i] = "ACQUIRED"
    BY <1>24 DEF ReleaseOne, Places, Owned, ReturningAcquired, Returning, Dead
  <2>3. i \in Images /\ i \in Spare' /\ i \notin Spare /\ Spare \subseteq Spare'
    BY <1>24, <2>1, <2>2 DEF ReleaseOne, Spare, Usable
  <2>4. Promised' =< Promised + 1 /\ UNCHANGED <<presentMode, error>> /\ ~Dead
    BY <1>24 DEF ReleaseOne, Dead
  <2> HIDE DEF Promised
  <2> QED BY <1>d, <2>3, <2>4
<1>25. ASSUME ReleasePosts PROVE Fewer
  BY <1>25 DEF ReleasePosts, PostFree, Dead
<1>26. ASSUME DeprecateImage PROVE Kept
  <2>1. retired
    BY <1>26 DEF DeprecateImage, Places
  <2>2. Spare \subseteq Spare'
    BY <1>26, <2>1 DEF DeprecateImage, Spare, Usable
  <2>3. Promised' =< Promised /\ UNCHANGED <<presentMode, error>> /\ ~Dead
    BY <1>26 DEF DeprecateImage, Dead
  <2> HIDE DEF Promised
  <2> QED BY <1>c, <2>2, <2>3
<1>27. ASSUME SetDescendant PROVE Fewer
  BY <1>27 DEF SetDescendant, Dead
<1>28. ASSUME Teardown PROVE Fewer
  BY <1>28 DEF Teardown, Dead
<1>29. ASSUME AwaitHeir PROVE Fewer
  BY <1>29 DEF AwaitHeir, Dead
<1>30. ASSUME StopFlipThread PROVE Fewer
  BY <1>30 DEF StopFlipThread, Dead
<1>31. ASSUME DestroyImages PROVE Kept
  BY <1>31 DEF DestroyImages, NoImagePromisedTwice
<1>32. ASSUME DrainForTeardown PROVE Fewer
  BY <1>32 DEF DrainForTeardown, StartDrain, DrainedLabel, Dead
<1>33. ASSUME HeirDrains PROVE Fewer
  BY <1>33 DEF HeirDrains, StartDrain, DrainedLabel, Dead
<1>34. ASSUME FlipTakesUnit PROVE Fewer
  BY <1>34 DEF FlipTakesUnit, Dead
<1>35. ASSUME FlipRefreshes PROVE Fewer
  BY <1>35 DEF FlipRefreshes, Dead
<1>36. ASSUME FlipExits PROVE Fewer
  BY <1>36 DEF FlipExits, Dead
<1>37. ASSUME FlipPops PROVE Fewer
  BY <1>37 DEF FlipPops, Dead
<1>38. ASSUME FlipFence PROVE Kept
  <2>1. Spare' = Spare /\ Promised' =< Promised /\ UNCHANGED presentMode /\ (error => error') /\ (Dead => Dead')
    BY <1>38 DEF FlipFence, Spare, Usable, Dead
  <2> HIDE DEF Promised
  <2> QED BY <1>c, <2>1
<1>39. ASSUME FlipAbandons PROVE Kept
  <2>1. error' /\ UNCHANGED presentMode
    BY <1>39 DEF FlipAbandons, OnePresenter
  <2> QED BY <2>1 DEF NoImagePromisedTwice
<1>40. ASSUME HeirPresents PROVE Fewer
  BY <1>40 DEF HeirPresents, Dead
<1>41. ASSUME DescendantNotifies PROVE Fewer
  BY <1>41 DEF DescendantNotifies, Dead
<1>42. ASSUME DescendantDestroyed PROVE Fewer
  BY <1>42 DEF DescendantDestroyed, Dead
<1>43. ASSUME AncestorDestroyed PROVE Fewer
  BY <1>43 DEF AncestorDestroyed, Dead
<1> QED
  BY <1>0, <1>1, <1>2, <1>3, <1>4, <1>5, <1>6, <1>7, <1>8, <1>9, <1>10, <1>11, <1>12,
     <1>13, <1>14, <1>15, <1>16, <1>17, <1>18, <1>19, <1>20, <1>21, <1>22, <1>23, <1>24,
     <1>25, <1>26, <1>27, <1>28, <1>29, <1>30, <1>31, <1>32, <1>33, <1>34, <1>35, <1>36,
     <1>37, <1>38, <1>39, <1>40, <1>41, <1>42, <1>43, <1>z, Steps

(* A unit taken without an error is an image; nobody takes it meanwhile.   *)
LEMMA AcquireStep ==
    ASSUME TypeOK, Places, OnePresenter, HaveImages, Units, AcquireFindsImage, [Next]_vars
    PROVE  AcquireFindsImage'
<1> USE DEF AcquireFindsImage, Usable
<1> USE DEF TypeOK, Threads, imageVars, queueVars, presentVars, lockVars, lifeVars, threadVars, callVars,
            Goto, Return, EndAcquire, EndPresent
<1>0. CASE UNCHANGED vars
  BY <1>0 DEF vars
<1>1. ASSUME NEW tm \in Timeouts, Acquire(tm) PROVE AcquireFindsImage'
  BY <1>1 DEF Acquire
<1>2. ASSUME NEW i \in Images, QueuePresent(i) PROVE AcquireFindsImage'
  BY <1>2 DEF QueuePresent
<1>3. ASSUME NEW i \in Images, GpuFinishes(i) PROVE AcquireFindsImage'
  BY <1>3 DEF GpuFinishes
<1>4. ASSUME NEW S \in SUBSET Images, ReleaseImages(S) PROVE AcquireFindsImage'
  BY <1>4 DEF ReleaseImages
<1>5. ASSUME Deprecate PROVE AcquireFindsImage'
  BY <1>5 DEF Deprecate
<1>6. ASSUME Destroy("teardown") PROVE AcquireFindsImage'
  BY <1>6 DEF Destroy
<1>7. ASSUME NEW t \in {"app", "heir"}, TakeUnit(t) PROVE AcquireFindsImage'
  BY <1>7 DEF TakeUnit, WaitReturns, DrainedLabel
<1>8. ASSUME NEW t \in {"app", "heir"}, AskBackend(t) PROVE AcquireFindsImage'
  BY <1>8 DEF AskBackend
<1>9. ASSUME NEW t \in {"app", "heir"}, WaitFails(t) PROVE AcquireFindsImage'
  <2>1. CASE t = "app"
    BY <1>9, <2>1 DEF WaitFails, WaitReturns, DrainedLabel
  <2>2. CASE t = "heir"
    <3>1. left["heir"] # 0
      BY <1>9, <2>2 DEF WaitFails, Places, Waiting
    <3> QED BY <1>9, <2>2, <3>1 DEF WaitFails, WaitReturns, DrainedLabel
  <2> QED BY <1>9, <2>1, <2>2
<1>10. ASSUME NEW t \in Threads, DefaultGetFreeBuffer(t) PROVE AcquireFindsImage'
  BY <1>10 DEF DefaultGetFreeBuffer
<1>11. ASSUME NEW t \in {"app", "flip"}, PresentImage(t) PROVE AcquireFindsImage'
  <2>1. CASE Shared
    BY <1>11, <2>1 DEF PresentImage, Units, SharedUnits, Fresh
  <2>2. CASE ~Shared
    BY <1>11, <2>2 DEF PresentImage, ReleaseStatus
  <2> QED BY <2>1, <2>2
<1>12. ASSUME NEW t \in {"app", "flip"}, PresentPosts(t) PROVE AcquireFindsImage'
  BY <1>12 DEF PresentPosts, PresentReturns
<1>13. ASSUME NEW t \in {"app", "flip"}, CallPresent(t) PROVE AcquireFindsImage'
  BY <1>13 DEF CallPresent
<1>14. ASSUME NEW t \in {"app", "flip"}, AncestorDrained(t) PROVE AcquireFindsImage'
  BY <1>14 DEF AncestorDrained
<1>15. ASSUME CheckError PROVE AcquireFindsImage'
  <2>1. CASE error
    BY <1>15, <2>1 DEF CheckError
  <2>2. CASE ~error
    <3>1. pc["app"] = "check" /\ ~retired /\ ~Dead /\ status' = status
      BY <1>15, <2>2 DEF CheckError, Places, Dead
    <3>2. Promised \in Nat /\ Promised # 0
      BY <3>1 DEF Promised
    <3>3. CASE Shared
      BY <2>2, <3>1, <3>2, <3>3 DEF Units, SharedUnits
    <3>4. CASE ~Shared
      <4>1. Promised =< Cardinality(Spare)
        BY <2>2, <3>1, <3>4 DEF Units, NoImagePromisedTwice, Dead
      <4>2. Spare # {}
        <5>1. Spare = {} => Cardinality(Spare) = 0
          BY FS_EmptySet
        <5> QED BY <3>2, <4>1, <5>1
      <4> QED BY <3>1, <4>2 DEF Spare
    <3> QED BY <3>3, <3>4
  <2> QED BY <2>1, <2>2
<1>16. ASSUME SelectImage PROVE AcquireFindsImage'
  BY <1>16 DEF SelectImage
<1>17. ASSUME SelectFails PROVE AcquireFindsImage'
  BY <1>17 DEF SelectFails
<1>18. ASSUME SignalAcquired PROVE AcquireFindsImage'
  BY <1>18 DEF SignalAcquired
<1>19. ASSUME SyncBeforePresent PROVE AcquireFindsImage'
  BY <1>19 DEF SyncBeforePresent
<1>20. ASSUME SubmitPayload PROVE AcquireFindsImage'
  BY <1>20 DEF SubmitPayload
<1>21. ASSUME NotifyOutOfDate PROVE AcquireFindsImage'
  BY <1>21 DEF NotifyOutOfDate
<1>22. ASSUME NotifyThread PROVE AcquireFindsImage'
  BY <1>22 DEF NotifyThread, GivenAway
<1>23. ASSUME NotifyInline PROVE AcquireFindsImage'
  BY <1>23 DEF NotifyInline, GivenAway
<1>24. ASSUME ReleaseOne PROVE AcquireFindsImage'
  BY <1>24 DEF ReleaseOne, ReleaseStatus
<1>25. ASSUME ReleasePosts PROVE AcquireFindsImage'
  BY <1>25 DEF ReleasePosts
<1>26. ASSUME DeprecateImage PROVE AcquireFindsImage'
  BY <1>26 DEF DeprecateImage
<1>27. ASSUME SetDescendant PROVE AcquireFindsImage'
  BY <1>27 DEF SetDescendant
<1>28. ASSUME Teardown PROVE AcquireFindsImage'
  BY <1>28 DEF Teardown
<1>29. ASSUME AwaitHeir PROVE AcquireFindsImage'
  BY <1>29 DEF AwaitHeir
<1>30. ASSUME StopFlipThread PROVE AcquireFindsImage'
  BY <1>30 DEF StopFlipThread
<1>31. ASSUME DestroyImages PROVE AcquireFindsImage'
  BY <1>31 DEF DestroyImages
<1>32. ASSUME DrainForTeardown PROVE AcquireFindsImage'
  BY <1>32 DEF DrainForTeardown, StartDrain, DrainedLabel
<1>33. ASSUME HeirDrains PROVE AcquireFindsImage'
  BY <1>33 DEF HeirDrains, StartDrain, DrainedLabel
<1>34. ASSUME FlipTakesUnit PROVE AcquireFindsImage'
  BY <1>34 DEF FlipTakesUnit
<1>35. ASSUME FlipRefreshes PROVE AcquireFindsImage'
  BY <1>35 DEF FlipRefreshes
<1>36. ASSUME FlipExits PROVE AcquireFindsImage'
  BY <1>36 DEF FlipExits
<1>37. ASSUME FlipPops PROVE AcquireFindsImage'
  BY <1>37 DEF FlipPops
<1>38. ASSUME FlipFence PROVE AcquireFindsImage'
  BY <1>38 DEF FlipFence
<1>39. ASSUME FlipAbandons PROVE AcquireFindsImage'
  BY <1>39 DEF FlipAbandons
<1>40. ASSUME HeirPresents PROVE AcquireFindsImage'
  BY <1>40 DEF HeirPresents
<1>41. ASSUME DescendantNotifies PROVE AcquireFindsImage'
  BY <1>41 DEF DescendantNotifies
<1>42. ASSUME DescendantDestroyed PROVE AcquireFindsImage'
  BY <1>42 DEF DescendantDestroyed
<1>43. ASSUME AncestorDestroyed PROVE AcquireFindsImage'
  BY <1>43 DEF AncestorDestroyed
<1> QED
  BY <1>0, <1>1, <1>2, <1>3, <1>4, <1>5, <1>6, <1>7, <1>8, <1>9, <1>10, <1>11, <1>12,
     <1>13, <1>14, <1>15, <1>16, <1>17, <1>18, <1>19, <1>20, <1>21, <1>22, <1>23, <1>24,
     <1>25, <1>26, <1>27, <1>28, <1>29, <1>30, <1>31, <1>32, <1>33, <1>34, <1>35, <1>36,
     <1>37, <1>38, <1>39, <1>40, <1>41, <1>42, <1>43, Steps

-----------------------------------------------------------------------------
LEMMA InitInv == Init => Inv
<1> SUFFICES ASSUME Init
             PROVE  Inv
  OBVIOUS
<1> USE DEF Init, Threads
<1>1. /\ ImageCount \in 1 .. NumImages /\ 0 \in Images /\ NumImages \in Nat
      /\ status[0] \in {"FREE", "UNALLOCATED"} /\ status \in [Images -> Statuses]
  <2>1. NumImages \in Nat \ {0} /\ ImageCount \in 1 .. NumImages
    BY SwapchainAssumption DEF ImageCount
  <2> QED BY <2>1, SwapchainAssumption DEF Images, Statuses
<1>2. TypeOK
  <2>1. threadRun \in BOOLEAN /\ presentMode \in AllModes /\ ancestor \in BOOLEAN
    BY SwapchainAssumption DEF UseThread
  <2>2. ImageCount \in Nat /\ NoImage \in Images \union {NoImage} /\ pool \in Seq(Images) /\ DOMAIN pc = Threads
    BY <1>1
  <2>3. /\ image \in [Threads -> Images \union {NoImage}] /\ timeout \in [Threads -> Timeouts]
        /\ left \in [Threads -> Nat] /\ payload \in [Images -> BOOLEAN]
        /\ failures \in [count : Nat, acquire : BOOLEAN]
    BY DEF Timeouts
  <2>4. /\ task \in Tasks /\ result \in Results /\ held \subseteq Images /\ todo \subseteq Images
        /\ acquireLock \in Threads \union {"none"} /\ statusLock \in Threads \union {"none"}
        /\ descendant \in {"none", "created", "presenting"}
    BY DEF Tasks, Results
  <2>5. /\ freeSem \in Nat /\ flipSem \in Nat /\ startSem \in Nat /\ heirSem \in Nat /\ hint \in Images
        /\ error \in BOOLEAN /\ firstPresent \in BOOLEAN /\ started \in BOOLEAN /\ retired \in BOOLEAN
    BY <1>1, <2>2
  <2> QED BY <1>1, <2>1, <2>2, <2>3, <2>4, <2>5 DEF TypeOK
<1>3. Places
  BY DEF Places, AppPlaces, FlipPlaces, HeirPlaces, Waiting
<1>4. OnePresenter /\ HaveImages
  BY DEF OnePresenter, HaveImages, Inline, Presenting, Showing, Continuous, UseThread
<1>5. Owned
  BY DEF Owned, PoolPends, PoolDiffers, FlipShows, AppShows, AcquiringHas, HeldAcquired, ReturningAcquired,
         FlipImage, AppImage, Acquiring, Returning, Showing
<1>6. FlipQueueMatches /\ AcquireFindsImage
  BY DEF FlipQueueMatches, PoolHasRoom, AcquireFindsImage
<1>7. Promised = ImageCount
  BY <1>1 DEF Promised
<1>8. SharedUnits
  BY <1>1, <1>7 DEF SharedUnits, Fresh, Presenting, Inline, ImageCount, Usable
<1>9. ~Shared => NoImagePromisedTwice
  <2>1. ~Shared => Spare = Images
    BY SwapchainAssumption DEF Spare, Usable, ImageCount, Images
  <2> QED BY <1>1, <1>7, <2>1, ImagesFinite DEF NoImagePromisedTwice, ImageCount
<1> QED BY <1>2, <1>3, <1>4, <1>5, <1>6, <1>8, <1>9 DEF Inv, Units

LEMMA Inductive == Inv /\ [Next]_vars => Inv'
<1> SUFFICES ASSUME Inv, [Next]_vars
             PROVE  Inv'
  OBVIOUS
<1> USE DEF Inv
<1>1. TypeOK'
  BY TypeStep
<1>2. Places'
  BY PlacesStep
<1>3. OnePresenter'
  BY OnePresenterStep
<1>4. HaveImages'
  BY HaveImagesStep
<1>5. Owned'
  BY <1>1, OwnedStep
<1>6. FlipQueueMatches'
  <2>1. ~Shared' => PoolHasRoom'
    BY <1>1, <1>2, <1>4, <1>5, RoomInPool, PTL
  <2> QED BY <2>1, FlipQueueStep
<1>7. Units'
  <2>1. Shared' <=> Shared
    BY ModeStays DEF Shared
  <2> QED BY <1>1, <2>1, SharedUnitsStep, UnitsStep DEF Units, SharedUnits
<1>8. AcquireFindsImage'
  BY AcquireStep
<1> QED BY <1>1, <1>2, <1>3, <1>4, <1>5, <1>6, <1>7, <1>8

LEMMA Invariant == Spec => []Inv
BY InitInv, Inductive, PTL DEF Spec

-----------------------------------------------------------------------------
(* The contract, in terms of the view. *)
QueueOf == IF FlipImage # NoImage THEN <<FlipImage>> \o pool
           ELSE IF AppImage # NoImage THEN <<AppImage>> ELSE pool
QueuedIn == {pool[k] : k \in 1 .. Len(pool)} \union ({FlipImage, AppImage} \ {NoImage})
QueueIs == IF Shared \/ Dead THEN <<>> ELSE QueueOf
OwnerIs(i) == IF Dead THEN "nobody"
              ELSE IF ~Shared /\ i \in QueuedIn THEN "queue"
              ELSE IF i \in held \union Returning THEN "app"
              ELSE IF Usable(i) \/ i = Acquiring THEN "engine"
              ELSE "nobody"

LEMMA Mapping ==
    Inv => /\ Owner = [i \in Images |-> OwnerIs(i)]
           /\ (IF Shared \/ pc["app"] = "dead" THEN <<>> ELSE PresentQueue) = QueueIs
<1> SUFFICES ASSUME Inv
             PROVE  /\ \A i \in Images : (IF pc["app"] = "dead" THEN "nobody" ELSE OwnerOf(i)) = OwnerIs(i)
                    /\ (IF Shared \/ pc["app"] = "dead" THEN <<>> ELSE PresentQueue) = QueueIs
  BY DEF Owner
<1>1. ~Shared => PresentQueue = QueueOf /\ Queued = QueuedIn
  BY QueueParts DEF Inv, QueueOf, QueuedIn
<1>2. \A i \in Images : i = Acquiring <=> pc["app"] = "signal" /\ i = image["app"]
  BY NoImageIsNone DEF Acquiring
<1>3. \A i : i \in Returning <=> task = "release" /\ i \in todo
  BY DEF Returning
<1>4. ASSUME NEW i \in Images
      PROVE  (IF pc["app"] = "dead" THEN "nobody" ELSE OwnerOf(i)) = OwnerIs(i)
  <2>1. /\ ~Shared /\ i \in Queued <=> ~Shared /\ i \in QueuedIn
        /\ i \in held \/ (task = "release" /\ i \in todo) <=> i \in held \union Returning
        /\ status[i] \in {"FREE", "UNALLOCATED"} \/ (pc["app"] = "signal" /\ i = image["app"])
              <=> Usable(i) \/ i = Acquiring
    BY <1>1, <1>2, <1>3 DEF Usable
  <2> HIDE DEF Queued, QueuedIn, Shared
  <2>2. CASE ~Shared /\ i \in Queued
    BY <2>1, <2>2 DEF OwnerOf, Unqueued, OwnerIs, Dead
  <2>3. CASE ~(~Shared /\ i \in Queued) /\ i \in held \union Returning
    BY <2>1, <2>3 DEF OwnerOf, Unqueued, OwnerIs, Dead
  <2>4. CASE ~(~Shared /\ i \in Queued) /\ ~(i \in held \union Returning)
    BY <2>1, <2>4 DEF OwnerOf, Unqueued, OwnerIs, Dead
  <2> QED BY <2>2, <2>3, <2>4
<1> QED BY <1>1, <1>4 DEF QueueIs, Dead

Moved(i, x, y) == OwnerIs(i) = x /\ \A j \in Images : OwnerIs(j)' = IF j = i THEN y ELSE OwnerIs(j)
Simulated ==
    \/ QueueIs' = QueueIs /\ \A i \in Images : OwnerIs(i)' = OwnerIs(i)
    \/ /\ QueueIs' = QueueIs
       /\ \E i \in Images : Moved(i, "engine", "app") \/ Moved(i, "app", "engine") \/ Moved(i, "engine", "nobody")
    \/ \E i \in Images : Moved(i, "app", "queue") /\ QueueIs' = Append(QueueIs, i)
    \/ /\ QueueIs # <<>> /\ QueueIs' = Tail(QueueIs)
       /\ Moved(Head(QueueIs), "queue", "engine") \/ Moved(Head(QueueIs), "queue", "nobody")
    \/ QueueIs' = <<>> /\ \A i \in Images : OwnerIs(i)' = "nobody"

LEMMA SimulatedIsAllowed ==
    ASSUME Inv, Inv', Simulated
    PROVE  [Contract!Next]_(Contract!vars)
<1> DEFINE queueOf == IF Shared \/ pc["app"] = "dead" THEN <<>> ELSE PresentQueue
<1>1. Owner = [i \in Images |-> OwnerIs(i)] /\ queueOf = QueueIs
  BY Mapping
<1>2. Owner' = [i \in Images |-> OwnerIs(i)'] /\ queueOf' = QueueIs'
  <2>1. (Owner = [i \in Images |-> OwnerIs(i)] /\ queueOf = QueueIs)'
    BY Mapping, PTL
  <2> QED BY <2>1
<1>3. \A x, y : \A i \in Images : Moved(i, x, y) => Owner[i] = x /\ Owner' = [Owner EXCEPT ![i] = y]
  BY <1>1, <1>2 DEF Moved
<1> USE DEF Contract!Next, Contract!vars, Contract!Give, Contract!Enqueue, Contract!GiveBack, Contract!Lose,
            Contract!Show, Contract!Drop, Contract!End
<1>4. CASE QueueIs' = QueueIs /\ \A i \in Images : OwnerIs(i)' = OwnerIs(i)
  <2>1. Owner' = Owner
    BY <1>1, <1>2, <1>4
  <2> QED BY <1>1, <1>2, <1>4, <2>1
<1>5. ASSUME QueueIs' = QueueIs, NEW i \in Images,
             Moved(i, "engine", "app") \/ Moved(i, "app", "engine") \/ Moved(i, "engine", "nobody")
      PROVE  Contract!Next
  BY <1>1, <1>2, <1>3, <1>5
<1>6. ASSUME NEW i \in Images, Moved(i, "app", "queue"), QueueIs' = Append(QueueIs, i)
      PROVE  Contract!Next
  <2>1. Owner[i] = "app" /\ Owner' = [Owner EXCEPT ![i] = "queue"]
    BY <1>3, <1>6
  <2>2. queueOf' = Append(queueOf, i)
    BY <1>1, <1>2, <1>6
  <2> HIDE DEF Moved
  <2> QED BY <2>1, <2>2, <1>1
<1>7. ASSUME QueueIs # <<>>, QueueIs' = Tail(QueueIs),
             Moved(Head(QueueIs), "queue", "engine") \/ Moved(Head(QueueIs), "queue", "nobody")
      PROVE  Contract!Next
  <2>1. \A i, x, y : Moved(i, x, y) => Owner' = [Owner EXCEPT ![i] = y]
    BY <1>1, <1>2 DEF Moved
  <2>2. \/ Owner' = [Owner EXCEPT ![Head(QueueIs)] = "engine"]
        \/ Owner' = [Owner EXCEPT ![Head(QueueIs)] = "nobody"]
    BY <1>7, <2>1
  <2>3. queueOf # <<>> /\ queueOf' = Tail(queueOf)
    BY <1>1, <1>2, <1>7
  <2> HIDE DEF Moved
  <2> QED BY <1>1, <2>2, <2>3
<1>8. CASE QueueIs' = <<>> /\ \A i \in Images : OwnerIs(i)' = "nobody"
  <2>1. Owner' = [i \in Images |-> "nobody"]
    BY <1>2, <1>8
  <2> QED BY <1>2, <1>8, <2>1
<1> QED
  BY <1>4, <1>5, <1>6, <1>7, <1>8 DEF Simulated


(* What each loud step does to the view of an image. *)
Sets(i, x) == status' = [status EXCEPT ![i] = x]
Selects(i) == /\ Usable(i) /\ Sets(i, "ACQUIRED") /\ Acquiring = NoImage /\ Acquiring' = i
              /\ UNCHANGED <<pool, held, FlipImage, AppImage, Returning, Dead>>
Spoils(i) == /\ Usable(i) /\ (Sets(i, "INVALID") \/ Sets(i, "UNALLOCATED"))
             /\ UNCHANGED <<pool, held, FlipImage, AppImage, Acquiring, Returning, Dead>>
Hands(i) == /\ Acquiring = i /\ Acquiring' = NoImage /\ Returning = {} /\ held' \in {held, held \union {i}}
            /\ UNCHANGED <<status, pool, FlipImage, AppImage, Returning, Dead>>
Refuses(i) == /\ i \in held /\ Returning = {} /\ Sets(i, "FREE") /\ held' = held \ {i}
              /\ UNCHANGED <<pool, FlipImage, AppImage, Acquiring, Returning, Dead>>
Queues(i) == /\ i \in held /\ Returning = {} /\ Sets(i, "PENDING")
             /\ held' = IF Shared THEN held ELSE held \ {i}
             /\ AppImage = NoImage
             /\ UNCHANGED <<Acquiring, Returning, Dead>>
             /\ ~Shared => \/ pool' = Append(pool, i) /\ UNCHANGED <<FlipImage, AppImage>>
                           \/ pool = <<>> /\ FlipImage = NoImage /\ AppImage' = i /\ UNCHANGED <<FlipImage, pool>>
Pops == /\ FlipImage = NoImage /\ AppImage = NoImage
        /\ ~Shared => pool # <<>> /\ FlipImage' = Head(pool) /\ pool' = Tail(pool)
        /\ UNCHANGED <<status, held, AppImage, Acquiring, Returning, Dead>>
Fails == /\ ~Shared => FlipImage # NoImage /\ FlipImage' = NoImage
         /\ UNCHANGED <<status, pool, held, AppImage, Acquiring, Returning, Dead>>
Shows(i) == /\ ~Shared => \/ FlipImage = i /\ FlipImage' = NoImage /\ AppImage = NoImage /\ AppImage' = NoImage
                          \/ AppImage = i /\ AppImage' = NoImage /\ FlipImage' = NoImage
            /\ Sets(i, IF Shared THEN "ACQUIRED" ELSE "FREE")
            /\ UNCHANGED <<pool, held, Acquiring, Returning, Dead>>
Takes(S) == /\ S \subseteq held /\ held' = held \ S /\ Returning = {} /\ Returning' = S
            /\ UNCHANGED <<status, pool, FlipImage, AppImage, Acquiring, Dead>>
Frees(i) == /\ i \in Returning /\ Returning' = Returning \ {i} /\ Sets(i, "FREE")
            /\ UNCHANGED <<pool, held, FlipImage, AppImage, Acquiring, Dead>>
Withdraws(i) == /\ Sets(i, IF status[i] = "FREE" THEN "INVALID" ELSE status[i])
               /\ UNCHANGED <<pool, held, FlipImage, AppImage, Acquiring, Returning, Dead>>

LEMMA Effects ==
    ASSUME Inv, LoudStep
    PROVE  /\ ~Dead
           /\ \/ view' = view
              \/ \E i \in Images : \/ Selects(i) \/ Spoils(i) \/ Hands(i) \/ Refuses(i) \/ Queues(i) \/ Shows(i)
                                   \/ Frees(i) \/ Withdraws(i)
              \/ Pops \/ Fails \/ Dead'
              \/ \E S \in SUBSET Images : Takes(S) /\ ~Shared
<1> DEFINE Goal == /\ ~Dead
           /\ \/ view' = view
              \/ \E i \in Images : \/ Selects(i) \/ Spoils(i) \/ Hands(i) \/ Refuses(i) \/ Queues(i) \/ Shows(i)
                                   \/ Frees(i) \/ Withdraws(i)
              \/ Pops \/ Fails \/ Dead'
              \/ \E S \in SUBSET Images : Takes(S) /\ ~Shared
<1> USE DEF FlipImage, AppImage, Acquiring, Returning, Dead, Sets, Inv, TypeOK, Threads, Shared, Showing,
            imageVars, queueVars, presentVars, lockVars, lifeVars, threadVars, callVars,
            Goto, Return, EndAcquire, EndPresent
<1>1. CASE SelectImage
  <2>1. PICK k \in Images : /\ Usable(RoundRobin(k))
                            /\ status' = [status EXCEPT ![RoundRobin(k)] = "ACQUIRED"]
                            /\ image' = [image EXCEPT !["app"] = RoundRobin(k)]
    BY <1>1 DEF SelectImage
  <2>2. PICK i \in Images : /\ Usable(i) /\ status' = [status EXCEPT ![i] = "ACQUIRED"]
                            /\ image' = [image EXCEPT !["app"] = i]
    BY <2>1, RoundRobinStays
  <2>3. Selects(i) /\ ~Dead
    BY <1>1, <2>2 DEF SelectImage, Selects
  <2> QED BY <2>3
<1>2. CASE SelectFails
  <2>1. PICK k \in Images, s \in {"UNALLOCATED", "INVALID"} :
            status[RoundRobin(k)] = "UNALLOCATED" /\ status' = [status EXCEPT ![RoundRobin(k)] = s]
    BY <1>2 DEF SelectFails
  <2>2. PICK i \in Images : status[i] = "UNALLOCATED" /\ status' = [status EXCEPT ![i] = s]
    BY <2>1, RoundRobinStays
  <2>3. task = "acquire"
    BY <1>2 DEF SelectFails, Places
  <2>4. Spoils(i) /\ ~Dead
    BY <1>2, <2>2, <2>3 DEF SelectFails, Spoils, Usable
  <2> QED BY <2>4
<1>3. CASE SignalAcquired
  <2>1. image["app"] \in Images /\ task = "acquire"
    BY <1>3 DEF SignalAcquired, HaveImages, Places
  <2>2. Hands(image["app"]) /\ ~Dead
    BY <1>3, <2>1 DEF SignalAcquired, Hands
  <2> QED BY <2>1, <2>2
<1>4. CASE NotifyOutOfDate
  <2>1. image["app"] \in held /\ task # "release"
    BY <1>4 DEF NotifyOutOfDate, HaveImages, Places
  <2>2. Refuses(image["app"]) /\ ~Dead
    BY <1>4, <2>1 DEF NotifyOutOfDate, Refuses
  <2> QED BY <2>1, <2>2
<1>5. CASE NotifyThread
  <2>1. image["app"] \in held /\ task # "release" /\ (~Shared => pool' = Append(pool, image["app"]))
    BY <1>5 DEF NotifyThread, HaveImages, Places, FlipQueueMatches, PoolHasRoom
  <2>2. Queues(image["app"]) /\ ~Dead
    BY <1>5, <2>1 DEF NotifyThread, Queues, GivenAway
  <2> QED BY <2>1, <2>2
<1>6. CASE NotifyInline
  <2>1. image["app"] \in held /\ task # "release" /\ pool = <<>> /\ pc["flip"] = "exited"
    BY <1>6 DEF NotifyInline, HaveImages, Places, OnePresenter
  <2>2. Queues(image["app"]) /\ ~Dead
    BY <1>6, <2>1 DEF NotifyInline, Queues, GivenAway
  <2> QED BY <2>1, <2>2
<1>7. CASE FlipPops
  <2>1. ~(pc["app"] \in Showing) /\ ~Dead
    BY <1>7 DEF FlipPops, OnePresenter, Inline, Places, AppPlaces
  <2>2. Pops
    BY <1>7, <2>1 DEF FlipPops, Pops
  <2> QED BY <2>1, <2>2
<1>8. CASE FlipFence
  <2>1. ~Dead /\ image["flip"] # NoImage
    BY <1>8 DEF FlipFence, OnePresenter, HaveImages
  <2>2. CASE pc'["flip"] = "call"
    BY <1>8, <2>1, <2>2 DEF FlipFence, view
  <2>3. CASE pc'["flip"] = "abandon"
    BY <1>8, <2>1, <2>3 DEF FlipFence, Fails
  <2> QED BY <1>8, <2>2, <2>3 DEF FlipFence
<1>9. ASSUME NEW t \in {"app", "flip"}, PresentImage(t) PROVE Goal
  <2>1. image[t] \in Images /\ ~Dead
    BY <1>9 DEF PresentImage, HaveImages, Presenting, Inline, OnePresenter
  <2>2. CASE t = "app"
    <3>1. pc["flip"] = "exited"
      BY <1>9, <2>2 DEF PresentImage, OnePresenter, Inline
    <3>2. Shows(image["app"])
      BY <1>9, <2>2, <3>1 DEF PresentImage, ReleaseStatus, Shows
    <3> QED BY <2>1, <2>2, <3>2
  <2>3. CASE t = "flip"
    <3>1. ~(pc["app"] \in Showing)
      BY <1>9, <2>3 DEF PresentImage, OnePresenter, Inline, Places, AppPlaces
    <3>2. Shows(image["flip"])
      BY <1>9, <2>3, <3>1 DEF PresentImage, ReleaseStatus, Shows
    <3> QED BY <2>1, <2>3, <3>2
  <2> QED BY <1>9, <2>2, <2>3
<1>10. ASSUME NEW S \in SUBSET Images, ReleaseImages(S) PROVE Goal
  <2>1. Takes(S) /\ ~Dead /\ ~Shared
    BY <1>10 DEF ReleaseImages, Takes, Places
  <2> QED BY <2>1
<1>11. CASE ReleaseOne
  <2>1. PICK i \in todo : status' = [status EXCEPT ![i] = "FREE"] /\ todo' = todo \ {i}
    BY <1>11 DEF ReleaseOne, ReleaseStatus, Places
  <2>2. Frees(i) /\ ~Dead
    BY <1>11, <2>1 DEF ReleaseOne, Frees, Places
  <2> QED BY <2>1, <2>2
<1>12. CASE DeprecateImage
  <2>1. PICK i \in todo : status' = [status EXCEPT ![i] = IF status[i] = "FREE" THEN "INVALID" ELSE status[i]]
    BY <1>12 DEF DeprecateImage
  <2>2. Withdraws(i) /\ ~Dead
    BY <1>12, <2>1 DEF DeprecateImage, Withdraws, Places
  <2> QED BY <2>1, <2>2
<1>13. CASE DestroyImages
  BY <1>13 DEF DestroyImages
<1> QED
  BY <1>1, <1>2, <1>3, <1>4, <1>5, <1>6, <1>7, <1>8, <1>9, <1>10, <1>11, <1>12, <1>13 DEF LoudStep

LEMMA SharedSimulation ==
    ASSUME Inv, [Next]_vars, LoudStep, Shared, view' # view, ~Dead'
    PROVE  Simulated
<1> DEFINE AtMost(i) == /\ \A j \in Images : j # i => OwnerIs(j)' = OwnerIs(j)
                        /\ \/ OwnerIs(i)' = OwnerIs(i)
                           \/ OwnerIs(i) = "engine" /\ OwnerIs(i)' = "app"
                           \/ OwnerIs(i) = "app" /\ OwnerIs(i)' = "engine"
                           \/ OwnerIs(i) = "engine" /\ OwnerIs(i)' = "nobody"
<1>1. QueueIs = <<>> /\ QueueIs' = <<>> /\ Shared'
  BY ModeStays DEF Inv, QueueIs, Shared
<1>2. ASSUME NEW i \in Images, AtMost(i) PROVE Simulated
  BY <1>1, <1>2 DEF Simulated, Moved
<1>3. status \in [Images -> Statuses] /\ held \subseteq Images
  BY DEF Inv, TypeOK
<1> USE <1>1, <1>3 DEF OwnerIs, Usable, Sets
<1>4. ASSUME NEW i \in Images, Selects(i) PROVE AtMost(i)
  BY <1>4, NoImageIsNone DEF Selects
<1>5. ASSUME NEW i \in Images, Spoils(i) PROVE AtMost(i)
  BY <1>5 DEF Spoils
<1>6. ASSUME NEW i \in Images, Hands(i) PROVE AtMost(i)
  BY <1>6, NoImageIsNone DEF Hands
<1>7. ASSUME NEW i \in Images, Refuses(i) PROVE AtMost(i)
  BY <1>7 DEF Refuses
<1>8. ASSUME NEW i \in Images, Queues(i) PROVE AtMost(i)
  BY <1>8 DEF Queues
<1>9. ASSUME NEW i \in Images, Shows(i) PROVE AtMost(i)
  BY <1>9 DEF Shows
<1>10. ASSUME NEW i \in Images, Withdraws(i) PROVE AtMost(i)
  BY <1>10 DEF Withdraws
<1>11. ASSUME NEW i \in Images, Frees(i) PROVE FALSE
  BY <1>11 DEF Frees, Inv, Places, Returning
<1>12. ASSUME Pops \/ Fails PROVE AtMost(0)
  BY <1>12 DEF Pops, Fails
<1> HIDE DEF AtMost
<1> QED
  BY <1>2, <1>4, <1>5, <1>6, <1>7, <1>8, <1>9, <1>10, <1>11, <1>12, Effects, ImagesFinite

LEMMA QueuedSimulation ==
    ASSUME Inv, Inv', [Next]_vars, LoudStep, ~Shared, view' # view, ~Dead'
    PROVE  Simulated
<1>1. ~Shared' /\ ~Dead
  BY ModeStays, Effects DEF Inv, Shared
<1>2. PoolPends /\ PoolDiffers /\ FlipShows /\ AppShows /\ AcquiringHas /\ HeldAcquired /\ ReturningAcquired
  BY <1>1 DEF Inv, Owned
<1>3. /\ status \in [Images -> Statuses] /\ held \subseteq Images /\ pool \in Seq(Images)
      /\ FlipImage \in Images \union {NoImage} /\ AppImage \in Images \union {NoImage}
      /\ AppImage # NoImage => FlipImage = NoImage /\ pool = <<>>
  BY QueueParts DEF Inv, TypeOK
<1>4. \A i \in QueuedIn : i \in Images /\ status[i] = "PENDING" /\ i \notin held /\ i \notin Returning /\ i # Acquiring
  BY <1>2, <1>3, NoImageIsNone DEF QueuedIn, PoolPends, FlipShows, AppShows, AcquiringHas, HeldAcquired, ReturningAcquired
<1>5. QueueIs = QueueOf /\ QueueIs' = QueueOf'
  BY <1>1 DEF QueueIs
<1>6. /\ \A i \in Images : OwnerIs(i) = IF i \in QueuedIn THEN "queue"
                                      ELSE IF i \in held \union Returning THEN "app"
                                      ELSE IF Usable(i) \/ i = Acquiring THEN "engine" ELSE "nobody"
      /\ \A i \in Images : OwnerIs(i)' = IF i \in QueuedIn' THEN "queue"
                                       ELSE IF i \in held' \union Returning' THEN "app"
                                       ELSE IF Usable(i)' \/ i = Acquiring' THEN "engine" ELSE "nobody"
  BY <1>1 DEF OwnerIs
<1>7. ASSUME UNCHANGED <<pool, FlipImage, AppImage>> PROVE UNCHANGED <<QueueIs, QueuedIn>>
  BY <1>5, <1>7 DEF QueueOf, QueuedIn
<1>8. \A i \in Images : Acquiring # NoImage => status[Acquiring] = "ACQUIRED" /\ Acquiring \notin held
  BY <1>2 DEF AcquiringHas
<1>9. /\ \A i \in held : status[i] = "ACQUIRED"
      /\ \A i \in Returning : status[i] = "ACQUIRED" /\ i \notin held
  BY <1>2 DEF HeldAcquired, ReturningAcquired
<1>10. ASSUME NEW i \in Images, Selects(i) PROVE Simulated
  <2>1. \A j \in Images : OwnerIs(j)' = OwnerIs(j)
    BY <1>3, <1>4, <1>6, <1>7, <1>9, <1>10, NoImageIsNone DEF Selects, Sets, Usable
  <2> QED BY <1>7, <1>10, <2>1 DEF Selects, Simulated
<1>11. ASSUME NEW i \in Images, Spoils(i) PROVE Simulated
  <2>1. OwnerIs(i) = "engine"
    BY <1>4, <1>6, <1>9, <1>11 DEF Spoils, Usable
  <2>2. \A j \in Images : j # i => OwnerIs(j)' = OwnerIs(j)
    BY <1>3, <1>6, <1>7, <1>11 DEF Spoils, Sets, Usable
  <2>3. OwnerIs(i)' \in {"engine", "nobody"}
    BY <1>3, <1>4, <1>6, <1>7, <1>9, <1>11 DEF Spoils, Sets, Usable
  <2> QED BY <1>7, <1>11, <2>1, <2>2, <2>3 DEF Spoils, Simulated, Moved
<1>12. ASSUME NEW i \in Images, Hands(i) PROVE Simulated
  <2>1. OwnerIs(i) = "engine" /\ ~Usable(i)
    BY <1>4, <1>6, <1>8, <1>12, NoImageIsNone DEF Hands, Usable
  <2>2. \A j \in Images : j # i => OwnerIs(j)' = OwnerIs(j)
    BY <1>6, <1>7, <1>12, NoImageIsNone DEF Hands, Usable
  <2>3. OwnerIs(i)' \in {"app", "nobody"}
    BY <1>4, <1>6, <1>7, <1>12, <2>1, NoImageIsNone DEF Hands, Usable
  <2> QED BY <1>7, <1>12, <2>1, <2>2, <2>3 DEF Hands, Simulated, Moved
<1>13. ASSUME NEW i \in Images, Refuses(i) PROVE Simulated
  <2>1. i \notin QueuedIn /\ OwnerIs(i) = "app"
    BY <1>4, <1>6, <1>13 DEF Refuses
  <2>2. \A j \in Images : j # i => OwnerIs(j)' = OwnerIs(j)
    BY <1>3, <1>6, <1>7, <1>13 DEF Refuses, Sets, Usable
  <2>3. OwnerIs(i)' = "engine"
    BY <1>3, <1>6, <1>7, <1>13, <2>1 DEF Refuses, Sets, Usable
  <2> QED BY <1>7, <1>13, <2>1, <2>2, <2>3 DEF Refuses, Simulated, Moved
<1>14. ASSUME NEW i \in Images, Queues(i) PROVE Simulated
  <2>1. i \notin QueuedIn /\ OwnerIs(i) = "app"
    BY <1>4, <1>6, <1>14 DEF Queues
  <2>2. QueueIs' = Append(QueueIs, i) /\ QueuedIn' = QueuedIn \union {i}
    <3>1. CASE pool' = Append(pool, i) /\ UNCHANGED <<FlipImage, AppImage>>
      <4>1. {pool'[k] : k \in 1 .. Len(pool')} = {pool[k] : k \in 1 .. Len(pool)} \union {i}
        BY <1>3, <3>1
      <4>2. FlipImage # NoImage => <<FlipImage>> \o Append(pool, i) = Append(<<FlipImage>> \o pool, i)
        BY <1>3
      <4> QED BY <1>5, <1>14, <3>1, <4>1, <4>2 DEF Queues, QueueOf, QueuedIn
    <3>2. CASE pool = <<>> /\ FlipImage = NoImage /\ AppImage' = i /\ UNCHANGED <<FlipImage, pool>>
      BY <1>5, <1>14, <3>2, NoImageIsNone DEF Queues, QueueOf, QueuedIn
    <3> QED BY <1>1, <1>14, <3>1, <3>2 DEF Queues
  <2>3. \A j \in Images : j # i => OwnerIs(j)' = OwnerIs(j)
    BY <1>1, <1>3, <1>6, <1>14, <2>2 DEF Queues, Sets, Usable
  <2>4. OwnerIs(i)' = "queue"
    BY <1>6, <2>2
  <2> QED BY <2>1, <2>2, <2>3, <2>4 DEF Simulated, Moved
<1>15. ASSUME NEW i \in Images, FlipImage = i \/ AppImage = i, FlipImage' = NoImage, AppImage' = NoImage, UNCHANGED pool
       PROVE  QueueIs # <<>> /\ Head(QueueIs) = i /\ QueueIs' = Tail(QueueIs) /\ QueuedIn' = QueuedIn \ {i}
  <2>1. CASE FlipImage = i
    <3>1. QueueIs = <<i>> \o pool /\ AppImage = NoImage /\ QueueIs' = pool
      BY <1>3, <1>5, <1>15, <2>1, NoImageIsNone DEF QueueOf
    <3>2. <<i>> \o pool # <<>> /\ Head(<<i>> \o pool) = i /\ Tail(<<i>> \o pool) = pool
      BY <1>3
    <3>3. \A k \in 1 .. Len(pool) : pool[k] # i
      BY <1>2, <2>1, NoImageIsNone DEF FlipShows
    <3> QED BY <1>15, <2>1, <3>1, <3>2, <3>3 DEF QueuedIn
  <2>2. CASE AppImage = i
    <3>1. QueueIs = <<i>> /\ FlipImage = NoImage /\ QueueIs' = <<>> /\ pool = <<>>
      BY <1>3, <1>5, <1>15, <2>2, NoImageIsNone DEF QueueOf
    <3> QED BY <1>15, <2>2, <3>1 DEF QueuedIn
  <2> QED BY <1>15, <2>1, <2>2
<1>16. ASSUME NEW i \in Images, Shows(i) PROVE Simulated
  <2>1. QueueIs # <<>> /\ Head(QueueIs) = i /\ QueueIs' = Tail(QueueIs) /\ QueuedIn' = QueuedIn \ {i} /\ i \in QueuedIn
    BY <1>3, <1>15, <1>16, NoImageIsNone DEF Shows, QueuedIn
  <2>2. \A j \in Images : j # i => OwnerIs(j)' = OwnerIs(j)
    BY <1>3, <1>6, <1>16, <2>1 DEF Shows, Sets, Usable
  <2>3. OwnerIs(i) = "queue" /\ OwnerIs(i)' = "engine"
    BY <1>3, <1>4, <1>6, <1>16, <2>1 DEF Shows, Sets, Usable
  <2> QED BY <2>1, <2>2, <2>3 DEF Simulated, Moved
<1>17. ASSUME NEW i \in Images, Frees(i) PROVE Simulated
  <2>1. i \notin QueuedIn /\ i \notin held /\ OwnerIs(i) = "app"
    BY <1>4, <1>6, <1>9, <1>17 DEF Frees
  <2>2. \A j \in Images : j # i => OwnerIs(j)' = OwnerIs(j)
    BY <1>3, <1>6, <1>7, <1>17 DEF Frees, Sets, Usable
  <2>3. OwnerIs(i)' = "engine"
    BY <1>3, <1>6, <1>7, <1>17, <2>1 DEF Frees, Sets, Usable
  <2> QED BY <1>7, <1>17, <2>1, <2>2, <2>3 DEF Frees, Simulated, Moved
<1>18. ASSUME NEW i \in Images, Withdraws(i) PROVE Simulated
  <2>1. \A j \in Images : j # i => OwnerIs(j)' = OwnerIs(j)
    BY <1>3, <1>6, <1>7, <1>18 DEF Withdraws, Sets, Usable
  <2>2. CASE status[i] = "FREE"
    <3>1. OwnerIs(i) = "engine" /\ OwnerIs(i)' = "nobody"
      BY <1>3, <1>4, <1>6, <1>7, <1>8, <1>9, <1>18, <2>2, NoImageIsNone DEF Withdraws, Sets, Usable
    <3> QED BY <1>7, <1>18, <2>1, <3>1 DEF Withdraws, Simulated, Moved
  <2>3. CASE status[i] # "FREE"
    <3>1. OwnerIs(i)' = OwnerIs(i)
      BY <1>3, <1>6, <1>7, <1>18, <2>3 DEF Withdraws, Sets, Usable
    <3> QED BY <1>7, <1>18, <2>1, <3>1 DEF Withdraws, Simulated
  <2> QED BY <2>2, <2>3
<1>19. CASE Pops
  <2>1. QueueIs' = QueueIs /\ QueuedIn' = QueuedIn
    <3>1. /\ pool # <<>> /\ Head(pool) \in Images /\ FlipImage' = Head(pool) /\ pool' = Tail(pool)
          /\ FlipImage = NoImage /\ AppImage = NoImage /\ AppImage' = NoImage
      BY <1>1, <1>3, <1>19 DEF Pops
    <3>2. <<Head(pool)>> \o Tail(pool) = pool
      BY <1>3, <3>1
    <3>3. {pool[k] : k \in 1 .. Len(pool)} = {Tail(pool)[k] : k \in 1 .. Len(Tail(pool))} \union {Head(pool)}
      <4>1. /\ Len(pool) \in Nat /\ Len(pool) >= 1 /\ Len(Tail(pool)) = Len(pool) - 1 /\ Head(pool) = pool[1]
            /\ \A k \in 1 .. Len(pool) - 1 : Tail(pool)[k] = pool[k + 1]
        BY <1>3, <3>1
      <4>2. ASSUME NEW k \in 1 .. Len(pool)
            PROVE  pool[k] \in {Tail(pool)[j] : j \in 1 .. Len(Tail(pool))} \union {Head(pool)}
        <5>1. k = 1 \/ (k - 1 \in 1 .. Len(pool) - 1 /\ Tail(pool)[k - 1] = pool[k])
          BY <4>1
        <5> QED BY <4>1, <5>1
      <4>3. ASSUME NEW k \in 1 .. Len(Tail(pool))
            PROVE  Tail(pool)[k] \in {pool[j] : j \in 1 .. Len(pool)}
        <5>1. k + 1 \in 1 .. Len(pool)
          BY <4>1
        <5> QED BY <4>1, <5>1
      <4>4. Head(pool) \in {pool[j] : j \in 1 .. Len(pool)}
        BY <4>1
      <4> QED BY <4>2, <4>3, <4>4
    <3> QED BY <1>5, <3>1, <3>2, <3>3, NoImageIsNone DEF QueueOf, QueuedIn
  <2>2. \A j \in Images : OwnerIs(j)' = OwnerIs(j)
    BY <1>6, <1>19, <2>1 DEF Pops, Usable
  <2> QED BY <2>1, <2>2 DEF Simulated
<1>20. CASE Fails
  <2>1. PICK i \in Images : i = FlipImage
    BY <1>1, <1>3, <1>20 DEF Fails
  <2>2. QueueIs # <<>> /\ Head(QueueIs) = i /\ QueueIs' = Tail(QueueIs) /\ QueuedIn' = QueuedIn \ {i} /\ i \in QueuedIn
    BY <1>1, <1>3, <1>15, <1>20, <2>1, NoImageIsNone DEF Fails, QueuedIn
  <2>3. \A j \in Images : j # i => OwnerIs(j)' = OwnerIs(j)
    BY <1>6, <1>20, <2>2 DEF Fails, Usable
  <2>4. OwnerIs(i) = "queue" /\ OwnerIs(i)' = "nobody"
    BY <1>4, <1>6, <1>20, <2>2 DEF Fails, Usable
  <2> QED BY <2>2, <2>3, <2>4 DEF Simulated, Moved
<1>21. ASSUME NEW S \in SUBSET Images, Takes(S) PROVE Simulated
  <2>1. \A j \in Images : OwnerIs(j)' = OwnerIs(j)
    BY <1>6, <1>7, <1>21 DEF Takes, Usable
  <2> QED BY <1>7, <1>21, <2>1 DEF Takes, Simulated
<1> QED
  BY <1>10, <1>11, <1>12, <1>13, <1>14, <1>16, <1>17, <1>18, <1>19, <1>20, <1>21, Effects

LEMMA Simulation ==
    ASSUME Inv, Inv', [Next]_vars
    PROVE  Simulated
<1> USE DEF Inv
<1>1. CASE view' = view
  <2>1. UNCHANGED <<presentMode, status, pool, held, FlipImage, AppImage, Acquiring, Returning, Dead>>
    BY <1>1 DEF view
  <2> QED BY <2>1 DEF Simulated, QueueIs, QueueOf, OwnerIs, QueuedIn, Usable, Shared
<1>2. CASE Dead'
  BY <1>2 DEF Simulated, QueueIs, OwnerIs
<1>3. CASE LoudStep /\ Shared /\ view' # view /\ ~Dead'
  BY <1>3, SharedSimulation
<1>4. CASE LoudStep /\ ~Shared /\ view' # view /\ ~Dead'
  BY <1>4, QueuedSimulation
<1> QED BY <1>1, <1>2, <1>3, <1>4, QuietSteps

-----------------------------------------------------------------------------
(* No value of the state is ever outside its type.                         *)
THEOREM TypeCorrect == Spec => []TypeOK
BY Invariant, PTL DEF Inv

(* The assertion of acquire_next_image(): a call that was given a unit of  *)
(* the free image semaphore finds an image to hand out.                    *)
THEOREM AcquireFinds == Spec => []AcquireFindsImage
BY Invariant, PTL DEF Inv

(* The page flip queue never overflows and its semaphore counts it.        *)
THEOREM QueueMatches == Spec => []FlipQueueMatches
BY Invariant, PTL DEF Inv

(* Without an error, units never outnumber the images to spare.            *)
THEOREM NoneTwice == Spec => []NoImagePromisedTwice
<1>1. Inv => NoImagePromisedTwice
  <2> SUFFICES ASSUME Inv, Shared, ~error, ~retired, ~Dead
               PROVE  Promised =< Cardinality(Spare)
    BY DEF Inv, Units, NoImagePromisedTwice, Dead
  <2>1. Spare \subseteq Images /\ Cardinality(Spare) \in Nat
    BY CountOfImages DEF Spare
  <2>2. Spare # {} => Cardinality(Spare) # 0
    BY <2>1, CountOfImages, FS_EmptySet
  <2>3. Promised = 0 \/ (Promised = 1 /\ Spare # {})
    BY DEF Inv, Units, SharedUnits, Spare
  <2> QED BY <2>1, <2>2, <2>3
<1> QED BY <1>1, Invariant, PTL

(* What is queued or shown is PENDING, queued once and not the             *)
(* application's; what the application holds is ACQUIRED.                  *)
THEOREM OwnersDiffer == Spec => []OneOwner
<1>1. Inv => OneOwner
  <2> SUFFICES ASSUME Inv, ~Shared, ~Dead
               PROVE  /\ \A i \in Queued : status[i] = "PENDING" /\ i \notin held
                      /\ \A j, k \in 1 .. Len(PresentQueue) : j # k => PresentQueue[j] # PresentQueue[k]
                      /\ \A i \in held : status[i] = "ACQUIRED"
    BY DEF OneOwner, Dead
  <2> USE DEF Inv, Owned, PoolPends, PoolDiffers, FlipShows, AppShows, HeldAcquired
  <2>1. \A i \in Queued : status[i] = "PENDING"
    BY QueueParts
  <2>2. \A i \in held : status[i] = "ACQUIRED"
    OBVIOUS
  <2>3. ASSUME NEW j \in 1 .. Len(PresentQueue), NEW k \in 1 .. Len(PresentQueue), j # k
        PROVE  PresentQueue[j] # PresentQueue[k]
    <3>1. CASE FlipImage # NoImage
      <4>1. /\ Len(PresentQueue) = Len(pool) + 1 /\ PresentQueue[1] = FlipImage
            /\ \A n \in 2 .. Len(pool) + 1 : PresentQueue[n] = pool[n - 1]
        BY <3>1, QueueParts DEF TypeOK
      <4>2. \A n \in 1 .. Len(PresentQueue) : n = 1 \/ (n \in 2 .. Len(pool) + 1 /\ n - 1 \in 1 .. Len(pool))
        BY <4>1 DEF TypeOK
      <4>3. \A n \in 1 .. Len(PresentQueue) : n # 1 => PresentQueue[n] # FlipImage
        BY <3>1, <4>1, <4>2
      <4>4. ASSUME j # 1, k # 1 PROVE PresentQueue[j] # PresentQueue[k]
        <5>1. j - 1 \in 1 .. Len(pool) /\ k - 1 \in 1 .. Len(pool) /\ j - 1 # k - 1
          BY <2>3, <4>2, <4>4
        <5>2. pool[j - 1] # pool[k - 1]
          BY <5>1
        <5> QED BY <4>1, <4>2, <4>4, <5>2
      <4> QED BY <2>3, <4>1, <4>3, <4>4
    <3>2. CASE FlipImage = NoImage
      BY <2>3, <3>2, QueueParts DEF TypeOK
    <3> QED BY <3>1, <3>2
  <2> QED BY <2>1, <2>2, <2>3
<1> QED BY <1>1, Invariant, PTL

(* The detailed swapchain implements the contract with the application:    *)
(* images are shown in the order they were queued and change hands only as *)
(* PresentationContract says.                                              *)
THEOREM ContractKept == Spec => KeepsContract
<1>1. Init => Contract!Init
  <2> SUFFICES ASSUME Init
               PROVE  Contract!Init
    OBVIOUS
  <2>1. /\ Owner = [i \in Images |-> OwnerIs(i)]
        /\ (IF Shared \/ pc["app"] = "dead" THEN <<>> ELSE PresentQueue) = QueueIs
    BY InitInv, Mapping
  <2>2. pool = <<>> /\ held = {} /\ Returning = {} /\ FlipImage = NoImage /\ AppImage = NoImage
    BY DEF Init, Returning, FlipImage, AppImage, Showing, Threads
  <2>3. QueueIs = <<>> /\ \A i \in Images : OwnerIs(i) \in {"engine", "nobody"}
    BY <2>2 DEF QueueIs, QueueOf, OwnerIs, QueuedIn
  <2> QED BY <2>1, <2>3 DEF Contract!Init
<1>2. ASSUME Inv, Inv', [Next]_vars PROVE [Contract!Next]_(Contract!vars)
  BY <1>2, Simulation, SimulatedIsAllowed
<1> QED BY <1>1, <1>2, Invariant, PTL DEF Spec, KeepsContract, Contract!Spec
=============================================================================
