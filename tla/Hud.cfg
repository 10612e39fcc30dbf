CONSTANTS
    s1 = s1
    s2 = s2
    Swapchains = {s1, s2}
    Area <- EqualAreas
    MaxSamples = 1
    WeakOrder = TRUE
    Images = {1}
    FlipThread = {s1}
    QueueOf <- OneQueue
SPECIFICATION HudSpec
CHECK_DEADLOCK FALSE
INVARIANTS
    OverlayReadsLiveData
    VerticesAreStill
    SnapshotIsCurrent
    NothingIsLeaked
