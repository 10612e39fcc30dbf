SPECIFICATION FairSpec
CONSTANTS
    NumImages = 2
    PresentModes = {"FIFO", "SHARED_DEMAND", "SHARED_CONTINUOUS"}
    ThreadModes = {"FIFO", "MAILBOX", "SHARED_CONTINUOUS"}
    Deferred = TRUE
    HasAncestor = TRUE
    Retires = TRUE
    SurfaceMin = 1
    PoolCapacity = 2
    Failures = {"fence", "submit", "import", "memory"}
    MaxFailures = 1
    MaxFlips = 3
INVARIANTS
    AcquireFindsImage
PROPERTIES
    KeepsContract
    QueuedIsShown
    AcquireReturns
    ContinuousRefreshes
CHECK_DEADLOCK FALSE
