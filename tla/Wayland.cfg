SPECIFICATION WaylandFairSpec
CONSTANTS
    NumImages = 2
    PresentModes = {"FIFO", "MAILBOX"}
    ThreadModes = {"FIFO", "SHARED_DEMAND", "SHARED_CONTINUOUS"}
    Deferred = FALSE
    HasAncestor = FALSE
    Retires = FALSE
    SurfaceMin = 2
    PoolCapacity = 2
    Failures = {"present", "connection", "export"}
    MaxFailures = 1
    MaxFlips = 9
    ExplicitSync = {FALSE, TRUE}
INVARIANTS
    BufferIsTheirs
    GoesOutFinished
PROPERTIES
    WaylandCallsReturn
CHECK_DEADLOCK FALSE
