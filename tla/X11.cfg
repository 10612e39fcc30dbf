SPECIFICATION X11FairSpec
CONSTANTS
    NumImages = 2
    PresentModes = {"FIFO", "MAILBOX"}
    ThreadModes = {"FIFO", "SHARED_DEMAND", "SHARED_CONTINUOUS"}
    Deferred = FALSE
    HasAncestor = FALSE
    Retires = FALSE
    SurfaceMin = 2
    PoolCapacity = 2
    Failures = {"present", "connection"}
    MaxFailures = 1
    MaxFlips = 9
    BridgeFailures = {"connect", "send", "receive"}
    Paths = {"DRI3", "SHM", "BRIDGE"}
    AllowNonFifo = FALSE
    ShmFences = {TRUE, FALSE}
    ReservedFree = 1
    MaxPending = 1
    MaxUnread = 2
INVARIANTS
    ServerOwnsWhatItReads
    UnitsAreImages
PROPERTIES
    X11CallsReturn
CHECK_DEADLOCK FALSE
