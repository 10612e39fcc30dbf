SPECIFICATION QueueSpec
CONSTANTS
    Threads = {t1, t2, t3}
    InitCount = 0
    MaxCount = 3
    N = 3
    Items = {a, b}
    None = None
INVARIANTS
    NoLostWakeup
    RequestIsThere
PROPERTIES
    ImplementsSemaphore
    ImplementsFifo
CHECK_DEADLOCK FALSE
