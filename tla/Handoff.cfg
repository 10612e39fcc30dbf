SPECIFICATION FairSpec
CONSTANTS
    K = 2
    NumImages = 3
    Concurrent = FALSE
    MaxFailures = 1
INVARIANTS
    NobodyUsesTheDead
    OldIsShownFirst
PROPERTIES
    DestroyEnds
CHECK_DEADLOCK FALSE
