\* Three images (the bridge takes them all); any step of a creation or of an acquire may fail.
CONSTANTS
    MaxImages = 3
    Displays <- AllDisplays
SPECIFICATION CreationFairSpec
INVARIANTS UnitsHaveImages NothingElseIsLost UsersGoFirst
PROPERTY CallsReturn
\* A call that is stuck is what CallsReturn reports.
CHECK_DEADLOCK FALSE
