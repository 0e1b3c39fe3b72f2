SPECIFICATION Spec
CONSTANTS
    PublishMayFail = TRUE
    MaxTakes = 2
    MaxBoots = 2
    MaxPending = 1
INVARIANTS
    CaptureIsOwned
    FaultIsOwn
PROPERTIES
    ClosingEnds
\* the operator may have quit
CHECK_DEADLOCK FALSE
