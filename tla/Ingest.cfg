SPECIFICATION Spec
CONSTANTS
    Recordings = {"r1"}
    MaxSize = 2
    MaxSig = 2
    MaxTouches = 1
    MaxFaults = 1
    MaxLives = 2
INVARIANTS
    StraysAreAccounted
    NoReplayTwice
PROPERTIES
    EveryRecordingLeaves
    EveryReplayArrives
\* all may have been ingested
CHECK_DEADLOCK FALSE
