SPECIFICATION Spec
CONSTANTS
    f1 = f1
    f2 = f2
    c1 = c1
    c2 = c2
    w1 = w1
    w2 = w2
    Drain = Drain
    None = None
    Files = {f1}
    Contents = {c1}
    ContentOf <- MCDistinct
    MkvFiles = {f1}
    GrowingFiles = {}
    LargeFiles = {}
    DeferPreview = FALSE
    Workers = {w1, w2}
    MaxSoft = 1
    MaxBooking = 1
    MaxDrain = 0
    MayExpire = FALSE
    FlagStale = FALSE
    MaxCrashes = 1
    MaxFaults = 1
    MaxOutages = 0
    MaxRetryCmds = 0
SYMMETRY WorkerSymmetry
INVARIANTS
    NeverLost
    CompletedIsPublished
    ToldInOrder
\* the pipeline may come to rest: no recording left to arrive
CHECK_DEADLOCK FALSE
