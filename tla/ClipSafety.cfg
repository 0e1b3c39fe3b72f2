SPECIFICATION Spec
CONSTANTS
    f1 = f1
    f2 = f2
    c1 = c1
    c2 = c2
    w1 = w1
    w2 = w2
    Drain = Drain
    None = None
    Files = {f1}
    Contents = {c1}
    ContentOf <- MCDistinct
    MkvFiles = {}
    GrowingFiles = {f1}
    LargeFiles = {f1}
    DeferPreview = TRUE
    Workers = {w1, w2}
    MaxSoft = 1
    MaxBooking = 2
    MaxDrain = 1
    MayExpire = TRUE
    FlagStale = TRUE
    MaxCrashes = 1
    MaxFaults = 1
    MaxOutages = 1
    MaxRetryCmds = 1
SYMMETRY WorkerSymmetry
INVARIANTS
    UniqueRow
    SingleFlight
    DeferredHasRetry
    PendingIsHandled
    NoneIsStranded
PROPERTIES
    ImplementsLedger
\* the pipeline may come to rest: no recording left to arrive
CHECK_DEADLOCK FALSE
