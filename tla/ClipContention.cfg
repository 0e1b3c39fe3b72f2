SPECIFICATION FairSpec
CONSTANTS
    f1 = f1
    f2 = f2
    c1 = c1
    c2 = c2
    w1 = w1
    w2 = w2
    Drain = Drain
    None = None
    Files = {f1, f2}
    Contents = {c1, c2}
    ContentOf <- MCDistinct
    MkvFiles = {}
    GrowingFiles = {}
    LargeFiles = {f1, f2}
    DeferPreview = FALSE
    Workers = {w1}
    MaxSoft = 2
    MaxBooking = 2
    MaxDrain = 0
    MayExpire = FALSE
    FlagStale = FALSE
    MaxCrashes = 0
    MaxFaults = 0
    MaxOutages = 1
    MaxRetryCmds = 0
PROPERTIES
    EventuallySettled
\* the pipeline may come to rest: no recording left to arrive
CHECK_DEADLOCK FALSE
