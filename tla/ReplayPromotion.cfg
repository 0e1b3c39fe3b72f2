SPECIFICATION FairSpec
CONSTANTS
    Clients = {a, b}
    Sync = Sync
    Nobody = Nobody
    AutoSync = TRUE
    Tolerance = 1
    MaxSaves = 2
    MaxMishaps = 1
INVARIANTS
    NoReplayLost
    PromotedOnce
PROPERTIES
    ScoreboardFirst
    RequestsEnd
    EveryReplayArrives
\* all replays are promoted and nobody presses the button again
CHECK_DEADLOCK FALSE
