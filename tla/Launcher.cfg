SPECIFICATION Spec
CONSTANTS
    Launchers = {"l1"}
    Faulty = {"scoreboard"}
    Intents <- MCIntents
    MaxRestarts = 1
    MaxProcs = 2
    MaxEvents = 2
PROPERTIES
    OperatorStopHolds
    KeptAlive
    IntentsAreServed
\* every launcher may have ended
CHECK_DEADLOCK FALSE
