SPECIFICATION Spec
CONSTANTS
    Launchers = {"l1", "l2"}
    Faulty = {}
    Intents = {}
    MaxRestarts = 1
    MaxProcs = 2
    MaxEvents = 1
INVARIANT OneSupervisor
\* every launcher may have ended
CHECK_DEADLOCK FALSE
