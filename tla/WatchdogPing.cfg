SPECIFICATION Spec
CONSTANTS
  PingEnabled = TRUE
  RestartOnZero = FALSE
  KillMayFail = TRUE
  PublishMayFail = TRUE
  StaleAfter = 1
  StaleLimit = 2
  ShortProtect = 1
  Blackout = 3
  Grace = 1
  MaxRestarts = 3
  Window = 4
INVARIANTS SpawnsBounded NoOrphan
PROPERTIES BlockedIsRestarted FileVerdictSparesTake
\* The watchdog ends, and with it everything that could happen.
CHECK_DEADLOCK FALSE
