SPECIFICATION FairSpec
CONSTANTS
  MaxThreads = 2
  CallerJoins = FALSE
  Polls = TRUE
  MaxWork = 3
  NThreads = 3
  Faults <- SpawnFaults
CHECK_DEADLOCK FALSE
INVARIANTS PoolSound RequestLimit NoLostWakeup
PROPERTIES EveryItemHandled StopDrains
