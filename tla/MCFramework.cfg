CONSTANTS
  Uses <- MCUses
  DefWarnLevel = 15
  CriticalLevel = 5
  Bump = 5
  ShutdownLevel = 6
  MaxQueue = 2
SPECIFICATION MCSpec
CHECK_DEADLOCK FALSE
INVARIANTS ShownRight LowHandled ShellKept  HalFollowed WarningsRight
