CONSTANTS
  OcvTable <- Table
  DesignCapacity = 5880
  DesignQmax = 6468
  BatRes = 95
  PwroffVol = 3447
  ZeroVol = 3850
  MaxSocOffset = 60
  MaxVoltage = 4150
  Days <- MCDays
SPECIFICATION MCSpec
CHECK_DEADLOCK FALSE
INVARIANTS ChargeSaved FollowsPlug
PROPERTIES StartContinues ShownFollows
