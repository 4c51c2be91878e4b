CONSTANTS
  usb = usb
  bat = bat
  Supplies = {usb, bat}
  SuppliedTo <- Feeds
  Requires <- Needs
  Systems <- MCSystems
SPECIFICATION FairSpec
CHECK_DEADLOCK FALSE
INVARIANTS EventsHeld TeardownSound
PROPERTIES AllEnds
