SPECIFICATION FairSpec
CONSTANTS
  Rate = 1
  Burst = 2
  Block = 2
  Entry = 1
  MaxWait = 1
  Interval = 1
  Jitter = 0
  BusyWindow = 1
  IdleWindow = 2
  Pace = 1
  Patience = 2
  MaxBlocks = 1
  MaxEntries = 1
  MaxErrors = 1
INVARIANTS TypeOK RateKept BrakeReleased
PROPERTIES GivesWay Stops
CHECK_DEADLOCK FALSE
