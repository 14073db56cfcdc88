SPECIFICATION FairSpec
CONSTANTS
  Files <- Shelf
  Library <- Shelf
  Jobs = {"remote"}
  NeedPct = 75
  NewMissingPct = 2
  BatchMax = 2
  Faults = {"unread", "mount_lost", "cut", "store"}
  MaxFaults = 1
  MaxOps = 3
PROPERTY Forgotten
CHECK_DEADLOCK FALSE
