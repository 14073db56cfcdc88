CONSTANTS
  k1 = k1
  k2 = k2
  Keys <- MCKeys
  Kind <- MCKind
  Sightings <- MCSightings
  Waits <- MCWaits
  Walked <- MCWalked
  Dirs <- MCDirs
  Fps <- MCFps
  ScanBatches <- MCScanBatches
  SeenBatches <- MCSeenBatches
  Allowed <- MCAllowed
  Starts <- MCStarts
  MaxCalls = 8
  MaxNow = 3
  MaxRows = 3
  MaxGroups = 1
  Undoing = TRUE
  Hurried = TRUE
SPECIFICATION Spec
VIEW Tables
INVARIANTS TypeOK SameAnswers
PROPERTIES ActsAsMemory
CHECK_DEADLOCK FALSE
