SPECIFICATION DaemonFairSpec
CONSTANTS
  p1 = p1
  p2 = p2
  p3 = p3
  none = none
  Procs = {p1, p2}
  NoFile = none
  MaxLosses = 1
  MaxCuts = 1
  MaxStarts = 2
  MaxErrors = 1
  QueueCap = 1
INVARIANTS DaemonTypeOK LossRememberedButForRace Reachable
PROPERTIES StopEnds MadeGood
CHECK_DEADLOCK FALSE
