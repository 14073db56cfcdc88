SPECIFICATION HealingSpec
CONSTANTS
  f1 = f1  f2 = f2  f3 = f3  x = x  y = y  z = z  h = h  k = k
  Files = {f1, f2}
  Hashes = {h}
  Contents = {x}
  HashOf <- Single
  MaxWrites <- OnlyFirst
  MaxMishaps = 1
  MaxPending = 1
  MaxAttempts = 2
  MaxUnstable = 2
  MaxSizeGroup = 2
  HeavyAllowed = {TRUE}
  ReportVerify = TRUE
  SharesExtents = FALSE
  Booted = TRUE
  Moves = {"crash","reconcile","tear"}
  Faults = {}
PROPERTIES Converges Heals
CHECK_DEADLOCK FALSE
