SPECIFICATION HistorySpec
CONSTANTS
  f1 = f1  f2 = f2  f3 = f3  x = x  y = y  z = z  h = h  k = k
  Files = {f1, f2, f3}
  Hashes = {h, k}
  Contents = {x, y, z}
  HashOf <- Mixed
  MaxWrites <- OnlyFirst
  MaxMishaps = 1
  MaxPending = 1
  MaxAttempts = 2
  MaxUnstable = 2
  MaxSizeGroup = 2
  HeavyAllowed = {TRUE}
  ReportVerify = TRUE
  SharesExtents = FALSE
  Booted = TRUE
  Moves = {"tear"}
  Faults = {"pair"}
INVARIANTS TypeOK VerifiedSound HashSound NothingForgotten NoMissedDuplicate
PROPERTY NeverRecompare
SYMMETRY SwapOthers
CHECK_DEADLOCK FALSE
