SPECIFICATION Spec
CONSTANTS
  f1 = f1  f2 = f2  f3 = f3  x = x  y = y  z = z  h = h  k = k
  Files = {f1, f2}
  Hashes = {h}
  Contents = {x}
  HashOf <- Single
  MaxWrites <- OnlyFirst
  MaxMishaps = 1
  MaxPending = 1
  MaxAttempts = 2
  MaxUnstable = 2
  MaxSizeGroup = 2
  HeavyAllowed = {TRUE, FALSE}
  ReportVerify = TRUE
  SharesExtents = TRUE
  Booted = FALSE
  Moves = {"vanish","return"}
  Faults = {"io","ineligible","partial","too_large","stopped","eintr","busy","changed","unsupported","pair","fatal"}
INVARIANTS SettlingHasDeadline ClaimsTracked

CHECK_DEADLOCK FALSE
