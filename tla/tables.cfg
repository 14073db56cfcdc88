SPECIFICATION Spec
CONSTANTS
  f1 = f1  f2 = f2  f3 = f3  x = x  y = y  z = z  h = h  k = k
  Files = {f1, f2}
  Hashes = {h}
  Contents = {x, y}
  HashOf <- Colliding
  MaxWrites <- Once
  MaxMishaps = 1
  MaxPending = 2
  MaxAttempts = 2
  MaxUnstable = 2
  MaxSizeGroup = 2
  HeavyAllowed = {TRUE}
  ReportVerify = TRUE
  SharesExtents = FALSE
  Booted = TRUE
  Moves = {"vanish","return","presence","expire","purge","requeue","unskip","move_in"}
  Faults = {}
INVARIANT PointerExists
SYMMETRY SwapBoth
CHECK_DEADLOCK FALSE
