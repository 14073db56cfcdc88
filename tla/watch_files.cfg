SPECIFICATION Spec
CONSTANTS
  ia = ia
  ib = ib
  ic = ic
  da = da
  db = db
  na = na
  nb = nb
  Inodes = {ia, ib}
  Dirs = {da, db}
  Names = {na, nb}
  Start <- OneFile
  Ops = {"create", "write", "remove", "link", "rename", "move_out", "move_in", "mkdir", "rmdir"}
  MaxOps = 3
  Excluded = {db}
  Unwanted = {}
  Denied = {}
  MaxFaults = 0
  Late = FALSE
  BatchMax = 9
  PerPath = 8
  MaxTries = 2
  RetryCap = 2
  MaxPending = 1
INVARIANTS TypeOK NoGhost 
CHECK_DEADLOCK FALSE
