SPECIFICATION Spec
CONSTANTS
  ia = ia
  ib = ib
  ic = ic
  da = da
  db = db
  na = na
  nb = nb
  Inodes = {ia, ib}
  Dirs = {da, db}
  Names = {na, nb}
  Start <- OneFile
  Ops = {"create", "write", "remove", "link", "rename", "move_out", "move_in", "mkdir", "rmdir", "rename_dir", "move_dir_out", "move_dir_in", "work", "overflow", "root_gone", "stop"}
  MaxOps = 2
  Excluded = {}
  Unwanted = {nb}
  Denied = {}
  MaxFaults = 2
  Late = FALSE
  BatchMax = 4
  PerPath = 2
  MaxTries = 1
  RetryCap = 1
  MaxPending = 1
INVARIANTS NothingLost
CHECK_DEADLOCK FALSE
