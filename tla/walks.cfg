SPECIFICATION Spec
CONSTANTS
  Files <- Tree
  Library <- Stock
  Jobs = {"initial","reconcile","extra","presence"}
  NeedPct = 60
  NewMissingPct = 2
  BatchMax = 2
  Faults = {"readdir", "unread", "store", "cut", "unmount", "crash"}
  MaxFaults = 2
  MaxOps = 1
INVARIANTS TypeOK CursorSafe Recorded SessionFreed TriedAgain
PROPERTY NoFalseLoss
CHECK_DEADLOCK FALSE
