SPECIFICATION FairSpec
CONSTANTS
  Jobs <- FourJobs
  Period <- Periods
  Long = {"remote", "reconcile", "presence"}
  Writers = {"reconcile", "presence"}
  Floor = 3
  MinNap = 1
  Hold = 2
  MaxNap = 2
  PassMax = 1
  Day = 7
  Window = {2, 3}
INVARIANTS TypeOK OnTime OneWriter
PROPERTIES Paced Walked
