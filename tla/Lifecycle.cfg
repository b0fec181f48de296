SPECIFICATION FairSpec
CONSTANTS
  Limits = {0, 2, 3}
  Reserved = 3
  MaxBusy = 1
  MaxLaunches = 3
INVARIANTS CompleteCluster NoOrphan WaitMeansOver PanicNeedsRace
PROPERTIES StartReturns StopReturns LossNoticed
CHECK_DEADLOCK FALSE
