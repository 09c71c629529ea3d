\* Every property of the iOS client that holds.
CONSTANTS
  k1 = k1
  k2 = k2
  NoCreds = NoCreds
  Creds = {k1, k2}
  MaxWaiting = 2
SPECIFICATION FairSpec
INVARIANT TypeOK
INVARIANT OfflineIsTemporary
INVARIANT ScreenTellsState
INVARIANT ReplayUnlessOutlived
PROPERTY DropIsNotRefusal
PROPERTY StaleIsNoticed
CHECK_DEADLOCK FALSE
