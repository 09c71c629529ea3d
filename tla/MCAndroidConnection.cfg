\* Every property of the Android client that holds.
CONSTANTS
  k1 = k1
  k2 = k2
  s1 = s1
  s2 = s2
  s3 = s3
  NoCreds = NoCreds
  NoSocket = NoSocket
  Creds = {k1}
  Sockets = {s1, s2}
  MaxStrays = 1
SPECIFICATION FairSpec
INVARIANT TypeOK
INVARIANT OfflineTriesAgain
INVARIANT ConnectedMeansOpen
INVARIANT ConnectedIsWatched
PROPERTY OfflineIsLeft
PROPERTY StaleIsNoticed
CHECK_DEADLOCK FALSE
