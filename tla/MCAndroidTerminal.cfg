CONSTANTS
  a = a
  b = b
  NoSession = NoSession
  Sessions = {a, b}
  MaxCalls = 2
  MaxAttaches = 4
SPECIFICATION FairSpec
INVARIANT TypeOK
INVARIANT OutputInOrder
INVARIANT KeysGoToWhatIsShown
PROPERTY OutputReachesScreen
CHECK_DEADLOCK FALSE
