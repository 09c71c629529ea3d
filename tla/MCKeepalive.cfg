CONSTANTS
  Period = 5
  Jitter = 1
  Delay = 1
SPECIFICATION Spec
INVARIANT TypeOK
INVARIANT LivePhoneIsKept
INVARIANT DeadLinkIsLetGo
INVARIANT ClosedChannelLeaves
PROPERTY AlarmMeansQuiet
CHECK_DEADLOCK FALSE
