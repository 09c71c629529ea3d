CONSTANTS
  s1 = s1
  p1 = p1
  i1 = i1
  i2 = i2
  NoShell = NoShell
  Shells = {s1}
  Pids = {p1}
  Sessions = {i1, i2}
  PidOf <- SamePid
  Threads = 1
  MaxCrashes = 2
  DefaultPort = 7681
  portAttempts = 2
SPECIFICATION MacSpec
INVARIANT MacTypeOK
INVARIANT PairedPhoneVerifies
INVARIANT ServedWhereForwarded
CHECK_DEADLOCK FALSE
