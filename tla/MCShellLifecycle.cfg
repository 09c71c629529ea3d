CONSTANTS
  s1 = s1
  s2 = s2
  s3 = s3
  p1 = p1
  p2 = p2
  i1 = i1
  i2 = i2
  i3 = i3
  NoShell = NoShell
  Shells = {s1, s2, s3}
  Pids = {p1, p2}
  Sessions = {i1, i2, i3}
  PidOf <- TwoShareAPid
  Threads = 2
  MaxCrashes = 1
SPECIFICATION FairSpec
INVARIANT HookedShellsAreListed
INVARIANT LiveOutputIsRead
INVARIANT StaleNamesAreStuck
PROPERTY TerminalComesAlive
PROPERTY EndedShellLeaves
CHECK_DEADLOCK FALSE
