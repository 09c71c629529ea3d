\* What holds although nothing orders the writer and the copier.
CONSTANTS
  Capacity = 4
  MaxBytes = 11
  MaxRead = 2
  Chunks = {}
  Byte <- MCBytes
SPECIFICATION RaceSpec
INVARIANT ReplayInventsNothing
INVARIANT EarlyReplayIsPrefix
INVARIANT FullReplayNeverTraps
PROPERTY WriterIsAtomic
CHECK_DEADLOCK FALSE
