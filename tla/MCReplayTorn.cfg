\* The snapshot is not the contiguous copy its comment promises.
CONSTANTS
  Capacity = 4
  MaxBytes = 11
  MaxRead = 2
  Chunks = {}
  Byte <- MCBytes
SPECIFICATION RaceSpec
INVARIANT ReplayIsContiguous
CHECK_DEADLOCK FALSE
