\* A pairing that has worked is taken for a refused one.
CONSTANTS
  k1 = k1
  k2 = k2
  NoCreds = NoCreds
  Creds = {k1, k2}
  MaxWaiting = 2
SPECIFICATION Spec
INVARIANT RefusedNeverWorked
CHECK_DEADLOCK FALSE
