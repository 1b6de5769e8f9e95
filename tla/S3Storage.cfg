CONSTANTS
  Keys = {k1, k2}
  Writes = {w1, w2, w3}
  Reads = {r1}
  MaxFaults = 2
SPECIFICATION Spec
INVARIANT ResolvedIsRead
\* every call made and settled
CHECK_DEADLOCK FALSE
