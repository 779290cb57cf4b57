CONSTANTS
  Sessions = {s1, s2}
  Source = source
  ManySessions = 2
  Stride = 2
  MaxBatches = 3
  MaxOddities = 2

SPECIFICATION Spec
CHECK_DEADLOCK FALSE

INVARIANT
  RejectedOnEvidence
