SPECIFICATION Spec
CONSTANTS
  u1 = u1
  u2 = u2
  u3 = u3
  f1 = f1
  f2 = f2
  w1 = w1
  w2 = w2
  None = None
  Exports <- MCTwo
  File <- MCFile
  Workers = {w1}
  Capacity = 1
  Batch = 2
  MaxFaults = 1
INVARIANTS
  ManifestMapsAll
CHECK_DEADLOCK FALSE
