SPECIFICATION LiveSpec
CONSTANTS
  u1 = u1
  u2 = u2
  u3 = u3
  f1 = f1
  f2 = f2
  w1 = w1
  w2 = w2
  None = None
  Exports <- MCExports
  File <- MCFile
  Workers = {w1, w2}
  Capacity = 1
  Batch = 2
  MaxFaults = 2
INVARIANTS
  TypeOK
  MappedFilesExist
  WholeManifestMapsAll
  OnlyJointIsLost
PROPERTIES
  EveryRunEnds
CHECK_DEADLOCK FALSE
