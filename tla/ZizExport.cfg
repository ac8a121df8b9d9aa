SPECIFICATION LiveSpec
CONSTANTS
  Workers = {w1, w2}
  PerPage = 2
  MaxPosts = 5
  Sites <- MCAnySite
  MaxRuns = 3
  MaxChanges = 1
  MaxFaults = 2
INVARIANTS
  TypeOK
  SuccessHasAllPages
  UnwarnedIsComplete
  FullRunExportsAll
  ResumeCompletes
PROPERTIES
  EveryRunEnds
CHECK_DEADLOCK FALSE
