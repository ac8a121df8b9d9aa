SPECIFICATION Spec
CONSTANTS
  Workers = {w1}
  PerPage = 2
  MaxPosts = 3
  Sites <- MCHalfPage
  MaxRuns = 2
  MaxChanges = 1
  MaxFaults = 0
INVARIANTS
  RerunFillsGaps
CHECK_DEADLOCK FALSE
