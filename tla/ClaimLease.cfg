SPECIFICATION Spec
CONSTANTS
  Heartbeat = 2
  StaleAfter = 9
  MaxStalled = 11
  MaxMissed = 5
INVARIANTS
  TakenOnlyAfterMisses
