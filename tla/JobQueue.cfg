SPECIFICATION LiveSpec
CONSTANTS
  Jobs <- MCJobs
  Procs = {p1, p2}
  Concurrency = 1
  WorkerID <- MCUniqueID
  MaxAttempts = 2
  MaxFaults = 2
  Null = Null
INVARIANTS
  TypeOK
  LatestClaimEnds
  TransactionKeepsClaim
  LostIsTrue
  NoEarlyGiveUp
PROPERTIES
  TerminalIsFinal
  ImplementsLifecycle
  EveryJobEnds
