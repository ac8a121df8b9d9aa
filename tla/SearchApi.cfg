SPECIFICATION LiveSpec
CONSTANTS
  r1 = r1
  r2 = r2
  key = key
  Worker = Worker
  Null = Null
  Requests = {r1, r2}
  Keys = {key}
  KeyOf <- MCKeyOf
  Rate <- MCRate
  Minute = 1
  Waiters = {r2}
  MaxFaults = 2
INVARIANTS
  OutcomeStands
PROPERTIES
  UsesLimiter
  OneAnswer
  EveryClientLearns
