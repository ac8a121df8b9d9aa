SPECIFICATION Spec
CONSTANTS
  q1 = q1
  q2 = q2
  q3 = q3
  q4 = q4
  q5 = q5
  other = other
  k1 = k1
  k2 = k2
  Requests = {q1, q2, q3, q4, q5, other}
  Keys = {k1, k2}
  KeyOf <- MCKeyOf
  Rate <- MCRate
  Minute = 3
INVARIANTS
  BurstBound
  RetryAfterSuffices
