SPECIFICATION LiveSpec
CONSTANTS
  s1 = s1
  s2 = s2
  a = a
  b = b
  c = c
  low = low
  high = high
  None = None
  Slots = {s1, s2}
  Products = {a, b, c}
  Values = {low, high}
  Listings <- MCListings
  Day = 2
  RetentionDays = 2
  MaxNow = 6
INVARIANTS
  TypeOK
  SeenHasHistory
  OrderedIsExact
PROPERTIES
  ImplementsHistory
  EveryTransactionEnds
