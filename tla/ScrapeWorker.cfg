SPECIFICATION LiveSpec
CONSTANTS
  r1 = r1
  r2 = r2
  r3 = r3
  amazon = amazon
  aliexpress = aliexpress
  Requests = {r1, r2, r3}
  Marketplaces = {amazon, aliexpress}
  MarketOf <- MCMarketOf
  MarketLimit <- MCMarketLimit
  AliExpress = aliexpress
  Pages <- MCPages
  Wanted = 2
  MaxQuiet = 0
  x = x
  y = y
  z = z
  Products = {x, y, z}
  MaxCards = 3
  BrowserLimit = 1
  Interval = 1
  Jitter = 0
  HttpFastPath = TRUE
INVARIANTS
  TypeOK
  PermitsAccounted
  NoIdlePermit
  WaitersMatch
  TelemetryBalanced
  MergeIsFirstAppearances
  ParsersFind
PROPERTIES
  EveryRequestEnds
  AtMostOneLateLoad
CHECK_DEADLOCK FALSE
