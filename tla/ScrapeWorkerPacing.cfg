SPECIFICATION Spec
CONSTANTS
  r1 = r1
  r2 = r2
  r3 = r3
  amazon = amazon
  aliexpress = aliexpress
  Requests = {r1, r2, r3}
  Marketplaces = {amazon}
  MarketOf <- MCOneMarketOf
  MarketLimit <- MCMarketLimit
  AliExpress = aliexpress
  Pages <- MCPages
  Wanted = 2
  MaxQuiet = 1
  x = x
  y = y
  z = z
  Products = {x, y, z}
  MaxCards = 3
  BrowserLimit = 1
  Interval = 1
  Jitter = 0
  HttpFastPath = TRUE
PROPERTIES
  StartsSpread
CHECK_DEADLOCK FALSE
