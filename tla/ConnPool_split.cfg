CONSTANTS
  r1 = r1
  r2 = r2
  r3 = r3
  r4 = r4
  tea = tea
  rice = rice
  NoOne = NoOne
  Requests = {r1, r2}
  Rows = {tea}
  Tenders = {0, 1}
  MaxOpen = 2
SPECIFICATION FairSpec
PROPERTY EveryRequestServed
