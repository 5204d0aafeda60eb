CONSTANTS
  r1 = r1
  r2 = r2
  r3 = r3
  r4 = r4
  tea = tea
  rice = rice
  NoOne = NoOne
  Requests = {r1, r2, r3}
  Rows = {tea, rice}
  Tenders = {0, 1}
  MaxOpen = 4
SPECIFICATION FairSpec
INVARIANTS TypeOK NothingLeaked NeverJammed
PROPERTY EveryRequestServed
