CONSTANTS
  r1 = r1
  r2 = r2
  r3 = r3
  main = main
  tea = tea
  rice = rice
  salt = salt
  NoOne = NoOne
  NoRow = NoRow
  Requests = {r1, r2, r3}
  Branches = {main}
  Products = {tea, rice, salt}
  Carts <- MCWideCarts
  MaxItems = 2
  MaxStock = 5
  InitialRows <- MCInitialRows
  InitialStock <- MCInitialStock
SPECIFICATION FairSpec
INVARIANTS TypeOK StockBalanced CheckedStockStays NoLeakedLock
PROPERTIES LedgerSpec EveryRequestAnswered
