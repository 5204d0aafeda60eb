CONSTANTS
  r1 = r1
  r2 = r2
  r3 = r3
  main = main
  tea = tea
  rice = rice
  salt = salt
  NoOne = NoOne
  NoRow = NoRow
  Requests = {r1, r2}
  Branches = {main}
  Products = {tea, rice, salt}
  Carts <- MCRepeatedCarts
  MaxItems = 2
  MaxStock = 5
  InitialRows <- MCInitialRows
  InitialStock <- MCInitialStock
SPECIFICATION Spec
SYMMETRY MCSymmetry
INVARIANT StockBalanced
