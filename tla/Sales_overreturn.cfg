CONSTANTS
  c1 = c1
  c2 = c2
  r1 = r1
  r2 = r2
  o1 = o1
  tea = tea
  rice = rice
  Checkouts = {c1}
  Returns = {r1, r2}
  Orders = {}
  Products = {tea, rice}
  Prices = {1, 2}
  Carts <- MCCarts
  OrderCarts <- MCOrderCarts
  Payments <- MCPayments
  PaymentTypes = {"cash", "qris"}
  MaxAmount = 5
  NoSale = NoSale
SPECIFICATION Spec
SYMMETRY MCSymmetry
INVARIANT ReturnedFromSale
