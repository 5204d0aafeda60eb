CONSTANTS
  o1 = o1
  o2 = o2
  r1 = r1
  r2 = r2
  r3 = r3
  NoOne = NoOne
  NoOrder = NoOrder
  Orders = {o1, o2}
  Receivers = {r1, r2, r3}
  ItemCount = 2
SPECIFICATION FairSpec
INVARIANTS StockedIffReceived OnceUnlessOverlapped
PROPERTY EveryReceiveAnswered
