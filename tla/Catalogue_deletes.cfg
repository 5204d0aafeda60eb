CONSTANTS
  r1 = r1
  r2 = r2
  r3 = r3
  tea = tea
  rice = rice
  milk = milk
  drinks = drinks
  food = food
  ana = ana
  eko = eko
  budi = budi
  tono = tono
  NoOne = NoOne
  Nil = Nil
  Requests = {r1, r2, r3}
  Products = {tea, rice, milk}
  Categories = {drinks, food}
  Customers = {ana, eko}
  Suppliers = {budi, tono}
  Stocked = {tea}
  InitialRows = {tea, rice, drinks, ana, budi}
  InitialCategory <- MCInitialCategory
  Asks <- MCAsks
SPECIFICATION FairSpec
INVARIANTS TypeOK ReferencesHold DeletedStaysDeleted
PROPERTIES HistoryKept EveryRequestAnswered
