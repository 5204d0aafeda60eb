CONSTANTS
  tea = tea
  cup = cup
  drinks = drinks
  NoCategory = NoCategory
  Checkouts = {1, 2, 3}
  LastDay = 1
  MaxApart = 1
  Readers = {r1}
  Lines <- MCLines
  TotalAmount <- MCTotalAmount
  Category <- MCCategory
  PaidWith <- MCPaidWith
  FirstWeekday = 1
  MonthStarts = {0, 1}
  Limit = 2
  PerPage = 1
  MaxPerPage = 2
  MaxInt = 7
SPECIFICATION ReportsSpec
INVARIANTS NumbersUnique Consecutive CollidesWithUncounted ReportsAgree PagesMissNothing ReportsReconcile PagesPartition
PROPERTIES EveryCheckoutEnds
