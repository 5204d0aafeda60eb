CONSTANTS
  s1 = s1
  s2 = s2
  tea = tea
  None = None
  Servers = {s1, s2}
  Tables <- MCTables
  WithBranch <- MCWithBranch
  Products = {tea}
  MaxFaults = 2
SPECIFICATION FairSpec
INVARIANTS SeedsOnce AdminIntoEmpty ServesComplete
PROPERTIES EventuallySeeded EventuallyServes
