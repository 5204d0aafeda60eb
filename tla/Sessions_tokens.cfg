CONSTANTS
  budi = budi
  ani = ani
  siti = siti
  main = main
  mall = mall
  e1 = e1
  e2 = e2
  r1 = r1
  r2 = r2
  r3 = r3
  p1 = p1
  p2 = p2
  p3 = p3
  None = None
  Requests = {e1, e2, r1, r2, r3}
  Earlier = {e1, e2}
  EarlierUser <- MCEarlierUser
  Users = {budi, ani, siti}
  Passwords = {p1, p2, p3}
  Branches = {main, mall}
  InitialUsers <- MCInitialUsers
  InitialBranches <- MCInitialBranches
  Names = {"n1", "n2"}
  Asks <- MCAsks
  AccessTTL = 1
  RefreshTTL = 2
SPECIFICATION FairSpec
INVARIANTS FreshClaims RevokedStaysRevoked CreatedOnce VerifiedPasswordStands
PROPERTY DemotionTakesEffect
