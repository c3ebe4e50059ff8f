SPECIFICATION FairSpec
CONSTANTS
  g1 = g1
  g2 = g2
  g3 = g3
  p1 = p1
  p2 = p2
  r1 = r1
  r2 = r2
  s1 = s1
  s2 = s2
  h1 = h1
  h2 = h2
  None = None
  Routes = {r1, r2}
  Geometries = {g1, g2, g3}
  StartOf <- MCStartOf
  MaxJobs = 2
  Handlers = {h1, h2}
  Sessions = {s1, s2}
  FirstRoute = r1
  FirstGeometry = g1
  FirstSession = s1
  Grace = 0
  MaxTime = 1
  MaxOps = 4
INVARIANTS
  TypeOK
  PendingHasItsDate
  RoutesFollowTheirAccount
  DerivedFollowsGeometry
PROPERTIES
  DeletionEndsSessions
  ExpiredDeletionsAreCarriedOut
CHECK_DEADLOCK FALSE
