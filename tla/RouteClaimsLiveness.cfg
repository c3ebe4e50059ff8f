SPECIFICATION FairSpec
CONSTANTS
  u1 = u1
  t1 = t1
  t2 = t2
  h1 = h1
  h2 = h2
  NoUser = NoUser
  NoTab = NoTab
  Users = {u1}
  Tabs = {t1}
  Handlers = {h1, h2}
  Limit = 2
  StartsPro = {}
  LocalRoutes = 2
  MaxEdits = 2
  MaxDirect = 0
  MaxLosses = 1
  MaxSignOuts = 1
  MaxAdmin = 0
INVARIANTS
  ClaimAwaitsItsOwnAnswer
PROPERTIES
  EveryLocalRouteIsClaimed
CHECK_DEADLOCK FALSE
