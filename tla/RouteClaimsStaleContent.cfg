SPECIFICATION Spec
CONSTANTS
  u1 = u1
  t1 = t1
  t2 = t2
  h1 = h1
  h2 = h2
  NoUser = NoUser
  NoTab = NoTab
  Users = {u1}
  Tabs = {t1}
  Handlers = {h1, h2}
  Limit = 1
  StartsPro = {}
  LocalRoutes = 1
  MaxEdits = 2
  MaxDirect = 0
  MaxLosses = 1
  MaxSignOuts = 1
  MaxAdmin = 0
PROPERTIES
  LeavesDeviceAsLastSaved
CHECK_DEADLOCK FALSE
