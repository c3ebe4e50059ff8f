SPECIFICATION Spec
CONSTANTS
  u1 = u1
  t1 = t1
  t2 = t2
  h1 = h1
  h2 = h2
  NoUser = NoUser
  NoTab = NoTab
  Users = {u1}
  Tabs = {t1, t2}
  Handlers = {h1, h2}
  Limit = 1
  StartsPro = {}
  LocalRoutes = 1
  MaxEdits = 1
  MaxDirect = 1
  MaxLosses = 1
  MaxSignOuts = 0
  MaxAdmin = 2
SYMMETRY TabAndHandlerSymmetry
INVARIANTS
  TypeOK
  CapHolds
  ClaimsNeverDuplicate
PROPERTIES
  LeavesDeviceOnlyWhenHeld
CHECK_DEADLOCK FALSE
