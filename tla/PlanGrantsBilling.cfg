SPECIFICATION Spec
CONSTANTS
  u1 = u1
  h1 = h1
  h2 = h2
  c1 = c1
  c2 = c2
  e1 = e1
  e2 = e2
  e3 = e3
  NoUser = NoUser
  NoHandler = NoHandler
  NoEvent = NoEvent
  Users = {u1}
  Handlers = {h1, h2}
  Checkouts = {c1, c2}
  Events = {e1, e2, e3}
  Buyer <- MCBuyer
  CheckoutOf <- MCCheckoutOf
  PassLength = 2
  OgLength = 1
  GrantDays = {1}
  Veterans = {u1}
  LaunchedAt = 1
  ManualRows <- NoManualRow
  Leavers = {u1}
  MaxTime = 2
  MaxAudit = 0
  MaxCrashes = 1
SYMMETRY HandlerSymmetry
INVARIANTS
  TypeOK
  ReadsStayCurrent
  OgPassOnce
PROPERTIES
  OnlyAuditedStepsCutPro
  PaidTimeKept
CHECK_DEADLOCK FALSE
