SPECIFICATION FairSpec
CONSTANTS
  u1 = u1
  h1 = h1
  h2 = h2
  c1 = c1
  c2 = c2
  e1 = e1
  e2 = e2
  e3 = e3
  NoUser = NoUser
  NoHandler = NoHandler
  NoEvent = NoEvent
  Users = {u1}
  Handlers = {h1, h2}
  Checkouts = {c1}
  Events = {e1}
  Buyer <- MCOneBuyer
  CheckoutOf <- MCOneCheckoutOf
  PassLength = 2
  OgLength = 1
  GrantDays = {1}
  Veterans = {}
  LaunchedAt = 1
  ManualRows <- OpenEndedManualRow
  Leavers = {u1}
  MaxTime = 1
  MaxAudit = 2
  MaxCrashes = 1
INVARIANTS
  ProNeverOutrunsWhatWasGiven
  KindAgreesWithGate
PROPERTIES
  RevokeEndsPro
  EveryPaymentSettles
CHECK_DEADLOCK FALSE
