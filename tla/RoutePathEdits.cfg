SPECIFICATION Spec
CONSTANTS
  s1 = s1
  s2 = s2
  Slots = {s1, s2}
  Places = {1, 2, 3}
  MaxDepth = 2
  StartDrafts <- Drafts
  MaxEdits = 3
  MaxFailures = 1
  MaxReloads = 1
SYMMETRY SlotSymmetry
INVARIANTS
  TypeOK
  HistoryBounded
  StalePathIsBeingRouted
  NoDetourLeftInTurn
PROPERTIES
  FailedEditTakesBackItself
CHECK_DEADLOCK FALSE
