SPECIFICATION Spec
CONSTANTS
  MaxDepth = 2
  SavedRoutes = 0
  MaxRoutes = 1
  MaxLocals = 1
  MaxWorks = 2
  MaxReloads = 1
  MaxSwitches = 1
  MaxInFlight = 1
INVARIANTS
  TypeOK
  HistoryAboveLoadIsOwn
PROPERTIES
  BindingLostOnlyLate
  ModeLostOnlyLate
  UndoOfAnEditKeepsTheBinding
