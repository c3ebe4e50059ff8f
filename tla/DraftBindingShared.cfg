SPECIFICATION Spec
CONSTANTS
  MaxDepth = 2
  SavedRoutes = 1
  MaxRoutes = 1
  MaxLocals = 1
  MaxWorks = 2
  MaxReloads = 1
  MaxSwitches = 0
  MaxInFlight = 1
PROPERTIES
  SharedRoutesLoadUnbound
CHECK_DEADLOCK FALSE
