SPECIFICATION Spec
CONSTANTS
  r1 = r1
  NoSession = NoSession
  NoReading = NoReading
  NoRejoin = NoRejoin
  Routes = {r1}
  PathOf <- MCPathOf
  CuesOf <- MCCuesOf
  Points <- MCPoints
  Reaches <- MCReaches
  OnRoute = 0
  OffRoute = 1
  Trust = 4
  Window = 3
  Dwell = 1
  Ahead = 2
  Tolerance = 0
  MinProgress = 75
  ArrivalReach = 0
  Interval = 1
  MaxTime = 1
  MaxStarts = 2
  MaxReloads = 1
  MaxErrors = 1
INVARIANTS
  TypeOK
  CuesHeardInRouteOrder
  SnapshotIsOfThisSession
  EndedByRiderIsGone
PROPERTIES
  RerouteOnlyAfterDwell
  EndedStaysEnded
CHECK_DEADLOCK FALSE
