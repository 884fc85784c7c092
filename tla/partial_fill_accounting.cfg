SPECIFICATION Spec
CONSTANTS
  Ids = {p1, p2, p3}
  Exits = {x1, x2}
  Main = main
  Requests = {}
  Lot = 2
  MAX_POSITIONS = 1
  MaxEntries = 1
  MaxCrashes = 0
  MaxExternal = 0
  MaxExposure = 0
  None = None
INVARIANTS ClosedIsFullyBooked
