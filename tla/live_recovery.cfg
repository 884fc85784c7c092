SPECIFICATION Spec
CONSTANTS
  Ids = {p1, p2, p3, p4}
  Exits = {x1, x2}
  Main = main
  Requests = {}
  Lot = 1
  MAX_POSITIONS = 1
  MaxEntries = 1
  MaxCrashes = 1
  MaxExternal = 0
  MaxExposure = 0
  None = None
INVARIANTS TypeOK FillBookedOnce OpenNeedsExposure
PROPERTIES ImplementsSettlement OutageIsNotFlat ClosedStaysClosed
