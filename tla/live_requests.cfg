SPECIFICATION RequestsSpec
CONSTANTS
  Ids = {p1, p2, p3, p4}
  Exits = {x1}
  Main = main
  Requests = {r1}
  Lot = 2
  MAX_POSITIONS = 2
  MaxEntries = 1
  MaxCrashes = 0
  MaxExternal = 0
  MaxExposure = 0
  None = None
INVARIANTS TradesFromOwnFills StoreMatchesMemory
