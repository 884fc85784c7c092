SPECIFICATION LiveSpec
CONSTANTS
  Ids = {p1, p2, p3}
  Exits = {x1}
  Main = main
  Requests = {}
  Lot = 1
  MAX_POSITIONS = 1
  MaxEntries = 1
  MaxCrashes = 1
  MaxExternal = 0
  MaxExposure = 0
  None = None
PROPERTIES ExitIntentIsResolved
