SPECIFICATION LiveSpec
CONSTANTS
  Ids = {p1, p2, p3}
  Exits = {x1}
  Main = main
  Requests = {}
  Lot = 1
  MAX_POSITIONS = 1
  MaxEntries = 1
  MaxCrashes = 0
  MaxExternal = 1
  MaxExposure = 1
  None = None
PROPERTIES FlatIsNoticed ExposureIsTracked
