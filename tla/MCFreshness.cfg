CONSTANTS
  Seasons = {1}
  Weeks = {1, 2}
  Fixtures = {1}
  Players = {p1}
  Requests <- Few
  Archives = {}
  Configured = 0
  Faults = TRUE
  MaxVersion = 1
  MaxMoves = 0
  MaxStops = 0
SPECIFICATION Spec
INVARIANT FreshnessIsHonest
