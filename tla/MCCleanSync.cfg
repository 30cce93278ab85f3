CONSTANTS
  Seasons = {1}
  Weeks = {1, 2}
  Fixtures = {1, 2}
  Players = {p1, p2}
  Requests <- Usual
  Archives = {}
  Configured = 0
  Faults = FALSE
  MaxVersion = 3
  MaxMoves = 0
  MaxStops = 1
SPECIFICATION Spec
INVARIANT CacheMatchesTables
PROPERTY StoredFactsDoNotAge
