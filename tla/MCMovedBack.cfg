CONSTANTS
  Seasons = {1}
  Weeks = {1, 2}
  Fixtures = {1}
  Players = {p1}
  Requests <- Usual
  Archives = {}
  Configured = 0
  Faults = FALSE
  MaxVersion = 2
  MaxMoves = 2
  MaxStops = 0
SPECIFICATION Spec
PROPERTY StoredFactsDoNotAge
