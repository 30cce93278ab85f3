CONSTANTS
  Seasons = {1, 2}
  Weeks = {1}
  Fixtures = {1}
  Players = {p1}
  Requests <- Few
  Archives = {1}
  Configured = 0
  Faults = TRUE
  MaxVersion = 1
  MaxMoves = 1
  MaxStops = 1
SPECIFICATION Spec
INVARIANT OneCurrentSeason
PROPERTIES DataIsSound MarkerNeverMovesBack PastSeasonsAreKept
