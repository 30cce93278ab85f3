CONSTANTS
  Seasons = {1, 2}
  Weeks = {1, 2}
  Fixtures = {1}
  Players = {p1}
  Requests <- Usual
  Archives = {1}
  Configured = 0
  Faults = FALSE
  MaxVersion = 1
  MaxMoves = 0
  MaxStops = 1
SPECIFICATION FairSpec
PROPERTY SeasonArrives
