CONSTANTS
  Interval <- Cadence
  MaxDuration = 0
  MaxManual = 1
  LastGameweek = 1
  MaxDeclared = 1
  MaxVersion = 1
  MaxFaults = 1
SPECIFICATION Spec
INVARIANT FinalizedIsActual
