CONSTANTS
  Scopes = {"player-history"}
  NoScope = NoScope
  Players = {p1}
  t1 = t1
  t2 = t2
  w1 = w1
  w2 = w2
  Workers = {w1, w2}
  NoClaim = NoClaim
  MaxRuns = 2
  Lease = 1
  Timeout = 1
  BackoffUnit = 1
  BackoffCap = 1
  MaxAttempts = 1
  Tasks = {t1, t2}
  Crew <- OneEach
  MaxRetries = 0
  MaxStops = 1
  DBFaults = FALSE
SPECIFICATION Spec
INVARIANT NoOrphanClaims
