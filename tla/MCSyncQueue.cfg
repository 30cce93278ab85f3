CONSTANTS
  Scopes = {"full", "history"}
  NoScope = NoScope
  Players = {p1}
  Workers = {w1, w2}
  NoClaim = NoClaim
  MaxRuns = 2
  Lease = 2
  Timeout = 1
  BackoffUnit = 1
  BackoffCap = 2
  MaxAttempts = 2
SPECIFICATION QueueSpec
SYMMETRY Symmetry
INVARIANT ClaimsAreSound
PROPERTIES WorkIsKept ImplementsLedger
