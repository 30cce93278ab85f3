CONSTANTS
  Tasks = {t1}
  Handlers = {h1}
  Own = own
  rival = rival
  Standings <- League
  Scopes <- BothScopes
  MemberLimit = 2
  MaxPages = 2
  FanOut = 4
  MaxRuns = 1
  MaxFaults = 0
  MaxDialogs = 1
SPECIFICATION Spec
INVARIANT DeletedStaysDeleted
CHECK_DEADLOCK FALSE
