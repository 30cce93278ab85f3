CONSTANTS
  Tasks = {t1, t2}
  Handlers = {h1}
  Own = own
  rival = rival
  Standings <- League
  Scopes <- BothScopes
  MemberLimit = 2
  MaxPages = 2
  FanOut = 1
  MaxRuns = 2
  MaxFaults = 1
  MaxDialogs = 1
SPECIFICATION FairSpec
INVARIANTS StatusIsLive SuccessHidesNothing AcceptedSession
PROPERTY SyncsEnd
CHECK_DEADLOCK FALSE
