SPECIFICATION Spec
CONSTANTS
  u1 = u1
  u2 = u2
  b1 = b1
  b2 = b2
  t1 = t1
  t2 = t2
  good = good
  weak = weak
  Users <- Addresses
  Owner = u1
  Browsers <- Two
  Tabs <- Both
  Passwords <- Known
  Acceptable <- Strong
  NoPassword = none
  IdleTimeout = 2
  AbsoluteTimeout = 3
  MaxFailures = 1
  Window = 2
  MaxCooldown = 1
  MaxTime = 3
  MaxSessions = 2
  MaxRequests = 3
  MaxFaults = 1
SYMMETRY Alike
CHECK_DEADLOCK FALSE
INVARIANTS LegacyIsAssigned
