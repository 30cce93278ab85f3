SPECIFICATION Spec
SYMMETRY Alike
CONSTANTS
  Tabs = {t1, t2}
  Markets <- Seasons
  Squads <- Sent
  Teams <- Active
  Inputs <- Transfers
  Score <- Points
  Fixtures = {f1}
  MaxRequests = 2
  MaxFaults = 1
INVARIANTS SavedIsSound ImportedOnce TornSquadsAreRefused NoLaterPrices
PROPERTY StoredAsConfirmed
