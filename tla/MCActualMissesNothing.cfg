SPECIFICATION Spec
CONSTANTS
  Players <- Squad
  Roles <- RoleOf
  Entries <- Three
  Teams <- Kinds
  Form <- Estimate
  Pages <- Standings
  Points <- Scores
  Costs <- Hits
  Requests <- Queries
  NoTeam = none
  NoPoints = none
  MaxWrites = 1
INVARIANTS ActualMissesNothing
