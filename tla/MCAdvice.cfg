SPECIFICATION AdviceSpec
CONSTANTS
  Domain <- Season
  Squad <- Team
  Scores <- ScoreSet
  Named <- MoveSet
  MaxMoves = 3
  Lineups <- Given
INVARIANTS AdviceIsBest TransfersAddUp
