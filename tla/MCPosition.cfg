SPECIFICATION Spec
CONSTANTS
  Starts <- MCStarts
  Searched <- MCSearched
  CheckMaxPly = 16
INVARIANTS PositionIsGame MovesByRules MatesAreForced RepetitionByRules TextsReadBack NetworkSeesItsSide
