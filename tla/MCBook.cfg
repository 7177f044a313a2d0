SPECIFICATION FairSpec
CONSTANTS
  Turn <- MCTurn
  After <- MCAfter
  Checks = {7}
  MaxEvaluate = 30000
  Infinite = 32001
  MaxCount = 3
  DrawScore <- MCDrawScore
  MinBookScore <- MCMinBookScore
  StartKey = 4
  Records <- MCRecords
  OtherBooks <- MCOtherBooks
  Shares <- MCShares
  MergeFiles <- MCMergeFiles
  Searched <- MCSearched
  ScoreOf <- MCScoreOf
  VisitThreshold = 5
  Cutoff = 15
  EvalThreshold = 3000
  Interval = 4
  TrialLimit = 6
  Options <- MCOptions
  MaxPlies = 6
  MaxCrashes = 1
  Cuts = {0, 3}
INVARIANTS BooksAreOfGames SavedIsKept ProbesAreSound
PROPERTIES MakingEnds
CHECK_DEADLOCK FALSE
