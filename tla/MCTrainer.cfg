SPECIFICATION FairSpec
CONSTANTS
  Turn <- MCTurn
  After <- MCAfter
  Files <- MCFiles
  Value <- MCValue
  Fit = 1
  Unit = 40320
  Mate = 30000
  Jobs <- MCJobs
  Caches <- MCCaches
  Policy <- MCPolicy
  Worth <- MCWorth
  Mixes <- MCMixes
  Least = 68
  MaxStarts = 3
  BatchSize = 2
  EvalInterval = 3
  Epochs = 2
  Shuffles <- MCShuffles
INVARIANTS DataAreSamples FilesAgree  EpochsAreWhole
PROPERTIES EpochsEnd
CHECK_DEADLOCK FALSE
