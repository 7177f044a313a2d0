CONSTANTS
  N = 2
  MaxRounds = 4
SPECIFICATION FairSpec
INVARIANTS JoinMeansDone NoUseAfterFree
PROPERTIES CommandsEnd
