CONSTANTS
  nr = nr
  na = na
  nb = nb
  nc = nc
  nd = nd
  ne = ne
  nf = nf
  ng = ng
  t1 = t1
  t2 = t2
  Threads = {t1, t2}
  BatchSize = 1
  Nodes = {na, nc, nd, ne, nf, ng}
  Root = na
  Kids <- LongKids
  Ply <- LongPly
  Status <- LongStatus
  NN <- TreeNN
  Outcome <- TreeOutcome
  Halt = 0
  NodeLimit = 2
  Ponder <- NoPonder
  Stochastic = TRUE
  MaxSearches = 2
SPECIFICATION FairSpec
INVARIANTS FlagsSound SelectsReady WinIsPlayed
PROPERTIES SearchEnds
