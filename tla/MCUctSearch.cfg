CONSTANTS
  nr = nr
  na = na
  nb = nb
  nc = nc
  nd = nd
  ne = ne
  nf = nf
  ng = ng
  t1 = t1
  t2 = t2
  Threads = {t1, t2}
  BatchSize = 2
  Nodes = {nr, na, nb, nc, nd, ne, ng}
  Root = nr
  Kids <- TreeKids
  Ply <- TreePly
  Status <- TreeStatus
  NN <- TreeNN
  Outcome <- MissedOutcome
  Halt = 1
  NodeLimit = 20
  Ponder <- NoPonder
  Stochastic = FALSE
  MaxSearches = 1
SPECIFICATION Spec
SYMMETRY Alike
INVARIANTS EvaluatedOnce StatisticsConserved
