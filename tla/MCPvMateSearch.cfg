CONSTANTS
  top = top
  a = a
  b = b
  Workers = {1, 2}
  Children = {a, b}
  Top = top
  Kids <- Tree
  MaxSearches = 3
  MaxStops = 1
SPECIFICATION FairSpec
INVARIANTS NoWalkOutside SearchedOnce
PROPERTIES JoinsEnd
