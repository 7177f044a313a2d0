CONSTANTS
  m1 = m1
  m2 = m2
  m3 = m3
  Addresses = {1, 2, 3, 4}
  Keys = {k1, k2}
  Legal <- TwoMoves
  Unlisted = {m3}
  MaxLine = 2
  MaxGrown = 3
SPECIFICATION Spec
INVARIANTS OneOwner TreeIsOfGame KeepsPlainLine
SYMMETRY Symmetry
