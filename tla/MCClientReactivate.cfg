SPECIFICATION Spec
CONSTANTS
  Tokens = {t1, t2}
  Workers = {w1, w2}
  MaxLeft = 1
  None = None
SYMMETRY Symmetry
INVARIANTS
  ReactivationRemovesBinding
