SPECIFICATION Spec
CONSTANTS
  Handlers = {h1, h2}
  MaxVersion = 3
SYMMETRY Symmetry
INVARIANTS
  OneRequestWins
