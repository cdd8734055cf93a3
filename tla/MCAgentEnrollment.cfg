SPECIFICATION Spec
CONSTANTS
  Devices = {d1, d2}
  Nodes = {n1, n2}
  Groups = {g1, g2, g3}
  Handlers = {h1, h2}
  None = None
SYMMETRY Symmetry
INVARIANTS
  TypeOK
  GroupTellsDevice
  BoundToOwnAgent
  DeletionIsFinal
PROPERTIES
  OnePermanentGroup
