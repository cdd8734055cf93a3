SPECIFICATION Spec
CONSTANTS
  Codes = {c1, c2, c3}
  Installs = {i1, i2}
  Requests = {r1, r2, r3}
  None = None
SYMMETRY Symmetry
INVARIANTS
  TypeOK
  ActiveDeviceHoldsItsOnlyKey
  CopiedKeyIsUnspent
PROPERTIES
  ImplementsOneTimeKey
