SPECIFICATION FairSpec
CONSTANTS
  Codes = {c1, c2}
  Installs = {i1}
  Requests = {r1, r2}
  None = None
PROPERTIES
  EveryRequestEnds
  ExpiredKeyIsNeverRedeemed
