SPECIFICATION FairSpec
CONSTANTS
  Handlers = {h1, h2}
  MaxVersion = 3
INVARIANTS
  TypeOK
  ServerHasItsSchema
PROPERTIES
  UpgradesOnly
  UpdatesEnd
