SPECIFICATION MCSpec
CONSTANTS
  Requests = {r1, r2, r3}
  Logins = {ann, bob}
  MaxCrashes = 2
  None = None
INVARIANTS
  TypeOK
  SetupIsWhole
  OneInstallation
PROPERTIES
  ServerStartsAfterSetup
CHECK_DEADLOCK FALSE
