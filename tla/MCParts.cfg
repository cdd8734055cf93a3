SPECIFICATION MCSpec
CONSTANTS
  GroupIds = {g1}
  DeviceIds = {d1}
  Calls = {r1, r2}
  NoGroup = NoGroup
  WallDevices = {d1, d2}
  WallGroups = {g1}
  TileCounts = {1, 2}
  Ungrouped = Ungrouped
  Users = {u1, u2, u3}
  MaxConns = 2
  Errors = {e1, e2, e3, e4}
  Oversized = {e4}
  Large = {e1, e2}
  BodyLimit = 1
  QueueLimit = 2
  MaxFlushes = 1
  Torn = Torn
  Mixtures = {{e1, e2, e3}, {e1, e3, e4}}
  Tasks = {t1, t2}
INVARIANTS
  TypeOK
  NoCircularWait
  EveryDeviceIsShown
  ProgramIsVerified
  NoErrorIsLost
PROPERTIES
  RequestsEnd
  UploadsDrain
  ImplementsElevatedCall
CHECK_DEADLOCK FALSE
