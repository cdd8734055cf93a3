SPECIFICATION MCSpec
CONSTANTS
  MaxConnections = 2
  Attempts = 4
  MaxFailures = 4
  MaxRestarts = 1
  Commands = {k1}
INVARIANTS
  TypeOK
  HeartbeatRuns
  AnsweredOnce
  AuditTellsRuns
PROPERTIES
  ListBecomesRight
  CommandsEnd
CHECK_DEADLOCK FALSE
