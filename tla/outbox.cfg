SPECIFICATION FairSpec
CONSTANTS
  reset = reset  welcome = welcome  member = member
  Tasks = {t1, t2}
  NoTask = NoTask
  Emails = {reset, welcome}
  To <- OneAddress
  TimeCritical = {reset}
  Secret = {reset}
  Refusable = {reset}
  Outcomes = {"DELIVERED", "BOUNCED"}
  MaxAttempts = 2
  Rate = 1
  MaxAsks = 2
  MaxReports = 2
  MaxFaults = 1
INVARIANTS
  TypeOK
  TwiceOnlyAfterASlip
  OutboxTellsTheTruth
  SecretsAreCleared
  NoWakeLost
PROPERTIES
  ReportsStand
  EmailsSettle
CHECK_DEADLOCK FALSE
