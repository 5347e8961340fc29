SPECIFICATION FairSpec
CONSTANTS
  Replicas = {r1, r2}
  Rules <- MCRules
  Period <- MCPeriod
  MaxFailures = 1
  Scenarios <- MCScenarios
INVARIANTS
  TypeOK
  OneFirePerEdit
  OvershootIsBounded
  SentOnce
PROPERTIES
  DueIsHandled
  DeliveriesSettle
CHECK_DEADLOCK FALSE
