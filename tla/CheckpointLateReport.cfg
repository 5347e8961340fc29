SPECIFICATION Spec
CONSTANTS
  Tasks = {t1}
  MaxRuns = 2
  MaxCount = 1
  Keys = {}
  Schedules = {}
  Outcomes = {"worker", "reaper"}
  Reasons = {}
  Classes = {"run", "abandoned"}
  Unclassified = "run"
  Nil = Nil
  Payloads <- DistinctPayloads
  Content <- DistinctContent
  GraceDays = 0
INVARIANT HeadFromAcceptedRun
CHECK_DEADLOCK FALSE
