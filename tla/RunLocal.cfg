SPECIFICATION Spec
CONSTANTS
  Tasks = {t1}
  MaxRuns = 2
  MaxCount = 1
  Schedulers = {s1}
  Workers = {w1}
  Runner = "local"
  Keys = {}
  Schedules = {}
  Outcomes = {"scheduler", "worker", "reaper", "client"}
  Reasons = {"user_requested", "creator_disabled"}
  Classes = {"dispatch", "worker_lost", "abandoned", "run",
             "space_configuration", "unclassified"}
  Unclassified = "unclassified"
  Nil = Nil
  Withdrawn = {}
PROPERTIES
  ImplementsStore
  AnsweredReportSettles
CONSTRAINT OneDeadline
CHECK_DEADLOCK FALSE
