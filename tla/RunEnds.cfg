SPECIFICATION ReaperSpec
CONSTANTS
  Tasks = {t1}
  MaxRuns = 1
  MaxCount = 1
  Schedulers = {s1}
  Workers = {w1}
  Runner = "k8s"
  Keys = {}
  Schedules = {}
  Outcomes = {"scheduler", "worker", "reaper", "client"}
  Reasons = {"user_requested", "creator_disabled"}
  Classes = {"dispatch", "worker_lost", "abandoned", "run",
             "space_configuration", "unclassified"}
  Unclassified = "unclassified"
  Nil = Nil
  Withdrawn = {"creator_disabled"}
PROPERTIES
  EveryRunSettles
  CancelSettles
  WithdrawnStops
CHECK_DEADLOCK FALSE
