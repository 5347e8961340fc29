SPECIFICATION Spec
CONSTANTS
  Tasks = {t1}
  MaxRuns = 1
  MaxCount = 1
  Schedulers = {s1, s2}
  Workers = {w1, w2}
  Runner = "k8s"
  Keys = {}
  Schedules = {}
  Outcomes = {"scheduler", "worker", "reaper", "client"}
  Reasons = {"user_requested", "creator_disabled"}
  Classes = {"dispatch", "worker_lost", "abandoned", "run",
             "space_configuration", "unclassified"}
  Unclassified = "unclassified"
  Nil = Nil
  Withdrawn = {}
SYMMETRY ActorSymmetry
INVARIANTS
  TypeOK
  SoleOwner
  EarlyCancelNeverRuns
  ClassMatchesProgress
CHECK_DEADLOCK FALSE
