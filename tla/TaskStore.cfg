SPECIFICATION Spec
CONSTANTS
  Tasks = {t1, t2}
  MaxRuns = 3
  MaxCount = 1
  Keys = {k1}
  Schedules = {s1}
  Outcomes = {o1}
  Reasons = {c1}
  Classes = {f1}
  Unclassified = f1
  Nil = Nil
INVARIANTS
  StoreTypeOK
  OneActiveRun
  TaskMirrorsLastRun
  LinearHistory
  FailuresExact
PROPERTIES
  TerminalIsFinal
  ImplementsContract
CHECK_DEADLOCK FALSE
SYMMETRY TaskSymmetry
