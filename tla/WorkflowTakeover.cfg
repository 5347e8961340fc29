SPECIFICATION Spec
CONSTANTS
  Definition <- PairDefinition
  Needs <- PairNeeds
  MaxAttempts <- PairAttempts
  Human = {}
  Timed = {}
  Schema = {}
  MaxParallel = 1
  RunTimeout = FALSE
  Results = {TRUE, FALSE}
  Reconcilers = {p1, p2}
  StaleOwners = TRUE
  MaxAsks <- NoAsks
  MaxAborts = 0
SYMMETRY ReconcilerSymmetry
INVARIANT NoDuplicateAdmission
PROPERTY ImplementsContract
CHECK_DEADLOCK FALSE
