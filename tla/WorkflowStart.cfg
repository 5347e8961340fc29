SPECIFICATION StartSpec
CONSTANTS
  Definition <- PairDefinition
  Needs <- PairNeeds
  MaxAttempts <- PairAttempts
  Human = {}
  Timed = {}
  Schema = {}
  MaxParallel = 2
  RunTimeout = FALSE
  Results = {TRUE}
  Reconcilers = {p1}
  StaleOwners = FALSE
  MaxAsks <- NoAsks
  MaxAborts = 0
INVARIANT SuccessIsAccounted
CHECK_DEADLOCK FALSE
