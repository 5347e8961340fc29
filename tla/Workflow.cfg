SPECIFICATION FairSpec
CONSTANTS
  Definition <- JoinDefinition
  Needs <- JoinNeeds
  MaxAttempts <- JoinAttempts
  Human = {"h"}
  Timed = {"a", "h"}
  Schema = {"c"}
  MaxParallel = 2
  RunTimeout = TRUE
  Results = {TRUE, FALSE}
  Reconcilers = {p1}
  StaleOwners = FALSE
  MaxAsks <- LastAsks
  MaxAborts = 1
INVARIANTS
  SuccessIsAccounted
  RowsAgree
  EndedIsQuiet
PROPERTIES
  RetriesFollowFailures
  ImplementsContract
  EveryRunEnds
CHECK_DEADLOCK FALSE
