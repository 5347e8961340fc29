------------------------- MODULE MCWorkflowRuntime -------------------------
(* Workflow definitions for TLC.                                             *)
EXTENDS WorkflowRuntime, TLC

\* An Agent node with a retry, a person's input beside it, and an Agent node
\* that needs both.
JoinDefinition == <<"a", "h", "c">>
JoinNeeds == "a" :> {} @@ "h" :> {} @@ "c" :> {"a", "h"}
JoinAttempts == "a" :> 2 @@ "h" :> 1 @@ "c" :> 1

\* Two Agent nodes that do not need one another, the first with a retry.
PairDefinition == <<"a", "b">>
PairNeeds == "a" :> {} @@ "b" :> {}
PairAttempts == "a" :> 2 @@ "b" :> 1

\* Questions each Agent may ask.
NoAsks == [n \in Nodes |-> 0]
LastAsks == [n \in Nodes |-> IF n = "c" THEN 1 ELSE 0]

ReconcilerSymmetry == Permutations(Reconcilers)
=============================================================================
