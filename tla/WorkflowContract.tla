-------------------------- MODULE WorkflowContract --------------------------
(***************************************************************************)
(* What a workflow run promises to whoever started it, whatever reconciler  *)
(* drives it and however often: work for a node is begun only while the run *)
(* is open, after everything the node needs is done, and never again once   *)
(* the node is done; a node's result is accepted once; the first stop cause *)
(* decides how a stopped run ends; and a run that succeeds has done         *)
(* everything.                                                              *)
(***************************************************************************)
EXTENDS Naturals

CONSTANTS Nodes, Needs

VARIABLES
  phase,   \* running, a stop intent, or how the run ended
  begun,   \* node -> pieces of work begun for it (TaskRuns and requests)
  done     \* nodes whose result has been accepted

vars == <<phase, begun, done>>

Init ==
  /\ phase = "running"
  /\ begun = [n \in Nodes |-> 0]
  /\ done = {}

Begin(n) ==
  /\ phase = "running"
  /\ Needs[n] \subseteq done
  /\ n \notin done
  /\ begun' = [begun EXCEPT ![n] = @ + 1]
  /\ UNCHANGED <<phase, done>>

\* A stopped run, even one that has ended, still records how an attempt ended.
Accept(n) ==
  /\ begun[n] > 0
  /\ n \notin done
  /\ done' = done \cup {n}
  /\ UNCHANGED <<phase, begun>>

Stop ==
  /\ phase = "running"
  /\ phase' \in {"failing", "canceling"}
  /\ UNCHANGED <<begun, done>>

End ==
  /\ \/ phase = "running" /\ done = Nodes /\ phase' = "succeeded"
     \/ phase = "failing" /\ phase' = "failed"
     \/ phase = "canceling" /\ phase' = "canceled"
  /\ UNCHANGED <<begun, done>>

Next == (\E n \in Nodes : Begin(n) \/ Accept(n)) \/ Stop \/ End

Spec == Init /\ [][Next]_vars
=============================================================================
