--------------------------- MODULE MCRunLifecycle ---------------------------
(* RunLifecycle for TLC: pods are interchangeable, and so are replicas.      *)
EXTENDS RunLifecycle, TLC

ActorSymmetry == Permutations(Workers) \cup Permutations(Schedulers)

\* Bound for the runs with two task runs: at most one deadline passes.
OneDeadline ==
  Cardinality(clock.old) + Cardinality(clock.silent)
    + Cardinality(clock.cancelOld) <= 1
=============================================================================
