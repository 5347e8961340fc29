---------------------------- MODULE MCTurnQueue ----------------------------
(* Deployments and bounds for TLC.                                           *)
EXTENDS TurnQueue

Calm == [mode |-> "redis", jobs |-> 3, messages |-> 1, faults |-> 0,
         drops |-> 0, drains |-> 0]

\* Three turns and a fault; two turns that append twice, with two faults; a
\* replica that shuts down and a caller that leaves; one replica, no Locker.
Leases == [Calm EXCEPT !.faults = 1]
Fences == [Calm EXCEPT !.jobs = 2, !.messages = 2, !.faults = 2]
Leaving == [Calm EXCEPT !.messages = 0, !.drops = 1, !.drains = 1]
Alone == [Leaving EXCEPT !.mode = "local", !.messages = 1]

MCScenarios == {Leases, Fences, Leaving, Alone}
=============================================================================
