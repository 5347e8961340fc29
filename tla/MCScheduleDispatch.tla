------------------------- MODULE MCScheduleDispatch -------------------------
(* Cron rules for TLC.                                                       *)
EXTENDS ScheduleDispatch, TLC

\* Every minute, every other minute, and a stored rule that no longer parses.
MCRules == {"minutely", "alternate", "broken"}
MCPeriod == "minutely" :> 1 @@ "alternate" :> 2 @@ "broken" :> 0

\* Three due times; two while a person enables the schedule; one with an edit
\* of any kind that is about firing; one with deliveries.
Firing == [ticks |-> 3, edits |-> 0, continues |-> 0, faults |-> 0,
           kinds |-> {}, target |-> FALSE]
Enabling == [Firing EXCEPT !.ticks = 2, !.edits = 1, !.kinds = {"enable"}]
Editing == [Enabling EXCEPT !.ticks = 1,
              !.kinds = {"enable", "disable", "rule", "delete", "authority"}]
Delivering == [ticks |-> 1, edits |-> 1, continues |-> 1, faults |-> 1,
               kinds |-> {"target", "delete"}, target |-> TRUE]
MCScenarios == {Firing, Enabling, Editing, Delivering}
=============================================================================
