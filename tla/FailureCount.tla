---------------------------- MODULE FailureCount ----------------------------
(***************************************************************************)
(* What schedule.consecutive_failures counts.  Four transactions of         *)
(* TaskStore write the column and none reads the others' rows; the          *)
(* dispatcher pauses a schedule on the number alone.  The history variables *)
(* record what the number should stand for: the failures since the last     *)
(* success or enabling, whoever settled them.                               *)
(***************************************************************************)
EXTENDS TaskStore

VARIABLES
  before,  \* schedule -> its firings that had ended when it last started over
  others   \* schedule -> failed starts and failed workflow runs since then

countVars == <<run, task, failures, before, others>>

\* The runs the schedule's firings admitted: not their Continues and Retries.
Firings(s) == {r \in Runs : /\ run[r].source = "schedule"
                            /\ run[r].task # Nil
                            /\ task[run[r].task].sched = s}

Ended(s) == {r \in Firings(s) : run[r].status \in Terminal}

\* The firings of s this step ends with status.
NowEnds(s, status) ==
  {r \in Firings(s) : run[r].status \in Active /\ run'[r].status = status}

Init ==
  /\ StoreInit
  /\ before = [s \in Schedules |-> {}]
  /\ others = [s \in Schedules |-> 0]

StartOver(s) ==
  /\ before' = [before EXCEPT ![s] = Ended(s)]
  /\ others' = [others EXCEPT ![s] = 0]

CountOther(s) ==
  /\ others' = [others EXCEPT ![s] = @ + 1]
  /\ UNCHANGED before

\* A step of the runs: a firing that succeeds starts its schedule over.
RunStep ==
  /\ RunNext
  /\ before' = [s \in Schedules |->
                  IF NowEnds(s, "SUCCEEDED") # {}
                  THEN Ended(s) \cup NowEnds(s, "SUCCEEDED") ELSE before[s]]
  /\ others' = [s \in Schedules |->
                  IF NowEnds(s, "SUCCEEDED") # {} THEN 0 ELSE others[s]]

Next ==
  \/ RunStep
  \/ \E s \in Schedules :
       \/ EnableSchedule(s) /\ StartOver(s)
       \/ RecordFailedStart(s) /\ CountOther(s)
       \/ FoldWorkflowOutcome(s, TRUE) /\ CountOther(s)
       \/ FoldWorkflowOutcome(s, FALSE) /\ StartOver(s)

Spec == Init /\ [][Next]_countVars

-----------------------------------------------------------------------------

\* The number the dispatcher pauses on is exact: the failures since the
\* schedule last succeeded or was enabled, each counted once.  A firing that
\* failed counts whichever of worker, dispatcher, reaper and cancel settled it;
\* its Continues and Retries, a cancel, and failures from before do not
\* (foldScheduleOutcome, RecordFire, UpdateSchedule, TransitionWorkflowRun).
FailuresExact ==
  \A s \in Schedules :
    LET failed == {r \in Firings(s) : run[r].status = "FAILED"} \ before[s]
    IN  failures[s] = Cardinality(failed) + others[s]
=============================================================================
