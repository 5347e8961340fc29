---------------------------- MODULE RunContract ----------------------------
(***************************************************************************)
(* What the task store promises to whoever reads a task: the task works on  *)
(* one run at a time, a new run is opened only once the current one has its *)
(* verdict, and a verdict, once given, stays.  No rows, no columns, no      *)
(* compare-and-set.                                                         *)
(***************************************************************************)
CONSTANTS Tasks, RunIds, Verdicts, Nil

VARIABLES
  current,   \* task -> the run it works on or worked on last
  phase,     \* task -> where that run is
  verdict    \* run -> Nil, or how it ended

vars == <<current, phase, verdict>>

Working == {"PENDING", "SCHEDULED", "RUNNING"}
Ended   == {"SUCCEEDED", "FAILED", "CANCELED"}

Init ==
  /\ current = [t \in Tasks |-> Nil]
  /\ phase = [t \in Tasks |-> "NONE"]
  /\ verdict = [r \in RunIds |-> Nil]

\* A task with nothing under way takes a run no task has worked on.
Open(t) ==
  /\ phase[t] \notin Working
  /\ \E r \in RunIds :
       /\ verdict[r] = Nil
       /\ \A u \in Tasks : current[u] # r
       /\ current' = [current EXCEPT ![t] = r]
  /\ phase' = [phase EXCEPT ![t] = "PENDING"]
  /\ UNCHANGED verdict

Advance(t) ==
  /\ \/ phase[t] = "PENDING"   /\ phase' = [phase EXCEPT ![t] = "SCHEDULED"]
     \/ phase[t] = "SCHEDULED" /\ phase' = [phase EXCEPT ![t] = "RUNNING"]
  /\ UNCHANGED <<current, verdict>>

\* The current run, and no other, gets its one verdict.
Settle(t) ==
  LET v == verdict'[current[t]]
  IN  /\ phase[t] \in Working
      /\ verdict[current[t]] = Nil
      /\ v \in Verdicts
      /\ v[1] = "SUCCEEDED" => phase[t] = "RUNNING"
      /\ v[1] = "FAILED" => phase[t] # "PENDING"
      /\ phase' = [phase EXCEPT ![t] = v[1]]
      /\ verdict' = [verdict EXCEPT ![current[t]] = v]
      /\ UNCHANGED current

Next == \E t \in Tasks : Open(t) \/ Advance(t) \/ Settle(t)

Spec == Init /\ [][Next]_vars
=============================================================================
