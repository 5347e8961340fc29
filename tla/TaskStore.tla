----------------------------- MODULE TaskStore -----------------------------
(***************************************************************************)
(* The task and task_run tables of internal/infra/db, with the lifecycle    *)
(* rules of internal/core/task.  Each action is one database transaction:   *)
(* the store takes a row lock (createTaskRunTx) or a compare-and-set UPDATE *)
(* (TransitionTaskRun, RequestTaskRunCancel), so concurrent callers see it  *)
(* as one step.  StoreSpec lets any client call any operation at any time;  *)
(* the modules that extend this one say which client calls what and when.   *)
(*                                                                         *)
(* Nil is SQL NULL.  Columns that only carry text or timestamps the         *)
(* lifecycle never reads are folded into one column, out: the output, error *)
(* message, session, tokens and trace a transition writes together.         *)
(***************************************************************************)
EXTENDS Integers, FiniteSets

CONSTANTS
  Tasks,      \* task ids
  MaxRuns,    \* bound: rows the task_run table may hold
  MaxCount,   \* bound: how high failed starts and workflow runs count
  Keys,       \* idempotency keys a client may send
  Schedules,  \* schedule ids
  Outcomes,   \* what a transition may write into the output columns
  Reasons,    \* cancel reasons
  Classes,    \* failure classes
  Unclassified, \* the class a FAILED transition that names none records
  Nil         \* SQL NULL

Runs  == 1..MaxRuns
Kinds == {"seed", "successful", "partial"}

\* A checkpoint row is named by its unique key (source_task_run_id, kind).
Ckpts == Runs \X Kinds

ASSUME StoreAssumption ==
  /\ MaxRuns \in Nat /\ MaxCount \in Nat
  /\ Unclassified \in Classes
  /\ Nil \notin Tasks /\ Nil \notin Runs /\ Nil \notin Ckpts
  /\ Nil \notin Keys
  /\ Nil \notin Schedules /\ Nil \notin Outcomes
  /\ Nil \notin Reasons /\ Nil \notin Classes

VARIABLES
  run,       \* task_run rows; status "NONE" is a row not inserted yet
  task,      \* task rows; last = Nil is a task not created yet
  failures   \* schedule.consecutive_failures

storeVars == <<run, task, failures>>

-----------------------------------------------------------------------------
(* internal/core/task/task.go *)

Active   == {"PENDING", "SCHEDULED", "RUNNING"}
Terminal == {"SUCCEEDED", "FAILED", "CANCELED"}
Status   == Active \cup Terminal
Sources  == {"user", "schedule"}

\* Mutant: a run may fail before it is dispatched.
ValidTransition_PendingFails(from, to) ==
  \/ from = "PENDING"   /\ to \in {"SCHEDULED", "FAILED", "CANCELED"}
  \/ from = "SCHEDULED" /\ to \in {"RUNNING", "FAILED", "CANCELED"}
  \/ from = "RUNNING"   /\ to \in {"SUCCEEDED", "FAILED", "CANCELED"}

\* ValidRunStatusTransition: the lifecycle; terminal statuses have no successor.
ValidRunStatusTransition(from, to) ==
  \/ from = "PENDING"   /\ to \in {"SCHEDULED", "CANCELED"}
  \/ from = "SCHEDULED" /\ to \in {"RUNNING", "FAILED", "CANCELED"}
  \/ from = "RUNNING"   /\ to \in {"SUCCEEDED", "FAILED", "CANCELED"}

OrNil(S) == S \cup {Nil}

RunRow ==
  [task    : OrNil(Tasks),
   status  : Status \cup {"NONE"},
   prev    : OrNil(Runs),      \* previous_task_run_id
   retryOf : OrNil(Runs),      \* retry_of_task_run_id
   key     : OrNil(Keys),      \* idempotency_key
   source  : Sources,          \* trigger_source
   base    : OrNil(Ckpts),     \* workspace_base_checkpoint_id
   started : BOOLEAN,          \* started_at IS NOT NULL
   cancel  : BOOLEAN,          \* cancel_requested_at IS NOT NULL
   reason  : OrNil(Reasons),   \* cancel_reason
   class   : OrNil(Classes),   \* failure_class
   out     : OrNil(Outcomes),
   asks    : BOOLEAN]          \* questions IS NOT NULL

TaskRow ==
  [last   : OrNil(Runs),       \* last_run_id
   status : Status \cup {"NONE"},
   out    : OrNil(Outcomes),
   asks   : BOOLEAN,           \* awaiting_answer
   head   : OrNil(Ckpts),      \* workspace_head_checkpoint_id
   sched  : OrNil(Schedules)]  \* schedule_id

NoRow == [task |-> Nil, status |-> "NONE", prev |-> Nil, retryOf |-> Nil,
          key |-> Nil, source |-> "user", base |-> Nil, started |-> FALSE,
          cancel |-> FALSE, reason |-> Nil, class |-> Nil, out |-> Nil,
          asks |-> FALSE]

NoTask == [last |-> Nil, status |-> "NONE", out |-> Nil, asks |-> FALSE,
           head |-> Nil, sched |-> Nil]

\* What a transition carries besides the two statuses.
Update == [started : BOOLEAN, reason : OrNil(Reasons), class : OrNil(Classes),
           out : OrNil(Outcomes), asks : BOOLEAN]

NoUpdate == [started |-> FALSE, reason |-> Nil, class |-> Nil, out |-> Nil,
             asks |-> FALSE]

StoreInit ==
  /\ run = [r \in Runs |-> NoRow]
  /\ task = [t \in Tasks |-> NoTask]
  /\ failures = [s \in Schedules |-> 0]

-----------------------------------------------------------------------------
(* Reads *)

RunsOf(t) == {r \in Runs : run[r].task = t}

\* Mutant: a run that has not started does not count as active.
InProgress_StartedOnly(t) ==
  {r \in RunsOf(t) : run[r].status = "RUNNING"}

\* The count of createTaskRunTx and GetActiveTaskRunByTask.
InProgress(t) == {r \in RunsOf(t) : run[r].status \in Active}

\* The row an AUTO_INCREMENT insert takes: the first one not used.
NextRow(r) == /\ r \in Runs
              /\ run[r].status = "NONE"
              /\ \A q \in Runs : q < r => run[q].status # "NONE"

-----------------------------------------------------------------------------
(* Writes: one action per transaction *)

\* createTaskAndRunTx: the task, its first run and last_run_id together.
CreateTask(t, s) ==
  /\ task[t].last = Nil
  /\ \E r \in Runs :
       /\ NextRow(r)
       /\ run' = [run EXCEPT ![r] =
            [NoRow EXCEPT !.task = t, !.status = "PENDING",
                          !.source = IF s = Nil THEN "user" ELSE "schedule"]]
       /\ task' = [task EXCEPT ![t] =
            [NoTask EXCEPT !.last = r, !.status = "PENDING", !.sched = s]]
  /\ UNCHANGED failures

\* A repeated idempotency key answers with the run the key made.
KeyTaken(t, key) == key # Nil /\ \E r \in RunsOf(t) : run[r].key = key

\* Mutant: a retry is chained after the run it repeats.
NewRunRow_PrevIsRetried(t, key, retryOf) ==
  [NoRow EXCEPT !.task = t, !.status = "PENDING", !.retryOf = retryOf,
                !.prev = IF retryOf = Nil THEN task[t].last ELSE retryOf,
                !.key = key]

\* The row createTaskRunTx inserts.  It starts from the task's committed
\* workspace head; a retry from the base the repeated run was given.
NewRunRow(t, key, retryOf) ==
  [NoRow EXCEPT !.task = t, !.status = "PENDING", !.prev = task[t].last,
                !.retryOf = retryOf, !.key = key,
                !.base = IF retryOf = Nil THEN task[t].head
                                          ELSE run[retryOf].base]

\* createTaskRunTx, under the lock of the task row.  The insert mirrors the
\* new run onto the task in the same transaction.
CreateTaskRun(t, key, retryOf) ==
  /\ task[t].last # Nil
  /\ ~KeyTaken(t, key)
  /\ InProgress(t) = {}
  /\ \E r \in Runs :
       /\ NextRow(r)
       /\ run' = [run EXCEPT ![r] = NewRunRow(t, key, retryOf)]
       /\ task' = [task EXCEPT
            ![t].last = r, ![t].status = "PENDING", ![t].out = Nil,
            ![t].asks = FALSE]
  /\ UNCHANGED failures

\* buildTaskRunUpdates: a nil column is left as it is.
Keep(new, old) == IF new = Nil THEN old ELSE new

\* failureClassFor: a move to FAILED always records a class.
FailureClassFor(to, class) ==
  IF to # "FAILED" THEN Nil
  ELSE IF class = Nil THEN Unclassified ELSE class

UpdatedRun(row, to, u) ==
  [row EXCEPT !.status  = to,
              !.started = @ \/ u.started,
              !.reason  = Keep(u.reason, @),
              !.class   = Keep(FailureClassFor(to, u.class), @),
              !.out     = Keep(u.out, @),
              !.asks    = @ \/ u.asks]

\* Mutant: every run of a schedule's task counts.
FoldScheduleOutcome_AnyRun(row, to) ==
  LET s == task[row.task].sched
  IN  IF to \in {"SUCCEEDED", "FAILED"} /\ s # Nil
      THEN [failures EXCEPT ![s] = IF to = "FAILED" THEN @ + 1 ELSE 0]
      ELSE failures

\* Mutant: a success takes one failure back instead of resetting the count.
FoldScheduleOutcome_Decrement(row, to) ==
  LET s == task[row.task].sched
  IN  IF to \in {"SUCCEEDED", "FAILED"} /\ row.source = "schedule" /\ s # Nil
      THEN [failures EXCEPT ![s] = IF to = "FAILED" THEN @ + 1 ELSE @ - 1]
      ELSE failures

\* foldScheduleOutcome, inside the transition's transaction: only the run a
\* firing admitted speaks for the firing.
FoldScheduleOutcome(row, to) ==
  LET s == task[row.task].sched
  IN  IF /\ to \in {"SUCCEEDED", "FAILED"}
         /\ row.source = "schedule"
         /\ s # Nil
      THEN [failures EXCEPT ![s] = IF to = "FAILED" THEN @ + 1 ELSE 0]
      ELSE failures

\* Mutant: the task projection is left to somebody else.
TransitionTaskRun_NoProjection(r, from, to, u) ==
  LET row == UpdatedRun(run[r], to, u)
  IN  /\ ValidRunStatusTransition(from, to)
      /\ run[r].status = from
      /\ run' = [run EXCEPT ![r] = row]
      /\ failures' = FoldScheduleOutcome(row, to)
      /\ UNCHANGED task

\* TransitionTaskRun when the compare-and-set finds the row in from.  When it
\* does not, nothing is written and the caller learns updated = false.
TransitionTaskRun(r, from, to, u) ==
  LET row == UpdatedRun(run[r], to, u)
  IN  /\ ValidRunStatusTransition(from, to)
      /\ run[r].status = from
      /\ run' = [run EXCEPT ![r] = row]
      /\ task' = [task EXCEPT ![row.task].last = r, ![row.task].status = to,
                              ![row.task].out = row.out,
                              ![row.task].asks = row.asks]
      /\ failures' = FoldScheduleOutcome(row, to)

\* Mutant: a finished run can be asked to stop.
RequestTaskRunCancel_AnyStatus(r, reason) ==
  /\ run[r].status # "NONE"
  /\ ~run[r].cancel
  /\ run' = [run EXCEPT ![r].cancel = TRUE, ![r].reason = reason]
  /\ UNCHANGED <<task, failures>>

\* RequestTaskRunCancel: the first request on an active run; no status change.
RequestTaskRunCancel(r, reason) ==
  /\ run[r].status \in Active
  /\ ~run[r].cancel
  /\ run' = [run EXCEPT ![r].cancel = TRUE, ![r].reason = reason]
  /\ UNCHANGED <<task, failures>>

-----------------------------------------------------------------------------
(* The other writers of schedule.consecutive_failures.  None of them writes   *)
(* a task or a run.  Which of them a schedule meets depends on its executor    *)
(* and is left open.                                                         *)

\* UpdateSchedule with Enabled = true, whether or not it was enabled.
EnableSchedule(s) ==
  /\ failures' = [failures EXCEPT ![s] = 0]
  /\ UNCHANGED <<run, task>>

\* RecordFire of a firing that could not start its executor.
RecordFailedStart(s) ==
  /\ failures[s] < MaxCount
  /\ failures' = [failures EXCEPT ![s] = @ + 1]
  /\ UNCHANGED <<run, task>>

\* TransitionWorkflowRun of a run the schedule started, to succeeded or failed:
\* foldScheduleOutcome again.
FoldWorkflowOutcome(s, failed) ==
  /\ failed => failures[s] < MaxCount
  /\ failures' = [failures EXCEPT ![s] = IF failed THEN @ + 1 ELSE 0]
  /\ UNCHANGED <<run, task>>

-----------------------------------------------------------------------------

\* What the callers of TransitionTaskRun send with each new status: the claim
\* for dispatch nothing, the worker's claim a start time, an end its outcome.
Sent(from, to) ==
  {u \in Update : /\ u.started = (to = "RUNNING")
                  /\ (u.out # Nil) = (to \in Terminal)
                  /\ u.asks => to = "SUCCEEDED"
                  /\ u.class # Nil => to = "FAILED"
                  /\ u.reason # Nil => from = "PENDING" /\ to = "CANCELED"}

RunNext ==
  \/ \E t \in Tasks, s \in OrNil(Schedules) : CreateTask(t, s)
  \/ \E t \in Tasks, k \in OrNil(Keys) :
       \E q \in OrNil(RunsOf(t)) : CreateTaskRun(t, k, q)
  \/ \E r \in Runs, to \in Status :
       /\ ValidRunStatusTransition(run[r].status, to)
       /\ \E u \in Sent(run[r].status, to) :
            TransitionTaskRun(r, run[r].status, to, u)
  \/ \E r \in Runs, c \in Reasons : RequestTaskRunCancel(r, c)

CountNext(s) ==
  \/ EnableSchedule(s)
  \/ RecordFailedStart(s)
  \/ \E failed \in BOOLEAN : FoldWorkflowOutcome(s, failed)

StoreNext == RunNext \/ \E s \in Schedules : CountNext(s)

StoreSpec == StoreInit /\ [][StoreNext]_storeVars

-----------------------------------------------------------------------------
(* Properties *)

\* Rows and columns have their types (the gorm models of task.go, task_run.go).
StoreTypeOK ==
  /\ run \in [Runs -> RunRow]
  /\ task \in [Tasks -> TaskRow]
  /\ failures \in [Schedules -> Nat]

\* One task holds at most one active run: the rule the task row lock in
\* createTaskRunTx exists for, against doubled Continue and Retry requests.
OneActiveRun ==
  \A r, q \in Runs : /\ run[r].status \in Active
                     /\ run[q].status \in Active
                     /\ run[r].task = run[q].task
                     => r = q

\* The task never disagrees with its last run: whatever path created or moved
\* a run last, the task row shows the newest run of that task, with that run's
\* status, output and pending question.
TaskMirrorsLastRun ==
  \A t \in Tasks :
    LET l == task[t].last
    IN  IF l = Nil THEN RunsOf(t) = {}
        ELSE /\ l \in RunsOf(t)
             /\ \A q \in RunsOf(t) : q <= l
             /\ task[t].status = run[l].status
             /\ task[t].out = run[l].out
             /\ task[t].asks = run[l].asks

\* A task's runs form one chain: previous_task_run_id names the newest older
\* run of the same task, and a retry repeats an older run of the same task.
LinearHistory ==
  \A r \in Runs : run[r].status # "NONE" =>
    LET older == {q \in RunsOf(run[r].task) : q < r}
    IN  /\ IF older = {} THEN run[r].prev = Nil
           ELSE /\ run[r].prev \in older
                /\ \A q \in older : q <= run[r].prev
        /\ run[r].retryOf \in OrNil(older)

\* The columns a reader takes as a run's outcome.
Outcome(row) == <<row.status, row.out, row.asks, row.class, row.reason,
                  row.started, row.cancel>>

\* A terminal run never changes again: no late worker report, reaper, cancel
\* or dispatch failure rewrites an outcome that was accepted.
TerminalIsFinal ==
  [][\A r \in Runs : run[r].status \in Terminal
       => Outcome(run'[r]) = Outcome(run[r])]_storeVars

-----------------------------------------------------------------------------
(* The contract the store implements *)

\* A verdict is everything Outcome shows of a terminal run.
VerdictOf(row) == IF row.status \in Terminal THEN Outcome(row) ELSE Nil
Verdicts == Terminal \X OrNil(Outcomes) \X BOOLEAN \X OrNil(Classes)
              \X OrNil(Reasons) \X BOOLEAN \X BOOLEAN

Contract == INSTANCE RunContract WITH
  RunIds  <- Runs,
  current <- [t \in Tasks |-> task[t].last],
  phase   <- [t \in Tasks |-> task[t].status],
  verdict <- [r \in Runs |-> VerdictOf(run[r])]

\* The store implements RunContract: read through last_run_id and status, every
\* transaction opens, advances or settles the one current run of one task, or
\* changes nothing the contract shows.
ImplementsContract == Contract!Spec
=============================================================================
