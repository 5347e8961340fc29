-------------------------- MODULE TaskStoreProofs --------------------------
(***************************************************************************)
(* What TaskStore guarantees for every number of tasks, runs, keys and      *)
(* schedules, proved with TLAPS.                                            *)
(*                                                                         *)
(* TaskMirrorsLastRun is not inductive: a transition writes the run it      *)
(* moves into last_run_id, so it needs to know that only the last run of a  *)
(* task is ever active, which in turn needs that rows are inserted in id    *)
(* order and that an insert finds no active run.  StoreInv adds these facts.*)
(***************************************************************************)
EXTENDS TaskStore, FiniteSetTheorems, TLAPS

\* A row that was inserted belongs to a task, one that was not to none.
RowsKnown ==
  \A r \in Runs : IF run[r].status = "NONE" THEN run[r].task = Nil
                                            ELSE run[r].task \in Tasks

\* Ids are handed out in order.
RowsInOrder ==
  \A r, q \in Runs : q < r /\ run[q].status = "NONE" => run[r].status = "NONE"

\* A task row that was not inserted shows nothing.
NoTaskYet == \A t \in Tasks : task[t].last = Nil => task[t] = NoTask

\* Only the run the task points at can still move.
ActiveIsLast ==
  \A r \in Runs : run[r].status \in Active => task[run[r].task].last = r

StoreInv ==
  /\ StoreTypeOK
  /\ RowsKnown
  /\ RowsInOrder
  /\ NoTaskYet
  /\ ActiveIsLast
  /\ TaskMirrorsLastRun
  /\ LinearHistory

\* The shape CreateTask and CreateTaskRun share: row r of table run becomes
\* row, task t becomes trow, and trow mirrors row.
Insert(t, r, row, trow) ==
  /\ NextRow(r)
  /\ InProgress(t) = {}
  /\ row \in RunRow /\ trow \in TaskRow
  /\ row.task = t /\ row.status = "PENDING"
  /\ row.prev = task[t].last
  /\ row.retryOf \in OrNil(RunsOf(t))
  /\ trow.last = r /\ trow.status = "PENDING"
  /\ trow.out = row.out /\ trow.asks = row.asks
  /\ run' = [run EXCEPT ![r] = row]
  /\ task' = [task EXCEPT ![t] = trow]
  /\ failures' = failures

\* The shape of a transition: an active row keeps its identity, and its task
\* points at it and mirrors it.
Move(r, row) ==
  /\ run[r].status \in Active
  /\ row \in RunRow
  /\ row.task = run[r].task /\ row.prev = run[r].prev
  /\ row.retryOf = run[r].retryOf /\ row.status \in Status
  /\ run' = [run EXCEPT ![r] = row]
  /\ task' = [task EXCEPT ![row.task].last = r, ![row.task].status = row.status,
                          ![row.task].out = row.out, ![row.task].asks = row.asks]

-----------------------------------------------------------------------------

\* CreateTask is an Insert: a task without last_run_id has no runs at all.
LEMMA CreateTaskInserts ==
  ASSUME StoreInv, NEW t \in Tasks, NEW s \in OrNil(Schedules), CreateTask(t, s)
  PROVE  \E r \in Runs, row \in RunRow, trow \in TaskRow : Insert(t, r, row, trow)
<1>1. PICK r \in Runs :
        /\ NextRow(r)
        /\ run' = [run EXCEPT ![r] =
             [NoRow EXCEPT !.task = t, !.status = "PENDING",
                           !.source = IF s = Nil THEN "user" ELSE "schedule"]]
        /\ task' = [task EXCEPT ![t] =
             [NoTask EXCEPT !.last = r, !.status = "PENDING", !.sched = s]]
  BY DEF CreateTask
<1> DEFINE row  == [NoRow EXCEPT !.task = t, !.status = "PENDING",
                      !.source = IF s = Nil THEN "user" ELSE "schedule"]
           trow == [NoTask EXCEPT !.last = r, !.status = "PENDING", !.sched = s]
<1>2. row \in RunRow
  BY DEF NoRow, RunRow, OrNil, Status, Active, Sources
<1>3. trow \in TaskRow
  BY DEF NoTask, TaskRow, OrNil, Status, Active
<1>4. task[t].last = Nil
  BY DEF CreateTask
<1>5. RunsOf(t) = {}
  BY <1>4 DEF StoreInv, TaskMirrorsLastRun
<1>6. InProgress(t) = {}
  BY <1>5 DEF InProgress
<1>7. Insert(t, r, row, trow)
  BY <1>1, <1>2, <1>3, <1>4, <1>6 DEF Insert, NoRow, NoTask, OrNil, CreateTask
<1> QED
  BY <1>2, <1>3, <1>7

\* CreateTaskRun is an Insert: the task row keeps its head and its schedule.
LEMMA CreateTaskRunInserts ==
  ASSUME StoreInv, NEW t \in Tasks, NEW key \in OrNil(Keys),
         NEW q \in OrNil(RunsOf(t)), CreateTaskRun(t, key, q)
  PROVE  \E r \in Runs, row \in RunRow, trow \in TaskRow : Insert(t, r, row, trow)
<1>1. PICK r \in Runs :
        /\ NextRow(r)
        /\ run' = [run EXCEPT ![r] = NewRunRow(t, key, q)]
        /\ task' = [task EXCEPT
             ![t].last = r, ![t].status = "PENDING", ![t].out = Nil,
             ![t].asks = FALSE]
  BY DEF CreateTaskRun
<1> DEFINE row  == NewRunRow(t, key, q)
           trow == [task[t] EXCEPT !.last = r, !.status = "PENDING",
                                   !.out = Nil, !.asks = FALSE]
<1>2. task[t] \in TaskRow /\ \A p \in Runs : run[p] \in RunRow
  BY DEF StoreInv, StoreTypeOK
<1>3. q \in OrNil(Runs)
  BY DEF OrNil, RunsOf
<1>4. row \in RunRow
  <2> DEFINE base == IF q = Nil THEN task[t].head ELSE run[q].base
  <2>1. base \in OrNil(Ckpts) /\ task[t].last \in OrNil(Runs)
    BY <1>2, <1>3 DEF TaskRow, RunRow, OrNil
  <2> HIDE DEF base
  <2>2. row = [NoRow EXCEPT !.task = t, !.status = "PENDING",
                            !.prev = task[t].last, !.retryOf = q,
                            !.key = key, !.base = base]
    BY DEF NewRunRow, base
  <2> QED
    BY <1>3, <2>1, <2>2 DEF NoRow, RunRow, OrNil, Status, Active, Sources
<1>5. trow \in TaskRow
  BY <1>2 DEF TaskRow, OrNil, Status, Active
<1>6. task' = [task EXCEPT ![t] = trow]
  BY <1>1, <1>2 DEF StoreInv, StoreTypeOK, TaskRow
<1>7. Insert(t, r, row, trow)
  <2>1. /\ row.task = t /\ row.status = "PENDING" /\ row.prev = task[t].last
        /\ row.retryOf = q /\ row.out = Nil /\ row.asks = FALSE
    BY DEF NewRunRow, NoRow
  <2>2. /\ trow.last = r /\ trow.status = "PENDING"
        /\ trow.out = Nil /\ trow.asks = FALSE
    BY <1>2 DEF TaskRow
  <2> QED
    BY <1>1, <1>4, <1>5, <1>6, <2>1, <2>2 DEF Insert, CreateTaskRun
<1> QED
  BY <1>4, <1>5, <1>7

\* buildTaskRunUpdates keeps a row a row and its identity columns as they are.
LEMMA UpdatedRunRow ==
  ASSUME NEW row \in RunRow, NEW to \in Status, NEW u \in Update
  PROVE  /\ UpdatedRun(row, to, u) \in RunRow
         /\ UpdatedRun(row, to, u).status = to
         /\ UpdatedRun(row, to, u).task = row.task
         /\ UpdatedRun(row, to, u).prev = row.prev
         /\ UpdatedRun(row, to, u).retryOf = row.retryOf
         /\ UpdatedRun(row, to, u).source = row.source
<1> DEFINE class == Keep(FailureClassFor(to, u.class), row.class)
           reason == Keep(u.reason, row.reason)
           out == Keep(u.out, row.out)
           started == row.started \/ u.started
           asks == row.asks \/ u.asks
<1>1. class \in OrNil(Classes)
  BY StoreAssumption DEF Keep, FailureClassFor, RunRow, Update, OrNil
<1>2. reason \in OrNil(Reasons) /\ out \in OrNil(Outcomes)
  BY DEF Keep, RunRow, Update, OrNil
<1>3. started \in BOOLEAN /\ asks \in BOOLEAN
  OBVIOUS
<1>4. UpdatedRun(row, to, u) =
        [row EXCEPT !.status = to, !.started = started, !.reason = reason,
                    !.class = class, !.out = out, !.asks = asks]
  BY DEF UpdatedRun, RunRow
<1> HIDE DEF class, reason, out, started, asks
<1> QED
  BY <1>1, <1>2, <1>3, <1>4 DEF RunRow

\* A transition is a Move, whatever status it leaves and enters.
LEMMA TransitionMoves ==
  ASSUME StoreInv, NEW r \in Runs, NEW to \in Status, NEW u \in Update,
         TransitionTaskRun(r, run[r].status, to, u)
  PROVE  /\ Move(r, UpdatedRun(run[r], to, u))
         /\ failures' = FoldScheduleOutcome(UpdatedRun(run[r], to, u), to)
<1>1. run[r] \in RunRow
  BY DEF StoreInv, StoreTypeOK
<1>2. run[r].status \in Active
  BY DEF TransitionTaskRun, ValidRunStatusTransition, Active
<1> DEFINE row == UpdatedRun(run[r], to, u)
<1>3. /\ row \in RunRow /\ row.status = to /\ row.task = run[r].task
      /\ row.prev = run[r].prev /\ row.retryOf = run[r].retryOf
  BY <1>1, UpdatedRunRow
<1> QED
  BY <1>2, <1>3 DEF TransitionTaskRun, Move

\* The failure count stays a number: a success resets it.
LEMMA FoldType ==
  ASSUME StoreTypeOK, NEW row, NEW to
  PROVE  FoldScheduleOutcome(row, to) \in [Schedules -> Nat]
<1> DEFINE s == task[row.task].sched
<1>1. \A n \in Nat : [failures EXCEPT ![s] = n] \in [Schedules -> Nat]
  BY DEF StoreTypeOK
<1>2. [failures EXCEPT ![s] = failures[s] + 1] \in [Schedules -> Nat]
  <2>1. CASE s \in Schedules
    BY <1>1, <2>1 DEF StoreTypeOK
  <2>2. CASE s \notin Schedules
    BY <2>2 DEF StoreTypeOK
  <2> QED
    BY <2>1, <2>2
<1>3. CASE to = "FAILED"
  BY <1>2, <1>3 DEF StoreTypeOK, FoldScheduleOutcome
<1>4. CASE to # "FAILED"
  BY <1>1, <1>4 DEF StoreTypeOK, FoldScheduleOutcome
<1> QED
  BY <1>3, <1>4

-----------------------------------------------------------------------------
(* Each shape preserves StoreInv *)

\* A new row is the newest of its task and the only active one.
LEMMA InsertPreserves ==
  ASSUME StoreInv, NEW t \in Tasks, NEW r \in Runs, NEW row, NEW trow,
         Insert(t, r, row, trow)
  PROVE  StoreInv'
<1>1. StoreTypeOK'
  BY DEF StoreInv, StoreTypeOK, Insert
<1>2. /\ run'[r] = row /\ \A q \in Runs \ {r} : run'[q] = run[q]
      /\ task'[t] = trow /\ \A u \in Tasks \ {t} : task'[u] = task[u]
  BY DEF StoreInv, StoreTypeOK, Insert
<1>3. /\ run[r].task = Nil
      /\ \A q \in Runs : run[q].status # "NONE" => q < r
      /\ \A q \in Runs : q < r => run[q].status # "NONE"
  <2>1. \A q \in Runs : run[q].status # "NONE" => ~(r < q) /\ q # r
    BY DEF StoreInv, RowsInOrder, Insert, NextRow
  <2> QED
    BY <2>1 DEF StoreInv, RowsKnown, Insert, NextRow, Runs
<1>4. RowsKnown'
  BY <1>2 DEF StoreInv, RowsKnown, Insert
<1>5. RowsInOrder'
  BY <1>2, <1>3 DEF StoreInv, RowsInOrder, Insert, Runs
<1>6. RunsOf(t)' = RunsOf(t) \cup {r}
  BY <1>2, <1>3 DEF RunsOf, Insert
<1>7. \A u \in Tasks \ {t} : RunsOf(u)' = RunsOf(u)
  BY <1>2, <1>3, StoreAssumption DEF RunsOf, Insert
<1>8. \A q \in RunsOf(t) : q < r /\ run[q].status \notin Active
  BY <1>3, StoreAssumption DEF StoreInv, RowsKnown, RunsOf, Insert, InProgress
<1>9. ActiveIsLast'
  <2> SUFFICES ASSUME NEW q \in Runs, run'[q].status \in Active
               PROVE  task'[run'[q].task].last = q
    BY DEF ActiveIsLast
  <2>1. CASE q = r
    BY <1>2, <2>1 DEF Insert
  <2>2. CASE q # r
    <3>1. run[q].status \in Active /\ run'[q] = run[q]
      BY <1>2, <2>2
    <3>2. run[q].task \in Tasks
      BY <3>1 DEF StoreInv, RowsKnown, Active
    <3>3. run[q].task # t
      BY <1>8, <3>1 DEF RunsOf
    <3> QED
      BY <1>2, <3>1, <3>2, <3>3 DEF StoreInv, ActiveIsLast
  <2> QED
    BY <2>1, <2>2
<1>10. TaskMirrorsLastRun'
  <2> SUFFICES ASSUME NEW u \in Tasks
               PROVE  LET l == task'[u].last
                      IN  IF l = Nil THEN RunsOf(u)' = {}
                          ELSE /\ l \in RunsOf(u)'
                               /\ \A q \in RunsOf(u)' : q <= l
                               /\ task'[u].status = run'[l].status
                               /\ task'[u].out = run'[l].out
                               /\ task'[u].asks = run'[l].asks
    BY DEF TaskMirrorsLastRun
  <2>1. CASE u = t
    BY <1>2, <1>6, <1>8, <2>1, StoreAssumption DEF Insert, Runs, RunsOf
  <2>2. CASE u # t
    <3>1. task'[u] = task[u] /\ RunsOf(u)' = RunsOf(u)
      BY <1>2, <1>7, <2>2
    <3>2. \A q \in RunsOf(u) : run'[q] = run[q]
      BY <1>2, <1>3, StoreAssumption DEF RunsOf
    <3> QED
      BY <3>1, <3>2 DEF StoreInv, TaskMirrorsLastRun
  <2> QED
    BY <2>1, <2>2
<1>11. LinearHistory'
  <2> SUFFICES ASSUME NEW q \in Runs, run'[q].status # "NONE",
                      NEW older, older = {p \in Runs : /\ run'[p].task = run'[q].task
                                                       /\ p < q}
               PROVE  /\ IF older = {} THEN run'[q].prev = Nil
                         ELSE /\ run'[q].prev \in older
                              /\ \A p \in older : p <= run'[q].prev
                      /\ run'[q].retryOf \in OrNil(older)
    BY DEF LinearHistory, RunsOf
  <2>1. CASE q = r
    <3>1. older = RunsOf(t)
      <4>1. run'[q].task = t
        BY <1>2, <2>1 DEF Insert
      <4>2. \A p \in Runs : p < r => run'[p] = run[p]
        BY <1>2 DEF Runs
      <4> QED
        BY <1>8, <2>1, <4>1, <4>2 DEF RunsOf
    <3>2. run'[q].prev = task[t].last /\ run'[q].retryOf \in OrNil(RunsOf(t))
      BY <1>2, <2>1 DEF Insert
    <3> QED
      BY <3>1, <3>2 DEF StoreInv, TaskMirrorsLastRun
  <2>2. CASE q # r
    <3>1. run'[q] = run[q] /\ q < r
      BY <1>2, <1>3, <2>2
    <3>2. older = {p \in RunsOf(run[q].task) : p < q}
      <4>1. \A p \in Runs : p < q => run'[p] = run[p]
        BY <1>2, <3>1 DEF Runs
      <4> QED
        BY <3>1, <4>1 DEF RunsOf
    <3> QED
      BY <2>2, <3>1, <3>2 DEF StoreInv, LinearHistory
  <2> QED
    BY <2>1, <2>2
<1>12. NoTaskYet'
  BY <1>2, StoreAssumption DEF StoreInv, NoTaskYet, Insert
<1> QED
  BY <1>1, <1>4, <1>5, <1>9, <1>10, <1>11, <1>12 DEF StoreInv

\* A transition leaves every row's identity alone, and the row it moves is the
\* one its task already points at.
LEMMA MovePreserves ==
  ASSUME StoreInv, NEW r \in Runs, NEW row, Move(r, row),
         failures' \in [Schedules -> Nat]
  PROVE  StoreInv'
<1> DEFINE t == run[r].task
<1>1. t \in Tasks /\ task[t].last = r /\ row.task = t
  BY DEF StoreInv, RowsKnown, ActiveIsLast, Move, Active
<1>2. task[t] \in TaskRow /\ run[r] \in RunRow
  BY <1>1 DEF StoreInv, StoreTypeOK
<1>3. /\ run'[r] = row /\ \A q \in Runs \ {r} : run'[q] = run[q]
      /\ \A u \in Tasks \ {t} : task'[u] = task[u]
      /\ task'[t] = [task[t] EXCEPT !.last = r, !.status = row.status,
                                    !.out = row.out, !.asks = row.asks]
  BY <1>1 DEF StoreInv, StoreTypeOK, Move, TaskRow
<1>4. StoreTypeOK'
  <2>1. task'[t] \in TaskRow
    <3>1. /\ row.status \in Status /\ row.out \in OrNil(Outcomes)
          /\ row.asks \in BOOLEAN /\ r \in OrNil(Runs)
      BY DEF Move, RunRow, OrNil
    <3>2. [task[t] EXCEPT !.last = r, !.status = row.status,
                          !.out = row.out, !.asks = row.asks] \in TaskRow
      BY <1>2, <3>1 DEF TaskRow
    <3> QED
      BY <1>3, <3>2
  <2>2. task' \in [Tasks -> TaskRow]
    BY <1>1, <1>3, <2>1 DEF StoreInv, StoreTypeOK, Move
  <2>3. run' \in [Runs -> RunRow]
    BY DEF StoreInv, StoreTypeOK, Move
  <2> QED
    BY <2>2, <2>3 DEF StoreTypeOK
<1>5. /\ task'[t].last = r /\ task'[t].status = row.status
      /\ task'[t].out = row.out /\ task'[t].asks = row.asks
  BY <1>2, <1>3 DEF TaskRow
<1>6. \A q \in Runs : /\ run'[q].task = run[q].task
                      /\ run'[q].prev = run[q].prev
                      /\ run'[q].retryOf = run[q].retryOf
                      /\ run'[q].status = "NONE" <=> run[q].status = "NONE"
  BY <1>3 DEF Move, Active, Status, Terminal
<1>7. \A u : RunsOf(u)' = RunsOf(u)
  BY <1>6 DEF RunsOf
<1>8. RowsKnown' /\ RowsInOrder' /\ NoTaskYet'
  <2>1. RowsKnown' /\ RowsInOrder'
    BY <1>6 DEF StoreInv, RowsKnown, RowsInOrder
  <2>2. NoTaskYet'
    <3> SUFFICES ASSUME NEW u \in Tasks, task'[u].last = Nil
                 PROVE  task'[u] = NoTask
      BY DEF NoTaskYet, NoTask
    <3>1. u # t
      BY <1>5, StoreAssumption
    <3> QED
      BY <1>3, <3>1 DEF StoreInv, NoTaskYet
  <2> QED
    BY <2>1, <2>2
<1>9. ActiveIsLast'
  <2> SUFFICES ASSUME NEW q \in Runs, run'[q].status \in Active
               PROVE  task'[run'[q].task].last = q
    BY DEF ActiveIsLast
  <2>1. CASE q = r
    BY <1>1, <1>3, <1>5, <2>1
  <2>2. CASE q # r
    <3>1. run'[q] = run[q] /\ run[q].task \in Tasks
      BY <1>3, <2>2 DEF StoreInv, RowsKnown, Active
    <3> QED
      BY <1>1, <1>3, <2>2, <3>1 DEF StoreInv, ActiveIsLast
  <2> QED
    BY <2>1, <2>2
<1>10. TaskMirrorsLastRun'
  <2> SUFFICES ASSUME NEW u \in Tasks
               PROVE  LET l == task'[u].last
                      IN  IF l = Nil THEN RunsOf(u)' = {}
                          ELSE /\ l \in RunsOf(u)'
                               /\ \A q \in RunsOf(u)' : q <= l
                               /\ task'[u].status = run'[l].status
                               /\ task'[u].out = run'[l].out
                               /\ task'[u].asks = run'[l].asks
    BY DEF TaskMirrorsLastRun
  <2>1. CASE u = t
    <3>1. r # Nil /\ r \in RunsOf(t) /\ \A q \in RunsOf(t) : q <= r
      BY <1>1, StoreAssumption DEF StoreInv, TaskMirrorsLastRun
    <3>2. task'[u].last = r /\ RunsOf(u)' = RunsOf(t) /\ run'[r] = row
      BY <1>3, <1>5, <1>7, <2>1
    <3>3. /\ task'[u].status = run'[r].status /\ task'[u].out = run'[r].out
          /\ task'[u].asks = run'[r].asks
      BY <1>5, <2>1, <3>2
    <3> QED
      BY <3>1, <3>2, <3>3
  <2>2. CASE u # t
    <3>1. task'[u] = task[u] /\ RunsOf(u)' = RunsOf(u)
      BY <1>3, <1>7, <2>2
    <3>2. \A q \in RunsOf(u) : run'[q] = run[q]
      BY <1>3, <2>2 DEF RunsOf
    <3> QED
      BY <3>1, <3>2 DEF StoreInv, TaskMirrorsLastRun
  <2> QED
    BY <2>1, <2>2
<1>11. LinearHistory'
  BY <1>6, <1>7 DEF StoreInv, LinearHistory
<1> QED
  BY <1>4, <1>8, <1>9, <1>10, <1>11 DEF StoreInv

\* A cancel request writes only columns the invariant does not read.
LEMMA CancelPreserves ==
  ASSUME StoreInv, NEW r \in Runs, NEW c \in Reasons, RequestTaskRunCancel(r, c)
  PROVE  StoreInv'
<1>1. run[r] \in RunRow
  BY DEF StoreInv, StoreTypeOK
<1>2. /\ run' = [run EXCEPT ![r] = [run[r] EXCEPT !.cancel = TRUE, !.reason = c]]
      /\ task' = task /\ failures' = failures
  BY <1>1 DEF StoreInv, StoreTypeOK, RequestTaskRunCancel, RunRow
<1>3. [run[r] EXCEPT !.cancel = TRUE, !.reason = c] \in RunRow
  BY <1>1 DEF RunRow, OrNil
<1>4. StoreTypeOK'
  BY <1>2, <1>3 DEF StoreInv, StoreTypeOK
<1>5. \A q \in Runs : /\ run'[q].task = run[q].task
                      /\ run'[q].status = run[q].status
                      /\ run'[q].prev = run[q].prev
                      /\ run'[q].retryOf = run[q].retryOf
                      /\ run'[q].out = run[q].out
                      /\ run'[q].asks = run[q].asks
  BY <1>1, <1>2 DEF StoreInv, StoreTypeOK, RunRow
<1>6. \A u : RunsOf(u)' = RunsOf(u)
  BY <1>5 DEF RunsOf
<1>7. RowsKnown' /\ RowsInOrder' /\ NoTaskYet' /\ ActiveIsLast'
  BY <1>2, <1>5 DEF StoreInv, RowsKnown, RowsInOrder, NoTaskYet, ActiveIsLast
<1>8. TaskMirrorsLastRun'
  BY <1>2, <1>5, <1>6 DEF StoreInv, TaskMirrorsLastRun, RunsOf
<1>9. LinearHistory'
  BY <1>5, <1>6 DEF StoreInv, LinearHistory
<1> QED
  BY <1>4, <1>7, <1>8, <1>9 DEF StoreInv

\* The writers of the failure count write nothing else.
LEMMA CountWrites ==
  ASSUME StoreTypeOK, NEW s \in Schedules, CountNext(s)
  PROVE  run' = run /\ task' = task /\ failures' \in [Schedules -> Nat]
<1>1. failures \in [Schedules -> Nat]
  BY DEF StoreTypeOK
<1>2. CASE EnableSchedule(s)
  BY <1>1, <1>2 DEF EnableSchedule
<1>3. CASE RecordFailedStart(s)
  BY <1>1, <1>3 DEF RecordFailedStart
<1>4. ASSUME NEW failed \in BOOLEAN, FoldWorkflowOutcome(s, failed)
      PROVE  run' = run /\ task' = task /\ failures' \in [Schedules -> Nat]
  <2>1. CASE failed
    BY <1>1, <1>4, <2>1 DEF FoldWorkflowOutcome
  <2>2. CASE ~failed
    BY <1>1, <1>4, <2>2 DEF FoldWorkflowOutcome
  <2> QED
    BY <2>1, <2>2
<1> QED
  BY <1>2, <1>3, <1>4 DEF CountNext

\* StoreInv is about the tasks and the runs.
LEMMA SameTables ==
  ASSUME StoreInv, run' = run, task' = task, failures' \in [Schedules -> Nat]
  PROVE  StoreInv'
<1>1. (StoreTypeOK /\ RowsKnown /\ RowsInOrder /\ NoTaskYet /\ ActiveIsLast)'
  BY DEF StoreInv, StoreTypeOK, RowsKnown, RowsInOrder, NoTaskYet, ActiveIsLast
<1>2. TaskMirrorsLastRun' /\ LinearHistory'
  BY DEF StoreInv, TaskMirrorsLastRun, LinearHistory, RunsOf
<1> QED
  BY <1>1, <1>2 DEF StoreInv
-----------------------------------------------------------------------------
(* The invariant and what follows from it *)

\* The empty tables satisfy StoreInv.
LEMMA InitEstablishes == StoreInit => StoreInv
<1> SUFFICES ASSUME StoreInit PROVE StoreInv
  OBVIOUS
<1>1. \A r \in Runs : run[r] = NoRow
  BY DEF StoreInit
<1>2. \A t \in Tasks : task[t] = NoTask
  BY DEF StoreInit
<1>3. NoRow \in RunRow /\ NoTask \in TaskRow
  BY DEF NoRow, NoTask, RunRow, TaskRow, OrNil, Sources
<1>4. StoreTypeOK
  BY <1>3 DEF StoreInit, StoreTypeOK
<1>5. \A t \in Tasks : RunsOf(t) = {}
  BY <1>1, StoreAssumption DEF RunsOf, NoRow
<1>6. TaskMirrorsLastRun
  BY <1>2, <1>5 DEF TaskMirrorsLastRun, NoTask
<1>7. \A r \in Runs : run[r].status = "NONE" /\ run[r].task = Nil
  BY <1>1 DEF NoRow
<1>8. RowsKnown /\ RowsInOrder /\ ActiveIsLast /\ LinearHistory
  BY <1>7 DEF RowsKnown, RowsInOrder, ActiveIsLast, LinearHistory, Active
<1>9. NoTaskYet
  BY <1>2 DEF NoTaskYet
<1> QED
  BY <1>4, <1>6, <1>8, <1>9 DEF StoreInv

\* Every transaction of StoreNext, and stuttering, preserves StoreInv.
LEMMA NextPreserves == StoreInv /\ [StoreNext]_storeVars => StoreInv'
<1> SUFFICES ASSUME StoreInv, [StoreNext]_storeVars PROVE StoreInv'
  OBVIOUS
<1>1. ASSUME NEW t \in Tasks, NEW s \in OrNil(Schedules), CreateTask(t, s)
      PROVE  StoreInv'
  BY <1>1, CreateTaskInserts, InsertPreserves
<1>2. ASSUME NEW t \in Tasks, NEW k \in OrNil(Keys), NEW q \in OrNil(RunsOf(t)),
             CreateTaskRun(t, k, q)
      PROVE  StoreInv'
  BY <1>2, CreateTaskRunInserts, InsertPreserves
<1>3. ASSUME NEW r \in Runs, NEW to \in Status,
             NEW u \in Sent(run[r].status, to),
             TransitionTaskRun(r, run[r].status, to, u)
      PROVE  StoreInv'
  <2>1. u \in Update
    BY DEF Sent
  <2>2. /\ Move(r, UpdatedRun(run[r], to, u))
        /\ failures' = FoldScheduleOutcome(UpdatedRun(run[r], to, u), to)
    BY <1>3, <2>1, TransitionMoves
  <2>3. failures' \in [Schedules -> Nat]
    BY <2>2, FoldType DEF StoreInv
  <2> QED
    BY <2>2, <2>3, MovePreserves
<1>4. ASSUME NEW r \in Runs, NEW c \in Reasons, RequestTaskRunCancel(r, c)
      PROVE  StoreInv'
  BY <1>4, CancelPreserves
<1>5. ASSUME NEW s \in Schedules, CountNext(s)
      PROVE  StoreInv'
  BY <1>5, CountWrites, SameTables DEF StoreInv
<1>6. CASE UNCHANGED storeVars
  <2>1. run' = run /\ task' = task /\ failures' \in [Schedules -> Nat]
    BY <1>6 DEF storeVars, StoreInv, StoreTypeOK
  <2> QED
    BY <2>1, SameTables
<1> QED
  BY <1>1, <1>2, <1>3, <1>4, <1>5, <1>6 DEF StoreNext, RunNext

\* StoreInv holds in every state the store's transactions can reach.
THEOREM StoreInvariant == StoreSpec => []StoreInv
BY InitEstablishes, NextPreserves, PTL DEF StoreSpec

\* Type correctness: whatever the callers send, every column keeps its type and
\* the failure count of a schedule stays a natural number.
THEOREM TypeCorrect == StoreSpec => []StoreTypeOK
<1>1. StoreInv => StoreTypeOK
  BY DEF StoreInv
<1> QED
  BY <1>1, StoreInvariant, PTL

\* One active run per task, for any number of tasks, runs and callers:
\* createTaskRunTx under the task row lock is the only way to a second run.
THEOREM OneActive == StoreSpec => []OneActiveRun
<1>1. StoreInv => OneActiveRun
  BY DEF StoreInv, ActiveIsLast, OneActiveRun
<1> QED
  BY <1>1, StoreInvariant, PTL

\* The task row always shows its newest run's status, output and questions.
THEOREM MirrorsLast == StoreSpec => []TaskMirrorsLastRun
<1>1. StoreInv => TaskMirrorsLastRun
  BY DEF StoreInv
<1> QED
  BY <1>1, StoreInvariant, PTL

\* previous_task_run_id chains all runs of a task, newest to oldest.
THEOREM HistoryIsLinear == StoreSpec => []LinearHistory
<1>1. StoreInv => LinearHistory
  BY DEF StoreInv
<1> QED
  BY <1>1, StoreInvariant, PTL

-----------------------------------------------------------------------------
(* Action properties *)

\* A transaction changes at most one run row, and never a terminal one.
LEMMA TerminalStep ==
  ASSUME StoreInv, [StoreNext]_storeVars, NEW r \in Runs,
         run[r].status \in Terminal
  PROVE  run'[r] = run[r]
<1>0. run[r].status \notin Active /\ run[r].status # "NONE"
  BY DEF Terminal, Active
<1>1. ASSUME NEW t \in Tasks, NEW s \in OrNil(Schedules), CreateTask(t, s)
      PROVE  run'[r] = run[r]
  BY <1>0, <1>1, CreateTaskInserts DEF Insert, NextRow, StoreInv, StoreTypeOK
<1>2. ASSUME NEW t \in Tasks, NEW k \in OrNil(Keys), NEW q \in OrNil(RunsOf(t)),
             CreateTaskRun(t, k, q)
      PROVE  run'[r] = run[r]
  BY <1>0, <1>2, CreateTaskRunInserts DEF Insert, NextRow, StoreInv, StoreTypeOK
<1>3. ASSUME NEW q \in Runs, NEW to \in Status,
             NEW u \in Sent(run[q].status, to),
             TransitionTaskRun(q, run[q].status, to, u)
      PROVE  run'[r] = run[r]
  <2>1. Move(q, UpdatedRun(run[q], to, u))
    BY <1>3, TransitionMoves DEF Sent
  <2> QED
    BY <1>0, <2>1 DEF Move, StoreInv, StoreTypeOK
<1>4. ASSUME NEW q \in Runs, NEW c \in Reasons, RequestTaskRunCancel(q, c)
      PROVE  run'[r] = run[r]
  BY <1>0, <1>4 DEF RequestTaskRunCancel, StoreInv, StoreTypeOK
<1>5. ASSUME NEW s \in Schedules, CountNext(s)
      PROVE  run'[r] = run[r]
  BY <1>5, CountWrites DEF StoreInv
<1>6. CASE UNCHANGED storeVars
  BY <1>6 DEF storeVars
<1> QED
  BY <1>1, <1>2, <1>3, <1>4, <1>5, <1>6 DEF StoreNext, RunNext

\* The first accepted terminal status wins: no transaction of any caller, late
\* or concurrent, changes a finished run.
THEOREM TerminalFinal == StoreSpec => TerminalIsFinal
<1>1. StoreInv /\ [StoreNext]_storeVars
        => [\A r \in Runs : run[r].status \in Terminal
              => Outcome(run'[r]) = Outcome(run[r])]_storeVars
  BY TerminalStep DEF Outcome
<1> QED
  BY <1>1, StoreInvariant, PTL DEF StoreSpec, TerminalIsFinal
-----------------------------------------------------------------------------
(* TaskStore implements RunContract *)

\* A run row's outcome is a verdict of the contract once it is terminal.
LEMMA OutcomeIsVerdict ==
  ASSUME NEW row \in RunRow, row.status \in Terminal
  PROVE  Outcome(row) \in Verdicts /\ Outcome(row)[1] = row.status
BY DEF RunRow, Outcome, Verdicts

\* An insert opens a run: the current one, if any, has its verdict.
LEMMA InsertOpens ==
  ASSUME StoreInv, NEW t \in Tasks, NEW r \in Runs, NEW row, NEW trow,
         Insert(t, r, row, trow)
  PROVE  Contract!Open(t)
<1>1. /\ run'[r] = row /\ \A q \in Runs \ {r} : run'[q] = run[q]
      /\ task'[t] = trow /\ \A u \in Tasks \ {t} : task'[u] = task[u]
  BY DEF StoreInv, StoreTypeOK, Insert
<1>2. /\ row.status \notin Terminal /\ run[r].status \notin Terminal
      /\ trow.last = r /\ trow.status = "PENDING"
  BY DEF Insert, NextRow, Terminal
<1>3. task[t].status \notin Active
  <2>1. CASE task[t].last = Nil
    BY <2>1 DEF StoreInv, NoTaskYet, NoTask, Active
  <2>2. CASE task[t].last # Nil
    BY <2>2 DEF StoreInv, TaskMirrorsLastRun, Insert, InProgress
  <2> QED
    BY <2>1, <2>2
<1>4. \A u \in Tasks : task[u].last # r
  BY StoreAssumption
     DEF StoreInv, TaskMirrorsLastRun, RunsOf, RowsKnown, Insert, NextRow
<1>5. [u \in Tasks |-> task'[u].last]
        = [[u \in Tasks |-> task[u].last] EXCEPT ![t] = r]
  BY <1>1, <1>2
<1>6. [u \in Tasks |-> task'[u].status]
        = [[u \in Tasks |-> task[u].status] EXCEPT ![t] = "PENDING"]
  BY <1>1, <1>2
<1>7. [q \in Runs |-> VerdictOf(run'[q])]
        = [q \in Runs |-> VerdictOf(run[q])]
  BY <1>1, <1>2 DEF VerdictOf
<1> QED
  BY <1>2, <1>3, <1>4, <1>5, <1>6, <1>7
     DEF Contract!Open, Contract!Working, Active, VerdictOf

\* A transition advances or settles the current run of its task.
LEMMA TransitionIsContract ==
  ASSUME StoreInv, NEW r \in Runs, NEW to \in Status, NEW u \in Update,
         TransitionTaskRun(r, run[r].status, to, u)
  PROVE  \E t \in Tasks : Contract!Advance(t) \/ Contract!Settle(t)
<1>0. run[r].status \in Active
  BY TransitionMoves DEF Move
<1>task. PICK t \in Tasks : t = run[r].task
  BY <1>0 DEF StoreInv, RowsKnown, Active
<1> DEFINE from == run[r].status
           row == UpdatedRun(run[r], to, u)
<1>1. Move(r, row)
  BY TransitionMoves
<1>2. row \in RunRow /\ row.status = to /\ row.task = t
  BY <1>task, UpdatedRunRow DEF StoreInv, StoreTypeOK
<1>3. t \in Tasks /\ task[t].last = r /\ from \in Active
  BY <1>0, <1>task DEF StoreInv, ActiveIsLast
<1>4. task[t].status = from
  BY <1>3, StoreAssumption DEF StoreInv, TaskMirrorsLastRun
<1>5. ValidRunStatusTransition(from, to)
  BY DEF TransitionTaskRun
<1> HIDE DEF row
<1>6. task[t] \in TaskRow
  BY <1>3 DEF StoreInv, StoreTypeOK
<1>7. /\ run'[r] = row /\ \A q \in Runs \ {r} : run'[q] = run[q]
      /\ task'[t].last = r /\ task'[t].status = to
      /\ \A v \in Tasks \ {t} : task'[v] = task[v]
  BY <1>1, <1>2, <1>3, <1>6 DEF StoreInv, StoreTypeOK, Move, TaskRow
<1>8. [v \in Tasks |-> task'[v].last] = [v \in Tasks |-> task[v].last]
  BY <1>3, <1>7
<1>9. [v \in Tasks |-> task'[v].status]
        = [[v \in Tasks |-> task[v].status] EXCEPT ![t] = to]
  BY <1>3, <1>7
<1>10. CASE to \in {"SCHEDULED", "RUNNING"}
  <2>1. [q \in Runs |-> VerdictOf(run'[q])]
          = [q \in Runs |-> VerdictOf(run[q])]
    BY <1>2, <1>3, <1>7, <1>10 DEF VerdictOf, Terminal, Active
  <2>2. \/ from = "PENDING" /\ to = "SCHEDULED"
        \/ from = "SCHEDULED" /\ to = "RUNNING"
    BY <1>5, <1>10 DEF ValidRunStatusTransition
  <2>3. Contract!Advance(t)
    BY <1>3, <1>4, <1>8, <1>9, <2>1, <2>2 DEF Contract!Advance
  <2> QED
    BY <1>3, <2>3
<1>11. CASE to \in Terminal
  <2>1. Outcome(row) \in Verdicts /\ Outcome(row)[1] = to
    BY <1>2, <1>11, OutcomeIsVerdict
  <2>2. [q \in Runs |-> VerdictOf(run'[q])]
          = [[q \in Runs |-> VerdictOf(run[q])]
               EXCEPT ![r] = Outcome(row)]
    BY <1>2, <1>7, <1>11 DEF VerdictOf
  <2>3. /\ to = "SUCCEEDED" => from = "RUNNING"
        /\ to = "FAILED" => from # "PENDING"
        /\ from \notin Terminal
    BY <1>3, <1>5 DEF ValidRunStatusTransition, Active, Terminal
  <2>4. Contract!Settle(t)
    BY <1>2, <1>3, <1>4, <1>7, <1>8, <1>9, <1>11, <2>1, <2>2, <2>3
       DEF Contract!Settle, Contract!Working, Active, VerdictOf
  <2> QED
    BY <1>3, <2>4
<1> QED
  BY <1>5, <1>10, <1>11 DEF ValidRunStatusTransition, Terminal

\* A cancel request shows nothing: the flag becomes visible with the verdict.
LEMMA CancelStutters ==
  ASSUME StoreInv, NEW r \in Runs, NEW c \in Reasons, RequestTaskRunCancel(r, c)
  PROVE  UNCHANGED Contract!vars
<1>1. /\ task' = task /\ \A q \in Runs \ {r} : run'[q] = run[q]
      /\ run'[r].status = run[r].status /\ run[r].status \notin Terminal
  BY DEF StoreInv, StoreTypeOK, RequestTaskRunCancel, RunRow, Active, Terminal
<1>2. [q \in Runs |-> VerdictOf(run'[q])]
        = [q \in Runs |-> VerdictOf(run[q])]
  BY <1>1 DEF VerdictOf
<1> QED
  BY <1>1, <1>2 DEF Contract!vars

\* The store's tables, read through last_run_id and status, behave as
\* RunContract: one run at a time, opened only after a verdict, settled once.
THEOREM StoreImplementsContract == StoreSpec => ImplementsContract
<1>1. StoreInit => Contract!Init
  BY DEF StoreInit, Contract!Init, VerdictOf, NoRow, NoTask, Terminal
<1>2. StoreInv /\ [StoreNext]_storeVars => [Contract!Next]_(Contract!vars)
  <2> SUFFICES ASSUME StoreInv, [StoreNext]_storeVars
               PROVE  [Contract!Next]_(Contract!vars)
    OBVIOUS
  <2>1. ASSUME NEW t \in Tasks, NEW s \in OrNil(Schedules), CreateTask(t, s)
        PROVE  Contract!Next
    BY <2>1, CreateTaskInserts, InsertOpens DEF Contract!Next
  <2>2. ASSUME NEW t \in Tasks, NEW k \in OrNil(Keys),
               NEW q \in OrNil(RunsOf(t)), CreateTaskRun(t, k, q)
        PROVE  Contract!Next
    BY <2>2, CreateTaskRunInserts, InsertOpens DEF Contract!Next
  <2>3. ASSUME NEW r \in Runs, NEW to \in Status,
               NEW u \in Sent(run[r].status, to),
               TransitionTaskRun(r, run[r].status, to, u)
        PROVE  Contract!Next
    BY <2>3, TransitionIsContract DEF Contract!Next, Sent
  <2>4. ASSUME NEW r \in Runs, NEW c \in Reasons, RequestTaskRunCancel(r, c)
        PROVE  UNCHANGED Contract!vars
    BY <2>4, CancelStutters
  <2>5. ASSUME NEW s \in Schedules, CountNext(s)
        PROVE  UNCHANGED Contract!vars
    <3>1. run' = run /\ task' = task
      BY <2>5, CountWrites DEF StoreInv
    <3> QED
      BY <3>1 DEF Contract!vars
  <2>6. CASE UNCHANGED storeVars
    BY <2>6 DEF storeVars, Contract!vars
  <2> QED
    BY <2>1, <2>2, <2>3, <2>4, <2>5, <2>6 DEF StoreNext, RunNext
<1> QED
  BY <1>1, <1>2, StoreInvariant, PTL DEF StoreSpec, ImplementsContract,
     Contract!Spec
=============================================================================
