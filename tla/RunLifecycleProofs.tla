------------------------- MODULE RunLifecycleProofs -------------------------
(***************************************************************************)
(* What the actors of RunLifecycle guarantee together, for every number of  *)
(* runs, replicas and pods, and for both runners, proved with TLAPS.        *)
(*                                                                         *)
(* The argument has two halves.  Seen from the store, every action is one   *)
(* of four writes (StoreWrite), so TaskStore's invariant and transaction    *)
(* rules apply (ImplementsStore), and what a run row has passed it never    *)
(* comes back to (Passed).  Seen from an actor, what it read earlier is     *)
(* therefore still true when it acts on it: SchedInv, WorkerInv, JobInv,    *)
(* EarlyInv and CallInv say what that is for each position an actor can be  *)
(* in, and LifecycleInv joins them.                                         *)
(***************************************************************************)
EXTENDS RunLifecycle, TaskStoreProofs

\* A run that has left the queue, by being claimed or by being canceled.
Dispatched(r) == run[r].status \notin {"NONE", "PENDING"}

\* started_at and failure_class say how far a run got.
RowInv ==
  /\ \A r \in Runs :
       /\ run[r].status \in {"NONE", "PENDING", "SCHEDULED"} => ~run[r].started
       /\ run[r].status = "RUNNING" => run[r].started
       /\ run[r].status = "NONE" => ~run[r].cancel
       /\ run[r].status \notin Terminal => run[r].class = Nil
  /\ ClassMatchesProgress

\* A scheduler acts on a run it has claimed, with the status it has read.
SchedInv ==
  /\ \A s \in Schedulers :
       /\ sched[s].pc # "idle" => sched[s].run \in Runs
       /\ sched[s].pc \in Dispatching => Dispatched(sched[s].run)
       /\ sched[s].pc = "failcas" => sched[s].status \in {"SCHEDULED", "RUNNING"}
       /\ sched[s].pc = "refuse" => sched[s].status \in Withdrawn
  /\ SoleDispatcher

\* What a report carries: an end, with the columns that end may write.
Fits(to, u) ==
  /\ to \in Terminal /\ u \in Update
  /\ ~u.started /\ u.out # Nil /\ u.reason = Nil
  /\ u.asks => to = "SUCCEEDED"
  /\ (u.class # Nil) <=> (to = "FAILED")

\* A worker is started for a dispatched run, executes a claimed one, and has seen
\* a cancel that came before the dispatch.
WorkerInv ==
  /\ \A w \in Workers : worker[w].pc # "idle" =>
       /\ worker[w].run \in Runs /\ Dispatched(worker[w].run)
       /\ worker[w].pc = "running" => run[worker[w].run].started
       /\ worker[w].pc \in Reporting =>
            /\ Fits(worker[w].to, worker[w].update)
            /\ worker[w].update.class \in {Nil, "run", "space_configuration"}
            /\ worker[w].update.class = "run" => run[worker[w].run].started
       /\ worker[w].pc = "claim" => worker[w].run \notin early
       /\ /\ worker[w].pc = "fetch" /\ worker[w].get # Nil
          /\ worker[w].get.status = "SCHEDULED" /\ worker[w].run \in early
          => worker[w].get.cancel
  /\ \A w \in Workers : worker[w].get # Nil => worker[w].pc \in {"fetch", "running"}
  /\ SoleExecutor

\* A Job is only ever made, and named, for a dispatched run.
JobInv == \A r \in Runs : job[r] # "none" \/ r \in named => Dispatched(r)

\* The early cancels: recorded, and never overtaken.
EarlyInv == \A r \in early : run[r].cancel /\ ~run[r].started

\* A sweep's list and the two calls of people.
CallInv ==
  /\ \A e \in reaper.todo :
       /\ reaper.phase = "lost" => e.status = "RUNNING"
       /\ reaper.phase = "abandoned" => e.status \in {"SCHEDULED", "RUNNING"}
       /\ e.job => Dispatched(e.run)
  /\ canceler.pc = "end" => canceler.run \in Runs
  /\ retrier.pc = "create" => retrier.run \in Runs /\ run[retrier.run].status # "NONE"

LifecycleInv ==
  /\ StoreInv /\ TypeOK /\ RowInv
  /\ SchedInv /\ WorkerInv /\ JobInv /\ EarlyInv /\ CallInv

-----------------------------------------------------------------------------
(* The store's side of an action *)

\* What an action may do to the store: nothing, insert a run, move a run with the
\* class its progress allows, or record a cancel.
StoreWrite ==
  \/ UNCHANGED storeVars
  \/ \E t \in Tasks, s \in OrNil(Schedules) : CreateTask(t, s)
  \/ \E t \in Tasks, k \in OrNil(Keys) :
       \E q \in OrNil(RunsOf(t)) : CreateTaskRun(t, k, q)
  \/ \E r \in Runs, to \in Status :
       \E u \in Sent(run[r].status, to) :
         /\ TransitionTaskRun(r, run[r].status, to, u)
         /\ to = "FAILED" =>
              /\ u.class # Nil
              /\ u.class = "dispatch" => ~run[r].started
              /\ u.class \in {"worker_lost", "run"} => run[r].started
         /\ to = "RUNNING" => r \notin early
  \/ \E r \in Runs, c \in Reasons : RequestTaskRunCancel(r, c)

\* What then happened to one row.
RowChange(r) ==
  \/ run'[r] = run[r]
  \/ /\ run[r].status = "NONE" /\ run'[r].status = "PENDING"
     /\ ~run'[r].started /\ ~run'[r].cancel /\ run'[r].class = Nil
  \/ /\ run[r].status \in Active /\ run'[r].status = run[r].status
     /\ run'[r].started = run[r].started /\ run'[r].class = run[r].class
     /\ run'[r].cancel
  \/ /\ ValidRunStatusTransition(run[r].status, run'[r].status)
     /\ run'[r].cancel = run[r].cancel
     /\ run'[r].started <=> (run[r].started \/ run'[r].status = "RUNNING")
     /\ run'[r].status # "FAILED" => run'[r].class = run[r].class
     /\ run'[r].status = "FAILED" =>
          /\ run'[r].class = "dispatch" => ~run[r].started
          /\ run'[r].class \in {"worker_lost", "run"} => run[r].started
     /\ run'[r].status = "RUNNING" => r \notin early

\* The columns a transition writes besides the status.
LEMMA UpdatedColumns ==
  ASSUME NEW row \in RunRow, NEW to \in Status, NEW u \in Update
  PROVE  /\ UpdatedRun(row, to, u).cancel = row.cancel
         /\ UpdatedRun(row, to, u).started = (row.started \/ u.started)
         /\ UpdatedRun(row, to, u).class = Keep(FailureClassFor(to, u.class), row.class)
         /\ UpdatedRun(row, to, u).status = to
<1> DEFINE class == Keep(FailureClassFor(to, u.class), row.class)
           reason == Keep(u.reason, row.reason)
           out == Keep(u.out, row.out)
           started == row.started \/ u.started
           asks == row.asks \/ u.asks
<1>1. UpdatedRun(row, to, u) =
        [row EXCEPT !.status = to, !.started = started, !.reason = reason,
                    !.class = class, !.out = out, !.asks = asks]
  BY DEF UpdatedRun
<1>2. /\ UpdatedRun(row, to, u).cancel = row.cancel
      /\ UpdatedRun(row, to, u).started = started
      /\ UpdatedRun(row, to, u).class = class
      /\ UpdatedRun(row, to, u).status = to
  <2> HIDE DEF class, reason, out, started, asks
  <2> QED
    BY <1>1 DEF RunRow
<1> QED
  BY <1>2

\* A write changes one row, in one of four ways.
LEMMA RowStep ==
  ASSUME StoreInv, StoreWrite, NEW r \in Runs
  PROVE  RowChange(r)
<1>0. run \in [Runs -> RunRow] /\ run[r] \in RunRow
  BY DEF StoreInv, StoreTypeOK
<1>1. CASE UNCHANGED storeVars
  BY <1>1 DEF storeVars, RowChange
<1>2. ASSUME NEW t \in Tasks, NEW s \in OrNil(Schedules), CreateTask(t, s)
      PROVE  RowChange(r)
  <2>1. PICK q \in Runs :
          /\ NextRow(q)
          /\ run' = [run EXCEPT ![q] =
               [NoRow EXCEPT !.task = t, !.status = "PENDING",
                             !.source = IF s = Nil THEN "user" ELSE "schedule"]]
    BY <1>2 DEF CreateTask
  <2>2. CASE r = q
    <3>1. run'[r] = [NoRow EXCEPT !.task = t, !.status = "PENDING",
                             !.source = IF s = Nil THEN "user" ELSE "schedule"]
      BY <1>0, <2>1, <2>2
    <3> DEFINE source == IF s = Nil THEN "user" ELSE "schedule"
    <3>2. run'[r] = [NoRow EXCEPT !.task = t, !.status = "PENDING", !.source = source]
      BY <3>1
    <3> HIDE DEF source
    <3>3. /\ run'[r].status = "PENDING" /\ run'[r].started = FALSE
          /\ run'[r].cancel = FALSE /\ run'[r].class = Nil
      BY <3>2 DEF NoRow
    <3> QED
      BY <2>1, <2>2, <3>3 DEF RowChange, NextRow
  <2>3. CASE r # q
    BY <1>0, <2>1, <2>3 DEF RowChange
  <2> QED
    BY <2>2, <2>3
<1>3. ASSUME NEW t \in Tasks, NEW k \in OrNil(Keys), NEW p \in OrNil(RunsOf(t)),
             CreateTaskRun(t, k, p)
      PROVE  RowChange(r)
  <2>1. PICK q \in Runs : NextRow(q) /\ run' = [run EXCEPT ![q] = NewRunRow(t, k, p)]
    BY <1>3 DEF CreateTaskRun
  <2>2. CASE r = q
    <3>1. run'[r] = NewRunRow(t, k, p)
      BY <1>0, <2>1, <2>2
    <3> DEFINE base == IF p = Nil THEN task[t].head ELSE run[p].base
               prev == task[t].last
    <3>2. run'[r] = [NoRow EXCEPT !.task = t, !.status = "PENDING", !.prev = prev,
                                  !.retryOf = p, !.key = k, !.base = base]
      BY <3>1 DEF NewRunRow
    <3> HIDE DEF base, prev
    <3>3. /\ run'[r].status = "PENDING" /\ run'[r].started = FALSE
          /\ run'[r].cancel = FALSE /\ run'[r].class = Nil
      BY <3>2 DEF NoRow
    <3> QED
      BY <2>1, <2>2, <3>3 DEF RowChange, NextRow
  <2>3. CASE r # q
    BY <1>0, <2>1, <2>3 DEF RowChange
  <2> QED
    BY <2>2, <2>3
<1>4. ASSUME NEW q \in Runs, NEW to \in Status, NEW u \in Sent(run[q].status, to),
             TransitionTaskRun(q, run[q].status, to, u),
             to = "FAILED" =>
               /\ u.class # Nil
               /\ u.class = "dispatch" => ~run[q].started
               /\ u.class \in {"worker_lost", "run"} => run[q].started,
             to = "RUNNING" => q \notin early
      PROVE  RowChange(r)
  <2>1. run' = [run EXCEPT ![q] = UpdatedRun(run[q], to, u)]
        /\ ValidRunStatusTransition(run[q].status, to)
    BY <1>4 DEF TransitionTaskRun
  <2>2. CASE r = q
    <3>1. u \in Update /\ u.started = (to = "RUNNING")
      BY <1>4 DEF Sent
    <3>2. run'[r] = UpdatedRun(run[r], to, u)
      BY <1>0, <2>1, <2>2
    <3>3. /\ run'[r].cancel = run[r].cancel
          /\ run'[r].started = (run[r].started \/ u.started)
          /\ run'[r].class = Keep(FailureClassFor(to, u.class), run[r].class)
          /\ run'[r].status = to
      BY <1>0, <3>1, <3>2, UpdatedColumns
    <3>4. /\ to # "FAILED" => run'[r].class = run[r].class
          /\ to = "FAILED" => run'[r].class = u.class
      BY <1>4, <3>3 DEF Keep, FailureClassFor
    <3> QED
      BY <1>4, <2>1, <2>2, <3>1, <3>3, <3>4 DEF RowChange
  <2>3. CASE r # q
    BY <1>0, <2>1, <2>3 DEF RowChange
  <2> QED
    BY <2>2, <2>3
<1>5. ASSUME NEW q \in Runs, NEW c \in Reasons, RequestTaskRunCancel(q, c)
      PROVE  RowChange(r)
  <2>1. run' = [run EXCEPT ![q].cancel = TRUE, ![q].reason = c] /\ run[q].status \in Active
    BY <1>5 DEF RequestTaskRunCancel
  <2>2. CASE r = q
    <3>1. run'[r] = [run[r] EXCEPT !.cancel = TRUE, !.reason = c]
      BY <1>0, <2>1, <2>2
    <3>2. /\ run'[r].status = run[r].status /\ run'[r].started = run[r].started
          /\ run'[r].class = run[r].class /\ run'[r].cancel = TRUE
      BY <1>0, <3>1 DEF RunRow
    <3> QED
      BY <2>1, <2>2, <3>2 DEF RowChange
  <2>3. CASE r # q
    BY <1>0, <2>1, <2>3 DEF RowChange
  <2> QED
    BY <2>2, <2>3
<1> QED
  BY <1>1, <1>2, <1>3, <1>4, <1>5 DEF StoreWrite

\* Every such write is a transaction of the store.
LEMMA WriteIsTransaction ==
  ASSUME StoreWrite
  PROVE  UNCHANGED storeVars \/ StoreNext
<1>1. ASSUME NEW r \in Runs, NEW to \in Status, NEW u \in Sent(run[r].status, to),
             TransitionTaskRun(r, run[r].status, to, u)
      PROVE  StoreNext
  <2>1. ValidRunStatusTransition(run[r].status, to)
    BY <1>1 DEF TransitionTaskRun
  <2> QED
    BY <1>1, <2>1 DEF StoreNext, RunNext
<1> QED
  BY <1>1 DEF StoreWrite, StoreNext, RunNext

\* What a row has passed it never comes back to.
Passed(r) ==
  /\ run[r].status # "NONE" => run'[r].status # "NONE"
  /\ Dispatched(r) => Dispatched(r)'
  /\ run[r].started => run'[r].started
  /\ run[r].cancel => run'[r].cancel
  /\ run'[r].started /\ ~run[r].started =>
       run[r].status = "SCHEDULED" /\ r \notin early

\* Rows stay consistent, and actors may rely on what they have read.
LEMMA StoreSide ==
  ASSUME StoreInv, RowInv, StoreWrite
  PROVE  StoreInv' /\ RowInv' /\ \A r \in Runs : Passed(r)
<1>1. StoreInv'
  BY WriteIsTransaction, NextPreserves
<1>2. \A r \in Runs : RowChange(r)
  BY RowStep
<1>3. \A r \in Runs : run[r].status \in Status \cup {"NONE"} /\ run[r].started \in BOOLEAN
                      /\ run[r].cancel \in BOOLEAN
  BY DEF StoreInv, StoreTypeOK, RunRow
<1>4. ASSUME NEW r \in Runs
      PROVE  /\ run'[r].status \in {"NONE", "PENDING", "SCHEDULED"} => ~run'[r].started
             /\ run'[r].status = "RUNNING" => run'[r].started
             /\ run'[r].status = "NONE" => ~run'[r].cancel
             /\ run'[r].status \notin Terminal => run'[r].class = Nil
             /\ run'[r].class = "dispatch" => ~run'[r].started
             /\ run'[r].class \in {"worker_lost", "run"} => run'[r].started
             /\ Passed(r)
  <2>1. /\ run[r].status \in {"NONE", "PENDING", "SCHEDULED"} => ~run[r].started
        /\ run[r].status = "RUNNING" => run[r].started
        /\ run[r].status = "NONE" => ~run[r].cancel
        /\ run[r].status \notin Terminal => run[r].class = Nil
        /\ run[r].class = "dispatch" => ~run[r].started
        /\ run[r].class \in {"worker_lost", "run"} => run[r].started
    BY DEF RowInv, ClassMatchesProgress
  <2>2. Nil \notin Classes /\ {"dispatch", "worker_lost", "run"} \subseteq Classes
    BY StoreAssumption, LifecycleAssumption
  <2>3. CASE run'[r] = run[r]
    BY <2>1, <2>3 DEF Passed, Dispatched
  <2>4. CASE /\ run[r].status = "NONE" /\ run'[r].status = "PENDING"
             /\ ~run'[r].started /\ ~run'[r].cancel /\ run'[r].class = Nil
    <3>1. ~run[r].started /\ ~run[r].cancel
      BY <2>1, <2>4
    <3> QED
      BY <2>1, <2>2, <2>4, <3>1 DEF Passed, Dispatched, Terminal
  <2>5. CASE /\ run[r].status \in Active /\ run'[r].status = run[r].status
             /\ run'[r].started = run[r].started /\ run'[r].class = run[r].class
             /\ run'[r].cancel
    BY <2>1, <2>5 DEF Passed, Dispatched, Active
  <2>6. CASE /\ ValidRunStatusTransition(run[r].status, run'[r].status)
             /\ run'[r].cancel = run[r].cancel
             /\ run'[r].started <=> (run[r].started \/ run'[r].status = "RUNNING")
             /\ run'[r].status # "FAILED" => run'[r].class = run[r].class
             /\ run'[r].status = "FAILED" =>
                  /\ run'[r].class = "dispatch" => ~run[r].started
                  /\ run'[r].class \in {"worker_lost", "run"} => run[r].started
             /\ run'[r].status = "RUNNING" => r \notin early
    BY <2>1, <2>2, <2>6 DEF Passed, Dispatched, ValidRunStatusTransition, Terminal
  <2> QED
    BY <1>2, <2>3, <2>4, <2>5, <2>6 DEF RowChange
<1> QED
  BY <1>1, <1>4 DEF RowInv, ClassMatchesProgress

-----------------------------------------------------------------------------
(* The actors' side of an action *)

\* What one step may do to a scheduler: leave it, free its slot, or move it to a
\* position it is entitled to.  It enters the dispatch only with a run that was
\* still waiting.
SchedMove(s, t) ==
  /\ sched' = [sched EXCEPT ![s] = t]
  /\ t.pc # "idle" => t.run \in Runs
  /\ t.pc \in Dispatching =>
       /\ Dispatched(t.run)'
       /\ \/ sched[s].pc \in Dispatching /\ sched[s].run = t.run
          \/ run[t.run].status = "PENDING"
  /\ t.pc = "failcas" => t.status \in {"SCHEDULED", "RUNNING"}
  /\ t.pc = "refuse" => t.status \in Withdrawn

SchedFits ==
  \/ sched' = sched
  \/ \E s \in Schedulers, t \in SchedulerState : SchedMove(s, t)

\* The same for a worker.  It starts to execute only a run nobody had started.
WorkerMove(w, t) ==
  /\ worker' = [worker EXCEPT ![w] = t]
  /\ t.get # Nil => t.pc \in {"fetch", "running"}
  /\ t.pc # "idle" =>
       /\ t.run \in Runs /\ Dispatched(t.run)
       /\ t.pc = "running" =>
            /\ run'[t.run].started
            /\ \/ worker[w].pc = "running" /\ worker[w].run = t.run
               \/ ~run[t.run].started
       /\ t.pc \in Reporting =>
            /\ Fits(t.to, t.update)
            /\ t.update.class \in {Nil, "run", "space_configuration"}
            /\ t.update.class = "run" => run[t.run].started
       /\ t.pc = "claim" => t.run \notin early
       /\ /\ t.pc = "fetch" /\ t.get # Nil
          /\ t.get.status = "SCHEDULED" /\ t.run \in early
          => t.get.cancel

WorkerFits ==
  \/ worker' = worker
  \/ \E w \in Workers, t \in WorkerState : WorkerMove(w, t)

\* Jobs are made for dispatched runs; a cancel is early if the run was waiting.
JobFits ==
  /\ job' \in [Runs -> {"none", "live", "done", "failed", "deleted"}]
  /\ \A r \in Runs : job'[r] # "none" => job[r] # "none" \/ Dispatched(r)

EarlyFits ==
  \A r \in early' : /\ r \in Runs
                    /\ \/ r \in early
                       \/ run[r].status = "PENDING" /\ run'[r].cancel

ReaperFits ==
  /\ reaper'.phase \in {"idle", "canceled", "lost", "abandoned"}
  /\ reaper'.todo \subseteq Entry
  /\ reaper' = [phase |-> reaper'.phase, todo |-> reaper'.todo]
  /\ \A e \in reaper'.todo :
       /\ reaper'.phase = "lost" => e.status = "RUNNING"
       /\ reaper'.phase = "abandoned" => e.status \in {"SCHEDULED", "RUNNING"}
       /\ e.job => Dispatched(e.run)

CallsFit ==
  /\ canceler' \in Call /\ retrier' \in Call
  /\ canceler'.pc = "end" => canceler'.run \in Runs
  /\ retrier'.pc = "create" => retrier'.run \in Runs /\ run[retrier'.run].status # "NONE"

RestFits ==
  /\ authority' \in Withdrawn \cup {"ok"}
  /\ named' \subseteq Runs /\ clock' \in Clock
  /\ \A r \in named' : r \in named \/ Dispatched(r)

StepFits ==
  /\ StoreWrite /\ SchedFits /\ WorkerFits /\ JobFits /\ EarlyFits
  /\ ReaperFits /\ CallsFit /\ RestFits

\* Replicas keep apart, because a run leaves PENDING once.
LEMMA SchedSide ==
  ASSUME TypeOK, SchedInv, \A r \in Runs : Passed(r), SchedFits
  PROVE  SchedInv' /\ sched' \in [Schedulers -> SchedulerState]
<1>0. sched \in [Schedulers -> SchedulerState]
  BY DEF TypeOK
<1>1. CASE sched' = sched
  BY <1>0, <1>1 DEF SchedInv, SoleDispatcher, Passed, Dispatched, Dispatching
<1>2. ASSUME NEW s \in Schedulers, NEW t \in SchedulerState, SchedMove(s, t)
      PROVE  SchedInv' /\ sched' \in [Schedulers -> SchedulerState]
  <2>1. /\ sched' \in [Schedulers -> SchedulerState] /\ sched'[s] = t
        /\ \A z \in Schedulers \ {s} : sched'[z] = sched[z]
    BY <1>0, <1>2 DEF SchedMove
  <2>2. ASSUME NEW z \in Schedulers
        PROVE  /\ sched'[z].pc # "idle" => sched'[z].run \in Runs
               /\ sched'[z].pc \in Dispatching => Dispatched(sched[z].run)'
               /\ sched'[z].pc = "failcas" => sched'[z].status \in {"SCHEDULED", "RUNNING"}
               /\ sched'[z].pc = "refuse" => sched'[z].status \in Withdrawn
    <3>1. CASE z = s
      BY <1>2, <2>1, <3>1 DEF SchedMove, Dispatched
    <3>2. CASE z # s
      <4>1. sched'[z] = sched[z]
        BY <2>1, <3>2
      <4>2. /\ sched[z].pc # "idle" => sched[z].run \in Runs
            /\ sched[z].pc \in Dispatching => Dispatched(sched[z].run)
            /\ sched[z].pc = "failcas" => sched[z].status \in {"SCHEDULED", "RUNNING"}
            /\ sched[z].pc = "refuse" => sched[z].status \in Withdrawn
        BY DEF SchedInv
      <4> QED
        BY <4>1, <4>2 DEF Passed, Dispatched, Dispatching
    <3> QED
      BY <3>1, <3>2
  <2>3. ASSUME NEW z \in Schedulers \ {s}, t.pc \in Dispatching,
               sched[z].pc \in Dispatching, sched[z].run = t.run
        PROVE  FALSE
    <3>1. Dispatched(t.run)
      BY <2>3 DEF SchedInv
    <3>2. sched[s].pc \in Dispatching /\ sched[s].run = t.run
      BY <1>2, <2>3, <3>1 DEF SchedMove, Dispatched
    <3> QED
      BY <2>3, <3>2 DEF SchedInv, SoleDispatcher
  <2>4. SoleDispatcher'
    BY <2>1, <2>3 DEF SchedInv, SoleDispatcher
  <2> QED
    BY <2>1, <2>2, <2>4 DEF SchedInv
<1> QED
  BY <1>1, <1>2 DEF SchedFits

\* Pods keep apart, because a run is started once; and what a pod knows of its run
\* stays true.
LEMMA WorkerSide ==
  ASSUME TypeOK, RowInv, WorkerInv, \A r \in Runs : Passed(r), WorkerFits, EarlyFits
  PROVE  WorkerInv' /\ worker' \in [Workers -> WorkerState]
<1>0. worker \in [Workers -> WorkerState]
  BY DEF TypeOK
<1> DEFINE Good(t) ==
      /\ t.get # Nil => t.pc \in {"fetch", "running"}
      /\ t.pc # "idle" =>
           /\ t.run \in Runs /\ Dispatched(t.run)
           /\ t.pc = "running" => run'[t.run].started
           /\ t.pc \in Reporting =>
                /\ Fits(t.to, t.update)
                /\ t.update.class \in {Nil, "run", "space_configuration"}
                /\ t.update.class = "run" => run[t.run].started
           /\ t.pc = "claim" => t.run \notin early
           /\ /\ t.pc = "fetch" /\ t.get # Nil
              /\ t.get.status = "SCHEDULED" /\ t.run \in early
              => t.get.cancel
<1>1. ASSUME NEW w \in Workers
      PROVE  Good(worker[w])
  BY DEF WorkerInv, Passed
<1>2. ASSUME worker' \in [Workers -> WorkerState],
             \A w \in Workers : Good(worker'[w]),
             SoleExecutor'
      PROVE  WorkerInv'
  <2>1. ASSUME NEW w \in Workers, worker'[w].pc # "idle"
        PROVE  /\ worker'[w].run \in Runs /\ Dispatched(worker[w].run)'
               /\ worker'[w].pc = "running" => run'[worker'[w].run].started
               /\ worker'[w].pc \in Reporting =>
                    /\ Fits(worker'[w].to, worker'[w].update)
                    /\ worker'[w].update.class \in {Nil, "run", "space_configuration"}
                    /\ worker'[w].update.class = "run" => run'[worker'[w].run].started
               /\ worker'[w].pc = "claim" => worker'[w].run \notin early'
               /\ /\ worker'[w].pc = "fetch" /\ worker'[w].get # Nil
                  /\ worker'[w].get.status = "SCHEDULED" /\ worker'[w].run \in early'
                  => worker'[w].get.cancel
    <3>t. PICK t \in WorkerState : t = worker'[w]
      BY <1>2
    <3>1. Good(t)
      BY <1>2, <3>t
    <3>2. t.run \in Runs /\ Dispatched(t.run)
      BY <2>1, <3>1, <3>t
    <3>3. Passed(t.run) /\ (t.run \in early' => t.run \in early)
      BY <3>2 DEF EarlyFits, Dispatched
    <3>4. run'[t.run].status \notin {"NONE", "PENDING"}
      BY <3>2, <3>3 DEF Passed, Dispatched
    <3>5. /\ t.pc = "running" => run'[t.run].started
          /\ t.pc \in Reporting =>
               /\ Fits(t.to, t.update)
               /\ t.update.class \in {Nil, "run", "space_configuration"}
               /\ t.update.class = "run" => run'[t.run].started
          /\ t.pc = "claim" => t.run \notin early'
          /\ /\ t.pc = "fetch" /\ t.get # Nil
             /\ t.get.status = "SCHEDULED" /\ t.run \in early'
             => t.get.cancel
      BY <2>1, <3>t, <3>1, <3>3 DEF Passed
    <3> QED
      BY <3>t, <3>2, <3>4, <3>5 DEF Dispatched
  <2> QED
    BY <1>2, <2>1 DEF WorkerInv, Fits
<1>3. CASE worker' = worker
  <2>1. SoleExecutor'
    BY <1>1, <1>3 DEF WorkerInv, SoleExecutor
  <2>2. \A w \in Workers : Good(worker'[w])
    BY <1>1, <1>3
  <2>3. worker' \in [Workers -> WorkerState]
    BY <1>0, <1>3
  <2> HIDE DEF Good
  <2> QED
    BY <1>2, <2>1, <2>2, <2>3
<1>4. ASSUME NEW w \in Workers, NEW t \in WorkerState, WorkerMove(w, t)
      PROVE  WorkerInv' /\ worker' \in [Workers -> WorkerState]
  <2>1. /\ worker' \in [Workers -> WorkerState] /\ worker'[w] = t
        /\ \A v \in Workers \ {w} : worker'[v] = worker[v]
    BY <1>0, <1>4 DEF WorkerMove
  <2>2. Good(t)
    BY <1>4 DEF WorkerMove
  <2>3. \A v \in Workers : Good(worker'[v])
    <3> HIDE DEF Good
    <3> QED
      BY <1>1, <2>1, <2>2
  <2>4. ASSUME NEW v \in Workers \ {w}, t.pc = "running",
               worker[v].pc = "running", worker[v].run = t.run
        PROVE  FALSE
    <3>1. run[t.run].started
      BY <2>4 DEF WorkerInv
    <3>2. worker[w].pc = "running" /\ worker[w].run = t.run
      BY <1>4, <2>4, <3>1 DEF WorkerMove
    <3> QED
      BY <2>4, <3>2 DEF WorkerInv, SoleExecutor
  <2>5. SoleExecutor'
    BY <2>1, <2>3, <2>4 DEF WorkerInv, SoleExecutor
  <2> HIDE DEF Good
  <2> QED
    BY <1>2, <2>1, <2>3, <2>5
<1> HIDE DEF Good
<1> QED
  BY <1>0, <1>3, <1>4 DEF WorkerFits

\* A step that fits keeps the whole invariant.
LEMMA FittingStep ==
  ASSUME LifecycleInv, StepFits
  PROVE  LifecycleInv'
<1>0. /\ StoreInv /\ TypeOK /\ RowInv
      /\ SchedInv /\ WorkerInv /\ JobInv /\ EarlyInv /\ CallInv
  BY DEF LifecycleInv
<1>1. /\ StoreWrite /\ SchedFits /\ WorkerFits /\ JobFits /\ EarlyFits
      /\ ReaperFits /\ CallsFit /\ RestFits
  BY DEF StepFits
<1>2. StoreInv' /\ RowInv' /\ \A r \in Runs : Passed(r)
  BY <1>0, <1>1, StoreSide
<1>3. SchedInv' /\ sched' \in [Schedulers -> SchedulerState]
  BY <1>0, <1>1, <1>2, SchedSide
<1>4. WorkerInv' /\ worker' \in [Workers -> WorkerState]
  BY <1>0, <1>1, <1>2, WorkerSide
<1>5. JobInv'
  BY <1>0, <1>1, <1>2 DEF JobInv, JobFits, RestFits, Passed, Dispatched
<1>6. EarlyInv'
  <2> SUFFICES ASSUME NEW r \in early' PROVE run'[r].cancel /\ ~run'[r].started
    BY DEF EarlyInv
  <2>1. r \in Runs /\ Passed(r)
    BY <1>1, <1>2 DEF EarlyFits
  <2>2. CASE r \in early
    BY <1>0, <2>1, <2>2 DEF EarlyInv, Passed
  <2>3. CASE run[r].status = "PENDING" /\ run'[r].cancel
    BY <1>0, <2>1, <2>3 DEF RowInv, Passed
  <2> QED
    BY <1>1, <2>2, <2>3 DEF EarlyFits
<1>7. CallInv'
  <2>1. ASSUME NEW e \in reaper'.todo, e.job
        PROVE  run'[e.run].status \notin {"NONE", "PENDING"}
    <3>1. e.run \in Runs /\ Dispatched(e.run)
      BY <1>1, <2>1 DEF ReaperFits, Entry
    <3> QED
      BY <1>2, <3>1 DEF Passed, Dispatched
  <2> QED
    BY <1>1, <1>2, <2>1 DEF CallInv, ReaperFits, CallsFit, Passed, Dispatched
<1>8. StoreTypeOK'
  BY <1>2 DEF StoreInv
<1>9. early' \subseteq Runs
  BY <1>1 DEF EarlyFits
<1>10. TypeOK'
  BY <1>1, <1>3, <1>4, <1>8, <1>9 DEF TypeOK, JobFits, ReaperFits, CallsFit, RestFits
<1> QED
  BY <1>2, <1>3, <1>4, <1>5, <1>6, <1>7, <1>10 DEF LifecycleInv

-----------------------------------------------------------------------------
(* Facts the actions share *)

\* What an action leaves alone fits.
LEMMA Untouched ==
  ASSUME LifecycleInv
  PROVE  /\ UNCHANGED storeVars => StoreWrite
         /\ UNCHANGED sched => SchedFits
         /\ UNCHANGED worker => WorkerFits
         /\ UNCHANGED job => JobFits
         /\ UNCHANGED early => EarlyFits
         /\ UNCHANGED reaper => ReaperFits
         /\ UNCHANGED <<canceler, retrier>> => CallsFit
         /\ UNCHANGED <<authority, named, clock>> => RestFits
<1>0. TypeOK /\ CallInv
  BY DEF LifecycleInv
<1>1. UNCHANGED storeVars => StoreWrite
  BY DEF StoreWrite
<1>2. /\ UNCHANGED sched => SchedFits
      /\ UNCHANGED worker => WorkerFits
  BY DEF SchedFits, WorkerFits
<1>3. UNCHANGED job => JobFits
  BY <1>0 DEF TypeOK, JobFits
<1>4. UNCHANGED early => EarlyFits
  BY <1>0 DEF TypeOK, EarlyFits
<1>5. UNCHANGED reaper => ReaperFits
  BY <1>0 DEF TypeOK, CallInv, ReaperFits
<1>6. UNCHANGED <<canceler, retrier>> => CallsFit
  BY <1>0 DEF TypeOK, CallInv, CallsFit
<1>7. UNCHANGED <<authority, named, clock>> => RestFits
  BY <1>0 DEF TypeOK, RestFits
<1> QED
  BY <1>1, <1>2, <1>3, <1>4, <1>5, <1>6, <1>7

\* An ending's columns: who ended it, why, of which class, and whether it asks.
Ending(u, who, reason, class, q) ==
  /\ u \in Update /\ u.started = FALSE /\ u.out = who
  /\ u.reason = reason /\ u.class = class /\ u.asks = q

\* Every update an actor builds from Ended is such an ending.
LEMMA EndingColumns ==
  ASSUME NEW who \in Outcomes, NEW c \in OrNil(Classes), NEW q \in BOOLEAN,
         NEW reason \in OrNil(Reasons)
  PROVE  /\ Ending(Ended(who), who, Nil, Nil, FALSE)
         /\ Ending([Ended(who) EXCEPT !.class = c], who, Nil, c, FALSE)
         /\ Ending([Ended(who) EXCEPT !.reason = reason], who, reason, Nil, FALSE)
         /\ Ending([Ended(who) EXCEPT !.asks = q], who, Nil, Nil, q)
         /\ who # Nil
<1>1. who # Nil
  BY StoreAssumption
<1>2. NoUpdate \in Update
  BY DEF NoUpdate, Update, OrNil
<1>u. PICK u : u = Ended(who)
  OBVIOUS
<1>3. u \in Update
  BY <1>2, <1>u DEF Ended, Update, OrNil
<1>4. /\ u.started = FALSE /\ u.out = who /\ u.reason = Nil
      /\ u.class = Nil /\ u.asks = FALSE
  BY <1>u DEF Ended, NoUpdate
<1>5. Ending(u, who, Nil, Nil, FALSE)
  BY <1>3, <1>4 DEF Ending
<1>6. Ending([u EXCEPT !.class = c], who, Nil, c, FALSE)
  BY <1>3, <1>4 DEF Ending, Update
<1>7. Ending([u EXCEPT !.reason = reason], who, reason, Nil, FALSE)
  BY <1>3, <1>4 DEF Ending, Update
<1>8. Ending([u EXCEPT !.asks = q], who, Nil, Nil, q)
  BY <1>3, <1>4 DEF Ending, Update
<1> QED
  BY <1>1, <1>u, <1>5, <1>6, <1>7, <1>8

\* A compare-and-set from an actor is one of the writes, won or lost.
LEMMA CasWrites ==
  ASSUME NEW r \in Runs, NEW from \in Status, NEW to \in Status,
         NEW u \in Sent(from, to),
         to = "FAILED" =>
           /\ u.class # Nil
           /\ u.class = "dispatch" /\ run[r].status = from => ~run[r].started
           /\ u.class \in {"worker_lost", "run"} /\ run[r].status = from
                => run[r].started,
         to = "RUNNING" => r \notin early,
         Cas(r, from, to, u)
  PROVE  StoreWrite
<1>1. CASE run[r].status = from
  <2>1. TransitionTaskRun(r, run[r].status, to, u) /\ u \in Sent(run[r].status, to)
    BY <1>1 DEF Cas
  <2>2. to = "FAILED" =>
           /\ u.class # Nil
           /\ u.class = "dispatch" => ~run[r].started
           /\ u.class \in {"worker_lost", "run"} => run[r].started
    BY <1>1
  <2> QED
    BY <2>1, <2>2 DEF StoreWrite
<1>2. CASE run[r].status # from
  BY <1>2 DEF Cas, StoreWrite
<1> QED
  BY <1>1, <1>2

\* A request to stop is a write, and early exactly when the run was waiting.
LEMMA AskWrites ==
  ASSUME LifecycleInv, NEW r \in Runs, NEW c \in Reasons, AskToStop(r, c)
  PROVE  StoreWrite /\ EarlyFits
<1>1. CASE run[r].status \in Active /\ ~run[r].cancel
  <2>1. RequestTaskRunCancel(r, c)
        /\ early' = IF run[r].status = "PENDING" THEN early \cup {r} ELSE early
    BY <1>1 DEF AskToStop
  <2>2. run'[r].cancel
    <3>1. run \in [Runs -> RunRow] /\ run[r] \in RunRow
      BY DEF LifecycleInv, StoreInv, StoreTypeOK
    <3>2. run'[r] = [run[r] EXCEPT !.cancel = TRUE, !.reason = c]
      BY <2>1, <3>1 DEF RequestTaskRunCancel
    <3> QED
      BY <3>1, <3>2 DEF RunRow
  <2>3. early \subseteq Runs
    BY DEF LifecycleInv, TypeOK
  <2> QED
    BY <2>1, <2>2, <2>3 DEF StoreWrite, EarlyFits
<1>2. CASE ~(run[r].status \in Active /\ ~run[r].cancel)
  <2>1. UNCHANGED storeVars /\ early' = early
    BY <1>2 DEF AskToStop
  <2> QED
    BY <2>1, Untouched
<1> QED
  BY <1>1, <1>2

\* A replica's slot is freed, or taken by a run it may work on.
LEMMA SchedSets ==
  ASSUME NEW s \in Schedulers, NEW r \in OrNil(Runs),
         NEW pc \in {"idle", "check", "claim", "dispatch", "wait", "info", "fail"},
         SetSched(s, pc, r),
         pc # "idle" => r \in Runs,
         pc \in Dispatching =>
           /\ run'[r].status \notin {"NONE", "PENDING"}
           /\ \/ sched[s].pc \in Dispatching /\ sched[s].run = r
              \/ run[r].status = "PENDING"
  PROVE  SchedFits
<1>1. CASE pc = "idle"
  <2>1. sched' = [sched EXCEPT ![s] = IdleScheduler]
    BY <1>1 DEF SetSched
  <2>2. IdleScheduler \in SchedulerState /\ IdleScheduler.pc = "idle"
    BY DEF IdleScheduler, SchedulerState, OrNil
  <2>3. SchedMove(s, IdleScheduler)
    BY <2>1, <2>2 DEF SchedMove, Dispatching
  <2> QED
    BY <2>2, <2>3 DEF SchedFits
<1>2. CASE pc # "idle"
  <2>t. PICK t : t = [pc |-> pc, run |-> r, status |-> Nil]
    OBVIOUS
  <2>1. sched' = [sched EXCEPT ![s] = t]
    BY <1>2, <2>t DEF SetSched
  <2>2. t \in SchedulerState /\ t.pc = pc /\ t.run = r
    BY <2>t DEF SchedulerState, OrNil
  <2>3. SchedMove(s, t)
    BY <1>2, <2>1, <2>2 DEF SchedMove, Dispatched
  <2> QED
    BY <2>2, <2>3 DEF SchedFits
<1> QED
  BY <1>1, <1>2

\* A slot is always free to be freed.
LEMMA SlotFreed ==
  ASSUME NEW s \in Schedulers, SetSched(s, "idle", Nil)
  PROVE  SchedFits
BY SchedSets DEF OrNil, Dispatching

-----------------------------------------------------------------------------
(* The scheduler *)

\* A step of a replica alone: nothing but its slot changes.
LEMMA SlotOnly ==
  ASSUME LifecycleInv, SchedFits,
         UNCHANGED <<storeVars, authority, worker, job, named, reaper, canceler,
                     retrier, clock, early>>
  PROVE  StepFits
BY Untouched DEF StepFits

\* A step of a replica that also writes to the store.
LEMMA SlotAndStore ==
  ASSUME LifecycleInv, SchedFits, StoreWrite,
         UNCHANGED <<authority, worker, job, named, reaper, canceler, retrier,
                     clock, early>>
  PROVE  StepFits
BY Untouched DEF StepFits

\* What the replica knows of the run in its slot.
LEMMA SlotFacts ==
  ASSUME LifecycleInv, NEW s \in Schedulers
  PROVE  /\ sched[s] \in SchedulerState
         /\ sched[s].pc # "idle" => sched[s].run \in Runs
         /\ sched[s].pc \in Dispatching => Dispatched(sched[s].run)
         /\ sched[s].pc = "failcas" => sched[s].status \in {"SCHEDULED", "RUNNING"}
         /\ sched[s].pc = "refuse" => sched[s].status \in Withdrawn
BY DEF LifecycleInv, TypeOK, SchedInv

\* pollOnce takes the oldest waiting run.
LEMMA PollOnceFits ==
  ASSUME LifecycleInv, NEW s \in Schedulers, PollOnce(s) PROVE StepFits
<1>1. PICK r \in Runs : SetSched(s, "check", r)
  BY DEF PollOnce
<1>2. SchedFits
  BY <1>1, SchedSets DEF OrNil, Dispatching
<1> QED
  BY <1>2, SlotOnly DEF PollOnce

\* The eligibility check leads to the claim, to a refusal, or nowhere.
LEMMA CheckEligibleFits ==
  ASSUME LifecycleInv, NEW s \in Schedulers, CheckEligible(s) PROVE StepFits
<1>0. /\ sched[s] \in SchedulerState /\ sched[s].pc = "check"
      /\ sched[s].run \in Runs /\ authority \in Withdrawn \cup {"ok"}
  BY SlotFacts DEF CheckEligible, LifecycleInv, TypeOK
<1>1. ASSUME SetSched(s, "idle", Nil) PROVE SchedFits
  BY <1>1, SlotFreed
<1>2. ASSUME SetSched(s, "claim", sched[s].run) PROVE SchedFits
  <2>1. PICK r \in Runs : r = sched[s].run
    BY <1>0
  <2> QED
    BY <1>2, <2>1, SchedSets DEF OrNil, Dispatching
<1>3. ASSUME authority # "ok",
             sched' = [sched EXCEPT ![s].pc = "refuse", ![s].status = authority]
      PROVE  SchedFits
  <2>t. PICK t : t = [sched[s] EXCEPT !.pc = "refuse", !.status = authority]
    OBVIOUS
  <2>1. /\ t \in SchedulerState /\ t.pc = "refuse" /\ t.run \in Runs
        /\ t.status \in Withdrawn
    BY <1>0, <1>3, <2>t DEF SchedulerState, OrNil
  <2>2. sched' = [sched EXCEPT ![s] = t]
    BY <1>3, <2>t DEF LifecycleInv, TypeOK
  <2>3. SchedMove(s, t)
    BY <2>1, <2>2 DEF SchedMove, Dispatching
  <2> QED
    BY <2>1, <2>3 DEF SchedFits
<1>4. SchedFits
  BY <1>1, <1>2, <1>3 DEF CheckEligible
<1> QED
  BY <1>4, SlotOnly DEF CheckEligible

\* cancelRun ends a run that is still waiting, with the reason of the refusal.
LEMMA CancelRunFits ==
  ASSUME LifecycleInv, NEW s \in Schedulers, CancelRun(s) PROVE StepFits
<1>1. PICK r \in Runs, c \in Withdrawn : r = sched[s].run /\ c = sched[s].status
  BY SlotFacts DEF CancelRun
<1>2. c \in Reasons /\ "scheduler" \in Outcomes
  BY LifecycleAssumption
<1>u. PICK u : u = [Ended("scheduler") EXCEPT !.reason = c]
  OBVIOUS
<1>3. Ending(u, "scheduler", c, Nil, FALSE) /\ "scheduler" # Nil
  BY <1>2, <1>u, EndingColumns DEF OrNil
<1>4. u \in Sent("PENDING", "CANCELED")
  BY <1>3 DEF Ending, Sent, Terminal
<1>5. Cas(r, "PENDING", "CANCELED", u)
  BY <1>1, <1>u DEF CancelRun
<1>6. StoreWrite
  BY <1>4, <1>5, CasWrites DEF Status, Active, Terminal
<1>7. SchedFits
  BY SlotFreed DEF CancelRun
<1> QED
  BY <1>6, <1>7, SlotAndStore DEF CancelRun

\* The claim wins only a waiting run, which it takes out of the queue.
LEMMA ClaimRunFits ==
  ASSUME LifecycleInv, NEW s \in Schedulers, ClaimRun(s) PROVE StepFits
<1>1. PICK r \in Runs : r = sched[s].run
  BY SlotFacts DEF ClaimRun
<1>2. NoUpdate \in Sent("PENDING", "SCHEDULED")
  <2>1. NoUpdate \in Update
    BY DEF NoUpdate, Update, OrNil
  <2>2. /\ NoUpdate.started = FALSE /\ NoUpdate.out = Nil /\ NoUpdate.asks = FALSE
        /\ NoUpdate.class = Nil /\ NoUpdate.reason = Nil
    BY DEF NoUpdate
  <2>u. PICK u \in Update : u = NoUpdate
    BY <2>1
  <2>3. u.started = FALSE
    BY <2>2, <2>u, Zenon
  <2>4. u.out = Nil /\ u.asks = FALSE /\ u.class = Nil /\ u.reason = Nil
    BY <2>2, <2>u, Zenon
  <2>5. u.started = ("SCHEDULED" = "RUNNING")
    BY <2>3
  <2>6. (u.out # Nil) = ("SCHEDULED" \in Terminal)
    BY <2>4 DEF Terminal
  <2>7. u.asks => FALSE
    BY <2>4
  <2> QED
    BY <2>u, <2>4, <2>5, <2>6, <2>7 DEF Sent
<1>3. Cas(r, "PENDING", "SCHEDULED", NoUpdate)
  BY <1>1 DEF ClaimRun
<1>4. StoreWrite
  BY <1>2, <1>3, CasWrites DEF Status, Active, Terminal
<1>5. SchedFits
  <2>1. CASE run[r].status = "PENDING"
    <3>1. SetSched(s, "dispatch", r)
      BY <1>1, <2>1 DEF ClaimRun
    <3>2. run'[r].status = "SCHEDULED"
      <4>1. run \in [Runs -> RunRow] /\ NoUpdate \in Update
        BY <1>2 DEF LifecycleInv, StoreInv, StoreTypeOK, Sent
      <4>2. run'[r] = UpdatedRun(run[r], "SCHEDULED", NoUpdate)
        BY <1>3, <2>1, <4>1 DEF Cas, TransitionTaskRun
      <4> QED
        BY <4>1, <4>2, UpdatedColumns DEF Status, Active
    <3> QED
      BY <2>1, <3>1, <3>2, SchedSets DEF OrNil
  <2>2. CASE run[r].status # "PENDING"
    BY <1>1, <2>2, SlotFreed DEF ClaimRun
  <2> QED
    BY <2>1, <2>2
<1> QED
  BY <1>4, <1>5, SlotAndStore DEF ClaimRun

\* A replica in a dispatch stays in it with the same run.
LEMMA StillDispatching ==
  ASSUME LifecycleInv, NEW s \in Schedulers, sched[s].pc \in Dispatching,
         UNCHANGED storeVars,
         NEW pc \in {"wait", "info", "fail"}, SetSched(s, pc, sched[s].run)
  PROVE  SchedFits
<1>1. PICK r \in Runs : r = sched[s].run
  BY SlotFacts DEF Dispatching
<1>2. run'[r].status \notin {"NONE", "PENDING"}
  BY <1>1, SlotFacts DEF storeVars, Dispatched
<1>3. SetSched(s, pc, r)
  BY <1>1
<1> QED
  BY <1>1, <1>2, <1>3, SchedSets DEF OrNil

\* A Job is made for the run the replica has claimed.
LEMMA StartWorkerFits ==
  ASSUME LifecycleInv, NEW s \in Schedulers, StartWorker(s) PROVE StepFits
<1>1. PICK r \in Runs : r = sched[s].run
  BY SlotFacts DEF StartWorker
<1>2. Dispatched(r) /\ sched[s].pc \in Dispatching /\ UNCHANGED storeVars
  BY <1>1, SlotFacts DEF StartWorker, Dispatching
<1>3. \/ SetSched(s, "wait", r) \/ SetSched(s, "info", r) \/ SetSched(s, "fail", r)
  BY <1>1 DEF StartWorker
<1>4. SchedFits
  BY <1>1, <1>2, <1>3, StillDispatching
<1>5. job' = job \/ job' = [job EXCEPT ![r] = "live"]
  BY <1>1 DEF StartWorker
<1>6. job \in [Runs -> {"none", "live", "done", "failed", "deleted"}]
  BY DEF LifecycleInv, TypeOK
<1>7. JobFits
  BY <1>2, <1>5, <1>6 DEF JobFits
<1> QED
  BY <1>4, <1>7, Untouched DEF StartWorker, StepFits

\* The local runner's Run has returned.
LEMMA ProcessExitedFits ==
  ASSUME LifecycleInv, NEW s \in Schedulers, ProcessExited(s) PROVE StepFits
<1>1. sched[s].pc \in Dispatching /\ UNCHANGED storeVars
  BY DEF ProcessExited, Dispatching
<1>2. SetSched(s, "info", sched[s].run) \/ SetSched(s, "fail", sched[s].run)
  BY DEF ProcessExited
<1>3. SchedFits
  BY <1>1, <1>2, StillDispatching
<1> QED
  BY <1>3, SlotOnly DEF ProcessExited

\* The Job's name is recorded and the slot freed.
LEMMA RecordWorkerInfoFits ==
  ASSUME LifecycleInv, NEW s \in Schedulers, RecordWorkerInfo(s) PROVE StepFits
<1>1. SchedFits
  BY SlotFreed DEF RecordWorkerInfo
<1>2. RestFits
  BY SlotFacts DEF RecordWorkerInfo, LifecycleInv, TypeOK, RestFits, Dispatching
<1> QED
  BY <1>1, <1>2, Untouched DEF RecordWorkerInfo, StepFits

\* failRun's read: a run that is not over is SCHEDULED or RUNNING by now.
LEMMA ReadBeforeFailFits ==
  ASSUME LifecycleInv, NEW s \in Schedulers, ReadBeforeFail(s) PROVE StepFits
<1>1. PICK r \in Runs : r = sched[s].run
  BY SlotFacts DEF ReadBeforeFail
<1>2. Dispatched(r) /\ sched[s] \in SchedulerState /\ sched[s].pc \in Dispatching
  BY <1>1, SlotFacts DEF ReadBeforeFail, Dispatching
<1>3. ASSUME run[r].status \in Terminal PROVE SchedFits
  BY <1>1, <1>3, SlotFreed DEF ReadBeforeFail
<1>4. ASSUME run[r].status \notin Terminal PROVE SchedFits
  <2>0. run[r].status \in {"SCHEDULED", "RUNNING"}
    BY <1>2, <1>4 DEF LifecycleInv, StoreInv, StoreTypeOK, RunRow, Dispatched,
                      Status, Active
  <2>t. PICK t : t = [sched[s] EXCEPT !.pc = "failcas", !.status = run[r].status]
    OBVIOUS
  <2>1. /\ t \in SchedulerState /\ t.pc = "failcas" /\ t.run = r
        /\ t.status \in {"SCHEDULED", "RUNNING"}
    BY <1>1, <1>2, <2>0, <2>t DEF SchedulerState, OrNil, Active
  <2>2. sched' = [sched EXCEPT ![s] = t]
    BY <1>1, <1>4, <2>t DEF ReadBeforeFail, LifecycleInv, TypeOK
  <2>3. run'[r].status \notin {"NONE", "PENDING"}
    BY <2>0 DEF ReadBeforeFail, storeVars
  <2>4. SchedMove(s, t)
    BY <1>1, <1>2, <2>1, <2>2, <2>3 DEF SchedMove, Dispatched
  <2> QED
    BY <2>1, <2>4 DEF SchedFits
<1>5. SchedFits
  BY <1>3, <1>4
<1> QED
  BY <1>5, SlotOnly DEF ReadBeforeFail

\* failRun's write: the class of the status it read, which the row still has.
LEMMA FailRunFits ==
  ASSUME LifecycleInv, NEW s \in Schedulers, FailRun(s) PROVE StepFits
<1>1. PICK r \in Runs, read \in {"SCHEDULED", "RUNNING"} :
        r = sched[s].run /\ read = sched[s].status
  BY SlotFacts DEF FailRun
<1>c. PICK c \in {"worker_lost", "dispatch"} :
        c = IF read = "RUNNING" THEN "worker_lost" ELSE "dispatch"
  OBVIOUS
<1>2. c \in Classes /\ "scheduler" \in Outcomes /\ c # Nil
  BY <1>c, LifecycleAssumption, StoreAssumption
<1>u. PICK u : u = [Ended("scheduler") EXCEPT !.class = c]
  OBVIOUS
<1>3. Ending(u, "scheduler", Nil, c, FALSE) /\ "scheduler" # Nil
  BY <1>2, <1>u, EndingColumns DEF OrNil
<1>4. u \in Sent(read, "FAILED")
  BY <1>3 DEF Ending, Sent, Terminal
<1>5. Cas(r, read, "FAILED", u)
  BY <1>1, <1>c, <1>u DEF FailRun
<1>6. /\ run[r].status = "SCHEDULED" => ~run[r].started
      /\ run[r].status = "RUNNING" => run[r].started
  BY DEF LifecycleInv, RowInv
<1>7. /\ u.class # Nil
      /\ u.class = "dispatch" /\ run[r].status = read => ~run[r].started
      /\ u.class \in {"worker_lost", "run"} /\ run[r].status = read => run[r].started
  BY <1>1, <1>c, <1>2, <1>3, <1>6 DEF Ending
<1>8. StoreWrite
  BY <1>1, <1>4, <1>5, <1>7, CasWrites DEF Status, Active, Terminal
<1>9. SchedFits
  BY SlotFreed DEF FailRun
<1> QED
  BY <1>8, <1>9, SlotAndStore DEF FailRun

\* A restart only frees a slot.
LEMMA ServerRestartFits ==
  ASSUME LifecycleInv, NEW s \in Schedulers, ServerRestart(s) PROVE StepFits
BY SlotFreed, SlotOnly DEF ServerRestart

-----------------------------------------------------------------------------
(* The workers *)

\* What a worker knows of its run.
LEMMA WorkerFacts ==
  ASSUME LifecycleInv, NEW w \in Workers
  PROVE  /\ worker \in [Workers -> WorkerState] /\ worker[w] \in WorkerState
         /\ worker[w].get # Nil => worker[w].pc \in {"fetch", "running"}
         /\ worker[w].pc # "idle" =>
              /\ worker[w].run \in Runs /\ Dispatched(worker[w].run)
              /\ worker[w].pc = "running" => run[worker[w].run].started
              /\ worker[w].pc \in Reporting =>
                   /\ Fits(worker[w].to, worker[w].update)
                   /\ worker[w].update.class \in {Nil, "run", "space_configuration"}
                   /\ worker[w].update.class = "run" => run[worker[w].run].started
              /\ worker[w].pc = "claim" => worker[w].run \notin early
              /\ /\ worker[w].pc = "fetch" /\ worker[w].get # Nil
                 /\ worker[w].get.status = "SCHEDULED" /\ worker[w].run \in early
                 => worker[w].get.cancel
BY DEF LifecycleInv, TypeOK, WorkerInv

\* An idle worker is always a legal one.
LEMMA WorkerStops ==
  ASSUME NEW w \in Workers, worker' = [worker EXCEPT ![w] = IdleWorker]
  PROVE  WorkerFits
<1>1. NoUpdate \in Update
  BY DEF NoUpdate, Update, OrNil
<1>2. IdleWorker \in WorkerState /\ IdleWorker.pc = "idle" /\ IdleWorker.get = Nil
  BY <1>1 DEF IdleWorker, WorkerState, OrNil
<1>3. WorkerMove(w, IdleWorker)
  BY <1>2 DEF WorkerMove
<1> QED
  BY <1>2, <1>3 DEF WorkerFits

\* A worker that exits completes the Job of a dispatched run.
LEMMA ExitFits ==
  ASSUME LifecycleInv, NEW w \in Workers, worker[w].pc # "idle", Exit(w)
  PROVE  WorkerFits /\ JobFits
<1>1. WorkerFits
  BY WorkerStops DEF Exit
<1>2. PICK r \in Runs : r = worker[w].run /\ Dispatched(r)
  BY WorkerFacts
<1>3. job \in [Runs -> {"none", "live", "done", "failed", "deleted"}]
  BY DEF LifecycleInv, TypeOK
<1>4. job' = [job EXCEPT ![r] = IF job[r] = "live" THEN "done" ELSE job[r]]
  BY <1>2 DEF Exit
<1>5. JobFits
  BY <1>2, <1>3, <1>4 DEF JobFits
<1> QED
  BY <1>1, <1>5

\* A worker goes on with an empty answer: it asks again, or turns to the claim.
LEMMA GoesOn ==
  ASSUME LifecycleInv, NEW w \in Workers, worker[w].pc # "idle",
         NEW pc \in {"fetch", "claim", "running"}, Resume(w, pc), StoreWrite,
         pc = "running" => worker[w].pc = "running",
         pc = "claim" => worker[w].run \notin early
  PROVE  WorkerFits
<1>0. /\ worker[w] \in WorkerState /\ worker[w].run \in Runs
      /\ Dispatched(worker[w].run) /\ worker \in [Workers -> WorkerState]
      /\ worker[w].pc = "running" => run[worker[w].run].started
  BY WorkerFacts
<1>t. PICK t : t = [worker[w] EXCEPT !.pc = pc, !.get = Nil]
  OBVIOUS
<1>1. /\ t \in WorkerState /\ t.pc = pc /\ t.run = worker[w].run /\ t.get = Nil
  BY <1>0, <1>t DEF WorkerState, OrNil
<1>2. worker' = [worker EXCEPT ![w] = t]
  BY <1>0, <1>t DEF Resume
<1>3. pc = "running" => run'[t.run].started
  BY <1>0, <1>1, StoreSide DEF LifecycleInv, Passed
<1>4. WorkerMove(w, t)
  BY <1>0, <1>1, <1>2, <1>3 DEF WorkerMove, Reporting
<1> QED
  BY <1>1, <1>4 DEF WorkerFits

\* A worker turns to its report.
LEMMA TurnsToReport ==
  ASSUME LifecycleInv, NEW w \in Workers, worker[w].pc # "idle",
         NEW to, NEW u, ToReport(w, to, u), Fits(to, u),
         u.class \in {Nil, "run", "space_configuration"},
         u.class = "run" => worker[w].pc = "running"
  PROVE  WorkerFits
<1>0. /\ worker[w] \in WorkerState /\ worker[w].run \in Runs
      /\ Dispatched(worker[w].run) /\ worker \in [Workers -> WorkerState]
      /\ worker[w].pc = "running" => run[worker[w].run].started
  BY WorkerFacts
<1>1. to \in Terminal /\ u \in Update
  BY DEF Fits
<1>t. PICK t : t = [worker[w] EXCEPT !.pc = "report", !.to = to, !.update = u, !.get = Nil]
  OBVIOUS
<1>2. /\ t \in WorkerState /\ t.pc = "report" /\ t.run = worker[w].run
      /\ t.to = to /\ t.update = u /\ t.get = Nil
  BY <1>0, <1>1, <1>t DEF WorkerState, OrNil
<1>3. worker' = [worker EXCEPT ![w] = t]
  BY <1>0, <1>t DEF ToReport
<1>4. WorkerMove(w, t)
  BY <1>0, <1>2, <1>3 DEF WorkerMove, Reporting
<1> QED
  BY <1>2, <1>4 DEF WorkerFits

\* What a worker's reports carry.
LEMMA ReportsFit ==
  /\ Fits("CANCELED", Ended("worker")) /\ Ended("worker").class = Nil
  /\ \A q \in BOOLEAN :
       /\ Fits("SUCCEEDED", [Ended("worker") EXCEPT !.asks = q])
       /\ [Ended("worker") EXCEPT !.asks = q].class = Nil
  /\ \A c \in {"run", "space_configuration"} :
       /\ Fits("FAILED", [Ended("worker") EXCEPT !.class = c])
       /\ [Ended("worker") EXCEPT !.class = c].class = c
<1>1. "worker" \in Outcomes /\ {"run", "space_configuration"} \subseteq Classes
      /\ Nil \notin Classes
  BY LifecycleAssumption, StoreAssumption
<1>2. ASSUME NEW u, NEW q \in BOOLEAN, NEW c, NEW to \in Terminal,
             Ending(u, "worker", Nil, c, q), "worker" # Nil,
             (c # Nil) <=> (to = "FAILED"), q => to = "SUCCEEDED"
      PROVE  Fits(to, u) /\ u.class = c
  BY <1>2 DEF Ending, Fits
<1>3. Fits("CANCELED", Ended("worker")) /\ Ended("worker").class = Nil
  <2>1. Ending(Ended("worker"), "worker", Nil, Nil, FALSE) /\ "worker" # Nil
    BY <1>1, EndingColumns DEF OrNil
  <2> QED
    BY <1>2, <2>1 DEF Terminal
<1>4. ASSUME NEW q \in BOOLEAN
      PROVE  /\ Fits("SUCCEEDED", [Ended("worker") EXCEPT !.asks = q])
             /\ [Ended("worker") EXCEPT !.asks = q].class = Nil
  <2>u. PICK u : u = [Ended("worker") EXCEPT !.asks = q]
    OBVIOUS
  <2>1. Ending(u, "worker", Nil, Nil, q) /\ "worker" # Nil
    BY <1>1, <2>u, EndingColumns DEF OrNil
  <2>2. Fits("SUCCEEDED", u) /\ u.class = Nil
    BY <1>2, <2>1 DEF Terminal
  <2> QED
    BY <2>u, <2>2
<1>5. ASSUME NEW c \in {"run", "space_configuration"}
      PROVE  /\ Fits("FAILED", [Ended("worker") EXCEPT !.class = c])
             /\ [Ended("worker") EXCEPT !.class = c].class = c
  <2>u. PICK u : u = [Ended("worker") EXCEPT !.class = c]
    OBVIOUS
  <2>0. c \in Classes /\ c # Nil
    BY <1>1
  <2>1. Ending(u, "worker", Nil, c, FALSE) /\ "worker" # Nil
    BY <1>1, <2>0, <2>u, EndingColumns DEF OrNil
  <2>2. Fits("FAILED", u) /\ u.class = c
    BY <1>2, <2>0, <2>1 DEF Terminal
  <2> QED
    BY <2>u, <2>2
<1> QED
  BY <1>3, <1>4, <1>5

\* A pod starts for a run that has a Job.
LEMMA WorkerStartsFits ==
  ASSUME LifecycleInv, NEW w \in Workers, WorkerStarts(w) PROVE StepFits
<1>1. PICK r \in Runs :
        /\ job[r] = "live"
        /\ worker' = [worker EXCEPT ![w] = [IdleWorker EXCEPT !.pc = "fetch", !.run = r]]
  BY DEF WorkerStarts
<1>2. Dispatched(r)
  BY <1>1 DEF LifecycleInv, JobInv
<1>t. PICK t : t = [IdleWorker EXCEPT !.pc = "fetch", !.run = r]
  OBVIOUS
<1>3. NoUpdate \in Update
  BY DEF NoUpdate, Update, OrNil
<1>4. t \in WorkerState /\ t.pc = "fetch" /\ t.run = r /\ t.get = Nil
  BY <1>3, <1>t DEF IdleWorker, WorkerState, OrNil
<1>5. WorkerMove(w, t)
  BY <1>1, <1>2, <1>t, <1>4 DEF WorkerMove, Reporting
<1>6. WorkerFits
  BY <1>4, <1>5 DEF WorkerFits
<1> QED
  BY <1>6, Untouched DEF WorkerStarts, StepFits

\* getTaskRun reads the row: an early cancel is in it.
LEMMA GetTaskRunFits ==
  ASSUME LifecycleInv, NEW w \in Workers, GetTaskRun(w) PROVE StepFits
<1>0. /\ worker[w] \in WorkerState /\ worker \in [Workers -> WorkerState]
      /\ worker[w].pc \in {"fetch", "running"}
      /\ worker[w].pc = "running" => run[worker[w].run].started
  BY WorkerFacts DEF GetTaskRun
<1>1. PICK r \in Runs : r = worker[w].run /\ Dispatched(r)
  BY <1>0, WorkerFacts
<1>2. /\ run[r] \in RunRow /\ run[r].status \in Status
      /\ r \in early => run[r].cancel
  BY <1>1 DEF LifecycleInv, StoreInv, StoreTypeOK, RunRow, Dispatched, EarlyInv
<1>a. PICK a : a = [status |-> run[r].status, cancel |-> run[r].cancel]
  OBVIOUS
<1>3. a \in Answer /\ a.status = run[r].status /\ a.cancel = run[r].cancel
  BY <1>2, <1>a DEF Answer, RunRow
<1>t. PICK t : t = [worker[w] EXCEPT !.get = a]
  OBVIOUS
<1>4. /\ t \in WorkerState /\ t.pc = worker[w].pc /\ t.run = r /\ t.get = a
  BY <1>0, <1>1, <1>3, <1>t DEF WorkerState, OrNil
<1>5. worker' = [worker EXCEPT ![w] = t]
  BY <1>0, <1>1, <1>a, <1>t DEF GetTaskRun
<1>6. run' = run
  BY DEF GetTaskRun, storeVars
<1>7. WorkerMove(w, t)
  BY <1>0, <1>1, <1>2, <1>3, <1>4, <1>5, <1>6 DEF WorkerMove, Reporting
<1>8. WorkerFits
  BY <1>4, <1>7 DEF WorkerFits
<1>9. RestFits
  <2>1. clock \in Clock /\ authority \in Withdrawn \cup {"ok"} /\ named \subseteq Runs
    BY DEF LifecycleInv, TypeOK
  <2>2. clock' = clock \/ clock' = [clock EXCEPT !.silent = clock.silent \ {r}]
    BY <1>1 DEF GetTaskRun
  <2>3. clock' \in Clock
    BY <2>1, <2>2 DEF Clock
  <2> QED
    BY <2>1, <2>3 DEF RestFits, GetTaskRun
<1> QED
  BY <1>8, <1>9, Untouched DEF GetTaskRun, StepFits

\* The check of the initiator asks the run to stop, or changes nothing.
LEMMA CheckWrites ==
  ASSUME LifecycleInv, NEW w \in Workers, worker[w].pc # "idle",
         NEW cancel \in BOOLEAN, CheckInitiator(w, cancel)
  PROVE  /\ StoreWrite /\ EarlyFits
         /\ worker[w].get.cancel = TRUE => cancel
<1>1. PICK r \in Runs : r = worker[w].run
  BY WorkerFacts
<1>2. CASE Checked(worker[w].get) /\ authority # "ok"
  <2>1. authority \in Reasons
    BY <1>2, LifecycleAssumption DEF LifecycleInv, TypeOK
  <2>2. cancel = TRUE /\ AskToStop(r, authority)
    BY <1>1, <1>2 DEF CheckInitiator
  <2> QED
    BY <2>1, <2>2, AskWrites
<1>3. CASE ~(Checked(worker[w].get) /\ authority # "ok")
  <2>1. cancel = worker[w].get.cancel /\ UNCHANGED storeVars /\ early' = early
    BY <1>3 DEF CheckInitiator
  <2> QED
    BY <2>1, Untouched
<1> QED
  BY <1>2, <1>3

\* The fetch that decides: exit, report, or the claim of a run not asked to stop.
LEMMA FetchFits ==
  ASSUME LifecycleInv, NEW w \in Workers, Fetch(w) PROVE StepFits
<1>0. worker[w].pc = "fetch" /\ worker[w].get # Nil
  BY DEF Fetch
<1>1. PICK cancel \in BOOLEAN :
       /\ CheckInitiator(w, cancel)
       /\ \/ worker[w].get.status # "SCHEDULED" /\ Exit(w)
          \/ /\ worker[w].get.status = "SCHEDULED"
             /\ \/ cancel /\ ToReport(w, "CANCELED", Ended("worker"))
                \/ ~cancel /\ Resume(w, "claim")
                \/ ~cancel /\ ToReport(w, "FAILED",
                     [Ended("worker") EXCEPT !.class = "space_configuration"])
             /\ UNCHANGED job
  BY DEF Fetch
<1>2. /\ StoreWrite /\ EarlyFits
      /\ worker[w].get.cancel = TRUE => cancel
  BY <1>0, <1>1, CheckWrites
<1>3. WorkerFits /\ JobFits
  <2>1. CASE Exit(w)
    BY <1>0, <2>1, ExitFits
  <2>2. CASE ToReport(w, "CANCELED", Ended("worker")) /\ UNCHANGED job
    <3>u. PICK u : u = Ended("worker")
      OBVIOUS
    <3>1. Fits("CANCELED", u) /\ u.class = Nil /\ Nil # "run"
      BY <3>u, ReportsFit, LifecycleAssumption, StoreAssumption
    <3>2. ToReport(w, "CANCELED", u)
      BY <2>2, <3>u
    <3> QED
      BY <1>0, <2>2, <3>1, <3>2, TurnsToReport, Untouched
  <2>3. CASE /\ worker[w].get.status = "SCHEDULED" /\ ~cancel /\ Resume(w, "claim")
             /\ UNCHANGED job
    <3>1. worker[w].get \in Answer
      BY <1>0, WorkerFacts DEF WorkerState, OrNil
    <3>2. worker[w].get.cancel = FALSE
      BY <1>2, <2>3, <3>1 DEF Answer
    <3>3. worker[w].run \notin early
      BY <1>0, <2>3, <3>2, WorkerFacts
    <3> QED
      BY <1>0, <1>2, <2>3, <3>3, GoesOn, Untouched
  <2>4. CASE /\ ToReport(w, "FAILED",
                  [Ended("worker") EXCEPT !.class = "space_configuration"])
             /\ UNCHANGED job
    <3>u. PICK u : u = [Ended("worker") EXCEPT !.class = "space_configuration"]
      OBVIOUS
    <3>1. Fits("FAILED", u) /\ u.class = "space_configuration"
      BY <3>u, ReportsFit
    <3>2. ToReport(w, "FAILED", u)
      BY <2>4, <3>u
    <3> QED
      BY <1>0, <2>4, <3>1, <3>2, TurnsToReport, Untouched
  <2> QED
    BY <1>1, <2>1, <2>2, <2>3, <2>4
<1> QED
  BY <1>2, <1>3, Untouched DEF Fetch, StepFits

\* A 503 leaves the worker where it was.
LEMMA FetchUnavailableFits ==
  ASSUME LifecycleInv, NEW w \in Workers, FetchUnavailable(w) PROVE StepFits
<1>1. worker[w].get # Nil /\ Resume(w, worker[w].pc)
  BY DEF FetchUnavailable
<1>2. PICK pc \in {"fetch", "running"} : pc = worker[w].pc
  BY <1>1, WorkerFacts
<1>3. WorkerFits
  BY <1>1, <1>2, GoesOn, Untouched DEF FetchUnavailable
<1> QED
  BY <1>3, Untouched DEF FetchUnavailable, StepFits

\* The PATCH to RUNNING: one pod wins a run that no early cancel stopped.
LEMMA ClaimAsWorkerFits ==
  ASSUME LifecycleInv, NEW w \in Workers, ClaimAsWorker(w) PROVE StepFits
<1>0. /\ worker[w] \in WorkerState /\ worker \in [Workers -> WorkerState]
      /\ worker[w].pc = "claim" /\ worker[w].get = Nil
  BY WorkerFacts DEF ClaimAsWorker
<1>1. PICK r \in Runs : r = worker[w].run /\ Dispatched(r) /\ r \notin early
  BY <1>0, WorkerFacts
<1>u. PICK u : u = [NoUpdate EXCEPT !.started = TRUE]
  OBVIOUS
<1>2. NoUpdate \in Update
  BY DEF NoUpdate, Update, OrNil
<1>3. /\ u \in Update /\ u.started = TRUE /\ u.out = Nil /\ u.asks = FALSE
      /\ u.class = Nil /\ u.reason = Nil
  BY <1>2, <1>u DEF NoUpdate, Update
<1>4. u \in Sent("SCHEDULED", "RUNNING")
  <2>1. u.started = ("RUNNING" = "RUNNING")
    BY <1>3
  <2>2. (u.out # Nil) = ("RUNNING" \in Terminal)
    BY <1>3 DEF Terminal
  <2>3. u.asks => FALSE
    BY <1>3
  <2> QED
    BY <1>3, <2>1, <2>2, <2>3 DEF Sent
<1>5. Cas(r, "SCHEDULED", "RUNNING", u)
  BY <1>1, <1>u DEF ClaimAsWorker
<1>6. StoreWrite
  BY <1>1, <1>4, <1>5, CasWrites DEF Status, Active, Terminal
<1>7. WorkerFits /\ JobFits
  <2>1. CASE run[r].status = "SCHEDULED"
    <3>t. PICK t : t = [worker[w] EXCEPT !.pc = "running"]
      OBVIOUS
    <3>1. t \in WorkerState /\ t.pc = "running" /\ t.run = r /\ t.get = Nil
      BY <1>0, <1>1, <3>t DEF WorkerState
    <3>2. worker' = [worker EXCEPT ![w] = t] /\ UNCHANGED job
      BY <1>0, <1>1, <2>1, <3>t DEF ClaimAsWorker, SetWorker
    <3>3. run'[r].started
      <4>1. run \in [Runs -> RunRow]
        BY DEF LifecycleInv, StoreInv, StoreTypeOK
      <4>2. run'[r] = UpdatedRun(run[r], "RUNNING", u)
        BY <1>5, <2>1, <4>1 DEF Cas, TransitionTaskRun
      <4>3. run'[r].started = (run[r].started \/ u.started)
        BY <1>3, <4>1, <4>2, UpdatedColumns DEF Status, Active
      <4> QED
        BY <1>3, <4>3, Zenon
    <3>4. ~run[r].started
      BY <2>1 DEF LifecycleInv, RowInv
    <3>5. WorkerMove(w, t)
      BY <1>1, <3>1, <3>2, <3>3, <3>4 DEF WorkerMove, Reporting
    <3> QED
      BY <3>1, <3>2, <3>5, Untouched DEF WorkerFits
  <2>2. CASE run[r].status # "SCHEDULED"
    BY <1>0, <1>1, <2>2, ExitFits DEF ClaimAsWorker
  <2> QED
    BY <2>1, <2>2
<1> QED
  BY <1>6, <1>7, Untouched DEF ClaimAsWorker, StepFits

\* A poll of WatchCancel: the agent is stopped, or goes on.
LEMMA WatchCancelFits ==
  ASSUME LifecycleInv, NEW w \in Workers, WatchCancel(w) PROVE StepFits
<1>0. worker[w].pc = "running"
  BY DEF WatchCancel
<1>1. PICK cancel \in BOOLEAN :
        /\ CheckInitiator(w, cancel)
        /\ IF cancel THEN ToReport(w, "CANCELED", Ended("worker"))
                     ELSE Resume(w, "running")
  BY DEF WatchCancel
<1>2. StoreWrite /\ EarlyFits
  BY <1>0, <1>1, CheckWrites
<1>3. WorkerFits
  <2>1. CASE cancel
    <3>u. PICK u : u = Ended("worker")
      OBVIOUS
    <3>1. Fits("CANCELED", u) /\ u.class = Nil /\ Nil # "run"
      BY <3>u, ReportsFit, LifecycleAssumption, StoreAssumption
    <3>2. ToReport(w, "CANCELED", u)
      BY <1>1, <2>1, <3>u
    <3> QED
      BY <1>0, <3>1, <3>2, TurnsToReport
  <2>2. CASE ~cancel
    BY <1>0, <1>1, <1>2, <2>2, GoesOn
  <2> QED
    BY <2>1, <2>2
<1> QED
  BY <1>2, <1>3, Untouched DEF WatchCancel, StepFits

\* The agent ends, one way or another.
LEMMA AgentEndsFits ==
  ASSUME LifecycleInv, NEW w \in Workers, AgentEnds(w) PROVE StepFits
<1>0. worker[w].pc = "running" /\ Nil # "run"
  BY LifecycleAssumption, StoreAssumption DEF AgentEnds
<1>1. ASSUME NEW q \in BOOLEAN,
             ToReport(w, "SUCCEEDED", [Ended("worker") EXCEPT !.asks = q])
      PROVE  WorkerFits
  <2>u. PICK u : u = [Ended("worker") EXCEPT !.asks = q]
    OBVIOUS
  <2>1. Fits("SUCCEEDED", u) /\ u.class = Nil
    BY <2>u, ReportsFit
  <2>2. ToReport(w, "SUCCEEDED", u)
    BY <1>1, <2>u
  <2> QED
    BY <1>0, <2>1, <2>2, TurnsToReport
<1>2. ASSUME NEW c \in {"run", "space_configuration"},
             ToReport(w, "FAILED", [Ended("worker") EXCEPT !.class = c])
      PROVE  WorkerFits
  <2>u. PICK u : u = [Ended("worker") EXCEPT !.class = c]
    OBVIOUS
  <2>1. Fits("FAILED", u) /\ u.class = c
    BY <2>u, ReportsFit
  <2>2. ToReport(w, "FAILED", u)
    BY <1>2, <2>u
  <2> QED
    BY <1>0, <2>1, <2>2, TurnsToReport
<1>3. WorkerFits
  BY <1>1, <1>2 DEF AgentEnds
<1> QED
  BY <1>3, Untouched DEF AgentEnds, StepFits

\* Whatever a worker reports, the store accepts it as an ending of its run.
LEMMA ReportWrites ==
  ASSUME LifecycleInv, NEW w \in Workers, worker[w].pc \in Reporting,
         NEW from \in {"SCHEDULED", "RUNNING"},
         Cas(worker[w].run, from, worker[w].to, worker[w].update)
  PROVE  StoreWrite
<1>0. PICK r \in Runs : r = worker[w].run
  BY WorkerFacts DEF Reporting
<1>1. PICK to, u : r = worker[w].run /\ to = worker[w].to /\ u = worker[w].update
  BY <1>0
<1>2. /\ Fits(to, u) /\ u.class \in {Nil, "run", "space_configuration"}
      /\ u.class = "run" => run[r].started
  BY <1>1, WorkerFacts DEF Reporting
<1>3. to \in Terminal /\ u \in Update /\ Nil \notin {"dispatch", "worker_lost", "run"}
  BY <1>2, LifecycleAssumption, StoreAssumption DEF Fits
<1>4. u \in Sent(from, to)
  <2>1. u.started = (to = "RUNNING")
    <3>1. u.started \in BOOLEAN /\ ~u.started
      BY <1>2, <1>3 DEF Fits, Update
    <3>2. to # "RUNNING"
      BY <1>3 DEF Terminal
    <3> QED
      BY <3>1, <3>2
  <2>2. (u.out # Nil) = (to \in Terminal)
    BY <1>2, <1>3 DEF Fits
  <2>3. u.asks => to = "SUCCEEDED"
    BY <1>2 DEF Fits
  <2>4. (u.class # Nil => to = "FAILED") /\ u.reason = Nil
    BY <1>2 DEF Fits
  <2> QED
    BY <1>3, <2>1, <2>2, <2>3, <2>4 DEF Sent
<1>5. to = "FAILED" =>
        /\ u.class # Nil
        /\ u.class = "dispatch" /\ run[r].status = from => ~run[r].started
        /\ u.class \in {"worker_lost", "run"} /\ run[r].status = from => run[r].started
  BY <1>2, <1>3 DEF Fits
<1>6. Cas(r, from, to, u) /\ to # "RUNNING" /\ to \in Status /\ from \in Status
  BY <1>1, <1>3 DEF Terminal, Status, Active
<1> QED
  BY <1>4, <1>5, <1>6, CasWrites

\* handlePatchTerminalStatus from RUNNING.
LEMMA ReportFits ==
  ASSUME LifecycleInv, NEW w \in Workers, Report(w) PROVE StepFits
<1>0. /\ worker[w] \in WorkerState /\ worker \in [Workers -> WorkerState]
      /\ worker[w].pc = "report" /\ worker[w].get = Nil
  BY WorkerFacts DEF Report
<1>1. PICK r \in Runs : r = worker[w].run /\ Dispatched(r)
  BY <1>0, WorkerFacts
<1>2. StoreWrite
  BY <1>0, ReportWrites DEF Report, Reporting
<1>3. WorkerFits /\ JobFits
  <2>1. CASE Exit(w)
    BY <1>0, <2>1, ExitFits
  <2>2. CASE SetWorker(w, "report2") /\ UNCHANGED job
    <3>t. PICK t : t = [worker[w] EXCEPT !.pc = "report2"]
      OBVIOUS
    <3>1. /\ t \in WorkerState /\ t.pc = "report2" /\ t.run = r /\ t.get = Nil
          /\ t.to = worker[w].to /\ t.update = worker[w].update
      BY <1>0, <1>1, <3>t DEF WorkerState
    <3>2. worker' = [worker EXCEPT ![w] = t]
      BY <1>0, <2>2, <3>t DEF SetWorker
    <3>3. /\ Fits(t.to, t.update)
          /\ t.update.class \in {Nil, "run", "space_configuration"}
          /\ t.update.class = "run" => run[t.run].started
      BY <1>0, <1>1, <3>1, WorkerFacts DEF Reporting
    <3>4. WorkerMove(w, t)
      BY <1>1, <3>1, <3>2, <3>3 DEF WorkerMove
    <3> QED
      BY <2>2, <3>1, <3>4, Untouched DEF WorkerFits
  <2> QED
    BY <2>1, <2>2 DEF Report
<1> QED
  BY <1>2, <1>3, Untouched DEF Report, StepFits

\* The second transaction of a report, from SCHEDULED.
LEMMA ReportUnclaimedFits ==
  ASSUME LifecycleInv, NEW w \in Workers, ReportUnclaimed(w) PROVE StepFits
<1>1. StoreWrite
  BY ReportWrites DEF ReportUnclaimed, Reporting
<1>2. WorkerFits /\ JobFits
  BY ExitFits DEF ReportUnclaimed
<1> QED
  BY <1>1, <1>2, Untouched DEF ReportUnclaimed, StepFits

\* A worker that dies writes nothing.
LEMMA WorkerDiesFits ==
  ASSUME LifecycleInv, NEW w \in Workers, WorkerDies(w) PROVE StepFits
<1>1. WorkerFits
  BY WorkerStops DEF WorkerDies
<1>2. PICK r \in Runs : r = worker[w].run /\ Dispatched(r)
  BY WorkerFacts DEF WorkerDies
<1>3. job \in [Runs -> {"none", "live", "done", "failed", "deleted"}]
  BY DEF LifecycleInv, TypeOK
<1>4. job' = [job EXCEPT ![r] =
                IF job[r] = "live" /\ Runner = "local" THEN "failed" ELSE job[r]]
  BY <1>2 DEF WorkerDies
<1>5. JobFits
  BY <1>2, <1>3, <1>4 DEF JobFits
<1> QED
  BY <1>1, <1>5, Untouched DEF WorkerDies, StepFits

-----------------------------------------------------------------------------
(* The reaper *)

\* Each list holds entries of the statuses it was made for.
LEMMA ListedEntries ==
  ASSUME LifecycleInv, NEW phase \in {"canceled", "lost", "abandoned"}
  PROVE  \A e \in Listed(phase) :
           /\ e \in Entry
           /\ phase = "lost" => e.status = "RUNNING"
           /\ phase = "abandoned" => e.status \in {"SCHEDULED", "RUNNING"}
           /\ e.job => Dispatched(e.run)
<1>1. clock.old \subseteq Runs /\ clock.silent \subseteq Runs /\ clock.cancelOld \subseteq Runs
  BY DEF LifecycleInv, TypeOK, Clock
<1> SUFFICES ASSUME NEW e \in Listed(phase)
             PROVE  /\ e \in Entry
                    /\ phase = "lost" => e.status = "RUNNING"
                    /\ phase = "abandoned" => e.status \in {"SCHEDULED", "RUNNING"}
                    /\ e.job => Dispatched(e.run)
  OBVIOUS
<1>2. PICK r \in Runs :
        /\ e = [run |-> r, status |-> run[r].status, job |-> r \in named]
        /\ run[r].status \in Active
        /\ phase = "lost" => run[r].status = "RUNNING"
        /\ phase = "abandoned" => run[r].status \in {"SCHEDULED", "RUNNING"}
  BY <1>1 DEF Listed, Active
<1>b. PICK b : b = IF r \in named THEN TRUE ELSE FALSE
  OBVIOUS
<1>c. b \in BOOLEAN /\ (b => r \in named)
  BY <1>b
<1>e. b = (r \in named)
  <2>1. CASE r \in named
    BY <1>b, <2>1, Zenon
  <2>2. CASE r \notin named
    <3>1. b = FALSE
      BY <1>b, <2>2
    <3>2. (r \in named) = FALSE
      BY <2>2
    <3> QED
      BY <3>1, <3>2, Zenon
  <2> QED
    BY <2>1, <2>2
<1>d. r \in named => Dispatched(r)
  BY DEF LifecycleInv, JobInv
<1>3. e = [run |-> r, status |-> run[r].status, job |-> b]
  BY <1>2, <1>e
<1> QED
  BY <1>2, <1>3, <1>c, <1>d DEF Entry

\* A tick that finds something lists the runs asked to stop first.
LEMMA SweepStartFits ==
  ASSUME LifecycleInv, SweepStart PROVE StepFits
<1>1. ReaperFits
  BY ListedEntries DEF SweepStart, ReaperFits
<1> QED
  BY <1>1, Untouched DEF SweepStart, StepFits

\* The next list, or the end of the sweep.
LEMMA SweepNextFits ==
  ASSUME LifecycleInv, SweepNext PROVE StepFits
<1>1. reaper.phase \in {"canceled", "lost", "abandoned"}
  BY DEF LifecycleInv, TypeOK, SweepNext
<1>2. CASE reaper.phase = "abandoned"
  <2>1. ReaperFits
    BY <1>2 DEF SweepNext, ReaperFits, IdleReaper
  <2> QED
    BY <2>1, Untouched DEF SweepNext, StepFits
<1>3. CASE reaper.phase # "abandoned"
  <2>1. PICK phase \in {"lost", "abandoned"} : phase = NextPhase[reaper.phase]
    BY <1>1, <1>3 DEF NextPhase
  <2>2. reaper' = [phase |-> phase, todo |-> Listed(phase)]
    BY <1>3, <2>1 DEF SweepNext
  <2>3. ReaperFits
    BY <2>2, ListedEntries DEF ReaperFits
  <2> QED
    BY <2>3, Untouched DEF SweepNext, StepFits
<1> QED
  BY <1>2, <1>3

\* finish writes against the status it listed, with the class that list means.
LEMMA FinishFits ==
  ASSUME LifecycleInv, Finish PROVE StepFits
<1>0. /\ reaper.phase \in {"canceled", "lost", "abandoned"} /\ reaper.todo \subseteq Entry
      /\ reaper = [phase |-> reaper.phase, todo |-> reaper.todo] /\ CallInv
      /\ job \in [Runs -> {"none", "live", "done", "failed", "deleted"}]
  BY DEF LifecycleInv, TypeOK, Finish
<1>1. PICK e \in reaper.todo :
       /\ Cas(e.run, e.status,
              IF reaper.phase = "canceled" THEN "CANCELED" ELSE "FAILED",
              SweepUpdate(reaper.phase))
       /\ reaper' = [reaper EXCEPT !.todo = @ \ {e}]
       /\ \/ UNCHANGED job
          \/ /\ run[e.run].status = e.status /\ e.job
             /\ job' = [job EXCEPT ![e.run] = "deleted"]
  BY DEF Finish
<1>2. PICK r \in Runs, from \in Active : r = e.run /\ from = e.status
  BY <1>0, <1>1 DEF Entry
<1>p. PICK phase \in {"canceled", "lost", "abandoned"} : phase = reaper.phase
  BY <1>0
<1>3. /\ phase = "lost" => from = "RUNNING"
      /\ phase = "abandoned" => from \in {"SCHEDULED", "RUNNING"}
  BY <1>0, <1>1, <1>2, <1>p DEF CallInv
<1>to. PICK to \in {"CANCELED", "FAILED"} :
         to = IF phase = "canceled" THEN "CANCELED" ELSE "FAILED"
  OBVIOUS
<1>c. PICK c : c = CASE phase = "canceled"  -> Nil
                     [] phase = "lost"      -> "worker_lost"
                     [] phase = "abandoned" -> "abandoned"
  OBVIOUS
<1>u. PICK u : u = [Ended("reaper") EXCEPT !.class = c]
  OBVIOUS
<1>4. /\ {"worker_lost", "abandoned", "dispatch", "run"} \subseteq Classes
      /\ "reaper" \in Outcomes /\ Nil \notin Classes
  BY <1>c, LifecycleAssumption, StoreAssumption
<1>5. /\ phase = "canceled" => c = Nil /\ to = "CANCELED"
      /\ phase = "lost" => c = "worker_lost" /\ to = "FAILED"
      /\ phase = "abandoned" => c = "abandoned" /\ to = "FAILED"
  BY <1>c, <1>to
<1>6. c \in OrNil(Classes) /\ (c # Nil <=> to = "FAILED")
  BY <1>4, <1>5 DEF OrNil
<1>7. Ending(u, "reaper", Nil, c, FALSE) /\ "reaper" # Nil
  BY <1>4, <1>6, <1>u, EndingColumns DEF OrNil
<1>8. u \in Sent(from, to)
  <2>1. u.started = (to = "RUNNING")
    BY <1>7 DEF Ending
  <2>2. (u.out # Nil) = (to \in Terminal)
    BY <1>7 DEF Ending, Terminal
  <2>3. (u.asks => FALSE) /\ u \in Update
    BY <1>7 DEF Ending
  <2>4. (u.class # Nil => to = "FAILED") /\ u.reason = Nil
    BY <1>6, <1>7 DEF Ending
  <2> QED
    BY <2>1, <2>2, <2>3, <2>4 DEF Sent
<1>9. /\ run[r].status = "RUNNING" => run[r].started
  BY DEF LifecycleInv, RowInv
<1>10. to = "FAILED" =>
         /\ u.class # Nil
         /\ u.class = "dispatch" /\ run[r].status = from => ~run[r].started
         /\ u.class \in {"worker_lost", "run"} /\ run[r].status = from => run[r].started
  BY <1>3, <1>4, <1>5, <1>7, <1>9 DEF Ending
<1>11. Cas(r, from, to, u)
  BY <1>1, <1>2, <1>p, <1>to, <1>c, <1>u DEF SweepUpdate
<1>12. StoreWrite
  BY <1>8, <1>10, <1>11, CasWrites DEF Status, Terminal, Active
<1>13. ReaperFits
  <2>1. reaper'.phase = reaper.phase /\ reaper'.todo = reaper.todo \ {e}
        /\ reaper' = [phase |-> reaper.phase, todo |-> reaper.todo \ {e}]
    BY <1>0, <1>1
  <2> QED
    BY <1>0, <2>1 DEF ReaperFits, CallInv
<1>14. JobFits
  <2>1. CASE UNCHANGED job
    BY <2>1, Untouched
  <2>2. CASE run[r].status = from /\ e.job /\ job' = [job EXCEPT ![r] = "deleted"]
    <3>1. Dispatched(r)
      BY <1>0, <1>1, <1>2, <2>2 DEF CallInv
    <3> QED
      BY <1>0, <2>2, <3>1 DEF JobFits
  <2> QED
    BY <1>1, <1>2, <2>1, <2>2
<1> QED
  BY <1>12, <1>13, <1>14, Untouched DEF Finish, StepFits

-----------------------------------------------------------------------------
(* People, the reconciler and the clock *)

\* A new task or a further run.
LEMMA SubmitFits ==
  ASSUME LifecycleInv, Submit PROVE StepFits
<1>1. StoreWrite
  BY DEF Submit, StoreWrite, OrNil
<1> QED
  BY <1>1, Untouched DEF Submit, actors, StepFits

\* RetryRun reads a task's last run, which is a row.
LEMMA RetryReadFits ==
  ASSUME LifecycleInv, RetryRead PROVE StepFits
<1>1. PICK t \in Tasks :
        task[t].last # Nil /\ retrier' = [pc |-> "create", run |-> task[t].last]
  BY DEF RetryRead
<1>2. PICK r \in Runs : r = task[t].last /\ run[r].task = t
  BY <1>1 DEF LifecycleInv, StoreInv, TaskMirrorsLastRun, RunsOf
<1>3. run[r].status # "NONE"
  BY <1>2, StoreAssumption DEF LifecycleInv, StoreInv, RowsKnown
<1>4. retrier' \in Call /\ retrier'.pc = "create" /\ retrier'.run = r
  BY <1>1, <1>2 DEF Call, OrNil
<1>5. CallsFit
  BY <1>3, <1>4 DEF RetryRead, CallsFit, LifecycleInv, TypeOK, CallInv
<1> QED
  BY <1>5, Untouched DEF RetryRead, StepFits

\* The row RetryRun repeats is of the task it inserts into.
LEMMA RetryRunFits ==
  ASSUME LifecycleInv, RetryRun PROVE StepFits
<1>1. PICK r \in Runs : r = retrier.run /\ run[r].status # "NONE"
  BY DEF LifecycleInv, CallInv, RetryRun
<1>2. run[r].task \in Tasks
  BY <1>1 DEF LifecycleInv, StoreInv, RowsKnown
<1>3. r \in RunsOf(run[r].task)
  BY DEF RunsOf
<1>4. CreateTaskRun(run[r].task, Nil, r) \/ UNCHANGED storeVars
  BY <1>1 DEF RetryRun
<1>5. StoreWrite
  BY <1>2, <1>3, <1>4 DEF StoreWrite, OrNil
<1>6. CallsFit
  BY DEF RetryRun, CallsFit, LifecycleInv, TypeOK, CallInv, IdleCall, Call, OrNil
<1> QED
  BY <1>5, <1>6, Untouched DEF RetryRun, StepFits

\* A person asks a run to stop ...
LEMMA RequestRunCancelFits ==
  ASSUME LifecycleInv, RequestRunCancel PROVE StepFits
<1>1. PICK r \in Runs : AskToStop(r, "user_requested")
                        /\ canceler' = [pc |-> "end", run |-> r]
  BY DEF RequestRunCancel
<1>2. StoreWrite /\ EarlyFits
  BY <1>1, AskWrites, LifecycleAssumption
<1>3. CallsFit
  BY <1>1 DEF RequestRunCancel, CallsFit, LifecycleInv, TypeOK, CallInv, Call, OrNil
<1> QED
  BY <1>2, <1>3, Untouched DEF RequestRunCancel, StepFits

\* ... and a run still waiting is ended at once.
LEMMA EndPendingRunFits ==
  ASSUME LifecycleInv, EndPendingRun PROVE StepFits
<1>1. PICK r \in Runs : r = canceler.run
  BY DEF LifecycleInv, CallInv, EndPendingRun
<1>u. PICK u : u = Ended("client")
  OBVIOUS
<1>2. Ending(u, "client", Nil, Nil, FALSE) /\ "client" # Nil
  BY <1>u, LifecycleAssumption, EndingColumns DEF OrNil
<1>3. u \in Sent("PENDING", "CANCELED")
  BY <1>2 DEF Ending, Sent, Terminal
<1>4. Cas(r, "PENDING", "CANCELED", u) \/ UNCHANGED storeVars
  BY <1>1, <1>u DEF EndPendingRun
<1>5. StoreWrite
  BY <1>3, <1>4, CasWrites, Untouched DEF Status, Active, Terminal
<1>6. CallsFit
  BY DEF EndPendingRun, CallsFit, LifecycleInv, TypeOK, CallInv, IdleCall, Call, OrNil
<1> QED
  BY <1>5, <1>6, Untouched DEF EndPendingRun, StepFits

\* The reconciler asks a run of a withdrawn initiator to stop.
LEMMA ReconcileFits ==
  ASSUME LifecycleInv, Reconcile PROVE StepFits
<1>1. PICK r \in Runs : AskToStop(r, authority)
  BY DEF Reconcile
<1>2. authority \in Reasons
  BY LifecycleAssumption DEF LifecycleInv, TypeOK, Reconcile
<1>3. StoreWrite /\ EarlyFits
  BY <1>1, <1>2, AskWrites
<1> QED
  BY <1>3, Untouched DEF Reconcile, StepFits

\* Authority comes and goes.
LEMMA AuthorityFits ==
  ASSUME LifecycleInv, AuthorityChanges PROVE StepFits
<1>1. RestFits
  BY DEF AuthorityChanges, RestFits, LifecycleInv, TypeOK
<1> QED
  BY <1>1, Untouched DEF AuthorityChanges, StepFits

\* Deadlines pass.
LEMMA ClockFits ==
  ASSUME LifecycleInv, NEW r \in Runs,
         RunTimeout(r) \/ WorkerSilent(r) \/ CancelGrace(r)
  PROVE  StepFits
<1>1. \/ clock' = [clock EXCEPT !.old = clock.old \cup {r}]
      \/ clock' = [clock EXCEPT !.silent = clock.silent \cup {r}]
      \/ clock' = [clock EXCEPT !.cancelOld = clock.cancelOld \cup {r}]
  BY DEF RunTimeout, WorkerSilent, CancelGrace
<1>2. clock \in Clock
  BY DEF LifecycleInv, TypeOK
<1>3. clock' \in Clock
  BY <1>1, <1>2 DEF Clock
<1>4. UNCHANGED <<storeVars, authority, sched, worker, job, named, reaper,
                  canceler, retrier, early>>
  BY DEF RunTimeout, WorkerSilent, CancelGrace
<1>5. RestFits
  BY <1>3, <1>4 DEF RestFits, LifecycleInv, TypeOK
<1> QED
  BY <1>4, <1>5, Untouched DEF StepFits

-----------------------------------------------------------------------------
(* The invariant *)

\* Every action of every actor fits.
LEMMA NextFits ==
  ASSUME LifecycleInv, Next
  PROVE  StepFits
<1>1. ASSUME NEW s \in Schedulers, SchedulerStep(s) \/ ServerRestart(s)
      PROVE  StepFits
  BY <1>1, PollOnceFits, CheckEligibleFits, CancelRunFits, ClaimRunFits,
     StartWorkerFits, ProcessExitedFits, RecordWorkerInfoFits,
     ReadBeforeFailFits, FailRunFits, ServerRestartFits DEF SchedulerStep
<1>2. ASSUME NEW w \in Workers, WorkerStep(w)
      PROVE  StepFits
  BY <1>2, WorkerStartsFits, GetTaskRunFits, FetchFits, FetchUnavailableFits,
     ClaimAsWorkerFits, WatchCancelFits, AgentEndsFits, ReportFits,
     ReportUnclaimedFits, WorkerDiesFits DEF WorkerStep
<1>3. CASE ReaperStep
  BY <1>3, SweepStartFits, SweepNextFits, FinishFits DEF ReaperStep
<1>4. CASE \/ Submit \/ RetryRead \/ RetryRun \/ RequestRunCancel \/ EndPendingRun
           \/ Reconcile \/ AuthorityChanges
  BY <1>4, SubmitFits, RetryReadFits, RetryRunFits, RequestRunCancelFits,
     EndPendingRunFits, ReconcileFits, AuthorityFits
<1>5. ASSUME NEW r \in Runs, RunTimeout(r) \/ WorkerSilent(r) \/ CancelGrace(r)
      PROVE  StepFits
  BY <1>5, ClockFits
<1> QED
  BY <1>1, <1>2, <1>3, <1>4, <1>5 DEF Next

\* Nothing happens in a stuttering step.
LEMMA StutterFits ==
  ASSUME LifecycleInv, UNCHANGED vars
  PROVE  StepFits
BY Untouched DEF vars, storeVars, StepFits

\* At the start nobody holds anything.
LEMMA InitFits == Init => LifecycleInv
<1> SUFFICES ASSUME Init PROVE LifecycleInv
  OBVIOUS
<1>1. StoreInv
  BY InitEstablishes DEF Init
<1>2. \A r \in Runs : run[r] = NoRow
  BY DEF Init, StoreInit
<1>3. \A s \in Schedulers : sched[s] = IdleScheduler /\ IdleScheduler.pc = "idle"
  BY DEF Init, IdleScheduler
<1>4. \A w \in Workers : /\ worker[w] = IdleWorker /\ IdleWorker.pc = "idle"
                         /\ IdleWorker.get = Nil
  BY DEF Init, IdleWorker
<1>5. NoUpdate \in Update
  BY DEF NoUpdate, Update, OrNil
<1>6. IdleScheduler \in SchedulerState /\ IdleWorker \in WorkerState /\ IdleCall \in Call
  BY <1>5 DEF IdleScheduler, SchedulerState, IdleWorker, WorkerState, IdleCall, Call, OrNil
<1>7. TypeOK
  BY <1>1, <1>6 DEF Init, TypeOK, StoreInv, IdleReaper, Clock
<1>8. RowInv
  <2>1. /\ NoRow.status = "NONE" /\ NoRow.started = FALSE /\ NoRow.cancel = FALSE
        /\ NoRow.class = Nil
    BY DEF NoRow
  <2>2. Nil \notin {"dispatch", "worker_lost", "run"}
    BY LifecycleAssumption, StoreAssumption
  <2> QED
    BY <1>2, <2>1, <2>2 DEF RowInv, ClassMatchesProgress
<1>9. SchedInv
  BY <1>3 DEF SchedInv, SoleDispatcher, Dispatching
<1>10. WorkerInv
  BY <1>4 DEF WorkerInv, SoleExecutor
<1>11. JobInv /\ EarlyInv /\ CallInv
  BY DEF Init, JobInv, EarlyInv, CallInv, IdleReaper, IdleCall
<1> QED
  BY <1>1, <1>7, <1>8, <1>9, <1>10, <1>11 DEF LifecycleInv

\* What each actor relies on is true whenever it relies on it, whatever the other
\* replicas, pods, sweeps, people and clocks do in between.
THEOREM LifecycleInvariant == Spec => []LifecycleInv
<1>1. LifecycleInv /\ [Next]_vars => LifecycleInv'
  BY NextFits, StutterFits, FittingStep
<1> QED
  BY <1>1, InitFits, PTL DEF Spec

\* Type correctness of all actors: no actor ever holds a status it cannot act on.
THEOREM LifecycleTypes == Spec => []TypeOK
<1>1. LifecycleInv => TypeOK
  BY DEF LifecycleInv
<1> QED
  BY <1>1, LifecycleInvariant, PTL

\* One replica dispatches a run and one pod executes it, for any number of
\* replicas, pods and restarts: both compare-and-sets are claims.
THEOREM RunsHaveOneOwner == Spec => []SoleOwner
<1>1. LifecycleInv => SoleOwner
  BY DEF LifecycleInv, SchedInv, WorkerInv, SoleOwner
<1> QED
  BY <1>1, LifecycleInvariant, PTL

\* A cancel recorded while the run waits is never overtaken by a start.
THEOREM EarlyCancelHolds == Spec => []EarlyCancelNeverRuns
<1>1. LifecycleInv => EarlyCancelNeverRuns
  BY DEF LifecycleInv, EarlyInv, EarlyCancelNeverRuns
<1> QED
  BY <1>1, LifecycleInvariant, PTL

\* failure_class never contradicts started_at, whoever of the scheduler, the
\* worker and the reaper settled the run.
THEOREM ClassIsTruthful == Spec => []ClassMatchesProgress
<1>1. LifecycleInv => ClassMatchesProgress
  BY DEF LifecycleInv, RowInv
<1> QED
  BY <1>1, LifecycleInvariant, PTL

\* Seen from the tables, the actors only ever make the store's transactions.
THEOREM ActorsUseTheStore == Spec => ImplementsStore
<1>1. Init => StoreInit
  BY DEF Init
<1>2. LifecycleInv /\ [Next]_vars => [UNCHANGED storeVars \/ StoreNext]_storeVars
  <2> SUFFICES ASSUME LifecycleInv, [Next]_vars
               PROVE  UNCHANGED storeVars \/ StoreNext
    OBVIOUS
  <2>1. StoreWrite
    BY NextFits, StutterFits DEF StepFits
  <2> QED
    BY <2>1, WriteIsTransaction
<1> QED
  BY <1>1, <1>2, LifecycleInvariant, PTL DEF Spec, ImplementsStore

\* So what TaskStoreProofs proves of the store holds of the whole system: one
\* active run per task, a task row that shows its newest run, one history.
THEOREM StoreHoldsBelow == Spec => [](OneActiveRun /\ TaskMirrorsLastRun /\ LinearHistory)
<1>1. LifecycleInv => OneActiveRun /\ TaskMirrorsLastRun /\ LinearHistory
  BY DEF LifecycleInv, StoreInv, ActiveIsLast, OneActiveRun
<1> QED
  BY <1>1, LifecycleInvariant, PTL

-----------------------------------------------------------------------------
(* The report of a run's only process *)

\* The local runner starts one process for a run; so does a Job with one pod.
OneProcess == Runner = "local" \/ \A v, w \in Workers : v = w

Apart ==
  \A v, w \in Workers :
    worker[v].pc # "idle" /\ worker[w].pc # "idle" /\ worker[v].run = worker[w].run => v = w

\* Who reports a success has started the run, and between the two transactions
\* of a report nobody does.
ReportInv ==
  \A w \in Workers :
    /\ worker[w].pc \in Reporting /\ worker[w].to = "SUCCEEDED"
         => run[worker[w].run].started
    /\ worker[w].pc = "report2" => run[worker[w].run].status # "RUNNING"

\* No run but these begins to execute.
StartsOnly(S) ==
  \A r \in Runs \ S : run'[r].status = "RUNNING" => run[r].status = "RUNNING"

\* What a step of worker w may do to the workers.
Turn(w) ==
  /\ \A v \in Workers \ {w} : worker'[v] = worker[v]
  /\ \/ worker'[w].pc = "idle"
     \/ /\ worker[w].pc = "idle" /\ worker'[w].pc = "fetch"
        /\ Runner = "local" => \A v \in Workers : worker[v].run # worker'[w].run
     \/ /\ worker[w].pc # "idle" /\ worker'[w].run = worker[w].run
        /\ \/ worker'[w].pc \in {"fetch", "claim", "running"}
           \/ /\ worker'[w].pc = "report"
              /\ worker'[w].to = "SUCCEEDED" => worker[w].pc = "running"
           \/ /\ worker'[w].pc = "report2" /\ worker'[w].to # "SUCCEEDED"
              /\ run'[worker[w].run].status # "RUNNING"

\* A compare-and-set moves one row, to the status it names.
LEMMA CasMoves ==
  ASSUME LifecycleInv, NEW r \in Runs, NEW from, NEW to, NEW u, Cas(r, from, to, u)
  PROVE  /\ \A q \in Runs \ {r} : run'[q] = run[q]
         /\ run[r].status = from => run'[r].status = to
         /\ run[r].status # from => run'[r] = run[r]
<1>1. run \in [Runs -> RunRow]
  BY DEF LifecycleInv, StoreInv, StoreTypeOK
<1>2. CASE run[r].status = from
  <2>1. run' = [run EXCEPT ![r] = UpdatedRun(run[r], to, u)]
    BY <1>2 DEF Cas, TransitionTaskRun
  <2>2. UpdatedRun(run[r], to, u).status = to
    <3>1. PICK st, re, cl, ou, as :
            UpdatedRun(run[r], to, u) =
              [run[r] EXCEPT !.status = to, !.started = st, !.reason = re,
                             !.class = cl, !.out = ou, !.asks = as]
      BY DEF UpdatedRun
    <3> QED
      BY <1>1, <3>1 DEF RunRow
  <2> QED
    BY <1>1, <1>2, <2>1, <2>2
<1>3. CASE run[r].status # from
  BY <1>3 DEF Cas, storeVars
<1> QED
  BY <1>2, <1>3

\* Only a compare-and-set to RUNNING starts a run.
LEMMA CasStarts ==
  ASSUME LifecycleInv, NEW r \in Runs, NEW from, NEW to, NEW u, Cas(r, from, to, u)
  PROVE  StartsOnly({r})
BY CasMoves DEF StartsOnly

\* ... and one to another status starts none.
LEMMA CasQuiet ==
  ASSUME LifecycleInv, NEW r \in Runs, NEW from, NEW to, NEW u, Cas(r, from, to, u),
         to \in Status \ {"RUNNING"}
  PROVE  StartsOnly({})
BY CasMoves DEF StartsOnly

\* A request to stop starts nothing.
LEMMA AskStarts ==
  ASSUME LifecycleInv, NEW r \in Runs, NEW c, AskToStop(r, c)
  PROVE  StartsOnly({})
<1>1. run \in [Runs -> RunRow] /\ run[r] \in RunRow
  BY DEF LifecycleInv, StoreInv, StoreTypeOK
<1>2. CASE RequestTaskRunCancel(r, c)
  <2>1. run' = [run EXCEPT ![r] = [run[r] EXCEPT !.cancel = TRUE, !.reason = c]]
    BY <1>1, <1>2 DEF RequestTaskRunCancel
  <2>2. [run[r] EXCEPT !.cancel = TRUE, !.reason = c].status = run[r].status
    BY <1>1 DEF RunRow
  <2> QED
    BY <1>1, <2>1, <2>2 DEF StartsOnly
<1>3. CASE UNCHANGED storeVars
  BY <1>3 DEF storeVars, StartsOnly
<1> QED
  BY <1>2, <1>3 DEF AskToStop

\* A new run waits.
LEMMA InsertStarts ==
  ASSUME LifecycleInv, NEW t, NEW k, NEW q, CreateTask(t, q) \/ CreateTaskRun(t, k, q)
  PROVE  StartsOnly({})
<1>1. run \in [Runs -> RunRow]
  BY DEF LifecycleInv, StoreInv, StoreTypeOK
<1>2. PICK r \in Runs : \E row : run' = [run EXCEPT ![r] = row] /\ row.status = "PENDING"
  <2>1. CASE CreateTask(t, q)
    <3>1. PICK r \in Runs : \E src : run' = [run EXCEPT ![r] =
            [NoRow EXCEPT !.task = t, !.status = "PENDING", !.source = src]]
      BY <2>1 DEF CreateTask
    <3>2. \A src : [NoRow EXCEPT !.task = t, !.status = "PENDING",
                                  !.source = src].status = "PENDING"
      BY DEF NoRow
    <3> QED
      BY <3>1, <3>2
  <2>2. CASE CreateTaskRun(t, k, q)
    <3>1. PICK r \in Runs : run' = [run EXCEPT ![r] = NewRunRow(t, k, q)]
      BY <2>2 DEF CreateTaskRun
    <3>2. NewRunRow(t, k, q).status = "PENDING"
      BY DEF NewRunRow, NoRow
    <3> QED
      BY <3>1, <3>2
  <2> QED
    BY <2>1, <2>2
<1> QED
  BY <1>1, <1>2 DEF StartsOnly

\* Only a worker's claim starts a run; nobody else's step moves a worker.
LEMMA OthersStart ==
  ASSUME LifecycleInv, [Next]_vars, ~\E w \in Workers : WorkerStep(w)
  PROVE  StartsOnly({}) /\ worker' = worker
<1>0. UNCHANGED storeVars => StartsOnly({})
  BY DEF storeVars, StartsOnly
<1>1. ASSUME NEW s \in Schedulers, SchedulerStep(s) \/ ServerRestart(s)
      PROVE  StartsOnly({}) /\ worker' = worker
  <2>1. sched[s].pc # "idle" => sched[s].run \in Runs
    BY DEF LifecycleInv, SchedInv
  <2>2. CASE CancelRun(s)
    <3>1. PICK u : Cas(sched[s].run, "PENDING", "CANCELED", u)
      BY <2>2 DEF CancelRun
    <3>2. worker' = worker /\ sched[s].pc # "idle"
      BY <2>2 DEF CancelRun
    <3> QED
      BY <2>1, <3>1, <3>2, CasQuiet DEF Status, Active, Terminal
  <2>3. CASE ClaimRun(s)
    <3>1. PICK u : Cas(sched[s].run, "PENDING", "SCHEDULED", u)
      BY <2>3 DEF ClaimRun
    <3>2. worker' = worker /\ sched[s].pc # "idle"
      BY <2>3 DEF ClaimRun
    <3> QED
      BY <2>1, <3>1, <3>2, CasQuiet DEF Status, Active, Terminal
  <2>4. CASE FailRun(s)
    <3>1. PICK u : Cas(sched[s].run, sched[s].status, "FAILED", u)
      BY <2>4 DEF FailRun
    <3>2. worker' = worker /\ sched[s].pc # "idle"
      BY <2>4 DEF FailRun
    <3> QED
      BY <2>1, <3>1, <3>2, CasQuiet DEF Status, Active, Terminal
  <2>5. CASE \/ PollOnce(s) \/ CheckEligible(s) \/ StartWorker(s) \/ ProcessExited(s)
             \/ RecordWorkerInfo(s) \/ ReadBeforeFail(s) \/ ServerRestart(s)
    BY <1>0, <2>5, Zenon DEF PollOnce, CheckEligible, StartWorker, ProcessExited,
       RecordWorkerInfo, ReadBeforeFail, ServerRestart
  <2> QED
    BY <1>1, <2>2, <2>3, <2>4, <2>5 DEF SchedulerStep
<1>2. CASE ReaperStep
  <2>1. CASE SweepStart \/ SweepNext
    BY <1>0, <2>1 DEF SweepStart, SweepNext
  <2>2. CASE Finish
    <3>1. PICK to, u : /\ to = IF reaper.phase = "canceled" THEN "CANCELED" ELSE "FAILED"
                       /\ u = SweepUpdate(reaper.phase)
      OBVIOUS
    <3>2. PICK e \in reaper.todo : Cas(e.run, e.status, to, u)
      BY <2>2, <3>1 DEF Finish
    <3>3. e.run \in Runs /\ to \in Status \ {"RUNNING"}
      BY <3>1 DEF LifecycleInv, TypeOK, Entry, Status, Active, Terminal
    <3>4. worker' = worker
      BY <2>2 DEF Finish
    <3> QED
      BY <3>2, <3>3, <3>4, CasQuiet
  <2> QED
    BY <1>2, <2>1, <2>2 DEF ReaperStep
<1>3. CASE Submit
  BY <1>3, InsertStarts DEF Submit, actors
<1>4. CASE RetryRun
  BY <1>0, <1>4, InsertStarts DEF RetryRun
<1>5. CASE RequestRunCancel
  BY <1>5, AskStarts DEF RequestRunCancel
<1>6. CASE EndPendingRun
  <2>1. canceler.run \in Runs
    BY <1>6 DEF EndPendingRun, LifecycleInv, CallInv
  <2>2. PICK u : Cas(canceler.run, "PENDING", "CANCELED", u) \/ UNCHANGED storeVars
    BY <1>6 DEF EndPendingRun
  <2>3. worker' = worker
    BY <1>6 DEF EndPendingRun
  <2> QED
    BY <1>0, <2>1, <2>2, <2>3, CasQuiet DEF Status, Active, Terminal
<1>7. CASE Reconcile
  BY <1>7, AskStarts DEF Reconcile
<1>8. CASE RetryRead \/ AuthorityChanges
           \/ \E r \in Runs : RunTimeout(r) \/ WorkerSilent(r) \/ CancelGrace(r)
  BY <1>0, <1>8 DEF RetryRead, AuthorityChanges, RunTimeout, WorkerSilent, CancelGrace
<1>9. CASE UNCHANGED vars
  BY <1>0, <1>9 DEF vars, storeVars
<1> QED
  BY <1>1, <1>2, <1>3, <1>4, <1>5, <1>6, <1>7, <1>8, <1>9 DEF Next

\* A worker's step is one of its turns, and starts no run but the one it claims.
LEMMA WorkerTurns ==
  ASSUME LifecycleInv, NEW w \in Workers, WorkerStep(w)
  PROVE  /\ Turn(w)
         /\ \/ StartsOnly({})
            \/ worker[w].pc = "claim" /\ StartsOnly({worker[w].run})
<1>0. /\ worker \in [Workers -> WorkerState] /\ worker[w] \in WorkerState
      /\ worker[w].get # Nil => worker[w].pc \in {"fetch", "running"}
      /\ worker[w].pc # "idle" => worker[w].run \in Runs
      /\ worker[w].pc \in Reporting => worker[w].to \in Terminal
  BY WorkerFacts DEF Fits, Reporting
<1>n. UNCHANGED storeVars => StartsOnly({})
  BY DEF storeVars, StartsOnly
<1>e. Exit(w) => Turn(w)
  BY <1>0 DEF Exit, IdleWorker, Turn
<1>r. ASSUME NEW pc \in {"fetch", "claim", "running"}, Resume(w, pc) \/ SetWorker(w, pc),
             worker[w].pc # "idle"
      PROVE  Turn(w)
  <2>1. worker'[w].pc = pc /\ worker'[w].run = worker[w].run
        /\ \A v \in Workers \ {w} : worker'[v] = worker[v]
    BY <1>0, <1>r DEF Resume, SetWorker, WorkerState
  <2> QED
    BY <1>r, <2>1 DEF Turn
<1>t. ASSUME NEW to, NEW u, ToReport(w, to, u), worker[w].pc # "idle",
             to = "SUCCEEDED" => worker[w].pc = "running"
      PROVE  Turn(w)
  <2>1. /\ worker'[w].pc = "report" /\ worker'[w].run = worker[w].run /\ worker'[w].to = to
        /\ \A v \in Workers \ {w} : worker'[v] = worker[v]
    BY <1>0, <1>t DEF ToReport, WorkerState
  <2> QED
    BY <1>t, <2>1 DEF Turn
<1>c. ASSUME NEW cancel, CheckInitiator(w, cancel), worker[w].pc # "idle"
      PROVE  StartsOnly({})
  BY <1>0, <1>c, <1>n, AskStarts DEF CheckInitiator
<1>1. CASE WorkerStarts(w)
  <2>1. PICK r \in Runs :
          /\ Runner = "local" => \A v \in Workers : worker[v].run # r
          /\ worker' = [worker EXCEPT ![w] = [IdleWorker EXCEPT !.pc = "fetch", !.run = r]]
    BY <1>1 DEF WorkerStarts
  <2>2. /\ worker'[w].pc = "fetch" /\ worker'[w].run = r
        /\ \A v \in Workers \ {w} : worker'[v] = worker[v]
    BY <1>0, <2>1 DEF IdleWorker
  <2> QED
    BY <1>1, <1>n, <2>1, <2>2 DEF WorkerStarts, Turn
<1>2. CASE GetTaskRun(w)
  <2>1. /\ worker'[w].pc = worker[w].pc /\ worker'[w].run = worker[w].run
        /\ \A v \in Workers \ {w} : worker'[v] = worker[v]
    BY <1>0, <1>2 DEF GetTaskRun, WorkerState
  <2> QED
    BY <1>2, <1>n, <2>1 DEF GetTaskRun, Turn
<1>3. CASE Fetch(w)
  <2>1. PICK cancel \in BOOLEAN : CheckInitiator(w, cancel)
    BY <1>3 DEF Fetch
  <2>2. \/ Exit(w) \/ Resume(w, "claim")
        \/ ToReport(w, "CANCELED", Ended("worker"))
        \/ ToReport(w, "FAILED", [Ended("worker") EXCEPT !.class = "space_configuration"])
    BY <1>3 DEF Fetch
  <2>3. worker[w].pc # "idle"
    BY <1>3 DEF Fetch
  <2> QED
    BY <1>c, <1>e, <1>r, <1>t, <2>1, <2>2, <2>3
<1>4. CASE FetchUnavailable(w)
  BY <1>0, <1>4, <1>n, <1>r DEF FetchUnavailable
<1>5. CASE ClaimAsWorker(w)
  <2>1. worker[w].pc = "claim"
        /\ Cas(worker[w].run, "SCHEDULED", "RUNNING", [NoUpdate EXCEPT !.started = TRUE])
        /\ (SetWorker(w, "running") \/ Exit(w))
    BY <1>5 DEF ClaimAsWorker
  <2>2. StartsOnly({worker[w].run})
    BY <1>0, <2>1, CasStarts
  <2> QED
    BY <1>e, <1>r, <2>1, <2>2
<1>6. CASE WatchCancel(w)
  <2>1. PICK cancel \in BOOLEAN : /\ CheckInitiator(w, cancel)
                                  /\ \/ ToReport(w, "CANCELED", Ended("worker"))
                                     \/ Resume(w, "running")
    BY <1>6 DEF WatchCancel
  <2>2. worker[w].pc # "idle"
    BY <1>6 DEF WatchCancel
  <2> QED
    BY <1>c, <1>r, <1>t, <2>1, <2>2
<1>7. CASE AgentEnds(w)
  <2>1. \E to, u : ToReport(w, to, u)
    BY <1>7 DEF AgentEnds
  <2> QED
    BY <1>7, <1>n, <1>t, <2>1 DEF AgentEnds
<1>8. CASE Report(w)
  <2>1. /\ worker[w].pc = "report" /\ worker[w].to \in Terminal /\ worker[w].run \in Runs
        /\ Cas(worker[w].run, "RUNNING", worker[w].to, worker[w].update)
    BY <1>0, <1>8 DEF Report, Reporting
  <2>2. StartsOnly({})
    BY <2>1, CasQuiet DEF Status, Active, Terminal
  <2>3. CASE run[worker[w].run].status = "RUNNING" \/ worker[w].to = "SUCCEEDED"
    BY <1>8, <1>e, <2>2, <2>3 DEF Report
  <2>4. CASE ~(run[worker[w].run].status = "RUNNING" \/ worker[w].to = "SUCCEEDED")
    <3>1. SetWorker(w, "report2") /\ run'[worker[w].run].status # "RUNNING"
      BY <1>8, <2>1, <2>4, CasMoves DEF Report
    <3>2. /\ worker'[w].pc = "report2" /\ worker'[w].run = worker[w].run
          /\ worker'[w].to = worker[w].to
          /\ \A v \in Workers \ {w} : worker'[v] = worker[v]
      BY <1>0, <3>1 DEF SetWorker, WorkerState
    <3> QED
      BY <2>1, <2>2, <2>4, <3>1, <3>2 DEF Turn
  <2> QED
    BY <2>3, <2>4
<1>9. CASE ReportUnclaimed(w)
  <2>1. /\ worker[w].pc = "report2" /\ worker[w].to \in Terminal /\ worker[w].run \in Runs
        /\ Cas(worker[w].run, "SCHEDULED", worker[w].to, worker[w].update) /\ Exit(w)
    BY <1>0, <1>9 DEF ReportUnclaimed, Reporting
  <2> QED
    BY <1>e, <2>1, CasQuiet DEF Status, Active, Terminal
<1>10. CASE WorkerDies(w)
  <2>1. worker' = [worker EXCEPT ![w] = IdleWorker] /\ UNCHANGED storeVars
    BY <1>10 DEF WorkerDies
  <2> QED
    BY <1>0, <1>n, <2>1 DEF IdleWorker, Turn
<1> QED
  BY <1>1, <1>2, <1>3, <1>4, <1>5, <1>6, <1>7, <1>8, <1>9, <1>10 DEF WorkerStep

\* With one process per run, nothing comes between the transactions of a report.
LEMMA ReportNext ==
  ASSUME OneProcess
  PROVE  LifecycleInv /\ Apart /\ ReportInv /\ [Next]_vars => Apart' /\ ReportInv'
<1> SUFFICES ASSUME LifecycleInv, Apart, ReportInv, [Next]_vars PROVE Apart' /\ ReportInv'
  OBVIOUS
<1>1. \A r \in Runs : run[r].started => run'[r].started
  BY NextFits, StutterFits, StoreSide DEF StepFits, LifecycleInv, Passed
<1>2. \A v \in Workers : worker[v].pc # "idle" =>
        /\ worker[v].run \in Runs
        /\ worker[v].pc = "running" => run[worker[v].run].started
  BY WorkerFacts
<1>3. CASE ~\E w \in Workers : WorkerStep(w)
  <2>1. StartsOnly({}) /\ worker' = worker
    BY <1>3, OthersStart
  <2> QED
    BY <1>1, <1>2, <2>1 DEF Apart, ReportInv, StartsOnly, Reporting
<1>4. ASSUME NEW w \in Workers, WorkerStep(w) PROVE Apart' /\ ReportInv'
  <2>1. /\ Turn(w)
        /\ \/ StartsOnly({})
           \/ worker[w].pc = "claim" /\ StartsOnly({worker[w].run})
    BY <1>4, WorkerTurns
  <2>2. ASSUME NEW u \in Workers, NEW v \in Workers, u # v,
               worker'[u].pc # "idle", worker'[v].pc # "idle"
        PROVE  worker'[u].run # worker'[v].run
    BY <2>1, <2>2 DEF Turn, Apart, OneProcess
  <2>3. ASSUME NEW v \in Workers, v # w, worker'[v].pc \in Reporting
        PROVE  /\ worker'[v].to = "SUCCEEDED" => run'[worker'[v].run].started
               /\ worker'[v].pc = "report2" => run'[worker'[v].run].status # "RUNNING"
    <3>1. /\ worker'[v] = worker[v] /\ worker[v].pc # "idle" /\ worker[v].run \in Runs
          /\ worker[v].to = "SUCCEEDED" => run[worker[v].run].started
          /\ worker[v].pc = "report2" => run[worker[v].run].status # "RUNNING"
      BY <1>2, <2>1, <2>3 DEF Turn, ReportInv, Reporting
    <3>2. run'[worker[v].run].status = "RUNNING" => run[worker[v].run].status = "RUNNING"
      BY <2>1, <2>3, <3>1 DEF Apart, StartsOnly
    <3> QED
      BY <1>1, <3>1, <3>2
  <2>4. ASSUME worker'[w].pc \in Reporting
        PROVE  /\ worker'[w].to = "SUCCEEDED" => run'[worker'[w].run].started
               /\ worker'[w].pc = "report2" => run'[worker'[w].run].status # "RUNNING"
    BY <1>1, <1>2, <2>1, <2>4 DEF Turn, Reporting
  <2>5. Apart'
    BY <2>2 DEF Apart
  <2>6. ReportInv'
    BY <2>3, <2>4 DEF ReportInv, Reporting
  <2> QED
    BY <2>5, <2>6
<1> QED
  BY <1>3, <1>4

\* A worker that exits because its report was answered leaves a settled run, for
\* either runner, when a run has one process: the second transaction of
\* handlePatchTerminalStatus ends a run the first did not find executing.
THEOREM ReportSettles ==
  ASSUME OneProcess
  PROVE  Spec => AnsweredReportSettles
<1> DEFINE Settles ==
      \A w \in Workers :
        /\ worker[w].pc \in Reporting
        /\ worker'[w].pc = "idle"
        /\ job[worker[w].run] = "live" /\ job'[worker[w].run] = "done"
        => run'[worker[w].run].status \in Terminal
<1>1. ASSUME LifecycleInv, ReportInv, [Next]_vars PROVE Settles
  <2> SUFFICES ASSUME NEW w \in Workers, worker[w].pc \in Reporting, worker'[w].pc = "idle",
                      job[worker[w].run] = "live", job'[worker[w].run] = "done"
               PROVE  run'[worker[w].run].status \in Terminal
    OBVIOUS
  <2>1. PICK r \in Runs : r = worker[w].run /\ Dispatched(r)
    BY <1>1, WorkerFacts DEF Reporting
  <2>2. /\ worker[w].get = Nil /\ worker[w].to \in Terminal
        /\ worker[w].to = "SUCCEEDED" => run[r].started
        /\ worker[w].pc = "report2" => run[r].status # "RUNNING"
    BY <1>1, <2>1, WorkerFacts DEF ReportInv, Fits, Reporting
  <2>3. /\ run[r].status \in Status
        /\ run[r].status = "SCHEDULED" => ~run[r].started
    BY <1>1, <2>1 DEF LifecycleInv, StoreInv, StoreTypeOK, RunRow, RowInv, Dispatched
  <2>4. WorkerStep(w)
    <3>1. PICK v \in Workers : WorkerStep(v)
      BY <1>1, OthersStart DEF Reporting
    <3>2. v = w
      BY <1>1, <3>1, WorkerTurns DEF Turn, Reporting
    <3> QED
      BY <3>1, <3>2
  <2>5. CASE Report(w)
    <3>1. /\ Cas(r, "RUNNING", worker[w].to, worker[w].update)
          /\ worker[w].pc = "report"
      BY <2>1, <2>5 DEF Report
    <3>2. run[r].status = "RUNNING" \/ worker[w].to = "SUCCEEDED"
      <4>1. SetWorker(w, "report2") => worker'[w].pc = "report2"
        BY <1>1, WorkerFacts DEF SetWorker, WorkerState
      <4> QED
        BY <2>1, <2>5, <4>1 DEF Report
    <3> QED
      BY <1>1, <2>1, <2>2, <2>3, <3>1, <3>2, CasMoves
         DEF Dispatched, Status, Active, Terminal
  <2>6. CASE ReportUnclaimed(w)
    <3>1. /\ Cas(r, "SCHEDULED", worker[w].to, worker[w].update)
          /\ worker[w].pc = "report2"
      BY <2>1, <2>6 DEF ReportUnclaimed
    <3> QED
      BY <1>1, <2>1, <2>2, <2>3, <3>1, CasMoves DEF Dispatched, Status, Active, Terminal
  <2>7. CASE WorkerDies(w)
    <3>1. job' = [job EXCEPT ![r] = IF job[r] = "live" /\ Runner = "local"
                                    THEN "failed" ELSE job[r]]
      BY <2>1, <2>7 DEF WorkerDies
    <3>2. job'[r] # "done"
      BY <1>1, <2>1, <3>1 DEF LifecycleInv, TypeOK
    <3> QED
      BY <2>1, <3>2
  <2> QED
    BY <2>2, <2>4, <2>5, <2>6, <2>7 DEF WorkerStep, WorkerStarts, GetTaskRun, Fetch,
       FetchUnavailable, ClaimAsWorker, WatchCancel, AgentEnds, Reporting
<1>2. Init => Apart /\ ReportInv
  BY DEF Init, IdleWorker, Apart, ReportInv, Reporting
<1>3. LifecycleInv /\ Apart /\ ReportInv /\ [Next]_vars => Apart' /\ ReportInv' /\ [Settles]_vars
  BY <1>1, ReportNext
<1> QED
  BY <1>2, <1>3, LifecycleInvariant, PTL DEF Spec, AnsweredReportSettles
=============================================================================
