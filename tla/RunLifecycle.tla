---------------------------- MODULE RunLifecycle ----------------------------
(***************************************************************************)
(* The actors that move a task run through TaskStore, each a process that   *)
(* reads in one transaction and writes in a later one:                      *)
(*                                                                         *)
(*   scheduler replicas   internal/server/scheduler/scheduler.go            *)
(*   worker pods          internal/bootstrap/worker.go, through the worker  *)
(*                        API of internal/server/handlers/worker            *)
(*   stale-run reaper     internal/server/scheduler/stale_runs.go           *)
(*   eligibility sweep    .../scheduler/eligibility_reconciler.go           *)
(*   people               internal/service/task: continue, retry, cancel    *)
(*                                                                         *)
(* Time is a few sets of runs whose deadline has passed.  A worker may be   *)
(* arbitrarily slow at any step and may die at any step; a report is in     *)
(* flight for as long as its worker stays in "report".                      *)
(***************************************************************************)
EXTENDS TaskStore

CONSTANTS
  Schedulers,   \* server replicas, each with one dispatch slot
  Workers,      \* worker processes that can be alive at once
  Runner,       \* "k8s": Run returns once the Job exists; "local": it blocks
  Withdrawn     \* reasons an initiator's authority is gone

ASSUME LifecycleAssumption ==
  /\ Runner \in {"k8s", "local"}
  /\ Withdrawn \cup {"user_requested"} \subseteq Reasons
  /\ {"dispatch", "worker_lost", "abandoned", "run", "space_configuration"}
       \subseteq Classes
  /\ {"scheduler", "worker", "reaper", "client"} \subseteq Outcomes
  /\ "ok" \notin Withdrawn

VARIABLES
  authority,  \* what an eligibility check that succeeds would find
  sched,      \* scheduler -> the run in its dispatch slot and how far it is
  worker,     \* worker -> the run it was started for and how far it is
  job,        \* run -> the Kubernetes Job or local process started for it
  named,      \* runs whose k8s_job_name is recorded
  reaper,     \* the reaper's sweep: its list and what is left of it
  canceler,   \* a RequestRunCancel call between its two transactions
  retrier,    \* a RetryRun call between its reads and its insert
  clock,      \* deadlines that have passed
  early       \* history: runs whose cancel was requested while PENDING

actors == <<authority, sched, worker, job, named, reaper, canceler, retrier,
            clock, early>>
vars == <<run, task, failures, authority, sched, worker, job, named, reaper,
          canceler, retrier, clock, early>>

-----------------------------------------------------------------------------
(* Records *)

IdleScheduler == [pc |-> "idle", run |-> Nil, status |-> Nil]
IdleWorker    == [pc |-> "idle", run |-> Nil, get |-> Nil, to |-> Nil,
                  update |-> NoUpdate]
IdleReaper    == [phase |-> "idle", todo |-> {}]
IdleCall      == [pc |-> "idle", run |-> Nil]

Init ==
  /\ StoreInit
  /\ authority = "ok"
  /\ sched = [s \in Schedulers |-> IdleScheduler]
  /\ worker = [w \in Workers |-> IdleWorker]
  /\ job = [r \in Runs |-> "none"]
  /\ named = {}
  /\ reaper = IdleReaper
  /\ canceler = IdleCall
  /\ retrier = IdleCall
  /\ clock = [old |-> {}, silent |-> {}, cancelOld |-> {}]
  /\ early = {}

\* Mutant: the status is read, checked by nobody, and overwritten.
Cas_Unconditional(r, from, to, u) ==
  /\ run' = [run EXCEPT ![r] = UpdatedRun(@, to, u)]
  /\ task' = [task EXCEPT ![run[r].task].status = to]
  /\ UNCHANGED failures

\* A compare-and-set the caller goes on from whether or not it won.
Cas(r, from, to, u) ==
  IF run[r].status = from THEN TransitionTaskRun(r, from, to, u)
                          ELSE UNCHANGED storeVars

Ended(who) == [NoUpdate EXCEPT !.out = who]

\* RequestTaskRunCancel with its history: was the run still waiting?
AskToStop(r, reason) ==
  IF run[r].status \in Active /\ ~run[r].cancel
  THEN /\ RequestTaskRunCancel(r, reason)
       /\ early' = IF run[r].status = "PENDING" THEN early \cup {r} ELSE early
  ELSE UNCHANGED <<storeVars, early>>

-----------------------------------------------------------------------------
(* scheduler.go: pollOnce, dispatch, failRun.  One slot per replica, so a    *)
(* replica works on one run at a time.                                       *)

SetSched(s, pc, r) == sched' = [sched EXCEPT ![s] =
  IF pc = "idle" THEN IdleScheduler ELSE [pc |-> pc, run |-> r, status |-> Nil]]

\* The slot is free and the oldest PENDING run is read.
PollOnce(s) ==
  /\ sched[s].pc = "idle"
  /\ \E r \in Runs :
       /\ run[r].status = "PENDING"
       /\ \A q \in Runs : run[q].status = "PENDING" => r <= q
       /\ SetSched(s, "check", r)
  /\ UNCHANGED <<storeVars, authority, worker, job, named, reaper, canceler,
                 retrier, clock, early>>

\* An outage leaves the run PENDING; an answer is acted on later.
CheckEligible(s) ==
  /\ sched[s].pc = "check"
  /\ \/ SetSched(s, "idle", Nil)
     \/ authority = "ok" /\ SetSched(s, "claim", sched[s].run)
     \/ /\ authority # "ok"
        /\ sched' = [sched EXCEPT ![s].pc = "refuse", ![s].status = authority]
  /\ UNCHANGED <<storeVars, authority, worker, job, named, reaper, canceler,
                 retrier, clock, early>>

\* cancelRun: PENDING -> CANCELED with the reason of the refusal.
CancelRun(s) ==
  /\ sched[s].pc = "refuse"
  /\ Cas(sched[s].run, "PENDING", "CANCELED",
         [Ended("scheduler") EXCEPT !.reason = sched[s].status])
  /\ SetSched(s, "idle", Nil)
  /\ UNCHANGED <<authority, worker, job, named, reaper, canceler, retrier,
                 clock, early>>

\* The claim: another replica, or a cancel, may have been first.
ClaimRun(s) ==
  LET r == sched[s].run
  IN  /\ sched[s].pc = "claim"
      /\ Cas(r, "PENDING", "SCHEDULED", NoUpdate)
      /\ IF run[r].status = "PENDING" THEN SetSched(s, "dispatch", r)
                                      ELSE SetSched(s, "idle", Nil)
      /\ UNCHANGED <<authority, worker, job, named, reaper, canceler, retrier,
                     clock, early>>

\* runTokenFor and runner.Run: a Job or process is started, or an error comes
\* back -- from the API server perhaps after it created the Job.
StartWorker(s) ==
  LET r == sched[s].run
  IN  /\ sched[s].pc = "dispatch"
      /\ \/ SetSched(s, "fail", r) /\ UNCHANGED job
         \/ /\ Runner = "k8s"
            /\ \/ SetSched(s, "info", r)
               \/ SetSched(s, "fail", r)
            /\ job' = [job EXCEPT ![r] = "live"]
         \/ /\ Runner = "local"
            /\ SetSched(s, "wait", r)
            /\ job' = [job EXCEPT ![r] = "live"]
      /\ UNCHANGED <<storeVars, authority, worker, named, reaper, canceler,
                     retrier, clock, early>>

\* The local runner returns when the process has exited.
ProcessExited(s) ==
  /\ sched[s].pc = "wait"
  /\ \/ job[sched[s].run] = "done"   /\ SetSched(s, "info", sched[s].run)
     \/ job[sched[s].run] = "failed" /\ SetSched(s, "fail", sched[s].run)
  /\ UNCHANGED <<storeVars, authority, worker, job, named, reaper, canceler,
                 retrier, clock, early>>

\* UpdateTaskRunWorkerInfo: whatever the run has become by now.
RecordWorkerInfo(s) ==
  /\ sched[s].pc = "info"
  /\ named' = IF Runner = "k8s" THEN named \cup {sched[s].run} ELSE named
  /\ SetSched(s, "idle", Nil)
  /\ UNCHANGED <<storeVars, authority, worker, job, reaper, canceler, retrier,
                 clock, early>>

\* Mutant: a run that already reported its outcome is not left alone.
ReadBeforeFail_Always(s) ==
  /\ sched[s].pc = "fail"
  /\ sched' = [sched EXCEPT ![s].pc = "failcas",
                            ![s].status = run[sched[s].run].status]
  /\ UNCHANGED <<storeVars, authority, worker, job, named, reaper, canceler,
                 retrier, clock, early>>

\* failRun reads first: a terminal run is left alone ...
ReadBeforeFail(s) ==
  LET r == sched[s].run
  IN  /\ sched[s].pc = "fail"
      /\ IF run[r].status \in Terminal THEN SetSched(s, "idle", Nil)
         ELSE sched' = [sched EXCEPT ![s].pc = "failcas",
                                     ![s].status = run[r].status]
      /\ UNCHANGED <<storeVars, authority, worker, job, named, reaper,
                     canceler, retrier, clock, early>>

\* Mutant: the class is of the status read, the write against the one found.
FailRun_WhateverStatus(s) ==
  LET r     == sched[s].run
      class == IF sched[s].status = "RUNNING" THEN "worker_lost" ELSE "dispatch"
  IN  /\ sched[s].pc = "failcas"
      /\ IF run[r].status \in {"SCHEDULED", "RUNNING"}
         THEN TransitionTaskRun(r, run[r].status, "FAILED",
                [Ended("scheduler") EXCEPT !.class = class])
         ELSE UNCHANGED storeVars
      /\ SetSched(s, "idle", Nil)
      /\ UNCHANGED <<authority, worker, job, named, reaper, canceler, retrier,
                     clock, early>>

\* ... then writes against the status it read, with the class that status means.
FailRun(s) ==
  LET read  == sched[s].status
      class == IF read = "RUNNING" THEN "worker_lost" ELSE "dispatch"
  IN  /\ sched[s].pc = "failcas"
      /\ Cas(sched[s].run, read, "FAILED",
             [Ended("scheduler") EXCEPT !.class = class])
      /\ SetSched(s, "idle", Nil)
      /\ UNCHANGED <<authority, worker, job, named, reaper, canceler, retrier,
                     clock, early>>

\* The server process goes away: whatever it was about to do is not done.
ServerRestart(s) ==
  /\ sched[s].pc # "idle"
  /\ SetSched(s, "idle", Nil)
  /\ UNCHANGED <<storeVars, authority, worker, job, named, reaper, canceler,
                 retrier, clock, early>>

SchedulerStep(s) ==
  \/ PollOnce(s) \/ CheckEligible(s) \/ CancelRun(s) \/ ClaimRun(s)
  \/ StartWorker(s) \/ ProcessExited(s) \/ RecordWorkerInfo(s)
  \/ ReadBeforeFail(s) \/ FailRun(s)

-----------------------------------------------------------------------------
(* bootstrap/worker.go against handlers/worker/worker.go *)

SetWorker(w, pc) == worker' = [worker EXCEPT ![w].pc = pc]

\* The answer to a GET is in.
Resume(w, pc) == worker' = [worker EXCEPT ![w].pc = pc, ![w].get = Nil]

\* workerExitCode 0: the Job is complete.  It is 1 only for a worker that
\* could not report, which WorkerDies models.
Exit(w) ==
  /\ worker' = [worker EXCEPT ![w] = IdleWorker]
  /\ job' = [job EXCEPT ![worker[w].run] = IF @ = "live" THEN "done" ELSE @]

ToReport(w, to, u) ==
  worker' = [worker EXCEPT ![w].pc = "report", ![w].to = to, ![w].update = u,
                           ![w].get = Nil]

\* A Job starts a pod, restarts a failed one, and may have two at once; the
\* local runner starts its process once.
WorkerStarts(w) ==
  /\ worker[w].pc = "idle"
  /\ \E r \in Runs :
       /\ job[r] = "live"
       /\ Runner = "local" => \A v \in Workers : worker[v].run # r
       /\ worker' = [worker EXCEPT ![w] =
                       [IdleWorker EXCEPT !.pc = "fetch", !.run = r]]
  /\ UNCHANGED <<storeVars, authority, sched, job, named, reaper, canceler,
                 retrier, clock, early>>

\* getTaskRun, first half: the row is read and the worker's liveness stamped
\* (recordSeen), before its first fetch or on a poll of WatchCancel.
GetTaskRun(w) ==
  LET r == worker[w].run
  IN  /\ worker[w].pc \in {"fetch", "running"} /\ worker[w].get = Nil
      /\ worker' = [worker EXCEPT ![w].get =
                      [status |-> run[r].status, cancel |-> run[r].cancel]]
      /\ clock' = IF run[r].status \in {"SCHEDULED", "RUNNING"}
                  THEN [clock EXCEPT !.silent = @ \ {r}] ELSE clock
      /\ UNCHANGED <<storeVars, authority, sched, job, named, reaper, canceler,
                     retrier, early>>

\* A run that is over, or already asked to stop, is not checked again.
Checked(get) == get.status \in Active /\ ~get.cancel

\* Mutant: the worker is told only of a cancel this very check caused.
CheckInitiator_NoFlag(w, cancel) ==
  IF Checked(worker[w].get) /\ authority # "ok"
  THEN cancel = TRUE /\ AskToStop(worker[w].run, authority)
  ELSE cancel = FALSE /\ UNCHANGED <<storeVars, early>>

\* Second half: the initiator's authority is checked again, and cancel is the
\* CancelRequested the worker is told, of the row that was read.
CheckInitiator(w, cancel) ==
  IF Checked(worker[w].get) /\ authority # "ok"
  THEN cancel = TRUE /\ AskToStop(worker[w].run, authority)
  ELSE cancel = worker[w].get.cancel /\ UNCHANGED <<storeVars, early>>

\* The fetch that decides whether to start.
Fetch(w) ==
  /\ worker[w].pc = "fetch" /\ worker[w].get # Nil
  /\ \E cancel \in BOOLEAN :
       /\ CheckInitiator(w, cancel)
       /\ \/ worker[w].get.status # "SCHEDULED" /\ Exit(w)
          \/ /\ worker[w].get.status = "SCHEDULED"
             /\ \/ cancel /\ ToReport(w, "CANCELED", Ended("worker"))
                \/ ~cancel /\ Resume(w, "claim")
                \/ ~cancel /\ ToReport(w, "FAILED",   \* plugin refusal
                     [Ended("worker") EXCEPT !.class = "space_configuration"])
             /\ UNCHANGED job
  /\ UNCHANGED <<authority, sched, named, reaper, canceler, retrier, clock>>

\* The server answers 503 while authority cannot be determined; the worker,
\* waiting to start or working, asks again.
FetchUnavailable(w) ==
  /\ worker[w].get # Nil /\ Checked(worker[w].get)
  /\ Resume(w, worker[w].pc)
  /\ UNCHANGED <<storeVars, authority, sched, job, named, reaper, canceler,
                 retrier, clock, early>>

\* Mutant: a conflict is logged and the agent runs all the same.
ClaimAsWorker_IgnoreConflict(w) ==
  /\ worker[w].pc = "claim"
  /\ Cas(worker[w].run, "SCHEDULED", "RUNNING",
         [NoUpdate EXCEPT !.started = TRUE])
  /\ SetWorker(w, "running")
  /\ UNCHANGED <<authority, sched, job, named, reaper, canceler, retrier,
                 clock, early>>

\* PATCH RUNNING, the atomic claim; a conflict is somebody else's run.
ClaimAsWorker(w) ==
  LET r == worker[w].run
  IN  /\ worker[w].pc = "claim"
      /\ Cas(r, "SCHEDULED", "RUNNING", [NoUpdate EXCEPT !.started = TRUE])
      /\ IF run[r].status = "SCHEDULED"
         THEN SetWorker(w, "running") /\ UNCHANGED job
         ELSE Exit(w)
      /\ UNCHANGED <<authority, sched, named, reaper, canceler, retrier, clock,
                     early>>

\* WatchCancel: a request ends the run; a run that is already over does not.
WatchCancel(w) ==
  /\ worker[w].pc = "running" /\ worker[w].get # Nil
  /\ \E cancel \in BOOLEAN :
       /\ CheckInitiator(w, cancel)
       /\ IF cancel THEN ToReport(w, "CANCELED", Ended("worker"))
                    ELSE Resume(w, "running")
  /\ UNCHANGED <<authority, sched, job, named, reaper, canceler, retrier,
                 clock>>

\* The agent finished, ended on questions, failed, was interrupted by a
\* shutdown, or was refused a secret it needs.
AgentEnds(w) ==
  /\ worker[w].pc = "running"
  /\ \/ \E q \in BOOLEAN :
          ToReport(w, "SUCCEEDED", [Ended("worker") EXCEPT !.asks = q])
     \/ \E c \in {"run", "space_configuration"} :
          ToReport(w, "FAILED", [Ended("worker") EXCEPT !.class = c])
  /\ UNCHANGED <<storeVars, authority, sched, job, named, reaper, canceler,
                 retrier, clock, early>>

\* Mutant: only a claimed run can be ended by a report.
Report_ClaimedOnly(w) ==
  /\ worker[w].pc = "report"
  /\ Cas(worker[w].run, "RUNNING", worker[w].to, worker[w].update)
  /\ Exit(w)
  /\ UNCHANGED <<authority, sched, named, reaper, canceler, retrier, clock,
                 early>>

\* handlePatchTerminalStatus: from RUNNING first ...
Report(w) ==
  LET r == worker[w].run
  IN  /\ worker[w].pc = "report"
      /\ Cas(r, "RUNNING", worker[w].to, worker[w].update)
      /\ IF run[r].status = "RUNNING" \/ worker[w].to = "SUCCEEDED"
         THEN Exit(w)
         ELSE SetWorker(w, "report2") /\ UNCHANGED job
      /\ UNCHANGED <<authority, sched, named, reaper, canceler, retrier, clock,
                     early>>

\* ... then, unless it reports success, from SCHEDULED in a second transaction.
ReportUnclaimed(w) ==
  /\ worker[w].pc = "report2"
  /\ Cas(worker[w].run, "SCHEDULED", worker[w].to, worker[w].update)
  /\ Exit(w)
  /\ UNCHANGED <<authority, sched, named, reaper, canceler, retrier, clock,
                 early>>

\* Killed, evicted, or out of ways to report: nothing more is heard of it.  The
\* Job starts another pod; the local runner sees a non-zero exit.
WorkerDies(w) ==
  /\ worker[w].pc # "idle"
  /\ worker' = [worker EXCEPT ![w] = IdleWorker]
  /\ job' = [job EXCEPT ![worker[w].run] =
               IF @ = "live" /\ Runner = "local" THEN "failed" ELSE @]
  /\ UNCHANGED <<storeVars, authority, sched, named, reaper, canceler, retrier,
                 clock, early>>

WorkerStep(w) ==
  \/ WorkerStarts(w) \/ GetTaskRun(w) \/ Fetch(w) \/ FetchUnavailable(w)
  \/ ClaimAsWorker(w)
  \/ WatchCancel(w) \/ AgentEnds(w) \/ Report(w) \/ ReportUnclaimed(w)
  \/ WorkerDies(w)

-----------------------------------------------------------------------------
(* stale_runs.go: Sweep(now) lists and finishes canceled, then lost, then    *)
(* abandoned runs, all against the same now: the deadlines a sweep sees are  *)
(* those that had passed when it started, so the clock stands still while    *)
(* one runs.                                                                 *)

NextPhase == [canceled |-> "lost", lost |-> "abandoned"]

\* Mutant: only started runs are listed as abandoned.
Listed_StartedOnly(phase) ==
  LET hits == CASE phase = "canceled" ->
                     {r \in clock.cancelOld : run[r].status \in Active}
                [] phase = "lost" ->
                     {r \in clock.silent : run[r].status = "RUNNING"}
                [] phase = "abandoned" ->
                     {r \in clock.old : run[r].status = "RUNNING"}
  IN  {[run |-> r, status |-> run[r].status, job |-> r \in named] : r \in hits}

\* Mutant: only dispatched runs are listed as canceled.
Listed_DispatchedOnly(phase) ==
  LET dispatched == {r \in Runs : run[r].status \in {"SCHEDULED", "RUNNING"}}
      hits == CASE phase = "canceled"  -> clock.cancelOld \cap dispatched
                [] phase = "lost"      -> {r \in clock.silent :
                                             run[r].status = "RUNNING"}
                [] phase = "abandoned" -> clock.old \cap dispatched
  IN  {[run |-> r, status |-> run[r].status, job |-> r \in named] : r \in hits}

\* The three list queries; an entry keeps the status and job name it read.
Listed(phase) ==
  LET hits == CASE phase = "canceled" ->
                     {r \in clock.cancelOld : run[r].status \in Active}
                [] phase = "lost" ->
                     {r \in clock.silent : run[r].status = "RUNNING"}
                [] phase = "abandoned" ->
                     {r \in clock.old :
                        run[r].status \in {"SCHEDULED", "RUNNING"}}
  IN  {[run |-> r, status |-> run[r].status, job |-> r \in named] : r \in hits}

\* A tick; a sweep that would list nothing does nothing.
SweepStart ==
  /\ reaper.phase = "idle"
  /\ \E phase \in {"canceled", "lost", "abandoned"} : Listed(phase) # {}
  /\ reaper' = [phase |-> "canceled", todo |-> Listed("canceled")]
  /\ UNCHANGED <<storeVars, authority, sched, worker, job, named, canceler,
                 retrier, clock, early>>

SweepNext ==
  /\ reaper.phase # "idle" /\ reaper.todo = {}
  /\ reaper' = IF reaper.phase = "abandoned" THEN IdleReaper
               ELSE LET phase == NextPhase[reaper.phase]
                    IN  [phase |-> phase, todo |-> Listed(phase)]
  /\ UNCHANGED <<storeVars, authority, sched, worker, job, named, canceler,
                 retrier, clock, early>>

SweepUpdate(phase) ==
  [Ended("reaper") EXCEPT !.class =
     CASE phase = "canceled"  -> Nil
       [] phase = "lost"      -> "worker_lost"
       [] phase = "abandoned" -> "abandoned"]

\* finish: the compare-and-set against the listed status, then, if it won, the
\* Job whose name the listed row carried; deleting it may fail.
Finish ==
  /\ reaper.phase # "idle"
  /\ \E e \in reaper.todo :
       /\ Cas(e.run, e.status,
              IF reaper.phase = "canceled" THEN "CANCELED" ELSE "FAILED",
              SweepUpdate(reaper.phase))
       /\ reaper' = [reaper EXCEPT !.todo = @ \ {e}]
       /\ \/ UNCHANGED job
          \/ /\ run[e.run].status = e.status /\ e.job
             /\ job' = [job EXCEPT ![e.run] = "deleted"]
  /\ UNCHANGED <<authority, sched, worker, named, canceler, retrier, clock,
                 early>>

ReaperStep == SweepStart \/ SweepNext \/ Finish

-----------------------------------------------------------------------------
(* People, the eligibility reconciler, and the clock *)

\* service/task CreateTask and CreateRun: one transaction each.
Submit ==
  /\ \/ \E t \in Tasks, s \in OrNil(Schedules) : CreateTask(t, s)
     \/ \E t \in Tasks, k \in OrNil(Keys) : CreateTaskRun(t, k, Nil)
  /\ UNCHANGED actors

\* RetryRun reads the task's last run, finished and with no other active ...
RetryRead ==
  /\ retrier.pc = "idle"
  /\ \E t \in Tasks :
       /\ task[t].last # Nil
       /\ InProgress(t) = {}
       /\ retrier' = [pc |-> "create", run |-> task[t].last]
  /\ UNCHANGED <<storeVars, authority, sched, worker, job, named, reaper,
                 canceler, clock, early>>

\* ... and inserts a run that repeats it, unless a run is active by now.
RetryRun ==
  LET t == run[retrier.run].task
  IN  /\ retrier.pc = "create"
      /\ \/ CreateTaskRun(t, Nil, retrier.run)
         \/ UNCHANGED storeVars   \* ErrRunInProgress, or the client went away
      /\ retrier' = IdleCall
      /\ UNCHANGED <<authority, sched, worker, job, named, reaper, canceler,
                     clock, early>>

\* RequestRunCancel records the request ...
RequestRunCancel ==
  /\ canceler.pc = "idle"
  /\ \E r \in Runs : /\ run[r].status \in Active
                     /\ AskToStop(r, "user_requested")
                     /\ canceler' = [pc |-> "end", run |-> r]
  /\ UNCHANGED <<authority, sched, worker, job, named, reaper, retrier, clock>>

\* ... and in a second transaction ends a run that is still waiting, unless the
\* server stops in between.
EndPendingRun ==
  /\ canceler.pc = "end"
  /\ \/ Cas(canceler.run, "PENDING", "CANCELED", Ended("client"))
     \/ UNCHANGED storeVars
  /\ canceler' = IdleCall
  /\ UNCHANGED <<authority, sched, worker, job, named, reaper, retrier, clock,
                 early>>

\* Mutant: only executing runs are reconciled.
Reconcile_RunningOnly ==
  /\ authority # "ok"
  /\ \E r \in Runs : /\ run[r].status = "RUNNING" /\ ~run[r].cancel
                     /\ AskToStop(r, authority)
  /\ UNCHANGED <<authority, sched, worker, job, named, reaper, canceler,
                 retrier, clock>>

\* EligibilityReconciler.reconcileRun.
Reconcile ==
  /\ authority # "ok"
  /\ \E r \in Runs : /\ run[r].status \in Active /\ ~run[r].cancel
                     /\ AskToStop(r, authority)
  /\ UNCHANGED <<authority, sched, worker, job, named, reaper, canceler,
                 retrier, clock>>

\* An administrator disables the account, removes the member, or undoes it.
AuthorityChanges ==
  /\ authority' \in (Withdrawn \cup {"ok"}) \ {authority}
  /\ UNCHANGED <<storeVars, sched, worker, job, named, reaper, canceler,
                 retrier, clock, early>>

\* created_at passes the run timeout, in whatever status the run waits.
RunTimeout(r) ==
  /\ reaper.phase = "idle"
  /\ run[r].status \in Active /\ r \notin clock.old
  /\ clock' = [clock EXCEPT !.old = @ \cup {r}]
  /\ UNCHANGED <<storeVars, authority, sched, worker, job, named, reaper,
                 canceler, retrier, early>>

\* WorkerLivenessGrace passes since last_seen_at, which the fetch before the
\* claim has always stamped.
WorkerSilent(r) ==
  /\ reaper.phase = "idle"
  /\ run[r].status = "RUNNING" /\ r \notin clock.silent
  /\ clock' = [clock EXCEPT !.silent = @ \cup {r}]
  /\ UNCHANGED <<storeVars, authority, sched, worker, job, named, reaper,
                 canceler, retrier, early>>

\* The cancel grace passes since cancel_requested_at.
CancelGrace(r) ==
  /\ reaper.phase = "idle"
  /\ run[r].status \in Active /\ run[r].cancel /\ r \notin clock.cancelOld
  /\ clock' = [clock EXCEPT !.cancelOld = @ \cup {r}]
  /\ UNCHANGED <<storeVars, authority, sched, worker, job, named, reaper,
                 canceler, retrier, early>>

Next ==
  \/ \E s \in Schedulers : SchedulerStep(s) \/ ServerRestart(s)
  \/ \E w \in Workers : WorkerStep(w)
  \/ ReaperStep
  \/ Submit \/ RetryRead \/ RetryRun \/ RequestRunCancel \/ EndPendingRun
  \/ Reconcile \/ AuthorityChanges
  \/ \E r \in Runs : RunTimeout(r) \/ WorkerSilent(r) \/ CancelGrace(r)

Spec == Init /\ [][Next]_vars

-----------------------------------------------------------------------------
(* Fairness.  A sweep that is due is made and finished; time passes.  People *)
(* and workers promise nothing.                                              *)

ReaperFair == WF_vars(ReaperStep)

\* The scheduler loop keeps ticking.  An outage of the authority store or a
\* restart may hit any tick, but not every tick at the same point (strong
\* fairness of the steps that take a run out of PENDING).
SchedulerFair ==
  \A s \in Schedulers :
    /\ WF_vars(SchedulerStep(s))
    /\ SF_vars(PollOnce(s)) /\ SF_vars(ClaimRun(s)) /\ SF_vars(CancelRun(s))
    /\ SF_vars(CheckEligible(s) /\ sched'[s].pc # "idle")

\* The reaper's loop ticks whatever else happens.
ReaperSpec == Spec /\ ReaperFair

\* What settling a run needs beside it.
SettleFair == SchedulerFair /\ \A r \in Runs : SF_vars(RunTimeout(r))

\* What stopping one needs: neither a scheduler nor the run timeout.
StopFair == WF_vars(Reconcile) /\ \A r \in Runs : SF_vars(CancelGrace(r))

-----------------------------------------------------------------------------
(* Properties *)

SchedulerState ==
  [pc : {"idle", "check", "refuse", "claim", "dispatch", "wait", "info", "fail",
         "failcas"},
   run : OrNil(Runs), status : OrNil(Withdrawn \cup Active)]
Answer == [status : Status, cancel : BOOLEAN]
WorkerState ==
  [pc : {"idle", "fetch", "claim", "running", "report", "report2"},
   run : OrNil(Runs), get : OrNil(Answer), to : OrNil(Terminal), update : Update]
Entry == [run : Runs, status : Active, job : BOOLEAN]
Call  == [pc : {"idle", "end", "create"}, run : OrNil(Runs)]
Clock == [old : SUBSET Runs, silent : SUBSET Runs, cancelOld : SUBSET Runs]

\* The store and every actor's position have their types: a replica, a worker, a
\* sweep or a call between its transactions only holds statuses it may hold.
TypeOK ==
  /\ StoreTypeOK
  /\ authority \in Withdrawn \cup {"ok"}
  /\ sched \in [Schedulers -> SchedulerState]
  /\ worker \in [Workers -> WorkerState]
  /\ job \in [Runs -> {"none", "live", "done", "failed", "deleted"}]
  /\ named \subseteq Runs /\ early \subseteq Runs
  /\ reaper.phase \in {"idle", "canceled", "lost", "abandoned"}
  /\ reaper.todo \subseteq Entry
  /\ reaper = [phase |-> reaper.phase, todo |-> reaper.todo]
  /\ canceler \in Call /\ retrier \in Call
  /\ clock \in Clock

\* However many pods a Job starts, one of them executes the agent: the PATCH
\* to RUNNING is the claim, and a run that is executed has been started.
SoleExecutor ==
  \A w \in Workers : worker[w].pc = "running" =>
    /\ run[worker[w].run].started
    /\ \A v \in Workers \ {w} : ~(worker[v].pc = "running"
                                  /\ worker[v].run = worker[w].run)

\* However many replicas poll, one of them dispatches a run.
Dispatching == {"dispatch", "wait", "info", "fail", "failcas"}
SoleDispatcher ==
  \A s, z \in Schedulers : /\ sched[s].pc \in Dispatching
                           /\ sched[z].pc \in Dispatching
                           /\ sched[s].run = sched[z].run
                           => s = z

\* One replica owns a run's dispatch and one pod its execution, however many
\* poll, restart or are doubled.
SoleOwner == SoleDispatcher /\ SoleExecutor

\* A cancel recorded while the run was still waiting is never overtaken by a
\* start, whichever of the client, the server and the pods stops or races:
\* the fetch before the claim sees the request.
EarlyCancelNeverRuns == \A r \in early : ~run[r].started

\* The failure class an administrator reads says how far the run got: dispatch
\* only if no worker ever claimed it, worker_lost and run only if one did.
ClassMatchesProgress ==
  \A r \in Runs :
    /\ run[r].class = "dispatch" => ~run[r].started
    /\ run[r].class \in {"worker_lost", "run"} => run[r].started

\* A worker that exits because its report was answered leaves a settled run
\* behind, so its Job never completes over a run nobody will end.  This needs
\* the second transaction of handlePatchTerminalStatus, and a Job with one pod
\* at a time.
Reporting == {"report", "report2"}
AnsweredReportSettles ==
  [][\A w \in Workers :
       /\ worker[w].pc \in Reporting
       /\ worker'[w].pc = "idle"
       /\ job[worker[w].run] = "live" /\ job'[worker[w].run] = "done"
       => run'[worker[w].run].status \in Terminal]_vars

\* Every actor moves runs through the store's transactions, with the columns
\* the store expects for each status: what is proved of StoreSpec holds here.
\* (StoreSpec, with the stuttering step put first for TLC.)
ImplementsStore ==
  StoreInit /\ [][UNCHANGED storeVars \/ StoreNext]_storeVars

\* Every run ends, although any worker may hang or die, any server restart and
\* any report be lost: the reaper is the backstop and the scheduler never
\* leaves a run PENDING for good.
EveryRunSettles == SettleFair =>
  \A r \in Runs : run[r].status \in Active ~> run[r].status \in Terminal

\* A run asked to stop stops, within the cancel grace and without any help of
\* the worker, the scheduler or the client that asked.
CancelSettles == StopFair =>
  \A r \in Runs : run[r].cancel ~> run[r].status \in Terminal

\* Once the initiator's authority is gone for good, nothing of theirs stays
\* active: the reconciler asks, and the ask settles.
WithdrawnStops == StopFair =>
  (<>[](authority # "ok")
    => \A r \in Runs : []<>(run[r].status \notin Active))
=============================================================================
