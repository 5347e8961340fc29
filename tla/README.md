# TLA+ verification of buildmax

buildmax runs AI agents: on a developer's machine, and as *task runs* that a
server dispatches to worker processes or Kubernetes Jobs. Workflows and schedules
start such runs, and conversations are answered turn by turn. This directory
holds TLA+ models of the server side of all four, the TLC configurations that
check them on small instances, and TLAPS proofs that lift most of their safety
properties to every value of the constants.
Paths below are relative to the repository (`src/` in `PROJECT.json`).

Run a check with `tlc -config RunActors.cfg MCRunLifecycle`, a proof with
`tlapm RunLifecycleProofs.tla`.

## 1. Inventory

### Modelled

| component | state | operations |
|---|---|---|
| Task store: `internal/core/task`, `internal/infra/db/{task,task_run,schedule}.go` | `task` and `task_run` rows, `schedule.consecutive_failures` | create task, create run (continue, retry), `TransitionTaskRun` (compare-and-set, task projection, schedule fold), `RequestTaskRunCancel`; the other writers of the failure count: enabling, a failed start, a workflow run's end |
| Scheduler: `internal/server/scheduler/{scheduler,runner}.go` | one dispatch slot per replica | poll, eligibility check, claim, start worker, record Job name, `failRun`, `cancelRun`, restart |
| Worker: `cmd/buildmax-worker`, `internal/bootstrap/worker.go`, `internal/agentapp/taskrun`, `internal/infra/workerclient` | where the process is, what it will report | fetch, claim, cancel watch, restore or seed, run, capture, report, die |
| Worker API: `internal/server/handlers/worker` | none; a handler lies between two transactions | GET run, PATCH RUNNING, PATCH terminal, checkpoint POST |
| Stale-run reaper: `internal/server/scheduler/stale_runs.go` | the list of the current sweep | canceled, lost-worker and abandoned sweeps, Job deletion |
| Eligibility reconciler | none | asks every run of an initiator without authority to stop |
| Task service: `internal/service/task` | a call between its transactions | create, continue, retry, cancel |
| Workspace checkpoints: `internal/infra/db/workspace_checkpoint.go`, `internal/service/workspace` | checkpoint rows, run base, task head, payload objects | base lookup, upload, existence check, finalize and its repeat, head advance |
| Orphan sweeper: `internal/server/scheduler/checkpoint_orphans.go` | references read, orphans listed | read references, list, delete |
| Workflow runtime: `internal/service/workflow`, `internal/core/workflow`, `internal/infra/db/workflow*.go`, `internal/server/scheduler/workflow_recovery.go` | run, node and request rows, the reconcile lease; a pass and its snapshot of the nodes | start, reconcile (fold, requests, dispatch, drain), admit and link, stop, cancel, answer |
| Schedules: `internal/server/scheduler/schedule_{dispatcher,delivery}.go`, `internal/service/schedule`, `internal/infra/db/schedule.go`, `internal/service/assistant/delivery.go` | the schedule row, its firings and their deliveries; a sweep and the row it read | list due, pause, claim, start, record, edit, delete, plan and settle a delivery, send |
| Conversation turns: `internal/server/turnqueue`, `internal/infra/coordination/lock.go`, `internal/infra/db/conversation_message.go` | per replica a registry of queues; the Redis key and fence counter; `turn_fence` and the history | submit, drain, forget, acquire, renew, release, append under a fence, shut down |

Runs, workflows and schedules interact only through the database and the payload
store; turns also through Redis. No process holds a lock across two
transactions, nobody is told when a row changes under it, and a request, a
process or a server can stop between any two steps. What makes the system
correct is that each write is a compare-and-set, runs under a row lock or
carries a fence, and that periodic sweeps (reaper, reconciler, recovery loop,
dispatcher, delivery sweeper) finish what others leave behind. A workflow node
and a schedule's firing are tasks of the task store; a firing may also be a
workflow run.

What is hard here: several replicas and several pods working on the same run;
reads that are stale by the time of the write they justify; reports that arrive
after the run was ended by someone else, or after a later run has started; a
cancel in two transactions; a worker that dies anywhere; timeouts that race late
answers; a payload store outside the database's transactions; leases that run
out under a holder that is only slow; goroutines between two critical sections. `hazards` in
`PROJECT.json` lists them with the line where each bites and the property that
would catch it.

### Not modelled

* **Parts of modelled components**: definition editing, publishing and parsing,
  bindings and prompts of workflows, how a result selector resolves (that it may
  not is modelled); cron syntax and time zones; workflow reports; Redis fan-out (broadcast, command bus, run streams) and
  the connector lease. They are data, I/O, or best effort without state to keep.
* **Local background jobs** (`internal/agentapp/job`): bookkeeping of child
  processes inside one process. Section 6 names what was found reading it.
* **Agent loop** and **turn coordinator** (`internal/core/agent`,
  `internal/agentapp`): prompts, providers and tools are I/O; the loop's control
  is sequential.
* **LLM gateway and ledger**, **session store**: candidates for later modules.
* Left out for good: channels, identity and audit CRUD, retention loops (one
  delete by age each), plugins, command line, desktop, portal, evaluation.
  They are request-level CRUD, I/O or user interface.

## 2. Modules

```
RunContract            what a reader of a task may rely on (abstract)
   ^ refines
TaskStore              the tables, one action per transaction
   ^ extends                 TaskStoreProofs
   |
   +-- FailureCount          what a schedule's failure count stands for
   |                         FailureCountProofs
   +-- RunLifecycle          scheduler, workers, reaper, reconciler, people
   |                         RunLifecycleProofs
   +-- WorkspaceCheckpoint   restore, seed, capture, commit, orphan sweep
                             WorkspaceCheckpointProofs

WorkflowContract       what a workflow run promises (abstract)
   ^ refines
WorkflowRuntime        passes, rows, leases, requests, deadlines
                             WorkflowRuntimeProofs
                             WorkflowSoleProofs (extends it: passes that exclude
                             one another)

ScheduleDispatch       dispatchers, delivery sweepers, edits
                             ScheduleDispatchProofs
TurnQueue              registries, the Redis lease, the fenced history
                             TurnQueueProofs
```

The `MC` modules add what TLC needs: symmetry sets, a state constraint, workflow
definitions, cron rules and scenarios (a scenario is a record of bounds chosen in
the initial state, so that one run covers several small instances), and the
function that names archive contents. Operators named `X_Something` with a comment that
begins "Mutant:" are wrong versions of `X`. They are not used by any
specification; each shows that a property notices the mistake.

### TaskStore

A `task_run` row is a record of the columns the lifecycle reads or writes;
`status = "NONE"` is a row that was not inserted. `Nil` is SQL NULL. Columns a
transition writes together and nobody compares (output, error message, session,
tokens, trace) are one column `out`. `TransitionTaskRun` is the whole
transaction: the status compare-and-set, the class a failure always gets
(`failureClassFor`), the projection onto the task row and the fold into the
schedule's failure count. `CreateTaskRun` is `createTaskRunTx` under the task row
lock, with the idempotency key, the active-run count and the workspace base of a
continue or of a retry. `StoreSpec` allows every client every call at any time.
Three more transactions write `consecutive_failures`: `EnableSchedule` (the reset
in `UpdateSchedule`), `RecordFailedStart` (`RecordFire`) and
`FoldWorkflowOutcome` (`TransitionWorkflowRun`). `MaxCount` bounds the two that
could count for ever. `FailureCount` adds the two history variables that say what
the count should be.

A call that finds nothing to do (a lost compare-and-set, a repeated key, an
active run) writes nothing; in `StoreSpec` it is a stuttering step, and in the
modules that extend the store the caller's next position depends on it.

### RunContract

Three variables: the run a task works on, its phase, and the verdict of each
run. Only `Open`, `Advance` and `Settle`; a verdict is given once.

### RunLifecycle

Every actor is a record with a `pc`; one action is one transaction or one
external call, and everything else may happen between two of them.

* *Scheduler*: `PollOnce`, `CheckEligible`, `ClaimRun` or `CancelRun`,
  `StartWorker`, then `RecordWorkerInfo`, or `ReadBeforeFail` and `FailRun`. The
  Kubernetes runner returns once the Job exists, and an error may come back
  although the Job was created; the local runner blocks until the process exits
  (`ProcessExited`). `ServerRestart` drops what a replica was doing.
* *Worker*: `getTaskRun` is two steps because the handler reads the row, then
  checks authority, then answers from the row it read. A live Job may have two
  pods. `Report` and `ReportUnclaimed` are the two transactions of
  `handlePatchTerminalStatus`. `WorkerDies` stands for a kill, an eviction and
  for a report that never got through.
* *Reaper*: each of the three lists is read in one step, with the status and Job
  name of each row; each entry is finished in a step of its own.
* *Time*: `clock` holds the runs whose run timeout, liveness grace or cancel
  grace has passed. `Sweep(now)` uses one `now` for its three lists, so no
  deadline passes during a sweep; a deadline that passes meanwhile is seen by the
  next one. Liveness stamps do happen during a sweep.
* *Authority* is what an eligibility check that succeeds would find; checks fail
  at any time. It may be withdrawn and restored at any step.
* A run's failure after the claim has the class `run` or `space_configuration`;
  the finer classes of the code are not told apart by any property here.

`early` is a history variable; no action reads it.

### WorkspaceCheckpoint

A checkpoint is named by its unique key (source run, kind), so `run[r].base` and
`task[t].head` are such pairs. `blob` is the payload store, by content digest:
absent, young, or past the grace period. Dispatch, claim and reap are one step
each here, RunLifecycle has their detail. The worker of a reaped run goes on:
its upload, report and commit may follow the start of a later run of the task.
The existence check and the metadata transaction of a commit are separate steps,
as are the three calls of a sweep. `GraceDays` is the configured grace. At its
default, zero, an upload is a candidate at once; a grace of days is taken to be
longer than a live worker needs from upload to commit and than one sweep. A base
lookup may be answered as unsupported (404, 503): the run then executes with no
archived tree and no base. `RepeatFinalize` is a finalize that arrives again for
a checkpoint that exists, from a retried request or a second pod.

### WorkflowContract and WorkflowRuntime

The contract: work for a node begins only while the run is open, after all the
node needs, and never once the node is done; a result is accepted once; the
first stop cause decides how a stopped run ends; success means all nodes done.

`WorkflowRuntime` is one workflow run. A reconcile pass is a process with a `pc`,
a snapshot of the node rows and one reading of the clock; one action is one
database call of `reconcilePass`, `foldWaitingNodes`, `dispatchReadyNodes` or
`drainRun`, in their order. Between two of them people cancel or answer, task
runs end, deadlines pass, and (constant `StaleOwners`) the lease runs out and
another pass starts. `Abort` is a crash, which keeps the lease, or an error,
which releases it.

* A node's task runs are what `TaskStore` promises: one active run per task,
  final outcomes, the first cancel reason kept, admission keys unique. SUCCEEDED
  is split by what the fold reads beside it (questions left, schema missed), and
  CANCELED with the timeout reason is `TIMEDOUT`.
* `RequestRunCancel` is one step here. In the code it is a request and then the
  end of a PENDING run; `EarlyCancelNeverRuns` of RunLifecycle says that a run
  caught between the two does not start.
* Time is the set of deadlines that have passed; a pass keeps the set it read.
* `Results` says what resolving the declared result may answer. Where it may fail,
  the pass that would end the run fails instead and the run stays running.
* `StartSpec` adds the two transactions of `StartWorkflowRun`; `Spec` starts with
  run and nodes in place.

### ScheduleDispatch

One schedule. Each replica has a dispatcher and a delivery sweeper, each a `pc`
and the row it read. `fireOne` is one action per call: check, pause, claim, start,
record. A rule is due every `Period` minutes; period 0 is a stored rule that no
longer parses. An edit reads the row and the clock, then writes, whatever minute
it is by then and whatever was claimed meanwhile. The task run of a firing ends in
one step and folds its outcome, as `TransitionTaskRun` does. `over` and `edits` are
history.

### TurnQueue

One conversation. A job's `pc` says between which critical sections it is:
`counted` lies between the two of `Submit`, `start` to `closed` are the queue's
goroutine, `forget` lies between leaving the queue idle and deleting it. A queue
and a lease grant are named after the job that created them, which makes every
grant's nonce unique, as in the code. `redis.clock` is the microsecond clock a
missing counter starts from; it advances by one per grant, the slowest that
`fenceFloor` allows, and is the same on all replicas. Renewal is the absence of
expiry: `Expire` of a key that is being renewed counts as a fault. `Refuse`
covers a call whose script ran although its answer was lost. In mode `local`
there is no Locker and one replica, and a turn appends unfenced.

## 3. Runs

Passing:

| run | instance | shows |
|---|---|---|
| `task_store` (module `FailureCount`) | 2 tasks, 3 runs, 1 key, 1 schedule | one active run per task; the task row mirrors its newest run; one chain of runs; a failure count that is exact under its four writers; outcomes are final; refines RunContract |
| `run_actors` | 1 run, 2 replicas, 2 pods, Kubernetes | one replica dispatches and one pod executes; a cancel recorded while PENDING is never overtaken by a start; the failure class says how far the run got |
| `run_local` | 2 runs, 1 process, local runner | the actors only make steps the store allows, with continue and retry; a worker exits after an answered report only over a settled run |
| `run_ends` | 1 run, authority withdrawn and restored at any step | every run ends; a cancel settles; withdrawn authority leaves nothing active |
| `checkpoint` | 1 task, 2 runs, a grace of zero | an agent that was given an archive works on the one its base records; heads and bases name accepted checkpoints of their task; a head moves along one line; a repeated finalize rewrites nothing |
| `workflow` | an agent node (retry, timeout) and a person's input, both needed by an agent node that may ask and has a schema; a run timeout; one pass at a time, which may crash or fail anywhere; 811 thousand states | success accounts for every node; node, task run and request rows agree; an ended run is quiet; only failures and questions are followed by another attempt; refines WorkflowContract; every run ends, unless it waits on a person or its result does not resolve |
| `workflow_takeover` | 2 independent agent nodes, parallel limit 1, two passes that both believe they hold the lease; 2.3 million states | no admission is duplicated and the contract holds without the lease |
| `schedule` | 2 replicas; three due times, or two while a person enables the schedule, or one with an edit of any kind, or one with deliveries, a crash and a continue | claims alone fire a due time once; failures overshoot their bound by one firing, or one of each replica after an edit; a result is sent at most once; due times and deliveries are not left behind |
| `turns` | 2 replicas; three turns with a fault, two that append twice with two faults, a shutdown with a caller that leaves, one replica without a Locker | turns overlap only over a lost lease or, without a Locker, over a forgotten queue; with a Locker the history never interleaves and the holder is never fenced out; `Wait` is exact; every turn ends |

Violations, where the code does something else than a document or comment states.
Each is a finding in `PROJECT.json` with the lines.

| run | stated | what TLC shows |
|---|---|---|
| `late_report` | only the first valid terminal transition advances the head | the late SUCCEEDED report of a reaped run makes the result of a FAILED run the head |
| `workflow_start` | a run and its static nodes are admitted atomically | a pass between the two transactions of `StartWorkflowRun` finds nothing left to do and ends the run as succeeded, with no node run |
| `checkpoint_no_grace` | recent objects are never candidates of the orphan sweep, and the default grace of zero is safe | the sweep lists an upload before its commit and deletes it after; the recorded checkpoint has no bytes |

### Bounds, and why they are enough

* Two tasks and three runs in `task_store` give a chain, a retry that skips a
  run, and tasks that compete for the next row. `MaxCount = 1` lets each of the
  four writers of the count come before and after every other.
* The theorems of section 5 lift the bounds of this list for every property they
  state; the bounds matter for the properties that are only model-checked.
* The races over a run are between actors, not between runs: each step names one
  run. So `run_actors` uses one run and doubles the actors, and `run_local` uses
  two runs for continue and retry. It is constrained by `OneDeadline`: states
  after a second deadline are not explored. Both leave authority intact;
  `run_ends` withdraws and restores it at any step.
* `AnsweredReportSettles` is checked with one process per run, as its comment
  says. With two pods, one may claim the run between the two transactions of the
  other's report, which then ends nothing.
* The strengthened invariants were checked with TLC before they were proved:
  `SoleInv` on the constants of `workflow` and with two reconcilers and a crash;
  `Apart` and `ReportInv` on `run_local` with two workers, and with one pod.
* `checkpoint` has two runs: the late worker and the run that overtakes it. Its
  grace is the default, zero, which allows more interleavings than any other.
* A workflow pass forgets a node row it read once no later step of the pass reads it
  (`Keep`); nothing observable depends on it, and the runs stay small.
* The workflow has a fork, a join, a retry, a question and a person, which is one
  of each kind of edge and node; `MaxAsks` and `MaxAborts` bound what would repeat.
  `Results = {TRUE, FALSE}` lets every resolution succeed or fail. Two passes are
  the smallest number that can disagree; their run has no requests or timeouts so
  that both stay small.
* Three due times let a claim, a stale read of it and the next firing overlap;
  `MaxFailures = 1` makes the failure bound reachable with two firings.
* Three turns: the one that lost the lease, the one that took it and the one a
  wrong release would let in. `MaxQueued = 1` makes a full queue reachable.
* `MaxRuns` bounds the table. Deadlock checking is off because a system whose
  runs are all settled, and whose table is full, has really nothing to do.
* Pods are interchangeable and so are replicas and tasks; symmetry is used only
  in runs without liveness.

### Fairness

* `ReaperSpec`: weak fairness of the reaper. Its loop ticks as long as any server
  is up. The three liveness properties of `run_ends` name what else each needs:
  * `SettleFair`: the scheduler's loop (weak), strong fairness of the steps that
    take a run out of PENDING, because a restart or an outage may interrupt any
    tick, though not every tick at the same point for ever; and the run timeout
    passes (strong, because the clock stands still while a sweep runs).
  * `StopFair`: the reconciler's loop ticks and the cancel grace passes. No
    scheduler is needed.
* Workflow `FairSpec`: the recovery sweep (every 30 s) comes back to a run that has
  not ended, a pass in progress goes on, a dead owner's lease runs out, backoffs
  end, task runs end (`EveryRunSettles`), and a request that has an expiry reaches
  it. Nothing is assumed of people, nor of the run's own timeout: `EveryRunEnds`
  allows a run to wait on a person for ever.
* Schedule `FairSpec`: each replica's two loops tick, and task runs end. Outages
  and crashes are bounded by the scenario.
* Turn `FairSpec`: goroutines go on, a turn's loop ends, a key nobody renews
  expires. Nothing is assumed of who wins a free lease.
* Workers, pods and people promise nothing else. `EveryRunSettles` and
  `CancelSettles` hold although no worker ever reports.

## 4. Properties worth arguing about

* `EarlyCancelNeverRuns` rests on a fetch before the claim that returns
  `CancelRequested`. The cancel is two transactions, so the run may be dispatched
  with the request on it. A request made after that fetch does not prevent the
  start, which is why the history variable speaks of PENDING.
* `ClassMatchesProgress` rests on `failRun` writing against the status it read:
  a worker that claims between the read and the write makes the write lose.
* `AnsweredReportSettles` is what the second transaction of
  `handlePatchTerminalStatus` is for.
* `RunsOnItsBase` needs restore and seed to be fail-closed: a run whose seed was
  refused must not execute, since its base would stay NULL. It says nothing of a
  run whose base lookup was answered as unsupported (section 6).
* `PointersResolve` is about rows. That their bytes exist is what
  `checkpoint_no_grace` refutes.
* `AcceptedIsImmutable` rests on the row-exists branch of
  `FinalizeWorkspaceCheckpoint`: a repeat is answered from the row, also when it
  brings other bytes.
* `HeadAdvancesLinearly` holds in spite of `late_report`: the late commit can move
  the head only while the head is still the base of the run that reports.

* `ImplementsContract` in `workflow_takeover` is the design's claim that the lease
  is not what makes reconciliation correct. It rests on `ExpectedStatus` in every
  node transition and on the admission key per attempt.
* `SuccessIsAccounted` relates the end of the run to rows several passes and
  people wrote: a node counts as done by a task run that succeeded with what its
  schema asks and no open question, or by an answer.
* `EndedIsQuiet` says which ended runs may keep a node in `retry_wait`: those a
  person canceled, never those that failed or timed out (section 6).
* `EveryRunEnds` names the two ways not to end: a person who does not answer, and
  a result that does not resolve.
* `OneFirePerEdit` and `OvershootIsBounded` put the exceptions in numbers: without
  an edit a due time fires once and the bound is passed by one firing, since the
  count is checked before the claim, from the row the sweep read. An edit that
  writes an older due time back makes it claimable again, once per edit, and lets
  every replica's stale row win a claim.
* `OverlapIsExplained` speaks of lost leases, not of two turns at most: a turn is
  not told that it lost its lease. That it can do no harm is `FenceOrdersHistory`,
  which also says that the fence never locks out who holds the lease, although
  Redis may forget its counter. Without a Locker there is no fence, and two turns
  may run at once over a queue that was forgotten under a `Submit` (section 6).
* `WaitMeansQuiet` rests on the count taken in the same critical section as the
  draining check, and handed from `Submit` to the goroutine.

## 5. Proofs

Each `...Proofs` module proves what its component guarantees for any number of
replicas, pods, tasks, runs, turns, nodes and passes, and for behaviours of any
length. The named assumptions of the model's constants (`StoreAssumption`,
`TurnAssumption` and so on) are all that is used, except where a theorem below
states a hypothesis of its own.

Almost none of the properties is inductive. What is missing is always the same
kind of fact: what an actor that is *between two of its steps* has read, and that
it is still true when the actor acts on it. So every module has the same shape.
Seen from the tables, each action is one of a few *writes*, and a write only moves
the rows forward. Seen from an actor, an invariant says for each of its positions
what it may rely on, and forward moves do not break it.

### TaskStoreProofs

`TypeCorrect`, `OneActive`, `MirrorsLast`, `HistoryIsLinear`
(invariants), `TerminalFinal` (action property), `StoreImplementsContract`
(`StoreSpec => Contract!Spec`).

The inductive invariant is `StoreInv`. A transition writes `last_run_id := r` for
whatever run it moved, and that keeps the mirror only if an active run is
the newest of its task (`ActiveIsLast`). An insert keeps the chain only if rows
are taken in order (`RowsInOrder`), every row belongs to a task that exists
(`RowsKnown`) and a task without a last run has no rows (`NoTaskYet`). Each
transaction is an *insert* (`Insert`: the next row, for a task with no active
run), a *move* (`Move`: one row changes its status along the lifecycle and is
projected) or a cancel request. The refinement uses the same split: an insert is
`Open`, a move is `Advance` or `Settle`, a cancel request is invisible.

### FailureCountProofs

`FailuresAreExact`: the count equals the firings that failed since the schedule
last succeeded or was enabled, plus the failed starts and failed workflow runs
since then. The set of failed firings gains one element with each fold of a
failure and is emptied by each fold of a success and by enabling; a continue or a
retry is no firing, and a run ends once (`StoreInv`), so nothing is counted twice.

### RunLifecycleProofs

`LifecycleTypes`, `RunsHaveOneOwner`, `EarlyCancelHolds`, `ClassIsTruthful`
(invariants), `ActorsUseTheStore` (`Spec => ImplementsStore`) and from it
`StoreHoldsBelow`: what is proved of the store holds under all the actors.

`LifecycleInv` joins `StoreInv` with `SchedInv` (a scheduler acts on a run it has
claimed), `WorkerInv` (a worker executes a run that has started, reports only an end
with columns that end may write, and saw a cancel that came before the dispatch),
`JobInv`, `EarlyInv` and `CallInv` (the entries of a sweep carry a status the run
had). Every action makes one of the writes of `StoreWrite`, and what a row has
passed it never comes back to (`Passed`).

`ReportSettles` (action property `AnsweredReportSettles`) has the hypothesis
`OneProcess`: the local runner, or a Job with one pod at a time. A report is two
transactions, from RUNNING and then from SCHEDULED, and the run it leaves is settled
only if nobody claims it in between. That is `ReportInv`, together with: who reports
a success has started the run. It rests on `Apart` (two live workers have
different runs) and on the fact that only a worker's claim starts a run.

### WorkspaceCheckpointProofs

`CheckpointTypes`, `AgentsRunOnTheirBase` (invariants), `HeadIsLinear`,
`AcceptedStays` (action properties), `PointersAlwaysResolve`.

`CheckpointInv` says which checkpoints heads and bases may name (`PointerInv`) and
what a worker between two calls knows of its run's rows (`Knows`): until it has
seeded there is no seed row and no base, while the agent runs on an archived tree
the base is that tree. `AcceptedStays` covers repeated finalizes: one changes
nothing, whatever bytes it brings. Nothing is proved of the payload store, and no
hypothesis is made about it.

### ScheduleDispatchProofs

`ScheduleTypes`, `SentAtMostOnce`, `ClaimsFireOnce` and `LateClaimsAreBounded`
(all invariants), for any number of replicas and edits and with no hypothesis on
when an edit writes.

`ScheduleInv`: a dispatcher that has yet to record a firing finds it undelivered
and is the only one at it; a sweeper that has yet to send won the settlement.
`DueInv` has two parts. `ClaimedInv`: of the due times claimed since the last edit
none is at or after `next_fire_at`, since a claim moves it past the one it took.
`LateInv` bounds the firings past the failure bound: before any edit no snapshot is
ahead of the row, nor beside it once one such claim was made; after an edit each
further one uses up a snapshot taken before the count reached its bound (`Stale`),
of which a replica holds at most one.

### TurnQueueProofs

`TurnTypes`, `OverlapsAreExplained`, `TurnsOrdered`, `TurnsWaited` (invariants).

`TurnInv` has three parts. `QueueInv`: a queue belongs to one replica, its pending
list holds exactly its queued turns, a queue that says it is running has a
goroutine, and a registry's count is the number of turns inside `Submit` and of
goroutines. `LeaseInv`: who has the lease and has not lost it is named by the key.
`FenceInv`: fences grow with the clock, each belongs to one turn, the holder's is
the newest, and the history is in their order. Without a Locker there is one
replica (`OneReplica`) and one goroutine per queue, so two turns that run at once
are on different queues, of which the registry holds at most one.

### WorkflowRuntimeProofs

For every definition that `topoSort` accepts (`OrderAssumption`), any number of
passes, and whether or not a lease runs out under a live pass: `WorkflowTypes`,
`AdmittedOnce`, `SuccessAccounts` (invariants) and `WorkflowKeepsContract`
(`Spec => ImplementsContract`).

`FlowInv` is `RowInv` with, for every pass, `PassOK`. `RowInv`: work begins after
everything the node needs; no node of a run without a stop has failed; what
succeeded is accounted for; at most one TaskRun of a node is active (`Solo`). Every
action is one of the writes of `RowStep`, guarded in its transaction; each
preserves `RowInv`, is a step of the contract and only lets rows grow (`Grows`:
ended nodes stay, TaskRuns and requests are added, a stop is not taken back).
`PassOK` says what a pass has read that growth cannot make false, for instance
that a node its snapshot shows as ended has ended that way. That is what
lets a run succeed on the word of a stale snapshot, and why the lease is not needed.

### WorkflowSoleProofs

Under `~StaleOwners`, that no lease runs out under a live pass (a lease lasts two
minutes, far longer than a pass takes): `SoleRowsAgree`, `SoleEndedIsQuiet` (invariants) and
`SoleRetries` (action property), for every definition and any number of reconcilers.
The contract above needs no lease; these three do. A slower second pass may link an
answer to a node that waits again, or schedule an attempt too many (section 6).

`SoleInv` joins three things. `Owner`: a pass in progress has the lease and it has
not run out, so every other reconciler is idle. `SolePass`: what the one pass has
read of the nodes it still has to look at is what the rows say. People and TaskRuns
go on beside it; a cancel by a person is the only one of their steps that moves
nodes, and it moves none that runs (`Stopless`), so the fold's snapshot stays exact,
and it cannot happen under a drain, whose run has stopped already.
`SoleNode`: a node is linked to the last TaskRun of its Task, which alone may
execute and only while the node runs; how that run ended is why the node retries or
waits (`Work`); no admission key is ahead of the attempt or request it stands for
(`Keys`); only the last request may be pending (`Asked`); a stop leaves no node
pending or waiting, a failure none in `retry_wait` either, and an end none that
runs (`Halted`). That a run which failed keeps no retry rests on who may fail it:
only the pass itself, which then starts over, while a cancel may come under a fold.

None of the three is inductive alone. That the drain may end the run follows from
`SolePass` (every node that runs is still to be looked at, or was counted). That a
retry follows a failure follows from `Work`, which an admission keeps only because
its key is new (`Keys`): an admission that found its key used would
link the node to an older run. `SoleStep` lists the writes one pass at a time can
make, each a write of `RowStep` with what `SolePass` adds to its guard; there is one
lemma per write (`...Keeps`) and one per action (`...Sole`).

### Only model-checked

* Liveness: the eventualities of `run_ends`, `workflow`, `schedule` and
  `turns`. TLAPS does not reason about ENABLED and fairness.

Every other property of a passing run is stated by a theorem. Where the theorem has a
hypothesis of its own it is named above, and section 6 or the property's comment
says what happens without it.

## 6. Known divergences

Where the code differs from what a comment or document says, beside the three
violation runs. They were met while modelling. Where a property touches one, it
states the exception exactly, and its comment quotes the line it departs from.

* *Retry of an older run*: `RetryRun` (`service/task/service.go:346`) inserts what
  it read in an earlier transaction; a continue that starts and ends in between
  is skipped, although `service.go:307` says the most recent run is repeated.
* *Cancel reason replaced*: `cancelRun` (`scheduler.go:359`) overwrites a person's
  reason; `core/task/task.go:92` calls it immutable.
* *Canceled run ends as abandoned*: a worker that claims between the cancel list
  and its update defeats `stale_runs.go:219`.
* *Abandoned by age*: `ListStaleTaskRuns` (`task_run.go:1035`) compares
  `created_at`, not the dispatch time its comment names.
* *Orphan sweep under a grace*: `checkpoint_no_grace` shows the default. With a
  grace there is still a payload that is past it, listed, uploaded again with the
  same content, recorded and then deleted by key (`checkpoint_orphans.go:144`;
  `:38` says a re-upload stays out of reach): with `GraceDays = 1` and a `Content`
  that maps every archive to one payload TLC finds `RecordedHasBytes` violated too.
* *Unsupported base*: a base lookup answered 404 or 503, also by a proxy or by a
  replica without storage (`workerclient/checkpoint.go:68`), makes a continued run
  execute on fresh space files (`taskrun/checkpoint.go:83`), where `:50` says it
  "must refuse rather than run against the wrong one". It may then commit its
  result and move the head.
* *A node left in `retry_wait`*: `scheduleRetry` (`service/workflow/service.go:875`)
  does not name the run's status, so a pass overtaken by a person's cancel leaves a
  node retrying in the canceled run, where `docs/design/workflow-runtime.md:834`
  says "Stop intent cancels a `retry_wait` node outright" (also `:878`). With two
  passes the slower one may also schedule an attempt too many, since the update
  does not name the attempt (`:563`).
* *Unresolvable result*: a declared result that does not resolve
  (`service/workflow/service.go:1740`) fails the pass that would end the run, and
  every pass after it (`:1090`): without a run timeout the run stays running,
  although `:659` says "A failed pass must not strand the run".
* *Parallel limit*: `applyAnswer` (`request.go:179`) continues a node without
  counting active ones, so `max_parallel_nodes` can be exceeded.
* *Drain records a success* for a task run that asked or missed its schema
  (`drain.go:41`).
* *Slow edit fires twice*: an edit computes `next_fire_at` from its own reading of
  the clock (`service/schedule/service.go:238`) and writes it unconditionally
  (`infra/db/schedule.go:278`). If the due time passes and is claimed in between,
  it is written back and fires again, where
  `docs/design/scheduled-agent-execution.md:70` says "a due schedule fires exactly
  once per due time". `OneFirePerEdit` is what is left; without its condition on
  `edits` TLC finds two firings of one due time in the `schedule` run.
* *Stale pause*: a pause decided from an old read disables a schedule its owner has
  enabled meanwhile (`schedule_dispatcher.go:338`). A crash before `RecordFire`
  loses a firing's record and delivery.
* *Turns without a Locker*: a goroutine can forget its queue while `Submit` is
  between its two critical sections (`turnqueue.go:154`). The turn then runs on the
  orphaned queue and the next one on a new queue, at the same time, although
  `turnqueue.go:61` says "never concurrently with another job for the same
  conversation" and `:124` that a single replica needs no Locker. In mode `local`
  two jobs in `run` are reachable in twelve steps; with a Locker the lease keeps
  them apart.
* *Stale write before the first append*: the fence refuses an old holder only once
  the new one has appended. Between the new turn's read of the history
  (`service/conversation/runtime.go:252`) and its first append the old one may
  still write, and the new turn's prompt lacks that message.
* *Background jobs* (not modelled): the limit is checked and the job adopted in two
  critical sections (`agentapp/job/manager.go:295`), so it can be exceeded; a full
  subscriber loses the newest event where `manager.go:677` says the oldest.
* *Runs*: a run reaped before its Job name was recorded leaves the Job behind
  (`stale_runs.go:277`); a pod that never claimed can report FAILED over another's
  claim (`handlers/worker/worker.go:334`); a local worker that never exits keeps the
  only dispatch slot (`scheduler.go:78`).

## 7. Plan

Next modules: the job manager; the session store's journal; admission and
settlement in the LLM gateway's ledger; the local runner's single slot as a
liveness question over two runs.
