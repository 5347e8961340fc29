------------------------- MODULE WorkspaceCheckpoint ------------------------
(***************************************************************************)
(* Task workspace checkpoints: the worker restores or seeds the workspace   *)
(* before the agent runs and captures it afterwards (agentapp/taskrun), the *)
(* server commits a pointer to bytes that are already uploaded              *)
(* (handlers/worker, service/workspace, infra/db), and a sweeper deletes    *)
(* bytes no pointer names (scheduler/checkpoint_orphans.go).                *)
(*                                                                         *)
(* Runs are dispatched, claimed and reaped as RunLifecycle details; here    *)
(* each is one step.  A reaped run's worker goes on: its upload, its report *)
(* and the commit its report asks for may all come after a later run of the *)
(* same task has started.                                                   *)
(***************************************************************************)
EXTENDS TaskStore

CONSTANTS
  Payloads,  \* archive contents, by digest
  Content,   \* [Ckpts -> Payloads]: what run r's worker archives at boundary k
  GraceDays  \* checkpoint_orphan_grace_days, 0 unless configured

ASSUME ContentAssumption ==
  /\ Content \in [Ckpts -> Payloads]
  /\ Nil \notin Payloads
  /\ GraceDays \in Nat
  /\ {"worker", "reaper"} \subseteq Outcomes
  /\ {"run", "abandoned"} \subseteq Classes

VARIABLES
  ckpt,     \* workspace_checkpoint rows: (source run, kind) -> payload digest
  blob,     \* the payload store: digest -> "absent", "young" or past the grace
  worker,   \* run -> how far the worker that claimed it is
  sweeper   \* a pass of the orphan sweeper

ckptVars == <<run, task, failures, ckpt, blob, worker, sweeper>>

NoWorker    == [pc |-> "none", tree |-> Nil, up |-> Nil, to |-> Nil]
IdleSweeper == [pc |-> "idle", refs |-> {}, todo |-> {}]

Init ==
  /\ StoreInit
  /\ ckpt = [c \in Ckpts |-> Nil]
  /\ blob = [p \in Payloads |-> "absent"]
  /\ worker = [r \in Runs |-> NoWorker]
  /\ sweeper = IdleSweeper

Exists(p) == blob[p] # "absent"

\* Put rewrites the object, so its modification time is new.
Put(p) == blob' = [blob EXCEPT ![p] = "young"]

-----------------------------------------------------------------------------
(* infra/db/workspace_checkpoint.go *)

\* Mutant: any result moves the head, a failed run's too.
AdvanceTaskHead_AnyKind(r, kind) ==
  LET t == run[r].task
  IN  IF \/ kind = "seed" /\ task[t].head = Nil
         \/ kind # "seed" /\ task[t].head = run[r].base
      THEN task' = [task EXCEPT ![t].head = <<r, kind>>]
      ELSE UNCHANGED task

\* Mutant: a result moves the head wherever it points.
AdvanceTaskHead_NoCompare(r, kind) ==
  LET t == run[r].task
  IN  IF \/ kind = "seed" /\ task[t].head = Nil
         \/ kind = "successful"
      THEN task' = [task EXCEPT ![t].head = <<r, kind>>]
      ELSE UNCHANGED task

\* advanceTaskHead: a seed establishes a missing head, a successful result moves
\* a head that still points at the run's base, a partial never does.
AdvanceTaskHead(r, kind) ==
  LET t == run[r].task
  IN  IF \/ kind = "seed" /\ task[t].head = Nil
         \/ kind = "successful" /\ task[t].head = run[r].base
      THEN task' = [task EXCEPT ![t].head = <<r, kind>>]
      ELSE UNCHANGED task

\* linkRunCheckpoint: the seed becomes the run's base; the result and partial
\* columns repeat that the row (run, kind) exists.
LinkRunCheckpoint(r, kind) ==
  IF kind = "seed" THEN run' = [run EXCEPT ![r].base = <<r, kind>>]
                   ELSE UNCHANGED run

\* Mutant: a repeated finalize writes its row over the one there.
FinalizeWorkspaceCheckpoint_Upsert(r, kind, p) ==
  /\ ckpt' = [ckpt EXCEPT ![<<r, kind>>] = p]
  /\ LinkRunCheckpoint(r, kind)
  /\ AdvanceTaskHead(r, kind)
  /\ UNCHANGED failures

\* One transaction.  A row that exists wins: the same bytes are answered with
\* it, different bytes are ErrCheckpointConflict.
FinalizeWorkspaceCheckpoint(r, kind, p) ==
  IF ckpt[<<r, kind>>] # Nil THEN UNCHANGED <<storeVars, ckpt>>
  ELSE /\ ckpt' = [ckpt EXCEPT ![<<r, kind>>] = p]
       /\ LinkRunCheckpoint(r, kind)
       /\ AdvanceTaskHead(r, kind)
       /\ UNCHANGED failures

-----------------------------------------------------------------------------
(* The life of a run, as far as the workspace sees it *)

Submit ==
  /\ \E t \in Tasks :
       \/ CreateTask(t, Nil)
       \/ \E q \in {Nil, task[t].last} : CreateTaskRun(t, Nil, q)
  /\ UNCHANGED <<ckpt, blob, worker, sweeper>>

Dispatch(r) ==
  /\ TransitionTaskRun(r, "PENDING", "SCHEDULED", NoUpdate)
  /\ UNCHANGED <<ckpt, blob, worker, sweeper>>

\* The stale-run reaper ends a run; its worker, if it lives, is not told.
Reap(r) ==
  /\ run[r].status \in {"SCHEDULED", "RUNNING"}
  /\ TransitionTaskRun(r, run[r].status, "FAILED",
       [NoUpdate EXCEPT !.out = "reaper", !.class = "abandoned"])
  /\ UNCHANGED <<ckpt, blob, worker, sweeper>>

-----------------------------------------------------------------------------
(* agentapp/taskrun: the worker *)

Goto(r, pc) == worker' = [worker EXCEPT ![r].pc = pc]

\* The agent starts on this tree: the archived one, or Nil for one no
\* checkpoint records.
Execute(r, tree) ==
  worker' = [worker EXCEPT ![r].pc = "running", ![r].tree = tree]

\* reportRunFailure before execution: FAILED, and no checkpoint to commit.
Refuse(r) == worker' = [worker EXCEPT ![r].pc = "report", ![r].to = "FAILED"]

ClaimRun(r) ==
  /\ worker[r].pc = "none"
  /\ TransitionTaskRun(r, "SCHEDULED", "RUNNING",
                       [NoUpdate EXCEPT !.started = TRUE])
  /\ Goto(r, "resolve")
  /\ UNCHANGED <<ckpt, blob, sweeper>>

\* resolveWorkspaceBase, then restoreWorkspaceBase or a seed.  A lookup that
\* fails, a base whose bytes are gone or whose digest differs fails the run; a
\* 404 or 503, whoever sent it, reads as a deployment without checkpoints, and
\* the agent starts on the space files (tree = Nil), with neither.
ResolveBase(r) ==
  LET base == run[r].base
  IN  /\ worker[r].pc = "resolve"
      /\ \/ base = Nil /\ Goto(r, "seed")
         \/ base # Nil /\ Exists(ckpt[base]) /\ Execute(r, ckpt[base])
         \/ Refuse(r)
         \/ Execute(r, Nil)
      /\ UNCHANGED <<storeVars, ckpt, blob, sweeper>>

\* captureAndFinalizeSeed: archive and upload ...
SeedUpload(r) ==
  /\ worker[r].pc = "seed"
  /\ \/ Put(Content[<<r, "seed">>]) /\ Goto(r, "seedcheck")
     \/ Refuse(r) /\ UNCHANGED blob
  /\ UNCHANGED <<storeVars, ckpt, sweeper>>

\* Mutant: a seed that is refused does not stop the run.
SeedCheck_FailOpen(r) ==
  /\ worker[r].pc = "seedcheck"
  /\ IF run[r].status = "RUNNING" /\ Exists(Content[<<r, "seed">>])
     THEN Goto(r, "seedcommit") ELSE Execute(r, Content[<<r, "seed">>])
  /\ UNCHANGED <<storeVars, ckpt, blob, sweeper>>

\* ... then postWorkspaceCheckpoint: the run must be RUNNING and the bytes there
\* when the handler looks ...
SeedCheck(r) ==
  /\ worker[r].pc = "seedcheck"
  /\ IF run[r].status = "RUNNING" /\ Exists(Content[<<r, "seed">>])
     THEN Goto(r, "seedcommit") ELSE Refuse(r)
  /\ UNCHANGED <<storeVars, ckpt, blob, sweeper>>

\* ... and the metadata transaction follows; its answer may be lost, which to
\* the worker is a seed that was not recorded.
SeedCommit(r) ==
  /\ worker[r].pc = "seedcommit"
  /\ FinalizeWorkspaceCheckpoint(r, "seed", Content[<<r, "seed">>])
  /\ Execute(r, Content[<<r, "seed">>]) \/ Refuse(r)
  /\ UNCHANGED <<blob, sweeper>>

KindOf(status) == IF status = "SUCCEEDED" THEN "successful" ELSE "partial"

\* captureWorkspaceCheckpoint when the agent is done or stopped: the upload is
\* fail-open, the descriptor rides the terminal report.
Capture(r) ==
  /\ worker[r].pc = "running"
  /\ \E to \in Terminal :
       LET p == Content[<<r, KindOf(to)>>]
       IN  \/ /\ Put(p)
              /\ worker' = [worker EXCEPT ![r].pc = "report", ![r].to = to,
                                          ![r].up = p]
           \/ /\ worker' = [worker EXCEPT ![r].pc = "report", ![r].to = to]
              /\ UNCHANGED blob
  /\ UNCHANGED <<storeVars, ckpt, sweeper>>

ReportUpdate(to) ==
  [NoUpdate EXCEPT !.out = "worker",
                   !.class = IF to = "FAILED" THEN "run" ELSE Nil]

\* Mutant: a report without a descriptor is finalized too.
Report_AlwaysCommits(r) ==
  LET w == worker[r]
  IN  /\ w.pc = "report"
      /\ IF run[r].status = "RUNNING"
         THEN TransitionTaskRun(r, "RUNNING", w.to, ReportUpdate(w.to))
         ELSE UNCHANGED storeVars
      /\ Goto(r, "check")
      /\ UNCHANGED <<ckpt, blob, sweeper>>

\* handlePatchTerminalStatus: the transition, won or lost ...
Report(r) ==
  LET w == worker[r]
  IN  /\ w.pc = "report"
      /\ IF run[r].status = "RUNNING"
         THEN TransitionTaskRun(r, "RUNNING", w.to, ReportUpdate(w.to))
         ELSE UNCHANGED storeVars
      /\ Goto(r, IF w.up = Nil THEN "gone" ELSE "check")
      /\ UNCHANGED <<ckpt, blob, sweeper>>

\* ... and either way finalizeRunCheckpoint: are the bytes there ...
CommitCheck(r) ==
  /\ worker[r].pc = "check"
  /\ Goto(r, IF Exists(worker[r].up) THEN "commit" ELSE "gone")
  /\ UNCHANGED <<storeVars, ckpt, blob, sweeper>>

\* ... and the metadata transaction, of the kind the report's status names.
Commit(r) ==
  /\ worker[r].pc = "commit"
  /\ FinalizeWorkspaceCheckpoint(r, KindOf(worker[r].to), worker[r].up)
  /\ Goto(r, "gone")
  /\ UNCHANGED <<blob, sweeper>>

\* A finalize that was answered comes again: a request the network repeats, or
\* a second pod of the run, which may have archived other bytes.  A seed is
\* refused once the run is not RUNNING.
RepeatFinalize(r, kind) ==
  /\ ckpt[<<r, kind>>] # Nil
  /\ kind = "seed" => run[r].status = "RUNNING"
  /\ \E p \in Payloads : Exists(p) /\ FinalizeWorkspaceCheckpoint(r, kind, p)
  /\ UNCHANGED <<blob, worker, sweeper>>

WorkerDies(r) ==
  /\ worker[r].pc \notin {"none", "gone"}
  /\ worker' = [worker EXCEPT ![r] = [NoWorker EXCEPT !.pc = "gone"]]
  /\ UNCHANGED <<storeVars, ckpt, blob, sweeper>>

-----------------------------------------------------------------------------
(* scheduler/checkpoint_orphans.go *)

\* The pointers are read first ...
SweepRefs ==
  /\ sweeper.pc = "idle"
  /\ \E p \in Payloads : Exists(p)
  /\ sweeper' = [sweeper EXCEPT !.pc = "list",
                   !.refs = {ckpt[c] : c \in Ckpts} \ {Nil}]
  /\ UNCHANGED <<storeVars, ckpt, blob, worker>>

\* ... then the store is listed; a payload past the grace that no pointer named
\* is an orphan ...
SweepList ==
  LET orphans == {p \in Payloads : blob[p] = "old"} \ sweeper.refs
  IN  /\ sweeper.pc = "list"
      /\ sweeper' = IF orphans = {} THEN IdleSweeper
                    ELSE [pc |-> "delete", refs |-> {}, todo |-> orphans]
      /\ UNCHANGED <<storeVars, ckpt, blob, worker>>

\* ... and is deleted by key, one call each; a call may fail.
SweepDelete ==
  /\ sweeper.pc = "delete"
  /\ \E p \in sweeper.todo :
       /\ \/ blob' = [blob EXCEPT ![p] = "absent"]
          \/ UNCHANGED blob
       /\ sweeper' = IF sweeper.todo = {p} THEN IdleSweeper
                     ELSE [sweeper EXCEPT !.todo = @ \ {p}]
  /\ UNCHANGED <<storeVars, ckpt, worker>>

\* What a live worker has uploaded and not yet committed.
InHand(r) == CASE worker[r].pc \in {"seedcheck", "seedcommit"} ->
                    {Content[<<r, "seed">>]}
               [] worker[r].pc \in {"report", "check", "commit"} ->
                    {worker[r].up}
               [] OTHER -> {}

\* A payload is past the grace.  With the default, zero, every payload written
\* before the sweep looks is.  A grace of days is longer than a live worker
\* takes from its upload to its commit, and than a sweep takes.
GracePasses(p) ==
  /\ blob[p] = "young"
  /\ GraceDays > 0 => sweeper.pc = "idle" /\ \A r \in Runs : p \notin InHand(r)
  /\ blob' = [blob EXCEPT ![p] = "old"]
  /\ UNCHANGED <<storeVars, ckpt, worker, sweeper>>

-----------------------------------------------------------------------------

WorkerStep(r) ==
  \/ ClaimRun(r) \/ ResolveBase(r) \/ SeedUpload(r) \/ SeedCheck(r)
  \/ SeedCommit(r) \/ Capture(r) \/ Report(r) \/ CommitCheck(r) \/ Commit(r)
  \/ WorkerDies(r)

Next ==
  \/ Submit
  \/ \E r \in Runs : Dispatch(r) \/ Reap(r) \/ WorkerStep(r)
  \/ \E r \in Runs, kind \in Kinds : RepeatFinalize(r, kind)
  \/ SweepRefs \/ SweepList \/ SweepDelete
  \/ \E p \in Payloads : GracePasses(p)

Spec == Init /\ [][Next]_ckptVars

-----------------------------------------------------------------------------
(* Properties *)

\* The rows, the payload store, the workers and the sweep have their types; the
\* server finalizes a checkpoint only for a report that carries a descriptor
\* (handlePatchTerminalStatus).
TypeOK ==
  /\ StoreTypeOK
  /\ ckpt \in [Ckpts -> OrNil(Payloads)]
  /\ blob \in [Payloads -> {"absent", "young", "old"}]
  /\ worker \in [Runs ->
       [pc : {"none", "resolve", "seed", "seedcheck", "seedcommit", "running",
              "report", "check", "commit", "gone"},
        tree : OrNil(Payloads), up : OrNil(Payloads), to : OrNil(Terminal)]]
  /\ \A r \in Runs : worker[r].pc \in {"check", "commit"} => worker[r].up # Nil
  /\ sweeper.refs \subseteq Payloads /\ sweeper.todo \subseteq Payloads

\* An agent that was given an archived tree, restored or seeded, works on
\* exactly the one its run's base checkpoint records, in spite of late seeds,
\* restores that fail and refused commits (prepareWorkspaceFilesystem).  A run
\* whose base lookup was answered 404 or 503 is given none and executes all the
\* same, though the comment there says it "must refuse".
RunsOnItsBase ==
  \A r \in Runs : worker[r].pc = "running" /\ worker[r].tree # Nil =>
    /\ run[r].base # Nil
    /\ ckpt[run[r].base] = worker[r].tree

\* Stated by captureAndFinalizeSeed (taskrun/checkpoint.go) and relied on by the
\* orphan sweeper's comment: a recorded checkpoint never points at bytes that
\* are not there.
RecordedHasBytes == \A c \in Ckpts : ckpt[c] # Nil => Exists(ckpt[c])

\* Every pointer of the database resolves to a row: a task's head and a run's
\* base name accepted checkpoints of the same task, and no partial result is
\* ever one of them (FinalizeWorkspaceCheckpoint, CreateTaskRun), whatever
\* retries, late reports and repeated finalizes come in between.
PointersResolve ==
  /\ \A t \in Tasks : task[t].head # Nil =>
       /\ ckpt[task[t].head] # Nil
       /\ task[t].head[2] # "partial"
       /\ run[task[t].head[1]].task = t
  /\ \A r \in Runs : run[r].base # Nil =>
       /\ ckpt[run[r].base] # Nil
       /\ run[r].base[2] # "partial"
       /\ run[run[r].base[1]].task = run[r].task

\* The head only moves forward along one line: it is first established by a run
\* that had no base, and later only moved to the result of a run that started
\* from where the head is.
HeadAdvancesLinearly ==
  [][\A t \in Tasks : task'[t].head # task[t].head =>
       /\ task'[t].head # Nil
       /\ run[task'[t].head[1]].base = task[t].head]_ckptVars

\* An accepted checkpoint is never rewritten or dropped, not by a finalize that
\* is repeated with other bytes either, and a base, once recorded, is never
\* replaced.
AcceptedIsImmutable ==
  [][/\ \A c \in Ckpts : ckpt[c] # Nil => ckpt'[c] = ckpt[c]
     /\ \A r \in Runs : run[r].base # Nil => run'[r].base = run[r].base]_ckptVars

\* Stated by the design (task-workspace-checkpoints.md): only the accepted
\* terminal report of a run advances the head, so the run a result head came
\* from succeeded.
HeadFromAcceptedRun ==
  \A t \in Tasks : /\ task[t].head # Nil
                   /\ task[t].head[2] = "successful"
                   => run[task[t].head[1]].status = "SUCCEEDED"
=============================================================================
