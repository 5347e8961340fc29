---------------------- MODULE WorkspaceCheckpointProofs ----------------------
(***************************************************************************)
(* What WorkspaceCheckpoint guarantees for every number of tasks, runs and  *)
(* payloads, proved with TLAPS.                                             *)
(*                                                                         *)
(* CheckpointInv is about rows: which checkpoint a head or a base may name, *)
(* and what a worker that is between two calls knows of its run's rows.     *)
(***************************************************************************)
EXTENDS WorkspaceCheckpoint, TaskStoreProofs

WorkerState ==
  [pc : {"none", "resolve", "seed", "seedcheck", "seedcommit", "running",
         "report", "check", "commit", "gone"},
   tree : OrNil(Payloads), up : OrNil(Payloads), to : OrNil(Terminal)]

SweeperState ==
  [pc : {"idle", "list", "delete"}, refs : SUBSET Payloads, todo : SUBSET Payloads]

BeforeSeed == {"none", "resolve", "seed", "seedcheck", "seedcommit"}
Seeding    == {"seed", "seedcheck", "seedcommit"}
BeforeEnd  == BeforeSeed \cup {"running"}
Ending     == {"report", "check", "commit"}

\* A checkpoint that a run of task t may start from.
Usable(c, t) == /\ c \in Ckpts /\ ckpt[c] # Nil
                /\ c[2] # "partial" /\ run[c[1]].task = t

\* Heads and bases are usable; a row of the checkpoint table is some run's
\* archive; a run that does not exist has no base.
PointerInv ==
  /\ \A t \in Tasks : task[t].head # Nil => Usable(task[t].head, t)
  /\ \A r \in Runs : run[r].base # Nil => Usable(run[r].base, run[r].task)
  /\ \A r \in Runs : run[r].status = "NONE" => run[r].base = Nil
  /\ \A r \in Runs, k \in Kinds : ckpt[<<r, k>>] # Nil =>
       run[r].status # "NONE" /\ ckpt[<<r, k>>] = Content[<<r, k>>]

\* What run r's worker, in state w, knows of r's rows.
Knows(r, w) ==
  /\ w.pc # "none" => run[r].status # "NONE"
  /\ w.pc \in BeforeSeed => ckpt[<<r, "seed">>] = Nil
  /\ w.pc \in Seeding => run[r].base = Nil
  /\ w.pc = "running" /\ w.tree # Nil => run[r].base # Nil /\ ckpt[run[r].base] = w.tree
  /\ w.up # Nil => w.to \in Terminal /\ w.up = Content[<<r, KindOf(w.to)>>]
  /\ w.pc \in Ending => w.to \in Terminal
  /\ w.pc \in {"check", "commit"} => w.up # Nil
  /\ w.pc \in BeforeEnd => w.up = Nil

CheckpointInv ==
  /\ StoreInv /\ TypeOK /\ sweeper \in SweeperState
  /\ PointerInv
  /\ \A r \in Runs : Knows(r, worker[r])

-----------------------------------------------------------------------------
(* A transaction of the task store, seen from the checkpoints *)

\* A row keeps its task and its base, or is new with a base it may have.
SameRow(r) == /\ run'[r].task = run[r].task /\ run'[r].base = run[r].base
              /\ (run'[r].status = "NONE") <=> (run[r].status = "NONE")
FreshRow(r) ==
  /\ run[r].status = "NONE" /\ run'[r].status # "NONE"
  /\ \E t \in Tasks :
       /\ run'[r].task = t
       /\ \/ run'[r].base = Nil
          \/ run'[r].base = task[t].head
          \/ \E q \in Runs : run[q].task = t /\ run'[r].base = run[q].base

TableFrame ==
  /\ \A t \in Tasks : task'[t].head = task[t].head
  /\ \A r \in Runs : SameRow(r) \/ FreshRow(r)

\* The row and task of a new task: no base, no head.
LEMMA CreateTaskFrame ==
  ASSUME StoreInv, NEW t \in Tasks, NEW s \in OrNil(Schedules), CreateTask(t, s)
  PROVE  TableFrame
<1>0. run \in [Runs -> RunRow] /\ task \in [Tasks -> TaskRow]
  BY DEF StoreInv, StoreTypeOK
<1>1. PICK r \in Runs :
        /\ NextRow(r)
        /\ run' = [run EXCEPT ![r] =
             [NoRow EXCEPT !.task = t, !.status = "PENDING",
                           !.source = IF s = Nil THEN "user" ELSE "schedule"]]
        /\ task' = [task EXCEPT ![t] =
             [NoTask EXCEPT !.last = r, !.status = "PENDING", !.sched = s]]
  BY DEF CreateTask
<1> DEFINE source == IF s = Nil THEN "user" ELSE "schedule"
<1>2. run'[r] = [NoRow EXCEPT !.task = t, !.status = "PENDING", !.source = source]
  BY <1>0, <1>1
<1> HIDE DEF source
<1>3. run'[r].status = "PENDING" /\ run'[r].task = t /\ run'[r].base = Nil
  BY <1>2 DEF NoRow
<1>4. task'[t].head = Nil
  BY <1>0, <1>1 DEF NoTask
<1>5. task[t].head = Nil
  BY DEF CreateTask, StoreInv, NoTaskYet, NoTask
<1>6. FreshRow(r)
  BY <1>1, <1>3 DEF FreshRow, NextRow
<1>7. \A q \in Runs \ {r} : SameRow(q)
  BY <1>0, <1>1 DEF SameRow
<1>8. \A u \in Tasks \ {t} : task'[u] = task[u]
  BY <1>0, <1>1
<1> QED
  BY <1>4, <1>5, <1>6, <1>7, <1>8 DEF TableFrame

\* A further run starts from the head, a retry from the base it repeats.
LEMMA CreateTaskRunFrame ==
  ASSUME StoreInv, NEW t \in Tasks, NEW k \in OrNil(Keys),
         NEW p \in OrNil(RunsOf(t)), CreateTaskRun(t, k, p)
  PROVE  TableFrame
<1>0. run \in [Runs -> RunRow] /\ task \in [Tasks -> TaskRow] /\ task[t] \in TaskRow
  BY DEF StoreInv, StoreTypeOK
<1>1. PICK r \in Runs :
        /\ NextRow(r)
        /\ run' = [run EXCEPT ![r] = NewRunRow(t, k, p)]
        /\ task' = [task EXCEPT
             ![t].last = r, ![t].status = "PENDING", ![t].out = Nil,
             ![t].asks = FALSE]
  BY DEF CreateTaskRun
<1>b. PICK base : base = IF p = Nil THEN task[t].head ELSE run[p].base
  OBVIOUS
<1>l. PICK prev : prev = task[t].last
  OBVIOUS
<1>2. run'[r] = [NoRow EXCEPT !.task = t, !.status = "PENDING", !.prev = prev,
                              !.retryOf = p, !.key = k, !.base = base]
  BY <1>0, <1>1, <1>b, <1>l DEF NewRunRow
<1>3. run'[r].status = "PENDING" /\ run'[r].task = t /\ run'[r].base = base
  BY <1>2 DEF NoRow
<1>4. base = task[t].head \/ \E q \in Runs : run[q].task = t /\ base = run[q].base
  BY <1>b DEF OrNil, RunsOf
<1>5. FreshRow(r)
  BY <1>1, <1>3, <1>4 DEF FreshRow, NextRow
<1>6. \A q \in Runs \ {r} : SameRow(q)
  BY <1>0, <1>1 DEF SameRow
<1>7. task'[t] = [task[t] EXCEPT !.last = r, !.status = "PENDING", !.out = Nil,
                                 !.asks = FALSE]
  BY <1>0, <1>1
<1>8. task'[t].head = task[t].head
  BY <1>0, <1>7 DEF TaskRow
<1>9. \A u \in Tasks \ {t} : task'[u] = task[u]
  BY <1>0, <1>1
<1> QED
  BY <1>5, <1>6, <1>8, <1>9 DEF TableFrame

\* A transition moves a status; the base stays.
LEMMA TransitionFrame ==
  ASSUME StoreInv, NEW r \in Runs, NEW to \in Status, NEW u \in Update,
         TransitionTaskRun(r, run[r].status, to, u)
  PROVE  TableFrame
<1>0. run \in [Runs -> RunRow] /\ task \in [Tasks -> TaskRow] /\ run[r] \in RunRow
  BY DEF StoreInv, StoreTypeOK
<1>1. Move(r, UpdatedRun(run[r], to, u))
  BY TransitionMoves
<1>t. PICK t \in Tasks : t = run[r].task
  BY <1>1 DEF Move, StoreInv, RowsKnown, Active
<1>w. PICK row : row = UpdatedRun(run[r], to, u)
  OBVIOUS
<1> DEFINE class == Keep(FailureClassFor(to, u.class), run[r].class)
           reason == Keep(u.reason, run[r].reason)
           out == Keep(u.out, run[r].out)
           started == run[r].started \/ u.started
           asks == run[r].asks \/ u.asks
<1>2. row = [run[r] EXCEPT !.status = to, !.started = started, !.reason = reason,
                           !.class = class, !.out = out, !.asks = asks]
  BY <1>w DEF UpdatedRun
<1> HIDE DEF class, reason, out, started, asks
<1>3. row.base = run[r].base /\ row.task = t /\ row.status = to
  BY <1>0, <1>2, <1>t DEF RunRow
<1>4. /\ run' = [run EXCEPT ![r] = row]
      /\ task' = [task EXCEPT ![t].last = r, ![t].status = row.status,
                              ![t].out = row.out, ![t].asks = row.asks]
  BY <1>1, <1>w, <1>3 DEF Move
<1>5. SameRow(r)
  BY <1>0, <1>1, <1>t, <1>3, <1>4 DEF SameRow, Move, Active, Status, Terminal
<1>6. \A q \in Runs \ {r} : SameRow(q)
  BY <1>0, <1>4 DEF SameRow
<1>7. task'[t] = [task[t] EXCEPT !.last = r, !.status = row.status,
                                 !.out = row.out, !.asks = row.asks]
  BY <1>0, <1>4
<1>8. task'[t].head = task[t].head
  BY <1>0, <1>7 DEF TaskRow
<1>9. \A v \in Tasks \ {t} : task'[v] = task[v]
  BY <1>0, <1>4
<1> QED
  BY <1>5, <1>6, <1>8, <1>9 DEF TableFrame

\* So does every transaction of the store.
LEMMA StoreFrame ==
  ASSUME StoreInv, [StoreNext]_storeVars
  PROVE  StoreInv' /\ TableFrame
<1>0. run \in [Runs -> RunRow]
  BY DEF StoreInv, StoreTypeOK
<1>1. ASSUME NEW r \in Runs, NEW c \in Reasons, RequestTaskRunCancel(r, c)
      PROVE  TableFrame
  <2>1. task' = task /\ run' = [run EXCEPT ![r] = [run[r] EXCEPT !.cancel = TRUE, !.reason = c]]
    BY <1>0, <1>1 DEF RequestTaskRunCancel, RunRow
  <2>2. run'[r].task = run[r].task /\ run'[r].base = run[r].base
        /\ run'[r].status = run[r].status
    BY <1>0, <2>1 DEF RunRow
  <2>3. \A q \in Runs \ {r} : run'[q] = run[q]
    BY <1>0, <2>1
  <2> QED
    BY <2>1, <2>2, <2>3 DEF TableFrame, SameRow
<1>2. ASSUME UNCHANGED storeVars PROVE TableFrame
  BY <1>2 DEF storeVars, TableFrame, SameRow
<1>3. ASSUME NEW r \in Runs, NEW to \in Status, NEW u \in Sent(run[r].status, to),
             TransitionTaskRun(r, run[r].status, to, u)
      PROVE  TableFrame
  BY <1>3, TransitionFrame DEF Sent
<1>c. ASSUME NEW s \in Schedules, CountNext(s) PROVE TableFrame
  <2>1. run' = run /\ task' = task
    BY <1>c, CountWrites DEF StoreInv
  <2> QED
    BY <2>1 DEF TableFrame, SameRow
<1>4. TableFrame
  BY <1>1, <1>2, <1>3, <1>c, CreateTaskFrame, CreateTaskRunFrame DEF StoreNext, RunNext
<1> QED
  BY <1>4, NextPreserves

\* Pointers stay usable: no row loses its task, no checkpoint its payload.
LEMMA FrameKeepsPointers ==
  ASSUME PointerInv, TableFrame, ckpt' = ckpt
  PROVE  PointerInv'
<1>1. ASSUME NEW c, NEW t, Usable(c, t)
      PROVE  Usable(c, t)'
  <2>1. PICK r \in Runs, k \in Kinds : c = <<r, k>>
    BY <1>1 DEF Usable, Ckpts
  <2>2. run[r].status # "NONE"
    BY <1>1, <2>1 DEF Usable, PointerInv
  <2>3. SameRow(r)
    BY <2>2 DEF TableFrame, FreshRow
  <2> QED
    BY <1>1, <2>1, <2>3 DEF Usable, SameRow
<1>2. ASSUME NEW t \in Tasks, task'[t].head # Nil
      PROVE  Usable(task[t].head, t)'
  <2>1. PICK c : c = task[t].head /\ c = task'[t].head
    BY DEF TableFrame
  <2>2. Usable(c, t)'
    BY <1>1, <1>2, <2>1 DEF PointerInv
  <2> QED
    BY <2>1, <2>2 DEF Usable
<1>3. ASSUME NEW r \in Runs, run'[r].base # Nil
      PROVE  Usable(run[r].base, run[r].task)'
  <2>1. PICK c, t : c = run'[r].base /\ t = run'[r].task
    OBVIOUS
  <2>2. Usable(c, t)
    <3>1. CASE SameRow(r)
      BY <1>3, <2>1, <3>1 DEF SameRow, PointerInv
    <3>2. CASE FreshRow(r)
      <4>1. /\ t \in Tasks
            /\ \/ c = task[t].head
               \/ \E q \in Runs : run[q].task = t /\ c = run[q].base
        BY <1>3, <2>1, <3>2 DEF FreshRow
      <4> QED
        BY <1>3, <2>1, <4>1 DEF PointerInv
    <3> QED
      BY <3>1, <3>2 DEF TableFrame
  <2>3. Usable(c, t)'
    BY <1>1, <2>2
  <2> QED
    BY <2>1, <2>3 DEF Usable
<1>4. \A r \in Runs : run'[r].status = "NONE" => run'[r].base = Nil
  BY DEF PointerInv, TableFrame, SameRow, FreshRow
<1>5. \A r \in Runs, k \in Kinds : ckpt'[<<r, k>>] # Nil =>
        run'[r].status # "NONE" /\ ckpt'[<<r, k>>] = Content[<<r, k>>]
  BY DEF PointerInv, TableFrame, SameRow, FreshRow
<1> QED
  BY <1>2, <1>3, <1>4, <1>5 DEF PointerInv

\* And what a worker knows stays true.
LEMMA FrameKeepsKnowledge ==
  ASSUME PointerInv, TableFrame, ckpt' = ckpt, NEW r \in Runs, NEW w, Knows(r, w)
  PROVE  Knows(r, w)'
<1>1. CASE SameRow(r)
  BY <1>1 DEF SameRow, Knows
<1>2. CASE FreshRow(r)
  <2>1. w.pc = "none" /\ run'[r].status # "NONE"
    BY <1>2 DEF Knows, FreshRow
  <2> QED
    BY <2>1 DEF Knows, Seeding, Ending
<1> QED
  BY <1>1, <1>2 DEF TableFrame

-----------------------------------------------------------------------------
(* A finalize transaction *)

\* It records an archive, makes a seed the base of its run and may advance the
\* head; no other row changes.
FinalizeFrame(r, k) ==
  /\ ckpt[<<r, k>>] = Nil
  /\ ckpt' = [ckpt EXCEPT ![<<r, k>>] = Content[<<r, k>>]]
  /\ \A q \in Runs : /\ run'[q].task = run[q].task /\ run'[q].status = run[q].status
                     /\ run'[q].base = IF q = r /\ k = "seed" THEN <<r, k>> ELSE run[q].base
  /\ \A t \in Tasks :
       \/ task'[t].head = task[t].head
       \/ /\ task'[t].head = <<r, k>> /\ t = run[r].task
          /\ \/ k = "seed" /\ task[t].head = Nil
             \/ k = "successful" /\ task[t].head = run[r].base

\* The transaction is that, or answers with the row it finds; and the task store
\* stays consistent.
LEMMA FinalizeTables ==
  ASSUME StoreInv, ckpt \in [Ckpts -> OrNil(Payloads)],
         NEW r \in Runs, NEW k \in Kinds, run[r].status # "NONE",
         FinalizeWorkspaceCheckpoint(r, k, Content[<<r, k>>])
  PROVE  /\ StoreInv'
         /\ \/ UNCHANGED <<storeVars, ckpt>>
            \/ FinalizeFrame(r, k)
<1>0. run \in [Runs -> RunRow] /\ task \in [Tasks -> TaskRow] /\ run[r] \in RunRow
      /\ <<r, k>> \in Ckpts
  BY DEF StoreInv, StoreTypeOK, Ckpts
<1>1. CASE ckpt[<<r, k>>] # Nil
  <2>1. UNCHANGED <<storeVars, ckpt>>
    BY <1>1 DEF FinalizeWorkspaceCheckpoint
  <2> QED
    BY <2>1, NextPreserves
<1>2. CASE ckpt[<<r, k>>] = Nil
  <2>1. /\ ckpt' = [ckpt EXCEPT ![<<r, k>>] = Content[<<r, k>>]]
        /\ LinkRunCheckpoint(r, k) /\ AdvanceTaskHead(r, k) /\ failures' = failures
    BY <1>2 DEF FinalizeWorkspaceCheckpoint
  <2>t. PICK t \in Tasks : t = run[r].task
    BY DEF StoreInv, RowsKnown
  <2>c. PICK c \in Ckpts : c = <<r, k>>
    BY <1>0
  <2>2. /\ run' \in [Runs -> RunRow]
        /\ \A q \in Runs : \E b \in OrNil(Ckpts) :
             /\ run'[q] = [run[q] EXCEPT !.base = b]
             /\ b = IF q = r /\ k = "seed" THEN c ELSE run[q].base
    <3>1. CASE k = "seed"
      <4>1. run' = [run EXCEPT ![r] = [run[r] EXCEPT !.base = c]]
        BY <1>0, <2>1, <2>c, <3>1 DEF LinkRunCheckpoint, RunRow
      <4>2. [run[r] EXCEPT !.base = c] \in RunRow
        BY <1>0 DEF RunRow, OrNil
      <4>3. \A q \in Runs : [run[q] EXCEPT !.base = run[q].base] = run[q]
                            /\ run[q].base \in OrNil(Ckpts)
        BY <1>0 DEF RunRow
      <4>4. c \in OrNil(Ckpts)
        BY DEF OrNil
      <4> QED
        BY <1>0, <3>1, <4>1, <4>2, <4>3, <4>4
    <3>2. CASE k # "seed"
      <4>1. run' = run
        BY <2>1, <3>2 DEF LinkRunCheckpoint
      <4>2. \A q \in Runs : [run[q] EXCEPT !.base = run[q].base] = run[q]
                            /\ run[q].base \in OrNil(Ckpts)
        BY <1>0 DEF RunRow
      <4> QED
        BY <1>0, <3>2, <4>1, <4>2
    <3> QED
      BY <3>1, <3>2
  <2>3. /\ task' \in [Tasks -> TaskRow]
        /\ \A v \in Tasks : \E h \in OrNil(Ckpts) :
             /\ task'[v] = [task[v] EXCEPT !.head = h]
             /\ \/ h = task[v].head
                \/ /\ h = c /\ v = t
                   /\ \/ k = "seed" /\ task[v].head = Nil
                      \/ k = "successful" /\ task[v].head = run[r].base
    <3>0. \A v \in Tasks : [task[v] EXCEPT !.head = task[v].head] = task[v]
                           /\ task[v].head \in OrNil(Ckpts)
      BY <1>0 DEF TaskRow
    <3>1. CASE \/ k = "seed" /\ task[t].head = Nil
               \/ k = "successful" /\ task[t].head = run[r].base
      <4>1. task' = [task EXCEPT ![t] = [task[t] EXCEPT !.head = c]]
        BY <1>0, <2>1, <2>t, <2>c, <3>1 DEF AdvanceTaskHead, TaskRow
      <4>2. [task[t] EXCEPT !.head = c] \in TaskRow /\ c \in OrNil(Ckpts)
        BY <1>0 DEF TaskRow, OrNil
      <4> QED
        BY <1>0, <3>0, <3>1, <4>1, <4>2
    <3>2. CASE ~ (\/ k = "seed" /\ task[t].head = Nil
                  \/ k = "successful" /\ task[t].head = run[r].base)
      <4>1. task' = task
        BY <2>1, <2>t, <3>2 DEF AdvanceTaskHead
      <4> QED
        BY <1>0, <3>0, <4>1
    <3> QED
      BY <3>1, <3>2
  <2>4. \A q \in Runs :
          /\ run'[q].task = run[q].task /\ run'[q].status = run[q].status
          /\ run'[q].prev = run[q].prev /\ run'[q].retryOf = run[q].retryOf
          /\ run'[q].out = run[q].out /\ run'[q].asks = run[q].asks
          /\ run'[q].base = IF q = r /\ k = "seed" THEN c ELSE run[q].base
    <3> SUFFICES ASSUME NEW q \in Runs
                 PROVE  /\ run'[q].task = run[q].task /\ run'[q].status = run[q].status
                        /\ run'[q].prev = run[q].prev /\ run'[q].retryOf = run[q].retryOf
                        /\ run'[q].out = run[q].out /\ run'[q].asks = run[q].asks
                        /\ run'[q].base = IF q = r /\ k = "seed" THEN c ELSE run[q].base
      OBVIOUS
    <3>1. PICK b \in OrNil(Ckpts) :
            /\ run'[q] = [run[q] EXCEPT !.base = b]
            /\ b = IF q = r /\ k = "seed" THEN c ELSE run[q].base
      BY <2>2
    <3>2. run[q] \in RunRow
      BY <1>0
    <3> QED
      BY <3>1, <3>2 DEF RunRow
  <2>5. \A v \in Tasks :
          /\ task'[v].last = task[v].last /\ task'[v].status = task[v].status
          /\ task'[v].out = task[v].out /\ task'[v].asks = task[v].asks
          /\ \/ task'[v].head = task[v].head
             \/ /\ task'[v].head = c /\ v = t
                /\ \/ k = "seed" /\ task[v].head = Nil
                   \/ k = "successful" /\ task[v].head = run[r].base
    <3> SUFFICES ASSUME NEW v \in Tasks
                 PROVE  /\ task'[v].last = task[v].last /\ task'[v].status = task[v].status
                        /\ task'[v].out = task[v].out /\ task'[v].asks = task[v].asks
                        /\ \/ task'[v].head = task[v].head
                           \/ /\ task'[v].head = c /\ v = t
                              /\ \/ k = "seed" /\ task[v].head = Nil
                                 \/ k = "successful" /\ task[v].head = run[r].base
      OBVIOUS
    <3>1. PICK h \in OrNil(Ckpts) :
            /\ task'[v] = [task[v] EXCEPT !.head = h]
            /\ \/ h = task[v].head
               \/ /\ h = c /\ v = t
                  /\ \/ k = "seed" /\ task[v].head = Nil
                     \/ k = "successful" /\ task[v].head = run[r].base
      BY <2>3
    <3>2. task[v] \in TaskRow
      BY <1>0
    <3> QED
      BY <3>1, <3>2 DEF TaskRow
  <2>6. \A v : RunsOf(v)' = RunsOf(v)
    BY <2>4 DEF RunsOf
  <2>7. task[t].last # Nil
    BY <2>t DEF StoreInv, TaskMirrorsLastRun, RunsOf
  <2>8. StoreTypeOK'
    BY <2>1, <2>2, <2>3 DEF StoreInv, StoreTypeOK
  <2>9. RowsKnown' /\ RowsInOrder'
    BY <2>4 DEF StoreInv, RowsKnown, RowsInOrder
  <2>10. NoTaskYet'
    <3> SUFFICES ASSUME NEW v \in Tasks, task'[v].last = Nil PROVE task'[v] = NoTask
      BY DEF NoTaskYet
    <3>1. task[v].last = Nil /\ v # t
      BY <2>5, <2>7
    <3>2. PICK h \in OrNil(Ckpts) : task'[v] = [task[v] EXCEPT !.head = h] /\ h = task[v].head
      BY <2>3, <3>1
    <3>3. task[v] = NoTask /\ task[v] \in TaskRow
      BY <1>0, <3>1 DEF StoreInv, NoTaskYet
    <3> QED
      BY <3>2, <3>3 DEF TaskRow
  <2>11. ActiveIsLast'
    BY <2>4, <2>5 DEF StoreInv, ActiveIsLast, RowsKnown, Active
  <2>12. TaskMirrorsLastRun'
    <3> SUFFICES ASSUME NEW v \in Tasks
                 PROVE  LET l == task'[v].last
                        IN  IF l = Nil THEN RunsOf(v)' = {}
                            ELSE /\ l \in RunsOf(v)'
                                 /\ \A q \in RunsOf(v)' : q <= l
                                 /\ task'[v].status = run'[l].status
                                 /\ task'[v].out = run'[l].out
                                 /\ task'[v].asks = run'[l].asks
      BY DEF TaskMirrorsLastRun
    <3>1. LET l == task[v].last
          IN  IF l = Nil THEN RunsOf(v) = {}
              ELSE /\ l \in RunsOf(v)
                   /\ \A q \in RunsOf(v) : q <= l
                   /\ task[v].status = run[l].status
                   /\ task[v].out = run[l].out
                   /\ task[v].asks = run[l].asks
      BY DEF StoreInv, TaskMirrorsLastRun
    <3>2. task[v].last # Nil => task[v].last \in Runs
      BY <3>1 DEF RunsOf
    <3> QED
      BY <2>4, <2>5, <2>6, <3>1, <3>2
  <2>13. LinearHistory'
    BY <2>4, <2>6 DEF StoreInv, LinearHistory
  <2>14. StoreInv'
    BY <2>8, <2>9, <2>10, <2>11, <2>12, <2>13 DEF StoreInv
  <2>15. FinalizeFrame(r, k)
    BY <1>2, <2>1, <2>t, <2>c, <2>4, <2>5 DEF FinalizeFrame
  <2> QED
    BY <2>14, <2>15
<1> QED
  BY <1>1, <1>2

\* Usable pointers stay usable, and the new one is.
LEMMA FinalizeKeepsPointers ==
  ASSUME PointerInv, ckpt \in [Ckpts -> OrNil(Payloads)], NEW r \in Runs, NEW k \in Kinds,
         run[r].status # "NONE", k = "seed" => run[r].base = Nil, FinalizeFrame(r, k)
  PROVE  PointerInv'
<1>0. <<r, k>> \in Ckpts /\ Content[<<r, k>>] \in Payloads /\ Content[<<r, k>>] # Nil
  BY ContentAssumption DEF Ckpts
<1>1. /\ ckpt'[<<r, k>>] = Content[<<r, k>>] /\ ckpt'[<<r, k>>] # Nil
      /\ \A c \in Ckpts : ckpt[c] # Nil => ckpt'[c] = ckpt[c]
      /\ \A c \in Ckpts : c # <<r, k>> => ckpt'[c] = ckpt[c]
  BY <1>0 DEF FinalizeFrame
<1>2. \A q \in Runs : run'[q].task = run[q].task /\ run'[q].status = run[q].status
  BY DEF FinalizeFrame
<1>3. ASSUME NEW c, NEW t, Usable(c, t)
      PROVE  Usable(c, t)'
  BY <1>1, <1>2, <1>3 DEF Usable, Ckpts
<1>4. ASSUME k # "partial"
      PROVE  Usable(<<r, k>>, run[r].task)'
  BY <1>0, <1>1, <1>2, <1>4 DEF Usable
<1>5. ASSUME NEW t \in Tasks, task'[t].head # Nil
      PROVE  Usable(task[t].head, t)'
  <2>1. PICK c : c = task'[t].head
    OBVIOUS
  <2>2. CASE c = task[t].head
    <3>1. Usable(c, t)'
      BY <1>3, <1>5, <2>1, <2>2 DEF PointerInv
    <3> QED
      BY <2>1, <3>1 DEF Usable
  <2>3. CASE c = <<r, k>> /\ t = run[r].task /\ k # "partial"
    <3>1. Usable(<<r, k>>, run[r].task)'
      BY <1>4, <2>3
    <3> QED
      BY <1>2, <2>1, <2>3, <3>1 DEF Usable
  <2> QED
    BY <2>1, <2>2, <2>3 DEF FinalizeFrame
<1>6. ASSUME NEW q \in Runs, run'[q].base # Nil
      PROVE  Usable(run[q].base, run[q].task)'
  <2>1. PICK c, t : c = run'[q].base /\ t = run[q].task
    OBVIOUS
  <2>2. CASE q = r /\ k = "seed"
    <3>1. Usable(<<r, k>>, run[r].task)' /\ run'[q].base = <<r, k>>
      BY <1>4, <2>2 DEF FinalizeFrame
    <3> QED
      BY <2>2, <3>1 DEF Usable
  <2>3. CASE ~(q = r /\ k = "seed")
    <3>1. c = run[q].base
      BY <2>1, <2>3 DEF FinalizeFrame
    <3>2. Usable(c, t)'
      BY <1>3, <1>6, <2>1, <3>1 DEF PointerInv
    <3> QED
      BY <1>2, <2>1, <3>2 DEF Usable
  <2> QED
    BY <2>2, <2>3
<1>7. \A q \in Runs : run'[q].status = "NONE" => run'[q].base = Nil
  BY <1>2 DEF PointerInv, FinalizeFrame
<1>8. \A q \in Runs, j \in Kinds : ckpt'[<<q, j>>] # Nil =>
        run'[q].status # "NONE" /\ ckpt'[<<q, j>>] = Content[<<q, j>>]
  <2> SUFFICES ASSUME NEW q \in Runs, NEW j \in Kinds, ckpt'[<<q, j>>] # Nil
               PROVE  run'[q].status # "NONE" /\ ckpt'[<<q, j>>] = Content[<<q, j>>]
    OBVIOUS
  <2>1. CASE <<q, j>> = <<r, k>>
    BY <1>1, <1>2, <2>1
  <2>2. CASE <<q, j>> # <<r, k>>
    BY <1>1, <1>2, <2>2 DEF PointerInv, Ckpts
  <2> QED
    BY <2>1, <2>2
<1> QED
  BY <1>5, <1>6, <1>7, <1>8 DEF PointerInv

\* Another run's worker is not concerned.
LEMMA FinalizeKeepsKnowledge ==
  ASSUME PointerInv, ckpt \in [Ckpts -> OrNil(Payloads)], NEW r \in Runs, NEW k \in Kinds,
         FinalizeFrame(r, k), NEW q \in Runs, q # r, NEW w, Knows(q, w)
  PROVE  Knows(q, w)'
<1>0. <<r, k>> \in Ckpts /\ <<q, "seed">> \in Ckpts /\ <<q, "seed">> # <<r, k>>
  BY DEF Ckpts, Kinds
<1>1. \A c \in Ckpts : ckpt[c] # Nil \/ c # <<r, k>> => ckpt'[c] = ckpt[c]
  BY <1>0 DEF FinalizeFrame
<1>2. run'[q].status = run[q].status /\ run'[q].base = run[q].base
  BY DEF FinalizeFrame
<1>3. run[q].base # Nil => run[q].base \in Ckpts /\ ckpt[run[q].base] # Nil
  BY DEF PointerInv, Usable
<1> QED
  BY <1>0, <1>1, <1>2, <1>3 DEF Knows

-----------------------------------------------------------------------------
(* The rows invariant, action by action *)

\* One worker changes and the tables as a store transaction may.
LEMMA TransactionStep ==
  ASSUME CheckpointInv, [StoreNext]_storeVars, ckpt' = ckpt, NEW r \in Runs,
         NEW w \in WorkerState, worker' = [worker EXCEPT ![r] = w], Knows(r, w)',
         blob' \in [Payloads -> {"absent", "young", "old"}], sweeper' \in SweeperState
  PROVE  CheckpointInv'
<1>0. /\ StoreInv /\ TypeOK /\ sweeper \in SweeperState /\ PointerInv
      /\ \A q \in Runs : Knows(q, worker[q])
  BY DEF CheckpointInv
<1>1. StoreInv' /\ TableFrame
  BY <1>0, StoreFrame
<1>2. PointerInv'
  BY <1>0, <1>1, FrameKeepsPointers
<1>3. worker \in [Runs -> WorkerState]
  BY <1>0 DEF TypeOK, WorkerState
<1>4. ASSUME NEW q \in Runs
      PROVE  Knows(q, worker[q])'
  <2>1. CASE q = r
    <3>1. worker'[q] = w
      BY <1>3, <2>1
    <3> QED
      BY <2>1, <3>1 DEF Knows
  <2>2. CASE q # r
    <3>1. PICK v : v = worker[q] /\ v = worker'[q]
      BY <1>3, <2>2
    <3>2. Knows(q, v)'
      BY <1>0, <1>1, <3>1, FrameKeepsKnowledge
    <3> QED
      BY <3>1, <3>2 DEF Knows
  <2> QED
    BY <2>1, <2>2
<1>5. worker' \in [Runs -> WorkerState]
  BY <1>3
<1>u. \A q \in Runs : worker'[q].pc \in {"check", "commit"} => worker'[q].up # Nil
  BY <1>4 DEF Knows
<1>6. TypeOK'
  BY <1>0, <1>1, <1>5, <1>u DEF TypeOK, StoreInv, WorkerState, SweeperState
<1> QED
  BY <1>1, <1>2, <1>4, <1>6 DEF CheckpointInv

\* No worker changes.
LEMMA ServerStep ==
  ASSUME CheckpointInv, [StoreNext]_storeVars, ckpt' = ckpt, worker' = worker,
         blob' \in [Payloads -> {"absent", "young", "old"}], sweeper' \in SweeperState
  PROVE  CheckpointInv'
<1>0. /\ StoreInv /\ TypeOK /\ sweeper \in SweeperState /\ PointerInv
      /\ \A q \in Runs : Knows(q, worker[q])
  BY DEF CheckpointInv
<1>1. StoreInv' /\ TableFrame
  BY <1>0, StoreFrame
<1>2. PointerInv'
  BY <1>0, <1>1, FrameKeepsPointers
<1>3. ASSUME NEW q \in Runs
      PROVE  Knows(q, worker[q])'
  <2>1. PICK v : v = worker[q] /\ v = worker'[q]
    OBVIOUS
  <2>2. Knows(q, v)'
    BY <1>0, <1>1, <2>1, FrameKeepsKnowledge
  <2> QED
    BY <2>1, <2>2 DEF Knows
<1>4. TypeOK'
  BY <1>0, <1>1 DEF TypeOK, StoreInv, SweeperState
<1> QED
  BY <1>1, <1>2, <1>3, <1>4 DEF CheckpointInv

\* A worker's finalize call.
LEMMA FinalizeStep ==
  ASSUME CheckpointInv, NEW r \in Runs, NEW k \in Kinds, run[r].status # "NONE",
         k = "seed" => run[r].base = Nil, FinalizeFrame(r, k), StoreInv',
         NEW w \in WorkerState, worker' = [worker EXCEPT ![r] = w], Knows(r, w)',
         blob' = blob, sweeper' = sweeper
  PROVE  CheckpointInv'
<1>0. /\ StoreInv /\ TypeOK /\ sweeper \in SweeperState /\ PointerInv
      /\ \A q \in Runs : Knows(q, worker[q])
  BY DEF CheckpointInv
<1>c. ckpt \in [Ckpts -> OrNil(Payloads)]
  BY <1>0 DEF TypeOK
<1>2. PointerInv'
  BY <1>0, <1>c, FinalizeKeepsPointers
<1>3. worker \in [Runs -> WorkerState]
  BY <1>0 DEF TypeOK, WorkerState
<1>4. ASSUME NEW q \in Runs
      PROVE  Knows(q, worker[q])'
  <2>1. CASE q = r
    <3>1. worker'[q] = w
      BY <1>3, <2>1
    <3> QED
      BY <2>1, <3>1 DEF Knows
  <2>2. CASE q # r
    <3>1. PICK v : v = worker[q] /\ v = worker'[q]
      BY <1>3, <2>2
    <3>2. Knows(q, v)'
      BY <1>0, <1>c, <2>2, <3>1, FinalizeKeepsKnowledge
    <3> QED
      BY <3>1, <3>2 DEF Knows
  <2> QED
    BY <2>1, <2>2
<1>5. worker' \in [Runs -> WorkerState]
  BY <1>3
<1>6. ckpt' \in [Ckpts -> OrNil(Payloads)]
  BY <1>c, ContentAssumption DEF FinalizeFrame, Ckpts, OrNil
<1>u. \A q \in Runs : worker'[q].pc \in {"check", "commit"} => worker'[q].up # Nil
  BY <1>4 DEF Knows
<1>7. TypeOK'
  BY <1>0, <1>5, <1>6, <1>u DEF TypeOK, StoreInv, WorkerState
<1> QED
  BY <1>0, <1>2, <1>4, <1>7 DEF CheckpointInv

\* A worker moves and the tables do not.
LEMMA WorkerOnly ==
  ASSUME CheckpointInv, UNCHANGED <<storeVars, ckpt, sweeper>>, NEW r \in Runs,
         NEW w \in WorkerState, worker' = [worker EXCEPT ![r] = w], Knows(r, w),
         blob' \in [Payloads -> {"absent", "young", "old"}]
  PROVE  CheckpointInv'
<1>1. Knows(r, w)'
  BY DEF Knows, storeVars
<1>2. sweeper' \in SweeperState
  BY DEF CheckpointInv
<1> QED
  BY <1>1, <1>2, TransactionStep

\* What is known of run r and its worker, in one place.
LEMMA WorkerFacts ==
  ASSUME CheckpointInv, NEW r \in Runs
  PROVE  /\ worker \in [Runs -> WorkerState] /\ worker[r] \in WorkerState
         /\ Knows(r, worker[r])
         /\ blob \in [Payloads -> {"absent", "young", "old"}]
         /\ sweeper \in SweeperState /\ run[r] \in RunRow
         /\ ckpt \in [Ckpts -> OrNil(Payloads)]
BY DEF CheckpointInv, TypeOK, WorkerState, StoreInv, StoreTypeOK

\* A step of one field of a worker.
LEMMA GotoFits ==
  ASSUME CheckpointInv, NEW r \in Runs,
         NEW pc \in {"resolve", "seed", "seedcheck", "seedcommit", "check", "commit", "gone"},
         Goto(r, pc)
  PROVE  \E w \in WorkerState :
           /\ worker' = [worker EXCEPT ![r] = w]
           /\ w.pc = pc /\ w.up = worker[r].up /\ w.to = worker[r].to
<1>w. PICK w : w = [worker[r] EXCEPT !.pc = pc]
  OBVIOUS
<1>1. w \in WorkerState /\ w.pc = pc /\ w.up = worker[r].up /\ w.to = worker[r].to
  BY <1>w, WorkerFacts DEF WorkerState
<1>2. worker' = [worker EXCEPT ![r] = w]
  BY <1>w, WorkerFacts DEF Goto
<1> QED
  BY <1>1, <1>2

\* The agent is given its tree.
LEMMA ExecuteFits ==
  ASSUME CheckpointInv, NEW r \in Runs, NEW tree \in OrNil(Payloads), Execute(r, tree)
  PROVE  \E w \in WorkerState :
           /\ worker' = [worker EXCEPT ![r] = w]
           /\ w.pc = "running" /\ w.tree = tree /\ w.up = worker[r].up
<1>w. PICK w : w = [worker[r] EXCEPT !.pc = "running", !.tree = tree]
  OBVIOUS
<1>1. w \in WorkerState /\ w.pc = "running" /\ w.tree = tree /\ w.up = worker[r].up
  BY <1>w, WorkerFacts DEF WorkerState, OrNil
<1>2. worker' = [worker EXCEPT ![r] = w]
  BY <1>w, WorkerFacts DEF Execute
<1> QED
  BY <1>1, <1>2

\* A run that could not start reports FAILED, with nothing to commit.
LEMMA RefuseFits ==
  ASSUME CheckpointInv, NEW r \in Runs, Refuse(r)
  PROVE  \E w \in WorkerState :
           /\ worker' = [worker EXCEPT ![r] = w]
           /\ w.pc = "report" /\ w.to = "FAILED" /\ w.up = worker[r].up
<1>w. PICK w : w = [worker[r] EXCEPT !.pc = "report", !.to = "FAILED"]
  OBVIOUS
<1>1. w \in WorkerState /\ w.pc = "report" /\ w.to = "FAILED" /\ w.up = worker[r].up
  BY <1>w, WorkerFacts DEF WorkerState, OrNil, Terminal
<1>2. worker' = [worker EXCEPT ![r] = w]
  BY <1>w, WorkerFacts DEF Refuse
<1> QED
  BY <1>1, <1>2

\* Transitions as their callers make them are transactions of the store.
LEMMA CallsAreTransactions ==
  /\ NoUpdate \in Sent("PENDING", "SCHEDULED")
  /\ [NoUpdate EXCEPT !.started = TRUE] \in Sent("SCHEDULED", "RUNNING")
  /\ \A from \in {"SCHEDULED", "RUNNING"} :
       [NoUpdate EXCEPT !.out = "reaper", !.class = "abandoned"] \in Sent(from, "FAILED")
  /\ \A to \in Terminal : ReportUpdate(to) \in Sent("RUNNING", to)
<1>0. /\ NoUpdate \in Update
      /\ {"run", "abandoned"} \subseteq Classes /\ {"worker", "reaper"} \subseteq Outcomes
      /\ "worker" # Nil /\ "reaper" # Nil
  BY ContentAssumption, StoreAssumption DEF NoUpdate, Update, OrNil
<1>1. ASSUME NEW u \in Update, NEW from, NEW to,
             u.reason = Nil, u.asks = FALSE, u.class # Nil => to = "FAILED",
             u.started = (to = "RUNNING"), (u.out # Nil) = (to \in Terminal)
      PROVE  u \in Sent(from, to)
  <2>1. u.asks => to = "SUCCEEDED"
    BY <1>1
  <2> QED
    BY <1>1, <2>1 DEF Sent
<1>2. NoUpdate \in Sent("PENDING", "SCHEDULED")
  <2>u. PICK u \in Update : u = NoUpdate
    BY <1>0
  <2>1. u.reason = Nil /\ u.asks = FALSE /\ u.class = Nil /\ u.out = Nil
    BY <2>u DEF NoUpdate
  <2>2. u.started = FALSE
    BY <2>u DEF NoUpdate
  <2>3. u.started = ("SCHEDULED" = "RUNNING")
    BY <2>2
  <2>4. (u.out # Nil) = ("SCHEDULED" \in Terminal)
    BY <2>1 DEF Terminal
  <2> QED
    BY <1>1, <2>u, <2>1, <2>3, <2>4
<1>3. [NoUpdate EXCEPT !.started = TRUE] \in Sent("SCHEDULED", "RUNNING")
  <2>u. PICK u : u = [NoUpdate EXCEPT !.started = TRUE]
    OBVIOUS
  <2>1. u \in Update /\ u.reason = Nil /\ u.asks = FALSE /\ u.class = Nil /\ u.out = Nil
    BY <1>0, <2>u DEF NoUpdate, Update
  <2>2. u.started = TRUE
    BY <2>u DEF NoUpdate
  <2>3. u.started = ("RUNNING" = "RUNNING")
    BY <2>2
  <2>4. (u.out # Nil) = ("RUNNING" \in Terminal)
    BY <2>1 DEF Terminal
  <2> QED
    BY <1>1, <2>u, <2>1, <2>3, <2>4
<1>4. ASSUME NEW from \in {"SCHEDULED", "RUNNING"}
      PROVE  [NoUpdate EXCEPT !.out = "reaper", !.class = "abandoned"] \in Sent(from, "FAILED")
  <2>u. PICK u : u = [NoUpdate EXCEPT !.out = "reaper", !.class = "abandoned"]
    OBVIOUS
  <2>1. u \in Update
    BY <1>0, <2>u DEF Update, OrNil
  <2>2. u.reason = Nil /\ u.asks = FALSE /\ u.out = "reaper"
    BY <2>u DEF NoUpdate
  <2>3. u.started = FALSE
    BY <2>u DEF NoUpdate
  <2>4. u.started = ("FAILED" = "RUNNING")
    BY <2>3
  <2>5. (u.out # Nil) = ("FAILED" \in Terminal)
    BY <1>0, <2>2 DEF Terminal
  <2> QED
    BY <1>1, <2>u, <2>1, <2>2, <2>4, <2>5
<1>5. ASSUME NEW to \in Terminal
      PROVE  ReportUpdate(to) \in Sent("RUNNING", to)
  <2>c. PICK c \in OrNil(Classes) : c = IF to = "FAILED" THEN "run" ELSE Nil
    BY <1>0 DEF OrNil
  <2>u. PICK u : u = [NoUpdate EXCEPT !.out = "worker", !.class = c]
    OBVIOUS
  <2>1. u \in Update
    BY <1>0, <2>u DEF Update, OrNil
  <2>2. u.reason = Nil /\ u.asks = FALSE /\ u.out = "worker" /\ u.class = c
    BY <2>u DEF NoUpdate
  <2>3. u.started = FALSE
    BY <2>u DEF NoUpdate
  <2>r. to # "RUNNING"
    BY DEF Terminal
  <2>4. u.started = (to = "RUNNING")
    BY <2>3, <2>r
  <2>5. (u.out # Nil) = (to \in Terminal)
    BY <1>0, <2>2
  <2>6. u.class # Nil => to = "FAILED"
    BY <2>2, <2>c
  <2>7. u \in Sent("RUNNING", to)
    BY <1>1, <2>1, <2>2, <2>4, <2>5, <2>6
  <2> QED
    BY <2>c, <2>u, <2>7 DEF ReportUpdate
<1> QED
  BY <1>2, <1>3, <1>4, <1>5

\* So a transition is a step of the store.
LEMMA TransitionIsStore ==
  ASSUME NEW r \in Runs, NEW from, NEW to \in Status, NEW u \in Sent(from, to),
         TransitionTaskRun(r, from, to, u)
  PROVE  [StoreNext]_storeVars
<1>1. run[r].status = from /\ ValidRunStatusTransition(from, to)
  BY DEF TransitionTaskRun
<1>2. TransitionTaskRun(r, run[r].status, to, u) /\ u \in Sent(run[r].status, to)
  BY <1>1
<1> QED
  BY <1>1, <1>2 DEF StoreNext, RunNext

\* The actions that make runs and move them.
LEMMA LifeKeeps ==
  ASSUME CheckpointInv, Submit \/ \E r \in Runs : Dispatch(r) \/ Reap(r)
  PROVE  CheckpointInv'
<1>0. /\ StoreInv /\ blob \in [Payloads -> {"absent", "young", "old"}]
      /\ sweeper \in SweeperState
  BY DEF CheckpointInv, TypeOK
<1>1. UNCHANGED <<ckpt, blob, worker, sweeper>>
  BY DEF Submit, Dispatch, Reap
<1>2. [StoreNext]_storeVars
  <2>1. ASSUME NEW t \in Tasks, NEW q \in {Nil, task[t].last}, CreateTaskRun(t, Nil, q)
        PROVE  StoreNext
    <3>1. task[t].last # Nil
      BY <2>1 DEF CreateTaskRun
    <3>2. q \in OrNil(RunsOf(t))
      BY <1>0, <3>1 DEF StoreInv, TaskMirrorsLastRun, OrNil
    <3> QED
      BY <2>1, <3>2 DEF StoreNext, RunNext, OrNil
  <2>2. ASSUME NEW t \in Tasks, CreateTask(t, Nil)
        PROVE  StoreNext
    BY <2>2 DEF StoreNext, RunNext, OrNil
  <2>3. ASSUME NEW r \in Runs, Dispatch(r)
        PROVE  [StoreNext]_storeVars
    BY <2>3, CallsAreTransactions, TransitionIsStore DEF Dispatch, Status, Active
  <2>4. ASSUME NEW r \in Runs, Reap(r)
        PROVE  [StoreNext]_storeVars
    <3>1. PICK from \in {"SCHEDULED", "RUNNING"} : from = run[r].status
      BY <2>4 DEF Reap
    <3>u. PICK u : u = [NoUpdate EXCEPT !.out = "reaper", !.class = "abandoned"]
      OBVIOUS
    <3>2. u \in Sent(from, "FAILED") /\ TransitionTaskRun(r, from, "FAILED", u)
      BY <2>4, <3>1, <3>u, CallsAreTransactions DEF Reap
    <3> QED
      BY <3>2, TransitionIsStore DEF Status, Terminal
  <2> QED
    BY <2>1, <2>2, <2>3, <2>4 DEF Submit
<1> QED
  BY <1>0, <1>1, <1>2, ServerStep

\* The sweeper and the passing of the grace touch no row.
LEMMA SweepKeeps ==
  ASSUME CheckpointInv,
         \/ SweepRefs \/ SweepList \/ SweepDelete
         \/ \E p \in Payloads : GracePasses(p)
  PROVE  CheckpointInv'
<1>0. /\ StoreInv /\ blob \in [Payloads -> {"absent", "young", "old"}]
      /\ sweeper \in SweeperState /\ ckpt \in [Ckpts -> OrNil(Payloads)]
  BY DEF CheckpointInv, TypeOK
<1>1. UNCHANGED <<storeVars, ckpt, worker>>
  BY DEF SweepRefs, SweepList, SweepDelete, GracePasses
<1>i. IdleSweeper \in SweeperState
  BY DEF IdleSweeper, SweeperState
<1>2. sweeper' \in SweeperState /\ blob' \in [Payloads -> {"absent", "young", "old"}]
  <2>1. CASE SweepRefs
    <3>1. {ckpt[c] : c \in Ckpts} \ {Nil} \subseteq Payloads
      BY <1>0 DEF OrNil
    <3> QED
      BY <1>0, <2>1, <3>1 DEF SweepRefs, SweeperState
  <2>2. CASE SweepList
    BY <1>0, <1>i, <2>2 DEF SweepList, SweeperState
  <2>3. CASE SweepDelete
    <3>1. PICK p \in sweeper.todo :
            /\ blob' = [blob EXCEPT ![p] = "absent"] \/ UNCHANGED blob
            /\ sweeper' = IF sweeper.todo = {p} THEN IdleSweeper
                          ELSE [sweeper EXCEPT !.todo = sweeper.todo \ {p}]
      BY <2>3 DEF SweepDelete
    <3> QED
      BY <1>0, <1>i, <3>1 DEF SweeperState
  <2>4. ASSUME NEW p \in Payloads, GracePasses(p)
        PROVE  sweeper' \in SweeperState /\ blob' \in [Payloads -> {"absent", "young", "old"}]
    BY <1>0, <2>4 DEF GracePasses
  <2> QED
    BY <2>1, <2>2, <2>3, <2>4
<1> QED
  BY <1>1, <1>2, ServerStep

\* The claim: the worker has seeded nothing.
LEMMA ClaimKeeps ==
  ASSUME CheckpointInv, NEW r \in Runs, ClaimRun(r) PROVE CheckpointInv'
<1>u. PICK u : u = [NoUpdate EXCEPT !.started = TRUE]
  OBVIOUS
<1>1. u \in Sent("SCHEDULED", "RUNNING") /\ TransitionTaskRun(r, "SCHEDULED", "RUNNING", u)
  BY <1>u, CallsAreTransactions DEF ClaimRun
<1>2. [StoreNext]_storeVars
  BY <1>1, TransitionIsStore DEF Status, Active
<1>3. PICK w \in WorkerState :
        /\ worker' = [worker EXCEPT ![r] = w]
        /\ w.pc = "resolve" /\ w.up = worker[r].up /\ w.to = worker[r].to
  BY GotoFits DEF ClaimRun
<1>4. StoreInv /\ PointerInv /\ Knows(r, worker[r]) /\ worker[r].pc = "none"
  BY DEF CheckpointInv, ClaimRun
<1>5. TableFrame
  BY <1>2, <1>4, StoreFrame
<1>6. run'[r].status # "NONE" /\ ckpt[<<r, "seed">>] = Nil /\ w.up = Nil
  <2>1. run[r].status # "NONE"
    BY <1>1 DEF TransitionTaskRun
  <2> QED
    BY <1>3, <1>4, <1>5, <2>1 DEF TableFrame, SameRow, FreshRow, Knows, BeforeSeed, BeforeEnd
<1>7. UNCHANGED <<ckpt, blob, sweeper>>
  BY DEF ClaimRun
<1>8. Knows(r, w)'
  BY <1>3, <1>6, <1>7 DEF Knows, BeforeSeed, Seeding, Ending, BeforeEnd
<1> QED
  BY <1>2, <1>3, <1>7, <1>8, TransactionStep, WorkerFacts

\* The base is restored, or there is none and a seed is due; or the lookup
\* failed, or was answered as by a server without checkpoints.
LEMMA ResolveKeeps ==
  ASSUME CheckpointInv, NEW r \in Runs, ResolveBase(r) PROVE CheckpointInv'
<1>0. /\ worker[r].pc = "resolve" /\ UNCHANGED <<storeVars, ckpt, blob, sweeper>>
      /\ Knows(r, worker[r]) /\ PointerInv
      /\ blob' \in [Payloads -> {"absent", "young", "old"}]
  BY WorkerFacts DEF ResolveBase, CheckpointInv
<1>1. run[r].status # "NONE" /\ worker[r].up = Nil /\ ckpt[<<r, "seed">>] = Nil
  BY <1>0 DEF Knows, BeforeEnd, BeforeSeed
<1>2. CASE run[r].base = Nil /\ Goto(r, "seed")
  <2>1. PICK w \in WorkerState :
          worker' = [worker EXCEPT ![r] = w] /\ w.pc = "seed" /\ w.up = worker[r].up
    BY <1>2, GotoFits
  <2>2. Knows(r, w)
    BY <1>1, <1>2, <2>1 DEF Knows, BeforeSeed, Seeding, Ending, BeforeEnd
  <2> QED
    BY <1>0, <2>1, <2>2, WorkerOnly
<1>3. CASE run[r].base # Nil /\ Execute(r, ckpt[run[r].base])
  <2>1. ckpt[run[r].base] \in OrNil(Payloads)
    BY <1>0, <1>3, WorkerFacts DEF PointerInv, Usable
  <2>2. PICK w \in WorkerState :
          /\ worker' = [worker EXCEPT ![r] = w]
          /\ w.pc = "running" /\ w.tree = ckpt[run[r].base] /\ w.up = worker[r].up
    BY <1>3, <2>1, ExecuteFits
  <2>3. Knows(r, w)
    BY <1>1, <1>3, <2>2 DEF Knows, BeforeSeed, Seeding, Ending, BeforeEnd
  <2> QED
    BY <1>0, <2>2, <2>3, WorkerOnly
<1>4. CASE Refuse(r)
  <2>1. PICK w \in WorkerState :
          /\ worker' = [worker EXCEPT ![r] = w]
          /\ w.pc = "report" /\ w.to = "FAILED" /\ w.up = worker[r].up
    BY <1>4, RefuseFits
  <2>2. Knows(r, w)
    BY <1>1, <2>1 DEF Knows, BeforeSeed, Seeding, Ending, BeforeEnd, Terminal
  <2> QED
    BY <1>0, <2>1, <2>2, WorkerOnly
<1>5. CASE Execute(r, Nil)
  <2>1. PICK w \in WorkerState :
          /\ worker' = [worker EXCEPT ![r] = w]
          /\ w.pc = "running" /\ w.tree = Nil /\ w.up = worker[r].up
    BY <1>5, ExecuteFits DEF OrNil
  <2>2. Knows(r, w)
    BY <1>1, <2>1 DEF Knows, BeforeSeed, Seeding, Ending, BeforeEnd
  <2> QED
    BY <1>0, <2>1, <2>2, WorkerOnly
<1> QED
  BY <1>2, <1>3, <1>4, <1>5 DEF ResolveBase

\* A worker that gives up before the agent runs knows what a report needs.
LEMMA RefuseKeeps ==
  ASSUME CheckpointInv, NEW r \in Runs, worker[r].pc \in Seeding, Refuse(r),
         UNCHANGED <<storeVars, ckpt, blob, sweeper>>
  PROVE  CheckpointInv'
<1>1. PICK w \in WorkerState :
        /\ worker' = [worker EXCEPT ![r] = w]
        /\ w.pc = "report" /\ w.to = "FAILED" /\ w.up = worker[r].up
  BY RefuseFits
<1>2. Knows(r, w)
  BY <1>1, WorkerFacts DEF Knows, BeforeSeed, Seeding, Ending, BeforeEnd, Terminal
<1> QED
  BY <1>1, <1>2, WorkerOnly, WorkerFacts

\* The seed is uploaded, or not.
LEMMA SeedUploadKeeps ==
  ASSUME CheckpointInv, NEW r \in Runs, SeedUpload(r) PROVE CheckpointInv'
<1>0. worker[r].pc = "seed" /\ UNCHANGED <<storeVars, ckpt, sweeper>>
  BY DEF SeedUpload
<1>1. CASE Put(Content[<<r, "seed">>]) /\ Goto(r, "seedcheck")
  <2>1. PICK w \in WorkerState :
          worker' = [worker EXCEPT ![r] = w] /\ w.pc = "seedcheck" /\ w.up = worker[r].up
    BY <1>1, GotoFits
  <2>2. Knows(r, w)
    BY <1>0, <2>1, WorkerFacts DEF Knows, BeforeSeed, Seeding, Ending, BeforeEnd
  <2>3. blob' \in [Payloads -> {"absent", "young", "old"}]
    BY <1>1, WorkerFacts DEF Put
  <2> QED
    BY <1>0, <2>1, <2>2, <2>3, WorkerOnly
<1>2. CASE Refuse(r) /\ UNCHANGED blob
  BY <1>0, <1>2, RefuseKeeps DEF Seeding
<1> QED
  BY <1>1, <1>2 DEF SeedUpload

\* The handler's look at the run and the bytes.
LEMMA SeedCheckKeeps ==
  ASSUME CheckpointInv, NEW r \in Runs, SeedCheck(r) PROVE CheckpointInv'
<1>0. worker[r].pc = "seedcheck" /\ UNCHANGED <<storeVars, ckpt, blob, sweeper>>
  BY DEF SeedCheck
<1>1. CASE Goto(r, "seedcommit")
  <2>1. PICK w \in WorkerState :
          worker' = [worker EXCEPT ![r] = w] /\ w.pc = "seedcommit" /\ w.up = worker[r].up
    BY <1>1, GotoFits
  <2>2. Knows(r, w)
    BY <1>0, <2>1, WorkerFacts DEF Knows, BeforeSeed, Seeding, Ending, BeforeEnd
  <2> QED
    BY <1>0, <2>1, <2>2, WorkerOnly, WorkerFacts
<1>2. CASE Refuse(r)
  BY <1>0, <1>2, RefuseKeeps DEF Seeding
<1> QED
  BY <1>1, <1>2 DEF SeedCheck

\* The seed is recorded, and the agent runs on it or the answer is lost.
LEMMA SeedCommitKeeps ==
  ASSUME CheckpointInv, NEW r \in Runs, SeedCommit(r) PROVE CheckpointInv'
<1>0. /\ worker[r].pc = "seedcommit" /\ UNCHANGED <<blob, sweeper>>
      /\ FinalizeWorkspaceCheckpoint(r, "seed", Content[<<r, "seed">>])
      /\ Execute(r, Content[<<r, "seed">>]) \/ Refuse(r)
  BY DEF SeedCommit
<1>1. /\ run[r].status # "NONE" /\ worker[r].up = Nil /\ ckpt[<<r, "seed">>] = Nil
      /\ run[r].base = Nil
  BY <1>0, WorkerFacts DEF Knows, BeforeSeed, Seeding, BeforeEnd
<1>2. <<r, "seed">> \in Ckpts /\ Content[<<r, "seed">>] \in Payloads
      /\ Content[<<r, "seed">>] # Nil /\ <<r, "seed">> # Nil /\ "seed" \in Kinds
  BY ContentAssumption, StoreAssumption DEF Ckpts, Kinds
<1>3. ckpt \in [Ckpts -> OrNil(Payloads)] /\ StoreInv
  BY WorkerFacts DEF CheckpointInv
<1>4. StoreInv' /\ (UNCHANGED <<storeVars, ckpt>> \/ FinalizeFrame(r, "seed"))
  BY <1>0, <1>1, <1>2, <1>3, FinalizeTables
<1>5. FinalizeFrame(r, "seed")
  <2>1. ckpt' = [ckpt EXCEPT ![<<r, "seed">>] = Content[<<r, "seed">>]]
    BY <1>0, <1>1 DEF FinalizeWorkspaceCheckpoint
  <2>2. ckpt' # ckpt
    BY <1>1, <1>2, <1>3, <2>1
  <2> QED
    BY <1>4, <2>2
<1>6. /\ run'[r].base = <<r, "seed">> /\ run'[r].status = run[r].status
      /\ ckpt'[<<r, "seed">>] = Content[<<r, "seed">>]
  BY <1>2, <1>3, <1>5 DEF FinalizeFrame
<1>7. CASE Execute(r, Content[<<r, "seed">>])
  <2>1. PICK w \in WorkerState :
          /\ worker' = [worker EXCEPT ![r] = w]
          /\ w.pc = "running" /\ w.tree = Content[<<r, "seed">>] /\ w.up = worker[r].up
    BY <1>2, <1>7, ExecuteFits DEF OrNil
  <2>2. Knows(r, w)'
    BY <1>1, <1>2, <1>6, <2>1 DEF Knows, BeforeSeed, Seeding, Ending, BeforeEnd
  <2> QED
    BY <1>0, <1>1, <1>2, <1>4, <1>5, <2>1, <2>2, FinalizeStep
<1>8. CASE Refuse(r)
  <2>1. PICK w \in WorkerState :
          /\ worker' = [worker EXCEPT ![r] = w]
          /\ w.pc = "report" /\ w.to = "FAILED" /\ w.up = worker[r].up
    BY <1>8, RefuseFits
  <2>2. Knows(r, w)'
    BY <1>1, <1>6, <2>1 DEF Knows, BeforeSeed, Seeding, Ending, BeforeEnd, Terminal
  <2> QED
    BY <1>0, <1>1, <1>2, <1>4, <1>5, <2>1, <2>2, FinalizeStep
<1> QED
  BY <1>0, <1>7, <1>8

\* The capture: the report carries the archive of its own kind, or none.
LEMMA CaptureFits ==
  ASSUME CheckpointInv, NEW r \in Runs, Capture(r)
  PROVE  \E to \in Terminal, w \in WorkerState :
           /\ worker' = [worker EXCEPT ![r] = w] /\ w.pc = "report" /\ w.to = to
           /\ \/ Put(Content[<<r, KindOf(to)>>]) /\ w.up = Content[<<r, KindOf(to)>>]
              \/ UNCHANGED blob /\ w.up = Nil
<1>0. /\ worker[r].pc = "running" /\ worker[r].up = Nil
      /\ worker \in [Runs -> WorkerState] /\ worker[r] \in WorkerState
  BY WorkerFacts DEF Capture, Knows, BeforeEnd
<1>1. PICK to \in Terminal :
        \/ /\ Put(Content[<<r, KindOf(to)>>])
           /\ worker' = [worker EXCEPT ![r].pc = "report", ![r].to = to,
                                       ![r].up = Content[<<r, KindOf(to)>>]]
        \/ /\ worker' = [worker EXCEPT ![r].pc = "report", ![r].to = to]
           /\ UNCHANGED blob
  BY DEF Capture
<1>p. PICK p \in Payloads : p = Content[<<r, KindOf(to)>>]
  BY ContentAssumption DEF Ckpts, Kinds, KindOf
<1>2. CASE /\ Put(p)
           /\ worker' = [worker EXCEPT ![r].pc = "report", ![r].to = to, ![r].up = p]
  <2>w. PICK w : w = [worker[r] EXCEPT !.pc = "report", !.to = to, !.up = p]
    OBVIOUS
  <2>1. w \in WorkerState /\ w.pc = "report" /\ w.to = to /\ w.up = p
    BY <1>0, <2>w DEF WorkerState, OrNil
  <2>2. worker' = [worker EXCEPT ![r] = w]
    BY <1>0, <1>2, <2>w
  <2> QED
    BY <1>2, <1>p, <2>1, <2>2
<1>3. CASE /\ worker' = [worker EXCEPT ![r].pc = "report", ![r].to = to]
           /\ UNCHANGED blob
  <2>w. PICK w : w = [worker[r] EXCEPT !.pc = "report", !.to = to]
    OBVIOUS
  <2>1. w \in WorkerState /\ w.pc = "report" /\ w.to = to /\ w.up = Nil
    BY <1>0, <2>w DEF WorkerState, OrNil
  <2>2. worker' = [worker EXCEPT ![r] = w]
    BY <1>0, <1>3, <2>w
  <2> QED
    BY <1>3, <2>1, <2>2
<1> QED
  BY <1>1, <1>p, <1>2, <1>3

\* What the capture leaves the worker with.
LEMMA CaptureKeeps ==
  ASSUME CheckpointInv, NEW r \in Runs, Capture(r) PROVE CheckpointInv'
<1>1. PICK to \in Terminal, w \in WorkerState :
        /\ worker' = [worker EXCEPT ![r] = w] /\ w.pc = "report" /\ w.to = to
        /\ \/ Put(Content[<<r, KindOf(to)>>]) /\ w.up = Content[<<r, KindOf(to)>>]
           \/ UNCHANGED blob /\ w.up = Nil
  BY CaptureFits
<1>2. run[r].status # "NONE" /\ UNCHANGED <<storeVars, ckpt, sweeper>>
  BY WorkerFacts DEF Capture, Knows
<1>3. Knows(r, w)
  BY <1>1, <1>2 DEF Knows, BeforeSeed, Seeding, Ending, BeforeEnd
<1>4. blob' \in [Payloads -> {"absent", "young", "old"}]
  BY <1>1, WorkerFacts DEF Put
<1> QED
  BY <1>1, <1>2, <1>3, <1>4, WorkerOnly

\* The report, won or lost; the commit follows if there is something to commit.
LEMMA ReportKeeps ==
  ASSUME CheckpointInv, NEW r \in Runs, Report(r) PROVE CheckpointInv'
<1>0. /\ worker[r].pc = "report" /\ UNCHANGED <<ckpt, blob, sweeper>>
      /\ run[r].status # "NONE" /\ worker[r].to \in Terminal
      /\ worker[r].up # Nil => worker[r].up = Content[<<r, KindOf(worker[r].to)>>]
  BY WorkerFacts DEF Report, Knows, Ending
<1>1. [StoreNext]_storeVars
  <2>1. PICK to \in Terminal : to = worker[r].to
    BY <1>0
  <2>2. CASE run[r].status = "RUNNING"
    <3>1. TransitionTaskRun(r, "RUNNING", to, ReportUpdate(to))
      BY <2>1, <2>2 DEF Report
    <3>2. ReportUpdate(to) \in Sent("RUNNING", to) /\ to \in Status
      BY CallsAreTransactions DEF Status
    <3> QED
      BY <3>1, <3>2, TransitionIsStore
  <2>3. CASE run[r].status # "RUNNING"
    BY <2>3 DEF Report
  <2> QED
    BY <2>2, <2>3
<1>2. PICK pc \in {"gone", "check"} : pc = IF worker[r].up = Nil THEN "gone" ELSE "check"
  OBVIOUS
<1>3. PICK w \in WorkerState :
        /\ worker' = [worker EXCEPT ![r] = w]
        /\ w.pc = pc /\ w.up = worker[r].up /\ w.to = worker[r].to
  BY <1>2, GotoFits DEF Report
<1>4. run'[r].status # "NONE"
  BY <1>0, <1>1, StoreFrame DEF CheckpointInv, TableFrame, SameRow, FreshRow
<1>5. Knows(r, w)'
  BY <1>0, <1>2, <1>3, <1>4 DEF Knows, BeforeSeed, Seeding, Ending, BeforeEnd
<1> QED
  BY <1>0, <1>1, <1>3, <1>5, TransactionStep, WorkerFacts

\* The look at the bytes before the commit.
LEMMA CommitCheckKeeps ==
  ASSUME CheckpointInv, NEW r \in Runs, CommitCheck(r) PROVE CheckpointInv'
<1>0. /\ worker[r].pc = "check" /\ UNCHANGED <<storeVars, ckpt, blob, sweeper>>
  BY DEF CommitCheck
<1>1. PICK pc \in {"commit", "gone"} : Goto(r, pc)
  BY DEF CommitCheck
<1>2. PICK w \in WorkerState :
        /\ worker' = [worker EXCEPT ![r] = w]
        /\ w.pc = pc /\ w.up = worker[r].up /\ w.to = worker[r].to
  BY <1>1, GotoFits
<1>3. Knows(r, w)
  BY <1>0, <1>1, <1>2, WorkerFacts DEF Knows, BeforeSeed, Seeding, Ending, BeforeEnd
<1> QED
  BY <1>0, <1>2, <1>3, WorkerOnly, WorkerFacts

\* The commit records the archive of the kind the report named.
LEMMA CommitFacts ==
  ASSUME CheckpointInv, NEW r \in Runs, Commit(r)
  PROVE  \E k \in {"successful", "partial"}, w \in WorkerState :
           /\ worker[r].up = Content[<<r, k>>] /\ worker[r].up # Nil
           /\ worker' = [worker EXCEPT ![r] = w]
           /\ w.pc = "gone" /\ w.up = worker[r].up /\ w.to = worker[r].to
           /\ StoreInv' /\ (UNCHANGED <<storeVars, ckpt>> \/ FinalizeFrame(r, k))
<1>0. /\ worker[r].pc = "commit" /\ run[r].status # "NONE" /\ worker[r].to \in Terminal
      /\ worker[r].up # Nil /\ worker[r].up = Content[<<r, KindOf(worker[r].to)>>]
  BY WorkerFacts DEF Commit, Knows, Ending
<1>k. PICK k \in {"successful", "partial"} : k = KindOf(worker[r].to)
  BY DEF KindOf
<1>1. FinalizeWorkspaceCheckpoint(r, k, Content[<<r, k>>])
  BY <1>0, <1>k DEF Commit
<1>2. StoreInv' /\ (UNCHANGED <<storeVars, ckpt>> \/ FinalizeFrame(r, k))
  BY <1>0, <1>1, FinalizeTables, WorkerFacts DEF CheckpointInv, Kinds
<1>3. PICK w \in WorkerState :
        /\ worker' = [worker EXCEPT ![r] = w]
        /\ w.pc = "gone" /\ w.up = worker[r].up /\ w.to = worker[r].to
  BY GotoFits DEF Commit
<1> QED
  BY <1>0, <1>k, <1>2, <1>3

\* Then the worker is gone.
LEMMA CommitKeeps ==
  ASSUME CheckpointInv, NEW r \in Runs, Commit(r) PROVE CheckpointInv'
<1>0. /\ worker[r].pc = "commit" /\ run[r].status # "NONE" /\ worker[r].to \in Terminal
      /\ worker[r].up # Nil => worker[r].up = Content[<<r, KindOf(worker[r].to)>>]
      /\ UNCHANGED <<blob, sweeper>>
  BY WorkerFacts DEF Commit, Knows, Ending
<1>1. PICK k \in {"successful", "partial"}, w \in WorkerState :
        /\ worker' = [worker EXCEPT ![r] = w]
        /\ w.pc = "gone" /\ w.up = worker[r].up /\ w.to = worker[r].to
        /\ StoreInv' /\ (UNCHANGED <<storeVars, ckpt>> \/ FinalizeFrame(r, k))
  BY CommitFacts
<1>2. run'[r].status # "NONE"
  BY <1>0, <1>1 DEF FinalizeFrame, storeVars
<1>3. Knows(r, w)'
  BY <1>0, <1>1, <1>2 DEF Knows, BeforeSeed, Seeding, Ending, BeforeEnd
<1>4. CASE FinalizeFrame(r, k)
  BY <1>0, <1>1, <1>3, <1>4, FinalizeStep DEF Kinds
<1>5. CASE UNCHANGED <<storeVars, ckpt>>
  BY <1>0, <1>1, <1>3, <1>5, TransactionStep, WorkerFacts
<1> QED
  BY <1>1, <1>4, <1>5

\* A dead worker knows nothing.
LEMMA WorkerDiesKeeps ==
  ASSUME CheckpointInv, NEW r \in Runs, WorkerDies(r) PROVE CheckpointInv'
<1>w. PICK w : w = [NoWorker EXCEPT !.pc = "gone"]
  OBVIOUS
<1>1. w \in WorkerState /\ w.pc = "gone" /\ w.up = Nil
  BY <1>w DEF NoWorker, WorkerState, OrNil
<1>2. run[r].status # "NONE"
  BY WorkerFacts DEF WorkerDies, Knows
<1>3. Knows(r, w)
  BY <1>1, <1>2 DEF Knows, BeforeSeed, Seeding, Ending, BeforeEnd
<1> QED
  BY <1>w, <1>1, <1>3, WorkerOnly, WorkerFacts DEF WorkerDies

\* A finalize that is repeated changes nothing.
LEMMA RepeatIsAnswered ==
  ASSUME NEW r \in Runs, NEW k \in Kinds, RepeatFinalize(r, k)
  PROVE  UNCHANGED <<storeVars, ckpt, blob, worker, sweeper>>
BY DEF RepeatFinalize, FinalizeWorkspaceCheckpoint

-----------------------------------------------------------------------------
(* The theorems about rows *)

\* Nothing is recorded at the start.
LEMMA CheckpointInit == Init => CheckpointInv
<1> SUFFICES ASSUME Init PROVE CheckpointInv
  OBVIOUS
<1>1. StoreInv
  BY InitEstablishes DEF Init
<1>2. NoWorker \in WorkerState /\ NoWorker.pc = "none" /\ NoWorker.up = Nil
      /\ IdleSweeper \in SweeperState
  BY DEF NoWorker, WorkerState, OrNil, IdleSweeper, SweeperState
<1>3. TypeOK
  BY <1>1, <1>2 DEF Init, TypeOK, StoreInv, WorkerState, SweeperState, OrNil
<1>4. /\ \A r \in Runs : run[r] = NoRow /\ worker[r] = NoWorker
      /\ \A t \in Tasks : task[t] = NoTask
      /\ \A c \in Ckpts : ckpt[c] = Nil
  BY DEF Init, StoreInit
<1>5. NoRow.base = Nil /\ NoTask.head = Nil
  BY DEF NoRow, NoTask
<1>6. \A r \in Runs, k \in Kinds : <<r, k>> \in Ckpts
  BY DEF Ckpts
<1>7. PointerInv
  BY <1>4, <1>5, <1>6 DEF PointerInv
<1>8. \A r \in Runs : Knows(r, worker[r])
  BY <1>2, <1>4, <1>6 DEF Knows, BeforeSeed, Seeding, Ending, BeforeEnd, Kinds
<1> QED
  BY <1>1, <1>2, <1>3, <1>7, <1>8 DEF CheckpointInv, Init

\* Every action keeps the rows invariant.
LEMMA CheckpointNext == CheckpointInv /\ [Next]_ckptVars => CheckpointInv'
<1> SUFFICES ASSUME CheckpointInv, [Next]_ckptVars PROVE CheckpointInv'
  OBVIOUS
<1>1. ASSUME NEW r \in Runs, WorkerStep(r) PROVE CheckpointInv'
  BY <1>1, ClaimKeeps, ResolveKeeps, SeedUploadKeeps, SeedCheckKeeps, SeedCommitKeeps,
     CaptureKeeps, ReportKeeps, CommitCheckKeeps, CommitKeeps, WorkerDiesKeeps
     DEF WorkerStep
<1>2. CASE UNCHANGED ckptVars
  <2>1. /\ [StoreNext]_storeVars /\ ckpt' = ckpt /\ worker' = worker
        /\ blob' \in [Payloads -> {"absent", "young", "old"}] /\ sweeper' \in SweeperState
    BY <1>2 DEF ckptVars, storeVars, CheckpointInv, TypeOK
  <2> QED
    BY <2>1, ServerStep
<1>3. ASSUME NEW r \in Runs, NEW k \in Kinds, RepeatFinalize(r, k) PROVE CheckpointInv'
  <2>1. UNCHANGED ckptVars
    BY <1>3, RepeatIsAnswered DEF ckptVars, storeVars
  <2> QED
    BY <2>1, <1>2
<1> QED
  BY <1>1, <1>2, <1>3, LifeKeeps, SweepKeeps DEF Next

\* The rows of the checkpoint tables and what every worker knows of them.
THEOREM CheckpointInvariant == Spec => []CheckpointInv
BY CheckpointInit, CheckpointNext, PTL DEF Spec

\* Type correctness; in particular only a report with a descriptor is finalized.
THEOREM CheckpointTypes == Spec => []TypeOK
<1>1. CheckpointInv => TypeOK
  BY DEF CheckpointInv
<1> QED
  BY <1>1, CheckpointInvariant, PTL

\* An agent that was given an archived tree runs on the one its run's base
\* checkpoint records.
THEOREM AgentsRunOnTheirBase == Spec => []RunsOnItsBase
<1>1. CheckpointInv => RunsOnItsBase
  BY DEF CheckpointInv, Knows, RunsOnItsBase
<1> QED
  BY <1>1, CheckpointInvariant, PTL

\* A step is a transaction of the task store, or the finalize call of a worker
\* that, if it seeds, has no base.
LEMMA StepShape ==
  ASSUME CheckpointInv, [Next]_ckptVars
  PROVE  \/ TableFrame /\ ckpt' = ckpt
         \/ \E r \in Runs, k \in Kinds :
              FinalizeFrame(r, k) /\ (k = "seed" => run[r].base = Nil)
<1>0. StoreInv
  BY DEF CheckpointInv
<1>1. CASE [StoreNext]_storeVars /\ ckpt' = ckpt
  BY <1>0, <1>1, StoreFrame
<1>u. UNCHANGED <<storeVars, ckpt>> => [StoreNext]_storeVars /\ ckpt' = ckpt
  OBVIOUS
<1>2. CASE Submit \/ \E r \in Runs : Dispatch(r) \/ Reap(r)
  <2>1. ckpt' = ckpt
    BY <1>2 DEF Submit, Dispatch, Reap
  <2>2. TableFrame
    <3>1. ASSUME NEW t \in Tasks, CreateTask(t, Nil) PROVE TableFrame
      BY <1>0, <3>1, CreateTaskFrame DEF OrNil
    <3>2. ASSUME NEW t \in Tasks, NEW q \in {Nil, task[t].last}, CreateTaskRun(t, Nil, q)
          PROVE  TableFrame
      <4>1. task[t].last # Nil
        BY <3>2 DEF CreateTaskRun
      <4>2. q \in OrNil(RunsOf(t)) /\ Nil \in OrNil(Keys)
        BY <1>0, <4>1 DEF StoreInv, TaskMirrorsLastRun, OrNil
      <4> QED
        BY <1>0, <3>2, <4>2, CreateTaskRunFrame
    <3>3. ASSUME NEW r \in Runs, Dispatch(r) PROVE TableFrame
      BY <1>0, <3>3, CallsAreTransactions, TransitionIsStore, StoreFrame
         DEF Dispatch, Status, Active
    <3>4. ASSUME NEW r \in Runs, Reap(r) PROVE TableFrame
      <4>u. PICK u : u = [NoUpdate EXCEPT !.out = "reaper", !.class = "abandoned"]
        OBVIOUS
      <4>1. u \in Update /\ TransitionTaskRun(r, run[r].status, "FAILED", u)
        BY <3>4, <4>u, CallsAreTransactions DEF Reap, Sent
      <4> QED
        BY <1>0, <4>1, TransitionFrame DEF Status, Terminal
    <3> QED
      BY <1>2, <3>1, <3>2, <3>3, <3>4 DEF Submit
  <2> QED
    BY <2>1, <2>2
<1>3. ASSUME NEW r \in Runs, ClaimRun(r) PROVE [StoreNext]_storeVars /\ ckpt' = ckpt
  <2>u. PICK u : u = [NoUpdate EXCEPT !.started = TRUE]
    OBVIOUS
  <2>1. u \in Sent("SCHEDULED", "RUNNING") /\ TransitionTaskRun(r, "SCHEDULED", "RUNNING", u)
    BY <1>3, <2>u, CallsAreTransactions DEF ClaimRun
  <2> QED
    BY <1>3, <2>1, TransitionIsStore DEF ClaimRun, Status, Active
<1>4. ASSUME NEW r \in Runs, Report(r) PROVE [StoreNext]_storeVars /\ ckpt' = ckpt
  <2>1. PICK to \in Terminal : to = worker[r].to
    BY <1>4, WorkerFacts DEF Report, Knows, Ending
  <2>2. ReportUpdate(to) \in Sent("RUNNING", to) /\ to \in Status
    BY CallsAreTransactions DEF Status
  <2>3. TransitionTaskRun(r, "RUNNING", to, ReportUpdate(to)) \/ UNCHANGED storeVars
    BY <1>4, <2>1 DEF Report
  <2> QED
    BY <1>4, <2>2, <2>3, TransitionIsStore DEF Report
<1>5. ASSUME NEW r \in Runs,
             \/ ResolveBase(r) \/ SeedUpload(r) \/ SeedCheck(r) \/ Capture(r)
             \/ CommitCheck(r) \/ WorkerDies(r)
      PROVE  UNCHANGED <<storeVars, ckpt>>
  BY <1>5 DEF ResolveBase, SeedUpload, SeedCheck, Capture, CommitCheck, WorkerDies
<1>6. ASSUME NEW r \in Runs, SeedCommit(r)
      PROVE  \/ UNCHANGED <<storeVars, ckpt>>
             \/ FinalizeFrame(r, "seed") /\ run[r].base = Nil
  <2>1. run[r].status # "NONE" /\ run[r].base = Nil
    BY <1>6, WorkerFacts DEF SeedCommit, Knows, Seeding
  <2> QED
    BY <1>0, <1>6, <2>1, FinalizeTables, WorkerFacts DEF SeedCommit, Kinds
<1>7. ASSUME NEW r \in Runs, Commit(r)
      PROVE  \/ UNCHANGED <<storeVars, ckpt>>
             \/ \E k \in Kinds : FinalizeFrame(r, k) /\ k # "seed"
  BY <1>7, CommitFacts DEF Kinds
<1>8. CASE \/ SweepRefs \/ SweepList \/ SweepDelete
           \/ \E p \in Payloads : GracePasses(p)
  <2>1. UNCHANGED <<storeVars, ckpt>>
    BY <1>8 DEF SweepRefs, SweepList, SweepDelete, GracePasses
  <2> QED
    BY <2>1, <1>u, <1>1
<1>9. CASE UNCHANGED ckptVars
  <2>1. UNCHANGED <<storeVars, ckpt>>
    BY <1>9 DEF ckptVars, storeVars
  <2> QED
    BY <2>1, <1>u, <1>1
<1>10. ASSUME NEW r \in Runs, WorkerStep(r)
       PROVE  \/ TableFrame /\ ckpt' = ckpt
              \/ \E q \in Runs, k \in Kinds :
                   FinalizeFrame(q, k) /\ (k = "seed" => run[q].base = Nil)
  BY <1>10, <1>u, <1>1, <1>3, <1>4, <1>5, <1>6, <1>7 DEF WorkerStep, Kinds
<1>11. ASSUME NEW r \in Runs, NEW k \in Kinds, RepeatFinalize(r, k)
       PROVE  TableFrame /\ ckpt' = ckpt
  BY <1>0, <1>11, RepeatIsAnswered, StoreFrame
<1> QED
  BY <1>2, <1>8, <1>9, <1>10, <1>11 DEF Next

\* The head moves along one line, whichever runs are retried, reaped or late.
THEOREM HeadIsLinear == Spec => HeadAdvancesLinearly
<1>1. CheckpointInv /\ [Next]_ckptVars =>
        [\A t \in Tasks : task'[t].head # task[t].head =>
           /\ task'[t].head # Nil
           /\ run[task'[t].head[1]].base = task[t].head]_ckptVars
  <2> SUFFICES ASSUME CheckpointInv, [Next]_ckptVars, NEW t \in Tasks,
                      task'[t].head # task[t].head
               PROVE  /\ task'[t].head # Nil
                      /\ run[task'[t].head[1]].base = task[t].head
    OBVIOUS
  <2>1. PICK r \in Runs, k \in Kinds :
          FinalizeFrame(r, k) /\ (k = "seed" => run[r].base = Nil)
    BY StepShape DEF TableFrame
  <2>2. /\ task'[t].head = <<r, k>>
        /\ \/ k = "seed" /\ task[t].head = Nil
           \/ k = "successful" /\ task[t].head = run[r].base
    BY <2>1 DEF FinalizeFrame
  <2>3. <<r, k>> # Nil
    BY StoreAssumption DEF Ckpts
  <2> QED
    BY <2>1, <2>2, <2>3
<1> QED
  BY <1>1, CheckpointInvariant, PTL DEF Spec, HeadAdvancesLinearly

\* No accepted checkpoint and no recorded base is ever replaced, whatever bytes
\* a repeated finalize carries.
THEOREM AcceptedStays == Spec => AcceptedIsImmutable
<1>1. CheckpointInv /\ [Next]_ckptVars =>
        [/\ \A c \in Ckpts : ckpt[c] # Nil => ckpt'[c] = ckpt[c]
         /\ \A r \in Runs : run[r].base # Nil => run'[r].base = run[r].base]_ckptVars
  <2> SUFFICES ASSUME CheckpointInv, [Next]_ckptVars
               PROVE  /\ \A c \in Ckpts : ckpt[c] # Nil => ckpt'[c] = ckpt[c]
                      /\ \A r \in Runs : run[r].base # Nil => run'[r].base = run[r].base
    OBVIOUS
  <2>0. ckpt \in [Ckpts -> OrNil(Payloads)] /\ PointerInv
    BY DEF CheckpointInv, TypeOK
  <2>1. CASE TableFrame /\ ckpt' = ckpt
    BY <2>0, <2>1 DEF TableFrame, SameRow, FreshRow, PointerInv
  <2>2. ASSUME NEW r \in Runs, NEW k \in Kinds, FinalizeFrame(r, k),
               k = "seed" => run[r].base = Nil
        PROVE  /\ \A c \in Ckpts : ckpt[c] # Nil => ckpt'[c] = ckpt[c]
               /\ \A q \in Runs : run[q].base # Nil => run'[q].base = run[q].base
    BY <2>0, <2>2 DEF FinalizeFrame
  <2> QED
    BY <2>1, <2>2, StepShape
<1> QED
  BY <1>1, CheckpointInvariant, PTL DEF Spec, AcceptedIsImmutable

\* Every head and every base names an accepted checkpoint of its own task, and
\* no partial one, through late commits, retries and repeated finalizes.  (That
\* the bytes are there too is false of the sweeper: RecordedHasBytes.)
THEOREM PointersAlwaysResolve == Spec => []PointersResolve
<1>1. CheckpointInv => PointersResolve
  BY DEF CheckpointInv, PointerInv, Usable, PointersResolve
<1> QED
  BY <1>1, CheckpointInvariant, PTL
=============================================================================
