-------------------------- MODULE WorkflowRuntime --------------------------
(***************************************************************************)
(* One workflow run: the rows of infra/db/workflow*.go, the reconciliation  *)
(* pass of service/workflow and everything that races it.  A pass is a      *)
(* process whose steps are its database calls: it works from a snapshot of  *)
(* the node rows, while people cancel the run or answer its requests,       *)
(* TaskRuns end, deadlines pass and, once its lease has run out, another    *)
(* pass does the same work beside it.                                       *)
(*                                                                         *)
(* Time is the set of deadlines that have passed.  A pass reads the clock   *)
(* once (Reconcile's now) and keeps that reading to its end.                *)
(*                                                                         *)
(* TaskRuns are what module TaskStore promises of them: one active run per  *)
(* Task, terminal statuses final, the first cancel reason kept.  SUCCEEDED  *)
(* is split by what the fold reads beside it: ASKED is a success that left  *)
(* questions, UNSATISFIED one without the value its node's schema wants;    *)
(* CANCELED with the node-timeout reason is TIMEDOUT.                       *)
(***************************************************************************)
EXTENDS Naturals, Sequences, FiniteSets

CONSTANTS
  Definition,   \* the definition's nodes, as a sequence (array position)
  Needs,        \* node -> the nodes it needs
  Human,        \* human_input nodes; the others are agent_task nodes
  Timed,        \* nodes with a timeout_seconds
  Schema,       \* agent nodes with an output_schema
  MaxAttempts,  \* node -> max_attempts
  MaxParallel,  \* max_parallel_nodes
  RunTimeout,   \* whether the definition has a run timeout
  Results,      \* whether its result selector resolves against the outputs:
                \* {TRUE} where none is declared
  Reconcilers,  \* goroutines that call Reconcile, on any replica
  StaleOwners,  \* whether a lease may run out under a live pass
  MaxAsks,      \* bound: node -> questions its Agent may ask
  MaxAborts     \* bound: passes that crash or fail

Nodes == {Definition[i] : i \in 1..Len(Definition)}

ASSUME WorkflowAssumption ==
  /\ Needs \in [Nodes -> SUBSET Nodes]
  /\ Human \subseteq Nodes /\ Timed \subseteq Nodes
  /\ Schema \subseteq Nodes \ Human
  /\ MaxAttempts \in [Nodes -> Nat \ {0}]
  /\ MaxParallel \in Nat \ {0}
  /\ RunTimeout \in BOOLEAN /\ StaleOwners \in BOOLEAN
  /\ Results \subseteq BOOLEAN /\ Results # {}
  /\ MaxAsks \in [Nodes -> Nat] /\ MaxAborts \in Nat
  /\ "none" \notin Reconcilers

VARIABLES
  run,       \* workflow_run.status; "none" before it is inserted
  node,      \* workflow_node_run rows
  taskRun,   \* node -> the TaskRuns of its Task, oldest first
  request,   \* node -> its workflow_request rows, oldest first
  lease,     \* reconcile_owner, and whether lease_expires_at has passed
  passed,    \* the deadlines that have passed
  pass,      \* reconciler -> the pass it is in
  aborts     \* passes that crashed or failed so far

vars == <<run, node, taskRun, request, lease, passed, pass, aborts>>
rows == <<run, node, taskRun, request>>

-----------------------------------------------------------------------------
(* internal/core/workflow *)

NoOwner == "none"
Stopping == {"failing", "canceling"}
RunEnded == {"succeeded", "failed", "canceled"}
NodeEnded == {"succeeded", "failed", "canceled", "blocked"}
NodeStatus == NodeEnded \cup {"none", "pending", "running", "retry_wait", "waiting"}
RunActive == {"PENDING", "RUNNING"}
RunDone == {"SUCCEEDED", "ASKED", "UNSATISFIED", "FAILED", "TIMEDOUT", "CANCELED"}

\* topoSort: Kahn's algorithm, the earliest ready node of the array first.
topoSort ==
  LET sorted[k \in 0..Len(Definition)] ==
        IF k = 0 THEN <<>>
        ELSE LET before == {sorted[k - 1][i] : i \in 1..(k - 1)}
                 ready  == {i \in 1..Len(Definition) :
                              /\ Definition[i] \notin before
                              /\ Needs[Definition[i]] \subseteq before}
             IN  Append(sorted[k - 1],
                        Definition[CHOOSE i \in ready : \A j \in ready : i <= j])
  IN  sorted[Len(Definition)]

\* topoSort fails with "workflow nodes form a cycle" unless it placed every node,
\* and BuildGraph with it; a definition that fails is never started.
ASSUME OrderAssumption ==
  /\ topoSort \in Seq(Nodes)
  /\ Nodes = {topoSort[i] : i \in DOMAIN topoSort}

\* ListWorkflowNodeRuns orders by node_index, so loops take the first first.
First(S) == topoSort[CHOOSE i \in DOMAIN topoSort :
                       /\ topoSort[i] \in S
                       /\ \A j \in 1..(i - 1) : topoSort[j] \notin S]

\* Deadlines: the run's, an attempt's, a retry's backoff, a request's expiry.
RunTimer           == <<"run", "run", 0>>
AttemptTimer(n, k) == <<"attempt", n, k>>
RetryTimer(n, a)   == <<"retry", n, a>>
RequestTimer(n)    == <<"request", n, 0>>

NoNode  == [status |-> "none", attempt |-> 0, cur |-> 0]
NewNode == [NoNode EXCEPT !.status = "pending"]
NoPass  == [pc |-> "idle", now |-> {}, run |-> "none",
            steps |-> [n \in Nodes |-> NoNode], todo |-> {},
            req |-> [n \in Nodes |-> 0], count |-> 0, got |-> 0]

With(S, st) == {n \in Nodes : S[n].status \in st}
Active(n) == {k \in DOMAIN taskRun[n] : taskRun[n][k].status \in RunActive}

\* The deadlines that are set; one that is not is never looked at again.
Deadlines ==
  (IF RunTimeout /\ run \notin RunEnded THEN {RunTimer} ELSE {})
    \cup {AttemptTimer(n, node[n].cur) : n \in Timed \cap With(node, {"running"})}
    \cup {RetryTimer(n, node[n].attempt) : n \in With(node, {"retry_wait"})}
    \cup {RequestTimer(n) : n \in Timed \cap Human \cap With(node, {"waiting"})}

-----------------------------------------------------------------------------
(* Store operations: each is one transaction, or one guarded UPDATE.         *)

\* Mutant: the UPDATE does not name the status it expects.
TransitionWorkflowNodeRun_Unguarded(n, from, new) ==
  node' = [node EXCEPT ![n] = new]

\* TransitionWorkflowNodeRun: compare-and-set on the node's status alone.
TransitionWorkflowNodeRun(n, from, new) ==
  node' = IF node[n].status = from THEN [node EXCEPT ![n] = new] ELSE node

\* TransitionWorkflowRun: compare-and-set on the run's status.
TransitionWorkflowRun(from, to) ==
  run' = IF run = from THEN to ELSE run

\* stopPendingNodesTx: pending nodes block, retrying and waiting ones cancel.
stopPendingNodes(nodes) ==
  [m \in Nodes |->
     CASE nodes[m].status = "pending" -> [nodes[m] EXCEPT !.status = "blocked"]
       [] nodes[m].status \in {"retry_wait", "waiting"}
            -> [nodes[m] EXCEPT !.status = "canceled"]
       [] OTHER -> nodes[m]]

\* Mutant: open requests stay open behind the stop.
closeRequests_LeftOpen == request

\* stopPendingNodesTx: nobody may answer a request whose run has stopped.
closeRequests ==
  [m \in Nodes |-> [i \in DOMAIN request[m] |->
     IF request[m][i].status = "pending"
     THEN [request[m][i] EXCEPT !.status = "canceled"] ELSE request[m][i]]]

\* StopWorkflowRun, from running.
StopWorkflowRun(to) ==
  IF run = "running"
  THEN /\ run' = to
       /\ node' = stopPendingNodes(node)
       /\ request' = closeRequests
  ELSE UNCHANGED <<run, node, request>>

\* BeginWorkflowRunDrain: end one node and stop the run, or change nothing.
BeginWorkflowRunDrain(n, from, new, to) ==
  IF run = "running" /\ node[n].status = from
  THEN /\ run' = to
       /\ node' = stopPendingNodes([node EXCEPT ![n] = new])
       /\ request' = closeRequests
  ELSE UNCHANGED <<run, node, request>>

\* OpenWorkflowRequest: no request with this key yet, run and node as expected.
RequestMayOpen(n, from, asker) ==
  /\ \A i \in DOMAIN request[n] : request[n][i].asker # asker
  /\ run = "running"
  /\ node[n].status = from

\* OpenWorkflowRequest: the request and the node's wait in one transaction.
OpenWorkflowRequest(n, from, asker) ==
  IF RequestMayOpen(n, from, asker)
  THEN /\ request' = [request EXCEPT
                        ![n] = Append(@, [asker |-> asker, status |-> "pending"])]
       /\ node' = [node EXCEPT ![n].status = "waiting"]
  ELSE UNCHANGED <<request, node>>

\* ResolveWorkflowRequest: only a pending request, answered before its expiry.
ResolveWorkflowRequest(n, i, to) ==
  /\ request[n][i].status = "pending"
  /\ (to = "expired") = (RequestTimer(n) \in passed)
  /\ request' = [request EXCEPT ![n][i].status = to]

\* RequestRunCancel, as module TaskStore has it: a pending run ends at once, a
\* dispatched one carries the first reason until it ends.
Canceled(r, reason) ==
  CASE r.status = "PENDING" ->
         [r EXCEPT !.status = IF reason = "timeout" THEN "TIMEDOUT" ELSE "CANCELED"]
    [] r.status = "RUNNING" /\ r.cancel = "none" -> [r EXCEPT !.cancel = reason]
    [] OTHER -> r

RequestRunCancel(n, k, reason) ==
  taskRun' = [taskRun EXCEPT ![n][k] = Canceled(@, reason)]

\* The admission key of a node's first attempt, of a later one, of an answer.
AttemptKey(a) == <<"attempt", a>>
AnswerKey(i)  == <<"request", i>>

NewTaskRun(key) == [key |-> key, status |-> "PENDING", cancel |-> "none"]

\* admitWorkflowNodeTask, admitWorkflowNodeRetryRun: under the run lock, the run
\* still running and the node still waiting for exactly this admission.
AdmitGuard(n, from, attempt) ==
  /\ run = "running"
  /\ node[n].status = from
  /\ node[n].attempt = attempt

\* The node already links the run this key created (or, for the first, its Task).
AlreadyLinked(n, key) ==
  \/ key = AttemptKey(1) /\ taskRun[n] # <<>>
  \/ node[n].cur # 0 /\ taskRun[n][node[n].cur].key = key

\* Mutant: a Task may have two active runs.
TaskIdle_Always(n) == TRUE

\* createTaskRunTx: the Task has no active run.
TaskIdle(n) == Active(n) = {}

\* createTaskRunTx: a key used before returns its run; otherwise the Task must
\* have no active run.  The node links it in the same transaction.  got is the
\* run the caller is handed.
Admit(n, from, attempt, newAttempt, key, got) ==
  LET used == {k \in DOMAIN taskRun[n] : taskRun[n][k].key = key}
  IN  \/ /\ AlreadyLinked(n, key)
         /\ got = IF key = AttemptKey(1) THEN Len(taskRun[n]) ELSE node[n].cur
         /\ UNCHANGED <<taskRun, node>>
      \/ /\ ~AlreadyLinked(n, key)
         /\ AdmitGuard(n, from, attempt)
         /\ used = {} => TaskIdle(n)
         /\ got = IF used = {} THEN Len(taskRun[n]) + 1
                               ELSE CHOOSE k \in used : TRUE
         /\ taskRun' = IF used = {}
                       THEN [taskRun EXCEPT ![n] = Append(@, NewTaskRun(key))]
                       ELSE taskRun
         /\ node' = [node EXCEPT ![n] = [status |-> "running",
                                         attempt |-> newAttempt, cur |-> got]]

-----------------------------------------------------------------------------
(* service/workflow: one reconciliation pass                                 *)

Goto(p, pc) == pass' = [pass EXCEPT ![p].pc = pc]
Return(p)   == pass' = [pass EXCEPT ![p] = [NoPass EXCEPT !.pc = "release"]]
Restart(p)  == pass' = [pass EXCEPT ![p] = [NoPass EXCEPT !.pc = "readRun", !.now = pass[p].now]]
Done(p, n) == pass' = [pass EXCEPT ![p].todo = @ \ {n}]
Snapshot(p, n) == pass[p].steps[n]
At(p, pc) == pass[p].pc = pc
Next1(p) == First(pass[p].todo)

\* Mutant: a lease is given back by its owner or never.
LeaseFree_Released == lease.owner = NoOwner

\* ClaimWorkflowRunLease: unowned, or the lease has run out.
LeaseFree == lease.owner = NoOwner \/ lease.expired

\* Reconcile: claim the lease and read the clock.  Start, the terminal callback,
\* an answer, a cancel and the recovery sweep all come in here.
Reconcile(p) ==
  /\ At(p, "idle")
  /\ run \notin RunEnded \cup {"none"}
  /\ LeaseFree
  /\ lease' = [owner |-> p, expired |-> FALSE]
  /\ pass' = [pass EXCEPT ![p] = [NoPass EXCEPT !.pc = "readRun",
                                                 !.now = passed \cap Deadlines]]
  /\ passed' = passed \cap Deadlines
  /\ UNCHANGED <<rows, aborts>>

\* ReleaseWorkflowRunLease: only the owner's lease is cleared.
Release(p) ==
  lease' = IF lease.owner = p THEN [owner |-> NoOwner, expired |-> FALSE] ELSE lease

EndPass(p) ==
  /\ At(p, "release")
  /\ Release(p)
  /\ pass' = [pass EXCEPT ![p] = NoPass]
  /\ UNCHANGED <<rows, passed, aborts>>

\* GetWorkflowRun: an ended run has nothing left to do.
ReadRun(p) ==
  /\ At(p, "readRun")
  /\ IF run \in RunEnded
     THEN Return(p)
     ELSE pass' = [pass EXCEPT ![p].run = run, ![p].pc = "readSteps"]
  /\ UNCHANGED <<rows, lease, passed, aborts>>

\* What a pass keeps of the rows it read: those it will look at again.
Keep(nodes, S) == [n \in Nodes |-> IF n \in S THEN nodes[n] ELSE NoNode]

\* ListWorkflowNodeRuns, and the branch the pass takes from what it read.  The
\* drain looks at nodes that have not ended, the folds at running and waiting ones.
ReadSteps(p) ==
  /\ At(p, "readSteps")
  /\ pass' = [pass EXCEPT
       ![p].steps = IF pass[p].run \in Stopping
                    THEN Keep(node, Nodes \ With(node, NodeEnded))
                    ELSE Keep(node, With(node, {"running", "waiting"})),
       ![p].count = 0,
       ![p].todo = IF pass[p].run \in Stopping
                   THEN Nodes \ With(node, NodeEnded \cup {"none"})
                   ELSE With(node, {"running"}),
       ![p].pc = CASE pass[p].run \in Stopping -> "drain"
                   [] RunTimer \in pass[p].now -> "deadline"
                   [] OTHER -> "fold"]
  /\ UNCHANGED <<rows, lease, passed, aborts>>

\* The run's deadline has passed: stop it, then drain what it left.
StopAtDeadline(p) ==
  /\ At(p, "deadline")
  /\ StopWorkflowRun("failing")
  /\ Restart(p)
  /\ UNCHANGED <<taskRun, lease, passed, aborts>>

\* Mutant: a canceled attempt is retried like a failed one.
Retryable_Canceled(status) ==
  status \in {"FAILED", "UNSATISFIED", "TIMEDOUT", "CANCELED"}

\* classifyAttempt: a cancel by a person or by the drain is a stop, not a failure.
Retryable(status) == status \in {"FAILED", "UNSATISFIED", "TIMEDOUT"}

AttemptsLeft(n, attempt) == attempt < MaxAttempts[n]

\* cancelTimedOutAttempt: an active attempt past its deadline is asked to stop;
\* the fold then looks at it again.
CancelTimedOutAttempt(p) ==
  LET n == Next1(p)
      k == Snapshot(p, n).cur
  IN  /\ At(p, "fold") /\ pass[p].todo # {}
      /\ taskRun[n][k].status \in RunActive
      /\ n \in Timed /\ AttemptTimer(n, k) \in pass[p].now
      /\ RequestRunCancel(n, k, "timeout")
      /\ Goto(p, "foldAsked")
      /\ UNCHANGED <<run, node, request, lease, passed, aborts>>

\* The fold of one running node: read its TaskRun, apply how it ended.  A
\* terminal TaskRun does not change, so the read and the write are one step.
FoldNode(p) ==
  LET n == Next1(p)
      s == Snapshot(p, n)
      status == taskRun[n][s.cur].status
      finish(to) == /\ TransitionWorkflowNodeRun(n, "running", [node[n] EXCEPT
                          !.status = to,
                          !.cur = IF to = "succeeded" THEN s.cur ELSE @])
                    /\ UNCHANGED <<run, request>>
  IN  /\ At(p, "fold") \/ At(p, "foldAsked")
      /\ pass[p].todo # {}
      /\ \/ /\ status \in RunActive
            /\ At(p, "fold") => ~(n \in Timed /\ AttemptTimer(n, s.cur) \in pass[p].now)
            /\ UNCHANGED <<run, node, request>>
         \/ status = "ASKED" /\ OpenWorkflowRequest(n, "running", s.cur) /\ UNCHANGED run
         \/ status = "SUCCEEDED" /\ finish("succeeded")
         \/ Retryable(status) /\ AttemptsLeft(n, s.attempt) /\ finish("retry_wait")
      /\ pass' = [pass EXCEPT ![p].todo = @ \ {n}, ![p].pc = "fold",
                              ![p].steps[n] = NoNode]
      /\ UNCHANGED <<taskRun, lease, passed, aborts>>

\* finalizeFailedFromNode: no attempt left, or a stop; the run stops with it and
\* the pass starts over to drain.
FinalizeFailedFromNode(p) ==
  LET n == Next1(p)
      s == Snapshot(p, n)
      status == taskRun[n][s.cur].status
      stopped == status = "CANCELED"
  IN  /\ At(p, "fold") \/ At(p, "foldAsked")
      /\ pass[p].todo # {}
      /\ status \in RunDone \ {"ASKED", "SUCCEEDED"}
      /\ ~(Retryable(status) /\ AttemptsLeft(n, s.attempt))
      /\ BeginWorkflowRunDrain(n, "running",
           [node[n] EXCEPT !.status = IF stopped THEN "canceled" ELSE "failed",
                           !.cur = s.cur],
           IF stopped THEN "canceling" ELSE "failing")
      /\ Restart(p)
      /\ UNCHANGED <<taskRun, lease, passed, aborts>>

\* foldWaitingNodes: list the requests once; only a resolved one, or one past
\* its expiry, asks for anything.
ListRequests(p) ==
  LET latest(n) == Len(request[n])
      acts == {n \in With(pass[p].steps, {"waiting"}) :
                 \/ request[n][latest(n)].status # "pending"
                 \/ RequestTimer(n) \in pass[p].now}
  IN  /\ At(p, "fold") /\ pass[p].todo = {}
      /\ pass' = [pass EXCEPT
           ![p].pc = "answers", ![p].todo = acts,
           ![p].steps = Keep(pass[p].steps, acts),
           ![p].req = [n \in Nodes |-> IF n \in acts THEN latest(n) ELSE 0]]
      /\ UNCHANGED <<rows, lease, passed, aborts>>

\* A pending request past its expiry is expired; then it is read again.
ExpireRequest(p) ==
  LET n == Next1(p)
  IN  /\ At(p, "answers") /\ pass[p].todo # {}
      /\ ResolveWorkflowRequest(n, pass[p].req[n], "expired")
      /\ UNCHANGED <<run, node, taskRun, lease, passed, pass, aborts>>

\* applyAnswer, for a human_input node: the answer is its output.
ApplyInput(p) ==
  LET n == Next1(p)
      r == request[n][pass[p].req[n]]
  IN  /\ At(p, "answers") /\ pass[p].todo # {}
      /\ r.status = "answered" /\ r.asker = 0
      /\ TransitionWorkflowNodeRun(n, "waiting", [node[n] EXCEPT !.status = "succeeded"])
      /\ Done(p, n)
      /\ UNCHANGED <<run, taskRun, request, lease, passed, aborts>>

\* A request the run's stop has closed asks for nothing.
SkipRequest(p) ==
  LET n == Next1(p)
  IN  /\ At(p, "answers") /\ pass[p].todo # {}
      /\ request[n][pass[p].req[n]].status = "canceled"
      /\ Done(p, n)
      /\ UNCHANGED <<rows, lease, passed, aborts>>

\* A decline or an expiry fails the node and stops the run.
ApplyRefusal(p) ==
  LET n == Next1(p)
  IN  /\ At(p, "answers") /\ pass[p].todo # {}
      /\ request[n][pass[p].req[n]].status \in {"declined", "expired"}
      /\ BeginWorkflowRunDrain(n, "waiting", [node[n] EXCEPT !.status = "failed"], "failing")
      /\ Restart(p)
      /\ UNCHANGED <<taskRun, lease, passed, aborts>>

\* applyAnswer, for a question: AdmitWorkflowAnswerRun continues the Task.  Quota
\* or a conflict may refuse it.
AdmitAnswer(p) ==
  LET n == Next1(p)
      i == pass[p].req[n]
      a == Snapshot(p, n).attempt
  IN  /\ At(p, "answers") /\ pass[p].todo # {}
      /\ request[n][i].status = "answered" /\ request[n][i].asker # 0
      /\ \/ \E got \in 1..(Len(taskRun[n]) + 1) :
              /\ Admit(n, "waiting", a, a, AnswerKey(i), got)
              /\ pass' = [pass EXCEPT ![p].pc = "linkAnswer", ![p].got = got]
         \/ Goto(p, "refusedAnswer") /\ UNCHANGED <<taskRun, node>>
      /\ UNCHANGED <<run, request, lease, passed, aborts>>

\* The guarded transition after the admission repeats its link.
LinkAnswer(p) ==
  LET n == Next1(p)
  IN  /\ At(p, "linkAnswer")
      /\ TransitionWorkflowNodeRun(n, "waiting",
           [node[n] EXCEPT !.status = "running", !.cur = pass[p].got])
      /\ pass' = [pass EXCEPT ![p].todo = @ \ {n}, ![p].pc = "answers", ![p].got = 0]
      /\ UNCHANGED <<run, taskRun, request, lease, passed, aborts>>

\* Re-read the nodes, then dispatch what is ready.
RereadSteps(p) ==
  /\ At(p, "answers") /\ pass[p].todo = {}
  /\ pass' = [pass EXCEPT
       ![p].pc = "dispatch", ![p].steps = node, ![p].req = NoPass.req,
       ![p].todo = With(node, {"pending", "retry_wait"}),
       ![p].count = Cardinality(With(node, {"running"}))]
  /\ UNCHANGED <<rows, lease, passed, aborts>>

\* Mutant: a node is ready once one of its needs has succeeded.
nodeReady_AnyNeed(steps, n) ==
  Needs[n] = {} \/ \E m \in Needs[n] : steps[m].status = "succeeded"

\* nodeReady: every node it needs has succeeded.
nodeReady(steps, n) == \A m \in Needs[n] : steps[m].status = "succeeded"

\* The retry's backoff had passed when the pass read the clock.
RetryIsDue(p, n) == RetryTimer(n, Snapshot(p, n).attempt) \in pass[p].now

Startable(p, n) ==
  \/ Snapshot(p, n).status = "retry_wait" /\ RetryIsDue(p, n)
  \/ Snapshot(p, n).status = "pending" /\ nodeReady(pass[p].steps, n)

\* dispatchReadyNodes passes over a node whose retry or needs are not there yet.
SkipNode(p) ==
  LET n == Next1(p)
  IN  /\ At(p, "dispatch") /\ pass[p].todo # {}
      /\ ~Startable(p, n)
      /\ Done(p, n)
      /\ UNCHANGED <<rows, lease, passed, aborts>>

\* A ready human_input node opens its request; the limit does not bound it.  A
\* binding that does not resolve fails the node instead.
OpenInputRequest(p) ==
  LET n == Next1(p)
  IN  /\ At(p, "dispatch") /\ pass[p].todo # {}
      /\ Startable(p, n) /\ n \in Human
      /\ \/ /\ OpenWorkflowRequest(n, "pending", 0)
            /\ Done(p, n) /\ UNCHANGED run
         \/ /\ BeginWorkflowRunDrain(n, "pending", [node[n] EXCEPT !.status = "failed"], "failing")
            /\ Return(p)
      /\ UNCHANGED <<taskRun, lease, passed, aborts>>

AtLimit(count) == count >= MaxParallel

\* A ready node over the limit ends the loop; a later pass takes it up.
LimitReached(p) ==
  LET n == Next1(p)
  IN  /\ At(p, "dispatch") /\ pass[p].todo # {}
      /\ Startable(p, n) /\ n \notin Human
      /\ AtLimit(pass[p].count)
      /\ pass' = [pass EXCEPT ![p].todo = {}]
      /\ UNCHANGED <<rows, lease, passed, aborts>>

\* createStepTask and dispatchRetry: admit the node's first or next attempt.
AdmitNode(p) ==
  LET n == Next1(p)
      s == Snapshot(p, n)
      a == s.attempt + 1
  IN  /\ At(p, "dispatch") /\ pass[p].todo # {}
      /\ Startable(p, n) /\ n \notin Human
      /\ ~AtLimit(pass[p].count)
      /\ \/ \E got \in 1..(Len(taskRun[n]) + 1) :
              /\ Admit(n, s.status, s.attempt, a, AttemptKey(a), got)
              /\ pass' = [pass EXCEPT ![p].pc = "linkNode", ![p].got = got]
         \/ Goto(p, "refusedNode") /\ UNCHANGED <<taskRun, node>>
      /\ UNCHANGED <<run, request, lease, passed, aborts>>

LinkNode(p) ==
  LET n == Next1(p)
      s == Snapshot(p, n)
  IN  /\ At(p, "linkNode")
      /\ TransitionWorkflowNodeRun(n, s.status,
           [status |-> "running", attempt |-> s.attempt + 1, cur |-> pass[p].got])
      /\ pass' = [pass EXCEPT ![p].todo = @ \ {n}, ![p].pc = "dispatch",
                              ![p].count = @ + 1, ![p].got = 0]
      /\ UNCHANGED <<run, taskRun, request, lease, passed, aborts>>

\* An admission that was refused fails the node, stops the run and ends the pass.
FailAdmission(p) ==
  LET n == Next1(p)
      from == IF At(p, "refusedAnswer") THEN "waiting" ELSE Snapshot(p, n).status
  IN  /\ At(p, "refusedAnswer") \/ At(p, "refusedNode")
      /\ BeginWorkflowRunDrain(n, from, [node[n] EXCEPT !.status = "failed"], "failing")
      /\ Return(p)
      /\ UNCHANGED <<taskRun, lease, passed, aborts>>

\* Mutant: a node in its backoff or waiting on a person is not work left.
NothingLeft_PendingOnly(p) ==
  /\ With(pass[p].steps, {"pending"}) = {}
  /\ pass[p].count = 0

\* No node pending, retrying, waiting or running in what the pass read.
NothingLeft(p) ==
  /\ With(pass[p].steps, {"pending", "retry_wait", "waiting"}) = {}
  /\ pass[p].count = 0

\* The end of dispatchReadyNodes: succeed the run once nothing is left.  A
\* declared result that does not resolve (resolveRunResult) fails the pass: the
\* run stays as it is, due again in reconcileObserveInterval.
FinishDispatch(p) ==
  /\ At(p, "dispatch") /\ pass[p].todo = {}
  /\ \E resolved \in Results :
       IF NothingLeft(p) /\ resolved THEN TransitionWorkflowRun("running", "succeeded")
                                     ELSE UNCHANGED run
  /\ Return(p)
  /\ UNCHANGED <<node, taskRun, request, lease, passed, aborts>>

\* drainRun: ask every attempt that has not ended to stop...
DrainCancel(p) ==
  LET n == Next1(p)
      s == Snapshot(p, n)
  IN  /\ At(p, "drain") /\ pass[p].todo # {}
      /\ IF s.cur = 0
         THEN Return(p) /\ UNCHANGED taskRun
         ELSE RequestRunCancel(n, s.cur, "stop") /\ Goto(p, "drainRead")
      /\ UNCHANGED <<run, node, request, lease, passed, aborts>>

\* ...and record how it ended once it has.  Here any SUCCEEDED run counts.
DrainNode(p) ==
  LET n == Next1(p)
      status == taskRun[n][Snapshot(p, n).cur].status
      to == CASE status \in {"SUCCEEDED", "ASKED", "UNSATISFIED"} -> "succeeded"
              [] status = "FAILED" -> "failed"
              [] OTHER -> "canceled"
  IN  /\ At(p, "drainRead")
      /\ IF status \in RunActive
         THEN UNCHANGED node
         ELSE TransitionWorkflowNodeRun(n, "running", [node[n] EXCEPT !.status = to])
      /\ pass' = [pass EXCEPT
           ![p].pc = "drain", ![p].todo = @ \ {n},
           ![p].count = IF status \in RunActive THEN @ + 1 ELSE @]
      /\ UNCHANGED <<run, taskRun, request, lease, passed, aborts>>

\* Mutant: the run ends without waiting for its attempts.
Drained_AtOnce(p) == TRUE

\* Nothing the pass saw is still executing.
Drained(p) == pass[p].count = 0

FinishDrain(p) ==
  /\ At(p, "drain") /\ pass[p].todo = {}
  /\ IF Drained(p)
     THEN TransitionWorkflowRun(pass[p].run,
            IF pass[p].run = "canceling" THEN "canceled" ELSE "failed")
     ELSE UNCHANGED run
  /\ Return(p)
  /\ UNCHANGED <<node, taskRun, request, lease, passed, aborts>>

\* A pass fails (a database error: it releases its lease) or its process dies.
Abort(p) ==
  /\ ~At(p, "idle")
  /\ aborts < MaxAborts
  /\ aborts' = aborts + 1
  /\ Release(p) \/ UNCHANGED lease
  /\ pass' = [pass EXCEPT ![p] = NoPass]
  /\ UNCHANGED <<rows, passed>>

PassStep(p) ==
  \/ EndPass(p) \/ ReadRun(p) \/ ReadSteps(p) \/ StopAtDeadline(p)
  \/ CancelTimedOutAttempt(p) \/ FoldNode(p) \/ FinalizeFailedFromNode(p)
  \/ ListRequests(p) \/ ExpireRequest(p) \/ ApplyInput(p) \/ SkipRequest(p)
  \/ ApplyRefusal(p)
  \/ AdmitAnswer(p) \/ LinkAnswer(p) \/ RereadSteps(p) \/ SkipNode(p)
  \/ OpenInputRequest(p) \/ LimitReached(p) \/ AdmitNode(p) \/ LinkNode(p)
  \/ FailAdmission(p) \/ FinishDispatch(p)
  \/ DrainCancel(p) \/ DrainNode(p) \/ FinishDrain(p)

-----------------------------------------------------------------------------
(* Everything else that writes the rows or moves time                        *)

\* CancelWorkflowRun: refused unless the run is running.
CancelWorkflowRun ==
  /\ run = "running"
  /\ StopWorkflowRun("canceling")
  /\ UNCHANGED <<taskRun, lease, passed, pass, aborts>>

\* RespondToRequest: the first answer or decline before the expiry.
RespondToRequest ==
  /\ \E n \in Nodes : \E i \in DOMAIN request[n] : \E to \in {"answered", "declined"} :
       ResolveWorkflowRequest(n, i, to)
  /\ UNCHANGED <<run, node, taskRun, lease, passed, pass, aborts>>

\* The Task plane (module RunLifecycle): the Task's last run is dispatched...
StartTaskRun(n) ==
  /\ \E k \in Active(n) :
       /\ taskRun[n][k].status = "PENDING"
       /\ taskRun' = [taskRun EXCEPT ![n][k].status = "RUNNING"]
  /\ UNCHANGED <<run, node, request, lease, passed, pass, aborts>>

Verdicts(n, r) ==
  {"SUCCEEDED", "FAILED"}
    \cup (IF Len(request[n]) < MaxAsks[n] THEN {"ASKED"} ELSE {})
    \cup (IF n \in Schema THEN {"UNSATISFIED"} ELSE {})
    \cup (CASE r.cancel = "none" -> {}
            [] r.cancel = "timeout" -> {"TIMEDOUT"}
            [] OTHER -> {"CANCELED"})

\* ...and ends, whether or not it was asked to stop.
EndTaskRun(n) ==
  /\ \E k \in Active(n) :
       /\ taskRun[n][k].status = "RUNNING"
       /\ \E v \in Verdicts(n, taskRun[n][k]) :
            taskRun' = [taskRun EXCEPT ![n][k].status = v]
  /\ UNCHANGED <<run, node, request, lease, passed, pass, aborts>>

\* A person, or the eligibility reconciler, cancels the TaskRun itself.
CancelTaskRun(n) ==
  /\ \E k \in Active(n) : taskRun[n][k].cancel = "none" /\ RequestRunCancel(n, k, "person")
  /\ UNCHANGED <<run, node, request, lease, passed, pass, aborts>>

DeadlinePasses(t) ==
  /\ passed' = (passed \cap Deadlines) \cup {t}
  /\ UNCHANGED <<rows, lease, pass, aborts>>

\* A lease runs out: two minutes, far longer than a pass takes, so under a live
\* pass only where StaleOwners says a process may stall that long.
LeaseExpires ==
  /\ lease.owner # NoOwner /\ ~lease.expired
  /\ StaleOwners \/ At(lease.owner, "idle")
  /\ lease' = [lease EXCEPT !.expired = TRUE]
  /\ UNCHANGED <<rows, passed, pass, aborts>>

TaskStep(n) == StartTaskRun(n) \/ EndTaskRun(n)

Next ==
  \/ \E p \in Reconcilers : Reconcile(p) \/ PassStep(p) \/ Abort(p)
  \/ CancelWorkflowRun
  \/ RespondToRequest
  \/ \E n \in Nodes : TaskStep(n) \/ CancelTaskRun(n)
  \/ \E t \in Deadlines \ passed : DeadlinePasses(t)
  \/ LeaseExpires

InitRest ==
  /\ taskRun = [n \in Nodes |-> <<>>]
  /\ request = [n \in Nodes |-> <<>>]
  /\ lease = [owner |-> NoOwner, expired |-> FALSE]
  /\ passed = {}
  /\ pass = [p \in Reconcilers |-> NoPass]
  /\ aborts = 0

\* A run whose StartWorkflowRun has written the run and its nodes.
Init ==
  /\ run = "running"
  /\ node = [n \in Nodes |-> NewNode]
  /\ InitRest

Spec == Init /\ [][Next]_vars

\* StartWorkflowRun itself: two transactions, and the run is due for the
\* recovery sweep as soon as the first has committed.
CreateWorkflowRun ==
  /\ run = "none"
  /\ run' = "running"
  /\ UNCHANGED <<node, taskRun, request, lease, passed, pass, aborts>>

CreateWorkflowNodeRuns ==
  /\ run # "none"
  /\ With(node, {"none"}) = Nodes
  /\ node' = [n \in Nodes |-> NewNode]
  /\ UNCHANGED <<run, taskRun, request, lease, passed, pass, aborts>>

StartInit ==
  /\ run = "none"
  /\ node = [n \in Nodes |-> NoNode]
  /\ InitRest

StartSpec ==
  StartInit /\ [][Next \/ CreateWorkflowRun \/ CreateWorkflowNodeRuns]_vars

\* The recovery sweep (every 30 s, on every replica) keeps coming back to a run
\* that has not ended, a pass in progress goes on, a dead owner's lease runs
\* out, backoffs and expiries pass, and TaskRuns end (EveryRunSettles of
\* RunLifecycle).  Nobody has to answer or to cancel anything.
FairSpec ==
  /\ Spec
  /\ WF_vars(\E p \in Reconcilers : Reconcile(p))
  /\ \A p \in Reconcilers : WF_vars(PassStep(p))
  /\ \A n \in Nodes : WF_vars(TaskStep(n))
  /\ WF_vars(LeaseExpires)
  /\ WF_vars(\E t \in Deadlines \ passed : t[1] = "retry" /\ DeadlinePasses(t))
  /\ WF_vars(\E t \in Deadlines \ passed : t[1] = "request" /\ DeadlinePasses(t))

-----------------------------------------------------------------------------
(* Properties *)

Timers == {"run", "attempt", "retry", "request"} \X (Nodes \cup {"run"}) \X Nat

NodeRow == [status : NodeStatus, attempt : Nat, cur : Nat]

TaskRunRow ==
  [key    : {"attempt", "request"} \X Nat,
   status : RunActive \cup RunDone,
   cancel : {"none", "timeout", "stop", "person"}]

RequestRow ==
  [asker  : Nat,
   status : {"pending", "answered", "declined", "expired", "canceled"}]

PassRow ==
  [pc    : {"idle", "readRun", "readSteps", "deadline", "fold", "foldAsked",
            "answers", "linkAnswer", "refusedAnswer", "dispatch", "linkNode",
            "refusedNode", "drain", "drainRead", "release"},
   now   : SUBSET Timers,
   run   : {"none", "running"} \cup Stopping,
   steps : [Nodes -> NodeRow],
   todo  : SUBSET Nodes,
   req   : [Nodes -> Nat],
   count : Nat,
   got   : Nat]

\* Every row and every pass has its type, and a running node is linked to a
\* TaskRun that exists (what stepTaskRun relies on).
TypeOK ==
  /\ run \in {"none", "running"} \cup Stopping \cup RunEnded
  /\ node \in [Nodes -> NodeRow]
  /\ taskRun \in [Nodes -> Seq(TaskRunRow)]
  /\ request \in [Nodes -> Seq(RequestRow)]
  /\ \A n \in Nodes : /\ node[n].cur \in 0..Len(taskRun[n])
                      /\ node[n].status = "running" => node[n].cur # 0
  /\ lease \in [owner : Reconcilers \cup {NoOwner}, expired : BOOLEAN]
  /\ passed \subseteq Timers
  /\ pass \in [Reconcilers -> PassRow]
  /\ aborts \in 0..MaxAborts

Contract == INSTANCE WorkflowContract WITH
  phase <- run,
  begun <- [n \in Nodes |-> Len(taskRun[n]) + Len(request[n])],
  done  <- With(node, {"succeeded"})

\* A run driven by any number of passes, with or without their lease, keeps the
\* contract (docs/design/workflow-runtime.md: the lease is not the correctness
\* mechanism; admission keys and guarded transitions are).
ImplementsContract == Contract!Spec

\* The two-replica promise of Reconcile: repeating a pass never duplicates a
\* Task's run; at most one run of a node is active and no admission key is used
\* twice.
NoDuplicateAdmission ==
  \A n \in Nodes :
    /\ Cardinality(Active(n)) <= 1
    /\ \A j, k \in DOMAIN taskRun[n] :
         taskRun[n][j].key = taskRun[n][k].key => j = k

\* A succeeded run accepted, for every Agent node, a run that succeeded with
\* what its schema asked for and left no question, and for every human_input
\* node an answer: nothing counts as done by being skipped or stopped.
SuccessIsAccounted ==
  run = "succeeded" =>
    \A n \in Nodes :
      IF n \in Human
      THEN \E i \in DOMAIN request[n] : request[n][i].status = "answered"
      ELSE node[n].cur # 0 /\ taskRun[n][node[n].cur].status = "SUCCEEDED"

\* A person can only be asked by a run that is still running, for a node that
\* waits on that answer; and a node that waits has a request to wait for.
RequestsMatchWaits ==
  \A n \in Nodes :
    /\ (\E i \in DOMAIN request[n] : request[n][i].status = "pending")
         => run = "running" /\ node[n].status = "waiting"
    /\ node[n].status = "waiting"
         => request[n] # <<>> /\ request[n][Len(request[n])].status # "canceled"

\* The rows agree with one another: a running node with its TaskRun, a waiting one
\* with its request, an open request with its node and its run.
RowsAgree == TypeOK /\ RequestsMatchWaits

\* An ended run is quiet: no TaskRun of it executes and no node of it is
\* pending, running or waiting on an answer, whichever of a pass, a cancel, a
\* timeout and an answer came first.  No node is left between two attempts
\* either, unless a person canceled the run: scheduleRetry's update names the
\* node's status and not the run's, so a pass the cancel overtook still puts its
\* node into retry_wait, where docs/design/workflow-runtime.md 12.2 and 12.4 say
\* that stop intent cancels it outright.
EndedIsQuiet ==
  run \in RunEnded =>
    /\ \A n \in Nodes : Active(n) = {}
    /\ With(node, NodeEnded \cup {"retry_wait"}) = Nodes
    /\ run = "canceled" \/ With(node, NodeEnded) = Nodes

\* A node's next run follows an attempt that failed or asked: a success is never
\* repeated and a canceled attempt stops the run instead of being retried.
RetriesFollowFailures ==
  [][\A n \in Nodes :
       Len(taskRun'[n]) > Len(taskRun[n]) /\ taskRun[n] # <<>>
         => taskRun[n][Len(taskRun[n])].status \in
              {"ASKED", "FAILED", "UNSATISFIED", "TIMEDOUT"}]_vars

\* A node waits on a person for as long as the person likes: only a human_input
\* node's request may have an expiry.
AwaitsPerson ==
  /\ run = "running"
  /\ \E n \in With(node, {"waiting"}) \ (Timed \cap Human) :
       request[n][Len(request[n])].status = "pending"

\* Every run ends, through crashes, lost callbacks and dead lease owners, unless
\* it waits on a person, or every node is done and the result does not resolve:
\* then each pass fails on it, although Reconcile says that "a failed pass must
\* not strand the run".
EveryRunEnds ==
  <>[](\/ run \in RunEnded
       \/ AwaitsPerson
       \/ FALSE \in Results /\ run = "running" /\ With(node, {"succeeded"}) = Nodes)
=============================================================================
