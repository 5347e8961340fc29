------------------------ MODULE WorkflowSoleProofs ------------------------
(***************************************************************************)
(* What a workflow run keeps besides while its lease does exclude: no lease *)
(* runs out under a live pass (StaleOwners = FALSE).                        *)
(*                                                                         *)
(* WorkflowRuntimeProofs assumes nothing of the lease.  Here one pass at a  *)
(* time reads and writes, so what it has read of the nodes it still has to  *)
(* look at is what the rows say, but for what people and TaskRuns do beside *)
(* it (SolePass).  The rows then agree with one another (SoleNode): a node  *)
(* is linked to its Task's last run, and only a running node has a TaskRun  *)
(* that executes.                                                           *)
(***************************************************************************)
EXTENDS WorkflowRuntimeProofs

LastStatus(n) == taskRun[n][Len(taskRun[n])].status

\* A node is linked to the last run of its Task, which executes only while the
\* node runs; how that run ended is why the node retries or waits.
Work(n) ==
  /\ node[n].cur = Len(taskRun[n])
  /\ \A k \in Active(n) : k = Len(taskRun[n]) /\ node[n].status = "running"
  /\ node[n].status = "pending" => taskRun[n] = <<>>
  /\ taskRun[n] # <<>> => node[n].attempt > 0
  /\ node[n].status = "retry_wait" => Retryable(LastStatus(n))
  /\ node[n].status = "waiting" /\ n \notin Human
       => taskRun[n] # <<>> /\ LastStatus(n) = "ASKED"

\* No admission key is ahead of the attempt or the request it stands for, and
\* the request a node waits for has admitted nothing.
Keys(n) ==
  \A k \in DOMAIN taskRun[n] :
    LET key == taskRun[n][k].key
    IN  /\ key[1] = "attempt" => key[2] <= node[n].attempt
        /\ key[1] = "request" =>
             /\ key[2] <= Len(request[n])
             /\ node[n].status = "waiting" => key[2] # Len(request[n])

\* Only the last request may be pending, in a running run, for a waiting node.
Asked(n) ==
  /\ \A i \in DOMAIN request[n] :
       request[n][i].status = "pending"
         => run = "running" /\ node[n].status = "waiting" /\ i = Len(request[n])
  /\ node[n].status = "waiting"
       => run = "running" /\ request[n][Len(request[n])].status # "canceled"

Failing == {"failing", "failed"}

\* A stop leaves nothing pending or waiting, a failure no retry either, an end
\* nothing that runs.
Halted(n) ==
  /\ run \in Stopped => node[n].status \notin {"pending", "waiting"}
  /\ run \in Failing => node[n].status # "retry_wait"
  /\ run \in RunEnded => node[n].status # "running"

SoleNode(n) == Work(n) /\ Keys(n) /\ Asked(n) /\ Halted(n)

SoleRows == \A n \in Nodes : SoleNode(n)

\* What the one pass has read is what the rows say, of the nodes it still has to
\* look at and where its next write relies on it.  A person may cancel the run
\* under a fold, but only the pass itself fails it.
SolePass(c) ==
  /\ c.pc = "readSteps" /\ c.run \notin Stopping => run \notin Failing
  /\ c.pc \in {"fold", "foldAsked"} => run \notin Failing
  /\ c.pc \in {"fold", "foldAsked", "drain", "drainRead"}
       => \A n \in c.todo : node[n] = c.steps[n]
  /\ c.pc \in Answering => \A n \in c.todo : c.req[n] = Len(request[n])
  /\ c.pc = "linkAnswer" => node[First(c.todo)].status # "waiting"
  /\ c.pc \in Dispatching
       => \A n \in c.todo : node[n].status = c.steps[n].status
                              => node[n].attempt = c.steps[n].attempt
  /\ c.pc = "linkNode" => node[First(c.todo)].status # c.steps[First(c.todo)].status
  /\ c.pc \in {"drain", "drainRead"} /\ c.count = 0
       => \A n \in Nodes : node[n].status = "running" => n \in c.todo

\* A pass in progress holds a lease that has not run out.
Owner(p) == pass[p].pc # "idle" => lease.owner = p /\ ~lease.expired

SoleInv == SoleRows /\ \A p \in Reconcilers : Owner(p) /\ SolePass(pass[p])

-----------------------------------------------------------------------------
(* The writes of one pass at a time *)

NoPending(n) == \A i \in DOMAIN request[n] : request[n][i].status # "pending"

\* A stop ends no node whose TaskRun executes.
SoleStop ==
  /\ StopWrite
  /\ \A m \in Nodes :
       /\ node'[m].attempt = node[m].attempt /\ node'[m].cur = node[m].cur
       /\ node[m].status = "running" /\ node'[m].status # "running" => Active(m) = {}

\* A node moves on how its TaskRun ended or on its answer.
SoleMove(n, new) ==
  /\ new \in NodeRow /\ new.attempt = node[n].attempt /\ new.cur = node[n].cur
  /\ Active(n) = {} /\ NoPending(n)
  /\ new.status \in {"retry_wait", "succeeded", "failed", "canceled"}
  /\ new.status = "retry_wait" => Retryable(LastStatus(n)) /\ run \notin Failing
  /\ node' = [node EXCEPT ![n] = new]
  /\ run' = run /\ taskRun' = taskRun /\ request' = request

\* An admission's key stands for the attempt or the request it is made for.
SoleAdmit(n, key, new) ==
  /\ AdmitWrite(n, key, new) /\ NoPending(n)
  /\ new.attempt >= node[n].attempt /\ new.attempt > 0
  /\ key[1] = "attempt" => key[2] <= new.attempt
  /\ key[1] = "request" => key[2] <= Len(request[n])

\* An Agent's question follows the run that asked it.
SoleOpen(n, asker) ==
  /\ OpenWrite(n, asker)
  /\ Active(n) = {} /\ NoPending(n)
  /\ n \notin Human => taskRun[n] # <<>> /\ LastStatus(n) = "ASKED"

\* A run ends when no node of it runs.
SoleEnd == EndWrite /\ \A n \in Nodes : node[n].status # "running"

SoleStep ==
  \/ UNCHANGED rows
  \/ SoleStop
  \/ \E n \in Nodes, new \in NodeRow : SoleMove(n, new)
  \/ \E n \in Nodes : \E k \in DOMAIN taskRun[n], row \in TaskRunRow : TaskWrite(n, k, row)
  \/ \E n \in Nodes, key \in {"attempt", "request"} \X Nat, new \in NodeRow :
       SoleAdmit(n, key, new)
  \/ \E n \in Nodes, asker \in Nat : SoleOpen(n, asker)
  \/ \E n \in Nodes : \E i \in DOMAIN request[n],
         to \in {"answered", "declined", "expired"} : ResolveWrite(n, i, to)
  \/ SoleEnd

\* A write elsewhere leaves a node's rows as they were.
LEMMA SoleSame ==
  ASSUME NEW n \in Nodes, SoleNode(n), run' = run, node'[n] = node[n],
         taskRun'[n] = taskRun[n], request'[n] = request[n]
  PROVE  SoleNode(n)'
BY DEF SoleNode, Work, Keys, Asked, Halted, Active, LastStatus

\* A TaskRun that moves is the last of its Task, and its node runs.
LEMMA TaskKeeps ==
  ASSUME RowInv, SoleRows, NEW n \in Nodes, NEW k \in DOMAIN taskRun[n],
         NEW row \in TaskRunRow, TaskWrite(n, k, row)
  PROVE  SoleRows'
<1>1. /\ run' = run /\ node' = node /\ request' = request
      /\ taskRun'[n] = [taskRun[n] EXCEPT ![k] = row]
      /\ \A m \in Nodes \ {n} : taskRun'[m] = taskRun[m]
      /\ taskRun[n] \in Seq(TaskRunRow)
  BY DEF TaskWrite, RowInv, Rows
<1>2. /\ Len(taskRun'[n]) = Len(taskRun[n]) /\ DOMAIN taskRun'[n] = DOMAIN taskRun[n]
      /\ taskRun'[n][k] = row
      /\ \A j \in DOMAIN taskRun[n] : j # k => taskRun'[n][j] = taskRun[n][j]
      /\ taskRun[n] # <<>>
  BY <1>1
<1>3. \A m \in Nodes \ {n} : SoleNode(m)'
  BY <1>1, SoleSame DEF SoleRows
<1>4. SoleNode(n) /\ k \in Active(n) /\ node[n].status = "running"
  BY DEF SoleRows, SoleNode, Work, Active, TaskWrite
<1>5. Active(n)' \subseteq Active(n)
  BY <1>2, <1>4 DEF Active
<1>6. Work(n)'
  BY <1>1, <1>2, <1>4, <1>5 DEF SoleNode, Work
<1>7. \A j \in DOMAIN taskRun[n] : taskRun'[n][j].key = taskRun[n][j].key
  BY <1>2 DEF TaskWrite
<1>8. Keys(n)'
  BY <1>1, <1>2, <1>4, <1>7 DEF SoleNode, Keys
<1>9. Asked(n)' /\ Halted(n)'
  BY <1>1, <1>4 DEF SoleNode, Asked, Halted
<1> QED
  BY <1>3, <1>6, <1>8, <1>9 DEF SoleRows, SoleNode

\* A request that is resolved is no longer pending, and not canceled either.
LEMMA ResolveKeeps ==
  ASSUME RowInv, SoleRows, NEW n \in Nodes, NEW i \in DOMAIN request[n], NEW to,
         ResolveWrite(n, i, to)
  PROVE  SoleRows'
<1>1. /\ run' = run /\ node' = node /\ taskRun' = taskRun
      /\ request'[n] = [request[n] EXCEPT ![i] = [request[n][i] EXCEPT !.status = to]]
      /\ \A m \in Nodes \ {n} : request'[m] = request[m]
      /\ request[n] \in Seq(RequestRow) /\ request[n][i] \in RequestRow
  BY DEF ResolveWrite, RowInv, Rows
<1>2. PICK q : q = [request[n][i] EXCEPT !.status = to]
  OBVIOUS
<1>3. q.status = to /\ to \in {"answered", "declined", "expired"}
  BY <1>1, <1>2 DEF RequestRow, ResolveWrite
<1>4. /\ Len(request'[n]) = Len(request[n]) /\ DOMAIN request'[n] = DOMAIN request[n]
      /\ request'[n][i] = q
      /\ \A j \in DOMAIN request[n] : j # i => request'[n][j] = request[n][j]
  BY <1>1, <1>2
<1>5. \A m \in Nodes \ {n} : SoleNode(m)'
  BY <1>1, SoleSame DEF SoleRows
<1>6. SoleNode(n)
  BY DEF SoleRows
<1>7. Work(n)' /\ Keys(n)' /\ Halted(n)'
  BY <1>1, <1>4, <1>6 DEF SoleNode, Work, Keys, Halted, Active, LastStatus
<1>8. Len(request[n]) \in DOMAIN request[n]
  <2>1. DOMAIN request[n] = 1..Len(request[n]) /\ Len(request[n]) \in Nat
    BY <1>1
  <2> QED
    BY <2>1
<1>9. Asked(n)'
  BY <1>1, <1>3, <1>4, <1>6, <1>8 DEF SoleNode, Asked
<1> QED
  BY <1>5, <1>6, <1>7, <1>9 DEF SoleRows, SoleNode

\* A node that moves on leaves no TaskRun executing and no request open.
LEMMA MoveKeeps ==
  ASSUME RowInv, SoleRows, NEW n \in Nodes, NEW new \in NodeRow, SoleMove(n, new)
  PROVE  SoleRows'
<1>1. /\ run' = run /\ taskRun' = taskRun /\ request' = request
      /\ node'[n] = new /\ \A m \in Nodes \ {n} : node'[m] = node[m]
  BY DEF SoleMove, RowInv, Rows
<1>2. \A m \in Nodes \ {n} : SoleNode(m)'
  BY <1>1, SoleSame DEF SoleRows
<1>3. /\ SoleNode(n) /\ Active(n)' = Active(n)
      /\ new.attempt = node[n].attempt /\ new.cur = node[n].cur /\ Active(n) = {}
      /\ NoPending(n)
      /\ new.status \in {"retry_wait", "succeeded", "failed", "canceled"}
      /\ new.status = "retry_wait" => Retryable(LastStatus(n)) /\ run \notin Failing
  BY <1>1 DEF SoleRows, SoleMove, Active
<1>4. Work(n)'
  BY <1>1, <1>3 DEF SoleNode, Work, LastStatus
<1>5. Keys(n)' /\ Asked(n)' /\ Halted(n)'
  BY <1>1, <1>3 DEF SoleNode, Keys, Asked, Halted, NoPending
<1> QED
  BY <1>2, <1>4, <1>5 DEF SoleRows, SoleNode

\* An admission follows the end of the Task's last run, and its key is new.
LEMMA AdmitKeeps ==
  ASSUME RowInv, SoleRows, NEW n \in Nodes, NEW key \in {"attempt", "request"} \X Nat,
         NEW new \in NodeRow, SoleAdmit(n, key, new)
  PROVE  SoleRows'
<1> DEFINE row == NewTaskRun(key)
<1>0. row \in TaskRunRow /\ row.key = key
  BY DEF NewTaskRun, TaskRunRow, RunActive
<1> HIDE DEF row
<1>1. /\ run' = run /\ request' = request
      /\ node'[n] = new /\ \A m \in Nodes \ {n} : node'[m] = node[m]
      /\ taskRun'[n] = Append(taskRun[n], row)
      /\ \A m \in Nodes \ {n} : taskRun'[m] = taskRun[m]
      /\ taskRun[n] \in Seq(TaskRunRow) /\ Len(request[n]) \in Nat
      /\ node[n].attempt \in Nat /\ new.attempt \in Nat
  BY DEF SoleAdmit, AdmitWrite, RowInv, Rows, NodeRow, row
<1>2. /\ taskRun'[n] # <<>>
      /\ Len(taskRun[n]) \in Nat /\ Len(taskRun'[n]) = Len(taskRun[n]) + 1
      /\ DOMAIN taskRun'[n] = DOMAIN taskRun[n] \cup {Len(taskRun[n]) + 1}
      /\ \A i \in DOMAIN taskRun[n] : taskRun'[n][i] = taskRun[n][i]
      /\ taskRun'[n][Len(taskRun[n]) + 1] = row
  BY <1>0, <1>1, AppendFacts
<1>3. \A m \in Nodes \ {n} : SoleNode(m)'
  BY <1>1, SoleSame DEF SoleRows
<1>4. /\ SoleNode(n) /\ new.status = "running" /\ new.cur = Len(taskRun[n]) + 1
      /\ run = "running" /\ Active(n) = {} /\ NoPending(n)
      /\ new.attempt >= node[n].attempt /\ new.attempt > 0
      /\ key[1] = "attempt" => key[2] <= new.attempt
      /\ key[1] = "request" => key[2] <= Len(request[n])
  BY DEF SoleRows, SoleAdmit, AdmitWrite
<1>5. Active(n)' \subseteq {Len(taskRun[n]) + 1}
  BY <1>2, <1>4 DEF Active
<1>6. Work(n)'
  BY <1>1, <1>2, <1>4, <1>5 DEF Work
<1>7. Keys(n)'
  <2> SUFFICES ASSUME NEW k \in DOMAIN taskRun'[n]
               PROVE  /\ taskRun'[n][k].key[1] = "attempt"
                           => taskRun'[n][k].key[2] <= new.attempt
                      /\ taskRun'[n][k].key[1] = "request"
                           => taskRun'[n][k].key[2] <= Len(request[n])
    BY <1>1, <1>4 DEF Keys
  <2>1. CASE k \in DOMAIN taskRun[n]
    <3>1. PICK r \in TaskRunRow : r = taskRun[n][k] /\ r = taskRun'[n][k]
      BY <1>1, <1>2, <2>1
    <3>2. r.key[2] \in Nat
      BY DEF TaskRunRow
    <3>3. /\ r.key[1] = "attempt" => r.key[2] <= node[n].attempt
          /\ r.key[1] = "request" => r.key[2] <= Len(request[n])
      BY <1>4, <2>1, <3>1 DEF SoleNode, Keys
    <3> QED
      BY <1>1, <1>4, <3>1, <3>2, <3>3
  <2>2. CASE k = Len(taskRun[n]) + 1
    BY <1>0, <1>2, <1>4, <2>2
  <2> QED
    BY <1>2, <2>1, <2>2
<1>8. Asked(n)' /\ Halted(n)'
  BY <1>1, <1>4 DEF Asked, Halted, NoPending, Stopped, Stopping, RunEnded, Failing
<1> QED
  BY <1>3, <1>6, <1>7, <1>8 DEF SoleRows, SoleNode

\* The new request is the last and the only pending one, and no key stands for it.
LEMMA OpenKeeps ==
  ASSUME RowInv, SoleRows, NEW n \in Nodes, NEW asker \in Nat, SoleOpen(n, asker)
  PROVE  SoleRows'
<1>p. PICK q : q = [asker |-> asker, status |-> "pending"]
  OBVIOUS
<1>0. q \in RequestRow /\ q.status = "pending"
  BY <1>p DEF RequestRow
<1>n. PICK new : new = [node[n] EXCEPT !.status = "waiting"]
  OBVIOUS
<1>m. /\ new.status = "waiting" /\ new.cur = node[n].cur /\ new.attempt = node[n].attempt
  BY <1>n DEF RowInv, Rows, NodeRow, NodeStatus
<1>1. /\ run' = run /\ taskRun' = taskRun /\ run = "running"
      /\ node'[n] = new /\ \A m \in Nodes \ {n} : node'[m] = node[m]
      /\ request'[n] = Append(request[n], q)
      /\ \A m \in Nodes \ {n} : request'[m] = request[m]
      /\ request[n] \in Seq(RequestRow) /\ taskRun[n] \in Seq(TaskRunRow)
  BY <1>p, <1>n DEF SoleOpen, OpenWrite, RowInv, Rows
<1>2. /\ Len(request[n]) \in Nat /\ Len(request'[n]) = Len(request[n]) + 1
      /\ DOMAIN request'[n] = DOMAIN request[n] \cup {Len(request[n]) + 1}
      /\ \A i \in DOMAIN request[n] : request'[n][i] = request[n][i]
      /\ request'[n][Len(request[n]) + 1] = q
  BY <1>0, <1>1, AppendFacts
<1>3. \A m \in Nodes \ {n} : SoleNode(m)'
  BY <1>1, SoleSame DEF SoleRows
<1>4. /\ SoleNode(n) /\ Active(n) = {} /\ NoPending(n) /\ Active(n)' = Active(n)
      /\ n \notin Human => taskRun[n] # <<>> /\ LastStatus(n) = "ASKED"
  BY <1>1 DEF SoleRows, SoleOpen, Active
<1>5. Work(n)'
  BY <1>1, <1>4, <1>m DEF SoleNode, Work, LastStatus
<1>6. Keys(n)'
  <2> SUFFICES ASSUME NEW k \in DOMAIN taskRun[n]
               PROVE  /\ taskRun[n][k].key[1] = "attempt"
                           => taskRun[n][k].key[2] <= new.attempt
                      /\ taskRun[n][k].key[1] = "request"
                           => /\ taskRun[n][k].key[2] <= Len(request'[n])
                              /\ taskRun[n][k].key[2] # Len(request'[n])
    BY <1>1, <1>4 DEF Keys
  <2>1. PICK r \in TaskRunRow : r = taskRun[n][k]
    BY <1>1
  <2>2. r.key[2] \in Nat
    BY DEF TaskRunRow
  <2>3. /\ r.key[1] = "attempt" => r.key[2] <= node[n].attempt
        /\ r.key[1] = "request" => r.key[2] <= Len(request[n])
    BY <1>4, <2>1 DEF SoleNode, Keys
  <2> QED
    BY <1>2, <1>m, <2>1, <2>2, <2>3
<1>7. Asked(n)'
  BY <1>0, <1>1, <1>2, <1>4, <1>m DEF Asked, NoPending
<1>8. Halted(n)'
  BY <1>1 DEF Halted, Stopped, Stopping, RunEnded, Failing
<1> QED
  BY <1>3, <1>5, <1>6, <1>7, <1>8 DEF SoleRows, SoleNode

\* A stop leaves running nodes with their TaskRuns and closes every request.
LEMMA StopKeeps ==
  ASSUME RowInv, SoleRows, SoleStop
  PROVE  SoleRows'
<1> SUFFICES ASSUME NEW n \in Nodes PROVE SoleNode(n)'
  BY DEF SoleRows
<1>1. /\ SoleNode(n) /\ taskRun' = taskRun /\ run = "running" /\ run' \in Stopping
      /\ request'[n] = closeRequests[n]
      /\ node'[n].attempt = node[n].attempt /\ node'[n].cur = node[n].cur
      /\ node[n].status = "running" /\ node'[n].status # "running" => Active(n) = {}
  BY DEF SoleRows, SoleStop, StopWrite
<1>2. node'[n].status \in NodeEnded \cup {"running"}
  BY DEF SoleStop, StopWrite, NodeEnded
<1>3. /\ Len(request'[n]) = Len(request[n]) /\ DOMAIN request'[n] = DOMAIN request[n]
      /\ \A i \in DOMAIN request[n] : request'[n][i].status # "pending"
  BY <1>1, Closed DEF RowInv
<1>4. Active(n)' = Active(n)
  BY <1>1 DEF Active
<1>5. Work(n)'
  BY <1>1, <1>2, <1>4 DEF SoleNode, Work, NodeEnded
<1>6. Keys(n)'
  BY <1>1, <1>2, <1>3 DEF SoleNode, Keys, NodeEnded
<1>7. Asked(n)' /\ Halted(n)'
  BY <1>1, <1>2, <1>3 DEF Asked, Halted, NodeEnded, Stopping, RunEnded
<1> QED
  BY <1>5, <1>6, <1>7 DEF SoleNode

\* A run ends from a stop that has drained, or with every node succeeded.
LEMMA EndKeeps ==
  ASSUME RowInv, SoleRows, SoleEnd
  PROVE  SoleRows'
<1> SUFFICES ASSUME NEW n \in Nodes PROVE SoleNode(n)'
  BY DEF SoleRows
<1>1. /\ SoleNode(n) /\ taskRun' = taskRun /\ node' = node /\ request' = request
      /\ node[n].status # "running"
  BY DEF SoleRows, SoleEnd, EndWrite
<1>2. Work(n)' /\ Keys(n)'
  BY <1>1 DEF SoleNode, Work, Keys, Active, LastStatus
<1>3. /\ node[n].status \notin {"pending", "waiting"}
      /\ run' \in Failing => node[n].status # "retry_wait"
  BY <1>1 DEF SoleNode, Halted, SoleEnd, EndWrite, Stopped, Stopping, Failing
<1>4. Asked(n)' /\ Halted(n)'
  BY <1>1, <1>3 DEF SoleNode, Asked, Halted
<1> QED
  BY <1>2, <1>4 DEF SoleNode

\* Every such write keeps the rows in agreement.
LEMMA SoleStepKeeps ==
  ASSUME RowInv, SoleRows, SoleStep
  PROVE  SoleRows'
<1>1. ASSUME UNCHANGED rows PROVE SoleRows'
  BY <1>1, SoleSame DEF SoleRows, rows
<1> QED
  BY <1>1, StopKeeps, MoveKeeps, TaskKeeps, AdmitKeeps, OpenKeeps, ResolveKeeps, EndKeeps
     DEF SoleStep

-----------------------------------------------------------------------------
(* The store operations, beside no other pass *)

\* A write that leaves the run and the nodes alone moves a TaskRun or resolves a
\* request.
LEMMA OutsideIsSole ==
  ASSUME RowInv, RowStep, run' = run, node' = node
  PROVE  SoleStep
<1>1. node \in [Nodes -> NodeRow]
  BY DEF RowInv, Rows
<1>2. ~StopWrite /\ ~EndWrite
  BY DEF StopWrite, EndWrite, Stopping
<1>3. ASSUME NEW n \in Nodes, NEW new \in NodeRow, NodeWrite(n, new) PROVE SoleStep
  BY <1>3 DEF NodeWrite, SoleStep, rows
<1>4. ASSUME NEW n \in Nodes, NEW key \in {"attempt", "request"} \X Nat, NEW new \in NodeRow,
             AdmitWrite(n, key, new)
      PROVE  FALSE
  <2>1. node'[n] = new
    BY <1>1, <1>4 DEF AdmitWrite
  <2> QED
    BY <1>4, <2>1 DEF AdmitWrite
<1>5. ASSUME NEW n \in Nodes, NEW asker \in Nat, OpenWrite(n, asker) PROVE FALSE
  <2>1. PICK new : new = [node[n] EXCEPT !.status = "waiting"]
    OBVIOUS
  <2>2. node'[n] = new /\ new.status = "waiting"
    BY <1>1, <1>5, <2>1 DEF OpenWrite, NodeRow
  <2> QED
    BY <1>5, <2>2 DEF OpenWrite
<1> QED
  BY <1>2, <1>3, <1>4, <1>5 DEF RowStep, SoleStep

\* Of the writes only a stop takes a running run to failing or canceling.
LEMMA StopOf ==
  ASSUME RowStep, run = "running", run' \in Stopping
  PROVE  StopWrite
BY DEF RowStep, rows, NodeWrite, TaskWrite, AdmitWrite, OpenWrite, ResolveWrite, EndWrite,
   Stopping

\* stopPendingNodesTx changes no attempt and no link.
LEMMA StoppedLinks ==
  ASSUME NEW S \in [Nodes -> NodeRow], NEW m \in Nodes
  PROVE  /\ stopPendingNodes(S)[m].attempt = S[m].attempt
         /\ stopPendingNodes(S)[m].cur = S[m].cur
<1>1. PICK s \in NodeRow : s = S[m]
  OBVIOUS
<1>2. stopPendingNodes(S)[m] =
        CASE s.status = "pending" -> [s EXCEPT !.status = "blocked"]
          [] s.status \in {"retry_wait", "waiting"} -> [s EXCEPT !.status = "canceled"]
          [] OTHER -> s
  BY <1>1 DEF stopPendingNodes
<1> QED
  BY <1>1, <1>2 DEF NodeRow

\* What a stop that ends no running node may do to a node.
Stopless(m) ==
  \/ node'[m] = node[m]
  \/ /\ node[m].status \in {"pending", "retry_wait", "waiting"}
     /\ node'[m].status \in {"blocked", "canceled"}

\* StopWorkflowRun ends no running node.
LEMMA StopIsSole ==
  ASSUME RowInv, NEW to \in Stopping, StopWorkflowRun(to), taskRun' = taskRun
  PROVE  /\ SoleStep
         /\ \A m \in Nodes : Stopless(m) /\ Len(request'[m]) = Len(request[m])
<1>0. node \in [Nodes -> NodeRow]
  BY DEF RowInv, Rows
<1>1. CASE run = "running"
  <2>1. run' = to /\ node' = stopPendingNodes(node) /\ request' = closeRequests
    BY <1>1 DEF StopWorkflowRun
  <2>2. StopWrite
    BY <1>1, <2>1, StopIsWrite, StopOf
  <2>3. \A m \in Nodes : Stopless(m)
    BY <1>0, <2>1, StoppedNodes DEF Stopless
  <2>4. \A m \in Nodes : node'[m].attempt = node[m].attempt /\ node'[m].cur = node[m].cur
    BY <1>0, <2>1, StoppedLinks
  <2>5. SoleStop
    BY <2>2, <2>3, <2>4 DEF SoleStop, Stopless
  <2>6. \A m \in Nodes : Len(request'[m]) = Len(request[m])
    BY <2>1, Closed DEF RowInv
  <2> QED
    BY <2>3, <2>5, <2>6 DEF SoleStep
<1>2. CASE run # "running"
  BY <1>2 DEF StopWorkflowRun, SoleStep, rows, Stopless
<1> QED
  BY <1>1, <1>2

\* BeginWorkflowRunDrain ends a node with no TaskRun executing.
LEMMA DrainIsSole ==
  ASSUME RowInv, NEW n \in Nodes, NEW from \in Open, NEW new \in NodeRow,
         NEW to \in Stopping, new.status \in {"failed", "canceled"},
         new.attempt = node[n].attempt, new.cur = node[n].cur,
         from = "running" => Active(n) = {},
         BeginWorkflowRunDrain(n, from, new, to), taskRun' = taskRun
  PROVE  SoleStep
<1>0. node \in [Nodes -> NodeRow] /\ new.cur \in 0..Len(taskRun[n])
  BY DEF RowInv, Rows
<1>1. CASE run = "running" /\ node[n].status = from
  <2>1. PICK S : S = [node EXCEPT ![n] = new]
    OBVIOUS
  <2>2. run' = to /\ node' = stopPendingNodes(S)
    BY <1>1, <2>1 DEF BeginWorkflowRunDrain
  <2>3. S \in [Nodes -> NodeRow] /\ S[n] = new /\ \A m \in Nodes \ {n} : S[m] = node[m]
    BY <1>0, <2>1
  <2>4. RowStep
    BY <1>0, DrainIsWrite
  <2>5. StopWrite
    BY <1>1, <2>2, <2>4, StopOf
  <2>6. \A m \in Nodes : node'[m].attempt = node[m].attempt /\ node'[m].cur = node[m].cur
    BY <2>2, <2>3, StoppedLinks
  <2>7. \A m \in Nodes \ {n} : node[m].status = "running" => node'[m] = node[m]
    BY <2>2, <2>3, StoppedNodes
  <2>8. SoleStop
    BY <1>1, <2>5, <2>6, <2>7 DEF SoleStop
  <2> QED
    BY <2>8 DEF SoleStep
<1>2. CASE ~(run = "running" /\ node[n].status = from)
  BY <1>2 DEF BeginWorkflowRunDrain, SoleStep, rows
<1> QED
  BY <1>1, <1>2

\* A guarded transition out of a node whose TaskRun and requests are done.
LEMMA MoveIsSole ==
  ASSUME NEW n \in Nodes, NEW from, NEW new \in NodeRow,
         TransitionWorkflowNodeRun(n, from, new),
         run' = run, taskRun' = taskRun, request' = request,
         node[n].status = from =>
           /\ new.attempt = node[n].attempt /\ new.cur = node[n].cur
           /\ Active(n) = {} /\ NoPending(n)
           /\ new.status \in {"retry_wait", "succeeded", "failed", "canceled"}
           /\ new.status = "retry_wait" => Retryable(LastStatus(n)) /\ run \notin Failing
  PROVE  SoleStep
<1>1. CASE node[n].status = from
  <2>1. SoleMove(n, new)
    BY <1>1 DEF TransitionWorkflowNodeRun, SoleMove
  <2> QED
    BY <2>1 DEF SoleStep
<1>2. CASE node[n].status # from
  BY <1>2 DEF TransitionWorkflowNodeRun, SoleStep, rows
<1> QED
  BY <1>1, <1>2

\* OpenWorkflowRequest, for the run that asked or for a human_input node.
LEMMA OpenIsSole ==
  ASSUME RowInv, NEW n \in Nodes, NEW from \in {"pending", "running"}, NEW asker \in Nat,
         OpenWorkflowRequest(n, from, asker), run' = run, taskRun' = taskRun,
         node[n].status = from =>
           /\ NeedsDone(n) /\ ((asker = 0) <=> (n \in Human))
           /\ Active(n) = {} /\ NoPending(n)
           /\ n \notin Human => taskRun[n] # <<>> /\ LastStatus(n) = "ASKED"
  PROVE  SoleStep /\ \A m \in Nodes \ {n} : node'[m] = node[m]
<1>1. node \in [Nodes -> NodeRow] /\ request \in [Nodes -> Seq(RequestRow)]
  BY DEF RowInv, Rows
<1>2. CASE RequestMayOpen(n, from, asker)
  <2>1. node' = [node EXCEPT ![n] = [node[n] EXCEPT !.status = "waiting"]]
    BY <1>1, <1>2 DEF OpenWorkflowRequest, NodeRow
  <2>2. request' = [request EXCEPT
          ![n] = Append(request[n], [asker |-> asker, status |-> "pending"])]
    BY <1>1, <1>2 DEF OpenWorkflowRequest
  <2>3. run = "running" /\ node[n].status = from
    BY <1>2 DEF RequestMayOpen
  <2>4. SoleOpen(n, asker)
    BY <2>1, <2>2, <2>3 DEF OpenWrite, SoleOpen
  <2> QED
    BY <1>1, <2>1, <2>4 DEF SoleStep
<1>3. CASE ~RequestMayOpen(n, from, asker)
  BY <1>3 DEF OpenWorkflowRequest, SoleStep, rows
<1> QED
  BY <1>2, <1>3

\* An admission for a node that still is as expected uses a new key, so it makes
\* a new run; otherwise it changes nothing.
LEMMA AdmitIsSole ==
  ASSUME RowInv, NEW n \in Nodes \ Human, NEW from \in {"pending", "retry_wait", "waiting"},
         NEW a \in Nat, NEW b \in Nat, NEW key \in {"attempt", "request"} \X Nat, NEW got,
         Admit(n, from, a, b, key, got), run' = run, request' = request,
         node[n].status = from =>
           /\ NeedsDone(n) /\ NoPending(n)
           /\ \A k \in DOMAIN taskRun[n] : taskRun[n][k].key # key
           /\ key = AttemptKey(1) => taskRun[n] = <<>>
           /\ b >= node[n].attempt /\ b > 0
           /\ key[1] = "attempt" => key[2] <= b
           /\ key[1] = "request" => key[2] <= Len(request[n])
  PROVE  /\ SoleStep /\ node'[n].status # from
         /\ \A m \in Nodes \ {n} : node'[m] = node[m]
<1>1. /\ taskRun[n] \in Seq(TaskRunRow) /\ Len(taskRun[n]) \in Nat
      /\ DOMAIN taskRun[n] = 1..Len(taskRun[n])
      /\ node[n].cur \in 0..Len(taskRun[n])
      /\ taskRun \in [Nodes -> Seq(TaskRunRow)] /\ node \in [Nodes -> NodeRow]
  BY DEF RowInv, Rows
<1>2. node[n].status = from => ~AlreadyLinked(n, key)
  <2> SUFFICES ASSUME node[n].status = from, node[n].cur # 0 PROVE taskRun[n][node[n].cur].key # key
    BY DEF AlreadyLinked
  <2>1. node[n].cur \in DOMAIN taskRun[n]
    BY <1>1
  <2> QED
    BY <2>1
<1>3. CASE AlreadyLinked(n, key)
  BY <1>2, <1>3 DEF Admit, SoleStep, rows
<1>4. CASE ~AlreadyLinked(n, key)
  <2>1. AdmitGuard(n, from, a)
    BY <1>4 DEF Admit
  <2>2. run = "running" /\ node[n].status = from
    BY <2>1 DEF AdmitGuard
  <2> DEFINE used == {k \in DOMAIN taskRun[n] : taskRun[n][k].key = key}
  <2>3. used = {}
    BY <2>2
  <2>4. /\ TaskIdle(n) /\ got = Len(taskRun[n]) + 1
        /\ taskRun' = [taskRun EXCEPT ![n] = Append(taskRun[n], NewTaskRun(key))]
        /\ node' = [node EXCEPT ![n] = [status |-> "running", attempt |-> b, cur |-> got]]
    BY <1>1, <1>4, <2>3 DEF Admit
  <2>5. PICK new : new = [status |-> "running", attempt |-> b, cur |-> got]
    OBVIOUS
  <2>6. /\ new \in NodeRow /\ new.status = "running" /\ new.cur = Len(taskRun[n]) + 1
        /\ new.attempt = b
    BY <1>1, <2>4, <2>5 DEF NodeRow, NodeStatus
  <2>7. AdmitWrite(n, key, new)
    BY <2>2, <2>4, <2>5, <2>6 DEF AdmitWrite, TaskIdle, Open
  <2>8. SoleAdmit(n, key, new)
    BY <2>2, <2>6, <2>7 DEF SoleAdmit
  <2>9. node'[n] = new /\ \A m \in Nodes \ {n} : node'[m] = node[m]
    BY <1>1, <2>4, <2>5
  <2> QED
    BY <2>6, <2>8, <2>9 DEF SoleStep
<1> QED
  BY <1>3, <1>4

-----------------------------------------------------------------------------
(* What the pass has read *)

\* What a step of the one pass is shown to do.
SoleEffect(p) == SoleStep /\ SolePass(pass[p])'

\* Where a pass has read nothing it will use.
LEMMA SoleFresh ==
  ASSUME NEW p \in Reconcilers,
         pass'[p].pc \in {"idle", "readRun", "deadline", "release"}
  PROVE  SolePass(pass[p])'
BY DEF SolePass, Answering, Dispatching

\* A pass that returns or starts over.
LEMMA SoleReturn ==
  ASSUME FlowInv, NEW p \in Reconcilers, SoleStep, Return(p) \/ Restart(p)
  PROVE  SoleEffect(p)
<1>1. PICK c, d : /\ c = [NoPass EXCEPT !.pc = "release"]
                  /\ d = [NoPass EXCEPT !.pc = "readRun", !.now = pass[p].now]
  OBVIOUS
<1>2. c.pc = "release" /\ d.pc = "readRun"
  BY <1>1 DEF NoPass
<1>3. pass' = [pass EXCEPT ![p] = c] \/ pass' = [pass EXCEPT ![p] = d]
  BY <1>1, Zenon DEF Return, Restart
<1>4. pass \in [Reconcilers -> PassRow]
  BY DEF FlowInv, Others
<1>5. pass'[p].pc \in {"release", "readRun"}
  BY <1>2, <1>3, <1>4
<1> QED
  BY <1>5, SoleFresh DEF SoleEffect

\* People and TaskRuns leave what the pass has read true enough.
LEMMA SolePassKept ==
  ASSUME NEW c \in PassRow, PassOK(c), SolePass(c),
         c.pc \in {"drain", "drainRead"} => node' = node,
         run' \in Failing => run \in Failing,
         \A m \in Nodes : Stopless(m) /\ Len(request'[m]) = Len(request[m])
  PROVE  SolePass(c)'
<1>1. c.todo \subseteq Nodes
  BY DEF PassRow
<1>2. c.pc \in {"fold", "foldAsked"} => \A n \in c.todo : node'[n] = c.steps[n]
  BY <1>1 DEF SolePass, PassOK, Stopless
<1>3. c.pc \in Answering => \A n \in c.todo : c.req[n] = Len(request'[n])
  BY <1>1 DEF SolePass
<1>4. c.pc \in {"linkAnswer", "linkNode"} => First(c.todo) \in c.todo /\ First(c.todo) \in Nodes
  BY <1>1, FirstIn DEF PassOK
<1>5. c.pc = "linkAnswer" => node'[First(c.todo)].status # "waiting"
  BY <1>4 DEF SolePass, Stopless
<1>6. c.pc \in Dispatching => \A n \in c.todo : c.steps[n].status \in {"pending", "retry_wait"}
  BY DEF PassOK, DispatchOK
<1>7. c.pc \in Dispatching => \A n \in c.todo : node'[n].status = c.steps[n].status
                                => node'[n].attempt = c.steps[n].attempt
  BY <1>1, <1>6 DEF SolePass, Stopless
<1>8. c.pc = "linkNode" => node'[First(c.todo)].status # c.steps[First(c.todo)].status
  BY <1>4, <1>6 DEF SolePass, Stopless, Dispatching
<1> QED
  BY <1>2, <1>3, <1>5, <1>7, <1>8 DEF SolePass

\* The pass at a node, and what it knows of it.
LEMMA SoleAt ==
  ASSUME FlowInv, SoleInv, NEW p \in Reconcilers, pass[p].todo # {}
  PROVE  \E c \in PassRow, n \in Nodes :
           /\ c = pass[p] /\ PassOK(c) /\ SolePass(c) /\ SoleNode(n)
           /\ n = Next1(p) /\ n = First(c.todo) /\ n \in c.todo
           /\ c.steps \in [Nodes -> NodeRow] /\ c.todo \subseteq Nodes
           /\ c.steps[n].cur \in Nat /\ c.steps[n].attempt \in Nat
           /\ c.steps[n].status = "running" => c.steps[n].cur \in DOMAIN taskRun[n]
<1>1. PICK c \in PassRow, n \in Nodes :
        /\ c = pass[p] /\ PassOK(c) /\ n = Next1(p) /\ n = First(c.todo) /\ n \in c.todo
        /\ c.steps \in [Nodes -> NodeRow]
        /\ c.steps[n].cur \in Nat /\ c.steps[n].attempt \in Nat
        /\ c.steps[n].status = "running" => c.steps[n].cur \in DOMAIN taskRun[n]
  BY AtNode
<1>2. SolePass(c) /\ SoleNode(n)
  BY <1>1 DEF SoleInv, SoleRows
<1>3. c.todo \subseteq Nodes
  BY DEF PassRow
<1> QED
  BY <1>1, <1>2, <1>3

\* When nothing of a node executes, and when nobody is asked for it.
LEMMA Settled ==
  ASSUME NEW n \in Nodes, SoleNode(n)
  PROVE  /\ node[n].status # "running" => Active(n) = {}
         /\ LastStatus(n) \notin RunActive => Active(n) = {}
         /\ node[n].status # "waiting" => NoPending(n)
         /\ request[n][Len(request[n])].status # "pending" => NoPending(n)
<1>1. \A k \in Active(n) : taskRun[n][k].status \in RunActive
  BY DEF Active
<1> QED
  BY <1>1 DEF SoleNode, Work, Asked, NoPending, LastStatus

\* The first read.
LEMMA ReadRunSole ==
  ASSUME FlowInv, NEW p \in Reconcilers, ReadRun(p)
  PROVE  SoleEffect(p)
<1>1. SoleStep
  BY DEF ReadRun, SoleStep
<1>2. CASE run \in RunEnded
  BY <1>1, <1>2, SoleReturn DEF ReadRun
<1>3. CASE run \notin RunEnded
  <2>1. pass'[p].pc = "readSteps" /\ pass'[p].run = run /\ run' = run
    BY <1>3 DEF ReadRun, FlowInv, Others, PassRow, rows
  <2>2. run \notin Stopping => run \notin Failing
    BY <1>3 DEF Stopping, RunEnded, Failing
  <2>3. SolePass(pass[p])'
    BY <2>1, <2>2 DEF SolePass, Answering, Dispatching
  <2> QED
    BY <1>1, <2>3 DEF SoleEffect
<1> QED
  BY <1>2, <1>3

\* The nodes a pass will look at, as they are.
LEMMA ReadStepsSole ==
  ASSUME FlowInv, SoleInv, NEW p \in Reconcilers, ReadSteps(p)
  PROVE  SoleEffect(p)
<1>1. SoleStep /\ node' = node /\ run' = run
  BY DEF ReadSteps, SoleStep, rows
<1>2. PICK c \in PassRow : c = pass[p] /\ c.pc = "readSteps" /\ SolePass(c)
  BY DEF FlowInv, Others, SoleInv, ReadSteps, At
<1>4. PICK S, T, pc :
        /\ S = IF c.run \in Stopping THEN Nodes \ With(node, NodeEnded)
                                     ELSE With(node, {"running", "waiting"})
        /\ T = IF c.run \in Stopping THEN Nodes \ With(node, NodeEnded \cup {"none"})
                                     ELSE With(node, {"running"})
        /\ pc = CASE c.run \in Stopping -> "drain"
                  [] RunTimer \in c.now -> "deadline"
                  [] OTHER -> "fold"
  OBVIOUS
<1>5. PICK steps : steps = Keep(node, S)
  OBVIOUS
<1>7. pass'[p].steps = steps /\ pass'[p].todo = T /\ pass'[p].pc = pc
  <2>1. steps = IF c.run \in Stopping
                THEN Keep(node, Nodes \ With(node, NodeEnded))
                ELSE Keep(node, With(node, {"running", "waiting"}))
    BY <1>4, <1>5
  <2>2. pass' = [pass EXCEPT ![p].steps = steps, ![p].count = 0, ![p].todo = T, ![p].pc = pc]
    BY <1>2, <1>4, <2>1, Zenon DEF ReadSteps
  <2> QED
    BY <1>2, <2>2 DEF FlowInv, Others, PassRow
<1>8. T \subseteq S /\ T \subseteq Nodes /\ pc \in {"drain", "deadline", "fold"}
  BY <1>4 DEF With
<1>9. \A n \in T : steps[n] = node[n]
  BY <1>5, <1>8 DEF Keep
<1>10. pc = "drain" => \A n \in Nodes : node[n].status = "running" => n \in T
  BY <1>4 DEF With, NodeEnded
<1>p. pc = "fold" => run \notin Failing
  BY <1>2, <1>4 DEF SolePass
<1>11. SolePass(pass[p])'
  BY <1>1, <1>7, <1>8, <1>9, <1>10, <1>p DEF SolePass, Answering, Dispatching
<1> QED
  BY <1>1, <1>11 DEF SoleEffect

\* The run's deadline stops it.
LEMMA StopAtDeadlineSole ==
  ASSUME FlowInv, NEW p \in Reconcilers, StopAtDeadline(p)
  PROVE  SoleEffect(p)
<1>1. SoleStep
  BY StopIsSole DEF StopAtDeadline, FlowInv, Stopping
<1> QED
  BY <1>1, SoleReturn DEF StopAtDeadline

\* Asking an attempt to stop changes no node.
LEMMA CancelTimedOutAttemptSole ==
  ASSUME FlowInv, SoleInv, NEW p \in Reconcilers, CancelTimedOutAttempt(p)
  PROVE  SoleEffect(p)
<1>1. RowStep /\ run' = run /\ node' = node
  BY CancelTimedOutAttemptEffect DEF Effect, CancelTimedOutAttempt
<1>2. SoleStep
  BY <1>1, OutsideIsSole DEF FlowInv
<1>3. PICK c \in PassRow : c = pass[p] /\ SolePass(c)
  BY DEF FlowInv, Others, SoleInv
<1>4. /\ c.pc = "fold"
      /\ pass'[p].pc = "foldAsked" /\ pass'[p].todo = c.todo /\ pass'[p].steps = c.steps
  BY <1>3 DEF CancelTimedOutAttempt, At, Goto, FlowInv, Others, PassRow
<1>5. SolePass(pass[p])'
  BY <1>1, <1>3, <1>4 DEF SolePass, Answering, Dispatching
<1> QED
  BY <1>2, <1>5 DEF SoleEffect

\* The attempt a fold looks at is the last of its Task.
LEMMA SoleFold ==
  ASSUME FlowInv, NEW c \in PassRow, PassOK(c), SolePass(c), NEW n \in Nodes, n \in c.todo,
         SoleNode(n), c.pc \in {"fold", "foldAsked"}
  PROVE  /\ node[n] = c.steps[n] /\ node[n].status = "running" /\ NoPending(n)
         /\ c.steps[n].cur = node[n].cur /\ node[n].cur = Len(taskRun[n])
         /\ taskRun[n] # <<>> /\ node[n].cur # 0 /\ node[n].cur \in Nat
         /\ n \notin Human /\ NeedsDone(n)
         /\ taskRun[n][c.steps[n].cur].status \notin RunActive => Active(n) = {}
<1>1. node[n] = c.steps[n] /\ node[n].status = "running"
  BY DEF SolePass, PassOK
<1>2. node[n].cur = Len(taskRun[n])
  BY DEF SoleNode, Work
<1>3. Len(taskRun[n]) \in Nat /\ Len(taskRun[n]) > 0 /\ NeedsDone(n) /\ n \notin Human
  BY <1>1, NodeFacts DEF FlowInv
<1>4. taskRun[n] # <<>>
  BY <1>3
<1> QED
  BY <1>1, <1>2, <1>3, <1>4, Settled DEF LastStatus

\* The fold of a running node.
LEMMA FoldNodeSole ==
  ASSUME FlowInv, SoleInv, NEW p \in Reconcilers, FoldNode(p)
  PROVE  SoleEffect(p)
<1>1. PICK c \in PassRow, n \in Nodes :
        /\ c = pass[p] /\ PassOK(c) /\ SolePass(c) /\ SoleNode(n)
        /\ n = Next1(p) /\ n \in c.todo
        /\ c.steps \in [Nodes -> NodeRow] /\ c.todo \subseteq Nodes
  BY SoleAt DEF FoldNode
<1>2. c.pc \in {"fold", "foldAsked"}
  BY <1>1 DEF FoldNode, At
<1>3. PICK k, st : k = c.steps[n].cur /\ st = taskRun[n][k].status
  OBVIOUS
<1>4. /\ node[n].status = "running" /\ NoPending(n) /\ k = node[n].cur
      /\ k = Len(taskRun[n]) /\ taskRun[n] # <<>> /\ k # 0 /\ k \in Nat
      /\ n \notin Human /\ NeedsDone(n) /\ st = LastStatus(n)
      /\ st \notin RunActive => Active(n) = {}
  BY <1>1, <1>2, <1>3, SoleFold DEF LastStatus
<1>5. /\ \/ UNCHANGED <<run, node, request>>
         \/ st = "ASKED" /\ OpenWorkflowRequest(n, "running", k) /\ UNCHANGED run
         \/ /\ st = "SUCCEEDED"
            /\ TransitionWorkflowNodeRun(n, "running",
                 [node[n] EXCEPT !.status = "succeeded", !.cur = k])
            /\ UNCHANGED <<run, request>>
         \/ /\ Retryable(st)
            /\ TransitionWorkflowNodeRun(n, "running",
                 [node[n] EXCEPT !.status = "retry_wait", !.cur = node[n].cur])
            /\ UNCHANGED <<run, request>>
      /\ pass' = [pass EXCEPT ![p].todo = @ \ {n}, ![p].pc = "fold",
                              ![p].steps[n] = NoNode]
      /\ taskRun' = taskRun
  BY <1>1, <1>3, NodeFacts DEF FoldNode, Snapshot, FlowInv, NodeRow
<1>6. SoleStep /\ \A m \in Nodes \ {n} : node'[m] = node[m]
  <2>0. node \in [Nodes -> NodeRow]
    BY DEF FlowInv, RowInv, Rows
  <2>1. CASE UNCHANGED <<run, node, request>>
    BY <1>5, <2>1 DEF SoleStep, rows
  <2>2. CASE st = "ASKED" /\ OpenWorkflowRequest(n, "running", k) /\ UNCHANGED run
    BY <1>4, <1>5, <2>2, OpenIsSole DEF FlowInv, RunActive
  <2>3. CASE /\ st = "SUCCEEDED"
             /\ TransitionWorkflowNodeRun(n, "running",
                 [node[n] EXCEPT !.status = "succeeded", !.cur = k])
             /\ UNCHANGED <<run, request>>
    <3>1. PICK new : new = [node[n] EXCEPT !.status = "succeeded", !.cur = k]
      OBVIOUS
    <3>2. /\ new \in NodeRow /\ new.status = "succeeded" /\ new.cur = k
          /\ new.attempt = node[n].attempt
      BY <1>4, <3>1, NodeFacts DEF FlowInv, NodeRow, NodeStatus, NodeEnded
    <3>3. TransitionWorkflowNodeRun(n, "running", new)
      BY <2>3, <3>1
    <3>4. SoleStep
      BY <1>4, <1>5, <2>3, <3>2, <3>3, MoveIsSole DEF RunActive
    <3> QED
      BY <2>0, <3>3, <3>4 DEF TransitionWorkflowNodeRun
  <2>4. CASE /\ Retryable(st)
             /\ TransitionWorkflowNodeRun(n, "running",
                 [node[n] EXCEPT !.status = "retry_wait", !.cur = node[n].cur])
             /\ UNCHANGED <<run, request>>
    <3>1. PICK new : new = [node[n] EXCEPT !.status = "retry_wait", !.cur = node[n].cur]
      OBVIOUS
    <3>2. /\ new \in NodeRow /\ new.status = "retry_wait" /\ new.cur = node[n].cur
          /\ new.attempt = node[n].attempt
      BY <3>1, NodeFacts DEF FlowInv, NodeRow, NodeStatus, NodeEnded
    <3>3. TransitionWorkflowNodeRun(n, "running", new)
      BY <2>4, <3>1
    <3>4. st \notin RunActive
      BY <2>4 DEF Retryable, RunActive
    <3>5. run \notin Failing
      BY <1>1, <1>2 DEF SolePass
    <3>6. SoleStep
      BY <1>4, <1>5, <2>4, <3>2, <3>3, <3>4, <3>5, MoveIsSole
    <3> QED
      BY <2>0, <3>3, <3>6 DEF TransitionWorkflowNodeRun
  <2> QED
    BY <1>5, <2>1, <2>2, <2>3, <2>4
<1>7. /\ pass'[p].todo = c.todo \ {n} /\ pass'[p].pc = "fold"
      /\ \A m \in Nodes \ {n} : pass'[p].steps[m] = c.steps[m]
  BY <1>1, <1>5 DEF FlowInv, Others, PassRow
<1>r. run' = run
  BY <1>5
<1>8. SolePass(pass[p])'
  BY <1>1, <1>2, <1>6, <1>7, <1>r DEF SolePass, Answering, Dispatching
<1> QED
  BY <1>6, <1>8 DEF SoleEffect

\* An attempt that cannot be retried has ended.
LEMMA FinalizeFailedFromNodeSole ==
  ASSUME FlowInv, SoleInv, NEW p \in Reconcilers, FinalizeFailedFromNode(p)
  PROVE  SoleEffect(p)
<1>1. PICK c \in PassRow, n \in Nodes :
        /\ c = pass[p] /\ PassOK(c) /\ SolePass(c) /\ SoleNode(n)
        /\ n = Next1(p) /\ n \in c.todo
  BY SoleAt DEF FinalizeFailedFromNode
<1>2. c.pc \in {"fold", "foldAsked"}
  BY <1>1 DEF FinalizeFailedFromNode, At
<1>3. PICK k, st, to : /\ k = c.steps[n].cur
                       /\ st = IF taskRun[n][k].status = "CANCELED" THEN "canceled" ELSE "failed"
                       /\ to = IF taskRun[n][k].status = "CANCELED" THEN "canceling" ELSE "failing"
  OBVIOUS
<1>4. PICK new : new = [node[n] EXCEPT !.status = st, !.cur = k]
  OBVIOUS
<1>5. /\ BeginWorkflowRunDrain(n, "running", new, to)
      /\ Restart(p) /\ taskRun' = taskRun
      /\ taskRun[n][k].status \in RunDone \ {"ASKED", "SUCCEEDED"}
  BY <1>1, <1>3, <1>4, Zenon DEF FinalizeFailedFromNode, Snapshot
<1>6. k = node[n].cur /\ Active(n) = {}
  BY <1>1, <1>2, <1>3, <1>5, SoleFold DEF RunDone, RunActive
<1>7. /\ new \in NodeRow /\ new.status \in {"failed", "canceled"} /\ to \in Stopping
      /\ new.cur = node[n].cur /\ new.attempt = node[n].attempt
  BY <1>3, <1>4, <1>6, NodeFacts DEF FlowInv, NodeRow, NodeStatus, NodeEnded, Stopping
<1>8. SoleStep
  BY <1>5, <1>6, <1>7, DrainIsSole DEF FlowInv, Open
<1> QED
  BY <1>5, <1>8, SoleReturn

\* foldWaitingNodes takes each node's last request.
LEMMA ListRequestsSole ==
  ASSUME FlowInv, NEW p \in Reconcilers, ListRequests(p)
  PROVE  SoleEffect(p)
<1>1. SoleStep /\ request' = request
  BY DEF ListRequests, SoleStep, rows
<1>2. PICK c \in PassRow : c = pass[p]
  BY DEF FlowInv, Others
<1>3. PICK acts : acts = {n \in With(c.steps, {"waiting"}) :
                            \/ request[n][Len(request[n])].status # "pending"
                            \/ RequestTimer(n) \in c.now}
  OBVIOUS
<1>4. PICK steps, req : /\ steps = Keep(c.steps, acts)
                        /\ req = [n \in Nodes |-> IF n \in acts THEN Len(request[n]) ELSE 0]
  OBVIOUS
<1>5. pass' = [pass EXCEPT ![p].pc = "answers", ![p].todo = acts,
                           ![p].steps = steps, ![p].req = req]
  BY <1>2, <1>3, <1>4, Zenon DEF ListRequests
<1>6. pass'[p].pc = "answers" /\ pass'[p].todo = acts /\ pass'[p].req = req
  BY <1>5 DEF FlowInv, Others, PassRow
<1>7. \A n \in acts : req[n] = Len(request[n])
  BY <1>3, <1>4 DEF With
<1>8. SolePass(pass[p])'
  BY <1>1, <1>6, <1>7 DEF SolePass, Dispatching
<1> QED
  BY <1>1, <1>8 DEF SoleEffect

\* A write outside the nodes, with no request added, leaves the pass right.
LEMMA SoleQuiet ==
  ASSUME FlowInv, SoleInv, NEW p \in Reconcilers, node' = node, run' = run, pass' = pass,
         \A m \in Nodes : Len(request'[m]) = Len(request[m])
  PROVE  SolePass(pass[p])'
<1>1. PICK c \in PassRow : c = pass[p] /\ PassOK(c) /\ SolePass(c)
  BY DEF FlowInv, Others, SoleInv
<1>2. SolePass(c)'
  BY <1>1, SolePassKept DEF Stopless
<1> QED
  BY <1>1, <1>2 DEF SolePass

\* A resolved request is still the request it was.
LEMMA ResolveLength ==
  ASSUME RowInv, NEW n \in Nodes, NEW i \in DOMAIN request[n], NEW to,
         ResolveWorkflowRequest(n, i, to)
  PROVE  \A m \in Nodes : Len(request'[m]) = Len(request[m])
<1>1. request \in [Nodes -> Seq(RequestRow)] /\ request[n] \in Seq(RequestRow)
  BY DEF RowInv, Rows
<1>2. PICK s : s = [request[n] EXCEPT ![i].status = to]
  OBVIOUS
<1>3. request' = [request EXCEPT ![n] = s]
  BY <1>1, <1>2 DEF ResolveWorkflowRequest
<1>4. Len(s) = Len(request[n])
  <2>1. PICK q : q = [request[n][i] EXCEPT !.status = to]
    OBVIOUS
  <2>2. s = [request[n] EXCEPT ![i] = q]
    BY <1>1, <1>2, <2>1
  <2> QED
    BY <1>1, <2>2
<1> QED
  BY <1>1, <1>3, <1>4

\* Expiring a request.
LEMMA ExpireRequestSole ==
  ASSUME FlowInv, SoleInv, NEW p \in Reconcilers, ExpireRequest(p)
  PROVE  SoleEffect(p)
<1>1. RowStep /\ run' = run /\ node' = node /\ pass' = pass
  BY ExpireRequestEffect DEF Effect, ExpireRequest
<1>2. SoleStep
  BY <1>1, OutsideIsSole DEF FlowInv
<1>3. PICK c \in PassRow, n \in Nodes :
        c = pass[p] /\ PassOK(c) /\ n = Next1(p) /\ n \in c.todo
  BY SoleAt DEF ExpireRequest
<1>4. c.req[n] \in DOMAIN request[n]
  BY <1>3, AtRequest DEF ExpireRequest, At, Answering
<1>5. ResolveWorkflowRequest(n, c.req[n], "expired")
  BY <1>3 DEF ExpireRequest
<1>6. \A m \in Nodes : Len(request'[m]) = Len(request[m])
  BY <1>4, <1>5, ResolveLength DEF FlowInv
<1> QED
  BY <1>1, <1>2, <1>6, SoleQuiet DEF SoleEffect

\* A pass that has dealt with a node goes on; of the others nothing changed.
LEMMA SoleDone ==
  ASSUME FlowInv, SoleInv, NEW p \in Reconcilers, NEW n, SoleStep, Done(p, n),
         \/ pass[p].pc = "answers" /\ request' = request
         \/ pass[p].pc = "dispatch",
         \A m \in Nodes \ {n} : node'[m] = node[m]
  PROVE  SoleEffect(p)
<1>1. PICK c \in PassRow : c = pass[p] /\ SolePass(c) /\ c.todo \subseteq Nodes
  BY DEF FlowInv, Others, SoleInv, PassRow
<1>2. /\ pass'[p].pc = c.pc /\ pass'[p].todo = c.todo \ {n}
      /\ pass'[p].req = c.req /\ pass'[p].steps = c.steps
  BY <1>1 DEF Done, FlowInv, Others, PassRow
<1>3. SolePass(pass[p])'
  BY <1>1, <1>2 DEF SolePass, Answering, Dispatching
<1> QED
  BY <1>3 DEF SoleEffect

\* What the pass knows of the request it is at: it is the node's last, and once
\* it is resolved nobody is asked any more.
LEMMA SoleRequest ==
  ASSUME FlowInv, SoleInv, NEW p \in Reconcilers, pass[p].todo # {}, pass[p].pc = "answers"
  PROVE  \E c \in PassRow, n \in Nodes :
           /\ c = pass[p] /\ PassOK(c) /\ SolePass(c) /\ SoleNode(n)
           /\ n = Next1(p) /\ n = First(c.todo) /\ n \in c.todo
           /\ c.steps[n].attempt \in Nat
           /\ c.req[n] = Len(request[n]) /\ c.req[n] \in Nat
           /\ request[n][c.req[n]].status # "pending" => NoPending(n)
           /\ (request[n][c.req[n]].asker = 0) <=> (n \in Human)
           /\ NeedsDone(n)
<1>1. PICK c \in PassRow, n \in Nodes :
        /\ c = pass[p] /\ PassOK(c) /\ SolePass(c) /\ SoleNode(n)
        /\ n = Next1(p) /\ n = First(c.todo) /\ n \in c.todo /\ c.steps[n].attempt \in Nat
  BY SoleAt
<1>2. /\ c.req[n] \in Nat /\ NeedsDone(n)
      /\ (request[n][c.req[n]].asker = 0) <=> (n \in Human)
  BY <1>1, AtRequest DEF Answering
<1>3. c.req[n] = Len(request[n])
  BY <1>1 DEF SolePass, Answering
<1> QED
  BY <1>1, <1>2, <1>3, Settled

\* A person's answer ends the wait for it.
LEMMA ApplyInputSole ==
  ASSUME FlowInv, SoleInv, NEW p \in Reconcilers, ApplyInput(p)
  PROVE  SoleEffect(p)
<1>1. PICK c \in PassRow, n \in Nodes :
        /\ c = pass[p] /\ SoleNode(n) /\ n = Next1(p) /\ n \in c.todo
        /\ request[n][c.req[n]].status # "pending" => NoPending(n)
  BY SoleRequest DEF ApplyInput, At
<1>2. PICK new : new = [node[n] EXCEPT !.status = "succeeded"]
  OBVIOUS
<1>3. /\ request[n][c.req[n]].status = "answered"
      /\ TransitionWorkflowNodeRun(n, "waiting", new) /\ pass[p].pc = "answers"
      /\ Done(p, n) /\ UNCHANGED <<run, taskRun, request>>
  BY <1>1, <1>2 DEF ApplyInput, At
<1>4. /\ new \in NodeRow /\ new.status = "succeeded"
      /\ new.cur = node[n].cur /\ new.attempt = node[n].attempt
  BY <1>2, NodeFacts DEF FlowInv, NodeRow, NodeStatus, NodeEnded
<1>5. SoleStep
  BY <1>1, <1>3, <1>4, Settled, MoveIsSole
<1>6. \A m \in Nodes \ {n} : node'[m] = node[m]
  BY <1>3 DEF TransitionWorkflowNodeRun, FlowInv, RowInv, Rows
<1> QED
  BY <1>3, <1>5, <1>6, SoleDone

\* A request closed by the stop asks for nothing.
LEMMA SkipRequestSole ==
  ASSUME FlowInv, SoleInv, NEW p \in Reconcilers, SkipRequest(p)
  PROVE  SoleEffect(p)
<1>1. SoleStep /\ request' = request /\ node' = node
  BY DEF SkipRequest, SoleStep, rows
<1> QED
  BY <1>1, SoleDone DEF SkipRequest, At

\* A refusal stops the run with a node that waits.
LEMMA ApplyRefusalSole ==
  ASSUME FlowInv, SoleInv, NEW p \in Reconcilers, ApplyRefusal(p)
  PROVE  SoleEffect(p)
<1>1. PICK n \in Nodes : n = Next1(p)
  BY NextNode DEF ApplyRefusal
<1>2. PICK new : new = [node[n] EXCEPT !.status = "failed"]
  OBVIOUS
<1>3. /\ BeginWorkflowRunDrain(n, "waiting", new, "failing")
      /\ Restart(p) /\ taskRun' = taskRun
  BY <1>1, <1>2 DEF ApplyRefusal
<1>4. /\ new \in NodeRow /\ new.status = "failed"
      /\ new.cur = node[n].cur /\ new.attempt = node[n].attempt
  BY <1>2, NodeFacts DEF FlowInv, NodeRow, NodeStatus, NodeEnded
<1>5. SoleStep
  BY <1>3, <1>4, DrainIsSole DEF FlowInv, Open, Stopping
<1> QED
  BY <1>3, <1>5, SoleReturn

\* An answer continues its node once: its key is new while the node waits.
LEMMA AdmitAnswerSole ==
  ASSUME FlowInv, SoleInv, NEW p \in Reconcilers, AdmitAnswer(p)
  PROVE  SoleEffect(p)
<1>1. PICK c \in PassRow, n \in Nodes :
        /\ c = pass[p] /\ PassOK(c) /\ SolePass(c) /\ SoleNode(n)
        /\ n = Next1(p) /\ n = First(c.todo) /\ n \in c.todo
        /\ c.steps[n].attempt \in Nat
        /\ c.req[n] = Len(request[n]) /\ c.req[n] \in Nat
        /\ request[n][c.req[n]].status # "pending" => NoPending(n)
        /\ (request[n][c.req[n]].asker = 0) <=> (n \in Human)
        /\ NeedsDone(n)
  BY SoleRequest DEF AdmitAnswer, At
<1>2. c.pc = "answers" /\ c.todo \subseteq Nodes
  BY <1>1 DEF AdmitAnswer, At, PassRow
<1>3. PICK i, a : i = c.req[n] /\ a = c.steps[n].attempt
  OBVIOUS
<1>4. /\ request[n][i].status = "answered" /\ request[n][i].asker # 0
      /\ run' = run /\ request' = request
      /\ \/ \E got \in 1..(Len(taskRun[n]) + 1) :
              /\ Admit(n, "waiting", a, a, AnswerKey(i), got)
              /\ pass' = [pass EXCEPT ![p].pc = "linkAnswer", ![p].got = got]
         \/ Goto(p, "refusedAnswer") /\ UNCHANGED <<taskRun, node>>
  BY <1>1, <1>3 DEF AdmitAnswer, Snapshot
<1>5. NoPending(n) /\ n \notin Human
  BY <1>1, <1>3, <1>4
<1>6. ASSUME NEW got \in 1..(Len(taskRun[n]) + 1),
             Admit(n, "waiting", a, a, AnswerKey(i), got),
             pass' = [pass EXCEPT ![p].pc = "linkAnswer", ![p].got = got]
      PROVE  SoleEffect(p)
  <2>1. PICK key : key = AnswerKey(i)
    OBVIOUS
  <2>2. /\ key \in {"attempt", "request"} \X Nat /\ key[1] = "request" /\ key[2] = Len(request[n])
        /\ key # AttemptKey(1)
    BY <1>1, <1>3, <2>1 DEF AnswerKey, AttemptKey
  <2>3. node[n].status = "waiting" => \A k \in DOMAIN taskRun[n] : taskRun[n][k].key # key
    BY <1>1, <2>2 DEF SoleNode, Keys
  <2>4. Len(request[n]) \in Nat
    BY NodeFacts DEF FlowInv
  <2>5. CASE node[n].status = "waiting" /\ node[n].attempt = a
    <3>1. a > 0
      BY <1>1, <1>5, <2>5 DEF SoleNode, Work
    <3>2. a \in Nat
      BY <1>1, <1>3
    <3>3. /\ SoleStep /\ node'[n].status # "waiting"
          /\ \A m \in Nodes \ {n} : node'[m] = node[m]
      <4>1. /\ a >= node[n].attempt
            /\ key[1] = "request" => key[2] <= Len(request[n])
            /\ key[1] # "attempt"
        BY <2>2, <2>4, <2>5, <3>2
      <4>2. Admit(n, "waiting", a, a, key, got)
        BY <1>6, <2>1
      <4> QED
        BY <1>1, <1>4, <1>5, <2>2, <2>3, <2>5, <3>1, <3>2, <4>1, <4>2, AdmitIsSole DEF FlowInv
    <3>4. pass'[p].pc = "linkAnswer" /\ pass'[p].todo = c.todo /\ pass'[p].req = c.req
      BY <1>1, <1>6 DEF FlowInv, Others, PassRow
    <3>5. SolePass(pass[p])'
      BY <1>1, <1>2, <1>4, <3>3, <3>4 DEF SolePass, Answering, Dispatching
    <3> QED
      BY <3>3, <3>5 DEF SoleEffect
  <2>6. CASE ~(node[n].status = "waiting" /\ node[n].attempt = a)
    <3>1. AlreadyLinked(n, key) /\ UNCHANGED <<taskRun, node>>
      BY <1>6, <2>1, <2>6 DEF Admit, AdmitGuard
    <3>2. node[n].status # "waiting"
      <4>1. node[n].cur # 0 /\ taskRun[n][node[n].cur].key = key
        BY <2>2, <3>1 DEF AlreadyLinked
      <4>2. node[n].cur \in DOMAIN taskRun[n]
        BY <4>1, NodeFacts DEF FlowInv
      <4> QED
        BY <2>3, <4>1, <4>2
    <3>3. SoleStep
      BY <1>4, <3>1 DEF SoleStep, rows
    <3>4. pass'[p].pc = "linkAnswer" /\ pass'[p].todo = c.todo /\ pass'[p].req = c.req
      BY <1>1, <1>6 DEF FlowInv, Others, PassRow
    <3>5. SolePass(pass[p])'
      BY <1>1, <1>2, <1>4, <3>1, <3>2, <3>4 DEF SolePass, Answering, Dispatching
    <3> QED
      BY <3>3, <3>5 DEF SoleEffect
  <2> QED
    BY <2>5, <2>6
<1>7. ASSUME Goto(p, "refusedAnswer"), UNCHANGED <<taskRun, node>>
      PROVE  SoleEffect(p)
  <2>1. SoleStep
    BY <1>4, <1>7 DEF SoleStep, rows
  <2>2. pass'[p].pc = "refusedAnswer" /\ pass'[p].todo = c.todo /\ pass'[p].req = c.req
    BY <1>1, <1>7 DEF Goto, FlowInv, Others, PassRow
  <2>3. SolePass(pass[p])'
    BY <1>1, <1>2, <1>4, <2>2 DEF SolePass, Answering, Dispatching
  <2> QED
    BY <2>1, <2>3 DEF SoleEffect
<1> QED
  BY <1>4, <1>6, <1>7

\* Repeating the link of an answer changes nothing: the admission made it.
LEMMA LinkAnswerSole ==
  ASSUME FlowInv, SoleInv, NEW p \in Reconcilers, LinkAnswer(p)
  PROVE  SoleEffect(p)
<1>0. pass[p].todo # {}
  BY DEF LinkAnswer, At, FlowInv, PassOK
<1>1. PICK c \in PassRow, n \in Nodes :
        /\ c = pass[p] /\ SolePass(c) /\ n = Next1(p) /\ n = First(c.todo) /\ n \in c.todo
  BY <1>0, SoleAt
<1>2. c.pc = "linkAnswer" /\ c.todo \subseteq Nodes
  BY <1>1 DEF LinkAnswer, At, PassRow
<1>3. node[n].status # "waiting"
  BY <1>1, <1>2 DEF SolePass
<1>4. UNCHANGED <<run, node, taskRun, request>>
  BY <1>1, <1>3 DEF LinkAnswer, TransitionWorkflowNodeRun
<1>5. SoleStep
  BY <1>4 DEF SoleStep, rows
<1>6. pass'[p].pc = "answers" /\ pass'[p].todo = c.todo \ {n} /\ pass'[p].req = c.req
  BY <1>1 DEF LinkAnswer, FlowInv, Others, PassRow
<1>7. SolePass(pass[p])'
  BY <1>1, <1>2, <1>4, <1>6 DEF SolePass, Answering, Dispatching
<1> QED
  BY <1>5, <1>7 DEF SoleEffect

\* The second read.
LEMMA RereadStepsSole ==
  ASSUME FlowInv, NEW p \in Reconcilers, RereadSteps(p)
  PROVE  SoleEffect(p)
<1>1. SoleStep /\ node' = node
  BY DEF RereadSteps, SoleStep, rows
<1>2. pass'[p].pc = "dispatch" /\ pass'[p].steps = node
  BY DEF RereadSteps, FlowInv, Others, PassRow
<1>3. SolePass(pass[p])'
  BY <1>1, <1>2 DEF SolePass, Answering
<1> QED
  BY <1>1, <1>3 DEF SoleEffect

\* dispatchReadyNodes passes over a node that may not start.
LEMMA SkipNodeSole ==
  ASSUME FlowInv, SoleInv, NEW p \in Reconcilers, SkipNode(p)
  PROVE  SoleEffect(p)
<1>1. SoleStep /\ node' = node
  BY DEF SkipNode, SoleStep, rows
<1> QED
  BY <1>1, SoleDone DEF SkipNode, At

\* A ready human_input node opens its request, or fails.
LEMMA OpenInputRequestSole ==
  ASSUME FlowInv, SoleInv, NEW p \in Reconcilers, OpenInputRequest(p)
  PROVE  SoleEffect(p)
<1>1. PICK n \in Nodes : n = Next1(p) /\ n \in pass[p].todo /\ SoleNode(n)
  BY NextNode DEF OpenInputRequest, SoleInv, SoleRows
<1>2. /\ pass[p].pc = "dispatch" /\ Startable(p, n) /\ n \in Human /\ taskRun' = taskRun
      /\ \/ OpenWorkflowRequest(n, "pending", 0) /\ Done(p, n) /\ UNCHANGED run
         \/ /\ BeginWorkflowRunDrain(n, "pending", [node[n] EXCEPT !.status = "failed"], "failing")
            /\ Return(p)
  BY <1>1 DEF OpenInputRequest, At
<1>3. NeedsDone(n)
  BY <1>1, <1>2, StartableNeeds
<1>4. CASE OpenWorkflowRequest(n, "pending", 0) /\ Done(p, n) /\ UNCHANGED run
  <2>1. SoleStep /\ \A m \in Nodes \ {n} : node'[m] = node[m]
    BY <1>1, <1>2, <1>3, <1>4, Settled, OpenIsSole DEF FlowInv
  <2> QED
    BY <1>2, <1>4, <2>1, SoleDone
<1>5. CASE /\ BeginWorkflowRunDrain(n, "pending", [node[n] EXCEPT !.status = "failed"], "failing")
           /\ Return(p)
  <2>1. PICK new : new = [node[n] EXCEPT !.status = "failed"]
    OBVIOUS
  <2>2. /\ new \in NodeRow /\ new.status = "failed"
        /\ new.cur = node[n].cur /\ new.attempt = node[n].attempt
    BY <2>1, NodeFacts DEF FlowInv, NodeRow, NodeStatus, NodeEnded
  <2>3. SoleStep
    BY <1>2, <1>5, <2>1, <2>2, DrainIsSole DEF FlowInv, Open, Stopping
  <2> QED
    BY <1>5, <2>3, SoleReturn
<1> QED
  BY <1>2, <1>4, <1>5

\* Over the limit the loop ends.
LEMMA LimitReachedSole ==
  ASSUME FlowInv, NEW p \in Reconcilers, LimitReached(p)
  PROVE  SoleEffect(p)
<1>1. SoleStep
  BY DEF LimitReached, SoleStep
<1>2. pass'[p].pc = "dispatch" /\ pass'[p].todo = {}
  BY DEF LimitReached, At, FlowInv, Others, PassRow
<1>3. SolePass(pass[p])'
  BY <1>2 DEF SolePass, Answering
<1> QED
  BY <1>1, <1>3 DEF SoleEffect

\* An attempt is admitted once: its key is new while the node is as it was read.
LEMMA AdmitNodeSole ==
  ASSUME FlowInv, SoleInv, NEW p \in Reconcilers, AdmitNode(p)
  PROVE  SoleEffect(p)
<1>1. PICK c \in PassRow, n \in Nodes :
        /\ c = pass[p] /\ PassOK(c) /\ SolePass(c) /\ SoleNode(n)
        /\ n = Next1(p) /\ n \in c.todo /\ n = First(c.todo)
        /\ c.steps[n].attempt \in Nat /\ c.todo \subseteq Nodes
  BY SoleAt DEF AdmitNode
<1>2. c.pc = "dispatch" /\ Startable(p, n) /\ n \notin Human
  BY <1>1 DEF AdmitNode, At
<1>3. PICK from, a, b : from = c.steps[n].status /\ a = c.steps[n].attempt /\ b = a + 1
  OBVIOUS
<1>4. /\ run' = run /\ request' = request
      /\ \/ \E got \in 1..(Len(taskRun[n]) + 1) :
              /\ Admit(n, from, a, b, AttemptKey(b), got)
              /\ pass' = [pass EXCEPT ![p].pc = "linkNode", ![p].got = got]
         \/ Goto(p, "refusedNode") /\ UNCHANGED <<taskRun, node>>
  BY <1>1, <1>3 DEF AdmitNode, Snapshot
<1>5. NeedsDone(n) /\ from \in {"pending", "retry_wait"}
  BY <1>1, <1>2, <1>3, StartableNeeds
<1>6. ASSUME NEW got \in 1..(Len(taskRun[n]) + 1),
             Admit(n, from, a, b, AttemptKey(b), got),
             pass' = [pass EXCEPT ![p].pc = "linkNode", ![p].got = got]
      PROVE  SoleEffect(p)
  <2>1. PICK key : key = AttemptKey(b)
    OBVIOUS
  <2>2. /\ a \in Nat /\ b \in Nat /\ b > a /\ b > 0 /\ (b = 1 => a = 0)
        /\ key \in {"attempt", "request"} \X Nat /\ key[1] = "attempt" /\ key[2] = b
        /\ key = AttemptKey(1) => b = 1
    BY <1>1, <1>3, <2>1 DEF AttemptKey
  <2>3. ASSUME node[n].status = from
        PROVE  /\ NeedsDone(n) /\ NoPending(n)
               /\ \A k \in DOMAIN taskRun[n] : taskRun[n][k].key # key
               /\ key = AttemptKey(1) => taskRun[n] = <<>>
               /\ b >= node[n].attempt /\ b > 0
               /\ key[1] = "attempt" => key[2] <= b
               /\ key[1] = "request" => key[2] <= Len(request[n])
    <3>1. node[n].attempt = a
      BY <1>1, <1>2, <1>3, <2>3 DEF SolePass, Dispatching
    <3>2. \A k \in DOMAIN taskRun[n] : taskRun[n][k].key # key
      <4> SUFFICES ASSUME NEW k \in DOMAIN taskRun[n], taskRun[n][k].key = key PROVE FALSE
        OBVIOUS
      <4>1. key[2] <= node[n].attempt
        BY <1>1, <2>2 DEF SoleNode, Keys
      <4> QED
        BY <2>2, <3>1, <4>1
    <3>3. a = 0 => taskRun[n] = <<>>
      BY <1>1, <3>1 DEF SoleNode, Work
    <3>4. NoPending(n)
      BY <1>1, <1>5, <2>3, Settled
    <3> QED
      BY <1>5, <2>2, <3>1, <3>2, <3>3, <3>4
  <2>4. /\ SoleStep /\ node'[n].status # from
        /\ \A m \in Nodes \ {n} : node'[m] = node[m]
    <3>1. Admit(n, from, a, b, key, got)
      BY <1>6, <2>1
    <3> QED
      BY <1>2, <1>4, <1>5, <2>2, <2>3, <3>1, AdmitIsSole DEF FlowInv
  <2>5. pass'[p].pc = "linkNode" /\ pass'[p].todo = c.todo /\ pass'[p].steps = c.steps
    BY <1>1, <1>6 DEF FlowInv, Others, PassRow
  <2>6. SolePass(pass[p])'
    BY <1>1, <1>2, <1>3, <2>4, <2>5 DEF SolePass, Answering, Dispatching
  <2> QED
    BY <2>4, <2>6 DEF SoleEffect
<1>7. ASSUME Goto(p, "refusedNode"), UNCHANGED <<taskRun, node>>
      PROVE  SoleEffect(p)
  <2>1. SoleStep
    BY <1>4, <1>7 DEF SoleStep, rows
  <2>2. pass'[p].pc = "refusedNode" /\ pass'[p].todo = c.todo /\ pass'[p].steps = c.steps
    BY <1>1, <1>7 DEF Goto, FlowInv, Others, PassRow
  <2>3. SolePass(pass[p])'
    BY <1>1, <1>2, <1>7, <2>2 DEF SolePass, Answering, Dispatching
  <2> QED
    BY <2>1, <2>3 DEF SoleEffect
<1> QED
  BY <1>4, <1>6, <1>7

\* Repeating the link of an attempt changes nothing: the admission made it.
LEMMA LinkNodeSole ==
  ASSUME FlowInv, SoleInv, NEW p \in Reconcilers, LinkNode(p)
  PROVE  SoleEffect(p)
<1>0. pass[p].todo # {}
  BY DEF LinkNode, At, FlowInv, PassOK
<1>1. PICK c \in PassRow, n \in Nodes :
        /\ c = pass[p] /\ SolePass(c) /\ n = Next1(p) /\ n = First(c.todo) /\ n \in c.todo
  BY <1>0, SoleAt
<1>2. c.pc = "linkNode" /\ c.todo \subseteq Nodes
  BY <1>1 DEF LinkNode, At, PassRow
<1>3. node[n].status # c.steps[n].status
  BY <1>1, <1>2 DEF SolePass
<1>4. UNCHANGED <<run, node, taskRun, request>>
  BY <1>1, <1>3 DEF LinkNode, Snapshot, TransitionWorkflowNodeRun
<1>5. SoleStep
  BY <1>4 DEF SoleStep, rows
<1>6. pass'[p].pc = "dispatch" /\ pass'[p].todo = c.todo \ {n} /\ pass'[p].steps = c.steps
  <2>1. pass' = [pass EXCEPT ![p].todo = @ \ {n}, ![p].pc = "dispatch",
                             ![p].count = @ + 1, ![p].got = 0]
    BY <1>1, Zenon DEF LinkNode
  <2> QED
    BY <1>1, <2>1 DEF FlowInv, Others, PassRow
<1>7. SolePass(pass[p])'
  BY <1>1, <1>2, <1>4, <1>6 DEF SolePass, Answering, Dispatching
<1> QED
  BY <1>5, <1>7 DEF SoleEffect

\* A refused admission stops the run with a node that does not run.
LEMMA FailAdmissionSole ==
  ASSUME FlowInv, SoleInv, NEW p \in Reconcilers, FailAdmission(p)
  PROVE  SoleEffect(p)
<1>0. pass[p].todo # {}
  BY DEF FailAdmission, At, FlowInv, PassOK
<1>1. PICK c \in PassRow, n \in Nodes :
        c = pass[p] /\ PassOK(c) /\ n = Next1(p) /\ n \in c.todo
  BY <1>0, SoleAt
<1>2. c.pc \in {"refusedAnswer", "refusedNode"}
  BY <1>1 DEF FailAdmission, At
<1>3. PICK new, from : /\ new = [node[n] EXCEPT !.status = "failed"]
                       /\ from = IF c.pc = "refusedAnswer" THEN "waiting" ELSE c.steps[n].status
  OBVIOUS
<1>4. /\ BeginWorkflowRunDrain(n, from, new, "failing")
      /\ Return(p) /\ taskRun' = taskRun
  BY <1>1, <1>3, Zenon DEF FailAdmission, Snapshot, At
<1>5. /\ new \in NodeRow /\ new.status = "failed"
      /\ new.cur = node[n].cur /\ new.attempt = node[n].attempt
  BY <1>3, NodeFacts DEF FlowInv, NodeRow, NodeStatus, NodeEnded
<1>6. from \in {"pending", "retry_wait", "waiting"}
  BY <1>1, <1>2, <1>3 DEF PassOK, Dispatching, DispatchOK
<1>7. SoleStep
  BY <1>4, <1>5, <1>6, DrainIsSole DEF FlowInv, Stopping, Open
<1> QED
  BY <1>4, <1>7, SoleReturn

\* Of the writes only one ends a run.
LEMMA EndOf ==
  ASSUME RowStep, run' \in RunEnded, run' # run
  PROVE  EndWrite
BY DEF RowStep, rows, StopWrite, NodeWrite, TaskWrite, AdmitWrite, OpenWrite, ResolveWrite,
   Stopping, RunEnded

\* A run that succeeds has no node left that runs.
LEMMA FinishDispatchSole ==
  ASSUME FlowInv, NEW p \in Reconcilers, FinishDispatch(p)
  PROVE  SoleEffect(p)
<1>1. Return(p) /\ UNCHANGED <<node, taskRun, request>>
  BY DEF FinishDispatch
<1>2. RowStep
  BY FinishDispatchEffect DEF Effect
<1>3. CASE run' = run
  BY <1>1, <1>3, SoleReturn DEF SoleStep, rows
<1>4. CASE run' # run
  <2>1. run' = "succeeded"
    BY <1>4 DEF FinishDispatch, TransitionWorkflowRun
  <2>2. EndWrite
    BY <1>2, <1>4, <2>1, EndOf DEF RunEnded
  <2>3. SoleEnd
    BY <2>1, <2>2 DEF SoleEnd, EndWrite
  <2> QED
    BY <1>1, <2>3, SoleReturn DEF SoleStep
<1> QED
  BY <1>3, <1>4

\* Asking an attempt to stop, in the drain.
LEMMA DrainCancelSole ==
  ASSUME FlowInv, SoleInv, NEW p \in Reconcilers, DrainCancel(p)
  PROVE  SoleEffect(p)
<1>1. RowStep /\ run' = run /\ node' = node
  BY DrainCancelEffect DEF Effect, DrainCancel
<1>2. SoleStep
  BY <1>1, OutsideIsSole DEF FlowInv
<1>3. PICK c \in PassRow : c = pass[p] /\ SolePass(c) /\ c.pc = "drain"
  BY DEF FlowInv, Others, SoleInv, DrainCancel, At
<1>4. Return(p) \/ Goto(p, "drainRead")
  BY Zenon DEF DrainCancel
<1>5. CASE Return(p)
  BY <1>2, <1>5, SoleReturn
<1>6. CASE Goto(p, "drainRead")
  <2>1. /\ pass'[p].pc = "drainRead" /\ pass'[p].todo = c.todo /\ pass'[p].steps = c.steps
        /\ pass'[p].count = c.count
    BY <1>3, <1>6 DEF Goto, FlowInv, Others, PassRow
  <2>2. SolePass(pass[p])'
    BY <1>1, <1>3, <2>1 DEF SolePass, Answering, Dispatching
  <2> QED
    BY <1>2, <2>2 DEF SoleEffect
<1> QED
  BY <1>4, <1>5, <1>6

\* Recording how a node's last run ended; a node that still runs is counted.
LEMMA DrainNodeSole ==
  ASSUME FlowInv, SoleInv, NEW p \in Reconcilers, DrainNode(p)
  PROVE  SoleEffect(p)
<1>0. pass[p].todo # {}
  BY DEF DrainNode, At, FlowInv, PassOK
<1>1. PICK c \in PassRow, n \in Nodes :
        /\ c = pass[p] /\ SolePass(c) /\ SoleNode(n)
        /\ n = Next1(p) /\ n \in c.todo /\ c.todo \subseteq Nodes
  BY <1>0, SoleAt
<1>2. c.pc = "drainRead" /\ c.count \in Nat
  BY <1>1 DEF DrainNode, At, PassRow
<1>3. PICK st : st = taskRun[n][c.steps[n].cur].status
  OBVIOUS
<1>4. PICK to, count :
        /\ to = CASE st \in {"SUCCEEDED", "ASKED", "UNSATISFIED"} -> "succeeded"
                  [] st = "FAILED" -> "failed"
                  [] OTHER -> "canceled"
        /\ count = IF st \in RunActive THEN c.count + 1 ELSE c.count
  OBVIOUS
<1>5. PICK new : new = [node[n] EXCEPT !.status = to]
  OBVIOUS
<1>6. /\ IF st \in RunActive THEN UNCHANGED node
                             ELSE TransitionWorkflowNodeRun(n, "running", new)
      /\ UNCHANGED <<run, taskRun, request>>
  BY <1>1, <1>3, <1>4, <1>5, Zenon DEF DrainNode, Snapshot
<1>7. /\ to \in {"succeeded", "failed", "canceled"} /\ count \in Nat
      /\ count = 0 => st \notin RunActive /\ c.count = 0
  BY <1>2, <1>4
<1>8. /\ new \in NodeRow /\ new.status = to
      /\ new.cur = node[n].cur /\ new.attempt = node[n].attempt
  BY <1>5, <1>7, NodeFacts DEF FlowInv, NodeRow, NodeStatus, NodeEnded
<1>9. st = LastStatus(n)
  BY <1>1, <1>2, <1>3 DEF SolePass, SoleNode, Work, LastStatus
<1>10. node \in [Nodes -> NodeRow]
  BY DEF FlowInv, RowInv, Rows
<1>11. /\ SoleStep /\ \A m \in Nodes \ {n} : node'[m] = node[m]
       /\ st \notin RunActive => node'[n].status # "running"
  <2>1. CASE st \in RunActive
    BY <1>6, <2>1 DEF SoleStep, rows
  <2>2. CASE st \notin RunActive
    <3>1. SoleStep
      BY <1>1, <1>6, <1>7, <1>8, <1>9, <2>2, Settled, MoveIsSole
    <3> QED
      BY <1>6, <1>7, <1>8, <1>10, <2>2, <3>1 DEF TransitionWorkflowNodeRun
  <2> QED
    BY <2>1, <2>2
<1>12. /\ pass'[p].pc = "drain" /\ pass'[p].todo = c.todo \ {n} /\ pass'[p].steps = c.steps
       /\ pass'[p].count = count
  <2>1. pass' = [pass EXCEPT ![p].pc = "drain", ![p].todo = @ \ {n},
                             ![p].count = IF st \in RunActive THEN @ + 1 ELSE @]
    BY <1>1, <1>3, Zenon DEF DrainNode, Snapshot
  <2>2. pass' = [pass EXCEPT ![p] = [pass[p] EXCEPT !.pc = "drain",
                   !.todo = pass[p].todo \ {n},
                   !.count = IF st \in RunActive THEN pass[p].count + 1 ELSE pass[p].count]]
    BY <2>1 DEF FlowInv, Others, PassRow
  <2>3. pass' = [pass EXCEPT ![p] = [c EXCEPT !.pc = "drain", !.todo = c.todo \ {n},
                                               !.count = count]]
    BY <1>1, <1>4, <2>2, Zenon
  <2> QED
    BY <2>3 DEF FlowInv, Others, PassRow
<1>13. SolePass(pass[p])'
  BY <1>1, <1>2, <1>7, <1>11, <1>12 DEF SolePass, Answering, Dispatching
<1> QED
  BY <1>11, <1>13 DEF SoleEffect

\* A drained run has no node left that runs.
LEMMA FinishDrainSole ==
  ASSUME FlowInv, SoleInv, NEW p \in Reconcilers, FinishDrain(p)
  PROVE  SoleEffect(p)
<1>1. Return(p) /\ UNCHANGED <<node, taskRun, request>>
  BY DEF FinishDrain
<1>2. RowStep
  BY FinishDrainEffect DEF Effect
<1>3. CASE run' = run
  BY <1>1, <1>3, SoleReturn DEF SoleStep, rows
<1>4. CASE run' # run
  <2>1. run' \in {"canceled", "failed"} /\ pass[p].count = 0
    BY <1>4, Zenon DEF FinishDrain, TransitionWorkflowRun, Drained
  <2>2. EndWrite
    BY <1>2, <1>4, <2>1, EndOf DEF RunEnded
  <2>3. \A n \in Nodes : node[n].status # "running"
    BY <2>1 DEF SoleInv, SolePass, FinishDrain, At
  <2>4. SoleEnd
    BY <2>2, <2>3 DEF SoleEnd
  <2> QED
    BY <1>1, <2>4, SoleReturn DEF SoleStep
<1> QED
  BY <1>3, <1>4

\* A pass that has released its lease, or died, has read nothing.
LEMMA IdleSole ==
  ASSUME FlowInv, NEW p \in Reconcilers, UNCHANGED rows, pass' = [pass EXCEPT ![p] = NoPass]
  PROVE  SoleEffect(p) /\ pass'[p].pc = "idle"
<1>1. NoPass.pc = "idle" /\ pass \in [Reconcilers -> PassRow]
  BY DEF FlowInv, Others, NoPass
<1>2. pass'[p].pc = "idle"
  BY <1>1
<1> QED
  BY <1>2, SoleFresh DEF SoleEffect, SoleStep

\* A pass that claims the lease starts from nothing.
LEMMA ReconcileSole ==
  ASSUME FlowInv, NEW p \in Reconcilers, Reconcile(p)
  PROVE  SoleEffect(p)
<1>1. PICK d : d = [NoPass EXCEPT !.pc = "readRun", !.now = passed \cap Deadlines]
  OBVIOUS
<1>2. d.pc = "readRun" /\ pass \in [Reconcilers -> PassRow]
  BY <1>1 DEF FlowInv, Others, NoPass
<1>3. pass' = [pass EXCEPT ![p] = d]
  BY <1>1, Zenon DEF Reconcile
<1>4. pass'[p].pc = "readRun"
  BY <1>2, <1>3
<1> QED
  BY <1>4, SoleFresh DEF SoleEffect, SoleStep, Reconcile

\* No step is taken outside a pass.
LEMMA BusyStep ==
  ASSUME NEW p \in Reconcilers, PassStep(p)
  PROVE  pass[p].pc # "idle"
BY DEF PassStep, At, EndPass, ReadRun, ReadSteps, StopAtDeadline, CancelTimedOutAttempt,
   FoldNode, FinalizeFailedFromNode, ListRequests, ExpireRequest, ApplyInput,
   SkipRequest, ApplyRefusal, AdmitAnswer, LinkAnswer, RereadSteps, SkipNode,
   OpenInputRequest, LimitReached, AdmitNode, LinkNode, FailAdmission,
   FinishDispatch, DrainCancel, DrainNode, FinishDrain

\* Every step of the one pass.
LEMMA PassStepSole ==
  ASSUME FlowInv, SoleInv, NEW p \in Reconcilers, PassStep(p)
  PROVE  SoleEffect(p) /\ Owner(p)'
<1>1. CASE EndPass(p)
  BY <1>1, IdleSole DEF EndPass, Owner
<1>2. CASE ~EndPass(p)
  <2>1. SoleEffect(p)
    BY <1>2, ReadRunSole, ReadStepsSole, StopAtDeadlineSole,
       CancelTimedOutAttemptSole, FoldNodeSole, FinalizeFailedFromNodeSole,
       ListRequestsSole, ExpireRequestSole, ApplyInputSole, SkipRequestSole,
       ApplyRefusalSole, AdmitAnswerSole, LinkAnswerSole, RereadStepsSole,
       SkipNodeSole, OpenInputRequestSole, LimitReachedSole, AdmitNodeSole,
       LinkNodeSole, FailAdmissionSole, FinishDispatchSole, DrainCancelSole,
       DrainNodeSole, FinishDrainSole, Zenon DEF PassStep
  <2>2. lease' = lease /\ pass[p].pc # "idle"
    <3>1. lease' = lease
      BY <1>2, Zenon DEF PassStep, ReadRun, ReadSteps, StopAtDeadline, CancelTimedOutAttempt,
         FoldNode, FinalizeFailedFromNode, ListRequests, ExpireRequest, ApplyInput,
         SkipRequest, ApplyRefusal, AdmitAnswer, LinkAnswer, RereadSteps, SkipNode,
         OpenInputRequest, LimitReached, AdmitNode, LinkNode, FailAdmission,
         FinishDispatch, DrainCancel, DrainNode, FinishDrain
    <3> QED
      BY <3>1, BusyStep
  <2> QED
    BY <2>1, <2>2 DEF SoleInv, Owner
<1> QED
  BY <1>1, <1>2

\* While one pass is in progress, or the lease is free, no other pass is.
LEMMA Excluded ==
  ASSUME SoleInv, NEW p \in Reconcilers, pass[p].pc # "idle" \/ LeaseFree,
         NEW q \in Reconcilers, q # p
  PROVE  pass[q].pc = "idle"
<1>1. q # NoOwner
  BY WorkflowAssumption DEF NoOwner
<1> QED
  BY <1>1 DEF SoleInv, Owner, LeaseFree

\* A step of the one pass preserves the invariant.
LEMMA SoleEffectKeeps ==
  ASSUME FlowInv, SoleInv, NEW p \in Reconcilers, Effect(p), SoleEffect(p), Owner(p)',
         pass[p].pc # "idle" \/ LeaseFree
  PROVE  SoleInv'
<1>1. SoleRows'
  BY SoleStepKeeps DEF FlowInv, SoleInv, SoleEffect
<1>2. PICK d : pass' = [pass EXCEPT ![p] = d]
  BY DEF Effect
<1>3. ASSUME NEW q \in Reconcilers, q # p PROVE Owner(q)' /\ SolePass(pass[q])'
  <2>1. pass[q].pc = "idle"
    BY <1>3, Excluded
  <2>2. pass'[q].pc = "idle"
    BY <1>2, <1>3, <2>1 DEF FlowInv, Others
  <2> QED
    BY <2>2, SoleFresh DEF Owner
<1> QED
  BY <1>1, <1>3 DEF SoleInv, SoleEffect

\* What people, TaskRuns and time do leaves the one pass right.
LEMMA SoleOutside ==
  ASSUME FlowInv, SoleInv, SoleStep, pass' = pass, lease' = lease,
         run' \in Failing => run \in Failing,
         \A q \in Reconcilers : pass[q].pc \in {"drain", "drainRead"} => node' = node,
         \A m \in Nodes : Stopless(m) /\ Len(request'[m]) = Len(request[m])
  PROVE  SoleInv'
<1>1. SoleRows'
  BY SoleStepKeeps DEF FlowInv, SoleInv
<1>2. ASSUME NEW q \in Reconcilers PROVE Owner(q)' /\ SolePass(pass[q])'
  <2>1. PICK c \in PassRow : c = pass[q] /\ PassOK(c) /\ SolePass(c)
    BY DEF FlowInv, Others, SoleInv
  <2>2. SolePass(c)'
    BY <2>1, SolePassKept
  <2>3. pass'[q] = c
    BY <2>1
  <2> QED
    BY <2>2, <2>3 DEF SolePass, Owner, SoleInv
<1> QED
  BY <1>1, <1>2 DEF SoleInv

-----------------------------------------------------------------------------
(* The theorems *)

\* Every run starts with rows that agree and no pass.
LEMMA SoleInit == Init => SoleInv
<1> SUFFICES ASSUME Init PROVE SoleInv
  OBVIOUS
<1>1. /\ run = "running" /\ node = [n \in Nodes |-> NewNode]
      /\ taskRun = [n \in Nodes |-> <<>>] /\ request = [n \in Nodes |-> <<>>]
  BY DEF Init, InitRest
<1>2. NewNode.status = "pending" /\ NewNode.cur = 0
  BY DEF NewNode, NoNode
<1>3. \A n \in Nodes : /\ node[n].status = "pending" /\ node[n].cur = 0
                       /\ taskRun[n] = <<>> /\ Len(taskRun[n]) = 0
                       /\ DOMAIN taskRun[n] = {} /\ DOMAIN request[n] = {}
  BY <1>1, <1>2
<1>4. SoleRows
  BY <1>1, <1>3 DEF SoleRows, SoleNode, Work, Keys, Asked, Halted, Active, Stopped,
     Stopping, RunEnded
<1>5. \A p \in Reconcilers : pass[p].pc = "idle"
  BY DEF Init, InitRest, NoPass
<1> QED
  BY <1>4, <1>5 DEF SoleInv, Owner, SolePass, Answering, Dispatching

\* Where no lease runs out under a live pass, every step preserves the invariant
\* and writes as one pass at a time does.
LEMMA SoleNext ==
  ASSUME ~StaleOwners
  PROVE  FlowInv /\ SoleInv /\ [Next]_vars => SoleInv' /\ SoleStep
<1> SUFFICES ASSUME FlowInv, SoleInv, [Next]_vars PROVE SoleInv' /\ SoleStep
  OBVIOUS
<1>1. ASSUME NEW p \in Reconcilers, Reconcile(p) PROVE SoleInv' /\ SoleStep
  <2>1. Effect(p) /\ SoleEffect(p) /\ LeaseFree
    BY <1>1, ReconcileEffect, ReconcileSole DEF Reconcile
  <2>2. Owner(p)'
    BY <1>1 DEF Reconcile, Owner
  <2> QED
    BY <2>1, <2>2, SoleEffectKeeps DEF SoleEffect
<1>2. ASSUME NEW p \in Reconcilers, PassStep(p) PROVE SoleInv' /\ SoleStep
  BY <1>2, PassStepEffect, PassStepSole, BusyStep, SoleEffectKeeps DEF SoleEffect
<1>3. ASSUME NEW p \in Reconcilers, Abort(p) PROVE SoleInv' /\ SoleStep
  <2>1. Effect(p) /\ SoleEffect(p) /\ pass'[p].pc = "idle" /\ pass[p].pc # "idle"
    BY <1>3, IdleEffect, IdleSole DEF Abort, At
  <2> QED
    BY <2>1, SoleEffectKeeps DEF SoleEffect, Owner
<1>4. CASE CancelWorkflowRun
  <2>1. /\ SoleStep
        /\ \A m \in Nodes : Stopless(m) /\ Len(request'[m]) = Len(request[m])
    BY <1>4, StopIsSole DEF CancelWorkflowRun, FlowInv, Stopping
  <2>3. run' \notin Failing
    BY <1>4 DEF CancelWorkflowRun, StopWorkflowRun, Failing
  <2>2. \A q \in Reconcilers : pass[q].pc \notin {"drain", "drainRead"}
    BY <1>4 DEF CancelWorkflowRun, FlowInv, PassOK, Stopped, Stopping
  <2> QED
    BY <1>4, <2>1, <2>2, <2>3, SoleOutside DEF CancelWorkflowRun
<1>5. CASE RespondToRequest
  <2>1. /\ RowStep
        /\ run' = run /\ node' = node /\ pass' = pass /\ lease' = lease
    BY <1>5, PersonIsWrite DEF RespondToRequest
  <2>2. PICK n \in Nodes : \E i \in DOMAIN request[n] : \E to \in {"answered", "declined"} :
          ResolveWorkflowRequest(n, i, to)
    BY <1>5 DEF RespondToRequest
  <2>3. \A m \in Nodes : Len(request'[m]) = Len(request[m])
    BY <2>2, ResolveLength DEF FlowInv
  <2>4. SoleStep
    BY <2>1, OutsideIsSole DEF FlowInv
  <2> QED
    BY <2>1, <2>3, <2>4, SoleOutside DEF Stopless
<1>6. ASSUME NEW n \in Nodes, TaskStep(n) \/ CancelTaskRun(n) PROVE SoleInv' /\ SoleStep
  <2>1. /\ RowStep
        /\ run' = run /\ node' = node /\ request' = request /\ pass' = pass /\ lease' = lease
    BY <1>6, TaskIsWrite DEF TaskStep, StartTaskRun, EndTaskRun, CancelTaskRun
  <2>2. SoleStep
    BY <2>1, OutsideIsSole DEF FlowInv
  <2> QED
    BY <2>1, <2>2, SoleOutside DEF Stopless
<1>7. ASSUME NEW t, DeadlinePasses(t) PROVE SoleInv' /\ SoleStep
  <2>1. UNCHANGED <<rows, pass, lease>> /\ SoleStep
    BY <1>7 DEF DeadlinePasses, SoleStep
  <2> QED
    BY <2>1, SoleOutside DEF Stopless, rows
<1>8. CASE LeaseExpires
  <2>1. UNCHANGED <<rows, pass>> /\ SoleStep
    BY <1>8 DEF LeaseExpires, SoleStep
  <2>2. /\ lease.owner \in Reconcilers /\ pass[lease.owner].pc = "idle"
    BY <1>8 DEF LeaseExpires, At, FlowInv, Others
  <2>3. \A q \in Reconcilers : pass[q].pc = "idle"
    BY <2>2 DEF SoleInv, Owner
  <2>4. SoleRows'
    BY <2>1, SoleStepKeeps DEF FlowInv, SoleInv
  <2>5. \A q \in Reconcilers : SolePass(pass[q])' /\ Owner(q)'
    BY <2>1, <2>3, SoleFresh DEF Owner
  <2> QED
    BY <2>1, <2>4, <2>5 DEF SoleInv
<1>9. CASE UNCHANGED vars
  <2>1. UNCHANGED <<rows, pass, lease>> /\ SoleStep
    BY <1>9 DEF vars, SoleStep, rows
  <2> QED
    BY <2>1, SoleOutside DEF Stopless, rows
<1> QED
  BY <1>1, <1>2, <1>3, <1>4, <1>5, <1>6, <1>7, <1>8, <1>9 DEF Next

\* One pass at a time, the lease excludes the others for as long as it is in
\* progress, what it has read of the nodes it has still to look at is what the
\* rows say, and the rows of a node agree with those of its Task and its requests.
THEOREM SoleInvariant ==
  ASSUME ~StaleOwners
  PROVE  Spec => []SoleInv
<1>1. FlowInv /\ SoleInv /\ [Next]_vars => SoleInv'
  BY SoleNext
<1> QED
  BY <1>1, SoleInit, WorkflowInvariant, PTL DEF Spec

\* The rows agree: a running node has its TaskRun, a pending request belongs to a
\* waiting node of a running run, and a waiting node has a request that no stop
\* has closed (OpenWorkflowRequest, stopPendingNodesTx).
THEOREM SoleRowsAgree ==
  ASSUME ~StaleOwners
  PROVE  Spec => []RowsAgree
<1>1. FlowInv /\ SoleInv => RequestsMatchWaits
  BY DEF FlowInv, RowInv, NodeInv, SoleInv, SoleRows, SoleNode, Asked, RequestsMatchWaits
<1> QED
  BY <1>1, WorkflowInvariant, SoleInvariant, WorkflowTypes, PTL DEF RowsAgree

\* An ended run is quiet: the drain ends it only when no attempt of it executes,
\* and leaves no node pending, running or waiting (drainRun, stopPendingNodesTx).
\* A node is left in retry_wait only in a run that was canceled: a failure is the
\* pass's own step, and a pass that failed the run schedules no retry after it.
THEOREM SoleEndedIsQuiet ==
  ASSUME ~StaleOwners
  PROVE  Spec => []EndedIsQuiet
<1>1. FlowInv /\ SoleInv => EndedIsQuiet
  <2> SUFFICES ASSUME FlowInv, SoleInv, run \in RunEnded, NEW n \in Nodes
               PROVE  /\ Active(n) = {} /\ node[n].status \in NodeEnded \cup {"retry_wait"}
                      /\ run = "canceled" \/ node[n].status \in NodeEnded
    BY DEF EndedIsQuiet, With
  <2>1. SoleNode(n) /\ node[n].status # "none" /\ node[n].status \in NodeStatus
    BY DEF FlowInv, RowInv, Rows, NodeRow, NodeInv, SoleInv, SoleRows
  <2>2. node[n].status # "running" /\ Active(n) = {}
    BY <2>1 DEF SoleNode, Halted, Work
  <2>3. node[n].status \notin {"pending", "waiting"}
    BY <2>1 DEF SoleNode, Halted, Stopped, RunEnded, FlowInv, RowInv, RunInv
  <2>4. run # "canceled" => node[n].status # "retry_wait"
    BY <2>1 DEF SoleNode, Halted, RunEnded, Failing, FlowInv, RowInv, RunInv
  <2> QED
    BY <2>1, <2>2, <2>3, <2>4 DEF NodeStatus
<1> QED
  BY <1>1, WorkflowInvariant, SoleInvariant, PTL

\* A node's next TaskRun follows one that failed or asked: no pass repeats a
\* success or retries an attempt that was canceled (classifyAttempt).
THEOREM SoleRetries ==
  ASSUME ~StaleOwners
  PROVE  Spec => RetriesFollowFailures
<1> DEFINE Follows ==
      \A n \in Nodes :
        Len(taskRun'[n]) > Len(taskRun[n]) /\ taskRun[n] # <<>>
          => taskRun[n][Len(taskRun[n])].status \in
               {"ASKED", "FAILED", "UNSATISFIED", "TIMEDOUT"}
<1>1. ASSUME FlowInv, SoleInv, SoleStep PROVE Follows
  <2> SUFFICES ASSUME NEW n \in Nodes, Len(taskRun'[n]) > Len(taskRun[n]), taskRun[n] # <<>>
               PROVE  LastStatus(n) \in {"ASKED", "FAILED", "UNSATISFIED", "TIMEDOUT"}
    BY DEF LastStatus
  <2>1. taskRun \in [Nodes -> Seq(TaskRunRow)] /\ Len(taskRun[n]) \in Nat
    BY <1>1 DEF FlowInv, RowInv, Rows
  <2>2. ASSUME NEW m \in Nodes, NEW k \in DOMAIN taskRun[m], NEW row \in TaskRunRow,
               TaskWrite(m, k, row)
        PROVE  FALSE
    <3>1. taskRun'[n] = taskRun[n] \/ taskRun'[n] = [taskRun[n] EXCEPT ![k] = row]
      BY <2>1, <2>2 DEF TaskWrite
    <3> QED
      BY <2>1, <3>1
  <2>3. taskRun' # taskRun
    BY <2>1
  <2>4. PICK m \in Nodes, key \in {"attempt", "request"} \X Nat, new \in NodeRow :
          SoleAdmit(m, key, new)
    BY <1>1, <2>2, <2>3 DEF SoleStep, SoleStop, StopWrite, SoleMove, SoleOpen, OpenWrite,
       ResolveWrite, SoleEnd, EndWrite, rows
  <2>5. m = n
    BY <2>1, <2>4 DEF SoleAdmit, AdmitWrite
  <2>6. /\ node[n].status \in {"pending", "retry_wait", "waiting"} /\ n \notin Human
    BY <2>4, <2>5 DEF SoleAdmit, AdmitWrite, Open
  <2> QED
    BY <1>1, <2>6 DEF SoleInv, SoleRows, SoleNode, Work, Retryable
<1>2. FlowInv /\ SoleInv /\ [Next]_vars => [Follows]_vars
  BY <1>1, SoleNext
<1> QED
  BY <1>2, WorkflowInvariant, SoleInvariant, PTL DEF Spec, RetriesFollowFailures
=============================================================================
