----------------------- MODULE WorkflowRuntimeProofs -----------------------
(***************************************************************************)
(* What a workflow run keeps for every definition and any number of         *)
(* reconcilers, proved with TLAPS.                                          *)
(*                                                                         *)
(* A pass acts on a snapshot that other passes, people and TaskRuns         *)
(* overtake.  The argument separates the two sides.  Seen from the rows,    *)
(* every action is one of a few writes (RowStep), each guarded inside its   *)
(* transaction; they preserve RowInv and only ever let the rows grow        *)
(* (Grows): ended nodes stay as they are, TaskRuns and requests are only    *)
(* added, a stop is never taken back.  Seen from a pass, PassOK says what   *)
(* it has read that growth cannot make false.                               *)
(***************************************************************************)
EXTENDS WorkflowRuntime, FiniteSetTheorems, SequenceTheorems, TLAPS

Open == {"pending", "running", "retry_wait", "waiting"}

\* A node's result came from where it should: an answer, or a TaskRun that
\* succeeded.
Accounted(n) ==
  IF n \in Human
  THEN \E i \in DOMAIN request[n] : request[n][i].status = "answered"
  ELSE node[n].cur # 0 /\ taskRun[n][node[n].cur].status = "SUCCEEDED"

NeedsDone(n) == \A m \in Needs[n] : node[m].status = "succeeded"

\* Work begins after everything the node needs, and a node that is past pending
\* has begun.  Human nodes have requests of their own and no TaskRun.
NodeInv ==
  \A n \in Nodes :
    /\ node[n].status # "none"
    /\ taskRun[n] # <<>> \/ request[n] # <<>> => NeedsDone(n)
    /\ node[n].status = "retry_wait" => taskRun[n] # <<>>
    /\ node[n].status = "waiting" => request[n] # <<>>
    /\ n \in Human => taskRun[n] = <<>>
    /\ \A i \in DOMAIN request[n] : (request[n][i].asker = 0) <=> (n \in Human)

\* No node of a run without a stop has failed, and what succeeded is accounted
\* for.
RunInv ==
  /\ run # "none"
  /\ run \in {"running", "succeeded"} =>
       \A n \in Nodes : /\ node[n].status \in Open \cup {"succeeded"}
                        /\ node[n].status = "succeeded" => Accounted(n)
  /\ run = "succeeded" => \A n \in Nodes : node[n].status = "succeeded"

Rows ==
  /\ run \in {"none", "running"} \cup Stopping \cup RunEnded
  /\ node \in [Nodes -> NodeRow]
  /\ taskRun \in [Nodes -> Seq(TaskRunRow)]
  /\ request \in [Nodes -> Seq(RequestRow)]
  /\ \A n \in Nodes : /\ node[n].cur \in 0..Len(taskRun[n])
                      /\ node[n].status = "running" => node[n].cur # 0

\* At most one active TaskRun per node, and no admission key used twice.
Solo(n) ==
  /\ \A j, k \in Active(n) : j = k
  /\ \A j, k \in DOMAIN taskRun[n] :
       taskRun[n][j].key = taskRun[n][k].key => j = k

RowInv == Rows /\ NodeInv /\ RunInv /\ \A n \in Nodes : Solo(n)

-----------------------------------------------------------------------------
(* The node a loop takes next *)

\* A non-empty set of natural numbers has a least element.
LEMMA LeastNat ==
  ASSUME NEW T, T \subseteq Nat, T # {}
  PROVE  \E x \in T : \A y \in T : x <= y
<1> DEFINE R == OpToRel(<, Nat)
<1>1. IsWellFoundedOn(R, Nat)
  BY NatLessThanWellFounded
<1>2. R = {ss \in Nat \X Nat : ss[1] < ss[2]}
  BY DEF OpToRel
<1> HIDE DEF R
<1>3. PICK x \in T : \A y \in T : ~ (<<y, x>> \in R)
  BY <1>1, WFMin
<1>4. \A y \in T : ~(y < x)
  BY <1>2, <1>3
<1> QED
  BY <1>4

\* ListWorkflowNodeRuns lists every node, so the first of a set is in the set.
LEMMA FirstIn ==
  ASSUME NEW S, S \subseteq Nodes, S # {}
  PROVE  First(S) \in S
<1> DEFINE T == {i \in DOMAIN topoSort : topoSort[i] \in S}
<1>1. topoSort \in Seq(Nodes) /\ DOMAIN topoSort \subseteq Nat
  BY OrderAssumption
<1>2. T \subseteq Nat /\ T # {}
  BY <1>1, OrderAssumption
<1>3. PICK x \in T : \A y \in T : x <= y
  BY <1>2, LeastNat
<1>4. \A j \in 1..(x - 1) : topoSort[j] \notin S
  <2> SUFFICES ASSUME NEW j \in 1..(x - 1), topoSort[j] \in S PROVE FALSE
    OBVIOUS
  <2>1. x \in Nat /\ x \in 1..Len(topoSort) /\ Len(topoSort) \in Nat
    BY <1>1, <1>3
  <2>2. j \in DOMAIN topoSort
    BY <1>1, <2>1
  <2> QED
    BY <1>3, <2>1, <2>2
<1>5. \E i \in DOMAIN topoSort : /\ topoSort[i] \in S
                                 /\ \A j \in 1..(i - 1) : topoSort[j] \notin S
  BY <1>3, <1>4
<1> QED
  BY <1>5 DEF First

-----------------------------------------------------------------------------
(* The writes *)

\* What a later write never takes back.
Stopped == Stopping \cup {"failed", "canceled"}

Grows ==
  /\ \A n \in Nodes :
       /\ Len(taskRun[n]) <= Len(taskRun'[n])
       /\ Len(request[n]) <= Len(request'[n])
       /\ node[n].status \in NodeEnded => node'[n].status = node[n].status
  /\ run \in Stopped => run' \in Stopped

\* A step the contract allows.
Allowed == [Contract!Next]_(Contract!vars)

\* What every write is shown to be.
Sound == RowInv' /\ Grows /\ Allowed

\* StopWorkflowRun and BeginWorkflowRunDrain: every open node but the running
\* ones ends, and so may one more.
StopWrite ==
  /\ run = "running" /\ run' \in Stopping
  /\ node' \in [Nodes -> NodeRow]
  /\ \A m \in Nodes :
       \/ node'[m] = node[m] /\ node[m].status \in NodeEnded \cup {"running"}
       \/ /\ node[m].status \in Open
          /\ node'[m].status \in {"blocked", "canceled", "failed"}
          /\ node'[m].cur \in 0..Len(taskRun[m])
  /\ taskRun' = taskRun
  /\ request' = closeRequests

\* TransitionWorkflowNodeRun, and the link of an admission that was made before.
NodeWrite(n, new) ==
  /\ node[n].status \in Open
  /\ new \in NodeRow /\ new.cur \in 0..Len(taskRun[n])
  /\ \/ new.status = "retry_wait" /\ node[n].status = "running"
     \/ new.status = "running" /\ new.cur # 0
     \/ /\ new.status \in {"succeeded", "failed", "canceled"}
        /\ node[n].status = "running" /\ run \in Stopped
     \/ /\ new.status = "succeeded" /\ node[n].status = "running"
        /\ new.cur # 0 /\ taskRun[n][new.cur].status = "SUCCEEDED"
     \/ /\ new.status = "succeeded" /\ node[n].status = "waiting"
        /\ n \in Human
        /\ \E i \in DOMAIN request[n] : request[n][i].status = "answered"
  /\ node' = [node EXCEPT ![n] = new]
  /\ run' = run /\ taskRun' = taskRun /\ request' = request

\* The Task plane moves a TaskRun that has not ended.
TaskWrite(n, k, row) ==
  /\ k \in DOMAIN taskRun[n]
  /\ taskRun[n][k].status \in RunActive
  /\ row \in TaskRunRow /\ row.key = taskRun[n][k].key
  /\ taskRun' = [taskRun EXCEPT ![n] = [taskRun[n] EXCEPT ![k] = row]]
  /\ run' = run /\ node' = node /\ request' = request

\* An admission that inserts a TaskRun.
AdmitWrite(n, key, new) ==
  /\ run = "running" /\ node[n].status \in Open \ {"running"}
  /\ n \notin Human /\ NeedsDone(n)
  /\ Active(n) = {}
  /\ key \in {"attempt", "request"} \X Nat
  /\ \A k \in DOMAIN taskRun[n] : taskRun[n][k].key # key
  /\ new \in NodeRow /\ new.status = "running" /\ new.cur = Len(taskRun[n]) + 1
  /\ taskRun' = [taskRun EXCEPT ![n] = Append(taskRun[n], NewTaskRun(key))]
  /\ node' = [node EXCEPT ![n] = new]
  /\ run' = run /\ request' = request

\* OpenWorkflowRequest, when it opens one.
OpenWrite(n, asker) ==
  /\ run = "running" /\ node[n].status \in {"pending", "running"}
  /\ asker \in Nat /\ (asker = 0 <=> n \in Human) /\ NeedsDone(n)
  /\ request' = [request EXCEPT
       ![n] = Append(request[n], [asker |-> asker, status |-> "pending"])]
  /\ node' = [node EXCEPT ![n] = [node[n] EXCEPT !.status = "waiting"]]
  /\ run' = run /\ taskRun' = taskRun

\* ResolveWorkflowRequest.
ResolveWrite(n, i, to) ==
  /\ i \in DOMAIN request[n] /\ request[n][i].status = "pending"
  /\ to \in {"answered", "declined", "expired"}
  /\ request' = [request EXCEPT
       ![n] = [request[n] EXCEPT ![i] = [request[n][i] EXCEPT !.status = to]]]
  /\ run' = run /\ node' = node /\ taskRun' = taskRun

\* TransitionWorkflowRun to an end.
EndWrite ==
  /\ \/ /\ run = "running" /\ run' = "succeeded"
        /\ \A n \in Nodes : node[n].status = "succeeded"
     \/ run = "failing" /\ run' = "failed"
     \/ run = "canceling" /\ run' = "canceled"
  /\ node' = node /\ taskRun' = taskRun /\ request' = request

RowStep ==
  \/ UNCHANGED rows
  \/ StopWrite
  \/ \E n \in Nodes, new \in NodeRow : NodeWrite(n, new)
  \/ \E n \in Nodes : \E k \in DOMAIN taskRun[n], row \in TaskRunRow : TaskWrite(n, k, row)
  \/ \E n \in Nodes, key \in {"attempt", "request"} \X Nat, new \in NodeRow :
       AdmitWrite(n, key, new)
  \/ \E n \in Nodes, asker \in Nat : OpenWrite(n, asker)
  \/ \E n \in Nodes : \E i \in DOMAIN request[n],
         to \in {"answered", "declined", "expired"} : ResolveWrite(n, i, to)
  \/ EndWrite

-----------------------------------------------------------------------------
(* Every write is sound *)

\* What Append does, in the form the proofs use.
LEMMA AppendFacts ==
  ASSUME NEW R, NEW s \in Seq(R), NEW e \in R
  PROVE  /\ Append(s, e) \in Seq(R) /\ Append(s, e) # <<>>
         /\ Len(s) \in Nat /\ Len(Append(s, e)) = Len(s) + 1
         /\ DOMAIN s = 1..Len(s)
         /\ DOMAIN Append(s, e) = DOMAIN s \cup {Len(s) + 1}
         /\ \A i \in DOMAIN s : Append(s, e)[i] = s[i]
         /\ Append(s, e)[Len(s) + 1] = e
OBVIOUS

\* Two counts, one of which is positive.
LEMMA SumPositive ==
  ASSUME NEW a \in Nat, NEW b \in Nat, a > 0 \/ b > 0
  PROVE  a + b > 0
OBVIOUS

\* A write that leaves the rows as they are.
LEMMA QuietSound ==
  ASSUME RowInv, UNCHANGED rows
  PROVE  Sound
<1>1. run' = run /\ node' = node /\ taskRun' = taskRun /\ request' = request
  BY DEF rows
<1>2. RowInv'
  BY <1>1 DEF RowInv, Rows, NodeInv, RunInv, Solo, Active, NeedsDone, Accounted
<1>3. Grows
  BY <1>1 DEF Grows, RowInv, Rows
<1>4. UNCHANGED Contract!vars
  BY <1>1 DEF Contract!vars, With
<1> QED
  BY <1>2, <1>3, <1>4 DEF Sound, Allowed

\* Ending a run: success needs every node.
LEMMA EndSound ==
  ASSUME RowInv, EndWrite
  PROVE  Sound
<1>1. node' = node /\ taskRun' = taskRun /\ request' = request
  BY DEF EndWrite
<1>2. Rows' /\ NodeInv' /\ \A n \in Nodes : Solo(n)'
  BY <1>1 DEF RowInv, Rows, NodeInv, Solo, Active, NeedsDone, EndWrite, RunEnded
<1>3. \A n \in Nodes : Accounted(n)' <=> Accounted(n)
  BY <1>1 DEF Accounted
<1>4. RunInv'
  BY <1>1, <1>3 DEF RowInv, RunInv, EndWrite
<1>5. Grows
  BY <1>1 DEF Grows, RowInv, Rows, EndWrite, Stopped, Stopping
<1>6. Contract!End
  BY <1>1 DEF Contract!End, EndWrite, With
<1> QED
  BY <1>2, <1>4, <1>5, <1>6 DEF Sound, Allowed, RowInv, Contract!Next

\* closeRequests changes statuses only, and no answer.
LEMMA Closed ==
  ASSUME Rows, NEW n \in Nodes
  PROVE  /\ closeRequests[n] \in Seq(RequestRow)
         /\ Len(closeRequests[n]) = Len(request[n])
         /\ DOMAIN closeRequests[n] = DOMAIN request[n]
         /\ \A i \in DOMAIN request[n] :
              /\ closeRequests[n][i].asker = request[n][i].asker
              /\ closeRequests[n][i].status # "pending"
<1> DEFINE f == [i \in DOMAIN request[n] |->
                   IF request[n][i].status = "pending"
                   THEN [request[n][i] EXCEPT !.status = "canceled"]
                   ELSE request[n][i]]
<1>1. closeRequests[n] = f
  BY DEF closeRequests
<1>2. request[n] \in Seq(RequestRow) /\ DOMAIN request[n] = 1..Len(request[n])
  BY DEF Rows
<1>3. \A i \in DOMAIN request[n] :
        f[i] \in RequestRow /\ f[i].asker = request[n][i].asker /\ f[i].status # "pending"
  <2> SUFFICES ASSUME NEW i \in DOMAIN request[n]
               PROVE  /\ f[i] \in RequestRow /\ f[i].asker = request[n][i].asker
                      /\ f[i].status # "pending"
    OBVIOUS
  <2>1. PICK q \in RequestRow : q = request[n][i]
    BY <1>2
  <2>2. f[i] = IF q.status = "pending" THEN [q EXCEPT !.status = "canceled"] ELSE q
    BY <2>1
  <2> QED
    BY <2>1, <2>2 DEF RequestRow
<1>4. f \in Seq(RequestRow) /\ Len(f) = Len(request[n])
  <2>1. Len(request[n]) \in Nat
    BY <1>2
  <2>2. f \in [1..Len(request[n]) -> RequestRow]
    BY <1>2, <1>3
  <2> HIDE DEF f
  <2> QED
    BY <2>1, <2>2
<1> HIDE DEF f
<1> QED
  BY <1>1, <1>2, <1>3, <1>4

\* A stop ends no node as succeeded and closes every request.
LEMMA StopSound ==
  ASSUME RowInv, StopWrite
  PROVE  Sound
<1>1. /\ taskRun' = taskRun /\ run' \in Stopping /\ run = "running"
      /\ \A n \in Nodes : request'[n] = closeRequests[n]
      /\ node' \in [Nodes -> NodeRow]
  BY DEF StopWrite
<1>2. \A n \in Nodes : /\ Len(request'[n]) = Len(request[n])
                       /\ request'[n] \in Seq(RequestRow)
                       /\ DOMAIN request'[n] = DOMAIN request[n]
                       /\ \A i \in DOMAIN request[n] :
                            request'[n][i].asker = request[n][i].asker
  BY <1>1, Closed DEF RowInv
<1>3. \A n \in Nodes : (request'[n] # <<>>) <=> (request[n] # <<>>)
  BY <1>2 DEF RowInv, Rows
<1>4. \A n \in Nodes : (node'[n].status = "succeeded") <=> (node[n].status = "succeeded")
  BY DEF StopWrite, Open
<1>5. request' \in [Nodes -> Seq(RequestRow)]
  BY <1>2 DEF StopWrite, closeRequests
<1>6. Rows'
  <2>1. \A n \in Nodes : /\ node'[n].cur \in 0..Len(taskRun[n])
                         /\ node'[n].status = "running" => node'[n].cur # 0
    BY DEF StopWrite, RowInv, Rows
  <2> QED
    BY <1>1, <1>5, <2>1 DEF Rows, RowInv
<1>7. NodeInv'
  <2> SUFFICES ASSUME NEW n \in Nodes
               PROVE  /\ node'[n].status # "none"
                      /\ taskRun'[n] # <<>> \/ request'[n] # <<>> => NeedsDone(n)'
                      /\ node'[n].status = "retry_wait" => taskRun'[n] # <<>>
                      /\ node'[n].status = "waiting" => request'[n] # <<>>
                      /\ n \in Human => taskRun'[n] = <<>>
                      /\ \A i \in DOMAIN request'[n] :
                           (request'[n][i].asker = 0) <=> (n \in Human)
    BY DEF NodeInv
  <2>1. node'[n].status \in NodeEnded \cup {"running"}
    BY DEF StopWrite, NodeEnded
  <2>2. NeedsDone(n) => NeedsDone(n)'
    BY <1>4, WorkflowAssumption DEF NeedsDone
  <2>3. \A i \in DOMAIN request'[n] : (request'[n][i].asker = 0) <=> (n \in Human)
    BY <1>2 DEF RowInv, NodeInv
  <2> QED
    BY <1>1, <1>3, <2>1, <2>2, <2>3 DEF RowInv, NodeInv, NodeEnded
<1>8. RunInv'
  BY <1>1 DEF RunInv, Stopping
<1>9. \A n \in Nodes : Solo(n)'
  BY <1>1 DEF RowInv, Solo, Active
<1>10. Grows
  <2>1. \A n \in Nodes : Len(taskRun[n]) \in Nat /\ Len(request[n]) \in Nat
    BY DEF RowInv, Rows
  <2>2. \A n \in Nodes : node[n].status \in NodeEnded => node'[n].status = node[n].status
    BY DEF StopWrite, Open, NodeEnded
  <2>3. run \notin Stopped
    BY <1>1 DEF Stopped, Stopping
  <2> QED
    BY <1>1, <1>2, <2>1, <2>2, <2>3 DEF Grows
<1>11. Contract!Stop
  <2>1. With(node, {"succeeded"})' = With(node, {"succeeded"})
    BY <1>4 DEF With
  <2>2. [n \in Nodes |-> Len(taskRun[n]) + Len(request[n])]'
          = [n \in Nodes |-> Len(taskRun[n]) + Len(request[n])]
    BY <1>1, <1>2
  <2> QED
    BY <1>1, <2>1, <2>2 DEF Contract!Stop, Stopping
<1> QED
  BY <1>6, <1>7, <1>8, <1>9, <1>10, <1>11 DEF Sound, Allowed, RowInv, Contract!Next

\* A TaskRun that moves stays the one run of its key, and an ended one stays.
LEMMA TaskSound ==
  ASSUME RowInv, NEW n \in Nodes, NEW k \in DOMAIN taskRun[n],
         NEW row \in TaskRunRow, TaskWrite(n, k, row)
  PROVE  Sound
<1>1. /\ run' = run /\ node' = node /\ request' = request
      /\ taskRun'[n] = [taskRun[n] EXCEPT ![k] = row]
      /\ \A m \in Nodes \ {n} : taskRun'[m] = taskRun[m]
      /\ taskRun[n] \in Seq(TaskRunRow)
  BY DEF TaskWrite, RowInv, Rows
<1>2. /\ taskRun'[n] \in Seq(TaskRunRow) /\ Len(taskRun'[n]) = Len(taskRun[n])
      /\ DOMAIN taskRun'[n] = DOMAIN taskRun[n]
      /\ taskRun'[n][k] = row /\ \A j \in DOMAIN taskRun[n] : j # k => taskRun'[n][j] = taskRun[n][j]
  BY <1>1
<1>3. taskRun' \in [Nodes -> Seq(TaskRunRow)]
  BY <1>2 DEF TaskWrite, RowInv, Rows
<1>4. \A m \in Nodes : /\ Len(taskRun'[m]) = Len(taskRun[m])
                       /\ (taskRun'[m] = <<>>) <=> (taskRun[m] = <<>>)
  <2>1. (taskRun'[n] = <<>>) <=> (taskRun[n] = <<>>)
    BY <1>1, <1>2
  <2> QED
    BY <1>1, <1>2, <2>1
<1>5. Rows'
  BY <1>1, <1>3, <1>4 DEF RowInv, Rows
<1>6. NodeInv'
  BY <1>1, <1>4 DEF RowInv, NodeInv, NeedsDone
<1>7. \A m \in Nodes : Accounted(m) => Accounted(m)'
  <2>1. \A m \in Nodes \ {n} : Accounted(m) => Accounted(m)'
    BY <1>1 DEF Accounted
  <2>2. ASSUME Accounted(n) PROVE Accounted(n)'
    <3>1. taskRun[n][k].status # "SUCCEEDED"
      BY DEF TaskWrite, RunActive
    <3>2. node[n].cur # 0 => node[n].cur \in DOMAIN taskRun[n]
      BY <1>1 DEF RowInv, Rows
    <3> QED
      BY <1>1, <1>2, <2>2, <3>1, <3>2 DEF Accounted
  <2> QED
    BY <2>1, <2>2
<1>8. RunInv'
  BY <1>1, <1>7 DEF RowInv, RunInv
<1>9. \A m \in Nodes : Solo(m)'
  <2>1. \A m \in Nodes \ {n} : Solo(m)'
    BY <1>1 DEF RowInv, Solo, Active
  <2>2. Solo(n)'
    <3>1. Active(n)' \subseteq Active(n)
      BY <1>2 DEF Active, TaskWrite
    <3>2. \A j \in DOMAIN taskRun[n] : taskRun'[n][j].key = taskRun[n][j].key
      BY <1>2 DEF TaskWrite
    <3> QED
      BY <1>2, <3>1, <3>2 DEF RowInv, Solo
  <2> QED
    BY <2>1, <2>2
<1>10. Grows
  BY <1>1, <1>4 DEF Grows, RowInv, Rows
<1>11. UNCHANGED Contract!vars
  BY <1>1, <1>4 DEF Contract!vars, With
<1> QED
  BY <1>5, <1>6, <1>8, <1>9, <1>10, <1>11 DEF Sound, Allowed, RowInv

\* A request that is resolved stays the request of its node.
LEMMA ResolveSound ==
  ASSUME RowInv, NEW n \in Nodes, NEW i \in DOMAIN request[n], NEW to,
         ResolveWrite(n, i, to)
  PROVE  Sound
<1>1. /\ run' = run /\ node' = node /\ taskRun' = taskRun
      /\ request'[n] = [request[n] EXCEPT ![i] = [request[n][i] EXCEPT !.status = to]]
      /\ \A m \in Nodes \ {n} : request'[m] = request[m]
      /\ request[n] \in Seq(RequestRow) /\ request[n][i] \in RequestRow
  BY DEF ResolveWrite, RowInv, Rows
<1>2. PICK q : q = [request[n][i] EXCEPT !.status = to]
  OBVIOUS
<1>3. q \in RequestRow /\ q.asker = request[n][i].asker /\ q.status = to
  BY <1>1, <1>2 DEF RequestRow, ResolveWrite
<1>4. /\ request'[n] \in Seq(RequestRow) /\ Len(request'[n]) = Len(request[n])
      /\ DOMAIN request'[n] = DOMAIN request[n]
      /\ request'[n][i] = q /\ \A j \in DOMAIN request[n] : j # i => request'[n][j] = request[n][j]
  BY <1>1, <1>2, <1>3
<1>5. request' \in [Nodes -> Seq(RequestRow)]
  BY <1>4 DEF ResolveWrite, RowInv, Rows
<1>6. \A m \in Nodes : /\ Len(request'[m]) = Len(request[m])
                       /\ (request'[m] = <<>>) <=> (request[m] = <<>>)
                       /\ DOMAIN request'[m] = DOMAIN request[m]
                       /\ \A j \in DOMAIN request[m] :
                            request'[m][j].asker = request[m][j].asker
  <2>1. (request'[n] = <<>>) <=> (request[n] = <<>>)
    BY <1>1, <1>4
  <2> QED
    BY <1>1, <1>3, <1>4, <2>1
<1>7. Rows'
  BY <1>1, <1>5 DEF RowInv, Rows
<1>8. NodeInv'
  BY <1>1, <1>6 DEF RowInv, NodeInv, NeedsDone
<1>9. \A m \in Nodes : Accounted(m) => Accounted(m)'
  BY <1>1, <1>3, <1>4 DEF Accounted, ResolveWrite
<1>10. RunInv'
  BY <1>1, <1>9 DEF RowInv, RunInv
<1>11. \A m \in Nodes : Solo(m)'
  BY <1>1 DEF RowInv, Solo, Active
<1>12. Grows
  BY <1>1, <1>6 DEF Grows, RowInv, Rows
<1>13. UNCHANGED Contract!vars
  BY <1>1, <1>6 DEF Contract!vars, With
<1> QED
  BY <1>7, <1>8, <1>10, <1>11, <1>12, <1>13 DEF Sound, Allowed, RowInv

\* A node that moves keeps its link, and succeeds only on what it was given, or
\* in a run that has been stopped.
LEMMA NodeSound ==
  ASSUME RowInv, NEW n \in Nodes, NEW new \in NodeRow, NodeWrite(n, new)
  PROVE  Sound
<1>1. /\ run' = run /\ taskRun' = taskRun /\ request' = request
      /\ node'[n] = new /\ \A m \in Nodes \ {n} : node'[m] = node[m]
      /\ node' \in [Nodes -> NodeRow]
      /\ node[n].status \in Open
  BY DEF NodeWrite, RowInv, Rows
<1>2. /\ taskRun[n] \in Seq(TaskRunRow) /\ Len(taskRun[n]) \in Nat
      /\ request[n] \in Seq(RequestRow) /\ Len(request[n]) \in Nat
      /\ node[n].cur \in 0..Len(taskRun[n])
      /\ new.cur \in 0..Len(taskRun[n])
      /\ node[n].status = "running" => node[n].cur # 0
  BY DEF RowInv, Rows, NodeWrite
<1>3. (new.cur # 0 \/ node[n].status = "running")
         => Len(taskRun[n]) > 0 /\ taskRun[n] # <<>> /\ n \notin Human
  <2>1. (new.cur # 0 \/ node[n].status = "running") => Len(taskRun[n]) > 0
    BY <1>2
  <2>2. Len(taskRun[n]) > 0 => taskRun[n] # <<>>
    BY <1>2
  <2> QED
    BY <2>1, <2>2 DEF RowInv, NodeInv
<1>4. \A m \in Nodes : node[m].status = "succeeded" => node'[m].status = "succeeded"
  BY <1>1 DEF Open
<1>5. Rows'
  <2>1. new.status = "running" => new.cur # 0
    BY DEF NodeWrite
  <2>2. \A m \in Nodes : /\ node'[m].cur \in 0..Len(taskRun[m])
                         /\ node'[m].status = "running" => node'[m].cur # 0
    BY <1>1, <1>2, <2>1 DEF RowInv, Rows
  <2> QED
    BY <1>1, <2>2 DEF RowInv, Rows
<1>6. NodeInv'
  <2>1. \A m \in Nodes : NeedsDone(m) => NeedsDone(m)'
    BY <1>4, WorkflowAssumption DEF NeedsDone
  <2>2. /\ new.status \notin {"none", "waiting"}
        /\ new.status = "retry_wait" => taskRun[n] # <<>>
    BY <1>3 DEF NodeWrite
  <2> QED
    BY <1>1, <2>1, <2>2 DEF RowInv, NodeInv
<1>7. RunInv'
  <2>1. \A m \in Nodes \ {n} : Accounted(m) => Accounted(m)'
    BY <1>1 DEF Accounted
  <2>2. ASSUME run \in {"running", "succeeded"}
        PROVE  /\ new.status \in Open \cup {"succeeded"}
               /\ new.status = "succeeded" => Accounted(n)'
    <3>1. run \notin Stopped
      BY <2>2 DEF Stopped, Stopping
    <3>2. new.status \in Open \cup {"succeeded"}
      BY <3>1 DEF NodeWrite, Open
    <3>3. ASSUME new.status = "succeeded" PROVE Accounted(n)'
      <4>1. \/ new.cur # 0 /\ taskRun[n][new.cur].status = "SUCCEEDED"
            \/ /\ n \in Human
               /\ \E i \in DOMAIN request[n] : request[n][i].status = "answered"
        BY <3>1, <3>3 DEF NodeWrite
      <4> QED
        BY <1>1, <1>3, <4>1 DEF Accounted
    <3> QED
      BY <3>2, <3>3
  <2>3. run # "succeeded"
    BY <1>1 DEF RowInv, RunInv, Open
  <2> QED
    BY <1>1, <2>1, <2>2, <2>3 DEF RowInv, RunInv
<1>8. \A m \in Nodes : Solo(m)'
  BY <1>1 DEF RowInv, Solo, Active
<1>9. Grows
  <2>1. \A m \in Nodes : Len(taskRun[m]) \in Nat /\ Len(request[m]) \in Nat
    BY DEF RowInv, Rows
  <2>2. \A m \in Nodes : node[m].status \in NodeEnded => node'[m].status = node[m].status
    BY <1>1 DEF Open, NodeEnded
  <2> QED
    BY <1>1, <2>1, <2>2 DEF Grows
<1>10. Allowed
  <2>1. [m \in Nodes |-> Len(taskRun[m]) + Len(request[m])]'
          = [m \in Nodes |-> Len(taskRun[m]) + Len(request[m])]
    BY <1>1
  <2>2. CASE new.status # "succeeded"
    <3>1. With(node, {"succeeded"})' = With(node, {"succeeded"})
      BY <1>1, <2>2 DEF With, Open
    <3> QED
      BY <1>1, <2>1, <3>1 DEF Allowed, Contract!vars
  <2>3. CASE new.status = "succeeded"
    <3>1. With(node, {"succeeded"})' = With(node, {"succeeded"}) \cup {n}
      BY <1>1, <2>3 DEF With
    <3>2. n \notin With(node, {"succeeded"})
      BY <1>1 DEF With, Open
    <3>3. Len(taskRun[n]) + Len(request[n]) > 0
      <4>1. node[n].status = "running" \/ node[n].status = "waiting"
        BY <2>3 DEF NodeWrite
      <4>2. node[n].status = "waiting" => Len(request[n]) > 0
        BY <1>2 DEF RowInv, NodeInv
      <4>3. Len(taskRun[n]) > 0 \/ Len(request[n]) > 0
        BY <1>3, <4>1, <4>2
      <4> QED
        BY <1>2, <4>3, SumPositive
    <3>4. Contract!Accept(n)
      BY <1>1, <2>1, <3>1, <3>2, <3>3 DEF Contract!Accept
    <3> QED
      BY <3>4 DEF Allowed, Contract!Next
  <2> QED
    BY <2>2, <2>3
<1> QED
  BY <1>5, <1>6, <1>7, <1>8, <1>9, <1>10 DEF Sound, RowInv

\* An admission begins work on a node whose needs are met, once per key, beside
\* no other run of its Task.
LEMMA AdmitSound ==
  ASSUME RowInv, NEW n \in Nodes, NEW key \in {"attempt", "request"} \X Nat,
         NEW new \in NodeRow, AdmitWrite(n, key, new)
  PROVE  Sound
<1> DEFINE row == NewTaskRun(key)
<1>0. row \in TaskRunRow /\ row.key = key
  BY DEF NewTaskRun, TaskRunRow, RunActive
<1> HIDE DEF row
<1>1. /\ run' = run /\ request' = request
      /\ node'[n] = new /\ \A m \in Nodes \ {n} : node'[m] = node[m]
      /\ node' \in [Nodes -> NodeRow]
      /\ taskRun'[n] = Append(taskRun[n], row)
      /\ \A m \in Nodes \ {n} : taskRun'[m] = taskRun[m]
      /\ taskRun[n] \in Seq(TaskRunRow)
  BY DEF AdmitWrite, RowInv, Rows, row
<1>2. /\ taskRun'[n] \in Seq(TaskRunRow) /\ taskRun'[n] # <<>>
      /\ Len(taskRun[n]) \in Nat /\ Len(taskRun'[n]) = Len(taskRun[n]) + 1
      /\ DOMAIN taskRun[n] = 1..Len(taskRun[n])
      /\ DOMAIN taskRun'[n] = DOMAIN taskRun[n] \cup {Len(taskRun[n]) + 1}
      /\ \A i \in DOMAIN taskRun[n] : taskRun'[n][i] = taskRun[n][i]
      /\ taskRun'[n][Len(taskRun[n]) + 1] = row
  BY <1>0, <1>1, AppendFacts
<1>3. /\ new.status = "running" /\ new.cur = Len(taskRun[n]) + 1
      /\ run = "running" /\ node[n].status \in Open /\ n \notin Human
  BY DEF AdmitWrite
<1>4. \A m \in Nodes : (node[m].status = "succeeded") <=> (node'[m].status = "succeeded")
  BY <1>1, <1>3 DEF Open
<1>5. Rows'
  <2>1. taskRun' \in [Nodes -> Seq(TaskRunRow)]
    BY <1>1, <1>2 DEF AdmitWrite, RowInv, Rows
  <2>2. \A m \in Nodes : /\ node'[m].cur \in 0..Len(taskRun'[m])
                         /\ node'[m].status = "running" => node'[m].cur # 0
    <3>1. new.cur \in 0..Len(taskRun'[n]) /\ new.cur # 0
      BY <1>2, <1>3
    <3> QED
      BY <1>1, <3>1 DEF RowInv, Rows
  <2> QED
    BY <1>1, <2>1, <2>2 DEF RowInv, Rows
<1>6. NodeInv'
  <2>1. \A m \in Nodes : NeedsDone(m) => NeedsDone(m)'
    BY <1>4, WorkflowAssumption DEF NeedsDone
  <2>2. NeedsDone(n)
    BY DEF AdmitWrite
  <2> QED
    BY <1>1, <1>2, <1>3, <2>1, <2>2 DEF RowInv, NodeInv
<1>7. RunInv'
  <2>1. \A m \in Nodes \ {n} : Accounted(m) => Accounted(m)'
    BY <1>1 DEF Accounted
  <2> QED
    BY <1>1, <1>3, <2>1 DEF RowInv, RunInv, Open
<1>8. \A m \in Nodes : Solo(m)'
  <2>1. \A m \in Nodes \ {n} : Solo(m)'
    BY <1>1 DEF RowInv, Solo, Active
  <2>2. Active(n)' \subseteq {Len(taskRun[n]) + 1}
    BY <1>2 DEF AdmitWrite, Active
  <2>3. \A j \in DOMAIN taskRun[n] : taskRun[n][j].key # row.key
    BY <1>0 DEF AdmitWrite
  <2>4. Solo(n)'
    <3>1. \A j, k \in Active(n)' : j = k
      BY <2>2
    <3>2. ASSUME NEW j \in DOMAIN taskRun'[n], NEW k \in DOMAIN taskRun'[n],
                 taskRun'[n][j].key = taskRun'[n][k].key
          PROVE  j = k
      <4>1. CASE j \in DOMAIN taskRun[n] /\ k \in DOMAIN taskRun[n]
        BY <1>2, <3>2, <4>1 DEF RowInv, Solo
      <4>2. CASE j \notin DOMAIN taskRun[n] \/ k \notin DOMAIN taskRun[n]
        BY <1>2, <2>3, <3>2, <4>2
      <4> QED
        BY <4>1, <4>2
    <3> QED
      BY <3>1, <3>2 DEF Solo
  <2> QED
    BY <2>1, <2>4
<1>9. Grows
  <2>1. \A m \in Nodes : Len(taskRun[m]) \in Nat /\ Len(request[m]) \in Nat
    BY DEF RowInv, Rows
  <2>2. \A m \in Nodes : node[m].status \in NodeEnded => node'[m].status = node[m].status
    BY <1>1, <1>3 DEF Open, NodeEnded
  <2> QED
    BY <1>1, <1>2, <2>1, <2>2 DEF Grows
<1>10. Contract!Begin(n)
  <2>1. With(node, {"succeeded"})' = With(node, {"succeeded"})
    BY <1>4 DEF With
  <2>2. [m \in Nodes |-> Len(taskRun[m]) + Len(request[m])]'
          = [[m \in Nodes |-> Len(taskRun[m]) + Len(request[m])]
               EXCEPT ![n] = Len(taskRun[n]) + Len(request[n]) + 1]
    <3>1. Len(request[n]) \in Nat
      BY DEF RowInv, Rows
    <3>2. Len(taskRun'[n]) + Len(request'[n]) = Len(taskRun[n]) + Len(request[n]) + 1
      <4>1. Len(taskRun[n]) \in Nat /\ Len(request[n]) \in Nat
        BY <1>2, <3>1
      <4>2. \/ Len(taskRun'[n]) = Len(taskRun[n]) + 1 /\ Len(request'[n]) = Len(request[n])
            \/ Len(taskRun'[n]) = Len(taskRun[n]) /\ Len(request'[n]) = Len(request[n]) + 1
        BY <1>1, <1>2
      <4>3. PICK a, b, c, d : /\ a = Len(taskRun[n]) /\ b = Len(request[n])
                              /\ c = Len(taskRun'[n]) /\ d = Len(request'[n])
        OBVIOUS
      <4>4. c + d = a + b + 1
        <5>1. a \in Nat /\ b \in Nat
          BY <4>1, <4>3
        <5>2. (c = a + 1 /\ d = b) \/ (c = a /\ d = b + 1)
          BY <4>2, <4>3
        <5> QED
          BY <5>1, <5>2
      <4> QED
        BY <4>3, <4>4
    <3>3. \A m \in Nodes \ {n} : Len(taskRun'[m]) + Len(request'[m]) = Len(taskRun[m]) + Len(request[m])
      BY <1>1
    <3>4. PICK k : k = Len(taskRun[n]) + Len(request[n]) + 1
      OBVIOUS
    <3> QED
      BY <3>2, <3>3, <3>4
  <2>3. Needs[n] \subseteq With(node, {"succeeded"})
    BY WorkflowAssumption DEF AdmitWrite, NeedsDone, With
  <2>4. n \notin With(node, {"succeeded"})
    BY <1>3 DEF With, Open
  <2> QED
    BY <1>1, <1>3, <2>1, <2>2, <2>3, <2>4 DEF Contract!Begin
<1> QED
  BY <1>5, <1>6, <1>7, <1>8, <1>9, <1>10 DEF Sound, Allowed, RowInv, Contract!Next

\* A request is work begun for a node that waits for it.
LEMMA OpenSound ==
  ASSUME RowInv, NEW n \in Nodes, NEW asker \in Nat, OpenWrite(n, asker)
  PROVE  Sound
<1>p. PICK q : q = [asker |-> asker, status |-> "pending"]
  OBVIOUS
<1>0. q \in RequestRow /\ q.asker = asker
  BY <1>p DEF RequestRow
<1>n. PICK new : new = [node[n] EXCEPT !.status = "waiting"]
  OBVIOUS
<1>m. new \in NodeRow /\ new.status = "waiting" /\ new.cur = node[n].cur
  BY <1>n DEF RowInv, Rows, NodeRow, NodeStatus
<1>1. /\ run' = run /\ taskRun' = taskRun
      /\ node'[n] = new /\ \A m \in Nodes \ {n} : node'[m] = node[m]
      /\ node' \in [Nodes -> NodeRow]
      /\ request'[n] = Append(request[n], q)
      /\ \A m \in Nodes \ {n} : request'[m] = request[m]
      /\ request[n] \in Seq(RequestRow)
  BY <1>p, <1>n, <1>m DEF OpenWrite, RowInv, Rows
<1>2. /\ request'[n] \in Seq(RequestRow) /\ request'[n] # <<>>
      /\ Len(request[n]) \in Nat /\ Len(request'[n]) = Len(request[n]) + 1
      /\ DOMAIN request[n] = 1..Len(request[n])
      /\ DOMAIN request'[n] = DOMAIN request[n] \cup {Len(request[n]) + 1}
      /\ \A i \in DOMAIN request[n] : request'[n][i] = request[n][i]
      /\ request'[n][Len(request[n]) + 1] = q
  BY <1>0, <1>1, AppendFacts
<1>3. run = "running" /\ node[n].status \in {"pending", "running"}
  BY DEF OpenWrite
<1>4. \A m \in Nodes : (node[m].status = "succeeded") <=> (node'[m].status = "succeeded")
  BY <1>1, <1>3, <1>m
<1>5. Rows'
  <2>1. request' \in [Nodes -> Seq(RequestRow)]
    BY <1>1, <1>2 DEF OpenWrite, RowInv, Rows
  <2>2. \A m \in Nodes : /\ node'[m].cur \in 0..Len(taskRun'[m])
                         /\ node'[m].status = "running" => node'[m].cur # 0
    BY <1>1, <1>m DEF RowInv, Rows
  <2> QED
    BY <1>1, <2>1, <2>2 DEF RowInv, Rows
<1>6. NodeInv'
  <2>1. \A m \in Nodes : NeedsDone(m) => NeedsDone(m)'
    BY <1>4, WorkflowAssumption DEF NeedsDone
  <2>2. NeedsDone(n) /\ (q.asker = 0 <=> n \in Human)
    BY <1>0 DEF OpenWrite
  <2>3. \A i \in DOMAIN request'[n] : (request'[n][i].asker = 0) <=> (n \in Human)
    <3>1. \A i \in DOMAIN request[n] : (request[n][i].asker = 0) <=> (n \in Human)
      BY DEF RowInv, NodeInv
    <3> QED
      BY <1>2, <2>2, <3>1
  <2>4. ASSUME NEW m \in Nodes \ {n}
        PROVE  /\ node'[m].status # "none"
               /\ taskRun'[m] # <<>> \/ request'[m] # <<>> => NeedsDone(m)'
               /\ node'[m].status = "retry_wait" => taskRun'[m] # <<>>
               /\ node'[m].status = "waiting" => request'[m] # <<>>
               /\ m \in Human => taskRun'[m] = <<>>
               /\ \A i \in DOMAIN request'[m] : (request'[m][i].asker = 0) <=> (m \in Human)
    BY <1>1, <2>1 DEF RowInv, NodeInv
  <2>5. /\ node'[n].status = "waiting" /\ NeedsDone(n)' /\ request'[n] # <<>>
        /\ n \in Human => taskRun'[n] = <<>>
    BY <1>1, <1>2, <1>m, <2>1, <2>2 DEF RowInv, NodeInv
  <2> QED
    BY <2>3, <2>4, <2>5 DEF NodeInv
<1>7. RunInv'
  <2>1. \A m \in Nodes \ {n} : Accounted(m) => Accounted(m)'
    BY <1>1 DEF Accounted
  <2> QED
    BY <1>1, <1>3, <1>m, <2>1 DEF RowInv, RunInv, Open
<1>8. \A m \in Nodes : Solo(m)'
  BY <1>1 DEF RowInv, Solo, Active
<1>9. Grows
  <2>1. \A m \in Nodes : Len(taskRun[m]) \in Nat /\ Len(request[m]) \in Nat
    BY DEF RowInv, Rows
  <2>2. \A m \in Nodes : node[m].status \in NodeEnded => node'[m].status = node[m].status
    BY <1>1, <1>3 DEF NodeEnded
  <2> QED
    BY <1>1, <1>2, <2>1, <2>2 DEF Grows
<1>10. Contract!Begin(n)
  <2>1. With(node, {"succeeded"})' = With(node, {"succeeded"})
    BY <1>4 DEF With
  <2>2. [m \in Nodes |-> Len(taskRun[m]) + Len(request[m])]'
          = [[m \in Nodes |-> Len(taskRun[m]) + Len(request[m])]
               EXCEPT ![n] = Len(taskRun[n]) + Len(request[n]) + 1]
    <3>1. Len(taskRun[n]) \in Nat
      BY DEF RowInv, Rows
    <3>2. Len(taskRun'[n]) + Len(request'[n]) = Len(taskRun[n]) + Len(request[n]) + 1
      <4>1. Len(taskRun[n]) \in Nat /\ Len(request[n]) \in Nat
        BY <1>2, <3>1
      <4>2. \/ Len(taskRun'[n]) = Len(taskRun[n]) + 1 /\ Len(request'[n]) = Len(request[n])
            \/ Len(taskRun'[n]) = Len(taskRun[n]) /\ Len(request'[n]) = Len(request[n]) + 1
        BY <1>1, <1>2
      <4>3. PICK a, b, c, d : /\ a = Len(taskRun[n]) /\ b = Len(request[n])
                              /\ c = Len(taskRun'[n]) /\ d = Len(request'[n])
        OBVIOUS
      <4>4. c + d = a + b + 1
        <5>1. a \in Nat /\ b \in Nat
          BY <4>1, <4>3
        <5>2. (c = a + 1 /\ d = b) \/ (c = a /\ d = b + 1)
          BY <4>2, <4>3
        <5> QED
          BY <5>1, <5>2
      <4> QED
        BY <4>3, <4>4
    <3>3. \A m \in Nodes \ {n} : Len(taskRun'[m]) + Len(request'[m]) = Len(taskRun[m]) + Len(request[m])
      BY <1>1
    <3>4. PICK k : k = Len(taskRun[n]) + Len(request[n]) + 1
      OBVIOUS
    <3> QED
      BY <3>2, <3>3, <3>4
  <2>3. Needs[n] \subseteq With(node, {"succeeded"})
    BY WorkflowAssumption DEF OpenWrite, NeedsDone, With
  <2>4. n \notin With(node, {"succeeded"})
    BY <1>3 DEF With
  <2> QED
    BY <1>1, <1>3, <2>1, <2>2, <2>3, <2>4 DEF Contract!Begin
<1> QED
  BY <1>5, <1>6, <1>7, <1>8, <1>9, <1>10 DEF Sound, Allowed, RowInv, Contract!Next

\* Every write is sound.
LEMMA RowStepSound ==
  ASSUME RowInv, RowStep
  PROVE  Sound
BY QuietSound, StopSound, NodeSound, TaskSound, AdmitSound, OpenSound, ResolveSound,
   EndSound DEF RowStep

-----------------------------------------------------------------------------
(* What a pass has read that stays true *)

Answering   == {"answers", "linkAnswer", "refusedAnswer"}
Dispatching == {"dispatch", "linkNode", "refusedNode"}

\* A snapshot names TaskRuns and requests that exist.
StepsOK(c) ==
  \A n \in Nodes :
    /\ c.steps[n].cur <= Len(taskRun[n])
    /\ c.steps[n].status = "running" => c.steps[n].cur # 0
    /\ c.steps[n].status \in {"running", "retry_wait"} => Len(taskRun[n]) > 0
    /\ c.steps[n].status = "waiting" => Len(request[n]) > 0

\* In dispatch, what the snapshot shows as ended has ended that way.
DispatchOK(c) ==
  /\ \A n \in Nodes :
       /\ c.steps[n].status # "none"
       /\ c.steps[n].status \in NodeEnded => node[n].status = c.steps[n].status
  /\ \A n \in c.todo : c.steps[n].status \in {"pending", "retry_wait"}
  /\ c.count = 0 => \A n \in Nodes : c.steps[n].status # "running"

PassOK(c) ==
  /\ StepsOK(c)
  /\ c.run \in Stopping => run \in Stopped
  /\ c.pc \in {"drain", "drainRead"} => c.run \in Stopping
  /\ c.pc \in {"fold", "foldAsked"} => \A n \in c.todo : c.steps[n].status = "running"
  /\ c.pc \in Answering => \A n \in c.todo : c.req[n] \in 1..Len(request[n])
  /\ c.pc \in Dispatching => DispatchOK(c)
  /\ c.pc \in {"linkAnswer", "refusedAnswer", "linkNode", "refusedNode", "drainRead"}
       => c.todo # {}
  /\ c.pc \in {"linkAnswer", "linkNode"} => c.got \in 1..Len(taskRun[First(c.todo)])
  /\ c.pc = "drainRead" => c.steps[First(c.todo)].cur # 0

Others ==
  /\ lease \in [owner : Reconcilers \cup {NoOwner}, expired : BOOLEAN]
  /\ passed \subseteq Timers
  /\ pass \in [Reconcilers -> PassRow]
  /\ aborts \in 0..MaxAborts

FlowInv == RowInv /\ Others /\ \A p \in Reconcilers : PassOK(pass[p])

\* Growth of the rows leaves a pass right.
LEMMA PassGrows ==
  ASSUME RowInv, RowInv', Grows, NEW c \in PassRow, PassOK(c)
  PROVE  PassOK(c)'
<1>1. \A n \in Nodes : /\ Len(taskRun[n]) \in Nat /\ Len(taskRun'[n]) \in Nat
                       /\ Len(request[n]) \in Nat /\ Len(request'[n]) \in Nat
                       /\ Len(taskRun[n]) <= Len(taskRun'[n])
                       /\ Len(request[n]) <= Len(request'[n])
  BY DEF RowInv, Rows, Grows
<1>2. /\ \A n \in Nodes : c.steps[n].cur \in Nat
      /\ c.todo \subseteq Nodes /\ c.got \in Nat
      /\ \A n \in Nodes : c.req[n] \in Nat
  BY DEF PassRow, NodeRow
<1>3. StepsOK(c)'
  BY <1>1, <1>2 DEF PassOK, StepsOK
<1>4. c.run \in Stopping => run' \in Stopped
  BY DEF PassOK, Grows
<1>5. c.pc \in Answering => \A n \in c.todo : c.req[n] \in 1..Len(request'[n])
  <2> SUFFICES ASSUME c.pc \in Answering, NEW n \in c.todo
               PROVE  c.req[n] \in 1..Len(request'[n])
    OBVIOUS
  <2>1. n \in Nodes /\ c.req[n] \in 1..Len(request[n])
    BY <1>2 DEF PassOK
  <2> QED
    BY <1>1, <2>1
<1>6. c.pc \in Dispatching => DispatchOK(c)'
  BY DEF PassOK, DispatchOK, Grows
<1>7. c.pc \in {"linkAnswer", "linkNode"}
        => c.todo # {} /\ c.got \in 1..Len(taskRun'[First(c.todo)])
  <2> SUFFICES ASSUME c.pc \in {"linkAnswer", "linkNode"}
               PROVE  c.todo # {} /\ c.got \in 1..Len(taskRun'[First(c.todo)])
    OBVIOUS
  <2>1. c.todo # {} /\ c.got \in 1..Len(taskRun[First(c.todo)])
    BY DEF PassOK
  <2>2. First(c.todo) \in Nodes
    BY <1>2, <2>1, FirstIn
  <2> QED
    BY <1>1, <2>1, <2>2
<1> QED
  BY <1>3, <1>4, <1>5, <1>6, <1>7 DEF PassOK

\* What a step of pass p is shown to do.
Effect(p) ==
  /\ RowStep
  /\ \E d \in PassRow : pass' = [pass EXCEPT ![p] = d] /\ PassOK(d)'

\* A pass may keep in its next position whatever is right before the step.
LEMMA EffectBefore ==
  ASSUME RowInv, RowStep, NEW p \in Reconcilers, NEW d \in PassRow, PassOK(d),
         pass' = [pass EXCEPT ![p] = d]
  PROVE  Effect(p)
<1>1. RowInv' /\ Grows
  BY RowStepSound DEF Sound
<1>2. PassOK(d)'
  BY <1>1, PassGrows
<1> QED
  BY <1>2 DEF Effect

\* A step of pass p preserves the invariant: it is a write, and the other passes
\* only see the rows grow.
LEMMA EffectKeeps ==
  ASSUME FlowInv, NEW p \in Reconcilers, Effect(p),
         lease' \in [owner : Reconcilers \cup {NoOwner}, expired : BOOLEAN],
         passed' \subseteq Timers, aborts' \in 0..MaxAborts
  PROVE  FlowInv' /\ Allowed
<1>1. RowInv' /\ Grows /\ Allowed
  BY RowStepSound DEF Effect, FlowInv, Sound
<1>2. PICK d \in PassRow : pass' = [pass EXCEPT ![p] = d] /\ PassOK(d)'
  BY DEF Effect
<1>3. Others'
  BY <1>2 DEF FlowInv, Others
<1>4. ASSUME NEW q \in Reconcilers PROVE PassOK(pass[q])'
  <2>1. CASE q = p
    <3>1. pass'[q] = d
      BY <1>2, <2>1 DEF FlowInv, Others
    <3> QED
      BY <1>2, <3>1 DEF PassOK, StepsOK, DispatchOK
  <2>2. CASE q # p
    <3>1. PICK c \in PassRow : c = pass[q]
      BY DEF FlowInv, Others
    <3>2. PassOK(c)
      BY <3>1 DEF FlowInv
    <3>3. PassOK(c)'
      BY <1>1, <3>2, PassGrows DEF FlowInv
    <3>4. pass'[q] = c
      BY <1>2, <2>2, <3>1 DEF FlowInv, Others
    <3> QED
      BY <3>3, <3>4 DEF PassOK, StepsOK, DispatchOK
  <2> QED
    BY <2>1, <2>2
<1> QED
  BY <1>1, <1>3, <1>4 DEF FlowInv

\* A pass that starts, starts over or ends has read nothing yet.
LEMMA FreshOK ==
  ASSUME RowInv, NEW pc \in {"idle", "readRun", "release"}, NEW now \in SUBSET Timers
  PROVE  /\ [NoPass EXCEPT !.pc = pc, !.now = now] \in PassRow
         /\ PassOK([NoPass EXCEPT !.pc = pc, !.now = now])
<1>1. PICK d : d = [NoPass EXCEPT !.pc = pc, !.now = now]
  OBVIOUS
<1>2. /\ d.pc = pc /\ d.now = now /\ d.run = "none"
      /\ \A n \in Nodes : d.steps[n] = NoNode
      /\ d.todo = {} /\ d.count = 0 /\ d.got = 0
  BY <1>1 DEF NoPass
<1>3. NoNode \in NodeRow /\ NoNode.status = "none" /\ NoNode.cur = 0
  BY DEF NoNode, NodeRow, NodeStatus
<1>4. d \in PassRow
  <2>1. [n \in Nodes |-> NoNode] \in [Nodes -> NodeRow] /\ [n \in Nodes |-> 0] \in [Nodes -> Nat]
    BY <1>3
  <2> QED
    BY <1>1, <2>1 DEF NoPass, PassRow
<1>5. StepsOK(d)
  <2>1. \A n \in Nodes : Len(taskRun[n]) \in Nat
    BY DEF RowInv, Rows
  <2> QED
    BY <1>2, <1>3, <2>1 DEF StepsOK
<1>6. PassOK(d)
  BY <1>2, <1>5 DEF PassOK, Answering, Dispatching, Stopping
<1> QED
  BY <1>1, <1>4, <1>6

-----------------------------------------------------------------------------
(* Each store operation is a write *)

\* stopPendingNodesTx leaves running and ended nodes alone and ends the others.
LEMMA StoppedNodes ==
  ASSUME NEW S \in [Nodes -> NodeRow]
  PROVE  /\ stopPendingNodes(S) \in [Nodes -> NodeRow]
         /\ \A m \in Nodes :
              /\ S[m].status \in {"pending", "retry_wait", "waiting"}
                   => /\ stopPendingNodes(S)[m].status \in {"blocked", "canceled"}
                      /\ stopPendingNodes(S)[m].cur = S[m].cur
              /\ S[m].status \notin {"pending", "retry_wait", "waiting"}
                   => stopPendingNodes(S)[m] = S[m]
<1> DEFINE f == stopPendingNodes(S)
<1>1. ASSUME NEW m \in Nodes
      PROVE  /\ f[m] \in NodeRow
             /\ S[m].status \in {"pending", "retry_wait", "waiting"}
                  => f[m].status \in {"blocked", "canceled"} /\ f[m].cur = S[m].cur
             /\ S[m].status \notin {"pending", "retry_wait", "waiting"} => f[m] = S[m]
  <2>1. PICK s \in NodeRow : s = S[m]
    OBVIOUS
  <2>2. f[m] = CASE s.status = "pending" -> [s EXCEPT !.status = "blocked"]
                 [] s.status \in {"retry_wait", "waiting"} -> [s EXCEPT !.status = "canceled"]
                 [] OTHER -> s
    BY <2>1 DEF stopPendingNodes
  <2> QED
    BY <2>1, <2>2 DEF NodeRow, NodeStatus, NodeEnded
<1>2. f \in [Nodes -> NodeRow]
  <2>1. f = [m \in Nodes |-> f[m]]
    BY DEF stopPendingNodes
  <2> QED
    BY <1>1, <2>1
<1> QED
  BY <1>1, <1>2

\* StopWorkflowRun either stops the run or changes nothing.
LEMMA StopIsWrite ==
  ASSUME RowInv, NEW to \in Stopping, StopWorkflowRun(to), taskRun' = taskRun
  PROVE  RowStep
<1>1. CASE run = "running"
  <2>1. run' = to /\ node' = stopPendingNodes(node) /\ request' = closeRequests
    BY <1>1 DEF StopWorkflowRun
  <2>2. node \in [Nodes -> NodeRow] /\ \A m \in Nodes : node[m].cur \in 0..Len(taskRun[m])
    BY DEF RowInv, Rows
  <2>3. \A m \in Nodes : node[m].status \in NodeEnded \cup Open
    BY <2>2 DEF RowInv, NodeInv, NodeRow, NodeStatus, Open
  <2>4. StopWrite
    BY <1>1, <2>1, <2>2, <2>3, StoppedNodes DEF StopWrite, Open
  <2> QED
    BY <2>4 DEF RowStep
<1>2. CASE run # "running"
  BY <1>2 DEF StopWorkflowRun, RowStep, rows
<1> QED
  BY <1>1, <1>2

\* BeginWorkflowRunDrain ends one open node and stops the run, or changes nothing.
LEMMA DrainIsWrite ==
  ASSUME RowInv, NEW n \in Nodes, NEW from \in Open, NEW new \in NodeRow,
         NEW to \in Stopping, new.status \in {"failed", "canceled"},
         new.cur \in 0..Len(taskRun[n]),
         BeginWorkflowRunDrain(n, from, new, to), taskRun' = taskRun
  PROVE  RowStep
<1>1. CASE run = "running" /\ node[n].status = from
  <2>1. PICK S : S = [node EXCEPT ![n] = new]
    OBVIOUS
  <2>2. run' = to /\ node' = stopPendingNodes(S) /\ request' = closeRequests
    BY <1>1, <2>1 DEF BeginWorkflowRunDrain
  <2>3. node \in [Nodes -> NodeRow] /\ \A m \in Nodes : node[m].cur \in 0..Len(taskRun[m])
    BY DEF RowInv, Rows
  <2>4. S \in [Nodes -> NodeRow] /\ S[n] = new /\ \A m \in Nodes \ {n} : S[m] = node[m]
    BY <2>1, <2>3
  <2>5. \A m \in Nodes : node[m].status \in NodeEnded \cup Open
    BY <2>3 DEF RowInv, NodeInv, NodeRow, NodeStatus, Open
  <2>6. node'[n] = new
    BY <2>2, <2>4, StoppedNodes
  <2>7. \A m \in Nodes \ {n} :
          \/ node'[m] = node[m] /\ node[m].status \in NodeEnded \cup {"running"}
          \/ /\ node[m].status \in Open
             /\ node'[m].status \in {"blocked", "canceled", "failed"}
             /\ node'[m].cur \in 0..Len(taskRun[m])
    BY <2>2, <2>3, <2>4, <2>5, StoppedNodes DEF Open
  <2>8. node' \in [Nodes -> NodeRow]
    BY <2>2, <2>4, StoppedNodes
  <2>9. StopWrite
    BY <1>1, <2>2, <2>6, <2>7, <2>8 DEF StopWrite
  <2> QED
    BY <2>9 DEF RowStep
<1>2. CASE ~(run = "running" /\ node[n].status = from)
  BY <1>2 DEF BeginWorkflowRunDrain, RowStep, rows
<1> QED
  BY <1>1, <1>2

\* A guarded node transition writes the new row or changes nothing.
LEMMA CasIsWrite ==
  ASSUME RowInv, NEW n \in Nodes, NEW from \in Open, NEW new \in NodeRow,
         TransitionWorkflowNodeRun(n, from, new),
         run' = run, taskRun' = taskRun, request' = request,
         new.cur \in 0..Len(taskRun[n]),
         node[n].status = from =>
           \/ new.status = "retry_wait" /\ from = "running"
           \/ new.status = "running" /\ new.cur # 0
           \/ /\ new.status \in {"succeeded", "failed", "canceled"}
              /\ from = "running" /\ run \in Stopped
           \/ /\ new.status = "succeeded" /\ from = "running"
              /\ new.cur # 0 /\ taskRun[n][new.cur].status = "SUCCEEDED"
           \/ /\ new.status = "succeeded" /\ from = "waiting"
              /\ n \in Human
              /\ \E i \in DOMAIN request[n] : request[n][i].status = "answered"
  PROVE  RowStep
<1>1. CASE node[n].status = from
  <2>1. node' = [node EXCEPT ![n] = new]
    BY <1>1 DEF TransitionWorkflowNodeRun
  <2>2. NodeWrite(n, new)
    BY <1>1, <2>1 DEF NodeWrite
  <2> QED
    BY <2>2 DEF RowStep
<1>2. CASE node[n].status # from
  BY <1>2 DEF TransitionWorkflowNodeRun, RowStep, rows
<1> QED
  BY <1>1, <1>2

\* Asking a TaskRun to stop moves it if it has not ended.
LEMMA CancelIsWrite ==
  ASSUME RowInv, NEW n \in Nodes, NEW k \in DOMAIN taskRun[n],
         NEW reason \in {"timeout", "stop", "person"}, RequestRunCancel(n, k, reason),
         run' = run, node' = node, request' = request
  PROVE  RowStep
<1>1. taskRun \in [Nodes -> Seq(TaskRunRow)] /\ taskRun[n] \in Seq(TaskRunRow)
  BY DEF RowInv, Rows
<1>2. PICK r \in TaskRunRow : r = taskRun[n][k]
  BY <1>1
<1>3. PICK row : row = Canceled(r, reason)
  OBVIOUS
<1>4. taskRun' = [taskRun EXCEPT ![n] = [taskRun[n] EXCEPT ![k] = row]]
  BY <1>1, <1>2, <1>3 DEF RequestRunCancel
<1>5. CASE r.status \in RunActive
  <2>1. row \in TaskRunRow /\ row.key = r.key
    BY <1>2, <1>3, <1>5 DEF Canceled, TaskRunRow, RunActive, RunDone
  <2>2. TaskWrite(n, k, row)
    BY <1>2, <1>4, <1>5, <2>1 DEF TaskWrite
  <2> QED
    BY <2>1, <2>2 DEF RowStep
<1>6. CASE r.status \notin RunActive
  <2>1. row = r
    BY <1>3, <1>6 DEF Canceled, RunActive
  <2>2. [taskRun[n] EXCEPT ![k] = r] = taskRun[n]
    BY <1>1, <1>2
  <2>3. taskRun' = taskRun
    BY <1>1, <1>4, <2>1, <2>2
  <2> QED
    BY <2>3 DEF RowStep, rows
<1> QED
  BY <1>5, <1>6

\* OpenWorkflowRequest opens the one request of its key, or changes nothing.
LEMMA OpenIsWrite ==
  ASSUME RowInv, NEW n \in Nodes, NEW from \in {"pending", "running"}, NEW asker \in Nat,
         OpenWorkflowRequest(n, from, asker), run' = run, taskRun' = taskRun,
         node[n].status = from => NeedsDone(n) /\ ((asker = 0) <=> (n \in Human))
  PROVE  RowStep
<1>1. CASE RequestMayOpen(n, from, asker)
  <2>1. node \in [Nodes -> NodeRow] /\ request \in [Nodes -> Seq(RequestRow)]
    BY DEF RowInv, Rows
  <2>2. node' = [node EXCEPT ![n] = [node[n] EXCEPT !.status = "waiting"]]
    BY <1>1, <2>1 DEF OpenWorkflowRequest, NodeRow
  <2>3. request' = [request EXCEPT
          ![n] = Append(request[n], [asker |-> asker, status |-> "pending"])]
    BY <1>1, <2>1 DEF OpenWorkflowRequest
  <2>4. run = "running" /\ node[n].status = from
    BY <1>1 DEF RequestMayOpen
  <2>5. OpenWrite(n, asker)
    BY <2>2, <2>3, <2>4 DEF OpenWrite
  <2> QED
    BY <2>5 DEF RowStep
<1>2. CASE ~RequestMayOpen(n, from, asker)
  BY <1>2 DEF OpenWorkflowRequest, RowStep, rows
<1> QED
  BY <1>1, <1>2

\* ResolveWorkflowRequest resolves a pending request.
LEMMA ResolveIsWrite ==
  ASSUME RowInv, NEW n \in Nodes, NEW i \in DOMAIN request[n],
         NEW to \in {"answered", "declined", "expired"},
         ResolveWorkflowRequest(n, i, to), run' = run, node' = node, taskRun' = taskRun
  PROVE  RowStep
<1>1. request \in [Nodes -> Seq(RequestRow)] /\ request[n] \in Seq(RequestRow)
  BY DEF RowInv, Rows
<1>2. request[n][i] \in RequestRow
  BY <1>1
<1>3. request' = [request EXCEPT
        ![n] = [request[n] EXCEPT ![i] = [request[n][i] EXCEPT !.status = to]]]
  BY <1>1, <1>2 DEF ResolveWorkflowRequest, RequestRow
<1>4. ResolveWrite(n, i, to)
  BY <1>3 DEF ResolveWrite, ResolveWorkflowRequest
<1> QED
  BY <1>4 DEF RowStep

\* An admission hands out a run of the node's Task and links the node to it.
LEMMA AdmitIsWrite ==
  ASSUME RowInv, NEW n \in Nodes \ Human, NEW from \in {"pending", "retry_wait", "waiting"},
         NEW a \in Nat, NEW b \in Nat, NEW key \in {"attempt", "request"} \X Nat, NEW got,
         Admit(n, from, a, b, key, got), run' = run, request' = request,
         node[n].status = from => NeedsDone(n)
  PROVE  RowStep /\ got \in 1..Len(taskRun'[n])
<1>1. /\ taskRun[n] \in Seq(TaskRunRow) /\ Len(taskRun[n]) \in Nat
      /\ DOMAIN taskRun[n] = 1..Len(taskRun[n])
      /\ node[n].cur \in 0..Len(taskRun[n])
      /\ taskRun \in [Nodes -> Seq(TaskRunRow)]
  BY DEF RowInv, Rows
<1> DEFINE used == {k \in DOMAIN taskRun[n] : taskRun[n][k].key = key}
<1>2. CASE AlreadyLinked(n, key) /\ taskRun' = taskRun /\ node' = node
           /\ got = (IF key = AttemptKey(1) THEN Len(taskRun[n]) ELSE node[n].cur)
  <2>1. RowStep
    BY <1>2 DEF RowStep, rows
  <2>2. Len(taskRun[n]) > 0 /\ (key # AttemptKey(1) => node[n].cur # 0)
    <3>1. taskRun[n] # <<>> => Len(taskRun[n]) > 0
      BY <1>1
    <3> QED
      BY <1>1, <1>2, <3>1 DEF AlreadyLinked
  <2> QED
    BY <1>1, <1>2, <2>1, <2>2
<1>3. CASE ~AlreadyLinked(n, key)
  <2>1. /\ AdmitGuard(n, from, a)
        /\ used = {} => TaskIdle(n)
        /\ got = IF used = {} THEN Len(taskRun[n]) + 1 ELSE CHOOSE k \in used : TRUE
        /\ taskRun' = IF used = {}
                      THEN [taskRun EXCEPT ![n] = Append(taskRun[n], NewTaskRun(key))]
                      ELSE taskRun
        /\ node' = [node EXCEPT ![n] = [status |-> "running", attempt |-> b, cur |-> got]]
    BY <1>1, <1>3 DEF Admit
  <2>2. run = "running" /\ node[n].status = from
    BY <2>1 DEF AdmitGuard
  <2>3. PICK new : new = [status |-> "running", attempt |-> b, cur |-> got]
    OBVIOUS
  <2>4. got \in Nat => new \in NodeRow /\ new.status = "running" /\ new.cur = got
    BY <2>3 DEF NodeRow, NodeStatus
  <2>5. CASE used = {}
    <3>1. got = Len(taskRun[n]) + 1 /\ got \in Nat
      BY <1>1, <2>1, <2>5
    <3>2. AdmitWrite(n, key, new)
      BY <2>1, <2>2, <2>3, <2>4, <2>5, <3>1 DEF AdmitWrite, TaskIdle, Open
    <3>3. taskRun'[n] = Append(taskRun[n], NewTaskRun(key))
      BY <1>1, <2>1, <2>5
    <3>4. Len(taskRun'[n]) = Len(taskRun[n]) + 1
      BY <1>1, <3>3
    <3> QED
      BY <1>1, <2>4, <3>1, <3>2, <3>4 DEF RowStep
  <2>6. CASE used # {}
    <3>1. got \in DOMAIN taskRun[n] /\ taskRun' = taskRun
      BY <2>1, <2>6
    <3>2. got \in 1..Len(taskRun[n]) /\ got \in Nat
      BY <1>1, <3>1
    <3>3. NodeWrite(n, new)
      <4>1. new \in NodeRow /\ new.status = "running" /\ new.cur # 0
        BY <2>4, <3>2
      <4>2. new.cur \in 0..Len(taskRun[n])
        BY <1>1, <2>4, <3>2
      <4>3. node' = [node EXCEPT ![n] = new] /\ node[n].status \in Open
        BY <2>1, <2>2, <2>3 DEF Open
      <4> QED
        BY <3>1, <4>1, <4>2, <4>3 DEF NodeWrite
    <3> QED
      BY <2>4, <3>1, <3>2, <3>3 DEF RowStep
  <2> QED
    BY <2>5, <2>6
<1> QED
  BY <1>2, <1>3 DEF Admit

-----------------------------------------------------------------------------
(* Each step of a pass *)

\* The node a pass is at.
LEMMA NextNode ==
  ASSUME FlowInv, NEW p \in Reconcilers, pass[p].todo # {}
  PROVE  Next1(p) \in pass[p].todo /\ Next1(p) \in Nodes
<1>1. pass[p].todo \subseteq Nodes
  BY DEF FlowInv, Others, PassRow
<1> QED
  BY <1>1, FirstIn DEF Next1

\* The rows of one node, as the steps below use them.
LEMMA NodeFacts ==
  ASSUME RowInv, NEW n \in Nodes
  PROVE  /\ node[n] \in NodeRow /\ node[n].cur \in 0..Len(taskRun[n])
         /\ node[n].status = "running" => node[n].cur # 0
         /\ taskRun[n] \in Seq(TaskRunRow) /\ Len(taskRun[n]) \in Nat
         /\ DOMAIN taskRun[n] = 1..Len(taskRun[n])
         /\ request[n] \in Seq(RequestRow) /\ Len(request[n]) \in Nat
         /\ DOMAIN request[n] = 1..Len(request[n])
         /\ node[n].status \in {"running", "retry_wait"} => Len(taskRun[n]) > 0
         /\ node[n].status = "waiting" => Len(request[n]) > 0
         /\ Len(taskRun[n]) > 0 => NeedsDone(n) /\ n \notin Human
         /\ Len(request[n]) > 0 => NeedsDone(n)
<1>1. /\ node[n] \in NodeRow /\ node[n].cur \in 0..Len(taskRun[n])
      /\ node[n].status = "running" => node[n].cur # 0
      /\ taskRun[n] \in Seq(TaskRunRow) /\ Len(taskRun[n]) \in Nat
      /\ DOMAIN taskRun[n] = 1..Len(taskRun[n])
      /\ request[n] \in Seq(RequestRow) /\ Len(request[n]) \in Nat
      /\ DOMAIN request[n] = 1..Len(request[n])
  BY DEF RowInv, Rows
<1>2. /\ (taskRun[n] # <<>>) <=> (Len(taskRun[n]) > 0)
      /\ (request[n] # <<>>) <=> (Len(request[n]) > 0)
  BY <1>1
<1>3. node[n].status = "running" => Len(taskRun[n]) > 0
  BY <1>1
<1> QED
  BY <1>1, <1>2, <1>3 DEF RowInv, NodeInv

\* A snapshot of the rows as they are, whichever of them it keeps.
LEMMA SnapshotOK ==
  ASSUME RowInv, NEW S, NEW c \in PassRow, c.steps = Keep(node, S) \/ c.steps = node
  PROVE  StepsOK(c)
<1> SUFFICES ASSUME NEW n \in Nodes
             PROVE  /\ c.steps[n].cur <= Len(taskRun[n])
                    /\ c.steps[n].status = "running" => c.steps[n].cur # 0
                    /\ c.steps[n].status \in {"running", "retry_wait"} => Len(taskRun[n]) > 0
                    /\ c.steps[n].status = "waiting" => Len(request[n]) > 0
  BY DEF StepsOK
<1>1. c.steps[n] = node[n] \/ c.steps[n] = NoNode
  BY DEF Keep
<1>2. CASE c.steps[n] = node[n]
  BY <1>2, NodeFacts DEF NodeRow
<1>3. CASE c.steps[n] = NoNode
  BY <1>3, NodeFacts DEF NoNode
<1> QED
  BY <1>1, <1>2, <1>3

\* A pass that returns or starts over, after whatever write.
LEMMA FreshEffect ==
  ASSUME FlowInv, NEW p \in Reconcilers, RowStep, Return(p) \/ Restart(p)
  PROVE  Effect(p)
<1>1. pass[p].now \in SUBSET Timers /\ {} \in SUBSET Timers
  BY DEF FlowInv, Others, PassRow
<1>2. CASE Return(p)
  <2>1. PICK d : d = [NoPass EXCEPT !.pc = "release", !.now = {}]
    OBVIOUS
  <2>2. d \in PassRow /\ PassOK(d)
    BY <1>1, <2>1, FreshOK DEF FlowInv
  <2>3. d = [NoPass EXCEPT !.pc = "release"]
    <3>1. PICK c : c = NoPass
      OBVIOUS
    <3>2. c \in PassRow /\ c.now = {}
      <4>1. NoNode \in NodeRow
        BY DEF NoNode, NodeRow, NodeStatus
      <4>2. [n \in Nodes |-> NoNode] \in [Nodes -> NodeRow] /\ [n \in Nodes |-> 0] \in [Nodes -> Nat]
        BY <4>1
      <4> QED
        BY <3>1, <4>2 DEF NoPass, PassRow
    <3> QED
      BY <2>1, <3>1, <3>2 DEF PassRow
  <2> QED
    BY <1>2, <2>2, <2>3, EffectBefore DEF Return, FlowInv
<1>3. CASE Restart(p)
  <2>1. PICK d : d = [NoPass EXCEPT !.pc = "readRun", !.now = pass[p].now]
    OBVIOUS
  <2>2. d \in PassRow /\ PassOK(d)
    BY <1>1, <2>1, FreshOK DEF FlowInv
  <2> QED
    BY <1>3, <2>1, <2>2, EffectBefore DEF Restart, FlowInv
<1> QED
  BY <1>2, <1>3

\* The first reads.
LEMMA ReadRunEffect ==
  ASSUME FlowInv, NEW p \in Reconcilers, ReadRun(p)
  PROVE  Effect(p)
<1>1. RowStep
  BY DEF ReadRun, RowStep
<1>2. CASE run \in RunEnded
  BY <1>1, <1>2, FreshEffect DEF ReadRun
<1>3. CASE run \notin RunEnded
  <2>1. PICK c \in PassRow : c = pass[p]
    BY DEF FlowInv, Others
  <2>2. PassOK(c)
    BY <2>1 DEF FlowInv
  <2>3. PICK d : d = [c EXCEPT !.run = run, !.pc = "readSteps"]
    OBVIOUS
  <2>4. run \in {"none", "running"} \cup Stopping
    BY <1>3 DEF FlowInv, RowInv, Rows
  <2>5. d \in PassRow /\ d.steps = c.steps /\ d.run = run /\ d.pc = "readSteps"
    BY <2>1, <2>3, <2>4 DEF PassRow
  <2>6. pass' = [pass EXCEPT ![p] = d]
    BY <1>3, <2>1, <2>3 DEF ReadRun, FlowInv, Others, PassRow
  <2>7. PassOK(d)
    BY <2>2, <2>5 DEF PassOK, StepsOK, Answering, Dispatching, Stopped
  <2> QED
    BY <1>1, <2>5, <2>6, <2>7, EffectBefore DEF FlowInv
<1> QED
  BY <1>2, <1>3

\* ListWorkflowNodeRuns, and the branch the pass takes from it.
LEMMA ReadStepsEffect ==
  ASSUME FlowInv, NEW p \in Reconcilers, ReadSteps(p)
  PROVE  Effect(p)
<1>1. RowStep
  BY DEF ReadSteps, RowStep
<1>2. PICK c \in PassRow : c = pass[p]
  BY DEF FlowInv, Others
<1>3. PassOK(c)
  BY <1>2 DEF FlowInv
<1>4. PICK S, T, pc :
        /\ S = IF c.run \in Stopping THEN Nodes \ With(node, NodeEnded)
                                     ELSE With(node, {"running", "waiting"})
        /\ T = IF c.run \in Stopping THEN Nodes \ With(node, NodeEnded \cup {"none"})
                                     ELSE With(node, {"running"})
        /\ pc = CASE c.run \in Stopping -> "drain"
                  [] RunTimer \in c.now -> "deadline"
                  [] OTHER -> "fold"
  OBVIOUS
<1>5. PICK steps : steps = Keep(node, S)
  OBVIOUS
<1>6. PICK d : d = [c EXCEPT !.steps = steps, !.count = 0, !.todo = T, !.pc = pc]
  OBVIOUS
<1>7. pass' = [pass EXCEPT ![p] = d]
  <2>1. steps = IF c.run \in Stopping
                THEN Keep(node, Nodes \ With(node, NodeEnded))
                ELSE Keep(node, With(node, {"running", "waiting"}))
    BY <1>4, <1>5
  <2>2. pass' = [pass EXCEPT ![p].steps = steps, ![p].count = 0, ![p].todo = T, ![p].pc = pc]
    BY <1>2, <1>4, <2>1, Zenon DEF ReadSteps
  <2> QED
    BY <1>2, <1>6, <2>2 DEF FlowInv, Others, PassRow
<1>8. steps \in [Nodes -> NodeRow]
  <2>1. NoNode \in NodeRow
    BY DEF NoNode, NodeRow, NodeStatus
  <2> QED
    BY <1>5, <2>1, NodeFacts DEF Keep, FlowInv
<1>9. T \subseteq Nodes /\ pc \in {"drain", "deadline", "fold"}
  BY <1>4 DEF With
<1>10. /\ d \in PassRow /\ d.steps = Keep(node, S) /\ d.run = c.run
       /\ d.pc = pc /\ d.todo = T
  BY <1>5, <1>6, <1>8, <1>9 DEF PassRow
<1>11. StepsOK(d)
  BY <1>10, SnapshotOK DEF FlowInv
<1>12. pc = "fold" => \A n \in T : d.steps[n].status = "running"
  BY <1>4, <1>10 DEF Keep, With
<1>13. pc = "drain" => c.run \in Stopping
  BY <1>4
<1>14. PassOK(d)
  BY <1>3, <1>9, <1>10, <1>11, <1>12, <1>13 DEF PassOK, Answering, Dispatching
<1> QED
  BY <1>1, <1>7, <1>10, <1>14, EffectBefore DEF FlowInv

\* The run's deadline stops it.
LEMMA StopAtDeadlineEffect ==
  ASSUME FlowInv, NEW p \in Reconcilers, StopAtDeadline(p)
  PROVE  Effect(p)
<1>1. RowStep
  BY StopIsWrite DEF StopAtDeadline, FlowInv, Stopping
<1> QED
  BY <1>1, FreshEffect DEF StopAtDeadline

\* A pass at a node of its loop, and what it read of that node.
LEMMA AtNode ==
  ASSUME FlowInv, NEW p \in Reconcilers, pass[p].todo # {}
  PROVE  \E c \in PassRow, n \in Nodes :
           /\ c = pass[p] /\ PassOK(c) /\ n = Next1(p) /\ n = First(c.todo) /\ n \in c.todo
           /\ c.steps \in [Nodes -> NodeRow] /\ c.steps[n] \in NodeRow
           /\ c.steps[n].cur \in Nat /\ c.steps[n].attempt \in Nat
           /\ c.steps[n].cur \in 0..Len(taskRun[n])
           /\ c.steps[n].status = "running" => c.steps[n].cur \in DOMAIN taskRun[n]
           /\ c.todo \ {n} \subseteq Nodes
<1>1. PICK c \in PassRow : c = pass[p]
  BY DEF FlowInv, Others
<1>2. PassOK(c)
  BY <1>1 DEF FlowInv
<1>3. PICK n \in Nodes : n = Next1(p) /\ n \in c.todo
  BY <1>1, NextNode
<1>4. n = First(c.todo)
  BY <1>1, <1>3 DEF Next1
<1>5. /\ c.steps \in [Nodes -> NodeRow] /\ c.steps[n] \in NodeRow /\ c.todo \subseteq Nodes
      /\ c.steps[n].cur \in Nat /\ c.steps[n].attempt \in Nat
  BY DEF PassRow, NodeRow
<1>6. Len(taskRun[n]) \in Nat /\ DOMAIN taskRun[n] = 1..Len(taskRun[n])
  BY NodeFacts DEF FlowInv
<1>7. /\ c.steps[n].cur <= Len(taskRun[n])
      /\ c.steps[n].status = "running" => c.steps[n].cur # 0
  BY <1>2 DEF PassOK, StepsOK
<1>8. c.steps[n].cur \in 0..Len(taskRun[n])
  BY <1>5, <1>6, <1>7
<1>9. c.steps[n].status = "running" => c.steps[n].cur \in DOMAIN taskRun[n]
  BY <1>5, <1>6, <1>7
<1> QED
  BY <1>1, <1>2, <1>3, <1>4, <1>5, <1>8, <1>9

\* A pass that is not there is right.
LEMMA IdleOK ==
  ASSUME RowInv
  PROVE  NoPass \in PassRow /\ PassOK(NoPass)
<1>1. PICK d : d = [NoPass EXCEPT !.pc = "idle", !.now = {}]
  OBVIOUS
<1>2. d \in PassRow /\ PassOK(d)
  BY <1>1, FreshOK
<1>3. PICK c : c = NoPass
  OBVIOUS
<1>4. c \in PassRow /\ c.now = {} /\ c.pc = "idle"
  <2>1. NoNode \in NodeRow
    BY DEF NoNode, NodeRow, NodeStatus
  <2>2. [n \in Nodes |-> NoNode] \in [Nodes -> NodeRow] /\ [n \in Nodes |-> 0] \in [Nodes -> Nat]
    BY <2>1
  <2> QED
    BY <1>3, <2>2 DEF NoPass, PassRow
<1>5. d = c
  BY <1>1, <1>3, <1>4 DEF PassRow
<1> QED
  BY <1>2, <1>3, <1>5

\* Releasing the lease, or dying, ends the pass.
LEMMA IdleEffect ==
  ASSUME FlowInv, NEW p \in Reconcilers, UNCHANGED rows, pass' = [pass EXCEPT ![p] = NoPass]
  PROVE  Effect(p)
<1>1. RowStep
  BY DEF RowStep
<1>2. PICK d \in PassRow : d = NoPass /\ PassOK(d)
  BY IdleOK DEF FlowInv
<1> QED
  BY <1>1, <1>2, EffectBefore DEF FlowInv

\* An attempt past its deadline is asked to stop.
LEMMA CancelTimedOutAttemptEffect ==
  ASSUME FlowInv, NEW p \in Reconcilers, CancelTimedOutAttempt(p)
  PROVE  Effect(p)
<1>1. PICK c \in PassRow, n \in Nodes :
        /\ c = pass[p] /\ PassOK(c) /\ n = Next1(p) /\ n \in c.todo
        /\ c.steps[n].status = "running" => c.steps[n].cur \in DOMAIN taskRun[n]
  BY AtNode DEF CancelTimedOutAttempt
<1>2. c.pc = "fold"
  BY <1>1 DEF CancelTimedOutAttempt, At
<1>3. PICK k : k = c.steps[n].cur
  OBVIOUS
<1>4. k \in DOMAIN taskRun[n]
  BY <1>1, <1>2, <1>3 DEF PassOK
<1>5. RequestRunCancel(n, k, "timeout") /\ Goto(p, "foldAsked") /\ UNCHANGED <<run, node, request>>
  BY <1>1, <1>3 DEF CancelTimedOutAttempt, Snapshot
<1>6. RowStep
  BY <1>4, <1>5, CancelIsWrite DEF FlowInv
<1>7. PICK d : d = [c EXCEPT !.pc = "foldAsked"]
  OBVIOUS
<1>8. /\ d \in PassRow /\ d.pc = "foldAsked" /\ d.run = c.run /\ d.steps = c.steps
      /\ d.todo = c.todo
  BY <1>7 DEF PassRow
<1>9. pass' = [pass EXCEPT ![p] = d]
  BY <1>1, <1>5, <1>7 DEF Goto, FlowInv, Others, PassRow
<1>10. PassOK(d)
  BY <1>1, <1>2, <1>8 DEF PassOK, StepsOK, Answering, Dispatching
<1> QED
  BY <1>6, <1>8, <1>9, <1>10, EffectBefore DEF FlowInv

\* The fold applies how an attempt ended, if the node is still running.
LEMMA FoldNodeEffect ==
  ASSUME FlowInv, NEW p \in Reconcilers, FoldNode(p)
  PROVE  Effect(p)
<1>1. PICK c \in PassRow, n \in Nodes :
        /\ c = pass[p] /\ PassOK(c) /\ n = Next1(p) /\ n \in c.todo
        /\ c.steps[n].status = "running" => c.steps[n].cur \in DOMAIN taskRun[n]
        /\ c.steps[n].cur \in Nat /\ c.steps \in [Nodes -> NodeRow]
  BY AtNode DEF FoldNode
<1>2. c.pc \in {"fold", "foldAsked"}
  BY <1>1 DEF FoldNode, At
<1>3. PICK k, st : k = c.steps[n].cur /\ st = taskRun[n][k].status
  OBVIOUS
<1>4. k \in DOMAIN taskRun[n] /\ k \in 1..Len(taskRun[n]) /\ k # 0 /\ k \in Nat
  <2>1. k \in DOMAIN taskRun[n]
    BY <1>1, <1>2, <1>3 DEF PassOK
  <2> QED
    BY <2>1, NodeFacts DEF FlowInv
<1>5. /\ \/ UNCHANGED <<run, node, request>>
         \/ OpenWorkflowRequest(n, "running", k) /\ UNCHANGED run
         \/ /\ st = "SUCCEEDED"
            /\ TransitionWorkflowNodeRun(n, "running",
                 [node[n] EXCEPT !.status = "succeeded", !.cur = k])
            /\ UNCHANGED <<run, request>>
         \/ /\ TransitionWorkflowNodeRun(n, "running",
                 [node[n] EXCEPT !.status = "retry_wait", !.cur = node[n].cur])
            /\ UNCHANGED <<run, request>>
      /\ pass' = [pass EXCEPT ![p].todo = @ \ {n}, ![p].pc = "fold",
                              ![p].steps[n] = NoNode]
      /\ taskRun' = taskRun
  BY <1>1, <1>3, NodeFacts DEF FoldNode, Snapshot, FlowInv, NodeRow
<1>6. RowStep
  <2>1. CASE UNCHANGED <<run, node, request>>
    BY <1>5, <2>1 DEF RowStep, rows
  <2>2. CASE OpenWorkflowRequest(n, "running", k) /\ UNCHANGED run
    <3>1. NeedsDone(n) /\ n \notin Human
      BY <1>4, NodeFacts DEF FlowInv
    <3> QED
      BY <1>4, <1>5, <2>2, <3>1, OpenIsWrite DEF FlowInv
  <2>3. CASE /\ st = "SUCCEEDED"
             /\ TransitionWorkflowNodeRun(n, "running",
                 [node[n] EXCEPT !.status = "succeeded", !.cur = k])
             /\ UNCHANGED <<run, request>>
    <3>1. PICK new : new = [node[n] EXCEPT !.status = "succeeded", !.cur = k]
      OBVIOUS
    <3>2. new \in NodeRow /\ new.status = "succeeded" /\ new.cur = k
      BY <1>4, <3>1, NodeFacts DEF FlowInv, NodeRow, NodeStatus, NodeEnded
    <3>3. new.cur \in 0..Len(taskRun[n])
      BY <1>4, <3>2
    <3> QED
      BY <1>3, <1>4, <1>5, <2>3, <3>1, <3>2, <3>3, CasIsWrite DEF FlowInv, Open
  <2>4. CASE /\ TransitionWorkflowNodeRun(n, "running",
                 [node[n] EXCEPT !.status = "retry_wait", !.cur = node[n].cur])
             /\ UNCHANGED <<run, request>>
    <3>1. PICK new : new = [node[n] EXCEPT !.status = "retry_wait", !.cur = node[n].cur]
      OBVIOUS
    <3>2. new \in NodeRow /\ new.status = "retry_wait" /\ new.cur = node[n].cur
      BY <3>1, NodeFacts DEF FlowInv, NodeRow, NodeStatus, NodeEnded
    <3>3. new.cur \in 0..Len(taskRun[n])
      BY <3>2, NodeFacts DEF FlowInv
    <3> QED
      BY <1>5, <2>4, <3>1, <3>2, <3>3, CasIsWrite DEF FlowInv, Open
  <2> QED
    BY <1>5, <2>1, <2>2, <2>3, <2>4
<1>7. PICK d : d = [c EXCEPT !.todo = c.todo \ {n}, !.pc = "fold",
                             !.steps = [c.steps EXCEPT ![n] = NoNode]]
  OBVIOUS
<1>8. NoNode \in NodeRow /\ NoNode.status = "none" /\ NoNode.cur = 0
  BY DEF NoNode, NodeRow, NodeStatus
<1>9. /\ d \in PassRow /\ d.pc = "fold" /\ d.run = c.run
      /\ d.steps = [c.steps EXCEPT ![n] = NoNode] /\ d.todo = c.todo \ {n}
  <2>1. [c.steps EXCEPT ![n] = NoNode] \in [Nodes -> NodeRow]
    BY <1>1, <1>8
  <2> QED
    BY <1>7, <2>1 DEF PassRow
<1>10. pass' = [pass EXCEPT ![p] = d]
  BY <1>1, <1>5, <1>7 DEF FlowInv, Others, PassRow
<1>11. \A m \in Nodes : d.steps[m] = c.steps[m] \/ d.steps[m] = NoNode
  BY <1>1, <1>9
<1>12. \A m \in d.todo : m \in c.todo /\ d.steps[m] = c.steps[m]
  BY <1>1, <1>9 DEF PassRow
<1>13. \A m \in Nodes : Len(taskRun[m]) \in Nat
  BY NodeFacts DEF FlowInv
<1>14. StepsOK(d)
  BY <1>1, <1>8, <1>11, <1>13 DEF PassOK, StepsOK
<1>15. PassOK(d)
  BY <1>1, <1>2, <1>9, <1>12, <1>14 DEF PassOK, Answering, Dispatching
<1> QED
  BY <1>6, <1>9, <1>10, <1>15, EffectBefore DEF FlowInv

\* An attempt that cannot be retried stops the run with its node.
LEMMA FinalizeFailedFromNodeEffect ==
  ASSUME FlowInv, NEW p \in Reconcilers, FinalizeFailedFromNode(p)
  PROVE  Effect(p)
<1>1. PICK c \in PassRow, n \in Nodes :
        /\ c = pass[p] /\ n = Next1(p)
        /\ c.steps[n].cur \in Nat /\ c.steps[n].cur \in 0..Len(taskRun[n])
  BY AtNode DEF FinalizeFailedFromNode
<1>2. PICK k, st, to : /\ k = c.steps[n].cur
                       /\ st = IF taskRun[n][k].status = "CANCELED" THEN "canceled" ELSE "failed"
                       /\ to = IF taskRun[n][k].status = "CANCELED" THEN "canceling" ELSE "failing"
  OBVIOUS
<1>3. PICK new : new = [node[n] EXCEPT !.status = st, !.cur = k]
  OBVIOUS
<1>4. /\ BeginWorkflowRunDrain(n, "running", new, to)
      /\ Restart(p) /\ taskRun' = taskRun
  BY <1>1, <1>2, <1>3, Zenon DEF FinalizeFailedFromNode, Snapshot
<1>5. /\ new \in NodeRow /\ new.status \in {"failed", "canceled"}
      /\ new.cur \in 0..Len(taskRun[n]) /\ to \in Stopping
  BY <1>1, <1>2, <1>3, NodeFacts DEF FlowInv, NodeRow, NodeStatus, NodeEnded, Stopping
<1>6. RowStep
  BY <1>4, <1>5, DrainIsWrite DEF FlowInv, Open
<1> QED
  BY <1>4, <1>6, FreshEffect

\* foldWaitingNodes takes the latest request of each node it will act on.
LEMMA ListRequestsEffect ==
  ASSUME FlowInv, NEW p \in Reconcilers, ListRequests(p)
  PROVE  Effect(p)
<1>1. RowStep
  BY DEF ListRequests, RowStep
<1>2. PICK c \in PassRow : c = pass[p]
  BY DEF FlowInv, Others
<1>3. PassOK(c)
  BY <1>2 DEF FlowInv
<1>4. PICK acts : acts = {n \in With(c.steps, {"waiting"}) :
                            \/ request[n][Len(request[n])].status # "pending"
                            \/ RequestTimer(n) \in c.now}
  OBVIOUS
<1>5. PICK steps, req : /\ steps = Keep(c.steps, acts)
                        /\ req = [n \in Nodes |-> IF n \in acts THEN Len(request[n]) ELSE 0]
  OBVIOUS
<1>6. PICK d : d = [c EXCEPT !.pc = "answers", !.todo = acts, !.steps = steps, !.req = req]
  OBVIOUS
<1>7. pass' = [pass EXCEPT ![p] = d]
  <2>1. pass' = [pass EXCEPT ![p].pc = "answers", ![p].todo = acts,
                             ![p].steps = steps, ![p].req = req]
    BY <1>2, <1>4, <1>5, Zenon DEF ListRequests
  <2> QED
    BY <1>2, <1>6, <2>1 DEF FlowInv, Others, PassRow
<1>8. NoNode \in NodeRow /\ NoNode.status = "none" /\ NoNode.cur = 0
  BY DEF NoNode, NodeRow, NodeStatus
<1>9. c.steps \in [Nodes -> NodeRow]
  BY DEF PassRow
<1>10. steps \in [Nodes -> NodeRow] /\ \A n \in Nodes : steps[n] \in {c.steps[n], NoNode}
  BY <1>5, <1>8, <1>9 DEF Keep
<1>11. \A n \in Nodes : Len(taskRun[n]) \in Nat /\ Len(request[n]) \in Nat
  BY NodeFacts DEF FlowInv
<1>12. req \in [Nodes -> Nat] /\ acts \subseteq Nodes /\ \A n \in acts : req[n] = Len(request[n])
  BY <1>4, <1>5, <1>11 DEF With
<1>13. /\ d \in PassRow /\ d.pc = "answers" /\ d.run = c.run /\ d.steps = steps
       /\ d.todo = acts /\ d.req = req
  BY <1>6, <1>10, <1>12 DEF PassRow
<1>14. StepsOK(d)
  BY <1>3, <1>8, <1>10, <1>11, <1>13 DEF PassOK, StepsOK
<1>15. \A n \in acts : req[n] \in 1..Len(request[n])
  <2> SUFFICES ASSUME NEW n \in acts PROVE req[n] \in 1..Len(request[n])
    OBVIOUS
  <2>1. n \in Nodes /\ c.steps[n].status = "waiting"
    BY <1>4 DEF With
  <2>2. Len(request[n]) > 0
    BY <1>3, <2>1 DEF PassOK, StepsOK
  <2> QED
    BY <1>11, <1>12, <2>1, <2>2
<1>16. PassOK(d)
  BY <1>3, <1>13, <1>14, <1>15 DEF PassOK, Answering, Dispatching
<1> QED
  BY <1>1, <1>7, <1>13, <1>16, EffectBefore DEF FlowInv

\* What a pass in the answers knows of the request it is at.
LEMMA AtRequest ==
  ASSUME FlowInv, NEW c \in PassRow, PassOK(c), c.pc \in Answering, NEW n \in Nodes, n \in c.todo
  PROVE  /\ c.req[n] \in DOMAIN request[n] /\ c.req[n] \in Nat
         /\ request[n][c.req[n]] \in RequestRow
         /\ NeedsDone(n)
         /\ (request[n][c.req[n]].asker = 0) <=> (n \in Human)
<1>1. c.req[n] \in 1..Len(request[n])
  BY DEF PassOK
<1>2. /\ request[n] \in Seq(RequestRow) /\ Len(request[n]) \in Nat
      /\ DOMAIN request[n] = 1..Len(request[n])
  BY NodeFacts DEF FlowInv
<1>3. NeedsDone(n)
  BY <1>1, <1>2, NodeFacts DEF FlowInv
<1>4. (request[n][c.req[n]].asker = 0) <=> (n \in Human)
  BY <1>1, <1>2 DEF FlowInv, RowInv, NodeInv
<1> QED
  BY <1>1, <1>2, <1>3, <1>4

\* A pass that has dealt with a node goes on to the next.
LEMMA DoneEffect ==
  ASSUME FlowInv, NEW p \in Reconcilers, RowStep, NEW n,
         pass[p].pc \in {"answers", "dispatch"}, Done(p, n)
  PROVE  Effect(p)
<1>1. PICK c \in PassRow : c = pass[p]
  BY DEF FlowInv, Others
<1>2. PassOK(c)
  BY <1>1 DEF FlowInv
<1>3. PICK d : d = [c EXCEPT !.todo = c.todo \ {n}]
  OBVIOUS
<1>4. /\ d \in PassRow /\ d.pc = c.pc /\ d.run = c.run /\ d.steps = c.steps
      /\ d.todo \subseteq c.todo /\ d.req = c.req /\ d.count = c.count
  BY <1>3 DEF PassRow
<1>5. pass' = [pass EXCEPT ![p] = d]
  BY <1>1, <1>3 DEF Done, FlowInv, Others, PassRow
<1>6. DispatchOK(c) => DispatchOK(d)
  BY <1>4 DEF DispatchOK
<1>7. PassOK(d)
  BY <1>1, <1>2, <1>4, <1>6 DEF PassOK, StepsOK, Answering, Dispatching
<1> QED
  BY <1>4, <1>5, <1>7, EffectBefore DEF FlowInv

\* Expiring a request leaves the pass where it is.
LEMMA ExpireRequestEffect ==
  ASSUME FlowInv, NEW p \in Reconcilers, ExpireRequest(p)
  PROVE  Effect(p)
<1>1. PICK c \in PassRow, n \in Nodes :
        c = pass[p] /\ PassOK(c) /\ n = Next1(p) /\ n \in c.todo
  BY AtNode DEF ExpireRequest
<1>2. c.pc \in Answering
  BY <1>1 DEF ExpireRequest, At, Answering
<1>3. PICK i : i = c.req[n]
  OBVIOUS
<1>4. i \in DOMAIN request[n]
  BY <1>1, <1>2, <1>3, AtRequest
<1>5. ResolveWorkflowRequest(n, i, "expired") /\ UNCHANGED <<run, node, taskRun, pass>>
  BY <1>1, <1>3 DEF ExpireRequest
<1>6. RowStep
  BY <1>4, <1>5, ResolveIsWrite DEF FlowInv
<1>7. pass' = [pass EXCEPT ![p] = c]
  BY <1>1, <1>5 DEF FlowInv, Others
<1> QED
  BY <1>1, <1>6, <1>7, EffectBefore DEF FlowInv

\* A person's answer is the output of a human_input node.
LEMMA ApplyInputEffect ==
  ASSUME FlowInv, NEW p \in Reconcilers, ApplyInput(p)
  PROVE  Effect(p)
<1>1. PICK c \in PassRow, n \in Nodes :
        c = pass[p] /\ PassOK(c) /\ n = Next1(p) /\ n \in c.todo
  BY AtNode DEF ApplyInput
<1>2. c.pc = "answers" /\ c.pc \in Answering
  BY <1>1 DEF ApplyInput, At, Answering
<1>3. PICK i, new : i = c.req[n] /\ new = [node[n] EXCEPT !.status = "succeeded"]
  OBVIOUS
<1>4. /\ request[n][i].status = "answered" /\ request[n][i].asker = 0
      /\ TransitionWorkflowNodeRun(n, "waiting", new)
      /\ Done(p, n) /\ UNCHANGED <<run, taskRun, request>>
  BY <1>1, <1>3 DEF ApplyInput
<1>5. i \in DOMAIN request[n] /\ n \in Human
  BY <1>1, <1>2, <1>3, <1>4, AtRequest
<1>6. new \in NodeRow /\ new.status = "succeeded" /\ new.cur \in 0..Len(taskRun[n])
  BY <1>3, NodeFacts DEF FlowInv, NodeRow, NodeStatus, NodeEnded
<1>7. RowStep
  BY <1>4, <1>5, <1>6, CasIsWrite DEF FlowInv, Open
<1> QED
  BY <1>1, <1>2, <1>4, <1>7, DoneEffect

\* A request closed by the stop asks for nothing.
LEMMA SkipRequestEffect ==
  ASSUME FlowInv, NEW p \in Reconcilers, SkipRequest(p)
  PROVE  Effect(p)
<1>1. RowStep
  BY DEF SkipRequest, RowStep
<1> QED
  BY <1>1, DoneEffect DEF SkipRequest, At

\* A refusal stops the run with its node.
LEMMA ApplyRefusalEffect ==
  ASSUME FlowInv, NEW p \in Reconcilers, ApplyRefusal(p)
  PROVE  Effect(p)
<1>1. PICK n \in Nodes : n = Next1(p)
  BY NextNode DEF ApplyRefusal
<1>2. PICK new : new = [node[n] EXCEPT !.status = "failed"]
  OBVIOUS
<1>3. /\ BeginWorkflowRunDrain(n, "waiting", new, "failing")
      /\ Restart(p) /\ taskRun' = taskRun
  BY <1>1, <1>2 DEF ApplyRefusal
<1>4. new \in NodeRow /\ new.status = "failed" /\ new.cur \in 0..Len(taskRun[n])
  BY <1>2, NodeFacts DEF FlowInv, NodeRow, NodeStatus, NodeEnded
<1>5. RowStep
  BY <1>3, <1>4, DrainIsWrite DEF FlowInv, Open, Stopping
<1> QED
  BY <1>3, <1>5, FreshEffect

\* Leaving an admission: the pass keeps the run it was handed, which exists after
\* the step, or that it was refused.
LEMMA AdmittedEffect ==
  ASSUME FlowInv, NEW p \in Reconcilers, RowStep, NEW c \in PassRow, c = pass[p], PassOK(c),
         c.todo # {}, NEW pc, NEW got \in Nat,
         \/ c.pc = "answers" /\ pc \in {"linkAnswer", "refusedAnswer"}
         \/ c.pc = "dispatch" /\ pc \in {"linkNode", "refusedNode"},
         pc \in {"linkAnswer", "linkNode"} => got \in 1..Len(taskRun'[First(c.todo)]),
         pass' = [pass EXCEPT ![p] = [c EXCEPT !.pc = pc, !.got = got]]
  PROVE  Effect(p)
<1>1. PICK d : d = [c EXCEPT !.pc = pc, !.got = got]
  OBVIOUS
<1>2. /\ d \in PassRow /\ d.pc = pc /\ d.run = c.run /\ d.steps = c.steps
      /\ d.todo = c.todo /\ d.req = c.req /\ d.count = c.count /\ d.got = got
  BY <1>1 DEF PassRow
<1>3. RowInv' /\ Grows
  BY RowStepSound DEF Sound, FlowInv
<1>4. PassOK(c)'
  BY <1>3, PassGrows DEF FlowInv
<1>5. DispatchOK(c)' => DispatchOK(d)'
  BY <1>2 DEF DispatchOK
<1>6. StepsOK(d)'
  BY <1>2, <1>4 DEF PassOK, StepsOK
<1>7. PassOK(d)'
  BY <1>2, <1>4, <1>5, <1>6 DEF PassOK, Answering, Dispatching
<1> QED
  BY <1>1, <1>2, <1>7 DEF Effect

\* Continuing a Task with an answer, or being refused.
LEMMA AdmitAnswerEffect ==
  ASSUME FlowInv, NEW p \in Reconcilers, AdmitAnswer(p)
  PROVE  Effect(p)
<1>1. PICK c \in PassRow, n \in Nodes :
        /\ c = pass[p] /\ PassOK(c) /\ n = Next1(p) /\ n \in c.todo /\ n = First(c.todo)
        /\ c.steps[n].attempt \in Nat
  BY AtNode DEF AdmitAnswer
<1>2. c.pc = "answers" /\ c.pc \in Answering
  BY <1>1 DEF AdmitAnswer, At, Answering
<1>3. PICK i, a : i = c.req[n] /\ a = c.steps[n].attempt
  OBVIOUS
<1>4. /\ request[n][i].asker # 0 /\ run' = run /\ request' = request
      /\ \/ \E got \in 1..(Len(taskRun[n]) + 1) :
              /\ Admit(n, "waiting", a, a, AnswerKey(i), got)
              /\ pass' = [pass EXCEPT ![p].pc = "linkAnswer", ![p].got = got]
         \/ Goto(p, "refusedAnswer") /\ UNCHANGED <<taskRun, node>>
  BY <1>1, <1>3 DEF AdmitAnswer, Snapshot
<1>5. i \in Nat /\ NeedsDone(n) /\ n \notin Human
  BY <1>1, <1>2, <1>3, <1>4, AtRequest
<1>6. ASSUME NEW got \in 1..(Len(taskRun[n]) + 1),
             Admit(n, "waiting", a, a, AnswerKey(i), got),
             pass' = [pass EXCEPT ![p].pc = "linkAnswer", ![p].got = got]
      PROVE  Effect(p)
  <2>1. AnswerKey(i) \in {"attempt", "request"} \X Nat
    BY <1>5 DEF AnswerKey
  <2>2. RowStep /\ got \in 1..Len(taskRun'[n])
    BY <1>1, <1>3, <1>4, <1>5, <1>6, <2>1, AdmitIsWrite DEF FlowInv
  <2>3. got \in Nat
    BY <1>6, NodeFacts DEF FlowInv
  <2>4. pass' = [pass EXCEPT ![p] = [c EXCEPT !.pc = "linkAnswer", !.got = got]]
    BY <1>1, <1>6 DEF FlowInv, Others, PassRow
  <2> QED
    BY <1>1, <1>2, <2>2, <2>3, <2>4, AdmittedEffect
<1>7. ASSUME Goto(p, "refusedAnswer"), UNCHANGED <<taskRun, node>>
      PROVE  Effect(p)
  <2>1. RowStep
    BY <1>4, <1>7 DEF RowStep, rows
  <2>2. c.got \in Nat
    BY DEF PassRow
  <2>3. pass' = [pass EXCEPT ![p] = [c EXCEPT !.pc = "refusedAnswer", !.got = c.got]]
    BY <1>1, <1>7 DEF Goto, FlowInv, Others, PassRow
  <2> QED
    BY <1>1, <1>2, <2>1, <2>2, <2>3, AdmittedEffect
<1> QED
  BY <1>4, <1>6, <1>7

\* Repeating the link of an admission.
LEMMA LinkAnswerEffect ==
  ASSUME FlowInv, NEW p \in Reconcilers, LinkAnswer(p)
  PROVE  Effect(p)
<1>0. pass[p].todo # {}
  BY DEF LinkAnswer, At, FlowInv, PassOK
<1>1. PICK c \in PassRow, n \in Nodes :
        c = pass[p] /\ PassOK(c) /\ n = Next1(p) /\ n \in c.todo /\ n = First(c.todo)
  BY <1>0, AtNode
<1>2. c.pc = "linkAnswer"
  BY <1>1 DEF LinkAnswer, At
<1>3. c.got \in 1..Len(taskRun[n])
  BY <1>1, <1>2 DEF PassOK
<1>4. PICK new : new = [node[n] EXCEPT !.status = "running", !.cur = c.got]
  OBVIOUS
<1>5. /\ TransitionWorkflowNodeRun(n, "waiting", new)
      /\ UNCHANGED <<run, taskRun, request>>
      /\ pass' = [pass EXCEPT ![p].todo = @ \ {n}, ![p].pc = "answers", ![p].got = 0]
  BY <1>1, <1>4 DEF LinkAnswer
<1>6. /\ new \in NodeRow /\ new.status = "running" /\ new.cur # 0
      /\ new.cur \in 0..Len(taskRun[n])
  <2>1. c.got \in Nat /\ c.got # 0 /\ c.got \in 0..Len(taskRun[n])
    BY <1>3, NodeFacts DEF FlowInv
  <2>2. new \in NodeRow /\ new.status = "running" /\ new.cur = c.got
    BY <1>4, <2>1, NodeFacts DEF FlowInv, NodeRow, NodeStatus
  <2> QED
    BY <2>1, <2>2
<1>7. RowStep
  BY <1>5, <1>6, CasIsWrite DEF FlowInv, Open
<1>8. PICK d : d = [c EXCEPT !.todo = c.todo \ {n}, !.pc = "answers", !.got = 0]
  OBVIOUS
<1>9. /\ d \in PassRow /\ d.pc = "answers" /\ d.run = c.run /\ d.steps = c.steps
      /\ d.todo \subseteq c.todo /\ d.req = c.req
  BY <1>8 DEF PassRow
<1>10. pass' = [pass EXCEPT ![p] = d]
  BY <1>1, <1>5, <1>8 DEF FlowInv, Others, PassRow
<1>11. PassOK(d)
  BY <1>1, <1>2, <1>9 DEF PassOK, StepsOK, Answering, Dispatching
<1> QED
  BY <1>7, <1>9, <1>10, <1>11, EffectBefore DEF FlowInv

\* A definition has finitely many nodes.
LEMMA NodesFinite == IsFiniteSet(Nodes)
<1>1. Len(topoSort) \in Nat /\ DOMAIN topoSort = 1..Len(topoSort)
  BY OrderAssumption
<1>2. topoSort \in Surjection(1..Len(topoSort), Nodes)
  BY <1>1, OrderAssumption DEF Surjection
<1>3. IsFiniteSet(1..Len(topoSort))
  BY <1>1, FS_Interval
<1> QED
  BY <1>2, <1>3, FS_Surjection

\* The second read: the snapshot is the rows as they are.
LEMMA RereadStepsEffect ==
  ASSUME FlowInv, NEW p \in Reconcilers, RereadSteps(p)
  PROVE  Effect(p)
<1>1. RowStep
  BY DEF RereadSteps, RowStep
<1>2. PICK c \in PassRow : c = pass[p]
  BY DEF FlowInv, Others
<1>3. PassOK(c)
  BY <1>2 DEF FlowInv
<1>4. PICK T, R, count, req :
        /\ T = With(node, {"pending", "retry_wait"}) /\ R = With(node, {"running"})
        /\ count = Cardinality(R) /\ req = NoPass.req
  OBVIOUS
<1>5. PICK d : d = [c EXCEPT !.pc = "dispatch", !.steps = node, !.req = req,
                             !.todo = T, !.count = count]
  OBVIOUS
<1>6. pass' = [pass EXCEPT ![p] = d]
  <2>1. pass' = [pass EXCEPT ![p].pc = "dispatch", ![p].steps = node, ![p].req = req,
                             ![p].todo = T, ![p].count = count]
    BY <1>4, Zenon DEF RereadSteps
  <2> QED
    BY <1>2, <1>5, <2>1 DEF FlowInv, Others, PassRow
<1>7. count \in Nat /\ (count = 0 => R = {})
  <2>1. R \in SUBSET Nodes
    BY <1>4 DEF With
  <2>2. IsFiniteSet(R)
    BY <2>1, NodesFinite, FS_Subset
  <2> QED
    BY <1>4, <2>2, FS_CardinalityType, FS_EmptySet
<1>8. /\ node \in [Nodes -> NodeRow] /\ T \subseteq Nodes /\ req \in [Nodes -> Nat]
      /\ \A n \in Nodes : node[n].status # "none"
  BY <1>4 DEF FlowInv, RowInv, Rows, NodeInv, With, NoPass
<1>9. /\ d \in PassRow /\ d.pc = "dispatch" /\ d.run = c.run /\ d.steps = node
      /\ d.todo = T /\ d.count = count
  BY <1>5, <1>7, <1>8 DEF PassRow
<1>10. StepsOK(d)
  BY <1>9, SnapshotOK DEF FlowInv
<1>11. DispatchOK(d)
  BY <1>4, <1>7, <1>8, <1>9 DEF DispatchOK, With
<1>12. PassOK(d)
  BY <1>3, <1>9, <1>10, <1>11 DEF PassOK, Answering
<1> QED
  BY <1>1, <1>6, <1>9, <1>12, EffectBefore DEF FlowInv

\* A node that may start has everything it needs: a node that was ready when the
\* pass read it stays so, and one that retries has started before.
LEMMA StartableNeeds ==
  ASSUME FlowInv, NEW p \in Reconcilers, pass[p].pc = "dispatch", NEW n \in Nodes,
         n \in pass[p].todo, Startable(p, n)
  PROVE  NeedsDone(n) /\ pass[p].steps[n].status \in {"pending", "retry_wait"}
<1>1. PICK c \in PassRow : c = pass[p] /\ PassOK(c)
  BY DEF FlowInv, Others
<1>2. StepsOK(c) /\ DispatchOK(c)
  BY <1>1 DEF PassOK, Dispatching
<1>3. c.steps[n].status \in {"pending", "retry_wait"}
  BY <1>1, <1>2 DEF DispatchOK
<1>4. CASE c.steps[n].status = "retry_wait"
  BY <1>1, <1>2, <1>4, NodeFacts DEF StepsOK, FlowInv
<1>5. CASE c.steps[n].status = "pending"
  <2>1. \A m \in Needs[n] : m \in Nodes /\ c.steps[m].status = "succeeded"
    BY <1>1, <1>5, WorkflowAssumption DEF Startable, Snapshot, nodeReady
  <2> QED
    BY <1>1, <1>2, <1>5, <2>1 DEF DispatchOK, NodeEnded, NeedsDone
<1> QED
  BY <1>1, <1>3, <1>4, <1>5

\* dispatchReadyNodes passes over a node that may not start.
LEMMA SkipNodeEffect ==
  ASSUME FlowInv, NEW p \in Reconcilers, SkipNode(p)
  PROVE  Effect(p)
<1>1. RowStep
  BY DEF SkipNode, RowStep
<1> QED
  BY <1>1, DoneEffect DEF SkipNode, At

\* A ready human_input node opens its request, or fails.
LEMMA OpenInputRequestEffect ==
  ASSUME FlowInv, NEW p \in Reconcilers, OpenInputRequest(p)
  PROVE  Effect(p)
<1>1. PICK n \in Nodes : n = Next1(p) /\ n \in pass[p].todo
  BY NextNode DEF OpenInputRequest
<1>2. /\ pass[p].pc = "dispatch" /\ Startable(p, n) /\ n \in Human /\ taskRun' = taskRun
      /\ \/ OpenWorkflowRequest(n, "pending", 0) /\ Done(p, n) /\ UNCHANGED run
         \/ /\ BeginWorkflowRunDrain(n, "pending", [node[n] EXCEPT !.status = "failed"], "failing")
            /\ Return(p)
  BY <1>1 DEF OpenInputRequest, At
<1>3. NeedsDone(n)
  BY <1>1, <1>2, StartableNeeds
<1>4. CASE OpenWorkflowRequest(n, "pending", 0) /\ Done(p, n) /\ UNCHANGED run
  <2>1. RowStep
    BY <1>2, <1>3, <1>4, OpenIsWrite DEF FlowInv
  <2> QED
    BY <1>2, <1>4, <2>1, DoneEffect
<1>5. CASE /\ BeginWorkflowRunDrain(n, "pending", [node[n] EXCEPT !.status = "failed"], "failing")
           /\ Return(p)
  <2>1. PICK new : new = [node[n] EXCEPT !.status = "failed"]
    OBVIOUS
  <2>2. new \in NodeRow /\ new.status = "failed" /\ new.cur \in 0..Len(taskRun[n])
    BY <2>1, NodeFacts DEF FlowInv, NodeRow, NodeStatus, NodeEnded
  <2>3. RowStep
    BY <1>2, <1>5, <2>1, <2>2, DrainIsWrite DEF FlowInv, Open, Stopping
  <2> QED
    BY <1>5, <2>3, FreshEffect
<1> QED
  BY <1>2, <1>4, <1>5

\* Over the limit the loop ends.
LEMMA LimitReachedEffect ==
  ASSUME FlowInv, NEW p \in Reconcilers, LimitReached(p)
  PROVE  Effect(p)
<1>1. RowStep
  BY DEF LimitReached, RowStep
<1>2. PICK c \in PassRow : c = pass[p] /\ PassOK(c)
  BY DEF FlowInv, Others
<1>3. c.pc = "dispatch"
  BY <1>2 DEF LimitReached, At
<1>4. PICK d : d = [c EXCEPT !.todo = {}]
  OBVIOUS
<1>5. /\ d \in PassRow /\ d.pc = "dispatch" /\ d.run = c.run /\ d.steps = c.steps
      /\ d.todo = {} /\ d.count = c.count
  BY <1>3, <1>4 DEF PassRow
<1>6. pass' = [pass EXCEPT ![p] = d]
  BY <1>2, <1>4 DEF LimitReached, FlowInv, Others, PassRow
<1>7. DispatchOK(d)
  BY <1>2, <1>3, <1>5 DEF PassOK, DispatchOK, Dispatching
<1>8. PassOK(d)
  BY <1>2, <1>5, <1>7 DEF PassOK, StepsOK, Answering
<1> QED
  BY <1>1, <1>5, <1>6, <1>8, EffectBefore DEF FlowInv

\* Admitting a node's first or next attempt, or being refused.
LEMMA AdmitNodeEffect ==
  ASSUME FlowInv, NEW p \in Reconcilers, AdmitNode(p)
  PROVE  Effect(p)
<1>1. PICK c \in PassRow, n \in Nodes :
        /\ c = pass[p] /\ PassOK(c) /\ n = Next1(p) /\ n \in c.todo /\ n = First(c.todo)
        /\ c.steps[n].attempt \in Nat
  BY AtNode DEF AdmitNode
<1>2. c.pc = "dispatch" /\ Startable(p, n) /\ n \notin Human
  BY <1>1 DEF AdmitNode, At
<1>3. PICK from, a, b : from = c.steps[n].status /\ a = c.steps[n].attempt /\ b = a + 1
  OBVIOUS
<1>4. /\ run' = run /\ request' = request
      /\ \/ \E got \in 1..(Len(taskRun[n]) + 1) :
              /\ Admit(n, from, a, b, AttemptKey(b), got)
              /\ pass' = [pass EXCEPT ![p].pc = "linkNode", ![p].got = got]
         \/ Goto(p, "refusedNode") /\ UNCHANGED <<taskRun, node>>
  BY <1>1, <1>3 DEF AdmitNode, Snapshot
<1>5. NeedsDone(n) /\ from \in {"pending", "retry_wait"}
  BY <1>1, <1>2, <1>3, StartableNeeds
<1>6. ASSUME NEW got \in 1..(Len(taskRun[n]) + 1),
             Admit(n, from, a, b, AttemptKey(b), got),
             pass' = [pass EXCEPT ![p].pc = "linkNode", ![p].got = got]
      PROVE  Effect(p)
  <2>1. a \in Nat /\ b \in Nat /\ AttemptKey(b) \in {"attempt", "request"} \X Nat
    BY <1>1, <1>3 DEF AttemptKey
  <2>2. RowStep /\ got \in 1..Len(taskRun'[n])
    BY <1>2, <1>4, <1>5, <1>6, <2>1, AdmitIsWrite DEF FlowInv
  <2>3. got \in Nat
    BY <1>6, NodeFacts DEF FlowInv
  <2>4. pass' = [pass EXCEPT ![p] = [c EXCEPT !.pc = "linkNode", !.got = got]]
    BY <1>1, <1>6 DEF FlowInv, Others, PassRow
  <2> QED
    BY <1>1, <1>2, <2>2, <2>3, <2>4, AdmittedEffect
<1>7. ASSUME Goto(p, "refusedNode"), UNCHANGED <<taskRun, node>>
      PROVE  Effect(p)
  <2>1. RowStep
    BY <1>4, <1>7 DEF RowStep, rows
  <2>2. c.got \in Nat
    BY DEF PassRow
  <2>3. pass' = [pass EXCEPT ![p] = [c EXCEPT !.pc = "refusedNode", !.got = c.got]]
    BY <1>1, <1>7 DEF Goto, FlowInv, Others, PassRow
  <2> QED
    BY <1>1, <1>2, <2>1, <2>2, <2>3, AdmittedEffect
<1> QED
  BY <1>4, <1>6, <1>7

\* Repeating the link of an attempt; the count goes up.
LEMMA LinkNodeEffect ==
  ASSUME FlowInv, NEW p \in Reconcilers, LinkNode(p)
  PROVE  Effect(p)
<1>0. pass[p].todo # {}
  BY DEF LinkNode, At, FlowInv, PassOK
<1>1. PICK c \in PassRow, n \in Nodes :
        /\ c = pass[p] /\ PassOK(c) /\ n = Next1(p) /\ n \in c.todo /\ n = First(c.todo)
        /\ c.steps[n].attempt \in Nat
  BY <1>0, AtNode
<1>2. c.pc = "linkNode" /\ c.count \in Nat /\ c.got \in Nat
  BY <1>1 DEF LinkNode, At, PassRow
<1>3. c.got \in 1..Len(taskRun[n]) /\ DispatchOK(c)
  BY <1>1, <1>2 DEF PassOK, Dispatching
<1>4. PICK b : b = c.steps[n].attempt + 1
  OBVIOUS
<1>5. PICK new, from : /\ new = [status |-> "running", attempt |-> b, cur |-> c.got]
                       /\ from = c.steps[n].status
  OBVIOUS
<1>6. /\ TransitionWorkflowNodeRun(n, from, new)
      /\ UNCHANGED <<run, taskRun, request>>
      /\ pass' = [pass EXCEPT ![p].todo = @ \ {n}, ![p].pc = "dispatch",
                              ![p].count = @ + 1, ![p].got = 0]
  BY <1>1, <1>4, <1>5 DEF LinkNode, Snapshot
<1>7. /\ new \in NodeRow /\ new.status = "running" /\ new.cur # 0
      /\ new.cur \in 0..Len(taskRun[n])
  <2>1. c.got # 0 /\ c.got \in 0..Len(taskRun[n])
    BY <1>2, <1>3, NodeFacts DEF FlowInv
  <2>2. b \in Nat
    BY <1>1, <1>4
  <2>3. new \in NodeRow /\ new.status = "running" /\ new.cur = c.got
    BY <1>2, <1>5, <2>2 DEF NodeRow, NodeStatus
  <2> QED
    BY <2>1, <2>3
<1>8. from \in Open
  BY <1>1, <1>3, <1>5 DEF DispatchOK, Open
<1>9. RowStep
  BY <1>6, <1>7, <1>8, CasIsWrite DEF FlowInv
<1>10. PICK count : count = c.count + 1
  OBVIOUS
<1>11. PICK d : d = [c EXCEPT !.todo = c.todo \ {n}, !.pc = "dispatch",
                              !.count = count, !.got = 0]
  OBVIOUS
<1>12. count \in Nat /\ count # 0
  BY <1>2, <1>10
<1>13. /\ d \in PassRow /\ d.pc = "dispatch" /\ d.run = c.run /\ d.steps = c.steps
       /\ d.todo \subseteq c.todo /\ d.count = count
  BY <1>11, <1>12 DEF PassRow
<1>14. pass' = [pass EXCEPT ![p] = d]
  <2>1. pass' = [pass EXCEPT ![p] = [pass[p] EXCEPT !.todo = pass[p].todo \ {n},
                   !.pc = "dispatch", !.count = pass[p].count + 1, !.got = 0]]
    BY <1>6 DEF FlowInv, Others, PassRow
  <2> QED
    BY <1>1, <1>10, <1>11, <2>1, Zenon
<1>15. DispatchOK(d)
  BY <1>3, <1>12, <1>13 DEF DispatchOK
<1>16. PassOK(d)
  BY <1>1, <1>13, <1>15 DEF PassOK, StepsOK, Answering
<1> QED
  BY <1>9, <1>13, <1>14, <1>16, EffectBefore DEF FlowInv

\* A refused admission stops the run with its node.
LEMMA FailAdmissionEffect ==
  ASSUME FlowInv, NEW p \in Reconcilers, FailAdmission(p)
  PROVE  Effect(p)
<1>0. pass[p].todo # {}
  BY DEF FailAdmission, At, FlowInv, PassOK
<1>1. PICK c \in PassRow, n \in Nodes :
        c = pass[p] /\ PassOK(c) /\ n = Next1(p) /\ n \in c.todo
  BY <1>0, AtNode
<1>2. c.pc \in {"refusedAnswer", "refusedNode"}
  BY <1>1 DEF FailAdmission, At
<1>3. PICK new, from : /\ new = [node[n] EXCEPT !.status = "failed"]
                       /\ from = IF c.pc = "refusedAnswer" THEN "waiting" ELSE c.steps[n].status
  OBVIOUS
<1>4. /\ BeginWorkflowRunDrain(n, from, new, "failing")
      /\ Return(p) /\ taskRun' = taskRun
  BY <1>1, <1>3, Zenon DEF FailAdmission, Snapshot, At
<1>5. new \in NodeRow /\ new.status = "failed" /\ new.cur \in 0..Len(taskRun[n])
  BY <1>3, NodeFacts DEF FlowInv, NodeRow, NodeStatus, NodeEnded
<1>6. from \in Open
  BY <1>1, <1>2, <1>3 DEF PassOK, Dispatching, DispatchOK, Open
<1>7. RowStep
  BY <1>4, <1>5, <1>6, DrainIsWrite DEF FlowInv, Stopping
<1> QED
  BY <1>4, <1>7, FreshEffect

\* The run succeeds once nothing is left: what the snapshot shows as ended has
\* ended, and in a run that is still running that means succeeded.
LEMMA FinishDispatchEffect ==
  ASSUME FlowInv, NEW p \in Reconcilers, FinishDispatch(p)
  PROVE  Effect(p)
<1>1. PICK c \in PassRow : c = pass[p] /\ PassOK(c)
  BY DEF FlowInv, Others
<1>2. c.pc = "dispatch" /\ Return(p) /\ UNCHANGED <<node, taskRun, request>>
  BY <1>1 DEF FinishDispatch, At
<1>3. DispatchOK(c)
  BY <1>1, <1>2 DEF PassOK, Dispatching
<1>d. \/ NothingLeft(p) /\ run = "running" /\ run' = "succeeded"
      \/ run' = run
  BY DEF FinishDispatch, TransitionWorkflowRun
<1>4. CASE NothingLeft(p) /\ run = "running" /\ run' = "succeeded"
  <2>1. run' = "succeeded"
    BY <1>4
  <2>2. ASSUME NEW n \in Nodes PROVE node[n].status = "succeeded"
    <3>1. c.steps[n] \in NodeRow
      BY DEF PassRow
    <3>2. c.steps[n].status \notin {"pending", "retry_wait", "waiting"} /\ c.count = 0
      BY <1>1, <1>4 DEF NothingLeft, With
    <3>3. c.steps[n].status \in NodeEnded
      BY <1>3, <3>1, <3>2 DEF DispatchOK, NodeRow, NodeStatus
    <3>4. node[n].status \in NodeEnded
      BY <1>3, <3>3 DEF DispatchOK
    <3> QED
      BY <1>4, <3>4 DEF FlowInv, RowInv, RunInv, NodeEnded, Open
  <2>3. RowStep
    BY <1>2, <1>4, <2>1, <2>2 DEF RowStep, EndWrite
  <2> QED
    BY <1>2, <2>3, FreshEffect
<1>5. CASE run' = run
  <2>2. RowStep
    BY <1>2, <1>5 DEF RowStep, rows
  <2> QED
    BY <1>2, <2>2, FreshEffect
<1> QED
  BY <1>d, <1>4, <1>5

\* The drain asks the attempt it read to stop.
LEMMA DrainCancelEffect ==
  ASSUME FlowInv, NEW p \in Reconcilers, DrainCancel(p)
  PROVE  Effect(p)
<1>1. PICK c \in PassRow, n \in Nodes :
        /\ c = pass[p] /\ PassOK(c) /\ n = Next1(p) /\ n \in c.todo /\ n = First(c.todo)
        /\ c.steps[n].cur \in Nat /\ c.steps[n].cur \in 0..Len(taskRun[n])
  BY AtNode DEF DrainCancel
<1>2. c.pc = "drain" /\ UNCHANGED <<run, node, request>>
  BY <1>1 DEF DrainCancel, At
<1>3. PICK k : k = c.steps[n].cur
  OBVIOUS
<1>4. IF k = 0 THEN Return(p) /\ UNCHANGED taskRun
      ELSE RequestRunCancel(n, k, "stop") /\ Goto(p, "drainRead")
  BY <1>1, <1>3 DEF DrainCancel, Snapshot
<1>5. CASE k = 0
  <2>1. RowStep
    BY <1>2, <1>4, <1>5 DEF RowStep, rows
  <2> QED
    BY <1>4, <1>5, <2>1, FreshEffect
<1>6. CASE k # 0
  <2>1. k \in DOMAIN taskRun[n]
    BY <1>1, <1>3, <1>6, NodeFacts DEF FlowInv
  <2>2. RowStep
    BY <1>2, <1>4, <1>6, <2>1, CancelIsWrite DEF FlowInv
  <2>3. PICK d : d = [c EXCEPT !.pc = "drainRead"]
    OBVIOUS
  <2>4. /\ d \in PassRow /\ d.pc = "drainRead" /\ d.run = c.run /\ d.steps = c.steps
        /\ d.todo = c.todo
    BY <2>3 DEF PassRow
  <2>5. pass' = [pass EXCEPT ![p] = d]
    BY <1>1, <1>4, <1>6, <2>3 DEF Goto, FlowInv, Others, PassRow
  <2>6. PassOK(d)
    BY <1>1, <1>2, <1>3, <1>6, <2>4 DEF PassOK, StepsOK, Answering, Dispatching
  <2> QED
    BY <2>2, <2>4, <2>5, <2>6, EffectBefore DEF FlowInv
<1> QED
  BY <1>5, <1>6

\* The drain records how an attempt of a stopped run ended.
LEMMA DrainNodeEffect ==
  ASSUME FlowInv, NEW p \in Reconcilers, DrainNode(p)
  PROVE  Effect(p)
<1>0. pass[p].todo # {}
  BY DEF DrainNode, At, FlowInv, PassOK
<1>1. PICK c \in PassRow, n \in Nodes :
        c = pass[p] /\ PassOK(c) /\ n = Next1(p) /\ n \in c.todo
  BY <1>0, AtNode
<1>2. c.pc = "drainRead" /\ c.count \in Nat
  BY <1>1 DEF DrainNode, At, PassRow
<1>3. run \in Stopped /\ c.run \in Stopping
  BY <1>1, <1>2 DEF PassOK
<1>4. PICK st : st = taskRun[n][c.steps[n].cur].status
  OBVIOUS
<1>5. PICK to, count :
        /\ to = CASE st \in {"SUCCEEDED", "ASKED", "UNSATISFIED"} -> "succeeded"
                  [] st = "FAILED" -> "failed"
                  [] OTHER -> "canceled"
        /\ count = IF st \in RunActive THEN c.count + 1 ELSE c.count
  OBVIOUS
<1>6. PICK new : new = [node[n] EXCEPT !.status = to]
  OBVIOUS
<1>7. /\ IF st \in RunActive THEN UNCHANGED node
                             ELSE TransitionWorkflowNodeRun(n, "running", new)
      /\ UNCHANGED <<run, taskRun, request>>
  BY <1>1, <1>4, <1>5, <1>6, Zenon DEF DrainNode, Snapshot
<1>8. to \in {"succeeded", "failed", "canceled"} /\ count \in Nat
  BY <1>2, <1>5
<1>9. new \in NodeRow /\ new.status = to /\ new.cur \in 0..Len(taskRun[n])
  BY <1>6, <1>8, NodeFacts DEF FlowInv, NodeRow, NodeStatus, NodeEnded
<1>10. RowStep
  <2>1. CASE st \in RunActive
    BY <1>7, <2>1 DEF RowStep, rows
  <2>2. CASE st \notin RunActive
    BY <1>3, <1>7, <1>8, <1>9, <2>2, CasIsWrite DEF FlowInv, Open
  <2> QED
    BY <2>1, <2>2
<1>11. PICK d : d = [c EXCEPT !.pc = "drain", !.todo = c.todo \ {n}, !.count = count]
  OBVIOUS
<1>12. /\ d \in PassRow /\ d.pc = "drain" /\ d.run = c.run /\ d.steps = c.steps
       /\ d.todo \subseteq c.todo
  BY <1>8, <1>11 DEF PassRow
<1>13. pass' = [pass EXCEPT ![p] = d]
  <2>1. pass' = [pass EXCEPT ![p].pc = "drain", ![p].todo = @ \ {n},
                             ![p].count = IF st \in RunActive THEN @ + 1 ELSE @]
    BY <1>1, <1>4, Zenon DEF DrainNode, Snapshot
  <2>2. pass' = [pass EXCEPT ![p] = [pass[p] EXCEPT !.pc = "drain",
                   !.todo = pass[p].todo \ {n},
                   !.count = IF st \in RunActive THEN pass[p].count + 1 ELSE pass[p].count]]
    BY <2>1 DEF FlowInv, Others, PassRow
  <2> QED
    BY <1>1, <1>5, <1>11, <2>2, Zenon
<1>14. PassOK(d)
  BY <1>1, <1>3, <1>12 DEF PassOK, StepsOK, Answering, Dispatching
<1> QED
  BY <1>10, <1>12, <1>13, <1>14, EffectBefore DEF FlowInv

\* A drained run ends the way it was stopped.
LEMMA FinishDrainEffect ==
  ASSUME FlowInv, NEW p \in Reconcilers, FinishDrain(p)
  PROVE  Effect(p)
<1>1. PICK c \in PassRow : c = pass[p] /\ PassOK(c)
  BY DEF FlowInv, Others
<1>2. c.run \in Stopping /\ Return(p) /\ UNCHANGED <<node, taskRun, request>>
  BY <1>1 DEF FinishDrain, At, PassOK
<1>3. \/ run' = run
      \/ /\ run = c.run
         /\ run' = IF c.run = "canceling" THEN "canceled" ELSE "failed"
  BY <1>1, Zenon DEF FinishDrain, TransitionWorkflowRun
<1>4. RowStep
  BY <1>2, <1>3 DEF RowStep, rows, EndWrite, Stopping
<1> QED
  BY <1>2, <1>4, FreshEffect

\* A pass begins with the clock it reads.
LEMMA ReconcileEffect ==
  ASSUME FlowInv, NEW p \in Reconcilers, Reconcile(p)
  PROVE  Effect(p)
<1>1. RowStep
  BY DEF Reconcile, RowStep
<1>2. PICK now : now = passed \cap Deadlines
  OBVIOUS
<1>3. now \in SUBSET Timers
  BY <1>2 DEF FlowInv, Others
<1>4. PICK d : d = [NoPass EXCEPT !.pc = "readRun", !.now = now]
  OBVIOUS
<1>5. d \in PassRow /\ PassOK(d)
  BY <1>3, <1>4, FreshOK DEF FlowInv
<1>6. pass' = [pass EXCEPT ![p] = d]
  BY <1>2, <1>4 DEF Reconcile
<1> QED
  BY <1>1, <1>5, <1>6, EffectBefore DEF FlowInv

\* Every step of a pass.
LEMMA PassStepEffect ==
  ASSUME FlowInv, NEW p \in Reconcilers, PassStep(p)
  PROVE  Effect(p) /\ UNCHANGED <<passed, aborts>> /\ (Release(p) \/ UNCHANGED lease)
<1>1. ASSUME EndPass(p) PROVE Effect(p) /\ UNCHANGED <<passed, aborts>> /\ Release(p)
  BY <1>1, IdleEffect DEF EndPass
<1>2. ASSUME ~EndPass(p) PROVE UNCHANGED <<passed, aborts, lease>>
  BY <1>2, Zenon DEF PassStep, ReadRun, ReadSteps, StopAtDeadline, CancelTimedOutAttempt,
     FoldNode, FinalizeFailedFromNode, ListRequests, ExpireRequest, ApplyInput, SkipRequest,
     ApplyRefusal, AdmitAnswer, LinkAnswer, RereadSteps, SkipNode, OpenInputRequest,
     LimitReached, AdmitNode, LinkNode, FailAdmission, FinishDispatch, DrainCancel,
     DrainNode, FinishDrain
<1>3. ASSUME ~EndPass(p) PROVE Effect(p)
  BY <1>3, ReadRunEffect, ReadStepsEffect, StopAtDeadlineEffect,
     CancelTimedOutAttemptEffect, FoldNodeEffect, FinalizeFailedFromNodeEffect,
     ListRequestsEffect, ExpireRequestEffect, ApplyInputEffect, SkipRequestEffect,
     ApplyRefusalEffect, AdmitAnswerEffect, LinkAnswerEffect, RereadStepsEffect,
     SkipNodeEffect, OpenInputRequestEffect, LimitReachedEffect, AdmitNodeEffect,
     LinkNodeEffect, FailAdmissionEffect, FinishDispatchEffect, DrainCancelEffect,
     DrainNodeEffect, FinishDrainEffect, Zenon DEF PassStep
<1> QED
  BY <1>1, <1>2, <1>3

-----------------------------------------------------------------------------
(* People, the Task plane and time *)

\* A write of somebody else's: every pass only sees the rows grow.
LEMMA OutsideKeeps ==
  ASSUME FlowInv, RowStep, pass' = pass,
         lease' \in [owner : Reconcilers \cup {NoOwner}, expired : BOOLEAN],
         passed' \subseteq Timers, aborts' \in 0..MaxAborts
  PROVE  FlowInv' /\ Allowed
<1>1. RowInv' /\ Grows /\ Allowed
  BY RowStepSound DEF FlowInv, Sound
<1>2. Others'
  BY DEF FlowInv, Others
<1>3. ASSUME NEW q \in Reconcilers PROVE PassOK(pass[q])'
  <2>1. PICK c \in PassRow : c = pass[q] /\ PassOK(c)
    BY DEF FlowInv, Others
  <2>2. PassOK(c)'
    BY <1>1, <2>1, PassGrows DEF FlowInv
  <2>3. pass'[q] = c
    BY <2>1
  <2> QED
    BY <2>2, <2>3 DEF PassOK, StepsOK, DispatchOK
<1> QED
  BY <1>1, <1>2, <1>3 DEF FlowInv

\* A person stops the run or resolves a request.
LEMMA PersonIsWrite ==
  ASSUME FlowInv, CancelWorkflowRun \/ RespondToRequest
  PROVE  RowStep
<1>1. CASE CancelWorkflowRun
  BY <1>1, StopIsWrite DEF CancelWorkflowRun, FlowInv, Stopping
<1>2. CASE RespondToRequest
  <2>1. PICK n \in Nodes : \E i \in DOMAIN request[n] : \E to \in {"answered", "declined"} :
          ResolveWorkflowRequest(n, i, to)
    BY <1>2 DEF RespondToRequest
  <2>2. UNCHANGED <<run, node, taskRun>>
    BY <1>2 DEF RespondToRequest
  <2> QED
    BY <2>1, <2>2, ResolveIsWrite DEF FlowInv
<1> QED
  BY <1>1, <1>2

\* The Task plane dispatches, ends or cancels an active TaskRun.
LEMMA TaskIsWrite ==
  ASSUME FlowInv, NEW n \in Nodes, TaskStep(n) \/ CancelTaskRun(n)
  PROVE  RowStep
<1>1. /\ taskRun \in [Nodes -> Seq(TaskRunRow)] /\ taskRun[n] \in Seq(TaskRunRow)
      /\ run' = run /\ node' = node /\ request' = request
  BY DEF FlowInv, RowInv, Rows, TaskStep, StartTaskRun, EndTaskRun, CancelTaskRun
<1>2. ASSUME NEW k \in Active(n), NEW st \in RunActive \cup RunDone,
             taskRun' = [taskRun EXCEPT ![n][k].status = st]
      PROVE  RowStep
  <2>1. k \in DOMAIN taskRun[n] /\ taskRun[n][k].status \in RunActive
    BY DEF Active
  <2>2. PICK r \in TaskRunRow : r = taskRun[n][k]
    BY <1>1, <2>1
  <2>3. PICK row : row = [r EXCEPT !.status = st]
    OBVIOUS
  <2>4. row \in TaskRunRow /\ row.key = r.key
    BY <2>3 DEF TaskRunRow
  <2>5. taskRun' = [taskRun EXCEPT ![n] = [taskRun[n] EXCEPT ![k] = row]]
    BY <1>1, <1>2, <2>1, <2>2, <2>3 DEF TaskRunRow
  <2>6. TaskWrite(n, k, row)
    BY <1>1, <2>1, <2>2, <2>4, <2>5 DEF TaskWrite
  <2> QED
    BY <2>1, <2>4, <2>6 DEF RowStep
<1>3. CASE StartTaskRun(n)
  BY <1>2, <1>3 DEF StartTaskRun, RunActive
<1>4. CASE EndTaskRun(n)
  <2>0. PICK k \in Active(n) : \E v \in Verdicts(n, taskRun[n][k]) :
          taskRun' = [taskRun EXCEPT ![n][k].status = v]
    BY <1>4 DEF EndTaskRun
  <2>1. PICK v \in Verdicts(n, taskRun[n][k]) :
          taskRun' = [taskRun EXCEPT ![n][k].status = v]
    BY <2>0
  <2>2. v \in RunDone
    BY <2>1 DEF Verdicts, RunDone
  <2> QED
    BY <1>2, <2>1, <2>2
<1>5. CASE CancelTaskRun(n)
  <2>1. PICK k \in Active(n) : RequestRunCancel(n, k, "person")
    BY <1>5 DEF CancelTaskRun
  <2>2. k \in DOMAIN taskRun[n]
    BY DEF Active
  <2> QED
    BY <1>1, <2>1, <2>2, CancelIsWrite DEF FlowInv
<1> QED
  BY <1>3, <1>4, <1>5 DEF TaskStep

\* The deadlines that are set are timers.
LEMMA DeadlinesAreTimers ==
  ASSUME FlowInv
  PROVE  Deadlines \subseteq Timers
<1>1. node \in [Nodes -> NodeRow] /\ \A n \in Nodes : node[n].cur \in Nat /\ node[n].attempt \in Nat
  BY DEF FlowInv, RowInv, Rows, NodeRow
<1>2. RunTimer \in Timers
  BY DEF RunTimer, Timers
<1>3. \A n \in Nodes : /\ AttemptTimer(n, node[n].cur) \in Timers
                       /\ RetryTimer(n, node[n].attempt) \in Timers
                       /\ RequestTimer(n) \in Timers
  BY <1>1 DEF AttemptTimer, RetryTimer, RequestTimer, Timers
<1> QED
  BY <1>2, <1>3 DEF Deadlines, With

-----------------------------------------------------------------------------
(* The theorems *)

\* Every run starts in the invariant.
LEMMA FlowInit == Init => FlowInv
<1> SUFFICES ASSUME Init PROVE FlowInv
  OBVIOUS
<1>1. /\ run = "running" /\ node = [n \in Nodes |-> NewNode]
      /\ taskRun = [n \in Nodes |-> <<>>] /\ request = [n \in Nodes |-> <<>>]
  BY DEF Init, InitRest
<1>2. NewNode \in NodeRow /\ NewNode.status = "pending" /\ NewNode.cur = 0
  BY DEF NewNode, NoNode, NodeRow, NodeStatus
<1>3. \A n \in Nodes : /\ node[n] = NewNode /\ taskRun[n] = <<>> /\ request[n] = <<>>
                       /\ taskRun[n] \in Seq(TaskRunRow) /\ request[n] \in Seq(RequestRow)
                       /\ DOMAIN taskRun[n] = {} /\ DOMAIN request[n] = {}
                       /\ Len(taskRun[n]) = 0
  BY <1>1
<1>4. Rows
  BY <1>1, <1>2, <1>3 DEF Rows
<1>5. NodeInv
  BY <1>2, <1>3 DEF NodeInv
<1>6. RunInv
  BY <1>1, <1>2, <1>3 DEF RunInv, Open
<1>7. \A n \in Nodes : Solo(n)
  BY <1>3 DEF Solo, Active
<1>8. RowInv
  BY <1>4, <1>5, <1>6, <1>7 DEF RowInv
<1>9. NoPass \in PassRow /\ PassOK(NoPass)
  BY <1>8, IdleOK
<1>10. Others
  BY <1>9, WorkflowAssumption DEF Init, InitRest, Others
<1>11. \A p \in Reconcilers : pass[p] = NoPass
  BY DEF Init, InitRest
<1> QED
  BY <1>8, <1>9, <1>10, <1>11 DEF FlowInv

\* Every step preserves the invariant and is one the contract allows.
LEMMA FlowNext == FlowInv /\ [Next]_vars => FlowInv' /\ Allowed
<1> SUFFICES ASSUME FlowInv, [Next]_vars PROVE FlowInv' /\ Allowed
  OBVIOUS
<1>0. /\ lease \in [owner : Reconcilers \cup {NoOwner}, expired : BOOLEAN]
      /\ passed \subseteq Timers /\ aborts \in 0..MaxAborts /\ MaxAborts \in Nat
  BY WorkflowAssumption DEF FlowInv, Others
<1>r. ASSUME NEW p \in Reconcilers, Release(p)
      PROVE  lease' \in [owner : Reconcilers \cup {NoOwner}, expired : BOOLEAN]
  BY <1>0, <1>r DEF Release
<1>1. ASSUME NEW p \in Reconcilers, Reconcile(p) PROVE FlowInv' /\ Allowed
  <2>1. /\ lease' \in [owner : Reconcilers \cup {NoOwner}, expired : BOOLEAN]
        /\ passed' \subseteq Timers /\ aborts' = aborts
    BY <1>0, <1>1 DEF Reconcile
  <2> QED
    BY <1>0, <1>1, <2>1, ReconcileEffect, EffectKeeps
<1>2. ASSUME NEW p \in Reconcilers, PassStep(p) PROVE FlowInv' /\ Allowed
  <2>1. Effect(p) /\ UNCHANGED <<passed, aborts>> /\ (Release(p) \/ UNCHANGED lease)
    BY <1>2, PassStepEffect
  <2> QED
    BY <1>0, <1>r, <2>1, EffectKeeps
<1>3. ASSUME NEW p \in Reconcilers, Abort(p) PROVE FlowInv' /\ Allowed
  <2>1. Effect(p)
    BY <1>3, IdleEffect DEF Abort
  <2>2. /\ passed' = passed /\ aborts' \in 0..MaxAborts
        /\ Release(p) \/ UNCHANGED lease
    BY <1>0, <1>3 DEF Abort
  <2> QED
    BY <1>0, <1>r, <2>1, <2>2, EffectKeeps
<1>4. CASE CancelWorkflowRun \/ RespondToRequest
  <2>1. UNCHANGED <<lease, passed, pass, aborts>>
    BY <1>4 DEF CancelWorkflowRun, RespondToRequest
  <2> QED
    BY <1>0, <1>4, <2>1, PersonIsWrite, OutsideKeeps
<1>5. ASSUME NEW n \in Nodes, TaskStep(n) \/ CancelTaskRun(n) PROVE FlowInv' /\ Allowed
  <2>1. UNCHANGED <<lease, passed, pass, aborts>>
    BY <1>5 DEF TaskStep, StartTaskRun, EndTaskRun, CancelTaskRun
  <2> QED
    BY <1>0, <1>5, <2>1, TaskIsWrite, OutsideKeeps
<1>6. ASSUME NEW t \in Deadlines, DeadlinePasses(t) PROVE FlowInv' /\ Allowed
  <2>1. /\ UNCHANGED <<rows, lease, pass, aborts>>
        /\ passed' \subseteq Timers
    BY <1>0, <1>6, DeadlinesAreTimers DEF DeadlinePasses
  <2> QED
    BY <1>0, <2>1, OutsideKeeps DEF RowStep
<1>7. CASE LeaseExpires
  <2>1. /\ UNCHANGED <<rows, passed, pass, aborts>>
        /\ lease' \in [owner : Reconcilers \cup {NoOwner}, expired : BOOLEAN]
    BY <1>0, <1>7 DEF LeaseExpires
  <2> QED
    BY <1>0, <2>1, OutsideKeeps DEF RowStep
<1>8. CASE UNCHANGED vars
  BY <1>0, <1>8, OutsideKeeps DEF RowStep, vars, rows
<1> QED
  BY <1>1, <1>2, <1>3, <1>4, <1>5, <1>6, <1>7, <1>8 DEF Next

\* The invariant holds of every run, with or without exclusive passes.
THEOREM WorkflowInvariant == Spec => []FlowInv
<1>1. FlowInv /\ [Next]_vars => FlowInv'
  BY FlowNext
<1> QED
  BY <1>1, FlowInit, PTL DEF Spec

\* Type correctness: every row and every pass has its type, and a running node is
\* linked to a TaskRun that exists, which stepTaskRun relies on.
THEOREM WorkflowTypes == Spec => []TypeOK
<1>1. FlowInv => TypeOK
  BY DEF FlowInv, RowInv, Rows, Others, TypeOK
<1> QED
  BY <1>1, WorkflowInvariant, PTL

\* However many passes run at once, and whether or not their lease still protects
\* them, a node has at most one active TaskRun and no admission key is used twice:
\* the keys and the guarded transitions are enough, as Reconcile's comment says.
THEOREM AdmittedOnce == Spec => []NoDuplicateAdmission
<1>1. FlowInv => NoDuplicateAdmission
  <2> SUFFICES ASSUME FlowInv, NEW n \in Nodes, Solo(n)
               PROVE  Cardinality(Active(n)) <= 1
    BY DEF FlowInv, RowInv, NoDuplicateAdmission, Solo
  <2>1. Active(n) = {} \/ \E k : Active(n) = {k}
    BY DEF Solo
  <2>2. Cardinality(Active(n)) = 0 \/ Cardinality(Active(n)) = 1
    <3>1. CASE Active(n) = {}
      BY <3>1, FS_EmptySet, Zenon
    <3>2. CASE \E k : Active(n) = {k}
      <4>1. PICK k : Active(n) = {k}
        BY <3>2
      <4>2. Cardinality({k}) = 1
        BY FS_Singleton
      <4> QED
        BY <4>1, <4>2, Zenon
    <3> QED
      BY <2>1, <3>1, <3>2
  <2>3. PICK c : c = Cardinality(Active(n))
    OBVIOUS
  <2> QED
    BY <2>2, <2>3
<1> QED
  BY <1>1, WorkflowInvariant, PTL

\* A run succeeds only when every Agent node accepted a TaskRun that succeeded and
\* every human_input node an answer.
THEOREM SuccessAccounts == Spec => []SuccessIsAccounted
<1>1. FlowInv => SuccessIsAccounted
  BY DEF FlowInv, RowInv, RunInv, Accounted, SuccessIsAccounted
<1> QED
  BY <1>1, WorkflowInvariant, PTL

\* Any number of passes, with or without their lease, keep the contract of
\* WorkflowContract: work begins only in an open run, after everything the node
\* needs and never again once it is done; the first stop decides how the run ends.
THEOREM WorkflowKeepsContract == Spec => ImplementsContract
<1>1. Init => Contract!Init
  BY DEF Init, InitRest, Contract!Init, With, NewNode, NoNode
<1>2. FlowInv /\ [Next]_vars => [Contract!Next]_(Contract!vars)
  BY FlowNext DEF Allowed
<1> QED
  BY <1>1, <1>2, WorkflowInvariant, PTL DEF Spec, ImplementsContract, Contract!Spec

=============================================================================
