----------------------------- MODULE TurnQueue -----------------------------
(* The turns of one conversation: the registry of turn queues that each      *)
(* server replica keeps (server/turnqueue), the Redis lease that serializes  *)
(* turns across replicas (infra/coordination/lock.go) and the fence under    *)
(* which a turn appends to the message history (infra/db).                   *)
(*                                                                           *)
(* One action is one critical section: a section under the registry's or a   *)
(* queue's mutex, one Redis script, one database transaction.  In between,   *)
(* other goroutines and other replicas take theirs.                          *)
EXTENDS Naturals, Sequences, FiniteSets

CONSTANTS
  Replicas,      \* server processes
  MaxJobs,       \* bound: turns submitted
  MaxQueued,     \* turns that may wait behind the running one
  Scenarios,     \* deployments and their bounds, see ScenarioType
  None

\* mode "local" has no Locker and one replica; the bounds of the environment:
\* turns submitted, messages one turn appends, faults (lost leases, lost data,
\* failed calls, crashes), callers that leave and replicas that shut down.
ScenarioType ==
  [mode : {"local", "redis"}, jobs : 0..MaxJobs, messages : Nat,
   faults : Nat, drops : Nat, drains : Nat]

ASSUME TurnAssumption ==
  /\ Replicas # {} /\ IsFiniteSet(Replicas)
  /\ MaxJobs \in Nat /\ MaxQueued \in Nat
  /\ Scenarios \subseteq ScenarioType
  /\ None \notin Nat \cup Replicas

\* Turns in the order they are submitted.  A queue is named after the job whose
\* Submit created it, and so is a grant of the lease (its nonce).
Jobs == 1..MaxJobs

VARIABLES
  scn,     \* the scenario
  job,     \* each turn: where it is, its replica, its queue, Dropped, its fence
  queue,   \* convQueue: running, pending
  reg,     \* Registry of each replica; waited: Wait has reported TRUE
  redis,   \* the lease's key, the fence counter (0: missing), the clock
  conv,    \* conversation row's turn_fence, and the message history
  lost,    \* turns whose lease ended while they held it
  faults   \* faults so far

vars == <<scn, job, queue, reg, redis, conv, lost, faults>>

Init ==
  /\ scn \in Scenarios
  /\ job = [j \in Jobs |-> [pc |-> "new", rep |-> None, at |-> None,
                            dropped |-> FALSE, fence |-> 0]]
  /\ queue = [q \in Jobs |-> [running |-> FALSE, pending |-> <<>>]]
  /\ reg = [r \in Replicas |->
              [up |-> scn.mode = "redis" \/ r = CHOOSE x \in Replicas : TRUE,
               queue |-> None, draining |-> FALSE, active |-> 0,
               waited |-> FALSE]]
  /\ redis = [key |-> None, counter |-> 0, clock |-> 0]
  /\ conv = [fence |-> 0, history |-> <<>>]
  /\ lost = {}
  /\ faults = 0

Moved(j, pc) == job' = [job EXCEPT ![j].pc = pc]

\* A failure of the environment, within the bound.
Fault == faults < scn.faults /\ faults' = faults + 1

-----------------------------------------------------------------------------
(* Registry.Submit                                                           *)

Submitted == Cardinality({j \in Jobs : job[j].pc # "new"})

\* The registry's critical section: a draining registry refuses; otherwise the
\* turn is counted and takes the conversation's queue, a new one if there is none.
Submit(r) ==
  /\ Submitted < scn.jobs
  /\ reg[r].up
  /\ LET j == Submitted + 1
         q == IF reg[r].queue = None THEN j ELSE reg[r].queue
     IN \/ /\ reg[r].draining
           /\ job' = [job EXCEPT ![j].pc = "done", ![j].rep = r]
           /\ UNCHANGED reg
        \/ /\ ~reg[r].draining
           /\ reg' = [reg EXCEPT ![r].active = @ + 1, ![r].queue = q]
           /\ job' = [job EXCEPT ![j].pc = "counted", ![j].rep = r,
                                 ![j].at = q]
  /\ UNCHANGED <<scn, queue, redis, conv, lost, faults>>

\* Mutant: one turn too many may wait.
Full_OffByOne(q) == Len(queue[q].pending) > MaxQueued

Full(q) == Len(queue[q].pending) >= MaxQueued

\* Mutant: Submit gives its count back in every case.
CountAfter_DoneAtReturn(q, active) == active - 1

\* What is left of the count once Submit returns: the goroutine already running
\* the queue owns its own; a goroutine started here inherits this turn's.
CountAfter(q, active) == IF queue[q].running THEN active - 1 ELSE active

\* The queue's critical section.  A turn that finds the queue running joins it,
\* or is refused with ErrQueueFull; one that finds it idle starts the goroutine.
Enqueue(j) ==
  LET q == job[j].at r == job[j].rep
  IN /\ job[j].pc = "counted"
     /\ \/ /\ queue[q].running /\ Full(q)
           /\ Moved(j, "done")
           /\ UNCHANGED queue
        \/ /\ queue[q].running /\ ~Full(q)
           /\ queue' = [queue EXCEPT ![q].pending = Append(@, j)]
           /\ Moved(j, "queued")
        \/ /\ ~queue[q].running
           /\ queue' = [queue EXCEPT ![q].running = TRUE]
           /\ Moved(j, "start")
     /\ reg' = [reg EXCEPT ![r].active = CountAfter(q, @)]
     /\ UNCHANGED <<scn, redis, conv, lost, faults>>

\* The caller of RunSync leaves, or the connection that queued the turn closes.
\* The flag is read only when the turn's time comes.
Drop(j) ==
  /\ job[j].pc \in {"queued", "start"}
  /\ ~job[j].dropped
  /\ Cardinality({i \in Jobs : job[i].dropped}) < scn.drops
  /\ job' = [job EXCEPT ![j].dropped = TRUE]
  /\ UNCHANGED <<scn, queue, reg, redis, conv, lost, faults>>

-----------------------------------------------------------------------------
(* drain and runLocked: the goroutine of a queue                             *)

\* Mutant: a dropped turn ends the goroutine.
SkippedTo_Returns == "done"

\* A dropped turn is skipped: its Done is closed and the goroutine goes on.
SkippedTo == "closed"

\* Without a Locker the turn runs at once, unfenced.
Begin(j) ==
  /\ job[j].pc = "start"
  /\ Moved(j, IF job[j].dropped THEN SkippedTo
              ELSE IF scn.mode = "local" THEN "run" ELSE "acquire")
  /\ UNCHANGED <<scn, queue, reg, redis, conv, lost, faults>>

\* Mutant: a missing counter starts from zero.
FenceBase_Zero == redis.counter

\* A missing counter starts from the clock in microseconds.  One key is granted
\* at most once a microsecond (fenceFloor's assumption): the clock here is the
\* slowest that allows, one tick per grant.
FenceBase == IF redis.counter = 0 THEN redis.clock ELSE redis.counter

\* acquireScript: only a free lease is granted, with the next fence.
Granted(j) ==
  /\ redis.key = None
  /\ redis' = [key |-> j, counter |-> FenceBase + 1, clock |-> redis.clock + 1]

Acquire(j) ==
  /\ job[j].pc = "acquire"
  /\ Granted(j)
  /\ job' = [job EXCEPT ![j].pc = "run", ![j].fence = FenceBase + 1]
  /\ UNCHANGED <<scn, queue, reg, conv, lost, faults>>

\* Drain cancels lockCtx, and Redis may be unreachable: the turn is refused.
\* The script may have run all the same, and its grant then has no holder.
Refuse(j) ==
  /\ job[j].pc = "acquire"
  /\ \/ reg[job[j].rep].draining /\ UNCHANGED faults
     \/ Fault
  /\ \/ UNCHANGED redis
     \/ Granted(j)
  /\ Moved(j, "closed")
  /\ UNCHANGED <<scn, queue, reg, conv, lost>>

\* AppendMessage under the turn's fence: in one transaction the conversation
\* refuses a fence it has seen superseded, and otherwise advances turn_fence and
\* inserts.  A refused append ends the turn (ErrStaleTurnWrite).
Stale(j) == job[j].fence < conv.fence

Messages(j) == Cardinality({i \in DOMAIN conv.history : conv.history[i] = j})

AppendMessage(j) ==
  /\ job[j].pc = "run"
  /\ Messages(j) < scn.messages
  /\ ~Stale(j)
  /\ conv' = [fence |-> job[j].fence, history |-> Append(conv.history, j)]
  /\ UNCHANGED <<scn, job, queue, reg, redis, lost, faults>>

\* The turn ends: its loop is finished, it failed, or an append was refused.
EndTurn(j) ==
  /\ job[j].pc = "run"
  /\ Moved(j, "release")
  /\ UNCHANGED <<scn, queue, reg, redis, conv, lost, faults>>

\* Mutant: the release deletes whatever the key holds.
AfterRelease_Unchecked(j) == None

\* releaseScript deletes the key only for the grant that stored it.
AfterRelease(j) == IF redis.key = j THEN None ELSE redis.key

\* Lease.Release ignores an error; the key is then left to expire.
Release(j) ==
  /\ job[j].pc = "release"
  /\ \/ redis' = [redis EXCEPT !.key = AfterRelease(j)] /\ UNCHANGED faults
     \/ scn.mode = "redis" /\ Fault /\ UNCHANGED redis
  /\ Moved(j, "closed")
  /\ UNCHANGED <<scn, queue, reg, conv, lost>>

\* Done is closed; under the queue's mutex the goroutine takes the next turn or
\* leaves the queue idle.
DrainNext(j) ==
  LET q == job[j].at
  IN /\ job[j].pc = "closed"
     /\ \/ /\ queue[q].pending = <<>>
           /\ queue' = [queue EXCEPT ![q].running = FALSE]
           /\ Moved(j, "forget")
        \/ /\ queue[q].pending # <<>>
           /\ queue' = [queue EXCEPT ![q].pending = Tail(@)]
           /\ job' = [job EXCEPT ![j].pc = "done",
                                 ![Head(queue[q].pending)].pc = "start"]
     /\ UNCHANGED <<scn, reg, redis, conv, lost, faults>>

\* forget deletes the queue if the registry still holds it and it is idle; the
\* goroutine ends and gives back its count.
Forget(j) ==
  LET q == job[j].at r == job[j].rep
      idle == ~queue[q].running /\ queue[q].pending = <<>>
  IN /\ job[j].pc = "forget"
     /\ reg' = [reg EXCEPT ![r].active = @ - 1,
                           ![r].queue = IF @ = q /\ idle THEN None ELSE @]
     /\ Moved(j, "done")
     /\ UNCHANGED <<scn, queue, redis, conv, lost, faults>>

-----------------------------------------------------------------------------
(* Shutdown, crashes and the life of the lease                               *)

\* Registry.Drain: refuse new turns, cancel lockCtx.
Drain(r) ==
  /\ reg[r].up /\ ~reg[r].draining
  /\ Cardinality({x \in Replicas : reg[x].draining}) < scn.drains
  /\ reg' = [reg EXCEPT ![r].draining = TRUE]
  /\ UNCHANGED <<scn, job, queue, redis, conv, lost, faults>>

\* Registry.Wait after Drain: no turn is counted any more.
Wait(r) ==
  /\ reg[r].up /\ reg[r].draining /\ ~reg[r].waited
  /\ reg[r].active = 0
  /\ reg' = [reg EXCEPT ![r].waited = TRUE]
  /\ UNCHANGED <<scn, job, queue, redis, conv, lost, faults>>

Crash(r) ==
  /\ reg[r].up
  /\ Fault
  /\ reg' = [reg EXCEPT ![r].up = FALSE]
  /\ job' = [j \in Jobs |->
               IF job[j].rep = r /\ job[j].pc # "done"
               THEN [job[j] EXCEPT !.pc = "dead"] ELSE job[j]]
  /\ UNCHANGED <<scn, queue, redis, conv, lost>>

\* A turn that renews the lease: it was granted it, and has not released it.
Renewing(j) == j \in Jobs /\ job[j].pc \in {"run", "release"}

\* The holder is not told (nothing reads Lease.Lost for a turn).
LoseKey == lost' = IF Renewing(redis.key) THEN lost \cup {redis.key} ELSE lost

\* The TTL runs out: nobody renews the key, or the holder's renewals were
\* stalled or failed for a whole TTL.
Expire ==
  /\ redis.key # None
  /\ IF Renewing(redis.key) THEN Fault ELSE UNCHANGED faults
  /\ redis' = [redis EXCEPT !.key = None]
  /\ LoseKey
  /\ UNCHANGED <<scn, job, queue, reg, conv>>

\* Redis loses its data: the key and the fence counter.
LoseData ==
  /\ redis.counter # 0
  /\ Fault
  /\ redis' = [redis EXCEPT !.key = None, !.counter = 0]
  /\ LoseKey
  /\ UNCHANGED <<scn, job, queue, reg, conv>>

-----------------------------------------------------------------------------
Next ==
  \/ \E r \in Replicas : Submit(r) \/ Drain(r) \/ Wait(r) \/ Crash(r)
  \/ \E j \in Jobs :
       \/ Enqueue(j) \/ Drop(j) \/ Begin(j) \/ Acquire(j) \/ Refuse(j)
       \/ AppendMessage(j) \/ EndTurn(j) \/ Release(j) \/ DrainNext(j)
       \/ Forget(j)
  \/ Expire
  \/ LoseData

Spec == Init /\ [][Next]_vars

\* A goroutine that can run does; a turn's loop ends; a key nobody renews
\* expires.  Nothing is assumed of who wins a free lease, of shutdown or of
\* faults.
FairSpec ==
  /\ Spec
  /\ \A j \in Jobs :
       WF_vars(Enqueue(j) \/ Begin(j) \/ Acquire(j) \/ EndTurn(j)
               \/ Release(j) \/ DrainNext(j) \/ Forget(j))
  /\ WF_vars(Expire /\ ~Renewing(redis.key))

-----------------------------------------------------------------------------
Pcs == {"new", "counted", "queued", "start", "acquire", "run", "release",
        "closed", "forget", "done", "dead"}
Turn == [pc : Pcs, rep : Replicas \cup {None}, at : Jobs \cup {None},
         dropped : BOOLEAN, fence : Nat]
Registry == [up : BOOLEAN, queue : Jobs \cup {None}, draining : BOOLEAN,
             active : Nat, waited : BOOLEAN]

\* Types; no more than MaxQueued turns wait in one queue.
TypeOK ==
  /\ scn \in Scenarios
  /\ job \in [Jobs -> Turn]
  /\ queue \in [Jobs -> [running : BOOLEAN, pending : Seq(Jobs)]]
  /\ \A q \in Jobs : Len(queue[q].pending) <= MaxQueued
  /\ reg \in [Replicas -> Registry]
  /\ redis \in [key : Jobs \cup {None}, counter : Nat, clock : Nat]
  /\ conv \in [fence : Nat, history : Seq(Jobs)]
  /\ lost \subseteq Jobs
  /\ faults \in 0..scn.faults

Running == {j \in Jobs : job[j].pc = "run"}

\* A turn runs "never concurrently with another job for the same conversation",
\* says turnqueue.go.  Two turns do run at the same time, for one of two reasons
\* only.  With a Locker, one of them lost its lease while it held it: a late
\* Release, a refused Acquire, a crash or a forgotten queue never let a second
\* turn in.  Without one, a goroutine has forgotten the queue of one of them
\* between the two critical sections of its Submit (Registry.forget).
OverlapIsExplained ==
  \A i, j \in Running : i # j =>
    IF scn.mode = "redis" THEN i \in lost \/ j \in lost
    ELSE \E k \in {i, j} : reg[job[k].rep].queue # job[k].at

\* With a Locker, the history never interleaves two turns: once another turn has
\* appended, a turn that lost its lease appends nothing more, also when Redis
\* has lost its data in between.
TurnsContiguous ==
  scn.mode = "redis" =>
    \A a, b, c \in DOMAIN conv.history :
      a < b /\ b < c /\ conv.history[a] = conv.history[c]
        => conv.history[b] = conv.history[a]

\* The turn that holds the lease is never refused as stale: every grant's fence
\* is at least what the conversation has accepted, also after Redis lost its
\* fence counter.
HolderNotRefused ==
  \A j \in Running : redis.key = j => ~Stale(j)

\* The fence works both ways: who lost the lease cannot write behind the next
\* holder, and who holds it can always write.
FenceOrdersHistory == TurnsContiguous /\ HolderNotRefused

\* When Wait reports that every turn has finished, none of the replica's turns is
\* running, queued or between the two critical sections of Submit, and none
\* starts later.
WaitMeansQuiet ==
  \A r \in Replicas : reg[r].waited =>
    \A j \in Jobs : job[j].rep = r => job[j].pc \in {"done", "dead"}

\* Every turn handed to a registry is run, skipped or refused, and its Done
\* closes, unless its replica crashes: no turn is stranded in a queue, behind a
\* dropped turn or behind the lease of a replica that died.
EveryJobEnds ==
  \A j \in Jobs : job[j].pc # "new" ~> job[j].pc \in {"closed", "forget",
                                                      "done", "dead"}
=============================================================================
