-------------------------- MODULE TurnQueueProofs --------------------------
(***************************************************************************)
(* What TurnQueue guarantees for every number of replicas, turns, messages  *)
(* and faults, proved with TLAPS.                                           *)
(*                                                                         *)
(* None of the four invariants is inductive.  Beside their types they need  *)
(* where a turn may be (a queue belongs to one replica, its pending list    *)
(* holds exactly its queued turns, a queue that says it is running has a    *)
(* goroutine), what a registry's count counts, who the lease's key can name *)
(* and how fences grow.  QueueInv, LeaseInv and FenceInv add these facts.   *)
(***************************************************************************)
EXTENDS TurnQueue, FiniteSetTheorems, TLAPS

\* A turn that is neither new nor over: somebody still has to finish it.
InFlight == {"counted", "queued", "start", "acquire", "run", "release",
             "closed", "forget"}
DrivenPc == {"start", "acquire", "run", "release", "closed"}

\* Turns that a goroutine has taken and not closed.  One goroutine at a time
\* drains a queue, whoever submits to it meanwhile.
Driven == {j \in Jobs : job[j].pc \in {"start", "acquire", "run", "release", "closed"}}
OneGoroutinePerQueue ==
  \A i \in Driven :
    /\ queue[job[i].at].running
    /\ \A j \in Driven : job[i].at = job[j].at => i = j

\* A turn in flight has a queue and a replica that is up; a crash spares none.
Placed ==
  \A j \in Jobs :
    /\ job[j].pc = "new" => job[j].rep = None /\ job[j].at = None
    /\ job[j].pc # "new" => job[j].rep \in Replicas
    /\ job[j].pc \in InFlight => job[j].at \in Jobs /\ reg[job[j].rep].up
    /\ job[j].pc = "dead" => ~reg[job[j].rep].up

\* A queue belongs to the replica whose Submit created it.
Homes ==
  /\ \A j \in Jobs : job[j].at # None =>
       job[job[j].at].pc # "new" /\ job[job[j].at].rep = job[j].rep
  /\ \A r \in Replicas : reg[r].queue # None =>
       job[reg[r].queue].pc # "new" /\ job[reg[r].queue].rep = r

\* Turns are submitted in order.
InOrder == {j \in Jobs : job[j].pc # "new"} = 1..Submitted

\* A pending list holds the queued turns of its queue, each once.
PendingIsQueued ==
  /\ \A q \in Jobs : \A m \in DOMAIN queue[q].pending :
       /\ job[queue[q].pending[m]].at = q
       /\ job[queue[q].pending[m]].pc \in {"queued", "dead"}
       /\ \A n \in DOMAIN queue[q].pending :
            queue[q].pending[m] = queue[q].pending[n] => m = n
  /\ \A j \in Jobs : job[j].pc = "queued" =>
       \E m \in DOMAIN queue[job[j].at].pending : queue[job[j].at].pending[m] = j

\* Somebody drains a queue that says it is running, and turns wait only in one.
RunningIsDriven ==
  \A q \in Jobs :
    /\ queue[q].pending # <<>> => queue[q].running
    /\ queue[q].running =>
         /\ job[q].pc # "new"
         /\ reg[job[q].rep].up => \E i \in Driven : job[i].at = q

\* What a registry counts: turns inside Submit, and goroutines.
Counted(r) == {j \in Jobs : /\ job[j].rep = r
                            /\ job[j].pc \in DrivenPc \cup {"counted", "forget"}}
CountExact ==
  \A r \in Replicas :
    /\ reg[r].up => reg[r].active = Cardinality(Counted(r))
    /\ reg[r].waited => reg[r].draining

QueueInv ==
  /\ TypeOK /\ Placed /\ Homes /\ InOrder /\ PendingIsQueued /\ RunningIsDriven
  /\ OneGoroutinePerQueue /\ CountExact /\ WaitMeansQuiet

\* Who has the lease and has not lost it is named by the key.
LeaseInv ==
  IF scn.mode = "local"
  THEN redis.key = None /\ \A j \in Jobs : job[j].pc # "acquire"
  ELSE \A j \in Jobs : Renewing(j) /\ j \notin lost => redis.key = j

\* Fences are handed out in the order of the clock, one turn each, the holder's
\* is the newest, and the history is in their order.
FenceInv ==
  /\ redis.counter \in {0, redis.clock}
  /\ conv.fence <= redis.clock
  /\ \A j \in Jobs :
       /\ job[j].fence <= redis.clock
       /\ job[j].pc \in {"new", "counted", "queued", "start", "acquire"}
            => job[j].fence = 0
       /\ Renewing(j) /\ redis.key = j => job[j].fence = redis.clock
  /\ scn.mode = "redis" =>
       /\ \A j \in Jobs : Renewing(j) => job[j].fence # 0
       /\ \A i, j \in Jobs : job[i].fence = job[j].fence /\ job[i].fence # 0 => i = j
       /\ \A a \in DOMAIN conv.history :
            /\ job[conv.history[a]].fence # 0
            /\ job[conv.history[a]].fence <= conv.fence
       /\ \A a, b \in DOMAIN conv.history :
            a <= b => job[conv.history[a]].fence <= job[conv.history[b]].fence

TurnInv == QueueInv /\ LeaseInv /\ FenceInv
-----------------------------------------------------------------------------
(* Counting *)

\* Sets of turns are finite, so Submitted and a registry's count are numbers.
LEMMA TurnsFinite ==
  ASSUME NEW S \in SUBSET Jobs
  PROVE  IsFiniteSet(S) /\ Cardinality(S) \in Nat
<1>1. IsFiniteSet(Jobs)
  BY TurnAssumption, FS_Interval DEF Jobs
<1>2. IsFiniteSet(S)
  BY <1>1, FS_Subset
<1> QED
  BY <1>2, FS_CardinalityType

\* One turn more or one turn less in a set of turns.
LEMMA TurnsCount ==
  ASSUME NEW S \in SUBSET Jobs, NEW j \in Jobs
  PROVE  /\ j \notin S => Cardinality(S \cup {j}) = Cardinality(S) + 1
         /\ j \in S => Cardinality(S \ {j}) = Cardinality(S) - 1
         /\ Cardinality(S) = 0 => S = {}
BY TurnsFinite, FS_AddElement, FS_RemoveElement, FS_EmptySet

\* No job is named None, and the bounds of a scenario are numbers.
LEMMA Constants ==
  ASSUME TypeOK
  PROVE  /\ None \notin Jobs /\ None \notin Replicas /\ Jobs \subseteq Nat
         /\ scn.mode \in {"local", "redis"} /\ scn.jobs \in 0..MaxJobs
         /\ scn.faults \in Nat /\ MaxJobs \in Nat /\ MaxQueued \in Nat
BY TurnAssumption DEF TypeOK, ScenarioType, Jobs

\* What waits in a queue is a turn.
LEMMA PendingInJobs ==
  ASSUME QueueInv, NEW q \in Jobs, NEW m \in DOMAIN queue[q].pending
  PROVE  queue[q].pending[m] \in Jobs
BY DEF QueueInv, TypeOK

-----------------------------------------------------------------------------
(* Steps that leave every turn where it is *)

\* A turn may change within its goroutine; registries and queues do not.
KeepsPlaces ==
  /\ reg' = reg /\ queue' = queue
  /\ \A j \in Jobs :
       /\ job'[j].rep = job[j].rep /\ job'[j].at = job[j].at
       /\ job'[j].pc = job[j].pc \/ {job[j].pc, job'[j].pc} \subseteq DrivenPc

\* Such a step leaves the queues as orderly as they were.
LEMMA KeepsPlacesPreserves ==
  ASSUME QueueInv, KeepsPlaces, TypeOK'
  PROVE  QueueInv'
<1> USE DEF KeepsPlaces
<1>1. \A j \in Jobs : (job'[j].pc = "new") <=> (job[j].pc = "new")
  BY DEF DrivenPc
<1>2. Placed'
  BY <1>1 DEF QueueInv, Placed, InFlight, DrivenPc
<1>3. Homes'
  <2>1. \A j \in Jobs : job[j].at # None => job[j].at \in Jobs
    BY DEF QueueInv, TypeOK, Turn
  <2>2. \A r \in Replicas : reg[r].queue # None => reg[r].queue \in Jobs
    BY DEF QueueInv, TypeOK, Registry
  <2> QED
    BY <1>1, <2>1, <2>2 DEF QueueInv, Homes
<1>4. InOrder'
  <2>1. {j \in Jobs : job'[j].pc # "new"} = {j \in Jobs : job[j].pc # "new"}
    BY <1>1
  <2> QED
    BY <2>1 DEF QueueInv, InOrder, Submitted
<1>5. \A j \in Jobs : job[j].pc \in {"queued", "dead"} \/ job'[j].pc \in {"queued", "dead"}
                     => job'[j].pc = job[j].pc
  BY DEF DrivenPc
<1>6. PendingIsQueued'
  BY <1>5, PendingInJobs DEF QueueInv, PendingIsQueued
<1>7. Driven' = Driven
  BY DEF Driven, DrivenPc
<1>8. RunningIsDriven'
  BY <1>1, <1>7 DEF QueueInv, RunningIsDriven, Driven
<1>9. OneGoroutinePerQueue'
  BY <1>7 DEF QueueInv, OneGoroutinePerQueue, Driven
<1>10. \A r \in Replicas : Counted(r)' = Counted(r)
  BY DEF Counted, DrivenPc
<1>11. CountExact'
  BY <1>10 DEF QueueInv, CountExact
<1>12. WaitMeansQuiet'
  BY DEF QueueInv, WaitMeansQuiet, DrivenPc
<1> QED
  BY <1>2, <1>3, <1>4, <1>6, <1>8, <1>9, <1>11, <1>12 DEF QueueInv

\* A turn that moves keeps its identity, and the others are left alone.
LEMMA MovedTurn ==
  ASSUME TypeOK, NEW j \in Jobs, NEW pc \in Pcs, Moved(j, pc)
  PROVE  /\ job' \in [Jobs -> Turn]
         /\ job'[j].pc = pc /\ job'[j].rep = job[j].rep /\ job'[j].at = job[j].at
         /\ job'[j].fence = job[j].fence
         /\ \A i \in Jobs \ {j} : job'[i] = job[i]
BY DEF TypeOK, Turn, Moved

\* A fault counts against the scenario's bound.
LEMMA FaultType ==
  ASSUME TypeOK, Fault \/ UNCHANGED faults
  PROVE  faults' \in 0..scn.faults
BY Constants DEF Fault, TypeOK

\* A grant's fence is a number, and the lease names a turn.
LEMMA GrantedType ==
  ASSUME TypeOK, NEW j \in Jobs, Granted(j)
  PROVE  /\ redis' \in [key : Jobs \cup {None}, counter : Nat, clock : Nat]
         /\ FenceBase + 1 \in Nat
BY DEF TypeOK, Granted, FenceBase

\* Inside its goroutine a turn only moves on; nothing else sees it.
LEMMA GoroutineStep ==
  ASSUME QueueInv, NEW j \in Jobs,
         \/ Drop(j) \/ Begin(j) \/ Acquire(j) \/ Refuse(j)
         \/ AppendMessage(j) \/ EndTurn(j) \/ Release(j)
  PROVE  QueueInv'
<1> SUFFICES TypeOK' /\ KeepsPlaces
  BY KeepsPlacesPreserves
<1>0. TypeOK
  BY DEF QueueInv
<1>m. ASSUME NEW pc \in DrivenPc, Moved(j, pc), job[j].pc \in DrivenPc,
             reg' = reg, queue' = queue
      PROVE  job' \in [Jobs -> Turn] /\ KeepsPlaces
  BY <1>0, <1>m, MovedTurn DEF KeepsPlaces, DrivenPc, Pcs
<1>1. CASE Drop(j)
  <2> DEFINE t == [job[j] EXCEPT !.dropped = TRUE]
  <2>a. job' = [job EXCEPT ![j] = t]
    BY <1>1 DEF Drop
  <2>b. t \in Turn
    BY <1>0 DEF TypeOK, Turn
  <2>1. job' \in [Jobs -> Turn]
    BY <1>0, <2>a, <2>b DEF TypeOK
  <2>2. KeepsPlaces
    BY <1>0, <1>1 DEF Drop, TypeOK, Turn, KeepsPlaces
  <2> QED
    BY <1>0, <1>1, <2>1, <2>2 DEF Drop, TypeOK
<1>2. CASE Begin(j)
  <2>1. job' \in [Jobs -> Turn] /\ KeepsPlaces
    BY <1>2, <1>m DEF Begin, SkippedTo, DrivenPc
  <2> QED
    BY <1>0, <1>2, <2>1 DEF Begin, TypeOK
<1>3. CASE Acquire(j)
  <2> DEFINE f == FenceBase + 1
  <2>1. job' = [job EXCEPT ![j].pc = "run", ![j].fence = f] /\ f \in Nat
    BY <1>0, <1>3, GrantedType DEF Acquire
  <2> HIDE DEF f
  <2> DEFINE t == [job[j] EXCEPT !.pc = "run", !.fence = f]
  <2>a. job' = [job EXCEPT ![j] = t]
    BY <1>0, <2>1 DEF TypeOK, Turn
  <2>b. t \in Turn
    <3>1. f \in Nat /\ job[j] \in Turn
      BY <1>0, <2>1 DEF TypeOK
    <3>2. [job[j] EXCEPT !.pc = "run"] \in Turn
      BY <3>1 DEF Turn, Pcs
    <3> QED
      BY <3>1, <3>2 DEF Turn
  <2>2. job' \in [Jobs -> Turn]
    BY <1>0, <2>a, <2>b DEF TypeOK
  <2>3. KeepsPlaces
    BY <1>0, <1>3, <2>1 DEF Acquire, TypeOK, Turn, KeepsPlaces, DrivenPc
  <2> QED
    BY <1>0, <1>3, <2>2, <2>3, GrantedType DEF Acquire, TypeOK
<1>4. CASE Refuse(j)
  <2>1. job' \in [Jobs -> Turn] /\ KeepsPlaces
    BY <1>4, <1>m DEF Refuse, DrivenPc
  <2>2. redis' \in [key : Jobs \cup {None}, counter : Nat, clock : Nat]
    BY <1>0, <1>4, GrantedType DEF Refuse, TypeOK
  <2>3. faults' \in 0..scn.faults
    BY <1>0, <1>4, FaultType DEF Refuse
  <2> QED
    BY <1>0, <1>4, <2>1, <2>2, <2>3 DEF Refuse, TypeOK
<1>5. CASE AppendMessage(j)
  <2>1. conv' \in [fence : Nat, history : Seq(Jobs)]
    BY <1>0, <1>5 DEF AppendMessage, TypeOK, Turn
  <2> QED
    BY <1>0, <1>5, <2>1 DEF AppendMessage, TypeOK, KeepsPlaces
<1>6. CASE EndTurn(j)
  <2>1. job' \in [Jobs -> Turn] /\ KeepsPlaces
    BY <1>6, <1>m DEF EndTurn, DrivenPc
  <2> QED
    BY <1>0, <1>6, <2>1 DEF EndTurn, TypeOK
<1>7. CASE Release(j)
  <2>1. job' \in [Jobs -> Turn] /\ KeepsPlaces
    BY <1>7, <1>m DEF Release, DrivenPc
  <2>2. redis' \in [key : Jobs \cup {None}, counter : Nat, clock : Nat]
    BY <1>0, <1>7 DEF Release, AfterRelease, TypeOK
  <2>3. faults' \in 0..scn.faults
    BY <1>0, <1>7, FaultType DEF Release
  <2> QED
    BY <1>0, <1>7, <2>1, <2>2, <2>3 DEF Release, TypeOK
<1> QED
  BY <1>1, <1>2, <1>3, <1>4, <1>5, <1>6, <1>7

\* Neither does the life of the lease move a turn.
LEMMA LeaseStep ==
  ASSUME QueueInv, Expire \/ LoseData
  PROVE  QueueInv'
<1> SUFFICES TypeOK' /\ KeepsPlaces
  BY KeepsPlacesPreserves
<1>0. TypeOK
  BY DEF QueueInv
<1>1. faults' \in 0..scn.faults
  BY <1>0, FaultType DEF Expire, LoseData
<1>2. redis' \in [key : Jobs \cup {None}, counter : Nat, clock : Nat]
  <2>1. CASE Expire
    BY <1>0, <2>1 DEF Expire, TypeOK
  <2>2. CASE LoseData
    BY <1>0, <2>2 DEF LoseData, TypeOK
  <2> QED
    BY <2>1, <2>2
<1>3. lost' \subseteq Jobs
  BY <1>0 DEF Expire, LoseData, LoseKey, Renewing, TypeOK
<1> QED
  BY <1>0, <1>1, <1>2, <1>3 DEF Expire, LoseData, TypeOK, KeepsPlaces

-----------------------------------------------------------------------------
(* Steps that move turns between a registry, a queue and its goroutine *)

\* Every turn stays with its replica and its queue, none begins and none dies.
StaysPut ==
  /\ \A j \in Jobs :
       /\ job'[j].rep = job[j].rep /\ job'[j].at = job[j].at
       /\ \/ job'[j].pc = job[j].pc
          \/ job[j].pc \in InFlight /\ job'[j].pc \in InFlight \cup {"done"}
  /\ \A r \in Replicas :
       /\ reg'[r].up = reg[r].up /\ reg'[r].waited = reg[r].waited
       /\ reg'[r].queue \in {None, reg[r].queue}
       /\ reg[r].draining => reg'[r].draining

\* Then only lists, goroutines and counts can go wrong.
LEMMA StaysPutPreserves ==
  ASSUME QueueInv, StaysPut
  PROVE  Placed' /\ Homes' /\ InOrder' /\ WaitMeansQuiet'
<1> USE DEF StaysPut
<1>0. TypeOK /\ Placed /\ Homes
  BY DEF QueueInv
<1>1. \A j \in Jobs : (job'[j].pc = "new") <=> (job[j].pc = "new")
  BY DEF InFlight
<1>2. Placed'
  <2>1. \A j \in Jobs : job[j].pc # "new" => reg'[job[j].rep].up = reg[job[j].rep].up
    BY <1>0 DEF Placed
  <2> QED
    BY <1>0, <1>1, <2>1 DEF Placed, InFlight
<1>3. Homes'
  <2>1. \A j \in Jobs : job[j].at # None => job[j].at \in Jobs
    BY <1>0 DEF TypeOK, Turn
  <2>2. \A r \in Replicas : reg[r].queue # None => reg[r].queue \in Jobs
    BY <1>0 DEF TypeOK, Registry
  <2> QED
    BY <1>0, <1>1, <2>1, <2>2 DEF Homes
<1>4. InOrder'
  <2>1. {j \in Jobs : job'[j].pc # "new"} = {j \in Jobs : job[j].pc # "new"}
    BY <1>1
  <2> QED
    BY <2>1 DEF QueueInv, InOrder, Submitted
<1>5. WaitMeansQuiet'
  BY DEF QueueInv, WaitMeansQuiet, InFlight
<1> QED
  BY <1>2, <1>3, <1>4, <1>5

\* A turn in flight, its queue and its replica belong together.
LEMMA InFlightPlace ==
  ASSUME QueueInv, NEW j \in Jobs, job[j].pc \in InFlight
  PROVE  /\ job[j].at \in Jobs /\ job[j].rep \in Replicas /\ reg[job[j].rep].up
         /\ job[job[j].at].pc # "new" /\ job[job[j].at].rep = job[j].rep
<1>0. Placed /\ Homes /\ TypeOK
  BY DEF QueueInv
<1>1. job[j].pc # "new"
  BY DEF InFlight
<1>2. job[j].at \in Jobs /\ job[j].rep \in Replicas /\ reg[job[j].rep].up
  BY <1>0, <1>1 DEF Placed
<1>3. job[j].at # None
  BY <1>0, <1>2, Constants
<1> QED
  BY <1>0, <1>2, <1>3 DEF Homes

\* A registry that gives a count back has one to give.
LEMMA CountedTurn ==
  ASSUME QueueInv, NEW j \in Jobs, job[j].pc \in DrivenPc \cup {"counted", "forget"}
  PROVE  /\ reg[job[j].rep].active = Cardinality(Counted(job[j].rep))
         /\ Cardinality(Counted(job[j].rep)) \in Nat \ {0}
         /\ Cardinality(Counted(job[j].rep) \ {j}) = Cardinality(Counted(job[j].rep)) - 1
<1>1. job[j].rep \in Replicas /\ reg[job[j].rep].up
  BY InFlightPlace DEF DrivenPc, InFlight
<1>2. Counted(job[j].rep) \in SUBSET Jobs /\ j \in Counted(job[j].rep)
  BY DEF Counted
<1>3. Cardinality(Counted(job[j].rep)) \in Nat /\ Cardinality(Counted(job[j].rep)) # 0
  BY <1>2, TurnsFinite, TurnsCount
<1>4. Cardinality(Counted(job[j].rep) \ {j}) = Cardinality(Counted(job[j].rep)) - 1
  BY <1>2, TurnsCount
<1> QED
  BY <1>1, <1>3, <1>4 DEF QueueInv, CountExact

\* The two places a registry is written by its turns.
LEMMA RegistryType ==
  ASSUME TypeOK, NEW r \in Replicas, NEW a \in Nat, NEW q \in Jobs \cup {None},
         reg' = [reg EXCEPT ![r].active = a, ![r].queue = q]
  PROVE  /\ reg' \in [Replicas -> Registry]
         /\ reg'[r].active = a /\ reg'[r].queue = q
         /\ reg'[r].up = reg[r].up /\ reg'[r].draining = reg[r].draining
         /\ reg'[r].waited = reg[r].waited
         /\ \A x \in Replicas \ {r} : reg'[x] = reg[x]
<1>1. reg[r] \in Registry /\ reg \in [Replicas -> Registry]
  BY DEF TypeOK
<1> DEFINE t == [reg[r] EXCEPT !.active = a, !.queue = q]
<1>2. reg' = [reg EXCEPT ![r] = t]
  BY <1>1 DEF Registry
<1>3. t \in Registry
  <2>1. [reg[r] EXCEPT !.active = a] \in Registry
    BY <1>1 DEF Registry
  <2> QED
    BY <2>1 DEF Registry
<1> QED
  BY <1>1, <1>2, <1>3 DEF Registry

\* What a list looks like after a turn joined it or left it.
LEMMA ListFacts ==
  ASSUME NEW S, NEW s \in Seq(S), NEW e \in S
  PROVE  /\ Append(s, e) \in Seq(S) /\ Len(Append(s, e)) = Len(s) + 1
         /\ DOMAIN Append(s, e) = DOMAIN s \cup {Len(s) + 1}
         /\ Append(s, e)[Len(s) + 1] = e
         /\ \A m \in DOMAIN s : Append(s, e)[m] = s[m] /\ s[m] \in S /\ m # Len(s) + 1
         /\ s # <<>> =>
              /\ Head(s) = s[1] /\ 1 \in DOMAIN s /\ Head(s) \in S
              /\ Tail(s) \in Seq(S) /\ Len(Tail(s)) = Len(s) - 1
              /\ \A m \in DOMAIN Tail(s) : m + 1 \in DOMAIN s /\ Tail(s)[m] = s[m + 1] /\ m + 1 # 1
              /\ \A m \in DOMAIN s \ {1} : m - 1 \in DOMAIN Tail(s) /\ Tail(s)[m - 1] = s[m]
OBVIOUS

\* One queue is written; the others are left alone.
LEMMA QueueType ==
  ASSUME TypeOK, NEW q \in Jobs, NEW run \in BOOLEAN, NEW s \in Seq(Jobs),
         Len(s) <= MaxQueued,
         queue' = [queue EXCEPT ![q] = [running |-> run, pending |-> s]]
  PROVE  /\ queue' \in [Jobs -> [running : BOOLEAN, pending : Seq(Jobs)]]
         /\ \A x \in Jobs : Len(queue'[x].pending) <= MaxQueued
         /\ queue'[q].running = run /\ queue'[q].pending = s
         /\ \A x \in Jobs \ {q} : queue'[x] = queue[x]
BY DEF TypeOK

\* A queue as a record of its two fields.
LEMMA QueueFields ==
  ASSUME TypeOK, NEW q \in Jobs
  PROVE  /\ queue[q].running \in BOOLEAN /\ queue[q].pending \in Seq(Jobs)
         /\ Len(queue[q].pending) <= MaxQueued
         /\ \A b \in BOOLEAN : [queue EXCEPT ![q].running = b]
              = [queue EXCEPT ![q] = [running |-> b, pending |-> queue[q].pending]]
         /\ \A s \in Seq(Jobs) : [queue EXCEPT ![q].pending = s]
              = [queue EXCEPT ![q] = [running |-> queue[q].running, pending |-> s]]
<1>1. /\ queue \in [Jobs -> [running : BOOLEAN, pending : Seq(Jobs)]]
      /\ Len(queue[q].pending) <= MaxQueued
  BY DEF TypeOK
<1>2. \A b \in BOOLEAN : [queue[q] EXCEPT !.running = b]
                         = [running |-> b, pending |-> queue[q].pending]
  BY <1>1
<1>3. \A s \in Seq(Jobs) : [queue[q] EXCEPT !.pending = s]
                           = [running |-> queue[q].running, pending |-> s]
  BY <1>1
<1> QED
  BY <1>1, <1>2, <1>3

\* Turns in flight keep their place, so a queue is still driven when its driver
\* goes on driving.
LEMMA DrivenPlace ==
  ASSUME QueueInv, NEW i \in Driven
  PROVE  i \in Jobs /\ job[i].at \in Jobs /\ queue[job[i].at].running
         /\ \A j \in Driven : job[i].at = job[j].at => i = j
BY InFlightPlace DEF Driven, InFlight, QueueInv, OneGoroutinePerQueue

\* A queue that says it is running was created by a turn of a known replica.
LEMMA RunningPlace ==
  ASSUME QueueInv, NEW x \in Jobs, queue[x].running
  PROVE  /\ job[x].pc # "new" /\ job[x].rep \in Replicas
         /\ reg[job[x].rep].up => \E i \in Driven : job[i].at = x
BY DEF QueueInv, RunningIsDriven, Placed

\* Goroutines are preserved where queues and drivers are.
LEMMA DrivenPreserves ==
  ASSUME QueueInv, StaysPut,
         NEW q \in Jobs,
         \A x \in Jobs \ {q} : queue'[x] = queue[x],
         \A i \in Jobs : job[i].at # q => (i \in Driven' <=> i \in Driven),
         queue'[q].pending # <<>> => queue'[q].running,
         queue'[q].running => job[q].pc # "new" /\ \E i \in Driven' : job[i].at = q,
         \A i, j \in Driven' : job[i].at = q =>
           queue'[q].running /\ (job[j].at = q => i = j)
  PROVE  RunningIsDriven' /\ OneGoroutinePerQueue'
<1>1. \A j \in Jobs : /\ job'[j].rep = job[j].rep /\ job'[j].at = job[j].at
                      /\ (job'[j].pc = "new") <=> (job[j].pc = "new")
  BY DEF StaysPut, InFlight
<1>2. \A r \in Replicas : reg'[r].up = reg[r].up
  BY DEF StaysPut
<1>3. Driven' \subseteq Jobs
  BY DEF Driven
<1>4. RunningIsDriven'
  <2> SUFFICES ASSUME NEW x \in Jobs
               PROVE  /\ queue'[x].pending # <<>> => queue'[x].running
                      /\ queue'[x].running =>
                           /\ job'[x].pc # "new"
                           /\ reg'[job'[x].rep].up => \E i \in Driven' : job'[i].at = x
    BY DEF RunningIsDriven
  <2>1. CASE x = q
    BY <1>1, <1>3, <2>1
  <2>2. CASE x # q
    <3>1. queue'[x].pending # <<>> => queue'[x].running
      BY <2>2 DEF QueueInv, RunningIsDriven
    <3>2. ASSUME queue'[x].running
          PROVE  job'[x].pc # "new" /\ (reg'[job'[x].rep].up => \E i \in Driven' : job'[i].at = x)
      <4>1. queue[x].running
        BY <2>2, <3>2
      <4>2. /\ job[x].pc # "new" /\ job[x].rep \in Replicas
            /\ reg[job[x].rep].up => \E i \in Driven : job[i].at = x
        BY <4>1, RunningPlace
      <4>3. \A i \in Driven : job[i].at = x => i \in Driven' /\ job'[i].at = x
        BY <1>1, <2>2 DEF Driven
      <4> QED
        BY <1>1, <1>2, <4>2, <4>3
    <3> QED
      BY <3>1, <3>2
  <2> QED
    BY <2>1, <2>2
<1>5. OneGoroutinePerQueue'
  <2> SUFFICES ASSUME NEW i \in Driven'
               PROVE  queue'[job'[i].at].running /\ \A j \in Driven' : job'[i].at = job'[j].at => i = j
    BY DEF OneGoroutinePerQueue
  <2>1. CASE job[i].at = q
    BY <1>1, <1>3, <2>1
  <2>2. CASE job[i].at # q
    <3>1. i \in Driven
      BY <1>3, <2>2
    <3>2. job[i].at \in Jobs /\ queue[job[i].at].running /\ \A j \in Driven : job[i].at = job[j].at => i = j
      BY <3>1, DrivenPlace
    <3>3. \A j \in Driven' : job[j].at = job[i].at => j \in Driven
      BY <1>3, <2>2
    <3> QED
      BY <1>1, <1>3, <2>2, <3>2, <3>3
  <2> QED
    BY <2>1, <2>2
<1> QED
  BY <1>4, <1>5

\* Lists are preserved where they are not written and their turns stay.
LEMMA PendingPreserves ==
  ASSUME QueueInv, StaysPut,
         NEW q \in Jobs,
         \A x \in Jobs \ {q} : queue'[x] = queue[x],
         \A i \in Jobs : job[i].at # q =>
           /\ job[i].pc \in {"queued", "dead"} => job'[i].pc = job[i].pc
           /\ job'[i].pc = "queued" => job[i].pc = "queued",
         \A m \in DOMAIN queue'[q].pending :
           /\ queue'[q].pending[m] \in Jobs
           /\ job[queue'[q].pending[m]].at = q
           /\ job'[queue'[q].pending[m]].pc \in {"queued", "dead"}
           /\ \A n \in DOMAIN queue'[q].pending :
                queue'[q].pending[m] = queue'[q].pending[n] => m = n,
         \A i \in Jobs : job[i].at = q /\ job'[i].pc = "queued" =>
           \E m \in DOMAIN queue'[q].pending : queue'[q].pending[m] = i
  PROVE  PendingIsQueued'
<1>1. \A j \in Jobs : job'[j].at = job[j].at
  BY DEF StaysPut
<1>2. ASSUME NEW x \in Jobs, NEW m \in DOMAIN queue'[x].pending
      PROVE  /\ job'[queue'[x].pending[m]].at = x
             /\ job'[queue'[x].pending[m]].pc \in {"queued", "dead"}
             /\ \A n \in DOMAIN queue'[x].pending :
                  queue'[x].pending[m] = queue'[x].pending[n] => m = n
  <2>1. CASE x = q
    BY <1>1, <1>2, <2>1
  <2>2. CASE x # q
    <3>1. queue'[x].pending = queue[x].pending
      BY <2>2
    <3>2. /\ queue[x].pending[m] \in Jobs
          /\ job[queue[x].pending[m]].at = x
          /\ job[queue[x].pending[m]].pc \in {"queued", "dead"}
          /\ \A n \in DOMAIN queue[x].pending :
               queue[x].pending[m] = queue[x].pending[n] => m = n
      BY <1>2, <3>1, PendingInJobs DEF QueueInv, PendingIsQueued
    <3> QED
      BY <1>1, <2>2, <3>1, <3>2
  <2> QED
    BY <2>1, <2>2
<1>3. ASSUME NEW i \in Jobs, job'[i].pc = "queued"
      PROVE  \E m \in DOMAIN queue'[job'[i].at].pending : queue'[job'[i].at].pending[m] = i
  <2>1. CASE job[i].at = q
    BY <1>1, <1>3, <2>1
  <2>2. CASE job[i].at # q
    <3>1. job[i].pc = "queued"
      BY <1>3, <2>2
    <3>2. job[i].at \in Jobs
      BY <3>1, InFlightPlace DEF InFlight
    <3>3. \E m \in DOMAIN queue[job[i].at].pending : queue[job[i].at].pending[m] = i
      BY <3>1 DEF QueueInv, PendingIsQueued
    <3>4. queue'[job[i].at] = queue[job[i].at] /\ job'[i].at = job[i].at
      BY <1>1, <2>2, <3>2
    <3> QED
      BY <3>3, <3>4
  <2> QED
    BY <2>1, <2>2
<1> QED
  BY <1>2, <1>3 DEF PendingIsQueued

\* What the list of a queue holds before the step.
LEMMA PendingTurn ==
  ASSUME QueueInv, NEW q \in Jobs, NEW m \in DOMAIN queue[q].pending
  PROVE  /\ queue[q].pending[m] \in Jobs
         /\ job[queue[q].pending[m]].at = q
         /\ job[queue[q].pending[m]].pc \in {"queued", "dead"}
         /\ \A n \in DOMAIN queue[q].pending :
              queue[q].pending[m] = queue[q].pending[n] => m = n
BY PendingInJobs DEF QueueInv, PendingIsQueued

\* A turn that has been counted joins a queue, is refused, or starts it.
LEMMA EnqueueStep ==
  ASSUME QueueInv, NEW j \in Jobs, Enqueue(j)
  PROVE  QueueInv'
<1>0. TypeOK
  BY DEF QueueInv
<1>1. PICK q \in Jobs, r \in Replicas :
        /\ q = job[j].at /\ r = job[j].rep /\ reg[r].up
        /\ job[q].pc # "new" /\ job[q].rep = r
  BY InFlightPlace DEF Enqueue, InFlight
<1>2. PICK p \in {"done", "queued", "start"} : Moved(j, p)
  BY DEF Enqueue
<1>a. /\ job[j].pc = "counted"
      /\ job' \in [Jobs -> Turn] /\ job'[j].rep = r /\ job'[j].at = q /\ job'[j].pc = p
      /\ \A i \in Jobs \ {j} : job'[i] = job[i]
  BY <1>0, <1>1, <1>2, MovedTurn DEF Enqueue, Pcs
<1>3. \/ queue[q].running /\ Full(q) /\ p = "done" /\ queue' = queue
      \/ /\ queue[q].running /\ ~Full(q) /\ p = "queued"
         /\ queue' = [queue EXCEPT ![q].pending = Append(queue[q].pending, j)]
      \/ /\ ~queue[q].running /\ p = "start"
         /\ queue' = [queue EXCEPT ![q].running = TRUE]
  BY <1>0, <1>1, <1>a, MovedTurn DEF Enqueue, Pcs
<1>4. reg[r].active \in Nat \ {0}
  BY <1>1, <1>a, CountedTurn
<1>5. PICK a \in Nat : a = IF queue[q].running THEN reg[r].active - 1 ELSE reg[r].active
  BY <1>4
<1>6. reg' = [reg EXCEPT ![r].active = a]
  BY <1>1, <1>5 DEF Enqueue, CountAfter
<1>7. /\ reg' \in [Replicas -> Registry] /\ reg'[r].active = a
      /\ reg'[r].up = reg[r].up /\ reg'[r].queue = reg[r].queue
      /\ reg'[r].draining = reg[r].draining /\ reg'[r].waited = reg[r].waited
      /\ \A x \in Replicas \ {r} : reg'[x] = reg[x]
  <2> DEFINE t == [reg[r] EXCEPT !.active = a]
  <2>1. reg[r] \in Registry /\ reg \in [Replicas -> Registry]
    BY <1>0, <1>1 DEF TypeOK
  <2>2. reg' = [reg EXCEPT ![r] = t]
    BY <1>6
  <2>3. /\ t \in Registry /\ t.active = a /\ t.up = reg[r].up /\ t.queue = reg[r].queue
        /\ t.draining = reg[r].draining /\ t.waited = reg[r].waited
    BY <2>1, <1>5 DEF Registry
  <2> HIDE DEF t
  <2> QED
    BY <2>1, <2>2, <2>3, <1>1
<1>8. StaysPut
  <2>1. \A x \in Replicas : /\ reg'[x].up = reg[x].up /\ reg'[x].waited = reg[x].waited
                            /\ reg'[x].queue = reg[x].queue
                            /\ reg'[x].draining = reg[x].draining
    BY <1>7
  <2>2. \A i \in Jobs :
          /\ job'[i].rep = job[i].rep /\ job'[i].at = job[i].at
          /\ \/ job'[i].pc = job[i].pc
             \/ job[i].pc \in InFlight /\ job'[i].pc \in InFlight \cup {"done"}
    BY <1>1, <1>2, <1>a DEF InFlight
  <2> QED
    BY <2>1, <2>2 DEF StaysPut
<1>9. Placed' /\ Homes' /\ InOrder' /\ WaitMeansQuiet'
  BY <1>8, StaysPutPreserves
<1>10. CountExact'
  <2>1. \A x \in Replicas \ {r} : Counted(x)' = Counted(x)
    BY <1>1, <1>2, <1>a DEF Counted
  <2>2. a = Cardinality(Counted(r)')
    <3>1. CASE queue[q].running
      <4>1. Counted(r)' = Counted(r) \ {j}
        BY <1>1, <1>2, <1>a, <1>3, <3>1 DEF Counted, DrivenPc
      <4>2. Cardinality(Counted(r) \ {j}) = reg[r].active - 1
        BY <1>1, <1>a, CountedTurn
      <4> QED
        BY <1>5, <3>1, <4>1, <4>2
    <3>2. CASE ~queue[q].running
      <4>1. Counted(r)' = Counted(r)
        BY <1>1, <1>2, <1>a, <1>3, <3>2 DEF Counted, DrivenPc
      <4>2. Cardinality(Counted(r)) = reg[r].active
        BY <1>1, <1>a, CountedTurn
      <4> QED
        BY <1>5, <3>2, <4>1, <4>2
    <3> QED
      BY <3>1, <3>2
  <2>3. CountExact
    BY DEF QueueInv
  <2>4. ASSUME NEW x \in Replicas
        PROVE  /\ reg'[x].up => reg'[x].active = Cardinality(Counted(x)')
               /\ reg'[x].waited => reg'[x].draining
    <3>1. CASE x = r
      BY <1>7, <2>2, <2>3, <3>1 DEF CountExact
    <3>2. CASE x # r
      BY <1>7, <2>1, <2>3, <3>2 DEF CountExact
    <3> QED
      BY <3>1, <3>2
  <2> QED
    BY <2>4 DEF CountExact
<1>11. /\ queue[q].running \in BOOLEAN /\ queue[q].pending \in Seq(Jobs)
       /\ Len(queue[q].pending) <= MaxQueued /\ MaxQueued \in Nat
  BY <1>0, <1>1, QueueFields, Constants
<1>12. \E run \in BOOLEAN, s \in Seq(Jobs) :
         /\ Len(s) <= MaxQueued
         /\ queue' = [queue EXCEPT ![q] = [running |-> run, pending |-> s]]
         /\ \/ run /\ s = queue[q].pending /\ queue[q].running /\ p = "done"
            \/ run /\ s = Append(queue[q].pending, j) /\ queue[q].running /\ p = "queued"
            \/ run /\ s = queue[q].pending /\ ~queue[q].running /\ p = "start"
  <2>1. CASE queue[q].running /\ Full(q)
    <3>1. queue' = [queue EXCEPT ![q] = [running |-> TRUE, pending |-> queue[q].pending]]
      BY <1>0, <1>1, <1>3, <2>1 DEF TypeOK
    <3> QED
      BY <1>3, <1>11, <2>1, <3>1
  <2>2. CASE queue[q].running /\ ~Full(q)
    <3> DEFINE s == Append(queue[q].pending, j)
    <3>1. s \in Seq(Jobs) /\ Len(s) <= MaxQueued
      BY <1>11, <2>2, ListFacts DEF Full
    <3>2. queue' = [queue EXCEPT ![q] = [running |-> queue[q].running, pending |-> s]]
      BY <1>0, <1>1, <1>3, <2>2, <3>1, QueueFields
    <3>3. queue[q].running = TRUE
      BY <1>11, <2>2
    <3> QED
      BY <1>3, <2>2, <3>1, <3>2, <3>3
  <2>3. CASE ~queue[q].running
    <3>1. queue' = [queue EXCEPT ![q] = [running |-> TRUE, pending |-> queue[q].pending]]
      BY <1>0, <1>1, <1>3, <2>3, QueueFields
    <3> QED
      BY <1>3, <1>11, <2>3, <3>1
  <2> QED
    BY <2>1, <2>2, <2>3
<1>13. PICK run \in BOOLEAN, s \in Seq(Jobs) :
         /\ Len(s) <= MaxQueued
         /\ queue' = [queue EXCEPT ![q] = [running |-> run, pending |-> s]]
         /\ \/ run /\ s = queue[q].pending /\ queue[q].running /\ p = "done"
            \/ run /\ s = Append(queue[q].pending, j) /\ queue[q].running /\ p = "queued"
            \/ run /\ s = queue[q].pending /\ ~queue[q].running /\ p = "start"
  BY <1>12
<1>14. /\ queue' \in [Jobs -> [running : BOOLEAN, pending : Seq(Jobs)]]
       /\ \A x \in Jobs : Len(queue'[x].pending) <= MaxQueued
       /\ queue'[q].running = run /\ queue'[q].pending = s
       /\ \A x \in Jobs \ {q} : queue'[x] = queue[x]
  BY <1>0, <1>1, <1>13, QueueType
<1>15. TypeOK'
  <2>1. UNCHANGED <<scn, redis, conv, lost, faults>>
    BY DEF Enqueue
  <2> QED
    BY <1>0, <1>2, <1>a, <1>7, <1>14, <2>1 DEF TypeOK
<1>16. Driven' = IF p = "start" THEN Driven \cup {j} ELSE Driven
  BY <1>1, <1>2, <1>a DEF Driven
<1>17. RunningIsDriven' /\ OneGoroutinePerQueue'
  <2>1. queue[q].running => \E i \in Driven : job[i].at = q
    BY <1>1, RunningPlace
  <2>2. run
    BY <1>13
  <2>3. ~queue[q].running => \A i \in Driven : job[i].at # q
    BY DrivenPlace
  <2>4. p = "start" <=> ~queue[q].running
    BY <1>13
  <2>5. \A i \in Jobs : job[i].at # q => (i \in Driven' <=> i \in Driven)
    BY <1>1, <1>16
  <2>6. \E i \in Driven' : job[i].at = q
    BY <1>1, <1>16, <2>1, <2>4
  <2>7. \A i, k \in Driven' : job[i].at = q /\ job[k].at = q => i = k
    <3>1. CASE p = "start"
      BY <1>16, <2>3, <2>4, <3>1
    <3>2. CASE p # "start"
      BY <1>16, <3>2, DrivenPlace
    <3> QED
      BY <3>1, <3>2
  <2> QED
    BY <1>1, <1>8, <1>14, <2>2, <2>5, <2>6, <2>7, DrivenPreserves
<1>18. PendingIsQueued'
  <2>1. \A m \in DOMAIN queue[q].pending :
          /\ queue[q].pending[m] \in Jobs \ {j}
          /\ job[queue[q].pending[m]].at = q
          /\ job'[queue[q].pending[m]].pc \in {"queued", "dead"}
          /\ \A n \in DOMAIN queue[q].pending :
               queue[q].pending[m] = queue[q].pending[n] => m = n
    BY <1>1, <1>a, PendingTurn
  <2>2. \A i \in Jobs \ {j} : job[i].at = q /\ job'[i].pc = "queued" =>
          \E m \in DOMAIN queue[q].pending : queue[q].pending[m] = i
    BY <1>2, <1>a DEF QueueInv, PendingIsQueued
  <2>3. \A i \in Jobs : job[i].at # q => job'[i].pc = job[i].pc
    BY <1>1, <1>2, <1>a
  <2>4. /\ \A m \in DOMAIN s :
             /\ s[m] \in Jobs /\ job[s[m]].at = q
             /\ job'[s[m]].pc \in {"queued", "dead"}
             /\ \A n \in DOMAIN s : s[m] = s[n] => m = n
        /\ \A i \in Jobs : job[i].at = q /\ job'[i].pc = "queued" =>
             \E m \in DOMAIN s : s[m] = i
    <3>1. CASE s = queue[q].pending /\ p # "queued"
      BY <1>2, <1>a, <2>1, <2>2, <3>1
    <3>2. CASE s = Append(queue[q].pending, j) /\ p = "queued"
      <4>1. /\ DOMAIN s = DOMAIN queue[q].pending \cup {Len(queue[q].pending) + 1}
            /\ s[Len(queue[q].pending) + 1] = j
            /\ \A m \in DOMAIN queue[q].pending : s[m] = queue[q].pending[m]
                                                  /\ m # Len(queue[q].pending) + 1
        BY <1>11, <3>2, ListFacts
      <4>2. ASSUME NEW m \in DOMAIN s
            PROVE  /\ s[m] \in Jobs /\ job[s[m]].at = q
                   /\ job'[s[m]].pc \in {"queued", "dead"}
                   /\ \A n \in DOMAIN s : s[m] = s[n] => m = n
        <5>1. CASE m = Len(queue[q].pending) + 1
          BY <1>1, <1>a, <2>1, <3>2, <4>1, <5>1
        <5>2. CASE m \in DOMAIN queue[q].pending
          <6>1. s[m] = queue[q].pending[m]
            BY <4>1, <5>2
          <6>2. \A n \in DOMAIN s : s[m] = s[n] => m = n
            BY <2>1, <4>1, <5>2
          <6> QED
            BY <2>1, <5>2, <6>1, <6>2
        <5> QED
          BY <4>1, <4>2, <5>1, <5>2
      <4>3. \A i \in Jobs : job[i].at = q /\ job'[i].pc = "queued" =>
              \E m \in DOMAIN s : s[m] = i
        BY <2>2, <4>1
      <4> QED
        BY <4>2, <4>3
    <3> QED
      BY <1>13, <3>1, <3>2
  <2>5. queue'[q].pending = s
    BY <1>14
  <2>6. \A m \in DOMAIN queue'[q].pending :
           /\ queue'[q].pending[m] \in Jobs
           /\ job[queue'[q].pending[m]].at = q
           /\ job'[queue'[q].pending[m]].pc \in {"queued", "dead"}
           /\ \A n \in DOMAIN queue'[q].pending :
                queue'[q].pending[m] = queue'[q].pending[n] => m = n
    BY <2>4, <2>5
  <2>7. \A i \in Jobs : job[i].at = q /\ job'[i].pc = "queued" =>
           \E m \in DOMAIN queue'[q].pending : queue'[q].pending[m] = i
    BY <2>4, <2>5
  <2>8. \A i \in Jobs : job[i].at # q =>
           /\ job[i].pc \in {"queued", "dead"} => job'[i].pc = job[i].pc
           /\ job'[i].pc = "queued" => job[i].pc = "queued"
    BY <2>3
  <2> QED
    BY <1>8, <1>14, <2>6, <2>7, <2>8, PendingPreserves
<1> QED
  BY <1>9, <1>10, <1>15, <1>17, <1>18 DEF QueueInv

\* A registry that no step writes keeps counting exactly, if the turns it counts
\* are as many.
LEMMA CountKept ==
  ASSUME QueueInv, reg' = reg,
         \A r \in Replicas : reg[r].up => Cardinality(Counted(r)') = Cardinality(Counted(r))
  PROVE  CountExact'
BY DEF QueueInv, CountExact

\* The goroutine leaves an empty queue idle.
LEMMA DrainIdle ==
  ASSUME QueueInv, NEW j \in Jobs, DrainNext(j), queue[job[j].at].pending = <<>>
  PROVE  QueueInv'
<1>0. TypeOK
  BY DEF QueueInv
<1>1. PICK q \in Jobs, r \in Replicas :
        /\ q = job[j].at /\ r = job[j].rep /\ reg[r].up
        /\ job[q].pc # "new" /\ job[q].rep = r
  BY InFlightPlace DEF DrainNext, InFlight
<1>2. /\ job[j].pc = "closed" /\ queue[q].pending = <<>>
      /\ queue' = [queue EXCEPT ![q].running = FALSE] /\ Moved(j, "forget")
      /\ UNCHANGED <<scn, reg, redis, conv, lost, faults>>
  BY <1>1 DEF DrainNext
<1>3. /\ job' \in [Jobs -> Turn] /\ job'[j].rep = r /\ job'[j].at = q
      /\ job'[j].pc = "forget" /\ \A i \in Jobs \ {j} : job'[i] = job[i]
  BY <1>0, <1>1, <1>2, MovedTurn DEF Pcs
<1>4. /\ queue' \in [Jobs -> [running : BOOLEAN, pending : Seq(Jobs)]]
      /\ \A x \in Jobs : Len(queue'[x].pending) <= MaxQueued
      /\ queue'[q].running = FALSE /\ queue'[q].pending = <<>>
      /\ \A x \in Jobs \ {q} : queue'[x] = queue[x]
  <2>1. queue' = [queue EXCEPT ![q] = [running |-> FALSE, pending |-> queue[q].pending]]
    BY <1>0, <1>2, QueueFields
  <2>2. queue[q].pending \in Seq(Jobs) /\ Len(queue[q].pending) <= MaxQueued
    BY <1>0, QueueFields
  <2> QED
    BY <1>0, <1>2, <2>1, <2>2, QueueType
<1>5. StaysPut
  <2>1. \A i \in Jobs :
          /\ job'[i].rep = job[i].rep /\ job'[i].at = job[i].at
          /\ \/ job'[i].pc = job[i].pc
             \/ job[i].pc \in InFlight /\ job'[i].pc \in InFlight \cup {"done"}
    BY <1>1, <1>2, <1>3 DEF InFlight
  <2> QED
    BY <1>2, <2>1 DEF StaysPut
<1>6. Placed' /\ Homes' /\ InOrder' /\ WaitMeansQuiet'
  BY <1>5, StaysPutPreserves
<1>7. CountExact'
  <2>1. \A x \in Replicas : Counted(x)' = Counted(x)
    BY <1>1, <1>2, <1>3 DEF Counted, DrivenPc
  <2> QED
    BY <1>2, <2>1, CountKept
<1>8. TypeOK'
  BY <1>0, <1>2, <1>3, <1>4 DEF TypeOK
<1>9. Driven' = Driven \ {j} /\ j \in Driven
  BY <1>1, <1>2, <1>3 DEF Driven
<1>10. RunningIsDriven' /\ OneGoroutinePerQueue'
  <2>1. \A i \in Driven' : job[i].at # q
    BY <1>1, <1>9, DrivenPlace
  <2>2. \A i \in Jobs : job[i].at # q => (i \in Driven' <=> i \in Driven)
    BY <1>1, <1>9
  <2> QED
    BY <1>4, <1>5, <2>1, <2>2, DrivenPreserves
<1>11. PendingIsQueued'
  <2>1. \A i \in Jobs : /\ job[i].pc \in {"queued", "dead"} => job'[i].pc = job[i].pc
                        /\ job'[i].pc = "queued" => job[i].pc = "queued"
    BY <1>2, <1>3
  <2>2. \A i \in Jobs : job[i].at = q => job'[i].pc # "queued"
    BY <1>2, <2>1 DEF QueueInv, PendingIsQueued
  <2>3. \A m \in DOMAIN queue'[q].pending : FALSE
    BY <1>4
  <2>4. \A m \in DOMAIN queue'[q].pending :
           /\ queue'[q].pending[m] \in Jobs
           /\ job[queue'[q].pending[m]].at = q
           /\ job'[queue'[q].pending[m]].pc \in {"queued", "dead"}
           /\ \A n \in DOMAIN queue'[q].pending :
                queue'[q].pending[m] = queue'[q].pending[n] => m = n
    BY <2>3
  <2>5. \A i \in Jobs : job[i].at = q /\ job'[i].pc = "queued" =>
           \E m \in DOMAIN queue'[q].pending : queue'[q].pending[m] = i
    BY <2>2
  <2>6. \A i \in Jobs : job[i].at # q =>
           /\ job[i].pc \in {"queued", "dead"} => job'[i].pc = job[i].pc
           /\ job'[i].pc = "queued" => job[i].pc = "queued"
    BY <2>1
  <2> QED
    BY <1>4, <1>5, <2>4, <2>5, <2>6, PendingPreserves
<1> QED
  BY <1>6, <1>7, <1>8, <1>10, <1>11 DEF QueueInv

\* The turn at the head of a list was queued on the replica of the goroutine that
\* takes it, so that replica has not crashed and the turn is not dead.
LEMMA TakenTurn ==
  ASSUME QueueInv, NEW j \in Jobs, DrainNext(j), NEW q \in Jobs, q = job[j].at,
         NEW s \in Seq(Jobs), s = queue[q].pending, s # <<>>,
         NEW h \in Jobs, h = Head(s)
  PROVE  /\ job[h].at = q /\ job[h].rep = job[j].rep /\ job[h].pc = "queued" /\ h # j
         /\ job' \in [Jobs -> Turn]
         /\ job'[j].rep = job[j].rep /\ job'[j].at = q /\ job'[j].pc = "done"
         /\ job'[h].rep = job[h].rep /\ job'[h].at = q /\ job'[h].pc = "start"
         /\ job'[j].fence = job[j].fence /\ job'[h].fence = job[h].fence
         /\ \A i \in Jobs \ {j, h} : job'[i] = job[i]
<1>0. TypeOK
  BY DEF QueueInv
<1>1. /\ job[j].pc = "closed" /\ job[j].rep \in Replicas /\ reg[job[j].rep].up
      /\ job[q].rep = job[j].rep
      /\ job' = [job EXCEPT ![j].pc = "done", ![h].pc = "start"]
  BY InFlightPlace DEF DrainNext, InFlight
<1>2. 1 \in DOMAIN s /\ s[1] = h
  BY ListFacts
<1>3. job[h].at = q /\ job[h].pc \in {"queued", "dead"}
  BY <1>2, PendingTurn
<1>4. job[h].rep = job[j].rep
  <2>1. job[h].at # None /\ job[h].at = q
    BY <1>0, <1>3, Constants
  <2>2. job[job[h].at].rep = job[h].rep
    BY <2>1 DEF QueueInv, Homes
  <2> QED
    BY <1>1, <2>1, <2>2
<1>5. job[h].pc = "queued" /\ h # j
  BY <1>1, <1>3, <1>4 DEF QueueInv, Placed
<1> DEFINE tj == [job[j] EXCEPT !.pc = "done"]
           th == [job[h] EXCEPT !.pc = "start"]
<1>6. job[j] \in Turn /\ job[h] \in Turn /\ job \in [Jobs -> Turn]
  BY <1>0 DEF TypeOK
<1>7. /\ tj \in Turn /\ tj.pc = "done" /\ tj.rep = job[j].rep /\ tj.at = q /\ tj.fence = job[j].fence
      /\ th \in Turn /\ th.pc = "start" /\ th.rep = job[h].rep /\ th.at = q /\ th.fence = job[h].fence
  BY <1>3, <1>6 DEF Turn, Pcs
<1>8. job' = [job EXCEPT ![j] = tj, ![h] = th]
  BY <1>1, <1>5, <1>6
<1> HIDE DEF tj, th
<1> QED
  BY <1>3, <1>4, <1>5, <1>6, <1>7, <1>8

\* The goroutine takes the next turn of its list.
LEMMA DrainTakes ==
  ASSUME QueueInv, NEW j \in Jobs, DrainNext(j), queue[job[j].at].pending # <<>>
  PROVE  QueueInv'
<1>0. TypeOK
  BY DEF QueueInv
<1>1. PICK q \in Jobs, r \in Replicas :
        /\ q = job[j].at /\ r = job[j].rep /\ reg[r].up
        /\ job[q].pc # "new" /\ job[q].rep = r
  BY InFlightPlace DEF DrainNext, InFlight
<1>2. PICK s \in Seq(Jobs) : s = queue[q].pending
  BY <1>0, QueueFields
<1>3. PICK h \in Jobs : h = Head(s) /\ s[1] = h /\ 1 \in DOMAIN s
  BY <1>1, <1>2, ListFacts
<1>4. /\ job[j].pc = "closed" /\ s # <<>>
      /\ queue' = [queue EXCEPT ![q].pending = Tail(s)]
      /\ job' = [job EXCEPT ![j].pc = "done", ![h].pc = "start"]
      /\ UNCHANGED <<scn, reg, redis, conv, lost, faults>>
  BY <1>1, <1>2, <1>3 DEF DrainNext
<1>5. /\ Tail(s) \in Seq(Jobs) /\ Len(Tail(s)) <= MaxQueued
      /\ \A m \in DOMAIN Tail(s) : m + 1 \in DOMAIN s /\ Tail(s)[m] = s[m + 1] /\ m + 1 # 1
      /\ \A m \in DOMAIN s \ {1} : m - 1 \in DOMAIN Tail(s) /\ Tail(s)[m - 1] = s[m]
  <2>1. Len(s) <= MaxQueued /\ MaxQueued \in Nat
    BY <1>0, <1>2, QueueFields, Constants
  <2> QED
    BY <1>3, <1>4, <2>1, ListFacts
<1>6. \A m \in DOMAIN s : /\ s[m] \in Jobs /\ job[s[m]].at = q
                          /\ job[s[m]].pc \in {"queued", "dead"}
                          /\ \A n \in DOMAIN s : s[m] = s[n] => m = n
  BY <1>2, PendingTurn
<1>a. /\ job[h].at = q /\ job[h].rep = job[j].rep /\ job[h].pc = "queued" /\ h # j
      /\ job' \in [Jobs -> Turn]
      /\ job'[j].rep = job[j].rep /\ job'[j].at = q /\ job'[j].pc = "done"
      /\ job'[h].rep = job[h].rep /\ job'[h].at = q /\ job'[h].pc = "start"
      /\ \A i \in Jobs \ {j, h} : job'[i] = job[i]
  <2>1. q = job[j].at /\ s = queue[q].pending /\ s # <<>> /\ h = Head(s)
    BY <1>1, <1>2, <1>3, <1>4
  <2> QED
    BY <2>1, TakenTurn
<1>7. job[h].at = q /\ job[h].rep = r /\ job[h].pc = "queued" /\ h # j
  BY <1>1, <1>a
<1>8. /\ job' \in [Jobs -> Turn]
      /\ job'[j].rep = r /\ job'[j].at = q /\ job'[j].pc = "done"
      /\ job'[h].rep = r /\ job'[h].at = q /\ job'[h].pc = "start"
      /\ \A i \in Jobs \ {j, h} : job'[i] = job[i]
  BY <1>1, <1>a
<1>9. /\ queue' \in [Jobs -> [running : BOOLEAN, pending : Seq(Jobs)]]
      /\ \A x \in Jobs : Len(queue'[x].pending) <= MaxQueued
      /\ queue'[q].running = queue[q].running /\ queue'[q].pending = Tail(s)
      /\ \A x \in Jobs \ {q} : queue'[x] = queue[x]
  <2>1. queue' = [queue EXCEPT ![q] = [running |-> queue[q].running, pending |-> Tail(s)]]
    BY <1>0, <1>4, <1>5, QueueFields
  <2>2. queue[q].running \in BOOLEAN
    BY <1>0, QueueFields
  <2> QED
    BY <1>0, <1>5, <2>1, <2>2, QueueType
<1>10. StaysPut
  <2>1. \A i \in Jobs :
          /\ job'[i].rep = job[i].rep /\ job'[i].at = job[i].at
          /\ \/ job'[i].pc = job[i].pc
             \/ job[i].pc \in InFlight /\ job'[i].pc \in InFlight \cup {"done"}
    BY <1>1, <1>4, <1>7, <1>8 DEF InFlight
  <2> QED
    BY <1>4, <2>1 DEF StaysPut
<1>11. Placed' /\ Homes' /\ InOrder' /\ WaitMeansQuiet'
  BY <1>10, StaysPutPreserves
<1>12. CountExact'
  <2>1. \A x \in Replicas \ {r} : Counted(x)' = Counted(x)
    BY <1>1, <1>7, <1>8 DEF Counted
  <2>2. Counted(r)' = (Counted(r) \ {j}) \cup {h}
    BY <1>1, <1>4, <1>7, <1>8 DEF Counted, DrivenPc
  <2>3. Counted(r) \in SUBSET Jobs /\ j \in Counted(r) /\ h \notin Counted(r)
    BY <1>1, <1>4, <1>7 DEF Counted, DrivenPc
  <2>4. Cardinality(Counted(r)) \in Nat
        /\ Cardinality(Counted(r) \ {j}) = Cardinality(Counted(r)) - 1
    BY <2>3, TurnsFinite, TurnsCount
  <2>5. (Counted(r) \ {j}) \in SUBSET Jobs /\ h \notin (Counted(r) \ {j})
    BY <2>3
  <2>6. Cardinality((Counted(r) \ {j}) \cup {h}) = Cardinality(Counted(r) \ {j}) + 1
    BY <2>5, TurnsCount
  <2>7. Cardinality(Counted(r)') = Cardinality(Counted(r))
    BY <2>2, <2>4, <2>6
  <2>8. \A x \in Replicas : Cardinality(Counted(x)') = Cardinality(Counted(x))
    BY <2>1, <2>7
  <2> QED
    BY <1>4, <2>8, CountKept
<1>13. TypeOK'
  BY <1>0, <1>4, <1>8, <1>9 DEF TypeOK
<1>14. Driven' = (Driven \ {j}) \cup {h} /\ j \in Driven /\ h \notin Driven
  BY <1>1, <1>4, <1>7, <1>8 DEF Driven
<1>15. RunningIsDriven' /\ OneGoroutinePerQueue'
  <2>1. \A i \in Driven : job[i].at = q => i = j
    BY <1>1, <1>14, DrivenPlace
  <2>2. queue[q].running
    BY <1>1, <1>14, DrivenPlace
  <2>3. \A i \in Driven' : job[i].at = q => i = h
    BY <1>14, <2>1
  <2>4. \A i \in Jobs : job[i].at # q => (i \in Driven' <=> i \in Driven)
    BY <1>1, <1>7, <1>14
  <2>5. queue'[q].running /\ h \in Driven'
    BY <1>9, <1>14, <2>2
  <2>6. queue'[q].running => job[q].pc # "new" /\ \E i \in Driven' : job[i].at = q
    BY <1>1, <1>7, <2>5
  <2>7. \A i, k \in Driven' : job[i].at = q =>
           queue'[q].running /\ (job[k].at = q => i = k)
    BY <2>3, <2>5
  <2> QED
    BY <1>9, <1>10, <2>4, <2>5, <2>6, <2>7, DrivenPreserves
<1>16. PendingIsQueued'
  <2>1. \A m \in DOMAIN Tail(s) :
          /\ Tail(s)[m] \in Jobs /\ job[Tail(s)[m]].at = q
          /\ job'[Tail(s)[m]].pc \in {"queued", "dead"}
          /\ \A n \in DOMAIN Tail(s) : Tail(s)[m] = Tail(s)[n] => m = n
    <3> SUFFICES ASSUME NEW m \in DOMAIN Tail(s)
                 PROVE  /\ Tail(s)[m] \in Jobs /\ job[Tail(s)[m]].at = q
                        /\ job'[Tail(s)[m]].pc \in {"queued", "dead"}
                        /\ \A n \in DOMAIN Tail(s) : Tail(s)[m] = Tail(s)[n] => m = n
      OBVIOUS
    <3>1. m + 1 \in DOMAIN s /\ Tail(s)[m] = s[m + 1] /\ m + 1 # 1
      BY <1>5
    <3>2. s[m + 1] # h /\ s[m + 1] # j
      BY <1>3, <1>4, <1>6, <3>1
    <3>3. \A n \in DOMAIN Tail(s) : Tail(s)[m] = Tail(s)[n] => m = n
      <4>1. \A n \in DOMAIN Tail(s) : Tail(s)[m] = Tail(s)[n] => m + 1 = n + 1
        BY <1>5, <1>6, <3>1
      <4>2. DOMAIN Tail(s) \subseteq Int
        BY <1>5
      <4> QED
        BY <4>1, <4>2
    <3> QED
      BY <1>6, <1>8, <3>1, <3>2, <3>3
  <2>2. \A i \in Jobs : job[i].at = q /\ job'[i].pc = "queued" =>
          \E m \in DOMAIN Tail(s) : Tail(s)[m] = i
    <3> SUFFICES ASSUME NEW i \in Jobs, job[i].at = q, job'[i].pc = "queued"
                 PROVE  \E m \in DOMAIN Tail(s) : Tail(s)[m] = i
      OBVIOUS
    <3>1. i # h /\ job[i].pc = "queued"
      BY <1>8
    <3>2. PICK m \in DOMAIN s : s[m] = i
      BY <1>2, <3>1 DEF QueueInv, PendingIsQueued
    <3>3. m # 1
      BY <1>3, <3>1, <3>2
    <3> QED
      BY <1>5, <3>2, <3>3
  <2>3. queue'[q].pending = Tail(s)
    BY <1>9
  <2>4. \A m \in DOMAIN queue'[q].pending :
           /\ queue'[q].pending[m] \in Jobs
           /\ job[queue'[q].pending[m]].at = q
           /\ job'[queue'[q].pending[m]].pc \in {"queued", "dead"}
           /\ \A n \in DOMAIN queue'[q].pending :
                queue'[q].pending[m] = queue'[q].pending[n] => m = n
    BY <2>1, <2>3
  <2>5. \A i \in Jobs : job[i].at = q /\ job'[i].pc = "queued" =>
           \E m \in DOMAIN queue'[q].pending : queue'[q].pending[m] = i
    BY <2>2, <2>3
  <2>6. \A i \in Jobs : job[i].at # q =>
           /\ job[i].pc \in {"queued", "dead"} => job'[i].pc = job[i].pc
           /\ job'[i].pc = "queued" => job[i].pc = "queued"
    BY <1>1, <1>7, <1>8
  <2> QED
    BY <1>9, <1>10, <2>4, <2>5, <2>6, PendingPreserves
<1> QED
  BY <1>11, <1>12, <1>13, <1>15, <1>16 DEF QueueInv

\* Turns and lists that stay as they are keep lists and goroutines right, also
\* for a turn that was no goroutine's and is not queued.
LEMMA QueuesKept ==
  ASSUME QueueInv, StaysPut, queue' = queue, Driven' = Driven,
         \A i \in Jobs : /\ job[i].pc \in {"queued", "dead"} => job'[i].pc = job[i].pc
                         /\ job'[i].pc = "queued" => job[i].pc = "queued"
  PROVE  PendingIsQueued' /\ RunningIsDriven' /\ OneGoroutinePerQueue'
<1>1. \A j \in Jobs : /\ job'[j].rep = job[j].rep /\ job'[j].at = job[j].at
                      /\ (job'[j].pc = "new") <=> (job[j].pc = "new")
  BY DEF StaysPut, InFlight
<1>2. PendingIsQueued'
  <2>1. \A q \in Jobs : \A m \in DOMAIN queue[q].pending :
           /\ job'[queue[q].pending[m]].at = q
           /\ job'[queue[q].pending[m]].pc \in {"queued", "dead"}
           /\ \A n \in DOMAIN queue[q].pending :
                queue[q].pending[m] = queue[q].pending[n] => m = n
    BY <1>1, PendingTurn
  <2>2. \A i \in Jobs : job'[i].pc = "queued" =>
           \E m \in DOMAIN queue[job'[i].at].pending : queue[job'[i].at].pending[m] = i
    BY <1>1 DEF QueueInv, PendingIsQueued
  <2> QED
    BY <2>1, <2>2 DEF PendingIsQueued
<1>3. RunningIsDriven'
  <2>1. \A q \in Jobs : queue[q].pending # <<>> => queue[q].running
    BY DEF QueueInv, RunningIsDriven
  <2>2. ASSUME NEW q \in Jobs, queue[q].running
        PROVE  job'[q].pc # "new" /\ (reg'[job'[q].rep].up => \E i \in Driven : job'[i].at = q)
    <3>1. /\ job[q].pc # "new" /\ job[q].rep \in Replicas
          /\ reg[job[q].rep].up => \E i \in Driven : job[i].at = q
      BY <2>2, RunningPlace
    <3>2. reg'[job[q].rep].up = reg[job[q].rep].up
      BY <3>1 DEF StaysPut
    <3> QED
      BY <1>1, <3>1, <3>2 DEF Driven
  <2> QED
    BY <2>1, <2>2 DEF RunningIsDriven
<1>4. OneGoroutinePerQueue'
  BY <1>1, DrivenPlace DEF OneGoroutinePerQueue
<1> QED
  BY <1>2, <1>3, <1>4

\* The goroutine gives back its count.
LEMMA ForgetStep ==
  ASSUME QueueInv, NEW j \in Jobs, Forget(j)
  PROVE  QueueInv'
<1>0. TypeOK
  BY DEF QueueInv
<1>1. PICK q \in Jobs, r \in Replicas : q = job[j].at /\ r = job[j].rep /\ reg[r].up
  BY InFlightPlace DEF Forget, InFlight
<1>2. /\ job[j].pc = "forget" /\ Moved(j, "done")
      /\ UNCHANGED <<scn, queue, redis, conv, lost, faults>>
  BY DEF Forget
<1>3. reg[r].active \in Nat \ {0}
      /\ reg[r].active - 1 = Cardinality(Counted(r) \ {j})
  BY <1>1, <1>2, CountedTurn
<1>4. PICK b \in {None, reg[r].queue} :
        reg' = [reg EXCEPT ![r].active = reg[r].active - 1, ![r].queue = b]
  <2> DEFINE b == IF reg[r].queue = q /\ ~queue[q].running /\ queue[q].pending = <<>>
                  THEN None ELSE reg[r].queue
  <2>1. reg' = [reg EXCEPT ![r].active = reg[r].active - 1, ![r].queue = b]
    <3>1. reg[r] \in Registry /\ reg \in [Replicas -> Registry]
      BY <1>0 DEF TypeOK
    <3> QED
      BY <1>1, <3>1 DEF Forget, Registry
  <2>2. b \in {None, reg[r].queue}
    OBVIOUS
  <2> HIDE DEF b
  <2> QED
    BY <2>1, <2>2
<1>5. b \in Jobs \cup {None}
  BY <1>0 DEF TypeOK, Registry
<1>6. PICK a \in Nat : a = reg[r].active - 1
  BY <1>3
<1>7. reg' = [reg EXCEPT ![r].active = a, ![r].queue = b]
  BY <1>4, <1>6
<1>8. /\ reg' \in [Replicas -> Registry]
      /\ reg'[r].active = a /\ reg'[r].queue = b
      /\ reg'[r].up = reg[r].up /\ reg'[r].draining = reg[r].draining
      /\ reg'[r].waited = reg[r].waited
      /\ \A x \in Replicas \ {r} : reg'[x] = reg[x]
  BY <1>0, <1>5, <1>7, RegistryType
<1>9. /\ job' \in [Jobs -> Turn] /\ job'[j].rep = r /\ job'[j].at = q
      /\ job'[j].pc = "done" /\ \A i \in Jobs \ {j} : job'[i] = job[i]
  BY <1>0, <1>1, <1>2, MovedTurn DEF Pcs
<1>10. StaysPut
  <2>1. \A i \in Jobs :
          /\ job'[i].rep = job[i].rep /\ job'[i].at = job[i].at
          /\ \/ job'[i].pc = job[i].pc
             \/ job[i].pc \in InFlight /\ job'[i].pc \in InFlight \cup {"done"}
    BY <1>1, <1>2, <1>9 DEF InFlight
  <2>2. \A x \in Replicas :
          /\ reg'[x].up = reg[x].up /\ reg'[x].waited = reg[x].waited
          /\ reg'[x].queue \in {None, reg[x].queue}
          /\ reg[x].draining => reg'[x].draining
    <3> SUFFICES ASSUME NEW x \in Replicas
                 PROVE  /\ reg'[x].up = reg[x].up /\ reg'[x].waited = reg[x].waited
                        /\ reg'[x].queue \in {None, reg[x].queue}
                        /\ reg[x].draining => reg'[x].draining
      OBVIOUS
    <3>1. CASE x = r
      BY <1>4, <1>8, <3>1
    <3>2. CASE x # r
      BY <1>8, <3>2
    <3> QED
      BY <3>1, <3>2
  <2> QED
    BY <2>1, <2>2 DEF StaysPut
<1>11. Placed' /\ Homes' /\ InOrder' /\ WaitMeansQuiet'
  BY <1>10, StaysPutPreserves
<1>12. Driven' = Driven
  BY <1>2, <1>9 DEF Driven
<1>13. PendingIsQueued' /\ RunningIsDriven' /\ OneGoroutinePerQueue'
  <2>1. \A i \in Jobs : /\ job[i].pc \in {"queued", "dead"} => job'[i].pc = job[i].pc
                        /\ job'[i].pc = "queued" => job[i].pc = "queued"
    BY <1>2, <1>9
  <2> QED
    BY <1>2, <1>10, <1>12, <2>1, QueuesKept
<1>14. CountExact'
  <2>1. CountExact
    BY DEF QueueInv
  <2>2. Counted(r)' = Counted(r) \ {j}
    BY <1>1, <1>9 DEF Counted, DrivenPc
  <2>3. \A x \in Replicas \ {r} : Counted(x)' = Counted(x)
    BY <1>1, <1>9 DEF Counted
  <2>4. ASSUME NEW x \in Replicas
        PROVE  /\ reg'[x].up => reg'[x].active = Cardinality(Counted(x)')
               /\ reg'[x].waited => reg'[x].draining
    <3>1. CASE x = r
      BY <1>3, <1>6, <1>8, <2>1, <2>2, <3>1 DEF CountExact
    <3>2. CASE x # r
      BY <1>8, <2>1, <2>3, <3>2 DEF CountExact
    <3> QED
      BY <3>1, <3>2
  <2> QED
    BY <2>4 DEF CountExact
<1>15. TypeOK'
  BY <1>0, <1>2, <1>8, <1>9 DEF TypeOK
<1> QED
  BY <1>11, <1>13, <1>14, <1>15 DEF QueueInv

\* Shutdown refuses turns and moves none.
LEMMA DrainStep ==
  ASSUME QueueInv, NEW r \in Replicas, Drain(r)
  PROVE  QueueInv'
<1>0. TypeOK /\ CountExact
  BY DEF QueueInv
<1>1. reg' = [reg EXCEPT ![r].draining = TRUE]
      /\ UNCHANGED <<scn, job, queue, redis, conv, lost, faults>>
  BY DEF Drain
<1>2. /\ reg' \in [Replicas -> Registry]
      /\ \A x \in Replicas : /\ reg'[x].up = reg[x].up /\ reg'[x].waited = reg[x].waited
                             /\ reg'[x].queue = reg[x].queue /\ reg'[x].active = reg[x].active
                             /\ reg[x].draining => reg'[x].draining
  <2> DEFINE t == [reg[r] EXCEPT !.draining = TRUE]
  <2>1. reg[r] \in Registry /\ reg \in [Replicas -> Registry]
    BY <1>0 DEF TypeOK
  <2>2. reg' = [reg EXCEPT ![r] = t]
    BY <1>1
  <2>3. /\ t \in Registry /\ t.active = reg[r].active /\ t.up = reg[r].up
        /\ t.queue = reg[r].queue /\ t.draining = TRUE /\ t.waited = reg[r].waited
    BY <2>1 DEF Registry
  <2> HIDE DEF t
  <2> QED
    BY <2>1, <2>2, <2>3
<1>3. StaysPut
  BY <1>1, <1>2 DEF StaysPut
<1>4. Placed' /\ Homes' /\ InOrder' /\ WaitMeansQuiet'
  BY <1>3, StaysPutPreserves
<1>5. Driven' = Driven /\ \A x \in Replicas : Counted(x)' = Counted(x)
  BY <1>1 DEF Driven, Counted
<1>6. PendingIsQueued' /\ RunningIsDriven' /\ OneGoroutinePerQueue'
  BY <1>1, <1>3, <1>5, QueuesKept
<1>7. CountExact'
  BY <1>0, <1>2, <1>5 DEF CountExact
<1>8. TypeOK'
  BY <1>0, <1>1, <1>2 DEF TypeOK
<1> QED
  BY <1>4, <1>6, <1>7, <1>8 DEF QueueInv

\* A count of zero means quiet: a turn that waits in a list has a goroutine, and
\* that one is counted.
LEMMA ZeroMeansQuiet ==
  ASSUME QueueInv, NEW r \in Replicas, reg[r].up, reg[r].active = 0
  PROVE  \A j \in Jobs : job[j].rep = r => job[j].pc \in {"done", "dead"}
<1>1. Counted(r) = {}
  <2>1. Counted(r) \in SUBSET Jobs /\ Cardinality(Counted(r)) = 0
    BY DEF QueueInv, CountExact, Counted
  <2> QED
    BY <2>1, TurnsCount
<1>2. \A j \in Jobs : job[j].rep = r => job[j].pc \notin DrivenPc \cup {"counted", "forget"}
  BY <1>1 DEF Counted
<1>3. \A j \in Jobs : job[j].pc = "new" => job[j].rep # r
  BY Constants DEF QueueInv, Placed
<1>4. ASSUME NEW j \in Jobs, job[j].rep = r, job[j].pc = "queued"
      PROVE  FALSE
  <2>1. PICK q \in Jobs : q = job[j].at /\ job[q].rep = r
    BY <1>4, InFlightPlace DEF InFlight
  <2>2. queue[q].pending # <<>>
    BY <1>4, <2>1 DEF QueueInv, PendingIsQueued
  <2>3. queue[q].running
    BY <2>2 DEF QueueInv, RunningIsDriven
  <2>4. PICK i \in Driven : job[i].at = q
    BY <2>1, <2>3, RunningPlace
  <2>5. i \in Jobs /\ job[i].pc \in DrivenPc /\ job[i].rep = r
    BY <2>1, <2>4, InFlightPlace DEF Driven, DrivenPc, InFlight
  <2> QED
    BY <1>2, <2>5
<1>5. \A j \in Jobs : job[j].pc \in Pcs
  BY DEF QueueInv, TypeOK, Turn
<1> QED
  BY <1>2, <1>3, <1>4, <1>5 DEF Pcs, DrivenPc

\* Wait reports TRUE only when the replica is quiet.
LEMMA WaitStep ==
  ASSUME QueueInv, NEW r \in Replicas, Wait(r)
  PROVE  QueueInv'
<1>0. TypeOK /\ CountExact /\ Placed /\ Homes /\ InOrder
  BY DEF QueueInv
<1>1. reg' = [reg EXCEPT ![r].waited = TRUE] /\ reg[r].draining /\ reg[r].up
      /\ UNCHANGED <<scn, job, queue, redis, conv, lost, faults>>
  BY DEF Wait
<1>2. /\ reg' \in [Replicas -> Registry]
      /\ \A x \in Replicas : /\ reg'[x].up = reg[x].up
                             /\ reg'[x].waited => x = r \/ reg[x].waited
                             /\ reg'[x].queue = reg[x].queue /\ reg'[x].active = reg[x].active
                             /\ reg[x].draining = reg'[x].draining
  <2> DEFINE t == [reg[r] EXCEPT !.waited = TRUE]
  <2>1. reg[r] \in Registry /\ reg \in [Replicas -> Registry]
    BY <1>0 DEF TypeOK
  <2>2. reg' = [reg EXCEPT ![r] = t]
    BY <1>1
  <2>3. /\ t \in Registry /\ t.active = reg[r].active /\ t.up = reg[r].up
        /\ t.queue = reg[r].queue /\ t.waited = TRUE /\ t.draining = reg[r].draining
    BY <2>1 DEF Registry
  <2> HIDE DEF t
  <2> QED
    BY <2>1, <2>2, <2>3
<1>3. Placed'
  BY <1>0, <1>1, <1>2 DEF Placed
<1>4. Homes' /\ InOrder'
  BY <1>0, <1>1, <1>2 DEF Homes, InOrder, Submitted
<1>5. PendingIsQueued' /\ OneGoroutinePerQueue'
  BY <1>1 DEF QueueInv, PendingIsQueued, OneGoroutinePerQueue, Driven
<1>6. RunningIsDriven'
  BY <1>1, <1>2, RunningPlace DEF QueueInv, RunningIsDriven, Driven
<1>7. \A x \in Replicas : Counted(x)' = Counted(x)
  BY <1>1 DEF Counted
<1>8. CountExact'
  BY <1>0, <1>1, <1>2, <1>7 DEF CountExact
<1>9. WaitMeansQuiet'
  <2>1. \A j \in Jobs : job[j].rep = r => job[j].pc \in {"done", "dead"}
    BY ZeroMeansQuiet DEF Wait
  <2> QED
    BY <1>1, <1>2, <2>1 DEF QueueInv, WaitMeansQuiet
<1>10. TypeOK'
  BY <1>0, <1>1, <1>2 DEF TypeOK
<1> QED
  BY <1>3, <1>4, <1>5, <1>6, <1>8, <1>9, <1>10 DEF QueueInv

\* A crash ends every turn of its replica and none of another.
LEMMA CrashStep ==
  ASSUME QueueInv, NEW r \in Replicas, Crash(r)
  PROVE  QueueInv'
<1>0. TypeOK /\ CountExact /\ Placed /\ Homes /\ InOrder
  BY DEF QueueInv
<1>1. /\ reg' = [reg EXCEPT ![r].up = FALSE] /\ Fault
      /\ UNCHANGED <<scn, queue, redis, conv, lost>>
  BY DEF Crash
<1>2. /\ reg' \in [Replicas -> Registry]
      /\ ~reg'[r].up
      /\ \A x \in Replicas : /\ reg'[x].waited = reg[x].waited
                             /\ reg'[x].queue = reg[x].queue /\ reg'[x].active = reg[x].active
                             /\ reg[x].draining = reg'[x].draining
                             /\ x # r => reg'[x].up = reg[x].up
  <2> DEFINE t == [reg[r] EXCEPT !.up = FALSE]
  <2>1. reg[r] \in Registry /\ reg \in [Replicas -> Registry]
    BY <1>0 DEF TypeOK
  <2>2. reg' = [reg EXCEPT ![r] = t]
    BY <1>1
  <2>3. /\ t \in Registry /\ t.active = reg[r].active /\ t.up = FALSE
        /\ t.queue = reg[r].queue /\ t.waited = reg[r].waited /\ t.draining = reg[r].draining
    BY <2>1 DEF Registry
  <2> HIDE DEF t
  <2> QED
    BY <2>1, <2>2, <2>3
<1>3. /\ job' \in [Jobs -> Turn]
      /\ \A j \in Jobs :
           /\ job'[j].rep = job[j].rep /\ job'[j].at = job[j].at
           /\ job[j].rep # r => job'[j] = job[j]
           /\ job[j].rep = r => job'[j].pc = IF job[j].pc = "done" THEN "done" ELSE "dead"
  <2>1. \A j \in Jobs : /\ job[j] \in Turn
                        /\ job'[j] = IF job[j].rep = r /\ job[j].pc # "done"
                                     THEN [job[j] EXCEPT !.pc = "dead"] ELSE job[j]
    BY <1>0 DEF TypeOK, Crash
  <2>2. \A j \in Jobs : /\ [job[j] EXCEPT !.pc = "dead"] \in Turn
                        /\ [job[j] EXCEPT !.pc = "dead"].pc = "dead"
                        /\ [job[j] EXCEPT !.pc = "dead"].rep = job[j].rep
                        /\ [job[j] EXCEPT !.pc = "dead"].at = job[j].at
    BY <2>1 DEF Turn, Pcs
  <2>3. \A j \in Jobs : job'[j] \in Turn
    BY <2>1, <2>2
  <2>4. job' = [j \in Jobs |-> job'[j]]
    BY DEF Crash
  <2>5. job' \in [Jobs -> Turn]
    BY <2>3, <2>4
  <2> QED
    BY <2>1, <2>2, <2>5
<1>4. \A j \in Jobs : (job'[j].pc = "new") <=> (job[j].pc = "new")
  BY <1>0, <1>3, Constants DEF Placed
<1>5. Placed'
  <2> SUFFICES ASSUME NEW j \in Jobs
               PROVE  /\ job'[j].pc = "new" => job'[j].rep = None /\ job'[j].at = None
                      /\ job'[j].pc # "new" => job'[j].rep \in Replicas
                      /\ job'[j].pc \in InFlight => job'[j].at \in Jobs /\ reg'[job'[j].rep].up
                      /\ job'[j].pc = "dead" => ~reg'[job'[j].rep].up
    BY DEF Placed
  <2>1. CASE job[j].rep = r
    BY <1>0, <1>2, <1>3, <1>4, <2>1 DEF Placed, InFlight
  <2>2. CASE job[j].rep # r
    <3>1. job'[j] = job[j]
      BY <1>3, <2>2
    <3>2. job[j].pc # "new" => reg'[job[j].rep].up = reg[job[j].rep].up
      BY <1>0, <1>2, <2>2 DEF Placed
    <3> QED
      BY <1>0, <3>1, <3>2 DEF Placed, InFlight
  <2> QED
    BY <2>1, <2>2
<1>6. Homes'
  <2>1. \A j \in Jobs : job[j].at # None => job[j].at \in Jobs
    BY <1>0 DEF TypeOK, Turn
  <2>2. \A x \in Replicas : reg[x].queue # None => reg[x].queue \in Jobs
    BY <1>0 DEF TypeOK, Registry
  <2>3. \A j \in Jobs : job'[j].rep = job[j].rep /\ job'[j].at = job[j].at
    BY <1>3
  <2>4. \A x \in Replicas : reg'[x].queue = reg[x].queue
    BY <1>2
  <2> QED
    BY <1>0, <1>4, <2>1, <2>2, <2>3, <2>4 DEF Homes
<1>7. InOrder'
  <2>1. {j \in Jobs : job'[j].pc # "new"} = {j \in Jobs : job[j].pc # "new"}
    BY <1>4
  <2> QED
    BY <1>0, <2>1 DEF InOrder, Submitted
<1>8. \A i \in Jobs : /\ job[i].pc \in {"queued", "dead"} => job'[i].pc \in {"queued", "dead"}
                      /\ job'[i].pc = "queued" => job[i].pc = "queued"
                      /\ job'[i].at = job[i].at
  <2>1. ASSUME NEW i \in Jobs
        PROVE  /\ job[i].pc \in {"queued", "dead"} => job'[i].pc \in {"queued", "dead"}
               /\ job'[i].pc = "queued" => job[i].pc = "queued"
               /\ job'[i].at = job[i].at
    BY <1>3
  <2> QED
    BY <2>1
<1>9. PendingIsQueued'
  <2>1. \A q \in Jobs : \A m \in DOMAIN queue[q].pending :
           /\ job'[queue[q].pending[m]].at = q
           /\ job'[queue[q].pending[m]].pc \in {"queued", "dead"}
           /\ \A n \in DOMAIN queue[q].pending :
                queue[q].pending[m] = queue[q].pending[n] => m = n
    BY <1>8, PendingTurn
  <2>2. \A i \in Jobs : job'[i].pc = "queued" =>
           \E m \in DOMAIN queue[job'[i].at].pending : queue[job'[i].at].pending[m] = i
    BY <1>8 DEF QueueInv, PendingIsQueued
  <2> QED
    BY <1>1, <2>1, <2>2 DEF PendingIsQueued
<1>10. \A i \in Jobs : /\ i \in Driven' => i \in Driven
                       /\ i \in Driven /\ job[i].rep # r => i \in Driven'
  BY <1>3 DEF Driven
<1>11. RunningIsDriven'
  <2>1. \A q \in Jobs : queue[q].pending # <<>> => queue[q].running
    BY DEF QueueInv, RunningIsDriven
  <2>2. ASSUME NEW q \in Jobs, queue[q].running, reg'[job'[q].rep].up
        PROVE  \E i \in Driven' : job'[i].at = q
    <3>1. /\ job[q].pc # "new" /\ job[q].rep \in Replicas
          /\ reg[job[q].rep].up => \E i \in Driven : job[i].at = q
      BY <2>2, RunningPlace
    <3>2. job'[q].rep = job[q].rep /\ job[q].rep # r
      BY <1>2, <1>3, <2>2
    <3>3. reg[job[q].rep].up
      BY <1>2, <2>2, <3>1, <3>2
    <3>4. PICK i \in Driven : job[i].at = q
      BY <3>1, <3>3
    <3>5. i \in Jobs /\ job[i].rep = job[q].rep
      BY <3>4, InFlightPlace DEF Driven, InFlight
    <3> QED
      BY <1>8, <1>10, <3>2, <3>4, <3>5
  <2>3. \A q \in Jobs : queue[q].running => job'[q].pc # "new"
    BY <1>4, RunningPlace
  <2> QED
    BY <1>1, <2>1, <2>2, <2>3 DEF RunningIsDriven
<1>12. OneGoroutinePerQueue'
  <2>1. \A i \in Driven' : i \in Driven /\ i \in Jobs
    BY <1>10 DEF Driven
  <2> QED
    BY <1>1, <1>8, <2>1, DrivenPlace DEF OneGoroutinePerQueue
<1>13. CountExact'
  <2>1. \A x \in Replicas \ {r} : Counted(x)' = Counted(x)
    BY <1>3 DEF Counted
  <2> QED
    BY <1>0, <1>2, <2>1 DEF CountExact
<1>14. WaitMeansQuiet'
  <2>1. \A j \in Jobs : job[j].pc \in {"done", "dead"} => job'[j].pc \in {"done", "dead"}
    <3>1. ASSUME NEW j \in Jobs, job[j].pc \in {"done", "dead"}
          PROVE  job'[j].pc \in {"done", "dead"}
      BY <1>3, <3>1
    <3> QED
      BY <3>1
  <2> QED
    BY <1>2, <1>3, <2>1 DEF QueueInv, WaitMeansQuiet
<1>15. TypeOK'
  BY <1>0, <1>1, <1>2, <1>3, FaultType DEF TypeOK
<1> QED
  BY <1>5, <1>6, <1>7, <1>9, <1>11, <1>12, <1>13, <1>14, <1>15 DEF QueueInv

\* The turn that Submit takes: the first of the new ones.
LEMMA NextTurn ==
  ASSUME QueueInv, NEW r \in Replicas, Submit(r)
  PROVE  /\ Submitted + 1 \in Jobs /\ Submitted \in Nat
         /\ job[Submitted + 1].pc = "new"
         /\ \A i \in Jobs : job[i].pc # "new" => i # Submitted + 1
<1>0. TypeOK /\ InOrder
  BY DEF QueueInv
<1>1. Submitted \in Nat
  BY TurnsFinite DEF Submitted
<1>2. Submitted + 1 \in Jobs
  BY <1>0, <1>1, Constants DEF Submit, Jobs
<1>3. Submitted + 1 \notin {i \in Jobs : job[i].pc # "new"}
  BY <1>0, <1>1 DEF InOrder
<1> QED
  BY <1>1, <1>2, <1>3

\* The next turn is submitted and nothing else moves.
Submits(j, r) ==
  /\ job[j].pc = "new" /\ job'[j].pc \in {"counted", "done"} /\ job'[j].rep = r
  /\ \A i \in Jobs \ {j} : job'[i] = job[i]
  /\ queue' = queue
  /\ \A x \in Replicas : reg'[x].up = reg[x].up /\ reg'[x].waited = reg[x].waited

\* The new turn waits behind every turn that was submitted before it.
LEMMA SubmitsPreserves ==
  ASSUME QueueInv, NEW r \in Replicas, NEW j \in Jobs, j = Submitted + 1, Submitted \in Nat,
         Submits(j, r), reg[r].up
  PROVE  /\ InOrder' /\ PendingIsQueued' /\ RunningIsDriven' /\ OneGoroutinePerQueue'
         /\ Driven' = Driven
<1> USE DEF Submits
<1>1. InOrder'
  <2> DEFINE S == {i \in Jobs : job[i].pc # "new"}
             T == {i \in Jobs : job'[i].pc # "new"}
  <2>1. T = S \cup {j} /\ j \notin S /\ S \in SUBSET Jobs
    OBVIOUS
  <2>2. Cardinality(S) = Submitted /\ S = 1..Submitted
    BY DEF Submitted, QueueInv, InOrder
  <2>3. Cardinality(T) = Submitted + 1
    BY <2>1, <2>2, TurnsCount
  <2>4. T = 1..(Submitted + 1)
    BY <2>1, <2>2
  <2>5. Submitted' = Submitted + 1
    BY <2>3 DEF Submitted
  <2> QED
    BY <2>4, <2>5 DEF InOrder
<1>2. Driven' = Driven
  BY DEF Driven
<1>3. \A q \in Jobs : \A m \in DOMAIN queue[q].pending : queue[q].pending[m] \in Jobs \ {j}
  BY PendingTurn
<1>4. PendingIsQueued'
  <2>1. \A q \in Jobs : \A m \in DOMAIN queue[q].pending :
           /\ job'[queue[q].pending[m]].at = q
           /\ job'[queue[q].pending[m]].pc \in {"queued", "dead"}
           /\ \A n \in DOMAIN queue[q].pending :
                queue[q].pending[m] = queue[q].pending[n] => m = n
    <3>1. \A q \in Jobs : \A m \in DOMAIN queue[q].pending :
            job'[queue[q].pending[m]] = job[queue[q].pending[m]]
      BY <1>3
    <3> QED
      BY <3>1, PendingTurn
  <2>2. \A i \in Jobs : job'[i].pc = "queued" =>
           \E m \in DOMAIN queue[job'[i].at].pending : queue[job'[i].at].pending[m] = i
    <3> SUFFICES ASSUME NEW i \in Jobs, job'[i].pc = "queued"
                 PROVE  \E m \in DOMAIN queue[job'[i].at].pending :
                          queue[job'[i].at].pending[m] = i
      OBVIOUS
    <3>1. i # j
      OBVIOUS
    <3>2. job'[i] = job[i] /\ job[i].pc = "queued"
      BY <3>1
    <3>3. \E m \in DOMAIN queue[job[i].at].pending : queue[job[i].at].pending[m] = i
      BY <3>2 DEF QueueInv, PendingIsQueued
    <3> QED
      BY <3>2, <3>3
  <2> QED
    BY <2>1, <2>2 DEF PendingIsQueued
<1>5. RunningIsDriven'
  <2>1. \A q \in Jobs : queue[q].pending # <<>> => queue[q].running
    BY DEF QueueInv, RunningIsDriven
  <2>2. ASSUME NEW q \in Jobs, queue[q].running
        PROVE  job'[q].pc # "new" /\ (reg'[job'[q].rep].up => \E i \in Driven : job'[i].at = q)
    <3>1. /\ job[q].pc # "new" /\ job[q].rep \in Replicas
          /\ reg[job[q].rep].up => \E i \in Driven : job[i].at = q
      BY <2>2, RunningPlace
    <3>2. job'[q] = job[q] /\ \A i \in Driven : job'[i] = job[i]
      BY <3>1 DEF Driven
    <3> QED
      BY <3>1, <3>2
  <2> QED
    BY <1>2, <2>1, <2>2 DEF RunningIsDriven
<1>6. OneGoroutinePerQueue'
  <2>1. \A i \in Driven : job'[i] = job[i]
    BY DEF Driven
  <2> QED
    BY <1>2, <2>1, DrivenPlace DEF OneGoroutinePerQueue
<1> QED
  BY <1>1, <1>2, <1>4, <1>5, <1>6

\* A draining registry refuses the turn.
LEMMA SubmitRefused ==
  ASSUME QueueInv, NEW r \in Replicas, Submit(r), reg[r].draining
  PROVE  QueueInv'
<1>0. TypeOK /\ CountExact /\ Placed /\ Homes
  BY DEF QueueInv
<1>1. PICK j \in Jobs : j = Submitted + 1 /\ job[j].pc = "new"
  BY NextTurn
<1>2. /\ job' = [job EXCEPT ![j].pc = "done", ![j].rep = r]
      /\ UNCHANGED <<scn, reg, queue, redis, conv, lost, faults>>
  BY <1>1 DEF Submit
<1>3. /\ job' \in [Jobs -> Turn] /\ job'[j].pc = "done" /\ job'[j].rep = r
      /\ job'[j].at = job[j].at /\ \A i \in Jobs \ {j} : job'[i] = job[i]
  <2> DEFINE t == [job[j] EXCEPT !.pc = "done", !.rep = r]
  <2>1. job[j] \in Turn /\ job \in [Jobs -> Turn]
    BY <1>0 DEF TypeOK
  <2>2. [job[j] EXCEPT !.pc = "done"] \in Turn
    BY <2>1 DEF Turn, Pcs
  <2>3. t \in Turn /\ t.pc = "done" /\ t.rep = r /\ t.at = job[j].at
    BY <2>1, <2>2 DEF Turn
  <2>4. job' = [job EXCEPT ![j] = t]
    BY <1>2, <2>1 DEF Turn
  <2> HIDE DEF t
  <2> QED
    BY <2>1, <2>3, <2>4
<1>4. job[j].at = None
  BY <1>0, <1>1 DEF Placed
<1>5. /\ InOrder' /\ PendingIsQueued' /\ RunningIsDriven' /\ OneGoroutinePerQueue'
      /\ Driven' = Driven
  <2>1. Submits(j, r)
    BY <1>1, <1>2, <1>3 DEF Submits
  <2> QED
    BY <1>1, <2>1, NextTurn, SubmitsPreserves DEF Submit
<1>6. Placed'
  <2> SUFFICES ASSUME NEW i \in Jobs
               PROVE  /\ job'[i].pc = "new" => job'[i].rep = None /\ job'[i].at = None
                      /\ job'[i].pc # "new" => job'[i].rep \in Replicas
                      /\ job'[i].pc \in InFlight => job'[i].at \in Jobs /\ reg[job'[i].rep].up
                      /\ job'[i].pc = "dead" => ~reg[job'[i].rep].up
    BY <1>2 DEF Placed
  <2>1. CASE i = j
    BY <1>3, <2>1 DEF InFlight
  <2>2. CASE i # j
    BY <1>0, <1>3, <2>2 DEF Placed
  <2> QED
    BY <2>1, <2>2
<1>7. Homes'
  <2>1. \A i \in Jobs : job'[i].at # None =>
          job'[job'[i].at].pc # "new" /\ job'[job'[i].at].rep = job'[i].rep
    <3> SUFFICES ASSUME NEW i \in Jobs, job'[i].at # None
                 PROVE  job'[job'[i].at].pc # "new" /\ job'[job'[i].at].rep = job'[i].rep
      OBVIOUS
    <3>1. i # j /\ job'[i] = job[i]
      BY <1>3, <1>4
    <3>2. job[i].at \in Jobs
      BY <1>0, <3>1 DEF TypeOK, Turn
    <3>3. job[job[i].at].pc # "new" /\ job[job[i].at].rep = job[i].rep
      BY <1>0, <3>1 DEF Homes
    <3>4. job[i].at # j
      BY <1>1, <3>3
    <3> QED
      BY <1>3, <3>1, <3>2, <3>3, <3>4
  <2>2. \A x \in Replicas : reg[x].queue # None =>
          job'[reg[x].queue].pc # "new" /\ job'[reg[x].queue].rep = x
    <3>1. \A x \in Replicas : reg[x].queue # None => reg[x].queue \in Jobs
      BY <1>0 DEF TypeOK, Registry
    <3>2. ASSUME NEW x \in Replicas, reg[x].queue # None
          PROVE  job'[reg[x].queue].pc # "new" /\ job'[reg[x].queue].rep = x
      <4>1. job[reg[x].queue].pc # "new" /\ job[reg[x].queue].rep = x
        BY <1>0, <3>2 DEF Homes
      <4>2. reg[x].queue # j
        BY <1>1, <4>1
      <4> QED
        BY <1>3, <3>1, <3>2, <4>1, <4>2
    <3> QED
      BY <3>2
  <2> QED
    BY <1>2, <2>1, <2>2 DEF Homes
<1>8. CountExact'
  <2>1. \A x \in Replicas : Counted(x)' = Counted(x)
    BY <1>1, <1>3 DEF Counted, DrivenPc
  <2> QED
    BY <1>2, <2>1, CountKept
<1>9. WaitMeansQuiet'
  BY <1>2, <1>3 DEF QueueInv, WaitMeansQuiet
<1>10. TypeOK'
  BY <1>0, <1>2, <1>3 DEF TypeOK
<1> QED
  BY <1>5, <1>6, <1>7, <1>8, <1>9, <1>10 DEF QueueInv

\* Otherwise the turn is counted and takes the conversation's queue.
LEMMA SubmitCounted ==
  ASSUME QueueInv, NEW r \in Replicas, Submit(r), ~reg[r].draining
  PROVE  QueueInv'
<1>0. TypeOK /\ CountExact /\ Placed /\ Homes
  BY DEF QueueInv
<1>1. PICK j \in Jobs : j = Submitted + 1 /\ job[j].pc = "new"
  BY NextTurn
<1>2. PICK q \in Jobs : q = IF reg[r].queue = None THEN j ELSE reg[r].queue
  <2>1. reg[r].queue # None => reg[r].queue \in Jobs
    BY <1>0 DEF TypeOK, Registry
  <2> QED
    BY <2>1
<1>3. /\ job' = [job EXCEPT ![j].pc = "counted", ![j].rep = r, ![j].at = q]
      /\ reg' = [reg EXCEPT ![r].active = reg[r].active + 1, ![r].queue = q]
      /\ reg[r].up /\ UNCHANGED <<scn, queue, redis, conv, lost, faults>>
  <2>1. reg[r] \in Registry /\ reg \in [Replicas -> Registry]
    BY <1>0 DEF TypeOK
  <2> QED
    BY <1>1, <1>2, <2>1 DEF Submit, Registry
<1>4. /\ job' \in [Jobs -> Turn] /\ job'[j].pc = "counted" /\ job'[j].rep = r
      /\ job'[j].at = q /\ \A i \in Jobs \ {j} : job'[i] = job[i]
  <2> DEFINE t == [job[j] EXCEPT !.pc = "counted", !.rep = r, !.at = q]
  <2>1. job[j] \in Turn /\ job \in [Jobs -> Turn]
    BY <1>0 DEF TypeOK
  <2>2. [job[j] EXCEPT !.pc = "counted"] \in Turn
    BY <2>1 DEF Turn, Pcs
  <2>3. [job[j] EXCEPT !.pc = "counted", !.rep = r] \in Turn
    BY <2>2 DEF Turn
  <2>4. t \in Turn /\ t.pc = "counted" /\ t.rep = r /\ t.at = q
    BY <2>1, <2>3 DEF Turn
  <2>5. job' = [job EXCEPT ![j] = t]
    BY <1>3, <2>1 DEF Turn
  <2> HIDE DEF t
  <2> QED
    BY <2>1, <2>4, <2>5
<1>5. PICK a \in Nat : a = reg[r].active + 1
  BY <1>0 DEF TypeOK, Registry
<1>6. /\ reg' \in [Replicas -> Registry]
      /\ reg'[r].active = a /\ reg'[r].queue = q
      /\ reg'[r].up = reg[r].up /\ reg'[r].draining = reg[r].draining
      /\ reg'[r].waited = reg[r].waited
      /\ \A x \in Replicas \ {r} : reg'[x] = reg[x]
  <2>1. reg' = [reg EXCEPT ![r].active = a, ![r].queue = q]
    BY <1>3, <1>5
  <2> QED
    BY <1>0, <2>1, RegistryType
<1>7. \A x \in Replicas : reg'[x].up = reg[x].up /\ reg'[x].waited = reg[x].waited
                          /\ reg'[x].draining = reg[x].draining
  BY <1>6
<1>8. /\ InOrder' /\ PendingIsQueued' /\ RunningIsDriven' /\ OneGoroutinePerQueue'
      /\ Driven' = Driven
  <2>1. Submits(j, r)
    BY <1>1, <1>3, <1>4, <1>7 DEF Submits
  <2> QED
    BY <1>1, <1>3, <2>1, NextTurn, SubmitsPreserves
<1>9. Placed'
  <2> SUFFICES ASSUME NEW i \in Jobs
               PROVE  /\ job'[i].pc = "new" => job'[i].rep = None /\ job'[i].at = None
                      /\ job'[i].pc # "new" => job'[i].rep \in Replicas
                      /\ job'[i].pc \in InFlight => job'[i].at \in Jobs /\ reg'[job'[i].rep].up
                      /\ job'[i].pc = "dead" => ~reg'[job'[i].rep].up
    BY DEF Placed
  <2>1. CASE i = j
    BY <1>3, <1>4, <1>6, <2>1 DEF InFlight
  <2>2. CASE i # j
    <3>1. job'[i] = job[i] /\ (job[i].pc # "new" => reg'[job[i].rep].up = reg[job[i].rep].up)
      BY <1>0, <1>4, <1>7, <2>2 DEF Placed
    <3> QED
      BY <1>0, <3>1 DEF Placed, InFlight
  <2> QED
    BY <2>1, <2>2
<1>10. job'[q].pc # "new" /\ job'[q].rep = r
  <2>1. CASE q = j
    BY <1>4, <2>1
  <2>2. CASE q # j
    BY <1>0, <1>2, <1>4, <2>2 DEF Homes
  <2> QED
    BY <2>1, <2>2
<1>11. Homes'
  <2>1. \A i \in Jobs : job'[i].at # None =>
          job'[job'[i].at].pc # "new" /\ job'[job'[i].at].rep = job'[i].rep
    <3> SUFFICES ASSUME NEW i \in Jobs, job'[i].at # None
                 PROVE  job'[job'[i].at].pc # "new" /\ job'[job'[i].at].rep = job'[i].rep
      OBVIOUS
    <3>1. CASE i = j
      BY <1>4, <1>10, <3>1
    <3>2. CASE i # j
      <4>1. job'[i] = job[i]
        BY <1>4, <3>2
      <4>2. job[i].at \in Jobs
        BY <1>0, <4>1 DEF TypeOK, Turn
      <4> QED
        BY <1>0, <1>1, <1>4, <4>1, <4>2 DEF Homes
    <3> QED
      BY <3>1, <3>2
  <2>2. \A x \in Replicas : reg'[x].queue # None =>
          job'[reg'[x].queue].pc # "new" /\ job'[reg'[x].queue].rep = x
    <3> SUFFICES ASSUME NEW x \in Replicas, reg'[x].queue # None
                 PROVE  job'[reg'[x].queue].pc # "new" /\ job'[reg'[x].queue].rep = x
      OBVIOUS
    <3>1. CASE x = r
      BY <1>6, <1>10, <3>1
    <3>2. CASE x # r
      <4>1. reg'[x].queue = reg[x].queue /\ reg[x].queue \in Jobs
        BY <1>0, <1>6, <3>2 DEF TypeOK, Registry
      <4>2. job[reg[x].queue].pc # "new" /\ job[reg[x].queue].rep = x
        BY <1>0, <4>1 DEF Homes
      <4>3. reg[x].queue # j
        BY <1>1, <4>2
      <4> QED
        BY <1>4, <4>1, <4>2, <4>3
    <3> QED
      BY <3>1, <3>2
  <2> QED
    BY <2>1, <2>2 DEF Homes
<1>12. CountExact'
  <2>1. Counted(r)' = Counted(r) \cup {j} /\ j \notin Counted(r) /\ Counted(r) \in SUBSET Jobs
    BY <1>1, <1>4 DEF Counted, DrivenPc
  <2>2. \A x \in Replicas \ {r} : Counted(x)' = Counted(x)
    BY <1>1, <1>4 DEF Counted, DrivenPc
  <2>3. Cardinality(Counted(r) \cup {j}) = Cardinality(Counted(r)) + 1
    BY <2>1, TurnsCount
  <2>4. reg[r].active = Cardinality(Counted(r))
    BY <1>0, <1>3 DEF CountExact
  <2>5. ASSUME NEW x \in Replicas
        PROVE  /\ reg'[x].up => reg'[x].active = Cardinality(Counted(x)')
               /\ reg'[x].waited => reg'[x].draining
    <3>1. CASE x = r
      BY <1>0, <1>5, <1>6, <2>1, <2>3, <2>4, <3>1 DEF CountExact
    <3>2. CASE x # r
      BY <1>0, <1>6, <2>2, <3>2 DEF CountExact
    <3> QED
      BY <3>1, <3>2
  <2> QED
    BY <2>5 DEF CountExact
<1>13. WaitMeansQuiet'
  <2>1. ~reg[r].waited
    BY <1>0 DEF CountExact
  <2> QED
    BY <1>4, <1>7, <2>1 DEF QueueInv, WaitMeansQuiet
<1>14. TypeOK'
  BY <1>0, <1>3, <1>4, <1>6 DEF TypeOK
<1> QED
  BY <1>8, <1>9, <1>11, <1>12, <1>13, <1>14 DEF QueueInv

-----------------------------------------------------------------------------
(* Every step keeps the queues right *)

\* At first no turn was submitted, no queue runs and nothing is counted.
LEMMA QueueInvInit ==
  ASSUME Init
  PROVE  QueueInv
<1>1. /\ \A j \in Jobs : job[j] = [pc |-> "new", rep |-> None, at |-> None,
                                   dropped |-> FALSE, fence |-> 0]
      /\ \A q \in Jobs : queue[q].running = FALSE /\ queue[q].pending = <<>>
      /\ \A r \in Replicas : reg[r].queue = None /\ reg[r].active = 0
                             /\ reg[r].waited = FALSE /\ reg[r].draining = FALSE
  BY DEF Init
<1>2. TypeOK
  <2>1. scn \in Scenarios /\ faults \in 0..scn.faults
    BY TurnAssumption DEF Init, ScenarioType
  <2>2. job \in [Jobs -> Turn]
    BY DEF Init, Turn, Pcs
  <2>3. queue \in [Jobs -> [running : BOOLEAN, pending : Seq(Jobs)]]
        /\ \A q \in Jobs : Len(queue[q].pending) <= MaxQueued
    BY TurnAssumption DEF Init
  <2>4. reg \in [Replicas -> Registry]
    BY DEF Init, Registry
  <2>5. redis \in [key : Jobs \cup {None}, counter : Nat, clock : Nat]
        /\ conv \in [fence : Nat, history : Seq(Jobs)] /\ lost \subseteq Jobs
    BY DEF Init
  <2> QED
    BY <2>1, <2>2, <2>3, <2>4, <2>5 DEF TypeOK
<1>3. Placed /\ PendingIsQueued
  BY <1>1 DEF Placed, PendingIsQueued, InFlight
<1>4. Homes /\ WaitMeansQuiet
  BY <1>1 DEF Homes, WaitMeansQuiet
<1>5. InOrder
  <2>1. {j \in Jobs : job[j].pc # "new"} = {}
    BY <1>1
  <2>2. Submitted = 0
    BY <2>1, FS_EmptySet DEF Submitted
  <2> QED
    BY <2>1, <2>2 DEF InOrder
<1>6. Driven = {}
  BY <1>1 DEF Driven
<1>7. RunningIsDriven /\ OneGoroutinePerQueue
  BY <1>1, <1>6 DEF RunningIsDriven, OneGoroutinePerQueue
<1>8. CountExact
  <2>1. \A r \in Replicas : Counted(r) = {}
    BY <1>1 DEF Counted, DrivenPc
  <2> QED
    BY <1>1, <2>1, FS_EmptySet DEF CountExact
<1> QED
  BY <1>2, <1>3, <1>4, <1>5, <1>7, <1>8 DEF QueueInv

\* A stuttering step.
LEMMA QueueStutter ==
  ASSUME QueueInv, UNCHANGED vars
  PROVE  QueueInv'
<1>1. TypeOK'
  BY DEF QueueInv, TypeOK, vars
<1>2. KeepsPlaces
  BY DEF KeepsPlaces, vars
<1> QED
  BY <1>1, <1>2, KeepsPlacesPreserves

\* Every step keeps the queues right.
LEMMA QueueInvNext ==
  ASSUME QueueInv, [Next]_vars
  PROVE  QueueInv'
<1>1. ASSUME NEW r \in Replicas, Submit(r) \/ Drain(r) \/ Wait(r) \/ Crash(r)
      PROVE  QueueInv'
  BY <1>1, SubmitRefused, SubmitCounted, DrainStep, WaitStep, CrashStep
<1>2. ASSUME NEW j \in Jobs, Enqueue(j) \/ DrainNext(j) \/ Forget(j)
      PROVE  QueueInv'
  BY <1>2, EnqueueStep, DrainIdle, DrainTakes, ForgetStep
<1>3. ASSUME NEW j \in Jobs,
             \/ Drop(j) \/ Begin(j) \/ Acquire(j) \/ Refuse(j)
             \/ AppendMessage(j) \/ EndTurn(j) \/ Release(j)
      PROVE  QueueInv'
  BY <1>3, GoroutineStep
<1> QED
  BY <1>1, <1>2, <1>3, LeaseStep, QueueStutter DEF Next

-----------------------------------------------------------------------------
(* The lease and the fence *)

Early == {"new", "counted", "queued", "start", "acquire"}

\* A step that neither writes Redis or the conversation nor lets a turn hold the
\* lease that did not.
QuietStep ==
  /\ scn' = scn /\ redis' = redis /\ conv' = conv /\ lost' = lost
  /\ \A j \in Jobs :
       /\ job'[j].fence = job[j].fence
       /\ job'[j].pc \in {"run", "release"} => job[j].pc \in {"run", "release"}
       /\ job'[j].pc \in Early => job[j].pc \in Early
       /\ job'[j].pc = "acquire" /\ scn.mode = "local" => job[j].pc = "acquire"

\* It leaves the lease and the order of the fences alone.
LEMMA QuietPreserves ==
  ASSUME TypeOK, LeaseInv, FenceInv, QuietStep
  PROVE  LeaseInv' /\ FenceInv'
<1>1. LeaseInv'
  BY DEF QuietStep, LeaseInv, Renewing
<1>2. \A a \in DOMAIN conv.history : conv.history[a] \in Jobs
  BY DEF TypeOK
<1>3. FenceInv'
  BY <1>2 DEF QuietStep, FenceInv, Renewing, Early
<1> QED
  BY <1>1, <1>3

\* What moves only from place to place is quiet.
LEMMA QuietActions ==
  ASSUME QueueInv, QueueInv',
         \/ \E r \in Replicas : Submit(r) \/ Drain(r) \/ Wait(r) \/ Crash(r)
         \/ \E j \in Jobs : Enqueue(j) \/ DrainNext(j) \/ Forget(j) \/ Drop(j) \/ EndTurn(j)
         \/ UNCHANGED vars
  PROVE  QuietStep
<1>0. TypeOK /\ \A j \in Jobs : job[j] \in Turn
  BY DEF QueueInv, TypeOK
<1>1. ASSUME NEW r \in Replicas, Submit(r)
      PROVE  QuietStep
  <2>1. PICK j \in Jobs : j = Submitted + 1 /\ job[j].pc = "new"
    BY <1>1, NextTurn
  <2>2. /\ job'[j].pc \in {"done", "counted"} /\ job'[j].fence = job[j].fence
        /\ \A i \in Jobs \ {j} : job'[i] = job[i]
    <3>1. PICK q \in Jobs \cup {None} :
            \/ job' = [job EXCEPT ![j].pc = "done", ![j].rep = r]
            \/ job' = [job EXCEPT ![j].pc = "counted", ![j].rep = r, ![j].at = q]
      BY <1>0, <1>1, <2>1 DEF Submit, TypeOK, Registry
    <3>2. job \in [Jobs -> Turn] /\ job[j] \in Turn
      BY <1>0 DEF TypeOK
    <3>3. CASE job' = [job EXCEPT ![j].pc = "done", ![j].rep = r]
      BY <3>2, <3>3 DEF Turn
    <3>4. CASE job' = [job EXCEPT ![j].pc = "counted", ![j].rep = r, ![j].at = q]
      BY <3>2, <3>4 DEF Turn
    <3> QED
      BY <3>1, <3>3, <3>4
  <2>3. UNCHANGED <<scn, redis, conv, lost>>
    BY <1>1 DEF Submit
  <2> QED
    BY <2>1, <2>2, <2>3 DEF QuietStep, Early
<1>2. ASSUME NEW r \in Replicas, Drain(r) \/ Wait(r)
      PROVE  QuietStep
  BY <1>2 DEF Drain, Wait, QuietStep
<1>3. ASSUME NEW r \in Replicas, Crash(r)
      PROVE  QuietStep
  <2>1. \A j \in Jobs : job'[j] = job[j] \/ job'[j] = [job[j] EXCEPT !.pc = "dead"]
    BY <1>0, <1>3 DEF Crash
  <2>2. \A j \in Jobs : job'[j] = job[j] \/ (job'[j].pc = "dead" /\ job'[j].fence = job[j].fence)
    BY <1>0, <2>1 DEF Turn
  <2>3. UNCHANGED <<scn, redis, conv, lost>>
    BY <1>3 DEF Crash
  <2> QED
    BY <2>2, <2>3 DEF QuietStep, Early
<1>4. ASSUME NEW j \in Jobs, NEW p \in Pcs, Moved(j, p),
             p \in {"run", "release"} => job[j].pc \in {"run", "release"},
             p \in Early => job[j].pc \in Early, p # "acquire",
             UNCHANGED <<scn, redis, conv, lost>>
      PROVE  QuietStep
  <2>1. job'[j].pc = p /\ job'[j].fence = job[j].fence /\ \A i \in Jobs \ {j} : job'[i] = job[i]
    BY <1>0, <1>4, MovedTurn
  <2> QED
    BY <1>4, <2>1 DEF QuietStep, Early
<1>5. ASSUME NEW j \in Jobs, Enqueue(j)
      PROVE  QuietStep
  <2>1. PICK p \in {"done", "queued", "start"} : Moved(j, p)
    BY <1>5 DEF Enqueue
  <2> QED
    BY <1>4, <1>5, <2>1 DEF Enqueue, Early, Pcs
<1>6. ASSUME NEW j \in Jobs, Forget(j) \/ EndTurn(j)
      PROVE  QuietStep
  BY <1>4, <1>6 DEF Forget, EndTurn, Early, Pcs
<1>7. ASSUME NEW j \in Jobs, DrainNext(j), queue[job[j].at].pending = <<>>
      PROVE  QuietStep
  BY <1>4, <1>7 DEF DrainNext, Early, Pcs
<1>8. ASSUME NEW j \in Jobs, DrainNext(j), queue[job[j].at].pending # <<>>
      PROVE  QuietStep
  <2>1. PICK q \in Jobs : q = job[j].at
    BY <1>8, InFlightPlace DEF DrainNext, InFlight
  <2>2. PICK s \in Seq(Jobs) : s = queue[q].pending /\ s # <<>>
    BY <1>0, <1>8, <2>1, QueueFields
  <2>3. PICK h \in Jobs : h = Head(s)
    BY <2>1, <2>2, ListFacts
  <2>4. /\ job[h].pc = "queued" /\ h # j
        /\ job'[j].pc = "done" /\ job'[j].fence = job[j].fence
        /\ job'[h].pc = "start" /\ job'[h].fence = job[h].fence
        /\ \A i \in Jobs \ {j, h} : job'[i] = job[i]
    BY <1>8, <2>1, <2>2, <2>3, TakenTurn
  <2>5. UNCHANGED <<scn, redis, conv, lost>>
    BY <1>8 DEF DrainNext
  <2> QED
    BY <2>4, <2>5 DEF QuietStep, Early
<1>9. ASSUME NEW j \in Jobs, Drop(j)
      PROVE  QuietStep
  <2>1. \A i \in Jobs : job'[i].pc = job[i].pc /\ job'[i].fence = job[i].fence
    BY <1>0, <1>9 DEF Drop, TypeOK, Turn
  <2> QED
    BY <1>9, <2>1 DEF Drop, QuietStep
<1>10. CASE UNCHANGED vars
  BY <1>10 DEF vars, QuietStep
<1> QED
  BY <1>1, <1>2, <1>3, <1>5, <1>6, <1>7, <1>8, <1>9, <1>10

\* A new grant's fence is the next tick of the clock, also when the counter is
\* missing.
LEMMA NextFence ==
  ASSUME TypeOK, FenceInv
  PROVE  FenceBase = redis.clock /\ redis.clock \in Nat
BY DEF TypeOK, FenceInv, FenceBase

\* Begin: a turn without a Locker runs unfenced, one with a Locker asks for the
\* lease.
LEMMA BeginKeeps ==
  ASSUME TypeOK, LeaseInv, FenceInv, NEW j \in Jobs, Begin(j)
  PROVE  LeaseInv' /\ FenceInv'
<1>1. /\ job[j].pc = "start"
      /\ scn' = scn /\ redis' = redis /\ conv' = conv /\ lost' = lost
      /\ \A i \in Jobs \ {j} : job'[i] = job[i]
      /\ job'[j].fence = job[j].fence
      /\ job'[j].pc = IF job[j].dropped THEN "closed"
                      ELSE IF scn.mode = "local" THEN "run" ELSE "acquire"
  BY MovedTurn DEF Begin, SkippedTo, Pcs
<1>2. CASE job'[j].pc # "run"
  BY <1>1, <1>2, QuietPreserves DEF QuietStep, Early
<1>3. CASE job'[j].pc = "run"
  <2>1. scn.mode = "local"
    BY <1>1, <1>3
  <2>2. redis.key = None /\ None \notin Jobs
    BY <2>1, Constants DEF LeaseInv
  <2>3. LeaseInv'
    BY <1>1, <1>3, <2>1 DEF LeaseInv
  <2>4. FenceInv'
    BY <1>1, <1>3, <2>1, <2>2 DEF FenceInv, Renewing
  <2> QED
    BY <2>3, <2>4
<1> QED
  BY <1>2, <1>3

\* Acquire: only a free lease is granted, so whoever still believes to hold it
\* has lost it; the grant's fence is newer than every other.
LEMMA AcquireKeeps ==
  ASSUME TypeOK, LeaseInv, FenceInv, NEW j \in Jobs, Acquire(j)
  PROVE  LeaseInv' /\ FenceInv'
<1>0. None \notin Jobs
  BY Constants
<1>1. PICK n \in Nat : n = redis.clock /\ FenceBase = n
  BY NextFence
<1>2. /\ redis.key = None
      /\ redis'.key = j /\ redis'.counter = n + 1 /\ redis'.clock = n + 1
      /\ scn' = scn /\ conv' = conv /\ lost' = lost /\ job[j].pc = "acquire"
  BY <1>1 DEF Acquire, Granted
<1>3. /\ job'[j].pc = "run" /\ job'[j].fence = n + 1
      /\ \A i \in Jobs \ {j} : job'[i] = job[i]
  BY <1>1 DEF Acquire, TypeOK, Turn
<1>4. scn.mode = "redis"
  BY <1>2, Constants DEF LeaseInv
<1>5. LeaseInv'
  BY <1>0, <1>2, <1>3, <1>4 DEF LeaseInv, Renewing
<1>6. /\ conv.fence \in Nat /\ conv.fence <= n
      /\ \A i \in Jobs : job[i].fence \in Nat /\ job[i].fence <= n
      /\ job[j].fence = 0
  BY <1>1, <1>2 DEF FenceInv, TypeOK, Turn
<1>7. \A a \in DOMAIN conv.history : conv.history[a] \in Jobs \ {j}
  BY <1>4, <1>6 DEF FenceInv, TypeOK
<1>8. FenceInv'
  <2>1. redis'.counter \in {0, redis'.clock} /\ conv'.fence <= redis'.clock
    BY <1>2, <1>6
  <2>2. ASSUME NEW i \in Jobs
        PROVE  /\ job'[i].fence <= redis'.clock
               /\ job'[i].pc \in {"new", "counted", "queued", "start", "acquire"} => job'[i].fence = 0
               /\ Renewing(i)' /\ redis'.key = i => job'[i].fence = redis'.clock
               /\ Renewing(i)' => job'[i].fence # 0
    <3>1. CASE i = j
      BY <1>2, <1>3, <3>1
    <3>2. CASE i # j
      BY <1>2, <1>3, <1>4, <1>6, <3>2 DEF FenceInv, Renewing
    <3> QED
      BY <3>1, <3>2
  <2>3. ASSUME NEW i \in Jobs, NEW k \in Jobs, job'[i].fence = job'[k].fence, job'[i].fence # 0
        PROVE  i = k
    <3>1. CASE i # j /\ k # j
      BY <1>3, <1>4, <2>3, <3>1 DEF FenceInv
    <3>2. CASE i = j \/ k = j
      BY <1>3, <1>6, <2>3, <3>2
    <3> QED
      BY <3>1, <3>2
  <2>4. /\ \A a \in DOMAIN conv.history :
             /\ job'[conv.history[a]].fence # 0
             /\ job'[conv.history[a]].fence <= conv.fence
        /\ \A a, b \in DOMAIN conv.history :
             a <= b => job'[conv.history[a]].fence <= job'[conv.history[b]].fence
    <3>1. \A a \in DOMAIN conv.history : job'[conv.history[a]] = job[conv.history[a]]
      BY <1>3, <1>7
    <3> QED
      BY <1>4, <3>1 DEF FenceInv
  <2> QED
    BY <1>2, <2>1, <2>2, <2>3, <2>4 DEF FenceInv
<1> QED
  BY <1>5, <1>8

\* Refuse: a grant that nobody heard of has no holder.
LEMMA RefuseKeeps ==
  ASSUME TypeOK, LeaseInv, FenceInv, NEW j \in Jobs, Refuse(j)
  PROVE  LeaseInv' /\ FenceInv'
<1>0. None \notin Jobs
  BY Constants
<1>1. /\ job[j].pc = "acquire" /\ job'[j].pc = "closed" /\ job'[j].fence = job[j].fence
      /\ \A i \in Jobs \ {j} : job'[i] = job[i]
      /\ scn' = scn /\ conv' = conv /\ lost' = lost
  BY MovedTurn DEF Refuse, Pcs
<1>2. CASE redis' = redis
  BY <1>1, <1>2, QuietPreserves DEF QuietStep, Early
<1>3. CASE Granted(j)
  <2>1. PICK n \in Nat : n = redis.clock /\ FenceBase = n
    BY NextFence
  <2>2. /\ redis.key = None
        /\ redis'.key = j /\ redis'.counter = n + 1 /\ redis'.clock = n + 1
    BY <1>3, <2>1 DEF Granted
  <2>3. scn.mode = "redis"
    BY <1>1, Constants DEF LeaseInv
  <2>4. LeaseInv'
    BY <1>0, <1>1, <2>2, <2>3 DEF LeaseInv, Renewing
  <2>5. /\ conv.fence \in Nat /\ conv.fence <= n + 1
        /\ \A i \in Jobs : job'[i].fence = job[i].fence /\ job[i].fence <= n + 1
    <3>1. conv.fence \in Nat /\ \A i \in Jobs : job[i].fence \in Nat
      BY DEF TypeOK, Turn
    <3>2. conv.fence <= n /\ \A i \in Jobs : job[i].fence <= n
      BY <2>1 DEF FenceInv
    <3> QED
      BY <1>1, <3>1, <3>2
  <2>6. \A a \in DOMAIN conv.history : conv.history[a] \in Jobs
    BY DEF TypeOK
  <2>7. ASSUME NEW i \in Jobs
        PROVE  /\ job'[i].fence <= redis'.clock
               /\ job'[i].pc \in {"new", "counted", "queued", "start", "acquire"} => job'[i].fence = 0
               /\ Renewing(i)' /\ redis'.key = i => job'[i].fence = redis'.clock
               /\ Renewing(i)' => job'[i].fence # 0
    <3>1. CASE i = j
      BY <1>1, <2>2, <2>5, <3>1 DEF Renewing
    <3>2. CASE i # j
      BY <1>1, <2>2, <2>3, <2>5, <3>2 DEF FenceInv, Renewing
    <3> QED
      BY <3>1, <3>2
  <2>8. /\ \A i, k \in Jobs : job'[i].fence = job'[k].fence /\ job'[i].fence # 0 => i = k
        /\ \A a \in DOMAIN conv.history :
             /\ job'[conv.history[a]].fence # 0
             /\ job'[conv.history[a]].fence <= conv.fence
        /\ \A a, b \in DOMAIN conv.history :
             a <= b => job'[conv.history[a]].fence <= job'[conv.history[b]].fence
    BY <2>3, <2>5, <2>6 DEF FenceInv
  <2>9. FenceInv'
    BY <1>1, <2>2, <2>5, <2>7, <2>8 DEF FenceInv
  <2> QED
    BY <2>4, <2>9
<1> QED
  BY <1>2, <1>3 DEF Refuse

\* Release: only the grant that stored the key deletes it.
LEMMA ReleaseKeeps ==
  ASSUME TypeOK, LeaseInv, FenceInv, NEW j \in Jobs, Release(j)
  PROVE  LeaseInv' /\ FenceInv'
<1>0. None \notin Jobs
  BY Constants
<1>1. /\ job[j].pc = "release" /\ job'[j].pc = "closed" /\ job'[j].fence = job[j].fence
      /\ \A i \in Jobs \ {j} : job'[i] = job[i]
      /\ scn' = scn /\ conv' = conv /\ lost' = lost
  BY MovedTurn DEF Release, Pcs
<1>2. /\ redis'.counter = redis.counter /\ redis'.clock = redis.clock
      /\ redis'.key = redis.key \/ (redis.key = j /\ redis'.key = None)
  BY DEF Release, AfterRelease, TypeOK
<1>3. LeaseInv'
  BY <1>0, <1>1, <1>2 DEF LeaseInv, Renewing
<1>4. \A a \in DOMAIN conv.history : conv.history[a] \in Jobs
  BY DEF TypeOK
<1>5. \A i \in Jobs : /\ job'[i].fence = job[i].fence
                      /\ job'[i].pc = job[i].pc \/ job'[i].pc = "closed"
  BY <1>1
<1>6. \A i \in Jobs : Renewing(i)' => Renewing(i) /\ (redis'.key = i => redis.key = i)
  BY <1>0, <1>2, <1>5 DEF Renewing
<1>7. FenceInv'
  BY <1>1, <1>2, <1>4, <1>5, <1>6 DEF FenceInv
<1> QED
  BY <1>3, <1>7

\* An append under a fence that is not stale keeps the history in order.
LEMMA AppendKeeps ==
  ASSUME TypeOK, LeaseInv, FenceInv, NEW j \in Jobs, AppendMessage(j)
  PROVE  LeaseInv' /\ FenceInv'
<1>1. /\ job[j].pc = "run" /\ ~Stale(j)
      /\ scn' = scn /\ redis' = redis /\ job' = job /\ lost' = lost
  BY DEF AppendMessage
<1>2. LeaseInv'
  BY <1>1 DEF LeaseInv, Renewing
<1>3. PICK s \in Seq(Jobs) : s = conv.history
  BY DEF TypeOK
<1>4. conv'.fence = job[j].fence /\ conv'.history = Append(s, j)
  BY <1>3 DEF AppendMessage
<1>5. /\ DOMAIN Append(s, j) = DOMAIN s \cup {Len(s) + 1}
      /\ Append(s, j)[Len(s) + 1] = j
      /\ \A m \in DOMAIN s : Append(s, j)[m] = s[m] /\ s[m] \in Jobs /\ m < Len(s) + 1
      /\ DOMAIN s \subseteq Int /\ Len(s) \in Nat
  BY <1>3
<1>6. /\ conv.fence \in Nat /\ job[j].fence \in Nat /\ conv.fence <= job[j].fence
      /\ \A i \in Jobs : job[i].fence \in Nat
      /\ job[j].fence <= redis.clock
  BY <1>1 DEF TypeOK, Turn, Stale, FenceInv
<1>7. ASSUME scn.mode = "redis"
      PROVE  /\ \A a \in DOMAIN conv'.history :
                  /\ job[conv'.history[a]].fence # 0
                  /\ job[conv'.history[a]].fence <= conv'.fence
             /\ \A a, b \in DOMAIN conv'.history :
                  a <= b => job[conv'.history[a]].fence <= job[conv'.history[b]].fence
  <2>1. /\ job[j].fence # 0
        /\ \A a \in DOMAIN s : job[s[a]].fence # 0 /\ job[s[a]].fence <= conv.fence
        /\ \A a, b \in DOMAIN s : a <= b => job[s[a]].fence <= job[s[b]].fence
    BY <1>1, <1>3, <1>7 DEF FenceInv, Renewing
  <2>2. \A a \in DOMAIN s : job[s[a]].fence <= job[j].fence
    BY <1>5, <1>6, <2>1
  <2>3. \A a \in DOMAIN Append(s, j) :
          /\ job[Append(s, j)[a]].fence # 0
          /\ job[Append(s, j)[a]].fence <= job[j].fence
    BY <1>5, <1>6, <2>1, <2>2
  <2>4. ASSUME NEW a \in DOMAIN Append(s, j), NEW b \in DOMAIN Append(s, j), a <= b
        PROVE  job[Append(s, j)[a]].fence <= job[Append(s, j)[b]].fence
    <3>1. CASE b = Len(s) + 1
      BY <1>5, <2>3, <3>1
    <3>2. CASE b \in DOMAIN s
      <4>1. a \in DOMAIN s
        BY <1>5, <2>4, <3>2
      <4> QED
        BY <1>5, <2>1, <2>4, <3>2, <4>1
    <3> QED
      BY <1>5, <3>1, <3>2
  <2> QED
    BY <1>4, <2>3, <2>4
<1>8. FenceInv'
  BY <1>1, <1>4, <1>6, <1>7 DEF FenceInv, Renewing
<1> QED
  BY <1>2, <1>8

\* A lease that ends under its holder is remembered as lost.
LEMMA LossKeeps ==
  ASSUME TypeOK, LeaseInv, FenceInv, Expire \/ LoseData
  PROVE  LeaseInv' /\ FenceInv'
<1>0. None \notin Jobs
  BY Constants
<1>1. /\ redis'.key = None /\ redis'.clock = redis.clock
      /\ redis'.counter \in {0, redis.counter}
      /\ scn' = scn /\ conv' = conv /\ job' = job /\ LoseKey
  BY DEF Expire, LoseData, TypeOK
<1>2. LeaseInv'
  BY <1>0, <1>1 DEF LeaseInv, LoseKey, Renewing
<1>3. FenceInv'
  BY <1>0, <1>1 DEF FenceInv, Renewing
<1> QED
  BY <1>2, <1>3

-----------------------------------------------------------------------------
(* Theorems *)

\* The strengthened invariant: queues, lease and fence stay right under every
\* step of every replica, of Redis and of the environment.
THEOREM TurnInvariant == Spec => []TurnInv
<1>1. Init => TurnInv
  <2> SUFFICES ASSUME Init PROVE TurnInv
    OBVIOUS
  <2>1. QueueInv
    BY QueueInvInit
  <2>2. /\ redis.key = None /\ redis.counter = 0 /\ redis.clock = 0
        /\ conv.fence = 0 /\ conv.history = <<>>
        /\ \A j \in Jobs : job[j].pc = "new" /\ job[j].fence = 0
    BY DEF Init
  <2>3. LeaseInv
    BY <2>2 DEF LeaseInv, Renewing
  <2>4. FenceInv
    BY <2>2 DEF FenceInv, Renewing
  <2> QED
    BY <2>1, <2>3, <2>4 DEF TurnInv
<1>2. TurnInv /\ [Next]_vars => TurnInv'
  <2> SUFFICES ASSUME TurnInv, [Next]_vars PROVE TurnInv'
    OBVIOUS
  <2>1. QueueInv /\ TypeOK /\ LeaseInv /\ FenceInv
    BY DEF TurnInv, QueueInv
  <2>2. QueueInv'
    BY <2>1, QueueInvNext
  <2>3. ASSUME \/ \E r \in Replicas : Submit(r) \/ Drain(r) \/ Wait(r) \/ Crash(r)
               \/ \E j \in Jobs : Enqueue(j) \/ DrainNext(j) \/ Forget(j) \/ Drop(j) \/ EndTurn(j)
               \/ UNCHANGED vars
        PROVE  LeaseInv' /\ FenceInv'
    BY <2>1, <2>2, <2>3, QuietActions, QuietPreserves
  <2>4. ASSUME NEW j \in Jobs,
               Begin(j) \/ Acquire(j) \/ Refuse(j) \/ AppendMessage(j) \/ Release(j)
        PROVE  LeaseInv' /\ FenceInv'
    BY <2>1, <2>4, BeginKeeps, AcquireKeeps, RefuseKeeps, AppendKeeps, ReleaseKeeps
  <2>5. ASSUME Expire \/ LoseData
        PROVE  LeaseInv' /\ FenceInv'
    BY <2>1, <2>5, LossKeeps
  <2>6. LeaseInv' /\ FenceInv'
    BY <2>3, <2>4, <2>5 DEF Next
  <2> QED
    BY <2>2, <2>6 DEF TurnInv
<1> QED
  BY <1>1, <1>2, PTL DEF Spec

\* Types hold, and no list ever grows past MaxQueued.
THEOREM TurnTypes == Spec => []TypeOK
<1>1. TurnInv => TypeOK
  BY DEF TurnInv, QueueInv
<1> QED
  BY <1>1, TurnInvariant, PTL

\* Without a Locker at most one replica is up.
OneReplica ==
  /\ reg \in [Replicas -> Registry]
  /\ scn.mode = "local" => \A r, x \in Replicas : reg[r].up /\ reg[x].up => r = x

\* It stays so: no step brings a replica up.
LEMMA OneReplicaHolds == Spec => []OneReplica
<1>1. Init => OneReplica
  <2> SUFFICES ASSUME Init PROVE OneReplica
    OBVIOUS
  <2>1. reg \in [Replicas -> Registry]
    BY QueueInvInit DEF QueueInv, TypeOK
  <2>2. PICK first : first = CHOOSE x \in Replicas : TRUE
    OBVIOUS
  <2>3. \A r \in Replicas : reg[r].up = (scn.mode = "redis" \/ r = first)
    BY <2>2 DEF Init
  <2>4. scn.mode = "local" => \A r \in Replicas : reg[r].up => r = first
    BY <2>3
  <2> QED
    BY <2>1, <2>4 DEF OneReplica
<1>2. TypeOK' /\ OneReplica /\ [Next]_vars => OneReplica'
  <2> SUFFICES ASSUME TypeOK', OneReplica, [Next]_vars PROVE OneReplica'
    OBVIOUS
  <2>1. scn' = scn
    BY DEF Next, Submit, Drain, Wait, Crash, Enqueue, Drop, Begin, Acquire, Refuse,
       AppendMessage, EndTurn, Release, DrainNext, Forget, Expire, LoseData, vars
  <2>2. \A x \in Replicas : reg'[x].up => reg[x].up
    <3>0. reg \in [Replicas -> Registry]
      BY DEF OneReplica
    <3>1. ASSUME NEW r \in Replicas, Submit(r) PROVE \A x \in Replicas : reg'[x].up = reg[x].up
      <4>1. PICK q, n : reg' = reg \/ reg' = [reg EXCEPT ![r].active = n, ![r].queue = q]
        BY <3>1 DEF Submit
      <4> QED
        BY <3>0, <4>1 DEF Registry
    <3>2. ASSUME NEW j \in Jobs, Enqueue(j) PROVE \A x \in Replicas : reg'[x].up = reg[x].up
      <4>1. PICK r, n : reg' = [reg EXCEPT ![r].active = n]
        BY <3>2 DEF Enqueue
      <4> QED
        BY <3>0, <4>1 DEF Registry
    <3>3. ASSUME NEW j \in Jobs, Forget(j) PROVE \A x \in Replicas : reg'[x].up = reg[x].up
      <4>1. PICK r, n, q : reg' = [reg EXCEPT ![r].active = n, ![r].queue = q]
        BY <3>3 DEF Forget
      <4> QED
        BY <3>0, <4>1 DEF Registry
    <3>4. ASSUME NEW r \in Replicas, Drain(r) \/ Wait(r) \/ Crash(r)
          PROVE  \A x \in Replicas : reg'[x].up => reg[x].up
      BY <3>0, <3>4 DEF Drain, Wait, Crash, Registry
    <3>5. reg' = reg => \A x \in Replicas : reg'[x].up = reg[x].up
      OBVIOUS
    <3> QED
      BY <3>1, <3>2, <3>3, <3>4, <3>5
         DEF Next, Drop, Begin, Acquire, Refuse, AppendMessage, EndTurn, Release,
             DrainNext, Expire, LoseData, vars
  <2> QED
    BY <2>1, <2>2 DEF OneReplica, TypeOK
<1> QED
  BY <1>1, <1>2, TurnTypes, PTL DEF Spec

\* Two turns of a conversation run at once only over a lost lease or, without a
\* Locker, over a queue forgotten in the middle of a Submit: one goroutine
\* drains a queue, and the lease names who has not lost it.
THEOREM OverlapsAreExplained == Spec => []OverlapIsExplained
<1>1. TurnInv /\ OneReplica => OverlapIsExplained
  <2> SUFFICES ASSUME TurnInv, OneReplica, NEW i \in Running, NEW j \in Running, i # j
               PROVE  IF scn.mode = "redis" THEN i \in lost \/ j \in lost
                      ELSE \E k \in {i, j} : reg[job[k].rep].queue # job[k].at
    BY DEF OverlapIsExplained
  <2>1. OneGoroutinePerQueue /\ LeaseInv /\ Placed /\ scn \in ScenarioType
    BY TurnAssumption DEF TurnInv, QueueInv, TypeOK
  <2>2. CASE scn.mode = "redis"
    BY <2>1, <2>2 DEF LeaseInv, Running, Renewing
  <2>3. CASE scn.mode # "redis"
    <3>1. scn.mode = "local"
      BY <2>1, <2>3 DEF ScenarioType
    <3>2. job[i].at # job[j].at
      BY <2>1 DEF OneGoroutinePerQueue, Driven, Running
    <3>3. job[i].rep = job[j].rep
      BY <2>1, <3>1 DEF Placed, InFlight, Running, OneReplica
    <3> QED
      BY <2>3, <3>2, <3>3
  <2> QED
    BY <2>2, <2>3
<1> QED
  BY <1>1, TurnInvariant, OneReplicaHolds, PTL

\* The history never interleaves two turns and the holder of the lease is never
\* refused, also after Redis lost its counter.
THEOREM TurnsOrdered == Spec => []FenceOrdersHistory
<1>1. TurnInv => FenceOrdersHistory
  <2> SUFFICES ASSUME TurnInv PROVE FenceOrdersHistory
    OBVIOUS
  <2>1. FenceInv /\ TypeOK
    BY DEF TurnInv, QueueInv
  <2>2. \A j \in Jobs : job[j].fence \in Nat
    BY <2>1 DEF TypeOK, Turn
  <2>3. /\ \A a \in DOMAIN conv.history : conv.history[a] \in Jobs
        /\ DOMAIN conv.history \subseteq Nat
    BY <2>1 DEF TypeOK
  <2>4. TurnsContiguous
    <3> SUFFICES ASSUME scn.mode = "redis",
                        NEW a \in DOMAIN conv.history, NEW b \in DOMAIN conv.history,
                        NEW c \in DOMAIN conv.history,
                        a < b, b < c, conv.history[a] = conv.history[c]
                 PROVE  conv.history[b] = conv.history[a]
      BY DEF TurnsContiguous
    <3>1. /\ job[conv.history[a]].fence <= job[conv.history[b]].fence
          /\ job[conv.history[b]].fence <= job[conv.history[c]].fence
          /\ job[conv.history[a]].fence # 0
      BY <2>1, <2>3 DEF FenceInv
    <3>2. job[conv.history[a]].fence = job[conv.history[b]].fence
      BY <2>2, <2>3, <3>1
    <3> QED
      BY <2>1, <2>3, <3>1, <3>2 DEF FenceInv
  <2>5. HolderNotRefused
    <3> SUFFICES ASSUME NEW j \in Running, redis.key = j
                 PROVE  ~Stale(j)
      BY DEF HolderNotRefused
    <3>1. j \in Jobs /\ Renewing(j)
      BY DEF Running, Renewing
    <3>2. job[j].fence = redis.clock /\ conv.fence <= redis.clock
      BY <2>1, <3>1 DEF FenceInv
    <3>3. conv.fence \in Nat /\ redis.clock \in Nat
      BY <2>1 DEF TypeOK
    <3> QED
      BY <3>2, <3>3 DEF Stale
  <2> QED
    BY <2>4, <2>5 DEF FenceOrdersHistory
<1> QED
  BY <1>1, TurnInvariant, PTL

\* When Wait has reported TRUE, the replica has no turn left and gets none.
THEOREM TurnsWaited == Spec => []WaitMeansQuiet
<1>1. TurnInv => WaitMeansQuiet
  BY DEF TurnInv, QueueInv
<1> QED
  BY <1>1, TurnInvariant, PTL
=============================================================================
