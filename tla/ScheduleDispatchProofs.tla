----------------------- MODULE ScheduleDispatchProofs -----------------------
(***************************************************************************)
(* What ScheduleDispatch guarantees for every number of replicas, every set *)
(* of rules and every length of behaviour, proved with TLAPS.               *)
(*                                                                         *)
(* ScheduleInv is about deliveries: a dispatcher that has yet to record a   *)
(* firing finds it undelivered, and a sweeper that has yet to send holds    *)
(* the only settlement.  DueInv is about due times: those claimed since     *)
(* the last edit of the rule are before next_fire_at, and the sweeps that   *)
(* read the row before the failure count reached its bound are as many as   *)
(* may still claim past it.                                                 *)
(***************************************************************************)
EXTENDS ScheduleDispatch, SequenceTheorems, FiniteSetTheorems, TLAPS

RowState ==
  [exists : BOOLEAN, enabled : BOOLEAN, reason : Reasons, failures : Nat,
   rule : Rules, target : BOOLEAN, next : Nat, edits : Nat]

Bounds == [ticks : Nat, edits : Nat, continues : Nat, faults : Nat,
           kinds : SUBSET EditKinds, target : BOOLEAN]

FireState ==
  [due : Nat, edits : Nat, run : Ended \cup {"none", "ACTIVE"}, last : Ended \cup {"none", "ACTIVE"},
   delivery : {"none", "pending", "delivered", "skipped", "failed"}, sent : Nat]

Holding == {"start", "record"}           \* the firing is not recorded yet
Fired   == Holding \cup {"recordFailed"}
Sending == {"send", "sendFailed"}        \* the settlement was won

DispState ==
  [pc : {"idle"}] \cup [pc : {"check", "claim"}, row : RowState, now : Nat]
  \cup [pc : {"pause"}, reason : Reasons] \cup [pc : Fired, failures : Nat, fire : Nat]

SendState ==
  [pc : {"idle"}] \cup [pc : {"settle"}, fire : Nat, to : {"skipped", "delivered"}]
  \cup [pc : Sending, fire : Nat]

EditState ==
  [pc : {"idle", "enable", "disable", "target"}]
  \cup [pc : {"rule"}, rule : Rules, next : Nat]

\* A stored reason belongs to a paused schedule.
Reasoned(x) == x.enabled => x.reason = ""

RowInv ==
  /\ now \in Nat /\ over \in Nat /\ row \in RowState /\ left \in Bounds /\ edit \in EditState
  /\ Reasoned(row)
  /\ \E s \in Scenarios : now + left.ticks = s.ticks

\* A firing x of a schedule that exists, or does not.
FireOK(x, exists) ==
  /\ x.run = "none" => x.delivery = "none"
  /\ x.delivery = "pending" => exists
  /\ x.sent <= 1
  /\ x.sent = 1 /\ exists => x.delivery \in {"delivered", "failed"}

FireInv == fire \in Seq(FireState) /\ \A f \in DOMAIN fire : FireOK(fire[f], row.exists)

\* What a dispatcher in state d relies on, of the firings fs and the clock t.
DispOK(d, fs, t) ==
  /\ d.pc \in {"check", "claim"} => d.row.next <= d.now /\ d.now <= t
  /\ d.pc = "claim" => Parses(d.row.rule)
  /\ d.pc \in Fired => d.fire \in DOMAIN fs
  /\ d.pc \in Holding => fs[d.fire].delivery = "none"
  /\ d.pc = "record" => fs[d.fire].run # "none"

DispInv ==
  /\ disp \in [Replicas -> DispState]
  /\ \A r \in Replicas : DispOK(disp[r], fire, now)
  /\ \A r, q \in Replicas : r # q /\ disp[r].pc \in Holding /\ disp[q].pc \in Holding =>
       disp[r].fire # disp[q].fire

\* What a sweeper in state s relies on.
SendOK(s, fs, exists) ==
  /\ s.pc # "idle" => s.fire \in DOMAIN fs
  /\ s.pc \in Sending /\ exists => fs[s.fire].delivery \in {"delivered", "failed"}
  /\ s.pc = "send" => /\ fs[s.fire].sent = 0
                      /\ exists => fs[s.fire].delivery = "delivered"

SendInv ==
  /\ send \in [Replicas -> SendState]
  /\ \A r \in Replicas : SendOK(send[r], fire, row.exists)
  /\ \A r, q \in Replicas : r # q /\ send[r].pc \in Sending /\ send[q].pc \in Sending =>
       send[r].fire # send[q].fire

ScheduleInv == RowInv /\ FireInv /\ DispInv /\ SendInv

\* Snapshot d.row, read when the row's due time was no later than next, while o
\* claims have been made since the failure count reached its bound.
SnapshotOK(d, next, o) ==
  d.pc \in {"check", "claim"} =>
    /\ d.row.next <= next
    /\ o >= 1 /\ d.row.next = next => d.pc = "check" /\ Exhausted(d.row)

\* A sweep whose snapshot is still under the failure bound, and may yet claim.
Unspent(d) == d.pc \in {"check", "claim"} /\ ~Exhausted(d.row)
Stale == {r \in Replicas : Unspent(disp[r])}

\* The due times claimed since the rule was last edited are behind the row's.
ClaimedInv ==
  /\ \A f \in DOMAIN fire :
       fire[f].edits <= row.edits /\ (fire[f].edits = row.edits => fire[f].due < row.next)
  /\ OneFirePerEdit

\* Before the first edit no snapshot is ahead of the row; after it, each late
\* claim has used up a snapshot from before the count reached its bound.
LateInv ==
  /\ row.edits = 0 => over <= 1 /\ \A r \in Replicas : SnapshotOK(disp[r], row.next, over)
  /\ \A r \in Replicas : disp[r].pc = "claim" => Unspent(disp[r])
  /\ ~AtBound(row) => over = 0
  /\ over + Cardinality(Stale) <= Cardinality(Replicas)

DueInv == ClaimedInv /\ LateInv

-----------------------------------------------------------------------------
(* Operators of the model *)

\* Arithmetic of the next multiple.
LEMMA NextMultiple ==
  ASSUME NEW p \in Nat, NEW q \in Nat
  PROVE  (q + 1) * p = p * q + p /\ p * q \in Nat
OBVIOUS

\* A rule's next due time is strictly later, so a claim always moves
\* next_fire_at past the instant its sweep read.
LEMMA NextFireLater ==
  ASSUME NEW rule \in Rules, Parses(rule), NEW after \in Nat
  PROVE  NextFire(rule, after) \in Nat /\ NextFire(rule, after) > after
<1>p. PICK p \in Nat \ {0} : p = Period[rule]
  BY ScheduleAssumption DEF Parses
<1>q. PICK q \in Nat : q = after \div p
  OBVIOUS
<1>1. after = p * q + (after % p) /\ after % p \in 0..(p - 1)
  BY <1>q
<1>2. PICK m \in 0..(p - 1) : after = p * q + m
  BY <1>1
<1>3. NextFire(rule, after) = (q + 1) * p
  BY <1>p, <1>q DEF NextFire
<1>4. PICK z \in Nat : z = p * q /\ (q + 1) * p = z + p
  BY NextMultiple
<1>5. after = z + m /\ NextFire(rule, after) = z + p
  BY <1>2, <1>3, <1>4
<1> QED
  BY <1>5

\* Spending a bound other than ticks leaves the ticks.
LEMMA SpendKeeps ==
  ASSUME left \in Bounds, NEW b \in {"edits", "continues", "faults"}, Spend(b)
  PROVE  left' \in Bounds /\ left'.ticks = left.ticks
<1>1. CASE b = "edits"
  BY <1>1 DEF Bounds, Spend
<1>2. CASE b = "continues"
  BY <1>2 DEF Bounds, Spend
<1>3. CASE b = "faults"
  BY <1>3 DEF Bounds, Spend
<1> QED
  BY <1>1, <1>2, <1>3

\* The writes to the row keep its type; only a reset changes what counts.
LEMMA RowWrites ==
  ASSUME NEW x \in RowState, Reasoned(x)
  PROVE  /\ Enabled(x) \in RowState /\ Reasoned(Enabled(x))
         /\ Enabled(x).exists = x.exists /\ Enabled(x).next = x.next /\ Enabled(x).edits = x.edits
         /\ \A why \in Reasons :
              /\ Disabled(x, why) \in RowState /\ Reasoned(Disabled(x, why))
              /\ Disabled(x, why).exists = x.exists /\ Disabled(x, why).next = x.next
              /\ Disabled(x, why).failures = x.failures /\ Disabled(x, why).edits = x.edits
         /\ \A y \in {Failed(x), Succeeded(x)} :
              /\ y \in RowState /\ Reasoned(y)
              /\ y.exists = x.exists /\ y.next = x.next /\ y.edits = x.edits
<1>r. "" \in Reasons
  BY DEF Reasons
<1>1. /\ Enabled(x) \in RowState /\ Reasoned(Enabled(x))
      /\ Enabled(x).exists = x.exists /\ Enabled(x).next = x.next /\ Enabled(x).edits = x.edits
  BY <1>r DEF Enabled, RowState, Reasoned
<1>2. ASSUME NEW why \in Reasons
      PROVE  /\ Disabled(x, why) \in RowState /\ Reasoned(Disabled(x, why))
             /\ Disabled(x, why).exists = x.exists /\ Disabled(x, why).next = x.next
             /\ Disabled(x, why).failures = x.failures /\ Disabled(x, why).edits = x.edits
  BY DEF Disabled, RowState, Reasoned
<1>n. PICK n \in Nat : n = x.failures + 1
  BY DEF RowState
<1>3. Failed(x) = [x EXCEPT !.failures = n] /\ Succeeded(x) = [x EXCEPT !.failures = 0]
  BY <1>n DEF Failed, Succeeded
<1>4. ASSUME NEW m \in Nat, NEW y, y = [x EXCEPT !.failures = m]
      PROVE  y \in RowState /\ Reasoned(y) /\ y.exists = x.exists /\ y.next = x.next /\ y.edits = x.edits
  <2>1. /\ y \in RowState /\ y.enabled = x.enabled /\ y.reason = x.reason
        /\ y.exists = x.exists /\ y.next = x.next /\ y.edits = x.edits
    BY <1>4 DEF RowState
  <2> QED
    BY <2>1 DEF Reasoned
<1>5. \A y \in {Failed(x), Succeeded(x)} :
        y \in RowState /\ Reasoned(y) /\ y.exists = x.exists /\ y.next = x.next /\ y.edits = x.edits
  BY <1>3, <1>4
<1> QED
  BY <1>1, <1>2, <1>5

-----------------------------------------------------------------------------
(* What a step may do to the parts it does not own *)

\* A firing, as far as the dispatcher that claimed it relies on it.
DispKeeps(f) ==
  /\ f \in DOMAIN fire'
  /\ fire[f].delivery = "none" => fire'[f].delivery = "none"
  /\ fire[f].run # "none" => fire'[f].run # "none"

\* A firing, as far as the sweeper that settled it relies on it.
SendKeeps(f) ==
  /\ f \in DOMAIN fire'
  /\ fire'[f].sent = fire[f].sent
  /\ row'.exists /\ fire[f].delivery \in {"delivered", "failed"} =>
       fire'[f].delivery = fire[f].delivery

\* One dispatcher moves.
LEMMA DispStep ==
  ASSUME ScheduleInv, now' \in Nat, now <= now', NEW r \in Replicas, NEW d \in DispState,
         disp' = [disp EXCEPT ![r] = d], DispOK(d, fire', now'),
         d.pc \in Holding => \A q \in Replicas \ {r} :
           disp[q].pc \in Holding => disp[q].fire # d.fire,
         \A q \in Replicas \ {r} : disp[q].pc \in Fired => DispKeeps(disp[q].fire)
  PROVE  DispInv'
<1>0. disp \in [Replicas -> DispState] /\ now \in Nat
  BY DEF ScheduleInv, DispInv, RowInv
<1>1. disp' \in [Replicas -> DispState] /\ disp'[r] = d
      /\ \A q \in Replicas \ {r} : disp'[q] = disp[q]
  BY <1>0
<1>2. ASSUME NEW q \in Replicas \ {r} PROVE DispOK(disp[q], fire', now')
  <2>1. DispOK(disp[q], fire, now) /\ disp[q] \in DispState
    BY <1>0 DEF ScheduleInv, DispInv
  <2>2. disp[q].pc \in {"check", "claim"} => disp[q].now \in Nat /\ disp[q].now <= now'
    BY <1>0, <2>1 DEF DispOK, DispState, Fired, Holding
  <2> QED
    BY <2>1, <2>2 DEF DispOK, DispKeeps, Fired, Holding
<1>3. \A q \in Replicas : DispOK(disp'[q], fire', now')
  BY <1>1, <1>2
<1>4. \A p, q \in Replicas : p # q /\ disp'[p].pc \in Holding /\ disp'[q].pc \in Holding =>
        disp'[p].fire # disp'[q].fire
  BY <1>1 DEF ScheduleInv, DispInv
<1> QED
  BY <1>1, <1>3, <1>4 DEF DispInv

\* No dispatcher moves.
LEMMA DispSame ==
  ASSUME ScheduleInv, now' \in Nat, now <= now', disp' = disp,
         \A f \in DOMAIN fire : DispKeeps(f)
  PROVE  DispInv'
<1>0. disp \in [Replicas -> DispState] /\ now \in Nat
  BY DEF ScheduleInv, DispInv, RowInv
<1>1. ASSUME NEW q \in Replicas PROVE DispOK(disp[q], fire', now')
  <2>1. DispOK(disp[q], fire, now) /\ disp[q] \in DispState
    BY <1>0 DEF ScheduleInv, DispInv
  <2>2. disp[q].pc \in {"check", "claim"} => disp[q].now \in Nat /\ disp[q].now <= now'
    BY <1>0, <2>1 DEF DispOK, DispState, Fired, Holding
  <2> QED
    BY <2>1, <2>2 DEF DispOK, DispKeeps, Fired, Holding
<1> QED
  BY <1>0, <1>1 DEF ScheduleInv, DispInv

\* One sweeper moves.
LEMMA SendStep ==
  ASSUME ScheduleInv, row'.exists => row.exists, NEW r \in Replicas, NEW s \in SendState,
         send' = [send EXCEPT ![r] = s], SendOK(s, fire', row'.exists),
         s.pc \in Sending => \A q \in Replicas \ {r} :
           send[q].pc \in Sending => send[q].fire # s.fire,
         \A q \in Replicas \ {r} : send[q].pc # "idle" =>
           /\ send[q].fire \in DOMAIN fire'
           /\ send[q].pc \in Sending => SendKeeps(send[q].fire)
  PROVE  SendInv'
<1>0. send \in [Replicas -> SendState]
  BY DEF ScheduleInv, SendInv
<1>1. send' \in [Replicas -> SendState] /\ send'[r] = s
      /\ \A q \in Replicas \ {r} : send'[q] = send[q]
  BY <1>0
<1>2. ASSUME NEW q \in Replicas \ {r} PROVE SendOK(send[q], fire', row'.exists)
  <2>1. SendOK(send[q], fire, row.exists)
    BY DEF ScheduleInv, SendInv
  <2> QED
    BY <2>1 DEF SendOK, SendKeeps, Sending
<1>3. \A q \in Replicas : SendOK(send'[q], fire', row'.exists)
  BY <1>1, <1>2
<1>4. \A p, q \in Replicas : p # q /\ send'[p].pc \in Sending /\ send'[q].pc \in Sending =>
        send'[p].fire # send'[q].fire
  BY <1>1 DEF ScheduleInv, SendInv
<1> QED
  BY <1>1, <1>3, <1>4 DEF SendInv

\* No sweeper moves.
LEMMA SendSame ==
  ASSUME ScheduleInv, row'.exists => row.exists, send' = send,
         \A f \in DOMAIN fire : SendKeeps(f)
  PROVE  SendInv'
<1>1. ASSUME NEW q \in Replicas PROVE SendOK(send[q], fire', row'.exists)
  <2>1. SendOK(send[q], fire, row.exists)
    BY DEF ScheduleInv, SendInv
  <2> QED
    BY <2>1 DEF SendOK, SendKeeps, Sending
<1> QED
  BY <1>1 DEF ScheduleInv, SendInv

\* The firings do not change, and the schedule is not deleted.
LEMMA FireSame ==
  ASSUME ScheduleInv, fire' = fire, row'.exists = row.exists
  PROVE  /\ FireInv'
         /\ \A f \in DOMAIN fire : DispKeeps(f) /\ SendKeeps(f)
BY DEF ScheduleInv, FireInv, DispKeeps, SendKeeps

\* One firing changes.
LEMMA FireStep ==
  ASSUME ScheduleInv, row'.exists = row.exists, NEW f \in DOMAIN fire,
         NEW x \in FireState, fire' = [fire EXCEPT ![f] = x], FireOK(x, row.exists)
  PROVE  /\ FireInv' /\ DOMAIN fire' = DOMAIN fire /\ fire'[f] = x
         /\ \A g \in DOMAIN fire : g # f =>
              fire'[g] = fire[g] /\ DispKeeps(g) /\ SendKeeps(g)
<1>0. fire \in Seq(FireState) /\ f \in 1..Len(fire) /\ DOMAIN fire = 1..Len(fire)
  BY DEF ScheduleInv, FireInv
<1>1. fire' \in Seq(FireState) /\ DOMAIN fire' = DOMAIN fire /\ fire'[f] = x
      /\ \A g \in DOMAIN fire : g # f => fire'[g] = fire[g]
  BY <1>0, ExceptSeq
<1>2. \A g \in DOMAIN fire : FireOK(fire[g], row.exists)
  BY DEF ScheduleInv, FireInv
<1>3. FireInv'
  BY <1>1, <1>2 DEF FireInv
<1> QED
  BY <1>1, <1>3 DEF DispKeeps, SendKeeps

\* The row, the clock and the edit in progress.
LEMMA RowStep ==
  ASSUME ScheduleInv, now' = now, over' \in Nat, row' \in RowState,
         Reasoned(row'), edit' \in EditState,
         left' \in Bounds, left'.ticks = left.ticks
  PROVE  RowInv'
BY DEF ScheduleInv, RowInv

\* UpdateSchedule writes a row or finds none.
LEMMA UpdateKeeps ==
  ASSUME ScheduleInv, NEW x \in RowState, Reasoned(x),
         x.exists = row.exists, UpdateSchedule(x)
  PROVE  row' \in RowState /\ Reasoned(row') /\ row'.exists = row.exists
BY DEF ScheduleInv, RowInv, UpdateSchedule

\* The count of late claims stays a number.
LEMMA RecountKeeps ==
  ASSUME ScheduleInv, NEW x, Recount(x)
  PROVE  over' \in Nat /\ (AtBound(x) => over' = over) /\ (~AtBound(x) => over' = 0)
BY DEF ScheduleInv, RowInv, Recount

-----------------------------------------------------------------------------
(* The dispatcher *)

\* A dispatcher that ends up with no firing to record touches no firing.
LEMMA DispOnly ==
  ASSUME ScheduleInv, RowInv', now' = now, row'.exists = row.exists,
         UNCHANGED <<fire, send>>, NEW r \in Replicas, NEW d \in DispState,
         disp' = [disp EXCEPT ![r] = d], DispOK(d, fire, now), d.pc \notin Holding
  PROVE  ScheduleInv'
<1>0. now \in Nat /\ \A q \in Replicas : DispOK(disp[q], fire, now)
  BY DEF ScheduleInv, RowInv, DispInv
<1>1. FireInv' /\ \A f \in DOMAIN fire : DispKeeps(f) /\ SendKeeps(f)
  BY FireSame
<1>2. \A q \in Replicas : disp[q].pc \in Fired => disp[q].fire \in DOMAIN fire
  BY <1>0 DEF DispOK
<1>3. DispInv'
  <2>1. DispOK(d, fire', now') /\ now' \in Nat /\ now <= now'
    BY <1>0
  <2>2. \A q \in Replicas \ {r} : disp[q].pc \in Fired => DispKeeps(disp[q].fire)
    BY <1>1, <1>2
  <2> QED
    BY <2>1, <2>2, DispStep
<1>4. SendInv'
  BY <1>1, SendSame
<1> QED
  BY <1>1, <1>3, <1>4 DEF ScheduleInv

\* The states a dispatcher rests or pauses in.
LEMMA RestingStates ==
  /\ Idle \in DispState /\ Idle.pc = "idle" /\ Idle \in SendState /\ Idle \in EditState
  /\ \A why \in Reasons :
       LET d == [pc |-> "pause", reason |-> why] IN d \in DispState /\ d.pc = "pause"
  /\ {"invalid_cron", "creator_disabled", "creator_not_member", "consecutive_failures",
      "manual"} \subseteq Reasons
<1>1. Idle \in DispState /\ Idle.pc = "idle" /\ Idle \in SendState /\ Idle \in EditState
  BY DEF Idle, DispState, SendState, EditState
<1>2. ASSUME NEW why \in Reasons
      PROVE  LET d == [pc |-> "pause", reason |-> why] IN d \in DispState /\ d.pc = "pause"
  BY DEF DispState
<1> QED
  BY <1>1, <1>2 DEF Reasons

\* A state that holds neither a snapshot nor a firing relies on nothing.
LEMMA RestsOK ==
  ASSUME NEW d, d.pc \in {"idle", "pause"}, NEW fs, NEW t
  PROVE  DispOK(d, fs, t) /\ d.pc \notin Holding
BY DEF DispOK, Fired, Holding

\* A dispatcher is done with the schedule.
LEMMA FinishKeeps ==
  ASSUME ScheduleInv, RowInv', now' = now, row'.exists = row.exists,
         UNCHANGED <<fire, send>>, NEW r \in Replicas, Finish(r)
  PROVE  ScheduleInv'
<1>d. PICK d \in DispState : d = Idle /\ d.pc = "idle"
  BY RestingStates
<1>1. DispOK(d, fire, now) /\ d.pc \notin Holding
  BY <1>d, RestsOK
<1> QED
  BY <1>d, <1>1, DispOnly DEF Finish

\* The sweep reads a row that is due.
LEMMA SweepKeeps ==
  ASSUME ScheduleInv, NEW r \in Replicas, Sweep(r) PROVE ScheduleInv'
<1>0. /\ row \in RowState /\ now \in Nat /\ row.next <= now
      /\ UNCHANGED <<now, row, fire, send, edit, over, left>>
  BY DEF ScheduleInv, RowInv, Sweep, IsDue
<1>d. PICK d : d = [pc |-> "check", row |-> row, now |-> now]
  OBVIOUS
<1>1. d \in DispState /\ d.pc = "check" /\ d.row = row /\ d.now = now
  BY <1>0, <1>d DEF DispState
<1>2. DispOK(d, fire, now) /\ d.pc \notin Holding
  BY <1>0, <1>1 DEF DispOK, Fired, Holding
<1>3. RowInv'
  BY <1>0, RowStep DEF ScheduleInv, RowInv
<1> QED
  BY <1>0, <1>1, <1>2, <1>3, <1>d, DispOnly DEF Sweep

\* Pausing, giving up or claiming: decided from the snapshot.
LEMMA DecideKeeps ==
  ASSUME ScheduleInv, NEW r \in Replicas, Decide(r) \/ EligibilityUnavailable(r)
  PROVE  ScheduleInv'
<1>0. /\ disp[r].pc = "check" /\ UNCHANGED <<now, row, fire, send, edit, over>>
      /\ disp \in [Replicas -> DispState] /\ DispOK(disp[r], fire, now)
      /\ left \in Bounds
  BY DEF ScheduleInv, DispInv, RowInv, Decide, EligibilityUnavailable
<1>1. left' \in Bounds /\ left'.ticks = left.ticks
  BY <1>0, SpendKeeps DEF Decide, EligibilityUnavailable
<1>2. RowInv'
  BY <1>0, <1>1, RowStep DEF ScheduleInv, RowInv
<1>3. ASSUME Finish(r) PROVE ScheduleInv'
  BY <1>0, <1>2, <1>3, FinishKeeps
<1>4. ASSUME NEW why \in Reasons, PauseFor(r, why) PROVE ScheduleInv'
  <2>d. PICK d : d = [pc |-> "pause", reason |-> why]
    OBVIOUS
  <2>1. d \in DispState /\ DispOK(d, fire, now) /\ d.pc \notin Holding
    BY <2>d, RestingStates, RestsOK
  <2> QED
    BY <1>0, <1>2, <1>4, <2>d, <2>1, DispOnly DEF PauseFor
<1>5. ASSUME Goto(r, "claim"), Parses(disp[r].row.rule) PROVE ScheduleInv'
  <2>d. PICK d : d = [disp[r] EXCEPT !.pc = "claim"]
    OBVIOUS
  <2>0. disp[r] \in [pc : {"check", "claim"}, row : RowState, now : Nat]
    BY <1>0 DEF DispState, Fired, Holding
  <2>1. d \in [pc : {"check", "claim"}, row : RowState, now : Nat]
        /\ d.pc = "claim" /\ d.row = disp[r].row /\ d.now = disp[r].now
    BY <2>0, <2>d
  <2>2. d \in DispState
    BY <2>1 DEF DispState
  <2>3. DispOK(d, fire, now) /\ d.pc \notin Holding
    BY <1>0, <1>5, <2>1 DEF DispOK, Fired, Holding
  <2>4. disp' = [disp EXCEPT ![r] = d]
    BY <1>0, <1>5, <2>d DEF Goto
  <2> QED
    BY <1>0, <1>2, <2>2, <2>3, <2>4, DispOnly
<1>6. CASE Decide(r)
  <2>1. \/ \E why \in {"invalid_cron", "creator_disabled", "creator_not_member",
                       "consecutive_failures"} : PauseFor(r, why)
        \/ Goto(r, "claim") /\ Parses(disp[r].row.rule)
    BY <1>6 DEF Decide, OnUnparsable
  <2> QED
    BY <1>4, <1>5, <2>1, RestingStates
<1> QED
  BY <1>3, <1>6 DEF EligibilityUnavailable

\* A pause disables the row as it is now.
LEMMA PauseKeeps ==
  ASSUME ScheduleInv, NEW r \in Replicas, Pause(r) PROVE ScheduleInv'
<1>0. /\ disp[r].pc = "pause" /\ UNCHANGED <<now, fire, send, edit, over, left>>
      /\ disp[r] \in DispState /\ row \in RowState /\ Reasoned(row)
  BY DEF ScheduleInv, DispInv, RowInv, Pause
<1>1. disp[r].reason \in Reasons
  BY <1>0 DEF DispState, Fired, Holding
<1>x. PICK x : x = Disabled(row, disp[r].reason)
  OBVIOUS
<1>2. x \in RowState /\ Reasoned(x) /\ x.exists = row.exists
  BY <1>0, <1>1, <1>x, RowWrites
<1>3. row' \in RowState /\ Reasoned(row') /\ row'.exists = row.exists
  BY <1>2, <1>x, UpdateKeeps DEF Pause
<1>4. RowInv'
  BY <1>0, <1>3, RowStep DEF ScheduleInv, RowInv
<1> QED
  BY <1>0, <1>3, <1>4, FinishKeeps DEF Pause

\* A failed firing is counted; the dispatcher has nothing left to record.
LEMMA RecordFailedKeeps ==
  ASSUME ScheduleInv, NEW r \in Replicas, RecordFailedFire(r) PROVE ScheduleInv'
<1>0. /\ UNCHANGED <<now, fire, send, edit, left>>
      /\ row \in RowState /\ Reasoned(row)
  BY DEF ScheduleInv, RowInv, RecordFailedFire
<1>x. PICK x : x = Failed(row)
  OBVIOUS
<1>1. x \in RowState /\ Reasoned(x) /\ x.exists = row.exists
  BY <1>0, <1>x, RowWrites
<1>2. row' \in RowState /\ Reasoned(row') /\ row'.exists = row.exists
  BY <1>1, <1>x, UpdateKeeps DEF RecordFailedFire
<1>3. PICK y : y = row'
  OBVIOUS
<1>4. over' \in Nat
  BY <1>3, RecountKeeps DEF RecordFailedFire
<1>5. RowInv'
  BY <1>0, <1>2, <1>4, RowStep DEF ScheduleInv, RowInv
<1>6. PICK d \in DispState :
        disp' = [disp EXCEPT ![r] = d] /\ DispOK(d, fire, now) /\ d.pc \notin Holding
  <2>d. PICK d : d = [pc |-> "pause", reason |-> "consecutive_failures"]
    OBVIOUS
  <2>1. d \in DispState /\ d.pc = "pause"
    BY <2>d, RestingStates
  <2> QED
    BY <2>d, <2>1, RestingStates, RestsOK DEF RecordFailedFire, PauseFor, Finish
<1> QED
  BY <1>0, <1>2, <1>5, <1>6, DispOnly

\* The claim: a new firing, held by this dispatcher alone.
LEMMA ClaimKeeps ==
  ASSUME ScheduleInv, NEW r \in Replicas, Claim(r) PROVE ScheduleInv'
<1>0. /\ disp[r].pc = "claim" /\ UNCHANGED <<now, send, edit, left>>
      /\ row \in RowState /\ Reasoned(row) /\ over \in Nat
      /\ fire \in Seq(FireState) /\ now \in Nat
      /\ disp[r] \in DispState /\ DispOK(disp[r], fire, now)
      /\ \A q \in Replicas : DispOK(disp[q], fire, now)
      /\ \A q \in Replicas : SendOK(send[q], fire, row.exists)
      /\ \A f \in DOMAIN fire : FireOK(fire[f], row.exists)
  BY DEF ScheduleInv, DispInv, SendInv, FireInv, RowInv, Claim
<1>s. PICK s \in RowState : s = disp[r].row
  BY <1>0 DEF DispState, Fired, Holding
<1>t. PICK t \in Nat : t = disp[r].now
  BY <1>0 DEF DispState, Fired, Holding
<1>1. CASE ~MayClaim(s)
  <2>1. Finish(r) /\ UNCHANGED <<row, fire, over>>
    BY <1>1, <1>s DEF Claim
  <2>2. RowInv'
    BY <1>0, <2>1, RowStep DEF ScheduleInv, RowInv
  <2> QED
    BY <1>0, <2>1, <2>2, FinishKeeps
<1>2. CASE MayClaim(s)
  <2>n. PICK n \in Nat : n = NextFire(s.rule, t)
    <3>1. s.rule \in Rules /\ Parses(s.rule)
      BY <1>0, <1>s DEF RowState, DispOK
    <3> QED
      BY <3>1, NextFireLater
  <2>x. PICK x : x = NewFire(s.next, row.edits)
    OBVIOUS
  <2>d. PICK d : d = [pc |-> "start", failures |-> s.failures, fire |-> Len(fire) + 1]
    OBVIOUS
  <2>1. /\ row' = [row EXCEPT !.next = n] /\ fire' = Append(fire, x)
        /\ over' \in {over, over + 1} /\ disp' = [disp EXCEPT ![r] = d]
    BY <1>2, <1>s, <1>t, <2>n, <2>x, <2>d DEF Claim
  <2>2. row' \in RowState /\ row'.exists = row.exists /\ row'.enabled = row.enabled
        /\ row'.reason = row.reason
    BY <1>0, <2>1 DEF RowState
  <2>3. RowInv'
    <3>1. over' \in Nat
      BY <1>0, <2>1
    <3>2. Reasoned(row')
      BY <1>0, <2>2 DEF Reasoned
    <3> QED
      BY <1>0, <2>2, <3>1, <3>2, RowStep DEF ScheduleInv, RowInv
  <2>4. x \in FireState /\ FireOK(x, row.exists) /\ x.delivery = "none"
    <3>1. s.next \in Nat /\ row.edits \in Nat
      BY <1>0 DEF RowState
    <3>2. x \in FireState /\ x.run = "none" /\ x.delivery = "none" /\ x.sent = 0
      BY <2>x, <3>1 DEF NewFire, FireState
    <3> QED
      BY <3>2 DEF FireOK
  <2>5. /\ fire' \in Seq(FireState) /\ Len(fire') = Len(fire) + 1
        /\ DOMAIN fire = 1..Len(fire) /\ DOMAIN fire' = 1..(Len(fire) + 1)
        /\ \A f \in DOMAIN fire : fire'[f] = fire[f]
        /\ fire'[Len(fire) + 1] = x /\ Len(fire) \in Nat
    BY <1>0, <2>1, <2>4, AppendProperties, LenProperties
  <2>6. \A f \in DOMAIN fire : f \in DOMAIN fire' /\ DispKeeps(f) /\ SendKeeps(f)
    BY <2>5 DEF DispKeeps, SendKeeps
  <2>7. FireInv'
    BY <1>0, <2>2, <2>4, <2>5 DEF FireInv
  <2>8. d \in DispState /\ d.pc = "start" /\ d.fire = Len(fire) + 1
    <3>1. s.failures \in Nat /\ Len(fire) + 1 \in Nat
      BY <2>5 DEF RowState
    <3> QED
      BY <2>d, <3>1 DEF DispState, Fired, Holding
  <2>9. DispInv'
    <3>1. DispOK(d, fire', now')
      BY <2>4, <2>5, <2>8 DEF DispOK, Fired, Holding
    <3>2. \A q \in Replicas : disp[q].pc \in Fired => disp[q].fire \in DOMAIN fire
      BY <1>0 DEF DispOK
    <3>3. \A q \in Replicas \ {r} : disp[q].pc \in Holding => disp[q].fire # d.fire
      BY <2>5, <2>8, <3>2 DEF Fired
    <3>4. \A q \in Replicas \ {r} : disp[q].pc \in Fired => DispKeeps(disp[q].fire)
      BY <2>6, <3>2
    <3>5. now' \in Nat /\ now <= now'
      BY <1>0
    <3> QED
      BY <2>1, <2>8, <3>1, <3>3, <3>4, <3>5, DispStep
  <2>10. SendInv'
    BY <1>0, <2>2, <2>6, SendSame
  <2> QED
    BY <2>3, <2>7, <2>9, <2>10 DEF ScheduleInv
<1> QED
  BY <1>1, <1>2

\* A dispatcher's step on the firing it holds, from which it goes on to d.
LEMMA HolderStep ==
  ASSUME ScheduleInv, UNCHANGED <<now, row, send, edit, over, left>>,
         NEW r \in Replicas, disp[r].pc \in Holding, NEW x \in FireState,
         fire' = fire \/ fire' = [fire EXCEPT ![disp[r].fire] = x],
         FireOK(x, row.exists), x.sent = fire[disp[r].fire].sent,
         NEW d \in DispState, disp' = [disp EXCEPT ![r] = d], DispOK(d, fire', now),
         d.pc \in Holding => d.fire = disp[r].fire
  PROVE  ScheduleInv'
<1>f. PICK f \in DOMAIN fire : f = disp[r].fire /\ fire[f].delivery = "none"
  BY DEF ScheduleInv, DispInv, DispOK, Fired
<1>0. /\ now \in Nat
      /\ \A q \in Replicas : DispOK(disp[q], fire, now)
      /\ \A q \in Replicas \ {r} : disp[q].pc \in Holding => disp[q].fire # f
  BY <1>f DEF ScheduleInv, DispInv, RowInv
<1>1. RowInv'
  BY RowStep DEF ScheduleInv, RowInv
<1>2. /\ FireInv' /\ DOMAIN fire' = DOMAIN fire
      /\ \A g \in DOMAIN fire : g # f => fire'[g] = fire[g] /\ DispKeeps(g) /\ SendKeeps(g)
      /\ fire'[f] = fire[f] \/ fire'[f] = x
  BY <1>f, FireStep, FireSame
<1>3. fire'[f].sent = fire[f].sent
  BY <1>f, <1>2
<1>4. \A g \in DOMAIN fire : SendKeeps(g)
  BY <1>f, <1>2, <1>3 DEF SendKeeps
<1>5. SendInv'
  BY <1>4, SendSame
<1>6. DispInv'
  <2>1. now' \in Nat /\ now <= now' /\ DispOK(d, fire', now')
    BY <1>0
  <2>2. d.pc \in Holding => \A q \in Replicas \ {r} :
          disp[q].pc \in Holding => disp[q].fire # d.fire
    BY <1>0, <1>f
  <2>3. ASSUME NEW q \in Replicas \ {r} PROVE DispOK(disp[q], fire', now')
    <3>1. DispOK(disp[q], fire, now)
      BY <1>0
    <3>2. disp[q].pc \in Holding => disp[q].fire # f /\ disp[q].fire \in DOMAIN fire
      BY <1>0, <3>1 DEF DispOK, Fired
    <3> QED
      BY <1>2, <3>1, <3>2 DEF DispOK, Fired, Holding
  <2>4. disp \in [Replicas -> DispState]
    BY DEF ScheduleInv, DispInv
  <2>5. disp' \in [Replicas -> DispState] /\ disp'[r] = d
        /\ \A q \in Replicas \ {r} : disp'[q] = disp[q]
    BY <2>4
  <2>6. \A q \in Replicas : DispOK(disp'[q], fire', now')
    BY <2>1, <2>3, <2>5
  <2>7. \A p, q \in Replicas : p # q /\ disp'[p].pc \in Holding /\ disp'[q].pc \in Holding =>
          disp'[p].fire # disp'[q].fire
    BY <2>2, <2>5 DEF ScheduleInv, DispInv
  <2> QED
    BY <2>5, <2>6, <2>7 DEF DispInv
<1> QED
  BY <1>1, <1>2, <1>5, <1>6 DEF ScheduleInv

\* The firing starts its work, or fails to; it stays undelivered.
LEMMA StartKeeps ==
  ASSUME ScheduleInv, NEW r \in Replicas, StartExecutor(r) PROVE ScheduleInv'
<1>0. /\ disp[r].pc = "start" /\ UNCHANGED <<now, row, send, edit, over, left>>
      /\ disp \in [Replicas -> DispState] /\ fire \in Seq(FireState)
  BY DEF ScheduleInv, DispInv, FireInv, StartExecutor
<1>f. PICK f \in DOMAIN fire : f = disp[r].fire /\ fire[f].delivery = "none"
  BY <1>0 DEF ScheduleInv, DispInv, DispOK, Fired, Holding
<1>1. fire[f] \in FireState /\ FireOK(fire[f], row.exists)
  BY <1>0, <1>f DEF ScheduleInv, FireInv
<1>x. PICK x : x = [fire[f] EXCEPT !.run = "ACTIVE", !.last = "ACTIVE"]
  OBVIOUS
<1>2. x \in FireState /\ x.run = "ACTIVE" /\ x.delivery = "none" /\ x.sent = fire[f].sent
  BY <1>f, <1>1, <1>x DEF FireState
<1>3. FireOK(x, row.exists)
  BY <1>f, <1>1, <1>2 DEF FireOK
<1>4. PICK pc \in {"record", "recordFailed"} :
        /\ Goto(r, pc)
        /\ fire' = [fire EXCEPT ![f] = x] \/ (pc = "recordFailed" /\ fire' = fire)
  BY <1>0, <1>f, <1>x DEF StartExecutor
<1>d. PICK d : d = [disp[r] EXCEPT !.pc = pc]
  OBVIOUS
<1>5. disp[r] \in [pc : Fired, failures : Nat, fire : Nat]
  BY <1>0 DEF DispState, Fired, Holding
<1>6. d \in [pc : Fired, failures : Nat, fire : Nat] /\ d.pc = pc /\ d.fire = f
  BY <1>f, <1>5, <1>d DEF Fired, Holding
<1>7. d \in DispState
  BY <1>6 DEF DispState
<1>8. disp' = [disp EXCEPT ![r] = d]
  BY <1>0, <1>4, <1>d DEF Goto
<1>9. fire' = fire \/ (DOMAIN fire' = DOMAIN fire /\ fire'[f] = x)
  BY <1>4
<1>10. DispOK(d, fire', now)
  BY <1>2, <1>4, <1>6, <1>9 DEF DispOK, Fired, Holding
<1> QED
  BY <1>0, <1>f, <1>2, <1>3, <1>4, <1>6, <1>7, <1>8, <1>10, HolderStep DEF Holding

\* A recorded firing has its delivery, if the row has a target by now.
LEMMA RecordKeeps ==
  ASSUME ScheduleInv, NEW r \in Replicas, RecordFire(r) PROVE ScheduleInv'
<1>0. /\ disp[r].pc = "record" /\ UNCHANGED <<now, row, send, edit, over, left>>
      /\ fire \in Seq(FireState)
  BY DEF ScheduleInv, FireInv, RecordFire
<1>f. PICK f \in DOMAIN fire : /\ f = disp[r].fire /\ fire[f].delivery = "none"
                               /\ fire[f].run # "none"
  BY <1>0 DEF ScheduleInv, DispInv, DispOK, Fired, Holding
<1>1. fire[f] \in FireState /\ FireOK(fire[f], row.exists)
  BY <1>0, <1>f DEF ScheduleInv, FireInv
<1>x. PICK x : x = IF row.exists THEN [fire[f] EXCEPT !.delivery = "pending"] ELSE fire[f]
  OBVIOUS
<1>2. x \in FireState /\ x.sent = fire[f].sent /\ x.run = fire[f].run
      /\ x.delivery = IF row.exists THEN "pending" ELSE "none"
  BY <1>f, <1>1, <1>x DEF FireState
<1>3. FireOK(x, row.exists)
  BY <1>f, <1>1, <1>2 DEF FireOK
<1>4. fire' = fire \/ fire' = [fire EXCEPT ![f] = x]
  BY <1>0, <1>f, <1>x DEF RecordFire
<1>d. PICK d \in DispState : d = Idle /\ d.pc = "idle"
  BY RestingStates
<1>5. DispOK(d, fire', now) /\ d.pc \notin Holding
  BY <1>d, RestsOK
<1> QED
  BY <1>0, <1>f, <1>2, <1>3, <1>4, <1>d, <1>5, HolderStep DEF Holding, RecordFire, Finish

-----------------------------------------------------------------------------
(* The delivery sweeper *)

\* A sweeper lists a delivery that has not been settled.
LEMMA PlanKeeps ==
  ASSUME ScheduleInv, NEW r \in Replicas, PlanDelivery(r) PROVE ScheduleInv'
<1>1. PICK f \in DOMAIN fire, to \in {"skipped", "delivered"} :
        send' = [send EXCEPT ![r] = [pc |-> "settle", fire |-> f, to |-> to]]
  BY DEF PlanDelivery, Plans
<1>2. UNCHANGED <<now, row, fire, disp, edit, over, left>>
  BY DEF PlanDelivery
<1>s. PICK s : s = [pc |-> "settle", fire |-> f, to |-> to]
  OBVIOUS
<1>3. f \in Nat
  BY DEF ScheduleInv, FireInv
<1>4. s \in SendState /\ s.pc = "settle" /\ s.fire = f
  BY <1>s, <1>3 DEF SendState
<1>5. RowInv'
  BY <1>2, RowStep DEF ScheduleInv, RowInv
<1>6. FireInv' /\ \A g \in DOMAIN fire : DispKeeps(g) /\ SendKeeps(g)
  BY <1>2, FireSame
<1>7. DispInv'
  BY <1>2, DispSame, <1>6 DEF ScheduleInv, RowInv
<1>8. SendOK(s, fire', row'.exists)
  BY <1>2, <1>4 DEF SendOK, Sending
<1>9. \A q \in Replicas : send[q].pc # "idle" => send[q].fire \in DOMAIN fire
  BY DEF ScheduleInv, SendInv, SendOK
<1>10. SendInv'
  BY <1>1, <1>2, <1>s, <1>4, <1>6, <1>8, <1>9, SendStep DEF Sending
<1> QED
  BY <1>5, <1>6, <1>7, <1>10 DEF ScheduleInv

\* A sweeper's step on the firing it settles or sends, from which it goes on to s.
LEMMA SenderStep ==
  ASSUME ScheduleInv, UNCHANGED <<now, row, disp, edit, over, left>>,
         NEW r \in Replicas, NEW f \in DOMAIN fire, f = send[r].fire, NEW x \in FireState,
         fire' = fire \/ fire' = [fire EXCEPT ![f] = x],
         FireOK(x, row.exists),
         fire[f].delivery = "none" => x.delivery = "none",
         fire[f].run # "none" => x.run # "none",
         \/ fire[f].delivery = "pending"
         \/ send[r].pc \in Sending,
         NEW s \in SendState, send' = [send EXCEPT ![r] = s],
         SendOK(s, fire', row.exists), s.pc \in Sending => s.fire = f
  PROVE  ScheduleInv'
<1>0. /\ now \in Nat
      /\ \A q \in Replicas : SendOK(send[q], fire, row.exists)
      /\ fire[f].delivery = "pending" => row.exists
  BY DEF ScheduleInv, SendInv, RowInv, FireInv, FireOK
<1>1. RowInv'
  BY RowStep DEF ScheduleInv, RowInv
<1>2. /\ FireInv' /\ DOMAIN fire' = DOMAIN fire
      /\ \A g \in DOMAIN fire : g # f => fire'[g] = fire[g] /\ DispKeeps(g) /\ SendKeeps(g)
      /\ fire'[f] = fire[f] \/ fire'[f] = x
  BY FireStep, FireSame
<1>3. \A g \in DOMAIN fire : DispKeeps(g)
  BY <1>2 DEF DispKeeps
<1>4. DispInv'
  BY <1>0, <1>3, DispSame
<1>5. ASSUME NEW q \in Replicas \ {r}, send[q].pc \in Sending PROVE send[q].fire # f
  <2>1. CASE fire[f].delivery = "pending"
    BY <1>0, <1>5, <2>1 DEF SendOK
  <2>2. CASE send[r].pc \in Sending
    BY <1>5, <2>2 DEF ScheduleInv, SendInv
  <2> QED
    BY <2>1, <2>2
<1>6. \A q \in Replicas \ {r} : send[q].pc # "idle" =>
        /\ send[q].fire \in DOMAIN fire'
        /\ send[q].pc \in Sending => SendKeeps(send[q].fire)
  BY <1>0, <1>2, <1>5 DEF SendOK
<1>7. SendInv'
  <2>1. row'.exists = row.exists /\ SendOK(s, fire', row'.exists)
    OBVIOUS
  <2>2. s.pc \in Sending => \A q \in Replicas \ {r} :
          send[q].pc \in Sending => send[q].fire # s.fire
    BY <1>5
  <2> QED
    BY <1>6, <2>1, <2>2, SendStep
<1> QED
  BY <1>1, <1>2, <1>4, <1>7 DEF ScheduleInv

\* The firing a busy sweeper works on.
LEMMA SenderFacts ==
  ASSUME ScheduleInv, NEW r \in Replicas, send[r].pc # "idle"
  PROVE  /\ send[r].fire \in DOMAIN fire /\ fire[send[r].fire] \in FireState
         /\ FireOK(fire[send[r].fire], row.exists)
         /\ SendOK(send[r], fire, row.exists)
         /\ send \in [Replicas -> SendState] /\ send[r] \in SendState
<1>1. SendOK(send[r], fire, row.exists) /\ fire \in Seq(FireState)
  BY DEF ScheduleInv, SendInv, FireInv
<1>2. send[r].fire \in DOMAIN fire
  BY <1>1 DEF SendOK
<1> QED
  BY <1>1, <1>2 DEF ScheduleInv, SendInv, FireInv

\* Settling: the compare-and-set leaves one winner, and nothing is sent yet.
LEMMA SettleKeeps ==
  ASSUME ScheduleInv, NEW r \in Replicas, Settle(r) PROVE ScheduleInv'
<1>0. send[r].pc = "settle" /\ UNCHANGED <<now, row, disp, edit, over, left>>
  BY DEF Settle
<1>f. PICK f \in DOMAIN fire : /\ f = send[r].fire /\ fire[f] \in FireState
                               /\ FireOK(fire[f], row.exists)
  BY <1>0, SenderFacts
<1>t. PICK to \in {"skipped", "delivered"} : to = send[r].to
  BY <1>0, SenderFacts DEF SendState, Sending
<1>i. PICK i \in SendState : i = Idle /\ i.pc = "idle"
  BY RestingStates
<1>1. CASE fire[f].delivery # "pending"
  <2>1. fire' = fire /\ send' = [send EXCEPT ![r] = i]
    BY <1>1, <1>f, <1>i DEF Settle, SettleWins, Rest
  <2>2. RowInv'
    BY <1>0, RowStep DEF ScheduleInv, RowInv
  <2>3. FireInv' /\ \A g \in DOMAIN fire : DispKeeps(g) /\ SendKeeps(g)
    BY <1>0, <2>1, FireSame
  <2>4. DispInv'
    BY <1>0, <2>3, DispSame DEF ScheduleInv, RowInv
  <2>5. SendOK(i, fire', row'.exists) /\ i.pc \notin Sending /\ row'.exists = row.exists
    BY <1>0, <1>i DEF SendOK, Sending
  <2>6. \A q \in Replicas : send[q].pc # "idle" => send[q].fire \in DOMAIN fire
    BY SenderFacts
  <2>7. SendInv'
    BY <2>1, <2>3, <2>5, <2>6, SendStep
  <2> QED
    BY <2>2, <2>3, <2>4, <2>7 DEF ScheduleInv
<1>2. CASE fire[f].delivery = "pending"
  <2>x. PICK x : x = [fire[f] EXCEPT !.delivery = to]
    OBVIOUS
  <2>1. x \in FireState /\ x.delivery = to /\ x.sent = fire[f].sent /\ x.run = fire[f].run
    BY <1>f, <2>x DEF FireState
  <2>2. x.sent = 0
    BY <1>f, <1>2, <2>1 DEF FireOK, FireState
  <2>3. FireOK(x, row.exists)
    BY <1>f, <1>2, <2>1, <2>2 DEF FireOK
  <2>4. fire' = [fire EXCEPT ![f] = x]
    BY <1>2, <1>f, <1>t, <2>x DEF Settle, SettleWins
  <2>5. fire'[f] = x /\ DOMAIN fire' = DOMAIN fire
    BY <2>4
  <2>s. PICK s : s = IF to = "delivered" THEN [pc |-> "send", fire |-> f] ELSE i
    OBVIOUS
  <2>6. send' = [send EXCEPT ![r] = s]
    BY <1>2, <1>f, <1>t, <1>i, <2>s DEF Settle, SettleWins, Rest
  <2>7. f \in Nat
    BY DEF ScheduleInv, FireInv
  <2>8. CASE to = "delivered"
    <3>1. s \in SendState /\ s.pc = "send" /\ s.fire = f
      BY <2>s, <2>7, <2>8 DEF SendState, Sending
    <3>2. SendOK(s, fire', row.exists)
      BY <2>1, <2>2, <2>5, <2>8, <3>1 DEF SendOK, Sending
    <3> QED
      BY <1>0, <1>f, <1>2, <2>1, <2>3, <2>4, <2>6, <3>1, <3>2, SenderStep
  <2>9. CASE to # "delivered"
    <3>1. s \in SendState /\ s.pc = "idle"
      BY <1>i, <2>s, <2>9
    <3>2. SendOK(s, fire', row.exists) /\ s.pc \notin Sending
      BY <3>1 DEF SendOK, Sending
    <3> QED
      BY <1>0, <1>f, <1>2, <2>1, <2>3, <2>4, <2>6, <3>1, <3>2, SenderStep
  <2> QED
    BY <2>8, <2>9
<1> QED
  BY <1>1, <1>2

\* Sending: the holder of the settlement sends once, whatever it is told.
LEMMA SendsKeep ==
  ASSUME ScheduleInv, NEW r \in Replicas, Send(r) PROVE ScheduleInv'
<1>0. send[r].pc = "send" /\ UNCHANGED <<now, row, disp, edit, over, left>>
  BY DEF Send
<1>f. PICK f \in DOMAIN fire : /\ f = send[r].fire /\ fire[f] \in FireState
                               /\ FireOK(fire[f], row.exists)
                               /\ fire[f].sent = 0
                               /\ row.exists => fire[f].delivery = "delivered"
  BY <1>0, SenderFacts DEF SendOK
<1>x. PICK x : x = [fire[f] EXCEPT !.sent = 1]
  OBVIOUS
<1>1. x \in FireState /\ x.sent = 1 /\ x.delivery = fire[f].delivery /\ x.run = fire[f].run
  BY <1>f, <1>x DEF FireState
<1>2. FireOK(x, row.exists)
  BY <1>f, <1>1 DEF FireOK
<1>3. [fire EXCEPT ![f].sent = @ + 1] = [fire EXCEPT ![f] = x]
  BY <1>f, <1>x
<1>i. PICK i \in SendState : i = Idle /\ i.pc = "idle"
  BY RestingStates
<1>b. PICK b : b = [pc |-> "sendFailed", fire |-> f]
  OBVIOUS
<1>4. /\ fire' = fire \/ fire' = [fire EXCEPT ![f] = x]
      /\ \E s \in {i, b} : send' = [send EXCEPT ![r] = s]
  BY <1>f, <1>3, <1>i, <1>b DEF Send, Rest
<1>5. PICK s \in {i, b} : send' = [send EXCEPT ![r] = s]
  BY <1>4
<1>6. f \in Nat
  BY DEF ScheduleInv, FireInv
<1>7. b \in SendState /\ b.pc = "sendFailed" /\ b.fire = f
  BY <1>b, <1>6 DEF SendState, Sending
<1>8. DOMAIN fire' = DOMAIN fire /\ (fire'[f] = fire[f] \/ fire'[f] = x)
  BY <1>4
<1>9. SendOK(s, fire', row.exists) /\ s \in SendState /\ (s.pc \in Sending => s.fire = f)
  BY <1>f, <1>1, <1>i, <1>5, <1>7, <1>8 DEF SendOK, Sending
<1> QED
  BY <1>0, <1>f, <1>1, <1>2, <1>4, <1>5, <1>9, SenderStep DEF Sending

\* A send that failed is recorded, if the delivery still says delivered.
LEMMA SendFailureKeeps ==
  ASSUME ScheduleInv, NEW r \in Replicas, RecordSendFailure(r) PROVE ScheduleInv'
<1>0. send[r].pc = "sendFailed" /\ UNCHANGED <<now, row, disp, edit, over, left>>
  BY DEF RecordSendFailure
<1>f. PICK f \in DOMAIN fire : /\ f = send[r].fire /\ fire[f] \in FireState
                               /\ FireOK(fire[f], row.exists)
  BY <1>0, SenderFacts
<1>x. PICK x : x = IF fire[f].delivery = "delivered"
                   THEN [fire[f] EXCEPT !.delivery = "failed"] ELSE fire[f]
  OBVIOUS
<1>1. /\ x \in FireState /\ x.sent = fire[f].sent /\ x.run = fire[f].run
      /\ fire[f].delivery # "delivered" => x.delivery = fire[f].delivery
      /\ fire[f].delivery = "delivered" => x.delivery = "failed"
  BY <1>f, <1>x DEF FireState
<1>2. FireOK(x, row.exists)
  BY <1>f, <1>1 DEF FireOK
<1>3. fire' = fire \/ fire' = [fire EXCEPT ![f] = x]
  BY <1>f, <1>x DEF RecordSendFailure, SettleWins
<1>i. PICK i \in SendState : i = Idle /\ i.pc = "idle"
  BY RestingStates
<1>4. SendOK(i, fire', row.exists) /\ i.pc \notin Sending
  BY <1>i DEF SendOK, Sending
<1>5. send' = [send EXCEPT ![r] = i]
  BY <1>i DEF RecordSendFailure, Rest
<1> QED
  BY <1>0, <1>f, <1>1, <1>2, <1>3, <1>4, <1>5, SenderStep DEF Sending

-----------------------------------------------------------------------------
(* Runs and people *)

\* How a firing's work goes on is neither the dispatchers' nor the sweepers'.
LEMMA WorkStep ==
  ASSUME ScheduleInv, RowInv', now' = now, row'.exists = row.exists,
         UNCHANGED <<disp, send>>, NEW f \in DOMAIN fire, NEW x \in FireState,
         fire' = [fire EXCEPT ![f] = x], x.sent = fire[f].sent,
         x.delivery = fire[f].delivery, fire[f].run # "none", x.run # "none"
  PROVE  ScheduleInv'
<1>0. now \in Nat /\ FireOK(fire[f], row.exists)
  BY DEF ScheduleInv, RowInv, FireInv
<1>1. FireOK(x, row.exists)
  BY <1>0 DEF FireOK
<1>2. /\ FireInv' /\ DOMAIN fire' = DOMAIN fire /\ fire'[f] = x
      /\ \A g \in DOMAIN fire : g # f => DispKeeps(g) /\ SendKeeps(g)
  BY <1>1, FireStep
<1>3. \A g \in DOMAIN fire : DispKeeps(g) /\ SendKeeps(g)
  BY <1>2 DEF DispKeeps, SendKeeps
<1>4. DispInv'
  BY <1>0, <1>3, DispSame
<1>5. SendInv'
  BY <1>3, SendSame
<1> QED
  BY <1>2, <1>4, <1>5 DEF ScheduleInv

\* Only the row, the clock, the edit and the bounds change.
LEMMA RowOnly ==
  ASSUME ScheduleInv, RowInv', now <= now', row'.exists = row.exists,
         UNCHANGED <<fire, disp, send>>
  PROVE  ScheduleInv'
<1>1. FireInv' /\ \A f \in DOMAIN fire : DispKeeps(f) /\ SendKeeps(f)
  BY FireSame
<1>2. DispInv'
  BY <1>1, DispSame DEF RowInv
<1>3. SendInv'
  BY <1>1, SendSame
<1> QED
  BY <1>1, <1>2, <1>3 DEF ScheduleInv

\* A run ends and its outcome is folded into the count.
LEMMA EndRunKeeps ==
  ASSUME ScheduleInv, NEW f \in DOMAIN fire, EndRun(f) PROVE ScheduleInv'
<1>0. /\ fire[f].run = "ACTIVE" /\ UNCHANGED <<now, disp, send, edit, left>>
      /\ fire[f] \in FireState /\ row \in RowState /\ Reasoned(row)
  BY DEF ScheduleInv, FireInv, RowInv, EndRun
<1>v. PICK v \in Ended :
        /\ fire' = [fire EXCEPT ![f].run = v, ![f].last = v]
        /\ \/ UpdateSchedule(Succeeded(row)) \/ UpdateSchedule(Failed(row))
           \/ row' = row
        /\ Recount(row')
  BY DEF EndRun, Ended
<1>x. PICK x : x = [fire[f] EXCEPT !.run = v, !.last = v]
  OBVIOUS
<1>1. /\ x \in FireState /\ x.run # "none" /\ x.sent = fire[f].sent
      /\ x.delivery = fire[f].delivery
  BY <1>0, <1>x DEF FireState, Ended
<1>2. fire' = [fire EXCEPT ![f] = x]
  BY <1>v, <1>x
<1>3. row' \in RowState /\ Reasoned(row') /\ row'.exists = row.exists
  <2>1. \A y \in {Failed(row), Succeeded(row)} :
          y \in RowState /\ Reasoned(y) /\ y.exists = row.exists
    BY <1>0, RowWrites
  <2>2. PICK y, z : y = Failed(row) /\ z = Succeeded(row)
    OBVIOUS
  <2>3. /\ y \in RowState /\ Reasoned(y) /\ y.exists = row.exists
        /\ z \in RowState /\ Reasoned(z) /\ z.exists = row.exists
    BY <2>1, <2>2
  <2>4. CASE UpdateSchedule(y)
    BY <2>3, <2>4, UpdateKeeps
  <2>5. CASE UpdateSchedule(z)
    BY <2>3, <2>5, UpdateKeeps
  <2>6. CASE row' = row
    BY <1>0, <2>6
  <2> QED
    BY <1>v, <2>2, <2>4, <2>5, <2>6
<1>4. over' \in Nat
  <2>1. PICK y : y = row'
    OBVIOUS
  <2> QED
    BY <1>v, <2>1, RecountKeeps
<1>5. RowInv'
  BY <1>0, <1>3, <1>4, RowStep DEF ScheduleInv, RowInv
<1> QED
  BY <1>0, <1>1, <1>2, <1>3, <1>5, WorkStep

\* A person's further runs of the Task.
LEMMA ContinueKeeps ==
  ASSUME ScheduleInv, NEW f \in DOMAIN fire, ContinueTask(f) \/ EndContinued(f)
  PROVE  ScheduleInv'
<1>0. /\ UNCHANGED <<now, row, disp, send, edit, over>>
      /\ fire[f] \in FireState /\ left \in Bounds
  BY DEF ScheduleInv, FireInv, RowInv, ContinueTask, EndContinued
<1>1. left' \in Bounds /\ left'.ticks = left.ticks
  BY <1>0, SpendKeeps DEF ContinueTask, EndContinued
<1>2. RowInv'
  BY <1>0, <1>1, RowStep DEF ScheduleInv, RowInv
<1>3. PICK v \in Ended \cup {"ACTIVE"} : fire' = [fire EXCEPT ![f].last = v]
  BY DEF ContinueTask, EndContinued
<1>x. PICK x : x = [fire[f] EXCEPT !.last = v]
  OBVIOUS
<1>4. x \in FireState /\ x.run = fire[f].run /\ x.sent = fire[f].sent
      /\ x.delivery = fire[f].delivery
  BY <1>0, <1>x DEF FireState
<1>5. fire' = [fire EXCEPT ![f] = x]
  BY <1>3, <1>x
<1>6. CASE fire[f].run # "none"
  BY <1>0, <1>2, <1>4, <1>5, <1>6, WorkStep
<1>7. CASE fire[f].run = "none"
  <2>1. FireOK(x, row.exists)
    BY <1>4 DEF ScheduleInv, FireInv, FireOK
  <2>2. /\ FireInv' /\ fire'[f] = x /\ DOMAIN fire' = DOMAIN fire
        /\ \A g \in DOMAIN fire : g # f => DispKeeps(g) /\ SendKeeps(g)
    BY <1>0, <1>4, <1>5, <2>1, FireStep
  <2>3. \A g \in DOMAIN fire : DispKeeps(g) /\ SendKeeps(g)
    BY <1>4, <2>2 DEF DispKeeps, SendKeeps
  <2>4. DispInv' /\ SendInv'
    BY <1>0, <2>3, DispSame, SendSame DEF ScheduleInv, RowInv
  <2> QED
    BY <1>2, <2>2, <2>4 DEF ScheduleInv
<1> QED
  BY <1>6, <1>7

\* An edit reads, then writes.
LEMMA EditKeeps ==
  ASSUME ScheduleInv, BeginEdit \/ WriteEdit PROVE ScheduleInv'
<1>0. /\ now \in Nat /\ row \in RowState /\ Reasoned(row) /\ left \in Bounds
      /\ edit \in EditState
  BY DEF ScheduleInv, RowInv
<1>1. CASE BeginEdit
  <2>1. UNCHANGED <<now, row, fire, disp, send, over>>
    BY <1>1 DEF BeginEdit
  <2>2. left' \in Bounds /\ left'.ticks = left.ticks
    BY <1>0, <1>1, SpendKeeps DEF BeginEdit, May
  <2>3. edit' \in EditState
    <3>1. ASSUME NEW kind \in {"enable", "disable", "target"} PROVE [pc |-> kind] \in EditState
      BY DEF EditState
    <3>2. ASSUME NEW rule \in Rules, Parses(rule)
          PROVE  [pc |-> "rule", rule |-> rule, next |-> NextFire(rule, now)] \in EditState
      <4>1. PICK n \in Nat : n = NextFire(rule, now)
        BY <1>0, <3>2, NextFireLater
      <4>2. [pc |-> "rule", rule |-> rule, next |-> n] \in EditState
        BY DEF EditState
      <4> QED
        BY <4>1, <4>2
    <3> QED
      BY <1>1, <3>1, <3>2 DEF BeginEdit
  <2>4. RowInv'
    BY <1>0, <2>1, <2>2, <2>3, RowStep DEF ScheduleInv, RowInv
  <2> QED
    BY <1>0, <2>1, <2>4, RowOnly
<1>2. CASE WriteEdit
  <2>1. UNCHANGED <<now, fire, disp, send, left>> /\ edit' \in EditState /\ Recount(row')
    BY <1>2, RestingStates DEF WriteEdit
  <2>2. PICK y : y = row'
    OBVIOUS
  <2>3. over' \in Nat
    BY <2>1, <2>2, RecountKeeps
  <2>4. PICK x \in RowState : Reasoned(x) /\ x.exists = row.exists /\ UpdateSchedule(x)
    <3>1. CASE edit.pc = "enable"
      <4>1. PICK x : x = Enabled(row)
        OBVIOUS
      <4> QED
        BY <1>0, <1>2, <3>1, <4>1, RowWrites DEF WriteEdit
    <3>2. CASE edit.pc = "disable"
      <4>1. PICK x : x = Disabled(row, "manual")
        OBVIOUS
      <4> QED
        BY <1>0, <1>2, <3>2, <4>1, RowWrites, RestingStates DEF WriteEdit
    <3>3. CASE edit.pc = "target"
      <4>1. PICK x : x = [row EXCEPT !.target = ~@]
        OBVIOUS
      <4>2. x \in RowState /\ x.enabled = row.enabled /\ x.reason = row.reason
            /\ x.exists = row.exists
        BY <1>0, <4>1 DEF RowState
      <4>3. Reasoned(x)
        BY <1>0, <4>2 DEF Reasoned
      <4> QED
        BY <1>2, <3>3, <4>1, <4>2, <4>3 DEF WriteEdit
    <3>4. CASE edit.pc = "rule"
      <4>n. PICK n \in Nat : n = row.edits + 1
        BY <1>0 DEF RowState
      <4>1. PICK x : x = [row EXCEPT !.rule = edit.rule, !.next = edit.next, !.edits = n]
        OBVIOUS
      <4>2. edit.rule \in Rules /\ edit.next \in Nat
        BY <1>0, <3>4 DEF EditState
      <4>3. x \in RowState /\ x.enabled = row.enabled /\ x.reason = row.reason
            /\ x.exists = row.exists
        BY <1>0, <4>1, <4>2 DEF RowState
      <4>4. Reasoned(x)
        BY <1>0, <4>3 DEF Reasoned
      <4> QED
        BY <1>2, <3>4, <4>n, <4>1, <4>3, <4>4 DEF WriteEdit
    <3>5. edit.pc \in {"enable", "disable", "target", "rule"}
      BY <1>0, <1>2 DEF WriteEdit, EditState
    <3> QED
      BY <3>1, <3>2, <3>3, <3>4, <3>5
  <2>5. row' \in RowState /\ Reasoned(row') /\ row'.exists = row.exists
    BY <2>4, UpdateKeeps
  <2>6. RowInv'
    BY <1>0, <2>1, <2>3, <2>5, RowStep DEF ScheduleInv, RowInv
  <2> QED
    BY <1>0, <2>1, <2>5, <2>6, RowOnly
<1> QED
  BY <1>1, <1>2

\* A deleted schedule has no deliveries, so nothing is pending and what a sweeper
\* still holds can no longer be recorded.
LEMMA DeleteKeeps ==
  ASSUME ScheduleInv, DeleteSchedule PROVE ScheduleInv'
<1>0. /\ UNCHANGED <<now, disp, send, edit, over>> /\ row \in RowState /\ Reasoned(row)
      /\ left \in Bounds /\ now \in Nat /\ fire \in Seq(FireState)
  BY DEF ScheduleInv, RowInv, FireInv, DeleteSchedule
<1>1. left' \in Bounds /\ left'.ticks = left.ticks
  BY <1>0, SpendKeeps DEF DeleteSchedule, May
<1>2. row' \in RowState /\ row'.exists = FALSE /\ row'.enabled = row.enabled
      /\ row'.reason = row.reason
  BY <1>0 DEF DeleteSchedule, RowState
<1>3. Reasoned(row')
  BY <1>0, <1>2 DEF Reasoned
<1>4. RowInv'
  BY <1>0, <1>1, <1>2, <1>3, RowStep DEF ScheduleInv, RowInv
<1>5. ASSUME NEW f \in DOMAIN fire
      PROVE  /\ fire'[f] \in FireState /\ fire'[f].delivery = "none"
             /\ fire'[f].sent = fire[f].sent /\ fire'[f].run = fire[f].run
  <2>1. fire[f] \in FireState /\ fire'[f] = [fire[f] EXCEPT !.delivery = "none"]
    BY <1>0 DEF DeleteSchedule
  <2> QED
    BY <2>1 DEF FireState
<1>6. DOMAIN fire' = DOMAIN fire /\ fire' \in Seq(FireState)
  <2>1. DOMAIN fire = 1..Len(fire) /\ Len(fire) \in Nat
    BY <1>0
  <2>2. fire' = [i \in 1..Len(fire) |-> [fire[i] EXCEPT !.delivery = "none"]]
    BY <2>1 DEF DeleteSchedule
  <2>3. \A i \in 1..Len(fire) : [fire[i] EXCEPT !.delivery = "none"] \in FireState
    BY <1>5, <2>1, <2>2
  <2> QED
    BY <2>1, <2>2, <2>3, IsASeq
<1>7. FireInv'
  BY <1>2, <1>5, <1>6 DEF ScheduleInv, FireInv, FireOK
<1>8. \A f \in DOMAIN fire : DispKeeps(f) /\ SendKeeps(f)
  BY <1>2, <1>5, <1>6 DEF DispKeeps, SendKeeps
<1>9. DispInv'
  BY <1>0, <1>8, DispSame
<1>10. SendInv'
  BY <1>0, <1>2, <1>8, SendSame
<1> QED
  BY <1>4, <1>7, <1>9, <1>10 DEF ScheduleInv

\* The creator's standing changes; a disabled account's schedule is paused.
LEMMA AuthorityKeeps ==
  ASSUME ScheduleInv, ChangeAuthority \/ PauseDisabledAccount PROVE ScheduleInv'
<1>0. /\ now \in Nat /\ row \in RowState /\ Reasoned(row) /\ left \in Bounds
      /\ UNCHANGED <<now, fire, disp, send, edit, over>>
  BY DEF ScheduleInv, RowInv, ChangeAuthority, PauseDisabledAccount
<1>1. left' \in Bounds /\ left'.ticks = left.ticks
  BY <1>0, SpendKeeps DEF ChangeAuthority, May, PauseDisabledAccount
<1>2. PICK x \in RowState : Reasoned(x) /\ x.exists = row.exists /\ (row' = row \/ UpdateSchedule(x))
  <2>1. PICK x : x = Disabled(row, "creator_disabled")
    OBVIOUS
  <2>2. x \in RowState /\ Reasoned(x) /\ x.exists = row.exists
    BY <1>0, <2>1, RowWrites, RestingStates
  <2>3. row' = row \/ UpdateSchedule(x)
    BY <2>1 DEF ChangeAuthority, PauseDisabledAccount
  <2> QED
    BY <2>2, <2>3
<1>3. row' \in RowState /\ Reasoned(row') /\ row'.exists = row.exists
  BY <1>0, <1>2, UpdateKeeps
<1>4. RowInv'
  BY <1>0, <1>1, <1>3, RowStep DEF ScheduleInv, RowInv
<1> QED
  BY <1>0, <1>3, <1>4, RowOnly

\* A minute passes.
LEMMA TickKeeps ==
  ASSUME ScheduleInv, Tick PROVE ScheduleInv'
<1>0. /\ now \in Nat /\ left \in Bounds /\ now' = now + 1
      /\ UNCHANGED <<row, fire, disp, send, edit, over>>
      /\ \E s \in Scenarios : now + left.ticks = s.ticks
  BY DEF ScheduleInv, RowInv, Tick
<1>1. left' \in Bounds /\ left.ticks = left'.ticks + 1 /\ left'.ticks \in Nat
  BY <1>0 DEF Tick, Spend, Bounds
<1>2. now' \in Nat /\ now' + left'.ticks = now + left.ticks /\ now <= now'
  BY <1>0, <1>1
<1>3. RowInv'
  BY <1>0, <1>1, <1>2 DEF ScheduleInv, RowInv
<1> QED
  BY <1>0, <1>2, <1>3, RowOnly

\* A replica that dies forgets what it held; the other replicas lose nothing.
LEMMA CrashKeeps ==
  ASSUME ScheduleInv, NEW r \in Replicas, Crash(r) PROVE ScheduleInv'
<1>0. /\ now \in Nat /\ left \in Bounds /\ UNCHANGED <<now, row, fire, edit, over>>
      /\ disp' = [disp EXCEPT ![r] = Idle] /\ send' = [send EXCEPT ![r] = Idle]
      /\ \A q \in Replicas : DispOK(disp[q], fire, now)
      /\ \A q \in Replicas : SendOK(send[q], fire, row.exists)
  BY DEF ScheduleInv, RowInv, DispInv, SendInv, Crash
<1>1. left' \in Bounds /\ left'.ticks = left.ticks
  BY <1>0, SpendKeeps DEF Crash
<1>2. RowInv'
  BY <1>0, <1>1, RowStep DEF ScheduleInv, RowInv
<1>3. FireInv' /\ \A f \in DOMAIN fire : DispKeeps(f) /\ SendKeeps(f)
  BY <1>0, FireSame
<1>4. DispInv'
  <2>1. DispOK(Idle, fire', now') /\ Idle.pc \notin Holding /\ Idle \in DispState
    BY RestingStates, RestsOK
  <2>2. now' \in Nat /\ now <= now'
    BY <1>0
  <2>3. \A q \in Replicas \ {r} : disp[q].pc \in Fired => DispKeeps(disp[q].fire)
    BY <1>0, <1>3 DEF DispOK
  <2> QED
    BY <1>0, <2>1, <2>2, <2>3, DispStep
<1>5. SendInv'
  <2>1. /\ SendOK(Idle, fire', row'.exists) /\ Idle.pc \notin Sending /\ Idle \in SendState
        /\ row'.exists = row.exists
    BY <1>0, RestingStates DEF SendOK, Sending
  <2>2. \A q \in Replicas \ {r} : send[q].pc # "idle" =>
          send[q].fire \in DOMAIN fire' /\ SendKeeps(send[q].fire)
    BY <1>0, <1>3 DEF SendOK
  <2> QED
    BY <1>0, <2>1, <2>2, SendStep
<1> QED
  BY <1>2, <1>3, <1>4, <1>5 DEF ScheduleInv

-----------------------------------------------------------------------------
(* The theorems about deliveries *)

\* Nothing has been fired at the start.
LEMMA ScheduleInit == Init => ScheduleInv
<1> SUFFICES ASSUME Init PROVE ScheduleInv
  OBVIOUS
<1>1. PICK rule \in Rules :
        row = [exists |-> TRUE, enabled |-> TRUE, reason |-> "", failures |-> 0,
               rule |-> rule, target |-> left.target, edits |-> 0,
               next |-> IF Parses(rule) THEN NextFire(rule, 0) ELSE 1]
  BY DEF Init
<1>n. PICK n \in Nat : n = IF Parses(rule) THEN NextFire(rule, 0) ELSE 1
  BY NextFireLater
<1>2. left \in Bounds /\ left \in Scenarios /\ left.target \in BOOLEAN
  BY ScheduleAssumption DEF Init, Bounds
<1>t. PICK t \in BOOLEAN : t = left.target
  BY <1>2
<1>3. row = [exists |-> TRUE, enabled |-> TRUE, reason |-> "", failures |-> 0,
             rule |-> rule, target |-> t, edits |-> 0, next |-> n]
  BY <1>1, <1>n, <1>t
<1>4. "" \in Reasons
  BY DEF Reasons
<1>5. row \in RowState /\ row.reason = ""
  BY <1>3, <1>4 DEF RowState
<1>6. now = 0 /\ over = 0 /\ edit \in EditState
  BY RestingStates DEF Init
<1>7. Reasoned(row)
  BY <1>5 DEF Reasoned
<1>8. \E s \in Scenarios : now + left.ticks = s.ticks
  <2>1. left.ticks \in Nat
    BY <1>2 DEF Bounds
  <2> QED
    BY <1>2, <1>6, <2>1
<1>9. RowInv
  BY <1>2, <1>5, <1>6, <1>7, <1>8 DEF RowInv
<1>10. fire \in Seq(FireState) /\ DOMAIN fire = {}
  <2>1. fire = <<>>
    BY DEF Init
  <2>2. fire \in Seq(FireState) /\ Len(fire) = 0
    BY <2>1
  <2>3. DOMAIN fire = 1..0
    BY <2>2
  <2> QED
    BY <2>2, <2>3
<1>11. FireInv
  BY <1>10 DEF FireInv
<1>12. /\ disp \in [Replicas -> DispState] /\ send \in [Replicas -> SendState]
       /\ \A r \in Replicas : disp[r].pc = "idle" /\ send[r].pc = "idle"
  BY RestingStates DEF Init
<1>13. DispInv
  BY <1>12, RestsOK DEF DispInv, Holding
<1>14. SendInv
  BY <1>12 DEF SendInv, SendOK, Sending
<1> QED
  BY <1>9, <1>11, <1>13, <1>14 DEF ScheduleInv

\* Every action of every replica and person keeps the invariant.
LEMMA ScheduleNext == ScheduleInv /\ [Next]_vars => ScheduleInv'
<1> SUFFICES ASSUME ScheduleInv, [Next]_vars PROVE ScheduleInv'
  OBVIOUS
<1>1. ASSUME NEW r \in Replicas, DispatcherStep(r) PROVE ScheduleInv'
  BY <1>1, SweepKeeps, DecideKeeps, PauseKeeps, ClaimKeeps, StartKeeps, RecordKeeps,
     RecordFailedKeeps DEF DispatcherStep
<1>2. ASSUME NEW r \in Replicas, SweeperStep(r) PROVE ScheduleInv'
  BY <1>2, PlanKeeps, SettleKeeps, SendsKeep, SendFailureKeeps DEF SweeperStep
<1>3. CASE UNCHANGED vars
  BY <1>3 DEF vars, ScheduleInv, RowInv, FireInv, DispInv, SendInv
<1> QED
  BY <1>1, <1>2, <1>3, CrashKeeps, EndRunKeeps, ContinueKeeps, EditKeeps, DeleteKeeps,
     AuthorityKeeps, TickKeeps DEF Next

\* What dispatchers and sweepers rely on holds whatever other replicas do.
THEOREM ScheduleInvariant == Spec => []ScheduleInv
BY ScheduleInit, ScheduleNext, PTL DEF Spec

\* Type correctness: in particular every sweep is about a firing that exists and
\* a stored reason belongs to a paused schedule.
THEOREM ScheduleTypes == Spec => []TypeOK
<1>1. ScheduleInv => TypeOK
  <2> SUFFICES ASSUME ScheduleInv PROVE TypeOK
    OBVIOUS
  <2>1. now \in Minutes \cup {0}
    <3>1. PICK s \in Scenarios : now + left.ticks = s.ticks
      BY DEF ScheduleInv, RowInv
    <3>2. now \in Nat /\ left.ticks \in Nat /\ s.ticks \in Nat
      BY ScheduleAssumption DEF ScheduleInv, RowInv, Bounds
    <3>3. now = 0 \/ now \in 1..s.ticks
      BY <3>1, <3>2
    <3> QED
      BY <3>3 DEF Minutes
  <2>2. /\ over \in Nat
        /\ row \in [exists : BOOLEAN, enabled : BOOLEAN, reason : Reasons, failures : Nat,
                    rule : Rules, target : BOOLEAN, next : Nat, edits : Nat]
        /\ row.enabled => row.reason = ""
    BY DEF ScheduleInv, RowInv, RowState, Reasoned
  <2>3. ASSUME NEW f \in DOMAIN fire
        PROVE  /\ fire[f].run \in Ended \cup {"none", "ACTIVE"}
               /\ fire[f].delivery \in {"none", "pending", "delivered", "skipped", "failed"}
               /\ fire[f].run = "none" => fire[f].delivery = "none"
    <3>1. fire[f] \in FireState /\ FireOK(fire[f], row.exists)
      BY DEF ScheduleInv, FireInv
    <3> QED
      BY <3>1 DEF FireState, FireOK
  <2>4. \A r \in Replicas :
          /\ disp[r].pc \in {"start", "record", "recordFailed"} => disp[r].fire \in DOMAIN fire
          /\ send[r].pc # "idle" => send[r].fire \in DOMAIN fire
    BY DEF ScheduleInv, DispInv, DispOK, SendInv, SendOK, Fired, Holding
  <2> QED
    BY <2>1, <2>2, <2>3, <2>4 DEF TypeOK
<1> QED
  BY <1>1, ScheduleInvariant, PTL

\* A result is sent at most once, whichever replicas sweep, crash and retry.
THEOREM SentAtMostOnce == Spec => []SentOnce
<1>1. ScheduleInv => SentOnce
  BY DEF ScheduleInv, FireInv, FireOK, SentOnce
<1> QED
  BY <1>1, ScheduleInvariant, PTL

-----------------------------------------------------------------------------
(* Due times *)

\* A step that claims nothing and moves no due time.
DuesStay ==
  /\ DOMAIN fire' = DOMAIN fire
  /\ \A f \in DOMAIN fire : fire'[f].due = fire[f].due /\ fire'[f].edits = fire[f].edits
CountStays ==
  /\ row'.next = row.next /\ row'.edits = row.edits
  /\ AtBound(row') => over' = over
  /\ ~AtBound(row') => over' = 0

\* A dispatcher goes from d to e without making a late claim possible.
NotLater(d, e) ==
  /\ row.edits = 0 => SnapshotOK(e, row.next, over)
  /\ e.pc = "claim" => Unspent(e)
  /\ over = 0 \/ (Unspent(e) => Unspent(d))
DispQuiet(r) == disp'[r] = disp[r] \/ NotLater(disp[r], disp'[r])
DueQuiet == DuesStay /\ CountStays /\ \A r \in Replicas : DispQuiet(r)

\* The sweeps that may still claim are no more than the replicas.
LEMMA StaleFinite ==
  /\ IsFiniteSet(Stale) /\ Cardinality(Stale) \in Nat
  /\ Cardinality(Replicas) \in Nat /\ Cardinality(Stale) <= Cardinality(Replicas)
<1>1. IsFiniteSet(Replicas) /\ Stale \in SUBSET Replicas
  BY ScheduleAssumption DEF Stale
<1> QED
  BY <1>1, FS_Subset, FS_CardinalityType

\* The same, after a step.
LEMMA StaleFiniteNext ==
  /\ IsFiniteSet(Stale') /\ Cardinality(Stale') \in Nat
  /\ Cardinality(Stale') <= Cardinality(Replicas)
<1>1. IsFiniteSet(Replicas) /\ Stale' \in SUBSET Replicas
  BY ScheduleAssumption DEF Stale
<1> QED
  BY <1>1, FS_Subset, FS_CardinalityType

\* Where no sweep joins the ones that may still claim, they do not become more.
LEMMA StaleShrinks ==
  ASSUME \A r \in Replicas : Unspent(disp'[r]) => Unspent(disp[r])
  PROVE  Cardinality(Stale') <= Cardinality(Stale)
<1>1. Stale' = {r \in Replicas : Unspent(disp'[r])}
  BY DEF Stale, Unspent, Exhausted
<1>2. Stale' \in SUBSET Stale
  BY <1>1 DEF Stale
<1> QED
  BY <1>2, StaleFinite, FS_Subset

\* Such a step keeps every claimed due time behind the next one, and adds no
\* sweep that could claim late.
LEMMA QuietKeepsDue ==
  ASSUME ScheduleInv, ScheduleInv', DueInv, DueQuiet PROVE DueInv'
<1>0. over \in Nat /\ over' \in Nat
  BY DEF ScheduleInv, RowInv
<1>1. ClaimedInv'
  BY DEF DueInv, ClaimedInv, OneFirePerEdit, DueQuiet, DuesStay, CountStays
<1>2. over' = over \/ over' = 0
  BY DEF DueQuiet, CountStays
<1>3. row'.edits = 0 => over' <= 1 /\ \A r \in Replicas : SnapshotOK(disp'[r], row'.next, over')
  <2> SUFFICES ASSUME row'.edits = 0
               PROVE  over' <= 1 /\ \A r \in Replicas : SnapshotOK(disp'[r], row'.next, over')
    OBVIOUS
  <2>1. row.edits = 0 /\ row'.next = row.next
    BY DEF DueQuiet, CountStays
  <2>2. over <= 1 /\ \A r \in Replicas : SnapshotOK(disp'[r], row.next, over)
    BY <2>1 DEF DueInv, LateInv, DueQuiet, DispQuiet, NotLater
  <2> QED
    BY <1>0, <1>2, <2>1, <2>2 DEF SnapshotOK
<1>4. \A r \in Replicas : disp'[r].pc = "claim" => Unspent(disp'[r])
  BY DEF DueInv, LateInv, DueQuiet, DispQuiet, NotLater
<1>5. ~AtBound(row') => over' = 0
  BY DEF DueQuiet, CountStays
<1>6. over' + Cardinality(Stale') <= Cardinality(Replicas)
  <2>1. CASE over' = 0
    BY <2>1, StaleFinite, StaleFiniteNext
  <2>2. CASE over' # 0
    <3>1. over' = over /\ over # 0
      BY <1>2, <2>2
    <3>2. Cardinality(Stale') <= Cardinality(Stale)
      BY <3>1, StaleShrinks DEF DueQuiet, DispQuiet, NotLater
    <3>3. over + Cardinality(Stale) <= Cardinality(Replicas)
      BY DEF DueInv, LateInv
    <3> QED
      BY <1>0, <3>1, <3>2, <3>3, StaleFinite, StaleFiniteNext
  <2> QED
    BY <2>1, <2>2
<1>7. LateInv'
  BY <1>3, <1>4, <1>5, <1>6 DEF LateInv, SnapshotOK, Unspent, Exhausted, AtBound
<1> QED
  BY <1>1, <1>7 DEF DueInv

\* While the failure count stays, so does the history of late claims.
LEMMA SameCount ==
  ASSUME DueInv, row'.failures = row.failures, over' = over
  PROVE  (AtBound(row') => over' = over) /\ (~AtBound(row') => over' = 0)
BY DEF DueInv, LateInv, AtBound

\* A dispatcher without a snapshot restricts nothing.
LEMMA NoSnapshot ==
  ASSUME NEW d, NEW e, e.pc \notin {"check", "claim"}
  PROVE  NotLater(d, e)
BY DEF NotLater, SnapshotOK, Unspent

\* The dispatcher's steps that do not claim.
LEMMA DispatcherQuiet ==
  ASSUME ScheduleInv, DueInv, NEW r \in Replicas,
         \/ Sweep(r) \/ Decide(r) \/ EligibilityUnavailable(r) \/ Pause(r)
         \/ StartExecutor(r) \/ RecordFire(r) \/ RecordFailedFire(r)
  PROVE  DueQuiet
<1>0. /\ now \in Nat /\ over \in Nat /\ row \in RowState /\ Reasoned(row)
      /\ disp \in [Replicas -> DispState] /\ disp[r] \in DispState
      /\ \A f \in DOMAIN fire : fire[f] \in FireState
  BY DEF ScheduleInv, RowInv, FireInv, DispInv
<1>1. DuesStay
  <2>1. CASE StartExecutor(r)
    BY <1>0, <2>1 DEF StartExecutor, FireState, DuesStay
  <2>2. CASE RecordFire(r)
    BY <1>0, <2>2 DEF RecordFire, FireState, DuesStay
  <2>3. CASE fire' = fire
    BY <2>3 DEF DuesStay
  <2> QED
    BY <2>1, <2>2, <2>3 DEF Sweep, Decide, EligibilityUnavailable, Pause, RecordFailedFire
<1>2. CountStays
  <2>1. CASE Pause(r)
    <3>1. disp[r].reason \in Reasons
      BY <1>0, <2>1 DEF Pause, DispState, Fired, Holding
    <3>2. row' = row \/ row' = Disabled(row, disp[r].reason)
      BY <2>1 DEF Pause, UpdateSchedule
    <3>y. PICK y : y = Disabled(row, disp[r].reason)
      OBVIOUS
    <3>z. y.next = row.next /\ y.edits = row.edits /\ y.failures = row.failures
      BY <1>0, <3>1, <3>y, RowWrites
    <3>3. /\ row'.next = row.next /\ row'.edits = row.edits
          /\ row'.failures = row.failures /\ over' = over
      BY <2>1, <3>2, <3>y, <3>z DEF Pause
    <3> QED
      BY <3>3, SameCount DEF CountStays
  <2>2. CASE RecordFailedFire(r)
    <3>1. row' = row \/ row' = Failed(row)
      BY <2>2 DEF RecordFailedFire, UpdateSchedule
    <3>2. row'.next = row.next /\ row'.edits = row.edits
      BY <1>0, <3>1, RowWrites
    <3> QED
      BY <2>2, <3>2 DEF RecordFailedFire, Recount, CountStays
  <2>3. CASE row' = row /\ over' = over
    BY <2>3, SameCount DEF CountStays
  <2> QED
    BY <2>1, <2>2, <2>3
       DEF Sweep, Decide, EligibilityUnavailable, StartExecutor, RecordFire
<1>3. \A q \in Replicas \ {r} : disp'[q] = disp[q]
  BY <1>0 DEF Sweep, Decide, EligibilityUnavailable, Pause, StartExecutor, RecordFire,
     RecordFailedFire, Goto, Finish, PauseFor, OnUnparsable
<1>4. NotLater(disp[r], disp'[r])
  <2>1. CASE Sweep(r)
    <3>1. disp'[r].row = row /\ disp'[r].pc = "check"
      BY <1>0, <2>1 DEF Sweep
    <3>2. row.next \in Nat
      BY <1>0 DEF RowState
    <3>3. over # 0 => Exhausted(row)
      BY DEF DueInv, LateInv, AtBound, Exhausted
    <3> QED
      BY <1>0, <3>1, <3>2, <3>3 DEF NotLater, SnapshotOK, Unspent
  <2>2. CASE disp[r].pc = "check" /\ ~Exhausted(disp[r].row) /\ Goto(r, "claim")
    <3>1. disp[r].pc = "check" /\ ~Exhausted(disp[r].row)
      BY <2>2
    <3>2. disp[r] \in [pc : {"check", "claim"}, row : RowState, now : Nat]
      BY <1>0, <3>1 DEF DispState, Fired, Holding
    <3>3. disp'[r].row = disp[r].row /\ disp'[r].pc = "claim"
      BY <1>0, <2>2, <3>2 DEF Goto
    <3>4. row.edits = 0 => SnapshotOK(disp[r], row.next, over)
      BY DEF DueInv, LateInv
    <3> QED
      BY <3>1, <3>3, <3>4 DEF NotLater, SnapshotOK, Unspent
  <2>3. CASE disp'[r].pc \notin {"check", "claim"}
    BY <2>3, NoSnapshot
  <2>4. \/ Sweep(r)
        \/ disp[r].pc = "check" /\ ~Exhausted(disp[r].row) /\ Goto(r, "claim")
        \/ disp'[r].pc \notin {"check", "claim"}
    <3>1. \A pc \in {"record", "recordFailed"} : Goto(r, pc) /\ disp[r].pc = "start" => disp'[r].pc = pc
      BY <1>0 DEF Goto, DispState, Fired, Holding
    <3>2. Finish(r) => disp'[r].pc = "idle"
      BY <1>0, RestingStates DEF Finish
    <3>3. \A why : PauseFor(r, why) => disp'[r].pc = "pause"
      BY <1>0 DEF PauseFor
    <3> QED
      BY <3>1, <3>2, <3>3 DEF Decide, EligibilityUnavailable, Pause, StartExecutor,
         RecordFire, RecordFailedFire, OnUnparsable
  <2> QED
    BY <2>1, <2>2, <2>3, <2>4
<1> QED
  BY <1>1, <1>2, <1>3, <1>4 DEF DueQuiet, DispQuiet

\* The sweepers, crashes, the runs and what people do to them.
LEMMA OthersQuiet ==
  ASSUME ScheduleInv, DueInv,
         \/ \E r \in Replicas : SweeperStep(r) \/ Crash(r)
         \/ \E f \in DOMAIN fire : EndRun(f) \/ ContinueTask(f) \/ EndContinued(f)
         \/ DeleteSchedule \/ ChangeAuthority \/ PauseDisabledAccount
         \/ UNCHANGED vars
  PROVE  DueQuiet
<1>0. /\ now \in Nat /\ over \in Nat /\ row \in RowState /\ Reasoned(row)
      /\ disp \in [Replicas -> DispState]
      /\ \A f \in DOMAIN fire : fire[f] \in FireState
  BY DEF ScheduleInv, RowInv, FireInv, DispInv
<1>2. DuesStay
  <2>1. ASSUME NEW r \in Replicas, Settle(r) PROVE DuesStay
    BY <1>0, <2>1 DEF Settle, FireState, DuesStay
  <2>2. ASSUME NEW r \in Replicas, Send(r) PROVE DuesStay
    BY <1>0, <2>2 DEF Send, FireState, DuesStay
  <2>3. ASSUME NEW r \in Replicas, RecordSendFailure(r) PROVE DuesStay
    BY <1>0, <2>3 DEF RecordSendFailure, FireState, DuesStay
  <2>4. ASSUME NEW g \in DOMAIN fire, EndRun(g) \/ ContinueTask(g) \/ EndContinued(g)
        PROVE  DuesStay
    <3>1. CASE EndRun(g)
      <4>1. PICK v : fire' = [fire EXCEPT ![g].run = v, ![g].last = v]
        BY <3>1 DEF EndRun
      <4> QED
        BY <1>0, <4>1 DEF FireState, DuesStay
    <3>2. PICK v : fire' = fire \/ fire' = [fire EXCEPT ![g].last = v] \/ EndRun(g)
      BY <2>4 DEF ContinueTask, EndContinued
    <3> QED
      BY <1>0, <3>1, <3>2 DEF FireState, DuesStay
  <2>5. ASSUME DeleteSchedule PROVE DuesStay
    BY <1>0, <2>5 DEF DeleteSchedule, FireState, DuesStay
  <2>6. ASSUME fire' = fire PROVE DuesStay
    BY <2>6 DEF DuesStay
  <2> QED
    BY <2>1, <2>2, <2>3, <2>4, <2>5, <2>6
       DEF SweeperStep, PlanDelivery, Crash, ChangeAuthority, PauseDisabledAccount, vars
<1>3. CountStays
  <2>1. ASSUME NEW f \in DOMAIN fire, EndRun(f)
        PROVE  CountStays
    <3>1. row' \in {row, Failed(row), Succeeded(row)} /\ Recount(row')
      BY <2>1 DEF EndRun, UpdateSchedule, Ended
    <3>2. row'.next = row.next /\ row'.edits = row.edits
      BY <1>0, <3>1, RowWrites
    <3> QED
      BY <3>1, <3>2 DEF Recount, CountStays
  <2>2. ASSUME row' = row \/ row' = Disabled(row, "creator_disabled"), over' = over
        PROVE  CountStays
    <3>1. PICK why \in Reasons : why = "creator_disabled"
      BY RestingStates
    <3>2. /\ Disabled(row, why).next = row.next /\ Disabled(row, why).edits = row.edits
          /\ Disabled(row, why).failures = row.failures
      BY <1>0, RowWrites
    <3>3. row'.next = row.next /\ row'.edits = row.edits /\ row'.failures = row.failures
      BY <2>2, <3>1, <3>2
    <3> QED
      BY <2>2, <3>3, SameCount DEF CountStays
  <2>3. ASSUME DeleteSchedule
        PROVE  CountStays
    <3>1. /\ row'.next = row.next /\ row'.edits = row.edits
          /\ row'.failures = row.failures /\ over' = over
      BY <1>0, <2>3 DEF DeleteSchedule, RowState
    <3> QED
      BY <3>1, SameCount DEF CountStays
  <2>4. ASSUME \/ \E r \in Replicas : SweeperStep(r) \/ Crash(r)
               \/ \E f \in DOMAIN fire : ContinueTask(f) \/ EndContinued(f)
               \/ ChangeAuthority \/ PauseDisabledAccount \/ UNCHANGED vars
        PROVE  (row' = row \/ row' = Disabled(row, "creator_disabled")) /\ over' = over
    BY <2>4 DEF SweeperStep, PlanDelivery, Settle, Send, RecordSendFailure, Crash,
       ContinueTask, EndContinued, ChangeAuthority, PauseDisabledAccount, UpdateSchedule, vars
  <2> QED
    BY <2>1, <2>2, <2>3, <2>4
<1>4. ASSUME NEW q \in Replicas PROVE DispQuiet(q)
  <2>1. ASSUME NEW r \in Replicas, Crash(r) PROVE disp'[q] = disp[q] \/ disp'[q].pc = "idle"
    BY <1>0, <2>1, RestingStates DEF Crash
  <2>2. disp'[q] = disp[q] \/ disp'[q].pc = "idle"
    BY <2>1 DEF SweeperStep, PlanDelivery, Settle, Send, RecordSendFailure, EndRun,
       ContinueTask, EndContinued, DeleteSchedule, ChangeAuthority, PauseDisabledAccount, vars
  <2> QED
    BY <2>2, NoSnapshot DEF DispQuiet
<1> QED
  BY <1>2, <1>3, <1>4 DEF DueQuiet

\* A claim takes the due time the row has, and puts the row past it; when the
\* failure count is at its bound it uses up a snapshot from before that.
LEMMA ClaimKeepsDue ==
  ASSUME ScheduleInv, ScheduleInv', DueInv, NEW r \in Replicas, Claim(r)
  PROVE  DueInv'
<1>0. /\ disp[r].pc = "claim" /\ row \in RowState /\ over \in Nat /\ fire \in Seq(FireState)
      /\ disp \in [Replicas -> DispState] /\ disp[r] \in DispState
      /\ DispOK(disp[r], fire, now) /\ row.next \in Nat /\ row.edits \in Nat
  BY DEF ScheduleInv, DispInv, FireInv, RowInv, RowState, Claim
<1>s. PICK s \in RowState : s = disp[r].row
  BY <1>0 DEF DispState, Fired, Holding
<1>t. PICK t \in Nat : t = disp[r].now
  BY <1>0 DEF DispState, Fired, Holding
<1>1. CASE ~MayClaim(s)
  <2>1. Finish(r) /\ UNCHANGED <<row, fire, over>>
    BY <1>1, <1>s DEF Claim
  <2>2. \A q \in Replicas : DispQuiet(q)
    BY <1>0, <2>1, RestingStates, NoSnapshot DEF Finish, DispQuiet
  <2>3. CountStays /\ DuesStay
    BY <2>1, SameCount DEF CountStays, DuesStay
  <2> QED
    BY <2>2, <2>3, QuietKeepsDue DEF DueQuiet
<1>2. CASE MayClaim(s)
  <2>0. s.next = row.next /\ s.next <= t /\ s.next \in Nat
    BY <1>0, <1>2, <1>s, <1>t DEF MayClaim, DispOK
  <2>n. PICK n \in Nat : n = NextFire(s.rule, t) /\ n > t
    <3>1. s.rule \in Rules /\ Parses(s.rule)
      BY <1>0, <1>s DEF RowState, DispOK
    <3> QED
      BY <3>1, NextFireLater
  <2>x. PICK x : x = NewFire(s.next, row.edits)
    OBVIOUS
  <2>d. PICK d : d = [pc |-> "start", failures |-> s.failures, fire |-> Len(fire) + 1]
    OBVIOUS
  <2>1. /\ row' = [row EXCEPT !.next = n] /\ fire' = Append(fire, x)
        /\ disp' = [disp EXCEPT ![r] = d]
        /\ over' = IF AtBound(row) THEN over + 1 ELSE over
    BY <1>2, <1>s, <1>t, <2>n, <2>x, <2>d DEF Claim
  <2>2. row'.next = n /\ row'.failures = row.failures /\ row'.edits = row.edits
    BY <1>0, <2>1 DEF RowState
  <2>3. x.due = row.next /\ x.edits = row.edits /\ x \in FireState
    BY <1>0, <2>0, <2>x DEF NewFire, FireState
  <2>4. /\ DOMAIN fire = 1..Len(fire) /\ DOMAIN fire' = 1..(Len(fire) + 1)
        /\ \A f \in DOMAIN fire : fire'[f] = fire[f] /\ fire[f].due \in Nat
        /\ fire'[Len(fire) + 1] = x /\ Len(fire) \in Nat
    <3>1. ASSUME NEW f \in DOMAIN fire PROVE fire[f].due \in Nat
      <4>1. fire[f] \in FireState
        BY <1>0
      <4> QED
        BY <4>1 DEF FireState
    <3> QED
      BY <1>0, <2>1, <2>3, <3>1, AppendProperties, LenProperties
  <2>5. \A f \in DOMAIN fire :
          fire[f].edits <= row.edits /\ (fire[f].edits = row.edits => fire[f].due < row.next)
    BY DEF DueInv, ClaimedInv
  <2>6. \A f \in DOMAIN fire' : f \in DOMAIN fire \/ f = Len(fire) + 1
    BY <2>4
  <2>7. ClaimedInv'
    <3>1. ASSUME NEW f \in DOMAIN fire'
          PROVE  /\ fire'[f].edits <= row'.edits
                 /\ fire'[f].edits = row'.edits => fire'[f].due < row'.next
      BY <1>0, <2>0, <2>n, <2>2, <2>3, <2>4, <2>5, <2>6
    <3>2. \A f \in DOMAIN fire : fire'[f].edits = x.edits => fire'[f].due # x.due
      BY <1>0, <2>3, <2>4, <2>5
    <3>3. \A f, g \in DOMAIN fire :
            fire'[f].due = fire'[g].due /\ fire'[f].edits = fire'[g].edits => f = g
      BY <2>4 DEF DueInv, ClaimedInv, OneFirePerEdit
    <3>4. \A f, g \in DOMAIN fire' :
            fire'[f].due = fire'[g].due /\ fire'[f].edits = fire'[g].edits => f = g
      BY <2>4, <2>6, <3>2, <3>3
    <3> QED
      BY <3>1, <3>4 DEF ClaimedInv, OneFirePerEdit
  <2>8. /\ \A q \in Replicas : q # r => disp'[q] = disp[q]
        /\ disp'[r].pc = "start"
    BY <1>0, <2>d, <2>1
  <2>9. row.edits = 0 => over = 0
    <3> SUFFICES ASSUME row.edits = 0 PROVE over = 0
      OBVIOUS
    <3>1. SnapshotOK(disp[r], row.next, over)
      BY DEF DueInv, LateInv
    <3>2. ~(over >= 1)
      BY <1>0, <1>s, <2>0, <3>1 DEF SnapshotOK
    <3> QED
      BY <1>0, <3>2
  <2>10. ASSUME row'.edits = 0
         PROVE  over' <= 1 /\ \A q \in Replicas : SnapshotOK(disp'[q], row'.next, over')
    <3>1. over' <= 1
      BY <2>1, <2>2, <2>9, <2>10
    <3>2. ASSUME NEW q \in Replicas, q # r PROVE SnapshotOK(disp'[q], n, over')
      <4>1. disp'[q] = disp[q] /\ disp[q] \in DispState /\ SnapshotOK(disp[q], row.next, over)
        BY <1>0, <2>2, <2>8, <2>10, <3>2 DEF DueInv, LateInv
      <4>2. disp[q].pc \in {"check", "claim"} => disp[q].row.next \in Nat
        BY <4>1 DEF DispState, Fired, Holding, RowState
      <4> QED
        BY <1>0, <2>0, <2>n, <4>1, <4>2 DEF SnapshotOK
    <3>3. SnapshotOK(disp'[r], n, over')
      BY <2>8 DEF SnapshotOK
    <3> QED
      BY <2>2, <3>1, <3>2, <3>3
  <2>11. \A q \in Replicas : disp'[q].pc = "claim" => Unspent(disp'[q])
    BY <2>8 DEF DueInv, LateInv
  <2>12. ~AtBound(row') => over' = 0
    BY <2>1, <2>2 DEF DueInv, LateInv, AtBound
  <2>13. over' + Cardinality(Stale') <= Cardinality(Replicas)
    <3>1. Stale' = Stale \ {r}
      <4>1. Stale' = {q \in Replicas : Unspent(disp'[q])}
        BY DEF Stale, Unspent, Exhausted
      <4>2. \A q \in Replicas : Unspent(disp'[q]) <=> (Unspent(disp[q]) /\ q # r)
        BY <2>8 DEF Unspent
      <4> QED
        BY <4>1, <4>2 DEF Stale
    <3>2. r \in Stale
      BY <1>0 DEF Stale, DueInv, LateInv
    <3>3. Cardinality(Stale') = Cardinality(Stale) - 1
      BY <3>1, <3>2, StaleFinite, FS_RemoveElement
    <3>4. over + Cardinality(Stale) <= Cardinality(Replicas)
      BY DEF DueInv, LateInv
    <3>5. over' \in {over, over + 1}
      BY <2>1
    <3> QED
      BY <1>0, <3>3, <3>4, <3>5, StaleFinite
  <2>14. LateInv'
    BY <2>10, <2>11, <2>12, <2>13 DEF LateInv, SnapshotOK, Unspent, Exhausted, AtBound
  <2> QED
    BY <2>7, <2>14 DEF DueInv
<1> QED
  BY <1>1, <1>2

\* An edit of the rule may write back a due time that has been claimed; what was
\* claimed before it is told apart, and no sweep becomes able to claim late.
LEMMA EditKeepsDue ==
  ASSUME ScheduleInv, ScheduleInv', DueInv, BeginEdit \/ WriteEdit
  PROVE  DueInv'
<1>0. /\ row \in RowState /\ Reasoned(row) /\ edit \in EditState
      /\ over \in Nat /\ UNCHANGED <<fire, disp>>
  BY DEF ScheduleInv, RowInv, BeginEdit, WriteEdit
<1>d. DuesStay /\ \A r \in Replicas : DispQuiet(r)
  BY <1>0 DEF DuesStay, DispQuiet
<1>1. CASE BeginEdit
  <2>1. CountStays
    BY <1>1, SameCount DEF BeginEdit, CountStays
  <2> QED
    BY <1>d, <2>1, QuietKeepsDue DEF DueQuiet
<1>2. CASE WriteEdit
  <2>0. Recount(row')
    BY <1>2 DEF WriteEdit
  <2>1. CASE row'.next = row.next /\ row'.edits = row.edits
    <3>1. CountStays
      BY <2>0, <2>1 DEF CountStays, Recount
    <3> QED
      BY <1>d, <3>1, QuietKeepsDue DEF DueQuiet
  <2>2. CASE ~(row'.next = row.next /\ row'.edits = row.edits)
    <3>1. /\ edit.pc = "rule"
          /\ row' = [row EXCEPT !.rule = edit.rule, !.next = edit.next, !.edits = @ + 1]
      <4>1. CASE edit.pc = "enable"
        BY <1>0, <1>2, <2>2, <4>1, RowWrites DEF WriteEdit, UpdateSchedule
      <4>2. CASE edit.pc = "disable"
        BY <1>0, <1>2, <2>2, <4>2, RowWrites, RestingStates DEF WriteEdit, UpdateSchedule
      <4>3. CASE edit.pc = "target"
        <5>1. /\ [row EXCEPT !.target = ~@].next = row.next
              /\ [row EXCEPT !.target = ~@].edits = row.edits
          BY <1>0 DEF RowState
        <5> QED
          BY <1>2, <2>2, <4>3, <5>1 DEF WriteEdit, UpdateSchedule
      <4>4. CASE edit.pc = "rule"
        BY <1>2, <2>2, <4>4 DEF WriteEdit, UpdateSchedule
      <4>5. edit.pc \in {"enable", "disable", "target", "rule"}
        BY <1>0, <1>2 DEF WriteEdit, EditState
      <4> QED
        BY <4>1, <4>2, <4>3, <4>4, <4>5
    <3>2. row'.edits = row.edits + 1 /\ row.edits \in Nat
      BY <1>0, <3>1 DEF RowState
    <3>3. ClaimedInv'
      <4>1. ASSUME NEW f \in DOMAIN fire
            PROVE  fire[f].edits <= row'.edits /\ fire[f].edits # row'.edits
        <5>1. fire[f] \in FireState /\ fire[f].edits <= row.edits
          BY DEF DueInv, ClaimedInv, ScheduleInv, FireInv
        <5> QED
          BY <3>2, <5>1 DEF FireState
      <4> QED
        BY <1>0, <4>1 DEF DueInv, ClaimedInv, OneFirePerEdit
    <3>4. (over' = over \/ over' = 0) /\ (~AtBound(row') => over' = 0)
      BY <2>0 DEF Recount
    <3>5. Stale' = Stale
      BY <1>0 DEF Stale, Unspent, Exhausted
    <3>6. over' + Cardinality(Stale') <= Cardinality(Replicas)
      BY <1>0, <3>4, <3>5, StaleFinite DEF DueInv, LateInv
    <3>7. \A r \in Replicas : disp'[r].pc = "claim" => Unspent(disp'[r])
      BY <1>0 DEF DueInv, LateInv
    <3>8. row'.edits # 0
      BY <3>2
    <3>9. LateInv'
      BY <3>4, <3>6, <3>7, <3>8 DEF LateInv, Unspent, Exhausted, AtBound
    <3> QED
      BY <3>3, <3>9 DEF DueInv
  <2> QED
    BY <2>1, <2>2
<1> QED
  BY <1>1, <1>2

\* At the start nothing is claimed and the first due time is ahead.
LEMMA DueInit == Init => DueInv
<1> SUFFICES ASSUME Init PROVE DueInv
  OBVIOUS
<1>1. fire = <<>> /\ over = 0
  BY DEF Init
<1>2. DOMAIN fire = {}
  <2>1. fire \in Seq(FireState) /\ Len(fire) = 0
    BY <1>1
  <2>2. DOMAIN fire = 1..0
    BY <2>1
  <2> QED
    BY <2>2
<1>3. \A r \in Replicas : disp[r].pc = "idle"
  BY RestingStates DEF Init
<1>4. \A r \in Replicas : SnapshotOK(disp[r], row.next, over)
  BY <1>3 DEF SnapshotOK
<1>5. over + Cardinality(Stale) <= Cardinality(Replicas)
  BY <1>1, StaleFinite
<1>6. LateInv
  BY <1>1, <1>3, <1>4, <1>5 DEF LateInv
<1>7. ClaimedInv
  BY <1>2 DEF ClaimedInv, OneFirePerEdit
<1> QED
  BY <1>6, <1>7 DEF DueInv

\* Every action keeps the claims apart and the late ones counted.
LEMMA DueNext == ScheduleInv /\ ScheduleInv' /\ DueInv /\ [Next]_vars => DueInv'
<1> SUFFICES ASSUME ScheduleInv, ScheduleInv', DueInv, [Next]_vars PROVE DueInv'
  OBVIOUS
<1>1. ASSUME NEW r \in Replicas, DispatcherStep(r) PROVE DueInv'
  BY <1>1, ClaimKeepsDue, DispatcherQuiet, QuietKeepsDue DEF DispatcherStep
<1>2. CASE BeginEdit \/ WriteEdit
  BY <1>2, EditKeepsDue
<1>3. CASE Tick
  <2>1. UNCHANGED <<row, fire, disp, over>>
    BY <1>3 DEF Tick
  <2>2. CountStays
    BY <2>1, SameCount DEF CountStays
  <2>3. DueQuiet
    BY <2>1, <2>2 DEF DueQuiet, DuesStay, DispQuiet
  <2> QED
    BY <2>3, QuietKeepsDue
<1>4. CASE \/ \E r \in Replicas : SweeperStep(r) \/ Crash(r)
           \/ \E f \in DOMAIN fire : EndRun(f) \/ ContinueTask(f) \/ EndContinued(f)
           \/ DeleteSchedule \/ ChangeAuthority \/ PauseDisabledAccount
           \/ UNCHANGED vars
  BY <1>4, OthersQuiet, QuietKeepsDue
<1> QED
  BY <1>1, <1>2, <1>3, <1>4 DEF Next

\* What is claimed since the last edit of the rule is behind the row's due time,
\* and late claims use up the snapshots from before the bound was reached.
THEOREM DueInvariant == Spec => []DueInv
BY DueInit, DueNext, ScheduleInvariant, PTL DEF Spec

\* Claims alone fire a due time once, across any number of replicas and sweeps
\* from old snapshots: a second firing of it takes an edit that wrote
\* next_fire_at in between (ClaimSchedule, UpdateSchedule).
THEOREM ClaimsFireOnce == Spec => []OneFirePerEdit
<1>1. DueInv => OneFirePerEdit
  BY DEF DueInv, ClaimedInv
<1> QED
  BY <1>1, DueInvariant, PTL

\* Past the failure bound at most one more firing is claimed while the rule is
\* not edited, and never more than one of each replica (fireOne's snapshot).
THEOREM LateClaimsAreBounded == Spec => []OvershootIsBounded
<1>1. ScheduleInv /\ DueInv => OvershootIsBounded
  <2> SUFFICES ASSUME ScheduleInv, DueInv PROVE OvershootIsBounded
    OBVIOUS
  <2>1. over \in Nat /\ over + Cardinality(Stale) <= Cardinality(Replicas)
    BY DEF ScheduleInv, RowInv, DueInv, LateInv
  <2>2. over <= Cardinality(Replicas)
    BY <2>1, StaleFinite
  <2>3. row.edits = 0 => over <= 1
    BY DEF DueInv, LateInv
  <2> QED
    BY <2>2, <2>3 DEF OvershootIsBounded
<1> QED
  BY <1>1, ScheduleInvariant, DueInvariant, PTL
=============================================================================
