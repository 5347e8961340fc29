-------------------------- MODULE ScheduleDispatch --------------------------
(***************************************************************************)
(* One schedule, the dispatchers that fire it and the sweepers that deliver *)
(* what its firings produced, one of each on every server replica, while    *)
(* people edit, pause, enable and delete it.  A dispatcher works from the   *)
(* row its sweep read; the claim's compare-and-set on next_fire_at is all   *)
(* that keeps two of them from firing one due time.                         *)
(*                                                                         *)
(* Time is counted in minutes, cron's grain.  A rule (a cron expression in  *)
(* its timezone) is due every Period minutes; period 0 is a stored rule     *)
(* that no longer parses.                                                   *)
(***************************************************************************)
EXTENDS Naturals, Sequences, FiniteSets

CONSTANTS
  Replicas,      \* server processes
  Rules,         \* cron rules
  Period,        \* rule -> minutes between due times, 0 when unparsable
  MaxFailures,   \* maxConsecutiveScheduleFailures
  Scenarios      \* the bounds of a behaviour, chosen at its start: minutes that
                 \* pass, edits and their kinds, runs people add to a firing's
                 \* Task, sweeps that die or meet an outage, and whether the
                 \* schedule starts with a delivery target

EditKinds == {"enable", "disable", "target", "rule", "delete", "authority"}

ASSUME ScheduleAssumption ==
  /\ Period \in [Rules -> Nat]
  /\ MaxFailures \in Nat \ {0}
  /\ IsFiniteSet(Replicas)
  /\ Scenarios \subseteq [ticks : Nat, edits : Nat, continues : Nat, faults : Nat,
                           kinds : SUBSET EditKinds, target : BOOLEAN]

VARIABLES
  now,        \* the clock, in minutes
  row,        \* the schedule row; exists is FALSE once it is deleted, and edits
              \* is history: how often an edit has written next_fire_at
  authority,  \* whether the creator may run work in the Space
  fire,       \* the claimed due times, oldest first, and what became of each
  disp,       \* replica -> its dispatcher's sweep
  send,       \* replica -> its delivery sweeper
  edit,       \* the edit in progress
  over,       \* history: claims since the failure count reached its bound
  left        \* what is left of the scenario's bounds

vars == <<now, row, authority, fire, disp, send, edit, over, left>>

Ended == {"SUCCEEDED", "FAILED", "CANCELED"}
Idle  == [pc |-> "idle"]

Spend(bound) == left[bound] > 0 /\ left' = [left EXCEPT ![bound] = @ - 1]
May(kind)    == kind \in left.kinds /\ Spend("edits")

-----------------------------------------------------------------------------
(* service/schedule and infra/db                                             *)

Parses(rule) == Period[rule] # 0

\* Next: the rule's first due time strictly after the given instant.
NextFire(rule, after) == ((after \div Period[rule]) + 1) * Period[rule]

\* DueSchedules: enabled, and its time has come.
IsDue == row.exists /\ row.enabled /\ row.next <= now

\* Mutant: enabling leaves the reason of the last pause.
Enabled_KeepsReason(r) == [r EXCEPT !.enabled = TRUE, !.failures = 0]

\* UpdateSchedule: enabling clears the reason and the failure count, disabling
\* records a reason.  It names no prior state.
Enabled(r) == [r EXCEPT !.enabled = TRUE, !.reason = "", !.failures = 0]
Disabled(r, reason) == [r EXCEPT !.enabled = FALSE, !.reason = reason]

UpdateSchedule(new) == row' = IF row.exists THEN new ELSE row

\* Mutant: the claim does not name the due time it claims.
MayClaim_AnyTime(snapshot) == row.exists /\ row.enabled

\* ClaimSchedule: still enabled, and still due at the time the sweep read.
MayClaim(snapshot) ==
  row.exists /\ row.enabled /\ row.next = snapshot.next

\* foldScheduleOutcome, and RecordFire's failed branch.
Failed(r)    == [r EXCEPT !.failures = @ + 1]
Succeeded(r) == [r EXCEPT !.failures = 0]

\* The count may only pass its bound by the firings that were already claimed.
AtBound(r) == r.failures >= MaxFailures
Recount(new) == over' = IF AtBound(new) THEN over ELSE 0

\* Mutant: a settled delivery is settled again.
SettleWins_Always(f, from) == TRUE

\* SettleDelivery: compare-and-set on the delivery's status.
SettleWins(f, from) == fire[f].delivery = from

-----------------------------------------------------------------------------
(* server/scheduler: ScheduleDispatcher, on one replica                      *)

Goto(r, pc)  == disp' = [disp EXCEPT ![r].pc = pc]
Finish(r)    == disp' = [disp EXCEPT ![r] = Idle]
PauseFor(r, reason) ==
  disp' = [disp EXCEPT ![r] = [pc |-> "pause", reason |-> reason]]

\* sweep: read the clock and the due row.
Sweep(r) ==
  /\ disp[r].pc = "idle"
  /\ IsDue
  /\ disp' = [disp EXCEPT ![r] = [pc |-> "check", row |-> row, now |-> now]]
  /\ UNCHANGED <<now, row, authority, fire, send, edit, over, left>>

\* Mutant: the bound is passed before the schedule is paused.
Exhausted_TooLate(snapshot) == snapshot.failures > MaxFailures

\* fireOne: the failure count the sweep read has reached the bound.
Exhausted(snapshot) == snapshot.failures >= MaxFailures

\* Mutant: a rule that does not parse is passed over.
OnUnparsable_Skip(r) == Finish(r)

\* fireOne: a rule that does not parse can never fire.
OnUnparsable(r) == PauseFor(r, "invalid_cron")

\* fireOne, before the claim: the rule parses, the creator is eligible, the
\* failures are under the bound; otherwise pause.
Decide(r) ==
  LET s == disp[r].row
  IN  /\ disp[r].pc = "check"
      /\ CASE ~Parses(s.rule)            -> OnUnparsable(r)
           [] authority = "disabled"     -> PauseFor(r, "creator_disabled")
           [] authority = "removed"      -> PauseFor(r, "creator_not_member")
           [] Exhausted(s)               -> PauseFor(r, "consecutive_failures")
           [] OTHER                      -> Goto(r, "claim")
      /\ UNCHANGED <<now, row, authority, fire, send, edit, over, left>>

\* Eligibility cannot be read: nothing is claimed and the time stays due.
EligibilityUnavailable(r) ==
  /\ disp[r].pc = "check" /\ Parses(disp[r].row.rule)
  /\ Spend("faults")
  /\ Finish(r)
  /\ UNCHANGED <<now, row, authority, fire, send, edit, over>>

\* pause: disables whatever the row has become since the sweep read it.
Pause(r) ==
  /\ disp[r].pc = "pause"
  /\ UpdateSchedule(Disabled(row, disp[r].reason))
  /\ Finish(r)
  /\ UNCHANGED <<now, authority, fire, send, edit, over, left>>

NewFire(due, edits) ==
  [due |-> due, edits |-> edits, run |-> "none", last |-> "none", delivery |-> "none", sent |-> 0]

\* ClaimSchedule: advance next_fire_at from the sweep's clock, then fire.
Claim(r) ==
  LET s == disp[r].row
  IN  /\ disp[r].pc = "claim"
      /\ IF MayClaim(s)
         THEN /\ row' = [row EXCEPT !.next = NextFire(s.rule, disp[r].now)]
              /\ fire' = Append(fire, NewFire(s.next, row.edits))
              /\ over' = IF AtBound(row) THEN over + 1 ELSE over
              /\ disp' = [disp EXCEPT ![r] =
                            [pc |-> "start", failures |-> s.failures, fire |-> Len(fire) + 1]]
         ELSE Finish(r) /\ UNCHANGED <<row, fire, over>>
      /\ UNCHANGED <<now, authority, send, edit, left>>

\* startExecutor: a Task or a workflow run, or an error (quota, a deleted agent).
\* A workflow run whose first pass fails exists in spite of the error.
StartExecutor(r) ==
  /\ disp[r].pc = "start"
  /\ \/ /\ fire' = [fire EXCEPT ![disp[r].fire].run = "ACTIVE", ![disp[r].fire].last = "ACTIVE"]
        /\ Goto(r, "record") \/ Goto(r, "recordFailed")
     \/ Goto(r, "recordFailed") /\ UNCHANGED fire
  /\ UNCHANGED <<now, row, authority, send, edit, over, left>>

\* RecordFire: a started firing's delivery is recorded with it, for the target
\* the row has by now.
RecordFire(r) ==
  /\ disp[r].pc = "record"
  /\ fire' = IF row.exists /\ row.target
             THEN [fire EXCEPT ![disp[r].fire].delivery = "pending"] ELSE fire
  /\ Finish(r)
  /\ UNCHANGED <<now, row, authority, send, edit, over, left>>

\* RecordFire, failed: count it, and pause at once when the count the sweep read
\* makes this the last one allowed.
RecordFailedFire(r) ==
  /\ disp[r].pc = "recordFailed"
  /\ UpdateSchedule(Failed(row))
  /\ Recount(row')
  /\ IF disp[r].failures + 1 >= MaxFailures
     THEN PauseFor(r, "consecutive_failures") ELSE Finish(r)
  /\ UNCHANGED <<now, authority, fire, send, edit, left>>

DispatcherStep(r) ==
  \/ Sweep(r) \/ Decide(r) \/ EligibilityUnavailable(r) \/ Pause(r)
  \/ Claim(r) \/ StartExecutor(r) \/ RecordFire(r) \/ RecordFailedFire(r)

-----------------------------------------------------------------------------
(* service/assistant: the delivery sweeper, on one replica                   *)

Rest(r) == send' = [send EXCEPT ![r] = Idle]

\* Mutant: a run that did not succeed settles nothing.
Plans_SucceededOnly(f) ==
  IF fire[f].last = "SUCCEEDED" THEN {"skipped", "delivered"} ELSE {}

\* planDelivery: a failed or canceled run, a removed target or a rule of the
\* Assistant skips the delivery.
Plans(f) ==
  {"skipped"} \cup {to \in {"delivered"} : fire[f].last = "SUCCEEDED" /\ row.target}

\* sweepScheduleDeliveries and settleDelivery: for a delivery that is listed as
\* pending, fireOutcome reads the Task's last run and planDelivery what to do.  A
\* run that has not ended, or a lookup that fails, leaves it; a delivery settled
\* since it was listed only loses the settlement below.
PlanDelivery(r) ==
  \E f \in DOMAIN fire :
    /\ send[r].pc = "idle"
    /\ row.exists
    /\ fire[f].delivery = "pending" /\ fire[f].last \in Ended
    /\ \E to \in Plans(f) :
         send' = [send EXCEPT ![r] = [pc |-> "settle", fire |-> f, to |-> to]]
    /\ UNCHANGED <<now, row, authority, fire, disp, edit, over, left>>

\* settleDelivery: settling is the claim; only its winner sends.
Settle(r) ==
  LET f == send[r].fire
  IN  /\ send[r].pc = "settle"
      /\ IF SettleWins(f, "pending")
         THEN /\ fire' = [fire EXCEPT ![f].delivery = send[r].to]
              /\ IF send[r].to = "delivered"
                 THEN send' = [send EXCEPT ![r] = [pc |-> "send", fire |-> f]]
                 ELSE Rest(r)
         ELSE Rest(r) /\ UNCHANGED fire
      /\ UNCHANGED <<now, row, authority, disp, edit, over, left>>

\* Gateway.Send: a send that fails may still have reached the chat.
Send(r) ==
  LET f == send[r].fire
      sent == [fire EXCEPT ![f].sent = @ + 1]
  IN  /\ send[r].pc = "send"
      /\ \/ fire' = sent /\ Rest(r)
         \/ /\ fire' \in {fire, sent}
            /\ send' = [send EXCEPT ![r] = [pc |-> "sendFailed", fire |-> f]]
      /\ UNCHANGED <<now, row, authority, disp, edit, over, left>>

RecordSendFailure(r) ==
  LET f == send[r].fire
  IN  /\ send[r].pc = "sendFailed"
      /\ fire' = IF SettleWins(f, "delivered")
                 THEN [fire EXCEPT ![f].delivery = "failed"] ELSE fire
      /\ Rest(r)
      /\ UNCHANGED <<now, row, authority, disp, edit, over, left>>

SweeperStep(r) ==
  PlanDelivery(r) \/ Settle(r) \/ Send(r) \/ RecordSendFailure(r)

-----------------------------------------------------------------------------
(* What the firings started, and people                                      *)

\* The firing's own run ends, and its outcome is folded into the count in the
\* same transaction; a cancel is neither.
EndRun(f) ==
  /\ f \in DOMAIN fire /\ fire[f].run = "ACTIVE"
  /\ \E v \in Ended :
       /\ fire' = [fire EXCEPT ![f].run = v, ![f].last = v]
       /\ CASE v = "SUCCEEDED" -> UpdateSchedule(Succeeded(row))
            [] v = "FAILED"    -> UpdateSchedule(Failed(row))
            [] OTHER           -> UNCHANGED row
       /\ Recount(row')
  /\ UNCHANGED <<now, authority, disp, send, edit, left>>

\* A person continues or retries the Task: its last run is no longer the
\* firing's, and how it ends is not the schedule's.
ContinueTask(f) ==
  /\ fire[f].last \in Ended /\ Spend("continues")
  /\ fire' = [fire EXCEPT ![f].last = "ACTIVE"]
  /\ UNCHANGED <<now, row, authority, disp, send, edit, over>>

EndContinued(f) ==
  /\ f \in DOMAIN fire /\ fire[f].last = "ACTIVE" /\ fire[f].run \in Ended
  /\ \E v \in Ended : fire' = [fire EXCEPT ![f].last = v]
  /\ UNCHANGED <<now, row, authority, disp, send, edit, over, left>>

\* Update reads the row, and the clock when the rule changes, ...
BeginEdit ==
  /\ edit.pc = "idle" /\ row.exists
  /\ \/ \E kind \in {"enable", "disable", "target"} : May(kind) /\ edit' = [pc |-> kind]
     \/ \E rule \in Rules :
          /\ May("rule") /\ Parses(rule)
          /\ edit' = [pc |-> "rule", rule |-> rule, next |-> NextFire(rule, now)]
  /\ UNCHANGED <<now, row, authority, fire, disp, send, over>>

\* ... and then writes its fields, next_fire_at from that reading among them,
\* whatever minute it is by now.  Disabling is a manual pause.
WriteEdit ==
  /\ edit.pc # "idle"
  /\ UpdateSchedule(CASE edit.pc = "enable"  -> Enabled(row)
                      [] edit.pc = "disable" -> Disabled(row, "manual")
                      [] edit.pc = "target"  -> [row EXCEPT !.target = ~@]
                      [] edit.pc = "rule"    -> [row EXCEPT !.rule = edit.rule,
                                                            !.next = edit.next,
                                                            !.edits = @ + 1])
  /\ Recount(row')
  /\ edit' = Idle
  /\ UNCHANGED <<now, authority, fire, disp, send, left>>

\* DeleteSchedule takes the deliveries with it.
DeleteSchedule ==
  /\ row.exists /\ May("delete")
  /\ row' = [row EXCEPT !.exists = FALSE]
  /\ fire' = [f \in DOMAIN fire |-> [fire[f] EXCEPT !.delivery = "none"]]
  /\ UNCHANGED <<now, authority, disp, send, edit, over>>

\* The creator's account is disabled or enabled, or the creator leaves the Space.
ChangeAuthority ==
  /\ May("authority")
  /\ authority' \in {"ok", "disabled", "removed"} \ {authority}
  /\ UNCHANGED <<now, row, fire, disp, send, edit, over>>

\* accountlifecycle.Disable pauses the enabled schedules of a disabled account.
PauseDisabledAccount ==
  /\ authority = "disabled" /\ row.exists /\ row.enabled
  /\ UpdateSchedule(Disabled(row, "creator_disabled"))
  /\ UNCHANGED <<now, authority, fire, disp, send, edit, over, left>>

Tick ==
  /\ Spend("ticks")
  /\ now' = now + 1
  /\ UNCHANGED <<row, authority, fire, disp, send, edit, over>>

\* A replica dies in the middle of its sweeps.
Crash(r) ==
  /\ disp[r].pc # "idle" \/ send[r].pc # "idle"
  /\ Spend("faults")
  /\ disp' = [disp EXCEPT ![r] = Idle]
  /\ send' = [send EXCEPT ![r] = Idle]
  /\ UNCHANGED <<now, row, authority, fire, edit, over>>

Init ==
  /\ now = 0
  /\ left \in Scenarios
  /\ \E rule \in Rules :
       row = [exists |-> TRUE, enabled |-> TRUE, reason |-> "", failures |-> 0,
              rule |-> rule, target |-> left.target, edits |-> 0,
              next |-> IF Parses(rule) THEN NextFire(rule, 0) ELSE 1]
  /\ authority = "ok"
  /\ fire = <<>>
  /\ disp = [r \in Replicas |-> Idle]
  /\ send = [r \in Replicas |-> Idle]
  /\ edit = Idle
  /\ over = 0

Next ==
  \/ \E r \in Replicas : DispatcherStep(r) \/ SweeperStep(r) \/ Crash(r)
  \/ \E f \in DOMAIN fire : EndRun(f) \/ ContinueTask(f) \/ EndContinued(f)
  \/ BeginEdit \/ WriteEdit \/ DeleteSchedule
  \/ ChangeAuthority \/ PauseDisabledAccount
  \/ Tick

Spec == Init /\ [][Next]_vars

Minutes == UNION {1..s.ticks : s \in Scenarios}

\* Both loops of every replica keep ticking; an outage may hit any sweep but not
\* every sweep; runs end (EveryRunSettles of RunLifecycle, EveryRunEnds of WorkflowRuntime).
FairSpec ==
  /\ Spec
  /\ \A r \in Replicas :
       /\ WF_vars(DispatcherStep(r))
       /\ WF_vars(SweeperStep(r))
  /\ \A f \in Minutes : WF_vars(EndRun(f) \/ EndContinued(f))

-----------------------------------------------------------------------------
(* Properties *)

Reasons == {"", "manual", "invalid_cron", "creator_disabled", "creator_not_member",
            "consecutive_failures"}

\* The row has its type, a stored reason belongs to a paused schedule, and every
\* sweep is about a firing that exists.
TypeOK ==
  /\ now \in Minutes \cup {0} /\ over \in Nat
  /\ row \in [exists : BOOLEAN, enabled : BOOLEAN, reason : Reasons, failures : Nat,
              rule : Rules, target : BOOLEAN, next : Nat, edits : Nat]
  /\ row.enabled => row.reason = ""
  /\ \A f \in DOMAIN fire :
       /\ fire[f].run \in Ended \cup {"none", "ACTIVE"}
       /\ fire[f].delivery \in {"none", "pending", "delivered", "skipped", "failed"}
       /\ fire[f].run = "none" => fire[f].delivery = "none"
  /\ \A r \in Replicas :
       /\ disp[r].pc \in {"start", "record", "recordFailed"} => disp[r].fire \in DOMAIN fire
       /\ send[r].pc # "idle" => send[r].fire \in DOMAIN fire

\* Claims alone fire a due time once: whichever replicas see it due and however
\* old the row they read, a second claim of it takes an edit that has written
\* next_fire_at since the first (ClaimSchedule, UpdateSchedule).  Such an edit
\* may write back a due time that was claimed after it read the clock, so this
\* is weaker than docs/design/scheduled-agent-execution.md 7, by which the
\* claim "makes firing exactly-once across replicas".
OneFirePerEdit ==
  \A f, g \in DOMAIN fire :
    fire[f].due = fire[g].due /\ fire[f].edits = fire[g].edits => f = g

\* Once the failure count is at its bound, what is claimed before the schedule
\* is paused, enabled anew or succeeds is claimed by sweeps that read the row
\* before the last failure was counted: at most one firing while nobody has
\* edited the rule, and at most one of each replica after an edit that wrote an
\* older due time back (fireOne, ClaimSchedule).
OvershootIsBounded ==
  over <= IF row.edits = 0 THEN 1 ELSE Cardinality(Replicas)

\* A result is sent at most once, and only for a delivery that says so: a
\* skipped or pending one has sent nothing, on any replica, across crashes.
SentOnce ==
  \A f \in DOMAIN fire :
    /\ fire[f].sent <= 1
    /\ fire[f].sent = 1 /\ row.exists => fire[f].delivery \in {"delivered", "failed"}

\* A due time is not left to the other replica: a due schedule is claimed,
\* paused, edited or deleted.
DueIsHandled == IsDue ~> ~IsDue

\* A pending delivery does not stay pending.
DeliveriesSettle ==
  \A f \in Minutes :
    (f \in DOMAIN fire /\ fire[f].delivery = "pending") 
      ~> ~(f \in DOMAIN fire /\ fire[f].delivery = "pending")
=============================================================================
