------------------------- MODULE FailureCountProofs -------------------------
(***************************************************************************)
(* schedule.consecutive_failures is exact, for every number of tasks, runs  *)
(* and schedules.  FailuresExact is inductive beside StoreInv and two facts *)
(* about the history: what is set aside has ended, so a firing that fails   *)
(* now is not among it, and a firing keeps the task, the source and the     *)
(* schedule it was created with.                                            *)
(***************************************************************************)
EXTENDS FailureCount, TaskStoreProofs

\* What is set aside has ended.
HistoryInv ==
  /\ before \in [Schedules -> SUBSET Runs]
  /\ others \in [Schedules -> Nat]
  /\ \A s \in Schedules : \A r \in before[s] : run[r].status \in Terminal

CountInv == StoreInv /\ HistoryInv /\ FailuresExact

\* The failed firings of a schedule.
FailedOf(s) == {r \in Firings(s) : run[r].status = "FAILED"}

\* The count of one schedule is exact.
ExactFor(s) == failures[s] = Cardinality(FailedOf(s) \ before[s]) + others[s]

\* A step of the runs that means nothing to the schedule.
Quiet(s) ==
  /\ FailedOf(s)' = FailedOf(s)
  /\ NowEnds(s, "SUCCEEDED") = {}
  /\ failures'[s] = failures[s]

\* FailuresExact is ExactFor every schedule.
LEMMA ExactForAll == FailuresExact <=> \A s \in Schedules : ExactFor(s)
BY DEF FailuresExact, ExactFor, FailedOf

\* The failed firings are a finite set: they are rows of the table.
LEMMA FailedFinite ==
  ASSUME NEW s, NEW S PROVE IsFiniteSet(FailedOf(s) \ S)
<1>1. IsFiniteSet(Runs)
  BY StoreAssumption, FS_Interval DEF Runs
<1>2. FailedOf(s) \ S \in SUBSET Runs
  BY DEF FailedOf, Firings
<1> QED
  BY <1>1, <1>2, FS_Subset

\* CreateTask adds a pending firing: the task is new, so no older run becomes
\* a firing of its schedule.
LEMMA CreateTaskCount ==
  ASSUME StoreInv, NEW t \in Tasks, NEW s \in OrNil(Schedules),
         CreateTask(t, s), NEW x \in Schedules
  PROVE  Quiet(x)
<1>1. PICK r \in Runs :
        /\ NextRow(r)
        /\ run' = [run EXCEPT ![r] =
             [NoRow EXCEPT !.task = t, !.status = "PENDING",
                           !.source = IF s = Nil THEN "user" ELSE "schedule"]]
        /\ task' = [task EXCEPT ![t] =
             [NoTask EXCEPT !.last = r, !.status = "PENDING", !.sched = s]]
  BY DEF CreateTask
<1>2. RunsOf(t) = {}
  BY DEF CreateTask, StoreInv, TaskMirrorsLastRun
<1>3. run'[r].status = "PENDING" /\ \A q \in Runs \ {r} : run'[q] = run[q]
  BY <1>1 DEF StoreInv, StoreTypeOK, NoRow
<1>4. \A u \in Tasks \ {t} : task'[u] = task[u]
  BY <1>1 DEF StoreInv, StoreTypeOK
<1>5. run[r].task = Nil
  BY <1>1 DEF NextRow, StoreInv, RowsKnown
<1>6. ASSUME NEW q \in Runs \ {r}
      PROVE  (q \in Firings(x)') <=> (q \in Firings(x))
  <2>1. CASE run[q].task = Nil
    BY <1>3, <1>6, <2>1 DEF Firings
  <2>2. CASE run[q].task # Nil
    <3>1. run[q].task \in Tasks \ {t}
      BY <1>2, <1>6, <2>2 DEF StoreInv, RowsKnown, RunsOf
    <3> QED
      BY <1>3, <1>4, <1>6, <3>1 DEF Firings
  <2> QED
    BY <2>1, <2>2
<1>7. r \notin Firings(x)
  BY <1>5 DEF Firings
<1>8. FailedOf(x)' = FailedOf(x)
  <2>1. \A q \in Runs : (q \in FailedOf(x)') <=> (q \in FailedOf(x))
    BY <1>3, <1>6, <1>7 DEF FailedOf
  <2>2. FailedOf(x) \subseteq Runs /\ FailedOf(x)' \subseteq Runs
    BY DEF FailedOf, Firings
  <2> QED
    BY <2>1, <2>2
<1>9. NowEnds(x, "SUCCEEDED") = {}
  <2>1. \A q \in Firings(x) : q \in Runs \ {r}
    BY <1>7 DEF Firings
  <2> QED
    BY <1>3, <2>1 DEF NowEnds, Active
<1>10. failures'[x] = failures[x]
  BY DEF CreateTask
<1> QED
  BY <1>8, <1>9, <1>10 DEF Quiet

\* The firings of a schedule stay the same when the task and source columns of
\* the rows in S and every task's schedule do, and no row outside S is a firing.
LEMMA SameFirings ==
  ASSUME StoreInv, NEW x, NEW S \in SUBSET Runs,
         \A q \in S : /\ run'[q].source = run[q].source
                      /\ run'[q].task = run[q].task,
         \A u \in Tasks : task'[u].sched = task[u].sched,
         \A q \in Runs \ S : q \notin Firings(x) /\ q \notin Firings(x)'
  PROVE  Firings(x)' = Firings(x)
<1>1. ASSUME NEW q \in S PROVE (q \in Firings(x)') <=> (q \in Firings(x))
  <2>1. q \in Runs /\ (run[q].task = Nil \/ run[q].task \in Tasks)
    BY <1>1 DEF StoreInv, RowsKnown
  <2>2. /\ run'[q].source = run[q].source /\ run'[q].task = run[q].task
        /\ run[q].task \in Tasks
             => task'[run[q].task].sched = task[run[q].task].sched
    BY <1>1
  <2> QED
    BY <2>1, <2>2 DEF Firings
<1>2. Firings(x) \subseteq Runs /\ Firings(x)' \subseteq Runs
  BY DEF Firings
<1> QED
  BY <1>1, <1>2

\* CreateTaskRun adds no firing: a Continue or a Retry is a user's run.
LEMMA CreateTaskRunCount ==
  ASSUME StoreInv, NEW t \in Tasks, NEW key \in OrNil(Keys),
         NEW q \in OrNil(RunsOf(t)), CreateTaskRun(t, key, q),
         NEW x \in Schedules
  PROVE  Quiet(x)
<1>1. PICK r \in Runs :
        /\ NextRow(r)
        /\ run' = [run EXCEPT ![r] = NewRunRow(t, key, q)]
        /\ task' = [task EXCEPT
             ![t].last = r, ![t].status = "PENDING", ![t].out = Nil,
             ![t].asks = FALSE]
  BY DEF CreateTaskRun
<1>2. \A p \in Runs \ {r} : run'[p] = run[p]
  BY <1>1 DEF StoreInv, StoreTypeOK
<1>3. run'[r].source = "user"
  <2>1. run'[r] = NewRunRow(t, key, q)
    BY <1>1 DEF StoreInv, StoreTypeOK
  <2> QED
    BY <2>1 DEF NewRunRow, NoRow
<1>4. \A u \in Tasks : task'[u].sched = task[u].sched
  BY <1>1 DEF StoreInv, StoreTypeOK, TaskRow
<1>5. r \notin Firings(x) /\ r \notin Firings(x)'
  BY <1>1, <1>3 DEF Firings, NextRow, StoreInv, RowsKnown
<1>6. Firings(x)' = Firings(x)
  <2> DEFINE S == Runs \ {r}
  <2>1. \A p \in S : run'[p].source = run[p].source /\ run'[p].task = run[p].task
    BY <1>2
  <2>2. \A p \in Runs \ S : p \notin Firings(x) /\ p \notin Firings(x)'
    BY <1>5
  <2>3. S \in SUBSET Runs
    OBVIOUS
  <2> HIDE DEF S
  <2> QED
    BY <1>4, <2>1, <2>2, <2>3, SameFirings
<1>7. \A p \in Firings(x) : run'[p] = run[p]
  BY <1>2, <1>5 DEF Firings
<1>8. FailedOf(x)' = FailedOf(x) /\ NowEnds(x, "SUCCEEDED") = {}
  BY <1>6, <1>7 DEF FailedOf, NowEnds, Active
<1>9. failures'[x] = failures[x]
  BY DEF CreateTaskRun
<1> QED
  BY <1>8, <1>9 DEF Quiet

\* A transition counts a firing's end exactly once: the compare-and-set has
\* found the run active, so it is not among the failed ones yet.
LEMMA TransitionCount ==
  ASSUME StoreInv, NEW r \in Runs, NEW to \in Status, NEW u \in Update,
         TransitionTaskRun(r, run[r].status, to, u),
         NEW x \in Schedules
  PROVE  \/ Quiet(x)
         \/ \E q \in Runs \ FailedOf(x) :
              /\ run[q].status \in Active
              /\ FailedOf(x)' = FailedOf(x) \cup {q}
              /\ NowEnds(x, "SUCCEEDED") = {}
              /\ failures'[x] = failures[x] + 1
         \/ /\ FailedOf(x)' = FailedOf(x)
            /\ NowEnds(x, "SUCCEEDED") # {}
            /\ failures'[x] = 0
<1> DEFINE row == UpdatedRun(run[r], to, u)
<1>1. Move(r, row) /\ failures' = FoldScheduleOutcome(row, to)
  BY TransitionMoves
<1>2. /\ row.status = to /\ row.source = run[r].source
      /\ row.task = run[r].task
  BY UpdatedRunRow DEF StoreInv, StoreTypeOK
<1> HIDE DEF row
<1>3. /\ run'[r] = row /\ \A p \in Runs \ {r} : run'[p] = run[p]
      /\ run[r].status \in Active
  BY <1>1 DEF StoreInv, StoreTypeOK, Move
<1>4. \A v \in Tasks : task'[v].sched = task[v].sched
  BY <1>1 DEF StoreInv, StoreTypeOK, TaskRow, Move
<1>5. Firings(x)' = Firings(x)
  <2>1. \A p \in Runs : run'[p].source = run[p].source /\ run'[p].task = run[p].task
    BY <1>2, <1>3
  <2> QED
    BY <1>4, <2>1, SameFirings
<1>6. run[r].task \in Tasks /\ run[r].task # Nil
  BY <1>3, StoreAssumption DEF StoreInv, RowsKnown, Active
<1>7. (r \in Firings(x))
        <=> (run[r].source = "schedule" /\ task[run[r].task].sched = x)
  BY <1>6 DEF Firings
<1>8. x # Nil /\ x \in DOMAIN failures /\ failures[x] \in Nat
  BY StoreAssumption DEF StoreInv, StoreTypeOK
<1>9. failures'[x] = IF r \in Firings(x) /\ to = "FAILED" THEN failures[x] + 1
                     ELSE IF r \in Firings(x) /\ to = "SUCCEEDED" THEN 0
                     ELSE failures[x]
  <2> DEFINE s == task[run[r].task].sched
  <2>1. failures' = IF /\ to \in {"SUCCEEDED", "FAILED"}
                       /\ run[r].source = "schedule" /\ s # Nil
                    THEN [failures EXCEPT
                            ![s] = IF to = "FAILED" THEN failures[s] + 1 ELSE 0]
                    ELSE failures
    BY <1>1, <1>2 DEF FoldScheduleOutcome
  <2>2. (r \in Firings(x)) <=> (run[r].source = "schedule" /\ s = x)
    BY <1>7
  <2> HIDE DEF s
  <2>3. CASE r \in Firings(x)
    BY <1>8, <2>1, <2>2, <2>3
  <2>4. CASE r \notin Firings(x)
    BY <1>8, <2>1, <2>2, <2>4
  <2> QED
    BY <2>3, <2>4
<1>10. r \notin FailedOf(x)
  BY <1>3 DEF FailedOf, Active
<1>11. FailedOf(x)' = IF r \in Firings(x) /\ to = "FAILED"
                      THEN FailedOf(x) \cup {r} ELSE FailedOf(x)
  <2>1. \A p \in Firings(x) : p # r => run'[p] = run[p]
    BY <1>3 DEF Firings
  <2>2. run'[r].status = to
    BY <1>2, <1>3
  <2> QED
    BY <1>5, <1>10, <2>1, <2>2 DEF FailedOf
<1>12. (NowEnds(x, "SUCCEEDED") # {}) <=> (r \in Firings(x) /\ to = "SUCCEEDED")
  <2>1. run'[r].status = to
    BY <1>2, <1>3
  <2>2. \A p \in Firings(x) \ {r} : p \notin NowEnds(x, "SUCCEEDED")
    BY <1>3 DEF NowEnds, Firings, Active
  <2>3. NowEnds(x, "SUCCEEDED") \subseteq Firings(x)
    BY DEF NowEnds
  <2>4. (r \in NowEnds(x, "SUCCEEDED")) <=> (r \in Firings(x) /\ to = "SUCCEEDED")
    BY <1>3, <2>1 DEF NowEnds
  <2> QED
    BY <2>2, <2>3, <2>4
<1>13. CASE r \in Firings(x) /\ to = "FAILED"
  BY <1>3, <1>9, <1>10, <1>11, <1>12, <1>13
<1>14. CASE r \in Firings(x) /\ to = "SUCCEEDED"
  BY <1>9, <1>11, <1>12, <1>14
<1>15. CASE r \notin Firings(x) \/ to \notin {"SUCCEEDED", "FAILED"}
  BY <1>9, <1>11, <1>12, <1>15 DEF Quiet
<1> QED
  BY <1>13, <1>14, <1>15

\* A cancel request ends nothing.
LEMMA CancelCount ==
  ASSUME StoreInv, NEW r \in Runs, NEW c \in Reasons,
         RequestTaskRunCancel(r, c), NEW x \in Schedules
  PROVE  Quiet(x)
<1>1. /\ task' = task /\ failures' = failures
      /\ \A p \in Runs : /\ run'[p].source = run[p].source
                         /\ run'[p].task = run[p].task
                         /\ run'[p].status = run[p].status
  BY DEF RequestTaskRunCancel, StoreInv, StoreTypeOK, RunRow
<1>2. Firings(x)' = Firings(x)
  BY <1>1 DEF Firings
<1>3. Firings(x) \subseteq Runs
  BY DEF Firings
<1>4. FailedOf(x)' = FailedOf(x)
  BY <1>1, <1>2, <1>3 DEF FailedOf
<1>5. NowEnds(x, "SUCCEEDED") = {}
  BY <1>1, <1>3 DEF NowEnds, Active
<1> QED
  BY <1>1, <1>4, <1>5 DEF Quiet

\* A step of the runs keeps every schedule's count exact.
LEMMA RunStepExact ==
  ASSUME CountInv, RunStep, NEW x \in Schedules
  PROVE  ExactFor(x)'
<1>0. /\ StoreInv /\ ExactFor(x) /\ others[x] \in Nat /\ before[x] \in SUBSET Runs
      /\ \A q \in before[x] : run[q].status \in Terminal
  BY ExactForAll DEF CountInv, HistoryInv
<1>1. /\ before'[x] = IF NowEnds(x, "SUCCEEDED") # {}
                      THEN Ended(x) \cup NowEnds(x, "SUCCEEDED") ELSE before[x]
      /\ others'[x] = IF NowEnds(x, "SUCCEEDED") # {} THEN 0 ELSE others[x]
  BY DEF RunStep
<1>2. ASSUME Quiet(x) PROVE ExactFor(x)'
  <2>1. before'[x] = before[x] /\ others'[x] = others[x]
    BY <1>1, <1>2 DEF Quiet
  <2>2. (FailedOf(x) \ before[x])' = FailedOf(x) \ before[x]
    BY <1>2, <2>1 DEF Quiet
  <2> QED
    BY <1>0, <1>2, <2>1, <2>2 DEF ExactFor, Quiet
<1>3. ASSUME NEW q \in Runs \ FailedOf(x), run[q].status \in Active,
             FailedOf(x)' = FailedOf(x) \cup {q},
             NowEnds(x, "SUCCEEDED") = {}, failures'[x] = failures[x] + 1
      PROVE  ExactFor(x)'
  <2>1. before'[x] = before[x] /\ others'[x] = others[x]
    BY <1>1, <1>3
  <2>2. q \notin before[x]
    BY <1>0, <1>3 DEF Active, Terminal
  <2>3. PICK F : F = FailedOf(x) \ before[x]
    OBVIOUS
  <2>4. (FailedOf(x) \ before[x])' = F \cup {q} /\ q \notin F
    BY <1>3, <2>1, <2>2, <2>3
  <2>5. IsFiniteSet(F)
    BY <2>3, FailedFinite
  <2>6. Cardinality(F \cup {q}) = Cardinality(F) + 1 /\ Cardinality(F) \in Nat
    BY <2>4, <2>5, FS_AddElement, FS_CardinalityType
  <2>7. failures[x] = Cardinality(F) + others[x]
    BY <1>0, <2>3 DEF ExactFor
  <2>8. PICK n \in Nat : n = Cardinality(F)
    BY <2>6
  <2>9. failures'[x] = (n + 1) + others'[x]
    BY <1>0, <1>3, <2>1, <2>7, <2>8
  <2>10. Cardinality((FailedOf(x) \ before[x])') = n + 1
    BY <2>4, <2>6, <2>8
  <2> QED
    BY <2>9, <2>10 DEF ExactFor
<1>4. ASSUME FailedOf(x)' = FailedOf(x), NowEnds(x, "SUCCEEDED") # {},
             failures'[x] = 0
      PROVE  ExactFor(x)'
  <2>1. FailedOf(x) \subseteq Ended(x)
    BY DEF FailedOf, Ended, Terminal
  <2>2. (FailedOf(x) \ before[x])' = {} /\ others'[x] = 0
    BY <1>1, <1>4, <2>1
  <2> QED
    BY <1>4, <2>2, FS_EmptySet DEF ExactFor
<1>5. ASSUME NEW t \in Tasks, NEW s \in OrNil(Schedules), CreateTask(t, s)
      PROVE  ExactFor(x)'
  BY <1>0, <1>2, <1>5, CreateTaskCount
<1>6. ASSUME NEW t \in Tasks, NEW k \in OrNil(Keys), NEW q \in OrNil(RunsOf(t)),
             CreateTaskRun(t, k, q)
      PROVE  ExactFor(x)'
  BY <1>0, <1>2, <1>6, CreateTaskRunCount
<1>7. ASSUME NEW r \in Runs, NEW to \in Status, NEW u \in Sent(run[r].status, to),
             TransitionTaskRun(r, run[r].status, to, u)
      PROVE  ExactFor(x)'
  <2>1. u \in Update
    BY DEF Sent
  <2> QED
    BY <1>0, <1>2, <1>3, <1>4, <1>7, <2>1, TransitionCount
<1>8. ASSUME NEW r \in Runs, NEW c \in Reasons, RequestTaskRunCancel(r, c)
      PROVE  ExactFor(x)'
  BY <1>0, <1>2, <1>8, CancelCount
<1> QED
  BY <1>5, <1>6, <1>7, <1>8 DEF RunStep, RunNext

\* The other writers count one, or start over with everything ended set aside.
LEMMA WriterExact ==
  ASSUME CountInv, NEW s \in Schedules, NEW x \in Schedules,
         \/ EnableSchedule(s) /\ StartOver(s)
         \/ RecordFailedStart(s) /\ CountOther(s)
         \/ FoldWorkflowOutcome(s, TRUE) /\ CountOther(s)
         \/ FoldWorkflowOutcome(s, FALSE) /\ StartOver(s)
  PROVE  ExactFor(x)' /\ HistoryInv'
<1>0. /\ failures \in [Schedules -> Nat] /\ ExactFor(x)
      /\ before \in [Schedules -> SUBSET Runs] /\ others \in [Schedules -> Nat]
      /\ \A v \in Schedules : \A r \in before[v] : run[r].status \in Terminal
  BY ExactForAll DEF CountInv, HistoryInv, StoreInv, StoreTypeOK
<1>1. run' = run /\ task' = task
  BY DEF EnableSchedule, RecordFailedStart, FoldWorkflowOutcome
<1>2. FailedOf(x)' = FailedOf(x) /\ Ended(x)' = Ended(x)
  BY <1>1 DEF FailedOf, Ended, Firings
<1>3. CASE /\ failures' = [failures EXCEPT ![s] = 0] /\ StartOver(s)
  <2>1. /\ before' = [before EXCEPT ![s] = Ended(s)]
        /\ others' = [others EXCEPT ![s] = 0]
    BY <1>3 DEF StartOver
  <2>2. Ended(s) \in SUBSET Runs /\ \A r \in Ended(s) : run[r].status \in Terminal
    BY DEF Ended, Firings
  <2>3. HistoryInv'
    BY <1>0, <1>1, <2>1, <2>2 DEF HistoryInv
  <2>4. CASE x = s
    <3>1. FailedOf(x) \subseteq Ended(x)
      BY DEF FailedOf, Ended, Terminal
    <3>2. (FailedOf(x) \ before[x])' = {} /\ others'[x] = 0 /\ failures'[x] = 0
      BY <1>0, <1>2, <1>3, <2>1, <2>4, <3>1
    <3> QED
      BY <2>3, <3>2, FS_EmptySet DEF ExactFor
  <2>5. CASE x # s
    <3>1. /\ before'[x] = before[x] /\ others'[x] = others[x]
          /\ failures'[x] = failures[x]
      BY <1>0, <1>3, <2>1, <2>5
    <3>2. (FailedOf(x) \ before[x])' = FailedOf(x) \ before[x]
      BY <1>2, <3>1
    <3> QED
      BY <1>0, <2>3, <3>1, <3>2 DEF ExactFor
  <2> QED
    BY <2>4, <2>5
<1>4. CASE /\ failures' = [failures EXCEPT ![s] = @ + 1] /\ CountOther(s)
  <2>1. before' = before /\ others' = [others EXCEPT ![s] = @ + 1]
    BY <1>4 DEF CountOther
  <2>2. HistoryInv'
    BY <1>0, <1>1, <2>1 DEF HistoryInv
  <2>3. PICK F : F = FailedOf(x) \ before[x]
    OBVIOUS
  <2>4. (FailedOf(x) \ before[x])' = F
    BY <1>2, <2>1, <2>3
  <2>5. Cardinality(F) \in Nat
    BY <2>3, FailedFinite, FS_CardinalityType
  <2>6. failures[x] = Cardinality(F) + others[x]
    BY <1>0, <2>3 DEF ExactFor
  <2>7. failures'[x] = Cardinality(F) + others'[x]
    BY <1>0, <1>4, <2>1, <2>5, <2>6
  <2> QED
    BY <2>2, <2>4, <2>7 DEF ExactFor
<1> QED
  BY <1>3, <1>4 DEF EnableSchedule, RecordFailedStart, FoldWorkflowOutcome

\* A step of the runs sets aside only what has ended.
LEMMA RunStepHistory ==
  ASSUME CountInv, RunStep, [StoreNext]_storeVars
  PROVE  HistoryInv'
<1>0. /\ StoreInv /\ before \in [Schedules -> SUBSET Runs]
      /\ others \in [Schedules -> Nat]
      /\ \A v \in Schedules : \A r \in before[v] : run[r].status \in Terminal
  BY DEF CountInv, HistoryInv
<1>1. \A r \in Runs : run[r].status \in Terminal => run'[r].status \in Terminal
  BY <1>0, TerminalStep
<1>2. ASSUME NEW s \in Schedules
      PROVE  /\ before'[s] \in SUBSET Runs /\ others'[s] \in Nat
             /\ \A r \in before'[s] : run'[r].status \in Terminal
  <2>1. /\ Ended(s) \in SUBSET Runs /\ NowEnds(s, "SUCCEEDED") \in SUBSET Runs
        /\ \A r \in Ended(s) : run[r].status \in Terminal
        /\ \A r \in NowEnds(s, "SUCCEEDED") : run'[r].status = "SUCCEEDED"
    BY DEF Ended, NowEnds, Firings
  <2>2. \/ before'[s] = Ended(s) \cup NowEnds(s, "SUCCEEDED") /\ others'[s] = 0
        \/ before'[s] = before[s] /\ others'[s] = others[s]
    BY DEF RunStep
  <2> QED
    BY <1>0, <1>1, <2>1, <2>2 DEF Terminal
<1>3. before' \in [Schedules -> SUBSET Runs] /\ others' \in [Schedules -> Nat]
  BY <1>2 DEF RunStep
<1> QED
  BY <1>2, <1>3 DEF HistoryInv

\* schedule.consecutive_failures is exact: with every writer of the column, in
\* any order and for any number of firings, it is the number of failures since
\* the schedule last succeeded or was enabled, each counted once by the
\* transaction that settled it.
THEOREM FailuresAreExact == Spec => []FailuresExact
<1>1. Init => CountInv
  <2> SUFFICES ASSUME Init PROVE CountInv
    OBVIOUS
  <2>1. StoreInv
    BY InitEstablishes DEF Init
  <2>2. HistoryInv
    BY DEF Init, HistoryInv
  <2>3. ASSUME NEW s \in Schedules PROVE ExactFor(s)
    <3>1. FailedOf(s) \ before[s] = {}
      BY DEF Init, StoreInit, FailedOf, Firings, NoRow
    <3> QED
      BY <3>1, FS_EmptySet DEF Init, StoreInit, ExactFor
  <2> QED
    BY <2>1, <2>2, <2>3, ExactForAll DEF CountInv
<1>2. CountInv /\ [Next]_countVars => CountInv'
  <2> SUFFICES ASSUME CountInv, [Next]_countVars PROVE CountInv'
    OBVIOUS
  <2>0. StoreInv
    BY DEF CountInv
  <2>1. [StoreNext]_storeVars
    BY DEF Next, RunStep, StoreNext, CountNext, countVars, storeVars
  <2>2. StoreInv'
    BY <2>0, <2>1, NextPreserves
  <2>3. ASSUME RunStep
        PROVE  HistoryInv' /\ \A x \in Schedules : ExactFor(x)'
    BY <2>1, <2>3, RunStepHistory, RunStepExact
  <2>4. ASSUME NEW s \in Schedules,
               \/ EnableSchedule(s) /\ StartOver(s)
               \/ RecordFailedStart(s) /\ CountOther(s)
               \/ FoldWorkflowOutcome(s, TRUE) /\ CountOther(s)
               \/ FoldWorkflowOutcome(s, FALSE) /\ StartOver(s)
        PROVE  HistoryInv' /\ \A x \in Schedules : ExactFor(x)'
    BY <2>4, WriterExact
  <2>5. ASSUME UNCHANGED countVars
        PROVE  HistoryInv' /\ \A x \in Schedules : ExactFor(x)'
    <3>1. HistoryInv'
      BY <2>5 DEF countVars, CountInv, HistoryInv
    <3>2. ASSUME NEW x \in Schedules PROVE ExactFor(x)'
      <4>1. ExactFor(x)
        BY ExactForAll DEF CountInv
      <4> QED
        BY <2>5, <4>1 DEF countVars, ExactFor, FailedOf, Firings
    <3> QED
      BY <3>1, <3>2
  <2>6. HistoryInv' /\ \A x \in Schedules : ExactFor(x)'
    BY <2>3, <2>4, <2>5 DEF Next
  <2>7. FailuresExact'
    BY <2>6 DEF FailuresExact, ExactFor, FailedOf
  <2> QED
    BY <2>2, <2>6, <2>7 DEF CountInv
<1>3. CountInv => FailuresExact
  BY DEF CountInv
<1> QED
  BY <1>1, <1>2, <1>3, PTL DEF Spec
=============================================================================
