--------------------------- MODULE TaskKernelProofs ---------------------------
(***************************************************************************)
(* The rows of the kernel are well typed in every reachable state: one     *)
(* lemma for each way a row changes, one case for each action.             *)
(***************************************************************************)
EXTENDS TaskKernel, TLAPS

USE DEF OutstandingState, TerminalState, Claims

\* The row updates of a release, a cancellation and a wake-up are rows.
LEMMA RowTypes ==
    ASSUME NEW r \in TaskRow, NEW st \in TaskState
    PROVE  /\ Unleased(r, st) \in TaskRow
           /\ CancelledRow(r) \in TaskRow
           /\ WokenRow(r) \in TaskRow
<1>1. 0 \in 0..MaxClaims
  BY KernelAssumption
<1>2. ASSUME NEW x \in TaskState
      PROVE  Unleased(r, x) \in TaskRow
  BY <1>1, <1>2 DEF TaskRow, Unleased
<1>3. CancelledRow(r) \in TaskRow
  <2>1. "cancelled" \in TaskState
    BY DEF TaskState
  <2> QED
    BY <1>2, <2>1 DEF TaskRow, CancelledRow
<1>4. WokenRow(r) \in TaskRow
  BY DEF TaskRow, WokenRow, TaskState
<1> QED
  BY <1>2, <1>3, <1>4

\* What a row without its lease keeps.
LEMMA RowFields ==
    ASSUME NEW r \in TaskRow, NEW st \in TaskState
    PROVE  /\ Unleased(r, st).state = st
           /\ Unleased(r, st).token = 0
           /\ Unleased(r, st).attempt = r.attempt
           /\ Unleased(r, st).failed = r.failed
           /\ Unleased(r, st).max = r.max
           /\ Unleased(r, st).parent = r.parent
BY DEF TaskRow, TaskState, Unleased

\* A row with one column replaced by a value of its type is a row.
LEMMA RowUpdates ==
    ASSUME NEW r \in TaskRow
    PROVE  /\ \A x \in {"due", "later"} \cup Step : [r EXCEPT !.runAt = x] \in TaskRow
           /\ \A n \in 0..MaxClaims : [r EXCEPT !.result = n] \in TaskRow
           /\ \A b \in BOOLEAN : [r EXCEPT !.expired = b] \in TaskRow
<1>1. \A x \in {"due", "later"} \cup Step : [r EXCEPT !.runAt = x] \in TaskRow
  BY DEF TaskRow
<1>2. \A n \in 0..MaxClaims : [r EXCEPT !.result = n] \in TaskRow
  BY DEF TaskRow
<1>3. \A b \in BOOLEAN : [r EXCEPT !.expired = b] \in TaskRow
  BY DEF TaskRow
<1> QED
  BY <1>1, <1>2, <1>3

\* The default row is a row.
LEMMA NoTaskType == NoTask \in TaskRow
BY KernelAssumption DEF TaskRow, NoTask, TaskState

\* The tasks that end with t are outstanding and owned by t or by one of them.
LEMMA OwnedFacts ==
    ASSUME TypeOK, NEW t \in Task, NEW u \in Owned(t)
    PROVE  /\ u \in Task
           /\ Outstanding(u)
           /\ task[u].parent \in Owned(t) \cup {t}
<1>1. u \in Task
  BY DEF Owned
<1>2. Outstanding(u)
  <2> DEFINE S == {y \in Task : Outstanding(y)}
  <2>1. S \in SUBSET Task
    OBVIOUS
  <2>2. \A y \in Task : Outstanding(y) /\ task[y].parent \in S \cup {t} => y \in S
    OBVIOUS
  <2> HIDE DEF S
  <2>3. u \in S
    BY <2>1, <2>2 DEF Owned
  <2> QED
    BY <2>3 DEF S
<1>3. task[u].parent \in Owned(t) \cup {t}
  <2> DEFINE S == {y \in Owned(t) : task[y].parent \in Owned(t) \cup {t}}
  <2>1. S \in SUBSET Task
    BY DEF Owned
  <2>2. ASSUME NEW y \in Task, Outstanding(y), task[y].parent \in S \cup {t}
        PROVE  y \in S
    <3>1. task[y].parent \in Owned(t) \cup {t}
      BY <2>2
    <3>2. y \in Owned(t)
      BY <2>2, <3>1 DEF Owned
    <3> QED
      BY <3>1, <3>2
  <2> HIDE DEF S
  <2>3. u \in S
    BY <2>1, <2>2 DEF Owned
  <2> QED
    BY <2>3 DEF S
<1> QED
  BY <1>1, <1>2, <1>3

\* Resolving a wait row keeps its type and what it waits for.
LEMMA ClosedType ==
    ASSUME NEW w \in WaitRow, NEW kind, Fits(w, kind),
           NEW o \in {"signal", "timeout"} \cup TerminalState
    PROVE  /\ Closed(w, o) \in WaitRow
           /\ Fits(Closed(w, o), kind)
           /\ Closed(w, o).outcome # "open"
           /\ w.outcome # "open" => Closed(w, o) = w
           /\ w.outcome = "open" => Closed(w, o).outcome = o
<1>1. o \in WaitOutcome /\ o # "absent" /\ o # "open"
  BY DEF WaitOutcome
<1>2. Closed(w, o) \in WaitRow
  BY <1>1 DEF Closed, WaitRow
<1>3. CASE w.outcome = "open"
  <2>1. Closed(w, o).outcome = o /\ Closed(w, o).on = w.on
    BY <1>3 DEF Closed, WaitRow
  <2> QED
    BY <1>1, <1>2, <1>3, <2>1 DEF Fits
<1>4. CASE w.outcome # "open"
  BY <1>2, <1>4 DEF Closed
<1> QED
  BY <1>3, <1>4

\* The wait rows of a task that ended are wait rows.
LEMMA EndedWaitType ==
    ASSUME TypeOK, NEW u \in Task, NEW s \in Step
    PROVE  /\ EndedWait(u, s) \in WaitRow
           /\ Fits(EndedWait(u, s), Kind[s])
           /\ EndedWait(u, s).outcome # "open"
BY ClosedType DEF EndedWait, TypeOK

\* Closing an attempt keeps the history well typed.
LEMMA EndAttemptType ==
    ASSUME TypeOK, NEW t \in Task, NEW end \in AttemptState
    PROVE  /\ EndAttempt(t, end) \in [Claims -> AttemptState]
           /\ CancelAttempt(t) \in [Claims -> AttemptState]
<1>1. attempts[t] \in [Claims -> AttemptState] /\ "cancelled" \in AttemptState
  BY DEF TypeOK, AttemptState
<1>2. EndAttempt(t, end) \in [Claims -> AttemptState]
  BY <1>1 DEF EndAttempt
<1>3. CancelAttempt(t) \in [Claims -> AttemptState]
  BY <1>1 DEF CancelAttempt
<1> QED
  BY <1>2, <1>3

\* Writing one checkpoint of the right kind keeps the table well typed.
LEMMA CheckpointType ==
    ASSUME TypeOK, NEW t \in Task, NEW s \in Step,
           NEW value \in CheckpointValue(Kind[s]) \cup {Nothing},
           checkpoint' = [checkpoint EXCEPT ![t][s] = value]
    PROVE  /\ checkpoint' = [u \in Task |-> [p \in Step |-> checkpoint'[u][p]]]
           /\ \A u \in Task, p \in Step :
                  checkpoint'[u][p] \in CheckpointValue(Kind[p]) \cup {Nothing}
BY DEF TypeOK

\* The end of a task, with its trigger cascade, is type correct.
LEMMA FinishType ==
    ASSUME TypeOK, NEW t \in Task, NEW row \in TaskRow,
           row.state \in TerminalState, NEW log \in [Claims -> AttemptState],
           Finish(t, row, log)
    PROVE  TypeOK'
<1>1. task' \in [Task -> TaskRow]
  <2>1. \A u \in Task : CancelledRow(task[u]) \in TaskRow /\ WokenRow(task[u]) \in TaskRow
    BY RowTypes DEF TypeOK, TaskState
  <2> QED
    BY <2>1 DEF TypeOK, Finish
<1>2. attempts' \in [Task -> [Claims -> AttemptState]]
  <2>1. \A u \in Task : CancelAttempt(u) \in [Claims -> AttemptState]
    BY EndAttemptType DEF AttemptState
  <2> QED
    BY <2>1 DEF TypeOK, Finish
<1>3. /\ checkpoint' = [u \in Task |-> [s \in Step |-> checkpoint'[u][s]]]
      /\ \A u \in Task, s \in Step :
             checkpoint'[u][s] \in CheckpointValue(Kind[s]) \cup {Nothing}
  <2>1. checkpoint' = [u \in Task |-> [s \in Step |-> checkpoint'[u][s]]]
    BY DEF Finish
  <2>2. ASSUME NEW u \in Task, NEW s \in Step
        PROVE  checkpoint'[u][s] \in CheckpointValue(Kind[s]) \cup {Nothing}
    <3>1. checkpoint[u][s] \in CheckpointValue(Kind[s]) \cup {Nothing}
      BY DEF TypeOK
    <3>2. OpenOn(u, s, t) => row.state \in CheckpointValue(Kind[s])
      BY DEF OpenOn, CheckpointValue
    <3> QED
      BY <3>1, <3>2 DEF Finish, Recorded
  <2> QED
    BY <2>1, <2>2
<1>4. wait' \in [Task -> [Step -> WaitRow]] /\ \A u \in Task, s \in Step : Fits(wait'[u][s], Kind[s])
  <2>1. ASSUME NEW u \in Task, NEW s \in Step
        PROVE  /\ wait[u][s] \in WaitRow /\ Fits(wait[u][s], Kind[s])
               /\ EndedWait(u, s) \in WaitRow /\ Fits(EndedWait(u, s), Kind[s])
               /\ Closed(wait[u][s], row.state) \in WaitRow
               /\ Fits(Closed(wait[u][s], row.state), Kind[s])
    BY EndedWaitType, ClosedType DEF TypeOK
  <2> QED
    BY <2>1 DEF Finish
<1> QED
  BY <1>1, <1>2, <1>3, <1>4 DEF Finish, TypeOK

\* Leaving the running state without ending is type correct.
LEMMA YieldType ==
    ASSUME TypeOK, NEW t \in Task, NEW row \in TaskRow, NEW end \in AttemptState,
           Yield(t, row, end)
    PROVE  /\ task' \in [Task -> TaskRow]
           /\ attempts' \in [Task -> [Claims -> AttemptState]]
BY EndAttemptType DEF Yield, TypeOK

\* Inserting a task is type correct.
LEMMA InsertType ==
    ASSUME TypeOK, NEW t \in Task, NEW runAt \in RunAts,
           NEW parent \in Task \cup {Nothing}, Insert(t, runAt, parent)
    PROVE  task' \in [Task -> TaskRow]
<1>1. [NoTask EXCEPT !.state = "pending", !.runAt = runAt, !.parent = parent] \in TaskRow
  <2>1. runAt \in {"due", "later"} \cup Step /\ "pending" \in TaskState
    BY KernelAssumption DEF TaskState
  <2> QED
    BY <2>1, NoTaskType DEF TaskRow
<1> QED
  BY <1>1 DEF Insert, TypeOK

\* Charging an attempt is type correct, retried or not.
LEMMA ChargeType ==
    ASSUME TypeOK, NEW t \in Task, NEW retry \in RunAts \cup {"never", "due"},
           NEW end \in {"failed", "lost"}, Charge(t, retry, end)
    PROVE  TypeOK'
<1> DEFINE failures == task[t].failed + 1
           charged(st) == [Unleased(task[t], st) EXCEPT !.failed = failures]
<1>1. end \in AttemptState
  BY DEF AttemptState
<1>2. ASSUME NEW st \in TaskState
      PROVE  charged(st) \in TaskRow /\ charged(st).state = st
  <2>1. failures \in Nat
    BY DEF TypeOK, TaskRow
  <2>2. Unleased(task[t], st) \in TaskRow /\ Unleased(task[t], st).state = st
    BY RowTypes, RowFields DEF TypeOK
  <2> HIDE DEF failures
  <2> QED
    BY <2>1, <2>2 DEF TaskRow
<1>3. CASE retry # "never" /\ HasBudget(failures, task[t].max)
  <2>1. [charged("pending") EXCEPT !.runAt = retry] \in TaskRow
    <3>1. charged("pending") \in TaskRow /\ retry \in {"due", "later"}
      BY <1>2, <1>3, KernelAssumption DEF TaskState
    <3> HIDE DEF charged
    <3> QED
      BY <3>1 DEF TaskRow
  <2>2. Yield(t, [charged("pending") EXCEPT !.runAt = retry], end)
    BY <1>3 DEF Charge
  <2> HIDE DEF charged
  <2>3. /\ task' \in [Task -> TaskRow]
        /\ attempts' \in [Task -> [Claims -> AttemptState]]
    BY <1>1, <2>1, <2>2, YieldType
  <2>4. UNCHANGED <<checkpoint, wait, signal, ahead, inflight>>
    BY <1>3 DEF Charge
  <2> QED
    BY <2>3, <2>4 DEF TypeOK
<1>4. CASE ~(retry # "never" /\ HasBudget(failures, task[t].max))
  <2>1. Finish(t, charged("failed"), EndAttempt(t, end))
    BY <1>4 DEF Charge
  <2>2. charged("failed") \in TaskRow /\ charged("failed").state = "failed"
    BY <1>2 DEF TaskState
  <2> HIDE DEF charged
  <2> QED
    BY <1>1, <2>1, <2>2, FinishType, EndAttemptType
<1> QED
  BY <1>3, <1>4

\* Waking a parked task is type correct.
LEMMA WakeType ==
    ASSUME TypeOK, NEW t \in Task, NEW steps \in SUBSET Step, NEW value,
           NEW outcome \in {"signal", "timeout"},
           \A s \in steps : value \in CheckpointValue(Kind[s]),
           Wake(t, steps, value, outcome)
    PROVE  /\ task' \in [Task -> TaskRow]
           /\ checkpoint' = [u \in Task |-> [s \in Step |-> checkpoint'[u][s]]]
           /\ \A u \in Task, s \in Step :
                  checkpoint'[u][s] \in CheckpointValue(Kind[s]) \cup {Nothing}
           /\ wait' \in [Task -> [Step -> WaitRow]]
           /\ \A u \in Task, s \in Step : Fits(wait'[u][s], Kind[s])
<1>1. task' \in [Task -> TaskRow]
  BY RowTypes DEF Wake, TypeOK, TaskState
<1>2. /\ checkpoint' = [u \in Task |-> [s \in Step |-> checkpoint'[u][s]]]
      /\ \A u \in Task, s \in Step :
             checkpoint'[u][s] \in CheckpointValue(Kind[s]) \cup {Nothing}
  BY DEF Wake, TypeOK, Recorded
<1>3. /\ wait' \in [Task -> [Step -> WaitRow]]
      /\ \A u \in Task, s \in Step : Fits(wait'[u][s], Kind[s])
  <2>1. ASSUME NEW s \in Step
        PROVE  /\ Closed(wait[t][s], outcome) \in WaitRow
               /\ Fits(Closed(wait[t][s], outcome), Kind[s])
    BY ClosedType DEF TypeOK
  <2> QED
    BY <2>1 DEF Wake, TypeOK
<1> QED
  BY <1>1, <1>2, <1>3

\* The empty tables are well typed.
LEMMA TypeInit == Init => TypeOK
BY NoTaskType DEF Init, TypeOK, AttemptState, WaitRow, WaitOutcome, NoWait, Fits

\* Every action keeps the tables well typed.
LEMMA TypeStep == TypeOK /\ [Next]_vars => TypeOK'
<1> SUFFICES ASSUME TypeOK, [Next]_vars PROVE TypeOK'
  OBVIOUS
<1> USE DEF AttemptState
<1>1. ASSUME NEW t \in Task, Enqueue(t) PROVE TypeOK'
  BY <1>1, InsertType DEF Enqueue, TypeOK
<1>2. ASSUME NEW t \in Task, RunAtPasses(t) PROVE TypeOK'
  BY <1>2, RowUpdates DEF RunAtPasses, TypeOK
<1>3. ASSUME NEW t \in Task, NEW s \in Step, WakeAtPasses(t, s) PROVE TypeOK'
  BY <1>3 DEF WakeAtPasses, TypeOK
<1>4. ASSUME NEW t \in Task, LeaseExpires(t) PROVE TypeOK'
  BY <1>4, RowUpdates DEF LeaseExpires, TypeOK
<1>5. ASSUME NEW t \in Task, Claim(t) PROVE TypeOK'
  <2> DEFINE n == task[t].attempt + 1
  <2>1. n \in 0..MaxClaims /\ n \in Claims
    BY <1>5, KernelAssumption DEF Claim, TypeOK, TaskRow
  <2>2. task' = [task EXCEPT ![t] =
              [@ EXCEPT !.state = "running", !.attempt = n, !.token = n, !.expired = FALSE]]
    BY <1>5 DEF Claim
  <2>3. attempts' = [attempts EXCEPT ![t][n] = "running"]
    BY <1>5 DEF Claim
  <2> HIDE DEF n
  <2>4. task' \in [Task -> TaskRow]
    <3>1. [task[t] EXCEPT !.state = "running", !.attempt = n, !.token = n,
                          !.expired = FALSE] \in TaskRow
      <4>1. task[t] \in TaskRow /\ "running" \in TaskState
        BY DEF TypeOK, TaskState
      <4> QED
        BY <2>1, <4>1 DEF TaskRow
    <3> QED
      BY <2>2, <3>1 DEF TypeOK
  <2>5. attempts' \in [Task -> [Claims -> AttemptState]]
    BY <2>1, <2>3 DEF TypeOK
  <2> QED
    BY <1>5, <2>4, <2>5 DEF Claim, TypeOK
<1>6. ASSUME NEW t \in Task, NEW n \in 1..task[t].attempt, RenewLease(t, n) PROVE TypeOK'
  BY <1>6, RowUpdates DEF RenewLease, TypeOK
<1>7. ASSUME NEW t \in Task, NEW n \in 1..task[t].attempt, CompleteTask(t, n) PROVE TypeOK'
  <2> DEFINE row == [Unleased(task[t], "succeeded") EXCEPT !.result = n]
  <2>1. n \in 0..MaxClaims
    BY KernelAssumption DEF TypeOK, TaskRow
  <2>2. row \in TaskRow /\ row.state = "succeeded"
    <3>1. /\ Unleased(task[t], "succeeded") \in TaskRow
          /\ Unleased(task[t], "succeeded").state = "succeeded"
      BY RowTypes, RowFields DEF TypeOK, TaskState
    <3>2. row.state = Unleased(task[t], "succeeded").state
      BY <3>1 DEF TaskRow
    <3> QED
      BY <2>1, <3>1, <3>2, RowUpdates
  <2>3. Finish(t, row, EndAttempt(t, "succeeded"))
    BY <1>7 DEF CompleteTask
  <2> HIDE DEF row
  <2> QED
    BY <2>2, <2>3, FinishType, EndAttemptType
<1>8. ASSUME NEW t \in Task, NEW n \in 1..task[t].attempt, FailTask(t, n) PROVE TypeOK'
  BY <1>8, ChargeType DEF FailTask
<1>9. ASSUME NEW t \in Task, RecoverExpired(t) PROVE TypeOK'
  BY <1>9, ChargeType DEF RecoverExpired
<1>10. ASSUME NEW t \in Task, NEW n \in 1..task[t].attempt, ReleaseTask(t, n) PROVE TypeOK'
  <2> DEFINE row == [Unleased(task[t], "pending") EXCEPT !.runAt = "due"]
  <2>1. row \in TaskRow
    <3>1. Unleased(task[t], "pending") \in TaskRow
      BY RowTypes DEF TypeOK, TaskState
    <3> QED
      BY <3>1, RowUpdates
  <2>2. Yield(t, row, "released")
    BY <1>10 DEF ReleaseTask
  <2> HIDE DEF row
  <2> QED
    BY <1>10, <2>1, <2>2, YieldType DEF ReleaseTask, TypeOK
<1>11. ASSUME NEW t \in Task, NEW n \in 1..task[t].attempt, NEW s \in Step,
              ReadCheckpointFence(t, n, s)
       PROVE TypeOK'
  <2>1. n \in Claims
    BY KernelAssumption DEF TypeOK, TaskRow
  <2> QED
    BY <1>11, <2>1 DEF ReadCheckpointFence, TypeOK, Write
<1>12. ASSUME NEW w \in inflight, InsertCheckpoint(w) PROVE TypeOK'
  <2>1. w.task \in Task /\ w.step \in Step /\ w.attempt \in CheckpointValue(Kind[w.step])
    BY DEF TypeOK, Write, CheckpointValue
  <2>2. /\ checkpoint' = [u \in Task |-> [p \in Step |-> checkpoint'[u][p]]]
        /\ \A u \in Task, p \in Step :
               checkpoint'[u][p] \in CheckpointValue(Kind[p]) \cup {Nothing}
    <3>1. CASE Exists(w.task)
      <4> DEFINE value == Recorded(checkpoint[w.task][w.step], w.attempt)
      <4>1. checkpoint' = [checkpoint EXCEPT ![w.task][w.step] = value]
        BY <1>12, <3>1 DEF InsertCheckpoint
      <4>2. value \in CheckpointValue(Kind[w.step]) \cup {Nothing}
        BY <2>1 DEF Recorded, TypeOK
      <4> HIDE DEF value
      <4> QED
        BY <2>1, <4>1, <4>2, CheckpointType
    <3>2. CASE ~Exists(w.task)
      BY <1>12, <3>2 DEF InsertCheckpoint, TypeOK
    <3> QED
      BY <3>1, <3>2
  <2> QED
    BY <1>12, <2>2 DEF InsertCheckpoint, TypeOK
<1>13. ASSUME NEW t \in Task, NEW n \in 1..task[t].attempt, NEW s \in Step,
              SuspendTask(t, n, s)
       PROVE TypeOK'
  <2> DEFINE row == [Unleased(task[t], "pending") EXCEPT !.runAt = s]
  <2>1. row \in TaskRow
    <3>1. Unleased(task[t], "pending") \in TaskRow
      BY RowTypes DEF TypeOK, TaskState
    <3> QED
      BY <3>1, RowUpdates
  <2>2. Yield(t, row, "suspended")
    BY <1>13 DEF SuspendTask
  <2>3. "slept" \in CheckpointValue(Kind[s])
    BY <1>13 DEF SuspendTask, Fresh, CheckpointValue
  <2> HIDE DEF row
  <2> QED
    BY <1>13, <2>1, <2>2, <2>3, YieldType DEF SuspendTask, TypeOK
<1>14. ASSUME NEW t \in Task, NEW n \in 1..task[t].attempt, NEW s \in Step,
              NEW child \in Task, SpawnTask(t, n, s, child)
       PROVE TypeOK'
  <2>1. child \in CheckpointValue(Kind[s])
    BY <1>14 DEF SpawnTask, Fresh, CheckpointValue
  <2>2. task' \in [Task -> TaskRow]
    BY <1>14, InsertType DEF SpawnTask
  <2>3. /\ checkpoint' = [u \in Task |-> [p \in Step |-> checkpoint'[u][p]]]
        /\ \A u \in Task, p \in Step :
               checkpoint'[u][p] \in CheckpointValue(Kind[p]) \cup {Nothing}
    BY <1>14, <2>1, CheckpointType DEF SpawnTask
  <2> QED
    BY <1>14, <2>2, <2>3 DEF SpawnTask, TypeOK
<1>15. ASSUME NEW t \in Task, NEW s \in Step, NEW on \in WaitTarget(Kind[s]), Park(t, s, on)
       PROVE TypeOK'
  <2>1. Yield(t, Unleased(task[t], "waiting"), "suspended")
    BY <1>15 DEF Park
  <2>2. Unleased(task[t], "waiting") \in TaskRow
    BY RowTypes DEF TypeOK, TaskState
  <2>3. PICK timed \in BOOLEAN :
            wait' = [wait EXCEPT ![t][s] = [on |-> on, timed |-> timed, outcome |-> "open"]]
    BY <1>15 DEF Park
  <2> DEFINE w == [on |-> on, timed |-> timed, outcome |-> "open"]
  <2>4. w \in WaitRow /\ Fits(w, Kind[s])
    BY DEF WaitRow, WaitOutcome, Fits, WaitTarget
  <2>5. /\ wait' \in [Task -> [Step -> WaitRow]]
        /\ \A u \in Task, p \in Step : Fits(wait'[u][p], Kind[p])
    <3> HIDE DEF w
    <3> QED
      BY <2>3, <2>4 DEF TypeOK, w
  <2> QED
    BY <1>15, <2>1, <2>2, <2>5, YieldType DEF Park, TypeOK
<1>16. ASSUME NEW t \in Task, NEW s \in Step, NEW value \in CheckpointValue(Kind[s]),
              Ready(t, s, value)
       PROVE TypeOK'
  BY <1>16 DEF Ready, TypeOK
<1>17. ASSUME NEW t \in Task, NEW n \in 1..task[t].attempt, NEW s \in Step,
              NEW g \in Signal, WaitForSignal(t, n, s, g)
       PROVE TypeOK'
  <2>1. /\ g \in WaitTarget(Kind[s])
        /\ signal[t][g] # Nothing => signal[t][g] \in CheckpointValue(Kind[s])
    BY <1>17 DEF WaitForSignal, Fresh, CheckpointValue, WaitTarget, TypeOK
  <2> QED
    BY <1>15, <1>16, <1>17, <2>1 DEF WaitForSignal
<1>18. ASSUME NEW t \in Task, NEW n \in 1..task[t].attempt, NEW s \in Step,
              NEW child \in Task, WaitForResult(t, n, s, child)
       PROVE TypeOK'
  <2>1. /\ child \in WaitTarget(Kind[s])
        /\ Terminal(child) => task[child].state \in CheckpointValue(Kind[s])
    BY <1>18 DEF WaitForResult, Fresh, CheckpointValue, WaitTarget, Terminal
  <2> QED
    BY <1>15, <1>16, <1>18, <2>1 DEF WaitForResult
<1>19. ASSUME NEW t \in Task, NEW g \in Signal, NEW v \in Value, EmitSignal(t, g, v)
       PROVE TypeOK'
  <2> DEFINE value == Recorded(signal[t][g], v)
             matching == {s \in Step : /\ Kind[s] = "signal"
                                       /\ wait[t][s].outcome = "open"
                                       /\ wait[t][s].on = g}
  <2>1. value \in Value
    BY DEF TypeOK, Recorded
  <2>2. \A s \in matching : value \in CheckpointValue(Kind[s])
    BY <2>1 DEF CheckpointValue
  <2>3. Wake(t, matching, value, "signal") /\ signal' = [signal EXCEPT ![t][g] = value]
    BY <1>19 DEF EmitSignal
  <2> HIDE DEF value, matching
  <2>4. matching \in SUBSET Step
    BY DEF matching
  <2>5. /\ task' \in [Task -> TaskRow]
        /\ checkpoint' = [u \in Task |-> [p \in Step |-> checkpoint'[u][p]]]
        /\ \A u \in Task, p \in Step :
               checkpoint'[u][p] \in CheckpointValue(Kind[p]) \cup {Nothing}
        /\ wait' \in [Task -> [Step -> WaitRow]]
        /\ \A u \in Task, p \in Step : Fits(wait'[u][p], Kind[p])
    BY <2>2, <2>3, <2>4, WakeType
  <2>6. signal' \in [Task -> [Signal -> Value \cup {Nothing}]]
    BY <2>1, <2>3 DEF TypeOK
  <2>7. UNCHANGED <<attempts, ahead, inflight>>
    BY <1>19 DEF EmitSignal
  <2> QED
    BY <2>5, <2>6, <2>7 DEF TypeOK
<1>20. ASSUME NEW t \in Task, NEW s \in Step, RecoverWaitTimeout(t, s) PROVE TypeOK'
  <2>1. "timeout" \in CheckpointValue(Kind[s])
    BY <1>20 DEF RecoverWaitTimeout, TimedOut, CheckpointValue
  <2>2. /\ task' \in [Task -> TaskRow]
        /\ checkpoint' = [u \in Task |-> [p \in Step |-> checkpoint'[u][p]]]
        /\ \A u \in Task, p \in Step :
               checkpoint'[u][p] \in CheckpointValue(Kind[p]) \cup {Nothing}
        /\ wait' \in [Task -> [Step -> WaitRow]]
        /\ \A u \in Task, p \in Step : Fits(wait'[u][p], Kind[p])
    <3>1. {s} \in SUBSET Step /\ \A p \in {s} : "timeout" \in CheckpointValue(Kind[p])
      BY <2>1
    <3>2. Wake(t, {s}, "timeout", "timeout")
      BY <1>20 DEF RecoverWaitTimeout
    <3> QED
      BY <3>1, <3>2, WakeType
  <2> QED
    BY <1>20, <2>2 DEF RecoverWaitTimeout, TypeOK
<1>21. ASSUME NEW t \in Task, NEW s \in Step, RecoverResultWaitTimeout(t, s) PROVE TypeOK'
  <2>1. "timeout" \in CheckpointValue(Kind[s])
    BY <1>21 DEF RecoverResultWaitTimeout, TimedOut, CheckpointValue
  <2>2. \A u \in Task : CancelledRow(task[u]) \in TaskRow /\ WokenRow(task[u]) \in TaskRow
    BY RowTypes DEF TypeOK, TaskState
  <2>3. task' \in [Task -> TaskRow]
    BY <1>21, <2>2 DEF RecoverResultWaitTimeout, TypeOK
  <2>4. attempts' \in [Task -> [Claims -> AttemptState]]
    BY <1>21, EndAttemptType DEF RecoverResultWaitTimeout, TypeOK
  <2>5. /\ wait' \in [Task -> [Step -> WaitRow]]
        /\ \A u \in Task, p \in Step : Fits(wait'[u][p], Kind[p])
    <3>1. ASSUME NEW u \in Task, NEW p \in Step
          PROVE  /\ wait[u][p] \in WaitRow /\ Fits(wait[u][p], Kind[p])
                 /\ EndedWait(u, p) \in WaitRow /\ Fits(EndedWait(u, p), Kind[p])
                 /\ Closed(wait[u][p], "timeout") \in WaitRow
                 /\ Fits(Closed(wait[u][p], "timeout"), Kind[p])
      BY EndedWaitType, ClosedType DEF TypeOK
    <3> QED
      BY <1>21, <3>1 DEF RecoverResultWaitTimeout
  <2> QED
    BY <1>21, <2>1, <2>3, <2>4, <2>5 DEF RecoverResultWaitTimeout, TypeOK, Recorded
<1>22. ASSUME NEW t \in Task, CancelTask(t) PROVE TypeOK'
  <2>1. CancelledRow(task[t]) \in TaskRow
    BY RowTypes DEF TypeOK, TaskState
  <2>2. CancelledRow(task[t]).state = "cancelled"
    BY DEF CancelledRow, Unleased, TypeOK, TaskRow
  <2> QED
    BY <1>22, <2>1, <2>2, FinishType, EndAttemptType DEF CancelTask
<1>23. ASSUME NEW t \in Task, AdminRetryTask(t) PROVE TypeOK'
  <2>1. RaisedMax(task[t]) \in Nat \ {0} /\ 0 \in 0..MaxClaims
    BY KernelAssumption DEF RaisedMax, TypeOK, TaskRow
  <2>2. Unleased(task[t], "pending") \in TaskRow
    BY RowTypes DEF TypeOK, TaskState
  <2> DEFINE r == Unleased(task[t], "pending")
             m == RaisedMax(task[t])
  <2>3. task' = [task EXCEPT ![t] =
            [r EXCEPT !.runAt = "due", !.max = m, !.cancelRequested = FALSE, !.result = 0]]
    BY <1>23 DEF AdminRetryTask
  <2> HIDE DEF r, m
  <2>4. [r EXCEPT !.runAt = "due", !.max = m, !.cancelRequested = FALSE, !.result = 0]
            \in TaskRow
    BY <2>1, <2>2 DEF TaskRow, r, m
  <2> QED
    BY <1>23, <2>3, <2>4 DEF AdminRetryTask, TypeOK
<1>24. ASSUME NEW t \in Task, DeleteExpiredTerminal(t) PROVE TypeOK'
  <2>1. [NoTask EXCEPT !.state = "deleted"] \in TaskRow
    BY NoTaskType DEF TaskRow, TaskState
  <2>2. NoWait \in WaitRow /\ \A kind : Fits(NoWait, kind)
    BY DEF NoWait, WaitRow, WaitOutcome, Fits
  <2> QED
    BY <1>24, <2>1, <2>2 DEF DeleteExpiredTerminal, TypeOK
<1>25. CASE UNCHANGED vars
  BY <1>25 DEF vars, TypeOK
<1> QED
  BY <1>1, <1>2, <1>3, <1>4, <1>5, <1>6, <1>7, <1>8, <1>9, <1>10, <1>11, <1>12,
     <1>13, <1>14, <1>17, <1>18, <1>19, <1>20, <1>21, <1>22, <1>23, <1>24, <1>25
  DEF Next, Clock, WorkerCall, HandlerCall, Maintenance, ClientCall

\* Every reachable state is well typed.
THEOREM TypeCorrect == Spec => []TypeOK
BY TypeInit, TypeStep, PTL DEF Spec
===============================================================================
