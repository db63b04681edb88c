-------------------------- MODULE TaskKernelOwnership --------------------------
(***************************************************************************)
(* Ownership and checkpoints: a task that exists has an owner that exists, *)
(* a spawn step makes one child, a checkpoint is written once, and the     *)
(* children of a task end with it.                                         *)
(*                                                                         *)
(* Two facts about steps carry the proofs.  Rows appear only by enqueue    *)
(* and spawn_task and disappear only by delete_expired_terminal; and a     *)
(* checkpoint changes only from NULL, that of a spawn step only by         *)
(* spawn_task.                                                             *)
(***************************************************************************)
EXTENDS TaskKernelMoves

USE DEF OutstandingState, TerminalState

\* The row neither appears nor disappears, and its task does not end.
Steady(u) ==
    /\ task'[u].state = "absent" <=> task[u].state = "absent"
    /\ task'[u].state = "deleted" <=> task[u].state = "deleted"
    /\ task[u].state \in OutstandingState => task'[u].state \notin TerminalState

\* A family of tasks ends: with each task, its outstanding children.
EndsFamily ==
    \E ended \in SUBSET Task :
        /\ \A u \in Task :
               task[u].state \in OutstandingState /\ task[u].parent \in ended
                   => u \in ended
        /\ \A u \in ended :
               /\ task[u].state \in OutstandingState
               /\ task'[u].state \in TerminalState
        /\ \A u \in Task \ ended :
               /\ Steady(u)
               /\ task'[u].state \in OutstandingState
                      => task[u].state \in OutstandingState

\* The rows that exist are those that existed.
Settled == (\A u \in Task : Steady(u)) \/ EndsFamily

\* Checkpoints are only added, and none of a spawn step.
OnlyAdded ==
    \A t \in Task, s \in Step :
        \/ checkpoint'[t][s] = checkpoint[t][s]
        \/ checkpoint[t][s] = Nothing /\ Kind[s] # "spawn"

-------------------------------------------------------------------------------
\* A task that is only woken, or not even that, is steady.
LEMMA CalmIsSteady ==
    ASSUME NEW u \in Task, Calm(u)
    PROVE  Steady(u)
<1>1. CASE Stays(u)
  <2>1. task'[u].state = task[u].state
    BY <1>1 DEF Stays
  <2> QED
    BY <2>1 DEF Steady
<1>2. CASE Wakes(u)
  <2>1. task[u].state = "waiting" /\ task'[u].state = "pending"
    BY <1>2 DEF Wakes
  <2> QED
    BY <2>1 DEF Steady
<1> QED
  BY <1>1, <1>2 DEF Calm

\* A step that rewrites one row that exists, and leaves it outstanding.
LEMMA RowSettles ==
    ASSUME TypeOK, NEW t \in Task, NEW row, task' = [task EXCEPT ![t] = row],
           task[t].state \notin {"absent", "deleted"}, row.state \in OutstandingState
    PROVE  Settled
<1> SUFFICES ASSUME NEW u \in Task PROVE Steady(u)
  BY DEF Settled
<1>1. CASE u = t
  <2>1. task'[u].state \in OutstandingState
    BY <1>1 DEF TypeOK
  <2> QED
    BY <1>1, <2>1 DEF Steady
<1>2. CASE u # t
  <2>1. task'[u].state = task[u].state
    BY <1>2 DEF TypeOK
  <2> QED
    BY <2>1 DEF Steady
<1> QED
  BY <1>1, <1>2

\* A step after which every task is in the state it was in.
LEMMA SameStatesSettle ==
    ASSUME \A u \in Task : task'[u].state = task[u].state
    PROVE  Settled
BY DEF Settled, Steady

\* One column other than the state.
LEMMA TouchSettles ==
    ASSUME TypeOK, NEW t \in Task,
           \/ \E x : task' = [task EXCEPT ![t].runAt = x]
           \/ \E x : task' = [task EXCEPT ![t].expired = x]
    PROVE  Settled
<1> SUFFICES ASSUME NEW u \in Task PROVE task'[u].state = task[u].state
  BY SameStatesSettle
<1>1. task[t] \in TaskRow
  BY DEF TypeOK
<1>2. CASE u # t
  BY <1>2 DEF TypeOK
<1>3. CASE u = t /\ \E x : task' = [task EXCEPT ![t].runAt = x]
  <2>1. PICK x : task'[t] = [task[t] EXCEPT !.runAt = x]
    BY <1>3 DEF TypeOK
  <2> QED
    BY <1>1, <1>3, <2>1 DEF TaskRow
<1>4. CASE u = t /\ \E x : task' = [task EXCEPT ![t].expired = x]
  <2>1. PICK x : task'[t] = [task[t] EXCEPT !.expired = x]
    BY <1>4 DEF TypeOK
  <2> QED
    BY <1>1, <1>4, <2>1 DEF TaskRow
<1> QED
  BY <1>2, <1>3, <1>4

\* A checkpoint written where there is none, at a step that spawns nothing.
LEMMA WriteOnlyAdds ==
    ASSUME TypeOK, NEW t \in Task, NEW s \in Step, Kind[s] # "spawn", NEW v,
           checkpoint[t][s] = Nothing \/ v = checkpoint[t][s],
           checkpoint' = [checkpoint EXCEPT ![t][s] = v]
    PROVE  OnlyAdded
<1> SUFFICES ASSUME NEW u \in Task, NEW p \in Step
             PROVE  \/ checkpoint'[u][p] = checkpoint[u][p]
                    \/ checkpoint[u][p] = Nothing /\ Kind[p] # "spawn"
  BY DEF OnlyAdded
<1>1. checkpoint'[u][p] = IF u = t /\ p = s THEN v ELSE checkpoint[u][p]
  BY DEF TypeOK
<1> QED
  BY <1>1

\* The end of a wait adds its checkpoint and at most wakes the task.
LEMMA WakeSettles ==
    ASSUME TypeOK, NEW t \in Task, NEW steps, NEW value, NEW outcome,
           \A s \in steps \cap Step : Kind[s] # "spawn",
           Wake(t, steps, value, outcome)
    PROVE  Settled /\ OnlyAdded
<1>1. ASSUME NEW u \in Task PROVE Steady(u)
  <2>1. task[u] \in TaskRow
    BY DEF TypeOK
  <2>2. CASE u = t /\ steps # {} /\ task[t].state = "waiting"
    <3>1. task'[u] = WokenRow(task[u])
      BY <2>2 DEF Wake, TypeOK
    <3>2. task'[u].state = "pending"
      BY <2>1, <3>1, WokenFields
    <3> QED
      BY <2>2, <3>2 DEF Steady
  <2>3. CASE ~(u = t /\ steps # {} /\ task[t].state = "waiting")
    <3>1. task'[u] = task[u]
      BY <2>3 DEF Wake, TypeOK
    <3> QED
      BY <3>1 DEF Steady
  <2> QED
    BY <2>2, <2>3
<1>2. ASSUME NEW u \in Task, NEW p \in Step
      PROVE  \/ checkpoint'[u][p] = checkpoint[u][p]
             \/ checkpoint[u][p] = Nothing /\ Kind[p] # "spawn"
  <2>1. checkpoint'[u][p] =
            IF u = t /\ p \in steps THEN Recorded(checkpoint[u][p], value)
            ELSE checkpoint[u][p]
    BY DEF Wake, TypeOK
  <2> QED
    BY <2>1 DEF Recorded
<1> QED
  BY <1>1, <1>2 DEF Settled, OnlyAdded

\* The owned tasks of t are closed under "outstanding child of".
LEMMA OwnedClosed ==
    ASSUME NEW t \in Task, NEW u \in Task, Outstanding(u),
           task[u].parent \in Owned(t) \cup {t}
    PROVE  u \in Owned(t)
BY DEF Owned

\* The end of a task ends exactly the tasks that it owns, and wakes others.
LEMMA FinishSettles ==
    ASSUME TypeOK, NEW t \in Task, Outstanding(t), NEW row, NEW log, Finish(t, row, log),
           row.state \in TerminalState
    PROVE  Settled /\ OnlyAdded
<1> DEFINE ended == Owned(t) \cup {t}
<1>1. ended \in SUBSET Task /\ \A u \in ended : task[u].state \in OutstandingState
  BY OwnedFacts DEF Outstanding
<1>2. \A u \in Task :
          task[u].state \in OutstandingState /\ task[u].parent \in ended => u \in ended
  BY OwnedClosed DEF Outstanding
<1>3. ASSUME NEW u \in ended PROVE task'[u].state \in TerminalState
  <2>1. CASE u = t
    BY <2>1 DEF Finish
  <2>2. CASE u # t
    <3>1. task'[u] = CancelledRow(task[u])
      BY <1>1, <2>2 DEF Finish
    <3>2. task[u] \in TaskRow
      BY <1>1 DEF TypeOK
    <3> QED
      BY <3>1, <3>2, CancelledFields
  <2> QED
    BY <2>1, <2>2
<1>4. ASSUME NEW u \in Task \ ended
      PROVE  /\ Steady(u)
             /\ task'[u].state \in OutstandingState => task[u].state \in OutstandingState
  <2>1. task'[u] = (IF Awaits(u, t) THEN WokenRow(task[u]) ELSE task[u])
    BY <1>4 DEF Finish
  <2>2. CASE Awaits(u, t)
    <3>1. task[u] \in TaskRow
      BY DEF TypeOK
    <3>2. task'[u].state = "pending" /\ task[u].state = "waiting"
      BY <2>1, <2>2, <3>1, WokenFields DEF Awaits
    <3> QED
      BY <3>2 DEF Steady
  <2>3. CASE ~Awaits(u, t)
    BY <2>1, <2>3 DEF Steady
  <2> QED
    BY <2>2, <2>3
<1>5. Settled
  <2> HIDE DEF ended
  <2> QED
    BY <1>1, <1>2, <1>3, <1>4 DEF Settled, EndsFamily
<1>6. OnlyAdded
  BY DEF Finish, OnlyAdded, Recorded, OpenOn
<1> QED
  BY <1>5, <1>6

\* A charged task is pending again, or ends with what it owns.
LEMMA ChargeSettles ==
    ASSUME TypeOK, NEW t \in Task, task[t].state = "running", NEW retry,
           NEW end, Charge(t, retry, end)
    PROVE  Settled /\ OnlyAdded
<1> DEFINE failures == task[t].failed + 1
           charged(st) == [Unleased(task[t], st) EXCEPT !.failed = failures]
           again == [charged("pending") EXCEPT !.runAt = retry]
<1>1. task[t] \in TaskRow
  BY DEF TypeOK
<1>2. charged("failed").state = "failed" /\ again.state = "pending"
  <2> HIDE DEF failures
  <2> QED
    BY <1>1 DEF TaskRow, Unleased
<1>3. CASE retry # "never" /\ HasBudget(failures, task[t].max)
  <2>1. task' = [task EXCEPT ![t] = again] /\ UNCHANGED checkpoint
    BY <1>3 DEF Charge, Yield
  <2> HIDE DEF again
  <2> QED
    BY <1>2, <2>1, RowSettles DEF OnlyAdded
<1>4. CASE ~(retry # "never" /\ HasBudget(failures, task[t].max))
  <2>1. Finish(t, charged("failed"), EndAttempt(t, end))
    BY <1>4 DEF Charge
  <2> HIDE DEF charged
  <2> QED
    BY <1>2, <2>1, FinishSettles DEF Outstanding
<1> QED
  BY <1>3, <1>4

\* A task that parks stays outstanding.
LEMMA ParkSettles ==
    ASSUME TypeOK, NEW t \in Task, task[t].state = "running", NEW s, NEW on, Park(t, s, on)
    PROVE  Settled /\ OnlyAdded
<1>1. task[t] \in TaskRow
  BY DEF TypeOK
<1>2. Unleased(task[t], "waiting").state = "waiting"
  BY <1>1, UnleasedFields
<1>3. task' = [task EXCEPT ![t] = Unleased(task[t], "waiting")] /\ UNCHANGED checkpoint
  BY DEF Park, Yield
<1> QED
  BY <1>2, <1>3, RowSettles DEF OnlyAdded

\* Rows appear only by enqueue and spawn_task, which also writes the checkpoint
\* of its step, and disappear only by delete_expired_terminal; every other step
\* adds at most the checkpoint of a step that spawns nothing.
LEMMA StepSettles ==
    ASSUME TypeOK, [Next]_vars
    PROVE  \/ Settled /\ OnlyAdded
           \/ \E t \in Task : Enqueue(t)
           \/ \E t, child \in Task, s \in Step : \E n \in 1..task[t].attempt :
                  SpawnTask(t, n, s, child)
           \/ \E t \in Task : DeleteExpiredTerminal(t)
<1> DEFINE Goal == Settled /\ OnlyAdded
<1>1. UNCHANGED checkpoint => OnlyAdded
  BY DEF OnlyAdded
<1>2. UNCHANGED task => Settled
  BY SameStatesSettle
<1>3. ASSUME NEW t \in Task, Clock(t) PROVE Goal
  <2>1. CASE RunAtPasses(t)
    BY <1>1, <2>1, TouchSettles DEF RunAtPasses
  <2>2. CASE LeaseExpires(t)
    BY <1>1, <2>2, TouchSettles DEF LeaseExpires
  <2>3. ASSUME NEW s \in Step, WakeAtPasses(t, s) PROVE Goal
    BY <1>1, <1>2, <2>3 DEF WakeAtPasses
  <2> QED
    BY <1>3, <2>1, <2>2, <2>3 DEF Clock
<1>4. ASSUME NEW t \in Task, NEW g \in Signal, NEW v \in Value, EmitSignal(t, g, v)
      PROVE  Goal
  <2>1. PICK value, matching :
            /\ \A s \in matching \cap Step : Kind[s] # "spawn"
            /\ Wake(t, matching, value, "signal")
    <3> DEFINE matching == {s \in Step : /\ Kind[s] = "signal"
                                         /\ wait[t][s].outcome = "open"
                                         /\ wait[t][s].on = g}
    <3>1. Wake(t, matching, Recorded(signal[t][g], v), "signal")
      BY <1>4 DEF EmitSignal
    <3>2. \A s \in matching \cap Step : Kind[s] # "spawn"
      OBVIOUS
    <3> HIDE DEF matching
    <3> QED
      BY <3>1, <3>2
  <2> QED
    BY <2>1, WakeSettles
<1>5. ASSUME NEW t \in Task, CancelTask(t) PROVE Goal
  <2>1. task[t] \in TaskRow
    BY DEF TypeOK
  <2>2. CancelledRow(task[t]).state = "cancelled"
    BY <2>1, CancelledFields
  <2> QED
    BY <1>5, <2>2, FinishSettles DEF CancelTask
<1>6. ASSUME NEW t \in Task, AdminRetryTask(t) PROVE Goal
  <2> DEFINE m == RaisedMax(task[t])
             row == [Unleased(task[t], "pending") EXCEPT !.runAt = "due", !.max = m,
                                       !.cancelRequested = FALSE, !.result = 0]
  <2>1. task' = [task EXCEPT ![t] = row] /\ UNCHANGED checkpoint
    BY <1>6 DEF AdminRetryTask
  <2>2. row.state = "pending"
    <3> HIDE DEF m
    <3> QED
      BY DEF TypeOK, TaskRow, Unleased
  <2> HIDE DEF row
  <2> QED
    BY <1>1, <1>6, <2>1, <2>2, RowSettles DEF AdminRetryTask
<1>7. ASSUME NEW t \in Task, RecoverExpired(t) PROVE Goal
  BY <1>7, ChargeSettles DEF RecoverExpired
<1>8. ASSUME NEW t \in Task, NEW s \in Step, RecoverWaitTimeout(t, s) PROVE Goal
  <2>1. Kind[s] # "spawn" /\ Wake(t, {s}, "timeout", "timeout")
    BY <1>8 DEF RecoverWaitTimeout, TimedOut
  <2> QED
    BY <2>1, WakeSettles
<1>9. ASSUME NEW t \in Task, NEW s \in Step, RecoverResultWaitTimeout(t, s) PROVE Goal
  <2>1. PICK child \in Task : child = wait[t][s].on
    BY <1>9 DEF RecoverResultWaitTimeout, TimedOut, TypeOK, Fits, WaitTarget
  <2> DEFINE gone == IF Outstanding(child) THEN Owned(child) \cup {child} ELSE {}
  <2>2. task' = [v \in Task |->
               IF v \in gone THEN CancelledRow(task[v])
               ELSE IF v = t /\ task[t].state = "waiting" THEN WokenRow(task[t])
               ELSE task[v]]
    BY <1>9, <2>1 DEF RecoverResultWaitTimeout
  <2>3. gone \in SUBSET Task /\ \A u \in gone : task[u].state \in OutstandingState
    BY <2>1, OwnedFacts DEF Outstanding
  <2>4. \A u \in Task :
            task[u].state \in OutstandingState /\ task[u].parent \in gone => u \in gone
    BY <2>1, OwnedClosed DEF Outstanding
  <2> HIDE DEF gone
  <2>5. ASSUME NEW u \in gone PROVE task'[u].state \in TerminalState
    <3>1. task'[u] = CancelledRow(task[u]) /\ task[u] \in TaskRow
      BY <2>2, <2>3 DEF TypeOK
    <3> QED
      BY <3>1, CancelledFields
  <2>6. ASSUME NEW u \in Task \ gone
        PROVE  /\ Steady(u)
               /\ task'[u].state \in OutstandingState => task[u].state \in OutstandingState
    <3>1. CASE u = t /\ task[t].state = "waiting"
      <4>1. task'[u] = WokenRow(task[u]) /\ task[u] \in TaskRow
        BY <2>2, <3>1 DEF TypeOK
      <4>2. task'[u].state = "pending"
        BY <4>1, WokenFields
      <4> QED
        BY <3>1, <4>2 DEF Steady
    <3>2. CASE ~(u = t /\ task[t].state = "waiting")
      <4>1. task'[u] = task[u]
        BY <2>2, <3>2
      <4> QED
        BY <4>1 DEF Steady
    <3> QED
      BY <3>1, <3>2
  <2>7. Settled
    BY <2>3, <2>4, <2>5, <2>6 DEF Settled, EndsFamily
  <2>8. OnlyAdded
    <3> DEFINE v == Recorded(checkpoint[t][s], "timeout")
    <3>1. Kind[s] # "spawn" /\ checkpoint' = [checkpoint EXCEPT ![t][s] = v]
      BY <1>9 DEF RecoverResultWaitTimeout, TimedOut, TypeOK
    <3>2. checkpoint[t][s] = Nothing \/ v = checkpoint[t][s]
      BY DEF Recorded
    <3> HIDE DEF v
    <3> QED
      BY <3>1, <3>2, WriteOnlyAdds
  <2> QED
    BY <2>7, <2>8
<1>10. ASSUME NEW t \in Task, Claim(t) PROVE Goal
  <2> DEFINE n == task[t].attempt + 1
             row == [task[t] EXCEPT !.state = "running", !.attempt = n, !.token = n,
                                    !.expired = FALSE]
  <2>1. task' = [task EXCEPT ![t] = row] /\ UNCHANGED checkpoint
    BY <1>10 DEF Claim
  <2>2. row.state = "running"
    <3> HIDE DEF n
    <3> QED
      BY DEF TypeOK, TaskRow
  <2> HIDE DEF row
  <2> QED
    BY <1>1, <1>10, <2>1, <2>2, RowSettles DEF Claim
<1>11. ASSUME NEW t \in Task, NEW n \in 1..task[t].attempt, WorkerCall(t, n) PROVE Goal
  <2>1. CASE RenewLease(t, n)
    BY <1>1, <2>1, TouchSettles DEF RenewLease
  <2>2. CASE CompleteTask(t, n)
    <3> DEFINE row == [Unleased(task[t], "succeeded") EXCEPT !.result = n]
    <3>1. row.state = "succeeded"
      BY DEF TypeOK, TaskRow, Unleased
    <3>2. Finish(t, row, EndAttempt(t, "succeeded")) /\ Outstanding(t)
      BY <2>2 DEF CompleteTask, Fence, Outstanding
    <3> HIDE DEF row
    <3> QED
      BY <3>1, <3>2, FinishSettles
  <2>3. CASE FailTask(t, n)
    BY <2>3, ChargeSettles DEF FailTask, Fence
  <2>4. CASE ReleaseTask(t, n)
    <3> DEFINE row == [Unleased(task[t], "pending") EXCEPT !.runAt = "due"]
    <3>1. row.state = "pending"
      BY DEF TypeOK, TaskRow, Unleased
    <3>2. task' = [task EXCEPT ![t] = row] /\ UNCHANGED checkpoint
      BY <2>4 DEF ReleaseTask, Yield
    <3> HIDE DEF row
    <3> QED
      BY <1>1, <2>4, <3>1, <3>2, RowSettles DEF ReleaseTask, Fence
  <2> QED
    BY <1>11, <2>1, <2>2, <2>3, <2>4 DEF WorkerCall
<1>12. ASSUME NEW t \in Task, NEW n \in 1..task[t].attempt, NEW s \in Step,
              ReadCheckpointFence(t, n, s)
       PROVE  Goal
  BY <1>1, <1>2, <1>12 DEF ReadCheckpointFence
<1>13. ASSUME NEW t \in Task, NEW n \in 1..task[t].attempt, NEW s \in Step,
              SuspendTask(t, n, s)
       PROVE  Goal
  <2> DEFINE row == [Unleased(task[t], "pending") EXCEPT !.runAt = s]
  <2>1. row.state = "pending"
    BY DEF TypeOK, TaskRow, Unleased
  <2>2. task' = [task EXCEPT ![t] = row] /\ task[t].state = "running"
    BY <1>13 DEF SuspendTask, Yield, Fresh, Fence
  <2> HIDE DEF row
  <2>3. Settled
    BY <2>1, <2>2, RowSettles
  <2>4. OnlyAdded
    BY <1>13, WriteOnlyAdds DEF SuspendTask, Fresh
  <2> QED
    BY <2>3, <2>4
<1>14. ASSUME NEW t \in Task, NEW n \in 1..task[t].attempt, NEW s \in Step,
              NEW g \in Signal, WaitForSignal(t, n, s, g)
       PROVE  Goal
  <2>1. CASE Ready(t, s, signal[t][g])
    BY <1>2, <1>14, <2>1, WriteOnlyAdds DEF WaitForSignal, Fresh, Ready
  <2>2. CASE Park(t, s, g)
    BY <1>14, <2>2, ParkSettles DEF WaitForSignal, Fresh, Fence
  <2> QED
    BY <1>14, <2>1, <2>2 DEF WaitForSignal
<1>15. ASSUME NEW t \in Task, NEW n \in 1..task[t].attempt, NEW s \in Step,
              NEW child \in Task, WaitForResult(t, n, s, child)
       PROVE  Goal
  <2>1. CASE Ready(t, s, task[child].state)
    BY <1>2, <1>15, <2>1, WriteOnlyAdds DEF WaitForResult, Fresh, Ready
  <2>2. CASE Park(t, s, child)
    BY <1>15, <2>2, ParkSettles DEF WaitForResult, Fresh, Fence
  <2> QED
    BY <1>15, <2>1, <2>2 DEF WaitForResult
<1>16. ASSUME NEW w \in inflight, InsertCheckpoint(w) PROVE Goal
  <2>1. w.task \in Task /\ w.step \in Step /\ Kind[w.step] # "spawn"
    BY DEF TypeOK, Write
  <2>2. CASE Exists(w.task)
    <3> DEFINE v == Recorded(checkpoint[w.task][w.step], w.attempt)
    <3>1. checkpoint' = [checkpoint EXCEPT ![w.task][w.step] = v]
      BY <1>16, <2>1, <2>2 DEF InsertCheckpoint, TypeOK
    <3>2. checkpoint[w.task][w.step] = Nothing \/ v = checkpoint[w.task][w.step]
      BY DEF Recorded
    <3> HIDE DEF v
    <3> QED
      BY <1>2, <1>16, <2>1, <3>1, <3>2, WriteOnlyAdds DEF InsertCheckpoint
  <2>3. CASE ~Exists(w.task)
    BY <1>1, <1>2, <1>16, <2>3 DEF InsertCheckpoint
  <2> QED
    BY <2>2, <2>3
<1>17. CASE UNCHANGED vars
  BY <1>1, <1>2, <1>17 DEF vars
<1> QED
  BY <1>3, <1>4, <1>5, <1>6, <1>7, <1>8, <1>9, <1>10, <1>11, <1>12, <1>13, <1>14,
     <1>15, <1>16, <1>17
  DEF Next, HandlerCall, Maintenance, ClientCall

-------------------------------------------------------------------------------
\* The task that a spawn checkpoint names was inserted.
SpawnedExist ==
    \A t \in Task, s \in Step :
        Kind[s] = "spawn" /\ checkpoint[t][s] # Nothing
            => task[checkpoint[t][s]].state # "absent"

\* The inductive invariant.  SpawnedOnce alone is not inductive: a new child must
\* differ from every child that some spawn checkpoint already names.
OwnershipInv == TypeOK /\ OwnerExists /\ SpawnedOnce /\ SpawnedExist

\* What a spawn checkpoint names, and who owns a task.
LEMMA Names ==
    ASSUME TypeOK, NEW t \in Task
    PROVE  /\ task[t].parent \in Task \cup {Nothing}
           /\ task[t].state \in TaskState
           /\ \A s \in Step :
                  Kind[s] = "spawn" => checkpoint[t][s] \in Task \cup {Nothing}
<1>1. task[t] \in TaskRow
  BY DEF TypeOK
<1>2. task[t].parent \in Task \cup {Nothing} /\ task[t].state \in TaskState
  BY <1>1 DEF TaskRow
<1>3. ASSUME NEW s \in Step, Kind[s] = "spawn"
      PROVE  checkpoint[t][s] \in Task \cup {Nothing}
  BY <1>3 DEF TypeOK, CheckpointValue
<1> QED
  BY <1>2, <1>3

\* A settled step keeps owners, and the rows that exist.
LEMMA SettledKeeps ==
    ASSUME TypeOK, [Next]_vars, Settled, NEW u \in Task
    PROVE  /\ task'[u].parent = task[u].parent
           /\ Exists(u) => Exists(u)'
           /\ task[u].state # "absent" => task'[u].state # "absent"
<1>1. task[u].state \in TaskState /\ task'[u].state \in TaskState
  BY TypeStep, Names DEF TypeOK, TaskRow
<1>2. \/ Steady(u)
      \/ task[u].state \in OutstandingState /\ task'[u].state \in TerminalState
  BY DEF Settled, EndsFamily
<1>3. /\ task'[u].state = "absent" <=> task[u].state = "absent"
      /\ task'[u].state = "deleted" <=> task[u].state = "deleted"
  BY <1>2 DEF Steady
<1>4. ~IsInserted(u)
  BY <1>3 DEF IsInserted
<1>5. ~IsDeleted(u)
  <2>1. [NoTask EXCEPT !.state = "deleted"].state = "deleted"
    BY DEF NoTask
  <2> QED
    BY <1>3, <2>1 DEF IsDeleted, Terminal
<1>6. task'[u].parent = task[u].parent
  <2>1. Moves(u)
    BY StepMoves
  <2> QED
    BY <1>4, <1>5, <2>1 DEF Moves, Stays, Wakes, Ends, IsCharged, IsCancelled, Starts,
                            Reopens, Kept
<1>7. Exists(u) => Exists(u)'
  BY <1>1, <1>3 DEF Exists, Outstanding, Terminal, TaskState
<1> QED
  BY <1>3, <1>6, <1>7

\* Initially there is no task.
LEMMA OwnershipInit == Init => OwnershipInv
<1> SUFFICES ASSUME Init PROVE OwnershipInv
  OBVIOUS
<1>1. TypeOK
  BY TypeInit
<1>2. \A t \in Task : task[t].parent = Nothing
  BY DEF Init, NoTask
<1>3. \A t \in Task, s \in Step : checkpoint[t][s] = Nothing
  BY DEF Init
<1> QED
  BY <1>1, <1>2, <1>3 DEF OwnershipInv, OwnerExists, SpawnedOnce, SpawnedExist

\* A settled step names, owns and spawns nothing new.
LEMMA SettledOwnership ==
    ASSUME OwnershipInv, [Next]_vars, Settled, OnlyAdded
    PROVE  OwnerExists' /\ SpawnedOnce' /\ SpawnedExist'
<1>1. TypeOK /\ OwnerExists /\ SpawnedOnce /\ SpawnedExist
  BY DEF OwnershipInv
<1>2. \A u \in Task : /\ task'[u].parent = task[u].parent
                      /\ Exists(u) => Exists(u)'
                      /\ task[u].state # "absent" => task'[u].state # "absent"
  BY <1>1, SettledKeeps
<1>3. \A t \in Task, s \in Step :
          Kind[s] = "spawn" => checkpoint'[t][s] = checkpoint[t][s]
  BY DEF OnlyAdded
<1>4. \A t \in Task : task[t].parent \in Task \cup {Nothing}
  BY <1>1, Names
<1>5. OwnerExists'
  <2> SUFFICES ASSUME NEW t \in Task, task'[t].parent # Nothing
               PROVE  task'[task'[t].parent].state \in OutstandingState \cup TerminalState
    BY DEF OwnerExists, Exists, Outstanding, Terminal
  <2>1. PICK p \in Task : p = task[t].parent /\ p = task'[t].parent
    BY <1>2, <1>4
  <2>2. Exists(p)'
    BY <1>1, <1>2, <2>1 DEF OwnerExists
  <2> QED
    BY <2>1, <2>2 DEF Exists, Outstanding, Terminal
<1>6. SpawnedOnce'
  <2> SUFFICES ASSUME NEW u \in Task, task'[u].parent # Nothing
               PROVE  \E s \in Step :
                          /\ Kind[s] = "spawn"
                          /\ checkpoint'[task'[u].parent][s] = u
                          /\ \A p \in Step : Kind[p] = "spawn" /\ p # s
                                 => checkpoint'[task'[u].parent][p] # u
    BY DEF SpawnedOnce
  <2>1. task[u].parent \in Task /\ task'[u].parent = task[u].parent
    BY <1>2, <1>4
  <2> QED
    BY <1>1, <1>3, <2>1 DEF SpawnedOnce
<1>7. SpawnedExist'
  <2> SUFFICES ASSUME NEW t \in Task, NEW s \in Step, Kind[s] = "spawn",
                      checkpoint'[t][s] # Nothing
               PROVE  task'[checkpoint'[t][s]].state # "absent"
    BY DEF SpawnedExist
  <2>1. checkpoint'[t][s] = checkpoint[t][s] /\ checkpoint[t][s] \in Task
    BY <1>1, <1>3, Names
  <2> QED
    BY <1>1, <1>2, <2>1 DEF SpawnedExist
<1> QED
  BY <1>5, <1>6, <1>7

\* What an insert does to the owners and states of the rows.
LEMMA InsertedRow ==
    ASSUME TypeOK, NEW c \in Task, NEW runAt, NEW parent, Insert(c, runAt, parent)
    PROVE  /\ task[c].state = "absent"
           /\ task'[c].state = "pending" /\ task'[c].parent = parent
           /\ \A u \in Task \ {c} : task'[u] = task[u]
<1> DEFINE row == [NoTask EXCEPT !.state = "pending", !.runAt = runAt, !.parent = parent]
<1>1. task[c].state = "absent" /\ task' = [task EXCEPT ![c] = row]
  BY DEF Insert
<1>2. row.state = "pending" /\ row.parent = parent
  BY DEF NoTask
<1> HIDE DEF row
<1> QED
  BY <1>1, <1>2 DEF TypeOK

\* A new row is owned by nobody, or by the running task whose spawn step it
\* answers; no checkpoint named it before.
LEMMA InsertOwnership ==
    ASSUME OwnershipInv, NEW c \in Task,
           task[c].state = "absent", task'[c].state = "pending",
           \A u \in Task \ {c} : task'[u] = task[u],
           \/ task'[c].parent = Nothing /\ UNCHANGED checkpoint
           \/ \E t \in Task, s \in Step :
                  /\ task'[c].parent = t /\ task[t].state = "running"
                  /\ Kind[s] = "spawn" /\ checkpoint[t][s] = Nothing
                  /\ checkpoint' = [checkpoint EXCEPT ![t][s] = c]
    PROVE  OwnerExists' /\ SpawnedOnce' /\ SpawnedExist'
<1>1. TypeOK /\ OwnerExists /\ SpawnedOnce /\ SpawnedExist
  BY DEF OwnershipInv
<1>2. \A u \in Task :
          /\ task[u].parent \in Task \cup {Nothing}
          /\ \A s \in Step :
                 Kind[s] = "spawn" => checkpoint[u][s] \in (Task \ {c}) \cup {Nothing}
  BY <1>1, Names DEF SpawnedExist
<1>3. Nothing \notin Task
  BY KernelAssumption
<1>4. \A u \in Task : Exists(u) => u # c /\ Exists(u)'
  BY DEF Exists, Outstanding, Terminal
<1>5. \A u \in Task \ {c} : task[u].parent # Nothing
                                => task[u].parent \in Task \ {c} /\ Exists(task[u].parent)'
  BY <1>1, <1>2, <1>4 DEF OwnerExists
<1>6. CASE task'[c].parent = Nothing /\ UNCHANGED checkpoint
  <2>1. OwnerExists'
    BY <1>5, <1>6 DEF OwnerExists
  <2>2. SpawnedOnce'
    BY <1>1, <1>6 DEF SpawnedOnce
  <2>3. SpawnedExist'
    BY <1>1, <1>2, <1>6 DEF SpawnedExist
  <2> QED
    BY <2>1, <2>2, <2>3
<1>7. ASSUME NEW t \in Task, NEW s \in Step,
             task'[c].parent = t, task[t].state = "running",
             Kind[s] = "spawn", checkpoint[t][s] = Nothing,
             checkpoint' = [checkpoint EXCEPT ![t][s] = c]
      PROVE  OwnerExists' /\ SpawnedOnce' /\ SpawnedExist'
  <2>1. \A u \in Task, p \in Step :
            checkpoint'[u][p] = IF u = t /\ p = s THEN c ELSE checkpoint[u][p]
    BY <1>1, <1>7 DEF TypeOK
  <2>2. Exists(t)'
    BY <1>4, <1>7 DEF Exists, Outstanding
  <2>3. OwnerExists'
    BY <1>5, <1>7, <2>2 DEF OwnerExists
  <2>4. SpawnedOnce'
    <3> SUFFICES ASSUME NEW u \in Task, task'[u].parent # Nothing
                 PROVE  \E x \in Step :
                            /\ Kind[x] = "spawn"
                            /\ checkpoint'[task'[u].parent][x] = u
                            /\ \A p \in Step : Kind[p] = "spawn" /\ p # x
                                   => checkpoint'[task'[u].parent][p] # u
      BY DEF SpawnedOnce
    <3>1. CASE u = c
      BY <1>2, <1>3, <1>7, <2>1, <3>1
    <3>2. CASE u # c
      <4>1. task'[u] = task[u] /\ task[u].parent \in Task
        BY <1>2, <3>2
      <4>2. PICK x \in Step :
                /\ Kind[x] = "spawn"
                /\ checkpoint[task[u].parent][x] = u
                /\ \A p \in Step : Kind[p] = "spawn" /\ p # x
                       => checkpoint[task[u].parent][p] # u
        BY <1>1, <4>1 DEF SpawnedOnce
      <4>3. ~(task[u].parent = t /\ x = s)
        BY <1>3, <1>7, <4>2
      <4> QED
        BY <2>1, <3>2, <4>1, <4>2, <4>3
    <3> QED
      BY <3>1, <3>2
  <2>5. SpawnedExist'
    <3> SUFFICES ASSUME NEW u \in Task, NEW p \in Step, Kind[p] = "spawn",
                        checkpoint'[u][p] # Nothing
                 PROVE  task'[checkpoint'[u][p]].state # "absent"
      BY DEF SpawnedExist
    <3>1. CASE u = t /\ p = s
      BY <2>1, <3>1
    <3>2. CASE ~(u = t /\ p = s)
      <4>1. checkpoint'[u][p] = checkpoint[u][p] /\ checkpoint[u][p] \in Task \ {c}
        BY <1>2, <2>1, <3>2
      <4> QED
        BY <1>1, <4>1 DEF SpawnedExist
    <3> QED
      BY <3>1, <3>2
  <2> QED
    BY <2>3, <2>4, <2>5
<1> QED
  BY <1>6, <1>7

\* Retention deletes a task that owns nothing, with its checkpoints.
LEMMA DeleteOwnership ==
    ASSUME OwnershipInv, NEW t \in Task, DeleteExpiredTerminal(t)
    PROVE  OwnerExists' /\ SpawnedOnce' /\ SpawnedExist'
<1>1. TypeOK /\ OwnerExists /\ SpawnedOnce /\ SpawnedExist
  BY DEF OwnershipInv
<1>2. task'[t].state = "deleted" /\ task'[t].parent = Nothing
  <2>1. task'[t] = [NoTask EXCEPT !.state = "deleted"]
    BY <1>1 DEF DeleteExpiredTerminal, TypeOK
  <2> QED
    BY <2>1 DEF NoTask
<1>3. \A u \in Task \ {t} : task'[u] = task[u]
  BY <1>1 DEF DeleteExpiredTerminal, TypeOK
<1>4. \A u \in Task, s \in Step :
          checkpoint'[u][s] = IF u = t THEN Nothing ELSE checkpoint[u][s]
  BY <1>1 DEF DeleteExpiredTerminal, TypeOK
<1>5. \A u \in Task : task[u].parent \in (Task \ {t}) \cup {Nothing}
  BY <1>1, Names DEF DeleteExpiredTerminal, IsLeaf
<1>6. OwnerExists'
  <2> SUFFICES ASSUME NEW u \in Task, task'[u].parent # Nothing
               PROVE  task'[task'[u].parent].state \in OutstandingState \cup TerminalState
    BY DEF OwnerExists, Exists, Outstanding, Terminal
  <2>1. task'[u] = task[u] /\ task[u].parent \in Task \ {t}
    BY <1>2, <1>3, <1>5
  <2> QED
    BY <1>1, <1>3, <2>1 DEF OwnerExists, Exists, Outstanding, Terminal
<1>7. SpawnedOnce'
  <2> SUFFICES ASSUME NEW u \in Task, task'[u].parent # Nothing
               PROVE  \E s \in Step :
                          /\ Kind[s] = "spawn"
                          /\ checkpoint'[task'[u].parent][s] = u
                          /\ \A p \in Step : Kind[p] = "spawn" /\ p # s
                                 => checkpoint'[task'[u].parent][p] # u
    BY DEF SpawnedOnce
  <2>1. task'[u] = task[u] /\ task[u].parent \in Task \ {t}
    BY <1>2, <1>3, <1>5
  <2> QED
    BY <1>1, <1>4, <2>1 DEF SpawnedOnce
<1>8. SpawnedExist'
  <2> SUFFICES ASSUME NEW u \in Task, NEW p \in Step, Kind[p] = "spawn",
                      checkpoint'[u][p] # Nothing
               PROVE  task'[checkpoint'[u][p]].state # "absent"
    BY DEF SpawnedExist
  <2>1. checkpoint'[u][p] = checkpoint[u][p] /\ checkpoint[u][p] \in Task
    BY <1>1, <1>4, Names
  <2> QED
    BY <1>1, <1>2, <1>3, <2>1 DEF SpawnedExist
<1> QED
  BY <1>6, <1>7, <1>8

\* A running task inserts the child of its spawn step.
LEMMA SpawnFacts ==
    ASSUME TypeOK, NEW t \in Task, NEW n, NEW s \in Step, NEW child \in Task,
           SpawnTask(t, n, s, child)
    PROVE  /\ task[child].state = "absent"
           /\ task'[child].state = "pending" /\ task'[child].parent = t
           /\ \A u \in Task \ {child} : task'[u] = task[u]
           /\ task[t].state = "running"
BY InsertedRow DEF SpawnTask, Fresh, Fence

\* An enqueued task has no owner.
LEMMA EnqueueFacts ==
    ASSUME TypeOK, NEW t \in Task, Enqueue(t)
    PROVE  /\ task[t].state = "absent"
           /\ task'[t].state = "pending" /\ task'[t].parent = Nothing
           /\ \A u \in Task \ {t} : task'[u] = task[u]
           /\ UNCHANGED checkpoint
BY InsertedRow DEF Enqueue

\* Every step preserves the inductive invariant.
LEMMA OwnershipStep == OwnershipInv /\ [Next]_vars => OwnershipInv'
<1> SUFFICES ASSUME OwnershipInv, [Next]_vars PROVE OwnershipInv'
  OBVIOUS
<1> DEFINE Goal == OwnerExists' /\ SpawnedOnce' /\ SpawnedExist'
<1>1. TypeOK /\ TypeOK'
  BY TypeStep DEF OwnershipInv
<1>2. ASSUME Settled, OnlyAdded PROVE Goal
  BY <1>2, SettledOwnership
<1>3. ASSUME NEW t \in Task, Enqueue(t) PROVE Goal
  BY <1>1, <1>3, EnqueueFacts, InsertOwnership
<1>4. ASSUME NEW t \in Task, NEW child \in Task, NEW s \in Step,
             NEW n \in 1..task[t].attempt, SpawnTask(t, n, s, child)
      PROVE  Goal
  <2>1. /\ task[child].state = "absent"
        /\ task'[child].state = "pending" /\ task'[child].parent = t
        /\ \A u \in Task \ {child} : task'[u] = task[u]
        /\ task[t].state = "running"
    BY <1>1, <1>4, SpawnFacts
  <2>2. /\ Kind[s] = "spawn" /\ checkpoint[t][s] = Nothing
        /\ checkpoint' = [checkpoint EXCEPT ![t][s] = child]
    BY <1>4 DEF SpawnTask, Fresh
  <2> QED
    BY <2>1, <2>2, InsertOwnership
<1>5. ASSUME NEW t \in Task, DeleteExpiredTerminal(t) PROVE Goal
  BY <1>5, DeleteOwnership
<1>6. Goal
  BY <1>1, <1>2, <1>3, <1>4, <1>5, StepSettles
<1> QED
  BY <1>1, <1>6 DEF OwnershipInv

\* The inductive invariant holds in every reachable state.
THEOREM OwnershipHolds == Spec => []OwnershipInv
BY OwnershipInit, OwnershipStep, PTL DEF Spec

\* Retention (delete_expired_terminal) never takes the owner of a task that is
\* still there, however deep the family and however retries reopen its members.
THEOREM OwnerExistsHolds == Spec => []OwnerExists
<1>1. OwnershipInv => OwnerExists
  BY DEF OwnershipInv
<1> QED
  BY <1>1, OwnershipHolds, PTL

\* A spawn step (spawn_task) makes one child, however often it is replayed by
\* later attempts: each child answers exactly one spawn checkpoint of its parent.
THEOREM SpawnedOnceHolds == Spec => []SpawnedOnce
<1>1. OwnershipInv => SpawnedOnce
  BY DEF OwnershipInv
<1> QED
  BY <1>1, OwnershipHolds, PTL

\* No step overwrites a checkpoint of a task that still exists: not a replay, not
\* a late commit_checkpoint whose lease is gone, not the event a wait ends with.
THEOREM CheckpointImmutableHolds == Spec => CheckpointImmutable
<1> DEFINE Kept1 == \A t \in Task, s \in Step :
                        checkpoint[t][s] # Nothing /\ Exists(t)' =>
                            checkpoint'[t][s] = checkpoint[t][s]
<1>1. TypeOK /\ [Next]_vars => [Kept1]_vars
  <2> SUFFICES ASSUME TypeOK, [Next]_vars, NEW t \in Task, NEW s \in Step,
                      checkpoint[t][s] # Nothing, Exists(t)'
               PROVE  checkpoint'[t][s] = checkpoint[t][s]
    OBVIOUS
  <2>1. CASE OnlyAdded
    BY <2>1 DEF OnlyAdded
  <2>2. ASSUME NEW u \in Task, Enqueue(u) PROVE checkpoint'[t][s] = checkpoint[t][s]
    BY <2>2 DEF Enqueue
  <2>3. ASSUME NEW u \in Task, NEW child \in Task, NEW p \in Step,
               NEW n \in 1..task[u].attempt, SpawnTask(u, n, p, child)
        PROVE  checkpoint'[t][s] = checkpoint[t][s]
    <3>1. checkpoint[u][p] = Nothing /\ checkpoint' = [checkpoint EXCEPT ![u][p] = child]
      BY <2>3 DEF SpawnTask, Fresh
    <3> QED
      BY <3>1 DEF TypeOK
  <2>4. ASSUME NEW u \in Task, DeleteExpiredTerminal(u)
        PROVE  checkpoint'[t][s] = checkpoint[t][s]
    <3>1. task' = [task EXCEPT ![u] = [NoTask EXCEPT !.state = "deleted"]]
          /\ checkpoint' = [checkpoint EXCEPT ![u] = [p \in Step |-> Nothing]]
      BY <2>4 DEF DeleteExpiredTerminal
    <3>2. [NoTask EXCEPT !.state = "deleted"].state = "deleted"
      BY DEF NoTask
    <3>3. t # u
      BY <3>1, <3>2 DEF TypeOK, Exists, Outstanding, Terminal
    <3> QED
      BY <3>1, <3>3 DEF TypeOK
  <2> QED
    BY <2>1, <2>2, <2>3, <2>4, StepSettles
<1> HIDE DEF Kept1
<1>2. Spec => [][Kept1]_vars
  BY <1>1, TypeCorrect, PTL DEF Spec
<1> QED
  BY <1>2 DEF Kept1, CheckpointImmutable

\* The step that ends a task ends its outstanding children with it (the trigger
\* cancel_owned_children), and the step of a timed-out wait those of its child.
THEOREM ChildrenEndWithParentHolds == Spec => ChildrenEndWithParent
<1> DEFINE Together == \A t, u \in Task :
                           Outstanding(t) /\ Terminal(t)' /\ task[u].parent = t =>
                               ~Outstanding(u)'
<1>1. TypeOK /\ [Next]_vars => [Together]_vars
  <2> SUFFICES ASSUME TypeOK, [Next]_vars, NEW t \in Task, NEW u \in Task,
                      task[t].state \in OutstandingState,
                      task'[t].state \in TerminalState, task[u].parent = t
               PROVE  task'[u].state \notin OutstandingState
    BY DEF Outstanding, Terminal
  <2>1. CASE Settled
    <3>1. EndsFamily
      BY <2>1 DEF Settled, Steady
    <3> QED
      BY <3>1 DEF EndsFamily, Steady
  <2>2. ASSUME NEW c \in Task, Enqueue(c) PROVE FALSE
    BY <2>2, EnqueueFacts
  <2>3. ASSUME NEW v \in Task, NEW child \in Task, NEW p \in Step,
               NEW n \in 1..task[v].attempt, SpawnTask(v, n, p, child)
        PROVE  FALSE
    <3>1. /\ task[child].state = "absent" /\ task'[child].state = "pending"
          /\ \A w \in Task \ {child} : task'[w] = task[w]
      BY <2>3, SpawnFacts
    <3> QED
      BY <3>1
  <2>4. ASSUME NEW v \in Task, DeleteExpiredTerminal(v) PROVE FALSE
    <3>1. task[v].state \in TerminalState /\ \A w \in Task \ {v} : task'[w] = task[w]
      BY <2>4 DEF DeleteExpiredTerminal, TypeOK, Terminal
    <3> QED
      BY <3>1
  <2> QED
    BY <2>1, <2>2, <2>3, <2>4, StepSettles
<1> HIDE DEF Together
<1>2. Spec => [][Together]_vars
  BY <1>1, TypeCorrect, PTL DEF Spec
<1> QED
  BY <1>2 DEF Together, ChildrenEndWithParent
===============================================================================
