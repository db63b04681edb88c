---------------------------- MODULE TaskKernelMoves ----------------------------
(***************************************************************************)
(* What one step of the kernel does to one task's row and attempt history: *)
(* the nine moves below, and no other, and how the moves of several tasks  *)
(* combine.  The theorems on leases, budgets and outcomes follow without   *)
(* looking at the actions again.                                           *)
(***************************************************************************)
EXTENDS TaskKernelProofs

Kept(u) ==
    /\ task'[u].attempt = task[u].attempt
    /\ task'[u].max = task[u].max
    /\ task'[u].parent = task[u].parent

Stays(u) ==
    /\ Kept(u)
    /\ task'[u].failed = task[u].failed
    /\ task'[u].state = task[u].state
    /\ task'[u].token = task[u].token
    /\ task'[u].result = task[u].result
    /\ attempts'[u] = attempts[u]

Wakes(u) ==
    /\ Kept(u)
    /\ task'[u].failed = task[u].failed
    /\ task[u].state = "waiting"
    /\ task'[u].state = "pending"
    /\ task'[u].token = task[u].token
    /\ task'[u].result = task[u].result
    /\ attempts'[u] = attempts[u]

\* The attempt ends at no cost: success, a sleep, a wait, a release.
Ends(u) ==
    /\ Kept(u)
    /\ task'[u].failed = task[u].failed
    /\ task[u].state = "running"
    /\ task[u].token = task[u].attempt
    /\ task'[u].token = 0
    /\ \/ /\ task'[u].state \in {"pending", "waiting"}
          /\ task'[u].result = task[u].result
          /\ attempts'[u] = EndAttempt(u, "suspended")
       \/ /\ task'[u].state = "pending"
          /\ task'[u].result = task[u].result
          /\ attempts'[u] = EndAttempt(u, "released")
       \/ /\ task'[u].state = "succeeded"
          /\ task'[u].result = task[u].attempt
          /\ attempts'[u] = EndAttempt(u, "succeeded")

\* The attempt ends and is charged to the budget.
IsCharged(u) ==
    /\ Kept(u)
    /\ task'[u].failed = task[u].failed + 1
    /\ task[u].state = "running"
    /\ task'[u].token = 0
    /\ task'[u].result = task[u].result
    /\ \/ task'[u].state = "pending" /\ task'[u].failed < task[u].max
       \/ task'[u].state = "failed"
    /\ \E end \in {"failed", "lost"} : attempts'[u] = EndAttempt(u, end)

IsCancelled(u) ==
    /\ Kept(u)
    /\ task'[u].failed = task[u].failed
    /\ Outstanding(u)
    /\ task'[u].state = "cancelled"
    /\ task'[u].token = 0
    /\ task'[u].result = task[u].result
    /\ attempts'[u] = CancelAttempt(u)

Starts(u) ==
    LET n == task[u].attempt + 1
    IN  /\ task[u].state = "pending"
        /\ task'[u].state = "running"
        /\ n \in Claims
        /\ task'[u].attempt = n
        /\ task'[u].token = n
        /\ task'[u].failed = task[u].failed
        /\ task'[u].max = task[u].max
        /\ task'[u].parent = task[u].parent
        /\ task'[u].result = task[u].result
        /\ attempts'[u] = [attempts[u] EXCEPT ![n] = "running"]

IsInserted(u) ==
    /\ task[u].state = "absent"
    /\ task'[u].state = "pending"
    /\ task'[u].attempt = 0
    /\ task'[u].failed = 0
    /\ task'[u].max = MaxAttempts
    /\ task'[u].token = 0
    /\ task'[u].result = 0
    /\ attempts'[u] = attempts[u]

Reopens(u) ==
    /\ task[u].state \in {"failed", "cancelled"}
    /\ task'[u].state = "pending"
    /\ task'[u].attempt = task[u].attempt
    /\ task'[u].failed = task[u].failed
    /\ task'[u].max = RaisedMax(task[u])
    /\ task'[u].parent = task[u].parent
    /\ task'[u].token = 0
    /\ task'[u].result = 0
    /\ attempts'[u] = attempts[u]

IsDeleted(u) ==
    /\ Terminal(u)
    /\ task'[u] = [NoTask EXCEPT !.state = "deleted"]
    /\ attempts'[u] = [n \in Claims |-> "none"]

Moves(u) ==
    \/ Stays(u) \/ Wakes(u) \/ Ends(u) \/ IsCharged(u) \/ IsCancelled(u)
    \/ Starts(u) \/ IsInserted(u) \/ Reopens(u) \/ IsDeleted(u)

Calm(u) == Stays(u) \/ Wakes(u)

\* One task moves, and the others are at most woken; if it ends, the tasks that
\* it owns may be cancelled with it.
Leads(t) ==
    /\ Moves(t)
    /\ \A u \in Task \ {t} :
           Calm(u) \/ (Outstanding(t) /\ Terminal(t)' /\ IsCancelled(u))

Shape == (\A u \in Task : Calm(u)) \/ \E t \in Task : Leads(t)

-------------------------------------------------------------------------------
\* The columns of a cancelled row.
LEMMA CancelledFields ==
    ASSUME NEW r \in TaskRow
    PROVE  /\ CancelledRow(r).state = "cancelled"
           /\ CancelledRow(r).token = 0
           /\ CancelledRow(r).attempt = r.attempt
           /\ CancelledRow(r).failed = r.failed
           /\ CancelledRow(r).max = r.max
           /\ CancelledRow(r).parent = r.parent
           /\ CancelledRow(r).result = r.result
BY DEF TaskRow, CancelledRow, Unleased

\* The columns of a woken row.
LEMMA WokenFields ==
    ASSUME NEW r \in TaskRow
    PROVE  /\ WokenRow(r).state = "pending"
           /\ WokenRow(r).token = r.token
           /\ WokenRow(r).attempt = r.attempt
           /\ WokenRow(r).failed = r.failed
           /\ WokenRow(r).max = r.max
           /\ WokenRow(r).parent = r.parent
           /\ WokenRow(r).result = r.result
BY DEF TaskRow, WokenRow

\* The columns of a row that gave up its lease.
LEMMA UnleasedFields ==
    ASSUME NEW r \in TaskRow, NEW st
    PROVE  /\ Unleased(r, st).state = st
           /\ Unleased(r, st).token = 0
           /\ Unleased(r, st).attempt = r.attempt
           /\ Unleased(r, st).failed = r.failed
           /\ Unleased(r, st).max = r.max
           /\ Unleased(r, st).parent = r.parent
           /\ Unleased(r, st).result = r.result
BY DEF TaskRow, Unleased

\* The end of a task cancels, wakes or leaves alone every other task.
LEMMA FinishMoves ==
    ASSUME TypeOK, NEW t \in Task, NEW row, NEW log, Finish(t, row, log)
    PROVE  /\ task'[t] = row
           /\ attempts'[t] = log
           /\ \A u \in Task \ {t} : IsCancelled(u) \/ Wakes(u) \/ Stays(u)
<1>1. task'[t] = row /\ attempts'[t] = log
  BY DEF Finish
<1>2. ASSUME NEW u \in Task \ {t} PROVE IsCancelled(u) \/ Wakes(u) \/ Stays(u)
  <2>1. task[u] \in TaskRow
    BY DEF TypeOK
  <2>2. CASE u \in Owned(t)
    <3>1. task'[u] = CancelledRow(task[u]) /\ attempts'[u] = CancelAttempt(u)
      BY <2>2 DEF Finish
    <3>2. Outstanding(u)
      BY <2>2, OwnedFacts
    <3> QED
      BY <2>1, <3>1, <3>2, CancelledFields DEF IsCancelled, Kept
  <2>3. CASE u \notin Owned(t) /\ Awaits(u, t)
    <3>1. task'[u] = WokenRow(task[u]) /\ attempts'[u] = attempts[u]
      BY <2>3 DEF Finish
    <3> QED
      BY <2>1, <2>3, <3>1, WokenFields DEF Wakes, Kept, Awaits
  <2>4. CASE u \notin Owned(t) /\ ~Awaits(u, t)
    BY <2>4 DEF Finish, Stays, Kept
  <2> QED
    BY <2>2, <2>3, <2>4
<1> QED
  BY <1>1, <1>2

\* The other rows of a step that changes one row by EXCEPT.
LEMMA OthersStay ==
    ASSUME TypeOK, NEW t \in Task, NEW row, NEW log,
           task' = [task EXCEPT ![t] = row], attempts' = [attempts EXCEPT ![t] = log]
    PROVE  /\ task'[t] = row /\ attempts'[t] = log
           /\ \A u \in Task \ {t} : Stays(u)
BY DEF TypeOK, Stays, Kept

\* A charged task is pending again with budget left, or has failed.
LEMMA ChargeMoves ==
    ASSUME TypeOK, NEW t \in Task, task[t].state = "running", NEW retry,
           NEW end \in {"failed", "lost"}, Charge(t, retry, end)
    PROVE  /\ IsCharged(t)
           /\ Leads(t)
<1> DEFINE failures == task[t].failed + 1
           charged(st) == [Unleased(task[t], st) EXCEPT !.failed = failures]
<1>1. task[t] \in TaskRow
  BY DEF TypeOK
<1>2. ASSUME NEW st
      PROVE  /\ charged(st).state = st
             /\ charged(st).token = 0
             /\ charged(st).attempt = task[t].attempt
             /\ charged(st).failed = failures
             /\ charged(st).max = task[t].max
             /\ charged(st).parent = task[t].parent
             /\ charged(st).result = task[t].result
             /\ DOMAIN charged(st) = DOMAIN task[t]
  BY <1>1 DEF TaskRow, Unleased
<1>3. CASE retry # "never" /\ HasBudget(failures, task[t].max)
  <2> DEFINE row == [charged("pending") EXCEPT !.runAt = retry]
  <2>1. Yield(t, row, end)
    BY <1>3 DEF Charge
  <2>2. /\ row.state = "pending"
        /\ row.token = 0
        /\ row.attempt = task[t].attempt
        /\ row.failed = failures
        /\ row.max = task[t].max
        /\ row.parent = task[t].parent
        /\ row.result = task[t].result
    <3>1. DOMAIN task[t] = {"state", "attempt", "failed", "max", "token", "expired",
                            "runAt", "parent", "cancelRequested", "result"}
      BY <1>1 DEF TaskRow
    <3> HIDE DEF charged
    <3> QED
      BY <1>2, <3>1
  <2> HIDE DEF row
  <2>3. task'[t] = row /\ attempts'[t] = EndAttempt(t, end) /\ \A u \in Task \ {t} : Stays(u)
    BY <2>1, OthersStay DEF Yield
  <2>4. failures < task[t].max
    BY <1>3 DEF HasBudget
  <2> HIDE DEF failures, charged
  <2>5. task'[t].failed = task[t].failed + 1
    BY <2>2, <2>3 DEF failures
  <2>6. IsCharged(t)
    BY <2>2, <2>3, <2>4, <2>5 DEF IsCharged, Kept
  <2> QED
    BY <2>3, <2>6 DEF Leads, Moves, Calm
<1>4. CASE ~(retry # "never" /\ HasBudget(failures, task[t].max))
  <2>1. Finish(t, charged("failed"), EndAttempt(t, end))
    BY <1>4 DEF Charge
  <2>2. /\ task'[t] = charged("failed") /\ attempts'[t] = EndAttempt(t, end)
        /\ \A u \in Task \ {t} : IsCancelled(u) \/ Wakes(u) \/ Stays(u)
    <3> HIDE DEF charged
    <3> QED
      BY <2>1, FinishMoves
  <2>3. IsCharged(t)
    <3> HIDE DEF charged
    <3> QED
      BY <1>2, <2>2 DEF IsCharged, Kept
  <2>4. Outstanding(t) /\ Terminal(t)'
    <3> HIDE DEF charged
    <3> QED
      BY <1>2, <2>2 DEF Outstanding, Terminal, OutstandingState, TerminalState
  <2> QED
    BY <2>2, <2>3, <2>4 DEF Leads, Moves, Calm
<1> QED
  BY <1>3, <1>4

\* A step that touches no row and no attempt leaves every task where it is.
LEMMA UnchangedMoves ==
    ASSUME UNCHANGED <<task, attempts>>
    PROVE  Shape
BY DEF Shape, Calm, Stays, Kept

\* A resolved wait at most wakes its task.
LEMMA WakeMoves ==
    ASSUME TypeOK, NEW t \in Task, NEW steps, NEW value, NEW outcome,
           Wake(t, steps, value, outcome), UNCHANGED attempts
    PROVE  Shape
<1> SUFFICES ASSUME NEW u \in Task PROVE Calm(u)
  BY DEF Shape
<1> USE DEF Calm
<1>1. CASE u = t /\ steps # {} /\ task[t].state = "waiting"
  <2>1. task'[t] = WokenRow(task[t])
    BY <1>1 DEF Wake, TypeOK
  <2> QED
    BY <1>1, <2>1, WokenFields DEF Wakes, Kept, TypeOK
<1>2. CASE ~(u = t /\ steps # {} /\ task[t].state = "waiting")
  <2>1. task'[u] = task[u]
    BY <1>2 DEF Wake, TypeOK
  <2> QED
    BY <2>1 DEF Stays, Kept
<1> QED
  BY <1>1, <1>2

\* One column that no move looks at.
LEMMA TouchMoves ==
    ASSUME TypeOK, NEW t \in Task, UNCHANGED attempts,
           \/ \E x : task' = [task EXCEPT ![t].runAt = x]
           \/ \E x : task' = [task EXCEPT ![t].expired = x]
    PROVE  Shape
<1> SUFFICES ASSUME NEW u \in Task PROVE Calm(u)
  BY DEF Shape
<1>1. task[t] \in TaskRow
  BY DEF TypeOK
<1>2. CASE u # t
  BY <1>2 DEF TypeOK, Calm, Stays, Kept
<1>3. CASE u = t
  <2>1. CASE \E x : task' = [task EXCEPT ![t].runAt = x]
    <3>1. PICK x : task'[t] = [task[t] EXCEPT !.runAt = x]
      BY <2>1 DEF TypeOK
    <3> QED
      BY <1>1, <1>3, <3>1 DEF TaskRow, Calm, Stays, Kept
  <2>2. CASE \E x : task' = [task EXCEPT ![t].expired = x]
    <3>1. PICK x : task'[t] = [task[t] EXCEPT !.expired = x]
      BY <2>2 DEF TypeOK
    <3> QED
      BY <1>1, <1>3, <3>1 DEF TaskRow, Calm, Stays, Kept
  <2> QED
    BY <2>1, <2>2
<1> QED
  BY <1>2, <1>3

\* A row that gives up its lease, with a new runAt.
LEMMA RescheduledFields ==
    ASSUME NEW r \in TaskRow, NEW st, NEW x
    PROVE  LET row == [Unleased(r, st) EXCEPT !.runAt = x]
           IN  /\ row.state = st
               /\ row.token = 0
               /\ row.attempt = r.attempt
               /\ row.failed = r.failed
               /\ row.max = r.max
               /\ row.parent = r.parent
               /\ row.result = r.result
BY DEF TaskRow, Unleased

\* An insert is led by the inserted task.
LEMMA InsertMoves ==
    ASSUME TypeOK, NEW t \in Task, NEW runAt, NEW parent, Insert(t, runAt, parent),
           UNCHANGED attempts
    PROVE  Shape
<1> DEFINE row == [NoTask EXCEPT !.state = "pending", !.runAt = runAt, !.parent = parent]
<1>1. task' = [task EXCEPT ![t] = row] /\ task[t].state = "absent"
  BY DEF Insert
<1>2. /\ row.state = "pending" /\ row.attempt = 0 /\ row.failed = 0
      /\ row.max = MaxAttempts /\ row.token = 0 /\ row.result = 0
  BY DEF NoTask
<1> HIDE DEF row
<1>3. task'[t] = row
  BY <1>1 DEF TypeOK
<1>4. IsInserted(t)
  BY <1>1, <1>2, <1>3 DEF IsInserted
<1>5. \A u \in Task \ {t} : Stays(u)
  BY <1>1 DEF TypeOK, Stays, Kept
<1> QED
  BY <1>4, <1>5 DEF Shape, Leads, Moves, Calm

\* A task that parks leads a step that nothing else takes part in.
LEMMA ParkMoves ==
    ASSUME TypeOK, NEW t \in Task, NEW n, Fence(t, n), NEW s, NEW on, Park(t, s, on)
    PROVE  Shape
<1>1. /\ task'[t] = Unleased(task[t], "waiting")
      /\ attempts'[t] = EndAttempt(t, "suspended")
      /\ \A v \in Task \ {t} : Stays(v)
  BY OthersStay DEF Park, Yield
<1>2. Ends(t)
  BY <1>1, UnleasedFields DEF TypeOK, Fence, Ends, Kept
<1> QED
  BY <1>1, <1>2 DEF Shape, Leads, Moves, Calm

\* Every step of the kernel is led by one task, or at most wakes tasks.
LEMMA StepShape ==
    ASSUME TypeOK, [Next]_vars
    PROVE  Shape
<1>1. ASSUME NEW t \in Task, Enqueue(t) PROVE Shape
  BY <1>1, InsertMoves DEF Enqueue
<1>2. ASSUME NEW t \in Task, RunAtPasses(t) PROVE Shape
  BY <1>2, TouchMoves DEF RunAtPasses
<1>3. ASSUME NEW t \in Task, NEW s \in Step, WakeAtPasses(t, s) PROVE Shape
  BY <1>3, UnchangedMoves DEF WakeAtPasses
<1>4. ASSUME NEW t \in Task, LeaseExpires(t) PROVE Shape
  BY <1>4, TouchMoves DEF LeaseExpires
<1>5. ASSUME NEW t \in Task, Claim(t) PROVE Shape
  <2> DEFINE n == task[t].attempt + 1
             row == [task[t] EXCEPT !.state = "running", !.attempt = n, !.token = n,
                                    !.expired = FALSE]
  <2>1. task[t] \in TaskRow /\ n \in Claims
    <3>1. task[t] \in TaskRow
      BY DEF TypeOK
    <3>2. task[t].attempt \in Nat
      BY <3>1 DEF TaskRow
    <3>3. n <= MaxClaims
      BY <1>5 DEF Claim
    <3> QED
      BY <3>1, <3>2, <3>3, KernelAssumption DEF Claims
  <2>2. task' = [task EXCEPT ![t] = row] /\ attempts' = [attempts EXCEPT ![t][n] = "running"]
    BY <1>5 DEF Claim
  <2>3. task'[t] = row /\ attempts'[t] = [attempts[t] EXCEPT ![n] = "running"]
    BY <2>2 DEF TypeOK
  <2>4. /\ row.state = "running" /\ row.attempt = n /\ row.token = n
        /\ row.failed = task[t].failed /\ row.max = task[t].max
        /\ row.parent = task[t].parent /\ row.result = task[t].result
    <3> HIDE DEF n
    <3> QED
      BY <2>1 DEF TaskRow
  <2> HIDE DEF row
  <2>5. Starts(t)
    BY <1>5, <2>1, <2>3, <2>4 DEF Claim, Starts
  <2>6. \A u \in Task \ {t} : Stays(u)
    BY <2>2 DEF TypeOK, Stays, Kept
  <2> QED
    BY <2>5, <2>6 DEF Shape, Leads, Moves, Calm
<1>6. ASSUME NEW t \in Task, NEW n \in 1..task[t].attempt, RenewLease(t, n) PROVE Shape
  BY <1>6, TouchMoves DEF RenewLease
<1>7. ASSUME NEW t \in Task, NEW n \in 1..task[t].attempt, CompleteTask(t, n) PROVE Shape
  <2> DEFINE row == [Unleased(task[t], "succeeded") EXCEPT !.result = n]
  <2>1. /\ row.state = "succeeded" /\ row.token = 0 /\ row.attempt = task[t].attempt
        /\ row.failed = task[t].failed /\ row.max = task[t].max
        /\ row.parent = task[t].parent /\ row.result = n
    BY DEF TypeOK, TaskRow, Unleased
  <2>2. Finish(t, row, EndAttempt(t, "succeeded"))
    BY <1>7 DEF CompleteTask
  <2> HIDE DEF row
  <2>3. /\ task'[t] = row /\ attempts'[t] = EndAttempt(t, "succeeded")
        /\ \A v \in Task \ {t} : IsCancelled(v) \/ Wakes(v) \/ Stays(v)
    BY <2>2, FinishMoves
  <2>4. Ends(t)
    BY <1>7, <2>1, <2>3 DEF CompleteTask, Fence, Ends, Kept
  <2>5. Outstanding(t) /\ Terminal(t)'
    BY <1>7, <2>1, <2>3 DEF CompleteTask, Fence, Outstanding, Terminal, OutstandingState,
                             TerminalState
  <2> QED
    BY <2>3, <2>4, <2>5 DEF Shape, Leads, Moves, Calm
<1>8. ASSUME NEW t \in Task, NEW n \in 1..task[t].attempt, FailTask(t, n) PROVE Shape
  BY <1>8, ChargeMoves DEF FailTask, Fence, Shape
<1>9. ASSUME NEW t \in Task, RecoverExpired(t) PROVE Shape
  BY <1>9, ChargeMoves DEF RecoverExpired, Shape
<1>10. ASSUME NEW t \in Task, NEW n \in 1..task[t].attempt, ReleaseTask(t, n) PROVE Shape
  <2> DEFINE row == [Unleased(task[t], "pending") EXCEPT !.runAt = "due"]
  <2>1. /\ row.state = "pending" /\ row.token = 0 /\ row.attempt = task[t].attempt
        /\ row.failed = task[t].failed /\ row.max = task[t].max
        /\ row.parent = task[t].parent /\ row.result = task[t].result
    BY RescheduledFields DEF TypeOK
  <2>2. Yield(t, row, "released")
    BY <1>10 DEF ReleaseTask
  <2> HIDE DEF row
  <2>3. /\ task'[t] = row /\ attempts'[t] = EndAttempt(t, "released")
        /\ \A v \in Task \ {t} : Stays(v)
    BY <2>2, OthersStay DEF Yield
  <2>4. Ends(t)
    BY <1>10, <2>1, <2>3 DEF ReleaseTask, Fence, Ends, Kept
  <2> QED
    BY <2>3, <2>4 DEF Shape, Leads, Moves, Calm
<1>11. ASSUME NEW t \in Task, NEW n \in 1..task[t].attempt, NEW s \in Step,
              ReadCheckpointFence(t, n, s)
       PROVE Shape
  BY <1>11, UnchangedMoves DEF ReadCheckpointFence
<1>12. ASSUME NEW w \in inflight, InsertCheckpoint(w) PROVE Shape
  BY <1>12, UnchangedMoves DEF InsertCheckpoint
<1>13. ASSUME NEW t \in Task, NEW n \in 1..task[t].attempt, NEW s \in Step,
              SuspendTask(t, n, s)
       PROVE Shape
  <2> DEFINE row == [Unleased(task[t], "pending") EXCEPT !.runAt = s]
  <2>1. /\ row.state = "pending" /\ row.token = 0 /\ row.attempt = task[t].attempt
        /\ row.failed = task[t].failed /\ row.max = task[t].max
        /\ row.parent = task[t].parent /\ row.result = task[t].result
    BY RescheduledFields DEF TypeOK
  <2>2. Yield(t, row, "suspended")
    BY <1>13 DEF SuspendTask
  <2> HIDE DEF row
  <2>3. /\ task'[t] = row /\ attempts'[t] = EndAttempt(t, "suspended")
        /\ \A v \in Task \ {t} : Stays(v)
    BY <2>2, OthersStay DEF Yield
  <2>4. Ends(t)
    BY <1>13, <2>1, <2>3 DEF SuspendTask, Fresh, Fence, Ends, Kept
  <2> QED
    BY <2>3, <2>4 DEF Shape, Leads, Moves, Calm
<1>14. ASSUME NEW t \in Task, NEW n \in 1..task[t].attempt, NEW s \in Step,
              NEW child \in Task, SpawnTask(t, n, s, child)
       PROVE Shape
  BY <1>14, InsertMoves DEF SpawnTask
<1>15. ASSUME NEW t \in Task, NEW n \in 1..task[t].attempt, NEW s \in Step,
              NEW g \in Signal, WaitForSignal(t, n, s, g)
       PROVE Shape
  BY <1>15, UnchangedMoves, ParkMoves DEF WaitForSignal, Fresh, Ready
<1>16. ASSUME NEW t \in Task, NEW n \in 1..task[t].attempt, NEW s \in Step,
              NEW child \in Task, WaitForResult(t, n, s, child)
       PROVE Shape
  BY <1>16, UnchangedMoves, ParkMoves DEF WaitForResult, Fresh, Ready
<1>17. ASSUME NEW t \in Task, NEW g \in Signal, NEW v \in Value, EmitSignal(t, g, v)
       PROVE Shape
  BY <1>17, WakeMoves DEF EmitSignal
<1>18. ASSUME NEW t \in Task, NEW s \in Step, RecoverWaitTimeout(t, s) PROVE Shape
  BY <1>18, WakeMoves DEF RecoverWaitTimeout
<1>19. ASSUME NEW t \in Task, NEW s \in Step, RecoverResultWaitTimeout(t, s)
       PROVE Shape
  <2>1. PICK child \in Task : child = wait[t][s].on
    BY <1>19 DEF RecoverResultWaitTimeout, TimedOut, TypeOK, Fits, WaitTarget
  <2> DEFINE gone == IF Outstanding(child) THEN Owned(child) \cup {child} ELSE {}
  <2>2. /\ task' = [v \in Task |->
               IF v \in gone THEN CancelledRow(task[v])
               ELSE IF v = t /\ task[t].state = "waiting" THEN WokenRow(task[t])
               ELSE task[v]]
        /\ attempts' = [v \in Task |->
               IF v \in gone THEN CancelAttempt(v) ELSE attempts[v]]
    BY <1>19, <2>1 DEF RecoverResultWaitTimeout
  <2>3. ASSUME NEW u \in gone PROVE IsCancelled(u)
    <3>1. Outstanding(u) /\ u \in Task
      BY <2>1, OwnedFacts
    <3>2. task'[u] = CancelledRow(task[u]) /\ attempts'[u] = CancelAttempt(u)
      BY <2>2, <3>1
    <3> QED
      BY <3>1, <3>2, CancelledFields DEF TypeOK, IsCancelled, Kept
  <2>4. ASSUME NEW u \in Task \ gone PROVE Calm(u)
    <3>1. CASE u = t /\ task[t].state = "waiting"
      <4>1. task'[u] = WokenRow(task[u]) /\ attempts'[u] = attempts[u]
        BY <2>2, <3>1
      <4> QED
        BY <3>1, <4>1, WokenFields DEF TypeOK, Calm, Wakes, Kept
    <3>2. CASE ~(u = t /\ task[t].state = "waiting")
      <4>1. task'[u] = task[u] /\ attempts'[u] = attempts[u]
        BY <2>2, <3>2
      <4> QED
        BY <4>1 DEF Calm, Stays, Kept
    <3> QED
      BY <3>1, <3>2
  <2>5. CASE Outstanding(child)
    <3>1. IsCancelled(child) /\ Terminal(child)'
      BY <2>3, <2>5 DEF IsCancelled, Terminal, TerminalState
    <3> HIDE DEF gone
    <3> QED
      BY <2>1, <2>3, <2>4, <2>5, <3>1 DEF Shape, Leads, Moves
  <2>6. CASE ~Outstanding(child)
    BY <2>4, <2>6 DEF Shape
  <2> QED
    BY <2>5, <2>6
<1>20. ASSUME NEW t \in Task, CancelTask(t) PROVE Shape
  <2>1. /\ task'[t] = CancelledRow(task[t]) /\ attempts'[t] = CancelAttempt(t)
        /\ \A v \in Task \ {t} : IsCancelled(v) \/ Wakes(v) \/ Stays(v)
    BY <1>20, FinishMoves DEF CancelTask
  <2>2. IsCancelled(t)
    BY <1>20, <2>1, CancelledFields DEF CancelTask, TypeOK, IsCancelled, Kept
  <2>3. Terminal(t)'
    BY <2>2 DEF IsCancelled, Terminal, TerminalState
  <2> QED
    BY <1>20, <2>1, <2>2, <2>3 DEF CancelTask, Shape, Leads, Moves, Calm
<1>21. ASSUME NEW t \in Task, AdminRetryTask(t) PROVE Shape
  <2> DEFINE m == RaisedMax(task[t])
             row == [Unleased(task[t], "pending") EXCEPT !.runAt = "due", !.max = m,
                                       !.cancelRequested = FALSE, !.result = 0]
  <2>1. task' = [task EXCEPT ![t] = row] /\ attempts' = attempts
    BY <1>21 DEF AdminRetryTask
  <2>2. /\ row.state = "pending" /\ row.token = 0 /\ row.attempt = task[t].attempt
        /\ row.failed = task[t].failed /\ row.max = m
        /\ row.parent = task[t].parent /\ row.result = 0
    <3> HIDE DEF m
    <3> QED
      BY DEF TypeOK, TaskRow, Unleased
  <2> HIDE DEF row
  <2>3. Reopens(t)
    BY <1>21, <2>1, <2>2 DEF AdminRetryTask, TypeOK, Reopens
  <2>4. \A u \in Task \ {t} : Stays(u)
    BY <2>1 DEF TypeOK, Stays, Kept
  <2> QED
    BY <2>3, <2>4 DEF Shape, Leads, Moves, Calm
<1>22. ASSUME NEW t \in Task, DeleteExpiredTerminal(t) PROVE Shape
  <2>1. /\ task' = [task EXCEPT ![t] = [NoTask EXCEPT !.state = "deleted"]]
        /\ attempts' = [attempts EXCEPT ![t] = [n \in Claims |-> "none"]]
        /\ Terminal(t)
    BY <1>22 DEF DeleteExpiredTerminal
  <2>2. IsDeleted(t)
    BY <2>1 DEF TypeOK, IsDeleted
  <2>3. \A u \in Task \ {t} : Stays(u)
    BY <2>1 DEF TypeOK, Stays, Kept
  <2> QED
    BY <2>2, <2>3 DEF Shape, Leads, Moves, Calm
<1>23. CASE UNCHANGED vars
  BY <1>23, UnchangedMoves DEF vars
<1> QED
  BY <1>1, <1>2, <1>3, <1>4, <1>5, <1>6, <1>7, <1>8, <1>9, <1>10, <1>11, <1>12,
     <1>13, <1>14, <1>15, <1>16, <1>17, <1>18, <1>19, <1>20, <1>21, <1>22, <1>23
  DEF Next, Clock, WorkerCall, HandlerCall, Maintenance, ClientCall

\* Each task makes one of the nine moves.
LEMMA StepMoves ==
    ASSUME TypeOK, [Next]_vars, NEW u \in Task
    PROVE  Moves(u)
BY StepShape DEF Shape, Leads, Moves, Calm
===============================================================================
