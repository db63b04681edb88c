------------------------------ MODULE TaskKernel ------------------------------
(***************************************************************************)
(* The durable task kernel of pgtask: the rows of the tables tasks,        *)
(* attempts, checkpoints, signals, waits and result_waits, and one action  *)
(* per SQL function that changes them, triggers included.                  *)
(*                                                                         *)
(* Every function is one transaction that first takes the row lock of the  *)
(* task it decides on, so it is one atomic step here; the exception is     *)
(* commit_checkpoint, whose fence is an unlocked read, and which is two    *)
(* steps (ReadCheckpointFence, InsertCheckpoint).  The functions that take *)
(* arrays or a LIMIT are the sequence of their single-row steps.           *)
(*                                                                         *)
(* Time is not counted: a lease, a run_at, a wake_at or a timeout lies in  *)
(* the future until a clock action, or the step that needs it passed, is   *)
(* taken.  A paused queue and the handlers a worker registered only decide *)
(* which claims are NOT taken, so they are part of the choice of Claim.    *)
(***************************************************************************)
EXTENDS Naturals, FiniteSets

CONSTANTS
    Task,         \* task identifiers; every task is inserted at most once
    Roots,        \* the identifiers that enqueue draws; spawn_task draws the others
    Step,         \* durable step names (with their occurrence) of the handlers
    Kind,         \* the durable primitive that a handler calls at each step
    Signal,       \* signal names (with their occurrence)
    Value,        \* signal payloads
    MaxAttempts,  \* max_attempts of an enqueue request
    RunAts,       \* the run_at that a caller may ask for: "due", "later"
    MaxClaims,    \* bound: how often one task may be claimed
    Nothing       \* SQL NULL, or no row

Kinds == {"step", "sleep", "signal", "spawn", "result"}

ASSUME KernelAssumption ==
    /\ MaxAttempts \in Nat \ {0}
    /\ MaxClaims \in Nat \ {0}
    /\ Roots \subseteq Task
    /\ RunAts \subseteq {"due", "later"}
    /\ Kind \in [Step -> Kinds]
    /\ Nothing \notin Task \cup Signal \cup Value \cup Nat
    /\ Nothing \notin {"slept", "timeout", "succeeded", "failed", "cancelled"}

VARIABLES
    task,        \* pgtask.tasks: task -> row
    attempts,    \* pgtask.attempts: task -> attempt number -> state
    checkpoint,  \* pgtask.checkpoints: task -> step -> value
    wait,        \* pgtask.waits and pgtask.result_waits: task -> step -> row
    signal,      \* pgtask.signals: task -> signal -> value
    ahead,       \* task -> sleep steps whose wake_at the clock has not reached
    inflight     \* commit_checkpoint statements between fence read and insert

vars == <<task, attempts, checkpoint, wait, signal, ahead, inflight>>

-------------------------------------------------------------------------------
(* Rows. *)

Claims == 1..MaxClaims

OutstandingState == {"pending", "running", "waiting"}

TerminalState == {"succeeded", "failed", "cancelled"}

TaskState == OutstandingState \cup TerminalState \cup {"absent", "deleted"}

AttemptState ==
    {"none", "running", "succeeded", "failed", "lost", "cancelled",
     "suspended", "released"}

\* A lease token is named by the attempt whose claim drew it (0 is NULL): the
\* tokens of two claims always differ.  The result is named by the attempt that
\* returned it.
TaskRow ==
    [state: TaskState, attempt: 0..MaxClaims, failed: Nat,
     max: Nat \ {0}, token: 0..MaxClaims, expired: BOOLEAN,
     runAt: {"due", "later"} \cup Step, parent: Task \cup {Nothing},
     cancelRequested: BOOLEAN, result: 0..MaxClaims]

NoTask ==
    [state |-> "absent", attempt |-> 0, failed |-> 0, max |-> MaxAttempts,
     token |-> 0, expired |-> FALSE, runAt |-> "due", parent |-> Nothing,
     cancelRequested |-> FALSE, result |-> 0]

WaitOutcome == {"absent", "open", "signal", "timeout"} \cup TerminalState

WaitRow ==
    [on: Signal \cup Task \cup {Nothing}, timed: BOOLEAN, outcome: WaitOutcome]

NoWait == [on |-> Nothing, timed |-> FALSE, outcome |-> "absent"]

\* What a checkpoint holds, by the kind of its step: the attempt that computed
\* the value, that the task slept, the signal's value or "timeout", the child,
\* the state in which the child ended or "timeout".
CheckpointValue(kind) ==
    CASE kind = "step" -> Claims
      [] kind = "sleep" -> {"slept"}
      [] kind = "signal" -> Value \cup {"timeout"}
      [] kind = "spawn" -> Task
      [] kind = "result" -> TerminalState \cup {"timeout"}

\* What a wait row may wait for.
WaitTarget(kind) ==
    CASE kind = "signal" -> Signal
      [] kind = "result" -> Task
      [] OTHER -> {}

Fits(w, kind) ==
    IF w.outcome = "absent" THEN w = NoWait ELSE w.on \in WaitTarget(kind)

Write == {w \in [task: Task, attempt: Claims, step: Step] : Kind[w.step] = "step"}

-------------------------------------------------------------------------------
(* Reading the rows. *)

Outstanding(t) == task[t].state \in OutstandingState

Terminal(t) == task[t].state \in TerminalState

Exists(t) == Outstanding(t) \/ Terminal(t)

Due(t) == task[t].runAt = "due" \/ task[t].runAt \in Step \ ahead[t]

\* Mutant of Fence: trusts the state alone.
FenceByState(t, n) == task[t].state = "running"

\* The lease fence of every worker call: (id, state, attempt, lease_token).
Fence(t, n) ==
    /\ task[t].state = "running"
    /\ task[t].attempt = n
    /\ task[t].token = n

\* Mutant of HasBudget: off by one.
HasBudgetInclusive(failures, limit) == failures <= limit

\* The budget test of claim, fail_task and recover_expired.
HasBudget(failures, limit) == failures < limit

\* Mutant of Owned: forgets the children that are waiting.
OwnedUnlessWaiting(t) ==
    {u \in Task : task[u].parent = t /\ task[u].state \in {"pending", "running"}}

\* The outstanding tasks that end with t: its outstanding children, theirs, and
\* so on.  The least set closed under "outstanding child of".
Owned(t) ==
    {u \in Task :
        \A S \in SUBSET Task :
            (\A y \in Task :
                Outstanding(y) /\ task[y].parent \in S \cup {t} => y \in S)
            => u \in S}

OpenOn(u, s, t) ==
    /\ Kind[s] = "result"
    /\ wait[u][s].outcome = "open"
    /\ wait[u][s].on = t

\* u is the waiting parent that resolve_task_result wakes when t ends.
Awaits(u, t) == task[u].state = "waiting" /\ \E s \in Step : OpenOn(u, s, t)

-------------------------------------------------------------------------------
(* Changing the rows. *)

\* The row without its lease, in state st.
Unleased(r, st) == [r EXCEPT !.state = st, !.token = 0, !.expired = FALSE]

CancelledRow(r) == [Unleased(r, "cancelled") EXCEPT !.cancelRequested = TRUE]

WokenRow(r) == [r EXCEPT !.state = "pending", !.runAt = "due"]

EndAttempt(t, end) == [attempts[t] EXCEPT ![task[t].attempt] = end]

\* Mutant of CancelAttempt: does not ask whether the attempt is still running.
CancelAnyAttempt(t) ==
    [n \in Claims |-> IF n = task[t].attempt THEN "cancelled" ELSE attempts[t][n]]

CancelAttempt(t) ==
    [n \in Claims |->
        IF n = task[t].attempt /\ attempts[t][n] = "running"
        THEN "cancelled" ELSE attempts[t][n]]

\* Mutant of Recorded: the last writer wins.
RecordedLast(old, new) == new

\* INSERT ... ON CONFLICT DO UPDATE SET value = <table>.value: the first wins.
Recorded(old, new) == IF old = Nothing THEN new ELSE old

Closed(w, outcome) ==
    IF w.outcome = "open" THEN [w EXCEPT !.outcome = outcome] ELSE w

\* Mutant of EndedWait: the wait of a task that ended stays open.
EndedWaitLeftOpen(u, s) == wait[u][s]

\* A wait of a task that ended.
EndedWait(u, s) == Closed(wait[u][s], "cancelled")

\* t ends in the state of row, with its attempts as in log.  The triggers of the
\* same statement cancel the tasks t owns (tasks_cancel_owned_children), wake
\* the parent that waits for t with t's end as its checkpoint, and resolve the
\* open waits of every task that ended (tasks_resolve_result).
Finish(t, row, log) ==
    LET gone == Owned(t) \ {t}
        ended == gone \cup {t}
    IN  /\ task' = [u \in Task |->
               IF u = t THEN row
               ELSE IF u \in gone THEN CancelledRow(task[u])
               ELSE IF Awaits(u, t) THEN WokenRow(task[u]) ELSE task[u]]
        /\ attempts' = [u \in Task |->
               IF u = t THEN log
               ELSE IF u \in gone THEN CancelAttempt(u) ELSE attempts[u]]
        /\ checkpoint' = [u \in Task |-> [s \in Step |->
               IF u \notin ended /\ Awaits(u, t) /\ OpenOn(u, s, t)
               THEN Recorded(checkpoint[u][s], row.state)
               ELSE checkpoint[u][s]]]
        /\ wait' = [u \in Task |-> [s \in Step |->
               IF u \in ended THEN EndedWait(u, s)
               ELSE IF Awaits(u, t) /\ OpenOn(u, s, t)
               THEN Closed(wait[u][s], row.state) ELSE wait[u][s]]]
        /\ UNCHANGED <<signal, ahead, inflight>>

\* Mutant of Yield: the attempt is not closed.
YieldAttemptOpen(t, row, end) ==
    /\ task' = [task EXCEPT ![t] = row]
    /\ UNCHANGED attempts

\* t leaves the running state without ending: a new row, and its attempt's end.
Yield(t, row, end) ==
    /\ task' = [task EXCEPT ![t] = row]
    /\ attempts' = [attempts EXCEPT ![t] = EndAttempt(t, end)]

-------------------------------------------------------------------------------
(* Enqueue and the clock. *)

Insert(t, runAt, parent) ==
    /\ task[t].state = "absent"
    /\ task' = [task EXCEPT ![t] =
           [NoTask EXCEPT !.state = "pending", !.runAt = runAt, !.parent = parent]]

Enqueue(t) ==
    /\ t \in Roots
    /\ \E runAt \in RunAts : Insert(t, runAt, Nothing)
    /\ UNCHANGED <<attempts, checkpoint, wait, signal, ahead, inflight>>

RunAtPasses(t) ==
    /\ task[t].runAt = "later"
    /\ task' = [task EXCEPT ![t].runAt = "due"]
    /\ UNCHANGED <<attempts, checkpoint, wait, signal, ahead, inflight>>

WakeAtPasses(t, s) ==
    /\ s \in ahead[t]
    /\ ahead' = [ahead EXCEPT ![t] = @ \ {s}]
    /\ UNCHANGED <<task, attempts, checkpoint, wait, signal, inflight>>

LeaseExpires(t) ==
    /\ task[t].state = "running"
    /\ ~task[t].expired
    /\ task' = [task EXCEPT ![t].expired = TRUE]
    /\ UNCHANGED <<attempts, checkpoint, wait, signal, ahead, inflight>>

-------------------------------------------------------------------------------
(* The worker protocol.  A call presents the lease of attempt n of t: one that *)
(* t was really given, however long ago and however often it was presented.    *)

Claim(t) ==
    LET n == task[t].attempt + 1
    IN  /\ task[t].state = "pending"
        /\ Due(t)
        /\ HasBudget(task[t].failed, task[t].max)
        /\ n <= MaxClaims                                     \* bound
        /\ task' = [task EXCEPT ![t] =
               [@ EXCEPT !.state = "running", !.attempt = n, !.token = n,
                         !.expired = FALSE]]
        /\ attempts' = [attempts EXCEPT ![t][n] = "running"]
        /\ UNCHANGED <<checkpoint, wait, signal, ahead, inflight>>

RenewLease(t, n) ==
    /\ Fence(t, n)
    /\ ~task[t].cancelRequested
    /\ task[t].expired
    /\ task' = [task EXCEPT ![t].expired = FALSE]
    /\ UNCHANGED <<attempts, checkpoint, wait, signal, ahead, inflight>>

CompleteTask(t, n) ==
    /\ Fence(t, n)
    /\ Finish(t, [Unleased(task[t], "succeeded") EXCEPT !.result = n],
              EndAttempt(t, "succeeded"))

\* A failed or lost attempt is charged to the budget; the task is pending again
\* while some of it is left and the caller asks for a retry.  (The run_at of a
\* task that has failed is read by nothing; an administrator's retry sets it.)
Charge(t, retry, end) ==
    LET failures == task[t].failed + 1
        charged(st) == [Unleased(task[t], st) EXCEPT !.failed = failures]
    IN  IF retry # "never" /\ HasBudget(failures, task[t].max)
        THEN /\ Yield(t, [charged("pending") EXCEPT !.runAt = retry], end)
             /\ UNCHANGED <<checkpoint, wait, signal, ahead, inflight>>
        ELSE Finish(t, charged("failed"), EndAttempt(t, end))

FailTask(t, n) ==
    /\ Fence(t, n)
    /\ \E retry \in RunAts \cup {"never"} : Charge(t, retry, "failed")

RecoverExpired(t) ==
    /\ task[t].state = "running"
    /\ task[t].expired
    /\ Charge(t, "due", "lost")

ReleaseTask(t, n) ==
    /\ Fence(t, n)
    /\ Yield(t, [Unleased(task[t], "pending") EXCEPT !.runAt = "due"], "released")
    /\ UNCHANGED <<checkpoint, wait, signal, ahead, inflight>>

-------------------------------------------------------------------------------
(* Durable steps of a handler. *)

\* commit_checkpoint reads the fence without a row lock ...
ReadCheckpointFence(t, n, s) ==
    /\ Kind[s] = "step"
    /\ Fence(t, n)
    /\ inflight' = inflight \cup {[task |-> t, attempt |-> n, step |-> s]}
    /\ UNCHANGED <<task, attempts, checkpoint, wait, signal, ahead>>

\* ... and inserts; the foreign key refuses the insert once the task is deleted.
InsertCheckpoint(w) ==
    /\ w \in inflight
    /\ inflight' = inflight \ {w}
    /\ checkpoint' =
           IF Exists(w.task)
           THEN [checkpoint EXCEPT ![w.task][w.step] = Recorded(@, w.attempt)]
           ELSE checkpoint
    /\ UNCHANGED <<task, attempts, wait, signal, ahead>>

\* Mutant of Fresh: does not look for the checkpoint.
FreshUnchecked(t, n, s, kind) == Kind[s] = kind /\ Fence(t, n)

\* The step of a fenced call that has no checkpoint yet; a call that finds one
\* changes nothing.
Fresh(t, n, s, kind) ==
    /\ Kind[s] = kind
    /\ Fence(t, n)
    /\ checkpoint[t][s] = Nothing

SuspendTask(t, n, s) ==
    /\ Fresh(t, n, s, "sleep")
    /\ Yield(t, [Unleased(task[t], "pending") EXCEPT !.runAt = s], "suspended")
    /\ checkpoint' = [checkpoint EXCEPT ![t][s] = "slept"]
    /\ ahead' = [ahead EXCEPT ![t] = @ \cup {s}]
    /\ UNCHANGED <<wait, signal, inflight>>

SpawnTask(t, n, s, child) ==
    /\ Fresh(t, n, s, "spawn")
    /\ child \notin Roots
    /\ \E runAt \in RunAts : Insert(child, runAt, t)
    /\ checkpoint' = [checkpoint EXCEPT ![t][s] = child]
    /\ UNCHANGED <<attempts, wait, signal, ahead, inflight>>

\* The wait row is inserted, or re-armed when an earlier attempt left it.
Park(t, s, on) ==
    /\ \E timed \in BOOLEAN :
           wait' = [wait EXCEPT ![t][s] =
                       [on |-> on, timed |-> timed, outcome |-> "open"]]
    /\ Yield(t, Unleased(task[t], "waiting"), "suspended")
    /\ UNCHANGED <<checkpoint, signal, ahead, inflight>>

\* What the step waits for is there already.
Ready(t, s, value) ==
    /\ checkpoint' = [checkpoint EXCEPT ![t][s] = value]
    /\ UNCHANGED <<task, attempts, wait, signal, ahead, inflight>>

\* Mutant of WaitForSignal: parks without looking for an earlier signal.
WaitForSignalUnseen(t, n, s, g) ==
    /\ Fresh(t, n, s, "signal")
    /\ Park(t, s, g)

WaitForSignal(t, n, s, g) ==
    /\ Fresh(t, n, s, "signal")
    /\ IF signal[t][g] # Nothing THEN Ready(t, s, signal[t][g]) ELSE Park(t, s, g)

\* Mutant of WaitForResult: parks without looking at the child's state.
WaitForResultUnseen(t, n, s, child) ==
    /\ Fresh(t, n, s, "result")
    /\ Exists(child)
    /\ task[child].parent = t
    /\ Park(t, s, child)

\* Mutant of WaitForResult: takes the child for finished.
WaitForResultUnfinished(t, n, s, child) ==
    /\ Fresh(t, n, s, "result")
    /\ Exists(child)
    /\ task[child].parent = t
    /\ Ready(t, s, task[child].state)

WaitForResult(t, n, s, child) ==
    /\ Fresh(t, n, s, "result")
    /\ Exists(child)
    /\ task[child].parent = t
    /\ IF Terminal(child) THEN Ready(t, s, task[child].state) ELSE Park(t, s, child)

-------------------------------------------------------------------------------
(* What ends a wait. *)

\* Mutant of Wake: resolves the wait without its checkpoint.
WakeUnrecorded(t, steps, value, outcome) ==
    /\ UNCHANGED checkpoint
    /\ wait' = [wait EXCEPT ![t] = [s \in Step |->
           IF s \in steps THEN Closed(@[s], outcome) ELSE @[s]]]
    /\ task' = [task EXCEPT ![t] =
           IF steps # {} /\ @.state = "waiting" THEN WokenRow(@) ELSE @]

\* The wait at step s of t ends with a value: it is checkpointed, the row is
\* resolved and the task woken.
Wake(t, steps, value, outcome) ==
    /\ checkpoint' = [checkpoint EXCEPT ![t] = [s \in Step |->
           IF s \in steps THEN Recorded(@[s], value) ELSE @[s]]]
    /\ wait' = [wait EXCEPT ![t] = [s \in Step |->
           IF s \in steps THEN Closed(@[s], outcome) ELSE @[s]]]
    /\ task' = [task EXCEPT ![t] =
           IF steps # {} /\ @.state = "waiting" THEN WokenRow(@) ELSE @]

EmitSignal(t, g, v) ==
    /\ Exists(t)
    /\ LET value == Recorded(signal[t][g], v)
           matching == {s \in Step : /\ Kind[s] = "signal"
                                     /\ wait[t][s].outcome = "open"
                                     /\ wait[t][s].on = g}
       IN  /\ signal' = [signal EXCEPT ![t][g] = value]
           /\ Wake(t, matching, value, "signal")
    /\ UNCHANGED <<attempts, ahead, inflight>>

TimedOut(t, s, kind) ==
    /\ Kind[s] = kind
    /\ wait[t][s].outcome = "open"
    /\ wait[t][s].timed

RecoverWaitTimeout(t, s) ==
    /\ TimedOut(t, s, "signal")
    /\ Wake(t, {s}, "timeout", "timeout")
    /\ UNCHANGED <<attempts, signal, ahead, inflight>>

\* The child is cancelled with all that it owns, its waits included.
RecoverResultWaitTimeout(t, s) ==
    LET child == wait[t][s].on
        gone == IF Outstanding(child) THEN Owned(child) \cup {child} ELSE {}
    IN  /\ TimedOut(t, s, "result")
        /\ checkpoint' = [checkpoint EXCEPT ![t][s] = Recorded(@, "timeout")]
        /\ task' = [u \in Task |->
               IF u \in gone THEN CancelledRow(task[u])
               ELSE IF u = t /\ task[t].state = "waiting" THEN WokenRow(task[t])
               ELSE task[u]]
        /\ attempts' = [u \in Task |->
               IF u \in gone THEN CancelAttempt(u) ELSE attempts[u]]
        /\ wait' = [u \in Task |-> [p \in Step |->
               IF u = t /\ p = s THEN Closed(wait[u][p], "timeout")
               ELSE IF u \in gone THEN EndedWait(u, p)
               ELSE wait[u][p]]]
        /\ UNCHANGED <<signal, ahead, inflight>>

-------------------------------------------------------------------------------
(* Administration and retention. *)

\* Mutant of CancelTask: cancels finished tasks too.
CancelAnyTask(t) ==
    /\ Exists(t)
    /\ Finish(t, CancelledRow(task[t]), CancelAttempt(t))

CancelTask(t) ==
    /\ Outstanding(t)
    /\ Finish(t, CancelledRow(task[t]), CancelAttempt(t))

\* An administrator's retry always leaves room for one more failure.
RaisedMax(r) == IF r.max > r.failed + 1 THEN r.max ELSE r.failed + 1

AdminRetryTask(t) ==
    /\ task[t].state \in {"failed", "cancelled"}
    /\ task' = [task EXCEPT ![t] =
           [Unleased(@, "pending") EXCEPT
               !.runAt = "due", !.max = RaisedMax(task[t]),
               !.cancelRequested = FALSE, !.result = 0]]
    /\ UNCHANGED <<attempts, checkpoint, wait, signal, ahead, inflight>>

\* Mutant of IsLeaf: the owner of other tasks is a leaf.
IsAnyTask(t) == TRUE

IsLeaf(t) == \A u \in Task : task[u].parent # t

\* Every row that references the deleted task goes with it.
DeleteExpiredTerminal(t) ==
    /\ Terminal(t)
    /\ IsLeaf(t)
    /\ task' = [task EXCEPT ![t] = [NoTask EXCEPT !.state = "deleted"]]
    /\ attempts' = [attempts EXCEPT ![t] = [n \in Claims |-> "none"]]
    /\ checkpoint' = [checkpoint EXCEPT ![t] = [s \in Step |-> Nothing]]
    /\ signal' = [signal EXCEPT ![t] = [g \in Signal |-> Nothing]]
    /\ ahead' = [ahead EXCEPT ![t] = {}]
    /\ wait' = [u \in Task |-> [s \in Step |->
           IF u = t \/ (Kind[s] = "result" /\ wait[u][s].on = t)
           THEN NoWait ELSE wait[u][s]]]
    /\ UNCHANGED inflight

-------------------------------------------------------------------------------
Init ==
    /\ task = [t \in Task |-> NoTask]
    /\ attempts = [t \in Task |-> [n \in Claims |-> "none"]]
    /\ checkpoint = [t \in Task |-> [s \in Step |-> Nothing]]
    /\ wait = [t \in Task |-> [s \in Step |-> NoWait]]
    /\ signal = [t \in Task |-> [g \in Signal |-> Nothing]]
    /\ ahead = [t \in Task |-> {}]
    /\ inflight = {}

Clock(t) ==
    \/ RunAtPasses(t)
    \/ LeaseExpires(t)
    \/ \E s \in Step : WakeAtPasses(t, s)

WorkerCall(t, n) ==
    \/ RenewLease(t, n)
    \/ CompleteTask(t, n)
    \/ FailTask(t, n)
    \/ ReleaseTask(t, n)

HandlerCall(t, n, s) ==
    \/ ReadCheckpointFence(t, n, s)
    \/ SuspendTask(t, n, s)
    \/ \E child \in Task : SpawnTask(t, n, s, child)
    \/ \E g \in Signal : WaitForSignal(t, n, s, g)
    \/ \E child \in Task : WaitForResult(t, n, s, child)

Maintenance(t) ==
    \/ RecoverExpired(t)
    \/ \E s \in Step : RecoverWaitTimeout(t, s)
    \/ \E s \in Step : RecoverResultWaitTimeout(t, s)
    \/ DeleteExpiredTerminal(t)

ClientCall(t) ==
    \/ Enqueue(t)
    \/ \E g \in Signal, v \in Value : EmitSignal(t, g, v)
    \/ CancelTask(t)
    \/ AdminRetryTask(t)

Next ==
    \/ \E t \in Task :
           \/ Clock(t)
           \/ ClientCall(t)
           \/ Maintenance(t)
           \/ Claim(t)
           \/ \E n \in 1..task[t].attempt :
                  WorkerCall(t, n) \/ \E s \in Step : HandlerCall(t, n, s)
    \/ \E w \in inflight : InsertCheckpoint(w)

Spec == Init /\ [][Next]_vars

-------------------------------------------------------------------------------
(* Invariants. *)

\* The columns of every row stay in their types; a checkpoint holds a value, and
\* a wait row names an event, of the primitive that wrote it.
TypeOK ==
    /\ task \in [Task -> TaskRow]
    /\ attempts \in [Task -> [Claims -> AttemptState]]
    /\ checkpoint = [t \in Task |-> [s \in Step |-> checkpoint[t][s]]]
    /\ \A t \in Task, s \in Step :
           checkpoint[t][s] \in CheckpointValue(Kind[s]) \cup {Nothing}
    /\ wait \in [Task -> [Step -> WaitRow]]
    /\ \A t \in Task, s \in Step : Fits(wait[t][s], Kind[s])
    /\ signal \in [Task -> [Signal -> Value \cup {Nothing}]]
    /\ ahead \in [Task -> SUBSET Step]
    /\ inflight \subseteq Write

\* The attempt history is the history of the leases: the claims so far are the
\* attempts 1..attempt, every one but the current has ended, the current one is
\* open exactly while the task is running, and only then is there a lease token,
\* the one drawn by that claim (claim, and every call that ends an attempt).
AttemptLedger ==
    \A t \in Task :
        /\ task[t].token = IF task[t].state = "running" THEN task[t].attempt ELSE 0
        /\ task[t].state = "running" => task[t].attempt > 0
        /\ \A n \in Claims :
               /\ attempts[t][n] = "none" <=> n > task[t].attempt
               /\ attempts[t][n] = "running"
                      <=> task[t].state = "running" /\ n = task[t].attempt

\* failed_attempts counts the attempts that failed or were lost and no other (a
\* sleep, a wait, a release cost nothing), and an outstanding task always has
\* budget left: no task is pending that claim would never pick up.
RetryBudget ==
    \A t \in Task :
        /\ task[t].failed =
               Cardinality({n \in Claims : attempts[t][n] \in {"failed", "lost"}})
        /\ Outstanding(t) => task[t].failed < task[t].max

\* A task is parked exactly while one of its waits is open, and never on two: no
\* task is left waiting with nothing to wake it, and no finished or claimable
\* task leaves an open wait behind (waits_active_task_idx would refuse the next).
ParkedOnOneWait ==
    \A t \in Task :
        LET open == {s \in Step : wait[t][s].outcome = "open"}
        IN  /\ task[t].state = "waiting" <=> open # {}
            /\ \A s, p \in open : s = p

\* No wake-up is lost: what an open wait waits for has not happened yet.  The
\* signal was not emitted, the child is an outstanding child of this task, and
\* the step has no checkpoint that the event would then fail to write.
WakeupStillToCome ==
    \A t \in Task, s \in Step :
        LET w == wait[t][s]
        IN  w.outcome = "open" =>
                /\ checkpoint[t][s] = Nothing
                /\ Kind[s] = "signal" => signal[t][w.on] = Nothing
                /\ Kind[s] = "result" =>
                       Outstanding(w.on) /\ task[w.on].parent = t

\* A wait that completed left its checkpoint: re-arming a resolved wait row (the
\* ON CONFLICT of wait_for_signal and wait_for_result) never repeats a wait that
\* the handler has already been told the end of.
CompletedWaitIsRecorded ==
    \A t \in Task, s \in Step :
        wait[t][s].outcome \in {"signal", "timeout", "succeeded", "failed"}
            => checkpoint[t][s] # Nothing

\* The stored result is the one returned by the attempt that the history calls
\* succeeded: a handler that lost its lease never supplies the result.
ResultOfSucceededAttempt ==
    \A t \in Task :
        task[t].state = "succeeded" =>
            /\ task[t].result = task[t].attempt
            /\ attempts[t][task[t].attempt] = "succeeded"

\* Retention takes leaves only: the owner of a task that exists, exists.
OwnerExists ==
    \A t \in Task : task[t].parent # Nothing => Exists(task[t].parent)

\* A spawn step makes one child, however often it is replayed: each child is the
\* child of exactly one spawn checkpoint of its parent.
SpawnedOnce ==
    \A u \in Task :
        task[u].parent # Nothing =>
            \E s \in Step :
                /\ Kind[s] = "spawn"
                /\ checkpoint[task[u].parent][s] = u
                /\ \A p \in Step : Kind[p] = "spawn" /\ p # s
                       => checkpoint[task[u].parent][p] # u

-------------------------------------------------------------------------------
(* Action properties. *)

\* A checkpoint is written once: replays, late writers and repeated events read
\* the first value, until retention deletes the task.
CheckpointImmutable ==
    [][\A t \in Task, s \in Step :
           checkpoint[t][s] # Nothing /\ Exists(t)' =>
               checkpoint'[t][s] = checkpoint[t][s]]_vars

\* An attempt ends once: no later call, whichever lease it presents, changes how
\* an ended attempt is recorded.
AttemptEndIsFinal ==
    [][\A t \in Task, n \in Claims :
           attempts[t][n] \notin {"none", "running"} /\ Exists(t)' =>
               attempts'[t][n] = attempts[t][n]]_vars

\* When a task ends, so do its outstanding children, in the same step
\* (cancel_owned_children); they are never left behind for someone to clean up.
ChildrenEndWithParent ==
    [][\A t, u \in Task :
           Outstanding(t) /\ Terminal(t)' /\ task[u].parent = t =>
               ~Outstanding(u)']_vars

\* The abstract view: leases, their numbers, and outcomes.
Phase ==
    [t \in Task |->
        CASE task[t].state \in {"pending", "waiting"} -> "idle"
          [] task[t].state = "running" -> "held"
          [] OTHER -> task[t].state]

Abstract ==
    INSTANCE LeasedWork WITH
        Work <- Task,
        phase <- Phase,
        epoch <- [t \in Task |-> task[t].attempt],
        result <- [t \in Task |-> task[t].result]

\* The kernel implements LeasedWork: every call, trigger cascades included, is
\* one step of it or invisible to it.
ImplementsLeasedWork == Abstract!Spec

-------------------------------------------------------------------------------
(* What the documentation says and the code does not keep. *)

\* docs/failure-model.md: "A mutation from a running handler succeeds only when
\* all of these values still match".  The value that commit_checkpoint stores
\* comes from the attempt that holds the lease when it is stored.
CheckpointWriterHoldsLease ==
    [][\A t \in Task, s \in Step :
           Kind[s] = "step" /\ checkpoint'[t][s] # checkpoint[t][s] /\ Exists(t)' =>
               Fence(t, checkpoint'[t][s])]_vars

\* docs/durable-execution.md: "The step identity supplies the child idempotency
\* key, so replay returns the same task identifier."  The child that a spawn
\* checkpoint of an outstanding task names is still its child: otherwise
\* spawn_task raises instead of returning the identifier.
SpawnReplayable ==
    \A t \in Task, s \in Step :
        Outstanding(t) /\ Kind[s] = "spawn" /\ checkpoint[t][s] # Nothing =>
            task[checkpoint[t][s]].parent = t

\* docs/durable-execution.md: "When a parent succeeds, fails, or is cancelled,
\* PostgreSQL cancels every unfinished descendant."
DescendantsEndWithTask ==
    [][\A t, u, v \in Task :
           /\ Outstanding(t)
           /\ Terminal(t)'
           /\ task[u].parent = t
           /\ task[v].parent = u
           => ~Outstanding(v)']_vars

\* docs/durable-execution.md: "After the database deadline, another attempt
\* replays the checkpoint and continues".  No attempt runs while a sleep that
\* the task has checkpointed is still to end.
SleepHonoured ==
    \A t \in Task : task[t].state = "running" => ahead[t] = {}
===============================================================================
