----------------------------- MODULE WorkerRuntime -----------------------------
(***************************************************************************)
(* One pgtask worker process against the task rows it shares with the rest *)
(* of the fleet: the claim loop, the table of active leases, the handlers, *)
(* the transition writer that batches their outcomes, the lease renewer    *)
(* and the shutdown, each at the granularity of its awaits.                *)
(*                                                                         *)
(* A lease is named by task and attempt (a claim draws a fresh token, see  *)
(* TaskKernel).  Durations are not counted: a lease may be lost at any     *)
(* moment, a timer may fire at any moment after it was set.  A statement   *)
(* whose reply is lost may or may not have been committed.  A claim by     *)
(* another worker is, for this one, a claim whose reply it never got.      *)
(* What the rows do beyond the lease protocol (budgets, waits, ownership)  *)
(* is TaskKernel's; here the budget decides nondeterministically.  What    *)
(* the loops report to Health is OverloadControl's.                        *)
(***************************************************************************)
EXTENDS Naturals, FiniteSets, Sequences

CONSTANTS
    Task,
    Queues,       \* number of queues the worker claims from, in order
    QueueOf,      \* the queue of each task
    Concurrency,  \* WorkerConfig.concurrency: handlers and batched transitions
    ClaimBatch,   \* WorkerConfig.claim_batch_size
    MaxClaims     \* bound: how many claims there are in all

ASSUME RuntimeAssumption ==
    /\ IsFiniteSet(Task)
    /\ Queues \in Nat \ {0}
    /\ QueueOf \in [Task -> 1..Queues]
    /\ Concurrency \in Nat \ {0}
    /\ ClaimBatch \in Nat \ {0}
    /\ MaxClaims \in Nat \ {0}

VARIABLES
    row,      \* pgtask.tasks: state and attempt
    pass,     \* claim_tasks: the queue it is at (0: idle), room left, leases claimed
    handler,  \* execute: the stage of the handler of each lease
    table,    \* active_leases: task -> attempt (0: no entry)
    lost,     \* running handlers whose cancellation token is cancelled
    channel,  \* the transition writer's channel
    batch,    \* write_transition_batch: requests not yet answered, and how
    renewal,  \* renew_leases: where it is, its snapshot, what was renewed
    mode,     \* run_handlers: how far the shutdown is
    aborted   \* leases left in the table when every handler was gone

vars == <<row, pass, handler, table, lost, channel, batch, renewal, mode, aborted>>

local == <<pass, handler, table, lost, channel, batch, renewal, mode, aborted>>

Lease == [task: Task, attempt: 1..MaxClaims]

\* A TransitionRequest; replaced: its error is the short one that replaces a
\* value that PostgreSQL rejected.
Request == [lease: Lease, kind: {"complete", "retry", "fail"}, replaced: BOOLEAN]

Stage == {"none", "running", "writing", "succeeded", "fenced", "ended"}

Mode == {"up", "draining", "releasing", "down"}

Idle == [at |-> 0, room |-> 0, leases |-> {}]

NoBatch == [requests |-> {}, alone |-> FALSE]

NoRenewal == [at |-> "idle", leases |-> {}, renewed |-> {}]

-------------------------------------------------------------------------------
(* Reading the state. *)

\* The fence of every worker call.
Held(rows, l) ==
    /\ rows[l.task].state = "running"
    /\ rows[l.task].attempt = l.attempt

Handlers == {l \in Lease : handler[l] # "none"}

Tracked == {l \in Lease : table[l.task] = l.attempt}

\* Mutant of Room: does not subtract the handlers that are running.
RoomForAll(effective) == IF effective < ClaimBatch THEN effective ELSE ClaimBatch

\* How many tasks a claim pass may take under an effective limit.
Room(effective) ==
    LET available == IF effective > Cardinality(Handlers)
                     THEN effective - Cardinality(Handlers) ELSE 0
    IN  IF available < ClaimBatch THEN available ELSE ClaimBatch

-------------------------------------------------------------------------------
(* The rows.  Others: the rest of the fleet, clients and the clock. *)

Ended(r, st) == [r EXCEPT !.state = st]

Claimed(rows, S) ==
    [t \in Task |->
        IF t \in S THEN [state |-> "running", attempt |-> rows[t].attempt + 1]
        ELSE rows[t]]

\* The claims made so far, by anyone.
Claims == {l \in Lease : l.attempt <= row[l.task].attempt}

\* What complete_tasks and fail_tasks make of the rows; left: the tasks that
\* have some of their budget left.
Written(rows, requests, left) ==
    [t \in Task |->
        LET mine == {r \in requests : r.lease.task = t /\ Held(rows, r.lease)}
        IN  IF mine = {} THEN rows[t]
            ELSE LET kind == (CHOOSE r \in mine : TRUE).kind
                 IN  Ended(rows[t],
                        IF kind = "complete" THEN "succeeded"
                        ELSE IF kind = "retry" /\ t \in left THEN "pending"
                        ELSE "dead")]

\* What complete_task and fail_task make of them.
WrittenAlone(rows, r, left) == Written(rows, {r}, left)

Released(rows, leases) ==
    [t \in Task |->
        IF \E l \in leases : l.task = t /\ Held(rows, l)
        THEN Ended(rows[t], "pending") ELSE rows[t]]


\* The lease expires and some worker's recovery loop charges it: the task is
\* pending again, or failed.  Or the task is cancelled.
LeaseIsLost(t) ==
    /\ row[t].state = "running"
    /\ \E st \in {"pending", "dead"} : row' = [row EXCEPT ![t] = Ended(@, st)]
    /\ UNCHANGED local

-------------------------------------------------------------------------------
(* The claim loop: one statement per queue, then a handler per claimed task. *)

\* A pass under way, or the ones that may begin.  The effective limit may be
\* anything between 1 and the configured one: see OverloadControl.
Passes ==
    IF pass # Idle THEN {pass}
    ELSE IF mode # "up" THEN {}
    ELSE {[at |-> 1, room |-> Room(n), leases |-> {}] :
              n \in {e \in 1..Concurrency : Room(e) > 0}}

\* The sets of tasks that the claim of pass p may return.
Claimable(p) ==
    {S \in SUBSET {t \in Task : row[t].state = "pending" /\ QueueOf[t] = p.at} :
        /\ Cardinality(S) <= p.room - Cardinality(p.leases)
        /\ Cardinality(S) + Cardinality(Claims) <= MaxClaims}         \* bound

\* spawn_task for each claimed task.
Spawn(leases) ==
    /\ handler' = [l \in Lease |-> IF l \in leases THEN "running" ELSE handler[l]]
    /\ table' = [t \in Task |->
           IF \E l \in leases : l.task = t
           THEN (CHOOSE l \in leases : l.task = t).attempt ELSE table[t]]

\* One claim; after the last, or when there is no room left, the handlers start.
ClaimQueue ==
    /\ \E p \in Passes : \E S \in Claimable(p) :
           LET leases == p.leases \cup
                   {[task |-> t, attempt |-> row[t].attempt + 1] : t \in S}
           IN  /\ row' = Claimed(row, S)
               /\ IF p.at = Queues \/ Cardinality(leases) = p.room
                  THEN pass' = Idle /\ Spawn(leases)
                  ELSE /\ pass' = [p EXCEPT !.at = @ + 1, !.leases = leases]
                       /\ UNCHANGED <<handler, table>>
    /\ UNCHANGED <<lost, channel, batch, renewal, mode, aborted>>

\* The claim fails: the pass returns nothing of what it had claimed before, nor
\* of what the statement may have committed.
ClaimFails ==
    /\ \E p \in Passes : \E S \in Claimable(p) : row' = Claimed(row, S)
    /\ pass' = Idle
    /\ UNCHANGED <<handler, table, lost, channel, batch, renewal, mode, aborted>>

-------------------------------------------------------------------------------
(* A handler. *)

Send(l, kind, replaced) ==
    channel' = Append(channel, [lease |-> l, kind |-> kind, replaced |-> replaced])

\* The handler's future is over, and execute sends the outcome to the writer.
HandlerEnds(l, kind) ==
    /\ handler[l] = "running"
    /\ handler' = [handler EXCEPT ![l] = "writing"]
    /\ Send(l, kind, FALSE)
    /\ lost' = lost \ {l}
    /\ UNCHANGED <<row, pass, table, batch, renewal, mode, aborted>>

\* With a result; one over the size limit is a failure that is not retried.
HandlerReturns(l) == HandlerEnds(l, "complete") \/ HandlerEnds(l, "fail")

\* With an error or a panic; an error may be final.
HandlerFails(l) == HandlerEnds(l, "retry") \/ HandlerEnds(l, "fail")

\* A durable sleep or wait gave the lease back and the handler is suspended.  (A
\* task that sleeps or waits counts as pending: it may be claimed again.)
HandlerSuspends(l) ==
    /\ handler[l] = "running"
    /\ Held(row, l)
    /\ row' = Released(row, {l})
    /\ handler' = [handler EXCEPT ![l] = "ended"]
    /\ lost' = lost \ {l}
    /\ UNCHANGED <<pass, table, channel, batch, renewal, mode, aborted>>

\* execute's select sees the token and drops the handler.
HandlerLosesLease(l) ==
    /\ handler[l] = "running" /\ l \in lost
    /\ handler' = [handler EXCEPT ![l] = "ended"]
    /\ lost' = lost \ {l}
    /\ UNCHANGED <<row, pass, table, channel, batch, renewal, mode, aborted>>

\* The end of the spawned future: the entry of the TASK is removed.
HandlerLeaves(l) ==
    /\ handler[l] \in {"succeeded", "fenced", "ended"}
    /\ handler' = [handler EXCEPT ![l] = "none"]
    /\ table' = [table EXCEPT ![l.task] = 0]
    /\ UNCHANGED <<row, pass, lost, channel, batch, renewal, mode, aborted>>

-------------------------------------------------------------------------------
(* The transition writer: completions first, then failures; a batch that fails *)
(* is written again request by request.                                        *)

\* The channel in arrival order; a batch is a prefix of it.
CollectBatch ==
    /\ batch = NoBatch /\ channel # <<>> /\ mode # "down"
    /\ \E n \in 1..Len(channel) :
           /\ n <= Concurrency
           /\ batch' = [NoBatch EXCEPT !.requests = {channel[i] : i \in 1..n}]
           /\ channel' = SubSeq(channel, n + 1, Len(channel))
    /\ UNCHANGED <<row, pass, handler, table, lost, renewal, mode, aborted>>

Completions == {r \in batch.requests : r.kind = "complete"}

\* The requests that are written next.
Turn == IF Completions # {} THEN Completions ELSE batch.requests

\* complete_many and fail_many refuse a batch that names a task twice.
Distinct(requests) ==
    \A r, s \in requests : r.lease.task = s.lease.task => r = s

\* Mutant of Answer: reports what was asked for, not what was stored.
AnswerAsked(r) == IF r.kind = "complete" THEN "succeeded" ELSE "ended"

\* The answer to a request, before it is written.
Answer(r) ==
    IF ~Held(row, r.lease) THEN "fenced"
    ELSE IF r.kind = "complete" THEN "succeeded" ELSE "ended"

\* An answer to a handler that was aborted is dropped.
Answered(requests) ==
    [l \in Lease |->
        IF handler[l] = "writing" /\ \E r \in requests : r.lease = l
        THEN Answer(CHOOSE r \in requests : r.lease = l) ELSE handler[l]]

\* Mutant of Without: an answer ends the batch.
WithoutAny(requests) == NoBatch

\* The batch once requests are answered.
Without(requests) ==
    LET rest == batch.requests \ requests
    IN  [requests |-> rest,
         alone |-> batch.alone /\ Turn \ requests # {}]

WriteBatch ==
    /\ batch # NoBatch /\ ~batch.alone /\ mode # "down"
    /\ Distinct(Turn)
    /\ \E left \in SUBSET Task : row' = Written(row, Turn, left)
    /\ handler' = Answered(Turn)
    /\ batch' = Without(Turn)
    /\ UNCHANGED <<pass, table, lost, channel, renewal, mode, aborted>>

\* Mutant of WriteBatchFails: the batch is written again as it is.
WriteBatchRetries ==
    /\ batch # NoBatch /\ ~batch.alone /\ mode # "down"
    /\ \/ row' = row
       \/ Distinct(Turn) /\ \E left \in SUBSET Task : row' = Written(row, Turn, left)
    /\ UNCHANGED local

\* The statement failed, was refused, or its reply was lost.
WriteBatchFails ==
    /\ batch # NoBatch /\ ~batch.alone /\ mode # "down"
    /\ \/ row' = row
       \/ Distinct(Turn) /\ \E left \in SUBSET Task : row' = Written(row, Turn, left)
    /\ batch' = [batch EXCEPT !.alone = TRUE]
    /\ UNCHANGED <<pass, handler, table, lost, channel, renewal, mode, aborted>>

WriteAlone(r) ==
    /\ batch.alone /\ r \in Turn /\ mode # "down"
    /\ \E left \in SUBSET Task : row' = WrittenAlone(row, r, left)
    /\ handler' = Answered({r})
    /\ batch' = Without({r})
    /\ UNCHANGED <<pass, table, lost, channel, renewal, mode, aborted>>

\* Mutant of WriteAloneFails: an error is taken for a lost lease.
WriteAloneFenced(r) ==
    /\ batch.alone /\ r \in Turn /\ mode # "down"
    /\ \E left \in SUBSET Task : row' \in {row, WrittenAlone(row, r, left)}
    /\ handler' = [handler EXCEPT ![r.lease] = IF @ = "writing" THEN "fenced" ELSE @]
    /\ batch' = Without({r})
    /\ UNCHANGED <<pass, table, lost, channel, renewal, mode, aborted>>

\* The handler gives up; its lease is left to expire.
WriteAloneFails(r) ==
    /\ batch.alone /\ r \in Turn /\ mode # "down"
    /\ \E left \in SUBSET Task : row' \in {row, WrittenAlone(row, r, left)}
    /\ handler' = [handler EXCEPT ![r.lease] = IF @ = "writing" THEN "ended" ELSE @]
    /\ batch' = Without({r})
    /\ UNCHANGED <<pass, table, lost, channel, renewal, mode, aborted>>

\* The kind of the failure that is written in place of a rejected value, with the
\* short error of rejected_value_error: a result becomes a final failure.
Replaced(kind) == IF kind = "complete" THEN "fail" ELSE kind

\* PostgreSQL rejects the value; it takes the short error.
WriteAloneRejected(r) ==
    /\ batch.alone /\ r \in Turn /\ mode # "down"
    /\ ~r.replaced
    /\ batch' = Without({r})
    /\ IF handler[r.lease] = "writing"
       THEN Send(r.lease, Replaced(r.kind), TRUE)
       ELSE UNCHANGED channel
    /\ UNCHANGED <<row, pass, handler, table, lost, renewal, mode, aborted>>

-------------------------------------------------------------------------------
(* The renewer: a snapshot of the table, one statement, and what its reply does *)
(* to the table of that moment.                                                 *)

RenewTick ==
    /\ renewal = NoRenewal /\ mode # "down"
    /\ Tracked # {}
    /\ renewal' = [NoRenewal EXCEPT !.at = "asked", !.leases = Tracked]
    /\ UNCHANGED <<row, pass, handler, table, lost, channel, batch, mode, aborted>>

RenewCommits ==
    /\ renewal.at = "asked" /\ mode # "down"
    /\ renewal' = [renewal EXCEPT !.at = "answered",
                      !.renewed = {l \in renewal.leases : Held(row, l)}]
    /\ UNCHANGED <<row, pass, handler, table, lost, channel, batch, mode, aborted>>

\* Mutant of Cancelled: cancels whatever lease of the task is in the table.
CancelledByTask(leases) ==
    {l \in Tracked : handler[l] = "running" /\ \E k \in leases : k.task = l.task}

\* The leases of a snapshot that are cancelled: the table must still have the
\* same entry.  (The token of a handler that has returned is read by nobody.)
Cancelled(leases) == {l \in leases \cap Tracked : handler[l] = "running"}

UpdateRenewedLeases ==
    /\ renewal.at = "answered" /\ mode # "down"
    /\ lost' = lost \cup Cancelled(renewal.leases \ renewal.renewed)
    /\ renewal' = NoRenewal
    /\ UNCHANGED <<row, pass, handler, table, channel, batch, mode, aborted>>

\* The call fails, committed or not; the leases that were last renewed two
\* thirds of a lease ago are given up.
RenewFails ==
    /\ renewal.at = "asked" /\ mode # "down"
    /\ \E uncertain \in SUBSET renewal.leases : lost' = lost \cup Cancelled(uncertain)
    /\ renewal' = NoRenewal
    /\ UNCHANGED <<row, pass, handler, table, channel, batch, mode, aborted>>

-------------------------------------------------------------------------------
(* Shutdown and crash. *)

\* The token is cancelled.  The loop leaves when the pass under way is over.
AskShutdown ==
    /\ mode = "up"
    /\ mode' = "draining"
    /\ UNCHANGED <<row, pass, handler, table, lost, channel, batch, renewal, aborted>>


\* The handler of l once the set of handlers is empty: it left by itself within
\* the grace, or it was aborted and has unwound.  The request of one that was
\* waiting for the writer stays with the writer.
Joined(l) == "none"

\* Mutant of DrainTable: the grace has no end.
DrainWhenIdle ==
    /\ mode = "draining" /\ pass.at = 0 /\ Handlers = {}
    /\ mode' = "releasing"
    /\ aborted' = Tracked
    /\ table' = [t \in Task |-> 0]
    /\ UNCHANGED <<row, pass, handler, lost, channel, batch, renewal>>

\* No handler is left, at the latest when the grace ends: what the table holds is
\* taken out of it.
DrainTable ==
    /\ mode = "draining" /\ pass.at = 0
    /\ handler' = [l \in Lease |-> Joined(l)]
    /\ lost' = {}
    /\ mode' = "releasing"
    /\ aborted' = Tracked
    /\ table' = [t \in Task |-> 0]
    /\ UNCHANGED <<row, pass, channel, batch, renewal>>

\* The statement the writer may have in flight: a batch, or one request of it.
Statements ==
    IF batch = NoBatch THEN {}
    ELSE IF batch.alone THEN {{r} : r \in Turn}
    ELSE {requests \in {Turn} : Distinct(requests)}

\* What a write that was in flight when the process stopped may have done.
InFlight(rows) ==
    {rows} \cup {Written(rows, requests, left) :
                    requests \in Statements, left \in SUBSET Task}

Down ==
    /\ mode' = "down"
    /\ pass' = Idle
    /\ handler' = [l \in Lease |-> "none"]
    /\ table' = [t \in Task |-> 0]
    /\ lost' = {}
    /\ channel' = <<>>
    /\ batch' = NoBatch
    /\ renewal' = NoRenewal
    /\ aborted' = {}

ReleaseAborted ==
    /\ mode = "releasing"
    /\ row' \in InFlight(row) \cup InFlight(Released(row, aborted))
    /\ Down

Crash ==
    /\ mode # "down"
    /\ row' \in InFlight(row)
    /\ Down

-------------------------------------------------------------------------------
Init ==
    /\ row = [t \in Task |-> [state |-> "pending", attempt |-> 0]]
    /\ pass = Idle
    /\ handler = [l \in Lease |-> "none"]
    /\ table = [t \in Task |-> 0]
    /\ lost = {}
    /\ channel = <<>>
    /\ batch = NoBatch
    /\ renewal = NoRenewal
    /\ mode = "up"
    /\ aborted = {}

ClaimStep == ClaimQueue \/ ClaimFails

HandlerStep(l) ==
    \/ HandlerReturns(l) \/ HandlerFails(l) \/ HandlerSuspends(l)
    \/ HandlerLosesLease(l) \/ HandlerLeaves(l)

WriterStep ==
    \/ CollectBatch \/ WriteBatch \/ WriteBatchFails
    \/ \E r \in Turn : WriteAlone(r) \/ WriteAloneFails(r) \/ WriteAloneRejected(r)

RenewerStep == RenewTick \/ RenewCommits \/ UpdateRenewedLeases \/ RenewFails

ShutdownStep == AskShutdown \/ DrainTable \/ ReleaseAborted

Next ==
    \/ \E t \in Task : LeaseIsLost(t)
    \/ ClaimStep
    \/ \E l \in Lease : HandlerStep(l)
    \/ WriterStep
    \/ RenewerStep
    \/ ShutdownStep
    \/ Crash

Current(t) == [task |-> t, attempt |-> row[t].attempt]

\* A lease that no part of this process works for any more: claimed and dropped,
\* given up after a failed write, or left behind by a stop.
Abandoned(l) ==
    /\ Held(row, l)
    /\ l \notin Handlers \cup Tracked \cup pass.leases \cup aborted

\* The loops of a live process keep running and timers fire; a lease that nobody
\* renews expires, and the fleet's recovery loops find it.  Nothing is asked of
\* handlers, of claims that may begin, or of the outcome of a statement.
Fairness ==
    /\ WF_vars(pass # Idle /\ ClaimStep)
    /\ WF_vars(\E l \in Lease : HandlerLosesLease(l) \/ HandlerLeaves(l))
    /\ WF_vars(WriterStep)
    /\ WF_vars(RenewerStep)
    /\ WF_vars(DrainTable \/ ReleaseAborted)
    /\ WF_vars(\E t \in Task : Abandoned(Current(t)) /\ LeaseIsLost(t))

Spec == Init /\ [][Next]_vars /\ Fairness

-------------------------------------------------------------------------------
(* Properties. *)

\* Every variable of the process holds what its Rust type allows: a lease that
\* the table, a batch or a renewal names was claimed within the bound.
TypeOK ==
    /\ row \in [Task -> [state: {"pending", "running", "succeeded", "dead"},
                         attempt: 0..MaxClaims]]
    /\ pass \in [at: 0..Queues, room: 0..Concurrency, leases: SUBSET Lease]
    /\ handler \in [Lease -> Stage]
    /\ table \in [Task -> 0..MaxClaims]
    /\ lost \subseteq Lease
    /\ channel \in Seq(Request)
    /\ batch \in [requests: SUBSET Request, alone: BOOLEAN]
    /\ renewal \in [at: {"idle", "asked", "answered"}, leases: SUBSET Lease,
                    renewed: SUBSET Lease]
    /\ mode \in Mode
    /\ aborted \subseteq Lease

\* A handler that complete_execution told "completed" has its success in its own
\* row, whatever was batched with it, retried alone or claimed again meanwhile.
SuccessIsStored ==
    \A l \in Lease : handler[l] = "succeeded" =>
        row[l.task].state = "succeeded" /\ row[l.task].attempt = l.attempt

\* A handler that complete_execution or write_failure told its lease was lost
\* does not hold it: no fenced outcome leaves a row running for good.
FencedMeansLost ==
    \A l \in Lease : handler[l] = "fenced" => ~Held(row, l)

\* The handlers of run_handlers, with the ones that the claim pass under way is
\* about to spawn, never exceed the configured concurrency.
WithinConcurrency ==
    Cardinality(Handlers) + Cardinality(pass.leases) <= Concurrency

\* The outcome of a handler that waits for its oneshot reply is still with
\* write_transitions, in the channel or in the batch: none is dropped unanswered
\* by the passage from a failed batch to the writes of one request each.
OutcomeIsKept ==
    \A l \in Lease : handler[l] = "writing" =>
        \/ \E r \in batch.requests : r.lease = l
        \/ \E i \in 1..Len(channel) : channel[i].lease = l

\* update_renewed_leases cancels a handler only when its own lease is lost, even
\* when the snapshot it renewed is older than the entry the table has by then.
OnlyLostIsCancelled ==
    [][UpdateRenewedLeases => \A l \in lost' \ lost : ~Held(row, l)]_vars

\* A shutdown ends, whatever handlers, claims, writes and renewals are under way
\* when run_handlers sees the token: the grace bounds it.
ShutdownCompletes == (mode = "draining") ~> (mode = "down")


\* write_transition_batch comes to the end of every batch, whichever of its
\* statements fail, so that the outcomes behind it are collected.
BatchEnds == (batch # NoBatch) ~> (batch = NoBatch)

\* A handler that runs under a lease it holds is in active_leases, so that the
\* renewer extends the lease and the shutdown hands it back.
TrackedWhileHeld ==
    \A l \in Lease : handler[l] = "running" /\ Held(row, l) => l \in Tracked
===============================================================================
