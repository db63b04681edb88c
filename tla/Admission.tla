------------------------------- MODULE Admission -------------------------------
(***************************************************************************)
(* Admission to one queue: the counter behind max_outstanding_tasks, and    *)
(* the idempotency keys.  Both are kept by triggers, in the transactions    *)
(* that enqueue, end, retry or delete a task, and those transactions        *)
(* overlap: a producer may enqueue in a transaction of its own and commit   *)
(* it later.  PostgreSQL runs them at READ COMMITTED: a statement sees the  *)
(* committed rows and those its own transaction wrote, and a write waits    *)
(* for the transaction that wrote the row before.                           *)
(***************************************************************************)
EXTENDS Naturals, FiniteSets, TLC

CONSTANTS
    Client,    \* producers, workers, administrators: one transaction each
    Ticket,    \* the tasks that are ever enqueued
    Key,       \* idempotency keys
    KeyOf,     \* the key a task is enqueued with, or NoKey
    Retried,   \* bound: the tasks an administrator may retry
    Limits,    \* values of max_outstanding_tasks that put_queue is called with
    Queue,     \* the row of the queue
    NoKey, NoTask, Nobody

\* A null max_outstanding_tasks.
Unlimited == 0

ASSUME AdmissionAssumption ==
    /\ KeyOf \in [Ticket -> Key \cup {NoKey}]
    /\ Limits \subseteq Nat
    /\ Retried \subseteq Ticket

VARIABLES
    table,        \* the committed rows: the queue, the keys and the tasks
    tx,           \* the rows each open transaction has written, and so locked
    referenced,   \* clients whose insert refers to the queue row (foreign key)
    configuring,  \* the client with put_queue's FOR UPDATE on the queue row
    elapsed,      \* ended tasks whose idempotency retention is over
    stable,       \* the last switch from unlimited to limited met no other transaction
    revived       \* tasks that were retried when no key named them any more

admissionVars == <<table, tx, referenced, configuring, elapsed, stable, revived>>

Outstanding(rows) == {t \in Ticket : rows[t] = "open"}

AdmissionInit ==
    /\ table = [r \in {Queue} |-> [max |-> Unlimited, count |-> 0]]
                   @@ [k \in Key |-> [task |-> NoTask, expires |-> FALSE]]
                   @@ [t \in Ticket |-> "none"]
    /\ tx = [c \in Client |-> <<>>]
    /\ referenced = {} /\ configuring = Nobody
    /\ elapsed = {} /\ stable = TRUE /\ revived = {}

-------------------------------------------------------------------------------
(* Transactions                                                             *)

Closed(c) == DOMAIN tx[c] = {}

View(c) == tx[c] @@ table

Free(c, r) == \A d \in Client \ {c} : r \notin DOMAIN tx[d]

\* The foreign key of an insert waits for put_queue to commit.
Waiting(c) == c \in referenced /\ configuring # Nobody

Write(c, rows) == tx' = [tx EXCEPT ![c] = rows @@ @]

Close(c) ==
    /\ tx' = [tx EXCEPT ![c] = <<>>]
    /\ referenced' = referenced \ {c}
    /\ configuring' = IF configuring = c THEN Nobody ELSE configuring

Commit(c) ==
    /\ ~Closed(c) /\ ~Waiting(c)
    /\ table' = View(c)
    /\ Close(c)
    /\ UNCHANGED <<elapsed, stable, revived>>

\* The caller rolls back, the connection is lost or a deadlock is broken.
Rollback(c) ==
    /\ ~Closed(c)
    /\ Close(c)
    /\ UNCHANGED <<table, elapsed, stable, revived>>

-------------------------------------------------------------------------------
(* Capacity                                                                 *)

Limited(c) == View(c)[Queue].max # Unlimited

\* The insert or retry is refused with PT001.  The condition is that of the
\* update, which a full queue does not match: it is refused without a wait.
Full(c) == Limited(c) /\ View(c)[Queue].count >= View(c)[Queue].max

\* The trigger of a queue with a limit writes the row of the queue; that of a
\* queue without one sees no row to write, whatever put_queue is about to commit.
Adjusted(c, n) ==
    IF Limited(c) THEN Queue :> [View(c)[Queue] EXCEPT !.count = n] ELSE <<>>

Adjustable(c) ==
    /\ Limited(c) => Free(c, Queue)
    /\ stable' = (stable /\ (Limited(c) \/ configuring = Nobody))

Increment(c) == Adjusted(c, View(c)[Queue].count + 1)

Decrement(c) ==
    LET n == View(c)[Queue].count IN Adjusted(c, IF n = 0 THEN 0 ELSE n - 1)

\* Mutant of Counter: a limit always starts from zero.
NotCounted(max) == IF max = Unlimited \/ table[Queue].max = Unlimited THEN 0 ELSE table[Queue].count

\* The counter that put_queue writes: it is counted when the limit is new.
Counter(max) ==
    IF max = Unlimited THEN 0
    ELSE IF table[Queue].max # Unlimited THEN table[Queue].count
    ELSE Cardinality(Outstanding(table))

PutQueue(c, max) ==
    /\ Closed(c)
    /\ configuring = Nobody /\ referenced = {} /\ Free(c, Queue)
    /\ Write(c, Queue :> [max |-> max, count |-> Counter(max)])
    /\ configuring' = c
    /\ stable' = IF table[Queue].max = Unlimited
                   THEN \A d \in Client : Closed(d)
                   ELSE stable
    /\ UNCHANGED <<table, referenced, elapsed, revived>>

-------------------------------------------------------------------------------
(* Keys                                                                     *)

\* Mutant of Lapsed: a key is free as soon as its task has ended.
LapsedAtOnce(reservation) == reservation.task # NoTask /\ reservation.expires

\* expires_at IS NOT NULL AND expires_at <= statement_timestamp()
Lapsed(reservation) ==
    reservation.task # NoTask /\ reservation.expires /\ reservation.task \in elapsed

Reserved(c, k) == View(c)[k].task # NoTask /\ ~Lapsed(View(c)[k])

\* The trigger on a change of state: the key's expiry, if it still names the task.
Names(t) == KeyOf[t] # NoKey /\ table[KeyOf[t]].task = t

Expiry(t, expires) ==
    IF Names(t) THEN KeyOf[t] :> [task |-> t, expires |-> expires] ELSE <<>>

Expirable(c, t) == Names(t) => Free(c, KeyOf[t])

-------------------------------------------------------------------------------
(* Tasks                                                                    *)

\* A transaction that only enqueues may go on to enqueue (enqueue_many, enqueue_on).
Enqueuing(c) ==
    /\ configuring # c /\ ~Waiting(c)
    /\ \A t \in Ticket \cap DOMAIN tx[c] : table[t] = "none"

Unused(t) == table[t] = "none" /\ \A c \in Client : t \notin DOMAIN tx[c]

\* A key in use answers with its task, however full the queue is.  Its row stays
\* locked: ON CONFLICT DO UPDATE locks the row it does not update.
Duplicate(c, k) ==
    /\ k # NoKey
    /\ Free(c, k) /\ Reserved(c, k)
    /\ Write(c, k :> View(c)[k])
    /\ UNCHANGED <<table, referenced, configuring, elapsed, stable, revived>>

\* A row that is new in the table of keys refers to the queue as well.
Reservable(c, k) ==
    k # NoKey =>
        /\ Free(c, k) /\ ~Reserved(c, k)
        /\ View(c)[k].task = NoTask => configuring = Nobody

Reservation(t) ==
    IF KeyOf[t] = NoKey THEN <<>> ELSE KeyOf[t] :> [task |-> t, expires |-> FALSE]

Create(c, t) ==
    /\ Reservable(c, KeyOf[t])
    /\ ~Full(c) /\ Adjustable(c)
    /\ Write(c, Reservation(t) @@ Increment(c) @@ (t :> "open"))
    /\ referenced' = referenced \cup {c}
    /\ UNCHANGED <<table, configuring, elapsed, revived>>

\* PT001 aborts the whole transaction.
Reject(c, k) ==
    /\ Reservable(c, k)
    /\ Full(c)
    /\ Close(c)
    /\ UNCHANGED <<table, elapsed, stable, revived>>

Enqueue(c, t) ==
    /\ Enqueuing(c) /\ Unused(t)
    /\ Duplicate(c, KeyOf[t]) \/ Create(c, t) \/ Reject(c, KeyOf[t])

\* The task succeeds, fails for good or is cancelled.
EndTask(c, t) ==
    /\ Closed(c)
    /\ table[t] = "open" /\ Free(c, t)
    /\ Adjustable(c) /\ Expirable(c, t)
    /\ Write(c, Expiry(t, TRUE) @@ Decrement(c) @@ (t :> "ended"))
    /\ elapsed' = elapsed \ {t}
    /\ UNCHANGED <<table, referenced, configuring, revived>>

\* admin_retry_task of a failed or cancelled task; a full queue refuses it.
RetryTask(c, t) ==
    /\ t \in Retried                                                 \* bound
    /\ Closed(c)
    /\ table[t] = "ended" /\ Free(c, t)
    /\ ~Full(c) /\ Adjustable(c) /\ Expirable(c, t)
    /\ Write(c, Expiry(t, FALSE) @@ Increment(c) @@ (t :> "open"))
    /\ revived' = IF KeyOf[t] = NoKey \/ Names(t) THEN revived ELSE revived \cup {t}
    /\ UNCHANGED <<table, referenced, configuring, elapsed>>

Unlocked(r) == \A c \in Client : r \notin DOMAIN tx[c]

\* Time passes: completed_at + idempotency_retention_seconds is over.
RetentionPasses(t) ==
    /\ KeyOf[t] # NoKey
    /\ table[t] \in {"ended", "deleted"} /\ t \notin elapsed
    /\ elapsed' = elapsed \cup {t}
    /\ UNCHANGED <<table, tx, referenced, configuring, stable, revived>>

\* The task row goes and its key stays, with the expiry it has.
DeleteExpiredTerminal(t) ==
    /\ table[t] = "ended" /\ Unlocked(t)
    /\ Names(t) => Unlocked(KeyOf[t])
    /\ table' = Expiry(t, TRUE) @@ (t :> "deleted") @@ table
    /\ UNCHANGED <<tx, referenced, configuring, elapsed, stable, revived>>

DeleteExpiredIdempotencyKey(k) ==
    /\ Lapsed(table[k]) /\ Unlocked(k)
    /\ table' = [table EXCEPT ![k] = [task |-> NoTask, expires |-> FALSE]]
    /\ UNCHANGED <<tx, referenced, configuring, elapsed, stable, revived>>

AdmissionNext ==
    \/ \E c \in Client :
           \/ Commit(c) \/ Rollback(c)
           \/ \E max \in Limits : PutQueue(c, max)
           \/ \E t \in Ticket : Enqueue(c, t) \/ EndTask(c, t) \/ RetryTask(c, t)
    \/ \E t \in Ticket : RetentionPasses(t) \/ DeleteExpiredTerminal(t)
    \/ \E k \in Key : DeleteExpiredIdempotencyKey(k)

-------------------------------------------------------------------------------
\* The counter of a queue with a limit is the number of its outstanding tasks,
\* although it is only ever adjusted by triggers and recounted once, when
\* put_queue sets the limit.  It holds from a switch that met no transaction of
\* another client; one that did may leave the counter off for good, which is why
\* the documentation has the limit set before producers start.
CounterIsExact ==
    stable /\ table[Queue].max # Unlimited =>
        table[Queue].count = Cardinality(Outstanding(table))

\* pgtask.enqueue creates no second task for a key while the first is unfinished
\* or within its retention, whichever transactions overlap, whether or not the
\* first was retried, and also when its row is deleted.  The one exception is a
\* task that is retried after it lost its key: the retry does not win it back.
KeyNamesOneTask ==
    [][\A t, u \in Ticket :
          /\ t # u /\ KeyOf[t] = KeyOf[u] /\ KeyOf[t] # NoKey
          /\ table[t] = "none" /\ table'[t] # "none" /\ table'[u] # "none"
          => \/ u \in revived
             \/ u \in elapsed /\ table[u] \in {"ended", "deleted"}]_admissionVars
===============================================================================
