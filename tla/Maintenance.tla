------------------------------ MODULE Maintenance ------------------------------
(***************************************************************************)
(* The sweeps of a worker that drain a backlog in batches: lease recovery   *)
(* (one drain per queue) and retention (terminal tasks and idempotency keys *)
(* of each queue, then worker rows).  A sweep is a fixed sequence of drains *)
(* that a timer starts again and again.  Rows appear in every backlog while *)
(* it runs, and other workers sweep the same rows.                          *)
(***************************************************************************)
EXTENDS Naturals

CONSTANTS
    Drains,      \* number of drains of a sweep
    BatchLimit,  \* recovery_batch_size, retention_batch_size
    Budget,      \* MAX_RECOVERY_DRAIN_BATCHES, MAX_RETENTION_DRAIN_BATCHES
    MaxBacklog   \* bound: rows of one backlog

ASSUME MaintenanceAssumption ==
    {Drains, BatchLimit, Budget, MaxBacklog} \subseteq Nat \ {0}

VARIABLES
    backlog,  \* rows that each drain is to handle
    at,       \* the drain the sweep is in; 0 between two sweeps
    batch     \* batches of this drain so far

maintenanceVars == <<backlog, at, batch>>

Drain == 1..Drains

\* A lease or a row expires.
RowExpires(d) ==
    /\ backlog[d] < MaxBacklog                                       \* bound
    /\ backlog' = [backlog EXCEPT ![d] = @ + 1]
    /\ UNCHANGED <<at, batch>>

\* Another worker handles a row, or the row needs no handling any more.
RowLeaves(d) ==
    /\ backlog[d] > 0
    /\ backlog' = [backlog EXCEPT ![d] = @ - 1]
    /\ UNCHANGED <<at, batch>>

\* interval.tick()
SweepTick ==
    /\ at = 0
    /\ at' = 1
    /\ batch' = 0
    /\ UNCHANGED backlog

NextDrain == at' = (IF at = Drains THEN 0 ELSE at + 1) /\ batch' = 0

\* Mutant of OutOfBudget: a drain goes on until a batch is short.
NoBudget(n) == FALSE

OutOfBudget(n) == n + 1 = Budget

\* One batch: rows that no other worker has locked, up to the limit.
DeleteExpired(handled) ==
    /\ handled <= BatchLimit /\ handled <= backlog[at]
    /\ backlog' = [backlog EXCEPT ![at] = @ - handled]

\* A short batch ends the drain, and so does the last one of the budget (batch
\* stays below it).
DrainBatch(handled) ==
    /\ at \in Drain
    /\ DeleteExpired(handled)
    /\ IF handled < BatchLimit \/ OutOfBudget(batch)
       THEN NextDrain
       ELSE batch' = (batch + 1) % Budget /\ UNCHANGED at

\* An error ends the drain, not the sweep.
DrainFails ==
    /\ at \in Drain
    /\ NextDrain
    /\ UNCHANGED backlog

\* What it handles when no row is locked.
FullBatch == DrainBatch(IF at \in Drain /\ backlog[at] < BatchLimit THEN backlog[at] ELSE BatchLimit)

MaintenanceInit ==
    /\ backlog = [d \in Drain |-> 0]
    /\ at = 0
    /\ batch = 0

MaintenanceNext ==
    \/ \E d \in Drain : RowExpires(d) \/ RowLeaves(d)
    \/ SweepTick
    \/ \E handled \in 0..BatchLimit : DrainBatch(handled)
    \/ DrainFails

\* The loop runs while the worker does, and no drain fails, or meets locked rows,
\* for ever.
MaintenanceFairness ==
    /\ WF_maintenanceVars(SweepTick)
    /\ WF_maintenanceVars(\E handled \in 0..BatchLimit : DrainBatch(handled))
    /\ \A d \in Drain : SF_maintenanceVars(at = d /\ FullBatch)

MaintenanceSpec ==
    MaintenanceInit /\ [][MaintenanceNext]_maintenanceVars /\ MaintenanceFairness

\* Every backlog that stops growing is drained, also behind a drain whose rows
\* expire as fast as it handles them and behind one that fails: a drain cannot
\* keep the sweep for itself.
BacklogDrained ==
    \A d \in Drain :
        []<><<RowExpires(d)>>_maintenanceVars \/ []<>(backlog[d] = 0)
===============================================================================
