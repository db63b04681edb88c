------------------------------- MODULE Schedules -------------------------------
(***************************************************************************)
(* Scheduling without a leader: the arithmetic of occurrences and misfire  *)
(* policies, and the transactions of several workers that materialise the  *)
(* same schedule while clients replace, pause and delete it.               *)
(*                                                                         *)
(* Time is counted in ticks of half a second.  A cron expression occurs at *)
(* whole seconds, so at even ticks; its instants repeat with a period.  An *)
(* interval, a start and the database's clock may be at any tick.          *)
(***************************************************************************)
EXTENDS Integers, Sequences, FiniteSets, FiniteSetsExt

CONSTANTS
    Scheduler,       \* the workers that schedule
    Definition,      \* [kind: "interval" or "cron", every: Nat, at: SUBSET Nat]
    Policy,          \* [kind: "skip", "latest" or "catch_up", limit: Nat]
    StartAt,         \* the values of start_at, Never for none
    Horizon,         \* bound: the last tick of the clock
    RetryDelay,      \* SCHEDULE_FAILURE_RETRY_DELAY, in ticks
    DueCountLimit,   \* DUE_COUNT_LIMIT
    MaxPuts          \* bound: how often a client writes the schedule

VARIABLES
    clock,     \* statement_timestamp() of the database
    schedule,  \* the row of the schedule, or none
    created,   \* scheduled_for of the tasks of this schedule: the unique index
    sweep,     \* of each worker: materialize_due_schedules
    puts       \* number of writes by clients

scheduleVars == <<clock, schedule, created, sweep, puts>>

Never == -100

-------------------------------------------------------------------------------
(* ScheduleDefinition.  An interval is every ticks; a cron expression occurs at *)
(* the seconds "at" of every period of "every" seconds.                         *)

OnGrid(d, t) == t % 2 = 0 /\ (t \div 2) % d.every \in d.at

NextAfter(d, t) ==
    IF d.kind = "interval" THEN t + d.every
    ELSE IF d.at = {} THEN Never
    ELSE Min({u \in (t + 1)..(t + 2 * d.every) : OnGrid(d, u)})

\* The first "limit" occurrences from t on that are due.
Walk(d, t, now, limit) ==
    LET walk[n \in 0..limit] ==
            IF n = 0 THEN <<>>
            ELSE LET before == walk[n - 1]
                     u == IF before = <<>> THEN t ELSE NextAfter(d, before[Len(before)])
                 IN  IF u > now \/ u = Never THEN before ELSE Append(before, u)
    IN  walk[limit]


DueCount(d, first, now) ==
    IF d.kind = "interval" THEN (now - first) \div d.every + 1
    ELSE Len(Walk(d, first, now, DueCountLimit))

\* A binary search over whole seconds for the last one that an occurrence which
\* is due follows.
LatestDue(d, first, now) ==
    LET search[w \in (-1..Horizon) \X (0..Horizon + 1)] ==
            LET low == w[1]
                high == w[2]
                middle == low + (high - low) \div 2
            IN  IF low + 1 >= high THEN low
                ELSE IF NextAfter(d, 2 * middle) <= now
                     THEN search[<<middle, high>>]
                     ELSE search[<<low, middle>>]
        found == NextAfter(d, 2 * search[<<first \div 2 - 1, now \div 2 + 1>>])
    IN  IF d.kind = "interval" THEN first + ((now - first) \div d.every) * d.every
        ELSE IF d.at # {} /\ found <= now THEN found ELSE Never

Occurrences(d, first, now, policy) ==
    CASE policy.kind = "skip" -> <<first>>
      [] policy.kind = "latest" -> <<LatestDue(d, first, now)>>
      [] policy.kind = "catch_up" -> Walk(d, first, now, policy.limit)

\* Mutant of Materialize: a schedule that is not due any more is materialised.
MaterializeAlways(d, next, now, policy) ==
    LET occurrences == Occurrences(d, next, now, policy)
    IN  [ok |-> TRUE, occurrences |-> occurrences, next |-> NextAfter(d, now),
         skipped |-> Max({0, DueCount(d, next, now) - Len(occurrences)})]

\* ok is FALSE for a ScheduleError: some date that it needs does not exist.
Materialize(d, next, now, policy) ==
    IF next > now
    THEN [ok |-> TRUE, occurrences |-> <<>>, next |-> next, skipped |-> 0]
    ELSE LET occurrences == Occurrences(d, next, now, policy)
         IN  [ok |-> NextAfter(d, now) # Never /\ \A i \in DOMAIN occurrences : occurrences[i] # Never,
              occurrences |-> occurrences,
              next |-> NextAfter(d, now),
              skipped |-> Max({0, DueCount(d, next, now) - Len(occurrences)})]

-------------------------------------------------------------------------------
(* The clients. *)

NoSchedule == [exists |-> FALSE]

NoPlan == [ok |-> FALSE]

Idle == [phase |-> "idle", now |-> 0, plan |-> NoPlan]

\* The row that claim_due_schedules locked stays locked until the commit.
Locked == \E w \in Scheduler : sweep[w].phase = "claimed"

\* A schedule that is the same but for its start is left alone.
WriteSchedule(d, policy, next) ==
    /\ puts < MaxPuts                                                \* bound
    /\ ~Locked
    /\ puts' = puts + 1
    /\ schedule' = IF schedule.exists /\ schedule.definition = d /\ schedule.policy = policy
                   THEN schedule
                   ELSE [exists |-> TRUE, definition |-> d, policy |-> policy, next |-> next,
                         paused |-> schedule.exists /\ schedule.paused]
    /\ UNCHANGED <<clock, created, sweep>>

\* Store::put_schedule; no start_at is written as Never.
PutSchedule(d, policy, start) ==
    /\ WriteSchedule(d, policy, IF start = Never THEN NextAfter(d, clock) ELSE start)
    /\ NextAfter(d, Max({start, clock})) # Never

\* A client that calls the SQL function evaluates no expression.
PutScheduleBySql(d, policy, start) ==
    /\ d.at = {} /\ d.kind = "cron"
    /\ WriteSchedule(d, policy, start)

SetSchedulePaused(paused) ==
    /\ schedule.exists /\ ~Locked
    /\ schedule.paused # paused
    /\ schedule' = [schedule EXCEPT !.paused = paused]
    /\ UNCHANGED <<clock, created, sweep, puts>>

\* Its tasks stay; a schedule that is written later has another identifier.
DeleteSchedule ==
    /\ schedule.exists /\ ~Locked
    /\ schedule' = NoSchedule
    /\ created' = {}
    /\ UNCHANGED <<clock, sweep, puts>>

-------------------------------------------------------------------------------
(* materialize_due_schedules: three steps of one transaction. *)

\* It reads the time first, and computes with this time to the end.
BeginSweep(w) ==
    /\ sweep[w].phase = "idle"
    /\ sweep' = [sweep EXCEPT ![w] = [phase |-> "begun", now |-> clock, plan |-> NoPlan]]
    /\ UNCHANGED <<clock, schedule, created, puts>>

\* Due by the time of this statement; rows that another worker locked are skipped.
\* The worker then computes the occurrences from the row that it has locked.
ClaimDueSchedules(w) ==
    /\ sweep[w].phase = "begun"
    /\ sweep' = [sweep EXCEPT ![w] =
           IF schedule.exists /\ ~schedule.paused /\ schedule.next <= clock /\ ~Locked
           THEN [@ EXCEPT !.phase = "claimed",
                          !.plan = Materialize(schedule.definition, schedule.next,
                                               sweep[w].now, schedule.policy)]
           ELSE Idle]
    /\ UNCHANGED <<clock, schedule, created, puts>>

\* Mutant of DeferSchedule: the schedule stays due.
DeferToItself(now) == schedule.next

\* materialize_schedule without occurrences.
DeferSchedule(now) == now + RetryDelay


\* The first occurrence that the queue had no room for, or the next one.
Advanced(m, allowed) ==
    IF allowed < Len(m.occurrences) THEN m.occurrences[allowed + 1] ELSE m.next

\* materialize_schedule, where the queue has room for "allowed" tasks, or the
\* roll back to the savepoint and defer_schedule; then the commit.
CommitSweep(w, m, allowed) ==
    /\ IF m.ok
       THEN /\ schedule' = [schedule EXCEPT !.next = Advanced(m, allowed)]
            /\ created' = created \cup {m.occurrences[i] : i \in 1..allowed}
       ELSE /\ schedule' = [schedule EXCEPT !.next = DeferSchedule(sweep[w].now)]
            /\ UNCHANGED created
    /\ sweep' = [sweep EXCEPT ![w] = Idle]
    /\ UNCHANGED <<clock, puts>>

MaterializeDue(w) ==
    /\ sweep[w].phase = "claimed"
    /\ \E allowed \in 0..Len(sweep[w].plan.occurrences) : CommitSweep(w, sweep[w].plan, allowed)

\* There is room for all of them.
MaterializeAll(w) ==
    /\ sweep[w].phase = "claimed"
    /\ CommitSweep(w, sweep[w].plan, Len(sweep[w].plan.occurrences))

\* The worker dies, or a statement fails for another reason: roll back.
AbortSweep(w) ==
    /\ sweep[w].phase # "idle"
    /\ sweep' = [sweep EXCEPT ![w] = Idle]
    /\ UNCHANGED <<clock, schedule, created, puts>>

Tick ==
    /\ clock < Horizon                                               \* bound
    /\ clock' = clock + 1
    /\ UNCHANGED <<schedule, created, sweep, puts>>

-------------------------------------------------------------------------------
ScheduleInit ==
    /\ clock = 0
    /\ schedule = NoSchedule
    /\ created = {}
    /\ sweep = [w \in Scheduler |-> Idle]
    /\ puts = 0

SweepStep(w) ==
    \/ BeginSweep(w)
    \/ ClaimDueSchedules(w)
    \/ MaterializeDue(w)
    \/ AbortSweep(w)

ScheduleNext ==
    \/ \E d \in Definition, policy \in Policy, start \in StartAt :
           PutSchedule(d, policy, start) \/ (start # Never /\ PutScheduleBySql(d, policy, start))
    \/ \E paused \in BOOLEAN : SetSchedulePaused(paused)
    \/ DeleteSchedule
    \/ \E w \in Scheduler : SweepStep(w)
    \/ Tick

\* Some worker is alive, sweeps again and again, and does not always fail or find
\* the queue full.
ScheduleFairness ==
    /\ WF_scheduleVars(\E w \in Scheduler : BeginSweep(w))
    /\ SF_scheduleVars(\E w \in Scheduler : ClaimDueSchedules(w))
    /\ SF_scheduleVars(\E w \in Scheduler : MaterializeAll(w))

ScheduleSpec == ScheduleInit /\ [][ScheduleNext]_scheduleVars /\ ScheduleFairness

-------------------------------------------------------------------------------
(* Properties. *)

\* What is due between the row's next_run_at and now: the occurrences of the
\* definition, and next_run_at itself, which a start_at may put off the cron grid.
Regular(d, first, now) ==
    {u \in first..now : IF d.kind = "interval" THEN (u - first) % d.every = 0 ELSE OnGrid(d, u)}

Due(d, first, now) == {first} \cup Regular(d, first, now)


Committed == \E w \in Scheduler : sweep[w].phase = "claimed" /\ schedule' # schedule

\* No commit moves a schedule back, although a worker may compute with a time
\* before the next_run_at that another worker has written since: to the second,
\* because latest may return an occurrence of the second in which the schedule
\* became due.
NextRunAdvances ==
    [][Committed => schedule'.next \div 2 >= schedule.next \div 2]_scheduleVars


Overdue == schedule.exists /\ ~schedule.paused /\ schedule.next <= clock

\* A schedule does not stay due, also one that can never be materialised: it does
\* not keep the workers busy.  (The clock stops at Horizon.)
DueIsHandled == []<>~Overdue

\* A schedule that Store::put_schedule accepted, and whose definition has a next
\* occurrence, is materialised when it is due.
DueIsMaterializable ==
    \A w \in Scheduler :
        sweep[w].phase = "claimed" /\ NextAfter(schedule.definition, clock) # Never => sweep[w].plan.ok
===============================================================================
