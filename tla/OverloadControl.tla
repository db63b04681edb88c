---------------------------- MODULE OverloadControl ----------------------------
(***************************************************************************)
(* The admission limit of a worker: the health flags that its loops set,   *)
(* the supervisor thread that samples them and runs the overload detector, *)
(* and the limit that the detector and the application both write.         *)
(*                                                                         *)
(* A sample reads the limit and writes it back in two steps, because the   *)
(* application may write it in between (WorkerControl is two atomics, not  *)
(* a lock).  Ages and lags are not counted: the last renewal is too old or *)
(* it is not, the event loop lags or it does not.                          *)
(***************************************************************************)
EXTENDS Naturals

CONSTANTS
    Configured,  \* WorkerConfig.concurrency
    Sustained,   \* OverloadProtectionConfig.sustained_samples
    Recovery     \* OverloadProtectionConfig.recovery_samples

ASSUME OverloadAssumption ==
    /\ Configured \in Nat \ {0}
    /\ Sustained \in Nat \ {0}
    /\ Recovery \in Nat \ {0}

VARIABLES
    config,     \* OverloadProtectionConfig: enforce, minimum
    health,     \* HealthState: database, leases and event loop
    effective,  \* WorkerControl.effective
    proposed,   \* WorkerControl.proposed
    lag,        \* OverloadDetector.lag_samples
    calm,       \* OverloadDetector.recovery_samples
    decision    \* the limit that observe has computed and not applied (0: none)

overloadVars == <<config, health, effective, proposed, lag, calm, decision>>

\* renewed: the flag of the last renewal.  old: it was two thirds of a lease ago
\* or more; the age is that of the last renewal of any lease, and goes on growing
\* while no lease is active.
HealthState == [{"database", "active", "renewed", "old", "lagging"} -> BOOLEAN]

\* What Worker::new accepts.
Accepted == [enforce: BOOLEAN, minimum: 1..Configured]

-------------------------------------------------------------------------------
(* The loops of the worker. *)

SetDatabase(up) == health' = [health EXCEPT !.database = up]

\* The heartbeat, and every claim, reports whether the database answered.
HeartbeatWorker(up) ==
    /\ SetDatabase(up)
    /\ UNCHANGED <<config, effective, proposed, lag, calm, decision>>

\* spawn_task, the end of a handler, and a renewal that finds no lease.
SetActiveLeases(active) ==
    /\ health' = [health EXCEPT !.active = active, !.renewed = @ \/ ~active]
    /\ UNCHANGED <<config, effective, proposed, lag, calm, decision>>

RecordLeaseRenewal(healthy) ==
    /\ health' = [health EXCEPT !.renewed = healthy, !.old = @ /\ ~healthy]
    /\ UNCHANGED <<config, effective, proposed, lag, calm, decision>>

\* Time passes without a renewal.
RenewalAges ==
    /\ health' = [health EXCEPT !.old = TRUE]
    /\ UNCHANGED <<config, effective, proposed, lag, calm, decision>>

\* The claim loop makes progress in time, or it does not.
RuntimeProgress(lagging) ==
    /\ health' = [health EXCEPT !.lagging = lagging]
    /\ UNCHANGED <<config, effective, proposed, lag, calm, decision>>

HealthChanges ==
    \/ \E b \in BOOLEAN :
           HeartbeatWorker(b) \/ SetActiveLeases(b) \/ RecordLeaseRenewal(b) \/ RuntimeProgress(b)
    \/ RenewalAges

-------------------------------------------------------------------------------
(* The application and the detector. *)

\* Refused above the configured concurrency.
SetEffectiveConcurrency(limit) ==
    /\ limit <= Configured
    /\ effective' = limit
    /\ UNCHANGED <<config, health, proposed, lag, calm, decision>>

\* Counters stop at their threshold: they are only compared with it.
UpTo(n, threshold) == IF n < threshold THEN n + 1 ELSE threshold

LagSamples == IF health.lagging THEN UpTo(lag, Sustained) ELSE 0

LeaseRenewalLate == health.active /\ (~health.renewed \/ health.old)

Pressure(lagSamples) ==
    \/ ~health.database
    \/ LeaseRenewalLate
    \/ lagSamples >= Sustained

\* Mutant of Propose: recovery is not capped.
ProposeAbove(pressure) ==
    IF pressure
    THEN IF effective \div 2 > config.minimum THEN effective \div 2 ELSE config.minimum
    ELSE effective + 1

\* Mutant of Propose: recovery stops one below the configured limit.
ProposeBelow(pressure) ==
    IF pressure
    THEN IF effective \div 2 > config.minimum THEN effective \div 2 ELSE config.minimum
    ELSE IF effective + 1 < Configured THEN effective + 1 ELSE effective

\* Mutant of Propose: pressure takes one slot away, never below two.
ProposeGently(pressure) ==
    IF pressure THEN IF effective > 2 THEN effective - 1 ELSE effective
    ELSE IF effective < Configured THEN effective + 1 ELSE Configured

\* Half the limit, never below the minimum; or one more, never above the
\* configured limit.
Propose(pressure) ==
    IF pressure
    THEN IF effective \div 2 > config.minimum THEN effective \div 2 ELSE config.minimum
    ELSE IF effective < Configured THEN effective + 1 ELSE Configured

\* One sample, up to the limit it computes.
Observe ==
    /\ decision = 0
    /\ lag' = LagSamples
    /\ LET pressure == Pressure(LagSamples)
       IN  /\ calm' = IF pressure THEN 0 ELSE UpTo(calm, Recovery)
           /\ decision' = IF pressure \/ UpTo(calm, Recovery) = Recovery
                          THEN Propose(pressure) ELSE 0
    /\ UNCHANGED <<config, health, effective, proposed>>

\* The rest of the sample: record the proposal, apply it when enforcing.
ApplyDecision ==
    /\ decision # 0
    /\ proposed' = decision
    /\ effective' = IF config.enforce THEN decision ELSE effective
    /\ decision' = 0
    /\ UNCHANGED <<config, health, lag, calm>>

-------------------------------------------------------------------------------
OverloadInit ==
    /\ config \in Accepted
    /\ health = [database |-> FALSE, active |-> FALSE, renewed |-> TRUE, old |-> FALSE,
                 lagging |-> FALSE]
    /\ effective = Configured
    /\ proposed = Configured
    /\ lag = 0
    /\ calm = 0
    /\ decision = 0

OverloadNext ==
    \/ HealthChanges
    \/ \E n \in 1..Configured : SetEffectiveConcurrency(n)
    \/ Observe
    \/ ApplyDecision

\* The supervisor samples on a thread of its own.
OverloadFairness == WF_overloadVars(Observe) /\ WF_overloadVars(ApplyDecision)

OverloadSpec == OverloadInit /\ [][OverloadNext]_overloadVars /\ OverloadFairness

-------------------------------------------------------------------------------
(* Properties. *)

\* The limit, the proposal and a limit on its way are between 1 and the
\* configured one, whatever the application writes between the detector's read
\* and its write: none of the three "expect" calls on them can panic
\* (runtime.rs:191, health.rs:312, health.rs:318).
LimitInRange ==
    /\ effective \in 1..Configured
    /\ proposed \in 1..Configured
    /\ decision \in 0..Configured

Unhealthy == ~health.database \/ LeaseRenewalLate \/ health.lagging

ByHand == \E n \in 1..Configured : SetEffectiveConcurrency(n)

\* An enforcing detector gives the configured limit back once the worker stays
\* healthy and nobody sets the limit by hand any more.
LimitRestored ==
    \/ []<>Unhealthy
    \/ []<><<ByHand>>_overloadVars
    \/ <>[](config.enforce => effective = Configured)

\* It cuts the limit down to the minimum while there is always one of the three
\* causes, provided that the event loop's lag is not forgiven sooner than it is
\* believed (sustained_samples <= recovery_samples, as in the default).
LimitCut ==
    \/ Sustained > Recovery
    \/ []<>~Unhealthy
    \/ []<><<ByHand>>_overloadVars
    \/ <>[](config.enforce => effective = config.minimum)
===============================================================================
