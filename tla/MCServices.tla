------------------------------- MODULE MCServices -------------------------------
(***************************************************************************)
(* One model for the services around the task kernel.  They share no        *)
(* variable, so every behaviour of theirs is an interleaving of behaviours  *)
(* of each alone: "part" says which one moves, the others stay in an        *)
(* initial state.  The state space is the sum of theirs, not the product.   *)
(***************************************************************************)
EXTENDS OverloadControl, Notifications, Schedules, DurableCalls, Maintenance, Outcomes,
        Admission

CONSTANTS w1, w2, t1, t2, t3, k1

VARIABLE part

vars == <<part, overloadVars, notificationVars, scheduleVars, durableVars, maintenanceVars,
          outcomeVars, admissionVars>>

\* Every tick, every second second, and an expression that never occurs.
MCDefinition ==
    {[kind |-> "interval", every |-> 1, at |-> {}],
     [kind |-> "cron", every |-> 2, at |-> {1}],
     [kind |-> "cron", every |-> 2, at |-> {}]}

MCPolicy ==
    {[kind |-> "skip", limit |-> 0],
     [kind |-> "latest", limit |-> 0],
     [kind |-> "catch_up", limit |-> 2]}

\* Without a start, and half a second after the schedule is written.
MCStartAt == {Never, 1}

MCPrograms == {<<"step", "sleep", "spawn">>, <<"signal", "result">>}

Text == UNION {[1..n -> {"a", "q", "w", "z"}] : n \in 0..2}

MCValue ==
    [object: BOOLEAN, shell: {2, 20},
     strings: {<<s>> : s \in Text} \cup {<<<<"z", "q">>, s>> : s \in Text}]

MCRetryPolicy == [base: 0..2, factor: 0..3, max: {5, 20}]

\* Two tasks for one key, and a task without.
MCKeyOf == [t \in Ticket |-> IF t = t3 THEN NoKey ELSE k1]

-------------------------------------------------------------------------------
Parts ==
    {"overload", "notifications", "schedules", "calls", "maintenance", "outcomes", "retries",
     "admission"}

Init ==
    /\ part \in Parts
    /\ OverloadInit /\ (part # "overload" => config = [enforce |-> FALSE, minimum |-> 1])
    /\ NotificationInit /\ (part # "notifications" => role = "waiter")
    /\ ScheduleInit
    /\ DurableInit /\ (part # "calls" => program = <<"signal", "result">>)
    /\ MaintenanceInit
    /\ AdmissionInit
    /\ OutcomeInit
    /\ part # "outcomes" =>
           raw = [kind |-> "error", value |-> [object |-> TRUE, shell |-> 2, strings |-> <<<<>>>>]]
    /\ part # "retries" => policy = [base |-> 0, factor |-> 0, max |-> 5]

Next ==
    \/ /\ part = "overload" /\ OverloadNext
       /\ UNCHANGED <<part, notificationVars, scheduleVars, durableVars, maintenanceVars, outcomeVars,
                      admissionVars>>
    \/ /\ part = "notifications" /\ NotificationNext
       /\ UNCHANGED <<part, overloadVars, scheduleVars, durableVars, maintenanceVars, outcomeVars,
                      admissionVars>>
    \/ /\ part = "schedules" /\ ScheduleNext
       /\ UNCHANGED <<part, overloadVars, notificationVars, durableVars, maintenanceVars, outcomeVars,
                      admissionVars>>
    \/ /\ part = "calls" /\ DurableNext
       /\ UNCHANGED <<part, overloadVars, notificationVars, scheduleVars, maintenanceVars, outcomeVars,
                      admissionVars>>
    \/ /\ part = "maintenance" /\ MaintenanceNext
       /\ UNCHANGED <<part, overloadVars, notificationVars, scheduleVars, durableVars, outcomeVars,
                      admissionVars>>
    \/ /\ part = "outcomes" /\ Prepare
       /\ UNCHANGED <<part, overloadVars, notificationVars, scheduleVars, durableVars, maintenanceVars,
                      admissionVars>>
    \/ /\ part = "retries" /\ FailsAgain
       /\ UNCHANGED <<part, overloadVars, notificationVars, scheduleVars, durableVars, maintenanceVars,
                      admissionVars>>
    \/ /\ part = "admission" /\ AdmissionNext
       /\ UNCHANGED <<part, overloadVars, notificationVars, scheduleVars, durableVars, maintenanceVars,
                      outcomeVars>>

\* The fairness of the part that moves; the others are not to take a step.
Fairness ==
    /\ WF_overloadVars(part = "overload" /\ Observe)
    /\ WF_overloadVars(part = "overload" /\ ApplyDecision)
    /\ WF_notificationVars(part = "notifications" /\ HubStep)
    /\ WF_notificationVars(part = "notifications" /\ ListenerStep)
    /\ WF_notificationVars(part = "notifications" /\ LoopStep)
    /\ WF_scheduleVars(part = "schedules" /\ \E w \in Scheduler : BeginSweep(w))
    /\ SF_scheduleVars(part = "schedules" /\ \E w \in Scheduler : ClaimDueSchedules(w))
    /\ SF_scheduleVars(part = "schedules" /\ \E w \in Scheduler : MaterializeAll(w))
    /\ WF_maintenanceVars(part = "maintenance" /\ SweepTick)
    /\ WF_maintenanceVars(part = "maintenance" /\ \E handled \in 0..BatchLimit : DrainBatch(handled))
    /\ \A d \in Drain : SF_maintenanceVars(part = "maintenance" /\ at = d /\ FullBatch)

Spec == Init /\ [][Next]_vars /\ Fairness
===============================================================================
