----------------------------- MODULE Notifications -----------------------------
(***************************************************************************)
(* How a process learns that something happened in the database: the       *)
(* notification hub (one LISTEN connection for all its listeners), the     *)
(* broadcast channel from the hub to a listener, and the two consumers of  *)
(* a listener.  A "waiter" is a call of wait_for_task_result; the event is *)
(* that the task ends.  A "worker" is listen_for_ready with one of the     *)
(* loops it wakes, the claim loop or the scheduler; the event is that      *)
(* there is work for the loop.                                             *)
(*                                                                         *)
(* PostgreSQL delivers a notification to the connections that listen when  *)
(* the transaction commits; the connection may break at any moment, and    *)
(* what was on the wire is lost.  The broadcast channel holds Capacity     *)
(* events (1024 in the code) and overwrites the oldest.                    *)
(***************************************************************************)
EXTENDS Naturals, Sequences

CONSTANTS
    Capacity,  \* of the broadcast channel
    MaxWire    \* bound: notifications on the wire

ASSUME NotificationAssumption == Capacity \in Nat \ {0} /\ MaxWire \in Nat \ {0}

VARIABLES
    role,     \* which consumer
    event,    \* "no", "yes" or, for a task that retention deleted, "gone"
    conn,     \* the hub's connection: "off", "on" or "broken" and not yet noticed
    known,    \* the hub has the channel among those it listens to
    wire,     \* notifications sent on the connection, not yet read
    rx,       \* the listener's part of the broadcast channel
    dropped,  \* an event was overwritten before the listener read it
    phase,    \* of the listener
    loop,     \* of the worker's loop
    permit    \* the permit that Notify::notify_one stores

notificationVars == <<role, event, conn, known, wire, rx, dropped, phase, loop, permit>>

\* A listener: none (the call returned, or the worker is about to subscribe
\* again), a command sent to the hub, the hub's answer, recv, and a wake-up that
\* the waiter answers by reading the task again.
Phase == {"idle", "subscribing", "confirmed", "waiting", "woken"}

-------------------------------------------------------------------------------
(* The database. *)

Sent(n) ==
    wire' = IF conn = "on" /\ known /\ Len(wire) < MaxWire THEN Append(wire, n) ELSE wire

\* notify_result_shard, notify_ready_shard: on commit.
Happens ==
    /\ event = "no"
    /\ conn = "on" => Len(wire) < MaxWire                             \* bound
    /\ event' = "yes"
    /\ Sent("mine")
    /\ UNCHANGED <<role, conn, known, rx, dropped, phase, loop, permit>>

\* A notification of the same shard that the listener's filter does not take.
OtherHappens ==
    /\ conn = "on" /\ known /\ Len(wire) < MaxWire                    \* bound
    /\ Sent("other")
    /\ UNCHANGED <<role, event, conn, known, rx, dropped, phase, loop, permit>>

DeletedByRetention ==
    /\ role = "waiter" /\ event = "yes"
    /\ event' = "gone"
    /\ UNCHANGED <<role, conn, known, wire, rx, dropped, phase, loop, permit>>

ConnectionBreaks ==
    /\ conn = "on"
    /\ conn' = "broken"
    /\ wire' = <<>>
    /\ UNCHANGED <<role, event, known, rx, dropped, phase, loop, permit>>

-------------------------------------------------------------------------------
(* The hub. *)

\* Mutant of Broadcast: the receiver is created when the first read is over.
BroadcastLate(e) ==
    /\ rx' = IF phase = "waiting" THEN Append(rx, e) ELSE rx
    /\ UNCHANGED dropped

\* events.send: only receivers that exist get it; a full one loses its oldest.
Broadcast(e) ==
    LET queue == Append(rx, e)
        lags == Len(queue) > Capacity
    IN  IF phase = "idle" THEN UNCHANGED <<rx, dropped>>
        ELSE /\ rx' = IF lags THEN Tail(queue) ELSE queue
             /\ dropped' = (dropped \/ lags)

\* A command: connect if there is no connection, listen to what is new.
HubAccepts ==
    /\ phase = "subscribing"
    /\ conn # "broken" \/ known
    /\ conn' = IF conn = "off" THEN "on" ELSE conn
    /\ known' = TRUE
    /\ phase' = IF role = "worker" THEN "waiting" ELSE "confirmed"
    /\ permit' = (permit \/ role = "worker")
    /\ UNCHANGED <<role, event, wire, rx, dropped, loop>>

\* It cannot connect, or cannot listen.  The channel stays in its set; a
\* connection that it had is given up and the other listeners are told.
HubRefuses ==
    /\ phase = "subscribing"
    /\ conn = "off" \/ ~known
    /\ conn' = "off"
    /\ known' = TRUE
    /\ wire' = <<>>
    /\ rx' = <<>>
    /\ phase' = "idle"
    /\ UNCHANGED <<role, event, dropped, loop, permit>>

HubReceives ==
    /\ conn = "on" /\ wire # <<>>
    /\ Broadcast(Head(wire))
    /\ wire' = Tail(wire)
    /\ UNCHANGED <<role, event, conn, known, phase, loop, permit>>

\* try_recv reconnects and listens again before it reports the lost connection.
HubReconnects ==
    /\ conn = "broken"
    /\ conn' = "on"
    /\ Broadcast("reconnected")
    /\ UNCHANGED <<role, event, known, wire, phase, loop, permit>>

HubGivesUp ==
    /\ conn = "broken"
    /\ conn' = "off"
    /\ Broadcast("disconnected")
    /\ UNCHANGED <<role, event, known, wire, phase, loop, permit>>

-------------------------------------------------------------------------------
(* A listener. *)

\* NotificationHub::subscribe: the receiver first, then the command.
HubSubscribe ==
    /\ rx' = <<>>
    /\ dropped' = FALSE
    /\ phase' = "subscribing"

\* ready_listener_for, result_listener.
Subscribe ==
    /\ phase = "idle"
    /\ HubSubscribe
    /\ UNCHANGED <<role, event, conn, known, wire, loop, permit>>

\* Mutant of WakesListener: a reconnection is not reported.
WakesUnlessReconnected(e) == e \in {"mine", "disconnected"}

\* What recv returns; it skips what the filter does not take, and that it lagged.
WakesListener(e) == e \in {"mine", "reconnected", "disconnected"}

\* A waiter reads the task again, except that a disconnection ends the call.
WaiterRecv ==
    /\ role = "waiter" /\ phase = "waiting" /\ rx # <<>>
    /\ rx' = Tail(rx)
    /\ phase' = CASE ~WakesListener(Head(rx)) -> phase
                  [] Head(rx) = "disconnected" -> "idle"
                  [] OTHER -> "woken"
    /\ UNCHANGED <<role, event, conn, known, wire, dropped, loop, permit>>

\* listen_for_ready: a reconnection is an error too, and it subscribes again.
ListenForReady ==
    /\ role = "worker" /\ phase = "waiting" /\ rx # <<>>
    /\ rx' = Tail(rx)
    /\ phase' = IF Head(rx) \in {"reconnected", "disconnected"} THEN "idle" ELSE phase
    /\ permit' = (permit \/ Head(rx) = "mine")
    /\ UNCHANGED <<role, event, conn, known, wire, dropped, loop>>

\* wait_for_task_result reads the task: after it subscribed, and when woken.  It
\* returns a task that ended, and that there is none.
ReadResult ==
    /\ phase \in {"confirmed", "woken"}
    /\ phase' = IF event = "no" THEN "waiting" ELSE "idle"
    /\ UNCHANGED <<role, event, conn, known, wire, rx, dropped, loop, permit>>

\* Its timeout, or an error of the read.
WaitGivenUp ==
    /\ role = "waiter" /\ phase \in {"waiting", "woken"}
    /\ phase' = "idle"
    /\ UNCHANGED <<role, event, conn, known, wire, rx, dropped, loop, permit>>

-------------------------------------------------------------------------------
(* The worker's loop: look for work, then sleep until a permit or a timer. *)

\* A statement that fails is repeated after a back-off: the loop looks until the
\* database has answered.
LoopLooks ==
    /\ role = "worker" /\ loop = "looking"
    /\ loop' = IF event = "yes" THEN "fed" ELSE "asleep"
    /\ UNCHANGED <<role, event, conn, known, wire, rx, dropped, phase, permit>>

LoopIsWoken ==
    /\ loop = "asleep" /\ permit
    /\ loop' = "looking"
    /\ permit' = FALSE
    /\ UNCHANGED <<role, event, conn, known, wire, rx, dropped, phase>>

\* Mutant of LoopTimesOut: the loop sleeps until it is woken.
LoopNeverTimesOut == FALSE /\ UNCHANGED notificationVars

\* The poll interval, the next deadline, or the back-off after an error.
LoopTimesOut ==
    /\ loop = "asleep"
    /\ loop' = "looking"
    /\ UNCHANGED <<role, event, conn, known, wire, rx, dropped, phase, permit>>

-------------------------------------------------------------------------------
NotificationInit ==
    /\ role \in {"waiter", "worker"}
    /\ event = "no"
    /\ conn = "off"
    /\ known = FALSE
    /\ wire = <<>>
    /\ rx = <<>>
    /\ dropped = FALSE
    /\ phase = "idle"
    /\ loop = "looking"
    /\ permit = FALSE

HubStep == HubAccepts \/ HubRefuses \/ HubReceives \/ HubReconnects \/ HubGivesUp

ListenerStep == WaiterRecv \/ ListenForReady \/ ReadResult

LoopStep == LoopLooks \/ LoopIsWoken \/ LoopTimesOut

NotificationNext ==
    \/ Happens \/ OtherHappens \/ DeletedByRetention \/ ConnectionBreaks
    \/ HubStep
    \/ Subscribe \/ ListenerStep \/ WaitGivenUp
    \/ LoopStep

\* The tasks of a live process run.  No timeout of a waiter is assumed.
NotificationFairness ==
    /\ WF_notificationVars(HubStep)
    /\ WF_notificationVars(ListenerStep)
    /\ WF_notificationVars(LoopStep)

NotificationSpec ==
    NotificationInit /\ [][NotificationNext]_notificationVars /\ NotificationFairness

-------------------------------------------------------------------------------
(* Properties. *)

\* Something that will make the listener look is on its way to it.
OnItsWay ==
    \/ conn = "broken"
    \/ \E i \in 1..Len(wire) : wire[i] = "mine"
    \/ \E i \in 1..Len(rx) : rx[i] \in {"mine", "reconnected", "disconnected"}

\* No wake-up is lost between the read and the sleep: a listener that waits, or
\* a loop that sleeps without a permit, although the event has happened, has a
\* notification, a reconnection or a disconnection on its way.  The exception is
\* an event that the broadcast channel overwrote, which recv skips silently.
WakeUpPending ==
    event # "no" /\ phase = "waiting" /\ ~dropped =>
        \/ OnItsWay
        \/ role = "worker" /\ (permit \/ loop # "asleep")

\* A waiter without a timeout returns once the task has ended, over any sequence
\* of lost connections, unless an event was overwritten.
ResultWaitEnds ==
    (role = "waiter" /\ phase = "waiting" /\ event # "no") ~> (phase # "waiting" \/ dropped)

\* Work is found whatever happens to the notifications.
WorkIsFound == (role = "worker" /\ event = "yes") ~> (loop = "fed")
===============================================================================
