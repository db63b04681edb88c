---------------------------- MODULE TaskKernelWaits ----------------------------
(***************************************************************************)
(* The wait protocol for every number of tasks, steps and signals: a task  *)
(* is parked exactly while one of its waits is open, what that wait waits  *)
(* for is still to come, and a wait that completed left its checkpoint.    *)
(* WaitInv joins the three: an event wakes its task because the task of an *)
(* open wait is waiting, and leaves no other wait open because there is no *)
(* other.                                                                  *)
(***************************************************************************)
EXTENDS TaskKernelMoves

WaitInv ==
    /\ TypeOK
    /\ ParkedOnOneWait
    /\ WakeupStillToCome
    /\ CompletedWaitIsRecorded

IsOpen(t, s) == wait[t][s].outcome = "open"

\* The conjuncts of WaitInv for one task, and for one of its steps.
Parked(t) ==
    /\ task[t].state = "waiting" <=> \E s \in Step : IsOpen(t, s)
    /\ \A s, p \in Step : IsOpen(t, s) /\ IsOpen(t, p) => s = p

StillToCome(t, s) ==
    /\ checkpoint[t][s] = Nothing
    /\ Kind[s] = "signal" => signal[t][wait[t][s].on] = Nothing
    /\ Kind[s] = "result" =>
           Outstanding(wait[t][s].on) /\ task[wait[t][s].on].parent = t

Told(t, s) ==
    wait[t][s].outcome \in {"signal", "timeout", "succeeded", "failed"}
        => checkpoint[t][s] # Nothing

\* WaitInv is the conjunction of its parts over the tasks and steps.
LEMMA WaitByTask ==
    WaitInv <=> /\ TypeOK
                /\ \A t \in Task : Parked(t)
                /\ \A t \in Task, s \in Step :
                       (IsOpen(t, s) => StillToCome(t, s)) /\ Told(t, s)
BY DEF WaitInv, ParkedOnOneWait, WakeupStillToCome, CompletedWaitIsRecorded,
       Parked, IsOpen, StillToCome, Told

\* The same of the next state.
LEMMA WaitByTaskNext ==
    ASSUME TypeOK',
           \A t \in Task : Parked(t)',
           \A t \in Task, s \in Step : IsOpen(t, s)' => StillToCome(t, s)',
           \A t \in Task, s \in Step : Told(t, s)'
    PROVE  WaitInv'
BY DEF WaitInv, ParkedOnOneWait, WakeupStillToCome, CompletedWaitIsRecorded,
       Parked, IsOpen, StillToCome, Told

\* A wait row, and an open one, name what they wait for.
LEMMA WaitFacts ==
    ASSUME TypeOK, NEW t \in Task, NEW s \in Step
    PROVE  /\ wait[t][s] \in WaitRow
           /\ IsOpen(t, s) => wait[t][s].on \in WaitTarget(Kind[s])
           /\ IsOpen(t, s) => Kind[s] \in {"signal", "result"}
           /\ IsOpen(t, s) /\ Kind[s] = "result" => wait[t][s].on \in Task
           /\ IsOpen(t, s) /\ Kind[s] = "signal" => wait[t][s].on \in Signal
<1>1. wait[t][s] \in WaitRow /\ Fits(wait[t][s], Kind[s])
  BY DEF TypeOK
<1>2. IsOpen(t, s) => wait[t][s].on \in WaitTarget(Kind[s])
  BY <1>1 DEF Fits, IsOpen
<1> QED
  BY <1>1, <1>2 DEF WaitTarget

\* A step that parks and wakes nobody, ends nobody, resolves no wait and writes
\* no checkpoint where a wait is open keeps WaitInv.
LEMMA QuietStep ==
    ASSUME WaitInv, TypeOK',
           \A u \in Task : task'[u].state = "waiting" <=> task[u].state = "waiting",
           \A u \in Task : Outstanding(u) =>
               Outstanding(u)' /\ task'[u].parent = task[u].parent,
           \A u \in Task, s \in Step :
               \/ wait'[u][s] = wait[u][s]
               \/ ~IsOpen(u, s) /\ wait'[u][s] = NoWait,
           \A u \in Task, s \in Step : IsOpen(u, s) =>
               checkpoint'[u][s] = checkpoint[u][s] /\ signal'[u] = signal[u],
           \A u \in Task, s \in Step : checkpoint[u][s] # Nothing =>
               checkpoint'[u][s] # Nothing \/ wait'[u][s] = NoWait
    PROVE  WaitInv'
<1>0. NoWait.outcome = "absent"
  BY DEF NoWait
<1>1. \A u \in Task, s \in Step :
          /\ IsOpen(u, s)' <=> IsOpen(u, s)
          /\ IsOpen(u, s) => wait'[u][s] = wait[u][s]
  BY <1>0 DEF IsOpen
<1>2. ASSUME NEW u \in Task PROVE Parked(u)'
  BY <1>1, WaitByTask DEF Parked
<1>3. ASSUME NEW u \in Task, NEW s \in Step, IsOpen(u, s)' PROVE StillToCome(u, s)'
  <2>1. IsOpen(u, s) /\ StillToCome(u, s) /\ wait'[u][s] = wait[u][s]
    BY <1>1, <1>3, WaitByTask
  <2>2. Kind[s] = "result" => wait[u][s].on \in Task
    BY <2>1, WaitFacts DEF WaitInv
  <2> QED
    BY <2>1, <2>2 DEF StillToCome
<1>4. ASSUME NEW u \in Task, NEW s \in Step PROVE Told(u, s)'
  BY <1>0, WaitByTask DEF Told
<1> QED
  BY <1>2, <1>3, <1>4, WaitByTaskNext

\* The task of an open wait is waiting, and has no other.
LEMMA OpenFacts ==
    ASSUME WaitInv, NEW t \in Task, NEW s \in Step, IsOpen(t, s)
    PROVE  /\ task[t].state = "waiting"
           /\ \A p \in Step : IsOpen(t, p) => p = s
           /\ StillToCome(t, s)
BY WaitByTask DEF Parked

\* A row may change in a step that writes no checkpoint of an open wait, if the
\* task is neither parked before nor after, and stays outstanding if it was.
LEMMA QuietRow ==
    ASSUME WaitInv, TypeOK', NEW t \in Task, NEW row,
           task' = [task EXCEPT ![t] = row],
           task[t].state = "waiting" <=> row.state = "waiting",
           Outstanding(t) => row.state \in OutstandingState /\ row.parent = task[t].parent,
           UNCHANGED <<wait, signal>>,
           \A u \in Task, s \in Step :
               \/ checkpoint'[u][s] = checkpoint[u][s]
               \/ ~IsOpen(u, s) /\ checkpoint'[u][s] # Nothing
    PROVE  WaitInv'
<1>1. \A u \in Task : task'[u] = IF u = t THEN row ELSE task[u]
  BY DEF WaitInv, TypeOK
<1>2. \A u \in Task : task'[u].state = "waiting" <=> task[u].state = "waiting"
  BY <1>1
<1>3. \A u \in Task : Outstanding(u) =>
          Outstanding(u)' /\ task'[u].parent = task[u].parent
  BY <1>1 DEF Outstanding
<1> QED
  BY <1>2, <1>3, QuietStep

\* A task may give up its lease for a while.
LEMMA QuietYield ==
    ASSUME WaitInv, TypeOK', NEW t \in Task, task[t].state = "running", NEW row, NEW end,
           Yield(t, row, end), row.state = "pending", row.parent = task[t].parent,
           UNCHANGED <<wait, signal>>,
           \A u \in Task, s \in Step :
               \/ checkpoint'[u][s] = checkpoint[u][s]
               \/ ~IsOpen(u, s) /\ checkpoint'[u][s] # Nothing
    PROVE  WaitInv'
BY QuietRow DEF Yield, OutstandingState

\* A wait that is opened by a running task for what is still to come keeps WaitInv.
LEMMA ParkKeeps ==
    ASSUME WaitInv, TypeOK', NEW t \in Task, NEW s \in Step, task[t].state = "running",
           NEW on, Park(t, s, on), checkpoint[t][s] = Nothing,
           Kind[s] = "signal" => signal[t][on] = Nothing,
           Kind[s] = "result" => on \in Task /\ Outstanding(on) /\ task[on].parent = t
    PROVE  WaitInv'
<1>1. PICK timed \in BOOLEAN :
          wait' = [wait EXCEPT ![t][s] = [on |-> on, timed |-> timed, outcome |-> "open"]]
  BY DEF Park
<1>2. \A u \in Task, p \in Step :
          wait'[u][p] = IF u = t /\ p = s
                        THEN [on |-> on, timed |-> timed, outcome |-> "open"]
                        ELSE wait[u][p]
  BY <1>1 DEF WaitInv, TypeOK
<1>3. \A u \in Task : task'[u] = IF u = t THEN Unleased(task[t], "waiting") ELSE task[u]
  BY DEF Park, Yield, WaitInv, TypeOK
<1>4. Unleased(task[t], "waiting").state = "waiting"
      /\ Unleased(task[t], "waiting").parent = task[t].parent
  BY UnleasedFields DEF WaitInv, TypeOK
<1>5. UNCHANGED <<checkpoint, signal>>
  BY DEF Park
<1>6. \A p \in Step : ~IsOpen(t, p)
  BY OpenFacts
<1>7. \A u \in Task, p \in Step :
          IsOpen(u, p)' <=> IsOpen(u, p) \/ (u = t /\ p = s)
  BY <1>2 DEF IsOpen
<1>8. ASSUME NEW u \in Task PROVE Parked(u)'
  <2>1. CASE u = t
    BY <1>3, <1>4, <1>6, <1>7, <2>1 DEF Parked
  <2>2. CASE u # t
    BY <1>3, <1>7, <2>2, WaitByTask DEF Parked
  <2> QED
    BY <2>1, <2>2
<1>9. \A u \in Task : Outstanding(u) => Outstanding(u)' /\ task'[u].parent = task[u].parent
  BY <1>3, <1>4 DEF Outstanding, OutstandingState
<1>10. ASSUME NEW u \in Task, NEW p \in Step, IsOpen(u, p)' PROVE StillToCome(u, p)'
  <2>1. CASE u = t /\ p = s
    BY <1>2, <1>5, <1>9, <2>1 DEF StillToCome
  <2>2. CASE ~(u = t /\ p = s)
    <3>1. IsOpen(u, p) /\ StillToCome(u, p) /\ wait'[u][p] = wait[u][p]
      BY <1>2, <1>7, <1>10, <2>2, WaitByTask
    <3>2. Kind[p] = "result" => wait[u][p].on \in Task
      BY <3>1, WaitFacts DEF WaitInv
    <3> QED
      BY <1>5, <1>9, <3>1, <3>2 DEF StillToCome
  <2> QED
    BY <2>1, <2>2
<1>11. ASSUME NEW u \in Task, NEW p \in Step PROVE Told(u, p)'
  BY <1>2, <1>5, WaitByTask DEF Told
<1> QED
  BY <1>8, <1>10, <1>11, WaitByTaskNext

\* An event that resolves open waits of its task keeps WaitInv: there is one at
\* most, the task is waiting for it, and it is recorded.
LEMMA WakeKeeps ==
    ASSUME WaitInv, TypeOK', NEW t \in Task, NEW steps \in SUBSET Step,
           \A s \in steps : IsOpen(t, s),
           NEW value, value # Nothing, NEW outcome \in {"signal", "timeout"},
           Wake(t, steps, value, outcome),
           \A u \in Task \ {t} : signal'[u] = signal[u],
           \A s \in Step \ steps : IsOpen(t, s) /\ Kind[s] = "signal" =>
               signal'[t][wait[t][s].on] = Nothing
    PROVE  WaitInv'
<1>1. /\ \A u \in Task, s \in Step :
             /\ checkpoint'[u][s] = IF u = t /\ s \in steps
                                    THEN Recorded(checkpoint[u][s], value)
                                    ELSE checkpoint[u][s]
             /\ wait'[u][s] = IF u = t /\ s \in steps
                              THEN Closed(wait[u][s], outcome) ELSE wait[u][s]
  BY DEF Wake, WaitInv, TypeOK
<1>2. \A u \in Task : task'[u] = IF u = t /\ steps # {} /\ task[u].state = "waiting"
                                 THEN WokenRow(task[u]) ELSE task[u]
  BY DEF Wake, WaitInv, TypeOK
<1>3. \A u \in Task : WokenRow(task[u]).state = "pending"
                      /\ WokenRow(task[u]).parent = task[u].parent
  BY WokenFields DEF WaitInv, TypeOK
<1>4. \A u \in Task : Outstanding(u) => Outstanding(u)' /\ task'[u].parent = task[u].parent
  BY <1>2, <1>3 DEF Outstanding, OutstandingState
<1>5. \A s \in Step : Closed(wait[t][s], outcome).outcome # "open"
  BY ClosedType DEF WaitInv, TypeOK
<1>6. \A u \in Task, s \in Step :
          IsOpen(u, s)' <=> IsOpen(u, s) /\ ~(u = t /\ s \in steps)
  BY <1>1, <1>5 DEF IsOpen
<1>7. ASSUME NEW u \in Task PROVE Parked(u)'
  <2>1. CASE u = t /\ steps # {}
    <3>1. PICK s \in steps : IsOpen(t, s)
      BY <2>1
    <3>2. /\ task[t].state = "waiting"
          /\ \A p \in Step : IsOpen(t, p) => p = s
      BY <3>1, OpenFacts
    <3>3. task'[t].state = "pending"
      BY <1>2, <1>3, <2>1, <3>2
    <3> QED
      BY <1>6, <2>1, <3>2, <3>3 DEF Parked
  <2>2. CASE ~(u = t /\ steps # {})
    BY <1>2, <1>6, <2>2, WaitByTask DEF Parked
  <2> QED
    BY <2>1, <2>2
<1>8. ASSUME NEW u \in Task, NEW s \in Step, IsOpen(u, s)' PROVE StillToCome(u, s)'
  <2>1. /\ IsOpen(u, s) /\ StillToCome(u, s) /\ ~(u = t /\ s \in steps)
        /\ wait'[u][s] = wait[u][s] /\ checkpoint'[u][s] = checkpoint[u][s]
    BY <1>1, <1>6, <1>8, WaitByTask
  <2>2. Kind[s] = "result" => wait[u][s].on \in Task
    BY <2>1, WaitFacts DEF WaitInv
  <2>3. Kind[s] = "signal" => signal'[u][wait[u][s].on] = Nothing
    BY <2>1 DEF StillToCome
  <2> QED
    BY <1>4, <2>1, <2>2, <2>3 DEF StillToCome
<1>9. ASSUME NEW u \in Task, NEW s \in Step PROVE Told(u, s)'
  <2>1. Told(u, s)
    BY WaitByTask
  <2> QED
    BY <1>1, <2>1 DEF Told, Recorded
<1> QED
  BY <1>7, <1>8, <1>9, WaitByTaskNext

\* The tasks that end with t include the outstanding children of each of them.
LEMMA OwnedParent ==
    ASSUME TypeOK, NEW t \in Task, NEW u \in Owned(t), NEW v \in Task,
           task[u].parent = v, v # t
    PROVE  v \in Owned(t)
BY OwnedFacts

\* The end of a task keeps WaitInv: its own waits and those of the tasks that
\* end with it are closed; nobody else waits for one of those, and the parent
\* that waits for it is woken with its end.
LEMMA FinishKeeps ==
    ASSUME WaitInv, TypeOK', NEW t \in Task, NEW row, NEW log, Finish(t, row, log),
           row.state \in TerminalState
    PROVE  WaitInv'
<1> DEFINE gone == Owned(t) \ {t}
           ended == gone \cup {t}
           Resolved(u, s) == u \notin ended /\ Awaits(u, t) /\ OpenOn(u, s, t)
<1>0. TypeOK /\ row.state # Nothing /\ row.state # "waiting"
  BY KernelAssumption DEF WaitInv, TerminalState
<1>1. /\ \A u \in Task, s \in Step :
             /\ checkpoint'[u][s] = IF Resolved(u, s)
                                    THEN Recorded(checkpoint[u][s], row.state)
                                    ELSE checkpoint[u][s]
             /\ wait'[u][s] = IF u \in ended THEN EndedWait(u, s)
                              ELSE IF Resolved(u, s) THEN Closed(wait[u][s], row.state)
                              ELSE wait[u][s]
  BY DEF Finish
<1>2. /\ \A u \in Task : u \in ended => task'[u].state \in TerminalState
      /\ \A u \in Task : u \notin ended =>
             task'[u] = IF Awaits(u, t) THEN WokenRow(task[u]) ELSE task[u]
  <2>1. \A u \in gone : task'[u] = CancelledRow(task[u]) /\ u \in Task
    BY <1>0, OwnedFacts DEF Finish
  <2>2. \A u \in gone : task'[u].state = "cancelled"
    BY <1>0, <2>1, CancelledFields DEF TypeOK
  <2>3. task'[t] = row
    BY DEF Finish
  <2> QED
    BY <2>2, <2>3 DEF Finish, TerminalState
<1>3. UNCHANGED signal
  BY DEF Finish
<1>4. ASSUME NEW u \in Task, NEW s \in Step, IsOpen(u, s), Kind[s] = "result",
             u \notin ended, wait[u][s].on \in ended
      PROVE  Resolved(u, s)
  <2>1. task[u].state = "waiting" /\ task[wait[u][s].on].parent = u
    BY <1>4, OpenFacts DEF StillToCome
  <2>2. wait[u][s].on \notin Owned(t)
    BY <1>0, <1>4, <2>1, OwnedParent
  <2> QED
    BY <1>4, <2>1, <2>2 DEF Awaits, OpenOn, IsOpen
<1> HIDE DEF ended, gone
<1>5. /\ \A u \in Task, s \in Step : EndedWait(u, s).outcome # "open"
      /\ \A u \in Task, s \in Step : Closed(wait[u][s], row.state).outcome # "open"
  BY <1>0, EndedWaitType, ClosedType DEF TypeOK
<1>6. \A u \in Task, s \in Step :
          IsOpen(u, s)' <=> IsOpen(u, s) /\ u \notin ended /\ ~Resolved(u, s)
  <2> HIDE DEF Resolved
  <2> QED
    BY <1>1, <1>5 DEF IsOpen
<1>7. \A u \in Task : WokenRow(task[u]).state = "pending"
                      /\ WokenRow(task[u]).parent = task[u].parent
  BY <1>0, WokenFields DEF TypeOK
<1>8. ASSUME NEW u \in Task PROVE Parked(u)'
  <2>1. CASE u \in ended
    BY <1>2, <1>6, <2>1 DEF Parked, TerminalState
  <2>2. CASE u \notin ended /\ Awaits(u, t)
    <3>1. PICK s \in Step : OpenOn(u, s, t)
      BY <2>2 DEF Awaits
    <3>2. \A p \in Step : IsOpen(u, p) => p = s
      BY <3>1, OpenFacts DEF OpenOn, IsOpen
    <3>3. Resolved(u, s) /\ task'[u].state = "pending"
      BY <1>2, <1>7, <2>2, <3>1
    <3> HIDE DEF Resolved
    <3> QED
      BY <1>6, <3>2, <3>3 DEF Parked
  <2>3. CASE u \notin ended /\ ~Awaits(u, t)
    BY <1>2, <1>6, <2>3, WaitByTask DEF Parked
  <2> QED
    BY <2>1, <2>2, <2>3
<1>9. \A u \in Task : Outstanding(u) /\ u \notin ended =>
          Outstanding(u)' /\ task'[u].parent = task[u].parent
  BY <1>2, <1>7 DEF Outstanding, OutstandingState
<1>10. ASSUME NEW u \in Task, NEW s \in Step, IsOpen(u, s)' PROVE StillToCome(u, s)'
  <2> HIDE DEF Resolved
  <2>1. /\ IsOpen(u, s) /\ StillToCome(u, s)
        /\ wait'[u][s] = wait[u][s] /\ checkpoint'[u][s] = checkpoint[u][s]
    BY <1>1, <1>6, <1>10, WaitByTask
  <2>2. Kind[s] = "result" => wait[u][s].on \in Task /\ wait[u][s].on \notin ended
    BY <1>0, <1>4, <1>6, <1>10, <2>1, WaitFacts
  <2> QED
    BY <1>3, <1>9, <2>1, <2>2 DEF StillToCome
<1>11. ASSUME NEW u \in Task, NEW s \in Step PROVE Told(u, s)'
  <2> HIDE DEF Resolved
  <2>1. Told(u, s)
    BY WaitByTask
  <2>2. IsOpen(u, s) => EndedWait(u, s).outcome = "cancelled"
    BY <1>0, ClosedType DEF TypeOK, EndedWait, IsOpen, TerminalState
  <2>3. ~IsOpen(u, s) => EndedWait(u, s) = wait[u][s]
    BY DEF EndedWait, Closed, IsOpen
  <2>4. CASE u \in ended
    <3>1. checkpoint'[u][s] = checkpoint[u][s] /\ wait'[u][s] = EndedWait(u, s)
      BY <1>1, <2>4 DEF Resolved
    <3> QED
      BY <2>1, <2>2, <2>3, <3>1 DEF Told
  <2>5. CASE u \notin ended
    BY <1>0, <1>1, <2>1, <2>5 DEF Told, Recorded
  <2> QED
    BY <2>4, <2>5
<1> QED
  BY <1>8, <1>10, <1>11, WaitByTaskNext

\* A result wait that times out ends its child with all that the child owns;
\* what the child owns is awaited by nobody else.
LEMMA ResultTimeoutKeeps ==
    ASSUME WaitInv, TypeOK', NEW t \in Task, NEW s \in Step, RecoverResultWaitTimeout(t, s)
    PROVE  WaitInv'
<1>0. TypeOK /\ "timeout" # Nothing
  BY KernelAssumption DEF WaitInv
<1>1. /\ IsOpen(t, s) /\ Kind[s] = "result" /\ task[t].state = "waiting"
      /\ \A p \in Step : IsOpen(t, p) => p = s
      /\ StillToCome(t, s)
  BY OpenFacts DEF RecoverResultWaitTimeout, TimedOut, IsOpen
<1>2. PICK child \in Task :
          child = wait[t][s].on /\ Outstanding(child) /\ task[child].parent = t
  BY <1>0, <1>1, WaitFacts DEF StillToCome
<1> DEFINE gone == Owned(child) \cup {child}
<1>3. /\ \A u \in Task : task'[u] = IF u \in gone THEN CancelledRow(task[u])
                                   ELSE IF u = t THEN WokenRow(task[t]) ELSE task[u]
      /\ \A u \in Task, p \in Step :
             /\ wait'[u][p] = IF u = t /\ p = s THEN Closed(wait[u][p], "timeout")
                              ELSE IF u \in gone THEN EndedWait(u, p) ELSE wait[u][p]
             /\ checkpoint'[u][p] = IF u = t /\ p = s
                                    THEN Recorded(checkpoint[u][p], "timeout")
                                    ELSE checkpoint[u][p]
      /\ UNCHANGED signal
  BY <1>0, <1>1, <1>2 DEF RecoverResultWaitTimeout, TypeOK
<1>4. ASSUME NEW u \in Task, NEW p \in Step, IsOpen(u, p), Kind[p] = "result",
             wait[u][p].on \in gone, u \notin gone
      PROVE  u = t
  <2>1. task[wait[u][p].on].parent = u
    BY <1>4, OpenFacts DEF StillToCome
  <2>2. wait[u][p].on = child
    BY <1>0, <1>4, <2>1, OwnedParent
  <2> QED
    BY <1>2, <2>1, <2>2
<1>5. /\ \A u \in Task : CancelledRow(task[u]).state = "cancelled"
      /\ \A u \in Task : WokenRow(task[u]).state = "pending"
                         /\ WokenRow(task[u]).parent = task[u].parent
  BY <1>0, CancelledFields, WokenFields DEF TypeOK
<1> HIDE DEF gone
<1>6. \A u \in Task, p \in Step :
          /\ EndedWait(u, p).outcome # "open"
          /\ Closed(wait[u][p], "timeout").outcome # "open"
  BY <1>0, EndedWaitType, ClosedType DEF TypeOK
<1>7. \A u \in Task, p \in Step :
          IsOpen(u, p)' <=> IsOpen(u, p) /\ u \notin gone /\ u # t
  BY <1>1, <1>3, <1>6 DEF IsOpen
<1>8. ASSUME NEW u \in Task PROVE Parked(u)'
  <2>1. CASE u \in gone \/ u = t
    BY <1>3, <1>5, <1>7, <2>1 DEF Parked
  <2>2. CASE ~(u \in gone \/ u = t)
    BY <1>3, <1>7, <2>2, WaitByTask DEF Parked
  <2> QED
    BY <2>1, <2>2
<1>9. \A u \in Task : Outstanding(u) /\ u \notin gone =>
          Outstanding(u)' /\ task'[u].parent = task[u].parent
  BY <1>3, <1>5 DEF Outstanding, OutstandingState
<1>10. ASSUME NEW u \in Task, NEW p \in Step, IsOpen(u, p)' PROVE StillToCome(u, p)'
  <2>1. /\ IsOpen(u, p) /\ StillToCome(u, p) /\ u # t
        /\ wait'[u][p] = wait[u][p] /\ checkpoint'[u][p] = checkpoint[u][p]
    BY <1>3, <1>7, <1>10, WaitByTask
  <2>2. Kind[p] = "result" => wait[u][p].on \in Task /\ wait[u][p].on \notin gone
    BY <1>0, <1>4, <1>7, <1>10, <2>1, WaitFacts
  <2> QED
    BY <1>3, <1>9, <2>1, <2>2 DEF StillToCome
<1>11. ASSUME NEW u \in Task, NEW p \in Step PROVE Told(u, p)'
  <2>1. Told(u, p)
    BY WaitByTask
  <2>2. IsOpen(u, p) => EndedWait(u, p).outcome = "cancelled"
    BY <1>0, ClosedType DEF TypeOK, EndedWait, IsOpen, TerminalState
  <2>3. ~IsOpen(u, p) => EndedWait(u, p) = wait[u][p]
    BY DEF EndedWait, Closed, IsOpen
  <2>4. CASE u = t /\ p = s
    BY <1>0, <1>3, <2>4 DEF Told, Recorded
  <2>5. CASE ~(u = t /\ p = s)
    BY <1>3, <2>1, <2>2, <2>3, <2>5 DEF Told
  <2> QED
    BY <2>4, <2>5
<1> QED
  BY <1>8, <1>10, <1>11, WaitByTaskNext

\* The state and the owner of the rows that the calls write.
LEMMA WrittenRows ==
    ASSUME NEW r \in TaskRow, NEW st, NEW x, NEW y
    PROVE  /\ [Unleased(r, st) EXCEPT !.runAt = x].state = st
           /\ [Unleased(r, st) EXCEPT !.runAt = x].parent = r.parent
           /\ [Unleased(r, st) EXCEPT !.result = x].state = st
           /\ [Unleased(r, st) EXCEPT !.failed = x].state = st
           /\ [[Unleased(r, st) EXCEPT !.failed = x] EXCEPT !.runAt = y].state = st
           /\ [[Unleased(r, st) EXCEPT !.failed = x] EXCEPT !.runAt = y].parent = r.parent
           /\ [Unleased(r, st) EXCEPT !.runAt = "due", !.max = x,
                                      !.cancelRequested = FALSE, !.result = 0].state = st
           /\ [r EXCEPT !.runAt = x].state = r.state
           /\ [r EXCEPT !.runAt = x].parent = r.parent
           /\ [r EXCEPT !.expired = x].state = r.state
           /\ [r EXCEPT !.expired = x].parent = r.parent
           /\ [r EXCEPT !.state = st, !.attempt = x, !.token = x, !.expired = FALSE].state = st
           /\ [r EXCEPT !.state = st, !.attempt = x, !.token = x, !.expired = FALSE].parent
                  = r.parent
BY DEF TaskRow, Unleased

\* A charged attempt keeps WaitInv, retried or not.
LEMMA ChargeKeeps ==
    ASSUME WaitInv, TypeOK', NEW t \in Task, task[t].state = "running", NEW retry, NEW end,
           Charge(t, retry, end)
    PROVE  WaitInv'
<1> DEFINE failures == task[t].failed + 1
           charged(st) == [Unleased(task[t], st) EXCEPT !.failed = failures]
<1>1. task[t] \in TaskRow
  BY DEF WaitInv, TypeOK
<1>2. /\ charged("failed").state = "failed"
      /\ [charged("pending") EXCEPT !.runAt = retry].state = "pending"
      /\ [charged("pending") EXCEPT !.runAt = retry].parent = task[t].parent
  <2> HIDE DEF failures
  <2> QED
    BY <1>1, WrittenRows
<1>3. \/ /\ Yield(t, [charged("pending") EXCEPT !.runAt = retry], end)
         /\ UNCHANGED <<checkpoint, wait, signal, ahead, inflight>>
      \/ Finish(t, charged("failed"), EndAttempt(t, end))
  BY DEF Charge
<1> HIDE DEF charged
<1>4. CASE /\ Yield(t, [charged("pending") EXCEPT !.runAt = retry], end)
           /\ UNCHANGED <<checkpoint, wait, signal, ahead, inflight>>
  BY <1>2, <1>4, QuietYield
<1>5. CASE Finish(t, charged("failed"), EndAttempt(t, end))
  BY <1>2, <1>5, FinishKeeps DEF TerminalState
<1> QED
  BY <1>3, <1>4, <1>5

\* Inserting a task keeps WaitInv, if checkpoints are written at closed waits.
LEMMA InsertKeeps ==
    ASSUME WaitInv, TypeOK', NEW t \in Task, NEW runAt, NEW parent,
           Insert(t, runAt, parent), UNCHANGED <<wait, signal>>,
           \A u \in Task, s \in Step :
               \/ checkpoint'[u][s] = checkpoint[u][s]
               \/ ~IsOpen(u, s) /\ checkpoint'[u][s] # Nothing
    PROVE  WaitInv'
<1> DEFINE row == [NoTask EXCEPT !.state = "pending", !.runAt = runAt, !.parent = parent]
<1>1. row.state = "pending"
  BY DEF NoTask
<1>2. task' = [task EXCEPT ![t] = row] /\ task[t].state = "absent"
  BY DEF Insert
<1> HIDE DEF row
<1> QED
  BY <1>1, <1>2, QuietRow DEF Outstanding, OutstandingState

\* Every action keeps WaitInv.
LEMMA WaitStep == WaitInv /\ [Next]_vars => WaitInv'
<1> SUFFICES ASSUME WaitInv, [Next]_vars PROVE WaitInv'
  OBVIOUS
<1>0. TypeOK /\ TypeOK' /\ \A t \in Task : task[t] \in TaskRow
  BY TypeStep DEF WaitInv, TypeOK
<1>1. ASSUME NEW t \in Task, Enqueue(t) PROVE WaitInv'
  BY <1>0, <1>1, InsertKeeps DEF Enqueue
<1>2. ASSUME NEW t \in Task, RunAtPasses(t) PROVE WaitInv'
  <2> DEFINE row == [task[t] EXCEPT !.runAt = "due"]
  <2>1. task' = [task EXCEPT ![t] = row] /\ UNCHANGED <<checkpoint, wait, signal>>
    BY <1>2 DEF RunAtPasses
  <2>2. row.state = task[t].state /\ row.parent = task[t].parent
    BY <1>0, WrittenRows
  <2> HIDE DEF row
  <2> QED
    BY <1>0, <2>1, <2>2, QuietRow DEF Outstanding
<1>3. CASE UNCHANGED <<task, checkpoint, wait, signal>>
  BY <1>0, <1>3, QuietStep DEF Outstanding
<1>4. ASSUME NEW t \in Task, NEW x, UNCHANGED <<checkpoint, wait, signal>>,
             task' = [task EXCEPT ![t] = [task[t] EXCEPT !.expired = x]]
      PROVE  WaitInv'
  <2> DEFINE row == [task[t] EXCEPT !.expired = x]
  <2>1. task' = [task EXCEPT ![t] = row]
    BY <1>4
  <2>2. row.state = task[t].state /\ row.parent = task[t].parent
    BY <1>0, WrittenRows
  <2> HIDE DEF row
  <2> QED
    BY <1>0, <1>4, <2>1, <2>2, QuietRow DEF Outstanding
<1>5. ASSUME NEW t \in Task, LeaseExpires(t) PROVE WaitInv'
  BY <1>4, <1>5 DEF LeaseExpires
<1>6. ASSUME NEW t \in Task, NEW n, RenewLease(t, n) PROVE WaitInv'
  BY <1>4, <1>6 DEF RenewLease
<1>7. ASSUME NEW t \in Task, Claim(t) PROVE WaitInv'
  <2> DEFINE n == task[t].attempt + 1
             row == [task[t] EXCEPT !.state = "running", !.attempt = n, !.token = n,
                                    !.expired = FALSE]
  <2>1. task' = [task EXCEPT ![t] = row] /\ task[t].state = "pending"
        /\ UNCHANGED <<checkpoint, wait, signal>>
    BY <1>7 DEF Claim
  <2>2. row.state = "running" /\ row.parent = task[t].parent
    <3> HIDE DEF n
    <3> QED
      BY <1>0, WrittenRows
  <2> HIDE DEF row
  <2> QED
    BY <1>0, <2>1, <2>2, QuietRow DEF OutstandingState
<1>8. ASSUME NEW t \in Task, NEW n, CompleteTask(t, n) PROVE WaitInv'
  <2>1. [Unleased(task[t], "succeeded") EXCEPT !.result = n].state = "succeeded"
    BY <1>0, WrittenRows
  <2> QED
    BY <1>0, <1>8, <2>1, FinishKeeps DEF CompleteTask, TerminalState
<1>9. ASSUME NEW t \in Task, NEW n, FailTask(t, n) PROVE WaitInv'
  BY <1>0, <1>9, ChargeKeeps DEF FailTask, Fence
<1>10. ASSUME NEW t \in Task, RecoverExpired(t) PROVE WaitInv'
  BY <1>0, <1>10, ChargeKeeps DEF RecoverExpired
<1>11. ASSUME NEW t \in Task, NEW n, ReleaseTask(t, n) PROVE WaitInv'
  <2> DEFINE row == [Unleased(task[t], "pending") EXCEPT !.runAt = "due"]
  <2>1. row.state = "pending" /\ row.parent = task[t].parent
    BY <1>0, WrittenRows
  <2>2. Yield(t, row, "released") /\ task[t].state = "running"
        /\ UNCHANGED <<checkpoint, wait, signal>>
    BY <1>11 DEF ReleaseTask, Fence
  <2> HIDE DEF row
  <2> QED
    BY <1>0, <2>1, <2>2, QuietYield
<1>12. ASSUME NEW w \in inflight, InsertCheckpoint(w) PROVE WaitInv'
  <2>1. w.task \in Task /\ w.step \in Step /\ Kind[w.step] = "step" /\ w.attempt \in Claims
    BY <1>0, <1>12 DEF TypeOK, Write
  <2>2. \A u \in Task, s \in Step :
            \/ checkpoint'[u][s] = checkpoint[u][s]
            \/ Kind[s] = "step" /\ checkpoint'[u][s] = Recorded(checkpoint[u][s], w.attempt)
    BY <1>0, <1>12, <2>1 DEF InsertCheckpoint, TypeOK
  <2>3. w.attempt # Nothing
    BY <2>1, KernelAssumption DEF Claims
  <2>4. \A u \in Task, s \in Step : IsOpen(u, s) => Kind[s] # "step"
    BY <1>0, WaitFacts
  <2>5. UNCHANGED <<task, wait, signal>>
    BY <1>12 DEF InsertCheckpoint
  <2> QED
    BY <1>0, <2>2, <2>3, <2>4, <2>5, QuietStep DEF Outstanding, Recorded
<1>13. ASSUME NEW t \in Task, NEW s \in Step, NEW v, task[t].state = "running",
              v # Nothing, checkpoint' = [checkpoint EXCEPT ![t][s] = v]
       PROVE  \A u \in Task, p \in Step :
                  \/ checkpoint'[u][p] = checkpoint[u][p]
                  \/ ~IsOpen(u, p) /\ checkpoint'[u][p] # Nothing
  <2>1. \A p \in Step : ~IsOpen(t, p)
    BY <1>13, OpenFacts
  <2>2. \A u \in Task, p \in Step :
            checkpoint'[u][p] = IF u = t /\ p = s THEN v ELSE checkpoint[u][p]
    BY <1>0, <1>13 DEF TypeOK
  <2> QED
    BY <1>13, <2>1, <2>2
<1>14. ASSUME NEW t \in Task, NEW n, NEW s \in Step, SuspendTask(t, n, s) PROVE WaitInv'
  <2> DEFINE row == [Unleased(task[t], "pending") EXCEPT !.runAt = s]
  <2>1. row.state = "pending" /\ row.parent = task[t].parent
    BY <1>0, WrittenRows
  <2>2. /\ Yield(t, row, "suspended") /\ task[t].state = "running"
        /\ checkpoint' = [checkpoint EXCEPT ![t][s] = "slept"]
        /\ UNCHANGED <<wait, signal>>
    BY <1>14 DEF SuspendTask, Fresh, Fence
  <2>3. "slept" # Nothing
    BY KernelAssumption
  <2> HIDE DEF row
  <2> QED
    BY <1>0, <1>13, <2>1, <2>2, <2>3, QuietYield
<1>15. ASSUME NEW t \in Task, NEW n, NEW s \in Step, NEW child \in Task,
              SpawnTask(t, n, s, child)
       PROVE  WaitInv'
  <2>1. /\ task[t].state = "running"
        /\ checkpoint' = [checkpoint EXCEPT ![t][s] = child]
        /\ UNCHANGED <<wait, signal>>
    BY <1>15 DEF SpawnTask, Fresh, Fence
  <2>2. PICK runAt \in RunAts : Insert(child, runAt, t)
    BY <1>15 DEF SpawnTask
  <2>3. child # Nothing
    BY KernelAssumption
  <2> QED
    BY <1>0, <1>13, <2>1, <2>2, <2>3, InsertKeeps
<1>16. ASSUME NEW t \in Task, NEW s \in Step, NEW v, task[t].state = "running",
              v # Nothing, Ready(t, s, v)
       PROVE  WaitInv'
  <2>1. \A u \in Task, p \in Step :
            \/ checkpoint'[u][p] = checkpoint[u][p]
            \/ ~IsOpen(u, p) /\ checkpoint'[u][p] # Nothing
    BY <1>13, <1>16 DEF Ready
  <2>2. UNCHANGED <<task, wait, signal>>
    BY <1>16 DEF Ready
  <2> QED
    BY <1>0, <2>1, <2>2, QuietStep DEF Outstanding
<1>17. ASSUME NEW t \in Task, NEW n, NEW s \in Step, NEW g \in Signal,
              WaitForSignal(t, n, s, g)
       PROVE  WaitInv'
  <2>1. task[t].state = "running" /\ checkpoint[t][s] = Nothing /\ Kind[s] = "signal"
    BY <1>17 DEF WaitForSignal, Fresh, Fence
  <2>2. CASE signal[t][g] # Nothing
    BY <1>16, <1>17, <2>1, <2>2 DEF WaitForSignal
  <2>3. CASE signal[t][g] = Nothing
    BY <1>0, <1>17, <2>1, <2>3, ParkKeeps DEF WaitForSignal
  <2> QED
    BY <2>2, <2>3
<1>18. ASSUME NEW t \in Task, NEW n, NEW s \in Step, NEW child \in Task,
              WaitForResult(t, n, s, child)
       PROVE  WaitInv'
  <2>1. /\ task[t].state = "running" /\ checkpoint[t][s] = Nothing /\ Kind[s] = "result"
        /\ Exists(child) /\ task[child].parent = t
    BY <1>18 DEF WaitForResult, Fresh, Fence
  <2>2. CASE Terminal(child)
    <3>1. task[child].state # Nothing
      BY <2>2, KernelAssumption DEF Terminal, TerminalState
    <3> QED
      BY <1>16, <1>18, <2>1, <2>2, <3>1 DEF WaitForResult
  <2>3. CASE ~Terminal(child)
    BY <1>0, <1>18, <2>1, <2>3, ParkKeeps DEF WaitForResult, Exists
  <2> QED
    BY <2>2, <2>3
<1>19. ASSUME NEW t \in Task, NEW g \in Signal, NEW v \in Value, EmitSignal(t, g, v)
       PROVE  WaitInv'
  <2> DEFINE value == Recorded(signal[t][g], v)
             matching == {s \in Step : /\ Kind[s] = "signal"
                                       /\ wait[t][s].outcome = "open"
                                       /\ wait[t][s].on = g}
  <2>1. /\ signal' = [signal EXCEPT ![t][g] = value]
        /\ Wake(t, matching, value, "signal")
    BY <1>19 DEF EmitSignal
  <2>2. value # Nothing
    BY KernelAssumption DEF Recorded
  <2>3. matching \in SUBSET Step /\ \A s \in matching : IsOpen(t, s)
    BY DEF IsOpen
  <2>4. \A s \in Step \ matching : IsOpen(t, s) /\ Kind[s] = "signal" =>
            wait[t][s].on \in Signal \ {g} /\ signal[t][wait[t][s].on] = Nothing
    BY <1>0, WaitFacts, OpenFacts DEF IsOpen, StillToCome
  <2> HIDE DEF value, matching
  <2>5. /\ \A u \in Task \ {t} : signal'[u] = signal[u]
        /\ \A h \in Signal \ {g} : signal'[t][h] = signal[t][h]
    BY <1>0, <2>1 DEF TypeOK
  <2>6. \A s \in Step \ matching : IsOpen(t, s) /\ Kind[s] = "signal" =>
            signal'[t][wait[t][s].on] = Nothing
    BY <2>4, <2>5
  <2> QED
    BY <1>0, <2>1, <2>2, <2>3, <2>5, <2>6, WakeKeeps
<1>20. ASSUME NEW t \in Task, NEW s \in Step, RecoverWaitTimeout(t, s) PROVE WaitInv'
  <2>1. IsOpen(t, s) /\ Wake(t, {s}, "timeout", "timeout") /\ signal' = signal
    BY <1>20 DEF RecoverWaitTimeout, TimedOut, IsOpen
  <2>2. \A p \in Step \ {s} : ~IsOpen(t, p)
    BY <2>1, OpenFacts
  <2>3. "timeout" # Nothing
    BY KernelAssumption
  <2> QED
    BY <1>0, <2>1, <2>2, <2>3, WakeKeeps
<1>21. ASSUME NEW t \in Task, NEW s \in Step, RecoverResultWaitTimeout(t, s)
       PROVE  WaitInv'
  BY <1>0, <1>21, ResultTimeoutKeeps
<1>22. ASSUME NEW t \in Task, CancelTask(t) PROVE WaitInv'
  <2>1. CancelledRow(task[t]).state = "cancelled"
    BY <1>0, CancelledFields
  <2> QED
    BY <1>0, <1>22, <2>1, FinishKeeps DEF CancelTask, TerminalState
<1>23. ASSUME NEW t \in Task, AdminRetryTask(t) PROVE WaitInv'
  <2> DEFINE m == RaisedMax(task[t])
             row == [Unleased(task[t], "pending") EXCEPT !.runAt = "due", !.max = m,
                                       !.cancelRequested = FALSE, !.result = 0]
  <2>1. /\ task' = [task EXCEPT ![t] = row] /\ task[t].state \in {"failed", "cancelled"}
        /\ UNCHANGED <<checkpoint, wait, signal>>
    BY <1>23 DEF AdminRetryTask
  <2>2. row.state = "pending"
    <3> HIDE DEF m
    <3> QED
      BY <1>0, WrittenRows
  <2> HIDE DEF row
  <2> QED
    BY <1>0, <2>1, <2>2, QuietRow DEF Outstanding, OutstandingState
<1>24. ASSUME NEW t \in Task, DeleteExpiredTerminal(t) PROVE WaitInv'
  <2>1. /\ \A u \in Task : task'[u] = IF u = t THEN [NoTask EXCEPT !.state = "deleted"]
                                      ELSE task[u]
        /\ \A u \in Task \ {t} : checkpoint'[u] = checkpoint[u] /\ signal'[u] = signal[u]
    BY <1>0, <1>24 DEF DeleteExpiredTerminal, TypeOK
  <2>2. [NoTask EXCEPT !.state = "deleted"].state = "deleted"
    BY DEF NoTask
  <2>3. ~Outstanding(t) /\ task[t].state # "waiting"
    BY <1>24 DEF DeleteExpiredTerminal, Terminal, Outstanding, TerminalState, OutstandingState
  <2>4. \A u \in Task, s \in Step :
            wait'[u][s] = IF u = t \/ (Kind[s] = "result" /\ wait[u][s].on = t)
                          THEN NoWait ELSE wait[u][s]
    BY <1>24 DEF DeleteExpiredTerminal
  <2>5. \A u \in Task, s \in Step :
            IsOpen(u, s) => u # t /\ ~(Kind[s] = "result" /\ wait[u][s].on = t)
    BY <2>3, OpenFacts DEF StillToCome
  <2>6. \A u \in Task, s \in Step :
            \/ wait'[u][s] = wait[u][s]
            \/ ~IsOpen(u, s) /\ wait'[u][s] = NoWait
    BY <2>4, <2>5
  <2>7. \A u \in Task : task'[u].state = "waiting" <=> task[u].state = "waiting"
    BY <2>1, <2>2, <2>3
  <2>8. \A u \in Task : Outstanding(u) =>
            Outstanding(u)' /\ task'[u].parent = task[u].parent
    BY <2>1, <2>3 DEF Outstanding
  <2>9. \A u \in Task, s \in Step : IsOpen(u, s) =>
            checkpoint'[u][s] = checkpoint[u][s] /\ signal'[u] = signal[u]
    BY <2>1, <2>5
  <2>10. \A u \in Task, s \in Step : checkpoint[u][s] # Nothing =>
             checkpoint'[u][s] # Nothing \/ wait'[u][s] = NoWait
    BY <2>1, <2>4
  <2> QED
    BY <1>0, <2>6, <2>7, <2>8, <2>9, <2>10, QuietStep
<1>25. ASSUME NEW t \in Task, NEW s \in Step, WakeAtPasses(t, s) PROVE WaitInv'
  BY <1>3, <1>25 DEF WakeAtPasses
<1>26. ASSUME NEW t \in Task, NEW n, NEW s \in Step, ReadCheckpointFence(t, n, s)
       PROVE  WaitInv'
  BY <1>3, <1>26 DEF ReadCheckpointFence
<1>27. CASE UNCHANGED vars
  BY <1>3, <1>27 DEF vars
<1> QED
  BY <1>1, <1>2, <1>5, <1>6, <1>7, <1>8, <1>9, <1>10, <1>11, <1>12, <1>14, <1>15, <1>17,
     <1>18, <1>19, <1>20, <1>21, <1>22, <1>23, <1>24, <1>25, <1>26, <1>27
  DEF Next, Clock, WorkerCall, HandlerCall, Maintenance, ClientCall

\* WaitInv is an invariant of the kernel.
LEMMA WaitAlways == Spec => []WaitInv
<1>1. Init => WaitInv
  <2> SUFFICES ASSUME Init PROVE WaitInv
    OBVIOUS
  <2>1. NoTask.state = "absent" /\ NoWait.outcome = "absent"
    BY DEF NoTask, NoWait
  <2>2. TypeOK
    BY TypeInit
  <2> QED
    BY <2>1, <2>2, WaitByTask DEF Init, Parked, IsOpen, StillToCome, Told
<1>2. WaitInv /\ [Next]_vars => WaitInv'
  BY WaitStep
<1> QED
  BY <1>1, <1>2, PTL DEF Spec

\* A task is parked exactly while one of its waits is open, and on one at most.
THEOREM ParkedOnOneWaitHolds == Spec => []ParkedOnOneWait
<1>1. WaitInv => ParkedOnOneWait
  BY DEF WaitInv
<1> QED
  BY <1>1, WaitAlways, PTL

\* No wake-up is lost: what an open wait waits for has not happened yet.
THEOREM WakeupStillToComeHolds == Spec => []WakeupStillToCome
<1>1. WaitInv => WakeupStillToCome
  BY DEF WaitInv
<1> QED
  BY <1>1, WaitAlways, PTL

\* A wait that completed left its checkpoint.
THEOREM CompletedWaitIsRecordedHolds == Spec => []CompletedWaitIsRecorded
<1>1. WaitInv => CompletedWaitIsRecorded
  BY DEF WaitInv
<1> QED
  BY <1>1, WaitAlways, PTL
===============================================================================
