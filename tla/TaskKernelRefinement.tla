-------------------------- MODULE TaskKernelRefinement -------------------------
(***************************************************************************)
(* The kernel implements LeasedWork.  A step in which every task stays or  *)
(* is woken is invisible; any other is led by one task (StepShape), whose  *)
(* move decides which abstract step it is, and the tasks cancelled with it *)
(* are the abstract step's gone.                                           *)
(***************************************************************************)
EXTENDS TaskKernelLedger

Epoch == [t \in Task |-> task[t].attempt]

Result == [t \in Task |-> task[t].result]

Same(u) ==
    Phase'[u] = Phase[u] /\ Epoch'[u] = Epoch[u] /\ Result'[u] = Result[u]

\* The abstract view of one task.
LEMMA PhaseOf ==
    ASSUME NEW u \in Task
    PROVE  /\ Phase[u] = IF task[u].state \in {"pending", "waiting"} THEN "idle"
                         ELSE IF task[u].state = "running" THEN "held"
                         ELSE task[u].state
           /\ Phase'[u] = IF task'[u].state \in {"pending", "waiting"} THEN "idle"
                          ELSE IF task'[u].state = "running" THEN "held"
                          ELSE task'[u].state
           /\ Epoch[u] = task[u].attempt /\ Epoch'[u] = task'[u].attempt
           /\ Result[u] = task[u].result /\ Result'[u] = task'[u].result
BY DEF Phase, Epoch, Result

\* A task that stays or is woken looks the same.
LEMMA CalmSame ==
    ASSUME NEW u \in Task, Calm(u)
    PROVE  Same(u)
BY PhaseOf DEF Calm, Stays, Wakes, Kept, Same

\* The abstract view consists of functions on the tasks.
LEMMA Views ==
    /\ Phase = [u \in Task |-> Phase[u]] /\ Phase' = [u \in Task |-> Phase'[u]]
    /\ Epoch = [u \in Task |-> Epoch[u]] /\ Epoch' = [u \in Task |-> Epoch'[u]]
    /\ Result = [u \in Task |-> Result[u]] /\ Result' = [u \in Task |-> Result'[u]]
BY DEF Phase, Epoch, Result

\* The step of LeasedWork that a led step is.
LEMMA LedStep ==
    ASSUME LedgerInv, LedgerInv', NEW t \in Task, Leads(t)
    PROVE  [Abstract!Next]_(Abstract!abstractVars)
<1> DEFINE gone == {u \in Task \ {t} : IsCancelled(u)}
           live == {u \in Task : Phase[u] \in {"idle", "held"}}
           moved(p) == [v \in Task |-> IF v = t THEN p
                                       ELSE IF v \in gone THEN "cancelled" ELSE Phase[v]]
<1>1. \A u \in Task \ {t} : Same(u) \/ (u \in gone /\ Outstanding(t) /\ Terminal(t)')
  BY CalmSame DEF Leads
<1>2. \A u \in gone : /\ Phase'[u] = "cancelled" /\ u \in live
                      /\ Epoch'[u] = Epoch[u] /\ Result'[u] = Result[u]
  <2> SUFFICES ASSUME NEW u \in Task \ {t}, IsCancelled(u)
               PROVE  /\ Phase'[u] = "cancelled" /\ Phase[u] \in {"idle", "held"}
                      /\ Epoch'[u] = Epoch[u] /\ Result'[u] = Result[u]
    OBVIOUS
  <2> QED
    BY PhaseOf DEF IsCancelled, Kept, Outstanding, OutstandingState
<1>3. gone \subseteq live
  BY <1>2
<1>4. Phase' = moved(Phase'[t])
  <2> HIDE DEF gone
  <2> QED
    BY <1>1, <1>2, Views DEF Same
<1>5. Phase' = [v \in Task |-> IF v = t THEN Phase'[t]
                               ELSE IF v \in {} THEN "cancelled" ELSE Phase[v]]
          \/ (Outstanding(t) /\ Terminal(t)')
  <2> HIDE DEF gone
  <2> QED
    BY <1>1, Views DEF Same
<1>6. Epoch' = [Epoch EXCEPT ![t] = Epoch'[t]] /\ Result' = [Result EXCEPT ![t] = Result'[t]]
  <2> HIDE DEF gone
  <2> QED
    BY <1>1, <1>2, Views DEF Same
<1> HIDE DEF gone
<1> USE DEF Abstract!Next
<1>7. Abstract!Live = live
  BY DEF Abstract!Live
<1>8. \A p : Abstract!Moved(t, p, gone) = moved(p)
  BY DEF Abstract!Moved
<1>9. Unborn(t) /\ task[t].state \in TaskState
  BY ColumnTypes DEF LedgerInv
<1> HIDE DEF live, moved
<1>10. /\ Phase[t] = IF task[t].state \in {"pending", "waiting"} THEN "idle"
                      ELSE IF task[t].state = "running" THEN "held" ELSE task[t].state
       /\ Phase'[t] = IF task'[t].state \in {"pending", "waiting"} THEN "idle"
                      ELSE IF task'[t].state = "running" THEN "held" ELSE task'[t].state
       /\ Epoch[t] = task[t].attempt /\ Epoch'[t] = task'[t].attempt
       /\ Result[t] = task[t].result /\ Result'[t] = task'[t].result
  BY PhaseOf
<1>11. t \in live <=> Phase[t] \in {"idle", "held"}
  BY DEF live
<1>12. ASSUME Phase[t] = "held", Phase'[t] \in {"succeeded", "failed"},
              Epoch'[t] = Epoch[t],
              Result'[t] = IF Phase'[t] = "succeeded" THEN Epoch[t] ELSE Result[t]
       PROVE  Abstract!Next
  <2>1. Epoch' = Epoch /\ (Phase'[t] = "failed" => Result' = Result)
    BY <1>6, <1>12, Views
  <2>2. CASE Phase'[t] = "succeeded"
    <3>1. Result' = [Result EXCEPT ![t] = Epoch[t]]
      BY <1>6, <1>12, <2>2
    <3>2. Abstract!Succeed(t)
      <4>1. \E g \in SUBSET Abstract!Live : Phase' = Abstract!Moved(t, "succeeded", g)
        BY <1>3, <1>4, <1>7, <1>8, <2>2
      <4> QED
        BY <1>12, <2>1, <3>1, <4>1 DEF Abstract!Succeed, Epoch, Result
    <3> QED
      BY <3>2
  <2>3. CASE Phase'[t] = "failed"
    BY <1>3, <1>4, <1>7, <1>8, <1>12, <2>1, <2>3 DEF Abstract!Fail, Epoch, Result
  <2> QED
    BY <1>12, <2>2, <2>3
<1>13. ASSUME Phase[t] = "held", Phase'[t] = "idle",
              Epoch'[t] = Epoch[t], Result'[t] = Result[t],
              ~Terminal(t)'
       PROVE  Abstract!Next
  <2>1. Epoch' = Epoch /\ Result' = Result
    BY <1>6, <1>13, Views
  <2> QED
    BY <1>5, <1>13, <2>1 DEF Abstract!GiveBack, Abstract!Moved, Epoch, Result
<1>14. CASE Calm(t)
  <2>1. Same(t) /\ ~(Outstanding(t) /\ Terminal(t)')
    BY <1>14, CalmSame DEF Calm, Stays, Wakes, Outstanding, Terminal, OutstandingState,
                           TerminalState
  <2>2. Phase' = Phase /\ Epoch' = Epoch /\ Result' = Result
    BY <1>5, <1>6, <2>1, Views DEF Same
  <2> QED
    BY <2>2 DEF Abstract!abstractVars, Epoch, Result
<1>15. CASE Ends(t)
  BY <1>10, <1>12, <1>13, <1>15 DEF Ends, Kept, Terminal, TerminalState
<1>16. CASE IsCharged(t)
  BY <1>10, <1>12, <1>13, <1>16 DEF IsCharged, Kept, Terminal, TerminalState
<1>17. CASE IsCancelled(t)
  <2>1. /\ Phase[t] \in {"idle", "held"} /\ Phase'[t] = "cancelled"
        /\ Epoch'[t] = Epoch[t] /\ Result'[t] = Result[t]
    BY <1>10, <1>17 DEF IsCancelled, Kept, Outstanding, OutstandingState
  <2>2. Epoch' = Epoch /\ Result' = Result
    BY <1>6, <2>1, Views
  <2> QED
    BY <1>3, <1>4, <1>7, <1>8, <1>11, <2>1, <2>2 DEF Abstract!Cancel, Epoch, Result
<1>18. CASE Starts(t)
  <2>1. Phase[t] = "idle" /\ Phase'[t] = "held" /\ ~Terminal(t)'
        /\ Epoch'[t] = Epoch[t] + 1 /\ Result'[t] = Result[t]
    BY <1>10, <1>18 DEF Starts, Terminal, TerminalState
  <2>2. Result' = Result
    BY <1>6, <2>1, Views
  <2> QED
    <3>1. Epoch' = [Epoch EXCEPT ![t] = Epoch[t] + 1]
      BY <1>6, <2>1
    <3>2. Phase' = Abstract!Moved(t, "held", {})
      BY <1>5, <2>1 DEF Abstract!Moved
    <3>3. Abstract!Acquire(t)
      BY <2>1, <2>2, <3>1, <3>2 DEF Abstract!Acquire, Epoch, Result
    <3> QED
      BY <3>3
<1>19. CASE IsInserted(t)
  <2>1. Phase[t] = "absent" /\ Phase'[t] = "idle" /\ ~Terminal(t)'
        /\ Epoch'[t] = Epoch[t] /\ Result'[t] = Result[t]
    BY <1>9, <1>10, <1>19 DEF IsInserted, Unborn, Terminal, TerminalState
  <2>2. Epoch' = Epoch /\ Result' = Result
    BY <1>6, <2>1, Views
  <2> QED
    BY <1>5, <2>1, <2>2 DEF Abstract!Submit, Abstract!Moved, Epoch, Result
<1>20. CASE Reopens(t)
  <2>1. Phase[t] \in {"failed", "cancelled"} /\ Phase'[t] = "idle" /\ ~Terminal(t)'
        /\ Epoch'[t] = Epoch[t] /\ Result'[t] = 0
    BY <1>10, <1>20 DEF Reopens, Terminal, TerminalState
  <2>2. Epoch' = Epoch
    BY <1>6, <2>1, Views
  <2> QED
    <3>1. Result' = [Result EXCEPT ![t] = 0]
      BY <1>6, <2>1
    <3>2. Phase' = Abstract!Moved(t, "idle", {})
      BY <1>5, <2>1 DEF Abstract!Moved
    <3>3. Abstract!Reopen(t)
      BY <2>1, <2>2, <3>1, <3>2 DEF Abstract!Reopen, Epoch, Result
    <3> QED
      BY <3>3
<1>21. CASE IsDeleted(t)
  <2>1. Phase[t] \in {"succeeded", "failed", "cancelled"} /\ Phase'[t] = "deleted"
        /\ ~Terminal(t)' /\ Epoch'[t] = 0 /\ Result'[t] = 0
    BY <1>10, <1>21 DEF IsDeleted, NoTask, Terminal, TerminalState
  <2>2. Epoch' = [Epoch EXCEPT ![t] = 0] /\ Result' = [Result EXCEPT ![t] = 0]
    BY <1>6, <2>1
  <2>3. Phase' = Abstract!Moved(t, "deleted", {})
    BY <1>5, <2>1 DEF Abstract!Moved
  <2>4. Abstract!Remove(t)
    BY <2>1, <2>2, <2>3 DEF Abstract!Remove, Epoch, Result
  <2> QED
    BY <2>4
<1> QED
  BY <1>14, <1>15, <1>16, <1>17, <1>18, <1>19, <1>20, <1>21 DEF Leads, Moves, Calm

\* The kernel implements LeasedWork: leases are numbered and exclusive, and each
\* outcome is decided once, by the lease that holds the task, whatever cascades
\* the triggers add.
THEOREM RefinesLeasedWork == Spec => ImplementsLeasedWork
<1>1. Init => Abstract!Init
  <2> SUFFICES ASSUME Init PROVE Abstract!Init
    OBVIOUS
  <2>1. \A t \in Task : task[t] = NoTask
    BY DEF Init
  <2>2. NoTask.state = "absent" /\ NoTask.attempt = 0 /\ NoTask.result = 0
    BY DEF NoTask
  <2> QED
    BY <2>1, <2>2 DEF Abstract!Init, Phase
<1>2. LedgerInv /\ LedgerInv' /\ [Next]_vars => [Abstract!Next]_(Abstract!abstractVars)
  <2> SUFFICES ASSUME LedgerInv, LedgerInv', [Next]_vars
               PROVE  [Abstract!Next]_(Abstract!abstractVars)
    OBVIOUS
  <2>1. Shape
    BY StepShape DEF LedgerInv
  <2>2. CASE \A u \in Task : Calm(u)
    <3>1. \A u \in Task : Same(u)
      BY <2>2, CalmSame
    <3>2. Phase' = Phase /\ Epoch' = Epoch /\ Result' = Result
      BY <3>1, Views DEF Same
    <3> QED
      BY <3>2 DEF Abstract!abstractVars, Epoch, Result
  <2> QED
    BY <2>1, <2>2, LedStep DEF Shape
<1> QED
  BY <1>1, <1>2, LedgerAlways, PTL DEF Spec, ImplementsLeasedWork, Abstract!Spec
===============================================================================
