--------------------------- MODULE TaskKernelLedger ---------------------------
(***************************************************************************)
(* The lease ledger for every number of tasks, attempts and steps: at most *)
(* one open attempt, its token the only one; a budget charged for failures *)
(* and losses only; a result from the attempt that succeeded; attempts     *)
(* that end once.  The inductive invariant LedgerInv joins the ledger with *)
(* the budget (a charge adds the open attempt to the failed ones, so the   *)
(* count needs the ledger) and with what a row is before its insert.       *)
(***************************************************************************)
EXTENDS TaskKernelMoves, FiniteSetTheorems

USE DEF OutstandingState, TerminalState

Unborn(t) ==
    task[t].state \in {"absent", "deleted"} =>
        task[t].attempt = 0 /\ task[t].failed = 0 /\ task[t].result = 0

LedgerInv ==
    /\ TypeOK
    /\ AttemptLedger
    /\ RetryBudget
    /\ ResultOfSucceededAttempt
    /\ \A t \in Task : Unborn(t)

ChargedAttempts(t) == {n \in Claims : attempts[t][n] \in {"failed", "lost"}}

\* The conjuncts of LedgerInv for one task.
LedgerOf(t) ==
    /\ task[t].token = IF task[t].state = "running" THEN task[t].attempt ELSE 0
    /\ task[t].state = "running" => task[t].attempt > 0
    /\ \A n \in Claims :
           /\ attempts[t][n] = "none" <=> n > task[t].attempt
           /\ attempts[t][n] = "running"
                  <=> task[t].state = "running" /\ n = task[t].attempt

BudgetOf(t) ==
    /\ task[t].failed = Cardinality(ChargedAttempts(t))
    /\ Outstanding(t) => task[t].failed < task[t].max

ResultOf(t) ==
    task[t].state = "succeeded" =>
        /\ task[t].result = task[t].attempt
        /\ attempts[t][task[t].attempt] = "succeeded"

\* LedgerInv is the conjunction of its parts over the tasks.
LEMMA LedgerByTask ==
    LedgerInv <=> TypeOK /\ \A t \in Task :
                      LedgerOf(t) /\ BudgetOf(t) /\ ResultOf(t) /\ Unborn(t)
BY DEF LedgerInv, AttemptLedger, RetryBudget, ResultOfSucceededAttempt,
       LedgerOf, BudgetOf, ResultOf, ChargedAttempts

\* The columns that the ledger is about have their types.
LEMMA ColumnTypes ==
    ASSUME TypeOK, NEW u \in Task
    PROVE  /\ task[u].state \in TaskState
           /\ task[u].attempt \in 0..MaxClaims
           /\ task[u].failed \in Nat
           /\ task[u].max \in Nat \ {0}
           /\ attempts[u] \in [Claims -> AttemptState]
<1>1. task[u] \in TaskRow /\ attempts[u] \in [Claims -> AttemptState]
  BY DEF TypeOK
<1> QED
  BY <1>1 DEF TaskRow

\* In the initial state no attempt was made.
LEMMA LedgerInit == Init => LedgerInv
<1> SUFFICES ASSUME Init PROVE LedgerInv
  OBVIOUS
<1>1. TypeOK
  BY TypeInit
<1>2. ASSUME NEW t \in Task
      PROVE  LedgerOf(t) /\ BudgetOf(t) /\ ResultOf(t) /\ Unborn(t)
  <2>1. task[t] = NoTask /\ attempts[t] = [n \in Claims |-> "none"]
    BY DEF Init
  <2>2. /\ task[t].state = "absent" /\ task[t].attempt = 0 /\ task[t].failed = 0
        /\ task[t].token = 0 /\ task[t].result = 0
    BY <2>1 DEF NoTask
  <2>3. ChargedAttempts(t) = {}
    BY <2>1 DEF ChargedAttempts
  <2>4. Cardinality(ChargedAttempts(t)) = 0
    BY <2>3, FS_EmptySet
  <2>5. LedgerOf(t)
    BY <2>1, <2>2 DEF LedgerOf, Claims
  <2> QED
    BY <2>2, <2>4, <2>5 DEF BudgetOf, ResultOf, Unborn, Outstanding
<1> QED
  BY <1>1, <1>2, LedgerByTask

\* Each move keeps the ledger.
LEMMA LedgerMove ==
    ASSUME TypeOK, TypeOK', NEW u \in Task, Moves(u), LedgerOf(u), Unborn(u)
    PROVE  LedgerOf(u)'
<1>0. /\ task[u].attempt \in 0..MaxClaims /\ task'[u].attempt \in 0..MaxClaims
      /\ attempts[u] \in [Claims -> AttemptState]
      /\ task[u].state \in TaskState
  BY ColumnTypes DEF TypeOK, TaskRow
<1> USE DEF LedgerOf, Claims
<1>1. CASE Stays(u)
  BY <1>1 DEF Stays, Kept
<1>2. CASE Wakes(u)
  BY <1>0, <1>2 DEF Wakes, Kept
<1>3. CASE Ends(u)
  <2>1. PICK end \in {"suspended", "released", "succeeded"} :
            attempts'[u] = EndAttempt(u, end)
    BY <1>3 DEF Ends
  <2>2. task'[u].state # "running" /\ task'[u].token = 0
        /\ task'[u].attempt = task[u].attempt /\ task[u].state = "running"
    BY <1>3 DEF Ends, Kept
  <2>3. \A n \in Claims : attempts'[u][n] = IF n = task[u].attempt THEN end ELSE attempts[u][n]
    BY <1>0, <2>1 DEF EndAttempt
  <2> QED
    BY <1>0, <2>1, <2>2, <2>3
<1>4. CASE IsCharged(u)
  <2>1. PICK end \in {"failed", "lost"} : attempts'[u] = EndAttempt(u, end)
    BY <1>4 DEF IsCharged
  <2>2. task'[u].state # "running" /\ task'[u].token = 0
        /\ task'[u].attempt = task[u].attempt /\ task[u].state = "running"
    BY <1>4 DEF IsCharged, Kept
  <2>3. \A n \in Claims : attempts'[u][n] = IF n = task[u].attempt THEN end ELSE attempts[u][n]
    BY <1>0, <2>1 DEF EndAttempt
  <2> QED
    BY <1>0, <2>1, <2>2, <2>3
<1>5. CASE IsCancelled(u)
  BY <1>0, <1>5 DEF IsCancelled, Kept, CancelAttempt
<1>6. CASE Starts(u)
  <2> DEFINE m == task[u].attempt + 1
  <2>1. /\ task[u].state = "pending" /\ task'[u].state = "running" /\ m \in Claims
        /\ task'[u].attempt = m /\ task'[u].token = m
        /\ attempts'[u] = [attempts[u] EXCEPT ![m] = "running"]
    BY <1>6 DEF Starts
  <2>2. \A n \in Claims : attempts'[u][n] = IF n = m THEN "running" ELSE attempts[u][n]
    BY <1>0, <2>1
  <2>3. \A n \in Claims : n > m <=> n > task[u].attempt /\ n # m
    BY <1>0
  <2>4. m > 0 /\ m > task[u].attempt
    BY <1>0
  <2> QED
    BY <2>1, <2>2, <2>3, <2>4
<1>7. CASE IsInserted(u)
  BY <1>0, <1>7 DEF IsInserted, Unborn
<1>8. CASE Reopens(u)
  BY <1>0, <1>8 DEF Reopens
<1>9. CASE IsDeleted(u)
  <2>1. task'[u].state = "deleted" /\ task'[u].attempt = 0 /\ task'[u].token = 0
    BY <1>9 DEF IsDeleted, NoTask
  <2>2. \A n \in Claims : attempts'[u][n] = "none"
    BY <1>9 DEF IsDeleted
  <2> QED
    BY <2>1, <2>2
<1> QED
  BY <1>1, <1>2, <1>3, <1>4, <1>5, <1>6, <1>7, <1>8, <1>9 DEF Moves

\* A charge adds the open attempt to the charged ones; no other move adds any.
LEMMA BudgetMove ==
    ASSUME TypeOK, NEW u \in Task, Moves(u), LedgerOf(u), BudgetOf(u), Unborn(u)
    PROVE  BudgetOf(u)'
<1> DEFINE n == task[u].attempt
<1>0. /\ n \in 0..MaxClaims
      /\ attempts[u] \in [Claims -> AttemptState]
      /\ task[u].failed \in Nat /\ task[u].max \in Nat \ {0}
  BY ColumnTypes
<1>1. IsFiniteSet(ChargedAttempts(u))
  <2>1. IsFiniteSet(Claims)
    BY FS_Interval, KernelAssumption DEF Claims
  <2> QED
    BY <2>1, FS_Subset DEF ChargedAttempts
<1>2. task[u].state = "running" => n \in Claims /\ attempts[u][n] = "running"
  BY <1>0 DEF LedgerOf, Claims
<1>3. ASSUME ChargedAttempts(u)' = ChargedAttempts(u), task'[u].failed = task[u].failed,
             Outstanding(u)' => task'[u].failed < task'[u].max
      PROVE  BudgetOf(u)'
  BY <1>3 DEF BudgetOf
<1>4. CASE Stays(u)
  BY <1>3, <1>4 DEF Stays, Kept, ChargedAttempts, BudgetOf, Outstanding
<1>5. CASE Wakes(u)
  BY <1>3, <1>5 DEF Wakes, Kept, ChargedAttempts, BudgetOf, Outstanding
<1>6. CASE Ends(u)
  <2>1. PICK end \in {"suspended", "released", "succeeded"} :
            attempts'[u] = EndAttempt(u, end)
    BY <1>6 DEF Ends
  <2>2. n \in Claims /\ attempts[u][n] = "running"
    BY <1>2, <1>6 DEF Ends
  <2>3. ChargedAttempts(u)' = ChargedAttempts(u)
    BY <1>0, <2>1, <2>2 DEF ChargedAttempts, EndAttempt
  <2> QED
    BY <1>3, <1>6, <2>3 DEF Ends, Kept, BudgetOf, Outstanding
<1>7. CASE IsCharged(u)
  <2>1. PICK end \in {"failed", "lost"} : attempts'[u] = EndAttempt(u, end)
    BY <1>7 DEF IsCharged
  <2>2. n \in Claims /\ attempts[u][n] = "running"
    BY <1>2, <1>7 DEF IsCharged
  <2>3. ChargedAttempts(u)' = ChargedAttempts(u) \cup {n}
    BY <1>0, <2>1, <2>2 DEF ChargedAttempts, EndAttempt
  <2>4. n \notin ChargedAttempts(u)
    BY <2>2 DEF ChargedAttempts
  <2>5. Cardinality(ChargedAttempts(u) \cup {n}) = Cardinality(ChargedAttempts(u)) + 1
    BY <1>1, <2>4, FS_AddElement
  <2>6. task'[u].failed = Cardinality(ChargedAttempts(u)')
    BY <1>7, <2>3, <2>5 DEF IsCharged, BudgetOf
  <2>7. Outstanding(u)' => task'[u].failed < task'[u].max
    BY <1>7 DEF IsCharged, Kept, Outstanding
  <2> QED
    BY <2>6, <2>7 DEF BudgetOf
<1>8. CASE IsCancelled(u)
  <2>1. ChargedAttempts(u)' = ChargedAttempts(u)
    BY <1>0, <1>8 DEF IsCancelled, ChargedAttempts, CancelAttempt
  <2> QED
    BY <1>3, <1>8, <2>1 DEF IsCancelled, Outstanding
<1>9. CASE Starts(u)
  <2>1. attempts[u][n + 1] = "none" /\ n + 1 \in Claims
    BY <1>0, <1>9 DEF Starts, LedgerOf
  <2>2. attempts'[u] = [attempts[u] EXCEPT ![n + 1] = "running"]
    BY <1>9 DEF Starts
  <2>3. ChargedAttempts(u)' = ChargedAttempts(u)
    BY <1>0, <2>1, <2>2 DEF ChargedAttempts
  <2> QED
    BY <1>3, <1>9, <2>3 DEF Starts, BudgetOf, Outstanding
<1>10. CASE IsInserted(u)
  <2>1. ChargedAttempts(u)' = ChargedAttempts(u) /\ task'[u].failed = task[u].failed
    BY <1>10 DEF IsInserted, Unborn, ChargedAttempts
  <2>2. task'[u].failed < task'[u].max
    BY <1>10, KernelAssumption DEF IsInserted
  <2> QED
    BY <1>3, <2>1, <2>2
<1>11. CASE Reopens(u)
  <2>1. ChargedAttempts(u)' = ChargedAttempts(u)
    BY <1>11 DEF Reopens, ChargedAttempts
  <2>2. task[u].failed < RaisedMax(task[u])
    BY <1>0 DEF RaisedMax
  <2> QED
    BY <1>3, <1>11, <2>1, <2>2 DEF Reopens
<1>12. CASE IsDeleted(u)
  <2>1. task'[u].failed = 0 /\ task'[u].state = "deleted"
    BY <1>12 DEF IsDeleted, NoTask
  <2>2. ChargedAttempts(u)' = {}
    BY <1>12 DEF IsDeleted, ChargedAttempts
  <2>3. Cardinality(ChargedAttempts(u)') = 0
    BY <2>2, FS_EmptySet
  <2> QED
    BY <2>1, <2>3 DEF BudgetOf, Outstanding
<1> QED
  BY <1>4, <1>5, <1>6, <1>7, <1>8, <1>9, <1>10, <1>11, <1>12 DEF Moves

\* Only the success of the open attempt makes a task succeeded.
LEMMA ResultMove ==
    ASSUME TypeOK, NEW u \in Task, Moves(u), LedgerOf(u), ResultOf(u), Unborn(u)
    PROVE  ResultOf(u)' /\ Unborn(u)'
<1>0. /\ task[u].attempt \in 0..MaxClaims
      /\ attempts[u] \in [Claims -> AttemptState]
  BY ColumnTypes
<1> USE DEF ResultOf, Unborn
<1>1. CASE Stays(u)
  BY <1>1 DEF Stays, Kept
<1>2. CASE Wakes(u)
  BY <1>2 DEF Wakes, Kept
<1>3. CASE Ends(u)
  <2>1. task[u].attempt \in Claims /\ task'[u].attempt = task[u].attempt
    BY <1>0, <1>3 DEF Ends, Kept, LedgerOf, Claims
  <2>2. task'[u].state = "succeeded" =>
            attempts'[u] = EndAttempt(u, "succeeded") /\ task'[u].result = task[u].attempt
    BY <1>3 DEF Ends
  <2>3. task'[u].state \in {"pending", "waiting", "succeeded"}
    BY <1>3 DEF Ends
  <2> QED
    BY <1>0, <2>1, <2>2, <2>3 DEF EndAttempt
<1>4. CASE IsCharged(u)
  BY <1>4 DEF IsCharged
<1>5. CASE IsCancelled(u)
  BY <1>5 DEF IsCancelled
<1>6. CASE Starts(u)
  BY <1>6 DEF Starts
<1>7. CASE IsInserted(u)
  BY <1>7 DEF IsInserted
<1>8. CASE Reopens(u)
  BY <1>8 DEF Reopens
<1>9. CASE IsDeleted(u)
  BY <1>9 DEF IsDeleted, NoTask
<1> QED
  BY <1>1, <1>2, <1>3, <1>4, <1>5, <1>6, <1>7, <1>8, <1>9 DEF Moves

\* LedgerInv is inductive.
LEMMA LedgerStep == LedgerInv /\ [Next]_vars => LedgerInv'
<1> SUFFICES ASSUME LedgerInv, [Next]_vars PROVE LedgerInv'
  OBVIOUS
<1>1. TypeOK /\ TypeOK'
  BY TypeStep DEF LedgerInv
<1>2. ASSUME NEW u \in Task
      PROVE  LedgerOf(u)' /\ BudgetOf(u)' /\ ResultOf(u)' /\ Unborn(u)'
  <2>1. LedgerOf(u) /\ BudgetOf(u) /\ ResultOf(u) /\ Unborn(u) /\ Moves(u)
    BY <1>1, LedgerByTask, StepMoves
  <2> QED
    BY <1>1, <2>1, LedgerMove, BudgetMove, ResultMove
<1>3. TypeOK' /\ \A t \in Task : (LedgerOf(t) /\ BudgetOf(t) /\ ResultOf(t) /\ Unborn(t))'
  BY <1>1, <1>2
<1> QED
  BY <1>3, LedgerByTask DEF LedgerInv, AttemptLedger, RetryBudget, ResultOfSucceededAttempt,
     LedgerOf, BudgetOf, ResultOf, ChargedAttempts

\* LedgerInv is an invariant of the kernel.
LEMMA LedgerAlways == Spec => []LedgerInv
<1>1. Init => LedgerInv
  BY LedgerInit
<1>2. LedgerInv /\ [Next]_vars => LedgerInv'
  BY LedgerStep
<1> QED
  BY <1>1, <1>2, PTL DEF Spec

\* The attempt history is the history of the leases, whatever calls arrive and
\* whichever leases they present.
THEOREM AttemptLedgerHolds == Spec => []AttemptLedger
<1>1. LedgerInv => AttemptLedger
  BY DEF LedgerInv
<1> QED
  BY <1>1, LedgerAlways, PTL

\* failed_attempts is the number of failed and lost attempts, and an outstanding
\* task can always be claimed once it is due.
THEOREM RetryBudgetHolds == Spec => []RetryBudget
<1>1. LedgerInv => RetryBudget
  BY DEF LedgerInv
<1> QED
  BY <1>1, LedgerAlways, PTL

\* The result is that of the attempt recorded as succeeded.
THEOREM ResultHolds == Spec => []ResultOfSucceededAttempt
<1>1. LedgerInv => ResultOfSucceededAttempt
  BY DEF LedgerInv
<1> QED
  BY <1>1, LedgerAlways, PTL

\* No step changes how an ended attempt is recorded, short of deleting its task.
THEOREM AttemptEndIsFinalHolds == Spec => AttemptEndIsFinal
<1> DEFINE Final == \A t \in Task, n \in Claims :
               attempts[t][n] \notin {"none", "running"} /\ Exists(t)' =>
                   attempts'[t][n] = attempts[t][n]
<1>1. LedgerInv /\ [Next]_vars => [Final]_vars
  <2> SUFFICES ASSUME LedgerInv, [Next]_vars, NEW u \in Task, NEW n \in Claims,
                      attempts[u][n] \notin {"none", "running"}, Exists(u)'
               PROVE  attempts'[u][n] = attempts[u][n]
    OBVIOUS
  <2>1. TypeOK /\ LedgerOf(u) /\ Moves(u)
    BY LedgerByTask, StepMoves
  <2>2. /\ task[u].attempt \in 0..MaxClaims
        /\ attempts[u] \in [Claims -> AttemptState]
    BY <2>1, ColumnTypes
  <2>3. n <= task[u].attempt /\ (task[u].state = "running" => n # task[u].attempt)
    BY <2>1, <2>2 DEF LedgerOf, Claims
  <2>4. CASE Stays(u) \/ Wakes(u) \/ IsInserted(u) \/ Reopens(u)
    BY <2>4 DEF Stays, Wakes, IsInserted, Reopens
  <2>5. CASE Ends(u) \/ IsCharged(u)
    <3>1. PICK end : attempts'[u] = EndAttempt(u, end)
      BY <2>5 DEF Ends, IsCharged
    <3>2. n # task[u].attempt
      BY <2>3, <2>5 DEF Ends, IsCharged
    <3> QED
      BY <2>2, <3>1, <3>2 DEF EndAttempt
  <2>6. CASE IsCancelled(u)
    BY <2>6 DEF IsCancelled, CancelAttempt
  <2>7. CASE Starts(u)
    <3>1. n # task[u].attempt + 1
      BY <2>2, <2>3 DEF Claims
    <3> QED
      BY <2>2, <2>7, <3>1 DEF Starts
  <2>8. CASE IsDeleted(u)
    BY <2>8 DEF IsDeleted, NoTask, Exists, Outstanding, Terminal
  <2> QED
    BY <2>1, <2>4, <2>5, <2>6, <2>7, <2>8 DEF Moves
<1>2. Spec => [][Final]_vars
  <2> HIDE DEF Final
  <2> QED
    BY <1>1, LedgerAlways, PTL DEF Spec
<1> QED
  BY <1>2 DEF AttemptEndIsFinal
===============================================================================
