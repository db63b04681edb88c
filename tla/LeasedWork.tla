------------------------------ MODULE LeasedWork ------------------------------
(***************************************************************************)
(* What the task kernel promises to those who only see a task's outcome: a *)
(* piece of work is held by at most one numbered lease at a time, lease    *)
(* numbers only grow, and while the work exists its success is decided     *)
(* once, by the lease that holds it, with that lease's result.  Failed and *)
(* cancelled work may be reopened; succeeded work may only be removed.     *)
(* TaskKernel implements this specification.                               *)
(***************************************************************************)
EXTENDS Naturals

CONSTANT Work

VARIABLES
    phase,   \* where each piece of work is
    epoch,   \* the number of its latest lease
    result   \* the lease whose result is kept, 0 for none

abstractVars == <<phase, epoch, result>>

Live == {w \in Work : phase[w] \in {"idle", "held"}}

\* The phases when w moves to p and the work in gone is cancelled with it.
Moved(w, p, gone) ==
    [v \in Work |-> IF v = w THEN p
                    ELSE IF v \in gone THEN "cancelled" ELSE phase[v]]

Submit(w) ==
    /\ phase[w] = "absent"
    /\ phase' = Moved(w, "idle", {})
    /\ UNCHANGED <<epoch, result>>

Acquire(w) ==
    /\ phase[w] = "idle"
    /\ phase' = Moved(w, "held", {})
    /\ epoch' = [epoch EXCEPT ![w] = @ + 1]
    /\ UNCHANGED result

GiveBack(w) ==
    /\ phase[w] = "held"
    /\ phase' = Moved(w, "idle", {})
    /\ UNCHANGED <<epoch, result>>

\* Only the current lease decides success and failure; what the work owned ends
\* with it.
Succeed(w) ==
    /\ phase[w] = "held"
    /\ \E gone \in SUBSET Live : phase' = Moved(w, "succeeded", gone)
    /\ result' = [result EXCEPT ![w] = epoch[w]]
    /\ UNCHANGED epoch

Fail(w) ==
    /\ phase[w] = "held"
    /\ \E gone \in SUBSET Live : phase' = Moved(w, "failed", gone)
    /\ UNCHANGED <<epoch, result>>

Cancel(w) ==
    /\ w \in Live
    /\ \E gone \in SUBSET Live : phase' = Moved(w, "cancelled", gone)
    /\ UNCHANGED <<epoch, result>>

Reopen(w) ==
    /\ phase[w] \in {"failed", "cancelled"}
    /\ phase' = Moved(w, "idle", {})
    /\ result' = [result EXCEPT ![w] = 0]
    /\ UNCHANGED epoch

Remove(w) ==
    /\ phase[w] \in {"succeeded", "failed", "cancelled"}
    /\ phase' = Moved(w, "deleted", {})
    /\ epoch' = [epoch EXCEPT ![w] = 0]
    /\ result' = [result EXCEPT ![w] = 0]

Init ==
    /\ phase = [w \in Work |-> "absent"]
    /\ epoch = [w \in Work |-> 0]
    /\ result = [w \in Work |-> 0]

Next ==
    \E w \in Work :
        \/ Submit(w) \/ Acquire(w) \/ GiveBack(w)
        \/ Succeed(w) \/ Fail(w) \/ Cancel(w)
        \/ Reopen(w) \/ Remove(w)

Spec == Init /\ [][Next]_abstractVars
===============================================================================
