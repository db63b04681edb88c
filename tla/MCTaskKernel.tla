----------------------------- MODULE MCTaskKernel -----------------------------
(***************************************************************************)
(* Small instances of TaskKernel for TLC: which durable primitives the     *)
(* steps of a handler are, and the symmetry between interchangeable names. *)
(***************************************************************************)
EXTENDS TaskKernel, TLC

CONSTANTS s1, s2, s3

\* One plain step: leases, retries and late checkpoint writers.
LeaseKind == s1 :> "step"

\* A sleep and two signal waits of one task.
WaitKind == s1 :> "sleep" @@ s2 :> "signal" @@ s3 :> "signal"

\* One durable sleep.
SleepKind == s1 :> "sleep"

\* A spawn and a wait for the child.
FamilyKind == s1 :> "spawn" @@ s2 :> "result"

ValueSymmetry == Permutations(Value)

ChildSymmetry == Permutations(Task \ Roots)
===============================================================================
