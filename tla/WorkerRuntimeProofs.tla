---------------------------- MODULE WorkerRuntimeProofs ----------------------------
(***************************************************************************)
(* What the worker tells its handlers is true of the rows, for every number *)
(* of tasks, queues and claims and whichever statements fail: a row moves   *)
(* only forward, and every lease that the process knows was claimed before. *)
(***************************************************************************)
EXTENDS WorkerRuntime, FiniteSetTheorems, TLAPS

RowType == [Task -> [state: {"pending", "running", "succeeded", "dead"}, attempt: Nat]]

\* A lease that was claimed, by an earlier claim of its task or by the last one.
Known(l) == l.task \in Task /\ l.attempt \in Nat /\ l.attempt <= row[l.task].attempt

\* The leases that the process holds or held are leases that were claimed.
LeasesAreKnown ==
    /\ \A l \in Lease : handler[l] # "none" => Known(l)
    /\ \A l \in pass.leases : Known(l)
    /\ \A t \in Task : table[t] <= row[t].attempt
    /\ \A l \in renewal.leases : l \in Lease /\ Known(l)

\* A lease that a statement did not renew is lost.
NotRenewedIsLost ==
    renewal.at = "answered" => \A l \in renewal.leases \ renewal.renewed : ~Held(row, l)

RuntimeInv ==
    /\ row \in RowType
    /\ handler \in [Lease -> Stage]
    /\ table \in [Task -> Nat]
    /\ LeasesAreKnown
    /\ NotRenewedIsLost
    /\ SuccessIsStored
    /\ FencedMeansLost

-------------------------------------------------------------------------------
(* The rows move forward. *)

RowStates == {"pending", "running", "succeeded", "dead"}

\* A row is claimed for its next attempt, its attempt is over, or it stays.
RowMoves(rows) ==
    /\ rows \in RowType
    /\ \A t \in Task :
          \/ rows[t] = row[t]
          \/ /\ row[t].state = "running" /\ rows[t].attempt = row[t].attempt
             /\ rows[t].state # "running"
          \/ /\ row[t].state = "pending" /\ rows[t].attempt = row[t].attempt + 1
             /\ rows[t].state = "running"

\* Attempts end, and nothing else happens to the rows.
Finishes(before, after) ==
    /\ after \in RowType
    /\ \A t \in Task :
          \/ after[t] = before[t]
          \/ /\ before[t].state = "running" /\ after[t].state # "running"
             /\ after[t].attempt = before[t].attempt

\* That is a way to move; it may happen twice in one step.
LEMMA FinishesMoves ==
  ASSUME row \in RowType, NEW rows, NEW after, Finishes(row, rows),
         after = rows \/ Finishes(rows, after)
  PROVE  RowMoves(after)
  BY DEF Finishes, RowMoves

\* Rows that are, one by one, as they were or ended.
LEMMA EndedFinishes ==
  ASSUME NEW rows \in RowType, NEW after, after = [t \in Task |-> after[t]],
         \A t \in Task : \/ after[t] = rows[t]
                         \/ rows[t].state = "running" /\ \E st \in RowStates \ {"running"} :
                                after[t] = Ended(rows[t], st)
  PROVE  Finishes(rows, after)
<1>1. ASSUME NEW t \in Task
      PROVE  /\ after[t] \in [state: RowStates, attempt: Nat]
             /\ \/ after[t] = rows[t]
                \/ /\ rows[t].state = "running" /\ after[t].state # "running"
                   /\ after[t].attempt = rows[t].attempt
  BY DEF RowType, RowStates, Ended
<1>2. after \in RowType
  BY <1>1 DEF RowType, RowStates
<1> QED
  BY <1>1, <1>2 DEF Finishes

\* complete_tasks and fail_tasks end the attempts whose lease is held.
LEMMA WrittenFinishes ==
  ASSUME NEW rows \in RowType, NEW requests, NEW left
  PROVE  Finishes(rows, Written(rows, requests, left))
<1> DEFINE W == Written(rows, requests, left)
<1>1. ASSUME NEW t \in Task
      PROVE  \/ W[t] = rows[t]
             \/ rows[t].state = "running" /\ \E st \in RowStates \ {"running"} : W[t] = Ended(rows[t], st)
  <2> DEFINE mine == {r \in requests : r.lease.task = t /\ Held(rows, r.lease)}
  <2>1. CASE mine = {}
    BY <2>1 DEF Written
  <2>2. CASE mine # {}
    <3>1. rows[t].state = "running"
      BY <2>2 DEF Held
    <3>2. \E st \in {"succeeded", "pending", "dead"} : W[t] = Ended(rows[t], st)
      BY <2>2 DEF Written
    <3> QED
      BY <3>1, <3>2 DEF RowStates
  <2> QED
    BY <2>1, <2>2
<1>2. W = [t \in Task |-> W[t]]
  BY DEF Written
<1> HIDE DEF W
<1>3. Finishes(rows, W)
  BY <1>1, <1>2, EndedFinishes
<1> QED
  BY <1>3 DEF W

\* release_leases ends them too.
LEMMA ReleasedFinishes ==
  ASSUME NEW rows \in RowType, NEW leases
  PROVE  Finishes(rows, Released(rows, leases))
<1> DEFINE W == Released(rows, leases)
<1>1. ASSUME NEW t \in Task
      PROVE  \/ W[t] = rows[t]
             \/ rows[t].state = "running" /\ \E st \in RowStates \ {"running"} : W[t] = Ended(rows[t], st)
  BY DEF Released, Held, RowStates
<1>2. W = [t \in Task |-> W[t]]
  BY DEF Released
<1> HIDE DEF W
<1>3. Finishes(rows, W)
  BY <1>1, <1>2, EndedFinishes
<1> QED
  BY <1>3 DEF W

\* Whatever was in flight when the process stops.
LEMMA InFlightMoves ==
  ASSUME row \in RowType, NEW leases, row' \in InFlight(row) \cup InFlight(Released(row, leases))
  PROVE  RowMoves(row')
<1>1. Finishes(row, row) /\ Finishes(row, Released(row, leases))
  BY ReleasedFinishes DEF Finishes
<1>2. PICK rows : Finishes(row, rows) /\ row' \in InFlight(rows)
  BY <1>1
<1>3. rows \in RowType
  BY <1>2 DEF Finishes
<1>4. row' = rows \/ \E requests, left : row' = Written(rows, requests, left)
  BY <1>2 DEF InFlight
<1>5. row' = rows \/ Finishes(rows, row')
  BY <1>3, <1>4, WrittenFinishes
<1> QED
  BY <1>2, <1>5, FinishesMoves

\* claim starts the next attempt of tasks that are pending.
LEMMA ClaimedMoves ==
  ASSUME row \in RowType, NEW p, NEW S \in Claimable(p)
  PROVE  /\ RowMoves(Claimed(row, S))
         /\ S \subseteq Task
         /\ \A t \in S : Claimed(row, S)[t].attempt = row[t].attempt + 1
<1> DEFINE W == Claimed(row, S)
<1>1. S \subseteq Task /\ \A t \in S : row[t].state = "pending"
  BY DEF Claimable
<1>2. \A t \in S : W[t] = [state |-> "running", attempt |-> row[t].attempt + 1]
  BY <1>1 DEF Claimed
<1>3. \A t \in Task \ S : W[t] = row[t]
  BY DEF Claimed
<1>4. W = [t \in Task |-> W[t]]
  BY DEF Claimed
<1> HIDE DEF W
<1>5. \A t \in Task : W[t] \in [state: {"pending", "running", "succeeded", "dead"}, attempt: Nat]
  <2> TAKE t \in Task
  <2>0. row[t] \in [state: {"pending", "running", "succeeded", "dead"}, attempt: Nat]
    BY DEF RowType
  <2>1. CASE t \in S
    <3>1. W[t] = [state |-> "running", attempt |-> row[t].attempt + 1]
      BY <1>2, <2>1
    <3>2. row[t].attempt + 1 \in Nat
      BY <2>0
    <3> QED
      BY <3>1, <3>2
  <2>2. CASE t \notin S
    BY <1>3, <2>0, <2>2
  <2> QED
    BY <2>1, <2>2
<1>6. W \in RowType
  BY <1>4, <1>5 DEF RowType
<1>7. \A t \in S : W[t].state = "running" /\ W[t].attempt = row[t].attempt + 1
  <2> TAKE t \in S
  <2>1. PICK n : n = row[t].attempt + 1
    OBVIOUS
  <2>2. W[t] = [state |-> "running", attempt |-> n]
    BY <1>2, <2>1
  <2> QED
    BY <2>1, <2>2
<1>8. RowMoves(W)
  <2>1. ASSUME NEW t \in Task
        PROVE  \/ W[t] = row[t]
               \/ /\ row[t].state = "pending" /\ W[t].attempt = row[t].attempt + 1
                  /\ W[t].state = "running"
    BY <1>1, <1>3, <1>7
  <2> QED
    BY <1>6, <2>1 DEF RowMoves
<1> QED
  BY <1>1, <1>7, <1>8 DEF W

\* What stays true of a row that moves forward: a lease that was claimed, a lease
\* that is lost, a success.
LEMMA MovesKeep ==
  ASSUME row \in RowType, RowMoves(row'), NEW l, Known(l)
  PROVE  /\ Known(l)'
         /\ ~Held(row, l) => ~Held(row', l)
         /\ row[l.task].state = "succeeded" => row'[l.task] = row[l.task]
  BY DEF RowType, RowMoves, Known, Held

-------------------------------------------------------------------------------
(* What a step may do to the state of the process. *)

\* A handler stays, goes, moves on under a lease that was claimed, or is told
\* something that is true of the rows.
HandlerMoves(l) ==
    \/ handler'[l] = handler[l]
    \/ handler'[l] = "none"
    \/ Known(l)' /\ handler'[l] \in {"running", "writing", "ended"}
    \/ /\ Known(l)' /\ handler'[l] = "succeeded"
       /\ row'[l.task].state = "succeeded" /\ row'[l.task].attempt = l.attempt
    \/ Known(l)' /\ handler'[l] = "fenced" /\ ~Held(row', l)

RenewalMoves ==
    \/ renewal' = renewal
    \/ /\ \A l \in renewal'.leases : l \in Lease /\ Known(l)'
       /\ renewal'.at = "answered" =>
              \A l \in renewal'.leases \ renewal'.renewed : ~Held(row', l)

ProcessMoves ==
    /\ RowMoves(row')
    /\ handler' \in [Lease -> Stage] /\ \A l \in Lease : HandlerMoves(l)
    /\ table' \in [Task -> Nat] /\ \A t \in Task : table'[t] = table[t] \/ table'[t] <= row'[t].attempt
    /\ \A l \in pass'.leases : l \in pass.leases \/ Known(l)'
    /\ RenewalMoves

\* A step of that form keeps the invariant.
LEMMA ProcessMovesInv ==
  ASSUME RuntimeInv, ProcessMoves
  PROVE  RuntimeInv'
<1> USE DEF RuntimeInv
<1>1. /\ RowMoves(row')
      /\ handler' \in [Lease -> Stage] /\ \A l \in Lease : HandlerMoves(l)
      /\ table' \in [Task -> Nat]
      /\ \A t \in Task : table'[t] = table[t] \/ table'[t] <= row'[t].attempt
      /\ \A l \in pass'.leases : l \in pass.leases \/ Known(l)'
      /\ RenewalMoves
  BY DEF ProcessMoves
<1>2. row' \in RowType
  BY <1>1 DEF RowMoves
<1>3. \A l \in Lease : l.task \in Task
  BY DEF Lease
<1>4. ASSUME NEW l \in Lease PROVE handler'[l] # "none" => Known(l)'
  <2>1. handler[l] # "none" => Known(l)'
    BY <1>1, MovesKeep DEF LeasesAreKnown
  <2> QED
    BY <1>1, <2>1 DEF HandlerMoves
<1>5. ASSUME NEW l \in Lease, handler'[l] = "succeeded"
      PROVE  row'[l.task].state = "succeeded" /\ row'[l.task].attempt = l.attempt
  <2>1. CASE handler'[l] = handler[l]
    <3>1. Known(l) /\ row[l.task].state = "succeeded" /\ row[l.task].attempt = l.attempt
      BY <1>5, <2>1 DEF LeasesAreKnown, SuccessIsStored
    <3>2. row'[l.task] = row[l.task]
      BY <1>1, <3>1, MovesKeep
    <3> QED
      BY <3>1, <3>2
  <2>2. CASE handler'[l] # handler[l]
    BY <1>1, <1>5, <2>2 DEF HandlerMoves
  <2> QED
    BY <2>1, <2>2
<1>6. ASSUME NEW l \in Lease, handler'[l] = "fenced" PROVE ~Held(row', l)
  <2>1. CASE handler'[l] = handler[l]
    <3>1. Known(l) /\ ~Held(row, l)
      BY <1>6, <2>1 DEF LeasesAreKnown, FencedMeansLost
    <3> QED
      BY <1>1, <3>1, MovesKeep
  <2>2. CASE handler'[l] # handler[l]
    BY <1>1, <1>6, <2>2 DEF HandlerMoves
  <2> QED
    BY <2>1, <2>2
<1>7. ASSUME NEW l \in pass'.leases PROVE Known(l)'
  BY <1>1, <1>7, MovesKeep DEF LeasesAreKnown
<1>8. ASSUME NEW t \in Task PROVE table'[t] <= row'[t].attempt
  <2>1. row[t].attempt \in Nat /\ row'[t].attempt \in Nat /\ row[t].attempt <= row'[t].attempt
    BY <1>1 DEF RowMoves, RowType
  <2> QED
    BY <1>1, <2>1 DEF LeasesAreKnown
<1>9. ASSUME NEW l \in renewal'.leases
      PROVE  /\ l \in Lease /\ Known(l)'
             /\ renewal'.at = "answered" /\ l \notin renewal'.renewed => ~Held(row', l)
  <2>1. CASE renewal' = renewal
    <3>1. l \in Lease /\ Known(l)
      BY <2>1 DEF LeasesAreKnown
    <3>2. renewal.at = "answered" /\ l \notin renewal.renewed => ~Held(row, l)
      BY <2>1 DEF NotRenewedIsLost
    <3> QED
      BY <1>1, <2>1, <3>1, <3>2, MovesKeep
  <2>2. CASE renewal' # renewal
    BY <1>1, <2>2 DEF RenewalMoves
  <2> QED
    BY <2>1, <2>2
<1>10. LeasesAreKnown' /\ NotRenewedIsLost'
  BY <1>4, <1>7, <1>8, <1>9 DEF LeasesAreKnown, NotRenewedIsLost
<1>11. SuccessIsStored' /\ FencedMeansLost'
  BY <1>5, <1>6 DEF SuccessIsStored, FencedMeansLost
<1> QED
  BY <1>1, <1>2, <1>10, <1>11

-------------------------------------------------------------------------------
(* The steps of the process, one after the other. *)

\* A row that stays has moved.
LEMMA RowStays ==
  ASSUME row \in RowType, row' = row
  PROVE  RowMoves(row')
  BY DEF RowMoves

\* Steps that leave handlers, table, claims and renewals alone.
LEMMA OnlyRowsMove ==
  ASSUME RuntimeInv, RowMoves(row'), UNCHANGED <<handler, table, pass, renewal>>
  PROVE  ProcessMoves
  BY DEF RuntimeInv, ProcessMoves, HandlerMoves, RenewalMoves

\* Steps of one handler that is told nothing.
LEMMA OneHandlerMoves ==
  ASSUME RuntimeInv, RowMoves(row'), NEW l, NEW st \in {"none", "running", "writing", "ended"},
         handler' = [handler EXCEPT ![l] = st], l \in Lease => handler[l] # "none",
         UNCHANGED <<table, pass, renewal>>
  PROVE  ProcessMoves
<1>1. handler' \in [Lease -> Stage]
  BY DEF RuntimeInv, Stage
<1>2. ASSUME NEW k \in Lease PROVE HandlerMoves(k)
  <2>1. CASE k # l
    BY <2>1 DEF RuntimeInv, HandlerMoves
  <2>2. CASE k = l
    <3>1. Known(k)'
      BY <2>2, MovesKeep DEF RuntimeInv, LeasesAreKnown
    <3>2. handler'[k] = st
      BY <2>2 DEF RuntimeInv
    <3> QED
      BY <3>1, <3>2 DEF HandlerMoves
  <2> QED
    BY <2>1, <2>2
<1> QED
  BY <1>1, <1>2 DEF RuntimeInv, ProcessMoves, RenewalMoves

\* The lease expires, or the task is cancelled.
LEMMA LeaseIsLostMoves ==
  ASSUME RuntimeInv, NEW t \in Task, LeaseIsLost(t)
  PROVE  ProcessMoves
<1>1. PICK st \in {"pending", "dead"} : row' = [row EXCEPT ![t] = Ended(row[t], st)]
  BY DEF LeaseIsLost
<1>2. row \in RowType /\ row[t].state = "running"
  BY DEF RuntimeInv, LeaseIsLost
<1>3. row' = [u \in Task |-> row'[u]] /\ row'[t] = Ended(row[t], st) /\ \A u \in Task \ {t} : row'[u] = row[u]
  BY <1>1, <1>2 DEF RowType
<1>4. Finishes(row, row')
  BY <1>2, <1>3, EndedFinishes DEF RowStates
<1>5. RowMoves(row')
  BY <1>2, <1>4, FinishesMoves
<1> QED
  BY <1>5, OnlyRowsMove DEF LeaseIsLost, local

\* The end of a handler, however it comes.
LEMMA HandlerStepMoves ==
  ASSUME RuntimeInv, NEW l \in Lease, HandlerStep(l)
  PROVE  ProcessMoves
<1>0. row \in RowType
  BY DEF RuntimeInv
<1>1. ASSUME NEW kind, HandlerEnds(l, kind) PROVE ProcessMoves
  <2>1. RowMoves(row')
    BY <1>0, <1>1, RowStays DEF HandlerEnds
  <2> QED
    BY <1>1, <2>1, OneHandlerMoves DEF HandlerEnds
<1>2. CASE HandlerSuspends(l)
  <2>1. row' = Released(row, {l})
    BY <1>2 DEF HandlerSuspends
  <2>2. Finishes(row, row')
    BY <1>0, <2>1, ReleasedFinishes
  <2>3. RowMoves(row')
    BY <1>0, <2>2, FinishesMoves
  <2> QED
    BY <1>2, <2>3, OneHandlerMoves DEF HandlerSuspends
<1>3. CASE HandlerLosesLease(l)
  <2>1. RowMoves(row')
    BY <1>0, <1>3, RowStays DEF HandlerLosesLease
  <2> QED
    BY <1>3, <2>1, OneHandlerMoves DEF HandlerLosesLease
<1>4. CASE HandlerLeaves(l)
  <2>1. RowMoves(row') /\ row' = row
    BY <1>0, <1>4, RowStays DEF HandlerLeaves
  <2>2. handler' \in [Lease -> Stage] /\ \A k \in Lease : HandlerMoves(k)
    BY <1>4 DEF HandlerLeaves, HandlerMoves, RuntimeInv, Stage
  <2>3. /\ table' \in [Task -> Nat]
        /\ \A t \in Task : table'[t] = table[t] \/ table'[t] <= row'[t].attempt
    <3>1. table' = [table EXCEPT ![l.task] = 0] /\ table \in [Task -> Nat]
      BY <1>4 DEF HandlerLeaves, RuntimeInv
    <3>2. \A t \in Task : table'[t] = table[t] \/ table'[t] = 0
      BY <3>1
    <3>3. \A t \in Task : 0 <= row'[t].attempt
      BY <1>0, <2>1 DEF RowType
    <3> QED
      BY <3>1, <3>2, <3>3
  <2> QED
    BY <1>4, <2>1, <2>2, <2>3 DEF HandlerLeaves, ProcessMoves, RenewalMoves
<1> QED
  BY <1>1, <1>2, <1>3, <1>4 DEF HandlerStep, HandlerReturns, HandlerFails

\* The claims of a pass, and the handlers it starts.
LEMMA ClaimStepMoves ==
  ASSUME RuntimeInv, ClaimStep
  PROVE  ProcessMoves
<1>0. row \in RowType
  BY DEF RuntimeInv
<1>1. CASE ClaimFails
  <2>1. PICK p \in Passes : \E S \in Claimable(p) : row' = Claimed(row, S)
    BY <1>1 DEF ClaimFails
  <2>2. RowMoves(row')
    BY <1>0, <2>1, ClaimedMoves
  <2>3. pass'.leases = {}
    BY <1>1 DEF ClaimFails, Idle
  <2> QED
    BY <1>1, <2>2, <2>3 DEF ClaimFails, ProcessMoves, HandlerMoves, RenewalMoves, RuntimeInv
<1>2. CASE ClaimQueue
  <2>0. PICK p \in Passes : \E S \in Claimable(p) :
          LET leases == p.leases \cup
                   {[task |-> t, attempt |-> row[t].attempt + 1] : t \in S}
          IN  /\ row' = Claimed(row, S)
              /\ IF p.at = Queues \/ Cardinality(leases) = p.room
                 THEN pass' = Idle /\ Spawn(leases)
                 ELSE /\ pass' = [p EXCEPT !.at = @ + 1, !.leases = leases]
                      /\ UNCHANGED <<handler, table>>
    BY <1>2 DEF ClaimQueue
  <2>1. PICK S \in Claimable(p) :
          LET leases == p.leases \cup
                   {[task |-> t, attempt |-> row[t].attempt + 1] : t \in S}
          IN  /\ row' = Claimed(row, S)
              /\ IF p.at = Queues \/ Cardinality(leases) = p.room
                 THEN pass' = Idle /\ Spawn(leases)
                 ELSE /\ pass' = [p EXCEPT !.at = @ + 1, !.leases = leases]
                      /\ UNCHANGED <<handler, table>>
    BY <2>0
  <2>2. PICK leases : leases = p.leases \cup {[task |-> t, attempt |-> row[t].attempt + 1] : t \in S}
    OBVIOUS
  <2>3. RowMoves(row') /\ S \subseteq Task /\ \A t \in S : row'[t].attempt = row[t].attempt + 1
    BY <1>0, <2>1, ClaimedMoves
  <2>4. p = pass \/ p.leases = {}
    BY DEF Passes
  <2>5. ASSUME NEW l \in leases PROVE Known(l)'
    <3>1. CASE l \in p.leases
      <4>1. Known(l)
        BY <2>4, <3>1 DEF RuntimeInv, LeasesAreKnown
      <4> QED
        BY <1>0, <2>3, <4>1, MovesKeep
    <3>2. CASE l \notin p.leases
      <4>1. PICK t \in S : l = [task |-> t, attempt |-> row[t].attempt + 1]
        BY <2>2, <2>5, <3>2
      <4>2. PICK n : n = row[t].attempt + 1
        OBVIOUS
      <4>3. l.task = t /\ l.attempt = n
        BY <4>1, <4>2
      <4>4. n \in Nat /\ row'[t].attempt = n /\ t \in Task
        BY <1>0, <2>3, <4>2 DEF RowType
      <4>5. l.task \in Task /\ l.attempt \in Nat /\ l.attempt <= row'[l.task].attempt
        BY <4>3, <4>4
      <4> QED
        BY <4>5 DEF Known
    <3> QED
      BY <3>1, <3>2
  <2>6. RenewalMoves
    BY <1>2 DEF ClaimQueue, RenewalMoves
  <2>7. CASE pass' = Idle /\ Spawn(leases)
    <3>1. handler' \in [Lease -> Stage] /\ \A l \in Lease : HandlerMoves(l)
      BY <2>5, <2>7 DEF Spawn, HandlerMoves, RuntimeInv, Stage
    <3>2. ASSUME NEW t \in Task
          PROVE  table'[t] \in Nat /\ (table'[t] = table[t] \/ table'[t] <= row'[t].attempt)
      <4>1. CASE \E l \in leases : l.task = t
        <5>1. PICK l \in leases : l.task = t /\ table'[t] = l.attempt
          BY <2>7, <4>1 DEF Spawn
        <5> QED
          BY <2>5, <5>1 DEF Known
      <4>2. CASE ~ \E l \in leases : l.task = t
        BY <2>7, <4>2 DEF Spawn, RuntimeInv
      <4> QED
        BY <4>1, <4>2
    <3>3. table' \in [Task -> Nat]
      <4>1. table' = [t \in Task |-> table'[t]]
        BY <2>7 DEF Spawn
      <4> QED
        BY <3>2, <4>1
    <3>4. pass'.leases = {}
      BY <2>7 DEF Idle
    <3> QED
      BY <2>3, <2>6, <3>1, <3>2, <3>3, <3>4 DEF ProcessMoves
  <2>8. CASE pass' = [p EXCEPT !.at = @ + 1, !.leases = leases] /\ UNCHANGED <<handler, table>>
    <3>1. pass'.leases \subseteq leases
      BY <2>4, <2>8
    <3> QED
      BY <2>3, <2>5, <2>6, <2>8, <3>1 DEF ProcessMoves, HandlerMoves, RuntimeInv
  <2> QED
    BY <2>1, <2>2, <2>7, <2>8
<1> QED
  BY <1>1, <1>2 DEF ClaimStep

\* complete_tasks stores the success of a lease that is held: no other request of
\* the statement is for the same task.
LEMMA WrittenStores ==
  ASSUME row \in RowType, NEW requests, Distinct(requests), NEW left,
         NEW r \in requests, r.lease.task \in Task, Held(row, r.lease), r.kind = "complete"
  PROVE  /\ Written(row, requests, left)[r.lease.task].state = "succeeded"
         /\ Written(row, requests, left)[r.lease.task].attempt = r.lease.attempt
<1> DEFINE t == r.lease.task
<1> DEFINE mine == {s \in requests : s.lease.task = t /\ Held(row, s.lease)}
<1>1. mine = {r}
  BY DEF Distinct
<1>2. (CHOOSE s \in mine : TRUE) = r
  BY <1>1
<1>3. Written(row, requests, left)[t] = Ended(row[t], "succeeded")
  BY <1>1, <1>2 DEF Written
<1>4. Ended(row[t], "succeeded").state = "succeeded" /\ Ended(row[t], "succeeded").attempt = row[t].attempt
  BY DEF Ended, RowType
<1> QED
  BY <1>3, <1>4 DEF Held

\* The writer answers the handlers of a statement that succeeded.
LEMMA AnsweredMoves ==
  ASSUME RuntimeInv, NEW requests, Distinct(requests), NEW left,
         row' = Written(row, requests, left), handler' = Answered(requests),
         UNCHANGED <<table, pass, renewal>>
  PROVE  ProcessMoves
<1>0. row \in RowType /\ handler \in [Lease -> Stage]
  BY DEF RuntimeInv
<1>1. RowMoves(row')
  <2>1. Finishes(row, row')
    BY <1>0, WrittenFinishes
  <2> QED
    BY <1>0, <2>1, FinishesMoves
<1>2. ASSUME NEW l \in Lease PROVE handler'[l] \in Stage /\ HandlerMoves(l)
  <2>1. CASE handler[l] = "writing" /\ \E r \in requests : r.lease = l
    <3>1. PICK r \in requests : r.lease = l /\ handler'[l] = Answer(r)
      BY <2>1 DEF Answered
    <3>2. Known(l) /\ Known(l)' /\ l.task \in Task
      BY <1>0, <1>1, <2>1, MovesKeep DEF RuntimeInv, LeasesAreKnown, Known
    <3>3. CASE ~Held(row, l)
      <4>1. handler'[l] = "fenced"
        BY <3>1, <3>3 DEF Answer
      <4>2. ~Held(row', l)
        BY <1>0, <1>1, <3>2, <3>3, MovesKeep
      <4> QED
        BY <3>2, <4>1, <4>2 DEF HandlerMoves, Stage
    <3>4. CASE Held(row, l) /\ r.kind = "complete"
      <4>1. handler'[l] = "succeeded"
        BY <3>1, <3>4 DEF Answer
      <4>2. row'[l.task].state = "succeeded" /\ row'[l.task].attempt = l.attempt
        BY <1>0, <3>1, <3>2, <3>4, WrittenStores
      <4> QED
        BY <3>2, <4>1, <4>2 DEF HandlerMoves, Stage
    <3>5. CASE Held(row, l) /\ r.kind # "complete"
      <4>1. handler'[l] = "ended"
        BY <3>1, <3>5 DEF Answer
      <4> QED
        BY <3>2, <4>1 DEF HandlerMoves, Stage
    <3> QED
      BY <3>3, <3>4, <3>5
  <2>2. CASE ~(handler[l] = "writing" /\ \E r \in requests : r.lease = l)
    <3>1. handler'[l] = handler[l]
      BY <2>2 DEF Answered
    <3> QED
      BY <1>0, <3>1 DEF HandlerMoves
  <2> QED
    BY <2>1, <2>2
<1>3. handler' \in [Lease -> Stage]
  <2>1. handler' = [l \in Lease |-> handler'[l]]
    BY DEF Answered
  <2> QED
    BY <1>2, <2>1
<1> QED
  BY <1>1, <1>2, <1>3 DEF ProcessMoves, RenewalMoves, RuntimeInv

\* The steps of the transition writer.
LEMMA WriterStepMoves ==
  ASSUME RuntimeInv, WriterStep
  PROVE  ProcessMoves
<1>0. row \in RowType /\ handler \in [Lease -> Stage]
  BY DEF RuntimeInv
<1>1. ASSUME NEW requests, NEW left, row' = row \/ row' = Written(row, requests, left)
      PROVE  RowMoves(row')
  <2>1. row' = row \/ Finishes(row, row')
    BY <1>0, <1>1, WrittenFinishes
  <2> QED
    BY <1>0, <2>1, FinishesMoves, RowStays
<1>2. CASE CollectBatch
  <2>1. RowMoves(row')
    BY <1>0, <1>2, RowStays DEF CollectBatch
  <2> QED
    BY <1>2, <2>1, OnlyRowsMove DEF CollectBatch
<1>3. CASE WriteBatch
  BY <1>3, AnsweredMoves DEF WriteBatch
<1>4. CASE WriteBatchFails
  <2>1. RowMoves(row')
    BY <1>1, <1>4 DEF WriteBatchFails
  <2> QED
    BY <1>4, <2>1, OnlyRowsMove DEF WriteBatchFails
<1>5. ASSUME NEW r \in Turn, WriteAlone(r) PROVE ProcessMoves
  <2>1. Distinct({r})
    BY DEF Distinct
  <2> QED
    BY <1>5, <2>1, AnsweredMoves DEF WriteAlone, WrittenAlone
<1>6. ASSUME NEW r \in Turn, WriteAloneFails(r) PROVE ProcessMoves
  <2>1. RowMoves(row')
    BY <1>1, <1>6 DEF WriteAloneFails, WrittenAlone
  <2>2. handler' = [handler EXCEPT ![r.lease] = IF handler[r.lease] = "writing" THEN "ended" ELSE handler[r.lease]]
    BY <1>6 DEF WriteAloneFails
  <2>3. CASE handler' = handler
    BY <1>6, <2>1, <2>3, OnlyRowsMove DEF WriteAloneFails
  <2>4. CASE handler' # handler
    <3>1. handler' = [handler EXCEPT ![r.lease] = "ended"] /\ handler[r.lease] # "none"
      BY <1>0, <2>2, <2>4
    <3> QED
      BY <1>6, <2>1, <3>1, OneHandlerMoves DEF WriteAloneFails
  <2> QED
    BY <2>3, <2>4
<1>7. ASSUME NEW r \in Turn, WriteAloneRejected(r) PROVE ProcessMoves
  <2>1. RowMoves(row')
    BY <1>0, <1>7, RowStays DEF WriteAloneRejected
  <2> QED
    BY <1>7, <2>1, OnlyRowsMove DEF WriteAloneRejected
<1> QED
  BY <1>2, <1>3, <1>4, <1>5, <1>6, <1>7 DEF WriterStep

\* The steps of the renewer: what it did not renew was lost when it asked, and a
\* lease that is lost stays so.
LEMMA RenewerStepMoves ==
  ASSUME RuntimeInv, RenewerStep
  PROVE  ProcessMoves
<1>0. row \in RowType
  BY DEF RuntimeInv
<1>1. RowMoves(row') /\ UNCHANGED <<row, handler, table, pass>>
  BY <1>0, RowStays DEF RenewerStep, RenewTick, RenewCommits, UpdateRenewedLeases, RenewFails
<1>2. \A l : Known(l)' <=> Known(l)
  BY <1>1 DEF Known
<1>3. RenewalMoves
  <2>1. CASE RenewTick
    <3>1. renewal'.at = "asked" /\ renewal'.leases = Tracked
      BY <2>1 DEF RenewTick, NoRenewal
    <3>2. \A l \in Tracked : l \in Lease /\ Known(l)
      BY <1>0 DEF Tracked, Known, Lease, RuntimeInv, LeasesAreKnown, RowType
    <3> QED
      BY <1>2, <3>1, <3>2 DEF RenewalMoves
  <2>2. CASE RenewCommits
    <3>1. /\ renewal'.leases = renewal.leases
          /\ renewal'.renewed = {l \in renewal.leases : Held(row, l)}
      BY <2>2 DEF RenewCommits
    <3>2. \A l \in renewal.leases : l \in Lease /\ Known(l)
      BY DEF RuntimeInv, LeasesAreKnown
    <3> QED
      BY <1>1, <1>2, <3>1, <3>2 DEF RenewalMoves
  <2>3. CASE UpdateRenewedLeases \/ RenewFails
    <3>1. renewal'.at = "idle" /\ renewal'.leases = {}
      BY <2>3 DEF UpdateRenewedLeases, RenewFails, NoRenewal
    <3> QED
      BY <3>1 DEF RenewalMoves
  <2> QED
    BY <2>1, <2>2, <2>3 DEF RenewerStep
<1> QED
  BY <1>1, <1>3 DEF ProcessMoves, HandlerMoves, RuntimeInv

\* Shutdown and crash: nothing is left that could be wrong.
LEMMA StopMoves ==
  ASSUME RuntimeInv, ShutdownStep \/ Crash
  PROVE  ProcessMoves
<1>0. row \in RowType /\ \A t \in Task : row[t].attempt \in Nat
  BY DEF RuntimeInv, RowType
<1>1. CASE AskShutdown
  <2>1. RowMoves(row')
    BY <1>0, <1>1, RowStays DEF AskShutdown
  <2> QED
    BY <1>1, <2>1, OnlyRowsMove DEF AskShutdown
<1>2. CASE DrainTable
  <2>1. RowMoves(row') /\ row' = row
    BY <1>0, <1>2, RowStays DEF DrainTable
  <2>2. handler' \in [Lease -> Stage] /\ \A l \in Lease : HandlerMoves(l)
    BY <1>2 DEF DrainTable, Joined, HandlerMoves, Stage
  <2>3. table' \in [Task -> Nat] /\ \A t \in Task : table'[t] <= row'[t].attempt
    BY <1>0, <1>2, <2>1 DEF DrainTable
  <2> QED
    BY <1>2, <2>1, <2>2, <2>3 DEF DrainTable, ProcessMoves, RenewalMoves
<1>3. CASE ReleaseAborted \/ Crash
  <2>1. RowMoves(row') /\ Down
    BY <1>0, <1>3, InFlightMoves DEF ReleaseAborted, Crash
  <2>2. handler' \in [Lease -> Stage] /\ \A l \in Lease : HandlerMoves(l)
    BY <2>1 DEF Down, HandlerMoves, Stage
  <2>3. table' \in [Task -> Nat] /\ \A t \in Task : table'[t] <= row'[t].attempt
    BY <2>1 DEF Down, RowMoves, RowType
  <2>4. pass'.leases = {} /\ renewal'.leases = {} /\ renewal'.at = "idle"
    BY <2>1 DEF Down, Idle, NoRenewal
  <2> QED
    BY <2>1, <2>2, <2>3, <2>4 DEF ProcessMoves, RenewalMoves
<1> QED
  BY <1>1, <1>2, <1>3 DEF ShutdownStep

-------------------------------------------------------------------------------
\* The state before the loops start.
LEMMA RuntimeInitInv == Init => RuntimeInv
<1> SUFFICES ASSUME Init PROVE RuntimeInv
  OBVIOUS
<1>1. row \in RowType /\ handler \in [Lease -> Stage] /\ table \in [Task -> Nat]
  BY DEF Init, RowType, Stage
<1>2. LeasesAreKnown /\ NotRenewedIsLost
  BY DEF Init, LeasesAreKnown, NotRenewedIsLost, Idle, NoRenewal
<1>3. SuccessIsStored /\ FencedMeansLost
  BY DEF Init, SuccessIsStored, FencedMeansLost
<1> QED
  BY <1>1, <1>2, <1>3 DEF RuntimeInv

\* Every step of the worker, of the fleet and of the clock keeps the invariant.
LEMMA RuntimeStepInv == RuntimeInv /\ [Next]_vars => RuntimeInv'
<1> SUFFICES ASSUME RuntimeInv, [Next]_vars PROVE RuntimeInv'
  OBVIOUS
<1>1. CASE Next
  <2>1. ProcessMoves
    BY <1>1, LeaseIsLostMoves, ClaimStepMoves, HandlerStepMoves, WriterStepMoves,
       RenewerStepMoves, StopMoves DEF Next
  <2> QED
    BY <2>1, ProcessMovesInv
<1>2. CASE UNCHANGED vars
  BY <1>2 DEF vars, RuntimeInv, LeasesAreKnown, NotRenewedIsLost, SuccessIsStored,
     FencedMeansLost, Known, Held
<1> QED
  BY <1>1, <1>2

\* For every number of tasks, claims and batches: a handler that
\* complete_execution told "completed" has its success stored, under its attempt.
THEOREM SuccessIsStoredHolds == Spec => []SuccessIsStored
<1>1. RuntimeInv => SuccessIsStored
  BY DEF RuntimeInv
<1> QED
  BY <1>1, RuntimeInitInv, RuntimeStepInv, PTL DEF Spec

\* For every number of tasks, claims and batches: a handler that was told its
\* lease was lost does not hold it, and never holds it again.
THEOREM FencedMeansLostHolds == Spec => []FencedMeansLost
<1>1. RuntimeInv => FencedMeansLost
  BY DEF RuntimeInv
<1> QED
  BY <1>1, RuntimeInitInv, RuntimeStepInv, PTL DEF Spec

\* For every number of tasks and claims: the reply of a renewal, however late it
\* is applied, cancels only handlers whose own lease is lost.
THEOREM OnlyLostIsCancelledHolds == Spec => OnlyLostIsCancelled
<1>1. RuntimeInv /\ [Next]_vars => [UpdateRenewedLeases => \A l \in lost' \ lost : ~Held(row, l)]_vars
  <2> SUFFICES ASSUME RuntimeInv, UpdateRenewedLeases, NEW l \in lost' \ lost PROVE ~Held(row, l)
    OBVIOUS
  <2>1. l \in renewal.leases \ renewal.renewed /\ renewal.at = "answered"
    BY DEF UpdateRenewedLeases, Cancelled
  <2> QED
    BY <2>1 DEF RuntimeInv, NotRenewedIsLost
<1> QED
  BY <1>1, RuntimeInitInv, RuntimeStepInv, PTL DEF Spec, OnlyLostIsCancelled

-------------------------------------------------------------------------------
(* The concurrency of the worker.  A pass keeps the room that it measured when *)
(* it began: until it ends, handlers only leave.                               *)

ConcurrencyInv ==
    /\ handler \in [Lease -> Stage]
    /\ IsFiniteSet(Handlers) /\ IsFiniteSet(pass.leases)
    /\ Cardinality(Handlers) <= Concurrency
    /\ pass.room \in Nat
    /\ Cardinality(pass.leases) <= pass.room
    /\ pass # Idle => Cardinality(Handlers) + pass.room <= Concurrency
    /\ pass = Idle => pass.leases = {}

\* A finite union is no larger than its parts together.
LEMMA UnionBound ==
  ASSUME NEW S, IsFiniteSet(S), NEW T, IsFiniteSet(T), NEW U, U \subseteq S \cup T
  PROVE  IsFiniteSet(U) /\ Cardinality(U) <= Cardinality(S) + Cardinality(T)
<1>1. IsFiniteSet(S \cup T) /\ Cardinality(S \cup T) = Cardinality(S) + Cardinality(T) - Cardinality(S \cap T)
  BY FS_Union
<1>2. IsFiniteSet(S \cap T)
  BY FS_Subset
<1>3. Cardinality(S) \in Nat /\ Cardinality(T) \in Nat /\ Cardinality(S \cap T) \in Nat
  BY <1>2, FS_CardinalityType
<1>4. IsFiniteSet(U) /\ Cardinality(U) <= Cardinality(S \cup T)
  BY <1>1, FS_Subset
<1>5. Cardinality(U) \in Nat
  BY <1>4, FS_CardinalityType
<1> QED
  BY <1>1, <1>3, <1>4, <1>5

\* The claims of one statement are no more than the tasks it returned.
LEMMA ClaimsBound ==
  ASSUME NEW S, S \subseteq Task, NEW T,
         T = {[task |-> t, attempt |-> row[t].attempt + 1] : t \in S}
  PROVE  IsFiniteSet(S) /\ IsFiniteSet(T) /\ Cardinality(T) <= Cardinality(S)
<1>1. IsFiniteSet(S)
  BY RuntimeAssumption, FS_Subset
<1>2. PICK f : f = [t \in S |-> [task |-> t, attempt |-> row[t].attempt + 1]]
  OBVIOUS
<1>3. f \in Surjection(S, T)
  BY <1>2 DEF Surjection
<1> QED
  BY <1>1, <1>3, FS_Surjection

\* A step in which handlers only leave, and the pass stays or is over.
LEMMA HandlersLeaveInv ==
  ASSUME ConcurrencyInv, handler' \in [Lease -> Stage], pass' = pass \/ pass' = Idle,
         \A l \in Lease : handler'[l] # "none" => handler[l] # "none"
  PROVE  ConcurrencyInv'
<1>1. Handlers' \subseteq Handlers
  BY DEF Handlers
<1>2. IsFiniteSet(Handlers') /\ Cardinality(Handlers') <= Cardinality(Handlers)
  BY <1>1, FS_Subset DEF ConcurrencyInv
<1>3. Cardinality(Handlers) \in Nat /\ Cardinality(Handlers') \in Nat /\ Concurrency \in Nat
  BY <1>2, FS_CardinalityType, RuntimeAssumption DEF ConcurrencyInv
<1>4. CASE pass' = pass
  BY <1>2, <1>3, <1>4 DEF ConcurrencyInv
<1>5. CASE pass' = Idle
  <2>1. pass'.leases = {} /\ pass'.room = 0 /\ Cardinality(pass'.leases) = 0 /\ IsFiniteSet(pass'.leases)
    BY <1>5, FS_EmptySet DEF Idle
  <2> QED
    BY <1>2, <1>3, <1>5, <2>1 DEF ConcurrencyInv
<1> QED
  BY <1>4, <1>5

\* The room of a pass: what the handlers leave of the configured concurrency.
LEMMA PassRoom ==
  ASSUME ConcurrencyInv, NEW p \in Passes
  PROVE  /\ p.room \in Nat /\ IsFiniteSet(p.leases) /\ Cardinality(p.leases) <= p.room
         /\ Cardinality(Handlers) + p.room <= Concurrency
<1>1. Cardinality(Handlers) \in Nat /\ Concurrency \in Nat /\ ClaimBatch \in Nat
  BY FS_CardinalityType, RuntimeAssumption DEF ConcurrencyInv
<1>2. CASE pass # Idle
  BY <1>2 DEF Passes, ConcurrencyInv
<1>3. CASE pass = Idle
  <2>1. PICK n \in 1..Concurrency : Room(n) > 0 /\ p = [at |-> 1, room |-> Room(n), leases |-> {}]
    BY <1>3 DEF Passes
  <2>2. Room(n) \in Nat /\ Cardinality(Handlers) + Room(n) <= Concurrency
    BY <1>1, <2>1 DEF Room
  <2> QED
    BY <2>1, <2>2, FS_EmptySet
<1> QED
  BY <1>2, <1>3

\* A claim stays within the room of its pass; so do the handlers it starts.
LEMMA ClaimQueueInv ==
  ASSUME ConcurrencyInv, ClaimQueue
  PROVE  ConcurrencyInv'
<1>0. PICK p \in Passes : \E S \in Claimable(p) :
          LET leases == p.leases \cup
                   {[task |-> t, attempt |-> row[t].attempt + 1] : t \in S}
          IN  IF p.at = Queues \/ Cardinality(leases) = p.room
              THEN pass' = Idle /\ Spawn(leases)
              ELSE /\ pass' = [p EXCEPT !.at = @ + 1, !.leases = leases]
                   /\ UNCHANGED <<handler, table>>
  BY DEF ClaimQueue
<1>1. PICK S \in Claimable(p) :
          LET leases == p.leases \cup
                   {[task |-> t, attempt |-> row[t].attempt + 1] : t \in S}
          IN  IF p.at = Queues \/ Cardinality(leases) = p.room
              THEN pass' = Idle /\ Spawn(leases)
              ELSE /\ pass' = [p EXCEPT !.at = @ + 1, !.leases = leases]
                   /\ UNCHANGED <<handler, table>>
  BY <1>0
<1>2. PICK T : T = {[task |-> t, attempt |-> row[t].attempt + 1] : t \in S}
  OBVIOUS
<1>3. PICK leases : leases = p.leases \cup T
  OBVIOUS
<1>4. /\ p.room \in Nat /\ IsFiniteSet(p.leases) /\ Cardinality(p.leases) <= p.room
      /\ Cardinality(Handlers) + p.room <= Concurrency
  BY PassRoom
<1>5. S \subseteq Task /\ Cardinality(S) <= p.room - Cardinality(p.leases)
  BY DEF Claimable
<1>6. IsFiniteSet(S) /\ IsFiniteSet(T) /\ Cardinality(T) <= Cardinality(S)
  BY <1>2, <1>5, ClaimsBound
<1>7. IsFiniteSet(leases) /\ Cardinality(leases) <= Cardinality(p.leases) + Cardinality(T)
  BY <1>3, <1>4, <1>6, UnionBound
<1>8. /\ Cardinality(S) \in Nat /\ Cardinality(T) \in Nat /\ Cardinality(p.leases) \in Nat
      /\ Cardinality(leases) \in Nat /\ Cardinality(Handlers) \in Nat
  BY <1>4, <1>6, <1>7, FS_CardinalityType DEF ConcurrencyInv
<1>9. Cardinality(leases) <= p.room
  BY <1>4, <1>5, <1>6, <1>7, <1>8
<1>10. CASE pass' = Idle /\ Spawn(leases)
  <2>1. handler' \in [Lease -> Stage] /\ Handlers' \subseteq Handlers \cup leases
    BY <1>10 DEF Spawn, Handlers, ConcurrencyInv, Stage
  <2>2. IsFiniteSet(Handlers') /\ Cardinality(Handlers') <= Cardinality(Handlers) + Cardinality(leases)
    BY <1>7, <2>1, UnionBound DEF ConcurrencyInv
  <2>3. Cardinality(Handlers') \in Nat /\ Concurrency \in Nat
    BY <2>2, FS_CardinalityType, RuntimeAssumption
  <2>4. Cardinality(Handlers') <= Concurrency
    BY <1>4, <1>8, <1>9, <2>2, <2>3
  <2>5. pass'.leases = {} /\ pass'.room = 0 /\ Cardinality(pass'.leases) = 0 /\ IsFiniteSet(pass'.leases)
    BY <1>10, FS_EmptySet DEF Idle
  <2> QED
    BY <1>10, <2>1, <2>2, <2>4, <2>5 DEF ConcurrencyInv
<1>11. CASE pass' = [p EXCEPT !.at = @ + 1, !.leases = leases] /\ UNCHANGED <<handler, table>>
  <2>1. pass'.leases = leases /\ pass'.room = p.room
    BY <1>11
  <2>2. Handlers' = Handlers
    BY <1>11 DEF Handlers
  <2>3. pass' = Idle => leases = {}
    BY <2>1 DEF Idle
  <2>4. Cardinality(Handlers) <= Concurrency /\ IsFiniteSet(Handlers) /\ handler' \in [Lease -> Stage]
    BY <1>11 DEF ConcurrencyInv
  <2> QED
    BY <1>4, <1>7, <1>9, <2>1, <2>2, <2>3, <2>4 DEF ConcurrencyInv
<1> QED
  BY <1>1, <1>2, <1>3, <1>10, <1>11

\* A step that starts no handler, and goes on with the pass or ends it.
HandlersLeave ==
    /\ handler' \in [Lease -> Stage]
    /\ \A l \in Lease : handler'[l] # "none" => handler[l] # "none"
    /\ pass' = pass \/ pass' = Idle

\* Only a claim starts handlers.
LEMMA NoHandlerStarts ==
  ASSUME handler \in [Lease -> Stage], Next, ~ClaimQueue
  PROVE  HandlersLeave
<1>1. CASE \E t \in Task : LeaseIsLost(t)
  BY <1>1 DEF LeaseIsLost, local, HandlersLeave
<1>2. CASE ClaimStep
  BY <1>2 DEF ClaimStep, ClaimFails, HandlersLeave
<1>3. CASE \E l \in Lease : HandlerStep(l)
  <2>1. PICK l \in Lease : HandlerStep(l)
    BY <1>3
  <2>2. pass' = pass
    BY <2>1 DEF HandlerStep, HandlerReturns, HandlerFails, HandlerEnds, HandlerSuspends,
       HandlerLosesLease, HandlerLeaves
  <2>3. handler[l] # "none" /\ \E st \in Stage : handler' = [handler EXCEPT ![l] = st]
    BY <2>1 DEF HandlerStep, HandlerReturns, HandlerFails, HandlerEnds, HandlerSuspends,
       HandlerLosesLease, HandlerLeaves, Stage
  <2> QED
    BY <2>2, <2>3 DEF HandlersLeave
<1>4. CASE WriterStep
  <2>1. ASSUME NEW requests, handler' = Answered(requests), pass' = pass PROVE HandlersLeave
    <3>1. \A r : Answer(r) \in Stage
      BY DEF Answer, Stage
    <3>2. \A l \in Lease : handler'[l] = handler[l] \/ (handler[l] = "writing" /\ handler'[l] \in Stage)
      BY <2>1, <3>1 DEF Answered
    <3>3. handler' = [l \in Lease |-> handler'[l]]
      BY <2>1 DEF Answered
    <3>4. handler' \in [Lease -> Stage]
      BY <3>2, <3>3
    <3> QED
      BY <2>1, <3>2, <3>4 DEF HandlersLeave
  <2>2. CASE CollectBatch \/ WriteBatchFails \/ \E r \in Turn : WriteAloneRejected(r)
    BY <2>2 DEF CollectBatch, WriteBatchFails, WriteAloneRejected, HandlersLeave
  <2>3. CASE WriteBatch \/ \E r \in Turn : WriteAlone(r)
    BY <2>1, <2>3 DEF WriteBatch, WriteAlone
  <2>4. CASE \E r \in Turn : WriteAloneFails(r)
    <3>1. PICK r : /\ handler' = [handler EXCEPT ![r.lease] = IF handler[r.lease] = "writing" THEN "ended" ELSE handler[r.lease]]
                   /\ pass' = pass
      BY <2>4 DEF WriteAloneFails
    <3>2. "ended" \in Stage
      BY DEF Stage
    <3> QED
      BY <3>1, <3>2 DEF HandlersLeave
  <2> QED
    BY <1>4, <2>2, <2>3, <2>4 DEF WriterStep
<1>5. CASE RenewerStep
  BY <1>5 DEF RenewerStep, RenewTick, RenewCommits, UpdateRenewedLeases, RenewFails, HandlersLeave
<1>6. CASE ShutdownStep \/ Crash
  BY <1>6 DEF ShutdownStep, AskShutdown, DrainTable, Joined, ReleaseAborted, Crash, Down,
     HandlersLeave, Stage
<1> QED
  BY <1>1, <1>2, <1>3, <1>4, <1>5, <1>6 DEF Next

\* For every number of tasks and queues and every effective limit: the handlers,
\* with those that a claim pass is about to spawn, stay within the concurrency.
THEOREM WithinConcurrencyHolds == Spec => []WithinConcurrency
<1>1. Init => ConcurrencyInv
  <2> SUFFICES ASSUME Init PROVE ConcurrencyInv
    OBVIOUS
  <2>1. Handlers = {} /\ pass = Idle /\ pass.leases = {} /\ pass.room = 0 /\ handler \in [Lease -> Stage]
    BY DEF Init, Handlers, Idle, Stage
  <2> QED
    BY <2>1, FS_EmptySet, RuntimeAssumption DEF ConcurrencyInv
<1>2. ConcurrencyInv /\ [Next]_vars => ConcurrencyInv'
  <2> SUFFICES ASSUME ConcurrencyInv, [Next]_vars PROVE ConcurrencyInv'
    OBVIOUS
  <2>1. CASE ClaimQueue
    BY <2>1, ClaimQueueInv
  <2>2. CASE Next /\ ~ClaimQueue
    <3>1. HandlersLeave
      BY <2>2, NoHandlerStarts DEF ConcurrencyInv
    <3> QED
      BY <3>1, HandlersLeaveInv DEF HandlersLeave
  <2>3. CASE UNCHANGED vars
    BY <2>3 DEF vars, ConcurrencyInv, Handlers
  <2> QED
    BY <2>1, <2>2, <2>3
<1>3. ConcurrencyInv => WithinConcurrency
  <2> SUFFICES ASSUME ConcurrencyInv PROVE WithinConcurrency
    OBVIOUS
  <2>1. Cardinality(Handlers) \in Nat /\ Cardinality(pass.leases) \in Nat /\ Concurrency \in Nat
    BY FS_CardinalityType, RuntimeAssumption DEF ConcurrencyInv
  <2>2. CASE pass = Idle
    <3>1. Cardinality(pass.leases) = 0
      BY <2>2, FS_EmptySet DEF ConcurrencyInv
    <3> QED
      BY <2>1, <3>1 DEF ConcurrencyInv, WithinConcurrency
  <2>3. CASE pass # Idle
    BY <2>1, <2>3 DEF ConcurrencyInv, WithinConcurrency
  <2> QED
    BY <2>2, <2>3
<1> QED
  BY <1>1, <1>2, <1>3, PTL DEF Spec

-------------------------------------------------------------------------------
(* The outcomes on their way to the writer. *)

Queued(l) == \E i \in 1..Len(channel) : channel[i].lease = l

Batched(l) == \E r \in batch.requests : r.lease = l

OutcomeInv ==
    /\ handler \in [Lease -> Stage]
    /\ channel \in Seq(Request)
    /\ batch.requests \subseteq Request
    /\ OutcomeIsKept

\* A step that moves no outcome and sets no handler waiting, or ends them all.
LEMMA NoOutcomeMoves ==
  ASSUME OutcomeInv, handler' \in [Lease -> Stage],
         \/ \A l \in Lease : handler'[l] # "writing"
         \/ /\ \A l \in Lease : handler'[l] = "writing" => handler[l] = "writing"
            /\ channel' = channel /\ batch'.requests = batch.requests,
         channel' \in Seq(Request), batch'.requests \subseteq Request
  PROVE  OutcomeInv'
  BY DEF OutcomeInv, OutcomeIsKept

\* What is sent is in the channel, and so is what was there.
LEMMA SendQueues ==
  ASSUME channel \in Seq(Request), NEW l \in Lease, NEW kind \in {"complete", "retry", "fail"},
         NEW replaced \in BOOLEAN, Send(l, kind, replaced)
  PROVE  channel' \in Seq(Request) /\ Queued(l)' /\ \A k : Queued(k) => Queued(k)'
<1>1. PICK r : r = [lease |-> l, kind |-> kind, replaced |-> replaced]
  OBVIOUS
<1>2. r \in Request /\ r.lease = l /\ channel' = Append(channel, r)
  BY <1>1 DEF Request, Send
<1>3. channel' \in Seq(Request) /\ Len(channel') = Len(channel) + 1 /\ Len(channel) \in Nat
  BY <1>2
<1>4. channel'[Len(channel) + 1] = r /\ \A i \in 1..Len(channel) : channel'[i] = channel[i]
  BY <1>2
<1> QED
  BY <1>2, <1>3, <1>4 DEF Queued

\* A batch takes outcomes over from the channel.
LEMMA CollectBatchKeeps ==
  ASSUME OutcomeInv, CollectBatch
  PROVE  OutcomeInv'
<1>1. PICK n \in 1..Len(channel) :
          /\ batch' = [NoBatch EXCEPT !.requests = {channel[i] : i \in 1..n}]
          /\ channel' = SubSeq(channel, n + 1, Len(channel))
  BY DEF CollectBatch
<1>2. channel \in Seq(Request) /\ Len(channel) \in Nat /\ n \in Nat
  BY DEF OutcomeInv
<1>3. batch'.requests = {channel[i] : i \in 1..n} /\ batch.requests = {}
  BY <1>1 DEF CollectBatch, NoBatch
<1>4. batch'.requests \subseteq Request
  BY <1>2, <1>3
<1>5. /\ channel' \in Seq(Request) /\ Len(channel') = Len(channel) - n
      /\ \A j \in 1..(Len(channel) - n) : channel'[j] = channel[n + j]
  BY <1>1, <1>2
<1>6. ASSUME NEW l \in Lease, handler'[l] = "writing" PROVE Batched(l)' \/ Queued(l)'
  <2>1. PICK i \in 1..Len(channel) : channel[i].lease = l
    BY <1>3, <1>6 DEF OutcomeInv, OutcomeIsKept, CollectBatch
  <2>2. CASE i <= n
    BY <1>2, <1>3, <2>1, <2>2 DEF Batched
  <2>3. CASE i > n
    <3>1. i - n \in 1..Len(channel') /\ channel'[i - n] = channel[i]
      BY <1>2, <1>5, <2>1, <2>3
    <3> QED
      BY <2>1, <3>1 DEF Queued
  <2> QED
    BY <1>2, <2>1, <2>2, <2>3
<1> QED
  BY <1>4, <1>5, <1>6 DEF OutcomeInv, OutcomeIsKept, CollectBatch, Batched, Queued

\* A statement takes the outcomes it answers out of the batch.
LEMMA AnsweredKeeps ==
  ASSUME OutcomeInv, NEW requests, handler' = Answered(requests), batch' = Without(requests),
         UNCHANGED <<pass, channel>>
  PROVE  OutcomeInv'
<1>1. \A r : Answer(r) \in Stage /\ Answer(r) # "writing"
  BY DEF Answer, Stage
<1>2. handler' = [l \in Lease |-> handler'[l]]
  BY DEF Answered
<1>3. ASSUME NEW l \in Lease
      PROVE  /\ handler'[l] \in Stage
             /\ handler'[l] = "writing" => handler[l] = "writing" /\ ~ \E r \in requests : r.lease = l
  BY <1>1 DEF Answered, OutcomeInv
<1>4. handler' \in [Lease -> Stage]
  BY <1>2, <1>3
<1>5. batch'.requests = batch.requests \ requests
  BY DEF Without
<1>6. OutcomeIsKept'
  BY <1>3, <1>5 DEF OutcomeInv, OutcomeIsKept
<1> QED
  BY <1>4, <1>5, <1>6 DEF OutcomeInv

\* An error of a write alone ends the handler; a value that is rejected is sent
\* again as another one.
LEMMA WriteAloneKeeps ==
  ASSUME OutcomeInv, NEW r \in Turn, WriteAloneFails(r) \/ WriteAloneRejected(r)
  PROVE  OutcomeInv'
<1>1. r \in Request /\ r.lease \in Lease /\ r.kind \in {"complete", "retry", "fail"}
  BY DEF Turn, Completions, OutcomeInv, Request
<1>2. batch'.requests = batch.requests \ {r}
  <2>1. batch' = Without({r})
    BY DEF WriteAloneFails, WriteAloneRejected
  <2> QED
    BY <2>1 DEF Without
<1>3. CASE WriteAloneFails(r)
  <2>1. /\ handler' = [handler EXCEPT ![r.lease] = IF handler[r.lease] = "writing" THEN "ended" ELSE handler[r.lease]]
        /\ channel' = channel
    BY <1>3 DEF WriteAloneFails
  <2>2. handler' \in [Lease -> Stage]
    BY <2>1 DEF OutcomeInv, Stage
  <2>3. \A l \in Lease : handler'[l] = "writing" => handler[l] = "writing" /\ l # r.lease
    BY <1>1, <2>1 DEF OutcomeInv
  <2>4. OutcomeIsKept'
    BY <1>2, <2>1, <2>3 DEF OutcomeInv, OutcomeIsKept
  <2> QED
    BY <1>2, <2>1, <2>2, <2>4 DEF OutcomeInv
<1>4. CASE WriteAloneRejected(r)
  <2>1. handler' = handler
    BY <1>4 DEF WriteAloneRejected
  <2>2. CASE handler[r.lease] = "writing"
    <3>1. Send(r.lease, Replaced(r.kind), TRUE) /\ Replaced(r.kind) \in {"complete", "retry", "fail"}
      BY <1>1, <1>4, <2>2 DEF WriteAloneRejected, Replaced
    <3>2. channel' \in Seq(Request) /\ Queued(r.lease)' /\ \A k : Queued(k) => Queued(k)'
      BY <1>1, <3>1, SendQueues DEF OutcomeInv
    <3>3. OutcomeIsKept'
      BY <1>2, <2>1, <3>2 DEF OutcomeInv, OutcomeIsKept, Queued
    <3> QED
      BY <1>2, <2>1, <3>2, <3>3 DEF OutcomeInv
  <2>3. CASE handler[r.lease] # "writing"
    <3>1. channel' = channel
      BY <1>4, <2>3 DEF WriteAloneRejected
    <3>2. OutcomeIsKept'
      BY <1>2, <2>1, <2>3, <3>1 DEF OutcomeInv, OutcomeIsKept
    <3> QED
      BY <1>2, <2>1, <3>1, <3>2 DEF OutcomeInv
  <2> QED
    BY <2>2, <2>3
<1> QED
  BY <1>3, <1>4

\* The end of a handler puts its outcome into the channel.
LEMMA HandlerStepKeeps ==
  ASSUME OutcomeInv, NEW l \in Lease, HandlerStep(l)
  PROVE  OutcomeInv'
<1>1. CASE \E kind \in {"complete", "retry", "fail"} : HandlerEnds(l, kind)
  <2>1. PICK kind \in {"complete", "retry", "fail"} : HandlerEnds(l, kind)
    BY <1>1
  <2>2. channel' \in Seq(Request) /\ Queued(l)' /\ \A k : Queued(k) => Queued(k)'
    BY <2>1, SendQueues DEF HandlerEnds, OutcomeInv
  <2>3. handler' = [handler EXCEPT ![l] = "writing"] /\ batch' = batch
    BY <2>1 DEF HandlerEnds
  <2>4. handler' \in [Lease -> Stage] /\ \A k \in Lease : handler'[k] = "writing" => k = l \/ handler[k] = "writing"
    BY <2>3 DEF OutcomeInv, Stage
  <2>5. OutcomeIsKept'
    BY <2>2, <2>3, <2>4 DEF OutcomeInv, OutcomeIsKept, Queued
  <2> QED
    BY <2>2, <2>3, <2>4, <2>5 DEF OutcomeInv
<1>2. CASE HandlerSuspends(l) \/ HandlerLosesLease(l) \/ HandlerLeaves(l)
  <2>1. (\E st \in {"ended", "none"} : handler' = [handler EXCEPT ![l] = st]) /\ UNCHANGED <<channel, batch>>
    BY <1>2 DEF HandlerSuspends, HandlerLosesLease, HandlerLeaves
  <2>2. handler' \in [Lease -> Stage] /\ \A k \in Lease : handler'[k] = "writing" => handler[k] = "writing"
    BY <2>1 DEF OutcomeInv, Stage
  <2> QED
    BY <2>1, <2>2, NoOutcomeMoves DEF OutcomeInv
<1> QED
  BY <1>1, <1>2 DEF HandlerStep, HandlerReturns, HandlerFails

\* For every number of tasks and every size of batch: the outcome of a handler
\* that waits for its reply is in the channel or in the batch of the writer.
THEOREM OutcomeIsKeptHolds == Spec => []OutcomeIsKept
<1>1. Init => OutcomeInv
  <2> SUFFICES ASSUME Init PROVE OutcomeInv
    OBVIOUS
  <2>1. handler \in [Lease -> Stage] /\ channel \in Seq(Request) /\ batch.requests = {}
    BY DEF Init, Stage, NoBatch
  <2>2. OutcomeIsKept
    BY DEF Init, OutcomeIsKept
  <2> QED
    BY <2>1, <2>2 DEF OutcomeInv
<1>2. OutcomeInv /\ [Next]_vars => OutcomeInv'
  <2> SUFFICES ASSUME OutcomeInv, [Next]_vars PROVE OutcomeInv'
    OBVIOUS
  <2>1. CASE \E l \in Lease : HandlerStep(l)
    BY <2>1, HandlerStepKeeps
  <2>2. CASE WriterStep
    <3>1. CASE WriteBatchFails
      <4>1. handler' = handler /\ channel' = channel /\ batch'.requests = batch.requests
        BY <3>1 DEF WriteBatchFails
      <4> QED
        BY <4>1, NoOutcomeMoves DEF OutcomeInv
    <3>2. CASE WriteBatch \/ \E r \in Turn : WriteAlone(r)
      BY <3>2, AnsweredKeeps DEF WriteBatch, WriteAlone
    <3> QED
      BY <2>2, <3>1, <3>2, CollectBatchKeeps, WriteAloneKeeps DEF WriterStep
  <2>3. CASE (\E t \in Task : LeaseIsLost(t)) \/ RenewerStep \/ AskShutdown \/ UNCHANGED vars
    <3>1. UNCHANGED <<handler, channel, batch>>
      BY <2>3 DEF LeaseIsLost, local, RenewerStep, RenewTick, RenewCommits, UpdateRenewedLeases,
         RenewFails, AskShutdown, vars
    <3> QED
      BY <3>1, NoOutcomeMoves DEF OutcomeInv
  <2>4. CASE ClaimStep
    <3>1. UNCHANGED <<channel, batch>>
      BY <2>4 DEF ClaimStep, ClaimQueue, ClaimFails
    <3>2. handler' = handler \/ \E leases : handler' = [l \in Lease |-> IF l \in leases THEN "running" ELSE handler[l]]
      BY <2>4 DEF ClaimStep, ClaimQueue, ClaimFails, Spawn
    <3>3. handler' \in [Lease -> Stage] /\ \A l \in Lease : handler'[l] = "writing" => handler[l] = "writing"
      BY <3>2 DEF OutcomeInv, Stage
    <3> QED
      BY <3>1, <3>3, NoOutcomeMoves DEF OutcomeInv
  <2>5. CASE DrainTable \/ ReleaseAborted \/ Crash
    <3>1. handler' = [l \in Lease |-> "none"]
      BY <2>5 DEF DrainTable, Joined, ReleaseAborted, Crash, Down
    <3>2. channel' \in Seq(Request) /\ batch'.requests \subseteq Request
      <4>1. CASE DrainTable
        BY <4>1 DEF DrainTable, OutcomeInv
      <4>2. CASE Down
        <5>1. channel' = <<>> /\ batch'.requests = {}
          BY <4>2 DEF Down, NoBatch
        <5> QED
          BY <5>1
      <4> QED
        BY <2>5, <4>1, <4>2 DEF ReleaseAborted, Crash
    <3>3. handler' \in [Lease -> Stage] /\ \A l \in Lease : handler'[l] # "writing"
      BY <3>1 DEF Stage
    <3> QED
      BY <3>2, <3>3, NoOutcomeMoves
  <2> QED
    BY <2>1, <2>2, <2>3, <2>4, <2>5 DEF Next, ShutdownStep
<1>3. OutcomeInv => OutcomeIsKept
  BY DEF OutcomeInv
<1> QED
  BY <1>1, <1>2, <1>3, PTL DEF Spec
===============================================================================
