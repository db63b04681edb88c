------------------------------ MODULE ServiceProofs ------------------------------
(***************************************************************************)
(* Two services around the kernel.  Replay is consistent for every handler, *)
(* every number of attempts and every interleaving of the attempts: what a *)
(* durable call returned is what its checkpoint holds, and a checkpoint is *)
(* written once.  And the admission limit stays in its range for every     *)
(* configured concurrency and every accepted configuration of the detector. *)
(***************************************************************************)
EXTENDS DurableCalls, OverloadControl, TLAPS

-------------------------------------------------------------------------------
(* Durable calls. *)

Phase == {"called", "missed", "operated", "fenced", "ended"}

DurableType ==
    /\ program \in Seq(Kind)
    /\ owner \in [state: {"pending", "running", "waiting"}, attempt: 0..MaxAttempts]
    /\ frame \in [Attempt -> [at: Nat, phase: Phase, value: Int]]
    /\ answers \in [Attempt -> Seq(Int)]
    /\ checkpoint \in [Call -> Int]
    /\ arrived \subseteq Call

\* Every answer is the stored value of its call.
AnswersAreStored ==
    \A a \in Attempt : \A i \in DOMAIN answers[a] :
        i \in Call /\ checkpoint[i] # None /\ answers[a][i] = checkpoint[i]

\* An attempt has answers for the calls before the one it is in.
AnswersSoFar ==
    \A a \in Attempt : frame[a].phase # "ended" => Len(answers[a]) = frame[a].at - 1

\* An attempt that was not claimed yet has done nothing.
NotClaimed ==
    \A a \in Attempt : a > owner.attempt => frame[a].phase = "ended" /\ answers[a] = <<>>

\* A parked task is in a wait whose outcome is not stored.
ParkedIsOpen ==
    owner.state = "waiting" =>
        /\ owner.attempt \in Attempt
        /\ frame[owner.attempt].phase = "ended"
        /\ frame[owner.attempt].at \in Call
        /\ program[frame[owner.attempt].at] \in {"signal", "result"}
        /\ checkpoint[frame[owner.attempt].at] = None

\* An operation that is over has a value.
OwnValue ==
    \A a \in Attempt : frame[a].phase \in {"operated", "fenced"} => frame[a].value # None

DurableInv ==
    /\ DurableType
    /\ AnswersAreStored
    /\ AnswersSoFar
    /\ NotClaimed
    /\ ParkedIsOpen
    /\ OwnValue
    /\ LostMeansLost

-------------------------------------------------------------------------------
\* The state of a task that was never claimed.
LEMMA DurableInitInv == DurableInit => DurableInv
<1> SUFFICES ASSUME DurableInit PROVE DurableInv
  OBVIOUS
<1> USE DurableAssumption DEF DurableInit
<1>1. DurableType
  BY DEF DurableType, Attempt, Call, None, NotStarted, Phase
<1>2. AnswersAreStored
  BY DEF AnswersAreStored
<1>3. AnswersSoFar /\ OwnValue /\ LostMeansLost
  BY DEF AnswersSoFar, OwnValue, LostMeansLost, InCall, NotStarted
<1>4. NotClaimed /\ ParkedIsOpen
  BY DEF NotClaimed, ParkedIsOpen, NotStarted
<1> QED
  BY <1>1, <1>2, <1>3, <1>4 DEF DurableInv

\* A claim starts the next attempt, which has no answer yet.
LEMMA ClaimTaskInv ==
  ASSUME DurableInv, ClaimTask
  PROVE  DurableInv'
<1> DEFINE n == owner.attempt + 1
<1>0. owner.attempt \in 0..MaxAttempts /\ MaxAttempts \in Nat
  BY DurableAssumption DEF DurableInv, DurableType
<1>1. n \in Attempt /\ owner.state = "pending"
  <2>1. owner.attempt < MaxAttempts /\ owner.state = "pending"
    BY DEF ClaimTask
  <2> QED
    BY <1>0, <2>1 DEF Attempt
<1>2. frame[n].phase = "ended" /\ answers[n] = <<>>
  <2>1. n > owner.attempt
    BY <1>0
  <2> QED
    BY <1>1, <2>1 DEF DurableInv, NotClaimed
<1>3. /\ frame' = [frame EXCEPT ![n] = [at |-> 1, phase |-> "called", value |-> None]]
      /\ owner' = [state |-> "running", attempt |-> n]
      /\ UNCHANGED <<program, answers, checkpoint, arrived>>
  BY DEF ClaimTask, MovesTo
<1> HIDE DEF n
<1> USE DEF DurableInv, DurableType
<1>4. DurableType'
  <2>1. [at |-> 1, phase |-> "called", value |-> None] \in [at: Nat, phase: Phase, value: Int]
    BY DEF Phase, None
  <2>2. frame' \in [Attempt -> [at: Nat, phase: Phase, value: Int]]
    BY <1>1, <1>3, <2>1
  <2>3. owner' \in [state: {"pending", "running", "waiting"}, attempt: 0..MaxAttempts]
    BY <1>1, <1>3, DurableAssumption DEF Attempt
  <2> QED
    BY <1>3, <2>2, <2>3 DEF Call
<1>5. AnswersAreStored'
  BY <1>3 DEF AnswersAreStored, Attempt, Call
<1>6. AnswersSoFar'
  BY <1>1, <1>2, <1>3 DEF AnswersSoFar
<1>7. NotClaimed'
  <2>1. \A a \in Attempt : a > n => a > owner.attempt /\ a # n
    <3>1. owner.attempt \in Int /\ Attempt \subseteq Int
      BY DurableAssumption DEF Attempt
    <3> HIDE DEF DurableInv, DurableType
    <3> QED
      BY <3>1 DEF n
  <2> QED
    BY <1>1, <1>3, <2>1 DEF NotClaimed
<1>8. ParkedIsOpen'
  BY <1>3 DEF ParkedIsOpen
<1>9. OwnValue'
  BY <1>1, <1>3 DEF OwnValue
<1>10. LostMeansLost'
  <2>1. \A a \in Attempt : HoldsLease(a)' => a = n
    BY <1>3 DEF HoldsLease
  <2>2. frame'[n].phase = "called"
    BY <1>1, <1>3
  <2> QED
    BY <2>1, <2>2 DEF LostMeansLost, InCall
<1> QED
  BY <1>4, <1>5, <1>6, <1>7, <1>8, <1>9, <1>10 DEF DurableInv

\* A step of the task around the handler that takes the lease away, and stores
\* nothing, or an outcome in the wait that the task is parked in.
LEMMA OwnerStepInv ==
  ASSUME DurableInv,
         NEW i, NEW v \in Int, v # None,
         owner' = [owner EXCEPT !.state = "pending"],
         \/ checkpoint' = checkpoint
         \/ /\ i \in Call /\ checkpoint[i] = None
            /\ checkpoint' = [checkpoint EXCEPT ![i] = v],
         arrived' \subseteq Call,
         UNCHANGED <<program, frame, answers>>
  PROVE  DurableInv'
<1> USE DEF DurableInv, DurableType
<1>1. owner'.state = "pending" /\ owner'.attempt = owner.attempt
  OBVIOUS
<1>2. DurableType'
  BY <1>1 DEF Call
<1>3. AnswersAreStored'
  BY DEF AnswersAreStored, Call
<1>4. AnswersSoFar' /\ OwnValue'
  BY DEF AnswersSoFar, OwnValue
<1>5. NotClaimed' /\ ParkedIsOpen'
  BY <1>1 DEF NotClaimed, ParkedIsOpen
<1>6. LostMeansLost'
  BY <1>1 DEF LostMeansLost, HoldsLease
<1> QED
  BY <1>2, <1>3, <1>4, <1>5, <1>6 DEF DurableInv

\* A lease that ends, by expiry, release or failure.
LEMMA LeaseEndsInv ==
  ASSUME DurableInv, LeaseEnds
  PROVE  DurableInv'
<1>1. arrived' \subseteq Call
  BY DEF DurableInv, DurableType, LeaseEnds
<1> QED
  BY <1>1, OwnerStepInv, ArrivedValue # None DEF LeaseEnds, ArrivedValue, None

\* The end of a wait by its timeout.
LEMMA WaitTimesOutInv ==
  ASSUME DurableInv, WaitTimesOut
  PROVE  DurableInv'
<1>1. /\ frame[owner.attempt].at \in Call
      /\ checkpoint[frame[owner.attempt].at] = None
  BY DEF DurableInv, ParkedIsOpen, WaitTimesOut
<1>2. arrived' \subseteq Call
  BY DEF DurableInv, DurableType, WaitTimesOut
<1>3. TimedOutValue \in Int /\ TimedOutValue # None
  BY DEF TimedOutValue, None
<1> QED
  BY <1>1, <1>2, <1>3, OwnerStepInv DEF WaitTimesOut

\* A signal or a result that arrives, with a task parked on it or without.
LEMMA ArrivesInv ==
  ASSUME DurableInv, NEW i \in Call, Arrives(i)
  PROVE  DurableInv'
<1>1. arrived' \subseteq Call /\ UNCHANGED <<program, frame, answers>>
  BY DEF DurableInv, DurableType, Arrives
<1>2. CASE owner.state = "waiting" /\ frame[owner.attempt].at = i
  <2>1. checkpoint[i] = None
    BY <1>2 DEF DurableInv, ParkedIsOpen
  <2>2. /\ checkpoint' = [checkpoint EXCEPT ![i] = ArrivedValue]
        /\ owner' = [owner EXCEPT !.state = "pending"]
    BY <1>2 DEF Arrives
  <2>3. ArrivedValue \in Int /\ ArrivedValue # None
    BY DEF ArrivedValue, None
  <2> QED
    BY <1>1, <2>1, <2>2, <2>3, OwnerStepInv
<1>3. CASE ~(owner.state = "waiting" /\ frame[owner.attempt].at = i)
  <2>1. UNCHANGED <<checkpoint, owner>>
    BY <1>3 DEF Arrives
  <2> QED
    BY <1>1, <2>1 DEF DurableInv, DurableType, AnswersAreStored, AnswersSoFar, NotClaimed,
                      ParkedIsOpen, OwnValue, LostMeansLost, InCall, HoldsLease, Stored, Call
<1> QED
  BY <1>2, <1>3

-------------------------------------------------------------------------------
(* The steps of an attempt, all of one form. *)

\* A checkpoint of the call that attempt a is in: none is written, or the first.
WritesFirst(a) ==
    \/ checkpoint' = checkpoint
    \/ /\ frame[a].at \in Call /\ Stored(a) = None
       /\ \E v \in Int : v # None /\ checkpoint' = [checkpoint EXCEPT ![frame[a].at] = v]

\* An attempt that has lost its lease writes in steps only.
WritesFenced(a) ==
    checkpoint' # checkpoint => HoldsLease(a) \/ program[frame[a].at] = "step"

\* The sleep of an attempt that keeps its lease has no checkpoint.
MissesRight(a) ==
    InCall(a, "sleep", "missed")' /\ HoldsLease(a)' => Stored(a)' = None

\* It returns what is stored, or it returns nothing.
AnswersFirst(a) ==
    \/ answers' = answers /\ (frame'[a].phase = "ended" \/ frame'[a].at = frame[a].at)
    \/ /\ frame[a].at \in Call /\ checkpoint'[frame[a].at] # None
       /\ frame'[a].at = frame[a].at + 1
       /\ answers' = [answers EXCEPT ![a] = Append(@, checkpoint'[frame[a].at])]

\* It keeps the task, gives it back, or parks it in its wait.
OwnerMoves(a) ==
    \/ owner' = owner
    \/ HoldsLease(a) /\ owner' = [owner EXCEPT !.state = "pending"]
    \/ /\ HoldsLease(a) /\ owner' = [owner EXCEPT !.state = "waiting"]
       /\ checkpoint' = checkpoint
       /\ frame'[a].phase = "ended" /\ frame'[a].at = frame[a].at
       /\ frame[a].at \in Call /\ Stored(a) = None
       /\ program[frame[a].at] \in {"signal", "result"}

AttemptMoves(a) ==
    /\ frame[a].phase # "ended"
    /\ \E f \in [at: Nat, phase: Phase, value: Int] :
          /\ f.phase \in {"operated", "fenced"} => f.value # None
          /\ frame' = [frame EXCEPT ![a] = f]
    /\ WritesFirst(a) /\ WritesFenced(a) /\ MissesRight(a)
    /\ AnswersFirst(a)
    /\ OwnerMoves(a)
    /\ UNCHANGED <<program, arrived>>

\* The entries of a sequence with one more answer.
LEMMA AppendEntries ==
  ASSUME NEW q \in Seq(Int), NEW v \in Int
  PROVE  \A i \in DOMAIN Append(q, v) :
             \/ i = Len(q) + 1 /\ Append(q, v)[i] = v
             \/ i \in DOMAIN q /\ Append(q, v)[i] = q[i]
  OBVIOUS

\* A step of that form keeps the invariant: it overwrites no value that some
\* attempt was given, and writes nothing into a wait that is open or a sleep that
\* the holder of the lease is about to write.
LEMMA AttemptMovesInv ==
  ASSUME DurableInv, NEW a \in Attempt, AttemptMoves(a)
  PROVE  DurableInv'
<1> USE DEF DurableInv, DurableType
<1>1. PICK f \in [at: Nat, phase: Phase, value: Int] :
          /\ f.phase \in {"operated", "fenced"} => f.value # None
          /\ frame' = [frame EXCEPT ![a] = f]
  BY DEF AttemptMoves
<1>2. /\ WritesFirst(a) /\ WritesFenced(a) /\ MissesRight(a) /\ AnswersFirst(a) /\ OwnerMoves(a)
      /\ frame[a].phase # "ended"
      /\ program' = program /\ arrived' = arrived /\ Call' = Call
  BY DEF AttemptMoves, Call
<1>3. frame'[a] = f /\ \A b \in Attempt : b # a => frame'[b] = frame[b]
  BY <1>1
<1>4. checkpoint' \in [Call -> Int]
  BY <1>2 DEF WritesFirst, Stored
<1>5. \A i \in Call : checkpoint[i] # None => checkpoint'[i] = checkpoint[i]
  BY <1>2 DEF WritesFirst, Stored
<1>6. owner'.attempt = owner.attempt /\ owner' \in [state: {"pending", "running", "waiting"}, attempt: 0..MaxAttempts]
  BY <1>2 DEF OwnerMoves
<1>7. answers' \in [Attempt -> Seq(Int)]
  <2>1. CASE answers' = answers
    BY <2>1
  <2>2. CASE answers' # answers
    <3>1. /\ frame[a].at \in Call
          /\ answers' = [answers EXCEPT ![a] = Append(answers[a], checkpoint'[frame[a].at])]
      BY <1>2, <2>2 DEF AnswersFirst
    <3>2. Append(answers[a], checkpoint'[frame[a].at]) \in Seq(Int)
      BY <1>4, <3>1
    <3> QED
      BY <3>1, <3>2
  <2> QED
    BY <2>1, <2>2
<1>8. DurableType'
  BY <1>1, <1>2, <1>4, <1>6, <1>7
<1>9. AnswersAreStored'
  <2>1. \A b \in Attempt : \A i \in DOMAIN answers[b] :
            i \in Call /\ checkpoint'[i] # None /\ answers[b][i] = checkpoint'[i]
    BY <1>5 DEF AnswersAreStored
  <2>2. CASE answers' = answers
    BY <1>2, <2>1, <2>2 DEF AnswersAreStored
  <2>3. CASE answers' # answers
    <3>1. /\ frame[a].at \in Call /\ checkpoint'[frame[a].at] # None
          /\ answers' = [answers EXCEPT ![a] = Append(answers[a], checkpoint'[frame[a].at])]
      BY <1>2, <2>3 DEF AnswersFirst
    <3>2. Len(answers[a]) = frame[a].at - 1
      BY <1>2 DEF AnswersSoFar
    <3>3. checkpoint'[frame[a].at] \in Int /\ answers[a] \in Seq(Int) /\ frame[a].at \in Nat
      BY <1>4, <3>1
    <3>4. \A i \in DOMAIN answers'[a] :
              i \in Call /\ checkpoint'[i] # None /\ answers'[a][i] = checkpoint'[i]
      <4>1. answers'[a] = Append(answers[a], checkpoint'[frame[a].at])
        BY <3>1
      <4>2. \A i \in DOMAIN answers'[a] :
                \/ i = frame[a].at /\ answers'[a][i] = checkpoint'[frame[a].at]
                \/ i \in DOMAIN answers[a] /\ answers'[a][i] = answers[a][i]
        <5>1. PICK q \in Seq(Int), v \in Int :
                  q = answers[a] /\ v = checkpoint'[frame[a].at]
          BY <3>3
        <5>2. answers'[a] = Append(q, v) /\ frame[a].at = Len(q) + 1
          BY <3>2, <3>3, <4>1, <5>1
        <5> HIDE DEF DurableInv, DurableType
        <5> QED
          BY <5>1, <5>2, AppendEntries
      <4> QED
        BY <2>1, <3>1, <4>2
    <3>5. \A b \in Attempt : b # a => answers'[b] = answers[b]
      BY <3>1
    <3>6. \A b \in Attempt : \A i \in DOMAIN answers'[b] :
              i \in Call /\ checkpoint'[i] # None /\ answers'[b][i] = checkpoint'[i]
      <4> TAKE b \in Attempt
      <4>1. CASE b = a
        BY <3>4, <4>1
      <4>2. CASE b # a
        BY <2>1, <3>5, <4>2
      <4> QED
        BY <4>1, <4>2
    <3> QED
      BY <1>2, <3>6 DEF AnswersAreStored
  <2> QED
    BY <2>2, <2>3
<1>10. AnswersSoFar'
  <2>1. CASE answers' = answers
    <3>1. frame'[a].phase = "ended" \/ frame'[a].at = frame[a].at
      <4>1. answers[a] # Append(answers[a], checkpoint'[frame[a].at])
        <5>1. CASE frame[a].at \in Call
          <6>1. Len(Append(answers[a], checkpoint'[frame[a].at])) = Len(answers[a]) + 1
            BY <1>4, <5>1
          <6> QED
            BY <6>1
        <5> QED
          BY <5>1
      <4> QED
        BY <1>2, <2>1, <4>1 DEF AnswersFirst
    <3>2. Len(answers[a]) = frame[a].at - 1
      BY <1>2 DEF AnswersSoFar
    <3> QED
      BY <1>3, <2>1, <3>1, <3>2 DEF AnswersSoFar
  <2>2. CASE answers' # answers
    <3>1. /\ frame'[a].at = frame[a].at + 1 /\ frame[a].at \in Call
          /\ answers' = [answers EXCEPT ![a] = Append(answers[a], checkpoint'[frame[a].at])]
      BY <1>2, <2>2 DEF AnswersFirst
    <3>2. Len(answers'[a]) = Len(answers[a]) + 1
      BY <1>4, <3>1
    <3>3. Len(answers[a]) = frame[a].at - 1 /\ frame[a].at \in Nat
      BY <1>2 DEF AnswersSoFar
    <3>4. \A b \in Attempt : b # a => answers'[b] = answers[b]
      BY <3>1
    <3>5. Len(answers'[a]) = frame'[a].at - 1
      BY <3>1, <3>2, <3>3
    <3> QED
      BY <1>3, <3>4, <3>5 DEF AnswersSoFar
  <2> QED
    BY <2>1, <2>2
<1>11. NotClaimed'
  <2>1. ~(a > owner.attempt)
    BY <1>2 DEF NotClaimed
  <2>2. \A b \in Attempt : b # a => answers'[b] = answers[b]
    BY <1>2 DEF AnswersFirst
  <2> QED
    BY <1>3, <1>6, <2>1, <2>2 DEF NotClaimed
<1>12. ParkedIsOpen'
  <2>1. CASE owner' = owner /\ owner.state = "waiting"
    <3>1. a # owner.attempt /\ ~HoldsLease(a)
      BY <1>2, <2>1 DEF ParkedIsOpen, HoldsLease
    <3>2. checkpoint' # checkpoint => program[frame[a].at] = "step"
      BY <1>2, <3>1 DEF WritesFenced
    <3>3. checkpoint'[frame[owner.attempt].at] = None
      BY <1>2, <2>1, <3>2 DEF ParkedIsOpen, WritesFirst
    <3> QED
      BY <1>2, <1>3, <2>1, <3>1, <3>3 DEF ParkedIsOpen
  <2>2. CASE owner' # owner /\ owner'.state = "waiting"
    BY <1>2, <2>2 DEF OwnerMoves, ParkedIsOpen, HoldsLease, Stored
  <2>3. CASE owner'.state # "waiting"
    BY <2>3 DEF ParkedIsOpen
  <2> QED
    BY <2>1, <2>2, <2>3
<1>13. OwnValue'
  BY <1>1, <1>3 DEF OwnValue
<1>14. LostMeansLost'
  <2>1. ASSUME NEW b \in Attempt, InCall(b, "sleep", "missed")', HoldsLease(b)', b # a
        PROVE  Stored(b)' = None
    <3>1. HoldsLease(b) /\ ~HoldsLease(a)
      BY <1>2, <2>1 DEF OwnerMoves, HoldsLease
    <3>2. InCall(b, "sleep", "missed")
      BY <1>2, <1>3, <2>1 DEF InCall
    <3>3. Stored(b) = None
      BY <3>1, <3>2 DEF LostMeansLost
    <3>4. checkpoint'[frame[b].at] = checkpoint[frame[b].at]
      BY <1>2, <3>1, <3>2 DEF WritesFirst, WritesFenced, InCall
    <3> QED
      BY <1>3, <2>1, <3>3, <3>4 DEF Stored
  <2> QED
    BY <1>2, <2>1 DEF LostMeansLost, MissesRight
<1> QED
  BY <1>8, <1>9, <1>10, <1>11, <1>12, <1>13, <1>14 DEF DurableInv

-------------------------------------------------------------------------------
(* Each call of TaskContext is such a step. *)

\* get_checkpoint returns the stored value, or finds none.
LEMMA GetCheckpointMoves ==
  ASSUME DurableInv, NEW a \in Attempt, GetCheckpoint(a)
  PROVE  AttemptMoves(a)
<1> USE DEF DurableInv, DurableType
<1>1. /\ frame[a].phase = "called" /\ frame[a].at \in Call /\ frame[a].at \in Nat
      /\ UNCHANGED <<program, owner, checkpoint, arrived>>
  BY DEF GetCheckpoint
<1>2. CASE Stored(a) # None
  <2>1. /\ frame' = [frame EXCEPT ![a] = [at |-> frame[a].at + 1, phase |-> "called", value |-> None]]
        /\ answers' = [answers EXCEPT ![a] = Append(@, checkpoint'[frame[a].at])]
    BY <1>1, <1>2 DEF GetCheckpoint, Returns, MovesTo, Stored
  <2>2. [at |-> frame[a].at + 1, phase |-> "called", value |-> None] \in [at: Nat, phase: Phase, value: Int]
    BY <1>1 DEF Phase, None
  <2>3. frame'[a].at = frame[a].at + 1 /\ frame'[a].phase = "called"
    BY <2>1
  <2>4. AnswersFirst(a)
    BY <1>1, <1>2, <2>1, <2>3 DEF AnswersFirst, Stored
  <2>5. MissesRight(a)
    BY <2>3 DEF MissesRight, InCall
  <2> QED
    BY <1>1, <2>1, <2>2, <2>4, <2>5 DEF AttemptMoves, WritesFirst, WritesFenced, OwnerMoves
<1>3. CASE Stored(a) = None
  <2>1. /\ frame' = [frame EXCEPT ![a] = [at |-> frame[a].at, phase |-> "missed", value |-> None]]
        /\ answers' = answers
    BY <1>1, <1>3 DEF GetCheckpoint, MovesTo
  <2>2. [at |-> frame[a].at, phase |-> "missed", value |-> None] \in [at: Nat, phase: Phase, value: Int]
    BY <1>1 DEF Phase, None
  <2>3. frame'[a].at = frame[a].at
    BY <2>1
  <2>4. AnswersFirst(a) /\ MissesRight(a)
    BY <1>1, <1>3, <2>1, <2>3 DEF AnswersFirst, MissesRight, Stored
  <2> QED
    BY <1>1, <2>1, <2>2, <2>4 DEF AttemptMoves, WritesFirst, WritesFenced, OwnerMoves
<1> QED
  BY <1>2, <1>3

\* The operation of a step, and the read of the fence of commit_checkpoint.
LEMMA OperationMoves ==
  ASSUME DurableInv, NEW a \in Attempt, Operation(a) \/ CommitFence(a)
  PROVE  AttemptMoves(a)
<1> USE DEF DurableInv, DurableType
<1>1. /\ frame[a].phase \in {"missed", "operated"} /\ frame[a].at \in Nat
      /\ UNCHANGED <<program, owner, answers, checkpoint, arrived>>
  BY DEF Operation, CommitFence, InCall
<1>2. PICK phase \in {"operated", "fenced"}, v \in Int :
          v # None /\ frame' = [frame EXCEPT ![a] = [at |-> frame[a].at, phase |-> phase, value |-> v]]
  <2>1. CASE Operation(a)
    <3>1. a \in Int /\ a # None
      BY DurableAssumption DEF None, Attempt
    <3>2. frame' = [frame EXCEPT ![a] = [at |-> frame[a].at, phase |-> "operated", value |-> a]]
      BY <2>1 DEF Operation, MovesTo
    <3> QED
      BY <3>1, <3>2
  <2>2. CASE CommitFence(a)
    BY <2>2 DEF CommitFence, MovesTo, InCall, OwnValue
  <2> QED
    BY <2>1, <2>2
<1>3. [at |-> frame[a].at, phase |-> phase, value |-> v] \in [at: Nat, phase: Phase, value: Int]
  BY <1>1 DEF Phase
<1>4. frame'[a].at = frame[a].at /\ frame'[a].phase \in {"operated", "fenced"}
  BY <1>2
<1>5. AnswersFirst(a) /\ MissesRight(a)
  BY <1>1, <1>4 DEF AnswersFirst, MissesRight, InCall
<1> QED
  BY <1>1, <1>2, <1>3, <1>5 DEF AttemptMoves, WritesFirst, WritesFenced, OwnerMoves

\* Storing the first of what is stored and a value: the form of every write.
LEMMA StoresFirst ==
  ASSUME DurableInv, NEW a \in Attempt, frame[a].at \in Call,
         NEW v \in Int, v # None, Stores(a, FirstOf(a, v))
  PROVE  /\ WritesFirst(a)
         /\ checkpoint'[frame[a].at] = FirstOf(a, v)
         /\ FirstOf(a, v) # None /\ FirstOf(a, v) \in Int
<1> USE DEF DurableInv, DurableType
<1>1. checkpoint' = [checkpoint EXCEPT ![frame[a].at] = FirstOf(a, v)]
  BY DEF Stores
<1>2. CASE Stored(a) = None
  <2>1. FirstOf(a, v) = v
    BY <1>2 DEF FirstOf
  <2> QED
    BY <1>1, <1>2, <2>1 DEF WritesFirst
<1>3. CASE Stored(a) # None
  <2>1. FirstOf(a, v) = checkpoint[frame[a].at]
    BY <1>3 DEF FirstOf, Stored
  <2>2. checkpoint' = checkpoint
    BY <1>1, <2>1
  <2> QED
    BY <1>3, <2>1, <2>2 DEF WritesFirst, Stored
<1> QED
  BY <1>2, <1>3

\* A call that stores and returns: commit_checkpoint, spawn_task, and a wait whose
\* outcome is there.
LEMMA StoreAndReturnMoves ==
  ASSUME DurableInv, NEW a \in Attempt, frame[a].at \in Call, frame[a].phase # "ended",
         NEW v \in Int, v # None, Stores(a, FirstOf(a, v)), Returns(a, FirstOf(a, v)),
         HoldsLease(a) \/ program[frame[a].at] = "step",
         UNCHANGED <<program, owner, arrived>>
  PROVE  AttemptMoves(a)
<1> USE DEF DurableInv, DurableType
<1>1. WritesFirst(a) /\ checkpoint'[frame[a].at] = FirstOf(a, v) /\ FirstOf(a, v) # None
  BY StoresFirst
<1>2. /\ frame' = [frame EXCEPT ![a] = [at |-> frame[a].at + 1, phase |-> "called", value |-> None]]
      /\ answers' = [answers EXCEPT ![a] = Append(@, checkpoint'[frame[a].at])]
  BY <1>1 DEF Returns, MovesTo
<1>3. [at |-> frame[a].at + 1, phase |-> "called", value |-> None] \in [at: Nat, phase: Phase, value: Int]
  BY DEF Phase, None
<1>4. frame'[a].at = frame[a].at + 1 /\ frame'[a].phase = "called"
  BY <1>2
<1>5. AnswersFirst(a) /\ MissesRight(a)
  BY <1>1, <1>2, <1>4 DEF AnswersFirst, MissesRight, InCall
<1> QED
  BY <1>1, <1>2, <1>3, <1>5 DEF AttemptMoves, WritesFenced, OwnerMoves

\* A call that ends the attempt, whatever it stored before.
LEMMA EndsMoves ==
  ASSUME DurableInv, NEW a \in Attempt, frame[a].phase # "ended", Ends(a),
         WritesFirst(a), WritesFenced(a), OwnerMoves(a),
         UNCHANGED <<program, arrived>>
  PROVE  AttemptMoves(a)
<1> USE DEF DurableInv, DurableType
<1>1. /\ frame' = [frame EXCEPT ![a] = [at |-> frame[a].at, phase |-> "ended", value |-> None]]
      /\ answers' = answers
  BY DEF Ends, MovesTo
<1>2. [at |-> frame[a].at, phase |-> "ended", value |-> None] \in [at: Nat, phase: Phase, value: Int]
  BY DEF Phase, None
<1>3. frame'[a].phase = "ended"
  BY <1>1
<1>4. AnswersFirst(a) /\ MissesRight(a)
  BY <1>1, <1>3 DEF AnswersFirst, MissesRight, InCall
<1> QED
  BY <1>1, <1>2, <1>4 DEF AttemptMoves

\* commit_checkpoint inserts and answers with the stored value.
LEMMA CommitCheckpointMoves ==
  ASSUME DurableInv, NEW a \in Attempt, CommitCheckpoint(a)
  PROVE  AttemptMoves(a)
<1>1. frame[a].value \in Int /\ frame[a].value # None
  BY DEF DurableInv, DurableType, OwnValue, CommitCheckpoint, InCall
<1>2. /\ frame[a].at \in Call /\ frame[a].phase # "ended" /\ program[frame[a].at] = "step"
      /\ Stores(a, FirstOf(a, frame[a].value)) /\ Returns(a, FirstOf(a, frame[a].value))
      /\ UNCHANGED <<program, owner, arrived>>
  BY DEF CommitCheckpoint, CommitAnswer, InCall
<1> QED
  BY <1>1, <1>2, StoreAndReturnMoves

\* spawn_task answers with the recorded child, or the one it adds.
LEMMA SpawnMoves ==
  ASSUME DurableInv, NEW a \in Attempt, Spawn(a)
  PROVE  AttemptMoves(a)
<1>1. a \in Int /\ a # None
  BY DurableAssumption DEF Attempt, None
<1>2. /\ frame[a].at \in Call /\ frame[a].phase # "ended" /\ HoldsLease(a)
      /\ Stores(a, FirstOf(a, a)) /\ Returns(a, FirstOf(a, a))
      /\ UNCHANGED <<program, owner, arrived>>
  BY DEF Spawn, SpawnTask, InCall
<1> QED
  BY <1>1, <1>2, StoreAndReturnMoves

\* suspend_task writes a checkpoint that was not there and gives the task back.
LEMMA SleepMoves ==
  ASSUME DurableInv, NEW a \in Attempt, Sleep(a)
  PROVE  AttemptMoves(a)
<1>1. /\ frame[a].at \in Call /\ frame[a].phase # "ended" /\ HoldsLease(a) /\ Stored(a) = None
      /\ checkpoint' = [checkpoint EXCEPT ![frame[a].at] = TimedOutValue]
      /\ owner' = [owner EXCEPT !.state = "pending"]
      /\ Ends(a) /\ UNCHANGED <<program, arrived>>
  BY DEF Sleep, SuspendTask, Stores, InCall
<1>2. TimedOutValue \in Int /\ TimedOutValue # None
  BY DEF TimedOutValue, None
<1>3. WritesFirst(a) /\ WritesFenced(a) /\ OwnerMoves(a)
  BY <1>1, <1>2 DEF WritesFirst, WritesFenced, OwnerMoves
<1> QED
  BY <1>1, <1>3, EndsMoves

\* wait_for_signal and wait_for_result answer with what is stored, store what has
\* arrived, or park the task.
LEMMA WaitForMoves ==
  ASSUME DurableInv, NEW a \in Attempt, WaitForSignal(a) \/ WaitForResult(a)
  PROVE  AttemptMoves(a)
<1>1. PICK kind \in {"signal", "result"} : WaitFor(a, kind)
  BY DEF WaitForSignal, WaitForResult
<1>2. /\ frame[a].at \in Call /\ frame[a].phase # "ended" /\ HoldsLease(a)
      /\ program[frame[a].at] \in {"signal", "result"}
      /\ UNCHANGED <<program, arrived>>
  BY <1>1 DEF WaitFor, InCall
<1>3. CASE Stored(a) # None \/ frame[a].at \in arrived
  <2>1. ArrivedValue \in Int /\ ArrivedValue # None
    BY DEF ArrivedValue, None
  <2>2. /\ Stores(a, FirstOf(a, ArrivedValue)) /\ Returns(a, FirstOf(a, ArrivedValue))
        /\ UNCHANGED owner
    BY <1>1, <1>3 DEF WaitFor
  <2> QED
    BY <1>2, <2>1, <2>2, StoreAndReturnMoves
<1>4. CASE Stored(a) = None /\ frame[a].at \notin arrived
  <2>1. owner' = [owner EXCEPT !.state = "waiting"] /\ checkpoint' = checkpoint /\ Ends(a)
    BY <1>1, <1>4 DEF WaitFor
  <2>2. frame'[a].phase = "ended" /\ frame'[a].at = frame[a].at
    BY <2>1 DEF Ends, MovesTo, DurableInv, DurableType
  <2>3. WritesFirst(a) /\ WritesFenced(a) /\ OwnerMoves(a)
    BY <1>2, <1>4, <2>1, <2>2 DEF WritesFirst, WritesFenced, OwnerMoves
  <2> QED
    BY <1>2, <2>1, <2>3, EndsMoves
<1> QED
  BY <1>3, <1>4

\* A statement that commits without its caller hearing of it stores what it would
\* have answered; an attempt that ends stores nothing.
LEMMA ErrorMoves ==
  ASSUME DurableInv, NEW a \in Attempt, ReplyLost(a) \/ AttemptEnds(a)
  PROVE  AttemptMoves(a)
<1>1. CASE AttemptEnds(a)
  <2>1. frame[a].phase # "ended" /\ Ends(a) /\ UNCHANGED <<program, owner, checkpoint, arrived>>
    BY <1>1 DEF AttemptEnds
  <2>2. WritesFirst(a) /\ WritesFenced(a) /\ OwnerMoves(a)
    BY <2>1 DEF WritesFirst, WritesFenced, OwnerMoves
  <2> QED
    BY <2>1, <2>2, EndsMoves
<1>2. CASE ReplyLost(a)
  <2>1. frame[a].phase # "ended" /\ frame[a].at \in Call /\ Ends(a) /\ UNCHANGED <<program, owner, arrived>>
    BY <1>2 DEF ReplyLost, InCall
  <2>2. PICK v \in Int : v # None /\ Stores(a, FirstOf(a, v))
    <3>1. a \in Int /\ a # None
      BY DurableAssumption DEF Attempt, None
    <3>2. frame[a].phase = "fenced" => frame[a].value \in Int /\ frame[a].value # None
      BY DEF DurableInv, DurableType, OwnValue
    <3> QED
      BY <1>2, <3>1, <3>2 DEF ReplyLost, InCall, SpawnTask
  <2>3. WritesFirst(a)
    BY <2>1, <2>2, StoresFirst
  <2>4. HoldsLease(a) \/ program[frame[a].at] = "step"
    BY <1>2 DEF ReplyLost, InCall, SpawnTask
  <2>5. WritesFenced(a) /\ OwnerMoves(a)
    BY <2>1, <2>4 DEF WritesFenced, OwnerMoves
  <2> QED
    BY <2>1, <2>3, <2>5, EndsMoves
<1> QED
  BY <1>1, <1>2

-------------------------------------------------------------------------------
\* Every step of the task and of its attempts keeps the invariant.
LEMMA DurableStepInv == DurableInv /\ [DurableNext]_durableVars => DurableInv'
<1> SUFFICES ASSUME DurableInv, [DurableNext]_durableVars PROVE DurableInv'
  OBVIOUS
<1>1. CASE ClaimTask
  BY <1>1, ClaimTaskInv
<1>2. CASE LeaseEnds
  BY <1>2, LeaseEndsInv
<1>3. CASE WaitTimesOut
  BY <1>3, WaitTimesOutInv
<1>4. CASE \E i \in Call : Arrives(i)
  BY <1>4, ArrivesInv
<1>5. ASSUME NEW a \in Attempt,
             \/ GetCheckpoint(a) \/ Operation(a) \/ CommitFence(a) \/ CommitCheckpoint(a)
             \/ Sleep(a) \/ WaitForSignal(a) \/ WaitForResult(a) \/ Spawn(a)
             \/ ReplyLost(a) \/ AttemptEnds(a)
      PROVE  DurableInv'
  <2>1. AttemptMoves(a)
    BY <1>5, GetCheckpointMoves, OperationMoves, CommitCheckpointMoves, SleepMoves,
       WaitForMoves, SpawnMoves, ErrorMoves
  <2> QED
    BY <2>1, AttemptMovesInv
<1>6. CASE UNCHANGED durableVars
  BY <1>6 DEF durableVars, DurableInv, DurableType, AnswersAreStored, AnswersSoFar, NotClaimed,
     ParkedIsOpen, OwnValue, LostMeansLost, InCall, HoldsLease, Stored, Call
<1> QED
  BY <1>1, <1>2, <1>3, <1>4, <1>5, <1>6 DEF DurableNext

\* For every handler: two attempts of a task, the one that lost its lease
\* included, get the same value from the same durable call.
THEOREM ReplayAgreesHolds == DurableSpec => []ReplayAgrees
<1>1. DurableInv => ReplayAgrees
  BY DEF DurableInv, AnswersAreStored, ReplayAgrees
<1> QED
  BY <1>1, DurableInitInv, DurableStepInv, PTL DEF DurableSpec

\* For every handler: suspend_task, called by the attempt that holds the lease,
\* never meets a checkpoint, so the NULL that it answers means a lost lease.
THEOREM LostMeansLostHolds == DurableSpec => []LostMeansLost
<1>1. DurableInv => LostMeansLost
  BY DEF DurableInv
<1> QED
  BY <1>1, DurableInitInv, DurableStepInv, PTL DEF DurableSpec

-------------------------------------------------------------------------------
(* Overload control. *)

\* LimitInRange is inductive once the minimum of the detector is known to be one
\* that Worker::new accepts.
OverloadInv == config \in Accepted /\ LimitInRange

\* What observe proposes is a limit, from any limit that it reads: the halved
\* limit has the minimum as its floor, the raised one the configured limit.
LEMMA ProposeInRange ==
  ASSUME OverloadInv, NEW pressure \in BOOLEAN
  PROVE  Propose(pressure) \in 1..Configured
<1>1. effective \in 1..Configured /\ config.minimum \in 1..Configured
  BY DEF OverloadInv, LimitInRange, Accepted
<1>2. Configured \in Nat
  BY OverloadAssumption
<1>3. effective \div 2 \in 0..Configured
  BY <1>1, <1>2
<1> QED
  BY <1>1, <1>2, <1>3 DEF Propose

\* The state in which Worker::new starts the detector.
LEMMA OverloadInitInv == OverloadInit => OverloadInv
  BY OverloadAssumption DEF OverloadInit, OverloadInv, LimitInRange

\* Every step of the loops, of the application and of the detector keeps it, a
\* write of the application between the detector's read and its write included.
LEMMA OverloadStepInv ==
  ASSUME OverloadInv, [OverloadNext]_overloadVars
  PROVE  OverloadInv'
<1> USE DEF OverloadInv, LimitInRange
<1>1. CASE HealthChanges
  <2>1. UNCHANGED <<config, effective, proposed, decision>>
    BY <1>1 DEF HealthChanges, HeartbeatWorker, SetActiveLeases, RecordLeaseRenewal,
                RuntimeProgress, RenewalAges
  <2> QED
    BY <2>1
<1>2. ASSUME NEW n \in 1..Configured, SetEffectiveConcurrency(n)
      PROVE  OverloadInv'
  BY <1>2 DEF SetEffectiveConcurrency
<1>3. CASE Observe
  <2>1. Pressure(LagSamples) \in BOOLEAN
    BY DEF Pressure, LeaseRenewalLate
  <2>2. Propose(Pressure(LagSamples)) \in 1..Configured
    BY <2>1, ProposeInRange
  <2>3. decision' \in 0..Configured
    BY <1>3, <2>2, OverloadAssumption DEF Observe
  <2>4. UNCHANGED <<config, effective, proposed>>
    BY <1>3 DEF Observe
  <2> QED
    BY <2>3, <2>4
<1>4. CASE ApplyDecision
  <2>1. decision \in 1..Configured
    BY <1>4, OverloadAssumption DEF ApplyDecision
  <2>2. effective' \in 1..Configured /\ proposed' \in 1..Configured
    BY <1>4, <2>1 DEF ApplyDecision
  <2>3. decision' = 0 /\ config' = config
    BY <1>4 DEF ApplyDecision
  <2> QED
    BY <2>2, <2>3, OverloadAssumption
<1>5. CASE UNCHANGED overloadVars
  BY <1>5 DEF overloadVars
<1> QED
  BY <1>1, <1>2, <1>3, <1>4, <1>5 DEF OverloadNext

\* The limit, the proposal and a limit on its way stay between 1 and the
\* configured concurrency: the "expect" calls of WorkerControl and of the detector
\* never panic, however the application's writes fall between the detector's read
\* of the limit and its write.
THEOREM LimitInRangeHolds == OverloadSpec => []LimitInRange
<1>1. OverloadInit => OverloadInv
  BY OverloadInitInv
<1>2. OverloadInv /\ [OverloadNext]_overloadVars => OverloadInv'
  BY OverloadStepInv
<1>3. OverloadInv => LimitInRange
  BY DEF OverloadInv
<1> QED
  BY <1>1, <1>2, <1>3, PTL DEF OverloadSpec
===============================================================================
