------------------------------ MODULE DurableCalls ------------------------------
(***************************************************************************)
(* A handler as its TaskContext runs it: a sequence of durable calls (step, *)
(* sleep, wait_for_signal, wait_for_result, spawn), each a read of the      *)
(* checkpoint and then a statement of its own.  Attempts of one task        *)
(* overlap: an attempt whose lease was lost goes on until it notices.       *)
(*                                                                         *)
(* The task and its checkpoints are those of TaskKernel, reduced to one     *)
(* task; here the answers of the calls are kept.                            *)
(***************************************************************************)
EXTENDS Integers, Sequences

CONSTANTS
    Programs,     \* handlers: sequences of kinds of durable calls
    MaxAttempts   \* bound: claims of the task

Kind == {"step", "sleep", "signal", "result", "spawn"}

ASSUME DurableAssumption == Programs \subseteq Seq(Kind) /\ MaxAttempts \in Nat \ {0}

VARIABLES
    program,     \* the handler
    owner,       \* the task: "pending", "running" or "waiting", and its attempt
    frame,       \* of each attempt: the call it is in, how far, and its own value
    answers,     \* of each attempt: the values its calls returned
    checkpoint,  \* the stored value of each call
    arrived      \* calls whose signal was emitted or whose child has ended

durableVars == <<program, owner, frame, answers, checkpoint, arrived>>

Attempt == 1..MaxAttempts

Call == DOMAIN program

None == -1
TimedOutValue == 0
ArrivedValue == 100

NotStarted == [at |-> 0, phase |-> "ended", value |-> None]

\* The fence: running, this attempt, this attempt's token.
HoldsLease(a) == owner.state = "running" /\ owner.attempt = a

InCall(a, kind, phase) ==
    /\ frame[a].phase = phase
    /\ frame[a].at \in Call
    /\ program[frame[a].at] = kind

Stored(a) == checkpoint[frame[a].at]

\* A checkpoint that is there wins over the value v.
FirstOf(a, v) == IF Stored(a) # None THEN Stored(a) ELSE v

MovesTo(a, at, phase, value) ==
    frame' = [frame EXCEPT ![a] = [at |-> at, phase |-> phase, value |-> value]]

\* The call returns v and the handler goes on to its next one.
Returns(a, v) ==
    /\ answers' = [answers EXCEPT ![a] = Append(@, v)]
    /\ MovesTo(a, frame[a].at + 1, "called", None)

Ends(a) == MovesTo(a, frame[a].at, "ended", None) /\ UNCHANGED answers

Stores(a, v) == checkpoint' = [checkpoint EXCEPT ![frame[a].at] = v]

-------------------------------------------------------------------------------
(* The task around the handler. *)

ClaimTask ==
    /\ owner.state = "pending"
    /\ owner.attempt < MaxAttempts                                   \* bound
    /\ owner' = [state |-> "running", attempt |-> owner.attempt + 1]
    /\ MovesTo(owner.attempt + 1, 1, "called", None)
    /\ UNCHANGED <<program, answers, checkpoint, arrived>>

\* Recovery of an expired lease, a release, a failure that is retried.
LeaseEnds ==
    /\ owner.state = "running"
    /\ owner' = [owner EXCEPT !.state = "pending"]
    /\ UNCHANGED <<program, frame, answers, checkpoint, arrived>>

\* The signal is emitted, the child ends; a task that is parked on it continues.
Arrives(i) ==
    /\ program[i] \in {"signal", "result"} /\ i \notin arrived
    /\ arrived' = arrived \cup {i}
    /\ LET wakes == owner.state = "waiting" /\ frame[owner.attempt].at = i
       IN  /\ checkpoint' = IF wakes THEN [checkpoint EXCEPT ![i] = ArrivedValue] ELSE checkpoint
           /\ owner' = IF wakes THEN [owner EXCEPT !.state = "pending"] ELSE owner
    /\ UNCHANGED <<program, frame, answers>>

WaitTimesOut ==
    /\ owner.state = "waiting"
    /\ checkpoint' = [checkpoint EXCEPT ![frame[owner.attempt].at] = TimedOutValue]
    /\ owner' = [owner EXCEPT !.state = "pending"]
    /\ UNCHANGED <<program, frame, answers, arrived>>

\* The handler is through, an operation or a statement failed, it was told that
\* its lease is lost, or its token was cancelled and it is dropped.
AttemptEnds(a) ==
    /\ frame[a].phase # "ended"
    /\ Ends(a)
    /\ UNCHANGED <<program, owner, checkpoint, arrived>>

-------------------------------------------------------------------------------
(* TaskContext. *)

\* get_checkpoint, which asks for no lease: the stored value is the answer.  A
\* spawn does not look first.
GetCheckpoint(a) ==
    /\ frame[a].phase = "called" /\ frame[a].at \in Call
    /\ program[frame[a].at] # "spawn"
    /\ IF Stored(a) # None THEN Returns(a, Stored(a))
       ELSE MovesTo(a, frame[a].at, "missed", None) /\ UNCHANGED answers
    /\ UNCHANGED <<program, owner, checkpoint, arrived>>

\* step: the operation runs and gives a value of this attempt.
Operation(a) ==
    /\ InCall(a, "step", "missed")
    /\ MovesTo(a, frame[a].at, "operated", a)
    /\ UNCHANGED <<program, owner, answers, checkpoint, arrived>>

\* commit_checkpoint reads its fence in a snapshot of its own ...
CommitFence(a) ==
    /\ InCall(a, "step", "operated")
    /\ HoldsLease(a)
    /\ MovesTo(a, frame[a].at, "fenced", frame[a].value)
    /\ UNCHANGED <<program, owner, answers, checkpoint, arrived>>

\* Mutant of CommitAnswer: step returns what its operation returned.
CommitAnswerOwn(a) == frame[a].value

\* ... and inserts unless a value is stored; it returns the stored one.
CommitAnswer(a) == FirstOf(a, frame[a].value)

CommitCheckpoint(a) ==
    /\ InCall(a, "step", "fenced")
    /\ Stores(a, FirstOf(a, frame[a].value))
    /\ Returns(a, CommitAnswer(a))
    /\ UNCHANGED <<program, owner, arrived>>

\* Mutant of Sleep: suspend_task does not look at the lease.
SleepUnfenced(a) ==
    /\ InCall(a, "sleep", "missed")
    /\ Stored(a) = None
    /\ Stores(a, TimedOutValue)
    /\ Ends(a)
    /\ UNCHANGED <<program, owner, arrived>>

\* suspend_task: a new checkpoint, and the task waits for its deadline.
SuspendTask(a) ==
    /\ HoldsLease(a) /\ Stored(a) = None
    /\ Stores(a, TimedOutValue)
    /\ owner' = [owner EXCEPT !.state = "pending"]

Sleep(a) ==
    /\ InCall(a, "sleep", "missed")
    /\ SuspendTask(a)
    /\ Ends(a)
    /\ UNCHANGED <<program, arrived>>

\* wait_for_signal and wait_for_result look again under the lock of the task;
\* they answer, or park the task.
WaitFor(a, kind) ==
    /\ InCall(a, kind, "missed")
    /\ HoldsLease(a)
    /\ IF Stored(a) # None \/ frame[a].at \in arrived
       THEN /\ Stores(a, FirstOf(a, ArrivedValue))
            /\ Returns(a, FirstOf(a, ArrivedValue))
            /\ UNCHANGED owner
       ELSE /\ owner' = [owner EXCEPT !.state = "waiting"]
            /\ Ends(a)
            /\ UNCHANGED checkpoint
    /\ UNCHANGED <<program, arrived>>

WaitForSignal(a) == WaitFor(a, "signal")

WaitForResult(a) == WaitFor(a, "result")

\* spawn_task under the lock of the parent: the recorded child, or a new one.
SpawnTask(a) == HoldsLease(a) /\ Stores(a, FirstOf(a, a))

Spawn(a) ==
    /\ InCall(a, "spawn", "called")
    /\ SpawnTask(a)
    /\ Returns(a, FirstOf(a, a))
    /\ UNCHANGED <<program, owner, arrived>>

\* The statement is committed and its reply is lost: the call ends in an error.
ReplyLost(a) ==
    /\ \/ InCall(a, "step", "fenced") /\ Stores(a, FirstOf(a, frame[a].value))
       \/ InCall(a, "spawn", "called") /\ SpawnTask(a)
    /\ Ends(a)
    /\ UNCHANGED <<program, owner, arrived>>

-------------------------------------------------------------------------------
DurableInit ==
    /\ program \in Programs
    /\ owner = [state |-> "pending", attempt |-> 0]
    /\ frame = [a \in Attempt |-> NotStarted]
    /\ answers = [a \in Attempt |-> <<>>]
    /\ checkpoint = [i \in Call |-> None]
    /\ arrived = {}

DurableNext ==
    \/ ClaimTask \/ LeaseEnds \/ WaitTimesOut
    \/ \E i \in Call : Arrives(i)
    \/ \E a \in Attempt :
          \/ GetCheckpoint(a) \/ Operation(a) \/ CommitFence(a) \/ CommitCheckpoint(a)
          \/ Sleep(a)
          \/ WaitForSignal(a) \/ WaitForResult(a)
          \/ Spawn(a)
          \/ ReplyLost(a) \/ AttemptEnds(a)

DurableSpec == DurableInit /\ [][DurableNext]_durableVars

-------------------------------------------------------------------------------
(* Properties. *)

\* All attempts of a task, also one that lost its lease and has not noticed, get
\* the same answer from the same durable call: no attempt acts on a value that a
\* later attempt does not see.
ReplayAgrees ==
    \A a, b \in Attempt : \A i \in DOMAIN answers[a] \cap DOMAIN answers[b] :
        answers[a][i] = answers[b][i]

\* An attempt that holds its lease is never told that it lost it: the second
\* reason for which suspend_task answers NULL, a checkpoint that exists already,
\* does not arise between the context's read and the statement.
LostMeansLost ==
    \A a \in Attempt : InCall(a, "sleep", "missed") /\ HoldsLease(a) => Stored(a) = None
===============================================================================
