-------------------------------- MODULE Outcomes --------------------------------
(***************************************************************************)
(* What a worker makes of the outcome of a handler before it writes it:     *)
(* results and errors are escaped and cut to what the columns accept, and a *)
(* failed attempt gets a delay.                                             *)
(*                                                                         *)
(* Sizes are the point here, so strings are sequences of characters, each   *)
(* of a class: "a" prints as its one byte, "q" is one byte that PostgreSQL  *)
(* prints as two (a quote, a backslash), "w" has three bytes, "z" is NUL,   *)
(* which jsonb does not store.  Everything of a value that is not a string  *)
(* is its shell, of so many bytes.  The limits are small.                   *)
(***************************************************************************)
EXTENDS Naturals, Sequences, SequencesExt, FiniteSetsExt

CONSTANTS
    Value,         \* [object: BOOLEAN, shell: Nat, strings: Seq(Seq(Char))]
    ResultLimit,   \* RESULT_LIMIT_BYTES
    ErrorLimit,    \* ERROR_LIMIT_BYTES
    MarkBytes,     \* of the marks "truncated" and "original_bytes"
    WrapBytes,     \* of the object around an error that is none
    RetryPolicy,   \* [base: Nat, factor: Nat, max: Nat], of kind Exponential
    MaxMultiplier, \* u32::MAX
    LastAttempt    \* bound: attempts

VARIABLES
    raw,       \* what the handler returned, as a result or as an error
    prepared,  \* what is to be written; "none" before
    policy,    \* of the task
    attempt    \* that failed

outcomeVars == <<raw, prepared, policy, attempt>>

-------------------------------------------------------------------------------
(* outcome.rs *)

Replacement == <<"q", "a", "a", "a", "a", "a">>      \* the text \u0000

Ellipsis == "w"

Bytes(text) == FoldSeq(LAMBDA c, n : n + (IF c = "w" THEN 3 ELSE 1), 0, text)

EscapeText(text) ==
    FlattenSeq([i \in DOMAIN text |-> IF text[i] = "z" THEN Replacement ELSE <<text[i]>>])

EscapeNul(v) == [v EXCEPT !.strings = [i \in DOMAIN @ |-> EscapeText(@[i])]]

JsonbStringLen(text) ==
    2 + FoldSeq(LAMBDA c, n : n + (CASE c = "w" -> 3 [] c = "q" -> 2 [] OTHER -> 1), 0, text)

JsonbTextLen(v) == v.shell + FoldSeq(LAMBDA text, n : n + JsonbStringLen(text), 0, v.strings)

\* Cut at a character, and marked.
TruncateString(text, cap) ==
    IF Bytes(text) <= cap THEN text
    ELSE Append(SubSeq(text, 1, Max({n \in 0..Len(text) : Bytes(SubSeq(text, 1, n)) <= cap})), Ellipsis)

CapStrings(v, cap) == [v EXCEPT !.strings = [i \in DOMAIN @ |-> TruncateString(@[i], cap)]]

LongestString(v) == Max({0} \cup {Bytes(v.strings[i]) : i \in DOMAIN v.strings})

\* An error that is not an object is wrapped in one; then it is marked.
Marked(v) ==
    [v EXCEPT !.object = TRUE, !.shell = @ + MarkBytes + (IF v.object THEN 0 ELSE WrapBytes)]

Summary == [object |-> TRUE, shell |-> MarkBytes, strings |-> <<>>]

FitsCap(v, cap) == JsonbTextLen(Marked(CapStrings(v, cap))) <= ErrorLimit

\* The binary search for the cap, and the summary when not even 0 fits.
TruncateError(v) ==
    LET search[w \in (0..LongestString(v)) \X (0..LongestString(v))] ==
            LET low == w[1]
                high == w[2]
                middle == low + (high - low + 1) \div 2
            IN  IF low >= high THEN low
                ELSE IF FitsCap(v, middle) THEN search[<<middle, high>>]
                                           ELSE search[<<low, middle - 1>>]
    IN  IF FitsCap(v, 0) THEN Marked(CapStrings(v, search[<<0, LongestString(v)>>])) ELSE Summary

\* Mutant of PrepareError: measured before the escapes.
PrepareErrorEarly(v) ==
    IF JsonbTextLen(v) <= ErrorLimit THEN EscapeNul(v) ELSE TruncateError(EscapeNul(v))

PrepareError(v) ==
    LET escaped == EscapeNul(v)
    IN  IF JsonbTextLen(escaped) <= ErrorLimit THEN escaped ELSE TruncateError(escaped)

\* A result that is too large becomes an error of a fixed size.
PrepareResult(v) ==
    LET escaped == EscapeNul(v)
    IN  IF JsonbTextLen(escaped) <= ResultLimit THEN [kind |-> "result", value |-> escaped]
        ELSE [kind |-> "error", value |-> Summary]

-------------------------------------------------------------------------------
(* RetryPolicy::delay_for *)

Least(m, n) == IF m < n THEN m ELSE n

Power(b, n) == LET power[k \in 0..n] == IF k = 0 THEN 1 ELSE b * power[k - 1] IN power[n]


SaturatingPow(b, n) == Least(Power(b, n), MaxMultiplier)

\* The delay is drawn from 0 up to this ceiling.
DelayCeiling(p, n) == Least(p.base * SaturatingPow(p.factor, n - 1), p.max)

-------------------------------------------------------------------------------
OutcomeInit ==
    /\ raw \in [kind: {"result", "error"}, value: Value]
    /\ prepared = [kind |-> "none"]
    /\ policy \in RetryPolicy
    /\ attempt = 1

Prepare ==
    /\ prepared.kind = "none"
    /\ prepared' = IF raw.kind = "result" THEN PrepareResult(raw.value)
                   ELSE [kind |-> "error", value |-> PrepareError(raw.value)]
    /\ UNCHANGED <<raw, policy, attempt>>

\* It is retried, and fails again.
FailsAgain ==
    /\ attempt < LastAttempt                                         \* bound
    /\ attempt' = attempt + 1
    /\ UNCHANGED <<raw, prepared, policy>>

OutcomeNext == Prepare \/ FailsAgain

OutcomeSpec == OutcomeInit /\ [][OutcomeNext]_outcomeVars

-------------------------------------------------------------------------------
(* Properties. *)

\* What is written has no NUL and is as PostgreSQL prints it no larger than its
\* column: the checks of pgtask.tasks reject no outcome that was prepared, and an
\* error is summarised only when its strings cut to nothing do not fit.
PreparedIsAccepted ==
    prepared.kind # "none" =>
        /\ JsonbTextLen(prepared.value) <= (IF prepared.kind = "result" THEN ResultLimit ELSE ErrorLimit)
        /\ \A i \in DOMAIN prepared.value.strings :
               \A j \in DOMAIN prepared.value.strings[i] : prepared.value.strings[i][j] # "z"
        /\ raw.kind = "error" /\ prepared.value = Summary => ~FitsCap(EscapeNul(raw.value), 0)

===============================================================================
