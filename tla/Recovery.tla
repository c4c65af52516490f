------------------------------ MODULE Recovery ------------------------------
(***************************************************************************)
(* The error classifier and the recovery engine of the turn loop:          *)
(* crates/engine/src/recovery.rs.  A pure module: the state of the engine  *)
(* is a record that Conversation keeps in a variable.                      *)
(***************************************************************************)
EXTENDS Integers

ErrorKinds == {"ContextOverflow", "Overloaded", "NetworkTransient",
               "InvalidRequest", "Auth", "Fatal"}

Transient == {"Overloaded", "NetworkTransient"}

(* Substrings of an error message (lower-cased) the classifier looks for. *)
Hints == {"context", "too long", "overflow", "exceeds", "prompt is too long",
          "rate limit", "overloaded", "invalid", "token"}

NoOverflow == -1     \* the message does not say by how much it overflows

(* An error of the API: HTTP status (0 when there is none), error type, the *)
(* hints its message contains, and the tokens it says are too many.         *)
ApiError == [status: Nat, type: STRING, hints: SUBSET Hints,
             overflow: Nat \cup {NoOverflow}]

Mentions(e, words) == e.hints \cap words # {}

SaysContextOverflow(e) ==
    \/ e.status = 413
    \/ "context" \in e.hints /\ Mentions(e, {"too long", "overflow", "exceeds"})
    \/ Mentions(e, {"prompt is too long"})

SaysOverloaded(e) ==
    \/ e.status = 429
    \/ e.type \in {"overloaded_error", "rate_limit_error"}
    \/ Mentions(e, {"rate limit", "overloaded"})

SaysAuth(e) == e.status \in {401, 403} \/ e.type = "authentication_error"

SaysInvalid(e) ==
    e.status = 400 /\ (e.type = "invalid_request_error" \/ Mentions(e, {"invalid"}))

(* A 400 that speaks of the context or of tokens is an overflow too. *)
KindOfInvalid(e) ==
    IF Mentions(e, {"context", "token"}) THEN "ContextOverflow" ELSE "InvalidRequest"

Classify(e) ==
    IF SaysContextOverflow(e)                THEN "ContextOverflow"
    ELSE IF SaysOverloaded(e)                THEN "Overloaded"
    ELSE IF SaysAuth(e)                      THEN "Auth"
    ELSE IF SaysInvalid(e)                   THEN KindOfInvalid(e)
    ELSE IF e.status >= 500 \/ e.status = 0  THEN "NetworkTransient"
    ELSE "Fatal"

-----------------------------------------------------------------------------
Strategies == {"Retry", "AutocompactRetry", "ReactiveCompactRetry",
               "StreamingFallback", "GiveUp"}

MaxRetries == 3

Engine == [attempt: Nat, autocompactUsed: BOOLEAN, reactiveUsed: BOOLEAN,
           streaming: BOOLEAN]

NewEngine == [attempt |-> 0, autocompactUsed |-> FALSE, reactiveUsed |-> FALSE,
              streaming |-> TRUE]

SelectStrategy(r, kind) ==
    IF kind = "ContextOverflow"
    THEN IF ~r.autocompactUsed THEN "AutocompactRetry"
         ELSE IF ~r.reactiveUsed THEN "ReactiveCompactRetry" ELSE "GiveUp"
    ELSE IF kind \in Transient
         THEN IF r.attempt < MaxRetries THEN "Retry" ELSE "GiveUp"
         ELSE IF r.streaming THEN "StreamingFallback" ELSE "GiveUp"

(* Mutant: the fallback does not note that streaming is off. *)
RecordAttemptStillStreaming(r, strategy) ==
    [attempt         |-> r.attempt + 1,
     autocompactUsed |-> r.autocompactUsed \/ strategy = "AutocompactRetry",
     reactiveUsed    |-> r.reactiveUsed \/ strategy = "ReactiveCompactRetry",
     streaming       |-> r.streaming]

(* The counter also counts the attempt that gives up. *)
RecordAttempt(r, strategy) ==
    [attempt         |-> r.attempt + 1,
     autocompactUsed |-> r.autocompactUsed \/ strategy = "AutocompactRetry",
     reactiveUsed    |-> r.reactiveUsed \/ strategy = "ReactiveCompactRetry",
     streaming       |-> r.streaming /\ strategy # "StreamingFallback"]

Reset(r) == [r EXCEPT !.attempt = 0]

-----------------------------------------------------------------------------
(* How many trailing messages a reactive compaction keeps.  2 is FALLBACK. *)
Lesser(a, b)  == IF a < b THEN a ELSE b
Greater(a, b) == IF a > b THEN a ELSE b

PreserveForOverflow(overflow) ==
    IF overflow = NoOverflow    THEN 2
    ELSE IF overflow < 2000     THEN 8
    ELSE IF overflow < 10000    THEN 6
    ELSE IF overflow < 30000    THEN 4
    ELSE IF overflow < 80000    THEN 3
    ELSE 2

(* Mutant: nothing is preserved when the message gives no numbers. *)
PreserveNothingByDefault(overflow, total) ==
    IF overflow = NoOverflow THEN 0
    ELSE Lesser(PreserveForOverflow(overflow), Greater(total, 1))

PreserveRecentForReactiveCompact(overflow, total) ==
    Lesser(PreserveForOverflow(overflow), Greater(total, 1))
=============================================================================
