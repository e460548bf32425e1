--------------------------- MODULE ParseProtocol ---------------------------
(***************************************************************************)
(* What lib/parser.hpp promises a caller who feeds a parser one chunk of   *)
(* input after another, without saying how the input is read:              *)
(*   - the input is consumed from left to right and never given back;      *)
(*   - more_data_needed is the only result after which the caller may go   *)
(*     on, and every other result is final;                                *)
(*   - the caller's container is written once, at the moment the result    *)
(*     becomes completed, and is left alone by every failed parse.         *)
(***************************************************************************)
EXTENDS Sequences

CONSTANTS
    Chars,      \* the characters of the input
    Failures,   \* the results that end a parse without a container
    Untouched   \* what the caller's container holds before

VARIABLES consumed, result, delivered

vars == <<consumed, result, delivered>>

Init ==
    /\ consumed = <<>>
    /\ result = "not_called"
    /\ delivered = Untouched

\* The caller passes the first chunk, or the next one.
Call ==
    /\ result \in {"not_called", "more_data_needed"}
    /\ result' = "running"
    /\ UNCHANGED <<consumed, delivered>>

Suspend ==
    /\ result = "running"
    /\ result' = "more_data_needed"
    /\ UNCHANGED <<consumed, delivered>>

Advance ==
    /\ result = "running"
    /\ \E ch \in Chars : consumed' = Append(consumed, ch)
    /\ UNCHANGED <<result, delivered>>

\* The character that decides a parse is consumed with the decision.
Abort ==
    /\ result = "running"
    /\ result' \in Failures
    /\ \E ch \in Chars : consumed' = Append(consumed, ch)
    /\ UNCHANGED delivered

Deliver ==
    /\ result = "running"
    /\ result' = "completed"
    /\ \E ch \in Chars : consumed' = Append(consumed, ch)
    /\ delivered'.type \in {"object", "array"}

Next == Call \/ Suspend \/ Advance \/ Abort \/ Deliver

Spec == Init /\ [][Next]_vars
=============================================================================
