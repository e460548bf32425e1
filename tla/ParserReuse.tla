---------------------------- MODULE ParserReuse ----------------------------
(***************************************************************************)
(* A parser that is called again after any result.  Nothing in             *)
(* lib/parser.hpp refuses such a call or resets the parser: it goes on     *)
(* from the state, the stack and the position that the result left behind. *)
(***************************************************************************)
EXTENDS ParserProps

VARIABLE results    \* history: the results that ended calls, and where

\* parse(input_seq) after completed or after an error.
CallAgain ==
    /\ ec \in Outcomes \ {"undefined"}
    /\ ec' = "running"
    /\ UNCHANGED <<position, m_current_state, m_max_levels, m_contexts,
                   m_buffer, root, text, ahead>>

\* The index of the character a result was returned at, and whether that
\* character had been read before and put back.
Record ==
    results' = IF ec = "running" /\ ec' \in Outcomes
               THEN results \cup {[at |-> Len(text'), code |-> ec', reread |-> ahead # <<>>]}
               ELSE results

ReuseInit == Init /\ results = {}

ReuseNext == (Next \/ CallAgain) /\ Record

ReuseSpec == ReuseInit /\ [][ReuseNext]_<<vars, results>>
-----------------------------------------------------------------------------
CharsAt(indices) == FlattenSeq([i \in DOMAIN text |->
                                    IF i \in indices THEN <<text[i]>> ELSE <<>>])

\* The text without the characters that ended a call.
Counted == CharsAt(DOMAIN text \ {result.at : result \in results})

\* The position ignores every character at which a call has ended: a newline
\* that was refused, or a container's end that completed it, is never counted,
\* and all later results are as many lines or columns behind.
PositionSkipsResults ==
    /\ m_line = 1 + Cardinality(Newlines(Counted, Len(Counted)))
    /\ m_col = 1 + Len(Counted) - Max({0} \cup Newlines(Counted, Len(Counted)))

\* What is left of the text when the characters that were refused are erased.
\* One that had already ended a literal leaves a blank behind.
Kept ==
    LET refused == {result \in results : result.code # "completed"}
        what(i) == IF \E r \in refused : r.at = i /\ r.reread THEN <<" ">>
                   ELSE IF \E r \in refused : r.at = i THEN <<>> ELSE <<text[i]>>
    IN  FlattenSeq([i \in DOMAIN text |-> what(i)])

OnlyBlanksOrRefused(n) ==
    \A i \in 1 .. n : is_whitespace(text[i]) \/ \E result \in results : result.at = i

Happened(code) == \E result \in results : result.code = code

\* An error on its own never leaves the parser in a state that takes the top
\* of an empty stack: whoever goes on after errors meets that only where it
\* was to be met without them, on a ] before the first container.
UndefinedNeedsADelivery ==
    ec = "undefined" /\ ~Happened("completed") =>
        /\ text[Len(text)] = end_array
        /\ OnlyBlanksOrRefused(Len(text) - 1)
=============================================================================
