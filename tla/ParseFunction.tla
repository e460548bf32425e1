--------------------------- MODULE ParseFunction ---------------------------
(***************************************************************************)
(* lib/parser.hpp: the free function parse, which reads a whole container  *)
(* with one call of a parser of its own, and throws if it cannot.          *)
(***************************************************************************)
EXTENDS Parser

CONSTANTS
    DefaultMaxLevels,   \* what the constructor of parser takes by default
    Requests            \* the values of the argument max_levels to consider

VARIABLES
    max_levels,     \* the argument
    outcome         \* "calling", "returned" or "thrown"

functionVars == <<vars, max_levels, outcome>>

\* parser parser{output_object}: the argument does not reach the parser.
FunctionInit ==
    /\ Init
    /\ m_max_levels = DefaultMaxLevels
    /\ max_levels \in Requests
    /\ outcome = "calling"

\* parser.parse(input_seq) is called once.
OneCall ==
    /\ ec \in {"not_called", "running"}
    /\ Next
    /\ UNCHANGED <<max_levels, outcome>>

\* Mutant: running out of input is not taken for an error.
FinishEarly ==
    /\ outcome = "calling"
    /\ ec \notin {"not_called", "running", "undefined"}
    /\ outcome' = IF ec \in {"completed", "more_data_needed"}
                  THEN "returned" ELSE "thrown"
    /\ UNCHANGED <<vars, max_levels>>

Finish ==
    /\ outcome = "calling"
    /\ ec \notin {"not_called", "running", "undefined"}
    /\ outcome' = IF ec = "completed" THEN "returned" ELSE "thrown"
    /\ UNCHANGED <<vars, max_levels>>

FunctionNext == OneCall \/ Finish

FunctionSpec == FunctionInit /\ [][FunctionNext]_functionVars
=============================================================================
