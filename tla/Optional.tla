------------------------------ MODULE Optional ------------------------------
(***************************************************************************)
(* The empty std::optional, which lib/delimiters.hpp, lib/types.hpp and    *)
(* lib/parser.hpp all use.                                                 *)
(***************************************************************************)
EXTENDS Sequences

CONSTANT nullopt    \* a model value, distinct from every other value

\* Above all from what an optional holds here if it is not empty: a
\* character or a text.
ASSUME NulloptAssumption == nullopt \notin STRING \cup Seq(STRING)
=============================================================================
