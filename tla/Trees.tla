------------------------------- MODULE Trees -------------------------------
(***************************************************************************)
(* The values of lib/types.hpp that are made of others: a set of them that *)
(* has with a container all that it holds.                                 *)
(***************************************************************************)
EXTENDS Types, KeyOrder

CONSTANT Values     \* containers, what they hold, what that holds, and so on

IsText(s) == s \in Seq(DOMAIN Code)

\* A value that holds only some others.
IsValueOver(value, others) ==
    CASE value.type = "array"  ->
            /\ value = Array(value.items)
            /\ value.items \in Seq(others)
      [] value.type = "object" ->
            /\ value = Object(value.members)
            /\ value.members \in [DOMAIN value.members -> others]
            /\ IsFiniteSet(DOMAIN value.members)
            /\ \A key \in DOMAIN value.members : IsText(key)
      [] value.type = "string" ->
            /\ value = String(value.string)
            /\ IsText(value.string)
      [] OTHER -> \E literal \in DOMAIN Literals : value = Literals[literal]

ASSUME ValuesAssumption == \A value \in Values : IsValueOver(value, Values)
=============================================================================
