------------------------------ MODULE KeyOrder ------------------------------
(***************************************************************************)
(* The order of the keys of an object in lib/types.hpp, which a std::map   *)
(* with std::less<> keeps sorted.                                          *)
(***************************************************************************)
EXTENDS Integers, Sequences, FiniteSets

CONSTANT Code   \* function: the characters of keys and strings |-> their codes

\* Different characters have different codes.
ASSUME CodeAssumption ==
    /\ DOMAIN Code \subseteq STRING
    /\ \A a, b \in DOMAIN Code : Code[a] \in Int /\ (a # b => Code[a] # Code[b])

\* std::less of two keys: a ends where b goes on, or has the smaller code.
Less(a, b) ==
    \E n \in 0 .. Len(a) :
        /\ n < Len(b)
        /\ SubSeq(a, 1, n) = SubSeq(b, 1, n)
        /\ n < Len(a) => Code[a[n + 1]] < Code[b[n + 1]]

\* The keys as an iteration over the map meets them: the i-th is the one that
\* i - 1 of them are less than.
InOrder(keys) ==
    [i \in 1 .. Cardinality(keys) |->
        CHOOSE key \in keys : Cardinality({other \in keys : Less(other, key)}) = i - 1]
=============================================================================
