----------------------------- MODULE JsonLayout -----------------------------
(***************************************************************************)
(* A reference writing of containers, by recursion over the whole value:   *)
(* no buffer, no stack of contexts, no text that waits.  The model of      *)
(* lib/serializer.hpp is compared with it.                                 *)
(*                                                                         *)
(* One thing is written as the serializer does and not as JSON asks: a     *)
(* member whose key is empty is written without a key.                     *)
(***************************************************************************)
EXTENDS Integers, SequencesExt, Delimiters, Trees

CONSTANT Height(_)  \* how many containers there are above one another in a value

\* A value is no part of itself.
ASSUME HeightAssumption ==
    \A value \in Values :
        /\ Height(value) \in Nat
        /\ \A held \in Held(value) : Height(held) < Height(value)

Stop == "STOP"  \* marks the place of an element that cannot be written

ASSUME StopAssumption ==
    /\ Stop \notin DOMAIN Code
    /\ \A literal \in DOMAIN Literals : Stop \notin Range(literal)

HasControlCode(s) == \E i \in DOMAIN s : s[i] \in {"NUL", "\r"}

Unwritable(key, value) ==
    \/ HasControlCode(key)
    \/ value.type = "string" /\ HasControlCode(value.string)

CodesOf(s) == [i \in DOMAIN s |-> Code[s[i]]]

\* s comes before t: at the first place where they differ, the end of s or
\* the smaller code is in s.
Before(s, t) ==
    \/ IsStrictPrefix(s, t)
    \/ \E i \in DOMAIN s \cap DOMAIN t :
          /\ s[i] < t[i]
          /\ \A j \in 1 .. i - 1 : s[j] = t[j]

Sorted(keys) ==
    CHOOSE order \in SetToSeqs(keys) :
        \A i, j \in 1 .. Len(order) :
            i < j => Before(CodesOf(order[i]), CodesOf(order[j]))

\* The elements of a container in the order they are written.
Pairs(value) ==
    IF value.type = "array"
    THEN [i \in DOMAIN value.items |-> [key |-> <<>>, value |-> value.items[i]]]
    ELSE LET keys == Sorted(DOMAIN value.members)
         IN  [i \in DOMAIN keys |-> [key |-> keys[i], value |-> value.members[keys[i]]]]

LineBreak(pretty) == IF pretty THEN <<Newline>> ELSE <<>>
Indent(n, pretty) == IF pretty THEN [i \in 1 .. n |-> "\t"] ELSE <<>>

KeyPart(key, pretty) ==
    IF key = <<>> THEN <<>>
    ELSE wrap_string(key) \o <<name_separator>> \o (IF pretty THEN <<" ">> ELSE <<>>)

\* A value inside depth containers.
Places == [value : Values, depth : Nat, pretty : BOOLEAN]

Place(value, depth, pretty) == [value |-> value, depth |-> depth, pretty |-> pretty]

\* The text of the i-th of some elements, with that of its value taken from a
\* table.  Where it is unwritable, not even the separator is written.
PartOf(pairs, i, depth, pretty, table) ==
    IF Unwritable(pairs[i].key, pairs[i].value) THEN <<Stop>>
    ELSE (IF i = 1 THEN <<>> ELSE <<value_separator>> \o LineBreak(pretty))
            \o Indent(depth, pretty) \o KeyPart(pairs[i].key, pretty)
            \o table[Place(pairs[i].value, depth, pretty)]

PartsOf(at, table) ==
    LET pairs == Pairs(at.value)
    IN  [i \in DOMAIN pairs |-> PartOf(pairs, i, at.depth + 1, at.pretty, table)]

Opening(value) == IF value.type = "array" THEN begin_array ELSE begin_object
Closing(value) == IF value.type = "array" THEN end_array ELSE end_object

LayoutOf(at, table) ==
    CASE at.value.type \in ContainerTypes ->
            <<Opening(at.value)>> \o LineBreak(at.pretty)
                \o FlattenSeq(PartsOf(at, table))
                \o LineBreak(at.pretty) \o Indent(at.depth, at.pretty)
                \o <<Closing(at.value)>>
      [] at.value.type = "string" -> wrap_string(at.value.string)
      [] OTHER -> to_string(at.value)

Layout[at \in Places] == LayoutOf(at, Layout)

\* The document, or what precedes the first element that cannot be written.
IsWritable(document) == \A i \in DOMAIN document : document[i] # Stop

DocumentOf(value, pretty) == Layout[Place(value, 0, pretty)] \o <<Newline>>

WritablePart(document) ==
    IF IsWritable(document) THEN document
    ELSE SubSeq(document, 1, Min({i \in DOMAIN document : document[i] = Stop}) - 1)
=============================================================================
