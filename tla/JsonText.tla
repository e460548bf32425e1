------------------------------ MODULE JsonText ------------------------------
(***************************************************************************)
(* A reference writing of values: the texts that denote a value in JSON,   *)
(* member by member in any order, with the same white space, pad, wherever *)
(* a text may have some.                                                   *)
(***************************************************************************)
EXTENDS Integers, SequencesExt, Delimiters, Types

\* The sequences that take their i-th element from the i-th set.
OneOfEach(sets) ==
    {c \in [DOMAIN sets -> UNION Range(sets)] : \A i \in DOMAIN sets : c[i] \in sets[i]}

Enclosed(opening, parts, closing, pad) ==
    LET comma == pad \o <<value_separator>> \o pad
        all   == [i \in DOMAIN parts |->
                    IF i = 1 THEN parts[i] ELSE comma \o parts[i]]
    IN  <<opening>> \o pad \o FlattenSeq(all) \o pad \o <<closing>>

RECURSIVE Texts(_, _)
Texts(value, pad) ==
    LET member(key) == {wrap_string(key) \o pad \o <<name_separator>> \o pad \o text :
                            text \in Texts(value.members[key], pad)}
    IN  CASE value.type = "array" ->
              {Enclosed(begin_array, parts, end_array, pad) : parts \in
                  OneOfEach([i \in DOMAIN value.items |-> Texts(value.items[i], pad)])}
          [] value.type = "object" ->
              {Enclosed(begin_object, parts, end_object, pad) : parts \in
                  UNION {OneOfEach([i \in DOMAIN keys |-> member(keys[i])]) :
                            keys \in SetToSeqs(DOMAIN value.members)}}
          [] value.type = "string" -> {wrap_string(value.string)}
          [] OTHER -> {literal \in DOMAIN Literals : Literals[literal] = value}

\* The number of containers around the innermost value, the outermost included.
RECURSIVE Depth(_)
Depth(value) ==
    IF value.type \in ContainerTypes
    THEN 1 + Max({0} \cup {Depth(held) : held \in Held(value)}) ELSE 0
=============================================================================
