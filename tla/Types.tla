------------------------------- MODULE Types -------------------------------
(***************************************************************************)
(* lib/types.hpp: JSON values, the two containers, and the operations the  *)
(* parser and the serializer perform on them.                              *)
(*                                                                         *)
(* A value is a record whose type field names the alternative the variant  *)
(* holds.  An object is a function from keys to values (a std::map without *)
(* its order), an array is a sequence.  std::from_chars is external: the   *)
(* constant Literals says which texts are keywords or numbers and which    *)
(* value each of them denotes.                                             *)
(***************************************************************************)
EXTENDS Optional, Sequences

CONSTANT Literals   \* function: the texts make_value accepts |-> their values

\* What make_value returns is neither empty, nor a string, nor a container.
ASSUME LiteralsAssumption ==
    \A literal \in DOMAIN Literals :
        /\ literal \in Seq(STRING)
        /\ Literals[literal] # nullopt
        /\ Literals[literal].type \in {"null", "boolean", "number"}

Null       == [type |-> "null"]
Boolean(b) == [type |-> "boolean", boolean |-> b]
Number(x)  == [type |-> "number", number |-> x]
String(s)  == [type |-> "string", string |-> s]

Object(members) == [type |-> "object", members |-> members]
Array(items)    == [type |-> "array", items |-> items]

\* container{} holds the first alternative of its variant: an empty object.
DefaultContainer == Object(<<>>)

ContainerTypes == {"object", "array"}

\* The values that a value holds.
Held(value) ==
    CASE value.type = "array"  -> {value.items[i] : i \in DOMAIN value.items}
      [] value.type = "object" -> {value.members[key] : key \in DOMAIN value.members}
      [] OTHER                 -> {}

make_value(literal) ==
    IF literal \in DOMAIN Literals THEN Literals[literal] ELSE nullopt

\* The text of a value other than a string or a container.
to_string(value) == CHOOSE literal \in DOMAIN Literals : Literals[literal] = value

\* Mutant of insert, and the body of object::insert_or_assign.
insert_or_assign(object, key, value) ==
    LET members == object.members
    IN  [second |-> TRUE,
         object |-> Object([k \in DOMAIN members \cup {key} |->
                               IF k = key THEN value ELSE members[k]])]

\* object::insert: the key is bound to the value unless it is already there.
insert(object, key, value) ==
    LET members == object.members
        fresh   == key \notin DOMAIN members
    IN  [second |-> fresh,
         object |-> IF fresh
                    THEN Object([k \in DOMAIN members \cup {key} |->
                                    IF k = key THEN value ELSE members[k]])
                    ELSE object]

push_back(array, value) == Array(Append(array.items, value))
=============================================================================
