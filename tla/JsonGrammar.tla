---------------------------- MODULE JsonGrammar ----------------------------
(***************************************************************************)
(* A reference reading of JSON texts, by recursive descent over the whole  *)
(* text: no state machine, no stack of contexts and no chunks.  The model  *)
(* of lib/parser.hpp is compared with it.                                  *)
(*                                                                         *)
(* Two things are read more generously than a JSON text should be, because *)
(* the parser accepts them; each is recorded as a defect of the text:      *)
(*   object_closed_by_bracket   ] instead of the value of a member also    *)
(*                              ends the object                            *)
(*   duplicate_key_dropped      a member whose key is taken is dropped if  *)
(*                              its value ends in ]                        *)
(* A comma after the last element or member is not counted as a defect.    *)
(***************************************************************************)
EXTENDS Integers, SequencesExt, Delimiters, Types

\* The outcome of reading at some index: the value, the index after it (0 if
\* the text cannot be read), and the defects met.
Reading(value, next, defects) ==
    [value |-> value, next |-> next, defects |-> defects]
Unreadable == Reading(Null, 0, {})
Readable(reading) == reading.next # 0

\* The reading of something that starts at i and is not empty.
Advances(reading, t, i) == reading.next \in i + 1 .. Len(t) + 1

\* The same reading of another value.
With(value, reading) == Reading(value, reading.next, reading.defects)

IsAt(t, i, ch) == i \in DOMAIN t /\ t[i] = ch

Blanks == {" ", "\t", "\n", "\r"}
Structural == Blanks \cup {"[", "]", "{", "}", ":", ",", "\""}

\* Keywords and numbers are made of characters without a role in the grammar.
ASSUME RunsAssumption ==
    \A literal \in DOMAIN Literals :
        literal # <<>> /\ \A i \in DOMAIN literal : literal[i] \notin Structural

\* The first index from i on that has no blank, and the first that has no
\* character of a literal, which may both be the end of the text.
NextToken(t, i) == Min({j \in i .. Len(t) : t[j] \notin Blanks} \cup {Len(t) + 1})
EndOfRun(t, i)  == Min({j \in i .. Len(t) : t[j] \in Structural} \cup {Len(t) + 1})
-----------------------------------------------------------------------------
\* The characters of a string from some index on, behind its opening quote.
Marks == [text : Seq(STRING), from : Nat \ {0}]

Mark(t, i) == [text |-> t, from |-> i]

Preceded(first, reading) ==
    IF Readable(reading) THEN With(<<first>> \o reading.value, reading) ELSE Unreadable

QuotedAt(at, table) ==
    LET t == at.text
        i == at.from
    IN  IF i \notin DOMAIN t THEN Unreadable
        ELSE IF t[i] = string_begin_end THEN Reading(<<>>, i + 1, {})
        ELSE IF t[i] = begin_esc_seq
        THEN IF i + 1 \in DOMAIN t /\ unescape(t[i + 1]) # nullopt
             THEN Preceded(unescape(t[i + 1]), table[Mark(t, i + 2)]) ELSE Unreadable
        ELSE IF char_should_be_escaped(t[i]) THEN Unreadable
        ELSE Preceded(t[i], table[Mark(t, i + 1)])

Quoted[at \in Marks] == QuotedAt(at, Quoted)

\* A keyword or a number: a run of characters without a role in the grammar.
LiteralAt(t, i) ==
    LET end == EndOfRun(t, i)
        run == SubSeq(t, i, end - 1)
    IN  IF run \in DOMAIN Literals THEN Reading(Literals[run], end, {}) ELSE Unreadable
-----------------------------------------------------------------------------
\* A value, or what is left of the container around it before an element or
\* behind one: depth containers are open, limit may be, and the keys of the
\* innermost one are taken.
Spots == [what  : {"value", "items", "more items", "members", "more members"},
          text  : Seq(STRING),
          from  : Nat \ {0},
          depth : Nat,
          limit : Nat \cup {nullopt},
          taken : SUBSET Seq(STRING)]

Spot(what, t, i, depth, limit, taken) ==
    [what |-> what, text |-> t, from |-> i, depth |-> depth, limit |-> limit, taken |-> taken]

\* Another part of the same container, and the inside of one that starts here.
Onward(at, what, i, taken) == Spot(what, at.text, i, at.depth, at.limit, taken)
Inward(at, what) == Spot(what, at.text, at.from + 1, at.depth + 1, at.limit, {})

MayOpen(at) == at.limit # nullopt => at.depth < at.limit

ValueAt(at, table) ==
    LET items   == table[Inward(at, "items")]
        members == table[Inward(at, "members")]
        chars   == Quoted[Mark(at.text, at.from + 1)]
    IN  IF IsAt(at.text, at.from, begin_array)
        THEN IF MayOpen(at) THEN With(Array(items.value), items) ELSE Unreadable
        ELSE IF IsAt(at.text, at.from, begin_object)
        THEN IF MayOpen(at) THEN With(Object(members.value), members) ELSE Unreadable
        ELSE IF IsAt(at.text, at.from, string_begin_end)
        THEN With(String(chars.value), chars)
        ELSE LiteralAt(at.text, at.from)

\* An element that has been read at some index, and those behind it.
Item(at, i, item, table) ==
    LET rest == table[Onward(at, "more items", item.next, {})]
    IN  IF ~Advances(item, at.text, i) \/ ~Readable(rest) THEN Unreadable
        ELSE Reading(<<item.value>> \o rest.value, rest.next, item.defects \cup rest.defects)

ItemsAt(at, table) ==
    LET start == NextToken(at.text, at.from)
    IN  IF IsAt(at.text, start, end_array) THEN Reading(<<>>, start + 1, {})
        ELSE Item(at, start, table[Onward(at, "value", start, {})], table)

MoreItemsAt(at, table) ==
    LET start == NextToken(at.text, at.from)
    IN  IF IsAt(at.text, start, value_separator)
        THEN table[Onward(at, "items", start + 1, {})]
        ELSE IF IsAt(at.text, start, end_array) THEN Reading(<<>>, start + 1, {})
        ELSE Unreadable

Bound(key, value, members) ==
    [k \in {key} \cup DOMAIN members |-> IF k = key THEN value ELSE members[k]]

\* A member whose value has been read at some index, and those behind it.
Member(at, key, i, value, table) ==
    LET rest    == table[Onward(at, "more members", value.next, at.taken \cup {key})]
        isTaken == key \in at.taken
        defects == value.defects \cup rest.defects
    IN  IF \/ ~Advances(value, at.text, i)
           \/ isTaken /\ at.text[value.next - 1] # end_array
           \/ ~Readable(rest) THEN Unreadable
        ELSE IF isTaken
        THEN Reading(rest.value, rest.next, defects \cup {"duplicate_key_dropped"})
        ELSE Reading(Bound(key, value.value, rest.value), rest.next, defects)

\* A member whose colon precedes i, and one whose key does.
Valued(at, key, i, table) ==
    LET start == NextToken(at.text, i)
    IN  IF IsAt(at.text, start, end_array)
        THEN Reading(<<>>, start + 1, {"object_closed_by_bracket"})
        ELSE Member(at, key, start, table[Onward(at, "value", start, {})], table)

Named(at, key, i, table) ==
    LET colon == NextToken(at.text, i)
    IN  IF IsAt(at.text, colon, name_separator)
        THEN Valued(at, key, colon + 1, table) ELSE Unreadable

MembersAt(at, table) ==
    LET start == NextToken(at.text, at.from)
        key   == Quoted[Mark(at.text, start + 1)]
    IN  IF IsAt(at.text, start, end_object) THEN Reading(<<>>, start + 1, {})
        ELSE IF IsAt(at.text, start, string_begin_end) /\ Readable(key)
        THEN Named(at, key.value, key.next, table)
        ELSE Unreadable

MoreMembersAt(at, table) ==
    LET start == NextToken(at.text, at.from)
    IN  IF IsAt(at.text, start, value_separator)
        THEN table[Onward(at, "members", start + 1, at.taken)]
        ELSE IF IsAt(at.text, start, end_object) THEN Reading(<<>>, start + 1, {})
        ELSE Unreadable

ReadAt(at, table) ==
    CASE at.what = "value"        -> ValueAt(at, table)
      [] at.what = "items"        -> ItemsAt(at, table)
      [] at.what = "more items"   -> MoreItemsAt(at, table)
      [] at.what = "members"      -> MembersAt(at, table)
      [] at.what = "more members" -> MoreMembersAt(at, table)

ReadFrom[at \in Spots] == ReadAt(at, ReadFrom)

\* The container at the start of t, in which no more than max_levels are open.
Document(t, max_levels) ==
    LET start == NextToken(t, 1)
    IN  IF IsAt(t, start, begin_array) \/ IsAt(t, start, begin_object)
        THEN ReadFrom[Spot("value", t, start, 0, max_levels, {})] ELSE Unreadable
=============================================================================
