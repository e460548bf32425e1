-------------------------- MODULE SerializerProofs --------------------------
(***************************************************************************)
(* Proofs of the properties of SerializerProps, for every set of           *)
(* containers, every order of the characters and all sizes of buffers; and *)
(* that lib/serializer.hpp writes the document that JsonLayout defines,    *)
(* whatever the container and the sizes of the buffers.                    *)
(***************************************************************************)
EXTENDS SerializerDocuments, SerializeFunctionProps, SequenceProofs

-----------------------------------------------------------------------------
(* Texts.                                                                  *)

\* The layout is made of texts.
LEMMA LayoutTexts ==
    ASSUME NEW n \in Nat, NEW context
    PROVE  /\ IsSequence(PrettyNewline)
           /\ IsSequence(PrettyTabs(n))
           /\ IsSequence(BlockStart(context))
           /\ IsSequence(Separator(context))
  <1>1. IsSequence(PrettyNewline)
    BY ShortTexts DEF PrettyNewline
  <1>2. IsSequence(PrettyTabs(n))
    <2> DEFINE tabs == [k \in 1 .. n |-> "\t"]
    <2>1. tabs = [k \in 1 .. n |-> tabs[k]]
      OBVIOUS
    <2>2. IsSequence(tabs)
      <3> HIDE DEF tabs
      <3>1. QED
        BY <2>1, FunctionIsSequence
    <2>3. QED
      BY <2>2, ShortTexts DEF PrettyTabs
  <1>3. IsSequence(BlockStart(context))
    BY <1>1, ShortTexts, Concatenation DEF BlockStart
  <1>4. IsSequence(Separator(context))
    BY <1>1, ShortTexts, Concatenation DEF Separator
  <1>5. QED
    BY <1>1, <1>2, <1>3, <1>4
-----------------------------------------------------------------------------
(* Containers and their contexts.                                          *)

IsBlocks(contexts) ==
    IsSequence(contexts) /\ \A i \in DOMAIN contexts : IsBlock(contexts[i])

\* What the four kinds of values are made of.
LEMMA KindsOfValues ==
    ASSUME NEW value \in Values
    PROVE  /\ value.type = "array" => value.items \in Seq(Values)
           /\ value.type = "object" =>
                  /\ IsFiniteSet(DOMAIN value.members)
                  /\ DOMAIN value.members \in SUBSET Seq(Letters)
                  /\ \A key \in DOMAIN value.members : value.members[key] \in Values
           /\ value.type = "string" => value.string \in Seq(Letters)
           /\ value.type \notin {"array", "object", "string"} =>
                  \E literal \in DOMAIN Literals : value = Literals[literal]
  <1>1. IsValueOver(value, Values)
    BY ValuesAssumption
  <1>2. QED
    BY <1>1 DEF IsValueOver, IsText, Letters

\* The elements of an array are those of a sequence without keys, those of an
\* object its members in the order of their keys.
LEMMA ElementsOfContainer ==
    ASSUME NEW value \in Values, IsContainer(value)
    PROVE  IsSequence(Elements(value))
           /\ \A i \in DOMAIN Elements(value) : IsElement(Elements(value)[i])
  <1> DEFINE e == Elements(value)
  <1>1. CASE value.type = "array"
    <2> DEFINE n == Len(value.items)
    <2>1. /\ n \in Nat /\ DOMAIN value.items = 1 .. n
          /\ \A i \in 1 .. n : value.items[i] \in Values
      BY <1>1, KindsOfValues, LenProperties, ElementOfSeq
    <2> HIDE DEF n
    <2>2. e = [i \in 1 .. n |-> [key |-> <<>>, value |-> value.items[i]]]
      BY <1>1, <2>1 DEF Elements
    <2>3. \A i \in 1 .. n : e[i].key = <<>> /\ e[i].value = value.items[i]
      BY <2>2
    <2>4. DOMAIN e = 1 .. n /\ e = [i \in 1 .. n |-> e[i]]
      BY <2>2
    <2> HIDE DEF e
    <2>5. \A i \in 1 .. n : IsElement(e[i])
      BY <2>1, <2>3, EmptySeq DEF IsElement, IsText
    <2>6. IsSequence(e)
      BY <2>1, <2>4, FunctionIsSequence
    <2>7. QED
      BY <2>4, <2>5, <2>6 DEF e
  <1>2. CASE value.type # "array"
    <2> DEFINE keys == DOMAIN value.members
               order == InOrder(keys)
               n == Cardinality(keys)
    <2>1. /\ IsFiniteSet(keys) /\ keys \in SUBSET Seq(Letters)
          /\ \A key \in keys : value.members[key] \in Values
      BY <1>2, KindsOfValues DEF IsContainer, ContainerTypes
    <2>2. n \in Nat /\ order \in [1 .. n -> keys]
      BY <2>1, KeysInOrder DEF Increasing
    <2>3. e = [i \in 1 .. n |-> [key |-> order[i], value |-> value.members[order[i]]]]
      BY <1>2, <2>2 DEF Elements
    <2> HIDE DEF n, order, keys
    <2>4. \A i \in 1 .. n : e[i].key = order[i] /\ e[i].value = value.members[order[i]]
      BY <2>3
    <2>5. DOMAIN e = 1 .. n /\ e = [i \in 1 .. n |-> e[i]]
      BY <2>3
    <2> HIDE DEF e
    <2>6. \A i \in 1 .. n : IsElement(e[i])
      BY <2>1, <2>2, <2>4 DEF IsElement, IsText, Letters
    <2>7. IsSequence(e)
      BY <2>2, <2>5, FunctionIsSequence
    <2>8. QED
      BY <2>5, <2>6, <2>7 DEF e
  <1>3. QED
    BY <1>1, <1>2

\* A container gives a context with all its elements ahead.
LEMMA NewContext ==
    ASSUME NEW value \in Values, IsContainer(value)
    PROVE  IsBlock(make_serializer_context(value))
  <1> DEFINE c == make_serializer_context(value)
  <1>1. c.range = Elements(value)
    BY DEF make_serializer_context
  <1>2. /\ c = [range |-> c.range, block_starter |-> c.block_starter,
                block_terminator |-> c.block_terminator, first_item |-> c.first_item]
        /\ <<c.block_starter, c.block_terminator>> \in
               {<<begin_object, end_object>>, <<begin_array, end_array>>}
        /\ c.first_item \in BOOLEAN
    BY DEF make_serializer_context
  <1> HIDE DEF c
  <1>3. IsBlock(c)
    BY <1>1, <1>2, ElementsOfContainer DEF IsBlock
  <1>4. QED
    BY <1>3 DEF c
-----------------------------------------------------------------------------
(* The characters that are written.                                        *)

\* A set with all of them: those of the format, of keys and strings, and of
\* the texts of numbers and keywords.
IsAlphabet(C) ==
    /\ C \in SUBSET STRING
    /\ FormatChars \subseteq C
    /\ Letters \subseteq C
    /\ \A literal \in DOMAIN Literals : literal \in Seq(C)

LEMMA StringsAreAnAlphabet == IsAlphabet(STRING)
  BY FormatCharsAssumption, CodeAssumption, LiteralsAssumption DEF IsAlphabet, Letters

\* The layout is made of them.
LEMMA LayoutChars ==
    ASSUME NEW C, IsAlphabet(C)
    PROVE  /\ PrettyNewline \in Seq(C)
           /\ \A n \in Nat : PrettyTabs(n) \in Seq(C)
           /\ \A context : Separator(context) \in Seq(C)
           /\ \A value : BlockStart(make_serializer_context(value)) \in Seq(C)
  <1>1. {Newline, "\t", value_separator, begin_object, begin_array} \subseteq C
    BY DEF IsAlphabet, FormatChars
  <1>2. PrettyNewline \in Seq(C)
    BY <1>1, ShortText DEF PrettyNewline
  <1>3. ASSUME NEW n \in Nat PROVE PrettyTabs(n) \in Seq(C)
    <2> DEFINE tabs == [k \in 1 .. n |-> "\t"]
    <2>1. tabs \in [1 .. n -> C]
      BY <1>1
    <2> HIDE DEF tabs
    <2>2. tabs \in Seq(C)
      BY <2>1, FunctionIsText
    <2>3. QED
      BY <2>2, <1>1, ShortText DEF PrettyTabs, tabs
  <1>4. ASSUME NEW context PROVE Separator(context) \in Seq(C)
    <2>1. <<value_separator>> \in Seq(C) /\ <<>> \in Seq(C)
      BY <1>1, ShortText
    <2>2. <<value_separator>> \o PrettyNewline \in Seq(C)
      BY <1>2, <2>1, Together
    <2>3. QED
      BY <2>1, <2>2 DEF Separator
  <1>5. ASSUME NEW value PROVE BlockStart(make_serializer_context(value)) \in Seq(C)
    <2> DEFINE c == make_serializer_context(value)
    <2>1. c.block_starter \in C
      BY <1>1 DEF make_serializer_context
    <2>2. <<c.block_starter>> \in Seq(C)
      BY <2>1, ShortText
    <2>3. <<c.block_starter>> \o PrettyNewline \in Seq(C)
      BY <1>2, <2>2, Together
    <2>4. QED
      BY <2>3 DEF BlockStart
  <1>6. QED
    BY <1>2, <1>3, <1>4, <1>5

\* The value of a literal is written as one of the literals that denote it.
LEMMA LiteralText ==
    ASSUME NEW literal \in DOMAIN Literals
    PROVE  to_string(Literals[literal]) \in DOMAIN Literals
  BY DEF to_string

\* So is a key or a string between quotes.
LEMMA WrappedChars ==
    ASSUME NEW C, IsAlphabet(C), NEW s \in Seq(Letters), wrap_string(s) # nullopt
    PROVE  wrap_string(s) \in Seq(C)
  <1>1. C \in SUBSET STRING /\ {"\"", "\\", "n", "t"} \subseteq C
    BY DEF IsAlphabet, FormatChars, string_begin_end, begin_esc_seq
  <1>2. s \in Seq(C)
    BY SeqMonotonic DEF IsAlphabet
  <1>3. QED
    BY <1>1, <1>2, WrappedString

\* And the text of an element that has no illegal character.
LEMMA ElementChars ==
    ASSUME NEW C, IsAlphabet(C), NEW element, IsElement(element), ~HasIllegalChar(element)
    PROVE  KeyText(element.key) \in Seq(C) /\ ValueText(element.value) \in Seq(C)
  <1>1. {name_separator, " "} \subseteq C
    BY DEF IsAlphabet, FormatChars
  <1>2. ASSUME NEW s \in Seq(Letters), wrap_string(s) # nullopt
        PROVE  wrap_string(s) \in Seq(C)
    BY <1>2, WrappedChars
  <1>3. /\ element.key \in Seq(Letters) /\ element.value \in Values
        /\ wrap_string(element.key) # nullopt
        /\ element.value.type = "string" => wrap_string(element.value.string) # nullopt
    BY DEF IsElement, IsText, Letters, HasIllegalChar
  <1>4. KeyText(element.key) \in Seq(C)
    <2> DEFINE blank == IF m_pretty_print THEN <<" ">> ELSE <<>>
    <2>1. wrap_string(element.key) \in Seq(C) /\ <<name_separator>> \in Seq(C)
      BY <1>1, <1>2, <1>3, ShortText
    <2>2. blank \in Seq(C)
      BY <1>1, ShortText
    <2>3. <<>> \in Seq(C)
      BY <1>1, ShortText
    <2>4. KeyText(element.key) = IF element.key = <<>> THEN <<>>
                                 ELSE (wrap_string(element.key) \o <<name_separator>>) \o blank
      BY DEF KeyText
    <2> HIDE DEF blank
    <2>5. wrap_string(element.key) \o <<name_separator>> \in Seq(C)
      BY <2>1, Together
    <2>6. (wrap_string(element.key) \o <<name_separator>>) \o blank \in Seq(C)
      BY <2>2, <2>5, Together
    <2>7. QED
      BY <2>3, <2>4, <2>6
  <1>5. ValueText(element.value) \in Seq(C)
    <2>1. CASE IsContainer(element.value)
      <3>1. BlockStart(make_serializer_context(element.value)) \in Seq(C)
        BY LayoutChars
      <3>2. QED
        BY <2>1, <3>1 DEF ValueText, IsContainer, ContainerTypes
    <2>2. CASE element.value.type = "string"
      <3>1. ValueText(element.value) = wrap_string(element.value.string)
        BY <2>2 DEF ValueText, IsContainer, ContainerTypes
      <3>2. element.value.string \in Seq(Letters)
        BY <1>3, <2>2, KindsOfValues
      <3>3. QED
        BY <1>2, <1>3, <2>2, <3>1, <3>2
    <2>3. CASE ~IsContainer(element.value) /\ element.value.type # "string"
      <3>1. ValueText(element.value) = to_string(element.value)
        BY <2>3 DEF ValueText, IsContainer, ContainerTypes
      <3>2. PICK literal \in DOMAIN Literals : element.value = Literals[literal]
        BY <1>3, <2>3, KindsOfValues DEF IsContainer, ContainerTypes
      <3>3. to_string(element.value) \in DOMAIN Literals
        BY <3>2, LiteralText
      <3>4. QED
        BY <3>1, <3>3 DEF IsAlphabet
    <2>4. QED
      BY <2>1, <2>2, <2>3
  <1>6. QED
    BY <1>4, <1>5

LEMMA ElementText ==
    ASSUME NEW element, IsElement(element), ~HasIllegalChar(element)
    PROVE  IsSequence(KeyText(element.key)) /\ IsSequence(ValueText(element.value))
  <1>1. KeyText(element.key) \in Seq(STRING) /\ ValueText(element.value) \in Seq(STRING)
    BY StringsAreAnAlphabet, ElementChars
  <1>2. QED
    BY <1>1, SeqOfRange DEF IsSequence
-----------------------------------------------------------------------------
(* Contexts.                                                               *)

\* The first of the elements that are left, and those behind it.
LEMMA NextElement ==
    ASSUME NEW context, IsBlock(context), context.range # <<>>
    PROVE  /\ IsElement(Head(context.range))
           /\ IsBlock([context EXCEPT !.range = Tail(@), !.first_item = FALSE])
  <1> DEFINE s == context.range
             t == Tail(s)
             rest == [context EXCEPT !.range = Tail(@), !.first_item = FALSE]
  <1>1. s \in Seq(Range(s)) /\ Len(s) \in Nat \ {0} /\ DOMAIN s = 1 .. Len(s)
    BY LenProperties, EmptySeq DEF IsBlock, IsSequence
  <1>2. Head(s) = s[1] /\ 1 \in DOMAIN s
    BY <1>1
  <1>3. /\ t \in Seq(Range(s)) /\ Len(t) = Len(s) - 1
        /\ \A i \in 1 .. Len(t) : t[i] = s[i + 1]
    BY <1>1, HeadTailProperties, EmptySeq
  <1>4. IsSequence(t) /\ DOMAIN t = 1 .. Len(s) - 1
    BY <1>3, SeqOfRange, LenProperties DEF IsSequence
  <1>5. \A i \in DOMAIN t : IsElement(t[i])
    <2> SUFFICES ASSUME NEW i \in DOMAIN t PROVE IsElement(t[i])
      OBVIOUS
    <2>1. t[i] = s[i + 1] /\ i + 1 \in DOMAIN s
      BY <1>1, <1>3, <1>4
    <2>2. QED
      BY <2>1 DEF IsBlock
  <1>6. /\ rest.range = t /\ rest.first_item = FALSE
        /\ rest.block_starter = context.block_starter
        /\ rest.block_terminator = context.block_terminator
        /\ rest = [range |-> t, block_starter |-> context.block_starter,
                   block_terminator |-> context.block_terminator, first_item |-> FALSE]
    <2> DEFINE taken == [context EXCEPT !.range = t]
    <2>1. context = [range |-> context.range, block_starter |-> context.block_starter,
                     block_terminator |-> context.block_terminator,
                     first_item |-> context.first_item]
      BY DEF IsBlock
    <2>2. rest = [taken EXCEPT !.first_item = FALSE]
      BY <2>1
    <2> HIDE DEF t
    <2>3. taken = [range |-> t, block_starter |-> context.block_starter,
                   block_terminator |-> context.block_terminator,
                   first_item |-> context.first_item]
      BY <2>1
    <2> HIDE DEF taken, rest
    <2>4. QED
      BY <2>2, <2>3
  <1>7. IsElement(Head(s))
    BY <1>2 DEF IsBlock
  <1>8. IsBlock(rest)
    <2> HIDE DEF t, rest
    <2>1. QED
      BY <1>4, <1>5, <1>6 DEF IsBlock
  <1>9. QED
    BY <1>7, <1>8

\* Taking an element out of the innermost context keeps the stack as deep as
\* it is.
LEMMA PoppedStack ==
    ASSUME NEW s, IsBlocks(s), s # <<>>, Last(s).range # <<>>
    PROVE  /\ IsBlocks(Popped(s)) /\ Len(Popped(s)) = Len(s) /\ Popped(s) # <<>>
           /\ \A i \in 1 .. Len(s) - 1 : Popped(s)[i] = s[i]
           /\ Popped(s)[Len(s)] = [Last(s) EXCEPT !.range = Tail(@), !.first_item = FALSE]
  <1> DEFINE c == [Last(s) EXCEPT !.range = Tail(@), !.first_item = FALSE]
  <1>1. Len(s) \in 1 .. Len(s) /\ DOMAIN s = 1 .. Len(s) /\ Len(s) \in Nat
    BY SequenceIsFunction DEF IsBlocks
  <1>2. IsBlock(Last(s))
    BY <1>1 DEF IsBlocks, Last
  <1>3. IsBlock(c)
    BY <1>2, NextElement
  <1>4. Popped(s) = SetTop(s, c)
    BY <1>1, <1>2 DEF Popped, SetTop, Last, IsBlock
  <1> HIDE DEF c
  <1>5. /\ IsSequence(SetTop(s, c)) /\ Len(SetTop(s, c)) = Len(s)
        /\ \A i \in 1 .. Len(s) - 1 : SetTop(s, c)[i] = s[i]
        /\ SetTop(s, c)[Len(s)] = c /\ SetTop(s, c) # <<>>
    BY ReplaceTop DEF IsBlocks
  <1>6. DOMAIN SetTop(s, c) = 1 .. Len(s)
    BY <1>5, SequenceIsFunction
  <1>7. \A i \in 1 .. Len(s) : IsBlock(SetTop(s, c)[i])
    BY <1>1, <1>3, <1>5 DEF IsBlocks
  <1>8. QED
    BY <1>4, <1>5, <1>6, <1>7 DEF IsBlocks, c

\* A container on the stack more, or none.
LEMMA PushBlock ==
    ASSUME NEW s, IsBlocks(s), NEW c, IsBlock(c)
    PROVE  /\ IsBlocks(s \o <<c>>) /\ s \o <<c>> # <<>>
           /\ Len(s \o <<c>>) = Len(s) + 1 /\ (s \o <<c>>)[Len(s) + 1] = c
           /\ \A i \in 1 .. Len(s) : (s \o <<c>>)[i] = s[i]
           /\ s \o <<>> = s
  <1>1. /\ IsSequence(Append(s, c)) /\ Len(Append(s, c)) = Len(s) + 1
        /\ \A i \in 1 .. Len(s) : Append(s, c)[i] = s[i]
        /\ Append(s, c)[Len(s) + 1] = c /\ Append(s, c) # <<>>
    BY Push DEF IsBlocks
  <1>2. Len(s) \in Nat /\ DOMAIN s = 1 .. Len(s) /\ s \in Seq(Range(s))
    BY SequenceIsFunction DEF IsBlocks, IsSequence
  <1>3. DOMAIN Append(s, c) = 1 .. Len(s) + 1
    BY <1>1, SequenceIsFunction
  <1>4. IsBlocks(Append(s, c))
    <2>1. ASSUME NEW i \in 1 .. Len(s) + 1 PROVE IsBlock(Append(s, c)[i])
      <3>1. CASE i = Len(s) + 1
        BY <1>1, <3>1
      <3>2. CASE i \in 1 .. Len(s)
        BY <1>1, <1>2, <3>2 DEF IsBlocks
      <3>3. QED
        BY <1>2, <3>1, <3>2
    <2>2. QED
      BY <1>1, <1>3, <2>1 DEF IsBlocks
  <1>5. Append(s, c) = s \o <<c>>
    <2>1. s \in Seq(Range(s) \cup {c})
      BY <1>2, SeqMonotonic
    <2>2. QED
      BY <2>1, AppendIsConcat
  <1>6. s \o <<>> = s
    BY <1>2, ConcatEmptySeq
  <1>7. QED
    BY <1>1, <1>4, <1>5, <1>6

\* The innermost container is closed.
LEMMA PopBlock ==
    ASSUME NEW s, IsBlocks(s), s # <<>>
    PROVE  /\ IsBlocks(Front(s)) /\ Len(Front(s)) = Len(s) - 1
           /\ Len(s) \in Nat \ {0} /\ IsBlock(Last(s)) /\ Last(s) = s[Len(s)]
           /\ \A i \in 1 .. Len(s) - 1 : Front(s)[i] = s[i]
           /\ Front(s) = <<>> => Len(s) = 1
  <1>1. /\ IsSequence(Front(s)) /\ Len(Front(s)) = Len(s) - 1
        /\ \A i \in 1 .. Len(s) - 1 : Front(s)[i] = s[i]
    BY Pop DEF IsBlocks
  <1>2. Len(s) \in 1 .. Len(s) /\ Len(s) \in Nat /\ DOMAIN s = 1 .. Len(s)
    BY SequenceIsFunction DEF IsBlocks
  <1>3. DOMAIN Front(s) = 1 .. Len(s) - 1
    BY <1>1, SequenceIsFunction
  <1>4. IsBlocks(Front(s))
    BY <1>1, <1>2, <1>3 DEF IsBlocks
  <1>5. IsBlock(Last(s)) /\ Last(s) = s[Len(s)]
    BY <1>2 DEF IsBlocks, Last
  <1>6. QED
    BY <1>1, <1>2, <1>4, <1>5, EmptySeq
-----------------------------------------------------------------------------
(* write_buffer                                                            *)

\* What fits is copied: the shorter of text and room.
LEMMA CountIsMinimum ==
    ASSUME TypeOK
    PROVE  /\ Len(m_range_to_write) \in Nat
           /\ Count \in Nat /\ Count <= Len(m_range_to_write) /\ Count <= room
           /\ Count = Len(m_range_to_write) \/ Count = room
  <1> DEFINE n == Len(m_range_to_write)
             IsLeast(x) == x \in {n, room} /\ \A y \in {n, room} : x <= y
  <1>1. n \in Nat /\ room \in Nat
    BY SequenceIsFunction DEF TypeOK
  <1>2. \E x : IsLeast(x)
    <2>1. CASE n <= room
      BY <1>1, <2>1
    <2>2. CASE room <= n
      BY <1>1, <2>2
    <2>3. QED
      BY <1>1, <2>1, <2>2
  <1>3. Count \in {n, room} /\ \A y \in {n, room} : Count <= y
    BY <1>2 DEF Count, Min
  <1>4. QED
    BY <1>1, <1>3

\* The buffer is respected, the output grows by what the buffer lost of its
\* room, and text stays behind only in a buffer that is full.
LEMMA WriteBuffer ==
    ASSUME TypeOK, write_buffer
    PROVE  /\ IsSequence(out') /\ IsSequence(Rest)
           /\ room' \in 0 .. room
           /\ Len(out') = Len(out) + room - room'
           /\ out = SubSeq(out', 1, Len(out))
           /\ Rest # <<>> => room' = 0
  <1> DEFINE n == Len(m_range_to_write)
             part == SubSeq(m_range_to_write, 1, Count)
  <1>1. /\ n \in Nat /\ Count \in Nat /\ Count <= n /\ Count <= room
        /\ Count = n \/ Count = room
        /\ room \in Nat
    BY CountIsMinimum DEF TypeOK
  <1>2. IsSequence(m_range_to_write) /\ IsSequence(out) /\ Len(out) \in Nat
    BY SequenceIsFunction DEF TypeOK
  <1>3. IsSequence(part) /\ Len(part) = Count
    BY <1>1, <1>2, PartOfText
  <1>4. IsSequence(Rest) /\ Len(Rest) = n - Count
    BY <1>1, <1>2, PartOfText DEF Rest
  <1>5. out' = out \o part /\ room' = room - Count
    BY DEF write_buffer
  <1> HIDE DEF part
  <1>6. /\ IsSequence(out \o part)
        /\ Len(out \o part) = Len(out) + Len(part)
        /\ SubSeq(out \o part, 1, Len(out)) = out
    BY <1>2, <1>3, Concatenation
  <1>7. Rest # <<>> => room' = 0
    <2>1. Rest # <<>> => Len(Rest) # 0
      BY <1>4, SequenceIsFunction
    <2>2. QED
      BY <1>1, <1>4, <1>5, <2>1
  <1>8. QED
    BY <1>1, <1>2, <1>3, <1>4, <1>5, <1>6, <1>7
-----------------------------------------------------------------------------
(* The end of the document.                                                *)

IsEnd(text) ==
    \E terminator \in {end_object, end_array} :
        \E n \in 1 .. Len(DocumentEnd(terminator)) + 1 :
            text = SubSeq(DocumentEnd(terminator), n, Len(DocumentEnd(terminator)))

\* Closing the outermost container leaves its end to be written, all of it.
LEMMA RootEnd ==
    ASSUME NEW s, Len(s) = 1, IsBlock(Last(s))
    PROVE  IsEnd(BlockEnd(s)) /\ Len(BlockEnd(s)) = IF m_pretty_print THEN 3 ELSE 2
  <1> DEFINE t == Last(s).block_terminator
             e == DocumentEnd(t)
  <1>1. t \in {end_object, end_array}
    BY DEF IsBlock
  <1>2. PrettyTabs(Len(s) - 1) = <<>>
    BY DEF PrettyTabs
  <1>3. BlockEnd(s) = PrettyNewline \o PrettyTabs(Len(s) - 1) \o <<t>> \o <<Newline>>
    BY DEF BlockEnd
  <1>4. BlockEnd(s) = e
    <2>1. CASE m_pretty_print
      BY <1>2, <1>3, <2>1 DEF DocumentEnd, PrettyNewline
    <2>2. CASE ~m_pretty_print
      BY <1>2, <1>3, <2>2 DEF DocumentEnd, PrettyNewline
    <2>3. QED
      BY <2>1, <2>2
  <1>5. IsSequence(e) /\ Len(e) = IF m_pretty_print THEN 3 ELSE 2
    <2>1. IsSequence(PrettyNewline) /\ IsSequence(<<t, Newline>>)
      BY 0 \in Nat, LayoutTexts, ShortTexts
    <2>2. Len(PrettyNewline) = IF m_pretty_print THEN 1 ELSE 0
      BY DEF PrettyNewline
    <2>3. Len(<<t, Newline>>) = 2
      OBVIOUS
    <2>4. QED
      BY <2>1, <2>2, <2>3, Concatenation DEF DocumentEnd
  <1> HIDE DEF e
  <1>6. SubSeq(e, 1, Len(e)) = e /\ Len(e) \in Nat
    BY <1>5, SubSeqFull, LenProperties DEF IsSequence
  <1>7. BlockEnd(s) = SubSeq(e, 1, Len(e)) /\ 1 \in 1 .. Len(e) + 1
    BY <1>4, <1>6
  <1>8. QED
    BY <1>1, <1>4, <1>5, <1>7 DEF IsEnd, e

\* What is left of the end is an end.
LEMMA RestOfEnd ==
    ASSUME NEW text, IsEnd(text), NEW k \in Nat, k <= Len(text)
    PROVE  IsEnd(SubSeq(text, k + 1, Len(text)))
  <1>1. PICK t \in {end_object, end_array} :
            \E n \in 1 .. Len(DocumentEnd(t)) + 1 :
                text = SubSeq(DocumentEnd(t), n, Len(DocumentEnd(t)))
    BY DEF IsEnd
  <1> DEFINE e == DocumentEnd(t)
  <1>2. IsSequence(e)
    BY 0 \in Nat, LayoutTexts, ShortTexts, Concatenation DEF DocumentEnd
  <1>3. PICK n \in 1 .. Len(e) + 1 : text = SubSeq(e, n, Len(e))
    BY <1>1
  <1> HIDE DEF e
  <1>4. Len(e) \in Nat /\ e \in Seq(Range(e))
    BY <1>2, SequenceIsFunction DEF IsSequence
  <1>5. Len(text) = Len(e) - n + 1
    BY <1>2, <1>3, <1>4, PartOfText
  <1>6. SubSeq(text, k + 1, Len(text)) = SubSeq(e, n + k, Len(e))
    <2>1. CASE k < Len(text)
      BY <1>3, <1>4, <1>5, <2>1, SubSeqOfSubSeq
    <2>2. CASE k = Len(text)
      <3>1. SubSeq(text, k + 1, Len(text)) = <<>>
        BY <1>4, <1>5, <2>2, SubSeqEmpty
      <3>2. SubSeq(e, n + k, Len(e)) = <<>>
        BY <1>4, <1>5, <2>2, SubSeqEmpty
      <3>3. QED
        BY <3>1, <3>2
    <2>3. QED
      BY <1>4, <1>5, <2>1, <2>2
  <1>7. n + k \in 1 .. Len(e) + 1
    BY <1>4, <1>5
  <1>8. QED
    BY <1>6, <1>7 DEF IsEnd, e
-----------------------------------------------------------------------------
(* The invariant.                                                          *)

\* Every constructor starts with one context and its opening delimiter.
LEMMA InitInv == Init => Inv
  <1> SUFFICES ASSUME Init PROVE Inv
    OBVIOUS
  <1> DEFINE c == make_serializer_context(root)
  <1>1. root \in Values /\ IsContainer(root)
    BY RootsAssumption DEF Init
  <1>2. IsBlock(c)
    BY <1>1, NewContext
  <1>3. m_contexts = <<c>> /\ m_range_to_write = BlockStart(c)
    BY DEF Init
  <1> HIDE DEF c
  <1>4. IsSequence(m_contexts) /\ \A i \in DOMAIN m_contexts : IsBlock(m_contexts[i])
    <2>1. DOMAIN <<c>> = {1} /\ <<c>>[1] = c
      OBVIOUS
    <2>2. IsSequence(<<c>>)
      BY ShortTexts
    <2>3. QED
      BY <1>2, <1>3, <2>1, <2>2
  <1>5. IsSequence(m_range_to_write)
    BY 0 \in Nat, <1>3, LayoutTexts
  <1>6. TypeOK
    BY <1>1, <1>4, <1>5, ShortTexts DEF Init, TypeOK, IsContainer, serializer_error_codes
  <1>7. OnlyTheEndCanBeLost
    BY <1>3 DEF OnlyTheEndCanBeLost, Init
  <1>8. QED
    BY <1>6, <1>7 DEF Inv

\* The variables an iteration that copies text leaves well typed.
LEMMA WriteTypes ==
    ASSUME TypeOK, write_buffer,
           IsSequence(m_range_to_write'), IsBlocks(m_contexts'),
           ec' \in serializer_error_codes \cup {"running"}
    PROVE  TypeOK'
  <1>1. IsSequence(out') /\ room' \in Nat
    BY WriteBuffer DEF TypeOK
  <1>2. m_pretty_print' = m_pretty_print /\ root' = root
    BY DEF write_buffer
  <1>3. QED
    BY <1>1, <1>2 DEF TypeOK, IsBlocks

LEMMA CompletedStep ==
    ASSUME Inv, Completed
    PROVE  Inv'
  <1>1. TypeOK /\ OnlyTheEndCanBeLost /\ write_buffer /\ m_contexts = <<>>
        /\ m_contexts' = <<>> /\ m_range_to_write' = Rest /\ ec' = "completed"
    BY DEF Inv, Completed
  <1>2. IsSequence(Rest) /\ (Rest # <<>> => room' = 0)
    BY <1>1, WriteBuffer
  <1>3. TypeOK'
    BY <1>1, <1>2, WriteTypes DEF TypeOK, IsBlocks, serializer_error_codes
  <1>4. IsEnd(m_range_to_write)
    BY <1>1 DEF OnlyTheEndCanBeLost, IsEnd
  <1>5. IsEnd(Rest)
    BY <1>1, <1>4, CountIsMinimum, RestOfEnd DEF Rest
  <1>6. OnlyTheEndCanBeLost'
    <2>1. m_pretty_print' = m_pretty_print
      BY <1>1 DEF write_buffer
    <2>2. IsEnd(m_range_to_write')
      BY <1>1, <1>5
    <2>3. QED
      BY <1>1, <1>2, <2>1, <2>2 DEF OnlyTheEndCanBeLost, IsEnd, DocumentEnd, PrettyNewline
  <1>7. QED
    BY <1>3, <1>6 DEF Inv

LEMMA WritePartStep ==
    ASSUME Inv, WritePart
    PROVE  Inv'
  <1>1. /\ TypeOK /\ write_buffer /\ m_contexts # <<>> /\ m_contexts' = m_contexts
        /\ m_range_to_write' = Rest /\ ec' = ec /\ ec = "running"
    BY DEF Inv, WritePart, write_buffer
  <1>2. IsSequence(Rest)
    BY <1>1, WriteBuffer
  <1>3. TypeOK'
    BY <1>1, <1>2, WriteTypes DEF TypeOK, IsBlocks
  <1>4. OnlyTheEndCanBeLost'
    BY <1>1 DEF OnlyTheEndCanBeLost
  <1>5. QED
    BY <1>3, <1>4 DEF Inv

LEMMA EndBlockStep ==
    ASSUME Inv, EndBlock
    PROVE  Inv'
  <1> DEFINE s == m_contexts
  <1>1. /\ TypeOK /\ write_buffer /\ s # <<>> /\ IsBlocks(s)
        /\ m_contexts' = Front(s) /\ m_range_to_write' = BlockEnd(s)
        /\ ec' = "running"
    BY DEF Inv, EndBlock, WriteAll, write_buffer, TypeOK, IsBlocks
  <1>2. /\ IsBlocks(Front(s)) /\ Len(s) \in Nat \ {0} /\ IsBlock(Last(s))
        /\ Front(s) = <<>> => Len(s) = 1
    BY <1>1, PopBlock
  <1>3. IsSequence(BlockEnd(s))
    <2> DEFINE tabs == PrettyTabs(Len(s) - 1)
               start == PrettyNewline \o tabs
               bracket == <<Last(s).block_terminator>>
               line == IF Len(s) = 1 THEN <<Newline>> ELSE <<>>
    <2>1. IsSequence(PrettyNewline) /\ IsSequence(tabs)
      <3>1. Len(s) - 1 \in Nat
        BY <1>2
      <3>2. QED
        BY <3>1, LayoutTexts
    <2>2. IsSequence(bracket) /\ IsSequence(line)
      BY ShortTexts
    <2>3. BlockEnd(s) = start \o bracket \o line
      BY DEF BlockEnd
    <2> HIDE DEF tabs, bracket, line
    <2>4. IsSequence(start)
      BY <2>1, Concatenation
    <2> HIDE DEF start
    <2>5. IsSequence(start \o bracket)
      BY <2>2, <2>4, Concatenation
    <2>6. QED
      BY <2>2, <2>3, <2>5, Concatenation
  <1>4. TypeOK'
    BY <1>1, <1>2, <1>3, WriteTypes
  <1>5. OnlyTheEndCanBeLost'
    <2>1. m_contexts' = <<>> => IsEnd(m_range_to_write')
      BY <1>1, <1>2, RootEnd
    <2>2. m_pretty_print' = m_pretty_print
      BY <1>1 DEF write_buffer
    <2>3. QED
      BY <1>1, <2>1, <2>2 DEF OnlyTheEndCanBeLost, IsEnd, DocumentEnd, PrettyNewline
  <1>6. QED
    BY <1>4, <1>5 DEF Inv

LEMMA WriteElementStep ==
    ASSUME Inv, WriteElement
    PROVE  Inv'
  <1> DEFINE s == m_contexts
             context == Last(s)
             element == Head(context.range)
             inner == make_serializer_context(element.value)
             start == Separator(context) \o PrettyTabs(Len(s))
             named == start \o KeyText(element.key)
  <1>1. /\ TypeOK /\ write_buffer /\ s # <<>> /\ IsBlocks(s)
        /\ context.range # <<>> /\ ~HasIllegalChar(element)
        /\ m_range_to_write' = named \o ValueText(element.value)
        /\ m_contexts' = Popped(s)
              \o (IF IsContainer(element.value) THEN <<inner>> ELSE <<>>)
        /\ ec' = "running"
    BY DEF Inv, WriteElement, WriteAll, write_buffer, TypeOK, IsBlocks
  <1>2. IsBlock(context) /\ Len(s) \in Nat
    BY <1>1, PopBlock
  <1>3. IsElement(element)
    BY <1>1, <1>2, NextElement
  <1>4. IsBlocks(Popped(s)) /\ Popped(s) # <<>>
    BY <1>1, PoppedStack
  <1>5. IsBlocks(m_contexts') /\ m_contexts' # <<>>
    <2>1. CASE IsContainer(element.value)
      <3>1. IsBlock(inner)
        BY <1>3, <2>1, NewContext DEF IsElement
      <3> HIDE DEF inner
      <3>2. IsBlocks(Popped(s) \o <<inner>>) /\ Popped(s) \o <<inner>> # <<>>
        BY <1>4, <3>1, PushBlock
      <3>3. QED
        BY <1>1, <2>1, <3>2
    <2>2. CASE ~IsContainer(element.value)
      <3>1. Popped(s) \o <<>> = Popped(s)
        BY <1>2, <1>4, PushBlock
      <3>2. QED
        BY <1>1, <1>4, <2>2, <3>1
    <2>3. QED
      BY <2>1, <2>2
  <1>6. IsSequence(m_range_to_write')
    <2>1. IsSequence(Separator(context)) /\ IsSequence(PrettyTabs(Len(s)))
      BY <1>2, LayoutTexts
    <2>2. IsSequence(KeyText(element.key)) /\ IsSequence(ValueText(element.value))
      BY <1>1, <1>3, ElementText
    <2>3. IsSequence(start)
      BY <2>1, Concatenation
    <2> HIDE DEF start
    <2>4. IsSequence(named)
      BY <2>2, <2>3, Concatenation
    <2> HIDE DEF named
    <2>5. QED
      BY <1>1, <2>2, <2>4, Concatenation
  <1>7. TypeOK'
    BY <1>1, <1>5, <1>6, WriteTypes
  <1>8. OnlyTheEndCanBeLost'
    BY <1>1, <1>5 DEF OnlyTheEndCanBeLost
  <1>9. QED
    BY <1>7, <1>8 DEF Inv

LEMMA IllegalCharStep ==
    ASSUME Inv, IllegalChar
    PROVE  Inv'
  <1>1. /\ TypeOK /\ write_buffer /\ m_contexts # <<>> /\ IsBlocks(m_contexts)
        /\ Last(m_contexts).range # <<>>
        /\ m_range_to_write' = <<>> /\ m_contexts' = Popped(m_contexts)
        /\ ec' = "illegal_char_in_string"
    BY DEF Inv, IllegalChar, WriteAll, TypeOK, IsBlocks
  <1>2. IsBlocks(m_contexts') /\ m_contexts' # <<>>
    BY <1>1, PoppedStack
  <1>3. TypeOK'
    BY <1>1, <1>2, ShortTexts, WriteTypes DEF serializer_error_codes
  <1>4. OnlyTheEndCanBeLost'
    BY <1>1, <1>2 DEF OnlyTheEndCanBeLost
  <1>5. QED
    BY <1>3, <1>4 DEF Inv

\* A call starts, after whatever result, or ends with a full buffer: the
\* members stay as they are.
LEMMA CallStep ==
    ASSUME Inv, BufferIsFull \/ \E size \in Nat : serialize(size)
    PROVE  Inv'
  <1>1. /\ UNCHANGED <<m_range_to_write, m_contexts, m_pretty_print, root, out>>
        /\ ec' \in {"running", "buffer_is_full"}
        /\ room' \in Nat
    <2>1. CASE BufferIsFull
      BY <2>1 DEF BufferIsFull, members, Inv, TypeOK
    <2>2. ASSUME NEW size \in Nat, serialize(size)
          PROVE  /\ UNCHANGED <<m_range_to_write, m_contexts, m_pretty_print, root, out>>
                 /\ ec' \in {"running", "buffer_is_full"}
                 /\ room' \in Nat
      BY <2>2 DEF serialize, members
    <2>3. QED
      BY <2>1, <2>2
  <1>2. TypeOK'
    BY <1>1 DEF Inv, TypeOK, serializer_error_codes
  <1>3. OnlyTheEndCanBeLost'
    BY <1>1 DEF Inv, OnlyTheEndCanBeLost, DocumentEnd, PrettyNewline
  <1>4. QED
    BY <1>2, <1>3 DEF Inv

\* Every iteration keeps the invariant, and every step.
LEMMA IterationInv == Inv /\ Iteration => Inv'
  BY CallStep, CompletedStep, WritePartStep, EndBlockStep, WriteElementStep,
     IllegalCharStep DEF Iteration

LEMMA NextInv == Inv /\ [Next]_serializerVars => Inv'
  <1> SUFFICES ASSUME Inv, [Next]_serializerVars PROVE Inv'
    OBVIOUS
  <1>1. CASE Iteration
    BY <1>1, IterationInv
  <1>2. ASSUME NEW size \in Sizes, PassBuffer(size)
        PROVE  Inv'
    BY <1>2, CallStep, SizesAssumption DEF PassBuffer
  <1>3. CASE UNCHANGED serializerVars
    BY <1>3 DEF serializerVars, members, Inv, TypeOK, OnlyTheEndCanBeLost, DocumentEnd,
       PrettyNewline
  <1>4. QED
    BY <1>1, <1>2, <1>3 DEF Next

\* The invariant holds of every run of a serializer.
THEOREM Invariance == Spec => []Inv
  BY InitInv, NextInv, PTL DEF Spec

\* The types of the members, and the pairing of the delimiters of a context.
THEOREM TypeCorrectness == Spec => []TypeOK
  <1>1. Inv => TypeOK
    BY DEF Inv
  <1>2. QED
    BY <1>1, Invariance, PTL

\* Whatever the buffers, a caller who stops at completed lacks at most a part
\* of the text that closes the outermost container, and only for want of room.
THEOREM LossIsBounded == Spec => []OnlyTheEndCanBeLost
  <1>1. Inv => OnlyTheEndCanBeLost
    BY DEF Inv
  <1>2. QED
    BY <1>1, Invariance, PTL
-----------------------------------------------------------------------------
(* The protocol.                                                           *)

LEMMA ProtocolStep == Inv /\ [Next]_serializerVars => [Protocol!Next]_Protocol!vars
  <1> SUFFICES ASSUME Inv, [Next]_serializerVars PROVE [Protocol!Next]_Protocol!vars
    OBVIOUS
  <1>1. CASE \E size \in Sizes : PassBuffer(size)
    <2>1. Protocol!Call
      BY <1>1 DEF PassBuffer, serialize, Protocol!Call
    <2>2. QED
      BY <2>1 DEF Protocol!Next
  <1>2. CASE BufferIsFull
    <2>1. Protocol!Fill
      BY <1>2 DEF BufferIsFull, Protocol!Fill
    <2>2. QED
      BY <2>1 DEF Protocol!Next
  <1>3. CASE Completed \/ WritePart \/ EndBlock \/ WriteElement \/ IllegalChar
    <2>1. /\ write_buffer
          /\ ec' \in {"running", "completed", "illegal_char_in_string"}
      BY <1>3 DEF Completed, WritePart, EndBlock, WriteElement, IllegalChar, WriteAll,
         write_buffer
    <2>2. /\ room' \in 0 .. room
          /\ Len(out') = Len(out) + room - room'
          /\ out = SubSeq(out', 1, Len(out))
      BY <2>1, WriteBuffer DEF Inv
    <2>3. ec = "running" /\ room > 0
      BY <2>1 DEF write_buffer
    <2>4. Protocol!Write
      BY <2>1, <2>2, <2>3 DEF Protocol!Write, serializer_error_codes
    <2>5. QED
      BY <2>4 DEF Protocol!Next
  <1>4. CASE UNCHANGED serializerVars
    BY <1>4 DEF serializerVars, Protocol!vars
  <1>5. QED
    BY <1>1, <1>2, <1>3, <1>4 DEF Next, Iteration

\* The serializer implements the protocol: it never writes past a buffer,
\* takes nothing back, returns buffer_is_full only for a full buffer, and
\* writes nothing after another result.
THEOREM Implementation == Spec => ImplementsProtocol
  <1>1. Init => Protocol!Init
    BY DEF Init, Protocol!Init
  <1>2. QED
    BY <1>1, Invariance, ProtocolStep, PTL DEF Spec, ImplementsProtocol, Protocol!Spec

-----------------------------------------------------------------------------
(* The order of the members.                                               *)

\* The reference order of keys is that of std::less.
LEMMA BeforeIsLess ==
    ASSUME NEW a \in Seq(Letters), NEW b \in Seq(Letters)
    PROVE  Before(CodesOf(a), CodesOf(b)) <=> Less(a, b)
  <1> DEFINE s == CodesOf(a)
             t == CodesOf(b)
  <1>1. ASSUME NEW x \in Seq(Letters)
        PROVE  /\ CodesOf(x) \in Seq(Int) /\ Len(CodesOf(x)) = Len(x)
               /\ DOMAIN CodesOf(x) = 1 .. Len(x) /\ Len(x) \in Nat
               /\ \A i \in 1 .. Len(x) : CodesOf(x)[i] = Code[x[i]] /\ x[i] \in Letters
    <2> DEFINE c == CodesOf(x)
    <2>1. /\ DOMAIN x = 1 .. Len(x) /\ Len(x) \in Nat
          /\ \A i \in 1 .. Len(x) : x[i] \in Letters
      BY LenProperties, ElementOfSeq
    <2>2. \A i \in 1 .. Len(x) : Code[x[i]] \in Int
      BY <2>1, CodeAssumption DEF Letters
    <2>3. c = [i \in 1 .. Len(x) |-> Code[x[i]]]
      BY <2>1 DEF CodesOf
    <2>4. c \in [1 .. Len(x) -> Int]
      BY <2>2, <2>3
    <2> HIDE DEF c
    <2>5. c \in Seq(Int) /\ Len(c) = Len(x)
      BY <2>1, <2>4, FunctionIsText
    <2>6. DOMAIN c = 1 .. Len(x)
      BY <2>3
    <2>8. \A i \in 1 .. Len(x) : c[i] = Code[x[i]]
      BY <2>3
    <2>9. QED
      BY <2>1, <2>5, <2>6, <2>8 DEF c
  <1>2. /\ s \in Seq(Int) /\ t \in Seq(Int) /\ Len(s) = Len(a) /\ Len(t) = Len(b)
        /\ DOMAIN s = 1 .. Len(a) /\ DOMAIN t = 1 .. Len(b)
        /\ Len(a) \in Nat /\ Len(b) \in Nat
        /\ \A i \in 1 .. Len(a) : s[i] = Code[a[i]] /\ a[i] \in Letters
        /\ \A i \in 1 .. Len(b) : t[i] = Code[b[i]] /\ b[i] \in Letters
    BY <1>1
  <1> HIDE DEF s, t
  <1>3. ASSUME NEW i \in 1 .. Len(a), i <= Len(b)
        PROVE  s[i] = t[i] <=> a[i] = b[i]
    <2>1. i \in 1 .. Len(b)
      BY <1>2, <1>3
    <2>2. a[i] \in Letters /\ b[i] \in Letters /\ s[i] = Code[a[i]] /\ t[i] = Code[b[i]]
      BY <1>2, <2>1
    <2>3. a[i] # b[i] => Code[a[i]] # Code[b[i]]
      BY <2>2, CodeAssumption DEF Letters
    <2>4. QED
      BY <2>2, <2>3
  <1>4. IsPrefix(s, t) <=> Len(a) <= Len(b) /\ \A i \in 1 .. Len(a) : s[i] = t[i]
    <2>1. s \in Seq(Int) /\ t \in Seq(Int) /\ Len(s) = Len(a) /\ Len(t) = Len(b)
      BY <1>2
    <2>2. IsPrefix(s, t) <=> Len(s) <= Len(t) /\ \A i \in 1 .. Len(s) : s[i] = t[i]
      BY <2>1, PrefixByCharacters
    <2>3. QED
      BY <2>1, <2>2
  <1>10. Len(a) \in Nat /\ Len(b) \in Nat
    BY <1>2
  <1>5. ASSUME IsPrefix(s, t), s # t PROVE LessAt(a, b, Len(a))
    <2>1. Len(a) <= Len(b) /\ \A i \in 1 .. Len(a) : a[i] = b[i]
      BY <1>2, <1>3, <1>4, <1>5
    <2>2. Len(a) # Len(b)
      <3> SUFFICES ASSUME Len(a) = Len(b) PROVE s = t
        BY <1>5
      <3>1. QED
        BY <1>2, <1>4, <1>5, SeqEqual
    <2>3. QED
      BY <1>10, <2>1, <2>2 DEF LessAt
  <1>6. ASSUME NEW i \in DOMAIN s \cap DOMAIN t, s[i] < t[i],
               \A j \in 1 .. i - 1 : s[j] = t[j]
        PROVE  LessAt(a, b, i - 1)
    <2>1. i \in 1 .. Len(a) /\ i \in 1 .. Len(b)
      BY <1>2
    <2>2. \A j \in 1 .. i - 1 : a[j] = b[j]
      BY <1>2, <1>3, <1>6, <2>1
    <2>3. Code[a[i]] < Code[b[i]] /\ (i - 1) + 1 = i
      BY <1>2, <1>6, <2>1
    <2>4. i - 1 \in 0 .. Len(a) /\ i - 1 < Len(b)
      BY <1>2, <2>1
    <2>5. QED
      BY <2>2, <2>3, <2>4 DEF LessAt
  <1>7. ASSUME NEW n, LessAt(a, b, n) PROVE Before(s, t)
    <2>1. /\ n \in Nat /\ n <= Len(a) /\ n < Len(b)
          /\ \A i \in 1 .. n : a[i] = b[i]
          /\ n < Len(a) => Code[a[n + 1]] < Code[b[n + 1]]
      BY <1>2, <1>7 DEF LessAt
    <2>2. \A i \in 1 .. n : s[i] = t[i]
      BY <1>2, <1>3, <2>1
    <2>3. CASE n = Len(a)
      <3>1. IsPrefix(s, t)
        BY <1>2, <1>4, <2>1, <2>2, <2>3
      <3>2. s # t
        BY <1>2, <2>1, <2>3
      <3>3. QED
        BY <3>1, <3>2 DEF Before, IsStrictPrefix
    <2>4. CASE n < Len(a)
      <3>1. n + 1 \in DOMAIN s \cap DOMAIN t /\ (n + 1) - 1 = n
        BY <1>2, <2>1, <2>4
      <3>2. s[n + 1] < t[n + 1]
        BY <1>2, <2>1, <2>4, <3>1
      <3>3. QED
        BY <2>2, <3>1, <3>2 DEF Before
    <2>5. QED
      BY <1>10, <2>1, <2>3, <2>4
  <1>8. ASSUME Before(s, t) PROVE \E n : LessAt(a, b, n)
    BY <1>5, <1>6, <1>8 DEF Before, IsStrictPrefix
  <1>9. QED
    BY <1>7, <1>8, LessSomewhere DEF s, t

\* The members are in the reference order, which is the only one there is.
LEMMA SortedIsInOrder ==
    ASSUME NEW keys \in SUBSET Seq(Letters), IsFiniteSet(keys)
    PROVE  Sorted(keys) = InOrder(keys)
  <1> DEFINE n == Cardinality(keys)
             Ordered(order) == \A i, j \in 1 .. Len(order) :
                 i < j => Before(CodesOf(order[i]), CodesOf(order[j]))
             o == InOrder(keys)
  <1>1. n \in Nat /\ Increasing(o, keys)
    BY KeysInOrder
  <1>2. ASSUME NEW p, p \in [1 .. n -> keys]
        PROVE  Len(p) = n /\ (Ordered(p) <=> Increasing(p, keys))
    <2>1. p \in Seq(keys)
      BY <1>1, <1>2, FunctionIsText
    <2>2. Len(p) = n
      BY <1>1, <1>2, <2>1, LenProperties
    <2>3. ASSUME NEW i \in 1 .. n, NEW j \in 1 .. n
          PROVE  Before(CodesOf(p[i]), CodesOf(p[j])) <=> Less(p[i], p[j])
      <3>1. p[i] \in Seq(Letters) /\ p[j] \in Seq(Letters)
        BY <1>2
      <3>2. QED
        BY <3>1, BeforeIsLess
    <2> HIDE DEF n
    <2>4. Ordered(p) <=> \A i, j \in 1 .. n : i < j => Less(p[i], p[j])
      BY <2>2, <2>3
    <2>5. QED
      BY <1>2, <2>2, <2>4 DEF Increasing, n
  <1>3. o \in SetToSeqs(keys) /\ Ordered(o)
    <2>1. o \in [1 .. n -> keys] /\ \A i, j \in 1 .. n : i < j => Less(o[i], o[j])
      BY <1>1 DEF Increasing
    <2> HIDE DEF o
    <2>2. ASSUME NEW i \in 1 .. n, NEW j \in 1 .. n, i # j PROVE o[i] # o[j]
      <3>1. o[i] \in Seq(Letters) /\ o[j] \in Seq(Letters)
        BY <2>1
      <3>2. Less(o[i], o[j]) \/ Less(o[j], o[i])
        BY <1>1, <2>1, <2>2
      <3>3. QED
        BY <3>1, <3>2, LessIsIrreflexive
    <2>3. o \in SetToSeqs(keys)
      BY <2>1, <2>2 DEF SetToSeqs
    <2>4. QED
      BY <1>1, <1>2, <2>1, <2>3
  <1>4. Sorted(keys) \in SetToSeqs(keys) /\ Ordered(Sorted(keys))
    <2> HIDE DEF o
    <2>1. \E order \in SetToSeqs(keys) : Ordered(order)
      BY <1>3
    <2>2. Sorted(keys) = CHOOSE order \in SetToSeqs(keys) : Ordered(order)
      BY DEF Sorted
    <2> HIDE DEF Ordered
    <2>3. QED
      BY <2>1, <2>2
  <1>5. Sorted(keys) \in [1 .. n -> keys]
    BY <1>4 DEF SetToSeqs
  <1>6. Increasing(Sorted(keys), keys)
    BY <1>2, <1>4, <1>5
  <1>7. QED
    BY <1>6, OneOrder

-----------------------------------------------------------------------------
(* The reference layout exists.                                            *)

\* The reference writes the elements that the serializer does.
LEMMA PairsAreElements ==
    ASSUME NEW value \in Values, IsContainer(value)
    PROVE  Pairs(value) = Elements(value)
  <1>1. CASE value.type = "array"
    BY <1>1 DEF Pairs, Elements
  <1>2. CASE value.type # "array"
    <2>1. /\ DOMAIN value.members \in SUBSET Seq(Letters)
          /\ IsFiniteSet(DOMAIN value.members)
      BY <1>2, KindsOfValues DEF IsContainer, ContainerTypes
    <2>2. Sorted(DOMAIN value.members) = InOrder(DOMAIN value.members)
      BY <2>1, SortedIsInOrder
    <2>3. QED
      BY <1>2, <2>2 DEF Pairs, Elements
  <1>3. QED
    BY <1>1, <1>2

\* The values of its elements are those that a container holds.
LEMMA ElementIsHeld ==
    ASSUME NEW value \in Values, IsContainer(value), NEW i \in DOMAIN Elements(value)
    PROVE  /\ Elements(value)[i].value \in Held(value)
           /\ Elements(value)[i].value \in Values
  <1> DEFINE e == Elements(value)
  <1>1. e[i].value \in Values
    BY ElementsOfContainer DEF IsElement
  <1>2. CASE value.type = "array"
    <2>1. e = [j \in DOMAIN value.items |-> [key |-> <<>>, value |-> value.items[j]]]
      BY <1>2 DEF Elements
    <2>2. i \in DOMAIN value.items /\ e[i].value = value.items[i]
      BY <2>1
    <2>3. Held(value) = {value.items[j] : j \in DOMAIN value.items}
      BY <1>2, Zenon DEF Held
    <2>4. QED
      BY <1>1, <2>2, <2>3
  <1>3. CASE value.type = "object"
    <2> DEFINE keys == DOMAIN value.members
               order == InOrder(keys)
    <2>1. keys \in SUBSET Seq(Letters) /\ IsFiniteSet(keys)
      BY <1>3, KindsOfValues
    <2>2. order \in [1 .. Cardinality(keys) -> keys]
      BY <2>1, KeysInOrder DEF Increasing
    <2>3. e = [j \in DOMAIN order |-> [key |-> order[j], value |-> value.members[order[j]]]]
      BY <1>3 DEF Elements
    <2> HIDE DEF order
    <2>4. i \in DOMAIN order /\ e[i].value = value.members[order[i]]
      BY <2>3
    <2>5. order[i] \in keys
      BY <2>2, <2>4
    <2>6. Held(value) = {value.members[key] : key \in keys}
      <3>1. value.type # "array"
        BY <1>3
      <3>2. QED
        BY <1>3, <3>1, Zenon DEF Held
    <2>7. QED
      BY <1>1, <2>4, <2>5, <2>6
  <1>4. QED
    BY <1>2, <1>3 DEF IsContainer, ContainerTypes

\* Two tables that give some values the same texts.
Agree(t, u, values) ==
    \A value \in values : \A depth \in Nat : \A pretty \in BOOLEAN :
        t[Place(value, depth, pretty)] = u[Place(value, depth, pretty)]

\* A place is made of what it consists of.
LEMMA PlaceParts ==
    /\ \A value \in Values : \A depth \in Nat : \A pretty \in BOOLEAN :
          /\ Place(value, depth, pretty) \in Places
          /\ Place(value, depth, pretty).value = value
          /\ Place(value, depth, pretty).depth = depth
          /\ Place(value, depth, pretty).pretty = pretty
    /\ \A at \in Places :
          /\ at.value \in Values /\ at.depth \in Nat /\ at.pretty \in BOOLEAN
          /\ at = Place(at.value, at.depth, at.pretty)
  BY DEF Places, Place

\* The text of a value depends on those of the values it holds alone.
LEMMA LayoutIsLocal ==
    ASSUME NEW at \in Places, NEW t, NEW u, Agree(t, u, Held(at.value) \cap Values)
    PROVE  LayoutOf(at, t) = LayoutOf(at, u)
  <1> DEFINE pairs == Pairs(at.value)
  <1>1. at.value \in Values /\ at.depth + 1 \in Nat /\ at.pretty \in BOOLEAN
    BY PlaceParts
  <1>2. CASE IsContainer(at.value)
    <2>1. ASSUME NEW i \in DOMAIN pairs
          PROVE  PartOf(pairs, i, at.depth + 1, at.pretty, t)
                     = PartOf(pairs, i, at.depth + 1, at.pretty, u)
      <3>1. pairs[i].value \in Held(at.value) \cap Values
        BY <1>1, <1>2, PairsAreElements, ElementIsHeld
      <3>2. t[Place(pairs[i].value, at.depth + 1, at.pretty)]
                = u[Place(pairs[i].value, at.depth + 1, at.pretty)]
        BY <1>1, <3>1 DEF Agree
      <3>3. QED
        BY <3>2 DEF PartOf
    <2>2. PartsOf(at, t) = PartsOf(at, u)
      BY <2>1 DEF PartsOf
    <2>3. QED
      BY <2>2 DEF LayoutOf
  <1>3. CASE ~IsContainer(at.value)
    BY <1>3, Zenon DEF LayoutOf, IsContainer
  <1>4. QED
    BY <1>2, <1>3

\* The values of less than some height, and a table of their texts.
Below(n) == {value \in Values : Height(value) < n}

IsLayout(t, n) ==
    \A value \in Below(n) : \A depth \in Nat : \A pretty \in BOOLEAN :
        t[Place(value, depth, pretty)] = LayoutOf(Place(value, depth, pretty), t)

LEMMA HeldIsBelow ==
    ASSUME NEW value \in Values, NEW n \in Nat, Height(value) < n + 1
    PROVE  Held(value) \cap Values \subseteq Below(n)
  BY HeightAssumption DEF Below

\* Tables agree on what both of them have.
LEMMA LayoutsAgree ==
    ASSUME NEW m \in Nat, NEW n \in Nat, m <= n,
           NEW t, IsLayout(t, m), NEW u, IsLayout(u, n)
    PROVE  Agree(t, u, Below(m))
  <1> DEFINE T == {k \in Nat : k <= m => Agree(t, u, Below(k))}
  <1>1. 0 \in T
    BY HeightAssumption DEF Agree, Below
  <1>2. ASSUME NEW k \in T PROVE k + 1 \in T
    <2>1. SUFFICES ASSUME k + 1 <= m, NEW value \in Below(k + 1), NEW depth \in Nat,
                          NEW pretty \in BOOLEAN
                   PROVE  t[Place(value, depth, pretty)] = u[Place(value, depth, pretty)]
      BY DEF Agree
    <2>2. Agree(t, u, Below(k))
      BY <2>1
    <2>3. /\ value \in Values /\ Height(value) < k + 1 /\ Height(value) \in Nat
          /\ value \in Below(m) /\ value \in Below(n)
      BY <2>1, HeightAssumption DEF Below
    <2>4. Held(value) \cap Values \subseteq Below(k)
      BY <2>3, HeldIsBelow
    <2>5. Agree(t, u, Held(value) \cap Values)
      BY <2>2, <2>4 DEF Agree
    <2>6. Place(value, depth, pretty) \in Places /\ Place(value, depth, pretty).value = value
      BY PlaceParts DEF Below
    <2>7. LayoutOf(Place(value, depth, pretty), t) = LayoutOf(Place(value, depth, pretty), u)
      BY <2>5, <2>6, LayoutIsLocal
    <2>8. QED
      BY <2>1, <2>3, <2>7 DEF IsLayout
  <1>3. T = Nat
    <2>1. T \subseteq Nat
      OBVIOUS
    <2> HIDE DEF T
    <2>2. QED
      BY <1>1, <1>2, <2>1, Induction
  <1>4. QED
    BY <1>3

\* There is a table of every height.
LEMMA LayoutsExist ==
    ASSUME NEW n \in Nat
    PROVE  \E t : IsLayout(t, n)
  <1> DEFINE T == {k \in Nat : \E t : IsLayout(t, k)}
  <1>1. 0 \in T
    BY HeightAssumption DEF IsLayout, Below
  <1>2. ASSUME NEW k \in T PROVE k + 1 \in T
    <2>1. PICK t : IsLayout(t, k)
      OBVIOUS
    <2> DEFINE u == [at \in Places |-> LayoutOf(at, t)]
    <2>2. Agree(u, t, Below(k))
      <3> SUFFICES ASSUME NEW value \in Below(k), NEW depth \in Nat, NEW pretty \in BOOLEAN
                   PROVE  u[Place(value, depth, pretty)] = t[Place(value, depth, pretty)]
        BY DEF Agree
      <3>1. Place(value, depth, pretty) \in Places
        BY PlaceParts DEF Below
      <3>2. u[Place(value, depth, pretty)] = LayoutOf(Place(value, depth, pretty), t)
        BY <3>1
      <3>3. QED
        BY <2>1, <3>2 DEF IsLayout
    <2>3. ASSUME NEW value \in Below(k + 1), NEW depth \in Nat, NEW pretty \in BOOLEAN
          PROVE  u[Place(value, depth, pretty)] = LayoutOf(Place(value, depth, pretty), u)
      <3>1. value \in Values /\ Height(value) < k + 1
        BY DEF Below
      <3>2. Place(value, depth, pretty) \in Places /\ Place(value, depth, pretty).value = value
        BY <3>1, PlaceParts
      <3>3. Held(value) \cap Values \subseteq Below(k)
        BY <3>1, HeldIsBelow
      <3>4. u[Place(value, depth, pretty)] = LayoutOf(Place(value, depth, pretty), t)
        BY <3>2
      <3> HIDE DEF u
      <3>5. Agree(u, t, Held(value) \cap Values)
        BY <2>2, <3>3 DEF Agree
      <3>6. LayoutOf(Place(value, depth, pretty), u) = LayoutOf(Place(value, depth, pretty), t)
        BY <3>2, <3>5, LayoutIsLocal
      <3>7. QED
        BY <3>4, <3>6
    <2> HIDE DEF u
    <2>4. IsLayout(u, k + 1)
      BY <2>3 DEF IsLayout
    <2>5. QED
      BY <2>4
  <1>3. T = Nat
    <2>1. T \subseteq Nat
      OBVIOUS
    <2> HIDE DEF T
    <2>2. QED
      BY <1>1, <1>2, <2>1, Induction
  <1>4. QED
    BY <1>3

\* What is above one another is finite, so the recursion ends.
LEMMA LayoutEquation ==
    /\ Layout = [at \in Places |-> LayoutOf(at, Layout)]
    /\ \A at \in Places : Layout[at] = LayoutOf(at, Layout)
  <1> DEFINE t(n) == CHOOSE t : IsLayout(t, n)
             g == [at \in Places |-> t(Height(at.value) + 1)[at]]
  <1>1. \A n \in Nat : IsLayout(t(n), n)
    BY LayoutsExist
  <1> HIDE DEF t
  <1>2. ASSUME NEW at \in Places PROVE g[at] = LayoutOf(at, g)
    <2> DEFINE value == at.value
               h == t(Height(value) + 1)
    <2>1. /\ value \in Values /\ Height(value) \in Nat /\ Height(value) + 1 \in Nat
          /\ at = Place(value, at.depth, at.pretty) /\ at.depth \in Nat /\ at.pretty \in BOOLEAN
      BY PlaceParts, HeightAssumption
    <2>2. value \in Below(Height(value) + 1)
      BY <2>1 DEF Below
    <2>3. g[at] = h[at]
      OBVIOUS
    <2>4. IsLayout(h, Height(value) + 1)
      BY <1>1, <2>1
    <2>5. h[at] = LayoutOf(at, h)
      <3> HIDE DEF h, value
      <3>1. h[Place(value, at.depth, at.pretty)] = LayoutOf(Place(value, at.depth, at.pretty), h)
        BY <2>1, <2>2, <2>4 DEF IsLayout
      <3>2. QED
        BY <2>1, <3>1
    <2>6. ASSUME NEW held \in Held(value) \cap Values, NEW depth \in Nat, NEW pretty \in BOOLEAN
          PROVE  g[Place(held, depth, pretty)] = h[Place(held, depth, pretty)]
      <3> DEFINE i == t(Height(held) + 1)
      <3>1. /\ Height(held) \in Nat /\ Height(held) + 1 \in Nat
            /\ Height(held) + 1 <= Height(value) + 1
        BY <2>1, HeightAssumption
      <3>2. held \in Below(Height(held) + 1)
        BY <3>1 DEF Below
      <3>3. /\ Place(held, depth, pretty) \in Places
            /\ Place(held, depth, pretty).value = held
        BY PlaceParts
      <3>4. g[Place(held, depth, pretty)] = i[Place(held, depth, pretty)]
        BY <3>3
      <3>5. IsLayout(i, Height(held) + 1)
        BY <1>1, <3>1
      <3> HIDE DEF i, h, value, g
      <3>6. Agree(i, h, Below(Height(held) + 1))
        BY <2>1, <2>4, <3>1, <3>5, LayoutsAgree
      <3>7. QED
        BY <3>2, <3>4, <3>6 DEF Agree
    <2> HIDE DEF g, h
    <2>7. Agree(g, h, Held(at.value) \cap Values)
      BY <2>6 DEF Agree
    <2>8. LayoutOf(at, g) = LayoutOf(at, h)
      BY <2>7, LayoutIsLocal
    <2>9. QED
      BY <2>3, <2>5, <2>8
  <1>3. g = [at \in Places |-> g[at]]
    OBVIOUS
  <1> DEFINE Solves(f) == f = [at \in Places |-> LayoutOf(at, f)]
  <1> HIDE DEF g
  <1>4. Solves(g)
    BY <1>2, <1>3
  <1>5. Layout = CHOOSE f : Solves(f)
    BY DEF Layout
  <1>6. Solves(Layout)
    <2> HIDE DEF Solves
    <2>1. QED
      BY <1>4, <1>5
  <1>7. Layout = [at \in Places |-> LayoutOf(at, Layout)]
    BY <1>6
  <1>8. \A at \in Places : Layout[at] = LayoutOf(at, Layout)
    BY <1>7
  <1>9. QED
    BY <1>7, <1>8

-----------------------------------------------------------------------------
(* The characters of the layout.                                           *)

\* Those that are written, and with them the mark of an unwritable element.
Printed == STRING \ {Stop}
Marked == Printed \cup {Stop}

LEMMA PrintedIsAnAlphabet == IsAlphabet(Printed) /\ Stop \notin Printed
  <1>1. Stop \notin FormatChars
    BY DEF Stop, FormatChars, begin_array, begin_object, end_array, end_object,
       name_separator, value_separator, string_begin_end, begin_esc_seq, Newline
  <1>2. FormatChars \subseteq Printed
    BY <1>1, FormatCharsAssumption DEF Printed
  <1>3. Letters \subseteq Printed
    BY CodeAssumption, StopAssumption DEF Letters, Printed
  <1>4. ASSUME NEW literal \in DOMAIN Literals PROVE literal \in Seq(Printed)
    <2>1. literal \in Seq(STRING)
      BY LiteralsAssumption
    <2>2. Range(literal) \subseteq STRING /\ literal \in Seq(Range(literal))
      BY <2>1, RangeOfSeq, SeqOfRange
    <2>3. Range(literal) \subseteq Printed
      BY <2>2, StopAssumption DEF Printed
    <2>4. QED
      BY <2>2, <2>3, SeqMonotonic
  <1>5. QED
    BY <1>2, <1>3, <1>4 DEF IsAlphabet, Printed

LEMMA PrintedIsMarked ==
    ASSUME NEW s \in Seq(Printed)
    PROVE  s \in Seq(Marked)
  BY SeqMonotonic DEF Marked

\* What the reference takes for unwritable the serializer refuses.
LEMMA UnwritableIsIllegal ==
    ASSUME NEW element, IsElement(element)
    PROVE  Unwritable(element.key, element.value) <=> HasIllegalChar(element)
  <1>1. ASSUME NEW s \in Seq(Letters)
        PROVE  wrap_string(s) = nullopt <=> HasControlCode(s)
    <2>1. STRING \in SUBSET STRING /\ {"\"", "\\", "n", "t"} \subseteq STRING
      BY FormatCharsAssumption DEF FormatChars, string_begin_end, begin_esc_seq
    <2>2. s \in Seq(STRING)
      BY CodeAssumption, SeqMonotonic DEF Letters
    <2>3. wrap_string(s) = nullopt <=> \E i \in DOMAIN s : s[i] \in NoEscape
      BY <2>1, <2>2, WrappedString
    <2>4. QED
      BY <2>3 DEF HasControlCode, NoEscape
  <1>2. /\ element.key \in Seq(Letters)
        /\ element.value.type = "string" => element.value.string \in Seq(Letters)
    BY KindsOfValues DEF IsElement, IsText, Letters
  <1>3. QED
    BY <1>1, <1>2 DEF Unwritable, HasIllegalChar

\* Line breaks, indentation, delimiters and names are printed.
LEMMA PiecesArePrinted ==
    ASSUME NEW pretty \in BOOLEAN
    PROVE  /\ LineBreak(pretty) \in Seq(Printed)
           /\ <<value_separator>> \o LineBreak(pretty) \in Seq(Printed)
           /\ \A n \in Nat : Indent(n, pretty) \in Seq(Printed)
           /\ \A value : /\ <<Opening(value)>> \in Seq(Printed)
                         /\ <<Closing(value)>> \in Seq(Printed)
           /\ \A key \in Seq(Letters) :
                 wrap_string(key) # nullopt => KeyPart(key, pretty) \in Seq(Printed)
  <1>1. {Newline, "\t", " ", value_separator, name_separator,
         begin_object, begin_array, end_object, end_array} \subseteq Printed
    BY PrintedIsAnAlphabet DEF IsAlphabet, FormatChars
  <1>2. LineBreak(pretty) \in Seq(Printed)
    BY <1>1, ShortText DEF LineBreak
  <1>3. <<value_separator>> \o LineBreak(pretty) \in Seq(Printed)
    <2>1. <<value_separator>> \in Seq(Printed)
      BY <1>1, ShortText
    <2>2. QED
      BY <1>2, <2>1, Together
  <1>4. ASSUME NEW n \in Nat PROVE Indent(n, pretty) \in Seq(Printed)
    <2> DEFINE tabs == [i \in 1 .. n |-> "\t"]
    <2>1. tabs \in [1 .. n -> Printed]
      BY <1>1
    <2> HIDE DEF tabs
    <2>2. tabs \in Seq(Printed) /\ <<>> \in Seq(Printed)
      BY <1>1, <2>1, FunctionIsText, ShortText
    <2>3. QED
      BY <2>2 DEF Indent, tabs
  <1>5. ASSUME NEW value
        PROVE  <<Opening(value)>> \in Seq(Printed) /\ <<Closing(value)>> \in Seq(Printed)
    <2>1. Opening(value) \in Printed /\ Closing(value) \in Printed
      BY <1>1 DEF Opening, Closing
    <2>2. QED
      BY <2>1, ShortText
  <1>6. ASSUME NEW key \in Seq(Letters), wrap_string(key) # nullopt
        PROVE  KeyPart(key, pretty) \in Seq(Printed)
    <2> DEFINE blank == IF pretty THEN <<" ">> ELSE <<>>
    <2>1. wrap_string(key) \in Seq(Printed)
      BY <1>6, PrintedIsAnAlphabet, WrappedChars
    <2>2. <<name_separator>> \in Seq(Printed) /\ blank \in Seq(Printed) /\ <<>> \in Seq(Printed)
      BY <1>1, ShortText
    <2>3. wrap_string(key) \o <<name_separator>> \in Seq(Printed)
      BY <2>1, <2>2, Together
    <2>4. KeyPart(key, pretty) = IF key = <<>> THEN <<>>
                               ELSE (wrap_string(key) \o <<name_separator>>) \o blank
      BY DEF KeyPart
    <2> HIDE DEF blank
    <2>5. (wrap_string(key) \o <<name_separator>>) \o blank \in Seq(Printed)
      BY <2>2, <2>3, Together
    <2>6. QED
      BY <2>2, <2>4, <2>5
  <1>7. QED
    BY <1>2, <1>3, <1>4, <1>5, <1>6
\* A value that is not an unwritable string.
Fine(value) == value.type = "string" => wrap_string(value.string) # nullopt

\* What precedes the value of an element.
Lead(element, first, depth, pretty) ==
    (IF first THEN <<>> ELSE <<value_separator>> \o LineBreak(pretty))
        \o Indent(depth, pretty) \o KeyPart(element.key, pretty)

\* What the layout has for an element.
PartText(element, first, depth, pretty) ==
    IF HasIllegalChar(element) THEN <<Stop>>
    ELSE Lead(element, first, depth, pretty) \o Layout[Place(element.value, depth, pretty)]

LEMMA LeadIsPrinted ==
    ASSUME NEW element, IsElement(element), ~HasIllegalChar(element),
           NEW first \in BOOLEAN, NEW depth \in Nat, NEW pretty \in BOOLEAN
    PROVE  Lead(element, first, depth, pretty) \in Seq(Printed)
  <1> DEFINE separator == IF first THEN <<>> ELSE <<value_separator>> \o LineBreak(pretty)
  <1>1. element.key \in Seq(Letters) /\ wrap_string(element.key) # nullopt
    BY DEF IsElement, IsText, Letters, HasIllegalChar
  <1>2. /\ separator \in Seq(Printed) /\ Indent(depth, pretty) \in Seq(Printed)
        /\ KeyPart(element.key, pretty) \in Seq(Printed)
    BY <1>1, PiecesArePrinted, EmptySeq
  <1>3. Lead(element, first, depth, pretty)
            = (separator \o Indent(depth, pretty)) \o KeyPart(element.key, pretty)
    BY DEF Lead
  <1> HIDE DEF separator
  <1>4. separator \o Indent(depth, pretty) \in Seq(Printed)
    BY <1>2, Together
  <1>5. (separator \o Indent(depth, pretty)) \o KeyPart(element.key, pretty) \in Seq(Printed)
    BY <1>2, <1>4, Together
  <1>6. QED
    BY <1>3, <1>5

LEMMA PartIsText ==
    ASSUME NEW element, IsElement(element),
           NEW first \in BOOLEAN, NEW depth \in Nat, NEW pretty \in BOOLEAN,
           Fine(element.value) => Layout[Place(element.value, depth, pretty)] \in Seq(Marked)
    PROVE  PartText(element, first, depth, pretty) \in Seq(Marked)
  <1>1. CASE HasIllegalChar(element)
    <2>1. <<Stop>> \in Seq(Marked)
      BY ShortText DEF Marked
    <2>2. QED
      BY <1>1, <2>1 DEF PartText
  <1>2. CASE ~HasIllegalChar(element)
    <2>1. Lead(element, first, depth, pretty) \in Seq(Marked)
      BY <1>2, LeadIsPrinted, PrintedIsMarked
    <2>2. Layout[Place(element.value, depth, pretty)] \in Seq(Marked)
      BY <1>2 DEF HasIllegalChar, Fine
    <2>3. Lead(element, first, depth, pretty) \o Layout[Place(element.value, depth, pretty)]
              \in Seq(Marked)
      BY <2>1, <2>2, Together
    <2>4. QED
      BY <1>2, <2>3 DEF PartText
  <1>3. QED
    BY <1>1, <1>2

\* The parts of the layout of a container.
LEMMA PartsOfContainer ==
    ASSUME NEW at \in Places, IsContainer(at.value)
    PROVE  PartsOf(at, Layout) = [i \in DOMAIN Elements(at.value) |->
              PartText(Elements(at.value)[i], i = 1, at.depth + 1, at.pretty)]
  <1> DEFINE e == Elements(at.value)
             depth == at.depth + 1
  <1>1. at.value \in Values /\ Pairs(at.value) = e
    BY PlaceParts, PairsAreElements
  <1>2. ASSUME NEW i \in DOMAIN e
        PROVE  PartOf(e, i, depth, at.pretty, Layout) = PartText(e[i], i = 1, depth, at.pretty)
    <2>1. IsElement(e[i])
      BY <1>1, ElementsOfContainer
    <2>2. Unwritable(e[i].key, e[i].value) <=> HasIllegalChar(e[i])
      BY <2>1, UnwritableIsIllegal
    <2> HIDE DEF e, depth
    <2>3. QED
      BY <2>2 DEF PartOf, PartText, Lead
  <1>3. PartsOf(at, Layout) = [i \in DOMAIN e |-> PartOf(e, i, depth, at.pretty, Layout)]
    BY <1>1 DEF PartsOf
  <1>4. QED
    BY <1>2, <1>3

\* The layout of a container, and that of other values.
LEMMA LayoutOfContainer ==
    ASSUME NEW at \in Places, IsContainer(at.value)
    PROVE  Layout[at] =
              <<Opening(at.value)>> \o LineBreak(at.pretty) \o FlattenSeq(PartsOf(at, Layout))
                  \o LineBreak(at.pretty) \o Indent(at.depth, at.pretty)
                  \o <<Closing(at.value)>>
  <1>1. Layout[at] = LayoutOf(at, Layout)
    BY LayoutEquation
  <1>2. at.value.type \in ContainerTypes /\ at.value.type # "string"
    BY DEF IsContainer, ContainerTypes
  <1>3. LayoutOf(at, Layout) =
              <<Opening(at.value)>> \o LineBreak(at.pretty) \o FlattenSeq(PartsOf(at, Layout))
                  \o LineBreak(at.pretty) \o Indent(at.depth, at.pretty)
                  \o <<Closing(at.value)>>
    BY <1>2, Zenon DEF LayoutOf
  <1>4. QED
    BY <1>1, <1>3

LEMMA LayoutOfOther ==
    ASSUME NEW at \in Places, ~IsContainer(at.value), Fine(at.value)
    PROVE  Layout[at] = ValueText(at.value) /\ Layout[at] \in Seq(Printed)
  <1>1. at.value \in Values /\ Layout[at] = LayoutOf(at, Layout)
    BY PlaceParts, LayoutEquation
  <1>2. CASE at.value.type = "string"
    <2>1. LayoutOf(at, Layout) = wrap_string(at.value.string)
      BY <1>2 DEF LayoutOf, IsContainer, ContainerTypes
    <2>2. ValueText(at.value) = wrap_string(at.value.string)
      BY <1>2 DEF ValueText, IsContainer, ContainerTypes
    <2>3. at.value.string \in Seq(Letters)
      BY <1>1, <1>2, KindsOfValues
    <2>4. wrap_string(at.value.string) \in Seq(Printed)
      BY <1>2, <2>3, PrintedIsAnAlphabet, WrappedChars DEF Fine
    <2>5. QED
      BY <1>1, <2>1, <2>2, <2>4
  <1>3. CASE at.value.type # "string"
    <2>1. LayoutOf(at, Layout) = to_string(at.value)
      BY <1>3 DEF LayoutOf, IsContainer, ContainerTypes
    <2>2. ValueText(at.value) = to_string(at.value)
      BY <1>3 DEF ValueText, IsContainer, ContainerTypes
    <2>3. PICK literal \in DOMAIN Literals : at.value = Literals[literal]
      BY <1>1, <1>3, KindsOfValues DEF IsContainer, ContainerTypes
    <2>4. to_string(at.value) \in Seq(Printed)
      BY <2>3, LiteralText, PrintedIsAnAlphabet DEF IsAlphabet
    <2>5. QED
      BY <1>1, <2>1, <2>2, <2>4
  <1>4. QED
    BY <1>2, <1>3

\* Every layout is a text.
LEMMA LayoutIsText ==
    ASSUME NEW at \in Places, Fine(at.value)
    PROVE  Layout[at] \in Seq(Marked)
  <1> DEFINE IsTextAt(p) == Fine(p.value) => Layout[p] \in Seq(Marked)
             T == {n \in Nat : \A p \in Places : Height(p.value) < n => IsTextAt(p)}
  <1>1. 0 \in T
    BY HeightAssumption, PlaceParts
  <1>2. ASSUME NEW n \in T PROVE n + 1 \in T
    <2>1. SUFFICES ASSUME NEW p \in Places, Height(p.value) < n + 1, Fine(p.value)
                   PROVE  Layout[p] \in Seq(Marked)
      OBVIOUS
    <2>2. p.value \in Values /\ p.depth \in Nat /\ p.depth + 1 \in Nat /\ p.pretty \in BOOLEAN
      BY PlaceParts
    <2>3. CASE ~IsContainer(p.value)
      BY <2>1, <2>3, LayoutOfOther, PrintedIsMarked
    <2>4. CASE IsContainer(p.value)
      <3> DEFINE e == Elements(p.value)
                 parts == PartsOf(p, Layout)
                 f == FlattenSeq(parts)
                 nl == LineBreak(p.pretty)
                 tabs == Indent(p.depth, p.pretty)
                 open == <<Opening(p.value)>>
                 close == <<Closing(p.value)>>
      <3>1. ASSUME NEW i \in DOMAIN e
            PROVE  PartText(e[i], i = 1, p.depth + 1, p.pretty) \in Seq(Marked)
        <4>1. /\ IsElement(e[i])
              /\ e[i].value \in Held(p.value) /\ e[i].value \in Values
          BY <2>2, <2>4, ElementsOfContainer, ElementIsHeld
        <4>2. Height(e[i].value) < n
          BY <2>1, <2>2, <4>1, HeightAssumption
        <4>3. /\ Place(e[i].value, p.depth + 1, p.pretty) \in Places
              /\ Place(e[i].value, p.depth + 1, p.pretty).value = e[i].value
          <5> DEFINE v == e[i].value
          <5>1. v \in Values
            BY <4>1
          <5> HIDE DEF v
          <5>2. /\ Place(v, p.depth + 1, p.pretty) \in Places
                /\ Place(v, p.depth + 1, p.pretty).value = v
            BY <2>2, <5>1 DEF Place, Places
          <5>3. QED
            BY <5>2 DEF v
        <4>4. Fine(e[i].value) =>
                 Layout[Place(e[i].value, p.depth + 1, p.pretty)] \in Seq(Marked)
          BY <4>2, <4>3
        <4> HIDE DEF e, T
        <4>5. (i = 1) \in BOOLEAN
          OBVIOUS
        <4>6. QED
          BY <2>2, <4>1, <4>4, <4>5, PartIsText
      <3>2. parts = [i \in DOMAIN e |-> PartText(e[i], i = 1, p.depth + 1, p.pretty)]
        BY <2>4, PartsOfContainer
      <3>3. DOMAIN e = 1 .. Len(e) /\ Len(e) \in Nat
        BY <2>2, <2>4, ElementsOfContainer, SequenceIsFunction
      <3> HIDE DEF e, parts
      <3>4. parts \in [1 .. Len(e) -> Seq(Marked)]
        BY <3>1, <3>2, <3>3
      <3>5. parts \in Seq(Seq(Marked))
        BY <3>3, <3>4, FunctionIsText
      <3>6. f \in Seq(Marked)
        BY <3>5, FlattenIsText
      <3>7. /\ nl \in Seq(Marked) /\ tabs \in Seq(Marked)
            /\ open \in Seq(Marked) /\ close \in Seq(Marked)
        BY <2>2, PiecesArePrinted, PrintedIsMarked
      <3>8. Layout[p] = ((((open \o nl) \o f) \o nl) \o tabs) \o close
        BY <2>4, LayoutOfContainer DEF parts
      <3> HIDE DEF f, nl, tabs, open, close
      <3>9. open \o nl \in Seq(Marked)
        BY <3>7, Together
      <3>10. (open \o nl) \o f \in Seq(Marked)
        BY <3>6, <3>9, Together
      <3>11. ((open \o nl) \o f) \o nl \in Seq(Marked)
        BY <3>7, <3>10, Together
      <3>12. (((open \o nl) \o f) \o nl) \o tabs \in Seq(Marked)
        BY <3>7, <3>11, Together
      <3>13. ((((open \o nl) \o f) \o nl) \o tabs) \o close \in Seq(Marked)
        BY <3>7, <3>12, Together
      <3>14. QED
        BY <3>8, <3>13
    <2>5. QED
      BY <2>3, <2>4
  <1>3. T = Nat
    <2>1. T \subseteq Nat
      OBVIOUS
    <2> HIDE DEF T
    <2>2. QED
      BY <1>1, <1>2, <2>1, Induction
  <1>4. Height(at.value) \in Nat
    <2>1. at.value \in Values
      BY PlaceParts
    <2>2. QED
      BY <2>1, HeightAssumption
  <1>5. Height(at.value) + 1 \in Nat /\ Height(at.value) < Height(at.value) + 1
    BY <1>4
  <1>6. \A p \in Places : Height(p.value) < Height(at.value) + 1 => IsTextAt(p)
    BY <1>3, <1>5
  <1>7. QED
    BY <1>5, <1>6

LEMMA PartOfElement ==
    ASSUME NEW element, IsElement(element),
           NEW first \in BOOLEAN, NEW depth \in Nat, NEW pretty \in BOOLEAN
    PROVE  PartText(element, first, depth, pretty) \in Seq(Marked)
  <1> DEFINE v == element.value
             at == Place(v, depth, pretty)
  <1>1. v \in Values
    BY DEF IsElement
  <1> HIDE DEF v
  <1>2. at \in Places /\ at.value = v
    BY <1>1 DEF Place, Places
  <1>3. Fine(v) => Layout[at] \in Seq(Marked)
    BY <1>2, LayoutIsText
  <1>4. QED
    BY <1>3, PartIsText DEF v
-----------------------------------------------------------------------------
(* What is still to be written of the containers that are open.            *)

\* The parts of the elements a context has left.
Remaining(context, depth, pretty) ==
    [k \in DOMAIN context.range |->
        PartText(context.range[k], k = 1 /\ context.first_item, depth, pretty)]

Items(context, depth, pretty) == FlattenSeq(Remaining(context, depth, pretty))

\* The end of the container at some depth.
Ending(terminator, depth, pretty) ==
    LineBreak(pretty) \o Indent(depth - 1, pretty) \o <<terminator>>
        \o (IF depth = 1 THEN <<Newline>> ELSE <<>>)

ToClose(context, depth, pretty) ==
    Items(context, depth, pretty) \o Ending(context.block_terminator, depth, pretty)

LEMMA RemainingIsText ==
    ASSUME NEW context, IsBlock(context), NEW depth \in Nat, NEW pretty \in BOOLEAN
    PROVE  /\ Remaining(context, depth, pretty) \in Seq(Seq(Marked))
           /\ Items(context, depth, pretty) \in Seq(Marked)
  <1> DEFINE s == context.range
             f == Remaining(context, depth, pretty)
             n == Len(s)
  <1>1. DOMAIN s = 1 .. n /\ n \in Nat
    BY SequenceIsFunction DEF IsBlock
  <1>2. ASSUME NEW k \in 1 .. n
        PROVE  PartText(s[k], k = 1 /\ context.first_item, depth, pretty) \in Seq(Marked)
    <2>1. IsElement(s[k])
      BY <1>1 DEF IsBlock
    <2>2. (k = 1 /\ context.first_item) \in BOOLEAN
      OBVIOUS
    <2>3. QED
      BY <2>1, <2>2, PartOfElement
  <1>3. f = [k \in 1 .. n |-> PartText(s[k], k = 1 /\ context.first_item, depth, pretty)]
    BY <1>1 DEF Remaining
  <1> HIDE DEF f, n
  <1>4. f \in [1 .. n -> Seq(Marked)]
    BY <1>2, <1>3
  <1>5. f \in Seq(Seq(Marked))
    BY <1>1, <1>4, FunctionIsText
  <1>6. QED
    BY <1>5, FlattenIsText DEF f, Items

\* A context without elements has only its end left.
LEMMA NoItems ==
    ASSUME NEW context, context.range = <<>>, NEW depth, NEW pretty
    PROVE  Items(context, depth, pretty) = <<>>
  <1>1. Remaining(context, depth, pretty) = <<>>
    BY DEF Remaining
  <1>2. QED
    BY <1>1, EmptySeq, FlattenFew DEF Items

\* The first of the elements, and those behind it.
LEMMA FirstItem ==
    ASSUME NEW context, IsBlock(context), context.range # <<>>,
           NEW rest, IsBlock(rest), rest.range = Tail(context.range), rest.first_item = FALSE,
           NEW depth \in Nat, NEW pretty \in BOOLEAN
    PROVE  Items(context, depth, pretty)
              = PartText(Head(context.range), context.first_item, depth, pretty)
                    \o Items(rest, depth, pretty)
  <1> DEFINE s == context.range
             t == rest.range
             f == Remaining(context, depth, pretty)
             g == Remaining(rest, depth, pretty)
             x == PartText(Head(s), context.first_item, depth, pretty)
  <1>1. s \in Seq(Range(s)) /\ Len(s) \in Nat \ {0} /\ DOMAIN s = 1 .. Len(s)
    BY LenProperties, EmptySeq DEF IsBlock, IsSequence
  <1>2. /\ t \in Seq(Range(s)) /\ Len(t) = Len(s) - 1 /\ DOMAIN t = 1 .. Len(s) - 1
        /\ \A i \in 1 .. Len(s) - 1 : t[i] = s[i + 1]
    BY <1>1, HeadTailProperties, LenProperties, EmptySeq
  <1>3. Head(s) = s[1] /\ 1 \in DOMAIN s
    BY <1>1
  <1>4. f \in Seq(Seq(Marked)) /\ g \in Seq(Seq(Marked))
    BY RemainingIsText
  <1>5. x \in Seq(Marked)
    <2>1. IsElement(Head(s)) /\ context.first_item \in BOOLEAN
      BY <1>3 DEF IsBlock
    <2>2. QED
      BY <2>1, PartOfElement
  <1>6. /\ DOMAIN f = 1 .. Len(s) /\ DOMAIN g = 1 .. Len(s) - 1
        /\ f[1] = x
    <2>1. (1 = 1 /\ context.first_item) = context.first_item
      BY DEF IsBlock
    <2>2. QED
      BY <1>1, <1>2, <1>3, <2>1 DEF Remaining
  <1>7. \A i \in 1 .. Len(s) - 1 : f[i + 1] = g[i]
    <2>1. SUFFICES ASSUME NEW i \in 1 .. Len(s) - 1 PROVE f[i + 1] = g[i]
      OBVIOUS
    <2>2. i + 1 \in DOMAIN s /\ i \in DOMAIN t /\ i + 1 # 1
      BY <1>1, <1>2
    <2>3. f[i + 1] = PartText(s[i + 1], FALSE, depth, pretty)
      BY <2>2 DEF Remaining
    <2>4. g[i] = PartText(t[i], FALSE, depth, pretty)
      BY <2>2 DEF Remaining
    <2>5. QED
      BY <1>2, <2>3, <2>4
  <1> DEFINE u == <<x>> \o g
             n == Len(s)
  <1> HIDE DEF f, g, x, s, t
  <1>8. Len(f) = n /\ Len(g) = n - 1 /\ n \in Nat \ {0}
    <2>1. n \in Nat \ {0} /\ n - 1 \in Nat /\ DOMAIN f = 1 .. n /\ DOMAIN g = 1 .. n - 1
      BY <1>1, <1>6 DEF n
    <2>2. Len(f) = n
      BY <1>4, <2>1
    <2>3. Len(g) = n - 1
      BY <1>4, <2>1
    <2>4. QED
      BY <2>1, <2>2, <2>3
  <1>9. /\ <<x>> \in Seq(Seq(Marked)) /\ Len(<<x>>) = 1 /\ <<x>>[1] = x
    BY <1>5
  <1>10. /\ u \in Seq(Seq(Marked)) /\ Len(u) = 1 + Len(g)
         /\ \A i \in 1 .. Len(<<x>>) : u[i] = <<x>>[i]
         /\ \A i \in 1 .. Len(g) : u[Len(<<x>>) + i] = g[i]
    BY <1>4, <1>9, Together
  <1> HIDE DEF u, n
  <1>11. Len(u) = n /\ u[1] = x /\ \A i \in 1 .. n - 1 : u[i + 1] = g[i]
    BY <1>8, <1>9, <1>10
  <1>12. ASSUME NEW j \in 1 .. n PROVE f[j] = u[j]
    <2>1. CASE j = 1
      BY <1>6, <1>11, <2>1
    <2>2. CASE j # 1
      <3>1. j - 1 \in 1 .. n - 1 /\ (j - 1) + 1 = j
        BY <1>8, <2>2
      <3>2. f[j] = g[j - 1]
        BY <1>7, <3>1 DEF n
      <3>3. QED
        BY <1>11, <3>1, <3>2
    <2>3. QED
      BY <2>1, <2>2
  <1>13. f = u
    BY <1>4, <1>8, <1>10, <1>11, <1>12, SeqEqual
  <1>14. FlattenSeq(<<x>> \o g) = x \o FlattenSeq(g)
    BY <1>4, <1>5, FlattenCons
  <1>15. QED
    BY <1>13, <1>14 DEF Items, f, g, u, x, s

LEMMA EndingIsPrinted ==
    ASSUME NEW terminator \in {end_object, end_array},
           NEW depth \in Nat \ {0}, NEW pretty \in BOOLEAN
    PROVE  Ending(terminator, depth, pretty) \in Seq(Printed)
  <1> DEFINE line == IF depth = 1 THEN <<Newline>> ELSE <<>>
             nl == LineBreak(pretty)
             tabs == Indent(depth - 1, pretty)
             bracket == <<terminator>>
  <1>1. depth - 1 \in Nat
    OBVIOUS
  <1>2. nl \in Seq(Printed) /\ tabs \in Seq(Printed)
    BY <1>1, PiecesArePrinted
  <1>3. {Newline, end_object, end_array} \subseteq Printed
    BY PrintedIsAnAlphabet DEF IsAlphabet, FormatChars
  <1>4. bracket \in Seq(Printed) /\ line \in Seq(Printed)
    BY <1>3, ShortText
  <1>5. Ending(terminator, depth, pretty) = ((nl \o tabs) \o bracket) \o line
    BY DEF Ending
  <1> HIDE DEF line, nl, tabs, bracket
  <1>6. nl \o tabs \in Seq(Printed)
    BY <1>2, Together
  <1>7. (nl \o tabs) \o bracket \in Seq(Printed)
    BY <1>4, <1>6, Together
  <1>8. QED
    BY <1>4, <1>5, <1>7, Together

LEMMA ToCloseIsText ==
    ASSUME NEW context, IsBlock(context), NEW depth \in Nat \ {0}, NEW pretty \in BOOLEAN
    PROVE  ToClose(context, depth, pretty) \in Seq(Marked)
  <1>1. Items(context, depth, pretty) \in Seq(Marked)
    BY RemainingIsText
  <1>2. context.block_terminator \in {end_object, end_array}
    BY DEF IsBlock
  <1>3. Ending(context.block_terminator, depth, pretty) \in Seq(Marked)
    BY <1>2, EndingIsPrinted, PrintedIsMarked
  <1>4. QED
    BY <1>1, <1>3, Together DEF ToClose

\* A text, as a predicate that keeps the provers from trying every sequence.
IsMarked(s) == s \in Seq(Marked)

LEMMA Joined ==
    ASSUME NEW a, IsMarked(a), NEW b, IsMarked(b)
    PROVE  IsMarked(a \o b)
  BY Together DEF IsMarked

LEMMA Shift ==
    ASSUME NEW a, IsMarked(a), NEW b, IsMarked(b), NEW c, IsMarked(c)
    PROVE  (a \o b) \o c = a \o (b \o c)
  BY ConcatAssociative DEF IsMarked

IsRegrouped(a, b, c, d) == (a \o (b \o c)) \o d = (a \o b) \o (c \o d)

LEMMA ShiftBoth ==
    ASSUME NEW a, IsMarked(a), NEW b, IsMarked(b), NEW c, IsMarked(c), NEW d, IsMarked(d)
    PROVE  IsRegrouped(a, b, c, d)
  <1>1. /\ a \in Seq(Marked) /\ b \in Seq(Marked) /\ c \in Seq(Marked) /\ d \in Seq(Marked)
        /\ b \o c \in Seq(Marked) /\ c \o d \in Seq(Marked)
    BY ConcatProperties DEF IsMarked
  <1>2. (a \o (b \o c)) \o d = a \o ((b \o c) \o d)
    BY <1>1, ConcatAssociative
  <1>3. (b \o c) \o d = b \o (c \o d)
    BY <1>1, ConcatAssociative
  <1>4. (a \o b) \o (c \o d) = a \o (b \o (c \o d))
    BY <1>1, ConcatAssociative
  <1>5. QED
    BY <1>2, <1>3, <1>4 DEF IsRegrouped

\* The layout of a container is its start and all that a new context has left.
LEMMA LayoutOfContext ==
    ASSUME NEW value \in Values, IsContainer(value), NEW depth \in Nat, NEW pretty \in BOOLEAN
    PROVE  LET c == make_serializer_context(value)
           IN  Layout[Place(value, depth, pretty)] \o (IF depth = 0 THEN <<Newline>> ELSE <<>>)
                  = (<<c.block_starter>> \o LineBreak(pretty)) \o ToClose(c, depth + 1, pretty)
  <1> DEFINE c == make_serializer_context(value)
             at == Place(value, depth, pretty)
             items == Items(c, depth + 1, pretty)
             open == <<c.block_starter>>
             close == <<c.block_terminator>>
             nl == LineBreak(pretty)
             tabs == Indent(depth, pretty)
             line == IF depth = 0 THEN <<Newline>> ELSE <<>>
             start == open \o nl
  <1>1. at \in Places /\ at.value = value /\ at.depth = depth /\ at.pretty = pretty
    BY DEF Place, Places
  <1>2. IsBlock(c) /\ c.range = Elements(value) /\ c.first_item = TRUE
    BY NewContext DEF make_serializer_context
  <1>3. /\ c.block_starter = Opening(value) /\ c.block_terminator = Closing(value)
        /\ c.block_terminator \in {end_object, end_array}
    BY DEF make_serializer_context, Opening, Closing, IsContainer, ContainerTypes
  <1> HIDE DEF at, c
  <1>4. FlattenSeq(PartsOf(at, Layout)) = items
    <2>1. PartsOf(at, Layout) = [i \in DOMAIN Elements(value) |->
              PartText(Elements(value)[i], i = 1, depth + 1, pretty)]
      BY <1>1, PartsOfContainer
    <2>2. Remaining(c, depth + 1, pretty) = [i \in DOMAIN Elements(value) |->
              PartText(Elements(value)[i], i = 1, depth + 1, pretty)]
      <3>1. \A i : (i = 1 /\ c.first_item) = (i = 1)
        BY <1>2
      <3>2. Remaining(c, depth + 1, pretty) = [i \in DOMAIN Elements(value) |->
              PartText(Elements(value)[i], i = 1 /\ c.first_item, depth + 1, pretty)]
        BY <1>2 DEF Remaining
      <3>3. QED
        BY <3>1, <3>2, Zenon
    <2>3. QED
      BY <2>1, <2>2 DEF Items
  <1>5. Layout[at] = ((((open \o nl) \o items) \o nl) \o tabs) \o close
    BY <1>1, <1>3, <1>4, LayoutOfContainer
  <1>6. depth + 1 \in Nat \ {0} /\ (depth + 1) - 1 = depth /\ (depth + 1 = 1 <=> depth = 0)
    OBVIOUS
  <1>7. ToClose(c, depth + 1, pretty) = items \o (((nl \o tabs) \o close) \o line)
    BY <1>6 DEF ToClose, Ending
  <1>8. items \in Seq(Marked) /\ nl \in Seq(Marked) /\ tabs \in Seq(Marked)
    BY <1>2, <1>6, RemainingIsText, PiecesArePrinted, PrintedIsMarked
  <1>9. open \in Seq(Marked) /\ close \in Seq(Marked)
    BY <1>3, PiecesArePrinted, PrintedIsMarked
  <1>10. line \in Seq(Marked)
    <2>1. Newline \in Printed
      BY PrintedIsAnAlphabet DEF IsAlphabet, FormatChars
    <2>2. line \in Seq(Printed)
      BY <2>1, ShortText
    <2>3. QED
      BY <2>2, PrintedIsMarked
  <1>11. start \in Seq(Marked)
    BY <1>8, <1>9, Together
  <1> HIDE DEF items, open, close, nl, tabs, line
  <1>12. ((((start \o items) \o nl) \o tabs) \o close) \o line
            = start \o (items \o (((nl \o tabs) \o close) \o line))
    <2> DEFINE x == start \o items
               y == nl \o tabs
               z == y \o close
               w == z \o line
    <2> HIDE DEF start
    <2>1. IsMarked(start) /\ IsMarked(items)
      BY <1>8, <1>11 DEF IsMarked
    <2>2. IsMarked(nl) /\ IsMarked(tabs)
      BY <1>8 DEF IsMarked
    <2>3. IsMarked(close) /\ IsMarked(line)
      BY <1>9, <1>10 DEF IsMarked
    <2>4. IsMarked(x)
      BY <2>1, Joined
    <2>5. IsMarked(y)
      BY <2>2, Joined
    <2> HIDE DEF x, y
    <2>6. IsMarked(z)
      BY <2>3, <2>5, Joined
    <2> HIDE DEF z
    <2>7. IsMarked(w)
      BY <2>3, <2>6, Joined
    <2> HIDE DEF w
    <2>8. (x \o nl) \o tabs = x \o y
      BY <2>2, <2>4, Shift DEF y
    <2>9. (x \o y) \o close = x \o z
      BY <2>3, <2>4, <2>5, Shift DEF z
    <2>10. (x \o z) \o line = x \o w
      BY <2>3, <2>4, <2>6, Shift DEF w
    <2>11. x \o w = start \o (items \o w)
      BY <2>1, <2>7, Shift DEF x
    <2>12. QED
      BY <2>8, <2>9, <2>10, <2>11 DEF x, y, z, w
  <1>13. Layout[at] \o line = start \o ToClose(c, depth + 1, pretty)
    BY <1>5, <1>7, <1>12
  <1>14. QED
    BY <1>13 DEF at, c, open, nl, line
-----------------------------------------------------------------------------
(* Documents with and without an element that cannot be written.           *)

LEMMA NoMark ==
    ASSUME NEW w \in Seq(Printed), NEW i \in DOMAIN w
    PROVE  w[i] # Stop
  <1>1. w[i] \in Printed
    BY LenProperties, ElementOfSeq
  <1>2. QED
    BY <1>1 DEF Printed

\* What is written and not marked is a beginning of the writable part.
LEMMA PrefixOfWritable ==
    ASSUME NEW w \in Seq(Printed), NEW r \in Seq(Marked)
    PROVE  IsPrefix(w, WritablePart(w \o r))
  <1> DEFINE d == w \o r
             marks == {i \in DOMAIN d : d[i] = Stop}
             m == Min(marks)
  <1>1. w \in Seq(Marked) /\ Len(w) \in Nat /\ Len(r) \in Nat
    BY PrintedIsMarked, LenProperties
  <1>2. /\ d \in Seq(Marked) /\ Len(d) = Len(w) + Len(r)
        /\ \A i \in 1 .. Len(w) : d[i] = w[i]
    BY <1>1, Together
  <1>3. DOMAIN d = 1 .. Len(d) /\ DOMAIN w = 1 .. Len(w)
    BY <1>1, <1>2, LenProperties
  <1> HIDE DEF d
  <1>4. CASE IsWritable(d)
    <2>1. IsPrefix(w, d)
      BY <1>1, <1>2, PrefixByCharacters
    <2>2. QED
      BY <1>4, <2>1 DEF WritablePart, d
  <1>5. CASE ~IsWritable(d)
    <2>1. marks # {} /\ marks \subseteq Nat
      BY <1>1, <1>2, <1>3, <1>5 DEF IsWritable
    <2>2. \E k \in marks : \A i \in marks : k <= i
      BY <2>1, LeastElement
    <2>3. m \in marks
      BY <2>2 DEF Min
    <2> HIDE DEF m
    <2>4. m \in 1 .. Len(d) /\ m > Len(w)
      <3>1. m \in 1 .. Len(d) /\ d[m] = Stop
        BY <1>3, <2>3
      <3>2. m \notin 1 .. Len(w)
        BY <1>2, <1>3, <3>1, NoMark
      <3>3. QED
        BY <1>1, <1>2, <3>1, <3>2
    <2> DEFINE p == SubSeq(d, 1, m - 1)
    <2>5. /\ p \in Seq(Marked) /\ Len(p) = m - 1
          /\ \A i \in 1 .. m - 1 : p[i] = d[i]
      <3>1. \A i \in 1 .. m - 1 : d[i] \in Marked
        BY <1>1, <1>2, <2>4, ElementOfSeq
      <3>2. m - 1 \in Nat
        BY <1>1, <1>2, <2>4
      <3>3. QED
        BY <3>1, <3>2, SubSeqProperties
    <2> HIDE DEF p
    <2>6. Len(w) <= Len(p) /\ \A i \in 1 .. Len(w) : w[i] = p[i]
      BY <1>1, <1>2, <2>4, <2>5
    <2>7. IsPrefix(w, p)
      BY <1>1, <2>5, <2>6, PrefixByCharacters
    <2>8. WritablePart(d) = p
      BY <1>5 DEF WritablePart, p, m
    <2>9. QED
      BY <2>7, <2>8 DEF d
  <1>6. QED
    BY <1>4, <1>5

\* The first mark ends it.
LEMMA MarkEndsIt ==
    ASSUME NEW w \in Seq(Printed), NEW r \in Seq(Marked)
    PROVE  /\ WritablePart(w \o (<<Stop>> \o r)) = w
           /\ ~IsWritable(w \o (<<Stop>> \o r))
  <1> DEFINE e == <<Stop>> \o r
             d == w \o e
             n == Len(w)
             marks == {i \in DOMAIN d : d[i] = Stop}
             m == Min(marks)
  <1>1. w \in Seq(Marked) /\ n \in Nat /\ Len(r) \in Nat
    BY PrintedIsMarked, LenProperties
  <1>2. /\ <<Stop>> \in Seq(Marked) /\ Len(<<Stop>>) = 1 /\ <<Stop>>[1] = Stop
    BY ShortText DEF Marked
  <1>3. /\ e \in Seq(Marked) /\ Len(e) = 1 + Len(r)
        /\ \A i \in 1 .. Len(<<Stop>>) : e[i] = <<Stop>>[i]
    BY <1>2, Together
  <1>4. e[1] = Stop /\ Len(e) \in Nat \ {0}
    BY <1>1, <1>2, <1>3
  <1> HIDE DEF e
  <1>5. /\ d \in Seq(Marked) /\ Len(d) = n + Len(e)
        /\ \A i \in 1 .. n : d[i] = w[i]
        /\ \A i \in 1 .. Len(e) : d[n + i] = e[i]
    <2>1. w \in Seq(Marked) /\ e \in Seq(Marked)
      BY <1>1, <1>3
    <2>2. QED
      BY <2>1, Together
  <1>6. DOMAIN d = 1 .. Len(d) /\ DOMAIN w = 1 .. n
    BY <1>1, <1>5, LenProperties
  <1> HIDE DEF d
  <1>7. n + 1 \in DOMAIN d /\ d[n + 1] = Stop
    BY <1>1, <1>4, <1>5, <1>6
  <1>8. \A i \in marks : n + 1 <= i
    <2>1. SUFFICES ASSUME NEW i \in 1 .. Len(d), d[i] = Stop PROVE n + 1 <= i
      BY <1>6
    <2>2. i \notin 1 .. n
      BY <1>5, <1>6, <2>1, NoMark
    <2>3. QED
      BY <1>1, <1>4, <1>5, <2>1, <2>2
  <1>9. m = n + 1
    <2>1. n + 1 \in marks /\ marks \subseteq Nat
      BY <1>1, <1>4, <1>5, <1>6, <1>7
    <2> HIDE DEF marks
    <2>2. m \in marks /\ \A i \in marks : m <= i
      BY <1>8, <2>1 DEF Min
    <2>3. m <= n + 1 /\ n + 1 <= m /\ m \in Nat
      BY <1>8, <2>1, <2>2
    <2>4. QED
      BY <1>1, <2>3
  <1>10. ~IsWritable(d)
    BY <1>7 DEF IsWritable
  <1>11. SubSeq(d, 1, n) = w
    <2>1. \A i \in 1 .. n : d[i] \in Marked
      BY <1>1, <1>5, ElementOfSeq
    <2>2. /\ SubSeq(d, 1, n) \in Seq(Marked) /\ Len(SubSeq(d, 1, n)) = n
          /\ \A i \in 1 .. n : SubSeq(d, 1, n)[i] = d[i]
      BY <1>1, <2>1, SubSeqProperties
    <2>3. QED
      BY <1>1, <1>5, <2>2, SeqEqual
  <1>12. WritablePart(d) = w
    <2>1. WritablePart(d) = SubSeq(d, 1, m - 1)
      BY <1>10 DEF WritablePart
    <2> HIDE DEF m
    <2>2. m - 1 = n
      BY <1>1, <1>9
    <2>3. QED
      BY <1>11, <2>1, <2>2
  <1>13. QED
    BY <1>10, <1>12 DEF d, e

-----------------------------------------------------------------------------
(* The document as what is written, what waits and what is still to come.  *)

\* t[i] is all that follows the text that waits when the outer i of the
\* contexts are open.
IsTable(t, contexts, pretty) ==
    /\ t[0] = <<>>
    /\ \A i \in 0 .. Len(contexts) : IsMarked(t[i])
    /\ \A i \in 1 .. Len(contexts) : t[i] = ToClose(contexts[i], i, pretty) \o t[i - 1]

DocumentIsComing ==
    \E t : /\ IsTable(t, m_contexts, m_pretty_print)
           /\ Document = (out \o m_range_to_write) \o t[Len(m_contexts)]

\* The inductive invariant.
DocumentInv ==
    /\ Inv
    /\ out \in Seq(Printed) /\ m_range_to_write \in Seq(Printed)
    /\ IF ec = "illegal_char_in_string"
       THEN /\ m_range_to_write = <<>>
            /\ out = WritablePart(Document)
            /\ ~IsWritable(Document)
       ELSE DocumentIsComing

\* It says what the client should get.
LEMMA WhatIsWritten ==
    ASSUME DocumentInv
    PROVE  /\ IsPrefix(out \o m_range_to_write, WritablePart(Document))
           /\ ec = "completed" =>
                 out \o m_range_to_write = Document /\ IsWritable(Document)
           /\ ec = "illegal_char_in_string" =>
                 out = WritablePart(Document) /\ ~IsWritable(Document)
  <1> DEFINE w == out \o m_range_to_write
  <1>1. w \in Seq(Printed)
    BY Together DEF DocumentInv
  <1>2. CASE ec = "illegal_char_in_string"
    <2>1. /\ w = out /\ out = WritablePart(Document) /\ ~IsWritable(Document)
          /\ out \in Seq(Printed)
      BY <1>2, ConcatEmptySeq DEF DocumentInv
    <2>2. Len(out) \in Nat /\ IsPrefix(out, out)
      BY <2>1, LenProperties, PrefixByCharacters
    <2>3. QED
      BY <1>2, <2>1, <2>2
  <1>3. CASE ec # "illegal_char_in_string"
    <2> DEFINE n == Len(m_contexts)
    <2>1. PICK t : IsTable(t, m_contexts, m_pretty_print) /\ Document = w \o t[n]
      BY <1>3 DEF DocumentInv, DocumentIsComing
    <2>2. n \in Nat
      BY SequenceIsFunction DEF DocumentInv, Inv, TypeOK
    <2>3. t[n] \in Seq(Marked)
      BY <2>1, <2>2 DEF IsTable, IsMarked
    <2> HIDE DEF w
    <2>4. IsPrefix(w, WritablePart(Document))
      BY <1>1, <2>1, <2>3, PrefixOfWritable
    <2>5. ASSUME ec = "completed" PROVE w = Document /\ IsWritable(Document)
      <3>1. m_contexts = <<>>
        BY <2>5 DEF DocumentInv, Inv, OnlyTheEndCanBeLost
      <3>2. t[n] = <<>>
        BY <2>1, <3>1, EmptySeq DEF IsTable
      <3>3. w = Document
        BY <1>1, <2>1, <3>2, ConcatEmptySeq
      <3>4. QED
        BY <1>1, <3>3, NoMark DEF IsWritable
    <2>6. QED
      BY <1>3, <2>4, <2>5 DEF w
  <1>4. QED
    BY <1>2, <1>3

LEMMA TableEntry ==
    ASSUME NEW pretty, NEW s, NEW t, IsTable(t, s, pretty), Len(s) \in Nat \ {0}
    PROVE  /\ t[Len(s)] = ToClose(s[Len(s)], Len(s), pretty) \o t[Len(s) - 1]
           /\ IsMarked(t[Len(s)]) /\ IsMarked(t[Len(s) - 1])
  <1> DEFINE n == Len(s)
  <1>1. n \in 1 .. n /\ n \in 0 .. n /\ n - 1 \in 0 .. n
    OBVIOUS
  <1>2. /\ \A i \in 0 .. n : IsMarked(t[i])
        /\ \A i \in 1 .. n : t[i] = ToClose(s[i], i, pretty) \o t[i - 1]
    BY DEF IsTable
  <1> HIDE DEF n
  <1>3. QED
    BY <1>1, <1>2 DEF n

\* The stack u is s up to its top.
SameBelowTop(u, s) ==
    /\ Len(u) \in Nat \ {0} /\ Len(s) \in Nat /\ Len(u) - 1 <= Len(s)
    /\ \A i \in 1 .. Len(u) - 1 : u[i] = s[i]

\* A stack that differs in its top has a table that does.
LEMMA OtherTop ==
    ASSUME NEW pretty, NEW s, NEW t, IsTable(t, s, pretty),
           NEW u, SameBelowTop(u, s), IsMarked(ToClose(u[Len(u)], Len(u), pretty))
    PROVE  \E v : /\ IsTable(v, u, pretty)
                  /\ v[Len(u)] = ToClose(u[Len(u)], Len(u), pretty) \o t[Len(u) - 1]
  <1> DEFINE k == Len(u)
             x == ToClose(u[k], k, pretty) \o t[k - 1]
             v == [i \in 0 .. k |-> IF i = k THEN x ELSE t[i]]
  <1>1. /\ t[0] = <<>>
        /\ \A i \in 0 .. Len(s) : IsMarked(t[i])
        /\ \A i \in 1 .. Len(s) : t[i] = ToClose(s[i], i, pretty) \o t[i - 1]
    BY DEF IsTable
  <1>2. /\ k - 1 \in 0 .. Len(s) /\ k \in Nat \ {0} /\ Len(s) \in Nat
        /\ \A i \in 1 .. k - 1 : u[i] = s[i]
    BY DEF SameBelowTop
  <1>3. IsMarked(x)
    <2>1. IsMarked(t[k - 1])
      BY <1>1, <1>2
    <2>2. QED
      BY <2>1, Joined
  <1>4. v[k] = x
    <2> HIDE DEF x
    <2>1. k \in 0 .. k
      BY <1>2
    <2>2. QED
      BY <2>1
  <1>5. \A i \in 0 .. k - 1 : v[i] = t[i]
    <2> HIDE DEF x
    <2>1. SUFFICES ASSUME NEW i \in 0 .. k - 1 PROVE v[i] = t[i]
      OBVIOUS
    <2>2. i \in 0 .. k /\ i # k
      BY <1>2
    <2>3. QED
      BY <2>2
  <1>6. x = ToClose(u[k], k, pretty) \o t[k - 1]
    OBVIOUS
  <1> HIDE DEF x, v
  <1>7. v[0] = <<>>
    BY <1>1, <1>2, <1>5
  <1>8. ASSUME NEW i \in 0 .. k PROVE IsMarked(v[i])
    <2>1. CASE i = k
      BY <1>3, <1>4, <2>1
    <2>2. CASE i # k
      <3>1. i \in 0 .. k - 1 /\ i \in 0 .. Len(s)
        BY <1>2, <2>2
      <3>2. QED
        BY <1>1, <1>5, <3>1
    <2>3. QED
      BY <2>1, <2>2
  <1>9. ASSUME NEW i \in 1 .. k PROVE v[i] = ToClose(u[i], i, pretty) \o v[i - 1]
    <2>1. i - 1 \in 0 .. k - 1
      BY <1>2
    <2>2. v[i - 1] = t[i - 1]
      BY <1>5, <2>1
    <2>3. CASE i = k
      BY <1>4, <1>6, <2>2, <2>3
    <2>4. CASE i # k
      <3>1. i \in 0 .. k - 1 /\ i \in 1 .. k - 1 /\ i \in 1 .. Len(s)
        BY <1>2, <2>4
      <3>2. v[i] = t[i] /\ u[i] = s[i]
        BY <1>2, <1>5, <3>1
      <3>3. t[i] = ToClose(s[i], i, pretty) \o t[i - 1]
        BY <1>1, <3>1
      <3>4. QED
        BY <2>2, <3>2, <3>3
    <2>5. QED
      BY <2>3, <2>4
  <1>10. IsTable(v, u, pretty)
    BY <1>7, <1>8, <1>9 DEF IsTable
  <1>11. QED
    BY <1>4, <1>6, <1>10

\* What is copied and what is left are the text that waited.
LEMMA WrittenAndRest ==
    ASSUME TypeOK, write_buffer, out \in Seq(Printed), m_range_to_write \in Seq(Printed)
    PROVE  /\ out' \in Seq(Printed) /\ Rest \in Seq(Printed)
           /\ out' \o Rest = out \o m_range_to_write
           /\ Rest = <<>> => out' = out \o m_range_to_write
  <1> DEFINE m == m_range_to_write
             n == Len(m)
             part == SubSeq(m, 1, Count)
  <1>1. n \in Nat /\ Count \in Nat /\ Count <= n
    BY CountIsMinimum
  <1>2. out' = out \o part
    BY DEF write_buffer
  <1>3. Rest = SubSeq(m, Count + 1, n)
    BY DEF Rest
  <1> HIDE DEF n
  <1>4. \A i \in 1 .. n : m[i] \in Printed
    BY ElementOfSeq DEF n
  <1>5. part \in Seq(Printed)
    <2>1. \A i \in 1 .. Count : m[i] \in Printed
      BY <1>1, <1>4
    <2>2. QED
      BY <1>1, <2>1, SubSeqProperties
  <1>6. Rest \in Seq(Printed)
    <2>1. \A i \in Count + 1 .. n : m[i] \in Printed
      BY <1>1, <1>4
    <2>2. QED
      BY <1>1, <1>3, <2>1, SubSeqProperties
  <1>7. part \o Rest = m
    <2>1. 1 \in 1 .. n + 1 /\ Count \in 1 - 1 .. n /\ n \in Count .. n
      BY <1>1
    <2>2. SubSeq(m, 1, Count) \o SubSeq(m, Count + 1, n) = SubSeq(m, 1, n)
      BY <2>1, ConcatAdjacentSubSeq DEF n
    <2>3. SubSeq(m, 1, n) = m
      BY SubSeqFull DEF n
    <2>4. QED
      BY <1>3, <2>2, <2>3
  <1> HIDE DEF part
  <1>8. (out \o part) \o Rest = out \o (part \o Rest)
    BY <1>5, <1>6, ConcatAssociative
  <1>9. out \o part \in Seq(Printed)
    BY <1>5, Together
  <1>10. Rest = <<>> => out' \o Rest = out'
    BY <1>2, <1>9, ConcatEmptySeq
  <1>11. QED
    BY <1>2, <1>6, <1>7, <1>8, <1>9, <1>10
-----------------------------------------------------------------------------
(* The texts of the serializer are those of the layout.                    *)

LEMMA SameTexts ==
    ASSUME NEW context, NEW element, NEW s
    PROVE  /\ BlockStart(context) = <<context.block_starter>> \o LineBreak(m_pretty_print)
           /\ BlockEnd(s) = Ending(Last(s).block_terminator, Len(s), m_pretty_print)
           /\ Separator(context) \o PrettyTabs(Len(s)) \o KeyText(element.key)
                  = Lead(element, context.first_item, Len(s), m_pretty_print)
  <1>1. PrettyNewline = LineBreak(m_pretty_print)
    BY DEF PrettyNewline, LineBreak
  <1>2. \A n : PrettyTabs(n) = Indent(n, m_pretty_print)
    BY DEF PrettyTabs, Indent
  <1>3. KeyText(element.key) = KeyPart(element.key, m_pretty_print)
    BY DEF KeyText, KeyPart
  <1>4. BlockStart(context) = <<context.block_starter>> \o LineBreak(m_pretty_print)
    BY <1>1 DEF BlockStart
  <1>5. BlockEnd(s) = Ending(Last(s).block_terminator, Len(s), m_pretty_print)
    BY <1>1, <1>2 DEF BlockEnd, Ending
  <1>6. Separator(context) = IF context.first_item THEN <<>>
                             ELSE <<value_separator>> \o LineBreak(m_pretty_print)
    BY <1>1 DEF Separator
  <1>7. QED
    BY <1>2, <1>3, <1>4, <1>5, <1>6 DEF Lead

-----------------------------------------------------------------------------
(* The invariant.                                                          *)

\* At first the start of the root waits, and all of its elements are to come.
LEMMA InitDocument == Init => DocumentInv
  <1> SUFFICES ASSUME Init PROVE DocumentInv
    OBVIOUS
  <1> DEFINE c == make_serializer_context(root)
             p == m_pretty_print
             end == ToClose(c, 1, p)
             start == <<c.block_starter>> \o LineBreak(p)
  <1>1. root \in Values /\ IsContainer(root) /\ p \in BOOLEAN /\ Inv
    BY RootsAssumption, InitInv DEF Init
  <1>2. /\ m_contexts = <<c>> /\ m_range_to_write = BlockStart(c)
        /\ out = <<>> /\ ec = "buffer_is_full"
        /\ Document = Layout[Place(root, 0, p)] \o <<Newline>>
    BY DEF Init, Document, DocumentOf
  <1>3. BlockStart(c) = start
    BY SameTexts
  <1>4. Document = start \o end
    <2>1. 0 \in Nat /\ 0 + 1 = 1
      OBVIOUS
    <2>2. Layout[Place(root, 0, p)] \o (IF 0 = 0 THEN <<Newline>> ELSE <<>>)
             = start \o ToClose(c, 0 + 1, p)
      BY <1>1, <2>1, LayoutOfContext
    <2>3. QED
      BY <1>2, <2>1, <2>2
  <1>5. IsBlock(c)
    BY <1>1, NewContext
  <1>6. m_range_to_write \in Seq(Printed) /\ out \in Seq(Printed)
    <2>1. BlockStart(c) \in Seq(Printed)
      BY PrintedIsAnAlphabet, LayoutChars
    <2>2. QED
      BY <1>2, <2>1, EmptySeq
  <1> HIDE DEF c
  <1>7. IsMarked(end)
    <2>1. 1 \in Nat \ {0}
      OBVIOUS
    <2>2. QED
      BY <1>1, <1>5, <2>1, ToCloseIsText DEF IsMarked
  <1>8. \E v : IsTable(v, m_contexts, p) /\ v[1] = end
    <2> DEFINE t == [i \in {0} |-> <<>>]
    <2>1. IsTable(t, <<>>, p)
      <3>1. IsMarked(<<>>)
        BY EmptySeq DEF IsMarked
      <3>2. t[0] = <<>> /\ Len(<<>>) = 0 /\ 0 .. 0 = {0} /\ 1 .. 0 = {}
        BY EmptySeq
      <3>3. QED
        BY <3>1, <3>2 DEF IsTable
    <2>2. t[0] = <<>>
      OBVIOUS
    <2>3. /\ Len(m_contexts) = 1 /\ m_contexts[1] = c /\ 1 \in Nat \ {0}
          /\ Len(<<>>) \in Nat /\ 1 - 1 <= Len(<<>>) /\ 1 - 1 = 0
          /\ 1 .. 1 - 1 = {}
      BY <1>2, EmptySeq
    <2> HIDE DEF t
    <2>4. PICK v : IsTable(v, m_contexts, p) /\ v[1] = ToClose(m_contexts[1], 1, p) \o t[1 - 1]
      <3> DEFINE s == m_contexts
                 e == <<>>
                 k == Len(s)
      <3>1. k = 1 /\ s[k] = c
        BY <2>3
      <3>2. SameBelowTop(s, e)
        BY <2>3 DEF SameBelowTop
      <3>3. IsMarked(ToClose(s[k], k, p)) /\ IsTable(t, e, p)
        BY <1>7, <2>1, <3>1
      <3> HIDE DEF s, e
      <3>4. \E v : IsTable(v, s, p) /\ v[k] = ToClose(s[k], k, p) \o t[k - 1]
        BY <3>1, <3>2, <3>3, OtherTop
      <3>5. QED
        BY <3>1, <3>4 DEF s
    <2>5. v[1] = end \o <<>>
      BY <2>2, <2>3, <2>4
    <2>6. end \o <<>> = end
      BY <1>7, ConcatEmptySeq DEF IsMarked
    <2>7. QED
      BY <2>4, <2>5, <2>6
  <1>9. out \o m_range_to_write = start
    BY <1>2, <1>3, <1>6, ConcatEmptySeq
  <1>10. Len(m_contexts) = 1
    BY <1>2
  <1> HIDE DEF end, start
  <1>11. DocumentIsComing
    BY <1>4, <1>8, <1>9, <1>10 DEF DocumentIsComing
  <1>12. ec # "illegal_char_in_string"
    BY <1>2
  <1>13. QED
    BY <1>1, <1>6, <1>11, <1>12 DEF DocumentInv

\* What an iteration that has written all the text leaves.
LEMMA AllWritten ==
    ASSUME DocumentInv, WriteAll
    PROVE  /\ out' \in Seq(Printed) /\ m_pretty_print' = m_pretty_print
           /\ IsBlocks(m_contexts) /\ m_contexts # <<>>
           /\ Len(m_contexts) \in Nat \ {0}
           /\ \E t : /\ IsTable(t, m_contexts, m_pretty_print)
                     /\ Document = out' \o t[Len(m_contexts)]
  <1>1. /\ TypeOK /\ IsBlocks(m_contexts) /\ m_contexts # <<>> /\ write_buffer /\ Rest = <<>>
        /\ out \in Seq(Printed) /\ m_range_to_write \in Seq(Printed)
        /\ ec = "running" /\ DocumentIsComing
    BY DEF DocumentInv, Inv, TypeOK, IsBlocks, WriteAll, write_buffer
  <1>2. out' \in Seq(Printed) /\ out' = out \o m_range_to_write
    BY <1>1, WrittenAndRest
  <1>3. m_pretty_print' = m_pretty_print
    BY <1>1 DEF write_buffer
  <1>4. Len(m_contexts) \in Nat \ {0}
    BY <1>1, PopBlock
  <1>5. QED
    BY <1>1, <1>2, <1>3, <1>4 DEF DocumentIsComing

\* The invariant again, from what waits now and what is to come behind it.
LEMMA StillComing ==
    ASSUME Inv', out' \in Seq(Printed), m_range_to_write' \in Seq(Printed),
           NEW t, IsMarked(t[Len(m_contexts')]),
           IsTable(t, m_contexts', m_pretty_print'),
           Document' = out' \o (m_range_to_write' \o t[Len(m_contexts')]),
           ec' # "illegal_char_in_string"
    PROVE  DocumentInv'
  <1>1. IsMarked(out') /\ IsMarked(m_range_to_write')
    BY PrintedIsMarked DEF IsMarked
  <1>2. Document' = (out' \o m_range_to_write') \o t[Len(m_contexts')]
    <2> DEFINE a == out'
               b == m_range_to_write'
               c == t[Len(m_contexts')]
    <2>1. IsMarked(a) /\ IsMarked(b) /\ IsMarked(c) /\ Document' = a \o (b \o c)
      BY <1>1
    <2> HIDE DEF a, b, c
    <2>2. (a \o b) \o c = a \o (b \o c)
      BY <2>1, Shift
    <2>3. QED
      BY <2>1, <2>2 DEF a, b, c
  <1>3. DocumentIsComing'
    BY <1>2 DEF DocumentIsComing, IsTable, IsMarked
  <1>4. QED
    BY <1>3 DEF DocumentInv

LEMMA EndBlockWrites ==
    ASSUME DocumentInv, Inv', EndBlock, Document' = Document
    PROVE  DocumentInv'
  <1> DEFINE s == m_contexts
             n == Len(s)
             p == m_pretty_print
             c == Last(s)
             end == Ending(c.block_terminator, n, p)
  <1>1. /\ WriteAll /\ c.range = <<>>
        /\ m_range_to_write' = BlockEnd(s) /\ m_contexts' = Front(s) /\ ec' = ec
        /\ ec = "running"
    BY DEF EndBlock, WriteAll, write_buffer
  <1>2. /\ out' \in Seq(Printed) /\ p' = p /\ IsBlocks(s) /\ s # <<>>
    BY <1>1, AllWritten
  <1>3. PICK t : IsTable(t, s, p) /\ Document = out' \o t[n]
    BY <1>1, AllWritten
  <1>4. /\ Len(Front(s)) = n - 1 /\ n \in Nat \ {0} /\ IsBlock(c) /\ c = s[n]
        /\ \A i \in 1 .. n - 1 : Front(s)[i] = s[i]
    BY <1>2, PopBlock
  <1> HIDE DEF n, c
  <1>5. p \in BOOLEAN
    BY DEF DocumentInv, Inv, TypeOK
  <1>6. end \in Seq(Printed)
    <2>1. c.block_terminator \in {end_object, end_array}
      BY <1>4 DEF IsBlock
    <2>2. QED
      BY <1>4, <1>5, <2>1, EndingIsPrinted
  <1>7. BlockEnd(s) = end
    BY SameTexts DEF n, c
  <1>8. t[n] = end \o t[n - 1]
    <2>1. t[n] = ToClose(c, n, p) \o t[n - 1]
      BY <1>3, <1>4, TableEntry DEF n
    <2>2. ToClose(c, n, p) = <<>> \o end
      BY <1>1, NoItems DEF ToClose
    <2>3. <<>> \o end = end
      BY <1>6, ConcatEmptySeq
    <2>4. QED
      BY <2>1, <2>2, <2>3
  <1>9. IsTable(t, Front(s), p)
    <2>1. /\ t[0] = <<>>
          /\ \A i \in 0 .. n : IsMarked(t[i])
          /\ \A i \in 1 .. n : t[i] = ToClose(s[i], i, p) \o t[i - 1]
      BY <1>3 DEF IsTable, n
    <2>2. \A i \in 0 .. n - 1 : IsMarked(t[i])
      BY <1>4, <2>1
    <2>3. ASSUME NEW i \in 1 .. n - 1
          PROVE  t[i] = ToClose(Front(s)[i], i, p) \o t[i - 1]
      <3>1. i \in 1 .. n /\ Front(s)[i] = s[i]
        BY <1>4
      <3>2. t[i] = ToClose(s[i], i, p) \o t[i - 1]
        BY <2>1, <3>1
      <3>3. QED
        BY <3>1, <3>2
    <2>4. QED
      BY <1>4, <2>1, <2>2, <2>3 DEF IsTable
  <1>10. IsMarked(t[n - 1])
    BY <1>4, <1>9 DEF IsTable
  <1> HIDE DEF end
  <1>11. Document' = out' \o (m_range_to_write' \o t[Len(m_contexts')])
    BY <1>1, <1>3, <1>4, <1>7, <1>8
  <1>12. /\ IsMarked(t[Len(m_contexts')]) /\ IsTable(t, m_contexts', p')
         /\ m_range_to_write' \in Seq(Printed) /\ ec' # "illegal_char_in_string"
    BY <1>1, <1>2, <1>4, <1>6, <1>7, <1>9, <1>10
  <1>13. QED
    BY <1>2, <1>11, <1>12, StillComing

\* The next element of the innermost container, and what comes behind it.
LEMMA NextPart ==
    ASSUME NEW s, IsBlocks(s), s # <<>>, Last(s).range # <<>>,
           m_pretty_print \in BOOLEAN, NEW t, IsTable(t, s, m_pretty_print)
    PROVE  LET n == Len(s)
               p == m_pretty_print
               element == Head(Last(s).range)
           IN  \E v : /\ IsTable(v, Popped(s), p)
                      /\ t[n] = PartText(element, Last(s).first_item, n, p) \o v[n]
                      /\ IsMarked(PartText(element, Last(s).first_item, n, p))
  <1> DEFINE n == Len(s)
             p == m_pretty_print
             c == Last(s)
             rest == [c EXCEPT !.range = Tail(@), !.first_item = FALSE]
             u == Popped(s)
             part == PartText(Head(c.range), c.first_item, n, p)
             items == Items(rest, n, p)
             end == Ending(c.block_terminator, n, p)
  <1>1. /\ n \in Nat \ {0} /\ IsBlock(c) /\ c = s[n]
    BY PopBlock
  <1>2. /\ IsBlocks(u) /\ Len(u) = n /\ u[n] = rest
        /\ \A i \in 1 .. n - 1 : u[i] = s[i]
    BY PoppedStack
  <1>3. IsElement(Head(c.range)) /\ IsBlock(rest)
    BY <1>1, NextElement
  <1>4. /\ rest.range = Tail(c.range) /\ rest.first_item = FALSE
        /\ rest.block_terminator = c.block_terminator
    <2> DEFINE r == Tail(c.range)
               b == c.block_terminator
    <2>1. c = [range |-> c.range, block_starter |-> c.block_starter,
               block_terminator |-> b, first_item |-> c.first_item]
      BY <1>1 DEF IsBlock
    <2> DEFINE taken == [c EXCEPT !.range = r]
    <2>2. rest = [taken EXCEPT !.first_item = FALSE]
      BY <2>1
    <2> HIDE DEF r, c
    <2>3. taken = [range |-> r, block_starter |-> c.block_starter,
                   block_terminator |-> b, first_item |-> c.first_item]
      BY <2>1
    <2> HIDE DEF taken, rest
    <2>4. rest = [range |-> r, block_starter |-> c.block_starter,
               block_terminator |-> b, first_item |-> FALSE]
      BY <2>2, <2>3
    <2> HIDE DEF b
    <2>5. rest.range = r /\ rest.first_item = FALSE /\ rest.block_terminator = b
      BY <2>4
    <2>6. QED
      BY <2>5 DEF r, b
  <1> HIDE DEF n, c, rest, u
  <1>5. Items(c, n, p) = part \o items
    BY <1>1, <1>3, <1>4, FirstItem DEF c
  <1>6. IsMarked(part)
    <2>1. c.first_item \in BOOLEAN
      BY <1>1 DEF IsBlock
    <2>2. QED
      BY <1>1, <1>3, <2>1, PartOfElement DEF IsMarked
  <1>7. IsMarked(items)
    BY <1>1, <1>3, RemainingIsText DEF IsMarked
  <1>8. IsMarked(end)
    <2>1. c.block_terminator \in {end_object, end_array}
      BY <1>1 DEF IsBlock
    <2>2. QED
      BY <1>1, <2>1, EndingIsPrinted, PrintedIsMarked DEF IsMarked
  <1>9. ToClose(c, n, p) = Items(c, n, p) \o end /\ ToClose(rest, n, p) = items \o end
    BY <1>4 DEF ToClose
  <1>15. IsTable(t, s, p)
    OBVIOUS
  <1> HIDE DEF part, items, end, p
  <1>10. IsMarked(t[n - 1]) /\ t[n] = ToClose(c, n, p) \o t[n - 1]
    BY <1>1, <1>15, TableEntry DEF n
  <1>11. IsMarked(items \o end)
    BY <1>7, <1>8, Joined
  <1>12. PICK v : IsTable(v, u, p) /\ v[n] = (items \o end) \o t[n - 1]
    <2>1. SameBelowTop(u, s)
      BY <1>1, <1>2 DEF SameBelowTop, n
    <2>2. u[Len(u)] = rest /\ Len(u) = n
      BY <1>2
    <2>3. IsMarked(ToClose(u[Len(u)], Len(u), p))
      BY <1>9, <1>11, <2>2
    <2>4. \E v : IsTable(v, u, p)
                 /\ v[Len(u)] = ToClose(u[Len(u)], Len(u), p) \o t[Len(u) - 1]
      BY <1>15, <2>1, <2>3, OtherTop
    <2>5. QED
      BY <1>9, <2>2, <2>4
  <1>13. t[n] = part \o v[n]
    <2> DEFINE x == t[n - 1]
               tail == items \o end
    <2>1. IsMarked(x) /\ IsMarked(tail)
      BY <1>10, <1>11
    <2> HIDE DEF x
    <2>2. (part \o items) \o end = part \o tail
      BY <1>6, <1>7, <1>8, Shift
    <2> HIDE DEF tail
    <2>3. (part \o tail) \o x = part \o (tail \o x)
      BY <1>6, <2>1, Shift
    <2>4. QED
      BY <1>5, <1>9, <1>10, <1>12, <2>2, <2>3 DEF tail, x
  <1>14. QED
    BY <1>6, <1>12, <1>13 DEF part, n, c, u, p

LEMMA IllegalCharWrites ==
    ASSUME DocumentInv, Inv', IllegalChar, Document' = Document
    PROVE  DocumentInv'
  <1> DEFINE s == m_contexts
             n == Len(s)
             p == m_pretty_print
             c == Last(s)
             element == Head(c.range)
  <1>1. /\ WriteAll /\ c.range # <<>> /\ HasIllegalChar(element)
        /\ m_range_to_write' = <<>> /\ ec' = "illegal_char_in_string"
    BY DEF IllegalChar
  <1>2. /\ out' \in Seq(Printed) /\ IsBlocks(s) /\ s # <<>> /\ p \in BOOLEAN
    BY <1>1, AllWritten DEF DocumentInv, Inv, TypeOK
  <1>3. PICK t : IsTable(t, s, p) /\ Document = out' \o t[n]
    BY <1>1, AllWritten
  <1>4. PICK v : /\ IsTable(v, Popped(s), p)
                 /\ t[n] = PartText(element, c.first_item, n, p) \o v[n]
    BY <1>1, <1>2, <1>3, NextPart
  <1>5. PartText(element, c.first_item, n, p) = <<Stop>>
    BY <1>1 DEF PartText
  <1>6. v[n] \in Seq(Marked)
    <2>1. Len(Popped(s)) = n /\ n \in Nat
      BY <1>1, <1>2, PoppedStack, PopBlock
    <2>2. QED
      BY <1>4, <2>1 DEF IsTable, IsMarked
  <1> DEFINE w == out'
  <1>7. Document = w \o (<<Stop>> \o v[n]) /\ w \in Seq(Printed)
    BY <1>2, <1>3, <1>4, <1>5
  <1> HIDE DEF w, n
  <1>8. WritablePart(Document) = w /\ ~IsWritable(Document)
    BY <1>6, <1>7, MarkEndsIt
  <1>9. WritablePart(Document)' = WritablePart(Document) /\ IsWritable(Document)' = IsWritable(Document)
    BY DEF WritablePart, IsWritable
  <1>10. <<>> \in Seq(Printed)
    BY EmptySeq
  <1>11. QED
    BY <1>1, <1>2, <1>8, <1>9, <1>10 DEF DocumentInv, w

\* The text of an element is written up to its value, or up to the end of the
\* start of a container, whose elements then come first.
LEMMA WriteElementWrites ==
    ASSUME DocumentInv, Inv', WriteElement, Document' = Document
    PROVE  DocumentInv'
  <1> DEFINE s == m_contexts
             n == Len(s)
             p == m_pretty_print
             c == Last(s)
             element == Head(c.range)
             value == element.value
             inner == make_serializer_context(value)
             lead == Lead(element, c.first_item, n, p)
             layout == Layout[Place(value, n, p)]
             u == Popped(s)
  <1>1. /\ WriteAll /\ c.range # <<>> /\ ~HasIllegalChar(element)
        /\ m_range_to_write' = (Separator(c) \o PrettyTabs(n) \o KeyText(element.key))
                                   \o ValueText(value)
        /\ m_contexts' = u \o (IF IsContainer(value) THEN <<inner>> ELSE <<>>)
        /\ ec' = ec /\ ec = "running"
    BY DEF WriteElement, WriteAll, write_buffer
  <1>2. /\ out' \in Seq(Printed) /\ p' = p /\ IsBlocks(s) /\ s # <<>> /\ p \in BOOLEAN
    BY <1>1, AllWritten DEF DocumentInv, Inv, TypeOK
  <1>3. PICK t : IsTable(t, s, p) /\ Document = out' \o t[n]
    BY <1>1, AllWritten
  <1>4. PICK v : /\ IsTable(v, u, p)
                 /\ t[n] = PartText(element, c.first_item, n, p) \o v[n]
    BY <1>1, <1>2, <1>3, NextPart
  <1>5. /\ n \in Nat \ {0} /\ IsBlock(c)
    BY <1>2, PopBlock
  <1>6. IsElement(element)
    BY <1>1, <1>5, NextElement
  <1>7. IsBlocks(u) /\ Len(u) = n
    BY <1>1, <1>2, PoppedStack
  <1>8. m_range_to_write' = lead \o ValueText(value)
    BY <1>1, SameTexts
  <1>9. PartText(element, c.first_item, n, p) = lead \o layout
    BY <1>1 DEF PartText
  <1>10. lead \in Seq(Printed)
    <2>1. c.first_item \in BOOLEAN
      BY <1>5 DEF IsBlock
    <2>2. QED
      BY <1>1, <1>2, <1>5, <1>6, <2>1, LeadIsPrinted
  <1>11. ValueText(value) \in Seq(Printed)
    BY <1>1, <1>6, PrintedIsAnAlphabet, ElementChars
  <1>12. value \in Values /\ Fine(value)
    BY <1>1, <1>6 DEF IsElement, HasIllegalChar, Fine
  <1>13. IsMarked(lead) /\ IsMarked(ValueText(value))
    BY <1>10, <1>11, PrintedIsMarked DEF IsMarked
  <1>14. IsMarked(v[n])
    BY <1>4, <1>5, <1>7, TableEntry
  <1>15. m_range_to_write' \in Seq(Printed)
    BY <1>8, <1>10, <1>11, Together
  <1>16. n \in Nat
    BY <1>5
  <1> HIDE DEF n, c, element, value, lead, u, inner, p
  <1>17. CASE ~IsContainer(value)
    <2>1. m_contexts' = u
      <3>1. u \o <<>> = u
        BY <1>5, <1>7, PushBlock
      <3>2. QED
        BY <1>1, <1>17, <3>1
    <2>2. layout = ValueText(value)
      <3>1. /\ Place(value, n, p) \in Places /\ Place(value, n, p).value = value
        BY <1>2, <1>12, <1>16 DEF Place, Places
      <3>2. QED
        BY <1>12, <1>17, <3>1, LayoutOfOther
    <2>3. Document = out' \o (m_range_to_write' \o v[n])
      BY <1>3, <1>4, <1>8, <1>9, <2>2
    <2>4. /\ Document' = out' \o (m_range_to_write' \o v[Len(m_contexts')])
          /\ IsMarked(v[Len(m_contexts')]) /\ IsTable(v, m_contexts', p')
          /\ ec' # "illegal_char_in_string"
      BY <1>1, <1>2, <1>4, <1>7, <1>14, <2>1, <2>3
    <2>5. QED
      BY <1>2, <1>15, <2>4, StillComing DEF p
  <1>18. CASE IsContainer(value)
    <2> DEFINE w == m_contexts'
               start == <<inner.block_starter>> \o LineBreak(p)
               end == ToClose(inner, n + 1, p)
    <2>1. IsBlock(inner)
      BY <1>12, <1>18, NewContext DEF inner
    <2>2. w = u \o <<inner>>
      BY <1>1, <1>18
    <2>3. /\ Len(w) = n + 1 /\ w[n + 1] = inner
          /\ \A i \in 1 .. n : w[i] = u[i]
      BY <1>7, <2>1, <2>2, PushBlock
    <2>4. ValueText(value) = start
      <3>1. value.type # "string" /\ ValueText(value) = BlockStart(inner)
        BY <1>18 DEF ValueText, IsContainer, ContainerTypes, inner
      <3>2. QED
        BY <3>1, SameTexts DEF p
    <2>5. layout = start \o end
      <3>1. layout \o (IF n = 0 THEN <<Newline>> ELSE <<>>) = start \o end
        BY <1>2, <1>12, <1>16, <1>18, LayoutOfContext DEF inner
      <3>2. layout \in Seq(Marked)
        <4>1. /\ Place(value, n, p) \in Places /\ Place(value, n, p).value = value
          BY <1>2, <1>12, <1>16 DEF Place, Places
        <4>2. QED
          BY <1>12, <4>1, LayoutIsText
      <3>3. layout \o <<>> = layout
        BY <3>2, ConcatEmptySeq
      <3>4. QED
        BY <1>5, <3>1, <3>3
    <2>6. IsMarked(end)
      <3>1. n + 1 \in Nat \ {0}
        BY <1>16
      <3>2. QED
        BY <1>2, <2>1, <3>1, ToCloseIsText DEF IsMarked
    <2> HIDE DEF layout, start, end, w
    <2>7. PICK x : IsTable(x, w, p) /\ x[Len(w)] = end \o v[n]
      <3>1. SameBelowTop(w, u)
        BY <1>7, <1>16, <2>3 DEF SameBelowTop
      <3>2. ToClose(w[Len(w)], Len(w), p) = end /\ v[Len(w) - 1] = v[n]
        BY <1>16, <2>3 DEF end
      <3>3. \E x : IsTable(x, w, p)
                   /\ x[Len(w)] = ToClose(w[Len(w)], Len(w), p) \o v[Len(w) - 1]
        <4>1. IsTable(v, u, p) /\ IsMarked(ToClose(w[Len(w)], Len(w), p))
          BY <1>4, <2>6, <3>2
        <4>2. QED
          BY <3>1, <4>1, OtherTop
      <3>4. QED
        BY <3>2, <3>3
    <2>8. IsMarked(x[Len(w)])
      BY <1>14, <2>6, <2>7, Joined
    <2>9. (lead \o layout) \o v[n] = (lead \o start) \o x[Len(w)]
      <3> DEFINE y == v[n]
      <3>1. IsMarked(y) /\ IsMarked(start) /\ IsMarked(lead) /\ IsMarked(end)
        BY <1>13, <1>14, <2>4, <2>6
      <3>2. layout = start \o end /\ x[Len(w)] = end \o y
        BY <2>5, <2>7
      <3> HIDE DEF y
      <3>3. IsRegrouped(lead, start, end, y)
        BY <3>1, ShiftBoth
      <3>4. QED
        BY <3>2, <3>3 DEF y, IsRegrouped
    <2>10. Document = out' \o (m_range_to_write' \o x[Len(w)])
      BY <1>3, <1>4, <1>8, <1>9, <2>4, <2>9 DEF layout
    <2>11. /\ Document' = out' \o (m_range_to_write' \o x[Len(m_contexts')])
           /\ IsMarked(x[Len(m_contexts')]) /\ IsTable(x, m_contexts', p')
           /\ ec' # "illegal_char_in_string"
      BY <1>1, <1>2, <2>7, <2>8, <2>10 DEF w
    <2>12. QED
      BY <1>2, <1>15, <2>11, StillComing DEF p
  <1>19. QED
    BY <1>17, <1>18

\* Only a part of the text is copied.
LEMMA CopyWrites ==
    ASSUME DocumentInv, Inv', WritePart \/ Completed, Document' = Document
    PROVE  DocumentInv'
  <1>1. /\ TypeOK /\ write_buffer /\ ec = "running"
        /\ out \in Seq(Printed) /\ m_range_to_write \in Seq(Printed)
        /\ m_range_to_write' = Rest /\ m_contexts' = m_contexts
        /\ m_pretty_print' = m_pretty_print
        /\ ec' \in {"running", "completed"}
    BY DEF DocumentInv, Inv, WritePart, Completed, write_buffer
  <1>2. /\ out' \in Seq(Printed) /\ Rest \in Seq(Printed)
        /\ out' \o Rest = out \o m_range_to_write
    BY <1>1, WrittenAndRest
  <1>3. PICK t : /\ IsTable(t, m_contexts, m_pretty_print)
                 /\ Document = (out \o m_range_to_write) \o t[Len(m_contexts)]
    BY <1>1 DEF DocumentInv, DocumentIsComing
  <1>4. DocumentIsComing'
    <2>1. Document' = (out' \o m_range_to_write') \o t[Len(m_contexts')]
      BY <1>1, <1>2, <1>3
    <2>2. IsTable(t, m_contexts', m_pretty_print')
      BY <1>1, <1>3
    <2>3. QED
      BY <2>1, <2>2 DEF DocumentIsComing, IsTable, IsMarked
  <1>5. QED
    BY <1>1, <1>2, <1>4 DEF DocumentInv

\* Nothing is written.
LEMMA QuietStep ==
    ASSUME DocumentInv, Inv', Document' = Document,
           UNCHANGED <<m_range_to_write, m_contexts, m_pretty_print, out>>,
           ec' = ec \/ {ec, ec'} \subseteq {"running", "buffer_is_full"}
    PROVE  DocumentInv'
  BY DEF DocumentInv, DocumentIsComing, IsTable, IsMarked, ToClose, WritablePart, IsWritable

\* Every iteration keeps the invariant, and every step.
LEMMA SameDocument == ASSUME UNCHANGED <<root, m_pretty_print>> PROVE Document' = Document
  BY DEF Document, DocumentOf

LEMMA IterationDocument == DocumentInv /\ Iteration => DocumentInv'
  <1> SUFFICES ASSUME DocumentInv, Iteration PROVE DocumentInv'
    OBVIOUS
  <1>1. Inv'
    BY IterationInv DEF DocumentInv
  <1>2. Document' = Document
    BY SameDocument DEF Iteration, BufferIsFull, Completed, WritePart, EndBlock, WriteElement,
       IllegalChar, WriteAll, write_buffer, members
  <1>3. CASE BufferIsFull
    BY <1>1, <1>2, <1>3, QuietStep DEF BufferIsFull, members
  <1>4. CASE Completed \/ WritePart
    BY <1>1, <1>2, <1>4, CopyWrites
  <1>5. QED
    BY <1>1, <1>2, <1>3, <1>4, EndBlockWrites, WriteElementWrites, IllegalCharWrites
       DEF Iteration

LEMMA NextDocument == DocumentInv /\ [Next]_serializerVars => DocumentInv'
  <1> SUFFICES ASSUME DocumentInv, [Next]_serializerVars PROVE DocumentInv'
    OBVIOUS
  <1>1. Inv'
    BY NextInv DEF DocumentInv
  <1>2. CASE Iteration
    BY <1>2, IterationDocument
  <1>3. ASSUME NEW size \in Sizes, PassBuffer(size) PROVE DocumentInv'
    BY <1>1, <1>3, QuietStep, SameDocument DEF PassBuffer, serialize, members
  <1>4. CASE UNCHANGED serializerVars
    BY <1>1, <1>4, QuietStep, SameDocument DEF serializerVars, members
  <1>5. QED
    BY <1>2, <1>3, <1>4 DEF Next

THEOREM DocumentInvariance == DocumentSpec => []DocumentInv
  <1>1. DocumentInit => DocumentInv
    BY InitDocument DEF DocumentInit
  <1>2. DocumentInv /\ [DocumentNext]_docVars => DocumentInv'
    BY NextDocument DEF DocumentNext, docVars
  <1>3. QED
    BY <1>1, <1>2, PTL DEF DocumentSpec

\* The document the client expects stays that of the root.
LEMMA DocumentStays == DocumentSpec => [](document = Document)
  <1>1. DocumentInit => document = Document
    BY DEF DocumentInit, Document
  <1>2. document = Document /\ [DocumentNext]_docVars => (document = Document)'
    <2>1. [DocumentNext]_docVars => UNCHANGED <<root, m_pretty_print, document>>
      BY DEF DocumentNext, docVars, Next, Iteration, BufferIsFull, Completed, WritePart, EndBlock,
         WriteElement, IllegalChar, WriteAll, write_buffer, PassBuffer, serialize, members,
         serializerVars
    <2>2. QED
      BY <2>1, SameDocument
  <1>3. QED
    BY <1>1, <1>2, PTL DEF DocumentSpec

\* Whatever the container and the sizes of the buffers, the client gets the
\* document that JsonLayout defines, or its part up to the first element that
\* cannot be written.
THEOREM DocumentIsWritten == DocumentSpec => []WritesTheDocument
  <1>1. DocumentInv /\ document = Document => WritesTheDocument
    BY WhatIsWritten DEF WritesTheDocument
  <1>2. QED
    BY <1>1, DocumentInvariance, DocumentStays, PTL
-----------------------------------------------------------------------------
(* to_string: the document in blocks.                                      *)

\* The first call of serialize is made.
Started == ec # "buffer_is_full" \/ out # <<>>

\* How much earlier calls of serialize have written.
Start == Len(out) - (buffer_size - room)

\* The length of the text that closes the root.
EndLength == IF m_pretty_print THEN 3 ELSE 2

\* The cases in which serialize is not called again behind an element that
\* cannot be written.
Faithful == overload = "template" \/ IsWritable(Document)

\* What is put together is what earlier calls have written.
BlocksAreTaken ==
    /\ ~Started => ret = <<>>
    /\ Started =>
          /\ room <= buffer_size
          /\ Start \in Nat /\ ret = SubSeq(out, 1, Start)
          /\ Faithful => \E k \in Nat : Start = k * buffer_size
    /\ Started /\ ec = "buffer_is_full" => room = 0
    /\ ec = "completed" /\ Faithful =>
          /\ Start <= Len(Document) - EndLength
          /\ Len(Document) - EndLength < Start + buffer_size

\* The inductive invariant.
FunctionInv ==
    /\ Inv
    /\ buffer_size \in Nat \ {0} /\ overload \in {"template", "container"}
    /\ Faithful => DocumentInv
    /\ m_contexts = <<>> /\ ec # "completed" => Len(m_range_to_write) = EndLength
    /\ outcome \in {"calling", "returned", "thrown"}
    /\ outcome = "calling" => BlocksAreTaken
    /\ outcome # "calling" => ec # "running" /\ ReturnsBlocks

\* The start of the block in which a place is.
LEMMA BlockOf ==
    ASSUME NEW k \in Nat, NEW size \in Nat \ {0}, NEW n \in Nat,
           k * size <= n, n < k * size + size
    PROVE  (n \div size) * size = k * size
  <1> DEFINE q == n \div size
             r == n % size
  <1>1. q \in Int /\ r \in 0 .. size - 1 /\ n = size * q + r
    OBVIOUS
  <1> HIDE DEF q, r
  <1>2. ASSUME q < k PROVE FALSE
    <2>1. size * q <= size * (k - 1)
      BY <1>1, <1>2
    <2>2. QED
      BY <1>1, <2>1
  <1>3. ASSUME q > k PROVE FALSE
    <2>1. size * q >= size * (k + 1)
      BY <1>1, <1>3
    <2>2. QED
      BY <1>1, <2>1
  <1>4. q = k
    BY <1>1, <1>2, <1>3
  <1>5. QED
    BY <1>4 DEF q

LEMMA FunctionInvInit == FunctionInit => FunctionInv
  <1> SUFFICES ASSUME FunctionInit PROVE FunctionInv
    OBVIOUS
  <1>1. Init /\ Inv /\ DocumentInv
    BY InitInv, InitDocument DEF FunctionInit
  <1>2. /\ ret = <<>> /\ out = <<>> /\ ec = "buffer_is_full" /\ outcome = "calling"
        /\ overload \in {"template", "container"} /\ buffer_size \in Nat \ {0}
    BY BufferSizesAssumption DEF FunctionInit, Init
  <1>3. m_contexts # <<>>
    BY <1>1 DEF Init
  <1>4. BlocksAreTaken
    BY <1>2 DEF BlocksAreTaken, Started
  <1>5. QED
    BY <1>1, <1>2, <1>3, <1>4 DEF FunctionInv

\* A call of serialize begins.
LEMMA CallKeepsDocument ==
    ASSUME Inv, serialize(buffer_size), buffer_size \in Nat
    PROVE  /\ Inv' /\ Document' = Document /\ EndLength' = EndLength
           /\ ec' = "running" /\ room' = buffer_size
           /\ UNCHANGED <<m_contexts, m_range_to_write, out>>
           /\ DocumentInv /\ ec = "buffer_is_full" => DocumentInv'
  <1>1. /\ UNCHANGED <<m_range_to_write, m_contexts, m_pretty_print, root, out>>
        /\ ec' = "running" /\ room' = buffer_size
    BY DEF serialize, members
  <1>2. Inv' /\ Document' = Document
    BY <1>1, CallStep, SameDocument
  <1>3. EndLength' = EndLength
    BY <1>1 DEF EndLength
  <1>4. ASSUME DocumentInv, ec = "buffer_is_full" PROVE DocumentInv'
    BY <1>1, <1>2, <1>4, QuietStep
  <1>5. QED
    BY <1>1, <1>2, <1>3, <1>4

\* What depends on neither the calls nor the text put together.
LEMMA SameFaith ==
    ASSUME UNCHANGED arguments, Document' = Document
    PROVE  Faithful' = Faithful /\ UNCHANGED <<overload, buffer_size>>
  BY DEF arguments, Faithful, IsWritable

LEMMA FirstCallStep ==
    ASSUME FunctionInv, FirstCall
    PROVE  FunctionInv'
  <1>1. /\ outcome = "calling" /\ out = <<>> /\ ec = "buffer_is_full"
        /\ serialize(buffer_size) /\ UNCHANGED <<arguments, ret, outcome>>
    BY DEF FirstCall
  <1>2. /\ Inv' /\ Document' = Document /\ EndLength' = EndLength
        /\ ec' = "running" /\ room' = buffer_size
        /\ UNCHANGED <<m_contexts, m_range_to_write, out>>
        /\ DocumentInv => DocumentInv'
    BY <1>1, CallKeepsDocument DEF FunctionInv
  <1>3. /\ Faithful' = Faithful /\ UNCHANGED <<overload, buffer_size>>
    BY <1>1, <1>2, SameFaith
  <1>4. ret = <<>> /\ buffer_size \in Nat \ {0}
    BY <1>1 DEF FunctionInv, BlocksAreTaken, Started
  <1>5. Start' = 0
    BY <1>1, <1>2, <1>3, <1>4, EmptySeq DEF Start
  <1>6. SubSeq(<<>>, 1, 0) = <<>>
    BY SubSeqEmpty
  <1>7. \E k \in Nat : 0 = k * buffer_size
    BY <1>4, 0 * buffer_size = 0
  <1>8. BlocksAreTaken'
    BY <1>1, <1>2, <1>3, <1>4, <1>5, <1>6, <1>7 DEF BlocksAreTaken, Started
  <1>9. QED
    BY <1>1, <1>2, <1>3, <1>8 DEF FunctionInv

LEMMA SameEnd ==
    ASSUME Iteration
    PROVE  Document' = Document /\ EndLength' = EndLength
  <1>1. UNCHANGED <<root, m_pretty_print>>
    BY DEF Iteration, BufferIsFull, Completed, WritePart, EndBlock, WriteElement,
       IllegalChar, WriteAll, write_buffer, members
  <1>2. QED
    BY <1>1, SameDocument DEF EndLength

\* The text that closes the root is written in one go, or not at all.
LEMMA EndWaits ==
    ASSUME Inv, m_contexts = <<>> /\ ec # "completed" => Len(m_range_to_write) = EndLength,
           Iteration
    PROVE  (m_contexts = <<>> /\ ec # "completed" => Len(m_range_to_write) = EndLength)'
  <1>1. EndLength' = EndLength
    BY SameEnd
  <1>2. CASE BufferIsFull
    BY <1>1, <1>2 DEF BufferIsFull, members
  <1>3. CASE Completed \/ WritePart
    BY <1>3 DEF Completed, WritePart
  <1>4. CASE EndBlock
    <2>1. /\ m_contexts # <<>> /\ m_contexts' = Front(m_contexts)
          /\ m_range_to_write' = BlockEnd(m_contexts)
      BY <1>4 DEF EndBlock, WriteAll
    <2>2. IsBlocks(m_contexts)
      BY DEF Inv, TypeOK, IsBlocks
    <2>3. IsBlock(Last(m_contexts)) /\ (Front(m_contexts) = <<>> => Len(m_contexts) = 1)
      BY <2>1, <2>2, PopBlock
    <2>4. m_contexts' = <<>> => Len(m_range_to_write') = EndLength
      BY <2>1, <2>3, RootEnd DEF EndLength
    <2>5. QED
      BY <1>1, <2>4
  <1>5. ASSUME WriteElement \/ IllegalChar PROVE m_contexts' # <<>>
    <2>1. IsBlocks(m_contexts) /\ m_contexts # <<>> /\ Last(m_contexts).range # <<>>
      BY <1>5 DEF Inv, TypeOK, IsBlocks, WriteElement, IllegalChar, WriteAll
    <2>2. IsBlocks(Popped(m_contexts)) /\ Popped(m_contexts) # <<>>
      BY <2>1, PoppedStack
    <2>3. CASE IllegalChar
      BY <2>2, <2>3 DEF IllegalChar
    <2>4. CASE WriteElement
      <3> DEFINE u == Popped(m_contexts)
                 inner == IF IsContainer(Head(Last(m_contexts).range).value)
                          THEN <<make_serializer_context(Head(Last(m_contexts).range).value)>>
                          ELSE <<>>
      <3>1. m_contexts' = u \o inner
        BY <2>4 DEF WriteElement
      <3>2. IsSequence(u) /\ u # <<>> /\ IsSequence(inner)
        BY <2>2, ShortTexts DEF IsBlocks
      <3> HIDE DEF u, inner
      <3>3. /\ Len(u \o inner) = Len(u) + Len(inner) /\ IsSequence(u \o inner)
            /\ Len(u) \in Nat \ {0} /\ Len(inner) \in Nat
        BY <3>2, Concatenation, SequenceIsFunction
      <3>4. Len(u \o inner) # 0
        BY <3>3
      <3>5. QED
        BY <3>1, <3>3, <3>4, SequenceIsFunction
    <2>5. QED
      BY <1>5, <2>3, <2>4
  <1>6. QED
    BY <1>2, <1>3, <1>4, <1>5 DEF Iteration

\* serialize moves text from what waits into the buffer.
LEMMA IterationCopies ==
    ASSUME Inv, Iteration
    PROVE  \/ /\ UNCHANGED <<room, out>> /\ room = 0 /\ ec' = "buffer_is_full"
           \/ /\ ec' # "buffer_is_full"
              /\ \E part : /\ IsSequence(part) /\ Len(part) <= room
                           /\ out' = out \o part /\ room' = room - Len(part)
  <1>1. CASE BufferIsFull
    BY <1>1 DEF BufferIsFull
  <1>2. CASE ~BufferIsFull
    <2>1. write_buffer /\ ec' # "buffer_is_full"
      BY <1>2 DEF Iteration, Completed, WritePart, EndBlock, WriteElement, IllegalChar,
         WriteAll, write_buffer
    <2>2. /\ Count \in Nat /\ Count <= Len(m_range_to_write) /\ Count <= room
          /\ IsSequence(m_range_to_write)
      BY CountIsMinimum DEF Inv, TypeOK
    <2>3. /\ IsSequence(SubSeq(m_range_to_write, 1, Count))
          /\ Len(SubSeq(m_range_to_write, 1, Count)) = Count
      BY <2>2, PartOfText
    <2>4. out' = out \o SubSeq(m_range_to_write, 1, Count) /\ room' = room - Count
      BY <2>1 DEF write_buffer
    <2>5. QED
      BY <2>1, <2>2, <2>3, <2>4
  <1>3. QED
    BY <1>1, <1>2

LEMMA WriteStep ==
    ASSUME FunctionInv, Write
    PROVE  FunctionInv'
  <1>1. Iteration /\ UNCHANGED <<arguments, ret, outcome>> /\ ec = "running"
    BY DEF Write, Iteration, BufferIsFull, Completed, WritePart, EndBlock, WriteElement,
       IllegalChar, WriteAll, write_buffer
  <1>2. Inv /\ Inv' /\ Document' = Document /\ EndLength' = EndLength
    BY <1>1, IterationInv, SameEnd DEF FunctionInv
  <1>3. Faithful' = Faithful /\ UNCHANGED <<overload, buffer_size>>
    BY <1>1, <1>2, SameFaith
  <1>4. Faithful' => DocumentInv'
    BY <1>1, <1>3, IterationDocument DEF FunctionInv
  <1>5. (m_contexts = <<>> /\ ec # "completed" => Len(m_range_to_write) = EndLength)'
    BY <1>1, <1>2, EndWaits DEF FunctionInv
  <1>6. outcome = "calling" /\ BlocksAreTaken /\ buffer_size \in Nat \ {0}
    BY <1>1 DEF FunctionInv
  <1>7. Started
    BY <1>1 DEF Started
  <1>8. /\ room <= buffer_size /\ Start \in Nat /\ ret = SubSeq(out, 1, Start)
        /\ Faithful => \E k \in Nat : Start = k * buffer_size
    BY <1>6, <1>7 DEF BlocksAreTaken
  <1>9. /\ IsSequence(out) /\ Len(out) \in Nat /\ room \in Nat
        /\ IsSequence(out') /\ Len(out') \in Nat
    BY <1>2, SequenceIsFunction DEF Inv, TypeOK
  <1>10. /\ room' <= buffer_size /\ Start' = Start /\ SubSeq(out', 1, Start) = ret
         /\ ec' = "buffer_is_full" => room' = 0
    <2>1. CASE UNCHANGED <<room, out>> /\ room = 0
      BY <1>3, <1>8, <2>1 DEF Start
    <2>2. ASSUME ec' # "buffer_is_full",
                 NEW part, IsSequence(part), Len(part) <= room,
                 out' = out \o part, room' = room - Len(part)
          PROVE  room' <= buffer_size /\ Start' = Start /\ SubSeq(out', 1, Start) = ret
      <3>1. Len(part) \in Nat /\ Len(out') = Len(out) + Len(part)
        BY <1>9, <2>2, SequenceIsFunction, Concatenation
      <3>2. room' <= buffer_size /\ Start' = Start
        BY <1>3, <1>6, <1>8, <1>9, <2>2, <3>1 DEF Start
      <3>3. Start \in Int /\ Start <= Len(out)
        BY <1>6, <1>8, <1>9 DEF Start
      <3>4. SubSeq(out \o part, 1, Start) = SubSeq(out, 1, Start)
        BY <1>9, <2>2, <3>3, SameBeginning
      <3>5. QED
        BY <1>8, <2>2, <3>2, <3>4
    <2>3. QED
      BY <1>1, <1>2, <2>1, <2>2, IterationCopies
  <1>11. Started'
    <2>1. CASE ec' = "buffer_is_full"
      <3>1. room' = 0 /\ Start' \in Nat
        BY <1>8, <1>10, <2>1
      <3>2. Len(out') # 0
        BY <1>3, <1>6, <1>9, <3>1 DEF Start
      <3>3. QED
        BY <3>2, EmptySeq DEF Started
    <2>2. CASE ec' # "buffer_is_full"
      BY <2>2 DEF Started
    <2>3. QED
      BY <2>1, <2>2
  <1>12. ASSUME ec' = "completed", Faithful
         PROVE  /\ Start <= Len(Document) - EndLength
                /\ Len(Document) - EndLength < Start + buffer_size
    <2>1. Completed
      BY <1>1, <1>12 DEF Iteration, BufferIsFull, Completed, WritePart, EndBlock, WriteElement,
         IllegalChar, WriteAll, write_buffer
    <2>2. m_contexts = <<>> /\ room > 0
      BY <2>1 DEF Completed, write_buffer
    <2>3. DocumentInv /\ Len(m_range_to_write) = EndLength
      BY <1>1, <1>12, <2>2 DEF FunctionInv
    <2>4. /\ DocumentIsComing /\ out \in Seq(Printed) /\ m_range_to_write \in Seq(Printed)
      BY <1>1, <2>3 DEF DocumentInv
    <2>5. Document = out \o m_range_to_write
      <3>1. PICK t : IsTable(t, <<>>, m_pretty_print)
                     /\ Document = (out \o m_range_to_write) \o t[Len(<<>>)]
        BY <2>2, <2>4 DEF DocumentIsComing
      <3>2. t[Len(<<>>)] = <<>>
        BY <3>1, EmptySeq DEF IsTable
      <3>3. out \o m_range_to_write \in Seq(Printed)
        BY <2>4, Together
      <3>4. QED
        BY <3>1, <3>2, <3>3, ConcatEmptySeq
    <2>6. Len(Document) = Len(out) + Len(m_range_to_write) /\ Len(m_range_to_write) \in Nat
      BY <2>4, <2>5, Together, LenProperties
    <2>7. Len(Document) - EndLength = Len(out)
      BY <1>9, <2>3, <2>6
    <2>8. QED
      BY <1>6, <1>8, <1>9, <2>2, <2>7 DEF Start
  <1>13. BlocksAreTaken'
    BY <1>1, <1>2, <1>3, <1>8, <1>10, <1>11, <1>12 DEF BlocksAreTaken
  <1>14. QED
    BY <1>1, <1>2, <1>3, <1>4, <1>5, <1>6, <1>13 DEF FunctionInv

\* What the calls so far have written, taken together.
LEMMA BlockIsNext ==
    ASSUME FunctionInv, HasResult
    PROVE  /\ ret \o Block = out /\ Started
           /\ IsSequence(out) /\ Len(out) \in Nat /\ room \in Nat /\ room <= buffer_size
           /\ Start \in Nat /\ Start <= Len(out)
           /\ Len(out) = Start + (buffer_size - room)
  <1>1. outcome = "calling" /\ out # <<>> /\ BlocksAreTaken /\ buffer_size \in Nat \ {0}
    BY DEF HasResult, FunctionInv
  <1>2. Started
    BY <1>1 DEF Started
  <1>3. room <= buffer_size /\ Start \in Nat /\ ret = SubSeq(out, 1, Start)
    BY <1>1, <1>2 DEF BlocksAreTaken
  <1>4. IsSequence(out) /\ Len(out) \in Nat /\ room \in Nat
    BY SequenceIsFunction DEF FunctionInv, Inv, TypeOK
  <1>5. Start <= Len(out) /\ Len(out) = Start + (buffer_size - room)
    BY <1>1, <1>3, <1>4 DEF Start
  <1>6. Block = SubSeq(out, Start + 1, Len(out))
    BY DEF Block, Start
  <1>7. ret \o Block = out
    <2>1. Start \in 0 .. Len(out)
      BY <1>3, <1>4, <1>5
    <2>2. QED
      BY <1>3, <1>4, <1>6, <2>1, TwoParts
  <1>8. QED
    BY <1>2, <1>3, <1>4, <1>5, <1>7

LEMMA TakeStep ==
    ASSUME FunctionInv, HasResult, TakeAndGoOn, ec # "completed",
           overload = "template" => ec = "buffer_is_full"
    PROVE  FunctionInv'
  <1>1. /\ ret' = ret \o Block /\ serialize(buffer_size) /\ UNCHANGED outcome
        /\ outcome = "calling" /\ ec # "running" /\ UNCHANGED arguments
    BY DEF HasResult, TakeAndGoOn
  <1>2. /\ Inv /\ buffer_size \in Nat \ {0} /\ BlocksAreTaken
    BY <1>1 DEF FunctionInv
  <1>3. /\ Inv' /\ Document' = Document /\ EndLength' = EndLength
        /\ ec' = "running" /\ room' = buffer_size
        /\ UNCHANGED <<m_contexts, m_range_to_write, out>>
        /\ DocumentInv /\ ec = "buffer_is_full" => DocumentInv'
    BY <1>1, <1>2, CallKeepsDocument
  <1>4. Faithful' = Faithful /\ UNCHANGED <<overload, buffer_size>>
    BY <1>1, <1>3, SameFaith
  <1>5. ASSUME Faithful PROVE DocumentInv /\ ec = "buffer_is_full"
    <2>1. DocumentInv
      BY <1>5 DEF FunctionInv
    <2>2. ec = "illegal_char_in_string" => ~IsWritable(Document)
      BY <2>1, WhatIsWritten
    <2>3. ec \in serializer_error_codes
      BY <1>1, <1>2 DEF Inv, TypeOK
    <2>4. QED
      BY <1>5, <2>1, <2>2, <2>3 DEF Faithful, serializer_error_codes
  <1>6. /\ ret' = out /\ Started /\ IsSequence(out) /\ Len(out) \in Nat
        /\ Len(out) = Start + (buffer_size - room) /\ Start \in Nat
    BY <1>1, BlockIsNext
  <1>7. Start' = Len(out)
    BY <1>2, <1>3, <1>4, <1>6 DEF Start
  <1>8. SubSeq(out, 1, Len(out)) = out
    BY <1>6, SubSeqFull DEF IsSequence
  <1>9. ASSUME Faithful PROVE \E k \in Nat : Len(out) = k * buffer_size
    <2>1. PICK k \in Nat : Start = k * buffer_size
      BY <1>2, <1>6, <1>9 DEF BlocksAreTaken
    <2>2. room = 0
      BY <1>2, <1>5, <1>6, <1>9 DEF BlocksAreTaken
    <2>3. Len(out) = (k + 1) * buffer_size
      BY <1>2, <1>6, <2>1, <2>2
    <2>4. QED
      BY <2>3
  <1>10. BlocksAreTaken'
    BY <1>2, <1>3, <1>4, <1>6, <1>7, <1>8, <1>9 DEF BlocksAreTaken, Started
  <1>11. (m_contexts = <<>> /\ ec # "completed" => Len(m_range_to_write) = EndLength)'
    BY <1>3 DEF FunctionInv
  <1>12. QED
    BY <1>1, <1>2, <1>3, <1>4, <1>5, <1>10, <1>11 DEF FunctionInv

\* The text of a document that is complete: its last block begins where the
\* buffer does in which the end begins.
LEMMA TextInBlocks ==
    ASSUME FunctionInv, HasResult, ec = "completed", Faithful
    PROVE  /\ IsWritable(Document) /\ LastStart = Start
           /\ ret = SubSeq(Document, 1, LastStart)
           /\ out = SubSeq(Document, 1, Min({Len(Document), LastStart + buffer_size}))
  <1> DEFINE m == m_range_to_write
             end == Len(Document) - EndLength
  <1>1. /\ DocumentInv /\ BlocksAreTaken /\ Inv /\ buffer_size \in Nat \ {0}
    BY DEF FunctionInv, HasResult
  <1>2. out \o m = Document /\ IsWritable(Document)
    BY <1>1, WhatIsWritten
  <1>3. /\ Started /\ IsSequence(out) /\ Len(out) \in Nat /\ room \in Nat /\ room <= buffer_size
        /\ Start \in Nat /\ Start <= Len(out) /\ Len(out) = Start + (buffer_size - room)
    BY BlockIsNext
  <1>4. IsSequence(m) /\ Len(m) \in Nat /\ (m # <<>> => room = 0)
    BY <1>1, SequenceIsFunction DEF Inv, TypeOK, OnlyTheEndCanBeLost
  <1> HIDE DEF m
  <1>5. /\ IsSequence(Document) /\ Len(Document) = Len(out) + Len(m)
        /\ SubSeq(Document, 1, Len(out)) = out
    BY <1>2, <1>3, <1>4, Concatenation
  <1>6. LastStart = Start
    <2>1. /\ Start <= end /\ end < Start + buffer_size
      BY <1>1 DEF BlocksAreTaken
    <2>2. PICK k \in Nat : Start = k * buffer_size
      BY <1>1, <1>3 DEF BlocksAreTaken
    <2>3. LastStart = (end \div buffer_size) * buffer_size
      BY DEF LastStart, EndLength
    <2>4. end \in Nat
      <3>1. EndLength \in Nat
        BY DEF EndLength
      <3>2. QED
        BY <1>3, <1>4, <1>5, <2>1, <3>1
    <2> HIDE DEF end
    <2>5. (end \div buffer_size) * buffer_size = k * buffer_size
      BY <1>1, <2>1, <2>2, <2>4, BlockOf
    <2>6. QED
      BY <2>2, <2>3, <2>5
  <1>7. ret = SubSeq(Document, 1, Start)
    <2>1. ret = SubSeq(out, 1, Start)
      BY <1>1, <1>3 DEF BlocksAreTaken
    <2>2. SubSeq(out \o m, 1, Start) = SubSeq(out, 1, Start)
      BY <1>3, <1>4, SameBeginning
    <2>3. QED
      BY <1>2, <2>1, <2>2
  <1>8. Len(out) = Min({Len(Document), Start + buffer_size})
    <2> DEFINE a == Len(Document)
               b == Start + buffer_size
               IsLeast(x) == x \in {a, b} /\ \A y \in {a, b} : x <= y
    <2>1. m = <<>> => Len(m) = 0
      BY EmptySeq
    <2>2. IsLeast(Len(out)) /\ a \in Nat /\ b \in Nat
      BY <1>1, <1>3, <1>4, <1>5, <2>1
    <2>3. Min({a, b}) = CHOOSE x \in {a, b} : \A y \in {a, b} : x <= y
      BY DEF Min
    <2> HIDE DEF a, b
    <2>4. IsLeast(Min({a, b}))
      BY <2>2, <2>3
    <2>5. Min({a, b}) = Len(out)
      BY <1>3, <2>2, <2>4
    <2>6. QED
      BY <2>5 DEF a, b
  <1>9. QED
    BY <1>2, <1>5, <1>6, <1>7, <1>8

\* The function is left.
LEMMA LeaveStep ==
    ASSUME FunctionInv, HasResult, NEW how \in {"returned", "thrown"},
           \/ how = "returned" /\ ec = "completed" /\ overload = "template"
                /\ Leave(ret \o Block, how)
           \/ how = "returned" /\ ec = "completed" /\ overload = "container" /\ Leave(ret, how)
           \/ how = "thrown" /\ ec = "illegal_char_in_string" /\ overload = "template"
                /\ Leave(ret \o Block, how)
    PROVE  FunctionInv'
  <1>1. outcome' = how /\ UNCHANGED serializerVars /\ UNCHANGED arguments /\ ec # "running"
    BY DEF Leave, HasResult
  <1>2. UNCHANGED <<m_range_to_write, m_contexts, m_pretty_print, root, ec, room, out,
                    overload, buffer_size>>
    BY <1>1 DEF serializerVars, members, arguments
  <1>3. /\ Document' = Document /\ EndLength' = EndLength
        /\ IsWritable(Document)' = IsWritable(Document) /\ LastStart' = LastStart
    BY <1>2, SameDocument DEF EndLength, IsWritable, LastStart
  <1>4. Faithful' = Faithful
    BY <1>1, <1>3, SameFaith
  <1>5. Inv' /\ (Faithful' => DocumentInv')
    <2>1. Inv'
      BY <1>1, NextInv DEF FunctionInv
    <2>2. DocumentInv => DocumentInv'
      BY <1>1, NextDocument
    <2>3. QED
      BY <1>4, <2>1, <2>2 DEF FunctionInv
  <1>6. overload = "template" => Faithful
    BY DEF Faithful
  <1>7. ec = "completed" /\ Faithful => IsWritable(Document)
    BY TextInBlocks
  <1>8. ec = "illegal_char_in_string" /\ Faithful => ~IsWritable(Document)
    BY WhatIsWritten DEF FunctionInv
  <1>9. /\ how = "returned" /\ IsWritable(Document) =>
              ret' = SubSeq(Document, 1,
                        IF overload = "container" THEN LastStart
                        ELSE Min({Len(Document), LastStart + buffer_size}))
    <2> SUFFICES ASSUME how = "returned", IsWritable(Document)
                 PROVE  ret' = SubSeq(Document, 1,
                                  IF overload = "container" THEN LastStart
                                  ELSE Min({Len(Document), LastStart + buffer_size}))
      OBVIOUS
    <2>1. ec = "completed" /\ Faithful
      BY DEF Faithful
    <2>2. /\ ret = SubSeq(Document, 1, LastStart)
          /\ out = SubSeq(Document, 1, Min({Len(Document), LastStart + buffer_size}))
      BY <2>1, TextInBlocks
    <2>3. CASE overload = "container"
      BY <2>2, <2>3 DEF Leave
    <2>4. CASE overload = "template"
      <3>1. ret' = out
        BY <2>4, BlockIsNext DEF Leave
      <3>2. QED
        BY <2>2, <2>4, <3>1
    <2>5. QED
      BY <2>3, <2>4
  <1>10. ReturnsBlocks'
    <2>1. how = "thrown" => overload = "template" /\ ~IsWritable(Document)
      BY <1>6, <1>8
    <2>2. how = "returned" /\ ~IsWritable(Document) => overload = "container"
      BY <1>6, <1>7
    <2>3. QED
      BY <1>1, <1>2, <1>3, <1>9, <2>1, <2>2 DEF ReturnsBlocks
  <1>11. QED
    BY <1>1, <1>2, <1>3, <1>5, <1>10 DEF FunctionInv

LEMMA FunctionInvNext == FunctionInv /\ [FunctionNext]_functionVars => FunctionInv'
  <1> SUFFICES ASSUME FunctionInv, [FunctionNext]_functionVars PROVE FunctionInv'
    OBVIOUS
  <1>1. ASSUME HasResult PROVE ec \in serializer_error_codes
    BY <1>1 DEF HasResult, FunctionInv, Inv, TypeOK
  <1>2. CASE Template
    <2>1. HasResult /\ overload = "template"
      BY <1>2 DEF Template
    <2>2. CASE ec = "completed"
      <3>1. Leave(ret \o Block, "returned")
        BY <1>2, <2>2 DEF Template
      <3>2. QED
        BY <2>1, <2>2, <3>1, LeaveStep
    <2>3. CASE ec = "buffer_is_full"
      <3>1. TakeAndGoOn
        BY <1>2, <2>3 DEF Template
      <3>2. QED
        BY <2>1, <2>3, <3>1, TakeStep
    <2>4. CASE ec = "illegal_char_in_string"
      <3>1. Leave(ret \o Block, "thrown")
        BY <1>2, <2>4 DEF Template
      <3>2. QED
        BY <2>1, <2>4, <3>1, LeaveStep
    <2>5. QED
      BY <1>1, <2>1, <2>2, <2>3, <2>4 DEF serializer_error_codes
  <1>3. CASE Container
    <2>1. HasResult /\ overload = "container"
      BY <1>3 DEF Container
    <2>2. CASE ec = "completed"
      <3>1. Leave(ret, "returned")
        BY <1>3, <2>2 DEF Container
      <3>2. QED
        BY <2>1, <2>2, <3>1, LeaveStep
    <2>3. CASE ec # "completed"
      <3>1. TakeAndGoOn
        BY <1>3, <2>3 DEF Container
      <3>2. QED
        BY <2>1, <2>3, <3>1, TakeStep
    <2>4. QED
      BY <2>2, <2>3
  <1>4. CASE UNCHANGED functionVars
    <2>1. /\ UNCHANGED serializerVars /\ UNCHANGED arguments /\ UNCHANGED <<ret, outcome>>
      BY <1>4 DEF functionVars
    <2>2. UNCHANGED <<m_range_to_write, m_contexts, m_pretty_print, root, ec, room, out,
                      overload, buffer_size>>
      BY <2>1 DEF serializerVars, members, arguments
    <2>3. /\ Document' = Document /\ EndLength' = EndLength
          /\ IsWritable(Document)' = IsWritable(Document) /\ LastStart' = LastStart
          /\ Start' = Start /\ Started' = Started
      BY <2>2, SameDocument DEF EndLength, IsWritable, LastStart, Start, Started
    <2>4. Faithful' = Faithful
      BY <2>1, <2>3, SameFaith
    <2>5. Inv' /\ (DocumentInv => DocumentInv')
      BY <2>1, NextInv, NextDocument DEF FunctionInv
    <2>6. BlocksAreTaken' = BlocksAreTaken /\ ReturnsBlocks' = ReturnsBlocks
      BY <2>1, <2>2, <2>3, <2>4 DEF BlocksAreTaken, ReturnsBlocks
    <2>7. QED
      BY <2>1, <2>2, <2>3, <2>4, <2>5, <2>6 DEF FunctionInv
  <1>5. QED
    BY <1>2, <1>3, <1>4, FirstCallStep, WriteStep DEF FunctionNext

LEMMA FunctionInvariance == FunctionSpec => []FunctionInv
  BY FunctionInvInit, FunctionInvNext, PTL DEF FunctionSpec

\* Whatever the container and the size of the buffer, to_string returns the
\* document up to the end of the block in which its end begins - or, for a
\* container, to the start of that block -, and throws only for a document
\* that cannot be written.
THEOREM FunctionReturnsBlocks == FunctionSpec => []ReturnsBlocks
  <1>1. FunctionInv => ReturnsBlocks
    BY DEF FunctionInv, ReturnsBlocks
  <1>2. QED
    BY <1>1, FunctionInvariance, PTL
-----------------------------------------------------------------------------
(* A client that takes its document block by block.                        *)

\* What a container is closed with is no shorter than the end of the document.
LEMMA EndingLength ==
    ASSUME NEW terminator, NEW pretty \in BOOLEAN
    PROVE  Len(Ending(terminator, 1, pretty)) = IF pretty THEN 3 ELSE 2
  <1> DEFINE nl == LineBreak(pretty)
             tabs == Indent(1 - 1, pretty)
  <1>1. Ending(terminator, 1, pretty) = nl \o tabs \o <<terminator>> \o <<Newline>>
    BY DEF Ending
  <1>2. IsSequence(tabs) /\ Len(tabs) = 0
    <2>1. tabs = <<>>
      BY DEF Indent
    <2>2. QED
      BY <2>1, ShortTexts, EmptySeq
  <1>3. IsSequence(nl) /\ Len(nl) = IF pretty THEN 1 ELSE 0
    BY ShortTexts DEF LineBreak
  <1>4. /\ IsSequence(<<terminator>>) /\ Len(<<terminator>>) = 1
        /\ IsSequence(<<Newline>>) /\ Len(<<Newline>>) = 1
    BY ShortTexts
  <1> HIDE DEF nl, tabs
  <1>5. IsSequence(nl \o tabs) /\ Len(nl \o tabs) = Len(nl)
    BY <1>2, <1>3, Concatenation
  <1>6. /\ IsSequence((nl \o tabs) \o <<terminator>>)
        /\ Len((nl \o tabs) \o <<terminator>>) = Len(nl) + 1
    BY <1>4, <1>5, Concatenation
  <1>7. Len(((nl \o tabs) \o <<terminator>>) \o <<Newline>>) = (Len(nl) + 1) + 1
    BY <1>4, <1>6, Concatenation
  <1>8. Len(Ending(terminator, 1, pretty)) = (Len(nl) + 1) + 1
    BY <1>1, <1>7
  <1>9. CASE pretty
    <2>1. Len(nl) = 1
      BY <1>3, <1>9
    <2>2. (IF pretty THEN 3 ELSE 2) = 3
      BY <1>9, Zenon
    <2>3. QED
      BY <1>8, <2>1, <2>2
  <1>10. CASE ~pretty
    <2>1. Len(nl) = 0
      BY <1>3, <1>10
    <2>2. QED
      BY <1>8, <1>10, <2>1
  <1>11. QED
    BY <1>9, <1>10

\* As long as the end of the document waits to be written, all of it is still
\* to come.
LEMMA EndIsToCome ==
    ASSUME DocumentInv, ec # "illegal_char_in_string",
           m_contexts = <<>> => Len(m_range_to_write) = EndLength
    PROVE  /\ IsSequence(Document) /\ Len(out) + EndLength <= Len(Document)
           /\ SubSeq(Document, 1, Len(out)) = out
  <1> DEFINE n == Len(m_contexts)
             w == out \o m_range_to_write
  <1>1. PICK t : IsTable(t, m_contexts, m_pretty_print) /\ Document = w \o t[n]
    BY DEF DocumentInv, DocumentIsComing
  <1>2. /\ IsBlocks(m_contexts) /\ IsSequence(m_contexts) /\ n \in Nat
        /\ DOMAIN m_contexts = 1 .. n /\ m_pretty_print \in BOOLEAN
    BY SequenceIsFunction DEF DocumentInv, Inv, TypeOK, IsBlocks
  <1>3. /\ out \in Seq(Printed) /\ m_range_to_write \in Seq(Printed)
        /\ w \in Seq(Marked) /\ Len(w) = Len(out) + Len(m_range_to_write)
        /\ Len(out) \in Nat /\ Len(m_range_to_write) \in Nat
    BY Together, PrintedIsMarked, LenProperties DEF DocumentInv
  <1>4. \A i \in 0 .. n : t[i] \in Seq(Marked) /\ Len(t[i]) \in Nat
    BY <1>1, LenProperties DEF IsTable, IsMarked
  <1> DEFINE rest == t[n]
  <1>5. rest \in Seq(Marked) /\ Len(rest) \in Nat
    BY <1>2, <1>4
  <1>6. /\ IsSequence(Document) /\ SubSeq(Document, 1, Len(out)) = out
        /\ Len(Document) = (Len(out) + Len(m_range_to_write)) + Len(rest)
    <2> HIDE DEF w, rest
    <2>1. w \o rest \in Seq(Marked) /\ Len(w \o rest) = Len(w) + Len(rest)
      BY <1>3, <1>5, Together
    <2>2. Document = w \o rest
      BY <1>1 DEF rest
    <2>3. SubSeq(Document, 1, Len(out)) = out
      <3>1. IsSequence(out) /\ IsSequence(m_range_to_write) /\ IsSequence(rest) /\ IsSequence(w)
        BY <1>3, <1>5, SeqOfRange DEF IsSequence
      <3>2. SubSeq(w \o rest, 1, Len(out)) = SubSeq(w, 1, Len(out))
        BY <1>3, <3>1, SameBeginning
      <3>3. SubSeq(w, 1, Len(out)) = out
        BY <3>1, Concatenation DEF w
      <3>4. QED
        BY <2>2, <3>2, <3>3
    <2>4. QED
      BY <1>3, <2>1, <2>2, <2>3, SeqOfRange DEF IsSequence
  <1>7. ASSUME EndLength <= Len(m_range_to_write) \/ EndLength <= Len(rest)
        PROVE  Len(out) + EndLength <= Len(Document)
    <2> HIDE DEF rest
    <2>1. EndLength \in Nat
      BY DEF EndLength
    <2>2. QED
      BY <1>3, <1>5, <1>6, <1>7, <2>1
  <1>8. CASE m_contexts = <<>>
    <2>1. EndLength <= EndLength
      BY DEF EndLength
    <2>2. QED
      BY <1>6, <1>7, <1>8, <2>1
  <1>9. CASE m_contexts # <<>>
    <2> DEFINE T == {k \in Nat : k + 1 <= n => EndLength <= Len(t[k + 1])}
    <2>1. \A i \in 1 .. n : t[i] = ToClose(m_contexts[i], i, m_pretty_print) \o t[i - 1]
      BY <1>1 DEF IsTable
    <2>2. ASSUME NEW i \in 1 .. n
          PROVE  /\ Items(m_contexts[i], i, m_pretty_print) \in Seq(Marked)
                 /\ ToClose(m_contexts[i], i, m_pretty_print) \in Seq(Marked)
                 /\ IsBlock(m_contexts[i])
      BY <1>2, RemainingIsText, ToCloseIsText DEF IsBlocks
    <2>3. ASSUME NEW i \in 1 .. n
          PROVE  /\ Len(t[i]) = Len(ToClose(m_contexts[i], i, m_pretty_print)) + Len(t[i - 1])
                 /\ Len(ToClose(m_contexts[i], i, m_pretty_print)) \in Nat /\ Len(t[i - 1]) \in Nat
      <3> DEFINE close == ToClose(m_contexts[i], i, m_pretty_print)
      <3>1. i - 1 \in 0 .. n
        BY <1>2
      <3>2. close \in Seq(Marked) /\ t[i - 1] \in Seq(Marked) /\ t[i] = close \o t[i - 1]
        BY <1>4, <2>1, <2>2, <3>1
      <3> HIDE DEF close
      <3>3. Len(close \o t[i - 1]) = Len(close) + Len(t[i - 1])
        BY <3>2, Together
      <3>4. QED
        BY <3>2, <3>3, LenProperties DEF close
    <2>4. n \in Nat \ {0}
      BY <1>2, <1>9, EmptySeq
    <2>5. EndLength <= Len(t[1])
      <3> DEFINE items == Items(m_contexts[1], 1, m_pretty_print)
                 end == Ending(m_contexts[1].block_terminator, 1, m_pretty_print)
      <3>1. 1 \in 1 .. n /\ 1 \in Nat \ {0}
        BY <2>4
      <3>2. IsBlock(m_contexts[1]) /\ items \in Seq(Marked)
        BY <2>2, <3>1
      <3>3. end \in Seq(Marked)
        <4>1. m_contexts[1].block_terminator \in {end_object, end_array}
          BY <3>2 DEF IsBlock
        <4>2. end \in Seq(Printed)
          BY <1>2, <3>1, <4>1, EndingIsPrinted
        <4>3. QED
          BY <4>2, PrintedIsMarked
      <3>4. Len(end) = EndLength
        BY <1>2, EndingLength DEF EndLength
      <3>5. ToClose(m_contexts[1], 1, m_pretty_print) = items \o end
        BY DEF ToClose
      <3> HIDE DEF items, end
      <3>6. Len(items \o end) = Len(items) + Len(end) /\ Len(items) \in Nat
        BY <3>2, <3>3, Together, LenProperties
      <3>7. Len(end) \in Nat /\ 1 - 1 = 0
        BY <3>3, LenProperties
      <3>8. Len(t[1]) = Len(items \o end) + Len(t[0]) /\ Len(t[0]) \in Nat
        BY <2>3, <3>1, <3>5, <3>7
      <3>9. QED
        BY <3>4, <3>6, <3>7, <3>8
    <2>6. 0 \in T
      BY <2>5
    <2>7. ASSUME NEW k \in T PROVE k + 1 \in T
      <3>1. k \in Nat
        OBVIOUS
      <3>2. ASSUME (k + 1) + 1 <= n PROVE EndLength <= Len(t[(k + 1) + 1])
        <4>1. k + 1 <= n /\ EndLength <= Len(t[k + 1])
          BY <2>4, <3>1, <3>2
        <4>2. (k + 1) + 1 \in 1 .. n /\ ((k + 1) + 1) - 1 = k + 1 /\ k + 1 \in 0 .. n
          BY <2>4, <3>1, <3>2
        <4>3. Len(t[(k + 1) + 1]) >= Len(t[k + 1])
          <5> DEFINE i == (k + 1) + 1
          <5>1. i \in 1 .. n /\ i - 1 = k + 1
            BY <4>2
          <5> HIDE DEF i
          <5> DEFINE more == Len(ToClose(m_contexts[i], i, m_pretty_print))
          <5>2. Len(t[i]) = more + Len(t[i - 1]) /\ more \in Nat /\ Len(t[i - 1]) \in Nat
            BY <2>3, <5>1
          <5> HIDE DEF more
          <5>3. Len(t[i]) >= Len(t[i - 1])
            BY <5>2
          <5>4. QED
            BY <5>1, <5>3 DEF i
        <4>4. Len(t[(k + 1) + 1]) \in Nat /\ Len(t[k + 1]) \in Nat /\ EndLength \in Nat
          <5>1. (k + 1) + 1 \in 0 .. n
            BY <4>2
          <5>2. QED
            BY <1>4, <4>2, <5>1 DEF EndLength
        <4>5. QED
          BY <4>1, <4>3, <4>4
      <3>3. QED
        BY <3>1, <3>2
    <2>8. T = Nat
      <3>1. T \subseteq Nat
        OBVIOUS
      <3> HIDE DEF T
      <3>2. QED
        BY <2>6, <2>7, <3>1, Induction
    <2>9. n - 1 \in Nat /\ (n - 1) + 1 = n
      BY <2>4
    <2>10. n - 1 \in T
      BY <2>8, <2>9
    <2>11. EndLength <= Len(t[n])
      BY <2>9, <2>10
    <2>12. QED
      BY <1>6, <1>7, <2>11
  <1>10. QED
    BY <1>8, <1>9
=============================================================================
