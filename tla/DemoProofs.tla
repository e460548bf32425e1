----------------------------- MODULE DemoProofs -----------------------------
(***************************************************************************)
(* Proofs of the properties of DemoProps, for every input, every size of   *)
(* the buffers and any number of failing calls: what the parser delivers   *)
(* can be written, how much of it is, what is read, that the output is a   *)
(* copy of it, and that it reads back as what it was made of.              *)
(***************************************************************************)
EXTENDS DemoProps, LanguageProofs

-----------------------------------------------------------------------------
(* Values whose keys and strings can be written.                           *)

PlainChars == TextChars \ NoEscape

HasPlainParts(value, others) ==
    /\ value.type = "array" => value.items \in Seq(others)
    /\ value.type = "object" =>
          /\ IsFiniteSet(DOMAIN value.members)
          /\ \A key \in DOMAIN value.members :
                key \in Seq(PlainChars) /\ value.members[key] \in others
    /\ value.type = "string" => value.string \in Seq(PlainChars)
    /\ value.type \notin {"array", "object", "string"} =>
          \E literal \in DOMAIN Literals : value = Literals[literal]

IsClosed(values) == \A value \in values : HasPlainParts(value, values)

\* A value that can be written, with all that it holds.
IsPlain(value) == \E values : value \in values /\ IsClosed(values)

\* The characters a string or a key is made of can be written.
LEMMA PlainChar ==
    ASSUME NEW ch \in Chars
    PROVE  /\ ~char_should_be_escaped(ch) => ch \in PlainChars
           /\ unescape(ch) # nullopt => unescape(ch) \in PlainChars
  <1>1. ~char_should_be_escaped(ch) => ch \in PlainChars
    BY DEF char_should_be_escaped, PlainChars, TextChars, NoEscape
  <1>2. ASSUME unescape(ch) # nullopt PROVE unescape(ch) \in PlainChars
    <2>1. ch \in DOMAIN EscChars /\ unescape(ch) = EscChars[ch]
      BY <1>2 DEF unescape
    <2>2. EscChars[ch] \in TextChars
      BY <2>1 DEF TextChars
    <2>3. EscChars[ch] \in {"\n", "\t", "\"", "\\"}
      <3>1. ch \in {"\"", "\\", "n", "t"}
        BY <2>1 DEF EscChars
      <3>2. EscChars[ch] = CASE ch = "n" -> "\n" [] ch = "t" -> "\t" [] OTHER -> ch
        BY <3>1 DEF EscChars
      <3>3. CASE ch = "n"
        <4>1. EscChars[ch] = "\n"
          BY <3>2, <3>3, Zenon
        <4>2. QED
          BY <4>1
      <3>4. CASE ch = "t"
        <4>1. ch # "n"
          BY <3>4
        <4>2. EscChars[ch] = "\t"
          BY <3>2, <3>4, <4>1, Zenon
        <4>3. QED
          BY <4>2
      <3>5. CASE ch # "n" /\ ch # "t"
        <4>1. EscChars[ch] = ch
          BY <3>2, <3>5, Zenon
        <4>2. QED
          BY <3>1, <3>5, <4>1
      <3>6. QED
        BY <3>3, <3>4, <3>5
    <2>4. QED
      BY <2>1, <2>2, <2>3 DEF PlainChars, NoEscape
  <1>3. QED
    BY <1>1, <1>2

\* And so can the text put together from them.
LEMMA PlainText ==
    ASSUME NEW s \in Seq(PlainChars)
    PROVE  wrap_string(s) # nullopt /\ wrap_string(s) \in Seq(STRING)
  <1>1. PlainChars \subseteq STRING
    BY TextCharsAssumption, CodeAssumption DEF PlainChars
  <1>2. s \in Seq(STRING) /\ STRING \in SUBSET STRING
    BY <1>1, SeqMonotonic
  <1>3. {"\"", "\\", "n", "t"} \subseteq STRING
    BY FormatCharsAssumption DEF FormatChars, string_begin_end, begin_esc_seq
  <1>4. \A i \in DOMAIN s : s[i] \notin NoEscape
    <2>1. \A i \in 1 .. Len(s) : s[i] \in PlainChars
      BY ElementOfSeq
    <2>2. QED
      BY <2>1, LenProperties DEF PlainChars
  <1>5. QED
    BY <1>2, <1>3, <1>4, WrappedString

\* What the parts of a value are.
LEMMA PlainParts ==
    ASSUME NEW value, IsPlain(value)
    PROVE  /\ value.type = "array" =>
                /\ IsSequence(value.items)
                /\ \A i \in 1 .. Len(value.items) : IsPlain(value.items[i])
           /\ value.type = "object" =>
                /\ IsFiniteSet(DOMAIN value.members)
                /\ \A key \in DOMAIN value.members :
                      key \in Seq(PlainChars) /\ IsPlain(value.members[key])
           /\ value.type = "string" => value.string \in Seq(PlainChars)
           /\ value.type \notin {"array", "object", "string"} =>
                \E literal \in DOMAIN Literals : value = Literals[literal]
  <1>1. PICK values : value \in values /\ IsClosed(values)
    BY DEF IsPlain
  <1>2. HasPlainParts(value, values)
    BY <1>1 DEF IsClosed
  <1>3. \A other \in values : IsPlain(other)
    BY <1>1 DEF IsPlain
  <1>4. ASSUME value.type = "array"
        PROVE  /\ IsSequence(value.items)
               /\ \A i \in 1 .. Len(value.items) : IsPlain(value.items[i])
    <2>1. value.items \in Seq(values)
      BY <1>2, <1>4 DEF HasPlainParts
    <2>2. IsSequence(value.items)
      BY <2>1, SeqOfRange DEF IsSequence
    <2>3. \A i \in 1 .. Len(value.items) : value.items[i] \in values
      BY <2>1, ElementOfSeq
    <2>4. QED
      BY <1>3, <2>2, <2>3
  <1>5. QED
    BY <1>2, <1>3, <1>4 DEF HasPlainParts

\* A value made of values that can be written is one of them.
LEMMA PlainMore ==
    ASSUME NEW values, IsClosed(values), NEW value, HasPlainParts(value, values)
    PROVE  IsPlain(value)
  <1> DEFINE more == values \cup {value}
  <1>1. \A s \in Seq(values) : s \in Seq(more)
    BY SeqMonotonic
  <1>2. \A other : HasPlainParts(other, values) => HasPlainParts(other, more)
    BY <1>1 DEF HasPlainParts
  <1> HIDE DEF HasPlainParts
  <1>3. IsClosed(more)
    BY <1>2 DEF IsClosed
  <1>4. QED
    BY <1>3 DEF IsPlain

LEMMA PlainTogether ==
    ASSUME NEW v, IsPlain(v), NEW w, IsPlain(w)
    PROVE  \E values : IsClosed(values) /\ v \in values /\ w \in values
  <1>1. PICK P : v \in P /\ IsClosed(P)
    BY DEF IsPlain
  <1>2. PICK Q : w \in Q /\ IsClosed(Q)
    BY DEF IsPlain
  <1> DEFINE U == P \cup Q
  <1>3. \A s : s \in Seq(P) \/ s \in Seq(Q) => s \in Seq(U)
    BY SeqMonotonic
  <1>4. \A x : HasPlainParts(x, P) \/ HasPlainParts(x, Q) => HasPlainParts(x, U)
    BY <1>3 DEF HasPlainParts
  <1>5. IsClosed(U)
    BY <1>1, <1>2, <1>4 DEF IsClosed
  <1>6. QED
    BY <1>1, <1>2, <1>5

\* Strings, literals and new containers.
LEMMA PlainLeaves ==
    /\ IsPlain(Array(<<>>)) /\ IsPlain(Object(<<>>))
    /\ \A s \in Seq(PlainChars) : IsPlain(String(s))
    /\ \A literal \in DOMAIN Literals : IsPlain(Literals[literal])
  <1>1. IsClosed({})
    BY DEF IsClosed
  <1>2. IsPlain(Array(<<>>))
    <2>1. HasPlainParts(Array(<<>>), {})
      BY EmptySeq DEF HasPlainParts, Array
    <2>2. QED
      BY <1>1, <2>1, PlainMore
  <1>3. IsPlain(Object(<<>>))
    <2>1. HasPlainParts(Object(<<>>), {})
      <3>1. DOMAIN <<>> = {}
        OBVIOUS
      <3>2. QED
        BY <3>1, FS_EmptySet DEF HasPlainParts, Object
    <2>2. QED
      BY <1>1, <2>1, PlainMore
  <1>4. ASSUME NEW s \in Seq(PlainChars) PROVE IsPlain(String(s))
    <2>1. HasPlainParts(String(s), {})
      BY DEF HasPlainParts, String
    <2>2. QED
      BY <1>1, <2>1, PlainMore
  <1>5. ASSUME NEW literal \in DOMAIN Literals PROVE IsPlain(Literals[literal])
    <2>1. HasPlainParts(Literals[literal], {})
      BY LiteralsAssumption DEF HasPlainParts
    <2>2. QED
      BY <1>1, <2>1, PlainMore
  <1>6. QED
    BY <1>2, <1>3, <1>4, <1>5

\* A container that is stored into.
LEMMA PlainStored ==
    ASSUME NEW parent, IsPlain(parent), parent.type \in ContainerTypes,
           NEW value, IsPlain(value), NEW key \in Seq(PlainChars)
    PROVE  IsPlain(store_value(parent, key, value).parent)
  <1>1. PICK values : IsClosed(values) /\ parent \in values /\ value \in values
    BY PlainTogether
  <1>2. HasPlainParts(parent, values)
    BY <1>1 DEF IsClosed
  <1>3. CASE parent.type = "array"
    <2>1. parent.items \in Seq(values)
      BY <1>2, <1>3 DEF HasPlainParts
    <2>2. Append(parent.items, value) \in Seq(values)
      BY <1>1, <2>1, AppendProperties
    <2>3. HasPlainParts(Array(Append(parent.items, value)), values)
      BY <2>2 DEF HasPlainParts, Array
    <2>4. store_value(parent, key, value).parent = Array(Append(parent.items, value))
      BY <1>3 DEF store_value, push_back
    <2>5. QED
      BY <1>1, <2>3, <2>4, PlainMore
  <1>4. CASE parent.type = "object"
    <2> DEFINE old == parent.members
               new == [k \in DOMAIN old \cup {key} |-> IF k = key THEN value ELSE old[k]]
    <2>1. /\ IsFiniteSet(DOMAIN old)
          /\ \A k \in DOMAIN old : k \in Seq(PlainChars) /\ old[k] \in values
      BY <1>2, <1>4 DEF HasPlainParts
    <2>2. IsFiniteSet(DOMAIN old \cup {key})
      BY <2>1, FS_AddElement
    <2>3. \A k \in DOMAIN old \cup {key} : k \in Seq(PlainChars) /\ new[k] \in values
      BY <1>1, <2>1
    <2>4. DOMAIN new = DOMAIN old \cup {key}
      OBVIOUS
    <2>5. CASE key \in DOMAIN old
      <3>1. store_value(parent, key, value).parent = parent
        BY <1>4, <2>5 DEF store_value, insert
      <3>2. QED
        BY <3>1
    <2>6. CASE key \notin DOMAIN old
      <3>1. store_value(parent, key, value).parent = Object(new)
        BY <1>4, <2>6 DEF store_value, insert
      <3> HIDE DEF old, new
      <3>2. HasPlainParts(Object(new), values)
        BY <2>2, <2>3, <2>4 DEF HasPlainParts, Object
      <3>3. QED
        BY <1>1, <3>1, <3>2, PlainMore
    <2>7. QED
      BY <2>5, <2>6
  <1>5. QED
    BY <1>3, <1>4 DEF ContainerTypes

-----------------------------------------------------------------------------
(* The parser holds nothing that cannot be written.                        *)

IsPlainContext(context) == context.key \in Seq(PlainChars) /\ IsPlain(context.value)

PlainContexts(s) == \A i \in 1 .. Len(s) : IsPlainContext(s[i])

\* Only a literal may have other characters, and none that is stored.
ParserIsPlain ==
    /\ PlainContexts(m_contexts)
    /\ m_current_state # "literal" => m_buffer \in Seq(PlainChars)
    /\ IsPlain(root)

LEMMA PlainPush ==
    ASSUME NEW s, IsStack(s), PlainContexts(s), NEW container, IsPlain(container)
    PROVE  PlainContexts(Append(s, [key |-> <<>>, value |-> container]))
  <1> DEFINE c == [key |-> <<>>, value |-> container]
  <1>1. IsPlainContext(c)
    BY EmptySeq DEF IsPlainContext
  <1> HIDE DEF c
  <1>2. /\ Len(Append(s, c)) = Len(s) + 1 /\ Len(s) \in Nat
        /\ \A i \in 1 .. Len(s) : Append(s, c)[i] = s[i]
        /\ Append(s, c)[Len(s) + 1] = c
    BY Push, SequenceIsFunction DEF IsStack
  <1>3. \A i \in 1 .. Len(s) + 1 : i \in 1 .. Len(s) \/ i = Len(s) + 1
    BY <1>2
  <1>4. QED
    BY <1>1, <1>2, <1>3 DEF PlainContexts, c

LEMMA PlainPop ==
    ASSUME NEW s, IsStack(s), s # <<>>, PlainContexts(s)
    PROVE  /\ PlainContexts(Front(s))
           /\ IsPlain(Last(s).value)
  <1>1. /\ Len(Front(s)) = Len(s) - 1 /\ Len(s) \in 1 .. Len(s) /\ Len(s) \in Nat
        /\ \A i \in 1 .. Len(s) - 1 : Front(s)[i] = s[i]
    BY Pop, SequenceIsFunction DEF IsStack
  <1>2. QED
    BY <1>1 DEF PlainContexts, IsPlainContext, Last

LEMMA PlainSetTop ==
    ASSUME NEW s, IsStack(s), s # <<>>, PlainContexts(s), NEW c, IsPlainContext(c)
    PROVE  PlainContexts(SetTop(s, c))
  <1>1. /\ Len(SetTop(s, c)) = Len(s) /\ Len(s) \in Nat
        /\ \A i \in 1 .. Len(s) - 1 : SetTop(s, c)[i] = s[i]
        /\ SetTop(s, c)[Len(s)] = c
    BY ReplaceTop, SequenceIsFunction DEF IsStack
  <1>2. \A i \in 1 .. Len(s) : i \in 1 .. Len(s) - 1 \/ i = Len(s)
    BY <1>1
  <1>3. QED
    BY <1>1, <1>2 DEF PlainContexts

LEMMA PlainStoreInTop ==
    ASSUME NEW s, IsStack(s), s # <<>>, PlainContexts(s), NEW value, IsPlain(value)
    PROVE  PlainContexts(Stored(s, value))
  <1> DEFINE parent == StoreIn(s, value).parent
             c == [key |-> <<>>, value |-> parent]
  <1>1. Len(s) \in 1 .. Len(s) /\ Last(s) = s[Len(s)] /\ IsContext(Last(s))
    BY SequenceIsFunction DEF IsStack, Last
  <1>2. /\ Last(s).key \in Seq(PlainChars) /\ IsPlain(Last(s).value)
        /\ Last(s).value.type \in ContainerTypes
    BY <1>1 DEF PlainContexts, IsPlainContext, IsContext
  <1>3. IsPlain(parent)
    BY <1>2, PlainStored DEF StoreIn
  <1>4. IsPlainContext(c)
    BY <1>3, EmptySeq DEF IsPlainContext
  <1>5. Stored(s, value) = SetTop(s, c)
    BY DEF Stored, SetTop
  <1> HIDE DEF c
  <1>6. QED
    BY <1>4, <1>5, PlainSetTop

LEMMA PlainKey ==
    ASSUME NEW s, IsStack(s), s # <<>>, PlainContexts(s), NEW key \in Seq(PlainChars)
    PROVE  PlainContexts([s EXCEPT ![Len(s)].key = key])
  <1> DEFINE c == [s[Len(s)] EXCEPT !.key = key]
  <1>1. Len(s) \in 1 .. Len(s) /\ IsContext(s[Len(s)]) /\ IsPlainContext(s[Len(s)])
    BY SequenceIsFunction DEF IsStack, PlainContexts
  <1>2. c = [key |-> key, value |-> s[Len(s)].value]
    BY <1>1 DEF IsContext
  <1>3. IsPlainContext(c)
    BY <1>1, <1>2 DEF IsPlainContext
  <1>4. [s EXCEPT ![Len(s)].key = key] = SetTop(s, c)
    BY DEF SetTop
  <1>5. PlainContexts(SetTop(s, c))
    BY <1>3, PlainSetTop
  <1>6. QED
    BY <1>4, <1>5

\* The leaf that is stored, be it refused or not.
LEMMA PlainStoreLeaf ==
    ASSUME Core, ParserIsPlain, m_contexts # <<>>, NEW ch, NEW value, IsPlain(value), NEW done,
           StoreLeaf(ch, value, done)
    PROVE  ParserIsPlain'
  <1>1. PlainContexts(m_contexts)'
    <2>1. m_contexts' = Stored(m_contexts, value) /\ IsStack(m_contexts)
      BY DEF StoreLeaf, Core, TypeOK
    <2>2. QED
      BY <2>1, PlainStoreInTop DEF ParserIsPlain, PlainContexts, IsPlainContext
  <1>2. root' = root
    BY DEF StoreLeaf
  <1>3. UNCHANGED <<m_current_state, m_buffer>> \/ m_buffer' = <<>>
    BY DEF StoreLeaf, MoveOn
  <1>4. QED
    BY <1>1, <1>2, <1>3, EmptySeq DEF ParserIsPlain

\* An iteration that stores nothing and opens nothing.
LEMMA PlainQuietStep ==
    ASSUME ParserIsPlain, UNCHANGED <<m_contexts, root>>,
           m_current_state' # "literal" => m_buffer' \in Seq(PlainChars)
    PROVE  ParserIsPlain'
  BY DEF ParserIsPlain, PlainContexts

LEMMA PlainFail ==
    ASSUME ParserIsPlain, NEW ch, NEW code, Fail(ch, code)
    PROVE  ParserIsPlain'
  BY PlainQuietStep DEF ParserIsPlain, Fail

LEMMA PlainGoto ==
    ASSUME ParserIsPlain, m_current_state # "literal", NEW state, Goto(state)
    PROVE  ParserIsPlain'
  BY PlainQuietStep DEF ParserIsPlain, Goto

LEMMA PlainSkip ==
    ASSUME ParserIsPlain, NEW ch, NEW code, m_current_state # "literal",
           SkipWhitespaceElse(ch, code)
    PROVE  ParserIsPlain'
  BY PlainGoto, PlainFail DEF SkipWhitespaceElse, Skip

LEMMA PlainCollect ==
    ASSUME ParserIsPlain, NEW c, NEW state, Collect(c, state),
           state = "literal" \/ (m_current_state # "literal" /\ c \in PlainChars)
    PROVE  ParserIsPlain'
  <1>1. m_current_state # "literal" /\ c \in PlainChars => Append(m_buffer, c) \in Seq(PlainChars)
    BY AppendProperties DEF ParserIsPlain
  <1>2. QED
    BY <1>1, PlainQuietStep DEF Collect

\* The end of a container: of the root or of another.
LEMMA PlainClose ==
    ASSUME Core, ParserIsPlain, m_contexts # <<>>, UNCHANGED m_buffer,
           m_current_state # "literal",
           \/ root' = Last(m_contexts).value /\ m_contexts' = <<>>
           \/ /\ Len(m_contexts) > 1 /\ root' = root
              /\ m_contexts' = Stored(Front(m_contexts), Last(m_contexts).value)
    PROVE  ParserIsPlain'
  <1>1. IsStack(m_contexts) /\ PlainContexts(m_contexts)
    BY DEF Core, TypeOK, ParserIsPlain
  <1>2. /\ IsPlain(Last(m_contexts).value) /\ PlainContexts(Front(m_contexts))
        /\ IsStack(Front(m_contexts)) /\ Len(Front(m_contexts)) = Len(m_contexts) - 1
    BY <1>1, PlainPop, PopStack
  <1>3. m_buffer' \in Seq(PlainChars)
    BY DEF ParserIsPlain
  <1>4. CASE root' = Last(m_contexts).value /\ m_contexts' = <<>>
    BY <1>2, <1>3, <1>4, EmptySeq DEF ParserIsPlain, PlainContexts
  <1>5. CASE /\ Len(m_contexts) > 1 /\ root' = root
             /\ m_contexts' = Stored(Front(m_contexts), Last(m_contexts).value)
    <2>1. Front(m_contexts) # <<>>
      BY <1>2, <1>5, EmptySeq
    <2>2. PlainContexts(m_contexts')
      BY <1>2, <1>5, <2>1, PlainStoreInTop
    <2>3. QED
      BY <1>3, <1>5, <2>2 DEF ParserIsPlain, PlainContexts
  <1>6. QED
    BY <1>4, <1>5

LEMMA PlainOpen ==
    ASSUME Core, ParserIsPlain, m_current_state = "value", NEW ch, NEW container, NEW state,
           IsPlain(container), Open(ch, container, state)
    PROVE  ParserIsPlain'
  <1>1. CASE Fail(ch, "nesting_level_too_deep")
    BY <1>1, PlainFail
  <1>2. CASE /\ m_contexts' = Append(m_contexts, [key |-> <<>>, value |-> container])
             /\ UNCHANGED <<m_buffer, root>>
    <2>1. PlainContexts(m_contexts')
      BY <1>2, PlainPush DEF Core, TypeOK, ParserIsPlain
    <2>2. QED
      BY <1>2, <2>1 DEF ParserIsPlain, PlainContexts
  <1>3. QED
    BY <1>1, <1>2 DEF Open

\* The states one by one.
LEMMA PlainValue ==
    ASSUME Core, ParserIsPlain, NEW ch \in Chars, Value(ch)
    PROVE  ParserIsPlain'
  <1>1. m_current_state = "value" /\ m_current_state # "literal"
    BY DEF Value
  <1>2. ASSUME NEW c, Collect(c, "literal") PROVE ParserIsPlain'
    BY <1>2, PlainCollect
  <1>3. CASE \E state : Goto(state)
    BY <1>1, <1>3, PlainGoto
  <1>4. CASE \E code : Fail(ch, code)
    BY <1>4, PlainFail
  <1>5. CASE Open(ch, Array(<<>>), "value") \/ Open(ch, Object(<<>>), "before_key")
    BY <1>1, <1>5, PlainLeaves, PlainOpen
  <1>6. QED
    BY <1>2, <1>3, <1>4, <1>5 DEF Value, Reread, InContainer, Skip

LEMMA PlainLiteral ==
    ASSUME Core, ParserIsPlain, NEW ch \in Chars, Literal(ch),
           m_contexts = <<>> => ~UsesTop(ch)
    PROVE  ParserIsPlain'
  <1>1. CASE Collect(ch, "literal")
    BY <1>1, PlainCollect
  <1>2. CASE EndsLiteral(ch)
    <2>1. m_contexts # <<>>
      BY <1>2 DEF UsesTop, Literal
    <2>2. CASE Fail(ch, "invalid_value")
      BY <2>2, PlainFail
    <2>3. ASSUME make_value(m_buffer) # nullopt PROVE IsPlain(make_value(m_buffer))
      BY <2>3, PlainLeaves DEF make_value
    <2>4. CASE make_value(m_buffer) # nullopt
      BY <1>2, <2>1, <2>3, <2>4, PlainStoreLeaf, PlainCollect DEF Literal
    <2>5. QED
      BY <1>2, <2>2, <2>4 DEF Literal
  <1>3. QED
    BY <1>1, <1>2 DEF Literal

LEMMA PlainStringValue ==
    ASSUME Core, ParserIsPlain, NEW ch \in Chars, StringValue(ch),
           m_contexts = <<>> => ~UsesTop(ch)
    PROVE  ParserIsPlain'
  <1>1. m_current_state = "string_value" /\ m_current_state # "literal"
    BY DEF StringValue
  <1>2. CASE ch = string_begin_end
    <2>1. m_contexts # <<>> /\ IsPlain(String(m_buffer))
      BY <1>1, <1>2, PlainLeaves DEF UsesTop, ParserIsPlain
    <2>2. StoreLeaf(ch, String(m_buffer), Consume(ch))
      BY <1>2 DEF StringValue, string_begin_end, begin_esc_seq
    <2>3. QED
      BY <2>1, <2>2, PlainStoreLeaf
  <1>3. CASE Goto("string_value_esc_seq")
    BY <1>1, <1>3, PlainGoto
  <1>4. CASE Fail(ch, "character_must_be_escaped")
    BY <1>4, PlainFail
  <1>5. CASE ~char_should_be_escaped(ch) /\ Collect(ch, "string_value")
    BY <1>1, <1>5, PlainChar, PlainCollect
  <1>6. QED
    BY <1>2, <1>3, <1>4, <1>5 DEF StringValue

LEMMA PlainKeyState ==
    ASSUME Core, ParserIsPlain, NEW ch \in Chars, Key(ch),
           m_contexts = <<>> => ~UsesTop(ch)
    PROVE  ParserIsPlain'
  <1>1. m_current_state = "key" /\ m_current_state # "literal"
    BY DEF Key
  <1>2. CASE ch = string_begin_end
    <2>1. m_contexts # <<>> /\ m_buffer \in Seq(PlainChars)
      BY <1>1, <1>2 DEF UsesTop, ParserIsPlain
    <2>2. /\ m_contexts' = [m_contexts EXCEPT ![Len(m_contexts)].key = m_buffer]
          /\ m_buffer' = <<>> /\ root' = root
      BY <1>2 DEF Key, MoveOn, string_begin_end, begin_esc_seq
    <2>3. PlainContexts(m_contexts')
      BY <2>1, <2>2, PlainKey DEF Core, TypeOK, ParserIsPlain
    <2>4. QED
      BY <2>2, <2>3, EmptySeq DEF ParserIsPlain, PlainContexts
  <1>3. CASE Goto("key_esc_seq")
    BY <1>1, <1>3, PlainGoto
  <1>4. CASE Fail(ch, "character_must_be_escaped")
    BY <1>4, PlainFail
  <1>5. CASE ~char_should_be_escaped(ch) /\ Collect(ch, "key")
    BY <1>1, <1>5, PlainChar, PlainCollect
  <1>6. QED
    BY <1>2, <1>3, <1>4, <1>5 DEF Key

LEMMA PlainEscSeq ==
    ASSUME ParserIsPlain, NEW ch \in Chars, StringValueEscSeq(ch) \/ KeyEscSeq(ch)
    PROVE  ParserIsPlain'
  <1>1. m_current_state # "literal"
    BY DEF StringValueEscSeq, KeyEscSeq
  <1>2. CASE unescape(ch) = nullopt
    BY <1>2, PlainFail DEF StringValueEscSeq, KeyEscSeq
  <1>3. CASE unescape(ch) # nullopt
    <2>1. unescape(ch) \in PlainChars
      BY <1>3, PlainChar
    <2>2. \E state : Collect(unescape(ch), state)
      BY <1>3 DEF StringValueEscSeq, KeyEscSeq
    <2>3. QED
      BY <1>1, <2>1, <2>2, PlainCollect
  <1>4. QED
    BY <1>2, <1>3

LEMMA PlainBetween ==
    ASSUME ParserIsPlain, NEW ch \in Chars, BeforeKey(ch) \/ BeforeValue(ch)
    PROVE  ParserIsPlain'
  <1>1. m_current_state # "literal"
    BY DEF BeforeKey, BeforeValue
  <1>2. CASE \E state : Goto(state)
    BY <1>1, <1>2, PlainGoto
  <1>3. CASE \E code : SkipWhitespaceElse(ch, code)
    BY <1>1, <1>3, PlainSkip
  <1>4. QED
    BY <1>2, <1>3 DEF BeforeKey, BeforeValue, Reread

LEMMA PlainAfterValue ==
    ASSUME Core, ParserIsPlain, NEW ch \in Chars, m_contexts = <<>> => ~UsesTop(ch),
           AfterValueObject(ch) \/ AfterValueArray(ch)
    PROVE  ParserIsPlain'
  <1>1. m_current_state # "literal"
    BY DEF AfterValueObject, AfterValueArray
  <1>2. CASE Goto("before_key") \/ Goto("value")
    BY <1>1, <1>2, PlainGoto
  <1>3. CASE SkipWhitespaceElse(ch, "illegal_delimiter")
    BY <1>1, <1>3, PlainSkip
  <1>4. CASE /\ CloseRoot(ch) \/ EndObject(ch) \/ EndArray(ch)
             /\ UsesTop(ch)
    <2>1. m_contexts # <<>> /\ UNCHANGED m_buffer
      BY <1>4 DEF CloseRoot, EndObject, EndArray
    <2>2. \/ root' = Last(m_contexts).value /\ m_contexts' = <<>>
          \/ /\ Len(m_contexts) > 1 /\ root' = root
             /\ m_contexts' = Stored(Front(m_contexts), Last(m_contexts).value)
      BY <1>4 DEF CloseRoot, EndObject, EndArray
    <2>3. QED
      BY <1>1, <2>1, <2>2, PlainClose
  <1>5. QED
    BY <1>2, <1>3, <1>4 DEF AfterValueObject, AfterValueArray, UsesTop

LEMMA PlainIteration ==
    ASSUME Core, ParserIsPlain, NEW ch \in Chars, Iteration(ch)
    PROVE  ParserIsPlain'
  <1>1. CASE TopOfEmptyStack(ch)
    BY <1>1, PlainFail DEF TopOfEmptyStack
  <1>2. CASE m_contexts = <<>> => ~UsesTop(ch)
    BY <1>2, PlainValue, PlainLiteral, PlainStringValue, PlainKeyState, PlainEscSeq,
       PlainBetween, PlainAfterValue DEF Iteration
  <1>3. QED
    BY <1>1, <1>2 DEF Iteration

-----------------------------------------------------------------------------
(* The serializer meets nothing that cannot be written.                    *)

IsPlainElement(element) == element.key \in Seq(PlainChars) /\ IsPlain(element.value)

IsPlainBlock(context) ==
    /\ context = [range            |-> context.range,
                  block_starter    |-> context.block_starter,
                  block_terminator |-> context.block_terminator,
                  first_item       |-> context.first_item]
    /\ IsSequence(context.range)
    /\ \A i \in 1 .. Len(context.range) : IsPlainElement(context.range[i])

\* The operators of the serializer are those of the modules they come from.
LEMMA SameOperators ==
    /\ \A s : S!wrap_string(s) = wrap_string(s)
    /\ \A keys : S!InOrder(keys) = InOrder(keys)
    /\ \A s : S!Last(s) = Last(s) /\ S!Front(s) = Front(s)
    /\ \A value : S!to_string(value) = to_string(value)
    /\ S!ContainerTypes = ContainerTypes
  <1>1. \A s : S!wrap_string(s) = wrap_string(s)
    BY DEF S!wrap_string, wrap_string, S!escape, escape, S!FlattenSeq, FlattenSeq,
       S!char_should_be_escaped, char_should_be_escaped, S!get_escape_char, get_escape_char,
       S!string_begin_end, string_begin_end, S!begin_esc_seq, begin_esc_seq
  <1>2. \A keys : S!InOrder(keys) = InOrder(keys)
    BY DEF S!InOrder, InOrder, S!Less, Less, S!Cardinality, Cardinality,
       S!IsFiniteSet, IsFiniteSet
  <1>3. \A s : S!Last(s) = Last(s) /\ S!Front(s) = Front(s)
    BY DEF S!Last, Last, S!Front, Front
  <1>4. \A value : S!to_string(value) = to_string(value)
    BY DEF S!to_string, to_string
  <1>5. S!ContainerTypes = ContainerTypes
    BY DEF S!ContainerTypes, ContainerTypes
  <1>6. QED
    BY <1>1, <1>2, <1>3, <1>4, <1>5

\* The elements of a container are plain if it is.
LEMMA PlainElements ==
    ASSUME NEW value, IsPlain(value), value.type \in ContainerTypes
    PROVE  /\ IsSequence(S!Elements(value))
           /\ \A i \in 1 .. Len(S!Elements(value)) : IsPlainElement(S!Elements(value)[i])
  <1> DEFINE e == S!Elements(value)
  <1>1. CASE value.type = "array"
    <2> DEFINE n == Len(value.items)
    <2>1. /\ n \in Nat /\ DOMAIN value.items = 1 .. n
          /\ \A i \in 1 .. n : IsPlain(value.items[i])
      BY <1>1, PlainParts, SequenceIsFunction
    <2> HIDE DEF n
    <2>2. e = [i \in 1 .. n |-> [key |-> <<>>, value |-> value.items[i]]]
      BY <1>1, <2>1 DEF S!Elements
    <2>3. \A i \in 1 .. n : e[i].key = <<>> /\ e[i].value = value.items[i]
      BY <2>2
    <2>4. e = [i \in 1 .. n |-> e[i]]
      BY <2>2
    <2> HIDE DEF e
    <2>5. \A i \in 1 .. n : IsPlainElement(e[i])
      BY <2>1, <2>3, EmptySeq DEF IsPlainElement
    <2>6. IsSequence(e) /\ Len(e) = n
      BY <2>1, <2>4, FunctionIsSequence
    <2>7. QED
      BY <2>5, <2>6 DEF e
  <1>2. CASE value.type = "object"
    <2> DEFINE keys == DOMAIN value.members
               order == InOrder(keys)
               n == Cardinality(keys)
    <2>1. /\ IsFiniteSet(keys)
          /\ \A key \in keys : key \in Seq(PlainChars) /\ IsPlain(value.members[key])
      BY <1>2, PlainParts
    <2>2. keys \in SUBSET Seq(Letters)
      <3>1. PlainChars \subseteq Letters
        BY TextCharsAssumption DEF PlainChars, Letters
      <3>2. \A key \in Seq(PlainChars) : key \in Seq(Letters)
        BY <3>1, SeqMonotonic
      <3>3. QED
        BY <2>1, <3>2
    <2>3. n \in Nat /\ order \in [1 .. n -> keys]
      BY <2>1, <2>2, KeysInOrder DEF Increasing
    <2>4. e = [i \in 1 .. n |-> [key |-> order[i], value |-> value.members[order[i]]]]
      <3>1. S!InOrder(keys) = order
        BY SameOperators
      <3>2. e = [i \in DOMAIN S!InOrder(keys) |->
                    [key |-> S!InOrder(keys)[i], value |-> value.members[S!InOrder(keys)[i]]]]
        BY <1>2 DEF S!Elements
      <3> HIDE DEF e, order, n
      <3>3. QED
        BY <2>3, <3>1, <3>2
    <2> HIDE DEF n, order, keys
    <2>5. \A i \in 1 .. n : e[i].key = order[i] /\ e[i].value = value.members[order[i]]
      BY <2>4
    <2>6. e = [i \in 1 .. n |-> e[i]]
      BY <2>4
    <2> HIDE DEF e
    <2>7. \A i \in 1 .. n : IsPlainElement(e[i])
      BY <2>1, <2>3, <2>5 DEF IsPlainElement
    <2>8. IsSequence(e) /\ Len(e) = n
      BY <2>3, <2>6, FunctionIsSequence
    <2>9. QED
      BY <2>7, <2>8 DEF e
  <1>3. QED
    BY <1>1, <1>2 DEF ContainerTypes

LEMMA PlainNewBlock ==
    ASSUME NEW value, IsPlain(value), value.type \in ContainerTypes
    PROVE  IsPlainBlock(S!make_serializer_context(value))
  <1> DEFINE c == S!make_serializer_context(value)
  <1>1. /\ c.range = S!Elements(value)
        /\ c = [range |-> c.range, block_starter |-> c.block_starter,
                block_terminator |-> c.block_terminator, first_item |-> c.first_item]
    BY DEF S!make_serializer_context
  <1> HIDE DEF c
  <1>2. IsPlainBlock(c)
    BY <1>1, PlainElements DEF IsPlainBlock
  <1>3. QED
    BY <1>2 DEF c

\* The texts that are written of it.
LEMMA PlainLayout ==
    ASSUME NEW n \in Nat, NEW context
    PROVE  /\ IsSequence(S!PrettyNewline)
           /\ IsSequence(S!PrettyTabs(n))
           /\ IsSequence(S!BlockStart(context))
           /\ IsSequence(S!Separator(context))
  <1>1. IsSequence(S!PrettyNewline)
    BY ShortTexts DEF S!PrettyNewline
  <1>2. IsSequence(S!PrettyTabs(n))
    <2> DEFINE tabs == [k \in 1 .. n |-> "\t"]
    <2>1. tabs = [k \in 1 .. n |-> tabs[k]]
      OBVIOUS
    <2>2. IsSequence(tabs)
      <3> HIDE DEF tabs
      <3>1. QED
        BY <2>1, FunctionIsSequence
    <2>3. QED
      BY <2>2, ShortTexts DEF S!PrettyTabs
  <1>3. IsSequence(S!BlockStart(context))
    BY <1>1, ShortTexts, Concatenation DEF S!BlockStart
  <1>4. IsSequence(S!Separator(context))
    BY <1>1, ShortTexts, Concatenation DEF S!Separator
  <1>5. QED
    BY <1>1, <1>2, <1>3, <1>4

LEMMA PlainElementText ==
    ASSUME NEW element, IsPlainElement(element)
    PROVE  /\ ~S!HasIllegalChar(element)
           /\ IsSequence(S!KeyText(element.key)) /\ IsSequence(S!ValueText(element.value))
  <1>1. \A s \in Seq(PlainChars) :
            S!wrap_string(s) # nullopt /\ IsSequence(S!wrap_string(s))
    BY SameOperators, PlainText, SeqOfRange DEF IsSequence
  <1>2. element.key \in Seq(PlainChars) /\ IsPlain(element.value)
    BY DEF IsPlainElement
  <1>3. element.value.type = "string" => element.value.string \in Seq(PlainChars)
    BY <1>2, PlainParts
  <1>4. ~S!HasIllegalChar(element)
    BY <1>1, <1>2, <1>3 DEF S!HasIllegalChar
  <1>5. IsSequence(S!KeyText(element.key))
    <2> DEFINE blank == IF s_pretty_print THEN <<" ">> ELSE <<>>
    <2>1. IsSequence(blank) /\ IsSequence(<<S!name_separator>>) /\ IsSequence(<<>>)
      BY ShortTexts
    <2>2. S!KeyText(element.key) =
              IF element.key = <<>> THEN <<>>
              ELSE (S!wrap_string(element.key) \o <<S!name_separator>>) \o blank
      BY DEF S!KeyText
    <2> HIDE DEF blank
    <2>3. QED
      BY <1>1, <1>2, <2>1, <2>2, Concatenation
  <1>6. IsSequence(S!ValueText(element.value))
    <2>1. CASE S!IsContainer(element.value)
      BY <2>1, 0 \in Nat, PlainLayout DEF S!ValueText, S!IsContainer, S!ContainerTypes
    <2>2. CASE element.value.type = "string"
      BY <1>1, <1>3, <2>2 DEF S!ValueText, S!IsContainer, S!ContainerTypes
    <2>3. CASE ~S!IsContainer(element.value) /\ element.value.type # "string"
      <3>1. S!ValueText(element.value) = to_string(element.value)
        BY <2>3, SameOperators DEF S!ValueText, S!IsContainer, S!ContainerTypes
      <3>2. PICK literal \in DOMAIN Literals : element.value = Literals[literal]
        BY <1>2, <2>3, PlainParts DEF S!IsContainer, S!ContainerTypes
      <3>3. to_string(element.value) \in DOMAIN Literals
        BY <3>2 DEF to_string
      <3>4. QED
        BY <3>1, <3>3, LiteralsAssumption, SeqOfRange DEF IsSequence
    <2>4. QED
      BY <2>1, <2>2, <2>3
  <1>7. QED
    BY <1>4, <1>5, <1>6

-----------------------------------------------------------------------------
(* One iteration of the serializer.                                        *)

ArePlainBlocks(s) == IsSequence(s) /\ \A i \in 1 .. Len(s) : IsPlainBlock(s[i])

\* Taking an element out of a context, or out of the innermost one.
LEMMA PlainNextElement ==
    ASSUME NEW context, IsPlainBlock(context), context.range # <<>>
    PROVE  /\ IsPlainElement(Head(context.range))
           /\ IsPlainBlock([context EXCEPT !.range = Tail(@), !.first_item = FALSE])
  <1> DEFINE s == context.range
             t == Tail(s)
             rest == [context EXCEPT !.range = Tail(@), !.first_item = FALSE]
  <1>1. s \in Seq(Range(s)) /\ Len(s) \in Nat \ {0}
    BY LenProperties, EmptySeq DEF IsPlainBlock, IsSequence
  <1>2. Head(s) = s[1] /\ 1 \in 1 .. Len(s)
    BY <1>1
  <1>3. /\ t \in Seq(Range(s)) /\ Len(t) = Len(s) - 1
        /\ \A i \in 1 .. Len(t) : t[i] = s[i + 1]
    BY <1>1, HeadTailProperties, EmptySeq
  <1>4. IsSequence(t)
    BY <1>3, SeqOfRange DEF IsSequence
  <1>5. \A i \in 1 .. Len(t) : IsPlainElement(t[i])
    <2> SUFFICES ASSUME NEW i \in 1 .. Len(t) PROVE IsPlainElement(t[i])
      OBVIOUS
    <2>1. t[i] = s[i + 1] /\ i + 1 \in 1 .. Len(s)
      BY <1>1, <1>3
    <2>2. QED
      BY <2>1 DEF IsPlainBlock
  <1>6. /\ rest.range = t
        /\ rest = [range |-> t, block_starter |-> context.block_starter,
                   block_terminator |-> context.block_terminator, first_item |-> FALSE]
    <2> DEFINE taken_out == [context EXCEPT !.range = t]
    <2>1. context = [range |-> context.range, block_starter |-> context.block_starter,
                     block_terminator |-> context.block_terminator,
                     first_item |-> context.first_item]
      BY DEF IsPlainBlock
    <2>2. rest = [taken_out EXCEPT !.first_item = FALSE]
      BY <2>1
    <2> HIDE DEF t
    <2>3. taken_out = [range |-> t, block_starter |-> context.block_starter,
                       block_terminator |-> context.block_terminator,
                       first_item |-> context.first_item]
      BY <2>1
    <2> HIDE DEF taken_out, rest
    <2>4. QED
      BY <2>2, <2>3
  <1>7. IsPlainElement(Head(s))
    BY <1>2 DEF IsPlainBlock
  <1>8. IsPlainBlock(rest)
    <2> HIDE DEF t, rest
    <2>1. rest.block_starter = context.block_starter
          /\ rest.block_terminator = context.block_terminator /\ rest.first_item = FALSE
      BY <1>6
    <2>2. QED
      BY <1>4, <1>5, <1>6, <2>1 DEF IsPlainBlock
  <1>9. QED
    BY <1>7, <1>8

LEMMA PlainPopped ==
    ASSUME NEW s, ArePlainBlocks(s), s # <<>>, S!Last(s).range # <<>>
    PROVE  ArePlainBlocks(S!Popped(s)) /\ IsPlainElement(Head(S!Last(s).range))
  <1> DEFINE c == [s[Len(s)] EXCEPT !.range = Tail(@), !.first_item = FALSE]
  <1>1. Len(s) \in 1 .. Len(s) /\ DOMAIN s = 1 .. Len(s) /\ Len(s) \in Nat
    BY SequenceIsFunction DEF ArePlainBlocks
  <1>2. IsPlainBlock(s[Len(s)]) /\ s[Len(s)].range # <<>>
    BY <1>1 DEF ArePlainBlocks, S!Last
  <1>3. IsPlainBlock(c) /\ IsPlainElement(Head(s[Len(s)].range))
    BY <1>2, PlainNextElement, Zenon
  <1>4. S!Popped(s) = SetTop(s, c)
    BY <1>1, <1>2 DEF S!Popped, SetTop, IsPlainBlock
  <1> HIDE DEF c
  <1>5. /\ IsSequence(SetTop(s, c)) /\ Len(SetTop(s, c)) = Len(s)
        /\ \A i \in 1 .. Len(s) - 1 : SetTop(s, c)[i] = s[i]
        /\ SetTop(s, c)[Len(s)] = c
    BY ReplaceTop DEF ArePlainBlocks
  <1>6. \A i \in 1 .. Len(s) : IsPlainBlock(SetTop(s, c)[i])
    BY <1>1, <1>3, <1>5 DEF ArePlainBlocks
  <1>7. QED
    BY <1>3, <1>4, <1>5, <1>6 DEF ArePlainBlocks, S!Last

\* A context more, or one less.
LEMMA PlainBlocks ==
    ASSUME NEW s, ArePlainBlocks(s)
    PROVE  /\ \A c : IsPlainBlock(c) => ArePlainBlocks(s \o <<c>>)
           /\ s \o <<>> = s
           /\ s # <<>> => ArePlainBlocks(Front(s))
  <1>1. Len(s) \in Nat
    BY SequenceIsFunction DEF ArePlainBlocks
  <1>2. ASSUME NEW c, IsPlainBlock(c) PROVE ArePlainBlocks(s \o <<c>>)
    <2>1. s \in Seq(Range(s) \cup {c})
      BY SeqMonotonic DEF ArePlainBlocks, IsSequence
    <2>2. s \o <<c>> = Append(s, c)
      BY <2>1
    <2>3. /\ IsSequence(Append(s, c)) /\ Len(Append(s, c)) = Len(s) + 1
          /\ \A i \in 1 .. Len(s) : Append(s, c)[i] = s[i]
          /\ Append(s, c)[Len(s) + 1] = c
      BY Push DEF ArePlainBlocks
    <2>4. \A i \in 1 .. Len(s) + 1 : i \in 1 .. Len(s) \/ i = Len(s) + 1
      BY <1>1
    <2>5. \A i \in 1 .. Len(s) + 1 : IsPlainBlock(Append(s, c)[i])
      BY <1>2, <2>3, <2>4 DEF ArePlainBlocks
    <2>6. QED
      BY <2>2, <2>3, <2>5 DEF ArePlainBlocks
  <1>3. s \o <<>> = s
    <2>1. s \in Seq(Range(s))
      BY DEF ArePlainBlocks, IsSequence
    <2>2. QED
      BY <2>1
  <1>4. ASSUME s # <<>> PROVE ArePlainBlocks(Front(s))
    <2>1. /\ IsSequence(Front(s)) /\ Len(Front(s)) = Len(s) - 1
          /\ \A i \in 1 .. Len(s) - 1 : Front(s)[i] = s[i]
      BY <1>4, Pop DEF ArePlainBlocks
    <2>2. \A i \in 1 .. Len(s) - 1 : i \in 1 .. Len(s)
      BY <1>1
    <2>3. QED
      BY <2>1, <2>2 DEF ArePlainBlocks
  <1>5. QED
    BY <1>2, <1>3, <1>4

\* What waits to be written, and what has been.
WriterInv ==
    /\ ArePlainBlocks(s_contexts)
    /\ IsSequence(s_range) /\ IsSequence(out)
    /\ room \in 0 .. BufferSize
    /\ s_ec \in {"not_called", "running", "buffer_is_full", "completed"}

LEMMA PlainWriteBuffer ==
    ASSUME WriterInv, S!write_buffer
    PROVE  /\ IsSequence(S!Rest)
           /\ \E part : /\ IsSequence(part) /\ Len(part) <= room
                        /\ out' = out \o part /\ room' = room - Len(part)
  <1> DEFINE n == Len(s_range)
             part == SubSeq(s_range, 1, S!Count)
             IsLeast(x) == x \in {n, room} /\ \A y \in {n, room} : x <= y
  <1>1. n \in Nat /\ room \in Nat
    BY SequenceIsFunction, BufferSizeAssumption DEF WriterInv
  <1>2. \E x : IsLeast(x)
    <2>1. CASE n <= room
      BY <1>1, <2>1
    <2>2. CASE room <= n
      BY <1>1, <2>2
    <2>3. QED
      BY <1>1, <2>1, <2>2
  <1>3. S!Count \in {n, room} /\ \A y \in {n, room} : S!Count <= y
    BY <1>2 DEF S!Count, S!Min
  <1>4. S!Count \in Nat /\ S!Count <= n /\ S!Count <= room
    BY <1>1, <1>3
  <1>5. IsSequence(part) /\ Len(part) = S!Count
    BY <1>4, PartOfText DEF WriterInv
  <1>6. IsSequence(S!Rest)
    BY <1>1, <1>4, PartOfText DEF WriterInv, S!Rest
  <1>7. out' = out \o part /\ room' = room - S!Count
    BY DEF S!write_buffer
  <1> HIDE DEF part
  <1>8. QED
    BY <1>4, <1>5, <1>6, <1>7

\* The output grows by what the buffer loses of its room.
Writes ==
    \E part : /\ IsSequence(part) /\ Len(part) <= room
              /\ out' = out \o part /\ room' = room - Len(part)

LEMMA WritesInRoom ==
    ASSUME WriterInv, Writes
    PROVE  IsSequence(out') /\ room' \in 0 .. BufferSize
  <1>1. PICK part : /\ IsSequence(part) /\ Len(part) <= room
                    /\ out' = out \o part /\ room' = room - Len(part)
    BY DEF Writes
  <1>2. IsSequence(out') /\ Len(part) \in Nat
    BY <1>1, Concatenation, SequenceIsFunction DEF WriterInv
  <1>3. QED
    BY <1>1, <1>2, BufferSizeAssumption DEF WriterInv

LEMMA WriterIteration ==
    ASSUME WriterInv, S!Iteration
    PROVE  WriterInv' /\ Writes
  <1>1. CASE S!BufferIsFull
    <2>1. /\ UNCHANGED <<s_contexts, s_range, room, out>> /\ s_ec' = "buffer_is_full"
      BY <1>1 DEF S!BufferIsFull, S!members
    <2>2. IsSequence(<<>>) /\ Len(<<>>) = 0 /\ out \o <<>> = out /\ room \in Nat
      BY ShortTexts, EmptySeq, BufferSizeAssumption DEF WriterInv, IsSequence
    <2>3. Writes
      <3>1. Len(<<>>) <= room /\ room' = room - Len(<<>>)
        BY <2>1, <2>2
      <3>2. QED
        BY <2>1, <2>2, <3>1 DEF Writes
    <2>4. QED
      BY <2>1, <2>3 DEF WriterInv
  <1>2. ASSUME S!write_buffer PROVE Writes /\ IsSequence(S!Rest)
    BY <1>2, PlainWriteBuffer DEF Writes
  <1>3. CASE S!Completed
    <2>1. S!write_buffer /\ s_range' = S!Rest /\ s_ec' = "completed" /\ UNCHANGED s_contexts
      BY <1>3 DEF S!Completed
    <2>2. QED
      BY <1>2, <2>1, WritesInRoom DEF WriterInv
  <1>4. CASE S!WritePart
    <2>1. S!write_buffer /\ s_range' = S!Rest /\ UNCHANGED <<s_contexts, s_ec>>
      BY <1>4 DEF S!WritePart
    <2>2. QED
      BY <1>2, <2>1, WritesInRoom DEF WriterInv
  <1>5. CASE S!EndBlock
    <2>1. /\ S!write_buffer /\ s_contexts # <<>> /\ s_range' = S!BlockEnd(s_contexts)
          /\ s_contexts' = Front(s_contexts) /\ s_ec' = s_ec
      BY <1>5, SameOperators DEF S!EndBlock, S!WriteAll
    <2>2. ArePlainBlocks(s_contexts')
      BY <2>1, PlainBlocks DEF WriterInv
    <2>3. IsSequence(S!BlockEnd(s_contexts))
      <3> DEFINE tabs == S!PrettyTabs(Len(s_contexts) - 1)
                 terminator == <<S!Last(s_contexts).block_terminator>>
                 final == IF Len(s_contexts) = 1 THEN <<S!Newline>> ELSE <<>>
      <3>1. Len(s_contexts) - 1 \in Nat
        BY <2>1, SequenceIsFunction DEF WriterInv, ArePlainBlocks
      <3>2. IsSequence(S!PrettyNewline) /\ IsSequence(tabs)
        BY <3>1, PlainLayout
      <3>3. IsSequence(terminator) /\ IsSequence(final)
        BY ShortTexts
      <3>4. S!BlockEnd(s_contexts) = S!PrettyNewline \o tabs \o terminator \o final
        BY DEF S!BlockEnd
      <3> HIDE DEF tabs, terminator, final
      <3>5. QED
        BY <3>2, <3>3, <3>4, Concatenation
    <2>4. QED
      BY <1>2, <2>1, <2>2, <2>3, WritesInRoom DEF WriterInv
  <1>6. CASE S!IllegalChar
    <2>1. s_contexts # <<>> /\ S!Last(s_contexts).range # <<>>
      BY <1>6 DEF S!IllegalChar, S!WriteAll
    <2>2. S!HasIllegalChar(Head(S!Last(s_contexts).range))
      BY <1>6 DEF S!IllegalChar
    <2>3. QED
      BY <2>1, <2>2, PlainPopped, PlainElementText DEF WriterInv
  <1>7. CASE S!WriteElement
    <2> DEFINE context == S!Last(s_contexts)
               element == Head(context.range)
               inner == S!make_serializer_context(element.value)
    <2>1. s_contexts # <<>> /\ context.range # <<>> /\ S!write_buffer /\ s_ec' = s_ec
      BY <1>7 DEF S!WriteElement, S!WriteAll
    <2>2. ArePlainBlocks(S!Popped(s_contexts)) /\ IsPlainElement(element)
      BY <2>1, PlainPopped DEF WriterInv
    <2>3. /\ s_range' = S!Separator(context) \o S!PrettyTabs(Len(s_contexts))
                          \o S!KeyText(element.key) \o S!ValueText(element.value)
          /\ s_contexts' = S!Popped(s_contexts)
                          \o (IF S!IsContainer(element.value) THEN <<inner>> ELSE <<>>)
      BY <1>7 DEF S!WriteElement
    <2> HIDE DEF context, element, inner
    <2>4. IsSequence(s_range')
      <3>1. Len(s_contexts) \in Nat
        BY SequenceIsFunction DEF WriterInv, ArePlainBlocks
      <3>2. IsSequence(S!Separator(context)) /\ IsSequence(S!PrettyTabs(Len(s_contexts)))
        BY <3>1, PlainLayout
      <3>3. IsSequence(S!KeyText(element.key)) /\ IsSequence(S!ValueText(element.value))
        BY <2>2, PlainElementText
      <3>4. QED
        BY <2>3, <3>2, <3>3, Concatenation
    <2>5. ArePlainBlocks(s_contexts')
      <3>1. CASE S!IsContainer(element.value)
        <4>1. IsPlainBlock(inner)
          BY <2>2, <3>1, SameOperators, PlainNewBlock DEF IsPlainElement, S!IsContainer, inner
        <4>2. s_contexts' = S!Popped(s_contexts) \o <<inner>>
          BY <2>3, <3>1
        <4>3. QED
          BY <2>2, <4>1, <4>2, PlainBlocks
      <3>2. CASE ~S!IsContainer(element.value)
        <4>1. s_contexts' = S!Popped(s_contexts) \o <<>>
          BY <2>3, <3>2
        <4>2. QED
          BY <2>2, <4>1, PlainBlocks
      <3>3. QED
        BY <3>1, <3>2
    <2>6. QED
      BY <1>2, <2>1, <2>4, <2>5, WritesInRoom DEF WriterInv
  <1>8. QED
    BY <1>1, <1>3, <1>4, <1>5, <1>6, <1>7 DEF S!Iteration
-----------------------------------------------------------------------------
(* One step of the program.                                                *)

DemoReadingInv ==
    /\ input \in Seq(Chars) /\ taken \in 0 .. Len(input)
    /\ unread \in Seq(Chars)
    /\ ahead # <<>> => pc = "parsing" /\ unread # <<>>
    /\ pc \in {"reading", "parsing"} => in_buffer \in Seq(Chars) /\ Len(in_buffer) = BufferSize

\* All but so many of the characters that the serializer has produced are
\* written, unless calls failed: each of them has one more written.
Sent(pending) ==
    /\ Len(stdout) + pending = Len(out) + write_errors
    /\ write_errors = 0 => stdout = SubSeq(out, 1, Len(out) - pending)

DemoWritingInv ==
    /\ write_errors \in Nat /\ IsSequence(stdout)
    /\ pc \in {"reading", "parsing", "serialize"} => Sent(0)
    /\ pc = "serializing" => Sent(Filled)
    /\ pc = "writing" =>
          /\ Sent(bytes_to_write)
          /\ bytes_to_write \in Nat /\ write_ptr \in Int
          /\ write_ptr + bytes_to_write = Filled
          /\ write_errors = 0 => write_ptr \in Nat

DemoInv == Core /\ ParserIsPlain /\ DemoReadingInv /\ WriterInv /\ DemoWritingInv

\* What the program does not touch stays in order.
LEMMA ParserStays == Core /\ ParserIsPlain /\ UNCHANGED vars => Core' /\ ParserIsPlain'
  BY DEF vars, position, Core, TypeOK, StateFitsStack, PutBackFits, Fits, Inside, BufferIsFresh,
     WithinMaxLevels, ParserIsPlain, PlainContexts

LEMMA WriterStays == WriterInv /\ UNCHANGED writerVars => WriterInv'
  BY DEF WriterInv, writerVars

\* No step but those of the two loops of output matters to what is written.
LEMMA OutputStays ==
    ASSUME DemoWritingInv, UNCHANGED <<out, stdout, write_errors>>,
           pc \in {"reading", "parsing", "serialize"},
           pc' \in {"reading", "parsing", "serialize", "exited"}
    PROVE  DemoWritingInv'
  BY DEF DemoWritingInv, Sent

\* The end of a call, whether it is the end of the chunk or of the program.
LEMMA ChunkEnds ==
    ASSUME Core, ParserIsPlain, ahead = <<>>,
           UNCHANGED <<position, m_current_state, m_max_levels, m_contexts,
                       m_buffer, root, text, ahead>>,
           \/ ec' \in {"running", "more_data_needed"} /\ ec \notin Outcomes
           \/ ec' = "undefined" /\ ec = "running"
    PROVE  Core' /\ ParserIsPlain'
  <1>1. /\ ec \notin Outcomes
        /\ ec' \in {"not_called", "running", "more_data_needed"} \cup Outcomes
    BY DEF Outcomes, parser_error_codes
  <1>2. UNCHANGED <<m_line, m_col, m_current_state, m_max_levels, m_contexts,
                    m_buffer, root, text, ahead>>
    BY DEF position
  <1>3. TypeOK'
    BY <1>1, <1>2 DEF Core, TypeOK
  <1>4. StateFitsStack' /\ BufferIsFresh' /\ WithinMaxLevels'
    BY <1>1, <1>2 DEF Core, StateFitsStack, PutBackFits, Fits, Inside, BufferIsFresh,
       WithinMaxLevels
  <1>5. ParserIsPlain'
    BY <1>2 DEF ParserIsPlain, PlainContexts
  <1>6. QED
    BY <1>3, <1>4, <1>5 DEF Core

\* The parser is called, with what is read or with what is there.
LEMMA ChunkBegins ==
    ASSUME Core, ParserIsPlain, WriterInv, DemoWritingInv,
           NEW chunk, NEW length_is_wild, ParseChunk(chunk, length_is_wild),
           pc = "reading"
    PROVE  /\ Core' /\ ParserIsPlain' /\ WriterInv' /\ DemoWritingInv'
           /\ ahead' = <<>> /\ pc' = "parsing" /\ unread' = chunk /\ UNCHANGED input
  <1>1. /\ Parse /\ pc' = "parsing" /\ unread' = chunk
        /\ UNCHANGED <<input, writerVars, outputVars>>
    BY DEF ParseChunk, ContinueAt
  <1>2. ec \in {"not_called", "more_data_needed"} /\ ec' = "running"
        /\ UNCHANGED <<position, m_current_state, m_max_levels, m_contexts,
                       m_buffer, root, text, ahead>>
    BY <1>1 DEF Parse
  <1>3. ahead = <<>> /\ ahead' = <<>>
    BY <1>2 DEF Core, StateFitsStack, PutBackFits
  <1>4. ec \notin Outcomes
    BY <1>2 DEF Outcomes, parser_error_codes
  <1>5. Core' /\ ParserIsPlain'
    BY <1>2, <1>3, <1>4, ChunkEnds
  <1>6. WriterInv' /\ DemoWritingInv'
    BY <1>1, WriterStays, OutputStays DEF writerVars, outputVars
  <1>7. QED
    BY <1>1, <1>3, <1>5, <1>6

LEMMA ReadStep ==
    ASSUME DemoInv, NEW n \in 1 .. BufferSize, Read(n)
    PROVE  DemoInv'
  <1> DEFINE chunk == SubSeq(input, taken + 1, taken + n)
             rest == SubSeq(in_buffer, n + 1, BufferSize)
  <1>1. /\ pc = "reading" /\ taken + n <= Len(input) /\ taken' = taken + n
        /\ in_buffer' = chunk \o rest /\ ParseChunk(chunk, FALSE)
    BY DEF Read
  <1>2. /\ input \in Seq(Chars) /\ taken \in Nat /\ n \in Nat \ {0} /\ Len(input) \in Nat
        /\ in_buffer \in Seq(Chars) /\ Len(in_buffer) = BufferSize
        /\ BufferSize \in Nat /\ n <= BufferSize
    BY <1>1, LenProperties, BufferSizeAssumption DEF DemoInv, DemoReadingInv
  <1>3. chunk \in Seq(Chars) /\ Len(chunk) = n
    <2>1. \A i \in taken + 1 .. taken + n : input[i] \in Chars
      BY <1>1, <1>2, ElementOfSeq
    <2>2. QED
      BY <1>2, <2>1, SubSeqProperties
  <1>4. rest \in Seq(Chars) /\ Len(rest) = BufferSize - n
    <2>1. \A i \in n + 1 .. BufferSize : in_buffer[i] \in Chars
      BY <1>2, ElementOfSeq
    <2>2. QED
      BY <1>2, <2>1, SubSeqProperties
  <1> HIDE DEF chunk, rest
  <1>5. chunk \o rest \in Seq(Chars) /\ Len(chunk \o rest) = BufferSize
    <2>1. chunk \o rest \in Seq(Chars) /\ Len(chunk \o rest) = Len(chunk) + Len(rest)
      BY <1>3, <1>4, Together
    <2>2. QED
      BY <1>2, <1>3, <1>4, <2>1
  <1>6. /\ Core' /\ ParserIsPlain' /\ WriterInv' /\ DemoWritingInv'
        /\ ahead' = <<>> /\ unread' = chunk /\ UNCHANGED input
    BY <1>1, ChunkBegins DEF DemoInv
  <1>7. DemoReadingInv'
    BY <1>1, <1>2, <1>3, <1>5, <1>6 DEF DemoReadingInv
  <1>8. QED
    BY <1>6, <1>7 DEF DemoInv

LEMMA ReadFailsStep ==
    ASSUME DemoInv, ReadFails
    PROVE  DemoInv'
  <1>1. /\ pc = "reading" /\ ParseChunk(in_buffer, TRUE) /\ UNCHANGED <<taken, in_buffer>>
    BY DEF ReadFails
  <1>2. /\ Core' /\ ParserIsPlain' /\ WriterInv' /\ DemoWritingInv'
        /\ ahead' = <<>> /\ unread' = in_buffer /\ UNCHANGED input
    BY <1>1, ChunkBegins DEF DemoInv
  <1>3. DemoReadingInv'
    BY <1>1, <1>2 DEF DemoInv, DemoReadingInv
  <1>4. QED
    BY <1>2, <1>3 DEF DemoInv

LEMMA ParseIterationStep ==
    ASSUME DemoInv, ParseIteration
    PROVE  DemoInv'
  <1>1. /\ pc = "parsing" /\ pc' = "parsing" /\ unread # <<>> /\ Iteration(Head(unread))
        /\ unread' = IF ahead' = <<>> THEN Tail(unread) ELSE unread
        /\ UNCHANGED <<input, taken, in_buffer, writerVars, outputVars>>
    BY DEF ParseIteration, ContinueAt
  <1>2. unread \in Seq(Chars) /\ Head(unread) \in Chars /\ Tail(unread) \in Seq(Chars)
    BY <1>1, HeadTailProperties DEF DemoInv, DemoReadingInv
  <1>3. Core' /\ ParserIsPlain'
    BY <1>1, <1>2, CoreStep, PlainIteration DEF DemoInv
  <1>4. DemoReadingInv'
    BY <1>1, <1>2 DEF DemoInv, DemoReadingInv
  <1>5. WriterInv' /\ DemoWritingInv'
    BY <1>1, WriterStays, OutputStays DEF DemoInv, writerVars, outputVars
  <1>6. QED
    BY <1>3, <1>4, <1>5 DEF DemoInv

LEMMA ParseEndsStep ==
    ASSUME DemoInv, ParseEnds
    PROVE  DemoInv'
  <1>1. /\ pc = "parsing" /\ pc' = "parsing" /\ unread = <<>>
        /\ UNCHANGED <<inputVars, writerVars, outputVars>>
    BY DEF ParseEnds, ContinueAt
  <1>2. ahead = <<>>
    BY <1>1 DEF DemoInv, DemoReadingInv
  <1>3. /\ UNCHANGED <<position, m_current_state, m_max_levels, m_contexts,
                       m_buffer, root, text, ahead>>
        /\ ec = "running" /\ ec' \in {"undefined", "more_data_needed"}
    BY DEF ParseEnds, EndOfInput
  <1>4. ec \notin Outcomes
    BY <1>3 DEF Outcomes, parser_error_codes
  <1>5. Core' /\ ParserIsPlain'
    BY <1>2, <1>3, <1>4, ChunkEnds DEF DemoInv
  <1>6. DemoReadingInv'
    BY <1>1, <1>2, <1>3 DEF DemoInv, DemoReadingInv, inputVars
  <1>7. WriterInv' /\ DemoWritingInv'
    BY <1>1, WriterStays, OutputStays DEF DemoInv, writerVars, outputVars
  <1>8. QED
    BY <1>5, <1>6, <1>7 DEF DemoInv
-----------------------------------------------------------------------------
(* From the parser to the serializer, and the loops of output.             *)

LEMMA ConstructSerializerStep ==
    ASSUME DemoInv, ConstructSerializer, UNCHANGED <<input, taken>>, ahead = <<>>,
           pc \in {"reading", "parsing"}
    PROVE  DemoInv'
  <1> DEFINE c == S!make_serializer_context(root)
  <1>1. /\ unread' = <<>> /\ pc' = "serialize"
        /\ s_contexts' = <<c>> /\ s_range' = S!BlockStart(c) /\ s_ec' = "buffer_is_full"
        /\ UNCHANGED <<vars, room, out, outputVars>>
    BY DEF ConstructSerializer, ContinueAt
  <1>2. IsPlainBlock(c)
    BY PlainNewBlock DEF DemoInv, Core, TypeOK, ParserIsPlain
  <1> HIDE DEF c
  <1>3. ArePlainBlocks(<<c>>)
    <2>1. IsSequence(<<c>>) /\ Len(<<c>>) = 1 /\ <<c>>[1] = c
      BY ShortTexts
    <2>2. \A i \in 1 .. 1 : i = 1
      OBVIOUS
    <2>3. QED
      BY <1>2, <2>1, <2>2 DEF ArePlainBlocks
  <1>4. IsSequence(S!BlockStart(c))
    BY 0 \in Nat, PlainLayout
  <1>5. WriterInv'
    BY <1>1, <1>3, <1>4 DEF DemoInv, WriterInv
  <1>6. Core' /\ ParserIsPlain'
    BY <1>1, ParserStays DEF DemoInv
  <1>7. DemoReadingInv'
    BY <1>1, EmptySeq DEF DemoInv, DemoReadingInv, vars
  <1>8. DemoWritingInv'
    BY <1>1, OutputStays DEF DemoInv, outputVars
  <1>9. QED
    BY <1>5, <1>6, <1>7, <1>8 DEF DemoInv

\* The program ends.
LEMMA ExitStep ==
    ASSUME DemoInv, \E with : Exit(with), UNCHANGED <<vars, inputVars, writerVars, outputVars>>,
           ahead = <<>>
    PROVE  DemoInv'
  <1>1. pc' = "exited"
    BY DEF Exit
  <1>2. Core' /\ ParserIsPlain' /\ WriterInv'
    BY ParserStays, WriterStays DEF DemoInv
  <1>3. DemoReadingInv'
    BY <1>1 DEF DemoInv, DemoReadingInv, inputVars, vars
  <1>4. DemoWritingInv'
    BY <1>1 DEF DemoInv, DemoWritingInv, outputVars
  <1>5. QED
    BY <1>2, <1>3, <1>4 DEF DemoInv

LEMMA EndOfFileStep ==
    ASSUME DemoInv, EndOfFile
    PROVE  DemoInv'
  <1>1. pc = "reading" /\ ahead = <<>>
    BY DEF EndOfFile, DemoInv, DemoReadingInv
  <1>2. CASE old_ec # "completed"
    BY <1>1, <1>2, ExitStep DEF EndOfFile
  <1>3. CASE old_ec = "completed"
    BY <1>1, <1>3, ConstructSerializerStep DEF EndOfFile
  <1>4. QED
    BY <1>2, <1>3

LEMMA ParseResultStep ==
    ASSUME DemoInv, ParseResult
    PROVE  DemoInv'
  <1>1. pc = "parsing" /\ ec # "running" /\ UNCHANGED <<input, taken>>
    BY DEF ParseResult
  <1>2. ahead = <<>>
    BY <1>1 DEF DemoInv, Core, StateFitsStack, PutBackFits
  <1>3. CASE ConstructSerializer
    BY <1>1, <1>2, <1>3, ConstructSerializerStep
  <1>4. CASE /\ pc' = "reading"
             /\ UNCHANGED <<vars, in_buffer, unread, wild, writerVars, outputVars>>
    <2>1. Core' /\ ParserIsPlain' /\ WriterInv'
      BY <1>4, ParserStays, WriterStays DEF DemoInv
    <2>2. DemoReadingInv'
      BY <1>1, <1>2, <1>4 DEF DemoInv, DemoReadingInv, vars
    <2>3. DemoWritingInv'
      BY <1>1, <1>4, OutputStays DEF DemoInv, outputVars, writerVars
    <2>4. QED
      BY <2>1, <2>2, <2>3 DEF DemoInv
  <1>5. CASE /\ \E with : Exit(with)
             /\ UNCHANGED <<vars, inputVars, writerVars, outputVars>>
    BY <1>2, <1>5, ExitStep
  <1>6. QED
    BY <1>3, <1>4, <1>5 DEF ParseResult, ContinueAt

\* Nothing of the parser changes while the container is written.
LEMMA OutputStep ==
    ASSUME DemoInv, UNCHANGED <<vars, inputVars>>, WriterInv', DemoWritingInv',
           pc \in {"serialize", "serializing", "writing"},
           pc' \in {"serialize", "serializing", "writing"}
    PROVE  DemoInv'
  <1>1. Core' /\ ParserIsPlain'
    BY ParserStays DEF DemoInv
  <1>2. DemoReadingInv'
    BY DEF DemoInv, DemoReadingInv, inputVars, vars
  <1>3. QED
    BY <1>1, <1>2 DEF DemoInv

LEMMA SerializeStep ==
    ASSUME DemoInv, Serialize
    PROVE  DemoInv'
  <1>1. /\ pc = "serialize" /\ pc' = "serializing" /\ UNCHANGED <<vars, inputVars, outputVars>>
        /\ UNCHANGED <<s_contexts, s_range, out>> /\ s_ec' = "running" /\ room' = BufferSize
    BY DEF Serialize, ContinueAt, S!PassBuffer, S!serialize, S!members
  <1>2. WriterInv'
    BY <1>1, BufferSizeAssumption DEF DemoInv, WriterInv
  <1>3. Filled' = 0
    BY <1>1, BufferSizeAssumption DEF Filled
  <1>4. DemoWritingInv'
    BY <1>1, <1>3 DEF DemoInv, DemoWritingInv, Sent, outputVars
  <1>5. QED
    BY <1>1, <1>2, <1>4, OutputStep

LEMMA SerializeIterationStep ==
    ASSUME DemoInv, SerializeIteration
    PROVE  DemoInv'
  <1>1. /\ pc = "serializing" /\ pc' = "serializing" /\ S!Iteration
        /\ UNCHANGED <<vars, inputVars, outputVars>>
    BY DEF SerializeIteration, ContinueAt
  <1>2. WriterInv' /\ Writes
    BY <1>1, WriterIteration DEF DemoInv
  <1>3. PICK part : /\ IsSequence(part) /\ Len(part) <= room
                    /\ out' = out \o part /\ room' = room - Len(part)
    BY <1>2 DEF Writes
  <1>4. /\ IsSequence(out) /\ Len(out) \in Nat /\ IsSequence(stdout) /\ Len(stdout) \in Nat
        /\ Len(part) \in Nat /\ Len(out') = Len(out) + Len(part)
    BY <1>3, SequenceIsFunction, Concatenation DEF DemoInv, WriterInv, DemoWritingInv
  <1>5. room \in Nat /\ BufferSize \in Nat /\ Filled \in Nat
    BY BufferSizeAssumption DEF DemoInv, WriterInv, Filled
  <1>6. Filled' = Filled + Len(part)
    BY <1>3, <1>4, <1>5 DEF Filled
  <1>7. Sent(Filled) /\ write_errors \in Nat /\ UNCHANGED <<stdout, write_errors>>
    BY <1>1 DEF DemoInv, DemoWritingInv, outputVars
  <1>8. Sent(Filled)'
    <2>1. Len(out') - Filled' = Len(out) - Filled /\ Len(out) - Filled \in Int
          /\ Len(out) - Filled <= Len(out)
      BY <1>4, <1>5, <1>6
    <2>2. SubSeq(out', 1, Len(out) - Filled) = SubSeq(out, 1, Len(out) - Filled)
      BY <1>3, <1>4, <2>1, SameBeginning
    <2>3. Len(stdout') + Filled' = Len(out') + write_errors'
      BY <1>4, <1>5, <1>6, <1>7 DEF Sent
    <2>4. QED
      BY <1>7, <2>1, <2>2, <2>3 DEF Sent
  <1>9. DemoWritingInv'
    BY <1>1, <1>4, <1>7, <1>8 DEF DemoInv, DemoWritingInv
  <1>10. QED
    BY <1>1, <1>2, <1>9, OutputStep
LEMMA SerializeResultStep ==
    ASSUME DemoInv, SerializeResult
    PROVE  DemoInv'
  <1>1. /\ pc = "serializing" /\ pc' = "writing" /\ write_ptr' = 0 /\ bytes_to_write' = Filled
        /\ UNCHANGED <<vars, inputVars, writerVars, stdout, write_errors>>
    BY DEF SerializeResult, ContinueAt
  <1>2. WriterInv' /\ Filled' = Filled /\ out' = out
    BY <1>1, WriterStays DEF DemoInv, writerVars, Filled
  <1>3. Filled \in Nat
    BY BufferSizeAssumption DEF DemoInv, WriterInv, Filled
  <1>4. Sent(bytes_to_write)'
    BY <1>1, <1>2 DEF DemoInv, DemoWritingInv, Sent
  <1>5. DemoWritingInv'
    BY <1>1, <1>2, <1>3, <1>4 DEF DemoInv, DemoWritingInv
  <1>6. QED
    BY <1>1, <1>2, <1>5, OutputStep

LEMMA WriteStep ==
    ASSUME DemoInv, NEW n \in 1 .. BufferSize + MaxErrors, Write(n)
    PROVE  DemoInv'
  <1> DEFINE part == [i \in 1 .. n |-> BlockAt(write_ptr + i - 1)]
  <1>1. /\ pc = "writing" /\ pc' = "writing" /\ n <= bytes_to_write
        /\ stdout' = stdout \o part /\ write_ptr' = write_ptr + n
        /\ bytes_to_write' = bytes_to_write - n
        /\ UNCHANGED <<vars, inputVars, writerVars, write_errors>>
    BY DEF Write, ContinueAt
  <1>2. /\ Sent(bytes_to_write) /\ bytes_to_write \in Nat /\ write_ptr \in Int
        /\ write_ptr + bytes_to_write = Filled /\ write_errors \in Nat /\ IsSequence(stdout)
        /\ write_errors = 0 => write_ptr \in Nat
    BY <1>1 DEF DemoInv, DemoWritingInv
  <1>3. WriterInv' /\ Filled' = Filled /\ out' = out
    BY <1>1, WriterStays DEF DemoInv, writerVars, Filled
  <1>4. n \in Nat /\ n >= 1
    OBVIOUS
  <1>5. IsSequence(out) /\ Len(out) \in Nat /\ Len(stdout) \in Nat
    BY <1>2, SequenceIsFunction DEF DemoInv, WriterInv
  <1>6. IsSequence(part) /\ Len(part) = n
    <2>1. part = [i \in 1 .. n |-> part[i]]
      OBVIOUS
    <2> HIDE DEF part
    <2>2. QED
      BY <1>4, <2>1, FunctionIsSequence
  <1>7. ASSUME write_errors = 0
        PROVE  stdout \o part = SubSeq(out, 1, Len(out) - (bytes_to_write - n))
    <2> DEFINE m == Len(out) - bytes_to_write
    <2>1. /\ Len(stdout) + bytes_to_write = Len(out) /\ write_ptr \in Nat
          /\ stdout = SubSeq(out, 1, m)
      BY <1>2, <1>5, <1>7 DEF Sent
    <2>2. m \in Nat /\ m + n <= Len(out) /\ Len(out) - (bytes_to_write - n) = m + n
      BY <1>1, <1>2, <1>4, <1>5, <2>1
    <2>3. \A i \in 1 .. n : BlockAt(write_ptr + i - 1) = out[m + i]
      <3> SUFFICES ASSUME NEW i \in 1 .. n PROVE BlockAt(write_ptr + i - 1) = out[m + i]
        OBVIOUS
      <3>1. /\ ~(write_ptr + i - 1 < 0)
            /\ Len(out) - Filled + (write_ptr + i - 1) + 1 = m + i
        BY <1>2, <1>4, <1>5, <2>1
      <3>2. QED
        BY <3>1 DEF BlockAt
    <2> HIDE DEF m
    <2>4. part = [i \in 1 .. n |-> out[m + i]]
      BY <2>3
    <2> HIDE DEF part
    <2>5. SubSeq(out, 1, m) \o [i \in 1 .. n |-> out[m + i]] = SubSeq(out, 1, m + n)
      BY <1>4, <1>5, <2>2, LongerBeginning
    <2>6. QED
      BY <2>1, <2>2, <2>4, <2>5
  <1> HIDE DEF part
  <1>8. IsSequence(stdout') /\ Len(stdout') = Len(stdout) + n
    BY <1>1, <1>2, <1>6, Concatenation
  <1>9. Sent(bytes_to_write)'
    <2>1. write_errors' = write_errors /\ bytes_to_write' = bytes_to_write - n
      BY <1>1
    <2>2. Len(stdout') + bytes_to_write' = Len(out') + write_errors'
      <3>1. Len(stdout) + bytes_to_write = Len(out) + write_errors
        BY <1>2 DEF Sent
      <3>2. Len(out') = Len(out)
        BY <1>3
      <3>3. QED
        BY <1>2, <1>4, <1>5, <1>8, <2>1, <3>1, <3>2
    <2>3. write_errors' = 0 => stdout' = SubSeq(out', 1, Len(out') - bytes_to_write')
      BY <1>1, <1>3, <1>7, <2>1
    <2>4. QED
      BY <2>2, <2>3 DEF Sent
  <1>10. /\ bytes_to_write' \in Nat /\ write_ptr' \in Int
         /\ write_ptr' + bytes_to_write' = Filled'
         /\ write_errors' = 0 => write_ptr' \in Nat
    BY <1>1, <1>2, <1>3, <1>4 DEF Filled
  <1>11. DemoWritingInv'
    BY <1>1, <1>2, <1>8, <1>9, <1>10 DEF DemoWritingInv
  <1>12. QED
    BY <1>1, <1>3, <1>11, OutputStep

LEMMA WriteFailsStep ==
    ASSUME DemoInv, WriteFails
    PROVE  DemoInv'
  <1>1. /\ pc = "writing" /\ pc' = "writing" /\ write_errors' = write_errors + 1
        /\ write_ptr' = write_ptr - 1 /\ bytes_to_write' = bytes_to_write + 1
        /\ UNCHANGED <<vars, inputVars, writerVars, stdout>>
    BY DEF WriteFails, ContinueAt
  <1>2. /\ Sent(bytes_to_write) /\ bytes_to_write \in Nat /\ write_ptr \in Int
        /\ write_ptr + bytes_to_write = Filled /\ write_errors \in Nat /\ IsSequence(stdout)
    BY <1>1 DEF DemoInv, DemoWritingInv
  <1>3. WriterInv' /\ Filled' = Filled /\ out' = out
    BY <1>1, WriterStays DEF DemoInv, writerVars, Filled
  <1>4. Len(out) \in Nat /\ Len(stdout) \in Nat
    BY <1>2, SequenceIsFunction DEF DemoInv, WriterInv
  <1>5. Sent(bytes_to_write)' /\ write_errors' \in Nat /\ write_errors' # 0
    BY <1>1, <1>2, <1>3, <1>4 DEF Sent
  <1>6. /\ bytes_to_write' \in Nat /\ write_ptr' \in Int
        /\ write_ptr' + bytes_to_write' = Filled'
    BY <1>1, <1>2, <1>3 DEF Filled
  <1>7. DemoWritingInv'
    BY <1>1, <1>2, <1>5, <1>6 DEF DemoWritingInv
  <1>8. QED
    BY <1>1, <1>3, <1>7, OutputStep

LEMMA BlockWrittenStep ==
    ASSUME DemoInv, BlockWritten
    PROVE  DemoInv'
  <1>1. /\ pc = "writing" /\ bytes_to_write = 0
        /\ UNCHANGED <<vars, inputVars, writerVars, outputVars>>
        /\ (\E with : Exit(with)) \/ pc' = "serialize"
    BY DEF BlockWritten, ContinueAt
  <1>2. CASE \E with : Exit(with)
    BY <1>1, <1>2, ExitStep DEF DemoInv, DemoReadingInv
  <1>3. CASE pc' = "serialize"
    <2>1. WriterInv'
      BY <1>1, WriterStays DEF DemoInv
    <2>2. DemoWritingInv'
      BY <1>1, <1>3 DEF DemoInv, DemoWritingInv, Sent, outputVars, writerVars
    <2>3. QED
      BY <1>1, <1>3, <2>1, <2>2, OutputStep
  <1>4. QED
    BY <1>1, <1>2, <1>3

LEMMA WriteNothingStep ==
    ASSUME DemoInv, WriteNothing
    PROVE  DemoInv'
  BY ExitStep DEF WriteNothing, DemoInv, DemoReadingInv
-----------------------------------------------------------------------------
(* The theorems.                                                           *)

LEMMA DemoInvInit == ASSUME NEW stdin \in Seq(Chars), DemoInit(stdin) PROVE DemoInv
  <1>1. Core
    BY InitInv DEF DemoInit, Inv
  <1>2. ParserIsPlain
    <2>1. IsPlain(DefaultContainer)
      BY PlainLeaves DEF DefaultContainer
    <2>2. QED
      BY <2>1, EmptySeq DEF DemoInit, Init, ParserIsPlain, PlainContexts
  <1>3. DemoReadingInv
    <2> DEFINE zeros == [i \in 1 .. BufferSize |-> "NUL"]
    <2>1. zeros \in Seq(Chars) /\ Len(zeros) = BufferSize
      BY ZeroAssumption, BufferSizeAssumption, FunctionIsText
    <2>2. /\ input = stdin /\ taken = 0 /\ in_buffer = zeros /\ unread = <<>> /\ ahead = <<>>
      BY DEF DemoInit, Init
    <2> HIDE DEF zeros
    <2>3. QED
      BY <2>1, <2>2, EmptySeq, LenProperties DEF DemoReadingInv
  <1>4. WriterInv
    <2>1. IsSequence(<<>>) /\ Len(<<>>) = 0
      BY ShortTexts, EmptySeq
    <2>2. ArePlainBlocks(<<>>)
      BY <2>1 DEF ArePlainBlocks
    <2>3. QED
      BY <2>1, <2>2, BufferSizeAssumption DEF DemoInit, WriterInv
  <1>5. DemoWritingInv
    <2>1. /\ out = <<>> /\ stdout = <<>> /\ write_errors = 0 /\ pc = "reading"
      BY DEF DemoInit
    <2>2. Len(<<>>) = 0 /\ IsSequence(<<>>)
      BY EmptySeq, ShortTexts
    <2>3. SubSeq(<<>>, 1, 0) = <<>>
      BY SubSeqEmpty
    <2>4. QED
      BY <2>1, <2>2, <2>3 DEF DemoWritingInv, Sent
  <1>6. QED
    BY <1>1, <1>2, <1>3, <1>4, <1>5 DEF DemoInv

LEMMA DemoInvNext == DemoInv /\ [DemoNext]_demoVars => DemoInv'
  <1> SUFFICES ASSUME DemoInv, [DemoNext]_demoVars PROVE DemoInv'
    OBVIOUS
  <1>1. CASE UNCHANGED demoVars
    <2>1. UNCHANGED <<vars, inputVars, writerVars, outputVars, pc>>
      BY <1>1 DEF demoVars
    <2>2. Core' /\ ParserIsPlain' /\ WriterInv'
      BY <2>1, ParserStays, WriterStays DEF DemoInv
    <2>3. DemoReadingInv'
      BY <2>1 DEF DemoInv, DemoReadingInv, inputVars, vars
    <2>4. DemoWritingInv'
      BY <2>1 DEF DemoInv, DemoWritingInv, Sent, Filled, outputVars, writerVars
    <2>5. QED
      BY <2>2, <2>3, <2>4 DEF DemoInv
  <1>2. CASE Compute
    BY <1>2, ParseIterationStep, ParseEndsStep, ParseResultStep, SerializeStep,
       SerializeIterationStep, SerializeResultStep, BlockWrittenStep DEF Compute
  <1>3. CASE Transfer
    BY <1>3, EndOfFileStep, ReadStep, WriteStep DEF Transfer
  <1>4. CASE Fault
    BY <1>4, ReadFailsStep, WriteNothingStep, WriteFailsStep DEF Fault
  <1>5. QED
    BY <1>1, <1>2, <1>3, <1>4 DEF DemoNext

LEMMA DemoInvariance == DemoSpec => []DemoInv
  <1>1. (\E stdin \in Seq(Chars) : DemoInit(stdin)) => DemoInv
    BY DemoInvInit
  <1>2. QED
    BY <1>1, DemoInvNext, PTL DEF DemoSpec

\* Whatever the input, the container that comes out of the parser has no key
\* and no string that the serializer refuses.
THEOREM DemoWritable == DemoSpec => []ParsedIsWritable
  <1>1. DemoInv => ParsedIsWritable
    BY DEF DemoInv, WriterInv, ParsedIsWritable
  <1>2. QED
    BY <1>1, DemoInvariance, PTL

\* However standard output takes the buffers, no character of them is lost or
\* written twice as long as write does not fail; each failure has one
\* character written again.
THEOREM DemoOutput == DemoSpec => []ErrorsRepeatCharacters
  <1>1. DemoInv => ErrorsRepeatCharacters
    BY DEF DemoInv, DemoWritingInv, Sent, ErrorsRepeatCharacters
  <1>2. QED
    BY <1>1, DemoInvariance, PTL
-----------------------------------------------------------------------------
(* The reader, as long as read does not fail.                              *)

Stray(u) == IsAt(u, NextToken(u, 1), end_array)

\* What has been read of the input, and what of it is left of the chunk.
FromInput ==
    /\ Len(text) <= Len(input)
    /\ \A j \in 1 .. Len(text) : text[j] = input[j]
    /\ pc \in {"reading", "parsing"} =>
          /\ Len(text) + Len(unread) = taken
          /\ \A j \in 1 .. Len(unread) : unread[j] = input[Len(text) + j]
    /\ ahead # <<>> => unread[1] = ahead[1]

\* The first character of t other than white space is no stray bracket.
Begun(t) ==
    \E j \in 1 .. Len(t) : /\ t[j] \notin Blanks \cup {end_array}
                           /\ \A k \in 1 .. j - 1 : t[k] \in Blanks

\* The result is what the grammar says of the whole input.
Judged ==
    LET doc == Document(input, DefaultMaxLevels)
    IN  /\ ec = "completed" => doc.value = root /\ doc.next = Len(text) + 1
        /\ ec \in Outcomes \ {"completed"} => ~Readable(doc)
        /\ ec \in Outcomes => (ec = "undefined" <=> Stray(input))

IsReading ==
    /\ LanguageInv /\ m_max_levels = DefaultMaxLevels
    /\ FromInput /\ Judged
    /\ m_contexts # <<>> => Begun(text)

\* Where the program is, and with what result.
IsPlaced ==
    /\ pc # "exited" <=> status = "running"
    /\ pc = "reading" =>
          /\ unread = <<>>
          /\ IF taken = 0 THEN ec = "not_called" /\ old_ec = "completed" /\ root = DefaultContainer
             ELSE ec = "more_data_needed" /\ old_ec = "more_data_needed"
    /\ pc = "parsing" =>
          /\ taken # 0 /\ ~wild
          /\ ec \in {"running", "more_data_needed"} \cup Outcomes
          /\ ec = "more_data_needed" => unread = <<>>
    /\ pc \in {"serialize", "serializing", "writing"} \/ status = "success" =>
          \/ input = <<>> /\ root = DefaultContainer
          \/ input # <<>> /\ ec = "completed"
    /\ pc = "serializing" => s_ec # "not_called"
    /\ pc = "writing" => s_ec \in {"buffer_is_full", "completed"}
    /\ pc = "exited" =>
          \/ status = "success"
          \/ status = "undefined" /\ ec = "undefined" /\ input # <<>>
          \/ status = "failure" /\ bytes_to_write # 0
          \/ /\ status = "failure" /\ input # <<>>
             /\ ec \in Outcomes \ {"completed", "undefined"}
          \/ /\ status = "failure" /\ input # <<>>
             /\ ec = "more_data_needed" /\ Len(text) = Len(input)

ReaderInv == read_errors \in Nat /\ (read_errors = 0 => IsReading /\ IsPlaced)

\* A text with a first character other than white space.
LEMMA FirstToken ==
    ASSUME NEW u \in Texts, NEW j \in 1 .. Len(u), u[j] \notin Blanks,
           \A k \in 1 .. j - 1 : u[k] \in Blanks
    PROVE  NextToken(u, 1) = j /\ (Stray(u) <=> u[j] = end_array)
  <1> DEFINE n == NextToken(u, 1)
  <1>1. Len(u) \in Nat /\ DOMAIN u = 1 .. Len(u) /\ 1 \in Nat \ {0}
    BY LenProperties DEF Texts
  <1>2. /\ n \in 1 .. Len(u) + 1 /\ (n <= Len(u) => u[n] \notin Blanks)
        /\ \A k \in 1 .. Len(u) : k < n => u[k] \in Blanks
    BY <1>1, NextTokenIsFirst
  <1> HIDE DEF n
  <1>3. n = j
    <2>1. ~(j < n)
      BY <1>2
    <2>2. CASE n < j
      <3>1. n \in 1 .. j - 1 /\ n <= Len(u)
        BY <1>1, <1>2, <2>2
      <3>2. QED
        BY <1>2, <3>1
    <2>3. QED
      BY <1>1, <1>2, <2>1, <2>2
  <1>4. Stray(u) <=> u[j] = end_array
    BY <1>1, <1>3 DEF Stray, IsAt, n
  <1>5. QED
    BY <1>3, <1>4 DEF n

\* A text that begins with one that has begun.
LEMMA BegunIsNotStray ==
    ASSUME NEW u \in Texts, NEW t, Begun(t), Len(t) \in Nat, Len(t) <= Len(u),
           \A j \in 1 .. Len(t) : u[j] = t[j]
    PROVE  ~Stray(u)
  <1>1. PICK j \in 1 .. Len(t) : /\ t[j] \notin Blanks \cup {end_array}
                                 /\ \A k \in 1 .. j - 1 : t[k] \in Blanks
    BY DEF Begun
  <1>2. Len(u) \in Nat
    BY LenProperties DEF Texts
  <1>3. j \in 1 .. Len(u) /\ u[j] = t[j] /\ \A k \in 1 .. j - 1 : u[k] = t[k]
    BY <1>2
  <1>4. QED
    BY <1>1, <1>3, FirstToken

\* A text without one.
LEMMA BlankIsNotStray ==
    ASSUME NEW u \in Texts, \A j \in 1 .. Len(u) : u[j] \in Blanks
    PROVE  ~Stray(u)
  <1> DEFINE n == NextToken(u, 1)
  <1>1. Len(u) \in Nat /\ DOMAIN u = 1 .. Len(u) /\ 1 \in Nat \ {0}
    BY LenProperties DEF Texts
  <1>2. n \in 1 .. Len(u) + 1 /\ (n <= Len(u) => u[n] \notin Blanks)
    BY <1>1, NextTokenIsFirst
  <1> HIDE DEF n
  <1>3. n \notin DOMAIN u
    BY <1>1, <1>2
  <1>4. QED
    BY <1>3 DEF Stray, IsAt, n

\* An iteration before the first container begins one, or refuses its character.
LEMMA BegunIteration ==
    ASSUME Inv, NEW ch \in Chars, Iteration(ch), m_contexts # <<>> => Begun(text)
    PROVE  m_contexts' # <<>> \/ ec' \in Outcomes \ {"undefined"} => Begun(text')
  <1> DEFINE t == Append(text, ch)
  <1>1. /\ Core /\ Moves(ch) /\ Reads(ch) /\ ec = "running" /\ ec \notin Outcomes
        /\ text \in Seq(Chars) /\ Len(text) \in Nat
    BY IterationStep, WhileReading, LenProperties DEF Inv, Iteration, Core, TypeOK
  <1>2. /\ Len(t) = Len(text) + 1 /\ t[Len(text) + 1] = ch
        /\ \A j \in 1 .. Len(text) : t[j] = text[j]
    BY <1>1, AppendProperties
  <1>3. \/ text' = t
        \/ text' = text /\ ec' = ec
    BY <1>1 DEF Moves, Decides, Consume, PutBack, Return
  <1> HIDE DEF t
  <1>4. CASE m_contexts # <<>>
    <2>1. Begun(text)
      BY <1>4
    <2>2. Begun(t)
      <3>1. \A j \in 1 .. Len(text) : j \in 1 .. Len(t)
        BY <1>1, <1>2
      <3>2. PICK j \in 1 .. Len(text) : /\ text[j] \notin Blanks \cup {end_array}
                                        /\ \A k \in 1 .. j - 1 : text[k] \in Blanks
        BY <2>1 DEF Begun
      <3>3. \A k \in 1 .. j - 1 : t[k] = text[k]
        BY <1>1, <1>2, <3>2
      <3>4. QED
        BY <1>2, <3>1, <3>2, <3>3 DEF Begun
    <2>3. QED
      BY <1>3, <2>1, <2>2
  <1>5. CASE m_contexts = <<>>
    <2>1. /\ \A j \in 1 .. Len(text) : text[j] \in Blanks
          /\ \/ m_current_state = "value"
             \/ m_current_state = "after_value_array" /\ ahead = <<end_array>>
      BY <1>1, <1>5, WhitespaceIsBlank DEF Inv, UndefinedOnlyOnStrayBracket, OnlyBlanks
    <2>2. CASE m_current_state = "after_value_array" /\ ahead = <<end_array>>
      <3>1. ahead # <<>> /\ ahead[1] = end_array
        BY <2>2, EmptySeq
      <3>2. UsesTop(ch)
        BY <1>1, <2>2, <3>1 DEF Reads, UsesTop
      <3>3. TopOfEmptyStack(ch)
        BY <1>5, <3>2 DEF Iteration
      <3>4. m_contexts' = <<>> /\ ec' = "undefined"
        BY <1>5, <3>3 DEF TopOfEmptyStack, Fail, Return
      <3>5. QED
        BY <3>4
    <2>3. CASE m_current_state = "value"
      <3>1. Value(ch)
        BY <2>3 DEF Iteration, UsesTop, Literal, StringValue, StringValueEscSeq, BeforeKey, Key,
           KeyEscSeq, BeforeValue, AfterValueObject, AfterValueArray
      <3>2. ASSUME text' = t, ch \notin Blanks \cup {end_array} PROVE Begun(text')
        <4>1. t[Len(text) + 1] \notin Blanks \cup {end_array}
          BY <1>2, <3>2
        <4>2. \A k \in 1 .. (Len(text) + 1) - 1 : t[k] \in Blanks
          BY <1>1, <1>2, <2>1
        <4>3. Len(text) + 1 \in 1 .. Len(t)
          BY <1>1, <1>2
        <4>4. Begun(t)
          BY <4>1, <4>2, <4>3 DEF Begun
        <4>5. QED
          BY <3>2, <4>4
      <3>3. CASE ch \in {begin_array, begin_object}
        <4>1. text' = t
          BY <3>1, <3>3 DEF Value, Open, Fail, Return, Consume, begin_array, begin_object,
             end_array, string_begin_end, t
        <4>2. ch \notin Blanks \cup {end_array}
          BY <3>3 DEF Blanks, begin_array, begin_object, end_array
        <4>3. QED
          BY <3>2, <4>1, <4>2
      <3>4. CASE ch = end_array
        <4>1. Reread(ch, "after_value_array")
          BY <3>1, <3>4 DEF Value, begin_array, begin_object, end_array, string_begin_end
        <4>2. m_contexts' = m_contexts /\ ec' = ec
          BY <4>1 DEF Reread, Goto, PutBack
        <4>3. QED
          BY <1>1, <1>5, <4>2
      <3>5. CASE ch \in Blanks
        <4>1. Skip(ch)
          BY <3>1, <3>5, WhitespaceIsBlank DEF Value, Blanks, begin_array, begin_object, end_array,
             string_begin_end
        <4>2. m_contexts' = m_contexts /\ ec' = ec
          BY <4>1 DEF Skip, Goto, Consume
        <4>3. QED
          BY <1>1, <1>5, <4>2
      <3>6. CASE ch \notin Blanks \cup {begin_array, begin_object, end_array}
        <4>1. Fail(ch, "no_top_level_node")
          BY <1>5, <3>1, <3>6, WhitespaceIsBlank DEF Value, InContainer
        <4>2. text' = t
          BY <4>1 DEF Fail, Return, t
        <4>3. QED
          BY <3>2, <3>6, <4>2
      <3>7. QED
        BY <3>3, <3>4, <3>5, <3>6
    <2>4. QED
      BY <2>1, <2>2, <2>3
  <1>6. QED
    BY <1>4, <1>5

\* An iteration of the loop over a chunk.
LEMMA ReadingIteration ==
    ASSUME DemoInv, IsReading, IsPlaced, ParseIteration
    PROVE  IsReading' /\ ec' \in {"running"} \cup Outcomes
  <1> DEFINE ch == Head(unread)
             n == Len(text)
             doc == Document(input, DefaultMaxLevels)
  <1>1. /\ pc = "parsing" /\ pc' = pc /\ unread # <<>> /\ Iteration(ch)
        /\ unread' = IF ahead' = <<>> THEN Tail(unread) ELSE unread
        /\ UNCHANGED <<input, taken, wild, old_ec>>
    BY DEF ParseIteration, ContinueAt
  <1>2. /\ input \in Seq(Chars) /\ Len(input) \in Nat /\ taken \in 0 .. Len(input)
        /\ unread \in Seq(Chars) /\ Len(unread) \in Nat \ {0} /\ ch = unread[1] /\ ch \in Chars
        /\ text \in Seq(Chars) /\ n \in Nat /\ Core
    BY <1>1, LenProperties, EmptySeq DEF DemoInv, DemoReadingInv, Core, TypeOK
  <1>3. /\ n + Len(unread) = taken
        /\ \A j \in 1 .. Len(unread) : unread[j] = input[n + j]
        /\ \A j \in 1 .. n : text[j] = input[j]
    BY <1>1 DEF IsReading, FromInput
  <1>4. Moves(ch) /\ UNCHANGED m_max_levels /\ ec = "running"
    BY <1>1, <1>2, IterationStep, WhileReading DEF Iteration
  <1>5. LanguageInv'
    BY <1>1, <1>2, LanguageStep DEF Next, IsReading
  <1>6. input[n + 1] = ch /\ n + 1 <= Len(input)
    BY <1>2, <1>3
  <1>7. \/ text' = Append(text, ch) /\ ahead' = <<>>
        \/ text' = text /\ ahead' = <<ch>> /\ ec' = ec
    BY <1>4 DEF Moves, Decides, Consume, PutBack, Return
  <1>8. /\ Len(Append(text, ch)) = n + 1 /\ Append(text, ch)[n + 1] = ch
        /\ \A j \in 1 .. n : Append(text, ch)[j] = text[j]
    BY <1>2, AppendProperties
  <1>9. /\ Len(Tail(unread)) = Len(unread) - 1
        /\ \A j \in 1 .. Len(Tail(unread)) : Tail(unread)[j] = unread[j + 1]
    BY <1>1, <1>2, HeadTailProperties
  <1>10. <<ch>> # <<>> /\ <<ch>>[1] = ch
    BY EmptySeq
  <1> HIDE DEF ch, n, doc
  <1>11. /\ Len(text') \in {n, n + 1} /\ Len(text') <= Len(input)
         /\ \A j \in 1 .. Len(text') : text'[j] = input[j]
         /\ text' \in Seq(Chars)
    <2>1. CASE text' = Append(text, ch)
      BY <1>2, <1>3, <1>6, <1>8, <2>1, AppendProperties DEF n
    <2>2. CASE text' = text
      BY <1>2, <1>3, <1>6, <2>2 DEF n
    <2>3. QED
      BY <1>7, <2>1, <2>2
  <1>12. FromInput'
    <2>1. CASE text' = Append(text, ch) /\ ahead' = <<>>
      <3>1. unread' = Tail(unread) /\ Len(text') = n + 1
        BY <1>1, <1>8, <2>1
      <3>2. Len(text') + Len(unread') = taken'
        <4>1. Len(unread') = Len(unread) - 1 /\ taken' = taken
          BY <1>1, <1>9, <3>1, Zenon
        <4>2. n \in Nat /\ Len(unread) \in Nat
          BY <1>2
        <4>3. n + Len(unread) = taken /\ Len(text') = n + 1
          BY <1>3, <3>1
        <4>4. QED
          BY <4>1, <4>2, <4>3
      <3>3. \A j \in 1 .. Len(unread') : unread'[j] = input[Len(text') + j]
        <4> SUFFICES ASSUME NEW j \in 1 .. Len(unread') PROVE unread'[j] = input[Len(text') + j]
          OBVIOUS
        <4>1. n \in Nat /\ Len(unread) \in Nat
          BY <1>2
        <4>2. j \in 1 .. Len(unread) - 1 /\ unread'[j] = unread[j + 1]
          BY <1>9, <3>1
        <4>3. j + 1 \in 1 .. Len(unread) /\ n + (j + 1) = Len(text') + j
          BY <3>1, <4>1, <4>2
        <4>4. QED
          BY <1>3, <4>2, <4>3
      <3>4. QED
        BY <1>1, <1>11, <2>1, <3>2, <3>3 DEF FromInput
    <2>2. CASE text' = text /\ ahead' = <<ch>>
      <3>1. unread' = unread
        BY <1>1, <1>10, <2>2
      <3>2. ahead'[1] = unread'[1]
        BY <1>2, <1>10, <2>2, <3>1
      <3>3. QED
        BY <1>1, <1>3, <1>11, <2>2, <3>1, <3>2 DEF FromInput, n
    <2>3. QED
      BY <1>7, <2>1, <2>2
  <1>13. Result(input)
    <2>1. ASSUME NEW u, u = input PROVE Result(u)
      <3>1. Continues(u)'
        <4>1. ahead' # <<>> => Len(text') + 1 <= Len(u) /\ u[Len(text') + 1] = ahead'[1]
          <5>1. ahead' # <<>> => text' = text /\ ahead'[1] = ch
            BY <1>7, <1>10
          <5>2. QED
            BY <1>6, <2>1, <5>1 DEF n
        <4>2. QED
          BY <1>11, <2>1, <4>1 DEF Continues
      <3>2. QED
        BY <1>1, <1>2, <2>1, <3>1, IterationMeans DEF IsReading
    <2>2. QED
      BY <2>1
  <1>14. m_max_levels = DefaultMaxLevels
    BY DEF IsReading
  <1>15. /\ ec' = "completed" => doc.value = root' /\ doc.next = Len(text') + 1
         /\ ec' \in Outcomes \ {"completed"} => ~Readable(doc)
    BY <1>13, <1>14 DEF Result, doc
  <1>16. m_contexts' # <<>> \/ ec' \in Outcomes \ {"undefined"} => Begun(text')
    BY <1>1, <1>2, BegunIteration DEF IsReading, LanguageInv
  <1>17. input \in Texts /\ Len(text') \in Nat
    BY <1>2, <1>11, TextsOfChars
  <1>18. ec' = "undefined" => Stray(input)
    <2>1. SUFFICES ASSUME ec' = "undefined" PROVE Stray(input)
      OBVIOUS
    <2> DEFINE m == Len(text')
    <2>2. /\ text'[m] = end_array
          /\ \A j \in 1 .. m - 1 : text'[j] \in Blanks
      BY <1>5, <2>1, WhitespaceIsBlank DEF LanguageInv, Inv, UndefinedOnlyOnStrayBracket, OnlyBlanks
    <2>3. text' = Append(text, ch) /\ m = n + 1
      <3>1. ec' # ec
        BY <1>4, <2>1
      <3>2. QED
        BY <1>7, <1>8, <3>1
    <2> HIDE DEF m
    <2>4. m \in 1 .. Len(input) /\ m \in 1 .. m /\ \A j \in 1 .. m - 1 : j \in 1 .. m
      BY <1>2, <1>6, <2>3
    <2>5. input[m] = end_array /\ \A j \in 1 .. m - 1 : input[j] \in Blanks
      BY <1>11, <2>2, <2>4 DEF m
    <2>6. end_array \notin Blanks
      BY DEF end_array, Blanks
    <2>7. QED
      BY <1>17, <2>4, <2>5, <2>6, FirstToken
  <1>19. ec' \in Outcomes \ {"undefined"} => ~Stray(input)
    BY <1>11, <1>16, <1>17, BegunIsNotStray
  <1>20. Judged'
    BY <1>1, <1>15, <1>18, <1>19 DEF Judged, doc
  <1>21. ec' \in {"running"} \cup Outcomes
    BY <1>4 DEF Moves, Decides, Consume, PutBack, Return
  <1>22. QED
    BY <1>4, <1>5, <1>12, <1>14, <1>16, <1>20, <1>21 DEF IsReading

LEMMA ReadingBegins == ASSUME NEW stdin \in Seq(Chars), DemoInit(stdin) PROVE ReaderInv
  <1>1. LanguageInv
    BY LanguageInit DEF DemoInit
  <1>2. /\ text = <<>> /\ unread = <<>> /\ ahead = <<>> /\ taken = 0 /\ m_contexts = <<>>
        /\ ec = "not_called" /\ root = DefaultContainer /\ pc = "reading" /\ status = "running"
        /\ m_max_levels = DefaultMaxLevels /\ input = stdin /\ old_ec = "completed"
        /\ read_errors = 0
    BY DEF DemoInit, Init
  <1>3. FromInput
    <2>1. Len(<<>>) = 0 /\ Len(stdin) \in Nat
      BY LenProperties, EmptySeq
    <2>2. QED
      BY <1>2, <2>1 DEF FromInput
  <1>4. Judged
    BY <1>2 DEF Judged, Outcomes, parser_error_codes
  <1>5. IsPlaced
    BY <1>2 DEF IsPlaced
  <1>6. QED
    BY <1>1, <1>2, <1>3, <1>4, <1>5 DEF ReaderInv, IsReading

\* What main reads into the buffer follows what the parser has seen.
LEMMA ReadReading ==
    ASSUME DemoInv, IsReading, IsPlaced, NEW n \in 1 .. BufferSize, Read(n)
    PROVE  IsReading' /\ IsPlaced'
  <1> DEFINE chunk == SubSeq(input, taken + 1, taken + n)
  <1>1. /\ pc = "reading" /\ pc' = "parsing" /\ status' = status /\ taken + n <= Len(input)
        /\ taken' = taken + n /\ unread' = chunk /\ wild' = FALSE /\ Parse /\ input' = input
    BY DEF Read, ParseChunk, ContinueAt
  <1>2. /\ ec' = "running"
        /\ UNCHANGED <<m_max_levels, m_contexts, text, ahead>>
    BY <1>1 DEF Parse
  <1>3. /\ input \in Seq(Chars) /\ Len(input) \in Nat /\ taken \in Nat /\ n \in Nat \ {0}
        /\ text \in Seq(Chars) /\ Len(text) \in Nat /\ ahead = <<>> /\ unread = <<>>
    BY <1>1, LenProperties, BufferSizeAssumption DEF DemoInv, DemoReadingInv, Core, TypeOK, IsPlaced
  <1>4. Len(chunk) = n /\ \A j \in 1 .. n : chunk[j] = input[taken + j]
    <2>1. \A i \in taken + 1 .. taken + n : input[i] \in Chars
      BY <1>1, <1>3, ElementOfSeq
    <2>2. /\ Len(chunk) = IF taken + 1 <= taken + n THEN (taken + n) - (taken + 1) + 1 ELSE 0
          /\ \A j \in 1 .. (taken + n) - (taken + 1) + 1 : chunk[j] = input[(taken + 1) + j - 1]
      BY <1>3, <2>1, SubSeqProperties
    <2> HIDE DEF chunk
    <2>3. (taken + n) - (taken + 1) + 1 = n /\ taken + 1 <= taken + n
      BY <1>3
    <2>4. \A j \in 1 .. n : (taken + 1) + j - 1 = taken + j
      BY <1>3
    <2>5. QED
      BY <2>2, <2>3, <2>4
  <1> HIDE DEF chunk
  <1>5. Len(text) = taken /\ Len(text) <= Len(input) /\ \A j \in 1 .. Len(text) : text[j] = input[j]
    <2>1. Len(text) + Len(<<>>) = taken /\ Len(<<>>) = 0
      BY <1>1, <1>3, EmptySeq DEF IsReading, FromInput
    <2>2. QED
      BY <1>3, <2>1 DEF IsReading, FromInput
  <1>6. FromInput'
    <2>1. Len(text') + Len(unread') = taken'
      BY <1>1, <1>2, <1>3, <1>4, <1>5
    <2>2. \A j \in 1 .. Len(unread') : unread'[j] = input'[Len(text') + j]
      BY <1>1, <1>2, <1>4, <1>5
    <2>3. Len(text') <= Len(input') /\ \A j \in 1 .. Len(text') : text'[j] = input'[j]
      BY <1>1, <1>2, <1>5
    <2>4. QED
      BY <1>2, <1>3, <2>1, <2>2, <2>3 DEF FromInput
  <1>7. LanguageInv'
    BY <1>1, LanguageStep DEF Next, IsReading
  <1>8. Judged'
    BY <1>2 DEF Judged, Outcomes, parser_error_codes
  <1>9. IsReading'
    BY <1>2, <1>6, <1>7, <1>8 DEF IsReading
  <1>10. taken' # 0
    BY <1>1, <1>3
  <1>11. IsPlaced'
    BY <1>1, <1>2, <1>10 DEF IsPlaced
  <1>12. QED
    BY <1>9, <1>11

LEMMA IterationReading ==
    ASSUME DemoInv, IsReading, IsPlaced, ParseIteration
    PROVE  IsReading' /\ IsPlaced'
  <1>1. IsReading' /\ ec' \in {"running"} \cup Outcomes
    BY ReadingIteration
  <1>2. /\ pc = "parsing" /\ pc' = pc /\ status' = status
        /\ UNCHANGED <<taken, wild>>
    BY DEF ParseIteration, ContinueAt
  <1>3. "more_data_needed" \notin Outcomes /\ "running" # "more_data_needed"
    BY DEF Outcomes
  <1>4. ec' # "more_data_needed" /\ ec' \in {"running", "more_data_needed"} \cup Outcomes
    BY <1>1, <1>3
  <1>5. IsPlaced'
    BY <1>2, <1>4 DEF IsPlaced
  <1>6. QED
    BY <1>1, <1>5

LEMMA ChunkEndReading ==
    ASSUME DemoInv, IsReading, IsPlaced, ParseEnds
    PROVE  IsReading' /\ IsPlaced'
  <1>1. /\ pc = "parsing" /\ pc' = pc /\ status' = status /\ unread = <<>>
        /\ UNCHANGED <<input, taken, unread, wild>> /\ EndOfInput
    BY DEF ParseEnds, ContinueAt, IsPlaced, inputVars
  <1>2. ec' = "more_data_needed" /\ UNCHANGED <<m_max_levels, m_contexts, text, ahead>>
    BY <1>1 DEF EndOfInput
  <1>3. LanguageInv'
    BY <1>1, LanguageStep DEF Next, IsReading
  <1>4. FromInput'
    BY <1>1, <1>2 DEF IsReading, FromInput
  <1>5. Judged'
    BY <1>2 DEF Judged, Outcomes, parser_error_codes
  <1>6. IsPlaced'
    BY <1>1, <1>2 DEF IsPlaced
  <1>7. QED
    BY <1>2, <1>3, <1>4, <1>5, <1>6 DEF IsReading

\* What does not concern the parser leaves what it has read as it is.
LEMMA ReadingStays ==
    ASSUME IsReading, UNCHANGED <<vars, input>>,
           \/ UNCHANGED <<taken, unread>> /\ (pc' \in {"reading", "parsing"} => pc = "parsing")
           \/ pc' \notin {"reading", "parsing"} /\ ahead = <<>>
    PROVE  IsReading'
  <1>1. LanguageInv'
    BY LanguageStep DEF IsReading
  <1>2. UNCHANGED <<m_max_levels, m_contexts, root, ec, text, ahead>>
    BY DEF vars
  <1>3. FromInput'
    BY <1>2 DEF IsReading, FromInput
  <1>4. Judged'
    BY <1>2 DEF IsReading, Judged
  <1>5. QED
    BY <1>1, <1>2, <1>3, <1>4 DEF IsReading

LEMMA ResultReading ==
    ASSUME DemoInv, IsReading, IsPlaced, ParseResult
    PROVE  IsReading' /\ IsPlaced'
  <1>1. /\ pc = "parsing" /\ ec # "running" /\ UNCHANGED <<input, taken, vars>>
        /\ taken # 0 /\ taken \in 0 .. Len(input)
    BY DEF ParseResult, ConstructSerializer, IsPlaced, DemoInv, DemoReadingInv
  <1>2. ahead = <<>> /\ ec' = ec /\ text' = text
    BY <1>1 DEF DemoInv, Core, StateFitsStack, PutBackFits, vars
  <1>3. input # <<>>
    <2>1. Len(<<>>) = 0
      BY EmptySeq
    <2>2. QED
      BY <1>1, <2>1
  <1>4. CASE ec = "completed" /\ ConstructSerializer
    <2>1. pc' = "serialize" /\ status' = status
      BY <1>4 DEF ConstructSerializer, ContinueAt
    <2>2. IsPlaced'
      BY <1>1, <1>2, <1>3, <1>4, <2>1 DEF IsPlaced
    <2>3. QED
      BY <1>1, <1>2, <2>1, <2>2, ReadingStays
  <1>5. CASE /\ ec = "more_data_needed" /\ old_ec' = ec /\ ContinueAt("reading")
             /\ UNCHANGED <<vars, in_buffer, unread, wild, writerVars, outputVars>>
    <2>1. pc' = "reading" /\ status' = status /\ unread' = unread /\ unread = <<>>
      BY <1>1, <1>5 DEF ContinueAt, IsPlaced
    <2>2. IsPlaced'
      BY <1>1, <1>2, <1>5, <2>1 DEF IsPlaced
    <2>3. QED
      BY <1>1, <2>1, <2>2, ReadingStays
  <1>6. CASE /\ ec \notin {"completed", "more_data_needed"}
             /\ Exit(IF ec = "undefined" THEN "undefined" ELSE "failure")
             /\ UNCHANGED <<vars, inputVars, writerVars, outputVars>>
    <2>1. pc' = "exited" /\ status' = IF ec = "undefined" THEN "undefined" ELSE "failure"
      BY <1>6 DEF Exit
    <2>2. ec \in Outcomes \ {"completed"}
      BY <1>1, <1>6 DEF IsPlaced
    <2>3. IsPlaced'
      BY <1>1, <1>2, <1>3, <2>1, <2>2 DEF IsPlaced
    <2>4. QED
      BY <1>1, <1>2, <2>1, <2>3, ReadingStays
  <1>7. QED
    BY <1>4, <1>5, <1>6 DEF ParseResult

LEMMA EndOfFileReading ==
    ASSUME DemoInv, IsReading, IsPlaced, EndOfFile
    PROVE  IsReading' /\ IsPlaced'
  <1>1. /\ pc = "reading" /\ taken = Len(input) /\ UNCHANGED <<input, taken, vars>>
        /\ ahead = <<>> /\ input \in Seq(Chars) /\ Len(input) \in Nat /\ unread = <<>>
    BY LenProperties DEF EndOfFile, ConstructSerializer, DemoInv, DemoReadingInv, IsPlaced, inputVars
  <1>2. ec' = ec /\ text' = text /\ root' = root
    BY <1>1 DEF vars
  <1>3. CASE old_ec # "completed"
    <2>1. Exit("failure") /\ UNCHANGED <<inputVars, outputVars>>
      BY <1>3 DEF EndOfFile
    <2>2. pc' = "exited" /\ status' = "failure"
      BY <2>1 DEF Exit
    <2>3. ec = "more_data_needed" /\ taken # 0
      BY <1>1, <1>3 DEF IsPlaced
    <2>4. Len(text) = Len(input) /\ input # <<>>
      <3>1. Len(text) + Len(<<>>) = taken /\ Len(<<>>) = 0 /\ Len(text) \in Nat
        BY <1>1, EmptySeq, LenProperties DEF IsReading, FromInput, DemoInv, Core, TypeOK
      <3>2. QED
        BY <1>1, <2>3, <3>1
    <2>5. IsPlaced'
      BY <1>1, <1>2, <2>2, <2>3, <2>4 DEF IsPlaced
    <2>6. QED
      BY <1>1, <2>2, <2>5, ReadingStays
  <1>4. CASE old_ec = "completed"
    <2>1. ConstructSerializer
      BY <1>4 DEF EndOfFile
    <2>2. pc' = "serialize" /\ status' = status
      BY <2>1 DEF ConstructSerializer, ContinueAt
    <2>3. taken = 0 /\ root = DefaultContainer
      BY <1>1, <1>4 DEF IsPlaced
    <2>4. input = <<>>
      BY <1>1, <2>3, EmptySeq
    <2>5. IsPlaced'
      BY <1>1, <1>2, <2>2, <2>3, <2>4 DEF IsPlaced
    <2>6. QED
      BY <1>1, <2>2, <2>5, ReadingStays
  <1>5. QED
    BY <1>3, <1>4

\* The loops of output.
LEMMA OutputReading ==
    ASSUME DemoInv, IsReading, IsPlaced,
           \/ Serialize \/ SerializeIteration \/ SerializeResult \/ BlockWritten
           \/ WriteNothing \/ WriteFails
           \/ \E n \in 1 .. BufferSize + MaxErrors : Write(n)
    PROVE  IsReading' /\ IsPlaced'
  <1>1. /\ pc \in {"serialize", "serializing", "writing"} /\ UNCHANGED <<vars, input>>
        /\ pc' \in {"serialize", "serializing", "writing", "exited"}
    BY DEF Serialize, SerializeIteration, SerializeResult, BlockWritten, WriteNothing, WriteFails,
       Write, ContinueAt, Exit, inputVars
  <1>2. ahead = <<>> /\ ec' = ec /\ root' = root /\ status = "running"
    BY <1>1 DEF DemoInv, DemoReadingInv, vars, IsPlaced
  <1>3. IsReading'
    BY <1>1, <1>2, ReadingStays
  <1>4. \/ input = <<>> /\ root = DefaultContainer
        \/ input # <<>> /\ ec = "completed"
    BY <1>1 DEF IsPlaced
  <1>5. ASSUME pc' # "exited", status' = status, pc' = "serializing" => s_ec' # "not_called",
               pc' = "writing" => s_ec' \in {"buffer_is_full", "completed"}
        PROVE  IsPlaced'
    BY <1>1, <1>2, <1>4, <1>5 DEF IsPlaced
  <1>6. CASE Serialize
    BY <1>3, <1>5, <1>6 DEF Serialize, ContinueAt, S!PassBuffer, S!serialize
  <1>7. CASE SerializeIteration
    <2>1. pc' = "serializing" /\ status' = status /\ S!Iteration
      BY <1>7 DEF SerializeIteration, ContinueAt
    <2>2. s_ec' \in {"running", "buffer_is_full", "completed", "illegal_char_in_string"}
      BY <2>1 DEF S!Iteration, S!BufferIsFull, S!Completed, S!WritePart, S!EndBlock,
         S!WriteElement, S!IllegalChar, S!WriteAll, S!write_buffer
    <2>3. QED
      BY <1>3, <1>5, <2>1, <2>2
  <1>8. CASE SerializeResult
    <2>1. pc = "serializing" /\ pc' = "writing" /\ status' = status /\ s_ec # "running" /\ s_ec' = s_ec
      BY <1>8 DEF SerializeResult, ContinueAt, writerVars
    <2>2. s_ec \in {"buffer_is_full", "completed"}
      BY <2>1 DEF IsPlaced, DemoInv, WriterInv
    <2>3. QED
      BY <1>3, <1>5, <2>1, <2>2
  <1>9. CASE WriteFails \/ \E n \in 1 .. BufferSize + MaxErrors : Write(n)
    <2>1. pc = "writing" /\ pc' = pc /\ status' = status /\ s_ec' = s_ec
      BY <1>9 DEF WriteFails, Write, ContinueAt, writerVars
    <2>2. s_ec \in {"buffer_is_full", "completed"}
      BY <2>1 DEF IsPlaced
    <2>3. QED
      BY <1>3, <1>5, <2>1, <2>2
  <1>10. CASE WriteNothing
    <2>1. pc' = "exited" /\ status' = "failure" /\ bytes_to_write' # 0
      BY <1>10 DEF WriteNothing, Exit, outputVars
    <2>2. IsPlaced'
      BY <1>1, <1>2, <2>1 DEF IsPlaced
    <2>3. QED
      BY <1>3, <2>2
  <1>11. CASE BlockWritten
    <2>1. pc = "writing" /\ s_ec' = s_ec /\ s_ec \in {"buffer_is_full", "completed"}
      BY <1>11 DEF BlockWritten, writerVars, IsPlaced
    <2>2. CASE s_ec = "completed"
      <3>1. Exit("success")
        BY <1>11, <2>2 DEF BlockWritten
      <3>2. pc' = "exited" /\ status' = "success"
        BY <3>1 DEF Exit
      <3>3. IsPlaced'
        BY <1>1, <1>2, <1>4, <3>2 DEF IsPlaced
      <3>4. QED
        BY <1>3, <3>3
    <2>3. CASE s_ec = "buffer_is_full"
      <3>1. ContinueAt("serialize")
        BY <1>11, <2>3 DEF BlockWritten
      <3>2. pc' = "serialize" /\ status' = status
        BY <3>1 DEF ContinueAt
      <3>3. QED
        BY <1>3, <1>5, <3>2
    <2>4. QED
      BY <2>1, <2>2, <2>3
  <1>12. QED
    BY <1>3, <1>6, <1>7, <1>8, <1>9, <1>10, <1>11

LEMMA ReaderNext == DemoInv /\ ReaderInv /\ [DemoNext]_demoVars => ReaderInv'
  <1> SUFFICES ASSUME DemoInv, ReaderInv, [DemoNext]_demoVars PROVE ReaderInv'
    OBVIOUS
  <1>1. CASE ReadFails
    <2>1. read_errors' = read_errors + 1
      BY <1>1 DEF ReadFails
    <2>2. QED
      BY <2>1 DEF ReaderInv
  <1>2. ASSUME UNCHANGED read_errors, IsReading /\ IsPlaced => IsReading' /\ IsPlaced'
        PROVE  ReaderInv'
    BY <1>2 DEF ReaderInv
  <1>3. CASE ParseIteration
    BY <1>2, <1>3, IterationReading DEF ParseIteration
  <1>4. CASE ParseEnds
    BY <1>2, <1>4, ChunkEndReading DEF ParseEnds, inputVars
  <1>5. CASE ParseResult
    BY <1>2, <1>5, ResultReading DEF ParseResult
  <1>6. CASE EndOfFile
    BY <1>2, <1>6, EndOfFileReading DEF EndOfFile, inputVars
  <1>7. CASE \E n \in 1 .. BufferSize : Read(n)
    BY <1>2, <1>7, ReadReading DEF Read
  <1>8. CASE \/ Serialize \/ SerializeIteration \/ SerializeResult \/ BlockWritten
             \/ WriteNothing \/ WriteFails
             \/ \E n \in 1 .. BufferSize + MaxErrors : Write(n)
    <2>1. UNCHANGED read_errors
      BY <1>8 DEF Serialize, SerializeIteration, SerializeResult, BlockWritten, WriteNothing,
         WriteFails, Write, inputVars
    <2>2. QED
      BY <1>2, <1>8, <2>1, OutputReading
  <1>9. CASE UNCHANGED demoVars
    <2>1. /\ UNCHANGED <<vars, input, taken, unread, wild, old_ec, read_errors, pc, status>>
          /\ UNCHANGED <<s_ec, bytes_to_write>>
      BY <1>9 DEF demoVars, inputVars, writerVars, outputVars
    <2>2. UNCHANGED <<ec, root, text, ahead>>
      BY <2>1 DEF vars
    <2>3. IsPlaced => IsPlaced'
      BY <2>1, <2>2 DEF IsPlaced
    <2>4. IsReading => IsReading'
      <3>1. IsReading => LanguageInv'
        BY <2>1, LanguageStep DEF IsReading
      <3>2. UNCHANGED <<m_max_levels, m_contexts>>
        BY <2>1 DEF vars
      <3>3. (FromInput => FromInput') /\ (Judged => Judged')
        BY <2>1, <2>2 DEF FromInput, Judged
      <3>4. QED
        BY <2>2, <3>1, <3>2, <3>3 DEF IsReading
    <2>5. QED
      BY <1>2, <2>1, <2>3, <2>4
  <1>10. QED
    BY <1>1, <1>3, <1>4, <1>5, <1>6, <1>7, <1>8, <1>9 DEF DemoNext, Compute, Transfer, Fault

LEMMA ReaderInvariance == DemoSpec => []ReaderInv
  <1>1. (\E stdin \in Seq(Chars) : DemoInit(stdin)) => ReaderInv
    BY ReadingBegins
  <1>2. QED
    BY <1>1, ReaderNext, DemoInvariance, PTL DEF DemoSpec

\* What the end of the program says of the input.
LEMMA ReadAll ==
    ASSUME DemoInv, ReaderInv, status # "running", ~CallFailed
    PROVE  LET doc == Document(input, DefaultMaxLevels)
           IN  IF Readable(doc)
               THEN status = "success" /\ root = doc.value /\ text = SubSeq(input, 1, doc.next - 1)
               ELSE status = IF input = <<>> THEN "success"
                             ELSE IF Stray(input) THEN "undefined" ELSE "failure"
  <1> DEFINE doc == Document(input, DefaultMaxLevels)
  <1>1. read_errors = 0 /\ ~(status = "failure" /\ bytes_to_write # 0)
    BY DEF CallFailed, ReaderInv, DemoInv, DemoWritingInv
  <1>2. IsReading /\ IsPlaced
    BY <1>1 DEF ReaderInv
  <1>3. pc = "exited"
    BY <1>2 DEF IsPlaced
  <1>4. /\ input \in Seq(Chars) /\ Len(input) \in Nat /\ input \in Texts
        /\ text \in Seq(Chars) /\ Len(text) \in Nat /\ text \in Texts
    BY LenProperties, TextsOfChars DEF DemoInv, DemoReadingInv, Core, TypeOK
  <1>5. Len(text) <= Len(input) /\ \A j \in 1 .. Len(text) : text[j] = input[j]
    BY <1>2 DEF IsReading, FromInput
  <1>6. CASE status = "success" /\ input = <<>>
    <2>1. \A j \in 1 .. Len(input) : input[j] \in Blanks
      BY <1>6, EmptySeq
    <2>2. ~Readable(doc)
      BY <1>4, <2>1, NoDocument
    <2>3. QED
      BY <1>6, <2>2
  <1>7. CASE status = "success" /\ input # <<>>
    <2>1. ec = "completed" /\ doc.value = root /\ doc.next = Len(text) + 1
      BY <1>2, <1>7 DEF IsPlaced, IsReading, Judged
    <2> HIDE DEF doc
    <2>2. Readable(doc) /\ doc.next - 1 = Len(text)
      BY <1>4, <2>1 DEF Readable
    <2>3. SubSeq(input, 1, Len(text)) = text
      <3>1. \A i \in 1 .. Len(text) : input[i] \in Chars
        BY <1>4, <1>5, ElementOfSeq
      <3>2. SubSeq(input, 1, Len(text)) = [i \in 1 .. Len(text) |-> input[i]]
        BY <1>4, <1>5
      <3>3. text = [i \in 1 .. Len(text) |-> text[i]]
        BY <1>4, LenProperties
      <3>4. QED
        BY <1>5, <3>2, <3>3
    <2>4. QED
      BY <1>7, <2>1, <2>2, <2>3 DEF doc
  <1>8. CASE status = "undefined" /\ ec = "undefined" /\ input # <<>>
    <2>1. "undefined" \in Outcomes \ {"completed"}
      BY DEF Outcomes
    <2>2. ~Readable(doc) /\ Stray(input)
      BY <1>2, <1>8, <2>1 DEF IsReading, Judged
    <2>3. QED
      BY <1>8, <2>2
  <1>9. CASE status = "failure" /\ input # <<>> /\ ec \in Outcomes \ {"completed", "undefined"}
    <2>1. ~Readable(doc) /\ ~Stray(input)
      BY <1>2, <1>9 DEF IsReading, Judged
    <2>2. QED
      BY <1>9, <2>1
  <1>10. CASE status = "failure" /\ input # <<>> /\ ec = "more_data_needed" /\ Len(text) = Len(input)
    <2>1. text = input
      <3>1. text = [i \in 1 .. Len(text) |-> text[i]] /\ input = [i \in 1 .. Len(input) |-> input[i]]
        BY <1>4, LenProperties
      <3>2. QED
        BY <1>5, <1>10, <3>1
    <2>2. ~Readable(doc)
      BY <1>2, <1>10, <2>1 DEF IsReading, LanguageInv, AcceptedExactly
    <2>3. ~Stray(input)
      <3>1. CASE m_contexts # <<>>
        BY <1>2, <1>4, <1>5, <3>1, BegunIsNotStray DEF IsReading
      <3>2. CASE m_contexts = <<>>
        <4>1. ec \notin Outcomes
          BY <1>10 DEF Outcomes
        <4>2. \A j \in 1 .. Len(text) : text[j] \in Blanks
          BY <1>2, <3>2, <4>1, WhitespaceIsBlank DEF IsReading, LanguageInv, Inv,
             UndefinedOnlyOnStrayBracket, OnlyBlanks
        <4>3. QED
          BY <1>4, <2>1, <4>2, BlankIsNotStray
      <3>3. QED
        BY <3>1, <3>2
    <2>4. QED
      BY <1>10, <2>2, <2>3
  <1>11. QED
    BY <1>1, <1>2, <1>3, <1>6, <1>7, <1>8, <1>9, <1>10 DEF IsPlaced

\* However the input is cut into chunks: if no call fails, a document is read
\* to its end and its container passed on, no input at all is taken for an
\* empty object, and every other input makes the program fail.
THEOREM DemoReads == DemoSpec => []ReadsTheDocument
  <1>1. DemoInv /\ ReaderInv => ReadsTheDocument
    BY ReadAll DEF ReadsTheDocument, Stray
  <1>2. QED
    BY <1>1, DemoInvariance, ReaderInvariance, PTL
-----------------------------------------------------------------------------
(* The loop that writes is the one of to_string, whose pieces are appended *)
(* to standard output instead.                                             *)

\* The containers there is a layout of.
Containers == {value \in Values : value.type \in ContainerTypes}

\* What is put together there is here what the blocks before this one hold.
D == INSTANCE SerializerProofs WITH
        m_contexts <- s_contexts, m_range_to_write <- s_range, ec <- s_ec,
        m_pretty_print <- s_pretty_print, Roots <- Containers,
        Sizes <- {BufferSize}, BufferSizes <- {BufferSize}, document <- out,
        buffer_size <- BufferSize, ret <- SubSeq(out, 1, Len(out) - Filled),
        overload <- "template", outcome <- "calling"

\* What the proofs about the serializer assume of the constants.
WritingAssumptions ==
    /\ nullopt \notin STRING \cup Seq(STRING)
    /\ D!FormatChars \subseteq STRING
    /\ \A literal \in DOMAIN Literals :
        /\ literal \in Seq(STRING)
        /\ Literals[literal] # nullopt
        /\ Literals[literal].type \in {"null", "boolean", "number"}
    /\ DOMAIN Code \subseteq STRING
    /\ \A a, b \in DOMAIN Code : Code[a] \in Int /\ (a # b => Code[a] # Code[b])
    /\ {BufferSize} \subseteq Nat
    /\ {BufferSize} \subseteq Nat \ {0}
    /\ \A value \in Containers : value \in Values /\ D!IsContainer(value)
    /\ \A value \in Values : D!IsValueOver(value, Values)
    /\ \A value \in Values :
        /\ Height(value) \in Nat
        /\ \A held \in D!Held(value) : Height(held) < Height(value)
    /\ D!Stop \notin DOMAIN Code
    /\ \A literal \in DOMAIN Literals : D!Stop \notin D!Range(literal)

LEMMA WritingAssumptionsHold == WritingAssumptions
  <1>1. D!FormatChars \subseteq STRING
    BY FormatCharsAssumption DEF D!FormatChars, FormatChars, D!begin_array, begin_array,
       D!begin_object, begin_object, D!end_array, end_array, D!end_object, end_object,
       D!name_separator, name_separator, D!value_separator, value_separator,
       D!string_begin_end, string_begin_end, D!begin_esc_seq, begin_esc_seq, D!Newline, Newline
  <1>2. \A value \in Containers : value \in Values /\ D!IsContainer(value)
    BY DEF Containers, D!IsContainer, D!ContainerTypes, ContainerTypes
  <1>3. \A value \in Values : D!IsValueOver(value, Values)
    BY ValuesAssumption DEF D!IsValueOver, IsValueOver, D!IsText, IsText,
       D!IsFiniteSet, IsFiniteSet, D!Array, Array, D!Object, Object, D!String, String
  <1>4. \A value : D!Held(value) = Held(value)
    BY DEF D!Held, Held
  <1>5. \A literal : D!Range(literal) = Range(literal)
    BY DEF D!Range, Range
  <1>6. D!Stop = Stop
    BY DEF D!Stop, Stop
  <1>7. /\ nullopt \notin STRING \cup Seq(STRING)
        /\ \A literal \in DOMAIN Literals :
              /\ literal \in Seq(STRING)
              /\ Literals[literal] # nullopt
              /\ Literals[literal].type \in {"null", "boolean", "number"}
    BY NulloptAssumption, LiteralsAssumption
  <1>8. /\ DOMAIN Code \subseteq STRING
        /\ \A a, b \in DOMAIN Code : Code[a] \in Int /\ (a # b => Code[a] # Code[b])
    BY CodeAssumption
  <1>9. \A value \in Values :
           /\ Height(value) \in Nat
           /\ \A held \in D!Held(value) : Height(held) < Height(value)
    BY <1>4, HeightAssumption
  <1>10. D!Stop \notin DOMAIN Code /\ \A literal \in DOMAIN Literals : D!Stop \notin D!Range(literal)
    BY <1>5, <1>6, StopAssumption
  <1>11. {BufferSize} \subseteq Nat /\ {BufferSize} \subseteq Nat \ {0}
    BY BufferSizeAssumption
  <1>12. QED
    BY <1>1, <1>2, <1>3, <1>7, <1>8, <1>9, <1>10, <1>11 DEF WritingAssumptions

\* Its operators are those of the serializer of the program.
LEMMA SameSerializer ==
    /\ S!Iteration => D!Iteration
    /\ S!PassBuffer(BufferSize) => D!serialize(BufferSize) /\ s_ec = "buffer_is_full"
    /\ \A c : S!BlockStart(c) = D!BlockStart(c)
    /\ \A c : S!make_serializer_context(c) = D!make_serializer_context(c)
  <1>1. S!Iteration => D!Iteration
    BY Zenon DEF S!Iteration, D!Iteration, D!BufferIsFull, S!BufferIsFull, D!Completed, S!Completed,
       D!EndBlock, S!EndBlock, D!IllegalChar, S!IllegalChar, D!WriteElement, S!WriteElement,
       D!WritePart, S!WritePart, D!BlockEnd, S!BlockEnd, D!Front, S!Front,
       D!HasIllegalChar, S!HasIllegalChar, D!IsContainer, S!IsContainer, D!KeyText, S!KeyText,
       D!Last, S!Last, D!Popped, S!Popped, D!PrettyTabs, S!PrettyTabs, D!Rest, S!Rest,
       D!Separator, S!Separator, D!ValueText, S!ValueText, D!WriteAll, S!WriteAll,
       D!make_serializer_context, S!make_serializer_context, D!members, S!members,
       D!write_buffer, S!write_buffer, D!BlockStart, S!BlockStart,
       D!ContainerTypes, S!ContainerTypes, D!Count, S!Count, D!Elements, S!Elements,
       D!Newline, S!Newline, D!PrettyNewline, S!PrettyNewline, D!begin_array, S!begin_array,
       D!begin_object, S!begin_object, D!end_array, S!end_array, D!end_object, S!end_object,
       D!name_separator, S!name_separator, D!to_string, S!to_string,
       D!value_separator, S!value_separator, D!wrap_string, S!wrap_string,
       D!InOrder, S!InOrder, D!Min, S!Min, D!escape, S!escape,
       D!string_begin_end, S!string_begin_end, D!Cardinality, S!Cardinality,
       D!FlattenSeq, S!FlattenSeq, D!Less, S!Less, D!begin_esc_seq, S!begin_esc_seq,
       D!char_should_be_escaped, S!char_should_be_escaped, D!get_escape_char, S!get_escape_char
  <1>2. S!PassBuffer(BufferSize) => D!serialize(BufferSize) /\ s_ec = "buffer_is_full"
    BY DEF S!PassBuffer, S!serialize, D!serialize, D!members, S!members
  <1>3. \A c : S!BlockStart(c) = D!BlockStart(c)
    BY DEF S!BlockStart, D!BlockStart, D!PrettyNewline, S!PrettyNewline, D!Newline, S!Newline
  <1>4. \A c : S!make_serializer_context(c) = D!make_serializer_context(c)
    BY DEF S!make_serializer_context, D!make_serializer_context, D!Elements, S!Elements,
       D!begin_array, S!begin_array, D!begin_object, S!begin_object,
       D!end_array, S!end_array, D!end_object, S!end_object, D!InOrder, S!InOrder,
       D!Cardinality, S!Cardinality, D!Less, S!Less
  <1>5. QED
    BY <1>1, <1>2, <1>3, <1>4

\* Its layout is made of the same parts,
LEMMA SameParts ==
    /\ \A pairs, i, depth, pretty, table :
          D!PartOf(pairs, i, depth, pretty, table) = PartOf(pairs, i, depth, pretty, table)
    /\ \A value : D!Pairs(value) = Pairs(value)
    /\ \A s : D!FlattenSeq(s) = FlattenSeq(s)
    /\ \A s : D!wrap_string(s) = wrap_string(s)
    /\ \A value : D!to_string(value) = to_string(value)
  <1>1. \A key, value : D!Unwritable(key, value) = Unwritable(key, value)
    BY DEF D!Unwritable, Unwritable, D!HasControlCode, HasControlCode
  <1>2. \A s : D!wrap_string(s) = wrap_string(s)
    BY DEF D!wrap_string, wrap_string, D!escape, escape, D!string_begin_end, string_begin_end,
       D!FlattenSeq, FlattenSeq, D!begin_esc_seq, begin_esc_seq,
       D!char_should_be_escaped, char_should_be_escaped, D!get_escape_char, get_escape_char
  <1>3. \A key, pretty : D!KeyPart(key, pretty) = KeyPart(key, pretty)
    BY <1>2 DEF D!KeyPart, KeyPart, D!name_separator, name_separator
  <1>4. ASSUME NEW pairs, NEW i, NEW depth, NEW pretty, NEW table
        PROVE  D!PartOf(pairs, i, depth, pretty, table) = PartOf(pairs, i, depth, pretty, table)
    <2>1. D!Unwritable(pairs[i].key, pairs[i].value) = Unwritable(pairs[i].key, pairs[i].value)
      BY <1>1
    <2>2. D!KeyPart(pairs[i].key, pretty) = KeyPart(pairs[i].key, pretty)
      BY <1>3
    <2>3. /\ D!LineBreak(pretty) = LineBreak(pretty) /\ D!Indent(depth, pretty) = Indent(depth, pretty)
          /\ D!Place(pairs[i].value, depth, pretty) = Place(pairs[i].value, depth, pretty)
          /\ D!Stop = Stop /\ D!value_separator = value_separator
      BY DEF D!LineBreak, LineBreak, D!Indent, Indent, D!Place, Place, D!Newline, Newline,
         D!Stop, Stop, D!value_separator, value_separator
    <2>4. QED
      BY <2>1, <2>2, <2>3, Zenon DEF D!PartOf, PartOf
  <1>5. \A keys : D!Sorted(keys) = Sorted(keys)
    BY DEF D!Sorted, Sorted, D!Before, Before, D!CodesOf, CodesOf, D!SetToSeqs, SetToSeqs,
       D!Cardinality, Cardinality, D!IsStrictPrefix, IsStrictPrefix, D!IsPrefix, IsPrefix,
       D!IsFiniteSet, IsFiniteSet, D!IsInjective, IsInjective
  <1>6. \A value : D!Pairs(value) = Pairs(value)
    BY <1>5 DEF D!Pairs, Pairs
  <1>7. \A s : D!FlattenSeq(s) = FlattenSeq(s)
    BY DEF D!FlattenSeq, FlattenSeq
  <1>8. \A value : D!to_string(value) = to_string(value)
    BY DEF D!to_string, to_string
  <1>9. QED
    BY <1>2, <1>4, <1>6, <1>7, <1>8

LEMMA SameLayoutOf ==
    ASSUME NEW at, NEW table
    PROVE  D!LayoutOf(at, table) = LayoutOf(at, table)
  <1>1. D!PartsOf(at, table) = PartsOf(at, table)
    BY SameParts DEF D!PartsOf, PartsOf
  <1>2. QED
    BY <1>1, SameParts DEF D!LayoutOf, LayoutOf, D!ContainerTypes, ContainerTypes,
       D!Opening, Opening, D!Closing, Closing, D!LineBreak, LineBreak, D!Indent, Indent,
       D!begin_array, begin_array, D!begin_object, begin_object, D!end_array, end_array,
       D!end_object, end_object, D!Newline, Newline

\* each place being made of others,
LEMMA LayoutIs ==
    \A at \in Places :
        Layout[at] = LayoutOf(at, Layout) /\ D!Layout[at] = LayoutOf(at, D!Layout)
  <1> DEFINE Solves(f) == f = [at \in Places |-> LayoutOf(at, f)]
  <1>1. WritingAssumptions
    BY WritingAssumptionsHold
  <1>2. D!Places = Places
    BY DEF D!Places, Places
  <1>3. D!Layout = [at \in D!Places |-> D!LayoutOf(at, D!Layout)]
    BY <1>1, D!LayoutEquation DEF WritingAssumptions
  <1>4. Solves(D!Layout)
    <2>1. \A at \in Places : D!LayoutOf(at, D!Layout) = LayoutOf(at, D!Layout)
      BY SameLayoutOf
    <2>2. QED
      BY <1>2, <1>3, <2>1
  <1>5. Layout = CHOOSE f : Solves(f)
    BY DEF Layout
  <1>6. Solves(Layout)
    <2> HIDE DEF Solves
    <2>1. QED
      BY <1>4, <1>5
  <1>7. QED
    BY <1>4, <1>6

\* and so it is the same, as there is only one table of all places.
LEMMA SameLayout ==
    \A at \in Places : D!Layout[at] = Layout[at]
  <1> DEFINE Solves(f) == \A at \in Places : f[at] = LayoutOf(at, f)
  <1>1. WritingAssumptions
    BY WritingAssumptionsHold
  <1>2. Solves(D!Layout) /\ Solves(Layout)
    BY LayoutIs
  <1>3. ASSUME NEW f, Solves(f), NEW n \in Nat PROVE D!IsLayout(f, n)
    <2>1. ASSUME NEW value \in Values, NEW depth \in Nat, NEW pretty \in BOOLEAN
          PROVE  f[D!Place(value, depth, pretty)] = D!LayoutOf(D!Place(value, depth, pretty), f)
      <3>1. D!Place(value, depth, pretty) \in Places
        BY DEF D!Place, Places
      <3>2. f[D!Place(value, depth, pretty)] = LayoutOf(D!Place(value, depth, pretty), f)
        BY <1>3, <3>1
      <3>3. QED
        BY <3>2, SameLayoutOf
    <2>2. QED
      BY <2>1 DEF D!IsLayout, D!Below
  <1>4. ASSUME NEW at \in Places PROVE D!Layout[at] = Layout[at]
    <2> DEFINE n == Height(at.value) + 1
    <2>1. /\ at.value \in Values /\ at.depth \in Nat /\ at.pretty \in BOOLEAN
          /\ at = D!Place(at.value, at.depth, at.pretty)
      BY DEF Places, D!Place
    <2>2. n \in Nat /\ Height(at.value) < n
      BY <2>1, HeightAssumption
    <2> HIDE DEF n
    <2>3. at.value \in D!Below(n)
      BY <2>1, <2>2 DEF D!Below
    <2>4. D!IsLayout(D!Layout, n) /\ D!IsLayout(Layout, n) /\ n <= n
      BY <1>2, <1>3, <2>2
    <2>5. D!Agree(D!Layout, Layout, D!Below(n))
      BY <1>1, <2>2, <2>4, D!LayoutsAgree DEF WritingAssumptions
    <2>6. D!Layout[D!Place(at.value, at.depth, at.pretty)] = Layout[D!Place(at.value, at.depth, at.pretty)]
      BY <2>1, <2>3, <2>5 DEF D!Agree
    <2>7. QED
      BY <2>1, <2>6
  <1>5. QED
    BY <1>4

LEMMA SameDocumentOf ==
    ASSUME NEW value \in Values, NEW pretty \in BOOLEAN
    PROVE  D!DocumentOf(value, pretty) = DocumentOf(value, pretty)
  <1>1. D!Place(value, 0, pretty) = Place(value, 0, pretty) /\ Place(value, 0, pretty) \in Places
    BY 0 \in Nat DEF D!Place, Place, Places
  <1>2. D!Layout[Place(value, 0, pretty)] = Layout[Place(value, 0, pretty)]
    BY <1>1, SameLayout
  <1>3. QED
    BY <1>1, <1>2 DEF D!DocumentOf, DocumentOf, D!Newline, Newline
-----------------------------------------------------------------------------
(* The blocks that are written.                                            *)

\* As long as the container is written, it is as to_string would.
Copying ==
    /\ s_pretty_print = FALSE
    /\ pc \in {"reading", "parsing"} => out = <<>> /\ room = 0
    /\ pc \in {"serialize", "serializing", "writing"} => D!FunctionInv
    /\ pc \in {"serializing", "writing"} => D!Started

LEMMA WritingBegins == D!FunctionInit => D!FunctionInv
  <1>1. WritingAssumptions
    BY WritingAssumptionsHold
  <1>2. QED
    BY <1>1, D!FunctionInvInit DEF WritingAssumptions

LEMMA WritingBeginsNext == D!FunctionInit' => D!FunctionInv'
  BY WritingBegins, PTL

LEMMA ConstructCopying ==
    ASSUME DemoInv, Copying, ConstructSerializer, pc \in {"reading", "parsing"}, root \in Values
    PROVE  Copying'
  <1> DEFINE c == S!make_serializer_context(root)
  <1>1. /\ pc' = "serialize" /\ s_contexts' = <<c>> /\ s_range' = S!BlockStart(c)
        /\ s_ec' = "buffer_is_full" /\ s_pretty_print' = FALSE
        /\ UNCHANGED <<vars, room, out>>
    BY DEF ConstructSerializer, ContinueAt
  <1>2. out = <<>> /\ room = 0 /\ s_pretty_print = FALSE /\ root' = root
    BY <1>1 DEF Copying, vars
  <1>3. root \in Containers
    BY DEF Containers, DemoInv, Core, TypeOK
  <1>4. SubSeq(<<>>, 1, Len(<<>>) - (BufferSize - 0)) = <<>>
    BY BufferSizeAssumption, EmptySeq, SubSeqEmpty
  <1>5. c = D!make_serializer_context(root)
    BY SameSerializer
  <1>6. S!BlockStart(c) = <<c.block_starter>>
    <2>1. S!PrettyNewline = <<>>
      BY <1>2 DEF S!PrettyNewline
    <2>2. <<c.block_starter>> \o <<>> = <<c.block_starter>>
      OBVIOUS
    <2>3. QED
      BY <2>1, <2>2 DEF S!BlockStart
  <1>7. D!PrettyNewline' = <<>>
    BY <1>1 DEF D!PrettyNewline
  <1>8. (D!BlockStart(D!make_serializer_context(root)))' = <<c.block_starter>>
    <2>1. <<c.block_starter>> \o <<>> = <<c.block_starter>>
      OBVIOUS
    <2>2. QED
      BY <1>2, <1>5, <1>7, <2>1 DEF D!BlockStart
  <1> HIDE DEF c
  <1>9. D!Init'
    BY <1>1, <1>2, <1>3, <1>5, <1>6, <1>8 DEF D!Init
  <1>10. D!FunctionInit'
    BY <1>1, <1>2, <1>4, <1>9 DEF D!FunctionInit, Filled
  <1>11. QED
    BY <1>1, <1>10, WritingBeginsNext DEF Copying

\* Nothing of the serializer or of what it has written changes.
LEMMA CopyingStays ==
    ASSUME Copying, UNCHANGED <<writerVars, root>>,
           \/ pc' \in {pc, "exited"}
           \/ pc \in {"reading", "parsing"} /\ pc' \in {"reading", "parsing"}
           \/ /\ pc \in {"serializing", "writing"}
              /\ pc' \in {"serialize", "serializing", "writing"}
    PROVE  Copying'
  <1>1. UNCHANGED <<s_contexts, s_range, s_pretty_print, s_ec, room, out, root>>
    BY DEF writerVars
  <1>2. UNCHANGED D!functionVars
    BY <1>1 DEF D!functionVars, D!serializerVars, D!members, D!arguments, Filled
  <1>3. WritingAssumptions
    BY WritingAssumptionsHold
  <1>4. D!FunctionInv => D!FunctionInv'
    BY <1>2, <1>3, D!FunctionInvNext DEF WritingAssumptions
  <1>5. D!Started' = D!Started
    BY <1>1 DEF D!Started
  <1>6. QED
    BY <1>1, <1>4, <1>5 DEF Copying

LEMMA SerializeCopying ==
    ASSUME DemoInv, Copying, Serialize
    PROVE  Copying'
  <1>1. /\ pc = "serialize" /\ pc' = "serializing" /\ UNCHANGED <<vars, s_pretty_print>>
        /\ UNCHANGED <<s_contexts, s_range, out>> /\ s_ec' = "running" /\ room' = BufferSize
        /\ D!serialize(BufferSize) /\ s_ec = "buffer_is_full"
    BY SameSerializer DEF Serialize, ContinueAt, S!PassBuffer, S!serialize, S!members
  <1>2. D!FunctionInv /\ WritingAssumptions
    BY <1>1, WritingAssumptionsHold DEF Copying
  <1>3. IsSequence(out) /\ Len(out) \in Nat /\ room \in 0 .. BufferSize /\ BufferSize \in Nat \ {0}
    BY SequenceIsFunction, BufferSizeAssumption DEF DemoInv, WriterInv
  <1>4. SubSeq(out, 1, Len(out) - Filled)' = out
    <2>1. Filled' = 0
      BY <1>1, <1>3 DEF Filled
    <2>2. SubSeq(out, 1, Len(out)) = out
      BY <1>3, SubSeqFull DEF IsSequence
    <2>3. QED
      BY <1>1, <1>3, <2>1, <2>2
  <1>5. UNCHANGED D!arguments
    BY DEF D!arguments
  <1>6. D!FunctionInv'
    <2>1. CASE out = <<>>
      <3>1. SubSeq(out, 1, Len(out) - Filled) = <<>>
        BY <1>1, <1>2, <2>1 DEF D!FunctionInv, D!BlocksAreTaken, D!Started
      <3>2. D!FirstCall
        BY <1>1, <1>4, <1>5, <2>1, <3>1 DEF D!FirstCall
      <3>3. QED
        BY <1>2, <3>2, D!FirstCallStep DEF WritingAssumptions
    <2>2. CASE out # <<>>
      <3>1. D!HasResult
        BY <1>1, <1>5, <2>2 DEF D!HasResult
      <3>2. SubSeq(out, 1, Len(out) - Filled) \o D!Block = out
        BY <1>2, <3>1, D!BlockIsNext DEF WritingAssumptions
      <3>3. D!TakeAndGoOn
        BY <1>1, <1>4, <3>2 DEF D!TakeAndGoOn
      <3>4. s_ec # "completed"
        BY <1>1
      <3>5. QED
        BY <1>1, <1>2, <3>1, <3>3, <3>4, D!TakeStep DEF WritingAssumptions
    <2>3. QED
      BY <2>1, <2>2
  <1>7. D!Started'
    BY <1>1 DEF D!Started
  <1>8. QED
    BY <1>1, <1>6, <1>7 DEF Copying

LEMMA IterationCopying ==
    ASSUME DemoInv, Copying, SerializeIteration
    PROVE  Copying'
  <1>1. /\ pc = "serializing" /\ pc' = "serializing" /\ S!Iteration /\ D!Iteration
        /\ UNCHANGED <<vars, inputVars, outputVars>>
    BY SameSerializer DEF SerializeIteration, ContinueAt
  <1>2. D!FunctionInv /\ D!Started /\ WritingAssumptions
    BY <1>1, WritingAssumptionsHold DEF Copying
  <1>3. WriterInv' /\ Writes
    BY <1>1, WriterIteration DEF DemoInv
  <1>4. PICK part : /\ IsSequence(part) /\ Len(part) <= room
                    /\ out' = out \o part /\ room' = room - Len(part)
    BY <1>3 DEF Writes
  <1>5. /\ IsSequence(out) /\ Len(out) \in Nat /\ Len(part) \in Nat
        /\ Len(out') = Len(out) + Len(part)
        /\ room \in 0 .. BufferSize /\ BufferSize \in Nat \ {0}
    BY <1>4, SequenceIsFunction, Concatenation, BufferSizeAssumption DEF DemoInv, WriterInv
  <1>6. SubSeq(out, 1, Len(out) - Filled)' = SubSeq(out, 1, Len(out) - Filled)
    <2>1. /\ Len(out') - Filled' = Len(out) - Filled /\ Len(out) - Filled \in Int
          /\ Len(out) - Filled <= Len(out)
      BY <1>4, <1>5 DEF Filled
    <2>2. SubSeq(out \o part, 1, Len(out) - Filled) = SubSeq(out, 1, Len(out) - Filled)
      BY <1>4, <1>5, <2>1, SameBeginning
    <2>3. QED
      BY <1>4, <2>1, <2>2
  <1>7. D!Write
    BY <1>1, <1>6 DEF D!Write, D!arguments
  <1>8. D!FunctionInv'
    BY <1>2, <1>7, D!WriteStep DEF WritingAssumptions
  <1>9. D!Started'
    <2>1. CASE s_ec' # "buffer_is_full"
      BY <2>1 DEF D!Started
    <2>2. CASE s_ec' = "buffer_is_full"
      <3>1. D!Inv
        BY <1>2 DEF D!FunctionInv
      <3>2. room = 0 /\ out' = out
        BY <1>1, <1>2, <2>2, <3>1, D!IterationCopies DEF WritingAssumptions
      <3>3. Len(out) - (BufferSize - room) \in Nat
        BY <1>2 DEF D!FunctionInv, D!BlocksAreTaken, D!Start
      <3>4. Len(out) # 0
        BY <1>5, <3>2, <3>3
      <3>5. QED
        BY <3>2, <3>4, EmptySeq DEF D!Started
    <2>3. QED
      BY <2>1, <2>2
  <1>10. s_pretty_print' = s_pretty_print
    BY <1>1 DEF S!Iteration, S!BufferIsFull, S!Completed, S!WritePart, S!EndBlock,
       S!WriteElement, S!IllegalChar, S!WriteAll, S!write_buffer, S!members
  <1>11. QED
    BY <1>1, <1>8, <1>9, <1>10 DEF Copying

LEMMA CopyingNext ==
    ASSUME DemoInv, Copying, root \in Values, [DemoNext]_demoVars
    PROVE  Copying'
  <1>1. CASE UNCHANGED demoVars
    <2>1. UNCHANGED <<writerVars, root, pc>>
      BY <1>1 DEF demoVars, vars
    <2>2. QED
      BY <2>1, CopyingStays
  <1>2. CASE ParseIteration \/ ParseEnds \/ ReadFails \/ \E n \in 1 .. BufferSize : Read(n)
    <2>1. /\ pc \in {"reading", "parsing"} /\ pc' = "parsing"
          /\ UNCHANGED writerVars
      BY <1>2 DEF ParseIteration, ParseEnds, ReadFails, Read, ParseChunk, ContinueAt
    <2>2. UNCHANGED <<s_contexts, s_range, s_pretty_print, s_ec, room, out>>
      BY <2>1 DEF writerVars
    <2>3. QED
      BY <2>1, <2>2 DEF Copying
  <1>3. ASSUME \E with : Exit(with), UNCHANGED <<vars, writerVars>> PROVE Copying'
    <2>1. pc' = "exited" /\ root' = root
      BY <1>3 DEF Exit, vars
    <2>2. QED
      BY <1>3, <2>1, CopyingStays
  <1>4. CASE ParseResult
    <2>1. pc = "parsing"
      BY <1>4 DEF ParseResult
    <2>2. CASE ConstructSerializer
      BY <2>1, <2>2, ConstructCopying
    <2>3. CASE pc' = "reading" /\ UNCHANGED <<vars, writerVars>>
      <3>1. root' = root
        BY <2>3 DEF vars
      <3>2. QED
        BY <2>1, <2>3, <3>1, CopyingStays
    <2>4. QED
      BY <1>3, <1>4, <2>2, <2>3 DEF ParseResult, ContinueAt
  <1>5. CASE EndOfFile
    <2>1. pc = "reading"
      BY <1>5 DEF EndOfFile
    <2>2. CASE ConstructSerializer
      BY <2>1, <2>2, ConstructCopying
    <2>3. QED
      BY <1>3, <1>5, <2>2 DEF EndOfFile
  <1>6. CASE SerializeResult \/ WriteFails \/ \E n \in 1 .. BufferSize + MaxErrors : Write(n)
    <2>1. /\ pc \in {"serializing", "writing"} /\ pc' = "writing"
          /\ UNCHANGED <<vars, writerVars>>
      BY <1>6 DEF SerializeResult, WriteFails, Write, ContinueAt
    <2>2. root' = root
      BY <2>1 DEF vars
    <2>3. QED
      BY <2>1, <2>2, CopyingStays
  <1>7. CASE BlockWritten \/ WriteNothing
    <2>1. CASE \E with : Exit(with) /\ UNCHANGED <<vars, writerVars>>
      BY <1>3, <2>1
    <2>2. CASE pc = "writing" /\ pc' = "serialize" /\ UNCHANGED <<vars, writerVars>>
      <3>1. root' = root
        BY <2>2 DEF vars
      <3>2. QED
        BY <2>2, <3>1, CopyingStays
    <2>3. QED
      BY <1>7, <2>1, <2>2 DEF BlockWritten, WriteNothing, ContinueAt
  <1>8. QED
    BY <1>1, <1>2, <1>4, <1>5, <1>6, <1>7, SerializeCopying, IterationCopying
       DEF DemoNext, Compute, Transfer, Fault
-----------------------------------------------------------------------------
(* What is written is a beginning of the layout.                           *)

LEMMA BeginningOfBeginning ==
    ASSUME NEW s, IsSequence(s), NEW m \in Nat, NEW n \in Nat, m <= n, n <= Len(s)
    PROVE  /\ SubSeq(SubSeq(s, 1, n), 1, m) = SubSeq(s, 1, m)
           /\ Len(SubSeq(s, 1, n)) = n
           /\ IsPrefix(SubSeq(s, 1, m), SubSeq(s, 1, n))
  <1> DEFINE t == SubSeq(s, 1, n)
             r == SubSeq(s, n + 1, Len(s))
  <1>1. n \in 0 .. Len(s) /\ Len(s) \in Nat /\ m <= Len(s)
    BY SequenceIsFunction
  <1>2. s = t \o r
    BY <1>1, TwoParts
  <1>3. /\ IsSequence(t) /\ Len(t) = n /\ IsSequence(r)
        /\ Len(SubSeq(s, 1, m)) = m
    BY <1>1, PartOfText
  <1> HIDE DEF t, r
  <1>4. SubSeq(t \o r, 1, m) = SubSeq(t, 1, m)
    BY <1>3, SameBeginning
  <1>5. SubSeq(t, 1, m) = SubSeq(s, 1, m)
    BY <1>2, <1>4
  <1>6. SubSeq(SubSeq(s, 1, m), 1, m) = SubSeq(s, 1, m)
    BY <1>1, <1>3, SubSeqFull, PartOfText DEF IsSequence
  <1>7. IsPrefix(SubSeq(s, 1, m), t)
    BY <1>3, <1>5, <1>6 DEF IsPrefix
  <1>8. QED
    BY <1>3, <1>5, <1>7 DEF t

\* The end of the block in which a place is.
LEMMA EndOfBlock ==
    ASSUME NEW size \in Nat \ {0}, NEW n \in Nat
    PROVE  LET q == n \div size
           IN  /\ q \in Nat /\ (q + 1) * size \in Nat
               /\ (q + 1) * size = q * size + size
               /\ n < (q + 1) * size
  <1> DEFINE q == n \div size
             r == n % size
  <1>1. q \in Int /\ r \in 0 .. size - 1 /\ n = size * q + r
    OBVIOUS
  <1> HIDE DEF q, r
  <1>2. (q + 1) * size = q * size + size /\ n < q * size + size /\ (q + 1) * size \in Int
    BY <1>1
  <1>3. q \in Nat
    <2>1. ASSUME q <= -1 PROVE FALSE
      <3>1. size * q <= size * (-1)
        BY <1>1, <2>1
      <3>2. QED
        BY <1>1, <3>1
    <2>2. QED
      BY <1>1, <2>1
  <1>4. QED
    BY <1>2, <1>3 DEF q

\* The least of two numbers.
LEMMA LeastOfTwo ==
    ASSUME NEW a \in Nat, NEW b \in Nat
    PROVE  /\ Min({a, b}) = IF a <= b THEN a ELSE b
           /\ D!Min({a, b}) = Min({a, b})
  <1> DEFINE IsLeast(x) == x \in {a, b} /\ \A y \in {a, b} : x <= y
             least == IF a <= b THEN a ELSE b
  <1>1. Min({a, b}) = CHOOSE x : IsLeast(x)
    BY DEF Min
  <1>2. IsLeast(least)
    OBVIOUS
  <1>3. \A x : IsLeast(x) => x = least
    OBVIOUS
  <1> HIDE DEF IsLeast, least
  <1>4. Min({a, b}) = least
    BY <1>1, <1>2, <1>3
  <1>5. D!Min({a, b}) = Min({a, b})
    BY DEF D!Min, Min
  <1>6. QED
    BY <1>4, <1>5 DEF least

\* The output is so much of the layout, and if it is complete all that is
\* written of it.
IsWrittenOf(text_out, value, complete) ==
    LET layout == DocumentOf(value, FALSE)
    IN  /\ IsSequence(layout)
        /\ text_out = SubSeq(layout, 1, Len(text_out))
        /\ \E m \in Nat :
              /\ m <= Len(layout) /\ Len(text_out) <= m
              /\ WrittenOf(value) = SubSeq(layout, 1, m)
              /\ complete => Len(text_out) = m

LEMMA OutputIsBeginning ==
    ASSUME DemoInv, Copying, root \in Values, pc = "writing",
           s_ec \in {"buffer_is_full", "completed"}
    PROVE  IsWrittenOf(out, root, s_ec = "completed")
  <1> DEFINE layout == DocumentOf(root, FALSE)
             n == Len(layout) - 2
             q == n \div BufferSize
             m == Min({Len(layout), (q + 1) * BufferSize})
  <1>1. /\ D!FunctionInv /\ D!Started /\ s_pretty_print = FALSE /\ WritingAssumptions
    BY WritingAssumptionsHold DEF Copying
  <1>2. layout = D!Document
    BY <1>1, SameDocumentOf DEF D!Document
  <1>3. D!EndLength = 2
    BY <1>1 DEF D!EndLength
  <1>4. /\ IsSequence(out) /\ Len(out) \in Nat /\ room \in 0 .. BufferSize
        /\ BufferSize \in Nat \ {0}
    BY SequenceIsFunction, BufferSizeAssumption DEF DemoInv, WriterInv
  <1>5. WrittenOf(root) = SubSeq(layout, 1, m)
    BY DEF WrittenOf
  <1>6. /\ D!BlocksAreTaken /\ D!DocumentInv /\ D!Faithful
        /\ (s_contexts = <<>> /\ s_ec # "completed" => Len(s_range) = D!EndLength)
    BY <1>1 DEF D!FunctionInv, D!Faithful
  <1>7. /\ D!Start \in Nat /\ D!Start = Len(out) - (BufferSize - room)
        /\ \E k \in Nat : D!Start = k * BufferSize
        /\ s_ec = "buffer_is_full" => room = 0
        /\ s_ec = "completed" =>
              /\ D!Start <= Len(layout) - 2
              /\ Len(layout) - 2 < D!Start + BufferSize
    BY <1>1, <1>2, <1>3, <1>6 DEF D!BlocksAreTaken, D!Start
  <1> HIDE DEF layout
  <1>8. CASE s_ec = "buffer_is_full"
    <2>1. /\ D!IsSequence(D!Document) /\ Len(out) + D!EndLength <= Len(D!Document)
          /\ SubSeq(D!Document, 1, Len(out)) = out
      <3>1. s_ec # "illegal_char_in_string"
        BY <1>8
      <3>2. s_contexts = <<>> => Len(s_range) = D!EndLength
        BY <1>6, <1>8
      <3>3. QED
        BY <1>1, <1>6, <3>1, <3>2, D!EndIsToCome DEF WritingAssumptions
    <2>2. /\ IsSequence(layout) /\ Len(layout) \in Nat /\ n \in Nat /\ Len(out) <= n
          /\ SubSeq(layout, 1, Len(out)) = out
      <3>1. IsSequence(layout)
        BY <1>2, <2>1 DEF D!IsSequence, IsSequence, D!Range, Range
      <3>2. Len(layout) \in Nat
        BY <3>1, SequenceIsFunction
      <3>3. Len(out) + 2 <= Len(layout)
        BY <1>2, <1>3, <2>1
      <3>4. QED
        BY <1>2, <1>4, <2>1, <3>1, <3>2, <3>3
    <2> HIDE DEF n
    <2>3. /\ (q + 1) * BufferSize \in Nat /\ n < (q + 1) * BufferSize
      BY <1>4, <2>2, EndOfBlock
    <2>4. m = IF Len(layout) <= (q + 1) * BufferSize THEN Len(layout) ELSE (q + 1) * BufferSize
      BY <2>2, <2>3, LeastOfTwo
    <2>5. m \in Nat /\ m <= Len(layout) /\ Len(out) <= m
      <3>1. n <= Len(layout)
        BY <2>2 DEF n
      <3> HIDE DEF m, q
      <3>2. QED
        BY <1>4, <2>2, <2>3, <2>4, <3>1
    <2> HIDE DEF m
    <2>6. QED
      BY <1>5, <1>8, <2>2, <2>5 DEF IsWrittenOf, layout
  <1>9. CASE s_ec = "completed"
    <2>1. out \o s_range = layout
      BY <1>1, <1>2, <1>6, <1>9, D!WhatIsWritten DEF WritingAssumptions
    <2>2. IsSequence(s_range) /\ Len(s_range) \in Nat /\ (s_range # <<>> => room = 0)
      <3>1. IsSequence(s_range)
        BY DEF DemoInv, WriterInv
      <3>2. D!OnlyTheEndCanBeLost
        BY <1>1 DEF D!FunctionInv, D!Inv
      <3>3. s_range # <<>> => room = 0
        BY <1>9, <3>2 DEF D!OnlyTheEndCanBeLost
      <3>4. QED
        BY <3>1, <3>3, SequenceIsFunction
    <2>3. /\ IsSequence(layout) /\ Len(layout) = Len(out) + Len(s_range)
          /\ SubSeq(layout, 1, Len(out)) = out
      BY <1>4, <2>1, <2>2, Concatenation
    <2>4. Len(layout) \in Nat /\ n \in Nat /\ D!Start <= n /\ n < D!Start + BufferSize
          /\ D!Start \in Nat
      BY <1>4, <1>7, <1>9, <2>2, <2>3
    <2> HIDE DEF n
    <2>5. q * BufferSize = D!Start
      <3>1. PICK k \in Nat : D!Start = k * BufferSize
        BY <1>7
      <3>2. k * BufferSize <= n /\ n < k * BufferSize + BufferSize
        BY <2>4, <3>1
      <3>3. (n \div BufferSize) * BufferSize = k * BufferSize
        BY <1>1, <1>4, <2>4, <3>2, D!BlockOf DEF WritingAssumptions
      <3>4. QED
        BY <3>1, <3>3
    <2>6. (q + 1) * BufferSize \in Nat /\ (q + 1) * BufferSize = D!Start + BufferSize
      BY <1>4, <2>4, <2>5, EndOfBlock
    <2>7. m = IF Len(layout) <= (q + 1) * BufferSize THEN Len(layout) ELSE (q + 1) * BufferSize
      BY <2>4, <2>6, LeastOfTwo
    <2>8. m \in Nat /\ m = Len(out) /\ m <= Len(layout)
      <3>1. s_range = <<>> => Len(s_range) = 0
        BY EmptySeq
      <3>2. Len(out) = D!Start + BufferSize - room
        BY <1>4, <1>7
      <3> DEFINE b == (q + 1) * BufferSize
      <3>3. b = D!Start + BufferSize /\ m = IF Len(layout) <= b THEN Len(layout) ELSE b
        BY <2>6, <2>7
      <3> HIDE DEF m, b
      <3>4. m = Len(out)
        BY <1>4, <2>2, <2>3, <2>4, <3>1, <3>2, <3>3
      <3>5. QED
        BY <1>4, <2>2, <2>3, <3>4
    <2> HIDE DEF m
    <2>9. \E k \in Nat :
             /\ k <= Len(layout) /\ Len(out) <= k
             /\ WrittenOf(root) = SubSeq(layout, 1, k)
             /\ s_ec = "completed" => Len(out) = k
      BY <1>4, <1>5, <2>8
    <2>10. QED
      BY <2>3, <2>9, Zenon DEF IsWrittenOf, layout
  <1>10. QED
    BY <1>8, <1>9
-----------------------------------------------------------------------------
(* The promise of Copy.                                                    *)

LEMMA NoneOfBoth ==
    ASSUME NEW a \in Nat, NEW b \in Nat
    PROVE  a + b > 0 <=> ~(a = 0 /\ b = 0)
  OBVIOUS

\* A failure is not undone.
LEMMA FaultedStays ==
    ASSUME DemoInv, ReaderInv, DemoInv', ReaderInv', Faulted, [DemoNext]_demoVars
    PROVE  Faulted'
  <1>1. /\ read_errors \in Nat /\ write_errors \in Nat
        /\ read_errors' \in Nat /\ write_errors' \in Nat
    BY DEF ReaderInv, DemoInv, DemoWritingInv
  <1>2. CASE read_errors + write_errors > 0
    <2>1. read_errors' \in {read_errors, read_errors + 1} /\ write_errors' \in {write_errors, write_errors + 1}
      BY DEF DemoNext, Compute, Transfer, Fault, demoVars, inputVars, outputVars, ParseIteration,
         ParseEnds, ParseResult, Serialize, SerializeIteration, SerializeResult, BlockWritten,
         EndOfFile, Read, Write, ReadFails, WriteNothing, WriteFails, ParseChunk, ConstructSerializer
    <2>2. ~(read_errors' = 0 /\ write_errors' = 0)
      BY <1>1, <1>2, <2>1
    <2>3. read_errors' + write_errors' > 0
      BY <1>1, <2>2, NoneOfBoth, Zenon
    <2>4. CallFailed'
      BY <2>3 DEF CallFailed
    <2>5. QED
      BY <2>4 DEF Faulted
  <1>3. CASE read_errors + write_errors = 0 /\ pc = "exited"
    <2>1. UNCHANGED demoVars
      BY <1>3 DEF DemoNext, Compute, Transfer, Fault, ParseIteration,
         ParseEnds, ParseResult, Serialize, SerializeIteration, SerializeResult, BlockWritten,
         EndOfFile, Read, Write, ReadFails, WriteNothing, WriteFails
    <2>2. UNCHANGED <<read_errors, write_errors, status, bytes_to_write, ec>>
      BY <2>1 DEF demoVars, inputVars, outputVars, vars
    <2>3. QED
      BY <2>2 DEF Faulted, CallFailed
  <1>4. CASE read_errors + write_errors = 0 /\ pc # "exited"
    <2>1. read_errors = 0 /\ IsPlaced /\ status = "running"
      BY <1>1, <1>4 DEF ReaderInv, IsPlaced
    <2>2. ec = "undefined"
      BY <1>4, <2>1 DEF Faulted, CallFailed
    <2>3. pc # "reading"
      BY <2>1, <2>2 DEF IsPlaced
    <2>4. ~ParseIteration /\ ~ParseEnds
      BY <2>2 DEF ParseIteration, ParseEnds, Iteration, Reads, EndOfInput
    <2>5. UNCHANGED vars
      BY <2>3, <2>4 DEF DemoNext, Compute, Transfer, Fault, demoVars, ParseResult, Serialize,
         SerializeIteration, SerializeResult, BlockWritten, EndOfFile, Read, Write, ReadFails,
         WriteNothing, WriteFails, ConstructSerializer
    <2>6. QED
      BY <2>2, <2>5 DEF vars, Faulted
  <1>5. QED
    BY <1>1, <1>2, <1>3, <1>4

\* What there is to be written once the parser is done.
LEMMA OneCopy ==
    ASSUME DemoInv, ReaderInv, ~Faulted, pc = "writing"
    PROVE  CopiesOf(input) = {WrittenOf(root)}
  <1>1. IsReading /\ IsPlaced
    BY DEF ReaderInv, Faulted, CallFailed, DemoInv, DemoWritingInv
  <1>2. CASE input = <<>> /\ root = DefaultContainer
    BY <1>2 DEF CopiesOf
  <1>3. CASE input # <<>> /\ ec = "completed"
    <2> DEFINE doc == Document(input, DefaultMaxLevels)
    <2>1. doc.value = root /\ doc.next = Len(text) + 1
      BY <1>1, <1>3 DEF IsReading, Judged
    <2>2. Len(text) \in Nat
      BY LenProperties DEF DemoInv, Core, TypeOK
    <2>3. Readable(doc)
      BY <2>1, <2>2 DEF Readable
    <2>4. QED
      BY <1>3, <2>1, <2>3 DEF CopiesOf
  <1>4. QED
    BY <1>1, <1>2, <1>3 DEF IsPlaced

\* There is no document for a program that fails.
LEMMA NoCopy ==
    ASSUME ReadsTheDocument, status = "failure", ~Faulted
    PROVE  CopiesOf(input) = {}
  <1>1. ~CallFailed /\ ec # "undefined"
    BY DEF Faulted
  <1>2. input # <<>> /\ ~Readable(Document(input, DefaultMaxLevels))
    BY <1>1 DEF ReadsTheDocument
  <1>3. QED
    BY <1>2 DEF CopiesOf

LEMMA EndReads == DemoInv /\ ReaderInv => ReadsTheDocument
  BY ReadAll DEF ReadsTheDocument, Stray

LEMMA EndReadsNext == DemoInv' /\ ReaderInv' => ReadsTheDocument'
  BY EndReads, PTL

\* A step in which nothing fails.
Unfaulted ==
    /\ DemoInv /\ ReaderInv /\ DemoInv' /\ ReaderInv'
    /\ Copying /\ root \in Values /\ [DemoNext]_demoVars
    /\ ~Faulted /\ ~Faulted'

LEMMA UnfaultedFacts ==
    ASSUME Unfaulted
    PROVE  /\ IsReading /\ IsPlaced /\ write_errors = 0 /\ write_errors' = 0 /\ ReadsTheDocument'
           /\ ~CallFailed' /\ ec # "undefined" /\ ec' # "undefined"
           /\ (status' = "failure" => bytes_to_write' = 0)
  <1>1. ReadsTheDocument'
    BY EndReadsNext DEF Unfaulted
  <1>2. ~CallFailed /\ ec # "undefined" /\ ~CallFailed' /\ ec' # "undefined"
    BY DEF Unfaulted, Faulted
  <1>3. /\ read_errors \in Nat /\ write_errors \in Nat
        /\ read_errors' \in Nat /\ write_errors' \in Nat
    BY DEF Unfaulted, ReaderInv, DemoInv, DemoWritingInv
  <1>4. ~(read_errors + write_errors > 0)
    BY <1>2 DEF CallFailed
  <1>5. /\ ~(read_errors' + write_errors' > 0)
        /\ ~(status' = "failure" /\ bytes_to_write' # 0)
    BY <1>2 DEF CallFailed
  <1>6. read_errors = 0 /\ write_errors = 0 /\ write_errors' = 0
    BY <1>3, <1>4, <1>5, NoneOfBoth, Zenon
  <1>7. IsReading /\ IsPlaced
    BY <1>6 DEF Unfaulted, ReaderInv
  <1>8. QED
    BY <1>1, <1>2, <1>5, <1>6, <1>7

\* The last call of serialize is done.
LEMMA WritingCopies ==
    ASSUME Unfaulted, pc = "writing"
    PROVE  /\ CopiesOf(input) = {WrittenOf(root)}
           /\ IsWrittenOf(out, root, s_ec = "completed")
           /\ s_ec \in {"buffer_is_full", "completed"} /\ status = "running"
           /\ stdout = SubSeq(out, 1, Len(out) - bytes_to_write)
           /\ bytes_to_write \in Nat /\ Len(out) - bytes_to_write = Len(stdout)
           /\ Len(stdout) \in Nat /\ IsSequence(out) /\ Len(out) \in Nat
  <1>1. IsPlaced /\ write_errors = 0
    BY UnfaultedFacts
  <1>2. s_ec \in {"buffer_is_full", "completed"} /\ status = "running"
    BY <1>1 DEF IsPlaced
  <1>3. CopiesOf(input) = {WrittenOf(root)}
    BY OneCopy DEF Unfaulted
  <1>4. IsWrittenOf(out, root, s_ec = "completed")
    BY <1>2, OutputIsBeginning DEF Unfaulted
  <1>5. /\ stdout = SubSeq(out, 1, Len(out) - bytes_to_write) /\ bytes_to_write \in Nat
        /\ Len(stdout) + bytes_to_write = Len(out) + 0
        /\ IsSequence(stdout) /\ IsSequence(out)
    BY <1>1 DEF Unfaulted, DemoInv, DemoWritingInv, Sent, WriterInv
  <1>6. Len(stdout) \in Nat /\ Len(out) \in Nat
    BY <1>5, SequenceIsFunction
  <1>7. QED
    BY <1>2, <1>3, <1>4, <1>5, <1>6

\* A longer beginning of the output is written.
LEMMA MoreWritten ==
    ASSUME NEW value, NEW t, IsSequence(t), NEW complete, IsWrittenOf(t, value, complete),
           NEW i \in Nat, NEW j \in Nat, i <= j, j <= Len(t)
    PROVE  /\ IsPrefix(SubSeq(t, 1, i), SubSeq(t, 1, j))
           /\ IsPrefix(SubSeq(t, 1, j), WrittenOf(value))
  <1> DEFINE layout == DocumentOf(value, FALSE)
  <1>1. PICK m \in Nat : /\ m <= Len(layout) /\ Len(t) <= m
                         /\ WrittenOf(value) = SubSeq(layout, 1, m)
    BY Zenon DEF IsWrittenOf
  <1>2. IsSequence(layout) /\ t = SubSeq(layout, 1, Len(t))
    BY Zenon DEF IsWrittenOf
  <1>3. Len(t) \in Nat /\ Len(layout) \in Nat
    BY <1>2, SequenceIsFunction
  <1> HIDE DEF layout
  <1>4. IsPrefix(SubSeq(t, 1, i), SubSeq(t, 1, j))
    BY BeginningOfBeginning
  <1>5. SubSeq(t, 1, j) = SubSeq(layout, 1, j)
    <2>1. Len(t) <= Len(layout)
      BY <1>1, <1>3
    <2>2. QED
      BY <1>2, <1>3, <2>1, BeginningOfBeginning
  <1>6. IsPrefix(SubSeq(layout, 1, j), SubSeq(layout, 1, m))
    <2>1. j <= m
      BY <1>1, <1>3
    <2>2. QED
      BY <1>1, <1>2, <2>1, BeginningOfBeginning
  <1>7. QED
    BY <1>1, <1>4, <1>5, <1>6

LEMMA WriteCopies ==
    ASSUME Unfaulted, NEW n \in 1 .. BufferSize + MaxErrors, Write(n)
    PROVE  [Pipe!Next]_Pipe!vars
  <1> DEFINE i == Len(out) - bytes_to_write
             j == Len(out) - (bytes_to_write - n)
  <1>1. /\ pc = "writing" /\ status' = status /\ input' = input /\ out' = out
        /\ n <= bytes_to_write /\ bytes_to_write' = bytes_to_write - n /\ pc' = "writing"
    BY DEF Write, ContinueAt, inputVars, writerVars
  <1>2. /\ CopiesOf(input) = {WrittenOf(root)}
        /\ IsWrittenOf(out, root, s_ec = "completed") /\ status = "running"
        /\ stdout = SubSeq(out, 1, i) /\ i = Len(stdout) /\ Len(stdout) \in Nat
        /\ IsSequence(out) /\ Len(out) \in Nat /\ bytes_to_write \in Nat
    BY <1>1, WritingCopies
  <1>3. stdout' = SubSeq(out, 1, j)
    <2>1. DemoInv' /\ write_errors' = 0
      BY UnfaultedFacts DEF Unfaulted
    <2>2. (write_errors = 0 => stdout = SubSeq(out, 1, Len(out) - bytes_to_write))'
      BY <1>1, <2>1 DEF DemoInv, DemoWritingInv, Sent
    <2>3. QED
      BY <1>1, <2>1, <2>2
  <1>4. i \in Nat /\ j \in Nat /\ i <= j /\ j <= Len(out)
    <2>1. n \in Int /\ 1 <= n
      OBVIOUS
    <2>2. QED
      BY <1>1, <1>2, <2>1
  <1> HIDE DEF i, j
  <1>5. IsPrefix(SubSeq(out, 1, i), SubSeq(out, 1, j)) /\ IsPrefix(SubSeq(out, 1, j), WrittenOf(root))
    BY <1>2, <1>4, MoreWritten
  <1>6. \E copy \in CopiesOf(input) : IsPrefix(stdout, stdout') /\ IsPrefix(stdout', copy)
    BY <1>2, <1>3, <1>5
  <1>7. Faulted' = FALSE /\ Faulted = FALSE
    BY DEF Unfaulted
  <1>8. CASE stdout' = stdout
    BY <1>1, <1>7, <1>8 DEF Pipe!vars
  <1>9. CASE stdout' # stdout
    <2>1. Pipe!Write
      BY <1>1, <1>2, <1>6, <1>7, <1>9 DEF Pipe!Write, Pipe!IsPrefix, IsPrefix
    <2>2. QED
      BY <2>1 DEF Pipe!Next
  <1>10. QED
    BY <1>8, <1>9

\* The program ends of itself.
LEMMA SucceedCopies ==
    ASSUME Unfaulted, BlockWritten
    PROVE  [Pipe!Next]_Pipe!vars
  <1>1. /\ pc = "writing" /\ bytes_to_write = 0 /\ input' = input /\ stdout' = stdout
        /\ UNCHANGED outputVars
    BY DEF BlockWritten, inputVars, outputVars
  <1>2. /\ CopiesOf(input) = {WrittenOf(root)}
        /\ IsWrittenOf(out, root, s_ec = "completed") /\ status = "running"
        /\ s_ec \in {"buffer_is_full", "completed"}
        /\ stdout = SubSeq(out, 1, Len(out) - 0)
        /\ IsSequence(out) /\ Len(out) \in Nat
    BY <1>1, WritingCopies
  <1>3. Faulted' = FALSE /\ Faulted = FALSE
    BY DEF Unfaulted
  <1>4. CASE s_ec = "buffer_is_full"
    <2>1. status' = status
      BY <1>4 DEF BlockWritten, ContinueAt
    <2>2. QED
      BY <1>1, <1>3, <2>1 DEF Pipe!vars
  <1>5. CASE s_ec = "completed"
    <2>1. status' = "success"
      BY <1>5 DEF BlockWritten, Exit
    <2>2. stdout = WrittenOf(root)
      <3>1. out = WrittenOf(root)
        BY <1>2, <1>5 DEF IsWrittenOf
      <3>2. SubSeq(out, 1, Len(out)) = out
        BY <1>2, SubSeqFull DEF IsSequence
      <3>3. QED
        BY <1>2, <3>1, <3>2
    <2>3. Pipe!Succeed
      BY <1>1, <1>2, <1>3, <2>1, <2>2 DEF Pipe!Succeed
    <2>4. QED
      BY <2>3 DEF Pipe!Next
  <1>6. QED
    BY <1>2, <1>4, <1>5

\* The program ends before it has written anything.
LEMMA RefuseCopies ==
    ASSUME Unfaulted, pc \in {"reading", "parsing"}, Exit("failure"),
           UNCHANGED <<inputVars, outputVars>>
    PROVE  [Pipe!Next]_Pipe!vars
  <1>1. status' = "failure" /\ input' = input /\ stdout' = stdout
    BY DEF Exit, inputVars, outputVars
  <1>2. IsPlaced /\ write_errors = 0
    BY UnfaultedFacts
  <1>3. status = "running"
    BY <1>2 DEF IsPlaced
  <1>4. CopiesOf(input) = {}
    <2>1. /\ (status = "failure")' /\ ReadsTheDocument' /\ (~CallFailed)' /\ ec' # "undefined"
      BY <1>1, UnfaultedFacts
    <2>2. (input # <<>> /\ ~Readable(Document(input, DefaultMaxLevels)))'
      BY <2>1 DEF ReadsTheDocument
    <2>3. input # <<>> /\ ~Readable(Document(input, DefaultMaxLevels))
      BY <1>1, <2>2
    <2>4. QED
      BY <2>3 DEF CopiesOf
  <1>5. stdout = <<>>
    <2>1. out = <<>> /\ stdout = SubSeq(out, 1, Len(out) - 0)
      BY <1>2 DEF Unfaulted, Copying, DemoInv, DemoWritingInv, Sent
    <2>2. Len(<<>>) = 0 /\ SubSeq(<<>>, 1, 0) = <<>>
      BY EmptySeq, SubSeqEmpty
    <2>3. QED
      BY <2>1, <2>2
  <1>6. Faulted' = FALSE /\ Faulted = FALSE
    BY DEF Unfaulted
  <1>7. Pipe!Refuse
    BY <1>1, <1>3, <1>4, <1>5, <1>6 DEF Pipe!Refuse
  <1>8. QED
    BY <1>7 DEF Pipe!Next

\* A step of the program is one of the promise, or none.
LEMMA CopyStep ==
    ASSUME DemoInv, ReaderInv, DemoInv', ReaderInv', [DemoNext]_demoVars,
           Faulted \/ (Copying /\ root \in Values)
    PROVE  [Pipe!Next]_Pipe!vars
  <1>1. CASE Faulted'
    <2>1. input' = input
      BY DEF DemoNext, Compute, Transfer, Fault, demoVars, inputVars, ParseIteration,
         ParseEnds, ParseResult, Serialize, SerializeIteration, SerializeResult, BlockWritten,
         EndOfFile, Read, Write, ReadFails, WriteNothing, WriteFails, ParseChunk
    <2>2. QED
      BY <1>1, <2>1 DEF Pipe!Next, Pipe!Break
  <1>2. CASE ~Faulted'
    <2>1. Unfaulted
      BY <1>2, FaultedStays DEF Unfaulted
    <2>2. ASSUME UNCHANGED <<input, stdout, status>> PROVE [Pipe!Next]_Pipe!vars
      <3>1. Faulted' = FALSE /\ Faulted = FALSE
        BY <2>1 DEF Unfaulted
      <3>2. QED
        BY <2>2, <3>1 DEF Pipe!vars
    <2>3. CASE ParseResult
      <3>1. CASE ec \in {"completed", "more_data_needed"}
        BY <2>2, <2>3, <3>1 DEF ParseResult, ConstructSerializer, ContinueAt, outputVars
      <3>2. CASE ec \notin {"completed", "more_data_needed"}
        <4>1. pc = "parsing" /\ UNCHANGED <<inputVars, outputVars>> /\ Exit("failure")
          BY <2>1, <2>3, <3>2, UnfaultedFacts DEF ParseResult
        <4>2. QED
          BY <2>1, <4>1, RefuseCopies
      <3>3. QED
        BY <3>1, <3>2
    <2>4. CASE EndOfFile
      <3>1. CASE old_ec # "completed"
        <4>1. pc = "reading" /\ UNCHANGED <<inputVars, outputVars>> /\ Exit("failure")
          BY <2>4, <3>1 DEF EndOfFile
        <4>2. QED
          BY <2>1, <4>1, RefuseCopies
      <3>2. CASE old_ec = "completed"
        BY <2>2, <2>4, <3>2 DEF EndOfFile, ConstructSerializer, ContinueAt, outputVars
      <3>3. QED
        BY <3>1, <3>2
    <2>5. CASE WriteNothing
      <3>1. status' = "failure" /\ bytes_to_write' # 0
        BY <2>5 DEF WriteNothing, Exit, outputVars
      <3>2. QED
        BY <2>1, <3>1, UnfaultedFacts
    <2>6. CASE \/ ParseIteration \/ ParseEnds \/ Serialize \/ SerializeIteration
               \/ SerializeResult \/ ReadFails \/ WriteFails
               \/ \E n \in 1 .. BufferSize : Read(n)
               \/ UNCHANGED demoVars
      BY <2>2, <2>6 DEF ParseIteration, ParseEnds, Serialize, SerializeIteration,
         SerializeResult, ReadFails, WriteFails, Read, ParseChunk, ContinueAt, demoVars,
         inputVars, outputVars
    <2>7. CASE BlockWritten \/ \E n \in 1 .. BufferSize + MaxErrors : Write(n)
      BY <2>1, <2>7, SucceedCopies, WriteCopies
    <2>8. QED
      BY <2>3, <2>4, <2>5, <2>6, <2>7 DEF DemoNext, Compute, Transfer, Fault
  <1>3. QED
    BY <1>1, <1>2

\* Whoever runs the program in a pipeline gets a copy of the document at the
\* start of its input, as far as the buffers reach, success only with all of
\* it, and not a character for other input - unless a call of read or write
\* fails.  This is for runs that put together no container of which Values
\* does not have the layout.
THEOREM DemoCopies == DemoSpec /\ []HasLayout => ImplementsCopy
  <1>1. (\E stdin \in Seq(Chars) : DemoInit(stdin)) => Pipe!Init /\ Copying
    BY DEF DemoInit, Init, Pipe!Init, Faulted, CallFailed, Copying
  <1>2. ASSUME DemoInv, ReaderInv, Faulted \/ Copying, HasLayout, DemoInv', ReaderInv',
               [DemoNext]_demoVars
        PROVE  (Faulted' \/ Copying') /\ [Pipe!Next]_Pipe!vars
    <2>1. CASE Faulted
      <3>1. Faulted'
        BY <1>2, <2>1, FaultedStays
      <3>2. Faulted \/ (Copying /\ root \in Values)
        BY <2>1
      <3>3. [Pipe!Next]_Pipe!vars
        BY <1>2, <3>2, CopyStep
      <3>4. QED
        BY <3>1, <3>3
    <2>2. CASE ~Faulted
      <3>1. Copying /\ root \in Values
        BY <1>2, <2>2 DEF HasLayout
      <3>2. Copying'
        BY <1>2, <3>1, CopyingNext
      <3>3. QED
        BY <1>2, <3>1, <3>2, CopyStep
    <2>3. QED
      BY <2>1, <2>2
  <1>3. QED
    BY <1>1, <1>2, DemoInvariance, ReaderInvariance, PTL DEF DemoSpec, ImplementsCopy, Pipe!Spec
-----------------------------------------------------------------------------
(* What is written can be read.                                            *)

\* A sequence is its first element and the rest.
IsCons(s, x, r) ==
    /\ s = <<x>> \o r /\ Len(s) = 1 + Len(r) /\ Len(r) \in Nat
    /\ s[1] = x /\ \A i \in 1 .. Len(r) : s[1 + i] = r[i]

LEMMA FirstAndRest ==
    ASSUME NEW C, NEW s \in Seq(C), s # <<>>
    PROVE  \E x \in C, r \in Seq(C) : IsCons(s, x, r)
  <1> DEFINE x == Head(s)
             r == Tail(s)
  <1>1. x \in C /\ r \in Seq(C) /\ s = <<x>> \o r
    BY HeadTailProperties
  <1> HIDE DEF x, r
  <1>2. /\ Len(<<x>> \o r) = 1 + Len(r) /\ Len(r) \in Nat /\ (<<x>> \o r)[1] = x
        /\ \A i \in 1 .. Len(r) : (<<x>> \o r)[1 + i] = r[i]
    BY <1>1, TextCons
  <1>3. QED
    BY <1>1, <1>2 DEF IsCons

\* Where a member without a name is.
EmptyKeyIn(value, table) ==
    CASE value.type = "array"  -> \E i \in DOMAIN value.items : table[value.items[i]]
      [] value.type = "object" -> \E key \in DOMAIN value.members :
                                      key = <<>> \/ table[value.members[key]]
      [] OTHER -> FALSE

LEMMA EmptyKeyParts ==
    ASSUME NEW value, NEW table
    PROVE  EmptyKeyIn(value, table) <=>
              \/ value.type = "array" /\ \E i \in DOMAIN value.items : table[value.items[i]]
              \/ value.type = "object" /\ \E key \in DOMAIN value.members :
                                             key = <<>> \/ table[value.members[key]]
  BY DEF EmptyKeyIn

LEMMA EmptyKeys ==
    \A value \in Values :
        HasEmptyKey[value] <=>
            \/ value.type = "array" /\ \E i \in DOMAIN value.items : HasEmptyKey[value.items[i]]
            \/ value.type = "object" /\ \E key \in DOMAIN value.members :
                                           key = <<>> \/ HasEmptyKey[value.members[key]]
  <1> DEFINE Solves(f) == f = [value \in Values |-> EmptyKeyIn(value, f)]
             IsNamed(values) == /\ values \subseteq Values
                              /\ \A v \in values : ~EmptyKeyIn(v, [w \in Values |-> w \notin values])
             all == {v \in Values : \E values : v \in values /\ IsNamed(values)}
             g == [v \in Values |-> v \notin all]
  <1>1. HasEmptyKey = CHOOSE f : Solves(f)
    BY DEF HasEmptyKey, EmptyKeyIn
  <1>2. ASSUME NEW v \in Values PROVE \A a, b : a \subseteq b /\ EmptyKeyIn(v, [w \in Values |-> w \notin b])
                                   => EmptyKeyIn(v, [w \in Values |-> w \notin a])
    <2>1. /\ v.type = "array" => \A i \in DOMAIN v.items : v.items[i] \in Values
          /\ v.type = "object" => \A key \in DOMAIN v.members : v.members[key] \in Values
      <3>1. IsValueOver(v, Values)
        BY ValuesAssumption
      <3>2. v.type = "array" => \A i \in DOMAIN v.items : v.items[i] \in Values
        <4>1. ASSUME v.type = "array" PROVE v.items \in Seq(Values)
          BY <3>1, <4>1 DEF IsValueOver
        <4>2. QED
          BY <4>1, ElementOfSeq, LenProperties
      <3>3. v.type = "object" => \A key \in DOMAIN v.members : v.members[key] \in Values
        BY <3>1 DEF IsValueOver
      <3>4. QED
        BY <3>2, <3>3
    <2>2. QED
      BY <2>1, EmptyKeyParts
  <1>3. ASSUME NEW v \in Values PROVE g[v] = EmptyKeyIn(v, g)
    <2>1. v \in all => ~EmptyKeyIn(v, g)
      <3>1. ASSUME NEW values, v \in values, IsNamed(values) PROVE ~EmptyKeyIn(v, g)
        <4>1. values \subseteq all
          BY <3>1
        <4>2. ~EmptyKeyIn(v, [w \in Values |-> w \notin values])
          BY <3>1
        <4> HIDE DEF all
        <4>3. QED
          BY <1>2, <4>1, <4>2
      <3>2. QED
        BY <3>1
    <2>2. ASSUME ~EmptyKeyIn(v, g) PROVE v \in all
      <3> DEFINE more == all \cup {v}
      <3>1. more \subseteq Values /\ all \subseteq more
        OBVIOUS
      <3>2. ASSUME NEW x \in more PROVE ~EmptyKeyIn(x, [w \in Values |-> w \notin more])
        <4>1. ~EmptyKeyIn(x, g)
          <5>1. CASE x = v
            BY <2>2, <5>1
          <5>2. CASE x \in all
            <6>1. PICK values : x \in values /\ IsNamed(values)
              BY <5>2
            <6>2. values \subseteq all /\ x \in Values /\ ~EmptyKeyIn(x, [w \in Values |-> w \notin values])
              BY <6>1
            <6> HIDE DEF all, IsNamed
            <6>3. QED
              BY <1>2, <6>2
          <5>3. QED
            BY <5>1, <5>2
        <4>2. x \in Values
          BY <3>1
        <4> HIDE DEF all, more
        <4>3. QED
          BY <1>2, <3>1, <4>1, <4>2
      <3>3. IsNamed(more)
        BY <3>1, <3>2
      <3> HIDE DEF IsNamed
      <3>4. QED
        BY <3>3
    <2>3. g[v] = (v \notin all)
      OBVIOUS
    <2> HIDE DEF all, g
    <2>4. EmptyKeyIn(v, g) \in BOOLEAN
      BY DEF EmptyKeyIn
    <2>5. QED
      BY <2>1, <2>2, <2>3, <2>4
  <1>4. Solves(g)
    <2> DEFINE h == [v \in Values |-> EmptyKeyIn(v, g)]
    <2>1. DOMAIN g = Values /\ g = [v \in Values |-> g[v]]
      OBVIOUS
    <2> HIDE DEF g
    <2>2. g = h
      BY <1>3, <2>1
    <2>3. QED
      BY <2>2
  <1>5. Solves(HasEmptyKey)
    <2> HIDE DEF Solves, g
    <2>1. QED
      BY <1>1, <1>4
  <1>6. \A v \in Values : HasEmptyKey[v] = EmptyKeyIn(v, HasEmptyKey)
    BY <1>5
  <1>7. QED
    BY <1>6, EmptyKeyParts

\* What a value with a layout is that can be written.
LEMMA KindsOfPlain ==
    ASSUME NEW value \in Values, IsPlain(value)
    PROVE  /\ value.type = "array" =>
                /\ value = Array(value.items) /\ value.items \in Seq(Values)
                /\ \A i \in 1 .. Len(value.items) : IsPlain(value.items[i])
           /\ value.type = "object" =>
                /\ value = Object(value.members)
                /\ value.members \in [DOMAIN value.members -> Values]
                /\ IsFiniteSet(DOMAIN value.members)
                /\ DOMAIN value.members \in SUBSET Seq(DOMAIN Code)
                /\ \A key \in DOMAIN value.members :
                      key \in Seq(PlainChars) /\ IsPlain(value.members[key])
           /\ value.type = "string" =>
                value = String(value.string) /\ value.string \in Seq(PlainChars)
           /\ value.type \notin {"array", "object", "string"} =>
                \E literal \in DOMAIN Literals : value = Literals[literal]
  <1>1. IsValueOver(value, Values)
    BY ValuesAssumption
  <1>2. /\ value.type = "array" => value = Array(value.items) /\ value.items \in Seq(Values)
        /\ value.type = "object" =>
              /\ value = Object(value.members)
              /\ value.members \in [DOMAIN value.members -> Values]
              /\ \A key \in DOMAIN value.members : IsText(key)
        /\ value.type = "string" => value = String(value.string)
    BY <1>1 DEF IsValueOver
  <1>3. QED
    BY <1>2, PlainParts DEF IsText

\* Neither a member nor an element stops the writing.
LEMMA PlainIsWritable ==
    ASSUME NEW key \in Seq(PlainChars), NEW value, IsPlain(value)
    PROVE  ~Unwritable(key, value)
  <1>1. ASSUME NEW s \in Seq(PlainChars) PROVE ~HasControlCode(s)
    <2>1. \A i \in DOMAIN s : s[i] \in PlainChars
      BY ElementOfSeq, LenProperties
    <2>2. QED
      BY <2>1 DEF HasControlCode, PlainChars, NoEscape
  <1>2. value.type = "string" => value.string \in Seq(PlainChars)
    BY PlainParts
  <1>3. QED
    BY <1>1, <1>2 DEF Unwritable

LEMMA PlainIsText ==
    ASSUME NEW s \in Seq(PlainChars)
    PROVE  s \in PlainTexts /\ s \in Texts
  <1>1. PlainChars \subseteq STRING \ NoEscape /\ PlainChars \subseteq STRING
    BY TextCharsAssumption, CodeAssumption DEF PlainChars
  <1>2. QED
    BY <1>1, SeqMonotonic DEF PlainTexts, Texts

\* The place of a value in a document without white space.
Compact(value, d) == Place(value, d, FALSE)

\* A text is read as a value, wherever it is inside d containers, unless a
\* member without a name is in it.
ReadsBack(t, value, d) ==
    /\ IsValueText(t)
    /\ t[1] = string_begin_end => \E string \in PlainTexts : t = wrap_string(string)
    /\ ReadsAs("value", t, value, ~HasEmptyKey[value], d, nullopt, {})

IsReadBack(value, d) == ReadsBack(Layout[Compact(value, d)], value, d)

LEMMA StringReadsBack ==
    ASSUME NEW value \in Values, IsPlain(value), value.type = "string", NEW d \in Nat
    PROVE  IsReadBack(value, d)
  <1> DEFINE s == value.string
             t == wrap_string(s)
             at == Compact(value, d)
  <1>1. value = String(s) /\ s \in PlainTexts
    BY KindsOfPlain, PlainIsText
  <1>2. at \in Places /\ at.value = value
    BY DEF Places, Place, Compact
  <1>3. Layout[at] = t
    <2>1. value.type \notin ContainerTypes
      BY DEF ContainerTypes
    <2>2. LayoutOf(at, Layout) = t
      BY <1>2, <2>1 DEF LayoutOf
    <2>3. QED
      BY <1>2, <2>2, LayoutIs
  <1>4. t \in Texts /\ t # <<>> /\ t[1] = string_begin_end
    BY <1>1, WrappedIsRead
  <1>5. IsValueText(t)
    BY <1>4 DEF IsValueText, Blanks, string_begin_end, value_separator, name_separator,
       end_array, end_object
  <1>6. ~HasEmptyKey[value]
    BY EmptyKeys
  <1>7. ReadsAs("value", t, value, TRUE, d, nullopt, {})
    <2>1. nullopt \in Nat \cup {nullopt}
      OBVIOUS
    <2>2. ReadsAs("value", wrap_string(s), String(s), TRUE, d, nullopt, {})
      BY <1>1, <2>1, StringReads
    <2>3. QED
      BY <1>1, <2>2
  <1>8. (~HasEmptyKey[value]) = TRUE
    BY <1>6
  <1> HIDE DEF t, at
  <1>9. ReadsAs("value", t, value, ~HasEmptyKey[value], d, nullopt, {})
    BY <1>7, <1>8
  <1>10. ReadsBack(t, value, d)
    BY <1>1, <1>5, <1>9 DEF ReadsBack, t
  <1>11. QED
    BY <1>3, <1>10 DEF at, IsReadBack

LEMMA LiteralReadsBack ==
    ASSUME NEW value \in Values, IsPlain(value),
           value.type \notin {"array", "object", "string"}, NEW d \in Nat
    PROVE  IsReadBack(value, d)
  <1> DEFINE t == to_string(value)
             at == Compact(value, d)
  <1>1. t \in DOMAIN Literals /\ Literals[t] = value
    <2>1. \E literal \in DOMAIN Literals : Literals[literal] = value
      BY KindsOfPlain
    <2>2. QED
      BY <2>1 DEF to_string
  <1>2. at \in Places /\ at.value = value
    BY DEF Places, Place, Compact
  <1>3. Layout[at] = t
    <2>1. value.type \notin ContainerTypes /\ value.type # "string"
      BY DEF ContainerTypes
    <2>2. LayoutOf(at, Layout) = t
      BY <1>2, <2>1 DEF LayoutOf
    <2>3. QED
      BY <1>2, <2>2, LayoutIs
  <1> HIDE DEF t
  <1>4. t \in Texts /\ t # <<>> /\ \A i \in DOMAIN t : t[i] \notin Structural
    BY <1>1, LiteralsAssumption, RunsAssumption DEF Texts
  <1>5. t[1] \notin Structural
    <2>1. 1 \in DOMAIN t
      BY <1>4, LenProperties, EmptySeq DEF Texts
    <2>2. QED
      BY <1>4, <2>1
  <1>6. IsValueText(t) /\ t[1] # string_begin_end
    BY <1>4, <1>5 DEF IsValueText, Structural, string_begin_end, value_separator, name_separator,
       end_array, end_object
  <1>7. ~HasEmptyKey[value]
    BY EmptyKeys
  <1>8. ReadsAs("value", t, value, TRUE, d, nullopt, {})
    <2>1. nullopt \in Nat \cup {nullopt}
      OBVIOUS
    <2>2. ReadsAs("value", t, Literals[t], TRUE, d, nullopt, {})
      BY <1>1, <2>1, LiteralReads
    <2>3. QED
      BY <1>1, <2>2
  <1>9. (~HasEmptyKey[value]) = TRUE
    BY <1>7
  <1> HIDE DEF at
  <1>10. ReadsBack(t, value, d)
    BY <1>6, <1>8, <1>9 DEF ReadsBack
  <1>11. QED
    BY <1>3, <1>10 DEF at, IsReadBack

NoEmptyKeys(items) == \A i \in 1 .. Len(items) : ~HasEmptyKey[items[i]]

LEMMA JoinedIsText == \A s, t \in Texts : s \o t \in Texts
  BY ConcatProperties DEF Texts

LEMMA JoinedTexts ==
    \A r, s, t \in Texts : (r \o s) \o t = r \o (s \o t)
  BY ConcatAssociative DEF Texts

LEMMA NoPad ==
    /\ <<>> \in Pads
    /\ \A s \in Texts : <<>> \o s = s
    /\ \A ch \in {value_separator, name_separator, end_array, end_object, begin_array, begin_object} :
          ch \in STRING /\ <<ch>> \in Texts /\ <<>> \o <<ch>> = <<ch>>
  <1>1. <<>> \in Pads
    BY EmptySeq DEF Pads, Texts
  <1>2. \A s \in Texts : <<>> \o s = s
    BY ConcatEmptySeq DEF Texts
  <1>3. \A ch \in STRING : <<ch>> \in Texts
    BY ShortText, Zenon DEF Texts
  <1>4. {value_separator, name_separator, end_array, end_object, begin_array, begin_object}
            \subseteq STRING
    BY FormatCharsAssumption DEF FormatChars
  <1>5. QED
    BY <1>1, <1>2, <1>3, <1>4

\* An element in front of others.
LEMMA NextItemBack ==
    ASSUME NEW d \in Nat, NEW x \in Values, NEW t, ReadsBack(t, x, d),
           NEW items \in Seq(Values), NEW s, IsRest(s),
           MoreItemsRead(s, items, NoEmptyKeys(items), d, nullopt)
    PROVE  LET all == <<x>> \o items
               w   == <<value_separator>> \o (t \o s)
           IN  /\ ReadsAs("items", t \o s, all, NoEmptyKeys(all), d, nullopt, {})
               /\ IsRest(w) /\ MoreItemsRead(w, all, NoEmptyKeys(all), d, nullopt)
               /\ t \o s \in Texts
  <1> DEFINE all == <<x>> \o items
             u == t \o s
             w == <<value_separator>> \o u
             good == ~HasEmptyKey[x]
             goods == NoEmptyKeys(items)
  <1>1. t \in Texts /\ s \in Texts /\ IsValueText(t) /\ ReadsAs("value", t, x, good, d, nullopt, {})
    BY DEF ReadsBack, IsValueText, IsRest
  <1>2. u \in Texts
    BY <1>1, ConcatProperties DEF Texts
  <1>3. good \in BOOLEAN /\ goods \in BOOLEAN /\ nullopt \in Nat \cup {nullopt}
    BY DEF NoEmptyKeys
  <1>4. NoEmptyKeys(all) = (good /\ goods)
    <2>1. /\ Len(all) = 1 + Len(items) /\ Len(items) \in Nat /\ all[1] = x
          /\ \A i \in 1 .. Len(items) : all[1 + i] = items[i]
      BY TextCons
    <2> HIDE DEF all
    <2>2. \A i \in 1 .. Len(all) : i = 1 \/ (i - 1 \in 1 .. Len(items) /\ i = 1 + (i - 1))
      BY <2>1
    <2>3. 1 \in 1 .. Len(all) /\ \A i \in 1 .. Len(items) : 1 + i \in 1 .. Len(all)
      BY <2>1
    <2>4. QED
      BY <2>1, <2>2, <2>3 DEF NoEmptyKeys
  <1>5. <<>> \o u = u /\ <<>> \o w = w /\ w \in Texts /\ w # <<>> /\ w[1] = value_separator
    <2>1. value_separator \in STRING /\ <<value_separator>> \in Texts
      BY NoPad
    <2> HIDE DEF u
    <2>2. w \in Texts /\ Len(w) = 1 + Len(u) /\ Len(u) \in Nat /\ w[1] = value_separator
      BY <1>2, <2>1, TextCons DEF Texts
    <2>3. w # <<>>
      BY <2>2, EmptySeq
    <2>4. QED
      BY <1>2, <2>2, <2>3, NoPad
  <1>6. ReadsAs("items", u, all, good /\ goods, d, nullopt, {})
    <2>1. MoreItemsRead(s, items, goods, d, nullopt)
      OBVIOUS
    <2> DEFINE pad == <<>>
    <2>2. pad \in Pads
      BY NoPad
    <2> HIDE DEF good, goods, pad
    <2>3. ReadsAs("items", pad \o (t \o s), <<x>> \o items, good /\ goods, d, nullopt, {})
      BY <1>1, <1>3, <2>1, <2>2, ItemReads
    <2>4. QED
      BY <1>5, <2>3 DEF pad
  <1>7. MoreItemsRead(w, all, good /\ goods, d, nullopt)
    <2> DEFINE b == good /\ goods
    <2>1. b \in BOOLEAN
      OBVIOUS
    <2> HIDE DEF b, good, goods, all, u
    <2>2. ReadsAs("items", u, all, b, d, nullopt, {})
      BY <1>6 DEF b
    <2>3. MoreItemsRead(<<>> \o (<<value_separator>> \o u), all, b, d, nullopt)
      BY <1>2, <1>3, <2>1, <2>2, NoPad, MoreItemsReads
    <2>4. QED
      BY <1>5, <2>3 DEF b
  <1>8. IsRest(w)
    BY <1>5 DEF IsRest
  <1> HIDE DEF good, goods, u, w, all
  <1>9. QED
    BY <1>2, <1>4, <1>6, <1>7, <1>8 DEF u, w, all

\* The elements behind another.
AreMoreItems(parts, items, d) ==
    \A i \in 1 .. Len(items) :
        \E t : parts[i] = <<value_separator>> \o t /\ ReadsBack(t, items[i], d)

MoreItemsBack(parts, items, d) ==
    LET s == FlattenSeq(parts) \o <<end_array>>
    IN  IsRest(s) /\ MoreItemsRead(s, items, NoEmptyKeys(items), d, nullopt)

LEMMA ItemsBack ==
    ASSUME NEW d \in Nat, NEW items \in Seq(Values), NEW parts \in Seq(Texts),
           Len(parts) = Len(items), AreMoreItems(parts, items, d)
    PROVE  MoreItemsBack(parts, items, d)
  <1> DEFINE Holds(p, v) == Len(p) = Len(v) /\ AreMoreItems(p, v, d) => MoreItemsBack(p, v, d)
             T == {n \in Nat : \A p \in Seq(Texts), v \in Seq(Values) : Len(v) = n => Holds(p, v)}
             end == <<end_array>>
  <1>1. end \in Texts /\ <<>> \o end = end /\ Texts = Seq(STRING)
    BY NoPad DEF Texts
  <1>2. 0 \in T
    <2>1. ASSUME NEW p \in Seq(Texts), NEW v \in Seq(Values), Len(v) = 0, Len(p) = Len(v)
          PROVE  MoreItemsBack(p, v, d)
      <3>1. p = <<>> /\ v = <<>>
        BY <2>1, EmptySeq
      <3>2. FlattenSeq(p) = <<>>
        BY <1>1, <3>1, FlattenFew
      <3>3. NoEmptyKeys(v)
        BY <2>1 DEF NoEmptyKeys
      <3>4. IsRest(end)
        <4>1. Len(end) = 1 /\ end[1] = end_array
          OBVIOUS
        <4>2. end # <<>>
          OBVIOUS
        <4> HIDE DEF end
        <4>3. QED
          BY <1>1, <4>1, <4>2 DEF IsRest
      <3>5. MoreItemsRead(end, <<>>, TRUE, d, nullopt)
        <4>1. MoreItemsRead(<<>> \o <<end_array>>, <<>>, TRUE, d, nullopt)
          BY NoPad, EndOfArrayReads
        <4>2. QED
          BY <1>1, <4>1
      <3>6. MoreItemsRead(end, v, NoEmptyKeys(v), d, nullopt)
        <4>1. NoEmptyKeys(v) = TRUE
          BY <3>3 DEF NoEmptyKeys
        <4>2. QED
          BY <3>1, <3>5, <4>1
      <3> HIDE DEF end
      <3>7. FlattenSeq(p) \o end = end
        BY <1>1, <3>2
      <3>8. QED
        BY <3>4, <3>6, <3>7 DEF MoreItemsBack, end
    <2>2. QED
      BY <2>1
  <1>3. ASSUME NEW n \in T PROVE n + 1 \in T
    <2>1. ASSUME NEW p \in Seq(Texts), NEW v \in Seq(Values), Len(v) = n + 1, Len(p) = Len(v),
                 AreMoreItems(p, v, d)
          PROVE  MoreItemsBack(p, v, d)
      <3>1. n \in Nat /\ v # <<>> /\ p # <<>>
        BY <2>1, EmptySeq
      <3>2. PICK x \in Values, r \in Seq(Values) :
               /\ v = <<x>> \o r /\ Len(v) = 1 + Len(r) /\ Len(r) \in Nat
               /\ v[1] = x /\ \A i \in 1 .. Len(r) : v[1 + i] = r[i]
        <4>1. PICK x \in Values, r \in Seq(Values) : IsCons(v, x, r)
          BY <3>1, FirstAndRest
        <4>2. QED
          BY <4>1 DEF IsCons
      <3>3. PICK y \in Texts, q \in Seq(Texts) :
               /\ p = <<y>> \o q /\ Len(p) = 1 + Len(q) /\ Len(q) \in Nat
               /\ p[1] = y /\ \A i \in 1 .. Len(q) : p[1 + i] = q[i]
        <4>1. PICK y \in Texts, q \in Seq(Texts) : IsCons(p, y, q)
          BY <3>1, FirstAndRest
        <4>2. QED
          BY <4>1 DEF IsCons
      <3>4. Len(r) = n /\ Len(q) = n /\ 1 \in 1 .. Len(v)
            /\ \A i \in 1 .. Len(r) : 1 + i \in 1 .. Len(v)
        BY <2>1, <3>1, <3>2, <3>3
      <3>5. PICK t : y = <<value_separator>> \o t /\ ReadsBack(t, x, d)
        BY <2>1, <3>2, <3>3, <3>4, Zenon DEF AreMoreItems
      <3>6. AreMoreItems(q, r, d)
        BY <2>1, <3>2, <3>3, <3>4 DEF AreMoreItems
      <3>7. MoreItemsBack(q, r, d)
        BY <3>4, <3>6
      <3> DEFINE s == FlattenSeq(q) \o end
      <3>8. IsRest(s) /\ MoreItemsRead(s, r, NoEmptyKeys(r), d, nullopt)
        BY <3>7 DEF MoreItemsBack
      <3>9. FlattenSeq(p) \o end = <<value_separator>> \o (t \o s)
        <4> DEFINE c == <<value_separator>>
                   f == FlattenSeq(q)
        <4>1. t \in Texts /\ c \in Texts
          BY <3>5, NoPad DEF ReadsBack, IsValueText
        <4>2. FlattenSeq(p) = y \o f /\ f \in Texts
          BY <1>1, <3>3, FlattenCons, FlattenIsText
        <4> HIDE DEF c, f, end
        <4>3. y = c \o t
          BY <3>5 DEF c
        <4>4. (y \o f) \o end = y \o (f \o end) /\ f \o end \in Texts
          BY <1>1, <4>2, JoinedTexts, JoinedIsText
        <4>5. (c \o t) \o (f \o end) = c \o (t \o (f \o end))
          <5> DEFINE g == f \o end
          <5>1. g \in Texts
            BY <4>4
          <5> HIDE DEF g
          <5>2. (c \o t) \o g = c \o (t \o g)
            BY <4>1, <5>1, JoinedTexts, Zenon
          <5>3. QED
            BY <5>2 DEF g
        <4>6. QED
          BY <4>2, <4>3, <4>4, <4>5 DEF c, f
      <3> HIDE DEF s
      <3>10. LET w == <<value_separator>> \o (t \o s)
             IN  IsRest(w) /\ MoreItemsRead(w, <<x>> \o r, NoEmptyKeys(<<x>> \o r), d, nullopt)
        BY <3>5, <3>8, NextItemBack
      <3>11. QED
        BY <3>2, <3>9, <3>10 DEF MoreItemsBack
    <2> HIDE DEF end
    <2>2. QED
      BY <2>1
  <1>4. T = Nat
    <2>1. T \subseteq Nat
      OBVIOUS
    <2> HIDE DEF T
    <2>2. QED
      BY <1>2, <1>3, <2>1, Induction
  <1>5. Len(items) \in T
    BY <1>4, LenProperties
  <1>6. QED
    BY <1>5

\* The text of a member, or of an element of an array, and of its container.
MemberText(key, t) ==
    IF key = <<>> THEN t ELSE wrap_string(key) \o (<<name_separator>> \o t)

LEMMA MemberTextIs ==
    ASSUME NEW key \in Seq(PlainChars), NEW t \in Texts
    PROVE  MemberText(key, t) \in Texts /\ KeyPart(key, FALSE) \in Texts
           /\ KeyPart(key, FALSE) \o t = MemberText(key, t)
  <1> DEFINE k == wrap_string(key)
             c == <<name_separator>>
  <1>1. k \in Texts /\ c \in Texts
    BY PlainText, NoPad DEF Texts
  <1> HIDE DEF k, c
  <1>2. (k \o c) \o t = k \o (c \o t) /\ c \o t \in Texts /\ k \o c \in Texts /\ k \o (c \o t) \in Texts
    BY <1>1, JoinedTexts, JoinedIsText
  <1>3. <<>> \in Texts /\ <<>> \o t = t
    BY NoPad, EmptySeq DEF Texts
  <1>4. (k \o c) \o <<>> = k \o c
    BY <1>2, ConcatEmptySeq DEF Texts
  <1>5. CASE key = <<>>
    <2>1. KeyPart(key, FALSE) = <<>> /\ MemberText(key, t) = t
      BY <1>5 DEF KeyPart, MemberText
    <2>2. QED
      BY <1>3, <2>1
  <1>6. CASE key # <<>>
    <2>1. KeyPart(key, FALSE) = (k \o c) \o <<>> /\ MemberText(key, t) = k \o (c \o t)
      BY <1>6 DEF KeyPart, MemberText, k, c
    <2>2. QED
      BY <1>2, <1>4, <2>1
  <1>7. QED
    BY <1>5, <1>6

\* A part of a document without white space.
CompactPartOf(pairs, i, d, table) == PartOf(pairs, i, d, FALSE, table)

IsPart(part, i, m) ==
    m \in Texts /\ part \in Texts /\ part = IF i = 1 THEN m ELSE <<value_separator>> \o m

LEMMA CompactPart ==
    ASSUME NEW pairs, NEW i, NEW d, NEW table, pairs[i].key \in Seq(PlainChars),
           IsPlain(pairs[i].value), table[Compact(pairs[i].value, d)] \in Texts
    PROVE  IsPart(CompactPartOf(pairs, i, d, table), i,
                  MemberText(pairs[i].key, table[Compact(pairs[i].value, d)]))
  <1> DEFINE key == pairs[i].key
             value == pairs[i].value
             t == table[Compact(value, d)]
  <1> HIDE DEF t
  <1>1. t \in Texts /\ key \in Seq(PlainChars) /\ IsPlain(value)
    BY DEF t
  <1> DEFINE m == MemberText(key, t)
             k == KeyPart(key, FALSE)
             c == <<value_separator>>
             before == IF i = 1 THEN <<>> ELSE c
  <1>2. m \in Texts /\ k \in Texts /\ k \o t = m
    BY <1>1, MemberTextIs
  <1>3. c \in Texts /\ <<>> \in Texts
    BY NoPad, EmptySeq DEF Texts
  <1> HIDE DEF m, k
  <1>4. c \o <<>> = c /\ before \o <<>> = before /\ before \in Texts
    BY <1>3, ConcatEmptySeq DEF Texts
  <1>5. CompactPartOf(pairs, i, d, table) = ((before \o <<>>) \o k) \o t
    <2>1. LineBreak(FALSE) = <<>> /\ Indent(d, FALSE) = <<>>
      BY DEF LineBreak, Indent
    <2>2. ~Unwritable(pairs[i].key, pairs[i].value)
      BY <1>1, PlainIsWritable
    <2>3. c \o LineBreak(FALSE) = c
      BY <1>4, <2>1
    <2>4. (IF i = 1 THEN <<>> ELSE <<value_separator>> \o LineBreak(FALSE)) = before
      BY <2>3
    <2> HIDE DEF before
    <2>5. QED
      BY <2>1, <2>2, <2>4, Zenon DEF PartOf, CompactPartOf, Compact, k, t
  <1>6. (before \o k) \o t = before \o m
    <2> HIDE DEF before
    <2>1. before \in Texts /\ k \in Texts
      BY <1>2, <1>4
    <2>2. (before \o k) \o t = before \o (k \o t)
      BY <1>1, <2>1, JoinedTexts
    <2>3. QED
      BY <1>2, <2>2
  <1>7. before \o m = (IF i = 1 THEN m ELSE c \o m) /\ c \o m \in Texts
    BY <1>2, <1>3, NoPad, JoinedIsText
  <1>8. QED
    BY <1>2, <1>4, <1>5, <1>6, <1>7, Zenon DEF m, IsPart, t

LEMMA CompactContainer ==
    ASSUME NEW value \in Values, value.type \in ContainerTypes, NEW d \in Nat,
           NEW parts \in Seq(Texts), PartsOf(Compact(value, d), Layout) = parts
    PROVE  LET s == FlattenSeq(parts) \o <<Closing(value)>>
           IN  s \in Texts /\ Layout[Compact(value, d)] = <<Opening(value)>> \o s
  <1> DEFINE at == Compact(value, d)
             a == <<Opening(value)>>
             f == FlattenSeq(parts)
             b == <<Closing(value)>>
  <1>1. at \in Places /\ at.value = value /\ at.depth = d /\ at.pretty = FALSE
    BY DEF Places, Place, Compact
  <1>2. LineBreak(FALSE) = <<>> /\ Indent(d, FALSE) = <<>>
    BY DEF LineBreak, Indent
  <1>3. a \in Texts /\ b \in Texts
    BY NoPad DEF Opening, Closing
  <1>4. f \in Texts
    BY FlattenIsText DEF Texts
  <1>5. Layout[at] = ((((a \o <<>>) \o f) \o <<>>) \o <<>>) \o b
    <2>1. Layout[at] = LayoutOf(at, Layout)
      BY <1>1, LayoutIs
    <2> HIDE DEF a, b, f
    <2>2. PartsOf(at, Layout) = parts
      OBVIOUS
    <2> HIDE DEF at
    <2>3. /\ LineBreak(at.pretty) = <<>> /\ Indent(at.depth, at.pretty) = <<>>
          /\ <<Opening(at.value)>> = a /\ <<Closing(at.value)>> = b
          /\ FlattenSeq(PartsOf(at, Layout)) = f /\ at.value.type \in ContainerTypes
      BY <1>1, <1>2, <2>2 DEF a, b, f
    <2>4. LayoutOf(at, Layout) = ((((a \o <<>>) \o f) \o <<>>) \o <<>>) \o b
      <3>1. at.value.type \in ContainerTypes /\ at.value.type # "string"
        BY <2>3 DEF ContainerTypes
      <3>2. LayoutOf(at, Layout) =
                <<Opening(at.value)>> \o LineBreak(at.pretty)
                    \o FlattenSeq(PartsOf(at, Layout))
                    \o LineBreak(at.pretty) \o Indent(at.depth, at.pretty)
                    \o <<Closing(at.value)>>
        BY <3>1, Zenon DEF LayoutOf
      <3>3. QED
        BY <2>3, <3>2, Zenon
    <2>5. QED
      BY <2>1, <2>4
  <1> HIDE DEF a, b, f, at
  <1>6. \A s \in Texts : s \o <<>> = s
    BY ConcatEmptySeq DEF Texts
  <1>7. a \o f \in Texts /\ (a \o f) \o b = a \o (f \o b) /\ f \o b \in Texts
    BY <1>3, <1>4, JoinedTexts, JoinedIsText
  <1>8. QED
    BY <1>3, <1>5, <1>6, <1>7 DEF a, b, f, at

LEMMA CompactParts ==
    ASSUME NEW value, NEW d \in Nat, NEW pairs, Pairs(value) = pairs
    PROVE  PartsOf(Compact(value, d), Layout)
               = [i \in DOMAIN pairs |-> CompactPartOf(pairs, i, d + 1, Layout)]
  <1> DEFINE at == Compact(value, d)
  <1>1. at.value = value /\ at.depth = d /\ at.pretty = FALSE
    BY DEF Place, Compact
  <1> HIDE DEF at
  <1>2. PartsOf(at, Layout) = [i \in DOMAIN pairs |-> CompactPartOf(pairs, i, d + 1, Layout)]
    BY <1>1, Zenon DEF PartsOf, CompactPartOf
  <1>3. QED
    BY <1>2 DEF at

\* A container whose inside is read.
LEMMA ContainerReadsBack ==
    ASSUME NEW value, NEW d \in Nat, NEW ch \in {begin_array, begin_object},
           NEW s \in Texts, NEW good \in BOOLEAN,
           ReadsAs("value", <<ch>> \o s, value, IsAllowed(d, nullopt) /\ good, d, nullopt, {}),
           (~HasEmptyKey[value]) = good
    PROVE  ReadsBack(<<ch>> \o s, value, d) /\ (<<ch>> \o s)[1] = ch
  <1> DEFINE w == <<ch>> \o s
  <1>1. w \in Texts /\ w # <<>> /\ w[1] = ch
    <2>1. ch \in STRING
      BY NoPad
    <2>2. w \in Texts /\ Len(w) = 1 + Len(s) /\ Len(s) \in Nat /\ w[1] = ch
      BY <2>1, TextCons DEF Texts
    <2>3. w # <<>>
      BY <2>2, EmptySeq
    <2>4. QED
      BY <2>2, <2>3
  <1>2. IsValueText(w) /\ w[1] # string_begin_end
    BY <1>1 DEF IsValueText, Blanks, string_begin_end, value_separator, name_separator,
       end_array, end_object, begin_array, begin_object
  <1>3. (IsAllowed(d, nullopt) /\ good) = good
    BY DEF IsAllowed
  <1> HIDE DEF w
  <1>4. ReadsAs("value", w, value, ~HasEmptyKey[value], d, nullopt, {})
    BY <1>3 DEF w
  <1>5. ReadsBack(w, value, d)
    BY <1>2, <1>4 DEF ReadsBack
  <1>6. QED
    BY <1>1, <1>5 DEF w

AreItems(s, items, d) ==
    s \in Texts /\ ReadsAs("items", s, items, NoEmptyKeys(items), d, nullopt, {})

\* The texts of the elements of an array, behind one another.
LEMMA ItemsTogether ==
    ASSUME NEW d \in Nat, NEW items \in Seq(Values), NEW parts \in Seq(Texts),
           Len(parts) = Len(items),
           \A i \in 1 .. Len(items) :
              \E t : /\ parts[i] = IF i = 1 THEN t ELSE <<value_separator>> \o t
                     /\ ReadsBack(t, items[i], d)
    PROVE  AreItems(FlattenSeq(parts) \o <<end_array>>, items, d)
  <1> DEFINE end == <<end_array>>
             s == FlattenSeq(parts) \o end
  <1>1. end \in Texts /\ <<>> \o end = end /\ Texts = Seq(STRING)
    BY NoPad DEF Texts
  <1>2. FlattenSeq(parts) \in Texts
    BY <1>1, FlattenIsText
  <1>3. s \in Texts
    BY <1>1, <1>2, JoinedIsText
  <1>4. CASE Len(items) = 0
    <2>1. items = <<>> /\ parts = <<>>
      BY <1>4, EmptySeq
    <2>2. FlattenSeq(parts) = <<>>
      BY <1>1, <2>1, FlattenFew
    <2>3. ReadsAs("items", end, <<>>, TRUE, d, nullopt, {})
      <3>1. ReadsAs("items", <<>> \o <<end_array>>, <<>>, TRUE, d, nullopt, {})
        BY NoPad, EndOfArrayReads
      <3>2. QED
        BY <1>1, <3>1
    <2>4. NoEmptyKeys(items) = TRUE
      BY <1>4 DEF NoEmptyKeys
    <2> HIDE DEF end
    <2>5. s = end
      BY <1>1, <2>2
    <2> HIDE DEF s
    <2>6. ReadsAs("items", s, items, NoEmptyKeys(items), d, nullopt, {})
      BY <2>1, <2>3, <2>4, <2>5
    <2>7. QED
      BY <1>3, <2>6 DEF s, end, AreItems
  <1>5. CASE Len(items) # 0
    <2>1. items # <<>> /\ parts # <<>> /\ Len(items) \in Nat
      BY <1>5, EmptySeq, LenProperties
    <2>2. PICK x \in Values, r \in Seq(Values) : IsCons(items, x, r)
      BY <2>1, FirstAndRest
    <2>3. PICK y \in Texts, q \in Seq(Texts) : IsCons(parts, y, q)
      BY <2>1, FirstAndRest
    <2>4. /\ items = <<x>> \o r /\ Len(items) = 1 + Len(r) /\ Len(r) \in Nat
          /\ items[1] = x /\ \A i \in 1 .. Len(r) : items[1 + i] = r[i]
          /\ parts = <<y>> \o q /\ Len(parts) = 1 + Len(q) /\ Len(q) \in Nat
          /\ parts[1] = y /\ \A i \in 1 .. Len(q) : parts[1 + i] = q[i]
      BY <2>2, <2>3 DEF IsCons
    <2>5. /\ Len(r) = Len(q) /\ 1 \in 1 .. Len(items)
          /\ \A i \in 1 .. Len(r) : 1 + i \in 1 .. Len(items) /\ 1 + i # 1
      BY <2>4
    <2>6. ReadsBack(y, x, d)
      BY <2>4, <2>5
    <2>7. AreMoreItems(q, r, d)
      <3>1. ASSUME NEW i \in 1 .. Len(r)
            PROVE  \E t : q[i] = <<value_separator>> \o t /\ ReadsBack(t, r[i], d)
        <4>1. /\ 1 + i \in 1 .. Len(items) /\ 1 + i # 1 /\ i \in 1 .. Len(q)
              /\ parts[1 + i] = q[i] /\ items[1 + i] = r[i]
          BY <2>4, <2>5
        <4>2. PICK t : /\ parts[1 + i] = IF 1 + i = 1 THEN t ELSE <<value_separator>> \o t
                       /\ ReadsBack(t, items[1 + i], d)
          BY <4>1
        <4>3. QED
          BY <4>1, <4>2
      <3>2. QED
        BY <3>1 DEF AreMoreItems
    <2>8. MoreItemsBack(q, r, d)
      BY <2>5, <2>7, ItemsBack
    <2> DEFINE u == FlattenSeq(q) \o end
    <2>9. IsRest(u) /\ MoreItemsRead(u, r, NoEmptyKeys(r), d, nullopt)
      BY <2>8 DEF MoreItemsBack
    <2>10. s = y \o u
      <3> DEFINE f == FlattenSeq(q)
      <3>1. FlattenSeq(parts) = y \o f /\ f \in Texts
        BY <1>1, <2>4, FlattenCons, FlattenIsText
      <3> HIDE DEF f, end
      <3>2. (y \o f) \o end = y \o (f \o end)
        BY <1>1, <3>1, JoinedTexts
      <3>3. QED
        BY <3>1, <3>2 DEF f
    <2> HIDE DEF u, s, end
    <2>11. ReadsAs("items", y \o u, <<x>> \o r, NoEmptyKeys(<<x>> \o r), d, nullopt, {})
      BY <2>6, <2>9, NextItemBack
    <2>12. ReadsAs("items", s, items, NoEmptyKeys(items), d, nullopt, {})
      BY <2>4, <2>10, <2>11
    <2>13. QED
      BY <1>3, <2>12 DEF s, end, AreItems
  <1>6. QED
    BY <1>4, <1>5

LEMMA ArrayReadsBack ==
    ASSUME NEW value \in Values, IsPlain(value), value.type = "array", NEW d \in Nat,
           \A i \in 1 .. Len(value.items) : IsReadBack(value.items[i], d + 1)
    PROVE  IsReadBack(value, d) /\ Layout[Compact(value, d)][1] = begin_array
  <1> DEFINE items == value.items
             n == Len(items)
             pairs == [i \in DOMAIN items |-> [key |-> <<>>, value |-> items[i]]]
             parts == [i \in 1 .. n |-> CompactPartOf(pairs, i, d + 1, Layout)]
             s == FlattenSeq(parts) \o <<end_array>>
  <1>1. /\ value = Array(items) /\ items \in Seq(Values)
        /\ \A i \in 1 .. n : IsPlain(items[i])
    BY KindsOfPlain
  <1>2. n \in Nat /\ DOMAIN items = 1 .. n
    BY <1>1, LenProperties
  <1>3. /\ DOMAIN pairs = 1 .. n
        /\ \A i \in 1 .. n : pairs[i].key = <<>> /\ pairs[i].value = items[i]
    BY <1>2
  <1>4. Pairs(value) = pairs
    BY DEF Pairs
  <1> HIDE DEF pairs, items
  <1>5. PartsOf(Compact(value, d), Layout) = parts
    BY <1>3, <1>4, CompactParts
  <1>6. ASSUME NEW i \in 1 .. n
        PROVE  /\ CompactPartOf(pairs, i, d + 1, Layout) \in Texts
               /\ \E t : /\ CompactPartOf(pairs, i, d + 1, Layout)
                                = IF i = 1 THEN t ELSE <<value_separator>> \o t
                         /\ ReadsBack(t, items[i], d + 1)
    <2> DEFINE t == Layout[Compact(items[i], d + 1)]
    <2>1. ReadsBack(t, items[i], d + 1) /\ t \in Texts
      BY DEF IsReadBack, ReadsBack, IsValueText, items
    <2> DEFINE key == <<>>
               m == MemberText(key, t)
    <2>2. key \in Seq(PlainChars) /\ m = t
      BY EmptySeq DEF MemberText
    <2>3. pairs[i].key = key /\ pairs[i].value = items[i] /\ IsPlain(items[i])
      BY <1>1, <1>3
    <2> HIDE DEF t, key
    <2> DEFINE e == d + 1
    <2>4. Layout[Compact(items[i], e)] = t
      BY DEF t
    <2> HIDE DEF e, m
    <2>5. IsPart(CompactPartOf(pairs, i, e, Layout), i, m)
      <3>1. pairs[i].key \in Seq(PlainChars) /\ IsPlain(pairs[i].value)
        BY <2>2, <2>3
      <3>2. Layout[Compact(pairs[i].value, e)] = t
        BY <2>3, <2>4
      <3>3. IsPart(CompactPartOf(pairs, i, e, Layout), i,
                   MemberText(pairs[i].key, Layout[Compact(pairs[i].value, e)]))
        BY <2>1, <3>1, <3>2, CompactPart
      <3>4. QED
        BY <2>3, <3>2, <3>3 DEF m
    <2>6. QED
      BY <2>1, <2>2, <2>5 DEF e, IsPart
  <1>7. parts \in Seq(Texts) /\ Len(parts) = n
    <2>1. parts \in [1 .. n -> Texts]
      BY <1>6
    <2> HIDE DEF parts
    <2>2. QED
      BY <1>2, <2>1, FunctionIsText
  <1>8. s \in Texts /\ ReadsAs("items", s, items, NoEmptyKeys(items), d + 1, nullopt, {})
    <2>1. \A i \in 1 .. n : parts[i] = CompactPartOf(pairs, i, d + 1, Layout)
      OBVIOUS
    <2> HIDE DEF parts
    <2>2. \A i \in 1 .. Len(items) :
             \E t : /\ parts[i] = IF i = 1 THEN t ELSE <<value_separator>> \o t
                    /\ ReadsBack(t, items[i], d + 1)
      BY <1>6, <2>1
    <2> DEFINE e == d + 1
    <2>3. e \in Nat
      OBVIOUS
    <2> HIDE DEF e
    <2>4. \A i \in 1 .. Len(items) :
             \E t : /\ parts[i] = IF i = 1 THEN t ELSE <<value_separator>> \o t
                    /\ ReadsBack(t, items[i], e)
      BY <2>2 DEF e
    <2>5. AreItems(s, items, e)
      BY <1>1, <1>7, <2>3, <2>4, ItemsTogether
    <2>6. QED
      BY <2>5 DEF AreItems, e
  <1> DEFINE good == NoEmptyKeys(items)
  <1>9. good \in BOOLEAN /\ (~HasEmptyKey[value]) = good
    BY <1>2, EmptyKeys DEF NoEmptyKeys, items
  <1>10. Layout[Compact(value, d)] = <<begin_array>> \o s
    <2>1. value.type \in ContainerTypes /\ Opening(value) = begin_array /\ Closing(value) = end_array
      BY DEF ContainerTypes, Opening, Closing
    <2> HIDE DEF parts
    <2>2. QED
      BY <1>5, <1>7, <2>1, CompactContainer
  <1> HIDE DEF s, good
  <1>11. ReadsAs("value", <<begin_array>> \o s, Array(items), IsAllowed(d, nullopt) /\ good,
                 d, nullopt, {})
    <2>1. ReadsAs("items", s, items, good, d + 1, nullopt, {})
      BY <1>8 DEF good
    <2>2. nullopt \in Nat \cup {nullopt}
      OBVIOUS
    <2>3. QED
      BY <1>8, <1>9, <2>1, <2>2, ArrayReads
  <1>12. ReadsBack(<<begin_array>> \o s, value, d) /\ (<<begin_array>> \o s)[1] = begin_array
    <2>1. begin_array \in {begin_array, begin_object}
      OBVIOUS
    <2>2. QED
      BY <1>1, <1>8, <1>9, <1>11, <2>1, ContainerReadsBack
  <1>13. QED
    BY <1>10, <1>12 DEF IsReadBack

\* The keys of an object are written each once.
LEMMA SortedKeys ==
    ASSUME NEW keys \in SUBSET Seq(Letters), IsFiniteSet(keys)
    PROVE  LET p == Sorted(keys)
           IN  /\ p \in Seq(keys)
               /\ \A i, j \in 1 .. Len(p) : p[i] = p[j] => i = j
               /\ \A key \in keys : \E i \in 1 .. Len(p) : p[i] = key
  <1> DEFINE p == InOrder(keys)
             n == Cardinality(keys)
  <1>1. /\ n \in Nat /\ Increasing(p, keys)
        /\ \A i \in 1 .. n : Rank(p[i], keys) = i - 1
    BY KeysInOrder
  <1>2. Sorted(keys) = p
    <2>1. WritingAssumptions
      BY WritingAssumptionsHold
    <2>2. keys \in SUBSET Seq(D!Letters) /\ D!IsFiniteSet(keys)
      BY DEF D!Letters, Letters, D!IsFiniteSet, IsFiniteSet
    <2>3. D!Sorted(keys) = D!InOrder(keys)
      BY <2>1, <2>2, D!SortedIsInOrder DEF WritingAssumptions
    <2>4. D!Sorted(keys) = Sorted(keys)
      BY DEF D!Sorted, Sorted, D!Before, Before, D!CodesOf, CodesOf, D!SetToSeqs, SetToSeqs,
         D!Cardinality, Cardinality, D!IsStrictPrefix, IsStrictPrefix, D!IsPrefix, IsPrefix,
         D!IsFiniteSet, IsFiniteSet, D!IsInjective, IsInjective
    <2>5. D!InOrder(keys) = InOrder(keys)
      BY DEF D!InOrder, InOrder, D!Cardinality, Cardinality, D!Less, Less
    <2>6. QED
      BY <2>3, <2>4, <2>5
  <1> HIDE DEF p, n
  <1>3. p \in [1 .. n -> keys]
    BY <1>1 DEF Increasing, n
  <1>4. p \in Seq(keys) /\ Len(p) = n
    BY <1>1, <1>3, FunctionIsText
  <1>5. \A i, j \in 1 .. n : p[i] = p[j] => i = j
    <2>1. ASSUME NEW i \in 1 .. n, NEW j \in 1 .. n, p[i] = p[j] PROVE i - 1 = j - 1
      BY <1>1, <2>1
    <2>2. QED
      BY <1>1, <2>1
  <1>6. ASSUME NEW key \in keys PROVE \E i \in 1 .. n : p[i] = key
    <2>1. Rank(key, keys) \in 0 .. n - 1
      BY RanksAreUsed DEF n
    <2> DEFINE i == Rank(key, keys) + 1
    <2>2. i \in 1 .. n /\ i - 1 = Rank(key, keys)
      BY <1>1, <2>1
    <2> HIDE DEF i
    <2>3. p[i] \in keys /\ Rank(p[i], keys) = Rank(key, keys)
      BY <1>1, <1>3, <2>2
    <2>4. p[i] = key
      BY <2>3, RanksAreUsed
    <2>5. QED
      BY <2>2, <2>4
  <1>7. QED
    BY <1>2, <1>4, <1>5, <1>6

\* The end of the text of an object, behind one of its members.
IsMemberRest(s) == IsRest(s) /\ s[1] \in {value_separator, end_object}

MembersAre(u, members, good, d, used) ==
    u \in Texts /\ ReadsAs("members", u, members, good, d, nullopt, used)

\* A member in front of others.
LEMMA NextMember ==
    ASSUME NEW d \in Nat, NEW used \in SUBSET Texts,
           NEW key \in Seq(PlainChars), key \notin used,
           NEW x, NEW t, ReadsBack(t, x, d), NEW s, IsMemberRest(s),
           NEW members, NEW goods \in BOOLEAN,
           MoreMembersRead(s, members, goods, d, nullopt, used \cup {key})
    PROVE  MembersAre(MemberText(key, t) \o s, Bound(key, x, members),
                      key # <<>> /\ ~HasEmptyKey[x] /\ goods, d, used)
  <1> DEFINE fine == ~HasEmptyKey[x]
             u == MemberText(key, t) \o s
             all == Bound(key, x, members)
             good == key # <<>> /\ fine /\ goods
             l == nullopt
             pad == <<>>
  <1>1. /\ t \in Texts /\ s \in Texts /\ IsValueText(t) /\ IsRest(s)
        /\ s[1] \in {value_separator, end_object}
        /\ ReadsAs("value", t, x, fine, d, l, {})
        /\ t[1] = string_begin_end => \E string \in PlainTexts : t = wrap_string(string)
    BY DEF ReadsBack, IsValueText, IsRest, IsMemberRest
  <1>2. fine \in BOOLEAN /\ l \in Nat \cup {nullopt} /\ pad \in Pads
    BY NoPad
  <1>3. MoreMembersRead(s, members, goods, d, l, used \cup {key})
    OBVIOUS
  <1>4. MemberText(key, t) \in Texts /\ key \in PlainTexts
    BY <1>1, MemberTextIs, PlainIsText
  <1>5. u \in Texts
    BY <1>1, <1>4, JoinedIsText
  <1>6. CASE key = <<>>
    <2>1. u = t \o s /\ good = FALSE
      BY <1>6 DEF MemberText
    <2> HIDE DEF l, pad, u, all
    <2>2. ReadsAs("members", pad \o (t \o s), all, FALSE, d, l, used)
      BY <1>1, <1>2, NamelessReads
    <2>3. pad \o (t \o s) = t \o s
      <3>1. t \o s \in Texts
        BY <1>5, <2>1
      <3>2. QED
        BY <3>1, NoPad DEF pad
    <2>4. ReadsAs("members", u, all, good, d, l, used)
      BY <2>1, <2>2, <2>3
    <2>5. QED
      BY <1>5, <2>4 DEF MembersAre, u, all, l
  <1>7. CASE key # <<>>
    <2> DEFINE k == wrap_string(key)
               c == <<name_separator>>
               w == c \o (t \o s)
    <2>1. good = (fine /\ goods)
      BY <1>7
    <2>2. k \in Texts /\ c \in Texts /\ t \o s \in Texts /\ w \in Texts
      BY <1>1, NoPad, PlainText, JoinedIsText DEF Texts
    <2>3. u = k \o w
      <3>1. u = (k \o (c \o t)) \o s
        BY <1>7 DEF MemberText
      <3> HIDE DEF k, c, u
      <3>2. c \o t \in Texts
        BY <1>1, <2>2, JoinedIsText
      <3>3. (k \o (c \o t)) \o s = k \o ((c \o t) \o s)
        <4> DEFINE v == c \o t
        <4>1. v \in Texts /\ k \in Texts /\ s \in Texts
          BY <1>1, <2>2, <3>2
        <4> HIDE DEF v
        <4>2. (k \o v) \o s = k \o (v \o s)
          BY <4>1, JoinedTexts
        <4>3. QED
          BY <4>2 DEF v
      <3>4. (c \o t) \o s = c \o (t \o s)
        BY <1>1, <2>2, JoinedTexts, Zenon
      <3>5. QED
        BY <3>1, <3>3, <3>4
    <2> HIDE DEF l, pad, u, all, fine
    <2>4. ReadsAs("members", pad \o (wrap_string(key) \o (pad \o (<<name_separator>> \o
                     (pad \o (t \o s))))),
                  Bound(key, x, members), fine /\ goods, d, l, used)
      BY <1>1, <1>2, <1>3, <1>4, MemberReads
    <2>5. pad \o (t \o s) = t \o s /\ pad \o w = w /\ pad \o u = u
      BY <1>5, <2>2, NoPad DEF pad
    <2>6. pad \o (wrap_string(key) \o (pad \o (<<name_separator>> \o (pad \o (t \o s))))) = u
      BY <2>3, <2>5 DEF k, c, w
    <2>7. ReadsAs("members", u, all, good, d, l, used)
      BY <2>1, <2>4, <2>6 DEF all
    <2>8. QED
      BY <1>5, <2>7 DEF MembersAre, u, all, l, fine
  <1>8. QED
    BY <1>6, <1>7

HasMoreMembers(s, members, good, d, used) ==
    IsMemberRest(s) /\ MoreMembersRead(s, members, good, d, nullopt, used)

LEMMA SeparatedMembers ==
    ASSUME NEW d \in Nat, NEW used \in SUBSET Texts, NEW u, NEW members, NEW good \in BOOLEAN,
           MembersAre(u, members, good, d, used)
    PROVE  HasMoreMembers(<<value_separator>> \o u, members, good, d, used)
  <1> DEFINE w == <<value_separator>> \o u
             l == nullopt
             pad == <<>>
  <1>1. u \in Texts /\ ReadsAs("members", u, members, good, d, l, used)
    BY DEF MembersAre
  <1>2. w \in Texts /\ w # <<>> /\ w[1] = value_separator
    <2>1. value_separator \in STRING
      BY NoPad
    <2>2. w \in Texts /\ Len(w) = 1 + Len(u) /\ Len(u) \in Nat /\ w[1] = value_separator
      BY <1>1, <2>1, TextCons DEF Texts
    <2>3. w # <<>>
      BY <2>2, EmptySeq
    <2>4. QED
      BY <2>2, <2>3
  <1>3. l \in Nat \cup {nullopt} /\ pad \in Pads /\ pad \o w = w
    BY <1>2, NoPad
  <1> HIDE DEF l, pad, w
  <1>4. MoreMembersRead(pad \o (<<value_separator>> \o u), members, good, d, l, used)
    BY <1>1, <1>3, MoreMembersReads
  <1>5. MoreMembersRead(w, members, good, d, l, used)
    BY <1>3, <1>4 DEF w
  <1>6. IsMemberRest(w)
    BY <1>2 DEF IsMemberRest, IsRest
  <1>7. QED
    BY <1>5, <1>6 DEF HasMoreMembers, l, w

\* The members with some of the keys, in the order of these.
Some(keys, members) == [key \in Range(keys) |-> members[key]]

AllNamed(keys, members) ==
    \A i \in 1 .. Len(keys) : keys[i] # <<>> /\ ~HasEmptyKey[members[keys[i]]]

AreMembers(first, parts, keys, members, d) ==
    \A i \in 1 .. Len(keys) :
        \E t : /\ parts[i] = IF first /\ i = 1 THEN MemberText(keys[i], t)
                             ELSE <<value_separator>> \o MemberText(keys[i], t)
               /\ ReadsBack(t, members[keys[i]], d)

\* Keys that differ from each other and from those before them.
AreFresh(keys, used) ==
    /\ used \subseteq Texts
    /\ \A i \in 1 .. Len(keys) : keys[i] \notin used
    /\ \A i, j \in 1 .. Len(keys) : keys[i] = keys[j] => i = j

LEMMA FreshCons ==
    ASSUME NEW key \in Seq(PlainChars), NEW keys, NEW r, IsCons(keys, key, r),
           NEW used, AreFresh(keys, used)
    PROVE  key \notin used /\ used \in SUBSET Texts /\ AreFresh(r, used \cup {key})
  <1>1. /\ Len(keys) = 1 + Len(r) /\ Len(r) \in Nat /\ keys[1] = key
        /\ \A i \in 1 .. Len(r) : keys[1 + i] = r[i]
    BY DEF IsCons
  <1>2. /\ 1 \in 1 .. Len(keys)
        /\ \A i \in 1 .. Len(r) : 1 + i \in 1 .. Len(keys) /\ 1 + i # 1
    BY <1>1
  <1>3. key \notin used /\ used \in SUBSET Texts
    BY <1>1, <1>2 DEF AreFresh
  <1>4. key \in Texts
    BY PlainIsText
  <1>5. ASSUME NEW i \in 1 .. Len(r) PROVE r[i] \notin used \cup {key}
    BY <1>1, <1>2, <1>5 DEF AreFresh
  <1>6. ASSUME NEW i \in 1 .. Len(r), NEW j \in 1 .. Len(r), r[i] = r[j] PROVE i = j
    <2>1. 1 + i = 1 + j
      BY <1>1, <1>2, <1>6 DEF AreFresh
    <2>2. QED
      BY <1>1, <2>1
  <1>7. QED
    BY <1>3, <1>4, <1>5, <1>6 DEF AreFresh

LEMMA NamedCons ==
    ASSUME NEW key, NEW keys, NEW r, IsCons(keys, key, r), NEW members
    PROVE  AllNamed(keys, members) =
              (key # <<>> /\ ~HasEmptyKey[members[key]] /\ AllNamed(r, members))
  <1> DEFINE IsNamed(k) == k # <<>> /\ ~HasEmptyKey[members[k]]
  <1>1. /\ Len(keys) = 1 + Len(r) /\ Len(r) \in Nat /\ keys[1] = key
        /\ \A i \in 1 .. Len(r) : keys[1 + i] = r[i]
    BY DEF IsCons
  <1>2. /\ AllNamed(keys, members) = (\A i \in 1 .. Len(keys) : IsNamed(keys[i]))
        /\ AllNamed(r, members) = (\A i \in 1 .. Len(r) : IsNamed(r[i]))
    BY DEF AllNamed
  <1>3. (key # <<>> /\ ~HasEmptyKey[members[key]] /\ AllNamed(r, members)) =
            (IsNamed(key) /\ AllNamed(r, members))
    OBVIOUS
  <1> HIDE DEF IsNamed
  <1>4. ASSUME \A i \in 1 .. Len(keys) : IsNamed(keys[i])
        PROVE  IsNamed(key) /\ \A i \in 1 .. Len(r) : IsNamed(r[i])
    <2>1. 1 \in 1 .. Len(keys) /\ \A i \in 1 .. Len(r) : 1 + i \in 1 .. Len(keys)
      BY <1>1
    <2>2. QED
      BY <1>1, <1>4, <2>1
  <1>5. ASSUME IsNamed(key), \A i \in 1 .. Len(r) : IsNamed(r[i])
        PROVE  \A i \in 1 .. Len(keys) : IsNamed(keys[i])
    <2>1. \A i \in 1 .. Len(keys) : i = 1 \/ (i - 1 \in 1 .. Len(r) /\ i = 1 + (i - 1))
      BY <1>1
    <2>2. QED
      BY <1>1, <1>5, <2>1
  <1>6. QED
    BY <1>2, <1>3, <1>4, <1>5

LEMMA SomeCons ==
    ASSUME NEW key, NEW keys, NEW r, IsCons(keys, key, r), NEW members,
           DOMAIN keys = 1 .. Len(keys), DOMAIN r = 1 .. Len(r)
    PROVE  Some(keys, members) = Bound(key, members[key], Some(r, members))
  <1>1. /\ Len(keys) = 1 + Len(r) /\ Len(r) \in Nat /\ keys[1] = key
        /\ \A i \in 1 .. Len(r) : keys[1 + i] = r[i]
    BY DEF IsCons
  <1>2. Range(keys) = {key} \cup Range(r)
    <2>1. Range(keys) = {keys[i] : i \in 1 .. Len(keys)} /\ Range(r) = {r[i] : i \in 1 .. Len(r)}
      BY DEF Range
    <2>2. 1 \in 1 .. Len(keys) /\ \A i \in 1 .. Len(r) : 1 + i \in 1 .. Len(keys)
      BY <1>1
    <2>3. \A i \in 1 .. Len(keys) : i = 1 \/ (i - 1 \in 1 .. Len(r) /\ i = 1 + (i - 1))
      BY <1>1
    <2>4. ASSUME NEW k \in Range(keys) PROVE k \in {key} \cup Range(r)
      <3>1. PICK i \in 1 .. Len(keys) : k = keys[i]
        BY <2>1, <2>4
      <3>2. CASE i = 1
        BY <1>1, <3>1, <3>2
      <3>3. CASE i - 1 \in 1 .. Len(r) /\ i = 1 + (i - 1)
        <4>1. k = r[i - 1]
          BY <1>1, <3>1, <3>3
        <4>2. QED
          BY <2>1, <3>3, <4>1
      <3>4. QED
        BY <2>3, <3>2, <3>3
    <2>5. ASSUME NEW k \in {key} \cup Range(r) PROVE k \in Range(keys)
      BY <1>1, <2>1, <2>2, <2>5
    <2>6. QED
      BY <2>4, <2>5
  <1> DEFINE m == Some(r, members)
             all == Bound(key, members[key], m)
  <1>3. DOMAIN m = Range(r) /\ \A k \in Range(r) : m[k] = members[k]
    BY DEF Some
  <1> HIDE DEF m
  <1>4. all = [k \in Range(keys) |-> IF k = key THEN members[key] ELSE m[k]]
    BY <1>2, <1>3 DEF Bound
  <1>5. \A k \in Range(keys) : (IF k = key THEN members[key] ELSE m[k]) = members[k]
    BY <1>2, <1>3
  <1>6. all = [k \in Range(keys) |-> members[k]]
    BY <1>4, <1>5
  <1>7. QED
    BY <1>6 DEF Some, m

\* The members of an object behind another, and its end.
MembersBack(parts, keys, members, d, used) ==
    HasMoreMembers(FlattenSeq(parts) \o <<end_object>>, Some(keys, members),
                   AllNamed(keys, members), d, used)

LEMMA NoMembersBack ==
    ASSUME NEW d \in Nat, NEW used \in SUBSET Texts, NEW members
    PROVE  MembersBack(<<>>, <<>>, members, d, used)
           /\ MembersAre(FlattenSeq(<<>>) \o <<end_object>>, Some(<<>>, members),
                         AllNamed(<<>>, members), d, used)
  <1> DEFINE end == <<end_object>>
             s == FlattenSeq(<<>>) \o end
             none == Some(<<>>, members)
             good == AllNamed(<<>>, members)
  <1>1. end \in Texts /\ <<>> \o end = end /\ Texts = Seq(STRING)
    BY NoPad DEF Texts
  <1>2. FlattenSeq(<<>>) = <<>>
    BY <1>1, FlattenFew
  <1>3. none = <<>>
    <2>1. Range(<<>>) = {}
      BY DEF Range
    <2>2. none = [k \in {} |-> members[k]]
      BY <2>1 DEF Some
    <2> HIDE DEF none
    <2>3. QED
      BY <2>2
  <1>4. good = TRUE
    BY DEF AllNamed
  <1>5. end # <<>> /\ end[1] = end_object
    OBVIOUS
  <1>6. /\ ReadsAs("members", end, <<>>, TRUE, d, nullopt, used)
        /\ MoreMembersRead(end, <<>>, TRUE, d, nullopt, used)
    <2>1. <<>> \in Pads /\ nullopt \in Nat \cup {nullopt}
      BY NoPad
    <2>2. /\ ReadsAs("members", <<>> \o <<end_object>>, <<>>, TRUE, d, nullopt, used)
          /\ MoreMembersRead(<<>> \o <<end_object>>, <<>>, TRUE, d, nullopt, used)
      BY <2>1, EndOfObjectReads
    <2>3. QED
      BY <1>1, <2>2
  <1> HIDE DEF end, none, good
  <1>7. s = end
    BY <1>1, <1>2
  <1> HIDE DEF s
  <1>8. HasMoreMembers(s, none, good, d, used) /\ MembersAre(s, none, good, d, used)
    <2>1. IsMemberRest(s)
      BY <1>1, <1>5, <1>7 DEF IsMemberRest, IsRest
    <2>2. QED
      BY <1>1, <1>3, <1>4, <1>6, <1>7, <2>1 DEF HasMoreMembers, MembersAre
  <1>9. QED
    BY <1>8 DEF MembersBack, s, none, good, end

\* The first of some members and the others.
LEMMA MembersCons ==
    ASSUME NEW d \in Nat, NEW key \in Seq(PlainChars), NEW keys, NEW r, IsCons(keys, key, r),
           DOMAIN keys = 1 .. Len(keys), DOMAIN r = 1 .. Len(r),
           NEW used, AreFresh(keys, used), NEW members,
           NEW t, ReadsBack(t, members[key], d), NEW q,
           MembersBack(q, r, members, d, used \cup {key})
    PROVE  MembersAre(MemberText(key, t) \o (FlattenSeq(q) \o <<end_object>>),
                      Some(keys, members), AllNamed(keys, members), d, used)
  <1> DEFINE s == FlattenSeq(q) \o <<end_object>>
             goods == AllNamed(r, members)
             others == Some(r, members)
             x == members[key]
  <1>1. goods \in BOOLEAN
    BY DEF AllNamed
  <1>2. /\ IsMemberRest(s)
        /\ MoreMembersRead(s, others, goods, d, nullopt, used \cup {key})
    BY DEF MembersBack, HasMoreMembers
  <1>3. key \notin used /\ used \in SUBSET Texts
    BY FreshCons
  <1>4. AllNamed(keys, members) = (key # <<>> /\ ~HasEmptyKey[x] /\ goods)
    BY NamedCons
  <1>5. Some(keys, members) = Bound(key, x, others)
    BY SomeCons
  <1> HIDE DEF s, goods, others, x
  <1>6. ReadsBack(t, x, d)
    BY DEF x
  <1>7. MembersAre(MemberText(key, t) \o s, Bound(key, x, others),
                   key # <<>> /\ ~HasEmptyKey[x] /\ goods, d, used)
    BY <1>1, <1>2, <1>3, <1>6, NextMember
  <1>8. QED
    BY <1>4, <1>5, <1>7 DEF s

LEMMA MembersAreBack ==
    ASSUME NEW d \in Nat, NEW members, NEW keys \in Seq(Seq(PlainChars)), NEW parts \in Seq(Texts),
           Len(parts) = Len(keys), AreMembers(FALSE, parts, keys, members, d),
           NEW used, AreFresh(keys, used)
    PROVE  MembersBack(parts, keys, members, d, used)
  <1> DEFINE Keys == Seq(PlainChars)
             Holds(p, v, w) ==
                 Len(p) = Len(v) /\ AreMembers(FALSE, p, v, members, d) /\ AreFresh(v, w)
                     => MembersBack(p, v, members, d, w)
             T == {n \in Nat : \A p \in Seq(Texts), v \in Seq(Keys), w \in SUBSET Texts :
                                   Len(v) = n => Holds(p, v, w)}
             end == <<end_object>>
  <1>1. end \in Texts /\ Texts = Seq(STRING)
    BY NoPad DEF Texts
  <1>2. 0 \in T
    <2>1. ASSUME NEW p \in Seq(Texts), NEW v \in Seq(Keys), NEW w \in SUBSET Texts,
                 Len(v) = 0, Len(p) = Len(v)
          PROVE  MembersBack(p, v, members, d, w)
      <3>1. p = <<>> /\ v = <<>>
        BY <2>1, EmptySeq
      <3>2. MembersBack(<<>>, <<>>, members, d, w)
        BY NoMembersBack
      <3>3. QED
        BY <3>1, <3>2
    <2>2. QED
      BY <2>1
  <1>3. ASSUME NEW n \in T PROVE n + 1 \in T
    <2>1. ASSUME NEW p \in Seq(Texts), NEW v \in Seq(Keys), NEW w \in SUBSET Texts,
                 Len(v) = n + 1, Len(p) = Len(v),
                 AreMembers(FALSE, p, v, members, d), AreFresh(v, w)
          PROVE  MembersBack(p, v, members, d, w)
      <3>1. n \in Nat /\ v # <<>> /\ p # <<>>
        BY <2>1, EmptySeq
      <3>2. PICK key \in Keys, r \in Seq(Keys) : IsCons(v, key, r)
        BY <3>1, FirstAndRest
      <3>3. PICK y \in Texts, q \in Seq(Texts) : IsCons(p, y, q)
        BY <3>1, FirstAndRest
      <3>4. /\ Len(v) = 1 + Len(r) /\ Len(r) \in Nat
            /\ v[1] = key /\ \A i \in 1 .. Len(r) : v[1 + i] = r[i]
            /\ p = <<y>> \o q /\ Len(p) = 1 + Len(q) /\ Len(q) \in Nat
            /\ p[1] = y /\ \A i \in 1 .. Len(q) : p[1 + i] = q[i]
        BY <3>2, <3>3 DEF IsCons
      <3>5. Len(r) = n /\ Len(q) = n /\ 1 \in 1 .. Len(v)
            /\ \A i \in 1 .. Len(r) : 1 + i \in 1 .. Len(v)
        BY <2>1, <3>1, <3>4
      <3>6. PICK t : /\ y = <<value_separator>> \o MemberText(key, t)
                     /\ ReadsBack(t, members[key], d)
        BY <2>1, <3>4, <3>5 DEF AreMembers
      <3>7. AreMembers(FALSE, q, r, members, d)
        <4>1. ASSUME NEW i \in 1 .. Len(r)
              PROVE  \E u : /\ q[i] = <<value_separator>> \o MemberText(r[i], u)
                            /\ ReadsBack(u, members[r[i]], d)
          <5>1. 1 + i \in 1 .. Len(v) /\ v[1 + i] = r[i] /\ p[1 + i] = q[i]
            BY <3>4, <3>5
          <5>2. \E u : /\ p[1 + i] = <<value_separator>> \o MemberText(v[1 + i], u)
                       /\ ReadsBack(u, members[v[1 + i]], d)
            BY <2>1, <5>1 DEF AreMembers
          <5>3. QED
            BY <5>1, <5>2
        <4>2. QED
          BY <4>1 DEF AreMembers
      <3>8. AreFresh(r, w \cup {key}) /\ w \cup {key} \in SUBSET Texts
        BY <2>1, <3>2, FreshCons, PlainIsText
      <3>9. MembersBack(q, r, members, d, w \cup {key})
        BY <3>5, <3>7, <3>8
      <3> DEFINE s == FlattenSeq(q) \o end
                 m == MemberText(key, t)
                 some == Some(v, members)
                 good == AllNamed(v, members)
      <3>10. DOMAIN v = 1 .. Len(v) /\ DOMAIN r = 1 .. Len(r)
        BY LenProperties
      <3>11. MembersAre(m \o s, some, good, d, w)
        BY <2>1, <3>2, <3>6, <3>9, <3>10, MembersCons
      <3>12. good \in BOOLEAN
        BY DEF AllNamed
      <3> HIDE DEF some, good
      <3>13. HasMoreMembers(<<value_separator>> \o (m \o s), some, good, d, w)
        <4> DEFINE u == m \o s
        <4>1. MembersAre(u, some, good, d, w)
          BY <3>11
        <4> HIDE DEF u
        <4>2. HasMoreMembers(<<value_separator>> \o u, some, good, d, w)
          BY <3>12, <4>1, SeparatedMembers
        <4>3. QED
          BY <4>2 DEF u
      <3>14. FlattenSeq(p) \o end = <<value_separator>> \o (m \o s)
        <4> DEFINE c == <<value_separator>>
                   f == FlattenSeq(q)
        <4>1. m \in Texts /\ c \in Texts
          BY <3>6, MemberTextIs, NoPad DEF ReadsBack, IsValueText
        <4>2. FlattenSeq(p) = y \o f /\ f \in Texts
          BY <1>1, <3>4, FlattenCons, FlattenIsText
        <4> HIDE DEF c, f, end, m
        <4>3. y = c \o m
          BY <3>6 DEF c, m
        <4>4. (y \o f) \o end = y \o (f \o end) /\ f \o end \in Texts
          BY <1>1, <4>2, JoinedTexts, JoinedIsText
        <4>5. (c \o m) \o (f \o end) = c \o (m \o (f \o end))
          <5> DEFINE g == f \o end
          <5>1. g \in Texts
            BY <4>4
          <5> HIDE DEF g
          <5>2. (c \o m) \o g = c \o (m \o g)
            BY <4>1, <5>1, JoinedTexts, Zenon
          <5>3. QED
            BY <5>2 DEF g
        <4>6. QED
          BY <4>2, <4>3, <4>4, <4>5 DEF c, f
      <3>15. QED
        BY <3>13, <3>14 DEF MembersBack, some, good
    <2>2. n + 1 \in Nat
      OBVIOUS
    <2> HIDE DEF end, Keys
    <2>3. \A p \in Seq(Texts), v \in Seq(Keys), w \in SUBSET Texts :
             Len(v) = n + 1 => Holds(p, v, w)
      BY <2>1
    <2> HIDE DEF Holds
    <2>4. QED
      BY <2>2, <2>3
  <1>4. T = Nat
    <2>1. T \subseteq Nat
      OBVIOUS
    <2> HIDE DEF T
    <2>2. QED
      BY <1>2, <1>3, <2>1, Induction
  <1>5. Len(keys) \in T /\ used \in SUBSET Texts
    BY <1>4, LenProperties DEF AreFresh
  <1>6. QED
    BY <1>5

\* The members of an object, with no comma in front of the first.
LEMMA MembersTogether ==
    ASSUME NEW d \in Nat, NEW members, NEW keys \in Seq(Seq(PlainChars)), NEW parts \in Seq(Texts),
           Len(parts) = Len(keys), AreMembers(TRUE, parts, keys, members, d), AreFresh(keys, {})
    PROVE  MembersAre(FlattenSeq(parts) \o <<end_object>>, Some(keys, members),
                      AllNamed(keys, members), d, {})
  <1> DEFINE end == <<end_object>>
             s == FlattenSeq(parts) \o end
  <1>1. end \in Texts /\ Texts = Seq(STRING)
    BY NoPad DEF Texts
  <1>2. CASE Len(keys) = 0
    <2>1. keys = <<>> /\ parts = <<>>
      BY <1>2, EmptySeq
    <2> DEFINE none == {}
    <2>2. none \in SUBSET Texts
      OBVIOUS
    <2> HIDE DEF none
    <2>3. MembersAre(FlattenSeq(<<>>) \o <<end_object>>, Some(<<>>, members),
                     AllNamed(<<>>, members), d, none)
      BY <2>2, NoMembersBack
    <2>4. QED
      BY <2>1, <2>3 DEF none
  <1>3. CASE Len(keys) # 0
    <2>1. keys # <<>> /\ parts # <<>> /\ Len(keys) \in Nat
      BY <1>3, EmptySeq, LenProperties
    <2>2. PICK key \in Seq(PlainChars), r \in Seq(Seq(PlainChars)) : IsCons(keys, key, r)
      BY <2>1, FirstAndRest
    <2>3. PICK y \in Texts, q \in Seq(Texts) : IsCons(parts, y, q)
      BY <2>1, FirstAndRest
    <2>4. /\ Len(keys) = 1 + Len(r) /\ Len(r) \in Nat
          /\ keys[1] = key /\ \A i \in 1 .. Len(r) : keys[1 + i] = r[i]
          /\ parts = <<y>> \o q /\ Len(parts) = 1 + Len(q) /\ Len(q) \in Nat
          /\ parts[1] = y /\ \A i \in 1 .. Len(q) : parts[1 + i] = q[i]
      BY <2>2, <2>3 DEF IsCons
    <2>5. /\ Len(r) = Len(q) /\ 1 \in 1 .. Len(keys)
          /\ \A i \in 1 .. Len(r) : 1 + i \in 1 .. Len(keys) /\ 1 + i # 1
      BY <2>4
    <2>6. PICK t : y = MemberText(key, t) /\ ReadsBack(t, members[key], d)
      <3>1. PICK t : /\ parts[1] = IF TRUE /\ 1 = 1 THEN MemberText(keys[1], t)
                                   ELSE <<value_separator>> \o MemberText(keys[1], t)
                     /\ ReadsBack(t, members[keys[1]], d)
        BY <2>5 DEF AreMembers
      <3>2. QED
        BY <2>4, <3>1
    <2>7. AreMembers(FALSE, q, r, members, d)
      <3>1. ASSUME NEW i \in 1 .. Len(r)
            PROVE  \E u : /\ q[i] = <<value_separator>> \o MemberText(r[i], u)
                          /\ ReadsBack(u, members[r[i]], d)
        <4>1. /\ 1 + i \in 1 .. Len(keys) /\ 1 + i # 1
              /\ keys[1 + i] = r[i] /\ parts[1 + i] = q[i]
          BY <2>4, <2>5
        <4>2. PICK u : /\ parts[1 + i] = IF TRUE /\ 1 + i = 1 THEN MemberText(keys[1 + i], u)
                                         ELSE <<value_separator>> \o MemberText(keys[1 + i], u)
                       /\ ReadsBack(u, members[keys[1 + i]], d)
          BY <4>1 DEF AreMembers
        <4>3. QED
          BY <4>1, <4>2
      <3>2. QED
        BY <3>1 DEF AreMembers
    <2> DEFINE none == {}
               used == none \cup {key}
    <2>8. AreFresh(keys, none)
      OBVIOUS
    <2> HIDE DEF none
    <2>9. AreFresh(r, used)
      BY <2>2, <2>8, FreshCons
    <2> HIDE DEF used
    <2>10. MembersBack(q, r, members, d, used)
      BY <2>5, <2>7, <2>9, MembersAreBack
    <2> DEFINE f == FlattenSeq(q)
               u == f \o end
               m == MemberText(key, t)
    <2>11. MembersAre(m \o u, Some(keys, members), AllNamed(keys, members), d, none)
      <3>1. DOMAIN keys = 1 .. Len(keys) /\ DOMAIN r = 1 .. Len(r)
        BY LenProperties
      <3>2. MembersBack(q, r, members, d, none \cup {key})
        BY <2>10 DEF used
      <3>3. QED
        BY <2>2, <2>6, <2>8, <3>1, <3>2, MembersCons
    <2>12. s = m \o u
      <3>1. FlattenSeq(parts) = y \o f /\ f \in Texts
        BY <1>1, <2>4, FlattenCons, FlattenIsText
      <3>2. y = m
        BY <2>6
      <3> HIDE DEF f, end, m
      <3>3. (y \o f) \o end = y \o (f \o end)
        BY <1>1, <3>1, JoinedTexts
      <3>4. QED
        BY <3>1, <3>2, <3>3
    <2> HIDE DEF u, m, s
    <2>13. MembersAre(s, Some(keys, members), AllNamed(keys, members), d, none)
      BY <2>11, <2>12
    <2>14. QED
      BY <2>13 DEF s, end, none
  <1>4. QED
    BY <1>2, <1>3

LEMMA ObjectReadsBack ==
    ASSUME NEW value \in Values, IsPlain(value), value.type = "object", NEW d \in Nat,
           \A key \in DOMAIN value.members : IsReadBack(value.members[key], d + 1)
    PROVE  IsReadBack(value, d) /\ Layout[Compact(value, d)][1] = begin_object
  <1> DEFINE members == value.members
             keys == Sorted(DOMAIN members)
             n == Len(keys)
             pairs == [i \in DOMAIN keys |-> [key |-> keys[i], value |-> members[keys[i]]]]
             parts == [i \in 1 .. n |-> CompactPartOf(pairs, i, d + 1, Layout)]
             s == FlattenSeq(parts) \o <<end_object>>
  <1>1. /\ value = Object(members) /\ members \in [DOMAIN members -> Values]
        /\ IsFiniteSet(DOMAIN members) /\ DOMAIN members \in SUBSET Seq(Letters)
        /\ \A key \in DOMAIN members : key \in Seq(PlainChars) /\ IsPlain(members[key])
    BY KindsOfPlain DEF Letters
  <1>2. Pairs(value) = pairs
    BY DEF Pairs
  <1>3. /\ keys \in Seq(DOMAIN members)
        /\ \A i, j \in 1 .. n : keys[i] = keys[j] => i = j
        /\ \A key \in DOMAIN members : \E i \in 1 .. n : keys[i] = key
    BY <1>1, SortedKeys
  <1> HIDE DEF keys, members
  <1>4. n \in Nat /\ DOMAIN keys = 1 .. n /\ \A i \in 1 .. n : keys[i] \in DOMAIN members
    BY <1>3, LenProperties, ElementOfSeq
  <1>5. /\ DOMAIN pairs = 1 .. n
        /\ \A i \in 1 .. n : pairs[i].key = keys[i] /\ pairs[i].value = members[keys[i]]
    BY <1>4
  <1> HIDE DEF pairs
  <1>6. PartsOf(Compact(value, d), Layout) = parts
    BY <1>2, <1>5, CompactParts
  <1>7. ASSUME NEW i \in 1 .. n
        PROVE  /\ CompactPartOf(pairs, i, d + 1, Layout) \in Texts
               /\ \E t : /\ CompactPartOf(pairs, i, d + 1, Layout)
                                = IF i = 1 THEN MemberText(keys[i], t)
                                  ELSE <<value_separator>> \o MemberText(keys[i], t)
                         /\ ReadsBack(t, members[keys[i]], d + 1)
    <2> DEFINE key == keys[i]
               t == Layout[Compact(members[key], d + 1)]
               m == MemberText(key, t)
    <2>1. ReadsBack(t, members[key], d + 1) /\ t \in Texts
      BY <1>4 DEF IsReadBack, ReadsBack, IsValueText, members
    <2>2. key \in Seq(PlainChars) /\ IsPlain(members[key])
      BY <1>1, <1>4
    <2>3. pairs[i].key = key /\ pairs[i].value = members[key]
      BY <1>5
    <2> HIDE DEF t, key
    <2> DEFINE e == d + 1
    <2>4. Layout[Compact(members[key], e)] = t
      BY DEF t
    <2> HIDE DEF e, m
    <2>5. IsPart(CompactPartOf(pairs, i, e, Layout), i, m)
      <3>1. pairs[i].key \in Seq(PlainChars) /\ IsPlain(pairs[i].value)
        BY <2>2, <2>3
      <3>2. Layout[Compact(pairs[i].value, e)] = t
        BY <2>3, <2>4
      <3>3. IsPart(CompactPartOf(pairs, i, e, Layout), i,
                   MemberText(pairs[i].key, Layout[Compact(pairs[i].value, e)]))
        BY <2>1, <3>1, <3>2, CompactPart
      <3>4. QED
        BY <2>3, <3>2, <3>3 DEF m
    <2>6. CompactPartOf(pairs, i, e, Layout) = (IF i = 1 THEN m ELSE <<value_separator>> \o m)
          /\ CompactPartOf(pairs, i, e, Layout) \in Texts
      BY <2>5 DEF IsPart
    <2>7. QED
      BY <2>1, <2>6 DEF e, m, key
  <1>8. parts \in Seq(Texts) /\ Len(parts) = n
    <2>1. parts \in [1 .. n -> Texts]
      BY <1>7
    <2> HIDE DEF parts
    <2>2. QED
      BY <1>4, <2>1, FunctionIsText
  <1> DEFINE good == AllNamed(keys, members)
  <1>9. s \in Texts /\ ReadsAs("members", s, members, good, d + 1, nullopt, {})
    <2>1. \A i \in 1 .. n : parts[i] = CompactPartOf(pairs, i, d + 1, Layout)
      OBVIOUS
    <2> HIDE DEF parts
    <2> DEFINE e == d + 1
    <2>2. e \in Nat
      OBVIOUS
    <2>3. AreMembers(TRUE, parts, keys, members, e)
      BY <1>7, <2>1 DEF AreMembers
    <2> HIDE DEF e
    <2>4. keys \in Seq(Seq(PlainChars))
      <3>1. DOMAIN members \subseteq Seq(PlainChars)
        BY <1>1
      <3>2. QED
        BY <1>3, <3>1, SeqMonotonic
    <2>5. AreFresh(keys, {})
      BY <1>3 DEF AreFresh
    <2>6. MembersAre(s, Some(keys, members), good, e, {})
      BY <1>8, <2>2, <2>3, <2>4, <2>5, MembersTogether
    <2>7. Some(keys, members) = members
      <3>1. Range(keys) = DOMAIN members
        <4>1. Range(keys) = {keys[i] : i \in 1 .. n}
          BY <1>4 DEF Range
        <4>2. ASSUME NEW key \in DOMAIN members PROVE key \in Range(keys)
          BY <1>3, <4>1
        <4>3. ASSUME NEW key \in Range(keys) PROVE key \in DOMAIN members
          BY <1>4, <4>1
        <4>4. QED
          BY <4>2, <4>3
      <3>2. members = [key \in DOMAIN members |-> members[key]]
        BY <1>1
      <3>3. QED
        BY <3>1, <3>2 DEF Some
    <2> HIDE DEF good, s
    <2>8. QED
      BY <2>6, <2>7 DEF MembersAre, e
  <1>10. good \in BOOLEAN /\ (~HasEmptyKey[value]) = good
    <2>1. HasEmptyKey[value] <=> \E key \in DOMAIN members : key = <<>> \/ HasEmptyKey[members[key]]
      BY EmptyKeys DEF members
    <2>2. good <=> \A key \in DOMAIN members : key # <<>> /\ ~HasEmptyKey[members[key]]
      BY <1>3, <1>4 DEF AllNamed
    <2>3. good \in BOOLEAN
      BY DEF AllNamed
    <2> HIDE DEF good
    <2>4. QED
      BY <2>1, <2>2, <2>3
  <1>11. Layout[Compact(value, d)] = <<begin_object>> \o s
    <2>1. value.type \in ContainerTypes /\ Opening(value) = begin_object
          /\ Closing(value) = end_object
      BY DEF ContainerTypes, Opening, Closing
    <2> HIDE DEF parts
    <2>2. QED
      BY <1>6, <1>8, <2>1, CompactContainer
  <1> HIDE DEF s, good
  <1>12. ReadsAs("value", <<begin_object>> \o s, Object(members), IsAllowed(d, nullopt) /\ good,
                 d, nullopt, {})
    <2>1. nullopt \in Nat \cup {nullopt}
      OBVIOUS
    <2>2. QED
      BY <1>9, <1>10, <2>1, ObjectReads
  <1>13. ReadsBack(<<begin_object>> \o s, value, d) /\ (<<begin_object>> \o s)[1] = begin_object
    <2>1. begin_object \in {begin_array, begin_object}
      OBVIOUS
    <2>2. QED
      BY <1>1, <1>9, <1>10, <1>12, <2>1, ContainerReadsBack
  <1>14. QED
    BY <1>11, <1>13 DEF IsReadBack

\* Every value that has a layout, and can be written, is read from it.
LEMMA ValueReadsBack ==
    ASSUME NEW value \in Values, IsPlain(value), NEW d \in Nat
    PROVE  /\ IsReadBack(value, d)
           /\ value.type \in ContainerTypes =>
                 Layout[Compact(value, d)][1] \in {begin_array, begin_object}
  <1> DEFINE IsDone(v) ==
                 \A e \in Nat :
                     /\ IsReadBack(v, e)
                     /\ v.type \in ContainerTypes =>
                           Layout[Compact(v, e)][1] \in {begin_array, begin_object}
             Done(n) == \A v \in Values : IsPlain(v) /\ Height(v) < n => IsDone(v)
             T == {n \in Nat : Done(n)}
  <1>1. \A v \in Values : Height(v) \in Nat /\ \A held \in Held(v) : Height(held) < Height(v)
    BY HeightAssumption
  <1>2. 0 \in T
    <2>1. Done(0)
      BY <1>1
    <2> HIDE DEF Done
    <2>2. QED
      BY <2>1
  <1>3. ASSUME NEW n \in T PROVE n + 1 \in T
    <2>1. n \in Nat /\ Done(n)
      OBVIOUS
    <2>2. ASSUME NEW v \in Values, IsPlain(v), Height(v) < n + 1, NEW e \in Nat
          PROVE  /\ IsReadBack(v, e)
                 /\ v.type \in ContainerTypes =>
                       Layout[Compact(v, e)][1] \in {begin_array, begin_object}
      <3>1. ASSUME NEW held \in Held(v), held \in Values, IsPlain(held)
            PROVE  IsReadBack(held, e + 1)
        <4>1. Height(held) < n
          BY <1>1, <2>1, <2>2, <3>1
        <4>2. IsDone(held)
          BY <2>1, <3>1, <4>1
        <4>3. e + 1 \in Nat
          OBVIOUS
        <4>4. QED
          BY <4>2, <4>3
      <3> HIDE DEF Done, T, IsDone
      <3>2. CASE v.type = "array"
        <4> DEFINE items == v.items
        <4>1. items \in Seq(Values) /\ \A i \in 1 .. Len(items) : IsPlain(items[i])
          BY <2>2, <3>2, KindsOfPlain
        <4>2. ASSUME NEW i \in 1 .. Len(items) PROVE IsReadBack(items[i], e + 1)
          <5>1. items[i] \in Held(v) /\ items[i] \in Values
            <6>1. i \in DOMAIN items /\ items[i] \in Values
              BY <4>1, LenProperties, ElementOfSeq
            <6>2. QED
              BY <3>2, <6>1 DEF Held
          <5>2. QED
            BY <3>1, <4>1, <5>1
        <4>3. IsReadBack(v, e) /\ Layout[Compact(v, e)][1] = begin_array
          BY <2>2, <3>2, <4>2, ArrayReadsBack
        <4>4. QED
          BY <4>3
      <3>3. CASE v.type = "object"
        <4> DEFINE members == v.members
        <4>1. members \in [DOMAIN members -> Values] /\ \A key \in DOMAIN members : IsPlain(members[key])
          BY <2>2, <3>3, KindsOfPlain
        <4>2. ASSUME NEW key \in DOMAIN members PROVE IsReadBack(members[key], e + 1)
          <5>1. members[key] \in Held(v) /\ members[key] \in Values
            BY <3>3, <4>1 DEF Held
          <5>2. QED
            BY <3>1, <4>1, <5>1
        <4>3. IsReadBack(v, e) /\ Layout[Compact(v, e)][1] = begin_object
          BY <2>2, <3>3, <4>2, ObjectReadsBack
        <4>4. QED
          BY <4>3
      <3>4. CASE v.type = "string"
        BY <2>2, <3>4, StringReadsBack DEF ContainerTypes
      <3>5. CASE v.type \notin {"array", "object", "string"}
        BY <2>2, <3>5, LiteralReadsBack DEF ContainerTypes
      <3>6. QED
        BY <3>2, <3>3, <3>4, <3>5
    <2>3. Done(n + 1)
      BY <2>2
    <2> HIDE DEF Done
    <2>4. QED
      BY <2>1, <2>3
  <1>4. T = Nat
    <2>1. T \subseteq Nat
      OBVIOUS
    <2> HIDE DEF T
    <2>2. QED
      BY <1>2, <1>3, <2>1, Induction
  <1>5. Height(value) + 1 \in T /\ Height(value) < Height(value) + 1
    BY <1>1, <1>4
  <1>6. QED
    BY <1>5

\* What a document is, as long as it is not known whether it can be read.
ReadsAgain(again, value) ==
    IF HasEmptyKey[value] THEN ~Readable(again)
    ELSE Readable(again) /\ again.value = value /\ again.defects = {}

LEMMA DocumentReadsBack ==
    ASSUME NEW value \in Values, value.type \in ContainerTypes, IsPlain(value)
    PROVE  ReadsAgain(Document(DocumentOf(value, FALSE), nullopt), value)
  <1> DEFINE s == Layout[Compact(value, 0)]
             u == s \o <<Newline>>
             good == ~HasEmptyKey[value]
             d == 0
  <1>1. d \in Nat /\ nullopt \in Nat \cup {nullopt} /\ good \in BOOLEAN
    OBVIOUS
  <1>2. IsReadBack(value, d) /\ Layout[Compact(value, d)][1] \in {begin_array, begin_object}
    BY <1>1, ValueReadsBack
  <1>3. /\ s \in Texts /\ s # <<>> /\ s[1] \in {begin_array, begin_object}
        /\ ReadsAs("value", s, value, good, 0, nullopt, {})
    BY <1>2 DEF IsReadBack, ReadsBack, IsValueText
  <1>4. DocumentOf(value, FALSE) = u
    BY Zenon DEF DocumentOf, Compact
  <1>5. <<Newline>> \in Texts /\ Newline \in Structural
    <2>1. Newline \in STRING
      BY FormatCharsAssumption DEF FormatChars
    <2>2. QED
      BY <2>1, ShortText DEF Texts, Structural, Blanks, Newline
  <1>6. u \in Texts /\ Has(u, 1, s) /\ StopsAt(u, 1 + Len(s))
    <2> DEFINE c == <<Newline>>
    <2>1. Len(c) = 1 /\ c[1] = Newline
      OBVIOUS
    <2> HIDE DEF s, c
    <2>2. /\ s \o c \in Texts /\ Len(s \o c) = Len(s) + Len(c) /\ Len(s) \in Nat
          /\ \A i \in 1 .. Len(s) + Len(c) :
                (s \o c)[i] = IF i <= Len(s) THEN s[i] ELSE c[i - Len(s)]
      BY <1>3, <1>5, ConcatProperties, LenProperties DEF Texts, c
    <2> DEFINE w == s \o c
    <2> HIDE DEF w
    <2>3. Len(w) = Len(s) + 1 /\ \A i \in 1 .. Len(s) : w[i] = s[i]
      BY <2>1, <2>2 DEF w
    <2>4. w[Len(s) + 1] = Newline
      BY <2>1, <2>2 DEF w
    <2>5. Has(w, 1, s)
      BY <2>2, <2>3 DEF Has
    <2>6. StopsAt(w, 1 + Len(s))
      BY <1>5, <2>2, <2>4 DEF StopsAt
    <2>7. QED
      BY <2>2, <2>5, <2>6 DEF w, c
  <1> HIDE DEF s, u, good
  <1>7. IF good THEN Document(u, nullopt) = Reading(value, 1 + Len(s), {})
        ELSE ~Readable(Document(u, nullopt))
    BY <1>1, <1>3, <1>6, DocumentReads
  <1>8. CASE good
    <2>1. 1 + Len(s) # 0
      BY <1>3, LenProperties DEF Texts
    <2>2. Document(u, nullopt) = Reading(value, 1 + Len(s), {})
      BY <1>7, <1>8
    <2>3. Readable(Document(u, nullopt)) /\ Document(u, nullopt).value = value
          /\ Document(u, nullopt).defects = {}
      BY <2>1, <2>2 DEF Readable, Reading
    <2>4. QED
      BY <1>4, <1>8, <2>3 DEF ReadsAgain, good
  <1>9. CASE ~good
    BY <1>4, <1>7, <1>9 DEF ReadsAgain, good
  <1>10. QED
    BY <1>8, <1>9

\* Once the serializer is done, all of the layout is there.
Copied == s_ec = "completed" => out \o s_range = DocumentOf(root, FALSE)

LEMMA WritingCopied ==
    ASSUME Copying, root \in Values, pc \in {"serialize", "serializing", "writing"}
    PROVE  Copied
  <1>1. D!FunctionInv /\ s_pretty_print = FALSE /\ WritingAssumptions
    BY WritingAssumptionsHold DEF Copying
  <1>2. DocumentOf(root, FALSE) = D!Document
    BY <1>1, SameDocumentOf DEF D!Document
  <1>3. s_ec = "completed" => D!DocumentInv
    BY <1>1 DEF D!FunctionInv, D!Faithful
  <1>4. s_ec = "completed" => out \o s_range = D!Document
    BY <1>1, <1>3, D!WhatIsWritten DEF WritingAssumptions
  <1>5. QED
    BY <1>2, <1>4 DEF Copied

IsWriting == Copying /\ root \in Values /\ pc \in {"serialize", "serializing", "writing"}

LEMMA WritingCopiedNext == IsWriting' => Copied'
  <1>1. IsWriting => Copied
    BY WritingCopied DEF IsWriting
  <1>2. QED
    BY <1>1, PTL

\* It is not called before the end of the document is read, and nothing that it
\* has written is lost when the program ends.
CopiedInv ==
    /\ Copying /\ Copied
    /\ pc \in {"reading", "parsing"} => s_ec = "not_called"

LEMMA CopiedNext ==
    ASSUME DemoInv, CopiedInv, root \in Values, root' \in Values, [DemoNext]_demoVars
    PROVE  CopiedInv'
  <1>1. Copying'
    BY CopyingNext DEF CopiedInv
  <1>2. CASE pc' \in {"serialize", "serializing", "writing"}
    BY <1>1, <1>2, WritingCopiedNext DEF CopiedInv, IsWriting
  <1>3. CASE UNCHANGED <<writerVars, root>>
             /\ (pc' \in {"reading", "parsing"} => pc \in {"reading", "parsing"})
    BY <1>1, <1>3 DEF CopiedInv, Copied, writerVars
  <1>4. CASE UNCHANGED demoVars
    BY <1>3, <1>4 DEF demoVars, vars
  <1>5. CASE ParseIteration \/ ParseEnds \/ ReadFails \/ \E n \in 1 .. BufferSize : Read(n)
    <2>1. /\ pc \in {"reading", "parsing"} /\ pc' = "parsing" /\ UNCHANGED writerVars
      BY <1>5 DEF ParseIteration, ParseEnds, ReadFails, Read, ParseChunk, ContinueAt
    <2>2. s_ec' = "not_called"
      BY <2>1 DEF CopiedInv, writerVars
    <2>3. QED
      BY <1>1, <2>1, <2>2 DEF CopiedInv, Copied
  <1>6. CASE ParseResult \/ EndOfFile
    <2>1. pc \in {"reading", "parsing"}
      BY <1>6 DEF ParseResult, EndOfFile
    <2>2. \/ ConstructSerializer
          \/ UNCHANGED <<vars, writerVars>> /\ pc' \in {"reading", "exited"}
      BY <1>6 DEF ParseResult, EndOfFile, ContinueAt, Exit
    <2>3. CASE ConstructSerializer
      BY <1>2, <2>3 DEF ConstructSerializer, ContinueAt
    <2>4. QED
      BY <1>3, <2>1, <2>2, <2>3 DEF vars
  <1>7. CASE SerializeResult \/ WriteFails \/ \E n \in 1 .. BufferSize + MaxErrors : Write(n)
    BY <1>2, <1>7 DEF SerializeResult, WriteFails, Write, ContinueAt
  <1>8. CASE Serialize \/ SerializeIteration
    BY <1>2, <1>8 DEF Serialize, SerializeIteration, ContinueAt
  <1>9. CASE BlockWritten \/ WriteNothing
    <2>1. UNCHANGED <<vars, writerVars>> /\ pc' \in {"serialize", "exited"}
      BY <1>9 DEF BlockWritten, WriteNothing, ContinueAt, Exit
    <2>2. QED
      BY <1>3, <2>1 DEF vars
  <1>10. QED
    BY <1>4, <1>5, <1>6, <1>7, <1>8, <1>9 DEF DemoNext, Compute, Transfer, Fault

\* Whatever is read and however often calls fail, a document that the
\* serializer has completed is read by the grammar as the container it was made
\* of, with each value and key in its place.  Only if a member has no name the
\* document cannot be read at all, as that member is written without a key.
\* This is for runs that put together no container of which Values does not
\* have the layout.
THEOREM DemoReadsBack == DemoSpec /\ []HasLayout => []OutputReadsBack
  <1>1. (\E stdin \in Seq(Chars) : DemoInit(stdin)) => CopiedInv
    BY DEF DemoInit, Init, CopiedInv, Copying, Copied
  <1>2. DemoInv /\ CopiedInv /\ HasLayout /\ HasLayout' /\ [DemoNext]_demoVars => CopiedInv'
    BY CopiedNext DEF HasLayout
  <1>3. DemoInv /\ CopiedInv /\ HasLayout => OutputReadsBack
    <2>1. SUFFICES ASSUME DemoInv, CopiedInv, root \in Values, s_ec = "completed"
                   PROVE  ReadsAgain(Document(out \o s_range, nullopt), root)
      BY DEF HasLayout, OutputReadsBack, ReadsAgain
    <2>2. root.type \in ContainerTypes
      BY <2>1 DEF DemoInv, Core, TypeOK
    <2>3. IsPlain(root)
      BY <2>1 DEF DemoInv, ParserIsPlain
    <2>4. out \o s_range = DocumentOf(root, FALSE)
      BY <2>1 DEF CopiedInv, Copied
    <2>5. ReadsAgain(Document(DocumentOf(root, FALSE), nullopt), root)
      BY <2>1, <2>2, <2>3, DocumentReadsBack
    <2>6. QED
      BY <2>4, <2>5
  <1>4. QED
    BY <1>1, <1>2, <1>3, DemoInvariance, PTL DEF DemoSpec
=============================================================================
