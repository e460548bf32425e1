--------------------------- MODULE LanguageProofs ---------------------------
(***************************************************************************)
(* Proof that lib/parser.hpp accepts what JsonGrammar reads, whatever the  *)
(* text, the limit and the chunks.                                         *)
(*                                                                         *)
(* The invariant speaks of every text that begins with the characters read *)
(* so far: what the grammar reads of it is what the open containers hold   *)
(* already, continued by what the state of the machine expects next.  Each *)
(* iteration keeps that, or ends the parse as the grammar would; and a     *)
(* text that ends where more is expected cannot be read.                   *)
(***************************************************************************)
EXTENDS GrammarProofs

-----------------------------------------------------------------------------
(* An iteration inside of a container.                                     *)

Innermost == m_contexts[Len(m_contexts)]

PlaceAt(u, i) == PlaceIn(u, m_max_levels, Len(m_contexts), Innermost.value, i)

IsLeft(u, i, rest) ==
    Denotes(u, m_max_levels, m_contexts, i, Document(u, m_max_levels), rest)

\* The machine is about to read a character of u, which is in a container.
Met(u, ch) ==
    /\ Core /\ AreContainers(m_contexts) /\ m_contexts # <<>>
    /\ Reads(ch) /\ UNCHANGED m_max_levels
    /\ ch \in Chars /\ u \in Seq(Chars)
    /\ Len(text) + 1 \in 1 .. Len(u) /\ u[Len(text) + 1] = ch
    /\ Remains(u, m_max_levels, Len(text) + 1, m_contexts, m_current_state, m_buffer,
               Document(u, m_max_levels))

\* It stays with what u holds, refuses it, or has read it.
Result(u) ==
    LET doc == Document(u, m_max_levels)
    IN  /\ ec' \notin Outcomes =>
              /\ AreContainers(m_contexts')
              /\ m_contexts' # <<>> =>
                    Remains(u, m_max_levels, Len(text') + 1, m_contexts', m_current_state',
                            m_buffer', doc)
        /\ ec' \in Outcomes \ {"completed"} => ~Readable(doc)
        /\ ec' = "completed" => doc.value = root' /\ doc.next = Len(text') + 1

\* The characters of texts are strings, and texts of them texts.
LEMMA TextCharsAreStrings == TextChars \subseteq STRING
  BY CharsAssumption, FormatCharsAssumption DEF TextChars, EscChars, FormatChars, begin_array,
     string_begin_end, begin_esc_seq, Newline

LEMMA TextsOfChars ==
    /\ \A s \in Seq(TextChars) : s \in Texts
    /\ \A s \in Seq(Chars) : s \in Texts
  <1>1. \A S, T : S \subseteq T => Seq(S) \subseteq Seq(T)
    OBVIOUS
  <1>2. QED
    BY <1>1, TextCharsAreStrings, CharsAssumption DEF Texts

\* What is known of the machine that meets a character.
LEMMA MetMachine ==
    ASSUME NEW u, NEW ch, Met(u, ch)
    PROVE  /\ Len(m_contexts) \in Nat \ {0} /\ Last(m_contexts) = Innermost
           /\ IsStack(m_contexts) /\ m_contexts # <<>>
           /\ IsContainer(Innermost.value) /\ Innermost.key \in Texts
           /\ m_buffer \in Texts /\ m_max_levels \in Nat \cup {nullopt}
           /\ ec = "running" /\ ec \notin Outcomes
           /\ Len(text) \in Nat /\ text \in Seq(Chars)
           /\ u \in Texts /\ Len(u) \in Nat
  <1>1. /\ TypeOK /\ IsStack(m_contexts) /\ m_contexts # <<>> /\ ec = "running"
    BY DEF Met, Core, TypeOK, Reads
  <1>2. Len(m_contexts) \in Nat \ {0} /\ Last(m_contexts) = Innermost
    BY <1>1, SequenceIsFunction, EmptySeq DEF IsStack, Last, Innermost
  <1>3. IsContext(Innermost)
    BY <1>1, <1>2 DEF IsStack, Innermost
  <1>4. IsContainer(Innermost.value)
    BY <1>2 DEF Met, AreContainers, Innermost
  <1>5. Innermost.key \in Texts /\ m_buffer \in Texts
    BY <1>1, <1>3, TextsOfChars DEF IsContext, TypeOK
  <1>6. m_max_levels \in Nat \cup {nullopt}
    BY <1>1, LimitsAssumption DEF TypeOK
  <1>7. text \in Seq(Chars) /\ Len(text) \in Nat
    BY <1>1, LenProperties DEF TypeOK
  <1>8. u \in Texts /\ u \in Seq(Chars)
    BY TextsOfChars DEF Met
  <1>9. Len(u) \in Nat
    BY <1>8, LenProperties
  <1>10. ec \notin Outcomes
    BY <1>1 DEF Outcomes, parser_error_codes
  <1>11. QED
    BY <1>1, <1>2, <1>3, <1>4, <1>5, <1>6, <1>7, <1>8, <1>9, <1>10

\* The place of the character that is met.
LEMMA MetPlace ==
    ASSUME NEW u, NEW ch, Met(u, ch)
    PROVE  LET p == Len(text) + 1
               at == PlaceAt(u, p)
           IN  /\ IsWithin(at, Innermost.value)
               /\ at.text = u /\ at.from = p
               /\ at.depth = Len(m_contexts) /\ at.limit = m_max_levels
               /\ Present(at) /\ Here(at) = ch
               /\ \A i : Further(at, i) = PlaceAt(u, i)
  <1> DEFINE p == Len(text) + 1
             at == PlaceAt(u, p)
             c == Innermost.value
             n == Len(m_contexts)
  <1>1. /\ n \in Nat \ {0} /\ IsContainer(c) /\ m_max_levels \in Nat \cup {nullopt}
        /\ u \in Texts /\ p \in Nat \ {0} /\ n \in Nat
    BY MetMachine
  <1>2. IsWithin(at, c)
    <2> HIDE DEF c, p, n
    <2>1. at = PlaceIn(u, m_max_levels, n, c, p)
      BY DEF PlaceAt, c, n
    <2> HIDE DEF at
    <2>2. QED
      BY <1>1, <2>1, PlaceWithin, Zenon
  <1>3. at.text = u /\ at.from = p /\ at.depth = n /\ at.limit = m_max_levels
    BY DEF PlaceAt, PlaceIn, Spot
  <1>4. Present(at) /\ Here(at) = ch
    BY <1>3 DEF Present, Here, Met
  <1>5. \A i : Further(at, i) = PlaceAt(u, i)
    BY PlaceFurther DEF PlaceAt
  <1>6. QED
    BY <1>2, <1>3, <1>4, <1>5

\* The three ways an iteration ends that leave the stack alone.
LEMMA FailResult ==
    ASSUME NEW u, NEW ch, Met(u, ch), NEW code \in Outcomes \ {"completed"}, Fail(ch, code),
           NEW rest, IsLeft(u, Len(text) + 1, rest), ~Readable(rest)
    PROVE  Result(u)
  <1>1. Len(m_contexts) \in Nat \ {0}
    BY MetMachine
  <1> DEFINE n == Len(m_contexts)
  <1>2. ~Readable(Document(u, m_max_levels))
    <2> HIDE DEF n
    <2>1. Len(m_contexts) = n /\ n \in Nat \ {0}
      BY <1>1 DEF n
    <2>2. QED
      BY <2>1, DenotesUnreadable DEF IsLeft
  <1>3. ec' = code
    BY DEF Fail, Return
  <1>4. QED
    BY <1>2, <1>3 DEF Result

\* A character that is consumed, or put back, with no other container open.
LEMMA ConsumeResult ==
    ASSUME NEW u, NEW ch, Met(u, ch), Consume(ch), m_contexts' = m_contexts,
           Remains(u, m_max_levels, Len(text) + 2, m_contexts, m_current_state', m_buffer',
                   Document(u, m_max_levels))
    PROVE  Result(u)
  <1>1. ec' = ec /\ ec \notin Outcomes /\ text' = Append(text, ch) /\ Len(text) \in Nat
    BY MetMachine DEF Consume
  <1>2. "completed" \in Outcomes
    BY DEF Outcomes, parser_error_codes
  <1>3. Len(text') + 1 = Len(text) + 2
    BY <1>1, MetMachine, AppendProperties DEF Met
  <1>4. AreContainers(m_contexts')
    BY DEF Met
  <1>5. QED
    BY <1>1, <1>2, <1>3, <1>4 DEF Result

LEMMA PutBackResult ==
    ASSUME NEW u, NEW ch, Met(u, ch), PutBack(ch), m_contexts' = m_contexts,
           Remains(u, m_max_levels, Len(text) + 1, m_contexts, m_current_state', m_buffer',
                   Document(u, m_max_levels))
    PROVE  Result(u)
  <1>1. ec' = ec /\ ec \notin Outcomes /\ text' = text
    BY MetMachine DEF PutBack
  <1>2. "completed" \in Outcomes
    BY DEF Outcomes, parser_error_codes
  <1>3. AreContainers(m_contexts')
    BY DEF Met
  <1>4. QED
    BY <1>1, <1>2, <1>3 DEF Result

\* What is left behind the character.
LEMMA LeftBehind ==
    ASSUME NEW u, NEW ch, Met(u, ch), NEW r, IsLeft(u, Len(text) + 1, r), NEW s, Same(r, s)
    PROVE  IsLeft(u, Len(text) + 2, s) /\ IsLeft(u, Len(text) + 1, s)
  <1> DEFINE p == Len(text) + 1
             q == Len(text) + 2
             d == Document(u, m_max_levels)
  <1>1. p \in Nat /\ q \in Nat /\ p <= q /\ p <= p /\ Len(m_contexts) \in Nat \ {0}
    BY MetMachine
  <1>2. Denotes(u, m_max_levels, m_contexts, p, d, r)
    BY DEF IsLeft
  <1> HIDE DEF p, q, d
  <1>3. Denotes(u, m_max_levels, m_contexts, q, d, s) /\ Denotes(u, m_max_levels, m_contexts, p, d, s)
    BY <1>1, <1>2, DenotesOnward
  <1>4. QED
    BY <1>3 DEF IsLeft, p, q, d

-----------------------------------------------------------------------------
(* The states of an object before a value.                                 *)

\* White space between the parts of a container.
LEMMA BlankStays ==
    ASSUME NEW u, NEW ch, Met(u, ch), Skip(ch),
           Remains(u, m_max_levels, Len(text) + 2, m_contexts, m_current_state, m_buffer,
                   Document(u, m_max_levels))
    PROVE  Result(u)
  <1>1. /\ Consume(ch) /\ m_contexts' = m_contexts
        /\ m_current_state' = m_current_state /\ m_buffer' = m_buffer
    BY DEF Skip, Goto
  <1>2. QED
    BY <1>1, ConsumeResult

\* White space is blank.
LEMMA WhitespaceIsBlank == \A ch : is_whitespace(ch) <=> ch \in Blanks
  BY DEF is_whitespace, Blanks

\* parser_state::before_key
LEMMA BeforeKeyMeans ==
    ASSUME NEW u, NEW ch, Met(u, ch), BeforeKey(ch)
    PROVE  Result(u)
  <1> DEFINE p == Len(text) + 1
             q == Len(text) + 2
             at == PlaceAt(u, p)
             next == PlaceAt(u, q)
             doc == Document(u, m_max_levels)
  <1>1. /\ m_current_state = "before_key" /\ Innermost.value.type = "object" /\ m_buffer = <<>>
        /\ ahead = <<>>
    BY MetMachine, WhileReading DEF Met, BeforeKey, KeyStates, AfterStates, Inside
  <1>2. /\ IsWithin(at, Innermost.value) /\ at.text = u /\ at.from = p
        /\ Present(at) /\ Here(at) = ch /\ Further(at, q) = next /\ at.from + 1 = q
        /\ u \in Texts /\ q \in Nat \ {0}
    BY MetPlace, MetMachine
  <1>3. IsLeft(u, p, MembersAt(at, ReadFrom))
    BY <1>1 DEF Met, Remains, IsLeft, Innermost, PlaceAt
  <1>4. /\ ch \in Blanks => MembersAt(at, ReadFrom) = MembersAt(next, ReadFrom)
        /\ ch = string_begin_end =>
              MembersAt(at, ReadFrom) = Keyed(at, Quoted[Mark(u, q)])
        /\ ch = end_object => MembersAt(at, ReadFrom) = Reading(<<>>, q, {})
        /\ ch \notin Blanks \cup {string_begin_end, end_object} =>
              ~Readable(MembersAt(at, ReadFrom))
    <2> HIDE DEF at, next, q
    <2>1. QED
      BY <1>1, <1>2, BeforeMembers
  <1>5. CASE ch = string_begin_end
    <2> DEFINE r == Quoted[Mark(u, q)]
    <2>1. Goto("key") /\ Consume(ch)
      BY <1>1, <1>5 DEF BeforeKey, SkipWhitespaceElse, is_whitespace, string_begin_end, end_object
    <2>2. Same(r, Behind(<<>>, r))
      <3> HIDE DEF q
      <3>1. QED
        BY <1>2, BehindNothing
    <2> HIDE DEF r
    <2>3. Keyed(at, r) = Keyed(next, Behind(<<>>, r))
      <3> HIDE DEF at, next, q
      <3>1. Keyed(at, r) = Keyed(at, Behind(<<>>, r))
        BY <2>2, SameKeyed
      <3>2. QED
        BY <1>2, <3>1, KeyedFurther
    <2>4. IsLeft(u, q, Keyed(next, Behind(<<>>, r)))
      <3> HIDE DEF at, next
      <3>1. Same(Keyed(at, r), Keyed(next, Behind(<<>>, r)))
        BY <2>3, SameSelf
      <3>2. IsLeft(u, Len(text) + 1, Keyed(at, r))
        BY <1>3, <1>4, <1>5 DEF r
      <3>3. QED
        BY <3>1, <3>2, LeftBehind
    <2>5. Remains(u, m_max_levels, q, m_contexts, "key", <<>>, doc)
      BY <2>4 DEF Remains, IsLeft, Innermost, PlaceAt, r
    <2>6. QED
      BY <1>1, <2>1, <2>5, ConsumeResult DEF Goto
  <1>6. CASE ch = end_object
    <2>1. Reread(ch, "after_value_object")
      BY <1>1, <1>6 DEF BeforeKey, string_begin_end, end_object
    <2>2. MoreMembersAt(at, ReadFrom) = Reading(<<>>, q, {})
      <3> HIDE DEF at, next, q
      <3>1. QED
        BY <1>1, <1>2, <1>6, BetweenMembers
    <2>3. IsLeft(u, p, MoreMembersAt(at, ReadFrom))
      BY <1>3, <1>4, <1>6, <2>2
    <2>4. Remains(u, m_max_levels, p, m_contexts, "after_value_object", m_buffer, doc)
      BY <2>3 DEF Remains, IsLeft, Innermost, PlaceAt
    <2>5. QED
      BY <2>1, <2>4, PutBackResult DEF Reread, Goto
  <1>7. CASE ch \notin {string_begin_end, end_object}
    <2>1. SkipWhitespaceElse(ch, "illegal_delimiter")
      BY <1>1, <1>7 DEF BeforeKey
    <2>2. CASE ch \in Blanks
      <3>1. Skip(ch)
        BY <2>1, <2>2, WhitespaceIsBlank DEF SkipWhitespaceElse
      <3>2. IsLeft(u, q, MembersAt(next, ReadFrom))
        <4> HIDE DEF at, next
        <4>1. Same(MembersAt(at, ReadFrom), MembersAt(next, ReadFrom))
          BY <1>4, <2>2, SameSelf
        <4>2. QED
          BY <1>3, <4>1, LeftBehind
      <3>3. Remains(u, m_max_levels, q, m_contexts, "before_key", m_buffer, doc)
        BY <3>2 DEF Remains, IsLeft, Innermost, PlaceAt
      <3>4. QED
        BY <1>1, <3>1, <3>3, BlankStays
    <2>3. CASE ch \notin Blanks
      <3>1. Fail(ch, "illegal_delimiter")
        BY <2>1, <2>3, WhitespaceIsBlank DEF SkipWhitespaceElse
      <3>2. ~Readable(MembersAt(at, ReadFrom))
        BY <1>4, <1>7, <2>3
      <3>3. "illegal_delimiter" \in Outcomes \ {"completed"}
        BY DEF Outcomes, parser_error_codes
      <3> HIDE DEF at
      <3>4. QED
        BY <1>3, <3>1, <3>2, <3>3, FailResult
    <2>4. QED
      BY <2>2, <2>3
  <1>8. QED
    BY <1>5, <1>6, <1>7

\* parser_state::before_value
LEMMA BeforeValueMeans ==
    ASSUME NEW u, NEW ch, Met(u, ch), BeforeValue(ch)
    PROVE  Result(u)
  <1> DEFINE p == Len(text) + 1
             q == Len(text) + 2
             at == PlaceAt(u, p)
             next == PlaceAt(u, q)
             doc == Document(u, m_max_levels)
             key == Innermost.key
  <1>1. /\ m_current_state = "before_value" /\ Innermost.value.type = "object" /\ m_buffer = <<>>
        /\ ahead = <<>>
    BY MetMachine, WhileReading DEF Met, BeforeValue, KeyStates, AfterStates, Inside
  <1>2. /\ IsWithin(at, Innermost.value) /\ at.text = u /\ at.from = p
        /\ Present(at) /\ Here(at) = ch /\ Further(at, q) = next /\ at.from + 1 = q
    BY MetPlace, MetMachine
  <1>3. IsLeft(u, p, Named(at, key, p, ReadFrom))
    BY <1>1 DEF Met, Remains, IsLeft, Innermost, PlaceAt
  <1>4. /\ ch \in Blanks => Named(at, key, p, ReadFrom) = Named(at, key, q, ReadFrom)
        /\ ch = name_separator => Named(at, key, p, ReadFrom) = Valued(at, key, q, ReadFrom)
        /\ ch \notin Blanks \cup {name_separator} => ~Readable(Named(at, key, p, ReadFrom))
    <2> HIDE DEF at, next, q, p, key
    <2>1. QED
      BY <1>1, <1>2, BeforeColon
  <1>5. /\ Named(next, key, q, ReadFrom) = Named(at, key, q, ReadFrom)
        /\ Valued(next, key, q, ReadFrom) = Valued(at, key, q, ReadFrom)
    <2> HIDE DEF at, next, q, p, key
    <2>1. QED
      BY <1>2, NamedFurther
  <1>6. next.from = q
    BY DEF PlaceAt, PlaceIn, Spot
  <1>7. CASE ch = name_separator
    <2>1. Goto("value") /\ Consume(ch)
      BY <1>1, <1>7 DEF BeforeValue
    <2>2. ToValue(next, Innermost) = Valued(next, key, q, ReadFrom)
      BY <1>1, <1>6 DEF ToValue
    <2>3. IsLeft(u, q, ToValue(next, Innermost))
      <3> HIDE DEF at, next, key
      <3>1. Same(Named(at, key, p, ReadFrom), ToValue(next, Innermost))
        BY <1>4, <1>5, <1>7, <2>2, SameSelf
      <3>2. QED
        BY <1>3, <3>1, LeftBehind
    <2>4. Remains(u, m_max_levels, q, m_contexts, "value", m_buffer, doc)
      BY <2>3 DEF Remains, IsLeft, Innermost, PlaceAt
    <2>5. QED
      BY <2>1, <2>4, ConsumeResult DEF Goto
  <1>8. CASE ch # name_separator
    <2>1. SkipWhitespaceElse(ch, "illegal_delimiter")
      BY <1>1, <1>8 DEF BeforeValue
    <2>2. CASE ch \in Blanks
      <3>1. Skip(ch)
        BY <2>1, <2>2, WhitespaceIsBlank DEF SkipWhitespaceElse
      <3>2. IsLeft(u, q, Named(next, key, q, ReadFrom))
        <4> HIDE DEF at, next, key
        <4>1. Same(Named(at, key, p, ReadFrom), Named(next, key, q, ReadFrom))
          BY <1>4, <1>5, <2>2, SameSelf
        <4>2. QED
          BY <1>3, <4>1, LeftBehind
      <3>3. Remains(u, m_max_levels, q, m_contexts, "before_value", m_buffer, doc)
        BY <3>2 DEF Remains, IsLeft, Innermost, PlaceAt
      <3>4. QED
        BY <1>1, <3>1, <3>3, BlankStays
    <2>3. CASE ch \notin Blanks
      <3>1. Fail(ch, "illegal_delimiter")
        BY <2>1, <2>3, WhitespaceIsBlank DEF SkipWhitespaceElse
      <3>2. ~Readable(Named(at, key, p, ReadFrom))
        BY <1>4, <1>8, <2>3
      <3>3. "illegal_delimiter" \in Outcomes \ {"completed"}
        BY DEF Outcomes, parser_error_codes
      <3> HIDE DEF at, key
      <3>4. QED
        BY <1>3, <3>1, <3>2, <3>3, FailResult
    <2>4. QED
      BY <2>2, <2>3
  <1>9. QED
    BY <1>7, <1>8

\* The key of a member that is read.
LEMMA UnreadableKey ==
    ASSUME NEW at, NEW key, ~Readable(key)
    PROVE  ~Readable(Keyed(at, key))
  BY UnreadableIs DEF Keyed

\* The innermost container is left alone when its key is written.
LEMMA SetKeyResult ==
    ASSUME NEW u, NEW ch, Met(u, ch), Consume(ch),
           m_contexts' = [m_contexts EXCEPT ![Len(m_contexts)].key = m_buffer],
           m_current_state' = "before_value",
           IsLeft(u, Len(text) + 2, Named(PlaceAt(u, Len(text) + 2), m_buffer, Len(text) + 2, ReadFrom))
    PROVE  Result(u)
  <1> DEFINE n == Len(m_contexts)
             q == Len(text) + 2
             doc == Document(u, m_max_levels)
             top == [m_contexts[n] EXCEPT !.key = m_buffer]
             left == Named(PlaceAt(u, q), m_buffer, q, ReadFrom)
  <1>1. n \in Nat \ {0} /\ q \in Nat /\ IsSequence(m_contexts) /\ m_contexts # <<>>
    BY MetMachine DEF IsStack
  <1>2. top.value = Innermost.value /\ top.key = m_buffer
    <2>1. IsContext(m_contexts[n])
      BY <1>1, MetMachine DEF IsStack
    <2>2. top = [key |-> m_buffer, value |-> m_contexts[n].value]
      BY <2>1 DEF IsContext
    <2>3. QED
      BY <2>2 DEF Innermost
  <1>3. m_contexts' = SetTop(m_contexts, top)
    BY DEF SetTop
  <1> HIDE DEF top
  <1>4. Len(m_contexts') = n /\ m_contexts'[n] = top /\ \A k \in 1 .. n - 1 : m_contexts'[k] = m_contexts[k]
    BY <1>1, <1>3, ReplaceTop
  <1>5. AreContainers(m_contexts')
    <2>1. ASSUME NEW k \in 1 .. n PROVE IsContainer(m_contexts'[k].value)
      <3>1. IsContainer(m_contexts[k].value)
        BY DEF Met, AreContainers
      <3>2. CASE k = n
        BY <1>2, <1>4, <3>1, <3>2 DEF Innermost
      <3>3. CASE k # n
        <4>1. k \in 1 .. n - 1
          BY <1>1, <3>3
        <4>2. QED
          BY <1>4, <3>1, <4>1
      <3>4. QED
        BY <3>2, <3>3
    <2>2. QED
      BY <1>4, <2>1 DEF AreContainers
  <1>6. Denotes(u, m_max_levels, m_contexts', q, doc, left)
    <2>1. Denotes(u, m_max_levels, m_contexts, q, doc, left)
      BY DEF IsLeft
    <2>2. m_contexts'[n].value = m_contexts[n].value
      BY <1>2, <1>4 DEF Innermost
    <2>3. Same(Closed(m_contexts[n].value, left), Closed(m_contexts'[n].value, left))
      BY <2>2, SameSelf
    <2>4. q <= q
      BY <1>1
    <2> HIDE DEF q, left, doc, n
    <2>5. Len(m_contexts) = n
      BY DEF n
    <2>6. QED
      BY <1>1, <1>4, <2>1, <2>3, <2>4, <2>5, DenotesInTop
  <1>7. left = Named(PlaceIn(u, m_max_levels, n, m_contexts'[n].value, q), m_contexts'[n].key, q, ReadFrom)
    BY <1>2, <1>4 DEF PlaceAt
  <1>8. Remains(u, m_max_levels, q, m_contexts', "before_value", m_buffer', doc)
    <2> HIDE DEF left, q, doc
    <2>1. Denotes(u, m_max_levels, m_contexts', q, doc,
                  Named(PlaceIn(u, m_max_levels, n, m_contexts'[n].value, q), m_contexts'[n].key, q, ReadFrom))
      BY <1>6, <1>7
    <2>2. QED
      BY <1>4, <2>1 DEF Remains
  <1>9. ec' = ec /\ ec \notin Outcomes /\ Len(text') + 1 = q
    BY MetMachine, AppendProperties DEF Consume, Met
  <1>10. "completed" \in Outcomes
    BY DEF Outcomes, parser_error_codes
  <1>11. QED
    BY <1>5, <1>8, <1>9, <1>10 DEF Result

\* parser_state::key
LEMMA KeyMeans ==
    ASSUME NEW u, NEW ch, Met(u, ch), Key(ch)
    PROVE  Result(u)
  <1> DEFINE p == Len(text) + 1
             q == Len(text) + 2
             at == PlaceAt(u, p)
             next == PlaceAt(u, q)
             doc == Document(u, m_max_levels)
             r == Behind(m_buffer, Quoted[Mark(u, p)])
  <1>1. m_current_state = "key" /\ Innermost.value.type = "object" /\ m_buffer \in Texts
    BY MetMachine, WhileReading DEF Met, Key, KeyStates, AfterStates, Inside
  <1>2. /\ Further(at, q) = next /\ q \in Nat \ {0} /\ p \in Nat \ {0} /\ q = p + 1
        /\ u \in Texts /\ p \in 1 .. Len(u) /\ u[p] = ch
    BY MetPlace, MetMachine DEF Met
  <1>3. IsLeft(u, p, Keyed(at, r))
    BY <1>1 DEF Met, Remains, IsLeft, Innermost, PlaceAt
  <1>4. /\ ch = string_begin_end => Same(r, Reading(m_buffer, q, {}))
        /\ ch = begin_esc_seq => r = Behind(m_buffer, Escaped(u, q))
        /\ ch \notin {string_begin_end, begin_esc_seq} /\ char_should_be_escaped(ch) => ~Readable(r)
        /\ ch \notin {string_begin_end, begin_esc_seq} /\ ~char_should_be_escaped(ch) =>
              Same(r, Behind(Append(m_buffer, ch), Quoted[Mark(u, q)]))
    <2> HIDE DEF p, q, r
    <2>1. Same(r, r) /\ r = Behind(m_buffer, Quoted[Mark(u, p)])
      BY SameSelf DEF r
    <2>2. QED
      BY <1>1, <1>2, <2>1, StringGoesOn
  <1> HIDE DEF r
  <1>5. ASSUME NEW s, Same(r, s) PROVE IsLeft(u, q, Keyed(next, s))
    <2> HIDE DEF at, next
    <2>1. Keyed(at, r) = Keyed(at, s)
      BY <1>5, SameKeyed
    <2>2. Keyed(next, s) = Keyed(at, s)
      BY <1>2, KeyedFurther
    <2>3. Same(Keyed(at, r), Keyed(next, s))
      BY <2>1, <2>2, SameSelf
    <2>4. QED
      BY <1>3, <2>3, LeftBehind
  <1>6. CASE ch = string_begin_end
    <2>1. /\ m_contexts' = [m_contexts EXCEPT ![Len(m_contexts)].key = m_buffer]
          /\ m_current_state' = "before_value" /\ Consume(ch)
      BY <1>1, <1>6 DEF Key, MoveOn, begin_esc_seq, string_begin_end
    <2> DEFINE s == Reading(m_buffer, q, {})
    <2>2. IsLeft(u, q, Keyed(next, s))
      <3> HIDE DEF next, q, s
      <3>1. Same(r, s)
        BY <1>4, <1>6 DEF s
      <3>2. QED
        BY <1>5, <3>1
    <2>3. Keyed(next, s) = Named(next, m_buffer, q, ReadFrom)
      BY <1>2 DEF Keyed, Readable, Reading
    <2>4. IsLeft(u, q, Named(next, m_buffer, q, ReadFrom))
      BY <2>2, <2>3
    <2>5. QED
      BY <2>1, <2>4, SetKeyResult
  <1>7. CASE ch = begin_esc_seq
    <2> DEFINE s == Behind(m_buffer, Escaped(u, q))
    <2>1. Goto("key_esc_seq") /\ Consume(ch)
      BY <1>1, <1>7 DEF Key, begin_esc_seq, string_begin_end
    <2>2. IsLeft(u, q, Keyed(next, s))
      <3> HIDE DEF next, q, s
      <3>1. Same(r, s)
        BY <1>4, <1>7, SameSelf DEF s
      <3>2. QED
        BY <1>5, <3>1
    <2>3. Remains(u, m_max_levels, q, m_contexts, "key_esc_seq", m_buffer, doc)
      BY <2>2 DEF Remains, IsLeft, Innermost, PlaceAt
    <2>4. QED
      BY <2>1, <2>3, ConsumeResult DEF Goto
  <1>8. CASE ch \notin {string_begin_end, begin_esc_seq} /\ char_should_be_escaped(ch)
    <2>1. Fail(ch, "character_must_be_escaped")
      BY <1>1, <1>8 DEF Key
    <2>2. ~Readable(Keyed(at, r))
      <3> HIDE DEF at
      <3>1. QED
        BY <1>4, <1>8, UnreadableKey
    <2>3. "character_must_be_escaped" \in Outcomes \ {"completed"}
      BY DEF Outcomes, parser_error_codes
    <2> HIDE DEF at
    <2>4. QED
      BY <1>3, <2>1, <2>2, <2>3, FailResult
  <1>9. CASE ch \notin {string_begin_end, begin_esc_seq} /\ ~char_should_be_escaped(ch)
    <2> DEFINE b == Append(m_buffer, ch)
               s == Behind(b, Quoted[Mark(u, q)])
    <2>1. Collect(ch, "key") /\ Consume(ch)
      BY <1>1, <1>9 DEF Key
    <2>2. IsLeft(u, q, Keyed(next, s))
      <3> HIDE DEF next, q, s
      <3>1. Same(r, s)
        BY <1>4, <1>9 DEF s
      <3>2. QED
        BY <1>5, <3>1
    <2>3. Remains(u, m_max_levels, q, m_contexts, "key", b, doc)
      <3> HIDE DEF b
      <3>1. QED
        BY <2>2 DEF Remains, IsLeft, Innermost, PlaceAt
    <2>4. QED
      BY <2>1, <2>3, ConsumeResult DEF Collect
  <1>10. QED
    BY <1>6, <1>7, <1>8, <1>9

\* parser_state::key_esc_seq
LEMMA KeyEscSeqMeans ==
    ASSUME NEW u, NEW ch, Met(u, ch), KeyEscSeq(ch)
    PROVE  Result(u)
  <1> DEFINE p == Len(text) + 1
             q == Len(text) + 2
             at == PlaceAt(u, p)
             next == PlaceAt(u, q)
             doc == Document(u, m_max_levels)
             r == Behind(m_buffer, Escaped(u, p))
             b == Append(m_buffer, unescape(ch))
             s == Behind(b, Quoted[Mark(u, q)])
  <1>1. m_current_state = "key_esc_seq" /\ m_buffer \in Texts
    BY MetMachine DEF KeyEscSeq
  <1>2. /\ Further(at, q) = next /\ q \in Nat \ {0} /\ p \in Nat \ {0} /\ q = p + 1
        /\ u \in Texts /\ p \in 1 .. Len(u) /\ u[p] = ch
    BY MetPlace, MetMachine DEF Met
  <1>3. IsLeft(u, p, Keyed(at, r))
    BY <1>1 DEF Met, Remains, IsLeft, Innermost, PlaceAt
  <1>4. /\ unescape(ch) # nullopt => Same(r, s)
        /\ unescape(ch) = nullopt => ~Readable(r)
    <2> HIDE DEF p, q
    <2>1. QED
      BY <1>1, <1>2, EscapeGoesOn
  <1> HIDE DEF r, s
  <1>5. CASE unescape(ch) = nullopt
    <2>1. Fail(ch, "unsupported_escape_sequence")
      BY <1>5 DEF KeyEscSeq
    <2>2. ~Readable(Keyed(at, r))
      <3> HIDE DEF at
      <3>1. QED
        BY <1>4, <1>5, UnreadableKey
    <2>3. "unsupported_escape_sequence" \in Outcomes \ {"completed"}
      BY DEF Outcomes, parser_error_codes
    <2> HIDE DEF at
    <2>4. QED
      BY <1>3, <2>1, <2>2, <2>3, FailResult
  <1>6. CASE unescape(ch) # nullopt
    <2>1. Collect(unescape(ch), "key") /\ Consume(ch)
      BY <1>6 DEF KeyEscSeq
    <2>2. IsLeft(u, q, Keyed(next, s))
      <3> HIDE DEF at, next, q
      <3>1. Keyed(at, r) = Keyed(at, s)
        BY <1>4, <1>6, SameKeyed
      <3>2. Same(Keyed(at, r), Keyed(next, s))
        BY <1>2, <3>1, KeyedFurther, SameSelf
      <3>3. QED
        BY <1>3, <3>2, LeftBehind DEF q
    <2>3. Remains(u, m_max_levels, q, m_contexts, "key", b, doc)
      <3> HIDE DEF b
      <3>1. QED
        BY <2>2 DEF Remains, IsLeft, Innermost, PlaceAt, s
    <2>4. QED
      BY <2>1, <2>3, ConsumeResult DEF Collect
  <1>7. QED
    BY <1>5, <1>6
-----------------------------------------------------------------------------
(* Leaves.                                                                 *)

\* What remains behind an entry is what the state after it reads.
LEMMA AfterRemains ==
    ASSUME NEW u, NEW limit, NEW T, NEW q, NEW whole, NEW n, Len(T) = n, NEW state, NEW buffer,
           state = IF T[n].value.type = "array" THEN "after_value_array" ELSE "after_value_object",
           Denotes(u, limit, T, q, whole,
                   AfterEntry(PlaceIn(u, limit, n, T[n].value, q), T[n].value))
    PROVE  Remains(u, limit, q, T, state, buffer, whole)
  <1>1. CASE T[n].value.type = "array"
    BY <1>1 DEF Remains, AfterEntry
  <1>2. CASE T[n].value.type # "array"
    BY <1>2 DEF Remains, AfterEntry
  <1>3. QED
    BY <1>1, <1>2

\* White space behind an entry.
LEMMA BlankAfterEntry ==
    ASSUME NEW u \in Texts, NEW limit \in Nat \cup {nullopt}, NEW n \in Nat, NEW d, IsContainer(d),
           NEW q \in 1 .. Len(u), u[q] \in Blanks
    PROVE  AfterEntry(PlaceIn(u, limit, n, d, q), d) = AfterEntry(PlaceIn(u, limit, n, d, q + 1), d)
  <1> DEFINE b == PlaceIn(u, limit, n, d, q)
             e == PlaceIn(u, limit, n, d, q + 1)
             context == [key |-> <<>>, value |-> d]
  <1>0. q \in Nat \ {0}
    OBVIOUS
  <1>1. IsWithin(b, d)
    BY <1>0, PlaceWithin, Zenon
  <1>2. b.text = u /\ b.from = q
    BY DEF PlaceIn, Spot
  <1>3. Present(b) /\ Here(b) \in Blanks /\ Further(b, q + 1) = e
    BY <1>2, PlaceFurther DEF Present, Here
  <1>4. context.value = d
    OBVIOUS
  <1> HIDE DEF b, e, context
  <1>5. CASE d.type = "array"
    <2>1. MoreItemsAt(b, ReadFrom) = MoreItemsAt(e, ReadFrom)
      BY <1>1, <1>2, <1>3, <1>4, <1>5, BetweenItems
    <2>2. QED
      BY <1>5, <2>1 DEF AfterEntry, b, e
  <1>6. CASE d.type # "array"
    <2>1. d.type = "object"
      BY <1>6 DEF IsContainer
    <2>2. MoreMembersAt(b, ReadFrom) = MoreMembersAt(e, ReadFrom)
      BY <1>1, <1>2, <1>3, <1>4, <2>1, BetweenMembers
    <2>3. QED
      BY <1>6, <2>2 DEF AfterEntry, b, e
  <1>7. QED
    BY <1>5, <1>6

\* A string or a literal that has been read.
LEMMA StoreLeafMeans ==
    ASSUME NEW u, NEW ch, Met(u, ch), NEW i \in Nat, NEW item, Advances(item, u, i),
           u[item.next - 1] # end_array,
           IsLeft(u, Len(text) + 1, Entry(PlaceAt(u, Len(text) + 1), Innermost, i, item)),
           NEW value, value = item.value, NEW done, StoreLeaf(ch, value, done),
           done => \/ item.next = Len(text) + 1 /\ PutBack(ch)
                   \/ item.next = Len(text) + 1 /\ Consume(ch) /\ ch \in Blanks
                   \/ item.next = Len(text) + 2 /\ Consume(ch),
           item.next \in {Len(text) + 1, Len(text) + 2}
    PROVE  Result(u)
  <1> DEFINE n == Len(m_contexts)
             p == Len(text) + 1
             q == item.next
             doc == Document(u, m_max_levels)
             S == m_contexts
             T == Stored(S, value)
             res == StoreIn(S, value)
             d == T[n].value
             after == AfterEntry(PlaceIn(u, m_max_levels, n, d, q), d)
  <1>1. /\ n \in Nat \ {0} /\ IsStack(S) /\ S # <<>> /\ u \in Texts /\ m_max_levels \in Nat \cup {nullopt}
        /\ p \in Nat \ {0} /\ S[n].key \in Texts /\ Len(u) \in Nat /\ p \in 1 .. Len(u) /\ u[p] = ch
        /\ AreContainers(S) /\ Len(text) \in Nat /\ p <= q /\ q \in Nat
    BY MetMachine DEF Met, Innermost
  <1>2. Denotes(u, m_max_levels, S, p, doc, Entry(PlaceIn(u, m_max_levels, n, S[n].value, p), S[n], i, item))
    BY DEF IsLeft, PlaceAt, Innermost
  <1>3. /\ AreContainers(T) /\ Len(T) = n
        /\ res.next_state = IF d.type = "array" THEN "after_value_array"
                                                ELSE "after_value_object"
        /\ res.err = "more_data_needed" => Denotes(u, m_max_levels, T, q, doc, after)
        /\ res.err # "more_data_needed" => ~Readable(doc)
    <2>1. ToStore(S, u, m_max_levels, p, doc, p, i, item)
      BY <1>1, <1>2 DEF ToStore
    <2>2. IsStored(S, u, m_max_levels, doc, item)
      BY <2>1, StoredMeaning
    <2>3. QED
      BY <2>2 DEF IsStored
  <1>4. IsContainer(d)
    BY <1>1, <1>3 DEF AreContainers
  <1>5. /\ m_contexts' = T
        /\ IF res.err # "more_data_needed"
           THEN Return(ch, res.err)
           ELSE done /\ m_current_state' = res.next_state
    BY DEF StoreLeaf, MoveOn
  <1>6. CASE res.err # "more_data_needed"
    <2>1. ec' = res.err /\ res.err = "key_already_exists"
      BY <1>1, <1>5, <1>6, StoreInTop DEF Return
    <2>2. ec' \in Outcomes \ {"completed"}
      BY <2>1 DEF Outcomes, parser_error_codes
    <2>3. QED
      BY <1>3, <1>6, <2>2 DEF Result
  <1>7. CASE res.err = "more_data_needed"
    <2>1. ec \notin Outcomes /\ "completed" \in Outcomes
      BY MetMachine DEF Outcomes, parser_error_codes
    <2>2. done /\ m_current_state' = res.next_state /\ Denotes(u, m_max_levels, T, q, doc, after)
      BY <1>3, <1>5, <1>7
    <2>3. /\ ec' = ec /\ q <= Len(text') + 1 /\ Len(text') + 1 \in Nat
          /\ \/ Len(text') + 1 = q
             \/ Len(text') + 1 = q + 1 /\ q \in 1 .. Len(u) /\ u[q] \in Blanks
      <3>1. ch \in Chars /\ text \in Seq(Chars)
        BY MetMachine DEF Met
      <3>2. Len(Append(text, ch)) = Len(text) + 1
        BY <3>1, AppendProperties
      <3>3. QED
        BY <1>1, <2>2, <3>2 DEF PutBack, Consume
    <2> DEFINE z == Len(text') + 1
               rest == AfterEntry(PlaceIn(u, m_max_levels, n, d, z), d)
    <2>4. after = rest
      <3>1. CASE z = q
        BY <3>1
      <3>2. CASE z = q + 1 /\ q \in 1 .. Len(u) /\ u[q] \in Blanks
        <4> DEFINE L == m_max_levels
        <4>1. L \in Nat \cup {nullopt} /\ n \in Nat
          BY <1>1
        <4> HIDE DEF z, q, d, L, n
        <4>2. AfterEntry(PlaceIn(u, L, n, d, q), d) = AfterEntry(PlaceIn(u, L, n, d, q + 1), d)
          BY <1>1, <1>4, <3>2, <4>1, BlankAfterEntry
        <4>3. QED
          BY <3>2, <4>2 DEF L
      <3>3. QED
        BY <2>3, <3>1, <3>2
    <2>5. Denotes(u, m_max_levels, T, z, doc, rest)
      <3> HIDE DEF after, rest, z, q, doc, T
      <3>1. Same(after, rest) /\ Len(T) \in Nat \ {0} /\ q \in Nat /\ z \in Nat /\ q <= z
        BY <1>1, <1>3, <2>3, <2>4, SameSelf DEF z
      <3>2. QED
        BY <2>2, <3>1, DenotesOnward
    <2>6. Remains(u, m_max_levels, z, T, m_current_state', m_buffer', doc)
      <3> HIDE DEF z, T, doc, n
      <3>1. Len(T) = n
        BY <1>3
      <3>2. m_current_state' = IF T[n].value.type = "array" THEN "after_value_array"
                                                            ELSE "after_value_object"
        BY <1>3, <2>2
      <3>3. QED
        BY <2>5, <3>1, <3>2, AfterRemains
    <2>7. QED
      <3> HIDE DEF T
      <3>1. QED
        BY <1>3, <1>5, <2>1, <2>3, <2>6 DEF Result
  <1>8. QED
    BY <1>6, <1>7

\* What is left of an entry, behind a character of it.
LEMMA EntryLeft ==
    ASSUME NEW u, NEW ch, Met(u, ch), NEW i \in Nat \ {0}, NEW r, NEW s, Same(r, s),
           IsLeft(u, Len(text) + 1, Entry(PlaceAt(u, Len(text) + 1), Innermost, i, r))
    PROVE  /\ IsLeft(u, Len(text) + 2, Entry(PlaceAt(u, Len(text) + 2), Innermost, i, s))
           /\ IsLeft(u, Len(text) + 1, Entry(PlaceAt(u, Len(text) + 1), Innermost, i, s))
  <1> DEFINE p == Len(text) + 1
             q == Len(text) + 2
             at == PlaceAt(u, p)
             next == PlaceAt(u, q)
             c == Innermost
  <1>1. Further(at, q) = next
    BY MetPlace
  <1> HIDE DEF at, next, q, c
  <1>2. Same(Entry(at, c, i, r), Entry(at, c, i, s))
    BY SameEntry
  <1>3. Entry(next, c, i, s) = Entry(at, c, i, s)
    BY <1>1, EntryFurther
  <1>4. Same(Entry(at, c, i, r), Entry(next, c, i, s))
    BY <1>2, <1>3
  <1>5. QED
    BY <1>2, <1>4, LeftBehind DEF at, next, q, c

\* If what is read of an entry cannot be read, nor can the text.
LEMMA EntryFails ==
    ASSUME NEW u, NEW ch, Met(u, ch), NEW code \in Outcomes \ {"completed"}, Fail(ch, code),
           NEW i \in Nat \ {0}, NEW r, ~Readable(r),
           IsLeft(u, Len(text) + 1, Entry(PlaceAt(u, Len(text) + 1), Innermost, i, r))
    PROVE  Result(u)
  <1> DEFINE e == Entry(PlaceAt(u, Len(text) + 1), Innermost, i, r)
  <1>1. ~Readable(e)
    BY UnreadableEntry, UnreadableIs
  <1> HIDE DEF e
  <1>2. IsLeft(u, Len(text) + 1, e)
    BY DEF e
  <1>3. QED
    BY <1>1, <1>2, FailResult

\* What StringOf leaves as it is.
LEMMA StringParts ==
    ASSUME NEW r
    PROVE  /\ StringOf(r).value = String(r.value) /\ StringOf(r).next = r.next
           /\ ~Readable(r) => ~Readable(StringOf(r))
  BY DEF StringOf, With, Reading, Readable

\* parser_state::string_value
LEMMA StringValueMeans ==
    ASSUME NEW u, NEW ch, Met(u, ch), StringValue(ch)
    PROVE  Result(u)
  <1> DEFINE p == Len(text) + 1
             q == Len(text) + 2
             at == PlaceAt(u, p)
             next == PlaceAt(u, q)
             doc == Document(u, m_max_levels)
             r == Behind(m_buffer, Quoted[Mark(u, p)])
  <1>1. m_current_state = "string_value" /\ m_buffer \in Texts
    BY MetMachine DEF StringValue
  <1>2. /\ q \in Nat \ {0} /\ p \in Nat \ {0} /\ q = p + 1 /\ Len(u) \in Nat
        /\ u \in Texts /\ p \in 1 .. Len(u) /\ u[p] = ch
    BY MetMachine DEF Met
  <1>3. PICK i \in 1 .. p - 1 : IsLeft(u, p, Entry(at, Innermost, i, StringOf(r)))
    BY <1>1 DEF Met, Remains, IsLeft, Innermost, PlaceAt
  <1>4. i \in Nat \ {0} /\ i \in 1 .. q - 1 /\ i \in Nat
    BY <1>2
  <1>5. /\ ch = string_begin_end => Same(r, Reading(m_buffer, q, {}))
        /\ ch = begin_esc_seq => r = Behind(m_buffer, Escaped(u, q))
        /\ ch \notin {string_begin_end, begin_esc_seq} /\ char_should_be_escaped(ch) => ~Readable(r)
        /\ ch \notin {string_begin_end, begin_esc_seq} /\ ~char_should_be_escaped(ch) =>
              Same(r, Behind(Append(m_buffer, ch), Quoted[Mark(u, q)]))
    <2> HIDE DEF p, q, r
    <2>1. r = Behind(m_buffer, Quoted[Mark(u, p)])
      BY DEF r
    <2>2. QED
      BY <1>1, <1>2, <2>1, StringGoesOn
  <1> HIDE DEF r
  <1>6. ASSUME NEW s, Same(r, s)
        PROVE  /\ IsLeft(u, q, Entry(next, Innermost, i, StringOf(s)))
               /\ IsLeft(u, p, Entry(at, Innermost, i, StringOf(s)))
    <2>1. Same(StringOf(r), StringOf(s))
      BY <1>6, SameString
    <2>2. QED
      BY <1>3, <1>4, <2>1, EntryLeft
  <1>7. CASE ch = string_begin_end
    <2> DEFINE s == Reading(m_buffer, q, {})
               item == StringOf(s)
    <2>1. StoreLeaf(ch, String(m_buffer), Consume(ch))
      BY <1>1, <1>7 DEF StringValue, begin_esc_seq, string_begin_end
    <2>2. s.value = m_buffer /\ s.next = q
      BY DEF Reading
    <2>3. item.value = String(m_buffer) /\ item.next = q
      <3> HIDE DEF s
      <3>1. QED
        BY <2>2, StringParts
    <2>4. IsLeft(u, p, Entry(at, Innermost, i, item))
      <3> HIDE DEF s, at
      <3>1. Same(r, s)
        BY <1>5, <1>7 DEF s
      <3>2. QED
        BY <1>6, <3>1
    <2>5. Advances(item, u, i) /\ u[q - 1] # end_array
      <3>1. q \in i + 1 .. Len(u) + 1 /\ q - 1 = p
        BY <1>2, <1>4
      <3>2. string_begin_end # end_array
        BY DEF string_begin_end, end_array
      <3> HIDE DEF item, q, p
      <3>3. QED
        BY <1>2, <1>7, <2>3, <3>1, <3>2 DEF Advances
    <2> HIDE DEF item
    <2>6. String(m_buffer) = item.value /\ item.next = Len(text) + 2
      BY <2>3
    <2> DEFINE value == String(m_buffer)
               done == Consume(ch)
    <2>7. StoreLeaf(ch, value, done) /\ value = item.value /\ u[item.next - 1] # end_array
          /\ (done => item.next = Len(text) + 2 /\ Consume(ch))
      BY <2>1, <2>3, <2>5
    <2> HIDE DEF value, done
    <2>8. QED
      BY <1>4, <2>4, <2>5, <2>6, <2>7, StoreLeafMeans
  <1>8. CASE ch = begin_esc_seq
    <2> DEFINE s == Behind(m_buffer, Escaped(u, q))
    <2>1. Goto("string_value_esc_seq") /\ Consume(ch)
      BY <1>1, <1>8 DEF StringValue, begin_esc_seq, string_begin_end
    <2>2. IsLeft(u, q, Entry(next, Innermost, i, StringOf(s)))
      <3> HIDE DEF next, q, s
      <3>1. Same(r, s)
        BY <1>5, <1>8, SameSelf DEF s
      <3>2. QED
        BY <1>6, <3>1
    <2>3. Remains(u, m_max_levels, q, m_contexts, "string_value_esc_seq", m_buffer, doc)
      BY <1>4, <2>2 DEF Remains, IsLeft, Innermost, PlaceAt
    <2>4. QED
      BY <2>1, <2>3, ConsumeResult DEF Goto
  <1>9. CASE ch \notin {string_begin_end, begin_esc_seq} /\ char_should_be_escaped(ch)
    <2>1. Fail(ch, "character_must_be_escaped")
      BY <1>1, <1>9 DEF StringValue
    <2>2. ~Readable(StringOf(r))
      BY <1>5, <1>9, StringParts
    <2>3. "character_must_be_escaped" \in Outcomes \ {"completed"}
      BY DEF Outcomes, parser_error_codes
    <2>4. QED
      BY <1>3, <1>4, <2>1, <2>2, <2>3, EntryFails
  <1>10. CASE ch \notin {string_begin_end, begin_esc_seq} /\ ~char_should_be_escaped(ch)
    <2> DEFINE b == Append(m_buffer, ch)
               s == Behind(b, Quoted[Mark(u, q)])
    <2>1. Collect(ch, "string_value") /\ Consume(ch)
      BY <1>1, <1>10 DEF StringValue
    <2>2. IsLeft(u, q, Entry(next, Innermost, i, StringOf(s)))
      <3> HIDE DEF next, q, s
      <3>1. Same(r, s)
        BY <1>5, <1>10 DEF s
      <3>2. QED
        BY <1>6, <3>1
    <2>3. Remains(u, m_max_levels, q, m_contexts, "string_value", b, doc)
      <3> HIDE DEF b
      <3>1. QED
        BY <1>4, <2>2 DEF Remains, IsLeft, Innermost, PlaceAt
    <2>4. QED
      BY <2>1, <2>3, ConsumeResult DEF Collect
  <1>11. QED
    BY <1>7, <1>8, <1>9, <1>10

\* parser_state::string_value_esc_seq
LEMMA StringValueEscSeqMeans ==
    ASSUME NEW u, NEW ch, Met(u, ch), StringValueEscSeq(ch)
    PROVE  Result(u)
  <1> DEFINE p == Len(text) + 1
             q == Len(text) + 2
             at == PlaceAt(u, p)
             next == PlaceAt(u, q)
             doc == Document(u, m_max_levels)
             r == Behind(m_buffer, Escaped(u, p))
             b == Append(m_buffer, unescape(ch))
             s == Behind(b, Quoted[Mark(u, q)])
  <1>1. m_current_state = "string_value_esc_seq" /\ m_buffer \in Texts
    BY MetMachine DEF StringValueEscSeq
  <1>2. /\ q \in Nat \ {0} /\ p \in Nat \ {0} /\ q = p + 1 /\ Len(u) \in Nat
        /\ u \in Texts /\ p \in 1 .. Len(u) /\ u[p] = ch
    BY MetMachine DEF Met
  <1>3. PICK i \in 1 .. p - 1 : IsLeft(u, p, Entry(at, Innermost, i, StringOf(r)))
    BY <1>1 DEF Met, Remains, IsLeft, Innermost, PlaceAt
  <1>4. i \in Nat \ {0} /\ i \in 1 .. q - 1 /\ i \in Nat
    BY <1>2
  <1>5. /\ unescape(ch) # nullopt => Same(r, s)
        /\ unescape(ch) = nullopt => ~Readable(r)
    <2> HIDE DEF p, q
    <2>1. QED
      BY <1>1, <1>2, EscapeGoesOn
  <1> HIDE DEF r, s
  <1>6. CASE unescape(ch) = nullopt
    <2>1. Fail(ch, "unsupported_escape_sequence")
      BY <1>6 DEF StringValueEscSeq
    <2>2. ~Readable(StringOf(r))
      BY <1>5, <1>6, StringParts
    <2>3. "unsupported_escape_sequence" \in Outcomes \ {"completed"}
      BY DEF Outcomes, parser_error_codes
    <2>4. QED
      BY <1>3, <1>4, <2>1, <2>2, <2>3, EntryFails
  <1>7. CASE unescape(ch) # nullopt
    <2>1. Collect(unescape(ch), "string_value") /\ Consume(ch)
      BY <1>7 DEF StringValueEscSeq
    <2>2. IsLeft(u, q, Entry(next, Innermost, i, StringOf(s)))
      <3>1. Same(StringOf(r), StringOf(s))
        BY <1>5, <1>7, SameString
      <3>2. QED
        BY <1>3, <1>4, <3>1, EntryLeft
    <2>3. Remains(u, m_max_levels, q, m_contexts, "string_value", b, doc)
      <3> HIDE DEF b
      <3>1. QED
        BY <1>4, <2>2 DEF Remains, IsLeft, Innermost, PlaceAt, s
    <2>4. QED
      BY <2>1, <2>3, ConsumeResult DEF Collect
  <1>8. QED
    BY <1>6, <1>7

\* parser_state::literal
LEMMA LiteralMeans ==
    ASSUME NEW u, NEW ch, Met(u, ch), Literal(ch)
    PROVE  Result(u)
  <1> DEFINE p == Len(text) + 1
             q == Len(text) + 2
             at == PlaceAt(u, p)
             next == PlaceAt(u, q)
             doc == Document(u, m_max_levels)
             c == Innermost
  <1>1. m_current_state = "literal" /\ m_buffer \in Texts
    BY MetMachine DEF Literal
  <1>2. /\ q \in Nat \ {0} /\ p \in Nat \ {0} /\ q = p + 1 /\ Len(u) \in Nat
        /\ u \in Texts /\ p \in 1 .. Len(u) /\ u[p] = ch
        /\ IsContainer(c.value) /\ c.key \in Texts
    BY MetMachine DEF Met
  <1>3. PICK i \in Nat : /\ LiteralBegun(u, i, p, m_buffer)
                         /\ IsLeft(u, p, Entry(at, c, i, ValueFrom(at, i)))
    BY <1>1 DEF Met, Remains, IsLeft, Innermost, PlaceAt
  <1>4. i \in 1 .. p - 1 /\ i \in Nat \ {0}
    BY <1>2, <1>3 DEF LiteralBegun
  <1>5. /\ IsWithin(at, c.value) /\ at.text = u /\ at.from = p /\ Present(at) /\ Here(at) = ch
        /\ Further(at, q) = next
    BY MetPlace
  <1> DEFINE v == ValueFrom(at, i)
  <1>6. CASE EndsLiteral(ch)
    <2> DEFINE value == make_value(m_buffer)
    <2>1. IF m_buffer \in DOMAIN Literals
          THEN /\ v = Reading(Literals[m_buffer], p, {})
               /\ p - 1 \in 1 .. Len(u) /\ u[p - 1] # end_array
               /\ Advances(v, u, i)
          ELSE ~Readable(Entry(at, c, i, v))
      <3> HIDE DEF at, p, c
      <3>1. LiteralBegun(at.text, i, at.from, m_buffer)
        BY <1>3, <1>5
      <3>2. IF m_buffer \in DOMAIN Literals
            THEN /\ ValueFrom(at, i) = Reading(Literals[m_buffer], at.from, {})
                 /\ at.from - 1 \in 1 .. Len(at.text) /\ at.text[at.from - 1] # end_array
                 /\ Advances(ValueFrom(at, i), at.text, i)
            ELSE ~Readable(Entry(at, c, i, ValueFrom(at, i)))
        BY <1>1, <1>2, <1>5, <1>6, <3>1, LiteralEnds
      <3>3. QED
        BY <1>5, <3>2
    <2>2. CASE m_buffer \notin DOMAIN Literals
      <3>1. Fail(ch, "invalid_value")
        BY <1>1, <1>6, <2>2 DEF Literal, make_value
      <3>2. "invalid_value" \in Outcomes \ {"completed"}
        BY DEF Outcomes, parser_error_codes
      <3> HIDE DEF at, v, c
      <3>3. QED
        BY <1>3, <2>1, <2>2, <3>1, <3>2, FailResult DEF v
    <2>3. CASE m_buffer \in DOMAIN Literals
      <3> DEFINE done == IF is_whitespace(ch) THEN Consume(ch) ELSE PutBack(ch)
      <3>1. value = Literals[m_buffer] /\ value # nullopt
        BY <2>3, LiteralsAssumption DEF make_value
      <3>2. StoreLeaf(ch, value, done)
        BY <1>1, <1>6, <3>1 DEF Literal
      <3>3. v.value = value /\ v.next = p /\ Advances(v, u, i) /\ u[p - 1] # end_array
        BY <2>1, <2>3, <3>1 DEF Reading
      <3>4. done => \/ Consume(ch) /\ ch \in Blanks
                    \/ PutBack(ch)
        BY WhitespaceIsBlank
      <3>5. IsLeft(u, p, Entry(at, c, i, v))
        BY <1>3
      <3> HIDE DEF v, value, done
      <3>6. QED
        BY <3>2, <3>3, <3>4, <3>5, StoreLeafMeans
    <2>4. QED
      BY <2>2, <2>3
  <1>7. CASE ~EndsLiteral(ch)
    <2> DEFINE b == Append(m_buffer, ch)
    <2>1. Collect(ch, "literal") /\ Consume(ch)
      BY <1>1, <1>7 DEF Literal
    <2>2. LiteralBegun(u, i, q, b)
      <3> HIDE DEF p, q, at, c
      <3>1. LiteralBegun(u, i, p + 1, Append(m_buffer, u[p]))
        BY <1>1, <1>2, <1>3, <1>7, NextOfLiteral
      <3>2. QED
        BY <1>2, <3>1
    <2>3. IsLeft(u, q, Entry(next, c, i, ValueFrom(next, i)))
      <3>1. ValueFrom(next, i) = v
        <4> HIDE DEF at, next, q
        <4>1. QED
          BY <1>5, ValueFromFurther
      <3>2. Same(v, v) /\ IsLeft(u, p, Entry(at, c, i, v))
        BY <1>3, SameSelf
      <3> HIDE DEF v
      <3>3. IsLeft(u, q, Entry(next, c, i, v))
        BY <1>4, <3>2, EntryLeft
      <3>4. QED
        BY <3>1, <3>3
    <2>4. Remains(u, m_max_levels, q, m_contexts, "literal", b, doc)
      <3> HIDE DEF b
      <3>1. QED
        BY <2>2, <2>3 DEF Remains, IsLeft, Innermost, PlaceAt
    <2>5. QED
      BY <2>1, <2>4, ConsumeResult DEF Collect
  <1>8. QED
    BY <1>6, <1>7

-----------------------------------------------------------------------------
(* Containers are opened and closed.                                       *)

\* A container is opened in which s is read, and x where it starts.
Opens(u, ch, container, x, inside, s) ==
    /\ Met(u, ch) /\ IsContainer(container) /\ Consume(ch)
    /\ m_contexts' = Append(m_contexts, [key |-> <<>>, value |-> container])
    /\ IsLeft(u, Len(text) + 1,
              Entry(PlaceAt(u, Len(text) + 1), Innermost, Len(text) + 1, x))
    /\ inside = PlaceIn(u, m_max_levels, Len(m_contexts) + 1, container, Len(text) + 2)
    /\ Same(x, Closed(container, s))
    /\ \/ /\ m_current_state' = "value" /\ container.type = "array"
          /\ s = ItemsAt(inside, ReadFrom)
       \/ m_current_state' = "before_key" /\ s = MembersAt(inside, ReadFrom)

\* A container that is opened within another one.
LEMMA OpenResult ==
    ASSUME NEW u, NEW ch, NEW container, NEW x, NEW inside, NEW s,
           Opens(u, ch, container, x, inside, s)
    PROVE  Result(u)
  <1> DEFINE n == Len(m_contexts)
             p == Len(text) + 1
             q == Len(text) + 2
             doc == Document(u, m_max_levels)
             top == [key |-> <<>>, value |-> container]
             S == m_contexts
             T == Append(m_contexts, top)
             at == PlaceAt(u, p)
             first == PlaceAt(u, 1)
             c == Innermost
             e == Entry(at, c, p, x)
             L == m_max_levels
  <1>0. /\ Met(u, ch) /\ IsContainer(container) /\ Consume(ch)
        /\ m_contexts' = Append(m_contexts, top)
        /\ IsLeft(u, p, Entry(PlaceAt(u, p), Innermost, p, x))
        /\ inside = PlaceIn(u, m_max_levels, Len(m_contexts) + 1, container, q)
        /\ Same(x, Closed(container, s))
        /\ \/ /\ m_current_state' = "value" /\ container.type = "array"
              /\ s = ItemsAt(inside, ReadFrom)
           \/ m_current_state' = "before_key" /\ s = MembersAt(inside, ReadFrom)
    BY DEF Opens
  <1>1. /\ n \in Nat \ {0} /\ IsSequence(S) /\ p \in Nat /\ q \in Nat /\ p <= q /\ p \in 1 .. q - 1
        /\ Len(text) + 1 \in Nat /\ q = p + 1 /\ p \in Nat \ {0}
    BY <1>0, MetMachine DEF IsStack
  <1>2. Len(T) = n + 1 /\ T[n + 1] = top /\ \A k \in 1 .. n : T[k] = S[k]
    <2> HIDE DEF top
    <2>1. QED
      BY <1>1, Push
  <1>3. AreContainers(T)
    <2>1. ASSUME NEW k \in 1 .. n + 1 PROVE IsContainer(T[k].value)
      <3>1. CASE k = n + 1
        BY <1>0, <1>2, <3>1
      <3>2. CASE k # n + 1
        <4>1. k \in 1 .. n
          BY <1>1, <3>2
        <4>2. T[k] = S[k] /\ IsContainer(S[k].value)
          BY <1>0, <1>2, <4>1 DEF Met, AreContainers
        <4> HIDE DEF T
        <4>3. QED
          BY <4>2
      <3>3. QED
        BY <3>1, <3>2
    <2> HIDE DEF T
    <2>2. QED
      BY <1>2, <2>1 DEF AreContainers
  <1>4. e = Entry(first, c, p, x)
    <2>1. Further(at, 1) = first
      BY <1>0, MetPlace
    <2> HIDE DEF at, first, c
    <2>2. QED
      BY <2>1, EntryFurther
  <1>5. Denotes(u, L, T, q, doc, s)
    <2>1. Denotes(u, L, S, p, doc, e) /\ e = Entry(PlaceIn(u, L, n, S[n].value, 1), S[n], p, x)
      BY <1>0, <1>4 DEF IsLeft, PlaceAt, Innermost
    <2>2. Same(e, e) /\ Len(S) = n /\ Len(T) = n + 1
      BY <1>2, SameSelf
    <2>3. Same(e, Entry(PlaceIn(u, L, n, S[n].value, 1), S[n], p, x))
      BY <2>1, <2>2
    <2>4. Same(x, Closed(T[n + 1].value, s))
      BY <1>0, <1>2
    <2> HIDE DEF T, S, n, e, p, q, doc, L
    <2>5. QED
      BY <1>1, <1>2, <2>1, <2>2, <2>3, <2>4, DenotesInside
  <1>6. Remains(u, L, q, T, m_current_state', m_buffer', doc)
    <2>1. Len(T) = n + 1 /\ T[n + 1].value = container
      BY <1>2
    <2>2. inside.from = q /\ inside = PlaceIn(u, L, n + 1, T[n + 1].value, q)
      BY <1>0, <2>1 DEF PlaceIn, Spot
    <2>3. CASE /\ m_current_state' = "value" /\ container.type = "array"
               /\ s = ItemsAt(inside, ReadFrom)
      <3>1. s = ToValue(inside, T[n + 1])
        BY <2>1, <2>3 DEF ToValue
      <3> HIDE DEF T, q, doc, n
      <3>2. QED
        BY <1>5, <2>1, <2>2, <2>3, <3>1 DEF Remains
    <2>4. CASE m_current_state' = "before_key" /\ s = MembersAt(inside, ReadFrom)
      <3> HIDE DEF T, q, doc, n
      <3>1. QED
        BY <1>5, <2>1, <2>2, <2>4 DEF Remains
    <2>5. QED
      BY <1>0, <2>3, <2>4
  <1>7. ec' = ec /\ ec \notin Outcomes /\ Len(text') + 1 = q
    BY <1>0, MetMachine, AppendProperties DEF Consume, Met
  <1>8. "completed" \in Outcomes /\ m_contexts' = T
    BY <1>0 DEF Outcomes, parser_error_codes
  <1> HIDE DEF T, q
  <1>9. QED
    BY <1>3, <1>6, <1>7, <1>8 DEF Result

\* A bracket that opens a container where a value starts.
LEMMA OpenMeans ==
    ASSUME NEW u, NEW ch, Met(u, ch), ch \in {begin_array, begin_object},
           IsLeft(u, Len(text) + 1, Entry(PlaceAt(u, Len(text) + 1), Innermost, Len(text) + 1,
                                          ValueFrom(PlaceAt(u, Len(text) + 1), Len(text) + 1))),
           IF ch = begin_array THEN Open(ch, Array(<<>>), "value")
           ELSE Open(ch, Object(<<>>), "before_key")
    PROVE  Result(u)
  <1> DEFINE n == Len(m_contexts)
             p == Len(text) + 1
             q == Len(text) + 2
             at == PlaceAt(u, p)
             x == ValueFrom(at, p)
             b == Onward(at, "value", p, {})
  <1>0. IsLeft(u, p, Entry(at, Innermost, p, x))
    OBVIOUS
  <1>1. /\ n \in Nat \ {0} /\ p \in Nat \ {0} /\ p + 1 = q /\ m_max_levels \in Nat \cup {nullopt}
    BY MetMachine
  <1>2. /\ IsWithin(at, Innermost.value) /\ at.text = u /\ at.from = p /\ at.depth = n
        /\ at.limit = m_max_levels /\ Present(at) /\ Here(at) = ch
    BY MetPlace
  <1>3. IsValueSpot(b) /\ x = ReadFrom[b] /\ b.text = at.text /\ b.from = p
        /\ b.depth = at.depth /\ b.limit = at.limit
    <2> HIDE DEF at, p
    <2>1. QED
      BY <1>1, <1>2, ValueSpot
  <1> HIDE DEF b
  <1>4. Present(b) /\ Here(b) = ch
    BY <1>2, <1>3 DEF Present, Here
  <1>5. MayOpen(b) <=> ~(m_max_levels # nullopt /\ n = m_max_levels)
    <2>1. m_max_levels # nullopt => n <= m_max_levels
      BY DEF Met, Core, WithinMaxLevels
    <2>2. MayOpen(b) <=> (m_max_levels # nullopt => n < m_max_levels)
      BY <1>2, <1>3 DEF MayOpen
    <2>3. QED
      BY <1>1, <2>1, <2>2
  <1>6. CASE m_max_levels # nullopt /\ n = m_max_levels
    <2>1. Fail(ch, "nesting_level_too_deep")
      BY <1>6 DEF Open
    <2>2. ~Readable(x)
      BY <1>3, <1>4, <1>5, <1>6, TooDeep
    <2>3. "nesting_level_too_deep" \in Outcomes \ {"completed"}
      BY DEF Outcomes, parser_error_codes
    <2> HIDE DEF x
    <2>4. QED
      BY <1>0, <1>1, <2>1, <2>2, <2>3, EntryFails
  <1>7. CASE ~(m_max_levels # nullopt /\ n = m_max_levels)
    <2>1. CASE ch = begin_array
      <3> DEFINE a == Inward(b, "items")
                 container == Array(<<>>)
                 s == ItemsAt(a, ReadFrom)
      <3>1. /\ m_contexts' = Append(m_contexts, [key |-> <<>>, value |-> container])
            /\ m_current_state' = "value" /\ Consume(ch)
        BY <1>7, <2>1 DEF Open
      <3>2. IsWithin(a, container) /\ Same(x, Closed(container, s))
        BY <1>3, <1>4, <1>5, <1>7, <2>1, ArrayBegins
      <3>3. /\ a.text = b.text /\ a.from = b.from + 1 /\ a.depth = b.depth + 1
            /\ a.limit = b.limit
        BY InwardParts
      <3>4. IsContainer(container) /\ container.type = "array"
        BY EmptyContainers
      <3> HIDE DEF a, container
      <3>5. a = PlaceIn(u, m_max_levels, n + 1, container, q)
        BY <1>1, <1>2, <1>3, <3>2, <3>3, WithinIsPlace
      <3> HIDE DEF x
      <3>6. QED
        <4>1. Opens(u, ch, container, x, a, s)
          BY <1>0, <3>1, <3>2, <3>4, <3>5 DEF Opens
        <4> HIDE DEF s
        <4>2. QED
          BY <4>1, OpenResult
    <2>2. CASE ch = begin_object
      <3> DEFINE a == Inward(b, "members")
                 container == Object(<<>>)
                 s == MembersAt(a, ReadFrom)
      <3>0. begin_object # begin_array
        BY DEF begin_object, begin_array
      <3>1. /\ m_contexts' = Append(m_contexts, [key |-> <<>>, value |-> container])
            /\ m_current_state' = "before_key" /\ Consume(ch)
        BY <1>7, <2>2, <3>0 DEF Open
      <3>2. IsWithin(a, container) /\ Same(x, Closed(container, s))
        BY <1>3, <1>4, <1>5, <1>7, <2>2, ObjectBegins
      <3>3. /\ a.text = b.text /\ a.from = b.from + 1 /\ a.depth = b.depth + 1
            /\ a.limit = b.limit
        BY InwardParts
      <3>4. IsContainer(container)
        BY EmptyContainers
      <3> HIDE DEF a, container
      <3>5. a = PlaceIn(u, m_max_levels, n + 1, container, q)
        BY <1>1, <1>2, <1>3, <3>2, <3>3, WithinIsPlace
      <3> HIDE DEF x
      <3>6. QED
        <4>1. Opens(u, ch, container, x, a, s)
          BY <1>0, <3>1, <3>2, <3>4, <3>5 DEF Opens
        <4> HIDE DEF s
        <4>2. QED
          BY <4>1, OpenResult
    <2>3. QED
      BY <2>1, <2>2
  <1>8. QED
    BY <1>6, <1>7

\* parser_state::value
LEMMA ValueMeans ==
    ASSUME NEW u, NEW ch, Met(u, ch), Value(ch)
    PROVE  Result(u)
  <1> DEFINE p == Len(text) + 1
             q == Len(text) + 2
             at == PlaceAt(u, p)
             next == PlaceAt(u, q)
             doc == Document(u, m_max_levels)
             c == Innermost
             x == ValueFrom(at, p)
  <1>1. m_current_state = "value" /\ m_buffer = <<>> /\ ahead = <<>> /\ m_contexts # <<>>
    BY WhileReading DEF Met, Value, AfterStates
  <1>2. /\ q \in Nat \ {0} /\ p \in Nat \ {0} /\ q = p + 1 /\ Len(u) \in Nat
        /\ u \in Texts /\ p \in 1 .. Len(u) /\ u[p] = ch /\ IsContainer(c.value)
    BY MetMachine DEF Met
  <1>3. /\ IsWithin(at, c.value) /\ at.text = u /\ at.from = p /\ Present(at) /\ Here(at) = ch
        /\ Further(at, q) = next
    BY MetPlace
  <1>4. IsLeft(u, p, ToValue(at, c))
    BY <1>1 DEF Met, Remains, IsLeft, Innermost, PlaceAt
  <1>5. ASSUME ch \notin Blanks \cup {end_array}
        PROVE  IsLeft(u, p, Entry(at, c, p, x))
    <2>1. ToValue(at, c) = Entry(at, c, at.from, ValueFrom(at, at.from))
      <3>1. at.from \in 1 .. Len(at.text) /\ at.text[at.from] \notin Blanks \cup {end_array}
        BY <1>2, <1>3, <1>5
      <3> HIDE DEF at, c, p
      <3>2. QED
        BY <1>3, <3>1, ValueComes
    <2>2. QED
      BY <1>3, <1>4, <2>1
  <1>6. CASE ch \in {begin_array, begin_object}
    <2>1. ch \notin Blanks \cup {end_array}
      BY <1>6, NotBlank DEF begin_array, begin_object, end_array
    <2>2. IF ch = begin_array THEN Open(ch, Array(<<>>), "value")
          ELSE Open(ch, Object(<<>>), "before_key")
      BY <1>6 DEF Value, begin_array, begin_object, end_array, string_begin_end
    <2>3. IsLeft(u, p, Entry(at, c, p, x))
      BY <1>5, <2>1
    <2>4. QED
      BY <1>6, <2>2, <2>3, OpenMeans
  <1>7. CASE ch = end_array
    <2>1. Reread(ch, "after_value_array")
      BY <1>1, <1>7 DEF Value, begin_array, begin_object, end_array, string_begin_end
    <2> DEFINE e == Reading(<<>>, q, {})
    <2>2. IsLeft(u, p, e)
      <3>1. at.from \in 1 .. Len(at.text) /\ at.text[at.from] = end_array
        BY <1>2, <1>3, <1>7
      <3> HIDE DEF at, c
      <3>2. Same(ToValue(at, c), Reading(<<>>, at.from + 1, {}))
        BY <1>3, <3>1, ValueIsBracket
      <3>3. Same(ToValue(at, c), e)
        BY <1>2, <1>3, <3>2
      <3> HIDE DEF e
      <3>4. QED
        BY <1>4, <3>3, LeftBehind
    <2>3. c.value.type = "array" => MoreItemsAt(at, ReadFrom) = e
      <3> HIDE DEF at, c
      <3>1. c.value.type = "array" => MoreItemsAt(at, ReadFrom) = Reading(<<>>, at.from + 1, {})
        BY <1>3, <1>7, BetweenItems
      <3>2. QED
        BY <1>2, <1>3, <3>1
    <2>4. Remains(u, m_max_levels, p, m_contexts, "after_value_array", m_buffer, doc)
      <3>1. Reading(<<>>, p + 1, {}) = e
        BY <1>2
      <3> HIDE DEF e
      <3>2. QED
        BY <2>2, <2>3, <3>1 DEF Remains, IsLeft, Innermost, PlaceAt
    <2>5. QED
      BY <2>1, <2>4, PutBackResult DEF Reread, Goto
  <1>8. CASE ch = string_begin_end
    <2> DEFINE r == Quoted[Mark(u, q)]
               s == Behind(<<>>, r)
               b == Onward(at, "value", p, {})
    <2>1. Goto("string_value") /\ Consume(ch)
      BY <1>1, <1>8 DEF Value, InContainer, begin_array, begin_object, end_array, string_begin_end
    <2>2. IsLeft(u, p, Entry(at, c, p, x))
      BY <1>5, <1>8, NotBlank DEF end_array, string_begin_end
    <2>3. IsValueSpot(b) /\ x = ReadFrom[b] /\ b.text = at.text /\ b.from = p
      <3> HIDE DEF at, p, c
      <3>1. QED
        BY <1>2, <1>3, ValueSpot
    <2>4. x = StringOf(r)
      <3> HIDE DEF b
      <3>1. Present(b) /\ Here(b) = string_begin_end /\ Mark(b.text, b.from + 1) = Mark(u, q)
        BY <1>2, <1>3, <1>8, <2>3 DEF Present, Here
      <3>2. ReadFrom[b] = StringOf(Quoted[Mark(b.text, b.from + 1)])
        BY <2>3, <3>1, StringBegins
      <3>3. QED
        BY <2>3, <3>1, <3>2
    <2>5. Same(r, s)
      <3> HIDE DEF q
      <3>1. QED
        BY <1>2, BehindNothing
    <2>6. IsLeft(u, q, Entry(next, c, p, StringOf(s)))
      <3> HIDE DEF r, s, x
      <3>1. Same(x, StringOf(s))
        BY <2>4, <2>5, SameString
      <3>2. QED
        BY <1>2, <2>2, <3>1, EntryLeft
    <2>7. Remains(u, m_max_levels, q, m_contexts, "string_value", m_buffer, doc)
      <3>1. p \in 1 .. q - 1
        BY <1>2
      <3>2. QED
        BY <1>1, <2>6, <3>1 DEF Remains, IsLeft, Innermost, PlaceAt
    <2>8. QED
      BY <2>1, <2>7, ConsumeResult DEF Goto
  <1>9. CASE ch \notin {begin_array, begin_object, end_array, string_begin_end}
    <2>1. CASE ch \in Blanks
      <3>1. Skip(ch)
        BY <1>9, <2>1, WhitespaceIsBlank DEF Value
      <3>2. ToValue(at, c) = ToValue(next, c)
        <4>1. at.from \in 1 .. Len(at.text) /\ at.text[at.from] \in Blanks /\ at.from + 1 = q
          BY <1>2, <1>3, <2>1
        <4> HIDE DEF at, c, next, q
        <4>2. ToValue(at, c) = ToValue(Further(at, at.from + 1), c)
          BY <1>3, <4>1, ValueLater
        <4>3. QED
          BY <1>3, <4>1, <4>2
      <3>3. IsLeft(u, q, ToValue(next, c))
        <4> HIDE DEF at, c, next
        <4>1. Same(ToValue(at, c), ToValue(next, c))
          BY <3>2, SameSelf
        <4>2. QED
          BY <1>4, <4>1, LeftBehind
      <3>4. Remains(u, m_max_levels, q, m_contexts, "value", m_buffer, doc)
        BY <3>3 DEF Remains, IsLeft, Innermost, PlaceAt
      <3>5. QED
        BY <1>1, <3>1, <3>4, BlankStays
    <2>2. CASE ch \notin Blanks
      <3> DEFINE b == Append(<<>>, ch)
      <3>1. Collect(ch, "literal") /\ Consume(ch)
        BY <1>1, <1>9, <2>2, WhitespaceIsBlank DEF Value, InContainer
      <3>2. LiteralBegun(u, p, q, b)
        <4>1. u[p] \notin Blanks \cup {begin_array, begin_object, end_array, string_begin_end}
          BY <1>2, <1>9, <2>2
        <4> HIDE DEF p, q
        <4>2. LiteralBegun(u, p, p + 1, Append(<<>>, u[p]))
          BY <1>2, <4>1, FirstOfLiteral
        <4>3. QED
          BY <1>2, <4>2
      <3>3. IsLeft(u, q, Entry(next, c, p, ValueFrom(next, p)))
        <4>1. ValueFrom(next, p) = x
          <5> HIDE DEF at, next, q, p
          <5>1. QED
            BY <1>3, ValueFromFurther
        <4>2. Same(x, x) /\ IsLeft(u, p, Entry(at, c, p, x))
          BY <1>5, <1>9, <2>2, SameSelf
        <4> HIDE DEF x
        <4>3. IsLeft(u, q, Entry(next, c, p, x))
          BY <1>2, <4>2, EntryLeft
        <4>4. QED
          BY <4>1, <4>3
      <3>4. Remains(u, m_max_levels, q, m_contexts, "literal", b, doc)
        <4>1. p \in Nat
          BY <1>2
        <4> HIDE DEF b
        <4>2. QED
          BY <3>2, <3>3, <4>1 DEF Remains, IsLeft, Innermost, PlaceAt
      <3>5. QED
        BY <1>1, <3>1, <3>4, ConsumeResult DEF Collect
    <2>3. QED
      BY <2>1, <2>2
  <1>10. QED
    BY <1>6, <1>7, <1>8, <1>9

\* The outermost container is closed.
LEMMA CloseRootMeans ==
    ASSUME NEW u, NEW ch, Met(u, ch), CloseRoot(ch),
           IsLeft(u, Len(text) + 1, Reading(<<>>, Len(text) + 2, {}))
    PROVE  Result(u)
  <1> DEFINE q == Len(text) + 2
             doc == Document(u, m_max_levels)
             c == Innermost.value
             r == Reading(<<>>, q, {})
  <1>1. /\ Len(m_contexts) = 1 /\ root' = c /\ ec' = "completed" /\ text' = Append(text, ch)
    BY MetMachine DEF CloseRoot, Return
  <1>2. Len(text') + 1 = q
    BY <1>1, MetMachine, AppendProperties DEF Met
  <1>3. Closed(c, r).value = c /\ Closed(c, r).next = q
    <2>1. IsContainer(c)
      BY MetMachine
    <2> HIDE DEF c, q
    <2>2. QED
      BY <2>1, ClosedNothing
  <1>4. Same(doc, Closed(c, r))
    <2>1. Denotes(u, m_max_levels, m_contexts, Len(text) + 1, doc, r)
      BY DEF IsLeft
    <2>2. c = m_contexts[1].value
      BY <1>1 DEF Innermost
    <2> HIDE DEF r, doc, c
    <2>3. QED
      BY <1>1, <2>1, <2>2, DenotesWhole
  <1>5. q # 0
    BY MetMachine
  <1>6. doc.value = root' /\ doc.next = q
    <2> HIDE DEF r, doc, c, q
    <2>1. QED
      BY <1>1, <1>3, <1>4, <1>5, SameBack DEF Same, Readable
  <1>7. "completed" \in Outcomes
    BY DEF Outcomes, parser_error_codes
  <1>8. QED
    BY <1>1, <1>2, <1>6, <1>7 DEF Result

\* A container is closed in another one: it is an entry that has been read.
LEMMA ClosedInside ==
    ASSUME NEW u, NEW ch, Met(u, ch), Len(m_contexts) > 1,
           IsLeft(u, Len(text) + 1, Reading(<<>>, Len(text) + 2, {}))
    PROVE  \E item : /\ item.value = Innermost.value /\ item.next = Len(text) + 2
                     /\ IsStored(Front(m_contexts), u, m_max_levels,
                                 Document(u, m_max_levels), item)
  <1> DEFINE n == Len(m_contexts) - 1
             p == Len(text) + 1
             q == Len(text) + 2
             L == m_max_levels
             doc == Document(u, m_max_levels)
             S == m_contexts
             T == Front(m_contexts)
             r == Reading(<<>>, q, {})
             item == Closed(S[n + 1].value, r)
  <1>1. /\ n \in Nat \ {0} /\ Len(S) = n + 1 /\ S[n + 1] = Innermost /\ IsStack(S) /\ S # <<>>
        /\ p \in Nat /\ u \in Texts /\ L \in Nat \cup {nullopt} /\ IsContainer(S[n + 1].value)
    BY MetMachine DEF Innermost
  <1>2. Len(T) = n /\ \A k \in 1 .. n : T[k] = S[k]
    BY <1>1, Pop DEF IsStack
  <1>3. IsStack(T)
    BY <1>1, PopStack
  <1>4. AreContainers(T)
    <2>1. \A k \in 1 .. n : k \in 1 .. Len(S)
      BY <1>1
    <2>2. QED
      BY <1>2, <2>1 DEF Met, AreContainers
  <1>5. T # <<>> /\ T[n].key \in Texts
    <2>1. T # <<>>
      BY <1>1, <1>2, EmptySeq
    <2>2. IsContext(T[n])
      BY <1>1, <1>2, <1>3 DEF IsStack
    <2>3. QED
      BY <2>1, <2>2, TextsOfChars DEF IsContext
  <1>6. item.value = S[n + 1].value /\ item.next = q
    <2> DEFINE c == S[n + 1].value
    <2> HIDE DEF c, q
    <2>1. QED
      BY <1>1, ClosedNothing DEF c
  <1>7. PICK i \in 1 .. p - 1 :
            Denotes(u, L, T, p, doc, Entry(PlaceIn(u, L, n, T[n].value, 1), T[n], i, item))
    <2>1. Denotes(u, L, S, p, doc, r)
      BY DEF IsLeft
    <2> HIDE DEF n, p, L, doc, S, T, r
    <2>2. QED
      BY <1>1, <1>2, <2>1, DenotesOutside
  <1>8. Advances(item, u, i) /\ p <= item.next /\ i \in Nat
    <2>1. p \in 1 .. Len(u) /\ Len(u) \in Nat /\ Len(text) \in Nat
      BY MetMachine DEF Met
    <2> HIDE DEF item
    <2>2. QED
      BY <1>6, <2>1 DEF Advances
  <1>9. ToStore(T, u, L, p, doc, 1, i, item)
    <2> HIDE DEF n, p, L, doc, S, T, item
    <2>1. QED
      BY <1>1, <1>2, <1>3, <1>4, <1>5, <1>7, <1>8 DEF ToStore
  <1>10. IsStored(T, u, L, doc, item)
    <2> HIDE DEF n, p, L, doc, S, T, item
    <2>1. QED
      BY <1>9, StoredMeaning
  <1>11. QED
    <2> HIDE DEF item
    <2>1. QED
      BY <1>1, <1>6, <1>10

\* A container that is closed within another one.
LEMMA CloseInnerMeans ==
    ASSUME NEW u, NEW ch, Met(u, ch), Len(m_contexts) > 1,
           IsLeft(u, Len(text) + 1, Reading(<<>>, Len(text) + 2, {})),
           NEW T, T = Front(m_contexts), NEW child, child = Last(m_contexts).value,
           m_contexts' = Stored(T, child),
           \/ /\ StoreIn(T, child).err = "more_data_needed" \/ ch = end_array
              /\ Consume(ch) /\ m_current_state' = StoreIn(T, child).next_state
           \/ /\ StoreIn(T, child).err # "more_data_needed" /\ ch # end_array
              /\ Return(ch, StoreIn(T, child).err)
    PROVE  Result(u)
  <1> DEFINE n == Len(T)
             p == Len(text) + 1
             q == Len(text) + 2
             L == m_max_levels
             doc == Document(u, m_max_levels)
             N == Stored(T, child)
             res == StoreIn(T, child)
             d == N[n].value
             after == AfterEntry(PlaceIn(u, L, n, d, q), d)
  <1>1. /\ IsStack(T) /\ n \in Nat \ {0} /\ n \in Nat /\ T # <<>> /\ child = Innermost.value
        /\ Len(u) \in Nat /\ u[p] = ch
    <2>1. IsStack(m_contexts) /\ m_contexts # <<>> /\ child = Innermost.value
          /\ Len(m_contexts) \in Nat /\ Len(u) \in Nat /\ u[p] = ch
      BY MetMachine DEF Met
    <2>2. IsStack(T) /\ n = Len(m_contexts) - 1
      BY <2>1, PopStack
    <2>3. QED
      BY <2>1, <2>2, EmptySeq
  <1>2. PICK item : /\ item.value = child /\ item.next = q
                    /\ IsStored(T, u, L, doc, item)
    BY <1>1, ClosedInside
  <1>3. q - 1 = p /\ p \in Nat /\ q \in Nat
    BY MetMachine
  <1>4. /\ AreContainers(N) /\ Len(N) = n
        /\ res.next_state = IF d.type = "array" THEN "after_value_array"
                                                ELSE "after_value_object"
        /\ res.err = "more_data_needed" \/ ch = end_array => Denotes(u, L, N, q, doc, after)
        /\ res.err # "more_data_needed" /\ ch # end_array => ~Readable(doc)
    <2> HIDE DEF p, q, L, doc
    <2>1. QED
      BY <1>1, <1>2, <1>3 DEF IsStored
  <1>5. CASE /\ res.err = "more_data_needed" \/ ch = end_array
             /\ Consume(ch) /\ m_current_state' = res.next_state
    <2>1. Remains(u, L, q, N, m_current_state', m_buffer', doc)
      <3>1. Denotes(u, L, N, q, doc, after) /\ Len(N) = n
        BY <1>4, <1>5
      <3>2. m_current_state' = IF N[n].value.type = "array" THEN "after_value_array"
                                                            ELSE "after_value_object"
        BY <1>4, <1>5
      <3> HIDE DEF N, n, q, L, doc
      <3>3. QED
        BY <3>1, <3>2, AfterRemains
    <2>2. ec' = ec /\ ec \notin Outcomes /\ Len(text') + 1 = q
      BY <1>5, MetMachine, AppendProperties DEF Consume, Met
    <2>3. "completed" \in Outcomes
      BY DEF Outcomes, parser_error_codes
    <2> HIDE DEF N, q
    <2>4. m_contexts' = N
      BY DEF N
    <2>5. QED
      BY <1>4, <2>1, <2>2, <2>3, <2>4 DEF Result
  <1>6. CASE res.err # "more_data_needed" /\ ch # end_array /\ Return(ch, res.err)
    <2>1. ec' = res.err /\ res.err = "key_already_exists"
      BY <1>1, <1>6, StoreInTop DEF Return
    <2>2. ec' \in Outcomes \ {"completed"}
      BY <2>1 DEF Outcomes, parser_error_codes
    <2>3. QED
      BY <1>4, <1>6, <2>2 DEF Result
  <1>7. QED
    BY <1>5, <1>6

\* A bracket closes the innermost container.
LEMMA CloseMeans ==
    ASSUME NEW u, NEW ch, Met(u, ch),
           IsLeft(u, Len(text) + 1, Reading(<<>>, Len(text) + 2, {})),
           \/ CloseRoot(ch)
           \/ ch = end_array /\ EndArray(ch)
           \/ ch = end_object /\ EndObject(ch)
    PROVE  Result(u)
  <1> DEFINE T == Front(m_contexts)
             child == Last(m_contexts).value
  <1>1. CASE CloseRoot(ch)
    BY <1>1, CloseRootMeans
  <1>2. CASE ch = end_array /\ EndArray(ch)
    <2>1. /\ Len(m_contexts) > 1 /\ m_contexts' = Stored(T, child)
          /\ Consume(ch) /\ m_current_state' = StoreIn(T, child).next_state
      BY <1>2 DEF EndArray
    <2> HIDE DEF T, child
    <2>2. QED
      BY <1>2, <2>1, CloseInnerMeans DEF T, child
  <1>3. CASE ch = end_object /\ EndObject(ch)
    <2>0. ch # end_array
      BY <1>3 DEF end_array, end_object
    <2>1. /\ Len(m_contexts) > 1 /\ m_contexts' = Stored(T, child)
          /\ \/ /\ StoreIn(T, child).err = "more_data_needed"
                /\ Consume(ch) /\ m_current_state' = StoreIn(T, child).next_state
             \/ /\ StoreIn(T, child).err # "more_data_needed"
                /\ Return(ch, StoreIn(T, child).err)
      BY <1>3 DEF EndObject
    <2> HIDE DEF T, child
    <2>2. QED
      BY <2>0, <2>1, CloseInnerMeans DEF T, child
  <1>4. QED
    BY <1>1, <1>2, <1>3

\* parser_state::after_value_array
LEMMA AfterValueArrayMeans ==
    ASSUME NEW u, NEW ch, Met(u, ch), AfterValueArray(ch)
    PROVE  Result(u)
  <1> DEFINE p == Len(text) + 1
             q == Len(text) + 2
             at == PlaceAt(u, p)
             next == PlaceAt(u, q)
             doc == Document(u, m_max_levels)
             c == Innermost
             more == MoreItemsAt(at, ReadFrom)
  <1>1. m_current_state = "after_value_array" /\ (c.value.type = "array" \/ ch = end_array)
    BY MetMachine, WhileReading DEF Met, AfterValueArray, Inside
  <1>2. /\ IsWithin(at, c.value) /\ at.text = u /\ at.from = p
        /\ Present(at) /\ Here(at) = ch /\ Further(at, q) = next /\ at.from + 1 = q
    BY MetPlace, MetMachine
  <1>3. IF c.value.type = "array" THEN IsLeft(u, p, more)
        ELSE IsLeft(u, p, Reading(<<>>, q, {}))
    <2>1. p + 1 = q
      BY <1>2
    <2>2. IF c.value.type = "array" THEN IsLeft(u, p, more)
          ELSE IsLeft(u, p, Reading(<<>>, p + 1, {}))
      BY <1>1 DEF Met, Remains, IsLeft, Innermost, PlaceAt
    <2>3. QED
      BY <2>1, <2>2
  <1>4. c.value.type = "array" =>
            /\ ch \in Blanks => more = MoreItemsAt(next, ReadFrom)
            /\ ch = value_separator => more = ToValue(next, c)
            /\ ch = end_array => more = Reading(<<>>, q, {})
            /\ ch \notin Blanks \cup {value_separator, end_array} => ~Readable(more)
    <2> HIDE DEF at, next, q, c
    <2>1. QED
      BY <1>2, BetweenItems
  <1>5. CASE ch = end_array
    <2>1. CloseRoot(ch) \/ EndArray(ch)
      BY <1>5 DEF AfterValueArray, end_array, value_separator
    <2>2. IsLeft(u, p, Reading(<<>>, q, {}))
      BY <1>3, <1>4, <1>5
    <2>3. QED
      BY <1>5, <2>1, <2>2, CloseMeans
  <1>6. CASE ch = value_separator
    <2>0. c.value.type = "array"
      BY <1>1, <1>6 DEF end_array, value_separator
    <2>1. Goto("value") /\ Consume(ch)
      BY <1>6 DEF AfterValueArray, end_array, value_separator
    <2>2. IsLeft(u, q, ToValue(next, c))
      <3> HIDE DEF at, next, more
      <3>1. Same(more, ToValue(next, c))
        BY <1>4, <1>6, <2>0, SameSelf
      <3>2. QED
        BY <1>3, <2>0, <3>1, LeftBehind
    <2>3. Remains(u, m_max_levels, q, m_contexts, "value", m_buffer, doc)
      BY <2>2 DEF Remains, IsLeft, Innermost, PlaceAt
    <2>4. QED
      BY <2>1, <2>3, ConsumeResult DEF Goto
  <1>7. CASE ch \notin {end_array, value_separator}
    <2>0. c.value.type = "array" /\ SkipWhitespaceElse(ch, "illegal_delimiter")
      BY <1>1, <1>7 DEF AfterValueArray
    <2>1. CASE ch \in Blanks
      <3>1. Skip(ch)
        BY <2>0, <2>1, WhitespaceIsBlank DEF SkipWhitespaceElse
      <3>2. IsLeft(u, q, MoreItemsAt(next, ReadFrom))
        <4> HIDE DEF at, next, more
        <4>1. Same(more, MoreItemsAt(next, ReadFrom))
          BY <1>4, <2>0, <2>1, SameSelf
        <4>2. QED
          BY <1>3, <2>0, <4>1, LeftBehind
      <3>3. Remains(u, m_max_levels, q, m_contexts, "after_value_array", m_buffer, doc)
        BY <2>0, <3>2 DEF Remains, IsLeft, Innermost, PlaceAt
      <3>4. QED
        BY <1>1, <3>1, <3>3, BlankStays
    <2>2. CASE ch \notin Blanks
      <3>1. Fail(ch, "illegal_delimiter")
        BY <2>0, <2>2, WhitespaceIsBlank DEF SkipWhitespaceElse
      <3>2. ~Readable(more)
        BY <1>4, <1>7, <2>0, <2>2
      <3>3. "illegal_delimiter" \in Outcomes \ {"completed"}
        BY DEF Outcomes, parser_error_codes
      <3> HIDE DEF more
      <3>4. QED
        BY <1>3, <2>0, <3>1, <3>2, <3>3, FailResult
    <2>3. QED
      BY <2>1, <2>2
  <1>8. QED
    BY <1>5, <1>6, <1>7

\* parser_state::after_value_object
LEMMA AfterValueObjectMeans ==
    ASSUME NEW u, NEW ch, Met(u, ch), AfterValueObject(ch)
    PROVE  Result(u)
  <1> DEFINE p == Len(text) + 1
             q == Len(text) + 2
             at == PlaceAt(u, p)
             next == PlaceAt(u, q)
             doc == Document(u, m_max_levels)
             c == Innermost
             more == MoreMembersAt(at, ReadFrom)
  <1>1. m_current_state = "after_value_object" /\ c.value.type = "object"
    BY MetMachine, WhileReading DEF Met, AfterValueObject, Inside
  <1>2. /\ IsWithin(at, c.value) /\ at.text = u /\ at.from = p
        /\ Present(at) /\ Here(at) = ch /\ Further(at, q) = next /\ at.from + 1 = q
    BY MetPlace, MetMachine
  <1>3. IsLeft(u, p, more)
    BY <1>1 DEF Met, Remains, IsLeft, Innermost, PlaceAt
  <1>4. /\ ch \in Blanks => more = MoreMembersAt(next, ReadFrom)
        /\ ch = value_separator => more = MembersAt(next, ReadFrom)
        /\ ch = end_object => more = Reading(<<>>, q, {})
        /\ ch \notin Blanks \cup {value_separator, end_object} => ~Readable(more)
    <2> HIDE DEF at, next, q, c
    <2>1. QED
      BY <1>1, <1>2, BetweenMembers
  <1>5. CASE ch = end_object
    <2>1. CloseRoot(ch) \/ EndObject(ch)
      BY <1>5 DEF AfterValueObject, end_object, value_separator
    <2>2. IsLeft(u, p, Reading(<<>>, q, {}))
      BY <1>3, <1>4, <1>5
    <2>3. QED
      BY <1>5, <2>1, <2>2, CloseMeans
  <1>6. CASE ch = value_separator
    <2>1. Goto("before_key") /\ Consume(ch)
      BY <1>6 DEF AfterValueObject, end_object, value_separator
    <2>2. IsLeft(u, q, MembersAt(next, ReadFrom))
      <3> HIDE DEF at, next, more
      <3>1. Same(more, MembersAt(next, ReadFrom))
        BY <1>4, <1>6, SameSelf
      <3>2. QED
        BY <1>3, <3>1, LeftBehind
    <2>3. Remains(u, m_max_levels, q, m_contexts, "before_key", m_buffer, doc)
      BY <2>2 DEF Remains, IsLeft, Innermost, PlaceAt
    <2>4. QED
      BY <2>1, <2>3, ConsumeResult DEF Goto
  <1>7. CASE ch \notin {end_object, value_separator}
    <2>0. SkipWhitespaceElse(ch, "illegal_delimiter")
      BY <1>1, <1>7 DEF AfterValueObject
    <2>1. CASE ch \in Blanks
      <3>1. Skip(ch)
        BY <2>0, <2>1, WhitespaceIsBlank DEF SkipWhitespaceElse
      <3>2. IsLeft(u, q, MoreMembersAt(next, ReadFrom))
        <4> HIDE DEF at, next, more
        <4>1. Same(more, MoreMembersAt(next, ReadFrom))
          BY <1>4, <2>1, SameSelf
        <4>2. QED
          BY <1>3, <4>1, LeftBehind
      <3>3. Remains(u, m_max_levels, q, m_contexts, "after_value_object", m_buffer, doc)
        BY <3>2 DEF Remains, IsLeft, Innermost, PlaceAt
      <3>4. QED
        BY <1>1, <3>1, <3>3, BlankStays
    <2>2. CASE ch \notin Blanks
      <3>1. Fail(ch, "illegal_delimiter")
        BY <2>0, <2>2, WhitespaceIsBlank DEF SkipWhitespaceElse
      <3>2. ~Readable(more)
        BY <1>4, <1>7, <2>2
      <3>3. "illegal_delimiter" \in Outcomes \ {"completed"}
        BY DEF Outcomes, parser_error_codes
      <3> HIDE DEF more
      <3>4. QED
        BY <1>3, <3>1, <3>2, <3>3, FailResult
    <2>3. QED
      BY <2>1, <2>2
  <1>8. QED
    BY <1>5, <1>6, <1>7

-----------------------------------------------------------------------------
(* An iteration outside of any container.                                  *)

\* Behind white space alone, a document begins with the character that is met.
LEMMA DocumentBegins ==
    ASSUME NEW u \in Texts, NEW p \in 1 .. Len(u), \A j \in 1 .. p - 1 : u[j] \in Blanks,
           u[p] \notin Blanks, NEW limit
    PROVE  Document(u, limit) =
               IF u[p] \in {begin_array, begin_object}
               THEN ReadFrom[Spot("value", u, p, 0, limit, {})] ELSE Unreadable
  <1> DEFINE n == NextToken(u, 1)
  <1>1. Len(u) \in Nat /\ DOMAIN u = 1 .. Len(u) /\ 1 \in Nat \ {0} /\ p \in Nat
    BY LenProperties DEF Texts
  <1>2. /\ n \in 1 .. Len(u) + 1
        /\ n <= Len(u) => u[n] \notin Blanks
        /\ \A j \in 1 .. Len(u) : j < n => u[j] \in Blanks
    BY <1>1, NextTokenIsFirst
  <1>3. n = p
    <2> HIDE DEF n
    <2>1. ~(n < p)
      BY <1>1, <1>2
    <2>2. ~(p < n)
      BY <1>1, <1>2
    <2>3. QED
      BY <1>1, <1>2, <2>1, <2>2
  <1>4. \A ch : IsAt(u, p, ch) <=> u[p] = ch
    BY <1>1 DEF IsAt
  <1>5. QED
    BY <1>3, <1>4 DEF Document

\* White space alone is no document.
LEMMA NoDocument ==
    ASSUME NEW u \in Texts, \A j \in 1 .. Len(u) : u[j] \in Blanks, NEW limit
    PROVE  ~Readable(Document(u, limit))
  <1> DEFINE n == NextToken(u, 1)
  <1>1. Len(u) \in Nat /\ DOMAIN u = 1 .. Len(u) /\ 1 \in Nat \ {0}
    BY LenProperties DEF Texts
  <1>2. n \in 1 .. Len(u) + 1 /\ (n <= Len(u) => u[n] \notin Blanks)
    BY <1>1, NextTokenIsFirst
  <1> HIDE DEF n
  <1>3. n \notin 1 .. Len(u)
    BY <1>1, <1>2
  <1>4. \A ch : ~IsAt(u, n, ch)
    BY <1>1, <1>3 DEF IsAt
  <1>5. Document(u, limit) = Unreadable
    BY <1>4 DEF Document, n
  <1>6. QED
    BY <1>5, UnreadableIs

\* The machine is about to read a character of u before the first container.
MetOutside(u, ch) ==
    /\ Inv /\ m_contexts = <<>> /\ Iteration(ch)
    /\ ch \in Chars /\ u \in Seq(Chars)
    /\ Len(text) + 1 \in 1 .. Len(u) /\ u[Len(text) + 1] = ch
    /\ \A j \in 1 .. Len(text) : u[j] = text[j]

\* The outermost container is opened, and s is read in it.
OpensFirst(u, ch, container, s) ==
    LET inside == PlaceIn(u, m_max_levels, 1, container, Len(text) + 2)
    IN  /\ IsContainer(container) /\ Consume(ch)
        /\ m_contexts' = Append(m_contexts, [key |-> <<>>, value |-> container])
        /\ Same(Document(u, m_max_levels), Closed(container, s))
        /\ \/ /\ m_current_state' = "value" /\ container.type = "array"
              /\ s = ItemsAt(inside, ReadFrom)
           \/ m_current_state' = "before_key" /\ s = MembersAt(inside, ReadFrom)

\* The outermost container is opened.
LEMMA OpenFirst ==
    ASSUME NEW u, NEW ch, MetOutside(u, ch), NEW container, NEW s,
           OpensFirst(u, ch, container, s)
    PROVE  Result(u)
  <1> DEFINE q == Len(text) + 2
             doc == Document(u, m_max_levels)
             top == [key |-> <<>>, value |-> container]
             T == Append(m_contexts, top)
             L == m_max_levels
             inside == PlaceIn(u, L, 1, container, q)
  <1>0. /\ IsContainer(container) /\ Consume(ch) /\ m_contexts' = T /\ Same(doc, Closed(container, s))
        /\ \/ /\ m_current_state' = "value" /\ container.type = "array"
              /\ s = ItemsAt(inside, ReadFrom)
           \/ m_current_state' = "before_key" /\ s = MembersAt(inside, ReadFrom)
    BY DEF OpensFirst
  <1>1. m_contexts = <<>> /\ ec \notin Outcomes /\ text \in Seq(Chars) /\ Len(text) \in Nat /\ ch \in Chars
    BY LenProperties DEF MetOutside, Iteration, Reads, Inv, Core, TypeOK, Outcomes, parser_error_codes
  <1>2. Len(T) = 1 /\ T[1] = top /\ top.value = container
    <2>1. IsSequence(<<>>) /\ Len(<<>>) = 0
      BY EmptySeq DEF IsSequence
    <2>2. top.value = container
      OBVIOUS
    <2> HIDE DEF top
    <2>3. QED
      BY <1>1, <2>1, <2>2, Push
  <1>3. AreContainers(T)
    <2> HIDE DEF T, top
    <2>1. QED
      BY <1>0, <1>2 DEF AreContainers
  <1>4. Denotes(u, L, T, q, doc, s)
    <2> HIDE DEF T, top, doc, L, q
    <2>1. QED
      BY <1>0, <1>2, DenotesWhole
  <1>5. Remains(u, L, q, T, m_current_state', m_buffer', doc)
    <2>1. inside.from = q /\ inside = PlaceIn(u, L, 1, T[1].value, q) /\ T[1].value = container
      BY <1>2 DEF PlaceIn, Spot
    <2>2. CASE /\ m_current_state' = "value" /\ container.type = "array"
               /\ s = ItemsAt(inside, ReadFrom)
      <3>1. s = ToValue(inside, T[1])
        BY <2>1, <2>2 DEF ToValue
      <3> HIDE DEF T, top, q, doc
      <3>2. QED
        BY <1>2, <1>4, <2>1, <2>2, <3>1 DEF Remains
    <2>3. CASE m_current_state' = "before_key" /\ s = MembersAt(inside, ReadFrom)
      <3> HIDE DEF T, top, q, doc
      <3>1. QED
        BY <1>2, <1>4, <2>1, <2>3 DEF Remains
    <2>4. QED
      BY <1>0, <2>2, <2>3
  <1>6. ec' = ec /\ Len(text') + 1 = q
    BY <1>0, <1>1, AppendProperties DEF Consume
  <1>7. "completed" \in Outcomes
    BY DEF Outcomes, parser_error_codes
  <1> HIDE DEF T, q
  <1>8. QED
    BY <1>0, <1>1, <1>3, <1>5, <1>6, <1>7 DEF Result

\* A character outside of any container.
LEMMA OutsideMeans ==
    ASSUME NEW u, NEW ch, MetOutside(u, ch)
    PROVE  Result(u)
  <1> DEFINE p == Len(text) + 1
             q == Len(text) + 2
             L == m_max_levels
             doc == Document(u, L)
             b == Spot("value", u, p, 0, L, {})
  <1>1. /\ Inv /\ m_contexts = <<>> /\ Reads(ch) /\ ec = "running" /\ ec \notin Outcomes
        /\ u \in Texts /\ p \in 1 .. Len(u) /\ u[p] = ch /\ Len(text) \in Nat
        /\ L \in Nat \cup {nullopt} /\ p \in Nat \ {0} /\ p + 1 = q
    BY LenProperties, TextsOfChars, LimitsAssumption
       DEF MetOutside, Iteration, Reads, Inv, Core, TypeOK, Outcomes, parser_error_codes
  <1>2. /\ \A j \in 1 .. p - 1 : u[j] \in Blanks
        /\ \/ m_current_state = "value"
           \/ m_current_state = "after_value_array" /\ ahead = <<end_array>>
    <2>1. /\ OnlyBlanks(Len(text))
          /\ \/ m_current_state = "value"
             \/ m_current_state = "after_value_array" /\ ahead = <<end_array>>
      BY <1>1 DEF Inv, UndefinedOnlyOnStrayBracket
    <2>2. \A j \in 1 .. Len(text) : text[j] \in Blanks
      BY <2>1, WhitespaceIsBlank DEF OnlyBlanks
    <2>3. p - 1 = Len(text)
      BY <1>1
    <2>4. QED
      BY <2>1, <2>2, <2>3 DEF MetOutside
  <1>3. ASSUME ch \notin Blanks
        PROVE  doc = IF ch \in {begin_array, begin_object} THEN ReadFrom[b] ELSE Unreadable
    <2> HIDE DEF p
    <2>1. QED
      BY <1>1, <1>2, <1>3, DocumentBegins
  <1>4. ASSUME NEW code \in Outcomes \ {"completed"}, Fail(ch, code), ~Readable(doc)
        PROVE  Result(u)
    BY <1>4 DEF Result, Fail, Return
  <1>5. CASE m_current_state = "after_value_array" /\ ahead = <<end_array>>
    <2>1. ch = end_array
      BY <1>1, <1>5 DEF Reads
    <2>2. Fail(ch, "undefined")
      BY <1>1, <1>5, <2>1 DEF MetOutside, Iteration, UsesTop, TopOfEmptyStack
    <2>3. ch \notin Blanks \cup {begin_array, begin_object}
      BY <2>1, NotBlank DEF end_array, begin_array, begin_object
    <2>4. ~Readable(doc)
      BY <1>3, <2>3, UnreadableIs
    <2>5. "undefined" \in Outcomes \ {"completed"}
      BY DEF Outcomes, parser_error_codes
    <2>6. QED
      BY <1>4, <2>2, <2>4, <2>5
  <1>6. CASE m_current_state = "value"
    <2>1. Value(ch)
      <3>1. ~UsesTop(ch)
        BY <1>6 DEF UsesTop
      <3>2. QED
        BY <1>6, <3>1 DEF MetOutside, Iteration, Literal, StringValue, StringValueEscSeq, BeforeKey,
           Key, KeyEscSeq, BeforeValue, AfterValueObject, AfterValueArray
    <2>2. b \in Spots
      <3>1. "value" \in Parts /\ {} \in SUBSET Texts /\ 0 \in Nat
        BY DEF Parts
      <3> HIDE DEF p, L
      <3>2. QED
        BY <1>1, <3>1, NewSpot, Zenon
    <2>3. b.what = "value" /\ b.text = u /\ b.from = p /\ b.depth = 0 /\ b.limit = L
      BY DEF Spot
    <2> HIDE DEF b
    <2>4. IsValueSpot(b) /\ Present(b) /\ Here(b) = ch
      BY <1>1, <2>2, <2>3 DEF IsValueSpot, Present, Here
    <2>5. MayOpen(b) <=> ~(L # nullopt /\ Len(m_contexts) = L)
      <3>1. Len(m_contexts) = 0
        BY <1>1, EmptySeq
      <3>2. MayOpen(b) <=> (L # nullopt => 0 < L)
        BY <2>3 DEF MayOpen
      <3>3. QED
        BY <1>1, <3>1, <3>2
    <2>6. CASE ch = begin_array
      <3> DEFINE container == Array(<<>>)
                 a == Inward(b, "items")
                 s == ItemsAt(a, ReadFrom)
      <3>1. Open(ch, container, "value")
        BY <2>1, <2>6 DEF Value, begin_array, begin_object, end_array, string_begin_end
      <3>2. doc = ReadFrom[b]
        BY <1>3, <2>6, NotBlank
      <3>3. CASE MayOpen(b)
        <4>1. /\ m_contexts' = Append(m_contexts, [key |-> <<>>, value |-> container])
              /\ m_current_state' = "value" /\ Consume(ch)
          BY <2>5, <3>1, <3>3 DEF Open
        <4>2. IsWithin(a, container) /\ Same(doc, Closed(container, s))
          BY <2>4, <2>6, <3>2, <3>3, ArrayBegins
        <4>3. a.text = u /\ a.from = q /\ a.depth = 1 /\ a.limit = L
          BY <1>1, <2>3, InwardParts
        <4>4. IsContainer(container) /\ container.type = "array"
          BY EmptyContainers
        <4> HIDE DEF a, container
        <4>5. a = PlaceIn(u, L, 1, container, q)
          BY <4>2, <4>3, WithinIsPlace
        <4>6. OpensFirst(u, ch, container, s)
          BY <4>1, <4>2, <4>4, <4>5 DEF OpensFirst
        <4> HIDE DEF s
        <4>7. QED
          BY <4>6, OpenFirst
      <3>4. CASE ~MayOpen(b)
        <4>1. Fail(ch, "nesting_level_too_deep")
          BY <2>5, <3>1, <3>4 DEF Open
        <4>2. ~Readable(doc)
          BY <2>4, <2>6, <3>2, <3>4, TooDeep
        <4>3. "nesting_level_too_deep" \in Outcomes \ {"completed"}
          BY DEF Outcomes, parser_error_codes
        <4>4. QED
          BY <1>4, <4>1, <4>2, <4>3
      <3>5. QED
        BY <3>3, <3>4
    <2>7. CASE ch = begin_object
      <3> DEFINE container == Object(<<>>)
                 a == Inward(b, "members")
                 s == MembersAt(a, ReadFrom)
      <3>1. Open(ch, container, "before_key")
        BY <2>1, <2>7 DEF Value, begin_array, begin_object, end_array, string_begin_end
      <3>2. doc = ReadFrom[b]
        BY <1>3, <2>7, NotBlank
      <3>3. CASE MayOpen(b)
        <4>1. /\ m_contexts' = Append(m_contexts, [key |-> <<>>, value |-> container])
              /\ m_current_state' = "before_key" /\ Consume(ch)
          BY <2>5, <3>1, <3>3 DEF Open
        <4>2. IsWithin(a, container) /\ Same(doc, Closed(container, s))
          BY <2>4, <2>7, <3>2, <3>3, ObjectBegins
        <4>3. a.text = u /\ a.from = q /\ a.depth = 1 /\ a.limit = L
          BY <1>1, <2>3, InwardParts
        <4>4. IsContainer(container)
          BY EmptyContainers
        <4> HIDE DEF a, container
        <4>5. a = PlaceIn(u, L, 1, container, q)
          BY <4>2, <4>3, WithinIsPlace
        <4>6. OpensFirst(u, ch, container, s)
          BY <4>1, <4>2, <4>4, <4>5 DEF OpensFirst
        <4> HIDE DEF s
        <4>7. QED
          BY <4>6, OpenFirst
      <3>4. CASE ~MayOpen(b)
        <4>1. Fail(ch, "nesting_level_too_deep")
          BY <2>5, <3>1, <3>4 DEF Open
        <4>2. ~Readable(doc)
          BY <2>4, <2>7, <3>2, <3>4, TooDeep
        <4>3. "nesting_level_too_deep" \in Outcomes \ {"completed"}
          BY DEF Outcomes, parser_error_codes
        <4>4. QED
          BY <1>4, <4>1, <4>2, <4>3
      <3>5. QED
        BY <3>3, <3>4
    <2>8. CASE ch = end_array
      <3>1. Reread(ch, "after_value_array")
        BY <2>1, <2>8 DEF Value, begin_array, begin_object, end_array, string_begin_end
      <3>2. m_contexts' = <<>> /\ ec' = ec
        BY <1>1, <3>1 DEF Reread, Goto, PutBack
      <3>3. QED
        BY <1>1, <3>2, EmptySeq DEF Result, AreContainers, Outcomes
    <2>9. CASE ch \notin {begin_array, begin_object, end_array} /\ ch \in Blanks
      <3>1. Skip(ch)
        BY <2>1, <2>9, WhitespaceIsBlank, NotBlank DEF Value
      <3>2. m_contexts' = <<>> /\ ec' = ec
        BY <1>1, <3>1 DEF Skip, Goto, Consume
      <3>3. QED
        BY <1>1, <3>2, EmptySeq DEF Result, AreContainers, Outcomes
    <2>10. CASE ch \notin {begin_array, begin_object, end_array} /\ ch \notin Blanks
      <3>1. Fail(ch, "no_top_level_node")
        BY <1>1, <2>1, <2>10, WhitespaceIsBlank DEF Value, InContainer
      <3>2. ~Readable(doc)
        BY <1>3, <2>10, UnreadableIs
      <3>3. "no_top_level_node" \in Outcomes \ {"completed"}
        BY DEF Outcomes, parser_error_codes
      <3>4. QED
        BY <1>4, <3>1, <3>2, <3>3
    <2>11. QED
      BY <2>6, <2>7, <2>8, <2>9, <2>10
  <1>7. QED
    BY <1>2, <1>5, <1>6

\* Every iteration inside of a container.
LEMMA InsideMeans ==
    ASSUME NEW u, NEW ch, Met(u, ch), Iteration(ch)
    PROVE  Result(u)
  <1>1. m_contexts # <<>>
    BY DEF Met
  <1>2. QED
    BY <1>1, ValueMeans, LiteralMeans, StringValueMeans, StringValueEscSeqMeans, BeforeKeyMeans,
       KeyMeans, KeyEscSeqMeans, BeforeValueMeans, AfterValueObjectMeans, AfterValueArrayMeans
       DEF Iteration

-----------------------------------------------------------------------------
(* A text that ends inside of a container is no document.                  *)

\* The machine is at the end of u, with all of it read.
AtEnd(u, limit, contexts, state, buffer, whole) ==
    LET top == contexts[Len(contexts)]
    IN  /\ Len(contexts) \in Nat \ {0} /\ AreContainers(contexts) /\ top.key \in Texts
        /\ u \in Texts /\ limit \in Nat \cup {nullopt} /\ buffer \in Texts
        /\ state \in parser_states
        /\ state \in KeyStates \cup {"after_value_object"} => top.value.type = "object"
        /\ state = "after_value_array" => top.value.type = "array"
        /\ Remains(u, limit, Len(u) + 1, contexts, state, buffer, whole)

\* Nothing more can be read of any container at the end of the text.
LEMMA EndMeans ==
    ASSUME NEW u, NEW limit, NEW contexts, NEW state, NEW buffer, NEW whole,
           AtEnd(u, limit, contexts, state, buffer, whole)
    PROVE  ~Readable(whole)
  <1> DEFINE n == Len(contexts)
             top == contexts[n]
             c == top.value
             p == Len(u) + 1
             at == PlaceIn(u, limit, n, c, p)
             chars == Behind(buffer, Quoted[Mark(u, p)])
             escaped == Behind(buffer, Escaped(u, p))
             Is(rest) == Denotes(u, limit, contexts, p, whole, rest)
  <1>1. /\ n \in Nat \ {0} /\ n \in Nat /\ AreContainers(contexts) /\ top.key \in Texts
        /\ u \in Texts /\ limit \in Nat \cup {nullopt} /\ buffer \in Texts
        /\ state \in parser_states
        /\ state \in KeyStates \cup {"after_value_object"} => c.type = "object"
        /\ state = "after_value_array" => c.type = "array"
    BY DEF AtEnd
  <1>2. Len(u) \in Nat /\ p \in Nat \ {0} /\ p \notin 1 .. Len(u)
    <2>1. Len(u) \in Nat
      BY <1>1, LenProperties DEF Texts
    <2>2. QED
      BY <2>1
  <1>3. IsContainer(c)
    BY <1>1 DEF AreContainers
  <1>4. IsWithin(at, c) /\ at.text = u /\ at.from = p
    <2>1. at.text = u /\ at.from = p
      BY DEF PlaceIn, Spot
    <2> HIDE DEF c, p, n
    <2>2. IsWithin(at, c)
      BY <1>1, <1>2, <1>3, PlaceWithin, Zenon
    <2>3. QED
      BY <2>1, <2>2
  <1>5. Missing(at)
    BY <1>4 DEF Missing
  <1>6. ASSUME NEW rest, Is(rest), ~Readable(rest) PROVE ~Readable(whole)
    <2>1. n = Len(contexts)
      OBVIOUS
    <2>2. Denotes(u, limit, contexts, p, whole, rest)
      BY <1>6
    <2> HIDE DEF n, p
    <2>3. QED
      BY <1>1, <1>6, <2>1, <2>2, DenotesUnreadable
  <1>7. ~Readable(chars) /\ ~Readable(escaped)
    <2> HIDE DEF p
    <2>1. QED
      BY <1>1, <1>2, StringGoesOn, EscapeGoesOn
  <1>8. ASSUME NEW i \in Nat, NEW r, ~Readable(r), Is(Entry(at, top, i, r))
        PROVE  ~Readable(whole)
    <2> HIDE DEF at, top, Is
    <2>1. ~Readable(Entry(at, top, i, r))
      BY <1>8, UnreadableEntry, UnreadableIs
    <2>2. QED
      BY <1>6, <1>8, <2>1
  <1>9. /\ state = "value" => Is(ToValue(at, top))
        /\ state = "literal" =>
              \E i \in Nat : /\ LiteralBegun(u, i, p, buffer)
                             /\ Is(Entry(at, top, i, ValueFrom(at, i)))
        /\ state = "string_value" => \E i \in 1 .. p - 1 : Is(Entry(at, top, i, StringOf(chars)))
        /\ state = "string_value_esc_seq" =>
              \E i \in 1 .. p - 1 : Is(Entry(at, top, i, StringOf(escaped)))
        /\ state = "before_key" => Is(MembersAt(at, ReadFrom))
        /\ state = "key" => Is(Keyed(at, chars))
        /\ state = "key_esc_seq" => Is(Keyed(at, escaped))
        /\ state = "before_value" => Is(Named(at, top.key, p, ReadFrom))
        /\ state = "after_value_object" => Is(MoreMembersAt(at, ReadFrom))
        /\ state = "after_value_array" /\ c.type = "array" => Is(MoreItemsAt(at, ReadFrom))
    BY DEF AtEnd, Remains
  <1>10. CASE state = "value"
    <2>1. ~Readable(ToValue(at, top))
      <3> HIDE DEF at, top
      <3>1. QED
        BY <1>4, <1>5, ValueNever DEF Missing
    <2> HIDE DEF Is
    <2>2. QED
      BY <1>6, <1>9, <1>10, <2>1
  <1>11. CASE state = "literal"
    <2>1. PICK i \in Nat : /\ LiteralBegun(u, i, p, buffer)
                           /\ Is(Entry(at, top, i, ValueFrom(at, i)))
      BY <1>9, <1>11
    <2>2. ~Readable(Entry(at, top, i, ValueFrom(at, i)))
      <3>1. LiteralBegun(at.text, i, at.from, buffer)
        BY <1>4, <2>1
      <3>2. IsContainer(top.value) /\ top.key \in Texts /\ IsWithin(at, top.value)
        BY <1>1, <1>3, <1>4
      <3> HIDE DEF at, top
      <3>3. QED
        BY <1>1, <1>5, <3>1, <3>2, LiteralEnds
    <2> HIDE DEF Is
    <2>3. QED
      BY <1>6, <2>1, <2>2
  <1>12. CASE state = "string_value"
    <2>1. PICK i \in 1 .. p - 1 : Is(Entry(at, top, i, StringOf(chars)))
      BY <1>9, <1>12
    <2>2. ~Readable(StringOf(chars)) /\ i \in Nat
      BY <1>2, <1>7, StringParts
    <2> HIDE DEF Is
    <2>3. QED
      BY <1>8, <2>1, <2>2
  <1>13. CASE state = "string_value_esc_seq"
    <2>1. PICK i \in 1 .. p - 1 : Is(Entry(at, top, i, StringOf(escaped)))
      BY <1>9, <1>13
    <2>2. ~Readable(StringOf(escaped)) /\ i \in Nat
      BY <1>2, <1>7, StringParts
    <2> HIDE DEF Is
    <2>3. QED
      BY <1>8, <2>1, <2>2
  <1>14. CASE state = "before_key"
    <2>1. c.type = "object"
      BY <1>1, <1>14 DEF KeyStates
    <2>2. ~Readable(MembersAt(at, ReadFrom))
      <3> HIDE DEF at, top
      <3>1. QED
        BY <1>4, <1>5, <2>1, BeforeMembers
    <2> HIDE DEF Is
    <2>3. QED
      BY <1>6, <1>9, <1>14, <2>2
  <1>15. CASE state \in {"key", "key_esc_seq"}
    <2>1. ~Readable(Keyed(at, chars)) /\ ~Readable(Keyed(at, escaped))
      BY <1>7, UnreadableKey
    <2> HIDE DEF Is
    <2>2. QED
      BY <1>6, <1>9, <1>15, <2>1
  <1>16. CASE state = "before_value"
    <2>1. c.type = "object"
      BY <1>1, <1>16 DEF KeyStates
    <2>2. ~Readable(Named(at, top.key, p, ReadFrom))
      <3> DEFINE key == top.key
      <3> HIDE DEF key, at, top, p
      <3>1. ~Readable(Named(at, key, at.from, ReadFrom))
        BY <1>4, <1>5, <2>1, BeforeColon
      <3>2. QED
        BY <1>4, <3>1 DEF key
    <2> HIDE DEF Is
    <2>3. QED
      BY <1>6, <1>9, <1>16, <2>2
  <1>17. CASE state = "after_value_object"
    <2>1. c.type = "object"
      BY <1>1, <1>17
    <2>2. ~Readable(MoreMembersAt(at, ReadFrom))
      <3> HIDE DEF at, top
      <3>1. QED
        BY <1>4, <1>5, <2>1, BetweenMembers
    <2> HIDE DEF Is
    <2>3. QED
      BY <1>6, <1>9, <1>17, <2>2
  <1>18. CASE state = "after_value_array"
    <2>1. c.type = "array"
      BY <1>1, <1>18
    <2>2. ~Readable(MoreItemsAt(at, ReadFrom))
      <3> HIDE DEF at, top
      <3>1. QED
        BY <1>4, <1>5, <2>1, BetweenItems
    <2> HIDE DEF Is
    <2>3. QED
      BY <1>6, <1>9, <1>18, <2>1, <2>2
  <1>19. QED
    BY <1>1, <1>10, <1>11, <1>12, <1>13, <1>14, <1>15, <1>16, <1>17, <1>18 DEF parser_states

-----------------------------------------------------------------------------
(* What the machine has understood of any text it may be reading.          *)

\* u begins with the characters that have been read, and the one put back.
Continues(u) ==
    /\ Len(text) <= Len(u)
    /\ \A j \in 1 .. Len(text) : u[j] = text[j]
    /\ ahead # <<>> => Len(text) + 1 <= Len(u) /\ u[Len(text) + 1] = ahead[1]

Understood ==
    ec \notin Outcomes =>
        /\ AreContainers(m_contexts)
        /\ m_contexts # <<>> =>
              \A u \in Seq(Chars) :
                  Continues(u) =>
                      Remains(u, m_max_levels, Len(text) + 1, m_contexts, m_current_state,
                              m_buffer, Document(u, m_max_levels))

LanguageInv == Inv /\ Understood /\ AcceptedExactly

\* An iteration keeps to every text that the characters read so far begin.
LEMMA IterationMeans ==
    ASSUME LanguageInv, NEW ch \in Chars, Iteration(ch),
           NEW u \in Seq(Chars), Continues(u)'
    PROVE  Result(u)
  <1>1. /\ Core /\ Reads(ch) /\ UNCHANGED m_max_levels /\ text \in Seq(Chars) /\ Len(text) \in Nat
        /\ ec \notin Outcomes
    BY WhileReading, LenProperties DEF Iteration, LanguageInv, Inv, Core, TypeOK
  <1>2. /\ Len(Append(text, ch)) = Len(text) + 1 /\ Append(text, ch)[Len(text) + 1] = ch
        /\ \A j \in 1 .. Len(text) : Append(text, ch)[j] = text[j]
    BY <1>1, AppendProperties
  <1>3. Len(u) \in Nat
    BY LenProperties
  <1>4. \/ text' = Append(text, ch)
        \/ text' = text /\ ahead' = <<ch>>
    BY <1>1, IterationStep DEF Moves, Decides, Consume, PutBack, Return
  <1>5. /\ Len(text) + 1 \in 1 .. Len(u) /\ u[Len(text) + 1] = ch
        /\ \A j \in 1 .. Len(text) : u[j] = text[j]
    <2>1. CASE text' = Append(text, ch)
      BY <1>1, <1>2, <1>3, <2>1 DEF Continues
    <2>2. CASE text' = text /\ ahead' = <<ch>>
      <3>1. <<ch>> # <<>> /\ <<ch>>[1] = ch
        BY EmptySeq
      <3>2. QED
        BY <1>1, <1>3, <2>2, <3>1 DEF Continues
    <2>3. QED
      BY <1>4, <2>1, <2>2
  <1>6. Continues(u)
    BY <1>1, <1>3, <1>5 DEF Continues, Reads
  <1>7. CASE m_contexts = <<>>
    <2>1. MetOutside(u, ch)
      BY <1>5, <1>7 DEF MetOutside, LanguageInv
    <2>2. QED
      BY <2>1, OutsideMeans
  <1>8. CASE m_contexts # <<>>
    <2>1. Met(u, ch)
      BY <1>1, <1>5, <1>6, <1>8 DEF Met, LanguageInv, Understood
    <2>2. QED
      BY <2>1, InsideMeans
  <1>9. QED
    BY <1>7, <1>8

\* A text that no document starts with is all that has been read.
LEMMA NotYetRead ==
    ASSUME Inv', Understood', ec' \notin Outcomes, ahead' = <<>>
    PROVE  ~Readable(Document(text', m_max_levels'))
  <1>1. /\ text' \in Seq(Chars) /\ Len(text') \in Nat /\ IsStack(m_contexts') /\ m_buffer' \in Seq(TextChars)
        /\ m_max_levels' \in Nat \cup {nullopt} /\ m_current_state' \in parser_states
        /\ Fits'
    BY LenProperties, LimitsAssumption DEF Inv, Core, TypeOK, StateFitsStack
  <1>2. text' \in Texts /\ m_buffer' \in Texts
    BY <1>1, TextsOfChars
  <1>3. CASE m_contexts' = <<>>
    <2>1. \A j \in 1 .. Len(text') : is_whitespace(text'[j])
      BY <1>3 DEF Inv, UndefinedOnlyOnStrayBracket, OnlyBlanks
    <2>2. \A j \in 1 .. Len(text') : text'[j] \in Blanks
      BY <2>1, WhitespaceIsBlank
    <2>3. QED
      BY <1>2, <2>2, NoDocument
  <1>4. CASE m_contexts' # <<>>
    <2> DEFINE n == Len(m_contexts')
               top == m_contexts'[n]
    <2>1. n \in Nat \ {0} /\ IsContext(top) /\ Last(m_contexts)' = top
      BY <1>1, <1>4, SequenceIsFunction, EmptySeq DEF IsStack, Last
    <2>2. top.key \in Texts
      BY <2>1, TextsOfChars DEF IsContext
    <2>3. /\ m_current_state' \in KeyStates \cup {"after_value_object"} => top.value.type = "object"
          /\ m_current_state' = "after_value_array" => top.value.type = "array"
      <3>1. ahead' # <<end_array>>
        BY EmptySeq
      <3>2. \A type : Inside(type)' => top.value.type = type
        BY <2>1 DEF Inside
      <3>3. QED
        BY <1>1, <3>1, <3>2 DEF Fits
    <2>4. ASSUME NEW u, u = text' PROVE Continues(u)'
      BY <1>1, <2>4 DEF Continues
    <2>5. /\ AreContainers(m_contexts')
          /\ Remains(text', m_max_levels', Len(text') + 1, m_contexts', m_current_state', m_buffer',
                     Document(text', m_max_levels'))
      <3>1. ASSUME NEW u, u = text'
            PROVE  Remains(u, m_max_levels', Len(text') + 1, m_contexts', m_current_state', m_buffer',
                           Document(u, m_max_levels'))
        BY <1>1, <1>4, <2>4, <3>1 DEF Understood
      <3>2. QED
        BY <3>1 DEF Understood
    <2>6. AtEnd(text', m_max_levels', m_contexts', m_current_state', m_buffer',
                Document(text', m_max_levels'))
      BY <1>1, <1>2, <2>1, <2>2, <2>3, <2>5 DEF AtEnd
    <2>7. QED
      BY <2>6, EndMeans
  <1>5. QED
    BY <1>3, <1>4

\* The invariant holds at first, and every step keeps it.
LEMMA LanguageInit == Init => LanguageInv
  <1> SUFFICES ASSUME Init PROVE LanguageInv
    OBVIOUS
  <1>1. Inv
    BY InitInv
  <1>2. Understood
    BY EmptySeq DEF Init, Understood, AreContainers
  <1>3. AcceptedExactly
    <2>1. <<>> \in Texts /\ \A j \in 1 .. Len(<<>>) : <<>>[j] \in Blanks
      BY EmptySeq DEF Texts
    <2>2. ~Readable(Document(<<>>, m_max_levels))
      BY <2>1, NoDocument
    <2>3. QED
      BY <2>2 DEF Init, AcceptedExactly
  <1>4. QED
    BY <1>1, <1>2, <1>3 DEF LanguageInv

\* Beginning or ending a call reads nothing.
LEMMA LanguageCall ==
    ASSUME LanguageInv, Parse \/ EndOfInput \/ UNCHANGED vars
    PROVE  Understood' /\ AcceptedExactly'
  <1>1. UNCHANGED <<m_current_state, m_max_levels, m_contexts, m_buffer, root, text, ahead>>
    BY DEF Parse, EndOfInput, vars, position
  <1>2. ec' = ec \/ (ec \notin Outcomes /\ ec' \notin Outcomes)
    BY DEF Parse, EndOfInput, vars, Outcomes, parser_error_codes
  <1>3. ASSUME NEW u, Continues(u)' PROVE Continues(u)
    BY <1>1, <1>3 DEF Continues
  <1>4. Understood'
    BY <1>1, <1>2, <1>3 DEF LanguageInv, Understood
  <1>5. ec' = "completed" <=> ec = "completed"
    BY <1>2 DEF Outcomes, parser_error_codes
  <1>6. AcceptedExactly'
    BY <1>1, <1>5 DEF LanguageInv, AcceptedExactly
  <1>7. QED
    BY <1>4, <1>6

\* An iteration keeps what is understood, and ends as the grammar would.
LEMMA LanguageIteration ==
    ASSUME LanguageInv, NEW ch \in Chars, Iteration(ch), Inv'
    PROVE  Understood' /\ AcceptedExactly'
  <1> DEFINE t == Append(text, ch)
  <1>1. /\ Core /\ UNCHANGED m_max_levels /\ text \in Seq(Chars) /\ Len(text) \in Nat
        /\ ec \notin Outcomes
    BY WhileReading, LenProperties DEF Iteration, LanguageInv, Inv, Core, TypeOK
  <1>2. /\ t \in Seq(Chars) /\ Len(t) = Len(text) + 1 /\ t[Len(text) + 1] = ch
        /\ \A j \in 1 .. Len(text) : t[j] = text[j]
    BY <1>1, AppendProperties
  <1>3. \/ text' = t /\ ahead' = <<>>
        \/ text' = text /\ ahead' = <<ch>> /\ ec' = ec
    BY <1>1, IterationStep DEF Moves, Decides, Consume, PutBack, Return
  <1> HIDE DEF t
  <1>4. ASSUME NEW u, u = t PROVE Continues(u)'
    <2>1. CASE text' = t /\ ahead' = <<>>
      BY <1>1, <1>2, <1>4, <2>1 DEF Continues
    <2>2. CASE text' = text /\ ahead' = <<ch>>
      <3>1. <<ch>>[1] = ch
        OBVIOUS
      <3>2. QED
        BY <1>1, <1>2, <1>4, <2>2, <3>1 DEF Continues
    <2>3. QED
      BY <1>3, <2>1, <2>2
  <1>5. Result(t)
    <2>1. ASSUME NEW u, u = t PROVE Result(u)
      BY <1>2, <1>4, <2>1, IterationMeans
    <2>2. QED
      BY <2>1
  <1>6. Understood'
    <2>1. ASSUME NEW u \in Seq(Chars), Continues(u)', ec' \notin Outcomes, m_contexts' # <<>>
          PROVE  Remains(u, m_max_levels', Len(text') + 1, m_contexts', m_current_state',
                         m_buffer', Document(u, m_max_levels'))
      BY <1>1, <2>1, IterationMeans DEF Result
    <2>2. ec' \notin Outcomes => AreContainers(m_contexts')
      BY <1>5 DEF Result
    <2>3. QED
      BY <2>1, <2>2 DEF Understood
  <1>7. AcceptedExactly'
    <2>1. "completed" \in Outcomes
      BY DEF Outcomes, parser_error_codes
    <2>2. CASE text' = text /\ ec' = ec
      <3>1. ec # "completed"
        BY <1>1, <2>1
      <3>2. QED
        BY <1>1, <2>2, <3>1 DEF AcceptedExactly, LanguageInv
    <2>3. CASE text' = t /\ ahead' = <<>>
      <3>1. CASE ec' \in Outcomes
        BY <1>1, <1>5, <2>3, <3>1 DEF AcceptedExactly, Result
      <3>2. CASE ec' \notin Outcomes
        <4>1. ~Readable(Document(text', m_max_levels'))
          BY <1>6, <2>3, <3>2, NotYetRead
        <4>2. ec' # "completed"
          BY <2>1, <3>2
        <4>3. QED
          BY <4>1, <4>2 DEF AcceptedExactly
      <3>3. QED
        BY <3>1, <3>2
    <2>4. QED
      BY <1>3, <2>2, <2>3
  <1>8. QED
    BY <1>6, <1>7

LEMMA LanguageStep == LanguageInv /\ [Next]_vars => LanguageInv'
  <1> SUFFICES ASSUME LanguageInv, [Next]_vars PROVE LanguageInv'
    OBVIOUS
  <1>1. Inv'
    BY NextInv DEF LanguageInv
  <1>2. Understood' /\ AcceptedExactly'
    BY <1>1, LanguageCall, LanguageIteration DEF Next
  <1>3. QED
    BY <1>1, <1>2 DEF LanguageInv

\* A parse completes on exactly the texts the reference grammar reads, with the
\* container it reads and at the character it ends with; on every other text it
\* fails or asks for more.
THEOREM Acceptance == Spec => []AcceptedExactly
  <1>1. LanguageInv => AcceptedExactly
    BY DEF LanguageInv
  <1>2. QED
    BY <1>1, LanguageInit, LanguageStep, PTL DEF Spec

=============================================================================
