---------------------------- MODULE ParserProofs ----------------------------
(***************************************************************************)
(* Proofs of the properties of ParserProps, for every set of characters,   *)
(* every table of literals, every limit and inputs of every length.        *)
(***************************************************************************)
EXTENDS ParserProps, SequenceProofs

-----------------------------------------------------------------------------
(* Storing values.                                                         *)

IsArray(container) == container.type = "array" /\ IsSequence(container.items)

\* A sequence is a prefix of itself, and of itself with an element more.
LEMMA PrefixOfAppend ==
    ASSUME NEW s, IsSequence(s), NEW c
    PROVE  IsPrefix(s, s) /\ IsPrefix(s, Append(s, c))
  <1>1. /\ Len(s) \in Nat
        /\ Len(Append(s, c)) = Len(s) + 1
        /\ \A i \in 1 .. Len(s) : Append(s, c)[i] = s[i]
    BY Push, SequenceIsFunction
  <1>2. SubSeq(s, 1, Len(s)) = SubSeq(Append(s, c), 1, Len(s))
    BY <1>1
  <1>3. QED
    BY <1>1, <1>2 DEF IsPrefix

\* Storing into a container keeps its kind and what it holds, and the kind decides what comes
\* next; only an object can refuse.
LEMMA StoreValue ==
    ASSUME NEW parent, NEW key, NEW value, parent.type \in ContainerTypes
    PROVE  LET res == store_value(parent, key, value)
           IN  /\ res.parent.type = parent.type
               /\ res.next_state = IF parent.type = "object"
                                   THEN "after_value_object" ELSE "after_value_array"
               /\ res.err \in {"more_data_needed", "key_already_exists"}
               /\ res.err = "key_already_exists" => parent.type = "object"
               /\ IsArray(parent) => IsArray(res.parent)
               /\ parent.type = "object" \/ IsArray(parent) =>
                     Extended(parent, res.parent)
  <1>1. CASE parent.type = "object"
    BY <1>1 DEF store_value, insert, Object, Extended, IsArray
  <1>2. CASE parent.type = "array"
    <2> DEFINE grown == [type |-> "array", items |-> Append(parent.items, value)]
    <2>1. store_value(parent, key, value) =
              [parent |-> grown, next_state |-> "after_value_array",
               err |-> "more_data_needed"]
      BY <1>2 DEF store_value, push_back, Array
    <2>2. IsSequence(parent.items) =>
            /\ IsSequence(Append(parent.items, value))
            /\ IsPrefix(parent.items, Append(parent.items, value))
      BY Push, PrefixOfAppend
    <2>3. /\ grown.type = "array"
          /\ IsArray(parent) => IsArray(grown) /\ Extended(parent, grown)
      BY <1>2, <2>2 DEF Extended, IsArray
    <2> HIDE DEF grown
    <2>4. QED
      BY <1>2, <2>1, <2>3
  <1>3. QED
    BY <1>1, <1>2 DEF ContainerTypes

\* A container that is left alone has not lost anything.
LEMMA ExtendedReflexive ==
    ASSUME NEW context, IsContext(context)
    PROVE  Extended(context.value, context.value)
  BY PrefixOfAppend DEF IsContext, Extended

\* StoreIn and Stored rewrite the top of the stack and nothing else.
LEMMA StoreInTop ==
    ASSUME NEW s, IsStack(s), s # <<>>, NEW value
    PROVE  /\ IsStack(Stored(s, value))
           /\ Len(Stored(s, value)) = Len(s)
           /\ Stored(s, value) # <<>>
           /\ \A i \in 1 .. Len(s) : Extended(s[i].value, Stored(s, value)[i].value)
           /\ Last(Stored(s, value)).value.type = Last(s).value.type
           /\ StoreIn(s, value).next_state =
                IF Last(s).value.type = "object"
                THEN "after_value_object" ELSE "after_value_array"
           /\ Last(s).value.type \in ContainerTypes
           /\ StoreIn(s, value).err \in {"more_data_needed", "key_already_exists"}
           /\ StoreIn(s, value).err = "key_already_exists" => Last(s).value.type = "object"
  <1> DEFINE parent == StoreIn(s, value).parent
             top == [key |-> <<>>, value |-> parent]
  <1>1. Len(s) \in 1 .. Len(s) /\ IsContext(Last(s)) /\ Last(s) = s[Len(s)]
    BY SequenceIsFunction DEF IsStack, Last
  <1>2. /\ parent.type = Last(s).value.type
        /\ StoreIn(s, value).next_state =
                IF Last(s).value.type = "object"
                THEN "after_value_object" ELSE "after_value_array"
        /\ StoreIn(s, value).err \in {"more_data_needed", "key_already_exists"}
        /\ StoreIn(s, value).err = "key_already_exists" => Last(s).value.type = "object"
        /\ Last(s).value.type \in ContainerTypes
        /\ parent.type = "array" => IsSequence(parent.items)
        /\ Extended(Last(s).value, parent)
    BY <1>1, StoreValue DEF StoreIn, IsContext, IsArray, ContainerTypes
  <1>3. Stored(s, value) = SetTop(s, top)
    BY DEF Stored, SetTop
  <1> HIDE DEF parent
  <1>4. IsContext(top) /\ top.value = parent
    BY <1>2, EmptySeq DEF IsContext
  <1> HIDE DEF top
  <1>5. /\ IsSequence(Stored(s, value))
        /\ Len(Stored(s, value)) = Len(s)
        /\ \A i \in 1 .. Len(s) - 1 : Stored(s, value)[i] = s[i]
        /\ Stored(s, value)[Len(s)] = top
        /\ Stored(s, value) # <<>>
        /\ Last(Stored(s, value)) = top
    BY <1>3, ReplaceTop DEF IsStack
  <1>6. \A i \in 1 .. Len(s) : IsContext(Stored(s, value)[i])
    BY <1>1, <1>4, <1>5 DEF IsStack
  <1>7. \A i \in 1 .. Len(s) : Extended(s[i].value, Stored(s, value)[i].value)
    <2> TAKE i \in 1 .. Len(s)
    <2>1. CASE i = Len(s)
      BY <1>1, <1>2, <1>4, <1>5, <2>1
    <2>2. CASE i # Len(s)
      <3>1. Stored(s, value)[i] = s[i] /\ IsContext(s[i])
        BY <1>1, <1>5, <2>2 DEF IsStack
      <3>2. QED
        BY <3>1, ExtendedReflexive
    <2>3. QED
      BY <2>1, <2>2
  <1>8. QED
    BY <1>2, <1>4, <1>5, <1>6, <1>7 DEF IsStack

\* What is left of a stack by pop is a stack.
LEMMA PopStack ==
    ASSUME NEW s, IsStack(s), s # <<>>
    PROVE  IsStack(Front(s)) /\ Len(Front(s)) = Len(s) - 1
  <1>1. IsSequence(s) /\ Len(s) \in Nat
    BY SequenceIsFunction DEF IsStack
  <1>2. /\ IsSequence(Front(s))
        /\ Len(Front(s)) = Len(s) - 1
        /\ \A i \in 1 .. Len(s) - 1 : Front(s)[i] = s[i]
    BY <1>1, Pop
  <1>3. \A i \in 1 .. Len(s) - 1 : IsContext(s[i])
    BY <1>1 DEF IsStack
  <1>4. QED
    BY <1>1, <1>2, <1>3 DEF IsStack

\* A new context on top of a stack makes a stack.
LEMMA PushStack ==
    ASSUME NEW s, IsStack(s), NEW c, IsContext(c)
    PROVE  /\ IsStack(Append(s, c))
           /\ Len(Append(s, c)) = Len(s) + 1
           /\ Append(s, c) # <<>>
           /\ Last(Append(s, c)) = c
  BY Push, SequenceIsFunction DEF IsStack

\* Moving the buffer into the key of the top keeps the container.
LEMMA SetKey ==
    ASSUME NEW s, IsStack(s), s # <<>>, NEW key \in Seq(TextChars)
    PROVE  LET t == [s EXCEPT ![Len(s)].key = key]
           IN  /\ IsStack(t)
               /\ Len(t) = Len(s)
               /\ t # <<>>
               /\ Last(t).value = Last(s).value
  <1> DEFINE top == [s[Len(s)] EXCEPT !.key = key]
  <1>1. Len(s) \in 1 .. Len(s) /\ IsContext(s[Len(s)])
    BY SequenceIsFunction DEF IsStack
  <1>2. top = [key |-> key, value |-> s[Len(s)].value]
    BY <1>1 DEF IsContext
  <1>3. IsContext(top)
    BY <1>1, <1>2 DEF IsContext
  <1>4. [s EXCEPT ![Len(s)].key = key] = SetTop(s, top)
    BY DEF SetTop
  <1>5. QED
    BY <1>1, <1>2, <1>3, <1>4, ReplaceTop DEF IsStack, Last
-----------------------------------------------------------------------------
(* The three ways an iteration ends.                                       *)

Decides(ch) ==
    \E code \in Outcomes :
        /\ Return(ch, code)
        /\ IF code = "completed"
           THEN /\ root'.type \in ContainerTypes
                /\ m_contexts' = <<>>
                /\ m_current_state' \in AfterStates
           ELSE root' = root

\* A character is consumed, put back, or ends the parse; only a completed
\* parse writes the root.  What is put back is a delimiter after a value.
Moves(ch) ==
    \/ Consume(ch) /\ root' = root
    \/ /\ PutBack(ch)
       /\ root' = root
       /\ m_current_state' \in AfterStates
       /\ ch \in {value_separator, end_array, end_object}
    \/ Decides(ch)

\* A failing iteration decides the parse.
LEMMA FailDecides ==
    ASSUME NEW ch, NEW code \in Outcomes \ {"completed"}, Fail(ch, code)
    PROVE  Decides(ch)
  BY DEF Fail, Decides

\* Storing a leaf consumes the character that ends it, puts it back, or fails.
LEMMA StoreLeafMoves ==
    ASSUME TypeOK, m_contexts # <<>>, NEW ch, NEW value, NEW done,
           StoreLeaf(ch, value, done)
    PROVE  /\ root' = root
           /\ IsStack(m_contexts')
           /\ \/ Decides(ch) /\ UNCHANGED <<m_current_state, m_buffer>>
              \/ /\ done
                 /\ m_buffer' = <<>>
                 /\ m_contexts' # <<>>
                 /\ Last(m_contexts').value.type = Last(m_contexts).value.type
                 /\ Len(m_contexts') = Len(m_contexts)
                 /\ m_current_state' = IF Last(m_contexts').value.type = "object"
                                       THEN "after_value_object" ELSE "after_value_array"
                 /\ Last(m_contexts').value.type \in ContainerTypes
  <1> DEFINE res == StoreIn(m_contexts, value)
  <1>1. IsStack(m_contexts)
    BY DEF TypeOK
  <1>2. res.err \in {"more_data_needed", "key_already_exists"}
    BY <1>1, StoreInTop
  <1>3. IsStack(m_contexts') /\ root' = root
    BY <1>1, StoreInTop DEF StoreLeaf
  <1>4. CASE res.err # "more_data_needed"
    <2>1. Return(ch, "key_already_exists") /\ UNCHANGED <<m_current_state, m_buffer>>
      BY <1>2, <1>4 DEF StoreLeaf
    <2>2. QED
      BY <1>3, <2>1 DEF Decides, Outcomes, parser_error_codes
  <1>5. CASE res.err = "more_data_needed"
    <2>1. done /\ m_buffer' = <<>> /\ m_current_state' = res.next_state
      BY <1>5 DEF StoreLeaf, MoveOn
    <2>2. m_contexts' = Stored(m_contexts, value)
      BY DEF StoreLeaf
    <2>3. QED
      BY <1>1, <1>3, <2>1, <2>2, StoreInTop
  <1>6. QED
    BY <1>4, <1>5
-----------------------------------------------------------------------------
(* One iteration keeps the machine in order.                               *)

Machine ==
    /\ m_current_state \in parser_states
    /\ IsStack(m_contexts)
    /\ m_buffer \in Seq(TextChars)
    /\ ec \notin {"completed", "undefined"} => Fits
    /\ StateFitsStack
    /\ BufferIsFresh
    /\ WithinMaxLevels

\* A character read, or the one an escape sequence denotes, extends a text.
LEMMA Collected ==
    ASSUME NEW s \in Seq(TextChars), NEW ch \in Chars
    PROVE  /\ Append(s, ch) \in Seq(TextChars) \ {<<>>}
           /\ unescape(ch) # nullopt =>
                Append(s, unescape(ch)) \in Seq(TextChars) \ {<<>>}
  <1>1. ch \in TextChars
    BY DEF TextChars
  <1>2. unescape(ch) # nullopt => unescape(ch) \in TextChars
    BY DEF TextChars, unescape
  <1>3. \A c \in TextChars : Append(s, c) \in Seq(TextChars) \ {<<>>}
    BY AppendProperties, EmptySeq
  <1>4. QED
    BY <1>1, <1>2, <1>3

\* A decided parse keeps whatever machine it has.
LEMMA FailKeepsMachine ==
    ASSUME Core, NEW ch, Reads(ch), UNCHANGED m_max_levels,
           NEW code \in Outcomes \ {"completed"}, Fail(ch, code),
           code = "undefined" \/ m_current_state # "after_value_array" \/ Inside("array")
    PROVE  Moves(ch) /\ Machine'
  <1>1. Decides(ch) /\ ec' = code /\ ec' \in Outcomes /\ ahead' = <<>>
    BY FailDecides DEF Fail, Return
  <1>2. UNCHANGED <<m_current_state, m_contexts, m_buffer, m_max_levels>>
    BY DEF Fail
  <1>3. StateFitsStack' /\ BufferIsFresh' /\ WithinMaxLevels'
    BY <1>1, <1>2 DEF StateFitsStack, PutBackFits, BufferIsFresh, WithinMaxLevels, Core
  <1>4. code # "undefined" => Fits'
    <2>1. ec \notin Outcomes
      BY DEF Reads, Outcomes, parser_error_codes
    <2>2. QED
      BY <1>2, <2>1 DEF Core, StateFitsStack, PutBackFits, Fits, Inside
  <1>5. QED
    BY <1>1, <1>2, <1>3, <1>4 DEF Moves, Machine, Core, TypeOK

\* A character is consumed and the stack stays as it is: the machine is in
\* order if the next state fits the stack and the buffer.
LEMMA GotoKeepsMachine ==
    ASSUME Core, NEW ch, UNCHANGED m_max_levels, Consume(ch),
           NEW state \in parser_states, Goto(state),
           state \in KeyStates \cup {"after_value_object"} => Inside("object"),
           state = "after_value_array" => Inside("array"),
           state \in LeafStates => m_contexts # <<>>,
           state \in {"value", "before_key", "before_value"} \cup AfterStates =>
                m_buffer = <<>>,
           state = "literal" => m_buffer # <<>>
    PROVE  Moves(ch) /\ Machine'
  <1>1. /\ m_current_state' = state
        /\ UNCHANGED <<m_contexts, m_buffer, root, m_max_levels>>
        /\ ahead' = <<>>
    BY DEF Goto, Consume
  <1>2. Moves(ch)
    BY <1>1 DEF Moves
  <1>3. Fits' /\ StateFitsStack'
    BY <1>1 DEF Fits, StateFitsStack, PutBackFits, Inside
  <1>4. BufferIsFresh' /\ WithinMaxLevels'
    BY <1>1 DEF BufferIsFresh, WithinMaxLevels, Core
  <1>5. QED
    BY <1>1, <1>2, <1>3, <1>4 DEF Machine, Core, TypeOK

\* A character is added to a text that is being read.
LEMMA CollectKeepsMachine ==
    ASSUME Core, NEW ch, UNCHANGED m_max_levels, Consume(ch),
           NEW c, Append(m_buffer, c) \in Seq(TextChars) \ {<<>>},
           NEW state \in {"literal", "string_value", "key"}, Collect(c, state),
           state = "key" => Inside("object"),
           m_contexts # <<>>
    PROVE  Moves(ch) /\ Machine'
  <1>1. /\ m_current_state' = state
        /\ m_buffer' = Append(m_buffer, c)
        /\ UNCHANGED <<m_contexts, root, m_max_levels>>
        /\ ahead' = <<>>
    BY DEF Collect, Consume
  <1>2. Moves(ch)
    BY <1>1 DEF Moves
  <1>3. Fits' /\ StateFitsStack'
    BY <1>1 DEF Fits, StateFitsStack, PutBackFits, Inside, KeyStates, LeafStates
  <1>4. BufferIsFresh' /\ WithinMaxLevels'
    BY <1>1 DEF BufferIsFresh, WithinMaxLevels, Core, AfterStates
  <1>5. QED
    BY <1>1, <1>2, <1>3, <1>4 DEF Machine, Core, TypeOK, parser_states

\* The character is put back for the state after a value.
LEMMA RereadKeepsMachine ==
    ASSUME Core, NEW ch, Reads(ch), UNCHANGED m_max_levels,
           NEW state \in AfterStates, Reread(ch, state), m_buffer = <<>>,
           ch \in {end_array, end_object},
           state = "after_value_object" => Inside("object"),
           state = "after_value_array" => ch = end_array
    PROVE  Moves(ch) /\ Machine'
  <1>1. /\ m_current_state' = state
        /\ UNCHANGED <<m_contexts, m_buffer, root, m_max_levels, ec>>
        /\ ahead' = <<ch>>
        /\ ec = "running"
    BY DEF Reread, Goto, PutBack, Reads
  <1>2. Moves(ch)
    BY <1>1 DEF Moves, Reread
  <1>3. Fits' /\ StateFitsStack'
    BY <1>1 DEF Fits, StateFitsStack, PutBackFits, Inside, KeyStates, LeafStates, AfterStates
  <1>4. BufferIsFresh' /\ WithinMaxLevels'
    BY <1>1 DEF BufferIsFresh, WithinMaxLevels, Core, AfterStates
  <1>5. QED
    BY <1>1, <1>2, <1>3, <1>4 DEF Machine, Core, TypeOK, parser_states, AfterStates
\* What the invariant says when a character is read.
LEMMA WhileReading ==
    ASSUME Core, NEW ch, Reads(ch)
    PROVE  /\ ec = "running" /\ ec \notin Outcomes
           /\ m_current_state \in parser_states
           /\ m_current_state \in KeyStates \cup {"after_value_object"} => Inside("object")
           /\ m_current_state = "after_value_array" => Inside("array") \/ ch = end_array
           /\ m_current_state \in LeafStates => m_contexts # <<>>
           /\ m_current_state \in {"value", "before_key", "before_value"} \cup AfterStates =>
                m_buffer = <<>>
           /\ m_current_state = "literal" => m_buffer # <<>>
           /\ m_buffer \in Seq(TextChars)
           /\ IsStack(m_contexts)
           /\ ahead # <<>> => m_current_state \in AfterStates
  <1>1. ec = "running" /\ ec \notin Outcomes
    BY DEF Reads, Outcomes, parser_error_codes
  <1>2. ahead = <<end_array>> => ch = end_array
    BY DEF Reads
  <1>3. QED
    BY <1>1, <1>2 DEF Core, TypeOK, StateFitsStack, PutBackFits, Fits, BufferIsFresh

\* White space is skipped, and the state stays.
LEMMA SkipKeepsMachine ==
    ASSUME Core, NEW ch, Reads(ch), UNCHANGED m_max_levels, is_whitespace(ch), Skip(ch)
    PROVE  Moves(ch) /\ Machine'
  <1>1. ch # end_array
    BY DEF is_whitespace, end_array
  <1>2. QED
    BY <1>1, WhileReading, GotoKeepsMachine DEF Skip

\* parser_state::before_key
LEMMA BeforeKeyStep ==
    ASSUME Core, NEW ch \in Chars, Reads(ch), UNCHANGED m_max_levels, BeforeKey(ch)
    PROVE  Moves(ch) /\ Machine'
  <1>1. Inside("object") /\ m_buffer = <<>>
    BY WhileReading DEF BeforeKey, KeyStates
  <1>2. CASE ch = string_begin_end /\ Goto("key") /\ Consume(ch)
    BY <1>1, <1>2, GotoKeepsMachine DEF parser_states, KeyStates, LeafStates, AfterStates
  <1>3. CASE ch = end_object /\ Reread(ch, "after_value_object")
    BY <1>1, <1>3, RereadKeepsMachine DEF AfterStates
  <1>4. CASE is_whitespace(ch) /\ Skip(ch)
    BY <1>4, SkipKeepsMachine
  <1>5. CASE Fail(ch, "illegal_delimiter")
    BY <1>5, FailKeepsMachine DEF BeforeKey, Outcomes, parser_error_codes
  <1>6. QED
    BY <1>2, <1>3, <1>4, <1>5 DEF BeforeKey, SkipWhitespaceElse

\* parser_state::before_value
LEMMA BeforeValueStep ==
    ASSUME Core, NEW ch \in Chars, Reads(ch), UNCHANGED m_max_levels, BeforeValue(ch)
    PROVE  Moves(ch) /\ Machine'
  <1>1. m_buffer = <<>>
    BY WhileReading DEF BeforeValue
  <1>2. CASE Goto("value") /\ Consume(ch)
    BY <1>1, <1>2, GotoKeepsMachine DEF parser_states, KeyStates, LeafStates, AfterStates
  <1>3. CASE is_whitespace(ch) /\ Skip(ch)
    BY <1>3, SkipKeepsMachine
  <1>4. CASE Fail(ch, "illegal_delimiter")
    BY <1>4, FailKeepsMachine DEF BeforeValue, Outcomes, parser_error_codes
  <1>5. QED
    BY <1>2, <1>3, <1>4 DEF BeforeValue, SkipWhitespaceElse

\* parser_state::key
LEMMA KeyStep ==
    ASSUME Core, NEW ch \in Chars, Reads(ch), UNCHANGED m_max_levels, Key(ch)
    PROVE  Moves(ch) /\ Machine'
  <1>1. /\ Inside("object") /\ m_contexts # <<>>
        /\ m_buffer \in Seq(TextChars) /\ IsStack(m_contexts)
    BY WhileReading DEF Key, KeyStates, Inside
  <1>2. CASE /\ m_contexts' = [m_contexts EXCEPT ![Len(m_contexts)].key = m_buffer]
             /\ MoveOn("before_value")
             /\ root' = root
             /\ Consume(ch)
    <2>1. /\ IsStack(m_contexts')
          /\ Len(m_contexts') = Len(m_contexts)
          /\ m_contexts' # <<>>
          /\ Last(m_contexts').value = Last(m_contexts).value
      BY <1>1, <1>2, SetKey
    <2>2. /\ m_current_state' = "before_value"
          /\ m_buffer' = <<>>
          /\ ahead' = <<>>
      BY <1>2 DEF MoveOn, Consume
    <2>3. Fits' /\ StateFitsStack'
      BY <1>1, <2>1, <2>2 DEF Fits, StateFitsStack, PutBackFits, Inside, KeyStates, AfterStates, LeafStates
    <2>4. BufferIsFresh' /\ WithinMaxLevels'
      BY <2>1, <2>2 DEF BufferIsFresh, WithinMaxLevels, Core
    <2>5. QED
      BY <1>2, <2>1, <2>2, <2>3, <2>4, EmptySeq DEF Moves, Machine, parser_states
  <1>3. CASE Goto("key_esc_seq") /\ Consume(ch)
    BY <1>1, <1>3, GotoKeepsMachine DEF parser_states, KeyStates, LeafStates, AfterStates
  <1>4. CASE Fail(ch, "character_must_be_escaped")
    BY <1>4, FailKeepsMachine DEF Key, Outcomes, parser_error_codes
  <1>5. CASE Collect(ch, "key") /\ Consume(ch)
    BY <1>1, <1>5, Collected, CollectKeepsMachine
  <1>6. QED
    BY <1>2, <1>3, <1>4, <1>5 DEF Key

\* parser_state::key_esc_seq
LEMMA KeyEscSeqStep ==
    ASSUME Core, NEW ch \in Chars, Reads(ch), UNCHANGED m_max_levels, KeyEscSeq(ch)
    PROVE  Moves(ch) /\ Machine'
  <1>1. Inside("object") /\ m_contexts # <<>> /\ m_buffer \in Seq(TextChars)
    BY WhileReading DEF KeyEscSeq, KeyStates, Inside
  <1>2. CASE Fail(ch, "unsupported_escape_sequence")
    BY <1>2, FailKeepsMachine DEF KeyEscSeq, Outcomes, parser_error_codes
  <1>3. CASE unescape(ch) # nullopt /\ Collect(unescape(ch), "key") /\ Consume(ch)
    BY <1>1, <1>3, Collected, CollectKeepsMachine
  <1>4. QED
    BY <1>2, <1>3 DEF KeyEscSeq

\* parser_state::string_value_esc_seq
LEMMA StringValueEscSeqStep ==
    ASSUME Core, NEW ch \in Chars, Reads(ch), UNCHANGED m_max_levels,
           StringValueEscSeq(ch)
    PROVE  Moves(ch) /\ Machine'
  <1>1. m_contexts # <<>> /\ m_buffer \in Seq(TextChars)
    BY WhileReading DEF StringValueEscSeq, LeafStates
  <1>2. CASE Fail(ch, "unsupported_escape_sequence")
    BY <1>2, FailKeepsMachine DEF StringValueEscSeq, Outcomes, parser_error_codes
  <1>3. CASE unescape(ch) # nullopt /\ Collect(unescape(ch), "string_value") /\ Consume(ch)
    BY <1>1, <1>3, Collected, CollectKeepsMachine
  <1>4. QED
    BY <1>2, <1>3 DEF StringValueEscSeq
\* A leaf that is stored leaves the machine in the state after a value.
LEMMA StoreLeafStep ==
    ASSUME Core, NEW ch, Reads(ch), UNCHANGED m_max_levels,
           m_current_state \in LeafStates,
           m_contexts # <<>>, NEW value, NEW done, StoreLeaf(ch, value, done),
           done => \/ Consume(ch)
                   \/ PutBack(ch) /\ ch \in {value_separator, end_array, end_object}
    PROVE  Moves(ch) /\ Machine'
  <1>1. root' = root /\ IsStack(m_contexts')
    BY StoreLeafMoves DEF Core
  <1>2. CASE Decides(ch) /\ UNCHANGED <<m_current_state, m_buffer>>
    <2>1. ec' \in Outcomes /\ ahead' = <<>>
      BY <1>2 DEF Decides, Return
    <2>2. Len(m_contexts') = Len(m_contexts)
      BY StoreInTop DEF StoreLeaf, Core, TypeOK
    <2>3. StateFitsStack' /\ BufferIsFresh' /\ WithinMaxLevels'
      BY <1>2, <2>1, <2>2 DEF StateFitsStack, PutBackFits, BufferIsFresh, WithinMaxLevels, Core
    <2>4. Fits'
      BY <1>2, StoreInTop DEF StoreLeaf, Core, TypeOK, Fits, KeyStates, LeafStates
    <2>5. QED
      BY <1>1, <1>2, <2>3, <2>4 DEF Moves, Machine, Core, TypeOK
  <1>3. CASE /\ done
             /\ m_buffer' = <<>>
             /\ m_contexts' # <<>>
             /\ Len(m_contexts') = Len(m_contexts)
             /\ m_current_state' = IF Last(m_contexts').value.type = "object"
                                   THEN "after_value_object" ELSE "after_value_array"
             /\ Last(m_contexts').value.type \in ContainerTypes
    <2>1. m_current_state' \in AfterStates /\ m_current_state' \in parser_states
      BY <1>3 DEF AfterStates, parser_states
    <2>2. Moves(ch)
      BY <1>1, <1>3, <2>1 DEF Moves
    <2>3. ec' = "running" /\ (ahead' = <<>> \/ ahead' = <<ch>>)
      BY <1>3 DEF Consume, PutBack, Reads
    <2>4. ahead' # <<>> => ahead'[1] \in {value_separator, end_array, end_object}
      BY <1>3, <2>3 DEF Consume, PutBack
    <2>5. Fits' /\ StateFitsStack'
      BY <1>3, <2>1, <2>3, <2>4 DEF Fits, StateFitsStack, PutBackFits, Inside, KeyStates, LeafStates,
           AfterStates, ContainerTypes
    <2>6. BufferIsFresh' /\ WithinMaxLevels'
      BY <1>3, <2>1 DEF BufferIsFresh, WithinMaxLevels, Core, AfterStates
    <2>7. QED
      BY <1>1, <1>3, <2>1, <2>2, <2>5, <2>6, EmptySeq DEF Machine
  <1>4. QED
    BY <1>2, <1>3, StoreLeafMoves DEF Core

\* parser_state::literal
LEMMA LiteralStep ==
    ASSUME Core, NEW ch \in Chars, Reads(ch), UNCHANGED m_max_levels, Literal(ch)
    PROVE  Moves(ch) /\ Machine'
  <1>1. m_contexts # <<>> /\ m_buffer \in Seq(TextChars) /\ m_current_state \in LeafStates
    BY WhileReading DEF Literal, LeafStates
  <1>2. CASE Fail(ch, "invalid_value")
    BY <1>2, FailKeepsMachine DEF Literal, Outcomes, parser_error_codes
  <1>3. CASE /\ EndsLiteral(ch)
             /\ StoreLeaf(ch, make_value(m_buffer),
                    IF is_whitespace(ch) THEN Consume(ch) ELSE PutBack(ch))
    <2> DEFINE done == IF is_whitespace(ch) THEN Consume(ch) ELSE PutBack(ch)
    <2>1. done => \/ Consume(ch)
                  \/ PutBack(ch) /\ ch \in {value_separator, end_array, end_object}
      BY <1>3 DEF EndsLiteral
    <2>2. StoreLeaf(ch, make_value(m_buffer), done)
      BY <1>3
    <2> HIDE DEF done
    <2>3. QED
      BY <1>1, <2>1, <2>2, StoreLeafStep
  <1>4. CASE Collect(ch, "literal") /\ Consume(ch)
    BY <1>1, <1>4, Collected, CollectKeepsMachine
  <1>5. QED
    BY <1>2, <1>3, <1>4 DEF Literal

\* parser_state::string_value
LEMMA StringValueStep ==
    ASSUME Core, NEW ch \in Chars, Reads(ch), UNCHANGED m_max_levels, StringValue(ch)
    PROVE  Moves(ch) /\ Machine'
  <1>1. m_contexts # <<>> /\ m_buffer \in Seq(TextChars) /\ m_current_state \in LeafStates
    BY WhileReading DEF StringValue, LeafStates
  <1>2. CASE StoreLeaf(ch, String(m_buffer), Consume(ch))
    BY <1>1, <1>2, StoreLeafStep
  <1>3. CASE Goto("string_value_esc_seq") /\ Consume(ch)
    BY <1>1, <1>3, GotoKeepsMachine DEF parser_states, KeyStates, LeafStates, AfterStates
  <1>4. CASE Fail(ch, "character_must_be_escaped")
    BY <1>4, FailKeepsMachine DEF StringValue, Outcomes, parser_error_codes
  <1>5. CASE Collect(ch, "string_value") /\ Consume(ch)
    BY <1>1, <1>5, Collected, CollectKeepsMachine
  <1>6. QED
    BY <1>2, <1>3, <1>4, <1>5 DEF StringValue

\* A container is opened within the limit.  The test for the limit is an
\* equality: the stack was within it, and is not at it, so it is below it.
LEMMA OpenStep ==
    ASSUME Core, NEW ch, Reads(ch), UNCHANGED m_max_levels, m_current_state = "value",
           NEW container, container.type \in ContainerTypes,
           container.type = "array" => IsSequence(container.items),
           NEW state \in {"value", "before_key"},
           state = "before_key" => container.type = "object",
           Open(ch, container, state)
    PROVE  Moves(ch) /\ Machine'
  <1> DEFINE c == [key |-> <<>>, value |-> container]
  <1>1. CASE Fail(ch, "nesting_level_too_deep")
    BY <1>1, FailKeepsMachine DEF Outcomes, parser_error_codes
  <1>2. CASE ~Fail(ch, "nesting_level_too_deep")
    <2>1. /\ m_max_levels # nullopt => Len(m_contexts) # m_max_levels
          /\ m_contexts' = Append(m_contexts, c)
          /\ m_current_state' = state
          /\ m_buffer' = m_buffer
          /\ root' = root
          /\ Consume(ch)
      BY <1>2 DEF Open
    <2>2. IsContext(c)
      BY EmptySeq DEF IsContext
    <2> HIDE DEF c
    <2>3. /\ IsStack(m_contexts')
          /\ Len(m_contexts') = Len(m_contexts) + 1
          /\ m_contexts' # <<>>
          /\ Last(m_contexts') = c
      BY <2>1, <2>2, WhileReading, PushStack
    <2>4. m_buffer = <<>> /\ ahead' = <<>>
      BY <2>1, WhileReading DEF Consume
    <2>5. Fits' /\ StateFitsStack'
      BY <2>1, <2>3, <2>4 DEF Fits, StateFitsStack, PutBackFits, Inside, KeyStates, LeafStates, AfterStates, c
    <2>6. WithinMaxLevels'
      <3>1. m_max_levels # nullopt => m_max_levels \in Nat
        BY LimitsAssumption DEF Core, TypeOK
      <3>2. Len(m_contexts) \in Nat
        BY SequenceIsFunction DEF Core, TypeOK, IsStack
      <3>3. QED
        BY <2>1, <2>3, <3>1, <3>2 DEF WithinMaxLevels, Core
    <2>7. BufferIsFresh'
      BY <2>1, <2>4 DEF BufferIsFresh
    <2>8. QED
      BY <2>1, <2>3, <2>4, <2>5, <2>6, <2>7, EmptySeq DEF Moves, Machine, parser_states
  <1>3. QED
    BY <1>1, <1>2

\* parser_state::value
LEMMA ValueStep ==
    ASSUME Core, NEW ch \in Chars, Reads(ch), UNCHANGED m_max_levels, Value(ch)
    PROVE  Moves(ch) /\ Machine'
  <1>1. m_current_state = "value" /\ m_buffer = <<>> /\ m_buffer \in Seq(TextChars)
    BY WhileReading DEF Value
  <1>2. CASE Open(ch, Array(<<>>), "value")
    <2>1. /\ Array(<<>>).type = "array"
          /\ IsSequence(Array(<<>>).items)
      BY EmptySeq DEF Array, IsSequence
    <2>2. QED
      BY <1>1, <1>2, <2>1, OpenStep DEF ContainerTypes
  <1>3. CASE Open(ch, Object(<<>>), "before_key")
    BY <1>1, <1>3, OpenStep DEF Object, ContainerTypes
  <1>4. CASE ch = end_array /\ Reread(ch, "after_value_array")
    BY <1>1, <1>4, RereadKeepsMachine DEF AfterStates
  <1>5. CASE Fail(ch, "no_top_level_node")
    BY <1>1, <1>5, FailKeepsMachine DEF Outcomes, parser_error_codes
  <1>6. CASE m_contexts # <<>> /\ Goto("string_value") /\ Consume(ch)
    BY <1>1, <1>6, GotoKeepsMachine DEF parser_states, KeyStates, LeafStates, AfterStates
  <1>7. CASE is_whitespace(ch) /\ Skip(ch)
    BY <1>7, SkipKeepsMachine
  <1>8. CASE m_contexts # <<>> /\ Collect(ch, "literal") /\ Consume(ch)
    BY <1>1, <1>8, Collected, CollectKeepsMachine
  <1>9. QED
    BY <1>2, <1>3, <1>4, <1>5, <1>6, <1>7, <1>8 DEF Value, InContainer
\* The last container is closed: the parse is decided, the stack empty.
LEMMA CloseRootStep ==
    ASSUME Core, NEW ch, Reads(ch), UNCHANGED m_max_levels, CloseRoot(ch),
           m_current_state \in AfterStates
    PROVE  Moves(ch) /\ Machine'
  <1>1. IsStack(m_contexts) /\ m_contexts # <<>> /\ Len(m_contexts) \in 1 .. Len(m_contexts)
    <2>1. IsStack(m_contexts) /\ Len(m_contexts) = 1
      BY WhileReading DEF CloseRoot
    <2>2. QED
      BY <2>1, EmptySeq
  <1>2. IsContext(Last(m_contexts))
    BY <1>1 DEF IsStack, Last
  <1>3. root'.type \in ContainerTypes
    BY <1>2 DEF CloseRoot, IsContext
  <1>4. ec' = "completed" /\ ahead' = <<>> /\ "completed" \in Outcomes
    BY DEF CloseRoot, Return, Outcomes, parser_error_codes
  <1>5. Decides(ch)
    BY <1>3, <1>4 DEF CloseRoot, Decides
  <1>6. m_contexts' = <<>> /\ UNCHANGED <<m_current_state, m_buffer>>
    BY DEF CloseRoot
  <1>7. IsStack(m_contexts') /\ Len(m_contexts') = 0
    BY <1>6, EmptySeq DEF IsStack, IsSequence
  <1>8. WithinMaxLevels'
    BY <1>7, LimitsAssumption DEF WithinMaxLevels, Core, TypeOK
  <1>9. StateFitsStack' /\ BufferIsFresh'
    BY <1>4, <1>6 DEF StateFitsStack, PutBackFits, BufferIsFresh, Core
  <1>10. QED
    BY <1>4, <1>5, <1>6, <1>7, <1>8, <1>9 DEF Moves, Machine, Core, TypeOK

\* What closing an inner container does to the stack: the top is popped, and
\* stored in what is then the top.
LEMMA StoreChild ==
    ASSUME Core, Len(m_contexts) > 1,
           m_contexts' = Stored(Front(m_contexts), Last(m_contexts).value),
           UNCHANGED m_max_levels
    PROVE  LET res == StoreIn(Front(m_contexts), Last(m_contexts).value)
           IN  /\ IsStack(m_contexts')
               /\ m_contexts' # <<>>
               /\ res.next_state = IF Last(m_contexts').value.type = "object"
                                   THEN "after_value_object" ELSE "after_value_array"
               /\ Last(m_contexts').value.type \in ContainerTypes
               /\ res.err \in {"more_data_needed", "key_already_exists"}
               /\ res.err = "key_already_exists" => Inside("object")'
               /\ WithinMaxLevels'
  <1> DEFINE outer == Front(m_contexts)
             child == Last(m_contexts).value
  <1>1. IsStack(m_contexts) /\ m_contexts # <<>> /\ Len(m_contexts) \in Nat
    BY SequenceIsFunction, EmptySeq DEF Core, TypeOK, IsStack
  <1>2. IsStack(outer) /\ Len(outer) = Len(m_contexts) - 1 /\ outer # <<>>
    BY <1>1, PopStack, EmptySeq
  <1> HIDE DEF outer, child
  <1>3. m_contexts' = Stored(outer, child)
    BY DEF outer, child
  <1>4. /\ IsStack(m_contexts')
        /\ m_contexts' # <<>>
        /\ Len(m_contexts') = Len(outer)
        /\ Last(m_contexts').value.type = Last(outer).value.type
        /\ StoreIn(outer, child).next_state =
                IF Last(outer).value.type = "object"
                THEN "after_value_object" ELSE "after_value_array"
        /\ Last(outer).value.type \in ContainerTypes
        /\ StoreIn(outer, child).err \in {"more_data_needed", "key_already_exists"}
        /\ StoreIn(outer, child).err = "key_already_exists" => Inside("object")'
    BY <1>2, <1>3, StoreInTop DEF Inside
  <1>5. WithinMaxLevels'
    BY <1>1, <1>2, <1>4, LimitsAssumption DEF WithinMaxLevels, Core, TypeOK
  <1>6. QED
    BY <1>4, <1>5 DEF outer, child

\* The state after an inner container is that of the container around it.
LEMMA ClosedInner ==
    ASSUME Core, NEW ch, UNCHANGED <<m_max_levels, m_buffer, root>>,
           m_buffer = <<>>, Consume(ch),
           IsStack(m_contexts'), m_contexts' # <<>>, WithinMaxLevels',
           Last(m_contexts').value.type \in ContainerTypes,
           m_current_state' = IF Last(m_contexts').value.type = "object"
                              THEN "after_value_object" ELSE "after_value_array"
    PROVE  Moves(ch) /\ Machine'
  <1>1. ahead' = <<>>
    BY DEF Consume
  <1>2. Fits' /\ StateFitsStack'
    BY <1>1 DEF Fits, StateFitsStack, PutBackFits, Inside, KeyStates, LeafStates, ContainerTypes
  <1>3. BufferIsFresh'
    BY DEF BufferIsFresh
  <1>4. QED
    BY <1>2, <1>3, EmptySeq DEF Moves, Machine, parser_states

\* parser_state::after_value_array
LEMMA AfterValueArrayStep ==
    ASSUME Core, NEW ch \in Chars, Reads(ch), UNCHANGED m_max_levels,
           AfterValueArray(ch)
    PROVE  Moves(ch) /\ Machine'
  <1>1. m_buffer = <<>> /\ (Inside("array") \/ ch = end_array)
    BY WhileReading DEF AfterValueArray, AfterStates
  <1>2. CASE CloseRoot(ch)
    BY <1>2, CloseRootStep DEF AfterValueArray, AfterStates
  <1>3. CASE EndArray(ch)
    BY <1>1, <1>3, StoreChild, ClosedInner DEF EndArray
  <1>4. CASE ch = value_separator /\ Goto("value") /\ Consume(ch)
    BY <1>1, <1>4, GotoKeepsMachine DEF parser_states, KeyStates, LeafStates, AfterStates
  <1>5. CASE is_whitespace(ch) /\ Skip(ch)
    BY <1>5, SkipKeepsMachine
  <1>6. CASE ch # end_array /\ Fail(ch, "illegal_delimiter")
    BY <1>1, <1>6, FailKeepsMachine DEF Outcomes, parser_error_codes
  <1>7. QED
    BY <1>2, <1>3, <1>4, <1>5, <1>6 DEF AfterValueArray, SkipWhitespaceElse

\* parser_state::after_value_object
LEMMA AfterValueObjectStep ==
    ASSUME Core, NEW ch \in Chars, Reads(ch), UNCHANGED m_max_levels,
           AfterValueObject(ch)
    PROVE  Moves(ch) /\ Machine'
  <1>1. m_buffer = <<>> /\ Inside("object")
    BY WhileReading DEF AfterValueObject, AfterStates
  <1>2. CASE CloseRoot(ch)
    BY <1>2, CloseRootStep DEF AfterValueObject, AfterStates
  <1>3. CASE EndObject(ch)
    <2> DEFINE res == StoreIn(Front(m_contexts), Last(m_contexts).value)
    <2>1. /\ Len(m_contexts) > 1
          /\ m_contexts' = Stored(Front(m_contexts), Last(m_contexts).value)
          /\ UNCHANGED <<m_buffer, root>>
          /\ IF res.err # "more_data_needed"
             THEN Return(ch, res.err) /\ UNCHANGED m_current_state
             ELSE Consume(ch) /\ m_current_state' = res.next_state
      BY <1>3 DEF EndObject
    <2>2. /\ IsStack(m_contexts')
          /\ m_contexts' # <<>>
          /\ res.next_state = IF Last(m_contexts').value.type = "object"
                              THEN "after_value_object" ELSE "after_value_array"
          /\ Last(m_contexts').value.type \in ContainerTypes
          /\ res.err \in {"more_data_needed", "key_already_exists"}
          /\ res.err = "key_already_exists" => Inside("object")'
          /\ WithinMaxLevels'
      BY <2>1, StoreChild
    <2> HIDE DEF res
    <2>3. CASE res.err # "more_data_needed"
      <3>1. Return(ch, "key_already_exists") /\ UNCHANGED m_current_state
        BY <2>1, <2>2, <2>3
      <3>2. ec' \in Outcomes /\ ahead' = <<>> /\ Decides(ch)
        BY <2>1, <3>1 DEF Return, Decides, Outcomes, parser_error_codes
      <3>3. StateFitsStack' /\ BufferIsFresh'
        BY <2>1, <3>1, <3>2 DEF StateFitsStack, PutBackFits, BufferIsFresh, Core
      <3>4. m_current_state = "after_value_object"
        BY DEF AfterValueObject
      <3>5. Fits'
        BY <2>2, <2>3, <3>1, <3>4 DEF Fits, LeafStates
      <3>6. QED
        BY <2>1, <2>2, <3>1, <3>2, <3>3, <3>5 DEF Moves, Machine, Core, TypeOK
    <2>4. CASE res.err = "more_data_needed"
      BY <1>1, <2>1, <2>2, <2>4, ClosedInner
    <2>5. QED
      BY <2>3, <2>4
  <1>4. CASE ch = value_separator /\ Goto("before_key") /\ Consume(ch)
    BY <1>1, <1>4, GotoKeepsMachine DEF parser_states, KeyStates, LeafStates, AfterStates
  <1>5. CASE is_whitespace(ch) /\ Skip(ch)
    BY <1>5, SkipKeepsMachine
  <1>6. CASE Fail(ch, "illegal_delimiter")
    BY <1>6, FailKeepsMachine DEF AfterValueObject, Outcomes, parser_error_codes
  <1>7. QED
    BY <1>2, <1>3, <1>4, <1>5, <1>6 DEF AfterValueObject, SkipWhitespaceElse

\* Every iteration, whatever the state.
LEMMA IterationStep ==
    ASSUME Core, NEW ch \in Chars, Iteration(ch)
    PROVE  Moves(ch) /\ Machine'
  <1>1. Reads(ch) /\ UNCHANGED m_max_levels
    BY DEF Iteration
  <1>2. CASE TopOfEmptyStack(ch)
    BY <1>1, <1>2, FailKeepsMachine DEF TopOfEmptyStack, Outcomes
  <1>3. QED
    BY <1>1, <1>2, ValueStep, LiteralStep, StringValueStep, StringValueEscSeqStep,
       BeforeKeyStep, KeyStep, KeyEscSeqStep, BeforeValueStep, AfterValueObjectStep,
       AfterValueArrayStep DEF Iteration
-----------------------------------------------------------------------------
(* What has been read, and the position.                                   *)

\* The newlines of a text with one character more.
LEMMA NewlinesAppend ==
    ASSUME NEW t \in Seq(Chars), NEW ch \in Chars, NEW n \in 0 .. Len(t)
    PROVE  /\ IsFiniteSet(Newlines(t, n))
           /\ Cardinality(Newlines(t, n)) \in Nat
           /\ Newlines(Append(t, ch), n) = Newlines(t, n)
           /\ Newlines(Append(t, ch), Len(t) + 1) =
                Newlines(t, Len(t)) \cup (IF ch = Newline THEN {Len(t) + 1} ELSE {})
           /\ Cardinality(Newlines(Append(t, ch), Len(t) + 1)) =
                Cardinality(Newlines(t, Len(t))) + (IF ch = Newline THEN 1 ELSE 0)
  <1>1. /\ Append(t, ch) \in Seq(Chars)
        /\ Len(t) \in Nat
        /\ Len(Append(t, ch)) = Len(t) + 1
        /\ \A i \in 1 .. Len(t) : Append(t, ch)[i] = t[i]
        /\ Append(t, ch)[Len(t) + 1] = ch
    BY AppendProperties, LenProperties
  <1>2. \A m \in 0 .. Len(t) :
            /\ IsFiniteSet(Newlines(t, m))
            /\ Cardinality(Newlines(t, m)) \in Nat
            /\ Newlines(Append(t, ch), m) = Newlines(t, m)
    <2> TAKE m \in 0 .. Len(t)
    <2>1. m \in Int /\ IsFiniteSet(1 .. m)
      BY <1>1, FS_Interval
    <2>2. Newlines(t, m) \subseteq 1 .. m
      BY DEF Newlines
    <2>3. IsFiniteSet(Newlines(t, m)) /\ Cardinality(Newlines(t, m)) \in Nat
      BY <2>1, <2>2, FS_Subset, FS_CardinalityType
    <2>4. Newlines(Append(t, ch), m) = Newlines(t, m)
      BY <1>1 DEF Newlines
    <2>5. QED
      BY <2>3, <2>4
  <1>3. Newlines(Append(t, ch), Len(t) + 1) =
            Newlines(t, Len(t)) \cup (IF ch = Newline THEN {Len(t) + 1} ELSE {})
    BY <1>1 DEF Newlines
  <1>4. Cardinality(Newlines(Append(t, ch), Len(t) + 1)) =
            Cardinality(Newlines(t, Len(t))) + (IF ch = Newline THEN 1 ELSE 0)
    <2>1. Len(t) + 1 \notin Newlines(t, Len(t))
      BY <1>1 DEF Newlines
    <2>2. IsFiniteSet(Newlines(t, Len(t))) /\ Cardinality(Newlines(t, Len(t))) \in Nat
      BY <1>1, <1>2
    <2>3. CASE ch = Newline
      BY <1>3, <2>1, <2>2, <2>3, FS_AddElement
    <2>4. CASE ch # Newline
      <3>1. Newlines(Append(t, ch), Len(t) + 1) = Newlines(t, Len(t))
        BY <1>3, <2>4
      <3>2. QED
        BY <2>2, <2>4, <3>1
    <2>5. QED
      BY <2>3, <2>4
  <1>5. QED
    BY <1>2, <1>3, <1>4

\* The variables that tell what has been read keep their types.
WhatIsRead ==
    /\ m_line \in Nat \ {0}
    /\ m_col \in Nat \ {0}
    /\ root.type \in ContainerTypes
    /\ ec \in {"not_called", "running", "more_data_needed"} \cup Outcomes
    /\ text \in Seq(Chars)
    /\ ahead \in {<<>>} \cup {<<ch>> : ch \in Chars}

LEMMA WhatIsReadStep ==
    ASSUME TypeOK, NEW ch \in Chars, Reads(ch), Moves(ch)
    PROVE  WhatIsRead'
  <1>1. Append(text, ch) \in Seq(Chars)
    BY AppendProperties DEF TypeOK
  <1>2. CASE Consume(ch) /\ root' = root
    BY <1>1, <1>2 DEF Consume, WhatIsRead, TypeOK
  <1>3. CASE PutBack(ch) /\ root' = root
    BY <1>3 DEF PutBack, position, WhatIsRead, TypeOK
  <1>4. CASE Decides(ch)
    BY <1>1, <1>4 DEF Decides, Return, position, WhatIsRead, TypeOK
  <1>5. QED
    BY <1>2, <1>3, <1>4 DEF Moves

\* The position follows what is consumed, and stays when the parse is decided.
LEMMA PositionStep ==
    ASSUME Inv, NEW ch \in Chars, Reads(ch), Moves(ch)
    PROVE  PositionMatchesText'
  <1> DEFINE n == Len(text)
  <1>1. text \in Seq(Chars) /\ n \in Nat /\ ec \notin Outcomes /\ ec = "running"
    BY LenProperties, WhileReading DEF Inv, Core, TypeOK
  <1>2. Passed = n
    BY <1>1 DEF Passed
  <1>3. /\ m_line = 1 + Cardinality(Newlines(text, n))
        /\ m_col \in 1 .. n + 1
        /\ m_col <= n => text[n + 1 - m_col] = Newline
        /\ \A i \in Newlines(text, n) : i <= n + 1 - m_col
    BY <1>2 DEF Inv, Core, PositionMatchesText
  <1>4. /\ Len(Append(text, ch)) = n + 1
        /\ \A i \in 1 .. n : Append(text, ch)[i] = text[i]
        /\ Append(text, ch)[n + 1] = ch
    BY <1>1, AppendProperties
  <1>5. n \in 0 .. n
    BY <1>1
  <1>6. /\ Newlines(Append(text, ch), n) = Newlines(text, n)
        /\ Newlines(Append(text, ch), n + 1) =
                Newlines(text, n) \cup (IF ch = Newline THEN {n + 1} ELSE {})
        /\ Cardinality(Newlines(Append(text, ch), n + 1)) =
                Cardinality(Newlines(text, n)) + (IF ch = Newline THEN 1 ELSE 0)
        /\ Cardinality(Newlines(text, n)) \in Nat
    BY <1>1, <1>5, NewlinesAppend
  <1>7. CASE Consume(ch)
    <2>1. Passed' = n + 1 /\ text' = Append(text, ch)
      BY <1>1, <1>4, <1>7 DEF Consume, Passed
    <2>2. m_line' = 1 + Cardinality(Newlines(text', Passed'))
      BY <1>3, <1>6, <1>7, <2>1 DEF Consume
    <2>3. CASE ch = Newline
      <3>1. m_col' = 1
        BY <1>7, <2>3 DEF Consume
      <3>2. \A i \in Newlines(text', Passed') : i <= n + 1
        BY <1>1, <2>1 DEF Newlines
      <3>3. QED
        BY <1>1, <1>4, <2>1, <2>2, <2>3, <3>1, <3>2 DEF PositionMatchesText
    <2>4. CASE ch # Newline
      <3>1. m_col' = m_col + 1
        BY <1>7, <2>4 DEF Consume
      <3>2. Newlines(text', Passed') = Newlines(text, n)
        BY <1>6, <2>1, <2>4
      <3>3. m_col' <= n + 1 => text'[n + 2 - m_col'] = Newline
        BY <1>1, <1>3, <1>4, <2>1, <3>1
      <3>4. QED
        BY <1>1, <1>3, <2>1, <2>2, <3>1, <3>2, <3>3 DEF PositionMatchesText
    <2>5. QED
      BY <2>3, <2>4
  <1>8. CASE PutBack(ch)
    <2>1. UNCHANGED <<text, ec, m_line, m_col>>
      BY <1>8 DEF PutBack, position
    <2>2. Passed' = n
      BY <1>2, <2>1 DEF Passed
    <2>3. QED
      BY <1>3, <2>1, <2>2 DEF PositionMatchesText
  <1>9. CASE Decides(ch)
    <2>1. /\ UNCHANGED <<m_line, m_col>>
          /\ text' = Append(text, ch)
          /\ ec' \in Outcomes
      BY <1>9 DEF Decides, Return, position
    <2>2. Passed' = n
      BY <1>1, <1>4, <2>1 DEF Passed
    <2>3. m_col <= n => text'[n + 1 - m_col] = Newline
      BY <1>1, <1>3, <1>4, <2>1
    <2>4. QED
      BY <1>3, <1>6, <2>1, <2>2, <2>3 DEF PositionMatchesText
  <1>10. QED
    BY <1>7, <1>8, <1>9 DEF Moves
-----------------------------------------------------------------------------
(* Before, inside and after the root container.                            *)

\* Once a container is open, the stack is emptied only by completing the
\* parse, and its top is always there when it is asked for.
LEMMA InsideStep ==
    ASSUME Core, NEW ch \in Chars, Iteration(ch), m_contexts # <<>>
    PROVE  ec' # "undefined" /\ (m_contexts' # <<>> \/ ec' = "completed")
  <1>1. Reads(ch) /\ ec = "running" /\ IsStack(m_contexts)
    BY WhileReading DEF Iteration
  <1> DEFINE Goal == ec' # "undefined" /\ (m_contexts' # <<>> \/ ec' = "completed")
  <1>2. ASSUME NEW code, Fail(ch, code), code # "undefined"
        PROVE  Goal
    BY <1>2 DEF Fail, Return
  <1>3. ASSUME NEW state, Goto(state), Consume(ch) \/ PutBack(ch)
        PROVE  Goal
    BY <1>1, <1>3 DEF Goto, Consume, PutBack
  <1>4. ASSUME NEW state, NEW c, Collect(c, state), Consume(ch)
        PROVE  Goal
    BY <1>1, <1>4 DEF Collect, Consume
  <1>5. ASSUME NEW value, NEW done, StoreLeaf(ch, value, done),
               done => Consume(ch) \/ PutBack(ch)
        PROVE  Goal
    <2>1. /\ Stored(m_contexts, value) # <<>>
          /\ StoreIn(m_contexts, value).err \in {"more_data_needed", "key_already_exists"}
      BY <1>1, StoreInTop
    <2>2. QED
      BY <1>1, <1>5, <2>1 DEF StoreLeaf, Return, Consume, PutBack
  <1>6. ASSUME NEW container, NEW state, Open(ch, container, state)
        PROVE  Goal
    <2>1. \A c : Append(m_contexts, c) # <<>>
      BY <1>1, Push DEF IsStack
    <2>2. QED
      BY <1>1, <1>2, <1>6, <2>1 DEF Open, Consume
  <1>7. CASE CloseRoot(ch)
    BY <1>7 DEF CloseRoot, Return
  <1>8. CASE EndArray(ch) \/ EndObject(ch)
    <2>1. /\ Len(m_contexts) > 1
          /\ m_contexts' = Stored(Front(m_contexts), Last(m_contexts).value)
          /\ UNCHANGED m_max_levels
      BY <1>8 DEF EndArray, EndObject, Iteration
    <2>2. /\ m_contexts' # <<>>
          /\ StoreIn(Front(m_contexts), Last(m_contexts).value).err
                \in {"more_data_needed", "key_already_exists"}
      BY <2>1, StoreChild
    <2>3. QED
      BY <1>1, <1>8, <2>2 DEF EndArray, EndObject, Consume, Return
  <1>9. CASE Key(ch)
    <2>1. m_buffer \in Seq(TextChars)
      BY <1>1, WhileReading
    <2>2. [m_contexts EXCEPT ![Len(m_contexts)].key = m_buffer] # <<>>
      BY <1>1, <2>1, SetKey
    <2>3. QED
      BY <1>1, <1>2, <1>3, <1>4, <1>9, <2>2 DEF Key, Consume
  <1>10. CASE Value(ch)
    BY <1>2, <1>3, <1>4, <1>6, <1>10 DEF Value, InContainer, Skip, Reread
  <1>11. CASE Literal(ch)
    <2> DEFINE done == IF is_whitespace(ch) THEN Consume(ch) ELSE PutBack(ch)
    <2>1. done => Consume(ch) \/ PutBack(ch)
      OBVIOUS
    <2>2. CASE StoreLeaf(ch, make_value(m_buffer), done)
      <3> HIDE DEF done
      <3>1. QED
        BY <1>5, <2>1, <2>2
    <2>3. QED
      BY <1>2, <1>4, <1>11, <2>2 DEF Literal
  <1>12. CASE StringValue(ch)
    BY <1>2, <1>3, <1>4, <1>5, <1>12 DEF StringValue
  <1>13. CASE StringValueEscSeq(ch) \/ KeyEscSeq(ch)
    BY <1>2, <1>4, <1>13 DEF StringValueEscSeq, KeyEscSeq
  <1>14. CASE BeforeKey(ch) \/ BeforeValue(ch)
    BY <1>2, <1>3, <1>14 DEF BeforeKey, BeforeValue, SkipWhitespaceElse, Skip, Reread
  <1>15. CASE AfterValueObject(ch) \/ AfterValueArray(ch)
    BY <1>2, <1>3, <1>7, <1>8, <1>15 DEF AfterValueObject, AfterValueArray,
       SkipWhitespaceElse, Skip
  <1>16. QED
    BY <1>9, <1>10, <1>11, <1>12, <1>13, <1>14, <1>15 DEF Iteration

\* Outside of any container only white space keeps the parse going, and a ]
\* alone leads to the top of an empty stack.
LEMMA UndefinedStep ==
    ASSUME Inv, NEW ch \in Chars, Iteration(ch)
    PROVE  UndefinedOnlyOnStrayBracket'
  <1>1. Reads(ch) /\ ec = "running" /\ ec \notin Outcomes /\ IsStack(m_contexts)
    BY WhileReading DEF Iteration, Inv
  <1>2. CASE m_contexts # <<>>
    <2>1. ec' # "undefined" /\ (m_contexts' = <<>> => ec' \in Outcomes)
      BY <1>2, InsideStep DEF Inv, Outcomes, parser_error_codes
    <2>2. QED
      BY <2>1 DEF UndefinedOnlyOnStrayBracket
  <1>3. CASE m_contexts = <<>>
    <2>1. /\ OnlyBlanks(Len(text))
          /\ \/ m_current_state = "value"
             \/ m_current_state = "after_value_array" /\ ahead = <<end_array>>
      BY <1>1, <1>3 DEF Inv, Core, UndefinedOnlyOnStrayBracket
    <2>2. /\ Len(text) \in Nat
          /\ Len(Append(text, ch)) = Len(text) + 1
          /\ \A i \in 1 .. Len(text) : Append(text, ch)[i] = text[i]
          /\ Append(text, ch)[Len(text) + 1] = ch
      BY AppendProperties, LenProperties DEF Inv, Core, TypeOK
    <2>3. CASE m_current_state = "after_value_array" /\ ahead = <<end_array>>
      <3>1. ch = end_array
        BY <1>1, <2>3 DEF Reads
      <3>2. TopOfEmptyStack(ch)
        BY <1>3, <2>3, <3>1 DEF Iteration, UsesTop
      <3>3. text' = Append(text, ch) /\ ec' = "undefined"
        BY <3>2 DEF TopOfEmptyStack, Fail, Return
      <3>4. OnlyBlanks(Len(text) - 1)' /\ text'[Len(text')] = end_array
        BY <2>1, <2>2, <3>1, <3>3 DEF OnlyBlanks
      <3>5. QED
        BY <3>3, <3>4 DEF UndefinedOnlyOnStrayBracket, Outcomes
    <2>4. CASE m_current_state = "value"
      <3>1. ~UsesTop(ch)
        BY <2>4 DEF UsesTop
      <3>2. Value(ch)
        BY <2>4, <3>1 DEF Iteration, Literal, StringValue, StringValueEscSeq, BeforeKey,
           Key, KeyEscSeq, BeforeValue, AfterValueObject, AfterValueArray
      <3>3. ASSUME NEW code \in Outcomes \ {"undefined"}, Fail(ch, code)
            PROVE  UndefinedOnlyOnStrayBracket'
        BY <3>3 DEF Fail, Return, UndefinedOnlyOnStrayBracket
      <3>4. ASSUME NEW container, NEW state, Open(ch, container, state)
            PROVE  UndefinedOnlyOnStrayBracket'
        <4>1. CASE Fail(ch, "nesting_level_too_deep")
          BY <3>3, <4>1 DEF Outcomes, parser_error_codes
        <4>2. CASE ~Fail(ch, "nesting_level_too_deep")
          <5>1. \A c : Append(m_contexts, c) # <<>>
            BY <1>1, Push DEF IsStack
          <5>2. m_contexts' # <<>> /\ ec' = "running"
            BY <1>1, <3>4, <4>2, <5>1 DEF Open, Consume
          <5>3. QED
            BY <5>2 DEF UndefinedOnlyOnStrayBracket
        <4>3. QED
          BY <4>1, <4>2
      <3>5. CASE Reread(ch, "after_value_array") /\ ch = end_array
        <4>1. /\ text' = text /\ ahead' = <<end_array>> /\ ec' = "running"
              /\ m_current_state' = "after_value_array"
          BY <1>1, <3>5 DEF Reread, Goto, PutBack
        <4>2. OnlyBlanks(Len(text))'
          BY <2>1, <4>1 DEF OnlyBlanks
        <4>3. QED
          BY <4>1, <4>2 DEF UndefinedOnlyOnStrayBracket
      <3>6. CASE is_whitespace(ch) /\ Skip(ch)
        <4>1. /\ text' = Append(text, ch) /\ ec' = "running"
              /\ m_current_state' = "value"
          BY <1>1, <2>4, <3>6 DEF Skip, Goto, Consume
        <4>2. OnlyBlanks(Len(text))'
          BY <2>1, <2>2, <3>6, <4>1 DEF OnlyBlanks
        <4>3. QED
          BY <4>1, <4>2 DEF UndefinedOnlyOnStrayBracket
      <3>7. CASE Fail(ch, "no_top_level_node")
        BY <3>3, <3>7 DEF Outcomes, parser_error_codes
      <3>8. QED
        BY <1>3, <3>2, <3>4, <3>5, <3>6, <3>7 DEF Value, InContainer
    <2>5. QED
      BY <2>1, <2>3, <2>4
  <1>4. QED
    BY <1>2, <1>3

\* What the machine and its stack need is kept by every iteration.
LEMMA CoreStep ==
    ASSUME Core, NEW ch \in Chars, Iteration(ch)
    PROVE  Core'
  <1>1. Reads(ch) /\ UNCHANGED m_max_levels
    BY DEF Iteration
  <1>2. Moves(ch) /\ Machine'
    BY IterationStep
  <1>3. WhatIsRead'
    BY <1>1, <1>2, WhatIsReadStep DEF Core
  <1>4. (m_max_levels \in Limits)'
    BY <1>1 DEF Core, TypeOK
  <1>5. QED
    BY <1>2, <1>3, <1>4 DEF Core, TypeOK, Machine, WhatIsRead
-----------------------------------------------------------------------------
(* The theorems.                                                           *)

\* A parser before its first call is in order.
LEMMA InitInv == Init => Inv
  <1> SUFFICES ASSUME Init PROVE Inv
    OBVIOUS
  <1>1. IsStack(<<>>)
    BY EmptySeq DEF IsStack, IsSequence
  <1>2. TypeOK
    BY <1>1, EmptySeq DEF Init, TypeOK, parser_states, DefaultContainer, Object,
       ContainerTypes
  <1>3. StateFitsStack /\ BufferIsFresh
    BY DEF Init, StateFitsStack, PutBackFits, Fits, BufferIsFresh, KeyStates, LeafStates, AfterStates
  <1>4. WithinMaxLevels
    BY LimitsAssumption, EmptySeq DEF Init, WithinMaxLevels
  <1>5. UndefinedOnlyOnStrayBracket
    BY EmptySeq DEF Init, UndefinedOnlyOnStrayBracket, OnlyBlanks
  <1>6. PositionMatchesText
    <2>1. Passed = 0
      BY EmptySeq DEF Init, Passed, Outcomes, parser_error_codes
    <2>2. Newlines(text, 0) = {}
      BY DEF Newlines
    <2>3. QED
      BY <2>1, <2>2, FS_EmptySet DEF Init, PositionMatchesText
  <1>7. QED
    BY <1>2, <1>3, <1>4, <1>5, <1>6 DEF Inv, Core

\* Beginning or ending a call changes nothing but ec.
LEMMA CallStep ==
    ASSUME Inv, Parse \/ EndOfInput
    PROVE  Inv'
  <1>1. /\ ec \notin Outcomes /\ ec' \in {"running", "more_data_needed"}
        /\ ec' \notin Outcomes /\ ahead = <<>>
    BY DEF Parse, EndOfInput, Outcomes, parser_error_codes, Inv, Core, StateFitsStack, PutBackFits
  <1>2. UNCHANGED <<m_line, m_col, m_current_state, m_max_levels, m_contexts,
                    m_buffer, root, text, ahead>>
    BY DEF Parse, EndOfInput, position
  <1>3. TypeOK'
    BY <1>1, <1>2 DEF Inv, Core, TypeOK
  <1>4. StateFitsStack' /\ BufferIsFresh' /\ WithinMaxLevels'
    BY <1>1, <1>2 DEF Inv, Core, StateFitsStack, PutBackFits, Fits, Inside, BufferIsFresh, WithinMaxLevels
  <1>5. UndefinedOnlyOnStrayBracket'
    BY <1>1, <1>2 DEF Inv, Core, UndefinedOnlyOnStrayBracket, OnlyBlanks
  <1>6. Passed' = Passed
    BY <1>1, <1>2 DEF Passed
  <1>7. PositionMatchesText'
    BY <1>2, <1>6 DEF Inv, Core, PositionMatchesText
  <1>8. QED
    BY <1>3, <1>4, <1>5, <1>7 DEF Inv, Core

\* Every step keeps the invariant.
LEMMA NextInv == Inv /\ [Next]_vars => Inv'
  <1> SUFFICES ASSUME Inv, [Next]_vars PROVE Inv'
    OBVIOUS
  <1>1. CASE Parse \/ EndOfInput
    BY <1>1, CallStep
  <1>2. ASSUME NEW ch \in Chars, Iteration(ch)
        PROVE  Inv'
    <2>1. Reads(ch) /\ UNCHANGED m_max_levels
      BY <1>2 DEF Iteration
    <2>2. Moves(ch) /\ Machine'
      BY <1>2, IterationStep DEF Inv
    <2>3. WhatIsRead' /\ PositionMatchesText'
      BY <2>1, <2>2, WhatIsReadStep, PositionStep DEF Inv, Core
    <2>4. UndefinedOnlyOnStrayBracket'
      BY <1>2, UndefinedStep
    <2>5. (m_max_levels \in Limits)'
      BY <2>1 DEF Inv, Core, TypeOK
    <2>6. QED
      BY <2>2, <2>3, <2>4, <2>5 DEF Inv, Core, TypeOK, Machine, WhatIsRead
  <1>3. CASE UNCHANGED vars
    <2>1. Passed' = Passed
      BY <1>3 DEF vars, Passed
    <2>2. QED
      BY <1>3, <2>1 DEF vars, position, Inv, Core, TypeOK, StateFitsStack, PutBackFits, Fits, Inside,
         BufferIsFresh, WithinMaxLevels, UndefinedOnlyOnStrayBracket, OnlyBlanks,
         PositionMatchesText
  <1>4. QED
    BY <1>1, <1>2, <1>3 DEF Next

\* The inductive invariant holds of every run of a parser.
THEOREM Invariance == Spec => []Inv
  <1>1. QED
    BY InitInv, NextInv, PTL DEF Spec

\* Type correctness.
THEOREM TypeCorrectness == Spec => []TypeOK
  <1>1. Inv => TypeOK
    BY DEF Inv, Core
  <1>2. QED
    BY <1>1, Invariance, PTL

\* parse never reads a key outside an object, nor separates elements outside
\* an array, but for the ] it has put back.
THEOREM MachineFitsStack == Spec => []StateFitsStack
  <1>1. Inv => StateFitsStack
    BY DEF Inv, Core
  <1>2. QED
    BY <1>1, Invariance, PTL

\* m_buffer is empty whenever a key, a string or a literal may begin.
THEOREM BufferFreshness == Spec => []BufferIsFresh
  <1>1. Inv => BufferIsFresh
    BY DEF Inv, Core
  <1>2. QED
    BY <1>1, Invariance, PTL

\* The depth limit is kept by a test for equality alone, on every input.
THEOREM DepthLimit == Spec => []WithinMaxLevels
  <1>1. Inv => WithinMaxLevels
    BY DEF Inv, Core
  <1>2. QED
    BY <1>1, Invariance, PTL

\* The only inputs on which parse takes the top of an empty stack are those
\* that start, after white space, with a ].
THEOREM DefinedBehaviour == Spec => []UndefinedOnlyOnStrayBracket
  <1>1. Inv => UndefinedOnlyOnStrayBracket
    BY DEF Inv, Core
  <1>2. QED
    BY <1>1, Invariance, PTL

\* The line and column of every result are those of the text, however it was
\* cut into chunks and wherever ptr was stepped back.
THEOREM PositionCorrectness == Spec => []PositionMatchesText
  <1>1. Inv => PositionMatchesText
    BY DEF Inv, Core
  <1>2. QED
    BY <1>1, Invariance, PTL

\* No character is put back twice.
LEMMA PutBackStep == Inv /\ [Next]_vars => [ahead # <<>> => text' # text]_vars
  <1> SUFFICES ASSUME Inv, Next, ahead # <<>> PROVE text' # text
    OBVIOUS
  <1>1. m_current_state \in AfterStates /\ ec = "running"
    BY DEF Inv, Core, StateFitsStack, PutBackFits
  <1>2. PICK ch \in Chars : Iteration(ch)
    BY <1>1 DEF Next, Parse, EndOfInput
  <1>3. Append(text, ch) # text
    BY AppendProperties, LenProperties DEF Inv, Core, TypeOK
  <1>4. text' = Append(text, ch)
    <2>1. CASE TopOfEmptyStack(ch)
      BY <2>1 DEF TopOfEmptyStack, Fail, Return
    <2>2. CASE AfterValueObject(ch) \/ AfterValueArray(ch)
      BY <2>2 DEF AfterValueObject, AfterValueArray, CloseRoot, EndObject, EndArray,
         SkipWhitespaceElse, Skip, Fail, Consume, Return
    <2>3. QED
      BY <1>1, <1>2, <2>1, <2>2 DEF Iteration, AfterStates, Value, Literal,
         StringValue, StringValueEscSeq, BeforeKey, Key, KeyEscSeq, BeforeValue
  <1>5. QED
    BY <1>3, <1>4

\* The loop never spins on a character it puts back.
THEOREM PutBackTermination == Spec => PutBackIsConsumed
  <1>1. QED
    BY Invariance, PutBackStep, PTL DEF Spec, PutBackIsConsumed
\* One step of a parser is a step of the protocol, or none.
LEMMA ProtocolStep == Inv /\ [Next]_vars => [Protocol!Next]_Protocol!vars
  <1> SUFFICES ASSUME Inv, [Next]_vars PROVE [Protocol!Next]_Protocol!vars
    OBVIOUS
  <1>1. CASE Parse
    <2>1. Protocol!Call
      BY <1>1 DEF Parse, Protocol!Call
    <2>2. QED
      BY <2>1 DEF Protocol!Next
  <1>2. CASE EndOfInput
    <2>1. Protocol!Suspend
      BY <1>2 DEF EndOfInput, Protocol!Suspend
    <2>2. QED
      BY <2>1 DEF Protocol!Next
  <1>3. ASSUME NEW ch \in Chars, Iteration(ch)
        PROVE  [Protocol!Next]_Protocol!vars
    <2>1. Moves(ch) /\ ec = "running"
      BY <1>3, IterationStep DEF Inv, Iteration, Reads
    <2>2. CASE Consume(ch) /\ root' = root
      <3>1. Protocol!Advance
        BY <2>1, <2>2 DEF Consume, Protocol!Advance
      <3>2. QED
        BY <3>1 DEF Protocol!Next
    <2>3. CASE PutBack(ch) /\ root' = root
      BY <2>3 DEF PutBack, Protocol!vars
    <2>4. CASE Decides(ch)
      <3>1. PICK code \in Outcomes :
                /\ Return(ch, code)
                /\ IF code = "completed"
                   THEN root'.type \in ContainerTypes ELSE root' = root
        BY <2>4 DEF Decides
      <3>2. CASE code = "completed"
        <4>1. Protocol!Deliver
          BY <2>1, <3>1, <3>2 DEF Return, Protocol!Deliver, ContainerTypes
        <4>2. QED
          BY <4>1 DEF Protocol!Next
      <3>3. CASE code # "completed"
        <4>1. Protocol!Abort
          BY <2>1, <3>1, <3>3 DEF Return, Protocol!Abort
        <4>2. QED
          BY <4>1 DEF Protocol!Next
      <3>4. QED
        BY <3>2, <3>3
    <2>5. QED
      BY <2>1, <2>2, <2>3, <2>4 DEF Moves
  <1>4. CASE UNCHANGED vars
    BY <1>4 DEF vars, Protocol!vars
  <1>5. QED
    BY <1>1, <1>2, <1>3, <1>4 DEF Next

\* The parser implements the protocol: input is consumed in order and never
\* given back, results are final, and the caller's container is written when
\* the parse completes and at no other time.
THEOREM Implementation == Spec => ImplementsProtocol
  <1>1. Init => Protocol!Init
    BY DEF Init, Protocol!Init
  <1>2. QED
    BY <1>1, Invariance, ProtocolStep, PTL DEF Spec, ImplementsProtocol, Protocol!Spec
-----------------------------------------------------------------------------
(* Open containers only grow.                                              *)

\* What both stacks of a step have holds at least what it did.
Grows ==
    \A i \in DOMAIN m_contexts \cap DOMAIN m_contexts' :
        Extended(m_contexts[i].value, m_contexts'[i].value)

\* A stack grows when its contexts are those it had, or more.
LEMMA GrowsBy ==
    ASSUME IsStack(m_contexts), NEW n \in Nat,
           \A i \in 1 .. n : i \in DOMAIN m_contexts =>
                m_contexts'[i].value = m_contexts[i].value,
           DOMAIN m_contexts \cap DOMAIN m_contexts' \subseteq 1 .. n
    PROVE  Grows
  <1> SUFFICES ASSUME NEW i \in DOMAIN m_contexts \cap DOMAIN m_contexts'
               PROVE  Extended(m_contexts[i].value, m_contexts'[i].value)
    BY DEF Grows
  <1>1. IsContext(m_contexts[i]) /\ i \in 1 .. n
    BY SequenceIsFunction DEF IsStack
  <1>2. QED
    BY <1>1, ExtendedReflexive

LEMMA StoreGrows ==
    ASSUME IsStack(m_contexts), m_contexts # <<>>, NEW value,
           m_contexts' = Stored(m_contexts, value)
    PROVE  Grows
  <1>1. /\ DOMAIN m_contexts = 1 .. Len(m_contexts)
        /\ \A i \in 1 .. Len(m_contexts) :
                Extended(m_contexts[i].value, m_contexts'[i].value)
    BY SequenceIsFunction, StoreInTop DEF IsStack
  <1>2. QED
    BY <1>1 DEF Grows

\* One iteration loses nothing that an open container holds.
LEMMA GrowthStep ==
    ASSUME Core, NEW ch \in Chars, Iteration(ch)
    PROVE  Grows
  <1>1. /\ Reads(ch) /\ IsStack(m_contexts) /\ m_buffer \in Seq(TextChars)
        /\ Len(m_contexts) \in Nat /\ DOMAIN m_contexts = 1 .. Len(m_contexts)
    BY WhileReading, SequenceIsFunction DEF Iteration, IsStack
  <1>2. ASSUME m_contexts' = m_contexts
        PROVE  Grows
    BY <1>1, <1>2, GrowsBy
  <1>3. ASSUME NEW c, m_contexts' = Append(m_contexts, c)
        PROVE  Grows
    <2>1. \A i \in 1 .. Len(m_contexts) : m_contexts'[i] = m_contexts[i]
      BY <1>1, <1>3, Push DEF IsStack
    <2>2. QED
      BY <1>1, <2>1, GrowsBy
  <1>4. ASSUME m_contexts # <<>>,
               m_contexts' = [m_contexts EXCEPT ![Len(m_contexts)].key = m_buffer]
        PROVE  Grows
    <2>1. \A i \in 1 .. Len(m_contexts) : IsContext(m_contexts[i])
      BY <1>1 DEF IsStack
    <2>2. \A i \in 1 .. Len(m_contexts) : m_contexts'[i].value = m_contexts[i].value
      BY <1>1, <1>4, <2>1 DEF IsContext
    <2>3. QED
      BY <1>1, <2>2, GrowsBy
  <1>5. ASSUME Len(m_contexts) > 1,
               m_contexts' = Stored(Front(m_contexts), Last(m_contexts).value)
        PROVE  Grows
    <2> DEFINE outer == Front(m_contexts)
               n == Len(m_contexts) - 1
    <2>1. m_contexts # <<>> /\ n \in Nat
      BY <1>1, <1>5, EmptySeq
    <2>2. /\ IsStack(outer)
          /\ Len(outer) = n
          /\ \A i \in 1 .. n : outer[i] = m_contexts[i]
      BY <1>1, <2>1, PopStack, Pop DEF IsStack
    <2>3. outer # <<>>
      BY <1>5, <2>2, EmptySeq
    <2> HIDE DEF outer
    <2>4. m_contexts' = Stored(outer, Last(m_contexts).value)
      BY <1>5 DEF outer
    <2>5. /\ IsStack(m_contexts')
          /\ Len(m_contexts') = n
          /\ \A i \in 1 .. n : Extended(outer[i].value, m_contexts'[i].value)
      BY <2>2, <2>3, <2>4, StoreInTop
    <2>6. DOMAIN m_contexts' = 1 .. n
      BY <2>5, SequenceIsFunction DEF IsStack
    <2>7. QED
      BY <2>2, <2>5, <2>6 DEF Grows
  <1>6. ASSUME m_contexts' = <<>>
        PROVE  Grows
    BY <1>6, EmptySeq DEF Grows
  <1>7. CASE TopOfEmptyStack(ch)
    BY <1>2, <1>7 DEF TopOfEmptyStack, Fail
  <1>8. CASE m_contexts # <<>> \/ ~UsesTop(ch)
    <2>1. CASE Value(ch)
      BY <1>2, <1>3, <2>1 DEF Value, InContainer, Open, Reread, Goto, Skip, Fail, Collect
    <2>2. CASE Literal(ch)
      BY <1>1, <1>2, <1>8, <2>2, StoreGrows DEF Literal, StoreLeaf, Fail, Collect, UsesTop
    <2>3. CASE StringValue(ch)
      BY <1>1, <1>2, <1>8, <2>3, StoreGrows DEF StringValue, StoreLeaf, Fail, Goto,
         Collect, UsesTop
    <2>4. CASE StringValueEscSeq(ch) \/ KeyEscSeq(ch)
      BY <1>2, <2>4 DEF StringValueEscSeq, KeyEscSeq, Fail, Collect
    <2>5. CASE BeforeKey(ch) \/ BeforeValue(ch)
      BY <1>2, <2>5 DEF BeforeKey, BeforeValue, SkipWhitespaceElse, Skip, Reread, Goto, Fail
    <2>6. CASE Key(ch)
      BY <1>2, <1>4, <1>8, <2>6 DEF Key, Goto, Fail, Collect, UsesTop
    <2>7. CASE AfterValueObject(ch) \/ AfterValueArray(ch)
      BY <1>2, <1>5, <1>6, <2>7 DEF AfterValueObject, AfterValueArray, CloseRoot,
         EndObject, EndArray, SkipWhitespaceElse, Skip, Goto, Fail
    <2>8. QED
      BY <1>8, <2>1, <2>2, <2>3, <2>4, <2>5, <2>6, <2>7 DEF Iteration
  <1>9. QED
    BY <1>7, <1>8 DEF Iteration

\* The value first stored under a key is the value the object keeps, and the
\* elements of an array keep their places.
THEOREM Growth == Spec => OpenContainersGrow
  <1>1. Core /\ [Next]_vars => [Grows]_vars
    <2> SUFFICES ASSUME Core, Next PROVE Grows
      OBVIOUS
    <2>1. CASE Parse \/ EndOfInput
      <3>1. m_contexts' = m_contexts /\ IsStack(m_contexts)
        BY <2>1 DEF Parse, EndOfInput, Core, TypeOK
      <3>2. Len(m_contexts) \in Nat /\ DOMAIN m_contexts = 1 .. Len(m_contexts)
        BY <3>1, SequenceIsFunction DEF IsStack
      <3>3. QED
        BY <3>1, <3>2, GrowsBy
    <2>2. QED
      BY <2>1, GrowthStep DEF Next
  <1>2. Inv => Core
    BY DEF Inv
  <1>3. QED
    BY <1>1, <1>2, Invariance, PTL DEF Spec, OpenContainersGrow, Grows
=============================================================================
