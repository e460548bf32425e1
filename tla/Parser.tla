------------------------------- MODULE Parser -------------------------------
(***************************************************************************)
(* lib/parser.hpp: the resumable JSON parser.                              *)
(*                                                                         *)
(* A client calls parse with one chunk of input after another until the    *)
(* result is something other than more_data_needed.  The variables m_...   *)
(* are the members of class parser and survive a call; root is the         *)
(* container the caller passed to the constructor.                         *)
(*                                                                         *)
(* The chunks are chosen lazily: the character at ptr is picked when the   *)
(* loop first reads it, and a chunk may end wherever ptr is.  text is what *)
(* ptr has moved past since the first call, so its length is the offset of *)
(* the returned ptr.  Where the code steps back with --ptr the character   *)
(* stays at ptr, and the next iteration reads it again: ahead holds it.    *)
(*                                                                         *)
(* One action is one iteration of the loop in one parser state.            *)
(***************************************************************************)
EXTENDS Integers, SequencesExt, Delimiters, Types

CONSTANTS
    Chars,      \* the characters the input is made of
    Limits,     \* the values of the constructor's max_levels to consider
    MaxText     \* bound: characters consumed over all the calls

ASSUME LimitsAssumption == Limits \subseteq Nat \cup {nullopt}
ASSUME MaxTextAssumption == MaxText \in Nat

VARIABLES
    m_line, m_col,      \* the position of the next character
    m_current_state,    \* parser_state
    m_max_levels,       \* the depth limit, or nullopt
    m_contexts,         \* the open containers, the innermost last
    m_buffer,           \* the text of the current key, string or literal
    root,               \* the container m_root refers to
    ec,                 \* what the last call returned; "running" inside one
    text,               \* the characters consumed so far
    ahead               \* <<ch>> if ch is known to be at ptr, else <<>>

position == <<m_line, m_col>>
vars == <<m_line, m_col, m_current_state, m_max_levels, m_contexts, m_buffer,
          root, ec, text, ahead>>

parser_states ==
    {"value", "literal", "string_value", "string_value_esc_seq", "before_key",
     "key", "key_esc_seq", "before_value", "after_value_object",
     "after_value_array"}

parser_error_codes ==
    {"completed", "more_data_needed", "key_already_exists",
     "character_must_be_escaped", "unsupported_escape_sequence",
     "illegal_delimiter", "invalid_value", "no_top_level_node",
     "nesting_level_too_deep"}

\* "undefined" is no code of the program: it stands for m_contexts.top() on
\* an empty stack, after which nothing is known of the process.
Outcomes == (parser_error_codes \ {"more_data_needed"}) \cup {"undefined"}
-----------------------------------------------------------------------------
(* Storing values.                                                         *)

\* The overload of store_value for a value.
store_value(parent, key, value) ==
    IF parent.type = "object"
    THEN LET res == insert(parent, key, value)
         IN  [parent     |-> res.object,
              next_state |-> "after_value_object",
              err        |-> IF res.second THEN "more_data_needed"
                                           ELSE "key_already_exists"]
    ELSE [parent     |-> push_back(parent, value),
          next_state |-> "after_value_array",
          err        |-> "more_data_needed"]

\* What store_value does with the innermost container of contexts, and the
\* key read for it.  The key is moved from, which leaves it empty.
StoreIn(contexts, value) ==
    store_value(Last(contexts).value, Last(contexts).key, value)

Stored(contexts, value) ==
    [contexts EXCEPT ![Len(contexts)] =
        [key |-> <<>>, value |-> StoreIn(contexts, value).parent]]
-----------------------------------------------------------------------------
(* One iteration of the loop: reading a character, and how it ends.        *)

Reads(ch) ==
    /\ ec = "running"
    /\ Len(text) < MaxText
    /\ ahead # <<>> => ch = ahead[1]

\* Mutant: the column is not counted up after m_col = 0.
ConsumeFromZero(ch) ==
    /\ text' = Append(text, ch)
    /\ ahead' = <<>>
    /\ m_line' = IF ch = Newline THEN m_line + 1 ELSE m_line
    /\ m_col' = IF ch = Newline THEN 0 ELSE m_col + 1
    /\ ec' = ec

\* break: the character is consumed, and the position moves past it.
Consume(ch) ==
    /\ text' = Append(text, ch)
    /\ ahead' = <<>>
    /\ m_line' = IF ch = Newline THEN m_line + 1 ELSE m_line
    /\ m_col' = IF ch = Newline THEN 1 ELSE m_col + 1
    /\ ec' = ec

\* Mutant: the position is updated without looking whether ptr moved.
PutBackCounted(ch) ==
    /\ ahead' = <<ch>>
    /\ m_col' = m_col + 1
    /\ UNCHANGED <<m_line, ec, text>>

\* --ptr; break: the next iteration reads the same character.
PutBack(ch) ==
    /\ ahead' = <<ch>>
    /\ UNCHANGED <<position, ec, text>>

\* Mutant: the position moves past the character that ends the call.
ReturnCounted(ch, code) ==
    /\ ec' = code
    /\ text' = Append(text, ch)
    /\ ahead' = <<>>
    /\ m_line' = m_line
    /\ m_col' = m_col + 1

\* return parse_result{ptr, code, m_line, m_col}: ptr is past the character,
\* the position is still its own.
Return(ch, code) ==
    /\ ec' = code
    /\ text' = Append(text, ch)
    /\ ahead' = <<>>
    /\ UNCHANGED position

\* Mutant: an error closes what is open.
FailAndReset(ch, code) ==
    /\ Return(ch, code)
    /\ m_current_state' = "value"
    /\ m_contexts' = <<>>
    /\ m_buffer' = <<>>
    /\ root' = root

Fail(ch, code) ==
    /\ Return(ch, code)
    /\ UNCHANGED <<m_current_state, m_contexts, m_buffer, root>>

Goto(state) ==
    /\ m_current_state' = state
    /\ UNCHANGED <<m_contexts, m_buffer, root>>

Reread(ch, state) == Goto(state) /\ PutBack(ch)

Skip(ch) == Consume(ch) /\ Goto(m_current_state)

\* Mutant: a missing delimiter is forgiven.
SkipWhitespaceOrReread(ch, code) ==
    IF is_whitespace(ch) THEN Skip(ch) ELSE Reread(ch, "value")

\* The default cases of the states between values and keys.
SkipWhitespaceElse(ch, code) ==
    IF is_whitespace(ch) THEN Skip(ch) ELSE Fail(ch, code)

\* The character belongs to the text being read: m_buffer += ch.
Collect(ch, state) ==
    /\ m_buffer' = Append(m_buffer, ch)
    /\ m_current_state' = state
    /\ UNCHANGED <<m_contexts, root>>

\* Mutant: the text just stored is not cleared.
MoveOnWithBuffer(state) == m_current_state' = state /\ UNCHANGED m_buffer

MoveOn(state) == m_current_state' = state /\ m_buffer' = <<>>

\* A literal or a string is complete and goes into the innermost container.
StoreLeaf(ch, value, done) ==
    LET res == StoreIn(m_contexts, value)
    IN  /\ m_contexts' = Stored(m_contexts, value)
        /\ root' = root
        /\ IF res.err # "more_data_needed"
           THEN Return(ch, res.err) /\ UNCHANGED <<m_current_state, m_buffer>>
           ELSE done /\ MoveOn(res.next_state)
-----------------------------------------------------------------------------
(* parser_state::value                                                     *)

\* Mutant: the limit is compared with the depth there will be before.
OpenOneMore(ch, container, next_state) ==
    IF m_max_levels # nullopt /\ Len(m_contexts) > m_max_levels
    THEN Fail(ch, "nesting_level_too_deep")
    ELSE /\ m_contexts' = Append(m_contexts, [key |-> <<>>, value |-> container])
         /\ m_current_state' = next_state
         /\ UNCHANGED <<m_buffer, root>>
         /\ Consume(ch)

\* A container is opened unless the stack has reached the limit.
Open(ch, container, next_state) ==
    IF m_max_levels # nullopt /\ Len(m_contexts) = m_max_levels
    THEN Fail(ch, "nesting_level_too_deep")
    ELSE /\ m_contexts' = Append(m_contexts, [key |-> <<>>, value |-> container])
         /\ m_current_state' = next_state
         /\ UNCHANGED <<m_buffer, root>>
         /\ Consume(ch)

\* Mutant: leaves are read outside of any container.
InAnyPlace(ch, step) == step

\* Strings and literals are not read outside of a container.
InContainer(ch, step) ==
    IF m_contexts = <<>> THEN Fail(ch, "no_top_level_node") ELSE step

Value(ch) ==
    /\ m_current_state = "value"
    /\ \/ ch = begin_array /\ Open(ch, Array(<<>>), "value")
       \/ ch = begin_object /\ Open(ch, Object(<<>>), "before_key")
       \/ ch = end_array /\ Reread(ch, "after_value_array")
       \/ /\ ch = string_begin_end
          /\ InContainer(ch, Goto("string_value") /\ Consume(ch))
       \/ /\ ch \notin {begin_array, begin_object, end_array, string_begin_end}
          /\ IF is_whitespace(ch) THEN Skip(ch)
             ELSE InContainer(ch, Collect(ch, "literal") /\ Consume(ch))

\* Mutant: a literal right before a } goes on.
EndsElement(ch) == ch \in {value_separator, end_array} \/ is_whitespace(ch)

\* parser_state::literal: any of these characters ends a literal, and the
\* delimiters among them are read again in the state after the value.
EndsLiteral(ch) ==
    ch \in {value_separator, end_array, end_object} \/ is_whitespace(ch)

Literal(ch) ==
    /\ m_current_state = "literal"
    /\ \/ /\ EndsLiteral(ch)
          /\ LET value == make_value(m_buffer)
             IN  IF value = nullopt
                 THEN Fail(ch, "invalid_value")
                 ELSE StoreLeaf(ch, value,
                        IF is_whitespace(ch) THEN Consume(ch) ELSE PutBack(ch))
       \/ ~EndsLiteral(ch) /\ Collect(ch, "literal") /\ Consume(ch)

\* Mutant: no character has to be escaped.
StringValueUnchecked(ch) ==
    /\ m_current_state = "string_value"
    /\ \/ ch = string_begin_end /\ StoreLeaf(ch, String(m_buffer), Consume(ch))
       \/ ch = begin_esc_seq /\ Goto("string_value_esc_seq") /\ Consume(ch)
       \/ /\ ch \notin {string_begin_end, begin_esc_seq}
          /\ Collect(ch, "string_value")
          /\ Consume(ch)

StringValue(ch) ==
    /\ m_current_state = "string_value"
    /\ \/ ch = string_begin_end /\ StoreLeaf(ch, String(m_buffer), Consume(ch))
       \/ ch = begin_esc_seq /\ Goto("string_value_esc_seq") /\ Consume(ch)
       \/ /\ ch \notin {string_begin_end, begin_esc_seq}
          /\ IF char_should_be_escaped(ch)
             THEN Fail(ch, "character_must_be_escaped")
             ELSE Collect(ch, "string_value") /\ Consume(ch)

\* Mutant: the letter of the escape sequence is kept.
StringValueRawEscSeq(ch) ==
    /\ m_current_state = "string_value_esc_seq"
    /\ IF unescape(ch) = nullopt
       THEN Fail(ch, "unsupported_escape_sequence")
       ELSE Collect(ch, "string_value") /\ Consume(ch)

StringValueEscSeq(ch) ==
    /\ m_current_state = "string_value_esc_seq"
    /\ IF unescape(ch) = nullopt
       THEN Fail(ch, "unsupported_escape_sequence")
       ELSE Collect(unescape(ch), "string_value") /\ Consume(ch)

BeforeKey(ch) ==
    /\ m_current_state = "before_key"
    /\ \/ ch = string_begin_end /\ Goto("key") /\ Consume(ch)
       \/ ch = end_object /\ Reread(ch, "after_value_object")
       \/ /\ ch \notin {string_begin_end, end_object}
          /\ SkipWhitespaceElse(ch, "illegal_delimiter")

Key(ch) ==
    /\ m_current_state = "key"
    /\ \/ /\ ch = string_begin_end
          /\ m_contexts' = [m_contexts EXCEPT ![Len(m_contexts)].key = m_buffer]
          /\ MoveOn("before_value")
          /\ root' = root
          /\ Consume(ch)
       \/ ch = begin_esc_seq /\ Goto("key_esc_seq") /\ Consume(ch)
       \/ /\ ch \notin {string_begin_end, begin_esc_seq}
          /\ IF char_should_be_escaped(ch)
             THEN Fail(ch, "character_must_be_escaped")
             ELSE Collect(ch, "key") /\ Consume(ch)

KeyEscSeq(ch) ==
    /\ m_current_state = "key_esc_seq"
    /\ IF unescape(ch) = nullopt
       THEN Fail(ch, "unsupported_escape_sequence")
       ELSE Collect(unescape(ch), "key") /\ Consume(ch)

BeforeValue(ch) ==
    /\ m_current_state = "before_value"
    /\ \/ ch = name_separator /\ Goto("value") /\ Consume(ch)
       \/ ch # name_separator /\ SkipWhitespaceElse(ch, "illegal_delimiter")
-----------------------------------------------------------------------------
(* parser_state::after_value_object and parser_state::after_value_array    *)

\* Mutant: no return after the root is written.
CloseRootAndGoOn(ch) ==
    /\ Len(m_contexts) = 1
    /\ root' = Last(m_contexts).value
    /\ m_contexts' = <<>>
    /\ Consume(ch)
    /\ UNCHANGED <<m_current_state, m_buffer>>

\* The outermost container is closed: it becomes the caller's root.
CloseRoot(ch) ==
    /\ Len(m_contexts) = 1
    /\ root' = Last(m_contexts).value
    /\ m_contexts' = <<>>
    /\ Return(ch, "completed")
    /\ UNCHANGED <<m_current_state, m_buffer>>

\* Mutant: the state stays that of an array.
EndArrayInArray(ch) ==
    /\ Len(m_contexts) > 1
    /\ m_contexts' = Stored(Front(m_contexts), Last(m_contexts).value)
    /\ UNCHANGED <<m_current_state, m_buffer, root>>
    /\ Consume(ch)

\* Only next_state of the result is looked at, not err.
EndArray(ch) ==
    /\ Len(m_contexts) > 1
    /\ LET outer == Front(m_contexts)
           child == Last(m_contexts).value
       IN  /\ m_contexts' = Stored(outer, child)
           /\ m_current_state' = StoreIn(outer, child).next_state
           /\ UNCHANGED <<m_buffer, root>>
           /\ Consume(ch)

EndObject(ch) ==
    /\ Len(m_contexts) > 1
    /\ LET outer == Front(m_contexts)
           child == Last(m_contexts).value
           res   == StoreIn(outer, child)
       IN  /\ m_contexts' = Stored(outer, child)
           /\ UNCHANGED <<m_buffer, root>>
           /\ IF res.err # "more_data_needed"
              THEN Return(ch, res.err) /\ UNCHANGED m_current_state
              ELSE Consume(ch) /\ m_current_state' = res.next_state

AfterValueObject(ch) ==
    /\ m_current_state = "after_value_object"
    /\ \/ ch = end_object /\ (CloseRoot(ch) \/ EndObject(ch))
       \/ ch = value_separator /\ Goto("before_key") /\ Consume(ch)
       \/ /\ ch \notin {end_object, value_separator}
          /\ SkipWhitespaceElse(ch, "illegal_delimiter")

AfterValueArray(ch) ==
    /\ m_current_state = "after_value_array"
    /\ \/ ch = end_array /\ (CloseRoot(ch) \/ EndArray(ch))
       \/ ch = value_separator /\ Goto("value") /\ Consume(ch)
       \/ /\ ch \notin {end_array, value_separator}
          /\ SkipWhitespaceElse(ch, "illegal_delimiter")
-----------------------------------------------------------------------------
(* The loop and its callers.                                               *)

\* The characters at which a state looks at the innermost container.
UsesTop(ch) ==
    \/ m_current_state = "literal" /\ EndsLiteral(ch)
    \/ m_current_state \in {"string_value", "key"} /\ ch = string_begin_end
    \/ m_current_state = "after_value_object" /\ ch = end_object
    \/ m_current_state = "after_value_array" /\ ch = end_array

TopOfEmptyStack(ch) == Fail(ch, "undefined")

Iteration(ch) ==
    /\ Reads(ch)
    /\ UNCHANGED m_max_levels
    /\ IF m_contexts = <<>> /\ UsesTop(ch)
       THEN TopOfEmptyStack(ch)
       ELSE \/ Value(ch)
            \/ Literal(ch)
            \/ StringValue(ch)
            \/ StringValueEscSeq(ch)
            \/ BeforeKey(ch)
            \/ Key(ch)
            \/ KeyEscSeq(ch)
            \/ BeforeValue(ch)
            \/ AfterValueObject(ch)
            \/ AfterValueArray(ch)

\* parse(input_seq): a first call, or one with the next chunk of the input.
Parse ==
    /\ ec \in {"not_called", "more_data_needed"}
    /\ ec' = "running"
    /\ UNCHANGED <<position, m_current_state, m_max_levels, m_contexts,
                   m_buffer, root, text, ahead>>

\* Mutant: the text read so far is not kept for the next call.
EndOfInputInText ==
    /\ ec = "running"
    /\ ahead = <<>>
    /\ ec' = "more_data_needed"
    /\ m_buffer' = <<>>
    /\ UNCHANGED <<position, m_current_state, m_max_levels, m_contexts, root,
                   text, ahead>>

\* ptr == std::end(input_seq)
EndOfInput ==
    /\ ec = "running"
    /\ ahead = <<>>
    /\ ec' = "more_data_needed"
    /\ UNCHANGED <<position, m_current_state, m_max_levels, m_contexts,
                   m_buffer, root, text, ahead>>

Init ==
    /\ m_line = 1
    /\ m_col = 1
    /\ m_current_state = "value"
    /\ m_max_levels \in Limits
    /\ m_contexts = <<>>
    /\ m_buffer = <<>>
    /\ root = DefaultContainer
    /\ ec = "not_called"
    /\ text = <<>>
    /\ ahead = <<>>

Next ==
    \/ Parse
    \/ EndOfInput
    \/ \E ch \in Chars : Iteration(ch)

Spec == Init /\ [][Next]_vars
=============================================================================
