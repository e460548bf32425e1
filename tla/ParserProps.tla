---------------------------- MODULE ParserProps ----------------------------
(***************************************************************************)
(* The properties of lib/parser.hpp that hold of every input, every limit  *)
(* and every cut of the input into chunks.                                 *)
(***************************************************************************)
EXTENDS Parser, Stacks, FiniteSets

\* What keys, strings and literals are made of.
TextChars == Chars \cup {EscChars[letter] : letter \in DOMAIN EscChars}

IsContext(context) ==
    /\ context = [key |-> context.key, value |-> context.value]
    /\ context.key \in Seq(TextChars)
    /\ context.value.type \in ContainerTypes
    /\ context.value.type = "array" => IsSequence(context.value.items)

IsStack(s) == IsSequence(s) /\ \A i \in 1 .. Len(s) : IsContext(s[i])

\* Every variable holds a value of the type the class declares for it.  The
\* position is one-based, and at most one character is looked at twice.
TypeOK ==
    /\ m_line \in Nat \ {0}
    /\ m_col \in Nat \ {0}
    /\ m_current_state \in parser_states
    /\ m_max_levels \in Limits
    /\ IsStack(m_contexts)
    /\ m_buffer \in Seq(TextChars)
    /\ root.type \in ContainerTypes
    /\ ec \in {"not_called", "running", "more_data_needed"} \cup Outcomes
    /\ text \in Seq(Chars)
    /\ ahead \in {<<>>} \cup {<<ch>> : ch \in Chars}
-----------------------------------------------------------------------------
(* The state machine and its stack.                                        *)

KeyStates == {"before_key", "key", "key_esc_seq", "before_value"}
LeafStates == {"literal", "string_value", "string_value_esc_seq"}
AfterStates == {"after_value_object", "after_value_array"}

Inside(type) == m_contexts # <<>> /\ Last(m_contexts).value.type = type

\* The state fits the innermost container: keys are read and members separated
\* only in an object, elements separated only in an array, leaves read only in
\* a container.  The one state that may disagree with the stack is
\* after_value_array, just after a ] was met where a value could start,
\* whatever container that was in, if any.
Fits ==
    /\ m_current_state \in KeyStates \cup {"after_value_object"} => Inside("object")
    /\ m_current_state = "after_value_array" => Inside("array") \/ ahead = <<end_array>>
    /\ m_current_state \in LeafStates => m_contexts # <<>>

\* What --ptr put back is a character the states after a value decide on at once.
PutBackFits ==
    ahead # <<>> =>
        /\ ec = "running"
        /\ m_current_state \in AfterStates
        /\ ahead[1] \in {value_separator, end_array, end_object}

\* As long as the parse may go on, the state and the stack agree.
StateFitsStack == (ec \notin Outcomes => Fits) /\ PutBackFits

\* A text is being collected only in the states that read one, so no key,
\* string or literal can begin with what is left of the one before it.
BufferIsFresh ==
    /\ m_current_state \in {"value", "before_key", "before_value"} \cup AfterStates =>
          m_buffer = <<>>
    /\ m_current_state = "literal" => m_buffer # <<>>

\* The depth test of parser_state::value is an equality.  It is enough: the
\* stack is never past the limit, so it cannot miss it.
WithinMaxLevels == m_max_levels # nullopt => Len(m_contexts) <= m_max_levels

OnlyBlanks(n) == \A i \in 1 .. n : is_whitespace(text[i])

\* Before the first container the parser reads nothing but white space, and
\* it reaches for a context that is not there on no input but those whose
\* first character other than white space is a ].
UndefinedOnlyOnStrayBracket ==
    /\ m_contexts = <<>> /\ ec \notin Outcomes =>
          /\ OnlyBlanks(Len(text))
          /\ \/ m_current_state = "value"
             \/ m_current_state = "after_value_array" /\ ahead = <<end_array>>
    /\ ec = "undefined" =>
          /\ text[Len(text)] = end_array
          /\ OnlyBlanks(Len(text) - 1)
-----------------------------------------------------------------------------
(* The position.                                                           *)

\* The number of characters the position is past: a result that ends the
\* parse carries the position of the character that ended it.
Passed == IF ec \in Outcomes THEN Len(text) - 1 ELSE Len(text)

Newlines(t, n) == {i \in 1 .. n : t[i] = Newline}

\* The line is one more than the newlines passed, and the column counts from
\* the last of them, over all the chunks together.
PositionMatchesText ==
    /\ m_line = 1 + Cardinality(Newlines(text, Passed))
    /\ m_col \in 1 .. Passed + 1
    /\ m_col <= Passed => text[Passed + 1 - m_col] = Newline
    /\ \A i \in Newlines(text, Passed) : i <= Passed + 1 - m_col
-----------------------------------------------------------------------------
\* The inductive invariant.  What it says of the machine is enough for an
\* iteration to keep the machine in order.
Core ==
    /\ TypeOK
    /\ StateFitsStack
    /\ BufferIsFresh
    /\ WithinMaxLevels

Inv ==
    /\ Core
    /\ UndefinedOnlyOnStrayBracket
    /\ PositionMatchesText
-----------------------------------------------------------------------------
(* What a step may never do.                                               *)

Extended(container, grown) ==
    /\ container.type = grown.type
    /\ IF container.type = "array"
       THEN IsPrefix(container.items, grown.items)
       ELSE \A key \in DOMAIN container.members :
                /\ key \in DOMAIN grown.members
                /\ grown.members[key] = container.members[key]

\* An open container only grows: no member is replaced by a later one of the
\* same key (object::insert, not insert_or_assign), no element is lost.
OpenContainersGrow ==
    [][\A i \in DOMAIN m_contexts \cap DOMAIN m_contexts' :
            Extended(m_contexts[i].value, m_contexts'[i].value)]_vars

\* --ptr never makes the loop spin: a character put back is consumed by the
\* very next iteration, whatever state it is put back in.
PutBackIsConsumed == [][ahead # <<>> => text' # text]_vars

\* The promise of ParseProtocol: consumption in order, final results, and a
\* container that is written exactly when the parse completes.
Protocol == INSTANCE ParseProtocol WITH
    consumed <- text, result <- ec, delivered <- root,
    Failures <- Outcomes \ {"completed"}, Untouched <- DefaultContainer

ImplementsProtocol == Protocol!Spec
=============================================================================
