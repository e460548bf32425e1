---------------------------- MODULE ReuseProofs ----------------------------
(***************************************************************************)
(* Proofs about two clients of the parser.  One calls it again after any   *)
(* result, however often: the depth limit, the growth of open containers,  *)
(* the position, and that errors alone never lead to the top of an empty   *)
(* stack.  The other, the free function parse, calls one of its own once.  *)
(***************************************************************************)
EXTENDS ParserReuse, ParseFunctionProps, LanguageProofs

\* The machine as it is whether or not its state fits its stack.
Sound ==
    /\ TypeOK
    /\ PutBackFits
    /\ BufferIsFresh
    /\ WithinMaxLevels

\* Where a parser goes on that has delivered its root: the stack is empty, and
\* the state is one that has the container around a value for granted.
ClosedStates == {"after_value_object", "before_key", "key", "key_esc_seq", "after_value_array"}
RootIsClosed == m_contexts = <<>> /\ m_current_state \in ClosedStates

\* Until a container is delivered, the parser stands before the first one, or
\* in one.
BeforeDelivery ==
    /\ Fits
    /\ m_contexts = <<>> =>
          /\ OnlyBlanksOrRefused(Len(text))
          /\ \/ m_current_state = "value"
             \/ m_current_state = "after_value_array" /\ ahead = <<end_array>>

ReuseInv ==
    /\ Sound
    /\ ec # "undefined" => Fits \/ RootIsClosed
    /\ ec # "undefined" /\ ~Happened("completed") => ec # "completed" /\ BeforeDelivery
    /\ UndefinedNeedsADelivery

-----------------------------------------------------------------------------
(* One iteration.                                                          *)

\* A state that fits is all that an iteration needs.
LEMMA FittingStep ==
    ASSUME Sound, Fits, NEW ch \in Chars, Iteration(ch)
    PROVE  /\ Core
           /\ Sound'
           /\ ec' # "undefined" => Fits' \/ RootIsClosed'
           /\ ec' \notin {"completed", "undefined"} => Fits'
           /\ Grows
           /\ Moves(ch)
  <1>1. Core
    BY DEF Sound, Core, StateFitsStack
  <1>2. Reads(ch) /\ UNCHANGED m_max_levels
    BY DEF Iteration
  <1>3. Moves(ch) /\ Machine'
    BY <1>1, IterationStep
  <1>4. TypeOK'
    <2>1. WhatIsRead'
      BY <1>2, <1>3, WhatIsReadStep DEF Sound
    <2>2. m_max_levels' \in Limits
      BY <1>2 DEF Sound, TypeOK
    <2>3. QED
      BY <1>3, <2>1, <2>2 DEF TypeOK, Machine, WhatIsRead
  <1>5. Sound'
    BY <1>3, <1>4 DEF Sound, Machine, StateFitsStack
  <1>6. ec' \notin {"completed", "undefined"} => Fits'
    BY <1>3 DEF Machine
  <1>7. ec' = "completed" => RootIsClosed'
    <2>1. ec = "running"
      BY <1>2 DEF Reads
    <2>2. ec' = "completed" => Decides(ch)
      BY <1>3, <2>1 DEF Moves, Consume, PutBack
    <2>3. QED
      BY <2>2 DEF Decides, Return, RootIsClosed, ClosedStates, AfterStates
  <1>8. QED
    BY <1>1, <1>3, <1>5, <1>6, <1>7, GrowthStep

\* Outside of any container, in a state that has one for granted: the parser
\* refuses, goes on like that, starts afresh behind a comma, or reaches for
\* the top of the stack.
LEMMA ClosedStep ==
    ASSUME Sound, RootIsClosed, NEW ch \in Chars, Iteration(ch)
    PROVE  /\ Sound'
           /\ Fits' \/ RootIsClosed'
           /\ Grows
           /\ Moves(ch)
  <1>1. /\ Reads(ch) /\ UNCHANGED m_max_levels /\ ec = "running"
        /\ m_contexts = <<>> /\ m_current_state \in ClosedStates
        /\ m_buffer \in Seq(TextChars)
        /\ m_current_state \notin {"key", "key_esc_seq"} => m_buffer = <<>>
    BY DEF Iteration, Reads, RootIsClosed, ClosedStates, Sound, TypeOK, BufferIsFresh, AfterStates
  <1> DEFINE Goal == /\ Moves(ch)
                     /\ m_contexts' = <<>>
                     /\ m_current_state' \in ClosedStates \cup {"value"}
                     /\ m_buffer' \in Seq(TextChars)
                     /\ PutBackFits'
                     /\ m_current_state' \notin {"key", "key_esc_seq"} => m_buffer' = <<>>
  <1>2. ASSUME NEW code \in Outcomes \ {"completed"}, Fail(ch, code)
        PROVE  Goal
    <2>1. Moves(ch) /\ ahead' = <<>>
      BY <1>2, FailDecides DEF Moves, Fail, Return
    <2>2. QED
      BY <1>1, <1>2, <2>1 DEF Fail, PutBackFits
  <1>3. ASSUME NEW state \in ClosedStates \cup {"value"}, Goto(state), Consume(ch),
               state \in {"key", "key_esc_seq"} \/ m_buffer = <<>>
        PROVE  Goal
    <2>1. Moves(ch) /\ ahead' = <<>>
      BY <1>3 DEF Moves, Goto, Consume
    <2>2. QED
      BY <1>1, <1>3, <2>1 DEF Goto, PutBackFits
  <1>4. ASSUME NEW c, Append(m_buffer, c) \in Seq(TextChars), Collect(c, "key"), Consume(ch)
        PROVE  Goal
    <2>1. Moves(ch) /\ ahead' = <<>>
      BY <1>4 DEF Moves, Collect, Consume
    <2>2. QED
      BY <1>1, <1>4, <2>1 DEF Collect, PutBackFits, ClosedStates
  <1>5. ASSUME is_whitespace(ch), Skip(ch), m_buffer = <<>>
        PROVE  Goal
    BY <1>1, <1>3, <1>5 DEF Skip
  <1>6. Goal
    <2>1. CASE TopOfEmptyStack(ch)
      BY <1>2, <2>1 DEF TopOfEmptyStack, Outcomes
    <2>2. CASE ~UsesTop(ch)
      <3> HIDE DEF Goal
      <3>1. CASE m_current_state = "after_value_object"
        <4>1. AfterValueObject(ch) /\ ch # end_object
          BY <1>1, <2>2, <3>1 DEF Iteration, UsesTop, Value, Literal, StringValue, BeforeKey,
             StringValueEscSeq, Key, KeyEscSeq, BeforeValue, AfterValueArray
        <4>2. QED
          BY <1>1, <1>2, <1>3, <1>5, <3>1, <4>1 DEF AfterValueObject, SkipWhitespaceElse,
             ClosedStates, Outcomes, parser_error_codes
      <3>2. CASE m_current_state = "after_value_array"
        <4>1. AfterValueArray(ch) /\ ch # end_array
          BY <1>1, <2>2, <3>2 DEF Iteration, UsesTop, Value, Literal, StringValue, BeforeKey,
             StringValueEscSeq, Key, KeyEscSeq, BeforeValue, AfterValueObject
        <4>2. QED
          BY <1>1, <1>2, <1>3, <1>5, <3>2, <4>1 DEF AfterValueArray, SkipWhitespaceElse,
             ClosedStates, Outcomes, parser_error_codes
      <3>3. CASE m_current_state = "before_key"
        <4>1. BeforeKey(ch)
          BY <1>1, <2>2, <3>3 DEF Iteration, Value, Literal, StringValue, StringValueEscSeq,
             Key, KeyEscSeq, BeforeValue, AfterValueObject, AfterValueArray
        <4>2. CASE ch = end_object /\ Reread(ch, "after_value_object")
          <5>1. /\ ahead' = <<ch>> /\ ec' = "running" /\ m_contexts' = <<>>
                /\ m_current_state' = "after_value_object" /\ m_buffer' = <<>>
            BY <1>1, <3>3, <4>2 DEF Reread, Goto, PutBack
          <5>2. Moves(ch)
            BY <4>2, <5>1 DEF Moves, Reread, Goto, AfterStates
          <5>3. PutBackFits'
            BY <4>2, <5>1 DEF PutBackFits, AfterStates
          <5>4. QED
            BY <1>1, <5>1, <5>2, <5>3, EmptySeq DEF Goal, ClosedStates
        <4>3. QED
          BY <1>1, <1>2, <1>3, <1>5, <3>3, <4>1, <4>2 DEF BeforeKey, SkipWhitespaceElse,
             ClosedStates, Outcomes, parser_error_codes
      <3>4. CASE m_current_state = "key"
        <4>1. Key(ch) /\ ch # string_begin_end
          BY <1>1, <2>2, <3>4 DEF Iteration, UsesTop, Value, Literal, StringValue, BeforeKey,
             StringValueEscSeq, KeyEscSeq, BeforeValue, AfterValueObject, AfterValueArray
        <4>2. QED
          BY <1>1, <1>2, <1>3, <1>4, <4>1, Collected DEF Key,
             ClosedStates, Outcomes, parser_error_codes
      <3>5. CASE m_current_state = "key_esc_seq"
        <4>1. KeyEscSeq(ch)
          BY <1>1, <2>2, <3>5 DEF Iteration, Value, Literal, StringValue, StringValueEscSeq,
             BeforeKey, Key, BeforeValue, AfterValueObject, AfterValueArray
        <4>2. QED
          BY <1>1, <1>2, <1>4, <4>1, Collected DEF KeyEscSeq, Outcomes, parser_error_codes
      <3>6. QED
        BY <1>1, <3>1, <3>2, <3>3, <3>4, <3>5 DEF ClosedStates
    <2>3. QED
      BY <1>1, <2>1, <2>2 DEF Iteration
  <1>7. TypeOK'
    <2>1. WhatIsRead'
      BY <1>1, <1>6, WhatIsReadStep DEF Sound
    <2>2. m_max_levels' \in Limits
      BY <1>1 DEF Sound, TypeOK
    <2>3. IsStack(m_contexts')
      BY <1>1, <1>6 DEF Sound, TypeOK
    <2>4. m_current_state' \in parser_states
      BY <1>6 DEF ClosedStates, parser_states
    <2>5. QED
      BY <1>6, <2>1, <2>2, <2>3, <2>4 DEF TypeOK, WhatIsRead
  <1>8. Sound'
    BY <1>1, <1>6, <1>7 DEF Sound, BufferIsFresh, WithinMaxLevels, ClosedStates, AfterStates
  <1>9. Fits' \/ RootIsClosed'
    BY <1>6 DEF Fits, RootIsClosed, KeyStates, LeafStates
  <1>10. Grows
    BY <1>1, EmptySeq DEF Grows
  <1>11. QED
    BY <1>6, <1>8, <1>9, <1>10

\* What was blank or refused still is.
LEMMA StillBlankOrRefused ==
    ASSUME NEW n \in Nat, OnlyBlanksOrRefused(n),
           results \subseteq results', \A i \in 1 .. n : text'[i] = text[i]
    PROVE  OnlyBlanksOrRefused(n)'
  BY DEF OnlyBlanksOrRefused

\* The result of a call is recorded, and none is forgotten.
LEMMA Recorded ==
    ASSUME ec = "running", Record
    PROVE  /\ results \subseteq results'
           /\ ec' \in Outcomes =>
                \E result \in results' : result.at = Len(text') /\ result.code = ec'
  <1> DEFINE new == [at |-> Len(text'), code |-> ec', reread |-> ahead # <<>>]
  <1>1. results' = IF ec' \in Outcomes THEN results \cup {new} ELSE results
    BY DEF Record
  <1>2. new.at = Len(text') /\ new.code = ec'
    OBVIOUS
  <1> HIDE DEF new
  <1>3. QED
    BY <1>1, <1>2

\* Before anything is delivered the stack is only left empty by white space and
\* by errors, and its top is only taken for a ] that nothing came before.
LEMMA DeliveryStep ==
    ASSUME Sound, BeforeDelivery, NEW ch \in Chars, Iteration(ch), Record
    PROVE  /\ ec' \notin {"completed", "undefined"} => BeforeDelivery'
           /\ ec' = "undefined" => /\ text'[Len(text')] = end_array
                                   /\ OnlyBlanksOrRefused(Len(text) - 1)'
  <1>1. /\ Core /\ Fits
        /\ ec' \notin {"completed", "undefined"} => Fits'
    BY FittingStep DEF BeforeDelivery
  <1>2. Reads(ch) /\ ec = "running" /\ IsStack(m_contexts)
    BY <1>1, WhileReading DEF Iteration
  <1>3. CASE m_contexts # <<>>
    <2>1. ec' # "undefined" /\ (m_contexts' # <<>> \/ ec' = "completed")
      BY <1>1, <1>3, InsideStep
    <2>2. QED
      BY <1>1, <2>1 DEF BeforeDelivery
  <1>4. CASE m_contexts = <<>>
    <2>1. PICK n \in Nat : n = Len(text)
      BY LenProperties DEF Sound, TypeOK
    <2>2. /\ OnlyBlanksOrRefused(n)
          /\ \/ m_current_state = "value"
             \/ m_current_state = "after_value_array" /\ ahead = <<end_array>>
      BY <1>4, <2>1 DEF BeforeDelivery
    <2>3. /\ Len(Append(text, ch)) = n + 1
          /\ \A i \in 1 .. n : Append(text, ch)[i] = text[i]
          /\ Append(text, ch)[n + 1] = ch
      BY <2>1, AppendProperties DEF Sound, TypeOK
    <2>4. /\ results \subseteq results'
          /\ ec' \in Outcomes => \E result \in results' : result.at = Len(text')
      BY <1>2, Recorded
    <2>5. text' \in {text, Append(text, ch)} => OnlyBlanksOrRefused(n)'
      BY <2>2, <2>3, <2>4, StillBlankOrRefused
    <2>6. ASSUME text' = Append(text, ch), is_whitespace(ch) \/ ec' \in Outcomes
          PROVE  OnlyBlanksOrRefused(Len(text))'
      BY <2>3, <2>4, <2>5, <2>6 DEF OnlyBlanksOrRefused
    <2>7. CASE m_current_state = "after_value_array" /\ ahead = <<end_array>>
      <3>1. ch = end_array
        BY <1>2, <2>7 DEF Reads
      <3>2. TopOfEmptyStack(ch)
        BY <1>4, <2>7, <3>1 DEF Iteration, UsesTop
      <3>3. text' = Append(text, ch) /\ ec' = "undefined"
        BY <3>2 DEF TopOfEmptyStack, Fail, Return
      <3>4. Len(text') - 1 = n
        BY <2>3, <3>3
      <3>5. QED
        BY <2>3, <2>5, <3>1, <3>3, <3>4
    <2>8. CASE m_current_state = "value"
      <3> DEFINE Goal == ec' # "undefined" /\ (ec' # "completed" => BeforeDelivery')
      <3>1. Value(ch)
        BY <2>8 DEF Iteration, UsesTop, Literal, StringValue, StringValueEscSeq, BeforeKey,
           Key, KeyEscSeq, BeforeValue, AfterValueObject, AfterValueArray
      <3>2. ASSUME NEW code \in Outcomes \ {"completed", "undefined"}, Fail(ch, code)
            PROVE  Goal
        <4>1. /\ ec' = code /\ text' = Append(text, ch)
              /\ UNCHANGED <<m_current_state, m_contexts>>
          BY <3>2 DEF Fail, Return
        <4>2. OnlyBlanksOrRefused(Len(text))'
          BY <2>6, <4>1
        <4>3. QED
          BY <1>1, <2>8, <4>1, <4>2 DEF BeforeDelivery
      <3>3. ASSUME NEW container, NEW state, Open(ch, container, state)
            PROVE  Goal
        <4>1. CASE Fail(ch, "nesting_level_too_deep")
          BY <3>2, <4>1 DEF Outcomes, parser_error_codes
        <4>2. CASE ~Fail(ch, "nesting_level_too_deep")
          <5>1. \A c : Append(m_contexts, c) # <<>>
            BY <1>2, Push DEF IsStack
          <5>2. m_contexts' # <<>> /\ ec' = "running"
            BY <1>2, <3>3, <4>2, <5>1 DEF Open, Consume
          <5>3. QED
            BY <1>1, <5>2 DEF BeforeDelivery
        <4>3. QED
          BY <4>1, <4>2
      <3>4. ASSUME Reread(ch, "after_value_array"), ch = end_array
            PROVE  Goal
        <4>1. /\ text' = text /\ ahead' = <<end_array>> /\ ec' = "running"
              /\ m_current_state' = "after_value_array"
          BY <1>2, <3>4 DEF Reread, Goto, PutBack
        <4>2. QED
          BY <1>1, <2>5, <2>1, <4>1 DEF BeforeDelivery
      <3>5. ASSUME is_whitespace(ch), Skip(ch)
            PROVE  Goal
        <4>1. /\ text' = Append(text, ch) /\ ec' = "running"
              /\ m_current_state' = "value"
          BY <1>2, <2>8, <3>5 DEF Skip, Goto, Consume
        <4>2. OnlyBlanksOrRefused(Len(text))'
          BY <2>6, <3>5, <4>1
        <4>3. QED
          BY <1>1, <4>1, <4>2 DEF BeforeDelivery
      <3>6. ASSUME Fail(ch, "no_top_level_node")
            PROVE  Goal
        BY <3>2, <3>6 DEF Outcomes, parser_error_codes
      <3> HIDE DEF Goal
      <3>7. Goal
        BY <1>4, <3>1, <3>3, <3>4, <3>5, <3>6 DEF Value, InContainer
      <3>8. QED
        BY <3>7 DEF Goal
    <2>9. QED
      BY <2>2, <2>7, <2>8
  <1>5. QED
    BY <1>3, <1>4
-----------------------------------------------------------------------------
(* The theorems.                                                           *)

LEMMA ReuseInvInit == ReuseInit => ReuseInv
  <1> SUFFICES ASSUME ReuseInit PROVE ReuseInv
    OBVIOUS
  <1>1. Inv /\ ec = "not_called" /\ m_current_state = "value" /\ text = <<>> /\ results = {}
    BY InitInv DEF ReuseInit, Init
  <1>2. ec \notin Outcomes
    BY <1>1 DEF Outcomes, parser_error_codes
  <1>3. Sound /\ Fits
    BY <1>1, <1>2 DEF Inv, Core, Sound, StateFitsStack
  <1>4. OnlyBlanksOrRefused(Len(text))
    BY <1>1, EmptySeq DEF OnlyBlanksOrRefused
  <1>5. QED
    BY <1>1, <1>3, <1>4 DEF ReuseInv, BeforeDelivery, UndefinedNeedsADelivery

\* A call begins or ends at the end of its chunk: nothing but ec changes.
LEMMA ReuseCallStep ==
    ASSUME ReuseInv, Record, Parse \/ EndOfInput \/ CallAgain
    PROVE  ReuseInv'
  <1>1. /\ ec # "undefined" /\ ahead = <<>>
        /\ ec' \in {"running", "more_data_needed"} /\ ec' \notin Outcomes
    BY DEF Parse, EndOfInput, CallAgain, Outcomes, parser_error_codes, ReuseInv, Sound,
       PutBackFits
  <1>2. UNCHANGED <<m_line, m_col, m_current_state, m_max_levels, m_contexts,
                    m_buffer, root, text, ahead>>
    BY DEF Parse, EndOfInput, CallAgain, position
  <1>3. results' = results
    BY <1>1 DEF Record
  <1>4. Sound'
    BY <1>1, <1>2 DEF ReuseInv, Sound, TypeOK, PutBackFits, BufferIsFresh, WithinMaxLevels
  <1>5. (Fits \/ RootIsClosed) /\ (Fits => Fits') /\ (RootIsClosed => RootIsClosed')
    BY <1>1, <1>2 DEF ReuseInv, Fits, RootIsClosed, Inside
  <1>6. Happened("completed")' = Happened("completed")
    BY <1>3 DEF Happened
  <1>7. BeforeDelivery => BeforeDelivery'
    BY <1>2, <1>3, <1>5 DEF BeforeDelivery, OnlyBlanksOrRefused
  <1>8. QED
    BY <1>1, <1>4, <1>5, <1>6, <1>7 DEF ReuseInv, UndefinedNeedsADelivery

LEMMA ReuseIterationStep ==
    ASSUME ReuseInv, NEW ch \in Chars, Iteration(ch), Record
    PROVE  ReuseInv' /\ Grows /\ Moves(ch)
  <1>1. ec = "running"
    BY DEF Iteration, Reads
  <1>2. Sound /\ (Fits \/ RootIsClosed)
    BY <1>1 DEF ReuseInv
  <1>3. Sound' /\ (ec' # "undefined" => Fits' \/ RootIsClosed') /\ Grows /\ Moves(ch)
    BY <1>2, FittingStep, ClosedStep
  <1>4. /\ Happened("completed") => Happened("completed")'
        /\ ec' = "completed" => Happened("completed")'
    BY <1>1, Recorded DEF Happened, Outcomes, parser_error_codes
  <1>5. CASE Happened("completed")
    BY <1>3, <1>4, <1>5 DEF ReuseInv, UndefinedNeedsADelivery
  <1>6. CASE ~Happened("completed")
    <2>1. BeforeDelivery
      BY <1>1, <1>6 DEF ReuseInv
    <2>2. /\ ec' \notin {"completed", "undefined"} => BeforeDelivery'
          /\ ec' = "undefined" => /\ text'[Len(text')] = end_array
                                  /\ OnlyBlanksOrRefused(Len(text) - 1)'
      BY <1>2, <2>1, DeliveryStep
    <2>3. QED
      BY <1>3, <1>4, <2>2 DEF ReuseInv, UndefinedNeedsADelivery
  <1>7. QED
    BY <1>3, <1>5, <1>6

LEMMA ReuseInvNext == ReuseInv /\ [ReuseNext]_<<vars, results>> => ReuseInv'
  <1> SUFFICES ASSUME ReuseInv, [ReuseNext]_<<vars, results>> PROVE ReuseInv'
    OBVIOUS
  <1>1. CASE UNCHANGED <<vars, results>>
    BY <1>1 DEF vars, ReuseInv, Sound, TypeOK, PutBackFits, BufferIsFresh, WithinMaxLevels,
       Fits, RootIsClosed, Inside, Happened, BeforeDelivery, OnlyBlanksOrRefused,
       UndefinedNeedsADelivery
  <1>2. CASE ReuseNext
    BY <1>2, ReuseCallStep, ReuseIterationStep DEF ReuseNext, Next
  <1>3. QED
    BY <1>1, <1>2

LEMMA ReuseInvariance == ReuseSpec => []ReuseInv
  BY ReuseInvInit, ReuseInvNext, PTL DEF ReuseSpec

\* However often a parser is called again, no call lets the stack grow past
\* the limit, although the test for it is an equality.
THEOREM ReuseDepthLimit == ReuseSpec => []WithinMaxLevels
  <1>1. ReuseInv => WithinMaxLevels
    BY DEF ReuseInv, Sound
  <1>2. QED
    BY <1>1, ReuseInvariance, PTL

\* Errors alone do not lead to the top of an empty stack, whatever they were
\* and however many: without the characters that were refused the text begins
\* with the same stray ] that does it in a single call.
THEOREM ReuseDefinedBehaviour == ReuseSpec => []UndefinedNeedsADelivery
  <1>1. ReuseInv => UndefinedNeedsADelivery
    BY DEF ReuseInv
  <1>2. QED
    BY <1>1, ReuseInvariance, PTL

\* A parser that goes on after an error, a refused duplicate among them, or
\* after its result has not lost anything stored in a container still open.
THEOREM ReuseGrowth == ReuseSpec => OpenContainersGrow
  <1>1. ReuseInv /\ [ReuseNext]_<<vars, results>> => [Grows]_vars
    <2> SUFFICES ASSUME ReuseInv, ReuseNext PROVE Grows
      BY DEF vars
    <2>1. CASE Parse \/ EndOfInput \/ CallAgain
      <3>1. m_contexts' = m_contexts /\ IsStack(m_contexts)
        BY <2>1 DEF Parse, EndOfInput, CallAgain, ReuseInv, Sound, TypeOK
      <3>2. Len(m_contexts) \in Nat /\ DOMAIN m_contexts = 1 .. Len(m_contexts)
        BY <3>1, SequenceIsFunction DEF IsStack
      <3>3. QED
        BY <3>1, <3>2, GrowsBy
    <2>2. QED
      BY <2>1, ReuseIterationStep DEF ReuseNext, Next
  <1>2. QED
    BY <1>1, ReuseInvariance, PTL DEF ReuseSpec, OpenContainersGrow, Grows
-----------------------------------------------------------------------------
(* The position.                                                           *)

\* A set of small naturals has a greatest element.
LEMMA GreatestElement ==
    ASSUME NEW n \in Nat, NEW S, S \subseteq 0 .. n, S # {}
    PROVE  Max(S) \in S /\ \A i \in S : i <= Max(S)
  <1> DEFINE T == {k \in Nat : n - k \in S}
  <1>1. PICK i \in S : TRUE
    OBVIOUS
  <1>2. n - i \in T
    BY <1>1
  <1>3. PICK k \in T : \A l \in T : k <= l
    BY <1>2, LeastElement
  <1>4. ASSUME NEW j \in S PROVE j <= n - k
    <2>1. n - j \in T /\ j \in 0 .. n
      OBVIOUS
    <2>2. k <= n - j /\ k \in Nat
      BY <1>3, <2>1
    <2>3. QED
      BY <2>1, <2>2
  <1>5. n - k \in S
    OBVIOUS
  <1> HIDE DEF T
  <1>6. \E m \in S : \A j \in S : m >= j
    BY <1>4, <1>5
  <1>7. \A m \in S, j \in S : m >= j <=> j <= m
    OBVIOUS
  <1>8. QED
    BY <1>6, <1>7 DEF Max

\* The position is the one behind the text t.
IsBehind(t) ==
    /\ m_line = 1 + Cardinality(Newlines(t, Len(t)))
    /\ m_col = 1 + Len(t) - Max({0} \cup Newlines(t, Len(t)))

\* The position follows a character that is consumed.
LEMMA BehindConsumed ==
    ASSUME NEW t \in Seq(Chars), NEW ch \in Chars, IsBehind(t), Consume(ch)
    PROVE  IsBehind(Append(t, ch))'
  <1> DEFINE n == Len(t)
             u == Append(t, ch)
             before == {0} \cup Newlines(t, n)
             behind == {0} \cup Newlines(u, n + 1)
  <1>1. n \in Nat /\ n \in 0 .. n /\ Len(u) = n + 1
    BY LenProperties, AppendProperties
  <1>2. /\ Newlines(u, n + 1) = Newlines(t, n) \cup (IF ch = Newline THEN {n + 1} ELSE {})
        /\ Cardinality(Newlines(u, n + 1)) =
                Cardinality(Newlines(t, n)) + (IF ch = Newline THEN 1 ELSE 0)
        /\ Cardinality(Newlines(t, n)) \in Nat
    BY <1>1, NewlinesAppend
  <1>3. before \subseteq 0 .. n /\ behind \subseteq 0 .. n + 1
    BY <1>1 DEF Newlines
  <1>4. Max(before) \in before /\ \A i \in before : i <= Max(before)
    BY <1>1, <1>3, GreatestElement
  <1>5. Max(behind) \in behind /\ \A i \in behind : i <= Max(behind)
    <2>1. behind # {} /\ n + 1 \in Nat
      BY <1>1
    <2> HIDE DEF behind
    <2>2. QED
      BY <1>3, <2>1, GreatestElement
  <1>6. m_line' = 1 + Cardinality(Newlines(u, n + 1))
    BY <1>2 DEF IsBehind, Consume
  <1>7. m_col' = 1 + (n + 1) - Max(behind)
    <2>1. CASE ch = Newline
      <3>1. m_col' = 1 /\ n + 1 \in behind
        BY <1>2, <2>1 DEF Consume
      <3>2. Max(behind) = n + 1
        <4>1. Max(behind) \in 0 .. n + 1 /\ n + 1 <= Max(behind)
          BY <1>3, <1>5, <3>1
        <4> HIDE DEF behind
        <4>2. QED
          BY <1>1, <4>1
      <3>3. QED
        BY <1>1, <3>1, <3>2
    <2>2. CASE ch # Newline
      <3>1. m_col' = m_col + 1 /\ behind = before
        BY <1>2, <2>2 DEF Consume
      <3>2. m_col = 1 + n - Max(before)
        BY DEF IsBehind
      <3>3. Max(before) \in Int
        BY <1>3, <1>4
      <3> HIDE DEF before, behind
      <3>4. QED
        BY <1>1, <3>1, <3>2, <3>3
    <2>3. QED
      BY <2>1, <2>2
  <1>8. QED
    BY <1>1, <1>6, <1>7 DEF IsBehind

\* The characters of t at some of its places.
CharsOf(t, S) == FlattenSeq([i \in DOMAIN t |-> IF i \in S THEN <<t[i]>> ELSE <<>>])

\* A character more is one of them or is not.
LEMMA CharsOfAppend ==
    ASSUME NEW t \in Seq(Chars), NEW ch \in Chars, NEW S, NEW T,
           \A i \in 1 .. Len(t) : i \in S <=> i \in T
    PROVE  /\ CharsOf(t, S) \in Seq(Chars)
           /\ CharsOf(Append(t, ch), T) = IF Len(t) + 1 \in T
                                          THEN Append(CharsOf(t, S), ch) ELSE CharsOf(t, S)
  <1> DEFINE n == Len(t)
             u == Append(t, ch)
             f == [i \in DOMAIN t |-> IF i \in S THEN <<t[i]>> ELSE <<>>]
             g == [i \in DOMAIN u |-> IF i \in T THEN <<u[i]>> ELSE <<>>]
             x == IF n + 1 \in T THEN <<ch>> ELSE <<>>
  <1>1. /\ n \in Nat /\ DOMAIN t = 1 .. n
        /\ u \in Seq(Chars) /\ DOMAIN u = 1 .. n + 1
        /\ \A i \in 1 .. n : u[i] = t[i]
        /\ u[n + 1] = ch
        /\ \A i \in 1 .. n : t[i] \in Chars
    <2>1. u \in Seq(Chars) /\ Len(u) = n + 1 /\ n \in Nat
      BY AppendProperties, LenProperties
    <2>2. QED
      BY <2>1, AppendProperties, LenProperties, ElementOfSeq
  <1>2. <<>> \in Seq(Chars) /\ \A c \in Chars : <<c>> \in Seq(Chars)
    BY ShortText
  <1>3. x \in Seq(Chars)
    BY <1>2
  <1>4. f \in Seq(Seq(Chars)) /\ Len(f) = n
    <2>1. f \in [1 .. n -> Seq(Chars)]
      BY <1>1, <1>2
    <2> HIDE DEF f
    <2>2. QED
      BY <1>1, <2>1, FunctionIsText
  <1>5. g = Append(f, x)
    <2>1. /\ Append(f, x) \in Seq(Seq(Chars)) /\ Len(Append(f, x)) = n + 1
          /\ \A i \in 1 .. n : Append(f, x)[i] = f[i]
          /\ Append(f, x)[n + 1] = x
      <3> HIDE DEF f, x
      <3>1. QED
        BY <1>3, <1>4, AppendProperties
    <2>2. g \in [1 .. n + 1 -> Seq(Chars)]
      BY <1>1, <1>2
    <2>3. g \in Seq(Seq(Chars)) /\ Len(g) = n + 1
      <3> HIDE DEF g
      <3>1. n + 1 \in Nat
        BY <1>1
      <3>2. QED
        BY <2>2, <3>1, FunctionIsText
    <2>4. ASSUME NEW i \in 1 .. n + 1 PROVE g[i] = Append(f, x)[i]
      <3>1. CASE i = n + 1
        BY <1>1, <2>1, <3>1
      <3>2. CASE i # n + 1
        <4>1. i \in 1 .. n
          BY <1>1, <3>2
        <4>2. g[i] = f[i]
          BY <1>1, <4>1
        <4> HIDE DEF f, g, x
        <4>3. QED
          BY <2>1, <4>1, <4>2
      <3>3. QED
        BY <3>1, <3>2
    <2> HIDE DEF f, g, x
    <2>5. QED
      BY <2>1, <2>3, <2>4, SeqEqual
  <1> HIDE DEF f, g, x
  <1>6. FlattenSeq(f) \in Seq(Chars) /\ FlattenSeq(g) = FlattenSeq(f) \o x
    BY <1>3, <1>4, <1>5, FlattenAppend, FlattenIsText
  <1>7. CharsOf(t, S) = FlattenSeq(f) /\ CharsOf(u, T) = FlattenSeq(g)
    BY DEF CharsOf, f, g
  <1> HIDE DEF u
  <1>8. CASE n + 1 \in T
    <2>1. FlattenSeq(f) \o <<ch>> = Append(FlattenSeq(f), ch)
      BY <1>6, AppendIsConcat
    <2>2. QED
      BY <1>6, <1>7, <1>8, <2>1 DEF x, u
  <1>9. CASE n + 1 \notin T
    <2>1. FlattenSeq(f) \o <<>> = FlattenSeq(f)
      BY <1>6, ConcatEmptySeq
    <2>2. QED
      BY <1>6, <1>7, <1>9, <2>1 DEF x, u
  <1>10. QED
    BY <1>8, <1>9

\* The places of the results, and that they are places of the text.
Places == {result.at : result \in results}

PositionInv ==
    /\ ReuseInv
    /\ Places \subseteq 1 .. Len(text)
    /\ PositionSkipsResults

LEMMA PositionInvInit == ReuseInit => PositionInv
  <1> SUFFICES ASSUME ReuseInit PROVE PositionInv
    OBVIOUS
  <1>1. ReuseInv /\ text = <<>> /\ results = {} /\ m_line = 1 /\ m_col = 1
    BY ReuseInvInit DEF ReuseInit, Init
  <1>2. Places = {}
    BY <1>1 DEF Places
  <1>3. Counted = <<>>
    <2>1. [i \in DOMAIN text |-> IF i \in DOMAIN text \ Places THEN <<text[i]>> ELSE <<>>] = <<>>
      BY <1>1
    <2>2. FlattenSeq(<<>>) = <<>>
      BY FlattenFew, ShortText
    <2>3. QED
      BY <2>1, <2>2 DEF Counted, CharsAt, Places
  <1>4. Newlines(Counted, Len(Counted)) = {} /\ Len(Counted) = 0
    BY <1>3, EmptySeq DEF Newlines
  <1>5. Cardinality({}) = 0
    BY FS_EmptySet
  <1>6. Max({0} \cup {}) = 0
    <2>1. {0} \subseteq 0 .. 0 /\ {0} \cup {} = {0}
      OBVIOUS
    <2>2. Max({0}) \in {0}
      BY <2>1, GreatestElement
    <2>3. QED
      BY <2>1, <2>2
  <1>7. QED
    BY <1>1, <1>2, <1>4, <1>5, <1>6 DEF PositionInv, PositionSkipsResults

\* A call that begins, or ends at the end of its chunk, leaves position, text
\* and results alone.
LEMMA PositionStays ==
    ASSUME PositionInv, UNCHANGED <<m_line, m_col, text, results>>, ReuseInv'
    PROVE  PositionInv'
  BY DEF PositionInv, Places, PositionSkipsResults, Counted, CharsAt

\* An iteration moves the position over the character it consumes, and not
\* over one it puts back or returns a result at.
LEMMA PositionIteration ==
    ASSUME PositionInv, NEW ch \in Chars, Reads(ch), Moves(ch), Record, ReuseInv'
    PROVE  PositionInv'
  <1>1. text \in Seq(Chars) /\ Len(text) \in Nat /\ ec = "running" /\ ec \notin Outcomes
    BY LenProperties
    DEF Reads, PositionInv, ReuseInv, Sound, TypeOK, Outcomes, parser_error_codes
  <1>2. PICK n \in Nat, t \in Seq(Chars) : n = Len(text) /\ t = text
    BY <1>1
  <1>3. PICK S, T : S = DOMAIN text \ Places /\ T = (DOMAIN text \ Places)'
    OBVIOUS
  <1>4. DOMAIN t = 1 .. n /\ Len(t) = n
    BY <1>2, LenProperties
  <1>5. Places \subseteq 1 .. n
    BY <1>2 DEF PositionInv
  <1>6. Counted = CharsOf(t, S) /\ IsBehind(CharsOf(t, S))
    <2>1. Counted = CharsOf(t, S)
      BY <1>2, <1>3 DEF Counted, CharsAt, CharsOf, Places
    <2>2. QED
      BY <2>1 DEF PositionInv, PositionSkipsResults, IsBehind
  <1>7. CASE PutBack(ch)
    <2>1. UNCHANGED <<m_line, m_col, text, results>>
      BY <1>1, <1>7 DEF PutBack, position, Record
    <2>2. QED
      BY <2>1, PositionStays
  <1>8. ASSUME text' = Append(text, ch)
        PROVE  /\ Counted' = CharsOf(Append(t, ch), T)
               /\ DOMAIN text' = 1 .. n + 1
               /\ Len(text') = n + 1
    <2>1. Append(t, ch) \in Seq(Chars) /\ Len(Append(t, ch)) = n + 1 /\ text' = Append(t, ch)
      BY <1>2, <1>4, <1>8, AppendProperties
    <2>2. DOMAIN text' = 1 .. n + 1
      BY <2>1, LenProperties
    <2>3. Counted' = CharsOf(text', T)
      BY <1>2, <1>3 DEF Counted, CharsAt, CharsOf, Places
    <2>4. QED
      BY <2>1, <2>2, <2>3
  <1>9. CASE Consume(ch)
    <2>1. results' = results /\ text' = Append(text, ch)
      BY <1>1, <1>9 DEF Consume, Record
    <2>2. Places' = Places
      BY <2>1 DEF Places
    <2>3. n + 1 \in T /\ \A i \in 1 .. n : i \in S <=> i \in T
      BY <1>2, <1>4, <1>5, <1>8, <1>3, <2>1, <2>2
    <2>4. CharsOf(t, S) \in Seq(Chars) /\ Counted' = Append(CharsOf(t, S), ch)
      BY <1>4, <1>8, <2>1, <2>3, CharsOfAppend
    <2>5. IsBehind(Append(CharsOf(t, S), ch))'
      BY <1>6, <1>9, <2>4, BehindConsumed
    <2>6. PositionSkipsResults'
      BY <2>4, <2>5 DEF PositionSkipsResults, IsBehind
    <2>7. Places' \subseteq 1 .. Len(text')
      BY <1>5, <1>8, <2>1, <2>2
    <2>8. QED
      BY <2>6, <2>7 DEF PositionInv
  <1>10. CASE Decides(ch)
    <2>1. ec' \in Outcomes /\ text' = Append(text, ch) /\ UNCHANGED <<m_line, m_col>>
      BY <1>10 DEF Decides, Return, position
    <2>2. Places' = Places \cup {n + 1}
      <3> DEFINE new == [at |-> Len(text'), code |-> ec', reread |-> ahead # <<>>]
      <3>1. results' = results \cup {new}
        BY <1>1, <2>1 DEF Record
      <3>2. new.at = n + 1
        BY <1>8, <2>1
      <3> HIDE DEF new
      <3>3. QED
        BY <3>1, <3>2 DEF Places
    <2>3. n + 1 \notin T /\ \A i \in 1 .. n : i \in S <=> i \in T
      BY <1>2, <1>4, <1>5, <1>8, <1>3, <2>1, <2>2
    <2>4. Counted' = CharsOf(t, S)
      BY <1>4, <1>8, <2>1, <2>3, CharsOfAppend
    <2>5. PositionSkipsResults'
      BY <1>6, <2>1, <2>4 DEF PositionSkipsResults, IsBehind
    <2>6. Places' \subseteq 1 .. Len(text')
      BY <1>5, <1>8, <2>1, <2>2
    <2>7. QED
      BY <2>5, <2>6 DEF PositionInv
  <1>11. QED
    BY <1>7, <1>9, <1>10 DEF Moves

LEMMA PositionInvNext == PositionInv /\ [ReuseNext]_<<vars, results>> => PositionInv'
  <1> SUFFICES ASSUME PositionInv, [ReuseNext]_<<vars, results>> PROVE PositionInv'
    OBVIOUS
  <1>1. ReuseInv /\ ReuseInv'
    BY ReuseInvNext DEF PositionInv
  <1>2. CASE UNCHANGED <<vars, results>>
    BY <1>1, <1>2, PositionStays DEF vars
  <1>3. CASE (Parse \/ EndOfInput \/ CallAgain) /\ Record
    <2>1. UNCHANGED <<m_line, m_col, text, results>>
      BY <1>3 DEF Parse, EndOfInput, CallAgain, position, Record, Outcomes, parser_error_codes
    <2>2. QED
      BY <1>1, <2>1, PositionStays
  <1>4. ASSUME NEW ch \in Chars, Iteration(ch), Record PROVE PositionInv'
    <2>1. Reads(ch) /\ Moves(ch)
      BY <1>1, <1>4, ReuseIterationStep DEF Iteration
    <2>2. QED
      BY <1>1, <1>4, <2>1, PositionIteration
  <1>5. QED
    BY <1>2, <1>3, <1>4 DEF ReuseNext, Next

\* The position a parser that is called again reports is the one behind the
\* text without the characters that ended its earlier calls.
THEOREM ReusePosition == ReuseSpec => []PositionSkipsResults
  <1>1. PositionInv => PositionSkipsResults
    BY DEF PositionInv
  <1>2. QED
    BY <1>1, PositionInvInit, PositionInvNext, PTL DEF ReuseSpec
-----------------------------------------------------------------------------
(* The free function parse.                                                *)

\* The caller's container is written by a completed call alone, and the
\* outcome is that of a call that has ended.
FunctionInv ==
    /\ LanguageInv
    /\ ec # "completed" => root = DefaultContainer
    /\ outcome = "returned" => ec = "completed"
    /\ outcome = "thrown" => ec \notin {"completed", "not_called", "running"}

\* The invariant of the function holds at first, and every step keeps it.
LEMMA FunctionStart == FunctionInit => FunctionInv
  BY LanguageInit DEF FunctionInit, FunctionInv, Init

LEMMA FunctionStep == FunctionInv /\ [FunctionNext]_functionVars => FunctionInv'
  <1> SUFFICES ASSUME FunctionInv, [FunctionNext]_functionVars PROVE FunctionInv'
    OBVIOUS
  <1>1. [Next]_vars
    BY DEF FunctionNext, OneCall, Finish, functionVars
  <1>2. LanguageInv'
    BY <1>1, LanguageStep DEF FunctionInv
  <1>3. CASE OneCall
    <2>1. /\ ec \in {"not_called", "running"} /\ outcome' = outcome /\ Next
          /\ outcome \notin {"returned", "thrown"} /\ root = DefaultContainer
      BY <1>3 DEF OneCall, FunctionInv
    <2>2. ec' # "completed" => root' = root
      <3>1. CASE Parse \/ EndOfInput
        BY <3>1 DEF Parse, EndOfInput
      <3>2. ASSUME NEW ch \in Chars, Iteration(ch), ec' # "completed" PROVE root' = root
        <4>1. Moves(ch)
          BY <3>2, IterationStep DEF FunctionInv, LanguageInv, Inv
        <4>2. QED
          BY <3>2, <4>1 DEF Moves, Decides, Return
      <3>3. QED
        BY <2>1, <3>1, <3>2 DEF Next
    <2>3. QED
      BY <1>2, <2>1, <2>2 DEF FunctionInv
  <1>4. CASE Finish
    <2>1. /\ ec' = ec /\ root' = root /\ ec \notin {"not_called", "running", "undefined"}
          /\ outcome' = IF ec = "completed" THEN "returned" ELSE "thrown"
      BY <1>4 DEF Finish, vars
    <2>2. QED
      BY <1>2, <2>1 DEF FunctionInv
  <1>5. CASE UNCHANGED functionVars
    BY <1>2, <1>5 DEF functionVars, vars, FunctionInv
  <1>6. QED
    BY <1>3, <1>4, <1>5 DEF FunctionNext

\* The function returns what a document at the start of its input denotes, and
\* throws on every other input, the container it was given as it was.
THEOREM FunctionReturnsDocument == FunctionSpec => []ReturnsDocument
  <1>1. FunctionInv => ReturnsDocument
    BY DEF FunctionInv, LanguageInv, AcceptedExactly, ReturnsDocument
  <1>2. QED
    BY <1>1, FunctionStart, FunctionStep, PTL DEF FunctionSpec
=============================================================================
