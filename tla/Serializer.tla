----------------------------- MODULE Serializer -----------------------------
(***************************************************************************)
(* lib/serializer.hpp: the resumable JSON writer.                          *)
(*                                                                         *)
(* A client calls serialize with one output buffer after another until the *)
(* result is something other than buffer_is_full.  The variables m_... are *)
(* the members of class serializer and survive a call; m_range_to_write is *)
(* the part of m_string_to_write that is still to be copied, all that the  *)
(* code ever reads of that string.  out is what all the calls have written *)
(* into their buffers, room what is left of the buffer of this call.       *)
(*                                                                         *)
(* A call writes to consecutive buffers of any size.  One action is one    *)
(* iteration of the loop, along one path through it.                       *)
(***************************************************************************)
EXTENDS Integers, SequencesExt, Delimiters, Types, KeyOrder

CONSTANTS
    Roots,      \* the containers to be written
    Sizes       \* the sizes of output buffers

ASSUME SizesAssumption == Sizes \subseteq Nat

VARIABLES
    m_range_to_write,   \* text that waits for room
    m_contexts,         \* the containers being written, the innermost last
    m_pretty_print,
    root,               \* the container the constructor was given
    ec,                 \* what the last call returned; "running" inside one
    room,               \* std::size(output_buffer)
    out                 \* the characters written so far

members == <<m_range_to_write, m_contexts, m_pretty_print>>
serializerVars == <<members, root, ec, room, out>>

serializer_error_codes == {"completed", "buffer_is_full", "illegal_char_in_string"}
-----------------------------------------------------------------------------
(* The elements of a container, in the order they are written.             *)

\* What item_pointers lead to: an element of an array has an empty key.
Elements(container) ==
    IF container.type = "array"
    THEN [i \in DOMAIN container.items |-> [key |-> <<>>, value |-> container.items[i]]]
    ELSE LET keys == InOrder(DOMAIN container.members)
         IN  [i \in DOMAIN keys |-> [key |-> keys[i], value |-> container.members[keys[i]]]]

make_serializer_context(container) ==
    [range            |-> Elements(container),
     block_starter    |-> IF container.type = "object" THEN begin_object ELSE begin_array,
     block_terminator |-> IF container.type = "object" THEN end_object ELSE end_array,
     first_item       |-> TRUE]
-----------------------------------------------------------------------------
(* Layout.                                                                 *)

PrettyNewline == IF m_pretty_print THEN <<Newline>> ELSE <<>>

PrettyTabs(n) == IF m_pretty_print THEN [k \in 1 .. n |-> "\t"] ELSE <<>>

BlockStart(context) == <<context.block_starter>> \o PrettyNewline

\* Mutant: indented like the elements.
BlockEndIndented(contexts) ==
    PrettyNewline \o PrettyTabs(Len(contexts))
        \o <<Last(contexts).block_terminator>>
        \o (IF Len(contexts) = 1 THEN <<Newline>> ELSE <<>>)

\* The end of the innermost container; that of the root ends its line.
BlockEnd(contexts) ==
    PrettyNewline \o PrettyTabs(Len(contexts) - 1)
        \o <<Last(contexts).block_terminator>>
        \o (IF Len(contexts) = 1 THEN <<Newline>> ELSE <<>>)

Separator(context) ==
    IF context.first_item THEN <<>> ELSE <<value_separator>> \o PrettyNewline

\* An empty key is taken for none, be the element a member of an object or not.
KeyText(key) ==
    IF key = <<>> THEN <<>>
    ELSE wrap_string(key) \o <<name_separator>>
            \o (IF m_pretty_print THEN <<" ">> ELSE <<>>)

IsContainer(value) == value.type \in ContainerTypes

\* Mutant: strings are put between quotes as they are.
ValueTextUnescaped(value) ==
    CASE IsContainer(value)     -> BlockStart(make_serializer_context(value))
      [] value.type = "string"  ->
            <<string_begin_end>> \o value.string \o <<string_begin_end>>
      [] OTHER                  -> to_string(value)

\* Of a container only the start, the rest is written from its own context.
ValueText(value) ==
    CASE IsContainer(value)     -> BlockStart(make_serializer_context(value))
      [] value.type = "string"  -> wrap_string(value.string)
      [] OTHER                  -> to_string(value)

HasIllegalChar(element) ==
    \/ wrap_string(element.key) = nullopt
    \/ element.value.type = "string" /\ wrap_string(element.value.string) = nullopt
-----------------------------------------------------------------------------
(* One iteration of the loop.                                              *)

\* Mutant: the text is taken to fit.
CountUnchecked == Len(m_range_to_write)

Count == Min({Len(m_range_to_write), room})

Rest == SubSeq(m_range_to_write, Count + 1, Len(m_range_to_write))

\* The buffer is not full yet: copy what fits.
write_buffer ==
    /\ ec = "running"
    /\ room > 0
    /\ out' = out \o SubSeq(m_range_to_write, 1, Count)
    /\ room' = room - Count
    /\ UNCHANGED <<m_pretty_print, root>>

\* All text there was is written, and some container is still open.
WriteAll ==
    /\ write_buffer
    /\ m_contexts # <<>>
    /\ Rest = <<>>

\* Mutant: no test for a full buffer.
BufferIsFullUntested == FALSE /\ UNCHANGED serializerVars

\* Mutant: full as soon as one more character would fill it.
BufferIsFullEarly ==
    /\ ec = "running"
    /\ room <= 1
    /\ ec' = "buffer_is_full"
    /\ UNCHANGED <<members, root, room, out>>

BufferIsFull ==
    /\ ec = "running"
    /\ room = 0
    /\ ec' = "buffer_is_full"
    /\ UNCHANGED <<members, root, room, out>>

\* No container is left, whether or not the rest of the text had room.
Completed ==
    /\ write_buffer
    /\ m_contexts = <<>>
    /\ m_range_to_write' = Rest
    /\ ec' = "completed"
    /\ UNCHANGED m_contexts

\* Mutant: the text that has no room is forgotten.
WritePartAndForget ==
    /\ write_buffer
    /\ m_contexts # <<>> /\ Rest # <<>>
    /\ m_range_to_write' = <<>>
    /\ UNCHANGED <<m_contexts, ec>>

WritePart ==
    /\ write_buffer
    /\ m_contexts # <<>> /\ Rest # <<>>
    /\ m_range_to_write' = Rest
    /\ UNCHANGED <<m_contexts, ec>>

\* pop_element has no element left.
EndBlock ==
    /\ WriteAll
    /\ Last(m_contexts).range = <<>>
    /\ m_range_to_write' = BlockEnd(m_contexts)
    /\ m_contexts' = Front(m_contexts)
    /\ ec' = ec

\* pop_element takes the element out of the range, whatever becomes of it.
Popped(contexts) ==
    [contexts EXCEPT ![Len(contexts)].range = Tail(@),
                     ![Len(contexts)].first_item = FALSE]

WriteElement ==
    /\ WriteAll
    /\ Last(m_contexts).range # <<>>
    /\ LET context == Last(m_contexts)
           element == Head(context.range)
       IN  /\ ~HasIllegalChar(element)
           /\ m_range_to_write' = Separator(context) \o PrettyTabs(Len(m_contexts))
                                    \o KeyText(element.key) \o ValueText(element.value)
           /\ m_contexts' = Popped(m_contexts)
                \o (IF IsContainer(element.value)
                    THEN <<make_serializer_context(element.value)>> ELSE <<>>)
    /\ ec' = ec

\* Mutant: the element stays in the range.
IllegalCharKept ==
    /\ WriteAll
    /\ Last(m_contexts).range # <<>>
    /\ HasIllegalChar(Head(Last(m_contexts).range))
    /\ m_range_to_write' = <<>>
    /\ m_contexts' = m_contexts
    /\ ec' = "illegal_char_in_string"

\* Nothing of the element is written, its separator and key included.
IllegalChar ==
    /\ WriteAll
    /\ Last(m_contexts).range # <<>>
    /\ HasIllegalChar(Head(Last(m_contexts).range))
    /\ m_range_to_write' = <<>>
    /\ m_contexts' = Popped(m_contexts)
    /\ ec' = "illegal_char_in_string"
-----------------------------------------------------------------------------
\* serialize(output_buffer): nothing keeps a caller from calling again after
\* any result.
serialize(size) ==
    /\ ec # "running"
    /\ ec' = "running"
    /\ room' = size
    /\ UNCHANGED <<members, root, out>>

Init ==
    /\ root \in Roots
    /\ m_pretty_print \in BOOLEAN
    /\ m_contexts = <<make_serializer_context(root)>>
    /\ m_range_to_write = BlockStart(make_serializer_context(root))
    /\ ec = "buffer_is_full"    \* nothing is returned yet, a buffer is wanted
    /\ room = 0
    /\ out = <<>>

Iteration ==
    \/ BufferIsFull
    \/ Completed
    \/ WritePart
    \/ EndBlock
    \/ WriteElement
    \/ IllegalChar

\* The clients in tests and demo call again only for a full buffer.
PassBuffer(size) == ec = "buffer_is_full" /\ serialize(size)

Next ==
    \/ Iteration
    \/ \E size \in Sizes : PassBuffer(size)

Spec == Init /\ [][Next]_serializerVars
=============================================================================
