-------------------------- MODULE SerializerProps --------------------------
(***************************************************************************)
(* The properties of lib/serializer.hpp that hold of every container and   *)
(* every series of output buffers.                                         *)
(***************************************************************************)
EXTENDS Serializer, Stacks, Trees

ASSUME RootsAssumption == \A value \in Roots : value \in Values /\ IsContainer(value)

IsElement(element) == IsText(element.key) /\ element.value \in Values

IsBlock(context) ==
    /\ context = [range            |-> context.range,
                  block_starter    |-> context.block_starter,
                  block_terminator |-> context.block_terminator,
                  first_item       |-> context.first_item]
    /\ IsSequence(context.range)
    /\ \A i \in DOMAIN context.range : IsElement(context.range[i])
    /\ <<context.block_starter, context.block_terminator>> \in
            {<<begin_object, end_object>>, <<begin_array, end_array>>}
    /\ context.first_item \in BOOLEAN

\* Every variable holds a value of the type the class declares for it, and
\* the delimiters of a context are those of one and the same container.
TypeOK ==
    /\ IsSequence(m_range_to_write)
    /\ IsSequence(m_contexts)
    /\ \A i \in DOMAIN m_contexts : IsBlock(m_contexts[i])
    /\ m_pretty_print \in BOOLEAN
    /\ root.type \in ContainerTypes
    /\ ec \in serializer_error_codes \cup {"running"}
    /\ room \in Nat
    /\ IsSequence(out)

\* The end of the document: the terminator of the root, on a line of its own
\* if pretty, and a newline.
DocumentEnd(terminator) == PrettyNewline \o <<terminator, Newline>>

\* completed is returned as soon as no container is open, whether or not the
\* buffer had room for the text that closes the last one.  What a caller who
\* stops there has not got is a part of that text and nothing else.
OnlyTheEndCanBeLost ==
    /\ m_contexts = <<>> =>
          \E terminator \in {end_object, end_array} :
              \E n \in 1 .. Len(DocumentEnd(terminator)) + 1 :
                  m_range_to_write = SubSeq(DocumentEnd(terminator), n,
                                            Len(DocumentEnd(terminator)))
    /\ ec = "completed" =>
          /\ m_contexts = <<>>
          /\ m_range_to_write # <<>> => room = 0

\* The inductive invariant.
Inv == TypeOK /\ OnlyTheEndCanBeLost

\* The promise of WriterProtocol: buffers are respected, filled completely,
\* and a result other than buffer_is_full is final.
Protocol == INSTANCE WriterProtocol WITH
    written <- out, result <- ec, Finals <- serializer_error_codes \ {"buffer_is_full"}

ImplementsProtocol == Protocol!Spec
=============================================================================
