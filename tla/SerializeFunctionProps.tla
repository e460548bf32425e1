----------------------- MODULE SerializeFunctionProps -----------------------
(***************************************************************************)
(* The properties of the two overloads of to_string that hold of every     *)
(* container and every size of their buffers.                              *)
(***************************************************************************)
EXTENDS SerializeFunction, JsonLayout

Document == DocumentOf(root, m_pretty_print)

\* Where the buffer starts that has room for the first character of the end
\* of the document: its last line if pretty, the last bracket if not.
LastStart ==
    LET end == Len(Document) - (IF m_pretty_print THEN 3 ELSE 2)
    IN  (end \div buffer_size) * buffer_size

\* What to_string returns is the document up to the end of the buffer the
\* serializer completes in, and for a container only up to its start; the
\* template throws if an element cannot be written, and only then.
ReturnsBlocks ==
    /\ outcome = "thrown" => overload = "template" /\ ~IsWritable(Document)
    /\ outcome = "returned" /\ IsWritable(Document) =>
          ret = SubSeq(Document, 1,
                    IF overload = "container" THEN LastStart
                    ELSE Min({Len(Document), LastStart + buffer_size}))
    /\ outcome = "returned" /\ ~IsWritable(Document) => overload = "container"

\* Every call ends, the one that goes on after an element that cannot be
\* written included.
EveryCallEnds == <>(outcome # "calling")
=============================================================================
