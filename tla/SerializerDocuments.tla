------------------------ MODULE SerializerDocuments ------------------------
(***************************************************************************)
(* A client that has a container written into buffers of any size, and the *)
(* document it should get.                                                 *)
(***************************************************************************)
EXTENDS SerializerProps, JsonLayout

VARIABLE document

docVars == <<serializerVars, document>>

DocumentInit == Init /\ document = DocumentOf(root, m_pretty_print)

DocumentNext == Next /\ UNCHANGED document

\* A call goes on to its end (WF).  The client passes buffers as long as they
\* are full, and not empty ones for ever (SF: an empty buffer is full at once).
DocumentSpec ==
    /\ DocumentInit
    /\ [][DocumentNext]_docVars
    /\ WF_docVars(Iteration /\ UNCHANGED document)
    /\ SF_docVars(\E size \in Sizes \ {0} : PassBuffer(size) /\ UNCHANGED document)

\* Whatever the buffers, the text written and the text that waits are a
\* beginning of the document and in the end all of it; an element that has a
\* character no escape sequence exists for ends the output right behind what
\* precedes it, its separator not included.
WritesTheDocument ==
    /\ IsPrefix(out \o m_range_to_write, WritablePart(document))
    /\ ec = "completed" =>
          out \o m_range_to_write = document /\ IsWritable(document)
    /\ ec = "illegal_char_in_string" =>
          out = WritablePart(document) /\ ~IsWritable(document)

\* Writing ends, with the result that says whether there was such an element.
EveryDocumentIsWritten ==
    <>(ec = IF IsWritable(document) THEN "completed" ELSE "illegal_char_in_string")

\* serializer.test.cpp:157-211: a document written in blocks is the document.
\* (Its end is missing if the last block fills up within it.)
BlocksMakeTheDocument == ec = "completed" => out = document
=============================================================================
