--------------------------- MODULE ParserLanguage ---------------------------
(***************************************************************************)
(* What lib/parser.hpp accepts.                                            *)
(***************************************************************************)
EXTENDS ParserProps, JsonGrammar

ASSUME CharsAssumption == Chars \subseteq STRING

\* A parse completes on exactly the texts the reference grammar reads, with
\* the container it reads and at the character it ends with.
AcceptedExactly ==
    LET doc == Document(text, m_max_levels)
    IN  IF ec = "completed"
        THEN doc.value = root /\ doc.next = Len(text) + 1
        ELSE ~Readable(doc)
=============================================================================
