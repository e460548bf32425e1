------------------------- MODULE ParseFunctionProps -------------------------
(***************************************************************************)
(* What the free function parse of lib/parser.hpp returns.                 *)
(***************************************************************************)
EXTENDS ParseFunction, ParserLanguage

\* The function returns what a complete document at the start of the input
\* denotes, and throws on every other input, an incomplete one included.
ReturnsDocument ==
    LET doc == Document(text, m_max_levels)
    IN  /\ outcome = "returned" => doc.value = root /\ doc.next = Len(text) + 1
        /\ outcome = "thrown" => ~Readable(doc) /\ root = DefaultContainer
=============================================================================
