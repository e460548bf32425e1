--------------------------- MODULE MCParserReuse ---------------------------
(***************************************************************************)
(* Inputs made of whole tokens, of which the parser refuses some and is    *)
(* called again.                                                           *)
(***************************************************************************)
EXTENDS MCParserTokens, ParserReuse

reuseVars == <<tokenVars, results>>

CallWithToken == CallAgain /\ UNCHANGED <<workload, pending, tokens>>

ReuseTokenSpec ==
    /\ TokenInit /\ results = {}
    /\ [][(TokenNext \/ CallWithToken) /\ Record]_reuseVars
-----------------------------------------------------------------------------
\* The container that was delivered last out of t, if any: behind one that
\* ended with a ] a comma may follow, and another document; behind a } none.
RECURSIVE Delivered(_)
Delivered(t) ==
    LET doc   == Document(t, m_max_levels)
        comma == NextToken(t, doc.next)
        more  == Delivered(SubSeq(t, comma + 1, Len(t)))
    IN  IF ~Readable(doc) THEN nullopt
        ELSE IF t[doc.next - 1] = "]" /\ IsAt(t, comma, ",") /\ more # nullopt
             THEN more ELSE doc.value

\* Going on after errors is reading the text without the characters that were
\* refused, and going on after a ] has its root replaced by what comes
\* behind a comma.  (A second member of the same name voids this: its value is
\* kept, and stored once more without a name.)
RootIsLastDelivered ==
    ~Happened("key_already_exists") =>
        root = IF Delivered(Kept) = nullopt THEN DefaultContainer ELSE Delivered(Kept)
-----------------------------------------------------------------------------
Mixed == {<<"{">>, <<"}">>, <<"[">>, <<"]">>, <<",">>, <<"\"", "\"", ":">>, <<"1">>,
          <<"\"", "\n", "\"">>}
Repeated == {<<"{">>, <<"}">>, <<",">>, <<"\"", "\"", ":", "1">>, <<"\"", "\"", ":", "{">>}

ReuseTokens == [mixed |-> Mixed, repeated |-> Repeated]
ReuseMaxTokens == [mixed |-> 6, repeated |-> 7]
=============================================================================
