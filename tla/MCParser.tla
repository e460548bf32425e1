------------------------------ MODULE MCParser ------------------------------
EXTENDS ParserLanguage
-----------------------------------------------------------------------------
(* What the tests expect and the code does not do.                         *)

\* lib/parser.test.cpp:325-347: input that does not start with a container
\* gives no_top_level_node.  (] does not.)
NoTopLevelNodeReported ==
    (/\ text # <<>>
     /\ OnlyBlanks(Len(text) - 1)
     /\ ~is_whitespace(Last(text))
     /\ Last(text) \notin {begin_array, begin_object}) => ec = "no_top_level_node"

\* lib/parser.test.cpp:526-539: a second member of the same name gives
\* key_already_exists.  (Not if its value is an array.)
DuplicateKeysReported ==
    ec = "completed" =>
        "duplicate_key_dropped" \notin Document(text, m_max_levels).defects
-----------------------------------------------------------------------------
StructureChars == {"[", "]", "{", "}", ":", ",", "\"", "1", "\n"}
StringChars == {"[", "]", "{", ":", "\"", "\\", "n", "\n", "NUL"}
MCLiterals == [l \in {<<"1">>} |-> Number("1")]
=============================================================================
