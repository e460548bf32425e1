-------------------------- MODULE MCParseFunction --------------------------
EXTENDS ParseFunctionProps, JsonText

\* README.md:21-22: the depth of the tree has an optional limit.  (The one
\* given to the function has no effect.)
RequestedLimitKept ==
    outcome = "returned" /\ max_levels # nullopt => Depth(root) <= max_levels

MCChars == {"[", "]", "{", "}", "\"", ":", ","}
MCLiterals == <<>>
=============================================================================
