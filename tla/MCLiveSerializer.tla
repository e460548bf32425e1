-------------------------- MODULE MCLiveSerializer --------------------------
EXTENDS LiveSerializer

At(type, at) == [type |-> type, at |-> at]

MCLiterals == [l \in {<<"n">>} |-> Null]
MCAddresses == 1 .. 4

\* Objects and arrays in each other, with elements on both sides of what is
\* nested, and room for others.
MCHeaps ==
    {<<Object(2 :> At("array", 2)), Array(<<Null, At("object", 3)>>), Object(2 :> Null)>>,
     <<Array(<<At("object", 2), Null>>), Object(1 :> Null @@ 3 :> At("array", 3)), Array(<<>>)>>,
     <<Object(1 :> At("object", 2) @@ 3 :> Null), Object(<<>>)>>,
     <<Array(<<>>)>>}
=============================================================================
