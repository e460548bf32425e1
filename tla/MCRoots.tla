------------------------------ MODULE MCRoots ------------------------------
(***************************************************************************)
(* The containers that the runs of the serializer write.                   *)
(***************************************************************************)
EXTENDS FiniteSets, JsonText, KeyOrder

MCLiterals ==
    [l \in {<<"1">>, <<"n", "u", "l", "l">>, <<"t", "r", "u", "e">>} |->
        CASE l[1] = "n" -> Null [] l[1] = "t" -> Boolean(TRUE) [] OTHER -> Number("1")]

MCCode == [ch \in {"NUL", "\n", "\r", "\"", "a", "b"} |->
              CASE ch = "NUL" -> 0 [] ch = "\n" -> 10 [] ch = "\r" -> 13
                [] ch = "\"" -> 34 [] ch = "a" -> 97 [] ch = "b" -> 98]

ContainersOf(values, keys, size) ==
    {Array(items) : items \in UNION {[1 .. n -> values] : n \in 0 .. size}}
    \cup {Object(some) : some \in UNION {[ks -> values] :
                                ks \in {k \in SUBSET keys : Cardinality(k) <= size}}}

Keys == {<<>>, <<"b">>, <<"a">>, <<"a", "\n">>, <<"NUL">>}
Leaves == {Number("1"), String(<<"a", "\"">>), String(<<"a", "\r">>)}
Inner == ContainersOf({Null}, {<<"b">>}, 1)

\* Flat containers of several elements, and three levels of few.
ManyRoots ==
    ContainersOf(Leaves, Keys, 2)
    \cup ContainersOf({Boolean(TRUE)}, Keys, 3)
    \cup ContainersOf(ContainersOf(Inner \cup {String(<<"NUL">>)}, {<<"a">>}, 1), {<<"a">>, <<"b">>}, 2)

\* The roots, and what containers hold down to the third level.
ManyValues ==
    LET heldBy(values) == UNION {Held(value) : value \in values}
        second == heldBy(ManyRoots)
        third  == heldBy(second)
    IN  {v : v \in ManyRoots \cup second \cup third \cup heldBy(third)}
=============================================================================
