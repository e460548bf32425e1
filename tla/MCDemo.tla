------------------------------- MODULE MCDemo -------------------------------
(***************************************************************************)
(* The demo on documents of every kind, whole, cut off, or with other data *)
(* behind them, and what comes out of it.                                  *)
(***************************************************************************)
EXTENDS DemoProps, JsonText

CONSTANTS
    Trees,  \* the containers that the documents denote
    Pads,   \* the white space between their tokens
    Cuts    \* how many characters inputs lack at most

VARIABLES tree, whole

runVars == <<demoVars, tree, whole>>

Spoilt(doc) == [i \in DOMAIN doc |-> IF doc[i] = "x" THEN "NUL" ELSE doc[i]]

\* The inputs: a document, some of its beginnings, one with a tail, one behind
\* a stray bracket, and one with a control code in its strings and keys.
RunInit ==
    /\ tree \in Trees
    /\ \E pad \in Pads : \E doc \in Texts(tree, pad) :
          /\ whole = doc
          /\ \/ DemoInit(doc)
             \/ DemoInit(doc \o <<"]", "{">>)
             \/ DemoInit(<<"]">> \o doc)
             \/ Spoilt(doc) # doc /\ DemoInit(Spoilt(doc))
             \/ \E cut \in 1 .. Min({Cuts, Len(doc)}) :
                    DemoInit(SubSeq(doc, 1, Len(doc) - cut))

RunNext == DemoNext /\ UNCHANGED <<tree, whole>>

RunSpec == RunInit /\ [][RunNext]_runVars /\ DemoFairness
-----------------------------------------------------------------------------
\* If no call fails, the document is read to its last character and its
\* container is passed on, unless it is incomplete, spoilt or too deep, however
\* it is cut into chunks and whatever white space it has.
EveryDocumentIsRead ==
    status # "running" /\ ~Faulted =>
        IF IsPrefix(whole, input) /\ Depth(tree) <= DefaultMaxLevels
        THEN status = "success" /\ root = tree /\ text = whole
        ELSE status = IF input = <<>> THEN "success" ELSE "failure"

\* If the calls of write stop failing, the run comes to an end: on whatever
\* input, with short reads and writes, and after any failing read.  A write that
\* fails each time leaves more to write each time, and the run never ends; the
\* premise keeps that out, as does the bound MaxErrors in a run of TLC.
EveryRunEnds == <>[][~WriteFails]_demoVars => <>(status # "running")
-----------------------------------------------------------------------------
MCLiterals ==
    [l \in {<<"-", "1">>, <<"n", "u", "l", "l">>, <<"t", "r", "u", "e">>} |->
        CASE l[1] = "n" -> Null [] l[1] = "t" -> Boolean(TRUE) [] OTHER -> Number("-1")]

\* In the order of their codes.
MCOrder == <<"NUL", "\t", "\n", " ", "\"", ",", "-", "1", ":", "[", "\\", "]",
             "e", "l", "n", "r", "t", "u", "x", "{", "}">>
MCChars == Range(MCOrder)
MCCode == [ch \in MCChars |-> CHOOSE i \in DOMAIN MCOrder : MCOrder[i] = ch]

ContainersOf(values, keys, size) ==
    {Array(items) : items \in UNION {[1 .. n -> values] : n \in 0 .. size}}
    \cup {Object(members) : members \in UNION {[some -> values] : some \in SUBSET keys}}

Keys == {<<"x", "\n">>, <<>>}
Inner == ContainersOf({Null}, {<<"x">>}, 1)
Deep == ContainersOf({Boolean(TRUE)}, {<<"x">>}, 1)

\* One level of two values, two levels of one, and three levels of one.
MCTrees ==
    ContainersOf({Number("-1"), String(<<"x", "\"">>)}, Keys, 2)
    \cup ContainersOf(Inner, {<<>>}, 1)
    \cup ContainersOf(ContainersOf(Deep, {<<"x">>}, 1), {<<"x">>}, 1)
MCValues ==
    LET heldBy(values) == UNION {Held(value) : value \in values}
        second == heldBy(MCTrees)
        third  == heldBy(second)
    IN  {v : v \in MCTrees \cup {DefaultContainer} \cup second \cup third \cup heldBy(third)}

MCPads == {<<>>, <<"\t">>}
=============================================================================
