--------------------------- MODULE MCParserTokens ---------------------------
(***************************************************************************)
(* Parser on inputs made of whole tokens, any of them after any other.  A  *)
(* member name with its colon is one token, so that within a small bound   *)
(* objects have several members, duplicates among them, and values of      *)
(* every kind.  Another workload spells strings character by character.    *)
(***************************************************************************)
EXTENDS MCParser

CONSTANTS
    Tokens,     \* function: names of workloads |-> their tokens
    MaxTokens   \* bound: workloads |-> tokens begun

VARIABLES
    workload,
    pending,    \* what is left of the token being read
    tokens      \* the number of tokens begun

tokenVars == <<vars, workload, pending, tokens>>

TokenInit == Init /\ workload \in DOMAIN Tokens /\ pending = <<>> /\ tokens = 0

ReadToken ==
    \E token \in IF pending = <<>> THEN Tokens[workload] ELSE {pending} :
        /\ tokens' = IF pending = <<>> THEN tokens + 1 ELSE tokens
        /\ tokens' <= MaxTokens[workload]
        /\ Iteration(token[1])
        /\ pending' = IF ahead' = <<>> THEN Tail(token) ELSE token
        /\ UNCHANGED workload

TokenNext ==
    \/ ReadToken
    \/ (Parse \/ EndOfInput) /\ UNCHANGED <<workload, pending, tokens>>

TokenSpec == TokenInit /\ [][TokenNext]_tokenVars

Members == {<<"{">>, <<"}">>, <<"[">>, <<"]">>, <<",">>, <<"1">>, <<"\"", "\"", ":">>}
Strings == {<<ch>> : ch \in StringChars}

MCChars == StructureChars \cup StringChars
MCTokens == [members |-> Members, strings |-> Strings]
MCMaxTokens == [members |-> 9, strings |-> 7]
=============================================================================
