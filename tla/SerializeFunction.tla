------------------------- MODULE SerializeFunction -------------------------
(***************************************************************************)
(* lib/serializer.hpp: the two overloads of to_string, each of which has a *)
(* container written by a serializer of its own into one buffer it uses    *)
(* again and again, and puts the pieces together.                          *)
(*   template    to_string(T const&), also behind json_buffer; for an      *)
(*               object or an array, never pretty, throws                  *)
(*   container   to_string(container const&, bool), which overload         *)
(*               resolution prefers for a container                        *)
(***************************************************************************)
EXTENDS Serializer

CONSTANT BufferSizes    \* in place of 65536 and 4096, to scale with the roots

ASSUME BufferSizesAssumption == BufferSizes \subseteq Nat \ {0}

VARIABLES
    overload,
    buffer_size,    \* std::size(buffer)
    ret,            \* the text put together
    outcome         \* "calling", "returned" or "thrown"

arguments == <<overload, buffer_size>>
functionVars == <<serializerVars, arguments, ret, outcome>>

FunctionInit ==
    /\ Init
    /\ overload \in {"template", "container"}
    /\ overload = "template" => ~m_pretty_print
    /\ buffer_size \in BufferSizes
    /\ ret = <<>>
    /\ outcome = "calling"

\* The first call of serialize in a turn of the loop, and its iterations.
FirstCall ==
    /\ outcome = "calling"
    /\ out = <<>> /\ ec = "buffer_is_full"
    /\ serialize(buffer_size)
    /\ UNCHANGED <<arguments, ret, outcome>>

Write ==
    /\ Iteration
    /\ UNCHANGED <<arguments, ret, outcome>>

\* From std::data(buffer) to res.ptr: what the last call has written.
Block == SubSeq(out, Len(out) - (buffer_size - room) + 1, Len(out))

HasResult ==
    /\ outcome = "calling"
    /\ ec # "running"
    /\ out # <<>>
    /\ UNCHANGED arguments

Leave(text, how) ==
    /\ ret' = text
    /\ outcome' = how
    /\ UNCHANGED serializerVars

TakeAndGoOn ==
    /\ ret' = ret \o Block
    /\ serialize(buffer_size)
    /\ UNCHANGED outcome

Template ==
    /\ HasResult
    /\ overload = "template"
    /\ CASE ec = "completed"      -> Leave(ret \o Block, "returned")
         [] ec = "buffer_is_full" -> TakeAndGoOn
         [] OTHER                 -> Leave(ret \o Block, "thrown")

\* Mutant: the last block is appended before the break.
ContainerWhole ==
    /\ HasResult
    /\ overload = "container"
    /\ IF ec = "completed" THEN Leave(ret \o Block, "returned") ELSE TakeAndGoOn

\* The last block is not appended, and no other result than completed is
\* looked at.
Container ==
    /\ HasResult
    /\ overload = "container"
    /\ IF ec = "completed" THEN Leave(ret, "returned") ELSE TakeAndGoOn

FunctionNext == FirstCall \/ Write \/ Template \/ Container

FunctionSpec ==
    /\ FunctionInit
    /\ [][FunctionNext]_functionVars
    /\ WF_functionVars(FunctionNext)
=============================================================================
