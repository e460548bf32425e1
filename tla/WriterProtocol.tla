--------------------------- MODULE WriterProtocol ---------------------------
(***************************************************************************)
(* What lib/serializer.hpp promises a caller who passes one output buffer  *)
(* after another, without saying what is written:                          *)
(*   - the buffers are filled from left to right and never past their end, *)
(*     and what is written is never taken back;                            *)
(*   - buffer_is_full is returned only for a buffer without room;          *)
(*   - every other result is final.                                        *)
(***************************************************************************)
EXTENDS Integers, Sequences

CONSTANTS
    Sizes,      \* the sizes of the buffers
    Finals      \* the results after which nothing is written

VARIABLES written, result, room

vars == <<written, result, room>>

Init ==
    /\ written = <<>>
    /\ result = "buffer_is_full"
    /\ room = 0

Call ==
    /\ result = "buffer_is_full"
    /\ result' = "running"
    /\ room' \in Sizes
    /\ UNCHANGED written

Fill ==
    /\ result = "running"
    /\ room = 0
    /\ result' = "buffer_is_full"
    /\ UNCHANGED <<written, room>>

\* Some characters are written, no more than there is room for.
Write ==
    /\ result = "running"
    /\ room > 0
    /\ room' \in 0 .. room
    /\ Len(written') = Len(written) + room - room'
    /\ written = SubSeq(written', 1, Len(written))
    /\ result' \in {"running"} \cup Finals

Next == Call \/ Fill \/ Write

Spec == Init /\ [][Next]_vars
=============================================================================
