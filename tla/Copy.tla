-------------------------------- MODULE Copy --------------------------------
(***************************************************************************)
(* What bin/joppdemo.cpp promises whoever puts it into a pipeline, without *)
(* saying how it reads or writes:                                          *)
(*   - it writes a copy of the document at the start of its input, from    *)
(*     left to right, and nothing but a beginning of a copy;               *)
(*   - it succeeds only when the copy is written;                          *)
(*   - input without a document at its start makes it fail, and is not     *)
(*     answered with a single character.                                   *)
(* A system call that fails, or a stray ] (fault), voids all of this.      *)
(***************************************************************************)
EXTENDS SequencesExt

CONSTANT Copies(_)  \* the texts that count as copies of an input

VARIABLES input, stdout, status, fault

vars == <<input, stdout, status, fault>>

Init == stdout = <<>> /\ status = "running" /\ fault = FALSE

Write ==
    /\ status = "running"
    /\ stdout' # stdout
    /\ \E copy \in Copies(input) :
          IsPrefix(stdout, stdout') /\ IsPrefix(stdout', copy)
    /\ UNCHANGED <<input, status, fault>>

Succeed ==
    /\ status = "running"
    /\ stdout \in Copies(input)
    /\ status' = "success"
    /\ UNCHANGED <<input, stdout, fault>>

Refuse ==
    /\ status = "running"
    /\ Copies(input) = {}
    /\ stdout = <<>>
    /\ status' = "failure"
    /\ UNCHANGED <<input, stdout, fault>>

Break == fault' /\ input' = input

Next == Write \/ Succeed \/ Refuse \/ Break

Spec == Init /\ [][Next]_vars
=============================================================================
