------------------------------- MODULE Stacks -------------------------------
(***************************************************************************)
(* A std::stack is a sequence whose last element is the top.               *)
(***************************************************************************)
EXTENDS SequencesExt

IsSequence(s) == s \in Seq(Range(s))

SetTop(s, c) == [s EXCEPT ![Len(s)] = c]
=============================================================================
