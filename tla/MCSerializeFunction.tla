------------------------ MODULE MCSerializeFunction ------------------------
(***************************************************************************)
(* The roots and sizes of SerializeFunction for TLC are those of MCRoots.  *)
(***************************************************************************)
EXTENDS SerializeFunctionProps, MCRoots
=============================================================================
