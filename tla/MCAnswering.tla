---------------------------- MODULE MCAnswering ----------------------------
(***************************************************************************)
(* Small instances of the questions for TLC: all documents have a content  *)
(* of their own.                                                           *)
(***************************************************************************)
EXTENDS Answering, TLC

MCContentOf == [d \in Docs |-> d]

Symmetry == Permutations(Docs)
=============================================================================
