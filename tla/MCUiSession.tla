---------------------------- MODULE MCUiSession ----------------------------
(***************************************************************************)
(* Small instances of one session for TLC.                                 *)
(***************************************************************************)
EXTENDS UiSession, TLC

Symmetry == Permutations(Threads) \cup Permutations(Files)
=============================================================================
