----------------------------- MODULE MCPipeline -----------------------------
(***************************************************************************)
(* Small instances of the document workflow for TLC.                       *)
(***************************************************************************)
EXTENDS PipelineProperties, TLC

CONSTANTS d1, d2, d3, same, other

(* d1 and d2 are two uploads of one file, d3 is another file. *)
Contents == d1 :> same @@ d2 :> same @@ d3 :> other

(* Neither the threads nor the model versions are told apart. *)
Symmetry == {p @@ q : p \in Permutations(Sessions), q \in Permutations(Versions)}
=============================================================================
