------------------------------ MODULE MCModels ------------------------------
(***************************************************************************)
(* Small instances of the model lifecycle for TLC.                         *)
(***************************************************************************)
EXTENDS ModelProperties, TLC

Symmetry == Permutations(Sessions)

(* One session that does everything, beside other applications. *)
Alones ==
  {[users |-> {s}, operations |-> OperationKinds, modes |-> ModeKinds,
    keep |-> TRUE, faulty |-> faulty, silent |-> silent, others |-> TRUE] :
      s \in Sessions, faulty \in BOOLEAN, silent \in BOOLEAN}

(* All sessions do everything, beside other applications; the runtime works. *)
Together ==
  [users |-> Sessions, operations |-> OperationKinds, modes |-> {"Balanced", "Fast"},
   keep |-> FALSE, faulty |-> FALSE, silent |-> FALSE, others |-> TRUE]

(* All sessions ask, answer and unload, and every call to the runtime may  *)
(* fail.                                                                   *)
Failing ==
  [users |-> Sessions, operations |-> {"question", "unload"},
   modes |-> {"Balanced", "Fast"}, keep |-> TRUE, faulty |-> TRUE,
   silent |-> FALSE, others |-> FALSE]

(* The same where the runtime works, except that is_loaded may raise. *)
Unanswered == [Failing EXCEPT !.faulty = FALSE, !.silent = TRUE]

AllScenarios == Alones \cup {Together, Failing, Unanswered}

(* Two sessions share the embedding model, and nothing fails. *)
Shared ==
  {[users |-> Sessions, operations |-> {"question", "unload"}, modes |-> {"Balanced"},
    keep |-> TRUE, faulty |-> FALSE, silent |-> FALSE, others |-> FALSE]}
=============================================================================
