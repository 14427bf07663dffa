----------------------------- MODULE Documents -----------------------------
(***************************************************************************)
(* Document identities and the lifecycle states of a documents row.        *)
(*                                                                         *)
(* A document id is drawn afresh (uuid4) by every upload attempt, as is    *)
(* the name of the managed copy it writes: one id stands for both.         *)
(***************************************************************************)

CONSTANTS
  Docs,        \* document ids, one per upload attempt
  ContentOf    \* the content (sha256) that each upload attempt carries

(* No row.  Not a value of the column. *)
Absent == "absent"

DocumentStatus ==
  {"pending", "parsing", "parsed", "pending_embedding", "indexing",
   "indexed", "failed", "incompatible_index"}

(* The states that bootstrap takes for work cut short. *)
TransientStatus ==
  {"pending", "parsing", "parsed", "pending_embedding", "indexing"}
=============================================================================
