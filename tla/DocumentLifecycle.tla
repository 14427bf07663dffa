------------------------- MODULE DocumentLifecycle -------------------------
(***************************************************************************)
(* What GroundNote promises about an uploaded document, seen from outside: *)
(* an upload attempt either stores its document or leaves nothing behind,  *)
(* a stored document becomes searchable in one step and only by itself, it *)
(* may stop being searchable, and once removed it never comes back.  Two   *)
(* stored documents never have the same content.                           *)
(*                                                                         *)
(* IndexingPipeline implements this specification: see Lifecycle there.    *)
(***************************************************************************)
EXTENDS Documents

VARIABLE phase

Phase == {"new", "stored", "ready", "gone"}

Kept == {d \in Docs : phase[d] \in {"stored", "ready"}}

Init == phase = [d \in Docs |-> "new"]

(* The document and its chunks are committed. *)
Store(d) ==
  /\ phase[d] = "new"
  /\ \A e \in Kept : ContentOf[e] # ContentOf[d]
  /\ phase' = [phase EXCEPT ![d] = "stored"]

(* The attempt ends without a document. *)
Abandon(d) ==
  /\ phase[d] = "new"
  /\ phase' = [phase EXCEPT ![d] = "gone"]

(* The complete index is committed: one document at a time. *)
Publish(d) ==
  /\ phase[d] = "stored"
  /\ phase' = [phase EXCEPT ![d] = "ready"]

(* Re-indexing withdraws one document, a new embedding model all of them. *)
Withdraw(withdrawn) ==
  /\ withdrawn # {} /\ \A d \in withdrawn : phase[d] = "ready"
  /\ phase' = [d \in Docs |-> IF d \in withdrawn THEN "stored" ELSE phase[d]]

(* One document is deleted, or all that are kept. *)
Remove(removed) ==
  /\ removed = Kept \/ \E d \in Kept : removed = {d}
  /\ phase' = [d \in Docs |-> IF d \in removed THEN "gone" ELSE phase[d]]

Next ==
  \/ \E d \in Docs : Store(d) \/ Abandon(d) \/ Publish(d)
  \/ \E chosen \in SUBSET Docs : Withdraw(chosen) \/ Remove(chosen)

Spec == Init /\ [][Next]_phase
=============================================================================
