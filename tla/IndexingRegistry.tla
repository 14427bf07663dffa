-------------------------- MODULE IndexingRegistry --------------------------
(***************************************************************************)
(* ActiveIndexingRegistry: the process-local table of indexing owners.     *)
(*                                                                         *)
(* The table maps a document id, or the single upload pipeline, to the     *)
(* opaque token of the run that owns it.  A thread holds at most one token *)
(* of each kind at a time, so the token is the session that claimed.  Each *)
(* method runs under one process-wide lock, hence is one operator here.    *)
(***************************************************************************)
EXTENDS Documents

CONSTANTS
  Sessions,   \* script threads of the server process
  Nobody      \* no entry in the table, and no token passed to a method

ASSUME NobodyAssumption == Nobody \notin Sessions

Registry ==
  [document : [Docs -> Sessions \cup {Nobody}],
   pipeline : Sessions \cup {Nobody}]

NoOwners == [document |-> [d \in Docs |-> Nobody], pipeline |-> Nobody]

ActiveDocuments(reg) == {d \in Docs : reg.document[d] # Nobody}

PipelineIsActive(reg) == reg.pipeline # Nobody

IsActive(reg) == ActiveDocuments(reg) # {} \/ PipelineIsActive(reg)

-----------------------------------------------------------------------------
(* Wrong variant: only an owner of the same document counts. *)
CanClaimOther(reg, d, pipelineToken) ==
  /\ reg.document[d] = Nobody
  /\ PipelineIsActive(reg) => reg.pipeline = pipelineToken

(* claim: no document is active, and the pipeline, if owned, is ours. *)
CanClaim(reg, d, pipelineToken) ==
  /\ ActiveDocuments(reg) = {}
  /\ PipelineIsActive(reg) => reg.pipeline = pipelineToken

Claim(reg, d, s) == [reg EXCEPT !.document[d] = s]

CanClaimPipeline(reg) == ~IsActive(reg)

ClaimPipeline(reg, s) == [reg EXCEPT !.pipeline = s]

(* release, and the pop that ends complete and fail. *)
Release(reg, d, s) ==
  IF reg.document[d] = s THEN [reg EXCEPT !.document[d] = Nobody] ELSE reg

ReleasePipeline(reg, s) ==
  IF reg.pipeline = s THEN [reg EXCEPT !.pipeline = Nobody] ELSE reg
=============================================================================
