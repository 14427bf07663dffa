------------------------- MODULE PipelineProperties -------------------------
(***************************************************************************)
(* What the document workflow must guarantee, whatever the interleaving of *)
(* its threads, the failures and the restarts.                             *)
(***************************************************************************)
EXTENDS IndexingPipeline

(* Every variable keeps its type.                                          *)
TypeOK ==
  /\ db \in Store
  /\ files \subseteq Docs
  /\ reg \in Registry
  /\ run \in [Sessions -> Run]
  /\ setting \in Versions
  /\ up \in BOOLEAN
  /\ used \subseteq Docs
  /\ crashes \in 0..MaxCrashes

-----------------------------------------------------------------------------
(* Invariants of the store.                                                *)

(* ADR-0043: whatever crashed, failed or raced before, a row marked indexed  *)
(* has a complete index of its own model version, which is the condition     *)
(* retrieval repeats in SQL; and once the bootstrap has committed that       *)
(* version is the one the running process embeds questions with.             *)
ReadyIsComplete ==
  \A d \in Docs : db.status[d] = "indexed" =>
    /\ IsComplete(db, d, db.version[d])
    /\ CompleteIndexClauses(db, d)
    /\ up => db.version[d] = setting

(* Batch, persistence and recovery failures leave no usable partial index:   *)
(* outside Ready rows the store has no vector and no FTS row, none of a      *)
(* deleted document either, and every row keeps the chunks a retry needs.    *)
NothingPartial ==
  \A d \in Docs :
    /\ db.status[d] # "indexed" => db.vector[d] = NoVectors /\ db.fts[d] = {}
    /\ db.version[d] # NoVersion => db.status[d] \in {"indexed", "indexing"}
    /\ d \in Present(db) <=> db.chunks[d] # {}

(* ADR-0044: the database deletion commits before the managed copy is        *)
(* unlinked, and a failed upload removes only a copy that no row names, so   *)
(* no row ever points to a missing copy.                                     *)
RowHasCopy == Present(db) \subseteq files

(* Two rows never have the same content, although the duplicate check of an  *)
(* upload and the commit of another may be of different threads.             *)
OneContentOneDocument ==
  \A d, e \in Present(db) : ContentOf[d] = ContentOf[e] => d = e

-----------------------------------------------------------------------------
(* Invariants of ownership.                                                *)

OwningPc == {"prepare", "unclaim", "embed", "fail"}

(* The registry tells the truth: a document has an owner exactly while that  *)
(* thread is between its claim and its terminal outcome, and the pipeline    *)
(* exactly while an upload runs.  A leaked token would block the application *)
(* until a restart, a lost one would let two runs write the same index.      *)
OwnershipMatchesWork ==
  /\ \A d \in Docs, s \in Sessions :
       reg.document[d] = s <=> run[s].pc \in OwningPc /\ run[s].doc = d
  /\ \A s \in Sessions : reg.pipeline = s <=> run[s].op = "upload"

(* ADR-0049: one indexing run at a time in the process, and no re-index      *)
(* while another thread's upload is under way.                               *)
SingleIndexer ==
  \A s, t \in Sessions :
    /\ run[s].pc \in OwningPc
    /\ run[t].pc \in OwningPc \/ run[t].op = "upload"
    => s = t

(* A row says indexing only while a thread of the running process works on   *)
(* it.  Without an owner it could not be retried until a restart: this needs *)
(* the store to accept the failure record.                                   *)
IndexingIsOwned ==
  up /\ ~StorageFaults =>
    \A d \in Docs : db.status[d] = "indexing" => reg.document[d] # Nobody

-----------------------------------------------------------------------------
(* The inductive invariant: what else is true of a thread at each point of  *)
(* its operation, which the invariants above rest on.                       *)

ReconcilingPc == {"snap_documents", "snap_pipeline", "reconcile"}

(* Which operation a thread at a given point runs, and that it has a        *)
(* document where the code has one.                                         *)
RunShape ==
  \A s \in Sessions :
    /\ run[s].op = "none" <=> At(s, "idle")
    /\ run[s].pc \in {"save", "ingest", "discard", "discard_duplicate",
                      "index", "release_pipeline"} => run[s].op = "upload"
    /\ run[s].pc \in OwningPc \cup {"finish"} => run[s].op \in {"upload", "reindex"}
    /\ run[s].pc \in OwningPc \cup {"ingest", "discard", "discard_duplicate",
                                   "index", "finish", "delete"} => run[s].doc \in Docs

(* Until the bootstrap has committed there is nothing but a bootstrap, and   *)
(* it has seen an empty registry.                                            *)
BootFirst ==
  ~up => \A s \in Sessions :
           ~At(s, "idle") => /\ run[s].op = "boot"
                             /\ run[s].pc \in ReconcilingPc
                             /\ run[s].seen = {}

(* Copies to be removed are of no row, and never of an upload under way.     *)
CopyShape ==
  /\ Present(db) \subseteq used
  /\ \A s \in Sessions :
       /\ At(s, "ingest") => run[s].doc \in files \ Present(db)
       /\ run[s].pc \in {"discard", "discard_duplicate"} => run[s].doc \notin Present(db)
       /\ run[s].doc \in used \cup {NoDoc}
       /\ run[s].unlink \subseteq used \ Present(db)
       /\ At(s, "ingest") => \A t \in Sessions : run[s].doc \notin run[t].unlink

(* Together they are preserved by every step: IndexingPipelineProofs.        *)
InductiveInvariant ==
  /\ TypeOK /\ RunShape /\ BootFirst
  /\ OwnershipMatchesWork /\ SingleIndexer
  /\ NothingPartial /\ ReadyIsComplete
  /\ CopyShape /\ RowHasCopy /\ OneContentOneDocument

-----------------------------------------------------------------------------
(* Action properties.                                                      *)

BecomesReady(d) == db.status[d] # "indexed" /\ db'.status[d] = "indexed"

PublishedByItsOwner(d) ==
  /\ db.status[d] = "indexing"
  /\ \E s \in Sessions :
       reg.document[d] = s /\ run[s].embedded = db.chunks[d]
  /\ reg'.document[d] = Nobody

(* A document becomes Ready only in the step in which the run that owns it   *)
(* gives it up, from indexing, with a vector for every chunk the row has at  *)
(* that moment.                                                              *)
ReadyOnlyByOwner ==
  [][\A d \in Docs : BecomesReady(d) => PublishedByItsOwner(d)]_vars

(* No list, refresh or rebuilt context of a running server ever takes a      *)
(* Ready document for an incomplete one: only a bootstrap under another      *)
(* model does, and a re-index withdraws it by way of indexing.               *)
ReadyIsNotFailedBehindItsBack ==
  [][\A d \in Docs :
       db.status[d] = "indexed" /\ db'.status[d] = "failed" => ~up]_vars

HoldsCopy(s, d) ==
  \/ run[s].doc = d /\ run[s].pc \in {"ingest", "discard", "discard_duplicate"}
  \/ d \in run[s].unlink

(* A managed copy without a row, which no thread is to ingest or to remove.  *)
Orphaned(d) ==
  /\ d \in files \ Present(db)
  /\ \A s \in Sessions : ~HoldsCopy(s, d)

(* Where the file operations succeed, only two steps ever orphan a managed   *)
(* copy: the end of the process, and a stage callback that interrupts an     *)
(* ingestion with a BaseException.  No duplicate, failure or deletion does.  *)
CopiesAreOwned ==
  [][\A d \in Docs :
       ~StorageFaults /\ ~Orphaned(d) /\ Orphaned(d)'
         => Crash \/ \E s \in Sessions : IngestInterrupted(s)]_vars

(* ADR-0049: "While any indexing owner is active, chat and document          *)
(* mutations are blocked": no row is deleted while the registry has an owner.*)
MutationsAreBlocked ==
  [][\A d \in Docs :
       d \in Present(db) /\ db'.status[d] = Absent => ~IsActive(reg)]_vars

-----------------------------------------------------------------------------
(* Liveness.                                                               *)

(* Every claim ends: the application never stays blocked by an owner that is *)
(* gone, whatever was raised and wherever.                                   *)
OwnersLetGo ==
  /\ \A d \in Docs : reg.document[d] # Nobody ~> reg.document[d] = Nobody
  /\ PipelineIsActive(reg) ~> ~PipelineIsActive(reg)

(* A row does not stay marked indexing, even if callbacks are interrupted or *)
(* the process dies: its own run ends, or the next bootstrap recovers it.    *)
IndexingSettles ==
  \A d \in Docs : db.status[d] = "indexing" ~> db.status[d] # "indexing"

-----------------------------------------------------------------------------
(* The abstract specification.                                             *)

BeingIngested(d) == \E s \in Sessions : At(s, "ingest") /\ run[s].doc = d

PhaseOf(d) ==
  IF d \in Present(db)
  THEN IF CompleteIndexClauses(db, d) THEN "ready" ELSE "stored"
  ELSE IF d \notin used \/ BeingIngested(d) THEN "new" ELSE "gone"

Lifecycle == INSTANCE DocumentLifecycle WITH phase <- [d \in Docs |-> PhaseOf(d)]

(* Every behaviour of the workflow is one of DocumentLifecycle: a removed    *)
(* document never comes back, a document is published in one step, nothing   *)
(* is stored twice.                                                          *)
ImplementsLifecycle == Lifecycle!Spec
=============================================================================
