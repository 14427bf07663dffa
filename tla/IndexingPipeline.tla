-------------------------- MODULE IndexingPipeline --------------------------
(***************************************************************************)
(* The document workflow of GroundNote: what the script threads of one     *)
(* Streamlit server process do to the shared SQLite store, the directory   *)
(* of managed copies and the process-local ownership registry.             *)
(*                                                                         *)
(* Sessions are script threads.  Each runs one operation at a time:        *)
(*   upload   DocumentWorkflow.process_and_index                           *)
(*   reindex  DocumentWorkflow.reindex_document and the Retry button       *)
(*   delete   DocumentWorkflow.delete_document                             *)
(*   clear    DocumentWorkflow.clear_all_documents                         *)
(*   list     DocumentWorkflow.list_documents                              *)
(*   boot     bootstrap.initialize_application                             *)
(* A step is one registry method, one unit of work, one file operation or  *)
(* one embedding batch: the places where threads interleave.  A unit of    *)
(* work holds its SQLite locks from its first read to its commit, so it is *)
(* one step that commits or, if StorageFaults, rolls back and raises.      *)
(***************************************************************************)
EXTENDS DocumentStore, IndexingRegistry

CONSTANTS
  NoDoc,          \* the doc field of a thread that works on no document
  BatchSize,      \* settings.embedding_batch_size
  StorageFaults,  \* a database or file operation may fail
  Interrupts,     \* a progress callback may raise Streamlit's BaseException
  Maintenance,    \* the maintenance entry points in use: MaintenanceKinds
  MaxCrashes      \* bound: number of process exits explored

ASSUME NoDocAssumption == NoDoc \notin Docs
ASSUME BatchSizeAssumption == BatchSize \in Nat \ {0}
ASSUME FaultAssumption == StorageFaults \in BOOLEAN /\ Interrupts \in BOOLEAN
MaintenanceKinds == {"clear_embeddings", "prepare"}

ASSUME MaintenanceAssumption == Maintenance \subseteq MaintenanceKinds
ASSUME MaxCrashesAssumption == MaxCrashes \in Nat

VARIABLES
  db,        \* the committed SQLite store
  files,     \* ids whose managed copy is on disk
  reg,       \* the ownership registry of the running process
  run,       \* what each thread is doing
  setting,   \* settings.embedding_version of the running process
  up,        \* the application context is built: bootstrap has committed
  used,      \* ids already drawn (uuid4 never repeats one)
  crashes    \* process exits so far, bounded by MaxCrashes

vars == <<db, files, reg, run, setting, up, used, crashes>>

-----------------------------------------------------------------------------
(* The state of a thread.                                                  *)

Pc == {"idle",
       "save", "ingest", "discard", "discard_duplicate", "index",
       "prepare", "unclaim", "embed", "fail", "finish",
       "snap_documents", "snap_pipeline", "reconcile",
       "release_pipeline", "delete", "clear", "unlink"}

Operations == {"none", "upload", "reindex", "delete", "clear", "list", "boot"}

Run ==
  [pc           : Pc,
   op           : Operations,
   doc          : Docs \cup {NoDoc},
   planned      : SUBSET ChunkIds,   \* chunks read by _prepare_for_indexing
   embedded     : SUBSET ChunkIds,   \* chunks embedded so far, not persisted
   seen         : SUBSET Docs,       \* reconcile: active_document_ids()
   seenPipeline : BOOLEAN,           \* reconcile: pipeline_is_active()
   unlink       : SUBSET Docs]       \* managed copies still to remove

IdleRun ==
  [pc |-> "idle", op |-> "none", doc |-> NoDoc, planned |-> {},
   embedded |-> {}, seen |-> {}, seenPipeline |-> FALSE, unlink |-> {}]

At(s, pc) == run[s].pc = pc

Goto(s, pc) == run' = [run EXCEPT ![s].pc = pc]

Start(s, op, d, pc) ==
  /\ At(s, "idle")
  /\ run' = [run EXCEPT ![s] = [IdleRun EXCEPT !.op = op, !.doc = d, !.pc = pc]]

(* Wrong variant: an upload that ends early does not release the pipeline. *)
LeaveAtOnce(s) == run' = [run EXCEPT ![s] = IdleRun]

(* Where control goes when index_document or get_document raises or returns *)
(* for good: process_and_index still has its finally clause to run.         *)
Leave(s) ==
  run' = [run EXCEPT ![s] =
            IF @.op = "upload" THEN [@ EXCEPT !.pc = "release_pipeline"]
                               ELSE IdleRun]

ForceReindex(s) == run[s].op = "reindex"

PipelineToken(s) == IF run[s].op = "upload" THEN s ELSE Nobody

-----------------------------------------------------------------------------
(* What the units of work do to the store.                                 *)

(* The checks of _prepare_for_indexing and _validate_status. *)
ReadyToIndex(store, d, force) ==
  /\ \/ store.status[d] = "pending_embedding"
     \/ force /\ store.status[d] \in {"indexed", "failed"}
  /\ store.chunks[d] # {}
  /\ force \/ Embedded(store, d) = {}

PrepareForIndexing(store, d, force) ==
  SetStatus(IF force THEN ClearEmbeddings(store, d) ELSE store, d, "indexing")

(* The vectors and FTS rows of the final transaction, before its check. *)
WithIndex(store, d, saved, version) ==
  SyncFts(SaveEmbeddings(store, d, saved, version), d)

(* Wrong variant: the status of the row is not read again. *)
CanPersistAnyStatus(store, d, saved, version) ==
  /\ CanSaveEmbeddings(store, d, saved)
  /\ IsComplete(WithIndex(store, d, saved, version), d, version)

CanPersist(store, d, saved, version) ==
  /\ store.status[d] = "indexing"
  /\ CanSaveEmbeddings(store, d, saved)
  /\ IsComplete(WithIndex(store, d, saved, version), d, version)

(* Wrong variant: the FTS rows are left to a later transaction. *)
PersistVectorsOnly(store, d, saved, version) ==
  UpdateDocument(SaveEmbeddings(store, d, saved, version), d, "indexed", version)

PersistCompletedIndex(store, d, saved, version) ==
  UpdateDocument(WithIndex(store, d, saved, version), d, "indexed", version)

(* Wrong variant: a document cut short stays as it is. *)
ToRecoverReady(store, seen, recover, version) ==
  {d \in Present(store) \ seen :
     store.status[d] = "indexed" /\ ~ProvenReady(store, d, version)}

(* The documents that reconcile marks FAILED. *)
ToRecover(store, seen, recover, version) ==
  {d \in Present(store) \ seen :
     \/ recover /\ store.status[d] \in TransientStatus
     \/ store.status[d] = "indexed" /\ ~ProvenReady(store, d, version)}

Reconcile(store, seen, recover, version) ==
  FailDocuments(store, ToRecover(store, seen, recover, version))

(* The chunks embedded once one more batch is done, in chunk order. *)
NextBatch(planned, embedded) ==
  {c \in planned : c <= Cardinality(embedded) + BatchSize}

-----------------------------------------------------------------------------
(* Upload: process_and_index.                                              *)

(* Bound: once every id of Docs is drawn no further upload is explored. *)
StartUpload(s) ==
  /\ up /\ used # Docs
  /\ CanClaimPipeline(reg)
  /\ reg' = ClaimPipeline(reg, s)
  /\ Start(s, "upload", NoDoc, "save")
  /\ UNCHANGED <<db, files, setting, up, used, crashes>>

SaveUpload(s) ==
  /\ At(s, "save")
  /\ \E d \in Docs \ used :
       /\ used' = used \cup {d}
       /\ files' = files \cup {d}
       /\ run' = [run EXCEPT ![s].pc = "ingest", ![s].doc = d]
  /\ UNCHANGED <<db, reg, setting, up, crashes>>

(* The filename is refused or the stage callback raises before the write;   *)
(* or the write raises, and the file it created stays.                      *)
SaveUploadFails(s) ==
  /\ At(s, "save")
  /\ \/ UNCHANGED <<files, used>>
     \/ /\ StorageFaults
        /\ \E d \in Docs \ used : used' = used \cup {d} /\ files' = files \cup {d}
  /\ Leave(s)
  /\ UNCHANGED <<db, reg, setting, up, crashes>>

(* ingest_file commits the row and its chunks in one transaction. *)
Ingest(s) ==
  /\ At(s, "ingest")
  /\ ~IsDuplicate(db, run[s].doc)
  /\ \E count \in ChunkIds :
       db' = AddChunks(AddDocument(db, run[s].doc), run[s].doc, count)
  /\ Goto(s, "index")
  /\ UNCHANGED <<files, reg, setting, up, used, crashes>>

(* Wrong variant: the copy of a duplicate stays where it is. *)
IngestDuplicateKeepingCopy(s) ==
  /\ At(s, "ingest")
  /\ IsDuplicate(db, run[s].doc)
  /\ Goto(s, "snap_documents")
  /\ UNCHANGED <<db, files, reg, setting, up, used, crashes>>

IngestDuplicate(s) ==
  /\ At(s, "ingest")
  /\ IsDuplicate(db, run[s].doc)
  /\ Goto(s, "discard_duplicate")
  /\ UNCHANGED <<db, files, reg, setting, up, used, crashes>>

(* Validation, parsing, a resource limit (the chunk limit among them) or the *)
(* store raised an Exception: the copy is removed.                           *)
IngestFails(s) ==
  /\ At(s, "ingest")
  /\ Goto(s, "discard")
  /\ UNCHANGED <<db, files, reg, setting, up, used, crashes>>

(* A stage callback raised a BaseException: no handler removes the copy. *)
IngestInterrupted(s) ==
  /\ Interrupts
  /\ At(s, "ingest")
  /\ Leave(s)
  /\ UNCHANGED <<db, files, reg, setting, up, used, crashes>>

(* _remove_file swallows an OSError; a duplicate then reports the existing   *)
(* document with get_document.                                               *)
DiscardUpload(s) ==
  /\ run[s].pc \in {"discard", "discard_duplicate"}
  /\ \/ files' = files \ {run[s].doc}
     \/ StorageFaults /\ UNCHANGED files
  /\ IF At(s, "discard") THEN Leave(s) ELSE Goto(s, "snap_documents")
  /\ UNCHANGED <<db, reg, setting, up, used, crashes>>

ReleaseUpload(s) ==
  /\ At(s, "release_pipeline")
  /\ reg' = ReleasePipeline(reg, s)
  /\ run' = [run EXCEPT ![s] = IdleRun]
  /\ UNCHANGED <<db, files, setting, up, used, crashes>>

-----------------------------------------------------------------------------
(* Indexing: DocumentIndexingService.index_document.                       *)

ClaimUploaded(s) ==
  /\ At(s, "index")
  /\ CanClaim(reg, run[s].doc, PipelineToken(s))
  /\ reg' = Claim(reg, run[s].doc, s)
  /\ Goto(s, "prepare")
  /\ UNCHANGED <<db, files, setting, up, used, crashes>>

(* The stage callback raises, or the claim is refused: no cleanup is left. *)
IndexingNotStarted(s) ==
  /\ At(s, "index")
  /\ Interrupts \/ ~CanClaim(reg, run[s].doc, PipelineToken(s))
  /\ Leave(s)
  /\ UNCHANGED <<db, files, reg, setting, up, used, crashes>>

(* The list a user clicks in may be out of date: any id ever drawn. *)
StartReindex(s, d) ==
  /\ up /\ d \in used
  /\ CanClaim(reg, d, Nobody)
  /\ reg' = Claim(reg, d, s)
  /\ Start(s, "reindex", d, "prepare")
  /\ UNCHANGED <<db, files, setting, up, used, crashes>>

Prepare(s) ==
  LET d == run[s].doc IN
  /\ At(s, "prepare")
  /\ ReadyToIndex(db, d, ForceReindex(s))
  /\ db' = PrepareForIndexing(db, d, ForceReindex(s))
  /\ run' = [run EXCEPT ![s].pc = "embed", ![s].planned = db.chunks[d]]
  /\ UNCHANGED <<files, reg, setting, up, used, crashes>>

PrepareFails(s) ==
  /\ At(s, "prepare")
  /\ StorageFaults \/ ~ReadyToIndex(db, run[s].doc, ForceReindex(s))
  /\ Goto(s, "unclaim")
  /\ UNCHANGED <<db, files, reg, setting, up, used, crashes>>

(* Wrong variant: an error before the row is marked keeps the owner. *)
UnclaimForgotten(s) ==
  /\ At(s, "unclaim")
  /\ Leave(s)
  /\ UNCHANGED <<db, files, reg, setting, up, used, crashes>>

Unclaim(s) ==
  /\ At(s, "unclaim")
  /\ reg' = Release(reg, run[s].doc, s)
  /\ Leave(s)
  /\ UNCHANGED <<db, files, setting, up, used, crashes>>

EmbedBatch(s) ==
  /\ At(s, "embed")
  /\ run[s].embedded # run[s].planned
  /\ run' = [run EXCEPT ![s].embedded = NextBatch(run[s].planned, @)]
  /\ UNCHANGED <<db, files, reg, setting, up, used, crashes>>

(* Loading the model, a batch or a progress callback raised. *)
EmbedFails(s) ==
  /\ At(s, "embed")
  /\ run[s].embedded # run[s].planned
  /\ Goto(s, "fail")
  /\ UNCHANGED <<db, files, reg, setting, up, used, crashes>>

(* complete: the final transaction and the release under the registry lock. *)
Persist(s) ==
  LET d == run[s].doc IN
  /\ At(s, "embed")
  /\ run[s].embedded = run[s].planned
  /\ reg.document[d] = s
  /\ CanPersist(db, d, run[s].embedded, setting)
  /\ db' = PersistCompletedIndex(db, d, run[s].embedded, setting)
  /\ reg' = Release(reg, d, s)
  /\ Goto(s, "finish")
  /\ UNCHANGED <<files, setting, up, used, crashes>>

PersistFails(s) ==
  LET d == run[s].doc IN
  /\ At(s, "embed")
  /\ run[s].embedded = run[s].planned
  /\ \/ StorageFaults \/ Interrupts
     \/ reg.document[d] # s
     \/ ~CanPersist(db, d, run[s].embedded, setting)
  /\ Goto(s, "fail")
  /\ UNCHANGED <<db, files, reg, setting, up, used, crashes>>

(* Wrong variants: the failure is not recorded; or it is recorded by an      *)
(* upsert, for a row that is gone as well.                                   *)
MarkFailedForgotten(s) ==
  /\ At(s, "fail")
  /\ reg' = Release(reg, run[s].doc, s)
  /\ Leave(s)
  /\ UNCHANGED <<db, files, setting, up, used, crashes>>

MarkFailedUpsert(s) ==
  /\ At(s, "fail")
  /\ db' = FailDocuments(db, {run[s].doc})
  /\ reg' = Release(reg, run[s].doc, s)
  /\ Leave(s)
  /\ UNCHANGED <<files, setting, up, used, crashes>>

(* fail: _mark_failed raises if the row is gone or the store fails; its      *)
(* Exception is logged, and the owner is released either way.                *)
MarkFailed(s) ==
  LET d == run[s].doc IN
  /\ At(s, "fail")
  /\ \/ /\ reg.document[d] = s
        /\ d \in Present(db)
        /\ db' = FailDocuments(db, {d})
     \/ /\ reg.document[d] # s \/ d \notin Present(db) \/ StorageFaults
        /\ UNCHANGED db
  /\ reg' = Release(reg, d, s)
  /\ Leave(s)
  /\ UNCHANGED <<files, setting, up, used, crashes>>

(* process_and_index and reindex_document go on to get_document; the Retry   *)
(* button does not, and the FINALIZING callback may raise.                   *)
FinishIndexing(s) ==
  /\ At(s, "finish")
  /\ \/ Goto(s, "snap_documents")
     \/ (Interrupts \/ ForceReindex(s)) /\ Leave(s)
  /\ UNCHANGED <<db, files, reg, setting, up, used, crashes>>

-----------------------------------------------------------------------------
(* Reconciliation: list_documents, get_document and the bootstrap.         *)
(* The registry is read in two calls before the transaction begins.        *)

StartList(s) ==
  /\ up
  /\ Start(s, "list", NoDoc, "snap_documents")
  /\ UNCHANGED <<db, files, reg, setting, up, used, crashes>>

(* The first script run of a process builds the application context, under  *)
(* the lock of st.cache_resource and before any other operation.            *)
Boot(s) ==
  /\ ~up
  /\ \A t \in Sessions : At(t, "idle")
  /\ Start(s, "boot", NoDoc, "snap_documents")
  /\ UNCHANGED <<db, files, reg, setting, up, used, crashes>>

(* A script run that finds the cache cleared builds a second context. *)
RebuildContext(s) ==
  /\ up
  /\ Start(s, "boot", NoDoc, "snap_documents")
  /\ UNCHANGED <<db, files, reg, setting, up, used, crashes>>

SnapDocuments(s) ==
  /\ At(s, "snap_documents")
  /\ run' = [run EXCEPT ![s].pc = "snap_pipeline", ![s].seen = ActiveDocuments(reg)]
  /\ UNCHANGED <<db, files, reg, setting, up, used, crashes>>

SnapPipeline(s) ==
  /\ At(s, "snap_pipeline")
  /\ run' = [run EXCEPT ![s].pc = "reconcile",
                         ![s].seenPipeline = PipelineIsActive(reg)]
  /\ UNCHANGED <<db, files, reg, setting, up, used, crashes>>

(* recover_transient is TRUE at the bootstrap only. *)
RecoverTransient(s) == run[s].op = "boot" /\ ~run[s].seenPipeline

(* What follows in list_documents and get_document only reads. *)
ReconcileStep(s) ==
  /\ At(s, "reconcile")
  /\ db' = Reconcile(db, run[s].seen, RecoverTransient(s), setting)
  /\ up' = (up \/ run[s].op = "boot")
  /\ Leave(s)
  /\ UNCHANGED <<files, reg, setting, used, crashes>>

ReconcileFails(s) ==
  /\ StorageFaults
  /\ At(s, "reconcile")
  /\ Leave(s)
  /\ UNCHANGED <<db, files, reg, setting, up, used, crashes>>

-----------------------------------------------------------------------------
(* Deletion: the registry is read once, before the transaction begins.     *)

StartDelete(s, d) ==
  /\ up /\ d \in used
  /\ ~IsActive(reg)
  /\ Start(s, "delete", d, "delete")
  /\ UNCHANGED <<db, files, reg, setting, up, used, crashes>>

Delete(s) ==
  LET d == run[s].doc IN
  /\ At(s, "delete")
  /\ d \in Present(db)
  /\ db' = DeleteDocument(DeleteForDocument(db, d), d)
  /\ run' = [run EXCEPT ![s].pc = "unlink", ![s].unlink = {d}]
  /\ UNCHANGED <<files, reg, setting, up, used, crashes>>

(* Wrong variant: the copy is removed even if the transaction failed. *)
DeleteFailsButUnlinks(s) ==
  /\ At(s, "delete")
  /\ StorageFaults \/ run[s].doc \notin Present(db)
  /\ run' = [run EXCEPT ![s].pc = "unlink", ![s].unlink = {run[s].doc}]
  /\ UNCHANGED <<db, files, reg, setting, up, used, crashes>>

DeleteFails(s) ==
  /\ At(s, "delete")
  /\ StorageFaults \/ run[s].doc \notin Present(db)
  /\ Leave(s)
  /\ UNCHANGED <<db, files, reg, setting, up, used, crashes>>

StartClear(s) ==
  /\ up
  /\ ~IsActive(reg)
  /\ Start(s, "clear", NoDoc, "clear")
  /\ UNCHANGED <<db, files, reg, setting, up, used, crashes>>

Clear(s) ==
  /\ At(s, "clear")
  /\ db' = ClearAll(db)
  /\ run' = [run EXCEPT ![s].pc = "unlink", ![s].unlink = Present(db)]
  /\ UNCHANGED <<files, reg, setting, up, used, crashes>>

ClearFails(s) ==
  /\ StorageFaults
  /\ At(s, "clear")
  /\ Leave(s)
  /\ UNCHANGED <<db, files, reg, setting, up, used, crashes>>

(* One managed copy per step; a failure is a warning and leaves the file. *)
Unlink(s) ==
  /\ At(s, "unlink")
  /\ \E d \in run[s].unlink :
       /\ \/ files' = files \ {d}
          \/ StorageFaults /\ UNCHANGED files
       /\ run' = [run EXCEPT ![s].unlink = @ \ {d}]
  /\ UNCHANGED <<db, reg, setting, up, used, crashes>>

UnlinkDone(s) ==
  /\ At(s, "unlink")
  /\ run[s].unlink = {}
  /\ Leave(s)
  /\ UNCHANGED <<db, files, reg, setting, up, used, crashes>>

-----------------------------------------------------------------------------
(* Maintenance, and the end of the process.                                *)

(* DocumentIndexingService.clear_embeddings: no caller in the package, no   *)
(* look at the registry.                                                    *)
ClearEmbeddingsOf(d) ==
  /\ up /\ "clear_embeddings" \in Maintenance
  /\ d \in Present(db)
  /\ db' = UpdateDocument(ClearEmbeddings(db, d), d, "pending_embedding", NoVersion)
  /\ UNCHANGED <<files, reg, run, setting, up, used, crashes>>

(* groundnote prepare: the bootstrap in a process of its own, whose registry *)
(* is empty whatever the server does.                                        *)
PrepareCommand ==
  /\ "prepare" \in Maintenance
  /\ db' = Reconcile(db, {}, TRUE, setting)
  /\ UNCHANGED <<files, reg, run, setting, up, used, crashes>>

(* The process ends anywhere and restarts, perhaps with another model. *)
Crash ==
  /\ crashes < MaxCrashes
  /\ crashes' = crashes + 1
  /\ run' = [s \in Sessions |-> IdleRun]
  /\ reg' = NoOwners
  /\ up' = FALSE
  /\ setting' \in Versions
  /\ UNCHANGED <<db, files, used>>

-----------------------------------------------------------------------------
Init ==
  /\ db = EmptyStore
  /\ files = {}
  /\ reg = NoOwners
  /\ run = [s \in Sessions |-> IdleRun]
  /\ setting \in Versions
  /\ up = FALSE
  /\ used = {}
  /\ crashes = 0

UploadStep(s) ==
  \/ SaveUpload(s) \/ SaveUploadFails(s)
  \/ Ingest(s) \/ IngestDuplicate(s) \/ IngestFails(s) \/ IngestInterrupted(s)
  \/ DiscardUpload(s) \/ ReleaseUpload(s)

IndexStep(s) ==
  \/ ClaimUploaded(s) \/ IndexingNotStarted(s)
  \/ Prepare(s) \/ PrepareFails(s) \/ Unclaim(s)
  \/ EmbedBatch(s) \/ EmbedFails(s)
  \/ Persist(s) \/ PersistFails(s) \/ MarkFailed(s) \/ FinishIndexing(s)

ReconcilingStep(s) ==
  \/ SnapDocuments(s) \/ SnapPipeline(s) \/ ReconcileStep(s) \/ ReconcileFails(s)

DeletionStep(s) ==
  \/ Delete(s) \/ DeleteFails(s) \/ Clear(s) \/ ClearFails(s)
  \/ Unlink(s) \/ UnlinkDone(s)

(* The next step of the operation that a thread has begun. *)
Step(s) ==
  UploadStep(s) \/ IndexStep(s) \/ ReconcilingStep(s) \/ DeletionStep(s)

(* A user, a page load or a restart begins an operation. *)
Begin(s) ==
  \/ StartUpload(s) \/ StartList(s) \/ StartClear(s)
  \/ \E d \in Docs : StartReindex(s, d) \/ StartDelete(s, d)
  \/ Boot(s) \/ RebuildContext(s)

Outside ==
  \/ \E d \in Docs : ClearEmbeddingsOf(d)
  \/ PrepareCommand
  \/ Crash

Next == (\E s \in Sessions : Begin(s) \/ Step(s)) \/ Outside

Spec == Init /\ [][Next]_vars

(* Every thread that is running goes on, and a stopped server is started    *)
(* again: the embedding runtime is assumed to return or to raise.           *)
Fairness ==
  /\ \A s \in Sessions : WF_vars(Step(s))
  /\ WF_vars(\E s \in Sessions : Boot(s))

FairSpec == Spec /\ Fairness
=============================================================================
