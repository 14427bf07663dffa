----------------------- MODULE IndexingPipelineProofs -----------------------
(***************************************************************************)
(* The safety of the document workflow, for every set of documents, of     *)
(* threads and of model versions, every chunk limit and batch size, and    *)
(* any number of faults, interruptions and restarts.                       *)
(*                                                                         *)
(* After it: that the workflow implements DocumentLifecycle; and what else *)
(* is true of its rows and managed copies while nothing fails that the     *)
(* code cannot answer.                                                     *)
(***************************************************************************)
EXTENDS PipelineProperties, FiniteSetTheorems, TLAPS

-----------------------------------------------------------------------------
(* What the repository operations return, for every store.                 *)

(* The empty database is a store.                                          *)
LEMMA EmptyStoreType == EmptyStore \in Store
BY DEF EmptyStore, Store, NoVectors, DocumentStatus

(* Writing a row's status and model version keeps the store well typed.    *)
LEMMA UpdateDocumentType ==
  ASSUME NEW store \in Store, NEW d \in Docs,
         NEW status \in DocumentStatus \cup {Absent},
         NEW version \in Versions \cup {NoVersion}
  PROVE  UpdateDocument(store, d, status, version) \in Store
BY DEF UpdateDocument, Store

(* So does writing the status alone.                                       *)
LEMMA SetStatusType ==
  ASSUME NEW store \in Store, NEW d \in Docs,
         NEW status \in DocumentStatus \cup {Absent}
  PROVE  SetStatus(store, d, status) \in Store
BY DEF SetStatus, Store

(* So do the deletion of a row and of everything that belongs to it.       *)
LEMMA DeleteDocumentType ==
  ASSUME NEW store \in Store, NEW d \in Docs
  PROVE  DeleteDocument(DeleteForDocument(store, d), d) \in Store
BY DEF DeleteDocument, DeleteForDocument, Store, NoVectors

(* So does the insertion of the chunks of a document.                      *)
LEMMA AddChunksType ==
  ASSUME NEW store \in Store, NEW d \in Docs, NEW count \in ChunkIds
  PROVE  AddChunks(store, d, count) \in Store
<1>1. 1..count \in SUBSET ChunkIds
  BY MaxChunksAssumption DEF ChunkIds
<1> QED
  BY <1>1 DEF AddChunks, Store, NoVectors

(* So does clearing its embeddings and FTS rows.                           *)
LEMMA ClearEmbeddingsType ==
  ASSUME NEW store \in Store, NEW d \in Docs
  PROVE  ClearEmbeddings(store, d) \in Store
BY DEF ClearEmbeddings, Store, NoVectors

(* So does marking a set of documents failed.                              *)
LEMMA FailDocumentsType ==
  ASSUME NEW store \in Store, NEW failed
  PROVE  FailDocuments(store, failed) \in Store
BY DEF FailDocuments, Store, NoVectors, DocumentStatus

(* So does saving embeddings.                                              *)
LEMMA SaveEmbeddingsType ==
  ASSUME NEW store \in Store, NEW d \in Docs, NEW saved,
         NEW version \in Versions
  PROVE  SaveEmbeddings(store, d, saved, version) \in Store
<1> DEFINE row == [c \in ChunkIds |->
                     IF c \in saved THEN version ELSE store.vector[d][c]]
<1>1. row \in [ChunkIds -> Versions \cup {NoVersion}]
  BY DEF Store
<1>2. SaveEmbeddings(store, d, saved, version) = [store EXCEPT !.vector[d] = row]
  BY DEF SaveEmbeddings
<1> HIDE DEF row
<1> QED
  BY <1>1, <1>2 DEF Store

(* So does the replacement of the FTS rows of a document.                  *)
LEMMA SyncFtsType ==
  ASSUME NEW store \in Store, NEW d \in Docs
  PROVE  SyncFts(store, d) \in Store
<1>1. Embedded(store, d) \in SUBSET ChunkIds
  BY DEF Embedded, Store
<1> QED
  BY <1>1 DEF SyncFts, Store

(* The counts of the integrity check decide: they agree exactly if the row  *)
(* has chunks, each with an embedding of the version asked for, and the FTS *)
(* rows are those of its chunks.                                           *)
EveryChunkIsIndexed(store, d, version) ==
  /\ store.chunks[d] # {}
  /\ \A c \in store.chunks[d] : store.vector[d][c] = version
  /\ store.fts[d] = store.chunks[d]

THEOREM IsCompleteMeansEveryChunk ==
  ASSUME NEW store \in Store, NEW d \in Docs, NEW version, version # NoVersion
  PROVE  IsComplete(store, d, version) <=> EveryChunkIsIndexed(store, d, version)
<1> DEFINE chunks     == store.chunks[d]
           compatible == {c \in chunks : store.vector[d][c] = version}
           fts        == store.fts[d]
<1>1. IsFiniteSet(ChunkIds)
  BY FS_Interval, MaxChunksAssumption DEF ChunkIds
<1>2. chunks \subseteq ChunkIds /\ fts \subseteq ChunkIds
  BY DEF Store
<1>3. IsFiniteSet(chunks) /\ IsFiniteSet(fts)
  BY <1>1, <1>2, FS_Subset
<1>4. ASSUME IsComplete(store, d, version) PROVE EveryChunkIsIndexed(store, d, version)
  <2>1. compatible = chunks
    BY <1>3, <1>4, FS_Subset DEF IsComplete
  <2>2. fts \cap chunks = chunks /\ fts \cap chunks = fts
    BY <1>3, <1>4, FS_Subset DEF IsComplete
  <2>3. chunks # {}
    BY <1>4, FS_EmptySet DEF IsComplete
  <2> QED
    BY <2>1, <2>2, <2>3 DEF EveryChunkIsIndexed
<1>5. ASSUME EveryChunkIsIndexed(store, d, version) PROVE IsComplete(store, d, version)
  <2>1. chunks # {} /\ fts = chunks /\ fts \cap chunks = chunks
    BY <1>5 DEF EveryChunkIsIndexed
  <2>2. compatible = chunks /\ Embedded(store, d) = chunks
    BY <1>5 DEF EveryChunkIsIndexed, Embedded
  <2>3. Cardinality(chunks) \in Nat /\ Cardinality(chunks) # 0
    BY <1>3, <2>1, FS_CardinalityType, FS_EmptySet
  <2> QED
    BY <2>1, <2>2, <2>3 DEF IsComplete
<1> QED
  BY <1>4, <1>5

(* The check of the final transaction and the predicate of the retrieval    *)
(* queries agree on a row marked indexed: neither accepts what the other    *)
(* would refuse for the version of the row.                                 *)
THEOREM IntegrityCheckIsRetrievalPredicate ==
  ASSUME NEW store \in Store, NEW d \in Docs,
         store.status[d] = "indexed", store.version[d] # NoVersion
  PROVE  IsComplete(store, d, store.version[d]) <=> CompleteIndexClauses(store, d)
<1> DEFINE chunks  == store.chunks[d]
           fts     == store.fts[d]
           version == store.version[d]
<1>1. IsComplete(store, d, version) => CompleteIndexClauses(store, d)
  BY IsCompleteMeansEveryChunk DEF CompleteIndexClauses, EveryChunkIsIndexed
<1>2. ASSUME CompleteIndexClauses(store, d)
      PROVE  IsComplete(store, d, version)
  <2>1. chunks # {} /\ chunks \subseteq fts
    BY <1>2 DEF CompleteIndexClauses
  <2>2. IsFiniteSet(ChunkIds)
    BY FS_Interval, MaxChunksAssumption DEF ChunkIds
  <2>3. IsFiniteSet(chunks) /\ IsFiniteSet(fts)
    BY <2>2, FS_Subset DEF Store
  <2>4. Cardinality(chunks) = Cardinality(fts)
    BY <1>2 DEF CompleteIndexClauses
  <2>5. fts \cap chunks = chunks
    BY <2>1
  <2>6. fts = chunks
    BY <2>3, <2>4, <2>5, FS_Subset
  <2> QED
    BY <1>2, <2>1, <2>6, IsCompleteMeansEveryChunk DEF CompleteIndexClauses, EveryChunkIsIndexed
<1> QED
  BY <1>1, <1>2

-----------------------------------------------------------------------------
(* Rows that no unit of work leaves half done.                             *)

(* A row is absent with all that belongs to it, or searchable with a         *)
(* complete index, or has its chunks and no vector and no FTS row.           *)
GoodRow(store, d) ==
  /\ store.status[d] # "indexed" =>
       store.vector[d] = NoVectors /\ store.fts[d] = {}
  /\ store.version[d] # NoVersion => store.status[d] \in {"indexed", "indexing"}
  /\ store.status[d] # Absent <=> store.chunks[d] # {}
  /\ store.status[d] = "indexed" =>
       /\ IsComplete(store, d, store.version[d])
       /\ CompleteIndexClauses(store, d)

GoodStore(store) == store \in Store /\ \A d \in Docs : GoodRow(store, d)

SameRow(old, new, d) ==
  /\ new.status[d] = old.status[d] /\ new.version[d] = old.version[d]
  /\ new.chunks[d] = old.chunks[d] /\ new.vector[d] = old.vector[d]
  /\ new.fts[d] = old.fts[d]

(* Whether a row is good is a matter of that row alone.                     *)
LEMMA SameRowGood ==
  ASSUME NEW old, NEW new, NEW d \in Docs, SameRow(old, new, d), GoodRow(old, d)
  PROVE  GoodRow(new, d)
<1>1. Embedded(new, d) = Embedded(old, d)
  BY DEF Embedded, SameRow
<1>2. IsComplete(new, d, new.version[d]) <=> IsComplete(old, d, old.version[d])
  BY <1>1 DEF IsComplete, SameRow
<1>3. CompleteIndexClauses(new, d) <=> CompleteIndexClauses(old, d)
  BY DEF CompleteIndexClauses, SameRow
<1> QED
  BY <1>2, <1>3 DEF GoodRow, SameRow

(* The empty database is good.                                              *)
LEMMA EmptyStoreGood == GoodStore(EmptyStore)
BY EmptyStoreType DEF GoodStore, GoodRow, EmptyStore, Absent

(* Adding a document with its chunks keeps the rows good.                   *)
LEMMA AddDocumentGood ==
  ASSUME NEW store, GoodStore(store), NEW d \in Docs, store.status[d] = Absent,
         NEW count \in ChunkIds
  PROVE  GoodStore(AddChunks(AddDocument(store, d), d, count))
<1> DEFINE new == AddChunks(AddDocument(store, d), d, count)
<1>1. AddDocument(store, d) \in Store
  BY UpdateDocumentType DEF GoodStore, AddDocument, DocumentStatus
<1>2. new \in Store
  BY <1>1, AddChunksType
<1>3. GoodRow(new, d)
  <2>1. 1 \in 1..count
    BY MaxChunksAssumption DEF ChunkIds
  <2>2. /\ new.status[d] = "pending_embedding" /\ new.version[d] = NoVersion
        /\ new.chunks[d] = 1..count /\ new.vector[d] = NoVectors
        /\ new.fts[d] = store.fts[d]
    BY DEF AddChunks, AddDocument, UpdateDocument, GoodStore, Store
  <2>3. store.fts[d] = {}
    BY DEF GoodStore, GoodRow, Absent
  <2> QED
    BY <2>1, <2>2, <2>3 DEF GoodRow, Absent
<1>4. ASSUME NEW e \in Docs \ {d} PROVE GoodRow(new, e)
  <2>1. SameRow(store, new, e)
    BY DEF SameRow, AddChunks, AddDocument, UpdateDocument, GoodStore, Store
  <2> QED
    BY <2>1, SameRowGood DEF GoodStore
<1> QED
  BY <1>2, <1>3, <1>4 DEF GoodStore

(* Deleting a row with its chunks and FTS rows keeps the rows good.         *)
LEMMA DeleteDocumentGood ==
  ASSUME NEW store, GoodStore(store), NEW d \in Docs
  PROVE  GoodStore(DeleteDocument(DeleteForDocument(store, d), d))
<1> DEFINE new == DeleteDocument(DeleteForDocument(store, d), d)
<1>1. new \in Store
  BY DeleteDocumentType DEF GoodStore
<1>2. GoodRow(new, d)
  BY DEF GoodRow, DeleteDocument, DeleteForDocument, GoodStore, Store, Absent
<1>3. ASSUME NEW e \in Docs \ {d} PROVE GoodRow(new, e)
  <2>1. SameRow(store, new, e)
    BY DEF SameRow, DeleteDocument, DeleteForDocument, GoodStore, Store
  <2> QED
    BY <2>1, SameRowGood DEF GoodStore
<1> QED
  BY <1>1, <1>2, <1>3 DEF GoodStore

(* Marking existing documents failed keeps the rows good.                   *)
LEMMA FailDocumentsGood ==
  ASSUME NEW store, GoodStore(store), NEW failed \in SUBSET Present(store)
  PROVE  GoodStore(FailDocuments(store, failed))
<1> DEFINE new == FailDocuments(store, failed)
<1>1. new \in Store
  BY FailDocumentsType DEF GoodStore
<1>2. ASSUME NEW e \in Docs, e \in failed PROVE GoodRow(new, e)
  <2>1. /\ new.status[e] = "failed" /\ new.version[e] = NoVersion
        /\ new.vector[e] = NoVectors /\ new.fts[e] = {}
        /\ new.chunks[e] = store.chunks[e]
    BY <1>2 DEF FailDocuments, GoodStore, Store
  <2>2. store.status[e] # Absent
    BY <1>2 DEF Present
  <2>3. store.chunks[e] # {}
    BY <2>2 DEF GoodStore, GoodRow
  <2> QED
    BY <2>1, <2>3 DEF GoodRow, Absent
<1>3. ASSUME NEW e \in Docs, e \notin failed PROVE GoodRow(new, e)
  <2>1. SameRow(store, new, e)
    BY <1>3 DEF SameRow, FailDocuments, GoodStore, Store
  <2> QED
    BY <2>1, SameRowGood DEF GoodStore
<1> QED
  BY <1>1, <1>2, <1>3 DEF GoodStore

(* A row that loses its index and takes a status other than indexed, with    *)
(* or without its old metadata if that status is indexing, stays good.       *)
LEMMA ClearedRowGood ==
  ASSUME NEW store, GoodStore(store), NEW new \in Store,
         NEW d \in Present(store), new.chunks[d] = store.chunks[d],
         new.vector[d] = NoVectors, new.fts[d] = {},
         \/ new.status[d] = "indexing"
         \/ new.status[d] = "pending_embedding" /\ new.version[d] = NoVersion,
         \A e \in Docs \ {d} : SameRow(store, new, e)
  PROVE  GoodStore(new)
<1>1. store.chunks[d] # {}
  BY DEF Present, GoodStore, GoodRow
<1>2. GoodRow(new, d)
  BY <1>1 DEF GoodRow, Absent
<1>3. ASSUME NEW e \in Docs \ {d} PROVE GoodRow(new, e)
  BY SameRowGood DEF GoodStore
<1>4. d \in Docs
  BY DEF Present
<1> QED
  BY <1>2, <1>3 DEF GoodStore

-----------------------------------------------------------------------------
(* Typing of the helpers.                                                  *)

(* An idle thread has a thread's state.                                     *)
LEMMA IdleRunType == IdleRun \in Run
BY DEF IdleRun, Run, Pc, Operations

(* Leave keeps the threads well typed.                                     *)
LEMMA LeaveType ==
  ASSUME run \in [Sessions -> Run], NEW s \in Sessions, Leave(s)
  PROVE  run' \in [Sessions -> Run]
BY IdleRunType DEF Leave, Run, Pc

(* So does Goto. *)
LEMMA GotoType ==
  ASSUME run \in [Sessions -> Run], NEW s \in Sessions, NEW pc \in Pc, Goto(s, pc)
  PROVE  run' \in [Sessions -> Run]
BY DEF Goto, Run

(* So does the start of an operation. *)
LEMMA StartType ==
  ASSUME run \in [Sessions -> Run], NEW s \in Sessions, NEW op \in Operations,
         NEW d \in Docs \cup {NoDoc}, NEW pc \in Pc, Start(s, op, d, pc)
  PROVE  run' \in [Sessions -> Run]
BY DEF Start, Run, IdleRun

(* Releasing an owner keeps the registry well typed, and so does claiming.  *)
LEMMA RegistryType ==
  ASSUME reg \in Registry, NEW s \in Sessions
  PROVE  /\ \A d \in Docs : Claim(reg, d, s) \in Registry
         /\ \A d \in Docs : Release(reg, d, s) \in Registry
         /\ ClaimPipeline(reg, s) \in Registry
         /\ ReleasePipeline(reg, s) \in Registry
         /\ NoOwners \in Registry
BY DEF Claim, Release, ClaimPipeline, ReleasePipeline, NoOwners, Registry

(* The units of work of the indexing run keep the store well typed.        *)
LEMMA IndexingStoreType ==
  ASSUME NEW store \in Store, NEW d \in Docs, NEW saved, NEW version \in Versions
  PROVE  /\ \A force \in BOOLEAN : PrepareForIndexing(store, d, force) \in Store
         /\ PersistCompletedIndex(store, d, saved, version) \in Store
<1>1. ClearEmbeddings(store, d) \in Store
  BY ClearEmbeddingsType
<1>2. ASSUME NEW force \in BOOLEAN
      PROVE  PrepareForIndexing(store, d, force) \in Store
  <2>1. (IF force THEN ClearEmbeddings(store, d) ELSE store) \in Store
    BY <1>1
  <2>2. "indexing" \in DocumentStatus \cup {Absent}
    BY DEF DocumentStatus
  <2> QED
    BY <2>1, <2>2, SetStatusType DEF PrepareForIndexing
<1>3. WithIndex(store, d, saved, version) \in Store
  BY SaveEmbeddingsType, SyncFtsType DEF WithIndex
<1>4. "indexed" \in DocumentStatus \cup {Absent}
  BY DEF DocumentStatus
<1>5. PersistCompletedIndex(store, d, saved, version) \in Store
  BY <1>3, <1>4, UpdateDocumentType DEF PersistCompletedIndex
<1> QED
  BY <1>2, <1>5

-----------------------------------------------------------------------------
(* Type correctness.                                                       *)

(* The initial state is well typed and every thread is idle.                *)
LEMMA InitType == Init => TypeOK /\ RunShape
<1> SUFFICES ASSUME Init PROVE TypeOK /\ RunShape
  OBVIOUS
<1>1. db \in Store /\ NoOwners \in Registry
  BY EmptyStoreType DEF Init, NoOwners, Registry
<1>2. TypeOK
  <2>1. run \in [Sessions -> Run]
    BY IdleRunType DEF Init
  <2>2. crashes \in 0..MaxCrashes
    BY MaxCrashesAssumption DEF Init
  <2>3. setting \in Versions /\ up \in BOOLEAN /\ files \subseteq Docs /\ used \subseteq Docs
    BY DEF Init
  <2> QED
    BY <1>1, <2>1, <2>2, <2>3 DEF Init, TypeOK
<1>3. RunShape
  BY DEF Init, RunShape, IdleRun, At, OwningPc
<1> QED
  BY <1>2, <1>3

(* A thread that moves on inside its operation keeps its shape: the other    *)
(* threads are as they were.                                                *)
LEMMA ShapeByThread ==
  ASSUME TypeOK, RunShape, NEW s \in Sessions, NEW next \in Run,
         run' = [run EXCEPT ![s] = next],
         next.op = "none" <=> next.pc = "idle",
         next.pc \in {"save", "ingest", "discard", "discard_duplicate",
                      "index", "release_pipeline"} => next.op = "upload",
         next.pc \in OwningPc \cup {"finish"} => next.op \in {"upload", "reindex"},
         next.pc \in OwningPc \cup {"ingest", "discard", "discard_duplicate",
                                    "index", "finish", "delete"} => next.doc \in Docs
  PROVE  run' \in [Sessions -> Run] /\ RunShape'
BY DEF TypeOK, RunShape, At

(* Every step of a thread keeps the threads well typed and well shaped.     *)
LEMMA ThreadShape ==
  ASSUME TypeOK, RunShape, NEW s \in Sessions, Begin(s) \/ Step(s)
  PROVE  run' \in [Sessions -> Run] /\ RunShape'
<1> USE DEF TypeOK, RunShape, Run, Pc, Operations, At, OwningPc
<1>1. ASSUME NEW d \in Docs \cup {NoDoc}, NEW op \in Operations, NEW pc \in Pc,
             Start(s, op, d, pc),
             \/ op = "upload" /\ pc = "save"
             \/ op \in {"list", "boot"} /\ pc = "snap_documents"
             \/ op = "clear" /\ pc = "clear"
             \/ op = "reindex" /\ pc = "prepare" /\ d \in Docs
             \/ op = "delete" /\ pc = "delete" /\ d \in Docs
      PROVE  run' \in [Sessions -> Run] /\ RunShape'
  <2> DEFINE next == [IdleRun EXCEPT !.op = op, !.doc = d, !.pc = pc]
  <2>1. next \in Run /\ next.op = op /\ next.doc = d /\ next.pc = pc
    BY DEF IdleRun
  <2>2. run' = [run EXCEPT ![s] = next]
    BY <1>1 DEF Start
  <2> HIDE DEF next
  <2> QED
    BY <1>1, <2>1, <2>2, ShapeByThread
<1>2. ASSUME Leave(s), ~At(s, "idle")
      PROVE  run' \in [Sessions -> Run] /\ RunShape'
  BY <1>2, ShapeByThread DEF Leave, IdleRun
<1>3. ASSUME NEW pc \in Pc, Goto(s, pc),
             <<run[s].pc, pc>> \in
               {<<"ingest", "index">>, <<"ingest", "discard">>,
                <<"ingest", "discard_duplicate">>,
                <<"discard_duplicate", "snap_documents">>, <<"index", "prepare">>,
                <<"prepare", "unclaim">>, <<"embed", "fail">>, <<"embed", "finish">>,
                <<"finish", "snap_documents">>}
      PROVE  run' \in [Sessions -> Run] /\ RunShape'
  BY <1>3, ShapeByThread DEF Goto
<1>4. CASE Begin(s)
  <2>1. ASSUME NEW d \in Docs, StartReindex(s, d) \/ StartDelete(s, d)
        PROVE  run' \in [Sessions -> Run] /\ RunShape'
    BY <2>1, <1>1 DEF StartReindex, StartDelete
  <2>2. CASE StartUpload(s) \/ StartList(s) \/ StartClear(s)
    <3>1. NoDoc \in Docs \cup {NoDoc}
      OBVIOUS
    <3> QED
      BY <2>2, <1>1, <3>1 DEF StartUpload, StartList, StartClear
  <2>3. CASE Boot(s) \/ RebuildContext(s)
    <3>1. NoDoc \in Docs \cup {NoDoc}
      OBVIOUS
    <3> QED
      BY <2>3, <1>1, <3>1 DEF Boot, RebuildContext
  <2> QED
    BY <1>4, <2>1, <2>2, <2>3 DEF Begin
<1>5. CASE UploadStep(s)
  <2>1. CASE SaveUpload(s)
    BY <2>1, ShapeByThread DEF SaveUpload
  <2>2. CASE ReleaseUpload(s)
    BY <2>2, ShapeByThread DEF ReleaseUpload, IdleRun
  <2> QED
    BY <1>5, <1>2, <1>3, <2>1, <2>2 DEF UploadStep, SaveUploadFails, Ingest,
       IngestDuplicate, IngestFails, IngestInterrupted, DiscardUpload
<1>6. CASE IndexStep(s)
  <2>1. CASE Prepare(s)
    <3>1. db.chunks[run[s].doc] \in SUBSET ChunkIds
      BY <2>1 DEF Prepare, Store
    <3> QED
      BY <2>1, <3>1, ShapeByThread DEF Prepare
  <2>2. CASE EmbedBatch(s)
    <3>1. NextBatch(run[s].planned, run[s].embedded) \in SUBSET ChunkIds
      BY DEF NextBatch
    <3> QED
      BY <2>2, <3>1, ShapeByThread DEF EmbedBatch
  <2> QED
    BY <1>6, <1>2, <1>3, <2>1, <2>2 DEF IndexStep, ClaimUploaded,
       IndexingNotStarted, PrepareFails, Unclaim, EmbedFails, Persist,
       PersistFails, MarkFailed, FinishIndexing
<1>7. CASE ReconcilingStep(s)
  <2>1. CASE SnapDocuments(s)
    <3>1. ActiveDocuments(reg) \in SUBSET Docs
      BY DEF ActiveDocuments
    <3> QED
      BY <2>1, <3>1, ShapeByThread, run[s] \in Run DEF SnapDocuments
  <2>2. CASE SnapPipeline(s)
    BY <2>2, ShapeByThread DEF SnapPipeline, PipelineIsActive
  <2> QED
    BY <1>7, <1>2, <2>1, <2>2 DEF ReconcilingStep, ReconcileStep, ReconcileFails
<1>8. CASE DeletionStep(s)
  <2>1. CASE Delete(s)
    <3>1. {run[s].doc} \in SUBSET Docs
      BY <2>1 DEF Delete
    <3> QED
      BY <2>1, <3>1, ShapeByThread DEF Delete
  <2>2. CASE Clear(s)
    <3>1. Present(db) \in SUBSET Docs
      BY DEF Present
    <3> QED
      BY <2>2, <3>1, ShapeByThread, SMTT(30) DEF Clear
  <2>3. CASE Unlink(s)
    <3>1. PICK d \in run[s].unlink :
            run' = [run EXCEPT ![s].unlink = @ \ {d}]
      BY <2>3 DEF Unlink
    <3>2. run[s].unlink \ {d} \in SUBSET Docs
      OBVIOUS
    <3> QED
      BY <2>3, <3>1, <3>2, ShapeByThread DEF Unlink
  <2> QED
    BY <1>8, <1>2, <2>1, <2>2, <2>3 DEF DeletionStep, DeleteFails, ClearFails, UnlinkDone
<1> QED
  BY <1>4, <1>5, <1>6, <1>7, <1>8 DEF Step

(* Every step of a thread keeps the database a store.                       *)
LEMMA ThreadStore ==
  ASSUME TypeOK, RunShape, NEW s \in Sessions, Begin(s) \/ Step(s)
  PROVE  db' \in Store
<1> DEFINE d == run[s].doc
<1>1. db \in Store /\ setting \in Versions
  BY DEF TypeOK
<1>2. CASE Begin(s)
  BY <1>1, <1>2 DEF Begin, StartUpload, StartList, StartClear, StartReindex,
     StartDelete, Boot, RebuildContext
<1>3. CASE Ingest(s)
  <2>1. d \in Docs
    BY <1>3 DEF Ingest, RunShape, At
  <2>2. AddDocument(db, d) \in Store
    BY <1>1, <2>1, UpdateDocumentType DEF AddDocument, DocumentStatus
  <2> QED
    BY <1>3, <2>1, <2>2, AddChunksType DEF Ingest
<1>4. CASE Prepare(s)
  <2>1. d \in Docs
    BY <1>4 DEF Prepare, RunShape, At, OwningPc
  <2>2. ForceReindex(s) \in BOOLEAN
    BY DEF ForceReindex
  <2> QED
    BY <1>1, <1>4, <2>1, <2>2, IndexingStoreType DEF Prepare
<1>5. CASE Persist(s)
  <2>1. d \in Docs
    BY <1>5 DEF Persist, RunShape, At, OwningPc
  <2> QED
    BY <1>1, <1>5, <2>1, IndexingStoreType DEF Persist
<1>6. CASE MarkFailed(s)
  BY <1>1, <1>6, FailDocumentsType DEF MarkFailed
<1>7. CASE ReconcileStep(s)
  BY <1>1, <1>7, FailDocumentsType DEF ReconcileStep, Reconcile
<1>8. CASE Delete(s)
  <2>1. d \in Docs
    BY <1>8 DEF Delete, RunShape, At
  <2> QED
    BY <1>1, <1>8, <2>1, DeleteDocumentType DEF Delete
<1>9. CASE Clear(s)
  BY <1>9, EmptyStoreType DEF Clear, ClearAll
<1>10. CASE UploadStep(s) /\ ~Ingest(s)
  BY <1>1, <1>10 DEF UploadStep, SaveUpload, SaveUploadFails, IngestDuplicate,
     IngestFails, IngestInterrupted, DiscardUpload, ReleaseUpload
<1>11. CASE IndexStep(s) /\ ~Prepare(s) /\ ~Persist(s) /\ ~MarkFailed(s)
  BY <1>1, <1>11 DEF IndexStep, ClaimUploaded, IndexingNotStarted, PrepareFails,
     Unclaim, EmbedBatch, EmbedFails, PersistFails, FinishIndexing
<1>12. CASE ReconcilingStep(s) /\ ~ReconcileStep(s)
  BY <1>1, <1>12 DEF ReconcilingStep, SnapDocuments, SnapPipeline, ReconcileFails
<1>13. CASE DeletionStep(s) /\ ~Delete(s) /\ ~Clear(s)
  BY <1>1, <1>13 DEF DeletionStep, DeleteFails, ClearFails, Unlink, UnlinkDone
<1> QED
  BY <1>2, <1>3, <1>4, <1>5, <1>6, <1>7, <1>8, <1>9, <1>10, <1>11, <1>12, <1>13
  DEF Step, UploadStep, IndexStep, ReconcilingStep, DeletionStep

(* Every step of a thread keeps the registry well typed.                    *)
LEMMA ThreadRegistry ==
  ASSUME TypeOK, RunShape, NEW s \in Sessions, Begin(s) \/ Step(s)
  PROVE  reg' \in Registry
<1>1. reg \in Registry
  BY DEF TypeOK
<1>2. ASSUME run[s].pc \in OwningPc \cup {"index"}
      PROVE  run[s].doc \in Docs
  BY <1>2 DEF RunShape
<1>3. CASE Begin(s)
  BY <1>1, <1>3, RegistryType DEF Begin, StartUpload, StartList, StartClear,
     StartReindex, StartDelete, Boot, RebuildContext
<1>4. CASE UploadStep(s)
  BY <1>1, <1>4, RegistryType DEF UploadStep, SaveUpload, SaveUploadFails, Ingest,
     IngestDuplicate, IngestFails, IngestInterrupted, DiscardUpload, ReleaseUpload
<1>5. CASE ClaimUploaded(s) \/ Unclaim(s) \/ Persist(s) \/ MarkFailed(s)
  BY <1>1, <1>2, <1>5, RegistryType DEF ClaimUploaded, Unclaim, Persist,
     MarkFailed, At, OwningPc
<1>6. CASE IndexStep(s) /\ UNCHANGED reg
  BY <1>1, <1>6
<1>7. CASE ReconcilingStep(s)
  BY <1>1, <1>7 DEF ReconcilingStep, SnapDocuments, SnapPipeline, ReconcileStep,
     ReconcileFails
<1>8. CASE DeletionStep(s)
  BY <1>1, <1>8 DEF DeletionStep, Delete, DeleteFails, Clear, ClearFails, Unlink,
     UnlinkDone
<1> QED
  BY <1>3, <1>4, <1>5, <1>6, <1>7, <1>8 DEF Step, IndexStep, IndexingNotStarted,
     Prepare, PrepareFails, EmbedBatch, EmbedFails, PersistFails, FinishIndexing

(* Every step of a thread keeps the other variables well typed.             *)
LEMMA ThreadScalars ==
  ASSUME TypeOK, RunShape, NEW s \in Sessions, Begin(s) \/ Step(s)
  PROVE  /\ files' \subseteq Docs /\ used' \subseteq Docs
         /\ up' \in BOOLEAN /\ UNCHANGED <<setting, crashes>>
<1> USE DEF TypeOK
<1>1. CASE Begin(s)
  BY <1>1 DEF Begin, StartUpload, StartList, StartClear, StartReindex, StartDelete,
     Boot, RebuildContext
<1>2. CASE UploadStep(s)
  BY <1>2 DEF UploadStep, SaveUpload, SaveUploadFails, Ingest, IngestDuplicate,
     IngestFails, IngestInterrupted, DiscardUpload, ReleaseUpload
<1>3. CASE IndexStep(s)
  BY <1>3 DEF IndexStep, ClaimUploaded, IndexingNotStarted, Prepare, PrepareFails,
     Unclaim, EmbedBatch, EmbedFails, Persist, PersistFails, MarkFailed, FinishIndexing
<1>4. CASE ReconcilingStep(s)
  BY <1>4 DEF ReconcilingStep, SnapDocuments, SnapPipeline, ReconcileStep, ReconcileFails
<1>5. CASE DeletionStep(s)
  BY <1>5 DEF DeletionStep, Delete, DeleteFails, Clear, ClearFails, Unlink, UnlinkDone
<1> QED
  BY <1>1, <1>2, <1>3, <1>4, <1>5 DEF Step

(* So does every step of the system.                                        *)
LEMMA NextType == TypeOK /\ RunShape /\ [Next]_vars => TypeOK' /\ RunShape'
<1> SUFFICES ASSUME TypeOK, RunShape, [Next]_vars PROVE TypeOK' /\ RunShape'
  OBVIOUS
<1>1. ASSUME NEW s \in Sessions, Begin(s) \/ Step(s)
      PROVE  TypeOK' /\ RunShape'
  BY <1>1, ThreadShape, ThreadStore, ThreadRegistry, ThreadScalars DEF TypeOK
<1>2. ASSUME NEW d \in Docs, ClearEmbeddingsOf(d)
      PROVE  TypeOK' /\ RunShape'
  <2>1. db' \in Store
    BY <1>2, ClearEmbeddingsType, UpdateDocumentType
    DEF ClearEmbeddingsOf, TypeOK, DocumentStatus
  <2> QED
    BY <1>2, <2>1 DEF ClearEmbeddingsOf, TypeOK, RunShape, At
<1>3. CASE PrepareCommand
  BY <1>3, FailDocumentsType DEF PrepareCommand, Reconcile, TypeOK, RunShape, At
<1>4. CASE Crash
  <2>1. run' \in [Sessions -> Run] /\ crashes' \in 0..MaxCrashes
    BY <1>4, IdleRunType, MaxCrashesAssumption DEF Crash, TypeOK
  <2>2. reg' \in Registry
    BY <1>4 DEF Crash, NoOwners, Registry
  <2>3. RunShape'
    BY <1>4 DEF Crash, RunShape, IdleRun, At, OwningPc
  <2> QED
    BY <1>4, <2>1, <2>2, <2>3 DEF Crash, TypeOK
<1>5. CASE UNCHANGED vars
  BY <1>5 DEF vars, TypeOK, RunShape, At
<1> QED
  BY <1>1, <1>2, <1>3, <1>4, <1>5 DEF Next, Outside

(* Every variable keeps its type in every behaviour.                        *)
THEOREM TypeCorrect == Spec => []TypeOK
<1>1. Spec => [](TypeOK /\ RunShape)
  BY InitType, NextType, PTL DEF Spec
<1> QED
  BY <1>1, PTL

-----------------------------------------------------------------------------
(* Ownership.                                                              *)

(* A thread that moves on without a change of what it owns.                 *)
LEMMA OwnershipKept ==
  ASSUME TypeOK, OwnershipMatchesWork, SingleIndexer,
         NEW s \in Sessions, NEW next \in Run,
         run' = [run EXCEPT ![s] = next], UNCHANGED reg,
         next.pc \in OwningPc <=> run[s].pc \in OwningPc,
         next.pc \in OwningPc => next.doc = run[s].doc,
         next.op = "upload" <=> run[s].op = "upload"
  PROVE  OwnershipMatchesWork' /\ SingleIndexer'
<1>1. \A t \in Sessions : /\ run'[t].pc \in OwningPc <=> run[t].pc \in OwningPc
                          /\ run'[t].pc \in OwningPc => run'[t].doc = run[t].doc
                          /\ run'[t].op = "upload" <=> run[t].op = "upload"
  BY DEF TypeOK
<1>2. OwnershipMatchesWork'
  BY <1>1 DEF OwnershipMatchesWork
<1>3. SingleIndexer'
  BY <1>1 DEF SingleIndexer
<1> QED
  BY <1>2, <1>3

(* Between its claim and its outcome the thread owns its document, and no    *)
(* other thread owns any.                                                   *)
LEMMA OnlyOwner ==
  ASSUME TypeOK, RunShape, OwnershipMatchesWork, SingleIndexer,
         NEW s \in Sessions, run[s].pc \in OwningPc
  PROVE  /\ run[s].doc \in Docs
         /\ reg.document[run[s].doc] = s
         /\ \A t \in Sessions \ {s} : run[t].pc \notin OwningPc /\ run[t].op # "upload"
         /\ \A d \in Docs \ {run[s].doc} : reg.document[d] = Nobody
<1>1. run[s].doc \in Docs
  BY DEF RunShape
<1>2. reg.document[run[s].doc] = s
  BY <1>1 DEF OwnershipMatchesWork
<1>3. \A t \in Sessions \ {s} : run[t].pc \notin OwningPc /\ run[t].op # "upload"
  BY DEF SingleIndexer
<1>4. ASSUME NEW d \in Docs \ {run[s].doc} PROVE reg.document[d] = Nobody
  <2>1. reg.document[d] \in Sessions \cup {Nobody}
    BY DEF TypeOK, Registry
  <2> QED
    BY <2>1, <1>3 DEF OwnershipMatchesWork
<1> QED
  BY <1>1, <1>2, <1>3, <1>4

(* An empty registry means that no thread indexes. *)
LEMMA NoOwnerNoIndexer ==
  ASSUME TypeOK, RunShape, OwnershipMatchesWork, ActiveDocuments(reg) = {}
  PROVE  \A t \in Sessions : run[t].pc \notin OwningPc
BY NobodyAssumption DEF ActiveDocuments, OwnershipMatchesWork, RunShape

(* Claiming a document: by a re-index that starts, or inside an upload.     *)
LEMMA OwnershipClaimed ==
  ASSUME TypeOK, RunShape, OwnershipMatchesWork, SingleIndexer,
         NEW s \in Sessions, NEW d \in Docs, NEW next \in Run,
         CanClaim(reg, d, IF next.op = "upload" THEN s ELSE Nobody),
         reg' = Claim(reg, d, s), run' = [run EXCEPT ![s] = next],
         next.pc = "prepare", next.doc = d,
         next.op = "upload" <=> run[s].op = "upload"
  PROVE  OwnershipMatchesWork' /\ SingleIndexer'
<1>1. \A t \in Sessions : run[t].pc \notin OwningPc
  BY NoOwnerNoIndexer DEF CanClaim
<1>2. \A e \in Docs : reg.document[e] = Nobody
  BY DEF CanClaim, ActiveDocuments
<1>3. \A t \in Sessions \ {s} : run[t].op # "upload"
  BY NobodyAssumption DEF CanClaim, PipelineIsActive, OwnershipMatchesWork
<1>4. /\ run'[s] = next
      /\ \A t \in Sessions \ {s} : run'[t] = run[t]
  BY DEF TypeOK
<1>5. /\ reg'.document[d] = s /\ reg'.pipeline = reg.pipeline
      /\ \A e \in Docs \ {d} : reg'.document[e] = Nobody
  BY <1>2 DEF Claim, TypeOK, Registry
<1>6. OwnershipMatchesWork'
  BY <1>1, <1>4, <1>5, NobodyAssumption DEF OwnershipMatchesWork, OwningPc
<1>7. SingleIndexer'
  BY <1>1, <1>3, <1>4 DEF SingleIndexer
<1> QED
  BY <1>6, <1>7

(* Releasing a document ends the only indexing run. *)
LEMMA OwnershipReleased ==
  ASSUME TypeOK, RunShape, OwnershipMatchesWork, SingleIndexer,
         NEW s \in Sessions, NEW next \in Run,
         run[s].pc \in OwningPc, reg' = Release(reg, run[s].doc, s),
         run' = [run EXCEPT ![s] = next], next.pc \notin OwningPc,
         next.op = "upload" <=> run[s].op = "upload"
  PROVE  OwnershipMatchesWork' /\ SingleIndexer'
<1>1. /\ run[s].doc \in Docs /\ reg.document[run[s].doc] = s
      /\ \A t \in Sessions \ {s} : run[t].pc \notin OwningPc
      /\ \A e \in Docs \ {run[s].doc} : reg.document[e] = Nobody
  BY OnlyOwner
<1>2. run'[s] = next /\ \A t \in Sessions \ {s} : run'[t] = run[t]
  BY DEF TypeOK
<1>3. reg'.pipeline = reg.pipeline /\ \A e \in Docs : reg'.document[e] = Nobody
  BY <1>1 DEF Release, TypeOK, Registry
<1>4. OwnershipMatchesWork'
  BY <1>1, <1>2, <1>3, NobodyAssumption DEF OwnershipMatchesWork
<1>5. SingleIndexer'
  BY <1>1, <1>2 DEF SingleIndexer
<1> QED
  BY <1>4, <1>5

(* A thread that only moves on, inside or outside of its ownership.         *)
LEMMA OwnershipByGoto ==
  ASSUME TypeOK, OwnershipMatchesWork, SingleIndexer, UNCHANGED reg,
         NEW s \in Sessions, NEW pc \in Pc, Goto(s, pc),
         pc \in OwningPc <=> run[s].pc \in OwningPc
  PROVE  OwnershipMatchesWork' /\ SingleIndexer'
<1> DEFINE next == [run[s] EXCEPT !.pc = pc]
<1>1. run[s] \in Run
  BY DEF TypeOK
<1>2. next \in Run /\ next.pc = pc /\ next.doc = run[s].doc /\ next.op = run[s].op
  BY <1>1 DEF Run
<1>3. run' = [run EXCEPT ![s] = next]
  BY DEF Goto
<1> HIDE DEF next
<1> QED
  BY <1>2, <1>3, OwnershipKept

(* What Leave makes of a thread.                                            *)
LEMMA LeaveTo ==
  ASSUME TypeOK, RunShape, NEW s \in Sessions, Leave(s), ~At(s, "idle")
  PROVE  \E next \in Run :
           /\ run' = [run EXCEPT ![s] = next]
           /\ next.pc \in {"idle", "release_pipeline"}
           /\ next.op = "upload" <=> run[s].op = "upload"
           /\ next.doc \in {run[s].doc, NoDoc}
           /\ next.unlink \subseteq run[s].unlink
<1> DEFINE next == IF run[s].op = "upload"
                   THEN [run[s] EXCEPT !.pc = "release_pipeline"] ELSE IdleRun
<1>1. run[s] \in Run
  BY DEF TypeOK
<1>2. next \in Run
  BY <1>1, IdleRunType DEF Run, Pc
<1>3. run' = [run EXCEPT ![s] = next]
  BY DEF Leave
<1>4. /\ next.pc \in {"idle", "release_pipeline"}
      /\ next.op = "upload" <=> run[s].op = "upload"
      /\ next.doc \in {run[s].doc, NoDoc}
      /\ next.unlink \subseteq run[s].unlink
  BY <1>1 DEF Run, IdleRun
<1> HIDE DEF next
<1> QED
  BY <1>2, <1>3, <1>4

(* A thread that ends without owning a document.                            *)
LEMMA OwnershipByLeave ==
  ASSUME TypeOK, RunShape, OwnershipMatchesWork, SingleIndexer, UNCHANGED reg,
         NEW s \in Sessions, Leave(s), ~At(s, "idle"), run[s].pc \notin OwningPc
  PROVE  OwnershipMatchesWork' /\ SingleIndexer'
<1>1. PICK next \in Run :
        /\ run' = [run EXCEPT ![s] = next]
        /\ next.pc \in {"idle", "release_pipeline"}
        /\ next.op = "upload" <=> run[s].op = "upload"
  BY LeaveTo
<1>2. next.pc \notin OwningPc
  BY <1>1 DEF OwningPc
<1> QED
  BY <1>1, <1>2, OwnershipKept

(* A thread that begins an operation without a claim.                       *)
LEMMA OwnershipByStart ==
  ASSUME TypeOK, RunShape, OwnershipMatchesWork, SingleIndexer, UNCHANGED reg,
         NEW s \in Sessions, NEW op \in Operations \ {"upload"},
         NEW d \in Docs \cup {NoDoc}, NEW pc \in Pc \ OwningPc, Start(s, op, d, pc)
  PROVE  OwnershipMatchesWork' /\ SingleIndexer'
<1> DEFINE next == [IdleRun EXCEPT !.op = op, !.doc = d, !.pc = pc]
<1>1. next \in Run /\ next.op = op /\ next.pc = pc
  BY DEF IdleRun, Run
<1>2. run' = [run EXCEPT ![s] = next]
  BY DEF Start
<1>3. run[s].pc = "idle" /\ run[s].op = "none"
  BY DEF Start, At, RunShape
<1>4. run[s].pc \notin OwningPc
  BY <1>3 DEF OwningPc
<1> HIDE DEF next
<1> QED
  BY <1>1, <1>2, <1>3, <1>4, OwnershipKept

(* Every step of a thread keeps the registry and the threads in agreement.  *)
LEMMA ThreadOwnership ==
  ASSUME TypeOK, RunShape, OwnershipMatchesWork, SingleIndexer,
         NEW s \in Sessions, Begin(s) \/ Step(s)
  PROVE  OwnershipMatchesWork' /\ SingleIndexer'
<1>r. run[s] \in Run
  BY DEF TypeOK
<1>1. CASE StartUpload(s)
  <2> DEFINE next == [IdleRun EXCEPT !.op = "upload", !.doc = NoDoc, !.pc = "save"]
  <2>1. next.op = "upload" /\ next.pc = "save"
    BY DEF IdleRun
  <2>2. run'[s] = next /\ \A t \in Sessions \ {s} : run'[t] = run[t]
    BY <1>1 DEF StartUpload, Start, TypeOK
  <2>3. /\ \A d \in Docs : reg.document[d] = Nobody
        /\ reg.pipeline = Nobody /\ ActiveDocuments(reg) = {}
    BY <1>1 DEF StartUpload, CanClaimPipeline, IsActive, ActiveDocuments, PipelineIsActive
  <2>4. \A t \in Sessions : run[t].pc \notin OwningPc /\ run[t].op # "upload"
    BY <2>3, NoOwnerNoIndexer, NobodyAssumption DEF OwnershipMatchesWork
  <2>5. reg'.pipeline = s /\ reg'.document = reg.document
    BY <1>1 DEF StartUpload, ClaimPipeline, TypeOK, Registry
  <2> HIDE DEF next
  <2>6. next.pc \notin OwningPc
    BY <2>1 DEF OwningPc
  <2>7. OwnershipMatchesWork'
    BY <2>1, <2>2, <2>3, <2>4, <2>5, <2>6, NobodyAssumption DEF OwnershipMatchesWork
  <2>8. SingleIndexer'
    BY <2>2, <2>4, <2>6 DEF SingleIndexer
  <2> QED
    BY <2>7, <2>8
<1>2. CASE ReleaseUpload(s)
  <2>1. run[s].op = "upload"
    BY <1>2 DEF ReleaseUpload, At, RunShape
  <2>2. reg.pipeline = s /\ \A t \in Sessions \ {s} : run[t].op # "upload"
    BY <2>1 DEF OwnershipMatchesWork
  <2>3. reg'.pipeline = Nobody /\ reg'.document = reg.document
    BY <1>2, <2>2 DEF ReleaseUpload, ReleasePipeline, TypeOK, Registry
  <2>4. /\ run'[s].op = "none" /\ run'[s].pc \notin OwningPc
        /\ \A t \in Sessions \ {s} : run'[t] = run[t]
    BY <1>2 DEF ReleaseUpload, IdleRun, OwningPc, TypeOK
  <2>5. run[s].pc \notin OwningPc
    BY <1>2 DEF ReleaseUpload, At, OwningPc
  <2>6. OwnershipMatchesWork'
    BY <2>2, <2>3, <2>4, <2>5, NobodyAssumption DEF OwnershipMatchesWork
  <2>7. SingleIndexer'
    BY <2>4 DEF SingleIndexer
  <2> QED
    BY <2>6, <2>7
<1>3. CASE ClaimUploaded(s)
  <2> DEFINE next == [run[s] EXCEPT !.pc = "prepare"]
  <2>1. /\ next \in Run /\ next.pc = "prepare" /\ next.doc = run[s].doc
        /\ next.op = run[s].op
    BY <1>r DEF Run, Pc
  <2>2. run' = [run EXCEPT ![s] = next]
    BY <1>3 DEF ClaimUploaded, Goto
  <2>3. run[s].op = "upload" /\ run[s].doc \in Docs
    BY <1>3 DEF ClaimUploaded, At, RunShape
  <2> HIDE DEF next
  <2> QED
    BY <1>3, <2>1, <2>2, <2>3, OwnershipClaimed DEF ClaimUploaded, PipelineToken
<1>4. ASSUME NEW d \in Docs, StartReindex(s, d)
      PROVE  OwnershipMatchesWork' /\ SingleIndexer'
  <2> DEFINE next == [IdleRun EXCEPT !.op = "reindex", !.doc = d, !.pc = "prepare"]
  <2>1. next \in Run /\ next.pc = "prepare" /\ next.doc = d /\ next.op = "reindex"
    BY DEF IdleRun, Run, Pc, Operations
  <2>2. run' = [run EXCEPT ![s] = next]
    BY <1>4 DEF StartReindex, Start
  <2>3. run[s].op = "none"
    BY <1>4 DEF StartReindex, Start, At, RunShape
  <2> HIDE DEF next
  <2> QED
    BY <1>4, <2>1, <2>2, <2>3, OwnershipClaimed DEF StartReindex
<1>5. CASE Unclaim(s) \/ MarkFailed(s)
  <2>1. /\ run[s].pc \in OwningPc /\ ~At(s, "idle") /\ Leave(s)
        /\ reg' = Release(reg, run[s].doc, s)
    BY <1>5 DEF Unclaim, MarkFailed, At, OwningPc
  <2>2. PICK next \in Run :
          /\ run' = [run EXCEPT ![s] = next]
          /\ next.pc \in {"idle", "release_pipeline"}
          /\ next.op = "upload" <=> run[s].op = "upload"
    BY <2>1, LeaveTo
  <2>3. next.pc \notin OwningPc
    BY <2>2 DEF OwningPc
  <2> QED
    BY <2>1, <2>2, <2>3, OwnershipReleased
<1>6. CASE Persist(s)
  <2> DEFINE next == [run[s] EXCEPT !.pc = "finish"]
  <2>1. /\ next \in Run /\ next.pc = "finish" /\ next.op = run[s].op
    BY <1>r DEF Run, Pc
  <2>2. run' = [run EXCEPT ![s] = next] /\ run[s].pc \in OwningPc
    BY <1>6 DEF Persist, Goto, At, OwningPc
  <2> HIDE DEF next
  <2>3. next.pc \notin OwningPc
    BY <2>1 DEF OwningPc
  <2> QED
    BY <1>6, <2>1, <2>2, <2>3, OwnershipReleased DEF Persist
<1> USE DEF At, OwningPc, Pc, Operations
<1>7. ASSUME NEW pc \in Pc, UNCHANGED reg, Goto(s, pc),
             pc \in OwningPc <=> run[s].pc \in OwningPc
      PROVE  OwnershipMatchesWork' /\ SingleIndexer'
  BY <1>7, OwnershipByGoto
<1>8. ASSUME UNCHANGED reg, Leave(s), run[s].pc \notin OwningPc \cup {"idle"}
      PROVE  OwnershipMatchesWork' /\ SingleIndexer'
  BY <1>8, OwnershipByLeave
<1>9. CASE \E d \in Docs : StartDelete(s, d)
  BY <1>9, OwnershipByStart DEF StartDelete
<1>10. CASE StartList(s) \/ StartClear(s) \/ Boot(s) \/ RebuildContext(s)
  BY <1>10, OwnershipByStart DEF StartList, StartClear, Boot, RebuildContext
<1>11. CASE SaveUpload(s)
  <2>1. PICK d \in Docs : run' = [run EXCEPT ![s].pc = "ingest", ![s].doc = d]
    BY <1>11 DEF SaveUpload
  <2> DEFINE next == [run[s] EXCEPT !.pc = "ingest", !.doc = d]
  <2>2. next \in Run /\ next.pc = "ingest" /\ next.op = run[s].op
    BY <1>r DEF Run
  <2>3. run' = [run EXCEPT ![s] = next]
    BY <2>1
  <2> HIDE DEF next
  <2> QED
    BY <1>11, <2>2, <2>3, OwnershipKept DEF SaveUpload
<1>12. CASE UploadStep(s) /\ ~SaveUpload(s) /\ ~ReleaseUpload(s)
  BY <1>7, <1>8, <1>12 DEF UploadStep, SaveUploadFails, Ingest, IngestDuplicate,
     IngestFails, IngestInterrupted, DiscardUpload
<1>13. CASE Prepare(s)
  <2> DEFINE next == [run[s] EXCEPT !.pc = "embed", !.planned = db.chunks[run[s].doc]]
  <2>1. db.chunks[run[s].doc] \in SUBSET ChunkIds
    BY <1>13 DEF Prepare, RunShape, TypeOK, Store
  <2>2. /\ next \in Run /\ next.pc = "embed" /\ next.op = run[s].op
        /\ next.doc = run[s].doc
    BY <1>r, <2>1 DEF Run
  <2>3. run' = [run EXCEPT ![s] = next] /\ run[s].pc = "prepare" /\ UNCHANGED reg
    BY <1>13 DEF Prepare
  <2> HIDE DEF next
  <2> QED
    BY <2>2, <2>3, OwnershipKept
<1>14. CASE EmbedBatch(s)
  <2> DEFINE next == [run[s] EXCEPT !.embedded = NextBatch(run[s].planned, @)]
  <2>1. NextBatch(run[s].planned, run[s].embedded) \in SUBSET ChunkIds
    BY <1>r DEF NextBatch, Run
  <2>2. /\ next \in Run /\ next.pc = run[s].pc /\ next.op = run[s].op
        /\ next.doc = run[s].doc
    BY <1>r, <2>1 DEF Run
  <2>3. run' = [run EXCEPT ![s] = next] /\ UNCHANGED reg
    BY <1>14 DEF EmbedBatch
  <2> HIDE DEF next
  <2> QED
    BY <2>2, <2>3, OwnershipKept
<1>15. CASE IndexingNotStarted(s) \/ PrepareFails(s) \/ EmbedFails(s)
            \/ PersistFails(s) \/ FinishIndexing(s)
  BY <1>7, <1>8, <1>15 DEF IndexingNotStarted, PrepareFails, EmbedFails,
     PersistFails, FinishIndexing
<1>16. CASE SnapDocuments(s) \/ SnapPipeline(s)
  <2>1. PICK pc \in {"snap_pipeline", "reconcile"},
             seen \in SUBSET Docs, active \in BOOLEAN :
          run' = [run EXCEPT ![s] = [@ EXCEPT !.pc = pc, !.seen = seen,
                                              !.seenPipeline = active]]
    <3>1. CASE SnapDocuments(s)
      <4>1. ActiveDocuments(reg) \in SUBSET Docs /\ run[s].seenPipeline \in BOOLEAN
        BY <1>r DEF ActiveDocuments, Run
      <4>2. run' = [run EXCEPT ![s] = [@ EXCEPT !.pc = "snap_pipeline",
                      !.seen = ActiveDocuments(reg), !.seenPipeline = run[s].seenPipeline]]
        BY <1>r, <3>1 DEF SnapDocuments, Run
      <4> QED
        BY <4>1, <4>2
    <3>2. CASE SnapPipeline(s)
      <4>1. PipelineIsActive(reg) \in BOOLEAN /\ run[s].seen \in SUBSET Docs
        BY <1>r DEF PipelineIsActive, Run
      <4>2. run' = [run EXCEPT ![s] = [@ EXCEPT !.pc = "reconcile",
                      !.seen = run[s].seen, !.seenPipeline = PipelineIsActive(reg)]]
        BY <1>r, <3>2 DEF SnapPipeline, Run
      <4> QED
        BY <4>1, <4>2
    <3> QED
      BY <1>16, <3>1, <3>2
  <2> DEFINE next == [run[s] EXCEPT !.pc = pc, !.seen = seen, !.seenPipeline = active]
  <2>2. next \in Run /\ next.pc = pc /\ next.op = run[s].op
    BY <1>r, <2>1 DEF Run
  <2>3. /\ run' = [run EXCEPT ![s] = next]
        /\ run[s].pc \in {"snap_documents", "snap_pipeline"} /\ UNCHANGED reg
    BY <1>16, <2>1 DEF SnapDocuments, SnapPipeline
  <2> HIDE DEF next
  <2> QED
    BY <2>1, <2>2, <2>3, OwnershipKept
<1>17. CASE ReconcileStep(s) \/ ReconcileFails(s)
  BY <1>8, <1>17 DEF ReconcileStep, ReconcileFails
<1>18. CASE DeleteFails(s) \/ ClearFails(s) \/ UnlinkDone(s)
  BY <1>8, <1>18 DEF DeleteFails, ClearFails, UnlinkDone
<1>19. CASE Delete(s) \/ Clear(s) \/ Unlink(s)
  <2>1. PICK rest \in SUBSET Docs :
          run' = [run EXCEPT ![s] = [@ EXCEPT !.pc = "unlink", !.unlink = rest]]
    <3>1. CASE Delete(s)
      BY <3>1 DEF Delete, RunShape
    <3>2. CASE Clear(s)
      BY <3>2 DEF Clear, Present
    <3>3. CASE Unlink(s)
      <4>1. PICK d \in run[s].unlink : run' = [run EXCEPT ![s].unlink = @ \ {d}]
        BY <3>3 DEF Unlink
      <4>2. run' = [run EXCEPT ![s] = [@ EXCEPT !.pc = "unlink",
                                                !.unlink = run[s].unlink \ {d}]]
        BY <1>r, <3>3, <4>1 DEF Unlink, Run
      <4>3. run[s].unlink \ {d} \in SUBSET Docs
        BY <1>r DEF Run
      <4> QED
        BY <4>2, <4>3
    <3> QED
      BY <1>19, <3>1, <3>2, <3>3
  <2> DEFINE next == [run[s] EXCEPT !.pc = "unlink", !.unlink = rest]
  <2>2. next \in Run /\ next.pc = "unlink" /\ next.op = run[s].op
    BY <1>r, <2>1 DEF Run
  <2>3. /\ run' = [run EXCEPT ![s] = next]
        /\ run[s].pc \in {"delete", "clear", "unlink"} /\ UNCHANGED reg
    BY <1>19, <2>1 DEF Delete, Clear, Unlink
  <2> HIDE DEF next
  <2> QED
    BY <2>2, <2>3, OwnershipKept
<1>20. CASE Begin(s)
  BY <1>1, <1>4, <1>9, <1>10, <1>20 DEF Begin
<1>21. CASE UploadStep(s)
  BY <1>2, <1>11, <1>12, <1>21
<1>22. CASE IndexStep(s)
  BY <1>3, <1>5, <1>6, <1>13, <1>14, <1>15, <1>22 DEF IndexStep
<1>23. CASE ReconcilingStep(s) \/ DeletionStep(s)
  BY <1>16, <1>17, <1>18, <1>19, <1>23 DEF ReconcilingStep, DeletionStep
<1> QED
  BY <1>20, <1>21, <1>22, <1>23 DEF Step

(* Every step keeps the registry and the threads in agreement.              *)
LEMMA NextOwnership ==
  TypeOK /\ RunShape /\ OwnershipMatchesWork /\ SingleIndexer /\ [Next]_vars
  => OwnershipMatchesWork' /\ SingleIndexer'
<1> SUFFICES ASSUME TypeOK, RunShape, OwnershipMatchesWork, SingleIndexer, [Next]_vars
             PROVE  OwnershipMatchesWork' /\ SingleIndexer'
  OBVIOUS
<1>1. ASSUME NEW s \in Sessions, Begin(s) \/ Step(s)
      PROVE  OwnershipMatchesWork' /\ SingleIndexer'
  BY <1>1, ThreadOwnership
<1>2. CASE UNCHANGED <<reg, run>>
  BY <1>2 DEF OwnershipMatchesWork, SingleIndexer
<1>3. CASE Crash
  BY <1>3, NobodyAssumption
  DEF Crash, NoOwners, IdleRun, OwnershipMatchesWork, SingleIndexer, OwningPc
<1> QED
  BY <1>1, <1>2, <1>3 DEF Next, Outside, ClearEmbeddingsOf, PrepareCommand, vars

Owned == TypeOK /\ RunShape /\ OwnershipMatchesWork /\ SingleIndexer

(* The ownership invariants together are inductive.                         *)
LEMMA OwnedAlways == Spec => []Owned
<1>1. Init => Owned
  <2>1. Init => OwnershipMatchesWork /\ SingleIndexer
    BY NobodyAssumption
    DEF Init, NoOwners, IdleRun, OwnershipMatchesWork, SingleIndexer, OwningPc
  <2> QED
    BY <2>1, InitType DEF Owned
<1>2. Owned /\ [Next]_vars => Owned'
  BY NextType, NextOwnership DEF Owned
<1> QED
  BY <1>1, <1>2, PTL DEF Spec

(* In every behaviour the registry names exactly the threads that index or   *)
(* upload: no token leaks and none is lost, whatever is raised.             *)
THEOREM RegistryTellsTheTruth == Spec => []OwnershipMatchesWork
BY OwnedAlways, PTL DEF Owned

(* In every behaviour at most one thread of the process indexes, and none    *)
(* beside another thread's upload.                                          *)
THEOREM MutualExclusion == Spec => []SingleIndexer
BY OwnedAlways, PTL DEF Owned

-----------------------------------------------------------------------------
(* The integrity of the store.                                             *)

(* Every Ready row is of the version in force. *)
Current == \A d \in Docs : up /\ db.status[d] = "indexed" => db.version[d] = setting

(* The invariants of the store are a statement about each row.              *)
LEMMA StoreInvariants ==
  db \in Store => (NothingPartial /\ ReadyIsComplete <=> GoodStore(db) /\ Current)
BY DEF NothingPartial, ReadyIsComplete, GoodStore, GoodRow, Current, Present

(* _prepare_for_indexing keeps the rows good: the index of a document that   *)
(* is re-indexed is gone before its row says indexing.                      *)
LEMMA PrepareGood ==
  ASSUME NEW store, GoodStore(store), NEW d \in Docs, NEW force \in BOOLEAN,
         ReadyToIndex(store, d, force)
  PROVE  GoodStore(PrepareForIndexing(store, d, force))
<1> DEFINE new == PrepareForIndexing(store, d, force)
<1>1. store \in Store /\ d \in Present(store)
  BY DEF GoodStore, ReadyToIndex, Present, Absent
<1>2. new \in Store
  <2>1. (IF force THEN ClearEmbeddings(store, d) ELSE store) \in Store
    BY <1>1, ClearEmbeddingsType
  <2> QED
    BY <2>1, SetStatusType DEF PrepareForIndexing, DocumentStatus
<1>3. /\ new.status[d] = "indexing" /\ new.chunks[d] = store.chunks[d]
      /\ \A e \in Docs \ {d} : SameRow(store, new, e)
  BY <1>1 DEF PrepareForIndexing, SetStatus, ClearEmbeddings, SameRow, Store
<1>4. new.vector[d] = NoVectors /\ new.fts[d] = {}
  <2>1. CASE force
    BY <1>1, <2>1 DEF PrepareForIndexing, SetStatus, ClearEmbeddings, Store
  <2>2. CASE ~force
    <3>1. store.status[d] # "indexed"
      BY <2>2 DEF ReadyToIndex
    <3> QED
      BY <1>1, <2>2, <3>1 DEF PrepareForIndexing, SetStatus, GoodStore, GoodRow, Store
  <2> QED
    BY <2>1, <2>2
<1>5. GoodStore(new)
  <2> HIDE DEF new
  <2> QED
    BY <1>1, <1>2, <1>3, <1>4, ClearedRowGood
<1> QED
  BY <1>5

(* The final transaction keeps the rows good, and publishes exactly the      *)
(* chunks that were embedded.                                               *)
LEMMA PersistGood ==
  ASSUME NEW store, GoodStore(store), NEW d \in Docs, NEW saved \in SUBSET ChunkIds,
         NEW version \in Versions, CanPersist(store, d, saved, version)
  PROVE  /\ GoodStore(PersistCompletedIndex(store, d, saved, version))
         /\ saved = store.chunks[d]
<1> DEFINE mid == WithIndex(store, d, saved, version)
           new == PersistCompletedIndex(store, d, saved, version)
<1>1. /\ store \in Store /\ store.status[d] = "indexing"
      /\ store.vector[d] = NoVectors
  BY DEF CanPersist, GoodStore, GoodRow
<1>2. mid \in Store
  BY <1>1, SaveEmbeddingsType, SyncFtsType DEF WithIndex
<1>3. new \in Store
  BY <1>2, UpdateDocumentType DEF PersistCompletedIndex, DocumentStatus
<1>4. /\ new.status[d] = "indexed" /\ new.version[d] = version
      /\ new.chunks[d] = mid.chunks[d] /\ new.vector[d] = mid.vector[d]
      /\ new.fts[d] = mid.fts[d]
  BY <1>2 DEF PersistCompletedIndex, UpdateDocument, Store
<1>5. mid.chunks[d] = store.chunks[d]
  BY <1>1 DEF WithIndex, SaveEmbeddings, SyncFts, Store
<1>6. \A c \in ChunkIds : mid.vector[d][c] = IF c \in saved THEN version ELSE NoVersion
  <2> DEFINE row == [c \in ChunkIds |->
                       IF c \in saved THEN version ELSE store.vector[d][c]]
  <2>1. mid.vector[d] = SaveEmbeddings(store, d, saved, version).vector[d]
    BY <1>1 DEF WithIndex, SyncFts, SaveEmbeddings, Store
  <2>2. SaveEmbeddings(store, d, saved, version) = [store EXCEPT !.vector[d] = row]
    BY DEF SaveEmbeddings
  <2>3. SaveEmbeddings(store, d, saved, version).vector[d] = row
    <3> HIDE DEF row
    <3> QED
      BY <1>1, <2>2 DEF Store
  <2> QED
    BY <1>1, <2>1, <2>3 DEF NoVectors
<1>7. IsComplete(mid, d, version)
  BY DEF CanPersist
<1>8. /\ mid.chunks[d] # {} /\ \A c \in mid.chunks[d] : mid.vector[d][c] = version
      /\ mid.fts[d] = mid.chunks[d]
  <2>1. mid \in Store /\ version # NoVersion
    BY <1>2, NoVersionAssumption
  <2> HIDE DEF mid
  <2> QED
    BY <1>7, <2>1, IsCompleteMeansEveryChunk DEF EveryChunkIsIndexed
<1>9. saved = store.chunks[d]
  <2>1. store.chunks[d] \subseteq ChunkIds
    BY <1>1 DEF Store
  <2>2. saved \subseteq store.chunks[d]
    BY DEF CanPersist, CanSaveEmbeddings
  <2> QED
    BY <1>5, <1>6, <1>8, <2>1, <2>2, NoVersionAssumption
<1>10. IsComplete(new, d, version)
  <2>1. Embedded(new, d) = Embedded(mid, d)
    BY <1>4 DEF Embedded
  <2> QED
    BY <1>4, <1>7, <2>1 DEF IsComplete
<1>11. CompleteIndexClauses(new, d)
  <2>1. version # NoVersion
    BY NoVersionAssumption
  <2> QED
    BY <1>3, <1>4, <1>10, <2>1, IntegrityCheckIsRetrievalPredicate
<1>12. GoodRow(new, d)
  BY <1>4, <1>8, <1>10, <1>11 DEF GoodRow, Absent
<1>13. ASSUME NEW e \in Docs \ {d} PROVE GoodRow(new, e)
  <2>1. SameRow(store, mid, e)
    BY <1>1 DEF SameRow, WithIndex, SaveEmbeddings, SyncFts, Store
  <2>2. SameRow(mid, new, e)
    BY <1>2 DEF SameRow, PersistCompletedIndex, UpdateDocument, Store
  <2>3. SameRow(store, new, e)
    BY <2>1, <2>2 DEF SameRow
  <2> HIDE DEF new, mid
  <2> QED
    BY <2>3, SameRowGood DEF GoodStore
<1> QED
  BY <1>3, <1>9, <1>12, <1>13 DEF GoodStore

(* A step that leaves the store, the version in force and up alone.         *)
LEMMA StoreUntouched ==
  ASSUME GoodStore(db), Current, UNCHANGED <<db, setting, up>>
  PROVE  GoodStore(db)' /\ Current'
BY DEF GoodStore, GoodRow, Current, IsComplete, CompleteIndexClauses, Embedded

(* reconcile keeps the rows good; and if it saw no owner, no Ready row of    *)
(* another version is left.                                                 *)
LEMMA ReconcileGood ==
  ASSUME NEW store, GoodStore(store), NEW seen, NEW recover \in BOOLEAN, NEW version
  PROVE  LET new == Reconcile(store, seen, recover, version) IN
         /\ GoodStore(new)
         /\ \A d \in Docs : new.status[d] = "indexed" =>
              /\ store.status[d] = "indexed" /\ new.version[d] = store.version[d]
              /\ seen = {} => new.version[d] = version
<1> DEFINE failed == ToRecover(store, seen, recover, version)
           new    == FailDocuments(store, failed)
<1>1. new = Reconcile(store, seen, recover, version)
  BY DEF Reconcile
<1>2. failed \in SUBSET Present(store)
  BY DEF ToRecover
<1>3. GoodStore(new)
  BY <1>2, FailDocumentsGood
<1>4. ASSUME NEW d \in Docs, new.status[d] = "indexed"
      PROVE  /\ store.status[d] = "indexed" /\ new.version[d] = store.version[d]
             /\ seen = {} => new.version[d] = version
  <2>1. d \notin failed /\ store.status[d] = "indexed"
        /\ new.version[d] = store.version[d]
    BY <1>4 DEF FailDocuments, GoodStore, Store
  <2>2. d \in Present(store)
    BY <2>1 DEF Present, Absent
  <2>3. seen = {} => ProvenReady(store, d, version)
    BY <2>1, <2>2 DEF ToRecover
  <2> QED
    BY <2>1, <2>3 DEF ProvenReady
<1> HIDE DEF new
<1> QED
  BY <1>1, <1>3, <1>4

(* Every step of a thread keeps the store sound.                            *)
LEMMA ThreadSound ==
  ASSUME TypeOK, RunShape, BootFirst, GoodStore(db), Current,
         NEW s \in Sessions, Begin(s) \/ Step(s)
  PROVE  GoodStore(db)' /\ Current'
<1> DEFINE d == run[s].doc
<1>t. /\ db \in Store /\ run[s] \in Run /\ setting \in Versions /\ up \in BOOLEAN
  BY DEF TypeOK
<1>1. ASSUME UNCHANGED <<db, setting, up>> PROVE GoodStore(db)' /\ Current'
  BY <1>1, StoreUntouched
<1>2. CASE Begin(s)
  BY <1>1, <1>2 DEF Begin, StartUpload, StartList, StartClear, StartReindex,
     StartDelete, Boot, RebuildContext
<1>3. CASE Ingest(s)
  <2>1. d \in Docs
    BY <1>3 DEF Ingest, RunShape, At
  <2>2. db.status[d] = Absent
    BY <1>3, <2>1 DEF Ingest, IsDuplicate, Present
  <2>3. PICK count \in ChunkIds : db' = AddChunks(AddDocument(db, d), d, count)
    BY <1>3 DEF Ingest
  <2>4. GoodStore(db')
    BY <2>1, <2>2, <2>3, AddDocumentGood
  <2>5. \A e \in Docs : db'.status[e] = "indexed" =>
                       db.status[e] = "indexed" /\ db'.version[e] = db.version[e]
    BY <1>t, <2>1, <2>3 DEF AddChunks, AddDocument, UpdateDocument, Store
  <2>6. Current'
    BY <1>3, <2>5 DEF Ingest, Current
  <2> QED
    BY <2>4, <2>6
<1>4. CASE Prepare(s)
  <2>1. d \in Docs /\ ForceReindex(s) \in BOOLEAN
    BY <1>4 DEF Prepare, RunShape, At, OwningPc, ForceReindex
  <2>2. GoodStore(db')
    BY <1>4, <2>1, PrepareGood DEF Prepare
  <2>3. \A e \in Docs : db'.status[e] = "indexed" =>
                       db.status[e] = "indexed" /\ db'.version[e] = db.version[e]
    BY <1>t, <1>4, <2>1
    DEF Prepare, PrepareForIndexing, SetStatus, ClearEmbeddings, Store
  <2>4. Current'
    BY <1>4, <2>3 DEF Prepare, Current
  <2> QED
    BY <2>2, <2>4
<1>5. CASE Persist(s)
  <2>1. d \in Docs /\ run[s].embedded \in SUBSET ChunkIds
    BY <1>t, <1>5 DEF Persist, RunShape, At, OwningPc, Run
  <2>2. GoodStore(db')
    BY <1>t, <1>5, <2>1, PersistGood DEF Persist
  <2>3. \A e \in Docs : \/ db'.version[e] = setting
                       \/ /\ db'.status[e] = db.status[e]
                          /\ db'.version[e] = db.version[e]
    BY <1>t, <1>5, <2>1 DEF Persist, PersistCompletedIndex, UpdateDocument, WithIndex,
       SyncFts, SaveEmbeddings, Store
  <2>4. Current'
    BY <1>5, <2>3 DEF Persist, Current
  <2> QED
    BY <2>2, <2>4
<1>6. CASE MarkFailed(s)
  <2>1. CASE UNCHANGED db
    BY <1>1, <1>6, <2>1 DEF MarkFailed
  <2>2. CASE d \in Present(db) /\ db' = FailDocuments(db, {d})
    <3>1. GoodStore(db')
      BY <2>2, FailDocumentsGood
    <3>2. \A e \in Docs : db'.status[e] = "indexed" =>
                         db.status[e] = "indexed" /\ db'.version[e] = db.version[e]
      BY <1>t, <2>2 DEF FailDocuments, Store
    <3>3. Current'
      BY <1>6, <3>2 DEF MarkFailed, Current
    <3> QED
      BY <3>1, <3>3
  <2> QED
    BY <1>6, <2>1, <2>2 DEF MarkFailed
<1>7. CASE ReconcileStep(s)
  <2>1. db' = Reconcile(db, run[s].seen, RecoverTransient(s), setting)
    BY <1>7 DEF ReconcileStep
  <2>2. GoodStore(db') /\ RecoverTransient(s) \in BOOLEAN
    BY <1>t, <2>1, ReconcileGood DEF RecoverTransient, Run
  <2>3. ~up => run[s].seen = {}
    BY <1>7 DEF ReconcileStep, BootFirst, At
  <2>4. \A e \in Docs : db'.status[e] = "indexed" => db'.version[e] = setting
    BY <2>1, <2>2, <2>3, ReconcileGood DEF Current
  <2>5. Current'
    BY <1>7, <2>4 DEF ReconcileStep, Current
  <2> QED
    BY <2>2, <2>5
<1>8. CASE Delete(s)
  <2>1. d \in Docs /\ db' = DeleteDocument(DeleteForDocument(db, d), d)
    BY <1>8 DEF Delete, RunShape, At
  <2>2. GoodStore(db')
    BY <2>1, DeleteDocumentGood
  <2>3. \A e \in Docs : db'.status[e] = "indexed" =>
                       db.status[e] = "indexed" /\ db'.version[e] = db.version[e]
    BY <1>t, <2>1 DEF DeleteDocument, DeleteForDocument, Store, Absent
  <2>4. Current'
    BY <1>8, <2>3 DEF Delete, Current
  <2> QED
    BY <2>2, <2>4
<1>9. CASE Clear(s)
  <2>1. GoodStore(db')
    BY <1>9, EmptyStoreGood DEF Clear, ClearAll
  <2>2. Current'
    BY <1>9 DEF Clear, ClearAll, EmptyStore, Current, Absent
  <2> QED
    BY <2>1, <2>2
<1>10. CASE UploadStep(s) /\ ~Ingest(s)
  BY <1>1, <1>10 DEF UploadStep, SaveUpload, SaveUploadFails, IngestDuplicate,
     IngestFails, IngestInterrupted, DiscardUpload, ReleaseUpload
<1>11. CASE IndexStep(s) /\ ~Prepare(s) /\ ~Persist(s) /\ ~MarkFailed(s)
  BY <1>1, <1>11 DEF IndexStep, ClaimUploaded, IndexingNotStarted, PrepareFails,
     Unclaim, EmbedBatch, EmbedFails, PersistFails, FinishIndexing
<1>12. CASE ReconcilingStep(s) /\ ~ReconcileStep(s)
  BY <1>1, <1>12 DEF ReconcilingStep, SnapDocuments, SnapPipeline, ReconcileFails
<1>13. CASE DeletionStep(s) /\ ~Delete(s) /\ ~Clear(s)
  BY <1>1, <1>13 DEF DeletionStep, DeleteFails, ClearFails, Unlink, UnlinkDone
<1> QED
  BY <1>2, <1>3, <1>4, <1>5, <1>6, <1>7, <1>8, <1>9, <1>10, <1>11, <1>12, <1>13
  DEF Step, UploadStep, IndexStep, ReconcilingStep, DeletionStep

(* While the bootstrap runs, nothing else begins and it sees no owner.      *)
LEMMA ThreadBootFirst ==
  ASSUME TypeOK, RunShape, OwnershipMatchesWork, BootFirst,
         NEW s \in Sessions, Begin(s) \/ Step(s)
  PROVE  BootFirst'
<1> SUFFICES ASSUME ~up' PROVE BootFirst'
  BY DEF BootFirst
<1>r. run[s] \in Run
  BY DEF TypeOK
<1>u. ~up
  BY DEF TypeOK, Begin, StartUpload, StartList, StartClear, StartReindex,
     StartDelete, Boot, RebuildContext, Step,
     UploadStep, SaveUpload, SaveUploadFails, Ingest, IngestDuplicate, IngestFails,
     IngestInterrupted, DiscardUpload, ReleaseUpload,
     IndexStep, ClaimUploaded, IndexingNotStarted, Prepare, PrepareFails, Unclaim,
     EmbedBatch, EmbedFails, Persist, PersistFails, MarkFailed, FinishIndexing,
     ReconcilingStep, SnapDocuments, SnapPipeline, ReconcileStep, ReconcileFails,
     DeletionStep, Delete, DeleteFails, Clear, ClearFails, Unlink, UnlinkDone
<1>i. ~At(s, "idle") => run[s].op = "boot" /\ run[s].pc \in ReconcilingPc
                        /\ run[s].seen = {}
  BY <1>u DEF BootFirst
<1>o. \A t \in Sessions \ {s} : ~At(t, "idle") =>
        run[t].op = "boot" /\ run[t].pc \in ReconcilingPc /\ run[t].seen = {}
  BY <1>u DEF BootFirst
<1>1. CASE Boot(s)
  <2> DEFINE next == [IdleRun EXCEPT !.op = "boot", !.doc = NoDoc, !.pc = "snap_documents"]
  <2>1. run' = [run EXCEPT ![s] = next]
    BY <1>1 DEF Boot, Start
  <2>2. next.op = "boot" /\ next.pc = "snap_documents" /\ next.seen = {}
    BY DEF IdleRun
  <2> HIDE DEF next
  <2> QED
    BY <1>o, <2>1, <2>2 DEF BootFirst, At, ReconcilingPc, TypeOK
<1>2. CASE SnapDocuments(s)
  <2>1. ActiveDocuments(reg) = {}
    <3> SUFFICES ASSUME NEW d \in Docs, reg.document[d] # Nobody PROVE FALSE
      BY DEF ActiveDocuments
    <3>1. PICK t \in Sessions : reg.document[d] = t
      BY DEF TypeOK, Registry
    <3>2. run[t].pc \in OwningPc
      BY <3>1 DEF OwnershipMatchesWork
    <3> QED
      BY <1>u, <3>2 DEF BootFirst, At, OwningPc, ReconcilingPc
  <2> DEFINE next == [run[s] EXCEPT !.pc = "snap_pipeline", !.seen = {}]
  <2>2. next.op = "boot" /\ next.pc = "snap_pipeline" /\ next.seen = {}
    BY <1>r, <1>i, <1>2 DEF SnapDocuments, At, Run
  <2>3. run' = [run EXCEPT ![s] = next]
    BY <1>2, <2>1 DEF SnapDocuments
  <2> HIDE DEF next
  <2> QED
    BY <1>o, <2>2, <2>3 DEF BootFirst, At, ReconcilingPc, TypeOK
<1>3. CASE SnapPipeline(s)
  <2> DEFINE next == [run[s] EXCEPT !.pc = "reconcile",
                                    !.seenPipeline = PipelineIsActive(reg)]
  <2>1. next.op = "boot" /\ next.pc = "reconcile" /\ next.seen = {}
    BY <1>r, <1>i, <1>3 DEF SnapPipeline, At, Run
  <2>2. run' = [run EXCEPT ![s] = next]
    BY <1>3 DEF SnapPipeline
  <2> HIDE DEF next
  <2> QED
    BY <1>o, <2>1, <2>2 DEF BootFirst, At, ReconcilingPc, TypeOK
<1>4. CASE ReconcileStep(s) \/ ReconcileFails(s)
  <2>1. run' = [run EXCEPT ![s] = IdleRun]
    BY <1>i, <1>4 DEF ReconcileStep, ReconcileFails, Leave, At
  <2>2. IdleRun.pc = "idle"
    BY DEF IdleRun
  <2> QED
    BY <1>o, <2>1, <2>2 DEF BootFirst, At, TypeOK
<1>5. CASE Begin(s) /\ ~Boot(s)
  BY <1>u, <1>5 DEF Begin, StartUpload, StartList, StartClear, StartReindex,
     StartDelete, RebuildContext
<1>6. CASE UploadStep(s)
  BY <1>i, <1>6 DEF ReconcilingPc, At, UploadStep, SaveUpload, SaveUploadFails, Ingest,
     IngestDuplicate, IngestFails, IngestInterrupted, DiscardUpload, ReleaseUpload
<1>7. CASE IndexStep(s)
  BY <1>i, <1>7 DEF ReconcilingPc, At, IndexStep, ClaimUploaded, IndexingNotStarted,
     Prepare, PrepareFails, Unclaim, EmbedBatch, EmbedFails, Persist, PersistFails,
     MarkFailed, FinishIndexing
<1>8. CASE DeletionStep(s)
  BY <1>i, <1>8 DEF ReconcilingPc, At, DeletionStep, Delete, DeleteFails, Clear,
     ClearFails, Unlink, UnlinkDone
<1> QED
  BY <1>1, <1>2, <1>3, <1>4, <1>5, <1>6, <1>7, <1>8 DEF Step, ReconcilingStep

Sound == GoodStore(db) /\ Current /\ BootFirst

(* Every step keeps the store sound.                                        *)
LEMMA NextSound == Owned /\ Sound /\ [Next]_vars => Sound'
<1> SUFFICES ASSUME Owned, Sound, [Next]_vars PROVE Sound'
  OBVIOUS
<1> USE DEF Owned, Sound
<1>1. ASSUME NEW s \in Sessions, Begin(s) \/ Step(s) PROVE Sound'
  BY <1>1, ThreadSound, ThreadBootFirst
<1>2. ASSUME NEW d \in Docs, ClearEmbeddingsOf(d) PROVE Sound'
  <2> DEFINE new == UpdateDocument(ClearEmbeddings(db, d), d, "pending_embedding", NoVersion)
  <2>1. db \in Store /\ d \in Present(db) /\ db' = new
    BY <1>2 DEF ClearEmbeddingsOf, TypeOK
  <2>2. new \in Store
    BY <2>1, ClearEmbeddingsType, UpdateDocumentType DEF DocumentStatus
  <2>3. /\ new.chunks[d] = db.chunks[d] /\ new.vector[d] = NoVectors
        /\ new.fts[d] = {} /\ new.status[d] = "pending_embedding"
        /\ new.version[d] = NoVersion
        /\ \A e \in Docs \ {d} : SameRow(db, new, e)
    BY <2>1 DEF UpdateDocument, ClearEmbeddings, SameRow, Store
  <2>4. GoodStore(new)
    <3> HIDE DEF new
    <3> QED
      BY <2>1, <2>2, <2>3, ClearedRowGood
  <2>5. Current'
    BY <1>2, <2>1, <2>3 DEF ClearEmbeddingsOf, Current, SameRow
  <2>6. BootFirst'
    BY <1>2 DEF ClearEmbeddingsOf, BootFirst, At
  <2> QED
    BY <2>1, <2>4, <2>5, <2>6
<1>3. CASE PrepareCommand
  <2>1. db' = Reconcile(db, {}, TRUE, setting)
    BY <1>3 DEF PrepareCommand
  <2>2. /\ GoodStore(db')
        /\ \A d \in Docs : db'.status[d] = "indexed" => db'.version[d] = setting
    <3> DEFINE failed == ToRecover(db, {}, TRUE, setting)
    <3>1. db' = FailDocuments(db, failed)
      BY <2>1 DEF Reconcile
    <3>2. failed \in SUBSET Present(db)
      BY DEF ToRecover
    <3>3. \A d \in Docs : db.status[d] = "indexed" /\ d \notin failed
                         => db.version[d] = setting
      BY DEF ToRecover, Present, Absent, ProvenReady
    <3> HIDE DEF failed
    <3>4. GoodStore(db')
      BY <3>1, <3>2, FailDocumentsGood
    <3>5. \A d \in Docs : db'.status[d] = "indexed" =>
            d \notin failed /\ db.status[d] = "indexed" /\ db'.version[d] = db.version[d]
      BY <3>1 DEF FailDocuments, GoodStore, Store
    <3> QED
      BY <3>3, <3>4, <3>5
  <2>3. Current'
    BY <1>3, <2>2 DEF PrepareCommand, Current
  <2>4. BootFirst'
    BY <1>3 DEF PrepareCommand, BootFirst, At
  <2> QED
    BY <2>2, <2>3, <2>4
<1>4. CASE Crash
  <2>1. db' = db /\ up' = FALSE
    BY <1>4 DEF Crash
  <2>2. GoodStore(db')
    BY <2>1
  <2>3. Current'
    BY <2>1 DEF Current
  <2>4. BootFirst'
    BY <1>4 DEF Crash, BootFirst, IdleRun, At
  <2> QED
    BY <2>2, <2>3, <2>4
<1>5. CASE UNCHANGED vars
  BY <1>5 DEF vars, Current, BootFirst, At
<1> QED
  BY <1>1, <1>2, <1>3, <1>4, <1>5 DEF Next, Outside

(* The store is sound in every behaviour. *)
LEMMA SoundAlways == Spec => []Sound
<1>1. Init => Sound
  BY EmptyStoreGood DEF Init, Sound, Current, BootFirst, IdleRun, At
<1>2. Owned /\ Sound /\ [Next]_vars => Sound'
  BY NextSound
<1> QED
  BY <1>1, <1>2, OwnedAlways, PTL DEF Spec

(* A row is marked indexed only with a complete index, of the version in     *)
(* force once the bootstrap has committed, in every behaviour.              *)
THEOREM ReadyProven == Spec => []ReadyIsComplete
<1>1. Owned /\ Sound => ReadyIsComplete
  BY StoreInvariants DEF Owned, Sound, TypeOK
<1> QED
  BY <1>1, OwnedAlways, SoundAlways, PTL

(* No failure, race or restart leaves a vector or an FTS row behind outside  *)
(* a Ready row, in every behaviour.                                         *)
THEOREM NoPartialIndex == Spec => []NothingPartial
<1>1. Owned /\ Sound => NothingPartial
  BY StoreInvariants DEF Owned, Sound, TypeOK
<1> QED
  BY <1>1, OwnedAlways, SoundAlways, PTL

-----------------------------------------------------------------------------
(* Managed copies.                                                         *)

Copies == CopyShape /\ RowHasCopy /\ OneContentOneDocument

(* A thread that moves on, with the same rows and the same files.           *)
LEMMA CopiesKept ==
  ASSUME TypeOK, Copies, NEW s \in Sessions, NEW next \in Run,
         run' = [run EXCEPT ![s] = next],
         UNCHANGED <<files, used>>, Present(db') = Present(db),
         next.pc = "ingest" => run[s].pc = "ingest" /\ next.doc = run[s].doc,
         next.pc \in {"discard", "discard_duplicate"} =>
           /\ run[s].pc \in {"ingest", "discard", "discard_duplicate"}
           /\ next.doc = run[s].doc,
         next.doc \in used \cup {NoDoc}, next.unlink \subseteq run[s].unlink
  PROVE  Copies'
<1>1. /\ run'[s] = next /\ \A t \in Sessions \ {s} : run'[t] = run[t]
      /\ \A t \in Sessions : run'[t].unlink \subseteq run[t].unlink
  BY DEF TypeOK
<1>2. CopyShape'
  <2>1. \A t \in Sessions :
          /\ run'[t].pc = "ingest" => run[t].pc = "ingest" /\ run'[t].doc = run[t].doc
          /\ run'[t].pc \in {"discard", "discard_duplicate"} =>
               run'[t].doc \notin Present(db)
          /\ run'[t].doc \in used \cup {NoDoc}
    BY <1>1 DEF Copies, CopyShape, At
  <2> QED
    BY <1>1, <2>1 DEF Copies, CopyShape, At
<1>3. RowHasCopy' /\ OneContentOneDocument'
  BY DEF Copies, RowHasCopy, OneContentOneDocument
<1> QED
  BY <1>2, <1>3 DEF Copies

(* Beside a thread that uploads no other thread does.                       *)
LEMMA OnlyUpload ==
  ASSUME RunShape, OwnershipMatchesWork, NEW s \in Sessions, run[s].op = "upload"
  PROVE  \A t \in Sessions \ {s} :
           run[t].pc \notin {"ingest", "discard", "discard_duplicate"}
BY DEF OwnershipMatchesWork, RunShape

(* Rows that are only rewritten stay the same rows.                         *)
LEMMA RowsKept ==
  ASSUME NEW store \in Store
  PROVE  /\ \A failed : failed \subseteq Present(store) =>
              Present(FailDocuments(store, failed)) = Present(store)
         /\ \A d \in Present(store) : \A force \in BOOLEAN :
              Present(PrepareForIndexing(store, d, force)) = Present(store)
         /\ \A d \in Present(store) : \A saved, version :
              Present(PersistCompletedIndex(store, d, saved, version)) = Present(store)
         /\ \A d \in Present(store) :
              Present(UpdateDocument(ClearEmbeddings(store, d), d,
                                     "pending_embedding", NoVersion)) = Present(store)
<1>1. ASSUME NEW failed, failed \subseteq Present(store)
      PROVE  Present(FailDocuments(store, failed)) = Present(store)
  BY <1>1 DEF Present, FailDocuments, Store, Absent
<1>2. ASSUME NEW d \in Present(store), NEW force \in BOOLEAN
      PROVE  Present(PrepareForIndexing(store, d, force)) = Present(store)
  BY DEF Present, PrepareForIndexing, SetStatus, ClearEmbeddings, Store, Absent
<1>3. ASSUME NEW d \in Present(store), NEW saved, NEW version
      PROVE  Present(PersistCompletedIndex(store, d, saved, version)) = Present(store)
  BY DEF Present, PersistCompletedIndex, UpdateDocument, WithIndex, SyncFts,
     SaveEmbeddings, Store, Absent
<1>4. ASSUME NEW d \in Present(store)
      PROVE  Present(UpdateDocument(ClearEmbeddings(store, d), d,
                                    "pending_embedding", NoVersion)) = Present(store)
  BY DEF Present, UpdateDocument, ClearEmbeddings, Store, Absent
<1> QED
  BY <1>1, <1>2, <1>3, <1>4

(* Every step of a thread keeps rows and copies in agreement.               *)
LEMMA ThreadCopies ==
  ASSUME TypeOK, RunShape, OwnershipMatchesWork, Copies,
         NEW s \in Sessions, Begin(s) \/ Step(s)
  PROVE  Copies'
<1> DEFINE d == run[s].doc
<1>t. /\ db \in Store /\ run[s] \in Run /\ run \in [Sessions -> Run]
      /\ files \subseteq Docs /\ used \subseteq Docs
  BY DEF TypeOK
<1>d. d \in used \cup {NoDoc}
  BY DEF Copies, CopyShape
<1>1. ASSUME NEW pc \in Pc \ {"ingest"}, Goto(s, pc),
             UNCHANGED <<files, used>>, Present(db') = Present(db),
             pc \in {"discard", "discard_duplicate"} => run[s].pc = "ingest"
      PROVE  Copies'
  <2> DEFINE next == [run[s] EXCEPT !.pc = pc]
  <2>1. /\ next \in Run /\ next.pc = pc /\ next.doc = d
        /\ next.unlink = run[s].unlink
    BY <1>t DEF Run
  <2>2. run' = [run EXCEPT ![s] = next]
    BY <1>1 DEF Goto
  <2> HIDE DEF next
  <2> QED
    BY <1>1, <1>d, <2>1, <2>2, CopiesKept
<1>2. ASSUME Leave(s), ~At(s, "idle"), UNCHANGED <<files, used>>,
             Present(db') = Present(db)
      PROVE  Copies'
  <2>1. PICK next \in Run :
          /\ run' = [run EXCEPT ![s] = next]
          /\ next.pc \in {"idle", "release_pipeline"}
          /\ next.doc \in {d, NoDoc} /\ next.unlink \subseteq run[s].unlink
    BY <1>2, LeaveTo
  <2> QED
    BY <1>2, <1>d, <2>1, CopiesKept
<1>3. ASSUME NEW op \in Operations, NEW e \in used \cup {NoDoc},
             NEW pc \in Pc \ {"ingest", "discard", "discard_duplicate"},
             Start(s, op, e, pc), UNCHANGED <<db, files, used>>
      PROVE  Copies'
  <2> DEFINE next == [IdleRun EXCEPT !.op = op, !.doc = e, !.pc = pc]
  <2>1. next \in Run /\ next.pc = pc /\ next.doc = e /\ next.unlink = {}
    BY <1>t DEF IdleRun, Run
  <2>2. run' = [run EXCEPT ![s] = next] /\ Present(db') = Present(db)
    BY <1>3 DEF Start
  <2> HIDE DEF next
  <2> QED
    BY <1>3, <2>1, <2>2, CopiesKept
<1> USE DEF Pc, Operations
<1>4. CASE Begin(s)
  BY <1>4, <1>3 DEF Begin, StartUpload, StartList, StartClear, StartReindex,
     StartDelete, Boot, RebuildContext
<1>5. CASE SaveUpload(s)
  <2>1. PICK e \in Docs \ used :
          /\ used' = used \cup {e} /\ files' = files \cup {e} /\ db' = db
          /\ run' = [run EXCEPT ![s].pc = "ingest", ![s].doc = e]
    BY <1>5 DEF SaveUpload
  <2>2. /\ run'[s].pc = "ingest" /\ run'[s].doc = e /\ run'[s].unlink = run[s].unlink
        /\ \A t \in Sessions \ {s} : run'[t] = run[t]
    BY <1>t, <2>1 DEF Run
  <2>3. e \notin Present(db) /\ \A t \in Sessions : e \notin run[t].unlink
    BY <2>1 DEF Copies, CopyShape
  <2>4. run[s].op = "upload"
    BY <1>5 DEF SaveUpload, At, RunShape
  <2>5. \A t \in Sessions \ {s} :
          run[t].pc \notin {"ingest", "discard", "discard_duplicate"}
    BY <2>4, OnlyUpload
  <2>6. used \subseteq used' /\ files \subseteq files' /\ e \in used' /\ e \in files'
    BY <2>1
  <2>7. \A t \in Sessions : run'[t].unlink = run[t].unlink
    BY <2>2
  <2>8. CopyShape'
    <3>1. \A t \in Sessions : run'[t].pc = "ingest" => t = s
      BY <2>2, <2>5
    <3>2. \A t \in Sessions : run'[t].pc \in {"discard", "discard_duplicate"} => FALSE
      BY <2>2, <2>5
    <3>3. \A t \in Sessions : run'[t].doc \in used' \cup {NoDoc}
      BY <2>2, <2>6 DEF Copies, CopyShape
    <3> QED
      BY <2>1, <2>2, <2>3, <2>6, <2>7, <3>1, <3>2, <3>3, ZenonT(60) DEF Copies, CopyShape, At
  <2>9. RowHasCopy' /\ OneContentOneDocument'
    BY <2>1, <2>6 DEF Copies, RowHasCopy, OneContentOneDocument
  <2> QED
    BY <2>8, <2>9 DEF Copies
<1>6. CASE SaveUploadFails(s)
  <2>1. CASE UNCHANGED <<files, used>>
    BY <1>2, <1>6, <2>1 DEF SaveUploadFails, At
  <2>2. CASE \E e \in Docs \ used : used' = used \cup {e} /\ files' = files \cup {e}
    <3>1. used \subseteq used' /\ files \subseteq files' /\ db' = db
      BY <1>6, <2>2 DEF SaveUploadFails
    <3>2. PICK next \in Run :
            /\ run' = [run EXCEPT ![s] = next]
            /\ next.pc \in {"idle", "release_pipeline"}
            /\ next.doc \in {d, NoDoc} /\ next.unlink \subseteq run[s].unlink
      BY <1>6, LeaveTo DEF SaveUploadFails, At
    <3>3. run'[s] = next /\ \A t \in Sessions \ {s} : run'[t] = run[t]
      BY <1>t, <3>2
    <3> QED
      BY <1>d, <3>1, <3>2, <3>3
      DEF Copies, CopyShape, RowHasCopy, OneContentOneDocument, At
  <2> QED
    BY <1>6, <2>1, <2>2 DEF SaveUploadFails
<1>7. CASE Ingest(s)
  <2>1. PICK count \in ChunkIds : db' = AddChunks(AddDocument(db, d), d, count)
    BY <1>7 DEF Ingest
  <2>2. /\ d \in Docs /\ d \in files \ Present(db) /\ d \in used
        /\ \A t \in Sessions : d \notin run[t].unlink
    BY <1>7, NoDocAssumption DEF Ingest, RunShape, At, Copies, CopyShape
  <2>3. Present(db') = Present(db) \cup {d}
    BY <1>t, <2>1, <2>2 DEF Present, AddChunks, AddDocument, UpdateDocument, Store, Absent
  <2>4. /\ run'[s] = [run[s] EXCEPT !.pc = "index"]
        /\ \A t \in Sessions \ {s} : run'[t] = run[t]
        /\ UNCHANGED <<files, used>>
    BY <1>t, <1>7 DEF Ingest, Goto
  <2>5. /\ run'[s].pc = "index" /\ run'[s].doc = d /\ run'[s].unlink = run[s].unlink
    BY <1>t, <2>4 DEF Run
  <2>6. \A t \in Sessions \ {s} :
          run[t].pc \notin {"ingest", "discard", "discard_duplicate"}
    BY <1>7, OnlyUpload DEF Ingest, At, RunShape
  <2>7. \A e \in Present(db) : ContentOf[e] # ContentOf[d]
    BY <1>7 DEF Ingest, IsDuplicate
  <2>8. CopyShape'
    BY <2>2, <2>3, <2>4, <2>5, <2>6, ZenonT(60) DEF Copies, CopyShape, At
  <2>9. RowHasCopy' /\ OneContentOneDocument'
    BY <2>2, <2>3, <2>4, <2>7 DEF Copies, RowHasCopy, OneContentOneDocument
  <2> QED
    BY <2>8, <2>9 DEF Copies
<1>8. CASE IngestDuplicate(s) \/ IngestFails(s) \/ IngestInterrupted(s)
  BY <1>1, <1>2, <1>8 DEF IngestDuplicate, IngestFails, IngestInterrupted, At
<1>9. CASE DiscardUpload(s)
  <2>1. d \notin Present(db)
    BY <1>9 DEF DiscardUpload, Copies, CopyShape
  <2>2. \A t \in Sessions \ {s} :
          run[t].pc \notin {"ingest", "discard", "discard_duplicate"}
    BY <1>9, OnlyUpload DEF DiscardUpload, RunShape
  <2>3. /\ files \ {d} \subseteq files' /\ UNCHANGED <<db, used>>
    BY <1>9 DEF DiscardUpload
  <2>4. /\ run'[s].pc \notin {"ingest", "discard", "discard_duplicate"}
        /\ run'[s].doc \in {d, NoDoc} /\ run'[s].unlink \subseteq run[s].unlink
        /\ \A t \in Sessions \ {s} : run'[t] = run[t]
    <3>1. CASE Goto(s, "snap_documents")
      BY <1>t, <3>1 DEF Goto, Run
    <3>2. CASE Leave(s)
      BY <1>t, <1>9, <3>2, LeaveTo DEF DiscardUpload, At
    <3> QED
      BY <1>9, <3>1, <3>2 DEF DiscardUpload
  <2> QED
    BY <1>d, <2>1, <2>2, <2>3, <2>4
    DEF Copies, CopyShape, RowHasCopy, OneContentOneDocument, At
<1>10. CASE ReleaseUpload(s)
  <2>1. IdleRun.pc = "idle" /\ IdleRun.doc = NoDoc /\ IdleRun.unlink = {}
    BY DEF IdleRun
  <2>2. run' = [run EXCEPT ![s] = IdleRun] /\ UNCHANGED <<db, files, used>>
    BY <1>10 DEF ReleaseUpload
  <2> QED
    BY <2>1, <2>2, IdleRunType, CopiesKept
<1>11. CASE Prepare(s)
  <2> DEFINE next == [run[s] EXCEPT !.pc = "embed", !.planned = db.chunks[d]]
  <2>1. d \in Present(db) /\ ForceReindex(s) \in BOOLEAN
    BY <1>11 DEF Prepare, RunShape, At, OwningPc, ReadyToIndex, Present, Absent,
       ForceReindex
  <2>2. Present(db') = Present(db) /\ UNCHANGED <<files, used>>
    BY <1>t, <1>11, <2>1, RowsKept DEF Prepare
  <2>3. db.chunks[d] \in SUBSET ChunkIds
    BY <1>t, <2>1 DEF Store, Present
  <2>4. /\ next \in Run /\ next.pc = "embed" /\ next.doc = d
        /\ next.unlink = run[s].unlink
    BY <1>t, <2>3 DEF Run
  <2>5. run' = [run EXCEPT ![s] = next]
    BY <1>11 DEF Prepare
  <2> HIDE DEF next
  <2> QED
    BY <1>d, <2>2, <2>4, <2>5, CopiesKept
<1>12. CASE EmbedBatch(s)
  <2> DEFINE next == [run[s] EXCEPT !.embedded = NextBatch(run[s].planned, @)]
  <2>1. NextBatch(run[s].planned, run[s].embedded) \in SUBSET ChunkIds
    BY <1>t DEF NextBatch, Run
  <2>2. /\ next \in Run /\ next.pc = "embed" /\ next.doc = d
        /\ next.unlink = run[s].unlink
    BY <1>t, <1>12, <2>1 DEF EmbedBatch, At, Run
  <2>3. run' = [run EXCEPT ![s] = next] /\ UNCHANGED <<db, files, used>>
    BY <1>12 DEF EmbedBatch
  <2> HIDE DEF next
  <2> QED
    BY <1>d, <2>2, <2>3, CopiesKept
<1>13. CASE Persist(s)
  <2>1. d \in Present(db)
    BY <1>13 DEF Persist, CanPersist, RunShape, At, OwningPc, Present, Absent
  <2>2. Present(db') = Present(db)
    BY <1>t, <1>13, <2>1, RowsKept DEF Persist
  <2> QED
    BY <1>1, <1>13, <2>2 DEF Persist
<1>14. CASE MarkFailed(s)
  <2>1. Present(db') = Present(db)
    BY <1>t, <1>14, RowsKept DEF MarkFailed
  <2> QED
    BY <1>2, <1>14, <2>1 DEF MarkFailed, At
<1>15. CASE ClaimUploaded(s) \/ IndexingNotStarted(s) \/ PrepareFails(s) \/ Unclaim(s)
            \/ EmbedFails(s) \/ PersistFails(s) \/ FinishIndexing(s)
  BY <1>1, <1>2, <1>15 DEF ClaimUploaded, IndexingNotStarted, PrepareFails, Unclaim,
     EmbedFails, PersistFails, FinishIndexing, At
<1>16. CASE SnapDocuments(s)
  <2> DEFINE next == [run[s] EXCEPT !.pc = "snap_pipeline", !.seen = ActiveDocuments(reg)]
  <2>1. ActiveDocuments(reg) \in SUBSET Docs
    BY DEF ActiveDocuments
  <2>2. /\ next \in Run /\ next.pc = "snap_pipeline" /\ next.doc = d
        /\ next.unlink = run[s].unlink
    BY <1>t, <2>1 DEF Run
  <2>3. run' = [run EXCEPT ![s] = next] /\ UNCHANGED <<db, files, used>>
    BY <1>16 DEF SnapDocuments
  <2> HIDE DEF next
  <2> QED
    BY <1>d, <2>2, <2>3, CopiesKept
<1>17. CASE SnapPipeline(s)
  <2> DEFINE next == [run[s] EXCEPT !.pc = "reconcile",
                                    !.seenPipeline = PipelineIsActive(reg)]
  <2>1. PipelineIsActive(reg) \in BOOLEAN
    BY DEF PipelineIsActive
  <2>2. /\ next \in Run /\ next.pc = "reconcile" /\ next.doc = d
        /\ next.unlink = run[s].unlink
    BY <1>t, <2>1 DEF Run
  <2>3. run' = [run EXCEPT ![s] = next] /\ UNCHANGED <<db, files, used>>
    BY <1>17 DEF SnapPipeline
  <2> HIDE DEF next
  <2> QED
    BY <1>d, <2>2, <2>3, CopiesKept
<1>18. CASE ReconcileStep(s)
  <2>1. Present(db') = Present(db)
    BY <1>t, <1>18, RowsKept DEF ReconcileStep, Reconcile, ToRecover
  <2> QED
    BY <1>2, <1>18, <2>1 DEF ReconcileStep, At
<1>19. CASE ReconcileFails(s) \/ DeleteFails(s) \/ ClearFails(s) \/ UnlinkDone(s)
  BY <1>2, <1>19 DEF ReconcileFails, DeleteFails, ClearFails, UnlinkDone, At
<1>20. CASE Delete(s) \/ Clear(s)
  <2>1. PICK removed \in SUBSET Present(db) :
          /\ Present(db') = Present(db) \ removed /\ UNCHANGED <<files, used>>
          /\ run' = [run EXCEPT ![s].pc = "unlink", ![s].unlink = removed]
    <3>1. CASE Delete(s)
      <4>1. Present(db') = Present(db) \ {d}
        BY <1>t, <3>1 DEF Delete, Present, DeleteDocument, DeleteForDocument, Store, Absent
      <4> QED
        BY <3>1, <4>1 DEF Delete
    <3>2. CASE Clear(s)
      <4>1. Present(db') = {}
        BY <3>2 DEF Clear, Present, ClearAll, EmptyStore, Absent
      <4> QED
        BY <3>2, <4>1 DEF Clear
    <3> QED
      BY <1>20, <3>1, <3>2
  <2>2. /\ run'[s].pc = "unlink" /\ run'[s].doc = d /\ run'[s].unlink = removed
        /\ \A t \in Sessions \ {s} : run'[t] = run[t]
    BY <1>t, <2>1 DEF Run
  <2>3. CopyShape'
    <3>1. \A t \in Sessions : /\ run'[t].pc = run[t].pc \/ run'[t].pc = "unlink"
                            /\ run'[t].doc = run[t].doc
                            /\ \/ run'[t].unlink = run[t].unlink
                               \/ run'[t].unlink = removed
      BY <2>2
    <3>2. removed \subseteq used /\ Present(db') \subseteq used'
      BY <2>1 DEF Copies, CopyShape
    <3>3. \A t \in Sessions : run'[t].unlink \subseteq used' \ Present(db')
      BY <2>1, <3>1, <3>2 DEF Copies, CopyShape
    <3>4. \A t, u \in Sessions : run'[t].pc = "ingest" => run'[t].doc \notin run'[u].unlink
      BY <2>1, <3>1 DEF Copies, CopyShape, At
    <3>5. \A t \in Sessions :
            /\ run'[t].pc = "ingest" => run'[t].doc \in files' \ Present(db')
            /\ run'[t].pc \in {"discard", "discard_duplicate"} =>
                 run'[t].doc \notin Present(db')
            /\ run'[t].doc \in used' \cup {NoDoc}
      <4>1. \A t \in Sessions :
              /\ run[t].pc = "ingest" => run[t].doc \in files \ Present(db)
              /\ run[t].pc \in {"discard", "discard_duplicate"} =>
                   run[t].doc \notin Present(db)
              /\ run[t].doc \in used \cup {NoDoc}
        BY DEF Copies, CopyShape, At
      <4>2. Present(db') \subseteq Present(db) /\ files' = files /\ used' = used
        BY <2>1
      <4> QED
        BY <3>1, <4>1, <4>2
    <3> QED
      BY <3>2, <3>3, <3>4, <3>5 DEF CopyShape, At
  <2>4. RowHasCopy' /\ OneContentOneDocument'
    BY <2>1 DEF Copies, RowHasCopy, OneContentOneDocument
  <2> QED
    BY <2>3, <2>4 DEF Copies
<1>21. CASE Unlink(s)
  <2>1. PICK e \in run[s].unlink :
          /\ files \ {e} \subseteq files' /\ UNCHANGED <<db, used>>
          /\ run' = [run EXCEPT ![s].unlink = @ \ {e}]
    BY <1>21 DEF Unlink
  <2>2. e \notin Present(db) /\ \A t \in Sessions : At(t, "ingest") => e # run[t].doc
    BY DEF Copies, CopyShape
  <2>3. /\ run'[s].pc = run[s].pc /\ run'[s].doc = d
        /\ run'[s].unlink = run[s].unlink \ {e}
        /\ \A t \in Sessions \ {s} : run'[t] = run[t]
    BY <1>t, <2>1 DEF Run
  <2>4. CopyShape'
    <3>1. \A t \in Sessions : /\ run'[t].pc = run[t].pc /\ run'[t].doc = run[t].doc
                            /\ run'[t].unlink \subseteq run[t].unlink
      BY <2>3
    <3> QED
      BY <2>1, <2>2, <3>1 DEF Copies, CopyShape, At
  <2>5. RowHasCopy' /\ OneContentOneDocument'
    BY <2>1, <2>2 DEF Copies, RowHasCopy, OneContentOneDocument
  <2> QED
    BY <2>4, <2>5 DEF Copies
<1>22. CASE UploadStep(s)
  BY <1>5, <1>6, <1>7, <1>8, <1>9, <1>10, <1>22 DEF UploadStep
<1>23. CASE IndexStep(s)
  BY <1>11, <1>12, <1>13, <1>14, <1>15, <1>23 DEF IndexStep
<1>24. CASE ReconcilingStep(s)
  BY <1>16, <1>17, <1>18, <1>19, <1>24 DEF ReconcilingStep
<1>25. CASE DeletionStep(s)
  BY <1>19, <1>20, <1>21, <1>25 DEF DeletionStep
<1> QED
  BY <1>4, <1>22, <1>23, <1>24, <1>25 DEF Step

(* Every step keeps rows and copies in agreement.                           *)
LEMMA NextCopies == Owned /\ Copies /\ [Next]_vars => Copies'
<1> SUFFICES ASSUME Owned, Copies, [Next]_vars PROVE Copies'
  OBVIOUS
<1> USE DEF Owned
<1>1. ASSUME NEW s \in Sessions, Begin(s) \/ Step(s) PROVE Copies'
  BY <1>1, ThreadCopies
<1>2. ASSUME Present(db') = Present(db), UNCHANGED <<files, used, run>> PROVE Copies'
  BY <1>2 DEF Copies, CopyShape, RowHasCopy, OneContentOneDocument, At
<1>3. ASSUME NEW d \in Docs, ClearEmbeddingsOf(d) PROVE Copies'
  BY <1>2, <1>3, RowsKept DEF ClearEmbeddingsOf, TypeOK
<1>4. CASE PrepareCommand
  <2>1. ToRecover(db, {}, TRUE, setting) \subseteq Present(db)
    BY DEF ToRecover
  <2> QED
    BY <1>2, <1>4, <2>1, RowsKept DEF PrepareCommand, Reconcile, TypeOK
<1>5. CASE Crash
  <2>1. /\ \A s \in Sessions : run'[s].pc = "idle" /\ run'[s].doc = NoDoc
                              /\ run'[s].unlink = {}
        /\ UNCHANGED <<db, files, used>>
    BY <1>5 DEF Crash, IdleRun
  <2> QED
    BY <2>1 DEF Copies, CopyShape, RowHasCopy, OneContentOneDocument, At
<1>6. CASE UNCHANGED vars
  BY <1>2, <1>6 DEF vars
<1> QED
  BY <1>1, <1>3, <1>4, <1>5, <1>6 DEF Next, Outside

(* Rows and copies agree in every behaviour.                                *)
LEMMA CopiesAlways == Spec => []Copies
<1>1. Init => Copies
  BY DEF Init, Copies, CopyShape, RowHasCopy, OneContentOneDocument, EmptyStore,
     Present, Absent, IdleRun, At
<1> QED
  BY <1>1, NextCopies, OwnedAlways, PTL DEF Spec

(* No row ever points to a managed copy that is gone, in every behaviour.   *)
THEOREM CopyBehindEveryRow == Spec => []RowHasCopy
BY CopiesAlways, PTL DEF Copies

(* No two rows ever have the same content, in every behaviour.              *)
THEOREM NoDuplicateContent == Spec => []OneContentOneDocument
BY CopiesAlways, PTL DEF Copies

(* The whole invariant that the runs check holds in every behaviour.        *)
THEOREM InvariantHolds == Spec => []InductiveInvariant
<1>1. Owned /\ Sound /\ Copies => InductiveInvariant
  <2>1. Owned /\ Sound => NothingPartial /\ ReadyIsComplete
    BY StoreInvariants DEF Owned, Sound, TypeOK
  <2> QED
    BY <2>1 DEF Owned, Sound, Copies, InductiveInvariant
<1> QED
  BY <1>1, OwnedAlways, SoundAlways, CopiesAlways, PTL

-----------------------------------------------------------------------------
(* What a step may do to a Ready document.                                 *)

(* No step of a thread other than the final transaction publishes.          *)
LEMMA OnlyPersistPublishes ==
  ASSUME TypeOK, RunShape, NEW s \in Sessions, Begin(s) \/ Step(s), ~Persist(s),
         NEW e \in Docs, db'.status[e] = "indexed"
  PROVE  db.status[e] = "indexed"
<1> DEFINE d == run[s].doc
<1>t. db \in Store
  BY DEF TypeOK
<1>1. CASE Ingest(s)
  <2>1. d \in Docs
    BY <1>1 DEF Ingest, RunShape, At
  <2>2. PICK count \in ChunkIds : db' = AddChunks(AddDocument(db, d), d, count)
    BY <1>1 DEF Ingest
  <2>3. db'.status = [db.status EXCEPT ![d] = "pending_embedding"]
    BY <2>2 DEF AddChunks, AddDocument, UpdateDocument
  <2> QED
    BY <1>t, <2>1, <2>3 DEF Store
<1>2. CASE Prepare(s)
  <2>1. d \in Docs
    BY <1>2 DEF Prepare, RunShape, OwningPc, At
  <2>2. db' = PrepareForIndexing(db, d, ForceReindex(s))
    BY <1>2 DEF Prepare
  <2>3. db'.status = [db.status EXCEPT ![d] = "indexing"]
    BY <2>2 DEF PrepareForIndexing, SetStatus, ClearEmbeddings
  <2> QED
    BY <1>t, <2>1, <2>3 DEF Store
<1>3. CASE MarkFailed(s) \/ ReconcileStep(s)
  <2>1. CASE UNCHANGED db
    BY <2>1
  <2>2. ASSUME NEW failed, db' = FailDocuments(db, failed) PROVE db.status[e] = "indexed"
    <3>1. db'.status = [x \in Docs |-> IF x \in failed THEN "failed" ELSE db.status[x]]
      BY <2>2 DEF FailDocuments
    <3> QED
      BY <3>1
  <2> QED
    BY <1>3, <2>1, <2>2 DEF MarkFailed, ReconcileStep, Reconcile
<1>4. CASE Delete(s) \/ Clear(s)
  <2>1. CASE Delete(s)
    <3>1. db' = DeleteDocument(DeleteForDocument(db, d), d)
      BY <2>1 DEF Delete
    <3>2. db'.status = [db.status EXCEPT ![d] = Absent]
      BY <3>1 DEF DeleteDocument, DeleteForDocument
    <3> QED
      BY <1>t, <3>2 DEF Store, Absent
  <2>2. CASE Clear(s)
    BY <2>2 DEF Clear, ClearAll, EmptyStore, Absent
  <2> QED
    BY <1>4, <2>1, <2>2
<1>5. CASE UNCHANGED db
  BY <1>5
<1>6. CASE Begin(s)
  BY <1>5, <1>6 DEF Begin, StartUpload, StartList, StartClear, StartReindex,
     StartDelete, Boot, RebuildContext
<1>7. CASE UploadStep(s)
  BY <1>1, <1>5, <1>7 DEF UploadStep, SaveUpload, SaveUploadFails, IngestDuplicate,
     IngestFails, IngestInterrupted, DiscardUpload, ReleaseUpload
<1>8. CASE IndexStep(s)
  BY <1>2, <1>3, <1>5, <1>8 DEF IndexStep, ClaimUploaded, IndexingNotStarted,
     PrepareFails, Unclaim, EmbedBatch, EmbedFails, PersistFails, FinishIndexing
<1>9. CASE ReconcilingStep(s)
  BY <1>3, <1>5, <1>9 DEF ReconcilingStep, SnapDocuments, SnapPipeline, ReconcileFails
<1>10. CASE DeletionStep(s)
  BY <1>4, <1>5, <1>10 DEF DeletionStep, DeleteFails, ClearFails, Unlink, UnlinkDone
<1> QED
  BY <1>6, <1>7, <1>8, <1>9, <1>10 DEF Step

(* The final transaction publishes the document of its thread, and only it. *)
LEMMA PersistPublishes ==
  ASSUME Owned, Sound, NEW s \in Sessions, Persist(s), NEW e \in Docs, BecomesReady(e)
  PROVE  PublishedByItsOwner(e)
<1> DEFINE d == run[s].doc
<1>1. d \in Docs
  BY DEF Owned, Persist, RunShape, OwningPc, At
<1>2. run[s].embedded \in SUBSET ChunkIds
  BY DEF Owned, TypeOK, Run
<1>3. db \in Store /\ reg \in Registry /\ setting \in Versions /\ GoodStore(db)
  BY DEF Owned, TypeOK, Sound
<1>4. /\ CanPersist(db, d, run[s].embedded, setting)
      /\ db' = PersistCompletedIndex(db, d, run[s].embedded, setting)
      /\ reg.document[d] = s /\ reg' = Release(reg, d, s)
  BY DEF Persist
<1>5. run[s].embedded = db.chunks[d]
  BY <1>1, <1>2, <1>3, <1>4, PersistGood
<1>6. db.status[d] = "indexing"
  BY <1>4 DEF CanPersist
<1>7. db'.status = [db.status EXCEPT ![d] = "indexed"]
  BY <1>4 DEF PersistCompletedIndex, UpdateDocument, WithIndex, SyncFts, SaveEmbeddings
<1>8. e = d
  BY <1>1, <1>3, <1>7 DEF BecomesReady, Store
<1>9. reg'.document[d] = Nobody
  BY <1>1, <1>3, <1>4 DEF Release, Registry
<1> QED
  BY <1>4, <1>5, <1>6, <1>8, <1>9 DEF PublishedByItsOwner

(* A document becomes Ready only by its owner's final transaction, with a    *)
(* vector for every chunk of the row, and its owner is released in the same  *)
(* step: in every behaviour.                                                *)
THEOREM PublishedByOwner == Spec => ReadyOnlyByOwner
<1>1. ASSUME Owned, Sound, [Next]_vars, NEW d \in Docs, BecomesReady(d)
      PROVE  PublishedByItsOwner(d)
  <2>t. db \in Store
    BY <1>1 DEF Owned, TypeOK
  <2>1. ASSUME NEW s \in Sessions, Begin(s) \/ Step(s) PROVE PublishedByItsOwner(d)
    <3>1. CASE Persist(s)
      BY <1>1, <3>1, PersistPublishes
    <3>2. CASE ~Persist(s)
      BY <1>1, <2>1, <3>2, OnlyPersistPublishes DEF BecomesReady, Owned
    <3> QED
      BY <3>1, <3>2
  <2>2. ASSUME NEW e \in Docs, ClearEmbeddingsOf(e) PROVE FALSE
    <3>1. db'.status = [db.status EXCEPT ![e] = "pending_embedding"]
      BY <2>2 DEF ClearEmbeddingsOf, UpdateDocument, ClearEmbeddings
    <3> QED
      BY <1>1, <2>t, <3>1 DEF BecomesReady, Store
  <2>3. CASE PrepareCommand
    BY <1>1, <2>t, <2>3 DEF PrepareCommand, Reconcile, FailDocuments, Store,
       BecomesReady
  <2>4. CASE UNCHANGED db
    BY <1>1, <2>4 DEF BecomesReady
  <2> QED
    BY <1>1, <2>1, <2>2, <2>3, <2>4 DEF Next, Outside, Crash, vars
<1>2. Owned /\ Sound /\ [Next]_vars =>
        [\A d \in Docs : BecomesReady(d) => PublishedByItsOwner(d)]_vars
  BY <1>1
<1> QED
  BY <1>2, OwnedAlways, SoundAlways, PTL DEF Spec, ReadyOnlyByOwner

-----------------------------------------------------------------------------
(* What a step of a thread does to the column status and to the thread.    *)

StatusOf(d, status) == [db.status EXCEPT ![d] = status]

StatusFailed(failed) == [x \in Docs |-> IF x \in failed THEN "failed" ELSE db.status[x]]

(* The steps that write a status, and the one they write.                  *)
LEMMA StatusSteps ==
  ASSUME TypeOK, RunShape, NEW s \in Sessions, Begin(s) \/ Step(s)
  PROVE  \/ db'.status = db.status
         \/ Ingest(s) /\ db'.status = StatusOf(run[s].doc, "pending_embedding")
         \/ Prepare(s) /\ db'.status = StatusOf(run[s].doc, "indexing")
         \/ Persist(s) /\ db'.status = StatusOf(run[s].doc, "indexed")
         \/ /\ MarkFailed(s) /\ run[s].doc \in Present(db)
            /\ db'.status = StatusFailed({run[s].doc})
         \/ /\ ReconcileStep(s)
            /\ db'.status = StatusFailed(ToRecover(db, run[s].seen, RecoverTransient(s), setting))
         \/ Delete(s) /\ db'.status = StatusOf(run[s].doc, Absent)
         \/ Clear(s) /\ db'.status = [x \in Docs |-> Absent]
<1>1. CASE Ingest(s)
  <2>1. PICK count \in ChunkIds : db' = AddChunks(AddDocument(db, run[s].doc), run[s].doc, count)
    BY <1>1 DEF Ingest
  <2>2. db'.status = StatusOf(run[s].doc, "pending_embedding")
    BY <2>1 DEF AddChunks, AddDocument, UpdateDocument, StatusOf
  <2> QED
    BY <1>1, <2>2
<1>2. CASE Prepare(s)
  BY <1>2 DEF Prepare, PrepareForIndexing, SetStatus, ClearEmbeddings, StatusOf
<1>3. CASE Persist(s)
  <2>1. db' = PersistCompletedIndex(db, run[s].doc, run[s].embedded, setting)
    BY <1>3 DEF Persist
  <2>2. db'.status = StatusOf(run[s].doc, "indexed")
    BY <2>1 DEF PersistCompletedIndex, UpdateDocument, WithIndex, SyncFts,
       SaveEmbeddings, StatusOf
  <2> QED
    BY <1>3, <2>2
<1>4. CASE MarkFailed(s)
  <2>1. \/ db' = db
        \/ run[s].doc \in Present(db) /\ db' = FailDocuments(db, {run[s].doc})
    BY <1>4 DEF MarkFailed
  <2>2. db' = FailDocuments(db, {run[s].doc}) => db'.status = StatusFailed({run[s].doc})
    BY DEF FailDocuments, StatusFailed
  <2> QED
    BY <1>4, <2>1, <2>2
<1>5. CASE ReconcileStep(s)
  BY <1>5 DEF ReconcileStep, Reconcile, FailDocuments, StatusFailed
<1>6. CASE Delete(s)
  BY <1>6 DEF Delete, DeleteDocument, DeleteForDocument, StatusOf
<1>7. CASE Clear(s)
  BY <1>7 DEF Clear, ClearAll, EmptyStore
<1>8. CASE UNCHANGED db
  BY <1>8
<1>9. CASE Begin(s)
  BY <1>8, <1>9 DEF Begin, StartUpload, StartList, StartClear, StartReindex,
     StartDelete, Boot, RebuildContext
<1>10. CASE UploadStep(s)
  BY <1>1, <1>8, <1>10 DEF UploadStep, SaveUpload, SaveUploadFails, IngestDuplicate,
     IngestFails, IngestInterrupted, DiscardUpload, ReleaseUpload
<1>11. CASE IndexStep(s)
  BY <1>2, <1>3, <1>4, <1>8, <1>11 DEF IndexStep, ClaimUploaded, IndexingNotStarted,
     PrepareFails, Unclaim, EmbedBatch, EmbedFails, PersistFails, FinishIndexing
<1>12. CASE ReconcilingStep(s)
  BY <1>5, <1>8, <1>12 DEF ReconcilingStep, SnapDocuments, SnapPipeline, ReconcileFails
<1>13. CASE DeletionStep(s)
  BY <1>6, <1>7, <1>8, <1>13 DEF DeletionStep, DeleteFails, ClearFails, Unlink, UnlinkDone
<1> QED
  BY <1>9, <1>10, <1>11, <1>12, <1>13 DEF Step

(* A thread embeds only after it has prepared, ingests only what it saved, *)
(* and has copies to remove only after it deleted their rows.              *)
Moves(s) ==
  /\ \A t \in Sessions \ {s} : run'[t] = run[t]
  /\ run'[s].pc \in {"embed", "fail"} =>
       run'[s].doc = run[s].doc /\ (Prepare(s) \/ run[s].pc = "embed")
  /\ run'[s].pc = "ingest" => SaveUpload(s)
  /\ run'[s].unlink \subseteq run[s].unlink \/ Delete(s) \/ Clear(s)
  /\ run'[s].unlink = {} \/ run'[s].pc = "unlink" \/ run[s].pc # "unlink"
  /\ run'[s].seenPipeline => run[s].seenPipeline \/ SnapPipeline(s)

(* Every step of a thread moves in this way.                               *)
LEMMA ThreadMoves ==
  ASSUME TypeOK, RunShape, NEW s \in Sessions, Begin(s) \/ Step(s)
  PROVE  Moves(s)
<1>1. run \in [Sessions -> Run] /\ run[s] \in Run
  BY DEF TypeOK
<1>2. ASSUME NEW op, NEW d, NEW pc \in {"save", "snap_documents", "clear", "prepare", "delete"},
             Start(s, op, d, pc)
      PROVE  Moves(s)
  BY <1>1, <1>2 DEF Start, Moves, IdleRun, At
<1>3. ASSUME Leave(s), run[s].pc # "unlink" \/ run[s].unlink = {} PROVE Moves(s)
  BY <1>1, <1>3 DEF Leave, Moves, IdleRun, Run
<1>4. ASSUME NEW pc, Goto(s, pc), run[s].pc # "unlink",
             pc \in {"embed", "fail"} => run[s].pc = "embed" \/ Prepare(s),
             pc # "ingest"
      PROVE  Moves(s)
  BY <1>1, <1>4 DEF Goto, Moves, Run
<1>5. CASE Begin(s)
  BY <1>2, <1>5 DEF Begin, StartUpload, StartList, StartClear, StartReindex,
     StartDelete, Boot, RebuildContext
<1>6. CASE SaveUpload(s)
  <2>1. PICK d \in Docs \ used : run' = [run EXCEPT ![s].pc = "ingest", ![s].doc = d]
    BY <1>6 DEF SaveUpload
  <2>2. run' = [run EXCEPT ![s] = [run[s] EXCEPT !.pc = "ingest", !.doc = d]]
    BY <1>1, <2>1
  <2>3. /\ \A t \in Sessions \ {s} : run'[t] = run[t]
        /\ run'[s].pc = "ingest" /\ run'[s].unlink = run[s].unlink
        /\ run'[s].seenPipeline = run[s].seenPipeline
    BY <1>1, <2>2 DEF Run
  <2>4. run[s].pc = "save"
    BY <1>6 DEF SaveUpload, At
  <2> QED
    BY <1>6, <2>3, <2>4 DEF Moves
<1>7. CASE ReleaseUpload(s)
  BY <1>1, <1>7 DEF ReleaseUpload, Moves, IdleRun, At
<1>8. CASE UploadStep(s) /\ ~SaveUpload(s) /\ ~ReleaseUpload(s)
  BY <1>3, <1>4, <1>8 DEF UploadStep, SaveUploadFails, Ingest, IngestDuplicate,
     IngestFails, IngestInterrupted, DiscardUpload, At
<1>9. CASE Prepare(s)
  BY <1>1, <1>9 DEF Prepare, Moves, Run, At
<1>10. CASE EmbedBatch(s)
  BY <1>1, <1>10 DEF EmbedBatch, Moves, Run, At
<1>11. CASE IndexStep(s) /\ ~Prepare(s) /\ ~EmbedBatch(s)
  BY <1>3, <1>4, <1>11 DEF IndexStep, ClaimUploaded, IndexingNotStarted, PrepareFails,
     Unclaim, EmbedFails, Persist, PersistFails, MarkFailed, FinishIndexing, At
<1>12. CASE SnapDocuments(s) \/ SnapPipeline(s)
  BY <1>1, <1>12 DEF SnapDocuments, SnapPipeline, Moves, Run, At
<1>13. CASE ReconcileStep(s) \/ ReconcileFails(s)
  BY <1>3, <1>13 DEF ReconcileStep, ReconcileFails, At
<1>14. CASE Delete(s) \/ Clear(s)
  <2>1. \E gone : run' = [run EXCEPT ![s] = [run[s] EXCEPT !.pc = "unlink", !.unlink = gone]]
    BY <1>1, <1>14 DEF Delete, Clear
  <2>2. /\ \A t \in Sessions \ {s} : run'[t] = run[t]
        /\ run'[s].pc = "unlink" /\ run'[s].seenPipeline = run[s].seenPipeline
    BY <1>1, <2>1 DEF Run
  <2> QED
    BY <1>14, <2>2 DEF Moves
<1>15. CASE DeleteFails(s) \/ ClearFails(s) \/ UnlinkDone(s)
  BY <1>3, <1>15 DEF DeleteFails, ClearFails, UnlinkDone, At
<1>16. CASE Unlink(s)
  BY <1>1, <1>16 DEF Unlink, Moves, Run, At
<1> QED
  BY <1>5, <1>6, <1>7, <1>8, <1>9, <1>10, <1>11, <1>12, <1>13, <1>14, <1>15, <1>16
  DEF Step, ReconcilingStep, DeletionStep

-----------------------------------------------------------------------------
(* The phase of a document, read off its status.                           *)

Phases == [d \in Docs |-> PhaseOf(d)]

(* An upload attempt is over that left no row. *)
Ended(d) == d \in used /\ ~BeingIngested(d)

PhaseBy(status, ended) ==
  IF status = "indexed" THEN "ready"
  ELSE IF status # Absent THEN "stored"
  ELSE IF ended THEN "gone" ELSE "new"

(* In a good row the two definitions of a complete index say: indexed.     *)
LEMMA CompleteIsIndexed ==
  ASSUME NEW store, GoodStore(store), NEW d \in Docs
  PROVE  /\ CompleteIndexClauses(store, d) <=> store.status[d] = "indexed"
         /\ d \in Present(store) <=> store.status[d] # Absent
BY DEF GoodStore, GoodRow, CompleteIndexClauses, Present

(* So that the phase of a document is a function of its status.            *)
LEMMA PhaseIsByStatus ==
  ASSUME GoodStore(db), NEW d \in Docs
  PROVE  Phases[d] = PhaseBy(db.status[d], Ended(d))
<1>1. "indexed" # Absent
  BY DEF Absent
<1> QED
  BY <1>1, CompleteIsIndexed DEF Phases, PhaseOf, PhaseBy, Ended

(* And so is its next phase.                                               *)
LEMMA NextPhaseIsByStatus ==
  ASSUME GoodStore(db'), NEW d \in Docs
  PROVE  Phases'[d] = PhaseBy(db'.status[d], Ended(d)')
<1>1. "indexed" # Absent
  BY DEF Absent
<1>2. /\ CompleteIndexClauses(db', d) <=> db'.status[d] = "indexed"
      /\ d \in Present(db') <=> db'.status[d] # Absent
  BY CompleteIsIndexed
<1> QED
  BY <1>1, <1>2 DEF Phases, PhaseOf, PhaseBy, Ended

(* What does not matter to the phases changes nothing.                     *)
LEMMA PhasesStay ==
  ASSUME GoodStore(db), GoodStore(db'),
         \A d \in Docs : /\ db'.status[d] = db.status[d]
                         /\ db.status[d] = Absent => (Ended(d)' <=> Ended(d))
  PROVE  Phases' = Phases
<1>1. \A d \in Docs : Phases'[d] = Phases[d]
  BY PhaseIsByStatus, NextPhaseIsByStatus DEF PhaseBy
<1> QED
  BY <1>1 DEF Phases

(* A step that matters to one document only.                               *)
LEMMA OnePhaseChanges ==
  ASSUME GoodStore(db), GoodStore(db'), NEW e \in Docs,
         \A d \in Docs \ {e} : /\ db'.status[d] = db.status[d]
                               /\ db.status[d] = Absent => (Ended(d)' <=> Ended(d))
  PROVE  Phases' = [Phases EXCEPT ![e] = PhaseBy(db'.status[e], Ended(e)')]
<1>1. \A d \in Docs \ {e} : Phases'[d] = Phases[d]
  BY PhaseIsByStatus, NextPhaseIsByStatus DEF PhaseBy
<1>2. Phases'[e] = PhaseBy(db'.status[e], Ended(e)')
  BY NextPhaseIsByStatus
<1> QED
  BY <1>1, <1>2 DEF Phases

(* The steps of DocumentLifecycle, for documents of a known status.        *)
LEMMA Abandons ==
  ASSUME GoodStore(db), NEW e \in Docs, db.status[e] = Absent, ~Ended(e),
         Phases' = [Phases EXCEPT ![e] = "gone"]
  PROVE  Lifecycle!Next
<1>1. Phases[e] = "new"
  BY PhaseIsByStatus DEF PhaseBy, Absent
<1>2. Lifecycle!Abandon(e)
  BY <1>1 DEF Lifecycle!Abandon, Phases
<1> QED
  BY <1>2 DEF Lifecycle!Next

(* A document is no longer ready, if it was. *)
LEMMA Withdraws ==
  ASSUME GoodStore(db), NEW withdrawn \in SUBSET Docs,
         \A d \in withdrawn : db.status[d] # Absent,
         \A d \in Docs : Phases'[d] = IF d \in withdrawn THEN "stored" ELSE Phases[d]
  PROVE  Lifecycle!Next \/ Phases' = Phases
<1> DEFINE ready == {d \in withdrawn : db.status[d] = "indexed"}
<1>1. \A d \in withdrawn : Phases[d] = IF d \in ready THEN "ready" ELSE "stored"
  BY PhaseIsByStatus DEF PhaseBy
<1>2. \A d \in Docs : Phases'[d] = IF d \in ready THEN "stored" ELSE Phases[d]
  BY <1>1
<1>3. CASE ready = {}
  BY <1>2, <1>3 DEF Phases
<1>4. CASE ready # {}
  <2>1. Phases' = [d \in Docs |-> IF d \in ready THEN "stored" ELSE Phases[d]]
    BY <1>2 DEF Phases
  <2>2. ready \in SUBSET Docs
    OBVIOUS
  <2>3. \A d \in ready : Phases[d] = "ready"
    BY <1>1
  <2> HIDE DEF ready
  <2>4. Lifecycle!Withdraw(ready)
    BY <1>4, <2>1, <2>3 DEF Lifecycle!Withdraw, Phases
  <2> QED
    BY <2>2, <2>4 DEF Lifecycle!Next
<1> QED
  BY <1>3, <1>4

-----------------------------------------------------------------------------
(* What the steps of a thread mean for the phases.                         *)

EndsIngestion(s) ==
  Ingest(s) \/ IngestDuplicate(s) \/ IngestFails(s) \/ IngestInterrupted(s)

(* Only the steps around the managed copy of an upload begin or end an     *)
(* upload attempt.                                                         *)
LEMMA EndedStays ==
  ASSUME TypeOK, RunShape, NEW s \in Sessions, Begin(s) \/ Step(s),
         ~SaveUpload(s), ~SaveUploadFails(s), ~EndsIngestion(s)
  PROVE  \A d \in Docs : Ended(d)' <=> Ended(d)
<1>1. used' = used /\ run[s].pc # "ingest"
  <2>1. CASE Begin(s)
    BY <2>1 DEF Begin, StartUpload, StartList, StartClear, StartReindex, StartDelete,
       Boot, RebuildContext, Start, At
  <2>2. CASE UploadStep(s)
    BY <2>2 DEF UploadStep, EndsIngestion, DiscardUpload, ReleaseUpload, At
  <2>3. CASE IndexStep(s)
    BY <2>3 DEF IndexStep, ClaimUploaded, IndexingNotStarted, Prepare, PrepareFails,
       Unclaim, EmbedBatch, EmbedFails, Persist, PersistFails, MarkFailed,
       FinishIndexing, At
  <2>4. CASE ReconcilingStep(s) \/ DeletionStep(s)
    BY <2>4 DEF ReconcilingStep, SnapDocuments, SnapPipeline, ReconcileStep,
       ReconcileFails, DeletionStep, Delete, DeleteFails, Clear, ClearFails, Unlink,
       UnlinkDone, At
  <2> QED
    BY <2>1, <2>2, <2>3, <2>4 DEF Step
<1>2. run'[s].pc # "ingest" /\ \A t \in Sessions \ {s} : run'[t] = run[t]
  BY ThreadMoves DEF Moves
<1> QED
  BY <1>1, <1>2 DEF Ended, BeingIngested, At

(* The managed copy of an upload is written: nobody sees it yet.           *)
LEMMA SavingIsUnseen ==
  ASSUME Owned, Copies, GoodStore(db), GoodStore(db'), NEW s \in Sessions, SaveUpload(s)
  PROVE  Phases' = Phases
<1>1. PICK d \in Docs \ used :
        /\ used' = used \cup {d}
        /\ run' = [run EXCEPT ![s].pc = "ingest", ![s].doc = d]
  BY DEF SaveUpload
<1>2. run \in [Sessions -> Run] /\ run[s] \in Run /\ run[s].pc = "save" /\ db' = db
  BY DEF Owned, TypeOK, SaveUpload, At
<1>3. run' = [run EXCEPT ![s] = [run[s] EXCEPT !.pc = "ingest", !.doc = d]]
  BY <1>1, <1>2
<1>4. /\ run'[s].pc = "ingest" /\ run'[s].doc = d
      /\ \A t \in Sessions \ {s} : run'[t] = run[t]
  BY <1>2, <1>3 DEF Run
<1>5. \A e \in Docs \ {d} : Ended(e)' <=> Ended(e)
  BY <1>1, <1>2, <1>4 DEF Ended, BeingIngested, At
<1>6. ~Ended(d) /\ ~Ended(d)'
  BY <1>1, <1>4 DEF Ended, BeingIngested, At
<1>7. \A e \in Docs : db'.status[e] = db.status[e] /\ (Ended(e)' <=> Ended(e))
  BY <1>2, <1>5, <1>6
<1> QED
  BY <1>7, PhasesStay

(* The write of the copy failed: that attempt is over, if it drew an id.   *)
LEMMA SavingMayEnd ==
  ASSUME Owned, Copies, GoodStore(db), GoodStore(db'), NEW s \in Sessions,
         SaveUploadFails(s)
  PROVE  Lifecycle!Next \/ Phases' = Phases
<1>1. /\ run[s].pc = "save" /\ db' = db /\ run'[s].pc # "ingest"
      /\ \A t \in Sessions \ {s} : run'[t] = run[t]
  <2>1. ~SaveUpload(s) \/ used' # used
    BY DEF SaveUpload
  <2>2. run \in [Sessions -> Run]
    BY DEF Owned, TypeOK
  <2> QED
    BY <2>2 DEF SaveUploadFails, Leave, IdleRun, At, Run
<1>2. CASE used' = used
  <2>1. \A d \in Docs : Ended(d)' <=> Ended(d)
    BY <1>1, <1>2 DEF Ended, BeingIngested, At
  <2> QED
    BY <1>1, <2>1, PhasesStay
<1>3. ASSUME NEW d \in Docs \ used, used' = used \cup {d}
      PROVE  Lifecycle!Next
  <2>1. db.status[d] = Absent
    BY <1>3 DEF Copies, CopyShape, Present
  <2>2. ~Ended(d)
    BY DEF Ended
  <2>3. \A t \in Sessions : run[t].doc # d
    BY NoDocAssumption DEF Copies, CopyShape
  <2>4. Ended(d)'
    BY <1>1, <1>3, <2>3 DEF Ended, BeingIngested, At
  <2>5. \A e \in Docs \ {d} : db'.status[e] = db.status[e] /\ (Ended(e)' <=> Ended(e))
    BY <1>1, <1>3 DEF Ended, BeingIngested, At
  <2>6. Phases' = [Phases EXCEPT ![d] = PhaseBy(db'.status[d], Ended(d)')]
    BY <2>5, OnePhaseChanges
  <2>7. PhaseBy(db'.status[d], Ended(d)') = "gone"
    BY <1>1, <2>1, <2>4 DEF PhaseBy, Absent
  <2>8. Phases' = [Phases EXCEPT ![d] = "gone"]
    BY <2>6, <2>7
  <2> QED
    BY <2>1, <2>2, <2>8, Abandons
<1> QED
  BY <1>2, <1>3 DEF SaveUploadFails

(* The ingestion of an upload ends: with a stored document, or with none.  *)
LEMMA IngestionEnds ==
  ASSUME Owned, Copies, GoodStore(db), GoodStore(db'), NEW s \in Sessions,
         EndsIngestion(s), Begin(s) \/ Step(s)
  PROVE  Lifecycle!Next
<1>d. PICK d : d = run[s].doc
  OBVIOUS
<1>1. /\ d \in Docs /\ d \in used /\ db.status[d] = Absent
      /\ At(s, "ingest") /\ run[s].op = "upload" /\ used' = used
  <2>1. At(s, "ingest") /\ used' = used
    BY DEF EndsIngestion, Ingest, IngestDuplicate, IngestFails, IngestInterrupted
  <2>2. d \in Docs /\ run[s].op = "upload"
    BY <1>d, <2>1 DEF Owned, RunShape, At
  <2>3. d \in used /\ d \notin Present(db)
    BY <1>d, <2>1, <2>2, NoDocAssumption DEF Copies, CopyShape
  <2> QED
    BY <2>1, <2>2, <2>3 DEF Present
<1>2. \A t \in Sessions \ {s} : run[t].pc # "ingest" /\ run'[t] = run[t]
  BY <1>1, OnlyUpload, ThreadMoves DEF Owned, Moves
<1>3. ~SaveUpload(s)
  BY <1>1 DEF SaveUpload, At
<1>4. run'[s].pc # "ingest"
  BY <1>3, ThreadMoves DEF Owned, Moves
<1>5. ~Ended(d) /\ Ended(d)'
  BY <1>d, <1>1, <1>2, <1>4 DEF Ended, BeingIngested, At
<1>6. \A e \in Docs \ {d} : Ended(e)' <=> Ended(e)
  BY <1>d, <1>1, <1>2, <1>4 DEF Ended, BeingIngested, At
<1>7. CASE Ingest(s)
  <2>1. /\ db'.status = StatusOf(d, "pending_embedding")
        /\ \A e \in Present(db) : ContentOf[e] # ContentOf[d]
    <3>1. PICK count \in ChunkIds : db' = AddChunks(AddDocument(db, d), d, count)
      BY <1>d, <1>7 DEF Ingest
    <3>2. db'.status = StatusOf(d, "pending_embedding")
      BY <3>1 DEF AddChunks, AddDocument, UpdateDocument, StatusOf
    <3> QED
      BY <1>d, <1>7, <3>2 DEF Ingest, IsDuplicate
  <2>2. /\ db'.status[d] = "pending_embedding"
        /\ \A e \in Docs \ {d} : db'.status[e] = db.status[e]
    BY <1>1, <2>1 DEF StatusOf, GoodStore, Store
  <2>3. Phases' = [Phases EXCEPT ![d] = PhaseBy(db'.status[d], Ended(d)')]
    BY <1>1, <1>6, <2>2, OnePhaseChanges
  <2>4. PhaseBy(db'.status[d], Ended(d)') = "stored"
    BY <2>2 DEF PhaseBy, Absent
  <2>5. Phases[d] = "new"
    BY <1>1, <1>5, PhaseIsByStatus DEF PhaseBy, Absent
  <2>6. \A e \in Docs : Phases[e] \in {"stored", "ready"} => e \in Present(db)
    BY DEF Phases, PhaseOf
  <2>7. Phases' = [Phases EXCEPT ![d] = "stored"]
    BY <2>3, <2>4
  <2>8. Lifecycle!Store(d)
    BY <1>1, <2>1, <2>5, <2>6, <2>7 DEF Lifecycle!Store, Lifecycle!Kept, Phases
  <2> QED
    BY <1>1, <2>8 DEF Lifecycle!Next
<1>8. CASE ~Ingest(s)
  <2>1. db' = db
    BY <1>8 DEF EndsIngestion, IngestDuplicate, IngestFails, IngestInterrupted
  <2>2. Phases' = [Phases EXCEPT ![d] = PhaseBy(db'.status[d], Ended(d)')]
    BY <1>1, <1>6, <2>1, OnePhaseChanges
  <2>3. PhaseBy(db'.status[d], Ended(d)') = "gone"
    BY <1>1, <1>5, <2>1 DEF PhaseBy, Absent
  <2>4. Phases' = [Phases EXCEPT ![d] = "gone"]
    BY <2>2, <2>3
  <2> QED
    BY <1>1, <1>5, <2>4, Abandons
<1> QED
  BY <1>7, <1>8

(* A document of a row is one whose upload attempt is over.                *)
LEMMA RowsAreEnded ==
  ASSUME Copies, NEW d \in Docs, db.status[d] # Absent
  PROVE  Ended(d)
BY DEF Copies, CopyShape, Present, Ended, BeingIngested

(* The deletion of one row, and of all of them.                            *)
LEMMA RowsRemoved ==
  ASSUME Copies, GoodStore(db), GoodStore(db'), NEW removed \in SUBSET Present(db),
         removed = Present(db) \/ \E d \in Present(db) : removed = {d},
         \A d \in Docs : Ended(d)' <=> Ended(d),
         \A d \in Docs : db'.status[d] = IF d \in removed THEN Absent ELSE db.status[d]
  PROVE  Lifecycle!Next
<1>1. \A d \in Docs : d \in Present(db) <=> Phases[d] \in {"stored", "ready"}
  BY PhaseIsByStatus DEF PhaseBy, Present, Absent
<1>2. \A d \in removed : Ended(d)' /\ d \in Docs
  BY RowsAreEnded DEF Present
<1>3. \A d \in Docs : Phases'[d] = IF d \in removed THEN "gone" ELSE Phases[d]
  BY <1>2, PhaseIsByStatus, NextPhaseIsByStatus DEF PhaseBy, Absent
<1>4. Phases' = [d \in Docs |-> IF d \in removed THEN "gone" ELSE Phases[d]]
  BY <1>3 DEF Phases
<1>5. Lifecycle!Kept = Present(db)
  BY <1>1 DEF Lifecycle!Kept, Phases, Present
<1>6. Lifecycle!Remove(removed)
  BY <1>4, <1>5 DEF Lifecycle!Remove, Phases
<1>7. removed \in SUBSET Docs
  BY DEF Present
<1> QED
  BY <1>6, <1>7 DEF Lifecycle!Next

(* Rows that are only rewritten, and that are not Ready afterwards.        *)
LEMMA RowsWithdrawn ==
  ASSUME GoodStore(db), GoodStore(db'), NEW withdrawn \in SUBSET Present(db),
         \A d \in Docs : Ended(d)' <=> Ended(d),
         \A d \in withdrawn : db'.status[d] \notin {Absent, "indexed"},
         \A d \in Docs \ withdrawn : db'.status[d] = db.status[d]
  PROVE  Lifecycle!Next \/ Phases' = Phases
<1>1. \A d \in Docs : Phases'[d] = IF d \in withdrawn THEN "stored" ELSE Phases[d]
  BY PhaseIsByStatus, NextPhaseIsByStatus DEF PhaseBy
<1> QED
  BY <1>1, Withdraws DEF Present

(* The final transaction of an indexing run publishes its document.        *)
LEMMA RowPublished ==
  ASSUME GoodStore(db), GoodStore(db'), NEW e \in Docs,
         db.status[e] = "indexing", db'.status[e] = "indexed",
         \A d \in Docs : Ended(d)' <=> Ended(d),
         \A d \in Docs \ {e} : db'.status[d] = db.status[d]
  PROVE  Lifecycle!Next
<1>1. Phases' = [Phases EXCEPT ![e] = PhaseBy(db'.status[e], Ended(e)')]
  BY OnePhaseChanges
<1>2. Phases[e] = "stored" /\ PhaseBy(db'.status[e], Ended(e)') = "ready"
  BY PhaseIsByStatus DEF PhaseBy, Absent
<1>3. Phases' = [Phases EXCEPT ![e] = "ready"]
  BY <1>1, <1>2
<1>4. Lifecycle!Publish(e)
  BY <1>2, <1>3 DEF Lifecycle!Publish, Phases
<1> QED
  BY <1>4 DEF Lifecycle!Next

(* Every step of a thread is a step of the lifecycle, or none.             *)
LEMMA ThreadRefines ==
  ASSUME Owned, Copies, GoodStore(db), GoodStore(db'), NEW s \in Sessions,
         Begin(s) \/ Step(s)
  PROVE  Lifecycle!Next \/ Phases' = Phases
<1>1. CASE SaveUpload(s)
  BY <1>1, SavingIsUnseen
<1>2. CASE SaveUploadFails(s)
  BY <1>2, SavingMayEnd
<1>3. CASE EndsIngestion(s)
  BY <1>3, IngestionEnds
<1>4. CASE ~SaveUpload(s) /\ ~SaveUploadFails(s) /\ ~EndsIngestion(s)
  <2>1. \A d \in Docs : Ended(d)' <=> Ended(d)
    BY <1>4, EndedStays DEF Owned
  <2>d. PICK d : d = run[s].doc
    OBVIOUS
  <2>t. db.status \in [Docs -> DocumentStatus \cup {Absent}]
    BY DEF GoodStore, Store
  <2>2. CASE db'.status = db.status
    BY <2>1, <2>2, PhasesStay
  <2>3. CASE Prepare(s) /\ db'.status = StatusOf(d, "indexing")
    <3>1. d \in Docs /\ db.status[d] # Absent
      BY <2>d, <2>3 DEF Prepare, ReadyToIndex, Owned, RunShape, OwningPc, At, Absent
    <3>2. /\ db'.status[d] = "indexing"
          /\ \A e \in Docs \ {d} : db'.status[e] = db.status[e]
      BY <2>t, <2>3, <3>1 DEF StatusOf
    <3>3. {d} \in SUBSET Present(db)
      BY <3>1 DEF Present
    <3>4. \A e \in {d} : db'.status[e] \notin {Absent, "indexed"}
      BY <3>2 DEF Absent
    <3> QED
      BY <2>1, <3>2, <3>3, <3>4, RowsWithdrawn
  <2>4. CASE Persist(s) /\ db'.status = StatusOf(d, "indexed")
    <3>1. d \in Docs /\ db.status[d] = "indexing"
      BY <2>d, <2>4 DEF Persist, CanPersist, Owned, RunShape, OwningPc, At
    <3>2. /\ db'.status[d] = "indexed"
          /\ \A e \in Docs \ {d} : db'.status[e] = db.status[e]
      BY <2>t, <2>4, <3>1 DEF StatusOf
    <3> QED
      BY <2>1, <3>1, <3>2, RowPublished
  <2>5. ASSUME NEW failed \in SUBSET Present(db), db'.status = StatusFailed(failed)
        PROVE  Lifecycle!Next \/ Phases' = Phases
    <3>1. /\ \A e \in failed : db'.status[e] \notin {Absent, "indexed"}
          /\ \A e \in Docs \ failed : db'.status[e] = db.status[e]
      BY <2>5 DEF StatusFailed, Absent, Present
    <3> QED
      BY <2>1, <3>1, RowsWithdrawn
  <2>6. CASE Delete(s) /\ db'.status = StatusOf(d, Absent)
    <3>1. d \in Present(db) /\ d \in Docs
      BY <2>d, <2>6 DEF Delete, Present
    <3>2. \A e \in Docs : db'.status[e] = IF e \in {d} THEN Absent ELSE db.status[e]
      BY <2>t, <2>6, <3>1 DEF StatusOf
    <3> QED
      BY <2>1, <3>1, <3>2, RowsRemoved
  <2>7. CASE Clear(s) /\ db'.status = [x \in Docs |-> Absent]
    <3>1. \A e \in Docs : db'.status[e] =
            IF e \in Present(db) THEN Absent ELSE db.status[e]
      BY <2>7 DEF Present
    <3> QED
      BY <2>1, <3>1, RowsRemoved
  <2>8. CASE MarkFailed(s) /\ d \in Present(db) /\ db'.status = StatusFailed({d})
    BY <2>5, <2>8
  <2>9. CASE ReconcileStep(s) /\ db'.status =
               StatusFailed(ToRecover(db, run[s].seen, RecoverTransient(s), setting))
    <3>1. PICK failed : failed = ToRecover(db, run[s].seen, RecoverTransient(s), setting)
      OBVIOUS
    <3>2. failed \in SUBSET Present(db)
      BY <3>1 DEF ToRecover
    <3> QED
      BY <2>5, <2>9, <3>1, <3>2
  <2>10. ~Ingest(s)
    BY <1>4 DEF EndsIngestion
  <2> QED
    BY <2>d, <2>2, <2>3, <2>4, <2>6, <2>7, <2>8, <2>9, <2>10, StatusSteps DEF Owned
<1> QED
  BY <1>1, <1>2, <1>3, <1>4

(* The process ends: the one upload that was being ingested is given up.   *)
LEMMA CrashRefines ==
  ASSUME Owned, Copies, GoodStore(db), GoodStore(db'), Crash
  PROVE  Lifecycle!Next \/ Phases' = Phases
<1>1. /\ db' = db /\ used' = used /\ \A t \in Sessions : run'[t].pc # "ingest"
  BY DEF Crash, IdleRun
<1>2. \A d \in Docs : Ended(d)' <=> d \in used
  BY <1>1 DEF Ended, BeingIngested, At
<1>3. CASE \A s \in Sessions : ~At(s, "ingest")
  <2>1. \A d \in Docs : Ended(d)' <=> Ended(d)
    BY <1>2, <1>3 DEF Ended, BeingIngested
  <2> QED
    BY <1>1, <2>1, PhasesStay
<1>4. ASSUME NEW s \in Sessions, At(s, "ingest") PROVE Lifecycle!Next
  <2>d. PICK d : d = run[s].doc
    OBVIOUS
  <2>1. d \in Docs /\ run[s].op = "upload"
    BY <2>d, <1>4 DEF Owned, RunShape, At
  <2>2. d \in used /\ db.status[d] = Absent
    BY <2>d, <1>4, <2>1, NoDocAssumption DEF Copies, CopyShape, Present
  <2>3. \A t \in Sessions \ {s} : run[t].pc # "ingest"
    BY <2>1, OnlyUpload DEF Owned
  <2>4. ~Ended(d) /\ \A e \in Docs \ {d} : Ended(e) <=> e \in used
    BY <2>d, <1>4, <2>3 DEF Ended, BeingIngested, At
  <2>5. \A e \in Docs \ {d} : db'.status[e] = db.status[e] /\ (Ended(e)' <=> Ended(e))
    BY <1>1, <1>2, <2>4
  <2>6. Phases' = [Phases EXCEPT ![d] = PhaseBy(db'.status[d], Ended(d)')]
    BY <2>1, <2>5, OnePhaseChanges
  <2>7. PhaseBy(db'.status[d], Ended(d)') = "gone"
    BY <1>1, <1>2, <2>1, <2>2 DEF PhaseBy, Absent
  <2>8. Phases' = [Phases EXCEPT ![d] = "gone"]
    BY <2>6, <2>7
  <2> QED
    BY <2>1, <2>2, <2>4, <2>8, Abandons
<1> QED
  BY <1>3, <1>4

(* So every step of the system is a step of the lifecycle, or none.        *)
LEMMA NextRefines ==
  ASSUME Owned, Copies, GoodStore(db), GoodStore(db'), [Next]_vars
  PROVE  Lifecycle!Next \/ Phases' = Phases
<1>t. db.status \in [Docs -> DocumentStatus \cup {Absent}]
  BY DEF GoodStore, Store
<1>1. ASSUME NEW s \in Sessions, Begin(s) \/ Step(s)
      PROVE  Lifecycle!Next \/ Phases' = Phases
  BY <1>1, ThreadRefines
<1>2. ASSUME UNCHANGED <<run, used>> PROVE \A d \in Docs : Ended(d)' <=> Ended(d)
  BY <1>2 DEF Ended, BeingIngested, At
<1>3. ASSUME NEW d \in Docs, ClearEmbeddingsOf(d)
      PROVE  Lifecycle!Next \/ Phases' = Phases
  <2>1. /\ d \in Present(db) /\ UNCHANGED <<run, used>>
        /\ db'.status = StatusOf(d, "pending_embedding")
    BY <1>3 DEF ClearEmbeddingsOf, UpdateDocument, ClearEmbeddings, StatusOf
  <2>2. /\ db'.status[d] = "pending_embedding"
        /\ \A e \in Docs \ {d} : db'.status[e] = db.status[e]
    BY <1>t, <2>1 DEF StatusOf
  <2>3. \A e \in {d} : db'.status[e] \notin {Absent, "indexed"}
    BY <2>2 DEF Absent
  <2>4. {d} \in SUBSET Present(db)
    BY <2>1
  <2> QED
    BY <1>2, <2>1, <2>2, <2>3, <2>4, RowsWithdrawn
<1>4. CASE PrepareCommand
  <2>1. PICK failed : failed = ToRecover(db, {}, TRUE, setting)
    OBVIOUS
  <2>2. failed \in SUBSET Present(db)
    BY <2>1 DEF ToRecover
  <2>3. UNCHANGED <<run, used>> /\ db'.status = StatusFailed(failed)
    BY <1>4, <2>1 DEF PrepareCommand, Reconcile, FailDocuments, StatusFailed
  <2>4. /\ \A e \in failed : db'.status[e] \notin {Absent, "indexed"}
        /\ \A e \in Docs \ failed : db'.status[e] = db.status[e]
    BY <2>2, <2>3 DEF StatusFailed, Absent, Present
  <2> QED
    BY <1>2, <2>2, <2>3, <2>4, RowsWithdrawn
<1>5. CASE Crash
  BY <1>5, CrashRefines
<1>6. CASE UNCHANGED vars
  BY <1>2, <1>6, PhasesStay DEF vars
<1> QED
  BY <1>1, <1>3, <1>4, <1>5, <1>6 DEF Next, Outside

(* Every behaviour of the workflow, of any number of threads, with any     *)
(* faults, interruptions and restarts, is one of DocumentLifecycle.        *)
THEOREM WorkflowImplementsLifecycle == Spec => ImplementsLifecycle
<1>1. Init => Lifecycle!Init
  BY DEF Init, Lifecycle!Init, EmptyStore, PhaseOf, Present
<1>2. Owned /\ Sound /\ Copies /\ Sound' /\ [Next]_vars
      => [Lifecycle!Next]_([d \in Docs |-> PhaseOf(d)])
  BY NextRefines DEF Sound, Phases
<1> QED
  BY <1>1, <1>2, OwnedAlways, SoundAlways, CopiesAlways, PTL
  DEF Spec, ImplementsLifecycle, Lifecycle!Spec

-----------------------------------------------------------------------------
(* Who works on a row that says indexing.                                  *)

WorksOn(s, d) == run[s].pc \in {"embed", "fail"} /\ run[s].doc = d

(* A run that has prepared its document goes on, publishes or records its  *)
(* failure: it has no other way out.                                       *)
LEMMA WorkGoesOn ==
  ASSUME TypeOK, RunShape, NEW s \in Sessions, NEW d, WorksOn(s, d), Begin(s) \/ Step(s)
  PROVE  WorksOn(s, d)' \/ Persist(s) \/ MarkFailed(s)
<1>1. run \in [Sessions -> Run] /\ run[s] \in Run
  BY DEF TypeOK
<1>2. EmbedBatch(s) \/ EmbedFails(s) \/ Persist(s) \/ PersistFails(s) \/ MarkFailed(s)
  BY DEF WorksOn, Step, Begin, StartUpload, StartList, StartClear, StartReindex,
     StartDelete, Boot, RebuildContext, Start, UploadStep, SaveUpload, SaveUploadFails,
     Ingest, IngestDuplicate, IngestFails, IngestInterrupted, DiscardUpload,
     ReleaseUpload, IndexStep, ClaimUploaded, IndexingNotStarted, Prepare,
     PrepareFails, Unclaim, FinishIndexing, ReconcilingStep, SnapDocuments,
     SnapPipeline, ReconcileStep, ReconcileFails, DeletionStep, Delete, DeleteFails,
     Clear, ClearFails, Unlink, UnlinkDone, At
<1>3. CASE EmbedBatch(s)
  <2>1. run'[s].pc = run[s].pc /\ run'[s].doc = run[s].doc
    BY <1>1, <1>3 DEF EmbedBatch, Run
  <2> QED
    BY <2>1 DEF WorksOn
<1>4. CASE EmbedFails(s) \/ PersistFails(s)
  <2>1. run'[s].pc = "fail" /\ run'[s].doc = run[s].doc
    BY <1>1, <1>4 DEF EmbedFails, PersistFails, Goto, Run
  <2> QED
    BY <2>1 DEF WorksOn
<1> QED
  BY <1>2, <1>3, <1>4

(* Only the reconciliation of a bootstrap brings the application up.       *)
LEMMA UpSteps ==
  ASSUME NEW s \in Sessions, Begin(s) \/ Step(s)
  PROVE  /\ ~ReconcileStep(s) => up' = up
         /\ ReconcileStep(s) => up' = (up \/ run[s].op = "boot")
<1>1. ReconcileStep(s) => up' = (up \/ run[s].op = "boot")
  BY DEF ReconcileStep
<1>2. ASSUME ~ReconcileStep(s) PROVE up' = up
  <2>1. CASE Begin(s)
    BY <2>1 DEF Begin, StartUpload, StartList, StartClear, StartReindex, StartDelete,
       Boot, RebuildContext
  <2>2. CASE UploadStep(s)
    BY <2>2 DEF UploadStep, SaveUpload, SaveUploadFails, Ingest, IngestDuplicate,
       IngestFails, IngestInterrupted, DiscardUpload, ReleaseUpload
  <2>3. CASE IndexStep(s)
    BY <2>3 DEF IndexStep, ClaimUploaded, IndexingNotStarted, Prepare, PrepareFails,
       Unclaim, EmbedBatch, EmbedFails, Persist, PersistFails, MarkFailed,
       FinishIndexing
  <2>4. CASE ReconcilingStep(s) \/ DeletionStep(s)
    BY <1>2, <2>4 DEF ReconcilingStep, SnapDocuments, SnapPipeline, ReconcileFails,
       DeletionStep, Delete, DeleteFails, Clear, ClearFails, Unlink, UnlinkDone
  <2> QED
    BY <2>1, <2>2, <2>3, <2>4 DEF Step
<1> QED
  BY <1>1, <1>2

(* Before the application is up no pipeline is seen, so that its bootstrap *)
(* recovers every transient row; after that a row says indexing only while *)
(* a run works on it.                                                      *)
Worked ==
  /\ ~up => \A s \in Sessions : ~run[s].seenPipeline
  /\ up /\ ~StorageFaults =>
       \A d \in Docs : db.status[d] = "indexing" => \E s \in Sessions : WorksOn(s, d)

(* The bootstrap that brings the application up leaves no row indexing.    *)
LEMMA BootRecovers ==
  ASSUME Owned, Sound, Worked, ~up, NEW s \in Sessions, ReconcileStep(s),
         NEW d \in Docs
  PROVE  db'.status[d] # "indexing"
<1>1. run[s].op = "boot" /\ run[s].seen = {} /\ ~run[s].seenPipeline
  BY DEF Sound, BootFirst, Worked, ReconcileStep, At
<1>2. PICK failed : failed = ToRecover(db, {}, TRUE, setting)
  OBVIOUS
<1>3. db'.status = StatusFailed(failed)
  <2>1. RecoverTransient(s) = TRUE
    BY <1>1 DEF RecoverTransient
  <2>2. db' = FailDocuments(db, failed)
    BY <1>1, <1>2, <2>1 DEF ReconcileStep, Reconcile
  <2> QED
    BY <2>2 DEF FailDocuments, StatusFailed
<1>4. db.status[d] = "indexing" => d \in failed
  BY <1>2 DEF ToRecover, Present, Absent, TransientStatus
<1> QED
  BY <1>3, <1>4 DEF StatusFailed

(* Every step of a thread keeps it so.                                     *)
LEMMA ThreadWorked ==
  ASSUME Owned, Sound, Worked, NEW s \in Sessions, Begin(s) \/ Step(s)
  PROVE  Worked'
<1>t. /\ db.status \in [Docs -> DocumentStatus \cup {Absent}]
      /\ run \in [Sessions -> Run] /\ up \in BOOLEAN
  BY DEF Owned, TypeOK, Store
<1>m. Moves(s)
  BY ThreadMoves DEF Owned
<1>1. ASSUME ~up', NEW t \in Sessions PROVE ~run'[t].seenPipeline
  <2>1. ~up
    BY <1>1, <1>t, UpSteps
  <2>2. ~PipelineIsActive(reg)
    <3>1. \A x \in Sessions : run[x].op # "upload"
      BY <2>1 DEF Sound, BootFirst, Owned, RunShape
    <3>2. reg.pipeline \in Sessions \cup {Nobody}
      BY DEF Owned, TypeOK, Registry
    <3> QED
      BY <3>1, <3>2 DEF Owned, OwnershipMatchesWork, PipelineIsActive
  <2>3. SnapPipeline(s) => run'[s].seenPipeline = FALSE
    BY <1>t, <2>2 DEF SnapPipeline, Run
  <2> QED
    BY <1>m, <2>1, <2>3 DEF Moves, Worked
<1>2. ASSUME up', ~StorageFaults, NEW d \in Docs, db'.status[d] = "indexing"
      PROVE  \E t \in Sessions : WorksOn(t, d)'
  <2>1. up
    BY <1>2, BootRecovers, UpSteps
  <2>2. CASE Prepare(s) /\ d = run[s].doc
    <3>1. run'[s].pc = "embed" /\ run'[s].doc = d
      BY <1>t, <2>2 DEF Prepare, Run
    <3> QED
      BY <3>1 DEF WorksOn
  <2>3. CASE ~(Prepare(s) /\ d = run[s].doc)
    <3>1. db.status[d] = "indexing"
      BY <1>2, <1>t, <2>3, StatusSteps DEF StatusOf, StatusFailed, Absent, Owned
    <3>2. PICK t \in Sessions : WorksOn(t, d)
      BY <1>2, <2>1, <3>1 DEF Worked
    <3>3. CASE t # s
      BY <1>m, <3>2, <3>3 DEF Moves, WorksOn
    <3>4. CASE t = s
      <4>1. ~Persist(s)
        <5>1. Persist(s) => db'.status = StatusOf(d, "indexed")
          BY <3>2, <3>4 DEF Persist, PersistCompletedIndex, UpdateDocument, WithIndex,
             SyncFts, SaveEmbeddings, StatusOf, WorksOn
        <5> QED
          BY <1>2, <1>t, <5>1 DEF StatusOf
      <4>2. ~MarkFailed(s)
        <5>1. reg.document[d] = s /\ d \in Present(db)
          BY <3>1, <3>2, <3>4 DEF Owned, OwnershipMatchesWork, WorksOn, OwningPc,
             Present, Absent
        <5>2. MarkFailed(s) => db' = FailDocuments(db, {d})
          BY <1>2, <3>2, <3>4, <5>1 DEF MarkFailed, WorksOn
        <5>3. db' = FailDocuments(db, {d}) => db'.status = StatusFailed({d})
          BY DEF FailDocuments, StatusFailed
        <5> QED
          BY <1>2, <5>2, <5>3 DEF StatusFailed
      <4> QED
        BY <3>2, <3>4, <4>1, <4>2, WorkGoesOn DEF Owned
    <3> QED
      BY <3>3, <3>4
  <2> QED
    BY <2>2, <2>3
<1> QED
  BY <1>1, <1>2 DEF Worked

(* So does every step of the system.                                       *)
LEMMA NextWorked == Owned /\ Sound /\ Worked /\ [Next]_vars => Worked'
<1> SUFFICES ASSUME Owned, Sound, Worked, [Next]_vars PROVE Worked'
  OBVIOUS
<1>t. db.status \in [Docs -> DocumentStatus \cup {Absent}]
  BY DEF Owned, TypeOK, Store
<1>1. ASSUME NEW s \in Sessions, Begin(s) \/ Step(s) PROVE Worked'
  BY <1>1, ThreadWorked
<1>2. ASSUME UNCHANGED <<run, up>>,
             \A d \in Docs : db'.status[d] = "indexing" => db.status[d] = "indexing"
      PROVE  Worked'
  BY <1>2 DEF Worked, WorksOn
<1>3. ASSUME NEW d \in Docs, ClearEmbeddingsOf(d) PROVE Worked'
  <2>1. UNCHANGED <<run, up>> /\ db'.status = StatusOf(d, "pending_embedding")
    BY <1>3 DEF ClearEmbeddingsOf, UpdateDocument, ClearEmbeddings, StatusOf
  <2> QED
    BY <1>2, <1>t, <2>1 DEF StatusOf
<1>4. CASE PrepareCommand
  <2>1. PICK failed : failed = ToRecover(db, {}, TRUE, setting)
    OBVIOUS
  <2>2. UNCHANGED <<run, up>> /\ db'.status = StatusFailed(failed)
    BY <1>4, <2>1 DEF PrepareCommand, Reconcile, FailDocuments, StatusFailed
  <2> QED
    BY <1>2, <2>2 DEF StatusFailed
<1>5. CASE Crash
  BY <1>5 DEF Crash, Worked, IdleRun
<1>6. CASE UNCHANGED vars
  BY <1>2, <1>6 DEF vars
<1> QED
  BY <1>1, <1>3, <1>4, <1>5, <1>6 DEF Next, Outside

(* It holds in every behaviour.                                            *)
LEMMA WorkedAlways == Spec => []Worked
<1>1. Init => Worked
  BY DEF Init, Worked, IdleRun
<1> QED
  BY <1>1, NextWorked, OwnedAlways, SoundAlways, PTL DEF Spec

(* A row of a running application says indexing only while a run owns it,  *)
(* in every behaviour in which the store accepts the failure records.      *)
THEOREM IndexingHasAnOwner == Spec => []IndexingIsOwned
<1>1. Owned /\ Worked => IndexingIsOwned
  BY NobodyAssumption DEF Owned, Worked, WorksOn, OwnershipMatchesWork, OwningPc,
     IndexingIsOwned
<1> QED
  BY <1>1, OwnedAlways, WorkedAlways, PTL

-----------------------------------------------------------------------------
(* What may become of a Ready row.                                         *)

(* The document that a run has prepared is not Ready.                      *)
WorkIsNotReady ==
  \A s \in Sessions, d \in Docs : WorksOn(s, d) => db.status[d] # "indexed"

(* Every step keeps it so: only the run's own publication ends it.         *)
LEMMA NextNotReady == Owned /\ WorkIsNotReady /\ [Next]_vars => WorkIsNotReady'
<1> SUFFICES ASSUME Owned, WorkIsNotReady, [Next]_vars PROVE WorkIsNotReady'
  OBVIOUS
<1>t. db.status \in [Docs -> DocumentStatus \cup {Absent}] /\ run \in [Sessions -> Run]
  BY DEF Owned, TypeOK, Store
<1>1. ASSUME NEW s \in Sessions, Begin(s) \/ Step(s),
             NEW t \in Sessions, NEW d \in Docs, WorksOn(t, d)'
      PROVE  db'.status[d] # "indexed"
  <2>m. Moves(s)
    BY <1>1, ThreadMoves DEF Owned
  <2>1. CASE t = s /\ Prepare(s)
    <3>1. run[s].doc = d
      BY <1>1, <2>m, <2>1 DEF WorksOn, Moves
    <3>2. db'.status = StatusOf(d, "indexing")
      BY <2>1, <3>1 DEF Prepare, PrepareForIndexing, SetStatus, ClearEmbeddings, StatusOf
    <3> QED
      BY <1>t, <3>2 DEF StatusOf
  <2>2. CASE ~(t = s /\ Prepare(s))
    <3>1. WorksOn(t, d)
      BY <1>1, <2>m, <2>2 DEF WorksOn, Moves
    <3>2. CASE Persist(s)
      <4>1. run[s].pc = "embed" /\ run'[s].pc = "finish"
        BY <1>t, <3>2 DEF Persist, Goto, At, Run
      <4>2. t = s
        BY <3>1, <4>1 DEF WorksOn, Owned, SingleIndexer, OwningPc
      <4> QED
        BY <1>1, <4>1, <4>2 DEF WorksOn
    <3>3. CASE ~Persist(s)
      BY <1>1, <3>1, <3>3, OnlyPersistPublishes DEF Owned, WorkIsNotReady
    <3> QED
      BY <3>2, <3>3
  <2> QED
    BY <2>1, <2>2
<1>2. ASSUME UNCHANGED run,
             \A d \in Docs : db'.status[d] = "indexed" => db.status[d] = "indexed"
      PROVE  WorkIsNotReady'
  BY <1>2 DEF WorkIsNotReady, WorksOn
<1>3. ASSUME NEW d \in Docs, ClearEmbeddingsOf(d) PROVE WorkIsNotReady'
  <2>1. UNCHANGED run /\ db'.status = StatusOf(d, "pending_embedding")
    BY <1>3 DEF ClearEmbeddingsOf, UpdateDocument, ClearEmbeddings, StatusOf
  <2> QED
    BY <1>2, <1>t, <2>1 DEF StatusOf
<1>4. CASE PrepareCommand
  <2>1. PICK failed : failed = ToRecover(db, {}, TRUE, setting)
    OBVIOUS
  <2>2. UNCHANGED run /\ db'.status = StatusFailed(failed)
    BY <1>4, <2>1 DEF PrepareCommand, Reconcile, FailDocuments, StatusFailed
  <2> QED
    BY <1>2, <2>2 DEF StatusFailed
<1>5. CASE Crash
  BY <1>5 DEF Crash, WorkIsNotReady, WorksOn, IdleRun
<1>6. CASE UNCHANGED vars
  BY <1>2, <1>6 DEF vars
<1> QED
  BY <1>1, <1>3, <1>4, <1>5, <1>6 DEF Next, Outside, WorkIsNotReady

(* It holds in every behaviour.                                            *)
LEMMA NotReadyAlways == Spec => []WorkIsNotReady
<1>1. Init => WorkIsNotReady
  BY DEF Init, WorkIsNotReady, WorksOn, IdleRun
<1> QED
  BY <1>1, NextNotReady, OwnedAlways, PTL DEF Spec

(* Reconciliation finds no fault in a Ready row of a running application.  *)
LEMMA ReadyIsSpared ==
  ASSUME Owned, Sound, up, NEW seen, NEW recover, NEW d \in Docs,
         db.status[d] = "indexed"
  PROVE  d \notin ToRecover(db, seen, recover, setting)
<1>1. db.version[d] = setting /\ IsComplete(db, d, db.version[d])
  BY DEF Sound, Current, GoodStore, GoodRow
<1> QED
  BY <1>1 DEF ToRecover, ProvenReady, TransientStatus

(* No step of a running application takes a Ready document for an          *)
(* incomplete one, in every behaviour.                                     *)
THEOREM ReadyIsNotTakenBack == Spec => ReadyIsNotFailedBehindItsBack
<1>1. ASSUME Owned, Sound, WorkIsNotReady, [Next]_vars, NEW d \in Docs,
             db.status[d] = "indexed", db'.status[d] = "failed", up
      PROVE  FALSE
  <2>t. db.status \in [Docs -> DocumentStatus \cup {Absent}]
    BY <1>1 DEF Owned, TypeOK, Store
  <2>f. ASSUME NEW failed, db'.status = StatusFailed(failed) PROVE d \in failed
    BY <1>1, <2>f DEF StatusFailed
  <2>1. ASSUME NEW s \in Sessions, Begin(s) \/ Step(s) PROVE FALSE
    <3>1. CASE MarkFailed(s) /\ db'.status = StatusFailed({run[s].doc})
      <4>1. d = run[s].doc /\ run[s].pc = "fail"
        BY <2>f, <3>1 DEF MarkFailed, At
      <4> QED
        BY <1>1, <2>1, <4>1 DEF WorkIsNotReady, WorksOn
    <3>2. CASE ReconcileStep(s) /\ db'.status =
                 StatusFailed(ToRecover(db, run[s].seen, RecoverTransient(s), setting))
      BY <1>1, <2>f, <3>2, ReadyIsSpared
    <3>3. CASE \/ db'.status = db.status
               \/ \E e, status : /\ db'.status = StatusOf(e, status)
                                 /\ status # "failed"
               \/ db'.status = [x \in Docs |-> Absent]
      BY <1>1, <2>t, <3>3 DEF StatusOf, Absent
    <3> QED
      BY <1>1, <2>1, <3>1, <3>2, <3>3, StatusSteps DEF Owned, Absent
  <2>2. ASSUME NEW e \in Docs, ClearEmbeddingsOf(e) PROVE FALSE
    <3>1. db'.status = StatusOf(e, "pending_embedding")
      BY <2>2 DEF ClearEmbeddingsOf, UpdateDocument, ClearEmbeddings, StatusOf
    <3> QED
      BY <1>1, <2>t, <3>1 DEF StatusOf
  <2>3. CASE PrepareCommand
    <3>1. db'.status = StatusFailed(ToRecover(db, {}, TRUE, setting))
      BY <2>3 DEF PrepareCommand, Reconcile, FailDocuments, StatusFailed
    <3> QED
      BY <1>1, <2>f, <3>1, ReadyIsSpared
  <2>4. CASE UNCHANGED db
    BY <1>1, <2>4
  <2> QED
    BY <1>1, <2>1, <2>2, <2>3, <2>4 DEF Next, Outside, Crash, vars
<1>2. Owned /\ Sound /\ WorkIsNotReady /\ [Next]_vars =>
        [\A d \in Docs :
           db.status[d] = "indexed" /\ db'.status[d] = "failed" => ~up]_vars
  BY <1>1
<1> QED
  BY <1>2, OwnedAlways, SoundAlways, NotReadyAlways, PTL
  DEF Spec, ReadyIsNotFailedBehindItsBack

-----------------------------------------------------------------------------
(* The managed copies without a row.                                       *)

(* Only a thread that is at it has copies to remove.                       *)
CopiesHeld == \A s \in Sessions : run[s].unlink # {} => run[s].pc = "unlink"

HandlesCopies(s) ==
  SaveUpload(s) \/ EndsIngestion(s) \/ DiscardUpload(s) \/ Delete(s) \/ Clear(s)
  \/ Unlink(s)

(* The other steps leave the copies, and concern threads that hold none.   *)
LEMMA FilesStay ==
  ASSUME ~StorageFaults, NEW s \in Sessions, Begin(s) \/ Step(s), ~HandlesCopies(s)
  PROVE  /\ files' = files
         /\ run[s].pc \notin {"ingest", "discard", "discard_duplicate"}
         /\ run[s].pc = "unlink" => run[s].unlink = {}
<1>1. CASE Begin(s)
  BY <1>1 DEF Begin, StartUpload, StartList, StartClear, StartReindex, StartDelete,
     Boot, RebuildContext, Start, At
<1>2. CASE UploadStep(s)
  BY <1>2 DEF UploadStep, HandlesCopies, EndsIngestion, SaveUploadFails,
     ReleaseUpload, At
<1>3. CASE IndexStep(s)
  BY <1>3 DEF IndexStep, ClaimUploaded, IndexingNotStarted, Prepare, PrepareFails,
     Unclaim, EmbedBatch, EmbedFails, Persist, PersistFails, MarkFailed,
     FinishIndexing, At
<1>4. CASE ReconcilingStep(s)
  BY <1>4 DEF ReconcilingStep, SnapDocuments, SnapPipeline, ReconcileStep,
     ReconcileFails, At
<1>5. CASE DeletionStep(s)
  BY <1>5 DEF DeletionStep, HandlesCopies, DeleteFails, ClearFails, UnlinkDone, At
<1> QED
  BY <1>1, <1>2, <1>3, <1>4, <1>5 DEF Step

(* Only a deletion takes rows away.                                        *)
LEMMA RowsStay ==
  ASSUME TypeOK, RunShape, NEW s \in Sessions, Begin(s) \/ Step(s),
         ~Delete(s), ~Clear(s), NEW d \in Docs, db.status[d] # Absent
  PROVE  db'.status[d] # Absent
<1>1. db.status \in [Docs -> DocumentStatus \cup {Absent}]
  BY DEF TypeOK, Store
<1>2. ASSUME NEW e, NEW status, db'.status = StatusOf(e, status), status # Absent
      PROVE  db'.status[d] # Absent
  BY <1>1, <1>2 DEF StatusOf
<1>3. ASSUME NEW failed, db'.status = StatusFailed(failed)
      PROVE  db'.status[d] # Absent
  BY <1>3 DEF StatusFailed, Absent
<1>4. "pending_embedding" # Absent /\ "indexing" # Absent /\ "indexed" # Absent
  BY DEF Absent
<1> QED
  BY <1>2, <1>3, <1>4, StatusSteps

(* A thread that has begun to remove copies is at it until none is left.   *)
LEMMA ThreadUnlinks ==
  ASSUME TypeOK, RunShape, CopiesHeld, NEW s \in Sessions, Begin(s) \/ Step(s),
         NEW t \in Sessions, run'[t].unlink # {}
  PROVE  run'[t].pc = "unlink"
<1>1. run \in [Sessions -> Run]
  BY DEF TypeOK
<1>2. Moves(s)
  BY ThreadMoves
<1>3. CASE t # s
  BY <1>2, <1>3 DEF Moves, CopiesHeld
<1>4. CASE t = s /\ (Delete(s) \/ Clear(s))
  <2>1. \E gone : run' = [run EXCEPT ![s] = [run[s] EXCEPT !.pc = "unlink", !.unlink = gone]]
    BY <1>1, <1>4 DEF Delete, Clear
  <2> QED
    BY <1>1, <1>4, <2>1 DEF Run
<1>5. CASE t = s /\ ~(Delete(s) \/ Clear(s))
  BY <1>2, <1>5 DEF Moves, CopiesHeld
<1> QED
  BY <1>3, <1>4, <1>5

(* Unless it interrupts an ingestion, a step of a thread leaves no further  *)
(* copy without a row or a holder.                                         *)
LEMMA ThreadHolds ==
  ASSUME Owned, Copies, CopiesHeld, NEW s \in Sessions, Begin(s) \/ Step(s),
         ~StorageFaults, ~IngestInterrupted(s),
         NEW d \in files' \ Present(db'), ~Orphaned(d)
  PROVE  \E t \in Sessions : HoldsCopy(t, d)'
<1>t. /\ run \in [Sessions -> Run] /\ files \subseteq Docs
      /\ db.status \in [Docs -> DocumentStatus \cup {Absent}]
  BY DEF Owned, TypeOK, Store
<1>m. Moves(s)
  BY ThreadMoves DEF Owned
<1>d. d \in Docs /\ db'.status[d] = Absent
  <2>1. files' \subseteq Docs
    BY ThreadScalars DEF Owned
  <2> QED
    BY <2>1 DEF Present
<1>o. ASSUME d \in files, db.status[d] = Absent, ~HoldsCopy(s, d)
      PROVE  \E t \in Sessions : HoldsCopy(t, d)'
  <2>1. PICK t \in Sessions : HoldsCopy(t, d)
    BY <1>d, <1>o DEF Orphaned, Present
  <2> QED
    BY <1>m, <1>o, <2>1 DEF Moves, HoldsCopy
<1>a. ~Delete(s) /\ ~Clear(s) => db.status[d] = Absent
  BY <1>d, RowsStay DEF Owned
<1>1. CASE SaveUpload(s)
  <2>1. PICK e \in Docs \ used :
          /\ files' = files \cup {e}
          /\ run' = [run EXCEPT ![s].pc = "ingest", ![s].doc = e]
    BY <1>1 DEF SaveUpload
  <2>2. run' = [run EXCEPT ![s] = [run[s] EXCEPT !.pc = "ingest", !.doc = e]]
    BY <1>t, <2>1
  <2>3. run'[s].pc = "ingest" /\ run'[s].doc = e
    BY <1>t, <2>2 DEF Run
  <2>4. ~HoldsCopy(s, d) /\ ~Delete(s) /\ ~Clear(s)
    BY <1>1 DEF SaveUpload, At, HoldsCopy, CopiesHeld, Delete, Clear
  <2>5. CASE d = e
    BY <2>3, <2>5 DEF HoldsCopy
  <2>6. CASE d # e
    BY <1>o, <1>a, <2>1, <2>4, <2>6
  <2> QED
    BY <2>5, <2>6
<1>2. CASE EndsIngestion(s)
  <2>1. /\ run[s].pc = "ingest" /\ run[s].unlink = {} /\ files' = files
        /\ ~Delete(s) /\ ~Clear(s) /\ run[s].doc \in Docs
    BY <1>2 DEF EndsIngestion, Ingest, IngestDuplicate, IngestFails,
       IngestInterrupted, At, CopiesHeld, Delete, Clear, Owned, RunShape
  <2>2. CASE d # run[s].doc
    BY <1>o, <1>a, <2>1, <2>2 DEF HoldsCopy
  <2>3. CASE d = run[s].doc
    <3>1. ~Ingest(s)
      <4>1. ASSUME NEW count \in ChunkIds,
                   db' = AddChunks(AddDocument(db, d), d, count)
            PROVE  FALSE
        <5>1. db'.status = StatusOf(d, "pending_embedding")
          BY <4>1 DEF AddChunks, AddDocument, UpdateDocument, StatusOf
        <5> QED
          BY <1>t, <1>d, <5>1 DEF StatusOf, Absent
      <4> QED
        BY <2>3, <4>1 DEF Ingest
    <3>2. /\ run'[s].doc = run[s].doc
          /\ run'[s].pc \in {"discard", "discard_duplicate"}
      BY <1>2, <1>t, <3>1 DEF EndsIngestion, IngestDuplicate, IngestFails,
         IngestInterrupted, Goto, Run
    <3> QED
      BY <2>3, <3>2 DEF HoldsCopy
  <2> QED
    BY <2>2, <2>3
<1>3. CASE DiscardUpload(s)
  <2>1. /\ files' = files \ {run[s].doc} /\ run[s].unlink = {}
        /\ ~Delete(s) /\ ~Clear(s)
    BY <1>3 DEF DiscardUpload, CopiesHeld, Delete, Clear, At
  <2> QED
    BY <1>o, <1>a, <2>1 DEF HoldsCopy
<1>4. CASE Delete(s) \/ Clear(s)
  <2>1. PICK gone \in SUBSET Docs :
          /\ run' = [run EXCEPT ![s] = [run[s] EXCEPT !.pc = "unlink", !.unlink = gone]]
          /\ \/ gone = {run[s].doc} /\ Delete(s)
             \/ gone = Present(db) /\ Clear(s)
    <3>1. {run[s].doc} \in SUBSET Docs \/ ~Delete(s)
      BY DEF Owned, RunShape, Delete, At
    <3>2. Present(db) \in SUBSET Docs
      BY DEF Present
    <3> QED
      BY <1>4, <1>t, <3>1, <3>2 DEF Delete, Clear
  <2>2. run'[s].unlink = gone /\ files' = files
    BY <1>4, <1>t, <2>1 DEF Run, Delete, Clear
  <2>3. ~HoldsCopy(s, d)
    BY <1>4 DEF Delete, Clear, At, HoldsCopy, CopiesHeld
  <2>4. CASE d \in gone
    BY <2>2, <2>4 DEF HoldsCopy
  <2>5. CASE d \notin gone
    <3>1. db.status[d] = Absent
      <4>1. CASE Clear(s) /\ gone = Present(db)
        BY <1>d, <2>5, <4>1 DEF Present
      <4>2. CASE Delete(s) /\ gone = {run[s].doc}
        <5>1. db'.status = StatusOf(run[s].doc, Absent)
          BY <4>2 DEF Delete, DeleteDocument, DeleteForDocument, StatusOf
        <5> QED
          BY <1>d, <1>t, <2>5, <4>2, <5>1 DEF StatusOf
      <4> QED
        BY <2>1, <4>1, <4>2
    <3> QED
      BY <1>o, <2>2, <2>3, <3>1
  <2> QED
    BY <2>4, <2>5
<1>5. CASE Unlink(s)
  <2>1. PICK e \in run[s].unlink :
          files' = files \ {e} /\ run' = [run EXCEPT ![s].unlink = @ \ {e}]
    BY <1>5 DEF Unlink
  <2>2. run'[s].unlink = run[s].unlink \ {e} /\ run[s].pc = "unlink" /\ d # e
    BY <1>5, <1>t, <2>1 DEF Unlink, At, Run
  <2>3. ~Delete(s) /\ ~Clear(s)
    BY <2>2 DEF Delete, Clear, At
  <2>4. CASE d \in run[s].unlink
    BY <2>2, <2>4 DEF HoldsCopy
  <2>5. CASE d \notin run[s].unlink
    BY <1>o, <1>a, <2>1, <2>2, <2>3, <2>5 DEF HoldsCopy
  <2> QED
    BY <2>4, <2>5
<1>6. CASE ~HandlesCopies(s)
  <2>1. /\ files' = files /\ ~Delete(s) /\ ~Clear(s)
        /\ run[s].pc \notin {"ingest", "discard", "discard_duplicate"}
        /\ run[s].pc = "unlink" => run[s].unlink = {}
    BY <1>6, FilesStay DEF HandlesCopies
  <2>2. ~HoldsCopy(s, d)
    BY <2>1 DEF HoldsCopy, CopiesHeld
  <2> QED
    BY <1>o, <1>a, <2>1, <2>2
<1> QED
  BY <1>1, <1>2, <1>3, <1>4, <1>5, <1>6 DEF HandlesCopies

(* What is to be removed is so in every state.                             *)
LEMMA NextHolds == Owned /\ CopiesHeld /\ [Next]_vars => CopiesHeld'
<1> SUFFICES ASSUME Owned, CopiesHeld, [Next]_vars PROVE CopiesHeld'
  OBVIOUS
<1>1. ASSUME NEW s \in Sessions, Begin(s) \/ Step(s) PROVE CopiesHeld'
  BY <1>1, ThreadUnlinks DEF CopiesHeld, Owned
<1>2. CASE UNCHANGED run
  BY <1>2 DEF CopiesHeld
<1>3. CASE Crash
  BY <1>3 DEF Crash, IdleRun, CopiesHeld
<1> QED
  BY <1>1, <1>2, <1>3 DEF Next, Outside, ClearEmbeddingsOf, PrepareCommand, vars

(* A step outside the threads that is no restart orphans nothing.          *)
LEMMA OutsideHolds ==
  ASSUME Owned, NEW d \in Docs, ~Orphaned(d),
         \/ \E e \in Docs : ClearEmbeddingsOf(e)
         \/ PrepareCommand
         \/ UNCHANGED vars
  PROVE  ~Orphaned(d)'
<1>1. ASSUME UNCHANGED <<run, files>>, Present(db') = Present(db) PROVE ~Orphaned(d)'
  BY <1>1 DEF Orphaned, HoldsCopy
<1>2. ASSUME NEW e \in Docs, ClearEmbeddingsOf(e) PROVE ~Orphaned(d)'
  BY <1>1, <1>2, RowsKept DEF ClearEmbeddingsOf, Owned, TypeOK
<1>3. CASE PrepareCommand
  <2>1. PICK failed : failed = ToRecover(db, {}, TRUE, setting)
    OBVIOUS
  <2>2. failed \subseteq Present(db)
    BY <2>1 DEF ToRecover
  <2> QED
    BY <1>1, <1>3, <2>1, <2>2, RowsKept DEF PrepareCommand, Reconcile, Owned, TypeOK
<1>4. CASE UNCHANGED vars
  BY <1>1, <1>4 DEF vars
<1> QED
  BY <1>2, <1>3, <1>4

(* For any number of threads, where the file operations succeed: of all the *)
(* steps of uploads, deletions, clears and reconciliations only the restart *)
(* and an interrupted ingestion leave a managed copy that has no row and    *)
(* that no thread is to ingest or to remove.                                *)
THEOREM NoCopyIsForgotten == Spec => CopiesAreOwned
<1>1. Init => CopiesHeld
  BY DEF Init, CopiesHeld, IdleRun
<1>2. Spec => []CopiesHeld
  BY <1>1, NextHolds, OwnedAlways, PTL DEF Spec
<1>3. ASSUME Owned, Copies, CopiesHeld, [Next]_vars, NEW d \in Docs,
             ~StorageFaults, ~Orphaned(d), Orphaned(d)'
      PROVE  Crash \/ \E s \in Sessions : IngestInterrupted(s)
  <2> SUFFICES ASSUME ~Crash, \A s \in Sessions : ~IngestInterrupted(s) PROVE FALSE
    OBVIOUS
  <2>1. ASSUME NEW s \in Sessions, Begin(s) \/ Step(s) PROVE FALSE
    <3>1. d \in files' \ Present(db') /\ \A t \in Sessions : ~HoldsCopy(t, d)'
      BY <1>3 DEF Orphaned
    <3>2. \E t \in Sessions : HoldsCopy(t, d)'
      BY <1>3, <2>1, <3>1, ThreadHolds
    <3> QED
      BY <3>1, <3>2
  <2>2. CASE (\E e \in Docs : ClearEmbeddingsOf(e)) \/ PrepareCommand \/ UNCHANGED vars
    BY <1>3, <2>2, OutsideHolds
  <2> QED
    BY <1>3, <2>1, <2>2 DEF Next, Outside
<1>4. Owned /\ Copies /\ CopiesHeld /\ [Next]_vars =>
        [\A d \in Docs :
           ~StorageFaults /\ ~Orphaned(d) /\ Orphaned(d)'
             => Crash \/ \E s \in Sessions : IngestInterrupted(s)]_vars
  BY <1>3
<1> QED
  BY <1>2, <1>4, OwnedAlways, CopiesAlways, PTL DEF Spec, CopiesAreOwned
=============================================================================
