--------------------------- MODULE DocumentStore ---------------------------
(***************************************************************************)
(* The SQLite store of GroundNote as one value, and its repository methods *)
(* as operators from a store to a store.  A unit of work is a composition  *)
(* of these operators, committed as one step by the module that uses them. *)
(*                                                                         *)
(* A store is a record of functions over the document ids:                 *)
(*   status   the documents.status column, Absent where there is no row    *)
(*   version  indexed_at and the embedding model, dimension and version    *)
(*            of the documents row, which the code always writes together: *)
(*            one member of Versions, or NoVersion for NULL                *)
(*   chunks   the chunk_index values of the document_chunks rows           *)
(*   vector   per chunk, the model version of its embedding or NoVersion   *)
(*   fts      the chunks that have a row in document_chunks_fts            *)
(* The FTS table is separate from the foreign keys: nothing cascades to it.*)
(***************************************************************************)
EXTENDS Documents, Naturals, FiniteSets

CONSTANTS
  Versions,    \* embedding model versions the settings may name
  NoVersion,   \* NULL in an embedding or metadata column
  MaxChunks    \* settings.maximum_document_chunks

ASSUME MaxChunksAssumption == MaxChunks \in Nat \ {0}
ASSUME NoVersionAssumption == NoVersion \notin Versions

ChunkIds == 1..MaxChunks

Store ==
  [status  : [Docs -> DocumentStatus \cup {Absent}],
   version : [Docs -> Versions \cup {NoVersion}],
   chunks  : [Docs -> SUBSET ChunkIds],
   vector  : [Docs -> [ChunkIds -> Versions \cup {NoVersion}]],
   fts     : [Docs -> SUBSET ChunkIds]]

NoVectors == [c \in ChunkIds |-> NoVersion]

EmptyStore ==
  [status  |-> [d \in Docs |-> Absent],
   version |-> [d \in Docs |-> NoVersion],
   chunks  |-> [d \in Docs |-> {}],
   vector  |-> [d \in Docs |-> NoVectors],
   fts     |-> [d \in Docs |-> {}]]

Present(db) == {d \in Docs : db.status[d] # Absent}

(* Wrong variant: documents not yet indexed are overlooked. *)
IsDuplicateOfIndexed(db, d) ==
  \E e \in Present(db) : db.status[e] = "indexed" /\ ContentOf[e] = ContentOf[d]

(* A row with the same sha256 exists: get_by_sha256, and the UNIQUE column. *)
IsDuplicate(db, d) == \E e \in Present(db) : ContentOf[e] = ContentOf[d]

-----------------------------------------------------------------------------
(* Documents.                                                              *)

UpdateDocument(db, d, status, version) ==
  [db EXCEPT !.status[d] = status, !.version[d] = version]

(* A status change that copies the other columns of the row read. *)
SetStatus(db, d, status) == [db EXCEPT !.status[d] = status]

AddDocument(db, d) == UpdateDocument(db, d, "pending_embedding", NoVersion)

(* Deleting the row cascades to its chunks and their embeddings, not to FTS. *)
DeleteDocument(db, d) ==
  [db EXCEPT !.status[d] = Absent, !.version[d] = NoVersion,
             !.chunks[d] = {}, !.vector[d] = NoVectors]

-----------------------------------------------------------------------------
(* Chunks, embeddings and FTS rows.                                        *)

(* Rows are added without an embedding, and so without an FTS row. *)
AddChunks(db, d, count) ==
  [db EXCEPT !.chunks[d] = 1..count, !.vector[d] = NoVectors]

Embedded(db, d) == {c \in db.chunks[d] : db.vector[d][c] # NoVersion}

ClearEmbeddings(db, d) ==
  [db EXCEPT !.vector[d] = NoVectors, !.fts[d] = {}]

(* The UPDATE touches the rows that exist; its row count is compared with  *)
(* the number of embeddings, so a missing row makes it raise.              *)
CanSaveEmbeddings(db, d, saved) == saved \subseteq db.chunks[d]

SaveEmbeddings(db, d, saved, version) ==
  [db EXCEPT !.vector[d] =
     [c \in ChunkIds |-> IF c \in saved THEN version ELSE @[c]]]

(* Replace the FTS rows of a document by those of its embedded chunks. *)
SyncFts(db, d) == [db EXCEPT !.fts[d] = Embedded(db, d)]

(* Wrong variant: the FTS rows are left to the cascade, which has no FTS. *)
DeleteChunksOnly(db, d) == [db EXCEPT !.chunks[d] = {}, !.vector[d] = NoVectors]

DeleteForDocument(db, d) ==
  [db EXCEPT !.chunks[d] = {}, !.vector[d] = NoVectors, !.fts[d] = {}]

(* clear_all_chunks and delete_all in one transaction. *)
ClearAll(db) == EmptyStore

-----------------------------------------------------------------------------
(* The two definitions of a complete index.                                *)

(* DocumentIndexIntegrity.is_complete over the counts index_integrity       *)
(* selects.  A chunk has at most one FTS row: the row shares its rowid.     *)
IsComplete(db, d, version) ==
  LET chunkCount      == Cardinality(db.chunks[d])
      embeddedCount   == Cardinality(Embedded(db, d))
      compatibleCount ==
        Cardinality({c \in db.chunks[d] : db.vector[d][c] = version})
      ftsCount        == Cardinality(db.fts[d])
      validFtsCount   == Cardinality(db.fts[d] \cap db.chunks[d])
  IN  /\ chunkCount > 0
      /\ embeddedCount = chunkCount
      /\ compatibleCount = chunkCount
      /\ ftsCount = chunkCount
      /\ validFtsCount = chunkCount

(* The SQL predicate that every retrieval query repeats. *)
CompleteIndexClauses(db, d) ==
  /\ db.status[d] = "indexed"
  /\ db.version[d] # NoVersion
  /\ db.chunks[d] # {}
  /\ \A c \in db.chunks[d] : db.vector[d][c] = db.version[d]
  /\ \A c \in db.chunks[d] : c \in db.fts[d]
  /\ Cardinality(db.fts[d]) = Cardinality(db.chunks[d])

(* Wrong variant: the settings in force are not compared. *)
ProvenBySelf(db, d, version) == IsComplete(db, d, db.version[d])

(* Reconciliation keeps a Ready row only if its own metadata and its index  *)
(* match the settings in force.                                             *)
ProvenReady(db, d, version) ==
  db.version[d] = version /\ IsComplete(db, d, version)

(* Mark a set of documents FAILED with their embeddings and FTS rows gone. *)
FailDocuments(db, failed) ==
  [db EXCEPT
     !.status  = [d \in Docs |-> IF d \in failed THEN "failed" ELSE @[d]],
     !.version = [d \in Docs |-> IF d \in failed THEN NoVersion ELSE @[d]],
     !.vector  = [d \in Docs |-> IF d \in failed THEN NoVectors ELSE @[d]],
     !.fts     = [d \in Docs |-> IF d \in failed THEN {} ELSE @[d]]]
=============================================================================
