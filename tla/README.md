# A verification development for GroundNote

GroundNote is a local document assistant: a Streamlit server process in which
several script threads share one SQLite database, one directory of managed
document copies and one runtime for local models.  This directory holds TLA+
models of what those threads do, TLC configurations that check them on small
instances, and TLAPS proofs of the properties that matter most.

Paths below are relative to `src/src/groundnote/`.

## 1. Inventory

| component | state it keeps | operations | what is hard | what makes it correct |
|---|---|---|---|---|
| SQLite store (`storage/`) | rows of documents, chunks with vectors, FTS rows outside the foreign keys | repository methods inside a unit of work | partial failure, FTS rows forgotten | Ready means complete; nothing half-built outside Ready rows |
| Ownership registry (`services/indexing_ownership.py`) | process-local table from document (or "the pipeline") to token | claim, claim_pipeline, complete, fail, release | interleaving of threads, lost at a restart | a token names exactly the run at work |
| Indexing (`services/indexing.py`) | the vectors of a run, in memory until the end | prepare, embed in batches, persist, mark failed | failure at any stage, BaseException, a row that goes away | one transaction publishes a document, by its owner |
| Reconciliation (`services/index_integrity.py`, `bootstrap.py`) | none | reconcile at the bootstrap and in every list | registry snapshot older than the transaction | stale rows recover, live or good rows are left alone |
| Document workflow (`ui/workflows.py`) | none | upload, list, delete, clear, re-index, ask | file system and database are not one transaction | a row always has its copy; a deleted document never returns |
| Question answering (`retrieval/`, `rag/`) | none, reads the store in several statements | search, select context, generate, cite | the store changes between the statements | only searchable documents are cited |
| Model lifecycle (`ai/`, `embeddings/service.py`) | loaded providers, who loaded them | load, generate, unload | one provider shared by all threads, failed unloads | models loaded by GroundNote are released, those of others never |
| Session state (`ui/state.py`, `ui/uploads.py`, `app.py`) | active operation, flash notice, uploader key, chat | begin, end, recover, register upload | old script threads run on beside new ones, clocks | an operation ends once, a selection is processed once |
| Migrations (`storage/migrations.py`) | schema version | apply | crash between scripts | all or nothing per script, in order |
| Context and grounded answer (`rag/context.py`, `rag/service.py`, `rag/citations.py`) | none | select the sources of a prompt, generate, repair, cite | boundaries of three limits, two attempts, any text | budgets kept, every id resolves to a source of the prompt |
| Chunking (`chunking/`) | none | split, pack, merge, overlap | four loops that compare joined sizes and look ahead | every letter once and in order, no chunk over the maximum or across a page |
| Ranking (`retrieval/service.py`, `retrieval/similarity.py`) | none, three reads of the store | expand typos, score, rank, add neighbours, sort | deletions between the reads, ties, two sorts by different scores | the best are kept, a neighbour continues a ranked chunk, filters hold |
| Section filter and evidence (`rag/section_filter.py`, `rag/service.py`) | none | keep named sections, judge the overlap with the question | several verdicts in turn over different lists | order kept, an empty context asks no model |
| Validation and parsers (`documents/`) | lines since the last heading, title, code flag, count of characters | check, open, read line by line or page by page | order of the checks, limits met half way, pages that fail | every line under its heading and on its page |
| Settings, logging, diagnostics, release, wording | none of interest | pure input and output | | not modelled (section 8) |

The components meet in the script threads: a page load lists documents (and so
reconciles), an upload claims the pipeline, ingests, claims the document,
indexes, lists again and lets go; deletion asks the registry once and then
changes the store and the file system; a question reads the store and uses the
models that indexing uses.

## 2. Modules

| module | role |
|---|---|
| `Documents` | identities and states of a document row |
| `DocumentStore` | the store as a value and the repository methods as operators on it; the two definitions of a complete index |
| `IndexingRegistry` | the registry as a value and its methods as operators |
| `IndexingPipeline` | the threads: every step of upload, indexing, reconciliation, deletion; faults, interrupts, restarts, maintenance |
| `PipelineProperties` | invariants, action and liveness properties, the refinement mapping |
| `DocumentLifecycle` | the abstract specification of a document's life |
| `MCPipeline` | small instances of the pipeline for TLC |
| `IndexingPipelineProofs` | lemmas about the repository operators, the inductive invariant, the theorems, and that the pipeline implements `DocumentLifecycle`, proved |
| `Answering`, `MCAnswering` | questions and deletions of sessions, on the documents of `DocumentLifecycle` |
| `AnsweringProofs` | its invariant and theorems, proved |
| `ContextSelection` | the loop of `select_context` |
| `GroundedAnswer` | `RagService.answer` around that loop with a search that may find anything, EXTENDS it: the abstract specification of an answer |
| `QueryTexts` | what retrieval asks of words: kinds, containment, one edit apart, stems |
| `HybridRanking` | typo correction, ranks, boosts and orders as operators over a corpus |
| `Retrieval` | `SemanticRetrievalService.search`, read by read |
| `SectionFilter` | `filter_results_for_explicit_sections` |
| `RetrievedAnswer`, `MCGroundedAnswer` | the composition: `RagService.answer` with that search, the section filter and the verdicts on the evidence; implements `GroundedAnswer` |
| `RetrievedAnswerProofs` | the invariants of the service and of the search, the refinement, and the theorems, proved |
| `ModelLifecycle`, `ModelProperties`, `MCModels` | the runtime, the providers, the lifecycle of chat models, the embedding service and the sessions that use them |
| `ModelLifecycleProofs` | the invariants of the chat lifecycle, of other applications' models and of a lone session, and their theorems, proved |
| `FileValidation` | the checks of a file and of a DOCX archive, in their order |
| `DocumentParsing` | `process_file` and the four parsers as loops over lines, blocks or pages |
| `TextLayout` | a document as positions: where its paragraphs, sentences and words begin and end |
| `Chunking`, `MCChunking` | the four loops of the chunker on such a document |
| `ParsedChunking`, `MCParsing` | the composition: a file from validation over its sections to its chunks |
| `ChunkingProofs` | what each loop leaves to the next one, and the theorems, proved |
| `ParsingProofs` | the invariant of the parsers, that what they hand over is laid out and has every word, and the theorems for files, proved |
| `SequenceInduction` | what a fold over a sequence computes, proved without a theorem of induction |
| `UiSession`, `MCUiSession` | the script runs of one browser session over its session state |
| `UiSessionProofs` | that a selection is processed once and that operations overlap only when one is stale, proved |

An operator marked *wrong variant* is a plausible bug next to the definition it
varies.  No specification uses it; `PROJECT.json` says which property fails when
it replaces the definition, which shows that the property can fail.

### How the pipeline corresponds to the code

`db` is the committed database, `files` the managed copies on disk, `reg` the
registry, `run[s]` the program counter and locals of script thread `s`,
`setting` the embedding model version of the settings, `up` whether the
application context has been built.  `used` are the identities already drawn:
the document id and the name of the copy are drawn separately in the code but
one upload attempt has one of each, so one value stands for both.

A step is what happens between two points where another thread may run: one
registry method (all hold one process-wide lock), one unit of work, one file
operation, one embedding batch.  A unit of work begins with a read and keeps
its SQLite lock to its commit, so it is one step; a lock that cannot be had
within the busy timeout is one of the failures of `StorageFaults`.
`complete` runs the final transaction while it holds the registry lock, so
`Persist` changes database and registry at once.  Connections are autocommit, so
the read part of a list is pure and is left out; its reconciliation is not.
The context is built again only where `st.cache_resource` was cleared, or by a
second process: that is the operation `boot` and the maintenance kind `prepare`.

The constants choose the environment: `StorageFaults` lets any unit of work or
file operation fail, `Interrupts` lets Streamlit raise its BaseException in any
callback, `Maintenance` admits `clear_embeddings` and `groundnote prepare` in a
second process, `MaxCrashes` bounds the restarts, each of which may change the
embedding model.

### How the questions correspond to the code

`Answering` extends the abstract `DocumentLifecycle`: `phase` says what
retrieval sees of a document, and `Indexing` is what `IndexingPipeline` does to
it, with the registry reduced to the owned document and the pipeline flag.
`task[s]` is the question or deletion of a session, one step for each statement,
look at the registry or call of a model.  A search is two SELECTs outside a
transaction, so `Candidates` and `Lexical` may see different stores.  `filter`
and `cards` are the part of the session state that names documents: `cards` has one
set of documents for each message with sources, and the history variable `forgotten`
keeps what the session has deleted and cleaned up after.

`ContextSelection` and `GroundedAnswer` take one question further down: what the
search returned and the checks before the prompt (choices there), the loop
over the results with its counters (`next`, `selected`, `used`), the two
attempts of `_generate_with_citations`, and the exits of `answer`.  A text of the
chat model is a record of what the code asks about it: whether it is well
formed, which ids it cites, its verdict, and what `repair_repetition` leaves of
it.  The model may return any such text.

### How the search corresponds to the code

`Retrieval` has one action for each read or stage of `search`, and `stage` is where it
is: the bounds of `make_semantic_query`, the look at the registry, the vector of the
query, the vocabulary for typos, the candidates with their vectors, the lexical matches,
the scores, the rank, the neighbours, the second sort.  Between two reads
`DeleteDocument` of another session may run; `complete` is the set of the documents
that the reads see.  The sort of the candidates is one `RankNext` per place of the
list, the loop over neighbours one turn a step.  Scores are integers in millionths: the
boosts and the step of a neighbour are exact, a reciprocal rank is rounded down.  Given
from outside are the similarity of each chunk, the order in which FTS5 returns matches
(any), and, in `QueryTexts`, how words look: which contains which, which are one edit
apart, which are numbers or stopwords.  `page` 0 stands for None.

`RetrievedAnswer` puts that search in front of the rest of `answer`: the minimum
score, the section filter, whose canonical titles depend on the order of a Python set
(`Spellings` leaves it open), the overlap of words, and the entities, of which one
form each is compared (`Forms`).  When the prompt has been built, nothing reads the
query or the search again and both are dropped, so that equal prompts are one state.

### How the parsers correspond to the code

A file of `DocumentParsing` is a sequence of lines (blocks in a DOCX file), each with a
kind, a page, a title where it is a heading, and the sizes of its words; what makes the bytes
unreadable is a set of faults.  `at`, `title`, `buffer`, `inCode`, `sections` and
`characters` are the locals of the parsers, and each turn of their loops is a step.  An
error is the end of `parsing`, under the name of its class.  `FileValidation` has the
checks as a sequence with the error of each, so that of two faults the first decides.
`ParsedChunking` hands the sections over as the chunker's paragraphs: lines
joined, blank lines dropped outside a block of backticks, a line without an end mark
run into the next sentence.

### How the chunker corresponds to the code

`Chunking` takes one document through `_split_oversized_text` with `_pack_text_units`,
`_pack_units`, `_merge_short_fragments` and `_apply_overlap`, one turn of a loop a step:
`units` is what the loop at work reads, `result` what it writes, `current` and `next` its
locals.  A unit is a range of positions of the document with the size of its text, so
that a text is never spelled out, and what is lost, repeated or put out of order shows.
Where sentences and blank lines are is part of the document; where an overlap
prefix begins, at most `Overlap` characters from the end, and whether the unit already
begins with it, is left open.  `TextLayout` gives the positions of a document from the
sizes of its words, with one blank behind each; a turn of the loop in `_hard_split` is
one segment (`SplitHard`), the last one `EndSplitHard`.

### How the models correspond to the code

`resident` is the runtime: where each model is and who brought it there.
`provider[m]` is the set of fields of the provider object that are set, so that a
method that clears some of them is a set difference.  `active` and `lock` are
those of `ChatModelLifecycle`, `loaded` the flag of `EmbeddingService`.  A load is
one step for each call to the runtime, because the embedding provider is used by
all threads without a lock; the methods of the chat lifecycle hold its lock, and
those that call the runtime once are one step.  `job[s].call` is the place inside a
load, `job[s].pc` the place in the operation that wants it.  Other applications
load and unload what is theirs, but leave a model alone while GroundNote loads
it.  When `is_loaded` raises, `_model_was_loaded` answers True: the load goes on
(calls `load_unanswered` and `service_unanswered`) without an owner on record, and
what it brings into memory is "unclaimed": GroundNote loaded it, takes it for
another application's, and no unload asks for it.  `scenario` is the frozen record of one
behaviour: its users, the operations and answer modes they choose from, whether the
models are kept loaded, whether the runtime's calls may fail, whether `is_loaded`
may raise, and whether other applications use it.

### How the session state corresponds to the code

`operation`, `token` and `notice` are the entries ACTIVE_OPERATION,
LAST_UPLOAD_SELECTION_TOKEN and FLASH_NOTICE, `chosen` the file in the uploader of
the current widget key.  `run[t]` is a script run from the top of `main()`; an event
of the user makes another thread `current`, and a superseded run stops at its next
Streamlit call or access to the session state, in a `finally` block too, so that
every action but those of pure work needs `t = current`.  The flags
`*_IN_PROGRESS` are written and never read outside `ui/state.py`; they are left out.
`calm` is set by `CalmsDown` and stays: after any past, once the page is at rest, the
stale interval is over and nothing is pending, the user waits for each run and no
other session indexes.  What the past left behind, an operation that was never ended
or a token of a selection that is gone, must then hinder nothing.

## 3. Runs

| run | instance | question |
|---|---|---|
| `faults` | 2 threads, 2 documents, 3 chunks in batches of 2, 2 model versions, one restart, all faults, interrupts and maintenance | Is a Ready document complete, and only published by its owner; is nothing partial visible; does the registry tell the truth; is every step one of `DocumentLifecycle`? |
| `liveness` | 2 threads, 2 uploads of one file, interrupts and one restart, fair | Can the uploads store the file twice, leave a row indexing without an owner, or orphan a copy; does every claim end, and every row leave `indexing`? |
| `mutation` | 2 threads, 1 document | finding: a row is deleted while an owner is active |
| `models` | 2 chatting sessions, on a failing runtime or on one whose `is_loaded` raises; 2 sessions with all operations beside other applications; 1 session beside other applications, with and without failures and with and without an `is_loaded` that raises | Is the lifecycle's record exact, and at most one chat model in memory? Is a model of another application ever unloaded? Do provider, record and flag of a lone session agree, and does anything fail by itself? |
| `models_remembered` | 2 sessions, a runtime that never fails | finding: a model is in memory that no provider remembers |
| `answers_questions` | 2 documents, an asking and a deleting session | May a question cite what was deleted before it, is not selected, or has no evidence; may a session still show what it has deleted? |
| `answers_grounded` | a corpus of 7 chunks in 3 documents, 6 of them searchable, 7 questions, limits of 4 candidates, 3 characters and 2 sources | Does a search keep the best and add only what follows them, beside deletions; are the context's limits kept at their boundaries; do ids resolve to the prompt, in order; is every step one of `GroundedAnswer`? |
| `answers_limit` | the instance of `answers_grounded` | finding: a context has more characters than the limit |
| `chunking` | 6,759 files of four types, of up to 4 lines, 3 pages or 3 blocks, with every fault and limit | Is every line under its heading and on its page; do the loops keep every letter, the order, the places and the maximum, and does what is left short say so? |
| `chunking_words` | documents of up to 3 paragraphs, 8 shapes, 2 places | finding: a word that would fit is cut |
| `ui_runs` | 2 script threads, a file, a question, a mutation | Is a selection processed once, is every notice shown once, and does every click begin its operation, whatever was interrupted before? |
| `ui_blocked` | 2 script threads, a file | finding: a blocked selection is not reset |

### Bounds, and why they are enough

- *Threads.*  All interactions of the pipeline are pairwise: a registry snapshot
  against a transaction, a claim against a claim, a deletion against a claim.
  Two threads show each; the theorems below hold for any number.
- *Documents.*  Deletion and reconciliation treat every document alike; two make
  "the other document" exist.  In `liveness` both have one content, so that the
  second upload is a duplicate as long as the row of the first is there.
  `Docs` also bounds the uploads, since an upload draws a fresh identity.
- *Chunks.*  Three chunks in batches of two give a full batch, a short last
  batch, and rows with one chunk.
- *Restarts* are bounded by `MaxCrashes`.  One is enough to reach each state a
  crash can leave; the theorems below hold for any number.
- *Search.*  The similarities are 300,000, 299,900 and 100,000 millionths with a minimum of
  240,000: ties, a difference that a reciprocal rank turns over, and values under the
  minimum.  Lists of 1 to 4 results are shorter, exactly as long and longer than what is
  eligible; 0 and 5 are outside the bounds.  The corpus has a section in two chunks, a second
  section, two pages, a word that is one edit from a title, and a document of an older
  version.  The cut of the lexical matches at `LexicalLimit` is not reached by six chunks, and
  the limit of 5,000 rows of the vocabulary is left out.
- *Grounded answer.*  With a limit of 3 characters the lengths 0, 1, 2, 6 and 7
  are nothing, a fit, an exact fit of two, the hard limit and one beyond it.
- *Files.*  A limit of 3 pages and 70 characters is met exactly and passed; each fault occurs
  alone and with each other one; of an archive every size is at a limit and one beyond.
  Files inside a block of backticks have no blank lines; in the model such a line counts no
  characters there, whereas the chunker keeps its line end.
- *Chunking.*  The target is 6, the maximum 8 and the minimum 5, so that two units of 1
  are still short together, 1 and 5 fit the maximum but not the target, and 2 and 5
  exceed it; the shapes are shorter than the minimum, exactly it, and too long in
  each of the four ways the code splits.  Code blocks with runs of blanks are left out.
  The files of `chunking` are laid out as such documents with the same shapes.
- *Requests.*  In `ui_runs` each request is made once, and the counters
  `processed` and `shown` stop at 2, which is already a violation.
- Symmetry is used in invariants and action properties only; the runs with
  liveness properties use none.  `CHECK_DEADLOCK FALSE` is said where the system
  really stops: the answer has been given, or the user has no more requests.

## 4. Fairness

The pipeline assumes weak fairness of each thread's next step and of the bootstrap
after a restart: the operating system schedules threads, an embedding call returns
or raises, and somebody starts the application again.  It assumes nothing of the
user: no operation has to be started, and no fault has to stop.  `liveness` needs
`StorageFaults = FALSE`: where the store refuses the failure record as well, a row
stays `indexing` until a restart, which is what `IndexingIsOwned` excludes too.
`CopiesAreOwned` excludes file operations that fail, since `_remove_file` swallows their
error and leaves the copy.

The session assumes weak fairness of each script thread and of `Grows`: the stale
interval of an operation passes.  No user action is fair, `CalmsDown` included: the
properties say what holds from the moment at which the user is patient, if there is one.  `models` and
`answers_*` check safety only.

## 5. Findings

- `mutation`.  `DocumentWorkflow` asks `is_active()` once
  (`ui/workflows.py:227`, `246`) and deletes in a later transaction without the
  registry lock.  ADR-0049 (`DECISIONS.md:579-580`) says that document mutations are
  blocked while any owner is active.  The run shows an upload that claims in
  between and loses its row; `ReadyOnlyByOwner` and the refinement show that the
  upload then neither publishes nor resurrects it.
- `models_remembered`.  `FoundryEmbeddingProvider.load` records its ownership before
  the model arrives, without a lock (`ai/foundry_embeddings.py:44`).  An unload of
  another session clears the record in between, and the model that then arrives in
  memory is one that no unload asks for.  `DECISIONS.md:503-504` says that wrappers
  record whether GroundNote initiated a load.  The chat providers, behind their
  lock, keep this (`ChatModelsAreRemembered`), and so does the embedding provider
  of a lone session (`AloneEmbeddingIsKnown`).  A load after an `is_loaded` that raised
  records nothing either (`ai/foundry_chat.py:221-226`, `ai/foundry_embeddings.py:180-185`):
  the model then counts as another application's.  The code chooses that on purpose, so
  the ownership properties leave such a model out by name ("unclaimed"), and
  `OthersModelsStay` shows what the choice is for.
- `chunking_words`.  A sentence over the maximum that is one of several goes to the hard
  split at once (`chunking/hybrid_recursive.py:125`) and is cut inside words;
  `docs/chunking-strategy.md:51-52` says that such a sentence is split by whitespace, and
  that only a single token over the maximum is cut.
- `answers_limit`.  A first chunk longer than `rag_max_context_characters`, up to twice as
  long, becomes the only source (`rag/context.py:38-44`);
  `docs/rag-generation.md:30-31` says that GroundNote stops before exceeding the limit.
  `ContextFits` states what the code does keep.
- `ui_blocked`.  A selection whose token was registered and whose operation then may
  not start is neither processed nor reset (`app.py:205`), so that every later
  render takes it for one that was handled;
  `docs/phase-8-knowledge-base-session-management.md:64` says that a blocked selection
  is reset.

Smaller differences were met as well; none has a run of its own, and each is modelled as the
code has it.

- A text without a status line counts as supported (`parse_grounded_status`), whereas
  `docs/rag-generation.md:39-41` asks for a declared STATUS.
- A result list as long as the limit keeps the combined order of `_rank_candidates`; a shorter
  one is sorted once more, by the score it shows (`retrieval/service.py:317-320`).
  `docs/semantic-retrieval.md:62` names score descending for every list.
- Typo expansion adds the neighbours of every word that has exactly one, of words of the
  vocabulary too, whereas `docs/semantic-retrieval.md:55-56` speaks of typos.
- The section filter may leave only chunks below the minimum score, and which title counts as
  the canonical one of two spellings depends on the order of a Python set.
- The Markdown parser closes a block of code at any fence, so that a line with `#` behind a
  `~~~` inside a block of backticks becomes a heading (`docs/document-processing.md:38` says
  that code blocks are preserved), and the chunker knows no `~~~` at all.
- The DOCX parser counts extracted characters without the line ends between blocks, the check
  after it (`documents/service.py:152`) with them.
- `_apply_overlap` compares the prefix, which is stripped, with the text before it, which is
  not: after a hard split whose segment has a blank at an edge, the whole of that segment may
  be repeated, which the comparison is there to prevent.

## 6. Proofs

The first section of `IndexingPipelineProofs` proves what each repository operator returns,
that the five counts of `is_complete` agree exactly of a row whose chunks all have a vector and
an FTS row of their own (`IsCompleteMeansEveryChunk`), and `IntegrityCheckIsRetrievalPredicate`:
the counts of `index_integrity` and the SQL
predicate of retrieval, written independently in the code, agree on every row
marked indexed, in any store.

`IndexingPipelineProofs` proves `InductiveInvariant` for all constants, in the form
Init, one lemma for each group of actions, and a theorem that combines them by
PTL.  None of the invariants is inductive alone.  `ReadyIsComplete` needs the
ownership of the row (`OwnershipMatchesWork`), because only an owner may persist,
and `NothingPartial`, because the final transaction starts from a row without
vectors; `OwnershipMatchesWork` needs `RunShape`, which ties the program counter to the
operation, and `SingleIndexer`; that the version is the one in force needs
`BootFirst`, that nothing but a bootstrap with an empty snapshot runs before the
context is up; `RowHasCopy` needs `CopyShape`, that a copy waiting to be removed
belongs to no row and to no upload.  `PublishedByOwner` proves the action property
`ReadyOnlyByOwner` from the same invariant.  The theorems hold for any documents,
threads, chunks, batch size, number of restarts, and with every kind of fault; they
use the ASSUMEs of the constants only.

The second half of the module builds on it.  `ImplementsLifecycle` is proved action by action,
because the abstract phase of a document is a function of its row: a step that leaves the
status and the copy of a complete index alone is a stutter.  `Worked` says which rows a run is
responsible for, and with it every row that is `indexing` has a live owner, a restart, or a
failed store to explain it (`IndexingIsOwned`).  `WorkIsNotReady` says that the document
at which a run works is not Ready until its own final transaction, so that what a failing
run records is never the failure of a Ready document (`ReadyIsNotFailedBehindItsBack`).
`ThreadHolds` follows a copy, step by step, from its creation to its row or its removal, and with
`CopiesHeld`, that only a thread that is at it has copies to remove, it gives `CopiesAreOwned`.

`AnsweringProofs` proves the safety of questions.  `QuestionInvariant` says, for a question
in any stage, that what was gone when it began stays gone, that its candidates exclude
that and lie in the selection, that evidence lies in the candidates, and that what is cited
lies in the evidence; the first conjunct needs that no action of `DocumentLifecycle` revives
an identity.  `TheDeletedAreForgotten` is that a session shows no message that cites a document
it has deleted, at any later time: no answer of its own can cite it again (`ShowsTheSame`,
`OwnStepsForget`), since a session asks and deletes one after the other.

The first half of `RetrievedAnswerProofs` proves `AnswerInvariant`: the loop's invariant (the count is
zero until the first source, which alone may have twice the limit), and what is
known at each place of the service.  From it follow that a grounded answer cites
only sources of its prompt, whatever the model writes; that sources are distinct
and in order; the bound on what the loop counts; and that there are at most two
attempts, each with a context.
`ContextFits` is about the sum of the lengths of the sources' contents, which the loop never
computes: its counter is shown to be that sum, source by source (`FoldRuns`).  The tags, the
metadata and the escaping that `format_context` adds are counted neither in the code nor here.

The second half proves the composition.  `SearchInvariant` says what is `Known` at each
stage, and of the lists being built (`ListInvariant`): no two results of one chunk, all of them
from what was read, each ranked one at least as good as what is left, each neighbour behind a
ranked chunk of its page and section.  The refinement of `GroundedAnswer` then makes every
theorem about the abstract answer one about the composition; it needs `AnswerInvariant` again,
because some guards of the abstract service follow only from what is known at its place.
Assumed are a corpus with distinct positions, stored chunks, well-formed requests and what
`QueryTexts` says of words; TLC evaluates all four.

`ModelLifecycleProofs` has three invariants.  `ChatInvariant` is for any number of sessions and
any runtime: the lock is held by the session whose operation is under it (`LockMatchesWork`),
nothing is loaded before the model that was active is out (`SwitchedFirst`), and the provider
knows what the record names (`ProviderKnows`).  `ModelsAreOurs` says that a provider that
believes it owns a model that is out has a load under way; without it an unload could reach a
model that another application has loaded meanwhile.  `AloneKnows` and `AloneServed` are about
one session: without a second thread between the calls of a load, provider, record and flag
agree with the runtime, but for a model whose `is_loaded` raised ("unclaimed"), and what the record or the flag says is loaded can be used, so that no
operation fails unless the runtime does.

`UiSessionProofs` proves, for any number of script threads, that no selection is processed
twice: `SelectionInvariant` says that the current run sees the selection as it is in the widget,
and that a processed selection keeps its token for as long as it is shown.  `WorkIsMarked` says
that the operation of a run at work is the active one or has passed the stale interval, from
which `OverlapOnlyWhenStale` follows.

`ChunkingProofs` proves `ChunkingInvariant`, which says what each loop leaves to the next
one.  `ShortChunksAreWarned` is the hard one, because `_merge_short_fragments` does not
look again at what it has merged: it holds because packing leaves neighbours of one
place that exceed the target together (`AllApart`), because the unit written last still
ends with the unit read last (`Covers`), and because the minimum is at most the target,
which the validator of the settings says.  That a strip at the end shortens nothing
without a warning needs that only a segment of a hard split may begin or end with a
blank.  `ChunksFit` follows too.

The second half of the module proves `LayoutInvariant`: what a loop has written, and then what
it has not read, lie one behind the other (`Covering`), each of one place (`OfPlace`), and have
every letter of the document (`Holds`).  Each turn of each loop moves the border between the
two: a segment of a hard split and its rest are where the text unit was, a join is from the
begin of the left unit to the end of the right one, and a strip drops blanks only.  The loop
that overlaps puts a copy in front of a unit, which fits in the stripped unit before it as the
packing left it.  `NothingIsLost` and `PlacesAreKept` follow at the end.

Assumed are valid settings, a maximum over 1, and how a document is laid out
(`IsLaidOut`): paragraphs, sentences and words are in order, begin and end with a
letter, and sentences and words have every letter of their paragraph.  Of the documents of
`MCTexts` TLC evaluates that; of the documents that the parsers hand over it is proved.

`ParsingProofs` proves `ParserInvariant`, for files of any type, length and faults.  Its core
is `LinesRead`: the lines before `at` that are not blank are in the sections or in the buffer,
in the order of the file; the title is that of the last heading above; and `inCode` says
whether the number of fences above is odd, without which a heading in a block of code could
not be told from one that counts (`CodeChanges`).  A flush moves the buffer behind the
sections (`FlushIs`), a heading begins a buffer of its own (`OneHeadingMore`), and so the last
flush leaves every line in its section.  For PDF files `PagesRead` says the same of pages,
and needs that the lines of a file are in the order of their pages.
`EveryLineIsInItsSection` follows.

The module then proves `LaidOutIsLaidOut`: paragraphs of sentences of words, each with a size,
are laid out one behind the other as the chunker asks.  `PiecesAre` says that no piece of a
section is without text, since a block of backticks that is open has its fence, and
`GluedLinesAre` that its lines have sentences.  Together they make what the parser hands over
a document of the chunker (`ParsedTextIsLaidOut`), and `FileInvariant`, which is
`ParserInvariant` and then the two invariants of the chunker, carries `ChunksFit`, `NothingIsLost`,
`PlacesAreKept` and `ShortChunksAreWarned` over to every file.  Assumed are the shape of a file
(`FilesAreShaped`: pages in order, marks that have characters) and names for its pages and headings
(`FilesHavePlaces`); TLC evaluates both.

`NothingIsLost` begins with the text that the chunker gets; `FilesKeepTheirWords` says what that
is: the words of all lines that can be read, in the order of the file.  `Spelt(f, seq)` is what the
elements of a sequence stand for, one after the other, and is the only thing that can be
built up element by element (`SpeltBy`).  So one equation for each step of a loop is enough: a line
joined to others adds what it says, also where it runs on into their last sentence
(`GluedSays`), and a line adds what it says to the pieces, whether it ends one, begins one or
goes on (`TakeSays`).  Pieces, sections, paragraphs and rows of words are sequences of sequences
(`SpeltTwice`), and a list that is empty may be left out (`SpeltOnly`).  The sections have the lines of
the file by `ParserInvariant`; both are increasing, so that with the same lines they are the
same sequence (`IncreasingAreEqual`).

`SequenceInduction` replaces the theorems of induction that take an operator.  The natural numbers
are well-founded by the theorem on finite subsets (`LeastNatural`, `Upwards`), and that is enough to
construct, for a step function given as a function, the sequence of intermediate results
(`ChainExists`), the function by which the community modules define a fold (`FoldExists`), and the
equality of the two (`FoldRuns`).  A property of a fold is then one of every result along the way.

## 7. What is only model-checked

Liveness, which is out of the prover's reach: `OwnersLetGo`, `IndexingSettles`,
`ClicksAreCarriedOut`, `SelectionIsProcessed`, `NoticeIsShown`.  The findings are counterexamples
on small instances, and nothing is proved about them.

## 8. Not modelled

Routing, language and prompts: matching of words and building of text, whose content the models
abstract.  Settings, logging, diagnostics, release, wording: input and output without a state
that another part reads.  The checks of shape and finiteness of a vector: one of the failures
of the step that calls them.  Migrations: each script and the record of its version are one
transaction, before any thread runs, so that a crash leaves a prefix of them; the models start
from the newest schema.  The PowerShell launcher, which starts and stops the process from
outside; of its effects the restarts are modelled.

Of the parts that are modelled, left out are: SQLite's locking inside a unit of work; the values
of the vectors and their codec; downloads and the streaming interface of models; chat history,
settings and layout of a session; the contents of bytes, which are a fault or none; spaces
inside a line; the errors of a document whose filename or checksum is refused; and
the error of an answer without citations where the setting `rag_require_citations`, True by
default, is off.  `PROJECT.json` lists every component with its reason.

One hazard has no property: the idle clock of one session may run out while another indexes or
answers with the same models (`app.py:1046`).  The clock exists only in the interface and
belongs to a session, the models to the process; `Models_all` lets a session unload at any
moment, which is what the clock can do, and so the consequence for the record is checked, but no
text of the repository says what should happen to the other session.

## 9. What is left

Crashes between the migrations of several versions, and the launcher's session file.
