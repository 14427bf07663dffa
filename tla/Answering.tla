----------------------------- MODULE Answering -----------------------------
(***************************************************************************)
(* Questions beside document operations.  A question reads the store in    *)
(* several statements, each of its own snapshot, and then generates for    *)
(* many seconds, while other sessions index and delete documents.  The     *)
(* documents are those of the abstract lifecycle, which IndexingPipeline   *)
(* implements: a searchable document is one that is ready there.           *)
(*                                                                         *)
(* A step of a session is one statement, one look at the registry or one   *)
(* call of a model, with the Python that runs until the next.              *)
(***************************************************************************)
EXTENDS DocumentLifecycle

CONSTANTS
  Sessions,   \* browser sessions, each with one script thread
  Askers,     \* those that ask questions; all of them delete documents
  NoDoc,      \* the registry has no owner of a document
  Faults      \* embedding and chat models may fail

ASSUME NoDocAssumption == NoDoc \notin Docs
ASSUME AskersAssumption == Askers \subseteq Sessions

VARIABLES
  owner,     \* the document that is being indexed
  pipeline,  \* an upload owns the pipeline
  filter,    \* CURRENT_FILTERS["document_ids"] of each session
  cards,     \* the messages with sources in each chat: the documents of each
  forgotten, \* ghost: what each session has deleted and cleaned up after
  task       \* what each session is doing

answerVars == <<phase, owner, pipeline, filter, cards, forgotten, task>>

Ready == {d \in Docs : phase[d] = "ready"}
Gone == {d \in Docs : phase[d] = "gone"}

(* ActiveIndexingRegistry.is_active *)
IsActive == owner # NoDoc \/ pipeline

Pc == {"idle", "owners", "list", "search", "embed", "candidates", "lexical", "rank",
       "generate", "answer", "confirmed", "delete", "forget"}

Task ==
  [pc         : Pc,
   removed    : SUBSET Docs,  \* ghost: removed before the question was asked
   busy       : Docs \cup {NoDoc}, \* active_document_ids
   selected   : SUBSET Docs,  \* request.document_ids, {} for None
   candidates : SUBSET Docs,  \* the documents of list_searchable_embeddings
   lexical    : SUBSET Docs,  \* the documents of search_lexical_chunks
   relevant   : SUBSET Docs,  \* candidates with a chunk above the minimum score
   evidence   : SUBSET Docs,  \* the documents of the context items
   cited      : SUBSET Docs]  \* the documents of the citations

Idle == [pc |-> "idle", removed |-> {}, busy |-> NoDoc, selected |-> {},
         candidates |-> {}, lexical |-> {}, relevant |-> {}, evidence |-> {},
         cited |-> {}]

At(s, pc) == task[s].pc = pc
Goto(s, pc) == task' = [task EXCEPT ![s].pc = pc]
Stop(s) == task' = [task EXCEPT ![s] = Idle]

documents == <<phase, owner, pipeline>>
session == <<filter, cards, forgotten>>

-----------------------------------------------------------------------------
(* Document operations of other threads, as the pipeline allows them.      *)

ClaimPipeline ==
  /\ ~IsActive
  /\ pipeline' = TRUE
  /\ UNCHANGED <<phase, owner, session, task>>

ReleasePipeline ==
  /\ pipeline /\ owner = NoDoc
  /\ pipeline' = FALSE
  /\ UNCHANGED <<phase, owner, session, task>>

Ingest(d) ==
  /\ pipeline /\ owner = NoDoc
  /\ Store(d)
  /\ UNCHANGED <<owner, pipeline, session, task>>

(* An upload indexes what it stored, a re-index any document.  The claim    *)
(* comes first and the row follows in a transaction of its own.            *)
Claim(d) ==
  /\ owner = NoDoc /\ d \in Kept
  /\ owner' = d
  /\ UNCHANGED <<phase, pipeline, session, task>>

Begin ==
  /\ owner \in Ready
  /\ Withdraw({owner})
  /\ UNCHANGED <<owner, pipeline, session, task>>

(* complete() holds the registry while it commits. *)
Complete ==
  /\ owner # NoDoc /\ Publish(owner)
  /\ owner' = NoDoc
  /\ UNCHANGED <<pipeline, session, task>>

Abort ==
  /\ owner # NoDoc /\ owner' = NoDoc
  /\ UNCHANGED <<phase, pipeline, session, task>>

Indexing ==
  \/ ClaimPipeline \/ ReleasePipeline \/ Begin \/ Complete \/ Abort
  \/ \E d \in Docs : Ingest(d) \/ Claim(d)

-----------------------------------------------------------------------------
(* A render: the sidebar lists the Ready documents, drops the filters of   *)
(* those that are not listed any more, and takes the user's selection.     *)
Render(s) ==
  /\ s \in Askers
  /\ At(s, "idle")
  /\ \E selection \in SUBSET (Ready \ {owner}) :
       filter' = [filter EXCEPT ![s] = selection]
  /\ UNCHANGED <<documents, cards, forgotten, task>>

(* _can_start_operation looks at the registry. *)
Ask(s) ==
  /\ s \in Askers
  /\ At(s, "idle") /\ ~IsActive
  /\ task' = [task EXCEPT ![s] = [Idle EXCEPT !.pc = "owners", !.removed = Gone]]
  /\ UNCHANGED <<documents, session>>

(* list_documents reads the owners and after them, in a transaction, the   *)
(* rows, which may have changed hands since.                               *)
Owners(s) ==
  /\ At(s, "owners")
  /\ task' = [task EXCEPT ![s].pc = "list", ![s].busy = owner]
  /\ UNCHANGED <<documents, session>>

(* QuestionWorkflow.answer and build_rag_request: without a Ready document *)
(* there is a fixed answer, with a selection that is not Ready an error.   *)
List(s) ==
  LET listed == Ready \ {task[s].busy} IN
  /\ At(s, "list")
  /\ IF listed # {} /\ filter[s] \subseteq listed
     THEN task' = [task EXCEPT ![s].pc = "search", ![s].selected = filter[s]]
     ELSE Stop(s)
  /\ UNCHANGED <<documents, session>>

(* The first line of search_query; the answer without evidence cites nothing. *)
Search(s) ==
  /\ At(s, "search")
  /\ Goto(s, IF IsActive THEN "answer" ELSE "embed")
  /\ UNCHANGED <<documents, session>>

EmbedQuery(s) ==
  /\ At(s, "embed")
  /\ Goto(s, "candidates") \/ (Faults /\ Stop(s))
  /\ UNCHANGED <<documents, session>>

(* Wrong variant: the filter by document is lost. *)
SearchableAll(selected) == Ready

(* Wrong variant: rows that a deletion left behind are found as well. *)
SearchableOrphans(selected) ==
  IF selected = {} THEN Ready \cup Gone ELSE (Ready \cup Gone) \cap selected

(* The predicates of both queries: complete index, and the filter if any.  *)
Searchable(selected) == IF selected = {} THEN Ready ELSE Ready \cap selected

Candidates(s) ==
  /\ At(s, "candidates")
  /\ task' = [task EXCEPT ![s].pc = "lexical",
                          ![s].candidates = Searchable(task[s].selected)]
  /\ UNCHANGED <<documents, session>>

(* A statement of its own: it may see a store that the first one did not.  *)
Lexical(s) ==
  /\ At(s, "lexical")
  /\ \E found \in SUBSET Searchable(task[s].selected) :
       task' = [task EXCEPT ![s].pc = "rank", ![s].lexical = found]
  /\ UNCHANGED <<documents, session>>

(* Wrong variant: lexical matches are results of their own. *)
EvidenceOfBoth(t, relevant) == relevant \cup t.lexical

(* A candidate stays for its score or for its lexical match; when no score *)
(* reaches the minimum, answer() takes none of them.                       *)
Evidence(t, relevant) ==
  IF relevant = {} THEN {} ELSE relevant \cup (t.lexical \cap t.candidates)

(* Ranking, section filter, budget and the overlap checks keep some of it. *)
Rank(s) ==
  /\ At(s, "rank")
  /\ \E relevant \in SUBSET task[s].candidates :
     \E evidence \in SUBSET Evidence(task[s], relevant) :
       task' = [task EXCEPT ![s].pc = IF evidence = {} THEN "answer" ELSE "generate",
                            ![s].relevant = relevant, ![s].evidence = evidence]
  /\ UNCHANGED <<documents, session>>

(* The model answers with citations, reports insufficient evidence, or     *)
(* fails twice.                                                            *)
Generate(s) ==
  /\ At(s, "generate")
  /\ \/ \E cited \in SUBSET task[s].evidence :
          task' = [task EXCEPT ![s].pc = "answer", ![s].cited = cited]
     \/ Faults /\ Stop(s)
  /\ UNCHANGED <<documents, session>>

(* The message is appended to the chat, with a source card per citation. *)
Answer(s) ==
  /\ At(s, "answer")
  /\ cards' = [cards EXCEPT ![s] = @ \cup ({task[s].cited} \ {{}})]
  /\ Stop(s)
  /\ UNCHANGED <<documents, filter, forgotten>>

-----------------------------------------------------------------------------
(* Deletion of one document or of all, by a session.                       *)

StartDelete(s) ==
  /\ At(s, "idle") /\ ~IsActive
  /\ Goto(s, "confirmed")
  /\ UNCHANGED <<documents, session>>

(* The workflow asks the registry again, and never after that. *)
CheckDelete(s) ==
  /\ At(s, "confirmed")
  /\ IF IsActive THEN Stop(s) ELSE Goto(s, "delete")
  /\ UNCHANGED <<documents, session>>

Delete(s) ==
  /\ At(s, "delete")
  /\ \/ \E chosen \in SUBSET Kept :
          /\ chosen # {}
          /\ Remove(chosen)
          /\ task' = [task EXCEPT ![s].pc = "forget", ![s].removed = chosen]
     \/ Stop(s) /\ UNCHANGED phase
  /\ UNCHANGED <<owner, pipeline, session>>

(* Wrong variant: a message goes only if nothing else is cited in it. *)
WithoutAnswersAbout(messages, removed) ==
  {m \in messages : ~(m \subseteq removed)}

(* A message with any citation of what was removed goes as a whole. *)
WithoutMessagesCiting(messages, removed) ==
  {m \in messages : m \cap removed = {}}

(* _clear_document_references_from_session: of this session only. *)
Forget(s) ==
  /\ At(s, "forget")
  /\ filter' = [filter EXCEPT ![s] = @ \ task[s].removed]
  /\ cards' = [cards EXCEPT ![s] = WithoutMessagesCiting(@, task[s].removed)]
  /\ forgotten' = [forgotten EXCEPT ![s] = @ \cup task[s].removed]
  /\ Stop(s)
  /\ UNCHANGED documents

-----------------------------------------------------------------------------
AnswerInit ==
  /\ phase \in [Docs -> {"new", "ready"}]
  /\ \A d, e \in Kept : ContentOf[d] = ContentOf[e] => d = e
  /\ owner = NoDoc /\ pipeline = FALSE
  /\ filter = [s \in Sessions |-> {}]
  /\ cards = [s \in Sessions |-> {}]
  /\ forgotten = [s \in Sessions |-> {}]
  /\ task = [s \in Sessions |-> Idle]

Question(s) ==
  \/ Owners(s) \/ List(s) \/ Search(s) \/ EmbedQuery(s) \/ Candidates(s)
  \/ Lexical(s) \/ Rank(s) \/ Generate(s) \/ Answer(s)

Deletion(s) == CheckDelete(s) \/ Delete(s) \/ Forget(s)

AnswerNext ==
  \/ Indexing
  \/ \E s \in Sessions :
       Render(s) \/ Ask(s) \/ StartDelete(s) \/ Question(s) \/ Deletion(s)

AnswerSpec ==
  /\ AnswerInit /\ [][AnswerNext]_answerVars
  /\ \A s \in Sessions : WF_answerVars(Question(s) \/ Deletion(s))

-----------------------------------------------------------------------------
AnswerTypeOK ==
  /\ phase \in [Docs -> Phase]
  /\ owner \in Docs \cup {NoDoc} /\ pipeline \in BOOLEAN
  /\ filter \in [Sessions -> SUBSET Docs]
  /\ cards \in [Sessions -> SUBSET SUBSET Docs]
  /\ forgotten \in [Sessions -> SUBSET Docs]
  /\ task \in [Sessions -> Task]

(* A deleted document is excluded from retrieval: no question asked after  *)
(* the deletion cites it, whatever statement saw what.                     *)
DeletedIsNotCited ==
  \A s \in Sessions : task[s].pc # "forget" => task[s].cited \cap task[s].removed = {}

(* A question with a source filter is answered from the selection only,    *)
(* whatever was published between its two queries.                         *)
SelectionIsRespected ==
  \A s \in Sessions : task[s].selected # {} => task[s].cited \subseteq task[s].selected

(* Lexical matches alone are no evidence: a citation needs a candidate of  *)
(* the vector query, and some candidate above the minimum score.           *)
CitationNeedsEvidence ==
  \A s \in Sessions : task[s].cited # {} =>
    task[s].relevant # {} /\ task[s].cited \subseteq task[s].candidates

(* A session that has deleted documents and cleaned up never shows a       *)
(* source card or a filter of them again: no later answer cites them and   *)
(* no later render offers them.  Nothing is promised of other sessions.    *)
OwnCardsAreForgotten ==
  \A s \in Sessions :
    /\ filter[s] \cap forgotten[s] = {}
    /\ \A m \in cards[s] : m \cap forgotten[s] = {}
=============================================================================
