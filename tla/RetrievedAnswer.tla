-------------------------- MODULE RetrievedAnswer --------------------------
(***************************************************************************)
(* RagService.answer with the search that it really makes: Retrieval finds  *)
(* the chunks, SectionFilter drops those of other sections, and the words   *)
(* of the context decide whether the chat model is asked.  It implements   *)
(* GroundedAnswer, where all of that is a choice.                          *)
(***************************************************************************)
EXTENDS Retrieval, SectionFilter, GroundedAnswer

ASSUME ChunksAreStored ==
  /\ Chunks = Stored
  /\ \A r \in Requests : r.sizes \in [Chunks -> Sizes] /\ r.typed \subseteq Range(r.words)
  /\ \A r \in Requests : r.topK <= MaxFound

answerVars == <<vars, retrievalVars>>

(* The locals of a search that has returned. *)
Nothing == [words |-> <<>>]

Forgotten ==
  /\ expanded' = <<>> /\ candidates' = {} /\ matches' = <<>> /\ combined' = <<>>
  /\ position' = 1

AnswerInit ==
  /\ RetrievalInit(Requests)
  /\ SelectionInit(request.sizes, <<>>)
  /\ pc = "search" /\ attempt = 0 /\ looped = FALSE
  /\ answer = NoText /\ outcome = "none"

SearchOn == pc = "search" /\ RetrievalStep /\ UNCHANGED vars

DocumentDeleted == pc = "search" /\ DeleteDocument /\ UNCHANGED vars

SearchRaises ==
  /\ stage = "failed"
  /\ SearchFails
  /\ UNCHANGED retrievalVars

SearchReturns ==
  /\ stage = "done"
  /\ results' = [i \in DOMAIN found |-> found[i].chunk]
  /\ Search
  /\ Forgotten
  /\ UNCHANGED <<request, complete, stage, found>>

-----------------------------------------------------------------------------
TopScore == Max({found[i].score : i \in DOMAIN found})

TooLow == found # <<>> /\ TopScore < request.minimum

ConfidenceTooLow ==
  /\ pc = "found" /\ TooLow
  /\ LowConfidence
  /\ UNCHANGED retrievalVars

Sections == [i \in DOMAIN results |-> [title   |-> Corpus[results[i]].title,
                                       content |-> Corpus[results[i]].content]]

Titles == {section.title : section \in Range(Sections)}

Keep(places) ==
  \E order \in Orders(places, LAMBDA i, j : i < j) :
     results' = [k \in DOMAIN order |-> results[order[k]]]

NamedSections ==
  /\ pc = "found" /\ ~TooLow
  /\ \E spelling \in Spellings(Titles) :
       /\ IsSpelling(spelling)
       /\ Keep(KeptSections(request.words, Sections, spelling))
  /\ pc' = "select"
  /\ UNCHANGED <<size, next, selected, used, selection, attempt, looped, answer, outcome>>
  /\ UNCHANGED retrievalVars

-----------------------------------------------------------------------------
(* The words of the chunks in the prompt. *)
ContextWords == Terms(UNION {Range(Corpus[chunk].content) : chunk \in Range(selected)})

ContentTerms ==
  {word \in Terms(Range(request.words)) : ~Is(word, "short") /\ ~Is(word, "content stopword")}

(* No word in common is taken as a hint only if the query has a year or a  *)
(* code like m4.                                                           *)
IsPlausible ==
  \/ ContentTerms \cap ContextWords # {}
  \/ \A word \in ContentTerms : ~Is(word, "year") /\ ~Is(word, "code")

(* A word that was typed as a name is compared in one of its forms, which  *)
(* the order of a set decides.                                             *)
StrongEntities(form) ==
  {form[word] : word \in {w \in DOMAIN form : /\ ~Is(form[w], "short")
                                              /\ ~Is(form[w], "entity stopword")}}

NamedWords ==
  Terms(UNION {Range(Corpus[chunk].content) \cup Range(Corpus[chunk].title)
                 \cup Range(Corpus[chunk].name) : chunk \in Range(selected)})

MissesEntities(form) == Cardinality(StrongEntities(form) \ NamedWords) >= 2

Forms == {form \in [request.typed -> Words] : \A word \in request.typed : form[word] \in Terms({word})}

(* Wrong variant: what an empty context lacks is not looked at. *)
SupportsWords(form) == IsPlausible /\ ~MissesEntities(form)

Supports(form) == selected # <<>> /\ IsPlausible /\ ~MissesEntities(form)

(* With the prompt built, the query has no other use than to be repeated.  *)
BuildPrompt ==
  /\ pc = "check"
  /\ \E form \in Forms : Supports(form)
  /\ pc' = "generate"
  /\ UNCHANGED <<selectionVars, attempt, looped, answer, outcome>>
  /\ request' = Nothing /\ complete' = {} /\ found' = <<>>
  /\ UNCHANGED <<stage, expanded, candidates, matches, combined, position>>

NoEvidence ==
  /\ pc = "check"
  /\ \E form \in Forms : ~Supports(form)
  /\ Ends("insufficient")
  /\ UNCHANGED <<selectionVars, attempt, looped, answer, retrievalVars>>

Continue ==
  /\ SelectContext \/ ChatFails \/ Generate \/ Rejected \/ Accepted \/ Retry \/ Finish
  /\ UNCHANGED retrievalVars

AnswerNext ==
  \/ SearchOn \/ DocumentDeleted \/ SearchRaises \/ SearchReturns
  \/ ConfidenceTooLow \/ NamedSections
  \/ BuildPrompt \/ NoEvidence \/ Continue

AnswerSpec == AnswerInit /\ [][AnswerNext]_answerVars

-----------------------------------------------------------------------------
(* The service with its search behaves as the service that may find        *)
(* anything: whatever is ranked, filtered or judged, the context is used   *)
(* in the order of the list, never when it is empty, and each way to fail   *)
(* has its own end.                                                        *)
ImplementsGroundedAnswer == Spec
=============================================================================
