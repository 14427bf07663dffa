----------------------------- MODULE Retrieval -----------------------------
(***************************************************************************)
(* SemanticRetrievalService.search: one search, read by read, while other   *)
(* sessions may delete documents.  The scores of the vectors are given, and *)
(* the full text index may put what matches in any order.                  *)
(***************************************************************************)
EXTENDS HybridRanking

CONSTANTS
  CandidateLimit,  \* settings.retrieval_candidate_limit
  Requests         \* the searches that are tried

ASSUME RequestsAssumption ==
  /\ CandidateLimit \in 1 .. 500
  /\ \A r \in Requests :
       /\ r.words \in Seq(Words) /\ r.topK \in Nat /\ r.minimum \in Int
       /\ r.score \in [Stored -> -Unit .. Unit]

VARIABLES
  request,     \* the search, with the similarity of each chunk to the query
  complete,    \* the documents that are indexed completely
  stage,       \* where the search is
  expanded,    \* the query after the correction of typos
  candidates,  \* the chunks that were read with their vectors
  matches,     \* the chunks that the full text index found, the best first
  combined,    \* the score by which a candidate is ranked
  found,       \* the results
  position     \* of the loop over the results that looks for neighbours

retrievalVars ==
  <<request, complete, stage, expanded, candidates, matches, combined, found, position>>

Stages == {"query", "embed", "expand", "candidates", "matches", "score", "rank",
           "neighbours", "sort", "done", "failed"}

Modes == {"semantic", "hybrid", "adjacent"}

score == request.score

ToResult(chunk, points, mode) == [chunk |-> chunk, score |-> points, mode |-> mode]

(* A filter is <<>> for None, or <<the set of what it allows>>. *)
Passes(filter, value) == filter # <<>> => value \in filter[1]

(* The clauses of a read; the vocabulary's read has only the first two. *)
DocumentMatches(chunk) ==
  /\ Corpus[chunk].document \in complete
  /\ Passes(request.documents, Corpus[chunk].document)
  /\ Passes(request.types, Corpus[chunk].type)

Searchable ==
  {chunk \in Stored : /\ DocumentMatches(chunk)
                      /\ Corpus[chunk].current
                      /\ Passes(request.pages, Corpus[chunk].page)}

-----------------------------------------------------------------------------
RetrievalInit(requests) ==
  /\ request \in requests
  /\ complete = request.complete
  /\ stage = "query" /\ expanded = <<>> /\ candidates = {} /\ matches = <<>>
  /\ combined = <<>> /\ found = <<>> /\ position = 1

(* make_semantic_query *)
Bounded ==
  /\ request.topK \in 1 .. 20 /\ request.topK <= CandidateLimit
  /\ request.minimum \in -Unit .. Unit
  /\ request.pages # <<>> => request.pages[1] \subseteq Nat \ {0}

MakeQuery ==
  /\ stage = "query"
  /\ stage' = IF Bounded THEN "embed" ELSE "failed"
  /\ UNCHANGED <<request, complete, expanded, candidates, matches, combined, found, position>>

(* While documents are being indexed the search returns nothing. *)
IndexingActive ==
  /\ stage = "embed"
  /\ stage' = "done"
  /\ UNCHANGED <<request, complete, expanded, candidates, matches, combined, found, position>>

EmbedQuery ==
  /\ stage = "embed"
  /\ stage' = "expand"
  /\ UNCHANGED <<request, complete, expanded, candidates, matches, combined, found, position>>

(* The model, the store or a vector that cannot be decoded or compared. *)
StepFails ==
  /\ stage \in {"embed", "expand", "candidates", "matches", "score"}
  /\ stage' = "failed"
  /\ UNCHANGED <<request, complete, expanded, candidates, matches, combined, found, position>>

(* Titles and names of complete documents, whatever the pages asked for. *)
Vocabulary ==
  {word \in UNION {Range(Corpus[c].title) \cup Range(Corpus[c].name) :
                     c \in {chunk \in Stored : DocumentMatches(chunk)}} : Is(word, "long")}

Expand ==
  /\ stage = "expand"
  /\ expanded' = Expanded(request.words, Vocabulary)
  /\ stage' = "candidates"
  /\ UNCHANGED <<request, complete, candidates, matches, combined, found, position>>

ReadCandidates ==
  /\ stage = "candidates"
  /\ candidates' = Searchable
  /\ stage' = "matches"
  /\ UNCHANGED <<request, complete, expanded, matches, combined, found, position>>

(* The index has the words of content, title and name of the file. *)
HasWord(chunk, word) ==
  \/ word \in Range(Corpus[chunk].content) \cup Range(Corpus[chunk].title)
  \/ Occurs(<<word>>, Corpus[chunk].name)

LexicalMatches ==
  {chunk \in Searchable :
     \E word \in Range(request.words) \cup Range(expanded) : HasWord(chunk, word)}

LexicalLimit == Max({CandidateLimit, 4 * request.topK})

(* Any order, cut at the limit; nothing when the index is not available. *)
ReadMatches ==
  /\ stage = "matches"
  /\ \/ \E list \in Orders(LexicalMatches, LAMBDA a, b : a # b) :
          matches' = Cut(list, LexicalLimit)
     \/ matches' = <<>>
  /\ stage' = IF candidates = {} THEN "done" ELSE "score"
  /\ UNCHANGED <<request, complete, expanded, candidates, combined, found, position>>

-----------------------------------------------------------------------------
ScoreCandidates ==
  /\ stage = "score"
  /\ combined' = [c \in candidates |-> Combined(expanded, score, candidates, matches, c)]
  /\ stage' = "rank"
  /\ UNCHANGED <<request, complete, expanded, candidates, matches, found, position>>

Better(a, b) == combined[a] > combined[b] \/ (combined[a] = combined[b] /\ Earlier(a, b))

(* A chunk with enough similarity or with a word of the query. *)
Eligible == {c \in candidates : score[c] >= request.minimum \/ c \in Range(matches)}

Mode(chunk) == IF chunk \in Range(matches) THEN "hybrid" ELSE "semantic"

Ranked == {i \in DOMAIN found : found[i].mode # "adjacent"}

Chosen == {found[i].chunk : i \in DOMAIN found}

Left == Eligible \ Chosen

RankRoom == Len(found) < Min({CandidateLimit, request.topK})

(* The sort, one place of the list after the other. *)
RankNext ==
  /\ stage = "rank" /\ RankRoom
  /\ \E c \in Left :
       /\ \A other \in Left \ {c} : Better(c, other)
       /\ found' = Append(found, ToResult(c, score[c], Mode(c)))
  /\ UNCHANGED <<request, complete, stage, expanded, candidates, matches, combined, position>>

RankEnds ==
  /\ stage = "rank" /\ (~RankRoom \/ Left = {})
  /\ stage' = IF Len(found) >= request.topK THEN "done" ELSE "neighbours"
  /\ UNCHANGED <<request, complete, expanded, candidates, matches, combined, found, position>>

(* Wrong variant: the number of results is looked at after the loop only. *)
SearchingOn == stage = "neighbours" /\ position \in Ranked

Searching == stage = "neighbours" /\ position \in Ranked /\ Len(found) < request.topK

(* The next chunk of the document, if it is of the same page and section. *)
NextOf(chunk) ==
  {c \in candidates : /\ Corpus[c].document = Corpus[chunk].document
                      /\ Corpus[c].index = Corpus[chunk].index + 1}

(* Wrong variant: the title is not compared. *)
SamePage(chunk, other) == Corpus[chunk].page = Corpus[other].page

SamePlace(chunk, other) ==
  /\ Corpus[chunk].page = Corpus[other].page
  /\ Corpus[chunk].title = Corpus[other].title

Neighbours(chunk) == {c \in NextOf(chunk) : c \notin Chosen /\ SamePlace(chunk, c)}

TakeNeighbour ==
  /\ Searching
  /\ \E c \in Neighbours(found[position].chunk) :
       found' = Append(found, ToResult(c, Max({found[position].score - 100, -Unit}), "adjacent"))
  /\ position' = position + 1
  /\ UNCHANGED <<request, complete, stage, expanded, candidates, matches, combined>>

NoNeighbour ==
  /\ Searching
  /\ Neighbours(found[position].chunk) = {}
  /\ position' = position + 1
  /\ UNCHANGED <<request, complete, stage, expanded, candidates, matches, combined, found>>

NeighboursEnd ==
  /\ stage = "neighbours" /\ ~Searching
  /\ stage' = "sort"
  /\ UNCHANGED <<request, complete, expanded, candidates, matches, combined, found, position>>

(* Only a list with room for neighbours is put in the order of its scores. *)
HigherScore(a, b) == a.score > b.score \/ (a.score = b.score /\ Earlier(a.chunk, b.chunk))

SortResults ==
  /\ stage = "sort"
  /\ \E list \in Orders({found[i] : i \in DOMAIN found}, HigherScore) :
       found' = Cut(list, request.topK)
  /\ stage' = "done"
  /\ UNCHANGED <<request, complete, expanded, candidates, matches, combined, position>>

RetrievalStep ==
  \/ MakeQuery \/ IndexingActive \/ EmbedQuery \/ StepFails
  \/ Expand \/ ReadCandidates \/ ReadMatches
  \/ ScoreCandidates \/ RankNext \/ RankEnds \/ TakeNeighbour \/ NoNeighbour \/ NeighboursEnd \/ SortResults

(* Another session deletes a document between two reads. *)
DeleteDocument ==
  /\ stage \in {"expand", "candidates", "matches"}
  /\ \E document \in complete : complete' = complete \ {document}
  /\ UNCHANGED <<request, stage, expanded, candidates, matches, combined, found, position>>

-----------------------------------------------------------------------------
RetrievalTypeOK ==
  /\ stage \in Stages
  /\ expanded \in Seq(Words)
  /\ candidates \subseteq Stored
  /\ matches \in Seq(Stored)
  /\ found \in Seq([chunk : Stored, score : Int, mode : Modes])
  /\ position \in Nat

(* The search is about to return. *)
Finished == stage = "done" /\ candidates # {}

RankedChunks == {found[i].chunk : i \in Ranked}

(* A search returns as many chunks as it may, and no chunk that it leaves   *)
(* out is better than one that it ranked: neighbours, which a shorter list  *)
(* is filled up with, and the second sort never push a ranked chunk out.   *)
BestAreKept ==
  Finished =>
    /\ Cardinality(RankedChunks) = Min({request.topK, Cardinality(Eligible)})
    /\ \A kept \in RankedChunks, other \in Eligible \ RankedChunks : Better(kept, other)

Allows(chunk) ==
  /\ Passes(request.documents, Corpus[chunk].document)
  /\ Passes(request.types, Corpus[chunk].type)
  /\ Passes(request.pages, Corpus[chunk].page)

(* What a search returns is within its filters and no chunk twice; a chunk  *)
(* that is there as a neighbour continues one that was ranked, on the same  *)
(* page and under the same title, and is never the best of the list.       *)
NeighboursFollow ==
  Finished =>
    /\ Cardinality(Chosen) = Len(found) /\ Len(found) <= request.topK
    /\ \A chunk \in Chosen : Allows(chunk)
    /\ \A i \in DOMAIN found \ Ranked : \E j \in Ranked :
         LET this == Corpus[found[i].chunk]  that == Corpus[found[j].chunk]
         IN  /\ this = [that EXCEPT !.index = @ + 1, !.content = this.content,
                                    !.current = this.current]
             /\ found[j].score >= found[i].score
=============================================================================
