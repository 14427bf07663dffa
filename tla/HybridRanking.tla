--------------------------- MODULE HybridRanking ---------------------------
(***************************************************************************)
(* How a search ranks chunks: the similarity of vectors, the reciprocal     *)
(* ranks of two lists and a boost for titles.  Scores are in millionths.   *)
(***************************************************************************)
EXTENDS QueryTexts, FiniteSetsExt

CONSTANT Corpus   \* the stored chunks, with the document of each

Stored == DOMAIN Corpus

FileTypes == {"pdf", "docx", "md", "txt"}

ASSUME CorpusAssumption ==
  /\ Corpus \in [Stored -> [document : Nat, index : Nat, page : Nat, type : FileTypes,
                            name : Seq(Words), title : Seq(Words), content : Seq(Words),
                            current : BOOLEAN]]
  /\ \A a, b \in Stored :
       Corpus[a].document = Corpus[b].document =>
         /\ Corpus[a].index = Corpus[b].index => a = b
         /\ Corpus[a].type = Corpus[b].type /\ Corpus[a].name = Corpus[b].name
  /\ IsFiniteSet(Stored)

Unit == 1000000

(* The order of ties. *)
Earlier(a, b) ==
  \/ Corpus[a].document < Corpus[b].document
  \/ Corpus[a].document = Corpus[b].document /\ Corpus[a].index < Corpus[b].index

(* The lists of S in an order: one, when the order is total on S. *)
Orders(S, Before(_, _)) ==
  {list \in [1 .. Cardinality(S) -> S] :
     \A i, j \in 1 .. Cardinality(S) : i < j => Before(list[i], list[j])}

Cut(list, n) == SubSeq(list, 1, IF n < Len(list) THEN n ELSE Len(list))

-----------------------------------------------------------------------------
(* The words of a query that a vocabulary corrects: long ones that have one *)
(* neighbour in it, known words included.                                  *)
Corrections(word, vocabulary) == {term \in vocabulary : OneEdit(word, term)}

IsTypoCandidate(word) == Is(word, "long") /\ Is(word, "plain")

Expanded(query, vocabulary) ==
  [i \in DOMAIN query |->
     LET terms == Corrections(query[i], vocabulary)
     IN  IF IsTypoCandidate(query[i]) /\ Cardinality(terms) = 1
         THEN CHOOSE term \in terms : TRUE ELSE query[i]]

-----------------------------------------------------------------------------
Reciprocal(rank) == Unit \div (60 + rank)

SemanticRank(score, candidates, chunk) ==
  1 + Cardinality({c \in candidates :
        score[c] > score[chunk] \/ (score[c] = score[chunk] /\ Earlier(c, chunk))})

LexicalBoost(matches, chunk) ==
  IF chunk \in Range(matches)
  THEN Reciprocal(CHOOSE rank \in DOMAIN matches : matches[rank] = chunk)
  ELSE 0

(* The best of what the title or the name of the file earns. *)
HeadingBoost(query, chunk) ==
  LET title == Corpus[chunk].title
      If(condition, boost) == IF condition THEN {boost} ELSE {}
  IN  Max({0} \cup If(Numbered(query) \cap Numbered(title) # {}, 450000)
              \cup If(Occurs(title, query), 350000)
              \cup If(Occurs(query, title), 300000)
              \cup If(\E i \in DOMAIN query : Occurs(<<query[i]>>, Corpus[chunk].name), 50000))

Combined(query, score, candidates, matches, chunk) ==
  score[chunk] + LexicalBoost(matches, chunk)
               + Reciprocal(SemanticRank(score, candidates, chunk))
               + HeadingBoost(query, chunk)
=============================================================================
