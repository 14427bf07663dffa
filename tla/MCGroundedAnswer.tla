-------------------------- MODULE MCGroundedAnswer --------------------------
(***************************************************************************)
(* A small instance of the answer and its search for TLC: notes with two    *)
(* sections, a file of two pages without titles, and a document that an    *)
(* older embedding model indexed.                                          *)
(***************************************************************************)
EXTENDS RetrievedAnswer

MCWords == {"deep", "sleep", "sleap", "phase", "4", "m4", "2019", "compare", "the",
            "phases", "sleep.md", "car.pdf"}

MCKinds ==
  [word \in MCWords |->
     (IF word \in {"4", "m4"} THEN {"short"} ELSE {})
     \cup (IF word \in {"sleep", "sleap", "phase", "phases", "compare"} THEN {"long", "plain"} ELSE {})
     \cup (IF word \in {"sleep.md", "car.pdf"} THEN {"long"} ELSE {})
     \cup (IF word = "4" THEN {"number"} ELSE {})
     \cup (IF word = "m4" THEN {"code", "plain"} ELSE {})
     \cup (IF word = "2019" THEN {"year", "number"} ELSE {})
     \cup (IF word = "compare" THEN {"comparison"} ELSE {})
     \cup (IF word = "the" THEN {"section stopword", "content stopword", "entity stopword"} ELSE {})]

MCContains == {<<"sleep", "begins", "sleep.md">>, <<"phase", "begins", "phases">>,
               <<"4", "ends", "m4">>}
MCNear == {<<"sleep", "sleap">>, <<"phase", "phases">>}
MCStems == {<<"phases", "phase">>}

Chunk(document, index, page, type, name, title, content) ==
  [document |-> document, index |-> index, page |-> page, type |-> type, name |-> name,
   title |-> title, content |-> content, current |-> document # 3]

MCCorpus ==
  [c \in {"a0", "a1", "a2", "b0", "b1", "b2", "c0"} |->
     CASE c = "a0" -> Chunk(1, 0, 0, "md", <<"sleep.md">>, <<"deep", "sleep">>, <<"sleep", "phase">>)
       [] c = "a1" -> Chunk(1, 1, 0, "md", <<"sleep.md">>, <<"deep", "sleep">>, <<"the", "m4">>)
       [] c = "a2" -> Chunk(1, 2, 0, "md", <<"sleep.md">>, <<"phase", "4">>, <<"deep", "sleep">>)
       [] c = "b0" -> Chunk(2, 0, 1, "pdf", <<"car.pdf">>, <<>>, <<"2019", "m4">>)
       [] c = "b1" -> Chunk(2, 1, 1, "pdf", <<"car.pdf">>, <<>>, <<"phase", "4">>)
       [] c = "b2" -> Chunk(2, 2, 2, "pdf", <<"car.pdf">>, <<>>, <<"the">>)
       [] c = "c0" -> Chunk(3, 0, 0, "txt", <<"sleap">>, <<>>, <<"deep">>)]

MCChunks == DOMAIN MCCorpus

(* A question, with the words that were typed as names. *)
Questions ==
  {[words |-> <<"deep", "sleap">>,            typed |-> {}],
   [words |-> <<"deep", "sleep">>,            typed |-> {"sleep"}],
   [words |-> <<"phases", "4">>,              typed |-> {"phases"}],
   [words |-> <<"compare", "sleep", "deep", "phase">>, typed |-> {}],
   [words |-> <<"the", "m4">>,                typed |-> {}],
   [words |-> <<"2019", "compare", "phases">>, typed |-> {"2019", "compare", "phases"}],
   [words |-> <<>>,                           typed |-> {}]}

Plain == [words |-> <<"deep", "sleep">>, typed |-> {}, documents |-> <<>>, types |-> <<>>,
          pages |-> <<>>, topK |-> 3, minimum |-> 240000, complete |-> {1, 2, 3},
          score |-> [c \in MCChunks |-> IF c = "b2" THEN 100000 ELSE 300000], sizes |-> [c \in MCChunks |-> 1]]

Asked(question, plain) == [plain EXCEPT !.words = question.words, !.typed = question.typed]

(* Similarities around the minimum, with ties and near ties. *)
Rankings ==
  {Asked(question, [Plain EXCEPT !.score = points, !.topK = k]) :
     question \in Questions, k \in {2, 4},
     points \in {[c \in MCChunks |-> IF c \in DOMAIN p THEN p[c] ELSE 100000] :
                   p \in {f \in [{"a0", "a1", "a2", "b0"} -> {100000, 299900, 300000}] :
                            299900 \notin {f["a1"], f["b0"]}}}}

Filtered ==
  {[Plain EXCEPT !.documents = d, !.types = t, !.pages = p, !.topK = k, !.minimum = m] :
     d \in {<<>>, <<{}>>, <<{2}>>}, t \in {<<>>, <<{"md"}>>}, p \in {<<>>, <<{1}>>, <<{0, 1}>>},
     k \in {0, 1, 3, 5}, m \in {240000, 300001, 1000001}}
  \cup {[Plain EXCEPT !.documents = <<{2}>>, !.topK = 4, !.minimum = -1000000,
                      !.score = [c \in MCChunks |-> IF c = "b2" THEN 300000 ELSE -999950]]}

(* All lengths of three chunks, for the limits of the context. *)
Lengths ==
  {[Plain EXCEPT !.documents = <<{1}>>, !.sizes = [c \in MCChunks |-> IF c \in {"a0", "a1", "a2"} THEN n[c] ELSE 1]] :
     n \in [{"a0", "a1", "a2"} -> Sizes]}

MCRequests == Rankings \cup Filtered \cup Lengths
=============================================================================
