---------------------------- MODULE TextLayout ----------------------------
(***************************************************************************)
(* What the chunker asks of a text.  A document is paragraphs, each of a   *)
(* place (its page and section title) and made of sentences, each made of  *)
(* words of a size.  Laid out, every word, sentence and paragraph has its  *)
(* positions, and is followed by one position that belongs to no word.     *)
(***************************************************************************)
EXTENDS Integers, Sequences, SequencesExt

(* A unit of text: a range of positions, and the size of its text.  Two    *)
(* positions that follow each other may be joined by a space, by a blank   *)
(* line, or not at all.                                                    *)
Unit(place, from, size) ==
  [place |-> place, from |-> from, to |-> from + size - 1, size |-> size,
   warnings |-> {}, borrowed |-> 0]

Positions(unit) == unit.from .. unit.to

(* The elements of a sequence that are kept, in their order. *)
Only(seq, kept) ==
  FoldLeft(LAMBDA found, e : IF e \in kept THEN Append(found, e) ELSE found, <<>>, seq)

(* The size of text units that are each followed by a space. *)
JoinedSize(sizes) == FoldLeft(LAMBDA sum, size : sum + size + 1, 0, sizes)

SentenceSizes(paragraph) ==
  [i \in DOMAIN paragraph.sentences |-> JoinedSize(paragraph.sentences[i]) - 1]

ParagraphSize(paragraph) == JoinedSize(SentenceSizes(paragraph)) - 1

(* Text units of these sizes that follow each other. *)
Row(place, from, sizes) ==
  [i \in DOMAIN sizes |->
     Unit(place, from + JoinedSize(SubSeq(sizes, 1, i - 1)), sizes[i])]

(* A paragraph with its text, its sentences and its words. *)
LaidOutFrom(from, paragraph) ==
  LET sentences == Row(paragraph.place, from, SentenceSizes(paragraph))
  IN  [whole |-> Unit(paragraph.place, from, ParagraphSize(paragraph)),
       sentences |-> sentences,
       words |-> FlattenSeq([i \in DOMAIN sentences |->
                   Row(paragraph.place, sentences[i].from, paragraph.sentences[i])])]

LaidOut(document) ==
  LET sizes == [i \in DOMAIN document |-> ParagraphSize(document[i])]
  IN  [i \in DOMAIN document |->
         LaidOutFrom(1 + JoinedSize(SubSeq(sizes, 1, i - 1)), document[i])]

LettersOf(document) ==
  UNION {UNION {Positions(word) : word \in Range(paragraph.words)} :
            paragraph \in Range(document)}
=============================================================================
