----------------------------- MODULE Chunking -----------------------------
(***************************************************************************)
(* How a parsed document is cut into chunks (HybridRecursiveChunker).      *)
(*                                                                         *)
(* A step is one turn of one of the four loops: split every paragraph that *)
(* is too long, pack neighbours up to the target, merge what is too short, *)
(* and repeat the end of a chunk in front of the next one.                 *)
(***************************************************************************)
EXTENDS TextLayout

CONSTANTS
  Places,           \* pages with their headings
  Texts,            \* the documents, laid out, in source order
  Target, Maximum, Overlap, Minimum   \* the settings, in characters

(* The validator of the settings: a document is chunked with no others. *)
ValidSettings ==
  /\ {Target, Maximum, Minimum} \subseteq Nat \ {0}
  /\ Overlap \in Nat
  /\ Target <= Maximum /\ Overlap < Target /\ Minimum <= Target

Warnings == {"hard_split", "undersized", "overlap"}
Stages == {"split", "pack", "merge", "overlap", "done"}

Units ==
  [place : Places, from : Int, to : Int, size : Int,
   warnings : SUBSET Warnings, borrowed : Nat]

Paragraphs == [whole : Units, sentences : Seq(Units), words : Seq(Units)]

(* A text unit is stripped: it begins and ends with a letter. *)
IsTextUnit(document, unit) ==
  /\ unit = Unit(unit.place, unit.from, unit.size) /\ unit.size > 0
  /\ {unit.from, unit.to} \subseteq LettersOf(document)

InOrder(parts) == \A i, j \in DOMAIN parts : i < j => parts[i].to < parts[j].from

(* The sentences or words of a paragraph are text units of its place, in   *)
(* order, and have all its letters.                                        *)
Divides(document, parts, whole) ==
  /\ InOrder(parts)
  /\ \A part \in Range(parts) :
       /\ IsTextUnit(document, part)
       /\ part.place = whole.place /\ whole.from <= part.from /\ part.to <= whole.to
  /\ \A p \in LettersOf(document) \cap Positions(whole) :
       \E part \in Range(parts) : p \in Positions(part)

(* Paragraphs in source order, each with its sentences and its words. *)
IsLaidOut(document) ==
  /\ document \in Seq(Paragraphs)
  /\ InOrder([i \in DOMAIN document |-> document[i].whole])
  /\ \A paragraph \in Range(document) :
       /\ IsTextUnit(document, paragraph.whole)
       /\ Divides(document, paragraph.sentences, paragraph.whole)
       /\ Divides(document, paragraph.words, paragraph.whole)

ASSUME SettingsAreValid == ValidSettings

(* With a maximum of one a segment of a hard split could be a space only. *)
ASSUME SegmentsAreLong == Maximum > 1

ASSUME TextsAreLaidOut == \A document \in Texts : IsLaidOut(document)

VARIABLES
  text,             \* the document
  stage,            \* the loop at work
  units,            \* what the loop reads; the paragraphs are read from text
  next,             \* the position of the loop in what it reads
  todo,             \* the text units of a long paragraph still to be packed
  current,          \* the unit under construction, as a sequence of at most one
  result            \* what the loop has written

vars == <<text, stage, units, next, todo, current, result>>

-----------------------------------------------------------------------------
Letters == LettersOf(text)

(* strip(): a segment of a hard split may begin or end with a space. *)
Stripped(unit) ==
  LET from == IF unit.from \in Letters THEN unit.from ELSE unit.from + 1
      to == IF unit.to \in Letters THEN unit.to ELSE unit.to - 1
  IN  [unit EXCEPT !.from = from, !.to = to,
                   !.size = @ - (from - unit.from) - (unit.to - to)]

-----------------------------------------------------------------------------
(* Operations on units *)

Compatible(left, right) == left.place = right.place

(* _join_chunk_text and _merge_units: two stripped texts and a blank line. *)
Merged(left, right) ==
  [place |-> left.place,
   from |-> Stripped(left).from, to |-> Stripped(right).to,
   size |-> Stripped(left).size + 2 + Stripped(right).size,
   warnings |-> left.warnings \cup right.warnings, borrowed |-> 0]

(* Wrong variant: the blank line is forgotten. *)
CanMergeTightly(left, right) ==
  Compatible(left, right) /\ Stripped(left).size + Stripped(right).size <= Maximum

(* Wrong variant: pages and headings are forgotten. *)
CanMergeAnywhere(left, right) == Merged(left, right).size <= Maximum

CanMerge(left, right) ==
  Compatible(left, right) /\ Merged(left, right).size <= Maximum

(* Wrong variant: packing leaves short units to the next loop. *)
ShouldMergeLong(left, right) ==
  /\ CanMerge(left, right) /\ Merged(left, right).size <= Target
  /\ left.size >= Minimum /\ right.size >= Minimum

ShouldMerge(left, right) ==
  CanMerge(left, right) /\ Merged(left, right).size <= Target

(* The text units of a paragraph that is too long: its sentences, else its *)
(* words.  A single word is one text unit, which the loop splits hard.     *)
TextUnits(paragraph) ==
  IF Len(paragraph.sentences) > 1 THEN paragraph.sentences ELSE paragraph.words

-----------------------------------------------------------------------------
Init ==
  /\ text \in Texts
  /\ stage = "split" /\ next = 1
  /\ units = <<>> /\ todo = <<>> /\ current = <<>> /\ result = <<>>

(* The next loop reads what this one has written. *)
Advance(following, written) ==
  /\ stage' = following /\ units' = written /\ next' = 1
  /\ current' = <<>> /\ result' = <<>>
  /\ UNCHANGED <<text, todo>>

(* _split_oversized_text, for one paragraph *)
Splitting == stage = "split" /\ todo = <<>> /\ current = <<>>

KeepParagraph ==
  /\ Splitting /\ next <= Len(text)
  /\ text[next].whole.size <= Maximum
  /\ result' = Append(result, text[next].whole) /\ next' = next + 1
  /\ UNCHANGED <<text, stage, units, todo, current>>

SplitParagraph ==
  /\ Splitting /\ next <= Len(text)
  /\ text[next].whole.size > Maximum
  /\ todo' = TextUnits(text[next]) /\ next' = next + 1
  /\ UNCHANGED <<text, stage, units, current, result>>

(* _hard_split: a segment of the maximum, whatever it cuts, and the rest. *)
Segment(unit) ==
  [unit EXCEPT !.to = unit.from + Maximum - 1, !.size = Maximum, !.warnings = {"hard_split"}]
Rest(unit) ==
  [unit EXCEPT !.from = @ + Maximum, !.size = @ - Maximum, !.warnings = {"hard_split"}]

(* _pack_text_units, for a text unit that is too long *)
SplitHard ==
  /\ todo # <<>> /\ Head(todo).size > Maximum
  /\ result' = Append(result \o current, Segment(Head(todo)))
  /\ current' = <<>> /\ todo' = <<Rest(Head(todo))>> \o Tail(todo)
  /\ UNCHANGED <<text, stage, units, next>>

EndSplitHard ==
  /\ todo # <<>> /\ Head(todo).size <= Maximum /\ Head(todo).warnings # {}
  /\ result' = Append(result, Head(todo)) /\ todo' = Tail(todo)
  /\ UNCHANGED <<text, stage, units, next, current>>

(* Text units joined by a space are the range from the first to the last. *)
Extended(unit) ==
  IF current = <<>> THEN unit
  ELSE [current[1] EXCEPT !.to = unit.to, !.size = @ + 1 + unit.size]

(* _pack_text_units, for a text unit that is not *)
PackTextUnit ==
  /\ todo # <<>> /\ Head(todo).size <= Maximum /\ Head(todo).warnings = {}
  /\ LET unit == Head(todo)
         full == Extended(unit).size > Maximum
         packed == IF full THEN unit ELSE Extended(unit)
         written == IF full THEN result \o current ELSE result
     IN  IF packed.size >= Target
         THEN result' = Append(written, packed) /\ current' = <<>>
         ELSE result' = written /\ current' = <<packed>>
  /\ todo' = Tail(todo)
  /\ UNCHANGED <<text, stage, units, next>>

EndParagraph ==
  /\ stage = "split" /\ todo = <<>> /\ current # <<>>
  /\ result' = result \o current /\ current' = <<>>
  /\ UNCHANGED <<text, stage, units, next, todo>>

EndSplitting == Splitting /\ next > Len(text) /\ Advance("pack", result)

(* _pack_units *)
Pack ==
  /\ stage = "pack" /\ next <= Len(units)
  /\ LET unit == units[next] IN
     \/ /\ current = <<>>
        /\ current' = <<unit>> /\ result' = result
     \/ /\ current # <<>> /\ ShouldMerge(current[1], unit)
        /\ current' = <<Merged(current[1], unit)>> /\ result' = result
     \/ /\ current # <<>> /\ ~ShouldMerge(current[1], unit)
        /\ current' = <<unit>> /\ result' = result \o current
  /\ next' = next + 1
  /\ UNCHANGED <<text, stage, units, todo>>

EndPacking ==
  stage = "pack" /\ next > Len(units) /\ Advance("merge", result \o current)

(* _merge_short_fragments *)
Merging == stage = "merge" /\ next <= Len(units)
IsShort(unit) == unit.size < Minimum
WithPrevious == result # <<>> /\ CanMerge(Last(result), units[next])
WithNext == next + 1 <= Len(units) /\ CanMerge(units[next], units[next + 1])

KeepLong ==
  /\ Merging /\ ~IsShort(units[next])
  /\ result' = Append(result, units[next]) /\ next' = next + 1
  /\ UNCHANGED <<text, stage, units, todo, current>>

MergeWithPrevious ==
  /\ Merging /\ IsShort(units[next]) /\ WithPrevious
  /\ result' = Append(Front(result), Merged(Last(result), units[next]))
  /\ next' = next + 1
  /\ UNCHANGED <<text, stage, units, todo, current>>

(* Wrong variant: the unit that was merged is read again. *)
MergeWithNextTwice ==
  /\ Merging /\ IsShort(units[next]) /\ ~WithPrevious /\ WithNext
  /\ result' = Append(result, Merged(units[next], units[next + 1]))
  /\ next' = next + 1
  /\ UNCHANGED <<text, stage, units, todo, current>>

MergeWithNext ==
  /\ Merging /\ IsShort(units[next]) /\ ~WithPrevious /\ WithNext
  /\ result' = Append(result, Merged(units[next], units[next + 1]))
  /\ next' = next + 2
  /\ UNCHANGED <<text, stage, units, todo, current>>

KeepShort ==
  /\ Merging /\ IsShort(units[next]) /\ ~WithPrevious /\ ~WithNext
  /\ result' = Append(result, [units[next] EXCEPT !.warnings = @ \cup {"undersized"}])
  /\ next' = next + 1
  /\ UNCHANGED <<text, stage, units, todo, current>>

EndMerging == stage = "merge" /\ next > Len(units) /\ Advance("overlap", result)

(* _apply_overlap.  The prefix is at most Overlap characters from the end of *)
(* the previous unit as it was before its own prefix, and is stripped; where *)
(* it begins depends on its words, and the unit may already begin with that  *)
(* text.  The whole is taken only of a unit with a space at an edge, because *)
(* the code compares the stripped text with the one that is not.             *)
Borrows(previous, unit, prefix) ==
  /\ Compatible(previous, unit)
  /\ prefix > 0 /\ prefix < previous.size
  /\ prefix + 2 + unit.size <= Maximum

ApplyOverlap ==
  /\ stage = "overlap" /\ next <= Len(units)
  /\ \E prefix \in 0 .. Overlap, repeated \in BOOLEAN :
       LET unit == units[next]
           borrows == next > 1 /\ ~repeated /\ Borrows(units[next - 1], unit, prefix)
           whole == [Stripped(unit) EXCEPT !.size = prefix + 2 + @,
                       !.warnings = @ \cup {"overlap"}, !.borrowed = prefix]
       IN  /\ next > 1 => prefix <= Stripped(units[next - 1]).size
           /\ result' = Append(result, IF borrows THEN whole ELSE unit)
  /\ next' = next + 1
  /\ UNCHANGED <<text, stage, units, todo, current>>

(* _unit_to_chunk strips every unit. *)
EndOverlap ==
  /\ stage = "overlap" /\ next > Len(units)
  /\ Advance("done", [i \in DOMAIN result |-> Stripped(result[i])])

Next ==
  \/ KeepParagraph \/ SplitParagraph \/ SplitHard \/ EndSplitHard \/ PackTextUnit \/ EndParagraph
  \/ EndSplitting \/ Pack \/ EndPacking
  \/ KeepLong \/ MergeWithPrevious \/ MergeWithNext \/ KeepShort \/ EndMerging
  \/ ApplyOverlap \/ EndOverlap

Spec == Init /\ [][Next]_vars /\ WF_vars(Next)

-----------------------------------------------------------------------------
Words == UNION {Range(paragraph.words) : paragraph \in Range(text)}

UnitsSeen == Range(units) \cup Range(current) \cup Range(result)

TypeOK ==
  /\ text \in Seq(Paragraphs)
  /\ stage \in Stages
  /\ {units, todo, current, result} \subseteq Seq(Units)
  /\ next \in Nat \ {0} /\ Len(current) <= 1

(* No loop ever builds a text over the maximum, so that the size check of  *)
(* _validate_chunks, which would fail the whole document, has nothing to   *)
(* find: all four loops count the separator they add.                      *)
ChunksFit == \A unit \in UnitsSeen : unit.size <= Maximum

(* The documentation: no characters are silently dropped.  What each loop  *)
(* hands over has every letter of the document in exactly one unit, in the *)
(* order of the source.                                                    *)
NothingIsLost ==
  stage # "split" /\ next = 1 =>
    /\ Letters \subseteq UNION {Positions(unit) : unit \in Range(units)}
    /\ \A i, j \in DOMAIN units :
         i < j => \A p \in Letters \cap Positions(units[i]),
                     q \in Letters \cap Positions(units[j]) : p < q

(* A chunk has one page and one heading: its letters are of its place, and *)
(* it begins with repeated text only if the chunk before it is of the same *)
(* place, and with no more than that one has without its own prefix.       *)
PlacesAreKept ==
  stage = "done" =>
    \A k \in DOMAIN units :
      /\ \A word \in Words :
           Positions(word) \cap Positions(units[k]) # {} => word.place = units[k].place
      /\ units[k].borrowed > 0 =>
           /\ units[k - 1].place = units[k].place
           /\ units[k].borrowed <= units[k - 1].size - units[k - 1].borrowed

(* A chunk under the minimum says so: the loop that merges does not look   *)
(* again at what it has merged, which is over the minimum only because     *)
(* packing has left no neighbours that fit the target together.            *)
ShortChunksAreWarned ==
  stage = "done" =>
    \A unit \in Range(units) : unit.size < Minimum => unit.warnings # {}

(* The documentation: what is too large is split by whitespace, and a word *)
(* is cut only when it alone is over the maximum.                          *)
WordsAreKept ==
  stage = "done" =>
    \A word \in Words :
      word.size <= Maximum =>
        \E unit \in Range(units) : Positions(word) \subseteq Positions(unit)
=============================================================================
