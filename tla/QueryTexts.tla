----------------------------- MODULE QueryTexts -----------------------------
(***************************************************************************)
(* What a search asks of texts.  A text, a title or the name of a file is a *)
(* sequence of words in one spelling (casefolded, without accents); of the  *)
(* spelling of a word only its kinds and its likeness to others are known. *)
(***************************************************************************)
EXTENDS Integers, Sequences, FiniteSets, Functions

CONSTANTS
  Words,
  Kinds,     \* the kinds of each word
  Contains,  \* <<a, place, b>>: b begins with a, ends with it, or has it inside
  Near,      \* pairs of words that one edit or one swap apart
  Stems      \* <<b, a>>: b without its ending is a

KindNames ==
  {"short",        \* fewer than three characters
   "long",         \* at least five
   "plain",        \* has a letter, and no dot, dash or underscore
   "number", "year", "code",
   "section stopword", "content stopword", "entity stopword", "comparison"}

ASSUME WordsAssumption ==
  /\ Kinds \in [Words -> SUBSET KindNames]
  /\ Contains \subseteq Words \X {"begins", "inside", "ends"} \X Words
  /\ Near \subseteq Words \X Words /\ Stems \subseteq Words \X Words

Is(word, kind) == kind \in Kinds[word]

-----------------------------------------------------------------------------
(* The characters of a needle's word are found in a word of the text: only  *)
(* the outer words of the needle may be a part of a longer word.           *)
Covers(needle, k, word) ==
  \/ needle[k] = word
  \/ Len(needle) = 1 /\ \E place \in {"begins", "inside", "ends"} : <<needle[k], place, word>> \in Contains
  \/ Len(needle) > 1 /\ k = 1 /\ <<needle[k], "ends", word>> \in Contains
  \/ Len(needle) > 1 /\ k = Len(needle) /\ <<needle[k], "begins", word>> \in Contains

(* needle in text, of strings. *)
Occurs(needle, text) ==
  /\ needle # <<>>
  /\ \E start \in 0 .. Len(text) - Len(needle) :
       \A k \in DOMAIN needle : Covers(needle, k, text[start + k])

(* The matches of a word and a number after it; matches do not overlap. *)
Numbered(text) ==
  LET starts[i \in 0 .. Len(text) - 1] ==
        i > 0 /\ Is(text[i + 1], "number") /\ ~starts[i - 1]
  IN  {<<text[i], text[i + 1]>> : i \in {j \in 1 .. Len(text) - 1 : starts[j]}}

OneEdit(a, b) == <<a, b>> \in Near \/ <<b, a>> \in Near

(* _normalize_terms: words, with and without a Turkish ending. *)
Terms(words) == words \cup {pair[2] : pair \in {p \in Stems : p[1] \in words}}
=============================================================================
