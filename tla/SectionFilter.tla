--------------------------- MODULE SectionFilter ---------------------------
(***************************************************************************)
(* filter_results_for_explicit_sections: a query that names the title of a  *)
(* section keeps only the chunks of that section, or those that mention it. *)
(***************************************************************************)
EXTENDS QueryTexts

(* A section has a title and a content, both sequences of words. *)
TitleTokens(text) == {word \in Range(text) : ~Is(word, "section stopword")}

TitleTerms(title) == {word \in TitleTokens(title) : ~Is(word, "short")}

(* The canonical title is a join of the set of its words: their order is    *)
(* that of the set, which the seed of the process's hashes decides.        *)
Spellings(titles) ==
  [titles -> UNION {{line \in [1 .. Cardinality(TitleTokens(title)) -> TitleTokens(title)] :
                       Range(line) = TitleTokens(title)} : title \in titles}]

IsSpelling(spelling) == \A title \in DOMAIN spelling : Range(spelling[title]) = TitleTokens(title)

IsFullMatch(title, query) == TitleTerms(title) \subseteq TitleTokens(query)

IsPartialMatch(title, query) ==
  LET overlap == TitleTerms(title) \cap TitleTokens(query)
  IN  /\ overlap # {}
      /\ IF Cardinality(TitleTerms(title)) = 1
         THEN \A word \in overlap : Is(word, "long")
         ELSE Cardinality(overlap) >= Cardinality(TitleTerms(title)) - 1

(* Titles that the query names in full, or else those of which it names all *)
(* words but one.                                                          *)
MatchedTitles(query, titles) ==
  LET named == {title \in titles : TitleTerms(title) # {}}
      full  == {title \in named : IsFullMatch(title, query)}
  IN  IF full # {} THEN full ELSE {title \in named : IsPartialMatch(title, query)}

IsComparison(query) == \E word \in TitleTokens(query) : Is(word, "comparison")

(* Whether the results are filtered; two titles that are spelled alike count*)
(* as one.                                                                 *)
IsSectionNamed(query, matched, spelling) ==
  /\ TitleTokens(query) # {} /\ matched # {}
  /\ Cardinality({spelling[title] : title \in matched}) = 1 \/ IsComparison(query)

BelongsTo(title, content, matched, spelling) ==
  \/ \E other \in matched : spelling[other] = spelling[title]
  \/ \E other \in matched : Occurs(spelling[other], content)

(* The places of the results that stay; sections[i] is the i-th result's.  *)
KeptSections(query, sections, spelling) ==
  LET matched == MatchedTitles(query, {section.title : section \in Range(sections)})
      kept    == {i \in DOMAIN sections :
                    BelongsTo(sections[i].title, sections[i].content, matched, spelling)}
  IN  IF IsSectionNamed(query, matched, spelling) THEN kept ELSE DOMAIN sections
=============================================================================
