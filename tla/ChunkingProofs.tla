-------------------------- MODULE ChunkingProofs --------------------------
(***************************************************************************)
(* For every document, place and setting: no unit of text is ever over the *)
(* maximum, a chunk under the minimum carries a warning, no letter is lost *)
(* and the chunks stay in place.                                           *)
(***************************************************************************)
EXTENDS Chunking, SequenceTheorems, TLAPS

(* The operations of Chunking, with the letters of the document given.     *)
Strip(L, u) ==
  LET from == IF u.from \in L THEN u.from ELSE u.from + 1
      to == IF u.to \in L THEN u.to ELSE u.to - 1
  IN  [u EXCEPT !.from = from, !.to = to,
                !.size = @ - (from - u.from) - (u.to - to)]

Join(L, l, r) ==
  [place |-> l.place, from |-> Strip(L, l).from, to |-> Strip(L, r).to,
   size |-> Strip(L, l).size + 2 + Strip(L, r).size,
   warnings |-> l.warnings \cup r.warnings, borrowed |-> 0]

(* What a loop hands on.  Only a segment of a hard split, which carries a  *)
(* warning, may lose something when it is stripped.                        *)
Good(L, u) ==
  /\ u \in Units /\ u.size <= Maximum
  /\ Strip(L, u).size >= 0
  /\ u.warnings = {} => u.from \in L /\ u.to \in L

(* What is still to be packed: a text unit, or the rest of a hard split.   *)
Pending(L, u) ==
  /\ u \in Units /\ u.size > 0 /\ u.to = u.from + u.size - 1
  /\ u.to \in L
  /\ u.warnings = {} => u.from \in L

(* Neighbours that do not fit the target together.                         *)
Apart(L, l, r) == l.place = r.place => Join(L, l, r).size > Target

(* A unit that ends with another one, of the same place.                   *)
Covers(L, u, last) ==
  u.place = last.place /\ Strip(L, u).size >= Strip(L, last).size

Explained(u) == u.size < Minimum => u.warnings # {}

AllGood(L, s) == \A i \in DOMAIN s : Good(L, s[i])
AllPending(L, s) == \A i \in DOMAIN s : Pending(L, s[i])
AllExplained(s) == \A i \in DOMAIN s : Explained(s[i])
AllFit(s) == \A i \in DOMAIN s : s[i].size <= Maximum
AllApart(L, s) == \A i \in 1 .. Len(s) - 1 : Apart(L, s[i], s[i + 1])

SplittingInvariant ==
  /\ units = <<>> /\ AllPending(Letters, todo)
  /\ current # <<>> => current[1].warnings = {}

PackingInvariant ==
  /\ todo = <<>> /\ AllGood(Letters, units)
  /\ current = <<>> => result = <<>>
  /\ AllApart(Letters, result \o current)

MergingInvariant ==
  /\ todo = <<>> /\ current = <<>> /\ AllGood(Letters, units)
  /\ AllApart(Letters, units) /\ AllExplained(result)
  /\ next <= Len(units) + 1
  /\ result # <<>> => next > 1 /\ Covers(Letters, result[Len(result)], units[next - 1])

OverlapInvariant ==
  /\ todo = <<>> /\ current = <<>> /\ AllGood(Letters, units)
  /\ AllExplained(units) /\ AllExplained(result)

DoneInvariant ==
  /\ todo = <<>> /\ current = <<>> /\ result = <<>>
  /\ AllFit(units) /\ AllExplained(units)

ChunkingInvariant ==
  /\ IsLaidOut(text) /\ TypeOK
  /\ AllGood(Letters, current) /\ AllGood(Letters, result)
  /\ stage = "split" => SplittingInvariant
  /\ stage = "pack" => PackingInvariant
  /\ stage = "merge" => MergingInvariant
  /\ stage = "overlap" => OverlapInvariant
  /\ stage = "done" => DoneInvariant

-----------------------------------------------------------------------------
(* Units.                                                                  *)

(* The valid settings, as the proofs use them.                             *)
LEMMA SettingsAreNumbers ==
  /\ Target \in Nat /\ Maximum \in Nat /\ Minimum \in Nat /\ Overlap \in Nat
  /\ Minimum <= Target /\ Target <= Maximum /\ Maximum > 1
BY SettingsAreValid, SegmentsAreLong DEF ValidSettings

(* Stripping takes at most a position from each edge, and none from a letter.*)
LEMMA StripType ==
  ASSUME NEW L, NEW u \in Units
  PROVE  /\ Strip(L, u) \in Units
         /\ Strip(L, u).size <= u.size /\ Strip(L, u).size >= u.size - 2
         /\ Strip(L, u).place = u.place /\ Strip(L, u).warnings = u.warnings
         /\ u.from \in L => Strip(L, u).from = u.from /\ Strip(L, u).size >= u.size - 1
         /\ u.to \in L => Strip(L, u).to = u.to /\ Strip(L, u).size >= u.size - 1
         /\ u.from \in L /\ u.to \in L => Strip(L, u).size = u.size
<1> DEFINE from == IF u.from \in L THEN u.from ELSE u.from + 1
           to == IF u.to \in L THEN u.to ELSE u.to - 1
           size == u.size - (from - u.from) - (u.to - to)
<1>1. u.from \in Int /\ u.to \in Int /\ u.size \in Int
  BY DEF Units
<1>2. from \in Int /\ to \in Int /\ size \in Int
  BY <1>1
<1>3. Strip(L, u) = [u EXCEPT !.from = from, !.to = to, !.size = size]
  BY DEF Strip, Units
<1>4. /\ Strip(L, u).from = from /\ Strip(L, u).to = to /\ Strip(L, u).size = size
      /\ Strip(L, u).place = u.place /\ Strip(L, u).warnings = u.warnings
      /\ Strip(L, u) \in Units
  BY <1>2, <1>3 DEF Units
<1>5. size <= u.size /\ size >= u.size - 2
  BY <1>1
<1>6. u.from \in L => from = u.from /\ size >= u.size - 1
  BY <1>1
<1>7. u.to \in L => to = u.to /\ size >= u.size - 1
  BY <1>1
<1>8. u.from \in L /\ u.to \in L => size = u.size
  BY <1>1
<1> QED
  BY <1>4, <1>5, <1>6, <1>7, <1>8

(* Units merged: the whole is no smaller than each part was.               *)
LEMMA JoinType ==
  ASSUME NEW L, NEW l, NEW r, Good(L, l), Good(L, r)
  PROVE  /\ Join(L, l, r) \in Units
         /\ Join(L, l, r).place = l.place
         /\ Strip(L, Join(L, l, r)).size >= 0
         /\ Strip(L, Join(L, l, r)).size >= Strip(L, l).size
         /\ Strip(L, Join(L, l, r)).size >= Strip(L, r).size
         /\ Join(L, l, r).size = Strip(L, l).size + 2 + Strip(L, r).size
         /\ Join(L, l, r).size <= Maximum => Good(L, Join(L, l, r))
<1> DEFINE j == Join(L, l, r)
           a == Strip(L, l)
           b == Strip(L, r)
<1>1. /\ a \in Units /\ b \in Units /\ a.size \in Int /\ b.size \in Int
      /\ a.size >= 0 /\ b.size >= 0
      /\ l \in Units /\ r \in Units
  BY StripType DEF Good, Units
<1>2. j = [place |-> l.place, from |-> a.from, to |-> b.to, size |-> a.size + 2 + b.size,
           warnings |-> l.warnings \cup r.warnings, borrowed |-> 0]
  BY DEF Join
<1>3. /\ l.place \in Places /\ a.from \in Int /\ b.to \in Int
      /\ l.warnings \cup r.warnings \in SUBSET Warnings
  BY <1>1 DEF Units
<1>4. j \in Units
  BY <1>1, <1>2, <1>3 DEF Units
<1>5. j.size = a.size + 2 + b.size /\ j.place = l.place
  BY <1>2
<1>6. Strip(L, j).size >= j.size - 2 /\ Strip(L, j).size \in Int /\ j.size \in Int
  <2>1. Strip(L, j) \in Units /\ Strip(L, j).size >= j.size - 2
    BY <1>4, StripType
  <2> QED
    BY <2>1, <1>4 DEF Units
<1>7. j.warnings = {} => j.from \in L /\ j.to \in L
  <2>1. SUFFICES ASSUME j.warnings = {} PROVE j.from \in L /\ j.to \in L
    OBVIOUS
  <2>2. l.warnings = {} /\ r.warnings = {}
    BY <1>2, <2>1
  <2>3. l.from \in L /\ r.to \in L
    BY <2>2 DEF Good
  <2>4. a.from = l.from /\ b.to = r.to
    BY <2>3, <1>1, StripType
  <2> QED
    BY <1>2, <2>3, <2>4
<1>8. j.size <= Maximum => Good(L, j)
  BY <1>1, <1>4, <1>5, <1>6, <1>7 DEF Good
<1> HIDE DEF j, a, b
<1>9. Strip(L, j).size >= 0 /\ Strip(L, j).size >= a.size /\ Strip(L, j).size >= b.size
  BY <1>1, <1>5, <1>6
<1> QED
  BY <1>4, <1>5, <1>8, <1>9 DEF j, a, b

-----------------------------------------------------------------------------
(* Sequences of units.                                                     *)

(* A sequence with one unit more.                                          *)
LEMMA OneMore ==
  ASSUME NEW s \in Seq(Units), NEW u \in Units
  PROVE  /\ Append(s, u) \in Seq(Units) /\ Append(s, u) # <<>>
         /\ Len(Append(s, u)) = Len(s) + 1
         /\ DOMAIN s = 1 .. Len(s) /\ DOMAIN Append(s, u) = 1 .. Len(s) + 1
         /\ Append(s, u)[Len(s) + 1] = u
         /\ \A i \in 1 .. Len(s) : Append(s, u)[i] = s[i]
         /\ Len(s) \in Nat
OBVIOUS

(* The unit under construction is written behind the others, if there is one.*)
LEMMA WithCurrent ==
  ASSUME NEW s \in Seq(Units), NEW c \in Seq(Units), Len(c) <= 1
  PROVE  /\ c = <<>> => s \o c = s
         /\ c # <<>> => s \o c = Append(s, c[1]) /\ c = <<c[1]>> /\ c[1] \in Units
<1>1. CASE c = <<>>
  BY <1>1
<1>2. CASE c # <<>>
  <2>1. Len(c) = 1
    <3>1. Len(c) \in Nat \ {0}
      BY <1>2, EmptySeq, Zenon
    <3> DEFINE n == Len(c)
    <3>2. n \in Nat /\ n # 0 /\ n <= 1
      BY <3>1
    <3> HIDE DEF n
    <3>3. n = 1
      BY <3>2
    <3> QED
      BY <3>3 DEF n
  <2>2. c[1] \in Units
    BY <2>1
  <2>3. <<c[1]>> \in Seq(Units) /\ Len(<<c[1]>>) = 1 /\ <<c[1]>>[1] = c[1]
    BY <2>2
  <2>4. \A i \in 1 .. Len(c) : c[i] = <<c[1]>>[i]
    BY <2>1, <2>3
  <2>5. c = <<c[1]>>
    BY <2>1, <2>3, <2>4, SeqEqual
  <2>6. s \o <<c[1]>> = Append(s, c[1])
    BY <2>2, AppendIsConcat
  <2> QED
    BY <1>2, <2>2, <2>5, <2>6
<1> QED
  BY <1>1, <1>2

(* One good unit more leaves all units good.                               *)
LEMMA GoodMore ==
  ASSUME NEW L, NEW s \in Seq(Units), NEW u, AllGood(L, s), Good(L, u)
  PROVE  AllGood(L, Append(s, u)) /\ Append(s, u) \in Seq(Units)
<1>1. u \in Units
  BY DEF Good
<1> QED
  BY <1>1, OneMore DEF AllGood

(* One explained unit more leaves all units explained.                     *)
LEMMA ExplainedMore ==
  ASSUME NEW s \in Seq(Units), NEW u \in Units, AllExplained(s), Explained(u)
  PROVE  AllExplained(Append(s, u))
BY OneMore DEF AllExplained

(* A unit apart from the last one leaves all neighbours apart.             *)
LEMMA ApartMore ==
  ASSUME NEW L, NEW s \in Seq(Units), NEW u \in Units, AllApart(L, s),
         s # <<>> => Apart(L, s[Len(s)], u)
  PROVE  AllApart(L, Append(s, u))
<1>1. SUFFICES ASSUME NEW i \in 1 .. Len(Append(s, u)) - 1
               PROVE  Apart(L, Append(s, u)[i], Append(s, u)[i + 1])
  BY DEF AllApart
<1>2. Len(s) \in Nat /\ i \in 1 .. Len(s)
  BY <1>1, OneMore
<1>3. CASE i = Len(s)
  <2>1. s # <<>>
    BY <1>2
  <2>2. Append(s, u)[i] = s[Len(s)] /\ Append(s, u)[i + 1] = u
    BY <1>2, <1>3, OneMore
  <2> QED
    BY <2>1, <2>2
<1>4. CASE i # Len(s)
  <2>1. i \in 1 .. Len(s) - 1 /\ i + 1 \in 1 .. Len(s)
    BY <1>2, <1>4
  <2>2. Append(s, u)[i] = s[i] /\ Append(s, u)[i + 1] = s[i + 1]
    BY <1>2, <2>1, OneMore
  <2> QED
    BY <2>1, <2>2 DEF AllApart
<1> QED
  BY <1>3, <1>4

(* Without the last unit, the others are still apart.                      *)
LEMMA ApartLess ==
  ASSUME NEW L, NEW s \in Seq(Units), NEW u \in Units, AllApart(L, Append(s, u))
  PROVE  /\ AllApart(L, s)
         /\ s # <<>> => Apart(L, s[Len(s)], u)
<1> DEFINE n == Len(s)
           t == Append(s, u)
<1>1. /\ n \in Nat /\ Len(t) = n + 1 /\ t[n + 1] = u
      /\ \A i \in 1 .. n : t[i] = s[i]
  BY OneMore
<1>2. \A i \in 1 .. n : Apart(L, t[i], t[i + 1])
  BY <1>1 DEF AllApart
<1>3. ASSUME NEW i \in 1 .. n - 1 PROVE Apart(L, s[i], s[i + 1])
  <2>1. i \in 1 .. n /\ i + 1 \in 1 .. n
    BY <1>1
  <2> QED
    BY <1>1, <1>2, <2>1
<1>4. s # <<>> => n \in 1 .. n
  <2>1. s # <<>> => n # 0
    BY EmptySeq
  <2> QED
    BY <1>1, <2>1
<1>5. s # <<>> => Apart(L, s[n], u)
  BY <1>1, <1>2, <1>4
<1> QED
  BY <1>3, <1>5 DEF AllApart

(* The last of good units is good.                                         *)
LEMMA EndIsGood ==
  ASSUME NEW L, NEW s \in Seq(Units), s # <<>>, AllGood(L, s)
  PROVE  Len(s) \in DOMAIN s /\ Good(L, s[Len(s)]) /\ Last(s) = s[Len(s)]
<1>1. Len(s) \in DOMAIN s
  BY EmptySeq
<1> QED
  BY <1>1 DEF AllGood, Last

(* All units but the last are as good and as explained as they were.       *)
LEMMA FrontKeeps ==
  ASSUME NEW L, NEW s \in Seq(Units), s # <<>>, AllGood(L, s), AllExplained(s)
  PROVE  Front(s) \in Seq(Units) /\ AllGood(L, Front(s)) /\ AllExplained(Front(s))
<1> DEFINE n == Len(s)
           f == Front(s)
<1>1. n \in Nat \ {0} /\ DOMAIN s = 1 .. n
  BY EmptySeq
<1>2. f = SubSeq(s, 1, n - 1)
  BY DEF Front
<1>3. /\ f \in Seq(Units) /\ DOMAIN f = 1 .. n - 1
      /\ \A i \in 1 .. n - 1 : f[i] = s[i]
  BY <1>1, <1>2
<1>4. \A i \in DOMAIN f : i \in DOMAIN s /\ f[i] = s[i]
  <2> HIDE DEF n, f
  <2> QED
    BY <1>1, <1>3
<1> HIDE DEF f
<1> QED
  BY <1>3, <1>4 DEF AllGood, AllExplained, f

(* What is stripped depends on nothing but the range and the size.         *)
LEMMA SameSize ==
  ASSUME NEW L, NEW u \in Units, NEW w \in Units,
         w.from = u.from, w.to = u.to, w.size = u.size
  PROVE  Strip(L, w).size = Strip(L, u).size
<1> DEFINE Size(v) ==
      v.size - ((IF v.from \in L THEN v.from ELSE v.from + 1) - v.from)
             - (v.to - (IF v.to \in L THEN v.to ELSE v.to - 1))
<1>1. \A v \in Units : Strip(L, v).size = Size(v)
  BY DEF Strip, Units
<1> QED
  BY <1>1

(* The stripped text and the whole one, in the operators of Chunking.      *)
LEMMA SameOperations ==
  /\ \A u : Stripped(u) = Strip(Letters, u)
  /\ \A l, r : Merged(l, r) = Join(Letters, l, r)
<1>1. \A u : Stripped(u) = Strip(Letters, u)
  BY DEF Stripped, Strip
<1> QED
  BY <1>1 DEF Merged, Join

-----------------------------------------------------------------------------
(* The loop that splits.                                                   *)

(* A text unit that is not too long may be handed on.                      *)
LEMMA PendingIsGood ==
  ASSUME NEW L, NEW u, Pending(L, u), u.size <= Maximum
  PROVE  Good(L, u)
<1>1. /\ u \in Units /\ u.size \in Int /\ u.size > 0 /\ u.to \in L
      /\ Strip(L, u) \in Units /\ Strip(L, u).size \in Int
  BY StripType DEF Pending, Units
<1>2. Strip(L, u).size >= u.size - 1
  BY <1>1, StripType
<1>3. Strip(L, u).size >= 0
  BY <1>1, <1>2
<1> QED
  BY <1>1, <1>3 DEF Pending, Good

(* A text unit of the document begins and ends with a letter.              *)
LEMMA TextUnitIsPending ==
  ASSUME NEW document, NEW u \in Units, IsTextUnit(document, u)
  PROVE  Pending(LettersOf(document), u) /\ u.warnings = {}
<1>1. u = Unit(u.place, u.from, u.size)
  BY DEF IsTextUnit
<1>2. u.to = u.from + u.size - 1 /\ u.warnings = {}
  BY <1>1 DEF Unit
<1> QED
  BY <1>2 DEF IsTextUnit, Pending

(* A paragraph and its text units are text units of the document.          *)
LEMMA ParagraphFacts ==
  ASSUME IsLaidOut(text), NEW i \in 1 .. Len(text)
  PROVE  /\ text[i].whole \in Units /\ Pending(Letters, text[i].whole)
         /\ TextUnits(text[i]) \in Seq(Units)
         /\ AllPending(Letters, TextUnits(text[i]))
<1>1. text \in Seq(Paragraphs)
  BY DEF IsLaidOut
<1>2. text[i] \in Paragraphs /\ text[i] \in Range(text)
  BY <1>1 DEF Range
<1>3. /\ text[i].whole \in Units
      /\ text[i].sentences \in Seq(Units) /\ text[i].words \in Seq(Units)
  BY <1>2 DEF Paragraphs
<1>4. /\ IsTextUnit(text, text[i].whole)
      /\ \A unit \in Range(text[i].sentences) : IsTextUnit(text, unit)
      /\ \A unit \in Range(text[i].words) : IsTextUnit(text, unit)
  BY <1>2 DEF IsLaidOut, Divides
<1>5. ASSUME NEW s \in Seq(Units), \A unit \in Range(s) : IsTextUnit(text, unit)
      PROVE  AllPending(Letters, s)
  <2>1. ASSUME NEW k \in DOMAIN s PROVE Pending(Letters, s[k])
    <3>1. s[k] \in Units /\ s[k] \in Range(s)
      BY <2>1 DEF Range
    <3> QED
      BY <3>1, <1>5, TextUnitIsPending DEF Letters
  <2> QED
    BY <2>1 DEF AllPending
<1>6. AllPending(Letters, text[i].sentences) /\ AllPending(Letters, text[i].words)
  BY <1>3, <1>4, <1>5
<1>7. Pending(Letters, text[i].whole)
  BY <1>3, <1>4, TextUnitIsPending DEF Letters
<1> QED
  BY <1>3, <1>6, <1>7 DEF TextUnits

(* A step of the loop that splits keeps its invariant, and need show no    *)
(* more than what it changes.                                              *)
LEMMA SplittingStep ==
  ASSUME ChunkingInvariant, stage = "split", UNCHANGED <<text, stage, units>>,
         next' \in Nat \ {0},
         todo' \in Seq(Units), AllPending(Letters, todo'),
         current' \in Seq(Units), Len(current') <= 1, AllGood(Letters, current'),
         current' # <<>> => current'[1].warnings = {},
         result' \in Seq(Units), AllGood(Letters, result')
  PROVE  ChunkingInvariant'
<1>1. Letters' = Letters /\ IsLaidOut(text') /\ stage' = "split" /\ units' = <<>>
  BY DEF Letters, ChunkingInvariant, SplittingInvariant
<1>2. TypeOK'
  BY DEF ChunkingInvariant, TypeOK
<1>3. SplittingInvariant'
  BY <1>1 DEF SplittingInvariant
<1> QED
  BY <1>1, <1>2, <1>3 DEF ChunkingInvariant

(* What the loop that splits may rely on.                                  *)
LEMMA SplittingFacts ==
  ASSUME ChunkingInvariant, stage = "split"
  PROVE  /\ IsLaidOut(text) /\ next \in Nat \ {0}
         /\ todo \in Seq(Units) /\ AllPending(Letters, todo)
         /\ current \in Seq(Units) /\ Len(current) <= 1 /\ AllGood(Letters, current)
         /\ current # <<>> => current[1].warnings = {}
         /\ result \in Seq(Units) /\ AllGood(Letters, result)
         /\ units = <<>>
BY DEF ChunkingInvariant, SplittingInvariant, TypeOK

(* No units at all satisfy every condition on units.                       *)
LEMMA NothingIsGood ==
  ASSUME NEW L
  PROVE  /\ <<>> \in Seq(Units) /\ AllGood(L, <<>>) /\ AllPending(L, <<>>)
         /\ AllExplained(<<>>) /\ Len(<<>>) = 0
BY DEF AllGood, AllPending, AllExplained

(* A paragraph that is not too long is written as it is.                   *)
LEMMA KeepParagraphKeeps ==
  ASSUME ChunkingInvariant, KeepParagraph
  PROVE  ChunkingInvariant'
<1>1. /\ stage = "split" /\ next \in 1 .. Len(text) /\ text[next].whole.size <= Maximum
      /\ result' = Append(result, text[next].whole) /\ next' = next + 1
      /\ UNCHANGED <<text, stage, units, todo, current>>
  <2>1. next \in Nat \ {0} /\ Len(text) \in Nat
    BY SplittingFacts DEF KeepParagraph, Splitting, IsLaidOut
  <2> QED
    BY <2>1 DEF KeepParagraph, Splitting
<1>2. Good(Letters, text[next].whole)
  BY <1>1, SplittingFacts, ParagraphFacts, PendingIsGood
<1>3. result' \in Seq(Units) /\ AllGood(Letters, result')
  BY <1>1, <1>2, SplittingFacts, GoodMore
<1>4. next' \in Nat \ {0}
  BY <1>1
<1> QED
  BY <1>1, <1>3, <1>4, SplittingFacts, SplittingStep

(* A paragraph that is too long leaves its text units to be packed.        *)
LEMMA SplitParagraphKeeps ==
  ASSUME ChunkingInvariant, SplitParagraph
  PROVE  ChunkingInvariant'
<1>1. /\ stage = "split" /\ next \in 1 .. Len(text)
      /\ todo' = TextUnits(text[next]) /\ next' = next + 1
      /\ UNCHANGED <<text, stage, units, current, result>>
  <2>1. next \in Nat \ {0} /\ Len(text) \in Nat
    BY SplittingFacts DEF SplitParagraph, Splitting, IsLaidOut
  <2> QED
    BY <2>1 DEF SplitParagraph, Splitting
<1>2. todo' \in Seq(Units) /\ AllPending(Letters, todo')
  BY <1>1, SplittingFacts, ParagraphFacts
<1>3. next' \in Nat \ {0}
  BY <1>1
<1> QED
  BY <1>1, <1>2, <1>3, SplittingFacts, SplittingStep

(* Only the loop that splits has text units to pack.                       *)
LEMMA PendingMeansSplitting ==
  ASSUME ChunkingInvariant, todo # <<>>
  PROVE  /\ stage = "split"
         /\ Head(todo) \in Units /\ Pending(Letters, Head(todo))
         /\ Tail(todo) \in Seq(Units) /\ AllPending(Letters, Tail(todo))
<1>1. stage = "split"
  BY DEF ChunkingInvariant, PackingInvariant, MergingInvariant, OverlapInvariant,
         DoneInvariant, TypeOK, Stages
<1>2. todo \in Seq(Units) /\ AllPending(Letters, todo)
  BY <1>1, SplittingFacts
<1>3. /\ Head(todo) \in Units /\ Head(todo) = todo[1] /\ 1 \in DOMAIN todo
      /\ Tail(todo) \in Seq(Units) /\ DOMAIN Tail(todo) = 1 .. Len(todo) - 1
      /\ DOMAIN todo = 1 .. Len(todo) /\ Len(todo) \in Nat
      /\ \A i \in 1 .. Len(todo) - 1 : Tail(todo)[i] = todo[i + 1]
  BY <1>2
<1>4. Pending(Letters, Head(todo))
  BY <1>2, <1>3 DEF AllPending
<1>5. ASSUME NEW i \in DOMAIN Tail(todo) PROVE Pending(Letters, Tail(todo)[i])
  <2>1. i + 1 \in DOMAIN todo /\ Tail(todo)[i] = todo[i + 1]
    BY <1>3, <1>5
  <2> QED
    BY <2>1, <1>2 DEF AllPending
<1>6. AllPending(Letters, Tail(todo))
  BY <1>5 DEF AllPending
<1> QED
  BY <1>1, <1>3, <1>4, <1>6

(* Good units, with the one under construction behind them.                *)
LEMMA GoodWithCurrent ==
  ASSUME NEW L, NEW s \in Seq(Units), NEW c \in Seq(Units), Len(c) <= 1,
         AllGood(L, s), AllGood(L, c)
  PROVE  s \o c \in Seq(Units) /\ AllGood(L, s \o c)
<1>1. CASE c = <<>>
  BY <1>1, WithCurrent
<1>2. CASE c # <<>>
  <2>1. s \o c = Append(s, c[1]) /\ c = <<c[1]>> /\ c[1] \in Units
    BY <1>2, WithCurrent
  <2>2. Good(L, c[1])
    <3>1. 1 \in DOMAIN c
      BY <2>1
    <3> QED
      BY <3>1 DEF AllGood
  <2> QED
    BY <2>1, <2>2, GoodMore
<1> QED
  BY <1>1, <1>2

(* A segment has the maximum, and the rest still ends with a letter.       *)
LEMMA HardSplitFacts ==
  ASSUME NEW L, NEW u, Pending(L, u), u.size > Maximum
  PROVE  /\ Good(L, Segment(u))
         /\ Rest(u) \in Units /\ Pending(L, Rest(u))
<1>1. /\ u \in Units /\ u.from \in Int /\ u.to \in Int /\ u.size \in Int
      /\ u.to = u.from + u.size - 1 /\ u.to \in L
      /\ Maximum \in Nat /\ Maximum > 1
  BY SettingsAreNumbers DEF Pending, Units
<1>2. {"hard_split"} \in SUBSET Warnings /\ {"hard_split"} # {}
  BY DEF Warnings
<1>3. /\ u.from + Maximum - 1 \in Int /\ u.from + Maximum \in Int
      /\ u.size - Maximum \in Int /\ Maximum \in Int
  BY <1>1
<1>4. /\ Segment(u) \in Units /\ Segment(u).size = Maximum
      /\ Segment(u).warnings = {"hard_split"}
  <2> DEFINE to == u.from + Maximum - 1
             cut == {"hard_split"}
  <2>1. Segment(u) = [u EXCEPT !.to = to, !.size = Maximum, !.warnings = cut]
    BY DEF Segment
  <2>2. to \in Int /\ cut \in SUBSET Warnings
    BY <1>2, <1>3
  <2> HIDE DEF to, cut
  <2>3. Segment(u) \in Units /\ Segment(u).size = Maximum /\ Segment(u).warnings = cut
    BY <1>1, <1>3, <2>1, <2>2 DEF Units
  <2> QED
    BY <2>3 DEF cut
<1>5. /\ Rest(u) \in Units /\ Rest(u).size = u.size - Maximum /\ Rest(u).to = u.to
      /\ Rest(u).from = u.from + Maximum /\ Rest(u).warnings = {"hard_split"}
  BY <1>1, <1>2, <1>3 DEF Rest, Units
<1>6. Strip(L, Segment(u)).size >= 0
  <2>1. /\ Strip(L, Segment(u)).size >= Segment(u).size - 2
        /\ Strip(L, Segment(u)) \in Units
    BY <1>4, StripType
  <2>2. Strip(L, Segment(u)).size \in Int
    BY <2>1 DEF Units
  <2> QED
    BY <2>1, <2>2, <1>1, <1>4
<1>7. Segment(u).size <= Maximum
  BY <1>1, <1>4
<1>8. Good(L, Segment(u))
  BY <1>2, <1>4, <1>6, <1>7 DEF Good
<1>9. Pending(L, Rest(u))
  <2>1. Rest(u).size > 0 /\ Rest(u).to = Rest(u).from + Rest(u).size - 1
    BY <1>1, <1>5
  <2> QED
    BY <2>1, <1>1, <1>2, <1>5 DEF Pending
<1> QED
  BY <1>5, <1>8, <1>9

(* A segment is written behind the unit under construction.                *)
LEMMA SplitHardKeeps ==
  ASSUME ChunkingInvariant, SplitHard
  PROVE  ChunkingInvariant'
<1> DEFINE u == Head(todo)
<1>1. /\ todo # <<>> /\ u.size > Maximum
      /\ result' = Append(result \o current, Segment(u))
      /\ current' = <<>> /\ todo' = <<Rest(u)>> \o Tail(todo)
      /\ UNCHANGED <<text, stage, units, next>>
  BY DEF SplitHard
<1>2. /\ stage = "split" /\ u \in Units /\ Pending(Letters, u)
      /\ Tail(todo) \in Seq(Units) /\ AllPending(Letters, Tail(todo))
  BY <1>1, PendingMeansSplitting
<1>3. Good(Letters, Segment(u)) /\ Rest(u) \in Units /\ Pending(Letters, Rest(u))
  BY <1>1, <1>2, HardSplitFacts
<1>4. result' \in Seq(Units) /\ AllGood(Letters, result')
  <2>1. result \o current \in Seq(Units) /\ AllGood(Letters, result \o current)
    BY <1>2, SplittingFacts, GoodWithCurrent
  <2> QED
    BY <2>1, <1>1, <1>3, GoodMore
<1>5. todo' \in Seq(Units) /\ AllPending(Letters, todo')
  <2> HIDE DEF u
  <2> DEFINE t == Tail(todo)
             r == Rest(u)
  <2>1. t \in Seq(Units) /\ AllPending(Letters, t) /\ r \in Units /\ Pending(Letters, r)
    BY <1>2, <1>3
  <2>2. todo' = <<r>> \o t
    BY <1>1
  <2> HIDE DEF t, r
  <2>3. /\ <<r>> \o t \in Seq(Units) /\ DOMAIN (<<r>> \o t) = 1 .. Len(t) + 1
        /\ (<<r>> \o t)[1] = r /\ Len(t) \in Nat /\ DOMAIN t = 1 .. Len(t)
        /\ \A i \in 2 .. Len(t) + 1 : (<<r>> \o t)[i] = t[i - 1]
    BY <2>1
  <2>4. ASSUME NEW i \in 1 .. Len(t) + 1 PROVE Pending(Letters, (<<r>> \o t)[i])
    <3>1. CASE i = 1
      BY <3>1, <2>1, <2>3
    <3>2. CASE i # 1
      <4>1. i \in 2 .. Len(t) + 1 /\ i - 1 \in DOMAIN t
        BY <2>3, <2>4, <3>2
      <4> QED
        BY <4>1, <2>1, <2>3 DEF AllPending
    <3> QED
      BY <3>1, <3>2
  <2> QED
    BY <2>2, <2>3, <2>4 DEF AllPending
<1>6. next' \in Nat \ {0}
  BY <1>1, <1>2, SplittingFacts
<1> QED
  BY <1>1, <1>2, <1>4, <1>5, <1>6, SplittingStep, NothingIsGood

(* What is left of a hard split is its last segment.                       *)
LEMMA EndSplitHardKeeps ==
  ASSUME ChunkingInvariant, EndSplitHard
  PROVE  ChunkingInvariant'
<1>1. /\ todo # <<>> /\ Head(todo).size <= Maximum
      /\ result' = Append(result, Head(todo)) /\ todo' = Tail(todo)
      /\ UNCHANGED <<text, stage, units, next, current>>
  BY DEF EndSplitHard
<1>2. /\ stage = "split" /\ Pending(Letters, Head(todo))
      /\ Tail(todo) \in Seq(Units) /\ AllPending(Letters, Tail(todo))
  BY <1>1, PendingMeansSplitting
<1>3. result' \in Seq(Units) /\ AllGood(Letters, result')
  BY <1>1, <1>2, SplittingFacts, PendingIsGood, GoodMore
<1> QED
  BY <1>1, <1>2, <1>3, SplittingFacts, SplittingStep

(* A text unit joined by a space keeps both edges on letters.              *)
LEMMA ExtendedFacts ==
  ASSUME ChunkingInvariant, stage = "split", NEW u \in Units, Pending(Letters, u),
         u.warnings = {}, u.size <= Maximum
  PROVE  /\ Extended(u) \in Units /\ Extended(u).warnings = {}
         /\ Extended(u).size <= Maximum => Good(Letters, Extended(u))
         /\ current = <<>> => Extended(u) = u
<1>1. CASE current = <<>>
  BY <1>1, PendingIsGood DEF Extended
<1>2. CASE current # <<>>
  <2> DEFINE c == current[1]
             e == Extended(u)
  <2>1. c \in Units /\ Good(Letters, c) /\ c.warnings = {}
    <3>1. current = <<c>> /\ c \in Units
      BY <1>2, SplittingFacts, WithCurrent
    <3>2. 1 \in DOMAIN current
      BY <3>1
    <3> QED
      BY <1>2, <3>1, <3>2, SplittingFacts DEF AllGood
  <2>2. /\ c.size \in Int /\ c.from \in Letters /\ c.to \in Letters
        /\ Strip(Letters, c).size >= 0 /\ Strip(Letters, c).size = c.size
    BY <2>1, StripType DEF Good, Units
  <2>3. u.size \in Int /\ u.size > 0 /\ u.to \in Int /\ u.to \in Letters
    BY DEF Pending, Units
  <2>4. /\ e \in Units /\ e.warnings = {} /\ e.from = c.from /\ e.to = u.to
        /\ e.size = c.size + 1 + u.size
    <3>1. e = [c EXCEPT !.to = u.to, !.size = c.size + 1 + u.size]
      BY <1>2, <2>1 DEF Extended
    <3> DEFINE size == c.size + 1 + u.size
               to == u.to
    <3>2. size \in Int /\ to \in Int /\ e = [c EXCEPT !.to = to, !.size = size]
      BY <2>2, <2>3, <3>1
    <3> HIDE DEF size, to, c, e
    <3>3. /\ e \in Units /\ e.warnings = c.warnings /\ e.from = c.from /\ e.to = to
          /\ e.size = size
      BY <2>1, <3>2 DEF Units
    <3> QED
      BY <2>1, <3>3 DEF size, to
  <2>5. Strip(Letters, e).size = e.size
    BY <2>2, <2>3, <2>4, StripType
  <2>6. e.size >= 0
    BY <2>2, <2>3, <2>4
  <2> QED
    BY <1>2, <2>2, <2>3, <2>4, <2>5, <2>6 DEF Good
<1> QED
  BY <1>1, <1>2

(* A text unit is added to the unit under construction, or begins one.     *)
LEMMA PackTextUnitKeeps ==
  ASSUME ChunkingInvariant, PackTextUnit
  PROVE  ChunkingInvariant'
<1> DEFINE u == Head(todo)
           full == Extended(u).size > Maximum
           packed == IF full THEN u ELSE Extended(u)
           written == IF full THEN result \o current ELSE result
<1>1. /\ todo # <<>> /\ u.size <= Maximum /\ u.warnings = {}
      /\ todo' = Tail(todo) /\ UNCHANGED <<text, stage, units, next>>
      /\ \/ result' = Append(written, packed) /\ current' = <<>>
         \/ result' = written /\ current' = <<packed>>
  BY DEF PackTextUnit
<1>2. /\ stage = "split" /\ u \in Units /\ Pending(Letters, u)
      /\ Tail(todo) \in Seq(Units) /\ AllPending(Letters, Tail(todo))
  BY <1>1, PendingMeansSplitting
<1>3. packed \in Units /\ Good(Letters, packed) /\ packed.warnings = {}
  <2>1. /\ Extended(u) \in Units /\ Extended(u).warnings = {}
        /\ Extended(u).size <= Maximum => Good(Letters, Extended(u))
    BY <1>1, <1>2, ExtendedFacts
  <2>2. CASE full
    BY <1>1, <1>2, <2>2, PendingIsGood
  <2>3. CASE ~full
    <3>1. Extended(u).size \in Int /\ Maximum \in Int
      BY <2>1, SettingsAreNumbers DEF Units
    <3>2. Extended(u).size <= Maximum
      BY <2>3, <3>1
    <3> QED
      BY <2>1, <2>3, <3>2
  <2> QED
    BY <2>2, <2>3
<1>4. written \in Seq(Units) /\ AllGood(Letters, written)
  BY <1>2, SplittingFacts, GoodWithCurrent
<1> HIDE DEF packed, written, full, u
<1>5. /\ <<packed>> \in Seq(Units) /\ Len(<<packed>>) = 1 /\ <<packed>>[1] = packed
      /\ DOMAIN <<packed>> = {1}
  BY <1>3
<1>6. AllGood(Letters, <<packed>>)
  BY <1>3, <1>5 DEF AllGood
<1>7. next' \in Nat \ {0}
  BY <1>1, <1>2, SplittingFacts
<1>8. CASE result' = Append(written, packed) /\ current' = <<>>
  <2>1. result' \in Seq(Units) /\ AllGood(Letters, result')
    BY <1>3, <1>4, <1>8, GoodMore
  <2> QED
    BY <1>1, <1>2, <1>7, <1>8, <2>1, SplittingStep, NothingIsGood
<1>9. CASE result' = written /\ current' = <<packed>>
  <2>1. current' \in Seq(Units) /\ Len(current') <= 1 /\ AllGood(Letters, current')
    BY <1>5, <1>6, <1>9
  <2>2. current'[1].warnings = {}
    BY <1>3, <1>5, <1>9
  <2>3. result' \in Seq(Units) /\ AllGood(Letters, result')
    BY <1>4, <1>9
  <2> QED
    BY <1>1, <1>2, <1>7, <2>1, <2>2, <2>3, SplittingStep
<1> QED
  BY <1>1, <1>8, <1>9

(* The unit under construction is written at the end of a paragraph.       *)
LEMMA EndParagraphKeeps ==
  ASSUME ChunkingInvariant, EndParagraph
  PROVE  ChunkingInvariant'
<1>1. /\ stage = "split" /\ result' = result \o current /\ current' = <<>>
      /\ UNCHANGED <<text, stage, units, next, todo>>
  BY DEF EndParagraph
<1>2. result' \in Seq(Units) /\ AllGood(Letters, result')
  BY <1>1, SplittingFacts, GoodWithCurrent
<1> QED
  BY <1>1, <1>2, SplittingFacts, SplittingStep, NothingIsGood
(* The loop that packs reads what was split.                               *)
LEMMA EndSplittingKeeps ==
  ASSUME ChunkingInvariant, EndSplitting
  PROVE  ChunkingInvariant'
<1>1. /\ stage = "split" /\ todo = <<>> /\ stage' = "pack" /\ units' = result /\ next' = 1
      /\ current' = <<>> /\ result' = <<>> /\ UNCHANGED <<text, todo>>
  BY DEF EndSplitting, Splitting, Advance
<1>2. Letters' = Letters /\ IsLaidOut(text')
  BY <1>1, SplittingFacts DEF Letters
<1>3. TypeOK'
  BY <1>1, SplittingFacts, NothingIsGood DEF ChunkingInvariant, TypeOK, Stages
<1>4. AllApart(Letters', result' \o current')
  <2>1. result' \o current' = <<>>
    BY <1>1
  <2> QED
    BY <2>1 DEF AllApart
<1>5. PackingInvariant'
  BY <1>1, <1>2, <1>4, SplittingFacts DEF PackingInvariant
<1> QED
  BY <1>1, <1>2, <1>3, <1>5, NothingIsGood DEF ChunkingInvariant

-----------------------------------------------------------------------------
(* The loop that packs.                                                    *)

(* What the loop that packs may rely on.                                   *)
LEMMA PackingFacts ==
  ASSUME ChunkingInvariant, stage = "pack"
  PROVE  /\ IsLaidOut(text) /\ next \in Nat \ {0} /\ todo = <<>>
         /\ units \in Seq(Units) /\ AllGood(Letters, units)
         /\ current \in Seq(Units) /\ Len(current) <= 1 /\ AllGood(Letters, current)
         /\ result \in Seq(Units) /\ AllGood(Letters, result)
         /\ current = <<>> => result = <<>>
         /\ AllApart(Letters, result \o current)
BY DEF ChunkingInvariant, PackingInvariant, TypeOK

(* A unit is the one under construction, behind what was written.          *)
LEMMA PackingStep ==
  ASSUME ChunkingInvariant, stage = "pack", UNCHANGED <<text, stage, units, todo>>,
         next' \in Nat \ {0},
         NEW u, Good(Letters, u), current' = <<u>>,
         result' \in Seq(Units), AllGood(Letters, result'),
         AllApart(Letters, Append(result', u))
  PROVE  ChunkingInvariant'
<1>1. Letters' = Letters /\ IsLaidOut(text') /\ stage' = "pack"
  BY DEF Letters, ChunkingInvariant
<1>2. /\ u \in Units /\ current' \in Seq(Units) /\ Len(current') = 1
      /\ current'[1] = u /\ DOMAIN current' = {1} /\ current' # <<>>
  BY DEF Good
<1>3. AllGood(Letters, current')
  BY <1>2 DEF AllGood
<1>4. TypeOK'
  BY <1>2 DEF ChunkingInvariant, TypeOK
<1>5. result' \o current' = Append(result', u)
  BY <1>2, WithCurrent
<1>6. PackingInvariant'
  BY <1>1, <1>2, <1>5, PackingFacts DEF PackingInvariant
<1> QED
  BY <1>1, <1>3, <1>4, <1>6 DEF ChunkingInvariant

(* What is put on the right of two units keeps them apart.                 *)
LEMMA JoinStaysApart ==
  ASSUME NEW L, NEW l, NEW c, NEW u, Good(L, l), Good(L, c), Good(L, u),
         Apart(L, l, c), Join(L, c, u).size <= Maximum
  PROVE  Apart(L, l, Join(L, c, u))
<1> DEFINE j == Join(L, c, u)
           a == Strip(L, l).size
           b == Strip(L, c).size
           d == Strip(L, j).size
<1>1. j \in Units /\ j.place = c.place /\ d >= b /\ Good(L, j)
  BY JoinType
<1>2. a \in Int /\ b \in Int /\ d \in Int
  BY <1>1, StripType DEF Good, Units
<1>3. Join(L, l, c).size = a + 2 + b
  BY JoinType
<1> HIDE DEF j
<1>4. Join(L, l, j).size = a + 2 + d
  BY <1>1, JoinType
<1>5. SUFFICES ASSUME l.place = j.place PROVE Join(L, l, j).size > Target
  BY DEF Apart, j
<1>6. a + 2 + b > Target
  BY <1>1, <1>3, <1>5 DEF Apart
<1> HIDE DEF a, b, d
<1> QED
  BY <1>1, <1>2, <1>4, <1>6, SettingsAreNumbers

(* A unit is merged into the one under construction, or begins one.        *)
LEMMA PackKeeps ==
  ASSUME ChunkingInvariant, Pack
  PROVE  ChunkingInvariant'
<1> DEFINE u == units[next]
           c == current[1]
<1>1. /\ stage = "pack" /\ next <= Len(units) /\ next' = next + 1
      /\ UNCHANGED <<text, stage, units, todo>>
      /\ \/ current = <<>> /\ current' = <<u>> /\ result' = result
         \/ /\ current # <<>> /\ ShouldMerge(c, u)
            /\ current' = <<Merged(c, u)>> /\ result' = result
         \/ /\ current # <<>> /\ ~ShouldMerge(c, u)
            /\ current' = <<u>> /\ result' = result \o current
  BY DEF Pack
<1>2. next \in DOMAIN units /\ next' \in Nat \ {0}
  BY <1>1, PackingFacts
<1>3. Good(Letters, u) /\ u \in Units
  BY <1>1, <1>2, PackingFacts DEF AllGood, Good
<1> HIDE DEF u
<1>4. CASE current = <<>> /\ current' = <<u>> /\ result' = result
  <2>1. result' = <<>> /\ AllGood(Letters, result') /\ result' \in Seq(Units)
    BY <1>1, <1>4, PackingFacts
  <2>2. AllApart(Letters, <<>>)
    BY DEF AllApart
  <2>3. AllApart(Letters, Append(result', u))
    BY <1>3, <2>1, <2>2, ApartMore
  <2> QED
    BY <1>1, <1>2, <1>3, <1>4, <2>1, <2>3, PackingStep
<1>5. ASSUME current # <<>>
      PROVE  /\ c \in Units /\ Good(Letters, c) /\ result \o current = Append(result, c)
             /\ result \in Seq(Units) /\ AllGood(Letters, result)
             /\ AllApart(Letters, Append(result, c))
  <2>1. /\ current = <<c>> /\ c \in Units /\ result \o current = Append(result, c)
    BY <1>1, <1>5, PackingFacts, WithCurrent
  <2>2. 1 \in DOMAIN current
    BY <2>1
  <2>3. Good(Letters, c)
    BY <1>1, <2>2, PackingFacts DEF AllGood
  <2> QED
    BY <1>1, <2>1, <2>3, PackingFacts
<1> HIDE DEF c
<1>6. CASE /\ current # <<>> /\ ShouldMerge(c, u)
           /\ current' = <<Merged(c, u)>> /\ result' = result
  <2> DEFINE j == Join(Letters, c, u)
  <2>1. Merged(c, u) = j /\ j.size <= Maximum
    BY <1>6, SameOperations DEF ShouldMerge, CanMerge
  <2>2. Good(Letters, j) /\ j \in Units
    BY <1>3, <1>5, <1>6, <2>1, JoinType
  <2>3. AllApart(Letters, result) /\ (result # <<>> => Apart(Letters, result[Len(result)], c))
    BY <1>5, <1>6, ApartLess
  <2>4. result # <<>> => Good(Letters, result[Len(result)])
    BY <1>5, <1>6, EndIsGood
  <2>5. result # <<>> => Apart(Letters, result[Len(result)], j)
    BY <1>3, <1>5, <1>6, <2>1, <2>3, <2>4, JoinStaysApart
  <2> HIDE DEF j
  <2>6. AllApart(Letters, Append(result, j))
    BY <1>5, <1>6, <2>2, <2>3, <2>5, ApartMore
  <2> QED
    BY <1>1, <1>2, <1>5, <1>6, <2>1, <2>2, <2>6, PackingStep
<1>7. CASE /\ current # <<>> /\ ~ShouldMerge(c, u)
           /\ current' = <<u>> /\ result' = result \o current
  <2>1. result' = Append(result, c) /\ result' \in Seq(Units) /\ AllGood(Letters, result')
    BY <1>5, <1>7, GoodMore
  <2>2. result'[Len(result')] = c
    BY <1>5, <1>7, <2>1, OneMore
  <2>3. Apart(Letters, c, u)
    <3> DEFINE size == Join(Letters, c, u).size
    <3>1. size \in Int
      BY <1>3, <1>5, <1>7, JoinType DEF Units
    <3>2. ~(c.place = u.place /\ size <= Maximum /\ size <= Target)
      BY <1>7, SameOperations DEF ShouldMerge, CanMerge, Compatible
    <3> HIDE DEF size
    <3>3. c.place = u.place => size > Target
      BY <3>1, <3>2, SettingsAreNumbers
    <3> QED
      BY <3>3 DEF Apart, size
  <2>4. AllApart(Letters, Append(result', u))
    BY <1>3, <1>5, <1>7, <2>1, <2>2, <2>3, ApartMore
  <2> QED
    BY <1>1, <1>2, <1>3, <1>7, <2>1, <2>4, PackingStep
<1> QED
  BY <1>1, <1>4, <1>6, <1>7

(* The loop that merges reads neighbours that are apart.                   *)
LEMMA EndPackingKeeps ==
  ASSUME ChunkingInvariant, EndPacking
  PROVE  ChunkingInvariant'
<1>1. /\ stage = "pack" /\ stage' = "merge" /\ units' = result \o current /\ next' = 1
      /\ current' = <<>> /\ result' = <<>> /\ UNCHANGED <<text, todo>>
  BY DEF EndPacking, Advance
<1>2. Letters' = Letters /\ IsLaidOut(text') /\ todo' = <<>>
  BY <1>1, PackingFacts DEF Letters
<1>3. /\ units' \in Seq(Units) /\ AllGood(Letters, units') /\ AllApart(Letters, units')
      /\ Len(units') \in Nat
  BY <1>1, PackingFacts, GoodWithCurrent
<1>4. TypeOK'
  BY <1>1, <1>3, NothingIsGood DEF ChunkingInvariant, TypeOK, Stages
<1>5. MergingInvariant'
  <2> DEFINE n == Len(units')
  <2>1. n \in Nat
    BY <1>3
  <2> HIDE DEF n
  <2>2. next' <= n + 1
    BY <1>1, <2>1
  <2>3. AllExplained(result') /\ result' = <<>> /\ current' = <<>>
    BY <1>1, NothingIsGood
  <2> QED
    BY <1>2, <1>3, <2>2, <2>3, Zenon DEF MergingInvariant, n
<1> QED
  BY <1>1, <1>2, <1>4, <1>5, NothingIsGood DEF ChunkingInvariant

-----------------------------------------------------------------------------
(* The loop that merges.                                                   *)

(* What the loop that merges may rely on.                                  *)
LEMMA MergingFacts ==
  ASSUME ChunkingInvariant, stage = "merge"
  PROVE  /\ IsLaidOut(text) /\ next \in Nat \ {0} /\ todo = <<>> /\ current = <<>>
         /\ units \in Seq(Units) /\ AllGood(Letters, units) /\ AllApart(Letters, units)
         /\ result \in Seq(Units) /\ AllGood(Letters, result) /\ AllExplained(result)
         /\ next <= Len(units) + 1
         /\ result # <<>> =>
              next > 1 /\ Covers(Letters, result[Len(result)], units[next - 1])
BY DEF ChunkingInvariant, MergingInvariant, TypeOK

(* A unit is written that ends with the last unit read.                    *)
LEMMA MergingStep ==
  ASSUME ChunkingInvariant, stage = "merge",
         UNCHANGED <<text, stage, units, todo, current>>,
         next' \in Nat \ {0, 1}, next' <= Len(units) + 1,
         NEW s \in Seq(Units), AllGood(Letters, s), AllExplained(s),
         NEW u, Good(Letters, u), Explained(u), result' = Append(s, u),
         Covers(Letters, u, units[next' - 1])
  PROVE  ChunkingInvariant'
<1>1. Letters' = Letters /\ IsLaidOut(text') /\ stage' = "merge"
  BY DEF Letters, ChunkingInvariant
<1>2. u \in Units /\ result' \in Seq(Units) /\ AllGood(Letters, result')
  BY GoodMore DEF Good
<1>3. AllExplained(result') /\ result'[Len(result')] = u
  BY <1>2, ExplainedMore, OneMore
<1>4. TypeOK'
  BY <1>2 DEF ChunkingInvariant, TypeOK
<1>5. next' > 1
  OBVIOUS
<1>6. MergingInvariant'
  BY <1>1, <1>3, <1>5, MergingFacts DEF MergingInvariant
<1>7. AllGood(Letters, current')
  BY MergingFacts DEF AllGood
<1> QED
  BY <1>1, <1>2, <1>4, <1>6, <1>7 DEF ChunkingInvariant

(* The unit the loop reads, and the one after it.                          *)
LEMMA UnitRead ==
  ASSUME ChunkingInvariant, Merging
  PROVE  /\ stage = "merge" /\ Len(units) \in Nat /\ next \in 1 .. Len(units)
         /\ next \in Nat \ {0}
         /\ units[next] \in Units /\ Good(Letters, units[next])
         /\ units[next].size \in Int
         /\ next + 1 <= Len(units) =>
              /\ units[next + 1] \in Units /\ Good(Letters, units[next + 1])
              /\ Apart(Letters, units[next], units[next + 1])
         /\ next > 1 =>
              /\ Good(Letters, units[next - 1])
              /\ Apart(Letters, units[next - 1], units[next])
<1>1. stage = "merge" /\ next <= Len(units)
  BY DEF Merging
<1> DEFINE n == Len(units)
<1>2. /\ n \in Nat /\ next \in 1 .. n /\ DOMAIN units = 1 .. n
      /\ next \in Nat \ {0}
  BY <1>1, MergingFacts
<1>3. /\ \A i \in 1 .. n : Good(Letters, units[i])
      /\ \A i \in 1 .. n - 1 : Apart(Letters, units[i], units[i + 1])
  BY <1>1, <1>2, MergingFacts DEF AllGood, AllApart
<1> HIDE DEF n
<1>4. units[next] \in Units /\ units[next].size \in Int
  BY <1>2, <1>3 DEF Good, Units
<1>5. ASSUME next + 1 <= n
      PROVE  /\ units[next + 1] \in Units /\ Good(Letters, units[next + 1])
             /\ Apart(Letters, units[next], units[next + 1])
  <2>1. next + 1 \in 1 .. n /\ next \in 1 .. n - 1
    BY <1>2, <1>5
  <2> QED
    BY <1>3, <2>1 DEF Good
<1>6. ASSUME next > 1
      PROVE  /\ Good(Letters, units[next - 1])
             /\ Apart(Letters, units[next - 1], units[next])
  <2>1. next - 1 \in 1 .. n /\ next - 1 \in 1 .. n - 1 /\ (next - 1) + 1 = next
    BY <1>2, <1>6
  <2>2. Apart(Letters, units[next - 1], units[(next - 1) + 1])
    BY <1>3, <2>1
  <2> QED
    BY <1>3, <2>1, <2>2
<1> QED
  BY <1>1, <1>2, <1>3, <1>4, <1>5, <1>6 DEF n

(* The loop that merges has read one unit more.                            *)
LEMMA OneRead ==
  ASSUME ChunkingInvariant, Merging, next' = next + 1
  PROVE  next' \in Nat \ {0, 1} /\ next' <= Len(units) + 1 /\ next' - 1 = next
<1> DEFINE n == Len(units)
<1>1. n \in Nat /\ next \in 1 .. n
  BY UnitRead
<1> HIDE DEF n
<1>2. next' \in Nat \ {0, 1} /\ next' <= n + 1 /\ next' - 1 = next
  BY <1>1
<1> QED
  BY <1>2 DEF n

(* A unit ends with itself.                                                *)
LEMMA CoversItself ==
  ASSUME NEW L, NEW u \in Units
  PROVE  Covers(L, u, u)
<1>1. Strip(L, u).size \in Int
  BY StripType DEF Units
<1> QED
  BY <1>1 DEF Covers

(* A unit that is not short is written as it is.                           *)
LEMMA KeepLongKeeps ==
  ASSUME ChunkingInvariant, KeepLong
  PROVE  ChunkingInvariant'
<1> DEFINE u == units[next]
<1>1. /\ Merging /\ ~(u.size < Minimum)
      /\ result' = Append(result, u) /\ next' = next + 1
      /\ UNCHANGED <<text, stage, units, todo, current>>
  BY DEF KeepLong, IsShort
<1>2. /\ u \in Units /\ Good(Letters, u) /\ Explained(u)
      /\ Covers(Letters, u, u)
  BY <1>1, UnitRead, CoversItself DEF Explained
<1>3. /\ next' \in Nat \ {0, 1} /\ next' <= Len(units) + 1 /\ next' - 1 = next
  BY <1>1, OneRead
<1>4. Covers(Letters, u, units[next' - 1])
  BY <1>2, <1>3
<1> HIDE DEF u
<1> QED
  BY <1>1, <1>2, <1>3, <1>4, UnitRead, MergingFacts, MergingStep

(* A unit that ends with another one is, with what was apart from that one, *)
(* over the target, and so over the minimum.                               *)
LEMMA MergedIsExplained ==
  ASSUME NEW L, NEW l, NEW last, NEW r, Good(L, l), Good(L, last), Good(L, r),
         l.place = r.place, Join(L, l, r).size <= Maximum,
         Covers(L, l, last), Apart(L, last, r)
  PROVE  /\ Good(L, Join(L, l, r)) /\ Explained(Join(L, l, r))
         /\ Covers(L, Join(L, l, r), r)
<1> DEFINE j == Join(L, l, r)
           a == Strip(L, l).size
           b == Strip(L, last).size
           d == Strip(L, r).size
<1>1. /\ j.size = a + 2 + d /\ Join(L, last, r).size = b + 2 + d
      /\ Good(L, j) /\ j.place = l.place /\ Strip(L, j).size >= d
  BY JoinType
<1>2. a \in Int /\ b \in Int /\ d \in Int
  BY StripType DEF Good, Units
<1>3. a >= b /\ b + 2 + d > Target
  BY <1>1 DEF Covers, Apart
<1> HIDE DEF a, b, d
<1>4. ~(a + 2 + d < Minimum)
  BY <1>2, <1>3, SettingsAreNumbers
<1>5. Explained(j)
  BY <1>1, <1>4 DEF Explained
<1>6. Covers(L, j, r)
  BY <1>1 DEF Covers, d
<1> QED
  BY <1>1, <1>5, <1>6

(* A short unit is merged into the one written last.                       *)
LEMMA MergeWithPreviousKeeps ==
  ASSUME ChunkingInvariant, MergeWithPrevious
  PROVE  ChunkingInvariant'
<1> DEFINE u == units[next]
           l == Last(result)
           last == units[next - 1]
           j == Join(Letters, l, u)
           s == Front(result)
<1>1. /\ Merging /\ result # <<>> /\ CanMerge(l, u)
      /\ result' = Append(s, Merged(l, u)) /\ next' = next + 1
      /\ UNCHANGED <<text, stage, units, todo, current>>
  BY DEF MergeWithPrevious, WithPrevious
<1>2. Merged(l, u) = j /\ l.place = u.place /\ j.size <= Maximum
  BY <1>1, SameOperations DEF CanMerge, Compatible
<1>3. /\ Good(Letters, l) /\ next > 1 /\ Covers(Letters, l, last)
  BY <1>1, UnitRead, MergingFacts, EndIsGood
<1>4. /\ Good(Letters, u) /\ Good(Letters, last) /\ Apart(Letters, last, u)
  BY <1>1, <1>3, UnitRead
<1>5. s \in Seq(Units) /\ AllGood(Letters, s) /\ AllExplained(s)
  BY <1>1, UnitRead, MergingFacts, FrontKeeps
<1>6. next' \in Nat \ {0, 1} /\ next' <= Len(units) + 1 /\ next' - 1 = next
  BY <1>1, OneRead
<1> HIDE DEF l, last, s
<1>7. Good(Letters, j) /\ Explained(j) /\ Covers(Letters, j, u)
  BY <1>2, <1>3, <1>4, MergedIsExplained
<1>8. Covers(Letters, j, units[next' - 1])
  BY <1>6, <1>7
<1> HIDE DEF u, j
<1> QED
  BY <1>1, <1>2, <1>5, <1>6, <1>7, <1>8, UnitRead, MergingStep

(* A short unit is merged with the one after it.                           *)
LEMMA MergeWithNextKeeps ==
  ASSUME ChunkingInvariant, MergeWithNext
  PROVE  ChunkingInvariant'
<1> DEFINE u == units[next]
           r == units[next + 1]
           j == Join(Letters, u, r)
<1>1. /\ Merging /\ next + 1 <= Len(units) /\ CanMerge(u, r)
      /\ result' = Append(result, Merged(u, r)) /\ next' = next + 2
      /\ UNCHANGED <<text, stage, units, todo, current>>
  BY DEF MergeWithNext, WithNext
<1>2. Merged(u, r) = j /\ u.place = r.place /\ j.size <= Maximum
  BY <1>1, SameOperations DEF CanMerge, Compatible
<1>3. /\ Good(Letters, u) /\ Good(Letters, r) /\ Apart(Letters, u, r)
      /\ Covers(Letters, u, u)
  BY <1>1, UnitRead, CoversItself
<1>4. next' \in Nat \ {0, 1} /\ next' <= Len(units) + 1 /\ next' - 1 = next + 1
  BY <1>1, UnitRead
<1> HIDE DEF u, r
<1>5. Good(Letters, j) /\ Explained(j) /\ Covers(Letters, j, r)
  BY <1>2, <1>3, MergedIsExplained
<1>6. Covers(Letters, j, units[next' - 1])
  BY <1>4, <1>5 DEF r
<1> HIDE DEF j
<1> QED
  BY <1>1, <1>2, <1>4, <1>5, <1>6, UnitRead, MergingFacts, MergingStep

(* A short unit that no neighbour takes carries a warning.                 *)
LEMMA KeepShortKeeps ==
  ASSUME ChunkingInvariant, KeepShort
  PROVE  ChunkingInvariant'
<1> DEFINE u == units[next]
           w == [u EXCEPT !.warnings = @ \cup {"undersized"}]
<1>1. /\ Merging /\ result' = Append(result, w) /\ next' = next + 1
      /\ UNCHANGED <<text, stage, units, todo, current>>
  BY DEF KeepShort
<1>2. u \in Units /\ Good(Letters, u)
  BY <1>1, UnitRead
<1>3. /\ w \in Units /\ w.from = u.from /\ w.to = u.to /\ w.size = u.size
      /\ w.place = u.place /\ w.warnings = u.warnings \cup {"undersized"}
  BY <1>2 DEF Units, Warnings
<1>4. next' \in Nat \ {0, 1} /\ next' <= Len(units) + 1 /\ next' - 1 = next
  BY <1>1, OneRead
<1> HIDE DEF u, w
<1>5. w.warnings # {} /\ Strip(Letters, w).size = Strip(Letters, u).size
  <2>1. w.warnings # {}
    BY <1>3
  <2> QED
    BY <1>2, <1>3, <2>1, SameSize
<1>6. Good(Letters, w) /\ Explained(w)
  BY <1>2, <1>3, <1>5 DEF Good, Explained
<1>7. Covers(Letters, w, u)
  BY <1>2, <1>3, <1>5, CoversItself DEF Covers
<1>8. Covers(Letters, w, units[next' - 1])
  BY <1>4, <1>7 DEF u
<1> QED
  BY <1>1, <1>4, <1>6, <1>8, UnitRead, MergingFacts, MergingStep

(* The loop that overlaps reads explained units.                           *)
LEMMA EndMergingKeeps ==
  ASSUME ChunkingInvariant, EndMerging
  PROVE  ChunkingInvariant'
<1>1. /\ stage = "merge" /\ stage' = "overlap" /\ units' = result /\ next' = 1
      /\ current' = <<>> /\ result' = <<>> /\ UNCHANGED <<text, todo>>
  BY DEF EndMerging, Advance
<1>2. Letters' = Letters /\ IsLaidOut(text') /\ todo' = <<>>
  BY <1>1, MergingFacts DEF Letters
<1>3. TypeOK'
  BY <1>1, MergingFacts, NothingIsGood DEF ChunkingInvariant, TypeOK, Stages
<1>4. OverlapInvariant'
  BY <1>1, <1>2, MergingFacts, NothingIsGood DEF OverlapInvariant
<1> QED
  BY <1>1, <1>2, <1>3, <1>4, NothingIsGood DEF ChunkingInvariant

-----------------------------------------------------------------------------
(* The loop that repeats the end of a unit, and the last strip.            *)

(* What the loop that overlaps may rely on.                                *)
LEMMA OverlapFacts ==
  ASSUME ChunkingInvariant, stage = "overlap"
  PROVE  /\ IsLaidOut(text) /\ next \in Nat \ {0} /\ todo = <<>> /\ current = <<>>
         /\ units \in Seq(Units) /\ AllGood(Letters, units) /\ AllExplained(units)
         /\ result \in Seq(Units) /\ AllGood(Letters, result) /\ AllExplained(result)
BY DEF ChunkingInvariant, OverlapInvariant, TypeOK

(* A unit behind what it repeats.                                          *)
LEMMA BorrowedIsGood ==
  ASSUME NEW L, NEW u, Good(L, u), NEW prefix \in Nat, NEW w,
         prefix > 0, prefix + 2 + u.size <= Maximum,
         w = [Strip(L, u) EXCEPT !.size = prefix + 2 + @,
                !.warnings = @ \cup {"overlap"}, !.borrowed = prefix]
  PROVE  Good(L, w) /\ Explained(w)
<1> DEFINE a == Strip(L, u)
           size == prefix + 2 + a.size
           ws == a.warnings \cup {"overlap"}
<1>1. /\ u \in Units /\ u.size \in Int /\ a \in Units /\ a.size \in Int
      /\ a.size >= 0 /\ a.size <= u.size /\ a.warnings \in SUBSET Warnings
  BY StripType DEF Good, Units
<1>2. size \in Int /\ size <= Maximum /\ size >= 2
  BY <1>1, SettingsAreNumbers
<1>3. ws \in SUBSET Warnings /\ ws # {}
  BY <1>1 DEF Warnings
<1>4. w = [a EXCEPT !.size = size, !.warnings = ws, !.borrowed = prefix]
  OBVIOUS
<1> HIDE DEF a, size, ws
<1>5. w \in Units /\ w.size = size /\ w.warnings = ws
  BY <1>1, <1>2, <1>3, <1>4 DEF Units
<1>6. Strip(L, w).size >= w.size - 2 /\ Strip(L, w) \in Units
  BY <1>5, StripType
<1>7. Strip(L, w).size >= 0
  <2>1. Strip(L, w).size \in Int
    BY <1>6 DEF Units
  <2> QED
    BY <1>2, <1>5, <1>6, <2>1
<1> QED
  BY <1>2, <1>3, <1>5, <1>7 DEF Good, Explained

(* A unit is written as it is, or behind what it repeats.                  *)
LEMMA ApplyOverlapKeeps ==
  ASSUME ChunkingInvariant, ApplyOverlap
  PROVE  ChunkingInvariant'
<1> DEFINE u == units[next]
           Whole(prefix) == [Strip(Letters, u) EXCEPT !.size = prefix + 2 + @,
                               !.warnings = @ \cup {"overlap"}, !.borrowed = prefix]
<1>1. /\ stage = "overlap" /\ next <= Len(units) /\ next' = next + 1
      /\ UNCHANGED <<text, stage, units, todo, current>>
  BY DEF ApplyOverlap
<1>2. Good(Letters, u) /\ Explained(u) /\ u \in Units
  <2>1. next \in DOMAIN units
    BY <1>1, OverlapFacts
  <2> QED
    BY <1>1, <2>1, OverlapFacts DEF AllGood, AllExplained, Good
<1>3. Stripped(u) = Strip(Letters, u)
  BY SameOperations
<1>4. PICK prefix \in 0 .. Overlap, repeated \in BOOLEAN :
        \/ result' = Append(result, u)
        \/ /\ Borrows(units[next - 1], u, prefix)
           /\ result' = Append(result, Whole(prefix))
  BY <1>3 DEF ApplyOverlap
<1>5. \E w : result' = Append(result, w) /\ Good(Letters, w) /\ Explained(w)
  <2>1. CASE result' = Append(result, u)
    BY <1>2, <2>1
  <2>2. CASE /\ Borrows(units[next - 1], u, prefix)
             /\ result' = Append(result, Whole(prefix))
    <3>1. prefix \in Nat /\ prefix > 0 /\ prefix + 2 + u.size <= Maximum
      BY <2>2, SettingsAreNumbers DEF Borrows
    <3>2. Good(Letters, Whole(prefix)) /\ Explained(Whole(prefix))
      BY <1>2, <3>1, BorrowedIsGood
    <3> QED
      BY <2>2, <3>2
  <2> QED
    BY <1>4, <2>1, <2>2
<1>6. PICK w : result' = Append(result, w) /\ Good(Letters, w) /\ Explained(w)
  BY <1>5
<1>7. /\ result' \in Seq(Units) /\ AllGood(Letters, result') /\ AllExplained(result')
  <2>1. w \in Units
    BY <1>6 DEF Good
  <2> QED
    BY <1>1, <1>6, <2>1, OverlapFacts, GoodMore, ExplainedMore
<1>8. Letters' = Letters /\ IsLaidOut(text') /\ stage' = "overlap" /\ next' \in Nat \ {0}
  BY <1>1, OverlapFacts DEF Letters
<1>9. TypeOK'
  BY <1>1, <1>7, <1>8 DEF ChunkingInvariant, TypeOK
<1>10. OverlapInvariant'
  BY <1>1, <1>7, <1>8, OverlapFacts DEF OverlapInvariant
<1> QED
  BY <1>1, <1>7, <1>8, <1>9, <1>10 DEF ChunkingInvariant

(* The last strip leaves a unit without a warning as it is.                *)
LEMMA EndOverlapKeeps ==
  ASSUME ChunkingInvariant, EndOverlap
  PROVE  ChunkingInvariant'
<1>1. /\ stage = "overlap" /\ stage' = "done" /\ next' = 1
      /\ units' = [i \in DOMAIN result |-> Strip(Letters, result[i])]
      /\ current' = <<>> /\ result' = <<>> /\ UNCHANGED <<text, todo>>
  BY SameOperations DEF EndOverlap, Advance
<1>2. IsLaidOut(text') /\ todo' = <<>>
  BY <1>1, OverlapFacts
<1>3. ASSUME NEW i \in DOMAIN result
      PROVE  /\ Strip(Letters, result[i]) \in Units
             /\ Strip(Letters, result[i]).size <= Maximum
             /\ Explained(Strip(Letters, result[i]))
  <2> DEFINE u == result[i]
             a == Strip(Letters, u)
  <2>1. u \in Units /\ Good(Letters, u) /\ Explained(u) /\ u.size \in Int
    BY <1>1, <1>3, OverlapFacts DEF AllGood, AllExplained, Good, Units
  <2>2. /\ a \in Units /\ a.size \in Int /\ a.size <= u.size /\ a.warnings = u.warnings
        /\ u.warnings = {} => a.size = u.size
    BY <2>1, StripType DEF Good, Units
  <2> HIDE DEF u, a
  <2>3. a.size <= Maximum
    BY <2>1, <2>2, SettingsAreNumbers DEF Good
  <2>4. Explained(a)
    BY <2>1, <2>2 DEF Explained
  <2> QED
    BY <2>2, <2>3, <2>4 DEF u, a
<1>4. units' \in Seq(Units) /\ DOMAIN units' = DOMAIN result
  <2>1. result \in Seq(Units)
    BY <1>1, OverlapFacts
  <2> QED
    BY <1>1, <1>3, <2>1
<1>5. AllFit(units') /\ AllExplained(units')
  BY <1>1, <1>3, <1>4 DEF AllFit, AllExplained
<1>6. TypeOK'
  BY <1>1, <1>4, OverlapFacts, NothingIsGood DEF ChunkingInvariant, TypeOK, Stages
<1>7. DoneInvariant'
  BY <1>1, <1>2, <1>5 DEF DoneInvariant
<1> QED
  BY <1>1, <1>2, <1>6, <1>7, NothingIsGood DEF ChunkingInvariant

-----------------------------------------------------------------------------
(* The invariant, for every run of the chunker.                            *)

(* The chunker begins with nothing but a document, which it is given at    *)
(* once or by the parsers.                                                 *)
Start ==
  /\ IsLaidOut(text) /\ stage = "split" /\ next = 1
  /\ units = <<>> /\ todo = <<>> /\ current = <<>> /\ result = <<>>

LEMMA InitIsStart == Init => Start
BY TextsAreLaidOut DEF Init, Start

LEMMA StartIsInvariant == Start => ChunkingInvariant
<1> SUFFICES ASSUME Start PROVE ChunkingInvariant
  OBVIOUS
<1>1. /\ IsLaidOut(text) /\ text \in Seq(Paragraphs) /\ stage = "split" /\ next = 1
      /\ units = <<>> /\ todo = <<>> /\ current = <<>> /\ result = <<>>
  BY DEF Start, IsLaidOut
<1>2. TypeOK
  BY <1>1, NothingIsGood DEF TypeOK, Stages
<1>3. SplittingInvariant
  BY <1>1, NothingIsGood DEF SplittingInvariant
<1> QED
  BY <1>1, <1>2, <1>3, NothingIsGood DEF ChunkingInvariant

(* Every step of every loop keeps the invariant.                           *)
LEMMA NextKeeps == ChunkingInvariant /\ [Next]_vars => ChunkingInvariant'
<1> SUFFICES ASSUME ChunkingInvariant, [Next]_vars PROVE ChunkingInvariant'
  OBVIOUS
<1>1. CASE KeepParagraph BY <1>1, KeepParagraphKeeps
<1>2. CASE SplitParagraph BY <1>2, SplitParagraphKeeps
<1>3. CASE SplitHard BY <1>3, SplitHardKeeps
<1>4. CASE EndSplitHard BY <1>4, EndSplitHardKeeps
<1>5. CASE PackTextUnit BY <1>5, PackTextUnitKeeps
<1>6. CASE EndParagraph BY <1>6, EndParagraphKeeps
<1>7. CASE EndSplitting BY <1>7, EndSplittingKeeps
<1>8. CASE Pack BY <1>8, PackKeeps
<1>9. CASE EndPacking BY <1>9, EndPackingKeeps
<1>10. CASE KeepLong BY <1>10, KeepLongKeeps
<1>11. CASE MergeWithPrevious BY <1>11, MergeWithPreviousKeeps
<1>12. CASE MergeWithNext BY <1>12, MergeWithNextKeeps
<1>13. CASE KeepShort BY <1>13, KeepShortKeeps
<1>14. CASE EndMerging BY <1>14, EndMergingKeeps
<1>15. CASE ApplyOverlap BY <1>15, ApplyOverlapKeeps
<1>16. CASE EndOverlap BY <1>16, EndOverlapKeeps
<1>17. CASE UNCHANGED vars
  BY <1>17 DEF vars, ChunkingInvariant, TypeOK, SplittingInvariant, PackingInvariant,
              MergingInvariant, OverlapInvariant, DoneInvariant, Letters
<1> QED
  BY <1>1, <1>2, <1>3, <1>4, <1>5, <1>6, <1>7, <1>8, <1>9, <1>10, <1>11, <1>12, <1>13,
     <1>14, <1>15, <1>16, <1>17 DEF Next

(* Every loop keeps what the next one relies on, for every document laid   *)
(* out and every valid settings.                                           *)
THEOREM ChunkingIsInvariant == Spec => []ChunkingInvariant
BY InitIsStart, StartIsInvariant, NextKeeps, PTL DEF Spec

(* The invariant says that every unit fits.                                *)
LEMMA UnitsFit == ChunkingInvariant => ChunksFit
<1> SUFFICES ASSUME ChunkingInvariant, NEW unit \in UnitsSeen PROVE unit.size <= Maximum
  BY DEF ChunksFit
<1>1. AllFit(units)
  BY NothingIsGood DEF ChunkingInvariant, SplittingInvariant, PackingInvariant,
       MergingInvariant, OverlapInvariant, DoneInvariant, TypeOK, Stages,
       AllFit, AllGood, Good
<1>2. AllFit(current) /\ AllFit(result)
  BY DEF ChunkingInvariant, AllFit, AllGood, Good
<1> QED
  BY <1>1, <1>2 DEF UnitsSeen, Range, AllFit

(* And, at the end, that a short unit carries a warning.                   *)
LEMMA ShortUnitsSaySo == ChunkingInvariant => ShortChunksAreWarned
BY DEF ChunkingInvariant, DoneInvariant, ShortChunksAreWarned, AllExplained,
       Explained, Range

(* No loop ever builds a text over the maximum: the size check at the end  *)
(* of the chunker can fail no document.                                    *)
THEOREM ChunksNeverExceed == Spec => []ChunksFit
BY UnitsFit, ChunkingIsInvariant, PTL

(* A chunk under the minimum carries a warning: the loop that merges does  *)
(* not look again at what it has merged, and need not, since packing has   *)
(* left no neighbours that fit the target together.                        *)
THEOREM ShortChunksSaySo == Spec => []ShortChunksAreWarned
BY ShortUnitsSaySo, ChunkingIsInvariant, PTL

-----------------------------------------------------------------------------
(* Where the text is.  What has been written, and then what is unread, lie *)
(* one behind the other and have every letter of the document.             *)

(* A unit as it was cut or merged, before it repeats anything.             *)
Fresh(L, u) == u.from <= u.to /\ (u.from = u.to => u.from \in L) /\ u.borrowed = 0

AllFresh(L, s) == \A i \in DOMAIN s : Fresh(L, s[i])

Within(v, u) == v.place = u.place /\ u.from <= v.from /\ v.to <= u.to

(* No letter of the first unit is outside the second.                      *)
Keeps(L, u, v) == \A p \in L : p \in Positions(u) => p \in Positions(v)

OfPlace(W, u) ==
  \A word \in W : Positions(word) \cap Positions(u) # {} => word.place = u.place

Holds(L, s, P) ==
  \A p \in L : (\E i \in DOMAIN s : p \in Positions(s[i])) \/ \E u \in P : p \in Positions(u)

Covering(L, W, s, P) ==
  /\ s \in Seq(Units) /\ P \subseteq Units
  /\ InOrder(s)
  /\ \A i \in DOMAIN s, u \in P : s[i].to < u.from
  /\ \A i \in DOMAIN s : OfPlace(W, s[i])
  /\ \A u \in P : OfPlace(W, u)
  /\ Holds(L, s, P)

(* A part of a unit is of the places the unit is of.                       *)
LEMMA PartOfPlace ==
  ASSUME NEW W, NEW u \in Units, NEW v \in Units, Within(v, u), OfPlace(W, u)
  PROVE  OfPlace(W, v)
<1>1. /\ u.from \in Int /\ u.to \in Int /\ v.from \in Int /\ v.to \in Int
      /\ v.place = u.place /\ u.from <= v.from /\ v.to <= u.to
  BY DEF Units, Within
<1>2. Positions(v) \subseteq Positions(u)
  BY <1>1 DEF Positions
<1> QED
  BY <1>1, <1>2 DEF OfPlace

(* What is unread may be replaced by its parts.                            *)
LEMMA PartsCover ==
  ASSUME NEW L, NEW W, NEW s, NEW P, Covering(L, W, s, P),
         NEW Q \in SUBSET Units,
         \A v \in Q : \E u \in P : Within(v, u),
         \A p \in L, u \in P : p \in Positions(u) => \E v \in Q : p \in Positions(v)
  PROVE  Covering(L, W, s, Q)
<1>1. ASSUME NEW i \in DOMAIN s, NEW v \in Q PROVE s[i].to < v.from
  <2>1. PICK u \in P : Within(v, u)
    OBVIOUS
  <2>2. s[i].to < u.from /\ u.from <= v.from
    BY <2>1 DEF Covering, Within
  <2>3. s[i].to \in Int /\ u.from \in Int /\ v.from \in Int
    <3>1. s[i] \in Units /\ u \in Units /\ v \in Units
      BY DEF Covering
    <3> QED
      BY <3>1 DEF Units
  <2> QED
    BY <2>2, <2>3
<1>2. ASSUME NEW v \in Q PROVE OfPlace(W, v)
  <2>1. PICK u \in P : Within(v, u)
    OBVIOUS
  <2> QED
    BY <2>1, PartOfPlace DEF Covering
<1>3. Holds(L, s, Q)
  BY DEF Covering, Holds
<1> QED
  BY <1>1, <1>2, <1>3 DEF Covering

(* The first of what is unread may be written.                             *)
LEMMA WriteCovers ==
  ASSUME NEW L, NEW W, NEW s, NEW P, Covering(L, W, s, P), NEW u \in P,
         NEW Q \in SUBSET P, P \subseteq Q \cup {u}, \A v \in Q : u.to < v.from
  PROVE  Covering(L, W, Append(s, u), Q)
<1> DEFINE n == Len(s)
           t == Append(s, u)
<1>1. s \in Seq(Units) /\ u \in Units /\ Q \subseteq Units
  BY DEF Covering
<1>2. /\ t \in Seq(Units) /\ n \in Nat /\ DOMAIN s = 1 .. n /\ DOMAIN t = 1 .. n + 1
      /\ t[n + 1] = u /\ \A i \in 1 .. n : t[i] = s[i]
  BY <1>1, OneMore
<1> HIDE DEF n, t
<1>3. ASSUME NEW i \in DOMAIN t, NEW j \in DOMAIN t, i < j PROVE t[i].to < t[j].from
  <2>1. i \in 1 .. n /\ t[i] = s[i]
    BY <1>2, <1>3
  <2>2. CASE j = n + 1
    BY <1>2, <2>1, <2>2 DEF Covering
  <2>3. CASE j # n + 1
    <3>1. j \in 1 .. n /\ t[j] = s[j]
      BY <1>2, <1>3, <2>3
    <3> QED
      BY <1>2, <1>3, <2>1, <3>1 DEF Covering, InOrder
  <2> QED
    BY <2>2, <2>3
<1>4. ASSUME NEW i \in DOMAIN t, NEW v \in Q PROVE t[i].to < v.from
  <2>1. CASE i = n + 1
    BY <1>2, <2>1
  <2>2. CASE i # n + 1
    <3>1. i \in 1 .. n
      BY <1>2, <2>2
    <3> QED
      BY <1>2, <3>1 DEF Covering
  <2> QED
    BY <2>1, <2>2
<1>5. ASSUME NEW i \in DOMAIN t PROVE OfPlace(W, t[i])
  <2>1. CASE i = n + 1
    BY <1>2, <2>1 DEF Covering
  <2>2. CASE i # n + 1
    <3>1. i \in 1 .. n
      BY <1>2, <2>2
    <3> QED
      BY <1>2, <3>1 DEF Covering
  <2> QED
    BY <2>1, <2>2
<1>6. ASSUME NEW p \in L
      PROVE  (\E i \in DOMAIN t : p \in Positions(t[i])) \/ \E v \in Q : p \in Positions(v)
  <2>1. CASE \E i \in DOMAIN s : p \in Positions(s[i])
    <3>1. PICK i \in DOMAIN s : p \in Positions(s[i])
      BY <2>1
    <3>2. i \in DOMAIN t /\ t[i] = s[i]
      BY <1>2
    <3> QED
      BY <3>1, <3>2
  <2>2. CASE \E v \in P : p \in Positions(v)
    <3>1. PICK v \in P : p \in Positions(v)
      BY <2>2
    <3>2. n + 1 \in DOMAIN t
      BY <1>2
    <3> QED
      BY <1>2, <3>1, <3>2
  <2> QED
    BY <2>1, <2>2 DEF Covering, Holds
<1> QED
  BY <1>1, <1>2, <1>3, <1>4, <1>5, <1>6 DEF Covering, InOrder, Holds, t

(* The unit written last may take up the first of what is unread, where    *)
(* both are of one place: nothing lies between them.                       *)
LEMMA JoinCovers ==
  ASSUME NEW L, NEW W, NEW s \in Seq(Units), NEW l \in Units, NEW P, Covering(L, W, Append(s, l), P),
         NEW u \in P, NEW Q \in SUBSET P, P \subseteq Q \cup {u}, \A v \in Q : u.to < v.from,
         NEW j \in Units, j.place = l.place, l.place = u.place,
         l.from <= j.from, j.to <= u.to, Keeps(L, l, j), Keeps(L, u, j),
         \A word \in W : Positions(word) \subseteq L
  PROVE  Covering(L, W, Append(s, j), Q)
<1> DEFINE n == Len(s)
           b == Append(s, l)
           t == Append(s, j)
<1>1. /\ u \in Units /\ u.from \in Int /\ u.to \in Int /\ Q \subseteq Units
      /\ l.from \in Int /\ l.to \in Int /\ j.from \in Int /\ j.to \in Int
  <2>1. u \in Units /\ Q \subseteq Units
    BY DEF Covering
  <2> QED
    BY <2>1 DEF Units
<1>2. /\ n \in Nat /\ DOMAIN s = 1 .. n
      /\ DOMAIN b = 1 .. n + 1 /\ b[n + 1] = l /\ \A i \in 1 .. n : b[i] = s[i]
      /\ t \in Seq(Units) /\ DOMAIN t = 1 .. n + 1 /\ t[n + 1] = j /\ \A i \in 1 .. n : t[i] = s[i]
  BY OneMore
<1> HIDE DEF n, b, t
<1>3. /\ InOrder(b) /\ \A i \in DOMAIN b, v \in P : b[i].to < v.from
      /\ \A i \in DOMAIN b : OfPlace(W, b[i])
      /\ \A v \in P : OfPlace(W, v)
      /\ Holds(L, b, P)
  BY DEF Covering, b
<1>4. ASSUME NEW i \in 1 .. n PROVE s[i].to < l.from /\ s[i].to < j.from /\ s[i].to \in Int
  <2>1. i \in DOMAIN b /\ n + 1 \in DOMAIN b /\ i < n + 1
    BY <1>2
  <2>2. s[i].to < l.from
    BY <1>2, <1>3, <2>1 DEF InOrder
  <2>3. s[i].to \in Int
    <3>1. i \in DOMAIN s
      BY <1>2
    <3>2. s[i] \in Units
      BY <3>1
    <3> QED
      BY <3>2 DEF Units
  <2> QED
    BY <1>1, <2>2, <2>3
<1>5. ASSUME NEW i \in DOMAIN t, NEW k \in DOMAIN t, i < k PROVE t[i].to < t[k].from
  <2>1. i \in 1 .. n /\ t[i] = s[i]
    BY <1>2, <1>5
  <2>2. CASE k = n + 1
    BY <1>2, <1>4, <2>1, <2>2
  <2>3. CASE k # n + 1
    <3>1. k \in 1 .. n /\ t[k] = s[k]
      BY <1>2, <1>5, <2>3
    <3>2. b[i] = s[i] /\ b[k] = s[k] /\ i \in DOMAIN b /\ k \in DOMAIN b
      BY <1>2, <2>1, <3>1
    <3> QED
      BY <1>3, <1>5, <2>1, <3>1, <3>2 DEF InOrder
  <2> QED
    BY <2>2, <2>3
<1>6. ASSUME NEW i \in DOMAIN t, NEW v \in Q PROVE t[i].to < v.from
  <2>1. CASE i = n + 1
    <3>1. j.to <= u.to /\ u.to < v.from /\ v.from \in Int
      BY <1>1 DEF Units
    <3>2. j.to < v.from
      BY <1>1, <3>1
    <3> QED
      BY <1>2, <2>1, <3>2
  <2>2. CASE i # n + 1
    <3>1. i \in 1 .. n /\ i \in DOMAIN b
      BY <1>2, <2>2
    <3> QED
      BY <1>2, <1>3, <3>1
  <2> QED
    BY <2>1, <2>2
<1>7. ASSUME NEW word \in W, NEW p \in Positions(word), p \in Positions(j)
      PROVE  word.place = j.place
  <2>1. p \in L /\ p \in Int /\ j.from <= p /\ p <= j.to
    BY <1>1, <1>7 DEF Positions
  <2>2. l.from <= p /\ p <= u.to
    BY <1>1, <2>1
  <2>3. ASSUME NEW i \in 1 .. n, p \in Positions(s[i]) PROVE FALSE
    <3>1. p <= s[i].to /\ s[i].to < l.from /\ s[i].to \in Int
      BY <1>4, <2>3 DEF Positions
    <3> QED
      BY <1>1, <2>1, <2>2, <3>1
  <2>4. ASSUME NEW v \in Q, p \in Positions(v) PROVE FALSE
    <3>1. v.from <= p /\ u.to < v.from /\ v.from \in Int
      BY <1>1, <2>4 DEF Positions, Units
    <3> QED
      BY <1>1, <2>1, <2>2, <3>1
  <2>5. p \in Positions(l) \/ p \in Positions(u)
    <3>1. CASE \E i \in DOMAIN b : p \in Positions(b[i])
      <4>1. PICK i \in DOMAIN b : p \in Positions(b[i])
        BY <3>1
      <4>2. i = n + 1
        BY <1>2, <2>3, <4>1
      <4> QED
        BY <1>2, <4>1, <4>2
    <3>2. CASE \E v \in P : p \in Positions(v)
      BY <2>4, <3>2
    <3> QED
      BY <1>3, <2>1, <3>1, <3>2 DEF Holds
  <2>6. OfPlace(W, l) /\ OfPlace(W, u)
    <3>1. n + 1 \in DOMAIN b
      BY <1>2
    <3> QED
      BY <1>2, <1>3, <3>1
  <2> QED
    BY <2>5, <2>6, <1>7 DEF OfPlace
<1>8. ASSUME NEW i \in DOMAIN t PROVE OfPlace(W, t[i])
  <2>1. CASE i = n + 1
    BY <1>2, <1>7, <2>1 DEF OfPlace
  <2>2. CASE i # n + 1
    <3>1. i \in 1 .. n /\ i \in DOMAIN b
      BY <1>2, <2>2
    <3> QED
      BY <1>2, <1>3, <3>1
  <2> QED
    BY <2>1, <2>2
<1>9. ASSUME NEW p \in L
      PROVE  (\E i \in DOMAIN t : p \in Positions(t[i])) \/ \E v \in Q : p \in Positions(v)
  <2>1. n + 1 \in DOMAIN t
    BY <1>2
  <2>2. CASE \E i \in DOMAIN b : p \in Positions(b[i])
    <3>1. PICK i \in DOMAIN b : p \in Positions(b[i])
      BY <2>2
    <3>2. CASE i = n + 1
      BY <1>2, <2>1, <3>1, <3>2 DEF Keeps
    <3>3. CASE i # n + 1
      <4>1. i \in 1 .. n
        BY <1>2, <3>3
      <4> QED
        BY <1>2, <3>1, <4>1
    <3> QED
      BY <3>2, <3>3
  <2>3. CASE \E v \in P : p \in Positions(v)
    BY <1>2, <2>1, <2>3 DEF Keeps
  <2> QED
    BY <1>3, <2>2, <2>3 DEF Holds
<1> QED
  BY <1>1, <1>2, <1>3, <1>5, <1>6, <1>8, <1>9 DEF Covering, InOrder, Holds, t

(* A strip takes no letter.                                                *)
LEMMA StripKeeps ==
  ASSUME NEW L, NEW u \in Units
  PROVE  /\ Within(Strip(L, u), u) /\ Keeps(L, u, Strip(L, u))
         /\ Strip(L, u).borrowed = u.borrowed
         /\ Strip(L, u).from = IF u.from \in L THEN u.from ELSE u.from + 1
         /\ Strip(L, u).to = IF u.to \in L THEN u.to ELSE u.to - 1
<1> DEFINE from == IF u.from \in L THEN u.from ELSE u.from + 1
           to == IF u.to \in L THEN u.to ELSE u.to - 1
           size == u.size - (from - u.from) - (u.to - to)
<1>1. u.from \in Int /\ u.to \in Int
  BY DEF Units
<1>2. Strip(L, u) = [u EXCEPT !.from = from, !.to = to, !.size = size]
  BY DEF Strip, Units
<1>3. /\ Strip(L, u).from = from /\ Strip(L, u).to = to
      /\ Strip(L, u).place = u.place /\ Strip(L, u).borrowed = u.borrowed
  BY <1>2 DEF Units
<1>4. u.from <= from /\ to <= u.to /\ from \in Int /\ to \in Int
  BY <1>1
<1>5. ASSUME NEW p \in L, p \in Positions(u) PROVE p \in from .. to
  <2>1. p \in Int /\ u.from <= p /\ p <= u.to
    BY <1>1, <1>5 DEF Positions
  <2>2. from <= p
    BY <1>1, <2>1
  <2>3. p <= to
    BY <1>1, <2>1
  <2> QED
    BY <1>4, <2>1, <2>2, <2>3
<1> HIDE DEF size
<1>6. Keeps(L, u, Strip(L, u))
  BY <1>3, <1>5 DEF Keeps, Positions
<1>7. Within(Strip(L, u), u)
  BY <1>3, <1>4 DEF Within
<1> QED
  BY <1>3, <1>6, <1>7

(* Two units merged are where both were.                                   *)
LEMMA JoinKeeps ==
  ASSUME NEW L, NEW l \in Units, NEW u \in Units, Fresh(L, l), Fresh(L, u), l.to < u.from
  PROVE  /\ l.from <= Join(L, l, u).from /\ Join(L, l, u).to <= u.to
         /\ Keeps(L, l, Join(L, l, u)) /\ Keeps(L, u, Join(L, l, u))
         /\ Fresh(L, Join(L, l, u))
<1> DEFINE j == Join(L, l, u)
           from == Strip(L, l).from
           to == Strip(L, u).to
<1>1. /\ l.from \in Int /\ l.to \in Int /\ u.from \in Int /\ u.to \in Int
      /\ l.from <= l.to /\ u.from <= u.to /\ l.to < u.from
      /\ l.from = l.to => l.from \in L
      /\ u.from = u.to => u.from \in L
  BY DEF Units, Fresh
<1>2. j.from = from /\ j.to = to /\ j.borrowed = 0
  BY DEF Join
<1>3. /\ from = IF l.from \in L THEN l.from ELSE l.from + 1
      /\ to = IF u.to \in L THEN u.to ELSE u.to - 1
  BY StripKeeps
<1> HIDE DEF j, from, to
<1>4. /\ from \in Int /\ to \in Int /\ l.from <= from /\ from <= l.to /\ u.from <= to /\ to <= u.to
  BY <1>1, <1>3
<1>5. ASSUME NEW p \in L, p \in Positions(l) PROVE p \in Positions(j)
  <2>1. p \in Int /\ l.from <= p /\ p <= l.to
    BY <1>1, <1>5 DEF Positions
  <2>2. from <= p /\ p <= to
    BY <1>1, <1>3, <1>4, <2>1
  <2> QED
    BY <1>2, <1>4, <2>1, <2>2 DEF Positions
<1>6. ASSUME NEW p \in L, p \in Positions(u) PROVE p \in Positions(j)
  <2>1. p \in Int /\ u.from <= p /\ p <= u.to
    BY <1>1, <1>6 DEF Positions
  <2>2. from <= p /\ p <= to
    BY <1>1, <1>3, <1>4, <2>1
  <2> QED
    BY <1>2, <1>4, <2>1, <2>2 DEF Positions
<1>7. j.from <= j.to /\ j.from # j.to
  BY <1>1, <1>2, <1>4
<1> QED
  BY <1>2, <1>4, <1>5, <1>6, <1>7 DEF Keeps, Fresh, j

-----------------------------------------------------------------------------
(* The units a loop has not read, and what the loop that splits has not.   *)
UnitsFrom(s, n) == {s[k] : k \in n .. Len(s)}
WholesFrom(document, n) == {document[k].whole : k \in n .. Len(document)}

Left == UnitsFrom(units, next)
Unread == Range(todo) \cup WholesFrom(text, next)

Laid(L, W, s) == Covering(L, W, s, {}) /\ AllFresh(L, s)

(* What unit k becomes: its own text, and what it repeats of unit k - 1.   *)
Repeats(L, s, k, u) ==
  /\ Within(u, s[k]) /\ Keeps(L, s[k], u)
  /\ Strip(L, s[k]).size <= Strip(L, u).size - u.borrowed
  /\ u.borrowed > 0 =>
       k > 1 /\ s[k - 1].place = s[k].place /\ u.borrowed <= Strip(L, s[k - 1]).size

SplittingLayout ==
  /\ Covering(Letters, Words, result \o current, Unread)
  /\ AllFresh(Letters, result \o current) /\ AllFresh(Letters, todo)
  /\ InOrder(todo)
  /\ \A u \in Range(todo), k \in next .. Len(text) : u.to < text[k].whole.from
  /\ \A u, v \in Range(todo) \cup Range(current) : u.place = v.place
  /\ \A i \in DOMAIN todo : todo[i].warnings # {} => i = 1 /\ current = <<>>

LoopLayout ==
  /\ Laid(Letters, Words, units)
  /\ Covering(Letters, Words, result \o current, Left)
  /\ AllFresh(Letters, result \o current)

OverlapLayout ==
  /\ Laid(Letters, Words, units)
  /\ next = Len(result) + 1 /\ Len(result) <= Len(units)
  /\ \A k \in DOMAIN result : Repeats(Letters, units, k, result[k])

DoneLayout ==
  /\ InOrder(units) /\ Holds(Letters, units, {})
  /\ \A k \in DOMAIN units :
       /\ OfPlace(Words, units[k])
       /\ units[k].borrowed > 0 =>
            /\ k > 1 /\ units[k - 1].place = units[k].place
            /\ units[k].borrowed <= units[k - 1].size - units[k - 1].borrowed

LayoutInvariant ==
  /\ stage = "split" => SplittingLayout
  /\ stage \in {"pack", "merge"} => LoopLayout
  /\ stage = "overlap" => OverlapLayout
  /\ stage = "done" => DoneLayout

-----------------------------------------------------------------------------
(* The document, as the proofs use it: letters are in the words, words in  *)
(* their paragraph, and a paragraph is in order behind the one before it.  *)
LEMMA DocumentFacts ==
  ASSUME IsLaidOut(text)
  PROVE  /\ text \in Seq(Paragraphs)
         /\ \A word \in Words : Positions(word) \subseteq Letters
         /\ \A p \in Letters : \E k \in 1 .. Len(text) : p \in Positions(text[k].whole)
         /\ \A i, k \in 1 .. Len(text) : i < k => text[i].whole.to < text[k].whole.from
         /\ \A k \in 1 .. Len(text) :
              /\ text[k].whole \in Units /\ OfPlace(Words, text[k].whole)
              /\ IsTextUnit(text, text[k].whole)
              /\ TextUnits(text[k]) \in Seq(Units)
              /\ Divides(text, TextUnits(text[k]), text[k].whole)
<1> DEFINE N == Len(text)
<1>1. /\ text \in Seq(Paragraphs)
      /\ InOrder([i \in DOMAIN text |-> text[i].whole])
      /\ \A paragraph \in Range(text) :
           /\ IsTextUnit(text, paragraph.whole)
           /\ Divides(text, paragraph.sentences, paragraph.whole)
           /\ Divides(text, paragraph.words, paragraph.whole)
  BY DEF IsLaidOut
<1>2. N \in Nat /\ DOMAIN text = 1 .. N /\ Range(text) = {text[k] : k \in 1 .. N}
      /\ \A k \in 1 .. N : text[k] \in Paragraphs
  BY <1>1 DEF Range
<1> HIDE DEF N
<1>3. ASSUME NEW k \in 1 .. N
      PROVE  /\ text[k].whole \in Units /\ IsTextUnit(text, text[k].whole)
             /\ text[k].sentences \in Seq(Units) /\ text[k].words \in Seq(Units)
             /\ Divides(text, text[k].sentences, text[k].whole)
             /\ Divides(text, text[k].words, text[k].whole)
  <2>1. text[k] \in Range(text) /\ text[k] \in Paragraphs
    BY <1>2
  <2> QED
    BY <1>1, <2>1 DEF Paragraphs
<1>4. ASSUME NEW i \in 1 .. N, NEW k \in 1 .. N, i < k
      PROVE  text[i].whole.to < text[k].whole.from
  BY <1>1, <1>2, <1>4 DEF InOrder
<1>5. ASSUME NEW word \in Words
      PROVE  /\ Positions(word) \subseteq Letters
             /\ \E k \in 1 .. N : word \in Range(text[k].words)
  BY <1>2 DEF Words, Letters, LettersOf
<1>6. ASSUME NEW k \in 1 .. N, NEW word \in Range(text[k].words)
      PROVE  /\ word.place = text[k].whole.place
             /\ word.from \in Int /\ word.to \in Int
             /\ text[k].whole.from <= word.from /\ word.to <= text[k].whole.to
             /\ text[k].whole.from \in Int /\ text[k].whole.to \in Int
  <2>1. word \in Units /\ text[k].whole \in Units
    BY <1>3, <1>6 DEF Range
  <2>2. word.place = text[k].whole.place
        /\ text[k].whole.from <= word.from /\ word.to <= text[k].whole.to
    BY <1>3, <1>6 DEF Divides
  <2> QED
    BY <2>1, <2>2 DEF Units
<1>7. ASSUME NEW p \in Letters PROVE \E k \in 1 .. N : p \in Positions(text[k].whole)
  <2>1. PICK k \in 1 .. N : \E word \in Range(text[k].words) : p \in Positions(word)
    BY <1>2, <1>7 DEF Letters, LettersOf
  <2>2. PICK word \in Range(text[k].words) : p \in Positions(word)
    BY <2>1
  <2>3. p \in Int /\ word.from <= p /\ p <= word.to
    BY <1>6, <2>2 DEF Positions
  <2>4. text[k].whole.from <= p /\ p <= text[k].whole.to
    BY <1>6, <2>3
  <2> QED
    BY <1>6, <2>3, <2>4 DEF Positions
<1>8. ASSUME NEW i \in 1 .. N PROVE OfPlace(Words, text[i].whole)
  <2>1. SUFFICES ASSUME NEW word \in Words, NEW p \in Positions(word), p \in Positions(text[i].whole)
                 PROVE  word.place = text[i].whole.place
    BY DEF OfPlace
  <2>2. PICK k \in 1 .. N : word \in Range(text[k].words)
    BY <1>5
  <2> DEFINE a == text[i].whole
             b == text[k].whole
  <2>3. /\ a.from \in Int /\ a.to \in Int
        /\ word.place = b.place /\ word.from \in Int /\ word.to \in Int
        /\ b.from <= word.from /\ word.to <= b.to /\ b.from \in Int /\ b.to \in Int
    BY <1>3, <1>6, <2>2 DEF Units
  <2>4. p \in Int /\ a.from <= p /\ p <= a.to /\ b.from <= p /\ p <= b.to
    <3>1. p \in Int /\ word.from <= p /\ p <= word.to /\ a.from <= p /\ p <= a.to
      BY <2>1, <2>3 DEF Positions
    <3> HIDE DEF a, b
    <3> QED
      BY <2>3, <3>1
  <2>5. ~(i < k)
    <3>1. i < k => a.to < b.from
      BY <1>4
    <3> HIDE DEF a, b
    <3> QED
      BY <2>3, <2>4, <3>1
  <2>6. ~(k < i)
    <3>1. k < i => b.to < a.from
      BY <1>4
    <3> HIDE DEF a, b
    <3> QED
      BY <2>3, <2>4, <3>1
  <2>7. i = k
    BY <1>2, <2>5, <2>6
  <2> QED
    BY <2>3, <2>7
<1>9. ASSUME NEW k \in 1 .. N
      PROVE  TextUnits(text[k]) \in Seq(Units) /\ Divides(text, TextUnits(text[k]), text[k].whole)
  BY <1>3, <1>9 DEF TextUnits
<1> QED
  BY <1>1, <1>3, <1>4, <1>5, <1>7, <1>8, <1>9 DEF N

(* A text unit of the document is fresh.                                   *)
LEMMA TextUnitIsFresh ==
  ASSUME NEW u \in Units, IsTextUnit(text, u)
  PROVE  Fresh(Letters, u) /\ u.warnings = {}
<1>1. u = Unit(u.place, u.from, u.size) /\ u.size > 0 /\ u.from \in Letters
  BY DEF IsTextUnit, Letters
<1>2. u.to = u.from + u.size - 1 /\ u.borrowed = 0 /\ u.warnings = {}
  BY <1>1 DEF Unit
<1>3. u.from \in Int /\ u.size \in Int
  BY DEF Units
<1>4. u.from <= u.to
  BY <1>1, <1>2, <1>3
<1> QED
  BY <1>1, <1>2, <1>4 DEF Fresh

(* The first of the units from a place on, and those behind it.            *)
LEMMA LeftFacts ==
  ASSUME NEW s \in Seq(Units), InOrder(s), NEW n \in 1 .. Len(s)
  PROVE  /\ s[n] \in UnitsFrom(s, n) /\ s[n] \in Units
         /\ UnitsFrom(s, n + 1) \subseteq UnitsFrom(s, n)
         /\ UnitsFrom(s, n) \subseteq UnitsFrom(s, n + 1) \cup {s[n]}
         /\ \A v \in UnitsFrom(s, n + 1) : s[n].to < v.from
<1> DEFINE N == Len(s)
<1>1. N \in Nat /\ n \in 1 .. N /\ DOMAIN s = 1 .. N /\ s[n] \in Units
  OBVIOUS
<1>2. /\ n \in n .. N /\ n + 1 .. N \subseteq n .. N
      /\ \A k \in n .. N : k = n \/ k \in n + 1 .. N
      /\ \A k \in n + 1 .. N : n < k /\ k \in DOMAIN s /\ n \in DOMAIN s
  BY <1>1
<1> HIDE DEF N
<1>3. \A k \in n + 1 .. N : s[n].to < s[k].from
  BY <1>2 DEF InOrder
<1> QED
  BY <1>1, <1>2, <1>3 DEF N, UnitsFrom

(* The first of the units to be packed, and the others.                    *)
LEMMA HeadFacts ==
  ASSUME NEW s \in Seq(Units), s # <<>>, InOrder(s)
  PROVE  /\ Head(s) \in Range(s) /\ Head(s) \in Units /\ Head(s) = s[1] /\ 1 \in DOMAIN s
         /\ Tail(s) \in Seq(Units) /\ InOrder(Tail(s))
         /\ Range(Tail(s)) \subseteq Range(s) /\ Range(s) \subseteq Range(Tail(s)) \cup {Head(s)}
         /\ \A v \in Range(Tail(s)) : Head(s).to < v.from
         /\ \A i \in DOMAIN Tail(s) : i + 1 \in DOMAIN s /\ i + 1 # 1 /\ Tail(s)[i] = s[i + 1]
<1> DEFINE t == Tail(s)
           N == Len(s)
<1>1. N \in Nat \ {0}
  BY EmptySeq
<1>2. /\ Head(s) = s[1] /\ t \in Seq(Units) /\ DOMAIN s = 1 .. N /\ DOMAIN t = 1 .. N - 1
      /\ \A i \in 1 .. N - 1 : t[i] = s[i + 1]
  BY <1>1
<1> HIDE DEF t, N
<1>3. /\ 1 \in DOMAIN s
      /\ \A i \in DOMAIN t : i + 1 \in DOMAIN s /\ i + 1 # 1 /\ 1 < i + 1 /\ t[i] = s[i + 1]
      /\ \A i \in DOMAIN s : i = 1 \/ (i - 1 \in DOMAIN t /\ t[i - 1] = s[i])
  <2>1. 1 \in DOMAIN s
    BY <1>1, <1>2
  <2>2. ASSUME NEW i \in DOMAIN t
        PROVE  i + 1 \in DOMAIN s /\ i + 1 # 1 /\ 1 < i + 1 /\ t[i] = s[i + 1]
    BY <1>1, <1>2
  <2>3. ASSUME NEW i \in DOMAIN s PROVE i = 1 \/ (i - 1 \in DOMAIN t /\ t[i - 1] = s[i])
    BY <1>1, <1>2
  <2> QED
    BY <2>1, <2>2, <2>3
<1>4. s[1] \in Units
  BY <1>3
<1>5. InOrder(t)
  <2>1. SUFFICES ASSUME NEW i \in DOMAIN t, NEW j \in DOMAIN t, i < j PROVE t[i].to < t[j].from
    BY DEF InOrder
  <2>2. i + 1 < j + 1
    BY <1>1, <1>2, <2>1
  <2> QED
    BY <1>3, <2>2 DEF InOrder
<1>6. \A i \in DOMAIN t : s[1].to < t[i].from
  BY <1>3 DEF InOrder
<1>7. Range(t) \subseteq Range(s) /\ Range(s) \subseteq Range(t) \cup {s[1]} /\ s[1] \in Range(s)
  BY <1>3 DEF Range
<1>8. \A v \in Range(t) : s[1].to < v.from
  BY <1>6 DEF Range
<1> QED
  BY <1>2, <1>3, <1>4, <1>5, <1>7, <1>8 DEF t

(* The wholes of the document from a place on, and those behind it.        *)
LEMMA WholesLeft ==
  ASSUME IsLaidOut(text), NEW n \in 1 .. Len(text)
  PROVE  /\ text[n].whole \in WholesFrom(text, n)
         /\ WholesFrom(text, n + 1) \subseteq WholesFrom(text, n)
         /\ WholesFrom(text, n) \subseteq WholesFrom(text, n + 1) \cup {text[n].whole}
         /\ WholesFrom(text, n + 1) \subseteq Units
         /\ \A v \in WholesFrom(text, n + 1) : text[n].whole.to < v.from
<1> DEFINE N == Len(text)
<1>1. N \in Nat /\ n \in 1 .. N
  BY DocumentFacts
<1>2. /\ n \in n .. N /\ n + 1 .. N \subseteq n .. N
      /\ \A k \in n .. N : k = n \/ k \in n + 1 .. N
      /\ \A k \in n + 1 .. N : n < k /\ k \in 1 .. N
  BY <1>1
<1>3. \A k \in n + 1 .. N : text[n].whole.to < text[k].whole.from /\ text[k].whole \in Units
  BY <1>1, <1>2, DocumentFacts
<1> HIDE DEF N
<1> QED
  BY <1>2, <1>3 DEF N, WholesFrom

(* One fresh unit more leaves all units fresh.                             *)
LEMMA FreshMore ==
  ASSUME NEW L, NEW s \in Seq(Units), NEW u \in Units, AllFresh(L, s), Fresh(L, u)
  PROVE  AllFresh(L, Append(s, u))
BY OneMore DEF AllFresh

(* Of fresh units all but the last are fresh, and so is the last.          *)
LEMMA FreshLess ==
  ASSUME NEW L, NEW s \in Seq(Units), NEW u \in Units, AllFresh(L, Append(s, u))
  PROVE  AllFresh(L, s) /\ Fresh(L, u)
<1> DEFINE n == Len(s)
           t == Append(s, u)
<1>1. /\ n \in Nat /\ DOMAIN s = 1 .. n /\ DOMAIN t = 1 .. n + 1 /\ t[n + 1] = u
      /\ \A i \in 1 .. n : t[i] = s[i]
  BY OneMore
<1> HIDE DEF n, t
<1>2. AllFresh(L, t)
  BY DEF t
<1>3. n + 1 \in DOMAIN t /\ \A i \in 1 .. n : i \in DOMAIN t
  BY <1>1
<1> QED
  BY <1>1, <1>2, <1>3 DEF AllFresh

(* What one loop has written, with nothing unread, is laid out for the     *)
(* next one, which has written nothing.                                    *)
LEMMA LoopBegins ==
  ASSUME NEW L, NEW W, NEW s, Covering(L, W, s, {})
  PROVE  Covering(L, W, <<>>, UnitsFrom(s, 1))
<1>1. /\ s \in Seq(Units) /\ DOMAIN s = 1 .. Len(s) /\ \A k \in 1 .. Len(s) : s[k] \in Units
  BY DEF Covering
<1>2. <<>> \in Seq(Units) /\ DOMAIN <<>> = {}
  OBVIOUS
<1>3. Holds(L, <<>>, UnitsFrom(s, 1))
  BY <1>1 DEF Covering, Holds, UnitsFrom
<1> QED
  BY <1>1, <1>2, <1>3 DEF Covering, InOrder, UnitsFrom

-----------------------------------------------------------------------------
(* The layout in the loop that splits.                                     *)

(* A step that stays in the loop need only lay out what it leaves.         *)
LEMMA SplittingLayoutStep ==
  ASSUME stage = "split", UNCHANGED <<text, stage>>,
         NEW w, result' \o current' = w, AllFresh(Letters, w),
         Covering(Letters, Words, w, Unread'),
         AllFresh(Letters, todo'), InOrder(todo'),
         \A u \in Range(todo'), k \in next' .. Len(text) : u.to < text[k].whole.from,
         \A u, v \in Range(todo') \cup Range(current') : u.place = v.place,
         \A i \in DOMAIN todo' : todo'[i].warnings # {} => i = 1 /\ current' = <<>>
  PROVE  LayoutInvariant'
<1>1. Letters' = Letters /\ Words' = Words
  BY DEF Letters, Words
<1>2. SplittingLayout'
  BY <1>1 DEF SplittingLayout
<1> QED
  BY <1>2 DEF LayoutInvariant

(* What the loop that splits knows of the layout.                          *)
LEMMA SplittingLayoutFacts ==
  ASSUME ChunkingInvariant, LayoutInvariant, stage = "split"
  PROVE  /\ SplittingLayout /\ IsLaidOut(text) /\ next \in Nat \ {0} /\ Len(text) \in Nat
         /\ todo \in Seq(Units) /\ result \in Seq(Units)
         /\ current \in Seq(Units) /\ Len(current) <= 1
         /\ result \o current \in Seq(Units)
         /\ current = <<>> => result \o current = result
         /\ current # <<>> =>
              /\ result \o current = Append(result, current[1])
              /\ current[1] \in Units /\ current = <<current[1]>>
<1>1. /\ SplittingLayout /\ IsLaidOut(text) /\ next \in Nat \ {0}
      /\ todo \in Seq(Units) /\ result \in Seq(Units)
      /\ current \in Seq(Units) /\ Len(current) <= 1
  BY SplittingFacts DEF LayoutInvariant
<1>2. Len(text) \in Nat
  BY <1>1, DocumentFacts
<1>3. result \o current \in Seq(Units)
  BY <1>1
<1> QED
  BY <1>1, <1>2, <1>3, WithCurrent

(* A sequence of one unit.                                                 *)
LEMMA OneUnit ==
  ASSUME NEW u \in Units
  PROVE  /\ <<u>> \in Seq(Units) /\ Len(<<u>>) = 1 /\ <<u>>[1] = u /\ DOMAIN <<u>> = {1}
         /\ Range(<<u>>) = {u} /\ <<u>> # <<>>
         /\ \A s \in Seq(Units) : s \o <<u>> = Append(s, u)
<1>1. /\ <<u>> \in Seq(Units) /\ Len(<<u>>) = 1 /\ <<u>>[1] = u /\ DOMAIN <<u>> = {1}
  OBVIOUS
<1>2. Range(<<u>>) = {u} /\ <<u>> # <<>>
  BY <1>1 DEF Range
<1>3. \A s \in Seq(Units) : s \o <<u>> = Append(s, u)
  BY AppendIsConcat
<1> QED
  BY <1>1, <1>2, <1>3

(* There is nothing in no sequence.                                        *)
LEMMA NothingInIt ==
  /\ Range(<<>>) = {} /\ DOMAIN <<>> = {} /\ InOrder(<<>>) /\ \A L : AllFresh(L, <<>>)
BY DEF Range, InOrder, AllFresh

(* A paragraph that is kept is written where it is read.                   *)
LEMMA KeepParagraphLays ==
  ASSUME ChunkingInvariant, LayoutInvariant, KeepParagraph
  PROVE  LayoutInvariant'
<1> DEFINE u == text[next].whole
<1>1. /\ stage = "split" /\ todo = <<>> /\ current = <<>>
      /\ next <= Len(text) /\ result' = Append(result, u) /\ next' = next + 1
      /\ UNCHANGED <<text, stage, todo, current>>
  BY DEF KeepParagraph, Splitting
<1>2. /\ SplittingLayout /\ IsLaidOut(text) /\ next \in 1 .. Len(text)
      /\ result \in Seq(Units) /\ result \o current = result
  BY <1>1, SplittingLayoutFacts
<1>3. u \in Units /\ Fresh(Letters, u)
  BY <1>2, DocumentFacts, TextUnitIsFresh
<1>4. /\ u \in Unread /\ Unread' \subseteq Unread /\ Unread \subseteq Unread' \cup {u}
      /\ \A v \in Unread' : u.to < v.from
  <2>1. Unread = WholesFrom(text, next) /\ Unread' = WholesFrom(text, next + 1)
    BY <1>1, NothingInIt DEF Unread
  <2> QED
    BY <1>2, <2>1, WholesLeft
<1> HIDE DEF u
<1>5. Covering(Letters, Words, Append(result, u), Unread')
  BY <1>2, <1>4, WriteCovers DEF SplittingLayout
<1>6. AllFresh(Letters, Append(result, u))
  BY <1>2, <1>3, FreshMore DEF SplittingLayout
<1>7. result' \o current' = Append(result, u)
  <2>1. Append(result, u) \in Seq(Units)
    BY <1>2, <1>3
  <2> QED
    BY <1>1, <2>1
<1> QED
  BY <1>1, <1>5, <1>6, <1>7, NothingInIt, SplittingLayoutStep

(* The text units of a paragraph are where it was.                         *)
LEMMA SplitParagraphLays ==
  ASSUME ChunkingInvariant, LayoutInvariant, SplitParagraph
  PROVE  LayoutInvariant'
<1> DEFINE u == text[next].whole
           s == TextUnits(text[next])
<1>1. /\ stage = "split" /\ todo = <<>> /\ current = <<>>
      /\ next <= Len(text) /\ todo' = s /\ next' = next + 1
      /\ UNCHANGED <<text, stage, current, result>>
  BY DEF SplitParagraph, Splitting
<1>2. /\ SplittingLayout /\ IsLaidOut(text) /\ next \in 1 .. Len(text) /\ Len(text) \in Nat
      /\ result \o current \in Seq(Units)
  BY <1>1, SplittingLayoutFacts
<1>3. u \in Units /\ s \in Seq(Units) /\ Divides(text, s, u)
  BY <1>2, DocumentFacts
<1> DEFINE P == WholesFrom(text, next)
           Q == WholesFrom(text, next + 1)
<1>4. /\ u \in P /\ Q \subseteq P /\ P \subseteq Q \cup {u}
      /\ Q \subseteq Units /\ \A v \in Q : u.to < v.from
  BY <1>2, WholesLeft
<1>5. Unread = P /\ Unread' = Range(s) \cup Q
  BY <1>1, NothingInIt DEF Unread
<1>6. ASSUME NEW k \in next + 1 .. Len(text) PROVE text[k].whole \in Q
  BY <1>6 DEF WholesFrom
<1> HIDE DEF u, s, P, Q
<1>7. Range(s) \subseteq Units /\ \A i \in DOMAIN s : s[i] \in Range(s)
  BY <1>3 DEF Range
<1>8. ASSUME NEW v \in Range(s)
      PROVE  Within(v, u) /\ v.place = u.place /\ v.to <= u.to /\ Fresh(Letters, v) /\ v.warnings = {}
  <2>1. IsTextUnit(text, v) /\ v.place = u.place /\ u.from <= v.from /\ v.to <= u.to
    BY <1>3 DEF Divides
  <2> QED
    BY <1>7, <2>1, TextUnitIsFresh DEF Within
<1>9. Covering(Letters, Words, result \o current, Unread')
  <2>1. \A v \in Unread' : \E w \in P : Within(v, w)
    <3>1. \A v \in Q : Within(v, v)
      BY <1>4 DEF Within, Units
    <3> QED
      BY <1>4, <1>5, <1>8, <3>1
  <2>2. ASSUME NEW p \in Letters, NEW w \in P, p \in Positions(w)
        PROVE  \E v \in Unread' : p \in Positions(v)
    <3>1. CASE w = u
      BY <1>3, <1>5, <2>2, <3>1 DEF Divides, Letters
    <3>2. CASE w \in Q
      BY <1>5, <2>2, <3>2
    <3> QED
      BY <1>4, <3>1, <3>2
  <2>3. Unread' \in SUBSET Units
    BY <1>4, <1>5, <1>7
  <2>4. Covering(Letters, Words, result \o current, P)
    BY <1>2, <1>5 DEF SplittingLayout
  <2> QED
    BY <2>1, <2>2, <2>3, <2>4, PartsCover
<1>10. AllFresh(Letters, s) /\ InOrder(s)
  BY <1>3, <1>7, <1>8 DEF AllFresh, Divides
<1>11. ASSUME NEW v \in Range(s), NEW k \in next + 1 .. Len(text) PROVE v.to < text[k].whole.from
  <2> DEFINE w == text[k].whole
  <2>1. w \in Q /\ u.to < w.from
    BY <1>4, <1>6
  <2>2. v.to <= u.to /\ v.to \in Int /\ u.to \in Int /\ w.from \in Int
    BY <1>3, <1>4, <1>7, <1>8, <2>1 DEF Units
  <2> HIDE DEF w
  <2>3. v.to < w.from
    BY <2>1, <2>2
  <2> QED
    BY <2>3 DEF w
<1>12. Range(current) = {}
  BY <1>1, NothingInIt
<1>13. \A i \in DOMAIN s : s[i].warnings = {}
  BY <1>7, <1>8
<1>14. \A v, w \in Range(s) \cup Range(current) : v.place = w.place
  BY <1>8, <1>12
<1>15. AllFresh(Letters, result \o current) /\ result' \o current' = result \o current
  BY <1>1, <1>2 DEF SplittingLayout
<1> QED
  BY <1>1, <1>9, <1>10, <1>11, <1>13, <1>14, <1>15, SplittingLayoutStep

(* The first of the text units to be packed, with what is unread behind it.*)
LEMMA FirstUnread ==
  ASSUME ChunkingInvariant, LayoutInvariant, stage = "split", todo # <<>>,
         NEW Q, Q = Range(Tail(todo)) \cup WholesFrom(text, next)
  PROVE  /\ Head(todo) \in Unread /\ Q \subseteq Unread /\ Unread \subseteq Q \cup {Head(todo)}
         /\ Q \subseteq Units /\ \A v \in Q : Head(todo).to < v.from
         /\ Head(todo) \in Units /\ Fresh(Letters, Head(todo))
         /\ Tail(todo) \in Seq(Units) /\ AllFresh(Letters, Tail(todo)) /\ InOrder(Tail(todo))
         /\ \A u \in Range(Tail(todo)), k \in next .. Len(text) : u.to < text[k].whole.from
         /\ \A k \in next .. Len(text) : Head(todo).to < text[k].whole.from
         /\ \A i \in DOMAIN Tail(todo) : Tail(todo)[i].warnings = {}
         /\ \A v \in Range(Tail(todo)) \cup Range(current) : v.place = Head(todo).place
         /\ Head(todo).warnings # {} => current = <<>>
<1> DEFINE u == Head(todo)
           t == Tail(todo)
           P == WholesFrom(text, next)
<1>1. /\ SplittingLayout /\ todo \in Seq(Units)
      /\ Covering(Letters, Words, result \o current, Unread)
      /\ Unread = Range(todo) \cup P /\ InOrder(todo) /\ AllFresh(Letters, todo)
  BY SplittingLayoutFacts DEF SplittingLayout, Unread
<1>2. /\ u \in Range(todo) /\ u \in Units /\ u = todo[1] /\ 1 \in DOMAIN todo
      /\ t \in Seq(Units) /\ InOrder(t)
      /\ Range(t) \subseteq Range(todo) /\ Range(todo) \subseteq Range(t) \cup {u}
      /\ \A v \in Range(t) : u.to < v.from
      /\ \A i \in DOMAIN t : i + 1 \in DOMAIN todo /\ i + 1 # 1 /\ t[i] = todo[i + 1]
  BY <1>1, HeadFacts
<1>3. \A v \in Range(todo), k \in next .. Len(text) : v.to < text[k].whole.from
  BY <1>1 DEF SplittingLayout
<1> HIDE DEF u, t
<1>4. \A v \in P : u.to < v.from
  BY <1>2, <1>3 DEF WholesFrom
<1>5. Unread \subseteq Units
  BY <1>1 DEF Covering
<1>6. AllFresh(Letters, t) /\ Fresh(Letters, u)
  BY <1>1, <1>2 DEF AllFresh
<1>7. \A i \in DOMAIN t : t[i].warnings = {}
  BY <1>1, <1>2 DEF SplittingLayout
<1>8. u.warnings # {} => current = <<>>
  BY <1>1, <1>2 DEF SplittingLayout
<1>9. \A v \in Range(t) \cup Range(current) : v.place = u.place
  BY <1>1, <1>2 DEF SplittingLayout
<1>10. Q = Range(t) \cup P
  BY DEF t
<1>11. \A v \in Q : u.to < v.from
  BY <1>2, <1>4, <1>10
<1>12. u \in Unread /\ Q \subseteq Unread /\ Unread \subseteq Q \cup {u} /\ Q \subseteq Units
  BY <1>1, <1>2, <1>5, <1>10
<1> QED
  BY <1>2, <1>3, <1>6, <1>7, <1>8, <1>9, <1>11, <1>12 DEF u, t

(* A segment and the rest are where the text unit was.                     *)
LEMMA HardSplitLays ==
  ASSUME NEW L, NEW u \in Units, Pending(L, u), Fresh(L, u), u.size > Maximum
  PROVE  /\ Segment(u) \in Units /\ Rest(u) \in Units
         /\ Fresh(L, Segment(u)) /\ Fresh(L, Rest(u))
         /\ Within(Segment(u), u) /\ Within(Rest(u), u) /\ Rest(u).to = u.to
         /\ Segment(u).to < Rest(u).from /\ Segment(u).to <= u.to
         /\ \A p \in Positions(u) : p \in Positions(Segment(u)) \/ p \in Positions(Rest(u))
<1> DEFINE a == Segment(u)
           b == Rest(u)
<1>1. /\ u.from \in Int /\ u.to \in Int /\ u.size \in Int /\ u.borrowed = 0
      /\ u.to = u.from + u.size - 1 /\ u.to \in L
      /\ Maximum \in Nat /\ Maximum > 1
  BY SettingsAreNumbers DEF Pending, Fresh, Units
<1>2. a \in Units /\ b \in Units
  BY HardSplitFacts DEF Good
<1>3. /\ a.place = u.place /\ a.borrowed = u.borrowed /\ a.from = u.from
      /\ a.to = u.from + Maximum - 1
  BY DEF Segment, Units
<1>4. b.place = u.place /\ b.borrowed = u.borrowed /\ b.to = u.to
  BY DEF Rest, Units
<1>5. b.from = u.from + Maximum
  BY DEF Rest, Units
<1> HIDE DEF a, b
<1>6. /\ a.from <= a.to /\ a.from # a.to /\ a.to <= u.to /\ a.to < b.from
      /\ b.from <= b.to /\ u.from <= b.from
  BY <1>1, <1>3, <1>4, <1>5
<1>7. Fresh(L, a) /\ Fresh(L, b)
  BY <1>1, <1>3, <1>4, <1>6 DEF Fresh
<1>8. Within(a, u) /\ Within(b, u)
  BY <1>1, <1>3, <1>4, <1>6 DEF Within
<1>9. ASSUME NEW p \in Positions(u) PROVE p \in Positions(a) \/ p \in Positions(b)
  <2>1. p \in Int /\ u.from <= p /\ p <= u.to
    BY <1>1 DEF Positions
  <2>2. (a.from <= p /\ p <= a.to) \/ (b.from <= p /\ p <= b.to)
    BY <1>1, <1>3, <1>4, <1>5, <2>1
  <2>3. a.from \in Int /\ a.to \in Int /\ b.from \in Int /\ b.to \in Int
    BY <1>1, <1>3, <1>4, <1>5
  <2> QED
    BY <2>1, <2>2, <2>3 DEF Positions
<1> QED
  BY <1>2, <1>4, <1>6, <1>7, <1>8, <1>9 DEF a, b

(* A sequence with a unit in front of it.                                  *)
LEMMA OneInFront ==
  ASSUME NEW s \in Seq(Units), NEW r \in Units
  PROVE  /\ <<r>> \o s \in Seq(Units) /\ DOMAIN (<<r>> \o s) = 1 .. Len(s) + 1
         /\ (<<r>> \o s)[1] = r /\ Len(s) \in Nat /\ DOMAIN s = 1 .. Len(s)
         /\ \A i \in 2 .. Len(s) + 1 : i - 1 \in DOMAIN s /\ (<<r>> \o s)[i] = s[i - 1]
         /\ Range(<<r>> \o s) = {r} \cup Range(s)
<1> DEFINE t == <<r>> \o s
           n == Len(s)
<1>1. /\ t \in Seq(Units) /\ DOMAIN t = 1 .. n + 1 /\ t[1] = r /\ n \in Nat /\ DOMAIN s = 1 .. n
      /\ \A i \in 2 .. n + 1 : i - 1 \in DOMAIN s /\ t[i] = s[i - 1]
      /\ \A i \in 1 .. n : i + 1 \in 2 .. n + 1 /\ t[i + 1] = s[i]
  OBVIOUS
<1> HIDE DEF t, n
<1>2. ASSUME NEW v \in Range(t) PROVE v \in {r} \cup Range(s)
  <2>1. PICK i \in DOMAIN t : v = t[i]
    BY DEF Range
  <2>2. i = 1 \/ i \in 2 .. n + 1
    BY <1>1
  <2> QED
    BY <1>1, <2>1, <2>2 DEF Range
<1>3. ASSUME NEW v \in {r} \cup Range(s) PROVE v \in Range(t)
  <2>1. CASE v = r
    <3>1. 1 \in DOMAIN t
      BY <1>1
    <3> QED
      BY <1>1, <2>1, <3>1 DEF Range
  <2>2. CASE v \in Range(s)
    <3>1. PICK i \in DOMAIN s : v = s[i]
      BY <2>2 DEF Range
    <3>2. i + 1 \in DOMAIN t /\ t[i + 1] = s[i]
      BY <1>1
    <3> QED
      BY <3>1, <3>2 DEF Range
  <2> QED
    BY <2>1, <2>2
<1>4. Range(t) = {r} \cup Range(s)
  BY <1>2, <1>3
<1> QED
  BY <1>1, <1>4 DEF t, n

(* The rest of a hard split is in front of the other text units.           *)
LEMMA RestInFront ==
  ASSUME NEW s \in Seq(Units), NEW r \in Units, InOrder(s), \A v \in Range(s) : r.to < v.from
  PROVE  InOrder(<<r>> \o s)
<1> DEFINE t == <<r>> \o s
           n == Len(s)
<1>1. /\ DOMAIN t = 1 .. n + 1 /\ t[1] = r /\ n \in Nat
      /\ \A i \in 2 .. n + 1 : i - 1 \in DOMAIN s /\ t[i] = s[i - 1]
  BY OneInFront
<1> HIDE DEF t, n
<1>2. SUFFICES ASSUME NEW i \in DOMAIN t, NEW k \in DOMAIN t, i < k PROVE t[i].to < t[k].from
  BY DEF InOrder, t
<1>3. k \in 2 .. n + 1 /\ t[k] = s[k - 1] /\ k - 1 \in DOMAIN s /\ s[k - 1] \in Range(s)
  <2>1. k \in 2 .. n + 1
    BY <1>1, <1>2
  <2> QED
    BY <1>1, <2>1 DEF Range
<1>4. CASE i = 1
  BY <1>1, <1>3, <1>4
<1>5. CASE i # 1
  <2>1. i \in 2 .. n + 1 /\ i - 1 < k - 1
    BY <1>1, <1>2, <1>3, <1>5
  <2> QED
    BY <1>1, <1>3, <2>1 DEF InOrder
<1> QED
  BY <1>4, <1>5

(* A segment is written, and the rest is read next.                        *)
LEMMA SplitHardLays ==
  ASSUME ChunkingInvariant, LayoutInvariant, SplitHard
  PROVE  LayoutInvariant'
<1> DEFINE u == Head(todo)
           t == Tail(todo)
           w == result \o current
           Q == Range(t) \cup WholesFrom(text, next)
           a == Segment(u)
           b == Rest(u)
<1>1. /\ todo # <<>> /\ u.size > Maximum
      /\ result' = Append(w, a) /\ current' = <<>> /\ todo' = <<b>> \o t
      /\ UNCHANGED <<text, stage, units, next>>
  BY DEF SplitHard
<1>2. stage = "split" /\ Pending(Letters, u)
  BY <1>1, PendingMeansSplitting
<1>3. SplittingLayout /\ w \in Seq(Units)
  BY <1>2, SplittingLayoutFacts
<1>4. /\ u \in Unread /\ Q \subseteq Unread /\ Unread \subseteq Q \cup {u}
      /\ Q \subseteq Units /\ \A v \in Q : u.to < v.from
      /\ u \in Units /\ Fresh(Letters, u)
      /\ t \in Seq(Units) /\ AllFresh(Letters, t) /\ InOrder(t)
      /\ \A v \in Range(t), k \in next .. Len(text) : v.to < text[k].whole.from
      /\ \A k \in next .. Len(text) : u.to < text[k].whole.from
      /\ \A i \in DOMAIN t : t[i].warnings = {}
      /\ \A v \in Range(t) \cup Range(current) : v.place = u.place
  <2> HIDE DEF Q, u, t
  <2> QED
    BY <1>1, <1>2, FirstUnread DEF Q, u, t
<1>5. /\ a \in Units /\ b \in Units /\ Fresh(Letters, a) /\ Fresh(Letters, b)
      /\ Within(a, u) /\ Within(b, u) /\ b.to = u.to /\ a.to < b.from /\ a.to <= u.to
      /\ \A p \in Positions(u) : p \in Positions(a) \/ p \in Positions(b)
  BY <1>1, <1>2, <1>4, HardSplitLays
<1>6. /\ todo' \in Seq(Units) /\ DOMAIN todo' = 1 .. Len(t) + 1 /\ todo'[1] = b /\ Len(t) \in Nat
      /\ DOMAIN t = 1 .. Len(t)
      /\ \A i \in 2 .. Len(t) + 1 : i - 1 \in DOMAIN t /\ todo'[i] = t[i - 1]
      /\ Range(todo') = {b} \cup Range(t)
  BY <1>1, <1>4, <1>5, OneInFront
<1>7. Unread' = Q \cup {b}
  <2>1. WholesFrom(text, next)' = WholesFrom(text, next)
    BY <1>1 DEF WholesFrom
  <2> QED
    BY <1>6, <2>1 DEF Unread
<1>8. Range(t) \subseteq Q
  OBVIOUS
<1> HIDE DEF u, t, w, Q, a, b
<1>9. Covering(Letters, Words, w, (Q \cup {b}) \cup {a})
  <2> DEFINE N == (Q \cup {b}) \cup {a}
  <2>1. N \in SUBSET Units
    BY <1>4, <1>5
  <2>2. \A v \in N : \E x \in Unread : Within(v, x)
    <3>1. \A v \in Q : Within(v, v)
      BY <1>4 DEF Within, Units
    <3> QED
      BY <1>4, <1>5, <3>1
  <2>3. \A p \in Letters, x \in Unread : p \in Positions(x) => \E v \in N : p \in Positions(v)
    BY <1>4, <1>5
  <2>4. Covering(Letters, Words, w, Unread)
    BY <1>3 DEF SplittingLayout, w
  <2> HIDE DEF N
  <2> QED
    BY <2>1, <2>2, <2>3, <2>4, PartsCover DEF N
<1>10. Covering(Letters, Words, Append(w, a), Unread')
  <2>1. ASSUME NEW v \in Q PROVE a.to < v.from
    <3>1. u.to < v.from /\ a.to <= u.to /\ v \in Units
      BY <1>4, <1>5
    <3> QED
      BY <1>4, <1>5, <3>1 DEF Units
  <2>2. \A v \in Q \cup {b} : a.to < v.from
    BY <1>5, <2>1
  <2>3. a \in (Q \cup {b}) \cup {a} /\ (Q \cup {b}) \in SUBSET ((Q \cup {b}) \cup {a})
    OBVIOUS
  <2> QED
    BY <1>7, <1>9, <2>2, <2>3, WriteCovers
<1>11. AllFresh(Letters, Append(w, a))
  BY <1>3, <1>5, FreshMore DEF SplittingLayout, w
<1>12. result' \o current' = Append(w, a)
  <2>1. Append(w, a) \in Seq(Units)
    BY <1>3, <1>5
  <2> QED
    BY <1>1, <2>1
<1>13. ASSUME NEW i \in DOMAIN todo'
       PROVE  Fresh(Letters, todo'[i]) /\ (todo'[i].warnings # {} => i = 1)
  <2>1. CASE i = 1
    BY <1>5, <1>6, <2>1
  <2>2. CASE i # 1
    <3>1. i \in 2 .. Len(t) + 1
      BY <1>6, <2>2
    <3> QED
      BY <1>4, <1>6, <3>1 DEF AllFresh
  <2> QED
    BY <2>1, <2>2
<1>14. InOrder(todo')
  <2>1. \A v \in Range(t) : b.to < v.from
    BY <1>4, <1>5, <1>8
  <2> QED
    BY <1>1, <1>4, <1>5, <2>1, RestInFront
<1>15. \A v \in Range(todo'), k \in next' .. Len(text) : v.to < text[k].whole.from
  BY <1>1, <1>4, <1>5, <1>6
<1>16. \A v, x \in Range(todo') \cup Range(current') : v.place = x.place
  <2>1. Range(current') = {}
    BY <1>1, NothingInIt
  <2>2. \A v \in Range(todo') : v.place = u.place
    BY <1>4, <1>5, <1>6 DEF Within
  <2> QED
    BY <2>1, <2>2
<1>17. AllFresh(Letters, todo')
  BY <1>13 DEF AllFresh
<1>18. \A i \in DOMAIN todo' : todo'[i].warnings # {} => i = 1 /\ current' = <<>>
  BY <1>1, <1>13
<1> QED
  BY <1>1, <1>2, <1>10, <1>11, <1>12, <1>14, <1>15, <1>16, <1>17, <1>18, SplittingLayoutStep

(* A step that takes the first text unit leaves the others as they were.   *)
LEMMA FirstIsTaken ==
  ASSUME ChunkingInvariant, LayoutInvariant, stage = "split", todo # <<>>,
         UNCHANGED <<text, stage, next>>, todo' = Tail(todo),
         NEW w, w \in Seq(Units), result' \o current' = w, AllFresh(Letters, w),
         Covering(Letters, Words, w, Range(Tail(todo)) \cup WholesFrom(text, next)),
         \A v \in Range(current') : v.place = Head(todo).place
  PROVE  LayoutInvariant'
<1> DEFINE u == Head(todo)
           t == Tail(todo)
           Q == Range(t) \cup WholesFrom(text, next)
<1>1. /\ AllFresh(Letters, t) /\ InOrder(t)
      /\ \A v \in Range(t), k \in next .. Len(text) : v.to < text[k].whole.from
      /\ \A i \in DOMAIN t : t[i].warnings = {}
      /\ \A v \in Range(t) \cup Range(current) : v.place = u.place
  BY FirstUnread
<1>2. Unread' = Q
  <2>1. WholesFrom(text, next)' = WholesFrom(text, next)
    BY DEF WholesFrom
  <2> QED
    BY <2>1 DEF Unread
<1>3. Covering(Letters, Words, w, Unread')
  BY <1>2
<1>4. \A v, x \in Range(todo') \cup Range(current') : v.place = x.place
  BY <1>1
<1>5. \A v \in Range(todo'), k \in next' .. Len(text) : v.to < text[k].whole.from
  BY <1>1
<1> QED
  BY <1>1, <1>3, <1>4, <1>5, SplittingLayoutStep

(* The last segment is written; nothing is under construction then.        *)
LEMMA EndSplitHardLays ==
  ASSUME ChunkingInvariant, LayoutInvariant, EndSplitHard
  PROVE  LayoutInvariant'
<1> DEFINE u == Head(todo)
           Q == Range(Tail(todo)) \cup WholesFrom(text, next)
           w == Append(result, u)
<1>1. /\ todo # <<>> /\ u.warnings # {} /\ result' = w /\ todo' = Tail(todo)
      /\ UNCHANGED <<text, stage, units, next, current>>
  BY DEF EndSplitHard
<1>2. stage = "split"
  BY <1>1, PendingMeansSplitting
<1>3. /\ u \in Unread /\ Q \subseteq Unread /\ Unread \subseteq Q \cup {u}
      /\ \A v \in Q : u.to < v.from
      /\ u \in Units /\ Fresh(Letters, u) /\ current = <<>>
  <2> HIDE DEF Q
  <2> QED
    BY <1>1, <1>2, FirstUnread DEF Q
<1>4. SplittingLayout /\ result \in Seq(Units) /\ result \o current = result
  BY <1>2, <1>3, SplittingLayoutFacts
<1> HIDE DEF u, Q
<1>5. Covering(Letters, Words, w, Q)
  BY <1>3, <1>4, WriteCovers DEF SplittingLayout
<1>6. w \in Seq(Units) /\ AllFresh(Letters, w)
  BY <1>3, <1>4, FreshMore DEF SplittingLayout
<1>7. result' \o current' = w
  BY <1>1, <1>3, <1>6
<1>8. Range(current') = {}
  BY <1>1, <1>3, NothingInIt
<1> HIDE DEF w
<1> QED
  BY <1>1, <1>2, <1>5, <1>6, <1>7, <1>8, FirstIsTaken DEF Q

(* A text unit joined by a space is where both were.                       *)
LEMMA ExtendedLays ==
  ASSUME NEW L, NEW c \in Units, NEW u \in Units, Fresh(L, c), Fresh(L, u), c.to < u.from,
         NEW j \in Units, j.from = c.from, j.to = u.to, j.borrowed = c.borrowed
  PROVE  Fresh(L, j) /\ Keeps(L, c, j) /\ Keeps(L, u, j)
<1>1. /\ c.from \in Int /\ c.to \in Int /\ u.from \in Int /\ u.to \in Int
      /\ c.from <= c.to /\ u.from <= u.to /\ c.to < u.from /\ c.borrowed = 0
  BY DEF Fresh, Units
<1>2. j.from <= j.to /\ j.from # j.to
  BY <1>1
<1>3. Fresh(L, j)
  BY <1>1, <1>2 DEF Fresh
<1>4. ASSUME NEW p, p \in c.from .. c.to \/ p \in u.from .. u.to PROVE p \in j.from .. j.to
  BY <1>1, <1>4
<1> QED
  BY <1>3, <1>4 DEF Keeps, Positions

(* A text unit is written behind the unit under construction, or joins it. *)
LEMMA PackTextUnitLays ==
  ASSUME ChunkingInvariant, LayoutInvariant, PackTextUnit
  PROVE  LayoutInvariant'
<1> DEFINE u == Head(todo)
           c == current[1]
           Q == Range(Tail(todo)) \cup WholesFrom(text, next)
           full == Extended(u).size > Maximum
           packed == IF full THEN u ELSE Extended(u)
           written == IF full THEN result \o current ELSE result
           w == Append(written, packed)
<1>1. /\ todo # <<>> /\ u.size <= Maximum /\ u.warnings = {}
      /\ todo' = Tail(todo) /\ UNCHANGED <<text, stage, units, next>>
      /\ \/ result' = Append(written, packed) /\ current' = <<>>
         \/ result' = written /\ current' = <<packed>>
  BY DEF PackTextUnit
<1>2. stage = "split" /\ Pending(Letters, u)
  BY <1>1, PendingMeansSplitting
<1>3. /\ u \in Unread /\ Q \subseteq Unread /\ Unread \subseteq Q \cup {u}
      /\ \A v \in Q : u.to < v.from
      /\ u \in Units /\ Fresh(Letters, u)
      /\ \A v \in Range(current) : v.place = u.place
  <2> HIDE DEF Q
  <2> QED
    BY <1>1, <1>2, FirstUnread DEF Q
<1>4. /\ SplittingLayout /\ result \in Seq(Units) /\ result \o current \in Seq(Units)
      /\ current = <<>> => result \o current = result
      /\ current # <<>> => /\ result \o current = Append(result, c)
                           /\ c \in Units /\ current = <<c>>
  BY <1>2, SplittingLayoutFacts
<1>5. Extended(u) \in Units /\ (current = <<>> => Extended(u) = u)
  BY <1>1, <1>2, <1>3, ExtendedFacts
<1>6. current # <<>> =>
        /\ Extended(u).place = c.place /\ Extended(u).from = c.from /\ Extended(u).to = u.to
        /\ Extended(u).borrowed = c.borrowed
  BY <1>4 DEF Extended, Units
<1>7. /\ Covering(Letters, Words, result \o current, Unread)
      /\ AllFresh(Letters, result \o current)
  BY <1>4 DEF SplittingLayout
<1> HIDE DEF u, Q, c, full
<1>8. Q \in SUBSET Unread
  BY <1>3
<1>9. /\ packed \in Units /\ packed.place = u.place /\ written \in Seq(Units)
      /\ Covering(Letters, Words, w, Q) /\ AllFresh(Letters, w)
  <2>1. CASE current = <<>>
    <3>1. packed = u /\ written = result
      BY <1>4, <1>5, <2>1
    <3> HIDE DEF packed, written
    <3>2. Covering(Letters, Words, Append(result, u), Q)
      BY <1>3, <1>4, <1>7, <1>8, <2>1, WriteCovers
    <3>3. AllFresh(Letters, Append(result, u))
      BY <1>3, <1>4, <1>7, <2>1, FreshMore
    <3> QED
      BY <1>3, <1>4, <3>1, <3>2, <3>3
  <2>2. CASE current # <<>> /\ full
    <3>1. packed = u /\ written = result \o current
      BY <2>2
    <3> HIDE DEF packed, written
    <3>2. Covering(Letters, Words, Append(result \o current, u), Q)
      BY <1>3, <1>7, <1>8, WriteCovers
    <3>3. AllFresh(Letters, Append(result \o current, u))
      BY <1>3, <1>4, <1>7, FreshMore
    <3> QED
      BY <1>3, <1>4, <3>1, <3>2, <3>3
  <2>3. CASE current # <<>> /\ ~full
    <3> DEFINE j == Extended(u)
    <3>1. packed = j /\ written = result
      BY <2>3
    <3> HIDE DEF packed, written
    <3>2. /\ c \in Units /\ result \o current = Append(result, c)
          /\ j \in Units /\ j.place = c.place /\ j.from = c.from /\ j.to = u.to
          /\ j.borrowed = c.borrowed
      BY <1>4, <1>5, <1>6, <2>3
    <3>3. c.place = u.place
      <4>1. c \in Range(current)
        BY <1>4, <2>3, <3>2, OneUnit
      <4> QED
        BY <1>3, <4>1
    <3>4. AllFresh(Letters, result) /\ Fresh(Letters, c)
      BY <1>4, <1>7, <3>2, FreshLess
    <3> HIDE DEF j
    <3>5. c.to < u.from
      <4>1. /\ Len(result) + 1 \in DOMAIN Append(result, c)
            /\ Append(result, c)[Len(result) + 1] = c
        BY <1>4, <3>2, OneMore
      <4> QED
        BY <1>3, <1>7, <3>2, <4>1 DEF Covering
    <3>6. Fresh(Letters, j) /\ Keeps(Letters, c, j) /\ Keeps(Letters, u, j)
      BY <1>3, <3>2, <3>4, <3>5, ExtendedLays
    <3>7. c.from <= j.from /\ j.to <= u.to
      BY <1>3, <3>2 DEF Units
    <3>8. \A word \in Words : Positions(word) \subseteq Letters
      BY <1>2, SplittingLayoutFacts, DocumentFacts
    <3>9. Covering(Letters, Words, Append(result, j), Q)
      BY <1>3, <1>4, <1>7, <1>8, <3>2, <3>3, <3>6, <3>7, <3>8, JoinCovers
    <3>10. AllFresh(Letters, Append(result, j))
      BY <1>4, <3>2, <3>4, <3>6, FreshMore
    <3> QED
      BY <1>4, <3>1, <3>2, <3>3, <3>9, <3>10
  <2> QED
    BY <2>1, <2>2, <2>3
<1> HIDE DEF packed, written
<1>10. /\ w \in Seq(Units) /\ <<packed>> \in Seq(Units) /\ Range(<<packed>>) = {packed}
       /\ written \o <<packed>> = w /\ w \o <<>> = w
  BY <1>9, OneUnit
<1> HIDE DEF w
<1>11. result' \o current' = w /\ \A v \in Range(current') : v.place = u.place
  <2>1. Append(written, packed) = w
    BY DEF w
  <2> QED
    BY <1>1, <1>9, <1>10, <2>1, NothingInIt
<1> QED
  BY <1>1, <1>2, <1>9, <1>10, <1>11, FirstIsTaken DEF u, Q

(* What is under construction is written as it is.                         *)
LEMMA EndParagraphLays ==
  ASSUME ChunkingInvariant, LayoutInvariant, EndParagraph
  PROVE  LayoutInvariant'
<1> DEFINE w == result \o current
<1>1. /\ stage = "split" /\ todo = <<>> /\ result' = w /\ current' = <<>>
      /\ UNCHANGED <<text, stage, units, next, todo>>
  BY DEF EndParagraph
<1>2. SplittingLayout /\ w \in Seq(Units)
  BY <1>1, SplittingLayoutFacts
<1>3. Unread' = Unread
  BY <1>1 DEF Unread, WholesFrom
<1>4. result' \o current' = w
  BY <1>1, <1>2
<1>5. Covering(Letters, Words, w, Unread') /\ AllFresh(Letters, w)
  BY <1>2, <1>3 DEF SplittingLayout
<1> HIDE DEF w
<1>6. Range(todo') = {} /\ Range(current') = {} /\ DOMAIN todo' = {} /\ InOrder(todo')
      /\ AllFresh(Letters, todo')
  BY <1>1, NothingInIt
<1>7. \A u, v \in Range(todo') \cup Range(current') : u.place = v.place
  BY <1>6
<1>8. \A i \in DOMAIN todo' : todo'[i].warnings # {} => i = 1 /\ current' = <<>>
  BY <1>6
<1>9. \A u \in Range(todo'), k \in next' .. Len(text) : u.to < text[k].whole.from
  BY <1>6
<1> QED
  BY <1>1, <1>4, <1>5, <1>6, <1>7, <1>8, <1>9, SplittingLayoutStep

-----------------------------------------------------------------------------
(* The layout in the loops that pack and merge.                            *)

(* A loop begins with what the one before it has written, once nothing is  *)
(* unread.                                                                 *)
LEMMA LoopLayoutBegins ==
  ASSUME UNCHANGED text, stage' \in {"pack", "merge"}, next' = 1,
         current' = <<>>, result' = <<>>, Laid(Letters, Words, units')
  PROVE  LayoutInvariant'
<1>1. Letters' = Letters /\ Words' = Words /\ Left' = UnitsFrom(units', 1)
  BY DEF Letters, Words, Left
<1>2. result' \o current' = <<>>
  OBVIOUS
<1>3. Covering(Letters, Words, <<>>, UnitsFrom(units', 1))
  BY LoopBegins DEF Laid
<1>4. LoopLayout'
  BY <1>1, <1>2, <1>3, NothingInIt DEF LoopLayout, Laid
<1> QED
  BY <1>4 DEF LayoutInvariant

(* The loop that packs reads what was split.                               *)
LEMMA EndSplittingLays ==
  ASSUME ChunkingInvariant, LayoutInvariant, EndSplitting
  PROVE  LayoutInvariant'
<1>1. /\ stage = "split" /\ todo = <<>> /\ current = <<>> /\ next > Len(text)
      /\ stage' = "pack" /\ units' = result /\ next' = 1
      /\ current' = <<>> /\ result' = <<>> /\ UNCHANGED <<text, todo>>
  BY DEF EndSplitting, Splitting, Advance
<1>2. SplittingLayout /\ result \o current = result
      /\ next \in Nat /\ Len(text) \in Nat
  BY <1>1, SplittingLayoutFacts
<1>3. Unread = {}
  <2>1. next .. Len(text) = {}
    BY <1>1, <1>2
  <2> QED
    BY <1>1, <2>1, NothingInIt DEF Unread, WholesFrom
<1>4. Laid(Letters, Words, units')
  BY <1>1, <1>2, <1>3 DEF SplittingLayout, Laid
<1> QED
  BY <1>1, <1>4, LoopLayoutBegins

(* The unit a loop reads, with what is unread behind it.                   *)
LEMMA LoopFacts ==
  ASSUME ChunkingInvariant, LayoutInvariant, stage \in {"pack", "merge"}
  PROVE  /\ LoopLayout /\ IsLaidOut(text)
         /\ units \in Seq(Units) /\ result \in Seq(Units) /\ current \in Seq(Units)
         /\ Len(current) <= 1 /\ result \o current \in Seq(Units)
         /\ next \in Nat \ {0} /\ Len(units) \in Nat
         /\ InOrder(units)
         /\ \A i \in 1 .. Len(units) : units[i] \in Units /\ Fresh(Letters, units[i])
         /\ \A word \in Words : Positions(word) \subseteq Letters
<1>1. /\ LoopLayout /\ IsLaidOut(text)
      /\ units \in Seq(Units) /\ result \in Seq(Units) /\ current \in Seq(Units)
      /\ Len(current) <= 1 /\ next \in Nat \ {0}
  BY DEF LayoutInvariant, ChunkingInvariant, TypeOK
<1>2. /\ Len(units) \in Nat /\ result \o current \in Seq(Units)
      /\ DOMAIN units = 1 .. Len(units) /\ \A i \in 1 .. Len(units) : units[i] \in Units
  BY <1>1
<1>3. InOrder(units) /\ AllFresh(Letters, units)
  BY <1>1 DEF LoopLayout, Laid, Covering
<1> QED
  BY <1>1, <1>2, <1>3, DocumentFacts DEF AllFresh

(* A step that stays in the loop need only lay out what it leaves.         *)
LEMMA LoopStep ==
  ASSUME stage \in {"pack", "merge"}, LayoutInvariant, UNCHANGED <<text, stage, units>>,
         NEW w, result' \o current' = w, AllFresh(Letters, w),
         Covering(Letters, Words, w, UnitsFrom(units, next'))
  PROVE  LayoutInvariant'
<1>1. Letters' = Letters /\ Words' = Words /\ Left' = UnitsFrom(units, next')
  BY DEF Letters, Words, Left, UnitsFrom
<1>2. LoopLayout'
  BY <1>1 DEF LoopLayout, LayoutInvariant
<1> QED
  BY <1>2 DEF LayoutInvariant

(* The next unit is written behind the others.                             *)
LEMMA NextIsWritten ==
  ASSUME NEW L, NEW W, NEW s \in Seq(Units), InOrder(s), NEW n \in 1 .. Len(s), AllFresh(L, s),
         NEW w \in Seq(Units), AllFresh(L, w), Covering(L, W, w, UnitsFrom(s, n))
  PROVE  /\ Covering(L, W, Append(w, s[n]), UnitsFrom(s, n + 1))
         /\ AllFresh(L, Append(w, s[n]))
         /\ Append(w, s[n]) \in Seq(Units)
<1>1. /\ s[n] \in UnitsFrom(s, n) /\ s[n] \in Units
      /\ UnitsFrom(s, n + 1) \subseteq UnitsFrom(s, n)
      /\ UnitsFrom(s, n) \subseteq UnitsFrom(s, n + 1) \cup {s[n]}
      /\ \A v \in UnitsFrom(s, n + 1) : s[n].to < v.from
  BY LeftFacts
<1>2. n \in DOMAIN s
  OBVIOUS
<1>3. Fresh(L, s[n])
  BY <1>2 DEF AllFresh
<1>4. Covering(L, W, Append(w, s[n]), UnitsFrom(s, n + 1))
  BY <1>1, WriteCovers
<1> QED
  BY <1>1, <1>3, <1>4, FreshMore

(* The next unit is merged into the one written last.                      *)
LEMMA NextIsMerged ==
  ASSUME NEW L, NEW W, \A word \in W : Positions(word) \subseteq L,
         NEW s \in Seq(Units), InOrder(s), NEW n \in 1 .. Len(s), AllFresh(L, s),
         NEW w \in Seq(Units), NEW l \in Units, AllFresh(L, Append(w, l)),
         Covering(L, W, Append(w, l), UnitsFrom(s, n)),
         l.place = s[n].place, Join(L, l, s[n]) \in Units
  PROVE  /\ Covering(L, W, Append(w, Join(L, l, s[n])), UnitsFrom(s, n + 1))
         /\ AllFresh(L, Append(w, Join(L, l, s[n])))
<1> DEFINE u == s[n]
           j == Join(L, l, u)
           P == UnitsFrom(s, n)
           Q == UnitsFrom(s, n + 1)
<1>1. /\ u \in P /\ u \in Units /\ Q \in SUBSET P /\ P \subseteq Q \cup {u}
      /\ \A v \in Q : u.to < v.from
  BY LeftFacts
<1>2. n \in DOMAIN s
  OBVIOUS
<1>3. Fresh(L, u) /\ Fresh(L, l) /\ AllFresh(L, w)
  BY <1>2, FreshLess DEF AllFresh
<1>4. l.to < u.from
  <2>1. Len(w) + 1 \in DOMAIN Append(w, l) /\ Append(w, l)[Len(w) + 1] = l
    BY OneMore
  <2> QED
    BY <1>1, <2>1 DEF Covering
<1>5. j.place = l.place
  BY DEF Join
<1>6. /\ l.from <= j.from /\ j.to <= u.to
      /\ Keeps(L, l, j) /\ Keeps(L, u, j) /\ Fresh(L, j)
  <2> HIDE DEF u
  <2> QED
    BY <1>1, <1>3, <1>4, JoinKeeps
<1>7. j \in Units /\ l.place = u.place /\ Covering(L, W, Append(w, l), P)
  OBVIOUS
<1> HIDE DEF u, j, P, Q
<1>8. Covering(L, W, Append(w, j), Q)
  BY <1>1, <1>5, <1>6, <1>7, JoinCovers
<1>9. AllFresh(L, Append(w, j))
  BY <1>3, <1>6, <1>7, FreshMore
<1> QED
  BY <1>8, <1>9 DEF j, u, Q

(* A unit is merged into the one under construction, or begins one.        *)
LEMMA PackLays ==
  ASSUME ChunkingInvariant, LayoutInvariant, Pack
  PROVE  LayoutInvariant'
<1> DEFINE u == units[next]
           c == current[1]
           w == result \o current
<1>1. /\ stage = "pack" /\ next <= Len(units) /\ next' = next + 1
      /\ UNCHANGED <<text, stage, units, todo>>
      /\ \/ current = <<>> /\ current' = <<u>> /\ result' = result
         \/ /\ current # <<>> /\ ShouldMerge(c, u)
            /\ current' = <<Merged(c, u)>> /\ result' = result
         \/ /\ current # <<>> /\ ~ShouldMerge(c, u)
            /\ current' = <<u>> /\ result' = result \o current
  BY DEF Pack
<1>2. /\ LoopLayout /\ units \in Seq(Units) /\ InOrder(units) /\ AllFresh(Letters, units)
      /\ next \in 1 .. Len(units) /\ u \in Units
      /\ result \in Seq(Units) /\ w \in Seq(Units)
      /\ \A word \in Words : Positions(word) \subseteq Letters
      /\ AllFresh(Letters, w) /\ Covering(Letters, Words, w, UnitsFrom(units, next))
  <2>1. LoopLayout /\ next \in 1 .. Len(units)
    BY <1>1, LoopFacts
  <2> QED
    BY <1>1, <2>1, LoopFacts DEF LoopLayout, Laid, Left
<1>3. /\ current = <<>> => w = result
      /\ current # <<>> => w = Append(result, c) /\ c \in Units /\ Good(Letters, c)
  <2>1. current \in Seq(Units) /\ Len(current) <= 1 /\ AllGood(Letters, current)
    BY <1>1, PackingFacts
  <2>2. current # <<>> => w = Append(result, c) /\ c \in Units /\ current = <<c>>
    BY <1>2, <2>1, WithCurrent
  <2>3. current # <<>> => 1 \in DOMAIN current
    BY <2>2
  <2> QED
    BY <1>2, <2>1, <2>2, <2>3, WithCurrent DEF AllGood
<1>4. Good(Letters, u)
  <2>1. next \in DOMAIN units
    BY <1>2
  <2> QED
    BY <1>1, <2>1, PackingFacts DEF AllGood
<1>5. /\ Covering(Letters, Words, Append(w, u), UnitsFrom(units, next + 1))
      /\ AllFresh(Letters, Append(w, u))
  <2> HIDE DEF w
  <2> QED
    BY <1>2, NextIsWritten
<1>6. CASE current = <<>> /\ current' = <<u>> /\ result' = result
  <2>1. result' \o current' = Append(w, u)
    BY <1>2, <1>3, <1>6, OneUnit
  <2> HIDE DEF w, u
  <2> QED
    BY <1>1, <1>5, <2>1, LoopStep
<1>7. CASE /\ current # <<>> /\ ~ShouldMerge(c, u)
           /\ current' = <<u>> /\ result' = result \o current
  <2>1. result' \o current' = Append(w, u)
    BY <1>2, <1>7, OneUnit
  <2> HIDE DEF w, u
  <2> QED
    BY <1>1, <1>5, <2>1, LoopStep
<1>8. CASE /\ current # <<>> /\ ShouldMerge(c, u)
           /\ current' = <<Merged(c, u)>> /\ result' = result
  <2> DEFINE j == Join(Letters, c, u)
  <2>1. Merged(c, u) = j /\ c.place = u.place
    BY <1>8, SameOperations DEF ShouldMerge, CanMerge, Compatible
  <2>2. c \in Units /\ Good(Letters, c) /\ w = Append(result, c) /\ j \in Units
    BY <1>3, <1>4, <1>8, JoinType
  <2> HIDE DEF c, w
  <2>3. /\ Covering(Letters, Words, Append(result, j), UnitsFrom(units, next + 1))
        /\ AllFresh(Letters, Append(result, j))
    BY <1>2, <2>1, <2>2, NextIsMerged
  <2> HIDE DEF j, u
  <2>4. result' \o current' = Append(result, j)
    BY <1>2, <1>8, <2>1, <2>2, OneUnit
  <2> QED
    BY <1>1, <2>3, <2>4, LoopStep
<1> QED
  BY <1>1, <1>6, <1>7, <1>8

(* A loop at its end has written all that it read.                         *)
LEMMA LoopEnds ==
  ASSUME ChunkingInvariant, LayoutInvariant, stage \in {"pack", "merge"}, next > Len(units)
  PROVE  Laid(Letters, Words, result \o current)
<1>1. LoopLayout /\ next \in Nat /\ Len(units) \in Nat
  BY LoopFacts
<1>2. Left = {}
  <2>1. next .. Len(units) = {}
    BY <1>1
  <2> QED
    BY <2>1 DEF Left, UnitsFrom
<1> QED
  BY <1>1, <1>2 DEF LoopLayout, Laid

(* The loop that merges reads what was packed.                             *)
LEMMA EndPackingLays ==
  ASSUME ChunkingInvariant, LayoutInvariant, EndPacking
  PROVE  LayoutInvariant'
<1>1. /\ stage = "pack" /\ next > Len(units)
      /\ stage' = "merge" /\ units' = result \o current /\ next' = 1
      /\ current' = <<>> /\ result' = <<>> /\ UNCHANGED <<text, todo>>
  BY DEF EndPacking, Advance
<1>2. Laid(Letters, Words, units')
  BY <1>1, LoopEnds
<1> QED
  BY <1>1, <1>2, LoopLayoutBegins

(* What the loop that merges knows of the layout.                          *)
LEMMA MergingLayoutFacts ==
  ASSUME ChunkingInvariant, LayoutInvariant, Merging
  PROVE  /\ stage = "merge" /\ current = <<>> /\ result \in Seq(Units)
         /\ units \in Seq(Units) /\ InOrder(units) /\ AllFresh(Letters, units)
         /\ next \in 1 .. Len(units) /\ units[next] \in Units
         /\ Len(units) \in Nat
         /\ \A word \in Words : Positions(word) \subseteq Letters
         /\ AllFresh(Letters, result) /\ Covering(Letters, Words, result, UnitsFrom(units, next))
<1>1. /\ stage = "merge" /\ next \in 1 .. Len(units) /\ Len(units) \in Nat
      /\ units[next] \in Units
  BY UnitRead
<1>2. current = <<>> /\ result \in Seq(Units) /\ units \in Seq(Units)
  BY <1>1, MergingFacts
<1>3. result \o current = result
  BY <1>2
<1>4. LoopLayout /\ InOrder(units) /\ \A word \in Words : Positions(word) \subseteq Letters
  BY <1>1, LoopFacts
<1> QED
  BY <1>1, <1>2, <1>3, <1>4 DEF LoopLayout, Laid, Left

(* A unit that is not short is written where it is read.                   *)
LEMMA KeepLongLays ==
  ASSUME ChunkingInvariant, LayoutInvariant, KeepLong
  PROVE  LayoutInvariant'
<1> DEFINE w == Append(result, units[next])
<1>1. /\ Merging /\ result' = w /\ next' = next + 1
      /\ UNCHANGED <<text, stage, units, todo, current>>
  BY DEF KeepLong
<1>2. /\ Covering(Letters, Words, w, UnitsFrom(units, next + 1))
      /\ AllFresh(Letters, w) /\ w \in Seq(Units)
  BY <1>1, MergingLayoutFacts, NextIsWritten
<1> HIDE DEF w
<1>3. result' \o current' = w
  BY <1>1, <1>2, MergingLayoutFacts
<1> QED
  BY <1>1, <1>2, <1>3, MergingLayoutFacts, LoopStep

(* All units but the last, and the last.                                   *)
LEMMA FrontAndLast ==
  ASSUME NEW s \in Seq(Units), s # <<>>
  PROVE  /\ Front(s) \in Seq(Units) /\ Last(s) \in Units /\ s = Append(Front(s), Last(s))
<1> DEFINE n == Len(s)
           f == Front(s)
           t == Append(f, Last(s))
<1>1. n \in Nat \ {0} /\ DOMAIN s = 1 .. n
  BY EmptySeq
<1>2. f = SubSeq(s, 1, n - 1) /\ Last(s) = s[n]
  BY DEF Front, Last
<1>3. /\ f \in Seq(Units) /\ Len(f) = n - 1
      /\ \A i \in 1 .. n - 1 : f[i] = s[i]
      /\ Last(s) \in Units
  BY <1>1, <1>2
<1> HIDE DEF f, n
<1>4. /\ t \in Seq(Units) /\ Len(t) = n /\ t[n] = s[n]
      /\ \A i \in 1 .. n - 1 : t[i] = s[i]
  <2>1. /\ t \in Seq(Units) /\ Len(t) = Len(f) + 1 /\ t[Len(f) + 1] = Last(s)
        /\ \A i \in 1 .. Len(f) : t[i] = f[i]
    BY <1>3, OneMore
  <2> QED
    BY <1>1, <1>2, <1>3, <2>1
<1> HIDE DEF t
<1>5. ASSUME NEW i \in 1 .. n PROVE t[i] = s[i]
  <2>1. i = n \/ i \in 1 .. n - 1
    BY <1>1
  <2> QED
    BY <1>4, <2>1
<1>6. s = t
  BY <1>1, <1>4, <1>5, SeqEqual DEF n
<1> QED
  BY <1>3, <1>6 DEF t, f

(* A short unit joins the one written last.                                *)
LEMMA MergeWithPreviousLays ==
  ASSUME ChunkingInvariant, LayoutInvariant, MergeWithPrevious
  PROVE  LayoutInvariant'
<1> DEFINE u == units[next]
           f == Front(result)
           l == Last(result)
           j == Join(Letters, l, u)
           w == Append(f, j)
<1>1. /\ Merging /\ result # <<>> /\ CanMerge(l, u)
      /\ result' = Append(f, Merged(l, u)) /\ next' = next + 1
      /\ UNCHANGED <<text, stage, units, todo, current>>
  BY DEF MergeWithPrevious, WithPrevious
<1>2. Merged(l, u) = j /\ l.place = u.place
  BY <1>1, SameOperations DEF CanMerge, Compatible
<1>3. f \in Seq(Units) /\ l \in Units /\ result = Append(f, l)
  BY <1>1, MergingLayoutFacts, FrontAndLast
<1>4. Good(Letters, l) /\ Good(Letters, u)
  BY <1>1, UnitRead, MergingFacts, EndIsGood
<1>5. j \in Units
  BY <1>4, JoinType
<1> HIDE DEF f, l
<1>6. /\ AllFresh(Letters, Append(f, l))
      /\ Covering(Letters, Words, Append(f, l), UnitsFrom(units, next))
  BY <1>1, <1>3, MergingLayoutFacts
<1>7. Covering(Letters, Words, w, UnitsFrom(units, next + 1)) /\ AllFresh(Letters, w)
  BY <1>1, <1>2, <1>3, <1>5, <1>6, MergingLayoutFacts, NextIsMerged
<1>8. w \in Seq(Units) /\ result' = w
  BY <1>1, <1>2, <1>3, <1>5
<1> HIDE DEF w, u, j
<1>9. result' \o current' = w
  BY <1>1, <1>8, MergingLayoutFacts
<1> QED
  BY <1>1, <1>7, <1>9, MergingLayoutFacts, LoopStep

(* A short unit is written with the one after it.                          *)
LEMMA MergeWithNextLays ==
  ASSUME ChunkingInvariant, LayoutInvariant, MergeWithNext
  PROVE  LayoutInvariant'
<1> DEFINE u == units[next]
           r == units[next + 1]
           j == Join(Letters, u, r)
           w == Append(result, j)
<1>1. /\ Merging /\ next + 1 <= Len(units) /\ CanMerge(u, r)
      /\ result' = Append(result, Merged(u, r)) /\ next' = next + 2
      /\ UNCHANGED <<text, stage, units, todo, current>>
  BY DEF MergeWithNext, WithNext
<1>2. Merged(u, r) = j /\ u.place = r.place
  BY <1>1, SameOperations DEF CanMerge, Compatible
<1>3. Good(Letters, u) /\ Good(Letters, r) /\ u \in Units
  BY <1>1, UnitRead
<1>4. j \in Units
  BY <1>3, JoinType
<1>5. next + 1 \in 1 .. Len(units) /\ (next + 1) + 1 = next + 2
  BY <1>1, MergingLayoutFacts
<1>6. /\ Covering(Letters, Words, Append(result, u), UnitsFrom(units, next + 1))
      /\ AllFresh(Letters, Append(result, u))
  BY <1>1, MergingLayoutFacts, NextIsWritten
<1> HIDE DEF u
<1>7. /\ Covering(Letters, Words, w, UnitsFrom(units, (next + 1) + 1))
      /\ AllFresh(Letters, w)
  BY <1>1, <1>2, <1>3, <1>4, <1>5, <1>6, MergingLayoutFacts, NextIsMerged
<1>8. w \in Seq(Units) /\ result' = w
  BY <1>1, <1>2, <1>4, MergingLayoutFacts
<1> HIDE DEF w, r, j
<1>9. result' \o current' = w
  BY <1>1, <1>8, MergingLayoutFacts
<1> QED
  BY <1>1, <1>5, <1>7, <1>9, MergingLayoutFacts, LoopStep

(* A unit with a warning more is where it was.                             *)
LEMMA KeepShortLays ==
  ASSUME ChunkingInvariant, LayoutInvariant, KeepShort
  PROVE  LayoutInvariant'
<1> DEFINE u == units[next]
           v == [u EXCEPT !.warnings = @ \cup {"undersized"}]
           P == UnitsFrom(units, next)
           Q == UnitsFrom(units, next + 1)
           w == Append(result, v)
<1>1. /\ Merging /\ result' = w /\ next' = next + 1
      /\ UNCHANGED <<text, stage, units, todo, current>>
  BY DEF KeepShort
<1>2. /\ u \in Units /\ v \in Units /\ v.from = u.from /\ v.to = u.to
      /\ v.place = u.place /\ v.borrowed = u.borrowed
  <2>1. u \in Units
    BY <1>1, UnitRead
  <2> QED
    BY <2>1 DEF Units, Warnings
<1>3. /\ u \in P /\ Q \subseteq P /\ P \subseteq Q \cup {u} /\ \A x \in Q : u.to < x.from
  BY <1>1, MergingLayoutFacts, LeftFacts
<1>4. Fresh(Letters, u)
  <2>1. next \in DOMAIN units
    BY <1>1, MergingLayoutFacts
  <2> QED
    BY <1>1, <2>1, MergingLayoutFacts DEF AllFresh
<1>5. Covering(Letters, Words, result, P) /\ P \subseteq Units
  <2>1. Covering(Letters, Words, result, P)
    BY <1>1, MergingLayoutFacts
  <2> QED
    BY <2>1 DEF Covering
<1> HIDE DEF u, v, P, Q, w
<1>6. Fresh(Letters, v) /\ Within(v, u) /\ Positions(v) = Positions(u)
  BY <1>2, <1>4 DEF Fresh, Within, Positions, Units
<1>7. Covering(Letters, Words, result, Q \cup {v})
  <2>1. Q \cup {v} \in SUBSET Units
    BY <1>2, <1>3, <1>5
  <2>2. \A x \in Q \cup {v} : \E y \in P : Within(x, y)
    <3>1. \A x \in Q : Within(x, x)
      BY <2>1 DEF Within, Units
    <3> QED
      BY <1>3, <1>6, <3>1
  <2>3. \A p \in Letters, y \in P : p \in Positions(y) => \E x \in Q \cup {v} : p \in Positions(x)
    BY <1>3, <1>6
  <2> QED
    BY <1>5, <2>1, <2>2, <2>3, PartsCover
<1>8. Covering(Letters, Words, w, Q)
  <2>1. \A x \in Q : v.to < x.from
    BY <1>2, <1>3
  <2>2. v \in Q \cup {v} /\ Q \in SUBSET (Q \cup {v})
    OBVIOUS
  <2> QED
    BY <1>7, <2>1, <2>2, WriteCovers DEF w
<1>9. w \in Seq(Units) /\ AllFresh(Letters, w)
  BY <1>1, <1>2, <1>6, MergingLayoutFacts, FreshMore DEF w
<1>10. result' \o current' = w
  BY <1>1, <1>9, MergingLayoutFacts
<1> QED
  BY <1>1, <1>8, <1>9, <1>10, MergingLayoutFacts, LoopStep DEF Q

(* The loop that overlaps reads what was merged, and has written nothing.  *)
LEMMA EndMergingLays ==
  ASSUME ChunkingInvariant, LayoutInvariant, EndMerging
  PROVE  LayoutInvariant'
<1>1. /\ stage = "merge" /\ next > Len(units)
      /\ stage' = "overlap" /\ units' = result /\ next' = 1
      /\ current' = <<>> /\ result' = <<>> /\ UNCHANGED <<text, todo>>
  BY DEF EndMerging, Advance
<1>2. current = <<>> /\ result \in Seq(Units)
  BY <1>1, MergingFacts
<1>3. result \o current = result
  BY <1>2
<1>4. Laid(Letters, Words, units')
  BY <1>1, <1>3, LoopEnds
<1>5. Len(result') = 0 /\ Len(units') \in Nat /\ DOMAIN result' = {}
  BY <1>1, <1>2
<1>6. Letters' = Letters /\ Words' = Words
  BY <1>1 DEF Letters, Words
<1>7. OverlapLayout'
  BY <1>1, <1>4, <1>5, <1>6 DEF OverlapLayout
<1> QED
  BY <1>1, <1>7 DEF LayoutInvariant

-----------------------------------------------------------------------------
(* The layout in the loop that overlaps, and of the chunks.                *)

(* A unit that repeats nothing is its own text.                            *)
LEMMA RepeatsNothing ==
  ASSUME NEW L, NEW s, NEW k, s[k] \in Units, Fresh(L, s[k])
  PROVE  Repeats(L, s, k, s[k])
<1> DEFINE u == s[k]
<1>1. /\ u.from \in Int /\ u.to \in Int /\ u.borrowed = 0
      /\ Strip(L, u) \in Units
  BY StripType DEF Units, Fresh
<1>2. Strip(L, u).size \in Int
  BY <1>1 DEF Units
<1> HIDE DEF u
<1>3. Within(u, u) /\ Keeps(L, u, u)
  BY <1>1 DEF Within, Keeps
<1>4. Strip(L, u).size <= Strip(L, u).size - u.borrowed /\ ~(u.borrowed > 0)
  BY <1>1, <1>2
<1> QED
  BY <1>3, <1>4 DEF Repeats, u

(* A unit behind a prefix is its own text and the prefix.                  *)
LEMMA RepeatsPrefix ==
  ASSUME NEW L, NEW s, NEW k, s[k] \in Units, NEW prefix \in Nat,
         k > 1, s[k - 1].place = s[k].place, prefix <= Strip(L, s[k - 1]).size,
         NEW w, w = [Strip(L, s[k]) EXCEPT !.size = prefix + 2 + @,
                       !.warnings = @ \cup {"overlap"}, !.borrowed = prefix]
  PROVE  Repeats(L, s, k, w)
<1> DEFINE u == s[k]
           a == Strip(L, u)
           size == prefix + 2 + a.size
           ws == a.warnings \cup {"overlap"}
<1>1. a \in Units /\ a.size \in Int /\ a.warnings \in SUBSET Warnings
      /\ Within(a, u) /\ Keeps(L, u, a)
  <2>1. a \in Units
    BY StripType
  <2> QED
    BY <2>1, StripKeeps DEF Units
<1>2. size \in Int /\ ws \in SUBSET Warnings
  BY <1>1 DEF Warnings
<1>3. w = [a EXCEPT !.size = size, !.warnings = ws, !.borrowed = prefix]
  OBVIOUS
<1> HIDE DEF a, size, ws, u
<1>4. /\ w \in Units /\ w.size = size /\ w.borrowed = prefix
      /\ w.from = a.from /\ w.to = a.to /\ w.place = a.place
  BY <1>1, <1>2, <1>3 DEF Units
<1>5. Strip(L, w).size >= w.size - 2 /\ Strip(L, w) \in Units
  BY <1>4, StripType
<1>6. Strip(L, w).size \in Int
  BY <1>5 DEF Units
<1>7. a.size <= Strip(L, w).size - w.borrowed
  BY <1>1, <1>4, <1>5, <1>6 DEF size
<1>8. Within(w, u) /\ Keeps(L, u, w)
  BY <1>1, <1>4 DEF Within, Keeps, Positions
<1>9. k > 1 /\ s[k - 1].place = s[k].place /\ w.borrowed <= Strip(L, s[k - 1]).size
  BY <1>4
<1> QED
  BY <1>7, <1>8, <1>9 DEF Repeats, a, u

(* A unit is written as it is, or behind the prefix that it repeats.       *)
LEMMA ApplyOverlapLays ==
  ASSUME ChunkingInvariant, LayoutInvariant, ApplyOverlap
  PROVE  LayoutInvariant'
<1> DEFINE u == units[next]
           Whole(prefix) == [Strip(Letters, u) EXCEPT !.size = prefix + 2 + @,
                               !.warnings = @ \cup {"overlap"}, !.borrowed = prefix]
<1>1. /\ stage = "overlap" /\ next <= Len(units) /\ next' = next + 1
      /\ UNCHANGED <<text, stage, units, todo, current>>
  BY DEF ApplyOverlap
<1>2. /\ units \in Seq(Units) /\ result \in Seq(Units) /\ next \in Nat \ {0}
      /\ OverlapLayout
  BY <1>1, OverlapFacts DEF LayoutInvariant
<1>3. /\ next = Len(result) + 1 /\ Laid(Letters, Words, units) /\ Len(units) \in Nat
      /\ next \in DOMAIN units /\ u \in Units
      /\ \A k \in DOMAIN result : Repeats(Letters, units, k, result[k])
  BY <1>1, <1>2 DEF OverlapLayout
<1>4. Fresh(Letters, u)
  BY <1>3 DEF Laid, AllFresh
<1>5. PICK prefix \in 0 .. Overlap :
        \/ result' = Append(result, u)
        \/ /\ next > 1 /\ Borrows(units[next - 1], u, prefix)
           /\ prefix <= Strip(Letters, units[next - 1]).size
           /\ result' = Append(result, Whole(prefix))
  BY SameOperations DEF ApplyOverlap
<1>6. \E w : result' = Append(result, w) /\ w \in Units /\ Repeats(Letters, units, next, w)
  <2>1. CASE result' = Append(result, u)
    BY <1>3, <1>4, <2>1, RepeatsNothing
  <2>2. CASE /\ next > 1 /\ Borrows(units[next - 1], u, prefix)
             /\ prefix <= Strip(Letters, units[next - 1]).size
             /\ result' = Append(result, Whole(prefix))
    <3>1. /\ prefix \in Nat /\ units[next - 1].place = u.place /\ prefix > 0
          /\ prefix + 2 + u.size <= Maximum
      BY <2>2, SettingsAreNumbers DEF Borrows, Compatible
    <3> DEFINE w == Whole(prefix)
    <3>2. w = [Strip(Letters, u) EXCEPT !.size = prefix + 2 + @,
                 !.warnings = @ \cup {"overlap"}, !.borrowed = prefix]
      OBVIOUS
    <3>3. Good(Letters, u)
      BY <1>1, <1>3, OverlapFacts DEF AllGood
    <3>4. result' = Append(result, w)
      BY <2>2
    <3> HIDE DEF w
    <3>5. Good(Letters, w)
      BY <3>1, <3>2, <3>3, BorrowedIsGood
    <3>6. Repeats(Letters, units, next, w)
      BY <1>3, <2>2, <3>1, <3>2, RepeatsPrefix
    <3> QED
      BY <3>4, <3>5, <3>6 DEF Good
  <2> QED
    BY <1>5, <2>1, <2>2
<1>7. PICK w : result' = Append(result, w) /\ w \in Units /\ Repeats(Letters, units, next, w)
  BY <1>6
<1>8. /\ Len(result') = Len(result) + 1 /\ DOMAIN result' = 1 .. Len(result) + 1
      /\ result'[Len(result) + 1] = w /\ Len(result) \in Nat /\ DOMAIN result = 1 .. Len(result)
      /\ \A k \in 1 .. Len(result) : result'[k] = result[k]
  BY <1>2, <1>7, OneMore
<1>9. ASSUME NEW k \in DOMAIN result' PROVE Repeats(Letters, units, k, result'[k])
  <2>1. CASE k = next
    BY <1>3, <1>7, <1>8, <2>1
  <2>2. CASE k # next
    <3>1. k \in 1 .. Len(result)
      BY <1>3, <1>8, <2>2
    <3> QED
      BY <1>3, <1>8, <3>1
  <2> QED
    BY <2>1, <2>2
<1>10. next' = Len(result') + 1 /\ Len(result') <= Len(units)
  BY <1>1, <1>3, <1>8
<1>11. Letters' = Letters /\ Words' = Words
  BY <1>1 DEF Letters, Words
<1>12. OverlapLayout'
  BY <1>1, <1>3, <1>9, <1>10, <1>11 DEF OverlapLayout
<1> QED
  BY <1>1, <1>12 DEF LayoutInvariant

(* The last strip takes no letter, and nothing that is repeated behind it. *)
LEMMA EndOverlapLays ==
  ASSUME ChunkingInvariant, LayoutInvariant, EndOverlap
  PROVE  LayoutInvariant'
<1> DEFINE n == Len(units)
           chunks == [k \in DOMAIN result |-> Strip(Letters, result[k])]
<1>1. /\ stage = "overlap" /\ next > n /\ stage' = "done"
      /\ units' = chunks /\ UNCHANGED <<text, todo>>
  BY SameOperations DEF EndOverlap, Advance
<1>2. /\ units \in Seq(Units) /\ result \in Seq(Units) /\ next \in Nat \ {0}
      /\ OverlapLayout
  BY <1>1, OverlapFacts DEF LayoutInvariant
<1>3. /\ n \in Nat /\ DOMAIN result = 1 .. n /\ DOMAIN units = 1 .. n
      /\ \A k \in 1 .. n : units[k] \in Units /\ result[k] \in Units
      /\ Laid(Letters, Words, units)
      /\ \A k \in 1 .. n : Repeats(Letters, units, k, result[k])
  <2>1. n \in Nat /\ Len(result) \in Nat /\ Len(result) = n
    BY <1>1, <1>2 DEF OverlapLayout
  <2> QED
    BY <1>2, <2>1 DEF OverlapLayout
<1>4. DOMAIN chunks = 1 .. n /\ \A k \in 1 .. n : chunks[k] = Strip(Letters, result[k])
  BY <1>3
<1>5. /\ InOrder(units) /\ Holds(Letters, units, {})
      /\ \A k \in 1 .. n : OfPlace(Words, units[k])
  BY <1>3 DEF Laid, Covering
<1> HIDE DEF n, chunks
<1>6. ASSUME NEW k \in 1 .. n
      PROVE  /\ chunks[k] \in Units /\ Within(chunks[k], units[k])
             /\ Keeps(Letters, units[k], chunks[k])
             /\ chunks[k].borrowed = result[k].borrowed
             /\ Strip(Letters, units[k]).size <= chunks[k].size - chunks[k].borrowed
  <2> DEFINE u == units[k]
             r == result[k]
             c == Strip(Letters, r)
  <2>1. u \in Units /\ r \in Units /\ c \in Units /\ Repeats(Letters, units, k, r) /\ chunks[k] = c
    BY <1>3, <1>4, StripType
  <2>2. Within(c, r) /\ Keeps(Letters, r, c) /\ c.borrowed = r.borrowed
    BY <2>1, StripKeeps
  <2>3. /\ Within(r, u) /\ Keeps(Letters, u, r)
        /\ Strip(Letters, u).size <= c.size - r.borrowed
    BY <2>1 DEF Repeats
  <2> HIDE DEF u, r, c
  <2>4. Within(c, u)
    BY <2>1, <2>2, <2>3 DEF Within, Units
  <2>5. Keeps(Letters, u, c)
    BY <2>2, <2>3 DEF Keeps
  <2> QED
    BY <2>1, <2>2, <2>3, <2>4, <2>5 DEF u, r
<1>7. ASSUME NEW i \in 1 .. n, NEW k \in 1 .. n, i < k PROVE chunks[i].to < chunks[k].from
  <2> DEFINE a == units[i]
             b == units[k]
             c == chunks[i]
             d == chunks[k]
  <2>1. a.to < b.from
    BY <1>3, <1>5, <1>7 DEF InOrder
  <2>2. c.to <= a.to /\ b.from <= d.from
    BY <1>6 DEF Within
  <2>3. a.to \in Int /\ b.from \in Int /\ c.to \in Int /\ d.from \in Int
    BY <1>3, <1>6 DEF Units
  <2> HIDE DEF a, b, c, d
  <2>4. c.to < d.from
    BY <2>1, <2>2, <2>3
  <2> QED
    BY <2>4 DEF c, d
<1>8. ASSUME NEW p \in Letters PROVE \E k \in 1 .. n : p \in Positions(chunks[k])
  <2>1. PICK k \in 1 .. n : p \in Positions(units[k])
    BY <1>3, <1>5 DEF Holds
  <2> QED
    BY <1>6, <2>1 DEF Keeps
<1>9. ASSUME NEW k \in 1 .. n PROVE OfPlace(Words, chunks[k])
  BY <1>3, <1>5, <1>6, PartOfPlace
<1>10. ASSUME NEW k \in 1 .. n, chunks[k].borrowed > 0
       PROVE  /\ k > 1 /\ chunks[k - 1].place = chunks[k].place
              /\ chunks[k].borrowed <= chunks[k - 1].size - chunks[k - 1].borrowed
  <2>1. /\ k > 1 /\ units[k - 1].place = units[k].place
        /\ chunks[k].borrowed <= Strip(Letters, units[k - 1]).size
    BY <1>3, <1>6, <1>10 DEF Repeats
  <2>2. k - 1 \in 1 .. n
    BY <1>3, <2>1
  <2> DEFINE i == k - 1
             x == chunks[k].borrowed
             y == Strip(Letters, units[i]).size
             z == chunks[i].size - chunks[i].borrowed
  <2>3. y <= z /\ chunks[i].place = units[i].place /\ chunks[k].place = units[k].place
    BY <1>6, <2>2 DEF Within
  <2>4. x \in Int /\ y \in Int /\ z \in Int
    <3>1. chunks[k] \in Units /\ chunks[i] \in Units /\ Strip(Letters, units[i]) \in Units
      BY <1>3, <1>6, <2>2, StripType
    <3> QED
      BY <3>1 DEF Units
  <2>5. x <= y
    BY <2>1
  <2> HIDE DEF x, y, z
  <2>6. x <= z
    BY <2>3, <2>4, <2>5
  <2> QED
    BY <2>1, <2>3, <2>6 DEF x, z
<1>11. Letters' = Letters /\ Words' = Words
  BY <1>1 DEF Letters, Words
<1>12. InOrder(chunks) /\ Holds(Letters, chunks, {})
  BY <1>4, <1>7, <1>8 DEF InOrder, Holds
<1>13. DoneLayout'
  BY <1>1, <1>4, <1>9, <1>10, <1>11, <1>12 DEF DoneLayout
<1> QED
  BY <1>1, <1>13 DEF LayoutInvariant

-----------------------------------------------------------------------------
(* The layout, for every run of the chunker.                               *)

(* At first everything is unread.                                          *)
LEMMA StartIsLaidOut == Start => LayoutInvariant
<1> SUFFICES ASSUME Start PROVE LayoutInvariant
  OBVIOUS
<1>1. /\ IsLaidOut(text) /\ stage = "split" /\ next = 1
      /\ units = <<>> /\ todo = <<>> /\ current = <<>> /\ result = <<>>
  BY DEF Start
<1>2. /\ Unread = WholesFrom(text, 1) /\ result \o current = <<>> /\ <<>> \in Seq(Units)
  BY <1>1, NothingInIt DEF Unread
<1>3. Covering(Letters, Words, <<>>, Unread)
  <2>1. \A u \in Unread : u \in Units /\ OfPlace(Words, u)
    BY <1>1, <1>2, DocumentFacts DEF WholesFrom
  <2>2. Holds(Letters, <<>>, Unread)
    BY <1>1, <1>2, DocumentFacts DEF WholesFrom, Holds
  <2> QED
    BY <1>2, <2>1, <2>2, NothingInIt DEF Covering
<1>4. SplittingLayout
  BY <1>1, <1>2, <1>3, NothingInIt DEF SplittingLayout
<1> QED
  BY <1>1, <1>4 DEF LayoutInvariant

(* Every step of every loop keeps the text where it is.                    *)
LEMMA NextLays == ChunkingInvariant /\ LayoutInvariant /\ [Next]_vars => LayoutInvariant'
<1> SUFFICES ASSUME ChunkingInvariant, LayoutInvariant, [Next]_vars PROVE LayoutInvariant'
  OBVIOUS
<1>1. CASE KeepParagraph BY <1>1, KeepParagraphLays
<1>2. CASE SplitParagraph BY <1>2, SplitParagraphLays
<1>3. CASE SplitHard BY <1>3, SplitHardLays
<1>4. CASE EndSplitHard BY <1>4, EndSplitHardLays
<1>5. CASE PackTextUnit BY <1>5, PackTextUnitLays
<1>6. CASE EndParagraph BY <1>6, EndParagraphLays
<1>7. CASE EndSplitting BY <1>7, EndSplittingLays
<1>8. CASE Pack BY <1>8, PackLays
<1>9. CASE EndPacking BY <1>9, EndPackingLays
<1>10. CASE KeepLong BY <1>10, KeepLongLays
<1>11. CASE MergeWithPrevious BY <1>11, MergeWithPreviousLays
<1>12. CASE MergeWithNext BY <1>12, MergeWithNextLays
<1>13. CASE KeepShort BY <1>13, KeepShortLays
<1>14. CASE EndMerging BY <1>14, EndMergingLays
<1>15. CASE ApplyOverlap BY <1>15, ApplyOverlapLays
<1>16. CASE EndOverlap BY <1>16, EndOverlapLays
<1>17. CASE UNCHANGED vars
  <2>1. UNCHANGED <<text, stage, units, next, todo, current, result>>
    BY <1>17 DEF vars
  <2>2. Letters' = Letters /\ Words' = Words /\ Left' = Left /\ Unread' = Unread
    BY <2>1 DEF Letters, Words, Left, UnitsFrom, Unread, WholesFrom
  <2> QED
    BY <2>1, <2>2 DEF LayoutInvariant, SplittingLayout, LoopLayout, OverlapLayout, DoneLayout
<1> QED
  BY <1>1, <1>2, <1>3, <1>4, <1>5, <1>6, <1>7, <1>8, <1>9, <1>10, <1>11, <1>12, <1>13,
     <1>14, <1>15, <1>16, <1>17 DEF Next

(* What was written and what is unread lie one behind the other, each of   *)
(* its place, and have every letter, in every loop.                        *)
THEOREM LayoutIsKept == Spec => []LayoutInvariant
<1>1. Init => ChunkingInvariant /\ LayoutInvariant
  BY InitIsStart, StartIsInvariant, StartIsLaidOut
<1>2. (ChunkingInvariant /\ LayoutInvariant) /\ [Next]_vars
        => (ChunkingInvariant /\ LayoutInvariant)'
  BY NextKeeps, NextLays
<1> QED
  BY <1>1, <1>2, PTL DEF Spec

(* So no letter is outside of every unit, or in two of them.               *)
LEMMA LettersAreHeld == ChunkingInvariant /\ LayoutInvariant => NothingIsLost
<1> SUFFICES ASSUME ChunkingInvariant, LayoutInvariant, stage # "split"
             PROVE  /\ Letters \subseteq UNION {Positions(unit) : unit \in Range(units)}
                    /\ \A i, j \in DOMAIN units :
                         i < j => \A p \in Letters \cap Positions(units[i]),
                                     q \in Letters \cap Positions(units[j]) : p < q
  BY DEF NothingIsLost
<1>1. units \in Seq(Units) /\ stage \in Stages
  BY DEF ChunkingInvariant, TypeOK
<1>2. InOrder(units) /\ Holds(Letters, units, {})
  BY <1>1 DEF LayoutInvariant, LoopLayout, OverlapLayout, DoneLayout, Laid, Covering, Stages
<1>3. Letters \subseteq UNION {Positions(unit) : unit \in Range(units)}
  BY <1>2 DEF Holds, Range
<1>4. ASSUME NEW i \in DOMAIN units, NEW j \in DOMAIN units, i < j,
             NEW p \in Positions(units[i]), NEW q \in Positions(units[j])
      PROVE  p < q
  <2> DEFINE a == units[i]
             b == units[j]
  <2>1. a.from \in Int /\ a.to \in Int /\ b.from \in Int /\ b.to \in Int /\ a.to < b.from
    <3>1. a \in Units /\ b \in Units
      BY <1>1
    <3> QED
      BY <1>2, <1>4, <3>1 DEF InOrder, Units
  <2>2. p \in Int /\ q \in Int /\ p <= a.to /\ b.from <= q
    BY <1>4, <2>1 DEF Positions
  <2> HIDE DEF a, b
  <2> QED
    BY <2>1, <2>2
<1> QED
  BY <1>3, <1>4

(* No characters are dropped: what each loop hands over has every letter   *)
(* of the document in exactly one unit, in the order of the source.        *)
THEOREM NoLetterIsLost == Spec => []NothingIsLost
BY LettersAreHeld, ChunkingIsInvariant, LayoutIsKept, PTL

(* And each unit is of its place.                                          *)
LEMMA UnitsKeepPlaces == LayoutInvariant => PlacesAreKept
BY DEF LayoutInvariant, DoneLayout, OfPlace, PlacesAreKept

(* A chunk has one page and one heading, and begins with repeated text only *)
(* behind one of the same place, and with no more than that one has of its  *)
(* own.                                                                    *)
THEOREM ChunksStayInPlace == Spec => []PlacesAreKept
BY UnitsKeepPlaces, LayoutIsKept, PTL
=============================================================================
