--------------------------- MODULE ParsingProofs ---------------------------
(***************************************************************************)
(* The way of a file to its chunks, for all files, settings and faults: the *)
(* parsers put every line into its section, and what they hand over is     *)
(* laid out as the chunker needs it, with every word of the file, so that  *)
(* all that is proved of the chunker is true of the chunks of files.       *)
(***************************************************************************)
EXTENDS ParsedChunking, ChunkingProofs, SequenceInduction

-----------------------------------------------------------------------------
(* What the folds of the layout compute.                                   *)

AddJoined == [sum \in Int |-> [size \in Int |-> sum + size + 1]]

(* The size of joined text units is a running sum.                         *)
LEMMA JoinedSizeRuns ==
  ASSUME NEW sizes \in Seq(Int)
  PROVE  \E c : c \in Runs(Int, 0, sizes, AddJoined) /\ c[Len(sizes)] = JoinedSize(sizes)
<1>1. CanFold(Int, Int, 0, sizes, AddJoined)
  BY DEF CanFold, AddJoined
<1>2. PICK f : f \in SubsetFolds(Int, 0, sizes, AddJoined)
  BY <1>1, FoldExists, Zenon
<1> DEFINE fold == CHOOSE g : g = [s \in SUBSET DOMAIN sizes |->
                     IF s = {} THEN 0 ELSE g[s \ {Max(s)}] + sizes[Max(s)] + 1]
<1>3. DOMAIN sizes = 1 .. Len(sizes) /\ Len(sizes) \in Nat
  OBVIOUS
<1>4. ASSUME NEW s \in SUBSET (1 .. Len(sizes)), s # {}
      PROVE  Max(s) \in 1 .. Len(sizes) /\ sizes[Max(s)] \in Int
  <2>1. Max(s) \in s
    BY <1>3, <1>4, Greatest, Zenon
  <2>2. Max(s) \in 1 .. Len(sizes)
    BY <2>1
  <2> QED
    BY <2>2
<1>5. ASSUME NEW sum \in Int, NEW size \in Int PROVE AddJoined[sum][size] = sum + size + 1
  BY DEF AddJoined
<1>6. f = [s \in SUBSET DOMAIN sizes |->
             IF s = {} THEN 0 ELSE f[s \ {Max(s)}] + sizes[Max(s)] + 1]
  <2>1. /\ f \in [SUBSET (1 .. Len(sizes)) -> Int]
        /\ \A s \in SUBSET (1 .. Len(sizes)) :
             f[s] = IF s = {} THEN 0 ELSE AddJoined[f[s \ {Max(s)}]][sizes[Max(s)]]
    BY <1>2, Zenon DEF SubsetFolds
  <2>2. ASSUME NEW s \in SUBSET (1 .. Len(sizes))
        PROVE  f[s] = IF s = {} THEN 0 ELSE f[s \ {Max(s)}] + sizes[Max(s)] + 1
    <3>1. CASE s = {}
      BY <2>1, <3>1
    <3>2. CASE s # {}
      <4>1. f[s \ {Max(s)}] \in Int
        BY <2>1
      <4> QED
        BY <1>4, <1>5, <2>1, <3>2, <4>1
    <3> QED
      BY <3>1, <3>2
  <2> QED
    BY <1>3, <2>1, <2>2
<1>7. fold = [s \in SUBSET DOMAIN sizes |->
                IF s = {} THEN 0 ELSE fold[s \ {Max(s)}] + sizes[Max(s)] + 1]
  BY <1>6, Zenon
<1>8. JoinedSize(sizes) = fold[DOMAIN sizes]
  BY Zenon DEF JoinedSize, FoldLeft, MapThenFoldSet
<1> HIDE DEF fold
<1>9. Follows(Int, 0, sizes, AddJoined, fold)
  <2>1. ASSUME NEW s \in SUBSET (1 .. Len(sizes)), s # {}, fold[s \ {Max(s)}] \in Int
        PROVE  fold[s] = AddJoined[fold[s \ {Max(s)}]][sizes[Max(s)]]
    BY <1>3, <1>4, <1>5, <1>7, <2>1
  <2>2. fold[{}] = 0
    BY <1>7
  <2> QED
    BY <2>1, <2>2 DEF Follows
<1>10. \E c : c \in Runs(Int, 0, sizes, AddJoined) /\ c[Len(sizes)] = fold[1 .. Len(sizes)]
  BY <1>1, <1>9, FoldRuns
<1> QED
  BY <1>3, <1>8, <1>10

KeepElement(X, kept) ==
  [found \in Seq(X) |-> [e \in X |-> IF e \in kept THEN Append(found, e) ELSE found]]

(* The elements that are kept are appended one by one.                     *)
LEMMA OnlyRuns ==
  ASSUME NEW X, NEW kept, NEW seq \in Seq(X)
  PROVE  \E c : c \in Runs(Seq(X), <<>>, seq, KeepElement(X, kept)) /\ c[Len(seq)] = Only(seq, kept)
<1>1. CanFold(X, Seq(X), <<>>, seq, KeepElement(X, kept))
  BY DEF CanFold, KeepElement
<1>2. PICK f : f \in SubsetFolds(Seq(X), <<>>, seq, KeepElement(X, kept))
  BY <1>1, FoldExists, Zenon
<1> DEFINE fold == CHOOSE g : g = [s \in SUBSET DOMAIN seq |->
                     IF s = {} THEN <<>> ELSE IF seq[Max(s)] \in kept THEN Append(g[s \ {Max(s)}], seq[Max(s)]) ELSE g[s \ {Max(s)}]]
<1>3. seq \in Seq(X) /\ DOMAIN seq = 1 .. Len(seq) /\ Len(seq) \in Nat
  BY <1>1 DEF CanFold
<1>4. ASSUME NEW s \in SUBSET (1 .. Len(seq)), s # {}
      PROVE  seq[Max(s)] \in X
  <2>1. Max(s) \in s
    BY <1>3, <1>4, Greatest, Zenon
  <2>2. Max(s) \in 1 .. Len(seq)
    BY <2>1
  <2> QED
    BY <1>3, <2>2
<1>5. ASSUME NEW found \in Seq(X), NEW e \in X
      PROVE  KeepElement(X, kept)[found][e] = IF e \in kept THEN Append(found, e) ELSE found
  BY DEF KeepElement
<1>6. f = [s \in SUBSET DOMAIN seq |->
             IF s = {} THEN <<>> ELSE IF seq[Max(s)] \in kept THEN Append(f[s \ {Max(s)}], seq[Max(s)]) ELSE f[s \ {Max(s)}]]
  <2>1. /\ f \in [SUBSET (1 .. Len(seq)) -> Seq(X)]
        /\ \A s \in SUBSET (1 .. Len(seq)) :
             f[s] = IF s = {} THEN <<>> ELSE KeepElement(X, kept)[f[s \ {Max(s)}]][seq[Max(s)]]
    BY <1>2, Zenon DEF SubsetFolds
  <2>2. ASSUME NEW s \in SUBSET (1 .. Len(seq))
        PROVE  f[s] = IF s = {} THEN <<>> ELSE IF seq[Max(s)] \in kept THEN Append(f[s \ {Max(s)}], seq[Max(s)]) ELSE f[s \ {Max(s)}]
    <3>1. CASE s = {}
      BY <2>1, <3>1
    <3>2. CASE s # {}
      <4>1. f[s \ {Max(s)}] \in Seq(X) /\ seq[Max(s)] \in X
        BY <1>4, <2>1, <3>2
      <4>2. f[s] = KeepElement(X, kept)[f[s \ {Max(s)}]][seq[Max(s)]]
        BY <2>1, <3>2
      <4> QED
        BY <1>5, <3>2, <4>1, <4>2
    <3> QED
      BY <3>1, <3>2
  <2> QED
    BY <1>3, <2>1, <2>2
<1>7. fold = [s \in SUBSET DOMAIN seq |->
                IF s = {} THEN <<>> ELSE IF seq[Max(s)] \in kept THEN Append(fold[s \ {Max(s)}], seq[Max(s)]) ELSE fold[s \ {Max(s)}]]
  BY <1>6, Zenon
<1>8. Only(seq, kept) = fold[DOMAIN seq]
  BY Zenon DEF Only, FoldLeft, MapThenFoldSet
<1> HIDE DEF fold
<1>9. Follows(Seq(X), <<>>, seq, KeepElement(X, kept), fold)
  <2>1. ASSUME NEW s \in SUBSET (1 .. Len(seq)), s # {}, fold[s \ {Max(s)}] \in Seq(X)
        PROVE  fold[s] = KeepElement(X, kept)[fold[s \ {Max(s)}]][seq[Max(s)]]
    <3>1. seq[Max(s)] \in X
      BY <1>4, <2>1
    <3>2. fold[s] = IF seq[Max(s)] \in kept THEN Append(fold[s \ {Max(s)}], seq[Max(s)]) ELSE fold[s \ {Max(s)}]
      BY <1>3, <1>7, <2>1
    <3> QED
      BY <1>5, <2>1, <3>1, <3>2
  <2>2. fold[{}] = <<>>
    BY <1>7
  <2> QED
    BY <2>1, <2>2 DEF Follows
<1>10. \E c : c \in Runs(Seq(X), <<>>, seq, KeepElement(X, kept)) /\ c[Len(seq)] = fold[1 .. Len(seq)]
  BY <1>1, <1>9, FoldRuns
<1> QED
  BY <1>3, <1>8, <1>10

(* One more element, at the end.                                           *)
LEMMA AppendFacts ==
  ASSUME NEW X, NEW seq \in Seq(X), NEW e \in X
  PROVE  /\ Append(seq, e) \in Seq(X) /\ Append(seq, e) # <<>>
         /\ Len(Append(seq, e)) = Len(seq) + 1 /\ DOMAIN Append(seq, e) = 1 .. Len(seq) + 1
         /\ Append(seq, e)[Len(seq) + 1] = e
         /\ \A i \in 1 .. Len(seq) : Append(seq, e)[i] = seq[i]
         /\ Range(Append(seq, e)) = Range(seq) \cup {e}
<1>1. /\ Append(seq, e) \in Seq(X) /\ Append(seq, e) # <<>> /\ Len(seq) \in Nat
      /\ Len(Append(seq, e)) = Len(seq) + 1 /\ DOMAIN Append(seq, e) = 1 .. Len(seq) + 1
      /\ Append(seq, e)[Len(seq) + 1] = e
      /\ \A i \in 1 .. Len(seq) : Append(seq, e)[i] = seq[i]
      /\ DOMAIN seq = 1 .. Len(seq)
  OBVIOUS
<1> DEFINE more == Append(seq, e)
<1> HIDE DEF more
<1>2. ASSUME NEW x \in Range(seq) \cup {e} PROVE x \in Range(Append(seq, e))
  <2>1. CASE x = e
    <3>1. Len(seq) + 1 \in DOMAIN Append(seq, e)
      BY <1>1
    <3> QED
      BY <1>1, <2>1, <3>1 DEF Range
  <2>2. CASE x \in Range(seq)
    <3>1. PICK i \in 1 .. Len(seq) : x = seq[i]
      BY <1>1, <2>2 DEF Range
    <3>2. i \in DOMAIN Append(seq, e)
      BY <1>1
    <3> QED
      BY <1>1, <3>1, <3>2 DEF Range
  <2> QED
    BY <2>1, <2>2
<1>3. ASSUME NEW x \in Range(Append(seq, e)) PROVE x \in Range(seq) \cup {e}
  <2>1. PICK i \in 1 .. Len(seq) + 1 : x = Append(seq, e)[i]
    BY <1>1 DEF Range
  <2>2. CASE i = Len(seq) + 1
    BY <1>1, <2>1, <2>2
  <2>3. CASE i \in 1 .. Len(seq)
    BY <1>1, <2>1, <2>3 DEF Range
  <2> QED
    BY <1>1, <2>2, <2>3
<1> QED
  BY <1>1, <1>2, <1>3

(* What is kept are the elements that are to be kept, in their order.      *)
LEMMA OnlyIs ==
  ASSUME NEW X, NEW kept, NEW seq \in Seq(X)
  PROVE  Only(seq, kept) \in Seq(X) /\ Range(Only(seq, kept)) = Range(seq) \cap kept
<1>1. PICK c : c \in Runs(Seq(X), <<>>, seq, KeepElement(X, kept)) /\ c[Len(seq)] = Only(seq, kept)
  BY OnlyRuns
<1>2. /\ c \in [0 .. Len(seq) -> Seq(X)] /\ c[0] = <<>>
      /\ \A n \in 1 .. Len(seq) : c[n] = KeepElement(X, kept)[c[n - 1]][seq[n]]
  BY <1>1, Zenon DEF Runs
<1>3. Len(seq) \in Nat /\ DOMAIN seq = 1 .. Len(seq)
  OBVIOUS
<1> DEFINE T == {n \in 0 .. Len(seq) : Range(c[n]) = {seq[i] : i \in 1 .. n} \cap kept}
<1>4. 0 \in T
  BY <1>2, <1>3 DEF Range
<1>5. ASSUME NEW n \in 1 .. Len(seq), n - 1 \in T PROVE n \in T
  <2>1. n \in 0 .. Len(seq) /\ n - 1 \in 0 .. Len(seq) /\ seq[n] \in X
    BY <1>3
  <2>2. c[n - 1] \in Seq(X)
    BY <1>2, <2>1
  <2>3. c[n] = IF seq[n] \in kept THEN Append(c[n - 1], seq[n]) ELSE c[n - 1]
    <3>1. \A found \in Seq(X), e \in X :
            KeepElement(X, kept)[found][e] = IF e \in kept THEN Append(found, e) ELSE found
      BY DEF KeepElement
    <3>2. c[n] = KeepElement(X, kept)[c[n - 1]][seq[n]]
      BY <1>2
    <3> QED
      BY <2>1, <2>2, <3>1, <3>2
  <2>4. Range(c[n]) = IF seq[n] \in kept THEN Range(c[n - 1]) \cup {seq[n]} ELSE Range(c[n - 1])
    <3>1. Range(Append(c[n - 1], seq[n])) = Range(c[n - 1]) \cup {seq[n]}
      BY <2>1, <2>2, AppendFacts
    <3> QED
      BY <2>3, <3>1
  <2>5. {seq[i] : i \in 1 .. n} = {seq[i] : i \in 1 .. n - 1} \cup {seq[n]}
    <3>1. 1 .. n = (1 .. n - 1) \cup {n}
      BY <1>3
    <3> QED
      BY <3>1
  <2> QED
    BY <1>5, <2>1, <2>4, <2>5
<1>6. 0 .. Len(seq) \subseteq T
  <2> HIDE DEF T
  <2> QED
    BY <1>3, <1>4, <1>5, Upwards
<1>7. Range(c[Len(seq)]) = {seq[i] : i \in 1 .. Len(seq)} \cap kept
  <2>1. Len(seq) \in T
    <3> HIDE DEF T
    <3> QED
      BY <1>3, <1>6
  <2> QED
    BY <2>1
<1>8. Range(seq) = {seq[i] : i \in 1 .. Len(seq)} /\ c[Len(seq)] \in Seq(X)
  BY <1>2, <1>3 DEF Range
<1> QED
  BY <1>1, <1>7, <1>8

IsIncreasing(numbers) ==
  /\ numbers \in Seq(Int)
  /\ \A i, j \in DOMAIN numbers : i < j => numbers[i] < numbers[j]

(* A number greater than all of them keeps a list of numbers increasing.   *)
LEMMA AppendIncreases ==
  ASSUME NEW numbers, IsIncreasing(numbers), NEW last \in Int,
         \A i \in DOMAIN numbers : numbers[i] < last
  PROVE  IsIncreasing(Append(numbers, last))
<1>1. /\ numbers \in Seq(Int) /\ DOMAIN numbers = 1 .. Len(numbers) /\ Len(numbers) \in Nat
      /\ \A i, j \in DOMAIN numbers : i < j => numbers[i] < numbers[j]
  BY DEF IsIncreasing
<1>2. /\ Append(numbers, last) \in Seq(Int) /\ DOMAIN Append(numbers, last) = 1 .. Len(numbers) + 1
      /\ Append(numbers, last)[Len(numbers) + 1] = last
      /\ \A i \in 1 .. Len(numbers) : Append(numbers, last)[i] = numbers[i]
  BY <1>1, AppendFacts
<1>3. ASSUME NEW i \in 1 .. Len(numbers) + 1, NEW j \in 1 .. Len(numbers) + 1, i < j
      PROVE  Append(numbers, last)[i] < Append(numbers, last)[j]
  <2>1. i \in 1 .. Len(numbers) /\ (j = Len(numbers) + 1 \/ j \in 1 .. Len(numbers))
    BY <1>1, <1>3
  <2>2. CASE j = Len(numbers) + 1
    BY <1>1, <1>2, <2>1, <2>2
  <2>3. CASE j \in 1 .. Len(numbers)
    BY <1>1, <1>2, <1>3, <2>1, <2>3
  <2> QED
    BY <2>1, <2>2, <2>3
<1> QED
  BY <1>2, <1>3 DEF IsIncreasing

(* What is kept of increasing numbers is increasing.                       *)
LEMMA OnlyIncreases ==
  ASSUME NEW kept, NEW seq, IsIncreasing(seq)
  PROVE  IsIncreasing(Only(seq, kept))
<1>0. seq \in Seq(Int) /\ \A i, j \in DOMAIN seq : i < j => seq[i] < seq[j]
  BY DEF IsIncreasing
<1>1. PICK c : c \in Runs(Seq(Int), <<>>, seq, KeepElement(Int, kept)) /\ c[Len(seq)] = Only(seq, kept)
  BY <1>0, OnlyRuns
<1>2. /\ c \in [0 .. Len(seq) -> Seq(Int)] /\ c[0] = <<>>
      /\ \A n \in 1 .. Len(seq) : c[n] = KeepElement(Int, kept)[c[n - 1]][seq[n]]
  BY <1>1, Zenon DEF Runs
<1>3. Len(seq) \in Nat /\ DOMAIN seq = 1 .. Len(seq)
  BY <1>0
<1> DEFINE From(n) == \A i \in DOMAIN c[n] : \E k \in 1 .. n : c[n][i] = seq[k]
           T == {n \in 0 .. Len(seq) : IsIncreasing(c[n]) /\ From(n)}
<1>4. 0 \in T
  BY <1>2, <1>3 DEF IsIncreasing
<1>5. ASSUME NEW n \in 1 .. Len(seq), n - 1 \in T PROVE n \in T
  <2>1. /\ n \in 0 .. Len(seq) /\ n - 1 \in 0 .. Len(seq) /\ seq[n] \in Int
        /\ 1 .. n - 1 \subseteq 1 .. n /\ \A k \in 1 .. n - 1 : seq[k] < seq[n]
    BY <1>0, <1>3
  <2>2. c[n - 1] \in Seq(Int) /\ IsIncreasing(c[n - 1]) /\ From(n - 1)
    BY <1>2, <1>5, <2>1
  <2>3. c[n] = IF seq[n] \in kept THEN Append(c[n - 1], seq[n]) ELSE c[n - 1]
    <3>1. \A found \in Seq(Int), e \in Int :
            KeepElement(Int, kept)[found][e] = IF e \in kept THEN Append(found, e) ELSE found
      BY DEF KeepElement
    <3>2. c[n] = KeepElement(Int, kept)[c[n - 1]][seq[n]]
      BY <1>2
    <3> QED
      BY <2>1, <2>2, <3>1, <3>2
  <2>4. CASE seq[n] \in kept
    <3> DEFINE list == c[n - 1]
               last == seq[n]
    <3>1. c[n] = Append(list, last) /\ last \in Int /\ list \in Seq(Int) /\ IsIncreasing(list)
      BY <2>1, <2>2, <2>3, <2>4
    <3>2. \A i \in DOMAIN list : list[i] < last
      BY <2>1, <2>2
    <3>3. From(n - 1) => \A i \in DOMAIN list : \E k \in 1 .. n : list[i] = seq[k]
      BY <2>1
    <3>4. n \in 1 .. n
      BY <1>3
    <3> HIDE DEF list, last
    <3>5. IsIncreasing(c[n])
      BY <3>1, <3>2, AppendIncreases
    <3>6. /\ DOMAIN c[n] = 1 .. Len(list) + 1 /\ c[n][Len(list) + 1] = last
          /\ \A i \in 1 .. Len(list) : c[n][i] = list[i]
          /\ DOMAIN list = 1 .. Len(list) /\ Len(list) \in Nat
      BY <3>1, AppendFacts
    <3>7. \A i \in DOMAIN c[n] : i \in DOMAIN list \/ i = Len(list) + 1
      BY <3>6
    <3>8. From(n)
      BY <2>2, <3>3, <3>4, <3>6, <3>7 DEF last
    <3> QED
      BY <2>1, <3>5, <3>8
  <2>5. CASE seq[n] \notin kept
    BY <2>1, <2>2, <2>3, <2>5
  <2> QED
    BY <2>4, <2>5
<1>6. Len(seq) \in T
  <2> HIDE DEF T
  <2>1. 0 .. Len(seq) \subseteq T
    BY <1>3, <1>4, <1>5, Upwards
  <2> QED
    BY <1>3, <2>1
<1> QED
  BY <1>1, <1>6

-----------------------------------------------------------------------------
(* Rows of text units.                                                     *)

(* The sizes of the joined text units of the beginnings of a row.          *)
Offsets(sizes) == [n \in 0 .. Len(sizes) |-> JoinedSize(SubSeq(sizes, 1, n))]

(* Each text unit adds its size and a space.                               *)
LEMMA OffsetsAdd ==
  ASSUME NEW sizes \in Seq(Int)
  PROVE  /\ Offsets(sizes) \in [0 .. Len(sizes) -> Int] /\ Offsets(sizes)[0] = 0
         /\ \A n \in 1 .. Len(sizes) : Offsets(sizes)[n] = Offsets(sizes)[n - 1] + sizes[n] + 1
         /\ JoinedSize(sizes) = Offsets(sizes)[Len(sizes)]
<1>1. PICK d : d \in Runs(Int, 0, sizes, AddJoined) /\ d[Len(sizes)] = JoinedSize(sizes)
  BY JoinedSizeRuns
<1>2. /\ d \in [0 .. Len(sizes) -> Int] /\ d[0] = 0
      /\ \A n \in 1 .. Len(sizes) : d[n] = AddJoined[d[n - 1]][sizes[n]]
  BY <1>1, Zenon DEF Runs
<1>3. Len(sizes) \in Nat
  OBVIOUS
<1>4. ASSUME NEW n \in 0 .. Len(sizes) PROVE Offsets(sizes)[n] = d[n]
  <2> DEFINE s == SubSeq(sizes, 1, n)
  <2>1. s \in Seq(Int) /\ Len(s) = n /\ \A k \in 1 .. n : s[k] = sizes[k]
    BY <1>3
  <2>2. Offsets(sizes)[n] = JoinedSize(s)
    BY DEF Offsets
  <2> HIDE DEF s
  <2>3. PICK c : c \in Runs(Int, 0, s, AddJoined) /\ c[Len(s)] = JoinedSize(s)
    BY <2>1, JoinedSizeRuns
  <2>4. CanFold(Int, Int, 0, s, AddJoined) /\ CanFold(Int, Int, 0, sizes, AddJoined)
    BY <2>1 DEF CanFold, AddJoined
  <2>5. Len(s) <= Len(sizes) /\ \A k \in 1 .. Len(s) : s[k] = sizes[k]
    BY <1>3, <2>1
  <2>6. \A k \in 0 .. Len(s) : c[k] = d[k]
    BY <1>1, <2>3, <2>4, <2>5, RunsAgree
  <2>7. n \in 0 .. Len(s)
    BY <2>1
  <2> QED
    BY <2>1, <2>2, <2>3, <2>6, <2>7
<1>5. ASSUME NEW n \in 1 .. Len(sizes) PROVE d[n] = d[n - 1] + sizes[n] + 1
  <2>1. d[n - 1] \in Int /\ sizes[n] \in Int
    BY <1>2, <1>3
  <2>2. d[n] = AddJoined[d[n - 1]][sizes[n]]
    BY <1>2
  <2> QED
    BY <2>1, <2>2 DEF AddJoined
<1>6. \A n \in 0 .. Len(sizes) : n - 1 \in 0 .. Len(sizes) \/ n = 0
  BY <1>3
<1>7. Offsets(sizes) = d
  BY <1>2, <1>4 DEF Offsets
<1> QED
  BY <1>1, <1>2, <1>5, <1>7

(* Text units that are not empty lie one behind the other.                 *)
LEMMA OffsetsGrow ==
  ASSUME NEW sizes \in Seq(Nat \ {0}),
         NEW i \in 0 .. Len(sizes), NEW j \in 0 .. Len(sizes), i < j
  PROVE  Offsets(sizes)[i] + 2 <= Offsets(sizes)[j]
<1> DEFINE d == Offsets(sizes)
           T == {n \in 0 .. Len(sizes) : i < n => d[i] + 2 <= d[n]}
<1>0. Len(sizes) \in Nat
  OBVIOUS
<1>1. /\ d \in [0 .. Len(sizes) -> Int]
      /\ \A n \in 1 .. Len(sizes) : d[n] = d[n - 1] + sizes[n] + 1
  <2>1. sizes \in Seq(Int)
    OBVIOUS
  <2> QED
    BY <2>1, OffsetsAdd
<1> HIDE DEF d, T
<1>2. 0 \in T
  BY <1>0 DEF T
<1>3. ASSUME NEW n \in 1 .. Len(sizes), n - 1 \in T PROVE n \in T
  <2>0. n \in 0 .. Len(sizes) /\ n - 1 \in 0 .. Len(sizes) /\ sizes[n] \in Nat \ {0}
    BY <1>0
  <2>1. /\ n \in Int /\ i \in Int /\ sizes[n] \in Nat \ {0}
        /\ d[n - 1] \in Int /\ d[n] \in Int /\ d[i] \in Int /\ d[n] = d[n - 1] + sizes[n] + 1
    <3>1. d[n - 1] \in Int /\ d[n] \in Int /\ d[i] \in Int
      BY <1>1, <2>0, Zenon
    <3>2. d[n] = d[n - 1] + sizes[n] + 1
      BY <1>1, Zenon
    <3> QED
      BY <2>0, <3>1, <3>2
  <2>2. d[n - 1] + 2 <= d[n]
    BY <2>1
  <2>3. i < n => i < n - 1 \/ i = n - 1
    BY <2>1
  <2>4. i < n - 1 => d[i] + 2 <= d[n - 1]
    BY <1>3 DEF T
  <2>5. i < n => d[i] + 2 <= d[n]
    <3>1. CASE i < n - 1
      <4>1. \A a, b, c \in Int : a + 2 <= b /\ b + 2 <= c => a + 2 <= c
        OBVIOUS
      <4>2. d[i] + 2 <= d[n - 1]
        BY <2>4, <3>1
      <4> QED
        BY <2>1, <2>2, <4>1, <4>2
    <3>2. CASE i = n - 1
      BY <2>2, <3>2
    <3> QED
      BY <2>3, <3>1, <3>2
  <2> QED
    BY <2>0, <2>5, Zenon DEF T
<1>4. 0 .. Len(sizes) \subseteq T
  BY <1>0, <1>2, <1>3, Upwards
<1> QED
  BY <1>4 DEF d, T

(* How text units that are not empty lie in a row.                         *)
RowLies(row, place, from, sizes) ==
  /\ row \in Seq(Units) /\ Len(row) = Len(sizes) /\ InOrder(row)
  /\ \A i \in 1 .. Len(sizes) :
       /\ row[i] = Unit(place, row[i].from, sizes[i])
       /\ row[i].place = place /\ row[i].size = sizes[i]
       /\ row[i].from \in Int /\ row[i].to \in Int /\ row[i].from <= row[i].to
       /\ row[i].to = row[i].from + sizes[i] - 1
       /\ from <= row[i].from /\ row[i].to <= from + JoinedSize(sizes) - 2
  /\ sizes # <<>> =>
       row[1].from = from /\ row[Len(sizes)].to = from + JoinedSize(sizes) - 2

LEMMA RowFacts ==
  ASSUME NEW sizes \in Seq(Nat \ {0}), NEW place \in Places, NEW from \in Int, NEW row,
         row = Row(place, from, sizes)
  PROVE  RowLies(row, place, from, sizes)
<1> DEFINE N == Len(sizes)
           d == Offsets(sizes)
<1>1. N \in Nat /\ DOMAIN sizes = 1 .. N /\ sizes \in Seq(Int)
      /\ \A i \in 1 .. N : sizes[i] \in Nat \ {0} /\ sizes[i] \in Int
  OBVIOUS
<1>2. /\ d \in [0 .. N -> Int] /\ d[0] = 0 /\ JoinedSize(sizes) = d[N]
      /\ \A n \in 1 .. N : d[n] = d[n - 1] + sizes[n] + 1
  BY <1>1, OffsetsAdd
<1>3. \A i \in 0 .. N, j \in 0 .. N : i < j => d[i] + 2 <= d[j]
  BY OffsetsGrow
<1>4. row = [i \in 1 .. N |-> Unit(place, from + d[i - 1], sizes[i])]
  <2>1. \A i \in 1 .. N : JoinedSize(SubSeq(sizes, 1, i - 1)) = d[i - 1]
    <3>1. \A i \in 1 .. N : i - 1 \in 0 .. N
      BY <1>1
    <3> QED
      BY <3>1 DEF Offsets
  <2>2. row = [i \in 1 .. N |-> Unit(place, from + JoinedSize(SubSeq(sizes, 1, i - 1)), sizes[i])]
    BY <1>1 DEF Row
  <2> QED
    BY <2>1, <2>2
<1> HIDE DEF N, d
<1>5. ASSUME NEW i \in 1 .. N
      PROVE  /\ row[i] = Unit(place, from + d[i - 1], sizes[i]) /\ row[i] \in Units
             /\ row[i].place = place /\ row[i].size = sizes[i]
             /\ row[i].from = from + d[i - 1] /\ row[i].to = from + d[i] - 2
             /\ row[i].from \in Int /\ row[i].to \in Int /\ row[i].from <= row[i].to
             /\ row[i].to = row[i].from + sizes[i] - 1
             /\ d[i] \in Int /\ d[i - 1] \in Int
  <2>1. /\ i - 1 \in 0 .. N /\ i \in 0 .. N /\ d[i - 1] \in Int /\ d[i] \in Int
        /\ sizes[i] \in Nat \ {0} /\ d[i] = d[i - 1] + sizes[i] + 1
    <3>1. i - 1 \in 0 .. N /\ i \in 0 .. N
      BY <1>1
    <3>2. d[i - 1] \in Int /\ d[i] \in Int
      BY <1>2, <3>1, Zenon
    <3>3. sizes[i] \in Nat \ {0} /\ d[i] = d[i - 1] + sizes[i] + 1
      BY <1>1, <1>2, Zenon
    <3> QED
      BY <3>1, <3>2, <3>3, Zenon
  <2>2. row[i] = Unit(place, from + d[i - 1], sizes[i])
    BY <1>4
  <2>3. /\ row[i].place = place /\ row[i].size = sizes[i] /\ row[i].from = from + d[i - 1]
        /\ row[i].to = from + d[i - 1] + sizes[i] - 1
        /\ row[i].warnings = {} /\ row[i].borrowed = 0
    BY <2>2 DEF Unit
  <2>4. from + d[i - 1] \in Int /\ from + d[i - 1] + sizes[i] - 1 \in Int
    BY <2>1
  <2>5. row[i] \in Units
    BY <2>1, <2>2, <2>4 DEF Unit, Units
  <2>6. /\ row[i].from \in Int /\ row[i].to \in Int
        /\ row[i].to = row[i].from + sizes[i] - 1
    BY <2>3, <2>4
  <2>7. row[i].to = from + d[i] - 2
    <3> HIDE DEF d
    <3>1. \A before, after \in Int : \A size \in Nat \ {0} : after = before + size + 1 =>
            from + before + size - 1 = from + after - 2
      OBVIOUS
    <3>2. from + d[i - 1] + sizes[i] - 1 = from + d[i] - 2
      BY <2>1, <3>1, Zenon
    <3> QED
      BY <2>3, <3>2, Zenon
  <2>8. row[i].from <= row[i].to
    BY <2>1, <2>6
  <2> QED
    BY <2>1, <2>2, <2>3, <2>5, <2>6, <2>7, <2>8, Zenon
<1>6. row \in Seq(Units) /\ Len(row) = N /\ DOMAIN row = 1 .. N
  <2>1. row \in [1 .. N -> Units]
    BY <1>4, <1>5
  <2> QED
    BY <1>1, <2>1
<1>7. InOrder(row)
  <2> SUFFICES ASSUME NEW i \in 1 .. N, NEW j \in 1 .. N, i < j PROVE row[i].to < row[j].from
    BY <1>6 DEF InOrder
  <2>1. i \in 0 .. N /\ j - 1 \in 0 .. N /\ (i = j - 1 \/ i < j - 1)
    BY <1>1
  <2>2. d[i] \in Int /\ d[j - 1] \in Int
    BY <1>5
  <2>3. d[i] <= d[j - 1]
    BY <1>3, <2>1, <2>2
  <2>4. row[i].to = from + d[i] - 2 /\ row[j].from = from + d[j - 1]
    BY <1>5
  <2> QED
    BY <2>2, <2>3, <2>4
<1>8. ASSUME NEW i \in 1 .. N
      PROVE  from <= row[i].from /\ row[i].to <= from + JoinedSize(sizes) - 2
  <2>1. 0 \in 0 .. N /\ N \in 0 .. N /\ i \in 0 .. N /\ i - 1 \in 0 .. N /\ d[N] \in Int
    BY <1>1, <1>2
  <2>2. i - 1 = 0 \/ 0 < i - 1
    BY <1>1
  <2>3. 0 <= d[i - 1]
    <3>1. d[i - 1] \in Int /\ d[0] = 0
      BY <1>2, <1>5
    <3>2. CASE i - 1 = 0
      BY <3>1, <3>2
    <3>3. CASE 0 < i - 1
      BY <1>3, <2>1, <3>1, <3>3
    <3> QED
      BY <2>2, <3>2, <3>3
  <2>4. i = N \/ i < N
    BY <1>1
  <2>5. d[i] <= d[N]
    <3>1. d[i] \in Int
      BY <1>5
    <3> QED
      BY <1>3, <2>1, <2>4, <3>1
  <2>6. /\ row[i].from = from + d[i - 1] /\ row[i].to = from + d[i] - 2
        /\ d[i] \in Int /\ d[i - 1] \in Int /\ JoinedSize(sizes) = d[N]
    BY <1>2, <1>5, Zenon
  <2>7. from <= from + d[i - 1] /\ from + d[i] - 2 <= from + d[N] - 2
    BY <2>1, <2>3, <2>5, <2>6
  <2> QED
    BY <2>6, <2>7
<1>9. sizes # <<>> => row[1].from = from /\ row[N].to = from + JoinedSize(sizes) - 2
  <2> SUFFICES ASSUME sizes # <<>> PROVE row[1].from = from /\ row[N].to = from + JoinedSize(sizes) - 2
    OBVIOUS
  <2>1. 1 \in 1 .. N /\ N \in 1 .. N /\ 1 - 1 = 0
    BY <1>1 DEF N
  <2>2. row[1].from = from + d[1 - 1] /\ row[N].to = from + d[N] - 2
    BY <1>5, <2>1
  <2> QED
    BY <1>2, <2>1, <2>2
<1> QED
  BY <1>5, <1>6, <1>7, <1>8, <1>9 DEF N, RowLies

-----------------------------------------------------------------------------
(* Sequences one behind the other.                                         *)

(* Of two elements the first one is related to the second one.             *)
Ascends(seq, R) == \A i, j \in DOMAIN seq : i < j => <<seq[i], seq[j]>> \in R

(* Two sequences joined have the elements of both, and are sorted if they  *)
(* are, and if the elements of the first one come before the others.       *)
LEMMA JoinIs ==
  ASSUME NEW X, NEW s \in Seq(X), NEW t \in Seq(X)
  PROVE  /\ s \o t \in Seq(X) /\ Range(s \o t) = Range(s) \cup Range(t)
         /\ \A R : Ascends(s, R) /\ Ascends(t, R)
                     /\ (\A a \in Range(s), b \in Range(t) : <<a, b>> \in R)
                   => Ascends(s \o t, R)
<1> DEFINE u == s \o t
<1>1. /\ u \in Seq(X) /\ Len(s) \in Nat /\ Len(t) \in Nat /\ Len(u) = Len(s) + Len(t)
      /\ DOMAIN s = 1 .. Len(s) /\ DOMAIN t = 1 .. Len(t) /\ DOMAIN u = 1 .. Len(s) + Len(t)
      /\ \A i \in 1 .. Len(s) : u[i] = s[i]
      /\ \A i \in 1 .. Len(t) : u[Len(s) + i] = t[i]
  OBVIOUS
<1> HIDE DEF u
<1>2. ASSUME NEW i \in DOMAIN u
      PROVE  \/ i \in DOMAIN s /\ u[i] = s[i]
             \/ i - Len(s) \in DOMAIN t /\ u[i] = t[i - Len(s)]
  <2>1. CASE i <= Len(s)
    <3>1. i \in DOMAIN s
      BY <1>1, <2>1
    <3> QED
      BY <1>1, <3>1
  <2>2. CASE ~(i <= Len(s))
    <3>1. i - Len(s) \in 1 .. Len(t) /\ Len(s) + (i - Len(s)) = i
      BY <1>1, <2>2
    <3>2. u[Len(s) + (i - Len(s))] = t[i - Len(s)]
      BY <1>1, <3>1
    <3> QED
      BY <1>1, <3>1, <3>2
  <2> QED
    BY <2>1, <2>2
<1>3. Range(u) = Range(s) \cup Range(t)
  <2>1. ASSUME NEW x \in Range(u) PROVE x \in Range(s) \cup Range(t)
    BY <1>2 DEF Range
  <2>2. ASSUME NEW x \in Range(s) PROVE x \in Range(u)
    <3>1. PICK i \in DOMAIN s : x = s[i]
      BY DEF Range
    <3>2. i \in DOMAIN u /\ u[i] = x
      BY <1>1, <3>1
    <3> QED
      BY <3>2 DEF Range
  <2>3. ASSUME NEW x \in Range(t) PROVE x \in Range(u)
    <3>1. PICK i \in DOMAIN t : x = t[i]
      BY DEF Range
    <3>2. Len(s) + i \in DOMAIN u /\ u[Len(s) + i] = x
      BY <1>1, <3>1
    <3> QED
      BY <3>2 DEF Range
  <2> QED
    BY <2>1, <2>2, <2>3
<1>4. ASSUME NEW R, Ascends(s, R), Ascends(t, R),
             \A a \in Range(s), b \in Range(t) : <<a, b>> \in R,
             NEW i \in DOMAIN u, NEW j \in DOMAIN u, i < j
      PROVE  <<u[i], u[j]>> \in R
  <2>1. i \in Int /\ j \in Int /\ Len(s) \in Int
    BY <1>1
  <2>2. CASE i \in DOMAIN s /\ j \in DOMAIN s
    BY <1>1, <1>4, <2>2 DEF Ascends
  <2>3. CASE i \in DOMAIN s /\ j - Len(s) \in DOMAIN t /\ u[j] = t[j - Len(s)]
    <3>1. u[i] \in Range(s) /\ u[j] \in Range(t)
      BY <1>1, <2>3 DEF Range
    <3> QED
      BY <1>4, <3>1
  <2>4. CASE /\ i - Len(s) \in DOMAIN t /\ u[i] = t[i - Len(s)]
             /\ j - Len(s) \in DOMAIN t /\ u[j] = t[j - Len(s)]
    <3>1. i - Len(s) < j - Len(s)
      BY <1>4, <2>1
    <3> QED
      BY <1>4, <2>4, <3>1 DEF Ascends
  <2>5. CASE i - Len(s) \in DOMAIN t /\ j \in DOMAIN s
    BY <1>1, <1>4, <2>1, <2>5
  <2> QED
    BY <1>2, <2>2, <2>3, <2>4, <2>5
<1> QED
  BY <1>1, <1>3, <1>4 DEF Ascends, u

(* So have many sequences.                                                 *)
LEMMA FlattenIs ==
  ASSUME NEW X, NEW seqs \in Seq(Seq(X))
  PROVE  /\ FlattenSeq(seqs) \in Seq(X)
         /\ \A a : a \in Range(FlattenSeq(seqs)) <=> \E i \in 1 .. Len(seqs) : a \in Range(seqs[i])
         /\ \A R : /\ \A i \in 1 .. Len(seqs) : Ascends(seqs[i], R)
                   /\ \A i, j \in 1 .. Len(seqs) : i < j =>
                        \A a \in Range(seqs[i]), b \in Range(seqs[j]) : <<a, b>> \in R
                   => Ascends(FlattenSeq(seqs), R)
<1>1. Len(seqs) \in Nat /\ DOMAIN seqs = 1 .. Len(seqs)
  OBVIOUS
<1>2. CASE Len(seqs) = 0
  <2>1. FlattenSeq(seqs) = seqs /\ seqs = <<>> /\ 1 .. Len(seqs) = {}
    BY <1>2 DEF FlattenSeq
  <2> QED
    BY <2>1 DEF Range, Ascends
<1>3. CASE Len(seqs) # 0
  <2> DEFINE flatten == CHOOSE f : f = [i \in 1 .. Len(seqs) |->
                          IF i = 1 THEN seqs[i] ELSE f[i - 1] \o seqs[i]]
             step == [n \in 1 .. Len(seqs) |-> [v \in Seq(X) |-> v \o seqs[n]]]
  <2>1. step \in Steps(Seq(X), Len(seqs)) /\ <<>> \in Seq(X)
    <3>1. \A n \in 1 .. Len(seqs) : seqs[n] \in Seq(X)
      BY <1>1
    <3>2. \A n \in 1 .. Len(seqs) : [v \in Seq(X) |-> v \o seqs[n]] \in [Seq(X) -> Seq(X)]
      BY <3>1
    <3> QED
      BY <3>2 DEF Steps
  <2>s. \A n \in 1 .. Len(seqs), v \in Seq(X) : step[n][v] = v \o seqs[n]
    OBVIOUS
  <2> HIDE DEF step
  <2>2. PICK c : c \in Chains(Seq(X), <<>>, Len(seqs), step)
    BY <1>1, <2>1, ChainExists, Zenon
  <2>3. /\ c \in [0 .. Len(seqs) -> Seq(X)] /\ c[0] = <<>>
        /\ \A n \in 1 .. Len(seqs) : c[n] = step[n][c[n - 1]]
    BY <2>2, Zenon DEF Chains
  <2>4. ASSUME NEW n \in 1 .. Len(seqs) PROVE c[n] = c[n - 1] \o seqs[n] /\ c[n - 1] \in Seq(X)
    <3>1. n - 1 \in 0 .. Len(seqs)
      BY <1>1
    <3>2. c[n - 1] \in Seq(X)
      BY <2>3, <3>1
    <3> QED
      BY <2>3, <2>s, <3>2
  <2> DEFINE f == [i \in 1 .. Len(seqs) |-> c[i]]
  <2>5. f = [i \in 1 .. Len(seqs) |-> IF i = 1 THEN seqs[i] ELSE f[i - 1] \o seqs[i]]
    <3>1. ASSUME NEW i \in 1 .. Len(seqs)
          PROVE  c[i] = IF i = 1 THEN seqs[i] ELSE f[i - 1] \o seqs[i]
      <4>1. CASE i = 1
        <5>1. 1 - 1 = 0 /\ seqs[1] \in Seq(X) /\ <<>> \o seqs[1] = seqs[1]
          BY <1>1, <4>1
        <5>2. c[1] = c[1 - 1] \o seqs[1]
          BY <2>4, <4>1
        <5> QED
          BY <2>3, <4>1, <5>1, <5>2
      <4>2. CASE i # 1
        <5>1. i - 1 \in 1 .. Len(seqs)
          BY <1>1, <4>2
        <5> QED
          BY <2>4, <4>2, <5>1
      <4> QED
        BY <4>1, <4>2
    <3> QED
      BY <3>1
  <2>6. flatten = [i \in 1 .. Len(seqs) |-> IF i = 1 THEN seqs[i] ELSE flatten[i - 1] \o seqs[i]]
    <3> HIDE DEF f
    <3> QED
      BY <2>5, Zenon
  <2>7. FlattenSeq(seqs) = flatten[Len(seqs)]
    BY <1>3, Zenon DEF FlattenSeq
  <2> HIDE DEF flatten
  <2> DEFINE Sorts(R, n) ==
               /\ \A i \in 1 .. n : Ascends(seqs[i], R)
               /\ \A i, j \in 1 .. n : i < j =>
                    \A a \in Range(seqs[i]), b \in Range(seqs[j]) : <<a, b>> \in R
             Flat(n) == /\ flatten[n] \in Seq(X)
                        /\ \A a : a \in Range(flatten[n]) <=> \E i \in 1 .. n : a \in Range(seqs[i])
                        /\ \A R : Sorts(R, n) => Ascends(flatten[n], R)
             T == {n \in 0 .. Len(seqs) : n = 0 \/ Flat(n)}
  <2>8. 0 \in T
    BY <1>1
  <2>9. ASSUME NEW n \in 1 .. Len(seqs), n - 1 \in T PROVE n \in T
    <3>1. n \in 0 .. Len(seqs) /\ seqs[n] \in Seq(X) /\ n \in 1 .. n
      BY <1>1
    <3>2. CASE n = 1
      <4>1. flatten[n] = seqs[n] /\ 1 .. n = {n}
        BY <2>6, <3>2
      <4>2. \A a : a \in Range(seqs[n]) <=> \E i \in 1 .. n : a \in Range(seqs[i])
        BY <4>1
      <4>3. \A R : Sorts(R, n) => Ascends(seqs[n], R)
        BY <3>1
      <4> QED
        BY <3>1, <4>1, <4>2, <4>3
    <3>3. CASE n # 1
      <4>1. /\ flatten[n] = flatten[n - 1] \o seqs[n] /\ Flat(n - 1)
            /\ 1 .. n = (1 .. n - 1) \cup {n} /\ \A i \in 1 .. n - 1 : i < n
        <5>1. flatten[n] = flatten[n - 1] \o seqs[n]
          BY <2>6, <3>3
        <5>2. n - 1 # 0
          BY <1>1, <3>3
        <5>3. Flat(n - 1)
          <6> HIDE DEF Flat
          <6> QED
            BY <2>9, <5>2
        <5>4. 1 .. n = (1 .. n - 1) \cup {n} /\ \A i \in 1 .. n - 1 : i < n
          BY <1>1
        <5> HIDE DEF Flat
        <5> QED
          BY <5>1, <5>3, <5>4
      <4>2. flatten[n] \in Seq(X) /\ Range(flatten[n]) = Range(flatten[n - 1]) \cup Range(seqs[n])
        BY <3>1, <4>1, JoinIs
      <4>3. \A a : a \in Range(flatten[n]) <=> \E i \in 1 .. n : a \in Range(seqs[i])
        <5>1. \A a : a \in Range(flatten[n - 1]) <=> \E i \in 1 .. n - 1 : a \in Range(seqs[i])
          BY <4>1
        <5> DEFINE below == 1 .. n - 1
        <5>2. 1 .. n = below \cup {n}
          BY <4>1
        <5> HIDE DEF below
        <5> QED
          BY <4>2, <5>1, <5>2 DEF below
      <4>4. ASSUME NEW R, Sorts(R, n) PROVE Ascends(flatten[n], R)
        <5>1. Sorts(R, n - 1) /\ Ascends(seqs[n], R)
          BY <3>1, <4>1, <4>4
        <5>2. Ascends(flatten[n - 1], R)
          BY <4>1, <5>1
        <5>3. \A a \in Range(flatten[n - 1]), b \in Range(seqs[n]) : <<a, b>> \in R
          <6> SUFFICES ASSUME NEW a \in Range(flatten[n - 1]), NEW b \in Range(seqs[n])
                       PROVE  <<a, b>> \in R
            OBVIOUS
          <6>1. PICK i \in 1 .. n - 1 : a \in Range(seqs[i])
            BY <4>1
          <6>2. i \in 1 .. n /\ n \in 1 .. n /\ i < n
            BY <3>1, <4>1
          <6> QED
            BY <4>4, <6>1, <6>2
        <5>4. flatten[n - 1] \in Seq(X) /\ seqs[n] \in Seq(X) /\ Ascends(seqs[n], R)
          BY <3>1, <4>1, <5>1
        <5> HIDE DEF Sorts, Flat, flatten
        <5> DEFINE s == flatten[n - 1]
                   t == seqs[n]
        <5>5. s \in Seq(X) /\ t \in Seq(X) /\ Ascends(s, R) /\ Ascends(t, R)
              /\ \A a \in Range(s), b \in Range(t) : <<a, b>> \in R
          BY <5>2, <5>3, <5>4
        <5>6. flatten[n] = s \o t
          BY <4>1
        <5> HIDE DEF s, t
        <5>7. Ascends(s \o t, R)
          BY <5>5, JoinIs
        <5> QED
          BY <5>6, <5>7
      <4> HIDE DEF Sorts
      <4> QED
        BY <3>1, <4>1, <4>2, <4>3, <4>4
    <3> QED
      BY <3>2, <3>3
  <2>10. Len(seqs) \in T
    <3> HIDE DEF T
    <3>1. 0 .. Len(seqs) \subseteq T
      BY <1>1, <2>8, <2>9, Upwards
    <3> QED
      BY <1>1, <3>1
  <2> QED
    BY <1>3, <2>7, <2>10
<1> QED
  BY <1>2, <1>3

-----------------------------------------------------------------------------
(* Paragraphs as the parsers hand them over.                               *)

FlatParagraphs == [place : Places, sentences : LineTexts \ {<<>>}]

(* A row that is not empty has a size.                                     *)
LEMMA JoinedSizeIsPositive ==
  ASSUME NEW sizes \in Seq(Nat \ {0}), sizes # <<>>
  PROVE  JoinedSize(sizes) - 1 \in Nat \ {0}
<1>1. Len(sizes) \in Nat \ {0} /\ 0 \in 0 .. Len(sizes) /\ Len(sizes) \in 0 .. Len(sizes) /\ 0 < Len(sizes)
  OBVIOUS
<1>2. sizes \in Seq(Int)
  OBVIOUS
<1>3. /\ Offsets(sizes)[0] = 0 /\ JoinedSize(sizes) = Offsets(sizes)[Len(sizes)]
      /\ Offsets(sizes)[Len(sizes)] \in Int
  BY <1>1, <1>2, OffsetsAdd
<1>4. Offsets(sizes)[0] + 2 <= Offsets(sizes)[Len(sizes)]
  BY <1>1, OffsetsGrow
<1> QED
  BY <1>3, <1>4

(* A paragraph whose sentences and words lie as they should in its text:   *)
(* in order, every word in a sentence, and no spaces at any end.           *)
IsSpread(laid) ==
  /\ laid \in Paragraphs
  /\ \A unit \in {laid.whole} \cup Range(laid.sentences) \cup Range(laid.words) :
       /\ unit = Unit(laid.whole.place, unit.from, unit.size) /\ unit.size \in Nat \ {0}
       /\ laid.whole.from <= unit.from /\ unit.to <= laid.whole.to
       /\ \E word \in Range(laid.words) : word.from = unit.from
       /\ \E word \in Range(laid.words) : word.to = unit.to
  /\ InOrder(laid.sentences) /\ InOrder(laid.words)
  /\ \A word \in Range(laid.words) :
       \E sentence \in Range(laid.sentences) : sentence.from <= word.from /\ word.to <= sentence.to

(* Two units of text, the first one before the other.                      *)
Follow == {pair \in Units \X Units : pair[1].to < pair[2].from}

(* The parts of a text unit, and the text unit.                            *)
LEMMA UnitFacts ==
  ASSUME NEW place \in Places, NEW from \in Int, NEW size \in Nat \ {0}
  PROVE  /\ Unit(place, from, size) \in Units
         /\ Unit(place, from, size).place = place /\ Unit(place, from, size).from = from
         /\ Unit(place, from, size).to = from + size - 1 /\ Unit(place, from, size).size = size
         /\ Unit(place, from, size).to \in Int /\ from <= Unit(place, from, size).to
<1>1. from + size - 1 \in Int /\ from <= from + size - 1
  OBVIOUS
<1> QED
  BY <1>1 DEF Unit, Units

(* The sentences of a paragraph, and the words of each of them.            *)
LiesAs(laid, from, paragraph, row, words) ==
  /\ row \in Seq(Units) /\ Len(row) = Len(paragraph.sentences) /\ InOrder(row)
  /\ words \in Seq(Seq(Units)) /\ Len(words) = Len(row)
  /\ laid = [whole |-> Unit(paragraph.place, from, ParagraphSize(paragraph)),
             sentences |-> row, words |-> FlattenSeq(words)]
  /\ ParagraphSize(paragraph) \in Nat \ {0} /\ Len(row) \in Nat \ {0}
  /\ row[1].from = from /\ row[Len(row)].to = from + ParagraphSize(paragraph) - 1
  /\ \A i \in 1 .. Len(row) :
       /\ row[i] = Unit(paragraph.place, row[i].from, row[i].size)
       /\ row[i].size \in Nat \ {0}
       /\ from <= row[i].from /\ row[i].to <= from + ParagraphSize(paragraph) - 1
       /\ words[i] \in Seq(Units) /\ InOrder(words[i]) /\ Len(words[i]) \in Nat \ {0}
       /\ words[i][1].from = row[i].from /\ words[i][Len(words[i])].to = row[i].to
       /\ \A n \in 1 .. Len(words[i]) :
            /\ words[i][n] = Unit(paragraph.place, words[i][n].from, words[i][n].size)
            /\ words[i][n].size \in Nat \ {0}
            /\ row[i].from <= words[i][n].from /\ words[i][n].to <= row[i].to

LEMMA SentenceFacts ==
  ASSUME NEW from \in Int, NEW paragraph \in FlatParagraphs,
         NEW laid, laid = LaidOutFrom(from, paragraph)
  PROVE  \E row, words : LiesAs(laid, from, paragraph, row, words)
<1> DEFINE S == paragraph.sentences
           sizes == SentenceSizes(paragraph)
           row == Row(paragraph.place, from, sizes)
           words == [i \in DOMAIN row |-> Row(paragraph.place, row[i].from, S[i])]
<1>1. /\ paragraph.place \in Places /\ S \in Seq(Seq(Nat \ {0}) \ {<<>>}) /\ S # <<>>
      /\ Len(S) \in Nat \ {0} /\ DOMAIN S = 1 .. Len(S)
      /\ \A i \in 1 .. Len(S) : S[i] \in Seq(Nat \ {0}) /\ S[i] # <<>>
  BY DEF FlatParagraphs, LineTexts
<1>2. \A i \in 1 .. Len(S) : JoinedSize(S[i]) - 1 \in Nat \ {0}
  BY <1>1, JoinedSizeIsPositive
<1>3. /\ sizes \in Seq(Nat \ {0}) /\ Len(sizes) = Len(S) /\ sizes # <<>>
      /\ \A i \in 1 .. Len(S) : sizes[i] = JoinedSize(S[i]) - 1
  <2>1. sizes = [i \in 1 .. Len(S) |-> JoinedSize(S[i]) - 1]
    BY <1>1 DEF SentenceSizes
  <2>2. sizes \in [1 .. Len(S) -> Nat \ {0}] /\ \A i \in 1 .. Len(S) : sizes[i] = JoinedSize(S[i]) - 1
    <3> HIDE DEF sizes, S
    <3> QED
      BY <1>2, <2>1
  <2> DEFINE k == Len(S)
  <2>3. k \in Nat \ {0}
    BY <1>1
  <2> HIDE DEF sizes, S, k
  <2>4. sizes \in Seq(Nat \ {0}) /\ Len(sizes) = k /\ sizes # <<>>
    <3>1. sizes \in [1 .. k -> Nat \ {0}]
      BY <2>2 DEF k
    <3> QED
      BY <2>3, <3>1
  <2> QED
    BY <2>2, <2>4 DEF k
<1>4. ParagraphSize(paragraph) \in Nat \ {0} /\ ParagraphSize(paragraph) = JoinedSize(sizes) - 1
      /\ JoinedSize(sizes) \in Int
  <2>1. JoinedSize(sizes) - 1 \in Nat \ {0}
    <3> HIDE DEF sizes
    <3> QED
      BY <1>3, JoinedSizeIsPositive
  <2>2. JoinedSize(sizes) \in Int
    <3> HIDE DEF sizes
    <3>1. sizes \in Seq(Int) /\ Len(sizes) \in 0 .. Len(sizes)
      BY <1>3
    <3> QED
      BY <3>1, OffsetsAdd
  <2> QED
    BY <2>1, <2>2 DEF ParagraphSize
<1> HIDE DEF sizes
<1>5. /\ row \in Seq(Units) /\ Len(row) = Len(S) /\ InOrder(row)
      /\ \A i \in 1 .. Len(S) :
           /\ row[i] = Unit(paragraph.place, row[i].from, sizes[i])
           /\ row[i].place = paragraph.place /\ row[i].size = sizes[i]
           /\ row[i].from \in Int /\ row[i].to \in Int
           /\ row[i].to = row[i].from + sizes[i] - 1
           /\ from <= row[i].from /\ row[i].to <= from + JoinedSize(sizes) - 2
      /\ row[1].from = from /\ row[Len(S)].to = from + JoinedSize(sizes) - 2
  <2>1. row = Row(paragraph.place, from, sizes)
    OBVIOUS
  <2> HIDE DEF S, row
  <2>2. /\ row \in Seq(Units) /\ Len(row) = Len(sizes) /\ InOrder(row)
        /\ \A i \in 1 .. Len(sizes) :
             /\ row[i] = Unit(paragraph.place, row[i].from, sizes[i])
             /\ row[i].place = paragraph.place /\ row[i].size = sizes[i]
             /\ row[i].from \in Int /\ row[i].to \in Int /\ row[i].from <= row[i].to
             /\ row[i].to = row[i].from + sizes[i] - 1
             /\ from <= row[i].from /\ row[i].to <= from + JoinedSize(sizes) - 2
        /\ sizes # <<>> =>
             row[1].from = from /\ row[Len(sizes)].to = from + JoinedSize(sizes) - 2
    <3>1. sizes \in Seq(Nat \ {0}) /\ paragraph.place \in Places
      BY <1>1, <1>3
    <3>2. RowLies(row, paragraph.place, from, sizes)
      BY <2>1, <3>1, RowFacts
    <3> QED
      BY <3>2, Zenon DEF RowLies
  <2> QED
    BY <1>3, <2>2
<1> HIDE DEF row
<1>6. from + JoinedSize(sizes) - 2 = from + ParagraphSize(paragraph) - 1
  BY <1>4
<1>7. DOMAIN row = 1 .. Len(S)
  BY <1>5
<1>8. ASSUME NEW i \in 1 .. Len(S)
      PROVE  /\ words[i] \in Seq(Units) /\ InOrder(words[i]) /\ Len(words[i]) \in Nat \ {0}
             /\ words[i][1].from = row[i].from /\ words[i][Len(words[i])].to = row[i].to
             /\ \A n \in 1 .. Len(words[i]) :
                  /\ words[i][n] = Unit(paragraph.place, words[i][n].from, words[i][n].size)
                  /\ words[i][n].size \in Nat \ {0}
                  /\ row[i].from <= words[i][n].from /\ words[i][n].to <= row[i].to
  <2> DEFINE w == Row(paragraph.place, row[i].from, S[i])
             t == S[i]
  <2>1. words[i] = w
    BY <1>7
  <2>2. t \in Seq(Nat \ {0}) /\ t # <<>> /\ row[i].from \in Int
    BY <1>1, <1>5
  <2>3. row[i].to = row[i].from + JoinedSize(t) - 2
    <3>1. row[i].to = row[i].from + sizes[i] - 1 /\ sizes[i] = JoinedSize(t) - 1
          /\ row[i].from \in Int
      BY <1>3, <1>5
    <3>2. JoinedSize(t) - 1 \in Nat
      BY <1>2
    <3>3. JoinedSize(t) \in Int
      <4> HIDE DEF t
      <4>1. t \in Seq(Int) /\ Len(t) \in 0 .. Len(t)
        BY <2>2
      <4> QED
        BY <4>1, OffsetsAdd
    <3> HIDE DEF t
    <3> QED
      BY <3>1, <3>3
  <2>4. /\ w \in Seq(Units) /\ Len(w) = Len(t) /\ InOrder(w)
        /\ \A n \in 1 .. Len(t) :
             /\ w[n] = Unit(paragraph.place, w[n].from, t[n]) /\ w[n].size = t[n]
             /\ row[i].from <= w[n].from /\ w[n].to <= row[i].from + JoinedSize(t) - 2
        /\ w[1].from = row[i].from /\ w[Len(t)].to = row[i].from + JoinedSize(t) - 2
    <3>1. w = Row(paragraph.place, row[i].from, t)
      OBVIOUS
    <3> DEFINE start == row[i].from
    <3>2. w = Row(paragraph.place, start, t) /\ start \in Int /\ t \in Seq(Nat \ {0})
          /\ paragraph.place \in Places
      BY <1>1, <2>2, <3>1
    <3> HIDE DEF w, t, start
    <3>3. RowLies(w, paragraph.place, start, t)
      BY <3>2, RowFacts
    <3>4. /\ w \in Seq(Units) /\ Len(w) = Len(t) /\ InOrder(w)
          /\ \A n \in 1 .. Len(t) :
               /\ w[n] = Unit(paragraph.place, w[n].from, t[n])
               /\ w[n].place = paragraph.place /\ w[n].size = t[n]
               /\ w[n].from \in Int /\ w[n].to \in Int /\ w[n].from <= w[n].to
               /\ w[n].to = w[n].from + t[n] - 1
               /\ start <= w[n].from /\ w[n].to <= start + JoinedSize(t) - 2
          /\ t # <<>> =>
               w[1].from = start /\ w[Len(t)].to = start + JoinedSize(t) - 2
      BY <3>3, Zenon DEF RowLies
    <3> QED
      BY <2>2, <3>4 DEF start
  <2>5. Len(t) \in Nat \ {0} /\ \A n \in 1 .. Len(t) : t[n] \in Nat \ {0}
    <3> HIDE DEF t
    <3> QED
      BY <2>2
  <2> HIDE DEF w, t, words
  <2> QED
    BY <2>1, <2>3, <2>4, <2>5
<1>9. words \in Seq(Seq(Units)) /\ Len(words) = Len(row)
  <2>1. words \in [1 .. Len(S) -> Seq(Units)]
    <3>1. DOMAIN words = 1 .. Len(S) /\ words = [i \in 1 .. Len(S) |-> words[i]]
      BY <1>7
    <3> HIDE DEF words
    <3> QED
      BY <1>8, <3>1
  <2> DEFINE k == Len(S)
  <2>2. k \in Nat /\ Len(row) = k /\ words \in [1 .. k -> Seq(Units)]
    BY <1>1, <1>5, <2>1
  <2> HIDE DEF words, S, k
  <2> QED
    BY <2>2
<1>10. laid = [whole |-> Unit(paragraph.place, from, ParagraphSize(paragraph)),
               sentences |-> row, words |-> FlattenSeq(words)]
  BY DEF LaidOutFrom, row, sizes
<1> HIDE DEF words, S
<1>11. /\ row[1].from = from /\ row[Len(row)].to = from + ParagraphSize(paragraph) - 1
       /\ \A i \in 1 .. Len(row) :
            /\ row[i] = Unit(paragraph.place, row[i].from, row[i].size)
            /\ row[i].size \in Nat \ {0}
            /\ from <= row[i].from /\ row[i].to <= from + ParagraphSize(paragraph) - 1
  <2>1. \A i \in 1 .. Len(S) : sizes[i] \in Nat \ {0}
    BY <1>3
  <2> QED
    BY <1>5, <1>6, <2>1
<1>12. Len(row) = Len(paragraph.sentences) /\ Len(row) \in Nat \ {0}
  BY <1>1, <1>5 DEF S
<1>13. \A i \in 1 .. Len(row) :
         /\ words[i] \in Seq(Units) /\ InOrder(words[i]) /\ Len(words[i]) \in Nat \ {0}
         /\ words[i][1].from = row[i].from /\ words[i][Len(words[i])].to = row[i].to
         /\ \A n \in 1 .. Len(words[i]) :
              /\ words[i][n] = Unit(paragraph.place, words[i][n].from, words[i][n].size)
              /\ words[i][n].size \in Nat \ {0}
              /\ row[i].from <= words[i][n].from /\ words[i][n].to <= row[i].to
  BY <1>5, <1>8
<1> WITNESS row, words
<1>14. row \in Seq(Units) /\ InOrder(row)
  BY <1>5
<1> QED
  BY <1>4, <1>9, <1>10, <1>11, <1>12, <1>13, <1>14 DEF LiesAs

(* Laid out from anywhere, a paragraph is spread as it should be.          *)
LEMMA ParagraphIsSpread ==
  ASSUME NEW from \in Int, NEW paragraph \in FlatParagraphs,
         NEW laid, laid = LaidOutFrom(from, paragraph)
  PROVE  /\ IsSpread(laid) /\ laid.whole = Unit(paragraph.place, from, ParagraphSize(paragraph))
         /\ ParagraphSize(paragraph) \in Nat \ {0}
<1>0. PICK row, words : LiesAs(laid, from, paragraph, row, words)
  BY SentenceFacts
<1>1. /\ row \in Seq(Units) /\ Len(row) = Len(paragraph.sentences) /\ InOrder(row)
      /\ words \in Seq(Seq(Units)) /\ Len(words) = Len(row)
      /\ laid = [whole |-> Unit(paragraph.place, from, ParagraphSize(paragraph)),
                 sentences |-> row, words |-> FlattenSeq(words)]
      /\ ParagraphSize(paragraph) \in Nat \ {0} /\ Len(row) \in Nat \ {0}
      /\ row[1].from = from /\ row[Len(row)].to = from + ParagraphSize(paragraph) - 1
      /\ \A i \in 1 .. Len(row) :
           /\ row[i] = Unit(paragraph.place, row[i].from, row[i].size)
           /\ row[i].size \in Nat \ {0}
           /\ from <= row[i].from /\ row[i].to <= from + ParagraphSize(paragraph) - 1
           /\ words[i] \in Seq(Units) /\ InOrder(words[i]) /\ Len(words[i]) \in Nat \ {0}
           /\ words[i][1].from = row[i].from /\ words[i][Len(words[i])].to = row[i].to
           /\ \A n \in 1 .. Len(words[i]) :
                /\ words[i][n] = Unit(paragraph.place, words[i][n].from, words[i][n].size)
                /\ words[i][n].size \in Nat \ {0}
                /\ row[i].from <= words[i][n].from /\ words[i][n].to <= row[i].to
  BY <1>0, Zenon DEF LiesAs
<1> DEFINE flat == FlattenSeq(words)
           last == from + ParagraphSize(paragraph) - 1
<1>2. DOMAIN row = 1 .. Len(row) /\ \A i \in 1 .. Len(row) : row[i] \in Units /\ DOMAIN words[i] = 1 .. Len(words[i])
      /\ \A n \in 1 .. Len(words[i]) : words[i][n] \in Units
  BY <1>1
<1>3. \A unit \in Units : unit.from \in Int /\ unit.to \in Int /\ unit.size \in Int
  BY DEF Units
<1>4. /\ flat \in Seq(Units)
      /\ \A word : word \in Range(flat) <=>
           \E i \in 1 .. Len(row) : \E n \in 1 .. Len(words[i]) : word = words[i][n]
      /\ InOrder(flat)
  <2>1. /\ flat \in Seq(Units)
        /\ \A word : word \in Range(flat) <=> \E i \in 1 .. Len(words) : word \in Range(words[i])
        /\ (/\ \A i \in 1 .. Len(words) : Ascends(words[i], Follow)
            /\ \A i, j \in 1 .. Len(words) : i < j =>
                 \A a \in Range(words[i]), b \in Range(words[j]) : <<a, b>> \in Follow)
           => Ascends(flat, Follow)
    BY <1>1, FlattenIs
  <2>2. ASSUME NEW i \in 1 .. Len(row) PROVE Ascends(words[i], Follow)
    <3> SUFFICES ASSUME NEW m \in DOMAIN words[i], NEW n \in DOMAIN words[i], m < n
                 PROVE  <<words[i][m], words[i][n]>> \in Follow
      BY DEF Ascends
    <3>1. words[i][m] \in Units /\ words[i][n] \in Units /\ words[i][m].to < words[i][n].from
      BY <1>1, <1>2 DEF InOrder
    <3> QED
      BY <3>1 DEF Follow
  <2>3. ASSUME NEW i \in 1 .. Len(row), NEW j \in 1 .. Len(row), i < j,
               NEW a \in Range(words[i]), NEW b \in Range(words[j])
        PROVE  <<a, b>> \in Follow
    <3>1. a \in Units /\ a.to <= row[i].to
      <4>1. PICK n \in 1 .. Len(words[i]) : a = words[i][n]
        BY <1>2 DEF Range
      <4> QED
        BY <1>1, <1>2, <4>1
    <3>2. b \in Units /\ row[j].from <= b.from
      <4>1. PICK n \in 1 .. Len(words[j]) : b = words[j][n]
        BY <1>2 DEF Range
      <4> QED
        BY <1>1, <1>2, <4>1
    <3>3. row[i].to < row[j].from
      BY <1>1, <1>2, <2>3 DEF InOrder
    <3>4. a.to < b.from
      BY <1>2, <1>3, <3>1, <3>2, <3>3
    <3> QED
      BY <3>1, <3>2, <3>4 DEF Follow
  <2>4. Ascends(flat, Follow)
    BY <1>1, <2>1, <2>2, <2>3
  <2>5. InOrder(flat)
    BY <2>4 DEF Ascends, InOrder, Follow
  <2>6. \A i \in 1 .. Len(row) : \A word :
          word \in Range(words[i]) <=> \E n \in 1 .. Len(words[i]) : word = words[i][n]
    BY <1>2 DEF Range
  <2>7. Len(words) = Len(row)
    BY <1>1
  <2>8. \A word : word \in Range(flat) <=>
          \E i \in 1 .. Len(row) : \E n \in 1 .. Len(words[i]) : word = words[i][n]
    <3>0. \A word : word \in Range(flat) <=> \E i \in 1 .. Len(words) : word \in Range(words[i])
      BY <2>1, Zenon
    <3>1. \A word : word \in Range(flat) <=> \E i \in 1 .. Len(row) : word \in Range(words[i])
      BY <2>7, <3>0
    <3>2. ASSUME NEW word \in Range(flat)
          PROVE  \E i \in 1 .. Len(row) : \E n \in 1 .. Len(words[i]) : word = words[i][n]
      <4>1. PICK i \in 1 .. Len(row) : word \in Range(words[i])
        BY <3>1
      <4>2. PICK n \in 1 .. Len(words[i]) : word = words[i][n]
        BY <2>6, <4>1
      <4> QED
        BY <4>2
    <3>3. ASSUME NEW word, NEW i \in 1 .. Len(row), NEW n \in 1 .. Len(words[i]), word = words[i][n]
          PROVE  word \in Range(flat)
      BY <2>6, <3>1, <3>3
    <3> QED
      BY <3>2, <3>3
  <2> QED
    BY <2>1, <2>5, <2>8
<1> HIDE DEF flat
<1>5. /\ laid.whole = Unit(paragraph.place, from, ParagraphSize(paragraph))
      /\ laid.sentences = row /\ laid.words = flat
      /\ laid = [whole |-> laid.whole, sentences |-> row, words |-> flat]
  BY <1>1 DEF flat
<1>6. /\ laid.whole \in Units /\ laid.whole.place = paragraph.place /\ laid.whole.from = from
      /\ laid.whole.size = ParagraphSize(paragraph) /\ laid.whole.to = last
      /\ last \in Int /\ from <= last
  <2>1. paragraph.place \in Places
    BY DEF FlatParagraphs
  <2> QED
    BY <1>1, <1>5, <2>1, UnitFacts
<1> HIDE DEF last
<1>7. laid \in Paragraphs
  <2> DEFINE whole == laid.whole
  <2>1. whole \in Units /\ laid = [whole |-> whole, sentences |-> row, words |-> flat]
    BY <1>5, <1>6, Zenon
  <2>2. row \in Seq(Units) /\ flat \in Seq(Units)
    BY <1>1, <1>4
  <2> HIDE DEF whole
  <2>3. [whole |-> whole, sentences |-> row, words |-> flat] \in Paragraphs
    BY <2>1, <2>2 DEF Paragraphs
  <2> QED
    BY <2>1, <2>3, Zenon
<1>8. ASSUME NEW i \in 1 .. Len(row)
      PROVE  /\ \E word \in Range(flat) : word.from = row[i].from
             /\ \E word \in Range(flat) : word.to = row[i].to
  <2>1. 1 \in 1 .. Len(words[i]) /\ Len(words[i]) \in 1 .. Len(words[i])
    <3>1. Len(words[i]) \in Nat \ {0}
      BY <1>1, Zenon
    <3> QED
      BY <3>1
  <2>2. words[i][1] \in Range(flat) /\ words[i][Len(words[i])] \in Range(flat)
    BY <1>4, <2>1
  <2> QED
    BY <1>1, <2>2
<1>9. ASSUME NEW unit \in {laid.whole} \cup Range(row) \cup Range(flat)
      PROVE  /\ unit = Unit(laid.whole.place, unit.from, unit.size) /\ unit.size \in Nat \ {0}
             /\ laid.whole.from <= unit.from /\ unit.to <= laid.whole.to
             /\ \E word \in Range(flat) : word.from = unit.from
             /\ \E word \in Range(flat) : word.to = unit.to
  <2>1. CASE unit = laid.whole
    <3>1. 1 \in 1 .. Len(row) /\ Len(row) \in 1 .. Len(row)
      BY <1>1
    <3>2. row[1].from = unit.from /\ row[Len(row)].to = unit.to
      BY <1>1, <1>6, <2>1 DEF last
    <3>3. /\ \E word \in Range(flat) : word.from = unit.from
          /\ \E word \in Range(flat) : word.to = unit.to
      BY <1>8, <3>1, <3>2
    <3>4. unit.size \in Nat \ {0} /\ unit = Unit(laid.whole.place, unit.from, unit.size)
      BY <1>1, <1>5, <1>6, <2>1
    <3> QED
      BY <1>3, <1>6, <2>1, <3>3, <3>4
  <2>2. CASE unit \in Range(row)
    <3>1. PICK i \in 1 .. Len(row) : unit = row[i]
      BY <1>2, <2>2 DEF Range
    <3>2. unit = Unit(laid.whole.place, unit.from, unit.size) /\ unit.size \in Nat \ {0}
      BY <1>1, <1>6, <3>1
    <3>3. laid.whole.from <= unit.from /\ unit.to <= laid.whole.to
      BY <1>1, <1>6, <3>1 DEF last
    <3> QED
      BY <1>8, <3>1, <3>2, <3>3
  <2>3. CASE unit \in Range(flat)
    <3>1. PICK i \in 1 .. Len(row) : \E n \in 1 .. Len(words[i]) : unit = words[i][n]
      BY <1>4, <2>3
    <3>2. PICK n \in 1 .. Len(words[i]) : unit = words[i][n]
      BY <3>1
    <3>3. unit = Unit(laid.whole.place, unit.from, unit.size) /\ unit.size \in Nat \ {0}
      BY <1>1, <1>6, <3>2
    <3>4. /\ row[i].from <= unit.from /\ unit.to <= row[i].to
          /\ from <= row[i].from /\ row[i].to <= last
      BY <1>1, <3>2 DEF last
    <3>5. laid.whole.from <= unit.from /\ unit.to <= laid.whole.to
      BY <1>2, <1>3, <1>6, <3>2, <3>4
    <3> QED
      BY <2>3, <3>3, <3>5
  <2> QED
    BY <2>1, <2>2, <2>3
<1>10. ASSUME NEW word \in Range(flat)
       PROVE  \E sentence \in Range(row) : sentence.from <= word.from /\ word.to <= sentence.to
  <2>1. PICK i \in 1 .. Len(row) : \E n \in 1 .. Len(words[i]) : word = words[i][n]
    BY <1>4
  <2>2. row[i] \in Range(row)
    BY <1>2 DEF Range
  <2> QED
    BY <1>1, <2>1, <2>2
<1>11. IsSpread(laid)
  <2>1. InOrder(laid.sentences) /\ InOrder(laid.words)
    BY <1>1, <1>4, <1>5
  <2>2. \A word \in Range(laid.words) :
          \E sentence \in Range(laid.sentences) : sentence.from <= word.from /\ word.to <= sentence.to
    BY <1>5, <1>10
  <2>3. \A unit \in {laid.whole} \cup Range(laid.sentences) \cup Range(laid.words) :
          /\ unit = Unit(laid.whole.place, unit.from, unit.size) /\ unit.size \in Nat \ {0}
          /\ laid.whole.from <= unit.from /\ unit.to <= laid.whole.to
          /\ \E word \in Range(laid.words) : word.from = unit.from
          /\ \E word \in Range(laid.words) : word.to = unit.to
    BY <1>5, <1>9
  <2> QED
    BY <1>7, <2>1, <2>2, <2>3 DEF IsSpread
<1> QED
  BY <1>1, <1>5, <1>11

(* Spread paragraphs one behind the other are laid out.                    *)
LEMMA SpreadIsLaidOut ==
  ASSUME NEW document \in Seq(Paragraphs), \A paragraph \in Range(document) : IsSpread(paragraph),
         InOrder([i \in DOMAIN document |-> document[i].whole])
  PROVE  IsLaidOut(document)
<1>1. \A unit \in Units : unit.from \in Int /\ unit.to \in Int /\ unit.size \in Int
  BY DEF Units
<1>2. ASSUME NEW paragraph \in Range(document)
      PROVE  /\ paragraph.whole \in Units
             /\ paragraph.sentences \in Seq(Units) /\ Range(paragraph.sentences) \subseteq Units
             /\ paragraph.words \in Seq(Units) /\ Range(paragraph.words) \subseteq Units
  <2>1. paragraph \in Paragraphs
    BY DEF Range
  <2>2. /\ paragraph.whole \in Units
        /\ paragraph.sentences \in Seq(Units) /\ paragraph.words \in Seq(Units)
    BY <2>1 DEF Paragraphs
  <2> QED
    BY <2>2 DEF Range
<1>3. ASSUME NEW paragraph \in Range(document),
             NEW unit \in {paragraph.whole} \cup Range(paragraph.sentences) \cup Range(paragraph.words)
      PROVE  /\ IsTextUnit(document, unit) /\ unit.place = paragraph.whole.place
             /\ paragraph.whole.from <= unit.from /\ unit.to <= paragraph.whole.to
  <2>1. /\ unit = Unit(paragraph.whole.place, unit.from, unit.size) /\ unit.size \in Nat \ {0}
        /\ paragraph.whole.from <= unit.from /\ unit.to <= paragraph.whole.to
        /\ \E word \in Range(paragraph.words) : word.from = unit.from
        /\ \E word \in Range(paragraph.words) : word.to = unit.to
    BY <1>3 DEF IsSpread
  <2>2. unit.place = paragraph.whole.place
    BY <2>1 DEF Unit
  <2>3. ASSUME NEW word \in Range(paragraph.words)
        PROVE  {word.from, word.to} \subseteq LettersOf(document)
    <3>1. word \in Units
      BY <1>2
    <3>2. word = Unit(paragraph.whole.place, word.from, word.size) /\ word.size \in Nat \ {0}
      BY <2>3 DEF IsSpread
    <3>3. word.to = word.from + word.size - 1
      BY <3>2 DEF Unit
    <3>4. word.from \in Positions(word) /\ word.to \in Positions(word)
      BY <1>1, <3>1, <3>2, <3>3 DEF Positions
    <3> QED
      BY <3>4 DEF LettersOf
  <2>4. {unit.from, unit.to} \subseteq LettersOf(document)
    BY <2>1, <2>3
  <2>5. unit = Unit(unit.place, unit.from, unit.size) /\ unit.size > 0
    BY <2>1, <2>2
  <2> QED
    BY <2>1, <2>2, <2>4, <2>5 DEF IsTextUnit
<1>4. ASSUME NEW paragraph \in Range(document), NEW p \in LettersOf(document) \cap Positions(paragraph.whole)
      PROVE  \E word \in Range(paragraph.words) : p \in Positions(word)
  <2>1. PICK other \in Range(document) : \E word \in Range(other.words) : p \in Positions(word)
    BY DEF LettersOf
  <2>2. PICK word \in Range(other.words) : p \in Positions(word)
    BY <2>1
  <2>3. /\ other.whole.from <= word.from /\ word.to <= other.whole.to
        /\ word \in Units /\ other.whole \in Units /\ paragraph.whole \in Units
    BY <1>2, <1>3
  <2>4. p \in Int /\ other.whole.from <= p /\ p <= other.whole.to
        /\ paragraph.whole.from <= p /\ p <= paragraph.whole.to
    BY <1>1, <1>4, <2>2, <2>3 DEF Positions
  <2>5. PICK i \in DOMAIN document, j \in DOMAIN document : paragraph = document[i] /\ other = document[j]
    BY DEF Range
  <2>6. i \in Int /\ j \in Int
    OBVIOUS
  <2>7. \A k, l \in DOMAIN document : k < l => document[k].whole.to < document[l].whole.from
    BY DEF InOrder
  <2>8. ~(i < j) /\ ~(j < i)
    BY <1>1, <2>3, <2>4, <2>5, <2>7
  <2>9. paragraph = other
    BY <2>5, <2>6, <2>8
  <2> QED
    BY <2>2, <2>9
<1>5. ASSUME NEW paragraph \in Range(document)
      PROVE  /\ IsTextUnit(document, paragraph.whole)
             /\ Divides(document, paragraph.sentences, paragraph.whole)
             /\ Divides(document, paragraph.words, paragraph.whole)
  <2>1. InOrder(paragraph.sentences) /\ InOrder(paragraph.words)
        /\ \A word \in Range(paragraph.words) :
             \E sentence \in Range(paragraph.sentences) :
               sentence.from <= word.from /\ word.to <= sentence.to
    BY DEF IsSpread
  <2>2. ASSUME NEW p \in LettersOf(document) \cap Positions(paragraph.whole)
        PROVE  \E sentence \in Range(paragraph.sentences) : p \in Positions(sentence)
    <3>1. PICK word \in Range(paragraph.words) : p \in Positions(word)
      BY <1>4
    <3>2. PICK sentence \in Range(paragraph.sentences) :
            sentence.from <= word.from /\ word.to <= sentence.to
      BY <2>1
    <3>3. word \in Units /\ sentence \in Units
      BY <1>2
    <3>4. p \in Positions(sentence)
      BY <1>1, <3>1, <3>2, <3>3 DEF Positions
    <3> QED
      BY <3>4
  <2> QED
    BY <1>3, <1>4, <2>1, <2>2 DEF Divides
<1> QED
  BY <1>5 DEF IsLaidOut

(* What is laid out is laid out as the chunker needs it.                   *)
THEOREM LaidOutIsLaidOut ==
  ASSUME NEW document \in Seq(FlatParagraphs)
  PROVE  IsLaidOut(LaidOut(document))
<1> DEFINE sizes == [i \in DOMAIN document |-> ParagraphSize(document[i])]
           laid == LaidOut(document)
           d == Offsets(sizes)
           k == Len(document)
<1>1. k \in Nat /\ DOMAIN document = 1 .. k /\ \A i \in 1 .. k : document[i] \in FlatParagraphs
  OBVIOUS
<1>2. \A i \in 1 .. k : ParagraphSize(document[i]) \in Nat \ {0}
  <2> SUFFICES ASSUME NEW i \in 1 .. k PROVE ParagraphSize(document[i]) \in Nat \ {0}
    OBVIOUS
  <2>1. document[i] \in FlatParagraphs /\ 0 \in Int
    BY <1>1
  <2> HIDE DEF k
  <2> QED
    BY <2>1, ParagraphIsSpread
<1>3. sizes \in Seq(Nat \ {0}) /\ Len(sizes) = k /\ \A i \in 1 .. k : sizes[i] = ParagraphSize(document[i])
  <2>1. sizes \in [1 .. k -> Nat \ {0}] /\ \A i \in 1 .. k : sizes[i] = ParagraphSize(document[i])
    BY <1>1, <1>2
  <2> HIDE DEF sizes, k
  <2> QED
    BY <1>1, <2>1
<1>4. laid = [i \in 1 .. k |-> LaidOutFrom(1 + JoinedSize(SubSeq(sizes, 1, i - 1)), document[i])]
  BY <1>1 DEF LaidOut
<1> HIDE DEF sizes, k, laid
<1>5. /\ d \in [0 .. k -> Int] /\ \A n \in 1 .. k : d[n] = d[n - 1] + sizes[n] + 1
      /\ \A i \in 0 .. k, j \in 0 .. k : i < j => d[i] + 2 <= d[j]
      /\ \A n \in 0 .. k : d[n] = JoinedSize(SubSeq(sizes, 1, n))
  <2>1. sizes \in Seq(Int)
    BY <1>3
  <2>2. /\ d \in [0 .. Len(sizes) -> Int]
        /\ \A n \in 1 .. Len(sizes) : d[n] = d[n - 1] + sizes[n] + 1
    BY <2>1, OffsetsAdd
  <2>3. \A i \in 0 .. Len(sizes), j \in 0 .. Len(sizes) : i < j => d[i] + 2 <= d[j]
    BY <1>3, OffsetsGrow
  <2>4. \A n \in 0 .. Len(sizes) : d[n] = JoinedSize(SubSeq(sizes, 1, n))
    BY DEF Offsets
  <2> HIDE DEF d
  <2> QED
    BY <1>3, <2>2, <2>3, <2>4
<1> HIDE DEF d
<1>6. ASSUME NEW i \in 1 .. k
      PROVE  /\ IsSpread(laid[i]) /\ laid[i] \in Paragraphs
             /\ laid[i].whole.from = 1 + d[i - 1] /\ laid[i].whole.to = d[i] - 1
             /\ d[i] \in Int /\ d[i - 1] \in Int
  <2>1. i - 1 \in 0 .. k /\ i \in 0 .. k /\ document[i] \in FlatParagraphs
    BY <1>1
  <2>8. d[i] \in Int /\ d[i - 1] \in Int
    BY <1>5, <2>1
  <2>9. d[i] = d[i - 1] + sizes[i] + 1
    BY <1>5
  <2>10. sizes[i] = ParagraphSize(document[i])
    BY <1>3
  <2>2. d[i] \in Int /\ d[i - 1] \in Int /\ 1 + d[i - 1] \in Int
        /\ d[i] = d[i - 1] + sizes[i] + 1 /\ sizes[i] = ParagraphSize(document[i])
    BY <2>8, <2>9, <2>10
  <2>3. laid[i] = LaidOutFrom(1 + d[i - 1], document[i])
    BY <1>4, <1>5, <2>1
  <2>4. /\ IsSpread(laid[i])
        /\ laid[i].whole = Unit(document[i].place, 1 + d[i - 1], ParagraphSize(document[i]))
        /\ ParagraphSize(document[i]) \in Nat \ {0}
    BY <2>1, <2>2, <2>3, ParagraphIsSpread
  <2>5. document[i].place \in Places
    BY <2>1 DEF FlatParagraphs
  <2>6. /\ laid[i].whole.from = 1 + d[i - 1]
        /\ laid[i].whole.to = 1 + d[i - 1] + ParagraphSize(document[i]) - 1
    BY <2>2, <2>4, <2>5, UnitFacts
  <2>7. laid[i].whole.to = d[i] - 1
    <3> DEFINE size == ParagraphSize(document[i])
               before == d[i - 1]
               after == d[i]
    <3>1. before \in Int /\ size \in Nat /\ after = before + size + 1
          /\ laid[i].whole.to = 1 + before + size - 1
      BY <2>2, <2>4, <2>6
    <3> HIDE DEF size, before, after
    <3>2. laid[i].whole.to = after - 1
      BY <3>1
    <3> QED
      BY <3>2 DEF after
  <2> QED
    BY <2>2, <2>4, <2>6, <2>7 DEF IsSpread
<1>7. laid \in Seq(Paragraphs) /\ DOMAIN laid = 1 .. k
  <2>1. laid \in [1 .. k -> Paragraphs]
    BY <1>4, <1>6
  <2> QED
    BY <1>1, <2>1
<1>8. InOrder([i \in DOMAIN laid |-> laid[i].whole])
  <2> SUFFICES ASSUME NEW i \in 1 .. k, NEW j \in 1 .. k, i < j
               PROVE  laid[i].whole.to < laid[j].whole.from
    BY <1>7 DEF InOrder
  <2>1. i \in 0 .. k /\ j - 1 \in 0 .. k /\ (i = j - 1 \/ i < j - 1)
    BY <1>1
  <2>2. d[i] \in Int /\ d[j - 1] \in Int
    BY <1>6
  <2>3. d[i] <= d[j - 1]
    BY <1>5, <2>1, <2>2
  <2>4. laid[i].whole.to = d[i] - 1 /\ laid[j].whole.from = 1 + d[j - 1]
    BY <1>6
  <2> QED
    BY <2>2, <2>3, <2>4
<1>9. \A paragraph \in Range(laid) : IsSpread(paragraph)
  BY <1>6, <1>7 DEF Range
<1>10. IsLaidOut(laid)
  BY <1>7, <1>8, <1>9, SpreadIsLaidOut
<1> QED
  BY <1>10 DEF laid

-----------------------------------------------------------------------------
(* The pieces of a section.                                                *)

Lists == Seq(Seq(DOMAIN file.lines)) \ {<<>>}

(* A line more in the last piece.                                          *)
LEMMA AddToFacts ==
  ASSUME NEW X, NEW pieces \in Seq(Seq(X)), pieces # <<>>, NEW x \in X
  PROVE  /\ AddTo(pieces, x) \in Seq(Seq(X)) /\ AddTo(pieces, x) # <<>>
         /\ Last(pieces) \in Seq(X) /\ Last(pieces) \in Range(pieces)
         /\ Last(AddTo(pieces, x)) = Append(Last(pieces), x)
         /\ \A piece \in Range(AddTo(pieces, x)) :
              piece = Append(Last(pieces), x) \/ piece \in Range(pieces)
<1> DEFINE front == Front(pieces)
           last == Last(pieces)
           k == Len(pieces)
<1>1. k \in Nat \ {0} /\ DOMAIN pieces = 1 .. k /\ \A i \in 1 .. k : pieces[i] \in Seq(X)
  OBVIOUS
<1>2. last = pieces[k] /\ last \in Seq(X) /\ last \in Range(pieces)
  BY <1>1 DEF Last, Range
<1>3. front \in Seq(Seq(X)) /\ Len(front) = k - 1 /\ \A i \in 1 .. k - 1 : front[i] = pieces[i]
  BY <1>1 DEF Front
<1>4. Append(last, x) \in Seq(X)
  BY <1>2
<1> DEFINE more == Append(last, x)
<1>5. AddTo(pieces, x) = Append(front, more)
  BY DEF AddTo
<1>6. more \in Seq(X)
  BY <1>4
<1> HIDE DEF front, more, last
<1> DEFINE all == Append(front, more)
<1>7. /\ all \in Seq(Seq(X)) /\ all # <<>> /\ Len(all) = Len(front) + 1
      /\ all[Len(front) + 1] = more /\ Range(all) = Range(front) \cup {more}
  BY <1>3, <1>6, AppendFacts
<1>8. Last(all) = more
  BY <1>7 DEF Last
<1>9. Range(front) \subseteq Range(pieces)
  <2>1. DOMAIN front = 1 .. k - 1 /\ 1 .. k - 1 \subseteq 1 .. k
    BY <1>1, <1>3
  <2> QED
    BY <1>1, <1>3, <2>1 DEF Range
<1> HIDE DEF all
<1> QED
  BY <1>2, <1>5, <1>7, <1>8, <1>9 DEF all, more, last

(* An element more at the end.                                             *)
LEMMA LastOfAppend ==
  ASSUME NEW X, NEW seq \in Seq(X), NEW x \in X
  PROVE  Last(Append(seq, x)) = x
  BY AppendFacts DEF Last

(* A sequence of one element.                                              *)
LEMMA SequenceOfOne ==
  ASSUME NEW X, NEW x \in X
  PROVE  <<x>> \in Seq(X) /\ <<x>> # <<>> /\ Range(<<x>>) = {x} /\ Last(<<x>>) = x
<1>1. Len(<<x>>) = 1 /\ DOMAIN <<x>> = {1} /\ <<x>>[1] = x
  OBVIOUS
<1> QED
  BY <1>1 DEF Range, Last

TakePiece(lines) == [pieces \in Lists |-> [k \in DOMAIN lines |-> Take(lines, pieces, k)]]

(* The pieces remain lists of lines, at least one.                         *)
LEMMA TakeIsALists ==
  ASSUME NEW lines \in Seq(DOMAIN file.lines), NEW pieces \in Lists, NEW k \in DOMAIN lines
  PROVE  Take(lines, pieces, k) \in Lists
<1> DEFINE X == DOMAIN file.lines
<1>1. lines[k] \in X /\ pieces \in Seq(Seq(X)) /\ pieces # <<>> /\ <<>> \in Seq(X)
  BY DEF Lists
<1>2. AddTo(pieces, lines[k]) \in Seq(Seq(X)) /\ AddTo(pieces, lines[k]) # <<>>
  BY <1>1, AddToFacts
<1> HIDE DEF X
<1>3. <<lines[k]>> \in Seq(X)
  BY <1>1, SequenceOfOne
<1>4. ASSUME NEW list \in Seq(Seq(X)), NEW piece \in Seq(X)
      PROVE  Append(list, piece) \in Seq(Seq(X)) /\ Append(list, piece) # <<>>
  BY AppendFacts
<1> QED
  BY <1>1, <1>2, <1>3, <1>4 DEF Take, Lists, X

(* The pieces grow line by line.                                           *)
LEMMA PiecesRun ==
  ASSUME NEW lines \in Seq(DOMAIN file.lines)
  PROVE  \E c : c \in Runs(Lists, << <<>> >>, [k \in DOMAIN lines |-> k], TakePiece(lines)) /\ c[Len([k \in DOMAIN lines |-> k])] = AllPieces(lines)
<1>1. CanFold(DOMAIN lines, Lists, << <<>> >>, [k \in DOMAIN lines |-> k], TakePiece(lines))
  <2>1. [k \in DOMAIN lines |-> k] \in Seq(DOMAIN lines)
    OBVIOUS
  <2>2. << <<>> >> \in Lists
    <3>1. <<>> \in Seq(DOMAIN file.lines)
      OBVIOUS
    <3>2. << <<>> >> \in Seq(Seq(DOMAIN file.lines)) /\ << <<>> >> # <<>>
      BY <3>1, SequenceOfOne
    <3> QED
      BY <3>2 DEF Lists
  <2>3. TakePiece(lines) \in [Lists -> [DOMAIN lines -> Lists]]
    BY TakeIsALists DEF TakePiece
  <2> QED
    BY <2>1, <2>2, <2>3 DEF CanFold
<1>2. PICK f : f \in SubsetFolds(Lists, << <<>> >>, [k \in DOMAIN lines |-> k], TakePiece(lines))
  BY <1>1, FoldExists, Zenon
<1> DEFINE fold == CHOOSE g : g = [s \in SUBSET DOMAIN [k \in DOMAIN lines |-> k] |->
                     IF s = {} THEN << <<>> >> ELSE Take(lines, g[s \ {Max(s)}], [k \in DOMAIN lines |-> k][Max(s)])]
<1>3. [k \in DOMAIN lines |-> k] \in Seq(DOMAIN lines) /\ DOMAIN [k \in DOMAIN lines |-> k] = 1 .. Len([k \in DOMAIN lines |-> k]) /\ Len([k \in DOMAIN lines |-> k]) \in Nat
  BY <1>1 DEF CanFold
<1>4. ASSUME NEW s \in SUBSET (1 .. Len([k \in DOMAIN lines |-> k])), s # {}
      PROVE  [k \in DOMAIN lines |-> k][Max(s)] \in DOMAIN lines
  <2>1. Max(s) \in s
    BY <1>3, <1>4, Greatest, Zenon
  <2>2. Max(s) \in 1 .. Len([k \in DOMAIN lines |-> k])
    BY <2>1
  <2> QED
    BY <1>3, <2>2
<1>5. ASSUME NEW pieces \in Lists, NEW k \in DOMAIN lines
      PROVE  TakePiece(lines)[pieces][k] = Take(lines, pieces, k)
  BY DEF TakePiece
<1>6. f = [s \in SUBSET DOMAIN [k \in DOMAIN lines |-> k] |->
             IF s = {} THEN << <<>> >> ELSE Take(lines, f[s \ {Max(s)}], [k \in DOMAIN lines |-> k][Max(s)])]
  <2>1. /\ f \in [SUBSET (1 .. Len([k \in DOMAIN lines |-> k])) -> Lists]
        /\ \A s \in SUBSET (1 .. Len([k \in DOMAIN lines |-> k])) :
             f[s] = IF s = {} THEN << <<>> >> ELSE TakePiece(lines)[f[s \ {Max(s)}]][[k \in DOMAIN lines |-> k][Max(s)]]
    BY <1>2, Zenon DEF SubsetFolds
  <2>2. ASSUME NEW s \in SUBSET (1 .. Len([k \in DOMAIN lines |-> k]))
        PROVE  f[s] = IF s = {} THEN << <<>> >> ELSE Take(lines, f[s \ {Max(s)}], [k \in DOMAIN lines |-> k][Max(s)])
    <3>1. CASE s = {}
      BY <2>1, <3>1
    <3>2. CASE s # {}
      <4>1. f[s \ {Max(s)}] \in Lists /\ [k \in DOMAIN lines |-> k][Max(s)] \in DOMAIN lines
        BY <1>4, <2>1, <3>2
      <4>2. f[s] = TakePiece(lines)[f[s \ {Max(s)}]][[k \in DOMAIN lines |-> k][Max(s)]]
        BY <2>1, <3>2
      <4> QED
        BY <1>5, <3>2, <4>1, <4>2
    <3> QED
      BY <3>1, <3>2
  <2> QED
    BY <1>3, <2>1, <2>2
<1>7. fold = [s \in SUBSET DOMAIN [k \in DOMAIN lines |-> k] |->
                IF s = {} THEN << <<>> >> ELSE Take(lines, fold[s \ {Max(s)}], [k \in DOMAIN lines |-> k][Max(s)])]
  BY <1>6, Zenon
<1>8. AllPieces(lines) = fold[DOMAIN [k \in DOMAIN lines |-> k]]
  BY Zenon DEF AllPieces, FoldLeft, MapThenFoldSet
<1> HIDE DEF fold
<1>9. Follows(Lists, << <<>> >>, [k \in DOMAIN lines |-> k], TakePiece(lines), fold)
  <2>1. ASSUME NEW s \in SUBSET (1 .. Len([k \in DOMAIN lines |-> k])), s # {}, fold[s \ {Max(s)}] \in Lists
        PROVE  fold[s] = TakePiece(lines)[fold[s \ {Max(s)}]][[k \in DOMAIN lines |-> k][Max(s)]]
    <3>1. [k \in DOMAIN lines |-> k][Max(s)] \in DOMAIN lines
      BY <1>4, <2>1
    <3>2. fold[s] = Take(lines, fold[s \ {Max(s)}], [k \in DOMAIN lines |-> k][Max(s)])
      BY <1>3, <1>7, <2>1
    <3> QED
      BY <1>5, <2>1, <3>1, <3>2
  <2>2. fold[{}] = << <<>> >>
    BY <1>7
  <2> QED
    BY <2>1, <2>2 DEF Follows
<1>10. \E c : c \in Runs(Lists, << <<>> >>, [k \in DOMAIN lines |-> k], TakePiece(lines)) /\ c[Len([k \in DOMAIN lines |-> k])] = fold[1 .. Len([k \in DOMAIN lines |-> k])]
  BY <1>1, <1>9, FoldRuns
<1> QED
  BY <1>3, <1>8, <1>10

HasText(piece) == \E i \in Range(piece) : ~IsBlank(i)

(* Pieces that are not empty have text, and an open block has a line.      *)
HaveText(lines, pieces, k) ==
  /\ \A piece \in Range(pieces) : piece # <<>> => HasText(piece)
  /\ IsOpen(lines, k) => Last(pieces) # <<>>

(* Only a fence opens or closes a block.                                   *)
LEMMA OnlyFencesOpen ==
  ASSUME NEW lines, NEW k \in Nat \ {0}, Line(lines[k]).kind # "fence"
  PROVE  IsOpen(lines, k) <=> IsOpen(lines, k - 1)
<1>1. \A j : j \in 1 .. k <=> j \in 1 .. k - 1 \/ j = k
  OBVIOUS
<1>2. {j \in 1 .. k : Line(lines[j]).kind = "fence"} = {j \in 1 .. k - 1 : Line(lines[j]).kind = "fence"}
  BY <1>1
<1>3. FencesUpTo(lines, k) = FencesUpTo(lines, k - 1)
  BY <1>2 DEF FencesUpTo
<1> QED
  BY <1>3 DEF IsOpen

(* Line by line the pieces keep their texts: a blank line is taken into a  *)
(* piece only in an open block, behind its fence.                          *)
LEMMA TakeKeepsText ==
  ASSUME NEW lines \in Seq(DOMAIN file.lines), NEW pieces \in Lists, NEW k \in 1 .. Len(lines),
         \A i \in DOMAIN file.lines : Line(i).kind = "fence" => ~IsBlank(i),
         HaveText(lines, pieces, k - 1)
  PROVE  HaveText(lines, Take(lines, pieces, k), k)
<1> DEFINE X == DOMAIN file.lines
           line == lines[k]
           last == Last(pieces)
           added == AddTo(pieces, line)
<1>1. line \in X /\ pieces \in Seq(Seq(X)) /\ pieces # <<>> /\ <<>> \in Seq(X) /\ k \in Nat \ {0}
  BY DEF Lists
<1>2. /\ added \in Seq(Seq(X)) /\ added # <<>> /\ last \in Seq(X) /\ last \in Range(pieces)
      /\ Last(added) = Append(last, line)
      /\ \A piece \in Range(added) : piece = Append(last, line) \/ piece \in Range(pieces)
  <2> HIDE DEF X, line, last, added
  <2>1. line \in X /\ pieces \in Seq(Seq(X)) /\ pieces # <<>>
    BY <1>1
  <2>2. /\ AddTo(pieces, line) \in Seq(Seq(X)) /\ AddTo(pieces, line) # <<>>
        /\ Last(pieces) \in Seq(X) /\ Last(pieces) \in Range(pieces)
        /\ Last(AddTo(pieces, line)) = Append(Last(pieces), line)
        /\ \A piece \in Range(AddTo(pieces, line)) :
             piece = Append(Last(pieces), line) \/ piece \in Range(pieces)
    BY <2>1, AddToFacts
  <2> QED
    BY <2>2 DEF last, added
<1> HIDE DEF X, last, added
<1>3. /\ Append(last, line) # <<>> /\ Range(Append(last, line)) = Range(last) \cup {line}
      /\ <<line>> \in Seq(X) /\ <<line>> # <<>> /\ Range(<<line>>) = {line}
  <2> HIDE DEF line
  <2>1. Append(last, line) # <<>> /\ Range(Append(last, line)) = Range(last) \cup {line}
    BY <1>1, <1>2, AppendFacts
  <2>2. <<line>> \in Seq(X) /\ <<line>> # <<>> /\ Range(<<line>>) = {line}
    BY <1>1, SequenceOfOne
  <2> QED
    BY <2>1, <2>2
<1>4. ASSUME NEW list \in Seq(Seq(X)), NEW piece \in Seq(X)
      PROVE  Range(Append(list, piece)) = Range(list) \cup {piece} /\ Last(Append(list, piece)) = piece
  BY AppendFacts, LastOfAppend
<1>5. /\ \A piece \in Range(pieces) : piece # <<>> => HasText(piece)
      /\ IsOpen(lines, k - 1) => last # <<>>
  BY DEF HaveText, last
<1>6. ~IsBlank(line) => HasText(<<line>>) /\ HasText(Append(last, line))
  BY <1>3 DEF HasText
<1>7. last # <<>> => HasText(Append(last, line))
  <2>1. last # <<>> => HasText(last)
    BY <1>2, <1>5
  <2> QED
    BY <1>3, <2>1 DEF HasText
<1>8. CASE IsBlank(line) /\ ~IsOpen(lines, k)
  <2>1. Take(lines, pieces, k) = Append(pieces, <<>>)
    BY <1>8 DEF Take, line
  <2>2. Range(Append(pieces, <<>>)) = Range(pieces) \cup {<<>>}
    BY <1>1, <1>4
  <2> QED
    BY <1>5, <1>8, <2>1, <2>2 DEF HaveText
<1>9. CASE ~(IsBlank(line) /\ ~IsOpen(lines, k)) /\ Opens(lines, k)
  <2>1. Take(lines, pieces, k) = Append(pieces, <<line>>) /\ Line(line).kind = "fence"
    BY <1>9 DEF Take, Opens, line
  <2>2. ~IsBlank(line)
    BY <1>1, <2>1 DEF X
  <2>3. /\ Range(Append(pieces, <<line>>)) = Range(pieces) \cup {<<line>>}
        /\ Last(Append(pieces, <<line>>)) = <<line>>
    BY <1>1, <1>3, <1>4
  <2> QED
    BY <1>3, <1>5, <1>6, <2>1, <2>2, <2>3 DEF HaveText
<1>10. CASE ~(IsBlank(line) /\ ~IsOpen(lines, k)) /\ ~Opens(lines, k) /\ Closes(lines, k)
  <2>1. Take(lines, pieces, k) = Append(added, <<>>) /\ Line(line).kind = "fence"
    BY <1>10 DEF Take, Closes, line, added
  <2>2. ~IsBlank(line)
    BY <1>1, <2>1 DEF X
  <2>3. ~IsOpen(lines, k)
    BY <1>10, <2>1 DEF Opens, line
  <2>4. Range(Append(added, <<>>)) = Range(added) \cup {<<>>}
    BY <1>1, <1>2, <1>4
  <2>5. \A piece \in Range(added) : piece # <<>> => HasText(piece)
    BY <1>2, <1>5, <1>6, <2>2
  <2> QED
    BY <2>1, <2>3, <2>4, <2>5 DEF HaveText
<1>11. CASE ~(IsBlank(line) /\ ~IsOpen(lines, k)) /\ ~Opens(lines, k) /\ ~Closes(lines, k)
  <2>1. Take(lines, pieces, k) = added
    BY <1>11 DEF Take, line, added
  <2>2. HasText(Append(last, line))
    <3>1. CASE ~IsBlank(line)
      BY <1>6, <3>1
    <3>2. CASE IsBlank(line)
      <4>1. Line(line).kind # "fence"
        BY <1>1, <3>2 DEF X
      <4>2. IsOpen(lines, k - 1)
        BY <1>1, <1>11, <3>2, <4>1, OnlyFencesOpen DEF line
      <4> QED
        BY <1>5, <1>7, <4>2
    <3> QED
      BY <3>1, <3>2
  <2>3. \A piece \in Range(added) : piece # <<>> => HasText(piece)
    BY <1>2, <1>5, <2>2
  <2>4. Last(added) # <<>>
    BY <1>2, <1>3
  <2> QED
    BY <2>1, <2>3, <2>4 DEF HaveText
<1> QED
  BY <1>8, <1>9, <1>10, <1>11

(* The pieces of a section are lists of its lines with text.               *)
LEMMA PiecesAre ==
  ASSUME NEW lines \in Seq(DOMAIN file.lines),
         \A i \in DOMAIN file.lines : Line(i).kind = "fence" => ~IsBlank(i)
  PROVE  /\ Pieces(lines) \in Seq(Seq(DOMAIN file.lines))
         /\ \A piece \in Range(Pieces(lines)) : HasText(piece)
<1> DEFINE numbers == [k \in DOMAIN lines |-> k]
           X == DOMAIN file.lines
<1>1. PICK c : c \in Runs(Lists, << <<>> >>, numbers, TakePiece(lines)) /\ c[Len(numbers)] = AllPieces(lines)
  BY PiecesRun
<1>2. Len(lines) \in Nat /\ DOMAIN lines = 1 .. Len(lines) /\ Len(numbers) = Len(lines)
      /\ \A k \in 1 .. Len(lines) : numbers[k] = k
  OBVIOUS
<1> HIDE DEF numbers
<1>3. /\ c \in [0 .. Len(lines) -> Lists] /\ c[0] = << <<>> >>
      /\ \A n \in 1 .. Len(lines) : c[n] = TakePiece(lines)[c[n - 1]][n]
  BY <1>1, <1>2 DEF Runs
<1> DEFINE T == {n \in 0 .. Len(lines) : HaveText(lines, c[n], n)}
<1>4. 0 \in T
  <2>1. Range(c[0]) = {<<>>}
    BY <1>3, SequenceOfOne
  <2>2. ~IsOpen(lines, 0)
    <3>1. {j \in 1 .. 0 : Line(lines[j]).kind = "fence"} = {}
      OBVIOUS
    <3>2. FencesUpTo(lines, 0) = 0
      BY <3>1, FS_EmptySet DEF FencesUpTo
    <3>3. 0 % 2 # 1
      OBVIOUS
    <3> QED
      BY <3>2, <3>3 DEF IsOpen
  <2> QED
    BY <1>2, <2>1, <2>2 DEF HaveText
<1>5. ASSUME NEW n \in 1 .. Len(lines), n - 1 \in T PROVE n \in T
  <2>1. n \in 0 .. Len(lines) /\ n - 1 \in 0 .. Len(lines) /\ n \in DOMAIN lines
    BY <1>2
  <2>2. c[n - 1] \in Lists /\ HaveText(lines, c[n - 1], n - 1)
    BY <1>3, <1>5, <2>1
  <2>3. c[n] = Take(lines, c[n - 1], n)
    BY <1>3, <2>1, <2>2 DEF TakePiece
  <2>4. HaveText(lines, c[n], n)
    BY <2>2, <2>3, TakeKeepsText
  <2> QED
    BY <2>1, <2>4
<1>6. HaveText(lines, AllPieces(lines), Len(lines)) /\ AllPieces(lines) \in Lists
  <2>1. Len(lines) \in T /\ Len(lines) \in 0 .. Len(lines)
    <3> HIDE DEF T
    <3>1. 0 .. Len(lines) \subseteq T
      BY <1>2, <1>4, <1>5, Upwards
    <3> QED
      BY <1>2, <3>1
  <2> QED
    BY <1>1, <1>2, <1>3, <2>1
<1> DEFINE all == AllPieces(lines)
<1>7. all \in Seq(Seq(X)) /\ \A piece \in Range(all) : piece # <<>> => HasText(piece)
  BY <1>6 DEF HaveText, Lists
<1>8. Pieces(lines) = Only(all, Range(all) \ {<<>>})
  BY DEF Pieces
<1> HIDE DEF all, X
<1>9. /\ Only(all, Range(all) \ {<<>>}) \in Seq(Seq(X))
      /\ Range(Only(all, Range(all) \ {<<>>})) = Range(all) \cap (Range(all) \ {<<>>})
  BY <1>7, OnlyIs
<1> QED
  BY <1>7, <1>8, <1>9 DEF X

-----------------------------------------------------------------------------
(* The text of a piece.                                                    *)

(* What a parser knows of the lines of a file.                             *)
LEMMA FileShape ==
  ASSUME file \in Files
  PROVE  /\ file.type \in {"pdf", "docx", "md", "txt"} /\ file.pages \in Nat
         /\ file.unreadable \subseteq 1 .. file.pages
         /\ DOMAIN file.lines = 1 .. Len(file.lines) /\ Len(file.lines) \in Nat
         /\ \A i \in DOMAIN file.lines :
              /\ Line(i).sentences \in LineTexts /\ Line(i).ended \in BOOLEAN
              /\ Line(i).kind \in LineKinds
              /\ Line(i).page \in (IF file.type = "pdf" THEN 1 .. file.pages ELSE {0})
              /\ \A j \in DOMAIN file.lines : i < j => Line(i).page <= Line(j).page
              /\ Line(i).kind \in {"fence", "tilde"} => ~IsBlank(i)
              /\ file.type = "md" /\ Line(i).kind = "heading" => ~IsBlank(i)
<1>1. /\ file.type \in {"pdf", "docx", "md", "txt"} /\ file.pages \in Nat
      /\ file.unreadable \subseteq 1 .. file.pages
      /\ file.lines \in Seq({file.lines[i] : i \in DOMAIN file.lines})
      /\ \A i \in DOMAIN file.lines :
            /\ file.lines[i].kind \in LineKinds
            /\ file.lines[i].sentences \in LineTexts /\ file.lines[i].ended \in BOOLEAN
            /\ file.lines[i].page \in (IF file.type = "pdf" THEN 1 .. file.pages ELSE {0})
            /\ \A j \in DOMAIN file.lines : i < j => file.lines[i].page <= file.lines[j].page
            /\ \/ file.lines[i].kind \in {"fence", "tilde"}
               \/ file.type = "md" /\ file.lines[i].kind = "heading"
               => file.lines[i].sentences # <<>>
  BY FilesAreShaped
<1>2. DOMAIN file.lines = 1 .. Len(file.lines) /\ Len(file.lines) \in Nat
  <2> DEFINE X == {file.lines[i] : i \in DOMAIN file.lines}
  <2>1. file.lines \in Seq(X)
    BY <1>1
  <2> HIDE DEF X
  <2> QED
    BY <2>1
<1> QED
  BY <1>1, <1>2 DEF Line, IsBlank

Gluings == {g \in [sentences : LineTexts, open : BOOLEAN] : g.open => g.sentences # <<>>}

(* Lines joined are sentences of words, and some with a line with text.    *)
LEMMA GluedIs ==
  ASSUME file \in Files, NEW left \in Gluings, NEW i \in DOMAIN file.lines
  PROVE  /\ Glued(left, i) \in Gluings
         /\ ~IsBlank(i) \/ left.sentences # <<>> => Glued(left, i).sentences # <<>>
<1> DEFINE X == Seq(Nat \ {0}) \ {<<>>}
           done == left.sentences
           more == Line(i).sentences
           open == ~Line(i).ended
<1>1. /\ done \in Seq(X) /\ more \in Seq(X) /\ open \in BOOLEAN
      /\ left.open \in BOOLEAN /\ (left.open => done # <<>>)
      /\ left = [sentences |-> left.sentences, open |-> left.open]
  BY FileShape DEF Gluings, LineTexts
<1>2. CASE IsBlank(i)
  BY <1>2 DEF Glued
<1>3. CASE ~IsBlank(i)
  <2>1. more # <<>>
    BY <1>3 DEF IsBlank
  <2> DEFINE middle == Last(done) \o Head(more)
  <2>2. Glued(left, i) = [sentences |-> IF left.open THEN Front(done) \o <<middle>> \o Tail(more)
                                        ELSE done \o more,
                          open |-> open]
    BY <1>3 DEF Glued
  <2> HIDE DEF X
  <2>3. done \o more \in Seq(X) /\ done \o more # <<>>
    <3> HIDE DEF done, more
    <3> QED
      BY <1>1, <2>1
  <2>4. CASE left.open
    <3>1. Head(more) \in X /\ Tail(more) \in Seq(X) /\ Last(done) \in X /\ Front(done) \in Seq(X)
      <4> HIDE DEF done, more
      <4> QED
        BY <1>1, <2>1, <2>4 DEF Last, Front
    <3>2. middle \in X
      <4> DEFINE one == Last(done)
                 two == Head(more)
      <4>1. one \in Seq(Nat \ {0}) /\ one # <<>> /\ two \in Seq(Nat \ {0})
        BY <3>1 DEF X
      <4> HIDE DEF one, two
      <4>2. one \o two \in Seq(Nat \ {0}) /\ one \o two # <<>>
        BY <4>1
      <4> QED
        BY <4>2 DEF X, one, two
    <3> DEFINE front == Front(done)
               tail == Tail(more)
    <3>3. <<middle>> \in Seq(X) /\ <<middle>> # <<>> /\ front \in Seq(X) /\ tail \in Seq(X)
          /\ Len(<<middle>>) = 1
      <4> HIDE DEF middle
      <4> QED
        BY <3>1, <3>2, SequenceOfOne
    <3>4. Front(done) \o <<middle>> \o Tail(more) \in Seq(X)
          /\ Front(done) \o <<middle>> \o Tail(more) # <<>>
      <4> DEFINE m == <<middle>>
      <4>1. m \in Seq(X) /\ Len(m) = 1 /\ front \in Seq(X) /\ tail \in Seq(X)
        BY <3>3
      <4> HIDE DEF m, front, tail
      <4>2. front \o m \o tail \in Seq(X) /\ front \o m \o tail # <<>>
        <5> DEFINE u == front \o m
        <5>1. u \in Seq(X) /\ Len(u) = Len(front) + Len(m) /\ Len(front) \in Nat
          <6>1. front \o m \in Seq(X)
            BY <4>1, ConcatProperties
          <6>2. Len(front \o m) = Len(front) + Len(m)
            BY <4>1, ConcatProperties
          <6> QED
            BY <4>1, <6>1, <6>2
        <5> HIDE DEF u
        <5>2. u \o tail \in Seq(X) /\ Len(u \o tail) = Len(u) + Len(tail) /\ Len(tail) \in Nat
          <6>1. u \o tail \in Seq(X)
            BY <4>1, <5>1, ConcatProperties
          <6>2. Len(u \o tail) = Len(u) + Len(tail)
            BY <4>1, <5>1, ConcatProperties
          <6>3. Len(tail) \in Nat
            BY <4>1
          <6> QED
            BY <6>1, <6>2, <6>3
        <5>3. Len(u \o tail) # 0
          BY <4>1, <5>1, <5>2
        <5>4. u \o tail # <<>>
          BY <5>3
        <5> QED
          BY <5>2, <5>4 DEF u
      <4> QED
        BY <4>2 DEF m, front, tail
    <3> DEFINE all == Front(done) \o <<middle>> \o Tail(more)
    <3>5. Glued(left, i) = [sentences |-> all, open |-> open] /\ all \in Seq(X) /\ all # <<>>
      BY <2>2, <2>4, <3>4
    <3> HIDE DEF all
    <3> QED
      BY <1>1, <3>5 DEF Gluings, LineTexts, X
  <2>5. CASE ~left.open
    <3> DEFINE all == done \o more
    <3>1. Glued(left, i) = [sentences |-> all, open |-> open] /\ all \in Seq(X) /\ all # <<>>
      BY <2>2, <2>3, <2>5
    <3> HIDE DEF all
    <3> QED
      BY <1>1, <3>1 DEF Gluings, LineTexts, X
  <2> QED
    BY <2>4, <2>5
<1> QED
  BY <1>2, <1>3

GlueLine == [left \in Gluings |-> [i \in DOMAIN file.lines |-> Glued(left, i)]]

NoSentences == [sentences |-> <<>>, open |-> FALSE]

(* The text of a piece grows line by line.                                 *)
LEMMA GluedLinesRun ==
  ASSUME file \in Files, NEW piece \in Seq(DOMAIN file.lines)
  PROVE  \E c : c \in Runs(Gluings, NoSentences, piece, GlueLine) /\ c[Len(piece)] = GluedLines(piece)
<1>1. CanFold(DOMAIN file.lines, Gluings, NoSentences, piece, GlueLine)
  <2>1. NoSentences \in Gluings
    BY DEF NoSentences, Gluings, LineTexts
  <2>2. GlueLine \in [Gluings -> [DOMAIN file.lines -> Gluings]]
    BY GluedIs DEF GlueLine
  <2> QED
    BY <2>1, <2>2 DEF CanFold
<1>2. PICK f : f \in SubsetFolds(Gluings, NoSentences, piece, GlueLine)
  BY <1>1, FoldExists, Zenon
<1> DEFINE fold == CHOOSE g : g = [s \in SUBSET DOMAIN piece |->
                     IF s = {} THEN NoSentences ELSE Glued(g[s \ {Max(s)}], piece[Max(s)])]
<1>3. piece \in Seq(DOMAIN file.lines) /\ DOMAIN piece = 1 .. Len(piece) /\ Len(piece) \in Nat
  BY <1>1 DEF CanFold
<1>4. ASSUME NEW s \in SUBSET (1 .. Len(piece)), s # {}
      PROVE  piece[Max(s)] \in DOMAIN file.lines
  <2>1. Max(s) \in s
    BY <1>3, <1>4, Greatest, Zenon
  <2>2. Max(s) \in 1 .. Len(piece)
    BY <2>1
  <2> QED
    BY <1>3, <2>2
<1>5. ASSUME NEW left \in Gluings, NEW i \in DOMAIN file.lines
      PROVE  GlueLine[left][i] = Glued(left, i)
  BY DEF GlueLine
<1>6. f = [s \in SUBSET DOMAIN piece |->
             IF s = {} THEN NoSentences ELSE Glued(f[s \ {Max(s)}], piece[Max(s)])]
  <2>1. /\ f \in [SUBSET (1 .. Len(piece)) -> Gluings]
        /\ \A s \in SUBSET (1 .. Len(piece)) :
             f[s] = IF s = {} THEN NoSentences ELSE GlueLine[f[s \ {Max(s)}]][piece[Max(s)]]
    BY <1>2, Zenon DEF SubsetFolds
  <2>2. ASSUME NEW s \in SUBSET (1 .. Len(piece))
        PROVE  f[s] = IF s = {} THEN NoSentences ELSE Glued(f[s \ {Max(s)}], piece[Max(s)])
    <3>1. CASE s = {}
      BY <2>1, <3>1
    <3>2. CASE s # {}
      <4>1. f[s \ {Max(s)}] \in Gluings /\ piece[Max(s)] \in DOMAIN file.lines
        BY <1>4, <2>1, <3>2
      <4>2. f[s] = GlueLine[f[s \ {Max(s)}]][piece[Max(s)]]
        BY <2>1, <3>2
      <4> QED
        BY <1>5, <3>2, <4>1, <4>2
    <3> QED
      BY <3>1, <3>2
  <2> QED
    BY <1>3, <2>1, <2>2
<1>7. fold = [s \in SUBSET DOMAIN piece |->
                IF s = {} THEN NoSentences ELSE Glued(fold[s \ {Max(s)}], piece[Max(s)])]
  BY <1>6, Zenon
<1>8. GluedLines(piece) = fold[DOMAIN piece]
  BY Zenon DEF NoSentences, GluedLines, FoldLeft, MapThenFoldSet
<1> HIDE DEF fold
<1>9. Follows(Gluings, NoSentences, piece, GlueLine, fold)
  <2>1. ASSUME NEW s \in SUBSET (1 .. Len(piece)), s # {}, fold[s \ {Max(s)}] \in Gluings
        PROVE  fold[s] = GlueLine[fold[s \ {Max(s)}]][piece[Max(s)]]
    <3>1. piece[Max(s)] \in DOMAIN file.lines
      BY <1>4, <2>1
    <3>2. fold[s] = Glued(fold[s \ {Max(s)}], piece[Max(s)])
      BY <1>3, <1>7, <2>1
    <3> QED
      BY <1>5, <2>1, <3>1, <3>2
  <2>2. fold[{}] = NoSentences
    BY <1>7
  <2> QED
    BY <2>1, <2>2 DEF Follows
<1>10. \E c : c \in Runs(Gluings, NoSentences, piece, GlueLine) /\ c[Len(piece)] = fold[1 .. Len(piece)]
  BY <1>1, <1>9, FoldRuns
<1> QED
  BY <1>3, <1>8, <1>10

(* A piece with text has sentences.                                        *)
LEMMA GluedLinesAre ==
  ASSUME file \in Files, NEW piece \in Seq(DOMAIN file.lines), HasText(piece)
  PROVE  GluedLines(piece).sentences \in LineTexts \ {<<>>}
<1>1. PICK c : c \in Runs(Gluings, NoSentences, piece, GlueLine) /\ c[Len(piece)] = GluedLines(piece)
  BY GluedLinesRun
<1>2. Len(piece) \in Nat /\ DOMAIN piece = 1 .. Len(piece)
  OBVIOUS
<1>3. /\ c \in [0 .. Len(piece) -> Gluings]
      /\ \A n \in 1 .. Len(piece) : c[n] = GlueLine[c[n - 1]][piece[n]]
  BY <1>1, Zenon DEF Runs
<1> DEFINE HasLine(n) == \E k \in 1 .. n : ~IsBlank(piece[k])
           T == {n \in 0 .. Len(piece) : HasLine(n) => c[n].sentences # <<>>}
<1>4. 0 \in T
  BY <1>2
<1>5. ASSUME NEW n \in 1 .. Len(piece), n - 1 \in T PROVE n \in T
  <2>1. /\ n \in 0 .. Len(piece) /\ n - 1 \in 0 .. Len(piece) /\ piece[n] \in DOMAIN file.lines
        /\ \A k : k \in 1 .. n <=> k \in 1 .. n - 1 \/ k = n
    BY <1>2
  <2>2. c[n - 1] \in Gluings /\ (HasLine(n - 1) => c[n - 1].sentences # <<>>)
    BY <1>3, <1>5, <2>1
  <2>3. c[n] = Glued(c[n - 1], piece[n])
    BY <1>3, <2>1, <2>2 DEF GlueLine
  <2>4. ~IsBlank(piece[n]) \/ c[n - 1].sentences # <<>> => c[n].sentences # <<>>
    BY <2>1, <2>2, <2>3, GluedIs
  <2> QED
    BY <2>1, <2>2, <2>4
<1>6. Len(piece) \in T /\ Len(piece) \in 0 .. Len(piece)
  <2> HIDE DEF T
  <2>1. 0 .. Len(piece) \subseteq T
    BY <1>2, <1>4, <1>5, Upwards
  <2> QED
    BY <1>2, <2>1
<1>7. HasLine(Len(piece))
  BY <1>2 DEF HasText, Range
<1>8. c[Len(piece)].sentences # <<>> /\ c[Len(piece)] \in Gluings
  BY <1>3, <1>6, <1>7
<1> QED
  BY <1>1, <1>8 DEF Gluings

-----------------------------------------------------------------------------
(* A file, its headings and its fences.                                    *)

Blank(f, i) == f.lines[i].sentences = <<>>

Marks(f, n) == {j \in 1 .. n : f.lines[j].kind \in {"fence", "tilde"}}

(* An odd number of fences: what follows is code.                          *)
IsCode(f, n) == Cardinality(Marks(f, n)) % 2 = 1

Heads(f, i) ==
  /\ f.lines[i].kind = "heading" /\ ~Blank(f, i)
  /\ \/ f.type = "docx"
     \/ f.type = "md" /\ Cardinality(Marks(f, i)) % 2 = 0

Above(f, i) == {j \in 1 .. i : Heads(f, j)}

TitleIn(f, i) ==
  IF Above(f, i) = {} THEN NoTitle
  ELSE f.lines[CHOOSE j \in Above(f, i) : \A k \in Above(f, i) : k <= j].title

(* The operators of the parsers, for the file that is parsed.              *)
LEMMA ParsedFile ==
  /\ \A i : Line(i) = file.lines[i] /\ (IsBlank(i) <=> Blank(file, i))
  /\ \A i : IsHeading(i) <=> Heads(file, i)
  /\ \A i : TitleAt(i) = TitleIn(file, i)
<1>1. \A i : Line(i) = file.lines[i] /\ (IsBlank(i) <=> Blank(file, i))
  BY DEF Line, IsBlank, Blank
<1>2. \A i : IsHeading(i) <=> Heads(file, i)
  <2> SUFFICES ASSUME NEW i PROVE IsHeading(i) <=> Heads(file, i)
    OBVIOUS
  <2>1. {j \in 1 .. i : Line(j).kind \in {"fence", "tilde"}} = Marks(file, i)
    BY <1>1 DEF Marks
  <2>2. Line(i).kind = file.lines[i].kind /\ (IsBlank(i) <=> Blank(file, i))
    BY <1>1
  <2> DEFINE marks == {j \in 1 .. i : Line(j).kind \in {"fence", "tilde"}}
  <2>3. IsHeading(i) <=> /\ Line(i).kind = "heading" /\ ~IsBlank(i)
                         /\ \/ file.type = "docx"
                            \/ file.type = "md" /\ Cardinality(marks) % 2 = 0
    BY DEF IsHeading
  <2>4. marks = Marks(file, i)
    BY <2>1
  <2> HIDE DEF marks
  <2> QED
    BY <2>2, <2>3, <2>4 DEF Heads
<1>3. ASSUME NEW i PROVE {j \in 1 .. i : IsHeading(j)} = Above(file, i)
  BY <1>2 DEF Above
<1>4. ASSUME NEW i PROVE TitleAt(i) = TitleIn(file, i)
  <2> DEFINE above == {j \in 1 .. i : IsHeading(j)}
  <2>1. above = Above(file, i)
    BY <1>3
  <2>2. TitleAt(i) = IF above = {} THEN NoTitle
                     ELSE Line(CHOOSE j \in above : \A k \in above : k <= j).title
    BY DEF TitleAt
  <2> HIDE DEF above
  <2> QED
    BY <1>1, <2>1, <2>2 DEF TitleIn
<1> QED
  BY <1>1, <1>2, <1>4

(* The title of a line is its own, if it is a heading, or that of the line *)
(* above it.                                                               *)
LEMMA TitleChanges ==
  ASSUME NEW f, NEW i \in Nat \ {0}
  PROVE  TitleIn(f, i) = IF Heads(f, i) THEN f.lines[i].title ELSE TitleIn(f, i - 1)
<1>1. \A j : j \in 1 .. i <=> j \in 1 .. i - 1 \/ j = i
  OBVIOUS
<1>2. CASE Heads(f, i)
  <2>1. i \in Above(f, i) /\ \A k \in Above(f, i) : k <= i /\ k \in Int
    BY <1>2 DEF Above
  <2>2. (CHOOSE j \in Above(f, i) : \A k \in Above(f, i) : k <= j) = i
    <3> DEFINE top == CHOOSE j \in Above(f, i) : \A k \in Above(f, i) : k <= j
    <3>1. top \in Above(f, i) /\ \A k \in Above(f, i) : k <= top
      BY <2>1
    <3> HIDE DEF top
    <3>2. top = i
      BY <2>1, <3>1
    <3> QED
      BY <3>2 DEF top
  <2> QED
    BY <1>2, <2>1, <2>2 DEF TitleIn
<1>3. CASE ~Heads(f, i)
  <2>1. Above(f, i) = Above(f, i - 1)
    BY <1>1, <1>3 DEF Above
  <2> QED
    BY <1>3, <2>1 DEF TitleIn
<1> QED
  BY <1>2, <1>3

(* Above the first line there is no title.                                 *)
LEMMA NoTitleYet ==
  ASSUME NEW f
  PROVE  TitleIn(f, 0) = NoTitle
<1>1. Above(f, 0) = {}
  BY DEF Above
<1> QED
  BY <1>1 DEF TitleIn

(* Every fence changes what follows from text to code and back.            *)
LEMMA CodeChanges ==
  ASSUME NEW f, NEW n \in Nat \ {0}
  PROVE  /\ f.lines[n].kind \in {"fence", "tilde"} => (IsCode(f, n) <=> ~IsCode(f, n - 1))
         /\ f.lines[n].kind \notin {"fence", "tilde"} =>
              (IsCode(f, n) <=> IsCode(f, n - 1)) /\ (Cardinality(Marks(f, n)) % 2 = 0 <=> ~IsCode(f, n - 1))
<1>1. \A j : j \in 1 .. n <=> j \in 1 .. n - 1 \/ j = n
  OBVIOUS
<1>2. IsFiniteSet(Marks(f, n - 1)) /\ Cardinality(Marks(f, n - 1)) \in Nat
  <2>1. IsFiniteSet(1 .. n - 1)
    BY FS_Interval
  <2>2. Marks(f, n - 1) \subseteq 1 .. n - 1
    BY DEF Marks
  <2>3. IsFiniteSet(Marks(f, n - 1))
    BY <2>1, <2>2, FS_Subset
  <2> QED
    BY <2>3, FS_CardinalityType
<1>3. CASE f.lines[n].kind \in {"fence", "tilde"}
  <2>1. Marks(f, n) = Marks(f, n - 1) \cup {n} /\ n \notin Marks(f, n - 1)
    BY <1>1, <1>3 DEF Marks
  <2>2. Cardinality(Marks(f, n)) = Cardinality(Marks(f, n - 1)) + 1
    BY <1>2, <2>1, FS_AddElement
  <2> DEFINE k == Cardinality(Marks(f, n - 1))
  <2>3. k \in Nat
    BY <1>2
  <2> HIDE DEF k
  <2>4. (k + 1) % 2 = 1 <=> ~(k % 2 = 1)
    BY <2>3
  <2> QED
    BY <1>3, <2>2, <2>4 DEF IsCode, k
<1>4. CASE f.lines[n].kind \notin {"fence", "tilde"}
  <2>1. Marks(f, n) = Marks(f, n - 1)
    BY <1>1, <1>4 DEF Marks
  <2> DEFINE k == Cardinality(Marks(f, n - 1))
  <2>3. k \in Nat
    BY <1>2
  <2> HIDE DEF k
  <2>4. k % 2 = 0 <=> ~(k % 2 = 1)
    BY <2>3
  <2> QED
    BY <1>4, <2>1, <2>4 DEF IsCode, k
<1> QED
  BY <1>3, <1>4

(* Before the first line there is no code.                                 *)
LEMMA NoCodeYet ==
  ASSUME NEW f
  PROVE  ~IsCode(f, 0)
<1>1. Marks(f, 0) = {}
  BY DEF Marks
<1>2. Cardinality(Marks(f, 0)) = 0
  BY <1>1, FS_EmptySet
<1>3. 0 % 2 # 1
  OBVIOUS
<1> QED
  BY <1>2, <1>3 DEF IsCode

-----------------------------------------------------------------------------
(* Sections.                                                               *)

Titles(f) ==
  {NoTitle} \cup {f.lines[i].title : i \in {j \in DOMAIN f.lines : f.lines[j].kind = "heading" /\ ~Blank(f, j)}}

Pages(f) == {0} \cup 1 .. f.pages

Sections(f) == [lines : Seq(DOMAIN f.lines), page : Pages(f), title : Titles(f), order : Nat]

Section(lines, page, heading, order) ==
  [lines |-> lines, page |-> page, title |-> heading, order |-> order]

(* Lines in the order of the file, under their title and on their page.    *)
IsPlaced(f, lines, page, heading) ==
  /\ lines \in Seq(DOMAIN f.lines) /\ IsIncreasing(lines)
  /\ page \in Pages(f) /\ heading \in Titles(f)
  /\ \A i \in Range(lines) :
       heading = TitleIn(f, i) /\ page = f.lines[i].page /\ page \notin f.unreadable

(* Sections of such lines, in the order of the file.                       *)
ArePlaced(f, secs) ==
  /\ secs \in Seq(Sections(f))
  /\ \A k \in DOMAIN secs : IsPlaced(f, secs[k].lines, secs[k].page, secs[k].title)
  /\ \A k, l \in DOMAIN secs : k < l =>
       /\ secs[k].order < secs[l].order
       /\ \A i \in Range(secs[k].lines), j \in Range(secs[l].lines) : i < j

HasLine(secs, i) == \E k \in DOMAIN secs : i \in Range(secs[k].lines)

(* There are no sections at first.                                         *)
LEMMA NothingIsPlaced ==
  ASSUME NEW f
  PROVE  ArePlaced(f, <<>>) /\ (0 \in Pages(f) /\ NoTitle \in Titles(f)) /\ IsPlaced(f, <<>>, 0, NoTitle)
         /\ Range(<<>>) = {}
<1>1. DOMAIN <<>> = {} /\ Range(<<>>) = {}
  BY DEF Range
<1> QED
  BY <1>1 DEF ArePlaced, IsPlaced, Pages, Titles, IsIncreasing

(* These lines are behind all sections.                                    *)
AreBehind(secs, lines, order) ==
  \A k \in DOMAIN secs : /\ secs[k].order < order
                         /\ \A i \in Range(secs[k].lines), j \in Range(lines) : i < j

(* These have one section more, of these lines.                            *)
HasOneMore(f, secs, lines, section, more) ==
  /\ ArePlaced(f, more) /\ DOMAIN secs = 1 .. Len(secs) /\ Len(secs) \in Nat
  /\ Len(more) = Len(secs) + 1 /\ DOMAIN more = 1 .. Len(secs) + 1
  /\ \A k \in DOMAIN secs : more[k] = secs[k]
  /\ more[Len(secs) + 1] = section
  /\ \A i : HasLine(more, i) <=> HasLine(secs, i) \/ i \in Range(lines)

(* A section of lines behind all of the others.                            *)
LEMMA OneSectionMore ==
  ASSUME NEW f, NEW secs, ArePlaced(f, secs),
         NEW lines, NEW page, NEW heading, IsPlaced(f, lines, page, heading), NEW order \in Nat,
         AreBehind(secs, lines, order)
  PROVE  HasOneMore(f, secs, lines, Section(lines, page, heading, order),
                    Append(secs, Section(lines, page, heading, order)))
<1> DEFINE section == Section(lines, page, heading, order)
<1>1. /\ section.lines = lines /\ section.page = page /\ section.title = heading
      /\ section.order = order /\ section \in Sections(f)
  BY DEF Section, Sections, IsPlaced
<1> DEFINE more == Append(secs, section)
<1> HIDE DEF section
<1>2. /\ secs \in Seq(Sections(f)) /\ DOMAIN secs = 1 .. Len(secs) /\ Len(secs) \in Nat
      /\ \A k \in DOMAIN secs : IsPlaced(f, secs[k].lines, secs[k].page, secs[k].title)
      /\ \A k, l \in DOMAIN secs : k < l =>
           /\ secs[k].order < secs[l].order
           /\ \A i \in Range(secs[k].lines), j \in Range(secs[l].lines) : i < j
  BY DEF ArePlaced
<1>3. /\ more \in Seq(Sections(f)) /\ Len(more) = Len(secs) + 1
      /\ DOMAIN more = 1 .. Len(secs) + 1 /\ more[Len(secs) + 1] = section
      /\ \A k \in 1 .. Len(secs) : more[k] = secs[k]
  BY <1>1, <1>2, AppendFacts
<1> HIDE DEF more
<1>4. ASSUME NEW k \in DOMAIN more
      PROVE  \/ k \in DOMAIN secs /\ more[k] = secs[k]
             \/ k = Len(secs) + 1 /\ more[k] = section
  BY <1>2, <1>3
<1>5. ASSUME NEW k \in DOMAIN more
      PROVE  IsPlaced(f, more[k].lines, more[k].page, more[k].title)
  BY <1>1, <1>2, <1>4
<1>6. ASSUME NEW k \in DOMAIN more, NEW l \in DOMAIN more, k < l
      PROVE  /\ more[k].order < more[l].order
             /\ \A i \in Range(more[k].lines), j \in Range(more[l].lines) : i < j
  <2>1. k \in DOMAIN secs /\ more[k] = secs[k]
    BY <1>2, <1>3, <1>6
  <2>2. CASE l \in DOMAIN secs /\ more[l] = secs[l]
    BY <1>2, <1>6, <2>1, <2>2
  <2>3. CASE more[l] = section
    BY <1>1, <2>1, <2>3 DEF AreBehind
  <2> QED
    BY <1>4, <2>2, <2>3
<1>7. ASSUME NEW i PROVE HasLine(more, i) <=> HasLine(secs, i) \/ i \in Range(lines)
  <2>1. HasLine(more, i) => HasLine(secs, i) \/ i \in Range(lines)
    BY <1>1, <1>4 DEF HasLine
  <2>2. i \in Range(lines) => HasLine(more, i)
    <3>1. Len(secs) + 1 \in DOMAIN more
      BY <1>2, <1>3
    <3> QED
      BY <1>1, <1>3, <3>1 DEF HasLine
  <2>3. HasLine(secs, i) => HasLine(more, i)
    <3>1. \A k \in DOMAIN secs : k \in DOMAIN more /\ more[k] = secs[k]
      BY <1>2, <1>3
    <3> QED
      BY <3>1 DEF HasLine
  <2> QED
    BY <2>1, <2>2, <2>3
<1> QED
  <2>1. ArePlaced(f, more)
    BY <1>3, <1>5, <1>6, Zenon DEF ArePlaced
  <2>2. HasOneMore(f, secs, lines, section, more)
    BY <1>2, <1>3, <1>7, <2>1 DEF HasOneMore
  <2> QED
    BY <2>2 DEF section, more

(* A section is made of lines with text only.                              *)
LEMMA MadeSection ==
  ASSUME NEW secs, ArePlaced(file, secs), NEW lines, NEW page, NEW heading, NEW order
  PROVE  \/ /\ \A i \in Range(lines) : Blank(file, i)
            /\ secs \o MakeSection(lines, page, heading, order) = secs
         \/ /\ \E i \in Range(lines) : ~Blank(file, i)
            /\ secs \o MakeSection(lines, page, heading, order)
                 = Append(secs, Section(lines, page, heading, order))
<1> DEFINE section == Section(lines, page, heading, order)
<1>1. secs \in Seq(Sections(file))
  BY DEF ArePlaced
<1>2. CASE \A i \in Range(lines) : Blank(file, i)
  <2>1. MakeSection(lines, page, heading, order) = <<>>
    BY <1>2, ParsedFile DEF MakeSection
  <2> QED
    BY <1>1, <1>2, <2>1
<1>3. CASE ~\A i \in Range(lines) : Blank(file, i)
  <2>1. MakeSection(lines, page, heading, order) = <<section>>
    BY <1>3, ParsedFile DEF MakeSection, Section
  <2>2. secs \o <<section>> = Append(secs, section)
    <3> HIDE DEF section
    <3> QED
      BY <1>1
  <2> QED
    BY <1>3, <2>1, <2>2
<1> QED
  BY <1>2, <1>3

-----------------------------------------------------------------------------
(* How far a parser is.                                                    *)

(* The lines of a Markdown or DOCX file before this one are in sections,   *)
(* and those since the last title in the buffer.                           *)
LinesRead(f, n, buf, heading, code, secs) ==
  /\ n \in 1 .. Len(f.lines) + 1
  /\ ArePlaced(f, secs) /\ IsPlaced(f, buf, 0, heading) /\ heading = TitleIn(f, n - 1)
  /\ \A k \in DOMAIN secs : secs[k].order = k - 1
  /\ \A k \in DOMAIN secs : \A i \in Range(secs[k].lines) :
       i < n /\ \A j \in Range(buf) : i < j
  /\ \A i \in Range(buf) : i < n
  /\ \A i \in 1 .. n - 1 : ~Blank(f, i) => i \in Range(buf) \/ HasLine(secs, i)
  /\ code \in BOOLEAN
  /\ f.type = "md" => (code <=> IsCode(f, n - 1))

(* The lines of the pages of a PDF file before this one are in sections.   *)
PagesRead(f, n, secs) ==
  /\ n \in 1 .. f.pages + 1 /\ ArePlaced(f, secs)
  /\ \A k \in DOMAIN secs : secs[k].order = secs[k].page - 1 /\ secs[k].page < n
  /\ \A i \in DOMAIN f.lines :
       ~Blank(f, i) /\ f.lines[i].page < n /\ f.lines[i].page \notin f.unreadable => HasLine(secs, i)

(* All lines that can be read are.                                         *)
AllRead(f, secs) ==
  /\ ArePlaced(f, secs)
  /\ \A i \in DOMAIN f.lines :
       ~Blank(f, i) /\ f.lines[i].page \notin f.unreadable => HasLine(secs, i)

(* A file, as the invariant needs it.                                      *)
LEMMA ShapeOf ==
  ASSUME NEW f \in Files
  PROVE  /\ f.pages \in Nat /\ f.unreadable \subseteq 1 .. f.pages
         /\ DOMAIN f.lines = 1 .. Len(f.lines) /\ Len(f.lines) \in Nat
         /\ \A i \in DOMAIN f.lines :
              /\ f.type = "pdf" => f.lines[i].page \in 1 .. f.pages
              /\ f.type # "pdf" => f.lines[i].page = 0
              /\ \A j \in DOMAIN f.lines : i < j => f.lines[i].page <= f.lines[j].page
              /\ f.lines[i].kind \in {"fence", "tilde"} => ~Blank(f, i)
              /\ f.type = "md" /\ f.lines[i].kind = "heading" => ~Blank(f, i)
<1>1. /\ f.pages \in Nat /\ f.unreadable \subseteq 1 .. f.pages
      /\ f.lines \in Seq({f.lines[i] : i \in DOMAIN f.lines})
      /\ \A i \in DOMAIN f.lines :
            /\ f.lines[i].page \in (IF f.type = "pdf" THEN 1 .. f.pages ELSE {0})
            /\ \A j \in DOMAIN f.lines : i < j => f.lines[i].page <= f.lines[j].page
            /\ \/ f.lines[i].kind \in {"fence", "tilde"}
               \/ f.type = "md" /\ f.lines[i].kind = "heading"
               => f.lines[i].sentences # <<>>
  BY FilesAreShaped
<1>2. DOMAIN f.lines = 1 .. Len(f.lines) /\ Len(f.lines) \in Nat
  <2> DEFINE X == {f.lines[i] : i \in DOMAIN f.lines}
  <2>1. f.lines \in Seq(X)
    BY <1>1
  <2> HIDE DEF X
  <2> QED
    BY <2>1
<1> QED
  BY <1>1, <1>2 DEF Blank

(* Page 0 can be read, and is the page of all lines of a file without      *)
(* pages.                                                                  *)
LEMMA PageZero ==
  ASSUME NEW f \in Files, f.type # "pdf"
  PROVE  0 \in Pages(f) /\ 0 \notin f.unreadable /\ \A i \in DOMAIN f.lines : f.lines[i].page = 0
<1>1. 0 \notin 1 .. f.pages
  BY ShapeOf
<1> QED
  BY <1>1, ShapeOf DEF Pages

(* Before the first line.                                                  *)
LEMMA LinesBegin ==
  ASSUME NEW f \in Files, f.type \in {"md", "docx"}
  PROVE  LinesRead(f, 1, <<>>, NoTitle, FALSE, <<>>)
<1>1. 1 \in 1 .. Len(f.lines) + 1 /\ 1 - 1 = 0 /\ 1 .. 1 - 1 = {}
  BY ShapeOf
<1>2. DOMAIN <<>> = {} /\ Range(<<>>) = {}
  BY NothingIsPlaced
<1> QED
  BY <1>1, <1>2, NothingIsPlaced, NoTitleYet, NoCodeYet DEF LinesRead

(* Before the first page.                                                  *)
LEMMA PagesBegin ==
  ASSUME NEW f \in Files, f.type = "pdf"
  PROVE  PagesRead(f, 1, <<>>)
<1>1. 1 \in 1 .. f.pages + 1
  BY ShapeOf
<1>2. ASSUME NEW i \in DOMAIN f.lines PROVE ~(f.lines[i].page < 1)
  BY ShapeOf
<1>3. DOMAIN <<>> = {}
  OBVIOUS
<1> QED
  BY <1>1, <1>2, <1>3, NothingIsPlaced DEF PagesRead

(* One line more in the buffer, or a blank one that is passed over.        *)
LEMMA OneLineMore ==
  ASSUME NEW f \in Files, f.type \in {"md", "docx"},
         NEW n, NEW buf, NEW heading, NEW code, NEW secs, LinesRead(f, n, buf, heading, code, secs),
         n \in DOMAIN f.lines, ~Heads(f, n),
         NEW list, list = Append(buf, n) \/ (Blank(f, n) /\ list = buf),
         NEW after \in BOOLEAN, f.type = "md" => (after <=> IsCode(f, n))
  PROVE  LinesRead(f, n + 1, list, heading, after, secs)
<1>1. /\ n \in 1 .. Len(f.lines) /\ DOMAIN f.lines = 1 .. Len(f.lines) /\ Len(f.lines) \in Nat
      /\ n \in Nat \ {0} /\ n + 1 - 1 = n
      /\ \A i : i \in 1 .. n + 1 - 1 => i \in 1 .. n - 1 \/ i = n
  BY ShapeOf
<1>2. heading = TitleIn(f, n + 1 - 1)
  <2>1. TitleIn(f, n) = TitleIn(f, n - 1)
    BY <1>1, TitleChanges
  <2> QED
    BY <1>1, <2>1 DEF LinesRead
<1>3. /\ buf \in Seq(DOMAIN f.lines) /\ IsIncreasing(buf) /\ DOMAIN buf = 1 .. Len(buf)
      /\ 0 \in Pages(f) /\ heading \in Titles(f)
      /\ \A i \in Range(buf) : i < n /\ heading = TitleIn(f, i) /\ 0 = f.lines[i].page /\ 0 \notin f.unreadable
  <2>1. buf \in Seq(DOMAIN f.lines)
    BY DEF LinesRead, IsPlaced
  <2> QED
    BY <2>1 DEF LinesRead, IsPlaced
<1>4. /\ list \in Seq(DOMAIN f.lines) /\ IsIncreasing(list)
      /\ \A i \in Range(list) : i \in Range(buf) \/ i = n
      /\ \A i \in Range(buf) : i \in Range(list)
      /\ ~Blank(f, n) => n \in Range(list)
  <2>1. CASE list = Append(buf, n)
    <3>1. \A k \in DOMAIN buf : buf[k] < n
      BY <1>3 DEF Range
    <3>2. IsIncreasing(list)
      <4>1. buf \in Seq(Int) /\ n \in Int
        BY <1>1, <1>3
      <4>2. IsIncreasing(Append(buf, n))
        BY <1>3, <3>1, <4>1, AppendIncreases
      <4> QED
        BY <2>1, <4>2
    <3>3. list \in Seq(DOMAIN f.lines) /\ Range(list) = Range(buf) \cup {n}
      BY <1>3, <2>1, AppendFacts
    <3> QED
      BY <3>2, <3>3
  <2>2. CASE Blank(f, n) /\ list = buf
    BY <1>3, <2>2
  <2> QED
    BY <2>1, <2>2
<1>5. IsPlaced(f, list, 0, heading)
  <2>1. ASSUME NEW i \in Range(list) PROVE heading = TitleIn(f, i) /\ 0 = f.lines[i].page /\ 0 \notin f.unreadable
    BY <1>1, <1>2, <1>3, <1>4, PageZero
  <2> QED
    BY <1>3, <1>4, <2>1 DEF IsPlaced
<1>6. /\ \A i \in Range(list) : i \in Int /\ i < n + 1
      /\ \A k \in DOMAIN secs : \A i \in Range(secs[k].lines) :
           i < n + 1 /\ \A j \in Range(list) : i < j
  <2>1. \A i \in Range(list) : i \in DOMAIN f.lines
    BY <1>4 DEF Range
  <2>2. ASSUME NEW k \in DOMAIN secs, NEW i \in Range(secs[k].lines)
        PROVE  i \in Int /\ i < n /\ \A j \in Range(buf) : i < j
    <3>1. secs[k].lines \in Seq(DOMAIN f.lines)
      BY DEF LinesRead, ArePlaced, IsPlaced
    <3>2. i \in DOMAIN f.lines
      BY <3>1 DEF Range
    <3> QED
      BY <1>1, <3>2 DEF LinesRead
  <2>3. \A i \in Range(list) : i \in Int /\ i < n + 1
    BY <1>1, <1>3, <1>4, <2>1
  <2>4. ASSUME NEW k \in DOMAIN secs, NEW i \in Range(secs[k].lines)
        PROVE  i < n + 1 /\ \A j \in Range(list) : i < j
    <3>0. i \in Int /\ i < n /\ \A j \in Range(buf) : i < j
      BY <2>2, Zenon
    <3>1. i \in Int /\ i < n /\ i < n + 1 /\ \A j \in Range(buf) : i < j
      BY <1>1, <3>0
    <3>2. ASSUME NEW j \in Range(list) PROVE i < j
      <4>1. CASE j \in Range(buf)
        BY <3>1, <4>1
      <4>2. CASE j = n
        BY <3>1, <4>2
      <4> QED
        BY <1>4, <4>1, <4>2
    <3> QED
      BY <3>1, <3>2
  <2> QED
    BY <2>3, <2>4
<1>7. \A i \in 1 .. n + 1 - 1 : ~Blank(f, i) => i \in Range(list) \/ HasLine(secs, i)
  BY <1>1, <1>4 DEF LinesRead
<1>8. n + 1 \in 1 .. Len(f.lines) + 1
  BY <1>1
<1>9. f.type = "md" => (after <=> IsCode(f, n + 1 - 1))
  BY <1>1
<1> QED
  BY <1>2, <1>5, <1>6, <1>7, <1>8, <1>9 DEF LinesRead

(* The sections after a flush of the buffer.                               *)
FlushedTo(f, n, secs) ==
  /\ ArePlaced(f, secs)
  /\ \A k \in DOMAIN secs : secs[k].order = k - 1
  /\ \A k \in DOMAIN secs : \A i \in Range(secs[k].lines) : i < n
  /\ \A i \in 1 .. n - 1 : ~Blank(f, i) => HasLine(secs, i)

(* A flush puts what the buffer has into a section.                        *)
LEMMA FlushIs ==
  ASSUME NEW n, NEW buf, NEW heading, NEW code, NEW secs,
         LinesRead(file, n, buf, heading, code, secs)
  PROVE  FlushedTo(file, n, secs \o MakeSection(buf, 0, heading, Len(secs)))
<1> DEFINE more == secs \o MakeSection(buf, 0, heading, Len(secs))
<1>1. /\ ArePlaced(file, secs) /\ IsPlaced(file, buf, 0, heading)
      /\ secs \in Seq(Sections(file)) /\ Len(secs) \in Nat /\ DOMAIN secs = 1 .. Len(secs)
      /\ \A k \in DOMAIN secs : secs[k].order = k - 1
      /\ \A k \in DOMAIN secs : \A i \in Range(secs[k].lines) :
           i < n /\ \A j \in Range(buf) : i < j
      /\ \A i \in Range(buf) : i < n
      /\ \A i \in 1 .. n - 1 : ~Blank(file, i) => i \in Range(buf) \/ HasLine(secs, i)
  BY DEF LinesRead, ArePlaced
<1>2. \/ (\A i \in Range(buf) : Blank(file, i)) /\ more = secs
      \/ more = Append(secs, Section(buf, 0, heading, Len(secs)))
  BY <1>1, MadeSection
<1> HIDE DEF more
<1>3. ASSUME \A i \in Range(buf) : Blank(file, i), more = secs
      PROVE  FlushedTo(file, n, more)
  <2>1. \A i \in 1 .. n - 1 : ~Blank(file, i) => HasLine(more, i)
    BY <1>1, <1>3
  <2>2. \A k \in DOMAIN more : \A i \in Range(more[k].lines) : i < n
    BY <1>1, <1>3
  <2>3. ArePlaced(file, more) /\ \A k \in DOMAIN more : more[k].order = k - 1
    BY <1>1, <1>3
  <2> QED
    BY <2>1, <2>2, <2>3, Zenon DEF FlushedTo
<1>4. ASSUME more = Append(secs, Section(buf, 0, heading, Len(secs)))
      PROVE  FlushedTo(file, n, more)
  <2>1. \A k \in DOMAIN secs : secs[k].order < Len(secs)
    BY <1>1
  <2>7. \A k \in DOMAIN secs : /\ secs[k].order < Len(secs)
                               /\ \A i \in Range(secs[k].lines), j \in Range(buf) : i < j
    BY <1>1, <2>1
  <2>2. /\ ArePlaced(file, more) /\ DOMAIN more = 1 .. Len(secs) + 1
        /\ \A k \in DOMAIN secs : more[k] = secs[k]
        /\ more[Len(secs) + 1] = Section(buf, 0, heading, Len(secs))
        /\ \A i : HasLine(more, i) <=> HasLine(secs, i) \/ i \in Range(buf)
    <3>1. /\ ArePlaced(file, secs) /\ IsPlaced(file, buf, 0, heading) /\ Len(secs) \in Nat
          /\ more = Append(secs, Section(buf, 0, heading, Len(secs)))
      BY <1>1, <1>4
    <3>2. AreBehind(secs, buf, Len(secs))
      BY <2>7, Zenon DEF AreBehind
    <3>3. HasOneMore(file, secs, buf, Section(buf, 0, heading, Len(secs)), more)
      BY <3>1, <3>2, OneSectionMore
    <3> QED
      BY <3>3, Zenon DEF HasOneMore
  <2>3. /\ more[Len(secs) + 1].order = Len(secs)
        /\ more[Len(secs) + 1].lines = buf
    BY <2>2 DEF Section
  <2>4. \A k \in DOMAIN more : k \in DOMAIN secs \/ k = Len(secs) + 1
    BY <1>1, <2>2
  <2>5. \A k \in DOMAIN more : more[k].order = k - 1
    BY <1>1, <2>2, <2>3, <2>4
  <2>6. \A k \in DOMAIN more : \A i \in Range(more[k].lines) : i < n
    BY <1>1, <2>2, <2>3, <2>4
  <2>8. \A i \in 1 .. n - 1 : ~Blank(file, i) => HasLine(more, i)
    BY <1>1, <2>2
  <2> QED
    BY <2>2, <2>5, <2>6, <2>8, Zenon DEF FlushedTo
<1>5. FlushedTo(file, n, more)
  BY <1>2, <1>3, <1>4, Zenon
<1> QED
  BY <1>5 DEF more

(* A heading begins a buffer of its own.                                   *)
LEMMA OneHeadingMore ==
  ASSUME NEW f \in Files, f.type \in {"md", "docx"}, NEW n \in DOMAIN f.lines, Heads(f, n),
         NEW secs, FlushedTo(f, n, secs),
         NEW code \in BOOLEAN, f.type = "md" => (code <=> IsCode(f, n))
  PROVE  LinesRead(f, n + 1, <<n>>, f.lines[n].title, code, secs)
<1>1. /\ n \in 1 .. Len(f.lines) /\ DOMAIN f.lines = 1 .. Len(f.lines) /\ Len(f.lines) \in Nat
      /\ n \in Nat \ {0} /\ n + 1 - 1 = n /\ n < n + 1 /\ n + 1 \in 1 .. Len(f.lines) + 1
      /\ \A i : i \in 1 .. n + 1 - 1 => i \in 1 .. n - 1 \/ i = n
  BY ShapeOf
<1>2. f.lines[n].title = TitleIn(f, n)
  BY <1>1, TitleChanges
<1>3. /\ <<n>> \in Seq(DOMAIN f.lines) /\ Range(<<n>>) = {n}
      /\ <<n>> \in Seq(Int) /\ DOMAIN <<n>> = {1}
  BY <1>1, SequenceOfOne
<1>4. IsPlaced(f, <<n>>, 0, f.lines[n].title)
  <2>1. IsIncreasing(<<n>>)
    BY <1>3 DEF IsIncreasing
  <2>2. f.lines[n].title \in Titles(f)
    BY <1>1 DEF Titles, Heads
  <2> QED
    BY <1>1, <1>2, <1>3, <2>1, <2>2, PageZero DEF IsPlaced
<1>5. ASSUME NEW k \in DOMAIN secs, NEW i \in Range(secs[k].lines)
      PROVE  i < n + 1 /\ i < n
  <2>1. secs[k].lines \in Seq(DOMAIN f.lines)
    BY DEF FlushedTo, ArePlaced, IsPlaced
  <2>2. i \in DOMAIN f.lines
    BY <2>1 DEF Range
  <2> QED
    BY <1>1, <2>2 DEF FlushedTo
<1> QED
  BY <1>1, <1>2, <1>3, <1>4, <1>5 DEF LinesRead, FlushedTo

-----------------------------------------------------------------------------
(* The lines of a page, and of all of a file.                              *)

(* All lines are in the order of the file.                                 *)
LEMMA AllLinesAre ==
  ASSUME file \in Files
  PROVE  /\ AllLines \in Seq(DOMAIN file.lines) /\ IsIncreasing(AllLines)
         /\ Range(AllLines) = DOMAIN file.lines
<1> DEFINE k == Len(file.lines)
<1>1. DOMAIN file.lines = 1 .. k /\ k \in Nat
  BY ShapeOf
<1> HIDE DEF k
<1>2. AllLines = [i \in 1 .. k |-> i]
  BY <1>1 DEF AllLines
<1>3. AllLines \in [1 .. k -> 1 .. k] /\ DOMAIN AllLines = 1 .. k
  BY <1>2
<1>4. AllLines \in Seq(1 .. k) /\ AllLines \in Seq(Int)
  BY <1>1, <1>3
<1>5. IsIncreasing(AllLines)
  BY <1>2, <1>4 DEF IsIncreasing
<1>6. Range(AllLines) = 1 .. k
  BY <1>2, <1>3 DEF Range
<1> QED
  BY <1>1, <1>4, <1>5, <1>6

(* Text files and PDF files have no headings.                              *)
LEMMA NoHeads ==
  ASSUME NEW f, f.type \notin {"md", "docx"}, NEW i
  PROVE  TitleIn(f, i) = NoTitle
<1>1. Above(f, i) = {}
  BY DEF Above, Heads
<1> QED
  BY <1>1 DEF TitleIn

(* The lines of a page that can be read.                                   *)
LEMMA PageLinesAre ==
  ASSUME file \in Files, file.type = "pdf", at \in 1 .. file.pages
  PROVE  /\ IsPlaced(file, PageLines, at, NoTitle)
         /\ \A i \in Range(PageLines) : i \in DOMAIN file.lines /\ file.lines[i].page = at
         /\ \A i \in DOMAIN file.lines :
              file.lines[i].page = at /\ at \notin file.unreadable => i \in Range(PageLines)
<1> DEFINE kept == {i \in DOMAIN file.lines : Line(i).page = at /\ at \notin file.unreadable}
<1>1. /\ PageLines = Only(AllLines, kept)
      /\ \A i : i \in kept <=> i \in DOMAIN file.lines /\ file.lines[i].page = at /\ at \notin file.unreadable
  BY ParsedFile DEF PageLines
<1> HIDE DEF kept
<1>2. PageLines \in Seq(DOMAIN file.lines) /\ Range(PageLines) = Range(AllLines) \cap kept
  BY <1>1, AllLinesAre, OnlyIs
<1>3. IsIncreasing(PageLines)
  BY <1>1, AllLinesAre, OnlyIncreases
<1>4. \A i : i \in Range(PageLines) <=> i \in kept
  BY <1>1, <1>2, AllLinesAre
<1>5. at \in Pages(file) /\ NoTitle \in Titles(file)
  BY DEF Pages, Titles
<1>6. \A i \in Range(PageLines) :
        NoTitle = TitleIn(file, i) /\ at = file.lines[i].page /\ at \notin file.unreadable
  BY <1>1, <1>4, NoHeads
<1>7. IsPlaced(file, PageLines, at, NoTitle)
  BY <1>2, <1>3, <1>5, <1>6, Zenon DEF IsPlaced
<1> QED
  BY <1>1, <1>4, <1>7

(* A page more.                                                            *)
LEMMA OnePageMore ==
  ASSUME file \in Files, file.type = "pdf", at \in 1 .. file.pages, PagesRead(file, at, sections)
  PROVE  PagesRead(file, at + 1, sections \o MakeSection(PageLines, at, NoTitle, at - 1))
<1> DEFINE more == sections \o MakeSection(PageLines, at, NoTitle, at - 1)
<1>1. /\ file.pages \in Nat /\ at \in Nat \ {0} /\ at - 1 \in Nat /\ at + 1 \in 1 .. file.pages + 1
      /\ \A p \in Int : p < at + 1 => p < at \/ p = at
  BY ShapeOf
<1>2. /\ ArePlaced(file, sections)
      /\ \A k \in DOMAIN sections : sections[k].order = sections[k].page - 1 /\ sections[k].page < at
      /\ \A i \in DOMAIN file.lines :
           ~Blank(file, i) /\ file.lines[i].page < at /\ file.lines[i].page \notin file.unreadable
             => HasLine(sections, i)
  BY DEF PagesRead
<1>3. \/ (\A i \in Range(PageLines) : Blank(file, i)) /\ more = sections
      \/ more = Append(sections, Section(PageLines, at, NoTitle, at - 1))
  BY <1>2, MadeSection
<1> HIDE DEF more
<1>4. ASSUME NEW k \in DOMAIN sections
      PROVE  /\ sections[k].page \in Int
             /\ \A i \in Range(sections[k].lines) : i \in DOMAIN file.lines /\ file.lines[i].page = sections[k].page
  <2>1. IsPlaced(file, sections[k].lines, sections[k].page, sections[k].title)
    BY <1>2 DEF ArePlaced
  <2>2. sections[k].page \in Pages(file) /\ sections[k].lines \in Seq(DOMAIN file.lines)
    BY <2>1 DEF IsPlaced
  <2>3. sections[k].page \in Int
    BY <1>1, <2>2 DEF Pages
  <2> QED
    BY <2>1, <2>2, <2>3 DEF IsPlaced, Range
<1>5. AreBehind(sections, PageLines, at - 1)
  <2> SUFFICES ASSUME NEW k \in DOMAIN sections
               PROVE  /\ sections[k].order < at - 1
                      /\ \A i \in Range(sections[k].lines), j \in Range(PageLines) : i < j
    BY DEF AreBehind
  <2>1. sections[k].order < at - 1
    BY <1>1, <1>2, <1>4
  <2>2. ASSUME NEW i \in Range(sections[k].lines), NEW j \in Range(PageLines)
        PROVE  i < j
    <3>1. /\ i \in DOMAIN file.lines /\ j \in DOMAIN file.lines /\ i \in Int /\ j \in Int
          /\ file.lines[i].page \in Int /\ file.lines[j].page \in Int
          /\ file.lines[i].page < file.lines[j].page
      <4>1. sections[k].page < at /\ sections[k].page \in Int
        BY <1>2, <1>4, Zenon
      <4>2. i \in DOMAIN file.lines /\ file.lines[i].page = sections[k].page
        BY <1>4, Zenon
      <4>3. j \in DOMAIN file.lines /\ file.lines[j].page = at
        BY PageLinesAre, Zenon
      <4>4. i \in Int /\ j \in Int
        BY <4>2, <4>3, ShapeOf
      <4> QED
        BY <1>1, <4>1, <4>2, <4>3, <4>4
    <3>2. j < i => file.lines[j].page <= file.lines[i].page
      BY <3>1, ShapeOf
    <3> QED
      BY <3>1, <3>2
  <2> QED
    BY <2>1, <2>2
<1>6. ASSUME NEW i \in DOMAIN file.lines, ~Blank(file, i), file.lines[i].page < at + 1,
             file.lines[i].page \notin file.unreadable
      PROVE  HasLine(sections, i) \/ i \in Range(PageLines)
  <2>1. file.lines[i].page < at \/ file.lines[i].page = at
    BY <1>1, <1>6, ShapeOf
  <2> QED
    BY <1>2, <1>6, <2>1, PageLinesAre
<1>7. ASSUME \A i \in Range(PageLines) : Blank(file, i), more = sections
      PROVE  PagesRead(file, at + 1, more)
  <2>1. \A k \in DOMAIN more : more[k].order = more[k].page - 1 /\ more[k].page < at + 1
    BY <1>1, <1>2, <1>4, <1>7
  <2>2. \A i \in DOMAIN file.lines :
          ~Blank(file, i) /\ file.lines[i].page < at + 1 /\ file.lines[i].page \notin file.unreadable
            => HasLine(more, i)
    BY <1>6, <1>7
  <2>3. ArePlaced(file, more) /\ at + 1 \in 1 .. file.pages + 1
    BY <1>1, <1>2, <1>7
  <2> QED
    BY <2>1, <2>2, <2>3, Zenon DEF PagesRead
<1>8. ASSUME more = Append(sections, Section(PageLines, at, NoTitle, at - 1))
      PROVE  PagesRead(file, at + 1, more)
  <2>1. IsPlaced(file, PageLines, at, NoTitle)
    BY PageLinesAre
  <2>2. HasOneMore(file, sections, PageLines, Section(PageLines, at, NoTitle, at - 1), more)
    BY <1>1, <1>2, <1>5, <1>8, <2>1, OneSectionMore
  <2>3. /\ ArePlaced(file, more) /\ DOMAIN sections = 1 .. Len(sections) /\ Len(sections) \in Nat
        /\ DOMAIN more = 1 .. Len(sections) + 1
        /\ \A k \in DOMAIN sections : more[k] = sections[k]
        /\ more[Len(sections) + 1] = Section(PageLines, at, NoTitle, at - 1)
        /\ \A i : HasLine(more, i) <=> HasLine(sections, i) \/ i \in Range(PageLines)
    BY <2>2, Zenon DEF HasOneMore
  <2>4. more[Len(sections) + 1].order = at - 1 /\ more[Len(sections) + 1].page = at
    BY <2>3 DEF Section
  <2>5. ASSUME NEW k \in DOMAIN more
        PROVE  more[k].order = more[k].page - 1 /\ more[k].page < at + 1
    <3>1. k \in DOMAIN sections \/ k = Len(sections) + 1
      BY <2>3
    <3> QED
      BY <1>1, <1>2, <1>4, <2>3, <2>4, <3>1
  <2>6. \A i \in DOMAIN file.lines :
          ~Blank(file, i) /\ file.lines[i].page < at + 1 /\ file.lines[i].page \notin file.unreadable
            => HasLine(more, i)
    BY <1>6, <2>3
  <2> QED
    BY <1>1, <2>3, <2>5, <2>6, Zenon DEF PagesRead
<1>9. PagesRead(file, at + 1, more)
  BY <1>3, <1>7, <1>8, Zenon
<1> QED
  BY <1>9 DEF more

-----------------------------------------------------------------------------
(* What ends the parsing of a file.                                        *)

ParsingStages == {"validate", "open", "read", "check", "parsed"}

FileErrors ==
  {"UnsafeFileError", "UnsupportedFileTypeError", "FileNotFoundError", "EmptyDocumentError",
   "FileTooLargeError"}

(* A file that is rejected is so with an error of the list.                *)
LEMMA RejectedWithAnError ==
  ASSUME NEW faults, ~IsValid(faults)
  PROVE  Rejection(faults) \in FileErrors
<1> DEFINE X == {"unsafe name", "unknown type", "signature", "binary", "missing", "outside",
                 "not regular", "empty", "large"} \X FileErrors
           middle == << <<"missing", "FileNotFoundError">>, <<"outside", "UnsafeFileError">>,
                        <<"not regular", "UnsafeFileError">>, <<"empty", "EmptyDocumentError">>,
                        <<"large", "FileTooLargeError">> >>
<1>0. /\ \A a, b \in X : <<a, b>> \in Seq(X)
      /\ \A a, b, c, d, e \in X : <<a, b, c, d, e>> \in Seq(X)
  <2> HIDE DEF X
  <2> QED
    OBVIOUS
<1>1. NameChecks \in Seq(X)
  <2>1. <<"unsafe name", "UnsafeFileError">> \in X /\ <<"unknown type", "UnsupportedFileTypeError">> \in X
    BY DEF FileErrors
  <2> HIDE DEF X
  <2> QED
    BY <1>0, <2>1 DEF NameChecks
<1>2. ContentChecks \in Seq(X)
  <2>1. <<"signature", "UnsupportedFileTypeError">> \in X /\ <<"binary", "UnsafeFileError">> \in X
    BY DEF FileErrors
  <2> HIDE DEF X
  <2> QED
    BY <1>0, <2>1 DEF ContentChecks
<1>3. middle \in Seq(X)
  <2>1. /\ <<"missing", "FileNotFoundError">> \in X /\ <<"outside", "UnsafeFileError">> \in X
        /\ <<"not regular", "UnsafeFileError">> \in X /\ <<"empty", "EmptyDocumentError">> \in X
        /\ <<"large", "FileTooLargeError">> \in X
    BY DEF FileErrors
  <2> HIDE DEF X
  <2> QED
    BY <1>0, <2>1
<1>4. Checks = (NameChecks \o middle) \o ContentChecks
  BY DEF Checks
<1>5. \A check \in X : check[2] \in FileErrors
  OBVIOUS
<1> HIDE DEF X, middle
<1>6. Checks \in Seq(X)
  <2>1. NameChecks \o middle \in Seq(X)
    BY <1>1, <1>3, JoinIs
  <2> QED
    BY <1>2, <1>4, <2>1, JoinIs
<1>7. DOMAIN Checks = 1 .. Len(Checks) /\ Len(Checks) \in Nat /\ \A k \in DOMAIN Checks : Checks[k] \in X
  BY <1>6
<1> DEFINE failed == Rejections(faults)
<1>8. failed \in SUBSET Nat /\ failed # {} /\ failed \subseteq DOMAIN Checks
  BY <1>7 DEF Rejections, IsValid
<1>9. Rejection(faults) = Checks[Min(failed)][2]
  BY DEF Rejection
<1> HIDE DEF failed
<1>10. \E m \in failed : \A n \in failed : m <= n
  BY <1>8, LeastNatural
<1>11. Min(failed) \in failed
  BY <1>10 DEF Min
<1>12. Checks[Min(failed)] \in X
  BY <1>7, <1>8, <1>11
<1> QED
  BY <1>5, <1>9, <1>12

(* After the last line, the flush leaves no line outside of the sections.  *)
LEMMA LinesEnd ==
  ASSUME file \in Files, file.type \in {"md", "docx"}, at \notin DOMAIN file.lines,
         LinesRead(file, at, buffer, title, inCode, sections)
  PROVE  AllRead(file, Flushed)
<1>1. FlushedTo(file, at, Flushed)
  BY FlushIs DEF Flushed
<1>2. DOMAIN file.lines = 1 .. Len(file.lines) /\ Len(file.lines) \in Nat
  BY ShapeOf
<1>3. at \in 1 .. Len(file.lines) + 1
  BY DEF LinesRead
<1>4. 1 .. at - 1 = DOMAIN file.lines
  BY <1>2, <1>3
<1>5. ArePlaced(file, Flushed) /\ \A i \in 1 .. at - 1 : ~Blank(file, i) => HasLine(Flushed, i)
  BY <1>1, Zenon DEF FlushedTo
<1> QED
  BY <1>4, <1>5, Zenon DEF AllRead

(* So does the last page.                                                  *)
LEMMA PagesEnd ==
  ASSUME file \in Files, file.type = "pdf", at > file.pages, PagesRead(file, at, sections)
  PROVE  AllRead(file, sections)
<1>1. /\ at \in 1 .. file.pages + 1 /\ ArePlaced(file, sections)
      /\ \A i \in DOMAIN file.lines :
           ~Blank(file, i) /\ file.lines[i].page < at /\ file.lines[i].page \notin file.unreadable
             => HasLine(sections, i)
  BY DEF PagesRead
<1>2. \A i \in DOMAIN file.lines : file.lines[i].page < at
  BY <1>1, ShapeOf
<1> QED
  BY <1>1, <1>2, Zenon DEF AllRead

(* A text file is one section, or none.                                    *)
LEMMA TextRead ==
  ASSUME file \in Files, file.type = "txt"
  PROVE  AllRead(file, MakeSection(AllLines, 0, NoTitle, 0))
<1> DEFINE none == <<>>
           made == MakeSection(AllLines, 0, NoTitle, 0)
           more == none \o made
<1>1. ArePlaced(file, none) /\ DOMAIN none = {}
  BY NothingIsPlaced
<1>2. \/ (\A i \in Range(AllLines) : Blank(file, i)) /\ more = none
      \/ more = Append(none, Section(AllLines, 0, NoTitle, 0))
  BY <1>1, MadeSection
<1>3. more = made
  <2>1. made = <<>> \/ \E section : made = <<section>>
    BY DEF MakeSection
  <2> HIDE DEF made
  <2> QED
    BY <2>1
<1> HIDE DEF none, made, more
<1>4. IsPlaced(file, AllLines, 0, NoTitle)
  <2>1. /\ AllLines \in Seq(DOMAIN file.lines) /\ IsIncreasing(AllLines)
        /\ Range(AllLines) = DOMAIN file.lines
    BY AllLinesAre
  <2>2. 0 \in Pages(file) /\ NoTitle \in Titles(file)
    BY NothingIsPlaced
  <2>3. \A i \in Range(AllLines) :
          NoTitle = TitleIn(file, i) /\ 0 = file.lines[i].page /\ 0 \notin file.unreadable
    BY <2>1, NoHeads, PageZero
  <2> QED
    BY <2>1, <2>2, <2>3, Zenon DEF IsPlaced
<1>5. ASSUME \A i \in Range(AllLines) : Blank(file, i), more = none
      PROVE  AllRead(file, more)
  BY <1>1, <1>5, AllLinesAre DEF AllRead
<1>6. ASSUME more = Append(none, Section(AllLines, 0, NoTitle, 0))
      PROVE  AllRead(file, more)
  <2>1. AreBehind(none, AllLines, 0)
    BY <1>1 DEF AreBehind
  <2>2. HasOneMore(file, none, AllLines, Section(AllLines, 0, NoTitle, 0), more)
    BY <1>1, <1>4, <1>6, <2>1, OneSectionMore
  <2>3. ArePlaced(file, more) /\ \A i : HasLine(more, i) <=> HasLine(none, i) \/ i \in Range(AllLines)
    BY <2>2, Zenon DEF HasOneMore
  <2> QED
    BY <2>3, AllLinesAre DEF AllRead
<1>7. AllRead(file, more)
  BY <1>2, <1>5, <1>6, Zenon
<1> QED
  BY <1>3, <1>7 DEF made

-----------------------------------------------------------------------------
(* The invariant of the parsers.                                           *)

IsUntouched == at = 1 /\ title = NoTitle /\ buffer = <<>> /\ inCode = FALSE /\ sections = <<>>

IsRead ==
  /\ file.type = "txt" => IsUntouched
  /\ file.type \in {"md", "docx"} => LinesRead(file, at, buffer, title, inCode, sections)
  /\ file.type = "pdf" => PagesRead(file, at, sections)

ParserInvariant ==
  /\ file \in Files
  /\ parsing \in {"validate", "open"} => IsUntouched
  /\ parsing = "read" => IsRead
  /\ parsing \in {"check", "parsed"} => AllRead(file, sections)

(* An error ends the parsing, and asks for nothing more.                   *)
LEMMA EndedIsFine ==
  ASSUME file \in Files, file' = file, parsing' \notin ParsingStages
  PROVE  ParserInvariant'
BY DEF ParserInvariant, ParsingStages

(* Before a file is validated nothing is read of it.                       *)
LEMMA ParserInit == ParsingInit => ParserInvariant
BY DEF ParsingInit, ParserInvariant, IsUntouched

(* A file that is rejected is ended, and one that is not is untouched.     *)
LEMMA ValidateKeeps ==
  ASSUME ParserInvariant, Validate
  PROVE  ParserInvariant'
<1>1. /\ file \in Files /\ file' = file /\ IsUntouched /\ parsing = "validate"
      /\ UNCHANGED <<file, at, title, buffer, inCode, sections, characters>>
  BY DEF ParserInvariant, Validate
<1>2. parsing' = "open" \/ parsing' \notin ParsingStages
  BY RejectedWithAnError DEF Validate, Ends, FileErrors, ParsingStages
<1>3. CASE parsing' = "open"
  BY <1>1, <1>3 DEF ParserInvariant, IsUntouched
<1> QED
  BY <1>1, <1>2, <1>3, EndedIsFine

(* A file that can be opened is read from its first line or page on.       *)
LEMMA OpenKeeps ==
  ASSUME ParserInvariant, OpenText \/ OpenPdf \/ OpenDocx
  PROVE  ParserInvariant'
<1>1. /\ file \in Files /\ IsUntouched /\ parsing = "open"
      /\ UNCHANGED <<file, at, title, buffer, inCode, sections>>
  BY DEF ParserInvariant, OpenText, OpenPdf, OpenDocx
<1>2. parsing' = "read" \/ parsing' \notin ParsingStages
  BY DEF OpenText, OpenPdf, OpenDocx, Ends, ParsingStages
<1>3. CASE parsing' = "read"
  <2>1. IsRead
    BY <1>1, LinesBegin, PagesBegin DEF IsRead, IsUntouched
  <2>2. IsRead'
    BY <1>1, <2>1 DEF IsRead, IsUntouched
  <2> QED
    BY <1>1, <1>3, <2>2 DEF ParserInvariant
<1> QED
  BY <1>1, <1>2, <1>3, EndedIsFine

(* A text file is read at once.                                            *)
LEMMA ReadTextKeeps ==
  ASSUME ParserInvariant, ReadText
  PROVE  ParserInvariant'
<1>1. /\ file \in Files /\ file' = file /\ file.type = "txt"
      /\ sections' = MakeSection(AllLines, 0, NoTitle, 0)
  BY DEF ParserInvariant, ReadText, Reading
<1>2. parsing' = "check" \/ parsing' \notin ParsingStages
  BY DEF ReadText, ParsingStages
<1>3. CASE parsing' = "check"
  <2>1. AllRead(file', sections')
    BY <1>1, TextRead
  <2> QED
    BY <1>1, <1>3, <2>1 DEF ParserInvariant
<1> QED
  BY <1>1, <1>2, <1>3, EndedIsFine

(* What the steps of the line parsers start from.                          *)
LEMMA LinesSoFar ==
  ASSUME ParserInvariant, parsing = "read", file.type \in {"md", "docx"}
  PROVE  /\ file \in Files /\ LinesRead(file, at, buffer, title, inCode, sections)
         /\ inCode \in BOOLEAN /\ (file.type = "md" => (inCode <=> IsCode(file, at - 1)))
<1>1. file \in Files /\ LinesRead(file, at, buffer, title, inCode, sections)
  BY DEF ParserInvariant, IsRead
<1> QED
  BY <1>1 DEF LinesRead

(* What they have to show.                                                 *)
LEMMA LinesGoOn ==
  ASSUME file \in Files, file' = file, file.type \in {"md", "docx"}, parsing' = "read",
         LinesRead(file, at', buffer', title', inCode', sections')
  PROVE  ParserInvariant'
BY DEF ParserInvariant, IsRead

(* A fence or a line of text or code is no heading.                        *)
LEMMA MarkdownLineKeeps ==
  ASSUME ParserInvariant, MarkdownFence \/ MarkdownLine
  PROVE  ParserInvariant'
<1>1. /\ parsing = "read" /\ file.type = "md" /\ at \in DOMAIN file.lines
      /\ file' = file /\ parsing' = "read" /\ at' = at + 1 /\ buffer' = Append(buffer, at)
      /\ title' = title /\ sections' = sections
  BY DEF MarkdownFence, MarkdownLine, Reading, AtLine, TakeLine
<1>2. /\ file \in Files /\ LinesRead(file, at, buffer, title, inCode, sections)
      /\ inCode \in BOOLEAN /\ (inCode <=> IsCode(file, at - 1))
  BY <1>1, LinesSoFar
<1>3. /\ at \in Nat \ {0}
      /\ file.lines[at].kind \in {"fence", "tilde"} => (IsCode(file, at) <=> ~IsCode(file, at - 1))
      /\ file.lines[at].kind \notin {"fence", "tilde"} =>
           /\ IsCode(file, at) <=> IsCode(file, at - 1)
           /\ Cardinality(Marks(file, at)) % 2 = 0 <=> ~IsCode(file, at - 1)
  <2>1. at \in Nat \ {0}
    BY <1>1, <1>2, ShapeOf
  <2> QED
    BY <2>1, CodeChanges
<1>4. inCode' \in BOOLEAN /\ (inCode' <=> IsCode(file, at)) /\ ~Heads(file, at)
  <2>1. CASE MarkdownFence
    <3>1. file.lines[at].kind \in {"fence", "tilde"} /\ inCode' = ~inCode
      BY <2>1 DEF MarkdownFence, Line
    <3>2. ~Heads(file, at)
      BY <3>1 DEF Heads
    <3> QED
      BY <1>2, <1>3, <3>1, <3>2
  <2>2. CASE MarkdownLine
    <3>1. /\ file.lines[at].kind \notin {"fence", "tilde"} /\ inCode' = inCode
          /\ ~(file.lines[at].kind = "heading" /\ ~inCode)
      BY <2>2 DEF MarkdownLine, Line, StartsSection
    <3>2. ~Heads(file, at)
      BY <1>1, <1>2, <1>3, <3>1 DEF Heads
    <3> QED
      BY <1>2, <1>3, <3>1, <3>2
  <2> QED
    BY <2>1, <2>2
<1>5. LinesRead(file, at + 1, buffer', title, inCode', sections)
  BY <1>1, <1>2, <1>4, OneLineMore
<1> QED
  BY <1>1, <1>2, <1>5, LinesGoOn

(* A heading outside of code flushes the buffer and begins a new one.      *)
LEMMA MarkdownHeadingKeeps ==
  ASSUME ParserInvariant, MarkdownHeading
  PROVE  ParserInvariant'
<1>1. /\ parsing = "read" /\ file.type = "md" /\ at \in DOMAIN file.lines
      /\ file' = file /\ parsing' = "read" /\ at' = at + 1 /\ buffer' = <<at>>
      /\ title' = file.lines[at].title /\ sections' = Flushed /\ inCode' = inCode
      /\ file.lines[at].kind = "heading" /\ ~inCode
  BY DEF MarkdownHeading, Reading, AtLine, StartsSection, Line
<1>2. /\ file \in Files /\ LinesRead(file, at, buffer, title, inCode, sections)
      /\ inCode \in BOOLEAN /\ (inCode <=> IsCode(file, at - 1))
  BY <1>1, LinesSoFar
<1>3. (IsCode(file, at) <=> IsCode(file, at - 1)) /\ Cardinality(Marks(file, at)) % 2 = 0
  <2>1. at \in Nat \ {0}
    BY <1>1, <1>2, ShapeOf
  <2> QED
    BY <1>1, <1>2, <2>1, CodeChanges
<1>4. Heads(file, at)
  <2>1. ~Blank(file, at)
    BY <1>1, <1>2, ShapeOf
  <2> QED
    BY <1>1, <1>3, <2>1 DEF Heads
<1>5. FlushedTo(file, at, Flushed)
  BY <1>2, FlushIs DEF Flushed
<1>6. LinesRead(file, at + 1, <<at>>, file.lines[at].title, inCode, Flushed)
  BY <1>1, <1>2, <1>3, <1>4, <1>5, OneHeadingMore
<1> QED
  BY <1>1, <1>2, <1>6, LinesGoOn

(* A block of a DOCX file does one or the other, or ends the parsing.      *)
LEMMA DocxBlockKeeps ==
  ASSUME ParserInvariant, DocxBlock
  PROVE  ParserInvariant'
<1> DEFINE heads == Line(at).kind = "heading" /\ ~IsBlank(at)
           before == IF heads THEN <<>> ELSE buffer
<1>1. /\ parsing = "read" /\ file.type = "docx" /\ at \in DOMAIN file.lines
      /\ file' = file /\ at' = at + 1 /\ inCode' = inCode
      /\ parsing' = "read" \/ parsing' = "ExtractedTextLimitError"
      /\ sections' = IF heads THEN Flushed ELSE sections
      /\ title' = IF heads THEN Line(at).title ELSE title
      /\ buffer' = IF IsBlank(at) THEN before ELSE Append(before, at)
  BY DEF DocxBlock, Reading, AtLine
<1>2. /\ file \in Files /\ LinesRead(file, at, buffer, title, inCode, sections)
      /\ inCode \in BOOLEAN
  BY <1>1, LinesSoFar
<1>3. /\ heads <=> Heads(file, at)
      /\ IsBlank(at) <=> Blank(file, at)
      /\ Line(at).title = file.lines[at].title
  BY <1>1, ParsedFile DEF Heads
<1>4. heads => ~IsBlank(at)
  OBVIOUS
<1> HIDE DEF heads
<1>5. LinesRead(file, at + 1, buffer', title', inCode', sections')
  <2>1. CASE heads
    <3>1. FlushedTo(file, at, Flushed)
      BY <1>2, FlushIs DEF Flushed
    <3>2. LinesRead(file, at + 1, <<at>>, file.lines[at].title, inCode, Flushed)
      BY <1>1, <1>2, <1>3, <2>1, <3>1, OneHeadingMore
    <3>3. buffer' = <<at>> /\ title' = file.lines[at].title /\ sections' = Flushed
      BY <1>1, <1>3, <1>4, <2>1
    <3> QED
      BY <1>1, <3>2, <3>3
  <2>2. CASE ~heads
    <3>1. /\ buffer' = Append(buffer, at) \/ (Blank(file, at) /\ buffer' = buffer)
          /\ title' = title /\ sections' = sections /\ ~Heads(file, at)
      BY <1>1, <1>3, <2>2
    <3>2. LinesRead(file, at + 1, buffer', title, inCode, sections)
      BY <1>1, <1>2, <3>1, OneLineMore
    <3> QED
      BY <1>1, <3>1, <3>2
  <2> QED
    BY <2>1, <2>2
<1>6. CASE parsing' = "read"
  BY <1>1, <1>2, <1>5, <1>6, LinesGoOn
<1>7. CASE parsing' = "ExtractedTextLimitError"
  BY <1>1, <1>2, <1>7, EndedIsFine DEF ParsingStages
<1> QED
  BY <1>1, <1>6, <1>7

(* The last flush leaves nothing in the buffer.                            *)
LEMMA EndOfLinesKeeps ==
  ASSUME ParserInvariant, EndOfLines
  PROVE  ParserInvariant'
<1>1. /\ parsing = "read" /\ file.type \in {"md", "docx"} /\ at \notin DOMAIN file.lines
      /\ file' = file /\ sections' = Flushed
  BY DEF EndOfLines, AtLine
<1>2. file \in Files /\ LinesRead(file, at, buffer, title, inCode, sections)
  BY <1>1, LinesSoFar
<1>3. parsing' = "check" \/ parsing' \notin ParsingStages
  BY DEF EndOfLines, ParsingStages
<1>4. CASE parsing' = "check"
  <2>1. AllRead(file', sections')
    BY <1>1, <1>2, LinesEnd
  <2> QED
    BY <1>1, <1>2, <1>4, <2>1 DEF ParserInvariant
<1> QED
  BY <1>1, <1>2, <1>3, <1>4, EndedIsFine

(* A page is a section, unless it is empty, or ends the parsing.           *)
LEMMA PdfPageKeeps ==
  ASSUME ParserInvariant, PdfPage
  PROVE  ParserInvariant'
<1>1. /\ parsing = "read" /\ file.type = "pdf" /\ at <= file.pages /\ file' = file
      /\ \/ parsing' = "ExtractedTextLimitError"
         \/ /\ sections' = sections \o MakeSection(PageLines, at, NoTitle, at - 1)
            /\ at' = at + 1 /\ parsing' = "read"
  BY DEF PdfPage, Reading, Ends
<1>2. file \in Files /\ PagesRead(file, at, sections)
  BY <1>1 DEF ParserInvariant, IsRead
<1>3. at \in 1 .. file.pages
  BY <1>1, <1>2, ShapeOf DEF PagesRead
<1>4. CASE parsing' = "ExtractedTextLimitError"
  BY <1>1, <1>2, <1>4, EndedIsFine DEF ParsingStages
<1>5. CASE /\ sections' = sections \o MakeSection(PageLines, at, NoTitle, at - 1)
           /\ at' = at + 1 /\ parsing' = "read"
  <2>1. PagesRead(file', at', sections')
    BY <1>1, <1>2, <1>3, <1>5, OnePageMore
  <2>2. IsRead'
    BY <1>1, <2>1 DEF IsRead
  <2> QED
    BY <1>1, <1>2, <1>5, <2>2 DEF ParserInvariant
<1> QED
  BY <1>1, <1>4, <1>5

(* After the last page there is nothing to flush.                          *)
LEMMA EndOfPagesKeeps ==
  ASSUME ParserInvariant, EndOfPages
  PROVE  ParserInvariant'
<1>1. /\ parsing = "read" /\ file.type = "pdf" /\ at > file.pages
      /\ file' = file /\ sections' = sections
  BY DEF EndOfPages, Reading
<1>2. file \in Files /\ PagesRead(file, at, sections)
  BY <1>1 DEF ParserInvariant, IsRead
<1>3. parsing' = "check" \/ parsing' \notin ParsingStages
  BY DEF EndOfPages, ParsingStages
<1>4. CASE parsing' = "check"
  <2>1. AllRead(file', sections')
    BY <1>1, <1>2, PagesEnd
  <2> QED
    BY <1>1, <1>2, <1>4, <2>1 DEF ParserInvariant
<1> QED
  BY <1>1, <1>2, <1>3, <1>4, EndedIsFine

(* The last check changes no section.                                      *)
LEMMA CheckExtractedKeeps ==
  ASSUME ParserInvariant, CheckExtracted
  PROVE  ParserInvariant'
<1>1. /\ file \in Files /\ file' = file /\ sections' = sections /\ AllRead(file, sections)
      /\ parsing' = "parsed" \/ parsing' = "ExtractedTextLimitError"
  BY DEF ParserInvariant, CheckExtracted
<1>2. CASE parsing' = "parsed"
  <2>1. AllRead(file', sections')
    BY <1>1
  <2> QED
    BY <1>1, <1>2, <2>1 DEF ParserInvariant
<1>3. CASE parsing' = "ExtractedTextLimitError"
  BY <1>1, <1>3, EndedIsFine DEF ParsingStages
<1> QED
  BY <1>1, <1>2, <1>3

(* No step of a parser breaks its invariant.                               *)
LEMMA ParsingKeeps == ParserInvariant /\ [ParsingStep]_parsingVars => ParserInvariant'
<1> SUFFICES ASSUME ParserInvariant, [ParsingStep]_parsingVars PROVE ParserInvariant'
  OBVIOUS
<1>1. CASE ParsingStep
  BY <1>1, ValidateKeeps, OpenKeeps, ReadTextKeeps, MarkdownLineKeeps, MarkdownHeadingKeeps,
     DocxBlockKeeps, EndOfLinesKeeps, PdfPageKeeps, EndOfPagesKeeps, CheckExtractedKeeps
     DEF ParsingStep
<1>2. CASE UNCHANGED parsingVars
  BY <1>2 DEF parsingVars, ParserInvariant, IsRead, IsUntouched
<1> QED
  BY <1>1, <1>2

(* What a parser hands over has every line in its section.                 *)
LEMMA LinesAreInSections == ParserInvariant => EveryLineIsInItsSection
<1> SUFFICES ASSUME ParserInvariant, parsing = "parsed"
             PROVE  EveryLineIsInItsSection
  BY DEF EveryLineIsInItsSection
<1>1. AllRead(file, sections)
  BY DEF ParserInvariant
<1>2. /\ ArePlaced(file, sections)
      /\ \A i \in DOMAIN file.lines :
           ~Blank(file, i) /\ file.lines[i].page \notin file.unreadable => HasLine(sections, i)
  BY <1>1, Zenon DEF AllRead
<1>3. /\ \A k \in DOMAIN sections : IsPlaced(file, sections[k].lines, sections[k].page, sections[k].title)
      /\ \A k, l \in DOMAIN sections : k < l =>
           /\ sections[k].order < sections[l].order
           /\ \A i \in Range(sections[k].lines), j \in Range(sections[l].lines) : i < j
  BY <1>2, Zenon DEF ArePlaced
<1>4. \A i \in DOMAIN file.lines :
        ~IsBlank(i) /\ Line(i).page \notin file.unreadable =>
          \E section \in Range(sections) : i \in Range(section.lines)
  <2> SUFFICES ASSUME NEW i \in DOMAIN file.lines, ~IsBlank(i), Line(i).page \notin file.unreadable
               PROVE  \E section \in Range(sections) : i \in Range(section.lines)
    OBVIOUS
  <2>1. HasLine(sections, i)
    BY <1>2, ParsedFile
  <2>2. PICK k \in DOMAIN sections : i \in Range(sections[k].lines)
    BY <2>1 DEF HasLine
  <2>3. sections[k] \in Range(sections)
    BY DEF Range
  <2> QED
    BY <2>2, <2>3
<1>5. ASSUME NEW k \in DOMAIN sections, NEW l \in DOMAIN sections,
             NEW m \in DOMAIN sections[k].lines, NEW n \in DOMAIN sections[l].lines,
             k < l \/ (k = l /\ m < n)
      PROVE  sections[k].lines[m] < sections[l].lines[n]
  <2>1. CASE k < l
    <3>1. sections[k].lines[m] \in Range(sections[k].lines) /\ sections[l].lines[n] \in Range(sections[l].lines)
      BY DEF Range
    <3> QED
      BY <1>3, <2>1, <3>1
  <2>2. CASE k = l /\ m < n
    <3>1. IsIncreasing(sections[k].lines)
      BY <1>3 DEF IsPlaced
    <3> QED
      BY <2>2, <3>1 DEF IsIncreasing
  <2> QED
    BY <1>5, <2>1, <2>2
<1>6. ASSUME NEW section \in Range(sections), NEW i \in Range(section.lines)
      PROVE  /\ section.title = TitleAt(i) /\ section.page = Line(i).page
             /\ Line(i).page \notin file.unreadable
  <2>1. PICK k \in DOMAIN sections : section = sections[k]
    BY DEF Range
  <2>2. IsPlaced(file, section.lines, section.page, section.title)
    BY <1>3, <2>1
  <2>3. section.title = TitleIn(file, i) /\ section.page = file.lines[i].page /\ section.page \notin file.unreadable
    BY <2>2 DEF IsPlaced
  <2> QED
    BY <2>3, ParsedFile
<1>7. \A k, l \in DOMAIN sections : k < l => sections[k].order < sections[l].order
  BY <1>3
<1> QED
  BY <1>4, <1>5, <1>6, <1>7 DEF EveryLineIsInItsSection

-----------------------------------------------------------------------------
(* From the file to its chunks.                                            *)

(* The steps of the chunker leave the parser alone, and the other way round. *)
LEMMA FileParsingKeeps == ParserInvariant /\ [FileNext]_fileVars => ParserInvariant'
<1> SUFFICES ASSUME ParserInvariant, [FileNext]_fileVars PROVE ParserInvariant'
  OBVIOUS
<1>1. [ParsingStep]_parsingVars
  BY DEF FileNext, ParseOn, HandOver, ChunkOn, fileVars
<1> QED
  BY <1>1, ParsingKeeps

(* For all files and all limits, the parsers keep their invariant.         *)
THEOREM ParsersKeepTheirPlace == FileSpec => []ParserInvariant
<1>1. FileInit => ParserInvariant
  BY ParserInit DEF FileInit
<1> QED
  BY <1>1, FileParsingKeeps, PTL DEF FileSpec

(* Every line of a parsed file that could be read is in a section, once,   *)
(* in the order of the file, and under its own title and page.             *)
THEOREM LinesStayInTheirSections == FileSpec => []EveryLineIsInItsSection
BY ParsersKeepTheirPlace, LinesAreInSections, PTL

(* The lines of a section become paragraphs.                               *)
LEMMA ParagraphsOfSection ==
  ASSUME file \in Files, NEW secs, ArePlaced(file, secs), NEW k \in DOMAIN secs
  PROVE  [n \in DOMAIN Pieces(secs[k].lines) |->
            ParagraphOf(secs[k], Pieces(secs[k].lines)[n])] \in Seq(FlatParagraphs)
<1> DEFINE pieces == Pieces(secs[k].lines)
           place == <<secs[k].page, secs[k].title>>
<1>1. IsPlaced(file, secs[k].lines, secs[k].page, secs[k].title)
  BY DEF ArePlaced
<1>2. place \in Places
  <2>1. secs[k].page \in Pages(file) /\ secs[k].title \in Titles(file)
    BY <1>1 DEF IsPlaced
  <2>2. Titles(file) = {NoTitle} \cup {line.title : line \in {file.lines[i] : i \in {j \in DOMAIN file.lines :
                         file.lines[j].kind = "heading" /\ file.lines[j].sentences # <<>>}}}
    BY DEF Titles, Blank
  <2>3. Pages(file) \X Titles(file) \subseteq Places
    BY <2>2, FilesHavePlaces DEF Pages
  <2>4. place \in Pages(file) \X Titles(file)
    BY <2>1
  <2> QED
    BY <2>3, <2>4
<1>3. /\ pieces \in Seq(Seq(DOMAIN file.lines))
      /\ \A piece \in Range(pieces) : HasText(piece)
  <2>1. secs[k].lines \in Seq(DOMAIN file.lines)
    BY <1>1 DEF IsPlaced
  <2>2. \A i \in DOMAIN file.lines : Line(i).kind = "fence" => ~IsBlank(i)
    BY ParsedFile, ShapeOf
  <2> QED
    BY <2>1, <2>2, PiecesAre
<1> HIDE DEF pieces, place
<1>4. DOMAIN pieces = 1 .. Len(pieces) /\ Len(pieces) \in Nat
  BY <1>3
<1>5. ASSUME NEW n \in DOMAIN pieces
      PROVE  ParagraphOf(secs[k], pieces[n]) \in FlatParagraphs
  <2>1. pieces[n] \in Seq(DOMAIN file.lines) /\ HasText(pieces[n])
    BY <1>3, <1>4 DEF Range
  <2>2. GluedLines(pieces[n]).sentences \in LineTexts \ {<<>>}
    BY <2>1, GluedLinesAre
  <2>3. ParagraphOf(secs[k], pieces[n]) = [place |-> place, sentences |-> GluedLines(pieces[n]).sentences]
    BY DEF ParagraphOf, place
  <2> QED
    BY <1>2, <2>2, <2>3 DEF FlatParagraphs
<1> DEFINE paragraphs == [n \in DOMAIN pieces |-> ParagraphOf(secs[k], pieces[n])]
<1>6. paragraphs \in Seq(FlatParagraphs)
  <2>1. paragraphs \in [1 .. Len(pieces) -> FlatParagraphs]
    BY <1>4, <1>5
  <2> HIDE DEF paragraphs
  <2> QED
    BY <1>4, <2>1
<1> QED
  BY <1>6 DEF pieces

(* What a parser hands over is laid out as the chunker needs it.           *)
LEMMA ParsedTextIsLaidOut ==
  ASSUME file \in Files, ArePlaced(file, sections)
  PROVE  IsLaidOut(ParsedText)
<1> DEFINE Of(k) == [n \in DOMAIN Pieces(sections[k].lines) |->
                       ParagraphOf(sections[k], Pieces(sections[k].lines)[n])]
           all == [k \in DOMAIN sections |-> Of(k)]
<1>1. \A k \in DOMAIN sections : Of(k) \in Seq(FlatParagraphs)
  BY ParagraphsOfSection
<1>2. ParsedText = LaidOut(FlattenSeq(all))
  BY DEF ParsedText
<1>3. DOMAIN sections = 1 .. Len(sections) /\ Len(sections) \in Nat
  <2>1. sections \in Seq(Sections(file))
    BY DEF ArePlaced
  <2> QED
    BY <2>1
<1> HIDE DEF Of
<1>4. all \in [1 .. Len(sections) -> Seq(FlatParagraphs)]
  BY <1>1, <1>3
<1> HIDE DEF all
<1>5. all \in Seq(Seq(FlatParagraphs))
  BY <1>3, <1>4
<1>6. FlattenSeq(all) \in Seq(FlatParagraphs)
  BY <1>5, FlattenIs
<1> QED
  BY <1>2, <1>6, LaidOutIsLaidOut

(* The chunker has not begun, or keeps its own invariants.                 *)
NothingIsCut ==
  stage = "parse" /\ text = <<>> /\ next = 1
  /\ units = <<>> /\ todo = <<>> /\ current = <<>> /\ result = <<>>

FileInvariant ==
  /\ ParserInvariant
  /\ \/ NothingIsCut
     \/ ChunkingInvariant /\ LayoutInvariant

(* No step from the file to its chunks breaks the invariant.               *)
LEMMA FileKeeps == FileInvariant /\ [FileNext]_fileVars => FileInvariant'
<1> SUFFICES ASSUME FileInvariant, [FileNext]_fileVars PROVE FileInvariant'
  OBVIOUS
<1>1. ParserInvariant /\ ParserInvariant'
  BY FileParsingKeeps DEF FileInvariant
<1>2. CASE ParseOn
  BY <1>1, <1>2 DEF ParseOn, FileInvariant, NothingIsCut, ChunkingInvariant, TypeOK, Stages, vars
<1>3. CASE HandOver
  <2>1. /\ parsing = "parsed" /\ NothingIsCut
        /\ text' = ParsedText /\ stage' = "split"
        /\ UNCHANGED <<units, next, todo, current, result>>
    BY <1>3 DEF HandOver, FileInvariant, ChunkingInvariant, TypeOK, Stages
  <2>2. ArePlaced(file, sections) /\ file \in Files
    BY <1>1, <2>1 DEF ParserInvariant, AllRead
  <2>3. IsLaidOut(text')
    BY <2>1, <2>2, ParsedTextIsLaidOut
  <2>4. Start'
    BY <2>1, <2>3 DEF Start, NothingIsCut
  <2>5. ChunkingInvariant' /\ LayoutInvariant'
    BY <2>4, StartIsInvariant, StartIsLaidOut, PTL
  <2> QED
    BY <1>1, <2>5 DEF FileInvariant
<1>4. CASE ChunkOn
  <2>1. ChunkingInvariant /\ LayoutInvariant /\ Next
    BY <1>4 DEF ChunkOn, FileInvariant, NothingIsCut
  <2>2. ChunkingInvariant' /\ LayoutInvariant'
    BY <2>1, NextKeeps, NextLays
  <2> QED
    BY <1>1, <2>2 DEF FileInvariant
<1>5. CASE UNCHANGED fileVars
  <2>1. UNCHANGED vars
    BY <1>5 DEF fileVars
  <2>2. CASE NothingIsCut
    BY <1>1, <2>1, <2>2 DEF FileInvariant, NothingIsCut, vars
  <2>3. CASE ChunkingInvariant /\ LayoutInvariant
    BY <1>1, <2>1, <2>3, NextKeeps, NextLays DEF FileInvariant
  <2> QED
    BY <2>2, <2>3 DEF FileInvariant
<1> QED
  BY <1>2, <1>3, <1>4, <1>5 DEF FileNext

(* For all files, limits and settings, the parsers and the chunker keep    *)
(* their invariants one after the other.                                   *)
THEOREM FilesAreKept == FileSpec => []FileInvariant
<1>1. FileInit => FileInvariant
  BY ParserInit DEF FileInit, FileInvariant, NothingIsCut
<1> QED
  BY <1>1, FileKeeps, PTL DEF FileSpec

(* No unit of the text of a file is ever over the maximum.                 *)
THEOREM FilesFit == FileSpec => []ChunksFit
<1>1. FileInvariant => ChunksFit
  <2>1. NothingIsCut => ChunksFit
    BY NothingIsPlaced DEF NothingIsCut, ChunksFit, UnitsSeen
  <2> QED
    BY <2>1, UnitsFit DEF FileInvariant
<1> QED
  BY <1>1, FilesAreKept, PTL

(* No letter of a file is lost or in two chunks.                           *)
THEOREM FilesLoseNothing == FileSpec => []NothingIsLost
<1>1. FileInvariant => NothingIsLost
  <2>1. NothingIsCut => NothingIsLost
    <3> SUFFICES ASSUME NothingIsCut PROVE NothingIsLost
      OBVIOUS
    <3>1. text = <<>> /\ units = <<>> /\ DOMAIN <<>> = {} /\ Range(<<>>) = {}
      BY NothingIsPlaced DEF NothingIsCut
    <3>2. Letters = {}
      BY <3>1 DEF Letters, LettersOf
    <3> QED
      BY <3>1, <3>2 DEF NothingIsLost
  <2> QED
    BY <2>1, LettersAreHeld DEF FileInvariant
<1> QED
  BY <1>1, FilesAreKept, PTL

(* The chunks of a file have one page and one heading each.                *)
THEOREM FilesKeepPlaces == FileSpec => []PlacesAreKept
<1>1. FileInvariant => PlacesAreKept
  <2>1. NothingIsCut => PlacesAreKept
    BY DEF NothingIsCut, PlacesAreKept
  <2> QED
    BY <2>1, UnitsKeepPlaces DEF FileInvariant
<1> QED
  BY <1>1, FilesAreKept, PTL

(* A short chunk of a file says so.                                        *)
THEOREM FilesWarnOfShortChunks == FileSpec => []ShortChunksAreWarned
<1>1. FileInvariant => ShortChunksAreWarned
  <2>1. NothingIsCut => ShortChunksAreWarned
    BY DEF NothingIsCut, ShortChunksAreWarned
  <2> QED
    BY <2>1, ShortUnitsSaySo DEF FileInvariant
<1> QED
  BY <1>1, FilesAreKept, PTL

-----------------------------------------------------------------------------
(* Three sequences, joined in either order.                                *)
Regroups(X) == \A a, b, c \in Seq(X) : a \o (b \o c) = (a \o b) \o c

LEMMA Regrouped ==
  ASSUME NEW X
  PROVE  Regroups(X)
BY ConcatAssociative DEF Regroups

(* Sequences spelt: every element stands for a sequence.                   *)

(* The sequences of a sequence, piled up one after the other.              *)
Piles(X, seqs) ==
  {c \in [0 .. Len(seqs) -> Seq(X)] :
     c[0] = <<>> /\ \A n \in 1 .. Len(seqs) : c[n] = c[n - 1] \o seqs[n]}

(* All of them make the sequence flat.                                     *)
LEMMA FlatPiles ==
  ASSUME NEW X, NEW seqs \in Seq(Seq(X))
  PROVE  \E c : c \in Piles(X, seqs) /\ c[Len(seqs)] = FlattenSeq(seqs)
<1>1. Len(seqs) \in Nat /\ \A n \in 1 .. Len(seqs) : seqs[n] \in Seq(X)
  OBVIOUS
<1> DEFINE step == [n \in 1 .. Len(seqs) |-> [v \in Seq(X) |-> v \o seqs[n]]]
<1>2. step \in Steps(Seq(X), Len(seqs)) /\ <<>> \in Seq(X)
  <2>1. \A n \in 1 .. Len(seqs) : [v \in Seq(X) |-> v \o seqs[n]] \in [Seq(X) -> Seq(X)]
    BY <1>1
  <2> QED
    BY <2>1 DEF Steps
<1>3. \A n \in 1 .. Len(seqs), v \in Seq(X) : step[n][v] = v \o seqs[n]
  OBVIOUS
<1> HIDE DEF step
<1>4. PICK c : c \in Chains(Seq(X), <<>>, Len(seqs), step)
  BY <1>1, <1>2, ChainExists, Zenon
<1>5. /\ c \in [0 .. Len(seqs) -> Seq(X)] /\ c[0] = <<>>
      /\ \A n \in 1 .. Len(seqs) : c[n] = step[n][c[n - 1]]
  BY <1>4, Zenon DEF Chains
<1>6. ASSUME NEW n \in 1 .. Len(seqs) PROVE c[n] = c[n - 1] \o seqs[n]
  <2>1. n - 1 \in 0 .. Len(seqs)
    BY <1>1
  <2>2. c[n - 1] \in Seq(X)
    BY <1>5, <2>1
  <2> QED
    BY <1>3, <1>5, <2>2
<1>7. c \in Piles(X, seqs)
  BY <1>5, <1>6, Zenon DEF Piles
<1>8. CASE Len(seqs) = 0
  BY <1>5, <1>7, <1>8 DEF FlattenSeq
<1>9. CASE Len(seqs) # 0
  <2> DEFINE flatten == CHOOSE f : f = [i \in 1 .. Len(seqs) |->
                          IF i = 1 THEN seqs[i] ELSE f[i - 1] \o seqs[i]]
             f == [i \in 1 .. Len(seqs) |-> c[i]]
  <2>1. f = [i \in 1 .. Len(seqs) |-> IF i = 1 THEN seqs[i] ELSE f[i - 1] \o seqs[i]]
    <3>1. ASSUME NEW i \in 1 .. Len(seqs)
          PROVE  c[i] = IF i = 1 THEN seqs[i] ELSE f[i - 1] \o seqs[i]
      <4>1. CASE i = 1
        <5>1. c[0] \o seqs[i] = seqs[i]
          BY <1>1, <1>5, ConcatEmptySeq
        <5>2. c[i] = c[i - 1] \o seqs[i]
          BY <1>6, Zenon
        <5>3. i - 1 = 0
          BY <4>1
        <5> QED
          BY <4>1, <5>1, <5>2, <5>3, Zenon
      <4>2. CASE i # 1
        <5>1. i - 1 \in 1 .. Len(seqs)
          BY <1>1, <4>2
        <5> QED
          BY <1>6, <4>2, <5>1
      <4> QED
        BY <4>1, <4>2
    <3> QED
      BY <3>1
  <2>2. flatten = [i \in 1 .. Len(seqs) |-> IF i = 1 THEN seqs[i] ELSE flatten[i - 1] \o seqs[i]]
    <3> HIDE DEF f
    <3> QED
      BY <2>1, Zenon
  <2>3. FlattenSeq(seqs) = flatten[Len(seqs)]
    BY <1>9, Zenon DEF FlattenSeq
  <2> HIDE DEF flatten
  <2> DEFINE T == {n \in 0 .. Len(seqs) : n = 0 \/ c[n] = flatten[n]}
  <2>4. 0 \in T
    BY <1>1
  <2>5. ASSUME NEW n \in 1 .. Len(seqs), n - 1 \in T PROVE n \in T
    <3>1. n \in 0 .. Len(seqs)
      BY <1>1
    <3>2. CASE n = 1
      <4>1. c[0] \o seqs[n] = seqs[n]
        BY <1>1, <1>5, ConcatEmptySeq
      <4>2. c[n] = c[n - 1] \o seqs[n]
        BY <1>6, Zenon
      <4>3. flatten[n] = seqs[n]
        BY <2>2, <3>2
      <4>4. n - 1 = 0
        BY <3>2
      <4> QED
        BY <3>1, <4>1, <4>2, <4>3, <4>4
    <3>3. CASE n # 1
      <4>1. n - 1 # 0
        BY <1>1, <3>3
      <4>2. c[n - 1] = flatten[n - 1]
        BY <2>5, <4>1
      <4> QED
        BY <1>6, <2>2, <3>1, <3>3, <4>2
    <3> QED
      BY <3>2, <3>3
  <2>6. Len(seqs) \in T
    <3> HIDE DEF T
    <3>1. 0 .. Len(seqs) \subseteq T
      BY <1>1, <2>4, <2>5, Upwards
    <3> QED
      BY <1>1, <3>1
  <2>7. c[Len(seqs)] = FlattenSeq(seqs)
    BY <1>9, <2>3, <2>6
  <2> QED
    BY <1>7, <2>7
<1> QED
  BY <1>8, <1>9

(* f says what sequence an element stands for.                             *)
Stands(f, D, X) == f \in [D -> Seq(X)]

(* What the elements of a sequence stand for.                              *)
Spelt(f, seq) == FlattenSeq([n \in DOMAIN seq |-> f[seq[n]]])

(* It is built up element by element.                                      *)
Spells(f, seq, c) == c[0] = <<>> /\ \A n \in 1 .. Len(seq) : c[n] = c[n - 1] \o f[seq[n]]

SpellsUp(f, X, seq, c) ==
  c \in [0 .. Len(seq) -> Seq(X)] /\ Spells(f, seq, c) /\ c[Len(seq)] = Spelt(f, seq)

(* A chain of intermediate results spells it.                              *)
LEMMA Spelling ==
  ASSUME NEW D, NEW X, NEW f, Stands(f, D, X), NEW seq \in Seq(D)
  PROVE  Spelt(f, seq) \in Seq(X) /\ \E c : SpellsUp(f, X, seq, c)
<1>1. Len(seq) \in Nat /\ DOMAIN seq = 1 .. Len(seq) /\ \A n \in 1 .. Len(seq) : f[seq[n]] \in Seq(X)
  BY DEF Stands
<1> DEFINE all == [n \in DOMAIN seq |-> f[seq[n]]]
<1>2. all \in Seq(Seq(X)) /\ Len(all) = Len(seq) /\ \A n \in 1 .. Len(seq) : all[n] = f[seq[n]]
  BY <1>1
<1>3. Spelt(f, seq) = FlattenSeq(all)
  BY DEF Spelt
<1> HIDE DEF all
<1>4. PICK c : c \in Piles(X, all) /\ c[Len(all)] = FlattenSeq(all)
  BY <1>2, FlatPiles
<1>5. /\ c \in [0 .. Len(all) -> Seq(X)] /\ c[0] = <<>>
      /\ \A n \in 1 .. Len(all) : c[n] = c[n - 1] \o all[n]
  BY <1>4, Zenon DEF Piles
<1>6. Spells(f, seq, c)
  BY <1>2, <1>5 DEF Spells
<1>7. c[Len(seq)] \in Seq(X)
  BY <1>1, <1>2, <1>5
<1>8. SpellsUp(f, X, seq, c)
  BY <1>2, <1>3, <1>4, <1>5, <1>6 DEF SpellsUp
<1> QED
  BY <1>2, <1>3, <1>4, <1>7, <1>8

(* And in no other way.                                                    *)
LEMMA SpeltBy ==
  ASSUME NEW D, NEW X, NEW f, Stands(f, D, X), NEW seq \in Seq(D), NEW c, Spells(f, seq, c)
  PROVE  c[Len(seq)] = Spelt(f, seq)
<1>0. PICK d : SpellsUp(f, X, seq, d)
  BY Spelling, Zenon
<1>1. d \in [0 .. Len(seq) -> Seq(X)] /\ Spells(f, seq, d) /\ d[Len(seq)] = Spelt(f, seq)
  BY <1>0, Zenon DEF SpellsUp
<1>2. Len(seq) \in Nat
  OBVIOUS
<1> DEFINE T == {n \in 0 .. Len(seq) : c[n] = d[n]}
<1>3. 0 \in T
  BY <1>1, <1>2 DEF Spells
<1>4. ASSUME NEW n \in 1 .. Len(seq), n - 1 \in T PROVE n \in T
  <2>1. n \in 0 .. Len(seq)
    BY <1>2
  <2>2. c[n] = c[n - 1] \o f[seq[n]] /\ d[n] = d[n - 1] \o f[seq[n]]
    BY <1>1, Zenon DEF Spells
  <2> QED
    BY <1>4, <2>1, <2>2
<1>5. Len(seq) \in T
  <2> HIDE DEF T
  <2>1. 0 .. Len(seq) \subseteq T
    BY <1>2, <1>3, <1>4, Upwards
  <2> QED
    BY <1>2, <2>1
<1> QED
  BY <1>1, <1>5

(* Nothing spells nothing, and one element what it stands for.             *)
LEMMA SpeltNothing ==
  ASSUME NEW D, NEW X, NEW f, Stands(f, D, X)
  PROVE  Spelt(f, <<>>) = <<>>
<1> DEFINE none == <<>>
           c == [n \in 0 .. 0 |-> <<>>]
<1>1. none \in Seq(D) /\ Len(none) = 0
  OBVIOUS
<1>2. c[0] = <<>>
  OBVIOUS
<1> HIDE DEF c, none
<1>3. Spells(f, none, c)
  BY <1>1, <1>2 DEF Spells
<1>4. c[Len(none)] = Spelt(f, none)
  BY <1>1, <1>3, SpeltBy
<1>5. Spelt(f, none) = <<>>
  BY <1>1, <1>2, <1>4
<1> QED
  BY <1>5 DEF none

(* Two sequences joined spell what they stand for, joined.                 *)
LEMMA SpeltJoins ==
  ASSUME NEW D, NEW X, NEW f, Stands(f, D, X), NEW s \in Seq(D), NEW t \in Seq(D)
  PROVE  Spelt(f, s \o t) = Spelt(f, s) \o Spelt(f, t)
<1>8. PICK c : SpellsUp(f, X, s, c)
  BY Spelling, Zenon
<1>9. PICK d : SpellsUp(f, X, t, d)
  BY Spelling, Zenon
<1>1. c \in [0 .. Len(s) -> Seq(X)] /\ Spells(f, s, c) /\ c[Len(s)] = Spelt(f, s)
  BY <1>8, Zenon DEF SpellsUp
<1>2. d \in [0 .. Len(t) -> Seq(X)] /\ Spells(f, t, d) /\ d[Len(t)] = Spelt(f, t)
  BY <1>9, Zenon DEF SpellsUp
<1> DEFINE u == s \o t
           e == [n \in 0 .. Len(s) + Len(t) |->
                   IF n <= Len(s) THEN c[n] ELSE c[Len(s)] \o d[n - Len(s)]]
<1>3. /\ u \in Seq(D) /\ Len(s) \in Nat /\ Len(t) \in Nat /\ Len(u) = Len(s) + Len(t)
      /\ \A n \in 1 .. Len(s) : u[n] = s[n]
      /\ \A n \in 1 .. Len(u) : ~(n <= Len(s)) => u[n] = t[n - Len(s)] /\ n - Len(s) \in 1 .. Len(t)
      /\ \A n \in 1 .. Len(t) : t[n] \in D
  OBVIOUS
<1> HIDE DEF u
<1>4. ASSUME NEW n \in 1 .. Len(u) PROVE e[n] = e[n - 1] \o f[u[n]]
  <2>1. n \in 0 .. Len(s) + Len(t) /\ n - 1 \in 0 .. Len(s) + Len(t)
    BY <1>3
  <2>2. CASE n <= Len(s)
    <3>1. n \in 1 .. Len(s) /\ n - 1 <= Len(s)
      BY <1>3, <2>2
    <3>2. c[n] = c[n - 1] \o f[s[n]]
      BY <1>1, <3>1, Zenon DEF Spells
    <3> QED
      BY <1>3, <2>1, <2>2, <3>1, <3>2
  <2>3. CASE ~(n <= Len(s))
    <3> DEFINE m == n - Len(s)
    <3>1. /\ m \in 1 .. Len(t) /\ m \in 0 .. Len(t) /\ m - 1 \in 0 .. Len(t) /\ u[n] = t[m]
          /\ (n - 1 <= Len(s) => n - 1 = Len(s) /\ m - 1 = 0) /\ n - 1 - Len(s) = m - 1
      BY <1>3, <2>3
    <3>2. /\ d[m] = d[m - 1] \o f[t[m]] /\ d[m - 1] \in Seq(X) /\ d[0] = <<>>
          /\ f[t[m]] \in Seq(X) /\ c[Len(s)] \in Seq(X)
      <4>1. d[m] = d[m - 1] \o f[t[m]] /\ d[0] = <<>>
        BY <1>2, <3>1, Zenon DEF Spells
      <4>2. Len(s) \in 0 .. Len(s)
        BY <1>3
      <4> HIDE DEF m
      <4>3. d[m - 1] \in Seq(X) /\ c[Len(s)] \in Seq(X)
        BY <1>1, <1>2, <3>1, <4>2
      <4>4. f[t[m]] \in Seq(X)
        BY <1>3, <3>1 DEF Stands
      <4> QED
        BY <4>1, <4>3, <4>4
    <3>3. e[n] = c[Len(s)] \o d[m]
      BY <2>1, <2>3
    <3>4. e[n - 1] = c[Len(s)] \o d[m - 1]
      <4>1. CASE n - 1 <= Len(s)
        <5>1. e[n - 1] = c[Len(s)] /\ d[m - 1] = <<>>
          BY <2>1, <3>1, <3>2, <4>1
        <5>2. c[Len(s)] \o <<>> = c[Len(s)]
          BY <3>2, ConcatEmptySeq
        <5> QED
          BY <5>1, <5>2
      <4>2. CASE ~(n - 1 <= Len(s))
        BY <2>1, <3>1, <4>2
      <4> QED
        BY <4>1, <4>2
    <3> HIDE DEF m, e
    <3>5. c[Len(s)] \o (d[m - 1] \o f[t[m]]) = (c[Len(s)] \o d[m - 1]) \o f[t[m]]
      <4> DEFINE left == c[Len(s)]
                 right == d[m - 1]
                 new == f[t[m]]
      <4>1. left \in Seq(X) /\ right \in Seq(X) /\ new \in Seq(X)
        BY <3>2
      <4> HIDE DEF left, right, new
      <4>2. Regroups(X)
        BY Regrouped, Zenon
      <4>3. left \o (right \o new) = (left \o right) \o new
        BY <4>1, <4>2, Zenon DEF Regroups
      <4> QED
        BY <4>3 DEF left, right, new
    <3> QED
      BY <3>1, <3>2, <3>3, <3>4, <3>5
  <2> QED
    BY <2>2, <2>3
<1>5. e[0] = <<>> /\ e[Len(u)] = c[Len(s)] \o d[Len(t)]
  <2>1. e[0] = <<>>
    BY <1>1, <1>3 DEF Spells
  <2>2. CASE Len(t) = 0
    <3>1. /\ e[Len(u)] = c[Len(s)] /\ d[Len(t)] = <<>> /\ c[Len(s)] \in Seq(X)
      <4>1. Len(u) = Len(s) /\ Len(s) \in 0 .. Len(s) /\ Len(u) \in 0 .. Len(s) + Len(t)
        BY <1>3, <2>2
      <4>2. c[Len(s)] \in Seq(X) /\ d[0] = <<>>
        BY <1>1, <1>2, <4>1 DEF Spells
      <4> QED
        BY <1>3, <2>2, <4>1, <4>2
    <3>2. c[Len(s)] \o <<>> = c[Len(s)]
      BY <3>1, ConcatEmptySeq
    <3> QED
      BY <2>1, <3>1, <3>2
  <2>3. CASE Len(t) # 0
    <3>1. ~(Len(u) <= Len(s)) /\ Len(u) - Len(s) = Len(t) /\ Len(u) \in 0 .. Len(s) + Len(t)
      BY <1>3, <2>3
    <3> QED
      BY <2>1, <3>1
  <2> QED
    BY <2>2, <2>3
<1> HIDE DEF e
<1>6. Spells(f, u, e)
  BY <1>4, <1>5 DEF Spells
<1>7. e[Len(u)] = Spelt(f, u)
  BY <1>3, <1>6, SpeltBy
<1> QED
  BY <1>1, <1>2, <1>5, <1>7 DEF u

(* One element spells what it stands for.                                  *)
LEMMA SpeltOne ==
  ASSUME NEW D, NEW X, NEW f, Stands(f, D, X), NEW e \in D
  PROVE  Spelt(f, <<e>>) = f[e]
<1> DEFINE one == <<e>>
           new == f[e]
           c == [n \in 0 .. 1 |-> IF n = 0 THEN <<>> ELSE new]
<1>1. one \in Seq(D) /\ Len(one) = 1 /\ one[1] = e /\ new \in Seq(X)
  BY DEF Stands
<1>3. c[0] = <<>> /\ c[1] = new
  OBVIOUS
<1> HIDE DEF c, one
<1>4. <<>> \o new = new
  BY <1>1, ConcatEmptySeq
<1>5. Spells(f, one, c)
  <2>1. ASSUME NEW n \in 1 .. Len(one) PROVE c[n] = c[n - 1] \o f[one[n]]
    <3>1. n = 1 /\ n - 1 = 0
      BY <1>1
    <3> QED
      BY <1>1, <1>3, <1>4, <3>1
  <2> QED
    BY <1>3, <2>1 DEF Spells
<1>6. Spelt(f, one) = f[e]
  <2>1. c[Len(one)] = Spelt(f, one)
    BY <1>1, <1>5, SpeltBy
  <2> QED
    BY <1>1, <1>3, <2>1
<1> QED
  BY <1>6 DEF one

(* One element more adds what it stands for.                               *)
LEMMA SpeltGrows ==
  ASSUME NEW D, NEW X, NEW f, Stands(f, D, X), NEW s \in Seq(D), NEW e \in D
  PROVE  Spelt(f, Append(s, e)) = Spelt(f, s) \o f[e]
<1> DEFINE one == <<e>>
<1>1. one \in Seq(D)
  OBVIOUS
<1>2. Append(s, e) = s \o one
  BY AppendIsConcat
<1>3. Spelt(f, one) = f[e]
  BY SpeltOne
<1> HIDE DEF one
<1>4. Spelt(f, s \o one) = Spelt(f, s) \o Spelt(f, one)
  BY <1>1, SpeltJoins
<1> QED
  BY <1>2, <1>3, <1>4

(* Elements that stand for nothing may be left out.                        *)
LEMMA SpeltOnly ==
  ASSUME NEW D, NEW X, NEW f, Stands(f, D, X), NEW seq \in Seq(D), NEW kept,
         \A e \in Range(seq) : e \notin kept => f[e] = <<>>
  PROVE  Spelt(f, Only(seq, kept)) = Spelt(f, seq)
<1>1. PICK c : c \in Runs(Seq(D), <<>>, seq, KeepElement(D, kept)) /\ c[Len(seq)] = Only(seq, kept)
  BY OnlyRuns
<1>2. /\ c \in [0 .. Len(seq) -> Seq(D)] /\ c[0] = <<>>
      /\ \A n \in 1 .. Len(seq) : c[n] = KeepElement(D, kept)[c[n - 1]][seq[n]]
  BY <1>1, Zenon DEF Runs
<1>3. Len(seq) \in Nat
  OBVIOUS
<1> DEFINE e == [n \in 0 .. Len(seq) |-> Spelt(f, c[n])]
<1>4. ASSUME NEW n \in 1 .. Len(seq) PROVE e[n] = e[n - 1] \o f[seq[n]]
  <2>1. n - 1 \in 0 .. Len(seq) /\ n \in 0 .. Len(seq) /\ seq[n] \in D
    BY <1>3
  <2>2. c[n - 1] \in Seq(D)
    BY <1>2, <2>1
  <2>3. c[n] = IF seq[n] \in kept THEN Append(c[n - 1], seq[n]) ELSE c[n - 1]
    BY <1>2, <2>1, <2>2 DEF KeepElement
  <2>4. CASE seq[n] \in kept
    <3> DEFINE before == c[n - 1]
               new == seq[n]
    <3>0. before \in Seq(D) /\ new \in D
      BY <2>1, <2>2
    <3> HIDE DEF before, new
    <3>2. Spelt(f, Append(before, new)) = Spelt(f, before) \o f[new]
      BY <3>0, SpeltGrows
    <3>1. Spelt(f, Append(c[n - 1], seq[n])) = Spelt(f, c[n - 1]) \o f[seq[n]]
      BY <3>2 DEF before, new
    <3> QED
      BY <2>1, <2>3, <2>4, <3>1
  <2>5. CASE seq[n] \notin kept
    <3>0. seq[n] \in Range(seq)
      BY <1>3 DEF Range
    <3>1. Spelt(f, c[n - 1]) \in Seq(X) /\ f[seq[n]] = <<>>
      BY <2>2, <2>5, <3>0, Spelling
    <3>2. Spelt(f, c[n - 1]) \o <<>> = Spelt(f, c[n - 1])
      BY <3>1, ConcatEmptySeq
    <3> QED
      BY <2>1, <2>3, <2>5, <3>1, <3>2
  <2> QED
    BY <2>4, <2>5
<1>5. e[0] = <<>> /\ e[Len(seq)] = Spelt(f, c[Len(seq)])
  BY <1>2, <1>3, SpeltNothing
<1> HIDE DEF e
<1>6. Spells(f, seq, e)
  BY <1>4, <1>5 DEF Spells
<1>7. e[Len(seq)] = Spelt(f, seq)
  BY <1>6, SpeltBy
<1> QED
  BY <1>1, <1>5, <1>7

(* A flat sequence spells what the sequences in it spell.                  *)
LEMMA SpeltTwice ==
  ASSUME NEW D, NEW X, NEW f, Stands(f, D, X), NEW seqs \in Seq(Seq(D)),
         NEW g, Stands(g, Seq(D), X), \A s \in Seq(D) : g[s] = Spelt(f, s)
  PROVE  Spelt(f, FlattenSeq(seqs)) = Spelt(g, seqs)
<1>1. PICK c : c \in Piles(D, seqs) /\ c[Len(seqs)] = FlattenSeq(seqs)
  BY FlatPiles
<1>2. /\ c \in [0 .. Len(seqs) -> Seq(D)] /\ c[0] = <<>>
      /\ \A n \in 1 .. Len(seqs) : c[n] = c[n - 1] \o seqs[n]
  BY <1>1, Zenon DEF Piles
<1>3. Len(seqs) \in Nat
  OBVIOUS
<1> DEFINE e == [n \in 0 .. Len(seqs) |-> Spelt(f, c[n])]
<1>4. ASSUME NEW n \in 1 .. Len(seqs) PROVE e[n] = e[n - 1] \o g[seqs[n]]
  <2>1. n - 1 \in 0 .. Len(seqs) /\ n \in 0 .. Len(seqs) /\ seqs[n] \in Seq(D)
    BY <1>3
  <2>2. c[n - 1] \in Seq(D) /\ c[n] = c[n - 1] \o seqs[n]
    BY <1>2, <2>1
  <2>3. Spelt(f, c[n - 1] \o seqs[n]) = Spelt(f, c[n - 1]) \o Spelt(f, seqs[n])
    <3> DEFINE before == c[n - 1]
               new == seqs[n]
    <3>1. before \in Seq(D) /\ new \in Seq(D)
      BY <2>1, <2>2
    <3> HIDE DEF before, new
    <3>2. Spelt(f, before \o new) = Spelt(f, before) \o Spelt(f, new)
      BY <3>1, SpeltJoins
    <3> QED
      BY <3>2 DEF before, new
  <2>4. g[seqs[n]] = Spelt(f, seqs[n])
    BY <2>1
  <2> QED
    BY <2>1, <2>2, <2>3, <2>4
<1>5. e[0] = <<>> /\ e[Len(seqs)] = Spelt(f, c[Len(seqs)])
  BY <1>2, <1>3, SpeltNothing
<1> HIDE DEF e
<1>6. Spells(g, seqs, e)
  BY <1>4, <1>5 DEF Spells
<1>7. e[Len(seqs)] = Spelt(g, seqs)
  BY <1>6, SpeltBy
<1> QED
  BY <1>1, <1>5, <1>7

(* Elements that stand for one thing each are mapped one by one.           *)
LEMMA SpeltAlone ==
  ASSUME NEW D, NEW X, NEW f, Stands(f, D, X), NEW seq \in Seq(D),
         NEW g, \A e \in D : g[e] \in X /\ f[e] = <<g[e]>>
  PROVE  Spelt(f, seq) = [n \in DOMAIN seq |-> g[seq[n]]]
<1>1. Len(seq) \in Nat /\ DOMAIN seq = 1 .. Len(seq) /\ \A n \in 1 .. Len(seq) : g[seq[n]] \in X
  OBVIOUS
<1> DEFINE upTo(n) == [m \in 1 .. n |-> g[seq[m]]]
           e == [n \in 0 .. Len(seq) |-> upTo(n)]
<1>2. ASSUME NEW n \in 1 .. Len(seq) PROVE e[n] = e[n - 1] \o f[seq[n]]
  <2>1. n - 1 \in 0 .. Len(seq) /\ n \in 0 .. Len(seq) /\ n \in Nat /\ n - 1 \in Nat
    BY <1>1
  <2>2. upTo(n - 1) \in Seq(X) /\ Len(upTo(n - 1)) = n - 1 /\ upTo(n) \in Seq(X) /\ Len(upTo(n)) = n
    BY <1>1, <2>1
  <2>3. Append(upTo(n - 1), g[seq[n]]) = upTo(n)
    BY <1>1, <2>1
  <2>4. Append(upTo(n - 1), g[seq[n]]) = upTo(n - 1) \o <<g[seq[n]]>>
    <3> DEFINE s == upTo(n - 1)
    <3>1. s \in Seq(X) /\ g[seq[n]] \in X
      BY <1>1, <2>2
    <3> HIDE DEF s, upTo
    <3>2. Append(s, g[seq[n]]) = s \o <<g[seq[n]]>>
      BY <3>1, AppendIsConcat
    <3> QED
      BY <3>2 DEF s
  <2>5. f[seq[n]] = <<g[seq[n]]>>
    OBVIOUS
  <2> QED
    BY <2>1, <2>3, <2>4, <2>5
<1>3. e[0] = <<>> /\ e[Len(seq)] = [n \in DOMAIN seq |-> g[seq[n]]]
  BY <1>1
<1> HIDE DEF e, upTo
<1>4. Spells(f, seq, e)
  BY <1>2, <1>3 DEF Spells
<1>5. e[Len(seq)] = Spelt(f, seq)
  BY <1>4, SpeltBy
<1> QED
  BY <1>3, <1>5

(* Flat sequences, joined.                                                 *)
LEMMA FlatJoins ==
  ASSUME NEW X, NEW s \in Seq(Seq(X)), NEW t \in Seq(Seq(X)), NEW x \in Seq(X)
  PROVE  /\ FlattenSeq(s) \in Seq(X) /\ FlattenSeq(s \o t) = FlattenSeq(s) \o FlattenSeq(t)
         /\ FlattenSeq(<<x>>) = x /\ FlattenSeq(Append(s, x)) = FlattenSeq(s) \o x
<1> DEFINE D == Seq(X)
           f == [v \in D |-> v]
<1>1. Stands(f, D, X) /\ \A v \in D : f[v] = v
  BY DEF Stands
<1>2. ASSUME NEW u \in Seq(D) PROVE Spelt(f, u) = FlattenSeq(u)
  <2>1. [n \in DOMAIN u |-> f[u[n]]] = u
    OBVIOUS
  <2> QED
    BY <2>1 DEF Spelt
<1>3. s \in Seq(D) /\ t \in Seq(D) /\ x \in D
  OBVIOUS
<1> HIDE DEF D, f
<1>4. Spelt(f, s \o t) = Spelt(f, s) \o Spelt(f, t) /\ Spelt(f, s) \in Seq(X)
  <2>1. Spelt(f, s \o t) = Spelt(f, s) \o Spelt(f, t)
    BY <1>1, <1>3, SpeltJoins
  <2>2. Spelt(f, s) \in Seq(X)
    BY <1>1, <1>3, Spelling
  <2> QED
    BY <2>1, <2>2
<1>5. Spelt(f, <<x>>) = f[x] /\ Spelt(f, Append(s, x)) = Spelt(f, s) \o f[x]
  <2>1. Spelt(f, <<x>>) = f[x]
    BY <1>1, <1>3, SpeltOne
  <2> QED
    BY <1>1, <1>3, <2>1, SpeltGrows
<1>6. s \o t \in Seq(D) /\ Append(s, x) \in Seq(D) /\ <<x>> \in Seq(D)
  BY <1>3, AppendFacts, SequenceOfOne, ConcatProperties
<1> QED
  BY <1>1, <1>2, <1>3, <1>4, <1>5, <1>6

(* A sequence is its last element after the others.                        *)
LEMMA FrontThenLast ==
  ASSUME NEW X, NEW s \in Seq(X), s # <<>>
  PROVE  Front(s) \in Seq(X) /\ Last(s) \in X /\ s = Append(Front(s), Last(s))
<1>1. Len(s) \in Nat \ {0} /\ Front(s) = [i \in 1 .. Len(s) - 1 |-> s[i]] /\ Last(s) = s[Len(s)]
  <2>1. Len(s) \in Nat \ {0} /\ SubSeq(s, 1, Len(s) - 1) = [i \in 1 .. Len(s) - 1 |-> s[i]]
    OBVIOUS
  <2> QED
    BY <2>1 DEF Front, Last
<1>2. Front(s) \in Seq(X) /\ Last(s) \in X /\ Len(Front(s)) = Len(s) - 1
      /\ \A i \in 1 .. Len(s) - 1 : Front(s)[i] = s[i]
  BY <1>1
<1> DEFINE u == Append(Front(s), Last(s))
<1>3. /\ u \in Seq(X) /\ Len(u) = Len(Front(s)) + 1 /\ u[Len(Front(s)) + 1] = Last(s)
      /\ \A i \in 1 .. Len(Front(s)) : u[i] = Front(s)[i]
  BY <1>2, AppendFacts
<1> HIDE DEF u
<1>4. Len(u) = Len(s) /\ u[Len(s)] = s[Len(s)] /\ \A i \in 1 .. Len(s) - 1 : u[i] = s[i]
  <2>1. Len(Front(s)) + 1 = Len(s)
    BY <1>1, <1>2
  <2>2. Len(u) = Len(s) /\ u[Len(s)] = s[Len(s)]
    BY <1>1, <1>3, <2>1, Zenon
  <2>3. ASSUME NEW i \in 1 .. Len(s) - 1 PROVE u[i] = s[i]
    <3>1. i \in 1 .. Len(Front(s))
      BY <1>2
    <3> QED
      BY <1>2, <1>3, <3>1, Zenon
  <2> QED
    BY <2>2, <2>3
<1>5. \A i \in 1 .. Len(s) : u[i] = s[i]
  BY <1>1, <1>4
<1>6. u = s
  BY <1>3, <1>4, <1>5, SeqEqual
<1> QED
  BY <1>2, <1>6 DEF u

(* So it is its first one before the others.                               *)
LEMMA HeadThenTail ==
  ASSUME NEW X, NEW s \in Seq(X), s # <<>>
  PROVE  Head(s) \in X /\ Tail(s) \in Seq(X) /\ s = <<Head(s)>> \o Tail(s)
<1>1. Head(s) \in X /\ Tail(s) \in Seq(X) /\ Len(Tail(s)) = Len(s) - 1 /\ Head(s) = s[1]
      /\ \A i \in 1 .. Len(Tail(s)) : Tail(s)[i] = s[i + 1]
  BY HeadTailProperties
<1> DEFINE one == <<Head(s)>>
           u == one \o Tail(s)
<1>2. one \in Seq(X) /\ Len(one) = 1 /\ one[1] = s[1]
  BY <1>1, SequenceOfOne
<1> HIDE DEF one
<1>3. /\ u \in Seq(X) /\ Len(u) = Len(one) + Len(Tail(s))
      /\ \A i \in 1 .. Len(one) + Len(Tail(s)) : u[i] = IF i <= Len(one) THEN one[i] ELSE Tail(s)[i - Len(one)]
  <2> DEFINE tail == Tail(s)
  <2>1. tail \in Seq(X) /\ one \in Seq(X)
    BY <1>1, <1>2
  <2> HIDE DEF tail
  <2>2. /\ one \o tail \in Seq(X) /\ Len(one \o tail) = Len(one) + Len(tail)
        /\ \A i \in 1 .. Len(one) + Len(tail) : (one \o tail)[i] = IF i <= Len(one) THEN one[i] ELSE tail[i - Len(one)]
    BY <2>1, ConcatProperties
  <2> QED
    BY <2>2 DEF tail
<1> HIDE DEF u
<1>4. Len(s) \in Nat \ {0} /\ Len(u) = Len(s)
  BY <1>1, <1>2, <1>3
<1>5. ASSUME NEW i \in 1 .. Len(s) PROVE u[i] = s[i]
  <2>1. CASE i = 1
    BY <1>2, <1>3, <1>4, <2>1
  <2>2. CASE i # 1
    <3>1. i - 1 \in 1 .. Len(Tail(s)) /\ ~(i <= Len(one)) /\ i - 1 + 1 = i
          /\ i \in 1 .. Len(one) + Len(Tail(s)) /\ i - Len(one) = i - 1
      BY <1>1, <1>2, <1>4, <2>2
    <3> QED
      BY <1>1, <1>3, <3>1
  <2> QED
    BY <2>1, <2>2
<1>6. u = s
  BY <1>3, <1>4, <1>5
<1> QED
  BY <1>1, <1>6 DEF u, one

(* The last of some sequences runs on into the first of others: made flat, *)
(* they are the same.                                                      *)
LEMMA RunningOn ==
  ASSUME NEW X, NEW s \in Seq(Seq(X)), NEW t \in Seq(Seq(X)), s # <<>>, t # <<>>
  PROVE  FlattenSeq(Front(s) \o <<Last(s) \o Head(t)>> \o Tail(t)) = FlattenSeq(s) \o FlattenSeq(t)
<1> DEFINE front == Front(s)
           last == Last(s)
           head == Head(t)
           tail == Tail(t)
           middle == last \o head
<1>1. front \in Seq(Seq(X)) /\ last \in Seq(X) /\ s = Append(front, last)
  BY FrontThenLast, Zenon
<1>2. head \in Seq(X) /\ tail \in Seq(Seq(X)) /\ t = <<head>> \o tail
  BY HeadThenTail
<1> HIDE DEF front, last, head, tail
<1>3. middle \in Seq(X)
  BY <1>1, <1>2, ConcatProperties
<1> HIDE DEF middle
<1>4. <<middle>> \in Seq(Seq(X)) /\ <<head>> \in Seq(Seq(X)) /\ front \o <<middle>> \in Seq(Seq(X))
  <2>1. <<middle>> \in Seq(Seq(X)) /\ <<head>> \in Seq(Seq(X))
    BY <1>2, <1>3, SequenceOfOne
  <2> QED
    BY <1>1, <2>1, ConcatProperties
<1> DEFINE F == FlattenSeq(front)
           T == FlattenSeq(tail)
<1>5. /\ FlattenSeq((front \o <<middle>>) \o tail) = FlattenSeq(front \o <<middle>>) \o T
      /\ FlattenSeq(front \o <<middle>>) = F \o FlattenSeq(<<middle>>) /\ FlattenSeq(<<middle>>) = middle
  <2> DEFINE one == <<middle>>
             begin == front \o one
  <2>1. one \in Seq(Seq(X)) /\ begin \in Seq(Seq(X)) /\ FlattenSeq(one) = middle
    <3>1. FlattenSeq(<<middle>>) = middle
      BY <1>1, <1>3, FlatJoins
    <3> QED
      BY <1>4, <3>1
  <2> HIDE DEF one, begin
  <2>2. FlattenSeq(begin \o tail) = FlattenSeq(begin) \o T
    BY <1>2, <1>3, <2>1, FlatJoins
  <2>3. FlattenSeq(front \o one) = F \o FlattenSeq(one)
    BY <1>1, <1>3, <2>1, FlatJoins
  <2> QED
    BY <2>1, <2>2, <2>3 DEF begin, one
<1>6. FlattenSeq(s) = F \o last /\ F \in Seq(X)
  BY <1>1, FlatJoins
<1>7. FlattenSeq(t) = FlattenSeq(<<head>>) \o T /\ FlattenSeq(<<head>>) = head /\ T \in Seq(X)
  BY <1>2, <1>4, FlatJoins
<1> HIDE DEF F, T
<1>8. (F \o (last \o head)) \o T = (F \o last) \o (head \o T)
  <2>1. F \in Seq(X) /\ last \in Seq(X) /\ head \in Seq(X) /\ T \in Seq(X)
    BY <1>1, <1>2, <1>6, <1>7
  <2>2. F \o last \in Seq(X)
    BY <2>1, ConcatProperties
  <2>3. Regroups(X)
    BY Regrouped, Zenon
  <2>4. F \o (last \o head) = (F \o last) \o head
    BY <2>1, <2>3, Zenon DEF Regroups
  <2>5. (F \o last) \o (head \o T) = ((F \o last) \o head) \o T
    BY <2>1, <2>2, <2>3, Zenon DEF Regroups
  <2> QED
    BY <2>4, <2>5, Zenon
<1>9. FlattenSeq((front \o <<middle>>) \o tail) = FlattenSeq(s) \o FlattenSeq(t)
  BY <1>5, <1>6, <1>7, <1>8 DEF middle
<1> QED
  BY <1>9 DEF front, tail, middle, last, head

-----------------------------------------------------------------------------
(* What lines and pieces say: the sizes of their words, in order.          *)
WordSizes == Nat \ {0}

LineSays == [i \in DOMAIN file.lines |-> FlattenSeq(Line(i).sentences)]

PieceSays == [piece \in Seq(DOMAIN file.lines) |-> Spelt(LineSays, piece)]

(* Sentences are sequences of words.                                       *)
LEMMA TextsSay ==
  ASSUME NEW t \in LineTexts
  PROVE  t \in Seq(Seq(WordSizes)) /\ FlattenSeq(t) \in Seq(WordSizes)
<1>1. t \in Seq(Seq(WordSizes))
  <2> DEFINE S == Seq(Nat \ {0})
             U == S \ {<<>>}
  <2>1. t \in Seq(U) /\ \A i \in 1 .. Len(t) : t[i] \in U
    BY DEF LineTexts
  <2>2. U \subseteq S
    OBVIOUS
  <2>3. S = Seq(WordSizes)
    BY DEF WordSizes
  <2> HIDE DEF S, U
  <2>4. t \in Seq(S)
    BY <2>1, <2>2
  <2> QED
    BY <2>3, <2>4
<1>2. FlattenSeq(t) \in Seq(WordSizes)
  BY <1>1, FlattenIs
<1> QED
  BY <1>1, <1>2

(* A blank line says nothing, nor does an empty piece.                     *)
LEMMA LinesSay ==
  ASSUME file \in Files
  PROVE  /\ Stands(LineSays, DOMAIN file.lines, WordSizes)
         /\ Stands(PieceSays, Seq(DOMAIN file.lines), WordSizes)
         /\ PieceSays[<<>>] = <<>>
         /\ \A i \in DOMAIN file.lines :
              LineSays[i] = FlattenSeq(Line(i).sentences) /\ (IsBlank(i) => LineSays[i] = <<>>)
<1> DEFINE D == DOMAIN file.lines
<1>1. \A i \in D : Line(i).sentences \in LineTexts
  BY FileShape
<1>2. \A i \in D : FlattenSeq(Line(i).sentences) \in Seq(WordSizes)
  <2> SUFFICES ASSUME NEW i \in D PROVE FlattenSeq(Line(i).sentences) \in Seq(WordSizes)
    OBVIOUS
  <2> DEFINE t == Line(i).sentences
  <2>1. t \in LineTexts
    BY <1>1
  <2> HIDE DEF t
  <2>2. FlattenSeq(t) \in Seq(WordSizes)
    BY <2>1, TextsSay
  <2> QED
    BY <2>2 DEF t
<1>3. Stands(LineSays, D, WordSizes)
  BY <1>2 DEF Stands, LineSays
<1>4. FlattenSeq(<<>>) = <<>>
  BY DEF FlattenSeq
<1>5. \A i \in D : LineSays[i] = FlattenSeq(Line(i).sentences) /\ (IsBlank(i) => LineSays[i] = <<>>)
  BY <1>4 DEF LineSays, IsBlank
<1> HIDE DEF D
<1>6. \A piece \in Seq(D) : Spelt(LineSays, piece) \in Seq(WordSizes)
  BY <1>3, Spelling
<1>7. Spelt(LineSays, <<>>) = <<>> /\ <<>> \in Seq(D)
  BY <1>3, SpeltNothing
<1> DEFINE says == [piece \in Seq(D) |-> Spelt(LineSays, piece)]
<1>8. says \in [Seq(D) -> Seq(WordSizes)] /\ says[<<>>] = <<>>
  BY <1>6, <1>7
<1>9. says = PieceSays
  BY DEF PieceSays, D
<1> HIDE DEF says
<1>10. Stands(PieceSays, Seq(D), WordSizes) /\ PieceSays[<<>>] = <<>>
  BY <1>8, <1>9 DEF Stands
<1> QED
  BY <1>3, <1>5, <1>10 DEF D

(* A line joined to others adds what it says, also if they run on into it. *)
LEMMA GluedSays ==
  ASSUME file \in Files, NEW left \in Gluings, NEW i \in DOMAIN file.lines
  PROVE  FlattenSeq(Glued(left, i).sentences) = FlattenSeq(left.sentences) \o LineSays[i]
<1> DEFINE done == left.sentences
           more == Line(i).sentences
<1>1. done \in LineTexts /\ more \in LineTexts /\ left.open \in BOOLEAN /\ (left.open => done # <<>>)
  BY FileShape DEF Gluings
<1>2. LineSays[i] = FlattenSeq(more) /\ (IsBlank(i) => LineSays[i] = <<>>)
  BY LinesSay
<1>3. IsBlank(i) <=> more = <<>>
  BY DEF IsBlank
<1>4. /\ IsBlank(i) => Glued(left, i) = left
      /\ ~IsBlank(i) => Glued(left, i).sentences =
           IF left.open THEN Front(done) \o <<Last(done) \o Head(more)>> \o Tail(more) ELSE done \o more
  BY DEF Glued
<1>5. IsBlank(i) => Glued(left, i).sentences = done
  BY <1>4
<1> HIDE DEF done, more
<1>6. done \in Seq(Seq(WordSizes)) /\ more \in Seq(Seq(WordSizes)) /\ FlattenSeq(done) \in Seq(WordSizes)
  BY <1>1, TextsSay
<1>7. CASE IsBlank(i)
  <2>1. FlattenSeq(done) \o <<>> = FlattenSeq(done)
    BY <1>6, ConcatEmptySeq
  <2> QED
    BY <1>2, <1>5, <1>7, <2>1 DEF done
<1>8. CASE ~IsBlank(i) /\ left.open
  <2>1. FlattenSeq(Front(done) \o <<Last(done) \o Head(more)>> \o Tail(more)) = FlattenSeq(done) \o FlattenSeq(more)
    BY <1>1, <1>3, <1>6, <1>8, RunningOn
  <2> QED
    BY <1>2, <1>4, <1>8, <2>1 DEF done
<1>9. CASE ~IsBlank(i) /\ ~left.open
  <2>1. FlattenSeq(done \o more) = FlattenSeq(done) \o FlattenSeq(more)
    <3>1. <<>> \in Seq(WordSizes)
      OBVIOUS
    <3> QED
      BY <1>6, <3>1, FlatJoins
  <2> QED
    BY <1>2, <1>4, <1>9, <2>1 DEF done
<1> QED
  BY <1>7, <1>8, <1>9

(* The paragraph of a piece says what its lines say.                       *)
LEMMA PieceIsSaid ==
  ASSUME file \in Files, NEW piece \in Seq(DOMAIN file.lines)
  PROVE  FlattenSeq(GluedLines(piece).sentences) = PieceSays[piece]
<1>1. PICK c : c \in Runs(Gluings, NoSentences, piece, GlueLine) /\ c[Len(piece)] = GluedLines(piece)
  BY GluedLinesRun
<1>2. Len(piece) \in Nat
  OBVIOUS
<1>3. /\ c \in [0 .. Len(piece) -> Gluings] /\ c[0] = NoSentences
      /\ \A n \in 1 .. Len(piece) : c[n] = GlueLine[c[n - 1]][piece[n]]
  BY <1>1, Zenon DEF Runs
<1> DEFINE e == [n \in 0 .. Len(piece) |-> FlattenSeq(c[n].sentences)]
<1>4. ASSUME NEW n \in 1 .. Len(piece) PROVE e[n] = e[n - 1] \o LineSays[piece[n]]
  <2>1. n - 1 \in 0 .. Len(piece) /\ n \in 0 .. Len(piece) /\ piece[n] \in DOMAIN file.lines
    BY <1>2
  <2>2. c[n - 1] \in Gluings
    BY <1>3, <2>1
  <2>3. c[n] = Glued(c[n - 1], piece[n])
    BY <1>3, <2>1, <2>2 DEF GlueLine
  <2>4. FlattenSeq(Glued(c[n - 1], piece[n]).sentences) = FlattenSeq(c[n - 1].sentences) \o LineSays[piece[n]]
    BY <2>1, <2>2, GluedSays
  <2> QED
    BY <2>1, <2>3, <2>4
<1>5. e[0] = <<>> /\ e[Len(piece)] = FlattenSeq(GluedLines(piece).sentences)
  <2>1. FlattenSeq(<<>>) = <<>>
    BY DEF FlattenSeq
  <2> QED
    BY <1>1, <1>2, <1>3, <2>1 DEF NoSentences
<1> HIDE DEF e
<1>6. Spells(LineSays, piece, e)
  BY <1>4, <1>5 DEF Spells
<1>7. Stands(LineSays, DOMAIN file.lines, WordSizes)
  BY LinesSay
<1>8. e[Len(piece)] = Spelt(LineSays, piece)
  BY <1>6, <1>7, SpeltBy
<1> QED
  BY <1>5, <1>8 DEF PieceSays

(* A line more in the last piece adds what it says.                        *)
LEMMA AddToSays ==
  ASSUME file \in Files, NEW pieces \in Lists, NEW i \in DOMAIN file.lines
  PROVE  Spelt(PieceSays, AddTo(pieces, i)) = Spelt(PieceSays, pieces) \o LineSays[i]
<1> DEFINE D == DOMAIN file.lines
           says == PieceSays
           front == Front(pieces)
           last == Last(pieces)
           longer == Append(last, i)
           before == Spelt(says, front)
           said == says[last]
           new == LineSays[i]
<1>1. Stands(LineSays, D, WordSizes) /\ Stands(says, Seq(D), WordSizes)
  BY LinesSay
<1>2. pieces \in Seq(Seq(D)) /\ pieces # <<>> /\ i \in D
  BY DEF Lists
<1>3. \A piece \in Seq(D) : says[piece] = Spelt(LineSays, piece)
  BY DEF PieceSays
<1>4. AddTo(pieces, i) = Append(front, longer)
  BY DEF AddTo
<1> HIDE DEF D, says
<1>5. front \in Seq(Seq(D)) /\ last \in Seq(D) /\ pieces = Append(front, last)
  BY <1>2, FrontThenLast
<1> HIDE DEF front, last
<1>6. longer \in Seq(D)
  BY <1>2, <1>5, AppendFacts
<1>7. says[longer] = said \o new
  <2>1. Spelt(LineSays, Append(last, i)) = Spelt(LineSays, last) \o LineSays[i]
    BY <1>1, <1>2, <1>5, SpeltGrows
  <2> QED
    BY <1>3, <1>5, <1>6, <2>1
<1> HIDE DEF longer
<1>8. Spelt(says, Append(front, longer)) = before \o says[longer]
  BY <1>1, <1>5, <1>6, SpeltGrows
<1>9. Spelt(says, Append(front, last)) = before \o said
  BY <1>1, <1>5, SpeltGrows
<1>10. before \in Seq(WordSizes) /\ said \in Seq(WordSizes) /\ new \in Seq(WordSizes)
  <2>1. before \in Seq(WordSizes)
    BY <1>1, <1>5, Spelling
  <2> QED
    BY <1>1, <1>2, <1>5, <2>1 DEF Stands
<1> HIDE DEF before, said, new
<1>11. before \o (said \o new) = (before \o said) \o new
  <2>1. Regroups(WordSizes)
    BY Regrouped, Zenon
  <2> QED
    BY <1>10, <2>1, Zenon DEF Regroups
<1>12. Spelt(says, AddTo(pieces, i)) = Spelt(says, pieces) \o new
  BY <1>4, <1>5, <1>7, <1>8, <1>9, <1>11
<1> QED
  BY <1>12 DEF says, new

(* Whatever a line does to the pieces, they say what it says in addition.  *)
LEMMA TakeSays ==
  ASSUME file \in Files, NEW lines \in Seq(DOMAIN file.lines), NEW pieces \in Lists, NEW k \in DOMAIN lines
  PROVE  Spelt(PieceSays, Take(lines, pieces, k)) = Spelt(PieceSays, pieces) \o LineSays[lines[k]]
<1> DEFINE D == DOMAIN file.lines
           says == PieceSays
           i == lines[k]
           new == LineSays[i]
           none == <<>>
           alone == <<i>>
<1>1. /\ Stands(LineSays, D, WordSizes) /\ Stands(says, Seq(D), WordSizes) /\ says[none] = <<>>
      /\ (IsBlank(i) => new = <<>>)
  <2>1. i \in D
    OBVIOUS
  <2> QED
    BY <2>1, LinesSay
<1>2. /\ pieces \in Seq(Seq(D)) /\ i \in D /\ none \in Seq(D)
      /\ AddTo(pieces, i) \in Seq(Seq(D)) /\ alone \in Seq(D)
  <2>1. pieces \in Seq(Seq(D)) /\ pieces # <<>> /\ i \in D /\ none \in Seq(D)
    BY DEF Lists
  <2> HIDE DEF D, i
  <2>2. alone \in Seq(D)
    BY <2>1, SequenceOfOne
  <2> QED
    BY <2>1, <2>2, AddToFacts
<1>3. Spelt(says, AddTo(pieces, i)) = Spelt(says, pieces) \o new
  BY <1>2, AddToSays
<1>4. says[alone] = new
  <2>1. says[alone] = Spelt(LineSays, alone)
    BY <1>2 DEF PieceSays
  <2> HIDE DEF D, i, says
  <2> QED
    BY <1>1, <1>2, <2>1, SpeltOne
<1>5. Take(lines, pieces, k) \in {Append(pieces, none), Append(pieces, alone), Append(AddTo(pieces, i), none), AddTo(pieces, i)}
      /\ (Take(lines, pieces, k) = Append(pieces, none) => IsBlank(i) \/ Take(lines, pieces, k) \in {Append(pieces, alone), Append(AddTo(pieces, i), none), AddTo(pieces, i)})
  BY DEF Take
<1> HIDE DEF D, says, i, new, none, alone
<1>12. Stands(says, Seq(D), WordSizes) /\ none \in Seq(D)
  BY <1>1, <1>2
<1>13. ASSUME NEW list \in Seq(Seq(D)), NEW piece \in Seq(D)
       PROVE  Spelt(says, Append(list, piece)) = Spelt(says, list) \o says[piece]
  BY <1>12, SpeltGrows
<1> DEFINE P == Spelt(says, pieces)
           more == AddTo(pieces, i)
<1>6. P \in Seq(WordSizes) /\ new \in Seq(WordSizes) /\ Spelt(says, more) \in Seq(WordSizes)
  <2>1. P \in Seq(WordSizes)
    BY <1>1, <1>2, Spelling
  <2>2. Spelt(says, more) \in Seq(WordSizes)
    BY <1>1, <1>2, Spelling
  <2> QED
    BY <1>1, <1>2, <2>1, <2>2 DEF new, Stands
<1>7. P \o <<>> = P /\ Spelt(says, more) \o <<>> = Spelt(says, more)
  BY <1>6, ConcatEmptySeq
<1>8. Spelt(says, Append(pieces, alone)) = P \o new
  <2>1. Spelt(says, Append(pieces, alone)) = P \o says[alone]
    BY <1>2, <1>13, Zenon
  <2> QED
    BY <1>4, <2>1
<1>9. IsBlank(i) => Spelt(says, Append(pieces, none)) = P \o new
  <2>1. Spelt(says, Append(pieces, none)) = P \o says[none]
    BY <1>2, <1>12, <1>13, Zenon
  <2> QED
    BY <1>1, <2>1
<1>10. Spelt(says, Append(more, none)) = P \o new
  <2>1. Spelt(says, Append(more, none)) = Spelt(says, more) \o says[none]
    BY <1>2, <1>12, <1>13, Zenon
  <2> QED
    BY <1>1, <1>3, <1>7, <2>1
<1>11. Spelt(says, Take(lines, pieces, k)) = P \o new
  BY <1>3, <1>5, <1>8, <1>9, <1>10
<1> QED
  BY <1>11 DEF says, new, i

(* The pieces of a section say what its lines say.                         *)
LEMMA PiecesSay ==
  ASSUME file \in Files, NEW lines \in Seq(DOMAIN file.lines)
  PROVE  Spelt(PieceSays, Pieces(lines)) = Spelt(LineSays, lines)
<1> DEFINE numbers == [k \in DOMAIN lines |-> k]
           D == DOMAIN file.lines
           says == PieceSays
           all == AllPieces(lines)
<1>1. PICK c : c \in Runs(Lists, << <<>> >>, numbers, TakePiece(lines)) /\ c[Len(numbers)] = AllPieces(lines)
  BY PiecesRun
<1>2. Len(lines) \in Nat /\ DOMAIN lines = 1 .. Len(lines) /\ Len(numbers) = Len(lines)
      /\ \A k \in 1 .. Len(lines) : numbers[k] = k
  OBVIOUS
<1> HIDE DEF numbers
<1>3. /\ c \in [0 .. Len(lines) -> Lists] /\ c[0] = << <<>> >>
      /\ \A n \in 1 .. Len(lines) : c[n] = TakePiece(lines)[c[n - 1]][n]
  BY <1>1, <1>2 DEF Runs
<1>4. /\ Stands(LineSays, D, WordSizes) /\ Stands(says, Seq(D), WordSizes) /\ says[<<>>] = <<>>
  BY LinesSay
<1> DEFINE e == [n \in 0 .. Len(lines) |-> Spelt(says, c[n])]
<1>5. ASSUME NEW n \in 1 .. Len(lines) PROVE e[n] = e[n - 1] \o LineSays[lines[n]]
  <2>1. n - 1 \in 0 .. Len(lines) /\ n \in 0 .. Len(lines) /\ n \in DOMAIN lines
    BY <1>2
  <2>2. c[n - 1] \in Lists
    BY <1>3, <2>1
  <2>3. c[n] = Take(lines, c[n - 1], n)
    BY <1>3, <2>1, <2>2 DEF TakePiece
  <2>4. Spelt(says, Take(lines, c[n - 1], n)) = Spelt(says, c[n - 1]) \o LineSays[lines[n]]
    BY <2>1, <2>2, TakeSays
  <2> QED
    BY <2>1, <2>3, <2>4
<1>6. e[0] = <<>> /\ e[Len(lines)] = Spelt(says, all)
  <2> DEFINE none == <<>>
  <2>1. none \in Seq(D) /\ says[none] = <<>>
    BY <1>4
  <2> HIDE DEF none, says, D
  <2>2. Spelt(says, <<none>>) = <<>>
    BY <1>4, <2>1, SpeltOne
  <2> QED
    BY <1>1, <1>2, <1>3, <2>2 DEF none
<1> HIDE DEF e
<1>7. Spells(LineSays, lines, e)
  BY <1>5, <1>6 DEF Spells
<1>8. e[Len(lines)] = Spelt(LineSays, lines)
  BY <1>4, <1>7, SpeltBy
<1>9. all \in Seq(Seq(D))
  <2>1. c[Len(lines)] \in Lists
    BY <1>2, <1>3
  <2> QED
    BY <1>1, <1>2, <2>1 DEF Lists
<1> DEFINE kept == Range(all) \ {<<>>}
<1>10. \A piece \in Range(all) : piece \notin kept => says[piece] = <<>>
  BY <1>4
<1>11. Pieces(lines) = Only(all, kept)
  BY DEF Pieces
<1> HIDE DEF says, D, all, kept
<1>12. Spelt(says, Only(all, kept)) = Spelt(says, all)
  BY <1>4, <1>9, <1>10, SpeltOnly
<1>13. Spelt(says, Pieces(lines)) = Spelt(LineSays, lines)
  BY <1>6, <1>8, <1>11, <1>12
<1> QED
  BY <1>13 DEF says

-----------------------------------------------------------------------------
(* What paragraphs and text units say.                                     *)
ParagraphSays == [paragraph \in FlatParagraphs |-> FlattenSeq(paragraph.sentences)]

SizesOf(words) == [w \in DOMAIN words |-> words[w].size]

UnitSays == [unit \in Units |-> <<unit.size>>]

RowSays == [row \in Seq(Units) |-> SizesOf(row)]

(* Paragraphs have words.                                                  *)
LEMMA ParagraphsSay ==
  Stands(ParagraphSays, FlatParagraphs, WordSizes)
<1>1. ASSUME NEW paragraph \in FlatParagraphs PROVE FlattenSeq(paragraph.sentences) \in Seq(WordSizes)
  <2> DEFINE t == paragraph.sentences
  <2>1. t \in LineTexts
    BY DEF FlatParagraphs
  <2> HIDE DEF t
  <2>2. FlattenSeq(t) \in Seq(WordSizes)
    BY <2>1, TextsSay
  <2> QED
    BY <2>2 DEF t
<1> QED
  BY <1>1 DEF Stands, ParagraphSays

(* A row of text units says their sizes.                                   *)
LEMMA UnitsSay ==
  /\ Stands(UnitSays, Units, Int) /\ Stands(RowSays, Seq(Units), Int)
  /\ \A row \in Seq(Units) : Spelt(UnitSays, row) = SizesOf(row) /\ RowSays[row] = SizesOf(row)
<1> DEFINE size == [unit \in Units |-> unit.size]
<1>1. \A unit \in Units : size[unit] = unit.size /\ size[unit] \in Int /\ unit.size \in Int
  BY DEF Units
<1>2. \A unit \in Units : <<unit.size>> \in Seq(Int)
  <2>1. \A unit \in Units : unit.size \in Int
    BY DEF Units
  <2> QED
    BY <2>1, SequenceOfOne
<1>3. Stands(UnitSays, Units, Int)
  BY <1>2 DEF Stands, UnitSays
<1>4. \A unit \in Units : UnitSays[unit] = <<size[unit]>>
  BY DEF UnitSays
<1>5. ASSUME NEW row \in Seq(Units) PROVE SizesOf(row) \in Seq(Int) /\ Spelt(UnitSays, row) = SizesOf(row)
  <2> HIDE DEF size
  <2>0. \A n \in 1 .. Len(row) : row[n] \in Units
    OBVIOUS
  <2>1. \A n \in 1 .. Len(row) : size[row[n]] = row[n].size /\ row[n].size \in Int
    BY <1>1, <2>0
  <2>2. DOMAIN row = 1 .. Len(row) /\ Len(row) \in Nat
    OBVIOUS
  <2>3. SizesOf(row) = [n \in 1 .. Len(row) |-> row[n].size]
    BY <2>2 DEF SizesOf
  <2>4. SizesOf(row) \in Seq(Int)
    <3> DEFINE k == Len(row)
               sizes == [n \in 1 .. k |-> row[n].size]
    <3>1. sizes \in [1 .. k -> Int] /\ k \in Nat
      BY <2>1, <2>2
    <3> HIDE DEF sizes, k
    <3>2. sizes \in Seq(Int)
      BY <3>1
    <3> QED
      BY <2>3, <3>2 DEF sizes, k
  <2>5. Spelt(UnitSays, row) = [n \in DOMAIN row |-> size[row[n]]]
    BY <1>1, <1>3, <1>4, SpeltAlone
  <2> QED
    BY <2>1, <2>2, <2>3, <2>4, <2>5
<1> HIDE DEF size
<1>6. Stands(RowSays, Seq(Units), Int) /\ \A row \in Seq(Units) : RowSays[row] = SizesOf(row)
  BY <1>5 DEF Stands, RowSays
<1> QED
  BY <1>3, <1>5, <1>6

(* The words of a paragraph that is laid out are its words.                *)
LEMMA SpreadSays ==
  ASSUME NEW paragraph \in FlatParagraphs, NEW from \in Int, NEW laid, laid = LaidOutFrom(from, paragraph)
  PROVE  SizesOf(laid.words) = ParagraphSays[paragraph]
<1> DEFINE S == paragraph.sentences
           row == laid.sentences
           words == [i \in DOMAIN row |-> Row(paragraph.place, row[i].from, S[i])]
<1>1. PICK lain, spread : LiesAs(laid, from, paragraph, lain, spread)
  BY SentenceFacts
<1>2. lain \in Seq(Units) /\ Len(lain) = Len(S)
      /\ laid = [whole |-> Unit(paragraph.place, from, ParagraphSize(paragraph)),
                 sentences |-> lain, words |-> FlattenSeq(spread)]
  BY <1>1, Zenon DEF LiesAs
<1>3. row \in Seq(Units) /\ Len(row) = Len(S)
  BY <1>2
<1>4. laid.words = FlattenSeq(words)
  BY DEF LaidOutFrom
<1>5. paragraph.place \in Places /\ S \in Seq(Seq(Nat \ {0}))
  <2> DEFINE t == S
  <2>1. t \in LineTexts /\ paragraph.place \in Places
    BY DEF FlatParagraphs
  <2> HIDE DEF t
  <2>2. t \in Seq(Seq(Nat \ {0}))
    BY <2>1, TextsSay DEF WordSizes
  <2> QED
    BY <2>1, <2>2 DEF t
<1>6. DOMAIN row = 1 .. Len(row) /\ Len(row) \in Nat /\ DOMAIN S = 1 .. Len(row)
      /\ \A i \in 1 .. Len(row) : row[i].from \in Int /\ S[i] \in Seq(Nat \ {0})
  <2>1. \A i \in 1 .. Len(row) : row[i] \in Units
    BY <1>3
  <2>2. \A i \in 1 .. Len(row) : row[i].from \in Int
    BY <2>1 DEF Units
  <2> HIDE DEF row, S
  <2>3. Len(row) \in Nat /\ DOMAIN row = 1 .. Len(row) /\ DOMAIN S = 1 .. Len(S)
    BY <1>3, <1>5
  <2>4. \A i \in 1 .. Len(S) : S[i] \in Seq(Nat \ {0})
    BY <1>5
  <2> QED
    BY <1>3, <2>2, <2>3, <2>4, Zenon
<1> HIDE DEF S, row
<1>7. ASSUME NEW i \in 1 .. Len(row) PROVE words[i] \in Seq(Units) /\ RowSays[words[i]] = S[i]
  <2> DEFINE of == Row(paragraph.place, row[i].from, S[i])
             sizes == S[i]
             begin == row[i].from
  <2>1. sizes \in Seq(Nat \ {0}) /\ begin \in Int /\ of = Row(paragraph.place, begin, sizes)
    BY <1>6
  <2> HIDE DEF sizes, begin
  <2>2. RowLies(of, paragraph.place, begin, sizes)
    <3> HIDE DEF of
    <3> QED
      BY <1>5, <2>1, RowFacts
  <2> HIDE DEF of
  <2>3. of \in Seq(Units) /\ Len(of) = Len(sizes) /\ \A n \in 1 .. Len(sizes) : of[n].size = sizes[n]
    BY <2>2, Zenon DEF RowLies
  <2>4. SizesOf(of) = sizes
    <3>1. DOMAIN of = 1 .. Len(sizes) /\ DOMAIN sizes = 1 .. Len(sizes)
      BY <2>1, <2>3
    <3>2. sizes = [n \in 1 .. Len(sizes) |-> sizes[n]]
      BY <2>1, <3>1
    <3> QED
      BY <2>3, <3>1, <3>2 DEF SizesOf
  <2>5. RowSays[of] = sizes
    BY <2>3, <2>4, UnitsSay
  <2>6. words[i] = of
    BY <1>6 DEF of
  <2> QED
    BY <2>3, <2>5, <2>6 DEF sizes
<1>8. DOMAIN words = 1 .. Len(row) /\ Len(words) = Len(row) /\ words \in Seq(Seq(Units))
  <2>1. words = [i \in 1 .. Len(row) |-> words[i]] /\ DOMAIN words = 1 .. Len(row)
    BY <1>6
  <2>0. \A i \in 1 .. Len(row) : words[i] \in Seq(Units)
    BY <1>7
  <2> DEFINE k == Len(row)
             rows == Seq(Units)
  <2> HIDE DEF words
  <2>2. words \in [1 .. k -> rows] /\ k \in Nat
    BY <1>6, <2>0, <2>1
  <2> HIDE DEF k, rows
  <2>3. words \in Seq(rows) /\ Len(words) = k
    BY <2>2
  <2> QED
    BY <2>1, <2>3 DEF k, rows
<1> HIDE DEF words
<1>9. Spelt(UnitSays, FlattenSeq(words)) = Spelt(RowSays, words)
  BY <1>8, UnitsSay, SpeltTwice
<1>10. Spelt(RowSays, words) = FlattenSeq(S)
  <2>1. [i \in DOMAIN words |-> RowSays[words[i]]] = [i \in 1 .. Len(row) |-> S[i]]
    BY <1>7, <1>8
  <2>2. [i \in 1 .. Len(row) |-> S[i]] = S
    BY <1>5, <1>6
  <2> QED
    BY <2>1, <2>2 DEF Spelt
<1>11. FlattenSeq(words) \in Seq(Units)
  BY <1>8, FlattenIs
<1>12. Spelt(UnitSays, FlattenSeq(words)) = SizesOf(FlattenSeq(words))
  BY <1>11, UnitsSay
<1> QED
  BY <1>4, <1>9, <1>10, <1>12 DEF S, ParagraphSays

(* What the text of a document says.                                       *)
SaidBy(document) == FlattenSeq([i \in DOMAIN document |-> SizesOf(document[i].words)])

(* It says what its paragraphs say.                                        *)
LEMMA LaidOutSays ==
  ASSUME NEW document \in Seq(FlatParagraphs)
  PROVE  SaidBy(LaidOut(document)) = Spelt(ParagraphSays, document)
<1> DEFINE sizes == [i \in DOMAIN document |-> ParagraphSize(document[i])]
           laid == LaidOut(document)
           d == Offsets(sizes)
           k == Len(document)
<1>1. k \in Nat /\ DOMAIN document = 1 .. k /\ \A i \in 1 .. k : document[i] \in FlatParagraphs
  OBVIOUS
<1>2. \A i \in 1 .. k : ParagraphSize(document[i]) \in Nat \ {0}
  <2> SUFFICES ASSUME NEW i \in 1 .. k PROVE ParagraphSize(document[i]) \in Nat \ {0}
    OBVIOUS
  <2>1. document[i] \in FlatParagraphs /\ 0 \in Int
    BY <1>1
  <2> HIDE DEF k
  <2> QED
    BY <2>1, ParagraphIsSpread
<1>3. sizes \in Seq(Int) /\ Len(sizes) = k
  <2>1. sizes \in [1 .. k -> Int]
    BY <1>1, <1>2
  <2> HIDE DEF sizes, k
  <2> QED
    BY <1>1, <2>1
<1>4. laid = [i \in 1 .. k |-> LaidOutFrom(1 + JoinedSize(SubSeq(sizes, 1, i - 1)), document[i])]
  BY <1>1 DEF LaidOut
<1> HIDE DEF sizes, k, laid
<1>5. d \in [0 .. k -> Int] /\ \A n \in 0 .. k : d[n] = JoinedSize(SubSeq(sizes, 1, n))
  <2>1. d \in [0 .. Len(sizes) -> Int]
    BY <1>3, OffsetsAdd
  <2>2. \A n \in 0 .. Len(sizes) : d[n] = JoinedSize(SubSeq(sizes, 1, n))
    BY DEF Offsets
  <2> HIDE DEF d
  <2> QED
    BY <1>3, <2>1, <2>2
<1> HIDE DEF d
<1>6. ASSUME NEW i \in 1 .. k PROVE SizesOf(laid[i].words) = ParagraphSays[document[i]]
  <2>1. i - 1 \in 0 .. k /\ document[i] \in FlatParagraphs
    BY <1>1
  <2>2. d[i - 1] \in Int /\ laid[i] = LaidOutFrom(1 + d[i - 1], document[i])
    BY <1>4, <1>5, <2>1
  <2> DEFINE from == 1 + d[i - 1]
             paragraph == document[i]
             it == laid[i]
  <2>3. from \in Int /\ it = LaidOutFrom(from, paragraph) /\ paragraph \in FlatParagraphs
    BY <2>1, <2>2
  <2> HIDE DEF from, paragraph, it
  <2>4. SizesOf(it.words) = ParagraphSays[paragraph]
    BY <2>3, SpreadSays
  <2> QED
    BY <2>4 DEF it, paragraph
<1>7. DOMAIN laid = 1 .. k
  BY <1>4
<1>8. [i \in DOMAIN laid |-> SizesOf(laid[i].words)] = [i \in DOMAIN document |-> ParagraphSays[document[i]]]
  BY <1>1, <1>6, <1>7
<1>9. SaidBy(laid) = Spelt(ParagraphSays, document)
  BY <1>8 DEF SaidBy, Spelt
<1> QED
  BY <1>9 DEF laid

(* The lines of all sections, one after the other.                         *)
LinesOf(secs) == FlattenSeq([k \in DOMAIN secs |-> secs[k].lines])

(* What a parser hands over says what the lines of its sections say.       *)
LEMMA ParsedTextSays ==
  ASSUME file \in Files, ArePlaced(file, sections)
  PROVE  SaidBy(ParsedText) = Spelt(LineSays, LinesOf(sections))
<1> DEFINE D == DOMAIN file.lines
           K == DOMAIN sections
           Of(k) == [n \in DOMAIN Pieces(sections[k].lines) |->
                       ParagraphOf(sections[k], Pieces(sections[k].lines)[n])]
           all == [k \in K |-> Of(k)]
           lines == [k \in K |-> sections[k].lines]
           says == [paragraphs \in Seq(FlatParagraphs) |-> Spelt(ParagraphSays, paragraphs)]
<1>1. K = 1 .. Len(sections) /\ Len(sections) \in Nat
  <2>1. sections \in Seq(Sections(file))
    BY DEF ArePlaced
  <2> QED
    BY <2>1
<1>2. \A k \in K : Of(k) \in Seq(FlatParagraphs)
  BY ParagraphsOfSection
<1>3. \A k \in K : sections[k].lines \in Seq(D)
  BY DEF ArePlaced, IsPlaced
<1>4. ASSUME NEW k \in K PROVE Spelt(ParagraphSays, Of(k)) = PieceSays[sections[k].lines]
  <2> DEFINE section == sections[k]
             pieces == Pieces(section.lines)
             paragraphs == Of(k)
  <2>1. section.lines \in Seq(D) /\ paragraphs \in Seq(FlatParagraphs)
    BY <1>2, <1>3
  <2>2. pieces \in Seq(Seq(D))
    <3>1. \A i \in D : Line(i).kind = "fence" => ~IsBlank(i)
      BY ParsedFile, ShapeOf
    <3> QED
      BY <2>1, <3>1, PiecesAre
  <2>3. DOMAIN paragraphs = DOMAIN pieces
        /\ \A n \in DOMAIN pieces : paragraphs[n] \in FlatParagraphs
             /\ paragraphs[n].sentences = GluedLines(pieces[n]).sentences
    <3>1. DOMAIN paragraphs = DOMAIN pieces
          /\ \A n \in DOMAIN pieces : paragraphs[n].sentences = GluedLines(pieces[n]).sentences
      BY DEF ParagraphOf
    <3> HIDE DEF paragraphs, pieces
    <3>2. \A n \in DOMAIN paragraphs : paragraphs[n] \in FlatParagraphs
      BY <2>1
    <3> QED
      BY <3>1, <3>2
  <2>4. \A n \in DOMAIN pieces : pieces[n] \in Seq(D)
    <3> HIDE DEF pieces, D
    <3> QED
      BY <2>2
  <2> HIDE DEF paragraphs, pieces
  <2>5. ASSUME NEW n \in DOMAIN pieces PROVE ParagraphSays[paragraphs[n]] = PieceSays[pieces[n]]
    <3>1. FlattenSeq(GluedLines(pieces[n]).sentences) = PieceSays[pieces[n]]
      BY <2>4, PieceIsSaid
    <3> QED
      BY <2>3, <3>1 DEF ParagraphSays
  <2>6. [n \in DOMAIN paragraphs |-> ParagraphSays[paragraphs[n]]] = [n \in DOMAIN pieces |-> PieceSays[pieces[n]]]
    BY <2>3, <2>5
  <2>7. Spelt(ParagraphSays, paragraphs) = Spelt(PieceSays, pieces)
    BY <2>6 DEF Spelt
  <2>8. Spelt(PieceSays, pieces) = Spelt(LineSays, section.lines)
    BY <2>1, PiecesSay DEF pieces
  <2>9. PieceSays[section.lines] = Spelt(LineSays, section.lines)
    BY <2>1 DEF PieceSays
  <2> QED
    BY <2>7, <2>8, <2>9 DEF paragraphs
<1> HIDE DEF Of, K, D
<1>5. all \in Seq(Seq(FlatParagraphs)) /\ lines \in Seq(Seq(D)) /\ DOMAIN all = K /\ DOMAIN lines = K
      /\ \A k \in K : all[k] = Of(k) /\ lines[k] = sections[k].lines
  <2>1. all \in [K -> Seq(FlatParagraphs)] /\ lines \in [K -> Seq(D)]
    BY <1>2, <1>3
  <2>2. \A k \in K : all[k] = Of(k) /\ lines[k] = sections[k].lines
    OBVIOUS
  <2> HIDE DEF all, lines
  <2>3. all \in Seq(Seq(FlatParagraphs))
    BY <1>1, <2>1
  <2>4. lines \in Seq(Seq(D))
    BY <1>1, <2>1
  <2> QED
    BY <2>1, <2>2, <2>3, <2>4
<1>6. /\ Stands(says, Seq(FlatParagraphs), WordSizes)
      /\ \A paragraphs \in Seq(FlatParagraphs) : says[paragraphs] = Spelt(ParagraphSays, paragraphs)
  <2>1. \A paragraphs \in Seq(FlatParagraphs) : Spelt(ParagraphSays, paragraphs) \in Seq(WordSizes)
    BY ParagraphsSay, Spelling
  <2> QED
    BY <2>1 DEF Stands
<1>7. ParsedText = LaidOut(FlattenSeq(all))
  BY DEF ParsedText, Of, K
<1>8. LinesOf(sections) = FlattenSeq(lines)
  BY DEF LinesOf, K
<1> HIDE DEF all, lines, says
<1>9. FlattenSeq(all) \in Seq(FlatParagraphs)
  BY <1>5, FlattenIs
<1>10. SaidBy(ParsedText) = Spelt(ParagraphSays, FlattenSeq(all))
  BY <1>7, <1>9, LaidOutSays
<1>11. Spelt(ParagraphSays, FlattenSeq(all)) = Spelt(says, all)
  BY <1>5, <1>6, ParagraphsSay, SpeltTwice
<1>12. Spelt(says, all) = Spelt(PieceSays, lines)
  <2>1. ASSUME NEW k \in K PROVE says[all[k]] = PieceSays[lines[k]]
    BY <1>2, <1>4, <1>5, <1>6
  <2>2. [k \in DOMAIN all |-> says[all[k]]] = [k \in DOMAIN lines |-> PieceSays[lines[k]]]
    BY <1>5, <2>1
  <2> QED
    BY <2>2 DEF Spelt
<1>13. Spelt(LineSays, FlattenSeq(lines)) = Spelt(PieceSays, lines)
  <2>1. Stands(LineSays, D, WordSizes) /\ Stands(PieceSays, Seq(D), WordSizes)
    BY LinesSay DEF D
  <2>2. \A piece \in Seq(D) : PieceSays[piece] = Spelt(LineSays, piece)
    BY DEF PieceSays, D
  <2> QED
    BY <1>5, <2>1, <2>2, SpeltTwice
<1> QED
  BY <1>8, <1>10, <1>11, <1>12, <1>13

-----------------------------------------------------------------------------
(* Two increasing sequences of the same numbers begin alike.                *)
LEMMA IncreasingBegins ==
  ASSUME NEW s, IsIncreasing(s), NEW t, IsIncreasing(t), Range(s) = Range(t)
  PROVE  Len(s) <= Len(t) /\ \A i \in 1 .. Len(s) : s[i] = t[i]
<1>1. /\ Len(s) \in Nat /\ DOMAIN s = 1 .. Len(s) /\ Len(t) \in Nat /\ DOMAIN t = 1 .. Len(t)
      /\ \A i \in 1 .. Len(s) : s[i] \in Int
      /\ \A i \in 1 .. Len(t) : t[i] \in Int
  BY DEF IsIncreasing
<1>2. /\ \A i, j \in 1 .. Len(s) : i < j => s[i] < s[j]
      /\ \A i, j \in 1 .. Len(t) : i < j => t[i] < t[j]
  BY <1>1 DEF IsIncreasing
<1>3. /\ \A i \in 1 .. Len(s) : \E j \in 1 .. Len(t) : t[j] = s[i]
      /\ \A j \in 1 .. Len(t) : \E i \in 1 .. Len(s) : s[i] = t[j]
  BY <1>1 DEF Range
<1> DEFINE T == {n \in 0 .. Len(s) : n <= Len(t) /\ \A i \in 1 .. n : s[i] = t[i]}
<1>4. 0 \in T
  BY <1>1
<1>5. ASSUME NEW n \in 1 .. Len(s), n - 1 \in T PROVE n \in T
  <2>1. n \in 0 .. Len(s) /\ n \in Int /\ s[n] \in Int /\ \A i \in 1 .. n - 1 : s[i] = t[i]
    BY <1>1, <1>5
  <2>2. PICK j \in 1 .. Len(t) : t[j] = s[n]
    BY <1>3
  <2>3. ~(j < n)
    <3> SUFFICES ASSUME j < n PROVE FALSE
      OBVIOUS
    <3>1. j \in 1 .. n - 1 /\ j \in 1 .. Len(s)
      BY <1>1, <2>1
    <3>2. s[j] = s[n] /\ s[j] < s[n]
      BY <1>2, <2>1, <2>2, <3>1
    <3> QED
      BY <2>1, <3>2
  <2>4. n \in 1 .. Len(t) /\ t[n] \in Int
    BY <1>1, <2>1, <2>3
  <2>5. PICK l \in 1 .. Len(s) : s[l] = t[n]
    BY <1>3, <2>4
  <2>6. ~(l < n)
    <3> SUFFICES ASSUME l < n PROVE FALSE
      OBVIOUS
    <3>1. l \in 1 .. n - 1 /\ l \in 1 .. Len(t)
      BY <1>1, <2>1, <2>4
    <3>2. t[l] = t[n] /\ t[l] < t[n]
      BY <1>2, <2>1, <2>4, <2>5, <3>1
    <3> QED
      BY <2>4, <3>2
  <2>7. t[n] <= t[j] /\ s[n] <= s[l]
    <3>1. n = j \/ n < j
      BY <2>1, <2>3
    <3>2. n = l \/ n < l
      BY <2>1, <2>6
    <3>3. t[n] <= t[j]
      BY <1>1, <1>2, <2>4, <3>1
    <3>4. s[n] <= s[l]
      BY <1>1, <1>2, <3>2
    <3> QED
      BY <3>3, <3>4
  <2>8. s[n] = t[n]
    BY <2>1, <2>2, <2>4, <2>5, <2>7
  <2> QED
    BY <1>5, <2>1, <2>4, <2>8
<1>6. Len(s) \in T
  <2> HIDE DEF T
  <2>1. 0 .. Len(s) \subseteq T
    BY <1>1, <1>4, <1>5, Upwards
  <2> QED
    BY <1>1, <2>1
<1> QED
  BY <1>6

(* So they are equal.                                                      *)
LEMMA IncreasingAreEqual ==
  ASSUME NEW s, IsIncreasing(s), NEW t, IsIncreasing(t), Range(s) = Range(t)
  PROVE  s = t
<1>1. Len(s) <= Len(t) /\ \A i \in 1 .. Len(s) : s[i] = t[i]
  BY IncreasingBegins
<1>2. Len(t) <= Len(s)
  BY IncreasingBegins
<1>3. s \in Seq(Int) /\ t \in Seq(Int)
  BY DEF IsIncreasing
<1>4. Len(s) = Len(t)
  BY <1>1, <1>2, <1>3
<1> QED
  BY <1>1, <1>3, <1>4, SeqEqual

(* What a file says: the words of its lines that can be read.              *)
CanBeRead == {i \in DOMAIN file.lines : Line(i).page \notin file.unreadable}

FileSays == Spelt(LineSays, Only(AllLines, CanBeRead))

(* The sections of a file say what the file says.                          *)
LEMMA SectionsSay ==
  ASSUME file \in Files, AllRead(file, sections)
  PROVE  Spelt(LineSays, LinesOf(sections)) = FileSays
<1> DEFINE D == DOMAIN file.lines
           K == DOMAIN sections
           lines == [k \in K |-> sections[k].lines]
           said == LinesOf(sections)
           readable == Only(AllLines, CanBeRead)
           kept == {i \in D : ~IsBlank(i)}
           Smaller == {pair \in Int \X Int : pair[1] < pair[2]}
<1>1. ArePlaced(file, sections)
      /\ \A i \in D : ~IsBlank(i) /\ Line(i).page \notin file.unreadable => HasLine(sections, i)
  <2>1. ArePlaced(file, sections)
        /\ \A i \in DOMAIN file.lines : ~Blank(file, i) /\ file.lines[i].page \notin file.unreadable => HasLine(sections, i)
    BY Zenon DEF AllRead
  <2> QED
    BY <2>1, ParsedFile
<1>2. K = 1 .. Len(sections) /\ Len(sections) \in Nat
  <2>1. sections \in Seq(Sections(file))
    BY <1>1 DEF ArePlaced
  <2> QED
    BY <2>1
<1>3. /\ \A k \in K : IsPlaced(file, sections[k].lines, sections[k].page, sections[k].title)
      /\ \A k, l \in K : k < l =>
           \A i \in Range(sections[k].lines), j \in Range(sections[l].lines) : i < j
  BY <1>1, Zenon DEF ArePlaced
<1>4. ASSUME NEW k \in K
      PROVE  /\ sections[k].lines \in Seq(D) /\ IsIncreasing(sections[k].lines)
             /\ \A i \in Range(sections[k].lines) : Line(i).page \notin file.unreadable
  BY <1>3, ParsedFile DEF IsPlaced
<1>5. AllLines \in Seq(D) /\ IsIncreasing(AllLines) /\ Range(AllLines) = D
  BY AllLinesAre
<1>6. D \subseteq Int
  BY ShapeOf
<1>7. CanBeRead \subseteq D /\ \A i \in D : i \in CanBeRead <=> Line(i).page \notin file.unreadable
  BY DEF CanBeRead
<1>8. Stands(LineSays, D, WordSizes) /\ \A i \in D : i \notin kept => LineSays[i] = <<>>
  BY LinesSay
<1> HIDE DEF D, K
<1>9. lines \in Seq(Seq(D)) /\ Len(lines) = Len(sections) /\ \A k \in 1 .. Len(sections) : lines[k] = sections[k].lines
  <2>1. lines \in [1 .. Len(sections) -> Seq(D)] /\ \A k \in 1 .. Len(sections) : lines[k] = sections[k].lines
    BY <1>2, <1>4
  <2> HIDE DEF lines
  <2> QED
    BY <1>2, <2>1
<1>10. said = FlattenSeq(lines)
  BY DEF LinesOf, K
<1> HIDE DEF lines, said
<1>11. /\ said \in Seq(D)
       /\ \A i : i \in Range(said) <=> \E k \in K : i \in Range(sections[k].lines)
       /\ Range(said) \subseteq D /\ said \in Seq(Int)
  <2>1. /\ FlattenSeq(lines) \in Seq(D)
        /\ \A i : i \in Range(FlattenSeq(lines)) <=> \E k \in 1 .. Len(lines) : i \in Range(lines[k])
    BY <1>9, FlattenIs
  <2>2. said \in Seq(D) /\ \A i : i \in Range(said) <=> \E k \in K : i \in Range(sections[k].lines)
    BY <1>2, <1>9, <1>10, <2>1
  <2>3. DOMAIN said = 1 .. Len(said) /\ Len(said) \in Nat /\ \A n \in 1 .. Len(said) : said[n] \in D
    BY <2>2
  <2>4. \A n \in 1 .. Len(said) : said[n] \in Int
    BY <1>6, <2>3
  <2>5. said \in Seq(Int)
    BY <2>2, <2>3, <2>4
  <2>6. Range(said) \subseteq D
    BY <2>3 DEF Range
  <2> QED
    BY <2>2, <2>5, <2>6
<1>12. IsIncreasing(said)
  <2>1. \A k \in 1 .. Len(lines) : Ascends(lines[k], Smaller)
    <3> SUFFICES ASSUME NEW k \in 1 .. Len(lines) PROVE Ascends(lines[k], Smaller)
      OBVIOUS
    <3>1. IsIncreasing(lines[k])
      BY <1>2, <1>4, <1>9
    <3> DEFINE s == lines[k]
    <3> HIDE DEF s
    <3>2. IsIncreasing(s)
      BY <3>1 DEF s
    <3>3. \A i, j \in DOMAIN s : s[i] \in Int /\ (i < j => s[i] < s[j])
      BY <3>2 DEF IsIncreasing
    <3>4. Ascends(s, Smaller)
      BY <3>3 DEF Ascends
    <3> QED
      BY <3>4 DEF s
  <2>2. \A k, l \in 1 .. Len(lines) : k < l =>
          \A i \in Range(lines[k]), j \in Range(lines[l]) : <<i, j>> \in Smaller
    <3> SUFFICES ASSUME NEW k \in 1 .. Len(lines), NEW l \in 1 .. Len(lines), k < l,
                        NEW i \in Range(lines[k]), NEW j \in Range(lines[l])
                 PROVE  <<i, j>> \in Smaller
      OBVIOUS
    <3>1. k \in K /\ l \in K /\ lines[k] = sections[k].lines /\ lines[l] = sections[l].lines
      BY <1>2, <1>9
    <3>2. i < j
      BY <1>3, <3>1
    <3>3. i \in Range(said) /\ j \in Range(said)
      BY <1>11, <3>1
    <3>4. i \in Int /\ j \in Int
      BY <1>6, <1>11, <3>3
    <3> QED
      BY <3>2, <3>4
  <2> HIDE DEF Smaller
  <2>3. Ascends(FlattenSeq(lines), Smaller)
    BY <1>9, <2>1, <2>2, FlattenIs
  <2>4. Ascends(said, Smaller)
    BY <1>10, <2>3
  <2>6. \A i, j \in DOMAIN said : i < j => said[i] < said[j]
    BY <2>4 DEF Ascends, Smaller
  <2> QED
    BY <1>11, <2>6 DEF IsIncreasing
<1>13. /\ readable \in Seq(D) /\ Range(readable) = CanBeRead /\ IsIncreasing(readable)
  <2>1. readable \in Seq(D) /\ Range(readable) = Range(AllLines) \cap CanBeRead
    BY <1>5, OnlyIs
  <2>2. IsIncreasing(readable)
    BY <1>5, OnlyIncreases
  <2> QED
    BY <1>5, <1>7, <2>1, <2>2
<1> HIDE DEF readable
<1>14. Only(said, kept) = Only(readable, kept)
  <2>1. Range(Only(said, kept)) = Range(said) \cap kept /\ Range(Only(readable, kept)) = CanBeRead \cap kept
    <3> HIDE DEF kept
    <3> QED
      BY <1>11, <1>13, OnlyIs
  <2>2. Range(said) \cap kept \subseteq CanBeRead
    <3> SUFFICES ASSUME NEW i \in Range(said), i \in kept PROVE i \in CanBeRead
      OBVIOUS
    <3>1. PICK k \in K : i \in Range(sections[k].lines)
      BY <1>11
    <3> QED
      BY <1>4, <1>7, <3>1
  <2>3. CanBeRead \cap kept \subseteq Range(said)
    <3> SUFFICES ASSUME NEW i \in CanBeRead, i \in kept PROVE i \in Range(said)
      OBVIOUS
    <3>1. HasLine(sections, i)
      BY <1>1, <1>7
    <3>2. \E k \in K : i \in Range(sections[k].lines)
      BY <3>1 DEF HasLine, K
    <3> QED
      BY <1>11, <3>2
  <2>4. Range(Only(said, kept)) = Range(Only(readable, kept))
    BY <2>1, <2>2, <2>3
  <2>5. IsIncreasing(Only(said, kept)) /\ IsIncreasing(Only(readable, kept))
    BY <1>12, <1>13, OnlyIncreases
  <2> HIDE DEF kept
  <2> QED
    BY <2>4, <2>5, IncreasingAreEqual
<1>15. Spelt(LineSays, Only(said, kept)) = Spelt(LineSays, said)
  <2>1. \A i \in Range(said) : i \notin kept => LineSays[i] = <<>>
    BY <1>8, <1>11 DEF Range
  <2> HIDE DEF kept
  <2> QED
    BY <1>8, <1>11, <2>1, SpeltOnly
<1>16. Spelt(LineSays, Only(readable, kept)) = Spelt(LineSays, readable)
  <2>1. \A i \in Range(readable) : i \notin kept => LineSays[i] = <<>>
    BY <1>7, <1>8, <1>13
  <2> HIDE DEF kept
  <2> QED
    BY <1>8, <1>13, <2>1, SpeltOnly
<1> QED
  BY <1>14, <1>15, <1>16 DEF said, readable, FileSays

(* The words that the chunker gets are those of the file, in order, of all *)
(* lines that can be read: none is dropped, doubled or moved between a     *)
(* parser and the chunker.                                                 *)
THEOREM FilesKeepTheirWords == FileSpec => [](stage # "parse" => SaidBy(text) = FileSays)
<1> DEFINE Says == stage # "parse" => parsing = "parsed" /\ SaidBy(text) = FileSays
<1>1. FileInit => Says
  BY DEF FileInit
<1>2. ParserInvariant /\ Says /\ [FileNext]_fileVars => Says'
  <2> SUFFICES ASSUME ParserInvariant, Says, [FileNext]_fileVars PROVE Says'
    OBVIOUS
  <2>1. ASSUME text' = text, stage # "parse", UNCHANGED parsingVars PROVE Says'
    BY <2>1 DEF FileSays, SaidBy, SizesOf, LineSays, CanBeRead, AllLines, Line, parsingVars
  <2>2. CASE ParseOn
    BY <2>2 DEF ParseOn, vars
  <2>3. CASE HandOver
    <3>1. /\ parsing = "parsed" /\ parsing' = "parsed" /\ text' = ParsedText /\ UNCHANGED parsingVars
      BY <2>3 DEF HandOver, parsingVars
    <3>2. AllRead(file, sections) /\ file \in Files
      BY <3>1 DEF ParserInvariant
    <3>3. ArePlaced(file, sections)
      BY <3>2 DEF AllRead
    <3>4. SaidBy(ParsedText) = FileSays
      BY <3>2, <3>3, ParsedTextSays, SectionsSay
    <3>5. FileSays' = FileSays
      BY <3>1 DEF FileSays, LineSays, CanBeRead, AllLines, Line, parsingVars
    <3>6. SaidBy(text') = FileSays'
      BY <3>1, <3>4, <3>5
    <3> QED
      BY <3>1, <3>6 DEF SaidBy, SizesOf
  <2>4. CASE ChunkOn
    <3>1. text' = text
      BY <2>4 DEF ChunkOn, Next, KeepParagraph, SplitParagraph, SplitHard, EndSplitHard, PackTextUnit,
         EndParagraph, EndSplitting, Pack, EndPacking, KeepLong, MergeWithPrevious, MergeWithNext,
         KeepShort, EndMerging, ApplyOverlap, EndOverlap, Advance
    <3> QED
      BY <2>1, <2>4, <3>1 DEF ChunkOn
  <2>5. CASE UNCHANGED fileVars
    <3>1. CASE stage = "parse"
      BY <2>5, <3>1 DEF fileVars, vars
    <3>2. CASE stage # "parse"
      BY <2>1, <2>5, <3>2 DEF fileVars, vars
    <3> QED
      BY <3>1, <3>2
  <2> QED
    BY <2>2, <2>3, <2>4, <2>5 DEF FileNext
<1>3. FileSpec => []Says
  BY <1>1, <1>2, ParsersKeepTheirPlace, PTL DEF FileSpec
<1>4. Says => (stage # "parse" => SaidBy(text) = FileSays)
  OBVIOUS
<1> QED
  BY <1>3, <1>4, PTL
=============================================================================
