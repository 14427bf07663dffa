------------------------- MODULE SequenceInduction -------------------------
(***************************************************************************)
(* Induction over numbers and sequences without operator parameters: a     *)
(* property is the set of what has it, a step of a recursion a function.   *)
(***************************************************************************)
EXTENDS Integers, Sequences, FiniteSetsExt, SequenceTheorems, FiniteSetTheorems, TLAPS

-----------------------------------------------------------------------------
(* Numbers.                                                                *)

(* The intervals from 0 are finite sets, ordered by inclusion as their     *)
(* ends are by size, and that order is well founded.                       *)
LEMMA LeastNatural ==
  ASSUME NEW T \in SUBSET Nat, T # {}
  PROVE  \E m \in T : \A n \in T : m <= n
<1> DEFINE I == {0 .. n : n \in T}
<1>1. I \subseteq FiniteSubsetsOf(Nat)
  <2> SUFFICES ASSUME NEW n \in T PROVE 0 .. n \in FiniteSubsetsOf(Nat)
    OBVIOUS
  <2>1. n \in Int /\ 0 \in Int /\ 0 .. n \subseteq Nat
    OBVIOUS
  <2> QED
    BY <2>1, FS_Interval DEF FiniteSubsetsOf
<1>2. I # {}
  OBVIOUS
<1>3. PICK s \in I : \A t \in I : <<t, s>> \notin StrictSubsetOrdering(Nat)
  <2> HIDE DEF I
  <2> QED
    BY <1>1, <1>2, FS_StrictSubsetOrderingWellFounded, WFMin
<1>4. PICK m \in T : s = 0 .. m
  OBVIOUS
<1>5. ASSUME NEW n \in T, ~(m <= n) PROVE FALSE
  <2>1. 0 .. n \in I /\ 0 .. n \subseteq 0 .. m /\ 0 .. n # 0 .. m
    BY <1>5
  <2>2. <<0 .. n, 0 .. m>> \in StrictSubsetOrdering(Nat)
    BY <2>1 DEF StrictSubsetOrdering
  <2> QED
    BY <1>3, <1>4, <2>1, <2>2
<1> QED
  BY <1>5

(* What holds of 0, and of n + 1 when it holds of n, holds up to k.        *)
LEMMA UpTo ==
  ASSUME NEW k \in Nat, NEW T, 0 \in T, \A n \in 0 .. k - 1 : n \in T => n + 1 \in T
  PROVE  0 .. k \subseteq T
<1> SUFFICES ASSUME (0 .. k) \ T # {} PROVE FALSE
  OBVIOUS
<1>1. PICK m \in (0 .. k) \ T : \A n \in (0 .. k) \ T : m <= n
  <2>1. (0 .. k) \ T \in SUBSET Nat
    OBVIOUS
  <2> QED
    BY <2>1, LeastNatural
<1>2. m # 0 /\ m - 1 \in 0 .. k - 1 /\ m - 1 \in T
  BY <1>1
<1>3. m - 1 + 1 = m
  BY <1>1
<1> QED
  BY <1>1, <1>2, <1>3

(* The same, from the one below. *)
LEMMA Upwards ==
  ASSUME NEW k \in Nat, NEW T, 0 \in T, \A n \in 1 .. k : n - 1 \in T => n \in T
  PROVE  0 .. k \subseteq T
<1>1. ASSUME NEW n \in 0 .. k - 1, n \in T PROVE n + 1 \in T
  <2>1. n + 1 \in 1 .. k /\ n + 1 - 1 = n
    OBVIOUS
  <2> QED
    BY <1>1, <2>1
<1> QED
  BY <1>1, UpTo

(* A set of numbers that are bounded has a greatest one.                   *)
LEMMA Greatest ==
  ASSUME NEW k \in Nat, NEW T \in SUBSET (1 .. k), T # {}
  PROVE  Max(T) \in T /\ \A n \in T : n <= Max(T)
<1> DEFINE U == {k - n : n \in T}
<1>1. U \in SUBSET Nat /\ U # {}
  <2>1. \A n \in T : k - n \in Nat
    OBVIOUS
  <2> QED
    BY <2>1
<1>2. PICK m \in U : \A n \in U : m <= n
  BY <1>1, LeastNatural
<1>3. PICK x \in T : m = k - x
  OBVIOUS
<1>4. \A n \in T : x >= n
  <2> TAKE n \in T
  <2>1. k - n \in U /\ n \in Nat /\ x \in Nat
    OBVIOUS
  <2> QED
    BY <1>2, <1>3, <2>1
<1>5. \E y \in T : \A n \in T : y >= n
  BY <1>4
<1>6. Max(T) \in T /\ \A n \in T : Max(T) >= n
  BY <1>5 DEF Max
<1>7. T \subseteq Nat
  OBVIOUS
<1> QED
  BY <1>6, <1>7

LEMMA MaxIs ==
  ASSUME NEW k \in Nat, NEW T \in SUBSET (1 .. k), NEW m \in T, \A n \in T : n <= m
  PROVE  Max(T) = m
<1>1. Max(T) \in T /\ \A n \in T : n <= Max(T)
  BY Greatest
<1>2. \A n \in T : n \in Int
  OBVIOUS
<1>3. Max(T) <= m /\ m <= Max(T)
  BY <1>1
<1>4. Max(T) \in Int /\ m \in Int
  BY <1>1, <1>2
<1> QED
  BY <1>3, <1>4

-----------------------------------------------------------------------------
(* Recursion.                                                              *)

Steps(V, k) == [1 .. k -> [V -> V]]

(* Values that begin with a base, and of which each is a step after the    *)
(* one before it.                                                          *)
Chains(V, base, k, step) ==
  {c \in [0 .. k -> V] : c[0] = base /\ \A n \in 1 .. k : c[n] = step[n][c[n - 1]]}

(* There are such values.                                                  *)
LEMMA ChainExists ==
  ASSUME NEW V, NEW base \in V, NEW k \in Nat, NEW step \in Steps(V, k)
  PROVE  \E c : c \in Chains(V, base, k, step)
<1> USE DEF Steps, Chains
<1> DEFINE Upto(m) == \E c \in [0 .. m -> V] :
                         c[0] = base /\ \A n \in 1 .. m : c[n] = step[n][c[n - 1]]
           T == {m \in 0 .. k : Upto(m)}
<1>1. 0 \in T
  <2> DEFINE c == [n \in 0 .. 0 |-> base]
  <2>1. c \in [0 .. 0 -> V] /\ c[0] = base /\ \A n \in 1 .. 0 : c[n] = step[n][c[n - 1]]
    OBVIOUS
  <2>2. Upto(0)
    BY <2>1
  <2>3. 0 \in 0 .. k
    OBVIOUS
  <2> HIDE DEF Upto
  <2> QED
    BY <2>2, <2>3
<1>2. ASSUME NEW m \in 0 .. k - 1, m \in T PROVE m + 1 \in T
  <2>1. PICK c \in [0 .. m -> V] : c[0] = base /\ \A n \in 1 .. m : c[n] = step[n][c[n - 1]]
    BY <1>2
  <2> DEFINE d == [n \in 0 .. m + 1 |-> IF n = m + 1 THEN step[m + 1][c[m]] ELSE c[n]]
  <2>2. step[m + 1][c[m]] \in V
    OBVIOUS
  <2>3. d \in [0 .. m + 1 -> V]
    BY <2>2
  <2>4. d[0] = base
    BY <2>1
  <2>5. ASSUME NEW n \in 1 .. m + 1 PROVE d[n] = step[n][d[n - 1]]
    <3>1. CASE n = m + 1
      <4>1. n - 1 = m /\ m \in 0 .. m + 1 /\ d[m] = c[m] /\ d[n] = step[m + 1][c[m]]
        BY <3>1
      <4> QED
        BY <3>1, <4>1
    <3>2. CASE n \in 1 .. m
      <4>1. n - 1 \in 0 .. m /\ d[n - 1] = c[n - 1] /\ d[n] = c[n]
        BY <3>2
      <4> QED
        BY <3>2, <4>1, <2>1
    <3> QED
      BY <3>1, <3>2
  <2>6. m + 1 \in 0 .. k
    OBVIOUS
  <2>7. Upto(m + 1)
    <3> HIDE DEF d
    <3> QED
      BY <2>3, <2>4, <2>5
  <2> HIDE DEF Upto
  <2> QED
    BY <2>6, <2>7
<1> HIDE DEF T, Upto
<1>3. 0 .. k \subseteq T
  BY <1>1, <1>2, UpTo
<1>4. Upto(k)
  BY <1>3 DEF T
<1> QED
  BY <1>4 DEF Upto

(* A step that takes values of V and elements of X.                        *)
CanFold(X, V, base, seq, step) == seq \in Seq(X) /\ base \in V /\ step \in [V -> [X -> V]]

(* FoldLeft recurses over the subsets of a domain, from the greatest index *)
(* down.                                                                   *)
SubsetFolds(V, base, seq, step) ==
  {f \in [SUBSET (1 .. Len(seq)) -> V] :
     \A s \in SUBSET (1 .. Len(seq)) :
       f[s] = IF s = {} THEN base ELSE step[f[s \ {Max(s)}]][seq[Max(s)]]}

(* There is a function that obeys this recursion.                          *)
LEMMA FoldExists ==
  ASSUME NEW X, NEW V, NEW base, NEW seq, NEW step, CanFold(X, V, base, seq, step)
  PROVE  \E f : f \in SubsetFolds(V, base, seq, step)
<1> USE DEF SubsetFolds
<1>0. seq \in Seq(X) /\ base \in V /\ step \in [V -> [X -> V]]
  BY DEF CanFold
<1> USE <1>0
<1> DEFINE Obeys(f, m) ==
             /\ f \in [SUBSET (1 .. m) -> V]
             /\ \A s \in SUBSET (1 .. m) :
                  f[s] = IF s = {} THEN base ELSE step[f[s \ {Max(s)}]][seq[Max(s)]]
           T == {m \in 0 .. Len(seq) : \E f : Obeys(f, m)}
<1>1. 0 \in T
  <2> DEFINE f == [s \in SUBSET (1 .. 0) |-> base]
  <2>1. 1 .. 0 = {}
    OBVIOUS
  <2>2. Obeys(f, 0)
    BY <2>1
  <2>3. 0 \in 0 .. Len(seq)
    OBVIOUS
  <2> HIDE DEF Obeys, f
  <2> QED
    BY <2>2, <2>3
<1>2. ASSUME NEW m \in 0 .. Len(seq) - 1, m \in T PROVE m + 1 \in T
  <2>1. PICK f : Obeys(f, m)
    BY <1>2
  <2> DEFINE g == [s \in SUBSET (1 .. m + 1) |->
                     IF m + 1 \in s THEN step[f[s \ {m + 1}]][seq[m + 1]] ELSE f[s]]
  <2>2. seq[m + 1] \in X
    OBVIOUS
  <2>3. \A s \in SUBSET (1 .. m + 1) : s \ {m + 1} \in SUBSET (1 .. m)
    OBVIOUS
  <2>4. \A s \in SUBSET (1 .. m + 1) : m + 1 \notin s => s \in SUBSET (1 .. m)
    OBVIOUS
  <2>5. g \in [SUBSET (1 .. m + 1) -> V]
    BY <2>1, <2>2, <2>3, <2>4
  <2>6. ASSUME NEW s \in SUBSET (1 .. m + 1)
        PROVE  g[s] = IF s = {} THEN base ELSE step[g[s \ {Max(s)}]][seq[Max(s)]]
    <3>1. CASE m + 1 \in s
      <4>1. Max(s) = m + 1
        <5>1. m + 1 \in Nat /\ \A n \in s : n <= m + 1
          OBVIOUS
        <5> HIDE DEF g, Obeys
        <5> QED
          BY <3>1, <5>1, MaxIs
      <4>2. g[s \ {m + 1}] = f[s \ {m + 1}]
        BY <2>3
      <4>3. g[s] = step[f[s \ {m + 1}]][seq[m + 1]]
        BY <3>1
      <4> QED
        BY <3>1, <4>1, <4>2, <4>3
    <3>2. CASE m + 1 \notin s
      <4>1. s \in SUBSET (1 .. m) /\ s \ {Max(s)} \in SUBSET (1 .. m + 1) /\ m + 1 \notin s \ {Max(s)}
        BY <3>2, <2>4
      <4>2. g[s] = f[s] /\ g[s \ {Max(s)}] = f[s \ {Max(s)}]
        BY <3>2, <4>1
      <4> QED
        BY <4>1, <4>2, <2>1
    <3> QED
      BY <3>1, <3>2
  <2>7. Obeys(g, m + 1)
    BY <2>5, <2>6
  <2>8. m + 1 \in 0 .. Len(seq)
    OBVIOUS
  <2> HIDE DEF g, Obeys
  <2> QED
    BY <2>7, <2>8
<1> HIDE DEF T, Obeys
<1>3. Len(seq) \in T
  <2>1. Len(seq) \in Nat
    OBVIOUS
  <2>2. 0 .. Len(seq) \subseteq T
    BY <1>1, <1>2, <2>1, UpTo
  <2> QED
    BY <2>1, <2>2
<1>4. PICK f : Obeys(f, Len(seq))
  BY <1>3 DEF T
<1> QED
  BY <1>4 DEF Obeys

(* Its values on the prefixes of the domain are the steps of the fold.     *)
LEMMA PrefixOfDomain ==
  ASSUME NEW k \in Nat, NEW n \in 1 .. k
  PROVE  Max(1 .. n) = n /\ (1 .. n) \ {n} = 1 .. n - 1 /\ 1 .. n \in SUBSET (1 .. k)
<1>1. Max(1 .. n) = n
  <2>1. n \in 1 .. n /\ 1 .. n \in SUBSET (1 .. n) /\ n \in Nat /\ \A i \in 1 .. n : i <= n
    OBVIOUS
  <2> QED
    BY <2>1, MaxIs
<1> QED
  BY <1>1

(* The values of a fold over a sequence, element by element.               *)
Runs(V, base, seq, step) ==
  {c \in [0 .. Len(seq) -> V] : c[0] = base /\ \A n \in 1 .. Len(seq) : c[n] = step[c[n - 1]][seq[n]]}

(* Two folds have the same values as long as their sequences agree.        *)
LEMMA RunsAgree ==
  ASSUME NEW X, NEW V, NEW base, NEW s, NEW t, NEW step,
         CanFold(X, V, base, s, step), CanFold(X, V, base, t, step),
         Len(s) <= Len(t), \A n \in 1 .. Len(s) : s[n] = t[n],
         NEW c \in Runs(V, base, s, step), NEW d \in Runs(V, base, t, step)
  PROVE  \A n \in 0 .. Len(s) : c[n] = d[n]
<1> USE DEF CanFold
<1> DEFINE T == {n \in 0 .. Len(s) : c[n] = d[n]}
<1>1. Len(s) \in Nat /\ Len(t) \in Nat
  OBVIOUS
<1>2. 0 \in T
  BY <1>1 DEF Runs
<1>0. /\ \A m \in 1 .. Len(s) : c[m] = step[c[m - 1]][s[m]]
      /\ \A m \in 1 .. Len(t) : d[m] = step[d[m - 1]][t[m]]
  BY DEF Runs
<1>3. ASSUME NEW n \in 0 .. Len(s) - 1, n \in T PROVE n + 1 \in T
  <2>1. n + 1 \in 1 .. Len(s) /\ n + 1 \in 1 .. Len(t) /\ n + 1 - 1 = n /\ n + 1 \in 0 .. Len(s)
    BY <1>1
  <2>2. c[n + 1] = step[c[n]][s[n + 1]] /\ d[n + 1] = step[d[n]][t[n + 1]]
    <3> DEFINE m == n + 1
    <3>1. m \in 1 .. Len(s) /\ m \in 1 .. Len(t) /\ m - 1 = n
      BY <2>1
    <3> HIDE DEF m
    <3>2. c[m] = step[c[n]][s[m]] /\ d[m] = step[d[n]][t[m]]
      BY <1>0, <3>1
    <3> QED
      BY <3>2 DEF m
  <2> QED
    BY <1>3, <2>1, <2>2
<1> HIDE DEF T
<1>4. 0 .. Len(s) \subseteq T
  BY <1>1, <1>2, <1>3, UpTo
<1> QED
  BY <1>4 DEF T

(* The recursion of FoldLeft, as far as its values are of a set.           *)
Follows(V, base, seq, step, fold) ==
  /\ fold[{}] = base
  /\ \A s \in SUBSET (1 .. Len(seq)) :
       s # {} /\ fold[s \ {Max(s)}] \in V => fold[s] = step[fold[s \ {Max(s)}]][seq[Max(s)]]

(* On the prefixes of the domain it has the values of a run.               *)
LEMMA FoldRuns ==
  ASSUME NEW X, NEW V, NEW base, NEW seq, NEW step, CanFold(X, V, base, seq, step),
         NEW fold, Follows(V, base, seq, step, fold)
  PROVE  \E c : c \in Runs(V, base, seq, step) /\ c[Len(seq)] = fold[1 .. Len(seq)]
<1>0. seq \in Seq(X) /\ base \in V /\ step \in [V -> [X -> V]]
  BY DEF CanFold
<1> USE <1>0
<1> DEFINE c == [n \in 0 .. Len(seq) |-> fold[1 .. n]]
           T == {n \in 0 .. Len(seq) : fold[1 .. n] \in V}
<1>1. Len(seq) \in Nat /\ 1 .. 0 = {}
  OBVIOUS
<1>2. 0 \in T
  BY <1>1 DEF Follows
<1>3. ASSUME NEW n \in 1 .. Len(seq), fold[1 .. n - 1] \in V
      PROVE  fold[1 .. n] = step[fold[1 .. n - 1]][seq[n]] /\ fold[1 .. n] \in V
  <2>1. Max(1 .. n) = n /\ (1 .. n) \ {n} = 1 .. n - 1 /\ 1 .. n \in SUBSET (1 .. Len(seq))
    BY <1>1, PrefixOfDomain
  <2>2. 1 .. n # {} /\ seq[n] \in X
    <3>1. n \in 1 .. n
      BY <1>1
    <3>2. seq[n] \in X
      BY <1>1
    <3> QED
      BY <3>1, <3>2
  <2>3. fold[1 .. n] = step[fold[1 .. n - 1]][seq[n]]
    <3> DEFINE D == 1 .. n
    <3>1. D \in SUBSET (1 .. Len(seq)) /\ D # {} /\ Max(D) = n /\ D \ {Max(D)} = 1 .. n - 1
      BY <2>1, <2>2
    <3> HIDE DEF D
    <3>2. fold[D] = step[fold[D \ {Max(D)}]][seq[Max(D)]]
      BY <1>3, <3>1 DEF Follows
    <3> QED
      BY <3>1, <3>2 DEF D
  <2> QED
    BY <1>3, <2>2, <2>3
<1>4. ASSUME NEW n \in 0 .. Len(seq) - 1, n \in T PROVE n + 1 \in T
  <2>1. n + 1 \in 1 .. Len(seq) /\ n + 1 - 1 = n /\ n + 1 \in 0 .. Len(seq)
    BY <1>1
  <2> QED
    BY <1>3, <1>4, <2>1
<1>5. 0 .. Len(seq) \subseteq T
  <2> HIDE DEF T
  <2> QED
    BY <1>1, <1>2, <1>4, UpTo
<1>6. c \in [0 .. Len(seq) -> V]
  BY <1>5
<1>7. c[0] = base /\ c[Len(seq)] = fold[1 .. Len(seq)]
  BY <1>1 DEF Follows
<1>8. ASSUME NEW n \in 1 .. Len(seq) PROVE c[n] = step[c[n - 1]][seq[n]]
  <2>1. n \in 0 .. Len(seq) /\ n - 1 \in 0 .. Len(seq)
    BY <1>1
  <2> QED
    BY <1>3, <1>5, <2>1
<1> HIDE DEF c
<1> QED
  BY <1>6, <1>7, <1>8 DEF Runs
=============================================================================
