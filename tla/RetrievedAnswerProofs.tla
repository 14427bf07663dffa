----------------------- MODULE RetrievedAnswerProofs -----------------------
(***************************************************************************)
(* What holds of every question: for every set of chunks, every length of   *)
(* a content, every limit and every text that a chat model may write; what  *)
(* a search returns, for every corpus, every query and any order in which  *)
(* the full text index answers; and that the service with its own search   *)
(* implements the service that may find anything.                          *)
(***************************************************************************)
EXTENDS RetrievedAnswer, SequenceInduction

-----------------------------------------------------------------------------
(* The loop and the service around it, whatever a search finds.            *)

(* The loop's invariant.  Nothing is counted before the first source, which *)
(* is what allows the first source, and no other, twice the limit.         *)
SelectionInvariant ==
  /\ SelectionTypeOK
  /\ CountFits
  /\ SourcesAreDistinct
  /\ SourcesKeepTheOrder
  /\ selected = <<>> => used = 0
  /\ used = Total

(* Where the service is tells what is known of the context and of the text.*)
Progress ==
  /\ pc # "end" => outcome = "none"
  /\ pc \in {"search", "found"} => next = 1 /\ selected = <<>>
  /\ pc \in {"search", "found", "select"} => selection = "running"
  /\ pc \in {"search", "found", "select", "check"} => attempt = 0
  /\ pc = "check" => selection = "done"
  /\ pc \in {"generate", "validate", "finish"} => selected # <<>> /\ selection = "done"
  /\ pc = "generate" => attempt < 2
  /\ pc = "finish" => Acceptable(answer) /\ (answer.verdict = "insufficient" \/ Marks(answer) # {})

AnswerInvariant ==
  /\ SelectionInvariant
  /\ TypeOK
  /\ Progress
  /\ MarksAreSources
  /\ RefusalsAreNotGrounded
  /\ OneRepair

-----------------------------------------------------------------------------
(* The number of characters.                                               *)

(* The recursion of Total. *)
RunningTotal(sizes, list) ==
  CHOOSE f : f = [n \in 0..Len(list) |-> IF n = 0 THEN 0 ELSE f[n - 1] + sizes[list[n]]]

(* Sizes can be added up along a list: the recursion has a value.          *)
LEMMA RunningTotalAdds ==
  ASSUME NEW Names, NEW sizes \in [Names -> Nat], NEW list \in Seq(Names)
  PROVE  /\ RunningTotal(sizes, list) \in [0..Len(list) -> Nat]
         /\ RunningTotal(sizes, list)[0] = 0
         /\ \A n \in 1..Len(list) :
              RunningTotal(sizes, list)[n] = RunningTotal(sizes, list)[n - 1] + sizes[list[n]]
<1> DEFINE upTo == RunningTotal(sizes, list)
<1> DEFINE step == [n \in 1..Len(list) |-> [sum \in Nat |-> sum + sizes[list[n]]]]
<1>1. Len(list) \in Nat /\ \A n \in 1..Len(list) : sizes[list[n]] \in Nat
  OBVIOUS
<1>2. step \in Steps(Nat, Len(list))
  BY <1>1 DEF Steps
<1>3. \A n \in 1..Len(list), sum \in Nat : step[n][sum] = sum + sizes[list[n]]
  BY <1>1
<1> HIDE DEF step
<1>4. PICK c : c \in Chains(Nat, 0, Len(list), step)
  <2>1. 0 \in Nat
    OBVIOUS
  <2> QED
    BY <1>1, <1>2, <2>1, ChainExists, Zenon
<1>5. /\ c \in [0..Len(list) -> Nat] /\ c[0] = 0
      /\ \A n \in 1..Len(list) : n - 1 \in 0..Len(list) /\ c[n] = c[n - 1] + sizes[list[n]]
  <2>1. /\ c \in [0..Len(list) -> Nat] /\ c[0] = 0
        /\ \A n \in 1..Len(list) : c[n] = step[n][c[n - 1]]
    BY <1>4, Zenon DEF Chains
  <2>2. \A n \in 1..Len(list) : n - 1 \in 0..Len(list)
    BY <1>1
  <2> QED
    BY <1>3, <2>1, <2>2
<1>6. c = [n \in 0..Len(list) |-> IF n = 0 THEN 0 ELSE c[n - 1] + sizes[list[n]]]
  BY <1>1, <1>5
<1>7. upTo = [n \in 0..Len(list) |-> IF n = 0 THEN 0 ELSE upTo[n - 1] + sizes[list[n]]]
  BY <1>6, Zenon DEF RunningTotal
<1> HIDE DEF upTo
<1>8. \A n \in 1..Len(list) : upTo[n] = upTo[n - 1] + sizes[list[n]]
  BY <1>1, <1>7
<1>9. upTo[0] = 0
  BY <1>1, <1>7
<1> DEFINE T == {n \in 0..Len(list) : upTo[n] \in Nat}
<1>10. 0 \in T
  BY <1>1, <1>9
<1>11. ASSUME NEW n \in 0..Len(list) - 1, n \in T PROVE n + 1 \in T
  <2>1. n + 1 \in 1..Len(list) /\ n + 1 - 1 = n /\ n + 1 \in 0..Len(list)
    BY <1>1
  <2>2. upTo[n + 1] = upTo[n] + sizes[list[n + 1]]
    BY <1>8, <2>1
  <2> QED
    BY <1>1, <1>11, <2>1, <2>2
<1>12. 0..Len(list) \subseteq T
  <2> HIDE DEF T
  <2> QED
    BY <1>1, <1>10, <1>11, UpTo
<1>13. upTo \in [0..Len(list) -> Nat]
  BY <1>7, <1>12
<1> QED
  BY <1>8, <1>9, <1>13 DEF upTo

(* The characters of no source are none. *)
LEMMA TotalOfNone ==
  ASSUME size \in [Chunks -> Nat], selected = <<>>
  PROVE  Total = 0
<1>1. selected \in Seq(Chunks) /\ Len(selected) = 0
  OBVIOUS
<1>2. RunningTotal(size, selected)[0] = 0
  BY <1>1, RunningTotalAdds
<1>3. Total = RunningTotal(size, selected)[Len(selected)]
  BY Zenon DEF Total, RunningTotal
<1> QED
  BY <1>1, <1>2, <1>3

(* Another source adds its characters. *)
LEMMA TotalOfAnother ==
  ASSUME NEW chunk \in Chunks, size \in [Chunks -> Nat], selected \in Seq(Chunks),
         size' = size, selected' = Append(selected, chunk)
  PROVE  Total' = Total + size[chunk]
<1> DEFINE upTo == RunningTotal(size, selected)
           then == RunningTotal(size', selected')
<1>1. Total = upTo[Len(selected)] /\ Total' = then[Len(selected')]
  BY Zenon DEF Total, RunningTotal
<1>2. /\ selected' \in Seq(Chunks) /\ size' \in [Chunks -> Nat]
      /\ Len(selected) \in Nat /\ Len(selected') = Len(selected) + 1
      /\ \A n \in 1..Len(selected) : selected'[n] = selected[n]
      /\ selected'[Len(selected) + 1] = chunk
  OBVIOUS
<1>3. /\ upTo \in [0..Len(selected) -> Nat] /\ upTo[0] = 0
      /\ \A n \in 1..Len(selected) : upTo[n] = upTo[n - 1] + size[selected[n]]
  BY RunningTotalAdds
<1>4. /\ then \in [0..Len(selected') -> Nat] /\ then[0] = 0
      /\ \A n \in 1..Len(selected') : then[n] = then[n - 1] + size'[selected'[n]]
  <2>1. ASSUME NEW sizes \in [Chunks -> Nat], NEW list \in Seq(Chunks)
        PROVE  /\ RunningTotal(sizes, list) \in [0..Len(list) -> Nat]
               /\ RunningTotal(sizes, list)[0] = 0
               /\ \A n \in 1..Len(list) :
                    RunningTotal(sizes, list)[n] = RunningTotal(sizes, list)[n - 1] + sizes[list[n]]
    BY RunningTotalAdds, SMTT(30)
  <2> QED
    BY <1>2, <2>1, Zenon
<1> HIDE DEF upTo, then
<1> DEFINE T == {n \in 0..Len(selected) : then[n] = upTo[n]}
<1>5. 0 \in T
  BY <1>2, <1>3, <1>4
<1>6. ASSUME NEW n \in 0..Len(selected) - 1, n \in T PROVE n + 1 \in T
  <2>1. /\ n + 1 \in 1..Len(selected) /\ n + 1 \in 1..Len(selected') /\ n + 1 - 1 = n
        /\ n + 1 \in 0..Len(selected)
    BY <1>2
  <2>2. upTo[n + 1] = upTo[n] + size[selected[n + 1]]
    BY <1>3, <2>1
  <2>3. then[n + 1] = then[n] + size'[selected'[n + 1]]
    BY <1>4, <2>1
  <2> QED
    BY <1>2, <1>6, <2>1, <2>2, <2>3
<1>7. 0..Len(selected) \subseteq T
  <2> HIDE DEF T
  <2> QED
    BY <1>2, <1>5, <1>6, UpTo
<1>8. then[Len(selected)] = upTo[Len(selected)]
  BY <1>2, <1>7
<1>9. then[Len(selected) + 1] = then[Len(selected)] + size'[chunk]
  <2>1. Len(selected) + 1 \in 1..Len(selected') /\ Len(selected) + 1 - 1 = Len(selected)
    BY <1>2
  <2> QED
    BY <1>2, <1>4, <2>1
<1> QED
  BY <1>1, <1>2, <1>8, <1>9

-----------------------------------------------------------------------------
(* The loop.                                                               *)

(* Another source keeps every part of the loop's invariant.                *)
LEMMA TakeKeepsTheInvariant ==
  ASSUME SelectionInvariant, Take, UNCHANGED <<size, results>>
  PROVE  SelectionInvariant'
<1> USE DEF SelectionInvariant
<1>1. /\ size \in [Chunks -> Nat] /\ results \in Seq(Chunks) /\ selected \in Seq(Chunks)
      /\ next \in 1..Len(results) /\ used \in Nat /\ Result \in Chunks
      /\ selected' = Append(selected, Result) /\ next' = next + 1
      /\ used' = used + size[Result] /\ selection' = selection
      /\ size' = size /\ results' = results
      /\ Len(selected) < ChunkLimit
  BY DEF Take, Placed, InLoop, Result, SelectionTypeOK
<1>2. size[Result] \in Nat /\ size[Result] > 0 /\ Result \notin Seen
  BY <1>1 DEF Take, Usable
<1>3. /\ selected' \in Seq(Chunks) /\ Len(selected') = Len(selected) + 1
      /\ selected'[Len(selected) + 1] = Result
      /\ \A i \in 1..Len(selected) : selected'[i] = selected[i]
      /\ Len(selected) \in Nat /\ DOMAIN selected = 1..Len(selected)
      /\ DOMAIN selected' = 1..Len(selected) + 1
  BY <1>1
<1>4. SelectionTypeOK'
  BY <1>1, <1>2, <1>3 DEF SelectionTypeOK
<1>5. CountFits'
  <2>1. ContextLimit \in Nat
    BY LimitsAssumption
  <2>2. CASE Fits
    BY <2>1, <2>2, <1>1, <1>2 DEF Fits, CountFits, Within
  <2>3. CASE TopFits
    BY <2>1, <2>3, <1>1, <1>2, <1>3 DEF TopFits, CountFits, Within
  <2> QED
    BY <2>2, <2>3 DEF Take
<1>6. SourcesAreDistinct'
  <2>1. ChunkLimit \in Nat
    BY LimitsAssumption
  <2>2. \A i \in 1..Len(selected) : selected[i] # Result
    BY <1>2, <1>3 DEF Seen
  <2>3. ASSUME NEW i \in DOMAIN selected', NEW j \in DOMAIN selected',
               selected'[i] = selected'[j]
        PROVE  i = j
    BY <2>2, <2>3, <1>3 DEF SourcesAreDistinct
  <2>4. ASSUME NEW i \in DOMAIN selected'
        PROVE  size'[selected'[i]] > 0
    BY <2>4, <1>1, <1>2, <1>3 DEF SourcesAreDistinct
  <2> QED
    BY <2>1, <2>3, <2>4, <1>1, <1>3 DEF SourcesAreDistinct
<1>7. SourcesKeepTheOrder'
  <2>1. results[next] = Result
    BY DEF Result
  <2>2. \A i \in 1..Len(selected) : \E k \in 1..next - 1 : results[k] = selected[i]
    BY <1>3 DEF SourcesKeepTheOrder
  <2>3. ASSUME NEW i \in DOMAIN selected'
        PROVE  \E k \in 1..next' - 1 : results'[k] = selected'[i]
    <3>1. next \in 1..next' - 1 /\ 1..next - 1 \subseteq 1..next' - 1
      BY <1>1
    <3>2. CASE i \in 1..Len(selected)
      BY <2>2, <3>1, <3>2, <1>1, <1>3
    <3>3. CASE i = Len(selected) + 1
      BY <2>1, <3>1, <3>3, <1>1, <1>3
    <3> QED
      BY <3>2, <3>3, <1>3
  <2>4. ASSUME NEW i \in DOMAIN selected', NEW j \in DOMAIN selected', i < j
        PROVE  InOrder(i, j)'
    <3>1. CASE j \in 1..Len(selected)
      <4>1. i \in 1..Len(selected)
        BY <2>4, <3>1, <1>3
      <4>2. PICK k, l \in 1..next - 1 :
              k < l /\ results[k] = selected[i] /\ results[l] = selected[j]
        BY <2>4, <3>1, <4>1, <1>3 DEF SourcesKeepTheOrder, InOrder
      <4>3. k \in 1..next' - 1 /\ l \in 1..next' - 1
        BY <1>1
      <4> QED
        BY <3>1, <4>1, <4>2, <4>3, <1>1, <1>3 DEF InOrder
    <3>2. CASE j = Len(selected) + 1
      <4>1. i \in 1..Len(selected)
        BY <2>4, <3>2, <1>3
      <4>2. PICK k \in 1..next - 1 : results[k] = selected[i]
        BY <2>2, <4>1
      <4>3. k \in 1..next' - 1 /\ next \in 1..next' - 1 /\ k < next
        BY <1>1
      <4> QED
        BY <2>1, <3>2, <4>1, <4>2, <4>3, <1>1, <1>3 DEF InOrder
    <3> QED
      BY <3>1, <3>2, <1>3
  <2> QED
    BY <2>3, <2>4 DEF SourcesKeepTheOrder
<1>8. (selected = <<>> => used = 0)'
  BY <1>3
<1>9. used' = Total'
  <2>1. Total' = Total + size[Result]
    BY <1>1, TotalOfAnother DEF SelectionTypeOK
  <2> QED
    BY <1>1, <2>1
<1> QED
  BY <1>4, <1>5, <1>6, <1>7, <1>8, <1>9

(* Passing over a result keeps it as well, and so does leaving the loop.   *)
LEMMA SkipKeepsTheInvariant ==
  ASSUME SelectionInvariant, UNCHANGED <<size, results, selected, used>>,
         \/ next' = next + 1 /\ next \in DOMAIN results
         \/ next' = next,
         selection' \in Selections
  PROVE  SelectionInvariant'
<1> USE DEF SelectionInvariant
<1>1. /\ results \in Seq(Chunks) /\ next \in 1..Len(results) + 1 /\ Len(results) \in Nat
      /\ DOMAIN results = 1..Len(results)
  BY DEF SelectionTypeOK
<1>2. next' \in 1..Len(results) + 1
  BY <1>1
<1>3. SelectionTypeOK'
  BY <1>2 DEF SelectionTypeOK
<1>4. CountFits' /\ SourcesAreDistinct' /\ (selected = <<>> => used = 0)' /\ (used = Total)'
  BY DEF CountFits, Within, SourcesAreDistinct, Total
<1>5. 1..next - 1 \subseteq 1..next' - 1
  <2>1. next \in Nat \ {0} /\ (next' = next \/ next' = next + 1)
    BY <1>1
  <2>2. CASE next' = next
    BY <2>2
  <2>3. CASE next' = next + 1
    BY <2>1, <2>3
  <2> QED
    BY <2>1, <2>2, <2>3
<1>6. SourcesKeepTheOrder'
  <2>1. ASSUME NEW i \in DOMAIN selected
        PROVE  \E k \in 1..next' - 1 : results[k] = selected[i]
    BY <1>5 DEF SourcesKeepTheOrder
  <2>2. ASSUME NEW i \in DOMAIN selected, NEW j \in DOMAIN selected, i < j
        PROVE  InOrder(i, j)'
    <3>1. PICK k, l \in 1..next - 1 :
            k < l /\ results[k] = selected[i] /\ results[l] = selected[j]
      BY <2>2 DEF SourcesKeepTheOrder, InOrder
    <3> QED
      BY <3>1, <1>5 DEF InOrder
  <2> QED
    BY <2>1, <2>2 DEF SourcesKeepTheOrder
<1> QED
  BY <1>3, <1>4, <1>6

(* Every step of the loop keeps the invariant.                             *)
LEMMA SelectionStepKeepsTheInvariant ==
  ASSUME SelectionInvariant, SelectionStep
  PROVE  SelectionInvariant'
<1>1. UNCHANGED <<size, results>> /\ selection \in Selections
  BY DEF SelectionStep, SelectionInvariant, SelectionTypeOK
<1>2. CASE Skip
  BY <1>1, <1>2, SkipKeepsTheInvariant DEF Skip, InLoop
<1>3. CASE Take
  BY <1>1, <1>3, TakeKeepsTheInvariant
<1>4. CASE Full
  BY <1>1, <1>4, SkipKeepsTheInvariant DEF Full, Selections
<1>5. CASE TooLarge
  BY <1>1, <1>5, SkipKeepsTheInvariant DEF TooLarge, Selections
<1>6. CASE Exhausted
  BY <1>1, <1>6, SkipKeepsTheInvariant DEF Exhausted, Selections
<1> QED
  BY <1>2, <1>3, <1>4, <1>5, <1>6 DEF SelectionStep

-----------------------------------------------------------------------------
(* The service around the loop.                                            *)

(* Before the loop has begun it may be given any other list of results.    *)
LEMMA NewResultsKeepTheInvariant ==
  ASSUME SelectionInvariant, UNCHANGED <<size, next, selected, used, selection>>,
         next = 1, selected = <<>>, results' \in Seq(Chunks)
  PROVE  SelectionInvariant'
<1>1. next \in 1..Len(results') + 1
  <2>1. Len(results') \in Nat
    OBVIOUS
  <2> QED
    BY <2>1
<1>2. SelectionTypeOK'
  BY <1>1 DEF SelectionInvariant, SelectionTypeOK
<1>3. DOMAIN selected' = {} /\ Len(selected') = Len(selected)
  OBVIOUS
<1>4. (used = Total)'
  BY DEF SelectionInvariant, Total
<1> QED
  BY <1>2, <1>3, <1>4
  DEF SelectionInvariant, CountFits, Within, SourcesAreDistinct, SourcesKeepTheOrder

(* Every question starts in a state that the invariant allows.             *)
LEMMA InitKeepsTheInvariant == Init => AnswerInvariant
<1> SUFFICES ASSUME Init PROVE AnswerInvariant
  OBVIOUS
<1>1. PICK sizes \in [Chunks -> Sizes] : SelectionInit(sizes, <<>>)
  BY DEF Init
<1>4. sizes \in [Chunks -> Nat]
  BY BoundsAssumption
<1>5. /\ size = sizes /\ results = <<>> /\ next = 1 /\ selected = <<>> /\ used = 0
      /\ selection = "running"
  BY <1>1 DEF SelectionInit
<1>3. results \in Seq(Chunks) /\ Len(results) = 0
  BY <1>5
<1>6. selected \in Seq(Chunks) /\ Len(selected) = 0 /\ DOMAIN selected = {}
  BY <1>5
<1>7. SelectionTypeOK
  BY <1>3, <1>4, <1>5, <1>6 DEF SelectionTypeOK, Selections
<1>8. SelectionInvariant
  <2>1. ContextLimit \in Nat /\ ChunkLimit \in Nat
    BY LimitsAssumption
  <2>2. Total = 0
    BY <1>4, <1>5, TotalOfNone
  <2> QED
    BY <2>1, <2>2, <1>5, <1>6, <1>7
    DEF SelectionInvariant, CountFits, Within, SourcesAreDistinct, SourcesKeepTheOrder
<1>9. NoText \in Text
  BY DEF NoText, Text
<1>10. TypeOK
  <2>1. pc = "search" /\ attempt = 0 /\ looped = FALSE /\ answer = NoText /\ outcome = "none"
    BY DEF Init
  <2>2. looped \in BOOLEAN
    BY <2>1
  <2>3. pc \in Pc /\ attempt \in 0..2 /\ outcome \in Outcomes
    BY <2>1 DEF Pc, Outcomes
  <2> QED
    BY <1>7, <1>9, <2>1, <2>2, <2>3 DEF TypeOK
<1> QED
  BY <1>5, <1>8, <1>10
  DEF Init, AnswerInvariant, Progress, MarksAreSources, RefusalsAreNotGrounded, OneRepair, Errors

(* So does a step that leaves the loop and its context alone.              *)
LEMMA ContextUntouched ==
  ASSUME SelectionInvariant, UNCHANGED selectionVars
  PROVE  SelectionInvariant'
<1>1. UNCHANGED <<size, results, next, selected, used, selection>>
  BY DEF selectionVars
<1> QED
  BY <1>1 DEF SelectionInvariant, SelectionTypeOK, CountFits, Within, SourcesAreDistinct,
              SourcesKeepTheOrder, InOrder, Total

(* A question that ends without a grounded answer keeps what is promised of *)
(* grounded ones.                                                          *)
LEMMA EndKeepsTheInvariant ==
  ASSUME AnswerInvariant, UNCHANGED <<selectionVars, answer>>,
         attempt' = attempt, looped' \in BOOLEAN,
         NEW result \in Outcomes, Ends(result),
         result \in {"CitationValidationError", "RepeatingGenerationError"} => attempt = 2,
         result = "grounded" => /\ answer.verdict = "supported"
                                /\ pc = "finish"
  PROVE  AnswerInvariant'
<1> USE DEF AnswerInvariant
<1>1. SelectionInvariant'
  BY ContextUntouched
<1>2. UNCHANGED <<size, results, next, selected, used, selection>>
  BY DEF selectionVars
<1>3. pc' = "end" /\ outcome' = result
  BY DEF Ends
<1>4. TypeOK'
  BY <1>1, <1>3 DEF TypeOK, SelectionInvariant, Pc
<1>5. Progress'
  BY <1>3 DEF Progress
<1>6. MarksAreSources'
  <2>1. SUFFICES ASSUME result = "grounded"
                 PROVE  /\ Marks(answer) # {}
                        /\ Marks(answer) \subseteq Allowed
                        /\ \A n \in Marks(answer) :
                             \E k \in DOMAIN results : results[k] = selected[n]
    BY <1>2, <1>3 DEF MarksAreSources, Citations, Marks, Allowed
  <2>2. /\ Acceptable(answer)
        /\ answer.verdict = "insufficient" \/ Marks(answer) # {}
        /\ answer \in Text
    BY <2>1 DEF Progress, TypeOK
  <2>3. Marks(answer) \subseteq answer.marks
    BY <2>2 DEF Text, Marks
  <2>4. Marks(answer) \subseteq Allowed
    BY <2>2, <2>3 DEF Acceptable, Valid
  <2>5. \A n \in DOMAIN selected : \E k \in DOMAIN results : results[k] = selected[n]
    <3>1. /\ next \in 1..Len(results) + 1 /\ Len(results) \in Nat
          /\ DOMAIN results = 1..Len(results)
      BY DEF SelectionInvariant, SelectionTypeOK
    <3>2. \A k \in 1..next - 1 : k \in DOMAIN results
      BY <3>1
    <3> QED
      BY <3>2 DEF SelectionInvariant, SourcesKeepTheOrder
  <2> QED
    BY <2>1, <2>2, <2>4, <2>5 DEF Allowed
<1>7. RefusalsAreNotGrounded'
  BY <1>3 DEF RefusalsAreNotGrounded
<1>8. OneRepair'
  BY <1>2, <1>3 DEF OneRepair
<1> QED
  BY <1>1, <1>4, <1>5, <1>6, <1>7, <1>8

(* A step that asks, looks or accepts keeps what it does not decide.       *)
LEMMA StepKeepsTheInvariant ==
  ASSUME AnswerInvariant, TypeOK', SelectionInvariant', Progress',
         pc # "end", outcome' = "none",
         attempt' > 0 => selected' # <<>> /\ selection' = "done"
  PROVE  AnswerInvariant'
<1>1. MarksAreSources' /\ RefusalsAreNotGrounded'
  BY DEF MarksAreSources, RefusalsAreNotGrounded
<1>2. attempt' \in 0..2
  BY DEF TypeOK
<1>3. OneRepair'
  BY <1>2 DEF OneRepair
<1> QED
  BY <1>1, <1>3 DEF AnswerInvariant

LEMMA NextKeepsTheInvariant == AnswerInvariant /\ [Next]_vars => AnswerInvariant'
<1> SUFFICES ASSUME AnswerInvariant, [Next]_vars
             PROVE  AnswerInvariant'
  OBVIOUS
<1>1. /\ SelectionInvariant /\ TypeOK /\ Progress /\ SelectionTypeOK
      /\ looped \in BOOLEAN /\ attempt \in 0..2 /\ answer \in Text /\ pc \in Pc
  BY DEF AnswerInvariant, TypeOK
<1> USE <1>1
<1>2. {"RagRetrievalError", "ContextAssemblyError", "ChatError", "InvalidChatResponseError",
       "RepeatingGenerationError", "CitationValidationError", "insufficient", "grounded"}
        \subseteq Outcomes
  BY DEF Outcomes, Errors
<1>3. CASE SearchFails
  BY <1>2, <1>3, EndKeepsTheInvariant DEF SearchFails
<1>4. CASE LowConfidence
  BY <1>2, <1>4, EndKeepsTheInvariant DEF LowConfidence
<1>5. CASE FilterSections
  <2>1. /\ pc = "found" /\ pc' = "select" /\ outcome = "none" /\ outcome' = outcome
        /\ attempt = 0 /\ next = 1 /\ selected = <<>> /\ selection = "running"
        /\ UNCHANGED <<size, next, selected, used, selection, attempt, looped, answer>>
    BY <1>5 DEF FilterSections, Progress
  <2>2. PICK n \in 0..Len(results) : \E kept \in [1..n -> DOMAIN results] :
               results' = [i \in 1..n |-> results[kept[i]]]
    BY <1>5 DEF FilterSections
  <2>3. PICK kept \in [1..n -> DOMAIN results] : results' = [i \in 1..n |-> results[kept[i]]]
    BY <2>2
  <2>4. results' \in Seq(Chunks) /\ Len(results') \in Nat
    <3>1. \A k \in DOMAIN results : results[k] \in Chunks
      BY DEF SelectionTypeOK
    <3>2. n \in Nat
      BY DEF SelectionTypeOK
    <3>3. \A i \in 1..n : results[kept[i]] \in Chunks
      BY <2>3, <3>1
    <3> QED
      BY <2>3, <3>2, <3>3
  <2>5. SelectionInvariant'
    BY <2>1, <2>4, NewResultsKeepTheInvariant
  <2>6. TypeOK' /\ Progress'
    BY <2>1, <2>5 DEF TypeOK, Progress, Pc, SelectionInvariant
  <2> QED
    BY <2>1, <2>5, <2>6, StepKeepsTheInvariant
<1>15. CASE Search
  <2>1. /\ pc = "search" /\ pc' = "found" /\ outcome = "none" /\ outcome' = outcome
        /\ attempt = 0 /\ next = 1 /\ selected = <<>> /\ selection = "running"
        /\ UNCHANGED <<size, next, selected, used, selection, attempt, looped, answer>>
    BY <1>15 DEF Search, Progress
  <2>2. PICK n \in 0..MaxFound : \E list \in [1..n -> Chunks] : results' = list
    BY <1>15 DEF Search
  <2>3. n \in Nat
    BY BoundsAssumption
  <2>4. results' \in Seq(Chunks)
    BY <2>2, <2>3
  <2>5. SelectionInvariant'
    BY <2>1, <2>4, NewResultsKeepTheInvariant
  <2>6. TypeOK' /\ Progress'
    BY <2>1, <2>5 DEF TypeOK, Progress, Pc, SelectionInvariant
  <2> QED
    BY <2>1, <2>5, <2>6, StepKeepsTheInvariant
<1>6. CASE SelectContext
  <2>1. /\ pc = "select" /\ SelectionStep /\ outcome = "none" /\ attempt = 0
        /\ UNCHANGED <<attempt, looped, answer>>
    BY <1>6 DEF SelectContext, Progress
  <2>2. SelectionInvariant' /\ selection' \in Selections
    BY <2>1, SelectionStepKeepsTheInvariant DEF SelectionInvariant, SelectionTypeOK
  <2>3. CASE selection' = "running"
    <3>1. UNCHANGED <<pc, outcome>>
      BY <1>6, <2>3 DEF SelectContext
    <3>2. TypeOK' /\ Progress'
      BY <2>1, <2>2, <2>3, <3>1 DEF TypeOK, Progress, SelectionInvariant
    <3> QED
      BY <2>1, <2>2, <3>1, <3>2, StepKeepsTheInvariant
  <2>4. CASE selection' = "failed"
    <3>1. pc' = "end" /\ outcome' = "ContextAssemblyError"
      BY <1>6, <2>4 DEF SelectContext, Ends
    <3>2. TypeOK' /\ Progress'
      BY <2>1, <2>2, <3>1, <1>2 DEF TypeOK, Progress, SelectionInvariant, Pc
    <3> QED
      BY <2>1, <2>2, <3>1, <3>2
      DEF AnswerInvariant, MarksAreSources, RefusalsAreNotGrounded, OneRepair
  <2>5. CASE selection' = "done"
    <3>1. pc' = "check" /\ outcome' = outcome
      BY <1>6, <2>5 DEF SelectContext
    <3>2. TypeOK' /\ Progress'
      BY <2>1, <2>2, <2>5, <3>1 DEF TypeOK, Progress, SelectionInvariant, Pc
    <3> QED
      BY <2>1, <2>2, <3>1, <3>2, StepKeepsTheInvariant
  <2> QED
    BY <2>2, <2>3, <2>4, <2>5 DEF Selections
<1>7. CASE CheckContext
  <2>1. /\ pc = "check" /\ outcome = "none" /\ attempt = 0 /\ selection = "done"
        /\ UNCHANGED <<selectionVars, attempt, looped, answer>>
    BY <1>7 DEF CheckContext, Progress
  <2>2. CASE Ends("insufficient")
    BY <1>2, <2>1, <2>2, EndKeepsTheInvariant
  <2>3. CASE selected # <<>> /\ pc' = "generate" /\ UNCHANGED outcome
    <3>1. SelectionInvariant' /\ UNCHANGED <<selected, selection>>
      BY <2>1, ContextUntouched DEF selectionVars
    <3>2. TypeOK' /\ Progress'
      BY <2>1, <2>3, <3>1 DEF TypeOK, Progress, SelectionInvariant, Pc
    <3> QED
      BY <2>1, <2>3, <3>1, <3>2, StepKeepsTheInvariant
  <2> QED
    BY <1>7, <2>2, <2>3 DEF CheckContext
<1>8. CASE ChatFails
  BY <1>2, <1>8, EndKeepsTheInvariant DEF ChatFails
<1>9. CASE Generate
  <2>1. /\ pc = "generate" /\ pc' = "validate" /\ outcome = "none" /\ outcome' = outcome
        /\ attempt < 2 /\ attempt' = attempt + 1 /\ answer' \in Text
        /\ selected # <<>> /\ selection = "done"
        /\ UNCHANGED <<selectionVars, looped>>
    BY <1>9 DEF Generate, Progress
  <2>2. SelectionInvariant' /\ UNCHANGED <<selected, selection>>
    BY <2>1, ContextUntouched DEF selectionVars
  <2>3. attempt' \in 0..2
    BY <2>1
  <2>4. TypeOK' /\ Progress'
    BY <2>1, <2>2, <2>3 DEF TypeOK, Progress, SelectionInvariant, Pc
  <2> QED
    BY <2>1, <2>2, <2>4, StepKeepsTheInvariant
<1>10. CASE Rejected
  BY <1>2, <1>10, EndKeepsTheInvariant DEF Rejected
<1>11. CASE Accepted
  <2>1. /\ pc = "validate" /\ pc' = "finish" /\ outcome = "none" /\ outcome' = outcome
        /\ Acceptable(answer) /\ (answer.verdict = "insufficient" \/ Marks(answer) # {})
        /\ selected # <<>> /\ selection = "done"
        /\ UNCHANGED <<selectionVars, attempt, answer>>
    BY <1>11 DEF Accepted, Progress
  <2>2. SelectionInvariant' /\ UNCHANGED <<selected, selection>>
    BY <2>1, ContextUntouched DEF selectionVars
  <2>3. looped' \in BOOLEAN
    BY <1>11 DEF Accepted, Repeats
  <2>4. Progress'
    BY <2>1, <2>2 DEF Progress, Acceptable, Valid, Allowed, Marks
  <2>5. TypeOK'
    BY <2>1, <2>2, <2>3 DEF TypeOK, SelectionInvariant, Pc
  <2> QED
    BY <2>1, <2>2, <2>4, <2>5, StepKeepsTheInvariant
<1>12. CASE Retry
  <2>1. /\ pc = "validate" /\ outcome = "none" /\ selected # <<>> /\ selection = "done"
        /\ UNCHANGED <<selectionVars, attempt>>
    BY <1>12 DEF Retry, Progress
  <2>2. SelectionInvariant' /\ UNCHANGED <<selected, selection>>
    BY <2>1, ContextUntouched DEF selectionVars
  <2>3. looped' \in BOOLEAN
    BY <1>12 DEF Retry, Repeats
  <2>4. CASE CanRetry(answer)
    <3>1. pc' = "generate" /\ answer' = NoText /\ outcome' = outcome /\ attempt < 2
      BY <1>12, <2>4 DEF Retry, CanRetry
    <3>2. NoText \in Text
      BY DEF NoText, Text
    <3>3. TypeOK' /\ Progress'
      BY <2>1, <2>2, <2>3, <3>1, <3>2 DEF TypeOK, Progress, SelectionInvariant, Pc
    <3> QED
      BY <2>1, <2>2, <3>1, <3>3, StepKeepsTheInvariant
  <2>5. CASE ~CanRetry(answer)
    <3>1. attempt = 2
      BY <2>5 DEF CanRetry
    <3>2. answer' = answer
      BY <1>12, <2>5 DEF Retry
    <3>3. \/ Ends("RepeatingGenerationError")
          \/ Ends("CitationValidationError")
      BY <1>12, <2>5 DEF Retry
    <3> QED
      BY <1>2, <2>1, <2>3, <3>1, <3>2, <3>3, EndKeepsTheInvariant
  <2> QED
    BY <2>4, <2>5
<1>13. CASE Finish
  <2>1. pc = "finish" /\ UNCHANGED <<selectionVars, attempt, looped, answer>>
    BY <1>13 DEF Finish
  <2>2. CASE Refuses(answer)
    BY <1>2, <1>13, <2>1, <2>2, EndKeepsTheInvariant DEF Finish
  <2>3. CASE ~Refuses(answer)
    BY <1>2, <1>13, <2>1, <2>3, EndKeepsTheInvariant DEF Finish, Refuses
  <2> QED
    BY <2>2, <2>3
<1>14. CASE UNCHANGED vars
  <2>1. /\ UNCHANGED <<selectionVars, pc, attempt, looped, answer, outcome>>
        /\ UNCHANGED <<size, results, next, selected, used, selection>>
    BY <1>14 DEF vars, selectionVars
  <2>2. SelectionInvariant'
    BY <2>1, ContextUntouched
  <2>3. TypeOK'
    BY <2>1, <2>2 DEF TypeOK, SelectionInvariant
  <2>4. Progress'
    BY <2>1 DEF Progress, Marks, Acceptable, Valid, Allowed
  <2>5. MarksAreSources'
    BY <2>1 DEF AnswerInvariant, MarksAreSources, Citations, Marks, Allowed
  <2>6. RefusalsAreNotGrounded' /\ OneRepair'
    BY <2>1 DEF AnswerInvariant, RefusalsAreNotGrounded, OneRepair
  <2> QED
    BY <2>2, <2>3, <2>4, <2>5, <2>6 DEF AnswerInvariant
<1> QED
  BY <1>3, <1>4, <1>5, <1>6, <1>7, <1>8, <1>9, <1>10, <1>11, <1>12, <1>13, <1>14, <1>15
  DEF Next

(* The invariant holds in every reachable state.                           *)
THEOREM AnswerInvariantHolds == Spec => []AnswerInvariant
<1>1. Init => AnswerInvariant
  BY InitKeepsTheInvariant
<1>2. AnswerInvariant /\ [Next]_vars => AnswerInvariant'
  BY NextKeepsTheInvariant
<1> QED
  BY <1>1, <1>2, PTL DEF Spec

(* Whatever the chat model writes, the ids in a grounded answer are those  *)
(* of chunks that the search found and the prompt contained.               *)
THEOREM AnswersCiteTheirSources == Spec => []MarksAreSources
<1>1. AnswerInvariant => MarksAreSources
  BY DEF AnswerInvariant
<1> QED
  BY <1>1, AnswerInvariantHolds, PTL

(* No id is given twice to one chunk, none to a chunk without content, and *)
(* better chunks have smaller ids.                                         *)
THEOREM SourcesAreOrdered == Spec => [](SourcesAreDistinct /\ SourcesKeepTheOrder)
<1>1. AnswerInvariant => SourcesAreDistinct /\ SourcesKeepTheOrder
  BY DEF AnswerInvariant, SelectionInvariant
<1> QED
  BY <1>1, AnswerInvariantHolds, PTL

(* What the loop counts stays within the limit of characters, or within    *)
(* twice the limit for a single source.                                    *)
THEOREM CountStaysWithin == Spec => []CountFits
<1>1. AnswerInvariant => CountFits
  BY DEF AnswerInvariant, SelectionInvariant
<1> QED
  BY <1>1, AnswerInvariantHolds, PTL

(* And the loop counts right: the contents of the sources together never   *)
(* have more characters than that.  The tags, the metadata and the escaping *)
(* of format_context are beside this count, in the code as here.           *)
THEOREM TheContextFits == Spec => []ContextFits
<1>1. AnswerInvariant => ContextFits
  BY DEF AnswerInvariant, SelectionInvariant, CountFits, ContextFits
<1> QED
  BY <1>1, AnswerInvariantHolds, PTL

(* A refusal is never shown as a grounded answer, and the chat model is    *)
(* asked at most twice and never without a context.                        *)
THEOREM RefusalAndRepair == Spec => [](RefusalsAreNotGrounded /\ OneRepair)
<1>1. AnswerInvariant => RefusalsAreNotGrounded /\ OneRepair
  BY DEF AnswerInvariant
<1> QED
  BY <1>1, AnswerInvariantHolds, PTL

-----------------------------------------------------------------------------
(* The search.                                                             *)

Results == [chunk : candidates, score : -Unit .. Unit, mode : Modes]

(* A neighbour and the ranked chunk that it continues. *)
Continues(neighbour, ranked) ==
  LET this == Corpus[neighbour.chunk]  that == Corpus[ranked.chunk]
  IN  /\ this = [that EXCEPT !.index = @ + 1, !.content = this.content, !.current = this.current]
      /\ ranked.score >= neighbour.score

(* What is true of the list at every step of the two loops.                *)
ListInvariant ==
  /\ found \in Seq(Results)
  /\ \A i, j \in DOMAIN found : found[i].chunk = found[j].chunk => i = j
  /\ \A i \in Ranked : found[i].chunk \in Eligible
  /\ \A i \in DOMAIN found \ Ranked : \E j \in Ranked : Continues(found[i], found[j])
  /\ \A kept \in RankedChunks, other \in Eligible \ RankedChunks : Better(kept, other)

Before == {"query", "embed", "expand", "candidates"}
After == {"neighbours", "sort", "done"}

(* How much of it is known where.                                          *)
Known ==
  /\ request \in Requests
  /\ candidates \in SUBSET Stored /\ \A chunk \in candidates : Allows(chunk)
  /\ stage \in Stages
  /\ stage \notin {"query", "failed"} => Bounded
  /\ stage \in Before => candidates = {}
  /\ stage \in Before \cup {"matches", "score"} => found = <<>>
  /\ stage = "rank" => Ranked = DOMAIN found
  /\ stage \notin {"query", "failed"} => Len(found) <= request.topK
  /\ stage \in After /\ candidates # {} =>
       Cardinality(RankedChunks) = Min({request.topK, Cardinality(Eligible)})

SearchInvariant == Known /\ ListInvariant

-----------------------------------------------------------------------------
(* Facts about numbers, lists and finite sets.                             *)

(* The scale of scores, of which no more is used.                          *)
LEMMA UnitIsNat == Unit \in Nat
  BY SMT DEF Unit

(* The smaller of two numbers. *)
LEMMA MinOfTwo ==
  ASSUME NEW a \in Int, NEW b \in Int
  PROVE  /\ Min({a, b}) \in {a, b}
         /\ Min({a, b}) <= a /\ Min({a, b}) <= b
<1>1. \E x \in {a, b} : \A y \in {a, b} : x =< y
  <2>1. CASE a <= b
    BY <2>1
  <2>2. CASE b <= a
    BY <2>2
  <2> QED
    BY <2>1, <2>2
<1>2. Min({a, b}) \in {a, b} /\ \A y \in {a, b} : Min({a, b}) =< y
  BY <1>1 DEF Min
<1> QED
  BY <1>2

(* The larger of two numbers. *)
LEMMA MaxOfTwo ==
  ASSUME NEW a \in Int, NEW b \in Int
  PROVE  /\ Max({a, b}) \in {a, b}
         /\ Max({a, b}) >= a /\ Max({a, b}) >= b
<1>1. \E x \in {a, b} : \A y \in {a, b} : x >= y
  <2>1. CASE a <= b
    BY <2>1
  <2>2. CASE b <= a
    BY <2>2
  <2> QED
    BY <2>1, <2>2
<1>2. Max({a, b}) \in {a, b} /\ \A y \in {a, b} : Max({a, b}) >= y
  BY <1>1 DEF Max
<1> QED
  BY <1>2

(* A list without repetition has as many elements as places.               *)
LEMMA ElementsOfAList ==
  ASSUME NEW n \in Nat, NEW S, NEW list \in [1 .. n -> S],
         \A i, j \in 1 .. n : list[i] = list[j] => i = j,
         \A x \in S : \E i \in 1 .. n : list[i] = x
  PROVE  IsFiniteSet(S) /\ Cardinality(S) = n
<1>1. list \in Bijection(1 .. n, S)
  BY DEF Bijection, Injection, Surjection, IsInjective
<1>2. IsFiniteSet(1 .. n) /\ Cardinality(1 .. n) = n
  <2>1. 1 \in Int /\ n \in Int
    OBVIOUS
  <2> QED
    BY <2>1, FS_Interval
<1>3. ExistsBijection(1 .. n, S)
  BY <1>1 DEF ExistsBijection
<1> QED
  BY <1>2, <1>3, FS_Bijection

(* A list of as many elements as the set has, none of them twice, has all. *)
LEMMA ListsOfAll ==
  ASSUME NEW S, IsFiniteSet(S), NEW list \in [1 .. Cardinality(S) -> S],
         \A i, j \in 1 .. Cardinality(S) : list[i] = list[j] => i = j
  PROVE  \A x \in S : \E i \in 1 .. Cardinality(S) : list[i] = x
<1> DEFINE n == Cardinality(S)
           T == {list[i] : i \in 1 .. n}
<1>1. n \in Nat
  BY FS_CardinalityType
<1>2. list \in [1 .. n -> T] /\ \A x \in T : \E i \in 1 .. n : list[i] = x
  OBVIOUS
<1>3. \A i, j \in 1 .. n : list[i] = list[j] => i = j
  OBVIOUS
<1>4. T \in SUBSET S
  OBVIOUS
<1> HIDE DEF n, T
<1>5. Cardinality(T) = n
  BY <1>1, <1>2, <1>3, ElementsOfAList
<1>6. S = T
  BY <1>4, <1>5, FS_Subset DEF n
<1> QED
  BY <1>2, <1>6 DEF n

(* A list that is not too long is not cut.                                 *)
LEMMA NothingIsCut ==
  ASSUME NEW S, NEW list \in Seq(S), NEW n \in Nat, Len(list) <= n
  PROVE  Cut(list, n) = list
<1>1. Len(list) \in Nat /\ ~(n < Len(list))
  OBVIOUS
<1>2. SubSeq(list, 1, Len(list)) = list
  OBVIOUS
<1> QED
  BY <1>1, <1>2 DEF Cut

-----------------------------------------------------------------------------
(* The list.                                                               *)

(* A step that changes nothing of which the list is made keeps it right.   *)
LEMMA ListUntouched ==
  ASSUME ListInvariant, UNCHANGED <<request, candidates, matches, combined, found>>
  PROVE  ListInvariant' /\ RankedChunks' = RankedChunks /\ Eligible' = Eligible /\ Ranked' = Ranked
<1>1. Ranked' = Ranked /\ Results' = Results
  BY DEF Ranked, Results
<1>2. Eligible' = Eligible
  BY DEF Eligible, score
<1>3. RankedChunks' = RankedChunks
  BY <1>1 DEF RankedChunks
<1> QED
  BY <1>1, <1>2, <1>3 DEF ListInvariant, Better, Continues

(* An empty list is right.                                                 *)
LEMMA EmptyList ==
  ASSUME found = <<>>
  PROVE  ListInvariant /\ Ranked = {} /\ Len(found) = 0
<1>1. DOMAIN found = {} /\ Len(found) = 0 /\ found \in Seq(Results)
  OBVIOUS
<1>2. Ranked = {} /\ RankedChunks = {}
  BY <1>1 DEF Ranked, RankedChunks
<1> QED
  BY <1>1, <1>2 DEF ListInvariant

(* The same of the next list. *)
LEMMA EmptyListNext ==
  ASSUME found' = <<>>
  PROVE  ListInvariant' /\ Ranked' = {} /\ DOMAIN found' = {} /\ Len(found') = 0
<1>1. DOMAIN found' = {} /\ Len(found') = 0 /\ found' \in Seq(Results')
  OBVIOUS
<1>2. Ranked' = {} /\ RankedChunks' = {}
  BY <1>1 DEF Ranked, RankedChunks
<1> QED
  BY <1>1, <1>2 DEF ListInvariant

(* The best of what is left comes next.                                    *)
LEMMA RankNextKeepsTheList ==
  ASSUME SearchInvariant, RankNext
  PROVE  ListInvariant' /\ Ranked' = DOMAIN found'
<1>1. /\ found \in Seq(Results) /\ Ranked = DOMAIN found
      /\ DOMAIN found = 1 .. Len(found) /\ Len(found) \in Nat
  BY DEF SearchInvariant, Known, ListInvariant, RankNext
<1>2. PICK c \in Left :
        /\ \A other \in Left \ {c} : Better(c, other)
        /\ found' = Append(found, ToResult(c, score[c], Mode(c)))
  BY DEF RankNext
<1>3. UNCHANGED <<request, candidates, matches, combined>>
  BY DEF RankNext
<1>4. c \in candidates /\ c \in Eligible /\ c \in Stored /\ c \notin Chosen
  BY <1>2 DEF Left, Eligible, SearchInvariant, Known
<1>5. score[c] \in -Unit .. Unit
  <2>1. request \in Requests
    BY DEF SearchInvariant, Known
  <2> QED
    BY <1>4, <2>1, RequestsAssumption DEF score
<1> DEFINE new == ToResult(c, score[c], Mode(c))
<1>6. /\ new \in Results /\ new.chunk = c /\ new.mode # "adjacent"
  BY <1>4, <1>5 DEF Results, ToResult, Mode, Modes
<1> HIDE DEF new
<1>7. /\ found' \in Seq(Results) /\ Len(found') = Len(found) + 1
      /\ DOMAIN found' = 1 .. Len(found) + 1
      /\ found'[Len(found) + 1] = new
      /\ \A i \in 1 .. Len(found) : found'[i] = found[i]
  BY <1>1, <1>2, <1>6 DEF new
<1>8. Results' = Results /\ Eligible' = Eligible
  BY <1>3 DEF Results, Eligible, score
<1>9. \A i \in 1 .. Len(found) : found[i].mode # "adjacent" /\ found[i].chunk \in Eligible
  BY <1>1 DEF Ranked, SearchInvariant, ListInvariant
<1>10. \A i \in 1 .. Len(found) + 1 : found'[i].mode # "adjacent" /\ found'[i].chunk \in Eligible
  BY <1>1, <1>4, <1>6, <1>7, <1>9
<1>11. Ranked' = DOMAIN found'
  BY <1>7, <1>10 DEF Ranked
<1>12. \A i \in 1 .. Len(found) : found[i].chunk # c
  BY <1>1, <1>4 DEF Chosen
<1>13. \A i, j \in DOMAIN found' : found'[i].chunk = found'[j].chunk => i = j
  <2>1. \A i, j \in 1 .. Len(found) : found[i].chunk = found[j].chunk => i = j
    BY <1>1 DEF SearchInvariant, ListInvariant
  <2> QED
    BY <2>1, <1>1, <1>6, <1>7, <1>12
<1>14. RankedChunks' = RankedChunks \cup {c} /\ RankedChunks = Chosen
  <2>1. RankedChunks = Chosen
    BY <1>1 DEF RankedChunks, Chosen
  <2>2. RankedChunks' = {found'[i].chunk : i \in 1 .. Len(found) + 1}
    BY <1>7, <1>11 DEF RankedChunks
  <2>3. RankedChunks = {found[i].chunk : i \in 1 .. Len(found)}
    BY <1>1 DEF RankedChunks
  <2>4. \A x : x \in {found'[i].chunk : i \in 1 .. Len(found) + 1}
               <=> x \in {found[i].chunk : i \in 1 .. Len(found)} \cup {c}
    BY <1>1, <1>6, <1>7
  <2> QED
    BY <2>1, <2>2, <2>3, <2>4
<1>15. \A kept \in RankedChunks', other \in Eligible \ RankedChunks' : Better(kept, other)'
  <2> SUFFICES ASSUME NEW kept \in RankedChunks', NEW other \in Eligible \ RankedChunks'
               PROVE  Better(kept, other)
    BY <1>3 DEF Better
  <2>1. CASE kept = c
    BY <2>1, <1>2, <1>14 DEF Left
  <2>2. CASE kept # c
    BY <2>2, <1>14 DEF SearchInvariant, ListInvariant
  <2> QED
    BY <2>1, <2>2
<1> QED
  BY <1>7, <1>8, <1>10, <1>11, <1>13, <1>15 DEF ListInvariant

(* A neighbour continues a ranked chunk and does not count as one.         *)
LEMMA TakeNeighbourKeepsTheList ==
  ASSUME SearchInvariant, TakeNeighbour
  PROVE  ListInvariant' /\ RankedChunks' = RankedChunks /\ Eligible' = Eligible
<1>1. /\ found \in Seq(Results) /\ DOMAIN found = 1 .. Len(found) /\ Len(found) \in Nat
      /\ position \in Ranked /\ position \in 1 .. Len(found)
  BY DEF SearchInvariant, ListInvariant, TakeNeighbour, Searching, Ranked
<1> DEFINE ranked == found[position]
           points == Max({ranked.score - 100, -Unit})
<1>2. PICK c \in Neighbours(ranked.chunk) : found' = Append(found, ToResult(c, points, "adjacent"))
  BY DEF TakeNeighbour
<1>3. UNCHANGED <<request, candidates, matches, combined>>
  BY DEF TakeNeighbour
<1>4. ranked \in Results
  BY <1>1
<1>5. ranked.chunk \in Stored /\ ranked.score \in -Unit .. Unit
  BY <1>4 DEF Results, SearchInvariant, Known
<1>6. c \in candidates /\ c \in Stored /\ c \notin Chosen /\ c \in NextOf(ranked.chunk) /\ SamePlace(ranked.chunk, c)
  BY <1>2 DEF Neighbours, NextOf, SearchInvariant, Known
<1> HIDE DEF ranked
<1>7. points \in -Unit .. Unit /\ ranked.score >= points
  <2>1. ranked.score - 100 \in Int /\ -Unit \in Int
    BY <1>5, UnitIsNat
  <2>2. points \in {ranked.score - 100, -Unit} /\ points >= -Unit
    BY <2>1, MaxOfTwo
  <2> HIDE DEF points
  <2> QED
    BY <2>1, <2>2, <1>5, UnitIsNat
<1> HIDE DEF points
<1> DEFINE new == ToResult(c, points, "adjacent")
<1>8. /\ new \in Results /\ new.chunk = c /\ new.score = points /\ new.mode = "adjacent"
  BY <1>6, <1>7 DEF Results, ToResult, Modes
<1> HIDE DEF new
<1>9. /\ found' \in Seq(Results) /\ DOMAIN found' = 1 .. Len(found) + 1
      /\ found'[Len(found) + 1] = new
      /\ \A i \in 1 .. Len(found) : found'[i] = found[i]
  BY <1>1, <1>2, <1>8 DEF new
<1>10. Ranked' = Ranked /\ Ranked \subseteq 1 .. Len(found)
  BY <1>1, <1>8, <1>9 DEF Ranked
<1>11. Results' = Results /\ Eligible' = Eligible
  BY <1>3 DEF Results, Eligible, score
<1>12. RankedChunks' = RankedChunks
  <2>1. \A i \in Ranked : found'[i].chunk = found[i].chunk
    BY <1>9, <1>10
  <2> QED
    BY <2>1, <1>10 DEF RankedChunks
<1>13. \A i, j \in DOMAIN found' : found'[i].chunk = found'[j].chunk => i = j
  <2>1. \A i, j \in 1 .. Len(found) : found[i].chunk = found[j].chunk => i = j
    BY <1>1 DEF SearchInvariant, ListInvariant
  <2>2. \A i \in 1 .. Len(found) : found[i].chunk # c
    BY <1>1, <1>6 DEF Chosen
  <2> QED
    BY <2>1, <2>2, <1>1, <1>8, <1>9
<1>14. Continues(new, ranked)
  <2> DEFINE this == Corpus[c]  that == Corpus[ranked.chunk]
  <2>1. /\ this.document = that.document /\ this.index = that.index + 1
        /\ this.page = that.page /\ this.title = that.title
    BY <1>6 DEF NextOf, SamePlace
  <2>2. this.type = that.type /\ this.name = that.name
    BY <2>1, <1>5, <1>6, CorpusAssumption
  <2>3. /\ this \in [document : Nat, index : Nat, page : Nat, type : FileTypes,
                     name : Seq(Words), title : Seq(Words), content : Seq(Words), current : BOOLEAN]
        /\ that \in [document : Nat, index : Nat, page : Nat, type : FileTypes,
                     name : Seq(Words), title : Seq(Words), content : Seq(Words), current : BOOLEAN]
    BY <1>5, <1>6, CorpusAssumption
  <2> HIDE DEF this, that
  <2>4. this = [that EXCEPT !.index = @ + 1, !.content = this.content, !.current = this.current]
    BY <2>1, <2>2, <2>3
  <2> QED
    BY <2>4, <1>7, <1>8 DEF Continues, this, that
<1>15. \A i \in DOMAIN found' \ Ranked : \E j \in Ranked : Continues(found'[i], found'[j])
  <2> SUFFICES ASSUME NEW i \in DOMAIN found' \ Ranked
               PROVE  \E j \in Ranked : Continues(found'[i], found'[j])
    OBVIOUS
  <2>1. CASE i = Len(found) + 1
    BY <2>1, <1>1, <1>9, <1>14 DEF ranked
  <2>2. CASE i \in 1 .. Len(found)
    <3>1. PICK j \in Ranked : Continues(found[i], found[j])
      BY <2>2, <1>1 DEF SearchInvariant, ListInvariant
    <3>2. found'[i] = found[i] /\ found'[j] = found[j]
      BY <2>2, <1>9, <1>10
    <3> QED
      BY <3>1, <3>2
  <2> QED
    BY <2>1, <2>2, <1>1, <1>9
<1>16. \A i \in Ranked : found'[i].chunk \in Eligible
  BY <1>9, <1>10 DEF SearchInvariant, ListInvariant
<1>17. \A kept \in RankedChunks, other \in Eligible \ RankedChunks : Better(kept, other)'
  BY <1>3 DEF SearchInvariant, ListInvariant, Better
<1> QED
  BY <1>9, <1>10, <1>11, <1>12, <1>13, <1>15, <1>16, <1>17 DEF ListInvariant, Continues

(* The second sort neither loses a result nor brings in another.           *)
LEMMA SortResultsKeepsTheList ==
  ASSUME SearchInvariant, SortResults
  PROVE  /\ ListInvariant' /\ RankedChunks' = RankedChunks /\ Eligible' = Eligible
         /\ Len(found') = Len(found)
<1> DEFINE n == Len(found)
           S == {found[i] : i \in DOMAIN found}
<1>1. /\ found \in Seq(Results) /\ DOMAIN found = 1 .. n /\ n \in Nat
      /\ n <= request.topK /\ request.topK \in Nat
      /\ UNCHANGED <<request, candidates, matches, combined>>
  <2>1. Bounded /\ n <= request.topK
    BY DEF SearchInvariant, Known, SortResults
  <2>2. request.topK \in Nat
    BY <2>1 DEF Bounded
  <2> QED
    BY <2>1, <2>2 DEF SearchInvariant, ListInvariant, SortResults
<1>2. \A i, j \in 1 .. n : found[i].chunk = found[j].chunk => i = j
  BY <1>1 DEF SearchInvariant, ListInvariant
<1>3. found \in [1 .. n -> S] /\ \A x \in S : \E i \in 1 .. n : found[i] = x
  BY <1>1
<1>4. \A x \in S : x \in Results
  BY <1>1
<1>5. PICK list \in Orders(S, HigherScore) : found' = Cut(list, request.topK)
  BY DEF SortResults
<1> HIDE DEF n, S
<1>6. IsFiniteSet(S) /\ Cardinality(S) = n
  BY <1>1, <1>2, <1>3, ElementsOfAList
<1>7. /\ list \in [1 .. Cardinality(S) -> S]
      /\ \A i, j \in 1 .. Cardinality(S) : i < j => HigherScore(list[i], list[j])
  BY <1>5 DEF Orders
<1>8. \A x \in Results : ~HigherScore(x, x)
  <2> SUFFICES ASSUME NEW x \in Results PROVE ~HigherScore(x, x)
    OBVIOUS
  <2>1. x.chunk \in Stored /\ x.score \in -Unit .. Unit
    BY DEF Results, SearchInvariant, Known
  <2>2. x.score \in Int
    BY <2>1, UnitIsNat
  <2>3. Corpus[x.chunk].document \in Nat /\ Corpus[x.chunk].index \in Nat
    BY <2>1, CorpusAssumption
  <2>4. ~(x.score > x.score)
    BY <2>2
  <2>5. ~Earlier(x.chunk, x.chunk)
    BY <2>3 DEF Earlier
  <2> QED
    BY <2>4, <2>5 DEF HigherScore
<1>9. \A i, j \in 1 .. n : list[i] = list[j] => i = j
  <2> SUFFICES ASSUME NEW i \in 1 .. n, NEW j \in 1 .. n, list[i] = list[j], i # j
               PROVE  FALSE
    OBVIOUS
  <2>1. list[i] \in Results
    BY <1>4, <1>6, <1>7
  <2>2. i < j \/ j < i
    BY <1>1
  <2> QED
    BY <2>1, <2>2, <1>6, <1>7, <1>8
<1>10. \A x \in S : \E i \in 1 .. n : list[i] = x
  <2>1. \A i, j \in 1 .. Cardinality(S) : list[i] = list[j] => i = j
    BY <1>6, <1>9
  <2>2. list \in [1 .. Cardinality(S) -> S] /\ IsFiniteSet(S)
    BY <1>6, <1>7
  <2>3. \A x \in S : \E i \in 1 .. Cardinality(S) : list[i] = x
    BY <2>1, <2>2, ListsOfAll
  <2> QED
    BY <2>3, <1>6
<1>11. list \in Seq(Results) /\ Len(list) = n /\ DOMAIN list = 1 .. n
  BY <1>1, <1>4, <1>6, <1>7
<1>12. found' = list
  BY <1>1, <1>5, <1>11, NothingIsCut
<1>13. Results' = Results /\ Eligible' = Eligible
  BY <1>1 DEF Results, Eligible, score
<1>14. \A i \in 1 .. n : \E j \in 1 .. n : found'[i] = found[j]
  BY <1>3, <1>6, <1>7, <1>12
<1>15. \A j \in 1 .. n : \E i \in 1 .. n : found'[i] = found[j]
  BY <1>3, <1>10, <1>12
<1>16. DOMAIN found' = 1 .. n /\ found' \in Seq(Results) /\ Len(found') = n
  BY <1>11, <1>12
<1>17. \A i, j \in DOMAIN found' : found'[i].chunk = found'[j].chunk => i = j
  <2> SUFFICES ASSUME NEW i \in 1 .. n, NEW j \in 1 .. n, found'[i].chunk = found'[j].chunk
               PROVE  i = j
    BY <1>16
  <2>1. PICK k, l \in 1 .. n : found'[i] = found[k] /\ found'[j] = found[l]
    BY <1>14
  <2>2. k = l
    BY <2>1, <1>2
  <2> QED
    BY <2>1, <2>2, <1>9, <1>12
<1>18. RankedChunks' = RankedChunks
  <2>1. Ranked' = {i \in 1 .. n : found'[i].mode # "adjacent"}
    BY <1>16 DEF Ranked
  <2>2. Ranked = {i \in 1 .. n : found[i].mode # "adjacent"}
    BY <1>1 DEF Ranked
  <2>3. ASSUME NEW x
        PROVE  x \in RankedChunks' <=> x \in RankedChunks
    <3>1. x \in RankedChunks' <=> \E i \in 1 .. n : found'[i].mode # "adjacent" /\ x = found'[i].chunk
      BY <2>1 DEF RankedChunks
    <3>2. x \in RankedChunks <=> \E i \in 1 .. n : found[i].mode # "adjacent" /\ x = found[i].chunk
      BY <2>2 DEF RankedChunks
    <3> QED
      BY <3>1, <3>2, <1>14, <1>15
  <2> QED
    BY <2>3
<1>19. \A i \in Ranked' : found'[i].chunk \in Eligible
  <2> SUFFICES ASSUME NEW i \in 1 .. n, found'[i].mode # "adjacent"
               PROVE  found'[i].chunk \in Eligible
    BY <1>16 DEF Ranked
  <2>1. PICK j \in 1 .. n : found'[i] = found[j]
    BY <1>14
  <2> QED
    BY <2>1, <1>1 DEF Ranked, SearchInvariant, ListInvariant
<1>20. \A i \in DOMAIN found' \ Ranked' : \E j \in Ranked' : Continues(found'[i], found'[j])
  <2> SUFFICES ASSUME NEW i \in 1 .. n, found'[i].mode = "adjacent"
               PROVE  \E j \in Ranked' : Continues(found'[i], found'[j])
    BY <1>16 DEF Ranked
  <2>1. PICK k \in 1 .. n : found'[i] = found[k]
    BY <1>14
  <2>2. PICK l \in Ranked : Continues(found[k], found[l])
    BY <2>1, <1>1 DEF Ranked, SearchInvariant, ListInvariant
  <2>3. PICK j \in 1 .. n : found'[j] = found[l]
    BY <2>2, <1>1, <1>15 DEF Ranked
  <2>4. j \in Ranked'
    BY <2>2, <2>3, <1>1, <1>16 DEF Ranked
  <2> QED
    BY <2>1, <2>2, <2>3, <2>4
<1>21. \A kept \in RankedChunks, other \in Eligible \ RankedChunks : Better(kept, other)'
  BY <1>1 DEF SearchInvariant, ListInvariant, Better
<1> QED
  BY <1>13, <1>16, <1>17, <1>18, <1>19, <1>20, <1>21 DEF ListInvariant, Continues, n

-----------------------------------------------------------------------------
(* The search.                                                             *)

(* A search begins with an empty list.                                     *)
LEMMA SearchBegins == RetrievalInit(Requests) => SearchInvariant
<1> SUFFICES ASSUME RetrievalInit(Requests) PROVE SearchInvariant
  OBVIOUS
<1>1. /\ request \in Requests /\ stage = "query" /\ candidates = {} /\ found = <<>>
  BY DEF RetrievalInit
<1> QED
  BY <1>1, EmptyList DEF SearchInvariant, Known, Stages, After, Before

(* When the ranking ends, the list has as many ranked chunks as it may.    *)
LEMMA RankingIsFull ==
  ASSUME SearchInvariant, RankEnds
  PROVE  Cardinality(RankedChunks) = Min({request.topK, Cardinality(Eligible)})
<1>1. /\ Ranked = DOMAIN found /\ DOMAIN found = 1 .. Len(found) /\ Len(found) \in Nat
      /\ Len(found) <= request.topK /\ Bounded /\ found \in Seq(Results)
  BY DEF SearchInvariant, Known, ListInvariant, RankEnds
<1>2. request.topK \in Nat /\ request.topK <= CandidateLimit /\ CandidateLimit \in Nat
  <2>1. CandidateLimit \in Nat
    BY RequestsAssumption
  <2>2. request.topK \in 1 .. 20 /\ request.topK <= CandidateLimit
    BY <1>1 DEF Bounded
  <2> QED
    BY <2>1, <2>2
<1>3. \A x : x \in RankedChunks <=> \E i \in 1 .. Len(found) : found[i].chunk = x
  <2> SUFFICES ASSUME NEW x
               PROVE  x \in RankedChunks <=> \E i \in 1 .. Len(found) : found[i].chunk = x
    OBVIOUS
  <2>1. x \in RankedChunks <=> \E i \in Ranked : x = found[i].chunk
    BY DEF RankedChunks
  <2>2. Ranked = 1 .. Len(found)
    BY <1>1
  <2> QED
    BY <2>1, <2>2
<1>4. IsFiniteSet(RankedChunks) /\ Cardinality(RankedChunks) = Len(found)
  <2> DEFINE list == [i \in 1 .. Len(found) |-> found[i].chunk]
  <2>1. list \in [1 .. Len(found) -> RankedChunks]
    BY <1>3
  <2>2. \A i, j \in 1 .. Len(found) : list[i] = list[j] => i = j
    BY <1>1 DEF SearchInvariant, ListInvariant
  <2>3. \A x \in RankedChunks : \E i \in 1 .. Len(found) : list[i] = x
    BY <1>3
  <2> HIDE DEF list
  <2> QED
    BY <1>1, <2>1, <2>2, <2>3, ElementsOfAList
<1>5. IsFiniteSet(Eligible) /\ Cardinality(Eligible) \in Nat
  <2>1. Eligible \in SUBSET Stored
    BY DEF Eligible, SearchInvariant, Known
  <2> QED
    BY <2>1, CorpusAssumption, FS_Subset, FS_CardinalityType
<1>6. RankedChunks \in SUBSET Eligible
  BY DEF RankedChunks, SearchInvariant, ListInvariant
<1>7. Len(found) <= Cardinality(Eligible)
  BY <1>4, <1>5, <1>6, FS_Subset
<1>8. Len(found) \in {request.topK, Cardinality(Eligible)}
  <2>1. CASE ~RankRoom
    <3> DEFINE k == request.topK
               least == Min({CandidateLimit, k})
    <3>3. CandidateLimit \in Int /\ k \in Int
      BY <1>2
    <3> HIDE DEF k
    <3>1. least \in {CandidateLimit, k} /\ least <= CandidateLimit /\ least <= k
      BY <3>3, MinOfTwo
    <3> HIDE DEF least
    <3>2. ~(Len(found) < least)
      BY <2>1 DEF RankRoom, least, k
    <3> USE DEF k
    <3> QED
      BY <3>1, <3>2, <1>1, <1>2
  <2>2. CASE Left = {}
    <3>1. Chosen = RankedChunks
      BY <1>1 DEF Chosen, RankedChunks
    <3>2. Eligible = RankedChunks
      BY <2>2, <3>1, <1>6 DEF Left
    <3> QED
      BY <3>2, <1>4
  <2> QED
    BY <2>1, <2>2 DEF RankEnds
<1> DEFINE m == Min({request.topK, Cardinality(Eligible)})
<1>9. /\ m \in {request.topK, Cardinality(Eligible)}
      /\ m <= request.topK /\ m <= Cardinality(Eligible)
  <2> DEFINE a == request.topK  b == Cardinality(Eligible)
  <2>1. a \in Int /\ b \in Int
    BY <1>2, <1>5
  <2> HIDE DEF a, b
  <2>2. /\ Min({a, b}) \in {a, b} /\ Min({a, b}) <= a /\ Min({a, b}) <= b
    BY <2>1, MinOfTwo
  <2> QED
    BY <2>2 DEF a, b
<1> HIDE DEF m
<1>10. Len(found) = m
  BY <1>1, <1>2, <1>5, <1>7, <1>8, <1>9
<1> QED
  BY <1>4, <1>10 DEF m

(* Every step of a search, and every deletion meanwhile, keeps it right.   *)
LEMMA SearchStepKeeps ==
  ASSUME SearchInvariant, RetrievalStep \/ DeleteDocument
  PROVE  SearchInvariant'
<1> USE DEF Stages, Before, After
<1>1. Known /\ ListInvariant
  BY DEF SearchInvariant
<1>2. ASSUME UNCHANGED <<request, candidates, matches, combined, found>>,
             stage' \in Stages, stage' \notin {"query", "failed"} => Bounded,
             stage' \in Before => stage \in Before,
             stage' \in Before \cup {"matches", "score"} => found = <<>>,
             stage' = "rank" => Ranked = DOMAIN found,
             stage' \notin {"query", "failed"} => Len(found) <= request.topK,
             stage' \in After /\ candidates # {} =>
               Cardinality(RankedChunks) = Min({request.topK, Cardinality(Eligible)})
      PROVE  SearchInvariant'
  <2>1. ListInvariant' /\ RankedChunks' = RankedChunks /\ Eligible' = Eligible /\ Ranked' = Ranked
    BY <1>1, <1>2, ListUntouched
  <2>2. Bounded' <=> Bounded
    BY <1>2 DEF Bounded
  <2>3. \A chunk : Allows(chunk)' <=> Allows(chunk)
    BY <1>2 DEF Allows, Passes
  <2>4. Known'
    BY <1>1, <1>2, <2>1, <2>2, <2>3 DEF Known
  <2> QED
    BY <2>1, <2>4 DEF SearchInvariant
<1>3. CASE MakeQuery
  <2>1. /\ UNCHANGED <<request, candidates, matches, combined, found>>
        /\ stage = "query" /\ candidates = {} /\ found = <<>>
        /\ \/ stage' = "embed" /\ Bounded
           \/ stage' = "failed"
    BY <1>1, <1>3 DEF MakeQuery, Known
  <2>2. Bounded => Len(found) <= request.topK
    <3>1. Bounded => request.topK \in 1 .. 20
      BY DEF Bounded
    <3>2. Len(found) = 0
      BY <2>1
    <3> QED
      BY <3>1, <3>2
  <2> QED
    BY <2>1, <2>2, <1>2
<1>4. CASE IndexingActive
  BY <1>1, <1>2, <1>4 DEF IndexingActive, Known
<1>5. CASE EmbedQuery
  BY <1>1, <1>2, <1>5 DEF EmbedQuery, Known
<1>6. CASE StepFails
  BY <1>1, <1>2, <1>6 DEF StepFails, Known
<1>7. CASE Expand
  BY <1>1, <1>2, <1>7 DEF Expand, Known
<1>8. CASE DeleteDocument
  BY <1>1, <1>2, <1>8 DEF DeleteDocument, Known
<1>9. CASE ReadCandidates
  <2>1. /\ stage = "candidates" /\ stage' = "matches" /\ candidates' = Searchable
        /\ UNCHANGED <<request, found>> /\ found = <<>> /\ Bounded /\ Len(found) <= request.topK
    BY <1>1, <1>9 DEF ReadCandidates, Known
  <2>2. ListInvariant'
    BY <2>1, EmptyListNext
  <2>3. Searchable \subseteq Stored /\ \A chunk \in Searchable : Allows(chunk)
    BY DEF Searchable, DocumentMatches, Allows
  <2>4. Bounded' /\ \A chunk : Allows(chunk)' <=> Allows(chunk)
    BY <2>1 DEF Bounded, Allows, Passes
  <2>5. Known'
    BY <1>1, <2>1, <2>3, <2>4 DEF Known
  <2> QED
    BY <2>2, <2>5 DEF SearchInvariant
<1>10. CASE ReadMatches \/ ScoreCandidates
  <2>1. /\ stage \in {"matches", "score"} /\ stage' \in {"done", "score", "rank"}
        /\ stage' = "done" => candidates = {}
        /\ UNCHANGED <<request, candidates, found>> /\ found = <<>>
        /\ Bounded /\ Len(found) <= request.topK
    BY <1>1, <1>10 DEF ReadMatches, ScoreCandidates, Known
  <2>2. ListInvariant' /\ Ranked' = {} /\ DOMAIN found' = {}
    BY <2>1, EmptyListNext
  <2>3. Bounded' /\ \A chunk : Allows(chunk)' <=> Allows(chunk)
    BY <2>1 DEF Bounded, Allows, Passes
  <2>4. Known'
    BY <1>1, <2>1, <2>2, <2>3 DEF Known
  <2> QED
    BY <2>2, <2>4 DEF SearchInvariant
<1>11. CASE RankNext
  <2>1. ListInvariant' /\ Ranked' = DOMAIN found'
    BY <1>11, RankNextKeepsTheList
  <2>2. /\ stage = "rank" /\ stage' = "rank" /\ UNCHANGED <<request, candidates>> /\ Bounded
        /\ RankRoom /\ found \in Seq(Results) /\ \E x : found' = Append(found, x)
    BY <1>1, <1>11 DEF RankNext, Known, ListInvariant
  <2>3. Bounded' /\ \A chunk : Allows(chunk)' <=> Allows(chunk)
    BY <2>2 DEF Bounded, Allows, Passes
  <2>4. Len(found') <= request'.topK
    <3> DEFINE k == request.topK
               least == Min({CandidateLimit, k})
    <3>1. CandidateLimit \in Int /\ k \in Int
      <4>1. request.topK \in 1 .. 20
        BY <2>2 DEF Bounded
      <4> QED
        BY <4>1, RequestsAssumption
    <3> HIDE DEF k
    <3>2. least \in Int /\ least <= k
      BY <3>1, MinOfTwo
    <3> HIDE DEF least
    <3>3. Len(found) < least
      BY <2>2 DEF RankRoom, least, k
    <3>4. Len(found) \in Nat /\ Len(found') = Len(found) + 1
      BY <2>2
    <3>5. Len(found') <= k
      BY <3>1, <3>2, <3>3, <3>4
    <3> QED
      BY <3>5, <2>2 DEF k
  <2>5. Known'
    BY <1>1, <2>1, <2>2, <2>3, <2>4 DEF Known
  <2> QED
    BY <2>1, <2>5 DEF SearchInvariant
<1>12. CASE RankEnds
  <2>1. Cardinality(RankedChunks) = Min({request.topK, Cardinality(Eligible)})
    BY <1>12, RankingIsFull
  <2>2. /\ stage = "rank" /\ stage' \in {"done", "neighbours"} /\ Bounded /\ Len(found) <= request.topK
        /\ UNCHANGED <<request, candidates, matches, combined, found>>
    BY <1>1, <1>12 DEF RankEnds, Known
  <2> QED
    BY <2>1, <2>2, <1>2
<1>13. CASE NoNeighbour \/ NeighboursEnd
  BY <1>1, <1>2, <1>13 DEF NoNeighbour, NeighboursEnd, Searching, Known
<1>14. CASE TakeNeighbour
  <2>1. ListInvariant' /\ RankedChunks' = RankedChunks /\ Eligible' = Eligible
    BY <1>14, TakeNeighbourKeepsTheList
  <2>2. /\ stage = "neighbours" /\ stage' = "neighbours" /\ UNCHANGED <<request, candidates>> /\ Bounded
        /\ Len(found) < request.topK /\ found \in Seq(Results) /\ \E x : found' = Append(found, x)
    BY <1>1, <1>14 DEF TakeNeighbour, Searching, Known, ListInvariant
  <2>3. Bounded' /\ \A chunk : Allows(chunk)' <=> Allows(chunk)
    BY <2>2 DEF Bounded, Allows, Passes
  <2>4. Len(found') <= request'.topK
    <3>1. request.topK \in Nat
      BY <2>2 DEF Bounded
    <3>2. Len(found) \in Nat /\ Len(found') = Len(found) + 1
      BY <2>2
    <3> QED
      BY <3>1, <3>2, <2>2
  <2>5. Known'
    BY <1>1, <2>1, <2>2, <2>3, <2>4 DEF Known
  <2> QED
    BY <2>1, <2>5 DEF SearchInvariant
<1>15. CASE SortResults
  <2>1. /\ ListInvariant' /\ RankedChunks' = RankedChunks /\ Eligible' = Eligible
        /\ Len(found') = Len(found)
    BY <1>15, SortResultsKeepsTheList
  <2>2. /\ stage = "sort" /\ stage' = "done" /\ UNCHANGED <<request, candidates>> /\ Bounded
        /\ Len(found) <= request.topK
    BY <1>1, <1>15 DEF SortResults, Known
  <2>3. Bounded' /\ \A chunk : Allows(chunk)' <=> Allows(chunk)
    BY <2>2 DEF Bounded, Allows, Passes
  <2>4. Known'
    BY <1>1, <2>1, <2>2, <2>3 DEF Known
  <2> QED
    BY <2>1, <2>4 DEF SearchInvariant
<1> QED
  BY <1>3, <1>4, <1>5, <1>6, <1>7, <1>8, <1>9, <1>10, <1>11, <1>12, <1>13, <1>14, <1>15
  DEF RetrievalStep

-----------------------------------------------------------------------------
(* What the search promises.                                               *)

(* The best chunks are the ranked ones, and as many as there may be.       *)
LEMMA SearchKeepsTheBest == SearchInvariant => BestAreKept
  BY DEF SearchInvariant, Known, ListInvariant, BestAreKept, Finished, After

(* Every result is allowed, there once, and ranked or a continuation.      *)
LEMMA SearchReturnsNeighbours == SearchInvariant => NeighboursFollow
<1> SUFFICES ASSUME SearchInvariant, Finished PROVE NeighboursFollow
  BY DEF NeighboursFollow
<1>1. /\ found \in Seq(Results) /\ DOMAIN found = 1 .. Len(found) /\ Len(found) \in Nat
      /\ Len(found) <= request.topK
  BY DEF SearchInvariant, Known, ListInvariant, Finished
<1>2. Cardinality(Chosen) = Len(found)
  <2> DEFINE list == [i \in 1 .. Len(found) |-> found[i].chunk]
  <2>1. list \in [1 .. Len(found) -> Chosen]
    BY <1>1 DEF Chosen
  <2>2. \A i, j \in 1 .. Len(found) : list[i] = list[j] => i = j
    BY <1>1 DEF SearchInvariant, ListInvariant
  <2>3. \A x \in Chosen : \E i \in 1 .. Len(found) : list[i] = x
    BY <1>1 DEF Chosen
  <2> HIDE DEF list
  <2> QED
    BY <1>1, <2>1, <2>2, <2>3, ElementsOfAList
<1>3. \A chunk \in Chosen : Allows(chunk)
  <2>1. \A i \in DOMAIN found : found[i].chunk \in candidates
    <3>1. \A i \in DOMAIN found : found[i] \in Results
      BY <1>1
    <3>2. \A x \in Results : x.chunk \in candidates
      BY DEF Results
    <3> QED
      BY <3>1, <3>2
  <2>2. \A chunk \in candidates : Allows(chunk)
    BY DEF SearchInvariant, Known
  <2> QED
    BY <2>1, <2>2 DEF Chosen
<1>4. \A i \in DOMAIN found \ Ranked : \E j \in Ranked : Continues(found[i], found[j])
  BY DEF SearchInvariant, ListInvariant
<1> QED
  BY <1>1, <1>2, <1>3, <1>4 DEF NeighboursFollow, Continues

-----------------------------------------------------------------------------
(* The answer around it.                                                   *)

(* A filter that finds a title in the query keeps the section that has it:  *)
(* results are never filtered down to nothing.                             *)
LEMMA SomeSectionIsKept ==
  ASSUME NEW query, NEW sections, NEW spelling, DOMAIN sections # {}
  PROVE  /\ KeptSections(query, sections, spelling) \subseteq DOMAIN sections
         /\ KeptSections(query, sections, spelling) # {}
<1> DEFINE titles == {section.title : section \in Range(sections)}
           matched == MatchedTitles(query, titles)
           kept == {i \in DOMAIN sections :
                      BelongsTo(sections[i].title, sections[i].content, matched, spelling)}
<1>1. KeptSections(query, sections, spelling)
        = IF IsSectionNamed(query, matched, spelling) THEN kept ELSE DOMAIN sections
  BY DEF KeptSections
<1>2. matched \subseteq titles
  BY DEF MatchedTitles
<1>3. CASE IsSectionNamed(query, matched, spelling)
  <2>1. PICK title \in matched : TRUE
    BY <1>3 DEF IsSectionNamed
  <2>2. PICK section \in Range(sections) : section.title = title
    BY <1>2, <2>1
  <2>3. PICK i \in DOMAIN sections : sections[i] = section
    BY <2>2 DEF Range
  <2>4. BelongsTo(sections[i].title, sections[i].content, matched, spelling)
    BY <2>1, <2>2, <2>3 DEF BelongsTo
  <2>5. i \in kept
    BY <2>4
  <2> QED
    BY <1>1, <1>3, <2>5
<1>4. CASE ~IsSectionNamed(query, matched, spelling)
  BY <1>1, <1>4
<1> QED
  BY <1>3, <1>4

(* The filter by sections is a choice of results that keeps their order.   *)
LEMMA NamedSectionsFilter ==
  ASSUME NamedSections, results \in Seq(Chunks)
  PROVE  FilterSections
<1>1. /\ pc = "found" /\ pc' = "select"
      /\ UNCHANGED <<size, next, selected, used, selection, attempt, looped, answer, outcome>>
  BY DEF NamedSections
<1>2. PICK spelling : Keep(KeptSections(request.words, Sections, spelling))
  BY DEF NamedSections
<1> DEFINE places == KeptSections(request.words, Sections, spelling)
<1>3. DOMAIN Sections = DOMAIN results /\ DOMAIN results = 1 .. Len(results) /\ Len(results) \in Nat
  BY DEF Sections
<1>4. places \subseteq 1 .. Len(results)
  <2>1. CASE DOMAIN Sections # {}
    BY <2>1, <1>3, SomeSectionIsKept
  <2>2. CASE DOMAIN Sections = {}
    BY <2>2, <1>3 DEF KeptSections
  <2> QED
    BY <2>1, <2>2
<1>5. results # <<>> => places # {}
  <2> SUFFICES ASSUME results # <<>> PROVE places # {}
    OBVIOUS
  <2>1. DOMAIN Sections # {}
    BY <1>3
  <2> QED
    BY <2>1, SomeSectionIsKept
<1> HIDE DEF places
<1>6. IsFiniteSet(places) /\ Cardinality(places) \in 0 .. Len(results)
  <2>1. IsFiniteSet(1 .. Len(results)) /\ Cardinality(1 .. Len(results)) = Len(results)
    <3>1. 1 \in Int /\ Len(results) \in Int
      BY <1>3
    <3> QED
      BY <1>3, <3>1, FS_Interval
  <2>2. IsFiniteSet(places) /\ Cardinality(places) <= Len(results)
    BY <1>4, <2>1, FS_Subset
  <2>3. Cardinality(places) \in Nat
    BY <2>2, FS_CardinalityType
  <2> QED
    BY <1>3, <2>2, <2>3
<1>7. Cardinality(places) = 0 => results = <<>>
  BY <1>5, <1>6, FS_EmptySet
<1>8. PICK order \in [1 .. Cardinality(places) -> places] :
        /\ \A i, j \in 1 .. Cardinality(places) : i < j => order[i] < order[j]
        /\ results' = [k \in DOMAIN order |-> results[order[k]]]
  BY <1>2 DEF Keep, Orders, places
<1>9. order \in [1 .. Cardinality(places) -> DOMAIN results]
  BY <1>3, <1>4, <1>8
<1>10. DOMAIN order = 1 .. Cardinality(places)
  BY <1>8
<1> QED
  BY <1>1, <1>6, <1>7, <1>8, <1>9, <1>10 DEF FilterSections

(* Every question starts as the abstract service may start.                *)
LEMMA AnswerInitImplements == AnswerInit => Init
<1> SUFFICES ASSUME AnswerInit PROVE Init
  OBVIOUS
<1>1. request \in Requests
  BY DEF AnswerInit, RetrievalInit
<1>2. request.sizes \in [Chunks -> Sizes]
  BY <1>1, ChunksAreStored
<1> QED
  BY <1>2 DEF AnswerInit, Init

(* Every step of the service is a step of the abstract service, or changes *)
(* nothing that it has.                                                    *)
LEMMA AnswerStepImplements ==
  ASSUME AnswerInvariant, [AnswerNext]_answerVars
  PROVE  [Next]_vars
<1>1. CASE SearchOn
  BY <1>1 DEF SearchOn
<1>2. CASE DocumentDeleted
  BY <1>2 DEF DocumentDeleted
<1>3. CASE SearchRaises
  BY <1>3 DEF SearchRaises, Next
<1>4. CASE SearchReturns
  BY <1>4 DEF SearchReturns, Next
<1>5. CASE ConfidenceTooLow
  BY <1>5 DEF ConfidenceTooLow, Next
<1>6. CASE NamedSections
  <2>1. results \in Seq(Chunks)
    BY DEF AnswerInvariant, SelectionInvariant, SelectionTypeOK
  <2> QED
    BY <1>6, <2>1, NamedSectionsFilter DEF Next
<1>7. CASE BuildPrompt
  <2>1. /\ pc = "check" /\ selected # <<>> /\ pc' = "generate"
        /\ UNCHANGED <<selectionVars, attempt, looped, answer, outcome>>
    BY <1>7 DEF BuildPrompt, Supports
  <2> QED
    BY <2>1 DEF CheckContext, Next
<1>8. CASE NoEvidence
  BY <1>8 DEF NoEvidence, CheckContext, Next
<1>9. CASE Continue
  BY <1>9 DEF Continue, Next
<1>10. CASE UNCHANGED answerVars
  BY <1>10 DEF answerVars
<1> QED
  BY <1>1, <1>2, <1>3, <1>4, <1>5, <1>6, <1>7, <1>8, <1>9, <1>10 DEF AnswerNext

(* Whatever is ranked, filtered or judged: the service with its search is  *)
(* an implementation of the abstract service.                              *)
THEOREM AnswersImplement == AnswerSpec => ImplementsGroundedAnswer
<1>1. AnswerInit => Init /\ AnswerInvariant
  BY AnswerInitImplements, InitKeepsTheInvariant
<1>2. AnswerInvariant /\ [AnswerNext]_answerVars => [Next]_vars
  BY AnswerStepImplements
<1>3. AnswerInvariant /\ [Next]_vars => AnswerInvariant'
  BY NextKeepsTheInvariant
<1> QED
  BY <1>1, <1>2, <1>3, PTL DEF AnswerSpec, Spec, ImplementsGroundedAnswer

(* So that its answers cite chunks that its own search has found.          *)
THEOREM RetrievedAnswersCiteTheirSources == AnswerSpec => []MarksAreSources
  BY AnswersImplement, AnswersCiteTheirSources, PTL DEF ImplementsGroundedAnswer

(* And that the contents of the chunks in its prompt are together within   *)
(* the limit, or a single one within twice the limit.                      *)
THEOREM RetrievedContextsFit == AnswerSpec => []ContextFits
  BY AnswersImplement, TheContextFits, PTL DEF ImplementsGroundedAnswer

(* And no chunk of its prompt is there twice or in another order.          *)
THEOREM RetrievedSourcesAreOrdered ==
  AnswerSpec => [](SourcesAreDistinct /\ SourcesKeepTheOrder)
  BY AnswersImplement, SourcesAreOrdered, PTL DEF ImplementsGroundedAnswer

-----------------------------------------------------------------------------
(* The search as a part of the service.                                    *)

(* Afterwards its locals are gone, or it has failed. *)
SearchIsRight ==
  /\ pc = "search" => SearchInvariant
  /\ pc # "search" => stage = "failed" \/ candidates = {}

(* After the search no step of the service begins another.                 *)
LEMMA NoOtherSearch ==
  ASSUME AnswerInvariant, AnswerInvariant', Continue
  PROVE  pc # "search" /\ pc' # "search"
<1>1. CASE SelectContext
  <2>1. selection' \in {"running", "done", "failed"} /\ pc = "select"
    BY <1>1 DEF SelectContext, AnswerInvariant, SelectionInvariant, SelectionTypeOK, Selections
  <2>2. CASE selection' = "running"
    BY <1>1, <2>1, <2>2 DEF SelectContext
  <2>3. CASE selection' = "failed"
    BY <1>1, <2>1, <2>3 DEF SelectContext, Ends
  <2>4. CASE selection' = "done"
    BY <1>1, <2>1, <2>4 DEF SelectContext
  <2> QED
    BY <2>1, <2>2, <2>3, <2>4
<1>2. CASE ChatFails
  BY <1>2 DEF ChatFails, Ends
<1>3. CASE Generate
  BY <1>3 DEF Generate
<1>4. CASE Rejected
  BY <1>4 DEF Rejected, Ends
<1>5. CASE Accepted
  BY <1>5 DEF Accepted
<1>6. CASE Retry
  BY <1>6 DEF Retry, Ends
<1>7. CASE Finish
  BY <1>7 DEF Finish, Ends
<1> QED
  BY <1>1, <1>2, <1>3, <1>4, <1>5, <1>6, <1>7 DEF Continue

(* Every step of the service keeps its search right.                       *)
LEMMA SearchStaysRight ==
  ASSUME AnswerInvariant, AnswerInvariant', SearchIsRight, [AnswerNext]_answerVars
  PROVE  SearchIsRight'
<1>1. CASE SearchOn \/ DocumentDeleted
  <2>1. pc = "search" /\ pc' = "search" /\ (RetrievalStep \/ DeleteDocument)
    BY <1>1 DEF SearchOn, DocumentDeleted, vars
  <2> QED
    BY <2>1, SearchStepKeeps DEF SearchIsRight
<1>2. CASE SearchRaises
  BY <1>2 DEF SearchRaises, SearchFails, Ends, retrievalVars, SearchIsRight
<1>3. CASE SearchReturns
  BY <1>3 DEF SearchReturns, Search, Forgotten, SearchIsRight
<1>4. ASSUME pc # "search", pc' # "search", UNCHANGED <<stage, candidates>>
      PROVE  SearchIsRight'
  BY <1>4 DEF SearchIsRight
<1>5. CASE ConfidenceTooLow
  BY <1>4, <1>5 DEF ConfidenceTooLow, LowConfidence, Ends, retrievalVars
<1>6. CASE NamedSections
  BY <1>4, <1>6 DEF NamedSections, retrievalVars
<1>7. CASE BuildPrompt
  BY <1>4, <1>7 DEF BuildPrompt
<1>8. CASE NoEvidence
  BY <1>4, <1>8 DEF NoEvidence, Ends, retrievalVars
<1>9. CASE Continue
  BY <1>4, <1>9, NoOtherSearch DEF Continue, retrievalVars
<1>10. CASE UNCHANGED answerVars
  <2>1. UNCHANGED <<pc, request, complete, stage, expanded, candidates, matches, combined, found, position>>
    BY <1>10 DEF answerVars, vars, retrievalVars
  <2>2. SearchInvariant => SearchInvariant'
    <3> SUFFICES ASSUME SearchInvariant PROVE SearchInvariant'
      OBVIOUS
    <3>1. ListInvariant' /\ RankedChunks' = RankedChunks /\ Eligible' = Eligible /\ Ranked' = Ranked
      BY <2>1, ListUntouched DEF SearchInvariant
    <3>2. Known'
      BY <2>1, <3>1 DEF SearchInvariant, Known, Bounded, Allows, Passes
    <3> QED
      BY <3>1, <3>2 DEF SearchInvariant
  <2> QED
    BY <2>1, <2>2 DEF SearchIsRight
<1> QED
  BY <1>1, <1>2, <1>3, <1>5, <1>6, <1>7, <1>8, <1>9, <1>10 DEF AnswerNext

(* No search finishes with a list in another state than the invariant's.   *)
LEMMA FinishedSearchesAreRight ==
  SearchIsRight => BestAreKept /\ NeighboursFollow
<1> SUFFICES ASSUME SearchIsRight PROVE BestAreKept /\ NeighboursFollow
  OBVIOUS
<1>1. CASE pc = "search"
  BY <1>1, SearchKeepsTheBest, SearchReturnsNeighbours DEF SearchIsRight
<1>2. CASE pc # "search"
  BY <1>2 DEF SearchIsRight, BestAreKept, NeighboursFollow, Finished
<1> QED
  BY <1>1, <1>2

(* In every reachable state the search is right.                           *)
LEMMA SearchIsRightAlways == AnswerSpec => []SearchIsRight
<1>1. AnswerInit => AnswerInvariant
  BY AnswerInitImplements, InitKeepsTheInvariant
<1>2. AnswerInit => SearchIsRight
  BY SearchBegins DEF AnswerInit, SearchIsRight
<1>3. AnswerInvariant /\ [AnswerNext]_answerVars => AnswerInvariant'
  BY AnswerStepImplements, NextKeepsTheInvariant
<1>4. AnswerInvariant /\ AnswerInvariant' /\ SearchIsRight /\ [AnswerNext]_answerVars => SearchIsRight'
  BY SearchStaysRight
<1> QED
  BY <1>1, <1>2, <1>3, <1>4, PTL DEF AnswerSpec

(* For every corpus and query: the list has as many ranked chunks as there *)
(* can be, and none that is left out is better than one of them, whatever  *)
(* the neighbours and the second sort do.                                  *)
THEOREM TheBestAreKept == AnswerSpec => []BestAreKept
<1>1. SearchIsRight => BestAreKept
  BY FinishedSearchesAreRight
<1> QED
  BY <1>1, SearchIsRightAlways, PTL

(* For every corpus and query: a chunk is in the list once, within the      *)
(* filters, and as a neighbour only of a ranked chunk that it continues.   *)
THEOREM TheNeighboursFollow == AnswerSpec => []NeighboursFollow
<1>1. SearchIsRight => NeighboursFollow
  BY FinishedSearchesAreRight
<1> QED
  BY <1>1, SearchIsRightAlways, PTL
=============================================================================
