--------------------------- MODULE GroundedAnswer ---------------------------
(***************************************************************************)
(* RagService.answer: one question from its search to a grounded answer, a  *)
(* refusal or an error.  A search may find anything, and the chat model may *)
(* write anything; of a text matter the ids that it cites, its status line, *)
(* and whether it repeats itself.                                          *)
(***************************************************************************)
EXTENDS ContextSelection

CONSTANTS
  Sizes,     \* the lengths of contents that are tried
  MaxFound   \* a search returns at most so many chunks

ASSUME BoundsAssumption == Sizes \subseteq Nat /\ MaxFound \in Nat

VARIABLES
  pc,       \* where the service is
  attempt,  \* of the two in _generate_with_citations
  looped,   \* last_repetition
  answer,   \* the answer text that was accepted
  outcome   \* what the caller gets

vars == <<selectionVars, pc, attempt, looped, answer, outcome>>

Pc == {"search", "found", "select", "check", "generate", "validate", "finish", "end"}

Errors == {"RagRetrievalError", "ContextAssemblyError", "ChatError",
           "InvalidChatResponseError", "RepeatingGenerationError",
           "CitationValidationError"}

Outcomes == {"none", "grounded", "insufficient"} \cup Errors

(* The ids that a model may write, one more than any prompt allows. *)
Ids == 1..ChunkLimit + 1

Allowed == DOMAIN selected

NoText == [valid |-> FALSE, marks |-> {}, verdict |-> "supported",
           loop |-> "nothing", kept |-> {}]

(* What the chat model returns.  valid: validate_answer_text and what       *)
(* follows it find nothing wrong but what the marks say.  verdict: the     *)
(* status line, or the words of a refusal without it.  loop: whether       *)
(* repair_repetition leaves the text, a prefix with the marks of kept, or  *)
(* nothing.                                                                *)
Text == {t \in [valid : BOOLEAN, marks : SUBSET Ids,
                verdict : {"supported", "insufficient", "refusal in words"},
                loop : {"none", "prefix", "nothing"}, kept : SUBSET Ids] :
           /\ t.kept \subseteq t.marks
           /\ t.loop # "prefix" => t.kept = {}
           /\ ~t.valid => t = NoText}

Ends(result) == pc' = "end" /\ outcome' = result

-----------------------------------------------------------------------------
SearchFails ==
  /\ pc = "search"
  /\ Ends("RagRetrievalError")
  /\ UNCHANGED <<selectionVars, attempt, looped, answer>>

(* The search returns some chunks, the best first. *)
Search ==
  /\ pc = "search"
  /\ results' \in UNION {[1..n -> Chunks] : n \in 0..MaxFound}
  /\ pc' = "found"
  /\ UNCHANGED <<size, next, selected, used, selection, attempt, looped, answer, outcome>>

(* No result reaches the minimum score. *)
LowConfidence ==
  /\ pc = "found" /\ results # <<>>
  /\ Ends("insufficient")
  /\ UNCHANGED <<selectionVars, attempt, looped, answer>>

(* filter_results_for_explicit_sections keeps some of the results, all of  *)
(* them if it would keep none.                                             *)
FilterSections ==
  /\ pc = "found"
  /\ \E n \in 0..Len(results) : \E kept \in [1..n -> DOMAIN results] :
       /\ \A i, j \in 1..n : i < j => kept[i] < kept[j]
       /\ n = 0 => results = <<>>
       /\ results' = [i \in 1..n |-> results[kept[i]]]
  /\ pc' = "select"
  /\ UNCHANGED <<size, next, selected, used, selection, attempt, looped, answer, outcome>>

SelectContext ==
  /\ pc = "select"
  /\ SelectionStep
  /\ CASE selection' = "running" -> UNCHANGED <<pc, outcome>>
       [] selection' = "failed"  -> Ends("ContextAssemblyError")
       [] selection' = "done"    -> pc' = "check" /\ UNCHANGED outcome
  /\ UNCHANGED <<attempt, looped, answer>>

(* Nothing usable, or nothing that has to do with the question. *)
CheckContext ==
  /\ pc = "check"
  /\ \/ Ends("insufficient")
     \/ selected # <<>> /\ pc' = "generate" /\ UNCHANGED outcome
  /\ UNCHANGED <<selectionVars, attempt, looped, answer>>

(* _call_chat: the model cannot be loaded, or generates nothing. *)
ChatFails ==
  /\ pc = "generate"
  /\ Ends("ChatError")
  /\ UNCHANGED <<selectionVars, attempt, looped, answer>>

Generate ==
  /\ pc = "generate"
  /\ answer' \in Text
  /\ attempt' = attempt + 1
  /\ pc' = "validate"
  /\ UNCHANGED <<selectionVars, looped, outcome>>

-----------------------------------------------------------------------------
(* The text of the attempt.                                                *)

(* Wrong variant: the ids of a text are not compared with the sources. *)
ValidShape(text) == text.valid

(* validate_answer_text: an unknown id makes the whole text invalid. *)
Valid(text) == text.valid /\ text.marks \subseteq Allowed

(* The ids that are left in the text after repair_repetition. *)
Marks(text) == IF text.loop = "none" THEN text.marks ELSE text.kept

Repeats(text) == text.loop # "none"

Rejected ==
  /\ pc = "validate"
  /\ ~Valid(answer)
  /\ Ends("InvalidChatResponseError")
  /\ UNCHANGED <<selectionVars, attempt, looped, answer>>

Acceptable(text) == Valid(text) /\ text.loop # "nothing"

(* A text that the model calls insufficient is accepted without citations. *)
Accepted ==
  /\ pc = "validate" /\ Acceptable(answer)
  /\ answer.verdict = "insufficient" \/ Marks(answer) # {}
  /\ looped' = (looped \/ Repeats(answer))
  /\ pc' = "finish"
  /\ UNCHANGED <<selectionVars, attempt, answer, outcome>>

(* Wrong variant: as long as the text repeats itself there is another try. *)
MayRetry(text) == attempt < 2 \/ (Repeats(text) /\ attempt < 3)

CanRetry(text) == attempt < 2

Unusable(text) ==
  \/ Valid(text) /\ text.loop = "nothing"
  \/ Acceptable(text) /\ text.verdict # "insufficient" /\ Marks(text) = {}

Retry ==
  /\ pc = "validate" /\ Unusable(answer)
  /\ looped' = (looped \/ Repeats(answer))
  /\ IF CanRetry(answer)
     THEN pc' = "generate" /\ answer' = NoText /\ UNCHANGED outcome
     ELSE /\ Ends(IF looped' THEN "RepeatingGenerationError"
                  ELSE "CitationValidationError")
          /\ UNCHANGED answer
  /\ UNCHANGED <<selectionVars, attempt>>

(* indicates_insufficient_evidence: a refusal in words counts as well. *)
Refuses(text) == text.verdict # "supported"

Finish ==
  /\ pc = "finish"
  /\ Ends(IF Refuses(answer) THEN "insufficient" ELSE "grounded")
  /\ UNCHANGED <<selectionVars, attempt, looped, answer>>

(* RagAnswer.citations: the card of every id that the text cites. *)
Citations ==
  IF outcome = "grounded" THEN {<<n, selected[n]>> : n \in Marks(answer)} ELSE {}

-----------------------------------------------------------------------------
Init ==
  /\ \E sizes \in [Chunks -> Sizes] : SelectionInit(sizes, <<>>)
  /\ pc = "search" /\ attempt = 0 /\ looped = FALSE
  /\ answer = NoText /\ outcome = "none"

Next ==
  \/ SearchFails \/ Search \/ LowConfidence \/ FilterSections
  \/ SelectContext \/ CheckContext
  \/ ChatFails \/ Generate
  \/ Rejected \/ Accepted \/ Retry
  \/ Finish

Spec == Init /\ [][Next]_vars

-----------------------------------------------------------------------------
TypeOK ==
  /\ SelectionTypeOK
  /\ pc \in Pc
  /\ attempt \in 0..2
  /\ looped \in BOOLEAN
  /\ answer \in Text
  /\ outcome \in Outcomes

(* Every id that a reader sees in a grounded answer has a source card, and  *)
(* every card is a chunk that was in the prompt and is cited in the text:   *)
(* the model's text can neither invent a source nor lose one.               *)
MarksAreSources ==
  outcome = "grounded" =>
    /\ Marks(answer) # {}
    /\ Marks(answer) \subseteq Allowed
    /\ \A card \in Citations : \E k \in DOMAIN results : results[k] = card[2]

(* A text that says that the evidence is missing is never shown as grounded *)
(* and shows no source card, although it may cite sources.                  *)
RefusalsAreNotGrounded ==
  outcome = "grounded" => answer.verdict = "supported"

(* The chat model is asked only about a usable context, and at most twice;  *)
(* a question fails for want of citations only after the second attempt.    *)
OneRepair ==
  /\ attempt > 0 => selected # <<>> /\ selection = "done"
  /\ attempt <= 2
  /\ outcome \in {"CitationValidationError", "RepeatingGenerationError"} => attempt = 2
=============================================================================
