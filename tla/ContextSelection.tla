-------------------------- MODULE ContextSelection --------------------------
(***************************************************************************)
(* select_context: the loop that turns the chunks that a search returned   *)
(* into the sources of a prompt.  The n-th source gets the id Sn, which is  *)
(* n here.  Of a content only its number of characters matters.            *)
(***************************************************************************)
EXTENDS Naturals, Sequences

CONSTANTS
  Chunks,        \* chunk ids
  ContextLimit,  \* settings.rag_max_context_characters
  ChunkLimit     \* settings.rag_max_chunk_count

ASSUME LimitsAssumption == {ContextLimit, ChunkLimit} \subseteq Nat \ {0}

VARIABLES
  size,       \* len(content.strip()) of each chunk
  results,    \* what the search returned, the best first
  next,       \* the position of the loop in results
  selected,   \* the chunks of the context so far
  used,       \* used_characters
  selection   \* how the loop stands

selectionVars == <<size, results, next, selected, used, selection>>

Selections == {"running", "done", "failed"}

SelectionInit(sizes, found) ==
  /\ size = sizes /\ results = found
  /\ next = 1 /\ selected = <<>> /\ used = 0
  /\ selection = "running"

Seen == {selected[i] : i \in DOMAIN selected}

(* Wrong variant: the loop ends when there is one source too many. *)
InLoopPast == next \in DOMAIN results /\ Len(selected) <= ChunkLimit

InLoop == next \in DOMAIN results /\ Len(selected) < ChunkLimit

Result == results[next]

Usable == size[Result] > 0 /\ Result \notin Seen

(* Wrong variant: the limit is compared with what is used already. *)
FitsBefore == used <= ContextLimit

Fits == used + size[Result] <= ContextLimit

(* The first chunk may have twice the size. *)
TopFits == selected = <<>> /\ size[Result] <= 2 * ContextLimit

(* Wrong variant: the newest source is the first. *)
PlacedFirst == <<Result>> \o selected

Placed == Append(selected, Result)

Skip ==
  /\ InLoop /\ ~Usable
  /\ next' = next + 1
  /\ UNCHANGED <<selected, used, selection>>

Take ==
  /\ InLoop /\ Usable
  /\ Fits \/ TopFits
  /\ selected' = Placed
  /\ used' = used + size[Result]
  /\ next' = next + 1
  /\ UNCHANGED selection

(* A later chunk that does not fit ends the loop, also for smaller ones. *)
Full ==
  /\ InLoop /\ Usable
  /\ selected # <<>> /\ ~Fits
  /\ selection' = "done"
  /\ UNCHANGED <<next, selected, used>>

(* ContextAssemblyError *)
TooLarge ==
  /\ InLoop /\ Usable
  /\ selected = <<>> /\ ~Fits /\ ~TopFits
  /\ selection' = "failed"
  /\ UNCHANGED <<next, selected, used>>

Exhausted ==
  /\ ~InLoop
  /\ selection' = "done"
  /\ UNCHANGED <<next, selected, used>>

SelectionStep ==
  /\ selection = "running"
  /\ Skip \/ Take \/ Full \/ TooLarge \/ Exhausted
  /\ UNCHANGED <<size, results>>

-----------------------------------------------------------------------------
SelectionTypeOK ==
  /\ size \in [Chunks -> Nat]
  /\ results \in Seq(Chunks)
  /\ next \in 1..Len(results) + 1
  /\ selected \in Seq(Chunks)
  /\ used \in Nat
  /\ selection \in Selections

(* The characters of the first n sources. *)
Total ==
  LET upTo[n \in 0..Len(selected)] ==
        IF n = 0 THEN 0 ELSE upTo[n - 1] + size[selected[n]]
  IN  upTo[Len(selected)]

Within(characters) ==
  \/ characters <= ContextLimit
  \/ Len(selected) = 1 /\ characters <= 2 * ContextLimit

(* The contents of the sources never have more characters than the limit,  *)
(* except that a single source may have up to twice as many.  The tags and *)
(* the metadata that format_context adds are not counted in the code, and  *)
(* not here.                                                               *)
ContextFits == Within(Total)

(* The context stops before it passes the configured limit, as the         *)
(* documentation of the context selection has it.                          *)
ContextStaysWithinLimit == Total <= ContextLimit

(* What the loop counts obeys the limits of ContextFits. *)
CountFits == Within(used)

(* Two ids are never of one chunk, so that no chunk is cited as two        *)
(* sources; none is of a chunk without content; and there are not more of  *)
(* them than the settings allow.                                           *)
SourcesAreDistinct ==
  /\ \A i, j \in DOMAIN selected : selected[i] = selected[j] => i = j
  /\ \A i \in DOMAIN selected : size[selected[i]] > 0
  /\ Len(selected) <= ChunkLimit

(* Chunks keep the order of the search: the better source has the smaller  *)
(* id, and every source is a chunk that the loop has already passed.       *)
InOrder(i, j) ==
  \E k, l \in 1..next - 1 : k < l /\ results[k] = selected[i] /\ results[l] = selected[j]

SourcesKeepTheOrder ==
  /\ \A i \in DOMAIN selected : \E k \in 1..next - 1 : results[k] = selected[i]
  /\ \A i, j \in DOMAIN selected : i < j => InOrder(i, j)
=============================================================================
