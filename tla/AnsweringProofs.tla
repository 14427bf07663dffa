-------------------------- MODULE AnsweringProofs --------------------------
(***************************************************************************)
(* The safety of questions beside indexing and deletions: for any          *)
(* documents, any number of sessions, and whatever the separate statements *)
(* of a search see.                                                        *)
(***************************************************************************)
EXTENDS Answering, TLAPS

(* What is true of a task at each step of its question or deletion.        *)
Unsearched == {"idle", "owners", "list", "search", "embed", "candidates",
               "confirmed", "delete", "forget"}

TaskInvariant(t) ==
  /\ t.removed \subseteq Gone
  /\ t.pc # "forget" => t.candidates \cap t.removed = {}
  /\ t.selected # {} => t.candidates \subseteq t.selected
  /\ t.evidence \subseteq t.candidates /\ t.cited \subseteq t.evidence
  /\ t.evidence # {} => t.relevant # {}
  /\ t.pc \in Unsearched => t.candidates = {}
  /\ t.pc \in Unsearched \cup {"lexical", "rank"} => t.evidence = {}
  /\ t.pc = "generate" => t.cited = {}

QuestionInvariant == AnswerTypeOK /\ \A s \in Sessions : TaskInvariant(task[s])

(* An idle session knows of nothing.                                       *)
LEMMA IdleIsSound == Idle \in Task /\ TaskInvariant(Idle)
BY DEF Idle, Task, Pc, TaskInvariant, Unsearched

-----------------------------------------------------------------------------
(* The documents.                                                          *)

(* A step of the lifecycle keeps the phases phases, and what is gone gone. *)
LEMMA GoneForGood ==
  ASSUME phase \in [Docs -> Phase],
         \/ \E d \in Docs : Store(d) \/ Publish(d)
         \/ \E chosen \in SUBSET Docs : Withdraw(chosen) \/ Remove(chosen)
  PROVE  phase' \in [Docs -> Phase] /\ Gone \subseteq Gone'
<1>1. ASSUME NEW d \in Docs, Store(d) \/ Publish(d)
      PROVE  phase' \in [Docs -> Phase] /\ Gone \subseteq Gone'
  BY <1>1 DEF Store, Publish, Phase, Gone
<1>2. ASSUME NEW chosen \in SUBSET Docs, Withdraw(chosen) \/ Remove(chosen)
      PROVE  phase' \in [Docs -> Phase] /\ Gone \subseteq Gone'
  BY <1>2 DEF Withdraw, Remove, Phase, Gone
<1> QED
  BY <1>1, <1>2

(* What indexing does keeps the types, and leaves the sessions alone.      *)
LEMMA IndexingIsApart ==
  ASSUME QuestionInvariant, Indexing
  PROVE  QuestionInvariant'
<1>t. /\ phase \in [Docs -> Phase] /\ owner \in Docs \cup {NoDoc} /\ pipeline \in BOOLEAN
  BY DEF QuestionInvariant, AnswerTypeOK
<1>1. /\ phase' \in [Docs -> Phase] /\ Gone \subseteq Gone'
      /\ owner' \in Docs \cup {NoDoc} /\ pipeline' \in BOOLEAN
      /\ UNCHANGED <<filter, cards, forgotten, task>>
  <2>1. CASE ClaimPipeline \/ ReleasePipeline \/ Abort
    BY <1>t, <2>1 DEF ClaimPipeline, ReleasePipeline, Abort, session, Gone
  <2>2. CASE Begin
    <3>1. {owner} \in SUBSET Docs /\ Withdraw({owner})
      BY <2>2 DEF Begin, Ready
    <3> QED
      BY <1>t, <2>2, <3>1, GoneForGood DEF Begin, session
  <2>3. CASE Complete
    BY <1>t, <2>3, GoneForGood DEF Complete, session
  <2>4. ASSUME NEW d \in Docs, Ingest(d) \/ Claim(d)
        PROVE  /\ phase' \in [Docs -> Phase] /\ Gone \subseteq Gone'
               /\ owner' \in Docs \cup {NoDoc} /\ pipeline' \in BOOLEAN
               /\ UNCHANGED <<filter, cards, forgotten, task>>
    BY <1>t, <2>4, GoneForGood DEF Ingest, Claim, session, Gone
  <2> QED
    BY <2>1, <2>2, <2>3, <2>4 DEF Indexing
<1>2. \A s \in Sessions : TaskInvariant(task[s])'
  BY <1>1 DEF QuestionInvariant, TaskInvariant
<1> QED
  BY <1>1, <1>2 DEF QuestionInvariant, AnswerTypeOK

-----------------------------------------------------------------------------
(* The sessions.                                                           *)

(* A session that moves on to a sound task, beside documents that only go. *)
LEMMA SessionMoves ==
  ASSUME QuestionInvariant, NEW s \in Sessions, NEW t \in Task,
         task' = [task EXCEPT ![s] = t], TaskInvariant(t)',
         Gone \subseteq Gone', UNCHANGED <<owner, pipeline>>,
         phase' \in [Docs -> Phase], filter' \in [Sessions -> SUBSET Docs],
         cards' \in [Sessions -> SUBSET SUBSET Docs],
         forgotten' \in [Sessions -> SUBSET Docs]
  PROVE  QuestionInvariant'
<1>1. task' \in [Sessions -> Task]
  BY DEF QuestionInvariant, AnswerTypeOK
<1>2. ASSUME NEW x \in Sessions PROVE TaskInvariant(task[x])'
  <2>1. CASE x = s
    <3>1. task'[x] = t
      BY <2>1 DEF QuestionInvariant, AnswerTypeOK
    <3> QED
      BY <3>1 DEF TaskInvariant
  <2>2. CASE x # s
    <3>1. task'[x] = task[x] /\ TaskInvariant(task[x])
      BY <2>2 DEF QuestionInvariant, AnswerTypeOK
    <3> QED
      BY <3>1 DEF TaskInvariant
  <2> QED
    BY <2>1, <2>2
<1> QED
  BY <1>1, <1>2 DEF QuestionInvariant, AnswerTypeOK

(* Most steps leave the documents and what the session shows alone.        *)
LEMMA TaskMoves ==
  ASSUME QuestionInvariant, NEW s \in Sessions, NEW t \in Task,
         task' = [task EXCEPT ![s] = t], TaskInvariant(t), UNCHANGED <<documents, session>>
  PROVE  QuestionInvariant'
<1>1. TaskInvariant(t)' /\ Gone \subseteq Gone'
  BY DEF TaskInvariant, Gone, documents
<1> QED
  BY <1>1, SessionMoves DEF QuestionInvariant, AnswerTypeOK, documents, session

(* A session that stops is idle.                                           *)
LEMMA TaskStops ==
  ASSUME QuestionInvariant, NEW s \in Sessions, Stop(s), UNCHANGED <<documents, session>>
  PROVE  QuestionInvariant'
BY TaskMoves, IdleIsSound DEF Stop

(* One that goes on without a change of what it knows stays sound.         *)
LEMMA TaskGoes ==
  ASSUME QuestionInvariant, NEW s \in Sessions, NEW pc, Goto(s, pc),
         <<task[s].pc, pc>> \in
           {<<"idle", "confirmed">>, <<"confirmed", "delete">>, <<"search", "answer">>,
            <<"search", "embed">>, <<"embed", "candidates">>},
         UNCHANGED <<documents, session>>
  PROVE  QuestionInvariant'
<1> DEFINE t == [task[s] EXCEPT !.pc = pc]
<1>1. task[s] \in Task /\ TaskInvariant(task[s])
  BY DEF QuestionInvariant, AnswerTypeOK
<1>2. t \in Task
  BY <1>1 DEF Task, Pc
<1>3. /\ t.pc = pc /\ t.removed = task[s].removed /\ t.selected = task[s].selected
      /\ t.candidates = task[s].candidates /\ t.evidence = task[s].evidence
      /\ t.cited = task[s].cited /\ t.relevant = task[s].relevant
  BY <1>1 DEF Task
<1>4. task' = [task EXCEPT ![s] = t]
  BY DEF Goto
<1> HIDE DEF t
<1>5. TaskInvariant(t)
  BY <1>1, <1>3 DEF TaskInvariant, Unsearched
<1> QED
  BY <1>2, <1>4, <1>5, TaskMoves

(* A question is asked, and lists the documents.                           *)
LEMMA AskingIsSound ==
  ASSUME QuestionInvariant, NEW s \in Sessions, Ask(s) \/ Owners(s) \/ List(s)
  PROVE  QuestionInvariant'
<1>t. /\ task[s] \in Task /\ TaskInvariant(task[s]) /\ filter[s] \in SUBSET Docs
      /\ owner \in Docs \cup {NoDoc}
  BY DEF QuestionInvariant, AnswerTypeOK
<1>1. CASE Ask(s)
  <2> DEFINE t == [Idle EXCEPT !.pc = "owners", !.removed = Gone]
  <2>1. t \in Task
    BY DEF Idle, Task, Pc, Gone
  <2>2. TaskInvariant(t)
    BY DEF Idle, TaskInvariant, Unsearched
  <2>3. task' = [task EXCEPT ![s] = t] /\ UNCHANGED <<documents, session>>
    BY <1>1 DEF Ask
  <2> HIDE DEF t
  <2> QED
    BY <2>1, <2>2, <2>3, TaskMoves
<1>2. CASE Owners(s)
  <2> DEFINE t == [task[s] EXCEPT !.pc = "list", !.busy = owner]
  <2>1. t \in Task
    BY <1>t DEF Task, Pc
  <2>2. /\ t.pc = "list" /\ t.removed = task[s].removed /\ t.selected = task[s].selected
        /\ t.candidates = task[s].candidates /\ t.evidence = task[s].evidence
        /\ t.cited = task[s].cited /\ t.relevant = task[s].relevant
    BY <1>t DEF Task
  <2>3. task' = [task EXCEPT ![s] = t] /\ UNCHANGED <<documents, session>>
    BY <1>2 DEF Owners
  <2>4. task[s].pc = "owners"
    BY <1>2 DEF Owners, At
  <2> HIDE DEF t
  <2>5. TaskInvariant(t)
    BY <1>t, <2>2, <2>4 DEF TaskInvariant, Unsearched
  <2> QED
    BY <2>1, <2>3, <2>5, TaskMoves
<1>3. CASE List(s) /\ Stop(s)
  BY <1>3, TaskStops DEF List
<1>4. CASE List(s) /\ ~Stop(s)
  <2> DEFINE t == [task[s] EXCEPT !.pc = "search", !.selected = filter[s]]
  <2>1. t \in Task
    BY <1>t DEF Task, Pc
  <2>2. /\ t.pc = "search" /\ t.removed = task[s].removed
        /\ t.candidates = task[s].candidates /\ t.evidence = task[s].evidence
        /\ t.cited = task[s].cited /\ t.relevant = task[s].relevant
    BY <1>t DEF Task
  <2>3. task' = [task EXCEPT ![s] = t] /\ UNCHANGED <<documents, session>>
    BY <1>4 DEF List
  <2>4. task[s].pc = "list"
    BY <1>4 DEF List, At
  <2> HIDE DEF t
  <2>5. TaskInvariant(t)
    BY <1>t, <2>2, <2>4 DEF TaskInvariant, Unsearched
  <2> QED
    BY <2>1, <2>3, <2>5, TaskMoves
<1> QED
  BY <1>1, <1>2, <1>3, <1>4

(* The two statements of the search: only the first brings documents in.   *)
LEMMA SearchIsSound ==
  ASSUME QuestionInvariant, NEW s \in Sessions, Candidates(s) \/ Lexical(s)
  PROVE  QuestionInvariant'
<1>t. task[s] \in Task /\ TaskInvariant(task[s])
  BY DEF QuestionInvariant, AnswerTypeOK
<1>s. /\ Searchable(task[s].selected) \subseteq Ready
      /\ task[s].selected # {} => Searchable(task[s].selected) \subseteq task[s].selected
      /\ Ready \subseteq Docs /\ Ready \cap Gone = {}
  BY DEF Searchable, Ready, Gone
<1>1. CASE Candidates(s)
  <2> DEFINE t == [task[s] EXCEPT !.pc = "lexical",
                                  !.candidates = Searchable(task[s].selected)]
  <2>1. t \in Task
    BY <1>t, <1>s DEF Task, Pc
  <2>2. /\ t.pc = "lexical" /\ t.removed = task[s].removed
        /\ t.candidates = Searchable(task[s].selected) /\ t.evidence = task[s].evidence
        /\ t.cited = task[s].cited /\ t.relevant = task[s].relevant
        /\ t.selected = task[s].selected
    BY <1>t DEF Task
  <2>3. task' = [task EXCEPT ![s] = t] /\ UNCHANGED <<documents, session>>
    BY <1>1 DEF Candidates
  <2>4. task[s].pc = "candidates"
    BY <1>1 DEF Candidates, At
  <2> HIDE DEF t
  <2>5. /\ t.removed \subseteq Gone /\ t.candidates \cap t.removed = {}
        /\ t.evidence = {} /\ t.cited = {}
    BY <1>t, <1>s, <2>2, <2>4 DEF TaskInvariant, Unsearched
  <2>6. TaskInvariant(t)
    BY <1>s, <2>2, <2>5 DEF TaskInvariant, Unsearched
  <2> QED
    BY <2>1, <2>3, <2>6, TaskMoves
<1>2. CASE Lexical(s)
  <2>1. PICK found \in SUBSET Searchable(task[s].selected) :
          task' = [task EXCEPT ![s].pc = "rank", ![s].lexical = found]
    BY <1>2 DEF Lexical
  <2> DEFINE t == [task[s] EXCEPT !.pc = "rank", !.lexical = found]
  <2>2. t \in Task
    BY <1>t, <1>s DEF Task, Pc
  <2>3. /\ t.pc = "rank" /\ t.removed = task[s].removed
        /\ t.candidates = task[s].candidates /\ t.evidence = task[s].evidence
        /\ t.cited = task[s].cited /\ t.relevant = task[s].relevant
        /\ t.selected = task[s].selected
    BY <1>t DEF Task
  <2>4. task' = [task EXCEPT ![s] = t] /\ UNCHANGED <<documents, session>>
    BY <1>2, <2>1 DEF Lexical
  <2>5. task[s].pc = "lexical"
    BY <1>2 DEF Lexical, At
  <2> HIDE DEF t
  <2>6. TaskInvariant(t)
    BY <1>t, <2>3, <2>5 DEF TaskInvariant, Unsearched
  <2> QED
    BY <2>2, <2>4, <2>6, TaskMoves
<1> QED
  BY <1>1, <1>2

(* What the ranking keeps are candidates, and only if one is relevant.     *)
LEMMA RankIsSound ==
  ASSUME QuestionInvariant, NEW s \in Sessions, Rank(s)
  PROVE  QuestionInvariant'
<1>t. task[s] \in Task /\ TaskInvariant(task[s]) /\ task[s].pc = "rank"
  BY DEF QuestionInvariant, AnswerTypeOK, Rank, At
<1>r. PICK relevant \in SUBSET task[s].candidates :
        \E evidence \in SUBSET Evidence(task[s], relevant) :
          task' = [task EXCEPT ![s].pc = IF evidence = {} THEN "answer" ELSE "generate",
                               ![s].relevant = relevant, ![s].evidence = evidence]
  BY DEF Rank
<1>1. PICK evidence \in SUBSET Evidence(task[s], relevant) :
        task' = [task EXCEPT ![s].pc = IF evidence = {} THEN "answer" ELSE "generate",
                             ![s].relevant = relevant, ![s].evidence = evidence]
  BY <1>r
<1>2. evidence \subseteq task[s].candidates /\ (evidence # {} => relevant # {})
  BY DEF Evidence
<1> DEFINE pc == IF evidence = {} THEN "answer" ELSE "generate"
           t == [task[s] EXCEPT !.pc = pc, !.relevant = relevant, !.evidence = evidence]
<1>3. t \in Task
  BY <1>t, <1>2 DEF Task, Pc
<1>4. /\ t.pc = pc /\ t.removed = task[s].removed
      /\ t.candidates = task[s].candidates /\ t.evidence = evidence
      /\ t.cited = task[s].cited /\ t.relevant = relevant
      /\ t.selected = task[s].selected
  BY <1>t DEF Task
<1>5. task' = [task EXCEPT ![s] = t] /\ UNCHANGED <<documents, session>>
  BY <1>1 DEF Rank
<1> HIDE DEF t
<1>6. task[s].cited = {}
  BY <1>t DEF TaskInvariant
<1>7. TaskInvariant(t)
  BY <1>t, <1>2, <1>4, <1>6 DEF TaskInvariant, Unsearched
<1> QED
  BY <1>3, <1>5, <1>7, TaskMoves

(* The chat model cites sources of its prompt, or fails.                   *)
LEMMA GenerateIsSound ==
  ASSUME QuestionInvariant, NEW s \in Sessions, Generate(s)
  PROVE  QuestionInvariant'
<1>t. task[s] \in Task /\ TaskInvariant(task[s]) /\ task[s].pc = "generate"
  BY DEF QuestionInvariant, AnswerTypeOK, Generate, At
<1>1. CASE Stop(s)
  BY <1>1, TaskStops DEF Generate
<1>2. ASSUME NEW cited \in SUBSET task[s].evidence,
             task' = [task EXCEPT ![s].pc = "answer", ![s].cited = cited]
      PROVE  QuestionInvariant'
  <2> DEFINE t == [task[s] EXCEPT !.pc = "answer", !.cited = cited]
  <2>1. t \in Task
    BY <1>t DEF Task, Pc
  <2>2. /\ t.pc = "answer" /\ t.removed = task[s].removed
        /\ t.candidates = task[s].candidates /\ t.evidence = task[s].evidence
        /\ t.cited = cited /\ t.relevant = task[s].relevant
        /\ t.selected = task[s].selected
    BY <1>t DEF Task
  <2>3. task' = [task EXCEPT ![s] = t] /\ UNCHANGED <<documents, session>>
    BY <1>2 DEF Generate
  <2> HIDE DEF t
  <2>4. TaskInvariant(t)
    BY <1>t, <2>2 DEF TaskInvariant, Unsearched
  <2> QED
    BY <2>1, <2>3, <2>4, TaskMoves
<1> QED
  BY <1>1, <1>2 DEF Generate

(* The steps that change what the session shows.                           *)
LEMMA ShowingIsSound ==
  ASSUME QuestionInvariant, NEW s \in Sessions, Render(s) \/ Answer(s) \/ Forget(s)
  PROVE  QuestionInvariant'
<1>t. /\ task[s] \in Task /\ TaskInvariant(task[s]) /\ phase \in [Docs -> Phase]
      /\ filter \in [Sessions -> SUBSET Docs] /\ cards \in [Sessions -> SUBSET SUBSET Docs]
      /\ forgotten \in [Sessions -> SUBSET Docs]
  BY DEF QuestionInvariant, AnswerTypeOK
<1>1. /\ UNCHANGED <<phase, owner, pipeline>>
      /\ filter' \in [Sessions -> SUBSET Docs] /\ cards' \in [Sessions -> SUBSET SUBSET Docs]
      /\ forgotten' \in [Sessions -> SUBSET Docs]
  <2>1. CASE Render(s)
    <3>1. Ready \in SUBSET Docs
      BY DEF Ready
    <3> QED
      BY <1>t, <2>1, <3>1 DEF Render, documents
  <2>2. CASE Answer(s)
    <3>1. cards[s] \cup ({task[s].cited} \ {{}}) \in SUBSET SUBSET Docs
      BY <1>t DEF Task
    <3> QED
      BY <1>t, <2>2, <3>1 DEF Answer, documents
  <2>3. CASE Forget(s)
    <3>1. /\ WithoutMessagesCiting(cards[s], task[s].removed) \in SUBSET SUBSET Docs
          /\ forgotten[s] \cup task[s].removed \in SUBSET Docs
      BY <1>t DEF Task, WithoutMessagesCiting
    <3> QED
      BY <1>t, <2>3, <3>1 DEF Forget, documents
  <2> QED
    BY <2>1, <2>2, <2>3
<1>2. Gone' = Gone
  BY <1>1 DEF Gone
<1>3. CASE Render(s)
  BY <1>1, <1>2, <1>3 DEF Render, QuestionInvariant, AnswerTypeOK, TaskInvariant
<1>4. CASE Stop(s)
  <2>1. TaskInvariant(Idle)'
    BY IdleIsSound, <1>2 DEF TaskInvariant, Idle
  <2> QED
    BY <1>t, <1>1, <1>2, <1>4, <2>1, IdleIsSound, SessionMoves DEF Stop
<1> QED
  BY <1>3, <1>4 DEF Answer, Forget

(* The deletion of documents by a session: its own task forgets them next. *)
LEMMA DeleteIsSound ==
  ASSUME QuestionInvariant, NEW s \in Sessions, Delete(s)
  PROVE  QuestionInvariant'
<1>t. /\ task[s] \in Task /\ TaskInvariant(task[s]) /\ phase \in [Docs -> Phase]
      /\ task[s].pc = "delete"
  BY DEF QuestionInvariant, AnswerTypeOK, Delete, At
<1>1. CASE Stop(s) /\ UNCHANGED phase
  BY <1>1, TaskStops DEF Delete, documents, session
<1>2. ASSUME NEW chosen \in SUBSET Kept, Remove(chosen),
             task' = [task EXCEPT ![s].pc = "forget", ![s].removed = chosen]
      PROVE  QuestionInvariant'
  <2>0. chosen \in SUBSET Docs
    BY DEF Kept
  <2>1. [task[s] EXCEPT !.pc = "forget", !.removed = chosen] \in Task
    BY <1>t, <2>0 DEF Task, Pc
  <2>r. PICK t \in Task : t = [task[s] EXCEPT !.pc = "forget", !.removed = chosen]
    BY <2>1
  <2>2. /\ t.pc = "forget"
        /\ t.candidates = task[s].candidates /\ t.evidence = task[s].evidence
        /\ t.cited = task[s].cited /\ t.relevant = task[s].relevant
        /\ t.selected = task[s].selected /\ t.removed = chosen
    BY <1>t, <2>r DEF Task
  <2>3. task' = [task EXCEPT ![s] = t]
    BY <1>2, <2>r
  <2>4. phase' \in [Docs -> Phase] /\ Gone \subseteq Gone' /\ chosen \subseteq Gone'
    <3>1. chosen \subseteq Gone'
      BY <1>2, <2>0 DEF Remove, Gone
    <3> QED
      BY <1>t, <1>2, <2>0, <3>1, GoneForGood
  <2>5. UNCHANGED <<owner, pipeline, filter, cards, forgotten>>
    BY DEF Delete, session
  <2>6. TaskInvariant(t)'
    BY <1>t, <2>2, <2>4 DEF TaskInvariant, Unsearched
  <2> QED
    BY <2>3, <2>4, <2>5, <2>6, SessionMoves DEF QuestionInvariant, AnswerTypeOK
<1> QED
  BY <1>1, <1>2 DEF Delete

-----------------------------------------------------------------------------
(* Every behaviour.                                                        *)

(* Every step keeps the invariant.                                         *)
LEMMA QuestionsStaySound ==
  QuestionInvariant /\ [AnswerNext]_answerVars => QuestionInvariant'
<1> SUFFICES ASSUME QuestionInvariant, [AnswerNext]_answerVars
             PROVE  QuestionInvariant'
  OBVIOUS
<1>1. CASE Indexing
  BY <1>1, IndexingIsApart
<1>2. ASSUME NEW s \in Sessions, Render(s) \/ Ask(s) \/ StartDelete(s) \/ Question(s) \/ Deletion(s)
      PROVE  QuestionInvariant'
  <2>1. CASE Render(s) \/ Answer(s) \/ Forget(s)
    BY <2>1, ShowingIsSound
  <2>2. CASE Ask(s) \/ Owners(s) \/ List(s)
    BY <2>2, AskingIsSound
  <2>3. CASE StartDelete(s) \/ CheckDelete(s) \/ Search(s) \/ EmbedQuery(s)
    BY <2>3, TaskStops, TaskGoes DEF StartDelete, CheckDelete, Search, EmbedQuery, At
  <2>4. CASE Candidates(s) \/ Lexical(s)
    BY <2>4, SearchIsSound
  <2>5. CASE Rank(s)
    BY <2>5, RankIsSound
  <2>6. CASE Generate(s)
    BY <2>6, GenerateIsSound
  <2>7. CASE Delete(s)
    BY <2>7, DeleteIsSound
  <2> QED
    BY <1>2, <2>1, <2>2, <2>3, <2>4, <2>5, <2>6, <2>7 DEF Question, Deletion
<1>3. CASE UNCHANGED answerVars
  BY <1>3 DEF answerVars, QuestionInvariant, AnswerTypeOK, TaskInvariant, Gone
<1> QED
  BY <1>1, <1>2, <1>3 DEF AnswerNext

(* It holds in every behaviour.                                            *)
LEMMA QuestionsAreSound == AnswerSpec => []QuestionInvariant
<1>1. AnswerInit => QuestionInvariant
  BY IdleIsSound DEF AnswerInit, QuestionInvariant, AnswerTypeOK, Phase
<1> QED
  BY <1>1, QuestionsStaySound, PTL DEF AnswerSpec

(* No question cites what had been deleted before it was asked.            *)
THEOREM TheDeletedAreNotCited == AnswerSpec => []DeletedIsNotCited
<1>1. QuestionInvariant => DeletedIsNotCited
  BY DEF QuestionInvariant, TaskInvariant, DeletedIsNotCited
<1> QED
  BY <1>1, QuestionsAreSound, PTL

(* A question with a filter is answered from the selection.                *)
THEOREM TheSelectionIsRespected == AnswerSpec => []SelectionIsRespected
<1>1. QuestionInvariant => SelectionIsRespected
  BY DEF QuestionInvariant, TaskInvariant, SelectionIsRespected
<1> QED
  BY <1>1, QuestionsAreSound, PTL

(* What is cited was a candidate, beside one above the minimum score.      *)
THEOREM CitationsHaveEvidence == AnswerSpec => []CitationNeedsEvidence
<1>1. QuestionInvariant => CitationNeedsEvidence
  BY DEF QuestionInvariant, TaskInvariant, CitationNeedsEvidence
<1> QED
  BY <1>1, QuestionsAreSound, PTL

-----------------------------------------------------------------------------
(* What a session shows.                                                   *)

(* The steps of a question, from its look at the owners to its message.    *)
Asking == {"owners", "list", "search", "embed", "candidates", "lexical", "rank",
           "generate", "answer"}

(* What a session has forgotten is gone and not shown, and was removed     *)
(* before any question that the session is asking.                         *)
ForgottenBy(s) ==
  /\ forgotten[s] \subseteq Gone
  /\ filter[s] \cap forgotten[s] = {}
  /\ \A m \in cards[s] : m \cap forgotten[s] = {}
  /\ task[s].pc \in Asking => forgotten[s] \subseteq task[s].removed

(* A step that changes nothing of what the session shows, and asks no new  *)
(* question.                                                               *)
LEMMA ShowsTheSame ==
  ASSUME NEW s \in Sessions, ForgottenBy(s), Gone \subseteq Gone',
         filter'[s] = filter[s], cards'[s] = cards[s], forgotten'[s] = forgotten[s],
         task'[s].pc \in Asking =>
           task[s].pc \in Asking /\ task'[s].removed = task[s].removed
  PROVE  ForgottenBy(s)'
BY DEF ForgottenBy

(* What a session does not do itself leaves it alone, and what is gone     *)
(* stays gone.                                                             *)
LEMMA StepsAreApart ==
  ASSUME QuestionInvariant, [AnswerNext]_answerVars
  PROVE  /\ Gone \subseteq Gone'
         /\ \/ UNCHANGED <<filter, cards, forgotten, task>>
            \/ \E x \in Sessions :
                 /\ Render(x) \/ Ask(x) \/ StartDelete(x) \/ Question(x) \/ Deletion(x)
                 /\ \A y \in Sessions \ {x} :
                      /\ filter'[y] = filter[y] /\ cards'[y] = cards[y]
                      /\ forgotten'[y] = forgotten[y] /\ task'[y] = task[y]
<1>t. /\ task \in [Sessions -> Task] /\ filter \in [Sessions -> SUBSET Docs]
      /\ cards \in [Sessions -> SUBSET SUBSET Docs]
      /\ forgotten \in [Sessions -> SUBSET Docs] /\ phase \in [Docs -> Phase]
  BY DEF QuestionInvariant, AnswerTypeOK
<1>1. CASE UNCHANGED answerVars
  BY <1>1 DEF answerVars, Gone
<1>2. CASE Indexing
  <2>1. UNCHANGED <<filter, cards, forgotten, task>>
    BY <1>2 DEF Indexing, ClaimPipeline, ReleasePipeline, Begin, Complete, Abort, Ingest,
       Claim, session
  <2>2. CASE UNCHANGED phase
    BY <2>1, <2>2 DEF Gone
  <2>3. CASE Begin
    <3>1. {owner} \in SUBSET Docs /\ Withdraw({owner})
      BY <2>3 DEF Begin, Ready
    <3> QED
      BY <1>t, <2>1, <3>1, GoneForGood
  <2>4. CASE Complete
    <3>1. owner \in Docs /\ Publish(owner)
      BY <2>4 DEF Complete, QuestionInvariant, AnswerTypeOK
    <3> QED
      BY <1>t, <2>1, <3>1, GoneForGood
  <2>5. ASSUME NEW d \in Docs, Ingest(d) PROVE Gone \subseteq Gone'
    BY <1>t, <2>5, GoneForGood DEF Ingest
  <2> QED
    BY <1>2, <2>1, <2>2, <2>3, <2>4, <2>5
       DEF Indexing, ClaimPipeline, ReleasePipeline, Abort, Claim
<1>3. ASSUME NEW x \in Sessions,
             Render(x) \/ Ask(x) \/ StartDelete(x) \/ Question(x) \/ Deletion(x)
      PROVE  /\ Gone \subseteq Gone'
             /\ \A y \in Sessions \ {x} :
                  /\ filter'[y] = filter[y] /\ cards'[y] = cards[y]
                  /\ forgotten'[y] = forgotten[y] /\ task'[y] = task[y]
  <2>1. \A y \in Sessions \ {x} :
          filter'[y] = filter[y] /\ cards'[y] = cards[y] /\ forgotten'[y] = forgotten[y]
    <3>1. CASE Render(x) \/ Answer(x) \/ Forget(x)
      BY <1>t, <3>1 DEF Render, Answer, Forget
    <3>2. CASE ~(Render(x) \/ Answer(x) \/ Forget(x))
      BY <1>3, <3>2 DEF Ask, StartDelete, Question, Deletion, Owners, List, Search, EmbedQuery,
         Candidates, Lexical, Rank, Generate, CheckDelete, Delete, session
    <3> QED
      BY <3>1, <3>2
  <2>2. \A y \in Sessions \ {x} : task'[y] = task[y]
    BY <1>t, <1>3 DEF Render, Ask, StartDelete, Question, Deletion, Owners, List, Search,
       EmbedQuery, Candidates, Lexical, Rank, Generate, Answer, CheckDelete, Delete,
       Forget, Goto, Stop
  <2>3. Gone \subseteq Gone'
    <3>1. CASE UNCHANGED phase
      BY <3>1 DEF Gone
    <3>2. ASSUME NEW chosen \in SUBSET Kept, Remove(chosen) PROVE Gone \subseteq Gone'
      BY <1>t, <3>2, GoneForGood DEF Kept
    <3> QED
      BY <1>3, <3>1, <3>2 DEF Render, Ask, StartDelete, Question, Deletion, Owners, List,
         Search, EmbedQuery, Candidates, Lexical, Rank, Generate, Answer, CheckDelete,
         Delete, Forget, documents
  <2> QED
    BY <2>1, <2>2, <2>3
<1> QED
  BY <1>1, <1>2, <1>3 DEF AnswerNext

(* The session's own steps: a render offers what is Ready, an answer cites *)
(* what was not removed before the question, and Forget cleans both.       *)
LEMMA OwnStepsForget ==
  ASSUME QuestionInvariant, NEW s \in Sessions, ForgottenBy(s), Gone \subseteq Gone',
         Render(s) \/ Ask(s) \/ StartDelete(s) \/ Question(s) \/ Deletion(s)
  PROVE  ForgottenBy(s)'
<1>t. /\ task \in [Sessions -> Task] /\ task[s] \in Task /\ TaskInvariant(task[s])
      /\ filter \in [Sessions -> SUBSET Docs] /\ cards \in [Sessions -> SUBSET SUBSET Docs]
      /\ forgotten \in [Sessions -> SUBSET Docs]
  BY DEF QuestionInvariant, AnswerTypeOK
<1>s. Stop(s) => task'[s].pc = "idle"
  BY <1>t DEF Stop, Idle
<1>g. \A pc : Goto(s, pc) => task'[s].pc = pc /\ task'[s].removed = task[s].removed
  BY <1>t DEF Goto, Task
<1>i. "idle" \notin Asking /\ "confirmed" \notin Asking /\ "delete" \notin Asking
      /\ "forget" \notin Asking
  BY DEF Asking
<1>1. CASE Render(s)
  <2>1. PICK selection \in SUBSET (Ready \ {owner}) :
          filter' = [filter EXCEPT ![s] = selection]
    BY <1>1 DEF Render
  <2>2. filter'[s] \cap Gone = {}
    BY <1>t, <2>1 DEF Ready, Gone
  <2> QED
    BY <1>1, <2>2 DEF Render, ForgottenBy
<1>2. CASE Ask(s)
  <2>1. task'[s].removed = Gone
    BY <1>t, <1>2 DEF Ask, Idle
  <2> QED
    BY <1>2, <2>1 DEF Ask, session, ForgottenBy
<1>3. CASE Answer(s)
  <2>1. task[s].cited \cap forgotten[s] = {}
    BY <1>t, <1>3 DEF Answer, At, ForgottenBy, Asking, TaskInvariant
  <2>2. cards'[s] = cards[s] \cup ({task[s].cited} \ {{}})
    BY <1>t, <1>3 DEF Answer
  <2>3. UNCHANGED <<filter, forgotten>> /\ task'[s].pc = "idle"
    BY <1>3, <1>s DEF Answer
  <2> QED
    BY <1>i, <2>1, <2>2, <2>3 DEF ForgottenBy
<1>4. CASE Forget(s)
  <2>1. /\ filter'[s] = filter[s] \ task[s].removed
        /\ cards'[s] = {m \in cards[s] : m \cap task[s].removed = {}}
        /\ forgotten'[s] = forgotten[s] \cup task[s].removed
        /\ task'[s].pc = "idle"
    BY <1>t, <1>4, <1>s DEF Forget, WithoutMessagesCiting
  <2>2. task[s].removed \subseteq Gone
    BY <1>t DEF TaskInvariant
  <2> QED
    BY <1>i, <2>1, <2>2 DEF ForgottenBy
<1>5. CASE StartDelete(s) \/ CheckDelete(s) \/ Search(s) \/ EmbedQuery(s)
  <2>1. UNCHANGED <<filter, cards, forgotten>>
    BY <1>5 DEF StartDelete, CheckDelete, Search, EmbedQuery, session
  <2>2. task'[s].pc \in Asking => task[s].pc \in Asking /\ task'[s].removed = task[s].removed
    BY <1>5, <1>s, <1>g, <1>i DEF StartDelete, CheckDelete, Search, EmbedQuery, At, Asking
  <2> QED
    BY <2>1, <2>2, ShowsTheSame
<1>6. CASE Owners(s) \/ List(s) \/ Candidates(s) \/ Lexical(s) \/ Rank(s) \/ Generate(s)
  <2>1. UNCHANGED <<filter, cards, forgotten>>
    BY <1>6 DEF Owners, List, Candidates, Lexical, Rank, Generate, session
  <2>2. task[s].pc \in Asking
    BY <1>6 DEF Owners, List, Candidates, Lexical, Rank, Generate, At, Asking
  <2>3. Stop(s) \/ task'[s].removed = task[s].removed
    <3>1. CASE Owners(s) \/ List(s) \/ Candidates(s)
      BY <1>t, <3>1 DEF Owners, List, Candidates, Task
    <3>2. CASE Lexical(s)
      BY <1>t, <3>2 DEF Lexical, Task
    <3>3. CASE Rank(s)
      <4>1. PICK pc, relevant, evidence :
              task' = [task EXCEPT ![s].pc = pc, ![s].relevant = relevant,
                                   ![s].evidence = evidence]
        BY <3>3 DEF Rank
      <4> QED
        BY <1>t, <4>1 DEF Task
    <3>4. CASE Generate(s)
      BY <1>t, <3>4 DEF Generate, Task
    <3> QED
      BY <1>6, <3>1, <3>2, <3>3, <3>4
  <2> QED
    BY <1>s, <1>i, <2>1, <2>2, <2>3, ShowsTheSame
<1>7. CASE Delete(s)
  <2>1. UNCHANGED <<filter, cards, forgotten>>
    BY <1>7 DEF Delete, session
  <2>2. task'[s].pc \in {"forget", "idle"}
    BY <1>t, <1>7, <1>s DEF Delete, Task
  <2> QED
    BY <1>i, <2>1, <2>2, ShowsTheSame
<1> QED
  BY <1>1, <1>2, <1>3, <1>4, <1>5, <1>6, <1>7 DEF Question, Deletion

(* A session that has deleted documents and cleaned up shows nothing of    *)
(* them in any later state: neither the cards of a later answer nor the    *)
(* filter of a later render names one.                                     *)
THEOREM TheDeletedAreForgotten == AnswerSpec => []OwnCardsAreForgotten
<1> DEFINE Forgotten == \A s \in Sessions : ForgottenBy(s)
<1>1. AnswerInit => Forgotten
  BY DEF AnswerInit, ForgottenBy
<1>2. QuestionInvariant /\ Forgotten /\ [AnswerNext]_answerVars => Forgotten'
  <2> SUFFICES ASSUME QuestionInvariant, Forgotten, [AnswerNext]_answerVars, NEW s \in Sessions
               PROVE  ForgottenBy(s)'
    OBVIOUS
  <2>1. Gone \subseteq Gone'
    BY StepsAreApart
  <2>2. CASE UNCHANGED <<filter, cards, forgotten, task>>
    BY <2>1, <2>2, ShowsTheSame
  <2>3. ASSUME NEW x \in Sessions,
               Render(x) \/ Ask(x) \/ StartDelete(x) \/ Question(x) \/ Deletion(x),
               \A y \in Sessions \ {x} :
                 /\ filter'[y] = filter[y] /\ cards'[y] = cards[y]
                 /\ forgotten'[y] = forgotten[y] /\ task'[y] = task[y]
        PROVE  ForgottenBy(s)'
    <3>1. CASE x = s
      BY <2>1, <2>3, <3>1, OwnStepsForget
    <3>2. CASE x # s
      BY <2>1, <2>3, <3>2, ShowsTheSame
    <3> QED
      BY <3>1, <3>2
  <2> QED
    BY <2>2, <2>3, StepsAreApart
<1>3. Forgotten => OwnCardsAreForgotten
  BY DEF ForgottenBy, OwnCardsAreForgotten
<1> HIDE DEF Forgotten
<1> QED
  BY <1>1, <1>2, <1>3, QuestionsAreSound, PTL DEF AnswerSpec
=============================================================================
