----------------------------- MODULE UiSession -----------------------------
(***************************************************************************)
(* One browser session: the state that its script runs share, and the runs *)
(* themselves from top to bottom.  Every action of the user starts a new   *)
(* run; the run before it stops at its next call of Streamlit or access to *)
(* the session state, and until then it works on beside the new one.       *)
(*                                                                         *)
(* A step is what a run does between two such points.                      *)
(***************************************************************************)
EXTENDS Naturals

CONSTANTS
  Threads,    \* script threads of the session
  Files,      \* selections in the uploader, each with a file_id of its own
  Questions,  \* prompts that the user submits
  Mutations,  \* clicks on delete, clear all, re-index or retry
  Nothing     \* None

ASSUME NothingAssumption == Nothing \notin Files \cup Questions \cup Mutations

VARIABLES
  operation,  \* ACTIVE_OPERATION
  token,      \* LAST_UPLOAD_SELECTION_TOKEN
  notice,     \* FLASH_NOTICE: the request whose outcome it tells
  chosen,     \* the file in the uploader of the current widget revision
  run,        \* the script threads
  current,    \* the thread that Streamlit has not asked to stop
  made,       \* requests the user has made
  elsewhere,  \* another session is indexing
  calm,       \* from here on the user waits and no other session indexes
  processed,  \* ghost: how often each file went to process_and_index
  shown       \* ghost: how often the outcome of a request was shown

vars == <<operation, token, notice, chosen, run, current, made, elsewhere, calm,
          processed, shown>>

state == <<operation, token, notice, chosen>>
ghosts == <<calm, processed, shown>>

Requests == Files \cup Questions \cup Mutations

Status == {"none", "active", "completed", "failed", "stale"}

(* old: more than OPERATION_STALE_SECONDS have passed since it started.    *)
Operation == [status : Status, owner : Threads \cup {Nothing}, old : BOOLEAN]

NoOperation == [status |-> "none", owner |-> Nothing, old |-> FALSE]

Pc == {"idle", "initialize", "pop", "show", "uploader", "register", "process",
       "status", "claim", "upload", "upload_end",
       "upload_release", "reset", "forget", "click", "mutation", "mutation_end",
       "mutation_rerun", "mutation_rest", "chat", "question", "question_end"}

Run ==
  [pc      : Pc,
   request : Requests \cup {Nothing},  \* the widget event that the run carries
   file    : Files \cup {Nothing},     \* uploaded_file, then the registered one
   blocked : BOOLEAN,                  \* document_operation_active
   ok      : BOOLEAN,                  \* succeeded
   told    : Requests \cup {Nothing}]  \* the notice that was popped

Idle == [pc |-> "idle", request |-> Nothing, file |-> Nothing, blocked |-> FALSE,
         ok |-> FALSE, told |-> Nothing]

At(t, pc) == run[t].pc = pc
Goto(t, pc) == run' = [run EXCEPT ![t].pc = pc]
Stops(t) == run' = [run EXCEPT ![t] = Idle]

(* st.rerun: the same thread starts over, without the widget event. *)
Restarts(t) == run' = [run EXCEPT ![t] = [Idle EXCEPT !.pc = "initialize"]]

(* Work that goes on without the session, whoever has been superseded.     *)
Working == {"claim", "upload", "question", "mutation"}

AtWork == {t \in Threads : run[t].pc \in Working}

(* context.indexing_registry.is_active() *)
IndexingActive == elsewhere \/ \E t \in Threads : At(t, "upload")

-----------------------------------------------------------------------------
(* ui/state.py                                                             *)

OperationIsActive == operation.status = "active" /\ ~operation.old

CanStart == ~OperationIsActive /\ ~IndexingActive

(* Wrong variant: every new run recovers the operation that it finds. *)
RecoverAnyOperation ==
  operation' = IF operation.status = "active"
               THEN [operation EXCEPT !.status = "stale"] ELSE operation

RecoverStaleOperation ==
  operation' = IF operation.status = "active" /\ operation.old
               THEN [operation EXCEPT !.status = "stale"] ELSE operation

BeginOperation(t) == operation' = [status |-> "active", owner |-> t, old |-> FALSE]

(* Wrong variant: it is released only where the work succeeds. *)
EndAfterSuccess(t, ok) ==
  operation' = IF operation.owner = t /\ ok
               THEN [operation EXCEPT !.status = "completed"] ELSE operation

EndOperation(t, ok) ==
  operation' = IF operation.owner = t
               THEN [operation EXCEPT !.status = IF ok THEN "completed" ELSE "failed"]
               ELSE operation

-----------------------------------------------------------------------------
(* The user and the other sessions.                                        *)

(* Streamlit asks the current run to stop and starts one in another thread. *)
StartsRun(request) ==
  /\ ~calm \/ At(current, "idle")
  /\ \E t \in Threads :
       /\ At(t, "idle")
       /\ current' = t
       /\ run' = [run EXCEPT ![t] = [Idle EXCEPT !.pc = "initialize",
                                                 !.request = request]]

Select(f) ==
  /\ f \in Files \ made
  /\ StartsRun(Nothing)
  /\ chosen' = f /\ made' = made \cup {f}
  /\ UNCHANGED <<operation, token, notice, elsewhere, ghosts>>

Click(r) ==
  /\ r \in (Questions \cup Mutations) \ made
  /\ StartsRun(r)
  /\ made' = made \cup {r}
  /\ UNCHANGED <<state, elsewhere, ghosts>>

Elsewhere ==
  /\ ~calm
  /\ elsewhere \/ ~IndexingActive
  /\ elsewhere' = ~elsewhere
  /\ UNCHANGED <<state, run, current, made, ghosts>>

Grows ==
  /\ operation.status = "active" /\ ~operation.old
  /\ operation' = [operation EXCEPT !.old = TRUE]
  /\ UNCHANGED <<token, notice, chosen, run, current, made, elsewhere, ghosts>>

(* After whatever went before, the user lets the page come to rest and the *)
(* stale interval pass, and is patient from now on.                        *)
CalmsDown ==
  /\ ~calm /\ ~elsewhere /\ ~OperationIsActive
  /\ \A t \in Threads : At(t, "idle")
  /\ chosen = Nothing /\ notice = Nothing
  /\ calm' = TRUE
  /\ UNCHANGED <<state, run, current, made, elsewhere, processed, shown>>

(* A superseded run stops with an exception that is no Exception, and its   *)
(* finally blocks stop at their first access to the session state.          *)
Interrupted(t) ==
  /\ t # current /\ ~At(t, "idle")
  /\ run[t].pc \notin {"claim", "question", "mutation"}
  /\ Stops(t)
  /\ UNCHANGED <<state, current, made, elsewhere, ghosts>>

-----------------------------------------------------------------------------
(* main(), from top to bottom.  Only the current run gets through.         *)

(* Wrong variant: values of the session are replaced by their defaults. *)
InitializeAnew(t) ==
  /\ At(t, "initialize") /\ t = current
  /\ RecoverStaleOperation
  /\ token' = Nothing /\ notice' = Nothing
  /\ Goto(t, "pop")
  /\ UNCHANGED <<chosen, current, made, elsewhere, ghosts>>

Initialize(t) ==
  /\ At(t, "initialize") /\ t = current
  /\ RecoverStaleOperation
  /\ Goto(t, "pop")
  /\ UNCHANGED <<token, notice, chosen, current, made, elsewhere, ghosts>>

PopNotice == notice' = Nothing

RenderFlashNotice(t) ==
  /\ At(t, "pop") /\ t = current
  /\ PopNotice
  /\ run' = [run EXCEPT ![t].pc = "show", ![t].told = notice]
  /\ UNCHANGED <<operation, token, chosen, current, made, elsewhere, ghosts>>

Show(t) ==
  /\ At(t, "show") /\ t = current
  /\ shown' = [r \in Requests |->
                 IF r = run[t].told /\ shown[r] < 2 THEN shown[r] + 1 ELSE shown[r]]
  /\ run' = [run EXCEPT ![t].pc = "uploader", ![t].told = Nothing]
  /\ UNCHANGED <<state, current, made, elsewhere, calm, processed>>

Uploader(t) ==
  /\ At(t, "uploader") /\ t = current
  /\ run' = [run EXCEPT ![t].pc = "register", ![t].file = chosen,
                        ![t].blocked = OperationIsActive \/ IndexingActive]
  /\ UNCHANGED <<state, current, made, elsewhere, ghosts>>

(* register_selected_upload; a blocked selection resets the uploader, and  *)
(* here its two writes are one step.                                       *)
Register(t) ==
  /\ At(t, "register") /\ t = current
  /\ \/ /\ run[t].file = Nothing
        /\ Goto(t, "click") /\ UNCHANGED <<token, chosen>>
     \/ /\ run[t].file # Nothing /\ run[t].blocked
        /\ chosen' = Nothing /\ token' = Nothing
        /\ run' = [run EXCEPT ![t].pc = "click", ![t].file = Nothing]
     \/ /\ run[t].file = token /\ token # Nothing /\ ~run[t].blocked
        /\ run' = [run EXCEPT ![t].pc = "click", ![t].file = Nothing]
        /\ UNCHANGED <<token, chosen>>
     \/ /\ run[t].file \notin {Nothing, token} /\ ~run[t].blocked
        /\ token' = run[t].file
        /\ Goto(t, "process") /\ UNCHANGED chosen
  /\ UNCHANGED <<operation, notice, current, made, elsewhere, ghosts>>

-----------------------------------------------------------------------------
(* _process_selected_upload                                                *)

Process(t) ==
  /\ At(t, "process") /\ t = current
  /\ IF CanStart
     THEN BeginOperation(t) /\ Goto(t, "status")
     ELSE run' = [run EXCEPT ![t].pc = "click", ![t].file = Nothing] /\ UNCHANGED operation
  /\ UNCHANGED <<token, notice, chosen, current, made, elsewhere, ghosts>>

UploadStatus(t) ==
  /\ At(t, "status") /\ t = current
  /\ processed' = [processed EXCEPT ![run[t].file] = IF @ < 2 THEN @ + 1 ELSE @]
  /\ Goto(t, "claim")
  /\ UNCHANGED <<state, current, made, elsewhere, calm, shown>>

(* claim_pipeline raises if another session was faster. *)
ClaimPipeline(t) ==
  /\ At(t, "claim")
  /\ Goto(t, IF IndexingActive THEN "upload_end" ELSE "upload")
  /\ UNCHANGED <<state, current, made, elsewhere, ghosts>>

Upload(t) ==
  /\ At(t, "upload") /\ t = current
  /\ \E ok \in BOOLEAN :
       run' = [run EXCEPT ![t].pc = "upload_end", ![t].ok = ok]
  /\ UNCHANGED <<state, current, made, elsewhere, ghosts>>

(* The notice, of success or failure. *)
UploadEnds(t) ==
  /\ At(t, "upload_end") /\ t = current
  /\ notice' = run[t].file
  /\ Goto(t, "upload_release")
  /\ UNCHANGED <<operation, token, chosen, current, made, elsewhere, ghosts>>

(* The finally block. *)
ReleaseUpload(t) ==
  /\ At(t, "upload_release") /\ t = current
  /\ EndOperation(t, run[t].ok)
  /\ Goto(t, "reset")
  /\ UNCHANGED <<token, notice, chosen, current, made, elsewhere, ghosts>>

(* Wrong variant: the token is released before the revision advances. *)
ResetTokenFirst(t) ==
  /\ At(t, "reset") /\ t = current
  /\ token' = Nothing
  /\ Goto(t, "forget")
  /\ UNCHANGED <<operation, notice, chosen, current, made, elsewhere, ghosts>>

(* reset_upload_widget: with its new key the uploader is empty, and after  *)
(* that the token is released.                                             *)
ResetRevision(t) ==
  /\ At(t, "reset") /\ t = current
  /\ chosen' = Nothing
  /\ Goto(t, "forget")
  /\ UNCHANGED <<operation, token, notice, current, made, elsewhere, ghosts>>

ForgetToken(t) ==
  /\ At(t, "forget") /\ t = current
  /\ token' = Nothing
  /\ Restarts(t)
  /\ UNCHANGED <<operation, notice, chosen, current, made, elsewhere, ghosts>>

-----------------------------------------------------------------------------
(* The buttons of the document list, then the chat input.                  *)

ClickOrRest(t) ==
  /\ At(t, "click") /\ t = current
  /\ IF run[t].request \in Mutations /\ CanStart
     THEN BeginOperation(t) /\ Goto(t, "mutation")
     ELSE UNCHANGED operation /\ Goto(t, "chat")
  /\ UNCHANGED <<token, notice, chosen, current, made, elsewhere, ghosts>>

(* The work of a mutation: a re-index owns its document while it works, and *)
(* here that is part of this step.                                          *)
Mutation(t) ==
  /\ At(t, "mutation")
  /\ \E ok \in BOOLEAN : run' = [run EXCEPT ![t].pc = "mutation_end", ![t].ok = ok]
  /\ UNCHANGED <<state, current, made, elsewhere, ghosts>>

(* Success is told after a rerun, except that of a retry; a failure is     *)
(* rendered at once, except that of a re-index.                            *)
MutationEnds(t) ==
  /\ At(t, "mutation_end") /\ t = current
  /\ \/ notice' = run[t].request /\ Goto(t, "mutation_rerun")
     \/ run[t].ok /\ UNCHANGED notice /\ Goto(t, "mutation_rerun")
     \/ ~run[t].ok /\ UNCHANGED notice /\ Goto(t, "mutation_rest")
  /\ UNCHANGED <<operation, token, chosen, current, made, elsewhere, ghosts>>

(* The finally block, and st.rerun. *)
ReleaseMutation(t) ==
  /\ t = current
  /\ \/ At(t, "mutation_rerun") /\ Restarts(t)
     \/ At(t, "mutation_rest") /\ Goto(t, "chat")
  /\ EndOperation(t, run[t].ok)
  /\ UNCHANGED <<token, notice, chosen, current, made, elsewhere, ghosts>>

ChatInput(t) ==
  /\ At(t, "chat") /\ t = current
  /\ IF run[t].request \in Questions /\ CanStart
     THEN BeginOperation(t) /\ Goto(t, "question")
     ELSE UNCHANGED operation /\ Stops(t)
  /\ UNCHANGED <<token, notice, chosen, current, made, elsewhere, ghosts>>

(* workflow.answer neither calls Streamlit nor looks at the session. *)
Question(t) ==
  /\ At(t, "question")
  /\ \E ok \in BOOLEAN : run' = [run EXCEPT ![t].pc = "question_end", ![t].ok = ok]
  /\ UNCHANGED <<state, current, made, elsewhere, ghosts>>

QuestionEnds(t) ==
  /\ At(t, "question_end") /\ t = current
  /\ EndOperation(t, run[t].ok)
  /\ Stops(t)
  /\ UNCHANGED <<token, notice, chosen, current, made, elsewhere, ghosts>>

-----------------------------------------------------------------------------
Init ==
  /\ operation = NoOperation
  /\ token = Nothing /\ notice = Nothing /\ chosen = Nothing
  /\ run = [t \in Threads |-> Idle]
  /\ current \in Threads
  /\ made = {} /\ elsewhere = FALSE /\ calm = FALSE
  /\ processed = [f \in Files |-> 0]
  /\ shown = [r \in Requests |-> 0]

UploadStep(t) ==
  \/ Process(t) \/ UploadStatus(t) \/ ClaimPipeline(t) \/ Upload(t)
  \/ UploadEnds(t) \/ ReleaseUpload(t) \/ ResetRevision(t) \/ ForgetToken(t)

Step(t) ==
  \/ Initialize(t) \/ RenderFlashNotice(t) \/ Show(t) \/ Uploader(t) \/ Register(t)
  \/ UploadStep(t)
  \/ ClickOrRest(t) \/ Mutation(t) \/ MutationEnds(t) \/ ReleaseMutation(t)
  \/ ChatInput(t) \/ Question(t) \/ QuestionEnds(t)
  \/ Interrupted(t)

User == \E r \in Requests : Select(r) \/ Click(r)

Next == User \/ Elsewhere \/ Grows \/ CalmsDown \/ \E t \in Threads : Step(t)

(* Streamlit runs its threads, and time passes. *)
Fairness == WF_vars(Grows) /\ \A t \in Threads : WF_vars(Step(t))

Spec == Init /\ [][Next]_vars /\ Fairness

-----------------------------------------------------------------------------
TypeOK ==
  /\ operation \in Operation
  /\ token \in Files \cup {Nothing}
  /\ notice \in Requests \cup {Nothing}
  /\ chosen \in Files \cup {Nothing}
  /\ run \in [Threads -> Run]
  /\ current \in Threads
  /\ made \subseteq Requests
  /\ {elsewhere, calm} \subseteq BOOLEAN
  /\ processed \in [Files -> 0..2]
  /\ shown \in [Requests -> 0..2]

(* An ordinary rerun does not restart an upload: a selection is processed  *)
(* at most once, wherever its run was interrupted.                         *)
ProcessedOnce == \A f \in Files : processed[f] <= 1

(* An operation blocks those of later runs until it is released: another   *)
(* one begins beside the work of a superseded run only after the stale     *)
(* interval of that run's operation.                                       *)
OverlapOnlyWhenStale ==
  [][\A t \in Threads :
       run[t].pc \in {"process", "click", "chat"} /\ run'[t].pc \in Working \cup {"status"}
         => \A u \in AtWork \ {t} : operation.owner = u => operation.old]_vars

(* try/finally releases the state of the user interface, and the stale      *)
(* interval does where a run was interrupted: when nobody interferes, a     *)
(* run that starts with a click or a question begins its operation, with    *)
(* whatever success the operations before it ended or were cut off.         *)
ClicksAreCarriedOut ==
  \A t \in Threads, r \in Questions \cup Mutations :
    calm /\ run[t].request = r /\ At(t, "initialize")
      ~> run[t].request = r /\ run[t].pc \in {"question", "mutation"}

(* When nobody interferes, a selection is processed, whatever became of    *)
(* the operations before it.                                               *)
SelectionIsProcessed ==
  \A f \in Files : calm /\ chosen = f ~> processed[f] = 1

(* A notice is rendered exactly once: never twice, however the runs that    *)
(* may pop it are interrupted, and at last, when nobody interferes.         *)
NoticeIsShown ==
  \A r \in Requests : [](shown[r] <= 1) /\ (calm /\ notice = r ~> shown[r] = 1)

(* A blocked selection resets the uploader: no run comes to its end with a *)
(* selection that was registered and not processed.                        *)
BlockedSelectionIsReset ==
  \A t \in Threads :
    At(t, "chat") /\ t = current /\ chosen # Nothing /\ token = chosen
      => processed[chosen] > 0
=============================================================================
