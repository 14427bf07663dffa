-------------------------- MODULE UiSessionProofs --------------------------
(***************************************************************************)
(* One browser session, for any number of script threads, selections,      *)
(* questions and mutations: a selection is processed at most once, and an  *)
(* operation begins beside another one only when that one is stale.        *)
(***************************************************************************)
EXTENDS UiSession, TLAPS

(* What the current run has read of the session is still so: nobody else   *)
(* writes the selection, its token or its count.                           *)
CurrentIsUpToDate ==
  /\ At(current, "register") => run[current].file = chosen
  /\ At(current, "forget") => chosen = Nothing
  /\ run[current].pc \in {"process", "status"} =>
       /\ run[current].file \in Files /\ token = run[current].file
       /\ processed[run[current].file] = 0

(* Only what the user selected is registered or processed.                 *)
SelectedOnly ==
  /\ {chosen, token} \subseteq made \cup {Nothing}
  /\ \A f \in Files : processed[f] > 0 => f \in made

(* A selection that was processed has its token as long as the uploader    *)
(* shows it.                                                               *)
ProcessedIsRegistered ==
  \A f \in Files : processed[f] > 0 => processed[f] = 1 /\ (chosen = f => token = f)

SelectionInvariant == CurrentIsUpToDate /\ SelectedOnly /\ ProcessedIsRegistered

(* The operation of a run that is at work is active, or became old while   *)
(* the run worked.                                                         *)
WorkIsMarked ==
  \A t \in Threads :
    run[t].pc \in Working \cup {"status"} /\ operation.owner = t
      => operation.status = "active" \/ operation.old

-----------------------------------------------------------------------------
(* Types.                                                                  *)

(* A thread goes on with another run record.                               *)
Moves(t, r) == run' = [run EXCEPT ![t] = r]

(* What the user and the other sessions do keeps the types,                *)
LEMMA UserTypes ==
  ASSUME TypeOK, User \/ Elsewhere \/ Grows \/ CalmsDown
  PROVE  TypeOK'
<1>1. ASSUME NEW q \in Requests \cup {Nothing}, StartsRun(q) PROVE run' \in [Threads -> Run] /\ current' \in Threads
  <2>1. PICK t \in Threads : current' = t /\ run' = [run EXCEPT ![t] = [Idle EXCEPT !.pc = "initialize", !.request = q]]
    BY <1>1 DEF StartsRun
  <2>2. [Idle EXCEPT !.pc = "initialize", !.request = q] \in Run
    BY DEF Idle, Run, Pc
  <2> QED
    BY <2>1, <2>2 DEF TypeOK
<1>2. ASSUME NEW f, Select(f) PROVE TypeOK'
  <2>1. run' \in [Threads -> Run] /\ current' \in Threads
    BY <1>1, <1>2 DEF Select
  <2> QED
    BY <1>2, <2>1 DEF Select, TypeOK, ghosts, Requests
<1>3. ASSUME NEW r, Click(r) PROVE TypeOK'
  <2>1. run' \in [Threads -> Run] /\ current' \in Threads
    BY <1>1, <1>3 DEF Click, Requests
  <2> QED
    BY <1>3, <2>1 DEF Click, TypeOK, ghosts, state, Requests
<1>4. CASE Elsewhere
  BY <1>4 DEF Elsewhere, TypeOK, ghosts, state
<1>5. CASE Grows
  <2>1. operation' \in Operation
    BY <1>5 DEF Grows, TypeOK, Operation
  <2> QED
    BY <1>5, <2>1 DEF Grows, TypeOK, ghosts
<1>6. CASE CalmsDown
  BY <1>6 DEF CalmsDown, TypeOK, state
<1> QED
  BY <1>2, <1>3, <1>4, <1>5, <1>6 DEF User

(* and so does each step of a run.                                         *)
LEMMA StepTypes ==
  ASSUME TypeOK, NEW t \in Threads, Step(t)
  PROVE  TypeOK'
<1>0. run[t] \in Run /\ operation \in Operation
  BY DEF TypeOK
<1>1. ASSUME NEW pc \in Pc, Goto(t, pc) PROVE run' \in [Threads -> Run]
  BY <1>0, <1>1 DEF Goto, TypeOK, Run
<1>2. Idle \in Run /\ [Idle EXCEPT !.pc = "initialize"] \in Run
  BY DEF Idle, Run, Pc
<1>3. Stops(t) \/ Restarts(t) => run' \in [Threads -> Run]
  BY <1>2 DEF Stops, Restarts, TypeOK
<1>4. ASSUME NEW r \in Run, Moves(t, r) PROVE run' \in [Threads -> Run]
  BY <1>4 DEF Moves, TypeOK
<1>5. \A pc \in {"idle", "initialize", "pop", "show", "uploader", "register", "process",
                 "status", "claim", "upload", "upload_end", "upload_release", "reset", "forget",
                 "click", "mutation", "mutation_end", "mutation_rerun", "mutation_rest", "chat",
                 "question", "question_end"} : Goto(t, pc) => run' \in [Threads -> Run]
  BY <1>1 DEF Pc
<1>6. ASSUME NEW ok \in BOOLEAN, EndOperation(t, ok) PROVE operation' \in Operation
  BY <1>0, <1>6 DEF EndOperation, Operation, Status
<1>7. BeginOperation(t) => operation' \in Operation
  BY DEF BeginOperation, Operation, Status
<1>8. RecoverStaleOperation => operation' \in Operation
  BY <1>0 DEF RecoverStaleOperation, Operation, Status
<1>9. run[t].ok \in BOOLEAN /\ run[t].file \in Files \cup {Nothing}
  BY <1>0 DEF Run
<1>10. CASE Initialize(t)
  <2>1. operation' \in Operation
    BY <1>8, <1>10 DEF Initialize
  <2>2. run' \in [Threads -> Run]
    BY <1>5, <1>10 DEF Initialize
  <2> QED
    BY <1>10, <2>1, <2>2 DEF Initialize, TypeOK, ghosts
<1>11. CASE RenderFlashNotice(t)
  <2>1. run' \in [Threads -> Run]
    BY <1>0, <1>11 DEF RenderFlashNotice, TypeOK, Run, Pc
  <2> QED
    BY <1>11, <2>1 DEF RenderFlashNotice, PopNotice, TypeOK, ghosts
<1>12. CASE Show(t)
  <2>1. run' \in [Threads -> Run]
    BY <1>0, <1>12 DEF Show, TypeOK, Run, Pc
  <2>2. shown' \in [Requests -> 0..2]
    BY <1>12 DEF Show, TypeOK
  <2> QED
    BY <1>12, <2>1, <2>2 DEF Show, TypeOK, state
<1>13. CASE Uploader(t)
  <2>1. (OperationIsActive \/ IndexingActive) \in BOOLEAN
    BY DEF OperationIsActive, IndexingActive, TypeOK
  <2>2. chosen \in Files \cup {Nothing} /\ "register" \in Pc
    BY DEF TypeOK, Pc
  <2>3. run' \in [Threads -> Run]
    <3> DEFINE b == OperationIsActive \/ IndexingActive
    <3>1. run' = [run EXCEPT ![t] = [run[t] EXCEPT !.pc = "register", !.file = chosen, !.blocked = b]]
      BY <1>0, <1>13 DEF Uploader, TypeOK
    <3>2. b \in BOOLEAN
      BY <2>1
    <3> HIDE DEF b
    <3>3. [run[t] EXCEPT !.pc = "register", !.file = chosen, !.blocked = b] \in Run
      BY <1>0, <2>2, <3>2 DEF Run
    <3> QED
      BY <3>1, <3>3 DEF TypeOK
  <2> QED
    BY <1>13, <2>3 DEF Uploader, TypeOK, ghosts, state
<1>14. CASE Register(t)
  <2>1. run' \in [Threads -> Run]
    BY <1>0, <1>5, <1>14 DEF Register, TypeOK, Run, Pc
  <2>2. chosen' \in Files \cup {Nothing} /\ token' \in Files \cup {Nothing}
    BY <1>9, <1>14 DEF Register, TypeOK
  <2> QED
    BY <1>14, <2>1, <2>2 DEF Register, TypeOK, ghosts
<1>15. CASE Process(t)
  <2>1. run' \in [Threads -> Run]
    BY <1>0, <1>5, <1>15 DEF Process, TypeOK, Run, Pc
  <2>2. operation' \in Operation
    BY <1>0, <1>7, <1>15 DEF Process
  <2> QED
    BY <1>15, <2>1, <2>2 DEF Process, TypeOK, ghosts
<1>16. CASE UploadStatus(t)
  <2>1. run' \in [Threads -> Run]
    BY <1>5, <1>16 DEF UploadStatus
  <2>2. processed' \in [Files -> 0..2]
    <3>1. PICK f : f = run[t].file
      OBVIOUS
    <3>2. processed' = [processed EXCEPT ![f] = IF processed[f] < 2 THEN processed[f] + 1 ELSE processed[f]]
      BY <1>16, <3>1 DEF UploadStatus
    <3>3. CASE f \in Files
      BY <3>2, <3>3 DEF TypeOK
    <3>4. CASE f \notin Files
      BY <3>2, <3>4 DEF TypeOK
    <3> QED
      BY <3>3, <3>4
  <2> QED
    BY <1>16, <2>1, <2>2 DEF UploadStatus, TypeOK, state
<1>17. CASE ClaimPipeline(t)
  <2>1. run' \in [Threads -> Run]
    BY <1>5, <1>17 DEF ClaimPipeline
  <2> QED
    BY <1>17, <2>1 DEF ClaimPipeline, TypeOK, state, ghosts
<1>18. ASSUME NEW ok \in BOOLEAN, NEW pc \in Pc, run' = [run EXCEPT ![t].pc = pc, ![t].ok = ok]
       PROVE  run' \in [Threads -> Run]
  BY <1>0, <1>18 DEF TypeOK, Run
<1>19. CASE Upload(t)
  <2>1. run' \in [Threads -> Run]
    BY <1>18, <1>19 DEF Upload, Pc
  <2> QED
    BY <1>19, <2>1 DEF Upload, TypeOK, state, ghosts
<1>20. CASE UploadEnds(t)
  <2>1. run' \in [Threads -> Run]
    BY <1>5, <1>20 DEF UploadEnds
  <2>2. notice' \in Requests \cup {Nothing}
    BY <1>9, <1>20 DEF UploadEnds, Requests
  <2> QED
    BY <1>20, <2>1, <2>2 DEF UploadEnds, TypeOK, ghosts
<1>21. CASE ReleaseUpload(t)
  <2>1. run' \in [Threads -> Run]
    BY <1>5, <1>21 DEF ReleaseUpload
  <2>2. operation' \in Operation
    BY <1>6, <1>9, <1>21 DEF ReleaseUpload
  <2> QED
    BY <1>21, <2>1, <2>2 DEF ReleaseUpload, TypeOK, ghosts
<1>22. CASE ResetRevision(t)
  <2>1. run' \in [Threads -> Run]
    BY <1>5, <1>22 DEF ResetRevision
  <2> QED
    BY <1>22, <2>1 DEF ResetRevision, TypeOK, ghosts
<1>23. CASE ForgetToken(t)
  <2>1. run' \in [Threads -> Run]
    BY <1>3, <1>23 DEF ForgetToken
  <2> QED
    BY <1>23, <2>1 DEF ForgetToken, TypeOK, ghosts
<1>24. CASE ClickOrRest(t)
  <2>1. run' \in [Threads -> Run]
    BY <1>5, <1>24 DEF ClickOrRest
  <2>2. operation' \in Operation
    BY <1>0, <1>7, <1>24 DEF ClickOrRest
  <2> QED
    BY <1>24, <2>1, <2>2 DEF ClickOrRest, TypeOK, ghosts
<1>25. CASE Mutation(t)
  <2>1. run' \in [Threads -> Run]
    BY <1>18, <1>25 DEF Mutation, Pc
  <2> QED
    BY <1>25, <2>1 DEF Mutation, TypeOK, state, ghosts
<1>26. CASE MutationEnds(t)
  <2>1. run' \in [Threads -> Run]
    BY <1>5, <1>26 DEF MutationEnds
  <2>2. notice' \in Requests \cup {Nothing}
    BY <1>0, <1>26 DEF MutationEnds, TypeOK, Run
  <2> QED
    BY <1>26, <2>1, <2>2 DEF MutationEnds, TypeOK, ghosts
<1>27. CASE ReleaseMutation(t)
  <2>1. run' \in [Threads -> Run]
    BY <1>3, <1>5, <1>27 DEF ReleaseMutation
  <2>2. operation' \in Operation
    BY <1>6, <1>9, <1>27 DEF ReleaseMutation
  <2> QED
    BY <1>27, <2>1, <2>2 DEF ReleaseMutation, TypeOK, ghosts
<1>28. CASE ChatInput(t)
  <2>1. run' \in [Threads -> Run]
    BY <1>3, <1>5, <1>28 DEF ChatInput
  <2>2. operation' \in Operation
    BY <1>0, <1>7, <1>28 DEF ChatInput
  <2> QED
    BY <1>28, <2>1, <2>2 DEF ChatInput, TypeOK, ghosts
<1>29. CASE Question(t)
  <2>1. run' \in [Threads -> Run]
    BY <1>18, <1>29 DEF Question, Pc
  <2> QED
    BY <1>29, <2>1 DEF Question, TypeOK, state, ghosts
<1>30. CASE QuestionEnds(t)
  <2>1. run' \in [Threads -> Run]
    BY <1>3, <1>30 DEF QuestionEnds
  <2>2. operation' \in Operation
    BY <1>6, <1>9, <1>30 DEF QuestionEnds
  <2> QED
    BY <1>30, <2>1, <2>2 DEF QuestionEnds, TypeOK, ghosts
<1>31. CASE Interrupted(t)
  <2>1. run' \in [Threads -> Run]
    BY <1>3, <1>31 DEF Interrupted
  <2> QED
    BY <1>31, <2>1 DEF Interrupted, TypeOK, state, ghosts
<1> QED
  BY <1>10, <1>11, <1>12, <1>13, <1>14, <1>15, <1>16, <1>17, <1>19, <1>20, <1>21, <1>22,
     <1>23, <1>24, <1>25, <1>26, <1>27, <1>28, <1>29, <1>30, <1>31 DEF Step, UploadStep

-----------------------------------------------------------------------------
(* Selections.                                                             *)

(* Where a run is after each of the ways to go on.                         *)
LEMMA NextPlaces ==
  ASSUME TypeOK, NEW t \in Threads
  PROVE  /\ \A pc : Goto(t, pc) =>
              /\ run'[t].pc = pc /\ run'[t].file = run[t].file
              /\ \A u \in Threads \ {t} : run'[u] = run[u]
         /\ Stops(t) => run'[t].pc = "idle" /\ \A u \in Threads \ {t} : run'[u] = run[u]
         /\ Restarts(t) => run'[t].pc = "initialize" /\ \A u \in Threads \ {t} : run'[u] = run[u]
         /\ \A pc, ok : run' = [run EXCEPT ![t].pc = pc, ![t].ok = ok] =>
              run'[t].pc = pc /\ \A u \in Threads \ {t} : run'[u] = run[u]
         /\ \A pc, file : run' = [run EXCEPT ![t].pc = pc, ![t].file = file] =>
              run'[t].pc = pc /\ \A u \in Threads \ {t} : run'[u] = run[u]
<1>1. run \in [Threads -> Run] /\ run[t] \in Run
  BY DEF TypeOK
<1>2. ASSUME NEW pc, Goto(t, pc)
      PROVE  /\ run'[t].pc = pc /\ run'[t].file = run[t].file
             /\ \A u \in Threads \ {t} : run'[u] = run[u]
  BY <1>1, <1>2 DEF Goto, Run
<1>3. Stops(t) => run'[t].pc = "idle" /\ \A u \in Threads \ {t} : run'[u] = run[u]
  BY <1>1 DEF Stops, Idle
<1>4. Restarts(t) => run'[t].pc = "initialize" /\ \A u \in Threads \ {t} : run'[u] = run[u]
  BY <1>1 DEF Restarts, Idle
<1>5. ASSUME NEW pc, NEW ok, run' = [run EXCEPT ![t].pc = pc, ![t].ok = ok]
      PROVE  run'[t].pc = pc /\ \A u \in Threads \ {t} : run'[u] = run[u]
  BY <1>1, <1>5 DEF Run
<1>6. ASSUME NEW pc, NEW file, run' = [run EXCEPT ![t].pc = pc, ![t].file = file]
      PROVE  run'[t].pc = pc /\ \A u \in Threads \ {t} : run'[u] = run[u]
  BY <1>1, <1>6 DEF Run
<1> QED
  BY <1>2, <1>3, <1>4, <1>5, <1>6

Uploading == {"register", "process", "status", "reset", "forget"}

(* Steps away from the uploader.                                           *)
FarStep(t) ==
  \/ Initialize(t) \/ RenderFlashNotice(t) \/ Show(t) \/ ClaimPipeline(t) \/ Upload(t)
  \/ UploadEnds(t) \/ ReleaseUpload(t) \/ ClickOrRest(t) \/ Mutation(t) \/ MutationEnds(t)
  \/ ReleaseMutation(t) \/ ChatInput(t) \/ Question(t) \/ QuestionEnds(t) \/ Interrupted(t)

(* They leave the selection alone and do not come near it.                 *)
LEMMA FarSteps ==
  ASSUME TypeOK, NEW t \in Threads, FarStep(t)
  PROVE  /\ UNCHANGED <<chosen, token, made, processed, current>>
         /\ run'[t].pc \notin {"register", "process", "status", "forget"}
         /\ \A u \in Threads \ {t} : run'[u] = run[u]
<1>1. UNCHANGED <<chosen, token, made, processed, current>>
  BY DEF FarStep, Initialize, RenderFlashNotice, Show, ClaimPipeline, Upload, UploadEnds,
     ReleaseUpload, ClickOrRest, Mutation, MutationEnds, ReleaseMutation, ChatInput, Question,
     QuestionEnds, Interrupted, state, ghosts
<1> DEFINE Far == /\ run'[t].pc \notin {"register", "process", "status", "forget"}
                  /\ \A u \in Threads \ {t} : run'[u] = run[u]
           Places == {"pop", "upload_end", "upload", "upload_release", "reset", "mutation", "chat",
                      "mutation_end", "mutation_rerun", "mutation_rest", "question", "question_end"}
<1>2. \A pc \in Places : Goto(t, pc) => Far
  BY NextPlaces
<1>3. Stops(t) \/ Restarts(t) => Far
  BY NextPlaces
<1>4. \A pc \in Places, ok \in BOOLEAN : run' = [run EXCEPT ![t].pc = pc, ![t].ok = ok] => Far
  BY NextPlaces
<1>5. CASE RenderFlashNotice(t)
  <2>1. run' = [run EXCEPT ![t] = [run[t] EXCEPT !.pc = "show", !.told = notice]]
    BY <1>5 DEF RenderFlashNotice, TypeOK, Run
  <2> QED
    BY <1>1, <2>1 DEF TypeOK, Run
<1>6. CASE Show(t)
  <2>1. run' = [run EXCEPT ![t] = [run[t] EXCEPT !.pc = "uploader", !.told = Nothing]]
    BY <1>6 DEF Show, TypeOK, Run
  <2> QED
    BY <1>1, <2>1 DEF TypeOK, Run
<1>7. CASE Initialize(t) \/ ClaimPipeline(t) \/ UploadEnds(t) \/ ReleaseUpload(t)
  <2>1. \E pc \in Places : Goto(t, pc)
    BY <1>7 DEF Initialize, ClaimPipeline, UploadEnds, ReleaseUpload
  <2> QED
    BY <1>1, <1>2, <2>1
<1>8. CASE Upload(t) \/ Mutation(t) \/ Question(t)
  <2>1. \E pc \in Places, ok \in BOOLEAN : run' = [run EXCEPT ![t].pc = pc, ![t].ok = ok]
    BY <1>8 DEF Upload, Mutation, Question
  <2> QED
    BY <1>1, <1>4, <2>1
<1>9. CASE ClickOrRest(t) \/ MutationEnds(t) \/ ReleaseMutation(t)
  <2>1. Restarts(t) \/ \E pc \in Places : Goto(t, pc)
    BY <1>9 DEF ClickOrRest, MutationEnds, ReleaseMutation
  <2> QED
    BY <1>1, <1>2, <1>3, <2>1
<1>10. CASE ChatInput(t) \/ QuestionEnds(t) \/ Interrupted(t)
  <2>1. Stops(t) \/ \E pc \in Places : Goto(t, pc)
    BY <1>10 DEF ChatInput, QuestionEnds, Interrupted
  <2> QED
    BY <1>1, <1>2, <1>3, <2>1
<1> QED
  BY <1>1, <1>5, <1>6, <1>7, <1>8, <1>9, <1>10 DEF FarStep

(* A step that leaves the selection alone and does not come near it.       *)
LEMMA FarKeeps ==
  ASSUME TypeOK, SelectionInvariant, NEW t \in Threads,
         UNCHANGED <<chosen, token, made, processed, current>>,
         run'[t].pc \notin {"register", "process", "status", "forget"},
         \A u \in Threads \ {t} : run'[u] = run[u]
  PROVE  SelectionInvariant'
<1>1. CurrentIsUpToDate'
  <2>1. CASE current = t
    BY <2>1 DEF CurrentIsUpToDate, At
  <2>2. CASE current # t
    <3>1. run'[current] = run[current]
      BY <2>2 DEF TypeOK
    <3> QED
      BY <3>1 DEF SelectionInvariant, CurrentIsUpToDate, At
  <2> QED
    BY <2>1, <2>2
<1>2. SelectedOnly' /\ ProcessedIsRegistered'
  BY DEF SelectionInvariant, SelectedOnly, ProcessedIsRegistered
<1> QED
  BY <1>1, <1>2 DEF SelectionInvariant

(* The steps at the uploader, which only the current run takes.            *)
LEMMA UploaderKeeps ==
  ASSUME TypeOK, SelectionInvariant, NEW t \in Threads,
         \/ Uploader(t) \/ Register(t) \/ Process(t) \/ UploadStatus(t)
         \/ ResetRevision(t) \/ ForgetToken(t)
  PROVE  SelectionInvariant'
<1>0. t = current /\ current' = current /\ made' = made
  BY DEF Uploader, Register, Process, UploadStatus, ResetRevision, ForgetToken, ghosts, state
<1>1. /\ run \in [Threads -> Run] /\ run[t] \in Run /\ Nothing \notin Files
      /\ token \in Files \cup {Nothing} /\ chosen \in Files \cup {Nothing}
      /\ processed \in [Files -> 0..2]
  BY NothingAssumption DEF TypeOK
<1>2. /\ At(t, "register") => run[t].file = chosen
      /\ At(t, "forget") => chosen = Nothing
      /\ run[t].pc \in {"process", "status"} =>
           /\ run[t].file \in Files /\ token = run[t].file
           /\ processed[run[t].file] = 0
  BY <1>0 DEF SelectionInvariant, CurrentIsUpToDate
<1>3. SelectedOnly /\ ProcessedIsRegistered
  BY DEF SelectionInvariant
<1>4. CASE Uploader(t)
  <2>1. run'[t].file = chosen /\ run'[t].pc = "register"
    BY <1>1, <1>4 DEF Uploader, Run
  <2>2. UNCHANGED <<chosen, token, processed>>
    BY <1>4 DEF Uploader, ghosts, state
  <2> QED
    BY <1>0, <1>3, <2>1, <2>2
       DEF SelectionInvariant, CurrentIsUpToDate, At, SelectedOnly, ProcessedIsRegistered
<1>5. CASE Register(t)
  <2>0. processed' = processed /\ run[t].file = chosen
    BY <1>2, <1>5 DEF Register, ghosts
  <2>1. CASE chosen \notin {Nothing, token} /\ ~run[t].blocked
    <3>1. token' = chosen /\ chosen' = chosen /\ Goto(t, "process")
      BY <1>5, <2>0, <2>1 DEF Register
    <3>2. run'[t].pc = "process" /\ run'[t].file = chosen
      BY <2>0, <3>1, NextPlaces
    <3>3. chosen \in Files /\ processed[chosen] = 0
      BY <1>1, <1>3, <2>1 DEF ProcessedIsRegistered
    <3>4. CurrentIsUpToDate'
      BY <1>0, <2>0, <3>1, <3>2, <3>3 DEF CurrentIsUpToDate, At
    <3>5. SelectedOnly'
      BY <1>0, <1>3, <2>0, <3>1 DEF SelectedOnly
    <3>6. ProcessedIsRegistered'
      BY <1>3, <2>0, <3>1 DEF ProcessedIsRegistered
    <3> QED
      BY <3>4, <3>5, <3>6 DEF SelectionInvariant
  <2>2. CASE ~(chosen \notin {Nothing, token} /\ ~run[t].blocked)
    <3>1. \/ UNCHANGED <<chosen, token>>
          \/ chosen' = Nothing /\ token' = Nothing
      BY <1>5, <2>0, <2>2 DEF Register
    <3>2. \/ Goto(t, "click")
          \/ run' = [run EXCEPT ![t].pc = "click", ![t].file = Nothing]
      BY <1>5, <2>0, <2>2 DEF Register
    <3>3. run'[t].pc = "click"
      BY <3>2, NextPlaces
    <3>4. CurrentIsUpToDate'
      BY <1>0, <3>3 DEF CurrentIsUpToDate, At
    <3>5. SelectedOnly' /\ ProcessedIsRegistered'
      BY <1>0, <1>1, <1>3, <2>0, <3>1 DEF SelectedOnly, ProcessedIsRegistered
    <3> QED
      BY <3>4, <3>5 DEF SelectionInvariant
  <2> QED
    BY <2>1, <2>2
<1>6. CASE Process(t)
  <2>1. UNCHANGED <<chosen, token, processed>> /\ At(t, "process")
    BY <1>6 DEF Process, ghosts
  <2>2. \/ run'[t].pc = "status" /\ run'[t].file = run[t].file
        \/ run'[t].pc = "click"
    BY <1>6, NextPlaces DEF Process
  <2>3. CurrentIsUpToDate'
    BY <1>0, <1>2, <2>1, <2>2 DEF CurrentIsUpToDate, At
  <2>4. SelectedOnly' /\ ProcessedIsRegistered'
    BY <1>0, <1>3, <2>1 DEF SelectedOnly, ProcessedIsRegistered
  <2> QED
    BY <2>3, <2>4 DEF SelectionInvariant
<1>7. CASE UploadStatus(t)
  <2>1. PICK f : f = run[t].file
    OBVIOUS
  <2>2. f \in Files /\ token = f /\ processed[f] = 0
    BY <1>2, <1>7, <2>1 DEF UploadStatus, At
  <2>3. processed' = [processed EXCEPT ![f] = 1] /\ UNCHANGED <<chosen, token>>
    BY <1>1, <1>7, <2>1, <2>2 DEF UploadStatus, state
  <2>4. run'[t].pc = "claim"
    BY <1>7, NextPlaces DEF UploadStatus
  <2>5. CurrentIsUpToDate'
    BY <1>0, <2>4 DEF CurrentIsUpToDate, At
  <2>6. f \in made
    BY <1>1, <1>3, <2>2 DEF SelectedOnly
  <2>7. SelectedOnly'
    BY <1>0, <1>1, <1>3, <2>3, <2>6 DEF SelectedOnly
  <2>8. ProcessedIsRegistered'
    BY <1>1, <1>3, <2>2, <2>3 DEF ProcessedIsRegistered
  <2> QED
    BY <2>5, <2>7, <2>8 DEF SelectionInvariant
<1>8. CASE ResetRevision(t)
  <2>1. chosen' = Nothing /\ UNCHANGED <<token, processed>> /\ run'[t].pc = "forget"
    BY <1>8, NextPlaces DEF ResetRevision, ghosts
  <2>2. CurrentIsUpToDate'
    BY <1>0, <2>1 DEF CurrentIsUpToDate, At
  <2>3. SelectedOnly' /\ ProcessedIsRegistered'
    BY <1>0, <1>1, <1>3, <2>1 DEF SelectedOnly, ProcessedIsRegistered
  <2> QED
    BY <2>2, <2>3 DEF SelectionInvariant
<1>9. CASE ForgetToken(t)
  <2>1. /\ token' = Nothing /\ UNCHANGED <<chosen, processed>> /\ run'[t].pc = "initialize"
        /\ chosen = Nothing
    BY <1>2, <1>9, NextPlaces DEF ForgetToken, ghosts
  <2>2. CurrentIsUpToDate'
    BY <1>0, <2>1 DEF CurrentIsUpToDate, At
  <2>3. SelectedOnly' /\ ProcessedIsRegistered'
    BY <1>0, <1>1, <1>3, <2>1 DEF SelectedOnly, ProcessedIsRegistered
  <2> QED
    BY <2>2, <2>3 DEF SelectionInvariant
<1> QED
  BY <1>4, <1>5, <1>6, <1>7, <1>8, <1>9

(* An event of the user: the new run is at the top, whatever the others do. *)
LEMMA UserKeeps ==
  ASSUME TypeOK, SelectionInvariant, User
  PROVE  SelectionInvariant'
<1>1. ASSUME NEW q, StartsRun(q) PROVE run'[current'].pc = "initialize"
  BY <1>1 DEF StartsRun, TypeOK, Idle
<1>2. run'[current'].pc = "initialize"
  BY <1>1 DEF User, Select, Click
<1>3. CurrentIsUpToDate'
  BY <1>2 DEF CurrentIsUpToDate, At
<1>4. processed' = processed /\ token' = token
  BY DEF User, Select, Click, ghosts, state
<1>5. ASSUME NEW f, Select(f) PROVE SelectedOnly' /\ ProcessedIsRegistered'
  <2>1. f \in Files \ made /\ chosen' = f /\ made' = made \cup {f}
    BY <1>5 DEF Select
  <2>2. processed[f] = 0
    BY <2>1 DEF SelectionInvariant, SelectedOnly, TypeOK
  <2> QED
    BY <1>4, <2>1, <2>2 DEF SelectionInvariant, SelectedOnly, ProcessedIsRegistered
<1>6. ASSUME NEW r, Click(r) PROVE SelectedOnly' /\ ProcessedIsRegistered'
  <2>1. chosen' = chosen /\ made \subseteq made'
    BY <1>6 DEF Click, state
  <2> QED
    BY <1>4, <2>1 DEF SelectionInvariant, SelectedOnly, ProcessedIsRegistered
<1> QED
  BY <1>3, <1>5, <1>6 DEF User, SelectionInvariant

(* At the beginning nothing is selected.                                   *)
LEMMA UiInit == Init => TypeOK /\ SelectionInvariant /\ WorkIsMarked
<1> SUFFICES ASSUME Init PROVE TypeOK /\ SelectionInvariant /\ WorkIsMarked
  OBVIOUS
<1>1. Idle \in Run /\ NoOperation \in Operation
  BY DEF Idle, Run, Pc, NoOperation, Operation, Status
<1>2. TypeOK
  <2>1. processed \in [Files -> 0..2] /\ shown \in [Requests -> 0..2]
    BY DEF Init
  <2>2. calm \in BOOLEAN /\ elsewhere \in BOOLEAN
    BY DEF Init
  <2>3. run \in [Threads -> Run] /\ operation \in Operation
    BY <1>1 DEF Init
  <2>4. /\ token \in Files \cup {Nothing} /\ notice \in Requests \cup {Nothing}
        /\ chosen \in Files \cup {Nothing} /\ current \in Threads /\ made \subseteq Requests
    BY DEF Init
  <2> QED
    BY <2>1, <2>2, <2>3, <2>4 DEF TypeOK
<1>3. SelectionInvariant
  BY NothingAssumption DEF Init, SelectionInvariant, CurrentIsUpToDate, SelectedOnly,
     ProcessedIsRegistered, At, Idle
<1>4. WorkIsMarked
  BY DEF Init, WorkIsMarked, Idle, Working
<1> QED
  BY <1>2, <1>3, <1>4

(* The types and the invariant of selections hold in every reachable state. *)
LEMMA SelectionInvariantAlways == Spec => [](TypeOK /\ SelectionInvariant)
<1>1. TypeOK /\ SelectionInvariant /\ [Next]_vars => TypeOK' /\ SelectionInvariant'
  <2> SUFFICES ASSUME TypeOK, SelectionInvariant, [Next]_vars
               PROVE  TypeOK' /\ SelectionInvariant'
    OBVIOUS
  <2>1. CASE UNCHANGED vars
    BY <2>1 DEF vars, TypeOK, SelectionInvariant, CurrentIsUpToDate, SelectedOnly,
       ProcessedIsRegistered, At
  <2>2. CASE User
    BY <2>2, UserTypes, UserKeeps
  <2>3. CASE Elsewhere \/ Grows \/ CalmsDown
    <3>1. UNCHANGED <<chosen, token, made, processed, current, run>>
      BY <2>3 DEF Elsewhere, Grows, CalmsDown, state, ghosts
    <3>2. SelectionInvariant'
      BY <3>1 DEF SelectionInvariant, CurrentIsUpToDate, SelectedOnly, ProcessedIsRegistered, At
    <3> QED
      BY <2>3, <3>2, UserTypes
  <2>4. ASSUME NEW t \in Threads, Step(t) PROVE TypeOK' /\ SelectionInvariant'
    <3>1. TypeOK'
      BY <2>4, StepTypes
    <3>2. CASE FarStep(t)
      BY <3>1, <3>2, FarSteps, FarKeeps
    <3>3. CASE ~FarStep(t)
      BY <3>1, <2>4, <3>3, UploaderKeeps DEF FarStep, Step, UploadStep
    <3> QED
      BY <3>1, <3>2, <3>3
  <2> QED
    BY <2>1, <2>2, <2>3, <2>4 DEF Next
<1> QED
  BY <1>1, UiInit, PTL DEF Spec

(* Every reachable state of a session has the types declared.              *)
THEOREM SessionTypesCorrect == Spec => []TypeOK
BY SelectionInvariantAlways, PTL

(* However many runs of a session work beside each other and wherever they *)
(* are interrupted, a selection is processed at most once.                 *)
THEOREM SelectionIsProcessedOnce == Spec => []ProcessedOnce
<1>1. TypeOK /\ SelectionInvariant => ProcessedOnce
  <2> SUFFICES ASSUME TypeOK, SelectionInvariant, NEW f \in Files PROVE processed[f] <= 1
    BY DEF ProcessedOnce
  <2>1. processed[f] \in 0..2 /\ (processed[f] > 0 => processed[f] = 1)
    BY DEF TypeOK, SelectionInvariant, ProcessedIsRegistered
  <2> QED
    BY <2>1
<1> QED
  BY <1>1, SelectionInvariantAlways, PTL

-----------------------------------------------------------------------------
(* Operations.                                                             *)

(* The steps that begin an operation, which ask before.                    *)
Begins(t) == CanStart /\ BeginOperation(t)

(* At work, or about to be with an operation of its own.                   *)
Busy(r) == r.pc \in Working \cup {"status"}

(* What a step does to the operation and to the place of its thread.       *)
KeepsOperation(t) ==
  /\ operation' = operation
  /\ Busy(run'[t]) => Busy(run[t]) /\ run[t].pc \notin {"process", "click", "chat"}

Recovers(t) == RecoverStaleOperation /\ ~Busy(run'[t])
Ends(t) == (\E ok \in BOOLEAN : EndOperation(t, ok)) /\ ~Busy(run'[t])

(* Each step of a thread is of one of these kinds.                         *)
LEMMA OperationSteps ==
  ASSUME TypeOK, NEW t \in Threads, Step(t)
  PROVE  /\ \A u \in Threads \ {t} : run'[u] = run[u]
         /\ KeepsOperation(t) \/ Recovers(t) \/ Ends(t) \/ Begins(t)
<1> DEFINE Apart == \A u \in Threads \ {t} : run'[u] = run[u]
           Goal == Apart /\ (KeepsOperation(t) \/ Recovers(t) \/ Ends(t) \/ Begins(t))
           EndsIt == \E ok \in BOOLEAN : EndOperation(t, ok)
           Away == {"pop", "upload_end", "upload_release", "reset", "chat", "forget", "process", "click",
                    "mutation_end", "mutation_rerun", "mutation_rest", "question_end", "upload"}
<1>0. run[t].ok \in BOOLEAN
  BY DEF TypeOK, Run
<1>1. \A pc : Goto(t, pc) => Apart /\ run'[t].pc = pc
  BY NextPlaces
<1>b. /\ \A pc \in (Away \ {"upload"}) \cup {"idle", "initialize", "show", "uploader", "register"} :
           run'[t].pc = pc => ~Busy(run'[t])
      /\ \A pc \in {"status", "claim"} : run[t].pc = pc =>
           Busy(run[t]) /\ run[t].pc \notin {"process", "click", "chat"}
  BY DEF Busy, Working
<1>2. \A pc \in Away \ {"upload"} : Goto(t, pc) => Apart /\ ~Busy(run'[t])
  BY <1>1, <1>b
<1>3. Stops(t) \/ Restarts(t) => Apart /\ ~Busy(run'[t])
  BY <1>b, NextPlaces
<1>4. ASSUME NEW pc \in Away \ {"upload"}, NEW ok, run' = [run EXCEPT ![t].pc = pc, ![t].ok = ok]
      PROVE  Apart /\ ~Busy(run'[t])
  <2>1. run'[t].pc = pc /\ Apart
    BY <1>4, NextPlaces
  <2> QED
    BY <1>b, <2>1
<1>5. ASSUME run' = [run EXCEPT ![t].pc = "click", ![t].file = Nothing]
      PROVE  Apart /\ ~Busy(run'[t])
  <2>1. run'[t].pc = "click" /\ Apart
    BY <1>5, NextPlaces
  <2> QED
    BY <1>b, <2>1
<1>6. Apart /\ ~Busy(run'[t]) /\ operation' = operation => Goal
  BY DEF KeepsOperation
<1>7. Apart /\ ~Busy(run'[t]) /\ EndsIt => Goal
  BY DEF Ends
<1>10. CASE Initialize(t)
  <2>1. RecoverStaleOperation /\ Goto(t, "pop")
    BY <1>10 DEF Initialize
  <2>2. Apart /\ ~Busy(run'[t])
    BY <1>2, <2>1
  <2> QED
    BY <2>1, <2>2 DEF Recovers
<1>11. CASE RenderFlashNotice(t)
  <2>1. run' = [run EXCEPT ![t] = [run[t] EXCEPT !.pc = "show", !.told = notice]]
    BY <1>11 DEF RenderFlashNotice, TypeOK, Run
  <2>2. Apart /\ run'[t].pc = "show"
    BY <2>1 DEF TypeOK, Run
  <2>3. Apart /\ ~Busy(run'[t]) /\ operation' = operation
    BY <1>b, <1>11, <2>2 DEF RenderFlashNotice
  <2> QED
    BY <1>6, <2>3
<1>12. CASE Show(t)
  <2>1. run' = [run EXCEPT ![t] = [run[t] EXCEPT !.pc = "uploader", !.told = Nothing]]
    BY <1>12 DEF Show, TypeOK, Run
  <2>2. Apart /\ run'[t].pc = "uploader"
    BY <2>1 DEF TypeOK, Run
  <2>3. Apart /\ ~Busy(run'[t]) /\ operation' = operation
    BY <1>b, <1>12, <2>2 DEF Show, state
  <2> QED
    BY <1>6, <2>3
<1>13. CASE Uploader(t)
  <2>1. Apart /\ run'[t].pc = "register"
    BY <1>13 DEF Uploader, TypeOK, Run
  <2>2. Apart /\ ~Busy(run'[t]) /\ operation' = operation
    BY <1>b, <1>13, <2>1 DEF Uploader, state
  <2> QED
    BY <1>6, <2>2
<1>14. CASE Register(t)
  <2>1. \/ Goto(t, "click") \/ Goto(t, "process")
        \/ run' = [run EXCEPT ![t].pc = "click", ![t].file = Nothing]
    BY <1>14 DEF Register
  <2>2. operation' = operation
    BY <1>14 DEF Register
  <2> QED
    BY <1>2, <1>5, <1>6, <2>1, <2>2
<1>15. CASE Process(t)
  <2>1. CASE CanStart
    BY <1>1, <1>15, <2>1 DEF Process, Begins
  <2>2. CASE ~CanStart
    <3>1. operation' = operation /\ run' = [run EXCEPT ![t].pc = "click", ![t].file = Nothing]
      BY <1>15, <2>2 DEF Process
    <3> QED
      BY <1>5, <1>6, <3>1
  <2> QED
    BY <2>1, <2>2
<1>16. CASE UploadStatus(t) \/ ClaimPipeline(t)
  <2>1. /\ operation' = operation /\ run[t].pc \in {"status", "claim"}
        /\ \E pc : Goto(t, pc)
    BY <1>16 DEF UploadStatus, ClaimPipeline, state, At
  <2> QED
    BY <1>1, <1>b, <2>1 DEF KeepsOperation
<1>17. CASE Upload(t) \/ Mutation(t) \/ Question(t)
  <2>1. /\ operation' = operation
        /\ \E pc \in Away \ {"upload"}, ok \in BOOLEAN : run' = [run EXCEPT ![t].pc = pc, ![t].ok = ok]
    BY <1>17 DEF Upload, Mutation, Question, state
  <2> QED
    BY <1>4, <1>6, <2>1
<1>18. CASE UploadEnds(t) \/ ResetRevision(t) \/ MutationEnds(t)
  <2>1. operation' = operation /\ \E pc \in Away \ {"upload"} : Goto(t, pc)
    BY <1>18 DEF UploadEnds, ResetRevision, MutationEnds
  <2> QED
    BY <1>2, <1>6, <2>1
<1>19. CASE ForgetToken(t) \/ Interrupted(t)
  <2>1. operation' = operation /\ (Stops(t) \/ Restarts(t))
    BY <1>19 DEF ForgetToken, Interrupted, state
  <2> QED
    BY <1>3, <1>6, <2>1
<1>20. CASE ReleaseUpload(t)
  <2>1. EndsIt /\ Goto(t, "reset")
    BY <1>0, <1>20 DEF ReleaseUpload
  <2> QED
    BY <1>2, <1>7, <2>1
<1>21. CASE ReleaseMutation(t)
  <2>1. EndsIt
    BY <1>0, <1>21 DEF ReleaseMutation
  <2>2. Restarts(t) \/ Goto(t, "chat")
    BY <1>21 DEF ReleaseMutation
  <2> QED
    BY <1>2, <1>3, <1>7, <2>1, <2>2
<1>22. CASE QuestionEnds(t)
  <2>1. EndsIt /\ Stops(t)
    BY <1>0, <1>22 DEF QuestionEnds
  <2> QED
    BY <1>3, <1>7, <2>1
<1>23. CASE ClickOrRest(t)
  <2>1. \/ Begins(t) /\ Goto(t, "mutation")
        \/ operation' = operation /\ Goto(t, "chat")
    BY <1>23 DEF ClickOrRest, Begins
  <2> QED
    BY <1>1, <1>2, <1>6, <2>1
<1>24. CASE ChatInput(t)
  <2>1. \/ Begins(t) /\ Goto(t, "question")
        \/ operation' = operation /\ Stops(t)
    BY <1>24 DEF ChatInput, Begins
  <2> QED
    BY <1>1, <1>3, <1>6, <2>1
<1> QED
  BY <1>10, <1>11, <1>12, <1>13, <1>14, <1>15, <1>16, <1>17, <1>18, <1>19, <1>20, <1>21,
     <1>22, <1>23, <1>24 DEF Step, UploadStep

(* A run's own operation stays marked while it works.                      *)
LEMMA MarksKept ==
  ASSUME TypeOK, WorkIsMarked, [Next]_vars
  PROVE  WorkIsMarked'
<1> SUFFICES ASSUME NEW u \in Threads, Busy(run'[u]), operation'.owner = u
             PROVE  operation'.status = "active" \/ operation'.old
  BY DEF WorkIsMarked, Busy
<1>0. operation \in Operation
  BY DEF TypeOK
<1>1. Busy(run[u]) /\ operation.owner = u => operation.status = "active" \/ operation.old
  BY DEF WorkIsMarked, Busy
<1>2. CASE operation' = operation /\ run'[u] = run[u]
  BY <1>1, <1>2
<1>3. CASE User
  <2>1. operation' = operation
    BY <1>3 DEF User, Select, Click, state
  <2>2. ASSUME NEW q, StartsRun(q) PROVE run'[u] = run[u]
    <3>1. PICK t \in Threads : run' = [run EXCEPT ![t] = [Idle EXCEPT !.pc = "initialize", !.request = q]]
      BY <2>2 DEF StartsRun
    <3>2. t # u
      BY <3>1 DEF TypeOK, Idle, Busy, Working
    <3> QED
      BY <3>1, <3>2 DEF TypeOK
  <2>3. run'[u] = run[u]
    BY <1>3, <2>2 DEF User, Select, Click
  <2> QED
    BY <1>2, <2>1, <2>3
<1>4. CASE Elsewhere \/ CalmsDown
  BY <1>2, <1>4 DEF Elsewhere, CalmsDown, state
<1>5. CASE Grows
  <2>1. run' = run /\ operation'.old
    BY <1>0, <1>5 DEF Grows, Operation
  <2> QED
    BY <2>1
<1>6. ASSUME NEW t \in Threads, Step(t) PROVE operation'.status = "active" \/ operation'.old
  <2>1. \A x \in Threads \ {t} : run'[x] = run[x]
    BY <1>6, OperationSteps
  <2>2. CASE KeepsOperation(t)
    <3>1. Busy(run[u])
      BY <2>1, <2>2 DEF KeepsOperation
    <3> QED
      BY <1>1, <2>2, <3>1 DEF KeepsOperation
  <2>3. CASE Recovers(t)
    <3>1. Busy(run[u])
      BY <2>1, <2>3 DEF Recovers
    <3>2. CASE operation.status = "active" /\ operation.old
      BY <1>0, <2>3, <3>2 DEF Recovers, RecoverStaleOperation, Operation
    <3>3. CASE ~(operation.status = "active" /\ operation.old)
      <4>1. operation' = operation
        BY <2>3, <3>3 DEF Recovers, RecoverStaleOperation
      <4> QED
        BY <1>1, <3>1, <4>1
    <3> QED
      BY <3>2, <3>3
  <2>4. CASE Ends(t)
    <3>1. Busy(run[u]) /\ u # t
      BY <2>1, <2>4 DEF Ends
    <3>2. operation' = operation
      <4>1. PICK ok \in BOOLEAN : EndOperation(t, ok)
        BY <2>4 DEF Ends
      <4>2. operation.owner = t => operation'.owner = t
        BY <1>0, <4>1 DEF EndOperation, Operation
      <4> QED
        BY <3>1, <4>1, <4>2 DEF EndOperation
    <3> QED
      BY <1>1, <3>1, <3>2
  <2>5. CASE Begins(t)
    BY <2>5 DEF Begins, BeginOperation
  <2> QED
    BY <1>6, <2>2, <2>3, <2>4, <2>5, OperationSteps
<1>7. CASE UNCHANGED vars
  BY <1>2, <1>7 DEF vars
<1> QED
  BY <1>3, <1>4, <1>5, <1>6, <1>7 DEF Next

(* However many runs of a session work beside each other: an operation     *)
(* begins beside the work of another run only when the stale interval of   *)
(* that run's operation has passed.                                        *)
THEOREM OperationsOverlapOnlyWhenStale == Spec => OverlapOnlyWhenStale
<1>1. TypeOK /\ WorkIsMarked /\ [Next]_vars => WorkIsMarked'
  BY MarksKept
<1>2. ASSUME TypeOK, WorkIsMarked, [Next]_vars, NEW t \in Threads,
             run[t].pc \in {"process", "click", "chat"}, Busy(run'[t]),
             NEW u \in AtWork \ {t}, operation.owner = u
      PROVE  operation.old
  <2>0. run'[t] # run[t]
    BY <1>2 DEF Busy, Working
  <2>1. Begins(t)
    <3>1. CASE UNCHANGED vars \/ Elsewhere \/ Grows \/ CalmsDown
      <4>1. run' = run
        BY <3>1 DEF vars, Elsewhere, Grows, CalmsDown, state
      <4> QED
        BY <2>0, <4>1
    <3>2. CASE User
      <4>1. ASSUME NEW q, StartsRun(q) PROVE run'[t] = run[t] \/ run'[t].pc = "initialize"
        BY <1>2, <4>1 DEF StartsRun, TypeOK, Idle
      <4>2. run'[t] = run[t] \/ run'[t].pc = "initialize"
        BY <3>2, <4>1 DEF User, Select, Click
      <4> QED
        BY <1>2, <2>0, <4>2 DEF Busy, Working
    <3>3. ASSUME NEW x \in Threads, Step(x) PROVE Begins(t)
      <4>1. x = t
        BY <1>2, <2>0, <3>3, OperationSteps
      <4>2. ~KeepsOperation(t) /\ ~Recovers(t) /\ ~Ends(t)
        BY <1>2 DEF KeepsOperation, Recovers, Ends
      <4> QED
        BY <1>2, <3>3, <4>1, <4>2, OperationSteps
    <3> QED
      BY <1>2, <3>1, <3>2, <3>3 DEF Next
  <2>2. operation.status = "active" \/ operation.old
    BY <1>2 DEF WorkIsMarked, AtWork
  <2>3. ~(operation.status = "active" /\ ~operation.old)
    BY <2>1 DEF Begins, CanStart, OperationIsActive
  <2> QED
    BY <2>2, <2>3
<1>3. TypeOK /\ WorkIsMarked /\ [Next]_vars =>
        [\A t \in Threads :
           run[t].pc \in {"process", "click", "chat"} /\ run'[t].pc \in Working \cup {"status"}
             => \A u \in AtWork \ {t} : operation.owner = u => operation.old]_vars
  BY <1>2 DEF Busy
<1> QED
  BY <1>1, <1>3, UiInit, SelectionInvariantAlways, PTL DEF Spec, OverlapOnlyWhenStale
=============================================================================
