--------------------------- MODULE ModelLifecycle ---------------------------
(***************************************************************************)
(* The local models of GroundNote: one embedding provider that every       *)
(* thread uses without a lock, and two chat providers behind the lock of   *)
(* one ChatModelLifecycle.  The runtime keeps models in memory for other   *)
(* applications too, so a provider records whether it was the one that     *)
(* loaded its model.                                                       *)
(*                                                                         *)
(* A session runs one script thread.  A step is the completion of one call *)
(* to the runtime together with the Python that runs until the next call   *)
(* begins; a method that calls the runtime at most once is one step.       *)
(***************************************************************************)
EXTENDS Naturals, FiniteSets

CONSTANTS
  Sessions,      \* script threads
  Balanced,      \* settings.chat_model
  Fast,          \* settings.fast_chat_model
  Embedding,     \* settings.embedding_model
  NoModel,       \* ChatModelLifecycle._active is None
  Nobody,        \* the lock or the registry has no owner
  Scenarios      \* the settings and environments that are tried

ASSUME ModelsAssumption ==
  /\ Cardinality({Balanced, Fast, Embedding}) = 3
  /\ NoModel \notin {Balanced, Fast, Embedding}
ASSUME NobodyAssumption == Nobody \notin Sessions
OperationKinds == {"question", "upload", "reindex", "unload", "cleanup"}

ModeKinds == {"Balanced", "Fast", "Memory saver"}

Scenario ==
  [users      : SUBSET Sessions,        \* the sessions that do anything
   operations : SUBSET OperationKinds,  \* what they do
   modes      : SUBSET ModeKinds,       \* the performance modes they choose
   keep       : BOOLEAN,                \* settings.keep_models_loaded
   faulty     : BOOLEAN,                \* calls to the runtime may fail
   silent     : BOOLEAN,                \* is_loaded may raise
   others     : BOOLEAN]                \* other applications use it too

ASSUME ScenariosAssumption == Scenarios \subseteq Scenario

VARIABLES
  resident,  \* the runtime: where each model is and who brought it there
  provider,  \* the fields of each provider object that are set
  active,    \* ChatModelLifecycle._active
  lock,      \* owner of ChatModelLifecycle._lock between steps
  loaded,    \* EmbeddingService._loaded
  indexer,   \* the session whose indexing owns the registry
  warm,      \* sessions with a LAST_MODEL_ACTIVITY_AT
  job,       \* what each session is doing
  scenario   \* the settings and the environment, which do not change

vars == <<resident, provider, active, lock, loaded, indexer, warm, job, scenario>>

KeepLoaded == scenario.keep
Faulty == scenario.faulty
Silent == scenario.silent
OtherApps == scenario.others

ChatModels == {Balanced, Fast}
Models == ChatModels \cup {Embedding}

(* "unclaimed" is a model that GroundNote loaded after is_loaded had       *)
(* raised, and took for another's; "stuck" is one of GroundNote's own that *)
(* the runtime refused to unload.                                          *)
Residence == {"out", "ours", "unclaimed", "theirs", "stuck"}

Fields == {"model", "direct_owned", "client",
           "service_id", "service_owned", "service_client"}

(* The calls of a load, of the provider and of what wraps it. *)
Calls == {"none", "activate", "switch", "service_flag", "load", "lookup",
          "load_model", "load_unanswered", "get_client", "rollback",
          "service_lookup", "service_load", "service_unanswered",
          "service_client", "service_rollback",
          "loaded", "not_loaded", "returned", "raised"}

Pc == {"idle", "search", "load_embedding", "embed", "batch", "embed_failed",
       "let_go", "embed_finally", "retrieved", "release_for_chat", "load_chat",
       "load_failed", "generate", "generating", "release_failed",
       "unload_failed", "chat_finally", "generated", "answered",
       "release_balanced", "release_fast", "claim", "indexed",
       "embedding_unload", "shutdown"}

Job ==
  [pc     : Pc,
   op     : OperationKinds \cup {"none"},
   mode   : ModeKinds,
   call   : Calls,
   failed : BOOLEAN,    \* the operation is to end with an exception
   again  : BOOLEAN]    \* the second generation attempt

IdleJob == [pc |-> "idle", op |-> "none", mode |-> "Balanced", call |-> "none",
            failed |-> FALSE, again |-> FALSE]

Chat(s) == IF job[s].mode = "Fast" THEN Fast ELSE Balanced

(* The model of the load that s is executing. *)
Target(s) == IF job[s].pc = "load_chat" THEN Chat(s) ELSE Embedding

At(s, pc) == job[s].pc = pc /\ job[s].call = "none"
Calling(s, call) == job[s].call = call

Goto(s, pc) == job' = [job EXCEPT ![s].pc = pc, ![s].call = "none"]
Fail(s, pc) == job' = [job EXCEPT ![s].pc = pc, ![s].call = "none", ![s].failed = TRUE]
Call(s, call) == job' = [job EXCEPT ![s].call = call]
Finish(s) == job' = [job EXCEPT ![s] = IdleJob]

-----------------------------------------------------------------------------
(* Provider objects: the fields that are set, and the calls they make.     *)

HasClient(p) == p \cap {"client", "service_client"} # {}

Loaded(m) == resident[m] # "out"

(* FoundryChatProvider.generate and FoundryEmbeddingProvider.embed_many.   *)
CanInfer(m) ==
  IF "service_client" \in provider[m] THEN "service_id" \in provider[m]
                                      ELSE "client" \in provider[m]

(* Wrong variant: unload() does not ask who loaded the model. *)
AsksToUnloadAnyway(p) == p \cap {"service_id", "model"} # {}

(* unload() asks the runtime only for a model that GroundNote loaded. *)
AsksToUnload(p) ==
  IF "service_id" \in p THEN "service_owned" \in p
                        ELSE {"model", "direct_owned"} \subseteq p

AfterUnload(r, ok) ==
  IF ok THEN "out" ELSE IF r = "ours" THEN "stuck" ELSE r

(* Wrong variant: unload() leaves the client of the handle it drops. *)
ClearedHandle(p) ==
  IF p \cap {"service_id", "model"} = {} THEN p
                                          ELSE p \cap {"client", "service_client"}

(* The provider forgets its model whether or not the runtime let go of it; *)
(* a provider with neither handle does nothing.                            *)
Cleared(p) == IF p \cap {"service_id", "model"} = {} THEN p ELSE {}

(* Unloading the providers of a set of models; refused are the models that *)
(* the runtime would not unload.                                           *)
Unload(models, refused) ==
  /\ refused \subseteq models
  /\ Faulty \/ refused = {}
  /\ resident' = [m \in Models |->
                    IF m \in models /\ AsksToUnload(provider[m])
                    THEN AfterUnload(resident[m], m \notin refused)
                    ELSE resident[m]]
  /\ provider' = [m \in Models |->
                    IF m \in models THEN Cleared(provider[m]) ELSE provider[m]]

(* Dropping one provider, refused or not. *)
UnloadOne(m) == \E refused \in SUBSET {m} : Unload({m}, refused)

(* Wrong variant: the switch forgets the previous provider without unloading. *)
ForgetPrevious == UNCHANGED <<resident, provider>>

UnloadPrevious == UnloadOne(active)

(* The runtime brings into memory the model that s loads. *)
BroughtIn(s) ==
  LET origin == IF job[s].call \in {"load_unanswered", "service_unanswered"}
                THEN "unclaimed" ELSE "ours"
  IN  [resident EXCEPT ![Target(s)] = IF @ = "out" THEN origin ELSE @]

-----------------------------------------------------------------------------
(* load() of a provider, one call to the runtime at a time.                *)

SetProvider(m, add, drop) ==
  provider' = [provider EXCEPT ![m] = (@ \ drop) \cup add]

LoadBegins(s) ==
  /\ Calling(s, "load")
  /\ Call(s, IF HasClient(provider[Target(s)]) THEN "loaded" ELSE "lookup")
  /\ UNCHANGED <<resident, provider, active, lock, loaded, indexer, warm>>

(* get_model and is_loaded; only a model that is not loaded becomes owned, *)
(* and one whose is_loaded raises passes for loaded.                       *)
Lookup(s) ==
  LET m == Target(s) IN
  /\ Calling(s, "lookup")
  /\ \/ /\ SetProvider(m, {"model"} \cup (IF Loaded(m) THEN {} ELSE {"direct_owned"}),
                          {"direct_owned"})
        /\ Call(s, "load_model")
     \/ /\ Silent
        /\ SetProvider(m, {"model"}, {"direct_owned"})
        /\ Call(s, "load_unanswered")
     \/ Faulty /\ Call(s, "rollback") /\ UNCHANGED provider
  /\ UNCHANGED <<resident, active, lock, loaded, indexer, warm>>

(* A load that fails may have brought the model in all the same.  When it  *)
(* succeeds, self._model may have been cleared in the meantime.            *)
LoadModel(s) ==
  /\ job[s].call \in {"load_model", "load_unanswered"}
  /\ \/ /\ resident' = BroughtIn(s)
        /\ Call(s, IF "model" \in provider[Target(s)] THEN "get_client" ELSE "rollback")
     \/ /\ Faulty
        /\ resident' \in {resident, BroughtIn(s)}
        /\ Call(s, "rollback")
  /\ UNCHANGED <<provider, active, lock, loaded, indexer, warm>>

GetClient(s) ==
  LET m == Target(s) IN
  /\ Calling(s, "get_client")
  /\ \/ SetProvider(m, {"client"}, {}) /\ Call(s, "loaded")
     \/ Faulty /\ Call(s, "rollback") /\ UNCHANGED provider
  /\ UNCHANGED <<resident, active, lock, loaded, indexer, warm>>

(* Wrong variant: the rollback drops the handle and leaves the model. *)
UndoFieldsOnly(m, handle, owned, fields) ==
  SetProvider(m, {}, fields) /\ UNCHANGED resident

(* Undo an attempt: unload what it owned, whatever comes of that, and drop *)
(* the fields it set.                                                      *)
Undo(m, handle, owned, fields) ==
  /\ \E ok \in {TRUE, ~Faulty} :
       resident' = IF {handle, owned} \subseteq provider[m]
                   THEN [resident EXCEPT ![m] = AfterUnload(@, ok)]
                   ELSE resident
  /\ SetProvider(m, {}, fields)

DirectFields == {"model", "direct_owned", "client"}

Rollback(s) ==
  /\ Calling(s, "rollback")
  /\ Undo(Target(s), "model", "direct_owned", DirectFields)
  /\ Call(s, "service_lookup")
  /\ UNCHANGED <<active, lock, loaded, indexer, warm>>

ServiceLookup(s) ==
  LET m == Target(s) IN
  /\ Calling(s, "service_lookup")
  /\ \/ /\ SetProvider(m, {"service_id"} \cup
                             (IF Loaded(m) THEN {} ELSE {"service_owned"}),
                          {"service_owned"})
        /\ Call(s, "service_load")
     \/ /\ Silent
        /\ SetProvider(m, {"service_id"}, {"service_owned"})
        /\ Call(s, "service_unanswered")
     \/ Faulty /\ Call(s, "service_rollback") /\ UNCHANGED provider
  /\ UNCHANGED <<resident, active, lock, loaded, indexer, warm>>

ServiceLoad(s) ==
  /\ job[s].call \in {"service_load", "service_unanswered"}
  /\ \/ resident' = BroughtIn(s) /\ Call(s, "service_client")
     \/ /\ Faulty
        /\ resident' \in {resident, BroughtIn(s)}
        /\ Call(s, "service_rollback")
  /\ UNCHANGED <<provider, active, lock, loaded, indexer, warm>>

ServiceClient(s) ==
  LET m == Target(s) IN
  /\ Calling(s, "service_client")
  /\ \/ SetProvider(m, {"service_client"}, {"client"}) /\ Call(s, "loaded")
     \/ Faulty /\ Call(s, "service_rollback") /\ UNCHANGED provider
  /\ UNCHANGED <<resident, active, lock, loaded, indexer, warm>>

ServiceRollback(s) ==
  /\ Calling(s, "service_rollback")
  /\ Undo(Target(s), "service_id", "service_owned", Fields)
  /\ Call(s, "not_loaded")
  /\ UNCHANGED <<active, lock, loaded, indexer, warm>>

LoadStep(s) ==
  \/ LoadBegins(s) \/ Lookup(s) \/ LoadModel(s) \/ GetClient(s) \/ Rollback(s)
  \/ ServiceLookup(s) \/ ServiceLoad(s) \/ ServiceClient(s) \/ ServiceRollback(s)

-----------------------------------------------------------------------------
(* What wraps a provider: EmbeddingService and ChatModelLifecycle.         *)

(* EmbeddingService.load *)
ServiceFlag(s) ==
  /\ Calling(s, "service_flag")
  /\ Call(s, IF loaded THEN "returned" ELSE "load")
  /\ UNCHANGED <<resident, provider, active, lock, loaded, indexer, warm>>

EmbeddingLoadEnds(s) ==
  /\ Target(s) = Embedding
  /\ job[s].call \in {"loaded", "not_loaded"}
  /\ loaded' = Calling(s, "loaded")
  /\ Call(s, IF Calling(s, "loaded") THEN "returned" ELSE "raised")
  /\ UNCHANGED <<resident, provider, active, lock, indexer, warm>>

(* EmbeddingService.unload; every caller suppresses what it raises. *)
UnloadEmbedding == UnloadOne(Embedding) /\ loaded' = FALSE

(* ChatModelLifecycle.activate, up to the load it makes under the lock. *)
Activate(s) ==
  /\ Calling(s, "activate")
  /\ lock = Nobody
  /\ IF active = Chat(s)
     THEN Call(s, "returned") /\ UNCHANGED lock
     ELSE /\ lock' = s
          /\ Call(s, IF active = NoModel THEN "load" ELSE "switch")
  /\ UNCHANGED <<resident, provider, active, loaded, indexer, warm>>

(* The previous provider is unloaded first; if that raises, no load is     *)
(* tried.  Only the local service can be refused without raising.          *)
Switch(s) ==
  /\ Calling(s, "switch")
  /\ UnloadPrevious
  /\ active' = NoModel
  /\ \/ Call(s, "load") /\ UNCHANGED lock
     \/ Faulty /\ Call(s, "raised") /\ lock' = Nobody
  /\ UNCHANGED <<loaded, indexer, warm>>

ChatLoadEnds(s) ==
  /\ Target(s) # Embedding
  /\ lock' = Nobody
  /\ \/ /\ Calling(s, "loaded")
        /\ active' = Chat(s)
        /\ Call(s, "returned")
        /\ UNCHANGED <<resident, provider>>
     \/ /\ Calling(s, "not_loaded")
        /\ UnloadOne(Chat(s))
        /\ Call(s, "raised")
        /\ UNCHANGED active
  /\ UNCHANGED <<loaded, indexer, warm>>

(* ChatModelLifecycle.release; every caller suppresses what it raises. *)
Release(m) ==
  /\ lock = Nobody
  /\ IF active = m
     THEN UnloadOne(m) /\ active' = NoModel
     ELSE UNCHANGED <<resident, provider, active>>

(* Wrong variant: shutdown leaves _active as it is. *)
ShutdownKeepsActive ==
  /\ lock = Nobody
  /\ \E refused \in SUBSET ChatModels : Unload(ChatModels, refused)
  /\ UNCHANGED active

(* ChatModelLifecycle.shutdown *)
ShutdownChats ==
  /\ lock = Nobody
  /\ \E refused \in SUBSET ChatModels : Unload(ChatModels, refused)
  /\ active' = NoModel

-----------------------------------------------------------------------------
(* What a session starts.  _can_start_operation asks the registry once.    *)

Start(s, op, mode, pc) ==
  /\ At(s, "idle")
  /\ s \in scenario.users /\ op \in scenario.operations
  /\ job' = [job EXCEPT ![s] = [IdleJob EXCEPT !.op = op, !.mode = mode, !.pc = pc]]
  /\ UNCHANGED <<resident, provider, active, lock, loaded, indexer, warm>>

StartQuestion(s) ==
  /\ indexer = Nobody
  /\ \E mode \in scenario.modes : Start(s, "question", mode, "search")

StartUpload(s) ==
  /\ indexer = Nobody
  /\ \E mode \in scenario.modes : Start(s, "upload", mode, "release_balanced")

StartReindex(s) ==
  /\ indexer = Nobody
  /\ \E mode \in scenario.modes : Start(s, "reindex", mode, "claim")

(* The sidebar button. *)
StartUnload(s) == Start(s, "unload", "Balanced", "embedding_unload")

(* Every render asks whether this session has been idle long enough. *)
StartCleanup(s) ==
  /\ s \in warm
  /\ Start(s, "cleanup", "Balanced", "embedding_unload")

-----------------------------------------------------------------------------
(* The embedding model, in indexing and in retrieval.                      *)

LoadEmbedding(s) ==
  job' = [job EXCEPT ![s].pc = "load_embedding", ![s].call = "service_flag"]

(* search_query refuses only if an indexing is under way at its first line. *)
Search(s) ==
  /\ At(s, "search")
  /\ IF indexer = Nobody THEN LoadEmbedding(s) ELSE Goto(s, "answered")
  /\ UNCHANGED <<resident, provider, active, lock, loaded, indexer, warm>>

EmbeddingLoaded(s) ==
  /\ job[s].pc = "load_embedding"
  /\ \/ Calling(s, "returned") /\ Goto(s, IF job[s].op = "question" THEN "embed" ELSE "batch")
     \/ Calling(s, "raised") /\ Fail(s, "embed_failed")
  /\ UNCHANGED <<resident, provider, active, lock, loaded, indexer, warm>>

EmbedQuery(s) ==
  /\ At(s, "embed")
  /\ \/ /\ CanInfer(Embedding)
        /\ Goto(s, IF KeepLoaded THEN "retrieved" ELSE "embed_finally")
     \/ /\ Faulty \/ ~CanInfer(Embedding)
        /\ Fail(s, "embed_failed")
  /\ UNCHANGED <<resident, provider, active, lock, loaded, indexer, warm>>

EmbedBatch(s) ==
  /\ At(s, "batch")
  /\ \/ CanInfer(Embedding) /\ job' \in {job, [job EXCEPT ![s].pc = "let_go"]}
     \/ (Faulty \/ ~CanInfer(Embedding)) /\ Fail(s, "embed_failed")
  /\ UNCHANGED <<resident, provider, active, lock, loaded, indexer, warm>>

EmbedFailed(s) ==
  /\ At(s, "embed_failed")
  /\ UnloadEmbedding
  /\ \/ job[s].op # "question" /\ Goto(s, "let_go")
     \/ job[s].op = "question" /\ KeepLoaded /\ Finish(s)
     \/ job[s].op = "question" /\ ~KeepLoaded /\ Goto(s, "embed_finally")
  /\ UNCHANGED <<active, lock, indexer, warm>>

(* A re-index owns only its document, an upload the pipeline as well. *)
LetGo(s) ==
  /\ At(s, "let_go")
  /\ indexer' = IF job[s].op = "reindex" THEN Nobody ELSE indexer
  /\ Goto(s, IF KeepLoaded THEN "indexed" ELSE "embed_finally")
  /\ UNCHANGED <<resident, provider, active, lock, loaded, warm>>

EmbedFinally(s) ==
  /\ At(s, "embed_finally")
  /\ UnloadEmbedding
  /\ \/ job[s].op # "question" /\ Goto(s, "indexed")
     \/ job[s].op = "question" /\ ~job[s].failed /\ Goto(s, "retrieved")
     \/ job[s].op = "question" /\ job[s].failed /\ Finish(s)
  /\ UNCHANGED <<active, lock, indexer, warm>>

(* _unload_chat_models, before an upload and not before a re-index. *)
ReleaseBalanced(s) ==
  /\ At(s, "release_balanced")
  /\ Release(Balanced)
  /\ Goto(s, "release_fast")
  /\ UNCHANGED <<lock, loaded, indexer, warm>>

ReleaseFast(s) ==
  /\ At(s, "release_fast")
  /\ Release(Fast)
  /\ Goto(s, "claim")
  /\ UNCHANGED <<lock, loaded, indexer, warm>>

Claim(s) ==
  /\ At(s, "claim")
  /\ IF indexer = Nobody THEN indexer' = s /\ LoadEmbedding(s)
                         ELSE UNCHANGED indexer /\ Finish(s)
  /\ UNCHANGED <<resident, provider, active, lock, loaded, warm>>

Indexed(s) ==
  /\ At(s, "indexed")
  /\ indexer' = IF indexer = s THEN Nobody ELSE indexer
  /\ warm' = IF job[s].failed THEN warm ELSE warm \cup {s}
  /\ Finish(s)
  /\ UNCHANGED <<resident, provider, active, lock, loaded>>

-----------------------------------------------------------------------------
(* The chat model, in an answer.                                           *)

(* Without evidence, RagService.answer returns before it touches a model. *)
Retrieved(s) ==
  /\ At(s, "retrieved")
  /\ \E pc \in {"answered", "release_for_chat"} : Goto(s, pc)
  /\ UNCHANGED <<resident, provider, active, lock, loaded, indexer, warm>>

LoadChat(s, again) ==
  job' = [job EXCEPT ![s].pc = "load_chat", ![s].call = "activate", ![s].again = again]

ReleaseForChat(s) ==
  /\ At(s, "release_for_chat")
  /\ UnloadEmbedding
  /\ LoadChat(s, FALSE)
  /\ UNCHANGED <<active, lock, indexer, warm>>

ChatLoaded(s) ==
  /\ job[s].pc = "load_chat"
  /\ \/ Calling(s, "returned") /\ Goto(s, "generate")
     \/ Calling(s, "raised") /\ Fail(s, "load_failed")
  /\ UNCHANGED <<resident, provider, active, lock, loaded, indexer, warm>>

(* Another session may have unloaded the provider since it was activated. *)
Generate(s) ==
  /\ At(s, "generate")
  /\ IF CanInfer(Chat(s)) THEN Goto(s, "generating") ELSE Fail(s, "release_failed")
  /\ UNCHANGED <<resident, provider, active, lock, loaded, indexer, warm>>

GenerationEnds(s) ==
  /\ At(s, "generating")
  /\ \/ Goto(s, IF KeepLoaded THEN "generated" ELSE "chat_finally")
     \/ (Faulty \/ ~CanInfer(Chat(s))) /\ Fail(s, "release_failed")
  /\ UNCHANGED <<resident, provider, active, lock, loaded, indexer, warm>>

(* The releases that follow a failed load, a failed generation (the        *)
(* managed provider, then the service) and, unless models are kept, every  *)
(* generation.                                                             *)
ReleaseStep(s, pc) ==
  /\ At(s, pc)
  /\ Release(Chat(s))
  /\ UNCHANGED <<lock, loaded, indexer, warm>>

LoadFailed(s) == ReleaseStep(s, "load_failed") /\ Finish(s)

ReleaseFailed(s) == ReleaseStep(s, "release_failed") /\ Goto(s, "unload_failed")

UnloadFailed(s) ==
  /\ ReleaseStep(s, "unload_failed")
  /\ IF KeepLoaded THEN Finish(s) ELSE Goto(s, "chat_finally")

ChatFinally(s) ==
  /\ ReleaseStep(s, "chat_finally")
  /\ IF job[s].failed THEN Finish(s) ELSE Goto(s, "generated")

(* The text is accepted, or generated once more, or refused. *)
Generated(s) ==
  /\ At(s, "generated")
  /\ \/ Goto(s, "answered")
     \/ ~job[s].again /\ LoadChat(s, TRUE)
     \/ job[s].again /\ Finish(s)
  /\ UNCHANGED <<resident, provider, active, lock, loaded, indexer, warm>>

Answered(s) ==
  /\ At(s, "answered")
  /\ warm' = warm \cup {s}
  /\ IF job[s].mode = "Memory saver" THEN Goto(s, "embedding_unload") ELSE Finish(s)
  /\ UNCHANGED <<resident, provider, active, lock, loaded, indexer>>

-----------------------------------------------------------------------------
(* unload_local_models: the button, the idle cleanup, Memory saver.        *)

EmbeddingUnload(s) ==
  /\ At(s, "embedding_unload")
  /\ UnloadEmbedding
  /\ Goto(s, "shutdown")
  /\ UNCHANGED <<active, lock, indexer, warm>>

Shutdown(s) ==
  /\ At(s, "shutdown")
  /\ ShutdownChats
  /\ warm' = IF job[s].op = "unload" THEN warm ELSE warm \ {s}
  /\ Finish(s)
  /\ UNCHANGED <<lock, loaded, indexer>>

-----------------------------------------------------------------------------
(* Other applications, which leave a model alone while GroundNote loads it *)
(* and unload only what they loaded.                                       *)

BeingLoaded(m) ==
  \E s \in Sessions : Target(s) = m /\ job[s].call \notin {"none", "returned", "raised"}

OtherLoads(m) ==
  /\ OtherApps /\ ~BeingLoaded(m)
  /\ resident[m] = "out"
  /\ resident' = [resident EXCEPT ![m] = "theirs"]
  /\ UNCHANGED <<provider, active, lock, loaded, indexer, warm, job>>

OtherUnloads(m) ==
  /\ OtherApps /\ ~BeingLoaded(m)
  /\ resident[m] = "theirs"
  /\ resident' = [resident EXCEPT ![m] = "out"]
  /\ UNCHANGED <<provider, active, lock, loaded, indexer, warm, job>>

-----------------------------------------------------------------------------
Init ==
  /\ scenario \in Scenarios
  /\ resident \in [Models -> IF OtherApps THEN {"out", "theirs"} ELSE {"out"}]
  /\ provider = [m \in Models |-> {}]
  /\ active = NoModel
  /\ lock = Nobody
  /\ loaded = FALSE
  /\ indexer = Nobody
  /\ warm = {}
  /\ job = [s \in Sessions |-> IdleJob]

Starts(s) ==
  \/ StartQuestion(s) \/ StartUpload(s) \/ StartReindex(s)
  \/ StartUnload(s) \/ StartCleanup(s)

ServiceStep(s) ==
  \/ ServiceFlag(s) \/ EmbeddingLoadEnds(s)
  \/ Activate(s) \/ Switch(s) \/ ChatLoadEnds(s)

IndexStep(s) ==
  \/ ReleaseBalanced(s) \/ ReleaseFast(s) \/ Claim(s) \/ EmbedBatch(s)
  \/ LetGo(s) \/ Indexed(s)

AnswerStep(s) ==
  \/ Search(s) \/ EmbedQuery(s) \/ Retrieved(s) \/ ReleaseForChat(s)
  \/ ChatLoaded(s) \/ Generate(s) \/ GenerationEnds(s)
  \/ LoadFailed(s) \/ ReleaseFailed(s) \/ UnloadFailed(s) \/ ChatFinally(s)
  \/ Generated(s) \/ Answered(s)

Step(s) ==
  \/ LoadStep(s) \/ ServiceStep(s)
  \/ EmbeddingLoaded(s) \/ EmbedFailed(s) \/ EmbedFinally(s)
  \/ IndexStep(s) \/ AnswerStep(s)
  \/ EmbeddingUnload(s) \/ Shutdown(s)

Others == \E m \in Models : OtherLoads(m) \/ OtherUnloads(m)

Next ==
  /\ \/ \E s \in Sessions : Starts(s) \/ Step(s)
     \/ Others
  /\ UNCHANGED scenario

Fairness == \A s \in Sessions : WF_vars(Step(s))

Spec == Init /\ [][Next]_vars /\ Fairness
=============================================================================
