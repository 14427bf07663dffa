------------------------ MODULE ModelLifecycleProofs ------------------------
(***************************************************************************)
(* The chat lifecycle of GroundNote for any number of sessions and in any  *)
(* environment: its lock has an owner exactly while a session is between   *)
(* the lines of activate, its record names the provider that holds a       *)
(* model, and no chat model that GroundNote brought into memory as its own *)
(* is forgotten.  Models of other applications are left to them, and a lone   *)
(* session knows its embedding model and fails only with the runtime.      *)
(***************************************************************************)
EXTENDS ModelProperties, FiniteSetTheorems, TLAPS

(* The calls of a load, of a chat provider or of the embedding provider.   *)
LoadCalls == {"load", "lookup", "load_model", "load_unanswered", "get_client",
              "rollback", "service_lookup", "service_load", "service_unanswered",
              "service_client", "service_rollback", "loaded", "not_loaded"}

(* Only a session at a load makes calls, and it makes those of its load.   *)
ShapeOf(j) ==
  /\ j.pc = "load_embedding" => j.call \in LoadCalls \cup {"service_flag", "returned", "raised"}
  /\ j.pc = "load_chat" => j.call \in LoadCalls \cup {"activate", "switch", "returned", "raised"}
  /\ j.pc \notin {"load_embedding", "load_chat"} => j.call = "none"

(* A session in the part of activate that the lock guards. *)
Guarded(j) == j.pc = "load_chat" /\ j.call \in LoadCalls \cup {"switch"}

LockMatchesWork ==
  \A s \in Sessions : ShapeOf(job[s]) /\ (Guarded(job[s]) <=> lock = s)

KeptFields == {{"model", "client"}, {"model", "direct_owned", "client"},
               {"service_id", "service_client"},
               {"service_id", "service_owned", "service_client"}}

(* The fields a chat provider can have set when its load makes a call.     *)
FieldsAt(call) ==
  CASE call \in {"load_model", "load_unanswered", "get_client"} ->
         {{"model"}, {"model", "direct_owned"}}
    [] call = "rollback" -> {{}, {"model"}, {"model", "direct_owned"}}
    [] call \in {"service_load", "service_unanswered", "service_client"} ->
         {{"service_id"}, {"service_id", "service_owned"}}
    [] call = "service_rollback" -> {{}, {"service_id"}, {"service_id", "service_owned"}}
    [] call = "loaded" -> KeptFields
    [] OTHER -> {{}}

Attempting(m) == lock # Nobody /\ Chat(lock) = m

(* A chat model in memory that is_loaded answered for when GroundNote      *)
(* brought it there has a provider that owns it.  The                      *)
(* fields of a provider are those of the active one, those of the attempt  *)
(* under way, or none; and a load that found its model absent owns it.     *)
ProviderKnows(m) ==
  /\ resident[m] = "ours" => Owns(provider[m])
  /\ active = m => provider[m] \in KeptFields /\ ~Attempting(m)
  /\ active # m /\ ~Attempting(m) => provider[m] = {}
  /\ Attempting(m) =>
       /\ provider[m] \in FieldsAt(job[lock].call)
       /\ job[lock].call \in {"load_model", "service_load"} /\ resident[m] = "out"
            => Owns(provider[m])

(* Once activate has dropped the previous model none is recorded.          *)
SwitchedFirst == lock # Nobody /\ job[lock].call # "switch" => active = NoModel

ChatInvariant ==
  /\ LockMatchesWork /\ SwitchedFirst
  /\ \A m \in ChatModels : ProviderKnows(m)

-----------------------------------------------------------------------------
(* Types.                                                                  *)

(* The embedding model is not a chat model, and none of them is no model.  *)
LEMMA ModelsDiffer ==
  /\ Balanced # Fast /\ Embedding \notin ChatModels
  /\ NoModel \notin Models /\ ChatModels \subseteq Models /\ Embedding \in Models
<1>1. ASSUME NEW a, NEW b PROVE Cardinality({a, b}) # 3
  <2>1. IsFiniteSet({a}) /\ Cardinality({a}) = 1
    BY FS_Singleton
  <2>2. {a, b} = {a} \cup {b}
    OBVIOUS
  <2> QED
    BY <2>1, <2>2, FS_AddElement
<1>2. Balanced # Fast
  <2>1. Balanced = Fast => {Balanced, Fast, Embedding} = {Balanced, Embedding}
    OBVIOUS
  <2> QED
    BY <2>1, <1>1, ModelsAssumption
<1>3. Embedding # Balanced
  <2>1. Balanced = Embedding => {Balanced, Fast, Embedding} = {Balanced, Fast}
    OBVIOUS
  <2> QED
    BY <2>1, <1>1, ModelsAssumption
<1>4. Embedding # Fast
  <2>1. Fast = Embedding => {Balanced, Fast, Embedding} = {Balanced, Fast}
    OBVIOUS
  <2> QED
    BY <2>1, <1>1, ModelsAssumption
<1> QED
  BY <1>2, <1>3, <1>4, ModelsAssumption DEF Models, ChatModels

(* A job whose fields are replaced is a job.                               *)
LEMMA JobFields ==
  ASSUME NEW j \in Job, NEW pc \in Pc, NEW call \in Calls, NEW b \in BOOLEAN
  PROVE  /\ [j EXCEPT !.call = call] \in Job
         /\ [j EXCEPT !.pc = pc, !.call = call] \in Job
         /\ [j EXCEPT !.pc = pc] \in Job
         /\ [j EXCEPT !.pc = pc, !.call = call, !.failed = b] \in Job
         /\ [j EXCEPT !.pc = pc, !.call = call, !.again = b] \in Job
BY DEF Job

(* What has been dropped is in no place it was not in, or out or stuck.    *)
LEMMA UnloadTypes ==
  ASSUME TypeOK, NEW models, NEW refused, Unload(models, refused)
  PROVE  resident' \in [Models -> Residence] /\ provider' \in [Models -> SUBSET Fields]
BY DEF TypeOK, Unload, AfterUnload, Cleared, Residence

(* The same of one model.                                                  *)
LEMMA UnloadOneTypes ==
  ASSUME TypeOK, NEW m, UnloadOne(m)
  PROVE  resident' \in [Models -> Residence] /\ provider' \in [Models -> SUBSET Fields]
BY UnloadTypes DEF UnloadOne

(* The same of an attempt that is undone.                                  *)
LEMMA UndoTypes ==
  ASSUME TypeOK, NEW m \in Models, NEW handle, NEW owned, NEW fields,
         Undo(m, handle, owned, fields)
  PROVE  resident' \in [Models -> Residence] /\ provider' \in [Models -> SUBSET Fields]
<1>1. PICK ok \in {TRUE, ~Faulty} :
        resident' = IF {handle, owned} \subseteq provider[m]
                    THEN [resident EXCEPT ![m] = AfterUnload(@, ok)]
                    ELSE resident
  BY DEF Undo
<1>2. resident \in [Models -> Residence] /\ provider \in [Models -> SUBSET Fields]
  BY DEF TypeOK
<1>3. AfterUnload(resident[m], ok) \in Residence
  BY <1>2 DEF AfterUnload, Residence
<1>4. provider' = [provider EXCEPT ![m] = (@ \ fields) \cup {}]
  BY DEF Undo, SetProvider
<1> QED
  BY <1>1, <1>2, <1>3, <1>4

-----------------------------------------------------------------------------
(* What a step does to a job.                                              *)

(* The job of s is at a new place; those of the others are as they were.   *)
Becomes(s, pc, call) ==
  /\ job' \in [Sessions -> Job]
  /\ job'[s].pc = pc /\ job'[s].call = call
  /\ \A t \in Sessions \ {s} : job'[t] = job[t]

(* An idle job is a job.                                                   *)
LEMMA IdleJobType == IdleJob \in Job
BY DEF IdleJob, Job, Pc, OperationKinds, ModeKinds, Calls

(* Each of the ways in which a session goes on.                            *)
LEMMA JobSteps ==
  ASSUME TypeOK, NEW s \in Sessions, NEW pc \in Pc, NEW call \in Calls, NEW b \in BOOLEAN
  PROVE  /\ Goto(s, pc) => Becomes(s, pc, "none")
         /\ Fail(s, pc) => Becomes(s, pc, "none")
         /\ Call(s, call) => Becomes(s, job[s].pc, call) /\ job'[s].mode = job[s].mode
         /\ Finish(s) => Becomes(s, "idle", "none")
         /\ LoadEmbedding(s) => Becomes(s, "load_embedding", "service_flag")
         /\ LoadChat(s, b) => Becomes(s, "load_chat", "activate")
<1>1. job \in [Sessions -> Job] /\ job[s] \in Job
  BY DEF TypeOK
<1>2. "none" \in Calls /\ "service_flag" \in Calls /\ "activate" \in Calls
      /\ "load_embedding" \in Pc /\ "load_chat" \in Pc /\ TRUE \in BOOLEAN
  BY DEF Calls, Pc
<1>9. ASSUME NEW j \in Job, job' = [job EXCEPT ![s] = j]
      PROVE  Becomes(s, j.pc, j.call)
  BY <1>1, <1>9 DEF Becomes
<1>3. Goto(s, pc) => Becomes(s, pc, "none")
  <2> DEFINE j == [job[s] EXCEPT !.pc = pc, !.call = "none"]
  <2>1. Goto(s, pc) => job' = [job EXCEPT ![s] = j]
    BY <1>1 DEF Goto
  <2>2. j \in Job /\ j.pc = pc /\ j.call = "none"
    BY <1>1, <1>2 DEF Job
  <2> HIDE DEF j
  <2> QED
    BY <2>1, <2>2, <1>9
<1>4. Fail(s, pc) => Becomes(s, pc, "none")
  <2> DEFINE j == [job[s] EXCEPT !.pc = pc, !.call = "none", !.failed = TRUE]
  <2>1. Fail(s, pc) => job' = [job EXCEPT ![s] = j]
    BY <1>1 DEF Fail
  <2>2. j \in Job /\ j.pc = pc /\ j.call = "none"
    BY <1>1, <1>2 DEF Job
  <2> HIDE DEF j
  <2> QED
    BY <2>1, <2>2, <1>9
<1>5. Call(s, call) => Becomes(s, job[s].pc, call) /\ job'[s].mode = job[s].mode
  BY <1>1, <1>2 DEF Call, Becomes, Job
<1>6. Finish(s) => Becomes(s, "idle", "none")
  BY <1>1, IdleJobType DEF Finish, Becomes, IdleJob
<1>7. LoadEmbedding(s) => Becomes(s, "load_embedding", "service_flag")
  <2> DEFINE j == [job[s] EXCEPT !.pc = "load_embedding", !.call = "service_flag"]
  <2>1. LoadEmbedding(s) => job' = [job EXCEPT ![s] = j]
    BY <1>1 DEF LoadEmbedding
  <2>2. j \in Job /\ j.pc = "load_embedding" /\ j.call = "service_flag"
    BY <1>1, <1>2 DEF Job
  <2> HIDE DEF j
  <2> QED
    BY <2>1, <2>2, <1>9
<1>8. LoadChat(s, b) => Becomes(s, "load_chat", "activate")
  <2> DEFINE j == [job[s] EXCEPT !.pc = "load_chat", !.call = "activate", !.again = b]
  <2>1. LoadChat(s, b) => job' = [job EXCEPT ![s] = j]
    BY <1>1 DEF LoadChat
  <2>2. j \in Job /\ j.pc = "load_chat" /\ j.call = "activate"
    BY <1>1, <1>2 DEF Job
  <2> HIDE DEF j
  <2> QED
    BY <2>1, <2>2, <1>9
<1> QED
  BY <1>3, <1>4, <1>5, <1>6, <1>7, <1>8

(* A load calls the runtime for its own model and nothing else.            *)
LoadOf(s, m) ==
  /\ \E call \in LoadCalls : Call(s, call)
  /\ resident' \in [Models -> Residence] /\ provider' \in [Models -> SUBSET Fields]
  /\ \A n \in Models \ {m} : resident'[n] = resident[n] /\ provider'[n] = provider[n]
  /\ UNCHANGED <<active, lock, loaded, indexer, warm>>

(* Every call of a load is of that kind.                                   *)
LEMMA LoadStepsAreLocal ==
  ASSUME TypeOK, NEW s \in Sessions, LoadStep(s)
  PROVE  LoadOf(s, Target(s)) /\ job[s].call \in LoadCalls
<1> DEFINE m == Target(s)
<1>1. m \in Models
  BY ModelsDiffer DEF Target, Chat, ChatModels
<1>2. resident \in [Models -> Residence] /\ provider \in [Models -> SUBSET Fields]
  BY DEF TypeOK
<1>3. BroughtIn(s) \in [Models -> Residence]
      /\ \A n \in Models \ {m} : BroughtIn(s)[n] = resident[n]
  BY <1>1, <1>2 DEF BroughtIn, Residence
<1>4. ASSUME NEW add \in SUBSET Fields, NEW drop, SetProvider(m, add, drop)
      PROVE  /\ provider' \in [Models -> SUBSET Fields]
             /\ \A n \in Models \ {m} : provider'[n] = provider[n]
  <2>1. provider' = [provider EXCEPT ![m] = (provider[m] \ drop) \cup add]
    BY <1>4 DEF SetProvider
  <2>2. (provider[m] \ drop) \cup add \in SUBSET Fields
    BY <1>1, <1>2
  <2> QED
    BY <2>1, <2>2, <1>1, <1>2
<1>5. {"model"} \in SUBSET Fields /\ {"model"} \cup {"direct_owned"} \in SUBSET Fields
      /\ {"client"} \in SUBSET Fields /\ {"service_id"} \in SUBSET Fields
      /\ {"service_id"} \cup {"service_owned"} \in SUBSET Fields
      /\ {"service_client"} \in SUBSET Fields /\ {} \in SUBSET Fields
      /\ {"model"} \cup {} \in SUBSET Fields /\ {"service_id"} \cup {} \in SUBSET Fields
  BY DEF Fields
<1>6. ASSUME NEW handle, NEW owned, NEW fields, Undo(m, handle, owned, fields)
      PROVE  /\ resident' \in [Models -> Residence] /\ provider' \in [Models -> SUBSET Fields]
             /\ \A n \in Models \ {m} : resident'[n] = resident[n] /\ provider'[n] = provider[n]
  <2>1. \A n \in Models \ {m} : resident'[n] = resident[n]
    BY <1>6, <1>1, <1>2 DEF Undo
  <2>2. SetProvider(m, {}, fields)
    BY <1>6 DEF Undo
  <2> QED
    BY <2>1, <2>2, <1>1, <1>4, <1>5, <1>6, UndoTypes
<1> HIDE DEF m
<1>10. CASE LoadBegins(s)
  BY <1>10, <1>2 DEF LoadBegins, LoadOf, LoadCalls, Calling
<1>11. CASE Lookup(s)
  BY <1>11, <1>2, <1>4, <1>5 DEF Lookup, LoadOf, LoadCalls, Calling, m
<1>12. CASE LoadModel(s)
  BY <1>12, <1>2, <1>3 DEF LoadModel, LoadOf, LoadCalls, Calling, m
<1>13. CASE GetClient(s)
  BY <1>13, <1>2, <1>4, <1>5 DEF GetClient, LoadOf, LoadCalls, Calling, m
<1>14. CASE Rollback(s)
  BY <1>14, <1>6 DEF Rollback, LoadOf, LoadCalls, Calling, m
<1>15. CASE ServiceLookup(s)
  BY <1>15, <1>2, <1>4, <1>5 DEF ServiceLookup, LoadOf, LoadCalls, Calling, m
<1>16. CASE ServiceLoad(s)
  BY <1>16, <1>2, <1>3 DEF ServiceLoad, LoadOf, LoadCalls, Calling, m
<1>17. CASE ServiceClient(s)
  BY <1>17, <1>2, <1>4, <1>5 DEF ServiceClient, LoadOf, LoadCalls, Calling, m
<1>18. CASE ServiceRollback(s)
  BY <1>18, <1>6 DEF ServiceRollback, LoadOf, LoadCalls, Calling, m
<1> QED
  BY <1>10, <1>11, <1>12, <1>13, <1>14, <1>15, <1>16, <1>17, <1>18 DEF LoadStep

-----------------------------------------------------------------------------
(* Steps outside the lock.                                                 *)

(* The variables that the chat lifecycle does not use keep their types.    *)
RestTyped ==
  /\ resident' \in [Models -> Residence] /\ provider' \in [Models -> SUBSET Fields]
  /\ loaded' \in BOOLEAN /\ indexer' \in Sessions \cup {Nobody} /\ warm' \subseteq Sessions

(* The session is not in the part that the lock guards, before and after.  *)
Outsider(s) ==
  /\ job' \in [Sessions -> Job]
  /\ \A t \in Sessions \ {s} : job'[t] = job[t]
  /\ ShapeOf(job'[s]) /\ ~Guarded(job'[s]) /\ ~Guarded(job[s])
  /\ lock' = lock

ChatsAsTheyWere ==
  /\ active' = active
  /\ \A m \in ChatModels : resident'[m] = resident[m] /\ provider'[m] = provider[m]

(* Where no chat model is touched, all that is known of them remains.      *)
LEMMA QuietStepKeeps ==
  ASSUME TypeOK, ChatInvariant, NEW s \in Sessions, Outsider(s), ChatsAsTheyWere
  PROVE  ChatInvariant'
<1>1. LockMatchesWork'
  BY DEF ChatInvariant, LockMatchesWork, Outsider
<1>2. lock # Nobody => lock \in Sessions /\ lock # s
  BY DEF ChatInvariant, LockMatchesWork, Outsider, TypeOK
<1>3. lock # Nobody => job'[lock] = job[lock]
  BY <1>2 DEF Outsider
<1>4. SwitchedFirst'
  BY <1>3 DEF ChatInvariant, SwitchedFirst, Outsider, ChatsAsTheyWere
<1>5. \A m : Attempting(m)' <=> Attempting(m)
  BY <1>3 DEF Attempting, Chat, Outsider
<1>6. ASSUME NEW m \in ChatModels PROVE ProviderKnows(m)'
  BY <1>3, <1>5 DEF ProviderKnows, ChatInvariant, Outsider, ChatsAsTheyWere, Attempting
<1> QED
  BY <1>1, <1>4, <1>6 DEF ChatInvariant

(* Dropping a provider that knows its model leaves nothing of it behind.   *)
LEMMA DroppedIsGone ==
  ASSUME TypeOK, NEW m \in Models,
         resident[m] = "ours" => Owns(provider[m]),
         provider[m] \in KeptFields \cup {{}},
         NEW models, NEW refused, m \in models, Unload(models, refused)
  PROVE  provider'[m] = {} /\ resident'[m] # "ours"
<1>2. provider'[m] = Cleared(provider[m])
  BY DEF Unload
<1>3. provider'[m] = {}
  BY <1>2 DEF Cleared, KeptFields
<1>4. CASE AsksToUnload(provider[m])
  <2>1. resident'[m] = AfterUnload(resident[m], m \notin refused)
    BY <1>4 DEF Unload
  <2> QED
    BY <1>3, <2>1 DEF AfterUnload
<1>5. CASE ~AsksToUnload(provider[m])
  <2>1. resident'[m] = resident[m]
    BY <1>5 DEF Unload
  <2>2. ~Owns(provider[m])
    BY <1>5 DEF AsksToUnload, Owns, KeptFields
  <2> QED
    BY <1>3, <2>1, <2>2
<1> QED
  BY <1>4, <1>5

(* The other models are as they were.                                      *)
LEMMA UnloadSparesOthers ==
  ASSUME TypeOK, NEW models, NEW refused, Unload(models, refused),
         NEW n \in Models, n \notin models
  PROVE  resident'[n] = resident[n] /\ provider'[n] = provider[n]
BY DEF Unload

(* A release or a shutdown, which wait for the lock.                       *)
LEMMA FreeStepKeeps ==
  ASSUME TypeOK, ChatInvariant, NEW s \in Sessions, Outsider(s), lock = Nobody,
         \/ ChatsAsTheyWere
         \/ \E models \in SUBSET ChatModels :
              /\ \E refused : Unload(models, refused)
              /\ active' = NoModel /\ active \in models \cup {NoModel}
  PROVE  ChatInvariant'
<1>1. CASE ChatsAsTheyWere
  BY <1>1, QuietStepKeeps
<1>2. ASSUME NEW models \in SUBSET ChatModels, NEW refused, Unload(models, refused),
             active' = NoModel, active \in models \cup {NoModel}
      PROVE  ChatInvariant'
  <2>1. LockMatchesWork'
    BY DEF ChatInvariant, LockMatchesWork, Outsider
  <2>2. SwitchedFirst' /\ lock' = Nobody
    BY DEF SwitchedFirst, Outsider
  <2>3. ASSUME NEW m \in ChatModels
        PROVE  provider'[m] = {} /\ resident'[m] # "ours"
    <3>1. /\ resident[m] = "ours" => Owns(provider[m])
          /\ active = m => provider[m] \in KeptFields
          /\ active # m => provider[m] = {}
      BY DEF ChatInvariant, ProviderKnows, Attempting
    <3>2. CASE m \in models
      BY <3>1, <3>2, <1>2, ModelsDiffer, DroppedIsGone
    <3>3. CASE m \notin models
      <4>1. active # m
        BY <3>3, <1>2, ModelsDiffer
      <4>2. resident'[m] = resident[m] /\ provider'[m] = provider[m]
        BY <3>3, <1>2, ModelsDiffer, UnloadSparesOthers
      <4> QED
        BY <4>1, <4>2, <3>1 DEF Owns
    <3> QED
      BY <3>2, <3>3
  <2>4. ASSUME NEW m \in ChatModels PROVE ProviderKnows(m)'
    <3>1. active' # m
      BY <1>2, ModelsDiffer
    <3> QED
      BY <2>2, <2>3, <3>1 DEF ProviderKnows, Attempting
  <2> QED
    BY <2>1, <2>2, <2>4 DEF ChatInvariant
<1> QED
  BY <1>1, <1>2

-----------------------------------------------------------------------------
(* Which step is of which kind.                                            *)

(* A job at a place outside the loads is outside the lock, and one in the  *)
(* load of the embedding model is as well.                                 *)
LEMMA OutsidePlaces ==
  ASSUME NEW j,
         \/ j.pc \notin {"load_chat", "load_embedding"} /\ j.call = "none"
         \/ j.pc = "load_embedding"
              /\ j.call \in LoadCalls \cup {"service_flag", "returned", "raised"}
         \/ j.pc = "load_chat" /\ j.call \in {"activate", "returned", "raised"}
  PROVE  ShapeOf(j) /\ ~Guarded(j)
BY DEF ShapeOf, Guarded, LoadCalls

(* A session that goes on to a place outside.                              *)
LEMMA GoesOutside ==
  ASSUME NEW s \in Sessions, NEW pc, NEW call, Becomes(s, pc, call),
         \/ pc \notin {"load_chat", "load_embedding"} /\ call = "none"
         \/ pc = "load_embedding"
              /\ call \in LoadCalls \cup {"service_flag", "returned", "raised"}
         \/ pc = "load_chat" /\ call \in {"activate", "returned", "raised"},
         ~Guarded(job[s]), lock' = lock
  PROVE  Outsider(s)
<1>1. ShapeOf(job'[s]) /\ ~Guarded(job'[s])
  BY OutsidePlaces DEF Becomes
<1> QED
  BY <1>1 DEF Outsider, Becomes

(* Dropping the embedding provider touches no chat model.                  *)
LEMMA EmbeddingUnloaded ==
  ASSUME TypeOK, UnloadEmbedding, UNCHANGED <<active, indexer, warm>>
  PROVE  ChatsAsTheyWere /\ RestTyped
<1>1. PICK refused \in SUBSET {Embedding} : Unload({Embedding}, refused)
  BY DEF UnloadEmbedding, UnloadOne
<1>2. \A m \in ChatModels : resident'[m] = resident[m] /\ provider'[m] = provider[m]
  BY <1>1, ModelsDiffer, UnloadSparesOthers
<1>3. RestTyped
  BY <1>1, UnloadTypes DEF RestTyped, UnloadEmbedding, TypeOK
<1> QED
  BY <1>2, <1>3 DEF ChatsAsTheyWere

(* Steps of a session that is at a named place.                            *)
QuietStep(s) ==
  \/ Starts(s)
  \/ Search(s) \/ EmbedQuery(s) \/ Retrieved(s) \/ ReleaseForChat(s)
  \/ Generate(s) \/ GenerationEnds(s) \/ Generated(s) \/ Answered(s)
  \/ Claim(s) \/ EmbedBatch(s) \/ LetGo(s) \/ Indexed(s)
  \/ EmbedFailed(s) \/ EmbedFinally(s) \/ EmbeddingUnload(s)

(* They leave the chat models alone.                                       *)
LEMMA QuietSteps ==
  ASSUME TypeOK, NEW s \in Sessions, QuietStep(s)
  PROVE  Outsider(s) /\ ChatsAsTheyWere /\ RestTyped
<1> DEFINE AtPlace == job[s].call = "none" /\ job[s].pc \notin {"load_chat", "load_embedding"}
           ModelsSame == UNCHANGED <<resident, provider, active, loaded>>
<1>1. AtPlace => ~Guarded(job[s])
  BY DEF Guarded
<1>2. ModelsSame => ChatsAsTheyWere
  BY DEF ChatsAsTheyWere
<1>3. ModelsSame /\ indexer' \in Sessions \cup {Nobody} /\ warm' \subseteq Sessions => RestTyped
  BY DEF RestTyped, TypeOK
<1>4. indexer \in Sessions \cup {Nobody} /\ warm \subseteq Sessions /\ s \in Sessions
  BY DEF TypeOK
<1>5. ASSUME NEW pc \in Pc \ {"load_chat", "load_embedding"},
             Goto(s, pc) \/ Fail(s, pc), AtPlace, lock' = lock
      PROVE  Outsider(s)
  <2>1. TRUE \in BOOLEAN /\ "none" \in Calls
    BY DEF Calls
  <2>2. Becomes(s, pc, "none")
    BY <1>5, <2>1, JobSteps
  <2> QED
    BY <2>2, <1>1, <1>5, GoesOutside
<1>6. ASSUME Finish(s), AtPlace, lock' = lock PROVE Outsider(s)
  <2>1. TRUE \in BOOLEAN /\ "none" \in Calls /\ "idle" \in Pc
    BY DEF Calls, Pc
  <2>2. Becomes(s, "idle", "none")
    BY <1>6, <2>1, JobSteps
  <2> QED
    BY <2>2, <1>1, <1>6, GoesOutside
<1>7. ASSUME LoadEmbedding(s), AtPlace, lock' = lock PROVE Outsider(s)
  <2>1. TRUE \in BOOLEAN /\ "none" \in Calls /\ "idle" \in Pc
    BY DEF Calls, Pc
  <2>2. Becomes(s, "load_embedding", "service_flag")
    BY <1>7, <2>1, JobSteps
  <2> QED
    BY <2>2, <1>1, <1>7, GoesOutside
<1>8. ASSUME NEW b \in BOOLEAN, LoadChat(s, b), AtPlace, lock' = lock PROVE Outsider(s)
  <2>1. "none" \in Calls /\ "idle" \in Pc
    BY DEF Calls, Pc
  <2>2. Becomes(s, "load_chat", "activate")
    BY <1>8, <2>1, JobSteps
  <2> QED
    BY <2>2, <1>1, <1>8, GoesOutside
<1>9. ASSUME NEW op \in OperationKinds, NEW mode \in ModeKinds,
             NEW pc \in Pc \ {"load_chat", "load_embedding"}, Start(s, op, mode, pc)
      PROVE  Outsider(s) /\ ChatsAsTheyWere /\ RestTyped
  <2> DEFINE j == [IdleJob EXCEPT !.op = op, !.mode = mode, !.pc = pc]
  <2>1. j \in Job /\ j.pc = pc /\ j.call = "none"
    BY IdleJobType DEF Job, IdleJob
  <2>2. job' = [job EXCEPT ![s] = j] /\ job \in [Sessions -> Job]
    BY <1>9 DEF Start, TypeOK
  <2> HIDE DEF j
  <2>3. Becomes(s, pc, "none")
    BY <2>1, <2>2 DEF Becomes
  <2>4. AtPlace /\ lock' = lock /\ ModelsSame /\ UNCHANGED <<indexer, warm>>
    BY <1>9 DEF Start, At
  <2>5. Outsider(s)
    BY <2>3, <2>4, <1>1, GoesOutside
  <2> QED
    BY <2>4, <2>5, <1>2, <1>3, <1>4
<1> HIDE DEF AtPlace, ModelsSame
<1>10. CASE Starts(s)
  <2>1. scenario.modes \subseteq ModeKinds
    BY DEF TypeOK, Scenario
  <2>2. {"search", "release_balanced", "claim", "embedding_unload"}
          \subseteq Pc \ {"load_chat", "load_embedding"}
    BY DEF Pc
  <2>3. {"question", "upload", "reindex", "unload", "cleanup"} \subseteq OperationKinds
        /\ "Balanced" \in ModeKinds
    BY DEF OperationKinds, ModeKinds
  <2>4. \E op \in OperationKinds, mode \in ModeKinds,
           pc \in Pc \ {"load_chat", "load_embedding"} : Start(s, op, mode, pc)
    <3>1. CASE StartQuestion(s)
      BY <3>1, <2>1, <2>2, <2>3 DEF StartQuestion
    <3>2. CASE StartUpload(s)
      BY <3>2, <2>1, <2>2, <2>3 DEF StartUpload
    <3>3. CASE StartReindex(s)
      BY <3>3, <2>1, <2>2, <2>3 DEF StartReindex
    <3>4. CASE StartUnload(s)
      BY <3>4, <2>2, <2>3 DEF StartUnload
    <3>5. CASE StartCleanup(s)
      BY <3>5, <2>2, <2>3 DEF StartCleanup
    <3> QED
      BY <1>10, <3>1, <3>2, <3>3, <3>4, <3>5 DEF Starts
  <2> QED
    BY <2>4, <1>9
<1>11. {"answered", "embed_finally", "retrieved", "embed_failed", "let_go", "indexed",
        "release_for_chat", "generating", "release_failed", "generated", "chat_finally",
        "embedding_unload", "shutdown"} \subseteq Pc \ {"load_chat", "load_embedding"}
  BY DEF Pc
<1>12. CASE Search(s)
  <2>1. AtPlace /\ lock' = lock /\ ModelsSame /\ UNCHANGED <<indexer, warm>>
    BY <1>12 DEF Search, At, AtPlace, ModelsSame
  <2> QED
    BY <1>12, <2>1, <1>2, <1>3, <1>4, <1>5, <1>7, <1>11 DEF Search
<1>13. CASE EmbedQuery(s)
  <2>1. AtPlace /\ lock' = lock /\ ModelsSame /\ UNCHANGED <<indexer, warm>>
    BY <1>13 DEF EmbedQuery, At, AtPlace, ModelsSame
  <2> QED
    BY <1>13, <2>1, <1>2, <1>3, <1>4, <1>5, <1>11 DEF EmbedQuery
<1>14. CASE Retrieved(s)
  <2>1. AtPlace /\ lock' = lock /\ ModelsSame /\ UNCHANGED <<indexer, warm>>
    BY <1>14 DEF Retrieved, At, AtPlace, ModelsSame
  <2> QED
    BY <1>14, <2>1, <1>2, <1>3, <1>4, <1>5, <1>11 DEF Retrieved
<1>15. CASE ReleaseForChat(s)
  <2>1. AtPlace /\ lock' = lock /\ UnloadEmbedding /\ UNCHANGED <<active, indexer, warm>>
    BY <1>15 DEF ReleaseForChat, At, AtPlace
  <2>2. LoadChat(s, FALSE)
    BY <1>15 DEF ReleaseForChat
  <2> QED
    BY <2>1, <2>2, <1>8, EmbeddingUnloaded
<1>16. CASE Generate(s)
  <2>1. AtPlace /\ lock' = lock /\ ModelsSame /\ UNCHANGED <<indexer, warm>>
    BY <1>16 DEF Generate, At, AtPlace, ModelsSame
  <2> QED
    BY <1>16, <2>1, <1>2, <1>3, <1>4, <1>5, <1>11 DEF Generate
<1>17. CASE GenerationEnds(s)
  <2>1. AtPlace /\ lock' = lock /\ ModelsSame /\ UNCHANGED <<indexer, warm>>
    BY <1>17 DEF GenerationEnds, At, AtPlace, ModelsSame
  <2> QED
    BY <1>17, <2>1, <1>2, <1>3, <1>4, <1>5, <1>11 DEF GenerationEnds
<1>18. CASE Generated(s)
  <2>1. AtPlace /\ lock' = lock /\ ModelsSame /\ UNCHANGED <<indexer, warm>>
    BY <1>18 DEF Generated, At, AtPlace, ModelsSame
  <2> QED
    BY <1>18, <2>1, <1>2, <1>3, <1>4, <1>5, <1>6, <1>8, <1>11 DEF Generated
<1>19. CASE Answered(s)
  <2>1. AtPlace /\ lock' = lock /\ ModelsSame /\ indexer' = indexer /\ warm' = warm \cup {s}
    BY <1>19 DEF Answered, At, AtPlace, ModelsSame
  <2> QED
    BY <1>19, <2>1, <1>2, <1>3, <1>4, <1>5, <1>6, <1>11 DEF Answered
<1>20. CASE Claim(s)
  <2>1. AtPlace /\ lock' = lock /\ ModelsSame /\ indexer' \in {indexer, s} /\ warm' = warm
    BY <1>20 DEF Claim, At, AtPlace, ModelsSame
  <2> QED
    BY <1>20, <2>1, <1>2, <1>3, <1>4, <1>6, <1>7 DEF Claim
<1>21. CASE EmbedBatch(s)
  <2>1. AtPlace /\ lock' = lock /\ ModelsSame /\ UNCHANGED <<indexer, warm>>
    BY <1>21 DEF EmbedBatch, At, AtPlace, ModelsSame
  <2>2. \/ job' = job
        \/ job' = [job EXCEPT ![s].pc = "let_go"]
        \/ Fail(s, "embed_failed")
    BY <1>21 DEF EmbedBatch
  <2>3. job' = job => Outsider(s)
    <3>1. AtPlace => ShapeOf(job[s])
      BY OutsidePlaces DEF AtPlace
    <3> QED
      BY <2>1, <3>1, <1>1 DEF Outsider, TypeOK
  <2>4. ASSUME job' = [job EXCEPT ![s].pc = "let_go"] PROVE Outsider(s)
    <3>1. job' = [job EXCEPT ![s] = [job[s] EXCEPT !.pc = "let_go"]]
          /\ job[s] \in Job /\ job \in [Sessions -> Job] /\ "let_go" \in Pc
      BY <2>4, <1>11 DEF TypeOK
    <3>2. [job[s] EXCEPT !.pc = "let_go"] \in Job
          /\ [job[s] EXCEPT !.pc = "let_go"].pc = "let_go"
          /\ [job[s] EXCEPT !.pc = "let_go"].call = job[s].call
      BY <3>1 DEF Job
    <3>3. Becomes(s, "let_go", "none")
      BY <3>1, <3>2, <2>1 DEF Becomes, AtPlace
    <3> QED
      BY <3>3, <2>1, <1>1, GoesOutside
  <2> QED
    BY <2>1, <2>2, <2>3, <2>4, <1>2, <1>3, <1>4, <1>5, <1>11
<1>22. CASE LetGo(s)
  <2>1. AtPlace /\ lock' = lock /\ ModelsSame /\ indexer' \in {indexer, Nobody} /\ warm' = warm
    BY <1>22 DEF LetGo, At, AtPlace, ModelsSame
  <2> QED
    BY <1>22, <2>1, <1>2, <1>3, <1>4, <1>5, <1>11 DEF LetGo
<1>23. CASE Indexed(s)
  <2>1. AtPlace /\ lock' = lock /\ ModelsSame
        /\ indexer' \in {indexer, Nobody} /\ warm' \in {warm, warm \cup {s}}
    BY <1>23 DEF Indexed, At, AtPlace, ModelsSame
  <2> QED
    BY <1>23, <2>1, <1>2, <1>3, <1>4, <1>6 DEF Indexed
<1>24. CASE EmbedFailed(s)
  <2>1. AtPlace /\ lock' = lock /\ UnloadEmbedding /\ UNCHANGED <<active, indexer, warm>>
    BY <1>24 DEF EmbedFailed, At, AtPlace
  <2> QED
    BY <1>24, <2>1, <1>5, <1>6, <1>11, EmbeddingUnloaded DEF EmbedFailed
<1>25. CASE EmbedFinally(s)
  <2>1. AtPlace /\ lock' = lock /\ UnloadEmbedding /\ UNCHANGED <<active, indexer, warm>>
    BY <1>25 DEF EmbedFinally, At, AtPlace
  <2> QED
    BY <1>25, <2>1, <1>5, <1>6, <1>11, EmbeddingUnloaded DEF EmbedFinally
<1>26. CASE EmbeddingUnload(s)
  <2>1. AtPlace /\ lock' = lock /\ UnloadEmbedding /\ UNCHANGED <<active, indexer, warm>>
    BY <1>26 DEF EmbeddingUnload, At, AtPlace
  <2> QED
    BY <1>26, <2>1, <1>5, <1>11, EmbeddingUnloaded DEF EmbeddingUnload
<1> QED
  BY <1>10, <1>12, <1>13, <1>14, <1>15, <1>16, <1>17, <1>18, <1>19, <1>20, <1>21,
     <1>22, <1>23, <1>24, <1>25, <1>26 DEF QuietStep

(* Steps of a session that loads the embedding model, and the end of both  *)
(* kinds of load.                                                          *)
EmbeddingStep(s) ==
  \/ job[s].pc # "load_chat" /\ LoadStep(s)
  \/ ServiceFlag(s) \/ EmbeddingLoadEnds(s) \/ EmbeddingLoaded(s) \/ ChatLoaded(s)

(* They leave the chat models alone as well.                               *)
LEMMA EmbeddingSteps ==
  ASSUME TypeOK, LockMatchesWork, NEW s \in Sessions, EmbeddingStep(s)
  PROVE  Outsider(s) /\ ChatsAsTheyWere /\ RestTyped
<1> DEFINE Wrapped == LoadCalls \cup {"service_flag", "returned", "raised"}
           ModelsSame == UNCHANGED <<resident, provider, active>>
<1>1. ShapeOf(job[s]) /\ job[s] \in Job
  BY DEF LockMatchesWork, TypeOK
<1>2. Wrapped \subseteq Calls /\ "none" \notin Wrapped
  BY DEF LoadCalls, Calls
<1>3. ASSUME NEW call \in Wrapped, Call(s, call), job[s].pc = "load_embedding", lock' = lock
      PROVE  Outsider(s)
  <2>1. TRUE \in BOOLEAN /\ "idle" \in Pc /\ call \in Calls
    BY <1>2 DEF Pc
  <2>2. Becomes(s, "load_embedding", call)
    BY <1>3, <2>1, JobSteps
  <2>3. ~Guarded(job[s])
    BY <1>3 DEF Guarded
  <2> QED
    BY <2>2, <2>3, <1>3, GoesOutside
<1>4. ASSUME NEW pc \in {"embed", "batch", "embed_failed", "generate", "load_failed"},
             Goto(s, pc) \/ Fail(s, pc), ~Guarded(job[s]), lock' = lock
      PROVE  Outsider(s)
  <2>1. TRUE \in BOOLEAN /\ "none" \in Calls /\ pc \in Pc
    BY DEF Pc, Calls
  <2>2. Becomes(s, pc, "none")
    BY <1>4, <2>1, JobSteps
  <2> QED
    BY <2>2, <1>4, GoesOutside
<1>5. ModelsSame => ChatsAsTheyWere
  BY DEF ChatsAsTheyWere
<1>6. ModelsSame /\ loaded' \in BOOLEAN /\ UNCHANGED <<indexer, warm>> => RestTyped
  BY DEF RestTyped, TypeOK
<1>7. "returned" \in Wrapped /\ "raised" \in Wrapped /\ "load" \in Wrapped
      /\ loaded \in BOOLEAN /\ LoadCalls \subseteq Wrapped
  BY DEF LoadCalls, TypeOK
<1>10. CASE job[s].pc # "load_chat" /\ LoadStep(s)
  <2>1. LoadOf(s, Target(s)) /\ job[s].call \in LoadCalls
    BY <1>10, LoadStepsAreLocal
  <2>2. job[s].pc = "load_embedding"
    BY <1>1, <1>10, <2>1 DEF ShapeOf, LoadCalls
  <2>3. Target(s) = Embedding
    BY <2>2 DEF Target
  <2>4. ChatsAsTheyWere
    BY <2>1, <2>3, ModelsDiffer DEF LoadOf, ChatsAsTheyWere
  <2>5. Outsider(s)
    BY <2>1, <2>2, <1>3, <1>7 DEF LoadOf
  <2>6. RestTyped
    BY <2>1 DEF LoadOf, RestTyped, TypeOK
  <2> QED
    BY <2>4, <2>5, <2>6
<1>11. CASE ServiceFlag(s)
  <2>1. job[s].pc = "load_embedding"
    BY <1>1, <1>11 DEF ShapeOf, ServiceFlag, Calling, LoadCalls
  <2>2. lock' = lock /\ ModelsSame /\ UNCHANGED <<loaded, indexer, warm>>
    BY <1>11 DEF ServiceFlag
  <2>3. Call(s, "returned") \/ Call(s, "load")
    BY <1>11 DEF ServiceFlag
  <2> HIDE DEF Wrapped, ModelsSame
  <2> QED
    BY <2>1, <2>2, <2>3, <1>3, <1>5, <1>6, <1>7
<1>12. CASE EmbeddingLoadEnds(s)
  <2>1. job[s].pc = "load_embedding"
    <3>1. job[s].pc # "load_chat"
      BY <1>12, ModelsDiffer DEF EmbeddingLoadEnds, Target, Chat, ChatModels
    <3> QED
      BY <3>1, <1>1, <1>12 DEF ShapeOf, EmbeddingLoadEnds
  <2>2. lock' = lock /\ ModelsSame /\ UNCHANGED <<indexer, warm>>
    BY <1>12 DEF EmbeddingLoadEnds
  <2>4. loaded' \in BOOLEAN
    BY <1>12 DEF EmbeddingLoadEnds, Calling
  <2>3. Call(s, "returned") \/ Call(s, "raised")
    BY <1>12 DEF EmbeddingLoadEnds
  <2> HIDE DEF Wrapped, ModelsSame
  <2> QED
    BY <2>1, <2>2, <2>3, <2>4, <1>3, <1>5, <1>6, <1>7
<1>13. CASE EmbeddingLoaded(s)
  <2>1. ~Guarded(job[s])
    BY <1>13 DEF EmbeddingLoaded, Guarded
  <2>2. lock' = lock /\ ModelsSame /\ UNCHANGED <<loaded, indexer, warm>>
    BY <1>13 DEF EmbeddingLoaded
  <2>3. \E pc \in {"embed", "batch", "embed_failed"} : Goto(s, pc) \/ Fail(s, pc)
    BY <1>13 DEF EmbeddingLoaded
  <2> HIDE DEF Wrapped, ModelsSame
  <2> QED
    BY <2>1, <2>2, <2>3, <1>4, <1>5, <1>6, <1>7
<1>14. CASE ChatLoaded(s)
  <2>1. ~Guarded(job[s])
    BY <1>14 DEF ChatLoaded, Guarded, Calling, LoadCalls
  <2>2. lock' = lock /\ ModelsSame /\ UNCHANGED <<loaded, indexer, warm>>
    BY <1>14 DEF ChatLoaded
  <2>3. \E pc \in {"generate", "load_failed"} : Goto(s, pc) \/ Fail(s, pc)
    BY <1>14 DEF ChatLoaded
  <2> HIDE DEF Wrapped, ModelsSame
  <2> QED
    BY <2>1, <2>2, <2>3, <1>4, <1>5, <1>6, <1>7
<1> QED
  BY <1>10, <1>11, <1>12, <1>13, <1>14 DEF EmbeddingStep

(* Steps that release a chat model, or all of them.                        *)
ReleasingStep(s) ==
  \/ ReleaseBalanced(s) \/ ReleaseFast(s) \/ LoadFailed(s) \/ ReleaseFailed(s)
  \/ UnloadFailed(s) \/ ChatFinally(s) \/ Shutdown(s)

(* They find the lock free and drop what is recorded, or find nothing.     *)
LEMMA ReleasingSteps ==
  ASSUME TypeOK, NEW s \in Sessions, ReleasingStep(s)
  PROVE  /\ Outsider(s) /\ RestTyped /\ lock = Nobody
         /\ \/ ChatsAsTheyWere
            \/ \E models \in SUBSET ChatModels :
                 /\ \E refused : Unload(models, refused)
                 /\ active' = NoModel /\ active \in models \cup {NoModel}
<1> DEFINE AtPlace == job[s].call = "none" /\ job[s].pc \notin {"load_chat", "load_embedding"}
           Frees == \/ ChatsAsTheyWere
                    \/ \E models \in SUBSET ChatModels :
                         /\ \E refused : Unload(models, refused)
                         /\ active' = NoModel /\ active \in models \cup {NoModel}
           Rest == /\ lock' = lock /\ loaded' = loaded /\ indexer' = indexer
                   /\ warm' \in {warm, warm \ {s}}
<1>1. AtPlace => ~Guarded(job[s])
  BY DEF Guarded
<1>2. ASSUME NEW m \in ChatModels, Release(m)
      PROVE  Frees /\ lock = Nobody /\ resident' \in [Models -> Residence]
             /\ provider' \in [Models -> SUBSET Fields]
  <2>1. CASE active = m
    <3>1. UnloadOne(m) /\ active' = NoModel /\ lock = Nobody
      BY <1>2, <2>1 DEF Release
    <3>2. PICK refused \in SUBSET {m} : Unload({m}, refused)
      BY <3>1 DEF UnloadOne
    <3>3. {m} \in SUBSET ChatModels /\ active \in {m} \cup {NoModel}
      BY <2>1
    <3> QED
      BY <3>1, <3>2, <3>3, UnloadTypes
  <2>2. CASE active # m
    <3>1. UNCHANGED <<resident, provider, active>> /\ lock = Nobody
      BY <1>2, <2>2 DEF Release
    <3> QED
      BY <3>1 DEF ChatsAsTheyWere, TypeOK
  <2> QED
    BY <2>1, <2>2
<1>3. ASSUME ShutdownChats
      PROVE  Frees /\ lock = Nobody /\ resident' \in [Models -> Residence]
             /\ provider' \in [Models -> SUBSET Fields]
  <2>1. PICK refused \in SUBSET ChatModels : Unload(ChatModels, refused)
    BY <1>3 DEF ShutdownChats
  <2>2. lock = Nobody /\ active' = NoModel /\ active \in ChatModels \cup {NoModel}
    BY <1>3 DEF ShutdownChats, TypeOK
  <2> QED
    BY <2>1, <2>2, UnloadTypes
<1>4. ASSUME Rest, resident' \in [Models -> Residence], provider' \in [Models -> SUBSET Fields]
      PROVE  RestTyped
  BY <1>4 DEF RestTyped, TypeOK
<1>5. ASSUME NEW pc \in {"release_fast", "claim", "unload_failed", "chat_finally", "generated"},
             Goto(s, pc), AtPlace, lock' = lock
      PROVE  Outsider(s)
  <2>1. TRUE \in BOOLEAN /\ "none" \in Calls /\ pc \in Pc
    BY DEF Calls, Pc
  <2>2. Becomes(s, pc, "none")
    BY <1>5, <2>1, JobSteps
  <2> QED
    BY <2>2, <1>1, <1>5, GoesOutside
<1>6. ASSUME Finish(s), AtPlace, lock' = lock PROVE Outsider(s)
  <2>1. TRUE \in BOOLEAN /\ "none" \in Calls /\ "idle" \in Pc
    BY DEF Calls, Pc
  <2>2. Becomes(s, "idle", "none")
    BY <1>6, <2>1, JobSteps
  <2> QED
    BY <2>2, <1>1, <1>6, GoesOutside
<1>7. Chat(s) \in ChatModels /\ Balanced \in ChatModels /\ Fast \in ChatModels
  BY DEF Chat, ChatModels
<1>10. CASE ReleaseBalanced(s)
  <2>1. AtPlace /\ Rest /\ Release(Balanced) /\ Goto(s, "release_fast")
    BY <1>10 DEF ReleaseBalanced, At
  <2> HIDE DEF AtPlace, Frees, Rest
  <2>2. lock' = lock
    BY <2>1 DEF Rest
  <2> QED
    BY <2>1, <2>2, <1>2, <1>4, <1>5, <1>7 DEF Frees
<1>11. CASE ReleaseFast(s)
  <2>1. AtPlace /\ Rest /\ Release(Fast) /\ Goto(s, "claim")
    BY <1>11 DEF ReleaseFast, At
  <2> HIDE DEF AtPlace, Frees, Rest
  <2>2. lock' = lock
    BY <2>1 DEF Rest
  <2> QED
    BY <2>1, <2>2, <1>2, <1>4, <1>5, <1>7 DEF Frees
<1>12. CASE LoadFailed(s) \/ ReleaseFailed(s) \/ UnloadFailed(s) \/ ChatFinally(s)
  <2>1. AtPlace /\ Rest /\ Release(Chat(s))
    BY <1>12 DEF LoadFailed, ReleaseFailed, UnloadFailed, ChatFinally, ReleaseStep, At
  <2>2. \/ Finish(s)
        \/ \E pc \in {"unload_failed", "chat_finally", "generated"} : Goto(s, pc)
    BY <1>12 DEF LoadFailed, ReleaseFailed, UnloadFailed, ChatFinally
  <2> HIDE DEF AtPlace, Frees, Rest
  <2>3. lock' = lock
    BY <2>1 DEF Rest
  <2>4. Outsider(s)
    BY <2>1, <2>2, <2>3, <1>5, <1>6
  <2> QED
    BY <2>1, <2>4, <1>2, <1>4, <1>7 DEF Frees
<1>13. CASE Shutdown(s)
  <2>1. AtPlace /\ Rest /\ ShutdownChats /\ Finish(s)
    BY <1>13 DEF Shutdown, At
  <2> HIDE DEF AtPlace, Frees, Rest
  <2>2. lock' = lock
    BY <2>1 DEF Rest
  <2> QED
    BY <2>1, <2>2, <1>3, <1>4, <1>6 DEF Frees
<1> QED
  BY <1>10, <1>11, <1>12, <1>13 DEF ReleasingStep

-----------------------------------------------------------------------------
(* Steps that hold the lock.                                               *)

(* A load of a model, call by call: what the provider has set is what *)
(* the next call expects, and a model it brought in stays its own.         *)
LEMMA AttemptGoesOn ==
  ASSUME TypeOK, NEW s \in Sessions, NEW m \in Models, Target(s) = m, LoadStep(s),
         provider[m] \in FieldsAt(job[s].call),
         resident[m] = "ours" => Owns(provider[m]),
         job[s].call \in {"load_model", "service_load"} /\ resident[m] = "out"
           => Owns(provider[m])
  PROVE  \E call \in LoadCalls :
           /\ Call(s, call)
           /\ provider'[m] \in FieldsAt(call)
           /\ resident'[m] = "ours" => Owns(provider'[m])
           /\ call \in {"load_model", "service_load"} /\ resident'[m] = "out"
                => Owns(provider'[m])
<1> DEFINE Goal(call) ==
             /\ Call(s, call)
             /\ provider'[m] \in FieldsAt(call)
             /\ resident'[m] = "ours" => Owns(provider'[m])
             /\ call \in {"load_model", "service_load"} /\ resident'[m] = "out"
                  => Owns(provider'[m])
<1>1. m \in Models
  OBVIOUS
<1>2. resident \in [Models -> Residence] /\ provider \in [Models -> SUBSET Fields]
  BY DEF TypeOK
<1>3. /\ BroughtIn(s)[m] \in {resident[m], "ours", "unclaimed"}
      /\ BroughtIn(s)[m] = "ours" =>
           \/ resident[m] = "ours"
           \/ /\ resident[m] = "out"
              /\ job[s].call \notin {"load_unanswered", "service_unanswered"}
  BY <1>1, <1>2 DEF BroughtIn
<1>4. ASSUME NEW add, NEW drop, SetProvider(m, add, drop)
      PROVE  provider'[m] = (provider[m] \ drop) \cup add
  BY <1>1, <1>2, <1>4 DEF SetProvider
<1>5. ASSUME NEW handle, NEW owned, NEW fields, Undo(m, handle, owned, fields)
      PROVE  /\ provider'[m] = provider[m] \ fields
             /\ {handle, owned} \subseteq provider[m] => resident'[m] # "ours"
             /\ ~({handle, owned} \subseteq provider[m]) => resident'[m] = resident[m]
  <2>1. SetProvider(m, {}, fields)
    BY <1>5 DEF Undo
  <2>2. PICK ok \in {TRUE, ~Faulty} :
          resident' = IF {handle, owned} \subseteq provider[m]
                      THEN [resident EXCEPT ![m] = AfterUnload(@, ok)]
                      ELSE resident
    BY <1>5 DEF Undo
  <2>3. AfterUnload(resident[m], ok) # "ours"
    BY DEF AfterUnload
  <2>4. (provider[m] \ fields) \cup {} = provider[m] \ fields
    OBVIOUS
  <2> QED
    BY <2>1, <2>2, <2>3, <2>4, <1>1, <1>2, <1>4
<1>10. CASE LoadBegins(s)
  <2>1. job[s].call = "load" /\ provider[m] = {}
    BY <1>10 DEF LoadBegins, Calling, FieldsAt
  <2>2. ~HasClient(provider[m])
    BY <2>1 DEF HasClient
  <2>3. Call(s, "lookup") /\ provider' = provider /\ resident' = resident
    BY <1>10, <2>2 DEF LoadBegins
  <2>4. Goal("lookup")
    BY <2>1, <2>3 DEF FieldsAt
  <2> QED
    BY <2>4 DEF LoadCalls
<1>11. CASE Lookup(s)
  <2>1. job[s].call = "lookup" /\ provider[m] = {} /\ resident' = resident
    BY <1>11 DEF Lookup, Calling, FieldsAt
  <2>2. CASE /\ SetProvider(m, {"model"} \cup (IF Loaded(m) THEN {} ELSE {"direct_owned"}),
                            {"direct_owned"})
             /\ Call(s, "load_model")
    <3>1. provider'[m] = IF Loaded(m) THEN {"model"} ELSE {"model", "direct_owned"}
      BY <2>1, <2>2, <1>4
    <3>2. resident[m] # "ours"
      BY <2>1 DEF Owns
    <3>3. resident[m] = "out" => Owns(provider'[m])
      BY <3>1 DEF Loaded, Owns
    <3>4. Goal("load_model")
      BY <3>1, <3>2, <3>3, <2>1, <2>2 DEF FieldsAt
    <3> QED
      BY <3>4 DEF LoadCalls
  <2>3. CASE Call(s, "rollback") /\ UNCHANGED provider
    <3>1. Goal("rollback")
      BY <2>1, <2>3 DEF FieldsAt
    <3> QED
      BY <3>1 DEF LoadCalls
  <2>4. CASE SetProvider(m, {"model"}, {"direct_owned"}) /\ Call(s, "load_unanswered")
    <3>1. provider'[m] = {"model"} /\ resident[m] # "ours"
      BY <2>1, <2>4, <1>4 DEF Owns
    <3>2. Goal("load_unanswered")
      BY <3>1, <2>1, <2>4 DEF FieldsAt
    <3> QED
      BY <3>2 DEF LoadCalls
  <2> QED
    BY <1>11, <2>2, <2>3, <2>4 DEF Lookup
<1>12. CASE LoadModel(s)
  <2>1. job[s].call \in {"load_model", "load_unanswered"} /\ provider' = provider
    BY <1>12 DEF LoadModel
  <2>2. provider[m] \in {{"model"}, {"model", "direct_owned"}}
    BY <2>1 DEF FieldsAt
  <2>3. resident' \in {resident, BroughtIn(s)}
    BY <1>12 DEF LoadModel
  <2>4. resident'[m] = "ours" => Owns(provider'[m])
    BY <2>1, <2>3, <1>3
  <2>5. Call(s, "get_client") \/ Call(s, "rollback")
    BY <1>12, <2>2 DEF LoadModel
  <2>6. provider'[m] \in FieldsAt("get_client") /\ provider'[m] \in FieldsAt("rollback")
    BY <2>1, <2>2 DEF FieldsAt
  <2>7. Goal("get_client") \/ Goal("rollback")
    BY <2>4, <2>5, <2>6
  <2> QED
    BY <2>7 DEF LoadCalls
<1>13. CASE GetClient(s)
  <2>1. job[s].call = "get_client" /\ resident' = resident
    BY <1>13 DEF GetClient, Calling
  <2>2. provider[m] \in {{"model"}, {"model", "direct_owned"}}
    BY <2>1 DEF FieldsAt
  <2>3. CASE SetProvider(m, {"client"}, {}) /\ Call(s, "loaded")
    <3>1. provider'[m] = (provider[m] \ {}) \cup {"client"}
      BY <2>3, <1>4
    <3>2. provider'[m] \in KeptFields
      BY <3>1, <2>2 DEF KeptFields
    <3>3. resident'[m] = "ours" => Owns(provider'[m])
      BY <3>1, <2>1 DEF Owns
    <3>4. Goal("loaded")
      BY <3>2, <3>3, <2>3 DEF FieldsAt
    <3> QED
      BY <3>4 DEF LoadCalls
  <2>4. CASE Call(s, "rollback") /\ UNCHANGED provider
    <3>1. Goal("rollback")
      BY <2>1, <2>2, <2>4 DEF FieldsAt
    <3> QED
      BY <3>1 DEF LoadCalls
  <2> QED
    BY <1>13, <2>3, <2>4 DEF GetClient
<1>14. CASE Rollback(s)
  <2>1. job[s].call = "rollback" /\ Call(s, "service_lookup")
        /\ Undo(m, "model", "direct_owned", DirectFields)
    BY <1>14 DEF Rollback, Calling
  <2>2. provider[m] \in {{}, {"model"}, {"model", "direct_owned"}}
    BY <2>1 DEF FieldsAt
  <2>3. provider'[m] = {}
    BY <2>1, <2>2, <1>5 DEF DirectFields
  <2>4. resident'[m] # "ours"
    BY <2>1, <2>2, <1>5 DEF Owns
  <2>5. Goal("service_lookup")
    BY <2>1, <2>3, <2>4 DEF FieldsAt
  <2> QED
    BY <2>5 DEF LoadCalls
<1>15. CASE ServiceLookup(s)
  <2>1. job[s].call = "service_lookup" /\ provider[m] = {} /\ resident' = resident
    BY <1>15 DEF ServiceLookup, Calling, FieldsAt
  <2>2. CASE /\ SetProvider(m, {"service_id"} \cup
                                 (IF Loaded(m) THEN {} ELSE {"service_owned"}),
                            {"service_owned"})
             /\ Call(s, "service_load")
    <3>1. provider'[m] = IF Loaded(m) THEN {"service_id"} ELSE {"service_id", "service_owned"}
      BY <2>1, <2>2, <1>4
    <3>2. resident[m] # "ours"
      BY <2>1 DEF Owns
    <3>3. resident[m] = "out" => Owns(provider'[m])
      BY <3>1 DEF Loaded, Owns
    <3>4. Goal("service_load")
      BY <3>1, <3>2, <3>3, <2>1, <2>2 DEF FieldsAt
    <3> QED
      BY <3>4 DEF LoadCalls
  <2>3. CASE Call(s, "service_rollback") /\ UNCHANGED provider
    <3>1. Goal("service_rollback")
      BY <2>1, <2>3 DEF FieldsAt
    <3> QED
      BY <3>1 DEF LoadCalls
  <2>4. CASE SetProvider(m, {"service_id"}, {"service_owned"}) /\ Call(s, "service_unanswered")
    <3>1. provider'[m] = {"service_id"} /\ resident[m] # "ours"
      BY <2>1, <2>4, <1>4 DEF Owns
    <3>2. Goal("service_unanswered")
      BY <3>1, <2>1, <2>4 DEF FieldsAt
    <3> QED
      BY <3>2 DEF LoadCalls
  <2> QED
    BY <1>15, <2>2, <2>3, <2>4 DEF ServiceLookup
<1>16. CASE ServiceLoad(s)
  <2>1. job[s].call \in {"service_load", "service_unanswered"} /\ provider' = provider
    BY <1>16 DEF ServiceLoad
  <2>2. provider[m] \in {{"service_id"}, {"service_id", "service_owned"}}
    BY <2>1 DEF FieldsAt
  <2>3. resident' \in {resident, BroughtIn(s)}
    BY <1>16 DEF ServiceLoad
  <2>4. resident'[m] = "ours" => Owns(provider'[m])
    BY <2>1, <2>3, <1>3
  <2>5. Call(s, "service_client") \/ Call(s, "service_rollback")
    BY <1>16 DEF ServiceLoad
  <2>6. /\ provider'[m] \in FieldsAt("service_client")
        /\ provider'[m] \in FieldsAt("service_rollback")
    BY <2>1, <2>2 DEF FieldsAt
  <2>7. Goal("service_client") \/ Goal("service_rollback")
    BY <2>4, <2>5, <2>6
  <2> QED
    BY <2>7 DEF LoadCalls
<1>17. CASE ServiceClient(s)
  <2>1. job[s].call = "service_client" /\ resident' = resident
    BY <1>17 DEF ServiceClient, Calling
  <2>2. provider[m] \in {{"service_id"}, {"service_id", "service_owned"}}
    BY <2>1 DEF FieldsAt
  <2>3. CASE SetProvider(m, {"service_client"}, {"client"}) /\ Call(s, "loaded")
    <3>1. provider'[m] = (provider[m] \ {"client"}) \cup {"service_client"}
      BY <2>3, <1>4
    <3>2. provider'[m] \in KeptFields
      BY <3>1, <2>2 DEF KeptFields
    <3>3. resident'[m] = "ours" => Owns(provider'[m])
      BY <3>1, <2>1, <2>2 DEF Owns
    <3>4. Goal("loaded")
      BY <3>2, <3>3, <2>3 DEF FieldsAt
    <3> QED
      BY <3>4 DEF LoadCalls
  <2>4. CASE Call(s, "service_rollback") /\ UNCHANGED provider
    <3>1. Goal("service_rollback")
      BY <2>1, <2>2, <2>4 DEF FieldsAt
    <3> QED
      BY <3>1 DEF LoadCalls
  <2> QED
    BY <1>17, <2>3, <2>4 DEF ServiceClient
<1>18. CASE ServiceRollback(s)
  <2>1. job[s].call = "service_rollback" /\ Call(s, "not_loaded")
        /\ Undo(m, "service_id", "service_owned", Fields)
    BY <1>18 DEF ServiceRollback, Calling
  <2>2. provider[m] \in {{}, {"service_id"}, {"service_id", "service_owned"}}
    BY <2>1 DEF FieldsAt
  <2>3. provider'[m] = {}
    BY <2>1, <2>2, <1>5 DEF Fields
  <2>4. resident'[m] # "ours"
    BY <2>1, <2>2, <1>5 DEF Owns
  <2>5. Goal("not_loaded")
    BY <2>1, <2>3, <2>4 DEF FieldsAt
  <2> QED
    BY <2>5 DEF LoadCalls
<1> QED
  BY <1>10, <1>11, <1>12, <1>13, <1>14, <1>15, <1>16, <1>17, <1>18 DEF LoadStep

(* What is known while the lock is held, from what is known of its holder. *)
LEMMA HolderKeeps ==
  ASSUME TypeOK, ChatInvariant, NEW s \in Sessions, NEW call,
         lock \in {s, Nobody},
         Becomes(s, "load_chat", call), call \in LoadCalls \cup {"switch"},
         lock' = s, Chat(s)' = Chat(s), active' = active,
         active # Chat(s), call # "switch" => active = NoModel,
         provider'[Chat(s)] \in FieldsAt(call),
         resident'[Chat(s)] = "ours" => Owns(provider'[Chat(s)]),
         call \in {"load_model", "service_load"} /\ resident'[Chat(s)] = "out"
           => Owns(provider'[Chat(s)]),
         \A n \in ChatModels \ {Chat(s)} :
           resident'[n] = resident[n] /\ provider'[n] = provider[n]
  PROVE  ChatInvariant'
<1>1. job'[s].pc = "load_chat" /\ job'[s].call = call
  BY DEF Becomes
<1>2. s # Nobody
  BY NobodyAssumption
<1>3. LockMatchesWork'
  <2>1. ShapeOf(job'[s]) /\ Guarded(job'[s])
    BY <1>1 DEF ShapeOf, Guarded
  <2>2. ASSUME NEW t \in Sessions \ {s}
        PROVE  ShapeOf(job'[t]) /\ (Guarded(job'[t]) <=> lock' = t)
    <3>1. job'[t] = job[t] /\ lock # t
      BY <1>2, NobodyAssumption DEF Becomes
    <3> QED
      BY <3>1 DEF ChatInvariant, LockMatchesWork
  <2> QED
    BY <2>1, <2>2 DEF LockMatchesWork
<1>4. SwitchedFirst'
  BY <1>1 DEF SwitchedFirst
<1>5. \A m : Attempting(m)' <=> m = Chat(s)
  BY <1>2 DEF Attempting
<1>6. ASSUME NEW n \in ChatModels \ {Chat(s)} PROVE ProviderKnows(n)'
  <2>1. ~Attempting(n)
    BY DEF Attempting
  <2>2. ~Attempting(n)'
    BY <1>5
  <2>3. ProviderKnows(n)
    BY DEF ChatInvariant
  <2> QED
    BY <2>1, <2>2, <2>3 DEF ProviderKnows
<1>7. ProviderKnows(Chat(s))'
  <2>1. Attempting(Chat(s))'
    BY <1>5
  <2> QED
    BY <2>1, <1>1 DEF ProviderKnows
<1>8. Chat(s) \in ChatModels
  BY DEF Chat, ChatModels
<1> QED
  BY <1>3, <1>4, <1>6, <1>7, <1>8 DEF ChatInvariant

(* The part of a load that the lock guards.                                *)
LEMMA GuardedLoadKeeps ==
  ASSUME TypeOK, ChatInvariant, NEW s \in Sessions, job[s].pc = "load_chat", LoadStep(s)
  PROVE  ChatInvariant' /\ RestTyped /\ job' \in [Sessions -> Job] /\ lock' = lock
         /\ active' = active
<1> DEFINE m == Chat(s)
<1>1. m \in ChatModels /\ Target(s) = m
  BY DEF Chat, ChatModels, Target
<1>2. LoadOf(s, m) /\ job[s].call \in LoadCalls
  BY <1>1, LoadStepsAreLocal
<1>3. lock = s /\ s # Nobody
  BY <1>2, NobodyAssumption DEF ChatInvariant, LockMatchesWork, Guarded
<1>4. Attempting(m)
  BY <1>3 DEF Attempting
<1>5. ProviderKnows(m)
  BY <1>1 DEF ChatInvariant
<1>6. active = NoModel /\ active # m
  BY <1>1, <1>2, <1>3, ModelsDiffer DEF ChatInvariant, SwitchedFirst, LoadCalls
<1> HIDE DEF m
<1>7. PICK call \in LoadCalls :
        /\ Call(s, call)
        /\ provider'[m] \in FieldsAt(call)
        /\ resident'[m] = "ours" => Owns(provider'[m])
        /\ call \in {"load_model", "service_load"} /\ resident'[m] = "out"
             => Owns(provider'[m])
  BY <1>1, <1>3, <1>4, <1>5, ModelsDiffer, AttemptGoesOn DEF ProviderKnows
<1>8. Becomes(s, "load_chat", call) /\ job'[s].mode = job[s].mode
  <2>1. call \in Calls /\ "idle" \in Pc /\ TRUE \in BOOLEAN
    BY <1>7 DEF LoadCalls, Calls, Pc
  <2> QED
    BY <2>1, <1>7, JobSteps
<1>9. Chat(s)' = m /\ m = Chat(s)
  BY <1>8 DEF Chat, m
<1>10. /\ lock' = s /\ active' = active
       /\ \A n \in ChatModels \ {m} : resident'[n] = resident[n] /\ provider'[n] = provider[n]
  BY <1>2, <1>3, ModelsDiffer DEF LoadOf
<1>11. RestTyped
  BY <1>2 DEF LoadOf, RestTyped, TypeOK
<1>12. ChatInvariant'
  BY <1>3, <1>6, <1>7, <1>8, <1>9, <1>10, HolderKeeps
<1> QED
  BY <1>3, <1>8, <1>10, <1>11, <1>12 DEF Becomes

(* The session asks for the lock, and gets it or finds its model active.   *)
LEMMA ActivateKeeps ==
  ASSUME TypeOK, ChatInvariant, NEW s \in Sessions, Activate(s)
  PROVE  ChatInvariant' /\ RestTyped /\ job' \in [Sessions -> Job]
         /\ lock' \in {lock, s} /\ active' = active
<1>1. lock = Nobody /\ UNCHANGED <<resident, provider, active, loaded, indexer, warm>>
  BY DEF Activate
<1>2. RestTyped
  BY <1>1 DEF RestTyped, TypeOK
<1>3. job[s].pc = "load_chat" /\ ~Guarded(job[s])
  BY DEF ChatInvariant, LockMatchesWork, Activate, Calling, ShapeOf, Guarded, LoadCalls
<1>4. ASSUME NEW call \in {"returned", "load", "switch"}, Call(s, call)
      PROVE  Becomes(s, "load_chat", call) /\ job'[s].mode = job[s].mode
  <2>1. call \in Calls /\ "idle" \in Pc /\ TRUE \in BOOLEAN
    BY DEF Calls, Pc
  <2> QED
    BY <2>1, <1>3, <1>4, JobSteps
<1>5. Chat(s) \in ChatModels /\ Chat(s) # NoModel
  BY ModelsDiffer DEF Chat, ChatModels, Models
<1>6. CASE active = Chat(s)
  <2>1. Call(s, "returned") /\ lock' = lock
    BY <1>6 DEF Activate
  <2>2. Outsider(s)
    BY <2>1, <1>3, <1>4, GoesOutside
  <2>3. ChatsAsTheyWere
    BY <1>1 DEF ChatsAsTheyWere
  <2>4. ChatInvariant'
    BY <2>2, <2>3, QuietStepKeeps
  <2> QED
    BY <2>1, <2>2, <2>4, <1>1, <1>2 DEF Outsider
<1>7. CASE active # Chat(s)
  <2>1. PICK call \in {"load", "switch"} :
          Call(s, call) /\ (call # "switch" => active = NoModel)
    BY <1>7 DEF Activate
  <2>2. lock' = s
    BY <1>7 DEF Activate
  <2>3. Becomes(s, "load_chat", call) /\ job'[s].mode = job[s].mode
    BY <2>1, <1>4
  <2>4. Chat(s)' = Chat(s)
    BY <2>3 DEF Chat
  <2>5. provider[Chat(s)] = {} /\ resident[Chat(s)] # "ours"
    BY <1>1, <1>5, <1>7 DEF ChatInvariant, ProviderKnows, Attempting, Owns
  <2>6. provider'[Chat(s)] \in FieldsAt(call)
    BY <2>5, <1>1 DEF FieldsAt
  <2>7. call \in LoadCalls \cup {"switch"} /\ call \notin {"load_model", "service_load"}
    BY DEF LoadCalls
  <2>8. ChatInvariant'
    BY <2>1, <2>2, <2>3, <2>4, <2>5, <2>6, <2>7, <1>1, <1>7, HolderKeeps
  <2> QED
    BY <2>2, <2>3, <2>8, <1>1, <1>2 DEF Becomes
<1> QED
  BY <1>6, <1>7

(* What is known once the lock is free again.                              *)
LEMMA LockFreed ==
  ASSUME TypeOK, ChatInvariant, NEW s \in Sessions, lock = s, lock' = Nobody,
         job' \in [Sessions -> Job], \A t \in Sessions \ {s} : job'[t] = job[t],
         ShapeOf(job'[s]), ~Guarded(job'[s]),
         \A m \in ChatModels :
           /\ resident'[m] = "ours" => Owns(provider'[m])
           /\ provider'[m] \in IF active' = m THEN KeptFields ELSE {{}}
  PROVE  ChatInvariant'
<1>1. LockMatchesWork'
  BY NobodyAssumption DEF ChatInvariant, LockMatchesWork
<1>2. SwitchedFirst'
  BY DEF SwitchedFirst
<1>3. ASSUME NEW m \in ChatModels PROVE ProviderKnows(m)'
  BY DEF ProviderKnows, Attempting
<1> QED
  BY <1>1, <1>2, <1>3 DEF ChatInvariant

(* The previous model is dropped; no load is tried if that raises.         *)
LEMMA SwitchKeeps ==
  ASSUME TypeOK, ChatInvariant, NEW s \in Sessions, Switch(s)
  PROVE  ChatInvariant' /\ RestTyped /\ job' \in [Sessions -> Job]
         /\ lock' \in {lock, Nobody} /\ active' = NoModel
<1>1. job[s].call = "switch" /\ active' = NoModel /\ UNCHANGED <<loaded, indexer, warm>>
  BY DEF Switch, Calling
<1>2. job[s].pc = "load_chat" /\ lock = s /\ s # Nobody
  BY <1>1, NobodyAssumption
     DEF ChatInvariant, LockMatchesWork, ShapeOf, Guarded, LoadCalls
<1>3. PICK refused \in SUBSET {active} : Unload({active}, refused)
  BY DEF Switch, UnloadPrevious, UnloadOne
<1>4. RestTyped
  BY <1>1, <1>3, UnloadTypes DEF RestTyped, TypeOK
<1>5. Chat(s) \in ChatModels /\ Attempting(Chat(s))
  BY <1>2 DEF Chat, ChatModels, Attempting
<1>6. ASSUME NEW m \in ChatModels
      PROVE  provider'[m] = {} /\ resident'[m] # "ours"
  <2>1. ProviderKnows(m)
    BY DEF ChatInvariant
  <2>2. CASE m = active
    <3>1. provider[m] \in KeptFields
      BY <2>1, <2>2 DEF ProviderKnows
    <3> QED
      BY <2>1, <2>2, <3>1, <1>3, ModelsDiffer, DroppedIsGone DEF ProviderKnows
  <2>3. CASE m # active
    <3>1. resident'[m] = resident[m] /\ provider'[m] = provider[m]
      BY <2>3, <1>3, ModelsDiffer, UnloadSparesOthers
    <3>2. provider[m] = {}
      BY <2>1, <2>3, <1>1, <1>2 DEF ProviderKnows, Attempting, FieldsAt
    <3> QED
      BY <2>1, <3>1, <3>2 DEF ProviderKnows, Owns
  <2> QED
    BY <2>2, <2>3
<1>7. ASSUME NEW call \in {"load", "raised"}, Call(s, call)
      PROVE  Becomes(s, "load_chat", call) /\ job'[s].mode = job[s].mode
  <2>1. call \in Calls /\ "idle" \in Pc /\ TRUE \in BOOLEAN
    BY DEF Calls, Pc
  <2> QED
    BY <2>1, <1>2, <1>7, JobSteps
<1>8. CASE Call(s, "load") /\ UNCHANGED lock
  <2>1. job'[s].pc = "load_chat" /\ job'[s].call = "load" /\ job' \in [Sessions -> Job]
        /\ \A t \in Sessions \ {s} : job'[t] = job[t]
    BY <1>7, <1>8 DEF Becomes
  <2>2. LockMatchesWork'
    BY <2>1, <1>2, <1>8 DEF ChatInvariant, LockMatchesWork, ShapeOf, Guarded, LoadCalls
  <2>3. SwitchedFirst'
    BY <1>1 DEF SwitchedFirst
  <2>4. ASSUME NEW m \in ChatModels PROVE ProviderKnows(m)'
    <3>1. active' # m
      BY <1>1, ModelsDiffer
    <3>2. {} \in FieldsAt("load") /\ job'[lock'].call = "load"
      BY <2>1, <1>2, <1>8 DEF FieldsAt
    <3> QED
      BY <3>1, <3>2, <1>6 DEF ProviderKnows
  <2> QED
    BY <2>1, <2>2, <2>3, <2>4, <1>1, <1>4, <1>8 DEF ChatInvariant
<1>9. CASE Call(s, "raised") /\ lock' = Nobody
  <2>1. job'[s].pc = "load_chat" /\ job'[s].call = "raised" /\ job' \in [Sessions -> Job]
        /\ \A t \in Sessions \ {s} : job'[t] = job[t]
    BY <1>7, <1>9 DEF Becomes
  <2>2. ShapeOf(job'[s]) /\ ~Guarded(job'[s])
    BY <2>1, OutsidePlaces
  <2>3. \A m \in ChatModels : active' # m
    BY <1>1, ModelsDiffer
  <2>4. ChatInvariant'
    BY <2>1, <2>2, <2>3, <1>2, <1>6, <1>9, LockFreed
  <2> QED
    BY <2>1, <2>4, <1>1, <1>4, <1>9
<1> QED
  BY <1>8, <1>9 DEF Switch

(* The load has succeeded and is recorded, or it has failed and is undone. *)
LEMMA ChatLoadEndKeeps ==
  ASSUME TypeOK, ChatInvariant, NEW s \in Sessions, ChatLoadEnds(s)
  PROVE  ChatInvariant' /\ RestTyped /\ job' \in [Sessions -> Job]
         /\ lock' = Nobody /\ active' \in ChatModels \cup {NoModel}
<1> DEFINE m == Chat(s)
<1>1. job[s].pc = "load_chat"
  <2>1. job[s].call \in {"loaded", "not_loaded"} /\ Target(s) # Embedding
    BY DEF ChatLoadEnds, Calling
  <2> QED
    BY <2>1 DEF Target
<1>2. lock = s /\ s # Nobody
  BY <1>1, NobodyAssumption
     DEF ChatInvariant, LockMatchesWork, Guarded, LoadCalls, ChatLoadEnds, Calling
<1>3. m \in ChatModels /\ Attempting(m) /\ ProviderKnows(m)
  BY <1>2 DEF ChatInvariant, Chat, ChatModels, Attempting
<1>4. active = NoModel
  BY <1>2 DEF ChatInvariant, SwitchedFirst, ChatLoadEnds, Calling
<1>5. ASSUME NEW n \in ChatModels \ {m} PROVE provider[n] = {} /\ resident[n] # "ours"
  <2>1. ~Attempting(n) /\ ProviderKnows(n) /\ active # n
    BY <1>2, <1>4, ModelsDiffer DEF Attempting, ChatInvariant
  <2> QED
    BY <2>1 DEF ProviderKnows, Owns
<1>6. lock' = Nobody /\ UNCHANGED <<loaded, indexer, warm>>
  BY DEF ChatLoadEnds
<1>7. ASSUME NEW call \in {"returned", "raised"}, Call(s, call)
      PROVE  job' \in [Sessions -> Job] /\ (\A t \in Sessions \ {s} : job'[t] = job[t])
             /\ ShapeOf(job'[s]) /\ ~Guarded(job'[s])
  <2>1. call \in Calls /\ "idle" \in Pc /\ TRUE \in BOOLEAN
    BY DEF Calls, Pc
  <2>2. Becomes(s, "load_chat", call)
    BY <2>1, <1>1, <1>7, JobSteps
  <2> QED
    BY <2>2, OutsidePlaces DEF Becomes
<1>8. CASE Calling(s, "loaded") /\ active' = m /\ Call(s, "returned")
           /\ UNCHANGED <<resident, provider>>
  <2>1. provider[m] \in KeptFields
    BY <1>2, <1>3, <1>8 DEF ProviderKnows, FieldsAt, Calling
  <2>2. RestTyped
    BY <1>6, <1>8 DEF RestTyped, TypeOK
  <2> HIDE DEF m
  <2>3. ASSUME NEW n \in ChatModels
        PROVE  /\ resident'[n] = "ours" => Owns(provider'[n])
               /\ provider'[n] \in IF active' = n THEN KeptFields ELSE {{}}
    <3>1. CASE n = m
      BY <3>1, <2>1, <1>3, <1>8 DEF ProviderKnows
    <3>2. CASE n # m
      BY <3>2, <1>5, <1>8
    <3> QED
      BY <3>1, <3>2
  <2>4. ChatInvariant'
    BY <2>3, <1>2, <1>6, <1>7, <1>8, LockFreed
  <2> QED
    BY <2>2, <2>4, <1>3, <1>6, <1>7, <1>8
<1>9. CASE Calling(s, "not_loaded") /\ UnloadOne(m) /\ Call(s, "raised")
           /\ UNCHANGED active
  <2>1. provider[m] = {}
    BY <1>2, <1>3, <1>9 DEF ProviderKnows, FieldsAt, Calling
  <2>2. PICK refused : Unload({m}, refused)
    BY <1>9 DEF UnloadOne
  <2>3. RestTyped
    BY <2>2, <1>6, UnloadTypes DEF RestTyped, TypeOK
  <2> HIDE DEF m
  <2>4. provider'[m] = {} /\ resident'[m] # "ours"
    <3>1. m \in Models /\ m \in {m} /\ provider[m] \in KeptFields \cup {{}}
      BY <2>1, <1>3, ModelsDiffer
    <3>2. resident[m] = "ours" => Owns(provider[m])
      BY <1>3 DEF ProviderKnows
    <3> QED
      BY <2>2, <3>1, <3>2, DroppedIsGone
  <2>5. ASSUME NEW n \in ChatModels \ {m} PROVE provider'[n] = {} /\ resident'[n] # "ours"
    BY <2>2, <1>5, ModelsDiffer, UnloadSparesOthers
  <2>6. \A n \in ChatModels : active' # n
    BY <1>4, <1>9, ModelsDiffer
  <2>7. ChatInvariant'
    BY <2>4, <2>5, <2>6, <1>2, <1>6, <1>7, <1>9, LockFreed
  <2> QED
    BY <2>3, <2>7, <1>4, <1>6, <1>7, <1>9
<1> QED
  BY <1>8, <1>9 DEF ChatLoadEnds

-----------------------------------------------------------------------------
(* The theorems.                                                           *)

(* Other applications touch no model that GroundNote loads or has loaded.  *)
LEMMA OthersKeep ==
  ASSUME TypeOK, ChatInvariant, Others
  PROVE  ChatInvariant' /\ RestTyped /\ UNCHANGED <<job, lock, active>>
<1>1. PICK m \in Models : OtherLoads(m) \/ OtherUnloads(m)
  BY DEF Others
<1>2. /\ UNCHANGED <<provider, active, lock, loaded, indexer, warm, job>>
      /\ ~BeingLoaded(m)
      /\ resident[m] \in {"out", "theirs"}
      /\ \/ resident' = [resident EXCEPT ![m] = "theirs"]
         \/ resident' = [resident EXCEPT ![m] = "out"]
  BY <1>1 DEF OtherLoads, OtherUnloads
<1>3. /\ resident' \in [Models -> Residence]
      /\ resident'[m] \in {"out", "theirs"}
      /\ \A n \in Models \ {m} : resident'[n] = resident[n]
  BY <1>1, <1>2 DEF TypeOK, Residence
<1>4. RestTyped
  BY <1>2, <1>3 DEF RestTyped, TypeOK
<1>5. LockMatchesWork' /\ SwitchedFirst'
  BY <1>2 DEF ChatInvariant, LockMatchesWork, SwitchedFirst
<1>6. ASSUME NEW n \in ChatModels PROVE ProviderKnows(n)'
  <2>1. ProviderKnows(n) /\ (Attempting(n)' <=> Attempting(n))
    BY <1>2 DEF ChatInvariant, Attempting, Chat
  <2>2. CASE n # m
    <3>1. resident'[n] = resident[n]
      BY <2>2, <1>3, ModelsDiffer
    <3> QED
      BY <2>1, <3>1, <1>2 DEF ProviderKnows
  <2>3. CASE n = m
    <3>1. ~(Attempting(n) /\ job[lock].call \in {"load_model", "service_load"})
      <4>1. SUFFICES ASSUME Attempting(n), job[lock].call \in {"load_model", "service_load"}
                     PROVE  FALSE
        OBVIOUS
      <4>2. lock \in Sessions /\ Guarded(job[lock])
        BY <4>1 DEF Attempting, ChatInvariant, LockMatchesWork, TypeOK
      <4>3. Target(lock) = n
        BY <4>1, <4>2 DEF Guarded, Target, Attempting
      <4> QED
        BY <4>1, <4>2, <4>3, <2>3, <1>2 DEF BeingLoaded
    <3>2. resident'[n] # "ours"
      BY <2>3, <1>3
    <3> QED
      BY <2>1, <3>1, <3>2, <1>2 DEF ProviderKnows
  <2> QED
    BY <2>2, <2>3
<1> QED
  BY <1>2, <1>4, <1>5, <1>6 DEF ChatInvariant

(* Every step of a session is of one of the kinds above.                   *)
LEMMA KindsOfSteps ==
  ASSUME NEW s \in Sessions, Starts(s) \/ Step(s)
  PROVE  \/ QuietStep(s) \/ EmbeddingStep(s) \/ ReleasingStep(s)
         \/ job[s].pc = "load_chat" /\ LoadStep(s)
         \/ Activate(s) \/ Switch(s) \/ ChatLoadEnds(s)
BY DEF Step, ServiceStep, IndexStep, AnswerStep, QuietStep, EmbeddingStep, ReleasingStep

(* Each of them keeps types and invariant.                                 *)
LEMMA SessionKeeps ==
  ASSUME TypeOK, ChatInvariant, NEW s \in Sessions, Starts(s) \/ Step(s), UNCHANGED scenario
  PROVE  TypeOK' /\ ChatInvariant'
<1>1. ASSUME ChatInvariant', RestTyped, job' \in [Sessions -> Job],
             lock' \in {lock, s, Nobody}, active' \in {active} \cup ChatModels \cup {NoModel}
      PROVE  TypeOK' /\ ChatInvariant'
  BY <1>1 DEF TypeOK, RestTyped
<1>2. CASE QuietStep(s) \/ EmbeddingStep(s)
  <2>1. Outsider(s) /\ ChatsAsTheyWere /\ RestTyped
    BY <1>2, QuietSteps, EmbeddingSteps DEF ChatInvariant
  <2> QED
    BY <2>1, <1>1, QuietStepKeeps DEF Outsider, ChatsAsTheyWere
<1>3. CASE ReleasingStep(s)
  <2>1. /\ Outsider(s) /\ RestTyped /\ lock = Nobody
        /\ \/ ChatsAsTheyWere
           \/ \E models \in SUBSET ChatModels :
                /\ \E refused : Unload(models, refused)
                /\ active' = NoModel /\ active \in models \cup {NoModel}
    BY <1>3, ReleasingSteps
  <2>2. ChatInvariant'
    BY <2>1, FreeStepKeeps
  <2>3. active' \in {active, NoModel}
    BY <2>1 DEF ChatsAsTheyWere
  <2> QED
    BY <2>1, <2>2, <2>3, <1>1 DEF Outsider
<1>4. CASE job[s].pc = "load_chat" /\ LoadStep(s)
  BY <1>1, <1>4, GuardedLoadKeeps
<1>5. CASE Activate(s)
  BY <1>1, <1>5, ActivateKeeps
<1>6. CASE Switch(s)
  BY <1>1, <1>6, SwitchKeeps
<1>7. CASE ChatLoadEnds(s)
  BY <1>1, <1>7, ChatLoadEndKeeps
<1> QED
  BY <1>2, <1>3, <1>4, <1>5, <1>6, <1>7, KindsOfSteps

(* In the beginning nothing is loaded.                                     *)
LEMMA ModelsInit == Init => TypeOK /\ ChatInvariant
<1> SUFFICES ASSUME Init PROVE TypeOK /\ ChatInvariant
  OBVIOUS
<1>1. job \in [Sessions -> Job] /\ \A s \in Sessions : job[s] = IdleJob
  BY IdleJobType DEF Init
<1>2. TypeOK
  <2>1. resident \in [Models -> Residence] /\ provider \in [Models -> SUBSET Fields]
    BY DEF Init, Residence
  <2>2. scenario \in Scenario
    BY ScenariosAssumption DEF Init
  <2> QED
    BY <1>1, <2>1, <2>2 DEF TypeOK, Init
<1>3. ShapeOf(IdleJob) /\ ~Guarded(IdleJob)
  BY DEF ShapeOf, Guarded, IdleJob
<1>4. LockMatchesWork /\ SwitchedFirst
  BY <1>1, <1>3, NobodyAssumption DEF LockMatchesWork, SwitchedFirst, Init
<1>5. ASSUME NEW m \in ChatModels PROVE ProviderKnows(m)
  <2>1. m \in Models /\ active # m /\ ~Attempting(m) /\ provider[m] = {}
    BY ModelsDiffer DEF Init, Attempting
  <2>2. resident[m] # "ours"
    BY <2>1 DEF Init
  <2> QED
    BY <2>1, <2>2 DEF ProviderKnows
<1> QED
  BY <1>2, <1>4, <1>5 DEF ChatInvariant

(* The types, and the invariant of the chat lifecycle.                     *)
LEMMA ChatInvariantAlways == Spec => [](TypeOK /\ ChatInvariant)
<1>1. ASSUME TypeOK /\ ChatInvariant, [Next]_vars
      PROVE  (TypeOK /\ ChatInvariant)'
  <2>1. CASE UNCHANGED vars
    BY <1>1, <2>1 DEF vars, TypeOK, ChatInvariant, LockMatchesWork, SwitchedFirst,
       ProviderKnows, Attempting, Chat
  <2>2. CASE \E s \in Sessions : (Starts(s) \/ Step(s)) /\ UNCHANGED scenario
    BY <1>1, <2>2, SessionKeeps
  <2>3. CASE Others /\ UNCHANGED scenario
    BY <1>1, <2>3, OthersKeep DEF TypeOK, RestTyped
  <2> QED
    BY <1>1, <2>1, <2>2, <2>3 DEF Next
<1> QED
  BY <1>1, ModelsInit, PTL DEF Spec

(* Every variable of the lifecycle keeps its type.                         *)
THEOREM ModelTypesCorrect == Spec => []TypeOK
BY ChatInvariantAlways, PTL

(* While nobody holds the lock, the active provider is the one that has a  *)
(* client, and the other has none.                                         *)
THEOREM RecordIsExact == Spec => []ActiveIsTheOneLoaded
<1>1. ChatInvariant => ActiveIsTheOneLoaded
  <2> SUFFICES ASSUME ChatInvariant, lock = Nobody, NEW m \in ChatModels
               PROVE  active = m <=> HasClient(provider[m])
    BY DEF ActiveIsTheOneLoaded
  <2>1. ProviderKnows(m) /\ ~Attempting(m)
    BY DEF ChatInvariant, Attempting
  <2>2. CASE active = m
    BY <2>1, <2>2 DEF ProviderKnows, KeptFields, HasClient
  <2>3. CASE active # m
    BY <2>1, <2>3 DEF ProviderKnows, HasClient
  <2> QED
    BY <2>2, <2>3
<1> QED
  BY <1>1, ChatInvariantAlways, PTL

(* A chat model that GroundNote brought into memory after is_loaded had    *)
(* answered is known to a provider that will ask for its release,          *)
(* whichever call failed on the way.                                       *)
THEOREM NoChatModelIsForgotten == Spec => []ChatModelsAreRemembered
<1>1. ChatInvariant => ChatModelsAreRemembered
  <2> SUFFICES ASSUME ChatInvariant, NEW m \in ChatModels
               PROVE  Remembered(m) /\ Droppable(m)
    BY DEF ChatModelsAreRemembered
  <2>1. ProviderKnows(m)
    BY DEF ChatInvariant
  <2>2. Remembered(m)
    BY <2>1 DEF ProviderKnows, Remembered
  <2>3. provider[m] \in KeptFields \/ provider[m] = {}
        \/ \E call : provider[m] \in FieldsAt(call)
    BY <2>1 DEF ProviderKnows
  <2>4. HasClient(provider[m]) => provider[m] \cap {"model", "service_id"} # {}
    BY <2>3 DEF KeptFields, FieldsAt, HasClient
  <2> QED
    BY <2>2, <2>4 DEF Droppable
<1> QED
  BY <1>1, ChatInvariantAlways, PTL

(* At no time, in the middle of a switch or of a failed load either, are   *)
(* two chat models in memory that GroundNote loaded as its own.            *)
THEOREM OneChatModelInMemory == Spec => []AtMostOneChatModel
<1>1. TypeOK /\ ChatInvariant => AtMostOneChatModel
  <2> SUFFICES ASSUME TypeOK, ChatInvariant
               PROVE  AtMostOneChatModel
    OBVIOUS
  <2> DEFINE Ours == {m \in ChatModels : resident[m] = "ours"}
  <2>1. ASSUME NEW m \in Ours PROVE active = m \/ Attempting(m)
    <3>1. ProviderKnows(m) /\ resident[m] = "ours"
      BY DEF ChatInvariant
    <3> QED
      BY <3>1 DEF ProviderKnows, Owns
  <2>2. ASSUME NEW m \in Ours, NEW n \in Ours PROVE m = n
    <3>1. CASE active = m /\ Attempting(n)
      <4>1. ProviderKnows(n) /\ resident[n] = "ours" /\ m \in ChatModels
        BY DEF ChatInvariant
      <4>2. job[lock].call # "switch"
        BY <3>1, <4>1 DEF ProviderKnows, FieldsAt, Owns
      <4>3. active = NoModel
        BY <3>1, <4>2 DEF ChatInvariant, SwitchedFirst, Attempting
      <4> QED
        BY <3>1, <4>1, <4>3, ModelsDiffer
    <3>2. CASE active = n /\ Attempting(m)
      <4>1. ProviderKnows(m) /\ resident[m] = "ours" /\ n \in ChatModels
        BY DEF ChatInvariant
      <4>2. job[lock].call # "switch"
        BY <3>2, <4>1 DEF ProviderKnows, FieldsAt, Owns
      <4>3. active = NoModel
        BY <3>2, <4>2 DEF ChatInvariant, SwitchedFirst, Attempting
      <4> QED
        BY <3>2, <4>1, <4>3, ModelsDiffer
    <3> QED
      BY <2>1, <3>1, <3>2 DEF Attempting
  <2>3. CASE Ours = {}
    <3>1. Cardinality(Ours) = 0
      BY <2>3, FS_EmptySet
    <3> QED
      BY <3>1 DEF AtMostOneChatModel
  <2>4. CASE Ours # {}
    <3>1. PICK m \in Ours : TRUE
      BY <2>4
    <3>2. Ours = {m}
      BY <2>2, <3>1
    <3>3. Cardinality({m}) = 1
      BY FS_Singleton
    <3>4. Cardinality(Ours) = 1
      BY <3>2, <3>3
    <3> QED
      BY <3>4 DEF AtMostOneChatModel
  <2> QED
    BY <2>3, <2>4
<1> QED
  BY <1>1, ChatInvariantAlways, PTL

-----------------------------------------------------------------------------
(* Models of other applications.                                           *)

(* The calls of a load that may run while its model is owned and not yet,  *)
(* or not any more, in memory.                                             *)
Resolving == {"load_model", "load_unanswered", "rollback", "service_lookup",
              "service_load", "service_unanswered", "service_rollback"}

(* A provider that would ask for the release of its model has no claim on   *)
(* a model of another application, and if the model is not in memory there  *)
(* is a load under way that keeps other applications away from it.         *)
OwnedIsOurs(m) ==
  Owns(provider[m]) =>
    /\ resident[m] # "theirs"
    /\ resident[m] = "out" => \E s \in Sessions : Target(s) = m /\ job[s].call \in Resolving

ModelsAreOurs == \A m \in Models : OwnedIsOurs(m)

(* What is unloaded is given up, and only what is owned goes away.         *)
GivesUp(n) ==
  \/ provider'[n] = provider[n] /\ resident'[n] = resident[n]
  \/ ~Owns(provider'[n]) /\ (resident'[n] = resident[n] \/ Owns(provider[n]))

(* That is so of each model when some providers are unloaded.              *)
LEMMA UnloadGivesUp ==
  ASSUME TypeOK, NEW models, NEW refused, Unload(models, refused), NEW n \in Models
  PROVE  GivesUp(n)
<1>1. provider[n] \in SUBSET Fields
  BY DEF TypeOK
<1>2. CASE n \notin models
  BY <1>2, UnloadSparesOthers DEF GivesUp
<1>3. CASE n \in models
  <2>1. /\ provider'[n] = Cleared(provider[n])
        /\ resident'[n] = IF AsksToUnload(provider[n])
                          THEN AfterUnload(resident[n], n \notin refused) ELSE resident[n]
    BY <1>3 DEF Unload
  <2>2. CASE provider[n] \cap {"service_id", "model"} = {}
    <3>1. provider'[n] = provider[n] /\ ~AsksToUnload(provider[n])
      BY <2>1, <2>2 DEF Cleared, AsksToUnload
    <3> QED
      BY <2>1, <3>1 DEF GivesUp
  <2>3. CASE provider[n] \cap {"service_id", "model"} # {}
    <3>1. provider'[n] = {}
      BY <2>1, <2>3 DEF Cleared
    <3>2. AsksToUnload(provider[n]) => Owns(provider[n])
      BY DEF AsksToUnload, Owns
    <3> QED
      BY <2>1, <3>1, <3>2 DEF GivesUp, Owns
  <2> QED
    BY <2>2, <2>3
<1> QED
  BY <1>2, <1>3

(* A session outside of those calls that unloads providers, or none.       *)
LEMMA GivingUpKeeps ==
  ASSUME TypeOK, ModelsAreOurs, NEW s \in Sessions, job[s].call \notin Resolving,
         \A t \in Sessions \ {s} : job'[t] = job[t],
         \A n \in Models : GivesUp(n)
  PROVE  /\ ModelsAreOurs'
         /\ \A n \in Models : resident[n] = "theirs" => resident'[n] = "theirs"
<1>1. ASSUME NEW n \in Models
      PROVE  OwnedIsOurs(n)' /\ (resident[n] = "theirs" => resident'[n] = "theirs")
  <2>1. OwnedIsOurs(n) /\ GivesUp(n)
    BY DEF ModelsAreOurs
  <2>2. resident[n] = "theirs" => resident'[n] = "theirs"
    BY <2>1 DEF OwnedIsOurs, GivesUp
  <2>3. CASE ~Owns(provider'[n])
    BY <2>2, <2>3 DEF OwnedIsOurs
  <2>4. CASE Owns(provider'[n])
    <3>1. provider'[n] = provider[n] /\ resident'[n] = resident[n]
      BY <2>1, <2>4 DEF GivesUp
    <3>2. ASSUME NEW t \in Sessions, Target(t) = n, job[t].call \in Resolving
          PROVE  t # s /\ Target(t)' = n /\ job'[t].call \in Resolving
      BY <3>2 DEF Target, Chat
    <3> QED
      BY <2>1, <2>2, <3>1, <3>2 DEF OwnedIsOurs
  <2> QED
    BY <2>3, <2>4
<1> QED
  BY <1>1 DEF ModelsAreOurs

(* The places between the calls of a load.                                 *)
Between == {"none", "service_flag", "returned", "raised", "loaded", "not_loaded",
            "activate", "switch"}

(* Steps of sessions that are no calls of a load unload providers or none. *)
LEMMA OtherStepsDrop ==
  ASSUME TypeOK, ChatInvariant, NEW s \in Sessions, Starts(s) \/ Step(s), ~LoadStep(s)
  PROVE  /\ job[s].call \in Between
         /\ \A t \in Sessions \ {s} : job'[t] = job[t]
         /\ \/ UNCHANGED <<provider, resident>>
            \/ \E models, refused : Unload(models, refused)
<1> DEFINE Same == provider' = provider /\ resident' = resident
           Drops == \E models, refused : Unload(models, refused)
<1>1. Same \/ Drops => \/ UNCHANGED <<provider, resident>>
                        \/ \E models, refused : Unload(models, refused)
  OBVIOUS
<1>2. ASSUME NEW m, Release(m) \/ UnloadOne(m) PROVE Same \/ Drops
  BY <1>2 DEF Release, UnloadOne
<1>3. UnloadEmbedding => Same \/ Drops
  BY DEF UnloadEmbedding, UnloadOne
<1>c. {"none", "service_flag", "returned", "raised", "loaded", "not_loaded",
        "activate", "switch"} \subseteq Between
  BY DEF Between
<1>j. job \in [Sessions -> Job] /\ LockMatchesWork
  BY DEF TypeOK, ChatInvariant
<1> HIDE DEF Same, Drops
<1>4. CASE QuietStep(s)
  <2>1. \A t \in Sessions \ {s} : job'[t] = job[t]
    BY <1>4, QuietSteps DEF Outsider
  <2>2. CASE Starts(s)
    BY <1>1, <1>c, <2>1, <2>2 DEF Starts, StartQuestion, StartUpload, StartReindex,
       StartUnload, StartCleanup, Start, At, Same
  <2>3. CASE Search(s) \/ EmbedQuery(s) \/ Retrieved(s) \/ Generate(s) \/ GenerationEnds(s)
             \/ Generated(s) \/ Answered(s)
    BY <1>1, <1>c, <2>1, <2>3 DEF Search, EmbedQuery, Retrieved, Generate, GenerationEnds,
       Generated, Answered, At, Same
  <2>4. CASE Claim(s) \/ EmbedBatch(s) \/ LetGo(s) \/ Indexed(s)
    BY <1>1, <1>c, <2>1, <2>4 DEF Claim, EmbedBatch, LetGo, Indexed, At, Same
  <2>5. CASE ReleaseForChat(s) \/ EmbedFailed(s) \/ EmbedFinally(s) \/ EmbeddingUnload(s)
    BY <1>1, <1>3, <1>c, <2>1, <2>5 DEF ReleaseForChat, EmbedFailed, EmbedFinally,
       EmbeddingUnload, At
  <2> QED
    BY <1>4, <2>2, <2>3, <2>4, <2>5 DEF QuietStep
<1>5. CASE ReleasingStep(s)
  <2>1. \A t \in Sessions \ {s} : job'[t] = job[t]
    BY <1>5, ReleasingSteps DEF Outsider
  <2>2. job[s].call = "none"
    BY <1>5 DEF ReleasingStep, ReleaseBalanced, ReleaseFast, LoadFailed, ReleaseFailed,
       UnloadFailed, ChatFinally, Shutdown, ReleaseStep, At
  <2>3. Same \/ Drops
    <3>1. CASE Shutdown(s)
      BY <3>1 DEF Shutdown, ShutdownChats, Drops
    <3>2. CASE ~Shutdown(s)
      BY <1>2, <1>5, <3>2 DEF ReleasingStep, ReleaseBalanced, ReleaseFast, LoadFailed,
         ReleaseFailed, UnloadFailed, ChatFinally, ReleaseStep
    <3> QED
      BY <3>1, <3>2
  <2> QED
    BY <1>1, <1>c, <2>1, <2>2, <2>3
<1>6. CASE EmbeddingStep(s)
  <2>1. \A t \in Sessions \ {s} : job'[t] = job[t]
    BY <1>6, <1>j, EmbeddingSteps DEF Outsider
  <2>2. ServiceFlag(s) \/ EmbeddingLoadEnds(s) \/ EmbeddingLoaded(s) \/ ChatLoaded(s)
    BY <1>6 DEF EmbeddingStep
  <2>3. job[s].call \in {"service_flag", "loaded", "not_loaded", "returned", "raised"} /\ Same
    BY <2>2 DEF ServiceFlag, EmbeddingLoadEnds, EmbeddingLoaded, ChatLoaded, Calling, Same
  <2> QED
    BY <1>1, <1>c, <2>1, <2>3
<1>7. CASE Activate(s) \/ Switch(s) \/ ChatLoadEnds(s)
  <2>1. \E call : Call(s, call)
    BY <1>7 DEF Activate, Switch, ChatLoadEnds
  <2>2. \A t \in Sessions \ {s} : job'[t] = job[t]
    BY <1>j, <2>1 DEF Call
  <2>3. job[s].call \in {"activate", "switch", "loaded", "not_loaded"}
    BY <1>7 DEF Activate, Switch, ChatLoadEnds, Calling
  <2>4. Same \/ Drops
    <3>1. UnloadPrevious => Same \/ Drops
      BY <1>2 DEF UnloadPrevious
    <3> QED
      BY <1>2, <1>7, <3>1 DEF Activate, Switch, ChatLoadEnds, Same
  <2> QED
    BY <1>1, <1>c, <2>2, <2>3, <2>4
<1> QED
  BY <1>4, <1>5, <1>6, <1>7, KindsOfSteps

(* A call of a load owns only what it found absent, and says so before it   *)
(* brings it in; the other models are left alone.                          *)
LEMMA LoadKeepsOurs ==
  ASSUME TypeOK, ModelsAreOurs, NEW s \in Sessions, LoadStep(s)
  PROVE  /\ ModelsAreOurs'
         /\ \A n \in Models : resident[n] = "theirs" => resident'[n] = "theirs"
<1>0. PICK m \in Models : m = Target(s)
  BY ModelsDiffer DEF Target, Chat, ChatModels
<1>1. /\ job \in [Sessions -> Job] /\ job[s] \in Job
      /\ resident \in [Models -> Residence] /\ provider \in [Models -> SUBSET Fields]
      /\ provider[m] \in SUBSET Fields /\ resident[m] \in Residence
  BY DEF TypeOK
<1>2. PICK call \in LoadCalls : Call(s, call)
  BY LoadStepsAreLocal DEF LoadOf
<1>3. /\ \A t \in Sessions : Target(t)' = Target(t)
      /\ \A t \in Sessions \ {s} : job'[t] = job[t]
      /\ job'[s].call = call
  BY <1>1, <1>2 DEF Call, Target, Chat, Job
<1>4. ASSUME NEW n \in Models, n # m
      PROVE  OwnedIsOurs(n)' /\ (resident[n] = "theirs" => resident'[n] = "theirs")
  <2>1. resident'[n] = resident[n] /\ provider'[n] = provider[n] /\ OwnedIsOurs(n)
    BY <1>0, <1>4, LoadStepsAreLocal DEF LoadOf, ModelsAreOurs
  <2>2. ASSUME NEW t \in Sessions, Target(t) = n, job[t].call \in Resolving
        PROVE  Target(t)' = n /\ job'[t].call \in Resolving
    BY <1>0, <1>3, <1>4, <2>2
  <2> QED
    BY <2>1, <2>2 DEF OwnedIsOurs
<1> DEFINE p == provider[m]  q == provider'[m]  r == resident[m]  z == resident'[m]
           Held == \E t \in Sessions \ {s} : Target(t) = m /\ job[t].call \in Resolving
<1>5. Owns(p) => r # "theirs" /\ (r = "out" => Held \/ job[s].call \in Resolving)
  BY DEF ModelsAreOurs, OwnedIsOurs
<1>6. ASSUME r = "theirs" => z = "theirs",
             Owns(q) => z # "theirs" /\ (z = "out" => Held \/ call \in Resolving)
      PROVE  OwnedIsOurs(m)' /\ (resident[m] = "theirs" => resident'[m] = "theirs")
  <2>1. Held => \E t \in Sessions : Target(t)' = m /\ job'[t].call \in Resolving
    BY <1>3
  <2>2. call \in Resolving => \E t \in Sessions : Target(t)' = m /\ job'[t].call \in Resolving
    BY <1>0, <1>3
  <2> QED
    BY <1>6, <2>1, <2>2 DEF OwnedIsOurs
<1>7. ASSUME NEW add, NEW drop, SetProvider(m, add, drop)
      PROVE  q = (p \ drop) \cup add
  BY <1>1, <1>7 DEF SetProvider
<1>9. /\ r = "out" => BroughtIn(s)[m] \in {"ours", "unclaimed"}
      /\ r # "out" => BroughtIn(s)[m] = r
  BY <1>0, <1>1 DEF BroughtIn
<1>10. ASSUME NEW handle, NEW owned, NEW fields, Undo(m, handle, owned, fields),
              {handle, owned} \cap {"direct_owned", "service_owned"} # {}
       PROVE  /\ q = p \ fields
              /\ z = r \/ Owns(p)
              /\ z \in {r, "out", "stuck"}
  <2>1. q = p \ fields
    BY <1>7, <1>10 DEF Undo
  <2>2. CASE {handle, owned} \subseteq p
    <3>1. PICK ok \in {TRUE, ~Faulty} : resident' = [resident EXCEPT ![m] = AfterUnload(@, ok)]
      BY <1>10, <2>2 DEF Undo
    <3>2. z = AfterUnload(r, ok)
      BY <1>1, <3>1
    <3> QED
      BY <1>10, <2>1, <2>2, <3>2 DEF Owns, AfterUnload
  <2>3. CASE ~({handle, owned} \subseteq p)
    BY <1>10, <2>1, <2>3 DEF Undo
  <2> QED
    BY <2>2, <2>3, <2>1
<1>11. ASSUME NEW other, Call(s, other) PROVE call = other
  BY <1>1, <1>2, <1>11 DEF Call, Job
<1>12. ASSUME q = p, z = r, job[s].call \in Resolving => call \in Resolving
       PROVE  OwnedIsOurs(m)' /\ (resident[m] = "theirs" => resident'[m] = "theirs")
  BY <1>5, <1>6, <1>12
<1>o. Owns(q) <=> "direct_owned" \in q \/ "service_owned" \in q
  BY DEF Owns
<1>w. Owns(p) <=> "direct_owned" \in p \/ "service_owned" \in p
  BY DEF Owns
<1>l. Loaded(m) <=> r # "out"
  BY DEF Loaded
<1>m. m = Target(s)
  BY <1>0
<1>s. resident' = resident => z = r
  OBVIOUS
<1>q. provider' = provider => q = p
  OBVIOUS
<1>b. resident' = BroughtIn(s) => (r = "out" => z \in {"ours", "unclaimed"}) /\ (r # "out" => z = r)
  BY <1>9
<1> HIDE DEF p, q, r, z, Held
<1>29. OwnedIsOurs(m)' /\ (resident[m] = "theirs" => resident'[m] = "theirs")
  <2>20. CASE LoadBegins(s)
    BY <2>20, <1>12, <1>s, <1>q DEF LoadBegins, Calling, Resolving
  <2>21. CASE Lookup(s)
    <3>1. z = r /\ job[s].call \notin Resolving
      BY <2>21, <1>s DEF Lookup, Calling, Resolving
    <3>2. CASE SetProvider(m, {"model"} \cup (IF Loaded(m) THEN {} ELSE {"direct_owned"}),
                              {"direct_owned"}) /\ Call(s, "load_model")
      <4>1. q = (p \ {"direct_owned"})
                    \cup ({"model"} \cup (IF Loaded(m) THEN {} ELSE {"direct_owned"}))
            /\ call = "load_model"
        BY <3>2, <1>7, <1>11
      <4>2. Owns(q) => r = "out" \/ Owns(p)
        BY <4>1, <1>l, <1>o, <1>w
      <4> QED
        BY <3>1, <4>1, <4>2, <1>5, <1>6 DEF Resolving
    <3>3. CASE Call(s, "rollback") /\ UNCHANGED provider
      BY <3>1, <3>3, <1>11, <1>12, <1>q
    <3>4. CASE SetProvider(m, {"model"}, {"direct_owned"}) /\ Call(s, "load_unanswered")
      <4>1. q = (p \ {"direct_owned"}) \cup {"model"} /\ call = "load_unanswered"
        BY <3>4, <1>7, <1>11
      <4>2. Owns(q) => Owns(p)
        BY <4>1, <1>o, <1>w
      <4> QED
        BY <3>1, <4>1, <4>2, <1>5, <1>6 DEF Resolving
    <3> QED
      BY <2>21, <1>m, <3>2, <3>3, <3>4 DEF Lookup
  <2>22. CASE LoadModel(s)
    <3>1. q = p
      BY <2>22, <1>q DEF LoadModel
    <3>2. z = r \/ (r = "out" /\ z \in {"ours", "unclaimed"})
      BY <2>22, <1>m, <1>s, <1>b DEF LoadModel
    <3>3. z = "out" => call = "rollback"
      BY <2>22, <1>m, <1>b, <1>11 DEF LoadModel
    <3> QED
      BY <3>1, <3>2, <3>3, <1>5, <1>6 DEF Resolving
  <2>23. CASE GetClient(s)
    <3>1. z = r /\ job[s].call \notin Resolving
      BY <2>23, <1>s DEF GetClient, Calling, Resolving
    <3>2. q = p \/ q = (p \ {}) \cup {"client"}
      BY <2>23, <1>m, <1>q, <1>7 DEF GetClient
    <3> QED
      BY <3>1, <3>2, <1>5, <1>6, <1>o, <1>w
  <2>24. CASE Rollback(s)
    <3>1. Undo(m, "model", "direct_owned", DirectFields) /\ call = "service_lookup"
      BY <2>24, <1>m, <1>11 DEF Rollback
    <3>2. q = p \ DirectFields /\ (z = r \/ Owns(p)) /\ z \in {r, "out", "stuck"}
      BY <3>1, <1>10
    <3> QED
      BY <3>1, <3>2, <1>5, <1>6, <1>o, <1>w DEF Resolving
  <2>25. CASE ServiceLookup(s)
    <3>1. z = r
      BY <2>25, <1>s DEF ServiceLookup
    <3>2. CASE SetProvider(m, {"service_id"} \cup (IF Loaded(m) THEN {} ELSE {"service_owned"}),
                              {"service_owned"}) /\ Call(s, "service_load")
      <4>1. q = (p \ {"service_owned"})
                    \cup ({"service_id"} \cup (IF Loaded(m) THEN {} ELSE {"service_owned"}))
            /\ call = "service_load"
        BY <3>2, <1>7, <1>11
      <4>2. Owns(q) => r = "out" \/ Owns(p)
        BY <4>1, <1>l, <1>o, <1>w
      <4> QED
        BY <3>1, <4>1, <4>2, <1>5, <1>6 DEF Resolving
    <3>3. CASE Call(s, "service_rollback") /\ UNCHANGED provider
      BY <3>1, <3>3, <1>11, <1>12, <1>q DEF Resolving
    <3>4. CASE SetProvider(m, {"service_id"}, {"service_owned"}) /\ Call(s, "service_unanswered")
      <4>1. q = (p \ {"service_owned"}) \cup {"service_id"} /\ call = "service_unanswered"
        BY <3>4, <1>7, <1>11
      <4>2. Owns(q) => Owns(p)
        BY <4>1, <1>o, <1>w
      <4> QED
        BY <3>1, <4>1, <4>2, <1>5, <1>6 DEF Resolving
    <3> QED
      BY <2>25, <1>m, <3>2, <3>3, <3>4 DEF ServiceLookup
  <2>26. CASE ServiceLoad(s)
    <3>1. q = p
      BY <2>26, <1>q DEF ServiceLoad
    <3>2. z = r \/ (r = "out" /\ z \in {"ours", "unclaimed"})
      BY <2>26, <1>m, <1>s, <1>b DEF ServiceLoad
    <3>3. z = "out" => call = "service_rollback"
      BY <2>26, <1>m, <1>b, <1>11 DEF ServiceLoad
    <3> QED
      BY <3>1, <3>2, <3>3, <1>5, <1>6 DEF Resolving
  <2>27. CASE ServiceClient(s)
    <3>1. z = r /\ job[s].call \notin Resolving
      BY <2>27, <1>s DEF ServiceClient, Calling, Resolving
    <3>2. q = p \/ q = (p \ {"client"}) \cup {"service_client"}
      BY <2>27, <1>m, <1>q, <1>7 DEF ServiceClient
    <3> QED
      BY <3>1, <3>2, <1>5, <1>6, <1>o, <1>w
  <2>28. CASE ServiceRollback(s)
    <3>1. Undo(m, "service_id", "service_owned", Fields)
      BY <2>28, <1>m DEF ServiceRollback
    <3>2. q = p \ Fields /\ (z = r \/ Owns(p))
      BY <3>1, <1>10
    <3>3. ~Owns(q)
      BY <3>2, <1>o DEF Fields
    <3> QED
      BY <3>2, <3>3, <1>5, <1>6
  <2> QED
    BY <2>20, <2>21, <2>22, <2>23, <2>24, <2>25, <2>26, <2>27, <2>28 DEF LoadStep
<1> QED
  BY <1>4, <1>29 DEF ModelsAreOurs

(* Other applications meet no model that GroundNote claims.                *)
LEMMA OthersKeepOurs ==
  ASSUME TypeOK, ModelsAreOurs, Others
  PROVE  /\ ModelsAreOurs'
         /\ \A n \in Models : resident[n] = "theirs" /\ resident'[n] # "theirs" => OtherUnloads(n)
<1>1. PICK m \in Models : OtherLoads(m) \/ OtherUnloads(m)
  BY DEF Others
<1>2. UNCHANGED <<provider, job>> /\ \A n \in Models \ {m} : resident'[n] = resident[n]
  BY <1>1 DEF OtherLoads, OtherUnloads, TypeOK
<1>3. ~Owns(provider[m])
  BY <1>1 DEF OtherLoads, OtherUnloads, BeingLoaded, ModelsAreOurs, OwnedIsOurs, Resolving
<1>4. OwnedIsOurs(m)'
  BY <1>2, <1>3 DEF OwnedIsOurs
<1>5. ASSUME NEW n \in Models, n # m PROVE OwnedIsOurs(n)'
  BY <1>2, <1>5 DEF ModelsAreOurs, OwnedIsOurs, Target, Chat
<1>6. OtherLoads(m) => resident[m] = "out"
  BY DEF OtherLoads
<1> QED
  BY <1>1, <1>2, <1>4, <1>5, <1>6 DEF ModelsAreOurs

(* For any number of sessions, with or without failures: what another      *)
(* application loaded is unloaded by that application only.                *)
THEOREM ModelsOfOthersStay == Spec => OthersModelsStay
<1>1. Init => ModelsAreOurs
  <2>1. ASSUME Init, NEW m \in Models PROVE ~Owns(provider[m])
    BY <2>1 DEF Init, Owns
  <2> QED
    BY <2>1 DEF ModelsAreOurs, OwnedIsOurs
<1>2. ASSUME TypeOK, ChatInvariant, ModelsAreOurs, [Next]_vars
      PROVE  /\ ModelsAreOurs'
             /\ \A m \in Models :
                  resident[m] = "theirs" /\ resident'[m] # "theirs" => OtherUnloads(m)
  <2>1. CASE UNCHANGED vars
    BY <1>2, <2>1 DEF vars, ModelsAreOurs, OwnedIsOurs, Target, Chat
  <2>2. ASSUME NEW s \in Sessions, Starts(s) \/ Step(s), ~LoadStep(s)
        PROVE  /\ ModelsAreOurs'
               /\ \A n \in Models : resident[n] = "theirs" => resident'[n] = "theirs"
    <3>1. /\ job[s].call \in Between
          /\ \A t \in Sessions \ {s} : job'[t] = job[t]
          /\ \/ UNCHANGED <<provider, resident>>
             \/ \E models, refused : Unload(models, refused)
      BY <1>2, <2>2, OtherStepsDrop
    <3>2. job[s].call \notin Resolving
      BY <3>1 DEF Between, Resolving
    <3>3. \A n \in Models : GivesUp(n)
      BY <1>2, <3>1, UnloadGivesUp DEF GivesUp
    <3> QED
      BY <1>2, <3>1, <3>2, <3>3, GivingUpKeeps
  <2>3. ASSUME NEW s \in Sessions, LoadStep(s)
        PROVE  /\ ModelsAreOurs'
               /\ \A n \in Models : resident[n] = "theirs" => resident'[n] = "theirs"
    BY <1>2, <2>3, LoadKeepsOurs
  <2>4. CASE Others
    BY <1>2, <2>4, OthersKeepOurs
  <2> QED
    BY <1>2, <2>1, <2>2, <2>3, <2>4 DEF Next
<1>3. TypeOK /\ ChatInvariant /\ ModelsAreOurs /\ [Next]_vars => ModelsAreOurs'
  BY <1>2
<1>4. TypeOK /\ ChatInvariant /\ ModelsAreOurs /\ [Next]_vars =>
        [\A m \in Models :
           resident[m] = "theirs" /\ resident'[m] # "theirs" => OtherUnloads(m)]_vars
  BY <1>2
<1> QED
  BY <1>1, <1>3, <1>4, ChatInvariantAlways, PTL DEF Spec, OthersModelsStay

-----------------------------------------------------------------------------
(* A lone session.                                                         *)

(* The embedding model is being loaded, after the look at the client.      *)
LoadsEmbedding(s) == job[s].pc = "load_embedding" /\ job[s].call \in LoadCalls \ {"load"}

(* What a lone session's provider of the embedding model has set, between  *)
(* loads and in the middle of one.                                         *)
EmbeddingKnown(s) ==
  /\ resident[Embedding] = "ours" => Owns(provider[Embedding])
  /\ ~LoadsEmbedding(s) => provider[Embedding] \in KeptFields \cup {{}}
  /\ LoadsEmbedding(s) =>
       /\ provider[Embedding] \in FieldsAt(job[s].call)
       /\ job[s].call \in {"load_model", "service_load"} /\ resident[Embedding] = "out"
            => Owns(provider[Embedding])

AloneKnows ==
  \A s \in Sessions : scenario.users = {s} =>
    /\ EmbeddingKnown(s)
    /\ \A t \in Sessions \ {s} : job[t].pc = "idle" /\ job[t].call = "none"

(* An idle session takes no step but to start an operation.                *)
LEMMA IdleSteps ==
  ASSUME NEW s \in Sessions, job[s].pc = "idle", job[s].call = "none"
  PROVE  ~Step(s)
<1>1. ~LoadStep(s)
  BY DEF LoadStep, LoadBegins, Lookup, LoadModel, GetClient, Rollback, ServiceLookup,
     ServiceLoad, ServiceClient, ServiceRollback, Calling
<1>2. ~ServiceStep(s)
  BY DEF ServiceStep, ServiceFlag, EmbeddingLoadEnds, Activate, Switch, ChatLoadEnds, Calling
<1>3. ~IndexStep(s)
  BY DEF IndexStep, ReleaseBalanced, ReleaseFast, Claim, EmbedBatch, LetGo, Indexed, At
<1>4. ~AnswerStep(s)
  BY DEF AnswerStep, Search, EmbedQuery, Retrieved, ReleaseForChat, ChatLoaded, Generate,
     GenerationEnds, LoadFailed, ReleaseFailed, UnloadFailed, ChatFinally, Generated, Answered,
     ReleaseStep, At
<1> QED
  BY <1>1, <1>2, <1>3, <1>4 DEF Step, EmbeddingLoaded, EmbedFailed, EmbedFinally,
     EmbeddingUnload, Shutdown, At

(* Nobody but a user starts one.                                           *)
LEMMA UsersStart ==
  ASSUME NEW s \in Sessions, Starts(s)
  PROVE  s \in scenario.users
BY DEF Starts, StartQuestion, StartUpload, StartReindex, StartUnload, StartCleanup, Start

(* Where a job is after each of the ways to go on.                         *)
LEMMA NextCalls ==
  ASSUME TypeOK, NEW s \in Sessions
  PROVE  /\ \A pc : Goto(s, pc) \/ Fail(s, pc) => job'[s].call = "none" /\ job'[s].pc = pc
         /\ \A call : Call(s, call) =>
              job'[s].call = call /\ job'[s].pc = job[s].pc /\ job'[s].mode = job[s].mode
         /\ Finish(s) => job'[s].call = "none" /\ job'[s].pc = "idle"
         /\ LoadEmbedding(s) => job'[s].call = "service_flag" /\ job'[s].pc = "load_embedding"
         /\ \A again : LoadChat(s, again) =>
              job'[s].call = "activate" /\ job'[s].pc = "load_chat"
<1>1. job \in [Sessions -> Job] /\ job[s] \in Job
  BY DEF TypeOK
<1>2. \A pc : Goto(s, pc) => job'[s].call = "none" /\ job'[s].pc = pc
  BY <1>1 DEF Goto, Job
<1>3. \A pc : Fail(s, pc) => job'[s].call = "none" /\ job'[s].pc = pc
  BY <1>1 DEF Fail, Job
<1>4. \A call : Call(s, call) =>
        job'[s].call = call /\ job'[s].pc = job[s].pc /\ job'[s].mode = job[s].mode
  BY <1>1 DEF Call, Job
<1>5. Finish(s) => job'[s].call = "none" /\ job'[s].pc = "idle"
  BY <1>1 DEF Finish, IdleJob
<1>6. LoadEmbedding(s) => job'[s].call = "service_flag" /\ job'[s].pc = "load_embedding"
  BY <1>1 DEF LoadEmbedding, Job
<1>7. \A again : LoadChat(s, again) =>
        job'[s].call = "activate" /\ job'[s].pc = "load_chat"
  BY <1>1 DEF LoadChat, Job
<1> QED
  BY <1>2, <1>3, <1>4, <1>5, <1>6, <1>7

(* A step that is no call of a load leads to no call after the first one.  *)
LEMMA OtherStepsLead ==
  ASSUME TypeOK, NEW s \in Sessions, Starts(s) \/ Step(s), ~LoadStep(s)
  PROVE  job'[s].call \in {"none", "service_flag", "activate", "load", "switch", "returned", "raised"}
<1>0. job \in [Sessions -> Job]
  BY DEF TypeOK
<1>1. CASE Starts(s)
  BY <1>0, <1>1 DEF Starts, StartQuestion, StartUpload, StartReindex, StartUnload,
     StartCleanup, Start, IdleJob
<1>2. CASE ServiceStep(s)
  <2>1. \E call \in {"load", "switch", "returned", "raised"} : Call(s, call)
    BY <1>2 DEF ServiceStep, ServiceFlag, EmbeddingLoadEnds, Activate, Switch, ChatLoadEnds
  <2> QED
    BY <2>1, NextCalls
<1>3. CASE EmbedBatch(s)
  BY <1>0, <1>3, NextCalls DEF EmbedBatch, At, Job
<1>4. CASE IndexStep(s) /\ ~EmbedBatch(s)
  BY <1>4, NextCalls DEF IndexStep, ReleaseBalanced, ReleaseFast, Claim, LetGo, Indexed
<1>5. CASE AnswerStep(s)
  BY <1>5, NextCalls DEF AnswerStep, Search, EmbedQuery, Retrieved, ReleaseForChat, ChatLoaded,
     Generate, GenerationEnds, LoadFailed, ReleaseFailed, UnloadFailed, ChatFinally,
     Generated, Answered
<1>6. CASE EmbeddingLoaded(s) \/ EmbedFailed(s) \/ EmbedFinally(s)
             \/ EmbeddingUnload(s) \/ Shutdown(s)
  BY <1>6, NextCalls DEF EmbeddingLoaded, EmbedFailed, EmbedFinally, EmbeddingUnload, Shutdown
<1> QED
  BY <1>1, <1>2, <1>3, <1>4, <1>5, <1>6 DEF Step

(* What the lone session knows of the embedding model it knows after each  *)
(* step that is no call of a load,                                         *)
LEMMA LonePlaces ==
  ASSUME TypeOK, ChatInvariant, NEW s \in Sessions, EmbeddingKnown(s),
         Starts(s) \/ Step(s), ~LoadStep(s)
  PROVE  EmbeddingKnown(s)'
<1>1. /\ job[s].call \in Between
      /\ \/ UNCHANGED <<provider, resident>>
         \/ \E models, refused : Unload(models, refused)
  BY OtherStepsDrop
<1>2. ~LoadsEmbedding(s)'
  BY OtherStepsLead DEF LoadsEmbedding, LoadCalls
<1>3. provider[Embedding] \in KeptFields \cup {{}}
  <2>1. CASE LoadsEmbedding(s)
    <3>1. job[s].call \in {"loaded", "not_loaded"}
      BY <1>1, <2>1 DEF LoadsEmbedding, LoadCalls, Between
    <3> QED
      BY <2>1, <3>1 DEF EmbeddingKnown, FieldsAt
  <2> QED
    BY <2>1 DEF EmbeddingKnown
<1>4. /\ resident'[Embedding] = "ours" => Owns(provider'[Embedding])
      /\ provider'[Embedding] \in KeptFields \cup {{}}
  <2>1. Embedding \in Models /\ (resident[Embedding] = "ours" => Owns(provider[Embedding]))
    BY ModelsDiffer DEF EmbeddingKnown
  <2>2. CASE UNCHANGED <<provider, resident>>
    BY <1>3, <2>1, <2>2
  <2>3. ASSUME NEW models, NEW refused, Unload(models, refused)
        PROVE  /\ resident'[Embedding] = "ours" => Owns(provider'[Embedding])
               /\ provider'[Embedding] \in KeptFields \cup {{}}
    <3>1. CASE Embedding \in models
      BY <1>3, <2>1, <2>3, <3>1, DroppedIsGone
    <3>2. CASE Embedding \notin models
      <4>1. resident'[Embedding] = resident[Embedding] /\ provider'[Embedding] = provider[Embedding]
        BY <2>1, <2>3, <3>2, UnloadSparesOthers
      <4> QED
        BY <1>3, <2>1, <4>1
    <3> QED
      BY <3>1, <3>2
  <2> QED
    BY <1>1, <2>2, <2>3
<1> QED
  BY <1>2, <1>4 DEF EmbeddingKnown

(* and after each call of one.                                             *)
LEMMA LoneLoads ==
  ASSUME TypeOK, ChatInvariant, NEW s \in Sessions, EmbeddingKnown(s), LoadStep(s)
  PROVE  EmbeddingKnown(s)'
<1>1. LoadOf(s, Target(s)) /\ job[s].call \in LoadCalls
  BY LoadStepsAreLocal
<1>2. job'[s].pc = job[s].pc /\ job'[s].call \in LoadCalls
  BY <1>1, NextCalls DEF LoadOf
<1>3. CASE job[s].pc # "load_embedding"
  <2>1. job[s].pc = "load_chat"
    BY <1>1, <1>3 DEF ChatInvariant, LockMatchesWork, ShapeOf, LoadCalls
  <2>2. Target(s) # Embedding /\ Embedding \in Models
    BY <2>1, ModelsDiffer DEF Target, Chat, ChatModels
  <2>3. resident'[Embedding] = resident[Embedding] /\ provider'[Embedding] = provider[Embedding]
    BY <1>1, <2>2 DEF LoadOf
  <2> QED
    BY <1>2, <1>3, <2>3 DEF EmbeddingKnown, LoadsEmbedding
<1>4. CASE job[s].pc = "load_embedding"
  <2>1. Target(s) = Embedding /\ Embedding \in Models
    BY <1>4, ModelsDiffer DEF Target
  <2>2. CASE job[s].call = "load"
    <3>1. LoadBegins(s)
      BY <2>2 DEF LoadStep, Lookup, LoadModel, GetClient, Rollback, ServiceLookup,
         ServiceLoad, ServiceClient, ServiceRollback, Calling
    <3>2. /\ UNCHANGED <<resident, provider>>
          /\ job'[s].call = IF HasClient(provider[Embedding]) THEN "loaded" ELSE "lookup"
      BY <2>1, <3>1, NextCalls DEF LoadBegins
    <3>3. /\ resident[Embedding] = "ours" => Owns(provider[Embedding])
          /\ provider[Embedding] \in KeptFields \cup {{}}
      BY <2>2 DEF EmbeddingKnown, LoadsEmbedding
    <3>4. HasClient(provider[Embedding]) <=> provider[Embedding] \in KeptFields
      BY <3>3 DEF HasClient, KeptFields
    <3>5. provider'[Embedding] \in FieldsAt(job'[s].call)
      BY <3>2, <3>3, <3>4 DEF FieldsAt
    <3>6. LoadsEmbedding(s)'
      BY <1>2, <1>4, <3>2 DEF LoadsEmbedding
    <3>7. job'[s].call \notin {"load_model", "service_load"}
      BY <3>2
    <3> QED
      BY <3>2, <3>3, <3>5, <3>6, <3>7 DEF EmbeddingKnown
  <2>3. CASE job[s].call # "load"
    <3>1. LoadsEmbedding(s)
      BY <1>1, <1>4, <2>3 DEF LoadsEmbedding
    <3>2. PICK call \in LoadCalls :
            /\ Call(s, call)
            /\ provider'[Embedding] \in FieldsAt(call)
            /\ resident'[Embedding] = "ours" => Owns(provider'[Embedding])
            /\ call \in {"load_model", "service_load"} /\ resident'[Embedding] = "out"
                 => Owns(provider'[Embedding])
      BY <2>1, <3>1, AttemptGoesOn DEF EmbeddingKnown
    <3>3. job'[s].call = call /\ job'[s].pc = "load_embedding"
      BY <1>4, <3>2, NextCalls
    <3>4. CASE call = "load"
      <4>1. provider'[Embedding] = {}
        BY <3>2, <3>4 DEF FieldsAt
      <4> QED
        BY <3>2, <3>3, <3>4, <4>1 DEF EmbeddingKnown, LoadsEmbedding
    <3>5. CASE call # "load"
      BY <3>2, <3>3, <3>5 DEF EmbeddingKnown, LoadsEmbedding
    <3> QED
      BY <3>4, <3>5
  <2> QED
    BY <2>2, <2>3
<1> QED
  BY <1>3, <1>4

(* For a session that has the application to itself, whichever call fails: *)
(* the embedding model that it brought into memory after is_loaded had     *)
(* answered is known to the provider, which has a handle to drop it by.    *)
THEOREM LoneEmbeddingIsKnown == Spec => []AloneEmbeddingIsKnown
<1>1. Init => AloneKnows
  <2> SUFFICES ASSUME Init, NEW s \in Sessions PROVE
        EmbeddingKnown(s) /\ \A t \in Sessions \ {s} : job[t].pc = "idle" /\ job[t].call = "none"
    BY DEF AloneKnows
  <2>1. \A t \in Sessions : job[t].pc = "idle" /\ job[t].call = "none"
    BY DEF Init, IdleJob
  <2>2. provider[Embedding] = {} /\ resident[Embedding] # "ours"
    BY ModelsDiffer DEF Init
  <2> QED
    BY <2>1, <2>2 DEF EmbeddingKnown, LoadsEmbedding
<1>2. ASSUME TypeOK, ChatInvariant, AloneKnows, [Next]_vars, NEW s \in Sessions,
             scenario'.users = {s}
      PROVE  EmbeddingKnown(s)' /\ \A t \in Sessions \ {s} : job'[t].pc = "idle" /\ job'[t].call = "none"
  <2>0. scenario.users = {s} /\ EmbeddingKnown(s)
        /\ \A t \in Sessions \ {s} : job[t].pc = "idle" /\ job[t].call = "none"
    BY <1>2 DEF AloneKnows, Next, vars
  <2>1. CASE UNCHANGED vars
    BY <2>0, <2>1 DEF vars, EmbeddingKnown, LoadsEmbedding
  <2>2. ASSUME NEW t \in Sessions, Starts(t) \/ Step(t) PROVE
          EmbeddingKnown(s)' /\ \A x \in Sessions \ {s} : job'[x].pc = "idle" /\ job'[x].call = "none"
    <3>1. t = s
      BY <2>0, <2>2, IdleSteps, UsersStart
    <3>2. CASE LoadStep(s)
      <4>1. \A x \in Sessions \ {s} : job'[x] = job[x]
        BY <1>2, <3>2, LoadStepsAreLocal DEF LoadOf, Call, TypeOK
      <4> QED
        BY <1>2, <2>0, <3>2, <4>1, LoneLoads
    <3>3. CASE ~LoadStep(s)
      <4>1. \A x \in Sessions \ {s} : job'[x] = job[x]
        BY <1>2, <2>2, <3>1, <3>3, OtherStepsDrop
      <4> QED
        BY <1>2, <2>0, <2>2, <3>1, <3>3, <4>1, LonePlaces
    <3> QED
      BY <3>2, <3>3
  <2>3. CASE Others
    <3>1. PICK m \in Models : OtherLoads(m) \/ OtherUnloads(m)
      BY <2>3 DEF Others
    <3>2. UNCHANGED <<provider, job>> /\ ~BeingLoaded(m)
      BY <3>1 DEF OtherLoads, OtherUnloads
    <3>3. CASE m # Embedding
      <4>1. \E where \in Residence : resident' = [resident EXCEPT ![m] = where]
        BY <3>1 DEF OtherLoads, OtherUnloads, Residence
      <4>2. Embedding \in Models /\ resident \in [Models -> Residence]
        BY <1>2 DEF TypeOK, Models
      <4>3. resident'[Embedding] = resident[Embedding]
        BY <3>3, <4>1, <4>2
      <4> QED
        BY <2>0, <3>2, <4>3 DEF EmbeddingKnown, LoadsEmbedding
    <3>4. CASE m = Embedding
      <4>1. ~LoadsEmbedding(s)
        BY <3>2, <3>4 DEF BeingLoaded, LoadsEmbedding, LoadCalls, Target
      <4>2. Embedding \in Models /\ resident \in [Models -> Residence]
        BY <1>2 DEF TypeOK, Models
      <4>3. resident'[Embedding] # "ours"
        BY <3>1, <3>4, <4>2 DEF OtherLoads, OtherUnloads
      <4> QED
        BY <2>0, <3>2, <4>1, <4>3 DEF EmbeddingKnown, LoadsEmbedding
    <3> QED
      BY <3>3, <3>4
  <2> QED
    BY <1>2, <2>1, <2>2, <2>3 DEF Next
<1>3. TypeOK /\ ChatInvariant /\ AloneKnows /\ [Next]_vars => AloneKnows'
  BY <1>2 DEF AloneKnows
<1>4. AloneKnows => AloneEmbeddingIsKnown
  <2> SUFFICES ASSUME AloneKnows, NEW s \in Sessions, scenario.users = {s}
               PROVE  Remembered(Embedding) /\ Droppable(Embedding)
    BY DEF AloneEmbeddingIsKnown, Alone
  <2>1. EmbeddingKnown(s)
    BY DEF AloneKnows
  <2>2. Remembered(Embedding)
    BY <2>1 DEF EmbeddingKnown, Remembered
  <2>3. \/ provider[Embedding] \in KeptFields \cup {{}}
        \/ \E call : provider[Embedding] \in FieldsAt(call)
    BY <2>1 DEF EmbeddingKnown
  <2>4. HasClient(provider[Embedding]) => provider[Embedding] \cap {"model", "service_id"} # {}
    BY <2>3 DEF KeptFields, FieldsAt, HasClient
  <2> QED
    BY <2>2, <2>4 DEF Droppable
<1> QED
  BY <1>1, <1>3, <1>4, ChatInvariantAlways, PTL DEF Spec
-----------------------------------------------------------------------------
(* A lone session on a runtime that does not fail.                         *)

HasDirect(m) == "client" \in provider[m]

SmoothCalls == {"none", "activate", "switch", "service_flag", "load", "lookup",
                "load_model", "load_unanswered", "get_client", "loaded", "returned"}

FailurePlaces == {"embed_failed", "load_failed", "release_failed", "unload_failed"}

(* No attempt is undone and no service is asked; what the record and the   *)
(* flag say is loaded can infer.                                           *)
ProvidersServe ==
  /\ \A m \in Models : provider[m] \subseteq DirectFields
  /\ loaded => HasDirect(Embedding)
  /\ active # NoModel => HasDirect(active)

(* Between the end of a load and the last use of its model, the model is   *)
(* there.                                                                  *)
WorkIsServed(s) ==
  /\ ~job[s].failed /\ job[s].pc \notin FailurePlaces /\ job[s].call \in SmoothCalls
  /\ job[s].call \in {"load_model", "load_unanswered", "get_client"}
       => "model" \in provider[Target(s)]
  /\ job[s].call = "loaded" => HasDirect(Target(s))
  /\ job[s].pc \in {"embed", "batch"} => HasDirect(Embedding)
  /\ job[s].pc = "load_embedding" /\ job[s].call = "returned" => HasDirect(Embedding)
  /\ job[s].pc \in {"generate", "generating"} => active = Chat(s)
  /\ job[s].pc = "load_chat" /\ job[s].call = "returned" => active = Chat(s)

Served(s) == ProvidersServe /\ WorkIsServed(s)

AloneServed ==
  \A s \in Sessions : scenario.users = {s} /\ ~Faulty => Served(s)

(* What each way to go on makes of the rest of a job.                      *)
LEMMA NextJobs ==
  ASSUME TypeOK, NEW s \in Sessions
  PROVE  /\ \A pc : Goto(s, pc) =>
              job'[s].failed = job[s].failed /\ job'[s].mode = job[s].mode
         /\ \A call : Call(s, call) => job'[s].failed = job[s].failed
         /\ Finish(s) => ~job'[s].failed
         /\ LoadEmbedding(s) => job'[s].failed = job[s].failed
         /\ \A again : LoadChat(s, again) => job'[s].failed = job[s].failed
<1>1. job \in [Sessions -> Job] /\ job[s] \in Job
  BY DEF TypeOK
<1>2. \A pc : Goto(s, pc) => job'[s].failed = job[s].failed /\ job'[s].mode = job[s].mode
  BY <1>1 DEF Goto, Job
<1>3. \A call : Call(s, call) => job'[s].failed = job[s].failed
  BY <1>1 DEF Call, Job
<1>4. Finish(s) => ~job'[s].failed
  BY <1>1 DEF Finish, IdleJob
<1>5. LoadEmbedding(s) => job'[s].failed = job[s].failed
  BY <1>1 DEF LoadEmbedding, Job
<1>6. \A again : LoadChat(s, again) => job'[s].failed = job[s].failed
  BY <1>1 DEF LoadChat, Job
<1> QED
  BY <1>2, <1>3, <1>4, <1>5, <1>6

(* The providers go on serving: none gets a field of the service, and what *)
(* is still said to be loaded keeps its client.                            *)
LEMMA ServeOn ==
  ASSUME TypeOK, ProvidersServe,
         \A n \in Models : provider'[n] \subseteq DirectFields,
         loaded' => loaded /\ (HasDirect(Embedding) => "client" \in provider'[Embedding]),
         active' # NoModel =>
           active' = active /\ (HasDirect(active) => "client" \in provider'[active])
  PROVE  ProvidersServe'
<1>1. loaded' => "client" \in provider'[Embedding]
  BY DEF ProvidersServe
<1>2. active' # NoModel => "client" \in provider'[active']
  BY DEF ProvidersServe
<1> QED
  BY <1>1, <1>2 DEF ProvidersServe, HasDirect

(* A load ends with a client, or begins with one.                          *)
LEMMA ServedLoads ==
  ASSUME TypeOK, ChatInvariant, ~Faulty, NEW s \in Sessions, Served(s), LoadStep(s)
  PROVE  Served(s)'
<1>0. PICK m : m = Target(s)
  OBVIOUS
<1> DEFINE GoesTo(call) ==
             /\ Call(s, call)
             /\ call \in {"lookup", "load_model", "load_unanswered", "get_client", "loaded"}
             /\ provider'[m] \subseteq DirectFields
             /\ "client" \in provider[m] => "client" \in provider'[m]
             /\ call \in {"load_model", "load_unanswered", "get_client"} => "model" \in provider'[m]
             /\ call = "loaded" => "client" \in provider'[m]
<1>1. LoadOf(s, m) /\ job[s].call \in LoadCalls
  BY <1>0, LoadStepsAreLocal
<1>2. /\ m \in Models /\ ShapeOf(job[s]) /\ job[s].pc \in {"load_embedding", "load_chat"}
      /\ provider \in [Models -> SUBSET Fields]
  BY <1>0, <1>1, ModelsDiffer
     DEF Target, Chat, ChatModels, ChatInvariant, LockMatchesWork, ShapeOf, LoadCalls, TypeOK
<1>3. job[s].call \in {"load", "lookup", "load_model", "load_unanswered", "get_client"}
  BY DEF LoadStep, LoadBegins, Lookup, LoadModel, GetClient, Rollback, ServiceLookup,
     ServiceLoad, ServiceClient, ServiceRollback, Calling, Served, WorkIsServed, SmoothCalls
<1>4. PICK call : GoesTo(call)
  <2>0. provider[m] \subseteq DirectFields
    BY <1>2 DEF Served, ProvidersServe
  <2>1. CASE job[s].call = "load"
    <3>1. LoadBegins(s)
      BY <2>1 DEF LoadStep, Lookup, LoadModel, GetClient, Rollback, ServiceLookup,
         ServiceLoad, ServiceClient, ServiceRollback, Calling
    <3>2. HasClient(provider[m]) => "client" \in provider[m]
      BY <2>0 DEF HasClient, DirectFields
    <3>3. UNCHANGED provider /\ Call(s, IF HasClient(provider[m]) THEN "loaded" ELSE "lookup")
      BY <1>0, <3>1 DEF LoadBegins
    <3>4. GoesTo("loaded") \/ GoesTo("lookup")
      BY <2>0, <3>2, <3>3
    <3> QED
      BY <3>4
  <2>2. CASE job[s].call = "lookup"
    <3>1. Lookup(s)
      BY <2>2 DEF LoadStep, LoadBegins, LoadModel, GetClient, Rollback, ServiceLookup,
         ServiceLoad, ServiceClient, ServiceRollback, Calling
    <3>2. CASE /\ Call(s, "load_model")
               /\ SetProvider(m, {"model"} \cup (IF Loaded(m) THEN {} ELSE {"direct_owned"}),
                              {"direct_owned"})
      <4>1. provider'[m] = (provider[m] \ {"direct_owned"}) \cup
              ({"model"} \cup (IF Loaded(m) THEN {} ELSE {"direct_owned"}))
        BY <1>2, <3>2 DEF SetProvider
      <4>2. GoesTo("load_model")
        BY <2>0, <3>2, <4>1 DEF DirectFields
      <4> QED
        BY <4>2
    <3>3. CASE Call(s, "load_unanswered") /\ SetProvider(m, {"model"}, {"direct_owned"})
      <4>1. provider'[m] = (provider[m] \ {"direct_owned"}) \cup {"model"}
        BY <1>2, <3>3 DEF SetProvider
      <4>2. GoesTo("load_unanswered")
        BY <2>0, <3>3, <4>1 DEF DirectFields
      <4> QED
        BY <4>2
    <3> QED
      BY <1>0, <3>1, <3>2, <3>3 DEF Lookup
  <2>3. CASE job[s].call \in {"load_model", "load_unanswered"}
    <3>1. LoadModel(s)
      BY <2>3 DEF LoadStep, LoadBegins, Lookup, GetClient, Rollback, ServiceLookup,
         ServiceLoad, ServiceClient, ServiceRollback, Calling
    <3>2. "model" \in provider[m]
      BY <1>0, <2>3 DEF Served, WorkIsServed
    <3>3. Call(s, "get_client") /\ provider' = provider
      BY <1>0, <3>1, <3>2 DEF LoadModel
    <3>4. GoesTo("get_client")
      BY <2>0, <3>2, <3>3
    <3> QED
      BY <3>4
  <2>4. CASE job[s].call = "get_client"
    <3>1. GetClient(s)
      BY <2>4 DEF LoadStep, LoadBegins, Lookup, LoadModel, Rollback, ServiceLookup,
         ServiceLoad, ServiceClient, ServiceRollback, Calling
    <3>2. Call(s, "loaded") /\ provider'[m] = (provider[m] \ {}) \cup {"client"}
      BY <1>0, <1>2, <3>1 DEF GetClient, SetProvider
    <3>3. GoesTo("loaded")
      BY <2>0, <3>2 DEF DirectFields
    <3> QED
      BY <3>3
  <2> QED
    BY <1>3, <2>1, <2>2, <2>3, <2>4
<1>5. /\ job'[s].call = call /\ job'[s].pc = job[s].pc /\ job'[s].mode = job[s].mode
      /\ job'[s].failed = job[s].failed
  BY <1>4, NextCalls, NextJobs
<1>6. Target(s)' = m
  BY <1>0, <1>5 DEF Target, Chat
<1>7. \A n \in Models : /\ provider'[n] \subseteq DirectFields
                        /\ "client" \in provider[n] => "client" \in provider'[n]
  <2> SUFFICES ASSUME NEW n \in Models
               PROVE  /\ provider'[n] \subseteq DirectFields
                      /\ "client" \in provider[n] => "client" \in provider'[n]
    OBVIOUS
  <2>1. n # m => provider'[n] = provider[n]
    BY <1>1 DEF LoadOf
  <2>2. provider[n] \subseteq DirectFields
    BY DEF Served, ProvidersServe
  <2> QED
    BY <1>4, <2>1, <2>2
<1>8. active \in Models \cup {NoModel} /\ Embedding \in Models
  BY DEF TypeOK, Models
<1>9. ProvidersServe'
  <2>1. loaded' = loaded
    BY <1>1 DEF LoadOf
  <2>2. active' = active
    BY <1>1 DEF LoadOf
  <2>3. HasDirect(Embedding) => "client" \in provider'[Embedding]
    BY <1>7, <1>8 DEF HasDirect
  <2>4. active # NoModel => (HasDirect(active) => "client" \in provider'[active])
    BY <1>7, <1>8 DEF HasDirect
  <2>5. loaded' => loaded /\ (HasDirect(Embedding) => "client" \in provider'[Embedding])
    BY <2>1, <2>3
  <2>6. active' # NoModel =>
          active' = active /\ (HasDirect(active) => "client" \in provider'[active])
    BY <2>2, <2>4
  <2>7. ProvidersServe /\ \A n \in Models : provider'[n] \subseteq DirectFields
    BY <1>7 DEF Served
  <2> QED
    BY <2>5, <2>6, <2>7, ServeOn
<1>10. WorkIsServed(s)'
  <2>1. ~job'[s].failed /\ job'[s].pc \notin FailurePlaces /\ job'[s].call \in SmoothCalls
    BY <1>4, <1>5 DEF Served, WorkIsServed, SmoothCalls
  <2>2. job'[s].call # "returned" /\ job'[s].pc \in {"load_embedding", "load_chat"}
    BY <1>2, <1>4, <1>5
  <2>3. job'[s].call \in {"load_model", "load_unanswered", "get_client"}
          => "model" \in provider'[m]
    BY <1>4, <1>5
  <2>4. job'[s].call = "loaded" => "client" \in provider'[m]
    BY <1>4, <1>5
  <2> QED
    BY <1>6, <2>1, <2>2, <2>3, <2>4 DEF WorkIsServed, HasDirect
<1> QED
  BY <1>9, <1>10 DEF Served

(* What wraps a load says only of a model with a client that it is loaded. *)
LEMMA ServedServices ==
  ASSUME TypeOK, ChatInvariant, ~Faulty, NEW s \in Sessions, Served(s), ServiceStep(s)
  PROVE  Served(s)'
<1>0. /\ ShapeOf(job[s]) /\ job[s].call \in SmoothCalls /\ ~job[s].failed
      /\ provider \in [Models -> SUBSET Fields] /\ job[s].pc \notin FailurePlaces
      /\ ProvidersServe /\ loaded \in BOOLEAN
  BY DEF ChatInvariant, LockMatchesWork, Served, WorkIsServed, TypeOK
<1>1. ASSUME NEW call \in {"load", "switch", "returned"}, Call(s, call), ProvidersServe',
             call = "returned" /\ job[s].pc = "load_embedding" => "client" \in provider'[Embedding],
             call = "returned" /\ job[s].pc = "load_chat" => active' = Chat(s),
             job[s].pc \in {"load_embedding", "load_chat"}
      PROVE  Served(s)'
  <2>1. /\ job'[s].call = call /\ job'[s].pc = job[s].pc /\ job'[s].mode = job[s].mode
        /\ job'[s].failed = job[s].failed
    BY <1>1, NextCalls, NextJobs
  <2>2. Chat(s)' = Chat(s)
    BY <2>1 DEF Chat
  <2>3. ~job'[s].failed /\ job'[s].pc \notin FailurePlaces /\ job'[s].call \in SmoothCalls
    BY <1>0, <1>1, <2>1 DEF SmoothCalls
  <2>4. job'[s].call \notin {"load_model", "load_unanswered", "get_client", "loaded"}
    BY <1>1, <2>1
  <2>5. job'[s].pc \notin {"embed", "batch", "generate", "generating"}
    BY <1>1, <2>1
  <2> QED
    BY <1>1, <2>1, <2>2, <2>3, <2>4, <2>5 DEF Served, WorkIsServed, HasDirect
<1>2. ASSUME UNCHANGED <<provider, active>>, loaded' = loaded
      PROVE  ProvidersServe'
  <2>1. \A n \in Models : provider'[n] \subseteq DirectFields
    BY <1>0, <1>2 DEF ProvidersServe
  <2>2. loaded' => loaded /\ (HasDirect(Embedding) => "client" \in provider'[Embedding])
    BY <1>2 DEF HasDirect
  <2>3. active' # NoModel =>
          active' = active /\ (HasDirect(active) => "client" \in provider'[active])
    BY <1>2 DEF HasDirect
  <2> QED
    BY <1>0, <2>1, <2>2, <2>3, ServeOn
<1>3. CASE ServiceFlag(s)
  <2>1. job[s].pc = "load_embedding"
    BY <1>0, <1>3 DEF ServiceFlag, Calling, ShapeOf, LoadCalls
  <2>2. UNCHANGED <<provider, active>> /\ Call(s, IF loaded THEN "returned" ELSE "load")
    BY <1>3 DEF ServiceFlag
  <2>3. loaded' = loaded
    BY <1>3 DEF ServiceFlag
  <2>4. ProvidersServe'
    BY <1>2, <2>2, <2>3
  <2>5. CASE loaded
    <3>1. Call(s, "returned") /\ "client" \in provider'[Embedding]
      BY <1>0, <2>2, <2>5 DEF ProvidersServe, HasDirect
    <3> QED
      BY <1>1, <2>1, <2>4, <3>1
  <2>6. CASE ~loaded
    <3>1. Call(s, "load")
      BY <2>2, <2>6
    <3> QED
      BY <1>1, <2>1, <2>4, <3>1
  <2> QED
    BY <2>5, <2>6
<1>4. CASE EmbeddingLoadEnds(s)
  <2>1. Calling(s, "loaded") /\ Target(s) = Embedding
    BY <1>0, <1>4 DEF EmbeddingLoadEnds, Calling, SmoothCalls
  <2>2. job[s].pc = "load_embedding"
    <3>1. job[s].pc # "load_chat"
      BY <2>1, ModelsDiffer DEF Target, Chat, ChatModels
    <3> QED
      BY <1>0, <2>1, <3>1 DEF Calling, ShapeOf
  <2>3. UNCHANGED <<provider, active>> /\ Call(s, "returned")
    BY <1>4, <2>1 DEF EmbeddingLoadEnds
  <2>4. "client" \in provider'[Embedding]
    BY <2>1, <2>3 DEF Served, WorkIsServed, HasDirect, Calling
  <2>5. ProvidersServe'
    <3>1. \A n \in Models : provider'[n] \subseteq DirectFields
      BY <1>0, <2>3 DEF ProvidersServe
    <3>2. active' # NoModel => "client" \in provider'[active']
      BY <1>0, <2>3 DEF ProvidersServe, HasDirect
    <3> QED
      BY <2>4, <3>1, <3>2 DEF ProvidersServe, HasDirect
  <2> QED
    BY <1>1, <2>2, <2>3, <2>4, <2>5
<1>5. CASE Activate(s)
  <2>1. job[s].pc = "load_chat"
    BY <1>0, <1>5 DEF Activate, Calling, ShapeOf, LoadCalls
  <2>2. UNCHANGED <<provider, active>>
    BY <1>5 DEF Activate
  <2>3. loaded' = loaded
    BY <1>5 DEF Activate
  <2>4. ProvidersServe'
    BY <1>2, <2>2, <2>3
  <2>5. \/ Call(s, "returned") /\ active' = Chat(s)
        \/ Call(s, "load") \/ Call(s, "switch")
    BY <1>5, <2>2 DEF Activate
  <2> QED
    BY <1>1, <2>1, <2>4, <2>5
<1>6. CASE Switch(s)
  <2>1. job[s].pc = "load_chat"
    BY <1>0, <1>6 DEF Switch, Calling, ShapeOf, LoadCalls
  <2>2. Call(s, "load") /\ active' = NoModel
    BY <1>6 DEF Switch
  <2>3. PICK refused : Unload({active}, refused)
    BY <1>6 DEF Switch, UnloadPrevious, UnloadOne
  <2>4. \A n \in Models : provider'[n] \subseteq provider[n]
    BY <2>3 DEF Unload, Cleared
  <2>5. active # Embedding /\ Embedding \in Models
    BY ModelsDiffer DEF TypeOK
  <2>6. provider'[Embedding] = provider[Embedding]
    BY <2>3, <2>5, UnloadSparesOthers
  <2>7. loaded' = loaded
    BY <1>6 DEF Switch
  <2>8. ProvidersServe'
    <3>1. \A n \in Models : provider'[n] \subseteq DirectFields
      BY <1>0, <2>4 DEF ProvidersServe
    <3>2. loaded' => loaded /\ (HasDirect(Embedding) => "client" \in provider'[Embedding])
      BY <2>6, <2>7 DEF HasDirect
    <3> QED
      BY <1>0, <2>2, <3>1, <3>2, ServeOn
  <2> QED
    BY <1>1, <2>1, <2>2, <2>8
<1>7. CASE ChatLoadEnds(s)
  <2>1. Calling(s, "loaded") /\ active' = Chat(s) /\ Call(s, "returned") /\ UNCHANGED provider
    BY <1>0, <1>7 DEF ChatLoadEnds, Calling, SmoothCalls
  <2>2. job[s].pc = "load_chat" /\ Target(s) = Chat(s)
    BY <1>0, <1>7, <2>1 DEF ChatLoadEnds, Target, Calling, ShapeOf
  <2>3. "client" \in provider'[active']
    BY <2>1, <2>2 DEF Served, WorkIsServed, HasDirect, Calling
  <2>4. loaded' = loaded
    BY <1>7 DEF ChatLoadEnds
  <2>5. ProvidersServe'
    <3>1. \A n \in Models : provider'[n] \subseteq DirectFields
      BY <1>0, <2>1 DEF ProvidersServe
    <3>2. loaded' => "client" \in provider'[Embedding]
      BY <1>0, <2>1, <2>4 DEF ProvidersServe, HasDirect
    <3> QED
      BY <2>3, <3>1, <3>2 DEF ProvidersServe, HasDirect
  <2> QED
    BY <1>1, <2>1, <2>2, <2>5
<1> QED
  BY <1>3, <1>4, <1>5, <1>6, <1>7 DEF ServiceStep

(* A step that leaves the providers alone.                                 *)
LEMMA ServedWork ==
  ASSUME TypeOK, ChatInvariant, ~Faulty, NEW s \in Sessions, Served(s), ProvidersServe',
         UNCHANGED <<provider, active>>,
         \/ Starts(s) \/ Search(s) \/ EmbedQuery(s) \/ Retrieved(s)
         \/ Generate(s) \/ GenerationEnds(s) \/ Generated(s) \/ Answered(s)
         \/ Claim(s) \/ EmbedBatch(s) \/ LetGo(s) \/ Indexed(s)
         \/ EmbeddingLoaded(s) \/ ChatLoaded(s)
  PROVE  Served(s)'
<1> DEFINE Quiet == {"idle", "search", "release_balanced", "claim", "embedding_unload", "answered",
                     "retrieved", "embed_finally", "indexed", "release_for_chat", "let_go",
                     "generated", "chat_finally"}
<1>0. /\ ~job[s].failed /\ job[s].call \in SmoothCalls /\ job[s].pc \notin FailurePlaces
      /\ job \in [Sessions -> Job] /\ ShapeOf(job[s])
  BY DEF Served, WorkIsServed, TypeOK, ChatInvariant, LockMatchesWork
<1>p. /\ job[s].pc \in {"embed", "batch"} => HasDirect(Embedding)
      /\ job[s].pc \in {"generate", "generating"} => active = Chat(s)
  BY DEF Served, WorkIsServed
<1>1. ASSUME ~job'[s].failed, job'[s].call \in {"none", "service_flag", "activate"},
             job'[s].pc \in Quiet \cup {"load_embedding", "load_chat"}
      PROVE  Served(s)'
  BY <1>1 DEF Served, WorkIsServed, HasDirect, SmoothCalls, FailurePlaces
<1>2. ASSUME ~job'[s].failed, job'[s].call = "none", job'[s].pc \in {"embed", "batch"},
             HasDirect(Embedding)
      PROVE  Served(s)'
  BY <1>2 DEF Served, WorkIsServed, HasDirect, SmoothCalls, FailurePlaces
<1>3. ASSUME ~job'[s].failed, job'[s].call = "none", job'[s].pc \in {"generate", "generating"},
             active = Chat(s), job'[s].mode = job[s].mode
      PROVE  Served(s)'
  <2>1. Chat(s)' = Chat(s) /\ active' = Chat(s)
    BY <1>3 DEF Chat
  <2> QED
    BY <1>3, <2>1 DEF Served, WorkIsServed, HasDirect, SmoothCalls, FailurePlaces
<1>4. ASSUME NEW n \in Models, HasDirect(n) PROVE CanInfer(n)
  <2>1. "service_client" \notin provider[n]
    BY DEF Served, ProvidersServe, DirectFields
  <2> QED
    BY <1>4, <2>1 DEF CanInfer, HasDirect
<1>5. Embedding \in Models /\ Chat(s) \in Models /\ Chat(s) # NoModel
  BY ModelsDiffer DEF Chat, Models, ChatModels
<1>6. \A pc \in Quiet : Goto(s, pc) => Served(s)'
  BY <1>0, <1>1, NextCalls, NextJobs
<1>7. Finish(s) => Served(s)'
  BY <1>1, NextCalls, NextJobs
<1>8. LoadEmbedding(s) => Served(s)'
  BY <1>0, <1>1, NextCalls, NextJobs
<1>9. \A again : LoadChat(s, again) => Served(s)'
  BY <1>0, <1>1, NextCalls, NextJobs
<1>10. CASE Starts(s)
  <2>1. PICK pc, op, mode : pc \in Quiet /\ Start(s, op, mode, pc)
    BY <1>10 DEF Starts, StartQuestion, StartUpload, StartReindex, StartUnload, StartCleanup
  <2>2. ~job'[s].failed /\ job'[s].call = "none" /\ job'[s].pc = pc
    BY <1>0, <2>1 DEF Start, IdleJob
  <2> QED
    BY <1>1, <2>1, <2>2
<1>11. CASE Search(s)
  BY <1>6, <1>8, <1>11 DEF Search
<1>12. CASE EmbedQuery(s)
  <2>0. HasDirect(Embedding)
    BY <1>p, <1>12 DEF EmbedQuery, At
  <2>1. CanInfer(Embedding)
    BY <1>4, <1>5, <2>0
  <2>2. \E pc \in Quiet : Goto(s, pc)
    BY <1>12, <2>1 DEF EmbedQuery
  <2> QED
    BY <1>6, <2>2
<1>13. CASE EmbedBatch(s)
  <2>1. HasDirect(Embedding) /\ job[s].pc = "batch" /\ job[s].call = "none"
    BY <1>p, <1>13 DEF EmbedBatch, At
  <2>2. job' \in {job, [job EXCEPT ![s].pc = "let_go"]}
    BY <1>4, <1>5, <1>13, <2>1 DEF EmbedBatch
  <2>3. CASE job' = job
    BY <1>0, <1>2, <2>1, <2>3
  <2>4. CASE job' = [job EXCEPT ![s].pc = "let_go"]
    <3>1. ~job'[s].failed /\ job'[s].call = "none" /\ job'[s].pc = "let_go"
      BY <1>0, <2>1, <2>4 DEF Job
    <3> QED
      BY <1>1, <3>1
  <2> QED
    BY <2>2, <2>3, <2>4
<1>14. CASE Generate(s)
  <2>1. active = Chat(s)
    BY <1>p, <1>14 DEF Generate, At
  <2>2. CanInfer(Chat(s))
    BY <1>4, <1>5, <2>1 DEF Served, ProvidersServe
  <2>3. Goto(s, "generating")
    BY <1>14, <2>2 DEF Generate
  <2> QED
    BY <1>0, <1>3, <2>1, <2>3, NextCalls, NextJobs
<1>15. CASE GenerationEnds(s)
  <2>1. active = Chat(s)
    BY <1>p, <1>15 DEF GenerationEnds, At
  <2>2. CanInfer(Chat(s))
    BY <1>4, <1>5, <2>1 DEF Served, ProvidersServe
  <2>3. \E pc \in Quiet : Goto(s, pc)
    BY <1>15, <2>2 DEF GenerationEnds
  <2> QED
    BY <1>6, <2>3
<1>16. CASE EmbeddingLoaded(s)
  <2>1. Calling(s, "returned") /\ job[s].pc = "load_embedding"
        /\ \E pc \in {"embed", "batch"} : Goto(s, pc)
    BY <1>0, <1>16 DEF EmbeddingLoaded, Calling, SmoothCalls
  <2>2. HasDirect(Embedding)
    BY <2>1 DEF Calling, Served, WorkIsServed
  <2> QED
    BY <1>0, <1>2, <2>1, <2>2, NextCalls, NextJobs
<1>17. CASE ChatLoaded(s)
  <2>1. Calling(s, "returned") /\ job[s].pc = "load_chat" /\ Goto(s, "generate")
    BY <1>0, <1>17 DEF ChatLoaded, Calling, SmoothCalls
  <2>2. active = Chat(s)
    BY <2>1 DEF Calling, Served, WorkIsServed
  <2> QED
    BY <1>0, <1>3, <2>1, <2>2, NextCalls, NextJobs
<1>18. CASE Retrieved(s) \/ Generated(s) \/ Answered(s) \/ LetGo(s)
  BY <1>6, <1>7, <1>9, <1>18 DEF Retrieved, Generated, Answered, LetGo
<1>19. CASE Claim(s) \/ Indexed(s)
  BY <1>7, <1>8, <1>19 DEF Claim, Indexed
<1> QED
  BY <1>10, <1>11, <1>12, <1>13, <1>14, <1>15, <1>16, <1>17, <1>18, <1>19

(* A step that drops providers, at a place where none of them is needed.   *)
LEMMA ServedReleases ==
  ASSUME TypeOK, ChatInvariant, ~Faulty, NEW s \in Sessions, Served(s),
         \/ ReleaseForChat(s) \/ EmbedFailed(s) \/ EmbedFinally(s) \/ EmbeddingUnload(s)
         \/ ReleasingStep(s)
  PROVE  Served(s)'
<1> DEFINE Quiet == {"idle", "release_fast", "claim", "generated", "indexed", "retrieved", "shutdown"}
           Goes == /\ ~job'[s].failed /\ job'[s].call \in {"none", "activate"}
                   /\ job'[s].pc \in Quiet \cup {"load_chat"}
<1>0. ~job[s].failed /\ job[s].pc \notin FailurePlaces /\ ProvidersServe
  BY DEF Served, WorkIsServed
<1>1. Goes => WorkIsServed(s)'
  BY DEF WorkIsServed, SmoothCalls, FailurePlaces
<1>2. \A pc \in Quiet : Goto(s, pc) => Goes
  BY <1>0, NextCalls, NextJobs
<1>3. Finish(s) => Goes
  BY NextCalls, NextJobs
<1>4. LoadChat(s, FALSE) => Goes
  BY <1>0, NextCalls, NextJobs
<1>5. ASSUME NEW models, NEW refused, Unload(models, refused)
      PROVE  \A n \in Models : provider'[n] \subseteq DirectFields
  <2>1. \A n \in Models : provider'[n] \subseteq provider[n]
    BY <1>5 DEF Unload, Cleared
  <2> QED
    BY <1>0, <2>1 DEF ProvidersServe
<1>6. ASSUME UnloadEmbedding, active' = active
      PROVE  ProvidersServe'
  <2>1. PICK refused : Unload({Embedding}, refused)
    BY <1>6 DEF UnloadEmbedding, UnloadOne
  <2>2. loaded' = FALSE
    BY <1>6 DEF UnloadEmbedding
  <2>3. active # NoModel => provider'[active] = provider[active]
    <3>1. active # NoModel => active \in Models /\ active \notin {Embedding}
      BY ModelsDiffer DEF TypeOK, Models
    <3> QED
      BY <2>1, <3>1, UnloadSparesOthers
  <2>4. active' # NoModel =>
          active' = active /\ (HasDirect(active) => "client" \in provider'[active])
    BY <1>6, <2>3 DEF HasDirect
  <2>5. loaded' => loaded /\ (HasDirect(Embedding) => "client" \in provider'[Embedding])
    BY <2>2
  <2> QED
    BY <1>0, <1>5, <2>1, <2>4, <2>5, ServeOn
<1>7. ASSUME NEW models \in SUBSET ChatModels, NEW refused, Unload(models, refused),
             active' = NoModel, loaded' = loaded
      PROVE  ProvidersServe'
  <2>1. Embedding \in Models /\ Embedding \notin models
    BY ModelsDiffer
  <2>2. provider'[Embedding] = provider[Embedding]
    BY <1>7, <2>1, UnloadSparesOthers
  <2>3. loaded' => loaded /\ (HasDirect(Embedding) => "client" \in provider'[Embedding])
    BY <1>7, <2>2 DEF HasDirect
  <2>4. \A n \in Models : provider'[n] \subseteq DirectFields
    BY <1>5, <1>7
  <2> QED
    BY <1>0, <1>7, <2>3, <2>4, ServeOn
<1>8. ASSUME NEW m \in ChatModels, Release(m), loaded' = loaded
      PROVE  ProvidersServe'
  <2>1. CASE active = m
    <3>1. PICK refused : Unload({m}, refused)
      BY <1>8, <2>1 DEF Release, UnloadOne
    <3>2. active' = NoModel
      BY <1>8, <2>1 DEF Release
    <3> QED
      BY <1>7, <1>8, <3>1, <3>2
  <2>2. CASE active # m
    <3>1. UNCHANGED <<provider, active>>
      BY <1>8, <2>2 DEF Release
    <3>2. \A n \in Models : provider'[n] \subseteq DirectFields
      BY <1>0, <3>1 DEF ProvidersServe
    <3>3. loaded' => loaded /\ (HasDirect(Embedding) => "client" \in provider'[Embedding])
      BY <1>8, <3>1 DEF HasDirect
    <3>4. active' # NoModel =>
            active' = active /\ (HasDirect(active) => "client" \in provider'[active])
      BY <3>1 DEF HasDirect
    <3> QED
      BY <1>0, <3>2, <3>3, <3>4, ServeOn
  <2> QED
    BY <2>1, <2>2
<1>9. Chat(s) \in ChatModels /\ Balanced \in ChatModels /\ Fast \in ChatModels
  BY DEF Chat, ChatModels
<1>10. CASE ReleaseForChat(s)
  <2>1. Goes
    BY <1>4, <1>10 DEF ReleaseForChat
  <2>2. ProvidersServe'
    BY <1>6, <1>10 DEF ReleaseForChat
  <2> QED
    BY <1>1, <2>1, <2>2 DEF Served
<1>11. CASE EmbedFinally(s)
  <2>1. Goes
    BY <1>2, <1>3, <1>11 DEF EmbedFinally
  <2>2. ProvidersServe'
    BY <1>6, <1>11 DEF EmbedFinally
  <2> QED
    BY <1>1, <2>1, <2>2 DEF Served
<1>12. CASE EmbeddingUnload(s)
  <2>1. Goes
    BY <1>2, <1>12 DEF EmbeddingUnload
  <2>2. ProvidersServe'
    BY <1>6, <1>12 DEF EmbeddingUnload
  <2> QED
    BY <1>1, <2>1, <2>2 DEF Served
<1>13. CASE ReleaseBalanced(s)
  <2>1. Goes
    BY <1>2, <1>13 DEF ReleaseBalanced
  <2>2. ProvidersServe'
    BY <1>8, <1>9, <1>13 DEF ReleaseBalanced
  <2> QED
    BY <1>1, <2>1, <2>2 DEF Served
<1>14. CASE ReleaseFast(s)
  <2>1. Goes
    BY <1>2, <1>14 DEF ReleaseFast
  <2>2. ProvidersServe'
    BY <1>8, <1>9, <1>14 DEF ReleaseFast
  <2> QED
    BY <1>1, <2>1, <2>2 DEF Served
<1>15. CASE ChatFinally(s)
  <2>1. Goes
    BY <1>0, <1>2, <1>15 DEF ChatFinally
  <2>2. ProvidersServe'
    BY <1>8, <1>9, <1>15 DEF ChatFinally, ReleaseStep
  <2> QED
    BY <1>1, <2>1, <2>2 DEF Served
<1>16. CASE Shutdown(s)
  <2>1. Goes
    BY <1>3, <1>16 DEF Shutdown
  <2>2. PICK refused \in SUBSET ChatModels : Unload(ChatModels, refused)
    BY <1>16 DEF Shutdown, ShutdownChats
  <2>3. active' = NoModel
    BY <1>16 DEF Shutdown, ShutdownChats
  <2>4. loaded' = loaded
    BY <1>16 DEF Shutdown
  <2>5. ProvidersServe'
    BY <1>7, <2>2, <2>3, <2>4
  <2> QED
    BY <1>1, <2>1, <2>5 DEF Served
<1>17. ~EmbedFailed(s) /\ ~LoadFailed(s) /\ ~ReleaseFailed(s) /\ ~UnloadFailed(s)
  BY <1>0 DEF EmbedFailed, LoadFailed, ReleaseFailed, UnloadFailed, ReleaseStep, At, FailurePlaces
<1> QED
  BY <1>10, <1>11, <1>12, <1>13, <1>14, <1>15, <1>16, <1>17 DEF ReleasingStep

(* Every step of the session keeps it.                                     *)
LEMMA ServedSteps ==
  ASSUME TypeOK, ChatInvariant, ~Faulty, NEW s \in Sessions, Served(s), Starts(s) \/ Step(s)
  PROVE  Served(s)'
<1>1. CASE LoadStep(s)
  BY <1>1, ServedLoads
<1>2. CASE ServiceStep(s)
  BY <1>2, ServedServices
<1>3. CASE \/ ReleaseForChat(s) \/ EmbedFailed(s) \/ EmbedFinally(s) \/ EmbeddingUnload(s)
           \/ ReleasingStep(s)
  BY <1>3, ServedReleases
<1> DEFINE Working ==
             \/ Starts(s) \/ Search(s) \/ EmbedQuery(s) \/ Retrieved(s)
             \/ Generate(s) \/ GenerationEnds(s) \/ Generated(s) \/ Answered(s)
             \/ Claim(s) \/ EmbedBatch(s) \/ LetGo(s) \/ Indexed(s)
             \/ EmbeddingLoaded(s) \/ ChatLoaded(s)
<1>4. CASE Working
  <2>1. UNCHANGED <<provider, active>>
    BY <1>4 DEF Starts, StartQuestion, StartUpload, StartReindex, StartUnload, StartCleanup, Start,
       Search, EmbedQuery, Retrieved, Generate, GenerationEnds, Generated, Answered,
       Claim, EmbedBatch, LetGo, Indexed, EmbeddingLoaded, ChatLoaded
  <2>2. loaded' = loaded
    BY <1>4 DEF Starts, StartQuestion, StartUpload, StartReindex, StartUnload, StartCleanup, Start,
       Search, EmbedQuery, Retrieved, Generate, GenerationEnds, Generated, Answered,
       Claim, EmbedBatch, LetGo, Indexed, EmbeddingLoaded, ChatLoaded
  <2>3. loaded' => loaded /\ (HasDirect(Embedding) => "client" \in provider'[Embedding])
    BY <2>1, <2>2 DEF HasDirect
  <2>4. active' # NoModel =>
          active' = active /\ (HasDirect(active) => "client" \in provider'[active])
    BY <2>1 DEF HasDirect
  <2>5. ProvidersServe /\ \A n \in Models : provider'[n] \subseteq DirectFields
    BY <2>1 DEF Served, ProvidersServe
  <2>6. ProvidersServe'
    BY <2>3, <2>4, <2>5, ServeOn
  <2> HIDE DEF Working
  <2> QED
    BY <1>4, <2>1, <2>6, ServedWork DEF Working
<1> QED
  BY <1>1, <1>2, <1>3, <1>4 DEF Step, IndexStep, AnswerStep, ReleasingStep

(* When no call but is_loaded fails, no operation of a lone session fails: *)
(* no release of GroundNote's own takes away a model that it still needs.  *)
THEOREM NothingFailsAlone == Spec => []NothingFailsByItself
<1> DEFINE Rest == \A t \in Sessions : t \notin scenario.users => job[t] = IdleJob
<1>1. Init => AloneServed /\ Rest
  <2>1. ASSUME Init, NEW s \in Sessions PROVE Served(s)
    <3>1. job[s] = IdleJob
      BY <2>1 DEF Init
    <3>2. ProvidersServe
      BY <2>1, ModelsDiffer DEF Init, ProvidersServe
    <3> QED
      BY <3>1, <3>2 DEF Served, WorkIsServed, IdleJob, SmoothCalls, FailurePlaces
  <2>2. Init => Rest
    BY DEF Init
  <2> QED
    BY <2>1, <2>2 DEF AloneServed
<1>2. ASSUME TypeOK, ChatInvariant, AloneServed, Rest, [Next]_vars
      PROVE  AloneServed' /\ Rest'
  <2>1. scenario' = scenario
    BY <1>2 DEF Next, vars
  <2>2. CASE UNCHANGED vars
    BY <1>2, <2>2 DEF vars, AloneServed, Served, ProvidersServe, WorkIsServed, HasDirect,
       Faulty, Target, Chat
  <2>3. ASSUME NEW t \in Sessions, Starts(t) \/ Step(t)
        PROVE  AloneServed' /\ Rest'
    <3>1. t \in scenario.users
      BY <1>2, <2>3, UsersStart, IdleSteps DEF IdleJob
    <3>2. \A x \in Sessions \ {t} : job'[x] = job[x]
      <4>1. CASE LoadStep(t)
        BY <1>2, <4>1, LoadStepsAreLocal DEF LoadOf, Call, TypeOK
      <4>2. CASE ~LoadStep(t)
        BY <1>2, <2>3, <4>2, OtherStepsDrop
      <4> QED
        BY <4>1, <4>2
    <3>3. Rest'
      BY <1>2, <2>1, <3>1, <3>2
    <3>4. ASSUME NEW s \in Sessions, scenario'.users = {s}, ~Faulty'
          PROVE  Served(s)'
      <4>1. t = s /\ ~Faulty /\ Served(s)
        BY <1>2, <2>1, <3>1, <3>4 DEF AloneServed, Faulty
      <4> QED
        BY <1>2, <2>3, <4>1, ServedSteps
    <3> QED
      BY <3>3, <3>4 DEF AloneServed
  <2>4. CASE Others
    <3>1. UNCHANGED <<provider, active, job>>
      BY <2>4 DEF Others, OtherLoads, OtherUnloads
    <3>2. loaded' = loaded
      BY <2>4 DEF Others, OtherLoads, OtherUnloads
    <3>3. Rest'
      BY <1>2, <2>1, <3>1
    <3>4. \A s \in Sessions : WorkIsServed(s) => WorkIsServed(s)'
      BY <3>1 DEF WorkIsServed, HasDirect, Target, Chat
    <3>5. ProvidersServe => ProvidersServe'
      BY <3>1, <3>2 DEF ProvidersServe, HasDirect
    <3> QED
      BY <1>2, <2>1, <3>3, <3>4, <3>5 DEF AloneServed, Served, Faulty
  <2> QED
    BY <1>2, <2>2, <2>3, <2>4 DEF Next
<1>3. TypeOK /\ ChatInvariant /\ AloneServed /\ Rest /\ [Next]_vars => AloneServed' /\ Rest'
  BY <1>2
<1>4. AloneServed /\ Rest => NothingFailsByItself
  <2> SUFFICES ASSUME AloneServed, Rest, NEW u \in Sessions, scenario.users = {u}, ~Faulty,
                      NEW s \in Sessions
               PROVE  ~job[s].failed
    BY DEF NothingFailsByItself, Alone
  <2>1. CASE s = u
    BY <2>1 DEF AloneServed, Served, WorkIsServed
  <2>2. CASE s # u
    BY <2>2 DEF IdleJob
  <2> QED
    BY <2>1, <2>2
<1> HIDE DEF Rest
<1> QED
  BY <1>1, <1>3, <1>4, ChatInvariantAlways, PTL DEF Spec
=============================================================================
