-------------------------- MODULE ModelProperties --------------------------
(***************************************************************************)
(* What the local models promise: who is remembered as having loaded what, *)
(* and what is still in memory when nobody uses it.                        *)
(***************************************************************************)
EXTENDS ModelLifecycle

TypeOK ==
  /\ resident \in [Models -> Residence]
  /\ provider \in [Models -> SUBSET Fields]
  /\ active \in ChatModels \cup {NoModel}
  /\ lock \in Sessions \cup {Nobody}
  /\ loaded \in BOOLEAN
  /\ indexer \in Sessions \cup {Nobody}
  /\ warm \subseteq Sessions
  /\ job \in [Sessions -> Job]
  /\ scenario \in Scenario

Owns(p) == p \cap {"direct_owned", "service_owned"} # {}

(* A model that GroundNote brought into memory after is_loaded had said it *)
(* was not there, and that the runtime never refused to unload, has a      *)
(* provider that knows it has to unload it.  A model whose is_loaded       *)
(* raised passes for another application's: it is loaded all the same and  *)
(* no unload asks for it, so nothing is promised of an "unclaimed" one.    *)
Remembered(m) ==
  ~BeingLoaded(m) /\ resident[m] = "ours" => Owns(provider[m])

(* A provider with a client has a handle by which unload() can drop it. *)
Droppable(m) ==
  ~BeingLoaded(m) /\ HasClient(provider[m]) => provider[m] \cap {"model", "service_id"} # {}

(* Both, for the two chat providers, whatever sessions do and whichever    *)
(* call fails: load, switch, release and shutdown all hold the lock of the *)
(* lifecycle.                                                              *)
ChatModelsAreRemembered == \A m \in ChatModels : Remembered(m) /\ Droppable(m)

(* The lifecycle's record is exact: the active provider is the one that has *)
(* a client.                                                                *)
ActiveIsTheOneLoaded ==
  lock = Nobody => \A m \in ChatModels : active = m <=> HasClient(provider[m])

(* At no time, in the middle of a switch or of a failed load either, are   *)
(* two chat models in memory that GroundNote loaded as its own: neither    *)
(* taken for another application's because is_loaded raised, nor one that  *)
(* the runtime refused to unload.                                          *)
AtMostOneChatModel == Cardinality({m \in ChatModels : resident[m] = "ours"}) <= 1

(* GroundNote never unloads a model that another application loaded, and   *)
(* not either when is_loaded raises and it cannot know.                    *)
OthersModelsStay ==
  [][\A m \in Models :
       resident[m] = "theirs" /\ resident'[m] # "theirs" => OtherUnloads(m)]_vars

(* Provider wrappers record whether GroundNote initiated a load: also the  *)
(* embedding provider, which sessions load and unload without a lock.      *)
EmbeddingIsRemembered == Remembered(Embedding)

Alone == \E s \in Sessions : scenario.users = {s}

(* For a lone session they do, wherever is_loaded answered: through every  *)
(* failure, fallback and rollback, and an unload releases what the         *)
(* provider holds.                                                         *)
AloneEmbeddingIsKnown == Alone => Remembered(Embedding) /\ Droppable(Embedding)

(* When no call but is_loaded fails, neither does an operation of a lone   *)
(* session: no release of GroundNote's own, by a switch, a cleanup or the  *)
(* unload button, takes away a model that the operation still needs.       *)
NothingFailsByItself ==
  Alone /\ ~Faulty => \A s \in Sessions : ~job[s].failed
=============================================================================
