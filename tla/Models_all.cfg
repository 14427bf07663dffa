SPECIFICATION Spec
CONSTANTS
  Balanced = Balanced
  Fast = Fast
  Embedding = Embedding
  NoModel = NoModel
  Nobody = Nobody
  Sessions = {s1, s2}
  Scenarios <- AllScenarios
SYMMETRY Symmetry
INVARIANTS
  ChatModelsAreRemembered
  ActiveIsTheOneLoaded
  AtMostOneChatModel
  AloneEmbeddingIsKnown
  NothingFailsByItself
PROPERTY
  OthersModelsStay
