SPECIFICATION Spec
CONSTANTS
  Balanced = Balanced
  Fast = Fast
  Embedding = Embedding
  NoModel = NoModel
  Nobody = Nobody
  Sessions = {s1, s2}
  Scenarios <- Shared
INVARIANTS
  EmbeddingIsRemembered
