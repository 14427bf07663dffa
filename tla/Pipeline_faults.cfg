SPECIFICATION Spec
CONSTANTS
  d1 = d1
  d2 = d2
  d3 = d3
  same = same
  other = other
  Docs = {d1, d3}
  ContentOf <- Contents
  Versions = {v1, v2}
  NoVersion = NoVersion
  MaxChunks = 3
  Sessions = {s1, s2}
  Nobody = Nobody
  NoDoc = NoDoc
  BatchSize = 2
  StorageFaults = TRUE
  Interrupts = TRUE
  Maintenance = {"clear_embeddings", "prepare"}
  MaxCrashes = 1
SYMMETRY Symmetry
INVARIANTS
  ReadyIsComplete
  NothingPartial
  RowHasCopy
  OwnershipMatchesWork
  SingleIndexer
PROPERTIES
  ImplementsLifecycle
  ReadyOnlyByOwner
  ReadyIsNotFailedBehindItsBack
