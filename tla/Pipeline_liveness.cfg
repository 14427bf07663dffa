SPECIFICATION FairSpec
CONSTANTS
  d1 = d1
  d2 = d2
  d3 = d3
  same = same
  other = other
  Docs = {d1, d2}
  ContentOf <- Contents
  Versions = {v1}
  NoVersion = NoVersion
  MaxChunks = 2
  Sessions = {s1, s2}
  Nobody = Nobody
  NoDoc = NoDoc
  BatchSize = 1
  StorageFaults = FALSE
  Interrupts = TRUE
  Maintenance = {}
  MaxCrashes = 1
INVARIANTS
  OneContentOneDocument
  IndexingIsOwned
PROPERTIES
  CopiesAreOwned
  OwnersLetGo
  IndexingSettles
