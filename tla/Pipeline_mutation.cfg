SPECIFICATION Spec
CONSTANTS
  d1 = d1
  d2 = d2
  d3 = d3
  same = same
  other = other
  Docs = {d1}
  ContentOf <- Contents
  Versions = {v1, v2}
  NoVersion = NoVersion
  MaxChunks = 1
  Sessions = {s1, s2}
  Nobody = Nobody
  NoDoc = NoDoc
  BatchSize = 1
  StorageFaults = FALSE
  Interrupts = FALSE
  Maintenance = {}
  MaxCrashes = 0
PROPERTIES
  MutationsAreBlocked
