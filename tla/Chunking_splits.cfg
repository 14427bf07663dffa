SPECIFICATION FileSpec
CONSTANTS
  Files <- MCFiles
  MaxPages = 3
  MaxExtracted = 70
  MaxMembers = 3
  MaxMember = 4
  MaxExpanded = 9
  MaxRatio = 3
  Places <- MCPlaces
  Texts <- MCTexts
  Target = 6
  Maximum = 8
  Minimum = 5
  Overlap = 2
CHECK_DEADLOCK FALSE
INVARIANTS
  ChunksFit
  NothingIsLost
  PlacesAreKept
  ShortChunksAreWarned
  EveryLineIsInItsSection
