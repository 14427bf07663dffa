SPECIFICATION AnswerSpec
CONSTANTS
  Words <- MCWords
  Kinds <- MCKinds
  Contains <- MCContains
  Near <- MCNear
  Stems <- MCStems
  Corpus <- MCCorpus
  Chunks <- MCChunks
  Requests <- MCRequests
  CandidateLimit = 4
  ContextLimit = 3
  ChunkLimit = 2
  Sizes = {0, 1, 2, 6, 7}
  MaxFound = 5
CHECK_DEADLOCK FALSE
INVARIANTS
  ContextFits
  SourcesAreDistinct
  SourcesKeepTheOrder
  MarksAreSources
  BestAreKept
  NeighboursFollow
PROPERTY
  ImplementsGroundedAnswer
