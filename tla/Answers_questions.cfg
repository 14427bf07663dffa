SPECIFICATION AnswerSpec
CONSTANTS
  Docs = {d1, d2}
  ContentOf <- MCContentOf
  Sessions = {s1, s2}
  Askers = {s1}
  NoDoc = NoDoc
  Faults = TRUE
SYMMETRY Symmetry
INVARIANTS
  DeletedIsNotCited
  SelectionIsRespected
  CitationNeedsEvidence
  OwnCardsAreForgotten
