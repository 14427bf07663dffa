SPECIFICATION Spec
CONSTANTS
  Places = {here, there}
  Longest = 3
  Texts <- MCTexts
  Target = 6
  Maximum = 8
  Minimum = 5
  Overlap = 2
SYMMETRY Symmetry
CHECK_DEADLOCK FALSE
INVARIANTS
  WordsAreKept
