SPECIFICATION Spec
CONSTANTS
  StartAtEnd = FALSE
  MaxLines = 2
  MaxCuts = 1
  MaxErrors = 0
INVARIANTS
  AtMostOnce
