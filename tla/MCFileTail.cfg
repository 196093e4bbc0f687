SPECIFICATION FairSpec
CONSTANTS
  StartAtEnd = TRUE
  MaxLines = 3
  MaxCuts = 2
  MaxErrors = 1
INVARIANTS
  OnlyUnfinishedLinesTorn
  NoLineSkipped
PROPERTIES
  LinesInOrder
  NoNeedlessReopening
  ShrinkingNoticed
