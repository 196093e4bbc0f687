SPECIFICATION Spec
CONSTANTS
  Attempts = {a, b}
  Stamps = {0, 2}
  Configs <- MCConfigs
  ClockStep = 1
  Limit = 2
  Horizon = 5
  MaxItems = 3
PROPERTIES
  DroppedOnlyTwins
  TwinsApart
  
SYMMETRY AttemptSymmetry
