SPECIFICATION RulesSpec
CONSTANTS
  Duration = 1
  Skews <- MCSkews
  MaxPast = 2
  MaxFuture = 1
  ClockStep = 0
  UIDs = {u1}
  NoUID = NoUID
  Horizon = 5
  MaxEvents = 4
  MaxLog = 4
  APSThreshold <- One
  APSElevatedThreshold <- Half
  FailureRatioThreshold <- Half
  UIDDiversityThreshold <- Half
  TimingVarianceThreshold <- Half
  AttackScoreThreshold <- Five
  Epsilon <- Half
  Weights <- Ones
  MinAttempts = 2
INVARIANTS
  TypeOK
  CountersExact
  MemoryBounded
  SpanBounded
  TimingExact
  AlertsEarned
  FloodNoticed
PROPERTY
  ImplementsWindow
