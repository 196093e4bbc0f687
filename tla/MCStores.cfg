SPECIFICATION StorageSpec
CONSTANTS
  Readers = {r1, r2, r3}
  AlertLimit = 3
  ReaderLimit = 2
  ClockStep = 1
  Horizon = 3
  MaxAlerts = 5
  WindowCount = 2
  MaxBatches = 4
  MaxFaults = 2
INVARIANTS
  AlertsLatest
  ReadersBounded
  LatestReadersKept
  SavedInOrder
  BatchesWhole
  LossBounded
SYMMETRY ReaderSymmetry
