SPECIFICATION Spec
CONSTANTS
  Syslog = {}
  Streams = {tcp}
  Kafka = {}
  Calls = {}
  Layouts <- BareLayouts
  Attempts <- MCAttempts
  Stamps <- MCStamps
  Zone = 0
  Year = 3
  DefaultReaderID = "unknown"
  Buffer = 1
  Horizon = 1
  MaxLines <- MCLines
INVARIANT SupportedLinesRead
CHECK_DEADLOCK FALSE
