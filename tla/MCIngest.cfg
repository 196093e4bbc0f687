SPECIFICATION FairSpec
CONSTANTS
  Syslog = {udp}
  Streams = {tcp}
  Kafka = {kafka}
  Calls = {post}
  Layouts <- MCLayouts
  Attempts <- MCAttempts
  Stamps <- MCStamps
  Zone = 1
  Year = 3
  DefaultReaderID = "unknown"
  Buffer = 1
  Horizon = 2
  MaxLines <- MCLines
INVARIANTS
  AsMeant
  NothingLost
  AnswersAdd
PROPERTY
  NeverStalled
CHECK_DEADLOCK FALSE
