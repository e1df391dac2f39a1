SPECIFICATION Spec
CONSTANTS
  duration = duration
  total = total
  wall = wall
  event = event
  timestamp = timestamp
  id = id
  Keys = {duration, total, wall, event, timestamp, id}
  Paths <- MCPaths
  DurationPaths <- MCDurationPaths
  TIMESTAMP_PATH <- MCTimestampPath
  ID_PATH <- MCIdPath
  Defaults <- MCDefaults
  Payloads = {nan}
  NonFinite = {nan}
  KEYS <- MCKeys
  LOG_KEY = log
  LEVEL_KEY = level
  MESSAGE_KEY = message
  LogEntries <- MCLogEntries
  Logs <- MCLogs
  log = log
  level = level
  message = message
  info = info
  hello = hello
  Elapsed = elapsed
  Now = now
  Id = ulid
  Amounts <- MCAmounts
  MAX_U64 = 1
  MIN_I64 <- MCMinI64
  MAX_I64 = 1
INVARIANTS TypeOK CountsPresent LineIsStamped IdSurvives SerializersAgree LineReadsBack
PROPERTY ImplementsFieldMap
CHECK_DEADLOCK FALSE
