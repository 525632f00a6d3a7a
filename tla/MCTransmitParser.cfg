SPECIFICATION ParserSpec
CONSTANTS
  NodeIds = {0, 1, 2}
  Durations = {1, 2}
  FileTime = 3
  MaxEvents = 4
INVARIANTS EventsInOrder EndsTakeTurns
CHECK_DEADLOCK FALSE
