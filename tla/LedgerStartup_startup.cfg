CONSTANTS
  Ide = {"ide"}
  Desktop = {}
  Mcp = {"mcp"}
  Standalone = {"daemon"}
  Native = {"mcp", "daemon"}
  Places <- OlderPlaces
  Looks <- Where
  Past <- OlderEvents
  Legacies <- OlderLedgers
  NoHost = NoHost
  NoKey = NoKey
  MaxStarts = 3
  MaxCommits = 2
  MaxTears = 1
  MaxKeyFaults = 1
SPECIFICATION Spec
INVARIANTS TypeOK ServesOlderHistory FailsClosed MigrationResumes AckedReadable KeyRefusalHasCause
CHECK_DEADLOCK FALSE
