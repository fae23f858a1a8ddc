CONSTANTS
  Hubs = {server, mcp}
  Blocks = {"t1", "t2"}
  Vague = {"t1"}
  Private = {"t1"}
  Credit = {"t1"}
  Percents <- Readings
  AutoSync <- OnOff
  None = None
  MaxCalls = 2
  MaxTasks = 2
  MaxTurns = 3
  MaxUpsets = 2
SPECIFICATION Spec
INVARIANTS TypeOK ListedOnce GuardsHold
PROPERTIES SyncAgrees MemoryKeeps DispatchRecorded
SYMMETRY Alike
CHECK_DEADLOCK FALSE
