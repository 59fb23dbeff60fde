SPECIFICATION Spec
CONSTANTS
  Devices = {d1, d2}
  Logs = {l}
  Files = {}
  UserActs = {"edit"}
  EditPhases = {"idle", "plan"}
  Faults = {}
  DistinctSeconds = FALSE
  MaxEdits = 3
  MaxPaths = 1
  MaxClock = 0
  MaxFailures = 0
  None = None
PROPERTIES ComparedLogsGrow
