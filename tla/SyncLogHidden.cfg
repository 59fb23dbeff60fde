SPECIFICATION Spec
CONSTANTS
  Devices = {d1, d2, d3}
  Logs = {l}
  Files = {}
  UserActs = {"edit"}
  EditPhases = {"idle"}
  Faults = {}
  DistinctSeconds = FALSE
  MaxEdits = 2
  MaxPaths = 1
  MaxClock = 1
  MaxFailures = 0
  None = None
PROPERTIES LongerLogNotHidden
SYMMETRY Symmetry
