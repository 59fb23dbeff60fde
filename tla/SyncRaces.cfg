\* Users act at any moment but between the backup and the replacement.
SPECIFICATION Spec
CONSTANTS
  Devices = {d1, d2}
  Logs = {l}
  Files = {f}
  UserActs = {"edit"}
  EditPhases = {"idle", "publish", "peers", "plan", "save"}
  Faults = {"put", "torn", "crash", "apply", "switch"}
  DistinctSeconds = FALSE
  MaxEdits = 3
  MaxPaths = 1
  MaxClock = 1
  MaxFailures = 1
  None = None
SYMMETRY Symmetry
INVARIANTS EveryEditSurvives NothingTornTravels
PROPERTIES OverwrittenIsKept
