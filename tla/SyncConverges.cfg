\* No two writes share a second; users and failures stop at some time.
SPECIFICATION FairSpec
CONSTANTS
  Devices = {d1, d2}
  Logs = {l}
  Files = {f}
  UserActs = {"edit"}
  EditPhases = {"idle"}
  Faults = {"put", "crash", "apply"}
  DistinctSeconds = TRUE
  MaxEdits = 3
  MaxPaths = 1
  MaxClock = 0
  MaxFailures = 1
  None = None
PROPERTIES LogsConverge FilesConverge
