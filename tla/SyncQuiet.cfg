\* Users act between runs; requests, runs and replacements fail twice.
SPECIFICATION Spec
CONSTANTS
  Devices = {d1, d2}
  Logs = {l}
  Files = {f}
  UserActs = {"edit", "partial", "delete"}
  EditPhases = {"idle"}
  Faults = {"put", "fetch", "crash", "apply"}
  DistinctSeconds = FALSE
  MaxEdits = 2
  MaxPaths = 2
  MaxClock = 1
  MaxFailures = 2
  None = None
SYMMETRY Symmetry
INVARIANTS TypeOK StoreBacksManifests
PROPERTIES KeepsContract FreshEditNotOverwritten OverwrittenWasPublished LogsOnlyGrow
