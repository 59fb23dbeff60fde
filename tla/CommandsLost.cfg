SPECIFICATION FairSpec
CONSTANTS
  Ids = {i1}
  Devices = {d1}
  Procs = {service}
  Keys = {k1}
  Limit = 1
  MaxClock = 0
  MaxFailures = 1
  None = None
PROPERTIES CommandsAnswered
