SPECIFICATION Spec
CONSTANTS
  Requests = {r1, r2}
  Sessions = {s1, s2}
  Script = Script
  Clients = {c1}
  Tokens = {t1, t2}
  Devices = {d1, d2}
  Backends = {b1, b2}
  Keys = {k1, k2}
  SessionTtl = 2
  TokenTtl = 1
  Window = 2
  Limit = 2
  Mixes <- MixesV
  MaxTime = 2
  MaxCrashes = 1
  None = None
SYMMETRY Symmetry
INVARIANTS TypeOK EnrolledInTime NoLateUse ThrottleBound VerifiedWasProbed
PROPERTIES EnrollmentPromise
CHECK_DEADLOCK FALSE
