\* Two processes of one device; two requests time out or processes end, and an
\* acknowledgement that timed out may be delivered more than once.
SPECIFICATION FairSpec
CONSTANTS
  Ids = {i1, i2, i3}
  Devices = {d1}
  Procs = {service, cli}
  Keys = {k1, k2, k3}
  Limit = 2
  MaxClock = 1
  MaxFailures = 2
  None = None
ACTION_CONSTRAINT NamesInOrder
INVARIANTS TypeOK ExecutedAtMostOnce OutcomeIsTrue AuditedOnce NoOvertaking LossIsBounded
PROPERTIES OutcomeIsFinal AnsweredOrLost
