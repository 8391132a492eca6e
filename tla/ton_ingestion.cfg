SPECIFICATION LiveSpec
CONSTANTS
  Workers = {w1, w2}
  Preparers = {p1}
  Legs = {payee}
  Outcomes = {"release", "resolution"}
  MaxApplyFailures = 2
  MaxVersions = 2
  MaxEvents = 4
  MaxTroubles = 1
INVARIANTS
  OneEscrow
  AppliedTogether
PROPERTIES
  EventsAnswered
CHECK_DEADLOCK FALSE
