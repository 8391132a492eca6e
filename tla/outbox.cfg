SPECIFICATION FairSpec
CONSTANTS
  buyer = buyer
  seller = seller
  Recipients <- TemplateRecipients
  Workers = {w1, w2}
  Nobody = Nobody
  Moods = {"awake", "quiet", "muted"}
  MaxAttempts = 2
  MaxEvents = 1
  MaxMishaps = 1
  MaxErrors = 3
INVARIANTS
  NobodyForgotten
  WorkersApart
PROPERTIES
  EventsSettle
CHECK_DEADLOCK FALSE
