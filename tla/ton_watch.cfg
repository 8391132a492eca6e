SPECIFICATION Spec
CONSTANTS
  FundJobs = {f1, f2}
  LifeJobs = {l1}
  Scheduled = {f1, l1}
  Settings = {TRUE}
  MaxAttempts = 2
  MaxWatches = 1
  MaxAhead = 1
  MaxChain = 3
  MaxCrashes = 1
  MaxTroubles = 1
  MaxWorld = 4
INVARIANTS
  CursorTruthful
  AppliedWhole
  BooksFollowChain
PROPERTIES
  ClosedRests
  Settles
