SPECIFICATION Spec
CONSTANTS
  FundJobs = {f1}
  LifeJobs = {l1}
  Scheduled = {f1, l1}
  Settings = {FALSE}
  MaxAttempts = 2
  MaxWatches = 1
  MaxAhead = 0
  MaxChain = 2
  MaxCrashes = 0
  MaxTroubles = 1
  MaxWorld = 3
INVARIANTS
  NothingMissed
