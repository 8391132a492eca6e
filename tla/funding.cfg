SPECIFICATION FairSpec
CONSTANTS
  h1 = h1
  h2 = h2
  s1 = s1
  s2 = s2
  r1 = r1
  r2 = r2
  d1 = d1
  p1 = p1
  p2 = p2
  NoOne = NoOne
  Hooks = {h1}
  Sweeps = {s2}
  Workers = {h1, s2}
  Replicas = {r1, r2}
  Deals = {d1}
  Payments = {p1}
  Replica <- MCReplica
  Deposit <- MCDeposit
  DealOf <- MCDealOf
  Float = 6
  Predeployed = {}
  Notices = {"processing"}
  MaxCrashes = 1
  MaxStalls = 1
  MaxSlow = 1
  MaxFaults = 1
  MaxLost = 1
  MaxCrowd = 1
  MaxSwaps = 1
  SweepLimit = 1
  MaxMishaps = 1
INVARIANTS
  LeaseExclusive
  PaidOncePerLapse
  DeliveryBacked
  BooksTruthful
PROPERTIES
  PaymentsSettle
