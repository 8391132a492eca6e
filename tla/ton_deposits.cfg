SPECIFICATION FairSpec
CONSTANTS
  w1 = w1
  c1 = c1
  a1 = a1
  r1 = r1
  r2 = r2
  d1 = d1
  t1 = t1
  t2 = t2
  NoOne = NoOne
  Workers = {w1, a1}
  Watchers = {w1}
  Admins = {a1}
  Replicas = {r1, r2}
  Replica <- MCReplica
  Deals = {d1}
  Predeployed = {d1}
  Deposit <- MCDeposit
  Float = 4
  Payments = {p1}
  DealOf <- MCDealOf
  Methods = {"crypto", "crypto_ton", "crypto_toncoin"}
  Transfers = {t1}
  Units <- MCUnits
  Mishaps = {"crash", "stall", "outage", "fault", "lost", "crowd", "extension"}
  MaxMishaps = 1
  SweepLimit = 1
INVARIANTS
  OneDepositPerLapse
  FloatBacked
  CompletedTruthful
PROPERTIES
  DepositsSettle
CHECK_DEADLOCK FALSE
