SPECIFICATION Spec
CONSTANTS
  Buyer = Buyer
  Seller = Seller
  Hot = Hot
  Safe = Safe
  NoOne = NoOne
  Parties = {Buyer}
  Arbitrators = {a1}
  Relays = {Hot}
  Deals = {d1, d2}
  BuyerFunds = 2
  ArbFunds = 2
  SafeFunds = 0
  Endowment <- MCEndowment
  DealAmounts = {1}
  Minimums = {1}
  Tariffs <- NoFee
  Fines <- FineOfOne
  FundingSpans = {1}
  Shares = {100}
  Funders = {Buyer}
  Transfers = {1}
  ReserveRates = {}
  TreasuryAmounts = {}
  StakeAmounts = {1, 2}
  StakePolicies <- AnyPolicy
  Cooldowns = {1}
  Levels = {"SENIOR"}
  AdminStatuses = {"NONE", "ACTIVE", "TERMINATED"}
  MaxTime = 2
INVARIANTS
  DisputesCounted
  WithdrawalExcludesDisputes
  StakesBacked
SYMMETRY DealSymmetry
