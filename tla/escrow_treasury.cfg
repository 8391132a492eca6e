SPECIFICATION Spec
CONSTANTS
  Buyer = Buyer
  Seller = Buyer
  Hot = Hot
  Safe = Safe
  NoOne = NoOne
  Parties = {Buyer}
  Arbitrators = {a1}
  Relays = {Hot}
  Deals = {d1}
  BuyerFunds = 22
  ArbFunds = 0
  SafeFunds = 1
  Endowment <- MCEndowment
  DealAmounts = {20}
  Minimums = {1}
  Tariffs <- Percent
  Fines <- Fine10
  FundingSpans = {1}
  Shares = {60}
  Funders = {Buyer}
  Transfers = {22}
  ReserveRates = {5000}
  TreasuryAmounts = {1}
  StakeAmounts = {}
  StakePolicies <- NoStake
  Cooldowns = {1}
  Levels = {"JUNIOR"}
  AdminStatuses = {}
  MaxTime = 1
INVARIANTS
  TreasurySolvent
  RewardsAccounted
  AwardsNeverBlocked
