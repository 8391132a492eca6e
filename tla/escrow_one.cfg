SPECIFICATION Spec
CONSTANTS
  Buyer = Buyer
  Seller = Seller
  Hot = Hot
  Safe = Safe
  NoOne = NoOne
  Parties = {Buyer, Seller}
  Arbitrators = {a1}
  Relays = {Hot}
  Deals = {d1}
  BuyerFunds = 22
  ArbFunds = 0
  SafeFunds = 0
  Endowment <- MCEndowment
  DealAmounts = {20}
  Minimums = {1}
  Tariffs <- Percent
  Fines <- Fine10
  FundingSpans = {1}
  Shares = {0, 30, 100}
  Funders = {Buyer}
  Transfers = {2, 20}
  ReserveRates = {5000}
  TreasuryAmounts = {}
  StakeAmounts = {}
  StakePolicies <- NoStake
  Cooldowns = {1}
  Levels = {"JUNIOR"}
  AdminStatuses = {"NONE"}
  MaxTime = 3
INVARIANTS
  CloneSolvent
  PayoutsMatchOutcome
PROPERTIES
  TokensLeaveByRule
  CustodySpec
