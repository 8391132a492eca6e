SPECIFICATION FairSpec
CONSTANTS
  BuyerTotal = 4
  SellerPayout = 3
  PlatformFee = 1
  RefundToBuyer = 4
  RefundFee = 0
  FundingDeadline = 1
  DeliveryDeadline = 2
  ConfirmationDeadline = 3
  FundingQuery = 2
  MaxQuery = 30
  MaxAttempt = 3
  Awards = {1, 3, 4}
  Deposits = {1, 4}
  Leaps = {27}
  MaxDeposits = 2
  MaxRefusals = 2
  MaxTime = 4
INVARIANTS
  NeverBricked
  LegsCovered
PROPERTIES
  PlanSpec
  DealsSettle
CHECK_DEADLOCK FALSE
