SPECIFICATION FairSpec
CONSTANTS
  BuyerTotal = 4
  SellerPayout = 3
  PlatformFee = 1
  RefundToBuyer = 4
  RefundFee = 0
  FundingDeadline = 2
  DeliveryDeadline = 3
  ConfirmationDeadline = 4
  Reserve = 2
  Fee = 1
  Rent = 1
  Values = {0, 1, 5, 6, 8}
  Awards = {0, 1, 3, 4}
  MaxBalance = 14
  MaxTime = 6
INVARIANTS
  DepositUntouched
PROPERTIES
  PlanSpec
  DealsSettle
CHECK_DEADLOCK FALSE
