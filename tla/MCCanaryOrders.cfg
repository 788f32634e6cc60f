\* Two commands and one fault of any kind.
SPECIFICATION Spec
CONSTANTS
  NoBalance = NoBalance
  NoBaseline = NoBaseline
  Intents <- MCIntents
  OrderSize = 2
  MaxOrders = 2
  MaxFaults = 1
  MaxReads = 2
  MaxTrades = 1
  One = 10
  FeeRate = 1
  FeeScale = 10
  Limits <- MCLimits
  AgeLimits <- MCAgeLimits
  FillApproval <- MCFillApproval
  FillMarkets <- MCFillMarkets
  CanaryPlan <- MCCanaryPlan
  CanaryNotional = 10
  TakerApproval <- MCTakerApproval
  Quotes <- MCQuotes
  Now = 1
  Funds = 20
  PageLimit = 50
  RequiredCollateral = 1
INVARIANTS
  OrdersStayTraceable
  VerdictsAreTrue
  TakerPaysWithinApproval
PROPERTIES
  ApprovalsAreOneShot
  StepsComeNearerToTheEnd
CHECK_DEADLOCK FALSE
