\* One approval of two orders, each filled in up to two trades.
SPECIFICATION Spec
CONSTANTS
  NoIntent = NoIntent
  NoOrder = NoOrder
  NoTrade = NoTrade
  NoBalance = NoBalance
  NoRun = NoRun
  Intents <- SessionIntents
  Approvals = {a1}
  a1 = a1
  MaxOrders = 2
  OrderSize = 2
  CancelRetryLimit = 3
INVARIANTS
  OutcomesAreReal
PROPERTIES
  RecoveryPassesOnlyWhenExplained
  SessionsComeNearerToTheEnd
CHECK_DEADLOCK FALSE
