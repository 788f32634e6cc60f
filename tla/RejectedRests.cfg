\* A submit whose answer is lost is journaled as rejected.
SPECIFICATION Spec
CONSTANTS
  NoIntent = NoIntent
  NoOrder = NoOrder
  NoTrade = NoTrade
  NoBalance = NoBalance
  NoRun = NoRun
  Intents <- SessionIntents
  MaxOrders = 1
  OrderSize = 1
  CancelRetryLimit = 2
  Approvals = {a1}
  a1 = a1
INVARIANT RejectedNeverRests
CHECK_DEADLOCK FALSE
