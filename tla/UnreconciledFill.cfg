\* A session takes a fill left by an earlier one as its baseline.
SPECIFICATION Spec
CONSTANTS
  NoIntent = NoIntent
  NoOrder = NoOrder
  NoTrade = NoTrade
  NoBalance = NoBalance
  NoRun = NoRun
  Intents <- SessionIntents
  MaxOrders = 1
  OrderSize = 1
  CancelRetryLimit = 2
  Approvals = {a1, a2}
  a1 = a1
  a2 = a2
PROPERTY NoSubmitOverUnreconciledFill
CHECK_DEADLOCK FALSE
