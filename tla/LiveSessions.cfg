\* An LA5 and an LA6 approval of one order each, crashes and recoveries between them.
SPECIFICATION LiveSpec
CONSTANTS
  NoIntent = NoIntent
  NoOrder = NoOrder
  NoTrade = NoTrade
  NoBalance = NoBalance
  NoRun = NoRun
  Intents <- SessionIntents
  Approvals = {a1, a2}
  QuoteApprovals = {a2}
  a1 = a1
  a2 = a2
  MaxOrders = 1
  OrderSize = 1
  CancelRetryLimit = 2
INVARIANTS
  ApprovalsSpentInWriting
  LiveOutcomesAreReal
  OnlyLateSubmitsOverlap
PROPERTIES
  QuoteSubmitsAsApproved
CHECK_DEADLOCK FALSE
