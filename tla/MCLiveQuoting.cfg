\* Sessions from the approval to their orders, by a clock, and single ticks.
SPECIFICATION QuotingSpec
CONSTANTS
  Requests <- MCRequests
  Books <- MCBooks
  BookLags = {0, 2}
  Cash = {2, 8}
  PriceOne = 10
  GtdBuffer = 2
  RateWindow = 4
  QuietSeconds = 1
  MaxTime = 11
  Ticks <- MCTicks
  MaxSubmitRate = 2
  MaxCancelRate = 2
  MaxReplacementRate = 2
  MaxReplacements = 2
  MaxLiveOrders = 2
  LeaveOpenInWindow = FALSE
INVARIANTS
  KeepsToItsApproval
  KeepsToItsTime
  QuotesBehindTheBook
  RatesHold
  KeptOnlyWhenSound
CHECK_DEADLOCK FALSE
