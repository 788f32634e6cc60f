SPECIFICATION ReportSpec
CONSTANTS
  MaxPrice <- MCMaxPrice
  Tokens <- MCTokens
  Asked <- MCAsked
  Shown <- MCShown
  MaxOrders <- MCMaxOrders
  NoTrade = NoTrade
  TakerFee <- MCTakerFee
INVARIANTS
  TypeOK
  QueueExactlyForRestingMakers
  StatusAgreesWithFills
  QueuePriority
  LedgerIsExact
  AuditTrailTellsTheOrders
  ReportAddsUp
PROPERTIES
  LifecycleSpec
CHECK_DEADLOCK FALSE
