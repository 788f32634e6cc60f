SPECIFICATION RunSpec
CONSTANTS
  MaxPrice <- MCMaxPrice
  NoTrade = NoTrade
  TakerFee <- MCTakerFee
  MarketIds <- MCMarketIds
  Tokens <- MCTokens
  TokensOf <- MCTokensOf
  AssetOf <- MCAssetOf
  Updates <- MCUpdates
  TimeSteps <- MCTimeSteps
  OrderSize = 3
  StaleBook = 1
  StaleReference = 1
  Window = 1
  MaxOrdersPerMinute = 1
  MaxMarketLoss = 15
  MaxMarketNotional = 15
  MaxAssetNotional = 15
  MaxTotalNotional = 15
  DrawdownLimit = 3
  MaxOrders = 2
  MaxEvents = 5
PROPERTY OpensOnFreshData
INVARIANT OrderRateHolds
