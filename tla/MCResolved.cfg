SPECIFICATION RunSpec
CONSTANTS
  MaxPrice <- MCMaxPrice
  NoTrade = NoTrade
  TakerFee <- MCTakerFee
  MarketIds <- MCMarketIds
  Tokens <- MCTokens
  TokensOf <- MCTokensOf
  AssetOf <- MCAssetOf
  Updates <- MCUpdates
  TimeSteps <- MCOneTick
  OrderSize = 3
  StaleBook = 9
  StaleReference = 9
  Window = 1
  MaxOrdersPerMinute = 1
  MaxMarketLoss = 15
  MaxMarketNotional = 15
  MaxAssetNotional = 15
  MaxTotalNotional = 15
  DrawdownLimit = 3
  MaxOrders = 2
  MaxEvents = 8
INVARIANT ResolvedIsSettled
