SPECIFICATION ShadowSpec
CONSTANTS
  MaxPrice <- MCMaxPrice
  NoTrade = NoTrade
  TakerFee <- MCHighFee
  MarketIds <- MCMarketIds
  Tokens <- MCTokens
  TokensOf <- MCTokensOf
  AssetOf <- MCAssetOf
  Updates <- MCShadowUpdates
  TimeSteps <- MCOneTick
  OrderSize = 3
  StaleBook = 9
  StaleReference = 9
  Window = 1
  MaxOrdersPerMinute = 1
  MaxMarketLoss = 20
  MaxMarketNotional = 20
  MaxAssetNotional = 20
  MaxTotalNotional = 20
  DrawdownLimit = 7
  StartingBalance = 18
  ShadowLimits <- MCShadowLimits
  Ready <- MCReady
  MarketEnd = 9
  NoTradeBefore = 1
  MaxOrders = 2
  MaxEvents = 7
INVARIANTS
  BooksAgree
  ShadowKeepsItsLimits
PROPERTIES
  StopsAtDrawdown
  ShadowOrderIsCovered
