----------------------------- MODULE MCPaperRun -----------------------------
(* One market with two outcome tokens, ticks 0..5; books with room for a   *)
(* maker, with depth for a taker on several levels, and with hints only.   *)
EXTENDS PaperRun

MCMaxPrice == 5
MCTakerFee == [p \in 0..MCMaxPrice |-> IF p \in {0, 5} THEN 0 ELSE 1]
MCMarketIds == <<"m">>
MCTokens == {"up", "down"}
MCTokensOf == [m \in {"m"} |-> {"up", "down"}]
MCAssetOf == [m \in {"m"} |-> "btc"]

Snapshot(token, bids, asks) ==
  [type |-> "BookSnapshot", token |-> token, bids |-> bids, asks |-> asks]
Delta(token, bids, asks) ==
  [type |-> "BookDelta", token |-> token, bids |-> bids, asks |-> asks]
Hint(token, bid, ask) ==
  [type |-> "BestBidAsk", token |-> token, bid |-> {bid}, ask |-> {ask}]
TradePrint(token, price, size) ==
  [type |-> "LastTrade", token |-> token, price |-> price, size |-> size]
Tick == [type |-> "ReferenceTick", asset |-> "btc"]
Market(state) == [type |-> "MarketUpdated", market |-> "m", state |-> state]
Created == [type |-> "MarketCreated", market |-> "m"]
Resolved(token) == [type |-> "MarketResolved", market |-> "m", winner |-> token]

Wide == Snapshot("up", [p \in {1} |-> 1], [p \in {4} |-> 2])
Deep == Delta("up", << >>, [p \in {2, 3, 4} |-> 1])
Cheap == Delta("up", << >>, [p \in {2, 3, 4} |-> IF p = 2 THEN 3 ELSE 0])

MCUpdates ==
  {Wide, Deep, Hint("down", 1, 3),
   TradePrint("up", 2, 1), TradePrint("up", 2, 4), TradePrint("down", 2, 1),
   Tick, Market("Active"), Created, Resolved("up")}

MCTimeSteps == {0, 1}
MCOneTick == {1}
=============================================================================
