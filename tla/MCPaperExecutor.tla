-------------------------- MODULE MCPaperExecutor --------------------------
(* A small instance of PaperTrading:  two tokens, ticks 0..3, makers and   *)
(* takers on both sides, an invalid intent of each sort, and books with    *)
(* queue ahead, executable depth on one or two levels and trade prints at  *)
(* and off the orders' price.                                              *)
EXTENDS PaperTrading

Intent(token, side, kind, price, size) ==
  [token |-> token, side |-> side, kind |-> kind, price |-> price, size |-> size,
   notional |-> price * size]

MCAsked == {Intent("up", "Buy", "Maker", 1, 3), Intent("up", "Sell", "Maker", 2, 2),
              Intent("up", "Buy", "Taker", 2, 4), Intent("up", "Sell", "Taker", 1, 3),
              Intent("up", "Buy", "Maker", 4, 1), Intent("up", "Buy", "Taker", 2, 0)}

AtTicks(l) == [p \in Prices |-> IF p \in DOMAIN l THEN l[p] ELSE 0]
TradeAt(price, size, ts) == [price |-> price, size |-> size, ts |-> ts]
Book(token, bids, asks, trade) ==
  [token |-> token, bids |-> AtTicks(bids), asks |-> AtTicks(asks), bidHint |-> {},
   askHint |-> {}, trade |-> trade, recv |-> {}]

MCShown == {Book("up", [p \in {1} |-> 2], [p \in {2} |-> 1], NoTrade),
            Book("up", [p \in {1} |-> 2], [p \in {1, 2} |-> 1], TradeAt(1, 1, 1)),
            Book("up", [p \in {1, 2} |-> 1], [p \in {3} |-> 2], TradeAt(1, 3, 2)),
            Book("up", [p \in {1} |-> 1], [p \in {2} |-> 2], TradeAt(2, 3, 3)),
            Book("down", [p \in {1} |-> 1], [p \in {2} |-> 1], TradeAt(1, 2, 1))}

MCTokens == {"up", "down"}
MCMaxPrice == 3
MCMaxOrders == 2
MCTakerFee == [p \in 0..MCMaxPrice |-> IF p = 2 THEN 1 ELSE 0]
=============================================================================
