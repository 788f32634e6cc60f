--------------------------- MODULE MCCanaryOrders ---------------------------
EXTENDS CanaryOrders
MCIntents == 1..MaxOrders
MCLimits == [notional |-> 12, total |-> 12, fee |-> 1, slippage |-> 1, buffer |-> 0]
MCAgeLimits == [bookAge |-> 5, referenceAge |-> 5, predictiveAge |-> 5,
                cutoff |-> 10, buffer |-> 2]

MCFillApproval == [amount |-> 8, notional |-> 10, worst |-> 5, fee |-> 1, slippage |-> 3,
                   minSize |-> 1, end |-> 100]
Book(ask) == [ask |-> ask, size |-> 5, bookAge |-> 1, referenceAge |-> 1]
MCFillMarkets == {Book(4), Book(6)}
MCCanaryPlan == [buy |-> TRUE, price |-> 3, size |-> 2, notional |-> 6, bid |-> 2, ask |-> 4,
                 expiry |-> 50, end |-> 100, bookAge |-> 1, referenceAge |-> 1]

(* The second quote fits the approval at its visible price, not at the     *)
(* limit the order is sent with; the third comes with a book too old.      *)
MCTakerApproval == [size |-> 2, notional |-> 10, worst |-> 5, fee |-> 1, slippage |-> 1,
                    cutoff |-> 10]
Quote(bid, ask, age) ==
  [bid |-> bid, asks |-> <<[price |-> ask, size |-> 5]>>, fair |-> 9,
   ages |-> [book |-> age, reference |-> 1, predictive |-> 1]]
MCQuotes == {Quote(3, 4, 1), Quote(4, 5, 1), Quote(3, 4, 6)}
=============================================================================
