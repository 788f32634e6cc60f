------------------------- MODULE LiveReconciliation -------------------------
(***************************************************************************)
(* reconcile_live_state (src/live_reconciliation.rs): the mismatches       *)
(* between what the bot believes of its orders and trades and what the     *)
(* venue reads back.  Both sides are records:                              *)
(*   local: known, canceled, partial (sets of orders), trades (set),       *)
(*          owners (pairs <<trade, order>>), balance, tokens (the          *)
(*          conditional tokens of that balance), positions                 *)
(*   venue: orders (order -> status), trades (trade -> [order, status]),   *)
(*          balance, positions                                             *)
(* The fingerprint comparison is left out: nothing in src/ sets one.       *)
(***************************************************************************)
CONSTANT NoBalance

When(mismatch, condition) == IF condition THEN {mismatch} ELSE {}
Having(orders, statuses) == {o \in DOMAIN orders : orders[o] \in statuses}

OrderMismatches(local, venue) ==
  LET open == Having(venue.orders, {"Live", "PartiallyFilled"})
      traded == {owner[2] : owner \in local.owners}
  IN When("UnknownOpenOrder", ~ open \subseteq local.known)
     \cup When("MissingVenueOrder", ~ local.known \subseteq DOMAIN venue.orders)
     \cup When("CancelNotConfirmed",
               ~ local.canceled \subseteq Having(venue.orders, {"Canceled"}))
     \cup When("UnknownVenueOrderStatus", Having(venue.orders, {"Unknown"}) # {})
     \cup When("UnexpectedPartialFill",
               ~ Having(venue.orders, {"PartiallyFilled"}) \subseteq local.partial)
     \cup When("UnexpectedFill", ~ Having(venue.orders, {"Filled"}) \subseteq traded)

TradeMismatches(local, venue) ==
  LET trades == DOMAIN venue.trades
      statuses == {venue.trades[t].status : t \in trades}
  IN When("MissingVenueTrade", ~ local.trades \subseteq trades)
     \cup When("UnexpectedFill", ~ trades \subseteq local.trades)
     \cup When("TradeOrderMismatch",
               \E t \in trades \cap local.trades :
                  <<t, venue.trades[t].order>> \notin local.owners)
     \cup When("NonterminalVenueTradeStatus",
               statuses \cap {"Matched", "Mined", "Retrying"} # {})
     \cup When("TradeStatusFailed", "Failed" \in statuses)
     \cup When("UnknownVenueTradeStatus", "Unknown" \in statuses)

(* A balance is [reserved, available, total] or NoBalance.  The venue's    *)
(* conditional tokens are never read, so the bot's cannot be confirmed.    *)
BalanceMismatches(local, venue) ==
  When("BalanceDeltaMismatch", local.balance # venue.balance)
  \cup When("ReservedBalanceMismatch",
            /\ NoBalance \notin {local.balance, venue.balance}
            /\ local.balance.reserved # venue.balance.reserved)
  \cup When("MissingVenueConditionalBalanceEvidence",
            NoBalance \notin {local.balance, venue.balance} /\ local.tokens # {})

(* Without venue evidence a local position cannot be confirmed. *)
PositionMismatches(local, venue, complete) ==
  When("PositionMismatch", complete /\ local.positions # venue.positions)
  \cup When("MissingVenuePositionEvidence", ~ complete /\ local.positions # {})

Mismatches(local, venue, complete) ==
  OrderMismatches(local, venue) \cup TradeMismatches(local, venue)
  \cup BalanceMismatches(local, venue) \cup PositionMismatches(local, venue, complete)
=============================================================================
