-------------------------- MODULE AccountReadback --------------------------
(***************************************************************************)
(* The account readback of src/live_beta_readback.rs: four authenticated   *)
(* requests (the collateral balance, the open orders, the trades, the      *)
(* markets), read in that order and page by page, and the reasons it       *)
(* blocks whoever asked for it.  The account is a record:                  *)
(*   orders: id -> [status, buy, left, price, ours]                        *)
(*   trades: id -> [status, order, hash, ours]                             *)
(*   balance, allowance: units; venue: VenueState; heartbeat: readiness    *)
(* Addresses, JSON and fixed-point parsing are left out; a page that does  *)
(* not parse fails the request like a lost connection.                     *)
(***************************************************************************)
EXTENDS Integers, FiniteSets, FiniteSetsExt, SequencesExt

CONSTANTS
  PageLimit,           \* MAX_READBACK_PAGES
  RequiredCollateral   \* required_collateral_allowance_units

NotAnswered == [failed |-> TRUE]
Reason(reason, condition) == IF condition THEN {reason} ELSE {}
AtLeastZero(n) == IF n < 0 THEN 0 ELSE n

(* get_user_orders, get_trades: the pages one after another, up to the end *)
(* cursor; what they list is a set.  One page too many is an error, how-   *)
(* ever much was read; so is a cursor that does not advance, like any      *)
(* request that fails.                                                     *)
Listed(pages) == UNION {ToSet(pages[n]) : n \in DOMAIN pages \cap (1..PageLimit)}
Told(pages) == [failed |-> FALSE, data |-> Listed(pages)]
AllPages(pages) == IF Len(pages) > PageLimit THEN NotAnswered ELSE Told(pages)

(* The venue is open when any sampled market trades, its own or not.       *)
VenueStateOf(markets) ==
  LET trading == {m \in markets : m.book /\ m.active /\ ~ m.closed /\ ~ m.archived}
  IN IF markets = {} THEN "unknown"
     ELSE IF \E m \in trading : m.accepting THEN "trading_enabled"
     ELSE IF trading # {} THEN "cancel_only"
     ELSE IF \A m \in markets : m.closed \/ m.archived THEN "closed_only"
     ELSE "trading_disabled"

(* get_venue_state stops at the first page with an open market, so that a  *)
(* page too many is no error behind one.                                   *)
MarketPages(pages) ==
  IF VenueStateOf(Listed(pages)) = "trading_enabled" THEN Told(pages) ELSE AllPages(pages)

(* The order of ours a trade belongs to: the taker order, or the first of  *)
(* the maker orders that carries our address.  Without a side the maker    *)
(* address of the trade decides.                                           *)
FirstMakerOrder(trade, account) ==
  LET own == SelectSeq(trade.makers, LAMBDA maker : maker.address = account)
      named == IF own = << >> /\ trade.maker = account THEN trade.makers ELSE own
  IN IF named = << >> THEN "none" ELSE Head(named).order
OrderOfTrade(trade, account) ==
  CASE trade.side = "taker" -> trade.taker
    [] trade.side = "maker" -> FirstMakerOrder(trade, account)
    [] OTHER ->
         IF trade.maker = account \/ FirstMakerOrder(trade, account) # "none"
         THEN FirstMakerOrder(trade, account) ELSE trade.taker

(* reserved_pusd_units: what open buy orders hold back. *)
Reserved(orders) ==
  MapThenSumSet(LAMBDA o : IF orders[o].buy THEN orders[o].left * orders[o].price ELSE 0,
                DOMAIN orders)

-----------------------------------------------------------------------------
(* evaluate_readback_preflight. *)
OrderReasons(orders) ==
  Reason("unexpected_open_orders", orders # << >>)
  \cup Reason("unknown_order_status", \E o \in DOMAIN orders : orders[o].status = "unknown")
  \cup Reason("funder_mismatch", \E o \in DOMAIN orders : ~ orders[o].ours)

BalanceReasons(balance, allowance, reserved) ==
  Reason("balance_below_reserved", balance < reserved)
  \cup Reason("balance_below_required", AtLeastZero(balance - reserved) < RequiredCollateral)
  \cup Reason("allowance_below_required", allowance < RequiredCollateral)

(* Every trade the account ever made is looked at. *)
TradeReasons(trades) ==
  LET statuses == {trades[t].status : t \in DOMAIN trades} IN
  Reason("nonterminal_trade_status", statuses \cap {"Matched", "Mined", "Retrying"} # {})
  \cup Reason("failed_trade_status", "Failed" \in statuses)
  \cup Reason("unknown_trade_status", "Unknown" \in statuses)
  \cup Reason("missing_confirmed_trade_transaction_hash",
              \E t \in DOMAIN trades : trades[t].status = "Confirmed" /\ ~ trades[t].hash)
  \cup Reason("trade_funder_mismatch", \E t \in DOMAIN trades : ~ trades[t].ours)

(* Nobody tells a readback that an order was approved: the command line    *)
(* knows only "no order" and "unknown".                                    *)
HeartbeatOf(orders) == IF orders = << >> THEN "not_started" ELSE "unknown"
HeartbeatReasons(heartbeat, orders) ==
  Reason("heartbeat_active_without_approved_order", heartbeat = "healthy" /\ orders = << >>)
  \cup Reason("heartbeat_unhealthy", heartbeat = "unhealthy")
  \cup Reason("heartbeat_unknown",
              heartbeat = "unknown" \/ (heartbeat = "not_started" /\ orders # << >>))

PrerequisiteReasons(held) ==
  Reason("lb3_hold_not_released", "lb3_hold" \in held)
  \cup Reason("legal_access_not_recorded", "legal_access" \in held)
  \cup Reason("deployment_geoblock_not_recorded", "geoblock" \in held)
  \cup Reason("clob_host_mismatch", "host" \in held)
  \cup Reason("chain_id_mismatch", "chain" \in held)
  \cup Reason("account_address_invalid", "address" \in held)
  \cup Reason("eoa_wallet_funder_mismatch", "eoa" \in held \ {"address"})

ReadbackReasons(held, account) ==
  PrerequisiteReasons(held)
  \cup Reason("venue_state_not_open", account.venue # "trading_enabled")
  \cup OrderReasons(account.orders)
  \cup BalanceReasons(account.balance, account.allowance, Reserved(account.orders))
  \cup TradeReasons(account.trades)
  \cup HeartbeatReasons(HeartbeatOf(account.orders), account.orders)

(* run_lb4_readback_preflight_validation: without the prerequisites, or    *)
(* offline, a sample account is judged instead of the real one.            *)
SampleAccount ==
  [venue |-> "trading_enabled", orders |-> << >>, trades |-> << >>,
   balance |-> RequiredCollateral, allowance |-> RequiredCollateral]
AsksTheVenue(held, localOnly) ==
  ~ localOnly /\ held \cap {"lb3_hold", "legal_access", "geoblock"} = {}
=============================================================================
