----------------------------- MODULE LiveVenue -----------------------------
(***************************************************************************)
(* The venue as the live sessions of src/main.rs use it: it is outside the *)
(* repository.  An order is placed for an intent (each intent is submitted *)
(* at most once, so the intent stands for the order id the venue returns), *)
(* rests, trades in one or more fills, and ends matched or canceled.  It   *)
(* may end canceled at any time without the bot: GTD expiry, a missed      *)
(* heartbeat, the market resolving.                                        *)
(*                                                                         *)
(* A submit whose answer was lost stays in `inflight`: the request may     *)
(* still arrive, later, or never.                                          *)
(***************************************************************************)
EXTENDS Integers, FiniteSets

CONSTANTS
  Intents,       \* the intents that may be submitted
  OrderSize      \* units of every order

VARIABLES
  orders,        \* order id -> [status, matched]
  trades,        \* trade id -> [order, status]
  inflight,      \* submits without an answer that have not arrived
  late           \* history: the orders that arrived after their answer was lost

venueVars == <<orders, trades, inflight, late>>

ASSUME OrderSizeAssumption == OrderSize \in Nat \ {0}

OrderRecord == [status : {"live", "matched", "canceled"}, matched : 0..OrderSize]
Trades == Intents \X (1..OrderSize)          \* the order and what was matched after it
TradeRecord == [order : Intents, status : {"Matched", "Confirmed", "Failed"}]

VenueTypeOK ==
  /\ DOMAIN orders \subseteq Intents
  /\ \A o \in DOMAIN orders : orders[o] \in OrderRecord
  /\ DOMAIN trades \subseteq Trades
  /\ \A t \in DOMAIN trades : trades[t] \in TradeRecord
  /\ inflight \subseteq Intents
  /\ late \subseteq Intents

Fresh == [status |-> "live", matched |-> 0]
With(f, key, value) == [x \in DOMAIN f \cup {key} |-> IF x = key THEN value ELSE f[x]]

OpenOrders == {o \in DOMAIN orders : orders[o].status = "live"}
TradesOf(o) == {t \in DOMAIN trades : trades[t].order = o}
Confirmed(seen) == \A t \in DOMAIN seen : seen[t].status = "Confirmed"

(* The account's funds: settled trades spend, open orders reserve. *)
Spent == Cardinality({t \in DOMAIN trades : trades[t].status = "Confirmed"})

VenueInit ==
  /\ orders = << >>
  /\ trades = << >>
  /\ inflight = {}
  /\ late = {}

-----------------------------------------------------------------------------
(* What a call of the bot does at the venue; the caller sees the answer.   *)

Accept(i) ==
  /\ orders' = With(orders, i, Fresh)
  /\ UNCHANGED <<trades, inflight, late>>

LoseSubmit(i) ==
  /\ inflight' = inflight \cup {i}
  /\ UNCHANGED <<orders, trades, late>>

(* An exact cancel of an open order; any other one changes nothing. *)
Close(o) ==
  /\ o \in OpenOrders
  /\ orders' = [orders EXCEPT ![o].status = "canceled"]
  /\ UNCHANGED <<trades, inflight, late>>

-----------------------------------------------------------------------------
(* What happens at the venue by itself.                                    *)

Arrive(i) ==
  /\ i \in inflight
  /\ orders' = With(orders, i, Fresh)
  /\ inflight' = inflight \ {i}
  /\ late' = late \cup {i}
  /\ UNCHANGED trades

Vanish(i) ==
  /\ i \in inflight
  /\ inflight' = inflight \ {i}
  /\ UNCHANGED <<orders, trades, late>>

Fill(o, size) ==
  LET matched == orders[o].matched + size IN
  /\ o \in OpenOrders
  /\ matched <= OrderSize
  /\ orders' = [orders EXCEPT ![o] =
       [status |-> IF matched = OrderSize THEN "matched" ELSE "live", matched |-> matched]]
  /\ trades' = With(trades, <<o, matched>>, [order |-> o, status |-> "Matched"])
  /\ UNCHANGED <<inflight, late>>

(* A matched trade settles on chain or fails. *)
Settle(t, status) ==
  /\ trades[t].status = "Matched"
  /\ trades' = [trades EXCEPT ![t].status = status]
  /\ UNCHANGED <<orders, inflight, late>>

VenueStep ==
  \/ \E i \in inflight : Arrive(i) \/ Vanish(i)
  \/ \E o \in OpenOrders : Close(o) \/ \E size \in 1..OrderSize : Fill(o, size)
  \/ \E t \in DOMAIN trades, status \in {"Confirmed", "Failed"} : Settle(t, status)
=============================================================================
