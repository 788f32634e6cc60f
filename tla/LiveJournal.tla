---------------------------- MODULE LiveJournal ----------------------------
(***************************************************************************)
(* The durable order journal of the live paths, src/live_order_journal.rs: *)
(* what its reducer makes of the recorded events.  The file is append-only *)
(* and the reducer folds it into sets that do not depend on the order of   *)
(* the lines, so a journal is modelled as the set of its events.           *)
(*                                                                         *)
(* An event names a run and, where its payload has them, an intent, an     *)
(* order ("order_id"), one trade ("trade_id"), an array of trades          *)
(* ("trade_ids") and a status.                                             *)
(***************************************************************************)
CONSTANTS NoIntent, NoOrder, NoTrade

Event(run, type, intent, order) ==
  [run |-> run, type |-> type, intent |-> intent, order |-> order,
   trade |-> NoTrade, trades |-> {}, status |-> ""]

(* creates_or_updates_venue_order_state, the types the sessions write. *)
OrderStateTypes ==
  {"MakerOrderSubmitAttempted", "MakerOrderAccepted", "MakerOrderRejected",
   "MakerOrderCanceled", "MakerOrderFilled", "MakerOrderPartiallyFilled",
   "QuotePlaced", "QuoteCancelRequested", "QuoteCancelConfirmed", "QuoteHalted",
   "QuoteExpired", "QuoteReplacementSubmitted", "QuoteReplacementAccepted",
   "QuoteReplacementRejected", "LiveFillAttempted", "LiveFillSucceeded",
   "LiveFillFailed", "LiveFillReconciled"}

(* records_successful_trade_state *)
TradeTypes == {"MakerOrderFilled", "QuoteReplacementAccepted",
               "LiveFillSucceeded", "LiveFillReconciled"}

(* reduce_live_journal_events, one operator per field of LiveJournalState. *)
KnownOrders(J) == {e.order : e \in {x \in J : x.type \in OrderStateTypes}} \ {NoOrder}

CanceledOrders(J) ==
  {e.order : e \in {x \in J : x.type \in {"MakerOrderCanceled", "QuoteCancelConfirmed",
                                          "QuoteExpired"}}} \ {NoOrder}

PartiallyFilledOrders(J) ==
  {e.order : e \in {x \in J : x.type = "MakerOrderPartiallyFilled"}} \ {NoOrder}

(* Only the single "trade_id" of a payload is read, never "trade_ids". *)
TradeEvents(J) == {e \in J : e.type \in TradeTypes /\ e.trade # NoTrade}
KnownTrades(J) == {e.trade : e \in TradeEvents(J)}
TradeOwners(J) == {<<e.trade, e.order>> : e \in {x \in TradeEvents(J) : x.order # NoOrder}}

HasMismatch(J) ==
  \E e \in J : \/ e.type \in {"LiveReconciliationMismatch", "MakerReconciliationFailed"}
               \/ e.type = "QuoteReconciliationResult" /\ e.status # "passed"

RiskHalted(J) ==
  \E e \in J : e.type \in {"LiveHeartbeatStale", "LiveStartupRecoveryFailed", "LiveRiskHalt",
                           "MakerRiskHalt", "MakerMicroHalted", "QuoteHalted"}

(* replay_for_run *)
OfRun(J, run) == {e \in J : e.run = run}
=============================================================================
