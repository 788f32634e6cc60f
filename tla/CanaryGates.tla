---------------------------- MODULE CanaryGates ----------------------------
(***************************************************************************)
(* What must hold before a one-shot live order is sent or canceled: the    *)
(* LA3 preflight (src/live_alpha_preflight.rs), the LB6 canary readiness   *)
(* (src/live_beta_canary.rs) and the LB6 exact cancel readiness            *)
(* (src/live_beta_order_lifecycle.rs).  Each is the set of reasons that    *)
(* block.  Identities, addresses, hashes and configuration switches are    *)
(* facts: the argument `off` is the set of those that do not match.        *)
(* Prices are ticks of a dollar of One ticks; time is in seconds; an age   *)
(* or a price that is missing is Absent.                                   *)
(***************************************************************************)
EXTENDS Integers, FiniteSets

CONSTANTS
  One,
  CanaryNotional     \* MAX_LB6_CANARY_NOTIONAL, in ticks

Absent == -1
Why(reason, condition) == IF condition THEN {reason} ELSE {}
PriceOK(p) == 0 < p /\ p < One

-----------------------------------------------------------------------------
(* LA3.  An approval: [amount, notional, worst, fee, slippage, minSize,    *)
(* end].  The amount is money, the slippage is relative, in 1/One.         *)

IdentityFacts ==
  {"approved_host", "approved_wallet", "approved_funder", "signature_type", "geoblock",
   "account_preflight", "account_preflight_live_network"}
IdentityReasons(off, account) ==
  (off \cap IdentityFacts)
  \cup Why("reserved_pusd_nonzero", account.reserved # 0)
  \cup Why("open_orders_nonzero", account.open # {})
  \cup Why("heartbeat_not_ready", account.open # {})

(* The switches a submit needs on top of those a rehearsal needs. *)
SubmitFacts == {"compile_time_orders", "human_approval", "canary_secrets"}
ConfigFacts ==
  {"live_alpha", "fill_canary_mode", "fak_allowed", "fok_refused", "marketable_limit_refused",
   "kill_switch_inactive", "cli_intent", "l2_secrets"}
ConfigReasons(off, submitting) ==
  off \cap (ConfigFacts \cup IF submitting THEN SubmitFacts ELSE {})

OrderReasons(approval, account) ==
  Why("worst_price_invalid", ~ PriceOK(approval.worst))
  \cup Why("notional_exceeds_approval", approval.amount > approval.notional)
  \cup Why("max_fee_estimate_invalid", approval.fee <= 0)
  \cup Why("available_pusd_below_notional_plus_fee",
           account.available < approval.notional + approval.fee)
  \cup Why("amount_below_market_min_size_at_worst_price",
           approval.amount < approval.minSize * approval.worst)

(* The market and its best ask: [ask, size, bookAge, referenceAge].        *)
MarketFacts ==
  {"market_found", "market_active", "market_accepting_orders", "market_slug",
   "condition_id", "token_id", "asset", "outcome", "market_end"}
AgeReasons(stale, missing, age, limit) ==
  Why(stale, age > limit) \cup Why(missing, age = Absent)
BookReasons(approval, market) ==
  IF market.ask = Absent THEN {"best_ask_missing"}
  ELSE Why("best_ask_exceeds_worst_price", market.ask > approval.worst)
       \cup Why("slippage_exceeds_approval",
                (approval.worst - market.ask) * One > approval.slippage * market.ask)
       \cup Why("visible_best_ask_notional_below_amount",
                market.size * market.ask < approval.amount)
MarketReasons(off, approval, market, now, limits) ==
  (off \cap MarketFacts)
  \cup Why("market_expired_or_past_no_trade_cutoff", now >= approval.end - limits.cutoff)
  \cup AgeReasons("book_stale", "book_missing", market.bookAge, limits.bookAge)
  \cup AgeReasons("reference_stale", "reference_missing", market.referenceAge, limits.referenceAge)
  \cup BookReasons(approval, market)

(* A cap file that cannot be parsed ends the command before this.          *)
RecordReasons(journalHealthy, capConsumed) ==
  Why("journal_replay_not_healthy", ~ journalHealthy)
  \cup Why("approval_attempt_already_consumed", capConsumed)

FillPreflight(off, approval, account, market, now, limits, journalHealthy, capConsumed) ==
  IdentityReasons(off, account) \cup ConfigReasons(off, TRUE)
  \cup OrderReasons(approval, account)
  \cup MarketReasons(off, approval, market, now, limits)
  \cup RecordReasons(journalHealthy, capConsumed)

-----------------------------------------------------------------------------
(* LB6.  A plan: [buy, price, size, notional, bid, ask, expiry, end,       *)
(* bookAge, referenceAge]; all of it, the book and its age too, is what    *)
(* the operator typed on the command line.                                 *)

PlanFacts == {"condition_id", "token_id", "gtd", "post_only", "maker_only", "tick_aligned"}
PlanReasons(off, plan, now, buffer) ==
  (off \cap PlanFacts)
  \cup Why("price_invalid", ~ PriceOK(plan.price))
  \cup Why("size_invalid", plan.size <= 0)
  \cup Why("notional_mismatch", plan.price * plan.size # plan.notional)
  \cup Why("notional_exceeds_lb6_cap", plan.notional > CanaryNotional)
  \cup Why("best_ask_not_above_bid", plan.buy /\ plan.ask <= plan.price)
  \cup Why("best_bid_not_below_sell_price", ~ plan.buy /\ plan.bid >= plan.price)
  \cup Why("gtd_expiry_missing_security_buffer", plan.expiry <= now + buffer)
  \cup Why("gtd_expiry_not_before_market_end", plan.expiry >= plan.end)

ContextReasons(plan, account, limits) ==
  Why("reserved_pusd_nonzero", account.reserved # 0)
  \cup Why("book_stale", plan.bookAge > limits.bookAge)
  \cup Why("reference_stale", plan.referenceAge > limits.referenceAge)
  \cup Why("available_pusd_below_canary_notional", account.available < plan.notional)

(* The final-gated mode binds the exact text of the approval; the          *)
(* envelope fixes the order and asks for no text.                          *)
ModeReasons(mode, off, approvalExpiry, now) ==
  CASE mode = "final_gated" ->
         (off \cap {"approval_text", "approval_hash"})
         \cup Why("approval_expired", approvalExpiry <= now)
    [] mode = "envelope" -> off \cap {"envelope_order", "envelope_market", "envelope_binding"}
    [] OTHER -> {}

RuntimeFacts ==
  {"geoblock", "account_preflight", "account_preflight_live_network", "canary_secrets",
   "l2_secrets", "rollback_ready", "cancel_fail_closed"}
CanaryReadiness(mode, off, plan, account, approvalExpiry, now, limits, capConsumed) ==
  PlanReasons(off, plan, now, limits.buffer)
  \cup ContextReasons(plan, account, limits)
  \cup ModeReasons(mode, off, approvalExpiry, now)
  \cup (off \cap RuntimeFacts)
  \cup Why("open_orders_nonzero", account.open # {})
  \cup Why("one_order_cap_already_consumed", capConsumed)

-----------------------------------------------------------------------------
(* LB6 cancel.  The order as read back: [status, matched, trades].         *)

(* evaluate_exact_cancel_readiness.  The kill switch must be active, and   *)
(* the build one that places no orders.                                    *)
CancelFacts ==
  {"geoblock", "l2_secrets", "human_cancel_approval", "kill_switch_active", "build_places_none",
   "approval_hash", "order_id", "funder", "condition_id", "token_id", "side", "price", "size",
   "order_type"}
CancelReadiness(off, order) ==
  (off \cap CancelFacts)
  \cup Why("unknown_order_status", order.status = "unknown")
  \cup Why("matched_order_requires_reconciliation", order.status = "matched")
  \cup Why("order_already_canceled", order.status = "canceled")
  \cup Why("order_partially_or_fully_matched", order.matched > 0)
  \cup Why("associated_trades_present", order.trades # {})

(* parse_single_cancel_response: the answer to the cancel is judged by     *)
(* what had matched before it was sent.                                    *)
CancelAnswer(canceled, notCanceled, order, matchedBefore) ==
  Why("unexpected_canceled_order_ids", ~ canceled \subseteq {order})
  \cup Why("unexpected_not_canceled_order_ids", ~ notCanceled \subseteq {order})
  \cup Why("cancel_response_conflict", order \in canceled \cap notCanceled)
  \cup Why("partial_fill_requires_trade_reconciliation",
           order \in canceled \ notCanceled /\ matchedBefore > 0)
  \cup Why("not_canceled", order \in notCanceled \ canceled)
  \cup Why("cancel_order_id_missing_from_response", order \notin canceled \cup notCanceled)

BugCancelOutcome(answer, order) == answer          \* the order is not read again
CancelOutcome(answer, order) ==
  answer \cup Why("post_cancel_readback_not_canceled", order.status # "canceled")
=============================================================================
