----------------------------- MODULE TakerGate -----------------------------
(***************************************************************************)
(* The taker gate: evaluate_buy_taker of src/live_taker_gate.rs, what its  *)
(* decision must satisfy to be submitted, and the checks of an approval    *)
(* against the configuration, the baseline and the decision (src/main.rs). *)
(* Prices are ticks of a dollar worth One ticks, sizes whole shares; every *)
(* ratio is compared after multiplying out, so nothing is rounded.  The    *)
(* tolerance of 1e-9 is left out.  A value that is missing is 0.           *)
(***************************************************************************)
EXTENDS Integers, Sequences, FiniteSets, SequencesExt

CONSTANTS
  One,              \* ticks in a dollar
  FeeRate, FeeScale,\* taker fee of a share: FeeRate / FeeScale * price * (1 - price)
  Limits            \* [notional, total, fee, slippage, buffer]: TakerGateConfig, in ticks

ASSUME LimitsAssumption ==
  \A field \in {"notional", "total", "fee", "slippage", "buffer"} : Limits[field] \in Nat

Only(reason, condition) == IF condition THEN {reason} ELSE {}
NotBelowZero(n) == IF n < 0 THEN 0 ELSE n
IsPrice(p) == 0 < p /\ p < One

(* consume_buy_depth: what `size` shares cost on the visible asks. *)
Depth(asks, size) ==
  LET usable == SelectSeq(asks, LAMBDA level : IsPrice(level.price) /\ level.size > 0)
      Take(acc, level) ==
        LET taken == IF level.size < acc.left THEN level.size ELSE acc.left IN
        IF acc.left = 0 THEN acc
        ELSE [left |-> acc.left - taken, cost |-> acc.cost + taken * level.price,
              worst |-> IF level.price > acc.worst THEN level.price ELSE acc.worst]
      end == FoldLeft(Take, [left |-> size, cost |-> 0, worst |-> 0], usable)
  IN [short |-> end.left > 0, cost |-> end.cost, worst |-> end.worst]

(* worst_price_limit: the limit the order is sent with. *)
PriceLimit(ask) == IF ask + Limits.slippage < One THEN ask + Limits.slippage ELSE One

(* fee_paid on `size` shares at the average price, over Unit(size).        *)
Unit(size) == size * One * FeeScale
FeeOf(size, cost) == FeeRate * cost * (size * One - cost)

(* Twice the expected value of the order after every cost, over Unit. *)
ExpectedValue(quote, size, cost) ==
  LET ask == quote.asks[1].price
      mid2 == quote.bid + ask
      edge2 == size * (2 * quote.fair - mid2)
      spread2 == size * NotBelowZero(2 * ask - mid2)
      slippage == NotBelowZero(cost - size * ask)
  IN (edge2 - spread2 - 2 * slippage - 2 * size * Limits.buffer) * Unit(size)
     - 2 * FeeOf(size, cost)

(* The reasons about the runtime, as opposed to the market, do not keep a  *)
(* decision from being one the shadow would take (is_shadow_rejection).    *)
RuntimeReasons ==
  {"live_alpha_disabled", "taker_gate_mode_not_enabled", "taker_disabled",
   "geoblock_not_passed", "heartbeat_not_healthy", "reconciliation_not_clean",
   "inventory_not_clean", "baseline_not_ready", "live_risk_controls_not_passed"}
MarketReasons ==
  {"market_status_invalid", "book_stale", "reference_stale", "market_too_close_to_close"}

MissingReasons(quote) ==
  Only("missing_best_bid", quote.bid = 0)
  \cup Only("missing_best_ask", quote.asks = << >>)
  \cup Only("missing_fair_probability", ~ IsPrice(quote.fair))

CostReasons(quote, size) ==
  LET depth == Depth(quote.asks, size)
      ask == quote.asks[1].price
  IN Only("max_taker_notional_exceeded", depth.cost > Limits.notional)
     \cup Only("max_total_live_notional_exceeded", depth.cost > Limits.total)
     \cup Only("max_fee_spend_exceeded", FeeOf(size, depth.cost) > Limits.fee * Unit(size))
     \cup Only("worst_price_limit_exceeded", depth.worst > PriceLimit(ask))
     \cup Only("max_slippage_exceeded", depth.cost - size * ask > size * Limits.slippage)
     \cup Only("expected_value_below_costs", ExpectedValue(quote, size, depth.cost) <= 0)

(* Facts are the runtime and market reasons that hold.  The order counters *)
(* it is given are always zero (src/main.rs), so they are left out.        *)
GateDecision(facts, quote, size) ==
  LET missing == MissingReasons(quote)
      depth == Depth(quote.asks, size)
      short == missing = {} /\ depth.short
      reasons == (facts \cap (RuntimeReasons \cup MarketReasons)) \cup missing
                 \cup Only("insufficient_visible_depth", short)
                 \cup (IF missing = {} /\ ~ short THEN CostReasons(quote, size) ELSE {})
  IN [reasons |-> reasons,
      allowed |-> reasons = {},
      wouldTake |-> reasons \subseteq RuntimeReasons,
      size |-> size,
      notional |-> IF missing = {} THEN depth.cost ELSE 0,
      worst |-> IF missing = {} THEN depth.worst ELSE 0,
      slippage |-> IF missing = {} THEN depth.cost - size * quote.asks[1].price ELSE 0,
      limit |-> IF missing = {} THEN PriceLimit(quote.asks[1].price) ELSE 0]

-----------------------------------------------------------------------------
(* live_alpha_taker_canary_snapshot_evidence: the market by its slug, the  *)
(* book, the prices, each request after the other; every age is taken at   *)
(* one time after the last of them.  `off` are the facts that do not hold; *)
(* a price that is missing has no age.                                     *)
MissingAge == -1
EvidenceFacts ==
  {"market_slug_mismatch", "condition_id_mismatch", "approval_token_outcome_binding_not_exact",
   "market_not_active", "market_ineligible"}
AgeReason(what, age, limit) ==
  Only(what \o "_missing", age = MissingAge) \cup Only(what \o "_stale", age > limit)
EvidenceReasons(off, quote, limits) ==
  IF "market_missing" \in off THEN {"market_missing"}
  ELSE (off \cap EvidenceFacts)
       \cup Only("book_best_bid_missing", quote.bid = 0)
       \cup Only("book_best_ask_missing", quote.asks = << >>)
       \cup AgeReason("book", quote.ages.book, limits.bookAge)
       \cup AgeReason("reference", quote.ages.reference, limits.referenceAge)
       \cup AgeReason("predictive", quote.ages.predictive, limits.predictiveAge)

-----------------------------------------------------------------------------
(* An approval: [size, notional, worst, fee, slippage, cutoff].            *)
(* validate_la7_taker_approval_against_config. *)
ApprovalFitsConfig(approval, cutoff) ==
  /\ approval.size > 0 /\ IsPrice(approval.worst)
  /\ approval.notional <= Limits.notional /\ approval.notional <= Limits.total
  /\ approval.fee <= Limits.fee /\ approval.fee <= approval.notional
  /\ approval.slippage <= Limits.slippage
  /\ approval.size * approval.worst <= approval.notional
  /\ approval.cutoff = cutoff /\ cutoff > 0

(* validate_la7_taker_decision_against_approval. *)
DecisionFitsApproval(decision, approval) ==
  /\ decision.size = approval.size
  /\ decision.notional <= approval.notional
  /\ decision.worst <= approval.worst
  /\ FeeOf(decision.size, decision.notional) <= approval.fee * Unit(decision.size)
  /\ decision.slippage <= decision.size * approval.slippage

(* validate_taker_submit_shape: the limit, not the visible price, is what  *)
(* the order may cost.                                                     *)
BugSubmitShape(decision, approval) ==
  decision.allowed /\ DecisionFitsApproval(decision, approval)   \* the visible price
SubmitShape(decision, approval) ==
  /\ decision.allowed /\ decision.reasons = {}
  /\ 0 < decision.size /\ decision.size <= approval.size
  /\ 0 < decision.notional /\ decision.notional <= approval.notional
  /\ IsPrice(decision.limit) /\ decision.limit <= approval.worst
  /\ decision.size * decision.limit <= approval.notional
  /\ FeeOf(decision.size, decision.notional) <= approval.fee * Unit(decision.size)
  /\ decision.slippage <= decision.size * approval.slippage
=============================================================================
