------------------------------ MODULE LiveRisk ------------------------------
(***************************************************************************)
(* LiveRiskEngine::evaluate of src/live_risk_engine.rs: whether an intent  *)
(* may become a live maker order, on which side and of what size.  An      *)
(* unset limit (zero) blocks, except those on losses and fees, which an    *)
(* unset limit switches off.                                               *)
(*                                                                         *)
(* Prices are whole ticks, money is ticks times shares.                    *)
(***************************************************************************)
EXTENDS Integers

Outcomes == {"Up", "Down"}
Unknown == -1          \* None: an age or a time the context does not have

(* The flags of a LiveRiskContext that halt.  LA5 and LA6 sessions set     *)
(* only the first two, the others keep their defaults.                     *)
Alarms == {"geoblock_not_passed", "heartbeat_not_healthy", "reconciliation_not_clean",
           "unknown_open_order", "submit_readback_disagreement",
           "reserved_balance_mismatch", "balance_mismatch", "position_mismatch"}

(* limit_exceeded_f64, and the same for counts that must stay below *)
LimitExceeded(limit, value) == limit <= 0 \/ value > limit
CountExhausted(limit, count) == limit = 0 \/ count >= limit
SpentUp(limit, spent) == limit > 0 /\ spent >= limit
Stale(limit, age) == limit = 0 \/ age = Unknown \/ age > limit

(* halt_reason *)
Halts(limits, ctx) ==
  \/ ctx.alarms # {}
  \/ SpentUp(limits.dailyRealizedLoss, ctx.realizedLoss)
  \/ SpentUp(limits.dailyUnrealizedLoss, ctx.unrealizedLoss)

Opposite(outcome) == IF outcome = "Up" THEN "Down" ELSE "Up"

(* inventory_aware_side: a sale is capped to what is held, and becomes a   *)
(* purchase of the other outcome, at the same price, when nothing is.      *)
Mapped(intent, ctx) ==
  LET held == ctx.inventory[intent.outcome]
      sold == IF intent.size < held THEN intent.size ELSE held
  IN IF intent.side = "Buy" THEN [outcome |-> intent.outcome, side |-> "Buy", size |-> intent.size]
     ELSE IF held > 0 THEN [outcome |-> intent.outcome, side |-> "Sell", size |-> sold]
     ELSE [outcome |-> Opposite(intent.outcome), side |-> "Buy", size |-> intent.size]
Refuses(intent, ctx) ==
  \/ intent.outcome \notin Outcomes
  \/ /\ intent.side = "Sell"
     /\ \/ /\ ctx.inventory[intent.outcome] > 0
           /\ ctx.allowance[intent.outcome] < Mapped(intent, ctx).size
        \/ /\ ctx.inventory[intent.outcome] = 0
           /\ ~ ctx.oppositeKnown

BugTooClose(limits, ctx) ==      \* the time the quote may rest is left out
  \/ Unknown \in {ctx.now, ctx.end}
  \/ ctx.now + limits.noTrade >= ctx.end
(* market_too_close_to_close *)
TooClose(limits, ctx) ==
  \/ Unknown \in {ctx.now, ctx.end}
  \/ ctx.now + limits.noTrade + ctx.ttl >= ctx.end

(* ExecutionIntent::validate_shape, and the two demands of the engine *)
WellFormed(intent, priceOne) ==
  /\ intent.price \in 1..priceOne
  /\ intent.size > 0
  /\ intent.notional = intent.price * intent.size
MakerOnly(intent) == intent.postOnly /\ intent.gtd

(* A purchase needs collateral, and the limits on it. *)
CollateralMissing(limits, ctx, notional) ==
  \/ ctx.cash < notional
  \/ LimitExceeded(limits.usage, notional)
  \/ LimitExceeded(limits.reserved, ctx.reserved + notional)

LimitReached(limits, ctx, notional) ==
  \/ LimitExceeded(limits.single, notional)
  \/ LimitExceeded(limits.market, ctx.marketNotional + notional)
  \/ LimitExceeded(limits.asset, ctx.assetNotional + notional)
  \/ LimitExceeded(limits.total, ctx.totalNotional + notional)
  \/ CountExhausted(limits.openOrders, ctx.openOrders)
  \/ CountExhausted(limits.marketOrders, ctx.marketOrders)
  \/ CountExhausted(limits.assetOrders, ctx.assetOrders)
  \/ SpentUp(limits.fees, ctx.fees)
  \/ CountExhausted(limits.submitRate, ctx.submits)

(* evaluate *)
Approves(limits, intent, ctx, priceOne) ==
  /\ ~ Halts(limits, ctx)
  /\ WellFormed(intent, priceOne) /\ MakerOnly(intent)
  /\ ~ Refuses(intent, ctx)
  /\ \E m \in {Mapped(intent, ctx)} :
       /\ m.size > 0
       /\ m.side = "Buy" => ~ CollateralMissing(limits, ctx, m.size * intent.price)
       /\ ~ LimitReached(limits, ctx, m.size * intent.price)
  /\ ~ Stale(limits.bookAge, ctx.bookAge)
  /\ ~ Stale(limits.referenceAge, ctx.referenceAge)
  /\ ~ TooClose(limits, ctx)
=============================================================================
