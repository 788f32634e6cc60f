----------------------------- MODULE ShadowRun -----------------------------
(***************************************************************************)
(* The paper run with the LA4 shadow beside it: for every order the signal *)
(* engine proposes, what live trading would have done.  The shadow is      *)
(* src/live_executor.rs; src/replay.rs takes its context from the state of *)
(* the paper run BEFORE the paper order opens, and records its decision    *)
(* after.  It reads the paper run and never changes it.                    *)
(*                                                                         *)
(* The signal engine only proposes buys, so what the shadow does with a    *)
(* sell (it asks for the tokens in the inventory) is left out.             *)
(***************************************************************************)
EXTENDS PaperRun

CONSTANTS
  StartingBalance,        \* paper.starting_balance
  ShadowLimits,           \* live_alpha.risk: [usage, reserved, openOrders, single, market, asset, total]
  Ready,                  \* which of "mode", "geoblock", "heartbeat", "reconciliation" hold
  MarketEnd, NoTradeBefore  \* the end of a market, and how long before it trading stops

ASSUME BalanceAssumption == StartingBalance \in Nat
ASSUME LimitsAssumption == ShadowLimits.market \in Nat

VARIABLE shadow           \* shadow_live_decisions

shadowVars == <<runVars, shadow>>

AllReady == {"mode", "geoblock", "heartbeat", "reconciliation"}

-----------------------------------------------------------------------------
(* shadow_context_for_intent *)

(* open_paper_orders, and open_order_notional of one of them. *)
OpenOrders == {o \in DOMAIN orders : orders[o].status \in {"Open", "PartiallyFilled"}}
OpenNotional(o) == Remaining(orders[o]) * orders[o].price
ReservedIn(S) == SumFunctionOnSet([o \in DOMAIN orders |-> OpenNotional(o)], S)
Reserved == ReservedIn(OpenOrders)

(* Positions at cost and the orders resting, in some tokens. *)
BugExposure(tokens) == NotionalIn(tokens)     \* as the paper risk engine counts
Exposure(tokens) ==
  Plus(NotionalIn(tokens), Whole(ReservedIn({o \in OpenOrders : orders[o].token \in tokens})))

(* shadow_available_pusd: clamped at zero. *)
Realized == Total([t \in DOMAIN positions |-> positions[t].realized], Tokens)
BugAvailable ==      \* forgets what the open positions cost
  Minus(Plus(Whole(StartingBalance), Realized), Whole(Reserved))
Available ==
  LET left == Minus(Plus(Whole(StartingBalance), Realized), Plus(NotionalIn(Tokens), Whole(Reserved)))
  IN IF left[1] < 0 THEN Whole(0) ELSE left

-----------------------------------------------------------------------------
(* ShadowLiveExecution::handle_intent *)

(* shadow_supports_intent: a taker becomes an order type of its own. *)
Supported(i) == i.kind = "Maker"

(* post_only_safe, for a buy. *)
PostOnlySafe(i) == \E ask \in BestAsk(books[i.token]) : i.price < ask

(* Balance: the cash there is, the cash one order may use, and the cash    *)
(* that may rest in orders.  A maker pays no fee.                          *)
BalanceReasons(i) ==
  {r \in {"insufficient_pusd"} : ~ AtMost(Whole(i.notional), Available)}
  \cup {r \in {"available_pusd_usage_exceeded"} : i.notional > ShadowLimits.usage}
  \cup {r \in {"reserved_pusd_exceeded"} : Reserved + i.notional > ShadowLimits.reserved}
  \cup {r \in {"max_single_order_notional_reached"} : i.notional > ShadowLimits.single}

ExposureReasons(i, m) ==
  LET over(tokens, limit) == ~ AtMost(Plus(Exposure(tokens), Whole(i.notional)), Whole(limit))
  IN {r \in {"max_market_notional_reached"} : over(TokensOf[m], ShadowLimits.market)}
     \cup {r \in {"max_asset_notional_reached"} : over(TokensOfAsset(AssetOf[m]), ShadowLimits.asset)}
     \cup {r \in {"max_total_live_notional_reached"} : over(Tokens, ShadowLimits.total)}
     \cup {r \in {"max_open_orders_reached"} : Cardinality(OpenOrders) >= ShadowLimits.openOrders}

(* market_time_valid, and the runtime's readiness. *)
ReadinessReasons ==
  {r \in {"market_too_close_to_close"} : wall + NoTradeBefore >= MarketEnd}
  \cup {[geoblock |-> "geoblock_not_passed", heartbeat |-> "heartbeat_not_healthy",
         reconciliation |-> "reconciliation_not_clean", mode |-> "mode_not_approved"][x] :
           x \in AllReady \ Ready}

(* The codes of the paper risk decision come first; which of them it was   *)
(* makes no difference to the decision.                                    *)
RiskReasons(i, m) == {r \in {"live_risk_rejected"} : ~ Approved(i, m)}

Reasons(i, m) ==
  RiskReasons(i, m)
  \cup {r \in {"mode_not_approved"} : ~ Supported(i)}
  \cup {r \in {"post_only_would_cross"} : Supported(i) /\ ~ PostOnlySafe(i)}
  \cup {r \in {"book_stale"} : ~ BookFresh(i.token)}
  \cup {r \in {"reference_stale"} : ~ ReferenceFresh(AssetOf[m])}
  \cup BalanceReasons(i) \cup ExposureReasons(i, m) \cup ReadinessReasons

(* The edge of a proposal, which is not modelled, is enough for the signal *)
(* engine; for live_alpha.maker it may be too small.  What the engine      *)
(* proposes to rest is a well-formed intent.                               *)
EdgeReasons == SUBSET {"edge_too_small"}

(* `paper` is the paper order the same proposal opened, 0 if none.  The    *)
(* reasons are written down, and nothing is decided on them again.         *)
Decision(i, m, edge, paper) ==
  [token |-> i.token, notional |-> i.notional, paper |-> paper,
   submit |-> edge \cup Reasons(i, m) = {} /\ PostOnlySafe(i)]

-----------------------------------------------------------------------------
ShadowInit == RunInit /\ shadow = << >>

(* evaluate_market: no proposal; a proposal the risk engine refuses; a     *)
(* proposal that opens a paper order.                                      *)
ShadowEvaluate ==
  /\ step = "evaluate" /\ todo # {}
  /\ LET m == MarketIds[Min(todo)] IN
     \/ UNCHANGED <<executor, positions, orderTimes, shadow>>
     \/ \E i \in Candidates(m), edge \in EdgeReasons :
          /\ ~ Approved(i, m) /\ Len(shadow) < 2 * MaxOrders
          /\ shadow' = Append(shadow, Decision(i, m, edge, 0))
          /\ UNCHANGED <<executor, positions, orderTimes>>
     \/ \E i \in Candidates(m), edge \in EdgeReasons :
          /\ Len(shadow) < 2 * MaxOrders
          /\ shadow' = Append(shadow, Decision(i, m, edge, NewId))
          /\ OpenOrder(i, m)
  /\ todo' = todo \ {Min(todo)}
  /\ UNCHANGED <<store, clock, step>>

ShadowNext ==
  \/ ShadowEvaluate
  \/ /\ \/ \E u \in Updates, elapsed \in TimeSteps : Receive(u, elapsed)
        \/ SimulateNext \/ SimulateDone
        \/ EvaluateDone
        \/ MarkPositions
        \/ Finished
     /\ UNCHANGED shadow

ShadowSpec == ShadowInit /\ [][ShadowNext]_shadowVars

-----------------------------------------------------------------------------
(* ShadowLiveReport::from_decisions *)
Submits == {n \in DOMAIN shadow : shadow[n].submit}
AbsDiff(a, b) == IF a < b THEN b - a ELSE a - b
Divergence == AbsDiff(Len(orders), Cardinality(Submits))

(* Together, whatever the shadow would have sent for one market stays      *)
(* within the live limit of that market: unlike the paper risk engine the  *)
(* shadow counts what still rests, over several orders, fills and marks.   *)
ShadowStaysWithinMarket ==
  \A m \in Markets :
     SumFunctionOnSet([n \in DOMAIN shadow |-> shadow[n].notional],
                      {n \in Submits : shadow[n].token \in TokensOf[m]})
       <= ShadowLimits.market

(* An order the shadow would send is covered by cash: the starting balance *)
(* and every fill's payment so far leave its notional and that of all the  *)
(* orders resting.  The code works this out from realized P&L and average  *)
(* prices, never from the payments.                                        *)
ShadowOrderIsCovered ==
  [][\A n \in DOMAIN shadow' \ DOMAIN shadow :
        shadow'[n].submit =>
          StartingBalance + SumFunctionOnSet([t \in Tokens |-> Cash(t)], Tokens) - Reserved >= shadow'[n].notional]_shadowVars

(* The report's divergence count, a difference of two totals, is the       *)
(* number of paper orders live trading would have refused: no order the    *)
(* shadow would send without a paper order makes up for one of those.      *)
DivergenceCountsRefusals ==
  Divergence = Cardinality({n \in DOMAIN shadow : shadow[n].paper # 0 /\ ~ shadow[n].submit})

(* What the shadow would send, all told: within the market's live limit,   *)
(* and no more and no less than what the report's divergence admits to.    *)
ShadowKeepsItsLimits == ShadowStaysWithinMarket /\ DivergenceCountsRefusals
=============================================================================
