---------------------------- MODULE MakerQuoting ----------------------------
(***************************************************************************)
(* How one LA5 maker session or LA6 quote session of src/main.rs comes to  *)
(* its orders: the approval is compared with the command, the config and   *)
(* the account; then, per order, a slot in the submit rate, a readback,    *)
(* markets discovered, a book chosen, the live risk engine, an order plan, *)
(* the plan against the approval and the session's time, the submit.       *)
(*                                                                         *)
(* Time passes between any two of these steps, and each looks at its own   *)
(* clock: `asOf` is the time taken before the markets are discovered.      *)
(* What the venue does with an order is in MakerMicroSession.              *)
(***************************************************************************)
EXTENDS LiveRisk, Sequences, FiniteSets, FiniteSetsExt, Functions

CONSTANTS
  Requests,        \* a command's kind, limits, order settings and approval
  Books,           \* what discovery and the book may show of a market
  BookLags,        \* seconds from a book's own time to its arrival
  Cash,            \* the balances a readback may show
  PriceOne,        \* the price 1, in ticks
  GtdBuffer,       \* GTD_SECURITY_BUFFER_SECONDS
  RateWindow,      \* the minute of the submit rate, in seconds
  QuietSeconds,    \* how long an LA6 quote rests before its second tick
  MaxTime          \* bound on the clock

ASSUME QuotingAssumption ==
  /\ PriceOne \in Nat \ {0} /\ GtdBuffer \in Nat /\ RateWindow \in Nat \ {0}
  /\ QuietSeconds \in Nat /\ MaxTime \in Nat
  /\ Cash \subseteq Nat /\ BookLags \subseteq Nat

(* Limits, times and counts are unsigned in the code; prices come in ticks *)
(* and a market's least order size may be anything that was listed.        *)
LimitFields ==
  {"single", "total", "usage", "reserved", "fees", "market", "asset", "openOrders",
   "marketOrders", "assetOrders", "submitRate", "cancelRate", "bookAge", "referenceAge",
   "noTrade", "dailyRealizedLoss", "dailyUnrealizedLoss"}
ASSUME RequestsAssumption ==
  \A r \in Requests :
    /\ r.kind \in {"LA5", "LA6"} /\ r.orders \in Nat /\ r.duration \in Nat
    /\ r.maker.ttl \in Nat
    /\ r.limits \in [LimitFields -> Nat] /\ r.approval.limits \in [LimitFields -> Nat]
ASSUME BooksAssumption ==
  \A b \in Books : b.bid \in Nat /\ b.ask \in Nat /\ b.minSize \in Int /\ b.end \in Nat

VARIABLES
  request,       \* the command that runs
  phase,
  now, started, asOf,
  cash,          \* available_pusd_units of the last readback
  chosen,        \* La5MakerMarketIntent: the market, its book and the intent
  riskedAt,      \* when the risk engine approved
  plan,          \* LiveMakerOrderPlan
  sent           \* the orders submitted and accepted

clocks == <<now, started, asOf>>
work == <<cash, chosen, riskedAt, plan>>
vars == <<request, phase, clocks, work, sent>>

Nothing == [kind |-> "none"]
limits == request.limits
maker == request.maker
approval == request.approval
Notional(order) == order.price * order.size
Total(orders) == SumFunction([n \in DOMAIN orders |-> Notional(orders[n])])
cumulative == Total(sent)      \* cumulative_notional

-----------------------------------------------------------------------------
(* validate_la5_approval_against_cli_and_config: what the LA5 approval     *)
(* repeats of the command line, the config's limits and its order settings *)
La5Fields == {"single", "total", "usage", "reserved", "fees", "openOrders", "noTrade"}
La6Fields == {"single", "total", "openOrders", "submitRate", "cancelRate"}
BugSameLimits(fields) == \A f \in fields \ {"single"} : approval.limits[f] = limits[f]
SameLimits(fields) == \A f \in fields : approval.limits[f] = limits[f]
SameSession ==
  /\ approval.orders = request.orders
  /\ approval.duration = request.duration
  /\ approval.ttl = maker.ttl
(* The gtd delta is compared by LA5; of LA6 the words of its gtd policy    *)
(* are read, and those of its cancel, no-trade and asset policies.         *)
PoliciesAllow == approval.policies = "clear" /\ maker.postOnly /\ maker.gtd
AsApproved ==
  /\ SameSession /\ maker.postOnly /\ maker.gtd
  /\ IF request.kind = "LA5"
     THEN /\ SameLimits(La5Fields)
          /\ approval.gtdDelta = maker.ttl + GtdBuffer
     ELSE /\ SameLimits(La6Fields)
          /\ approval.replacements = request.replacements
          /\ PoliciesAllow

(* The command lines that are refused whatever was approved. *)
CapsRequested ==
  /\ request.orders \in 1..3 /\ request.duration \in 1..300
  /\ request.kind = "LA6" => request.orders = 1 /\ request.replacements = 1
(* validate_la5_live_submit_runtime_gate_values, maker mode and switches *)
GatesOpen == request.gatesOpen /\ maker.enabled

Goto(p) == phase' = p

(* A flat account with the balance the approval names. *)
Command ==
  /\ phase = "command"
  /\ \/ /\ CapsRequested /\ GatesOpen /\ AsApproved
        /\ \E c \in Cash : c = approval.cash /\ cash' = c
        /\ started' = now
        /\ Goto(IF request.kind = "LA5" THEN "slot" ELSE "discover")
     \/ Goto("refused") /\ UNCHANGED <<cash, started>>
  /\ UNCHANGED <<request, now, asOf, chosen, riskedAt, plan, sent>>

-----------------------------------------------------------------------------
Elapsed == now - started

(* recent_count_last_min *)
Recent(orders) == Cardinality({n \in DOMAIN orders : now - orders[n].at < RateWindow})

(* wait_for_la5_rate_slot, once a second, as long as the session may last. *)
TakeSlot ==
  /\ phase = "slot"
  /\ \/ /\ limits.submitRate > 0 /\ Recent(sent) < limits.submitRate
        /\ Elapsed < request.duration
        /\ \E c \in Cash : cash' = c
        /\ Goto("discover")
     \/ /\ limits.submitRate = 0 \/ Elapsed >= request.duration
        /\ Goto("failed") /\ UNCHANGED cash
  /\ UNCHANGED <<request, clocks, chosen, riskedAt, plan, sent>>

Discover ==
  /\ phase = "discover"
  /\ asOf' = now
  /\ Goto("select")
  /\ UNCHANGED <<request, now, started, work, sent>>

-----------------------------------------------------------------------------
(* age_ms: a time later than the clock it is compared with is no age. *)
Age(clock, ts) == IF clock >= ts THEN clock - ts ELSE 0

(* la5_max_order_notional: the limits that are set; one that is used up is *)
(* left out like one that is not set.                                      *)
Caps ==
  {limits.single, limits.usage, limits.reserved, limits.total \div request.orders,
   limits.total - cumulative}
MaxOrderNotional == Min({c \in Caps : c > 0} \cup {cash})

BugBookCap(book) == book.ask
(* la5_post_only_buy_price: a tick behind the best bid, joining it only    *)
(* where there is no tick below.                                           *)
BookCap(book) == IF book.bid > 1 THEN book.bid - 1 ELSE book.bid
BuyPrice(book) == Min({MaxOrderNotional \div book.minSize, BookCap(book), book.ask - 1})

(* la5_market_has_cancel_runway_before_no_trade_window, on the old clock *)
HasRunway(book) == asOf + limits.noTrade + maker.ttl < book.end

(* build_la5_market_intent_from_market *)
Suits(book, ts) ==
  /\ HasRunway(book)
  /\ book.bid < book.ask
  /\ Age(asOf, ts) <= limits.bookAge
  /\ book.referenceAge <= limits.referenceAge
  /\ MaxOrderNotional > 0 /\ book.minSize > 0
  /\ BuyPrice(book) > 0
  /\ book.fair - BuyPrice(book) >= maker.minEdge
Chosen(book, ts) ==
  [kind |-> "chosen", book |-> book, bookAge |-> Age(asOf, ts), cash |-> cash,
   intent |-> [outcome |-> "Up", side |-> "Buy", price |-> BuyPrice(book), size |-> book.minSize,
               notional |-> BuyPrice(book) * book.minSize, postOnly |-> TRUE, gtd |-> TRUE]]

(* The first of the three assets' markets that suits, or none. *)
Select ==
  /\ phase = "select"
  /\ \/ \E book \in Books, lag \in BookLags :
          /\ Suits(book, now - lag)
          /\ chosen' = Chosen(book, now - lag)
          /\ Goto("risk")
     \/ Goto("failed") /\ UNCHANGED chosen
  /\ UNCHANGED <<request, clocks, cash, riskedAt, plan, sent>>

-----------------------------------------------------------------------------
(* la5_live_risk_context: losses and fees keep their defaults, zero.       *)
Context ==
  [alarms |-> {}, realizedLoss |-> 0, unrealizedLoss |-> 0, fees |-> 0,
   now |-> now, end |-> chosen.book.end, ttl |-> maker.ttl,
   cash |-> cash, reserved |-> 0,
   inventory |-> [o \in Outcomes |-> 0], allowance |-> [o \in Outcomes |-> 0],
   oppositeKnown |-> TRUE,
   openOrders |-> 0, marketOrders |-> 0, assetOrders |-> 0,
   marketNotional |-> cumulative, assetNotional |-> cumulative, totalNotional |-> cumulative,
   submits |-> IF request.kind = "LA5" THEN Recent(sent) ELSE 0,
   bookAge |-> chosen.bookAge, referenceAge |-> chosen.book.referenceAge]

Risk ==
  /\ phase = "risk"
  /\ IF Approves(limits, chosen.intent, Context, PriceOne)
     THEN Goto("plan") /\ riskedAt' = now
     ELSE Goto("failed") /\ UNCHANGED riskedAt
  /\ UNCHANGED <<request, clocks, cash, chosen, plan, sent>>

-----------------------------------------------------------------------------
(* build_live_maker_order_plan, after validate_maker_config *)
PlanOf ==
  [kind |-> "plan", price |-> chosen.intent.price,
   size |-> Mapped(chosen.intent, Context).size,
   cancelAfter |-> now + maker.ttl, expires |-> now + GtdBuffer + maker.ttl,
   postOnly |-> maker.postOnly, gtd |-> maker.gtd, ttl |-> maker.ttl]
Plan ==
  /\ phase = "plan"
  /\ IF maker.ttl > 0 THEN plan' = PlanOf /\ Goto("check")
     ELSE Goto("failed") /\ UNCHANGED plan
  /\ UNCHANGED <<request, clocks, cash, chosen, riskedAt, sent>>

(* validate_la5_plan_against_approval; LA6 compares with the config's      *)
(* limits instead (validate_la6_live_plan).                                *)
PlanAllowed ==
  LET capped == IF request.kind = "LA5" THEN approval.limits ELSE limits
      delta == IF request.kind = "LA5" THEN approval.gtdDelta ELSE plan.ttl + GtdBuffer
  IN /\ plan.postOnly /\ plan.gtd
     /\ plan.ttl = approval.ttl
     /\ plan.expires - (plan.cancelAfter - plan.ttl) = delta
     /\ Notional(plan) <= capped.single
     /\ cumulative + Notional(plan) <= capped.total

(* validate_la5_plan_fits_duration_cap *)
FitsDuration == Elapsed + plan.ttl < request.duration

CheckPlan ==
  /\ phase = "check"
  /\ Goto(IF PlanAllowed /\ FitsDuration THEN "submit" ELSE "failed")
  /\ UNCHANGED <<request, clocks, work, sent>>

-----------------------------------------------------------------------------
(* The order is submitted; a rejection or an error ends the session. *)
Order ==
  [price |-> plan.price, size |-> plan.size, cancelAfter |-> plan.cancelAfter,
   ttl |-> plan.ttl, plannedAt |-> plan.cancelAfter - plan.ttl, at |-> now,
   book |-> chosen.book, seenCash |-> chosen.cash, riskedAt |-> riskedAt]
Submit ==
  /\ phase = "submit"
  /\ \/ sent' = Append(sent, Order) /\ Goto("resting")
     \/ Goto("failed") /\ UNCHANGED sent
  /\ UNCHANGED <<request, clocks, work>>

(* LA5 keeps its order until cancel_after, LA6 for six seconds or its ttl. *)
RestsUntil ==
  IF request.kind = "LA5" THEN plan.cancelAfter
  ELSE sent[Len(sent)].at + Min({QuietSeconds, maker.ttl})

(* Canceled and reconciled: on to the next, or done; or it was not. *)
Settle ==
  /\ phase = "resting"
  /\ now >= RestsUntil
  /\ \/ Goto(IF Len(sent) < request.orders THEN "slot" ELSE "done")
     \/ Goto("failed")
  /\ asOf' = 0 /\ chosen' = Nothing /\ riskedAt' = 0 /\ plan' = Nothing
  /\ UNCHANGED <<request, now, started, cash, sent>>

Ended == {"refused", "failed", "done"}
Tick ==
  /\ phase \notin Ended \cup {"command"}
  /\ now < MaxTime
  /\ now' = now + 1
  /\ UNCHANGED <<request, phase, started, asOf, work, sent>>

Init ==
  /\ request \in Requests
  /\ phase = "command"
  /\ now = 0 /\ started = 0 /\ asOf = 0
  /\ cash = 0 /\ chosen = Nothing /\ riskedAt = 0 /\ plan = Nothing
  /\ sent = << >>

Next ==
  Command \/ TakeSlot \/ Discover \/ Select \/ Risk \/ Plan \/ CheckPlan \/ Submit
  \/ Settle \/ Tick

Spec == Init /\ [][Next]_vars

-----------------------------------------------------------------------------
(* Types, and no order before its plan is allowed. *)
TypeOK ==
  /\ phase \in {"command", "slot", "discover", "select", "risk", "plan", "check", "submit",
                "resting"} \cup Ended
  /\ now \in 0..MaxTime /\ started \in 0..now /\ asOf \in 0..now /\ riskedAt \in 0..now
  /\ cash \in Cash \cup {0}
  /\ phase \in {"risk", "plan", "check", "submit", "resting"} =>
       chosen.kind = "chosen" /\ chosen.bookAge \in 0..limits.bookAge
  /\ phase \in {"check", "submit", "resting"} => plan.kind = "plan"

(* Whatever the config file says, the orders of a session are within what  *)
(* the person approved: their number, each, all together, and how long one *)
(* rests.  The risk engine and the caps on the price know the config only. *)
SentWithinApproval ==
  sent # << >> =>
    /\ Len(sent) <= approval.orders
    /\ Total(sent) <= approval.limits.total
    /\ \A n \in DOMAIN sent :
         Notional(sent[n]) <= approval.limits.single /\ sent[n].ttl = approval.ttl

(* A quote is due for cancellation before its market's no-trade window,    *)
(* but for the time between the risk engine's look at the clock and the    *)
(* plan's, which nobody checks again.                                      *)
RestsClearOfClose ==
  \A n \in DOMAIN sent :
    sent[n].cancelAfter + limits.noTrade < sent[n].book.end + (sent[n].plannedAt - sent[n].riskedAt)

(* Every order of a session is due for cancellation before the session's   *)
(* approved time is over, however long slots, readbacks and books took.    *)
EndsWithinDuration == \A n \in DOMAIN sent : sent[n].cancelAfter < started + approval.duration

(* No minute holds more submits than the limit, although each was counted  *)
(* at its slot and again at the risk engine, and sent later.               *)
SubmitRateHolds ==
  \A n \in DOMAIN sent :
    Cardinality({k \in 1..n : sent[n].at - sent[k].at < RateWindow}) <= limits.submitRate

(* A quote rests behind the book it was chosen from, a tick below its best *)
(* bid where there is one, and is paid for by the balance of the readback  *)
(* before it, also where the caps and not the book made the price.         *)
QuotesBehindTheBook ==
  \A n \in DOMAIN sent :
    /\ sent[n].price < sent[n].book.ask
    /\ sent[n].price < sent[n].book.bid \/ sent[n].book.bid = 1
    /\ Notional(sent[n]) <= sent[n].seenCash

(* A session keeps to its approval in money, number and pace, and in time. *)
KeepsToItsApproval == TypeOK /\ SentWithinApproval /\ SubmitRateHolds
KeepsToItsTime == RestsClearOfClose /\ EndsWithinDuration
=============================================================================
