---------------------------- MODULE PaperTrading ----------------------------
(***************************************************************************)
(* The paper executor and the position of one token, fed by its fills: any *)
(* order may come, on either side, so that the position is opened,         *)
(* averaged, reduced, closed, turned over and short - which a run with the *)
(* present, buy-only signal engine never reaches.                          *)
(***************************************************************************)
EXTENDS PaperExecutor, PaperPositions

CONSTANTS Asked, Shown       \* bound: the intents and books of an instance

ASSUME InstanceAssumption == Asked \subseteq Intents /\ Shown \subseteq Books
ASSUME FeeAssumption == TakerFee \in [Prices -> Nat]

VARIABLES
  position,
  cash,          \* history: money received less money paid, fees included
  entries        \* history: prices of the fills since the position last was flat or turned over

tradingVars == <<vars, position, cash, entries>>

TradingInit == Init /\ position = NewPosition /\ cash = 0 /\ entries = {}

(* record_paper_result: each fill of the execution enters the position. *)
Booked(held, fill) ==
  LET after == ApplyFill(held.position, fill.size, fill.price, fill.fee)
      before == held.position.net
  IN [position |-> after,
      cash |-> held.cash - fill.size * fill.price - fill.fee,
      entries |-> IF after.net = 0 THEN {}
                  ELSE IF before = 0 \/ SameSign(before, fill.size)
                    THEN held.entries \cup {fill.price}
                  ELSE IF SameSign(before, after.net) THEN held.entries ELSE {fill.price}]

NewFills ==
  IF Len(executions') = Len(executions) THEN << >>
  ELSE LET x == Last(executions') IN FillsOf(orders'[x.order].side, x)

RecordFills ==
  LET held == FoldLeft(Booked, [position |-> position, cash |-> cash, entries |-> entries], NewFills)
  IN position' = held.position /\ cash' = held.cash /\ entries' = held.entries

(* mark, settle_market and a settlement that splits the payout *)
SetMark ==
  /\ \E price \in {Whole(0), Ratio(MaxPrice, 2), Whole(MaxPrice)} :
        position' = Mark(position, price)
  /\ UNCHANGED <<vars, cash, entries>>

-----------------------------------------------------------------------------
(* Total P&L is money in hand plus what is held at the mark, through every *)
(* sequence of opening, averaging, reducing, closing and turning over:     *)
(* nothing is realized twice or forgotten.                                 *)
ProfitIsCashPlusHoldings ==
  \A mark \in position.mark :
     Plus(position.realized, Unrealized(position))
       = Plus(Whole(cash), Times(position.net, mark))

(* The average price of an open position lies between the prices it was    *)
(* entered at; it is zero when nothing is held.  The risk engine rejects   *)
(* every order while an average is outside 0..1.                           *)
AverageIsAnEntryPrice ==
  /\ position.net = 0 => position.avg = Whole(0)
  /\ position.net # 0 => /\ AtMost(Whole(Min(entries)), position.avg)
                         /\ AtMost(position.avg, Whole(Max(entries)))

(* The books of the run agree with its orders and with the money: every    *)
(* unit of an order is filled or remains, P&L is cash and holdings, and    *)
(* averages are prices that were paid.                                     *)
LedgerIsExact == FillsAddUp /\ ProfitIsCashPlusHoldings /\ AverageIsAnEntryPrice

-----------------------------------------------------------------------------
(* The report of a run: src/reporting.rs over the paper executor and a     *)
(* position.  The executor answers every call with audit events; the       *)
(* report counts those, counts the orders by status, sums the fills, and   *)
(* takes the P&L from the position - four accounts of the same trading,    *)
(* kept apart all the way.                                                 *)
VARIABLES
  audits,        \* paper_audit_events, counted by kind
  fills          \* generated_fills

reportVars == <<tradingVars, audits, fills>>

(* An intent the risk engine refuses only adds a RiskRejected event: left  *)
(* out, as it never stands for an order.                                   *)
AuditKinds == {"OrderCreated", "OrderOpened", "FillSimulated", "OrderCanceled",
               "OrderExpired", "OrderRejected"}

ReportInit == TradingInit /\ audits = [kind \in AuditKinds |-> 0] /\ fills = << >>

(* record_audit_event, for each of some events. *)
Counted(events) ==
  [kind \in AuditKinds |-> audits[kind] + Cardinality({n \in DOMAIN events : events[n] = kind})]

BugExtended(first, more) == IF more = << >> THEN first ELSE more    \* assigns where it should extend
(* PaperExecutionResult::extend *)
Extended(first, more) == first \o more

(* The result of a call that emitted `events`, besides one per fill. *)
Recorded(events) ==
  \E new \in {NewFills} :
     /\ audits' = Counted(Extended(events, [n \in DOMAIN new |-> "FillSimulated"]))
     /\ fills' = fills \o new

(* Opening an order: it is created, then opened or rejected, and a taker   *)
(* is matched at once.                                                     *)
OpenRecorded ==
  /\ \/ \E i \in Asked, book \in Shown : OpenPaperOrder(i, book)
     \/ \E i \in Asked : RejectIntent(i)
  /\ Recorded(<<"OrderCreated",
                IF Last(orders').status = "Rejected" THEN "OrderRejected" ELSE "OrderOpened">>)

Trades ==
  /\ \/ OpenRecorded
     \/ \E o \in DOMAIN orders :
          \/ (\E book \in Shown : SimulateFill(o, book)) /\ Recorded(<< >>)
          \/ CancelOrder(o) /\ Recorded(<<"OrderCanceled">>)
          \/ ExpireOrder(o) /\ Recorded(<<"OrderExpired">>)
  /\ RecordFills

ReportNext ==
  \/ Trades
  \/ SetMark /\ UNCHANGED <<audits, fills>>

ReportSpec == ReportInit /\ [][ReportNext]_reportVars

-----------------------------------------------------------------------------
(* What the report says.                                                   *)

(* PaperReport *)
StatusCount(status) == Cardinality({o \in DOMAIN orders : orders[o].status = status})
SumOverFills(amounts) == SumFunctionOnSet(amounts, DOMAIN fills)
Paper ==
  [size |-> SumOverFills([n \in DOMAIN fills |-> Magnitude(fills[n].size)]),
   fees |-> SumOverFills([n \in DOMAIN fills |-> fills[n].fee])]

BugWithFee(totals, fee) == [totals EXCEPT !.fees = @ + fee]    \* gross P&L stays net of the fees
(* PnlTotals::add_fee *)
WithFee(totals, fee) ==
  [totals EXCEPT !.gross = Plus(@, Whole(fee)), !.fees = @ + fee]

(* PnlReport::from_positions_and_fills: a position snapshot only carries   *)
(* the P&L net of fees; what it was before them is worked out again.       *)
Pnl ==
  FoldLeft(LAMBDA totals, fill : WithFee(totals, fill.fee),
           [gross |-> position.realized, realized |-> position.realized, fees |-> 0,
            total |-> Plus(position.realized, Unrealized(position))],
           fills)

(* The audit trail tells what became of the orders: each is created once,  *)
(* opened or rejected, and ends as the trail says; every fill the report   *)
(* sums was told.                                                          *)
AuditTrailTellsTheOrders ==
  /\ audits["OrderCreated"] = Len(orders)
  /\ audits["OrderOpened"] + audits["OrderRejected"] = audits["OrderCreated"]
  /\ audits["OrderRejected"] = StatusCount("Rejected")
  /\ audits["OrderCanceled"] = StatusCount("Canceled")
  /\ audits["OrderExpired"] = StatusCount("Expired")
  /\ audits["FillSimulated"] = Len(fills)

(* The report's sums over the fills, its P&L from the position and the     *)
(* orders' own filled sizes agree: the fees explain the whole difference   *)
(* between gross and net P&L, gross P&L is what the position realized on   *)
(* its closed size, and total P&L is money in hand plus holdings.          *)
ReportAddsUp ==
  \E paper \in {Paper}, pnl \in {Pnl} :
     /\ paper.size = SumFunctionOnSet([o \in DOMAIN orders |-> orders[o].filled], DOMAIN orders)
     /\ pnl.gross = position.gross
     /\ pnl.fees = paper.fees /\ pnl.fees = position.fees
     /\ \A mark \in position.mark :
          pnl.total = Plus(Whole(cash), Times(position.net, mark))
=============================================================================
