--------------------------- MODULE PaperPositions ---------------------------
(***************************************************************************)
(* Position accounting: src/paper_executor/pnl.rs.  A position is the net  *)
(* size held (negative when short), the average entry price, the P&L       *)
(* realized so far gross and net of fees, the fees, and the price it was   *)
(* last marked at (a set of at most one price).  Prices are ticks;         *)
(* averages and P&L are exact ratios where the code has floating point.    *)
(***************************************************************************)
EXTENDS Ratios, Sequences, FiniteSets, FiniteSetsExt, SequencesExt

CONSTANT TakerFee     \* fee in ticks per share taken at each price

Magnitude(n) == IF n < 0 THEN -n ELSE n
SameSign(m, n) == (m > 0 /\ n > 0) \/ (m < 0 /\ n < 0)

NewPosition ==
  [net |-> 0, avg |-> Whole(0), gross |-> Whole(0), realized |-> Whole(0), fees |-> 0, mark |-> {}]

(* weighted_average_price of a position that grows. *)
Average(position, signed, price) ==
  LET held == Magnitude(position.net)
      more == Magnitude(signed)
  IN Ratio(held * position.avg[1] + more * price * position.avg[2],
           (held + more) * position.avg[2])

(* Closes the whole fill even when the position is smaller. *)
BugClosed(position, signed) == Magnitude(signed)
Closed(position, signed) == Min({Magnitude(position.net), Magnitude(signed)})

(* The average price of what a fill against the position leaves. *)
Remainder(position, net, price) ==
  IF net = 0 THEN Whole(0) ELSE IF SameSign(position.net, net) THEN position.avg ELSE Whole(price)

(* apply_fill_math: a fill in the direction of the position averages in;   *)
(* one against it realizes P&L on what it closes, and what remains keeps   *)
(* the entry price, or takes the fill's when the position turned over.     *)
ApplyFill(position, signed, price, fee) ==
  LET net == position.net + signed
      grows == position.net = 0 \/ SameSign(position.net, signed)
      sign == IF position.net > 0 THEN 1 ELSE -1
      gross == IF grows THEN Whole(0)
               ELSE Times(sign * Closed(position, signed), Minus(Whole(price), position.avg))
  IN [position EXCEPT
        !.net = net,
        !.avg = IF grows THEN Average(position, signed, price)
                ELSE Remainder(position, net, price),
        !.gross = Plus(@, gross),
        !.realized = Plus(@, Minus(gross, Whole(fee))),
        !.fees = @ + fee]

Fee(liquidity, size, price) == IF liquidity = "Maker" THEN 0 ELSE size * TakerFee[price]

(* The fills of one execution, best price first. *)
FillsOf(side, x) ==
  LET taken == {p \in DOMAIN x.by : x.by[p] > 0}
      Sorted(f) == \A m, n \in DOMAIN f :
                     m < n => IF side = "Buy" THEN f[m] < f[n] ELSE f[n] < f[m]
      prices == CHOOSE f \in [1..Cardinality(taken) -> taken] : Sorted(f)
  IN [n \in DOMAIN prices |->
        LET size == x.by[prices[n]] IN
        [size |-> IF side = "Buy" THEN size ELSE -size, price |-> prices[n],
         fee |-> Fee(x.liquidity, size, prices[n])]]

Mark(position, price) == [position EXCEPT !.mark = {price}]

(* mark_position *)
Unrealized(position) ==
  LET marked == {Times(position.net, Minus(m, position.avg)) : m \in position.mark}
  IN IF marked = {} THEN Whole(0) ELSE CHOOSE u \in marked : TRUE

(* position_notional in risk_engine.rs *)
Notional(position) == Times(Magnitude(position.net), position.avg)

(* position_loss_at_risk in risk_engine.rs; one is the price 1.0. *)
LossAtRisk(position, one) ==
  IF position.net >= 0 THEN Notional(position)
  ELSE Times(-position.net, Minus(Whole(one), position.avg))
=============================================================================
