--------------------------- MODULE PaperExecutor ---------------------------
(***************************************************************************)
(* The simulated order book side of the bot: src/paper_executor/           *)
(* lifecycle.rs.  PaperExecutor keeps the paper orders and, for each       *)
(* resting maker order, the size still queued ahead of it.  A maker order  *)
(* is filled by trade prints at its price once the queue ahead has traded; *)
(* a taker order is filled from the visible levels of the opposite side.   *)
(*                                                                         *)
(* Prices are ticks 0..MaxPrice (MaxPrice stands for 1.0), sizes are       *)
(* natural numbers: the code's EPSILON comparisons become comparisons of   *)
(* integers.  Order ids are positions in `orders` (next_order_seq is       *)
(* Len(orders) + 1).                                                       *)
(***************************************************************************)
EXTENDS Integers, Sequences, FiniteSetsExt, Functions

CONSTANTS
  MaxPrice,      \* the tick of price 1.0
  Tokens,        \* the outcome tokens
  MaxOrders,     \* bound: orders created in one behaviour
  NoTrade        \* "last_trade: None"

Prices == 0..MaxPrice
Sides == {"Buy", "Sell"}
Kinds == {"Maker", "Taker"}
Statuses == {"Open", "PartiallyFilled", "Filled", "Canceled", "Expired", "Rejected"}
TerminalStatuses == {"Filled", "Canceled", "Expired", "Rejected"}

Trade == [price : Prices, size : Nat, ts : Nat]
Levels == [Prices -> Nat]

(* PaperOrderIntent: what the signal engine may ask for, valid or not.     *)
Intents ==
  [token : Tokens, side : Sides, kind : Kinds, price : Int, size : Int, notional : Int]

(* TokenBookSnapshot, of which the executor reads levels and last trade.   *)
Books ==
  [token : Tokens, bids : Levels, asks : Levels, bidHint : SUBSET Prices,
   askHint : SUBSET Prices, trade : Trade \cup {NoTrade}, recv : SUBSET Nat]

SumLevels(levels, S) == SumFunctionOnSet(levels, S)

(* The prices a taker may trade at: executable_taker_levels before sorting. *)
Executable(side, limit) ==
  IF side = "Buy" THEN {p \in Prices : p <= limit} ELSE {p \in Prices : p >= limit}

Opposite(book, side) == IF side = "Buy" THEN book.asks ELSE book.bids
SameSide(book, side) == IF side = "Buy" THEN book.bids ELSE book.asks

ASSUME MaxPriceAssumption == MaxPrice \in Nat
ASSUME MaxOrdersAssumption == MaxOrders \in Nat
ASSUME NoTradeAssumption == NoTrade \notin Trade
ASSUME TokensAssumption == "" \notin Tokens

VARIABLES
  orders,        \* Seq of orders: the BTreeMap `orders`, by id
  queues,        \* maker_queues: order id -> [ahead, seen]
  executions,    \* history: what each filling call emitted, by price
  printed,       \* history: order id -> size printed at its price since it opened
  aheadAtOpen    \* history: order id -> queue it joined behind

vars == <<orders, queues, executions, printed, aheadAtOpen>>

-----------------------------------------------------------------------------
(* Pure parts of the code.                                                 *)

(* (Definitions named Bug... are plausible slips in the code; they are used *)
(* by no specification, only to check that the properties notice them.)    *)
BugRemaining(order) == order.size    \* forgets what is already filled
Remaining(order) == order.size - order.filled
IsLive(order) == order.status \notin TerminalStatuses

(* invalid_intent_reason.  A notional is that of the price and the size, so *)
(* that it is never below zero adds nothing.                               *)
ValidIntent(i) == i.price \in Prices /\ i.size > 0

(* build_paper_order *)
BuildOrder(i, status) ==
  [token |-> i.token, side |-> i.side, kind |-> i.kind, price |-> i.price,
   size |-> i.size, filled |-> 0, status |-> status]

(* Sizes a taker with `remaining` left takes per level, best level first:  *)
(* each level gives what the better ones left over.                        *)
Take(levels, side, limit, remaining) ==
  [p \in Prices |->
     LET better == {q \in Executable(side, limit) : IF side = "Buy" THEN q < p ELSE q > p}
         left == remaining - SumLevels(levels, better)
     IN IF p \in Executable(side, limit) /\ left > 0 THEN Min({left, levels[p]}) ELSE 0]

(* Takes all the depth, whatever the order still needs. *)
BugTakerSize(levels, side, limit, remaining) == SumLevels(levels, Executable(side, limit))

(* What the whole taker pass fills. *)
TakerSize(levels, side, limit, remaining) ==
  Min({remaining, SumLevels(levels, Executable(side, limit))})

(* Compares this fill, not the total, with the size. *)
BugCredited(order, more) ==
  [order EXCEPT !.filled = @ + more,
                !.status = IF more = order.size THEN "Filled" ELSE "PartiallyFilled"]

(* apply_fill: the order after it gained `more`. *)
Credited(order, more) ==
  LET filled == order.filled + more IN
  [order EXCEPT !.filled = filled,
                !.status = IF filled = order.size THEN "Filled" ELSE "PartiallyFilled"]

AtPrice(price, size) == [p \in Prices |-> IF p = price THEN size ELSE 0]

BugDrop(f, o) == f    \* the queue of a closed order stays
Drop(f, o) == [x \in DOMAIN f \ {o} |-> f[x]]
Put(f, o, v) == [x \in DOMAIN f \cup {o} |-> IF x = o THEN v ELSE f[x]]

-----------------------------------------------------------------------------
Init ==
  /\ orders = << >>
  /\ queues = << >>
  /\ executions = << >>
  /\ printed = << >>
  /\ aheadAtOpen = << >>

BugNewId == Len(orders)    \* the sequence number is read before it is incremented
NewId == Len(orders) + 1

(* reject_approved_intent: the id is used up by an order that never opens. *)
RejectApproved(i) ==
  /\ orders' = Append(orders, BuildOrder(i, "Rejected"))
  /\ UNCHANGED <<queues, executions, printed, aheadAtOpen>>

(* open_paper_order on a maker intent and the book it rests in. *)
OpenMaker(i, book) ==
  LET ahead == SameSide(book, i.side)[i.price] IN
  /\ orders' = Append(orders, BuildOrder(i, "Open"))
  /\ queues' = Put(queues, NewId, [ahead |-> ahead, seen |-> book.trade])
  /\ printed' = Put(printed, NewId, 0)
  /\ aheadAtOpen' = Put(aheadAtOpen, NewId, ahead)
  /\ UNCHANGED executions

(* simulate_taker_fill for `order`, which is or becomes number o. *)
TakeFrom(order, o, book) ==
  LET levels == Opposite(book, order.side)
      size == TakerSize(levels, order.side, order.price, Remaining(order))
  IN [order |-> IF size = 0 THEN order ELSE Credited(order, size),
      executions |->
        IF size = 0 THEN executions
        ELSE Append(executions,
               [order |-> o, liquidity |-> "Taker", print |-> NoTrade,
                by |-> Take(levels, order.side, order.price, Remaining(order))])]

(* open_paper_order on a taker intent: opened and matched in one call. *)
OpenTaker(i, book) ==
  LET taken == TakeFrom(BuildOrder(i, "Open"), NewId, book) IN
  /\ orders' = Append(orders, taken.order)
  /\ executions' = taken.executions
  /\ UNCHANGED <<queues, printed, aheadAtOpen>>

(* open_paper_order for an intent the risk engine approved (an intent it   *)
(* did not approve leaves no trace here).  book is absent, of another      *)
(* token, or the one to trade in.                                          *)
OpenPaperOrder(i, book) ==
  /\ Len(orders) < MaxOrders
  /\ \/ ~ ValidIntent(i) /\ RejectApproved(i)
     \/ ValidIntent(i) /\ book.token # i.token /\ RejectApproved(i)
     \/ ValidIntent(i) /\ book.token = i.token /\ i.kind = "Maker" /\ OpenMaker(i, book)
     \/ ValidIntent(i) /\ book.token = i.token /\ i.kind = "Taker" /\ OpenTaker(i, book)

(* reject_intent *)
RejectIntent(i) ==
  /\ Len(orders) < MaxOrders
  /\ RejectApproved(i)

(* ensure_order_can_fill and ensure_book_matches_order *)
CanSimulate(o, book) ==
  /\ IsLive(orders[o])
  /\ book.token = orders[o].token

(* simulate_maker_fill.  A print already seen by this order does nothing;  *)
(* any other print is remembered even when its price is not the order's.   *)
SimulateMakerFill(o, book) ==
  LET order == orders[o]
      trade == book.trade
      counts == trade.price = order.price /\ trade.size > 0
      consumed == IF counts THEN Min({queues[o].ahead, trade.size}) ELSE 0
      size == IF counts THEN Min({trade.size - consumed, Remaining(order)}) ELSE 0
      credited == IF size = 0 THEN order ELSE Credited(order, size)
  IN /\ CanSimulate(o, book)
     /\ order.kind = "Maker"
     /\ trade # NoTrade
     /\ queues[o].seen # trade
     /\ orders' = [orders EXCEPT ![o] = credited]
     /\ queues' = IF credited.status = "Filled"
                  THEN Drop(queues, o)
                  ELSE Put(queues, o, [ahead |-> queues[o].ahead - consumed, seen |-> trade])
     /\ executions' =
          IF size = 0 THEN executions
          ELSE Append(executions, [order |-> o, liquidity |-> "Maker", print |-> trade,
                                   by |-> AtPrice(order.price, size)])
     /\ printed' = [printed EXCEPT ![o] = @ + (IF counts THEN trade.size ELSE 0)]
     /\ UNCHANGED aheadAtOpen

(* simulate_fill of a taker that is still open: it looks at the book again. *)
SimulateTakerFill(o, book) ==
  LET taken == TakeFrom(orders[o], o, book) IN
  /\ CanSimulate(o, book)
  /\ orders[o].kind = "Taker"
  /\ orders' = [orders EXCEPT ![o] = taken.order]
  /\ executions' = taken.executions
  /\ UNCHANGED <<queues, printed, aheadAtOpen>>

SimulateFill(o, book) == SimulateMakerFill(o, book) \/ SimulateTakerFill(o, book)

CloseAs(o, status) ==
  /\ IsLive(orders[o])
  /\ orders' = [orders EXCEPT ![o].status = status]
  /\ queues' = Drop(queues, o)
  /\ UNCHANGED <<executions, printed, aheadAtOpen>>

CancelOrder(o) == CloseAs(o, "Canceled")
ExpireOrder(o) == CloseAs(o, "Expired")

Next ==
  \/ \E i \in Intents, book \in Books : OpenPaperOrder(i, book)
  \/ \E i \in Intents : RejectIntent(i)
  \/ \E o \in DOMAIN orders :
        \/ \E book \in Books : SimulateFill(o, book)
        \/ CancelOrder(o)
        \/ ExpireOrder(o)

Spec == Init /\ [][Next]_vars

-----------------------------------------------------------------------------
(* Types of the executor's state. *)
Order == [token : Tokens, side : Sides, kind : Kinds, price : Int,
          size : Int, filled : Nat, status : Statuses]
Queue == [ahead : Nat, seen : Trade \cup {NoTrade}]

TypeOK ==
  /\ orders \in Seq(Order)
  /\ \A o \in DOMAIN queues : o \in DOMAIN orders /\ queues[o] \in Queue
  /\ DOMAIN printed \subseteq DOMAIN orders
  /\ \A o \in DOMAIN printed : printed[o] \in Nat
  /\ DOMAIN aheadAtOpen = DOMAIN printed
  /\ \A o \in DOMAIN aheadAtOpen : aheadAtOpen[o] \in Nat

(* The queue map and the order map never drift apart: an order has a queue *)
(* position exactly while it is a maker order that can still be filled.    *)
(* simulate_maker_fill would fail with MakerQueueMissing on a resting      *)
(* order without one, and a queue left behind a terminal order would leak. *)
QueueExactlyForRestingMakers ==
  DOMAIN queues = {o \in DOMAIN orders : orders[o].kind = "Maker" /\ IsLive(orders[o])}

(* An order's status says what its fills say: Filled means nothing is      *)
(* left, Open and Rejected mean nothing was filled, no order is filled     *)
(* beyond its size (apply_fill's clamps).                                  *)
StatusAgreesWithFills ==
  \A o \in DOMAIN orders :
     LET order == orders[o] IN
     /\ order.status \in {"Open", "Rejected"} => order.filled = 0
     /\ order.status # "Rejected" => order.filled <= order.size
     /\ order.status = "Filled" <=> (order.filled > 0 /\ order.filled = order.size)
     /\ order.status = "PartiallyFilled" => order.filled \in 1..(order.size - 1)

(* Queue priority: at any time a maker order has been filled by exactly    *)
(* the size it was shown printing at its price since it opened, beyond the *)
(* queue it joined behind, up to its own size: nothing of the queue ahead  *)
(* is skipped and nothing is lost, however the prints split the volume.    *)
Beyond(o) == printed[o] - aheadAtOpen[o]
Due(beyond, size) == IF beyond <= 0 THEN 0 ELSE IF beyond >= size THEN size ELSE beyond
QueuePriority ==
  \A o \in DOMAIN printed :
     orders[o].filled = Due(Beyond(o), orders[o].size)

(* The emitted fills add up to what each order says it has filled, and     *)
(* every fill is at a price the order allowed: position book and reports   *)
(* are computed from the fills, the executor from the order.               *)
ExecutionsOf(o) == {n \in DOMAIN executions : executions[n].order = o}
FillsAddUp ==
  \A o \in DOMAIN orders :
     /\ orders[o].filled =
          SumFunctionOnSet([n \in DOMAIN executions |-> SumLevels(executions[n].by, Prices)],
                           ExecutionsOf(o))
     /\ \A n \in ExecutionsOf(o), p \in Prices :
          executions[n].by[p] > 0 =>
             IF orders[o].kind = "Maker" THEN p = orders[o].price
             ELSE p \in Executable(orders[o].side, orders[o].price)

(* What makes QueuePriority inductive: the queue position of a resting     *)
(* order is what the printed volume left of the queue it joined.           *)
QueueBookkeeping ==
  /\ DOMAIN printed = {o \in DOMAIN orders :
                         orders[o].kind = "Maker" /\ orders[o].status # "Rejected"}
  /\ \A o \in DOMAIN queues :
        queues[o].ahead = IF Beyond(o) >= 0 THEN 0 ELSE -Beyond(o)
OpenedValid ==
  \A o \in DOMAIN orders :
     orders[o].status # "Rejected" => orders[o].price \in Prices /\ orders[o].size > 0

IInv ==
  /\ TypeOK
  /\ OpenedValid
  /\ QueueExactlyForRestingMakers
  /\ StatusAgreesWithFills
  /\ QueueBookkeeping
  /\ QueuePriority

(* What readers of paper orders are promised. *)
Ledger == [o \in DOMAIN orders |-> [size |-> orders[o].size, filled |-> orders[o].filled,
                                    status |-> orders[o].status]]
Lifecycle == INSTANCE PaperOrderLifecycle WITH ledger <- Ledger
LifecycleSpec == Lifecycle!Spec
=============================================================================
