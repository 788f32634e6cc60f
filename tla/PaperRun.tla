------------------------------ MODULE PaperRun ------------------------------
(***************************************************************************)
(* One replay or paper run: ReplayExecution::run in src/replay.rs with the *)
(* state store, risk engine, paper executor and position book it drives.   *)
(* The loop is sequential.  For each event, in the order of receipt, it    *)
(*   1. updates the state store, and on a resolution marks the positions   *)
(*      of that market at their settlement value            (Receive)      *)
(*   2. on a trade print shows it to each resting order     (SimulateNext) *)
(*   3. lets signal and risk engine look at the markets the event          *)
(*      touched, and opens the order they agree on          (Evaluate)     *)
(*   4. marks every position at the middle of its book      (MarkPositions)*)
(*                                                                         *)
(* What the signal engine thinks an outcome is worth is a free choice: it  *)
(* may propose any order its data checks let through, or none.  The wall   *)
(* clock, by which the code judges staleness, never steps back.            *)
(***************************************************************************)
EXTENDS PaperExecutor, PaperPositions

CONSTANTS
  MarketIds,              \* the markets, in id order
  TokensOf, AssetOf,      \* market -> its outcome tokens, its asset
  Updates,                \* what the feeds may deliver
  TimeSteps,              \* milliseconds that may pass between two events
  OrderSize,              \* the signal engine's order size
  StaleBook, StaleReference, Window,     \* milliseconds
  MaxOrdersPerMinute, MaxMarketLoss, MaxMarketNotional, MaxAssetNotional,
  MaxTotalNotional, DrawdownLimit,       \* RiskLimits
  MaxEvents               \* bound: events received

Markets == ToSet(MarketIds)
MarketOf(t) == CHOOSE m \in Markets : t \in TokensOf[m]
Assets == {AssetOf[m] : m \in Markets}

(* A token is of one market.  Levels, prices and sizes of a message are    *)
(* those of the normalized events, which are never negative.               *)
ASSUME MarketsAssumption ==
  /\ MarketIds \in Seq(Markets)
  /\ \A m, n \in Markets : m # n => TokensOf[m] \cap TokensOf[n] = {}
  /\ Tokens = UNION {TokensOf[m] : m \in Markets} /\ IsFiniteSet(Tokens)
ASSUME UpdatesAssumption ==
  \A u \in Updates :
    /\ u.type \in {"BookSnapshot", "BookDelta"} =>
         /\ u.token \in Tokens
         /\ \A p \in DOMAIN u.bids : u.bids[p] \in Nat
         /\ \A p \in DOMAIN u.asks : u.asks[p] \in Nat
    /\ u.type = "BestBidAsk" =>
         /\ u.token \in Tokens /\ u.bid \subseteq 0..MaxPrice /\ u.ask \subseteq 0..MaxPrice
    /\ u.type = "LastTrade" => u.token \in Tokens /\ u.price \in 0..MaxPrice /\ u.size \in Nat
    /\ u.type = "ReferenceTick" => u.asset \in Assets
    /\ u.type \in {"MarketUpdated", "MarketCreated", "MarketResolved"} => u.market \in Markets
ASSUME NumbersAssumption ==
  /\ OrderSize \in Nat \ {0}
  /\ TimeSteps \subseteq Nat /\ Window \in Nat /\ MaxOrdersPerMinute \in Nat
  /\ StaleBook \in Nat /\ StaleReference \in Nat /\ DrawdownLimit \in Nat
  /\ TakerFee \in [Prices -> Nat]

VARIABLES
  books,          \* order_books, by token
  lifecycle,      \* market_lifecycle: market -> state, where known
  discovered,     \* the markets described by the feed so far
  reference,      \* asset -> wall time of its reference price, if any
  positions,      \* PaperPositionBook: the tokens ever filled -> position
  orderTimes,     \* order_timestamps_ms
  wall,           \* receipt time of the current event
  received,       \* how many events were received
  step, todo,     \* where in the loop body, and which orders or markets are left
  heard,          \* history: token or asset -> when it was last heard of
  winner          \* history: resolved market -> its winning token

executor == vars
store == <<books, lifecycle, discovered, reference>>
clock == <<wall, received, heard, winner>>
runVars == <<executor, store, positions, orderTimes, clock, step, todo>>

-----------------------------------------------------------------------------
(* The order book of a token, src/state/order_book.rs: the size at each    *)
(* price tick on both sides, the best prices last announced without depth  *)
(* (hints), the last trade print and the wall time of the last update.     *)
(* Optional values are sets of at most one element.  An absent book and an *)
(* empty one are the same to every reader.                                 *)
NoLevels == [p \in Prices |-> 0]
EmptyBook(token) ==
  [token |-> token, bids |-> NoLevels, asks |-> NoLevels, bidHint |-> {}, askHint |-> {},
   trade |-> NoTrade, recv |-> {}]

(* apply_side_updates: each listed price gets its new size, zero removes it. *)
Updated(levels, updates) ==
  [p \in DOMAIN levels |-> IF p \in DOMAIN updates THEN updates[p] ELSE levels[p]]

ApplySnapshot(book, bids, asks, at) ==
  [book EXCEPT !.bids = Updated(NoLevels, bids), !.asks = Updated(NoLevels, asks),
               !.bidHint = {}, !.askHint = {}, !.recv = {at}]

ApplyDelta(book, bids, asks, at) ==
  [book EXCEPT !.bids = Updated(@, bids), !.asks = Updated(@, asks),
               !.bidHint = {}, !.askHint = {}, !.recv = {at}]

(* Best prices announced without sizes: they count as a book update, and   *)
(* are used only for a side that has no levels.                            *)
ApplyBestBidAsk(book, bid, ask, at) ==
  [book EXCEPT !.bidHint = bid, !.askHint = ask, !.recv = {at}]

(* A print counts as a book update. *)
BugRecordLastTrade(book, price, size, at) ==
  [book EXCEPT !.trade = [price |-> price, size |-> size, ts |-> at], !.recv = {at}]

(* A trade print leaves levels and freshness alone. *)
RecordLastTrade(book, price, size, at) ==
  [book EXCEPT !.trade = [price |-> price, size |-> size, ts |-> at]]

WithDepth(levels) == {p \in DOMAIN levels : levels[p] > 0}
BestBid(book) == IF WithDepth(book.bids) # {} THEN {Max(WithDepth(book.bids))} ELSE book.bidHint
BestAsk(book) == IF WithDepth(book.asks) # {} THEN {Min(WithDepth(book.asks))} ELSE book.askHint

(* BookFreshness and ReferenceFreshness, by the wall clock of the machine. *)
Fresh(recv, at, staleAfter) == \E t \in recv : at - t <= staleAfter

-----------------------------------------------------------------------------
RunInit ==
  /\ Init
  /\ books = [t \in Tokens |-> EmptyBook(t)]
  /\ lifecycle = << >> /\ discovered = {}
  /\ reference = [a \in Assets |-> {}]
  /\ positions = << >>
  /\ orderTimes = << >>
  /\ wall = 0 /\ received = 0
  /\ step = "receive" /\ todo = {}
  /\ heard = [x \in Tokens \cup Assets |-> 0]
  /\ winner = << >>

-----------------------------------------------------------------------------
(* 1. Receiving an event.                                                  *)

(* Those of some markets that the run knows of, by their place in id order. *)
Known(markets) == {n \in DOMAIN MarketIds : MarketIds[n] \in discovered' \cap markets}

(* apply_settlement: winning_token pays one, the others nothing. *)
Settled(m, paying) ==
  [t \in DOMAIN positions |->
     IF MarketOf(t) = m THEN Mark(positions[t], Whole(IF t = paying THEN MaxPrice ELSE 0))
     ELSE positions[t]]

BookUpdate(u, book) ==
  /\ books' = [books EXCEPT ![u.token] = book]
  /\ heard' = [heard EXCEPT ![u.token] = wall']
  /\ UNCHANGED <<lifecycle, discovered, reference, positions, winner>>
  /\ step' = "evaluate" /\ todo' = Known({MarketOf(u.token)})

(* The resting orders of a token, when a trade prints on it. *)
Resting(t) ==
  {o \in DOMAIN orders : orders[o].token = t /\ orders[o].status \in {"Open", "PartiallyFilled"}}

(* StateStore::apply_event and what the run does before it evaluates. *)
Apply(u) ==
  \/ /\ u.type = "BookSnapshot"
     /\ BookUpdate(u, ApplySnapshot(books[u.token], u.bids, u.asks, wall'))
  \/ /\ u.type = "BookDelta"
     /\ BookUpdate(u, ApplyDelta(books[u.token], u.bids, u.asks, wall'))
  \/ /\ u.type = "BestBidAsk"
     /\ BookUpdate(u, ApplyBestBidAsk(books[u.token], u.bid, u.ask, wall'))
  \/ /\ u.type = "LastTrade"
     /\ books' = [books EXCEPT
                    ![u.token] = RecordLastTrade(@, u.price, u.size, wall')]
     /\ UNCHANGED <<lifecycle, discovered, reference, positions, heard, winner>>
     /\ step' = "simulate" /\ todo' = Resting(u.token)
  \/ /\ u.type = "ReferenceTick"
     /\ reference' = [reference EXCEPT ![u.asset] = {wall'}]
     /\ heard' = [heard EXCEPT ![u.asset] = wall']
     /\ UNCHANGED <<books, lifecycle, discovered, positions, winner>>
     /\ step' = "evaluate" /\ todo' = Known({m \in Markets : AssetOf[m] = u.asset})
  \/ /\ u.type = "MarketUpdated"        \* or MarketDiscovered
     /\ lifecycle' = Put(lifecycle, u.market, u.state)
     /\ discovered' = discovered \cup {u.market}
     /\ UNCHANGED <<books, reference, positions, heard, winner>>
     /\ step' = "evaluate" /\ todo' = Known({u.market})
  \/ /\ u.type = "MarketCreated"
     /\ lifecycle' = IF u.market \in DOMAIN lifecycle THEN lifecycle
                     ELSE Put(lifecycle, u.market, "Discovered")
     /\ UNCHANGED <<books, discovered, reference, positions, heard, winner>>
     /\ step' = "mark" /\ todo' = {}
  \/ /\ u.type = "MarketResolved"
     /\ lifecycle' = Put(lifecycle, u.market, "Resolved")
     /\ positions' = Settled(u.market, u.winner)
     /\ winner' = Put(winner, u.market, u.winner)
     /\ UNCHANGED <<books, discovered, reference, heard>>
     /\ step' = "mark" /\ todo' = {}

Receive(u, elapsed) ==
  /\ step = "receive"
  /\ received < MaxEvents
  /\ received' = received + 1
  /\ wall' = wall + elapsed
  /\ Apply(u)
  /\ UNCHANGED <<executor, orderTimes>>

-----------------------------------------------------------------------------
(* 2. Fills, and what they do to the positions.                            *)

(* Books only the first of several fills. *)
BugAfterFills(position, fills) ==
  ApplyFill(position, Head(fills).size, Head(fills).price, Head(fills).fee)

AfterFills(position, fills) ==
  FoldLeft(LAMBDA p, fill : ApplyFill(p, fill.size, fill.price, fill.fee), position, fills)

(* record_paper_result: the new fills enter the position book. *)
RecordPaperResult ==
  IF Len(executions') = Len(executions) THEN UNCHANGED positions
  ELSE LET x == Last(executions')
           t == orders'[x.order].token
           held == IF t \in DOMAIN positions THEN positions[t] ELSE NewPosition
       IN positions' = Put(positions, t, AfterFills(held, FillsOf(orders'[x.order].side, x)))

(* simulate_existing_order_fills, one order of the list.  An order that    *)
(* has seen this very print before is left as it is.                       *)
SimulateNext ==
  /\ step = "simulate" /\ todo # {}
  /\ LET o == Min(todo)
         book == books[orders[o].token]
     IN \/ SimulateFill(o, book)
        \/ /\ orders[o].kind = "Maker" /\ queues[o].seen = book.trade
           /\ UNCHANGED executor
  /\ RecordPaperResult
  /\ todo' = todo \ {Min(todo)}
  /\ UNCHANGED <<store, orderTimes, clock, step>>

SimulateDone ==
  /\ step = "simulate" /\ todo = {}
  /\ step' = "mark"
  /\ UNCHANGED <<executor, store, positions, orderTimes, clock, todo>>

-----------------------------------------------------------------------------
(* 3. Signal and risk.                                                     *)

BookFresh(t) == Fresh(books[t].recv, wall, StaleBook)
ReferenceFresh(a) == Fresh(reference[a], wall, StaleReference)

(* What buying the order's whole size from the asks costs. *)
TakerCost(t) ==
  LET by == Take(books[t].asks, "Buy", MaxPrice - 1, OrderSize)
  IN SumFunctionOnSet([p \in Prices |-> p * by[p]], Prices)

(* The orders the signal engine may propose: it only ever buys, one tick   *)
(* above the best bid as maker, at the average price of the depth as       *)
(* taker.  A level is at or below that average iff it is at or below the   *)
(* tick under it, so the order's price is the tick and its notional exact. *)
MakerCandidates(t) ==
  {[token |-> t, side |-> "Buy", kind |-> "Maker", price |-> bid + 1, size |-> OrderSize,
    notional |-> (bid + 1) * OrderSize] :
      bid \in {b \in BestBid(books[t]) : \E ask \in BestAsk(books[t]) : b + 1 < ask}}
TakerCandidates(t) ==
  IF SumLevels(books[t].asks, 1..(MaxPrice - 1)) >= OrderSize
  THEN {[token |-> t, side |-> "Buy", kind |-> "Taker",
         price |-> TakerCost(t) \div OrderSize, size |-> OrderSize, notional |-> TakerCost(t)]}
  ELSE {}

(* global_skip_reasons the model tells apart, and market_probability. *)
Tradable(m) == lifecycle[m] = "Active" /\ ReferenceFresh(AssetOf[m])
TwoSided(t) == BestBid(books[t]) # {} /\ BestAsk(books[t]) # {}

Candidates(m) ==
  UNION {MakerCandidates(t) \cup TakerCandidates(t) :
           t \in {t \in TokensOf[m] : Tradable(m) /\ BookFresh(t) /\ TwoSided(t)}}

(* What the positions in some tokens put at risk. *)
Total(value, tokens) == FoldFunctionOnSet(Plus, Whole(0), value, tokens \cap DOMAIN positions)
NotionalIn(tokens) == Total([t \in DOMAIN positions |-> Notional(positions[t])], tokens)
LossIn(tokens) == Total([t \in DOMAIN positions |-> LossAtRisk(positions[t], MaxPrice)], tokens)
TokensOfAsset(a) == UNION {TokensOf[m] : m \in {n \in Markets : AssetOf[n] = a}}

(* risk_context: realized P&L plus the P&L at the last marks. *)
BugEquity == Total([t \in DOMAIN positions |-> positions[t].realized], Tokens)
Equity ==
  Total([t \in DOMAIN positions |-> Plus(positions[t].realized, Unrealized(positions[t]))], Tokens)

BugRecentOrders ==
  Cardinality({k \in DOMAIN orderTimes : orderTimes[k] > wall - Window /\ orderTimes[k] < wall})
RecentOrders ==
  Cardinality({k \in DOMAIN orderTimes : orderTimes[k] >= wall - Window /\ orderTimes[k] <= wall})

(* RiskEngine::evaluate on an order for market m.  A buy risks its         *)
(* notional.  Every asset counts as correlated, so MaxTotalNotional stands *)
(* for the smaller of the total and the correlated limit.  Resting orders  *)
(* do not count: additional_exposures is empty.                            *)
WithinExposureLimits(i, m) ==
  LET within(existing, limit) == AtMost(Plus(existing, Whole(i.notional)), Whole(limit))
  IN /\ within(LossIn(TokensOf[m]), MaxMarketLoss)
     /\ within(NotionalIn(TokensOf[m]), MaxMarketNotional)
     /\ within(NotionalIn(TokensOfAsset(AssetOf[m])), MaxAssetNotional)
     /\ within(NotionalIn(Tokens), MaxTotalNotional)

Approved(i, m) ==
  /\ lifecycle[m] = "Active"
  /\ ReferenceFresh(AssetOf[m]) /\ BookFresh(i.token)
  /\ WithinExposureLimits(i, m)
  /\ RecentOrders < MaxOrdersPerMinute
  /\ ~ AtMost(Equity, Whole(-DrawdownLimit))

(* evaluate_market when nothing is proposed or the risk engine objects. *)
NoOrder(m) ==
  /\ \/ TRUE      \* the edge is too small, or the market is about to close
     \/ \E i \in Candidates(m) : ~ Approved(i, m)
  /\ UNCHANGED <<executor, positions, orderTimes>>

OpenOrder(i, m) ==
  /\ Approved(i, m)
  /\ OpenPaperOrder(i, books[i.token])
  /\ orderTimes' = Append(orderTimes, wall)
  /\ RecordPaperResult

Evaluate ==
  /\ step = "evaluate" /\ todo # {}
  /\ LET m == MarketIds[Min(todo)]
     IN NoOrder(m) \/ \E i \in Candidates(m) : OpenOrder(i, m)
  /\ todo' = todo \ {Min(todo)}
  /\ UNCHANGED <<store, clock, step>>

EvaluateDone ==
  /\ step = "evaluate" /\ todo = {}
  /\ step' = "mark"
  /\ UNCHANGED <<executor, store, positions, orderTimes, clock, todo>>

-----------------------------------------------------------------------------
(* 4. Marking.                                                             *)

(* mark_price: the middle of the book, or the one side there is. *)
MarkPrice(book) ==
  LET sides == BestBid(book) \cup BestAsk(book)
  IN IF sides = {} THEN {} ELSE {Ratio(Min(sides) + Max(sides), 2)}

MarkPositions ==
  /\ step = "mark"
  /\ positions' = [t \in DOMAIN positions |->
                     IF MarkPrice(books[t]) = {} THEN positions[t]
                     ELSE [positions[t] EXCEPT !.mark = MarkPrice(books[t])]]
  /\ step' = "receive"
  /\ UNCHANGED <<executor, store, orderTimes, clock, todo>>

(* No event is left: the run writes its report. *)
Finished == step = "receive" /\ received = MaxEvents /\ UNCHANGED runVars

RunNext ==
  \/ \E u \in Updates, elapsed \in TimeSteps : Receive(u, elapsed)
  \/ SimulateNext \/ SimulateDone
  \/ Evaluate \/ EvaluateDone
  \/ MarkPositions
  \/ Finished

RunSpec == RunInit /\ [][RunNext]_runVars

-----------------------------------------------------------------------------
(* Types of the run's state; the executor's are in PaperExecutor. *)
Fraction == Int \X (Nat \ {0})
RunTypeOK ==
  /\ \A t \in Tokens : books[t].recv \subseteq Nat
  /\ DOMAIN lifecycle \subseteq Markets /\ discovered \subseteq DOMAIN lifecycle
  /\ \A a \in Assets : reference[a] \subseteq Nat
  /\ \A t \in DOMAIN positions :
        /\ t \in Tokens /\ positions[t].net \in Int
        /\ positions[t].avg \in Fraction /\ positions[t].realized \in Fraction
  /\ orderTimes \in Seq(Nat) /\ Len(orderTimes) <= Len(orders)
  /\ step \in {"receive", "simulate", "evaluate", "mark"}
  /\ step \in {"receive", "mark"} => todo = {}
  /\ step = "simulate" => \A o \in todo : IsLive(orders[o])

(* Accounting across two components that share no state: the position book *)
(* holds exactly what the executor's orders were filled, token by token,   *)
(* whatever mix of makers, takers and levels the fills came from.          *)
OrdersOf(t) == {o \in DOMAIN orders : orders[o].token = t}
Signed(order) == IF order.side = "Buy" THEN order.filled ELSE -order.filled
Net(t) == IF t \in DOMAIN positions THEN positions[t].net ELSE 0
PositionsMatchOrders ==
  \A t \in Tokens :
     Net(t) = SumFunctionOnSet([o \in DOMAIN orders |-> Signed(orders[o])], OrdersOf(t))

(* Money: what a position has cost so far, fees included, is what its      *)
(* average price and realized P&L say it cost.  The report's P&L is        *)
(* computed from these two, never from the fills.                          *)
CashFor(x) ==
  LET flow == SumFunctionOnSet([p \in Prices |-> p * x.by[p]], Prices)
      fees == IF x.liquidity = "Maker" THEN 0
              ELSE SumFunctionOnSet([p \in Prices |-> x.by[p] * TakerFee[p]], Prices)
  IN (IF orders[x.order].side = "Buy" THEN -flow ELSE flow) - fees
FilledIn(t) == {n \in DOMAIN executions : orders[executions[n].order].token = t}
Cash(t) == SumFunctionOnSet([n \in DOMAIN executions |-> CashFor(executions[n])], FilledIn(t))
MoneyAddsUp ==
  \A t \in DOMAIN positions :
     positions[t].realized
       = Plus(Whole(Cash(t)), Times(positions[t].net, positions[t].avg))

(* Order rate: no minute ever holds more orders than the limit, wherever   *)
(* it starts.  The engine only looks back from the order it is asked for.  *)
OrderRateHolds ==
  \A n \in DOMAIN orderTimes :
     Cardinality({k \in DOMAIN orderTimes : orderTimes[k] \in (orderTimes[n] - Window)..orderTimes[n]})
       <= MaxOrdersPerMinute

(* An order is opened only on a book and a reference price that were       *)
(* themselves heard of within the staleness limits: nothing else that      *)
(* arrives - a trade print, a market update - makes old data look fresh.   *)
Opens == Len(orders') > Len(orders)
NewToken == orders'[Len(orders')].token
OpensOnFreshData ==
  [][Opens => /\ wall - heard[NewToken] <= StaleBook
              /\ wall - heard[AssetOf[MarketOf(NewToken)]] <= StaleReference]_runVars

(* The drawdown halt: no order is opened while cash spent and positions at *)
(* their last marks are worth DrawdownLimit less than at the start.  A     *)
(* position not marked yet counts at its cost.                             *)
Worth(t) ==
  LET value == {Times(positions[t].net, m) : m \in positions[t].mark}
  IN Plus(Whole(Cash(t)),
              IF value = {} THEN Times(positions[t].net, positions[t].avg)
              ELSE CHOOSE v \in value : TRUE)
StopsAtDrawdown ==
  [][Opens => ~ AtMost(Total([t \in DOMAIN positions |-> Worth(t)], Tokens), Whole(-DrawdownLimit))]_runVars

(* The three accounts of a run agree: the executor's orders, the position  *)
(* book and the money.                                                     *)
BooksAgree == RunTypeOK /\ PositionsMatchOrders /\ MoneyAddsUp

-----------------------------------------------------------------------------
(* What a test says and the code does not do.                              *)

(* pnl.rs:512, "settlement marks winning and losing tokens to market       *)
(* outcome": the positions of a resolved market are worth one or nothing.  *)
(* The book, if it still has a price, replaces that in the same turn.      *)
ResolvedIsSettled ==
  step = "receive" =>
    \A t \in DOMAIN positions :
       LET m == MarketOf(t) IN
       m \in DOMAIN winner /\ lifecycle[m] = "Resolved" =>
         positions[t].mark = {Whole(IF t = winner[m] THEN MaxPrice ELSE 0)}
=============================================================================
