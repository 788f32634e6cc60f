--------------------------- MODULE PaperRunProofs ---------------------------
(***************************************************************************)
(* Proofs about PaperRun and ShadowRun: for every set of markets, every    *)
(* stream of events and any limits, the order rate holds, an order is      *)
(* opened only on data that is as fresh as the limits ask, and the run     *)
(* uses the executor in no way that PaperExecutor does not allow, so that  *)
(* what is proved there of orders, queues and fills is true of a run.      *)
(* Orders, positions and money agree, and a run stops at its drawdown.     *)
(* The shadow changes nothing of it, its divergence count is what it says, *)
(* it stays within the market's live limit, and cash covers its orders.    *)
(***************************************************************************)
EXTENDS ShadowRun, PaperExecutorProofs

-----------------------------------------------------------------------------
(* The order rate.  Nothing needs to be known of the rest of the run: the  *)
(* clock does not go back, so no order is later than the one being opened, *)
(* and a window that gains the new order ends now.                         *)
RateInv ==
  /\ wall \in Nat
  /\ orderTimes \in Seq(Nat) /\ \A n \in DOMAIN orderTimes : orderTimes[n] <= wall
  /\ OrderRateHolds

LEMMA RateInit == RunInit => RateInv
BY DEF RunInit, RateInv, OrderRateHolds

(* The positions in a list of times of those in the window that ends at one. *)
Within(times, at) == {k \in DOMAIN times : times[k] \in (at - Window)..at}

LEMMA RateIs ==
  /\ OrderRateHolds <=> \A n \in DOMAIN orderTimes :
                           Cardinality(Within(orderTimes, orderTimes[n])) <= MaxOrdersPerMinute
  /\ OrderRateHolds' <=> \A n \in DOMAIN orderTimes' :
                           Cardinality(Within(orderTimes', orderTimes'[n])) <= MaxOrdersPerMinute
BY DEF OrderRateHolds, Within

LEMMA RateOpen ==
  ASSUME RateInv, RecentOrders < MaxOrdersPerMinute,
         orderTimes' = Append(orderTimes, wall), wall' = wall
  PROVE  RateInv'
<1> DEFINE new == Len(orderTimes) + 1
           now == Within(orderTimes, wall)
<1>1. /\ wall \in Nat /\ Window \in Nat /\ MaxOrdersPerMinute \in Nat
      /\ orderTimes \in Seq(Nat) /\ Len(orderTimes) \in Nat /\ DOMAIN orderTimes = 1..Len(orderTimes)
      /\ \A n \in DOMAIN orderTimes : orderTimes[n] \in Nat /\ orderTimes[n] <= wall
  BY NumbersAssumption DEF RateInv
<1>2. /\ orderTimes' \in Seq(Nat) /\ DOMAIN orderTimes' = DOMAIN orderTimes \cup {new}
      /\ new \notin DOMAIN orderTimes
      /\ orderTimes'[new] = wall
      /\ \A n \in DOMAIN orderTimes : orderTimes'[n] = orderTimes[n]
  BY <1>1
<1>3. /\ IsFiniteSet(now) /\ new \notin now
      /\ Cardinality(now) \in Nat /\ Cardinality(now) < MaxOrdersPerMinute
  <2>1. now \subseteq 1..Len(orderTimes)
    BY <1>1 DEF Within
  <2>2. IsFiniteSet(now)
    <3>1. IsFiniteSet(1..Len(orderTimes))
      BY <1>1, IntervalGrows
    <3> HIDE DEF now
    <3> QED
      BY <2>1, <3>1, FS_Subset
  <2>3. now = {k \in DOMAIN orderTimes : orderTimes[k] >= wall - Window /\ orderTimes[k] <= wall}
    BY <1>1 DEF Within
  <2>4. Cardinality(now) = RecentOrders
    BY <2>3 DEF RecentOrders
  <2> QED
    BY <1>1, <2>1, <2>2, <2>4, FS_CardinalityType
<1>4. Within(orderTimes', wall) = now \cup {new}
  BY <1>1, <1>2 DEF Within
<1>5. Cardinality(now \cup {new}) = Cardinality(now) + 1
  BY <1>3, FS_AddElement
<1>6. Cardinality(Within(orderTimes', wall)) <= MaxOrdersPerMinute
  BY <1>1, <1>3, <1>4, <1>5
<1>7. ASSUME NEW n \in DOMAIN orderTimes', orderTimes'[n] # wall
      PROVE  Cardinality(Within(orderTimes', orderTimes'[n])) <= MaxOrdersPerMinute
  <2>1. n \in DOMAIN orderTimes /\ orderTimes'[n] = orderTimes[n] /\ orderTimes[n] < wall
    BY <1>1, <1>2, <1>7
  <2>2. Within(orderTimes', orderTimes'[n]) = Within(orderTimes, orderTimes[n])
    BY <1>1, <1>2, <2>1 DEF Within
  <2> QED
    BY <2>1, <2>2, RateIs DEF RateInv
<1>8. OrderRateHolds'
  BY <1>6, <1>7, RateIs
<1> QED
  BY <1>1, <1>2, <1>8 DEF RateInv

LEMMA RateKept ==
  ASSUME RateInv, orderTimes' = orderTimes, wall' \in Nat, wall <= wall'
  PROVE  RateInv'
<1>1. OrderRateHolds'
  BY RateIs DEF RateInv
<1>2. \A n \in DOMAIN orderTimes : orderTimes[n] <= wall'
  <2>1. \A n \in DOMAIN orderTimes : orderTimes[n] \in Nat /\ orderTimes[n] <= wall
    BY DEF RateInv
  <2> QED
    BY <2>1 DEF RateInv
<1> QED
  BY <1>1, <1>2 DEF RateInv

LEMMA RateNext == RateInv /\ [RunNext]_runVars => RateInv'
<1> SUFFICES ASSUME RateInv, [RunNext]_runVars PROVE RateInv'
  OBVIOUS
<1>0. wall \in Nat /\ wall <= wall
  BY DEF RateInv
<1>1. ASSUME NEW u \in Updates, NEW elapsed \in TimeSteps, Receive(u, elapsed)
      PROVE  RateInv'
  <2>1. elapsed \in Nat
    BY NumbersAssumption
  <2>2. orderTimes' = orderTimes /\ wall' = wall + elapsed
    BY <1>1 DEF Receive
  <2> QED
    BY <1>0, <2>1, <2>2, RateKept
<1>2. ASSUME NEW m, NEW i, OpenOrder(i, m), wall' = wall
      PROVE  RateInv'
  BY <1>2, RateOpen DEF OpenOrder, Approved
<1>3. CASE Evaluate
  <2>1. wall' = wall
    BY <1>3 DEF Evaluate, clock
  <2>2. \/ orderTimes' = orderTimes
        \/ \E m, i : OpenOrder(i, m)
    BY <1>3 DEF Evaluate, NoOrder
  <2> QED
    BY <1>0, <1>2, <2>1, <2>2, RateKept
<1>4. CASE SimulateNext
  BY <1>0, <1>4, RateKept DEF SimulateNext, clock
<1>5. CASE SimulateDone
  BY <1>0, <1>5, RateKept DEF SimulateDone, clock
<1>6. CASE EvaluateDone
  BY <1>0, <1>6, RateKept DEF EvaluateDone, clock
<1>7. CASE MarkPositions
  BY <1>0, <1>7, RateKept DEF MarkPositions, clock
<1>8. CASE UNCHANGED runVars
  BY <1>0, <1>8, RateKept DEF runVars, clock
<1> QED
  BY <1>1, <1>3, <1>4, <1>5, <1>6, <1>7, <1>8 DEF RunNext, Finished

(* No stretch of the rate window ever holds more orders than RiskLimits    *)
(* allows, wherever it starts, although the risk engine only looks back    *)
(* from the order it is asked for.                                         *)
THEOREM OrderRateKept == RunSpec => []OrderRateHolds
<1>1. RateInv => OrderRateHolds
  BY DEF RateInv
<1> QED
  BY RateInit, RateNext, <1>1, PTL DEF RunSpec

-----------------------------------------------------------------------------
(* Data that is as fresh as it looks.  heard tells when a token or an      *)
(* asset was last heard of; what the state store and the reference feed    *)
(* note as their times is never later than that.                           *)
HeardInv ==
  /\ wall \in Nat
  /\ heard \in [Tokens \cup Assets -> Nat]
  /\ \A x \in Tokens \cup Assets : heard[x] <= wall
BookInv ==
  /\ books \in [Tokens -> Books]
  /\ \A t \in Tokens : books[t].token = t /\ \A r \in books[t].recv : r <= heard[t]
ReferenceInv ==
  /\ reference \in [Assets -> SUBSET Nat]
  /\ \A a \in Assets : \A r \in reference[a] : r <= heard[a]

(* Orders are records, each a buy of a token; the lists of markets and orders    *)
(* that a step works through are of markets and orders there are.          *)
OrderFields == {"token", "side", "kind", "price", "size", "filled", "status"}
IsOrder(order) ==
  /\ order = [field \in OrderFields |-> order[field]]
  /\ order.token \in Tokens /\ order.side = "Buy"
OrdersInv ==
  /\ orders \in Seq({orders[o] : o \in DOMAIN orders})
  /\ \A o \in DOMAIN orders : IsOrder(orders[o])
TodoInv ==
  /\ step = "evaluate" => todo \subseteq DOMAIN MarketIds
  /\ step = "simulate" => todo \subseteq DOMAIN orders

RunInv == HeardInv /\ BookInv /\ ReferenceInv /\ OrdersInv /\ TodoInv

LEMMA RunInvInit == RunInit => RunInv
<1> SUFFICES ASSUME RunInit PROVE RunInv
  OBVIOUS
<1>1. MaxPrice \in Nat
  BY MaxPriceAssumption
<1>2. HeardInv /\ ReferenceInv
  BY DEF RunInit, HeardInv, ReferenceInv
<1>3. \A t \in Tokens : EmptyBook(t) \in Books
  <2> SUFFICES ASSUME NEW t \in Tokens PROVE EmptyBook(t) \in Books
    OBVIOUS
  <2>1. NoLevels \in [0..MaxPrice -> Nat]
    BY DEF NoLevels, Prices
  <2> QED
    BY <2>1 DEF EmptyBook, Books, Levels, Prices
<1>4. BookInv
  BY <1>3 DEF RunInit, BookInv, EmptyBook
<1>5. OrdersInv
  BY DEF RunInit, OrdersInv, Init
<1>6. TodoInv
  BY DEF RunInit, TodoInv
<1> QED
  BY <1>2, <1>4, <1>5, <1>6 DEF RunInv

-----------------------------------------------------------------------------
(* Receiving an event. *)

(* An update of a book makes a book of the same token, with the time it    *)
(* was made, unless it is a trade print, which leaves the time.            *)
LEMMA UpdatedLevels ==
  ASSUME NEW levels \in [0..MaxPrice -> Nat], NEW updates,
         \A p \in DOMAIN updates : updates[p] \in Nat
  PROVE  Updated(levels, updates) \in [0..MaxPrice -> Nat]
BY DEF Updated

IsUpdate(new, old, at) ==
  /\ new \in Books /\ new.token = old.token
  /\ new.recv = {at}

LEMMA BookParts ==
  ASSUME NEW book \in Books
  PROVE  /\ book = [token |-> book.token, bids |-> book.bids, asks |-> book.asks,
                     bidHint |-> book.bidHint, askHint |-> book.askHint,
                     trade |-> book.trade, recv |-> book.recv]
         /\ book.token \in Tokens
         /\ book.bids \in [0..MaxPrice -> Nat] /\ book.asks \in [0..MaxPrice -> Nat]
         /\ book.bidHint \in SUBSET (0..MaxPrice) /\ book.askHint \in SUBSET (0..MaxPrice)
         /\ book.trade \in [price : 0..MaxPrice, size : Nat, ts : Nat] \cup {NoTrade}
         /\ book.recv \in SUBSET Nat
BY DEF Books, Levels, Prices, Trade

LEMMA SnapshotUpdates ==
  ASSUME NEW book \in Books, NEW at \in Nat, NEW bids, NEW asks,
         \A p \in DOMAIN bids : bids[p] \in Nat, \A p \in DOMAIN asks : asks[p] \in Nat
  PROVE  IsUpdate(ApplySnapshot(book, bids, asks, at), book, at)
<1>1. NoLevels \in [0..MaxPrice -> Nat]
  BY DEF NoLevels, Prices
<1> DEFINE b == Updated(NoLevels, bids)
           a == Updated(NoLevels, asks)
<1>2. b \in [0..MaxPrice -> Nat] /\ a \in [0..MaxPrice -> Nat]
  BY <1>1, UpdatedLevels
<1>3. ApplySnapshot(book, bids, asks, at)
        = [book EXCEPT !.bids = b, !.asks = a, !.bidHint = {}, !.askHint = {}, !.recv = {at}]
  BY DEF ApplySnapshot
<1> HIDE DEF b, a
<1> DEFINE new == [token |-> book.token, bids |-> b, asks |-> a, bidHint |-> {}, askHint |-> {},
                   trade |-> book.trade, recv |-> {at}]
<1>4. ApplySnapshot(book, bids, asks, at) = new
  BY <1>3 DEF Books
<1>5. new \in Books
  BY <1>2, BookParts DEF Books, Levels, Prices, Trade
<1> QED
  BY <1>4, <1>5 DEF IsUpdate

LEMMA DeltaUpdates ==
  ASSUME NEW book \in Books, NEW at \in Nat, NEW bids, NEW asks,
         \A p \in DOMAIN bids : bids[p] \in Nat, \A p \in DOMAIN asks : asks[p] \in Nat
  PROVE  IsUpdate(ApplyDelta(book, bids, asks, at), book, at)
<1> DEFINE b == Updated(book.bids, bids)
           a == Updated(book.asks, asks)
<1>1. b \in [0..MaxPrice -> Nat] /\ a \in [0..MaxPrice -> Nat]
  BY BookParts, UpdatedLevels
<1>2. ApplyDelta(book, bids, asks, at)
        = [book EXCEPT !.bids = b, !.asks = a, !.bidHint = {}, !.askHint = {}, !.recv = {at}]
  BY BookParts DEF ApplyDelta
<1> HIDE DEF b, a
<1> DEFINE new == [token |-> book.token, bids |-> b, asks |-> a, bidHint |-> {}, askHint |-> {},
                   trade |-> book.trade, recv |-> {at}]
<1>3. ApplyDelta(book, bids, asks, at) = new
  BY <1>2 DEF Books
<1>4. new \in Books
  BY <1>1, BookParts DEF Books, Levels, Prices, Trade
<1> QED
  BY <1>3, <1>4 DEF IsUpdate

LEMMA HintUpdates ==
  ASSUME NEW book \in Books, NEW at \in Nat,
         NEW bid \in SUBSET (0..MaxPrice), NEW ask \in SUBSET (0..MaxPrice)
  PROVE  IsUpdate(ApplyBestBidAsk(book, bid, ask, at), book, at)
BY DEF ApplyBestBidAsk, IsUpdate, Books, Levels, Prices, Trade

LEMMA TradeRecorded ==
  ASSUME NEW book \in Books, NEW at \in Nat, NEW price \in 0..MaxPrice, NEW size \in Nat
  PROVE  LET new == RecordLastTrade(book, price, size, at)
         IN new \in Books /\ new.token = book.token /\ new.recv = book.recv
BY DEF RecordLastTrade, Books, Levels, Prices, Trade

(* The clock goes on, and what is heard of is heard of now.                *)
LEMMA HeardKept ==
  ASSUME HeardInv, wall' \in Nat, wall <= wall', heard' = heard
  PROVE  HeardInv'
BY DEF HeardInv

LEMMA HeardNow ==
  ASSUME HeardInv, wall' \in Nat, wall <= wall', NEW x \in Tokens \cup Assets,
         heard' = [heard EXCEPT ![x] = wall']
  PROVE  /\ HeardInv' /\ heard'[x] = wall'
         /\ \A y \in Tokens \cup Assets : heard[y] <= heard'[y]
BY DEF HeardInv

LEMMA BookKept ==
  ASSUME BookInv, heard \in [Tokens \cup Assets -> Nat], heard' \in [Tokens \cup Assets -> Nat],
         books' = books,
         \A y \in Tokens \cup Assets : heard[y] <= heard'[y]
  PROVE  BookInv'
<1>1. ASSUME NEW t \in Tokens, NEW r \in books[t].recv
      PROVE  r <= heard'[t]
  <2>1. books[t].recv \in SUBSET Nat
    BY BookParts DEF BookInv
  <2>2. r <= heard[t] /\ heard[t] <= heard'[t] /\ heard[t] \in Nat /\ heard'[t] \in Nat
    BY <1>1 DEF BookInv
  <2> QED
    BY <2>1, <2>2
<1> QED
  BY <1>1 DEF BookInv

LEMMA ReferenceKept ==
  ASSUME ReferenceInv, heard \in [Tokens \cup Assets -> Nat],
         heard' \in [Tokens \cup Assets -> Nat],
         reference' = reference,
         \A y \in Tokens \cup Assets : heard[y] <= heard'[y]
  PROVE  ReferenceInv'
<1>1. ASSUME NEW a \in Assets, NEW r \in reference[a]
      PROVE  r <= heard'[a]
  <2>1. reference[a] \in SUBSET Nat
    BY DEF ReferenceInv
  <2>2. r <= heard[a] /\ heard[a] <= heard'[a] /\ heard[a] \in Nat /\ heard'[a] \in Nat
    BY <1>1 DEF ReferenceInv
  <2> QED
    BY <2>1, <2>2
<1> QED
  BY <1>1 DEF ReferenceInv

(* An update of the book of a token. *)
LEMMA BookUpdateKeeps ==
  ASSUME RunInv, wall' \in Nat, wall <= wall', NEW u, u.token \in Tokens, NEW new,
         IsUpdate(new, books[u.token], wall'), BookUpdate(u, new)
  PROVE  HeardInv' /\ BookInv' /\ ReferenceInv'
<1> DEFINE x == u.token
<1>1. x \in Tokens /\ x \in Tokens \cup Assets
  OBVIOUS
<1>2. /\ books' = [books EXCEPT ![x] = new] /\ heard' = [heard EXCEPT ![x] = wall']
      /\ reference' = reference
  BY DEF BookUpdate
<1>3. HeardInv /\ BookInv /\ ReferenceInv
  BY DEF RunInv
<1>4. IsUpdate(new, books[x], wall')
  OBVIOUS
<1> HIDE DEF x
<1>5. HeardInv' /\ heard'[x] = wall' /\ \A y \in Tokens \cup Assets : heard[y] <= heard'[y]
  BY <1>1, <1>2, <1>3, HeardNow
<1>6. heard \in [Tokens \cup Assets -> Nat] /\ heard' \in [Tokens \cup Assets -> Nat]
  BY <1>3, <1>5 DEF HeardInv
<1>7. ReferenceInv'
  BY <1>2, <1>3, <1>5, <1>6, ReferenceKept
<1>8. BookInv'
  <2>1. books \in [Tokens -> Books] /\ new \in Books
    BY <1>3, <1>4 DEF BookInv, IsUpdate
  <2>2. books' \in [Tokens -> Books]
    BY <1>2, <2>1
  <2>3. ASSUME NEW t \in Tokens
        PROVE  books'[t].token = t /\ \A r \in books'[t].recv : r <= heard'[t]
    <3>1. CASE t = x
      <4>1. books'[t] = new
        BY <1>1, <1>2, <2>1, <3>1
      <4>2. new.token = books[x].token /\ new.recv = {wall'} /\ books[x].token = x
        BY <1>1, <1>3, <1>4 DEF IsUpdate, BookInv
      <4> QED
        BY <1>5, <3>1, <4>1, <4>2
    <3>2. CASE t # x
      <4>1. books'[t] = books[t]
        BY <1>2, <2>1, <3>2
      <4>2. books[t].token = t /\ \A r \in books[t].recv : r <= heard[t]
        BY <1>3 DEF BookInv
      <4>3. books[t].recv \in SUBSET Nat
        BY <2>1, BookParts
      <4>4. heard[t] <= heard'[t] /\ heard[t] \in Nat /\ heard'[t] \in Nat
        BY <1>5, <1>6
      <4> QED
        BY <4>1, <4>2, <4>3, <4>4
    <3> QED
      BY <3>1, <3>2
  <2> QED
    BY <2>2, <2>3 DEF BookInv
<1> QED
  BY <1>5, <1>7, <1>8
LEMMA ReceiveKeeps ==
  ASSUME RunInv, NEW u \in Updates, NEW elapsed \in TimeSteps, Receive(u, elapsed)
  PROVE  RunInv'
<1>1. /\ wall' \in Nat /\ wall <= wall' /\ wall \in Nat
      /\ orders' = orders /\ Apply(u)
  <2>1. elapsed \in Nat /\ wall' = wall + elapsed /\ wall \in Nat
    BY NumbersAssumption DEF Receive, RunInv, HeardInv
  <2> QED
    BY <2>1 DEF Receive, executor, vars
<1>2. HeardInv /\ BookInv /\ ReferenceInv /\ OrdersInv
  BY DEF RunInv
<1>3. heard \in [Tokens \cup Assets -> Nat] /\ books \in [Tokens -> Books]
  BY <1>2 DEF HeardInv, BookInv
<1>4. ASSUME heard' = heard
      PROVE  /\ HeardInv'
             /\ heard' \in [Tokens \cup Assets -> Nat]
             /\ \A y \in Tokens \cup Assets : heard[y] <= heard'[y]
  BY <1>1, <1>2, <1>3, <1>4, HeardKept
<1>5. ASSUME heard' = heard, books' = books, reference' = reference
      PROVE  HeardInv' /\ BookInv' /\ ReferenceInv'
  BY <1>2, <1>3, <1>4, <1>5, BookKept, ReferenceKept
<1>6. HeardInv' /\ BookInv' /\ ReferenceInv'
  <2>1. CASE /\ u.type = "BookSnapshot"
             /\ BookUpdate(u, ApplySnapshot(books[u.token], u.bids, u.asks, wall'))
    <3>1. /\ u.token \in Tokens /\ \A p \in DOMAIN u.bids : u.bids[p] \in Nat
          /\ \A p \in DOMAIN u.asks : u.asks[p] \in Nat
      BY <2>1, UpdatesAssumption
    <3>2. IsUpdate(ApplySnapshot(books[u.token], u.bids, u.asks, wall'), books[u.token], wall')
      BY <1>1, <1>3, <3>1, SnapshotUpdates
    <3> QED
      BY <1>1, <2>1, <3>1, <3>2, BookUpdateKeeps
  <2>2. CASE /\ u.type = "BookDelta"
             /\ BookUpdate(u, ApplyDelta(books[u.token], u.bids, u.asks, wall'))
    <3>1. /\ u.token \in Tokens /\ \A p \in DOMAIN u.bids : u.bids[p] \in Nat
          /\ \A p \in DOMAIN u.asks : u.asks[p] \in Nat
      BY <2>2, UpdatesAssumption
    <3>2. IsUpdate(ApplyDelta(books[u.token], u.bids, u.asks, wall'), books[u.token], wall')
      BY <1>1, <1>3, <3>1, DeltaUpdates
    <3> QED
      BY <1>1, <2>2, <3>1, <3>2, BookUpdateKeeps
  <2>3. CASE /\ u.type = "BestBidAsk"
             /\ BookUpdate(u, ApplyBestBidAsk(books[u.token], u.bid, u.ask, wall'))
    <3>1. u.token \in Tokens /\ u.bid \in SUBSET (0..MaxPrice) /\ u.ask \in SUBSET (0..MaxPrice)
      BY <2>3, UpdatesAssumption
    <3>2. IsUpdate(ApplyBestBidAsk(books[u.token], u.bid, u.ask, wall'), books[u.token], wall')
      BY <1>1, <1>3, <3>1, HintUpdates
    <3> QED
      BY <1>1, <2>3, <3>1, <3>2, BookUpdateKeeps
  <2>4. CASE /\ u.type = "LastTrade"
             /\ books' = [books EXCEPT ![u.token] = RecordLastTrade(@, u.price, u.size, wall')]
             /\ UNCHANGED <<lifecycle, discovered, reference, positions, heard, winner>>
    <3>1. u.token \in Tokens /\ u.price \in 0..MaxPrice /\ u.size \in Nat
      BY <2>4, UpdatesAssumption
    <3> DEFINE x == u.token
               new == RecordLastTrade(books[x], u.price, u.size, wall')
    <3>2. new \in Books /\ new.token = books[x].token /\ new.recv = books[x].recv
      BY <1>1, <1>3, <3>1, TradeRecorded, ZenonT(60)
    <3>3. x \in Tokens /\ books' = [books EXCEPT ![x] = new] /\ heard' = heard
          /\ reference' = reference
      BY <2>4, <3>1
    <3> HIDE DEF x, new
    <3>4. books' \in [Tokens -> Books]
      BY <1>3, <3>2, <3>3
    <3>5. \A t \in Tokens : books'[t].token = books[t].token /\ books'[t].recv = books[t].recv
      BY <1>3, <3>2, <3>3
    <3>6. BookInv'
      BY <1>2, <3>3, <3>4, <3>5 DEF BookInv
    <3>7. ReferenceInv'
      BY <1>2, <1>3, <1>4, <3>3, ReferenceKept
    <3> QED
      BY <1>4, <3>3, <3>6, <3>7
  <2>5. CASE /\ u.type = "ReferenceTick"
             /\ reference' = [reference EXCEPT ![u.asset] = {wall'}]
             /\ heard' = [heard EXCEPT ![u.asset] = wall']
             /\ UNCHANGED <<books, lifecycle, discovered, positions, winner>>
    <3> DEFINE x == u.asset
    <3>1. /\ x \in Assets /\ x \in Tokens \cup Assets /\ books' = books
          /\ reference' = [reference EXCEPT ![x] = {wall'}] /\ heard' = [heard EXCEPT ![x] = wall']
      BY <2>5, UpdatesAssumption
    <3> HIDE DEF x
    <3>2. HeardInv' /\ heard'[x] = wall' /\ \A y \in Tokens \cup Assets : heard[y] <= heard'[y]
      BY <1>1, <1>2, <3>1, HeardNow
    <3>3. heard' \in [Tokens \cup Assets -> Nat]
      BY <3>2 DEF HeardInv
    <3>4. BookInv'
      BY <1>2, <1>3, <3>1, <3>2, <3>3, BookKept
    <3>5. reference' \in [Assets -> SUBSET Nat]
      BY <1>1, <1>2, <3>1 DEF ReferenceInv
    <3>6. ASSUME NEW a \in Assets, NEW r \in reference'[a] PROVE r <= heard'[a]
      <4>1. CASE a = x
        BY <1>1, <1>2, <3>1, <3>2, <3>6, <4>1 DEF ReferenceInv
      <4>2. CASE a # x
        <5>1. r \in reference[a] /\ r \in Nat
          BY <1>2, <3>1, <3>6, <4>2 DEF ReferenceInv
        <5>2. r <= heard[a] /\ heard[a] <= heard'[a] /\ heard[a] \in Nat /\ heard'[a] \in Nat
          BY <1>2, <1>3, <3>2, <3>3, <5>1 DEF ReferenceInv
        <5> QED
          BY <5>1, <5>2
      <4> QED
        BY <4>1, <4>2
    <3>7. ReferenceInv'
      BY <3>5, <3>6 DEF ReferenceInv
    <3> QED
      BY <3>2, <3>4, <3>7
  <2>6. CASE UNCHANGED <<books, reference, heard>>
    BY <1>5, <2>6
  <2> QED
    BY <1>1, <2>1, <2>2, <2>3, <2>4, <2>5, <2>6 DEF Apply
<1>7. OrdersInv'
  BY <1>1, <1>2 DEF OrdersInv
<1>8. \A markets : Known(markets) \subseteq DOMAIN MarketIds
  BY DEF Known
<1>9. \A t : Resting(t) \subseteq DOMAIN orders
  BY DEF Resting
<1>10. \/ step' = "evaluate" /\ \E markets : todo' = Known(markets)
       \/ step' = "simulate" /\ \E t : todo' = Resting(t)
       \/ step' = "mark"
  BY <1>1 DEF Apply, BookUpdate
<1>11. TodoInv'
  BY <1>1, <1>8, <1>9, <1>10 DEF TodoInv
<1> QED
  BY <1>6, <1>7, <1>11 DEF RunInv

-----------------------------------------------------------------------------
(* Any sequence is one over what is in it. *)
LEMMA SeqOfItsOwn ==
  ASSUME NEW S, NEW s \in Seq(S)
  PROVE  s \in Seq({s[n] : n \in DOMAIN s})
<1> DEFINE T == {s[n] : n \in DOMAIN s}
<1>1. Len(s) \in Nat /\ DOMAIN s = 1..Len(s) /\ s = [n \in 1..Len(s) |-> s[n]]
  OBVIOUS
<1>2. \A n \in 1..Len(s) : s[n] \in T
  BY <1>1
<1> HIDE DEF T
<1>3. s \in [1..Len(s) -> T]
  BY <1>1, <1>2
<1>4. s \in Seq(T)
  BY <1>1, <1>3
<1> QED
  BY <1>4 DEF T

(* What the executor does to the list of orders: it replaces one by an     *)
(* order of the same token, or appends one.                                *)
LEMMA SameTokenKeeps ==
  ASSUME OrdersInv, NEW o \in DOMAIN orders, NEW new,
         orders' = [orders EXCEPT ![o] = new], IsOrder(new)
  PROVE  OrdersInv' /\ Len(orders') = Len(orders) /\ DOMAIN orders' = DOMAIN orders
<1>1. orders \in Seq({orders[n] : n \in DOMAIN orders}) /\ \A n \in DOMAIN orders : IsOrder(orders[n])
  BY DEF OrdersInv
<1>2. /\ DOMAIN orders = 1..Len(orders) /\ Len(orders) \in Nat
      /\ DOMAIN orders' = DOMAIN orders /\ Len(orders') = Len(orders)
      /\ orders'[o] = new /\ \A n \in DOMAIN orders \ {o} : orders'[n] = orders[n]
  BY <1>1
<1> DEFINE S == {orders[n] : n \in DOMAIN orders} \cup {new}
<1>3. orders' \in Seq(S)
  BY <1>1
<1> HIDE DEF S
<1>4. orders' \in Seq({orders'[n] : n \in DOMAIN orders'})
  <2>1. \A s \in Seq(S) : s \in Seq({s[n] : n \in DOMAIN s})
    BY SeqOfItsOwn
  <2>2. PICK s \in Seq(S) : s = orders'
    BY <1>3
  <2>3. s \in Seq({s[n] : n \in DOMAIN s})
    BY <2>1
  <2> QED
    BY <2>2, <2>3, Zenon
<1>5. \A n \in DOMAIN orders' : IsOrder(orders'[n])
  BY <1>1, <1>2
<1> QED
  BY <1>2, <1>4, <1>5 DEF OrdersInv

LEMMA AppendKeeps ==
  ASSUME OrdersInv, NEW new, orders' = Append(orders, new), IsOrder(new)
  PROVE  /\ OrdersInv' /\ Len(orders') = Len(orders) + 1
         /\ orders'[Len(orders')] = new
<1>1. orders \in Seq({orders[n] : n \in DOMAIN orders}) /\ \A n \in DOMAIN orders : IsOrder(orders[n])
  BY DEF OrdersInv
<1>2. /\ DOMAIN orders = 1..Len(orders) /\ Len(orders) \in Nat
      /\ DOMAIN orders' = 1..(Len(orders) + 1) /\ Len(orders') = Len(orders) + 1
      /\ orders'[Len(orders) + 1] = new /\ \A n \in DOMAIN orders : orders'[n] = orders[n]
  BY <1>1
<1>3. orders' \in Seq({orders[n] : n \in DOMAIN orders} \cup {new})
  BY <1>1
<1>4. orders' \in Seq({orders'[n] : n \in DOMAIN orders'})
  BY <1>3, SeqOfItsOwn
<1>5. \A n \in DOMAIN orders' : IsOrder(orders'[n])
  BY <1>1, <1>2
<1> QED
  BY <1>2, <1>4, <1>5 DEF OrdersInv
LEMMA CreditedIsOrder ==
  ASSUME NEW order, IsOrder(order), NEW more
  PROVE  /\ IsOrder(Credited(order, more))
         /\ Credited(order, more).token = order.token
<1> DEFINE filled == order.filled + more
           status == IF filled = order.size THEN "Filled" ELSE "PartiallyFilled"
<1>1. Credited(order, more) = [order EXCEPT !.filled = filled, !.status = status]
  BY DEF Credited
<1> HIDE DEF filled, status
<1>2. DOMAIN order = OrderFields
  BY DEF IsOrder
<1> QED
  BY <1>1, <1>2 DEF IsOrder, OrderFields

LEMMA TakenIsOrder ==
  ASSUME NEW order, IsOrder(order), NEW o, NEW book
  PROVE  /\ IsOrder(TakeFrom(order, o, book).order)
         /\ TakeFrom(order, o, book).order.token = order.token
<1> DEFINE size == TakerSize(Opposite(book, order.side), order.side, order.price,
                                  Remaining(order))
<1>1. TakeFrom(order, o, book).order
        = IF size = 0 THEN order ELSE Credited(order, size)
  BY DEF TakeFrom
<1> HIDE DEF size
<1> QED
  BY <1>1, CreditedIsOrder

LEMMA BuiltIsOrder ==
  ASSUME NEW i, i.token \in Tokens, i.side = "Buy", NEW status
  PROVE  IsOrder(BuildOrder(i, status)) /\ BuildOrder(i, status).token = i.token
BY DEF BuildOrder, IsOrder, OrderFields

LEMMA OpenAppends ==
  ASSUME NEW i, i.token \in Tokens, i.side = "Buy", NEW book, OpenPaperOrder(i, book)
  PROVE  \E new : orders' = Append(orders, new) /\ IsOrder(new) /\ new.token = i.token
<1>1. CASE RejectApproved(i)
  BY <1>1, BuiltIsOrder DEF RejectApproved
<1>2. CASE OpenMaker(i, book)
  BY <1>2, BuiltIsOrder DEF OpenMaker
<1>3. CASE OpenTaker(i, book)
  <2> DEFINE order == BuildOrder(i, "Open")
  <2>1. IsOrder(order) /\ order.token = i.token
    BY BuiltIsOrder
  <2>2. orders' = Append(orders, TakeFrom(order, NewId, book).order)
    BY <1>3 DEF OpenTaker
  <2> HIDE DEF order
  <2> QED
    BY <2>1, <2>2, TakenIsOrder
<1> QED
  BY <1>1, <1>2, <1>3 DEF OpenPaperOrder

LEMMA SimulateReplaces ==
  ASSUME OrdersInv, NEW o \in DOMAIN orders, NEW book, SimulateFill(o, book)
  PROVE  \E new : orders' = [orders EXCEPT ![o] = new] /\ IsOrder(new)
<1>1. IsOrder(orders[o])
  BY DEF OrdersInv
<1>2. CASE SimulateTakerFill(o, book)
  BY <1>1, <1>2, TakenIsOrder DEF SimulateTakerFill
<1>3. CASE SimulateMakerFill(o, book)
  <2>1. \/ orders' = [orders EXCEPT ![o] = orders[o]]
        \/ \E size : orders' = [orders EXCEPT ![o] = Credited(orders[o], size)]
    BY <1>3 DEF SimulateMakerFill
  <2> QED
    BY <1>1, <2>1, CreditedIsOrder
<1> QED
  BY <1>2, <1>3 DEF SimulateFill

-----------------------------------------------------------------------------
(* The orders that may be opened for a market. *)
LEMMA CandidatesAre ==
  ASSUME NEW m \in Markets, NEW i \in Candidates(m)
  PROVE  /\ i.token \in TokensOf[m] /\ i.token \in Tokens /\ i.side = "Buy"
         /\ MarketOf(i.token) = m /\ AssetOf[m] \in Assets
<1>1. PICK t \in TokensOf[m] : i \in MakerCandidates(t) \cup TakerCandidates(t)
  BY DEF Candidates
<1>2. i.token = t /\ i.side = "Buy"
  BY <1>1 DEF MakerCandidates, TakerCandidates
<1>3. t \in Tokens /\ AssetOf[m] \in Assets
  BY MarketsAssumption DEF Assets
<1>4. MarketOf(t) = m
  BY MarketsAssumption DEF MarketOf
<1> QED
  BY <1>2, <1>3, <1>4

LEMMA TodoIsThere ==
  ASSUME RunInv, todo # {}
  PROVE  /\ step = "evaluate" => Min(todo) \in DOMAIN MarketIds /\ MarketIds[Min(todo)] \in Markets
         /\ step = "simulate" => Min(todo) \in DOMAIN orders
<1>1. ASSUME NEW k \in Nat, todo \subseteq 1..k PROVE Min(todo) \in todo
  <2>1. todo \in SUBSET (0..k)
    BY <1>1
  <2> QED
    BY <2>1, MinOfRange
<1>2. CASE step = "evaluate"
  <2>1. MarketIds \in Seq(Markets)
    BY MarketsAssumption, Zenon
  <2>2. /\ DOMAIN MarketIds = 1..Len(MarketIds) /\ Len(MarketIds) \in Nat
        /\ \A n \in DOMAIN MarketIds : MarketIds[n] \in Markets
    BY <2>1
  <2>3. todo \subseteq DOMAIN MarketIds
    BY <1>2 DEF RunInv, TodoInv
  <2>4. Min(todo) \in DOMAIN MarketIds
    BY <1>1, <2>2, <2>3
  <2> QED
    BY <1>2, <2>2, <2>4
<1>3. CASE step = "simulate"
  <2>1. todo \subseteq 1..Len(orders) /\ Len(orders) \in Nat /\ DOMAIN orders = 1..Len(orders)
    BY <1>3 DEF RunInv, TodoInv, OrdersInv
  <2> QED
    BY <1>1, <1>3, <2>1
<1> QED
  BY <1>2, <1>3
-----------------------------------------------------------------------------
(* Every step keeps the invariant. *)
DataSame == UNCHANGED <<books, reference, heard, wall>>

LEMMA DataKept ==
  ASSUME RunInv, DataSame
  PROVE  HeardInv' /\ BookInv' /\ ReferenceInv'
<1>1. books' = books /\ reference' = reference /\ heard' = heard /\ wall' = wall
  BY DEF DataSame
<1>2. HeardInv'
  BY <1>1 DEF RunInv, HeardInv
<1>3. BookInv'
  BY <1>1 DEF RunInv, BookInv
<1>4. ReferenceInv'
  BY <1>1 DEF RunInv, ReferenceInv
<1> QED
  BY <1>2, <1>3, <1>4

LEMMA RunKept ==
  ASSUME RunInv, DataSame, orders' = orders,
         (step' = step /\ todo' \subseteq todo) \/ step' \notin {"evaluate", "simulate"}
  PROVE  RunInv'
<1>1. OrdersInv'
  BY DEF RunInv, OrdersInv
<1>2. TodoInv'
  BY DEF RunInv, TodoInv
<1> QED
  BY <1>1, <1>2, DataKept DEF RunInv

LEMMA SimulateKeeps ==
  ASSUME RunInv, SimulateNext
  PROVE  RunInv' /\ Len(orders') = Len(orders)
<1>0. Len(orders) \in Nat /\ OrdersInv
  BY DEF RunInv, OrdersInv
<1>1. step = "simulate" /\ step' = step /\ todo # {} /\ todo' = todo \ {Min(todo)} /\ DataSame
  BY DEF SimulateNext, DataSame, store, clock
<1>2. Min(todo) \in DOMAIN orders
  BY <1>1, TodoIsThere
<1>3. CASE orders' = orders
  BY <1>1, <1>3, RunKept
<1>4. CASE \E book : SimulateFill(Min(todo), book)
  <2>1. PICK new : orders' = [orders EXCEPT ![Min(todo)] = new] /\ IsOrder(new)
    BY <1>0, <1>2, <1>4, SimulateReplaces
  <2>2. OrdersInv' /\ Len(orders') = Len(orders) /\ DOMAIN orders' = DOMAIN orders
    BY <1>0, <1>2, <2>1, SameTokenKeeps
  <2>3. TodoInv'
    BY <1>1, <2>2 DEF RunInv, TodoInv
  <2> QED
    BY <1>1, <2>2, <2>3, DataKept DEF RunInv
<1> QED
  BY <1>3, <1>4 DEF SimulateNext, executor, vars

LEMMA EvaluateKeeps ==
  ASSUME RunInv, Evaluate
  PROVE  /\ RunInv'
         /\ \/ Len(orders') = Len(orders)
            \/ /\ Len(orders') = Len(orders) + 1 /\ Len(orders) \in Nat
               /\ \E m \in Markets : \E i \in Candidates(m) :
                     /\ Approved(i, m) /\ OpenPaperOrder(i, books[i.token])
                     /\ orders'[Len(orders')].token = i.token
<1>0. Len(orders) \in Nat /\ OrdersInv /\ DOMAIN orders = 1..Len(orders)
  BY DEF RunInv, OrdersInv
<1> DEFINE m == MarketIds[Min(todo)]
<1>1. /\ step = "evaluate" /\ step' = step /\ todo # {} /\ todo' = todo \ {Min(todo)} /\ DataSame
      /\ NoOrder(m) \/ \E i \in Candidates(m) : OpenOrder(i, m)
  BY DEF Evaluate, DataSame, store, clock
<1>2. m \in Markets
  BY <1>1, TodoIsThere
<1> HIDE DEF m
<1>3. CASE orders' = orders
  BY <1>1, <1>3, RunKept, SMTT(60)
<1>4. CASE \E i \in Candidates(m) : OpenOrder(i, m)
  <2>1. PICK i \in Candidates(m) : Approved(i, m) /\ OpenPaperOrder(i, books[i.token])
    BY <1>4 DEF OpenOrder
  <2>2. i.token \in Tokens /\ i.side = "Buy"
    BY <1>2, <2>1, CandidatesAre
  <2>3. PICK new : orders' = Append(orders, new) /\ IsOrder(new) /\ new.token = i.token
    BY <2>1, <2>2, OpenAppends
  <2>4. OrdersInv' /\ Len(orders') = Len(orders) + 1 /\ orders'[Len(orders')] = new
    BY <1>0, <2>3, AppendKeeps
  <2>5. TodoInv'
    BY <1>1 DEF RunInv, TodoInv
  <2> QED
    BY <1>0, <1>1, <1>2, <2>1, <2>3, <2>4, <2>5, DataKept DEF RunInv
<1> QED
  BY <1>1, <1>3, <1>4 DEF NoOrder, executor, vars

LEMMA RunInvNext == RunInv /\ [RunNext]_runVars => RunInv'
<1> SUFFICES ASSUME RunInv, [RunNext]_runVars PROVE RunInv'
  OBVIOUS
<1>1. ASSUME NEW u \in Updates, NEW elapsed \in TimeSteps, Receive(u, elapsed) PROVE RunInv'
  BY <1>1, ReceiveKeeps
<1>2. CASE SimulateNext
  BY <1>2, SimulateKeeps
<1>3. CASE Evaluate
  BY <1>3, EvaluateKeeps
<1>4. CASE SimulateDone
  BY <1>4, RunKept DEF SimulateDone, DataSame, executor, vars, store, clock
<1>5. CASE EvaluateDone
  BY <1>5, RunKept DEF EvaluateDone, DataSame, executor, vars, store, clock
<1>6. CASE MarkPositions
  BY <1>6, RunKept DEF MarkPositions, DataSame, executor, vars, store, clock
<1>7. CASE UNCHANGED runVars
  BY <1>7, RunKept DEF runVars, DataSame, executor, vars, store, clock
<1> QED
  BY <1>1, <1>2, <1>3, <1>4, <1>5, <1>6, <1>7 DEF RunNext, Finished

(* An order that is opened, whatever the events before it were. *)
LEMMA OpensFresh ==
  ASSUME RunInv, [RunNext]_runVars, Opens
  PROVE  /\ wall - heard[NewToken] <= StaleBook
         /\ wall - heard[AssetOf[MarketOf(NewToken)]] <= StaleReference
<1>0. /\ Len(orders) \in Nat /\ Len(orders') > Len(orders)
      /\ HeardInv /\ BookInv /\ ReferenceInv
  BY DEF RunInv, OrdersInv, Opens
<1>1. orders' # orders
  BY <1>0
<1>2. ~ SimulateNext
  BY <1>0, SimulateKeeps
<1>3. Evaluate
  BY <1>1, <1>2 DEF RunNext, Receive, SimulateDone, EvaluateDone, MarkPositions, Finished, runVars,
                    executor, vars
<1>4. PICK m \in Markets : \E i \in Candidates(m) :
        Approved(i, m) /\ orders'[Len(orders')].token = i.token
  BY <1>0, <1>3, EvaluateKeeps
<1>5. PICK i \in Candidates(m) : Approved(i, m) /\ orders'[Len(orders')].token = i.token
  BY <1>4
<1>6. /\ i.token \in Tokens /\ MarketOf(i.token) = m /\ AssetOf[m] \in Assets
  BY <1>5, CandidatesAre
<1>7. PICK r \in books[i.token].recv : wall - r <= StaleBook
  BY <1>5 DEF Approved, BookFresh, Fresh
<1>8. PICK q \in reference[AssetOf[m]] : wall - q <= StaleReference
  BY <1>5 DEF Approved, ReferenceFresh, Fresh
<1>9. r \in Nat /\ r <= heard[i.token] /\ heard[i.token] \in Nat
  BY <1>0, <1>6, <1>7, BookParts DEF BookInv, HeardInv
<1>10. q \in Nat /\ q <= heard[AssetOf[m]] /\ heard[AssetOf[m]] \in Nat
  BY <1>0, <1>6, <1>8 DEF ReferenceInv, HeardInv
<1>11. wall \in Nat /\ StaleBook \in Nat /\ StaleReference \in Nat
  BY <1>0, NumbersAssumption DEF HeardInv
<1>12. NewToken = i.token
  BY <1>5 DEF NewToken
<1> QED
  BY <1>6, <1>7, <1>8, <1>9, <1>10, <1>11, <1>12

THEOREM RunInvariance == RunSpec => []RunInv
BY RunInvInit, RunInvNext, PTL DEF RunSpec

(* Nothing but news of a token's book and of its asset's reference price   *)
(* makes them fresh: whatever else the feeds deliver in between, an order  *)
(* is opened only if both were heard of within the staleness limits.       *)
THEOREM OpensOnlyOnFreshData == RunSpec => OpensOnFreshData
<1>1. RunInv /\ [RunNext]_runVars =>
        [Opens => /\ wall - heard[NewToken] <= StaleBook
                  /\ wall - heard[AssetOf[MarketOf(NewToken)]] <= StaleReference]_runVars
  BY OpensFresh
<1> QED
  BY RunInvariance, <1>1, PTL DEF RunSpec, OpensOnFreshData
-----------------------------------------------------------------------------
(* The executor in a run.  It is given intents and books of the kinds that *)
(* PaperExecutor asks for, and asked for nothing else.                     *)

(* What a taker pass takes from a level is a number, and so is its cost. *)
LEMMA TakenFromLevel ==
  ASSUME NEW levels \in [0..MaxPrice -> Nat], NEW limit, NEW p \in 0..MaxPrice
  PROVE  Take(levels, "Buy", limit, OrderSize)[p] \in Nat
<1> DEFINE better == {q \in Executable("Buy", limit) : q < p}
           depth == SumFunctionOnSet(levels, better)
           left == OrderSize - depth
<1>1. better \in SUBSET (0..MaxPrice) /\ IsFiniteSet(0..MaxPrice)
  BY MaxPriceAssumption, FS_Interval DEF Executable, Prices
<1>2. IsFiniteSet(better) /\ \A q \in better : levels[q] \in Nat
  <2> HIDE DEF better
  <2> QED
    BY <1>1, FS_Subset
<1>3. depth \in Nat
  <2> HIDE DEF better
  <2> QED
    BY <1>2, SumNat
<1>4. Take(levels, "Buy", limit, OrderSize)[p]
        = IF p \in Executable("Buy", limit) /\ left > 0 THEN Min({left, levels[p]}) ELSE 0
  BY DEF Take, Prices, SumLevels
<1>5. left \in Int /\ levels[p] \in Nat
  BY <1>3, NumbersAssumption
<1> HIDE DEF left
<1>6. left > 0 => Min({left, levels[p]}) \in Nat
  BY <1>5, MinPair
<1> QED
  BY <1>4, <1>6

LEMMA CostType ==
  ASSUME NEW t, books[t] \in Books
  PROVE  TakerCost(t) \in Int
<1> DEFINE by == Take(books[t].asks, "Buy", MaxPrice - 1, OrderSize)
           cost == [p \in 0..MaxPrice |-> p * by[p]]
<1>1. books[t].asks \in [0..MaxPrice -> Nat]
  BY BookParts
<1>2. \A p \in 0..MaxPrice : by[p] \in Nat
  BY <1>1, TakenFromLevel
<1> HIDE DEF by
<1>3. \A p \in 0..MaxPrice : cost[p] \in Int
  <2>1. \A p \in 0..MaxPrice : p * by[p] \in Int
    BY <1>2
  <2> QED
    BY <2>1
<1>4. IsFiniteSet(0..MaxPrice)
  BY MaxPriceAssumption, FS_Interval
<1>5. SumFunctionOnSet(cost, 0..MaxPrice) \in Int
  <2> HIDE DEF cost
  <2> QED
    BY <1>3, <1>4, SumType
<1> QED
  BY <1>5 DEF TakerCost, Prices, cost, by

(* The best bid is a price. *)
LEMMA BestBidIsPrice ==
  ASSUME NEW book \in Books
  PROVE  BestBid(book) \subseteq 0..MaxPrice
<1>1. /\ book.bids \in [0..MaxPrice -> Nat] /\ book.bidHint \subseteq 0..MaxPrice
      /\ MaxPrice \in Nat
  BY BookParts, MaxPriceAssumption
<1> DEFINE depth == WithDepth(book.bids)
<1>2. depth \in SUBSET (0..MaxPrice)
  BY <1>1 DEF WithDepth
<1>3. depth # {} => Max(depth) \in depth
  <2> HIDE DEF depth
  <2> QED
    BY <1>1, <1>2, MaxOfRange
<1> QED
  BY <1>1, <1>2, <1>3 DEF BestBid

LEMMA CandidatesAreIntents ==
  ASSUME RunInv, NEW m \in Markets, NEW i \in Candidates(m)
  PROVE  i \in Intents
<1>1. PICK t \in TokensOf[m] : i \in MakerCandidates(t) \cup TakerCandidates(t)
  BY DEF Candidates
<1>2. t \in Tokens
  BY MarketsAssumption
<1>3. books[t] \in Books
  BY <1>2 DEF RunInv, BookInv
<1>4. OrderSize \in Nat \ {0}
  BY NumbersAssumption
<1>5. CASE i \in MakerCandidates(t)
  <2>1. PICK bid \in BestBid(books[t]) :
          i = [token |-> t, side |-> "Buy", kind |-> "Maker", price |-> bid + 1,
               size |-> OrderSize, notional |-> (bid + 1) * OrderSize]
    BY <1>5 DEF MakerCandidates
  <2>2. bid \in Int
    BY <1>3, BestBidIsPrice
  <2>3. bid + 1 \in Int /\ (bid + 1) * OrderSize \in Int
    BY <1>4, <2>2
  <2> QED
    BY <1>2, <1>4, <2>1, <2>3 DEF Intents, Sides, Kinds
<1>6. CASE i \in TakerCandidates(t)
  <2>1. i = [token |-> t, side |-> "Buy", kind |-> "Taker",
             price |-> TakerCost(t) \div OrderSize, size |-> OrderSize, notional |-> TakerCost(t)]
    BY <1>6 DEF TakerCandidates
  <2>2. TakerCost(t) \in Int
    BY <1>3, CostType
  <2>3. TakerCost(t) \div OrderSize \in Int
    BY <1>4, <2>2, DivMod
  <2> HIDE DEF TakerCost
  <2> QED
    BY <1>2, <1>4, <2>1, <2>2, <2>3 DEF Intents, Sides, Kinds
<1> QED
  BY <1>1, <1>5, <1>6

LEMMA ExecutorStep == RunInv /\ [RunNext]_runVars => [Next]_vars
<1> SUFFICES ASSUME RunInv, [RunNext]_runVars PROVE Next \/ UNCHANGED vars
  OBVIOUS
<1>0. UNCHANGED executor => UNCHANGED vars
  BY DEF executor, vars
<1>1. CASE SimulateNext
  <2>1. Min(todo) \in DOMAIN orders
    BY <1>1, TodoIsThere DEF SimulateNext
  <2>2. books[orders[Min(todo)].token] \in Books
    BY <2>1 DEF RunInv, OrdersInv, IsOrder, BookInv
  <2>3. CASE UNCHANGED executor
    BY <1>0, <2>3
  <2>4. CASE SimulateFill(Min(todo), books[orders[Min(todo)].token])
    BY <2>1, <2>2, <2>4 DEF Next
  <2> QED
    BY <1>1, <2>3, <2>4 DEF SimulateNext
<1>2. CASE Evaluate
  <2>1. CASE UNCHANGED executor
    BY <1>0, <2>1
  <2>2. CASE \E i \in Candidates(MarketIds[Min(todo)]) : OpenOrder(i, MarketIds[Min(todo)])
    <3>1. MarketIds[Min(todo)] \in Markets
      BY <1>2, TodoIsThere DEF Evaluate
    <3>2. PICK i \in Candidates(MarketIds[Min(todo)]) : OpenPaperOrder(i, books[i.token])
      BY <2>2 DEF OpenOrder
    <3>3. i \in Intents /\ books[i.token] \in Books
      BY <3>1, <3>2, CandidatesAreIntents, CandidatesAre DEF RunInv, BookInv
    <3> QED
      BY <3>2, <3>3 DEF Next
  <2> QED
    BY <1>2, <2>1, <2>2 DEF Evaluate, NoOrder
<1>3. CASE UNCHANGED executor
  BY <1>0, <1>3
<1> QED
  BY <1>1, <1>2, <1>3 DEF RunNext, Receive, SimulateDone, EvaluateDone, MarkPositions, Finished, runVars

(* The run implements the executor: whatever the feeds deliver, what it    *)
(* asks of open_paper_order and simulate_existing_order_fills is a         *)
(* behaviour of PaperExecutor over intents and books that meet its         *)
(* assumptions, and the theorems about it hold of the run's orders.        *)
THEOREM RunsTheExecutor == RunSpec => Spec
<1>1. RunInit => Init
  BY DEF RunInit
<1> QED
  BY RunInvariance, <1>1, ExecutorStep, PTL DEF RunSpec, Spec
-----------------------------------------------------------------------------
(* Money and positions.  The executions that the executor has emitted, the *)
(* sizes its orders say they filled and the positions are three accounts;  *)
(* money is counted from the executions.                                   *)

(* What an execution on one side of the book brings in or costs. *)
Flow(side, x) ==
  LET flow == SumFunctionOnSet([p \in Prices |-> p * x.by[p]], Prices)
      fees == IF x.liquidity = "Maker" THEN 0
              ELSE SumFunctionOnSet([p \in Prices |-> x.by[p] * TakerFee[p]], Prices)
  IN (IF side = "Buy" THEN -flow ELSE flow) - fees
SignedSize(side, size) == IF side = "Buy" THEN size ELSE -size

LEMMA FillsPay ==
  ASSUME NEW side \in Sides, NEW x \in Execution
  PROVE  /\ Flow(side, x) \in Int
         /\ SumOf(SizesOf(FillsOf(side, x))) = SignedSize(side, SumLevels(x.by, Prices))
         /\ SumOf(PaidIn(FillsOf(side, x))) = -Flow(side, x)
<1> DEFINE all == FillsOf(side, x)
           value == [p \in Prices |-> p * x.by[p]]
           charge == [p \in Prices |-> x.by[p] * TakerFee[p]]
           sizeAt == [p \in Prices |-> SignedSize(side, x.by[p])]
           costAt == [p \in Prices |-> SignedSize(side, p * x.by[p])]
           feeAt == [p \in Prices |-> Fee(x.liquidity, x.by[p], p)]
           paidAt == [p \in Prices |-> costAt[p] + feeAt[p]]
<1>1. \A p \in Prices : p \in Int /\ x.by[p] \in Nat /\ TakerFee[p] \in Nat
  BY MaxPriceAssumption, FeeAssumption DEF Prices, Execution, Levels
<1>2. \A a, b \in Int : a * b \in Int
  OBVIOUS
<1>3. \A p \in Prices : /\ value[p] = p * x.by[p] /\ value[p] \in Int
                        /\ charge[p] = x.by[p] * TakerFee[p] /\ charge[p] \in Int
  BY <1>1, <1>2
<1>4. \A p \in Prices : /\ sizeAt[p] = SignedSize(side, x.by[p]) /\ sizeAt[p] \in Int
                        /\ costAt[p] = SignedSize(side, value[p]) /\ costAt[p] \in Int
                        /\ feeAt[p] = (IF x.liquidity = "Maker" THEN 0 ELSE charge[p])
                        /\ feeAt[p] \in Int
                        /\ paidAt[p] = costAt[p] + feeAt[p]
  BY <1>1, <1>3 DEF SignedSize, Fee
<1>5. \A p \in Prices : x.by[p] = 0 => sizeAt[p] = 0 /\ paidAt[p] = 0
  <2> SUFFICES ASSUME NEW p \in Prices, x.by[p] = 0 PROVE sizeAt[p] = 0 /\ paidAt[p] = 0
    OBVIOUS
  <2>1. value[p] = 0 /\ charge[p] = 0
    BY <1>1, <1>3
  <2> HIDE DEF value, charge, sizeAt, costAt, feeAt, paidAt
  <2> QED
    BY <1>4, <2>1 DEF SignedSize
<1>6. PICK f \in Seq(TakenPrices(x)) :
         /\ \A m, n \in 1..Len(f) : m # n => f[m] # f[n]
         /\ {f[n] : n \in 1..Len(f)} = TakenPrices(x)
         /\ all = [n \in 1..Len(f) |-> FillAt(side, x, f[n])]
  BY FillsOfEach
<1>7. \A n \in DOMAIN all : /\ all[n] = FillAt(side, x, all[n].price) /\ all[n].price \in Prices
  <2>1. \A n \in 1..Len(f) : f[n] \in Prices
    BY DEF TakenPrices, Execution, Levels
  <2> QED
    BY <1>6, <2>1 DEF FillAt
<1>8. \A n \in DOMAIN all : /\ SizesOf(all)[n] = sizeAt[all[n].price]
                            /\ PaidIn(all)[n] = paidAt[all[n].price]
  <2> SUFFICES ASSUME NEW n \in DOMAIN all
               PROVE  /\ SizesOf(all)[n] = sizeAt[all[n].price]
                      /\ PaidIn(all)[n] = paidAt[all[n].price]
    OBVIOUS
  <2> DEFINE p == all[n].price
             fill == FillAt(side, x, p)
  <2>1. p \in Prices /\ all[n] = fill
    BY <1>7
  <2>2. SizesOf(all)[n] = all[n].size /\ PaidIn(all)[n] = all[n].size * all[n].price + all[n].fee
    BY DEF SizesOf, PaidIn
  <2> HIDE DEF p, all
  <2>3. fill.size = SignedSize(side, x.by[p]) /\ fill.price = p /\ fill.fee = Fee(x.liquidity, x.by[p], p)
    BY DEF FillAt, SignedSize
  <2>4. SignedSize(side, x.by[p]) * p = SignedSize(side, p * x.by[p])
    BY <1>1, <2>1 DEF SignedSize
  <2>5. sizeAt[p] = SignedSize(side, x.by[p]) /\ costAt[p] = SignedSize(side, p * x.by[p])
        /\ feeAt[p] = Fee(x.liquidity, x.by[p], p) /\ paidAt[p] = costAt[p] + feeAt[p]
    BY <2>1
  <2> HIDE DEF fill, sizeAt, costAt, feeAt, paidAt
  <2>6. SizesOf(all)[n] = sizeAt[p] /\ PaidIn(all)[n] = paidAt[p]
    BY <2>1, <2>2, <2>3, <2>4, <2>5
  <2> QED
    BY <2>6 DEF p
<1>9. DOMAIN SizesOf(all) = DOMAIN all /\ DOMAIN PaidIn(all) = DOMAIN all
  BY DEF SizesOf, PaidIn
<1> HIDE DEF value, charge, sizeAt, costAt, feeAt, paidAt
<1>10. SumOf(SizesOf(all)) = SumFunctionOnSet(sizeAt, Prices)
  BY <1>4, <1>5, <1>8, <1>9, FillsOfSum, SMTT(60) DEF SumOf
<1>11. SumOf(PaidIn(all)) = SumFunctionOnSet(paidAt, Prices)
  <2>1. \A p \in Prices : paidAt[p] \in Int
    BY <1>4
  <2> QED
    BY <1>5, <1>8, <1>9, <2>1, FillsOfSum DEF SumOf
<1>12. SumFunctionOnSet(paidAt, Prices) = SumFunctionOnSet(costAt, Prices) + SumFunctionOnSet(feeAt, Prices)
  <2>1. IsSum(paidAt, costAt, feeAt, Prices)
    BY <1>4 DEF IsSum
  <2> QED
    BY <2>1, PricesFinite, SumBoth
<1>13. /\ SumFunctionOnSet(value, Prices) \in Int
       /\ SumFunctionOnSet(charge, Prices) \in Int
       /\ SumFunctionOnSet(x.by, Prices) \in Int
  <2>1. /\ \A p \in Prices : value[p] \in Int
        /\ \A p \in Prices : charge[p] \in Int
        /\ \A p \in Prices : x.by[p] \in Int
    BY <1>1, <1>3
  <2> QED
    BY <2>1, PricesFinite, SumType
<1>14. SumFunctionOnSet(feeAt, Prices)
         = (IF x.liquidity = "Maker" THEN 0 ELSE SumFunctionOnSet(charge, Prices))
  <2>1. CASE x.liquidity = "Maker"
    <3>1. \A p \in Prices : feeAt[p] = 0
      BY <1>4, <2>1
    <3> QED
      BY <2>1, <3>1, PricesFinite, SumZero
  <2>2. CASE x.liquidity # "Maker"
    <3>1. \A p \in Prices : feeAt[p] \in Int /\ feeAt[p] = charge[p]
      BY <1>4, <2>2
    <3> QED
      BY <2>2, <3>1, PricesFinite, SumSame
  <2> QED
    BY <2>1, <2>2
<1>15. /\ SumFunctionOnSet(costAt, Prices) = SignedSize(side, SumFunctionOnSet(value, Prices))
       /\ SumFunctionOnSet(sizeAt, Prices) = SignedSize(side, SumFunctionOnSet(x.by, Prices))
  <2>1. CASE side = "Buy"
    <3>1. /\ \A p \in Prices : costAt[p] \in Int /\ costAt[p] = value[p]
          /\ \A p \in Prices : sizeAt[p] \in Int /\ sizeAt[p] = x.by[p]
      BY <1>4, <2>1 DEF SignedSize
    <3>2. /\ SumFunctionOnSet(costAt, Prices) = SumFunctionOnSet(value, Prices)
          /\ SumFunctionOnSet(sizeAt, Prices) = SumFunctionOnSet(x.by, Prices)
      BY <3>1, PricesFinite, SumSame
    <3> QED
      BY <2>1, <3>2 DEF SignedSize
  <2>2. CASE side # "Buy"
    <3>1. /\ \A p \in Prices : value[p] \in Int /\ costAt[p] = -value[p]
          /\ \A p \in Prices : x.by[p] \in Int /\ sizeAt[p] = -x.by[p]
      BY <1>1, <1>3, <1>4, <2>2 DEF SignedSize
    <3>2. /\ SumFunctionOnSet(costAt, Prices) = -SumFunctionOnSet(value, Prices)
          /\ SumFunctionOnSet(sizeAt, Prices) = -SumFunctionOnSet(x.by, Prices)
      BY <3>1, PricesFinite, SumNegated
    <3> QED
      BY <2>2, <3>2 DEF SignedSize
  <2> QED
    BY <2>1, <2>2
<1>16. Flow(side, x) = (IF side = "Buy" THEN -SumFunctionOnSet(value, Prices)
                        ELSE SumFunctionOnSet(value, Prices))
                         - (IF x.liquidity = "Maker" THEN 0 ELSE SumFunctionOnSet(charge, Prices))
  BY DEF Flow, value, charge
<1> HIDE DEF all
<1>17. SumOf(PaidIn(all)) = SumFunctionOnSet(costAt, Prices) + SumFunctionOnSet(feeAt, Prices)
  BY <1>11, <1>12
<1> QED
  <2> DEFINE v == SumFunctionOnSet(value, Prices)
             c == SumFunctionOnSet(charge, Prices)
             s == SumFunctionOnSet(costAt, Prices)
             fee == SumFunctionOnSet(feeAt, Prices)
  <2>1. v \in Int /\ c \in Int /\ s = SignedSize(side, v)
        /\ fee = (IF x.liquidity = "Maker" THEN 0 ELSE c)
        /\ Flow(side, x) = (IF side = "Buy" THEN -v ELSE v) - (IF x.liquidity = "Maker" THEN 0 ELSE c)
        /\ SumOf(PaidIn(all)) = s + fee
    BY <1>13, <1>14, <1>15, <1>16, <1>17
  <2> HIDE DEF v, c, s, fee
  <2>2. Flow(side, x) \in Int /\ SumOf(PaidIn(all)) = -Flow(side, x)
    BY <2>1 DEF SignedSize
  <2> QED
    BY <1>10, <1>15, <2>2 DEF SumLevels, all

(* Money and sizes per token, of any orders and executions. *)
MoneyOf(s, e) == [n \in DOMAIN e |-> Flow(s[e[n].order].side, e[n])]
OfToken(s, e, t) == {n \in DOMAIN e : s[e[n].order].token = t}
CashOf(s, e, t) == SumFunctionOnSet(MoneyOf(s, e), OfToken(s, e, t))
SignedSizes(s) == [o \in DOMAIN s |-> Signed(s[o])]
InToken(s, t) == {o \in DOMAIN s : s[o].token = t}
NetOf(s, t) == SumFunctionOnSet(SignedSizes(s), InToken(s, t))

LEMMA CashIs ==
  ASSUME NEW t
  PROVE  /\ Cash(t) = CashOf(orders, executions, t)
         /\ FilledIn(t) = OfToken(orders, executions, t)
BY DEF Cash, CashOf, CashFor, MoneyOf, FilledIn, OfToken, Flow

LEMMA CashIsNext ==
  ASSUME NEW CONSTANT t
  PROVE  /\ Cash(t)' = CashOf(orders', executions', t)
         /\ FilledIn(t)' = OfToken(orders', executions', t)
BY DEF Cash, CashOf, CashFor, MoneyOf, FilledIn, OfToken, Flow

LEMMA MatchIs ==
  /\ PositionsMatchOrders <=> \A t \in Tokens : Net(t) = NetOf(orders, t)
  /\ PositionsMatchOrders' <=> \A t \in Tokens : Net(t)' = NetOf(orders', t)
BY DEF PositionsMatchOrders, NetOf, SignedSizes, InToken, OrdersOf

(* Orders keep their sides and tokens. *)
Keeps(s, r, o) ==
  /\ s \in Seq(Order) /\ r \in Seq(Order)
  /\ DOMAIN r = DOMAIN s \cup {o}
  /\ \A y \in DOMAIN s : r[y].side = s[y].side /\ r[y].token = s[y].token

LEMMA OrderIs ==
  ASSUME NEW s \in Seq(Order), NEW y \in DOMAIN s
  PROVE  /\ s[y] \in Order /\ s[y].side \in Sides /\ s[y].token \in Tokens
         /\ Signed(s[y]) \in Int /\ s[y].filled \in Int
<1>1. s[y] \in Order
  BY InSeq
<1>2. s[y].side \in Sides /\ s[y].token \in Tokens /\ s[y].filled \in Int
  BY <1>1 DEF Order
<1> QED
  BY <1>1, <1>2 DEF Signed

LEMMA FilledMoney ==
  ASSUME NEW s \in Seq(Order), NEW e \in Seq(Execution),
         \A n \in DOMAIN e : e[n].order \in DOMAIN s, NEW t
  PROVE  /\ IsFiniteSet(OfToken(s, e, t)) /\ OfToken(s, e, t) \subseteq DOMAIN e
         /\ \A n \in DOMAIN e : MoneyOf(s, e)[n] \in Int
         /\ CashOf(s, e, t) \in Int
<1>1. /\ DOMAIN e = 1..Len(e) /\ Len(e) \in Nat
      /\ \A n \in DOMAIN e : e[n] \in Execution
  OBVIOUS
<1>2. IsFiniteSet(DOMAIN e) /\ OfToken(s, e, t) \subseteq DOMAIN e
  BY <1>1, FS_Interval DEF OfToken
<1>3. IsFiniteSet(OfToken(s, e, t))
  BY <1>2, FS_Subset
<1>4. \A n \in DOMAIN e : MoneyOf(s, e)[n] \in Int
  <2> SUFFICES ASSUME NEW n \in DOMAIN e PROVE Flow(s[e[n].order].side, e[n]) \in Int
    BY DEF MoneyOf
  <2>1. e[n] \in Execution /\ s[e[n].order].side \in Sides
    BY <1>1, OrderIs
  <2> QED
    BY <2>1, FillsPay
<1>5. CashOf(s, e, t) \in Int
  <2>1. \A n \in OfToken(s, e, t) : MoneyOf(s, e)[n] \in Int
    BY <1>2, <1>4
  <2> QED
    BY <1>3, <2>1, SumType DEF CashOf
<1> QED
  BY <1>2, <1>3, <1>4, <1>5

LEMMA CashStays ==
  ASSUME NEW s, NEW r, NEW o, Keeps(s, r, o), NEW e \in Seq(Execution),
         \A n \in DOMAIN e : e[n].order \in DOMAIN s, NEW t
  PROVE  OfToken(r, e, t) = OfToken(s, e, t) /\ CashOf(r, e, t) = CashOf(s, e, t)
<1>1. /\ s \in Seq(Order) /\ r \in Seq(Order)
      /\ \A y \in DOMAIN s : r[y].side = s[y].side /\ r[y].token = s[y].token
  BY DEF Keeps
<1>2. OfToken(r, e, t) = OfToken(s, e, t)
  BY <1>1 DEF OfToken
<1>3. MoneyOf(r, e) = MoneyOf(s, e)
  BY <1>1 DEF MoneyOf
<1> QED
  BY <1>2, <1>3 DEF CashOf

LEMMA CashGrows ==
  ASSUME NEW s, NEW r, NEW o, Keeps(s, r, o), NEW e \in Seq(Execution),
         \A n \in DOMAIN e : e[n].order \in DOMAIN s,
         NEW x \in Execution, x.order = o, NEW t
  PROVE  /\ OfToken(r, Append(e, x), t)
              = OfToken(s, e, t) \cup (IF r[o].token = t THEN {Len(e) + 1} ELSE {})
         /\ CashOf(r, Append(e, x), t)
              = CashOf(s, e, t) + (IF r[o].token = t THEN Flow(r[o].side, x) ELSE 0)
<1> DEFINE f == Append(e, x)
           n == Len(e) + 1
           S == OfToken(s, e, t)
           T == OfToken(r, f, t)
           d == IF r[o].token = t THEN Flow(r[o].side, x) ELSE 0
<1>1. /\ s \in Seq(Order) /\ r \in Seq(Order) /\ o \in DOMAIN r
      /\ \A y \in DOMAIN s : r[y].side = s[y].side /\ r[y].token = s[y].token
  BY DEF Keeps
<1>2. /\ DOMAIN f = DOMAIN e \cup {n} /\ n \notin DOMAIN e /\ f[n] = x
      /\ \A m \in DOMAIN e : f[m] = e[m]
  OBVIOUS
<1>3. \A m \in DOMAIN e : e[m].order \in DOMAIN s
  OBVIOUS
<1> HIDE DEF f, n
<1>4. T = S \cup (IF r[o].token = t THEN {n} ELSE {}) /\ n \notin S
  BY <1>1, <1>2, <1>3 DEF OfToken
<1>5. /\ IsFiniteSet(S) /\ S \subseteq DOMAIN e
      /\ \A m \in DOMAIN e : MoneyOf(s, e)[m] \in Int
  BY <1>1, FilledMoney
<1>6. d \in Int
  <2>1. Flow(r[o].side, x) \in Int
    BY <1>1, OrderIs, FillsPay
  <2> QED
    BY <2>1
<1>7. \A m \in T \ {n} : MoneyOf(r, f)[m] = MoneyOf(s, e)[m]
  <2> SUFFICES ASSUME NEW m \in S PROVE MoneyOf(r, f)[m] = MoneyOf(s, e)[m]
    BY <1>4
  <2>1. m \in DOMAIN e /\ m \in DOMAIN f /\ f[m] = e[m] /\ r[e[m].order].side = s[e[m].order].side
    BY <1>1, <1>2, <1>3, <1>5
  <2> QED
    BY <2>1 DEF MoneyOf
<1>8. n \in T => MoneyOf(r, f)[n] = d
  <2> SUFFICES ASSUME n \in T PROVE MoneyOf(r, f)[n] = d
    OBVIOUS
  <2>1. n \in DOMAIN f /\ f[n] = x /\ x.order = o /\ r[o].token = t
    BY <1>2, <1>4
  <2> QED
    BY <2>1 DEF MoneyOf
<1>9. n \notin T => d = 0
  BY <1>4
<1>10. SumFunctionOnSet(MoneyOf(r, f), T) = SumFunctionOnSet(MoneyOf(s, e), S) + d
  <2>1. GrowsBy(d, n, MoneyOf(s, e), S, MoneyOf(r, f), T)
    <3>1. \A m \in S : MoneyOf(s, e)[m] \in Int
      BY <1>5
    <3>2. S \subseteq T /\ T \subseteq S \cup {n} /\ n \notin S
      BY <1>4
    <3>3. n \in T => MoneyOf(r, f)[n] = 0 + d
      BY <1>6, <1>8
    <3> HIDE DEF S, T, d
    <3> QED
      BY <1>5, <1>6, <1>7, <1>9, <3>1, <3>2, <3>3 DEF GrowsBy
  <2> QED
    BY <2>1, SumGrown
<1> QED
  BY <1>4, <1>10 DEF CashOf, f, n

LEMMA NetGrows ==
  ASSUME NEW s, NEW r, NEW o, NEW more \in Int, Keeps(s, r, o),
         \A y \in DOMAIN s : y # o => r[y] = s[y],
         r[o].filled = Filled(s, o) + more, NEW t
  PROVE  /\ NetOf(r, t)
              = NetOf(s, t) + (IF r[o].token = t THEN SignedSize(r[o].side, more) ELSE 0)
         /\ NetOf(s, t) \in Int
<1> DEFINE S == InToken(s, t)
           T == InToken(r, t)
           f == SignedSizes(s)
           g == SignedSizes(r)
           d == IF r[o].token = t THEN SignedSize(r[o].side, more) ELSE 0
<1>1. /\ s \in Seq(Order) /\ r \in Seq(Order) /\ o \in DOMAIN r
      /\ DOMAIN r = DOMAIN s \cup {o}
      /\ \A y \in DOMAIN s : r[y].side = s[y].side /\ r[y].token = s[y].token
  BY DEF Keeps
<1>2. IsFiniteSet(S) /\ S \subseteq DOMAIN s
  <2>1. DOMAIN s = 1..Len(s) /\ Len(s) \in Nat
    BY <1>1
  <2>2. IsFiniteSet(DOMAIN s) /\ S \subseteq DOMAIN s
    BY <2>1, FS_Interval DEF InToken
  <2> HIDE DEF S
  <2> QED
    BY <2>2, FS_Subset
<1>3. /\ \A y \in DOMAIN s : f[y] = Signed(s[y]) /\ f[y] \in Int
      /\ \A y \in DOMAIN r : g[y] = Signed(r[y]) /\ g[y] \in Int
  BY <1>1, OrderIs DEF SignedSizes
<1>4. S \subseteq T /\ T \subseteq S \cup {o}
  BY <1>1 DEF InToken
<1>5. \A y \in T \ {o} : g[y] = f[y]
  <2> SUFFICES ASSUME NEW y \in T, y # o PROVE g[y] = f[y]
    OBVIOUS
  <2>1. y \in DOMAIN s /\ y \in DOMAIN r /\ r[y] = s[y]
    BY <1>1 DEF InToken
  <2> QED
    BY <1>3, <2>1
<1>6. o \in T <=> r[o].token = t
  BY <1>1 DEF InToken
<1>7. o \in S <=> o \in DOMAIN s /\ r[o].token = t
  BY <1>1 DEF InToken
<1>8. o \in T => g[o] = (IF o \in S THEN f[o] ELSE 0) + d
  <2> SUFFICES ASSUME o \in T PROVE g[o] = (IF o \in S THEN f[o] ELSE 0) + d
    OBVIOUS
  <2>1. g[o] = Signed(r[o]) /\ r[o].filled = Filled(s, o) + more /\ d = SignedSize(r[o].side, more)
    BY <1>1, <1>3, <1>6
  <2>2. CASE o \in DOMAIN s
    <3>1. f[o] = Signed(s[o]) /\ s[o].side = r[o].side /\ r[o].filled = s[o].filled + more
          /\ s[o].filled \in Int
      BY <1>1, <1>3, <2>1, <2>2, OrderIs DEF Filled
    <3>2. Signed(r[o]) = Signed(s[o]) + SignedSize(r[o].side, more)
      BY <3>1 DEF Signed, SignedSize
    <3> QED
      BY <1>6, <1>7, <2>1, <2>2, <3>1, <3>2
  <2>3. CASE o \notin DOMAIN s
    <3>1. r[o].filled = 0 + more
      BY <2>1, <2>3 DEF Filled
    <3>2. Signed(r[o]) = SignedSize(r[o].side, more)
      BY <3>1 DEF Signed, SignedSize
    <3>3. d \in Int
      BY <2>1 DEF SignedSize
    <3> QED
      BY <1>7, <2>1, <2>3, <3>2, <3>3
  <2> QED
    BY <2>2, <2>3
<1>9. d \in Int /\ (o \notin T => d = 0)
  BY <1>6 DEF SignedSize
<1>10. \A y \in S : f[y] \in Int
  BY <1>2, <1>3
<1>11. GrowsBy(d, o, f, S, g, T)
  <2> HIDE DEF S, T, f, g, d
  <2> QED
    BY <1>2, <1>4, <1>5, <1>8, <1>9, <1>10 DEF GrowsBy
<1> QED
  BY <1>11, SumGrown DEF NetOf

(* Booking the fills one by one into a position is what booking them into  *)
(* the accounts does to the position in them.                              *)
AfterRule(g, base, s) ==
  g = [t \in SUBSET DOMAIN s |->
         IF t = {} THEN base
         ELSE ApplyFill(g[t \ {Max(t)}], s[Max(t)].size, s[Max(t)].price, s[Max(t)].fee)]

LEMMA AfterIsByRule ==
  ASSUME NEW base, NEW s
  PROVE  AfterFills(base, s) = (CHOOSE g : AfterRule(g, base, s))[DOMAIN s]
BY DEF AfterFills, FoldLeft, MapThenFoldSet, AfterRule

LEMMA AfterFillsIs ==
  ASSUME NEW base \in Accounts, NEW s \in Seq(Fill)
  PROVE  AfterFills(base.position, s) = FoldLeft(Booked, base, s).position
<1> DEFINE h == CHOOSE h : BookedRule(h, base, s)
           g == CHOOSE g : AfterRule(g, base.position, s)
           a == [t \in SUBSET DOMAIN s |-> h[t].position]
<1>1. FoldLeft(Booked, base, s) = h[DOMAIN s] /\ AfterFills(base.position, s) = g[DOMAIN s]
  BY BookedIsByRule, AfterIsByRule
<1>2. BookedRule(h, base, s)
  BY BookedRuleExists
<1> HIDE DEF h
<1>3. \A t \in SUBSET DOMAIN s :
         h[t] = IF t = {} THEN base ELSE Booked(h[t \ {Max(t)}], s[Max(t)])
  BY <1>2 DEF BookedRule
<1>4. \A t \in SUBSET DOMAIN s :
         h[t].position
           = IF t = {} THEN base.position
             ELSE ApplyFill(h[t \ {Max(t)}].position, s[Max(t)].size, s[Max(t)].price, s[Max(t)].fee)
  <2>1. \A held, fill :
           Booked(held, fill).position = ApplyFill(held.position, fill.size, fill.price, fill.fee)
    BY DEF Booked
  <2> QED
    BY <1>3, <2>1
<1>5. AfterRule(a, base.position, s)
  <2>1. \A t \in SUBSET DOMAIN s : a[t] = h[t].position /\ t \ {Max(t)} \in SUBSET DOMAIN s
    OBVIOUS
  <2>2. \A t \in SUBSET DOMAIN s :
           a[t] = IF t = {} THEN base.position
                  ELSE ApplyFill(a[t \ {Max(t)}], s[Max(t)].size, s[Max(t)].price, s[Max(t)].fee)
    BY <1>4, <2>1
  <2>3. a = [t \in SUBSET DOMAIN s |-> a[t]]
    OBVIOUS
  <2> HIDE DEF a
  <2> QED
    BY <2>2, <2>3 DEF AfterRule
<1>6. AfterRule(g, base.position, s)
  <2> HIDE DEF a
  <2> QED
    BY <1>5
<1> HIDE DEF g, a
<1>7. \A t \in SUBSET DOMAIN s :
         g[t] = IF t = {} THEN base.position
                ELSE ApplyFill(g[t \ {Max(t)}], s[Max(t)].size, s[Max(t)].price, s[Max(t)].fee)
  BY <1>6 DEF AfterRule
<1>8. DOMAIN s = 1..Len(s) /\ Len(s) \in Nat
  OBVIOUS
<1> DEFINE Q == {k \in Nat : k <= Len(s) => g[1..k] = h[1..k].position}
<1>9. 0 \in Q
  <2>1. 1..0 = {} /\ {} \in SUBSET DOMAIN s
    OBVIOUS
  <2>2. g[{}] = base.position /\ h[{}].position = base.position
    BY <1>4, <1>7, <2>1
  <2> QED
    BY <2>1, <2>2
<1>10. ASSUME NEW k \in Nat, k \in Q PROVE k + 1 \in Q
  <2> SUFFICES ASSUME k + 1 <= Len(s) PROVE g[1..(k + 1)] = h[1..(k + 1)].position
    OBVIOUS
  <2>1. g[1..k] = h[1..k].position
    BY <1>8, <1>10
  <2>2. /\ 1..(k + 1) # {} /\ Max(1..(k + 1)) = k + 1
        /\ (1..(k + 1)) \ {k + 1} = 1..k
    BY PrefixEnds
  <2>3. 1..(k + 1) \in SUBSET DOMAIN s
    BY <1>8
  <2>4. /\ g[1..(k + 1)] = ApplyFill(g[1..k], s[k + 1].size, s[k + 1].price, s[k + 1].fee)
        /\ h[1..(k + 1)].position
             = ApplyFill(h[1..k].position, s[k + 1].size, s[k + 1].price, s[k + 1].fee)
    BY <1>4, <1>7, <2>2, <2>3
  <2> QED
    BY <2>1, <2>4
<1>11. Len(s) \in Q
  <2> HIDE DEF Q
  <2> QED
    BY <1>8, <1>9, <1>10, NatSetInduction
<1> QED
  BY <1>1, <1>8, <1>11

-----------------------------------------------------------------------------
(* A position that some money has been put into: P&L, average and holdings *)
(* say together how much.                                                  *)
Sound(q, c) == \E S \in SUBSET Prices : [position |-> q, cash |-> c, entries |-> S] \in Accounts

LEMMA SoundIs ==
  ASSUME NEW q, NEW c, Sound(q, c)
  PROVE  /\ q \in Position /\ c \in Int
         /\ q.realized = Plus(Whole(c), Times(q.net, q.avg))
<1>1. PICK S \in SUBSET Prices : [position |-> q, cash |-> c, entries |-> S] \in Accounts
  BY DEF Sound
<1> DEFINE held == [position |-> q, cash |-> c, entries |-> S]
<1>2. held \in Holdings /\ Balanced(held)
  BY <1>1 DEF Accounts
<1>3. held.position = q /\ held.cash = c
  OBVIOUS
<1> HIDE DEF held
<1> QED
  BY <1>2, <1>3 DEF Holdings, Balanced

LEMMA NewSound == Sound(NewPosition, 0) /\ NewPosition.net = 0
<1>1. Whole(0) \in Fractions
  BY FractionTypes
<1>2. NewPosition \in Position
  BY <1>1 DEF NewPosition, Position, Marks
<1> DEFINE held == [position |-> NewPosition, cash |-> 0, entries |-> {}]
<1>3. held \in Holdings
  BY <1>2 DEF Holdings
<1>4. Balanced(held)
  <2>1. Times(0, Whole(0)) = Whole(0) /\ Plus(Whole(0), Whole(0)) = Whole(0)
    BY <1>1, TimesZero, PlusZero
  <2> QED
    BY <2>1 DEF Balanced, NewPosition
<1>5. held \in Accounts /\ {} \in SUBSET Prices
  BY <1>3, <1>4 DEF Accounts
<1> QED
  BY <1>5 DEF Sound, NewPosition

LEMMA MarkedSound ==
  ASSUME NEW q, NEW c, Sound(q, c), NEW M \in Marks
  PROVE  /\ Sound([q EXCEPT !.mark = M], c)
         /\ [q EXCEPT !.mark = M].net = q.net
<1>1. PICK S \in SUBSET Prices : [position |-> q, cash |-> c, entries |-> S] \in Accounts
  BY DEF Sound
<1> DEFINE held == [position |-> q, cash |-> c, entries |-> S]
           r == [q EXCEPT !.mark = M]
           after == [position |-> r, cash |-> c, entries |-> S]
<1>2. held \in Holdings /\ Balanced(held) /\ q \in Position /\ c \in Int
  BY <1>1 DEF Accounts, Holdings
<1>3. /\ r \in Position /\ r.net = q.net /\ r.avg = q.avg /\ r.gross = q.gross
      /\ r.realized = q.realized /\ r.fees = q.fees
  BY <1>2 DEF Position
<1>4. after \in Holdings
  <2> HIDE DEF r
  <2> QED
    BY <1>2, <1>3 DEF Holdings
<1>5. Balanced(after)
  <2>1. /\ after.position = r /\ after.cash = c /\ after.entries = S
        /\ held.position = q /\ held.cash = c /\ held.entries = S
    OBVIOUS
  <2> HIDE DEF r, after, held
  <2> QED
    BY <1>2, <1>3, <2>1 DEF Balanced
<1>6. after \in Accounts
  BY <1>4, <1>5 DEF Accounts
<1> QED
  BY <1>3, <1>6 DEF Sound

LEMMA BookedSound ==
  ASSUME NEW q, NEW c, Sound(q, c), NEW side \in Sides, NEW x \in Execution
  PROVE  LET after == AfterFills(q, FillsOf(side, x))
         IN /\ Sound(after, c + Flow(side, x))
            /\ after.net = q.net + SignedSize(side, SumLevels(x.by, Prices))
<1>1. PICK S \in SUBSET Prices : [position |-> q, cash |-> c, entries |-> S] \in Accounts
  BY DEF Sound
<1> DEFINE base == [position |-> q, cash |-> c, entries |-> S]
           s == FillsOf(side, x)
           h == FoldLeft(Booked, base, s)
<1>2. base.position = q /\ base.cash = c /\ base \in Accounts /\ c \in Int
  BY <1>1 DEF Accounts, Holdings
<1>3. s \in Seq(Fill)
  BY FillsOfAre
<1>4. /\ SumOf(SizesOf(s)) = SignedSize(side, SumLevels(x.by, Prices))
      /\ SumOf(PaidIn(s)) = -Flow(side, x) /\ Flow(side, x) \in Int
  BY FillsPay
<1> HIDE DEF base, s
<1>5. /\ h \in Accounts
      /\ h.position.net = base.position.net + SumOf(SizesOf(s))
      /\ h.cash = base.cash - SumOf(PaidIn(s))
  BY <1>2, <1>3, BookedFold
<1>6. AfterFills(q, s) = h.position
  BY <1>2, <1>3, AfterFillsIs
<1> HIDE DEF h
<1>7. h.cash = c + Flow(side, x)
  BY <1>2, <1>4, <1>5
<1>8. /\ h = [position |-> h.position, cash |-> h.cash, entries |-> h.entries]
      /\ h.entries \in SUBSET Prices
  BY <1>5 DEF Accounts, Holdings
<1>9. Sound(h.position, c + Flow(side, x))
  BY <1>5, <1>7, <1>8 DEF Sound
<1>10. h.position.net = q.net + SignedSize(side, SumLevels(x.by, Prices))
  BY <1>2, <1>4, <1>5
<1> QED
  BY <1>6, <1>9, <1>10 DEF s

-----------------------------------------------------------------------------
(* Every position is sound for the money of its token, and holds what the  *)
(* orders of that token were filled; a token without one was never filled. *)
PlacesAre(p, s, e) ==
  /\ DOMAIN p \subseteq Tokens
  /\ \A t \in DOMAIN p : Sound(p[t], CashOf(s, e, t)) /\ p[t].net = NetOf(s, t)
  /\ \A t \in Tokens \ DOMAIN p : CashOf(s, e, t) = 0 /\ NetOf(s, t) = 0
PlacesInv == PlacesAre(positions, orders, executions)

LEMMA PlacesInit == RunInit => PlacesInv
<1> SUFFICES ASSUME RunInit PROVE PlacesInv
  OBVIOUS
<1>1. orders = << >> /\ executions = << >> /\ positions = << >>
  BY DEF RunInit, Init
<1>2. \A t : OfToken(<< >>, << >>, t) = {} /\ InToken(<< >>, t) = {}
  BY DEF OfToken, InToken
<1>3. \A t : CashOf(<< >>, << >>, t) = 0 /\ NetOf(<< >>, t) = 0
  BY <1>2, SumEmpty DEF CashOf, NetOf
<1>4. DOMAIN << >> = {}
  OBVIOUS
<1> QED
  BY <1>1, <1>3, <1>4 DEF PlacesInv, PlacesAre

(* Marks change nothing of that. *)
Marked(q, r) == r = q \/ \E M \in Marks : r = [q EXCEPT !.mark = M]

LEMMA MarksKeep ==
  ASSUME PlacesInv, orders' = orders, executions' = executions,
         DOMAIN positions' = DOMAIN positions,
         \A t \in DOMAIN positions : Marked(positions[t], positions'[t])
  PROVE  PlacesInv'
<1>1. PlacesAre(positions, orders, executions)
  BY DEF PlacesInv
<1>2. ASSUME NEW t \in DOMAIN positions
      PROVE  /\ Sound(positions'[t], CashOf(orders, executions, t))
             /\ positions'[t].net = NetOf(orders, t)
  <2>1. Sound(positions[t], CashOf(orders, executions, t)) /\ positions[t].net = NetOf(orders, t)
    BY <1>1 DEF PlacesAre
  <2>2. CASE positions'[t] = positions[t]
    BY <2>1, <2>2
  <2>3. ASSUME NEW M \in Marks, positions'[t] = [positions[t] EXCEPT !.mark = M]
        PROVE  /\ Sound(positions'[t], CashOf(orders, executions, t))
               /\ positions'[t].net = NetOf(orders, t)
    BY <2>1, <2>3, MarkedSound
  <2> QED
    BY <2>2, <2>3 DEF Marked
<1>3. PlacesAre(positions', orders, executions)
  BY <1>1, <1>2 DEF PlacesAre
<1> QED
  BY <1>3 DEF PlacesInv

LEMMA AboutKeeps ==
  ASSUME TypeOK, TypeOK', NEW o, IsAbout(o)
  PROVE  Keeps(orders, orders', o)
<1>1. orders \in Seq(Order) /\ orders' \in Seq(Order)
  BY DEF TypeOK
<1> QED
  BY <1>1 DEF IsAbout, Keeps

(* What record_paper_result does with the fills of a call keeps it. *)
LEMMA RecordKeeps ==
  ASSUME TypeOK, TypeOK', FillsTyped, PlacesInv, FillsStep, RecordPaperResult
  PROVE  PlacesInv'
<1>1. PICK o \in Nat : /\ IsAbout(o)
                       /\ \/ executions' = executions /\ orders'[o].filled = Filled(orders, o)
                          \/ \E x : Fills(o, x)
  BY DEF FillsStep
<1>2. Keeps(orders, orders', o)
  BY <1>1, AboutKeeps
<1>3. /\ executions \in Seq(Execution)
      /\ \A n \in DOMAIN executions : executions[n].order \in DOMAIN orders
  BY DEF FillsTyped
<1>4. PlacesAre(positions, orders, executions)
  BY DEF PlacesInv
<1>5. \A y \in DOMAIN orders : y # o => orders'[y] = orders[y]
  BY <1>1 DEF IsAbout
<1>6. orders'[o].token \in Tokens /\ orders'[o].side \in Sides /\ orders'[o].filled \in Int
  <2>1. orders' \in Seq(Order) /\ o \in DOMAIN orders'
    BY <1>1 DEF TypeOK, IsAbout
  <2> QED
    BY <2>1, OrderIs
<1>7. Filled(orders, o) \in Int
  <2>1. orders \in Seq(Order)
    BY DEF TypeOK
  <2>2. o \in DOMAIN orders => orders[o].filled \in Int
    BY <2>1, OrderIs
  <2> QED
    BY <2>2 DEF Filled
<1>8. CASE executions' = executions /\ orders'[o].filled = Filled(orders, o)
  <2>1. positions' = positions
    BY <1>8 DEF RecordPaperResult
  <2>2. \A t : CashOf(orders', executions, t) = CashOf(orders, executions, t)
    BY <1>2, <1>3, CashStays
  <2>3. orders'[o].filled = Filled(orders, o) + 0
    BY <1>7, <1>8
  <2>4. ASSUME NEW t PROVE NetOf(orders', t) = NetOf(orders, t)
    <3>1. /\ NetOf(orders', t) = NetOf(orders, t)
               + (IF orders'[o].token = t THEN SignedSize(orders'[o].side, 0) ELSE 0)
          /\ NetOf(orders, t) \in Int
      BY <1>2, <1>5, <2>3, NetGrows
    <3> QED
      BY <3>1 DEF SignedSize
  <2>5. PlacesAre(positions, orders', executions)
    BY <1>4, <2>2, <2>4 DEF PlacesAre
  <2> QED
    BY <1>8, <2>1, <2>5 DEF PlacesInv
<1>9. ASSUME NEW x, Fills(o, x) PROVE PlacesInv'
  <2> DEFINE t == orders'[o].token
             side == orders'[o].side
             size == SumLevels(x.by, Prices)
             held == IF t \in DOMAIN positions THEN positions[t] ELSE NewPosition
             after == AfterFills(held, FillsOf(side, x))
  <2>1. /\ executions' = Append(executions, x) /\ x \in Execution /\ x.order = o
        /\ orders'[o].filled = Filled(orders, o) + size
    BY <1>9 DEF Fills
  <2>2. positions' = Put(positions, t, after)
    <3>1. Len(executions') # Len(executions) /\ Last(executions') = x
      BY <1>3, <2>1 DEF Last
    <3> QED
      BY <2>1, <3>1 DEF RecordPaperResult
  <2>3. Sound(held, CashOf(orders, executions, t)) /\ held.net = NetOf(orders, t)
    <3>1. CASE t \in DOMAIN positions
      BY <1>4, <3>1 DEF PlacesAre
    <3>2. CASE t \notin DOMAIN positions
      BY <1>4, <1>6, <3>2, NewSound DEF PlacesAre
    <3> QED
      BY <3>1, <3>2
  <2>4. size \in Int
    <3>1. x.by \in Levels
      BY <2>1 DEF Execution
    <3> QED
      BY <3>1, DepthType
  <2>5. \A u : CashOf(orders', executions', u)
                 = CashOf(orders, executions, u) + (IF t = u THEN Flow(side, x) ELSE 0)
    BY <1>2, <1>3, <2>1, CashGrows
  <2>6. \A u : /\ NetOf(orders', u)
                    = NetOf(orders, u) + (IF t = u THEN SignedSize(side, size) ELSE 0)
               /\ NetOf(orders, u) \in Int
    BY <1>2, <1>5, <2>1, <2>4, NetGrows
  <2>7. \A u : CashOf(orders, executions, u) \in Int
    <3>1. orders \in Seq(Order)
      BY DEF TypeOK
    <3> QED
      BY <1>3, <3>1, FilledMoney
  <2> HIDE DEF held
  <2>8. /\ Sound(after, CashOf(orders, executions, t) + Flow(side, x))
        /\ after.net = held.net + SignedSize(side, size)
    BY <1>6, <2>1, <2>3, BookedSound
  <2> HIDE DEF after
  <2>9. t \in Tokens
    BY <1>6
  <2> HIDE DEF t, side, size
  <2>10. /\ DOMAIN positions' = DOMAIN positions \cup {t} /\ positions'[t] = after
         /\ \A u \in DOMAIN positions : u # t => positions'[u] = positions[u]
    BY <2>2 DEF Put
  <2>11. \A u : u # t => /\ CashOf(orders', executions', u) = CashOf(orders, executions, u)
                         /\ NetOf(orders', u) = NetOf(orders, u)
    <3> SUFFICES ASSUME NEW u, u # t
                 PROVE  /\ CashOf(orders', executions', u) = CashOf(orders, executions, u)
                        /\ NetOf(orders', u) = NetOf(orders, u)
      OBVIOUS
    <3>1. /\ CashOf(orders', executions', u) = CashOf(orders, executions, u) + 0
          /\ NetOf(orders', u) = NetOf(orders, u) + 0
      BY <2>5, <2>6
    <3>2. CashOf(orders, executions, u) \in Int /\ NetOf(orders, u) \in Int
      BY <2>6, <2>7
    <3> QED
      BY <3>1, <3>2
  <2>12. /\ CashOf(orders', executions', t) = CashOf(orders, executions, t) + Flow(side, x)
         /\ NetOf(orders', t) = NetOf(orders, t) + SignedSize(side, size)
    BY <2>5, <2>6
  <2>13. Sound(positions'[t], CashOf(orders', executions', t)) /\ positions'[t].net = NetOf(orders', t)
    BY <2>3, <2>8, <2>10, <2>12
  <2>14. PlacesAre(positions', orders', executions')
    <3>1. DOMAIN positions' \subseteq Tokens
      BY <1>4, <2>9, <2>10 DEF PlacesAre
    <3>2. ASSUME NEW u \in DOMAIN positions'
          PROVE  Sound(positions'[u], CashOf(orders', executions', u)) /\ positions'[u].net = NetOf(orders', u)
      <4>1. CASE u = t
        BY <2>13, <4>1
      <4>2. CASE u # t
        BY <1>4, <2>10, <2>11, <4>2 DEF PlacesAre
      <4> QED
        BY <4>1, <4>2
    <3>3. ASSUME NEW u \in Tokens \ DOMAIN positions'
          PROVE  CashOf(orders', executions', u) = 0 /\ NetOf(orders', u) = 0
      BY <1>4, <2>10, <2>11 DEF PlacesAre
    <3> QED
      BY <3>1, <3>2, <3>3 DEF PlacesAre
  <2> QED
    BY <2>14 DEF PlacesInv
<1> QED
  BY <1>1, <1>8, <1>9

(* Marks are prices. *)
LEMMA BestAskIsPrice ==
  ASSUME NEW book \in Books
  PROVE  BestAsk(book) \subseteq 0..MaxPrice
<1>1. /\ book.asks \in [0..MaxPrice -> Nat] /\ book.askHint \subseteq 0..MaxPrice
      /\ MaxPrice \in Nat
  BY BookParts, MaxPriceAssumption
<1> DEFINE depth == WithDepth(book.asks)
<1>2. depth \in SUBSET (0..MaxPrice)
  BY <1>1 DEF WithDepth
<1>3. depth # {} => Min(depth) \in depth
  <2> HIDE DEF depth
  <2> QED
    BY <1>1, <1>2, MinOfRange
<1> QED
  BY <1>1, <1>2, <1>3 DEF BestAsk

LEMMA MarkPriceIsMark ==
  ASSUME NEW book \in Books
  PROVE  MarkPrice(book) \in Marks
<1> DEFINE sides == BestBid(book) \cup BestAsk(book)
<1>1. sides \in SUBSET (0..MaxPrice) /\ MaxPrice \in Nat
  BY BestBidIsPrice, BestAskIsPrice, MaxPriceAssumption
<1>2. MarkPrice(book) = IF sides = {} THEN {} ELSE {Ratio(Min(sides) + Max(sides), 2)}
  BY DEF MarkPrice
<1> HIDE DEF sides
<1>3. ASSUME sides # {} PROVE Ratio(Min(sides) + Max(sides), 2) \in Fractions
  <2>1. Min(sides) \in sides /\ Max(sides) \in sides
    BY <1>1, <1>3, MinOfRange, MaxOfRange
  <2>2. Min(sides) + Max(sides) \in Int /\ 2 \in Nat \ {0}
    <3>1. \A p \in sides : p \in Int
      BY <1>1
    <3>2. Min(sides) \in Int /\ Max(sides) \in Int
      BY <2>1, <3>1
    <3> QED
      BY <3>2
  <2> DEFINE n == Min(sides) + Max(sides)
  <2> HIDE DEF n
  <2>3. Ratio(n, 2) \in Fractions
    BY <2>2, RatioValue DEF StandsFor, n
  <2> QED
    BY <2>3 DEF n
<1> QED
  BY <1>2, <1>3 DEF Marks

-----------------------------------------------------------------------------
(* The rest of what the run keeps: how far it is in the loop, and that it  *)
(* only shows a print to orders that can be filled.                        *)
LifeInv == DOMAIN lifecycle \subseteq Markets /\ discovered \subseteq DOMAIN lifecycle
StepInv ==
  /\ step \in {"receive", "simulate", "evaluate", "mark"}
  /\ step \in {"receive", "mark"} => todo = {}
  /\ step = "simulate" => \A o \in todo : IsLive(orders[o])
CountInv == Len(orderTimes) <= Len(orders)

LEMMA OthersInit == RunInit => LifeInv /\ StepInv /\ CountInv
BY DEF RunInit, Init, LifeInv, StepInv, CountInv

LEMMA LifeNext == LifeInv /\ [RunNext]_runVars => LifeInv'
<1> SUFFICES ASSUME LifeInv, [RunNext]_runVars PROVE LifeInv'
  OBVIOUS
<1>1. ASSUME NEW u \in Updates, NEW elapsed \in TimeSteps, Receive(u, elapsed) PROVE LifeInv'
  <2>1. CASE lifecycle' = lifecycle /\ discovered' = discovered
    BY <2>1 DEF LifeInv
  <2>2. ASSUME u.market \in Markets, NEW state, lifecycle' = Put(lifecycle, u.market, state),
               discovered' \in {discovered, discovered \cup {u.market}}
        PROVE  LifeInv'
    BY <2>2 DEF LifeInv, Put
  <2>3. u.type \in {"MarketUpdated", "MarketCreated", "MarketResolved"} => u.market \in Markets
    BY UpdatesAssumption
  <2> QED
    BY <1>1, <2>1, <2>2, <2>3 DEF Receive, Apply, BookUpdate
<1>2. CASE lifecycle' = lifecycle /\ discovered' = discovered
  BY <1>2 DEF LifeInv
<1> QED
  BY <1>1, <1>2 DEF RunNext, SimulateNext, SimulateDone, Evaluate, EvaluateDone, MarkPositions,
                    Finished, runVars, store

LEMMA StepNext == RunInv /\ StepInv /\ [RunNext]_runVars => StepInv'
<1> SUFFICES ASSUME RunInv, StepInv, [RunNext]_runVars PROVE StepInv'
  OBVIOUS
<1> USE DEF StepInv
<1>1. ASSUME NEW u \in Updates, NEW elapsed \in TimeSteps, Receive(u, elapsed) PROVE StepInv'
  <2>1. orders' = orders
    BY <1>1 DEF Receive, executor, vars
  <2>2. \A t : \A o \in Resting(t) : IsLive(orders[o])
    BY DEF Resting, IsLive, TerminalStatuses
  <2> QED
    BY <1>1, <2>1, <2>2 DEF Receive, Apply, BookUpdate
<1>2. CASE SimulateNext
  <2>1. step = "simulate" /\ step' = step /\ todo # {} /\ todo' = todo \ {Min(todo)}
    BY <1>2 DEF SimulateNext
  <2>2. Min(todo) \in DOMAIN orders /\ OrdersInv /\ todo \subseteq DOMAIN orders
    BY <2>1, TodoIsThere DEF RunInv, TodoInv
  <2>3. CASE orders' = orders
    BY <2>1, <2>3
  <2>4. CASE \E book : SimulateFill(Min(todo), book)
    <3>1. PICK new : orders' = [orders EXCEPT ![Min(todo)] = new]
      BY <2>2, <2>4, SimulateReplaces
    <3>2. \A o \in todo' : orders'[o] = orders[o]
      BY <2>1, <2>2, <3>1
    <3> QED
      BY <2>1, <3>2
  <2> QED
    BY <1>2, <2>3, <2>4 DEF SimulateNext, executor, vars
<1>3. CASE Evaluate
  BY <1>3 DEF Evaluate
<1>4. CASE SimulateDone \/ EvaluateDone \/ MarkPositions
  BY <1>4 DEF SimulateDone, EvaluateDone, MarkPositions
<1>5. CASE UNCHANGED runVars
  BY <1>5 DEF runVars, executor, vars
<1> QED
  BY <1>1, <1>2, <1>3, <1>4, <1>5 DEF RunNext, Finished

LEMMA CountNext == RunInv /\ RateInv /\ CountInv /\ [RunNext]_runVars => CountInv'
<1> SUFFICES ASSUME RunInv, RateInv, CountInv, [RunNext]_runVars PROVE CountInv'
  OBVIOUS
<1>0. Len(orders) \in Nat /\ Len(orderTimes) \in Nat /\ Len(orderTimes) <= Len(orders)
  BY DEF RunInv, OrdersInv, RateInv, CountInv
<1>1. CASE SimulateNext
  BY <1>0, <1>1, SimulateKeeps DEF SimulateNext, CountInv
<1>2. CASE Evaluate
  <2>1. CASE NoOrder(MarketIds[Min(todo)])
    BY <1>0, <2>1 DEF NoOrder, executor, vars, CountInv
  <2>2. ASSUME NEW i \in Candidates(MarketIds[Min(todo)]), OpenOrder(i, MarketIds[Min(todo)])
        PROVE  CountInv'
    <3>1. MarketIds[Min(todo)] \in Markets
      BY <1>2, TodoIsThere DEF Evaluate
    <3>2. i.token \in Tokens /\ i.side = "Buy"
      BY <3>1, CandidatesAre
    <3>3. OpenPaperOrder(i, books[i.token]) /\ orderTimes' = Append(orderTimes, wall)
      BY <2>2 DEF OpenOrder
    <3>4. PICK new : orders' = Append(orders, new) /\ IsOrder(new)
      BY <3>2, <3>3, OpenAppends
    <3>5. Len(orders') = Len(orders) + 1
      BY <3>4, AppendKeeps DEF RunInv
    <3>6. Len(orderTimes') = Len(orderTimes) + 1
      BY <3>3 DEF RateInv
    <3> QED
      BY <1>0, <3>5, <3>6 DEF CountInv
  <2> QED
    BY <1>2, <2>1, <2>2 DEF Evaluate
<1>3. CASE orders' = orders /\ orderTimes' = orderTimes
  BY <1>0, <1>3 DEF CountInv
<1> QED
  BY <1>1, <1>2, <1>3 DEF RunNext, Receive, SimulateDone, EvaluateDone, MarkPositions, Finished,
                          runVars, executor, vars

-----------------------------------------------------------------------------
(* What a step does to the positions: it books the new fills, or it marks. *)
OnlyMarks ==
  /\ orders' = orders /\ executions' = executions /\ DOMAIN positions' = DOMAIN positions
  /\ \A t \in DOMAIN positions : Marked(positions[t], positions'[t])

LEMMA PositionsStep ==
  ASSUME RunInv, IInv, FillsInv, IInv', PlacesInv, [RunNext]_runVars
  PROVE  (FillsStep /\ RecordPaperResult) \/ OnlyMarks
<1>1. ASSUME Next, RecordPaperResult PROVE FillsStep /\ RecordPaperResult
  <2>1. TypeOK /\ TypeOK' /\ FillsTyped
    BY DEF IInv, FillsInv
  <2> QED
    BY <1>1, <2>1, NextFills
<1>2. CASE UNCHANGED <<orders, executions, positions>>
  BY <1>2 DEF OnlyMarks, Marked
<1>3. ASSUME UNCHANGED executor, RecordPaperResult PROVE OnlyMarks
  <2>1. UNCHANGED <<orders, executions, positions>>
    BY <1>3 DEF RecordPaperResult, executor, vars
  <2> QED
    BY <1>2, <2>1 DEF OnlyMarks, Marked
<1>4. CASE SimulateNext
  <2>1. Next \/ UNCHANGED executor
    BY <1>4, ExecutorStep DEF RunNext, executor
  <2>2. RecordPaperResult
    BY <1>4 DEF SimulateNext
  <2> QED
    BY <1>1, <1>3, <2>1, <2>2
<1>5. CASE Evaluate
  <2>1. CASE NoOrder(MarketIds[Min(todo)])
    BY <1>2, <2>1 DEF NoOrder, executor, vars
  <2>2. ASSUME NEW i \in Candidates(MarketIds[Min(todo)]), OpenOrder(i, MarketIds[Min(todo)])
        PROVE  (FillsStep /\ RecordPaperResult) \/ OnlyMarks
    <3>1. Next \/ UNCHANGED executor
      BY <1>5, ExecutorStep DEF RunNext, executor
    <3>2. RecordPaperResult
      BY <2>2 DEF OpenOrder
    <3> QED
      BY <1>1, <1>3, <3>1, <3>2
  <2> QED
    BY <1>5, <2>1, <2>2 DEF Evaluate
<1>6. CASE MarkPositions
  <2>1. /\ orders' = orders /\ executions' = executions
        /\ positions' = [t \in DOMAIN positions |->
                           IF MarkPrice(books[t]) = {} THEN positions[t]
                           ELSE [positions[t] EXCEPT !.mark = MarkPrice(books[t])]]
    BY <1>6 DEF MarkPositions, executor, vars
  <2>2. \A t \in DOMAIN positions : MarkPrice(books[t]) \in Marks
    <3> SUFFICES ASSUME NEW t \in DOMAIN positions PROVE MarkPrice(books[t]) \in Marks
      OBVIOUS
    <3>1. books[t] \in Books
      BY DEF PlacesInv, PlacesAre, RunInv, BookInv
    <3> QED
      BY <3>1, MarkPriceIsMark
  <2>3. \A t \in DOMAIN positions : Marked(positions[t], positions'[t])
    BY <2>1, <2>2 DEF Marked
  <2>4. DOMAIN positions' = DOMAIN positions
    BY <2>1
  <2> QED
    BY <2>1, <2>3, <2>4 DEF OnlyMarks
<1>7. ASSUME NEW u \in Updates, NEW elapsed \in TimeSteps, Receive(u, elapsed) PROVE OnlyMarks
  <2>1. orders' = orders /\ executions' = executions
    BY <1>7 DEF Receive, executor, vars
  <2>2. CASE positions' = positions
    BY <2>1, <2>2 DEF OnlyMarks, Marked
  <2>3. CASE positions' = Settled(u.market, u.winner)
    <3>1. \A k \in {0, MaxPrice} : {Whole(k)} \in Marks
      BY FractionTypes, MaxPriceAssumption DEF Marks
    <3>2. ASSUME NEW t \in DOMAIN positions PROVE Marked(positions[t], positions'[t])
      <4> DEFINE M == {Whole(IF t = u.winner THEN MaxPrice ELSE 0)}
      <4>1. M \in Marks
        BY <3>1
      <4>2. positions'[t] = IF MarketOf(t) = u.market THEN [positions[t] EXCEPT !.mark = M]
                            ELSE positions[t]
        BY <2>3 DEF Settled, Mark
      <4> HIDE DEF M
      <4> QED
        BY <4>1, <4>2 DEF Marked
    <3>3. DOMAIN positions' = DOMAIN positions
      BY <2>3 DEF Settled
    <3> QED
      BY <2>1, <3>2, <3>3 DEF OnlyMarks
  <2> QED
    BY <1>7, <2>2, <2>3 DEF Receive, Apply, BookUpdate
<1>8. CASE SimulateDone \/ EvaluateDone \/ UNCHANGED runVars
  BY <1>2, <1>8 DEF SimulateDone, EvaluateDone, runVars, executor, vars
<1> QED
  BY <1>4, <1>5, <1>6, <1>7, <1>8 DEF RunNext, Finished

(* Every step of the run keeps the positions in line with orders and money. *)
LEMMA PlacesNext ==
  ASSUME RunInv, IInv, FillsInv, IInv', PlacesInv, [RunNext]_runVars
  PROVE  PlacesInv'
<1>1. TypeOK /\ TypeOK' /\ FillsTyped
  BY DEF IInv, FillsInv
<1>2. CASE FillsStep /\ RecordPaperResult
  BY <1>1, <1>2, RecordKeeps
<1>3. CASE OnlyMarks
  BY <1>3, MarksKeep DEF OnlyMarks
<1> QED
  BY <1>2, <1>3, PositionsStep

AccountsInv ==
  RunInv /\ RateInv /\ IInv /\ FillsInv /\ PlacesInv /\ LifeInv /\ StepInv /\ CountInv

LEMMA AccountsInit == RunInit => AccountsInv
<1>1. RunInit => Init
  BY DEF RunInit
<1> QED
  BY <1>1, RunInvInit, RateInit, InitInv, FillsInit, PlacesInit, OthersInit DEF AccountsInv

LEMMA AccountsNext == AccountsInv /\ [RunNext]_runVars => AccountsInv'
<1> SUFFICES ASSUME AccountsInv, [RunNext]_runVars PROVE AccountsInv'
  OBVIOUS
<1> USE DEF AccountsInv
<1>1. [Next]_vars
  BY ExecutorStep
<1>2. IInv' /\ FillsInv'
  BY <1>1, NextInv, FillsNext
<1>3. PlacesInv'
  BY <1>2, PlacesNext
<1> QED
  BY <1>2, <1>3, RunInvNext, RateNext, LifeNext, StepNext, CountNext

LEMMA AccountsKept == RunSpec => []AccountsInv
BY AccountsInit, AccountsNext, PTL DEF RunSpec

LEMMA AccountsAgree == AccountsInv => BooksAgree
<1> SUFFICES ASSUME AccountsInv PROVE BooksAgree
  OBVIOUS
<1> USE DEF AccountsInv
<1>1. PlacesAre(positions, orders, executions)
  BY DEF PlacesInv
<1>2. ASSUME NEW t \in DOMAIN positions
      PROVE  /\ t \in Tokens /\ positions[t] \in Position
             /\ positions[t].realized
                  = Plus(Whole(Cash(t)), Times(positions[t].net, positions[t].avg))
  BY <1>1, SoundIs, CashIs DEF PlacesAre
<1>3. MoneyAddsUp
  BY <1>2 DEF MoneyAddsUp
<1>4. PositionsMatchOrders
  <2>1. \A t \in Tokens : Net(t) = NetOf(orders, t)
    BY <1>1 DEF PlacesAre, Net
  <2> QED
    BY <2>1, MatchIs
<1>5. RunTypeOK
  <2>1. \A t \in Tokens : books[t].recv \subseteq Nat
    <3>1. \A t \in Tokens : books[t] \in Books
      BY DEF RunInv, BookInv
    <3> QED
      BY <3>1, BookParts
  <2>2. \A a \in Assets : reference[a] \subseteq Nat
    BY DEF RunInv, ReferenceInv
  <2>3. \A t \in DOMAIN positions :
           /\ t \in Tokens /\ positions[t].net \in Int
           /\ positions[t].avg \in Fraction /\ positions[t].realized \in Fraction
    <3>1. ASSUME NEW r \in Fractions PROVE r \in Fraction
      <4>1. r[1] \in Int /\ r[2] \in Nat \ {0} /\ r = Ratio(r[1], r[2])
        BY FractionParts
      <4>2. r = <<r[1], r[2]>>
        <5>1. \A n, d : Ratio(n, d) = <<Ratio(n, d)[1], Ratio(n, d)[2]>>
          BY DEF Ratio
        <5> QED
          BY <4>1, <5>1
      <4> QED
        BY <4>1, <4>2 DEF Fraction
    <3>2. \A q \in Position : q.net \in Int /\ q.avg \in Fractions /\ q.realized \in Fractions
      BY DEF Position
    <3> QED
      BY <1>2, <3>1, <3>2
  <2>4. orderTimes \in Seq(Nat) /\ Len(orderTimes) <= Len(orders)
    BY DEF RateInv, CountInv
  <2> QED
    BY <2>1, <2>2, <2>3, <2>4 DEF RunTypeOK, LifeInv, StepInv
<1> QED
  BY <1>3, <1>4, <1>5 DEF BooksAgree

(* The three accounts of a run agree in every state: orders, positions and *)
(* money, for any markets, events, prices, fees and limits.                *)
THEOREM ThreeAccountsAgree == RunSpec => []BooksAgree
BY AccountsKept, AccountsAgree, PTL

-----------------------------------------------------------------------------
(* The drawdown halt. *)
LEMMA WorthIs ==
  ASSUME AccountsInv, NEW t \in DOMAIN positions
  PROVE  Worth(t) = Plus(positions[t].realized, Unrealized(positions[t]))
<1> DEFINE q == positions[t]
           c == Cash(t)
           value == {Times(q.net, m) : m \in q.mark}
<1>1. q \in Position /\ c \in Int /\ q.realized = Plus(Whole(c), Times(q.net, q.avg))
  BY SoundIs, CashIs DEF AccountsInv, PlacesInv, PlacesAre
<1>2. Worth(t) = Plus(Whole(c), IF value = {} THEN Times(q.net, q.avg)
                                ELSE CHOOSE v \in value : TRUE)
  BY DEF Worth
<1> HIDE DEF c, q
<1>3. /\ q.net \in Int /\ q.avg \in Fractions /\ q.mark \in Marks /\ q.realized \in Fractions
  BY <1>1 DEF Position
<1>4. CASE q.mark = {}
  <2>1. value = {} /\ Unrealized(q) = Whole(0)
    BY <1>4 DEF Unrealized
  <2>2. Plus(q.realized, Whole(0)) = q.realized
    BY <1>3, PlusZero
  <2> QED
    BY <1>1, <1>2, <2>1, <2>2 DEF q
<1>5. CASE q.mark # {}
  <2>1. PICK m \in q.mark : TRUE
    BY <1>5
  <2>2. m \in Fractions /\ \A k \in q.mark : k = m
    BY <1>3, <2>1 DEF Marks
  <2>3. value = {Times(q.net, m)}
    BY <2>1, <2>2
  <2>4. Unrealized(q) = Times(q.net, Minus(m, q.avg))
    BY <1>3, <2>1, UnrealizedIs
  <2>5. Worth(t) = Plus(Whole(c), Times(q.net, m))
    BY <1>2, <2>3
  <2>6. Plus(Plus(Whole(c), Times(q.net, q.avg)), Times(q.net, Minus(m, q.avg)))
          = Plus(Whole(c), Times(q.net, m))
    BY <1>1, <1>3, <2>2, HoldingsAtMark
  <2> QED
    BY <1>1, <2>4, <2>5, <2>6 DEF q
<1> QED
  BY <1>4, <1>5

LEMMA OpensSolvent ==
  ASSUME AccountsInv, [RunNext]_runVars, Opens
  PROVE  ~ AtMost(Total([t \in DOMAIN positions |-> Worth(t)], Tokens), Whole(-DrawdownLimit))
<1>0. RunInv /\ Len(orders) \in Nat /\ Len(orders') > Len(orders)
  BY DEF AccountsInv, RunInv, OrdersInv, Opens
<1>1. orders' # orders /\ Len(orders') # Len(orders)
  BY <1>0
<1>2. ~ SimulateNext
  BY <1>0, <1>1, SimulateKeeps
<1>3. Evaluate
  BY <1>1, <1>2 DEF RunNext, Receive, SimulateDone, EvaluateDone, MarkPositions, Finished, runVars,
                    executor, vars
<1>4. ~ AtMost(Equity, Whole(-DrawdownLimit))
  BY <1>0, <1>1, <1>3, EvaluateKeeps DEF Approved
<1>5. [t \in DOMAIN positions |-> Worth(t)]
        = [t \in DOMAIN positions |-> Plus(positions[t].realized, Unrealized(positions[t]))]
  BY WorthIs
<1> QED
  BY <1>4, <1>5 DEF Equity

(* However the positions came about, no order is opened while the money    *)
(* and what is held are worth DrawdownLimit less than at the start.        *)
THEOREM HaltsAtDrawdown == RunSpec => StopsAtDrawdown
<1>1. AccountsInv /\ [RunNext]_runVars =>
        [Opens => ~ AtMost(Total([t \in DOMAIN positions |-> Worth(t)], Tokens),
                           Whole(-DrawdownLimit))]_runVars
  BY OpensSolvent
<1> QED
  BY AccountsKept, <1>1, PTL DEF RunSpec, StopsAtDrawdown

-----------------------------------------------------------------------------
(* Every order is a buy, so no position is short and what a position holds *)
(* at cost is what its P&L is ahead of the money.                          *)
LEMMA NeverShort ==
  ASSUME RunInv, TypeOK, NEW t
  PROVE  NetOf(orders, t) \in Nat
<1>1. /\ orders \in Seq(Order) /\ DOMAIN orders = 1..Len(orders) /\ Len(orders) \in Nat
      /\ \A o \in DOMAIN orders : orders[o].side = "Buy"
  BY DEF TypeOK, RunInv, OrdersInv, IsOrder
<1>2. \A o \in DOMAIN orders : SignedSizes(orders)[o] \in Nat
  <2> SUFFICES ASSUME NEW o \in DOMAIN orders PROVE SignedSizes(orders)[o] \in Nat
    OBVIOUS
  <2>1. orders[o] \in Order
    BY <1>1
  <2>2. orders[o].filled \in Nat
    BY <2>1 DEF Order
  <2> QED
    BY <1>1, <2>2 DEF SignedSizes, Signed
<1>3. InToken(orders, t) \subseteq DOMAIN orders /\ IsFiniteSet(DOMAIN orders)
  BY <1>1, IntervalGrows DEF InToken
<1>4. IsFiniteSet(InToken(orders, t)) /\ \A o \in InToken(orders, t) : SignedSizes(orders)[o] \in Nat
  BY <1>2, <1>3, FS_Subset
<1> QED
  BY <1>4, SumNat DEF NetOf

LEMMA HeldAtCost ==
  ASSUME AccountsInv, NEW t \in DOMAIN positions
  PROVE  /\ Cash(t) \in Int /\ Notional(positions[t]) \in Fractions
         /\ Notional(positions[t]) = Times(positions[t].net, positions[t].avg)
         /\ positions[t].realized = Plus(Whole(Cash(t)), Notional(positions[t]))
<1> DEFINE q == positions[t]
<1>1. q \in Position /\ Cash(t) \in Int /\ q.realized = Plus(Whole(Cash(t)), Times(q.net, q.avg))
      /\ q.net = NetOf(orders, t)
  BY SoundIs, CashIs DEF AccountsInv, PlacesInv, PlacesAre
<1>2. NetOf(orders, t) \in Nat
  BY NeverShort DEF AccountsInv, IInv
<1> HIDE DEF q
<1>3. q.net \in Nat /\ q.avg \in Fractions
  BY <1>1, <1>2 DEF Position
<1>4. Magnitude(q.net) = q.net
  BY <1>3 DEF Magnitude
<1>5. Notional(q) = Times(q.net, q.avg)
  BY <1>4 DEF Notional
<1>6. Times(q.net, q.avg) \in Fractions
  BY <1>3, FractionTypes
<1> QED
  BY <1>1, <1>5, <1>6 DEF q

(* What a position was bought for, fees left out: whatever mix of makers   *)
(* and takers bought it, it is what the average price says it holds.       *)
CostsIn(s) == [n \in DOMAIN s |-> s[n].size * s[n].price]

LEMMA BoughtOnce ==
  ASSUME NEW held \in Accounts, NEW fill \in Fill, held.position.net \in Nat,
         held.position.gross = Whole(0), fill.size > 0
  PROVE  LET after == Booked(held, fill) IN
         after.position.net \in Nat /\ after.position.gross = Whole(0)
<1> DEFINE q == held.position
           after == ApplyFill(q, fill.size, fill.price, fill.fee)
<1>1. /\ q \in Position /\ fill.size \in Int
      /\ Booked(held, fill).position = after /\ after.net = q.net + fill.size
  BY BookedOnce DEF Accounts, Holdings, Fill
<1>2. q.net = 0 \/ SameSign(q.net, fill.size)
  BY <1>1 DEF SameSign
<1>3. after.gross = Plus(q.gross, Whole(0))
  BY <1>1, <1>2 DEF ApplyFill, Position
<1>4. Plus(Whole(0), Whole(0)) = Whole(0)
  BY FractionTypes, PlusZero
<1> HIDE DEF after, q
<1>5. after.net \in Nat /\ after.gross = Whole(0)
  BY <1>1, <1>3, <1>4 DEF q
<1> QED
  BY <1>1, <1>5

LEMMA BoughtFold ==
  ASSUME NEW base \in Accounts, NEW s \in Seq(Fill), base.position.net \in Nat,
         base.position.gross = Whole(0), \A n \in DOMAIN s : s[n].size > 0
  PROVE  FoldLeft(Booked, base, s).position.gross = Whole(0)
<1>1. PICK a \in [0..Len(s) -> Accounts] :
         /\ a[0] = base
         /\ \A k \in 0..(Len(s) - 1) : a[k + 1] = Booked(a[k], s[k + 1])
         /\ a[Len(s)] = FoldLeft(Booked, base, s)
  BY BookedSteps
<1> DEFINE n == Len(s)
           Q == {k \in Nat : k <= n => a[k].position.net \in Nat /\ a[k].position.gross = Whole(0)}
<1>2. n \in Nat /\ DOMAIN s = 1..n /\ \A k \in 1..n : s[k] \in Fill /\ s[k].size > 0
  OBVIOUS
<1>3. 0 \in Q
  BY <1>1
<1>4. ASSUME NEW k \in Nat, k \in Q PROVE k + 1 \in Q
  <2> SUFFICES ASSUME k + 1 <= n
               PROVE  a[k + 1].position.net \in Nat /\ a[k + 1].position.gross = Whole(0)
    OBVIOUS
  <2>1. k \in 0..(n - 1) /\ k \in 0..n /\ k + 1 \in 1..n /\ k <= n
    BY <1>2
  <2> DEFINE held == a[k]
             fill == s[k + 1]
  <2>2. /\ held \in Accounts /\ fill \in Fill /\ fill.size > 0 /\ a[k + 1] = Booked(held, fill)
        /\ held.position.net \in Nat /\ held.position.gross = Whole(0)
    BY <1>1, <1>2, <1>4, <2>1
  <2> HIDE DEF held, fill
  <2> QED
    BY <2>2, BoughtOnce
<1> HIDE DEF Q
<1>5. n \in Q
  BY <1>2, <1>3, <1>4, NatSetInduction
<1> QED
  BY <1>1, <1>2, <1>5 DEF Q

(* The cost of the fills of a buy, and when they all were at one price. *)
LEMMA BoughtFor ==
  ASSUME NEW x \in Execution
  PROVE  LET s == FillsOf("Buy", x) IN
         /\ s \in Seq(Fill) /\ \A n \in DOMAIN s : s[n].size > 0
         /\ SumOf(CostsIn(s)) \in Nat
         /\ SumOf(PaidIn(s)) = SumOf(CostsIn(s)) + SumOf(FeesIn(s))
         /\ SumOf(FeesIn(s)) \in Int
         /\ \A price \in Int :
              (\A p \in Prices : x.by[p] > 0 => p = price)
                => SumOf(CostsIn(s)) = price * SumLevels(x.by, Prices)
<1> DEFINE s == FillsOf("Buy", x)
<1>1. s \in Seq(Fill)
  BY FillsOfAre DEF Sides
<1>2. PICK f \in Seq(TakenPrices(x)) :
         /\ {f[n] : n \in 1..Len(f)} = TakenPrices(x)
         /\ s = [n \in 1..Len(f) |-> FillAt("Buy", x, f[n])]
  BY FillsOfEach, ZenonT(60) DEF Sides
<1>3. \A n \in DOMAIN s : /\ s[n].size = x.by[s[n].price] /\ s[n].size > 0
                          /\ s[n].price \in Prices /\ x.by[s[n].price] > 0
  <2> SUFFICES ASSUME NEW n \in 1..Len(f)
               PROVE  /\ s[n].size = x.by[s[n].price] /\ s[n].size > 0
                      /\ s[n].price \in Prices /\ x.by[s[n].price] > 0
    BY <1>2
  <2>1. f[n] \in TakenPrices(x)
    BY <1>2
  <2>2. f[n] \in Prices /\ x.by[f[n]] > 0
    BY <2>1 DEF TakenPrices, Execution, Levels
  <2>3. s[n].price = f[n] /\ s[n].size = x.by[f[n]]
    BY <1>2, SMTT(60) DEF FillAt
  <2> QED
    BY <2>2, <2>3
<1>4. DOMAIN s = 1..Len(s) /\ Len(s) \in Nat /\ IsFiniteSet(DOMAIN s)
  <2>1. DOMAIN s = 1..Len(s) /\ Len(s) \in Nat
    BY <1>1
  <2> QED
    BY <2>1, IntervalGrows
<1>5. SumOf(SizesOf(s)) = SumLevels(x.by, Prices)
  BY FillsPay DEF Sides, SignedSize
<1> HIDE DEF s
<1>6. /\ DOMAIN CostsIn(s) = DOMAIN s /\ DOMAIN FeesIn(s) = DOMAIN s /\ DOMAIN PaidIn(s) = DOMAIN s
      /\ DOMAIN SizesOf(s) = DOMAIN s
      /\ \A n \in DOMAIN s : /\ CostsIn(s)[n] = s[n].size * s[n].price
                             /\ FeesIn(s)[n] = s[n].fee
                             /\ SizesOf(s)[n] = s[n].size
                             /\ PaidIn(s)[n] = s[n].size * s[n].price + s[n].fee
  BY DEF CostsIn, FeesIn, PaidIn, SizesOf
<1>7. \A n \in DOMAIN s : /\ s[n].size \in Nat /\ s[n].price \in Nat /\ s[n].fee \in Int
  <2> SUFFICES ASSUME NEW n \in DOMAIN s
               PROVE  s[n].size \in Nat /\ s[n].price \in Nat /\ s[n].fee \in Int
    OBVIOUS
  <2>1. s[n] \in Fill
    BY <1>1
  <2> QED
    BY <1>3, <2>1, MaxPriceAssumption DEF Fill, Prices
<1>8. \A n \in DOMAIN s : /\ CostsIn(s)[n] \in Nat
                          /\ FeesIn(s)[n] \in Int /\ SizesOf(s)[n] \in Int
                          /\ PaidIn(s)[n] = CostsIn(s)[n] + FeesIn(s)[n]
  <2>1. \A a, b \in Nat : a * b \in Nat
    OBVIOUS
  <2> QED
    BY <1>6, <1>7, <2>1
<1>9. SumOf(CostsIn(s)) \in Nat
  <2>1. \A n \in DOMAIN s : CostsIn(s)[n] \in Nat
    BY <1>8
  <2> QED
    BY <1>4, <1>6, <2>1, SumNat DEF SumOf
<1>10. SumOf(PaidIn(s)) = SumOf(CostsIn(s)) + SumOf(FeesIn(s))
  <2>1. IsSum(PaidIn(s), CostsIn(s), FeesIn(s), DOMAIN s)
    BY <1>8 DEF IsSum
  <2> QED
    BY <1>4, <1>6, <2>1, SumBoth DEF SumOf
<1>11. SumOf(FeesIn(s)) \in Int
  <2>1. \A n \in DOMAIN s : FeesIn(s)[n] \in Int
    BY <1>8
  <2> QED
    BY <1>4, <1>6, <2>1, SumType DEF SumOf
<1>12. ASSUME NEW price \in Int, \A p \in Prices : x.by[p] > 0 => p = price
       PROVE  SumOf(CostsIn(s)) = price * SumLevels(x.by, Prices)
  <2>1. \A n \in DOMAIN s : SizesOf(s)[n] \in Int /\ CostsIn(s)[n] = price * SizesOf(s)[n]
    <3> SUFFICES ASSUME NEW n \in DOMAIN s
                 PROVE  CostsIn(s)[n] = price * SizesOf(s)[n]
      BY <1>8
    <3>1. s[n].price = price
      BY <1>3, <1>12
    <3> QED
      BY <1>6, <1>7, <3>1
  <2>2. SumFunctionOnSet(CostsIn(s), DOMAIN s) = price * SumFunctionOnSet(SizesOf(s), DOMAIN s)
    BY <1>4, <2>1, SumScaled
  <2> QED
    BY <1>5, <1>6, <2>2 DEF SumOf
<1> QED
  BY <1>1, <1>3, <1>9, <1>10, <1>11, <1>12 DEF s

LEMMA BookedBought ==
  ASSUME NEW q, NEW c, Sound(q, c), q.net \in Nat, q.gross = Whole(0), NEW x \in Execution
  PROVE  LET s == FillsOf("Buy", x)
             after == AfterFills(q, s)
         IN /\ after.gross = Whole(0) /\ after.fees \in Int
            /\ -(c + Flow("Buy", x)) - after.fees = (-c - q.fees) + SumOf(CostsIn(s))
<1>1. PICK S \in SUBSET Prices : [position |-> q, cash |-> c, entries |-> S] \in Accounts
  BY DEF Sound
<1> DEFINE base == [position |-> q, cash |-> c, entries |-> S]
           s == FillsOf("Buy", x)
           h == FoldLeft(Booked, base, s)
<1>2. base.position = q /\ base.cash = c /\ base \in Accounts /\ c \in Int /\ q.fees \in Int
  BY <1>1 DEF Accounts, Holdings, Position
<1>3. /\ s \in Seq(Fill) /\ \A n \in DOMAIN s : s[n].size > 0
      /\ SumOf(CostsIn(s)) \in Nat /\ SumOf(FeesIn(s)) \in Int
      /\ SumOf(PaidIn(s)) = SumOf(CostsIn(s)) + SumOf(FeesIn(s))
  BY BoughtFor
<1>4. SumOf(PaidIn(s)) = -Flow("Buy", x) /\ Flow("Buy", x) \in Int
  BY FillsPay DEF Sides
<1> HIDE DEF base, s
<1>5. h.position.fees = base.position.fees + SumOf(FeesIn(s))
  BY <1>2, <1>3, BookedFold
<1>6. h.position.gross = Whole(0)
  BY <1>2, <1>3, BoughtFold
<1>7. AfterFills(q, s) = h.position
  BY <1>2, <1>3, AfterFillsIs
<1> HIDE DEF h
<1>8. /\ h.position.fees \in Int
      /\ -(c + Flow("Buy", x)) - h.position.fees = (-c - q.fees) + SumOf(CostsIn(s))
  <2> DEFINE v == SumOf(CostsIn(s))
             e == SumOf(FeesIn(s))
             flow == Flow("Buy", x)
             f == q.fees
             g == h.position.fees
  <2>1. /\ v \in Int /\ e \in Int /\ flow \in Int /\ f \in Int /\ c \in Int
        /\ -flow = v + e /\ g = f + e
    BY <1>2, <1>3, <1>4, <1>5
  <2> HIDE DEF v, e, flow, f, g
  <2>2. g \in Int /\ -(c + flow) - g = (-c - f) + v
    BY <2>1
  <2> QED
    BY <2>2 DEF v, flow, f, g
<1> QED
  BY <1>6, <1>7, <1>8 DEF s

LEMMA SolvesFor ==
  ASSUME NEW a \in Fractions, NEW k \in Int, Plus(a, Whole(k)) = Whole(0)
  PROVE  a = Whole(-k)
<1>1. Whole(k) \in Fractions /\ Whole(-k) \in Fractions /\ -k \in Int
  BY FractionTypes
<1>2. Plus(Whole(k), Whole(-k)) = Whole(0)
  <2>1. Plus(Whole(k), Whole(-k)) = Whole(k + -k) /\ k + -k = 0
    BY <1>1, WholePlus
  <2> QED
    BY <2>1
<1>3. Plus(Plus(a, Whole(k)), Whole(-k)) = Plus(a, Whole(0)) /\ Plus(a, Whole(0)) = a
  BY <1>1, <1>2, PlusPlus, PlusZero
<1>4. Plus(Whole(0), Whole(-k)) = Whole(-k)
  <2>1. Plus(Whole(0), Whole(-k)) = Whole(0 + -k) /\ 0 + -k = -k
    BY <1>1, WholePlus
  <2> QED
    BY <2>1
<1> QED
  BY <1>3, <1>4

LEMMA HoldsItsCost ==
  ASSUME NEW q, NEW c, Sound(q, c), q.gross = Whole(0)
  PROVE  /\ -c - q.fees \in Int
         /\ Times(q.net, q.avg) = Whole(-c - q.fees)
<1>1. PICK S \in SUBSET Prices : [position |-> q, cash |-> c, entries |-> S] \in Accounts
  BY DEF Sound
<1>2. /\ q \in Position /\ c \in Int
      /\ q.realized = Plus(Whole(c), Times(q.net, q.avg))
      /\ q.gross = Plus(q.realized, Whole(q.fees))
  BY <1>1 DEF Accounts, Holdings, Balanced
<1> DEFINE a == Times(q.net, q.avg)
           fee == q.fees
<1>3. a \in Fractions /\ fee \in Int /\ Whole(c) \in Fractions /\ Whole(fee) \in Fractions
  BY <1>2, FractionTypes DEF Position
<1>4. Plus(Plus(Whole(c), a), Whole(fee)) = Whole(0)
  BY <1>2
<1> HIDE DEF a, fee
<1>5. Plus(Plus(a, Whole(c)), Whole(fee)) = Plus(a, Whole(c + fee))
  BY <1>2, <1>3, PlusPlus, WholePlus
<1>6. Plus(Whole(c), a) = Plus(a, Whole(c))
  BY <1>3, PlusSwap
<1>7. c + fee \in Int /\ Plus(a, Whole(c + fee)) = Whole(0)
  BY <1>2, <1>3, <1>4, <1>5, <1>6
<1>8. a = Whole(-(c + fee)) /\ -(c + fee) = -c - fee /\ -c - fee \in Int
  BY <1>2, <1>3, <1>7, SolvesFor
<1> QED
  BY <1>8 DEF a, fee

-----------------------------------------------------------------------------
(* What the makers of a token have bought for.  Takers only add to that.   *)
MakerCosts(s) == [o \in DOMAIN s |-> IF s[o].kind = "Maker" THEN s[o].price * s[o].filled ELSE 0]
MakerSpent(s, t) == SumFunctionOnSet(MakerCosts(s), InToken(s, t))

SameOrder(a, b) == a.kind = b.kind /\ a.price = b.price /\ a.token = b.token
Follows(s, r, o) ==
  /\ s \in Seq(Order) /\ r \in Seq(Order)
  /\ DOMAIN r = DOMAIN s \cup {o}
  /\ \A y \in DOMAIN s : y # o => r[y] = s[y]
  /\ o \in DOMAIN s => SameOrder(r[o], s[o])

LEMMA MakerCostType ==
  ASSUME NEW s \in Seq(Order), NEW o \in DOMAIN s
  PROVE  /\ MakerCosts(s)[o] = (IF s[o].kind = "Maker" THEN s[o].price * s[o].filled ELSE 0)
         /\ MakerCosts(s)[o] \in Int /\ s[o].price \in Int /\ s[o].filled \in Int
<1>1. s[o] \in Order
  OBVIOUS
<1>2. s[o].price \in Int /\ s[o].filled \in Int
  BY <1>1 DEF Order
<1>3. MakerCosts(s)[o] = (IF s[o].kind = "Maker" THEN s[o].price * s[o].filled ELSE 0)
  BY DEF MakerCosts
<1> QED
  BY <1>2, <1>3

LEMMA MakerGrows ==
  ASSUME NEW s, NEW r, NEW o, NEW more \in Int, Follows(s, r, o),
         r[o].filled = Filled(s, o) + more, NEW t
  PROVE  /\ MakerSpent(r, t)
              = MakerSpent(s, t) + (IF r[o].token = t /\ r[o].kind = "Maker"
                                    THEN r[o].price * more ELSE 0)
         /\ MakerSpent(s, t) \in Int
<1> DEFINE S == InToken(s, t)
           T == InToken(r, t)
           f == MakerCosts(s)
           g == MakerCosts(r)
           d == IF r[o].token = t /\ r[o].kind = "Maker" THEN r[o].price * more ELSE 0
<1>1. /\ s \in Seq(Order) /\ r \in Seq(Order) /\ o \in DOMAIN r
      /\ DOMAIN r = DOMAIN s \cup {o}
      /\ \A y \in DOMAIN s : y # o => r[y] = s[y]
      /\ o \in DOMAIN s => r[o].kind = s[o].kind /\ r[o].price = s[o].price
                           /\ r[o].token = s[o].token
  BY DEF Follows, SameOrder
<1>2. IsFiniteSet(S) /\ S \subseteq DOMAIN s
  <2>1. DOMAIN s = 1..Len(s) /\ Len(s) \in Nat
    BY <1>1
  <2>2. IsFiniteSet(DOMAIN s) /\ S \subseteq DOMAIN s
    BY <2>1, IntervalGrows DEF InToken
  <2> HIDE DEF S
  <2> QED
    BY <2>2, FS_Subset
<1>3. /\ \A y \in DOMAIN s : f[y] \in Int
      /\ g[o] = (IF r[o].kind = "Maker" THEN r[o].price * r[o].filled ELSE 0)
      /\ r[o].price \in Int
      /\ o \in DOMAIN s => /\ f[o] = (IF s[o].kind = "Maker" THEN s[o].price * s[o].filled ELSE 0)
                           /\ s[o].filled \in Int
  BY <1>1, MakerCostType
<1>4. S \subseteq T /\ T \subseteq S \cup {o}
  BY <1>1 DEF InToken
<1>5. \A y \in T \ {o} : g[y] = f[y]
  <2> SUFFICES ASSUME NEW y \in T, y # o PROVE g[y] = f[y]
    OBVIOUS
  <2>1. y \in DOMAIN s /\ y \in DOMAIN r /\ r[y] = s[y]
    BY <1>1 DEF InToken
  <2> QED
    BY <2>1 DEF MakerCosts
<1>6. o \in T <=> r[o].token = t
  BY <1>1 DEF InToken
<1>7. o \in S <=> o \in DOMAIN s /\ r[o].token = t
  BY <1>1 DEF InToken
<1>8. d \in Int /\ (o \notin T => d = 0)
  BY <1>3, <1>6
<1>9. o \in T => g[o] = (IF o \in S THEN f[o] ELSE 0) + d
  <2> SUFFICES ASSUME o \in T PROVE g[o] = (IF o \in S THEN f[o] ELSE 0) + d
    OBVIOUS
  <2>1. d = IF r[o].kind = "Maker" THEN r[o].price * more ELSE 0
    BY <1>6
  <2>2. CASE o \in DOMAIN s
    <3>1. r[o].filled = s[o].filled + more
      BY <2>2 DEF Filled
    <3>2. o \in S
      BY <1>6, <1>7, <2>2
    <3>3. r[o].price * (s[o].filled + more) = r[o].price * s[o].filled + r[o].price * more
      BY <1>3, <2>2, MulDist
    <3> HIDE DEF d, f, g, S
    <3> QED
      BY <1>1, <1>3, <2>1, <2>2, <3>1, <3>2, <3>3, SMTT(60)
  <2>3. CASE o \notin DOMAIN s
    <3>1. r[o].filled = more /\ o \notin S
      BY <1>7, <2>3 DEF Filled
    <3> HIDE DEF d, f, g, S
    <3> QED
      BY <1>3, <1>8, <2>1, <3>1
  <2> QED
    BY <2>2, <2>3
<1>10. \A y \in S : f[y] \in Int
  BY <1>2, <1>3
<1>11. GrowsBy(d, o, f, S, g, T)
  <2> HIDE DEF S, T, f, g, d
  <2> QED
    BY <1>2, <1>4, <1>5, <1>8, <1>9, <1>10 DEF GrowsBy
<1> QED
  BY <1>11, SumGrown DEF MakerSpent

-----------------------------------------------------------------------------
(* No position realizes anything, and makers have spent no more than it    *)
(* cost.                                                                   *)
BoughtAre(p, s, e) ==
  /\ \A t \in DOMAIN p : /\ p[t].gross = Whole(0)
                         /\ MakerSpent(s, t) <= -CashOf(s, e, t) - p[t].fees
  /\ \A t \in Tokens \ DOMAIN p : MakerSpent(s, t) = 0
BoughtInv == BoughtAre(positions, orders, executions)

LEMMA BoughtInit == RunInit => BoughtInv
<1> SUFFICES ASSUME RunInit PROVE BoughtInv
  OBVIOUS
<1>1. orders = << >> /\ executions = << >> /\ positions = << >>
  BY DEF RunInit, Init
<1>2. \A t : InToken(<< >>, t) = {}
  BY DEF InToken
<1>3. \A t : MakerSpent(<< >>, t) = 0
  BY <1>2, SumEmpty DEF MakerSpent
<1>4. DOMAIN << >> = {}
  OBVIOUS
<1> QED
  BY <1>1, <1>3, <1>4 DEF BoughtInv, BoughtAre

LEMMA MarkKeepsCost ==
  ASSUME NEW q \in Position, NEW r, Marked(q, r)
  PROVE  r.gross = q.gross /\ r.fees = q.fees
BY DEF Marked, Position

LEMMA BoughtMarks ==
  ASSUME PlacesInv, BoughtInv, OnlyMarks
  PROVE  BoughtInv'
<1>1. \A t \in DOMAIN positions : positions[t] \in Position
  BY SoundIs DEF PlacesInv, PlacesAre
<1>2. /\ orders' = orders /\ executions' = executions /\ DOMAIN positions' = DOMAIN positions
      /\ \A t \in DOMAIN positions : /\ positions'[t].gross = positions[t].gross
                                     /\ positions'[t].fees = positions[t].fees
  BY <1>1, MarkKeepsCost DEF OnlyMarks
<1>3. BoughtAre(positions', orders, executions)
  BY <1>2 DEF BoughtInv, BoughtAre
<1> QED
  BY <1>2, <1>3 DEF BoughtInv

LEMMA BoughtRecord ==
  ASSUME RunInv, RunInv', TypeOK, TypeOK', FillsTyped, PlacesInv, BoughtInv,
         FillsStep, RecordPaperResult
  PROVE  BoughtInv'
<1>1. PICK o \in Nat : /\ IsAbout(o)
                       /\ \/ executions' = executions /\ orders'[o].filled = Filled(orders, o)
                          \/ \E x : Fills(o, x)
  BY DEF FillsStep
<1>2. Keeps(orders, orders', o) /\ Follows(orders, orders', o)
  <2>1. Keeps(orders, orders', o)
    BY <1>1, AboutKeeps
  <2>2. orders \in Seq(Order) /\ orders' \in Seq(Order)
    BY DEF TypeOK
  <2> QED
    BY <1>1, <2>1, <2>2 DEF Follows, IsAbout, SameOrder
<1>3. /\ executions \in Seq(Execution)
      /\ \A n \in DOMAIN executions : executions[n].order \in DOMAIN orders
  BY DEF FillsTyped
<1>4. BoughtAre(positions, orders, executions) /\ PlacesAre(positions, orders, executions)
  BY DEF BoughtInv, PlacesInv
<1>5. /\ o \in DOMAIN orders' /\ orders'[o].token \in Tokens /\ orders'[o].side = "Buy"
      /\ orders'[o].price \in Int /\ orders'[o].filled \in Int
  <2>1. orders' \in Seq(Order) /\ o \in DOMAIN orders'
    BY <1>1 DEF TypeOK, IsAbout
  <2>2. orders'[o] \in Order
    BY <2>1
  <2>3. orders'[o].side = "Buy"
    BY <2>1 DEF RunInv, OrdersInv, IsOrder
  <2> QED
    BY <2>1, <2>2, <2>3 DEF Order
<1>6. Filled(orders, o) \in Int
  <2>1. orders \in Seq(Order)
    BY DEF TypeOK
  <2>2. o \in DOMAIN orders => orders[o].filled \in Int
    BY <2>1, OrderIs
  <2> QED
    BY <2>2 DEF Filled
<1>7. CASE executions' = executions /\ orders'[o].filled = Filled(orders, o)
  <2>1. positions' = positions
    BY <1>7 DEF RecordPaperResult
  <2>2. \A t : CashOf(orders', executions, t) = CashOf(orders, executions, t)
    BY <1>2, <1>3, CashStays
  <2>3. orders'[o].filled = Filled(orders, o) + 0
    BY <1>6, <1>7
  <2>4. ASSUME NEW t PROVE MakerSpent(orders', t) = MakerSpent(orders, t)
    <3> DEFINE d == IF orders'[o].token = t /\ orders'[o].kind = "Maker"
                    THEN orders'[o].price * 0 ELSE 0
    <3>1. MakerSpent(orders', t) = MakerSpent(orders, t) + d /\ MakerSpent(orders, t) \in Int
      BY <1>2, <2>3, MakerGrows
    <3>2. d = 0
      BY <1>5
    <3> HIDE DEF d
    <3> QED
      BY <3>1, <3>2
  <2>5. BoughtAre(positions, orders', executions)
    BY <1>4, <2>2, <2>4 DEF BoughtAre
  <2> QED
    BY <1>7, <2>1, <2>5 DEF BoughtInv
<1>8. ASSUME NEW x, Fills(o, x) PROVE BoughtInv'
  <2> DEFINE t == orders'[o].token
             size == SumLevels(x.by, Prices)
             held == IF t \in DOMAIN positions THEN positions[t] ELSE NewPosition
             s == FillsOf("Buy", x)
             after == AfterFills(held, s)
             c == CashOf(orders, executions, t)
             flow == Flow("Buy", x)
             cost == SumOf(CostsIn(s))
             spent == MakerSpent(orders, t)
             d == IF orders'[o].kind = "Maker" THEN orders'[o].price * size ELSE 0
  <2>1. /\ executions' = Append(executions, x) /\ x \in Execution /\ x.order = o
        /\ orders'[o].filled = Filled(orders, o) + size
        /\ \A p \in Prices : x.by[p] > 0 => AllowedAt(orders'[o], p)
    BY <1>8 DEF Fills
  <2>2. positions' = Put(positions, t, after)
    <3>1. Len(executions') # Len(executions) /\ Last(executions') = x
      BY <1>3, <2>1 DEF Last
    <3> QED
      BY <1>5, <2>1, <3>1 DEF RecordPaperResult
  <2>3. size \in Int
    <3>1. x.by \in Levels
      BY <2>1 DEF Execution
    <3> QED
      BY <3>1, DepthType
  <2>4. /\ Sound(held, c) /\ held.net \in Nat /\ held.gross = Whole(0)
        /\ spent <= -c - held.fees /\ held.fees \in Int /\ c \in Int
    <3>1. CASE t \in DOMAIN positions
      <4>1. /\ Sound(positions[t], c) /\ positions[t].net = NetOf(orders, t)
            /\ positions[t].gross = Whole(0) /\ spent <= -c - positions[t].fees
        BY <1>4, <3>1 DEF PlacesAre, BoughtAre
      <4>2. NetOf(orders, t) \in Nat
        BY NeverShort
      <4>3. positions[t] \in Position /\ c \in Int
        BY <4>1, SoundIs
      <4>4. positions[t].fees \in Int
        BY <4>3 DEF Position
      <4> HIDE DEF c, t, spent
      <4> QED
        BY <3>1, <4>1, <4>2, <4>3, <4>4
    <3>2. CASE t \notin DOMAIN positions
      <4>1. c = 0 /\ spent = 0
        BY <1>4, <1>5, <3>2 DEF PlacesAre, BoughtAre
      <4>2. /\ Sound(NewPosition, 0) /\ NewPosition.net = 0
            /\ NewPosition.gross = Whole(0) /\ NewPosition.fees = 0
        BY NewSound DEF NewPosition
      <4>3. held = NewPosition
        BY <3>2
      <4> HIDE DEF c, t, spent, held
      <4> QED
        BY <4>1, <4>2, <4>3
    <3> QED
      BY <3>1, <3>2
  <2>5. \A u : CashOf(orders', executions', u)
                 = CashOf(orders, executions, u) + (IF t = u THEN flow ELSE 0)
    BY <1>2, <1>3, <1>5, <2>1, CashGrows
  <2>6. \A u : /\ MakerSpent(orders', u)
                    = MakerSpent(orders, u)
                        + (IF t = u /\ orders'[o].kind = "Maker" THEN orders'[o].price * size ELSE 0)
               /\ MakerSpent(orders, u) \in Int
    BY <1>2, <2>1, <2>3, MakerGrows
  <2>7. \A u : CashOf(orders, executions, u) \in Int
    <3>1. orders \in Seq(Order)
      BY DEF TypeOK
    <3> QED
      BY <1>3, <3>1, FilledMoney
  <2>8. flow \in Int
    BY <2>1, FillsPay DEF Sides
  <2>9. /\ after.gross = Whole(0) /\ after.fees \in Int
        /\ -(c + flow) - after.fees = (-c - held.fees) + cost
    <3> HIDE DEF held, c
    <3> QED
      BY <2>1, <2>4, BookedBought
  <2>10. cost \in Nat /\ d <= cost
    <3>1. cost \in Nat
      BY <2>1, BoughtFor
    <3>2. orders'[o].kind = "Maker" => \A p \in Prices : x.by[p] > 0 => p = orders'[o].price
      BY <2>1 DEF AllowedAt
    <3>3. orders'[o].kind = "Maker" => cost = orders'[o].price * size
      BY <1>5, <2>1, <3>2, BoughtFor
    <3> HIDE DEF cost, size
    <3> QED
      BY <3>1, <3>3
  <2>11. t \in Tokens
    BY <1>5
  <2>12. /\ CashOf(orders', executions', t) = c + flow
         /\ MakerSpent(orders', t) = spent + d /\ spent \in Int /\ d \in Int
    <3>1. d \in Int
      BY <1>5, <2>3
    <3> QED
      BY <2>5, <2>6, <3>1
  <2> HIDE DEF t, size, held, s, after, c, flow, cost, spent, d
  <2>13. /\ DOMAIN positions' = DOMAIN positions \cup {t} /\ positions'[t] = after
         /\ \A u \in DOMAIN positions : u # t => positions'[u] = positions[u]
    BY <2>2 DEF Put
  <2>14. spent + d <= -(c + flow) - after.fees
    BY <2>4, <2>8, <2>9, <2>10, <2>12
  <2>15. \A u : u # t => /\ CashOf(orders', executions', u) = CashOf(orders, executions, u)
                         /\ MakerSpent(orders', u) = MakerSpent(orders, u)
    <3> SUFFICES ASSUME NEW u, u # t
                 PROVE  /\ CashOf(orders', executions', u) = CashOf(orders, executions, u)
                        /\ MakerSpent(orders', u) = MakerSpent(orders, u)
      OBVIOUS
    <3>1. /\ CashOf(orders', executions', u) = CashOf(orders, executions, u) + 0
          /\ MakerSpent(orders', u) = MakerSpent(orders, u) + 0
      BY <2>5, <2>6
    <3>2. CashOf(orders, executions, u) \in Int /\ MakerSpent(orders, u) \in Int
      BY <2>6, <2>7
    <3> QED
      BY <3>1, <3>2
  <2>16. ASSUME NEW u \in DOMAIN positions'
         PROVE  /\ positions'[u].gross = Whole(0)
                /\ MakerSpent(orders', u) <= -CashOf(orders', executions', u) - positions'[u].fees
    <3>1. CASE u = t
      BY <2>9, <2>12, <2>13, <2>14, <3>1
    <3>2. CASE u # t
      <4>1. u \in DOMAIN positions /\ positions'[u] = positions[u]
        BY <2>13, <3>2
      <4> QED
        BY <1>4, <2>15, <3>2, <4>1 DEF BoughtAre
    <3> QED
      BY <3>1, <3>2
  <2>17. ASSUME NEW u \in Tokens \ DOMAIN positions' PROVE MakerSpent(orders', u) = 0
    BY <1>4, <2>13, <2>15 DEF BoughtAre
  <2> QED
    BY <2>16, <2>17 DEF BoughtInv, BoughtAre
<1> QED
  BY <1>1, <1>7, <1>8

LEMMA BoughtNext == AccountsInv /\ BoughtInv /\ [RunNext]_runVars => BoughtInv'
<1> SUFFICES ASSUME AccountsInv, BoughtInv, [RunNext]_runVars PROVE BoughtInv'
  OBVIOUS
<1>1. AccountsInv'
  BY AccountsNext
<1>2. /\ RunInv /\ RunInv' /\ IInv /\ IInv' /\ FillsInv /\ PlacesInv
      /\ TypeOK /\ TypeOK' /\ FillsTyped
  BY <1>1 DEF AccountsInv, IInv, FillsInv
<1>3. (FillsStep /\ RecordPaperResult) \/ OnlyMarks
  BY <1>2, PositionsStep
<1> QED
  BY <1>2, <1>3, BoughtMarks, BoughtRecord

-----------------------------------------------------------------------------
(* The shadow reads the paper run and never changes it: beside the shadow  *)
(* the run does what it does alone, and what is proved of it above holds.  *)
LEMMA ShadowStepRuns == [ShadowNext]_shadowVars => [RunNext]_runVars
<1> SUFFICES ASSUME [ShadowNext]_shadowVars PROVE RunNext \/ UNCHANGED runVars
  OBVIOUS
<1>1. CASE ShadowEvaluate
  BY <1>1 DEF ShadowEvaluate, RunNext, Evaluate, NoOrder
<1>2. CASE UNCHANGED shadowVars
  BY <1>2 DEF shadowVars
<1> QED
  BY <1>1, <1>2 DEF ShadowNext, RunNext

THEOREM ShadowOnlyWatches == ShadowSpec => RunSpec
<1>1. ShadowInit => RunInit
  BY DEF ShadowInit
<1> QED
  BY <1>1, ShadowStepRuns, PTL DEF ShadowSpec, RunSpec

(* The divergence of the report.  Every paper order is opened by a         *)
(* proposal the shadow decided on, and the shadow sends none that the      *)
(* paper risk engine refused.                                              *)
Opened(decisions) == {n \in DOMAIN decisions : decisions[n].paper # 0}
DecisionsInv ==
  /\ shadow \in Seq({shadow[n] : n \in DOMAIN shadow})
  /\ \A n \in DOMAIN shadow : shadow[n].submit => shadow[n].paper # 0
  /\ Cardinality(Opened(shadow)) = Len(orders)

LEMMA DecidedOn ==
  ASSUME DecisionsInv, NEW new, shadow' = Append(shadow, new), new.submit => new.paper # 0,
         Len(orders) \in Nat,
         Len(orders') = Len(orders) + (IF new.paper # 0 THEN 1 ELSE 0)
  PROVE  DecisionsInv'
<1> DEFINE k == Len(shadow) + 1
           S == {shadow[n] : n \in DOMAIN shadow}
<1>1. /\ shadow \in Seq(S)
      /\ \A n \in DOMAIN shadow : shadow[n].submit => shadow[n].paper # 0
      /\ Cardinality(Opened(shadow)) = Len(orders)
  BY DEF DecisionsInv
<1> HIDE DEF S
<1>2. /\ Len(shadow) \in Nat /\ DOMAIN shadow = 1..Len(shadow)
      /\ shadow' \in Seq(S \cup {new})
      /\ DOMAIN shadow' = DOMAIN shadow \cup {k} /\ k \notin DOMAIN shadow
      /\ shadow'[k] = new /\ \A n \in DOMAIN shadow : shadow'[n] = shadow[n]
  BY <1>1
<1>3. shadow' \in Seq({shadow'[n] : n \in DOMAIN shadow'})
  <2>1. \A s \in Seq(S \cup {new}) : s \in Seq({s[n] : n \in DOMAIN s})
    BY SeqOfItsOwn
  <2>2. PICK s \in Seq(S \cup {new}) : s = shadow'
    BY <1>2
  <2>3. s \in Seq({s[n] : n \in DOMAIN s})
    BY <2>1
  <2> QED
    BY <2>2, <2>3, Zenon
<1>4. Opened(shadow') = IF new.paper # 0 THEN Opened(shadow) \cup {k} ELSE Opened(shadow)
  BY <1>2 DEF Opened
<1>5. IsFiniteSet(Opened(shadow)) /\ k \notin Opened(shadow)
  <2>1. Opened(shadow) \subseteq 1..Len(shadow) /\ IsFiniteSet(1..Len(shadow))
    BY <1>2, IntervalGrows DEF Opened
  <2> QED
    BY <1>2, <2>1, FS_Subset
<1>6. Cardinality(Opened(shadow) \cup {k}) = Cardinality(Opened(shadow)) + 1
  BY <1>5, FS_AddElement
<1>7. Cardinality(Opened(shadow')) = Len(orders')
  BY <1>1, <1>4, <1>6
<1>8. \A n \in DOMAIN shadow' : shadow'[n].submit => shadow'[n].paper # 0
  BY <1>1, <1>2
<1> QED
  BY <1>3, <1>7, <1>8 DEF DecisionsInv

LEMMA DecisionsInit == ShadowInit => DecisionsInv
<1> SUFFICES ASSUME ShadowInit PROVE DecisionsInv
  OBVIOUS
<1>1. shadow = << >> /\ orders = << >>
  BY DEF ShadowInit, RunInit, Init
<1>2. Opened(shadow) = {}
  BY <1>1 DEF Opened
<1> QED
  BY <1>1, <1>2, FS_EmptySet DEF DecisionsInv

LEMMA DecisionsKept ==
  ASSUME DecisionsInv, shadow' = shadow, Len(orders') = Len(orders)
  PROVE  DecisionsInv'
BY DEF DecisionsInv

LEMMA DecisionsNext == RunInv /\ DecisionsInv /\ [ShadowNext]_shadowVars => DecisionsInv'
<1> SUFFICES ASSUME RunInv, DecisionsInv, [ShadowNext]_shadowVars PROVE DecisionsInv'
  OBVIOUS
<1>0. Len(orders) \in Nat /\ OrdersInv
  BY DEF RunInv, OrdersInv
<1>1. ASSUME NEW i, NEW m, NEW edge, ~ Approved(i, m), shadow' = Append(shadow, Decision(i, m, edge, 0)),
             orders' = orders
      PROVE  DecisionsInv'
  <2>1. "live_risk_rejected" \in Reasons(i, m)
    BY <1>1 DEF Reasons, RiskReasons
  <2>2. Decision(i, m, edge, 0).paper = 0 /\ ~ Decision(i, m, edge, 0).submit
    BY <2>1 DEF Decision
  <2> HIDE DEF Decision
  <2> QED
    BY <1>0, <1>1, <2>2, DecidedOn
<1>2. ASSUME NEW i, NEW m, NEW edge, i.token \in Tokens, i.side = "Buy", OpenOrder(i, m),
             shadow' = Append(shadow, Decision(i, m, edge, NewId))
      PROVE  DecisionsInv'
  <2>1. NewId = Len(orders) + 1
    BY DEF NewId
  <2>2. Decision(i, m, edge, NewId).paper # 0
    BY <1>0, <2>1 DEF Decision
  <2>3. PICK new : orders' = Append(orders, new) /\ IsOrder(new)
    BY <1>2, OpenAppends DEF OpenOrder
  <2>4. Len(orders') = Len(orders) + 1
    BY <1>0, <2>3, AppendKeeps
  <2> QED
    BY <1>0, <1>2, <2>2, <2>4, DecidedOn
<1>3. CASE ShadowEvaluate
  <2> DEFINE m == MarketIds[Min(todo)]
  <2>1. m \in Markets
    BY <1>3, TodoIsThere DEF ShadowEvaluate
  <2>2. \A i \in Candidates(m) : i.token \in Tokens /\ i.side = "Buy"
    BY <2>1, CandidatesAre
  <2>3. \/ UNCHANGED <<executor, shadow>>
        \/ \E i \in Candidates(m), edge \in EdgeReasons :
             /\ ~ Approved(i, m) /\ UNCHANGED executor
             /\ shadow' = Append(shadow, Decision(i, m, edge, 0))
        \/ \E i \in Candidates(m), edge \in EdgeReasons :
             /\ shadow' = Append(shadow, Decision(i, m, edge, NewId))
             /\ OpenOrder(i, m)
    BY <1>3 DEF ShadowEvaluate
  <2> HIDE DEF m
  <2> QED
    BY <1>1, <1>2, <2>2, <2>3, DecisionsKept DEF executor, vars
<1>4. CASE SimulateNext /\ UNCHANGED shadow
  BY <1>4, SimulateKeeps, DecisionsKept
<1>5. CASE UNCHANGED <<executor, shadow>>
  BY <1>5, DecisionsKept DEF executor, vars
<1> QED
  BY <1>3, <1>4, <1>5 DEF ShadowNext, shadowVars, runVars, Receive, SimulateDone, EvaluateDone,
                          MarkPositions, Finished

(* The count of divergences in the shadow report is a difference of two    *)
(* totals, and yet it is the number of paper orders that live trading      *)
(* would have refused: none of them is made up for by an order sent        *)
(* without a paper order.                                                  *)
THEOREM DivergenceIsTrue == ShadowSpec => []DivergenceCountsRefusals
<1>1. RunInv /\ DecisionsInv => DivergenceCountsRefusals
  <2> SUFFICES ASSUME RunInv, DecisionsInv PROVE DivergenceCountsRefusals
    OBVIOUS
  <2> DEFINE opened == Opened(shadow)
             refused == {n \in DOMAIN shadow : shadow[n].paper # 0 /\ ~ shadow[n].submit}
  <2>1. DOMAIN shadow = 1..Len(shadow) /\ Len(shadow) \in Nat
    BY DEF DecisionsInv
  <2>2. IsFiniteSet(opened)
    <3>1. opened \subseteq 1..Len(shadow) /\ IsFiniteSet(1..Len(shadow))
      BY <2>1, IntervalGrows DEF Opened
    <3> HIDE DEF opened
    <3> QED
      BY <3>1, FS_Subset
  <2>3. Submits \subseteq opened /\ refused = opened \ Submits
    BY DEF Submits, Opened, DecisionsInv
  <2>4. Cardinality(opened) = Len(orders)
    BY DEF DecisionsInv
  <2> HIDE DEF opened, refused
  <2>5. /\ IsFiniteSet(Submits) /\ Cardinality(Submits) \in Nat /\ Cardinality(opened) \in Nat
        /\ IsFiniteSet(refused) /\ Cardinality(refused) \in Nat
    BY <2>2, <2>3, FS_Subset, FS_CardinalityType
  <2>6. Cardinality(refused) = Cardinality(opened) - Cardinality(opened \cap Submits)
    BY <2>2, <2>3, FS_Difference
  <2>7. opened \cap Submits = Submits
    BY <2>3
  <2>8. Divergence = Cardinality(refused)
    BY <2>4, <2>5, <2>6, <2>7, SMTT(60) DEF Divergence, AbsDiff
  <2> QED
    BY <2>8 DEF DivergenceCountsRefusals, refused
<1> QED
  BY ShadowOnlyWatches, RunInvariance, DecisionsInit, DecisionsNext, <1>1, PTL DEF ShadowSpec

-----------------------------------------------------------------------------
(* The shadow's cash. *)
LEMMA ReservedType ==
  ASSUME TypeOK, NEW S \in SUBSET DOMAIN orders
  PROVE  /\ IsFiniteSet(DOMAIN orders) /\ IsFiniteSet(S) /\ ReservedIn(S) \in Int
         /\ \A o \in DOMAIN orders : OpenNotional(o) \in Int
<1>1. orders \in Seq(Order) /\ DOMAIN orders = 1..Len(orders) /\ Len(orders) \in Nat
  BY DEF TypeOK
<1> DEFINE f == [o \in DOMAIN orders |-> OpenNotional(o)]
<1>2. \A o \in DOMAIN orders : OpenNotional(o) \in Int
  <2> SUFFICES ASSUME NEW o \in DOMAIN orders PROVE OpenNotional(o) \in Int
    OBVIOUS
  <2>1. orders[o] \in Order
    BY <1>1
  <2>2. orders[o].filled \in Int /\ orders[o].size \in Int /\ orders[o].price \in Int
    BY <2>1 DEF Order
  <2> QED
    BY <2>2 DEF OpenNotional, Remaining
<1>3. IsFiniteSet(DOMAIN orders) /\ IsFiniteSet(S)
  BY <1>1, IntervalGrows, FS_Subset
<1>4. \A o \in S : f[o] \in Int
  BY <1>2
<1> HIDE DEF f
<1>5. SumFunctionOnSet(f, S) \in Int
  BY <1>3, <1>4, SumType
<1> QED
  BY <1>2, <1>3, <1>5 DEF ReservedIn, f

LEMMA AvailableIs ==
  ASSUME AccountsInv
  PROVE  LET left == StartingBalance
                       + SumFunctionOnSet([t \in Tokens |-> Cash(t)], Tokens) - Reserved
         IN left \in Int /\ Available = IF left < 0 THEN Whole(0) ELSE Whole(left)
<1> DEFINE D == DOMAIN positions
           flows == [t \in Tokens |-> Cash(t)]
           held == [t \in D |-> Notional(positions[t])]
           realized == [t \in D |-> positions[t].realized]
           k == SumFunctionOnSet(flows, Tokens)
           left == StartingBalance + k - Reserved
<1>1. D \subseteq Tokens /\ \A t \in Tokens \ D : Cash(t) = 0
  BY CashIs DEF AccountsInv, PlacesInv, PlacesAre
<1>2. \A t \in Tokens : Cash(t) \in Int
  BY <1>1, HeldAtCost
<1>3. IsFiniteSet(Tokens) /\ IsFiniteSet(D) /\ Tokens \cap D = D
  BY <1>1, MarketsAssumption, FS_Subset
<1>4. Parts(realized, flows, held, D)
  <2>1. \A t \in D : flows[t] = Cash(t) /\ held[t] = Notional(positions[t])
                     /\ realized[t] = positions[t].realized
    BY <1>1
  <2> HIDE DEF flows, held, realized
  <2>2. \A t \in D : /\ Cash(t) \in Int /\ Notional(positions[t]) \in Fractions
                     /\ positions[t].realized = Plus(Whole(Cash(t)), Notional(positions[t]))
    BY HeldAtCost
  <2> QED
    BY <2>1, <2>2 DEF Parts
<1>5. Realized = TotalOf(realized, D) /\ NotionalIn(Tokens) = TotalOf(held, D)
  BY <1>3 DEF Realized, NotionalIn, Total, TotalOf
<1>6. SumFunctionOnSet(flows, D) = k /\ k \in Int
  <2>1. (\A t \in Tokens : flows[t] \in Int) /\ \A t \in Tokens \ D : flows[t] = 0
    BY <1>1, <1>2
  <2> HIDE DEF flows, D
  <2>2. SumFunctionOnSet(flows, D) = SumFunctionOnSet(flows, Tokens)
    BY <1>1, <1>3, <2>1, SumWithoutZeros
  <2>3. SumFunctionOnSet(flows, Tokens) \in Int
    BY <1>3, <2>1, SumType
  <2> QED
    BY <2>2, <2>3
<1> HIDE DEF flows, held, realized, D
<1>7. /\ Realized = Plus(Whole(k), NotionalIn(Tokens)) /\ NotionalIn(Tokens) \in Fractions
  <2>1. /\ TotalOf(realized, D) = Plus(Whole(SumFunctionOnSet(flows, D)), TotalOf(held, D))
        /\ TotalOf(held, D) \in Fractions
    BY <1>3, <1>4, TotalParts
  <2> QED
    BY <1>5, <1>6, <2>1
<1>8. Reserved \in Int
  <2>1. OpenOrders \in SUBSET DOMAIN orders
    BY DEF OpenOrders
  <2> QED
    BY <2>1, ReservedType DEF Reserved, AccountsInv, IInv
<1>9. StartingBalance \in Int
  BY BalanceAssumption
<1> HIDE DEF k
<1>10. Minus(Plus(Whole(StartingBalance), Realized),
             Plus(NotionalIn(Tokens), Whole(Reserved))) = Whole(left)
  BY <1>6, <1>7, <1>8, <1>9, LeftOver
<1>11. left \in Int /\ Whole(left)[1] = left
  BY <1>6, <1>8, <1>9 DEF Whole
<1>12. Available = IF left < 0 THEN Whole(0) ELSE Whole(left)
  <2> HIDE DEF left
  <2> QED
    BY <1>10, <1>11 DEF Available
<1> QED
  BY <1>11, <1>12 DEF k, flows

LEMMA CandidateCosts ==
  ASSUME RunInv, NEW m \in Markets, NEW i \in Candidates(m), Supported(i)
  PROVE  /\ i.kind = "Maker" /\ i.size = OrderSize /\ i.price \in Nat
         /\ i.notional = i.price * i.size /\ i.notional \in Nat \ {0}
<1>1. PICK t \in TokensOf[m] : i \in MakerCandidates(t) \cup TakerCandidates(t)
  BY DEF Candidates
<1>2. i \notin TakerCandidates(t)
  BY DEF TakerCandidates, Supported
<1>3. PICK bid \in BestBid(books[t]) :
         i = [token |-> t, side |-> "Buy", kind |-> "Maker", price |-> bid + 1,
              size |-> OrderSize, notional |-> (bid + 1) * OrderSize]
  BY <1>1, <1>2 DEF MakerCandidates
<1>4. t \in Tokens
  BY <1>1, MarketsAssumption
<1>5. books[t] \in Books
  BY <1>4 DEF RunInv, BookInv
<1>6. bid \in Nat
  BY <1>3, <1>5, BestBidIsPrice, MaxPriceAssumption
<1>7. OrderSize \in Nat \ {0}
  BY NumbersAssumption
<1>8. (bid + 1) * OrderSize \in Nat \ {0}
  BY <1>6, <1>7
<1> QED
  BY <1>3, <1>6, <1>8

LEMMA SentIsCovered ==
  ASSUME AccountsInv, NEW m \in Markets, NEW i \in Candidates(m), NEW edge, NEW paper,
         Decision(i, m, edge, paper).submit
  PROVE  StartingBalance + SumFunctionOnSet([t \in Tokens |-> Cash(t)], Tokens) - Reserved
           >= i.notional
<1> DEFINE left == StartingBalance
                     + SumFunctionOnSet([t \in Tokens |-> Cash(t)], Tokens) - Reserved
<1>1. Reasons(i, m) = {}
  BY DEF Decision
<1>2. Supported(i)
  BY <1>1 DEF Reasons
<1>3. AtMost(Whole(i.notional), Available)
  <2>1. BalanceReasons(i) = {}
    BY <1>1 DEF Reasons
  <2> QED
    BY <2>1 DEF BalanceReasons
<1>4. i.notional \in Nat \ {0}
  BY <1>2, CandidateCosts DEF AccountsInv
<1>5. left \in Int /\ Available = IF left < 0 THEN Whole(0) ELSE Whole(left)
  BY AvailableIs
<1> HIDE DEF left
<1>6. left >= i.notional
  BY <1>3, <1>4, <1>5 DEF AtMost, Whole
<1> QED
  BY <1>6 DEF left

Covered ==
  \A n \in DOMAIN shadow' \ DOMAIN shadow :
     shadow'[n].submit =>
       StartingBalance + SumFunctionOnSet([t \in Tokens |-> Cash(t)], Tokens) - Reserved
         >= shadow'[n].notional

LEMMA SentAreCovered ==
  ASSUME AccountsInv, DecisionsInv, [ShadowNext]_shadowVars
  PROVE  Covered
<1>0. RunInv /\ DOMAIN shadow = 1..Len(shadow) /\ Len(shadow) \in Nat
  BY DEF AccountsInv, DecisionsInv
<1> DEFINE m == MarketIds[Min(todo)]
<1>1. ASSUME NEW i \in Candidates(m), NEW edge, NEW paper,
             shadow' = Append(shadow, Decision(i, m, edge, paper)), m \in Markets
      PROVE  Covered
  <2> DEFINE new == Decision(i, m, edge, paper)
             k == Len(shadow) + 1
  <2>1. new.notional = i.notional
    BY DEF Decision
  <2>2. new.submit => StartingBalance + SumFunctionOnSet([t \in Tokens |-> Cash(t)], Tokens)
                        - Reserved >= new.notional
    BY <1>1, <2>1, SentIsCovered
  <2>3. shadow' = Append(shadow, new)
    BY <1>1
  <2> HIDE DEF new
  <2>4. /\ DOMAIN shadow' = DOMAIN shadow \cup {k} /\ shadow'[k] = new
    <3>1. shadow \in Seq({shadow[n] : n \in DOMAIN shadow})
      BY DEF DecisionsInv
    <3> QED
      BY <2>3, <3>1
  <2>5. \A n \in DOMAIN shadow' \ DOMAIN shadow : shadow'[n] = new
    BY <2>4
  <2> QED
    BY <2>2, <2>5 DEF Covered
<1>2. CASE shadow' = shadow
  BY <1>2 DEF Covered
<1>3. CASE ShadowEvaluate
  <2>1. m \in Markets
    BY <1>0, <1>3, TodoIsThere DEF ShadowEvaluate
  <2>2. \/ shadow' = shadow
        \/ \E i \in Candidates(m), edge \in EdgeReasons : shadow' = Append(shadow, Decision(i, m, edge, 0))
        \/ \E i \in Candidates(m), edge \in EdgeReasons : shadow' = Append(shadow, Decision(i, m, edge, NewId))
    BY <1>3 DEF ShadowEvaluate
  <2> QED
    BY <1>1, <1>2, <2>1, <2>2
<1> QED
  BY <1>2, <1>3 DEF ShadowNext, shadowVars

(* What the shadow would send is covered by cash: whatever positions there *)
(* are and whatever they cost, the balance that the code works out from    *)
(* average prices and P&L is the money that the fills have left.           *)
THEOREM ShadowIsCovered == ShadowSpec => ShadowOrderIsCovered
<1>1. AccountsInv /\ DecisionsInv /\ [ShadowNext]_shadowVars => [Covered]_shadowVars
  BY SentAreCovered
<1>2. ShadowSpec => []AccountsInv
  BY ShadowOnlyWatches, AccountsKept
<1>3. ShadowSpec => []DecisionsInv
  BY ShadowOnlyWatches, RunInvariance, DecisionsInit, DecisionsNext, PTL DEF ShadowSpec
<1> QED
  BY <1>1, <1>2, <1>3, PTL DEF ShadowSpec, ShadowOrderIsCovered, Covered

-----------------------------------------------------------------------------
(* The orders behind the decisions to send: each has its own, a maker order *)
(* of the same token and cost that was not closed.                          *)
Unclosed == {"Open", "PartiallyFilled", "Filled"}
GoesOn(a, b) ==
  /\ b.kind = a.kind /\ b.price = a.price /\ b.size = a.size /\ b.token = a.token
  /\ a.status \in Unclosed => b.status \in Unclosed
OrdersGoOn == \A o \in DOMAIN orders : o \in DOMAIN orders' /\ GoesOn(orders[o], orders'[o])

Backs(order, decision) ==
  /\ order.kind = "Maker" /\ order.token = decision.token /\ order.status \in Unclosed
  /\ decision.notional = order.price * order.size
SentInv ==
  /\ \A n \in DOMAIN shadow :
        shadow[n].submit => shadow[n].paper \in DOMAIN orders /\ Backs(orders[shadow[n].paper], shadow[n])
  /\ \A m, n \in DOMAIN shadow :
        shadow[m].submit /\ shadow[n].submit /\ m # n => shadow[m].paper # shadow[n].paper

LEMMA CreditedGoesOn ==
  ASSUME NEW order \in Order, NEW more
  PROVE  GoesOn(order, Credited(order, more)) /\ GoesOn(order, order)
BY DEF GoesOn, Credited, Order, Unclosed

LEMMA FilledGoesOn ==
  ASSUME TypeOK, NEW o \in DOMAIN orders, NEW book, SimulateFill(o, book)
  PROVE  OrdersGoOn
<1>1. orders[o] \in Order /\ orders \in Seq(Order)
  BY DEF TypeOK
<1>2. PICK new : orders' = [orders EXCEPT ![o] = new] /\ GoesOn(orders[o], new)
  <2>1. CASE SimulateMakerFill(o, book)
    <3>1. PICK new : /\ orders' = [orders EXCEPT ![o] = new]
                     /\ new = orders[o] \/ \E more : new = Credited(orders[o], more)
      BY <2>1 DEF SimulateMakerFill
    <3> QED
      BY <1>1, <3>1, CreditedGoesOn
  <2>2. CASE SimulateTakerFill(o, book)
    <3>1. orders' = [orders EXCEPT ![o] = TakeFrom(orders[o], o, book).order]
      BY <2>2 DEF SimulateTakerFill
    <3>2. \/ TakeFrom(orders[o], o, book).order = orders[o]
          \/ \E more : TakeFrom(orders[o], o, book).order = Credited(orders[o], more)
      BY DEF TakeFrom
    <3> QED
      BY <1>1, <3>1, <3>2, CreditedGoesOn
  <2> QED
    BY <2>1, <2>2 DEF SimulateFill
<1>3. ASSUME NEW y \in DOMAIN orders PROVE y \in DOMAIN orders' /\ GoesOn(orders[y], orders'[y])
  <2>1. DOMAIN orders' = DOMAIN orders /\ orders'[o] = new
        /\ (y # o => orders'[y] = orders[y])
    BY <1>1, <1>2
  <2>2. GoesOn(orders[y], orders[y])
    BY DEF GoesOn
  <2> QED
    BY <1>2, <2>1, <2>2
<1> QED
  BY <1>3 DEF OrdersGoOn

LEMMA AppendGoesOn ==
  ASSUME OrdersInv, NEW new, orders' = Append(orders, new)
  PROVE  /\ OrdersGoOn /\ NewId \in DOMAIN orders' /\ NewId \notin DOMAIN orders
         /\ orders'[NewId] = new
<1>1. orders \in Seq({orders[o] : o \in DOMAIN orders})
  BY DEF OrdersInv
<1>2. /\ DOMAIN orders = 1..Len(orders) /\ Len(orders) \in Nat
      /\ DOMAIN orders' = 1..(Len(orders) + 1)
      /\ \A o \in DOMAIN orders : orders'[o] = orders[o]
      /\ orders'[Len(orders) + 1] = new
  BY <1>1
<1>3. \A o \in DOMAIN orders : o \in DOMAIN orders' /\ GoesOn(orders[o], orders'[o])
  BY <1>2 DEF GoesOn
<1> QED
  BY <1>2, <1>3 DEF OrdersGoOn, NewId

LEMMA SameGoesOn ==
  ASSUME orders' = orders
  PROVE  OrdersGoOn
BY DEF OrdersGoOn, GoesOn

LEMMA SentKept ==
  ASSUME SentInv, OrdersGoOn, shadow' = shadow
  PROVE  SentInv'
<1>1. ASSUME NEW n \in DOMAIN shadow, shadow[n].submit
      PROVE  shadow[n].paper \in DOMAIN orders' /\ Backs(orders'[shadow[n].paper], shadow[n])
  <2>1. shadow[n].paper \in DOMAIN orders /\ Backs(orders[shadow[n].paper], shadow[n])
    BY <1>1 DEF SentInv
  <2>2. /\ shadow[n].paper \in DOMAIN orders'
        /\ GoesOn(orders[shadow[n].paper], orders'[shadow[n].paper])
    BY <2>1 DEF OrdersGoOn
  <2> QED
    BY <2>1, <2>2 DEF GoesOn, Backs
<1> QED
  BY <1>1 DEF SentInv

LEMMA SentAppended ==
  ASSUME SentInv, DecisionsInv, OrdersGoOn, NEW new, shadow' = Append(shadow, new),
         new.submit => /\ new.paper \in DOMAIN orders' /\ new.paper \notin DOMAIN orders
                       /\ Backs(orders'[new.paper], new)
  PROVE  SentInv'
<1> DEFINE k == Len(shadow) + 1
<1>1. /\ DOMAIN shadow' = DOMAIN shadow \cup {k} /\ k \notin DOMAIN shadow
      /\ shadow'[k] = new /\ \A n \in DOMAIN shadow : shadow'[n] = shadow[n]
  <2>1. shadow \in Seq({shadow[n] : n \in DOMAIN shadow})
    BY DEF DecisionsInv
  <2> QED
    BY <2>1
<1> HIDE DEF k
<1>2. ASSUME NEW n \in DOMAIN shadow, shadow[n].submit
      PROVE  /\ shadow[n].paper \in DOMAIN orders
             /\ shadow[n].paper \in DOMAIN orders' /\ Backs(orders'[shadow[n].paper], shadow[n])
  <2>1. shadow[n].paper \in DOMAIN orders /\ Backs(orders[shadow[n].paper], shadow[n])
    BY <1>2 DEF SentInv
  <2>2. /\ shadow[n].paper \in DOMAIN orders'
        /\ GoesOn(orders[shadow[n].paper], orders'[shadow[n].paper])
    BY <2>1 DEF OrdersGoOn
  <2> QED
    BY <2>1, <2>2 DEF GoesOn, Backs
<1>3. ASSUME NEW n \in DOMAIN shadow', shadow'[n].submit
      PROVE  shadow'[n].paper \in DOMAIN orders' /\ Backs(orders'[shadow'[n].paper], shadow'[n])
  BY <1>1, <1>2, <1>3
<1>4. ASSUME NEW m \in DOMAIN shadow', NEW n \in DOMAIN shadow',
             shadow'[m].submit, shadow'[n].submit, m # n
      PROVE  shadow'[m].paper # shadow'[n].paper
  <2>1. CASE m \in DOMAIN shadow /\ n \in DOMAIN shadow
    BY <1>1, <1>4, <2>1 DEF SentInv
  <2>2. CASE m = k /\ n \in DOMAIN shadow
    BY <1>1, <1>2, <1>4, <2>2
  <2>3. CASE n = k /\ m \in DOMAIN shadow
    BY <1>1, <1>2, <1>4, <2>3
  <2> QED
    BY <1>1, <1>4, <2>1, <2>2, <2>3
<1> QED
  BY <1>3, <1>4 DEF SentInv

LEMMA SentInit == ShadowInit => SentInv
BY DEF ShadowInit, SentInv

(* A maker order of a candidate rests, and costs what was decided on. *)
LEMMA CandidateRests ==
  ASSUME RunInv, NEW m \in Markets, NEW i \in Candidates(m), Supported(i),
         OpenPaperOrder(i, books[i.token])
  PROVE  /\ orders' = Append(orders, BuildOrder(i, "Open"))
         /\ i.kind = "Maker" /\ i.notional = i.price * i.size
<1>1. PICK t \in TokensOf[m] : i \in MakerCandidates(t) \cup TakerCandidates(t)
  BY DEF Candidates
<1>2. i \notin TakerCandidates(t)
  BY DEF TakerCandidates, Supported
<1>3. PICK bid \in BestBid(books[t]) :
         /\ \E ask \in BestAsk(books[t]) : bid + 1 < ask
         /\ i = [token |-> t, side |-> "Buy", kind |-> "Maker", price |-> bid + 1,
                 size |-> OrderSize, notional |-> (bid + 1) * OrderSize]
  BY <1>1, <1>2 DEF MakerCandidates
<1>4. t \in Tokens
  BY <1>1, MarketsAssumption
<1>5. books[t] \in Books /\ books[t].token = t
  BY <1>4 DEF RunInv, BookInv
<1>6. bid + 1 \in Prices
  <2>1. bid \in 0..MaxPrice /\ \A ask \in BestAsk(books[t]) : ask \in 0..MaxPrice
    BY <1>3, <1>5, BestBidIsPrice, BestAskIsPrice
  <2> QED
    BY <1>3, <2>1, MaxPriceAssumption DEF Prices
<1>7. /\ i.token = t /\ i.kind = "Maker" /\ i.price = bid + 1 /\ i.size = OrderSize
      /\ i.notional = i.price * i.size
  BY <1>3
<1>8. OrderSize \in Nat \ {0}
  BY NumbersAssumption
<1>9. ValidIntent(i)
  BY <1>6, <1>7, <1>8 DEF ValidIntent
<1>10. OpenMaker(i, books[i.token])
  BY <1>5, <1>7, <1>9 DEF OpenPaperOrder
<1> QED
  BY <1>7, <1>10 DEF OpenMaker

LEMMA DecisionIs ==
  ASSUME NEW i, NEW m, NEW edge, NEW paper
  PROVE  LET d == Decision(i, m, edge, paper)
         IN /\ d.token = i.token /\ d.notional = i.notional /\ d.paper = paper
            /\ d.submit => Reasons(i, m) = {}
BY DEF Decision

LEMMA SentOpened ==
  ASSUME RunInv, DecisionsInv, SentInv, NEW m \in Markets, NEW i \in Candidates(m),
         NEW edge, OpenOrder(i, m), shadow' = Append(shadow, Decision(i, m, edge, NewId))
  PROVE  SentInv'
<1> DEFINE d == Decision(i, m, edge, NewId)
<1>1. OrdersInv /\ OpenPaperOrder(i, books[i.token])
  BY DEF RunInv, OpenOrder
<1>2. PICK new : orders' = Append(orders, new)
  <2>1. i.token \in Tokens /\ i.side = "Buy"
    BY CandidatesAre
  <2> QED
    BY <1>1, <2>1, OpenAppends
<1>3. /\ OrdersGoOn /\ NewId \in DOMAIN orders' /\ NewId \notin DOMAIN orders
  BY <1>1, <1>2, AppendGoesOn
<1>4. d.token = i.token /\ d.notional = i.notional /\ d.paper = NewId
      /\ (d.submit => Reasons(i, m) = {})
  BY DecisionIs
<1>5. shadow' = Append(shadow, d)
  OBVIOUS
<1> HIDE DEF d
<1>6. ASSUME d.submit PROVE Backs(orders'[NewId], d)
  <2>1. Supported(i)
    BY <1>4, <1>6 DEF Reasons
  <2>2. /\ orders' = Append(orders, BuildOrder(i, "Open"))
        /\ i.kind = "Maker" /\ i.notional = i.price * i.size
    BY <1>1, <2>1, CandidateRests
  <2> DEFINE order == BuildOrder(i, "Open")
  <2>3. orders' = Append(orders, order)
    BY <2>2
  <2>4. /\ order.kind = i.kind /\ order.token = i.token /\ order.price = i.price
        /\ order.size = i.size /\ order.status = "Open"
    BY DEF BuildOrder
  <2> HIDE DEF order
  <2>5. orders'[NewId] = order
    BY <1>1, <2>3, AppendGoesOn
  <2> QED
    BY <1>4, <2>2, <2>4, <2>5 DEF Backs, Unclosed
<1> QED
  BY <1>3, <1>4, <1>5, <1>6, SentAppended

LEMMA SentNext ==
  TypeOK /\ RunInv /\ DecisionsInv /\ SentInv /\ [ShadowNext]_shadowVars => SentInv'
<1> SUFFICES ASSUME TypeOK, RunInv, DecisionsInv, SentInv, [ShadowNext]_shadowVars PROVE SentInv'
  OBVIOUS
<1>1. CASE orders' = orders /\ shadow' = shadow
  BY <1>1, SameGoesOn, SentKept
<1>2. CASE ShadowEvaluate
  <2> DEFINE m == MarketIds[Min(todo)]
  <2>1. m \in Markets
    BY <1>2, TodoIsThere DEF ShadowEvaluate
  <2>2. \/ UNCHANGED <<executor, shadow>>
        \/ \E i \in Candidates(m), edge \in EdgeReasons :
             /\ ~ Approved(i, m) /\ UNCHANGED executor
             /\ shadow' = Append(shadow, Decision(i, m, edge, 0))
        \/ \E i \in Candidates(m), edge \in EdgeReasons :
             /\ shadow' = Append(shadow, Decision(i, m, edge, NewId))
             /\ OpenOrder(i, m)
    BY <1>2 DEF ShadowEvaluate
  <2> HIDE DEF m
  <2>3. ASSUME NEW i \in Candidates(m), NEW edge, ~ Approved(i, m), UNCHANGED executor,
               shadow' = Append(shadow, Decision(i, m, edge, 0))
        PROVE  SentInv'
    <3> DEFINE d == Decision(i, m, edge, 0)
    <3>1. "live_risk_rejected" \in Reasons(i, m)
      BY <2>3 DEF Reasons, RiskReasons
    <3>2. ~ d.submit
      BY <3>1, DecisionIs
    <3>3. OrdersGoOn
      BY <2>3, SameGoesOn DEF executor, vars
    <3>4. shadow' = Append(shadow, d)
      BY <2>3
    <3> HIDE DEF d
    <3> QED
      BY <3>2, <3>3, <3>4, SentAppended
  <2>4. CASE UNCHANGED <<executor, shadow>>
    BY <1>1, <2>4 DEF executor, vars
  <2> QED
    BY <2>1, <2>2, <2>3, <2>4, SentOpened
<1>3. CASE SimulateNext /\ UNCHANGED shadow
  <2>1. Min(todo) \in DOMAIN orders
    BY <1>3, TodoIsThere DEF SimulateNext
  <2>2. \/ SimulateFill(Min(todo), books[orders[Min(todo)].token])
        \/ orders' = orders
    BY <1>3 DEF SimulateNext, executor, vars
  <2> QED
    BY <1>1, <1>3, <2>1, <2>2, FilledGoesOn, SentKept
<1>4. CASE UNCHANGED <<executor, shadow>>
  BY <1>1, <1>4 DEF executor, vars
<1> QED
  BY <1>2, <1>3, <1>4 DEF ShadowNext, shadowVars, runVars, Receive, SimulateDone, EvaluateDone,
                          MarkPositions, Finished

-----------------------------------------------------------------------------
(* The orders in some tokens: what they have bought is at cost in the      *)
(* positions, and what the shadow would have sent is bought or rests.      *)
OrdersIn(T) == {o \in DOMAIN orders : orders[o].token \in T}
OrderTokens == [o \in DOMAIN orders |-> orders[o].token]

LEMMA OrdersInTokens ==
  ASSUME TypeOK, NEW T
  PROVE  /\ IsFiniteSet(DOMAIN orders) /\ IsFiniteSet(OrdersIn(T)) /\ OrdersIn(T) \subseteq DOMAIN orders
         /\ OrdersIn(T) = WithKey(DOMAIN orders, OrderTokens, T)
         /\ \A t : WithKey(DOMAIN orders, OrderTokens, {t}) = InToken(orders, t)
         /\ \A o \in DOMAIN orders : orders[o] \in Order /\ MakerCosts(orders)[o] \in Int
<1>1. /\ orders \in Seq(Order) /\ DOMAIN orders = 1..Len(orders) /\ Len(orders) \in Nat
  BY DEF TypeOK
<1>2. OrdersIn(T) \subseteq DOMAIN orders
  BY DEF OrdersIn
<1>3. IsFiniteSet(DOMAIN orders)
  BY <1>1, IntervalGrows
<1>4. OrdersIn(T) = WithKey(DOMAIN orders, OrderTokens, T)
  BY DEF OrdersIn, WithKey, OrderTokens
<1>5. \A t : WithKey(DOMAIN orders, OrderTokens, {t}) = InToken(orders, t)
  BY DEF InToken, WithKey, OrderTokens
<1>6. \A o \in DOMAIN orders : orders[o] \in Order /\ MakerCosts(orders)[o] \in Int
  BY <1>1, MakerCostType
<1> QED
  BY <1>2, <1>3, <1>4, <1>5, <1>6, FS_Subset

CostAt(t) == IF t \in DOMAIN positions THEN -Cash(t) - positions[t].fees ELSE 0

LEMMA CostIs ==
  ASSUME AccountsInv, BoughtInv, NEW t \in Tokens
  PROVE  /\ CostAt(t) \in Int /\ MakerSpent(orders, t) <= CostAt(t)
         /\ MakerSpent(orders, t) \in Int
         /\ t \in DOMAIN positions => Notional(positions[t]) = Whole(CostAt(t))
<1>1. MakerSpent(orders, t) \in Int
  <2>1. TypeOK
    BY DEF AccountsInv, IInv
  <2>2. IsFiniteSet(DOMAIN orders) /\ \A o \in DOMAIN orders : MakerCosts(orders)[o] \in Int
    BY <2>1, OrdersInTokens
  <2>3. IsFiniteSet(InToken(orders, t)) /\ \A o \in InToken(orders, t) : MakerCosts(orders)[o] \in Int
    BY <2>2, FS_Subset DEF InToken
  <2> QED
    BY <2>3, SumType DEF MakerSpent
<1>2. CASE t \in DOMAIN positions
  <2> DEFINE q == positions[t]
             c == Cash(t)
  <2>1. Sound(q, c) /\ q.gross = Whole(0) /\ MakerSpent(orders, t) <= -c - q.fees
    BY <1>2, CashIs DEF AccountsInv, PlacesInv, PlacesAre, BoughtInv, BoughtAre
  <2>2. Notional(q) = Times(q.net, q.avg)
    BY <1>2, HeldAtCost
  <2>3. CostAt(t) = -c - q.fees
    BY <1>2 DEF CostAt
  <2> HIDE DEF q, c
  <2>4. -c - q.fees \in Int /\ Times(q.net, q.avg) = Whole(-c - q.fees)
    BY <2>1, HoldsItsCost
  <2> QED
    BY <1>1, <2>1, <2>2, <2>3, <2>4 DEF q
<1>3. CASE t \notin DOMAIN positions
  BY <1>1, <1>3 DEF BoughtInv, BoughtAre, CostAt
<1> QED
  BY <1>2, <1>3

LEMMA HeldIn ==
  ASSUME AccountsInv, BoughtInv, NEW T \in SUBSET Tokens
  PROVE  \E c \in Int : /\ NotionalIn(T) = Whole(c)
                        /\ SumFunctionOnSet(MakerCosts(orders), OrdersIn(T)) <= c
<1> DEFINE D == DOMAIN positions
           S == T \cap D
           costs == [t \in T |-> CostAt(t)]
           held == [t \in D |-> Notional(positions[t])]
           spent == [t \in T |-> MakerSpent(orders, t)]
           mc == MakerCosts(orders)
           c == SumFunctionOnSet(costs, T)
<1>1. IsFiniteSet(T) /\ IsFiniteSet(S) /\ S \in SUBSET T
  BY MarketsAssumption, FS_Subset
<1>2. \A t \in T : /\ costs[t] \in Int /\ spent[t] \in Int /\ spent[t] <= costs[t]
                   /\ spent[t] = MakerSpent(orders, t)
  BY CostIs
<1>3. \A t \in S : costs[t] \in Int /\ held[t] = Whole(costs[t])
  BY CostIs
<1>4. \A t \in T \ S : costs[t] = 0
  BY DEF CostAt
<1>5. NotionalIn(T) = TotalOf(held, S)
  BY DEF NotionalIn, Total, TotalOf
<1>6. TypeOK
  BY DEF AccountsInv, IInv
<1> HIDE DEF costs, held, spent, S, D
<1>7. NotionalIn(T) = Whole(SumFunctionOnSet(costs, S))
  BY <1>1, <1>3, <1>5, TotalWhole
<1>8. SumFunctionOnSet(costs, S) = c
  BY <1>1, <1>2, <1>4, SumWithoutZeros
<1>9. c \in Int
  BY <1>1, <1>2, SumType
<1>10. SumFunctionOnSet(spent, T) <= c
  BY <1>1, <1>2, SumAtMost
<1>11. SumFunctionOnSet(mc, OrdersIn(T)) = SumFunctionOnSet(spent, T)
  <2>1. /\ IsFiniteSet(DOMAIN orders) /\ \A o \in DOMAIN orders : mc[o] \in Int
        /\ OrdersIn(T) = WithKey(DOMAIN orders, OrderTokens, T)
        /\ \A t : WithKey(DOMAIN orders, OrderTokens, {t}) = InToken(orders, t)
    BY <1>6, OrdersInTokens
  <2>2. \A t \in T : spent[t] = SumFunctionOnSet(mc, WithKey(DOMAIN orders, OrderTokens, {t}))
    BY <1>2, <2>1 DEF MakerSpent
  <2> DEFINE U == DOMAIN orders
             key == OrderTokens
  <2>3. ByKey(spent, mc, U, key, T)
    BY <1>1, <2>1, <2>2 DEF ByKey
  <2> HIDE DEF mc, U, key
  <2>4. SumFunctionOnSet(mc, WithKey(U, key, T)) = SumFunctionOnSet(spent, T)
    BY <2>3, SumByKey
  <2>5. OrdersIn(T) = WithKey(U, key, T)
    BY <2>1 DEF U, key
  <2> QED
    BY <2>4, <2>5, Zenon
<1> HIDE DEF c
<1> QED
  BY <1>7, <1>8, <1>9, <1>10, <1>11

-----------------------------------------------------------------------------
FullCosts == [o \in DOMAIN orders |-> orders[o].price * orders[o].size]
Resters == [o \in DOMAIN orders |-> IF o \in OpenOrders THEN OpenNotional(o) ELSE 0]

LEMMA OrderCosts ==
  ASSUME IInv, NEW o \in DOMAIN orders
  PROVE  /\ MakerCosts(orders)[o] \in Nat /\ Resters[o] \in Nat /\ FullCosts[o] \in Int
         /\ orders[o].kind = "Maker" /\ orders[o].status \in Unclosed =>
              FullCosts[o] = MakerCosts(orders)[o] + Resters[o]
<1> DEFINE order == orders[o]
           p == order.price
           size == order.size
           filled == order.filled
           left == size - filled
<1>1. p \in Int /\ size \in Int /\ filled \in Nat
  <2>1. orders \in Seq(Order)
    BY DEF IInv, TypeOK
  <2>2. orders[o] \in Order
    BY <2>1
  <2> QED
    BY <2>2 DEF Order
<1>2. /\ order.status # "Rejected" => p \in 0..MaxPrice /\ filled <= size
      /\ order.status \in {"Open", "Rejected"} => filled = 0
      /\ order.status = "Filled" => filled = size
  BY DEF IInv, OpenedValid, StatusAgreesWithFills, Prices
<1>3. /\ MakerCosts(orders)[o] = (IF order.kind = "Maker" THEN p * filled ELSE 0)
      /\ FullCosts[o] = p * size
      /\ Resters[o] = (IF order.status \in {"Open", "PartiallyFilled"} THEN left * p ELSE 0)
  BY DEF MakerCosts, FullCosts, Resters, OpenOrders, OpenNotional, Remaining
<1> HIDE DEF order, p, size, filled
<1>4. p * filled \in Nat /\ p * size \in Int
  <2>1. filled # 0 => p \in Nat
    BY <1>2, MaxPriceAssumption
  <2>2. filled = 0 => p * filled = 0
    BY <1>1
  <2>3. p \in Nat => p * filled \in Nat
    BY <1>1
  <2> QED
    BY <1>1, <2>1, <2>2, <2>3
<1>5. order.status # "Rejected" => left * p \in Nat
  <2> SUFFICES ASSUME order.status # "Rejected" PROVE left * p \in Nat
    OBVIOUS
  <2>1. left \in Nat /\ p \in Nat
    BY <1>1, <1>2, MaxPriceAssumption
  <2> HIDE DEF left
  <2> QED
    BY <2>1
<1>6. p * size = p * filled + left * p
  BY <1>1, MulDist
<1>7. left = 0 => left * p = 0
  BY <1>1
<1>8. order.status = "Filled" => left = 0
  BY <1>1, <1>2
<1> HIDE DEF left
<1> QED
  BY <1>3, <1>4, <1>5, <1>6, <1>7, <1>8 DEF order, Unclosed

-----------------------------------------------------------------------------
Notionals == [n \in DOMAIN shadow |-> shadow[n].notional]
SentIn(T) == {n \in Submits : shadow[n].token \in T}

LEMMA RestIn ==
  ASSUME IInv, NEW T
  PROVE  SumFunctionOnSet(Resters, OrdersIn(T))
           = ReservedIn({o \in OpenOrders : orders[o].token \in T})
<1> DEFINE R == {o \in OpenOrders : orders[o].token \in T}
           f == [o \in DOMAIN orders |-> OpenNotional(o)]
           g == Resters
           S == OrdersIn(T)
<1>1. R \in SUBSET S /\ R \subseteq OpenOrders /\ \A o \in S \ R : g[o] = 0
  BY DEF OpenOrders, OrdersIn, Resters
<1>2. IsFiniteSet(S) /\ S \subseteq DOMAIN orders
  BY OrdersInTokens DEF IInv
<1>3. \A o \in S : g[o] \in Int
  BY <1>2, OrderCosts
<1>4. \A o \in R : g[o] = f[o]
  BY <1>1, <1>2 DEF Resters
<1> HIDE DEF R, f, g, S
<1>5. SumFunctionOnSet(g, R) = SumFunctionOnSet(g, S)
  BY <1>1, <1>2, <1>3, SumWithoutZeros
<1>6. IsFiniteSet(R) /\ \A o \in R : g[o] \in Int /\ g[o] = f[o]
  BY <1>1, <1>2, <1>3, <1>4, FS_Subset
<1>7. SumFunctionOnSet(g, R) = SumFunctionOnSet(f, R)
  BY <1>6, SumSame
<1> QED
  BY <1>5, <1>7 DEF ReservedIn, R, f, g, S

LEMMA SentOrders ==
  ASSUME IInv, DecisionsInv, SentInv, NEW T
  PROVE  LET P == {shadow[n].paper : n \in SentIn(T)}
         IN /\ P \in SUBSET OrdersIn(T)
            /\ SumFunctionOnSet(Notionals, SentIn(T)) = SumFunctionOnSet(FullCosts, P)
            /\ \A o \in P : orders[o].kind = "Maker" /\ orders[o].status \in Unclosed
<1> DEFINE S == SentIn(T)
           paper == [n \in DOMAIN shadow |-> shadow[n].paper]
           P == {paper[n] : n \in S}
           h == Notionals
           f == FullCosts
<1>1. /\ DOMAIN shadow = 1..Len(shadow) /\ Len(shadow) \in Nat /\ S \subseteq DOMAIN shadow
  BY DEF DecisionsInv, SentIn, Submits
<1>2. IsFiniteSet(S)
  BY <1>1, IntervalGrows, FS_Subset
<1>3. \A n \in S : /\ paper[n] \in DOMAIN orders /\ shadow[n].token \in T
                   /\ Backs(orders[paper[n]], shadow[n]) /\ h[n] = shadow[n].notional
  BY <1>1 DEF SentInv, SentIn, Submits, Notionals
<1>4. \A n \in S : h[n] = f[paper[n]] /\ f[paper[n]] \in Int
  <2> SUFFICES ASSUME NEW n \in S PROVE h[n] = f[paper[n]] /\ f[paper[n]] \in Int
    OBVIOUS
  <2> DEFINE o == paper[n]
  <2>1. o \in DOMAIN orders /\ h[n] = orders[o].price * orders[o].size
    BY <1>3 DEF Backs
  <2> HIDE DEF o
  <2>2. f[o] = orders[o].price * orders[o].size /\ f[o] \in Int
    BY <2>1, OrderCosts DEF FullCosts
  <2> QED
    BY <2>1, <2>2 DEF o
<1>5. \A m, n \in S : m # n => paper[m] # paper[n]
  BY <1>1 DEF SentInv, SentIn, Submits
<1>6. P \in SUBSET OrdersIn(T) /\ \A o \in P : orders[o].kind = "Maker" /\ orders[o].status \in Unclosed
  BY <1>3, ZenonT(60) DEF OrdersIn, Backs
<1>7. P = {shadow[n].paper : n \in SentIn(T)}
  BY <1>1
<1> HIDE DEF S, h, f, paper
<1>8. SumFunctionOnSet(h, S) = SumFunctionOnSet(f, P)
  BY <1>2, <1>4, <1>5, SumMoved
<1> QED
  BY <1>6, <1>7, <1>8 DEF S, h, f

(* What the shadow would have sent in some tokens is within their exposure. *)
LEMMA SentFits ==
  ASSUME AccountsInv, BoughtInv, DecisionsInv, SentInv, NEW T \in SUBSET Tokens
  PROVE  \E k \in Int : /\ Exposure(T) = Whole(k)
                        /\ SumFunctionOnSet(Notionals, SentIn(T)) <= k
                        /\ SumFunctionOnSet(Notionals, SentIn(T)) \in Int
<1> DEFINE S == OrdersIn(T)
           P == {shadow[n].paper : n \in SentIn(T)}
           mc == MakerCosts(orders)
           full == FullCosts
           rest == Resters
<1>1. IInv
  BY DEF AccountsInv
<1>2. /\ P \in SUBSET S
      /\ SumFunctionOnSet(Notionals, SentIn(T)) = SumFunctionOnSet(full, P)
      /\ \A o \in P : orders[o].kind = "Maker" /\ orders[o].status \in Unclosed
  BY <1>1, SentOrders
<1>3. IsFiniteSet(S) /\ S \subseteq DOMAIN orders
  BY <1>1, OrdersInTokens DEF IInv
<1>4. \A o \in S : mc[o] \in Nat /\ rest[o] \in Nat /\ full[o] \in Int
  BY <1>1, <1>3, OrderCosts
<1>5. \A o \in P : full[o] = mc[o] + rest[o]
  BY <1>1, <1>2, <1>3, OrderCosts
<1>6. SumFunctionOnSet(rest, S) = ReservedIn({o \in OpenOrders : orders[o].token \in T})
  BY <1>1, RestIn
<1>7. PICK c \in Int : NotionalIn(T) = Whole(c) /\ SumFunctionOnSet(mc, S) <= c
  BY HeldIn
<1> HIDE DEF S, P, mc, full, rest
<1>8. IsSum(full, mc, rest, P) /\ IsFiniteSet(P)
  <2>1. \A o \in P : mc[o] \in Int /\ rest[o] \in Int
    BY <1>2, <1>4
  <2> QED
    BY <1>2, <1>3, <1>5, <2>1, FS_Subset DEF IsSum
<1>9. SumFunctionOnSet(full, P) = SumFunctionOnSet(mc, P) + SumFunctionOnSet(rest, P)
  BY <1>8, SumBoth
<1>10. SumFunctionOnSet(mc, P) <= SumFunctionOnSet(mc, S)
  BY <1>2, <1>3, <1>4, SumWithin
<1>11. SumFunctionOnSet(rest, P) <= SumFunctionOnSet(rest, S)
  BY <1>2, <1>3, <1>4, SumWithin
<1>12. SumFunctionOnSet(mc, P) \in Int /\ SumFunctionOnSet(rest, P) \in Int
  <2>1. (\A o \in P : mc[o] \in Int) /\ \A o \in P : rest[o] \in Int
    BY <1>2, <1>4
  <2> QED
    BY <1>8, <2>1, SumType
<1>13. SumFunctionOnSet(mc, S) \in Int /\ SumFunctionOnSet(rest, S) \in Int
  <2>1. (\A o \in S : mc[o] \in Int) /\ \A o \in S : rest[o] \in Int
    BY <1>4
  <2> QED
    BY <1>3, <2>1, SumType
<1> DEFINE r == SumFunctionOnSet(rest, S)
<1>14. Exposure(T) = Plus(Whole(c), Whole(r))
  BY <1>6, <1>7 DEF Exposure
<1>15. Exposure(T) = Whole(c + r)
  <2>1. r \in Int
    BY <1>13
  <2> HIDE DEF r
  <2> QED
    BY <1>14, <2>1, WholePlus
<1>16. SumFunctionOnSet(full, P) <= c + r /\ SumFunctionOnSet(full, P) \in Int /\ c + r \in Int
  BY <1>7, <1>9, <1>10, <1>11, <1>12, <1>13
<1> QED
  BY <1>2, <1>15, <1>16

WithinMarkets == \A m \in Markets : SumFunctionOnSet(Notionals, SentIn(TokensOf[m])) <= ShadowLimits.market

LEMMA WithinMarketsIs ==
  WithinMarkets <=> ShadowStaysWithinMarket
BY DEF WithinMarkets, ShadowStaysWithinMarket, Notionals, SentIn

(* One more order sent in a market. *)
LEMMA OneMoreSent ==
  ASSUME DecisionsInv, NEW new, shadow' = Append(shadow, new), NEW T
  PROVE  /\ Len(shadow) + 1 \notin DOMAIN shadow
         /\ SentIn(T)' = IF new.submit /\ new.token \in T THEN SentIn(T) \cup {Len(shadow) + 1}
                         ELSE SentIn(T)
         /\ Notionals'[Len(shadow) + 1] = new.notional
         /\ \A n \in SentIn(T) : Notionals'[n] = Notionals[n]
<1> DEFINE k == Len(shadow) + 1
<1>1. /\ DOMAIN shadow' = DOMAIN shadow \cup {k} /\ k \notin DOMAIN shadow
      /\ shadow'[k] = new /\ \A n \in DOMAIN shadow : shadow'[n] = shadow[n]
  <2>1. shadow \in Seq({shadow[n] : n \in DOMAIN shadow})
    BY DEF DecisionsInv
  <2> QED
    BY <2>1
<1> HIDE DEF k
<1>2. SentIn(T)' = IF new.submit /\ new.token \in T THEN SentIn(T) \cup {k} ELSE SentIn(T)
  BY <1>1 DEF SentIn, Submits
<1>3. Notionals'[k] = new.notional /\ \A n \in SentIn(T) : Notionals'[n] = Notionals[n]
  BY <1>1 DEF Notionals, SentIn, Submits
<1> QED
  BY <1>1, <1>2, <1>3 DEF k

-----------------------------------------------------------------------------
LEMMA NotionalsAre ==
  ASSUME TypeOK, DecisionsInv, SentInv, NEW T
  PROVE  IsFiniteSet(SentIn(T)) /\ \A n \in SentIn(T) : Notionals[n] \in Int
<1>1. /\ DOMAIN shadow = 1..Len(shadow) /\ Len(shadow) \in Nat /\ SentIn(T) \subseteq DOMAIN shadow
  BY DEF DecisionsInv, SentIn, Submits
<1>2. IsFiniteSet(SentIn(T))
  BY <1>1, IntervalGrows, FS_Subset
<1>3. ASSUME NEW n \in SentIn(T) PROVE Notionals[n] \in Int
  <2> DEFINE o == shadow[n].paper
  <2>1. n \in DOMAIN shadow /\ o \in DOMAIN orders /\ Notionals[n] = orders[o].price * orders[o].size
    BY <1>1, <1>3 DEF SentIn, Submits, SentInv, Backs, Notionals
  <2>2. orders \in Seq(Order)
    BY DEF TypeOK
  <2> HIDE DEF o
  <2>3. orders[o].price \in Int /\ orders[o].size \in Int
    <3>1. orders[o] \in Order
      BY <2>1, <2>2
    <3> QED
      BY <3>1 DEF Order
  <2> QED
    BY <2>1, <2>3
<1> QED
  BY <1>2, <1>3

(* What is sent leaves room for itself in its market. *)
LEMMA SentHasRoom ==
  ASSUME AccountsInv, BoughtInv, DecisionsInv, SentInv, NEW m \in Markets, NEW i \in Candidates(m),
         Reasons(i, m) = {}
  PROVE  SumFunctionOnSet(Notionals, SentIn(TokensOf[m])) + i.notional <= ShadowLimits.market
<1> DEFINE T == TokensOf[m]
           sum == SumFunctionOnSet(Notionals, SentIn(T))
           limit == ShadowLimits.market
<1>1. T \in SUBSET Tokens
  BY MarketsAssumption
<1>2. PICK k \in Int : Exposure(T) = Whole(k) /\ sum <= k /\ sum \in Int
  BY <1>1, SentFits
<1>3. AtMost(Plus(Exposure(T), Whole(i.notional)), Whole(limit))
  <2>1. ExposureReasons(i, m) = {}
    BY DEF Reasons
  <2> QED
    BY <2>1 DEF ExposureReasons
<1>4. i.notional \in Int
  <2>1. Supported(i)
    BY DEF Reasons
  <2>2. i.notional \in Nat \ {0}
    BY <2>1, CandidateCosts DEF AccountsInv
  <2> QED
    BY <2>2
<1>5. limit \in Int
  BY LimitsAssumption
<1> HIDE DEF T, sum, limit
<1>6. Plus(Exposure(T), Whole(i.notional)) = Whole(k + i.notional)
  BY <1>2, <1>4, WholePlus
<1>7. k + i.notional <= limit
  BY <1>2, <1>3, <1>4, <1>5, <1>6 DEF AtMost, Whole
<1>8. sum + i.notional <= limit
  BY <1>2, <1>4, <1>5, <1>7
<1> QED
  BY <1>8 DEF T, sum, limit

LEMMA DecidedWithin ==
  ASSUME AccountsInv, BoughtInv, DecisionsInv, SentInv, WithinMarkets,
         NEW m \in Markets, NEW i \in Candidates(m), NEW edge, NEW paper,
         shadow' = Append(shadow, Decision(i, m, edge, paper))
  PROVE  WithinMarkets'
<1> DEFINE d == Decision(i, m, edge, paper)
           k == Len(shadow) + 1
<1>1. d.token = i.token /\ d.notional = i.notional /\ (d.submit => Reasons(i, m) = {})
  BY DecisionIs
<1>2. shadow' = Append(shadow, d)
  OBVIOUS
<1> HIDE DEF d
<1>3. ASSUME NEW n \in Markets
      PROVE  SumFunctionOnSet(Notionals', SentIn(TokensOf[n])') <= ShadowLimits.market
  <2> DEFINE T == TokensOf[n]
             S == SentIn(T)
             f == Notionals
             g == Notionals'
  <2>1. /\ k \notin S /\ g[k] = i.notional /\ \A x \in S : g[x] = f[x]
        /\ SentIn(T)' = IF d.submit /\ i.token \in T THEN S \cup {k} ELSE S
    <3>1. S \subseteq DOMAIN shadow
      BY DEF SentIn, Submits
    <3> QED
      BY <1>1, <1>2, <3>1, OneMoreSent
  <2>2. IsFiniteSet(S) /\ \A x \in S : f[x] \in Int
    BY NotionalsAre DEF AccountsInv, IInv
  <2>3. SumFunctionOnSet(f, S) <= ShadowLimits.market
    BY DEF WithinMarkets
  <2> HIDE DEF S, f, g, k
  <2>4. SumFunctionOnSet(g, S) = SumFunctionOnSet(f, S)
    <3>1. \A x \in S : f[x] \in Int /\ f[x] = g[x]
      BY <2>1, <2>2
    <3> QED
      BY <2>2, <3>1, SumSame
  <2>5. CASE ~(d.submit /\ i.token \in T)
    BY <2>1, <2>3, <2>4, <2>5 DEF g
  <2>6. CASE d.submit /\ i.token \in T
    <3>1. n = m
      <4>1. i.token \in TokensOf[m]
        BY CandidatesAre
      <4> QED
        BY <2>6, <4>1, MarketsAssumption
    <3>2. SumFunctionOnSet(f, S) + i.notional <= ShadowLimits.market
      BY <1>1, <2>6, <3>1, SentHasRoom DEF S, f
    <3>3. i.notional \in Int
      <4>1. Supported(i)
        BY <1>1, <2>6 DEF Reasons
      <4>2. i.notional \in Nat \ {0}
        BY <4>1, CandidateCosts DEF AccountsInv
      <4> QED
        BY <4>2
    <3>4. Summable(g, S \cup {k})
      <4>1. IsFiniteSet(S \cup {k})
        BY <2>2, FS_AddElement
      <4>2. \A x \in S \cup {k} : g[x] \in Int
        BY <2>1, <2>2, <3>3
      <4> QED
        BY <4>1, <4>2 DEF Summable
    <3>5. SumFunctionOnSet(g, S \cup {k}) = SumFunctionOnSet(g, S) + g[k]
      <4>1. k \notin S
        BY <2>1
      <4> QED
        BY <3>4, <4>1, SumOneMore
    <3>6. SentIn(T)' = S \cup {k}
      BY <2>1, <2>6
    <3>7. SumFunctionOnSet(g, SentIn(T)') = SumFunctionOnSet(g, S \cup {k})
      BY <3>6, Zenon
    <3> QED
      BY <2>1, <2>4, <3>2, <3>5, <3>7 DEF g
  <2> QED
    BY <2>5, <2>6
<1> QED
  BY <1>3 DEF WithinMarkets

LEMMA WithinNext ==
  ASSUME AccountsInv, BoughtInv, DecisionsInv, SentInv, WithinMarkets, [ShadowNext]_shadowVars
  PROVE  WithinMarkets'
<1> DEFINE m == MarketIds[Min(todo)]
<1>1. CASE shadow' = shadow
  BY <1>1 DEF WithinMarkets, Notionals, SentIn, Submits
<1>2. CASE ShadowEvaluate
  <2>1. m \in Markets
    BY <1>2, TodoIsThere DEF ShadowEvaluate, AccountsInv
  <2>2. \/ shadow' = shadow
        \/ \E i \in Candidates(m), edge \in EdgeReasons : shadow' = Append(shadow, Decision(i, m, edge, 0))
        \/ \E i \in Candidates(m), edge \in EdgeReasons : shadow' = Append(shadow, Decision(i, m, edge, NewId))
    BY <1>2 DEF ShadowEvaluate
  <2> HIDE DEF m
  <2> QED
    BY <1>1, <2>1, <2>2, DecidedWithin
<1> QED
  BY <1>1, <1>2 DEF ShadowNext, shadowVars

LEMMA WithinInit == ShadowInit => WithinMarkets
<1> SUFFICES ASSUME ShadowInit PROVE WithinMarkets
  OBVIOUS
<1>1. \A T : SentIn(T) = {}
  BY DEF ShadowInit, SentIn, Submits
<1> QED
  BY <1>1, SumEmpty, LimitsAssumption DEF WithinMarkets

(* The limit of a market holds for all the shadow would have sent in it    *)
(* together, however much of it has filled, at whatever prices, and        *)
(* whatever the marks did since.                                           *)
THEOREM LimitsAreKept == ShadowSpec => []ShadowKeepsItsLimits
<1>1. ShadowSpec => []AccountsInv
  BY ShadowOnlyWatches, AccountsKept
<1>2. AccountsInv => RunInv /\ TypeOK
  BY DEF AccountsInv, IInv
<1>3. AccountsInv /\ BoughtInv /\ [ShadowNext]_shadowVars => BoughtInv'
  BY ShadowStepRuns, BoughtNext
<1>4. ShadowInit => BoughtInv
  BY BoughtInit DEF ShadowInit
<1>5. ShadowSpec => []BoughtInv
  BY <1>1, <1>3, <1>4, PTL DEF ShadowSpec
<1>6. ShadowSpec => [](DecisionsInv /\ SentInv)
  BY <1>1, <1>2, DecisionsInit, DecisionsNext, SentInit, SentNext, PTL DEF ShadowSpec
<1>7. ShadowSpec => []WithinMarkets
  BY <1>1, <1>5, <1>6, WithinInit, WithinNext, PTL DEF ShadowSpec
<1>8. WithinMarkets /\ DivergenceCountsRefusals => ShadowKeepsItsLimits
  BY WithinMarketsIs DEF ShadowKeepsItsLimits
<1> QED
  BY <1>7, <1>8, DivergenceIsTrue, PTL
=============================================================================
