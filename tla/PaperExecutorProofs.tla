------------------------ MODULE PaperExecutorProofs ------------------------
(***************************************************************************)
(* Proofs about PaperExecutor, its refinement of PaperOrderLifecycle, and  *)
(* PaperTrading, which keeps the position, the money and the audit trail   *)
(* of the same orders: for every price scale and fee, whatever intents and *)
(* books come, and any number of orders and fills.                         *)
(***************************************************************************)
EXTENDS PaperTrading, DataLemmas

LEMMA IntentsAre ==
  \A i \in Intents :
     i.token \in Tokens /\ i.side \in Sides /\ i.kind \in Kinds /\ i.price \in Int /\ i.size \in Int
BY DEF Intents

LEMMA BooksAre ==
  \A b \in Books : b.bids \in Levels /\ b.asks \in Levels /\ b.trade \in Trade \cup {NoTrade}
BY DEF Books

(* What the levels of some prices offer together. *)
LEMMA PricesFinite == IsFiniteSet(Prices)
BY MaxPriceAssumption, FS_Interval DEF Prices

LEMMA DepthType ==
  ASSUME NEW levels \in Levels, NEW S \in SUBSET Prices
  PROVE  SumLevels(levels, S) \in Nat
<1>1. IsFiniteSet(S) /\ \A p \in S : levels[p] \in Nat
  BY PricesFinite, FS_Subset DEF Levels
<1> QED
  BY <1>1, SumNat DEF SumLevels

LEMMA BookLevels ==
  ASSUME NEW book \in Books, NEW side \in Sides
  PROVE  Opposite(book, side) \in Levels /\ SameSide(book, side) \in Levels
BY BooksAre DEF Opposite, SameSide

(* One pass over the book never takes more than what remains. *)
LEMMA TakerSizeBounds ==
  ASSUME NEW book \in Books, NEW side \in Sides, NEW limit \in Prices,
         NEW remaining \in Nat
  PROVE  TakerSize(Opposite(book, side), side, limit, remaining) \in 0..remaining
<1> DEFINE S == Executable(side, limit)
<1> DEFINE depth == SumLevels(Opposite(book, side), S)
<1>1. S \in SUBSET Prices
  BY DEF Executable
<1>2. depth \in Nat
  BY <1>1, BookLevels, DepthType
<1>3. Min({remaining, depth}) \in 0..remaining
  BY <1>2, MinPair
<1> QED
  BY <1>3 DEF TakerSize

(* Crediting a live order with 1..remaining keeps its status and fills in  *)
(* agreement and its identity unchanged.                                   *)
LEMMA CreditedOrder ==
  ASSUME NEW order \in Order, NEW more \in 1..Remaining(order)
  PROVE  /\ Credited(order, more) \in Order
         /\ Credited(order, more).filled = order.filled + more
         /\ Credited(order, more).size = order.size
         /\ Credited(order, more).price = order.price
         /\ Credited(order, more).kind = order.kind
         /\ Credited(order, more).status =
              IF order.filled + more = order.size THEN "Filled" ELSE "PartiallyFilled"
<1> DEFINE filled == order.filled + more
<1> DEFINE status == IF filled = order.size THEN "Filled" ELSE "PartiallyFilled"
<1> DEFINE new == [order EXCEPT !.filled = filled, !.status = status]
<1>1. Credited(order, more) = new
  BY DEF Credited
<1>2. filled \in Nat /\ status \in Statuses
  BY DEF Remaining, Order, Statuses
<1>3. new \in Order /\ new.filled = filled /\ new.status = status
  <2> HIDE DEF filled, status
  <2> QED BY <1>2 DEF Order
<1>4. new.size = order.size /\ new.price = order.price /\ new.kind = order.kind
  BY DEF Order
<1> QED
  BY <1>1, <1>3, <1>4

-----------------------------------------------------------------------------
(* The empty executor satisfies the invariant.                             *)
LEMMA InitInv == Init => IInv
BY DEF Init, IInv, TypeOK, OpenedValid, QueueExactlyForRestingMakers,
       StatusAgreesWithFills, QueueBookkeeping, QueuePriority

(* Appending an order that opens without a queue position: a rejected one, *)
(* or a taker that was matched on the spot.                                *)
LEMMA AppendKeepsInv ==
  ASSUME IInv, NEW new \in Order,
         orders' = Append(orders, new),
         new.status # "Rejected" => new.price \in Prices /\ new.size > 0,
         new.kind = "Taker" \/ new.status = "Rejected",
         new.status \in {"Open", "Rejected"} => new.filled = 0,
         new.status # "Rejected" => new.filled <= new.size,
         new.status = "Filled" <=> (new.filled > 0 /\ new.filled = new.size),
         new.status = "PartiallyFilled" => new.filled \in 1..(new.size - 1),
         UNCHANGED <<queues, printed, aheadAtOpen>>
  PROVE  IInv'
<1> USE DEF IInv
<1>1. /\ orders' \in Seq(Order)
      /\ Len(orders') = Len(orders) + 1
      /\ DOMAIN orders' = 1..(Len(orders) + 1)
      /\ DOMAIN orders = 1..Len(orders)
      /\ \A o \in DOMAIN orders : o \in DOMAIN orders' /\ orders'[o] = orders[o]
      /\ orders'[Len(orders) + 1] = new
  BY DEF TypeOK
<1>2. \A o \in DOMAIN orders' : o \in DOMAIN orders \/ o = Len(orders) + 1
  BY <1>1
<1>3. Len(orders) + 1 \notin DOMAIN orders
  BY <1>1
<1>4. TypeOK'
  BY <1>1 DEF TypeOK
<1>5. OpenedValid'
  BY <1>1, <1>2 DEF OpenedValid
<1>6. QueueExactlyForRestingMakers'
  BY <1>1, <1>2, <1>3 DEF QueueExactlyForRestingMakers, IsLive, TerminalStatuses
<1>7. StatusAgreesWithFills'
  BY <1>1, <1>2 DEF StatusAgreesWithFills
<1>8. QueueBookkeeping'
  <2>1. (DOMAIN printed)' = {o \in DOMAIN orders' :
                       orders'[o].kind = "Maker" /\ orders'[o].status # "Rejected"}
    BY <1>1, <1>2, <1>3 DEF QueueBookkeeping
  <2> QED BY <2>1 DEF QueueBookkeeping, Beyond
<1>9. QueuePriority'
  BY <1>1 DEF QueuePriority, Beyond, TypeOK
<1> QED
  BY <1>4, <1>5, <1>6, <1>7, <1>8, <1>9

(* What build_paper_order makes of an intent. *)
LEMMA NewOrderTypes ==
  ASSUME NEW i \in Intents, NEW status \in Statuses
  PROVE  /\ BuildOrder(i, status) \in Order
         /\ BuildOrder(i, status).kind = i.kind
         /\ BuildOrder(i, status).side = i.side
         /\ BuildOrder(i, status).price = i.price
         /\ BuildOrder(i, status).size = i.size
         /\ BuildOrder(i, status).filled = 0
         /\ BuildOrder(i, status).status = status
BY IntentsAre DEF BuildOrder, Order

(* A rejected order uses up an id and disturbs nothing else.               *)
LEMMA RejectApprovedInv ==
  ASSUME IInv, NEW i \in Intents, RejectApproved(i)
  PROVE  IInv'
<1>1. "Rejected" \in Statuses
  BY DEF Statuses
<1> QED
  BY <1>1, NewOrderTypes, AppendKeepsInv DEF RejectApproved

(* What TakeFrom makes of a live order. *)
LEMMA TakeFromOrder ==
  ASSUME NEW order \in Order, NEW o, NEW book \in Books,
         IsLive(order), order.price \in Prices, order.filled <= order.size,
         order.size > 0,
         order.status = "Open" => order.filled = 0,
         order.status = "PartiallyFilled" => order.filled \in 1..(order.size - 1)
  PROVE  LET new == TakeFrom(order, o, book).order IN
         /\ new \in Order
         /\ new.kind = order.kind /\ new.price = order.price /\ new.size = order.size
         /\ new.status # "Rejected"
         /\ new.filled <= new.size
         /\ new.status = "Open" => new.filled = 0
         /\ new.status = "Filled" <=> (new.filled > 0 /\ new.filled = new.size)
         /\ new.status = "PartiallyFilled" => new.filled \in 1..(new.size - 1)
         /\ new = order \/ new.status \in {"Filled", "PartiallyFilled"}
<1> DEFINE levels == Opposite(book, order.side)
<1> DEFINE size == TakerSize(levels, order.side, order.price, Remaining(order))
<1> DEFINE new == TakeFrom(order, o, book).order
<1>1. order.side \in Sides /\ order.size \in Int /\ order.filled \in Nat /\ order.status \in Statuses
  BY DEF Order
<1>2. Remaining(order) \in Nat
  BY <1>1 DEF Remaining
<1>3. size \in 0..Remaining(order)
  BY <1>1, <1>2, TakerSizeBounds
<1>4. new = IF size = 0 THEN order ELSE Credited(order, size)
  BY DEF TakeFrom
<1>5. CASE size = 0
  BY <1>1, <1>4, <1>5 DEF IsLive, TerminalStatuses, Statuses
<1>6. CASE size # 0
  <2>1. size \in 1..Remaining(order)
    BY <1>3, <1>6, <1>2
  <2>2. new = Credited(order, size)
    BY <1>4, <1>6
  <2> HIDE DEF size, new
  <2>3. /\ new \in Order /\ new.filled = order.filled + size
        /\ new.size = order.size /\ new.price = order.price /\ new.kind = order.kind
        /\ new.status = IF order.filled + size = order.size
                        THEN "Filled" ELSE "PartiallyFilled"
    BY <2>1, <2>2, CreditedOrder
  <2>4. order.filled + size \in 1..order.size
    BY <2>1, <1>1 DEF Remaining
  <2>5. /\ new.kind = order.kind /\ new.price = order.price /\ new.size = order.size
        /\ new.status \in {"Filled", "PartiallyFilled"}
        /\ new.filled <= new.size
        /\ new.status = "Filled" <=> (new.filled > 0 /\ new.filled = new.size)
        /\ new.status = "PartiallyFilled" => new.filled \in 1..(new.size - 1)
    BY <2>3, <2>4, <1>1
  <2> QED BY <2>3, <2>5 DEF new
<1> QED
  BY <1>5, <1>6

(* A taker opened and matched in the same call keeps the invariant.        *)
LEMMA OpenTakerInv ==
  ASSUME IInv, NEW i \in Intents, NEW book \in Books,
         ValidIntent(i), i.kind = "Taker", OpenTaker(i, book)
  PROVE  IInv'
<1> DEFINE order == BuildOrder(i, "Open")
<1> DEFINE new == TakeFrom(order, NewId, book).order
<1>1. /\ order \in Order /\ order.kind = "Taker" /\ order.price \in Prices
      /\ order.size > 0 /\ order.filled = 0 /\ order.status = "Open" /\ order.size \in Int
  BY NewOrderTypes, IntentsAre DEF ValidIntent, Statuses
<1>2. order.filled <= order.size /\ IsLive(order)
  BY <1>1 DEF IsLive, TerminalStatuses
<1> HIDE DEF order
<1>3. /\ new \in Order
      /\ new.kind = "Taker" /\ new.price \in Prices /\ new.size > 0
      /\ new.status # "Rejected"
      /\ new.filled <= new.size
      /\ new.status = "Open" => new.filled = 0
      /\ new.status = "Filled" <=> (new.filled > 0 /\ new.filled = new.size)
      /\ new.status = "PartiallyFilled" => new.filled \in 1..(new.size - 1)
  BY <1>1, <1>2, TakeFromOrder
<1>4. orders' = Append(orders, new) /\ UNCHANGED <<queues, printed, aheadAtOpen>>
  BY DEF OpenTaker, order
<1> HIDE DEF new
<1> QED
  BY <1>3, <1>4, AppendKeepsInv

(* A resting maker gets a queue position behind the visible size.          *)
LEMMA OpenMakerInv ==
  ASSUME IInv, NEW i \in Intents, NEW book \in Books,
         ValidIntent(i), i.kind = "Maker", OpenMaker(i, book)
  PROVE  IInv'
<1> USE DEF IInv
<1> DEFINE new == BuildOrder(i, "Open")
<1> DEFINE ahead == SameSide(book, i.side)[i.price]
<1> DEFINE queue == [ahead |-> ahead, seen |-> book.trade]
<1>1. /\ new \in Order /\ new.kind = "Maker" /\ new.price \in Prices
      /\ new.size > 0 /\ new.filled = 0 /\ new.status = "Open" /\ new.size \in Int
  BY NewOrderTypes, IntentsAre DEF ValidIntent, Statuses
<1>2. ahead \in Nat /\ queue \in Queue
  <2>1. ahead \in Nat
    BY BooksAre DEF SameSide, Levels, ValidIntent
  <2> QED BY <2>1, BooksAre DEF Queue
<1>3. /\ orders' = Append(orders, new)
      /\ queues' = Put(queues, NewId, queue)
      /\ printed' = Put(printed, NewId, 0)
      /\ aheadAtOpen' = Put(aheadAtOpen, NewId, ahead)
  BY DEF OpenMaker
<1> HIDE DEF new, ahead, queue
<1>4. /\ orders' \in Seq(Order)
      /\ DOMAIN orders = 1..Len(orders)
      /\ \A o \in DOMAIN orders : o \in DOMAIN orders' /\ orders'[o] = orders[o]
      /\ orders'[NewId] = new /\ NewId \in DOMAIN orders' /\ NewId \notin DOMAIN orders
      /\ \A o \in DOMAIN orders' : o \in DOMAIN orders \/ o = NewId
  BY <1>1, <1>3 DEF TypeOK, NewId
<1>5. /\ DOMAIN queues' = DOMAIN queues \cup {NewId}
      /\ DOMAIN printed' = DOMAIN printed \cup {NewId}
      /\ DOMAIN aheadAtOpen' = DOMAIN aheadAtOpen \cup {NewId}
      /\ queues'[NewId] = queue /\ printed'[NewId] = 0 /\ aheadAtOpen'[NewId] = ahead
      /\ \A o \in DOMAIN queues : queues'[o] = queues[o]
      /\ \A o \in DOMAIN printed : printed'[o] = printed[o] /\ aheadAtOpen'[o] = aheadAtOpen[o]
  BY <1>3, <1>4 DEF Put, TypeOK
<1>6. TypeOK'
  BY <1>2, <1>4, <1>5 DEF TypeOK
<1>7. OpenedValid'
  BY <1>1, <1>4 DEF OpenedValid
<1>8. QueueExactlyForRestingMakers'
  BY <1>1, <1>4, <1>5 DEF QueueExactlyForRestingMakers, IsLive, TerminalStatuses
<1>9. StatusAgreesWithFills'
  BY <1>1, <1>4 DEF StatusAgreesWithFills
<1>10. QueueBookkeeping'
  <2>1. (DOMAIN printed)' = {o \in DOMAIN orders' :
                       orders'[o].kind = "Maker" /\ orders'[o].status # "Rejected"}
    BY <1>1, <1>4, <1>5 DEF QueueBookkeeping
  <2>2. \A o \in DOMAIN queues : o \in DOMAIN printed
    BY DEF QueueBookkeeping, QueueExactlyForRestingMakers, IsLive, TerminalStatuses
  <2>3. queue.ahead = ahead
    BY DEF queue
  <2>4. queues'[NewId].ahead = IF printed'[NewId] - aheadAtOpen'[NewId] >= 0
                               THEN 0 ELSE -(printed'[NewId] - aheadAtOpen'[NewId])
    BY <1>2, <1>5, <2>3
  <2> QED BY <1>5, <2>1, <2>2, <2>4 DEF QueueBookkeeping, Beyond
<1>11. QueuePriority'
  <2>1. 0 = Due(0 - ahead, new.size)
    BY <1>1, <1>2 DEF Due
  <2>2. DOMAIN printed \subseteq DOMAIN orders
    BY DEF TypeOK
  <2> QED BY <1>1, <1>4, <1>5, <2>1, <2>2 DEF QueuePriority, Beyond
<1> QED
  BY <1>6, <1>7, <1>8, <1>9, <1>10, <1>11

(* Replacing a live order by one with the same identity: what the          *)
(* conjuncts that do not mention queues say of the result.                 *)
LEMMA ReplaceOrder ==
  ASSUME TypeOK, OpenedValid, StatusAgreesWithFills,
         NEW o \in DOMAIN orders, NEW new \in Order,
         orders' = [orders EXCEPT ![o] = new],
         new.price = orders[o].price, new.size = orders[o].size,
         orders[o].status # "Rejected", new.status # "Rejected",
         new.status = "Open" => new.filled = 0,
         new.filled <= new.size,
         new.status = "Filled" <=> (new.filled > 0 /\ new.filled = new.size),
         new.status = "PartiallyFilled" => new.filled \in 1..(new.size - 1)
  PROVE  /\ orders' \in Seq(Order)
         /\ DOMAIN orders' = DOMAIN orders
         /\ orders'[o] = new
         /\ \A x \in DOMAIN orders : x # o => orders'[x] = orders[x]
         /\ OpenedValid'
         /\ StatusAgreesWithFills'
<1>1. orders' \in Seq(Order) /\ DOMAIN orders' = DOMAIN orders
  BY DEF TypeOK
<1>2. orders'[o] = new
  BY <1>1 DEF TypeOK
<1>3. \A x \in DOMAIN orders : x # o => orders'[x] = orders[x]
  BY <1>1 DEF TypeOK
<1>4. OpenedValid'
  BY <1>1, <1>2, <1>3 DEF OpenedValid
<1>5. StatusAgreesWithFills'
  BY <1>1, <1>2, <1>3 DEF StatusAgreesWithFills
<1> QED
  BY <1>1, <1>2, <1>3, <1>4, <1>5

(* A later look of an open taker at the book keeps the invariant.          *)
LEMMA SimulateTakerFillInv ==
  ASSUME IInv, NEW o \in DOMAIN orders, NEW book \in Books, SimulateTakerFill(o, book)
  PROVE  IInv'
<1> USE DEF IInv
<1> DEFINE old == orders[o]
<1> DEFINE new == TakeFrom(old, o, book).order
<1>1. /\ old \in Order /\ IsLive(old) /\ old.kind = "Taker" /\ old.status # "Rejected"
  BY DEF SimulateTakerFill, CanSimulate, TypeOK, IsLive, TerminalStatuses
<1>2. /\ old.price \in Prices /\ old.size > 0 /\ old.filled <= old.size
      /\ old.status = "Open" => old.filled = 0
      /\ old.status = "PartiallyFilled" => old.filled \in 1..(old.size - 1)
  BY <1>1 DEF OpenedValid, StatusAgreesWithFills
<1> HIDE DEF old
<1>3. /\ new \in Order
      /\ new.kind = "Taker" /\ new.price = old.price /\ new.size = old.size
      /\ new.status # "Rejected"
      /\ new.filled <= new.size
      /\ new.status = "Open" => new.filled = 0
      /\ new.status = "Filled" <=> (new.filled > 0 /\ new.filled = new.size)
      /\ new.status = "PartiallyFilled" => new.filled \in 1..(new.size - 1)
  BY <1>1, <1>2, TakeFromOrder
<1>4. orders' = [orders EXCEPT ![o] = new] /\ UNCHANGED <<queues, printed, aheadAtOpen>>
  BY DEF SimulateTakerFill, old
<1> HIDE DEF new
<1>5. /\ orders' \in Seq(Order)
      /\ DOMAIN orders' = DOMAIN orders
      /\ orders'[o] = new
      /\ \A x \in DOMAIN orders : x # o => orders'[x] = orders[x]
      /\ OpenedValid'
      /\ StatusAgreesWithFills'
  BY <1>1, <1>3, <1>4, ReplaceOrder DEF old
<1>6. TypeOK'
  BY <1>4, <1>5 DEF TypeOK
<1>7. QueueExactlyForRestingMakers'
  BY <1>1, <1>3, <1>4, <1>5 DEF QueueExactlyForRestingMakers, old
<1>8. QueueBookkeeping'
  <2>1. (DOMAIN printed)' = {x \in DOMAIN orders' :
                       orders'[x].kind = "Maker" /\ orders'[x].status # "Rejected"}
    BY <1>1, <1>3, <1>4, <1>5 DEF QueueBookkeeping, old
  <2> QED BY <1>4, <2>1 DEF QueueBookkeeping, Beyond
<1>9. QueuePriority'
  <2>1. o \notin DOMAIN printed
    BY <1>1 DEF QueueBookkeeping, old
  <2> QED BY <1>4, <1>5, <2>1 DEF QueuePriority, Beyond, TypeOK
<1> QED
  BY <1>5, <1>6, <1>7, <1>8, <1>9

(* Cancel and expiry close the order and drop its queue position together. *)
LEMMA CloseAsInv ==
  ASSUME IInv, NEW o \in DOMAIN orders, NEW status \in {"Canceled", "Expired"},
         CloseAs(o, status)
  PROVE  IInv'
<1> USE DEF IInv
<1> DEFINE old == orders[o]
<1> DEFINE new == [old EXCEPT !.status = status]
<1>1. old \in Order /\ IsLive(old) /\ old.status # "Rejected"
  BY DEF CloseAs, TypeOK, IsLive, TerminalStatuses
<1>2. /\ new \in Order /\ new.status = status /\ new.price = old.price
      /\ new.size = old.size /\ new.filled = old.filled /\ new.kind = old.kind
  BY <1>1 DEF Order, Statuses
<1>3. /\ old.size > 0 /\ old.filled <= old.size
      /\ ~ (old.filled > 0 /\ old.filled = old.size)
  BY <1>1 DEF OpenedValid, StatusAgreesWithFills, IsLive, TerminalStatuses
<1>4. orders' = [orders EXCEPT ![o] = new]
  BY <1>1 DEF CloseAs, TypeOK
<1>5. /\ queues' = [x \in DOMAIN queues \ {o} |-> queues[x]]
      /\ UNCHANGED <<printed, aheadAtOpen>>
  BY DEF CloseAs, Drop
<1> HIDE DEF new
<1>6. /\ orders' \in Seq(Order)
      /\ DOMAIN orders' = DOMAIN orders
      /\ orders'[o] = new
      /\ \A x \in DOMAIN orders : x # o => orders'[x] = orders[x]
      /\ OpenedValid'
      /\ StatusAgreesWithFills'
  BY <1>1, <1>2, <1>3, <1>4, ReplaceOrder
<1>7. TypeOK'
  BY <1>5, <1>6 DEF TypeOK
<1>8. QueueExactlyForRestingMakers'
  BY <1>2, <1>5, <1>6 DEF QueueExactlyForRestingMakers, IsLive, TerminalStatuses
<1>9. QueueBookkeeping'
  <2>1. (DOMAIN printed)' = {x \in DOMAIN orders' :
                       orders'[x].kind = "Maker" /\ orders'[x].status # "Rejected"}
    BY <1>1, <1>2, <1>5, <1>6 DEF QueueBookkeeping
  <2> QED BY <1>5, <2>1 DEF QueueBookkeeping, Beyond
<1>10. QueuePriority'
  BY <1>2, <1>5, <1>6, SMTT(60) DEF QueuePriority, Beyond, TypeOK
<1> QED
  BY <1>6, <1>7, <1>8, <1>9, <1>10

(* One counted print: queue position and fill follow the total printed,    *)
(* whatever part of the print the queue and the order took (step 5).       *)
LEMMA SimulateMakerFillInv ==
  ASSUME IInv, NEW o \in DOMAIN orders, NEW book \in Books, SimulateMakerFill(o, book)
  PROVE  IInv'
<1> USE DEF IInv
<1> DEFINE old == orders[o]
<1> DEFINE trade == book.trade
<1> DEFINE counts == trade.price = old.price /\ trade.size > 0
<1> DEFINE volume == IF counts THEN trade.size ELSE 0
<1> DEFINE consumed == IF counts THEN Min({queues[o].ahead, trade.size}) ELSE 0
<1> DEFINE more == IF counts THEN Min({trade.size - consumed, Remaining(old)}) ELSE 0
<1> DEFINE new == IF more = 0 THEN old ELSE Credited(old, more)
<1> DEFINE queue == [ahead |-> queues[o].ahead - consumed, seen |-> trade]
<1>1. /\ old \in Order /\ IsLive(old) /\ old.kind = "Maker" /\ old.status # "Rejected"
      /\ trade \in Trade
  BY BooksAre DEF SimulateMakerFill, CanSimulate, TypeOK, IsLive, TerminalStatuses
<1>2. /\ old.price \in Prices /\ old.size \in Nat /\ old.size > 0
      /\ old.filled \in Nat /\ old.filled < old.size
      /\ old.status = "Open" => old.filled = 0
      /\ old.status = "PartiallyFilled" => old.filled \in 1..(old.size - 1)
      /\ old.status \in {"Open", "PartiallyFilled"}
  <2>1. /\ old.price \in Prices /\ old.size > 0 /\ old.filled <= old.size
        /\ ~ (old.filled > 0 /\ old.filled = old.size)
        /\ old.status = "Open" => old.filled = 0
        /\ old.status = "PartiallyFilled" => old.filled \in 1..(old.size - 1)
    BY <1>1 DEF OpenedValid, StatusAgreesWithFills, IsLive, TerminalStatuses
  <2>2. old.size \in Int /\ old.filled \in Nat /\ old.status \in Statuses
    BY <1>1 DEF Order
  <2> QED BY <1>1, <2>1, <2>2 DEF IsLive, TerminalStatuses, Statuses
<1>3. /\ o \in DOMAIN queues /\ o \in DOMAIN printed
      /\ queues[o].ahead \in Nat /\ printed[o] \in Nat /\ aheadAtOpen[o] \in Nat
      /\ o \in DOMAIN aheadAtOpen
      /\ queues[o].ahead = IF Beyond(o) >= 0 THEN 0 ELSE -Beyond(o)
      /\ old.filled = Due(Beyond(o), old.size)
  BY <1>1 DEF QueueExactlyForRestingMakers, QueueBookkeeping, QueuePriority, TypeOK, Queue
<1>4. trade.size \in Nat /\ volume \in Nat
  BY <1>1 DEF Trade
<1>5. /\ consumed \in 0..queues[o].ahead /\ more \in 0..(old.size - old.filled)
      /\ old.filled + more = Due(printed[o] + volume - aheadAtOpen[o], old.size)
      /\ old.filled + more < old.size =>
           queues[o].ahead - consumed =
             IF printed[o] + volume - aheadAtOpen[o] >= 0 THEN 0
             ELSE -(printed[o] + volume - aheadAtOpen[o])
  <2>1. CASE counts
    <3> DEFINE ahead == queues[o].ahead
    <3> DEFINE beyond == printed[o] - aheadAtOpen[o]
    <3>1. consumed = (IF ahead <= trade.size THEN ahead ELSE trade.size) /\ consumed \in Nat
      BY <1>3, <1>4, <2>1, MinPair
    <3>2. more = IF trade.size - consumed <= old.size - old.filled
                 THEN trade.size - consumed ELSE old.size - old.filled
      <4>1. more = Min({trade.size - consumed, old.size - old.filled})
        BY <2>1 DEF Remaining
      <4>2. trade.size - consumed \in Int /\ old.size - old.filled \in Int
        BY <1>2, <1>4, <3>1
      <4> DEFINE left == trade.size - consumed
                 want == old.size - old.filled
      <4>3. left \in Int /\ want \in Int /\ more = Min({left, want})
        BY <4>1, <4>2
      <4> HIDE DEF consumed, more, left, want
      <4>4. more = IF left <= want THEN left ELSE want
        BY <4>3, MinPair
      <4> QED BY <4>4 DEF left, want
    <3>3. /\ old.filled = Due(beyond, old.size) /\ beyond \in Int
          /\ ahead = IF beyond >= 0 THEN 0 ELSE -beyond
      BY <1>3 DEF Beyond
    <3>4. volume = trade.size
      BY <2>1
    <3>5. printed[o] + volume - aheadAtOpen[o] = beyond + trade.size
      BY <1>3, <1>4, <3>4
    <3> HIDE DEF old, trade, counts, volume, consumed, more, beyond, ahead
    <3>6. /\ consumed \in 0..ahead /\ more \in 0..(old.size - old.filled)
          /\ old.filled + more = Due(beyond + trade.size, old.size)
          /\ old.filled + more < old.size =>
               ahead - consumed = IF beyond + trade.size >= 0 THEN 0
                                  ELSE -(beyond + trade.size)
      <4>1. ahead \in Nat
        BY <1>3 DEF ahead
      <4>2. /\ old.size \in Nat /\ old.size > 0 /\ old.filled \in Nat
            /\ old.filled < old.size /\ trade.size \in Nat
        BY <1>2, <1>4
      <4>3. CASE beyond >= 0
        <5>1. consumed = 0 /\ ahead = 0
          BY <3>1, <3>3, <4>2, <4>3
        <5>2. old.filled = beyond
          BY <3>3, <4>2, <4>3 DEF Due
        <5>3. more = IF trade.size <= old.size - old.filled THEN trade.size
                     ELSE old.size - old.filled
          BY <3>2, <4>2, <5>1
        <5> QED BY <3>3, <4>2, <4>3, <5>1, <5>2, <5>3 DEF Due
      <4>4. CASE beyond < 0 /\ ahead <= trade.size
        <5>1. consumed = ahead /\ ahead = -beyond /\ old.filled = 0
          BY <3>1, <3>3, <4>2, <4>4 DEF Due
        <5>2. more = IF trade.size + beyond <= old.size THEN trade.size + beyond
                     ELSE old.size
          BY <3>2, <3>3, <4>2, <5>1
        <5>3. beyond + trade.size \in Nat /\ consumed \in 0..ahead /\ ahead - consumed = 0
          BY <3>3, <4>1, <4>2, <4>4, <5>1
        <5>4. more \in 0..(old.size - old.filled)
          BY <3>3, <4>2, <5>1, <5>2, <5>3
        <5>5. old.filled + more = Due(beyond + trade.size, old.size)
          BY <3>3, <4>2, <5>1, <5>2, <5>3 DEF Due
        <5>6. ahead - consumed = IF beyond + trade.size >= 0 THEN 0
                                 ELSE -(beyond + trade.size)
          BY <5>3
        <5> QED BY <5>3, <5>4, <5>5, <5>6
      <4>5. CASE beyond < 0 /\ ahead > trade.size
        <5>1. /\ consumed = trade.size /\ old.filled = 0 /\ more = 0
              /\ beyond + trade.size < 0 /\ ahead = -beyond
          BY <3>1, <3>2, <3>3, <4>1, <4>2, <4>5 DEF Due
        <5>2. Due(beyond + trade.size, old.size) = 0
          BY <3>3, <4>2, <5>1 DEF Due
        <5> QED BY <3>1, <3>3, <4>1, <4>2, <4>5, <5>1, <5>2
      <4> QED BY <3>3, <4>1, <4>2, <4>3, <4>4, <4>5
    <3> QED BY <3>5, <3>6 DEF ahead
  <2>2. CASE ~ counts
    BY <1>2, <1>3, <1>4, <2>2 DEF Beyond, Due
  <2> QED BY <2>1, <2>2
<1>6. /\ new \in Order /\ new.price = old.price /\ new.size = old.size
      /\ new.kind = old.kind /\ new.filled = old.filled + more
      /\ new.status # "Rejected"
      /\ new.status = "Open" => new.filled = 0
      /\ new.filled <= new.size
      /\ new.status = "Filled" <=> (new.filled > 0 /\ new.filled = new.size)
      /\ new.status = "PartiallyFilled" => new.filled \in 1..(new.size - 1)
      /\ new.status \in {"Open", "PartiallyFilled", "Filled"}
  <2> HIDE DEF old, more
  <2>1. CASE more = 0
    BY <1>1, <1>2, <2>1
  <2>2. CASE more # 0
    <3>1. more \in 1..Remaining(old) /\ new = Credited(old, more)
      BY <1>2, <1>5, <2>2 DEF Remaining
    <3> HIDE DEF new
    <3> QED BY <1>1, <1>2, <1>5, <3>1, CreditedOrder, SMTT(60)
  <2> QED BY <2>1, <2>2
<1>7. /\ orders' = [orders EXCEPT ![o] = new]
      /\ queues' = IF new.status = "Filled" THEN Drop(queues, o) ELSE Put(queues, o, queue)
      /\ printed' = [printed EXCEPT ![o] = @ + volume]
      /\ aheadAtOpen' = aheadAtOpen
  BY DEF SimulateMakerFill
<1>8. queue.ahead = queues[o].ahead - consumed /\ queue \in Queue
  BY <1>1, <1>3, <1>5 DEF Queue
<1> HIDE DEF new, old, more, consumed, volume, counts, trade, queue
<1>9. /\ orders' \in Seq(Order)
      /\ DOMAIN orders' = DOMAIN orders
      /\ orders'[o] = new
      /\ \A x \in DOMAIN orders : x # o => orders'[x] = orders[x]
      /\ OpenedValid'
      /\ StatusAgreesWithFills'
  BY <1>1, <1>2, <1>5, <1>6, <1>7, ReplaceOrder DEF old
<1>10. /\ DOMAIN printed' = DOMAIN printed
       /\ printed'[o] = printed[o] + volume
       /\ \A x \in DOMAIN printed : x # o => printed'[x] = printed[x]
  BY <1>3, <1>7
<1>11. /\ \A x : x \in DOMAIN queues' <=>
                 (x \in DOMAIN queues /\ (x = o => new.status # "Filled"))
       /\ new.status # "Filled" => queues'[o] = queue
       /\ \A x \in DOMAIN queues' : x # o => queues'[x] = queues[x]
  <2>1. CASE new.status = "Filled"
    BY <1>3, <1>7, <2>1 DEF Drop
  <2>2. CASE new.status # "Filled"
    BY <1>3, <1>7, <2>2 DEF Put
  <2> QED BY <2>1, <2>2
<1>12. TypeOK'
  BY <1>4, <1>7, <1>8, <1>9, <1>10, <1>11, <1>3 DEF TypeOK
<1>13. QueueExactlyForRestingMakers'
  <2>1. orders'[o].kind = "Maker" /\ (IsLive(orders'[o]) <=> new.status # "Filled")
    BY <1>1, <1>6, <1>9 DEF IsLive, TerminalStatuses, old
  <2>2. \A x : x \in DOMAIN queues' <=>
              (x \in DOMAIN orders' /\ orders'[x].kind = "Maker" /\ IsLive(orders'[x]))
    BY <1>3, <1>9, <1>11, <2>1 DEF QueueExactlyForRestingMakers
  <2> QED BY <2>2 DEF QueueExactlyForRestingMakers
<1>14. QueueBookkeeping'
  <2>1. (DOMAIN printed)' = {x \in DOMAIN orders' :
                       orders'[x].kind = "Maker" /\ orders'[x].status # "Rejected"}
    BY <1>1, <1>3, <1>6, <1>9, <1>10, SMTT(60) DEF QueueBookkeeping, old
  <2>2. \A x \in DOMAIN queues' : x # o => x \in DOMAIN queues /\ x \in DOMAIN printed
    BY <1>11 DEF QueueBookkeeping, QueueExactlyForRestingMakers, IsLive, TerminalStatuses
  <2>3. \A x \in DOMAIN queues' : x # o =>
           queues'[x].ahead = IF printed'[x] - aheadAtOpen'[x] >= 0 THEN 0
                              ELSE -(printed'[x] - aheadAtOpen'[x])
    <3> TAKE x \in DOMAIN queues'
    <3> HAVE x # o
    <3>1. /\ queues'[x] = queues[x] /\ printed'[x] = printed[x]
          /\ aheadAtOpen'[x] = aheadAtOpen[x] /\ x \in DOMAIN queues
      BY <1>7, <1>10, <1>11, <2>2
    <3>2. queues[x].ahead = IF printed[x] - aheadAtOpen[x] >= 0 THEN 0
                            ELSE -(printed[x] - aheadAtOpen[x])
      BY <3>1 DEF QueueBookkeeping, Beyond
    <3> QED BY <3>1, <3>2
  <2>4. o \in DOMAIN queues' =>
           queues'[o].ahead = IF printed'[o] - aheadAtOpen'[o] >= 0 THEN 0
                              ELSE -(printed'[o] - aheadAtOpen'[o])
    <3> HAVE o \in DOMAIN queues'
    <3>1. new.status # "Filled" /\ queues'[o].ahead = queues[o].ahead - consumed
      BY <1>8, <1>11
    <3>2. old.filled + more < old.size
      <4>1. more \in 0..(old.size - old.filled)
        BY <1>5
      <4>2. ~ (old.filled + more > 0 /\ old.filled + more = old.size)
        BY <1>6, <3>1
      <4> QED BY <1>2, <4>1, <4>2
    <3>3. printed'[o] - aheadAtOpen'[o] = printed[o] + volume - aheadAtOpen[o]
      BY <1>3, <1>4, <1>7, <1>10
    <3> QED BY <1>5, <3>1, <3>2, <3>3
  <2> QED BY <2>1, <2>3, <2>4 DEF QueueBookkeeping, Beyond
<1>15. QueuePriority'
  <2>1. orders'[o].filled = Due(printed'[o] - aheadAtOpen'[o], orders'[o].size)
    <3>1. old.filled + more = Due(printed[o] + volume - aheadAtOpen[o], old.size)
      BY <1>5
    <3>2. printed'[o] - aheadAtOpen'[o] = printed[o] + volume - aheadAtOpen[o]
      BY <1>3, <1>4, <1>7, <1>10
    <3>3. orders'[o].filled = old.filled + more /\ orders'[o].size = old.size
      BY <1>6, <1>9
    <3> QED BY <3>1, <3>2, <3>3
  <2>2. \A x \in DOMAIN printed' : x # o =>
           orders'[x].filled = Due(printed'[x] - aheadAtOpen'[x], orders'[x].size)
    BY <1>7, <1>9, <1>10 DEF QueuePriority, Beyond, TypeOK
  <2> QED BY <2>1, <2>2 DEF QueuePriority, Beyond
<1> QED
  BY <1>9, <1>12, <1>13, <1>14, <1>15

-----------------------------------------------------------------------------
(* Every step of the executor preserves the invariant.                     *)
LEMMA NextInv == IInv /\ [Next]_vars => IInv'
<1> SUFFICES ASSUME IInv, [Next]_vars
             PROVE  IInv'
  OBVIOUS
<1>1. ASSUME NEW i \in Intents, NEW book \in Books, OpenPaperOrder(i, book)
      PROVE  IInv'
  BY <1>1, RejectApprovedInv, OpenMakerInv, OpenTakerInv DEF OpenPaperOrder
<1>2. ASSUME NEW i \in Intents, RejectIntent(i)
      PROVE  IInv'
  BY <1>2, RejectApprovedInv DEF RejectIntent
<1>3. ASSUME NEW o \in DOMAIN orders, NEW book \in Books, SimulateFill(o, book)
      PROVE  IInv'
  BY <1>3, SimulateMakerFillInv, SimulateTakerFillInv DEF SimulateFill
<1>4. ASSUME NEW o \in DOMAIN orders, CancelOrder(o) \/ ExpireOrder(o)
      PROVE  IInv'
  BY <1>4, CloseAsInv DEF CancelOrder, ExpireOrder
<1>5. CASE UNCHANGED vars
  BY <1>5 DEF vars, IInv, TypeOK, OpenedValid, QueueExactlyForRestingMakers,
     StatusAgreesWithFills, QueueBookkeeping, QueuePriority, Beyond
<1> QED
  BY <1>1, <1>2, <1>3, <1>4, <1>5 DEF Next

(* The inductive invariant holds in every state of every behaviour.        *)
THEOREM Invariance == Spec => []IInv
BY InitInv, NextInv, PTL DEF Spec

(* The executor's state is always well typed. *)
THEOREM TypeCorrect == Spec => []TypeOK
BY Invariance, PTL DEF IInv

(* maker_queues holds a position exactly for the maker orders that can     *)
(* still be filled: simulate_maker_fill never meets MakerQueueMissing.     *)
THEOREM QueuesMatchOrders == Spec => []QueueExactlyForRestingMakers
BY Invariance, PTL DEF IInv

(* Status, fills and size of every paper order agree; none is overfilled.  *)
THEOREM FillsWithinSize == Spec => []StatusAgreesWithFills
BY Invariance, PTL DEF IInv

(* Queue priority for every sequence of books and prints: a maker order is *)
(* filled by exactly the volume shown beyond the queue it joined.          *)
THEOREM QueueIsNeverJumped == Spec => []QueuePriority
BY Invariance, PTL DEF IInv

-----------------------------------------------------------------------------
(* Refinement of PaperOrderLifecycle.                                      *)

Entry == [size : Int, filled : Nat, status : Statuses]
EntryOf(order) == [size |-> order.size, filled |-> order.filled, status |-> order.status]

LedgerOf(s) == [o \in DOMAIN s |-> EntryOf(s[o])]

(* An order has a well-typed ledger entry.                                 *)
LEMMA EntryType == ASSUME NEW order \in Order PROVE EntryOf(order) \in Entry
BY DEF Entry, EntryOf, Order

(* The ledger of a sequence of orders is a sequence of entries.            *)
LEMMA LedgerType ==
  ASSUME NEW s \in Seq(Order)
  PROVE  /\ LedgerOf(s) \in Seq(Entry) /\ Len(LedgerOf(s)) = Len(s)
         /\ DOMAIN LedgerOf(s) = 1..Len(s)
         /\ \A o \in DOMAIN s : LedgerOf(s)[o] = EntryOf(s[o])
<1>1. DOMAIN s = 1..Len(s) /\ Len(s) \in Nat /\ \A o \in DOMAIN s : s[o] \in Order
  OBVIOUS
<1>2. \A o \in DOMAIN s : EntryOf(s[o]) \in Entry
  BY <1>1, EntryType
<1>3. LedgerOf(s) = [o \in 1..Len(s) |-> EntryOf(s[o])]
  BY <1>1 DEF LedgerOf
<1>4. LedgerOf(s) \in [1..Len(s) -> Entry]
  BY <1>1, <1>2, <1>3
<1> QED
  BY <1>1, <1>3, <1>4

(* The refinement mapping, as a function of the orders alone.              *)
LEMMA LedgerIs == Ledger = LedgerOf(orders) /\ Ledger' = LedgerOf(orders')
BY DEF Ledger, LedgerOf, EntryOf

(* Appending an order appends its entry.                                   *)
LEMMA LedgerAppend ==
  ASSUME NEW s \in Seq(Order), NEW new \in Order
  PROVE  /\ LedgerOf(Append(s, new)) = Append(LedgerOf(s), EntryOf(new))
         /\ Len(LedgerOf(Append(s, new))) = Len(LedgerOf(s)) + 1
<1> DEFINE longer == Append(s, new)
<1>1. longer \in Seq(Order) /\ Len(longer) = Len(s) + 1 /\ Len(s) \in Nat
  OBVIOUS
<1>2. \A o \in 1..Len(longer) : longer[o] = IF o <= Len(s) THEN s[o] ELSE new
  BY <1>1
<1> HIDE DEF longer
<1>3. /\ LedgerOf(longer) \in Seq(Entry) /\ Len(LedgerOf(longer)) = Len(s) + 1
      /\ \A o \in 1..Len(longer) : LedgerOf(longer)[o] = EntryOf(longer[o])
  BY <1>1, LedgerType
<1>4. /\ LedgerOf(s) \in Seq(Entry) /\ Len(LedgerOf(s)) = Len(s)
      /\ \A o \in 1..Len(s) : LedgerOf(s)[o] = EntryOf(s[o])
  BY LedgerType
<1>5. EntryOf(new) \in Entry
  BY EntryType
<1>6. /\ Append(LedgerOf(s), EntryOf(new)) \in Seq(Entry)
      /\ Len(Append(LedgerOf(s), EntryOf(new))) = Len(s) + 1
      /\ \A o \in 1..(Len(s) + 1) : Append(LedgerOf(s), EntryOf(new))[o] =
            IF o <= Len(s) THEN LedgerOf(s)[o] ELSE EntryOf(new)
  BY <1>4, <1>5
<1>7. \A o \in 1..(Len(s) + 1) :
         LedgerOf(longer)[o] = Append(LedgerOf(s), EntryOf(new))[o]
  BY <1>1, <1>2, <1>3, <1>4, <1>6
<1>8. LedgerOf(longer) = Append(LedgerOf(s), EntryOf(new))
  BY <1>1, <1>3, <1>6, <1>7
<1> QED
  BY <1>3, <1>4, <1>8 DEF longer

(* Replacing an order replaces its entry.                                  *)
LEMMA LedgerReplace ==
  ASSUME NEW s \in Seq(Order), NEW o \in DOMAIN s, NEW new \in Order
  PROVE  /\ LedgerOf([s EXCEPT ![o] = new]) = [LedgerOf(s) EXCEPT ![o] = EntryOf(new)]
         /\ o \in DOMAIN LedgerOf(s) /\ LedgerOf(s)[o] = EntryOf(s[o])
BY DEF LedgerOf

(* A step that replaces one order replaces one entry of the ledger.        *)
LEMMA LedgerReplaced ==
  ASSUME TypeOK, NEW o \in DOMAIN orders, NEW new \in Order,
         orders' = [orders EXCEPT ![o] = new]
  PROVE  /\ Ledger' = [Ledger EXCEPT ![o] = EntryOf(new)]
         /\ o \in DOMAIN Ledger /\ Ledger[o] = EntryOf(orders[o])
<1>1. orders \in Seq(Order)
  BY DEF TypeOK
<1>2. /\ LedgerOf([orders EXCEPT ![o] = new]) = [LedgerOf(orders) EXCEPT ![o] = EntryOf(new)]
      /\ o \in DOMAIN LedgerOf(orders) /\ LedgerOf(orders)[o] = EntryOf(orders[o])
  BY <1>1, LedgerReplace
<1>3. LedgerOf(orders') = LedgerOf([orders EXCEPT ![o] = new])
  OBVIOUS
<1> HIDE DEF Ledger, LedgerOf
<1> QED
  BY <1>2, <1>3, LedgerIs

(* A status that is not terminal is one of the abstract live ones.         *)
LEMMA LiveStatuses ==
  ASSUME NEW order \in Order, IsLive(order)
  PROVE  order.status \in {"Open", "PartiallyFilled"}
BY DEF IsLive, TerminalStatuses, Order, Statuses

(* A step that appends an admissible order creates it in the ledger. *)
LEMMA AppendCreates ==
  ASSUME TypeOK, NEW new \in Order, orders' = Append(orders, new),
         \/ new.filled = 0 /\ new.status \in {"Open", "Rejected"}
         \/ /\ new.filled \in 1..new.size
            /\ new.status = IF new.filled = new.size THEN "Filled" ELSE "PartiallyFilled"
  PROVE  Lifecycle!Create
<1>1. orders \in Seq(Order)
  BY DEF TypeOK
<1>2. /\ Ledger' = Append(Ledger, EntryOf(new)) /\ Len(Ledger') = Len(Ledger) + 1
      /\ Ledger \in Seq(Entry) /\ EntryOf(new) \in Entry
  BY <1>1, LedgerIs, LedgerAppend, LedgerType, EntryType
<1>3. Ledger'[Len(Ledger')] = EntryOf(new)
  BY <1>2
<1>4. /\ EntryOf(new).filled = new.filled /\ EntryOf(new).size = new.size
      /\ EntryOf(new).status = new.status
  BY DEF EntryOf
<1> HIDE DEF Ledger
<1> QED
  BY <1>2, <1>3, <1>4 DEF Lifecycle!Create, Lifecycle!StatusOf

(* A step that credits a live order fills it in the ledger. *)
LEMMA CreditFills ==
  ASSUME TypeOK, NEW o \in DOMAIN orders, NEW more \in 1..Remaining(orders[o]),
         orders[o].status \in {"Open", "PartiallyFilled"},
         orders' = [orders EXCEPT ![o] = Credited(orders[o], more)]
  PROVE  Lifecycle!Fill
<1> DEFINE old == orders[o]
<1> DEFINE new == Credited(old, more)
<1>1. orders \in Seq(Order) /\ old \in Order
  BY DEF TypeOK
<1>2. /\ new \in Order /\ new.filled = old.filled + more /\ new.size = old.size
      /\ new.status = IF old.filled + more = old.size THEN "Filled" ELSE "PartiallyFilled"
  BY <1>1, CreditedOrder
<1>3. /\ Ledger' = [Ledger EXCEPT ![o] = EntryOf(new)]
      /\ o \in DOMAIN Ledger /\ Ledger[o] = EntryOf(old)
  <2>1. orders' = [orders EXCEPT ![o] = new]
    OBVIOUS
  <2> HIDE DEF new
  <2> QED BY <1>1, <1>2, <2>1, LedgerReplaced
<1>4. EntryOf(new) = [size |-> old.size, filled |-> old.filled + more,
                      status |-> Lifecycle!StatusOf(old.size, old.filled + more)]
  BY <1>2 DEF EntryOf, Lifecycle!StatusOf
<1>5. EntryOf(old) = [size |-> old.size, filled |-> old.filled, status |-> old.status]
  BY DEF EntryOf
<1> HIDE DEF Ledger, old, new
<1>6. /\ Ledger[o].size = old.size /\ Ledger[o].filled = old.filled
      /\ Ledger[o].status = old.status
  BY <1>3, <1>5
<1>7. [[Ledger[o] EXCEPT !.filled = old.filled + more]
         EXCEPT !.status = Lifecycle!StatusOf(old.size, old.filled + more)] = EntryOf(new)
  <2> DEFINE status == Lifecycle!StatusOf(old.size, old.filled + more)
  <2>1. [Ledger[o] EXCEPT !.filled = old.filled + more] =
           [size |-> old.size, filled |-> old.filled + more, status |-> old.status]
    BY <1>3, <1>5
  <2> HIDE DEF status
  <2>2. [[size |-> old.size, filled |-> old.filled + more, status |-> old.status]
            EXCEPT !.status = status] =
           [size |-> old.size, filled |-> old.filled + more, status |-> status]
    OBVIOUS
  <2> QED BY <1>4, <2>1, <2>2 DEF status
<1>8. more \in 1..(Ledger[o].size - Ledger[o].filled) /\ Ledger[o].status \in Lifecycle!Live
  BY <1>6 DEF old, Remaining, Lifecycle!Live
<1> QED
  BY <1>3, <1>6, <1>7, <1>8 DEF Lifecycle!Fill

(* A taker's pass over the book fills its entry or leaves it alone.        *)
LEMMA TakeFromRefines ==
  ASSUME IInv, NEW order \in Order, NEW o, NEW book \in Books,
         order.price \in Prices, order.filled <= order.size
  PROVE  \/ TakeFrom(order, o, book).order = order
         \/ \E more \in 1..Remaining(order) :
               TakeFrom(order, o, book).order = Credited(order, more)
<1> DEFINE size == TakerSize(Opposite(book, order.side), order.side, order.price, Remaining(order))
<1>1. Remaining(order) \in Nat /\ order.side \in Sides
  BY DEF Remaining, Order
<1>2. size \in 0..Remaining(order)
  BY <1>1, TakerSizeBounds
<1>3. TakeFrom(order, o, book).order = IF size = 0 THEN order ELSE Credited(order, size)
  BY DEF TakeFrom
<1> HIDE DEF size
<1> QED
  BY <1>1, <1>2, <1>3

(* Every step of the executor is an abstract step or a stutter.            *)
LEMMA StepRefines == IInv /\ [Next]_vars => [Lifecycle!Next]_Ledger
<1> SUFFICES ASSUME IInv, [Next]_vars
             PROVE  Lifecycle!Next \/ UNCHANGED Ledger
  OBVIOUS
<1>0. TypeOK /\ orders \in Seq(Order)
  BY DEF IInv, TypeOK
<1>1. ASSUME NEW i \in Intents, RejectApproved(i)
      PROVE  Lifecycle!Create
  <2>1. /\ BuildOrder(i, "Rejected") \in Order /\ BuildOrder(i, "Rejected").filled = 0
        /\ BuildOrder(i, "Rejected").status = "Rejected"
    BY NewOrderTypes DEF Statuses
  <2> QED BY <1>0, <1>1, <2>1, AppendCreates DEF RejectApproved
<1>2. ASSUME NEW i \in Intents, NEW book \in Books, OpenMaker(i, book)
      PROVE  Lifecycle!Create
  <2>1. /\ BuildOrder(i, "Open") \in Order /\ BuildOrder(i, "Open").filled = 0
        /\ BuildOrder(i, "Open").status = "Open"
    BY NewOrderTypes DEF Statuses
  <2>2. orders' = Append(orders, BuildOrder(i, "Open"))
    BY <1>2 DEF OpenMaker
  <2> QED BY <1>0, <2>1, <2>2, AppendCreates
<1>3. ASSUME NEW i \in Intents, NEW book \in Books, ValidIntent(i), OpenTaker(i, book)
      PROVE  Lifecycle!Create
  <2> DEFINE order == BuildOrder(i, "Open")
  <2> DEFINE new == TakeFrom(order, NewId, book).order
  <2>1. /\ order \in Order /\ order.filled = 0 /\ order.status = "Open"
        /\ order.price \in Prices /\ order.size > 0 /\ order.size \in Int
    BY <1>3, NewOrderTypes, IntentsAre DEF ValidIntent, Statuses
  <2>2. orders' = Append(orders, new)
    BY <1>3 DEF OpenTaker
  <2> HIDE DEF order
  <2>3. CASE new = order
    BY <1>0, <2>1, <2>2, <2>3, AppendCreates
  <2>4. ASSUME NEW more \in 1..Remaining(order), new = Credited(order, more)
        PROVE  Lifecycle!Create
    <3>1. /\ new \in Order /\ new.filled = more /\ new.size = order.size
          /\ new.status = IF more = order.size THEN "Filled" ELSE "PartiallyFilled"
      <4> HIDE DEF new
      <4> QED BY <2>1, <2>4, CreditedOrder DEF Remaining
    <3>2. more \in 1..order.size
      BY <2>1 DEF Remaining
    <3> HIDE DEF new
    <3> QED BY <1>0, <2>2, <3>1, <3>2, AppendCreates
  <2>5. order.filled <= order.size
    BY <2>1
  <2>6. new = order \/ \E more \in 1..Remaining(order) : new = Credited(order, more)
    BY <2>1, <2>5, TakeFromRefines
  <2> HIDE DEF new
  <2> QED BY <2>3, <2>4, <2>6
<1>4. ASSUME NEW o \in DOMAIN orders, NEW book \in Books, SimulateMakerFill(o, book)
      PROVE  Lifecycle!Fill \/ UNCHANGED Ledger
  <2> DEFINE old == orders[o]
  <2>1. PICK more : orders' = [orders EXCEPT ![o] = IF more = 0 THEN old ELSE Credited(old, more)]
                    /\ more \in 0..Remaining(old)
    <3> DEFINE trade == book.trade
    <3> DEFINE counts == trade.price = old.price /\ trade.size > 0
    <3> DEFINE consumed == IF counts THEN Min({queues[o].ahead, trade.size}) ELSE 0
    <3> DEFINE more == IF counts THEN Min({trade.size - consumed, Remaining(old)}) ELSE 0
    <3>1. orders' = [orders EXCEPT ![o] = IF more = 0 THEN old ELSE Credited(old, more)]
      BY <1>4 DEF SimulateMakerFill
    <3>2. old \in Order /\ IsLive(old) /\ old.kind = "Maker" /\ trade \in Trade
      BY <1>0, <1>4, BooksAre DEF SimulateMakerFill, CanSimulate
    <3>3. queues[o].ahead \in Nat /\ trade.size \in Nat
      BY <3>2 DEF IInv, QueueExactlyForRestingMakers, TypeOK, Queue, Trade
    <3>4. Remaining(old) \in Nat
      BY <3>2 DEF IInv, StatusAgreesWithFills, IsLive, TerminalStatuses, Order, Remaining
    <3>5. consumed \in Nat /\ consumed <= trade.size
      BY <3>3, MinPair
    <3> HIDE DEF consumed
    <3>6. more \in 0..Remaining(old)
      BY <3>3, <3>4, <3>5, MinPair
    <3> HIDE DEF more
    <3> QED BY <3>1, <3>6
  <2>2. CASE more = 0
    <3>1. orders' = orders
      BY <1>0, <2>1, <2>2
    <3> QED BY <3>1 DEF Ledger
  <2>3. CASE more # 0
    <3>1. old.status \in {"Open", "PartiallyFilled"}
      <4>1. old \in Order /\ IsLive(old)
        BY <1>0, <1>4 DEF SimulateMakerFill, CanSimulate
      <4> QED BY <4>1, LiveStatuses
    <3>2. more \in 1..Remaining(old)
      BY <2>1, <2>3, <1>0 DEF Order, Remaining
    <3>3. orders' = [orders EXCEPT ![o] = Credited(old, more)]
      BY <2>1, <2>3
    <3> QED BY <1>0, <3>1, <3>2, <3>3, CreditFills
  <2> QED BY <2>2, <2>3
<1>5. ASSUME NEW o \in DOMAIN orders, NEW book \in Books, SimulateTakerFill(o, book)
      PROVE  Lifecycle!Fill \/ UNCHANGED Ledger
  <2> DEFINE old == orders[o]
  <2> DEFINE new == TakeFrom(old, o, book).order
  <2>1. old \in Order /\ old.status \in {"Open", "PartiallyFilled"}
    <3>1. old \in Order /\ IsLive(old)
      BY <1>0, <1>5 DEF SimulateTakerFill, CanSimulate
    <3> QED BY <3>1, LiveStatuses
  <2>2. old.price \in Prices /\ old.filled <= old.size
    BY <2>1 DEF IInv, OpenedValid, StatusAgreesWithFills
  <2>3. orders' = [orders EXCEPT ![o] = new]
    BY <1>5 DEF SimulateTakerFill
  <2>4. new = old \/ \E more \in 1..Remaining(old) : new = Credited(old, more)
    BY <2>1, <2>2, TakeFromRefines
  <2> HIDE DEF new
  <2>5. CASE new = old
    <3>1. orders' = orders
      BY <1>0, <2>3, <2>5
    <3> QED BY <3>1 DEF Ledger
  <2>6. ASSUME NEW more \in 1..Remaining(old), new = Credited(old, more)
        PROVE  Lifecycle!Fill
    BY <1>0, <2>1, <2>3, <2>6, CreditFills
  <2> QED BY <2>4, <2>5, <2>6
<1>6. ASSUME NEW o \in DOMAIN orders, NEW status \in {"Canceled", "Expired"}, CloseAs(o, status)
      PROVE  Lifecycle!Close
  <2> DEFINE new == [orders[o] EXCEPT !.status = status]
  <2>1. orders[o] \in Order /\ orders[o].status \in {"Open", "PartiallyFilled"}
    <3>1. orders[o] \in Order /\ IsLive(orders[o])
      BY <1>0, <1>6 DEF CloseAs
    <3> QED BY <3>1, LiveStatuses
  <2>2. new \in Order
    BY <2>1 DEF Order, Statuses
  <2>3. orders' = [orders EXCEPT ![o] = new]
    BY <1>0, <1>6 DEF CloseAs
  <2>4. /\ Ledger' = [Ledger EXCEPT ![o] = EntryOf(new)]
        /\ o \in DOMAIN Ledger /\ Ledger[o] = EntryOf(orders[o])
    <3> HIDE DEF new
    <3> QED BY <1>0, <2>2, <2>3, LedgerReplaced
  <2>5. EntryOf(new) = [EntryOf(orders[o]) EXCEPT !.status = status]
    BY <2>1 DEF EntryOf, Order
  <2>6. EntryOf(orders[o]).status \in Lifecycle!Live
    BY <2>1 DEF EntryOf, Lifecycle!Live
  <2> HIDE DEF new, Ledger
  <2> QED BY <2>4, <2>5, <2>6 DEF Lifecycle!Close
<1>7. CASE UNCHANGED vars
  BY <1>7 DEF vars, Ledger
<1> QED
  BY <1>1, <1>2, <1>3, <1>4, <1>5, <1>6, <1>7
     DEF Next, OpenPaperOrder, RejectIntent, SimulateFill, CancelOrder, ExpireOrder,
         Lifecycle!Next

(* The empty executor is the empty ledger.                                 *)
LEMMA InitRefines == Init => Lifecycle!Init
BY DEF Init, Ledger, Lifecycle!Init

(* However fills are found, readers of paper orders see the lifecycle they *)
(* are promised: growth up to the size, Filled exactly when nothing is     *)
(* left, and no change once an order is terminal.                          *)
THEOREM ImplementsLifecycle == Spec => LifecycleSpec
BY InitRefines, StepRefines, Invariance, PTL DEF Spec, LifecycleSpec, Lifecycle!Spec

-----------------------------------------------------------------------------
(* Fills add up.  A taker pass over the levels of a book, best first, takes *)
(* in all what TakerSize says: by induction on how far down the levels the  *)
(* pass has come.                                                           *)
Rank(side, p) == IF side = "Buy" THEN p ELSE MaxPrice - p
Down(side, k) == {p \in Prices : Rank(side, p) < k}    \* the k best prices

LEMMA DownGrows ==
  ASSUME NEW side \in Sides, NEW k \in Nat, k <= MaxPrice
  PROVE  \E p \in Prices : /\ Rank(side, p) = k /\ p \notin Down(side, k)
                           /\ Down(side, k + 1) = Down(side, k) \cup {p}
<1> DEFINE p == IF side = "Buy" THEN k ELSE MaxPrice - k
<1>1. p \in Prices /\ Rank(side, p) = k
  BY MaxPriceAssumption DEF Rank, Prices
<1>2. \A q \in Prices : Rank(side, q) \in Int /\ (Rank(side, q) = k => q = p)
  BY MaxPriceAssumption DEF Rank, Prices
<1> HIDE DEF p
<1>3. Down(side, k + 1) = Down(side, k) \cup {p}
  BY <1>1, <1>2 DEF Down
<1>4. p \notin Down(side, k)
  BY <1>1 DEF Down
<1> QED
  BY <1>1, <1>3, <1>4

LEMMA BetterIsDown ==
  ASSUME NEW side \in Sides, NEW limit \in Prices, NEW p \in Prices
  PROVE  {q \in Executable(side, limit) : IF side = "Buy" THEN q < p ELSE q > p}
           = Down(side, Rank(side, p)) \cap Executable(side, limit)
BY MaxPriceAssumption DEF Executable, Down, Rank, Prices

(* What the pass takes at one price, given the depth that is better. *)
LEMMA TakeAt ==
  ASSUME NEW levels \in Levels, NEW side \in Sides, NEW limit \in Prices,
         NEW remaining \in Nat, NEW p \in Prices
  PROVE  LET S == Executable(side, limit)
             better == SumLevels(levels, Down(side, Rank(side, p)) \cap S)
             take == Take(levels, side, limit, remaining)[p]
         IN /\ better \in Nat /\ levels[p] \in Nat /\ take \in Nat
            /\ p \notin S => take = 0
            /\ p \in S => take = IF remaining <= better THEN 0
                                 ELSE IF remaining - better <= levels[p]
                                      THEN remaining - better ELSE levels[p]
<1> DEFINE S == Executable(side, limit)
           B == Down(side, Rank(side, p)) \cap S
           better == SumLevels(levels, B)
           take == Take(levels, side, limit, remaining)[p]
<1>1. B \in SUBSET Prices
  BY DEF Down
<1>2. better \in Nat /\ levels[p] \in Nat
  <2> HIDE DEF B
  <2> QED
    BY <1>1, DepthType DEF Levels
<1>3. take = IF p \in S /\ remaining - better > 0
             THEN Min({remaining - better, levels[p]}) ELSE 0
  BY BetterIsDown DEF Take
<1> HIDE DEF S, B, better, take
<1>4. Min({remaining - better, levels[p]})
        = IF remaining - better <= levels[p] THEN remaining - better ELSE levels[p]
  <2>1. remaining - better \in Int /\ levels[p] \in Int
    BY <1>2
  <2> QED
    BY <2>1, MinPair
<1>5. /\ take \in Nat
      /\ p \notin S => take = 0
      /\ p \in S => take = IF remaining <= better THEN 0
                           ELSE IF remaining - better <= levels[p]
                                THEN remaining - better ELSE levels[p]
  BY <1>2, <1>3, <1>4
<1> QED
  BY <1>2, <1>5 DEF S, B, better, take

LEMMA TakeAddsUp ==
  ASSUME NEW levels \in Levels, NEW side \in Sides, NEW limit \in Prices,
         NEW remaining \in Nat
  PROVE  /\ Take(levels, side, limit, remaining) \in Levels
         /\ SumLevels(Take(levels, side, limit, remaining), Prices)
              = TakerSize(levels, side, limit, remaining)
<1> DEFINE take == Take(levels, side, limit, remaining)
           S == Executable(side, limit)
           depth(k) == SumLevels(levels, Down(side, k) \cap S)
           taken(k) == SumLevels(take, Down(side, k))
           Q == {k \in Nat : k <= MaxPrice + 1 =>
                    taken(k) = IF remaining <= depth(k) THEN remaining ELSE depth(k)}
<1>1. take \in Levels
  <2>1. \A p \in Prices : take[p] \in Nat
    BY TakeAt
  <2> QED
    BY <2>1 DEF Take, Levels
<1>2. \A k \in Nat : Down(side, k) \in SUBSET Prices /\ (Down(side, k) \cap S) \in SUBSET Prices
  BY DEF Down
<1>3. \A k \in Nat : depth(k) \in Nat /\ taken(k) \in Nat
  <2> HIDE DEF take, S
  <2> QED
    BY <1>1, <1>2, DepthType
<1>4. 0 \in Q
  <2>1. Down(side, 0) = {} /\ (Down(side, 0) \cap S) = {}
    BY MaxPriceAssumption DEF Down, Rank, Prices
  <2>2. depth(0) = 0 /\ taken(0) = 0
    BY <2>1, SumEmpty DEF SumLevels
  <2> QED
    BY <2>2
<1>5. ASSUME NEW k \in Nat, k \in Q PROVE k + 1 \in Q
  <2> SUFFICES ASSUME k + 1 <= MaxPrice + 1
               PROVE  taken(k + 1) = IF remaining <= depth(k + 1) THEN remaining ELSE depth(k + 1)
    OBVIOUS
  <2>1. k <= MaxPrice /\ k <= MaxPrice + 1
    BY MaxPriceAssumption
  <2>2. PICK p \in Prices : /\ Rank(side, p) = k /\ p \notin Down(side, k)
                            /\ Down(side, k + 1) = Down(side, k) \cup {p}
    BY <2>1, DownGrows
  <2>3. /\ take[p] \in Nat /\ levels[p] \in Nat
        /\ p \notin S => take[p] = 0
        /\ p \in S => take[p] = IF remaining <= depth(k) THEN 0
                                ELSE IF remaining - depth(k) <= levels[p]
                                     THEN remaining - depth(k) ELSE levels[p]
    BY <2>2, TakeAt
  <2> HIDE DEF take, S
  <2>4. taken(k + 1) = taken(k) + take[p]
    <3>1. IsFiniteSet(Down(side, k)) /\ \A q \in Down(side, k) \cup {p} : take[q] \in Int
      BY <1>1, <1>2, PricesFinite, FS_Subset DEF Levels
    <3> QED
      BY <2>2, <3>1, SumAdd DEF SumLevels
  <2>5. depth(k + 1) = IF p \in S THEN depth(k) + levels[p] ELSE depth(k)
    <3>1. /\ IsFiniteSet(Down(side, k) \cap S)
          /\ \A q \in (Down(side, k) \cap S) \cup {p} : levels[q] \in Int
          /\ p \notin (Down(side, k) \cap S)
      BY <1>2, <2>2, PricesFinite, FS_Subset DEF Levels
    <3>2. (Down(side, k + 1) \cap S)
            = IF p \in S THEN (Down(side, k) \cap S) \cup {p} ELSE Down(side, k) \cap S
      BY <2>2
    <3>3. SumFunctionOnSet(levels, (Down(side, k) \cap S) \cup {p})
            = SumFunctionOnSet(levels, Down(side, k) \cap S) + levels[p]
      BY <3>1, SumAdd
    <3> QED
      BY <3>2, <3>3 DEF SumLevels
  <2>6. depth(k) \in Nat /\ taken(k) = IF remaining <= depth(k) THEN remaining ELSE depth(k)
    BY <1>3, <1>5, <2>1
  <2> HIDE DEF depth, taken
  <2> QED
    BY <2>3, <2>4, <2>5, <2>6
<1>6. \A k \in Nat : k \in Q
  <2> HIDE DEF Q
  <2> QED
    BY <1>4, <1>5, NatSetInduction
<1>7. Down(side, MaxPrice + 1) = Prices /\ (Prices \cap S) = S
  BY MaxPriceAssumption DEF Down, Rank, Prices, Executable
<1>8. taken(MaxPrice + 1) = IF remaining <= depth(MaxPrice + 1)
                            THEN remaining ELSE depth(MaxPrice + 1)
  BY <1>6, MaxPriceAssumption
<1>9. SumLevels(take, Prices) = IF remaining <= SumLevels(levels, S)
                                THEN remaining ELSE SumLevels(levels, S)
  BY <1>7, <1>8
<1>10. TakerSize(levels, side, limit, remaining) = IF remaining <= SumLevels(levels, S)
                                                   THEN remaining ELSE SumLevels(levels, S)
  <2>1. SumLevels(levels, S) \in Nat
    BY DepthType DEF Executable
  <2> HIDE DEF S
  <2>2. Min({remaining, SumLevels(levels, S)})
          = IF remaining <= SumLevels(levels, S) THEN remaining ELSE SumLevels(levels, S)
    BY <2>1, MinPair
  <2> QED
    BY <2>2 DEF TakerSize, S
<1> QED
  BY <1>1, <1>9, <1>10

(* A maker fill is at one price. *)
LEMMA AtPriceAddsUp ==
  ASSUME NEW price \in Prices, NEW size \in Nat
  PROVE  AtPrice(price, size) \in Levels /\ SumLevels(AtPrice(price, size), Prices) = size
<1> DEFINE by == AtPrice(price, size)
<1>1. /\ by \in Levels /\ by[price] = size
      /\ \A p \in Prices \ {price} : by[p] = 0
      /\ \A p \in Prices : by[p] \in Int
  BY DEF AtPrice, Levels
<1> HIDE DEF by
<1>2. SumFunctionOnSet(by, Prices) = by[price] + SumFunctionOnSet(by, Prices \ {price})
  BY <1>1, PricesFinite, SumRemove
<1>3. SumFunctionOnSet(by, Prices \ {price}) = 0
  BY <1>1, PricesFinite, FS_RemoveElement, SumZero
<1> QED
  BY <1>1, <1>2, <1>3 DEF by, SumLevels

-----------------------------------------------------------------------------
(* Every step is about one order: it opens it, or fills it, or closes it,  *)
(* and what it adds to the filled size it emits as one execution.          *)
Execution == [order : Nat, liquidity : Kinds, print : Trade \cup {NoTrade}, by : Levels]

AllowedAt(order, p) ==
  IF order.kind = "Maker" THEN p = order.price ELSE p \in Executable(order.side, order.price)

Filled(s, o) == IF o \in DOMAIN s THEN s[o].filled ELSE 0

IsAbout(o) ==
  /\ o \in DOMAIN orders'
  /\ DOMAIN orders' = DOMAIN orders \cup {o}
  /\ \A x \in DOMAIN orders : x # o => orders'[x] = orders[x]
  /\ o \in DOMAIN orders => /\ orders'[o].kind = orders[o].kind
                            /\ orders'[o].side = orders[o].side
                            /\ orders'[o].price = orders[o].price
                            /\ orders'[o].size = orders[o].size
                            /\ orders'[o].token = orders[o].token

Fills(o, x) ==
  /\ executions' = Append(executions, x)
  /\ x \in Execution /\ x.order = o
  /\ orders'[o].filled = Filled(orders, o) + SumLevels(x.by, Prices)
  /\ \A p \in Prices : x.by[p] > 0 => AllowedAt(orders'[o], p)

FillsStep ==
  \E o \in Nat :
     /\ IsAbout(o)
     /\ \/ executions' = executions /\ orders'[o].filled = Filled(orders, o)
        \/ \E x : Fills(o, x)

(* The order side of a taker pass. *)
TakenRight(taken, order, o) ==
  /\ taken.order.kind = order.kind /\ taken.order.side = order.side
  /\ taken.order.price = order.price /\ taken.order.size = order.size
  /\ taken.order.token = order.token
  /\ \/ taken.executions = executions /\ taken.order.filled = order.filled
     \/ \E x \in Execution :
           /\ taken.executions = Append(executions, x) /\ x.order = o
           /\ taken.order.filled = order.filled + SumLevels(x.by, Prices)
           /\ \A p \in Prices : x.by[p] > 0 => p \in Executable(order.side, order.price)

LEMMA TakenFrom ==
  ASSUME NEW order \in Order, NEW o \in Nat, NEW book \in Books,
         order.price \in Prices, order.filled <= order.size
  PROVE  TakenRight(TakeFrom(order, o, book), order, o)
<1> DEFINE levels == Opposite(book, order.side)
           remaining == Remaining(order)
           size == TakerSize(levels, order.side, order.price, remaining)
           by == Take(levels, order.side, order.price, remaining)
           x == [order |-> o, liquidity |-> "Taker", print |-> NoTrade, by |-> by]
           taken == TakeFrom(order, o, book)
<1>1. order.side \in Sides /\ order.size \in Int /\ order.filled \in Nat /\ order.kind \in Kinds
  BY DEF Order
<1>2. remaining \in Nat /\ levels \in Levels
  BY <1>1, BookLevels DEF Remaining
<1>3. by \in Levels /\ SumLevels(by, Prices) = size
  <2> HIDE DEF levels, remaining
  <2> QED
    BY <1>1, <1>2, TakeAddsUp
<1>4. \A p \in Prices : by[p] > 0 => p \in Executable(order.side, order.price)
  <2> HIDE DEF levels, remaining
  <2>1. \A p \in Prices : p \notin Executable(order.side, order.price) => by[p] = 0
    BY DEF Take
  <2> HIDE DEF by
  <2> QED
    BY <2>1
<1>5. /\ taken.order = IF size = 0 THEN order ELSE Credited(order, size)
      /\ taken.executions = IF size = 0 THEN executions ELSE Append(executions, x)
  BY DEF TakeFrom
<1> HIDE DEF by, size, taken, levels, remaining
<1>6. x \in Execution /\ x.order = o /\ x.by = by
  BY <1>3 DEF Execution, Kinds
<1> HIDE DEF x
<1>7. CASE size = 0
  <2>1. TakenRight(taken, order, o)
    BY <1>5, <1>7 DEF TakenRight
  <2> QED
    BY <2>1 DEF taken
<1>8. CASE size # 0
  <2>1. taken.order = Credited(order, size) /\ taken.executions = Append(executions, x)
    BY <1>5, <1>8
  <2>2. /\ taken.order.kind = order.kind /\ taken.order.side = order.side
        /\ taken.order.price = order.price /\ taken.order.size = order.size
        /\ taken.order.token = order.token /\ taken.order.filled = order.filled + size
    BY <2>1 DEF Credited, Order
  <2>3. TakenRight(taken, order, o)
    BY <2>1, <2>2, <1>3, <1>4, <1>6 DEF TakenRight
  <2> QED
    BY <2>3 DEF taken
<1> QED
  BY <1>7, <1>8

LEMMA AppendIsAbout ==
  ASSUME TypeOK, NEW new, orders' = Append(orders, new)
  PROVE  NewId \in Nat /\ NewId \notin DOMAIN orders /\ IsAbout(NewId) /\ orders'[NewId] = new
<1>1. orders \in Seq(Order) /\ Len(orders) \in Nat /\ DOMAIN orders = 1..Len(orders)
  BY DEF TypeOK
<1>2. /\ DOMAIN orders' = 1..(Len(orders) + 1)
      /\ \A x \in DOMAIN orders : orders'[x] = orders[x]
      /\ orders'[Len(orders) + 1] = new
  BY <1>1
<1> QED
  BY <1>1, <1>2 DEF IsAbout, NewId

LEMMA ExceptIsAbout ==
  ASSUME TypeOK, NEW o \in DOMAIN orders, NEW new, orders' = [orders EXCEPT ![o] = new],
         new.kind = orders[o].kind, new.side = orders[o].side,
         new.price = orders[o].price, new.size = orders[o].size,
         new.token = orders[o].token
  PROVE  o \in Nat /\ IsAbout(o) /\ orders'[o] = new
<1>1. orders \in Seq(Order) /\ o \in 1..Len(orders) /\ Len(orders) \in Nat
  BY DEF TypeOK
<1>2. DOMAIN orders' = DOMAIN orders /\ orders'[o] = new
  BY <1>1
<1>3. \A x \in DOMAIN orders : x # o => orders'[x] = orders[x]
  OBVIOUS
<1>4. o \in DOMAIN orders' /\ DOMAIN orders' = DOMAIN orders \cup {o}
  BY <1>2
<1>5. /\ orders'[o].kind = orders[o].kind /\ orders'[o].side = orders[o].side
      /\ orders'[o].price = orders[o].price /\ orders'[o].size = orders[o].size
      /\ orders'[o].token = orders[o].token
  BY <1>2
<1>6. o \in Nat
  BY <1>1
<1> QED
  BY <1>2, <1>3, <1>4, <1>5, <1>6 DEF IsAbout

LEMMA NextFills ==
  ASSUME IInv, Next
  PROVE  FillsStep
<1> USE DEF IInv
<1>1. ASSUME NEW i \in Intents, RejectApproved(i) PROVE FillsStep
  <2>1. orders' = Append(orders, BuildOrder(i, "Rejected")) /\ executions' = executions
    BY <1>1 DEF RejectApproved
  <2>2. BuildOrder(i, "Rejected").filled = 0
    BY DEF BuildOrder
  <2> QED
    BY <2>1, <2>2, AppendIsAbout DEF FillsStep, Filled
<1>2. ASSUME NEW i \in Intents, NEW book \in Books, OpenMaker(i, book) PROVE FillsStep
  <2>1. orders' = Append(orders, BuildOrder(i, "Open")) /\ executions' = executions
    BY <1>2 DEF OpenMaker
  <2>2. BuildOrder(i, "Open").filled = 0
    BY DEF BuildOrder
  <2> QED
    BY <2>1, <2>2, AppendIsAbout DEF FillsStep, Filled
<1>3. ASSUME NEW i \in Intents, NEW book \in Books, ValidIntent(i), i.kind = "Taker",
             OpenTaker(i, book)
      PROVE  FillsStep
  <2> DEFINE order == BuildOrder(i, "Open")
             taken == TakeFrom(order, NewId, book)
  <2>1. orders' = Append(orders, taken.order) /\ executions' = taken.executions
    BY <1>3 DEF OpenTaker
  <2>2. /\ order \in Order /\ order.kind = "Taker" /\ order.price \in Prices
        /\ order.filled = 0 /\ order.filled <= order.size
    <3>1. i.size \in Int /\ i.size > 0 /\ i.price \in Prices /\ "Open" \in Statuses
      BY <1>3, IntentsAre DEF ValidIntent, Statuses
    <3>2. /\ order \in Order /\ order.kind = i.kind /\ order.price = i.price
          /\ order.filled = 0 /\ order.size = i.size
      BY <3>1, NewOrderTypes
    <3> HIDE DEF order
    <3> QED
      BY <1>3, <3>1, <3>2
  <2>3. NewId \in Nat /\ NewId \notin DOMAIN orders /\ IsAbout(NewId) /\ orders'[NewId] = taken.order
    BY <2>1, AppendIsAbout
  <2> HIDE DEF order
  <2>14. TakenRight(taken, order, NewId)
    <3>1. order.price \in Prices /\ order.filled <= order.size /\ order \in Order /\ NewId \in Nat
      BY <2>2, <2>3
    <3> QED
      BY <3>1, TakenFrom
  <2> HIDE DEF taken
  <2>4. /\ taken.order.kind = "Taker" /\ taken.order.side = order.side
        /\ taken.order.price = order.price
        /\ \/ taken.executions = executions /\ taken.order.filled = 0
           \/ \E x \in Execution :
                 /\ taken.executions = Append(executions, x) /\ x.order = NewId
                 /\ taken.order.filled = 0 + SumLevels(x.by, Prices)
                 /\ \A p \in Prices : x.by[p] > 0 => p \in Executable(order.side, order.price)
    BY <2>2, <2>14 DEF TakenRight
  <2>5. Filled(orders, NewId) = 0
    BY <2>3 DEF Filled
  <2>6. CASE taken.executions = executions /\ taken.order.filled = 0
    BY <2>1, <2>3, <2>5, <2>6 DEF FillsStep
  <2>7. ASSUME NEW x \in Execution,
               taken.executions = Append(executions, x), x.order = NewId,
               taken.order.filled = 0 + SumLevels(x.by, Prices),
               \A p \in Prices : x.by[p] > 0 => p \in Executable(order.side, order.price)
        PROVE  FillsStep
    <3>1. Fills(NewId, x)
      BY <2>1, <2>3, <2>4, <2>5, <2>7 DEF Fills, AllowedAt
    <3> QED
      BY <2>3, <3>1 DEF FillsStep
  <2> QED
    BY <2>4, <2>6, <2>7
<1>4. ASSUME NEW o \in DOMAIN orders, NEW book \in Books, SimulateMakerFill(o, book)
      PROVE  FillsStep
  <2> DEFINE old == orders[o]
             trade == book.trade
             counts == trade.price = old.price /\ trade.size > 0
             consumed == IF counts THEN Min({queues[o].ahead, trade.size}) ELSE 0
             more == IF counts THEN Min({trade.size - consumed, Remaining(old)}) ELSE 0
             new == IF more = 0 THEN old ELSE Credited(old, more)
             x == [order |-> o, liquidity |-> "Maker", print |-> trade,
                   by |-> AtPrice(old.price, more)]
  <2>1. /\ orders' = [orders EXCEPT ![o] = new]
        /\ executions' = IF more = 0 THEN executions ELSE Append(executions, x)
        /\ trade # NoTrade /\ old.kind = "Maker" /\ IsLive(old)
    BY <1>4 DEF SimulateMakerFill, CanSimulate
  <2>2. /\ old \in Order /\ trade \in Trade /\ o \in DOMAIN queues
        /\ queues[o].ahead \in Nat
    BY <2>1, BooksAre DEF TypeOK, QueueExactlyForRestingMakers, Queue
  <2>3. old.price \in Prices /\ old.filled <= old.size /\ old.filled \in Nat /\ old.size \in Int
    BY <2>1, <2>2 DEF OpenedValid, StatusAgreesWithFills, IsLive, TerminalStatuses, Order
  <2>4. more \in Nat
    <3>1. CASE counts
      <4>1. trade.size \in Nat
        BY <2>2 DEF Trade
      <4>2. consumed = Min({queues[o].ahead, trade.size})
        BY <3>1
      <4>3. consumed \in Nat /\ consumed <= trade.size
        BY <4>1, <4>2, <2>2, MinPair
      <4>4. Remaining(old) \in Nat
        BY <2>3 DEF Remaining
      <4>5. more = Min({trade.size - consumed, Remaining(old)})
        BY <3>1
      <4>6. trade.size - consumed \in Nat
        BY <4>1, <4>3
      <4> HIDE DEF consumed, more, old, trade
      <4> QED
        BY <4>4, <4>5, <4>6, MinPair
    <3>2. CASE ~ counts
      BY <3>2
    <3> QED
      BY <3>1, <3>2
  <2>5. AtPrice(old.price, more) \in Levels /\ SumLevels(AtPrice(old.price, more), Prices) = more
    <3> HIDE DEF more, old
    <3> QED
      BY <2>3, <2>4, AtPriceAddsUp
  <2>6. /\ new.kind = old.kind /\ new.side = old.side /\ new.price = old.price
        /\ new.size = old.size /\ new.token = old.token /\ new.filled = old.filled + more
    <3> HIDE DEF more, old
    <3> QED
      BY <2>2, <2>3, <2>4 DEF Credited, Order
  <2>7. o \in Nat /\ IsAbout(o) /\ orders'[o] = new
    <3> HIDE DEF new
    <3> QED
      BY <2>1, <2>6, ExceptIsAbout
  <2>8. x \in Execution
    <3> HIDE DEF more, old
    <3> QED
      BY <2>2, <2>5, <2>7 DEF Execution, Kinds
  <2>9. \A p \in Prices : x.by[p] > 0 => p = old.price
    BY DEF AtPrice
  <2>10. Filled(orders, o) = old.filled
    BY DEF Filled
  <2>11. x.order = o /\ x.by = AtPrice(old.price, more)
    OBVIOUS
  <2> HIDE DEF more, new, x, old
  <2>12. CASE more = 0
    BY <2>1, <2>3, <2>6, <2>7, <2>10, <2>12 DEF FillsStep
  <2>13. CASE more # 0
    <3>1. Fills(o, x)
      BY <2>1, <2>5, <2>6, <2>7, <2>8, <2>9, <2>10, <2>11, <2>13 DEF Fills, AllowedAt
    <3> QED
      BY <2>7, <3>1 DEF FillsStep
  <2> QED
    BY <2>12, <2>13
<1>5. ASSUME NEW o \in DOMAIN orders, NEW book \in Books, SimulateTakerFill(o, book)
      PROVE  FillsStep
  <2> DEFINE old == orders[o]
             taken == TakeFrom(old, o, book)
  <2>1. /\ orders' = [orders EXCEPT ![o] = taken.order] /\ executions' = taken.executions
        /\ old.kind = "Taker" /\ IsLive(old)
    BY <1>5 DEF SimulateTakerFill, CanSimulate
  <2>2. old \in Order /\ o \in Nat
    BY DEF TypeOK
  <2>3. old.price \in Prices /\ old.filled <= old.size
    BY <2>1, <2>2 DEF OpenedValid, StatusAgreesWithFills, IsLive, TerminalStatuses
  <2>14. TakenRight(taken, old, o)
    BY <2>2, <2>3, TakenFrom
  <2> HIDE DEF taken
  <2>4. /\ taken.order.kind = old.kind /\ taken.order.side = old.side
        /\ taken.order.price = old.price /\ taken.order.size = old.size
        /\ taken.order.token = old.token
        /\ \/ taken.executions = executions /\ taken.order.filled = old.filled
           \/ \E x \in Execution :
                 /\ taken.executions = Append(executions, x) /\ x.order = o
                 /\ taken.order.filled = old.filled + SumLevels(x.by, Prices)
                 /\ \A p \in Prices : x.by[p] > 0 => p \in Executable(old.side, old.price)
    BY <2>14 DEF TakenRight
  <2>5. IsAbout(o) /\ orders'[o] = taken.order
    BY <2>1, <2>4, ExceptIsAbout
  <2>6. Filled(orders, o) = old.filled
    BY DEF Filled
  <2> HIDE DEF old
  <2>7. CASE taken.executions = executions /\ taken.order.filled = old.filled
    BY <2>1, <2>2, <2>5, <2>6, <2>7 DEF FillsStep
  <2>8. ASSUME NEW x \in Execution,
               taken.executions = Append(executions, x), x.order = o,
               taken.order.filled = old.filled + SumLevels(x.by, Prices),
               \A p \in Prices : x.by[p] > 0 => p \in Executable(old.side, old.price)
        PROVE  FillsStep
    <3>1. Fills(o, x)
      BY <2>1, <2>4, <2>5, <2>6, <2>8 DEF Fills, AllowedAt
    <3> QED
      BY <2>2, <2>5, <3>1 DEF FillsStep
  <2> QED
    BY <2>4, <2>7, <2>8
<1>6. ASSUME NEW o \in DOMAIN orders, NEW status, CloseAs(o, status) PROVE FillsStep
  <2> DEFINE new == [orders[o] EXCEPT !.status = status]
  <2>1. orders' = [orders EXCEPT ![o] = new] /\ executions' = executions /\ orders[o] \in Order
    BY <1>6 DEF CloseAs, TypeOK
  <2>2. /\ new.kind = orders[o].kind /\ new.side = orders[o].side /\ new.price = orders[o].price
        /\ new.size = orders[o].size /\ new.filled = orders[o].filled
        /\ new.token = orders[o].token
    BY <2>1 DEF Order
  <2> HIDE DEF new
  <2>3. o \in Nat /\ IsAbout(o) /\ orders'[o] = new
    BY <2>1, <2>2, ExceptIsAbout
  <2> QED
    BY <2>1, <2>2, <2>3 DEF FillsStep, Filled
<1> QED
  BY <1>1, <1>2, <1>3, <1>4, <1>5, <1>6
     DEF Next, OpenPaperOrder, RejectIntent, SimulateFill, CancelOrder, ExpireOrder

(* FillsAddUp and the types it needs. *)
FillsTyped ==
  /\ executions \in Seq(Execution)
  /\ \A n \in DOMAIN executions : executions[n].order \in DOMAIN orders
FillsInv == FillsTyped /\ FillsAddUp

Sizes(s) == [n \in DOMAIN s |-> SumLevels(s[n].by, Prices)]
Of(s, o) == {n \in DOMAIN s : s[n].order = o}

LEMMA SizesType ==
  ASSUME NEW s \in Seq(Execution), NEW o
  PROVE  /\ IsFiniteSet(Of(s, o)) /\ Of(s, o) \subseteq DOMAIN s
         /\ \A n \in DOMAIN s : Sizes(s)[n] \in Int
<1>1. DOMAIN s = 1..Len(s) /\ Len(s) \in Nat /\ \A n \in DOMAIN s : s[n] \in Execution
  OBVIOUS
<1>2. IsFiniteSet(Of(s, o))
  <2>1. IsFiniteSet(DOMAIN s)
    BY <1>1, FS_Interval
  <2>2. Of(s, o) \subseteq DOMAIN s
    BY DEF Of
  <2> QED
    BY <2>1, <2>2, FS_Subset
<1>3. \A n \in DOMAIN s : SumLevels(s[n].by, Prices) \in Nat
  BY <1>1, DepthType DEF Execution
<1> QED
  BY <1>2, <1>3 DEF Of, Sizes

(* One more execution adds its size to the sum of its order. *)
LEMMA SizesAppend ==
  ASSUME NEW s \in Seq(Execution), NEW x \in Execution, NEW o
  PROVE  SumFunctionOnSet(Sizes(Append(s, x)), Of(Append(s, x), o))
           = SumFunctionOnSet(Sizes(s), Of(s, o))
               + (IF x.order = o THEN SumLevels(x.by, Prices) ELSE 0)
<1> DEFINE t == Append(s, x)
           n == Len(s) + 1
<1>1. /\ t \in Seq(Execution) /\ DOMAIN t = 1..n /\ t[n] = x
      /\ DOMAIN s = 1..Len(s) /\ Len(s) \in Nat
      /\ \A m \in DOMAIN s : m \in DOMAIN t /\ t[m] = s[m]
  OBVIOUS
<1>2. n \notin DOMAIN s /\ n \in DOMAIN t /\ \A m \in DOMAIN t : m \in DOMAIN s \/ m = n
  BY <1>1
<1> HIDE DEF t, n
<1>3. Of(t, o) = IF x.order = o THEN Of(s, o) \cup {n} ELSE Of(s, o)
  BY <1>1, <1>2 DEF Of
<1>4. n \notin Of(s, o)
  BY <1>2 DEF Of
<1>5. /\ \A m \in Of(s, o) : Sizes(t)[m] \in Int /\ Sizes(t)[m] = Sizes(s)[m]
      /\ Sizes(t)[n] = SumLevels(x.by, Prices)
      /\ Sizes(t)[n] \in Int
  <2>1. /\ \A m \in DOMAIN s : Sizes(t)[m] = Sizes(s)[m]
        /\ Sizes(t)[n] = SumLevels(x.by, Prices)
    BY <1>1, <1>2 DEF Sizes
  <2>2. \A m \in DOMAIN t : Sizes(t)[m] \in Int
    BY <1>1, SizesType
  <2> QED
    BY <2>1, <2>2, <1>1, <1>2, SizesType
<1>6. IsFiniteSet(Of(s, o))
  BY SizesType
<1>7. /\ SumFunctionOnSet(Sizes(t), Of(s, o)) = SumFunctionOnSet(Sizes(s), Of(s, o))
      /\ SumFunctionOnSet(Sizes(t), Of(s, o)) \in Int
  BY <1>5, <1>6, SumSame, SumType
<1>8. SumFunctionOnSet(Sizes(t), Of(s, o) \cup {n})
        = SumFunctionOnSet(Sizes(t), Of(s, o)) + Sizes(t)[n]
  <2>1. \A m \in Of(s, o) \cup {n} : Sizes(t)[m] \in Int
    BY <1>5
  <2> QED
    BY <1>4, <1>6, <2>1, SumAdd
<1> QED
  BY <1>3, <1>5, <1>7, <1>8 DEF t

LEMMA FillsAddUpIs ==
  FillsAddUp <=> \A o \in DOMAIN orders :
                    /\ orders[o].filled = SumFunctionOnSet(Sizes(executions), Of(executions, o))
                    /\ \A n \in Of(executions, o) : \A p \in Prices :
                          executions[n].by[p] > 0 => AllowedAt(orders[o], p)
BY DEF FillsAddUp, Sizes, Of, ExecutionsOf, AllowedAt

LEMMA FillsAddUpNext ==
  FillsAddUp' <=> \A o \in DOMAIN orders' :
                    /\ orders'[o].filled = SumFunctionOnSet(Sizes(executions'), Of(executions', o))
                    /\ \A n \in Of(executions', o) : \A p \in Prices :
                          executions'[n].by[p] > 0 => AllowedAt(orders'[o], p)
BY DEF FillsAddUp, Sizes, Of, ExecutionsOf, AllowedAt

(* An order without executions has filled nothing. *)
LEMMA SumsAreFilled ==
  ASSUME FillsInv, NEW o
  PROVE  SumFunctionOnSet(Sizes(executions), Of(executions, o)) = Filled(orders, o)
<1>1. CASE o \in DOMAIN orders
  BY <1>1, FillsAddUpIs DEF FillsInv, Filled
<1>2. CASE o \notin DOMAIN orders
  <2>1. Of(executions, o) = {}
    BY <1>2 DEF FillsInv, FillsTyped, Of
  <2> QED
    BY <1>2, <2>1, SumEmpty DEF Filled
<1> QED
  BY <1>1, <1>2

LEMMA FillsKept ==
  ASSUME TypeOK, FillsInv, FillsStep
  PROVE  FillsInv'
<1>1. PICK o \in Nat : /\ IsAbout(o)
                       /\ \/ executions' = executions /\ orders'[o].filled = Filled(orders, o)
                          \/ \E x : Fills(o, x)
  BY DEF FillsStep
<1>2. executions \in Seq(Execution)
  BY DEF FillsInv, FillsTyped
<1>3. \A m \in DOMAIN executions : executions[m].order \in DOMAIN orders'
  BY <1>1 DEF FillsInv, FillsTyped, IsAbout
<1>4. /\ \A y \in DOMAIN orders' : y # o => y \in DOMAIN orders /\ orders'[y] = orders[y]
      /\ \A p : o \in DOMAIN orders => (AllowedAt(orders[o], p) <=> AllowedAt(orders'[o], p))
  BY <1>1 DEF IsAbout, AllowedAt
<1>5. \A y \in DOMAIN orders : \A n \in Of(executions, y) : \A p \in Prices :
         executions[n].by[p] > 0 => AllowedAt(orders[y], p)
  BY FillsAddUpIs DEF FillsInv
<1>6. \A y \in DOMAIN orders' : \A n \in Of(executions, y) : \A p \in Prices :
         executions[n].by[p] > 0 => AllowedAt(orders'[y], p)
  <2> SUFFICES ASSUME NEW y \in DOMAIN orders', NEW n \in Of(executions, y), NEW p \in Prices,
                      executions[n].by[p] > 0
               PROVE  AllowedAt(orders'[y], p)
    OBVIOUS
  <2>1. y \in DOMAIN orders
    BY DEF Of, FillsInv, FillsTyped
  <2> QED
    BY <1>4, <1>5, <2>1
<1>7. CASE executions' = executions /\ orders'[o].filled = Filled(orders, o)
  <2>1. FillsTyped'
    BY <1>2, <1>3, <1>7 DEF FillsTyped
  <2>2. \A y \in DOMAIN orders' :
           orders'[y].filled = SumFunctionOnSet(Sizes(executions), Of(executions, y))
    BY <1>4, <1>7, SumsAreFilled DEF Filled
  <2>3. FillsAddUp'
    BY <1>6, <1>7, <2>2, FillsAddUpNext
  <2> QED
    BY <2>1, <2>3 DEF FillsInv
<1>8. ASSUME NEW x, Fills(o, x) PROVE FillsInv'
  <2>1. /\ executions' = Append(executions, x) /\ x \in Execution /\ x.order = o
        /\ orders'[o].filled = Filled(orders, o) + SumLevels(x.by, Prices)
        /\ \A p \in Prices : x.by[p] > 0 => AllowedAt(orders'[o], p)
    BY <1>8 DEF Fills
  <2>2. /\ executions' \in Seq(Execution)
        /\ \A n \in DOMAIN executions' : \/ n \in DOMAIN executions /\ executions'[n] = executions[n]
                                         \/ executions'[n] = x
    BY <1>2, <2>1
  <2>3. o \in DOMAIN orders'
    BY <1>1 DEF IsAbout
  <2>4. FillsTyped'
    BY <1>3, <2>1, <2>2, <2>3 DEF FillsTyped
  <2>5. \A y : SumFunctionOnSet(Sizes(executions'), Of(executions', y))
                 = Filled(orders, y) + (IF y = o THEN SumLevels(x.by, Prices) ELSE 0)
    BY <1>2, <2>1, SizesAppend, SumsAreFilled
  <2>6. \A y \in DOMAIN orders' :
           orders'[y].filled = SumFunctionOnSet(Sizes(executions'), Of(executions', y))
    <3> SUFFICES ASSUME NEW y \in DOMAIN orders'
                 PROVE  orders'[y].filled
                          = SumFunctionOnSet(Sizes(executions'), Of(executions', y))
      OBVIOUS
    <3>1. CASE y = o
      BY <2>1, <2>5, <3>1
    <3>2. CASE y # o
      <4>1. y \in DOMAIN orders /\ orders'[y] = orders[y]
        BY <1>4, <3>2
      <4>2. orders[y] \in Order
        BY <4>1 DEF TypeOK
      <4>3. orders[y].filled \in Int
        BY <4>2 DEF Order
      <4> QED
        BY <2>5, <3>2, <4>1, <4>3 DEF Filled
    <3> QED
      BY <3>1, <3>2
  <2>7. \A y \in DOMAIN orders' : \A n \in Of(executions', y) : \A p \in Prices :
           executions'[n].by[p] > 0 => AllowedAt(orders'[y], p)
    <3> SUFFICES ASSUME NEW y \in DOMAIN orders', NEW n \in Of(executions', y), NEW p \in Prices,
                        executions'[n].by[p] > 0
                 PROVE  AllowedAt(orders'[y], p)
      OBVIOUS
    <3>1. n \in DOMAIN executions' /\ executions'[n].order = y
      BY DEF Of
    <3>2. CASE n \in DOMAIN executions /\ executions'[n] = executions[n]
      BY <1>6, <3>1, <3>2 DEF Of
    <3>3. CASE executions'[n] = x
      BY <2>1, <3>1, <3>3
    <3> QED
      BY <2>2, <3>1, <3>2, <3>3
  <2>8. FillsAddUp'
    BY <2>6, <2>7, FillsAddUpNext
  <2> QED
    BY <2>4, <2>8 DEF FillsInv
<1> QED
  BY <1>1, <1>7, <1>8

LEMMA FillsInit == Init => FillsInv
BY DEF Init, FillsInv, FillsTyped, FillsAddUp

LEMMA FillsNext == IInv /\ FillsInv /\ [Next]_vars => FillsInv'
<1>1. CASE IInv /\ FillsInv /\ Next
  BY <1>1, NextFills, FillsKept DEF IInv
<1>2. CASE FillsInv /\ UNCHANGED vars
  <2>1. orders' = orders /\ executions' = executions
    BY <1>2 DEF vars
  <2>2. FillsTyped'
    BY <1>2, <2>1 DEF FillsInv, FillsTyped
  <2>3. FillsAddUp'
    BY <1>2, <2>1, FillsAddUpIs, FillsAddUpNext DEF FillsInv
  <2> QED
    BY <2>2, <2>3 DEF FillsInv
<1> QED
  BY <1>1, <1>2

(* What the executor emitted for an order adds up to what the order says   *)
(* it has filled, at prices the order allowed: the part of the ledger that *)
(* positions and reports are computed from.                                *)
THEOREM FillsAreCounted == Spec => []FillsAddUp
<1>1. IInv /\ FillsInv => FillsAddUp
  BY DEF FillsInv
<1> QED
  BY Invariance, FillsInit, FillsNext, <1>1, PTL DEF Spec

-----------------------------------------------------------------------------
(* The arithmetic of a position.                                           *)
LEMMA Exchange ==
  ASSUME NEW a \in Fractions, NEW b \in Fractions, NEW c \in Fractions, NEW d \in Fractions
  PROVE  Plus(Plus(a, b), Plus(c, d)) = Plus(Plus(a, c), Plus(b, d))
<1>1. /\ Plus(c, d) \in Fractions /\ Plus(b, d) \in Fractions /\ Plus(b, c) \in Fractions
  BY FractionTypes
<1>2. Plus(Plus(a, b), Plus(c, d)) = Plus(a, Plus(b, Plus(c, d)))
  BY <1>1, PlusPlus
<1>3. Plus(b, Plus(c, d)) = Plus(Plus(b, c), d)
  BY PlusPlus
<1>4. Plus(b, c) = Plus(c, b)
  BY PlusSwap
<1>5. Plus(Plus(c, b), d) = Plus(c, Plus(b, d))
  BY PlusPlus
<1>6. Plus(a, Plus(c, Plus(b, d))) = Plus(Plus(a, c), Plus(b, d))
  BY <1>1, PlusPlus
<1> QED
  BY <1>2, <1>3, <1>4, <1>5, <1>6

LEMMA MinusWhole ==
  ASSUME NEW a \in Fractions, NEW k \in Int
  PROVE  Minus(a, Whole(k)) = Plus(a, Whole(-k))
<1>1. Times(-1, Whole(k)) = Whole((-1) * k)
  BY TimesWhole
<1>2. (-1) * k = -k
  OBVIOUS
<1> QED
  BY <1>1, <1>2 DEF Minus

(* Closing j of a position at a price: what is realized, less the fee,     *)
(* moves j's worth from the holdings into the money.                       *)
LEMMA RealizesRight ==
  ASSUME NEW c \in Int, NEW net \in Int, NEW a \in Fractions, NEW j \in Int,
         NEW p \in Int, NEW fee \in Int
  PROVE  Plus(Plus(Whole(c), Times(net, a)), Minus(Times(j, Minus(Whole(p), a)), Whole(fee)))
           = Plus(Whole(c + (j * p - fee)), Times(net - j, a))
<1> DEFINE A == Whole(c)
           B == Times(net, a)
           C == Whole(j * p)
           D == Times(-j, a)
           E == Whole(-fee)
<1>0. j * p \in Int /\ -j \in Int /\ -fee \in Int /\ j * p - fee \in Int /\ -1 \in Int
  OBVIOUS
<1>1. A \in Fractions /\ B \in Fractions /\ C \in Fractions /\ D \in Fractions /\ E \in Fractions
  BY <1>0, FractionTypes
<1>2. Times(j, Minus(Whole(p), a)) = Plus(C, D)
  <2>1. Whole(p) \in Fractions /\ Times(-1, a) \in Fractions
    BY <1>0, FractionTypes
  <2>2. Times(j, Plus(Whole(p), Times(-1, a))) = Plus(Times(j, Whole(p)), Times(j, Times(-1, a)))
    BY <2>1, TimesPlus
  <2>3. Times(j, Whole(p)) = C
    BY TimesWhole
  <2>4. Times(j, Times(-1, a)) = Times(j * (-1), a)
    BY <1>0, TimesTimes
  <2>5. j * (-1) = -j
    OBVIOUS
  <2> QED
    BY <2>2, <2>3, <2>4, <2>5 DEF Minus
<1> HIDE DEF A, B, C, D, E
<1>3. Plus(C, D) \in Fractions /\ Plus(C, E) \in Fractions
  BY <1>1, FractionTypes
<1>4. Minus(Plus(C, D), Whole(fee)) = Plus(Plus(C, D), E)
  BY <1>3, MinusWhole DEF E
<1>5. Plus(Plus(C, D), E) = Plus(Plus(C, E), D)
  <2>1. Plus(Plus(C, D), E) = Plus(C, Plus(D, E))
    BY <1>1, PlusPlus
  <2>2. Plus(D, E) = Plus(E, D)
    BY <1>1, PlusSwap
  <2>3. Plus(C, Plus(E, D)) = Plus(Plus(C, E), D)
    BY <1>1, PlusPlus
  <2> QED
    BY <2>1, <2>2, <2>3
<1>6. Plus(Plus(A, B), Plus(Plus(C, E), D)) = Plus(Plus(A, Plus(C, E)), Plus(B, D))
  BY <1>1, <1>3, Exchange
<1>7. Plus(C, E) = Whole(j * p - fee)
  <2>1. Plus(C, E) = Whole(j * p + (-fee))
    BY <1>0, WholePlus DEF C, E
  <2>2. j * p + (-fee) = j * p - fee
    BY <1>0
  <2> QED
    BY <2>1, <2>2
<1>8. Plus(A, Plus(C, E)) = Whole(c + (j * p - fee))
  BY <1>0, <1>7, WholePlus DEF A
<1>9. Plus(B, D) = Times(net - j, a)
  <2>1. Times(net + (-j), a) = Plus(B, D)
    BY <1>0, TimesAdd DEF B, D
  <2>2. net + (-j) = net - j
    OBVIOUS
  <2> QED
    BY <2>1, <2>2
<1> QED
  BY <1>2, <1>4, <1>5, <1>6, <1>8, <1>9 DEF A, B

(* The profit before fees is the profit after fees and the fees.           *)
LEMMA GrossAfter ==
  ASSUME NEW r \in Fractions, NEW g \in Fractions, NEW fees \in Int, NEW fee \in Int
  PROVE  Plus(Plus(r, Whole(fees)), g)
           = Plus(Plus(r, Minus(g, Whole(fee))), Whole(fees + fee))
<1>0. -fee \in Int /\ fees + fee \in Int /\ (-fee) + (fees + fee) = fees
  OBVIOUS
<1>1. /\ Whole(fees) \in Fractions /\ Whole(-fee) \in Fractions
      /\ Whole(fees + fee) \in Fractions /\ Plus(g, Whole(-fee)) \in Fractions
  BY <1>0, FractionTypes
<1>2. Minus(g, Whole(fee)) = Plus(g, Whole(-fee))
  BY MinusWhole
<1>3. Plus(Plus(r, Plus(g, Whole(-fee))), Whole(fees + fee))
        = Plus(r, Plus(Plus(g, Whole(-fee)), Whole(fees + fee)))
  BY <1>1, PlusPlus
<1>4. Plus(Plus(g, Whole(-fee)), Whole(fees + fee))
        = Plus(g, Plus(Whole(-fee), Whole(fees + fee)))
  BY <1>1, PlusPlus
<1>5. Plus(Whole(-fee), Whole(fees + fee)) = Whole(fees)
  <2>1. Plus(Whole(-fee), Whole(fees + fee)) = Whole((-fee) + (fees + fee))
    BY <1>0, WholePlus
  <2> QED
    BY <1>0, <2>1
<1>6. Plus(g, Whole(fees)) = Plus(Whole(fees), g)
  BY <1>1, PlusSwap
<1>7. Plus(r, Plus(Whole(fees), g)) = Plus(Plus(r, Whole(fees)), g)
  BY <1>1, PlusPlus
<1> QED
  BY <1>2, <1>3, <1>4, <1>5, <1>6, <1>7

-----------------------------------------------------------------------------
(* A position that grows averages the prices in: by how much it is worth,  *)
(* and between which prices.                                               *)
LEMMA BetweenBoth ==
  ASSUME NEW held \in Nat, NEW more \in Nat, NEW n \in Int, NEW d \in Nat, NEW p \in Int,
         NEW k \in Int
  PROVE  /\ k * d <= n /\ k <= p => k * ((held + more) * d) <= held * n + more * p * d
         /\ n <= k * d /\ p <= k => held * n + more * p * d <= k * ((held + more) * d)
<1>0. k * d \in Int /\ p * d \in Int
  OBVIOUS
<1>1. k * ((held + more) * d) = held * (k * d) + more * (k * d)
  OBVIOUS
<1>2. more * p * d = more * (p * d)
  OBVIOUS
<1>3. \A x \in Int, y \in Int, h \in Nat : x <= y => h * x <= h * y
  OBVIOUS
<1>4. k <= p => k * d <= p * d
  <2>1. d * k = k * d /\ d * p = p * d
    OBVIOUS
  <2> QED
    BY <1>3, <2>1
<1>5. p <= k => p * d <= k * d
  <2>1. d * k = k * d /\ d * p = p * d
    OBVIOUS
  <2> QED
    BY <1>3, <2>1
<1>6. ASSUME k * d <= n, k <= p
      PROVE  held * (k * d) <= held * n /\ more * (k * d) <= more * (p * d)
  BY <1>0, <1>3, <1>4, <1>6
<1>7. ASSUME n <= k * d, p <= k
      PROVE  held * n <= held * (k * d) /\ more * (p * d) <= more * (k * d)
  BY <1>0, <1>3, <1>5, <1>7
<1>8. held * n \in Int /\ more * (p * d) \in Int /\ held * (k * d) \in Int /\ more * (k * d) \in Int
  BY <1>0
<1>9. ASSUME k * d <= n, k <= p PROVE k * ((held + more) * d) <= held * n + more * p * d
  BY <1>1, <1>2, <1>6, <1>8, <1>9
<1>10. ASSUME n <= k * d, p <= k PROVE held * n + more * p * d <= k * ((held + more) * d)
  BY <1>1, <1>2, <1>7, <1>8, <1>10
<1> QED
  BY <1>9, <1>10

(* Some entry price is at most the average and some at least. *)
Between(a, S) == \E lo, hi \in S : AtMost(Whole(lo), a) /\ AtMost(a, Whole(hi))

LEMMA WholeBetween ==
  ASSUME NEW p \in Int, NEW S, p \in S
  PROVE  Between(Whole(p), S)
<1>1. StandsFor(Whole(p), p, 1)
  BY WholeValue
<1>2. p * 1 <= p /\ p <= p * 1
  OBVIOUS
<1>3. AtMost(Whole(p), Whole(p))
  BY <1>1, <1>2, ValueAtLeast
<1> QED
  BY <1>3 DEF Between

LEMMA Grown ==
  ASSUME NEW q, q.net \in Int, q.avg \in Fractions, NEW s \in Int, s # 0,
         q.net = 0 \/ SameSign(q.net, s), NEW p \in Int, NEW S \in SUBSET Int,
         q.net # 0 => Between(q.avg, S)
  PROVE  LET a == Average(q, s, p)
         IN /\ a \in Fractions
            /\ Times(q.net + s, a) = Plus(Times(q.net, q.avg), Whole(s * p))
            /\ Between(a, S \cup {p})
            /\ q.net + s # 0
<1> DEFINE net == q.net
           n == q.avg[1]
           d == q.avg[2]
           held == Magnitude(net)
           more == Magnitude(s)
           N == held * n + more * p * d
           D == (held + more) * d
           a == Average(q, s, p)
<1>1. n \in Int /\ d \in Nat \ {0} /\ StandsFor(q.avg, n, d)
  BY FractionParts
<1>2. /\ held \in Nat /\ more \in Nat \ {0} /\ (net # 0 <=> held # 0) /\ net + s # 0
      /\ (net + s) * N = (held + more) * (net * n + s * p * d)
  <2>0. /\ net \in Int /\ (net = 0 \/ SameSign(net, s))
        /\ held = Magnitude(net) /\ more = Magnitude(s)
    OBVIOUS
  <2> HIDE DEF n, d, net, held, more
  <2> USE <1>1, <2>0
  <2>1. \/ net >= 0 /\ s > 0 /\ held = net /\ more = s
        \/ net <= 0 /\ s < 0 /\ held = -net /\ more = -s
    BY DEF Magnitude, SameSign
  <2>2. held \in Nat /\ more \in Nat \ {0} /\ (net # 0 <=> held # 0) /\ net + s # 0
    BY <2>1
  <2>3. more * p * d = more * (p * d) /\ s * p * d = s * (p * d) /\ p * d \in Int
    BY <2>2
  <2>4. \A x \in Int, y \in Int : (-net) * x + (-s) * y = -(net * x + s * y)
    <3> SUFFICES ASSUME NEW x \in Int, NEW y \in Int
                 PROVE  (-net) * x + (-s) * y = -(net * x + s * y)
      OBVIOUS
    <3>1. (-net) * x = -(net * x) /\ (-s) * y = -(s * y)
      OBVIOUS
    <3> QED
      BY <3>1
  <2>5. (net + s) * (held * n + more * (p * d)) = (held + more) * (net * n + s * (p * d))
    <3> DEFINE v == net * n + s * (p * d)
    <3>1. v \in Int
      BY <2>3
    <3>2. CASE held = net /\ more = s
      BY <3>2
    <3>3. CASE held = -net /\ more = -s
      <4>1. held * n + more * (p * d) = -v
        BY <2>3, <2>4, <3>3
      <4>2. held + more = -(net + s)
        BY <3>3
      <4> HIDE DEF v
      <4>3. (net + s) * (-v) = (-(net + s)) * v
        BY <3>1
      <4> QED
        BY <4>1, <4>2, <4>3 DEF v
    <3> QED
      BY <2>1, <3>2, <3>3
  <2> QED
    BY <2>2, <2>3, <2>5
<1>3. a = Ratio(N, D)
  BY DEF Average
<1> HIDE DEF n, d, held, more, a
<1>4. N \in Int /\ D \in Nat \ {0} /\ s * p \in Int /\ net \in Int /\ net + s \in Int
  <2>1. N \in Int /\ s * p \in Int /\ net \in Int /\ net + s \in Int
    BY <1>1, <1>2
  <2>2. held + more \in Nat \ {0}
    BY <1>2
  <2>3. \A x, y \in Nat \ {0} : x * y \in Nat \ {0}
    OBVIOUS
  <2> QED
    BY <1>1, <2>1, <2>2, <2>3
<1> HIDE DEF net
<1>5. StandsFor(a, N, D)
  BY <1>3, <1>4, RatioValue
<1>6. Times(net + s, a) = Plus(Times(net, q.avg), Whole(s * p))
  <2>1. StandsFor(Times(net + s, a), (net + s) * N, D)
    BY <1>4, <1>5, TimesValue
  <2>2. StandsFor(Times(net, q.avg), net * n, d)
    BY <1>1, <1>4, TimesValue
  <2>3. StandsFor(Whole(s * p), s * p, 1)
    BY <1>4, WholeValue
  <2>4. StandsFor(Plus(Times(net, q.avg), Whole(s * p)), (net * n) * 1 + (s * p) * d, d * 1)
    BY <2>2, <2>3, PlusValue
  <2>5. ((net + s) * N) * (d * 1) = ((net * n) * 1 + (s * p) * d) * D
    <3> DEFINE v == net * n + s * p * d
               h == held + more
    <3>1. (net * n) * 1 + (s * p) * d = v /\ d * 1 = d /\ v \in Int /\ h \in Int
      BY <1>1, <1>2, <1>4
    <3>2. (net + s) * N = h * v /\ D = h * d
      BY <1>2
    <3> HIDE DEF v, h
    <3>3. (h * v) * d = v * (h * d)
      BY <1>1, <3>1
    <3> QED
      BY <3>1, <3>2, <3>3
  <2> HIDE DEF N, D
  <2> QED
    BY <2>1, <2>4, <2>5, SameValue
<1>7. Between(a, S \cup {p})
  <2>1. \A k \in Int : /\ (k * d <= n \/ held = 0) /\ k <= p => AtMost(Whole(k), a)
                       /\ (n <= k * d \/ held = 0) /\ p <= k => AtMost(a, Whole(k))
    <3> SUFFICES ASSUME NEW k \in Int
                 PROVE  /\ (k * d <= n \/ held = 0) /\ k <= p => AtMost(Whole(k), a)
                        /\ (n <= k * d \/ held = 0) /\ p <= k => AtMost(a, Whole(k))
      OBVIOUS
    <3>1. /\ k * d <= n /\ k <= p => k * D <= N
          /\ n <= k * d /\ p <= k => N <= k * D
      BY <1>1, <1>2, BetweenBoth
    <3>2. ASSUME held = 0
          PROVE  (k <= p => k * D <= N) /\ (p <= k => N <= k * D)
      <4>1. N = more * (p * d) /\ D = more * d /\ p * d \in Int /\ k * d \in Int
        BY <1>1, <1>2, <3>2
      <4>2. k * D = more * (k * d)
        BY <1>1, <1>2, <4>1
      <4>3. (k <= p => k * d <= p * d) /\ (p <= k => p * d <= k * d)
        <5>1. d * k = k * d /\ d * p = p * d
          BY <1>1
        <5> QED
          BY <1>1, <5>1, MulMore
      <4>4. /\ k * d <= p * d => more * (k * d) <= more * (p * d)
            /\ p * d <= k * d => more * (p * d) <= more * (k * d)
        BY <1>2, <4>1, MulMore
      <4> QED
        BY <4>1, <4>2, <4>3, <4>4
    <3>3. (k * D <= N <=> AtMost(Whole(k), a)) /\ (N <= k * D <=> AtMost(a, Whole(k)))
      BY <1>5, ValueAtLeast
    <3> QED
      BY <3>1, <3>2, <3>3
  <2>2. CASE held = 0
    BY <2>1, <2>2 DEF Between
  <2>3. CASE held # 0
    <3>1. PICK lo \in S, hi \in S : AtMost(Whole(lo), q.avg) /\ AtMost(q.avg, Whole(hi))
      BY <1>2, <2>3 DEF Between, net
    <3>2. lo \in Int /\ hi \in Int
      OBVIOUS
    <3>3. lo * d <= n /\ n <= hi * d
      BY <1>1, <3>1, <3>2, ValueAtLeast
    <3>4. \E k \in S \cup {p} : k \in Int /\ k * d <= n /\ k <= p
      <4>1. CASE lo <= p
        BY <3>2, <3>3, <4>1
      <4>2. CASE ~ (lo <= p)
        <5>1. d * p <= d * lo /\ d * p = p * d /\ d * lo = lo * d
          BY <1>1, <3>2, <4>2, MulMore
        <5>2. p * d <= n
          <6>1. p * d \in Int /\ lo * d \in Int
            BY <1>1, <3>2
          <6> QED
            BY <1>1, <3>3, <5>1, <6>1
        <5> QED
          BY <5>2
      <4> QED
        BY <4>1, <4>2
    <3>5. \E k \in S \cup {p} : k \in Int /\ n <= k * d /\ p <= k
      <4>1. CASE p <= hi
        BY <3>2, <3>3, <4>1
      <4>2. CASE ~ (p <= hi)
        <5>1. d * hi <= d * p /\ d * p = p * d /\ d * hi = hi * d
          BY <1>1, <3>2, <4>2, MulMore
        <5>2. n <= p * d
          <6>1. p * d \in Int /\ hi * d \in Int
            BY <1>1, <3>2
          <6> QED
            BY <1>1, <3>3, <5>1, <6>1
        <5> QED
          BY <5>2
      <4> QED
        BY <4>1, <4>2
    <3> QED
      BY <2>1, <3>4, <3>5 DEF Between
  <2> QED
    BY <2>2, <2>3
<1>8. a \in Fractions
  BY <1>5 DEF StandsFor
<1> QED
  BY <1>2, <1>6, <1>7, <1>8 DEF a, net

-----------------------------------------------------------------------------
(* A fill and what it does to the books: P&L after fees is the money less  *)
(* what the holdings cost, and before fees it is that and the fees.        *)
Marks == {M \in SUBSET Fractions : \A a, b \in M : a = b}    \* at most one price
Position == [net : Int, avg : Fractions, gross : Fractions, realized : Fractions,
             fees : Int, mark : Marks]
Holdings == [position : Position, cash : Int, entries : SUBSET Prices]
Fill == [size : Int \ {0}, price : Prices, fee : Nat]

Balanced(held) ==
  LET q == held.position
  IN /\ q.realized = Plus(Whole(held.cash), Times(q.net, q.avg))
     /\ q.gross = Plus(q.realized, Whole(q.fees))
     /\ q.net = 0 => q.avg = Whole(0)
     /\ q.net # 0 => Between(q.avg, held.entries)

Accounts == {held \in Holdings : Balanced(held)}

(* How much of the position a fill closes, with the position's sign. *)
ClosedBy(q, s) ==
  IF q.net = 0 \/ SameSign(q.net, s) THEN 0
  ELSE (IF q.net > 0 THEN 1 ELSE -1) * Closed(q, s)

LEMMA ClosedSize ==
  ASSUME NEW q, q.net \in Int, NEW s \in Int, s # 0, ~ (q.net = 0 \/ SameSign(q.net, s))
  PROVE  /\ ClosedBy(q, s) \in Int
         /\ \/ /\ q.net + s = 0 \/ SameSign(q.net, q.net + s)
               /\ ClosedBy(q, s) = -s
            \/ q.net + s # 0 /\ ~ SameSign(q.net, q.net + s) /\ ClosedBy(q, s) = q.net
<1> DEFINE net == q.net
           a == Magnitude(q.net)
           b == Magnitude(s)
<1>1. a \in Int /\ b \in Int
  BY DEF Magnitude
<1> HIDE DEF a, b
<1>2. Min({a, b}) = IF a <= b THEN a ELSE b
  BY <1>1, MinPair
<1>3. Closed(q, s) = IF a <= b THEN a ELSE b
  BY <1>2 DEF Closed, a, b
<1>4. \/ q.net > 0 /\ s < 0 /\ a = q.net /\ b = -s
      \/ q.net < 0 /\ s > 0 /\ a = -q.net /\ b = s
  BY DEF a, b, Magnitude, SameSign
<1>5. ClosedBy(q, s) = (IF q.net > 0 THEN 1 ELSE -1) * (IF a <= b THEN a ELSE b)
  BY <1>3 DEF ClosedBy
<1>6. \A x \in Int : 1 * x = x /\ (-1) * x = -x
  OBVIOUS
<1>7. CASE q.net > 0 /\ s < 0 /\ a = q.net /\ b = -s
  <2>1. ClosedBy(q, s) = IF q.net <= -s THEN q.net ELSE -s
    BY <1>5, <1>6, <1>7
  <2> QED
    BY <1>7, <2>1 DEF SameSign
<1>8. CASE q.net < 0 /\ s > 0 /\ a = -q.net /\ b = s
  <2>1. ClosedBy(q, s) = IF -q.net <= s THEN q.net ELSE -s
    BY <1>5, <1>6, <1>8
  <2> QED
    BY <1>8, <2>1 DEF SameSign
<1> QED
  BY <1>4, <1>7, <1>8

(* What a fill makes of a position, by how much it closes of it. *)
FillEffect(q, s, p, fee) ==
  LET after == ApplyFill(q, s, p, fee)
      g == Times(ClosedBy(q, s), Minus(Whole(p), q.avg))
  IN /\ after = [net |-> q.net + s,
                 avg |-> IF q.net = 0 \/ SameSign(q.net, s) THEN Average(q, s, p)
                         ELSE Remainder(q, q.net + s, p),
                 gross |-> Plus(q.gross, g),
                 realized |-> Plus(q.realized, Minus(g, Whole(fee))),
                 fees |-> q.fees + fee, mark |-> q.mark]
     /\ ClosedBy(q, s) \in Int /\ g \in Fractions

LEMMA FillRealizes ==
  ASSUME NEW q \in Position, NEW s \in Int, s # 0, NEW p \in Int, NEW fee \in Int
  PROVE  FillEffect(q, s, p, fee)
<1> DEFINE grows == q.net = 0 \/ SameSign(q.net, s)
           sign == IF q.net > 0 THEN 1 ELSE -1
           gross == IF grows THEN Whole(0)
                    ELSE Times(sign * Closed(q, s), Minus(Whole(p), q.avg))
           g == Times(ClosedBy(q, s), Minus(Whole(p), q.avg))
<1>1. Minus(Whole(p), q.avg) \in Fractions
  BY FractionTypes DEF Position
<1>2. ClosedBy(q, s) \in Int
  <2>1. CASE grows
    BY <2>1 DEF ClosedBy
  <2>2. CASE ~ grows
    BY <2>2, ClosedSize DEF Position
  <2> QED
    BY <2>1, <2>2
<1>3. gross = g
  <2>1. CASE grows
    BY <1>1, <2>1, TimesZero DEF ClosedBy
  <2>2. CASE ~ grows
    BY <2>2 DEF ClosedBy
  <2> QED
    BY <2>1, <2>2
<1>4. g \in Fractions
  BY <1>1, <1>2, FractionTypes
<1>5. ApplyFill(q, s, p, fee)
        = [q EXCEPT !.net = q.net + s,
             !.avg = IF grows THEN Average(q, s, p) ELSE Remainder(q, q.net + s, p),
             !.gross = Plus(@, gross),
             !.realized = Plus(@, Minus(gross, Whole(fee))),
             !.fees = @ + fee]
  BY DEF ApplyFill
<1> HIDE DEF gross, g
<1>6. ApplyFill(q, s, p, fee)
        = [net |-> q.net + s,
           avg |-> IF grows THEN Average(q, s, p) ELSE Remainder(q, q.net + s, p),
           gross |-> Plus(q.gross, g),
           realized |-> Plus(q.realized, Minus(g, Whole(fee))),
           fees |-> q.fees + fee, mark |-> q.mark]
  BY <1>3, <1>5 DEF Position
<1> QED
  BY <1>2, <1>4, <1>6 DEF g, FillEffect

(* The profit before fees stays the profit after fees and the fees. *)
LEMMA FeesApart ==
  ASSUME NEW q \in Position, NEW g \in Fractions, NEW fee \in Int
  PROVE  Plus(Plus(q.realized, Whole(q.fees)), g)
           = Plus(Plus(q.realized, Minus(g, Whole(fee))), Whole(q.fees + fee))
<1>1. q.realized \in Fractions /\ q.fees \in Int
  BY DEF Position
<1> QED
  BY <1>1, GrossAfter, ZenonT(60)

(* The prices a position was entered at, after a fill. *)
EntriesAfter(q, s, p, after, S) ==
  IF after.net = 0 THEN {}
  ELSE IF q.net = 0 \/ SameSign(q.net, s) THEN S \cup {p}
  ELSE IF SameSign(q.net, after.net) THEN S ELSE {p}

LEMMA AccountAfter ==
  ASSUME NEW q \in Position, NEW s \in Int, s # 0, NEW p \in Int, NEW fee \in Int,
         NEW c \in Int, NEW S \in SUBSET Int,
         Balanced([position |-> q, cash |-> c, entries |-> S])
  PROVE  LET after == ApplyFill(q, s, p, fee)
         IN /\ after \in Position
            /\ after.realized = Plus(Whole(c - s * p - fee), Times(after.net, after.avg))
            /\ after.gross = Plus(after.realized, Whole(after.fees))
            /\ after.net = 0 => after.avg = Whole(0)
            /\ after.net # 0 => Between(after.avg, EntriesAfter(q, s, p, after, S))
<1> DEFINE after == ApplyFill(q, s, p, fee)
           j == ClosedBy(q, s)
           g == Times(j, Minus(Whole(p), q.avg))
           grows == q.net = 0 \/ SameSign(q.net, s)
<1>0. /\ q.realized = Plus(Whole(c), Times(q.net, q.avg))
      /\ q.gross = Plus(q.realized, Whole(q.fees))
      /\ q.net = 0 => q.avg = Whole(0)
      /\ q.net # 0 => Between(q.avg, S)
  BY DEF Balanced
<1>4. /\ after = [net |-> q.net + s,
                  avg |-> IF q.net = 0 \/ SameSign(q.net, s) THEN Average(q, s, p)
                          ELSE Remainder(q, q.net + s, p),
                  gross |-> Plus(q.gross, g),
                  realized |-> Plus(q.realized, Minus(g, Whole(fee))),
                  fees |-> q.fees + fee, mark |-> q.mark]
      /\ j \in Int /\ g \in Fractions
  <2>1. FillEffect(q, s, p, fee)
    BY FillRealizes
  <2> QED
    BY <2>1 DEF FillEffect
<1>5. /\ after.avg \in Fractions
      /\ after.realized = Plus(Whole(c - s * p - fee), Times(q.net + s, after.avg))
      /\ after.net = 0 => after.avg = Whole(0)
      /\ q.net = 0 \/ SameSign(q.net, s)
           => after.net # 0 /\ Between(after.avg, S \cup {p})
      /\ q.net # 0 /\ ~ SameSign(q.net, s) /\ SameSign(q.net, after.net)
           => after.avg = q.avg
      /\ q.net # 0 /\ ~ SameSign(q.net, s) /\ ~ SameSign(q.net, after.net) /\ after.net # 0
           => after.avg = Whole(p)
  <2>1. /\ after.net = q.net + s
        /\ after.avg = IF grows THEN Average(q, s, p) ELSE Remainder(q, q.net + s, p)
        /\ after.realized = Plus(q.realized, Minus(g, Whole(fee)))
        /\ j \in Int /\ g \in Fractions
    BY <1>4
  <2>2. q.net \in Int /\ q.avg \in Fractions /\ s * p \in Int /\ q.net + s \in Int
    BY DEF Position
  <2> HIDE DEF after, j
  <2>3. after.realized = Plus(Whole(c + (j * p - fee)), Times(q.net - j, q.avg))
    <3>1. Plus(Plus(Whole(c), Times(q.net, q.avg)),
               Minus(Times(j, Minus(Whole(p), q.avg)), Whole(fee)))
            = Plus(Whole(c + (j * p - fee)), Times(q.net - j, q.avg))
      <4> DEFINE net == q.net
                 avg == q.avg
      <4>1. net \in Int /\ avg \in Fractions /\ j \in Int
        BY <2>1, <2>2
      <4> HIDE DEF net, avg
      <4>2. Plus(Plus(Whole(c), Times(net, avg)),
                 Minus(Times(j, Minus(Whole(p), avg)), Whole(fee)))
              = Plus(Whole(c + (j * p - fee)), Times(net - j, avg))
        BY <4>1, RealizesRight
      <4> QED
        BY <4>2 DEF net, avg
    <3> QED
      BY <1>0, <2>1, <3>1, Zenon
  <2>4. Whole(p) \in Fractions /\ Whole(0) \in Fractions
    BY FractionTypes
  <2>5. CASE grows
    <3>1. /\ after.avg = Average(q, s, p) /\ after.avg \in Fractions
          /\ Times(q.net + s, after.avg) = Plus(Times(q.net, q.avg), Whole(s * p))
          /\ Between(after.avg, S \cup {p})
          /\ q.net + s # 0
      <4>1. /\ Average(q, s, p) \in Fractions
            /\ Times(q.net + s, Average(q, s, p)) = Plus(Times(q.net, q.avg), Whole(s * p))
            /\ Between(Average(q, s, p), S \cup {p})
            /\ q.net + s # 0
        BY <1>0, <2>2, <2>5, Grown
      <4> QED
        BY <2>1, <2>5, <4>1
    <3>2. c + (j * p - fee) = c - fee /\ q.net - j = q.net
      <4>1. j = 0 /\ 0 * p = 0
        BY <2>5 DEF j, ClosedBy
      <4> QED
        BY <2>2, <4>1
    <3> DEFINE T == Times(q.net, q.avg)
               W == Whole(s * p)
               C == Whole(c - s * p - fee)
    <3>3. T \in Fractions /\ W \in Fractions /\ C \in Fractions /\ c - s * p - fee \in Int
      BY <2>2, FractionTypes
    <3>4. Plus(C, Plus(T, W)) = Plus(Plus(C, W), T)
      <4> HIDE DEF T, W, C
      <4>1. Plus(T, W) = Plus(W, T)
        BY <3>3, PlusSwap
      <4> QED
        BY <3>3, <4>1, PlusPlus
    <3>5. Plus(C, W) = Whole(c - fee)
      <4>1. Plus(C, W) = Whole((c - s * p - fee) + s * p)
        BY <2>2, <3>3, WholePlus
      <4>2. (c - s * p - fee) + s * p = c - fee
        BY <2>2
      <4> QED
        BY <4>1, <4>2
    <3>6. after.realized = Plus(C, Times(q.net + s, after.avg))
      BY <2>3, <3>1, <3>2, <3>4, <3>5
    <3> QED
      BY <2>1, <2>5, <3>1, <3>6 DEF after
  <2>6. CASE ~ grows
    <3>1. \/ /\ q.net + s = 0 \/ SameSign(q.net, q.net + s)
             /\ j = -s
          \/ q.net + s # 0 /\ ~ SameSign(q.net, q.net + s) /\ j = q.net
      BY <2>2, <2>6, ClosedSize DEF j
    <3>2. after.avg = Remainder(q, q.net + s, p)
      BY <2>1, <2>6
    <3>3. CASE q.net + s = 0 /\ j = -s
      <4>1. after.avg = Whole(0)
        BY <3>2, <3>3 DEF Remainder
      <4>2. c + (j * p - fee) = c - s * p - fee /\ q.net - j = 0
        <5>1. (-s) * p = -(s * p)
          OBVIOUS
        <5> QED
          BY <2>2, <3>3, <5>1
      <4>3. Times(0, q.avg) = Times(0, Whole(0))
        BY <2>2, <2>4, TimesZero
      <4>4. after.realized = Plus(Whole(c - s * p - fee), Times(q.net + s, after.avg))
        BY <2>3, <3>3, <4>1, <4>2, <4>3
      <4>5. ~ SameSign(q.net, after.net)
        BY <2>1, <3>3 DEF SameSign
      <4> QED
        BY <2>1, <2>4, <2>6, <3>3, <4>1, <4>4, <4>5 DEF after
    <3>4. CASE SameSign(q.net, q.net + s) /\ j = -s
      <4>0. q.net + s # 0 /\ q.net # 0
        BY <3>4 DEF SameSign
      <4>1. after.avg = q.avg
        BY <3>2, <3>4, <4>0 DEF Remainder
      <4>2. c + (j * p - fee) = c - s * p - fee /\ q.net - j = q.net + s
        <5>1. (-s) * p = -(s * p)
          OBVIOUS
        <5> QED
          BY <2>2, <3>4, <5>1
      <4>3. after.realized = Plus(Whole(c - s * p - fee), Times(q.net + s, after.avg))
        BY <2>3, <4>1, <4>2
      <4>4. Between(after.avg, S \cup {p})
        BY <1>0, <4>0, <4>1 DEF Between
      <4> QED
        BY <2>1, <2>2, <2>6, <3>4, <4>0, <4>1, <4>3, <4>4 DEF after
    <3>5. CASE q.net + s # 0 /\ ~ SameSign(q.net, q.net + s) /\ j = q.net
      <4>1. after.avg = Whole(p)
        BY <3>2, <3>5 DEF Remainder
      <4>2. q.net - j = 0 /\ j * p = q.net * p /\ q.net * p \in Int
        BY <2>2, <3>5
      <4>3. after.realized = Whole(c + (q.net * p - fee))
        <5>1. Times(0, q.avg) = Whole(0)
          BY <2>2, TimesZero
        <5>2. c + (q.net * p - fee) \in Int
          BY <4>2
        <5>3. Whole(c + (q.net * p - fee)) \in Fractions
          BY <5>2, FractionTypes
        <5> QED
          BY <2>3, <4>2, <5>1, <5>3, PlusZero
      <4>4. Times(q.net + s, Whole(p)) = Whole((q.net + s) * p)
        BY <2>2, TimesWhole
      <4>5. (q.net + s) * p = q.net * p + s * p
        BY <2>2
      <4>6. Plus(Whole(c - s * p - fee), Whole((q.net + s) * p)) = Whole(c + (q.net * p - fee))
        <5>1. c - s * p - fee \in Int /\ (q.net + s) * p \in Int
          BY <2>2
        <5>2. Plus(Whole(c - s * p - fee), Whole((q.net + s) * p))
                = Whole((c - s * p - fee) + (q.net + s) * p)
          BY <5>1, WholePlus
        <5>3. (c - s * p - fee) + (q.net + s) * p = c + (q.net * p - fee)
          BY <2>2, <4>2, <4>5
        <5> QED
          BY <5>2, <5>3
      <4>7. ~ SameSign(q.net, after.net) /\ after.net # 0
        BY <2>1, <3>5
      <4> QED
        BY <2>1, <2>4, <2>6, <4>1, <4>3, <4>4, <4>6, <4>7 DEF after
    <3> QED
      BY <3>1, <3>3, <3>4, <3>5
  <2> QED
    BY <2>5, <2>6
<1> HIDE DEF g, j, after
<1>6. after \in Position
  <2>1. /\ q.net \in Int /\ q.gross \in Fractions /\ q.realized \in Fractions
        /\ q.fees \in Int /\ q.mark \in Marks
    BY DEF Position
  <2>2. /\ Plus(q.gross, g) \in Fractions
        /\ Whole(fee) \in Fractions
    BY <1>4, <2>1, FractionTypes
  <2>3. Minus(g, Whole(fee)) \in Fractions
    BY <1>4, <2>2, FractionTypes
  <2>4. Plus(q.realized, Minus(g, Whole(fee))) \in Fractions
    BY <2>1, <2>3, FractionTypes
  <2>5. after.avg = IF q.net = 0 \/ SameSign(q.net, s) THEN Average(q, s, p)
                    ELSE Remainder(q, q.net + s, p)
    BY <1>4
  <2>6. q.net + s \in Int /\ q.fees + fee \in Int
    BY <2>1
  <2> QED
    BY <1>4, <1>5, <2>1, <2>2, <2>4, <2>5, <2>6 DEF Position
<1>8. after.gross = Plus(after.realized, Whole(after.fees))
  <2>2. Plus(Plus(q.realized, Whole(q.fees)), g)
          = Plus(Plus(q.realized, Minus(g, Whole(fee))), Whole(q.fees + fee))
    BY <1>4, FeesApart
  <2> QED
    BY <1>0, <1>4, <2>2
<1>9. after.net # 0 => Between(after.avg, EntriesAfter(q, s, p, after, S))
  <2>1. CASE q.net = 0 \/ SameSign(q.net, s)
    BY <1>5, <2>1 DEF EntriesAfter
  <2>2. CASE q.net # 0 /\ ~ SameSign(q.net, s) /\ SameSign(q.net, after.net)
    BY <1>0, <1>5, <2>2 DEF EntriesAfter
  <2>3. CASE q.net # 0 /\ ~ SameSign(q.net, s) /\ ~ SameSign(q.net, after.net)
    BY <1>5, <2>3, WholeBetween DEF EntriesAfter
  <2> QED
    BY <2>1, <2>2, <2>3
<1> QED
  BY <1>4, <1>5, <1>6, <1>8, <1>9 DEF after

LEMMA BookedBalances ==
  ASSUME NEW held \in Accounts, NEW fill \in Fill
  PROVE  Booked(held, fill) \in Accounts
<1> DEFINE after == ApplyFill(held.position, fill.size, fill.price, fill.fee)
           new == Booked(held, fill)
<1>1. /\ held.position \in Position /\ held.cash \in Int /\ held.entries \in SUBSET Prices
      /\ fill.size \in Int /\ fill.size # 0 /\ fill.price \in Prices /\ fill.price \in Int
      /\ fill.fee \in Int /\ held.entries \in SUBSET Int
  BY DEF Accounts, Holdings, Fill, Prices
<1>2. Balanced([position |-> held.position, cash |-> held.cash, entries |-> held.entries])
  BY DEF Accounts, Balanced
<1>3. /\ after \in Position
      /\ after.realized = Plus(Whole(held.cash - fill.size * fill.price - fill.fee),
                               Times(after.net, after.avg))
      /\ after.gross = Plus(after.realized, Whole(after.fees))
      /\ after.net = 0 => after.avg = Whole(0)
      /\ after.net # 0 => Between(after.avg, EntriesAfter(held.position, fill.size, fill.price,
                                                          after, held.entries))
  BY <1>1, <1>2, AccountAfter
<1> HIDE DEF after
<1>4. new = [position |-> after, cash |-> held.cash - fill.size * fill.price - fill.fee,
             entries |-> EntriesAfter(held.position, fill.size, fill.price, after, held.entries)]
  BY DEF Booked, EntriesAfter, after
<1>5. /\ held.cash - fill.size * fill.price - fill.fee \in Int
      /\ EntriesAfter(held.position, fill.size, fill.price, after, held.entries) \in SUBSET Prices
  BY <1>1 DEF EntriesAfter
<1> HIDE DEF new
<1>6. new \in Holdings
  BY <1>3, <1>4, <1>5 DEF Holdings
<1>7. Balanced(new)
  BY <1>3, <1>4 DEF Balanced
<1> QED
  BY <1>6, <1>7 DEF Accounts, new

-----------------------------------------------------------------------------
(* The fills of an execution: there is an order of the prices it took, and *)
(* the fills in that order make up the whole of what it took.              *)
Better(side, p, q) == IF side = "Buy" THEN p < q ELSE q < p
Sorted(side, f, c) == \A m, n \in 1..c : m < n => Better(side, f[m], f[n])

LEMMA SortedPrices ==
  ASSUME NEW side \in Sides, NEW S \in SUBSET Prices
  PROVE  \E f \in [1..Cardinality(S) -> S] : Sorted(side, f, Cardinality(S))
<1> DEFINE T(k) == S \cap Down(side, k)
           c(k) == Cardinality(T(k))
           Q == {k \in Nat : k <= MaxPrice + 1 =>
                   \E f \in [1..c(k) -> T(k)] : Sorted(side, f, c(k))}
<1>1. \A k \in Nat : IsFiniteSet(T(k)) /\ c(k) \in Nat
  <2> SUFFICES ASSUME NEW k \in Nat PROVE IsFiniteSet(T(k)) /\ c(k) \in Nat
    OBVIOUS
  <2>1. T(k) \subseteq Prices
    OBVIOUS
  <2> HIDE DEF T
  <2>2. IsFiniteSet(T(k))
    BY <2>1, PricesFinite, FS_Subset
  <2> QED
    BY <2>2, FS_CardinalityType
<1>2. 0 \in Q
  <2>1. T(0) = {}
    BY MaxPriceAssumption DEF Down, Rank, Prices
  <2>2. c(0) = 0
    BY <2>1, FS_EmptySet
  <2>3. << >> \in [1..0 -> T(0)] /\ Sorted(side, << >>, 0)
    BY <2>1 DEF Sorted
  <2> HIDE DEF T, c
  <2> QED
    BY <2>2, <2>3
<1>3. ASSUME NEW k \in Nat, k \in Q PROVE k + 1 \in Q
  <2> SUFFICES ASSUME k + 1 <= MaxPrice + 1
               PROVE  \E f \in [1..c(k + 1) -> T(k + 1)] : Sorted(side, f, c(k + 1))
    <3> HIDE DEF T, c
    <3> QED
      OBVIOUS
  <2>1. k <= MaxPrice /\ k <= MaxPrice + 1
    BY MaxPriceAssumption
  <2>2. PICK f \in [1..c(k) -> T(k)] : Sorted(side, f, c(k))
    BY <1>3, <2>1
  <2>3. PICK p \in Prices : /\ Rank(side, p) = k /\ p \notin Down(side, k)
                            /\ Down(side, k + 1) = Down(side, k) \cup {p}
    BY <2>1, DownGrows
  <2>4. CASE p \notin S
    <3>1. T(k + 1) = T(k)
      BY <2>3, <2>4
    <3>2. c(k + 1) = c(k)
      BY <3>1
    <3> HIDE DEF T, c
    <3> QED
      BY <2>2, <3>1, <3>2
  <2>5. CASE p \in S
    <3>1. T(k + 1) = T(k) \cup {p} /\ p \notin T(k)
      BY <2>3, <2>5
    <3>2. \A q \in T(k) : Better(side, q, p)
      BY <2>3, MaxPriceAssumption DEF Down, Rank, Prices, Better
    <3>3. IsFiniteSet(T(k)) /\ c(k) \in Nat
      BY <1>1
    <3> DEFINE U == T(k)
    <3> HIDE DEF T
    <3>4. Cardinality(U \cup {p}) = Cardinality(U) + 1
      BY <3>1, <3>3, FS_AddElement
    <3>5. c(k + 1) = c(k) + 1
      BY <3>1, <3>4
    <3> HIDE DEF c
    <3> DEFINE n1 == c(k) + 1
               g == [n \in 1..n1 |-> IF n = n1 THEN p ELSE f[n]]
    <3>6. \A n \in 1..n1 : n = n1 \/ n \in 1..c(k)
      BY <3>3
    <3>7. g \in [1..n1 -> U \cup {p}]
      BY <3>6
    <3>8. Sorted(side, g, n1)
      <4> SUFFICES ASSUME NEW m \in 1..n1, NEW n \in 1..n1, m < n
                   PROVE  Better(side, g[m], g[n])
        BY DEF Sorted
      <4>1. m \in 1..c(k) /\ m # n1
        BY <3>3
      <4>2. g[m] = f[m] /\ f[m] \in U
        BY <4>1
      <4>3. CASE n = n1
        BY <3>2, <4>2, <4>3
      <4>4. CASE n # n1
        BY <2>2, <3>6, <4>1, <4>2, <4>4 DEF Sorted
      <4> QED
        BY <4>3, <4>4
    <3> HIDE DEF g
    <3> QED
      BY <3>1, <3>5, <3>7, <3>8
  <2> QED
    BY <2>4, <2>5
<1>4. \A k \in Nat : k \in Q
  <2> HIDE DEF Q
  <2> QED
    BY <1>2, <1>3, NatSetInduction
<1>5. \E f \in [1..c(MaxPrice + 1) -> T(MaxPrice + 1)] : Sorted(side, f, c(MaxPrice + 1))
  <2>1. MaxPrice + 1 \in Nat /\ MaxPrice + 1 <= MaxPrice + 1
    BY MaxPriceAssumption
  <2> HIDE DEF T, c
  <2> QED
    BY <1>4, <2>1
<1>6. T(MaxPrice + 1) = S
  <2>1. Down(side, MaxPrice + 1) = Prices
    BY MaxPriceAssumption DEF Down, Rank, Prices
  <2> QED
    BY <2>1
<1> HIDE DEF T
<1> QED
  BY <1>5, <1>6

(* The prices in order name every one of them once. *)
LEMMA SortedIsAll ==
  ASSUME NEW side \in Sides, NEW S \in SUBSET Prices,
         NEW f \in [1..Cardinality(S) -> S], Sorted(side, f, Cardinality(S))
  PROVE  /\ \A m, n \in 1..Cardinality(S) : m # n => f[m] # f[n]
         /\ \A p \in S : \E n \in 1..Cardinality(S) : f[n] = p
<1> DEFINE c == Cardinality(S)
           D == 1..c
<1>1. IsFiniteSet(S) /\ c \in Nat
  BY PricesFinite, FS_Subset, FS_CardinalityType
<1>2. IsFiniteSet(D) /\ Cardinality(D) = c
  BY <1>1, FS_Interval
<1>3. \A m, n \in D : m # n => f[m] # f[n]
  <2> SUFFICES ASSUME NEW m \in D, NEW n \in D, m # n PROVE f[m] # f[n]
    OBVIOUS
  <2>0. f[m] \in S /\ f[n] \in S
    OBVIOUS
  <2>1. f[m] \in Int /\ f[n] \in Int
    <3>1. \A p \in Prices : p \in Int
      BY MaxPriceAssumption DEF Prices
    <3> QED
      BY <2>0, <3>1
  <2>2. m < n \/ n < m
    BY <1>1
  <2> QED
    BY <2>1, <2>2 DEF Sorted, Better
<1>7. f \in [D -> S]
  OBVIOUS
<1> HIDE DEF D
<1>4. f \in Injection(D, S)
  BY <1>3, <1>7 DEF Injection, IsInjective
<1>5. f \in Surjection(D, S)
  BY <1>1, <1>2, <1>4, FS_Injection
<1>6. \A p \in S : \E n \in D : f[n] = p
  BY <1>5 DEF Surjection
<1> QED
  BY <1>3, <1>6 DEF D

TakenPrices(x) == {p \in DOMAIN x.by : x.by[p] > 0}
FillAt(side, x, p) ==
  [size |-> IF side = "Buy" THEN x.by[p] ELSE -x.by[p], price |-> p,
   fee |-> Fee(x.liquidity, x.by[p], p)]

LEMMA FillsOfEach ==
  ASSUME NEW side \in Sides, NEW x \in Execution
  PROVE  \E f \in Seq(TakenPrices(x)) :
            /\ \A m, n \in 1..Len(f) : m # n => f[m] # f[n]
            /\ {f[n] : n \in 1..Len(f)} = TakenPrices(x)
            /\ FillsOf(side, x) = [n \in 1..Len(f) |-> FillAt(side, x, f[n])]
<1> DEFINE taken == TakenPrices(x)
           c == Cardinality(taken)
           inOrder(f) == \A m, n \in DOMAIN f :
                           m < n => IF side = "Buy" THEN f[m] < f[n] ELSE f[n] < f[m]
           f == CHOOSE g \in [1..c -> taken] : inOrder(g)
           all == FillsOf(side, x)
<1>1. taken \in SUBSET Prices
  BY DEF Execution, Levels, TakenPrices
<1>2. f \in [1..c -> taken] /\ Sorted(side, f, c)
  <2>1. PICK h \in [1..c -> taken] : Sorted(side, h, c)
    <3> HIDE DEF taken
    <3> QED
      BY <1>1, SortedPrices
  <2>2. \A g \in [1..c -> taken] : inOrder(g) <=> Sorted(side, g, c)
    <3> HIDE DEF taken, c
    <3> QED
      BY DEF Sorted, Better
  <2>3. \E g \in [1..c -> taken] : inOrder(g)
    <3> HIDE DEF inOrder, taken, c
    <3> QED
      BY <2>1, <2>2
  <2>4. f \in [1..c -> taken] /\ inOrder(f)
    <3> HIDE DEF inOrder, taken, c
    <3> QED
      BY <2>3
  <2> HIDE DEF f, inOrder, taken, c
  <2> QED
    BY <2>2, <2>4
<1>3. all = [n \in DOMAIN f |-> FillAt(side, x, f[n])]
  BY DEF FillsOf, FillAt, TakenPrices
<1>4. c \in Nat
  <2> HIDE DEF taken
  <2> QED
    BY <1>1, PricesFinite, FS_Subset, FS_CardinalityType
<1> HIDE DEF f, all
<1>5. /\ \A m, n \in 1..c : m # n => f[m] # f[n]
      /\ {f[n] : n \in 1..c} = taken
  <2>1. f \in [1..Cardinality(taken) -> taken] /\ Sorted(side, f, Cardinality(taken))
    BY <1>2 DEF c
  <2> HIDE DEF taken
  <2>2. /\ \A m, n \in 1..Cardinality(taken) : m # n => f[m] # f[n]
        /\ \A p \in taken : \E n \in 1..Cardinality(taken) : f[n] = p
    BY <1>1, <2>1, SortedIsAll, ZenonT(60)
  <2>3. \A n \in 1..Cardinality(taken) : f[n] \in taken
    BY <2>1
  <2> QED
    BY <2>2, <2>3 DEF c
<1> HIDE DEF taken, c
<1>6. all = [n \in 1..c |-> FillAt(side, x, f[n])]
  BY <1>2, <1>3
<1>7. f \in Seq(taken) /\ Len(f) = c
  BY <1>2, <1>4
<1>8. /\ \A m, n \in 1..Len(f) : m # n => f[m] # f[n]
      /\ {f[n] : n \in 1..Len(f)} = taken
      /\ all = [n \in 1..Len(f) |-> FillAt(side, x, f[n])]
  BY <1>5, <1>6, <1>7, Zenon
<1> QED
  BY <1>7, <1>8 DEF all, taken

(* A sum over the fills is a sum over the prices. *)
LEMMA FillsOfSum ==
  ASSUME NEW side \in Sides, NEW x \in Execution, NEW amounts, NEW at,
         \A n \in DOMAIN FillsOf(side, x) : amounts[n] = at[FillsOf(side, x)[n].price],
         \A p \in Prices : at[p] \in Int /\ (x.by[p] = 0 => at[p] = 0)
  PROVE  SumFunctionOnSet(amounts, DOMAIN FillsOf(side, x)) = SumFunctionOnSet(at, Prices)
<1>1. PICK f \in Seq(TakenPrices(x)) :
         /\ \A m, n \in 1..Len(f) : m # n => f[m] # f[n]
         /\ {f[n] : n \in 1..Len(f)} = TakenPrices(x)
         /\ FillsOf(side, x) = [n \in 1..Len(f) |-> FillAt(side, x, f[n])]
  BY FillsOfEach
<1> DEFINE D == 1..Len(f)
           taken == TakenPrices(x)
<1>2. /\ DOMAIN FillsOf(side, x) = D /\ IsFiniteSet(D)
      /\ \A n \in D : FillsOf(side, x)[n].price = f[n] /\ f[n] \in taken
  <2>1. Len(f) \in Nat /\ \A n \in D : f[n] \in taken
    BY <1>1
  <2>2. IsFiniteSet(D)
    BY <2>1, FS_Interval
  <2>3. FillsOf(side, x) = [n \in D |-> FillAt(side, x, f[n])]
    BY <1>1, Zenon
  <2> HIDE DEF D, taken
  <2>4. \A n \in D : FillsOf(side, x)[n] = FillAt(side, x, f[n])
    BY <2>3
  <2> QED
    BY <2>1, <2>2, <2>3, <2>4 DEF FillAt
<1>3. /\ taken \in SUBSET Prices
      /\ \A p \in Prices \ taken : x.by[p] = 0
  BY DEF Execution, Levels, TakenPrices
<1>4. \A n \in D : amounts[n] = at[f[n]] /\ at[f[n]] \in Int
  <2>1. \A n \in D : f[n] \in Prices
    BY <1>2, <1>3
  <2> QED
    BY <1>2, <2>1
<1>5. (\A m, n \in D : m # n => f[m] # f[n]) /\ {f[n] : n \in D} = taken
  BY <1>1
<1> HIDE DEF D, taken
<1>6. SumFunctionOnSet(amounts, D) = SumFunctionOnSet(at, taken)
  <2>1. \A n \in D : amounts[n] \in Int /\ amounts[n] = at[f[n]]
    BY <1>4
  <2>2. SumFunctionOnSet(amounts, D) = SumFunctionOnSet(at, {f[n] : n \in D})
    BY <1>2, <1>5, <2>1, SumMoved
  <2> QED
    BY <1>5, <2>2
<1>7. SumFunctionOnSet(at, taken) = SumFunctionOnSet(at, Prices)
  <2>1. /\ \A p \in Prices : at[p] \in Int
        /\ \A p \in Prices \ taken : at[p] = 0
    BY <1>3
  <2> QED
    BY <1>3, <2>1, PricesFinite, SumWithoutZeros
<1> QED
  BY <1>2, <1>6, <1>7

LEMMA FillsOfAre ==
  ASSUME NEW side \in Sides, NEW x \in Execution
  PROVE  /\ FillsOf(side, x) \in Seq(Fill)
         /\ SumOf([n \in DOMAIN FillsOf(side, x) |-> Magnitude(FillsOf(side, x)[n].size)])
              = SumLevels(x.by, Prices)
<1> DEFINE all == FillsOf(side, x)
           sizes == [n \in DOMAIN all |-> Magnitude(all[n].size)]
<1>1. PICK f \in Seq(TakenPrices(x)) :
         /\ \A m, n \in 1..Len(f) : m # n => f[m] # f[n]
         /\ {f[n] : n \in 1..Len(f)} = TakenPrices(x)
         /\ all = [n \in 1..Len(f) |-> FillAt(side, x, f[n])]
  BY FillsOfEach
<1>2. \A p \in TakenPrices(x) : /\ p \in Prices /\ x.by[p] \in Nat /\ x.by[p] > 0
                                /\ FillAt(side, x, p) \in Fill
                                /\ Magnitude(FillAt(side, x, p).size) = x.by[p]
  <2> SUFFICES ASSUME NEW p \in TakenPrices(x)
               PROVE  /\ p \in Prices /\ x.by[p] \in Nat /\ x.by[p] > 0
                      /\ FillAt(side, x, p) \in Fill
                      /\ Magnitude(FillAt(side, x, p).size) = x.by[p]
    OBVIOUS
  <2>1. p \in Prices /\ x.by[p] \in Nat /\ x.by[p] > 0
    BY DEF TakenPrices, Execution, Levels
  <2>2. Fee(x.liquidity, x.by[p], p) \in Nat
    <3>1. TakerFee[p] \in Nat
      BY <2>1, FeeAssumption
    <3> QED
      BY <2>1, <3>1 DEF Fee
  <2> QED
    BY <2>1, <2>2 DEF Fill, FillAt, Magnitude
<1>3. \A n \in 1..Len(f) : /\ all[n] = FillAt(side, x, f[n]) /\ f[n] \in TakenPrices(x)
                      /\ all[n].price = f[n]
  BY <1>1 DEF FillAt
<1>4. all \in Seq(Fill) /\ DOMAIN all = 1..Len(f)
  BY <1>1, <1>2, <1>3
<1>5. \A n \in DOMAIN all : sizes[n] = x.by[all[n].price]
  BY <1>2, <1>3, <1>4
<1>6. \A p \in Prices : x.by[p] \in Int
  BY DEF Execution, Levels
<1> HIDE DEF sizes
<1>7. SumFunctionOnSet(sizes, DOMAIN all) = SumFunctionOnSet(x.by, Prices)
  BY <1>5, <1>6, FillsOfSum
<1>8. DOMAIN sizes = DOMAIN all
  BY DEF sizes
<1> QED
  BY <1>4, <1>7, <1>8 DEF SumLevels, SumOf, sizes

-----------------------------------------------------------------------------
(* Booking a sequence of fills, one after the other. *)
BookedRule(g, base, s) ==
  g = [t \in SUBSET DOMAIN s |->
         IF t = {} THEN base ELSE Booked(g[t \ {Max(t)}], s[Max(t)])]

LEMMA BookedIsByRule ==
  ASSUME NEW base, NEW s
  PROVE  FoldLeft(Booked, base, s) = (CHOOSE g : BookedRule(g, base, s))[DOMAIN s]
BY DEF FoldLeft, MapThenFoldSet, BookedRule

LEMMA BookedRuleExists ==
  ASSUME NEW base \in Accounts, NEW s \in Seq(Fill)
  PROVE  \E g : BookedRule(g, base, s)
<1> DEFINE F == [p \in Accounts \X Fill |-> Booked(p[1], p[2])]
<1>1. F \in [Accounts \X Fill -> Accounts]
  BY BookedBalances
<1>2. \A a \in Accounts, e \in Fill : F[<<a, e>>] = Booked(a, e)
  OBVIOUS
<1> HIDE DEF F
<1>0. PICK g : FoldRule(g, F, Accounts, base, s)
  BY <1>1, FoldExists
<1>3. /\ g \in [SUBSET (1..Len(s)) -> Accounts]
      /\ g[{}] = base
      /\ \A t \in SUBSET (1..Len(s)) : t # {} => g[t] = F[<<g[t \ {Max(t)}], s[Max(t)]>>]
  BY <1>0 DEF FoldRule
<1>4. DOMAIN s = 1..Len(s) /\ Len(s) \in Nat /\ \A n \in DOMAIN s : s[n] \in Fill
  OBVIOUS
<1>5. ASSUME NEW t \in SUBSET (1..Len(s)), t # {}
      PROVE  g[t] = Booked(g[t \ {Max(t)}], s[Max(t)])
  <2>1. t \in SUBSET (0..Len(s))
    BY <1>4
  <2>2. Max(t) \in t
    <3>1. Len(s) \in Nat /\ t # {}
      BY <1>4, <1>5
    <3> DEFINE d == Len(s)
    <3>2. d \in Nat /\ t \in SUBSET (0..d)
      BY <2>1, <3>1
    <3> HIDE DEF d
    <3> QED
      BY <3>1, <3>2, MaxOfRange
  <2>3. s[Max(t)] \in Fill /\ g[t \ {Max(t)}] \in Accounts
    <3>1. t \ {Max(t)} \in SUBSET (1..Len(s)) /\ Max(t) \in DOMAIN s
      BY <1>4, <2>2
    <3> QED
      BY <1>3, <1>4, <3>1
  <2> QED
    BY <1>2, <1>3, <1>5, <2>3
<1>6. \A t \in SUBSET DOMAIN s : t \in SUBSET (1..Len(s))
  BY <1>4
<1>7. g = [t \in SUBSET DOMAIN s |->
             IF t = {} THEN base ELSE Booked(g[t \ {Max(t)}], s[Max(t)])]
  <2>1. \A t \in SUBSET DOMAIN s :
           g[t] = IF t = {} THEN base ELSE Booked(g[t \ {Max(t)}], s[Max(t)])
    <3> SUFFICES ASSUME NEW t \in SUBSET DOMAIN s
                 PROVE  g[t] = IF t = {} THEN base ELSE Booked(g[t \ {Max(t)}], s[Max(t)])
      OBVIOUS
    <3>1. t \in SUBSET (1..Len(s))
      BY <1>6
    <3>2. CASE t = {}
      BY <1>3, <3>2
    <3>3. CASE t # {}
      BY <1>5, <3>1, <3>3
    <3> QED
      BY <3>2, <3>3
  <2>2. g \in [SUBSET DOMAIN s -> Accounts]
    BY <1>3, <1>4
  <2> QED
    BY <2>1, <2>2
<1> QED
  BY <1>7 DEF BookedRule

FeesIn(s) == [n \in DOMAIN s |-> s[n].fee]

LEMMA PrefixEnds ==
  ASSUME NEW k \in Nat
  PROVE  /\ 1..(k + 1) # {} /\ Max(1..(k + 1)) = k + 1
         /\ (1..(k + 1)) \ {k + 1} = 1..k
<1>1. k + 1 \in 1..(k + 1) /\ 1..(k + 1) \in SUBSET (0..(k + 1)) /\ k + 1 \in Nat
  OBVIOUS
<1>2. Max(1..(k + 1)) \in 1..(k + 1) /\ \A x \in 1..(k + 1) : x <= Max(1..(k + 1))
  BY <1>1, MaxOfRange
<1>3. Max(1..(k + 1)) = k + 1
  <2>1. k + 1 <= Max(1..(k + 1))
    BY <1>1, <1>2
  <2> QED
    BY <1>2, <2>1
<1> QED
  BY <1>1, <1>3

(* The accounts that a booking passes through. *)
LEMMA BookedSteps ==
  ASSUME NEW base \in Accounts, NEW s \in Seq(Fill)
  PROVE  \E a \in [0..Len(s) -> Accounts] :
            /\ a[0] = base
            /\ \A k \in 0..(Len(s) - 1) : a[k + 1] = Booked(a[k], s[k + 1])
            /\ a[Len(s)] = FoldLeft(Booked, base, s)
<1> DEFINE g == CHOOSE g : BookedRule(g, base, s)
           a == [k \in 0..Len(s) |-> g[1..k]]
           Q == {k \in Nat : k <= Len(s) => g[1..k] \in Accounts}
<1>1. FoldLeft(Booked, base, s) = g[DOMAIN s]
  BY BookedIsByRule
<1>2. BookedRule(g, base, s)
  BY BookedRuleExists
<1>3. DOMAIN s = 1..Len(s) /\ Len(s) \in Nat /\ \A n \in DOMAIN s : s[n] \in Fill
  OBVIOUS
<1> HIDE DEF g
<1>4. \A t \in SUBSET DOMAIN s :
         g[t] = IF t = {} THEN base ELSE Booked(g[t \ {Max(t)}], s[Max(t)])
  BY <1>2 DEF BookedRule
<1>5. g[1..0] = base
  <2>1. 1..0 = {} /\ {} \in SUBSET DOMAIN s
    OBVIOUS
  <2> QED
    BY <1>4, <2>1
<1>6. ASSUME NEW k \in Nat, k + 1 <= Len(s)
      PROVE  g[1..(k + 1)] = Booked(g[1..k], s[k + 1])
  <2>1. 1..(k + 1) \in SUBSET DOMAIN s
    BY <1>3, <1>6
  <2>2. /\ 1..(k + 1) # {} /\ Max(1..(k + 1)) = k + 1
        /\ (1..(k + 1)) \ {k + 1} = 1..k
    BY PrefixEnds
  <2> QED
    BY <1>4, <2>1, <2>2
<1>7. \A k \in Nat : k \in Q
  <2>1. 0 \in Q
    BY <1>5
  <2>2. ASSUME NEW k \in Nat, k \in Q PROVE k + 1 \in Q
    <3> SUFFICES ASSUME k + 1 <= Len(s) PROVE g[1..(k + 1)] \in Accounts
      OBVIOUS
    <3>1. g[1..k] \in Accounts /\ s[k + 1] \in Fill
      BY <1>3, <2>2
    <3> QED
      BY <1>6, <3>1, BookedBalances
  <2> HIDE DEF Q
  <2> QED
    BY <2>1, <2>2, NatSetInduction
<1>8. a \in [0..Len(s) -> Accounts] /\ a[0] = base
  BY <1>3, <1>5, <1>7
<1>9. \A k \in 0..(Len(s) - 1) : a[k + 1] = Booked(a[k], s[k + 1])
  BY <1>3, <1>6
<1>10. a[Len(s)] = FoldLeft(Booked, base, s)
  BY <1>1, <1>3
<1> HIDE DEF a
<1> QED
  BY <1>8, <1>9, <1>10

(* What booking comes to: fees, sizes and payments are summed. *)
SizesOf(s) == [n \in DOMAIN s |-> s[n].size]
PaidIn(s) == [n \in DOMAIN s |-> s[n].size * s[n].price + s[n].fee]

LEMMA BookedOnce ==
  ASSUME NEW held \in Accounts, NEW fill \in Fill
  PROVE  LET after == Booked(held, fill) IN
         /\ after.position = ApplyFill(held.position, fill.size, fill.price, fill.fee)
         /\ after.position.fees = held.position.fees + fill.fee
         /\ after.position.net = held.position.net + fill.size
         /\ after.cash = held.cash - (fill.size * fill.price + fill.fee)
<1>1. held.position \in Position /\ held.cash \in Int
  BY DEF Accounts, Holdings
<1>2. /\ fill.size \in Int /\ fill.price \in Int /\ fill.fee \in Int
      /\ fill.size * fill.price \in Int
  BY MaxPriceAssumption DEF Fill, Prices
<1>3. \A q \in Position : /\ ApplyFill(q, fill.size, fill.price, fill.fee).fees = q.fees + fill.fee
                          /\ ApplyFill(q, fill.size, fill.price, fill.fee).net = q.net + fill.size
  BY DEF ApplyFill, Position
<1>4. held.cash - fill.size * fill.price - fill.fee
        = held.cash - (fill.size * fill.price + fill.fee)
  BY <1>1, <1>2
<1>5. /\ Booked(held, fill).position = ApplyFill(held.position, fill.size, fill.price, fill.fee)
      /\ Booked(held, fill).cash = held.cash - fill.size * fill.price - fill.fee
  BY DEF Booked
<1> QED
  BY <1>1, <1>3, <1>4, <1>5

LEMMA BookedFold ==
  ASSUME NEW base \in Accounts, NEW s \in Seq(Fill)
  PROVE  LET after == FoldLeft(Booked, base, s) IN
         /\ after \in Accounts
         /\ after.position.fees = base.position.fees + SumOf(FeesIn(s))
         /\ after.position.net = base.position.net + SumOf(SizesOf(s))
         /\ after.cash = base.cash - SumOf(PaidIn(s))
<1>1. PICK a \in [0..Len(s) -> Accounts] :
         /\ a[0] = base
         /\ \A k \in 0..(Len(s) - 1) : a[k + 1] = Booked(a[k], s[k + 1])
         /\ a[Len(s)] = FoldLeft(Booked, base, s)
  BY BookedSteps
<1> DEFINE n == Len(s)
           Z == 0..n
           fees == [k \in Z |-> a[k].position.fees]
           net == [k \in Z |-> a[k].position.net]
           spent == [k \in Z |-> -a[k].cash]
<1>2. n \in Nat /\ DOMAIN s = 1..n /\ \A k \in 1..n : s[k] \in Fill
  OBVIOUS
<1>3. /\ DOMAIN FeesIn(s) = 1..n /\ DOMAIN SizesOf(s) = 1..n /\ DOMAIN PaidIn(s) = 1..n
      /\ \A k \in 1..n : /\ FeesIn(s)[k] = s[k].fee /\ SizesOf(s)[k] = s[k].size
                         /\ PaidIn(s)[k] = s[k].size * s[k].price + s[k].fee
  BY <1>2 DEF FeesIn, SizesOf, PaidIn
<1>4. /\ \A k \in 1..n : FeesIn(s)[k] \in Int
      /\ \A k \in 1..n : SizesOf(s)[k] \in Int
      /\ \A k \in 1..n : PaidIn(s)[k] \in Int
  <2>1. ASSUME NEW fill \in Fill
        PROVE  fill.fee \in Int /\ fill.size \in Int /\ fill.size * fill.price + fill.fee \in Int
    <3>1. fill.fee \in Int /\ fill.size \in Int /\ fill.price \in Int
      BY MaxPriceAssumption DEF Fill, Prices
    <3> QED
      BY <3>1
  <2> QED
    BY <1>2, <1>3, <2>1
<1>5. \A k \in Z : /\ a[k] \in Accounts /\ a[k].position.fees \in Int
                   /\ a[k].position.net \in Int /\ a[k].cash \in Int
  <2>1. \A held \in Accounts : held.position.fees \in Int /\ held.position.net \in Int /\ held.cash \in Int
    BY DEF Accounts, Holdings, Position
  <2>2. \A k \in Z : a[k] \in Accounts
    BY <1>1
  <2> QED
    BY <2>1, <2>2
<1>6. ASSUME NEW k \in 0..(n - 1)
      PROVE  /\ fees[k + 1] = fees[k] + FeesIn(s)[k + 1]
             /\ net[k + 1] = net[k] + SizesOf(s)[k + 1]
             /\ spent[k + 1] = spent[k] + PaidIn(s)[k + 1]
  <2>1. k \in Z /\ k + 1 \in Z /\ k + 1 \in 1..n /\ s[k + 1] \in Fill /\ a[k] \in Accounts
    BY <1>2, <1>5
  <2> DEFINE fill == s[k + 1]
             held == a[k]
  <2>2. a[k + 1] = Booked(held, fill)
    BY <1>1
  <2>3. /\ a[k + 1].position.fees = held.position.fees + fill.fee
        /\ a[k + 1].position.net = held.position.net + fill.size
        /\ a[k + 1].cash = held.cash - (fill.size * fill.price + fill.fee)
    BY <2>1, <2>2, BookedOnce
  <2>4. PaidIn(s)[k + 1] \in Int /\ held.cash \in Int
    BY <1>4, <1>5, <2>1
  <2>5. /\ fill.fee = FeesIn(s)[k + 1] /\ fill.size = SizesOf(s)[k + 1]
        /\ fill.size * fill.price + fill.fee = PaidIn(s)[k + 1]
    BY <1>3, <2>1
  <2>6. a[k + 1].cash = held.cash - PaidIn(s)[k + 1]
    BY <2>3, <2>5
  <2>7. -a[k + 1].cash = -held.cash + PaidIn(s)[k + 1]
    BY <2>4, <2>6
  <2> QED
    BY <2>1, <2>3, <2>5, <2>7
<1>7. /\ fees[0] = base.position.fees /\ net[0] = base.position.net /\ spent[0] = -base.cash
      /\ fees[0] \in Int /\ net[0] \in Int /\ spent[0] \in Int
      /\ fees[n] = a[n].position.fees /\ net[n] = a[n].position.net /\ spent[n] = -a[n].cash
  BY <1>1, <1>2, <1>5
<1> HIDE DEF fees, net, spent
<1>8. Grows(fees, FeesIn(s), n) /\ Grows(net, SizesOf(s), n) /\ Grows(spent, PaidIn(s), n)
  <2>1. Grows(fees, FeesIn(s), n)
    BY <1>4, <1>6, <1>7 DEF Grows
  <2>2. Grows(net, SizesOf(s), n)
    BY <1>4, <1>6, <1>7 DEF Grows
  <2>3. Grows(spent, PaidIn(s), n)
    BY <1>4, <1>6, <1>7 DEF Grows
  <2> QED
    BY <2>1, <2>2, <2>3
<1>9. /\ SumOf(FeesIn(s)) = SumFunctionOnSet(FeesIn(s), 1..n)
      /\ SumOf(SizesOf(s)) = SumFunctionOnSet(SizesOf(s), 1..n)
      /\ SumOf(PaidIn(s)) = SumFunctionOnSet(PaidIn(s), 1..n)
  BY <1>3 DEF SumOf
<1>10. /\ fees[n] = fees[0] + SumOf(FeesIn(s))
       /\ net[n] = net[0] + SumOf(SizesOf(s))
       /\ spent[n] = spent[0] + SumOf(PaidIn(s))
  <2>1. fees[n] = fees[0] + SumFunctionOnSet(FeesIn(s), 1..n)
    BY <1>2, <1>8, GrownBySum
  <2>2. net[n] = net[0] + SumFunctionOnSet(SizesOf(s), 1..n)
    BY <1>2, <1>8, GrownBySum
  <2>3. spent[n] = spent[0] + SumFunctionOnSet(PaidIn(s), 1..n)
    BY <1>2, <1>8, GrownBySum
  <2> QED
    BY <1>9, <2>1, <2>2, <2>3
<1>11. SumOf(PaidIn(s)) \in Int
  <2>1. IsFiniteSet(1..n)
    BY <1>2, FS_Interval
  <2> QED
    BY <1>3, <1>4, <2>1, SumType DEF SumOf
<1>12. a[n] \in Accounts /\ a[n].cash \in Int /\ base.cash \in Int
  BY <1>1, <1>2, <1>5
<1>13. a[n].cash = base.cash - SumOf(PaidIn(s))
  BY <1>7, <1>10, <1>11, <1>12, SMTT(60)
<1> QED
  BY <1>1, <1>7, <1>10, <1>12, <1>13

-----------------------------------------------------------------------------
(* Balanced books are exact: total P&L is money and holdings at the mark.  *)
LEMMA HoldingsAtMark ==
  ASSUME NEW c \in Int, NEW net \in Int, NEW a \in Fractions, NEW m \in Fractions
  PROVE  Plus(Plus(Whole(c), Times(net, a)), Times(net, Minus(m, a)))
           = Plus(Whole(c), Times(net, m))
<1> DEFINE C == Whole(c)
           H == Times(net, a)
           M == Times(net, m)
           D == Times(-net, a)
<1>1. /\ C \in Fractions /\ H \in Fractions /\ M \in Fractions /\ D \in Fractions
      /\ -net \in Int /\ Times(-1, a) \in Fractions /\ -1 \in Int /\ net * (-1) = -net
  BY FractionTypes
<1>2. Times(net, Minus(m, a)) = Plus(M, D)
  <2>1. Times(net, Plus(m, Times(-1, a))) = Plus(M, Times(net, Times(-1, a)))
    BY <1>1, TimesPlus
  <2>2. Times(net, Times(-1, a)) = Times(net * (-1), a)
    BY <1>1, TimesTimes
  <2> QED
    BY <1>1, <2>1, <2>2 DEF Minus
<1>3. Plus(H, D) = Whole(0)
  <2>1. Times(net + (-net), a) = Plus(H, D)
    BY <1>1, TimesAdd
  <2>2. net + (-net) = 0
    OBVIOUS
  <2> QED
    BY <2>1, <2>2, TimesZero
<1> HIDE DEF C, H, M, D
<1>4. Plus(Plus(C, H), Plus(D, M)) = Plus(C, Plus(H, Plus(D, M)))
  <2>1. Plus(D, M) \in Fractions
    BY <1>1, FractionTypes
  <2> QED
    BY <1>1, <2>1, PlusPlus
<1>5. Plus(H, Plus(D, M)) = Plus(Plus(H, D), M)
  BY <1>1, PlusPlus
<1>6. Plus(Whole(0), M) = M
  <2>1. Whole(0) \in Fractions
    BY FractionTypes
  <2> QED
    BY <1>1, <2>1, PlusSwap, PlusZero
<1>7. Plus(M, D) = Plus(D, M)
  BY <1>1, PlusSwap
<1>8. Plus(Plus(C, H), Plus(D, M)) = Plus(C, M)
  BY <1>3, <1>4, <1>5, <1>6
<1> QED
  BY <1>2, <1>7, <1>8 DEF C, H, M, D

LEMMA UnrealizedIs ==
  ASSUME NEW q, q.mark \in Marks, NEW m \in q.mark
  PROVE  Unrealized(q) = Times(q.net, Minus(m, q.avg))
<1> DEFINE U == {Times(q.net, Minus(x, q.avg)) : x \in q.mark}
           u == Times(q.net, Minus(m, q.avg))
<1>1. \A x \in q.mark : x = m
  BY DEF Marks
<1>2. U = {u}
  BY <1>1
<1> HIDE DEF u
<1>3. (CHOOSE x \in {u} : TRUE) = u
  OBVIOUS
<1> QED
  BY <1>2, <1>3 DEF Unrealized, u

(* The three parts of LedgerIsExact in terms of an account. *)
Exact(held) ==
  LET q == held.position
  IN /\ \A mark \in q.mark :
           Plus(q.realized, Unrealized(q)) = Plus(Whole(held.cash), Times(q.net, mark))
     /\ q.net = 0 => q.avg = Whole(0)
     /\ q.net # 0 => /\ AtMost(Whole(Min(held.entries)), q.avg)
                     /\ AtMost(q.avg, Whole(Max(held.entries)))

LEMMA LimitMoves ==
  ASSUME NEW a \in Fractions, NEW j \in Int, NEW k \in Int, j <= k
  PROVE  /\ AtMost(Whole(k), a) => AtMost(Whole(j), a)
         /\ AtMost(a, Whole(j)) => AtMost(a, Whole(k))
<1> DEFINE n == a[1]
           d == a[2]
<1>1. n \in Int /\ d \in Nat \ {0} /\ StandsFor(a, n, d)
  BY FractionParts
<1>2. /\ k * d <= n <=> AtMost(Whole(k), a)
      /\ j * d <= n <=> AtMost(Whole(j), a)
      /\ n <= j * d <=> AtMost(a, Whole(j))
      /\ n <= k * d <=> AtMost(a, Whole(k))
  BY <1>1, ValueAtLeast
<1>3. j * d <= k * d
  <2>1. d * j <= d * k
    BY <1>1, MulMore
  <2>2. d * j = j * d /\ d * k = k * d
    BY <1>1
  <2> QED
    BY <2>1, <2>2
<1> HIDE DEF n, d
<1>4. k * d \in Int /\ j * d \in Int
  BY <1>1
<1> QED
  BY <1>1, <1>2, <1>3, <1>4

LEMMA BalancedIsExact ==
  ASSUME NEW held \in Accounts
  PROVE  Exact(held)
<1> DEFINE q == held.position
           E == held.entries
<1>1. /\ q.net \in Int /\ q.avg \in Fractions /\ q.mark \in Marks /\ held.cash \in Int
      /\ E \in SUBSET Prices /\ E \in SUBSET (0..MaxPrice) /\ MaxPrice \in Nat
  BY MaxPriceAssumption DEF Accounts, Holdings, Position, Prices
<1>2. /\ q.realized = Plus(Whole(held.cash), Times(q.net, q.avg))
      /\ q.net = 0 => q.avg = Whole(0)
      /\ q.net # 0 => Between(q.avg, E)
  BY DEF Accounts, Balanced
<1>3. ASSUME NEW m \in q.mark
      PROVE  Plus(q.realized, Unrealized(q)) = Plus(Whole(held.cash), Times(q.net, m))
  <2>1. m \in Fractions
    BY <1>1 DEF Marks
  <2>2. Unrealized(q) = Times(q.net, Minus(m, q.avg))
    BY <1>1, UnrealizedIs
  <2> QED
    BY <1>1, <1>2, <2>1, <2>2, HoldingsAtMark
<1>4. ASSUME q.net # 0
      PROVE  AtMost(Whole(Min(E)), q.avg) /\ AtMost(q.avg, Whole(Max(E)))
  <2>1. PICK lo \in E, hi \in E : AtMost(Whole(lo), q.avg) /\ AtMost(q.avg, Whole(hi))
    BY <1>2, <1>4 DEF Between
  <2> HIDE DEF E
  <2>2. /\ Min(E) \in E /\ Min(E) <= lo
        /\ Max(E) \in E /\ hi <= Max(E)
    BY <1>1, MaxOfRange, MinOfRange
  <2>3. lo \in Int /\ hi \in Int /\ Min(E) \in Int /\ Max(E) \in Int
    <3>1. E \in SUBSET (0..MaxPrice)
      BY <1>1, Zenon
    <3>2. \A x \in E : x \in Int
      BY <3>1
    <3> QED
      BY <2>1, <2>2, <3>2
  <2> QED
    BY <1>1, <2>1, <2>2, <2>3, LimitMoves
<1> QED
  BY <1>2, <1>3, <1>4 DEF Exact

Account == [position |-> position, cash |-> cash, entries |-> entries]

LEMMA ExactLedger ==
  FillsAddUp /\ Account \in Accounts => LedgerIsExact
<1> SUFFICES ASSUME FillsAddUp, Account \in Accounts PROVE LedgerIsExact
  OBVIOUS
<1>1. Exact(Account)
  BY BalancedIsExact
<1> QED
  BY <1>1 DEF Exact, Account, LedgerIsExact, ProfitIsCashPlusHoldings, AverageIsAnEntryPrice

-----------------------------------------------------------------------------
(* The books follow the executor: a step books the fills of the execution  *)
(* it added, if it added one.                                              *)
LEMMA NewFillsAre ==
  ASSUME TypeOK', FillsTyped, FillsStep
  PROVE  /\ NewFills \in Seq(Fill)
         /\ \/ executions' = executions /\ NewFills = << >>
            \/ \E o \in DOMAIN orders', x \in Execution :
                  /\ executions' = Append(executions, x) /\ x.order = o
                  /\ NewFills = FillsOf(orders'[o].side, x)
<1>1. PICK o \in Nat : /\ IsAbout(o)
                       /\ \/ executions' = executions /\ orders'[o].filled = Filled(orders, o)
                          \/ \E x : Fills(o, x)
  BY DEF FillsStep
<1>2. executions \in Seq(Execution)
  BY DEF FillsTyped
<1>3. CASE executions' = executions
  <2>1. NewFills = << >>
    BY <1>3 DEF NewFills
  <2> QED
    BY <1>3, <2>1
<1>4. ASSUME NEW x, Fills(o, x)
      PROVE  /\ x \in Execution /\ o \in DOMAIN orders' /\ executions' = Append(executions, x)
             /\ x.order = o /\ NewFills = FillsOf(orders'[o].side, x)
             /\ NewFills \in Seq(Fill)
  <2>1. executions' = Append(executions, x) /\ x \in Execution /\ x.order = o
    BY <1>4 DEF Fills
  <2>2. o \in DOMAIN orders' /\ orders'[o] \in Order
    BY <1>1 DEF IsAbout, TypeOK
  <2>3. orders'[o].side \in Sides
    BY <2>2 DEF Order
  <2>4. Len(executions') # Len(executions) /\ Last(executions') = x
    BY <1>2, <2>1 DEF Last
  <2>5. NewFills = FillsOf(orders'[o].side, x)
    BY <2>1, <2>4 DEF NewFills
  <2>6. NewFills \in Seq(Fill)
    BY <2>1, <2>3, <2>5, FillsOfAre
  <2> QED
    BY <2>1, <2>2, <2>5, <2>6
<1> QED
  BY <1>1, <1>3, <1>4

LEMMA RecordsBalance ==
  ASSUME Account \in Accounts, NewFills \in Seq(Fill), RecordFills
  PROVE  /\ Account' \in Accounts
         /\ position'.fees = position.fees + SumOf(FeesIn(NewFills))
<1> DEFINE held == FoldLeft(Booked, Account, NewFills)
<1>1. /\ held \in Accounts
      /\ held.position.fees = Account.position.fees + SumOf(FeesIn(NewFills))
  BY BookedFold
<1>2. position' = held.position /\ cash' = held.cash /\ entries' = held.entries
  BY DEF RecordFills, Account
<1> HIDE DEF held
<1>3. held \in Holdings
  BY <1>1 DEF Accounts
<1>4. held = [position |-> position', cash |-> cash', entries |-> entries']
  BY <1>2, <1>3 DEF Holdings
<1> QED
  BY <1>1, <1>2, <1>4 DEF Account

LEMMA MarkBalances ==
  ASSUME Account \in Accounts, SetMark
  PROVE  Account' \in Accounts /\ position'.fees = position.fees
<1>1. PICK price \in {Whole(0), Ratio(MaxPrice, 2), Whole(MaxPrice)} :
           position' = Mark(position, price)
  BY DEF SetMark
<1>2. cash' = cash /\ entries' = entries
  BY DEF SetMark
<1>3. price \in Fractions
  <2>1. MaxPrice \in Int /\ 2 \in Nat \ {0} /\ 0 \in Int
    BY MaxPriceAssumption
  <2>2. Ratio(MaxPrice, 2) \in Fractions
    BY <2>1, RatioValue DEF StandsFor
  <2> QED
    BY <2>1, <2>2, FractionTypes
<1>4. position \in Position /\ cash \in Int /\ entries \in SUBSET Prices
  BY DEF Account, Accounts, Holdings
<1>5. /\ position' \in Position
      /\ position'.net = position.net /\ position'.avg = position.avg
      /\ position'.gross = position.gross /\ position'.realized = position.realized
      /\ position'.fees = position.fees
  <2>1. {price} \in Marks
    BY <1>3 DEF Marks
  <2>2. position' = [position EXCEPT !.mark = {price}]
    BY <1>1 DEF Mark
  <2> QED
    BY <1>4, <2>1, <2>2 DEF Position
<1>6. Account' \in Holdings
  BY <1>2, <1>4, <1>5 DEF Account, Holdings
<1>7. Balanced(Account')
  <2>1. Balanced(Account)
    BY DEF Accounts
  <2> QED
    BY <1>2, <1>5, <2>1 DEF Account, Balanced
<1> QED
  BY <1>5, <1>6, <1>7 DEF Accounts

LEMMA NewBalances == TradingInit => Account \in Accounts
<1> SUFFICES ASSUME TradingInit PROVE Account \in Accounts
  OBVIOUS
<1>1. position = NewPosition /\ cash = 0 /\ entries = {}
  BY DEF TradingInit
<1>2. Whole(0) \in Fractions
  BY FractionTypes
<1>3. NewPosition \in Position
  BY <1>2 DEF NewPosition, Position, Marks
<1>4. Account \in Holdings
  BY <1>1, <1>3 DEF Account, Holdings
<1>5. Balanced(Account)
  <2>1. Times(0, Whole(0)) = Whole(0) /\ Plus(Whole(0), Whole(0)) = Whole(0)
    BY <1>2, TimesZero, PlusZero
  <2> QED
    BY <1>1, <2>1 DEF Account, Balanced, NewPosition
<1> QED
  BY <1>4, <1>5 DEF Accounts

LEMMA TradesNext == Trades => Next /\ RecordFills
BY InstanceAssumption DEF Trades, OpenRecorded, Next

BooksInv == IInv /\ FillsInv /\ Account \in Accounts

LEMMA BooksKept == BooksInv /\ [ReportNext]_reportVars => BooksInv'
<1> SUFFICES ASSUME BooksInv, [ReportNext]_reportVars PROVE BooksInv'
  OBVIOUS
<1> USE DEF BooksInv
<1>1. [Next]_vars
  BY TradesNext DEF ReportNext, SetMark, reportVars, tradingVars
<1>2. IInv' /\ FillsInv'
  BY <1>1, NextInv, FillsNext
<1>3. CASE Trades
  <2>1. Next /\ RecordFills
    BY <1>3, TradesNext
  <2>2. NewFills \in Seq(Fill)
    BY <1>2, <2>1, NextFills, NewFillsAre DEF IInv, FillsInv
  <2> QED
    BY <1>2, <2>1, <2>2, RecordsBalance
<1>4. CASE SetMark
  BY <1>2, <1>4, MarkBalances
<1>5. CASE UNCHANGED reportVars
  BY <1>2, <1>5 DEF reportVars, tradingVars, Account
<1> QED
  BY <1>3, <1>4, <1>5 DEF ReportNext

LEMMA BooksInit == ReportInit => BooksInv
BY NewBalances, InitInv, FillsInit DEF ReportInit, TradingInit, BooksInv

-----------------------------------------------------------------------------
(* The audit trail.  What a step does to the statuses of the orders.       *)
With(s, status) == {o \in DOMAIN s : s[o].status = status}

LEMMA WithAppended ==
  ASSUME NEW s \in Seq(Order), NEW new \in Order, NEW status
  PROVE  /\ Cardinality(With(s, status)) \in Nat
         /\ Cardinality(With(Append(s, new), status))
              = Cardinality(With(s, status)) + (IF new.status = status THEN 1 ELSE 0)
<1> DEFINE n == Len(s) + 1
           t == Append(s, new)
<1>1. /\ DOMAIN s = 1..Len(s) /\ Len(s) \in Nat /\ DOMAIN t = 1..n /\ t[n] = new
      /\ \A o \in DOMAIN s : t[o] = s[o]
  OBVIOUS
<1> HIDE DEF t
<1>2. IsFiniteSet(With(s, status))
  <2>1. IsFiniteSet(DOMAIN s)
    BY <1>1, FS_Interval
  <2> QED
    BY <2>1, FS_Subset DEF With
<1>3. n \notin With(s, status)
  BY <1>1 DEF With
<1>4. With(t, status) = IF new.status = status THEN With(s, status) \cup {n} ELSE With(s, status)
  <2>1. \A o \in DOMAIN t : o \in DOMAIN s \/ o = n
    BY <1>1
  <2>2. DOMAIN s \subseteq DOMAIN t /\ n \in DOMAIN t
    BY <1>1
  <2> QED
    BY <1>1, <2>1, <2>2 DEF With
<1> HIDE DEF n
<1>5. Cardinality(With(s, status)) \in Nat
  BY <1>2, FS_CardinalityType
<1>6. Cardinality(With(s, status) \cup {n}) = Cardinality(With(s, status)) + 1
  BY <1>2, <1>3, FS_AddElement
<1> QED
  BY <1>4, <1>5, <1>6 DEF t

LEMMA WithReplaced ==
  ASSUME NEW s \in Seq(Order), NEW o \in DOMAIN s, NEW new, NEW status, s[o].status # status
  PROVE  Cardinality(With([s EXCEPT ![o] = new], status))
           = Cardinality(With(s, status)) + (IF new.status = status THEN 1 ELSE 0)
<1> DEFINE t == [s EXCEPT ![o] = new]
<1>1. /\ DOMAIN s = 1..Len(s) /\ Len(s) \in Nat /\ DOMAIN t = DOMAIN s /\ t[o] = new
      /\ \A x \in DOMAIN s : x # o => t[x] = s[x]
  OBVIOUS
<1> HIDE DEF t
<1>2. IsFiniteSet(With(s, status))
  <2>1. IsFiniteSet(DOMAIN s)
    BY <1>1, FS_Interval
  <2> QED
    BY <2>1, FS_Subset DEF With
<1>3. o \notin With(s, status)
  BY DEF With
<1>4. With(t, status) = IF new.status = status THEN With(s, status) \cup {o} ELSE With(s, status)
  BY <1>1 DEF With
<1>5. Cardinality(With(s, status)) \in Nat
  BY <1>2, FS_CardinalityType
<1>6. Cardinality(With(s, status) \cup {o}) = Cardinality(With(s, status)) + 1
  BY <1>2, <1>3, FS_AddElement
<1> QED
  BY <1>4, <1>5, <1>6 DEF t

Ending == {"Rejected", "Canceled", "Expired"}

(* A new order is opened, perhaps filled, or rejected. *)
LEMMA OpenedOrder ==
  ASSUME IInv, IInv', OpenRecorded
  PROVE  \E new \in Order : /\ orders' = Append(orders, new)
                            /\ new.status \notin {"Canceled", "Expired"}
<1>1. orders \in Seq(Order) /\ orders' \in Seq(Order)
  BY DEF IInv, TypeOK
<1>2. PICK new : orders' = Append(orders, new) /\ new.status \notin {"Canceled", "Expired"}
  <2>1. ASSUME NEW i \in Intents, RejectApproved(i)
        PROVE  \E new : orders' = Append(orders, new) /\ new.status \notin {"Canceled", "Expired"}
    BY <2>1 DEF RejectApproved, BuildOrder
  <2>2. ASSUME NEW i \in Intents, NEW book \in Books, OpenMaker(i, book)
        PROVE  \E new : orders' = Append(orders, new) /\ new.status \notin {"Canceled", "Expired"}
    BY <2>2 DEF OpenMaker, BuildOrder
  <2>3. ASSUME NEW i \in Intents, NEW book \in Books, OpenTaker(i, book)
        PROVE  \E new : orders' = Append(orders, new) /\ new.status \notin {"Canceled", "Expired"}
    <3> DEFINE taken == TakeFrom(BuildOrder(i, "Open"), NewId, book)
    <3>1. orders' = Append(orders, taken.order)
      BY <2>3 DEF OpenTaker
    <3>2. taken.order.status \in {"Open", "Filled", "PartiallyFilled"}
      BY DEF TakeFrom, Credited, BuildOrder
    <3> HIDE DEF taken
    <3> QED
      BY <3>1, <3>2
  <2> QED
    BY <2>1, <2>2, <2>3, InstanceAssumption DEF OpenRecorded, OpenPaperOrder, RejectIntent
<1>3. new \in Order
  <2>1. Len(orders) + 1 \in DOMAIN orders' /\ orders'[Len(orders) + 1] = new
    BY <1>1, <1>2
  <2> QED
    BY <1>1, <2>1
<1> QED
  BY <1>2, <1>3

(* A fill ends no order but as filled. *)
LEMMA FilledOrder ==
  ASSUME IInv, NEW o \in DOMAIN orders, NEW book \in Books, SimulateFill(o, book)
  PROVE  \E new : /\ orders' = [orders EXCEPT ![o] = new]
                  /\ new.status \notin Ending /\ orders[o].status \notin Ending
<1>1. orders[o] \in Order /\ orders[o].status \notin Ending
  BY DEF IInv, TypeOK, SimulateFill, SimulateMakerFill, SimulateTakerFill, CanSimulate, IsLive,
         TerminalStatuses, Ending
<1>2. ASSUME NEW more PROVE Credited(orders[o], more).status \notin Ending
  BY <1>1 DEF Credited, Order, Ending
<1>3. CASE SimulateMakerFill(o, book)
  <2>1. PICK new : /\ orders' = [orders EXCEPT ![o] = new]
                   /\ new = orders[o] \/ \E more : new = Credited(orders[o], more)
    BY <1>3 DEF SimulateMakerFill
  <2> QED
    BY <1>1, <1>2, <2>1
<1>4. CASE SimulateTakerFill(o, book)
  <2>1. orders' = [orders EXCEPT ![o] = TakeFrom(orders[o], o, book).order]
    BY <1>4 DEF SimulateTakerFill
  <2>2. \/ TakeFrom(orders[o], o, book).order = orders[o]
        \/ \E more : TakeFrom(orders[o], o, book).order = Credited(orders[o], more)
    BY DEF TakeFrom
  <2> QED
    BY <1>1, <1>2, <2>1, <2>2
<1> QED
  BY <1>3, <1>4 DEF SimulateFill

LEMMA ClosedOrder ==
  ASSUME IInv, NEW o \in DOMAIN orders, NEW status \in {"Canceled", "Expired"}, CloseAs(o, status)
  PROVE  \E new : /\ orders' = [orders EXCEPT ![o] = new] /\ new.status = status
                  /\ orders[o].status \notin Ending
<1>1. orders[o] \in Order /\ orders[o].status \notin Ending
  BY DEF IInv, TypeOK, CloseAs, IsLive, TerminalStatuses, Ending
<1>2. /\ orders' = [orders EXCEPT ![o] = [orders[o] EXCEPT !.status = status]]
      /\ [orders[o] EXCEPT !.status = status].status = status
  BY <1>1 DEF CloseAs, Order
<1> QED
  BY <1>1, <1>2

(* How often a kind of event is told. *)
Told(events, kind) == Cardinality({n \in DOMAIN events : events[n] = kind})

LEMMA ToldFills ==
  ASSUME NEW events \in Seq(AuditKinds \ {"FillSimulated"}), NEW new \in Seq(Fill), NEW kind
  PROVE  Told(events \o [n \in DOMAIN new |-> "FillSimulated"], kind)
           = IF kind = "FillSimulated" THEN Len(new) ELSE Told(events, kind)
<1> DEFINE more == [n \in DOMAIN new |-> "FillSimulated"]
           all == events \o more
           m == Len(events)
           k == Len(new)
<1>0. "FillSimulated" \in AuditKinds
  BY DEF AuditKinds
<1>1. /\ m \in Nat /\ k \in Nat /\ DOMAIN events = 1..m /\ DOMAIN new = 1..k
      /\ more \in Seq(AuditKinds) /\ Len(more) = k /\ events \in Seq(AuditKinds)
  BY <1>0
<1>2. /\ DOMAIN all = 1..(m + k)
      /\ \A n \in 1..m : all[n] = events[n] /\ all[n] # "FillSimulated"
      /\ \A n \in (m + 1)..(m + k) : all[n] = "FillSimulated"
  <2>1. DOMAIN all = 1..(m + k)
    BY <1>1
  <2>2. \A n \in 1..m : all[n] = events[n] /\ events[n] # "FillSimulated"
    BY <1>1
  <2>3. ASSUME NEW n \in (m + 1)..(m + k) PROVE all[n] = "FillSimulated"
    <3>1. n - m \in 1..k /\ n \in 1..(m + k) /\ ~ (n <= m)
      BY <1>1
    <3>2. all[n] = more[n - m]
      BY <1>1, <3>1
    <3> QED
      BY <1>1, <3>1, <3>2
  <2> QED
    BY <2>1, <2>2, <2>3
<1> HIDE DEF all, m, k, more
<1>3. CASE kind = "FillSimulated"
  <2>1. {n \in DOMAIN all : all[n] = kind} = (m + 1)..(m + k)
    BY <1>1, <1>2, <1>3
  <2>2. Cardinality((m + 1)..(m + k)) = k
    <3>1. Cardinality((m + 1)..(m + k)) = IF m + 1 > m + k THEN 0 ELSE (m + k) - (m + 1) + 1
      BY <1>1, FS_Interval
    <3> QED
      BY <1>1, <3>1
  <2> QED
    BY <1>3, <2>1, <2>2 DEF Told, all, more, k
<1>4. CASE kind # "FillSimulated"
  <2>1. {n \in DOMAIN all : all[n] = kind} = {n \in DOMAIN events : events[n] = kind}
    <3>1. \A n \in 1..(m + k) : n \in 1..m \/ n \in (m + 1)..(m + k)
      BY <1>1
    <3>2. 1..m \subseteq 1..(m + k)
      BY <1>1
    <3> QED
      BY <1>1, <1>2, <1>4, <3>1, <3>2
  <2> QED
    BY <1>4, <2>1 DEF Told, all, more
<1> QED
  BY <1>3, <1>4

LEMMA ToldOnce ==
  /\ \A kind : Told(<< >>, kind) = 0
  /\ \A a, kind : Told(<<a>>, kind) = IF kind = a THEN 1 ELSE 0
  /\ \A a, b, kind : a # b => Told(<<a, b>>, kind) = IF kind \in {a, b} THEN 1 ELSE 0
<1>1. ASSUME NEW kind PROVE Told(<< >>, kind) = 0
  <2>1. {n \in DOMAIN << >> : << >>[n] = kind} = {}
    OBVIOUS
  <2> QED
    BY <2>1, FS_EmptySet DEF Told
<1>2. \A x : Cardinality({x}) = 1 /\ Cardinality({}) = 0
  BY FS_Singleton, FS_EmptySet
<1>3. ASSUME NEW a, NEW kind PROVE Told(<<a>>, kind) = IF kind = a THEN 1 ELSE 0
  <2>1. {n \in DOMAIN <<a>> : <<a>>[n] = kind} = IF kind = a THEN {1} ELSE {}
    OBVIOUS
  <2> QED
    BY <1>2, <2>1 DEF Told
<1>4. ASSUME NEW a, NEW b, NEW kind, a # b
      PROVE  Told(<<a, b>>, kind) = IF kind \in {a, b} THEN 1 ELSE 0
  <2>1. {n \in DOMAIN <<a, b>> : <<a, b>>[n] = kind}
          = IF kind = a THEN {1} ELSE IF kind = b THEN {2} ELSE {}
    BY <1>4
  <2> QED
    BY <1>2, <2>1 DEF Told
<1> QED
  BY <1>1, <1>3, <1>4

LEMMA RecordedIs ==
  ASSUME NEW events \in Seq(AuditKinds \ {"FillSimulated"}), NewFills \in Seq(Fill),
         audits \in [AuditKinds -> Int], Recorded(events)
  PROVE  /\ fills' = fills \o NewFills
         /\ audits' \in [AuditKinds -> Int]
         /\ audits'["FillSimulated"] = audits["FillSimulated"] + Len(NewFills)
         /\ \A kind \in AuditKinds \ {"FillSimulated"} :
               audits'[kind] = audits[kind] + Told(events, kind)
<1> DEFINE more == [n \in DOMAIN NewFills |-> "FillSimulated"]
<1>1. fills' = fills \o NewFills /\ audits' = Counted(Extended(events, more))
  BY DEF Recorded
<1>2. \A kind : Told(events \o more, kind)
                  = IF kind = "FillSimulated" THEN Len(NewFills) ELSE Told(events, kind)
  BY ToldFills
<1> HIDE DEF more
<1>3. audits' = [kind \in AuditKinds |-> audits[kind] + Told(events \o more, kind)]
  BY <1>1 DEF Counted, Extended, Told
<1>4. \A kind \in AuditKinds : audits'[kind] = audits[kind] + Told(events \o more, kind)
  BY <1>3
<1>5. \A kind \in AuditKinds : Told(events \o more, kind) \in Int
  <2>1. events \o more \in Seq(AuditKinds)
    BY DEF more, AuditKinds
  <2>2. IsFiniteSet(DOMAIN (events \o more))
    <3>1. \A s \in Seq(AuditKinds) : Len(s) \in Int /\ DOMAIN s = 1..Len(s)
      OBVIOUS
    <3> QED
      BY <2>1, <3>1, FS_Interval
  <2> DEFINE all == events \o more
  <2>3. IsFiniteSet(DOMAIN all)
    BY <2>2
  <2> HIDE DEF all
  <2>4. \A kind : Told(all, kind) \in Nat
    <3> SUFFICES ASSUME NEW kind PROVE Told(all, kind) \in Nat
      OBVIOUS
    <3>1. IsFiniteSet({n \in DOMAIN all : all[n] = kind})
      BY <2>3, FS_Subset
    <3> QED
      BY <3>1, FS_CardinalityType DEF Told
  <2> QED
    BY <2>4 DEF all
<1>6. \A kind \in AuditKinds : audits'[kind] \in Int
  BY <1>4, <1>5
<1>7. audits' \in [AuditKinds -> Int]
  BY <1>3, <1>6
<1>8. "FillSimulated" \in AuditKinds
  BY DEF AuditKinds
<1> QED
  BY <1>1, <1>2, <1>4, <1>7, <1>8

AuditTrailIs(count, s, trail, told) ==
  /\ trail["OrderCreated"] = count
  /\ trail["OrderOpened"] + trail["OrderRejected"] = trail["OrderCreated"]
  /\ trail["OrderRejected"] = Cardinality(With(s, "Rejected"))
  /\ trail["OrderCanceled"] = Cardinality(With(s, "Canceled"))
  /\ trail["OrderExpired"] = Cardinality(With(s, "Expired"))
  /\ trail["FillSimulated"] = told

LEMMA AuditTrailIsTrue ==
  /\ AuditTrailTellsTheOrders <=> AuditTrailIs(Len(orders), orders, audits, Len(fills))
  /\ AuditTrailTellsTheOrders' <=> AuditTrailIs(Len(orders'), orders', audits', Len(fills'))
BY DEF AuditTrailTellsTheOrders, AuditTrailIs, StatusCount, With

LEMMA AuditKept ==
  ASSUME IInv, IInv', NewFills \in Seq(Fill), audits \in [AuditKinds -> Int],
         fills \in Seq(Fill), AuditTrailTellsTheOrders, Trades
  PROVE  audits' \in [AuditKinds -> Int] /\ fills' = fills \o NewFills /\ AuditTrailTellsTheOrders'
<1>1. orders \in Seq(Order) /\ orders' \in Seq(Order) /\ Len(orders) \in Nat
  BY DEF IInv, TypeOK
<1>2. /\ audits["OrderCreated"] = Len(orders)
      /\ audits["OrderOpened"] + audits["OrderRejected"] = audits["OrderCreated"]
      /\ audits["OrderRejected"] = Cardinality(With(orders, "Rejected"))
      /\ audits["OrderCanceled"] = Cardinality(With(orders, "Canceled"))
      /\ audits["OrderExpired"] = Cardinality(With(orders, "Expired"))
      /\ audits["FillSimulated"] = Len(fills)
      /\ \A kind \in AuditKinds : audits[kind] \in Int
  BY AuditTrailIsTrue DEF AuditTrailIs
<1>3. Len(fills \o NewFills) = Len(fills) + Len(NewFills)
  OBVIOUS
<1>4. CASE OpenRecorded
  <2>1. PICK new \in Order : /\ orders' = Append(orders, new)
                             /\ new.status \notin {"Canceled", "Expired"}
    BY <1>4, OpenedOrder
  <2> DEFINE second == IF new.status = "Rejected" THEN "OrderRejected" ELSE "OrderOpened"
             events == <<"OrderCreated", second>>
  <2>2. Len(orders') = Len(orders) + 1 /\ Last(orders') = new
    BY <1>1, <2>1 DEF Last
  <2>3. Recorded(events)
    BY <1>4, <2>2 DEF OpenRecorded
  <2>4. /\ second \in {"OrderRejected", "OrderOpened"}
        /\ events \in Seq(AuditKinds \ {"FillSimulated"})
    BY DEF AuditKinds
  <2>5. \A kind : Told(events, kind) = IF kind \in {"OrderCreated", second} THEN 1 ELSE 0
    BY <2>4, ToldOnce
  <2>6. \A status : Cardinality(With(orders', status))
                      = Cardinality(With(orders, status)) + (IF new.status = status THEN 1 ELSE 0)
    BY <1>1, <2>1, WithAppended
  <2> HIDE DEF events
  <2>7. /\ fills' = fills \o NewFills /\ audits' \in [AuditKinds -> Int]
        /\ audits'["FillSimulated"] = audits["FillSimulated"] + Len(NewFills)
        /\ \A kind \in AuditKinds \ {"FillSimulated"} :
              audits'[kind] = audits[kind] + Told(events, kind)
    BY <2>3, <2>4, RecordedIs
  <2>8. /\ audits'["OrderCreated"] = audits["OrderCreated"] + 1
        /\ audits'["OrderOpened"] = audits["OrderOpened"]
                                      + (IF new.status = "Rejected" THEN 0 ELSE 1)
        /\ audits'["OrderRejected"] = audits["OrderRejected"]
                                        + (IF new.status = "Rejected" THEN 1 ELSE 0)
        /\ audits'["OrderCanceled"] = audits["OrderCanceled"]
        /\ audits'["OrderExpired"] = audits["OrderExpired"]
    <3>1. \A kind \in AuditKinds \ {"FillSimulated"} :
             audits'[kind] = audits[kind] + (IF kind \in {"OrderCreated", second} THEN 1 ELSE 0)
      BY <2>5, <2>7
    <3>2. \A kind \in AuditKinds : audits[kind] \in Int
      BY <1>2
    <3>3. CASE new.status = "Rejected"
      <4>1. second = "OrderRejected"
        BY <3>3
      <4> HIDE DEF second
      <4> QED
        BY <3>1, <3>2, <3>3, <4>1 DEF AuditKinds
    <3>4. CASE new.status # "Rejected"
      <4>1. second = "OrderOpened"
        BY <3>4
      <4> HIDE DEF second
      <4> QED
        BY <3>1, <3>2, <3>4, <4>1 DEF AuditKinds
    <3> QED
      BY <3>3, <3>4
  <2>9. /\ Cardinality(With(orders', "Rejected")) = audits'["OrderRejected"]
        /\ Cardinality(With(orders', "Canceled")) = audits'["OrderCanceled"]
        /\ Cardinality(With(orders', "Expired")) = audits'["OrderExpired"]
    BY <1>2, <2>1, <2>6, <2>8 DEF AuditKinds
  <2>10. audits'["OrderOpened"] + audits'["OrderRejected"] = audits'["OrderCreated"]
    BY <1>2, <2>8 DEF AuditKinds
  <2>11. AuditTrailIs(Len(orders'), orders', audits', Len(fills'))
    BY <1>2, <1>3, <2>2, <2>7, <2>8, <2>9, <2>10 DEF AuditTrailIs
  <2> QED
    BY <2>7, <2>11, AuditTrailIsTrue
<1>5. ASSUME NEW o \in DOMAIN orders, NEW book \in Books, SimulateFill(o, book), Recorded(<< >>)
      PROVE  audits' \in [AuditKinds -> Int] /\ fills' = fills \o NewFills /\ AuditTrailTellsTheOrders'
  <2>1. PICK new : /\ orders' = [orders EXCEPT ![o] = new]
                   /\ new.status \notin Ending /\ orders[o].status \notin Ending
    BY <1>5, FilledOrder
  <2>2. \A status \in Ending : Cardinality(With(orders', status)) = Cardinality(With(orders, status)) + 0
    <3> SUFFICES ASSUME NEW status \in Ending
                 PROVE  Cardinality(With(orders', status)) = Cardinality(With(orders, status)) + 0
      OBVIOUS
    <3>1. orders[o].status # status /\ new.status # status
      BY <2>1
    <3>2. Cardinality(With([orders EXCEPT ![o] = new], status))
            = Cardinality(With(orders, status)) + (IF new.status = status THEN 1 ELSE 0)
      BY <1>1, <3>1, WithReplaced, SMTT(60)
    <3> QED
      BY <2>1, <3>1, <3>2
  <2>3. << >> \in Seq(AuditKinds \ {"FillSimulated"})
    OBVIOUS
  <2>4. /\ fills' = fills \o NewFills /\ audits' \in [AuditKinds -> Int]
        /\ audits'["FillSimulated"] = audits["FillSimulated"] + Len(NewFills)
        /\ \A kind \in AuditKinds \ {"FillSimulated"} : audits'[kind] = audits[kind] + 0
    <3>1. \A kind : Told(<< >>, kind) = 0
      BY ToldOnce
    <3>2. /\ fills' = fills \o NewFills /\ audits' \in [AuditKinds -> Int]
          /\ audits'["FillSimulated"] = audits["FillSimulated"] + Len(NewFills)
          /\ \A kind \in AuditKinds \ {"FillSimulated"} :
                audits'[kind] = audits[kind] + Told(<< >>, kind)
      BY <1>5, <2>3, RecordedIs
    <3> QED
      BY <3>1, <3>2
  <2>5. Len(orders') = Len(orders)
    BY <1>1, <2>1
  <2>6. AuditTrailIs(Len(orders'), orders', audits', Len(fills'))
    BY <1>2, <1>3, <2>2, <2>4, <2>5, SMTT(60) DEF AuditTrailIs, AuditKinds, Ending
  <2> QED
    BY <2>4, <2>6, AuditTrailIsTrue
<1>6. ASSUME NEW o \in DOMAIN orders, NEW outcome \in {"Canceled", "Expired"}, CloseAs(o, outcome),
             NEW event, event = (IF outcome = "Canceled" THEN "OrderCanceled" ELSE "OrderExpired"),
             Recorded(<<event>>)
      PROVE  audits' \in [AuditKinds -> Int] /\ fills' = fills \o NewFills /\ AuditTrailTellsTheOrders'
  <2>1. PICK new : /\ orders' = [orders EXCEPT ![o] = new] /\ new.status = outcome
                   /\ orders[o].status \notin Ending
    BY <1>6, ClosedOrder
  <2>2. \A ending \in Ending : Cardinality(With(orders', ending))
                            = Cardinality(With(orders, ending)) + (IF outcome = ending THEN 1 ELSE 0)
    <3> SUFFICES ASSUME NEW ending \in Ending
                 PROVE  Cardinality(With(orders', ending))
                          = Cardinality(With(orders, ending)) + (IF outcome = ending THEN 1 ELSE 0)
      OBVIOUS
    <3>1. orders[o].status # ending
      BY <2>1
    <3>2. Cardinality(With([orders EXCEPT ![o] = new], ending))
            = Cardinality(With(orders, ending)) + (IF new.status = ending THEN 1 ELSE 0)
      <4>1. CASE new.status = ending
        BY <1>1, <3>1, <4>1, WithReplaced
      <4>2. CASE new.status # ending
        BY <1>1, <3>1, <4>2, WithReplaced, SMTT(60)
      <4> QED
        BY <4>1, <4>2
    <3> QED
      BY <2>1, <3>2
  <2>3. event \in AuditKinds \ {"FillSimulated"} /\ <<event>> \in Seq(AuditKinds \ {"FillSimulated"})
    BY <1>6 DEF AuditKinds
  <2>4. /\ fills' = fills \o NewFills /\ audits' \in [AuditKinds -> Int]
        /\ audits'["FillSimulated"] = audits["FillSimulated"] + Len(NewFills)
        /\ \A kind \in AuditKinds \ {"FillSimulated"} :
              audits'[kind] = audits[kind] + (IF kind = event THEN 1 ELSE 0)
    <3> DEFINE events == <<event>>
    <3>1. \A kind : Told(events, kind) = IF kind = event THEN 1 ELSE 0
      BY ToldOnce
    <3>2. events \in Seq(AuditKinds \ {"FillSimulated"}) /\ Recorded(events)
      BY <1>6, <2>3
    <3> HIDE DEF events
    <3>3. /\ fills' = fills \o NewFills /\ audits' \in [AuditKinds -> Int]
          /\ audits'["FillSimulated"] = audits["FillSimulated"] + Len(NewFills)
          /\ \A kind \in AuditKinds \ {"FillSimulated"} :
                audits'[kind] = audits[kind] + Told(events, kind)
      BY <3>2, RecordedIs
    <3> QED
      BY <3>1, <3>3
  <2>5. Len(orders') = Len(orders)
    BY <1>1, <2>1
  <2>6. AuditTrailIs(Len(orders'), orders', audits', Len(fills'))
    <3>1. /\ audits'["OrderCreated"] = audits["OrderCreated"]
          /\ audits'["OrderOpened"] = audits["OrderOpened"]
          /\ audits'["OrderRejected"] = audits["OrderRejected"]
      BY <1>2, <1>6, <2>4, SMTT(60) DEF AuditKinds
    <3>2. Cardinality(With(orders', "Rejected")) = audits'["OrderRejected"]
      BY <1>2, <2>2, <3>1 DEF AuditKinds, Ending
    <3>3. /\ Cardinality(With(orders', "Canceled")) = audits'["OrderCanceled"]
          /\ Cardinality(With(orders', "Expired")) = audits'["OrderExpired"]
      <4>1. CASE outcome = "Canceled"
        BY <1>2, <1>6, <2>2, <2>4, <4>1 DEF AuditKinds, Ending
      <4>2. CASE outcome = "Expired"
        BY <1>2, <1>6, <2>2, <2>4, <4>2 DEF AuditKinds, Ending
      <4> QED
        BY <4>1, <4>2
    <3>4. audits'["FillSimulated"] = Len(fills')
      BY <1>2, <1>3, <2>4
    <3> QED
      BY <1>2, <2>5, <3>1, <3>2, <3>3, <3>4 DEF AuditTrailIs
  <2> QED
    BY <2>4, <2>6, AuditTrailIsTrue
<1> QED
  BY <1>4, <1>5, <1>6, InstanceAssumption DEF Trades, CancelOrder, ExpireOrder

-----------------------------------------------------------------------------
(* The sums of the report. *)
SizesIn(s) == [n \in DOMAIN s |-> Magnitude(s[n].size)]

LEMMA ConcatIs ==
  ASSUME NEW a \in Seq(Int), NEW b \in Seq(Int), NEW c \in Seq(Int),
         Len(c) = Len(a) + Len(b), \A n \in 1..Len(a) : c[n] = a[n],
         \A n \in 1..Len(b) : c[Len(a) + n] = b[n]
  PROVE  c = a \o b
<1>1. Len(a) \in Nat /\ Len(b) \in Nat
  OBVIOUS
<1>2. a \o b \in Seq(Int) /\ Len(a \o b) = Len(a) + Len(b)
  OBVIOUS
<1>3. ASSUME NEW n \in 1..(Len(a) + Len(b)) PROVE c[n] = (a \o b)[n]
  <2>1. CASE n <= Len(a)
    <3>1. n \in 1..Len(a)
      BY <1>1, <2>1
    <3>2. (a \o b)[n] = a[n]
      BY <1>1, <2>1
    <3> QED
      BY <3>1, <3>2
  <2>2. CASE ~ (n <= Len(a))
    <3>1. n - Len(a) \in 1..Len(b) /\ Len(a) + (n - Len(a)) = n
      BY <1>1, <2>2
    <3>2. (a \o b)[n] = b[n - Len(a)]
      BY <1>1, <2>2
    <3> QED
      BY <3>1, <3>2
  <2> QED
    BY <2>1, <2>2
<1> DEFINE d == a \o b
<1>4. d \in Seq(Int) /\ Len(d) = Len(c) /\ \A n \in 1..Len(c) : c[n] = d[n]
  BY <1>2, <1>3
<1> HIDE DEF d
<1>5. c = d
  BY <1>4
<1> QED
  BY <1>5 DEF d

LEMMA AmountsIn ==
  ASSUME NEW s \in Seq(Fill), NEW t \in Seq(Fill)
  PROVE  /\ FeesIn(s) \in Seq(Int) /\ SizesIn(s) \in Seq(Int)
         /\ FeesIn(s \o t) = FeesIn(s) \o FeesIn(t)
         /\ SizesIn(s \o t) = SizesIn(s) \o SizesIn(t)
<1>1. \A f \in Fill : f.fee \in Int /\ Magnitude(f.size) \in Int
  BY DEF Fill, Magnitude
<1>2. ASSUME NEW u \in Seq(Fill) PROVE FeesIn(u) \in Seq(Int) /\ SizesIn(u) \in Seq(Int)
  <2>1. DOMAIN u = 1..Len(u) /\ Len(u) \in Nat /\ \A n \in DOMAIN u : u[n] \in Fill
    OBVIOUS
  <2> QED
    BY <1>1, <2>1 DEF FeesIn, SizesIn
<1> DEFINE u == s \o t
<1>4. /\ u \in Seq(Fill) /\ Len(u) = Len(s) + Len(t)
      /\ \A n \in 1..Len(s) : u[n] = s[n] /\ n \in DOMAIN u /\ n \in DOMAIN s
      /\ \A n \in 1..Len(t) : u[Len(s) + n] = t[n] /\ Len(s) + n \in DOMAIN u /\ n \in DOMAIN t
  OBVIOUS
<1> HIDE DEF u
<1>5. \A v \in Seq(Fill) : Len(FeesIn(v)) = Len(v) /\ Len(SizesIn(v)) = Len(v)
  <2> SUFFICES ASSUME NEW v \in Seq(Fill)
               PROVE  Len(FeesIn(v)) = Len(v) /\ Len(SizesIn(v)) = Len(v)
    OBVIOUS
  <2>1. DOMAIN v = 1..Len(v) /\ Len(v) \in Nat
    OBVIOUS
  <2>2. DOMAIN FeesIn(v) = 1..Len(v) /\ DOMAIN SizesIn(v) = 1..Len(v)
    BY <2>1 DEF FeesIn, SizesIn
  <2>3. FeesIn(v) \in Seq(Int) /\ SizesIn(v) \in Seq(Int)
    BY <1>2
  <2> QED
    BY <2>1, <2>2, <2>3
<1>6. FeesIn(u) = FeesIn(s) \o FeesIn(t)
  <2> DEFINE a == FeesIn(s)
             b == FeesIn(t)
             c == FeesIn(u)
  <2>1. a \in Seq(Int) /\ b \in Seq(Int) /\ c \in Seq(Int)
    BY <1>2, <1>4
  <2>2. Len(a) = Len(s) /\ Len(b) = Len(t) /\ Len(c) = Len(a) + Len(b)
    BY <1>4, <1>5
  <2>3. \A n \in 1..Len(s) : c[n] = a[n]
    BY <1>4 DEF FeesIn
  <2>4. \A n \in 1..Len(t) : c[Len(s) + n] = b[n]
    BY <1>4 DEF FeesIn
  <2> HIDE DEF a, b, c
  <2>5. c = a \o b
    <3>1. \A n \in 1..Len(a) : c[n] = a[n]
      BY <2>2, <2>3
    <3>2. \A n \in 1..Len(b) : c[Len(a) + n] = b[n]
      BY <2>2, <2>4
    <3>3. Len(c) = Len(a) + Len(b)
      BY <2>2
    <3> QED
      BY <2>1, <3>1, <3>2, <3>3, ConcatIs
  <2> QED
    BY <2>5 DEF a, b, c
<1>7. SizesIn(u) = SizesIn(s) \o SizesIn(t)
  <2> DEFINE a == SizesIn(s)
             b == SizesIn(t)
             c == SizesIn(u)
  <2>1. a \in Seq(Int) /\ b \in Seq(Int) /\ c \in Seq(Int)
    BY <1>2, <1>4
  <2>2. Len(a) = Len(s) /\ Len(b) = Len(t) /\ Len(c) = Len(a) + Len(b)
    BY <1>4, <1>5
  <2>3. \A n \in 1..Len(s) : c[n] = a[n]
    BY <1>4 DEF SizesIn
  <2>4. \A n \in 1..Len(t) : c[Len(s) + n] = b[n]
    BY <1>4 DEF SizesIn
  <2> HIDE DEF a, b, c
  <2>5. c = a \o b
    <3>1. \A n \in 1..Len(a) : c[n] = a[n]
      BY <2>2, <2>3
    <3>2. \A n \in 1..Len(b) : c[Len(a) + n] = b[n]
      BY <2>2, <2>4
    <3>3. Len(c) = Len(a) + Len(b)
      BY <2>2
    <3> QED
      BY <2>1, <3>1, <3>2, <3>3, ConcatIs
  <2> QED
    BY <2>5 DEF a, b, c
<1>3. FeesIn(s \o t) = FeesIn(s) \o FeesIn(t) /\ SizesIn(s \o t) = SizesIn(s) \o SizesIn(t)
  BY <1>6, <1>7 DEF u
<1> QED
  BY <1>2, <1>3

LEMMA FeesGrow ==
  ASSUME NEW s \in Seq(Fill), NEW t \in Seq(Fill)
  PROVE  SumOf(FeesIn(s \o t)) = SumOf(FeesIn(s)) + SumOf(FeesIn(t))
BY AmountsIn, SumOfConcat

LEMMA SizesGrow ==
  ASSUME NEW s \in Seq(Fill), NEW t \in Seq(Fill)
  PROVE  SumOf(SizesIn(s \o t)) = SumOf(SizesIn(s)) + SumOf(SizesIn(t))
BY AmountsIn, SumOfConcat

(* What the orders have filled in all. *)
FilledSizes(s) == [o \in DOMAIN s |-> s[o].filled]
FilledInAll(s) == SumFunctionOnSet(FilledSizes(s), DOMAIN s)

(* Only order o of s changed, and it filled more. *)
FilledMore(s, t, o, more) ==
  /\ s \in Seq(Order) /\ t \in Seq(Order) /\ more \in Int
  /\ DOMAIN t = DOMAIN s \cup {o} /\ \A y \in DOMAIN s : y # o => t[y] = s[y]
  /\ t[o].filled = Filled(s, o) + more

LEMMA InSeq ==
  ASSUME NEW S, NEW q \in Seq(S), NEW n \in DOMAIN q
  PROVE  q[n] \in S
OBVIOUS

LEMMA FilledGrows ==
  ASSUME NEW s, NEW t, NEW o, NEW more, FilledMore(s, t, o, more)
  PROVE  FilledInAll(t) = FilledInAll(s) + more
<1> DEFINE f == FilledSizes(s)
           g == FilledSizes(t)
           D == DOMAIN s
           E == D \ {o}
<1>0. /\ s \in Seq(Order) /\ t \in Seq(Order) /\ more \in Int
      /\ DOMAIN t = DOMAIN s \cup {o} /\ \A y \in DOMAIN s : y # o => t[y] = s[y]
      /\ t[o].filled = Filled(s, o) + more
  BY DEF FilledMore
<1>1. \A order \in Order : order.filled \in Int
  BY DEF Order
<1>2. /\ \A x \in D : s[x] \in Order /\ f[x] = s[x].filled /\ f[x] \in Int
      /\ \A x \in D \cup {o} : t[x] \in Order /\ g[x] = t[x].filled /\ g[x] \in Int
  <2>0. s \in Seq(Order) /\ t \in Seq(Order)
    BY <1>0
  <2>1. \A x \in D : s[x] \in Order /\ f[x] = s[x].filled
    BY <2>0, InSeq DEF FilledSizes
  <2>2. \A x \in DOMAIN t : g[x] = t[x].filled
    BY DEF FilledSizes
  <2>3. \A x \in DOMAIN t : t[x] \in Order
    BY <2>0, InSeq
  <2> QED
    BY <1>0, <1>1, <2>1, <2>2, <2>3
<1>3. IsFiniteSet(D) /\ IsFiniteSet(E)
  <2>1. DOMAIN s = 1..Len(s) /\ Len(s) \in Int
    <3>1. s \in Seq(Order)
      BY <1>0
    <3> QED
      BY <3>1
  <2>2. IsFiniteSet(D)
    BY <2>1, FS_Interval
  <2> HIDE DEF D
  <2> QED
    BY <2>2, FS_Subset
<1>4. SumFunctionOnSet(f, E) = SumFunctionOnSet(g, E) /\ SumFunctionOnSet(f, E) \in Int
  <2>1. \A x \in E : f[x] \in Int /\ f[x] = g[x]
    BY <1>0, <1>2
  <2> HIDE DEF E, f, g
  <2> QED
    BY <1>3, <2>1, SumSame, SumType
<1>5. o \notin E /\ (D \cup {o}) = E \cup {o} /\ \A x \in E \cup {o} : g[x] \in Int
  BY <1>2
<1>6. o \in D => D = E \cup {o} /\ \A x \in E \cup {o} : f[x] \in Int
  BY <1>2
<1>7. o \notin D => D = E
  OBVIOUS
<1>8. g[o] = Filled(s, o) + more /\ (o \in D => f[o] = Filled(s, o) /\ f[o] \in Int)
  BY <1>0, <1>2 DEF Filled
<1>9. FilledInAll(t) = SumFunctionOnSet(g, D \cup {o}) /\ FilledInAll(s) = SumFunctionOnSet(f, D)
  BY <1>0 DEF FilledInAll
<1>10. Filled(s, o) = IF o \in D THEN f[o] ELSE 0
  BY <1>8 DEF Filled
<1> HIDE DEF E, D, f, g
<1>11. SumFunctionOnSet(g, E \cup {o}) = SumFunctionOnSet(g, E) + g[o]
  <2>1. IsFiniteSet(E \cup {o})
    BY <1>3, FS_AddElement
  <2>2. o \notin E /\ Summable(g, E \cup {o})
    BY <1>5, <2>1 DEF Summable
  <2> QED
    BY <2>2, SumOneMore
<1>12. CASE o \in D
  <2>1. SumFunctionOnSet(f, E \cup {o}) = SumFunctionOnSet(f, E) + f[o]
    <3>1. IsFiniteSet(E \cup {o})
      BY <1>3, FS_AddElement
    <3>2. o \notin E /\ Summable(f, E \cup {o})
      BY <1>5, <1>6, <1>12, <3>1 DEF Summable
    <3> QED
      BY <3>2, SumOneMore
  <2>2. /\ FilledInAll(s) = SumFunctionOnSet(f, E) + f[o]
        /\ FilledInAll(t) = SumFunctionOnSet(f, E) + g[o]
    BY <1>4, <1>5, <1>6, <1>9, <1>11, <1>12, <2>1
  <2>3. g[o] = f[o] + more /\ f[o] \in Int
    BY <1>8, <1>12
  <2> QED
    BY <1>0, <1>4, <2>2, <2>3
<1>13. CASE o \notin D
  BY <1>0, <1>4, <1>5, <1>7, <1>8, <1>9, <1>10, <1>11, <1>13
<1> QED
  BY <1>12, <1>13

LEMMA SizesFollow ==
  ASSUME IInv, IInv', FillsTyped, FillsStep
  PROVE  FilledInAll(orders') = FilledInAll(orders) + SumOf(SizesIn(NewFills))
<1>1. PICK o \in Nat : /\ IsAbout(o)
                       /\ \/ executions' = executions /\ orders'[o].filled = Filled(orders, o)
                          \/ \E x : Fills(o, x)
  BY DEF FillsStep
<1>2. /\ orders \in Seq(Order) /\ orders' \in Seq(Order) /\ executions \in Seq(Execution)
      /\ DOMAIN orders' = DOMAIN orders \cup {o}
      /\ \A x \in DOMAIN orders : x # o => orders'[x] = orders[x]
      /\ o \in DOMAIN orders' /\ orders'[o] \in Order /\ orders'[o].side \in Sides
  <2>1. /\ orders \in Seq(Order) /\ orders' \in Seq(Order) /\ executions \in Seq(Execution)
        /\ DOMAIN orders' = DOMAIN orders \cup {o} /\ o \in DOMAIN orders'
        /\ \A x \in DOMAIN orders : x # o => orders'[x] = orders[x]
    BY <1>1 DEF IInv, TypeOK, FillsTyped, IsAbout
  <2>2. orders'[o] \in Order
    <3>1. orders' \in Seq(Order) /\ o \in DOMAIN orders'
      BY <2>1
    <3> QED
      BY <3>1
  <2>3. orders'[o].side \in Sides
    BY <2>2 DEF Order
  <2> QED
    BY <2>1, <2>2, <2>3
<1>3. Filled(orders, o) \in Int
  <2>1. o \in DOMAIN orders => orders[o] \in Order
    BY <1>2
  <2>2. \A order \in Order : order.filled \in Int
    BY DEF Order
  <2> QED
    BY <2>1, <2>2 DEF Filled
<1>4. CASE executions' = executions /\ orders'[o].filled = Filled(orders, o)
  <2>1. SizesIn(NewFills) = << >>
    BY <1>4 DEF NewFills, SizesIn
  <2>2. SumOf(<< >>) = 0
    BY SumEmpty DEF SumOf
  <2>3. orders'[o].filled = Filled(orders, o) + 0
    BY <1>3, <1>4
  <2>4. FilledMore(orders, orders', o, 0)
    BY <1>2, <2>3 DEF FilledMore
  <2>5. FilledInAll(orders') = FilledInAll(orders) + 0
    BY <2>4, FilledGrows
  <2> QED
    BY <2>1, <2>2, <2>5
<1>5. ASSUME NEW x, Fills(o, x)
      PROVE  FilledInAll(orders') = FilledInAll(orders) + SumOf(SizesIn(NewFills))
  <2>1. /\ executions' = Append(executions, x) /\ x \in Execution /\ x.order = o
        /\ orders'[o].filled = Filled(orders, o) + SumLevels(x.by, Prices)
    BY <1>5 DEF Fills
  <2>2. NewFills = FillsOf(orders'[o].side, x)
    <3>1. Len(executions') # Len(executions) /\ Last(executions') = x
      BY <1>2, <2>1 DEF Last
    <3> QED
      BY <2>1, <3>1 DEF NewFills
  <2>3. SumOf(SizesIn(NewFills)) = SumLevels(x.by, Prices)
    BY <1>2, <2>1, <2>2, FillsOfAre DEF SizesIn
  <2>4. SumLevels(x.by, Prices) \in Int
    BY <2>1, DepthType DEF Execution
  <2>5. FilledMore(orders, orders', o, SumLevels(x.by, Prices))
    BY <1>2, <2>1, <2>4 DEF FilledMore
  <2>6. FilledInAll(orders') = FilledInAll(orders) + SumLevels(x.by, Prices)
    BY <2>5, FilledGrows
  <2> QED
    BY <2>3, <2>6
<1> QED
  BY <1>1, <1>4, <1>5

(* PnlReport adds the fees back one by one. *)
Totals(total) == [gross : Fractions, realized : Fractions, fees : Int, total : {total}]

PnlRule(g, base, s) ==
  g = [t \in SUBSET DOMAIN s |->
         IF t = {} THEN base ELSE WithFee(g[t \ {Max(t)}], s[Max(t)].fee)]

LEMMA PnlIsByRule ==
  ASSUME NEW base, NEW s
  PROVE  FoldLeft(LAMBDA totals, fill : WithFee(totals, fill.fee), base, s)
           = (CHOOSE g : PnlRule(g, base, s))[DOMAIN s]
BY DEF FoldLeft, MapThenFoldSet, PnlRule

LEMMA WithFeeIs ==
  ASSUME NEW total, NEW p \in Totals(total), NEW fee \in Int
  PROVE  /\ WithFee(p, fee) \in Totals(total)
         /\ WithFee(p, fee).gross = Plus(p.gross, Whole(fee))
         /\ WithFee(p, fee).fees = p.fees + fee
<1>1. Plus(p.gross, Whole(fee)) \in Fractions
  <2>1. p.gross \in Fractions /\ Whole(fee) \in Fractions
    BY FractionTypes DEF Totals
  <2> QED
    BY <2>1, FractionTypes
<1>2. p.fees + fee \in Int
  BY DEF Totals
<1>3. WithFee(p, fee) = [gross |-> Plus(p.gross, Whole(fee)), realized |-> p.realized,
                         fees |-> p.fees + fee, total |-> p.total]
  <2> DEFINE G == Plus(p.gross, Whole(fee))
  <2>1. WithFee(p, fee) = [p EXCEPT !.gross = G, !.fees = p.fees + fee]
    BY DEF WithFee, Totals
  <2> HIDE DEF G
  <2>2. WithFee(p, fee) = [gross |-> G, realized |-> p.realized,
                           fees |-> p.fees + fee, total |-> p.total]
    BY <2>1 DEF Totals
  <2> QED
    BY <2>2 DEF G
<1> QED
  BY <1>1, <1>2, <1>3 DEF Totals

LEMMA PnlRuleExists ==
  ASSUME NEW total, NEW base \in Totals(total), NEW s \in Seq(Fill)
  PROVE  \E g : PnlRule(g, base, s)
<1> DEFINE V == Totals(total)
           F == [p \in V \X Fill |-> WithFee(p[1], p[2].fee)]
<1>0. \A f \in Fill : f.fee \in Int
  BY DEF Fill
<1>1. F \in [V \X Fill -> V]
  BY <1>0, WithFeeIs
<1>2. \A a \in V, e \in Fill : F[<<a, e>>] = WithFee(a, e.fee)
  OBVIOUS
<1>10. base \in V
  OBVIOUS
<1> HIDE DEF F, V
<1>11. PICK g : FoldRule(g, F, V, base, s)
  BY <1>1, <1>10, FoldExists
<1>3. /\ g \in [SUBSET (1..Len(s)) -> V]
      /\ g[{}] = base
      /\ \A t \in SUBSET (1..Len(s)) : t # {} => g[t] = F[<<g[t \ {Max(t)}], s[Max(t)]>>]
  BY <1>11 DEF FoldRule
<1>4. DOMAIN s = 1..Len(s) /\ Len(s) \in Nat /\ \A n \in DOMAIN s : s[n] \in Fill
  OBVIOUS
<1>5. ASSUME NEW t \in SUBSET (1..Len(s)), t # {}
      PROVE  g[t] = WithFee(g[t \ {Max(t)}], s[Max(t)].fee)
  <2>1. t \in SUBSET (0..Len(s))
    BY <1>4
  <2>2. Max(t) \in t
    <3> DEFINE d == Len(s)
    <3>1. d \in Nat /\ t \in SUBSET (0..d) /\ t # {}
      BY <1>4, <1>5, <2>1
    <3> HIDE DEF d
    <3> QED
      BY <3>1, MaxOfRange
  <2>3. s[Max(t)] \in Fill /\ g[t \ {Max(t)}] \in V
    <3>1. t \ {Max(t)} \in SUBSET (1..Len(s)) /\ Max(t) \in DOMAIN s
      BY <1>4, <2>2
    <3> QED
      BY <1>3, <1>4, <3>1
  <2> QED
    BY <1>2, <1>3, <1>5, <2>3
<1>6. \A t \in SUBSET DOMAIN s : t \in SUBSET (1..Len(s))
  BY <1>4
<1>7. g = [t \in SUBSET DOMAIN s |->
             IF t = {} THEN base ELSE WithFee(g[t \ {Max(t)}], s[Max(t)].fee)]
  <2>1. \A t \in SUBSET DOMAIN s :
           g[t] = IF t = {} THEN base ELSE WithFee(g[t \ {Max(t)}], s[Max(t)].fee)
    <3> SUFFICES ASSUME NEW t \in SUBSET DOMAIN s
                 PROVE  g[t] = IF t = {} THEN base ELSE WithFee(g[t \ {Max(t)}], s[Max(t)].fee)
      OBVIOUS
    <3>1. t \in SUBSET (1..Len(s))
      BY <1>6
    <3>2. CASE t = {}
      BY <1>3, <3>2
    <3>3. CASE t # {}
      BY <1>5, <3>1, <3>3
    <3> QED
      BY <3>2, <3>3
  <2>2. g \in [SUBSET DOMAIN s -> V]
    BY <1>3, <1>4
  <2> QED
    BY <2>1, <2>2
<1> QED
  BY <1>7 DEF PnlRule

LEMMA PnlFold ==
  ASSUME NEW total, NEW base \in Totals(total), NEW s \in Seq(Fill)
  PROVE  LET p == FoldLeft(LAMBDA totals, fill : WithFee(totals, fill.fee), base, s)
         IN /\ p.gross = Plus(base.gross, Whole(SumOf(FeesIn(s))))
            /\ p.fees = base.fees + SumOf(FeesIn(s))
            /\ p.total = total
<1> DEFINE p == FoldLeft(LAMBDA totals, fill : WithFee(totals, fill.fee), base, s)
           g == CHOOSE g : PnlRule(g, base, s)
           sum(k) == SumFunctionOnSet(FeesIn(s), 1..k)
           Q == {k \in Nat : k <= Len(s) =>
                   /\ g[1..k] \in Totals(total)
                   /\ g[1..k].gross = Plus(base.gross, Whole(sum(k)))
                   /\ g[1..k].fees = base.fees + sum(k)}
<1>1. p = g[DOMAIN s]
  BY PnlIsByRule
<1>2. PnlRule(g, base, s)
  BY PnlRuleExists
<1>3. /\ DOMAIN s = 1..Len(s) /\ Len(s) \in Nat /\ \A n \in DOMAIN s : s[n] \in Fill
      /\ DOMAIN FeesIn(s) = 1..Len(s)
      /\ \A n \in 1..Len(s) : FeesIn(s)[n] = s[n].fee /\ s[n].fee \in Int
  <2>1. DOMAIN s = 1..Len(s) /\ Len(s) \in Nat /\ \A n \in DOMAIN s : s[n] \in Fill
    OBVIOUS
  <2>2. \A f \in Fill : f.fee \in Int
    BY DEF Fill
  <2> QED
    BY <2>1, <2>2 DEF FeesIn
<1>4. base.fees \in Int /\ base.gross \in Fractions
  BY DEF Totals
<1> HIDE DEF g, p
<1>5. \A t \in SUBSET DOMAIN s :
         g[t] = IF t = {} THEN base ELSE WithFee(g[t \ {Max(t)}], s[Max(t)].fee)
  BY <1>2 DEF PnlRule
<1>6. \A k \in Nat : k <= Len(s) => sum(k) \in Int
  <2> SUFFICES ASSUME NEW k \in Nat, k <= Len(s) PROVE sum(k) \in Int
    OBVIOUS
  <2>1. IsFiniteSet(1..k) /\ \A n \in 1..k : FeesIn(s)[n] \in Int
    BY <1>3, IntervalGrows, SMTT(60)
  <2> QED
    BY <2>1, SumType
<1>7. 0 \in Q
  <2>1. 1..0 = {} /\ {} \in SUBSET DOMAIN s
    OBVIOUS
  <2>2. g[1..0] = base
    BY <1>5, <2>1
  <2>3. sum(0) = 0
    BY <2>1, SumEmpty
  <2>4. Plus(base.gross, Whole(0)) = base.gross
    BY <1>4, PlusZero
  <2> QED
    BY <1>4, <2>2, <2>3, <2>4
<1>8. ASSUME NEW k \in Nat, k \in Q PROVE k + 1 \in Q
  <2> SUFFICES ASSUME k + 1 <= Len(s)
               PROVE  /\ g[1..(k + 1)] \in Totals(total)
                      /\ g[1..(k + 1)].gross = Plus(base.gross, Whole(sum(k + 1)))
                      /\ g[1..(k + 1)].fees = base.fees + sum(k + 1)
    OBVIOUS
  <2>1. /\ k <= Len(s) /\ k + 1 \in 1..Len(s) /\ 1..(k + 1) \in SUBSET DOMAIN s
        /\ s[k + 1] \in Fill /\ FeesIn(s)[k + 1] = s[k + 1].fee /\ s[k + 1].fee \in Int
    BY <1>3
  <2>2. /\ g[1..k] \in Totals(total)
        /\ g[1..k].gross = Plus(base.gross, Whole(sum(k)))
        /\ g[1..k].fees = base.fees + sum(k)
    BY <1>8, <2>1
  <2>3. g[1..(k + 1)] = WithFee(g[1..k], s[k + 1].fee)
    <3>1. /\ 1..(k + 1) # {} /\ Max(1..(k + 1)) = k + 1
          /\ (1..(k + 1)) \ {k + 1} = 1..k
      BY PrefixEnds
    <3> QED
      BY <1>5, <2>1, <3>1
  <2>4. /\ g[1..(k + 1)] \in Totals(total)
        /\ g[1..(k + 1)].gross = Plus(g[1..k].gross, Whole(s[k + 1].fee))
        /\ g[1..(k + 1)].fees = g[1..k].fees + s[k + 1].fee
    <3> DEFINE before == g[1..k]
               fee == s[k + 1].fee
    <3>1. before \in Totals(total) /\ fee \in Int /\ g[1..(k + 1)] = WithFee(before, fee)
      BY <2>1, <2>2, <2>3
    <3> HIDE DEF before, fee
    <3>2. /\ WithFee(before, fee) \in Totals(total)
          /\ WithFee(before, fee).gross = Plus(before.gross, Whole(fee))
          /\ WithFee(before, fee).fees = before.fees + fee
      BY <3>1, WithFeeIs
    <3> QED
      BY <3>1, <3>2 DEF before, fee
  <2>6. sum(k + 1) = sum(k) + s[k + 1].fee
    <3>1. /\ 1..(k + 1) = (1..k) \cup {k + 1} /\ k + 1 \notin 1..k /\ IsFiniteSet(1..k)
      BY IntervalGrows
    <3>2. \A n \in (1..k) \cup {k + 1} : FeesIn(s)[n] \in Int
      BY <1>3, <2>1, SMTT(60)
    <3> DEFINE f == FeesIn(s)
               D == 1..k
               last == k + 1
    <3>3. last \notin D /\ IsFiniteSet(D) /\ \A n \in D \cup {last} : f[n] \in Int
      BY <3>1, <3>2
    <3> HIDE DEF f, D, last
    <3>4. SumFunctionOnSet(f, D \cup {last}) = SumFunctionOnSet(f, D) + f[last]
      BY <3>3, SumAdd
    <3> QED
      BY <2>1, <3>1, <3>4 DEF f, D, last
  <2>7. sum(k) \in Int
    BY <1>6, <2>1
  <2> HIDE DEF sum
  <2> DEFINE fee == s[k + 1].fee
             so == sum(k)
  <2>8. so \in Int /\ fee \in Int /\ sum(k + 1) = so + fee
    BY <2>1, <2>6, <2>7
  <2> HIDE DEF fee, so
  <2>9. Plus(Plus(base.gross, Whole(so)), Whole(fee)) = Plus(base.gross, Whole(so + fee))
    <3>1. Whole(so) \in Fractions /\ Whole(fee) \in Fractions
      BY <2>8, FractionTypes
    <3>2. Plus(Whole(so), Whole(fee)) = Whole(so + fee)
      BY <2>8, WholePlus
    <3> QED
      BY <1>4, <3>1, <3>2, PlusPlus
  <2>10. g[1..(k + 1)].gross = Plus(base.gross, Whole(sum(k + 1)))
    BY <2>2, <2>4, <2>8, <2>9 DEF so, fee
  <2>11. g[1..(k + 1)].fees = base.fees + sum(k + 1)
    BY <1>4, <2>2, <2>4, <2>8 DEF so, fee
  <2> QED
    BY <2>4, <2>10, <2>11
<1>9. \A k \in Nat : k \in Q
  <2> HIDE DEF Q
  <2> QED
    BY <1>7, <1>8, NatSetInduction
<1>10. /\ g[1..Len(s)] \in Totals(total)
       /\ g[1..Len(s)].gross = Plus(base.gross, Whole(sum(Len(s))))
       /\ g[1..Len(s)].fees = base.fees + sum(Len(s))
  BY <1>3, <1>9
<1>11. g[1..Len(s)].total = total
  BY <1>10 DEF Totals
<1> QED
  BY <1>1, <1>3, <1>10, <1>11 DEF SumOf, p

-----------------------------------------------------------------------------
(* What the report of a run rests on. *)
ReportInv ==
  /\ BooksInv
  /\ audits \in [AuditKinds -> Int]
  /\ fills \in Seq(Fill)
  /\ AuditTrailTellsTheOrders
  /\ position.fees = SumOf(FeesIn(fills))
  /\ FilledInAll(orders) = SumOf(SizesIn(fills))

LEMMA SumsAddUp == ReportInv => ReportAddsUp
<1> SUFFICES ASSUME ReportInv PROVE ReportAddsUp
  OBVIOUS
<1>1. /\ fills \in Seq(Fill) /\ DOMAIN fills = 1..Len(fills) /\ Len(fills) \in Nat
      /\ position.fees = SumOf(FeesIn(fills)) /\ FilledInAll(orders) = SumOf(SizesIn(fills))
  BY DEF ReportInv
<1>2. /\ position \in Position /\ Balanced(Account)
      /\ position.realized \in Fractions /\ position.fees \in Int
  BY DEF ReportInv, BooksInv, Accounts, Holdings, Account, Position
<1>3. position.gross = Plus(position.realized, Whole(position.fees))
  BY <1>2 DEF Balanced, Account
<1>4. \A mark \in position.mark :
         Plus(position.realized, Unrealized(position)) = Plus(Whole(cash), Times(position.net, mark))
  BY ExactLedger DEF ReportInv, BooksInv, FillsInv, LedgerIsExact, ProfitIsCashPlusHoldings
<1>5. Paper.size = FilledInAll(orders) /\ Paper.fees = position.fees
  <2>1. DOMAIN SizesIn(fills) = 1..Len(fills) /\ DOMAIN FeesIn(fills) = 1..Len(fills)
    BY <1>1 DEF SizesIn, FeesIn
  <2>2. Len(SizesIn(fills)) = Len(fills) /\ Len(FeesIn(fills)) = Len(fills)
    <3>1. SizesIn(fills) \in Seq(Int) /\ FeesIn(fills) \in Seq(Int)
      BY <1>1, AmountsIn
    <3> QED
      BY <1>1, <2>1, <3>1
  <2>3. /\ Paper.size = SumFunctionOnSet(SizesIn(fills), DOMAIN fills)
        /\ Paper.fees = SumFunctionOnSet(FeesIn(fills), DOMAIN fills)
    BY DEF Paper, SumOverFills, SizesIn, FeesIn
  <2> QED
    BY <1>1, <2>2, <2>3 DEF SumOf
<1>6. /\ Pnl.gross = position.gross /\ Pnl.fees = position.fees
      /\ Pnl.total = Plus(position.realized, Unrealized(position))
  <2> DEFINE total == Plus(position.realized, Unrealized(position))
             base == [gross |-> position.realized, realized |-> position.realized, fees |-> 0,
                      total |-> total]
             p == FoldLeft(LAMBDA totals, fill : WithFee(totals, fill.fee), base, fills)
  <2>1. base \in Totals(total) /\ base.gross = position.realized /\ base.fees = 0
    BY <1>2 DEF Totals
  <2>2. Pnl = p
    BY DEF Pnl
  <2> HIDE DEF base
  <2>3. /\ p.gross = Plus(base.gross, Whole(SumOf(FeesIn(fills))))
        /\ p.fees = base.fees + SumOf(FeesIn(fills))
        /\ p.total = total
    BY <1>1, <2>1, PnlFold
  <2> HIDE DEF p, total
  <2> QED
    BY <1>1, <1>2, <1>3, <2>1, <2>2, <2>3 DEF total
<1>7. FilledInAll(orders) = SumFunctionOnSet([o \in DOMAIN orders |-> orders[o].filled], DOMAIN orders)
  BY DEF FilledInAll, FilledSizes
<1> QED
  BY <1>4, <1>5, <1>6, <1>7 DEF ReportAddsUp

LEMMA ReportStarts == ReportInit => ReportInv
<1> SUFFICES ASSUME ReportInit PROVE ReportInv
  OBVIOUS
<1>1. BooksInv
  BY BooksInit
<1>2. /\ audits = [kind \in AuditKinds |-> 0] /\ fills = << >> /\ orders = << >>
      /\ position = NewPosition
  BY DEF ReportInit, TradingInit, Init
<1>3. SumOf(<< >>) = 0
  BY SumEmpty DEF SumOf
<1>4. FeesIn(<< >>) = << >> /\ SizesIn(<< >>) = << >> /\ FilledInAll(<< >>) = 0
  BY SumEmpty DEF FeesIn, SizesIn, FilledInAll
<1>5. position.fees = 0
  BY <1>2 DEF NewPosition
<1>6. \A status : With(<< >>, status) = {}
  BY DEF With
<1>7. AuditTrailTellsTheOrders
  <2>1. Cardinality({}) = 0
    BY FS_EmptySet
  <2> QED
    <3>1. \A status : Cardinality(With(orders, status)) = 0
      BY <1>2, <1>6, <2>1
    <3>2. Len(orders) = 0 /\ Len(fills) = 0
      BY <1>2
    <3>3. \A kind \in AuditKinds : audits[kind] = 0
      BY <1>2
    <3>4. AuditTrailIs(Len(orders), orders, audits, Len(fills))
      BY <3>1, <3>2, <3>3 DEF AuditTrailIs, AuditKinds
    <3> QED
      BY <3>4, AuditTrailIsTrue
<1> QED
  BY <1>1, <1>2, <1>3, <1>4, <1>5, <1>7 DEF ReportInv

LEMMA ReportKept == ReportInv /\ [ReportNext]_reportVars => ReportInv'
<1> SUFFICES ASSUME ReportInv, [ReportNext]_reportVars PROVE ReportInv'
  OBVIOUS
<1>1. /\ IInv /\ FillsInv /\ Account \in Accounts /\ audits \in [AuditKinds -> Int]
      /\ fills \in Seq(Fill) /\ AuditTrailTellsTheOrders
      /\ position.fees = SumOf(FeesIn(fills)) /\ FilledInAll(orders) = SumOf(SizesIn(fills))
  BY DEF ReportInv, BooksInv
<1>2. BooksInv' /\ IInv'
  BY BooksKept DEF ReportInv, BooksInv
<1>3. CASE Trades
  <2>1. Next /\ RecordFills
    BY <1>3, TradesNext
  <2>2. FillsStep /\ NewFills \in Seq(Fill)
    BY <1>1, <1>2, <2>1, NextFills, NewFillsAre DEF IInv, FillsInv
  <2>3. /\ audits' \in [AuditKinds -> Int] /\ fills' = fills \o NewFills
        /\ AuditTrailTellsTheOrders'
    BY <1>1, <1>2, <1>3, <2>2, AuditKept
  <2>4. position'.fees = position.fees + SumOf(FeesIn(NewFills))
    BY <1>1, <2>1, <2>2, RecordsBalance
  <2>5. FilledInAll(orders') = FilledInAll(orders) + SumOf(SizesIn(NewFills))
    BY <1>1, <1>2, <2>2, SizesFollow DEF FillsInv
  <2>6. /\ fills' \in Seq(Fill)
        /\ position'.fees = SumOf(FeesIn(fills'))
        /\ FilledInAll(orders') = SumOf(SizesIn(fills'))
    BY <1>1, <2>2, <2>3, <2>4, <2>5, FeesGrow, SizesGrow
  <2> QED
    BY <1>2, <2>3, <2>6 DEF ReportInv
<1>4. CASE SetMark /\ UNCHANGED <<audits, fills>>
  <2>1. orders' = orders /\ audits' = audits /\ fills' = fills
    BY <1>4 DEF SetMark, vars
  <2>2. position'.fees = position.fees
    BY <1>1, <1>4, MarkBalances
  <2>3. AuditTrailTellsTheOrders'
    BY <1>1, <2>1, AuditTrailIsTrue
  <2> QED
    BY <1>1, <1>2, <2>1, <2>2, <2>3 DEF ReportInv
<1>5. CASE UNCHANGED reportVars
  <2>1. orders' = orders /\ audits' = audits /\ fills' = fills /\ position' = position
    BY <1>5 DEF reportVars, tradingVars, vars
  <2>2. AuditTrailTellsTheOrders'
    BY <1>1, <2>1, AuditTrailIsTrue
  <2> QED
    BY <1>1, <1>2, <2>1, <2>2 DEF ReportInv
<1> QED
  BY <1>3, <1>4, <1>5 DEF ReportNext

LEMMA ReportInvariant == ReportSpec => []ReportInv
BY ReportStarts, ReportKept, PTL DEF ReportSpec

(* Whatever is traded, on either side, in any order and at any mark: P&L   *)
(* is money and holdings, averages are prices that were paid, and what the *)
(* executor filled is what its orders say.                                 *)
THEOREM LedgerStaysExact == ReportSpec => []LedgerIsExact
<1>1. ReportInv => LedgerIsExact
  BY ExactLedger DEF ReportInv, BooksInv, FillsInv
<1> QED
  BY <1>1, ReportInvariant, PTL

(* The audit events of a run tell what became of its orders and fills. *)
THEOREM AuditTrailIsKept == ReportSpec => []AuditTrailTellsTheOrders
<1>1. ReportInv => AuditTrailTellsTheOrders
  BY DEF ReportInv
<1> QED
  BY <1>1, ReportInvariant, PTL

(* The report's fees and sizes are those of the orders, and its P&L that   *)
(* of the position, with the fees as the whole difference of gross and net *)
(* although it is computed from the net P&L and the fills.                 *)
THEOREM ReportsAddUp == ReportSpec => []ReportAddsUp
BY SumsAddUp, ReportInvariant, PTL
=============================================================================
