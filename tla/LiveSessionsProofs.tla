------------------------- MODULE LiveSessionsProofs -------------------------
(***************************************************************************)
(* Proofs about the LA5 and LA6 sessions, alone (MakerMicroSession) and    *)
(* together on one account (LiveSessions): for any number of approvals,    *)
(* orders and fills, and any cancel retry limit.                           *)
(*                                                                         *)
(* The invariants and the steps are stated for the set Q of approvals that *)
(* are for LA6: Spec has none, LiveSpec has QuoteApprovals.  Every step is *)
(* first shown to be of one of a few kinds (StepIsOfAKind): most only move *)
(* a session on, writing and reading no more than Writes and Reads say.    *)
(* Then each kind is shown to preserve the invariant.  What the LA8 report *)
(* makes of the journals comes last, over a second invariant, RepInv.      *)
(***************************************************************************)
EXTENDS LiveSessions, FiniteSetTheorems, TLAPS

-----------------------------------------------------------------------------
(* What the venue does by itself (LiveVenue) takes nothing back.           *)

(* A trade belongs to an order at the venue, which has matched as much.    *)
TradesHaveOrders ==
  \A t \in DOMAIN trades :
    /\ trades[t].order = t[1]
    /\ t[1] \in DOMAIN orders
    /\ t[2] <= orders[t[1]].matched
VenueInv ==
  /\ VenueTypeOK
  /\ TradesHaveOrders
  /\ IsFiniteSet(DOMAIN trades)
  /\ late \subseteq DOMAIN orders /\ IsFiniteSet(late)
  /\ inflight \cap DOMAIN orders = {}

(* Closed orders stay as they are, confirmed trades stay confirmed, only   *)
(* open orders trade, and an order that arrives now is late.               *)
VenueGrows ==
  /\ \A o \in DOMAIN orders :
       /\ o \in DOMAIN orders' /\ orders[o].matched <= orders'[o].matched
       /\ orders[o].status # "live" => orders'[o] = orders[o]
  /\ \A t \in DOMAIN trades :
       /\ t \in DOMAIN trades'
       /\ trades'[t].order = trades[t].order
       /\ trades[t].status = "Confirmed" => trades'[t].status = "Confirmed"
  /\ \A t \in DOMAIN trades' \ DOMAIN trades :
       t[1] \in DOMAIN orders /\ orders[t[1]].status = "live"
  /\ late \subseteq late' /\ inflight' \subseteq inflight /\ late' \subseteq inflight \cup late
  /\ DOMAIN orders' \subseteq DOMAIN orders \cup inflight
  /\ DOMAIN orders' \ late' \subseteq DOMAIN orders \ late

LEMMA MatchedTyped ==
  ASSUME VenueInv, NEW o \in DOMAIN orders
  PROVE  orders[o].matched \in Int /\ orders[o].matched <= orders[o].matched
BY OrderSizeAssumption DEF VenueInv, VenueTypeOK, OrderRecord

LEMMA ArrivalGrows ==
  ASSUME VenueInv, NEW i \in inflight, Arrive(i) \/ Vanish(i)
  PROVE  VenueGrows /\ VenueInv'
<1>1. i \in Intents /\ i \notin DOMAIN orders /\ Fresh \in OrderRecord
  BY OrderSizeAssumption DEF VenueInv, VenueTypeOK, Fresh, OrderRecord
<1>2. CASE Arrive(i)
  <2>1. /\ DOMAIN orders' = DOMAIN orders \cup {i}
        /\ \A o \in DOMAIN orders : orders'[o] = orders[o]
        /\ orders'[i] = Fresh
        /\ trades' = trades /\ inflight' = inflight \ {i} /\ late' = late \cup {i}
    BY <1>1, <1>2 DEF Arrive, With
  <2>2. VenueGrows
    BY <2>1, MatchedTyped DEF VenueGrows
  <2>3. IsFiniteSet(late')
    BY <2>1, FS_AddElement DEF VenueInv
  <2>4. VenueTypeOK'
    BY <1>1, <2>1 DEF VenueInv, VenueTypeOK
  <2>5. TradesHaveOrders'
    BY <2>1 DEF VenueInv, TradesHaveOrders
  <2> QED
    BY <2>1, <2>2, <2>3, <2>4, <2>5 DEF VenueInv
<1>3. CASE Vanish(i)
  BY <1>3, MatchedTyped DEF Vanish, VenueGrows, VenueInv, VenueTypeOK, TradesHaveOrders
<1> QED
  BY <1>2, <1>3

LEMMA CloseGrows ==
  ASSUME VenueInv, NEW o \in OpenOrders, Close(o)
  PROVE  VenueGrows /\ VenueInv'
<1>1. o \in DOMAIN orders /\ orders[o].status = "live" /\ orders[o] \in OrderRecord
  BY DEF OpenOrders, VenueInv, VenueTypeOK
<1>2. orders' = [orders EXCEPT ![o] = [orders[o] EXCEPT !.status = "canceled"]]
  BY DEF Close
<1>3. /\ DOMAIN orders' = DOMAIN orders
      /\ \A p \in DOMAIN orders : p # o => orders'[p] = orders[p]
      /\ orders'[o] = [orders[o] EXCEPT !.status = "canceled"]
      /\ UNCHANGED <<trades, inflight, late>>
  BY <1>1, <1>2 DEF Close
<1>4. orders'[o] \in OrderRecord /\ orders'[o].matched = orders[o].matched
  BY <1>1, <1>3 DEF OrderRecord
<1>5. VenueGrows
  BY <1>1, <1>3, <1>4, MatchedTyped DEF VenueGrows
<1>6. VenueTypeOK'
  BY <1>1, <1>3, <1>4 DEF VenueInv, VenueTypeOK
<1>7. TradesHaveOrders'
  BY <1>3, <1>4 DEF VenueInv, TradesHaveOrders
<1> QED
  BY <1>3, <1>5, <1>6, <1>7 DEF VenueInv

LEMMA FillGrows ==
  ASSUME VenueInv, NEW o \in OpenOrders, NEW size \in 1..OrderSize, Fill(o, size)
  PROVE  VenueGrows /\ VenueInv'
<1> DEFINE matched == orders[o].matched + size
           t == <<o, matched>>
<1>1. /\ o \in DOMAIN orders /\ orders[o].status = "live" /\ o \in Intents
      /\ orders[o].matched \in 0..OrderSize
  BY DEF OpenOrders, VenueInv, VenueTypeOK, OrderRecord
<1>2. matched \in 1..OrderSize /\ orders[o].matched < matched
  BY <1>1, OrderSizeAssumption DEF Fill
<1>3. t \in Trades /\ t \notin DOMAIN trades
  <2>1. t \in Trades /\ t[1] = o /\ t[2] = matched
    BY <1>1, <1>2 DEF Trades
  <2>2. t \in DOMAIN trades => matched <= orders[o].matched
    BY <2>1 DEF VenueInv, TradesHaveOrders
  <2> QED
    BY <1>1, <1>2, <2>1, <2>2, OrderSizeAssumption
<1>4. /\ DOMAIN orders' = DOMAIN orders
      /\ \A p \in DOMAIN orders : p # o => orders'[p] = orders[p]
      /\ orders'[o] \in OrderRecord /\ orders'[o].matched = matched
      /\ UNCHANGED <<inflight, late>>
  BY <1>1, <1>2 DEF Fill, OrderRecord
<1>5. /\ DOMAIN trades' = DOMAIN trades \cup {t}
      /\ \A u \in DOMAIN trades : trades'[u] = trades[u]
      /\ trades'[t] = [order |-> o, status |-> "Matched"]
  BY <1>3 DEF Fill, With
<1>6. trades'[t] \in TradeRecord /\ trades'[t].order = o /\ t[1] = o /\ t[2] = matched
  BY <1>1, <1>5 DEF TradeRecord
<1> HIDE DEF matched, t
<1>7. VenueGrows
  <2>1. \A p \in DOMAIN orders : orders[p].matched <= orders'[p].matched
    BY <1>1, <1>2, <1>4, MatchedTyped, OrderSizeAssumption
  <2> QED
    BY <1>1, <1>4, <1>5, <1>6, <2>1 DEF VenueGrows
<1>8. VenueTypeOK'
  BY <1>1, <1>3, <1>4, <1>5, <1>6 DEF VenueInv, VenueTypeOK
<1>9. TradesHaveOrders'
  <2> SUFFICES ASSUME NEW u \in DOMAIN trades'
               PROVE  trades'[u].order = u[1] /\ u[1] \in DOMAIN orders' /\ u[2] <= orders'[u[1]].matched
    BY DEF TradesHaveOrders
  <2>1. CASE u = t
    BY <1>1, <1>2, <1>4, <1>6, <2>1, OrderSizeAssumption
  <2>2. CASE u # t
    <3>1. u \in DOMAIN trades /\ u \in Trades /\ trades'[u] = trades[u]
      BY <1>5, <2>2 DEF VenueInv, VenueTypeOK
    <3>2. trades[u].order = u[1] /\ u[1] \in DOMAIN orders /\ u[2] <= orders[u[1]].matched
      BY <3>1 DEF VenueInv, TradesHaveOrders
    <3>3. u[2] \in Int
      BY <3>1, OrderSizeAssumption DEF Trades
    <3>4. CASE u[1] = o
      BY <1>1, <1>2, <1>4, <3>1, <3>2, <3>3, <3>4, OrderSizeAssumption
    <3>5. CASE u[1] # o
      BY <1>4, <3>1, <3>2, <3>5
    <3> QED
      BY <3>4, <3>5
  <2> QED
    BY <2>1, <2>2
<1>10. IsFiniteSet(DOMAIN trades')
  BY <1>5, FS_AddElement DEF VenueInv
<1> QED
  BY <1>4, <1>7, <1>8, <1>9, <1>10 DEF VenueInv

LEMMA SettleGrows ==
  ASSUME VenueInv, NEW t \in DOMAIN trades, NEW status \in {"Confirmed", "Failed"}, Settle(t, status)
  PROVE  VenueGrows /\ VenueInv'
<1>1. trades[t] \in TradeRecord /\ trades[t].status = "Matched"
  BY DEF Settle, VenueInv, VenueTypeOK
<1>2. trades' = [trades EXCEPT ![t] = [trades[t] EXCEPT !.status = status]]
  BY DEF Settle
<1>3. /\ DOMAIN trades' = DOMAIN trades
      /\ \A u \in DOMAIN trades : u # t => trades'[u] = trades[u]
      /\ trades'[t] = [trades[t] EXCEPT !.status = status]
      /\ UNCHANGED <<orders, inflight, late>>
  BY <1>2 DEF Settle
<1>4. trades'[t] \in TradeRecord /\ trades'[t].order = trades[t].order
  BY <1>1, <1>3 DEF TradeRecord
<1>5. VenueGrows
  BY <1>1, <1>3, <1>4, MatchedTyped DEF VenueGrows
<1>6. VenueTypeOK'
  BY <1>3, <1>4 DEF VenueInv, VenueTypeOK
<1>7. TradesHaveOrders'
  BY <1>3, <1>4 DEF VenueInv, TradesHaveOrders
<1> QED
  BY <1>3, <1>5, <1>6, <1>7 DEF VenueInv

(* The venue only adds to what it has.                                     *)
LEMMA VenueStepGrows == VenueInv /\ VenueStep => VenueGrows /\ VenueInv'
BY ArrivalGrows, CloseGrows, FillGrows, SettleGrows DEF VenueStep

LEMMA ClosedOrders ==
  ASSUME VenueInv, VenueInv', VenueGrows, NEW o \in DOMAIN orders, orders[o].status # "live"
  PROVE  /\ orders'[o] = orders[o] /\ TradesOf(o)' = TradesOf(o)
         /\ \A t \in TradesOf(o) : trades[t].status = "Confirmed" => trades'[t].status = "Confirmed"
<1>1. orders'[o] = orders[o]
  BY DEF VenueGrows
<1>2. ASSUME NEW t \in TradesOf(o)'
      PROVE  t \in TradesOf(o)
  <2>1. t \in DOMAIN trades' /\ trades'[t].order = o /\ t[1] = o
    BY <1>2 DEF TradesOf, VenueInv, TradesHaveOrders
  <2>2. t \in DOMAIN trades
    BY <2>1 DEF VenueGrows
  <2> QED
    BY <2>1, <2>2 DEF VenueGrows, TradesOf
<1>3. TradesOf(o) \subseteq TradesOf(o)'
  BY DEF TradesOf, VenueGrows
<1> QED
  BY <1>1, <1>2, <1>3 DEF TradesOf, VenueGrows

-----------------------------------------------------------------------------
(* Where a session is.                                                     *)

Command == {"command.orders", "command.trades", "command"}
Before ==
  {"opening", "checks", "quote.opening", "initial.orders", "initial.trades", "initial",
   "slot", "pre.orders", "pre.trades", "pre", "risk", "attempt", "quote.risk", "submit"}
(* An error now leads to the cleanup of the accepted order.                *)
Resting ==
  {"accepted", "heartbeat", "post.trades", "post.exact", "post", "cancelSlot", "latest",
   "quote.latest", "decide", "cancel", "cleanup"}
Closing ==
  {"cancelFailed", "canceled", "cleanup.canceled", "cleanup.failed", "quote.heartbeat",
   "final.exact", "final.orders", "final.trades", "filled", "final"}
InSession == Before \cup Resting \cup Closing \cup {"rejected", "stopping"}

(* Between the read of the open orders and its check; from the check to the*)
(* submit; after the read of the order that the session goes by.           *)
Checking == {"initial.trades", "initial", "pre.trades", "pre"}
Cleared == {"risk", "attempt", "quote.risk", "submit"}
OrderKnown == {"decide", "final.orders", "final.trades", "filled", "final"}
Untried == Before \cup Command \cup {"idle", "rejected"} \cup Recovering \cup (Resting \ {"cancel", "cleanup"})

-----------------------------------------------------------------------------
(* The parts of the inductive invariant.                                   *)

SeenFields == {"baseline", "open", "trades", "order", "balance", "placed", "outcomes"}

(* The journal's lines and the process are well typed.                     *)
LineTyped(e) == e.run \in Approvals /\ e.intent \in Intents /\ e.trades \subseteq Trades
JournalTyped == \A e \in journal : LineTyped(e)
SeenTyped ==
  /\ DOMAIN seen = SeenFields
  /\ \A e \in seen.outcomes : LineTyped(e) /\ e.type = "MakerMicroStopped"
  /\ seen.open \cup seen.placed \subseteq Intents
  /\ seen.order.trades \subseteq DOMAIN trades
HistoryTyped ==
  /\ submits \in [Approvals -> Nat]
  /\ cancelSent \subseteq Intents
  /\ ended \in [Approvals -> {"not yet", "completed", "failed", "crashed"}]
  /\ recovery \in {"none", "passed", "halted"}
ProcessTyped(Q) ==
  /\ caps \subseteq Approvals
  /\ pc \in InSession \cup Command \cup Recovering \cup {"idle"}
  /\ pc \in InSession => run \in caps /\ n \in 1..MaxOrders
  /\ pc \in Command => run \in Q /\ n = 1
  /\ pc \in QuotePcs => run \in Q
  /\ pc \in Recovering \cup {"idle"} => run = NoRun

(* Every submit is counted, under an approval whose cap file exists.       *)
CountInv ==
  /\ \A a \in Approvals : submits[a] <= MaxOrders
  /\ \A a \in Approvals \ caps : submits[a] = 0 /\ ended[a] \in {"not yet", "crashed"}
  /\ pc \in InSession =>
       /\ submits[run] = IF pc \in Before THEN n - 1 ELSE n
       /\ ended[run] \in {"not yet", "crashed"}
  /\ \A i \in DOMAIN orders \cup inflight : i[2] <= submits[i[1]]

WriteAhead == AttemptJournaledFirst /\ (pc = "submit" => Attempted(Current))

(* One order rests at a time, but for those that arrived late.             *)
FlatInv ==
  /\ \A o, p \in OpenOrders \ late : o = p
  /\ pc \in Checking => OpenOrders \ late \subseteq seen.open
  /\ pc \in Cleared => OpenOrders \subseteq late

(* A submit whose answer was lost ends its session.                        *)
LateInv ==
  \A i \in inflight \cup late :
    IF pc \in InSession /\ run = i[1] THEN pc = "rejected" /\ i[2] = n
    ELSE ended[i[1]] \in {"failed", "crashed"}

PlacedInv ==
  /\ pc \in Resting \cup Closing => Current \in DOMAIN orders
  /\ pc \in Closing => orders[Current].status # "live" \/ Current \in cancelSent
  /\ pc = "rejected" => Current \notin DOMAIN orders \ late
AbandonInv == \A o \in OpenOrders \ late : ended[o[1]] = "failed" => o \in cancelSent

CancelsInv ==
  /\ pc \in {"canceled", "cleanup.canceled"} => orders[Current].status = "canceled"
  /\ \A o \in CanceledOrders(journal) : o \in DOMAIN orders /\ orders[o].status = "canceled"

AttemptsInv ==
  /\ attempts \in 0..CancelRetryLimit
  /\ pc \in Untried => attempts = 0
  /\ pc = "cancel" => attempts < CancelRetryLimit

(* What the process holds of the trades and of its order is true.          *)
ReadsInv ==
  /\ \A t \in DOMAIN seen.trades :
       /\ t \in DOMAIN trades
       /\ seen.trades[t].order = trades[t].order
       /\ seen.trades[t].status \in {"Matched", "Confirmed", "Failed"}
       /\ seen.trades[t].status = "Confirmed" => trades[t].status = "Confirmed"
  /\ seen.order.status \in {"live", "matched", "canceled"}
  /\ pc \in OrderKnown /\ seen.order.status # "live" =>
       orders[Current].status = seen.order.status /\ seen.order.trades = TradesOf(Current)
  /\ pc = "final" => OrderTrades \subseteq JournaledFills

(* An order a session is done with is closed, with all its trades confirmed*)
(* and, if it is an LA5 session, in the journal.                           *)
Settled(Q, o) ==
  /\ orders[o].status # "live"
  /\ \A t \in TradesOf(o) :
       trades[t].status = "Confirmed" /\ (o[1] \notin Q => t \in JournaledFills)
SettledInv(Q) ==
  \A o \in DOMAIN orders :
    \/ ended[o[1]] = "completed"
    \/ pc \in InSession /\ run = o[1] /\ (o[2] < n \/ pc = "stopping")
    => Settled(Q, o)

(* Between the reads of a recovery an order stays closed, and a closed one *)
(* trades no more.                                                         *)
RecoveryInv ==
  /\ pc \in {"recover.trades", "recover"} =>
       \A o \in seen.placed :
         o \in DOMAIN orders /\ (o \in seen.open \/ orders[o].status # "live")
  /\ pc = "recover" =>
       \A o \in seen.placed \ seen.open : TradesOf(o) \subseteq DOMAIN seen.trades

IInv(Q) ==
  /\ JournalTyped /\ SeenTyped /\ HistoryTyped /\ ProcessTyped(Q)
  /\ VenueInv /\ CountInv /\ WriteAhead /\ FlatInv /\ LateInv
  /\ PlacedInv /\ AbandonInv /\ CancelsInv /\ AttemptsInv
  /\ ReadsInv /\ SettledInv(Q) /\ RecoveryInv

(* The LA6 sessions, with what they were approved for.                     *)
ApprovedInv ==
  /\ DOMAIN approved \subseteq QuoteApprovals
  /\ \A a \in DOMAIN approved : approved[a] \subseteq DOMAIN trades
  /\ pc \in Command \cup InSession /\ run \in QuoteApprovals => run \in DOMAIN approved
  /\ pc = "initial" /\ run \in QuoteApprovals => approved[run] \subseteq DOMAIN seen.trades
  /\ pc \in {"quote.risk", "submit"} /\ run \in QuoteApprovals =>
       DOMAIN seen.trades = approved[run]

-----------------------------------------------------------------------------
(* The kinds of steps.                                                     *)

StepOf(Q) ==
  \/ \E a \in Approvals \ Q : StartSession(a)
  \/ \E a \in Q : StartQuoteSession(a)
  \/ IF run \in Q THEN QuoteStep ELSE SessionStep
  \/ \E appending \in SUBSET (InSession \cup Command) : CrashWhile(appending)
  \/ RecoveryStep
  \/ VenueMoves

(* What a session writes and reads on its way.                             *)
CancelTypes == {"MakerOrderCanceled", "QuoteCancelConfirmed", "QuoteExpired"}
Writes ==
  /\ journal \subseteq journal'
  /\ \A e \in journal' \ journal :
       /\ LineTyped(e)
       /\ e.type \in CancelTypes => e.order = Current /\ pc \in {"canceled", "cleanup.canceled"}
Reads ==
  /\ DOMAIN seen' = SeenFields
  /\ seen'.open = seen.open \/ seen'.open = OpenOrders
  /\ seen'.trades = seen.trades \/ seen'.trades = trades
  /\ seen'.order = seen.order \/ (seen'.order = ExactOrder /\ pc \in Resting \cup Closing)
  /\ seen'.placed = seen.placed
  /\ seen'.outcomes = seen.outcomes

(* A step on the way through the session.                                  *)
Stays ==
  /\ UNCHANGED <<venueVars, caps, run, n, attempts, historyVars>>
  /\ \/ pc \in InSession /\ pc' \in InSession
     \/ pc \in Command /\ pc' \in Command
  /\ pc \notin {"rejected", "stopping"} /\ pc' # "rejected"
Onward(Q) ==
  /\ pc' \in QuotePcs => run \in Q
  /\ pc' \in Before <=> pc \in Before
  /\ pc' = "submit" => Attempted(Current)'
  /\ pc' \in Resting => pc \in Resting
  /\ pc' \in Closing => pc \in Closing \/ (pc \in Resting /\ orders[Current].status # "live")
  /\ pc' \notin {"canceled", "cleanup.canceled"}
  /\ pc' \in Untried \cup {"cancel"} => pc \in Untried
  /\ pc' = "stopping" => pc = "filled" /\ run \in Q /\ OrderReconciles(TRUE)
ReadsInOrder(Q) ==
  /\ pc' \in Checking => seen'.open = IF pc \in Checking THEN seen.open ELSE OpenOrders
  /\ pc' \in Cleared => pc \in Cleared \/ (pc \in Checking /\ seen.open = {})
  /\ pc' \in OrderKnown =>
       seen'.order = ExactOrder \/ (pc \in OrderKnown /\ seen'.order = seen.order)
  /\ pc' = "final" => seen' = seen /\ OrderTrades \subseteq JournaledFills'
  /\ pc' = "initial" => seen'.trades = trades
  /\ pc' \in {"quote.risk", "submit"} /\ run \in Q =>
       /\ seen'.trades = seen.trades
       /\ pc = "quote.risk" \/ (pc = "initial" /\ AsApproved(DOMAIN seen.trades, approved[run]))
Moves(Q) == Stays /\ Writes /\ Reads /\ Onward(Q) /\ ReadsInOrder(Q)

(* The end of a session, or of a command that never became one.            *)
Ends ==
  /\ UNCHANGED <<venueVars, caps, submits, cancelSent, recovery>>
  /\ pc \in InSession \cup Command /\ pc' = "idle" /\ run' = NoRun
  /\ seen' = Nothing /\ attempts' = 0
  /\ \/ pc \in Command /\ ended' = ended
     \/ ended' = [ended EXCEPT ![run] = "crashed"]
     \/ pc \in InSession \ Resting /\ ended' = [ended EXCEPT ![run] = "failed"]
     \/ pc = "stopping" /\ ended' = [ended EXCEPT ![run] = "completed"]
Finishes == Ends /\ Writes

(* An exact cancel.                                                        *)
Cancels ==
  /\ \/ pc = "cancel" /\ attempts' = attempts + 1
     \/ pc = "cleanup" /\ attempts' = attempts
  /\ SendCancel(pc' = IF pc = "cancel" THEN "canceled" ELSE "cleanup.canceled",
                \/ pc = "cancel" /\ pc' = "cancel" /\ MayRetry(attempts')
                \/ pc = "cancel" /\ pc' = "cancelFailed"
                \/ pc = "cleanup" /\ pc' = "cleanup.failed")
  /\ UNCHANGED <<run, n, ended, diskVars, seen, submits, recovery>>

(* The cap file is reserved for an LA6 session; the next LA5 order.        *)
Reserves ==
  /\ pc = "command" /\ pc' = "quote.opening"
  /\ CapFree(run) /\ caps' = caps \cup {run}
  /\ UNCHANGED <<venueVars, journal, run, n, seen, attempts, historyVars>>
GoesOn ==
  /\ pc = "final"
  /\ OrderReconciles(TRUE) /\ seen.open = {}
  /\ NextOrder
  /\ seen' = [seen EXCEPT !.outcomes = @ \cup Outcome("MakerMicroStopped")]
  /\ attempts' = 0
  /\ UNCHANGED <<venueVars, journal, caps, submits, cancelSent, recovery>>

Kinds(Q) ==
  \/ Moves(Q) \/ Finishes \/ Cancels \/ Reserves \/ GoesOn \/ Submit
  \/ \E a \in Approvals \ Q : StartSession(a)
  \/ \E a \in Q : StartQuoteSession(a)
  \/ RecoveryStep
  \/ VenueMoves

(* What a session may write now.                                           *)
MayWrite(events) ==
  \A e \in events :
    /\ LineTyped(e)
    /\ e.type \in CancelTypes => e.order = Current /\ pc \in {"canceled", "cleanup.canceled"}

-----------------------------------------------------------------------------
(* What the steps write.                                                   *)

LEMMA CurrentTyped ==
  ASSUME NEW Q, ProcessTyped(Q), pc \in InSession
  PROVE  run \in Approvals /\ n \in 1..MaxOrders /\ Current \in Intents
BY ApprovalsAssumption DEF ProcessTyped, SessionIntents, Current

LEMMA OrderTradesTyped ==
  ASSUME VenueInv, SeenTyped, ReadsInv
  PROVE  OrderTrades \subseteq Trades
BY DEF VenueInv, VenueTypeOK, SeenTyped, ReadsInv, OrderTrades

LEMMA NothingWritten == UNCHANGED journal => Writes
BY DEF Writes

LEMMA LogWrites ==
  ASSUME NEW events, MayWrite(events), Recorded(events) \/ NotRecorded(events)
  PROVE  Writes
BY DEF Recorded, NotRecorded, Writes, MayWrite

LEMMA NotesMayBeWritten ==
  ASSUME NEW Q, ProcessTyped(Q), pc \in InSession, NEW type,
         type \in CancelTypes => pc \in {"canceled", "cleanup.canceled"}
  PROVE  MayWrite({}) /\ MayWrite(OrderNote(type)) /\ (type \notin CancelTypes => MayWrite(Note(type)))
BY CurrentTyped DEF MayWrite, OrderNote, Note, Event, LineTyped

LEMMA OutcomesMayBeWritten ==
  ASSUME NEW Q, IInv(Q), pc \in InSession, NEW type, type \notin CancelTypes
  PROVE  MayWrite(Outcome(type)) /\ MayWrite(FilledNote)
<1>1. Current \in Intents /\ run \in Approvals /\ OrderTrades \subseteq Trades
  BY CurrentTyped, OrderTradesTyped DEF IInv
<1> QED
  BY <1>1 DEF MayWrite, Outcome, FilledNote, Event, LineTyped, CancelTypes

(* A refusal is written down with the order's id or without. *)
LEMMA RefusalIsNoted ==
  ASSUME Rejected
  PROVE  \E notes \in {Note("MakerOrderRejected"), OrderNote("MakerOrderRejected")} :
           Recorded(notes) \/ NotRecorded(notes)
<1>1. PICK notes \in RefusalNotes : Recorded(notes) \/ NotRecorded(notes)
  BY DEF Rejected, Log
<1>2. notes \in {Note("MakerOrderRejected"), OrderNote("MakerOrderRejected")}
  BY DEF RefusalNotes
<1> QED
  BY <1>1, <1>2

LEMMA SessionWrites ==
  ASSUME NEW Q, IInv(Q), SessionStep \/ QuoteStep
  PROVE  Writes
<1> ProcessTyped(Q) /\ SeenTyped
  BY DEF IInv
<1>1. CASE \/ ReadOpenOrders \/ ReadTrades \/ ReadExact \/ InitialReadback \/ SubmitSlot
           \/ PreSubmitReadback \/ Submit \/ Heartbeat \/ CancelSlot \/ Cancel \/ Cleanup
           \/ CommandReads \/ ReserveCap \/ QuoteInitialReadback \/ QuoteReadLatest \/ QuoteHeartbeat
  <2>1. UNCHANGED journal
    BY <1>1 DEF ReadOpenOrders, ReadTrades, ReadExact, InitialReadback, SubmitSlot, PreSubmitReadback, Submit,
         Heartbeat, CancelSlot, Cancel, Cleanup, CommandReads, ReserveCap, QuoteInitialReadback,
         QuoteReadLatest, QuoteHeartbeat, Step, Read, diskVars
  <2> QED
    BY <2>1, NothingWritten
<1> DEFINE Notes == \E type :
             /\ type \in CancelTypes => pc \in {"canceled", "cleanup.canceled"}
             /\ \E events \in {{}, OrderNote(type)} \cup (IF type \in CancelTypes THEN {} ELSE {Note(type)}) :
                  Recorded(events) \/ NotRecorded(events)
<1>2. ASSUME pc \in InSession, Notes \/ UNCHANGED journal
      PROVE  Writes
  BY <1>2, NotesMayBeWritten, LogWrites, NothingWritten
<1>3. CASE Opening \/ Checks \/ Risk \/ Attempt \/ Rejected \/ Accepted
  <2>1. Notes \/ UNCHANGED journal
    <3>1. CASE Rejected
      BY <3>1, RefusalIsNoted DEF CancelTypes
    <3>2. CASE ~ Rejected
      BY <1>3, <3>2 DEF Opening, Checks, Risk, Attempt, Accepted, Step, Log, diskVars, CancelTypes
    <3> QED
      BY <3>1, <3>2
  <2>2. pc \in InSession
    BY <1>3 DEF Opening, Checks, Risk, Attempt, Rejected, Accepted, Step, InSession, Before, Resting
  <2> QED
    BY <1>2, <2>1, <2>2
<1>4. CASE CancelFailed \/ Canceled \/ CleanupNote \/ PostReconcile
  <2>1. Notes
    BY <1>4 DEF CancelFailed, Canceled, CleanupNote, PostReconcile, ReconciliationNote, Log, CancelTypes
  <2>2. pc \in InSession
    BY <1>4 DEF CancelFailed, Canceled, CleanupNote, PostReconcile, InSession, Resting, Closing
  <2> QED
    BY <1>2, <2>1, <2>2
<1>6. CASE QuoteOpening \/ QuoteRisk \/ QuotePlaced \/ Decide \/ QuoteCanceled
  <2>1. Notes \/ UNCHANGED journal
    BY <1>6 DEF QuoteOpening, QuoteRisk, QuotePlaced, Decide, QuoteCanceled, Step, Log, diskVars, CancelTypes
  <2>2. pc \in InSession
    BY <1>6 DEF QuoteOpening, QuoteRisk, QuotePlaced, Decide, QuoteCanceled, Step, InSession, Before, Resting, Closing
  <2> QED
    BY <1>2, <2>1, <2>2
<1>5. CASE Filled
  <2>1. UNCHANGED journal \/ Recorded(FilledNote) \/ NotRecorded(FilledNote)
    BY <1>5 DEF Filled, Step, Log, diskVars
  <2>2. MayWrite(FilledNote)
    BY <1>5, OutcomesMayBeWritten DEF Filled, Step, InSession, Closing, CancelTypes
  <2> QED
    BY <1>5, <2>1, <2>2, NothingWritten, LogWrites
<1>7. CASE QuotePostReconcile \/ QuoteFinalReconcile
  <2>1. \E passes \in BOOLEAN :
          Recorded(QuoteReconciliationNote(passes)) \/ NotRecorded(QuoteReconciliationNote(passes))
    BY <1>7 DEF QuotePostReconcile, QuoteFinalReconcile, Log, QuoteReconciliationNote
  <2>2. ASSUME NEW passes \in BOOLEAN
        PROVE  MayWrite(QuoteReconciliationNote(passes))
    BY <1>7, CurrentTyped DEF QuotePostReconcile, QuoteFinalReconcile, QuoteReconciliationNote, MayWrite,
       LineTyped, Event, CancelTypes, InSession, Resting, Closing
  <2> QED
    BY <2>1, <2>2, LogWrites
<1>8. CASE FinalReconcile
  <2>1. \E passes \in BOOLEAN :
          Recorded(ReconciliationNote(passes)) \/ NotRecorded(ReconciliationNote(passes))
    BY <1>8 DEF FinalReconcile, ReconciliationNote
  <2>2. ASSUME NEW passes \in BOOLEAN
        PROVE  MayWrite(ReconciliationNote(passes))
    BY <1>8, NotesMayBeWritten DEF FinalReconcile, ReconciliationNote, CancelTypes, InSession, Closing
  <2> QED
    BY <2>1, <2>2, LogWrites
<1>9. CASE Stopping
  <2>1. MayWrite(seen.outcomes)
    BY DEF SeenTyped, MayWrite, CancelTypes
  <2> QED
    BY <1>9, <2>1, LogWrites DEF Stopping, StopWith, Log
<1>10. CASE QuoteStopping
  <2>1. MayWrite(Outcome("QuoteManagerStopped"))
    BY <1>10, OutcomesMayBeWritten DEF QuoteStopping, StopWith, CancelTypes, InSession
  <2> QED
    BY <1>10, <2>1, LogWrites DEF QuoteStopping, StopWith, Log
<1> QED
  BY <1>1, <1>3, <1>4, <1>5, <1>6, <1>7, <1>8, <1>9, <1>10 DEF SessionStep, QuoteStep

(* Where the steps lead.                                                   *)

LEMMA AttemptIsJournaled ==
  ASSUME NEW type \in {"MakerOrderSubmitAttempted", "QuotePlanned"},
         Recorded(Note(type)), UNCHANGED <<run, n>>
  PROVE  Attempted(Current)'
<1> DEFINE e == Event(run, type, Current, NoOrder)
<1>1. e \in journal' /\ e.type = type /\ e.run = run /\ e.intent = Current
  BY DEF Recorded, Note, Event
<1>2. Current' = Current /\ Current[1] = run
  BY DEF Current
<1> HIDE DEF e
<1> QED
  BY <1>1, <1>2 DEF Attempted

LEMMA FillIsJournaled ==
  ASSUME Recorded(FilledNote)
  PROVE  OrderTrades \subseteq JournaledFills'
<1>1. FilledNote \subseteq {x \in journal' : x.type = "MakerOrderFilled"}
  BY DEF Recorded, FilledNote, Event
<1>2. \A e \in FilledNote : e.trades = OrderTrades
  BY DEF FilledNote, Event
<1>3. FilledNote # {}
  BY DEF FilledNote
<1> QED
  BY <1>1, <1>2, <1>3 DEF JournaledFills

(* A step either goes on or ends the session.                              *)
OnItsWay(Q) ==
  IF pc' # "idle" THEN Stays /\ Reads /\ Onward(Q) /\ ReadsInOrder(Q) ELSE Ends

LEMMA MakerMoves ==
  ASSUME NEW Q, IInv(Q), Attempt => run \notin Q,
         Opening \/ Checks \/ ReadOpenOrders \/ ReadTrades \/ ReadExact \/ InitialReadback
         \/ SubmitSlot \/ PreSubmitReadback \/ Risk \/ Attempt \/ Rejected \/ Accepted \/ Heartbeat
         \/ PostReconcile \/ CancelSlot \/ CancelFailed \/ Canceled \/ Filled \/ Stopping \/ CleanupNote
  PROVE  OnItsWay(Q)
<1> USE DEF IInv, ProcessTyped, SeenTyped, PlacedInv, AttemptsInv, SeenFields, Nothing,
    Goto, End, AfterAcceptFailed, KeepSeen, KeepAttempts, diskVars, venueVars, historyVars,
    OnItsWay, Stays, Reads, Onward, ReadsInOrder, Ends, InSession, Before, Resting, Closing, Command,
    Untried, Checking, Cleared, OrderKnown, Recovering, QuotePcs
<1>1. CASE Heartbeat
  BY <1>1 DEF Heartbeat, Step
<1>2. CASE SubmitSlot
  BY <1>2 DEF SubmitSlot, Step
<1>3. CASE PreSubmitReadback
  BY <1>3 DEF PreSubmitReadback, Step, Flat, ReadbackPassed
<1>4. CASE ReadTrades
  BY <1>4, ZenonT(60) DEF ReadTrades, Read
<1>5. CASE ReadOpenOrders
  BY <1>5, ZenonT(60) DEF ReadOpenOrders, Read
<1>6. CASE Risk
  BY <1>6 DEF Risk, Log, Recorded, NotRecorded
<1>7. CASE Opening
  BY <1>7 DEF Opening, Log, Recorded, NotRecorded
<1>8. CASE Checks
  BY <1>8 DEF Checks, Step, Log, Recorded, NotRecorded
<1>9. CASE InitialReadback
  BY <1>9 DEF InitialReadback, Flat, ReadbackPassed
<1>10. CASE ReadExact
  BY <1>10 DEF ReadExact, Read, ExactOrder
<1>11. CASE Attempt
  <2>1. pc' = "submit" => Attempted(Current)'
    BY <1>11, AttemptIsJournaled DEF Attempt, Log, NotRecorded
  <2> QED
    BY <1>11, <2>1 DEF Attempt, Log
<1>12. CASE Rejected
  BY <1>12 DEF Rejected, Log, Recorded, NotRecorded
<1>13. CASE Accepted
  BY <1>13 DEF Accepted, Log, Recorded, NotRecorded
<1>14. CASE PostReconcile
  BY <1>14 DEF PostReconcile, Log, Recorded, NotRecorded
<1>15. CASE CancelSlot
  BY <1>15 DEF CancelSlot, Step
<1>16. CASE CancelFailed
  BY <1>16 DEF CancelFailed, Log, Recorded, NotRecorded
<1>17. CASE Canceled
  BY <1>17 DEF Canceled, Log, Recorded, NotRecorded
<1>18. CASE Filled
  <2>1. pc' = "final" => OrderTrades \subseteq JournaledFills'
    BY <1>18, FillIsJournaled DEF Filled, Log, Step
  <2> QED
    BY <1>18, <2>1 DEF Filled, Log, Step
<1>19. CASE Stopping
  BY <1>19 DEF Stopping, StopWith, Log, Recorded, NotRecorded
<1>20. CASE CleanupNote
  BY <1>20 DEF CleanupNote, Log, Recorded, NotRecorded
<1> QED
  BY <1>1, <1>2, <1>3, <1>4, <1>5, <1>6, <1>7, <1>8, <1>9, <1>10, <1>11, <1>12, <1>13, <1>14, <1>15, <1>16, <1>17, <1>18, <1>19, <1>20

LEMMA QuoteMoves ==
  ASSUME NEW Q, IInv(Q), run \in Q,
         CommandReads \/ QuoteOpening \/ QuoteInitialReadback \/ QuoteRisk \/ QuotePlaced
         \/ QuotePostReconcile \/ QuoteReadLatest \/ Decide \/ QuoteCanceled \/ QuoteHeartbeat
         \/ QuoteFinalReconcile \/ QuoteStopping
  PROVE  OnItsWay(Q)
<1> USE DEF IInv, ProcessTyped, SeenTyped, PlacedInv, AttemptsInv, SeenFields, Nothing,
    Goto, End, AfterAcceptFailed, KeepSeen, KeepAttempts, diskVars, venueVars, historyVars,
    OnItsWay, Stays, Reads, Onward, ReadsInOrder, Ends, InSession, Before, Resting, Closing, Command,
    Untried, Checking, Cleared, OrderKnown, Recovering, QuotePcs
<1>1. CASE CommandReads
  BY <1>1 DEF CommandReads, Read, Refused
<1>2. CASE QuoteOpening
  BY <1>2 DEF QuoteOpening, Log, Recorded, NotRecorded
<1>3. CASE QuoteInitialReadback
  BY <1>3 DEF QuoteInitialReadback, Flat, ReadbackPassed
<1>4. CASE QuoteRisk
  <2>1. pc' = "submit" => Attempted(Current)'
    BY <1>4, AttemptIsJournaled DEF QuoteRisk, Log, Step
  <2> QED
    BY <1>4, <2>1 DEF QuoteRisk, Log, Step
<1>5. CASE QuotePlaced
  BY <1>5 DEF QuotePlaced, Log, Recorded, NotRecorded
<1>6. CASE QuotePostReconcile
  BY <1>6 DEF QuotePostReconcile, Log, Recorded, NotRecorded
<1>7. CASE QuoteReadLatest
  BY <1>7 DEF QuoteReadLatest, Read, ExactOrder
<1>8. CASE Decide
  BY <1>8 DEF Decide, Step, ReadsInv, Log, Recorded, NotRecorded
<1>9. CASE QuoteCanceled
  BY <1>9 DEF QuoteCanceled, Log, Recorded, NotRecorded
<1>10. CASE QuoteHeartbeat
  BY <1>10 DEF QuoteHeartbeat, Step
<1>11. CASE QuoteFinalReconcile
  BY <1>11 DEF QuoteFinalReconcile, Log, Recorded, NotRecorded
<1>12. CASE QuoteStopping
  BY <1>12 DEF QuoteStopping, StopWith, Log, Recorded, NotRecorded
<1> QED
  BY <1>1, <1>2, <1>3, <1>4, <1>5, <1>6, <1>7, <1>8, <1>9, <1>10, <1>11, <1>12

LEMMA CrashEnds ==
  ASSUME NEW Q, IInv(Q), NEW appending, CrashWhile(appending)
  PROVE  Finishes
<1>1. UNCHANGED journal
  BY DEF CrashWhile
<1>2. Ends
  BY DEF CrashWhile, End, KeepSeen, KeepAttempts, Ends, IInv, ProcessTyped
<1> QED
  BY <1>1, <1>2, NothingWritten DEF Finishes

LEMMA SpecialKinds ==
  ASSUME NEW Q, IInv(Q), Writes, Cancel \/ Cleanup \/ ReserveCap \/ FinalReconcile
  PROVE  Cancels \/ Reserves \/ GoesOn \/ Finishes
<1>1. CASE Cancel \/ Cleanup
  BY <1>1 DEF Cancel, Cleanup, Cancels, Goto, SendCancel, diskVars
<1>2. CASE ReserveCap
  BY <1>2 DEF ReserveCap, Reserves, Finishes, Ends, Goto, Refused, KeepSeen, KeepAttempts, Command, historyVars
<1>3. CASE FinalReconcile
  <2>1. CASE pc' = "idle"
    BY <1>3, <2>1 DEF FinalReconcile, NextOrder, End, KeepSeen, Finishes, Ends, InSession, Closing, Resting
  <2>2. CASE pc' # "idle"
    BY <1>3, <2>2 DEF FinalReconcile, End, Recorded, ReconciliationNote, GoesOn
  <2> QED
    BY <2>1, <2>2
<1> QED
  BY <1>1, <1>2, <1>3

(* Every step is of one of the kinds.                                      *)
LEMMA StepIsOfAKind ==
  ASSUME NEW Q, IInv(Q), StepOf(Q)
  PROVE  Kinds(Q)
<1>1. ASSUME OnItsWay(Q), Writes
      PROVE  Moves(Q) \/ Finishes
  BY <1>1 DEF OnItsWay, Moves, Finishes
<1>2. CASE run \in Q /\ QuoteStep
  <2>1. Writes
    BY <1>2, SessionWrites
  <2>2. CASE Cancel \/ Cleanup \/ ReserveCap
    BY <2>1, <2>2, SpecialKinds DEF Kinds
  <2>3. CASE Submit
    BY <2>3 DEF Kinds
  <2>4. CASE \/ ReadOpenOrders \/ ReadTrades \/ ReadExact \/ Rejected \/ CancelFailed \/ CleanupNote
    <3>1. ~ Attempt
      BY <2>4 DEF Attempt, ReadOpenOrders, ReadTrades, ReadExact, Read, Rejected, CancelFailed, CleanupNote
    <3> QED
      BY <1>1, <2>1, <2>4, <3>1, MakerMoves DEF Kinds
  <2>5. CASE \/ CommandReads \/ QuoteOpening \/ QuoteInitialReadback \/ QuoteRisk \/ QuotePlaced
             \/ QuotePostReconcile \/ QuoteReadLatest \/ Decide \/ QuoteCanceled \/ QuoteHeartbeat
             \/ QuoteFinalReconcile \/ QuoteStopping
    BY <1>1, <1>2, <2>1, <2>5, QuoteMoves DEF Kinds
  <2> QED
    BY <1>2, <2>2, <2>3, <2>4, <2>5 DEF QuoteStep
<1>3. CASE run \notin Q /\ SessionStep
  <2>1. Writes
    BY <1>3, SessionWrites
  <2>2. CASE Cancel \/ Cleanup \/ FinalReconcile
    BY <2>1, <2>2, SpecialKinds DEF Kinds
  <2>3. CASE Submit
    BY <2>3 DEF Kinds
  <2>4. CASE ~ (Cancel \/ Cleanup \/ FinalReconcile \/ Submit)
    BY <1>1, <1>3, <2>1, <2>4, MakerMoves DEF SessionStep, Kinds
  <2> QED
    BY <2>2, <2>3, <2>4
<1>4. ASSUME NEW appending, CrashWhile(appending)
      PROVE  Kinds(Q)
  BY <1>4, CrashEnds DEF Kinds
<1> QED
  BY <1>2, <1>3, <1>4 DEF StepOf, Kinds
-----------------------------------------------------------------------------
(* An order that reconciles as closed is closed, and all it ever traded is *)
(* confirmed and among the trades the session holds of it.                 *)
LEMMA ReconciledStatus ==
  ASSUME OrderReconciles(TRUE), ReadsInv
  PROVE  seen.order.status # "live"
<1> DEFINE status == [o \in {Current} |-> ExactStatus]
<1>1. /\ {Current} \subseteq {Current}
      /\ (IF ExactStatus # "Filled" THEN {Current} ELSE {}) \subseteq Having(status, {"Canceled"})
  BY DEF OrderReconciles, Mismatches, OrderMismatches, When
<1>2. ExactStatus \in {"Filled", "Canceled"}
  BY <1>1 DEF Having
<1> QED
  BY <1>2 DEF ExactStatus, ReadsInv

LEMMA ReconciledTrades ==
  ASSUME OrderReconciles(TRUE), ReadsInv
  PROVE  \A t \in OrderTrades : t \in DOMAIN trades /\ trades[t].status = "Confirmed"
<1> DEFINE readback == [t \in DOMAIN seen.trades \cap OrderTrades |-> seen.trades[t]]
           statuses == {readback[t].status : t \in DOMAIN readback}
<1>1. /\ OrderTrades \subseteq DOMAIN readback
      /\ statuses \cap {"Matched", "Mined", "Retrying"} = {}
      /\ "Failed" \notin statuses
  BY ZenonT(60) DEF OrderReconciles, Mismatches, TradeMismatches, When
<1>2. \A t \in OrderTrades : t \in DOMAIN seen.trades /\ seen.trades[t].status \in statuses
  BY <1>1
<1> HIDE DEF statuses
<1> QED
  BY <1>1, <1>2 DEF ReadsInv

LEMMA ReconciledIsSettled ==
  ASSUME OrderReconciles(TRUE), ReadsInv, pc \in {"filled", "final"}
  PROVE  /\ orders[Current].status # "live"
         /\ \A t \in TradesOf(Current) : t \in OrderTrades /\ trades[t].status = "Confirmed"
<1>1. seen.order.status # "live"
  BY ReconciledStatus
<1>2. orders[Current].status = seen.order.status /\ seen.order.trades = TradesOf(Current)
  BY <1>1 DEF ReadsInv, OrderKnown
<1>3. TradesOf(Current) \subseteq OrderTrades
  BY <1>2 DEF OrderTrades
<1> QED
  BY <1>1, <1>2, <1>3, ReconciledTrades

(* An order stands for an approval and the number of the order under it.   *)
LEMMA OrderCounted ==
  ASSUME VenueInv, CountInv, NEW i \in DOMAIN orders \cup inflight
  PROVE  /\ i \in Intents /\ i = <<i[1], i[2]>>
         /\ i[1] \in Approvals /\ i[2] \in 1..MaxOrders
         /\ i[2] <= submits[i[1]]
<1>1. i \in Intents
  BY DEF VenueInv, VenueTypeOK
<1>2. i \in Approvals \X (1..MaxOrders)
  BY <1>1, ApprovalsAssumption DEF SessionIntents
<1>3. i[2] <= submits[i[1]]
  BY DEF CountInv
<1> QED
  BY <1>1, <1>2, <1>3

(* The order whose number the session is at is the one it has placed.      *)
LEMMA OrderAtHand ==
  ASSUME NEW Q, ProcessTyped(Q), HistoryTyped, VenueInv, CountInv, pc \in InSession,
         NEW i \in DOMAIN orders \cup inflight, run = i[1]
  PROVE  /\ i[2] <= n
         /\ ~ i[2] < n => i = Current /\ pc \notin Before
<1>1. n \in Nat /\ run \in Approvals
  BY LimitsAssumption DEF ProcessTyped
<1>2. submits[run] \in Nat /\ submits[run] = IF pc \in Before THEN n - 1 ELSE n
  BY <1>1 DEF HistoryTyped, CountInv
<1>3. i = <<i[1], i[2]>> /\ i[2] \in Nat /\ i[2] <= submits[run]
  BY OrderCounted
<1> QED
  BY <1>1, <1>2, <1>3 DEF Current

-----------------------------------------------------------------------------
(* A step on the way preserves the invariant.                              *)

LEMMA WritesMore ==
  ASSUME Writes
  PROVE  /\ journal \subseteq journal'
         /\ JournaledFills \subseteq JournaledFills'
         /\ \A i : Attempted(i) => Attempted(i)'
BY DEF Writes, JournaledFills, Attempted

LEMMA WritesTyped == JournalTyped /\ Writes => JournalTyped'
BY DEF JournalTyped, LineTyped, Writes

(* A cancel is recorded of an order that the venue has canceled.           *)
LEMMA WritesCancels ==
  ASSUME CancelsInv, Writes,
         pc \in {"canceled", "cleanup.canceled"} => Current \in DOMAIN orders
  PROVE  \A o \in CanceledOrders(journal') : o \in DOMAIN orders /\ orders[o].status = "canceled"
<1>1. \A o \in CanceledOrders(journal') : o \in CanceledOrders(journal)
          \/ (o = Current /\ pc \in {"canceled", "cleanup.canceled"})
  BY DEF CanceledOrders, Writes, CancelTypes
<1> QED
  BY <1>1 DEF CancelsInv

LEMMA MovesTyped ==
  ASSUME NEW Q, IInv(Q), Moves(Q)
  PROVE  (SeenTyped /\ HistoryTyped /\ ProcessTyped(Q) /\ VenueInv)'
<1> USE DEF IInv, Moves, Stays, venueVars, historyVars
<1>1. SeenTyped'
  <2>1. ExactOrder.trades \subseteq DOMAIN trades
    BY DEF ExactOrder, TradesOf
  <2>2. OpenOrders \subseteq Intents
    BY DEF OpenOrders, VenueInv, VenueTypeOK
  <2> QED
    BY <2>1, <2>2 DEF SeenTyped, LineTyped, Reads
<1>2. HistoryTyped'
  BY DEF HistoryTyped
<1>3. ProcessTyped(Q)'
  BY DEF ProcessTyped, Onward, InSession, Before, Resting, Closing, Command, Recovering
<1>4. VenueInv'
  BY DEF VenueInv, VenueTypeOK, TradesHaveOrders
<1> QED
  BY <1>1, <1>2, <1>3, <1>4

LEMMA MovesInv ==
  ASSUME NEW Q, IInv(Q), Moves(Q)
  PROVE  IInv(Q)'
<1>1. (JournalTyped /\ SeenTyped /\ HistoryTyped /\ ProcessTyped(Q) /\ VenueInv)'
  BY MovesTyped, WritesTyped DEF IInv, Moves
<1> USE DEF IInv, Moves, Stays, venueVars, historyVars
<1>2. CountInv'
  BY DEF CountInv, Onward, Before, InSession, Command, Resting, Closing
<1>3. WriteAhead'
  BY WritesMore DEF WriteAhead, AttemptJournaledFirst, Onward
<1>4. FlatInv'
  BY DEF FlatInv, OpenOrders, Reads, ReadsInOrder
<1>5. LateInv'
  BY DEF LateInv, InSession, Before, Resting, Closing, Command
<1>6. PlacedInv' /\ AbandonInv'
  BY DEF PlacedInv, AbandonInv, OpenOrders, Onward, Current
<1>7. CancelsInv'
  <2>1. pc \in {"canceled", "cleanup.canceled"} => Current \in DOMAIN orders
    BY DEF PlacedInv, Closing
  <2> QED
    BY <2>1, WritesCancels DEF CancelsInv, Onward
<1>8. AttemptsInv'
  BY LimitsAssumption DEF AttemptsInv, Onward
<1>9. ReadsInv'
  <2>1. pc \in Resting \cup Closing => ExactOrder.status \in {"live", "matched", "canceled"}
    BY DEF PlacedInv, VenueInv, VenueTypeOK, OrderRecord, ExactOrder
  <2>2. \A t \in DOMAIN trades : trades[t].status \in {"Matched", "Confirmed", "Failed"}
    BY DEF VenueInv, VenueTypeOK, TradeRecord
  <2>3. ExactOrder.status = orders[Current].status /\ ExactOrder.trades = TradesOf(Current)
    BY DEF ExactOrder
  <2>4. Current' = Current /\ TradesOf(Current)' = TradesOf(Current)
    BY DEF Current, TradesOf
  <2>5. pc' = "final" => OrderTrades' \subseteq JournaledFills'
    BY <2>4 DEF ReadsInOrder, OrderTrades
  <2> QED
    BY <2>1, <2>2, <2>3, <2>4, <2>5 DEF ReadsInv, Reads, ReadsInOrder
<1>10. SettledInv(Q)'
  <2> SUFFICES ASSUME NEW o \in DOMAIN orders,
                      \/ ended[o[1]] = "completed"
                      \/ pc' \in InSession /\ run = o[1] /\ (o[2] < n \/ pc' = "stopping")
               PROVE  Settled(Q, o)'
    BY DEF SettledInv
  <2>1. ASSUME Settled(Q, o)
        PROVE  Settled(Q, o)'
    BY <2>1, WritesMore DEF Settled, TradesOf
  <2>2. CASE \/ ended[o[1]] = "completed"
             \/ pc \in InSession /\ run = o[1] /\ o[2] < n
    BY <2>1, <2>2 DEF SettledInv
  <2>3. CASE pc' = "stopping" /\ run = o[1] /\ ~ (pc \in InSession /\ o[2] < n)
    <3>1. pc = "filled" /\ run \in Q /\ OrderReconciles(TRUE)
      BY <2>3 DEF Onward
    <3>2. o = Current
      BY <2>3, <3>1, OrderAtHand DEF InSession, Closing
    <3>3. Settled(Q, o)
      BY <3>1, <3>2, <2>3, ReconciledIsSettled DEF Settled
    <3> QED
      BY <3>3, <2>1
  <2> QED
    BY <2>2, <2>3 DEF Command, InSession, Before, Resting, Closing
<1>11. RecoveryInv'
  BY DEF RecoveryInv, InSession, Before, Resting, Closing, Command
<1> QED
  BY <1>1, <1>2, <1>3, <1>4, <1>5, <1>6, <1>7, <1>8, <1>9, <1>10, <1>11 DEF IInv

-----------------------------------------------------------------------------
(* The end of a session preserves it.                                      *)

LEMMA FinishesTyped ==
  ASSUME NEW Q, IInv(Q), Finishes
  PROVE  (SeenTyped /\ HistoryTyped /\ ProcessTyped(Q) /\ VenueInv)'
<1> USE DEF IInv, Finishes, Ends, venueVars
<1>1. SeenTyped'
  BY DEF SeenTyped, SeenFields, Nothing
<1>2. HistoryTyped'
  BY DEF HistoryTyped
<1>3. ProcessTyped(Q)'
  BY DEF ProcessTyped, InSession, Before, Resting, Closing, Command, QuotePcs
<1>4. VenueInv'
  BY DEF VenueInv, VenueTypeOK, TradesHaveOrders
<1> QED
  BY <1>1, <1>2, <1>3, <1>4

LEMMA FinishesInv ==
  ASSUME NEW Q, IInv(Q), Finishes
  PROVE  IInv(Q)'
<1>1. (JournalTyped /\ SeenTyped /\ HistoryTyped /\ ProcessTyped(Q) /\ VenueInv)'
  BY FinishesTyped, WritesTyped DEF IInv, Finishes
<1> USE DEF IInv, Finishes, Ends, venueVars
<1>0. /\ \A a \in Approvals : a # run => ended'[a] = ended[a]
      /\ run \in Approvals =>
           \/ ended'[run] = ended[run] /\ pc \in Command
           \/ ended'[run] = "crashed"
           \/ ended'[run] = "failed" /\ pc \in InSession \ Resting
           \/ ended'[run] = "completed" /\ pc = "stopping"
      /\ pc' \notin InSession \cup Command
  BY DEF HistoryTyped, InSession, Before, Resting, Closing, Command
<1>2. CountInv'
  <2>1. \A a \in Approvals \ caps : ended'[a] = ended[a] \/ ended'[a] = "crashed"
    BY <1>0 DEF ProcessTyped, InSession
  <2> QED
    BY <2>1, <1>0 DEF CountInv, InSession
<1>3. WriteAhead'
  BY WritesMore DEF WriteAhead, AttemptJournaledFirst
<1>4. FlatInv'
  BY DEF FlatInv, OpenOrders, Checking, Cleared
<1>5. LateInv'
  <2> SUFFICES ASSUME NEW i \in inflight \cup late
               PROVE  ended'[i[1]] \in {"failed", "crashed"}
    BY <1>0 DEF LateInv
  <2>1. i[1] \in Approvals
    BY OrderCounted DEF VenueInv
  <2> QED
    BY <1>0, <2>1 DEF LateInv, InSession, Before, Resting, Closing, Command
<1>6. PlacedInv'
  BY DEF PlacedInv, Resting, Closing
<1>7. AbandonInv'
  <2> SUFFICES ASSUME NEW o \in OpenOrders \ late, ended'[o[1]] = "failed"
               PROVE  o \in cancelSent
    BY DEF AbandonInv, OpenOrders
  <2>1. o[1] \in Approvals /\ o \in DOMAIN orders /\ orders[o].status = "live"
    BY OrderCounted DEF OpenOrders
  <2>2. CASE ended[o[1]] = "failed"
    BY <2>2 DEF AbandonInv
  <2>3. CASE o[1] = run /\ pc \in InSession \ Resting
    <3>1. ~ Settled(Q, o)
      BY <2>1 DEF Settled
    <3>2. ~ o[2] < n /\ pc # "stopping"
      BY <2>1, <2>3, <3>1 DEF SettledInv
    <3>3. o = Current /\ pc \notin Before
      BY <2>1, <2>3, <3>2, OrderAtHand
    <3>4. pc # "rejected"
      BY <2>1, <3>3 DEF PlacedInv
    <3> QED
      BY <2>1, <2>3, <3>2, <3>3, <3>4 DEF PlacedInv, InSession
  <2> QED
    BY <1>0, <2>1, <2>2, <2>3
<1>8. CancelsInv'
  <2>1. pc \in {"canceled", "cleanup.canceled"} => Current \in DOMAIN orders
    BY DEF PlacedInv, Closing
  <2> QED
    BY <2>1, WritesCancels DEF CancelsInv
<1>9. AttemptsInv'
  BY LimitsAssumption DEF AttemptsInv
<1>10. ReadsInv'
  BY DEF ReadsInv, Nothing, OrderKnown
<1>11. SettledInv(Q)'
  <2> SUFFICES ASSUME NEW o \in DOMAIN orders, ended'[o[1]] = "completed"
               PROVE  Settled(Q, o)'
    BY <1>0 DEF SettledInv
  <2>1. o[1] \in Approvals
    BY OrderCounted
  <2>2. Settled(Q, o)
    BY <1>0, <2>1 DEF SettledInv, InSession
  <2> QED
    BY <2>2, WritesMore DEF Settled, TradesOf
<1>12. RecoveryInv'
  BY DEF RecoveryInv
<1> QED
  BY <1>1, <1>2, <1>3, <1>4, <1>5, <1>6, <1>7, <1>8, <1>9, <1>10, <1>11, <1>12 DEF IInv

-----------------------------------------------------------------------------
(* An exact cancel preserves it.                                           *)

LEMMA CancelsOutcome ==
  ASSUME NEW Q, IInv(Q), Cancels
  PROVE  /\ DOMAIN orders' = DOMAIN orders
         /\ \A o \in DOMAIN orders :
              \/ orders'[o] = orders[o]
              \/ /\ o = Current /\ orders[o].status = "live" /\ orders'[o].status = "canceled"
                 /\ orders'[o].matched = orders[o].matched /\ orders'[o] \in OrderRecord
         /\ pc' \in {"canceled", "cleanup.canceled"} => orders'[Current].status = "canceled"
         /\ UNCHANGED <<trades, inflight, late>>
         /\ cancelSent' = cancelSent \cup {Current}
         /\ pc \in Resting /\ Current \in DOMAIN orders
         /\ pc' \in {"cancel", "canceled", "cancelFailed", "cleanup.canceled", "cleanup.failed"}
<1>1. pc \in Resting /\ Current \in DOMAIN orders
  BY DEF Cancels, Resting, IInv, PlacedInv
<1>2. orders[Current] \in OrderRecord
  BY <1>1 DEF IInv, VenueInv, VenueTypeOK
<1>3. CASE Close(Current)
  <2>1. /\ orders' = [orders EXCEPT ![Current] = [orders[Current] EXCEPT !.status = "canceled"]]
        /\ orders[Current].status = "live"
    BY <1>3 DEF Close, OpenOrders
  <2>2. orders'[Current] = [orders[Current] EXCEPT !.status = "canceled"]
    BY <1>1, <2>1
  <2>3. /\ orders'[Current].status = "canceled" /\ orders'[Current].matched = orders[Current].matched
        /\ orders'[Current] \in OrderRecord
    BY <1>2, <2>2 DEF OrderRecord
  <2> QED
    BY <1>1, <1>3, <2>1, <2>3 DEF Cancels, SendCancel, Close
<1>4. CASE ~ Close(Current) /\ UNCHANGED venueVars
  BY <1>1, <1>4 DEF Cancels, SendCancel, venueVars
<1> QED
  BY <1>3, <1>4 DEF Cancels, SendCancel

LEMMA CancelsInvariant ==
  ASSUME NEW Q, IInv(Q), Cancels
  PROVE  IInv(Q)'
<1> USE DEF IInv
<1>1. UNCHANGED <<run, n, ended, journal, caps, seen, submits, recovery>> /\ Current' = Current
  BY DEF Cancels, diskVars, Current
<1>2. /\ DOMAIN orders' = DOMAIN orders
      /\ \A o \in DOMAIN orders :
           \/ orders'[o] = orders[o]
           \/ /\ o = Current /\ orders[o].status = "live" /\ orders'[o].status = "canceled"
              /\ orders'[o].matched = orders[o].matched /\ orders'[o] \in OrderRecord
      /\ pc' \in {"canceled", "cleanup.canceled"} => orders'[Current].status = "canceled"
      /\ UNCHANGED <<trades, inflight, late>>
      /\ cancelSent' = cancelSent \cup {Current}
      /\ pc \in Resting /\ Current \in DOMAIN orders
      /\ pc' \in {"cancel", "canceled", "cancelFailed", "cleanup.canceled", "cleanup.failed"}
  BY CancelsOutcome
<1>3. pc \in InSession /\ pc' \in InSession
  BY <1>2 DEF InSession, Resting, Closing
<1>4. (JournalTyped /\ SeenTyped)'
  BY <1>1, <1>2 DEF JournalTyped, SeenTyped, LineTyped
<1>5. HistoryTyped'
  <2>1. Current \in Intents
    BY <1>3, CurrentTyped
  <2> QED
    BY <1>1, <1>2, <2>1 DEF HistoryTyped
<1>6. ProcessTyped(Q)'
  BY <1>1, <1>2, <1>3 DEF ProcessTyped, InSession, Before, Resting, Closing, Command, Recovering, QuotePcs
<1>7. VenueInv'
  BY <1>2 DEF VenueInv, VenueTypeOK, TradesHaveOrders
<1>8. CountInv'
  BY <1>1, <1>2, <1>3 DEF CountInv, Before, Resting
<1>9. WriteAhead'
  BY <1>1, <1>2 DEF WriteAhead, AttemptJournaledFirst, Attempted
<1>10. OpenOrders' \subseteq OpenOrders
  BY <1>2 DEF OpenOrders
<1>11. FlatInv'
  BY <1>2, <1>10 DEF FlatInv, Checking, Cleared
<1>12. LateInv'
  BY <1>1, <1>2, <1>3 DEF LateInv, Resting
<1>13. PlacedInv' /\ AbandonInv'
  BY <1>1, <1>2, <1>10 DEF PlacedInv, AbandonInv, Resting
<1>14. CancelsInv'
  BY <1>1, <1>2 DEF CancelsInv
<1>15. AttemptsInv'
  BY <1>2, LimitsAssumption DEF AttemptsInv, Cancels, SendCancel, MayRetry, Untried, Before, Command, Recovering, Resting
<1>16. ReadsInv'
  <2>1. pc' \notin OrderKnown
    BY <1>2 DEF OrderKnown
  <2> QED
    BY <1>1, <1>2, <2>1 DEF ReadsInv, OrderKnown
<1>17. SettledInv(Q)'
  <2> SUFFICES ASSUME NEW o \in DOMAIN orders,
                      ended[o[1]] = "completed" \/ (run = o[1] /\ o[2] < n)
               PROVE  Settled(Q, o)'
    BY <1>1, <1>2 DEF SettledInv
  <2>1. Settled(Q, o)
    BY <1>3 DEF SettledInv
  <2> QED
    BY <1>1, <1>2, <2>1 DEF Settled, TradesOf, JournaledFills
<1>18. RecoveryInv'
  BY <1>2 DEF RecoveryInv
<1> QED
  BY <1>4, <1>5, <1>6, <1>7, <1>8, <1>9, <1>11, <1>12, <1>13, <1>14, <1>15, <1>16, <1>17, <1>18

-----------------------------------------------------------------------------
(* The submit preserves it.                                                *)

LEMMA SubmitCounts ==
  ASSUME NEW Q, IInv(Q), Submit
  PROVE  /\ submits'[run] = submits[run] + 1 /\ submits'[run] = n /\ n <= MaxOrders
         /\ \A a \in Approvals : a # run => submits'[a] = submits[a]
         /\ submits' \in [Approvals -> Nat]
         /\ run \in Approvals /\ n \in 1..MaxOrders /\ Current \in Intents
         /\ Current \notin DOMAIN orders \cup inflight
<1>1. pc = "submit" /\ pc \in InSession /\ pc \in Before
  BY DEF Submit, InSession, Before
<1>2. run \in Approvals /\ n \in 1..MaxOrders /\ Current \in Intents
  BY <1>1, CurrentTyped DEF IInv
<1>3. submits \in [Approvals -> Nat] /\ submits[run] = n - 1
  BY <1>1 DEF IInv, HistoryTyped, CountInv
<1>4. submits' = [submits EXCEPT ![run] = @ + 1]
  BY DEF Submit
<1>5. ASSUME Current \in DOMAIN orders \cup inflight
      PROVE  FALSE
  <2>1. Current[1] = run /\ Current[2] = n
    BY DEF Current
  <2>2. n <= submits[run]
    BY <1>5, <2>1 DEF IInv, CountInv
  <2> QED
    BY <1>2, <1>3, <2>2, LimitsAssumption
<1> QED
  BY <1>2, <1>3, <1>4, <1>5, LimitsAssumption

LEMMA SubmitInv ==
  ASSUME NEW Q, IInv(Q), Submit
  PROVE  IInv(Q)'
<1> USE DEF IInv
<1>1. /\ UNCHANGED <<run, n, ended, journal, caps, seen, attempts, trades, late, cancelSent, recovery>>
      /\ Current' = Current
      /\ pc = "submit" /\ pc' \in {"accepted", "rejected"}
      /\ \/ orders' = With(orders, Current, Fresh) /\ inflight' = inflight /\ pc' = "accepted"
         \/ orders' = orders /\ inflight' = inflight /\ pc' = "rejected"
         \/ orders' = orders /\ inflight' = inflight \cup {Current} /\ pc' = "rejected"
  BY DEF Submit, Accept, LoseSubmit, Goto, KeepSeen, KeepAttempts, diskVars, venueVars, Current
<1>2. /\ submits'[run] = submits[run] + 1 /\ submits'[run] = n /\ n <= MaxOrders
      /\ \A a \in Approvals : a # run => submits'[a] = submits[a]
      /\ submits' \in [Approvals -> Nat]
      /\ run \in Approvals /\ n \in 1..MaxOrders /\ Current \in Intents
      /\ Current \notin DOMAIN orders \cup inflight
  BY SubmitCounts
<1>3. /\ DOMAIN orders' = IF pc' = "accepted" THEN DOMAIN orders \cup {Current} ELSE DOMAIN orders
      /\ \A o \in DOMAIN orders : orders'[o] = orders[o]
      /\ pc' = "accepted" => orders'[Current] = Fresh
  BY <1>1, <1>2 DEF With
<1>4. Fresh \in OrderRecord /\ Fresh.status = "live"
  BY OrderSizeAssumption DEF Fresh, OrderRecord
<1>5. pc \in InSession /\ pc' \in InSession
  BY <1>1 DEF InSession, Before, Resting
<1>6. (JournalTyped /\ SeenTyped /\ HistoryTyped)'
  BY <1>1, <1>2 DEF JournalTyped, SeenTyped, LineTyped, HistoryTyped
<1>7. ProcessTyped(Q)'
  BY <1>1, <1>5 DEF ProcessTyped, InSession, Before, Resting, Closing, Command, Recovering, QuotePcs
<1>8. VenueInv'
  <2>1. VenueTypeOK'
    BY <1>1, <1>2, <1>3, <1>4 DEF VenueInv, VenueTypeOK
  <2>2. TradesHaveOrders'
    BY <1>1, <1>3 DEF VenueInv, TradesHaveOrders
  <2> QED
    BY <1>1, <1>2, <1>3, <2>1, <2>2 DEF VenueInv
<1>9. CountInv'
  <2>1. \A a \in Approvals : submits'[a] >= submits[a] /\ submits'[a] <= MaxOrders
    <3>1. \A a \in Approvals : submits[a] \in Nat /\ submits[a] <= MaxOrders
      BY DEF CountInv, HistoryTyped
    <3>2. submits'[run] >= submits[run] /\ submits'[run] <= MaxOrders
      BY <1>2, <3>1, LimitsAssumption
    <3> QED
      BY <1>2, <3>1, <3>2
  <2>2. \A a \in Approvals \ caps : a # run
    BY <1>5 DEF ProcessTyped
  <2>3. pc' \notin Before
    BY <1>1 DEF Before
  <2>4. \A i \in DOMAIN orders' \cup inflight' : i[2] <= submits'[i[1]]
    <3> SUFFICES ASSUME NEW i \in DOMAIN orders' \cup inflight'
                 PROVE  i[2] <= submits'[i[1]]
      OBVIOUS
    <3>1. CASE i \in DOMAIN orders \cup inflight
      <4>1. i[2] \in Nat /\ i[2] <= submits[i[1]] /\ i[1] \in Approvals
        BY <3>1, OrderCounted
      <4>2. submits[i[1]] \in Nat /\ submits'[i[1]] \in Nat
        BY <1>2, <4>1 DEF HistoryTyped
      <4> QED
        BY <2>1, <4>1, <4>2
    <3>2. CASE i = Current
      <4>1. i[1] = run /\ i[2] = n
        BY <3>2 DEF Current
      <4>2. n \in Nat /\ submits'[run] = submits[run] + 1 /\ submits[run] \in Nat
        BY <1>2, LimitsAssumption DEF HistoryTyped
      <4> QED
        BY <1>2, <4>1, <4>2
    <3> QED
      BY <1>1, <1>3, <3>1, <3>2
  <2> QED
    BY <1>1, <1>2, <1>5, <2>1, <2>2, <2>3, <2>4 DEF CountInv
<1>10. WriteAhead'
  BY <1>1, <1>3 DEF WriteAhead, AttemptJournaledFirst, Attempted
<1>11. OpenOrders' \subseteq OpenOrders \cup {Current} /\ OpenOrders \subseteq late
  BY <1>1, <1>3 DEF OpenOrders, FlatInv, Cleared
<1>12. FlatInv'
  BY <1>1, <1>11 DEF FlatInv, Checking, Cleared
<1>13. LateInv'
  <2> SUFFICES ASSUME NEW i \in inflight' \cup late'
               PROVE  IF run = i[1] THEN pc' = "rejected" /\ i[2] = n
                      ELSE ended[i[1]] \in {"failed", "crashed"}
    BY <1>1, <1>5 DEF LateInv
  <2>1. CASE i \in inflight \cup late
    BY <1>1, <1>5, <2>1 DEF LateInv
  <2>2. CASE i = Current /\ pc' = "rejected"
    BY <2>2 DEF Current
  <2> QED
    BY <1>1, <2>1, <2>2
<1>14. PlacedInv'
  BY <1>1, <1>2, <1>3 DEF PlacedInv, Resting, Closing
<1>15. AbandonInv'
  <2>1. ended[run] # "failed"
    BY <1>5 DEF CountInv
  <2> QED
    BY <1>1, <1>11, <2>1 DEF AbandonInv, Current
<1>16. CancelsInv'
  BY <1>1, <1>3 DEF CancelsInv
<1>17. AttemptsInv'
  BY <1>1 DEF AttemptsInv, Untried, Before
<1>18. ReadsInv'
  BY <1>1 DEF ReadsInv, OrderKnown
<1>19. SettledInv(Q)'
  <2> SUFFICES ASSUME NEW o \in DOMAIN orders',
                      ended[o[1]] = "completed" \/ (run = o[1] /\ o[2] < n)
               PROVE  Settled(Q, o)'
    BY <1>1 DEF SettledInv
  <2>1. ended[run] # "completed"
    BY <1>5 DEF CountInv
  <2>2. o \in DOMAIN orders
    BY <1>2, <1>3, <2>1 DEF Current
  <2>3. Settled(Q, o)
    BY <1>5, <2>2 DEF SettledInv
  <2> QED
    BY <1>1, <1>3, <2>2, <2>3 DEF Settled, TradesOf, JournaledFills
<1>20. RecoveryInv'
  BY <1>1 DEF RecoveryInv
<1> QED
  BY <1>6, <1>7, <1>8, <1>9, <1>10, <1>12, <1>13, <1>14, <1>15, <1>16, <1>17, <1>18, <1>19, <1>20

-----------------------------------------------------------------------------
(* The starts of sessions, orders and recoveries preserve it.              *)

(* A session that starts has submitted nothing under its approval.         *)
LEMMA FreshApproval ==
  ASSUME NEW Q, IInv(Q), NEW a \in Approvals \ caps
  PROVE  /\ submits[a] = 0 /\ ended[a] \in {"not yet", "crashed"}
         /\ \A i \in DOMAIN orders \cup inflight : i[1] # a
<1>1. submits[a] = 0 /\ ended[a] \in {"not yet", "crashed"}
  BY DEF IInv, CountInv
<1>2. ASSUME NEW i \in DOMAIN orders \cup inflight, i[1] = a
      PROVE  FALSE
  <2>1. i[2] \in 1..MaxOrders /\ i[2] <= submits[a]
    BY <1>2, OrderCounted DEF IInv
  <2>2. i[2] <= 0
    BY <1>1, <2>1
  <2>3. i[2] >= 1
    BY <2>1, LimitsAssumption
  <2> QED
    BY <2>1, <2>2, <2>3, LimitsAssumption
<1> QED
  BY <1>1, <1>2

(* What does not touch the venue or the journal preserves what is said of  *)
(* them alone.                                                             *)
LEMMA VenueUntouched ==
  ASSUME UNCHANGED <<venueVars, journal, submits, cancelSent, ended, recovery>>
  PROVE  /\ VenueInv => VenueInv'
         /\ JournalTyped => JournalTyped'
         /\ HistoryTyped => HistoryTyped'
         /\ AttemptJournaledFirst => AttemptJournaledFirst'
         /\ AbandonInv => AbandonInv'
         /\ OpenOrders' = OpenOrders
         /\ CanceledOrders(journal') = CanceledOrders(journal)
         /\ \A Q, o : Settled(Q, o) => Settled(Q, o)'
<1> USE DEF venueVars
<1>1. OpenOrders' = OpenOrders
  BY DEF OpenOrders
<1>2. AbandonInv => AbandonInv'
  BY <1>1 DEF AbandonInv
<1> QED
  BY <1>1, <1>2 DEF VenueInv, VenueTypeOK, TradesHaveOrders, JournalTyped, LineTyped, HistoryTyped,
     AttemptJournaledFirst, Attempted, CanceledOrders, Settled, TradesOf, JournaledFills

LEMMA ReservesInv ==
  ASSUME NEW Q, IInv(Q), Reserves, Q \subseteq Approvals
  PROVE  IInv(Q)'
<1> USE DEF IInv, Reserves, CapFree, venueVars, historyVars
<1>1. (VenueInv /\ JournalTyped /\ HistoryTyped /\ AttemptJournaledFirst /\ AbandonInv)'
      /\ OpenOrders' = OpenOrders /\ CanceledOrders(journal') = CanceledOrders(journal)
      /\ \A o : Settled(Q, o) => Settled(Q, o)'
  BY VenueUntouched DEF WriteAhead
<1>2. pc' \in InSession /\ pc' \in Before /\ pc \notin InSession
  BY DEF InSession, Before, Resting, Closing
<1>3. run \in Approvals \ caps /\ n = 1 /\ run \in Q
  BY DEF ProcessTyped, Command
<1>4. /\ submits[run] = 0 /\ ended[run] \in {"not yet", "crashed"}
      /\ \A i \in DOMAIN orders \cup inflight : i[1] # run
  BY <1>3, FreshApproval
<1>5. SeenTyped'
  BY DEF SeenTyped, LineTyped
<1>6. ProcessTyped(Q)'
  BY <1>2, <1>3, LimitsAssumption DEF ProcessTyped, Command, Recovering
<1>7. CountInv'
  <2>1. \A a \in Approvals \ caps' : a \in Approvals \ caps
    OBVIOUS
  <2>2. n - 1 = 0
    BY <1>3
  <2> QED
    BY <1>2, <1>3, <1>4, <2>1, <2>2 DEF CountInv
<1>8. WriteAhead' /\ FlatInv'
  BY <1>1 DEF WriteAhead, FlatInv, Checking, Cleared
<1>9. LateInv'
  BY <1>2, <1>4 DEF LateInv, VenueInv
<1>10. PlacedInv' /\ CancelsInv' /\ RecoveryInv'
  BY <1>1 DEF PlacedInv, CancelsInv, RecoveryInv, Resting, Closing
<1>11. AttemptsInv' /\ ReadsInv'
  BY DEF AttemptsInv, ReadsInv, Untried, Command, Before, OrderKnown
<1>12. SettledInv(Q)'
  BY <1>1, <1>4 DEF SettledInv
<1> QED
  BY <1>1, <1>5, <1>6, <1>7, <1>8, <1>9, <1>10, <1>11, <1>12

LEMMA GoesOnInv ==
  ASSUME NEW Q, IInv(Q), GoesOn
  PROVE  IInv(Q)'
<1> USE DEF IInv
<1>1. /\ UNCHANGED <<venueVars, journal, submits, cancelSent, ended, recovery>>
      /\ UNCHANGED <<orders, trades, inflight, late, run, caps>>
      /\ pc = "final" /\ pc' \in {"slot", "stopping"} /\ attempts' = 0
      /\ pc' = "slot" => n' = n + 1 /\ n < MaxOrders
      /\ pc' = "stopping" => n' = n
  BY DEF GoesOn, NextOrder, venueVars
<1>2. (VenueInv /\ JournalTyped /\ HistoryTyped /\ AttemptJournaledFirst /\ AbandonInv)'
      /\ OpenOrders' = OpenOrders /\ CanceledOrders(journal') = CanceledOrders(journal)
      /\ \A o : Settled(Q, o) => Settled(Q, o)'
  BY <1>1, VenueUntouched DEF WriteAhead
<1>3. pc \in InSession /\ pc' \in InSession /\ pc \notin QuotePcs /\ pc' \notin QuotePcs
  BY <1>1 DEF InSession, Before, Closing, QuotePcs
<1>4. run \in Approvals /\ n \in 1..MaxOrders /\ submits[run] \in Nat /\ submits[run] = n
  BY <1>1, <1>3, CurrentTyped DEF CountInv, HistoryTyped, Before
<1>5. n' \in 1..MaxOrders /\ submits[run] = IF pc' = "slot" THEN n' - 1 ELSE n'
  BY <1>1, <1>4, LimitsAssumption
<1>6. SeenTyped' /\ ReadsInv'
  <2>1. /\ DOMAIN seen' = SeenFields
        /\ seen'.open = seen.open /\ seen'.trades = seen.trades /\ seen'.placed = seen.placed
        /\ seen'.order = seen.order
        /\ seen'.outcomes = seen.outcomes \cup Outcome("MakerMicroStopped")
    BY DEF GoesOn, SeenTyped, SeenFields
  <2>2. \A e \in Outcome("MakerMicroStopped") : LineTyped(e) /\ e.type = "MakerMicroStopped"
    <3>1. MayWrite(Outcome("MakerMicroStopped"))
      BY <1>3, OutcomesMayBeWritten DEF CancelTypes
    <3> QED
      BY <3>1 DEF MayWrite, Outcome, Event
  <2> QED
    BY <1>1, <2>1, <2>2 DEF SeenTyped, ReadsInv, OrderKnown, LineTyped
<1>7. ProcessTyped(Q)'
  BY <1>1, <1>3, <1>5 DEF ProcessTyped, InSession, Before, Resting, Closing, Command, Recovering
<1>8. CountInv'
  BY <1>1, <1>3, <1>5 DEF CountInv, Before
<1>9. WriteAhead' /\ FlatInv'
  BY <1>1, <1>2 DEF WriteAhead, FlatInv, Checking, Cleared
<1>10. LateInv'
  BY <1>1, <1>3 DEF LateInv
<1>11. PlacedInv' /\ CancelsInv' /\ RecoveryInv'
  BY <1>1, <1>2 DEF PlacedInv, CancelsInv, RecoveryInv, Resting, Closing
<1>12. AttemptsInv'
  BY <1>1, LimitsAssumption DEF AttemptsInv
<1>13. Settled(Q, Current)
  <2>1. \A t \in TradesOf(Current) : t \in OrderTrades /\ trades[t].status = "Confirmed"
        /\ orders[Current].status # "live"
    BY <1>1, ReconciledIsSettled DEF GoesOn
  <2>2. OrderTrades \subseteq JournaledFills
    BY <1>1 DEF ReadsInv
  <2>3. orders[Current].status # "live"
    BY <1>1, ReconciledIsSettled DEF GoesOn
  <2> QED
    BY <2>1, <2>2, <2>3 DEF Settled
<1>14. SettledInv(Q)'
  <2> SUFFICES ASSUME NEW o \in DOMAIN orders, ended[o[1]] = "completed" \/ run = o[1]
               PROVE  Settled(Q, o)
    BY <1>1, <1>2 DEF SettledInv
  <2>1. CASE ended[o[1]] = "completed"
    BY <2>1 DEF SettledInv
  <2>2. CASE run = o[1]
    <3>1. o[2] < n \/ o = Current
      BY <1>3, <2>2, OrderAtHand
    <3> QED
      BY <1>3, <1>13, <2>2, <3>1 DEF SettledInv
  <2> QED
    BY <2>1, <2>2
<1> QED
  BY <1>2, <1>6, <1>7, <1>8, <1>9, <1>10, <1>11, <1>12, <1>14

LEMMA StartsInv ==
  ASSUME NEW Q, Q \subseteq Approvals, IInv(Q),
         \/ \E a \in Approvals \ Q : StartSession(a)
         \/ \E a \in Q : StartQuoteSession(a)
  PROVE  IInv(Q)'
<1> USE DEF IInv
<1>1. PICK a \in Approvals :
        /\ UNCHANGED <<venueVars, journal, submits, cancelSent, ended, recovery>>
        /\ UNCHANGED <<orders, trades, inflight, late>>
        /\ pc = "idle" /\ run' = a /\ n' = 1 /\ seen' = Nothing /\ attempts' = 0
        /\ \/ a \in Approvals \ caps /\ a \notin Q /\ pc' = "opening" /\ caps' = caps \cup {a}
           \/ a \in Q /\ pc' = "command.orders" /\ caps' = caps
  BY DEF StartSession, StartQuoteSession, CapFree, venueVars, diskVars, historyVars
<1>2. (VenueInv /\ JournalTyped /\ HistoryTyped /\ AttemptJournaledFirst /\ AbandonInv)'
      /\ OpenOrders' = OpenOrders /\ CanceledOrders(journal') = CanceledOrders(journal)
      /\ \A o : Settled(Q, o) => Settled(Q, o)'
  BY <1>1, VenueUntouched DEF WriteAhead
<1>3. /\ pc \notin InSession
      /\ pc' \in InSession => pc' = "opening" /\ pc' \in Before
      /\ pc' \notin Resting \cup Closing \cup Checking \cup Cleared \cup OrderKnown \cup Recovering
      /\ pc' \in Untried \cap (InSession \cup Command)
  BY <1>1 DEF InSession, Before, Resting, Closing, Checking, Cleared, OrderKnown, Recovering, Untried, Command
<1>4. pc' = "opening" =>
        /\ submits[a] = 0 /\ ended[a] \in {"not yet", "crashed"}
        /\ \A i \in DOMAIN orders \cup inflight : i[1] # a
  <2>1. pc' = "opening" => a \in Approvals \ caps
    BY <1>1
  <2> QED
    BY <2>1, FreshApproval
<1>5. SeenTyped' /\ ReadsInv'
  BY <1>1, <1>3 DEF SeenTyped, SeenFields, Nothing, ReadsInv, OrderKnown, Closing
<1>6. ProcessTyped(Q)'
  BY <1>1, LimitsAssumption DEF ProcessTyped, InSession, Before, Resting, Closing, Command, Recovering, QuotePcs
<1>7. CountInv'
  <2>1. \A b \in Approvals \ caps' : b \in Approvals \ caps
    BY <1>1
  <2>2. n' - 1 = 0
    BY <1>1
  <2>3. pc' = "opening" => submits'[run'] = 0 /\ ended'[run'] \in {"not yet", "crashed"}
    BY <1>1, <1>4
  <2> QED
    BY <1>1, <1>3, <2>1, <2>2, <2>3 DEF CountInv
<1>8. WriteAhead' /\ FlatInv'
  BY <1>1, <1>2, <1>3 DEF WriteAhead, FlatInv
<1>9. LateInv'
  BY <1>1, <1>3, <1>4 DEF LateInv, VenueInv
<1>10. PlacedInv' /\ CancelsInv' /\ RecoveryInv'
  BY <1>1, <1>2, <1>3 DEF PlacedInv, CancelsInv, RecoveryInv, Recovering, Closing
<1>11. AttemptsInv'
  BY <1>1, LimitsAssumption DEF AttemptsInv
<1>12. SettledInv(Q)'
  BY <1>1, <1>2, <1>3, <1>4 DEF SettledInv
<1> QED
  BY <1>2, <1>5, <1>6, <1>7, <1>8, <1>9, <1>10, <1>11, <1>12

(* A recovery writes nothing that is read back, and moves on by its reads. *)
LEMMA RecoveryShape ==
  ASSUME NEW Q, IInv(Q), RecoveryStep
  PROVE  /\ UNCHANGED <<venueVars, journal, submits, cancelSent, ended>>
         /\ UNCHANGED <<orders, trades, inflight, late, run, n, attempts, caps>>
         /\ recovery' \in {recovery, "passed", "halted"}
         /\ pc \in Recovering \cup {"idle"} /\ pc' \in Recovering \cup {"idle"}
         /\ pc' # "recover.trades" /\ pc' # "recover" => seen'.open = {} /\ seen'.placed = {}
         /\ pc' = "recover.trades" => seen'.open = OpenOrders /\ seen'.placed = DOMAIN orders
         /\ pc' = "recover" => /\ pc = "recover.trades" /\ seen'.trades = trades
                               /\ seen'.open = seen.open /\ seen'.placed = seen.placed
         /\ pc' # "recover" => seen'.trades = seen.trades \/ seen'.trades = << >>
         /\ DOMAIN seen' = SeenFields
         /\ seen'.order = seen.order \/ seen'.order = Nothing.order
         /\ seen'.outcomes = seen.outcomes \/ seen'.outcomes = {}
<1>1. CASE StartRecovery
  BY <1>1 DEF StartRecovery, Nothing, SeenFields, venueVars, diskVars, historyVars, Recovering
<1>2. CASE RecoveryReadsOrders
  BY <1>2 DEF RecoveryReadsOrders, IInv, SeenTyped, SeenFields, venueVars, diskVars, historyVars, Recovering
<1>3. CASE RecoveryReadsTrades
  BY <1>3 DEF RecoveryReadsTrades, IInv, SeenTyped, SeenFields, venueVars, diskVars, historyVars, Recovering
<1>4. CASE EvaluateRecovery
  BY <1>4 DEF EvaluateRecovery, Recorded, NotRecorded, KeepSeen, Nothing, SeenFields, venueVars, Recovering
<1> QED
  BY <1>1, <1>2, <1>3, <1>4 DEF RecoveryStep

LEMMA RecoveryPreserves ==
  ASSUME NEW Q, IInv(Q), RecoveryStep
  PROVE  IInv(Q)'
<1> USE DEF IInv
<1>1. /\ UNCHANGED <<venueVars, journal, submits, cancelSent, ended>>
      /\ UNCHANGED <<orders, trades, inflight, late, run, n, attempts, caps>>
      /\ recovery' \in {recovery, "passed", "halted"}
      /\ pc \in Recovering \cup {"idle"} /\ pc' \in Recovering \cup {"idle"}
      /\ pc' # "recover.trades" /\ pc' # "recover" => seen'.open = {} /\ seen'.placed = {}
      /\ pc' = "recover.trades" => seen'.open = OpenOrders /\ seen'.placed = DOMAIN orders
      /\ pc' = "recover" => /\ pc = "recover.trades" /\ seen'.trades = trades
                            /\ seen'.open = seen.open /\ seen'.placed = seen.placed
      /\ pc' # "recover" => seen'.trades = seen.trades \/ seen'.trades = << >>
      /\ DOMAIN seen' = SeenFields
      /\ seen'.order = seen.order \/ seen'.order = Nothing.order
      /\ seen'.outcomes = seen.outcomes \/ seen'.outcomes = {}
  BY RecoveryShape
<1>2. OpenOrders' = OpenOrders /\ \A o : TradesOf(o)' = TradesOf(o)
  BY <1>1 DEF OpenOrders, TradesOf
<1>3. pc \notin InSession \cup Command /\ pc' \notin InSession \cup Command
  BY <1>1 DEF InSession, Before, Resting, Closing, Command, Recovering
<1>4. JournalTyped' /\ HistoryTyped' /\ VenueInv'
  BY <1>1 DEF JournalTyped, LineTyped, HistoryTyped, VenueInv, VenueTypeOK, TradesHaveOrders
<1>5. SeenTyped'
  <2>1. OpenOrders \subseteq Intents /\ DOMAIN orders \subseteq Intents
    BY DEF OpenOrders, VenueInv, VenueTypeOK
  <2> QED
    BY <1>1, <2>1 DEF SeenTyped, Nothing, LineTyped
<1>6. ProcessTyped(Q)'
  BY <1>1, <1>3 DEF ProcessTyped, Recovering, QuotePcs
<1>7. CountInv' /\ WriteAhead'
  BY <1>1, <1>3 DEF CountInv, WriteAhead, AttemptJournaledFirst, Attempted, InSession, Before
<1>8. FlatInv' /\ AbandonInv'
  BY <1>1, <1>2, <1>3 DEF FlatInv, AbandonInv, Checking, Cleared, InSession, Before
<1>9. LateInv'
  BY <1>1, <1>3 DEF LateInv
<1>10. PlacedInv' /\ CancelsInv'
  BY <1>1, <1>3 DEF PlacedInv, CancelsInv, InSession, Closing
<1>11. AttemptsInv'
  BY <1>1 DEF AttemptsInv, Untried, Recovering
<1>12. ReadsInv'
  <2>1. \A t \in DOMAIN trades : trades[t].status \in {"Matched", "Confirmed", "Failed"}
    BY DEF VenueInv, VenueTypeOK, TradeRecord
  <2>2. pc' \notin OrderKnown
    BY <1>1 DEF OrderKnown, Recovering
  <2>3. seen'.trades = seen.trades \/ seen'.trades = << >> \/ seen'.trades = trades
    BY <1>1
  <2> QED
    BY <1>1, <2>1, <2>2, <2>3 DEF ReadsInv, Nothing, OrderKnown
<1>13. SettledInv(Q)'
  BY <1>1, <1>2, <1>3 DEF SettledInv, Settled, JournaledFills
<1>14. RecoveryInv'
  <2>1. pc' = "recover.trades" => \A o \in DOMAIN orders : o \in OpenOrders \/ orders[o].status # "live"
    BY DEF OpenOrders
  <2>2. pc' = "recover" => \A o \in seen.placed \ seen.open : TradesOf(o) \subseteq DOMAIN trades
    BY DEF TradesOf
  <2> QED
    BY <1>1, <1>2, <2>1, <2>2 DEF RecoveryInv
<1> QED
  BY <1>4, <1>5, <1>6, <1>7, <1>8, <1>9, <1>10, <1>11, <1>12, <1>13, <1>14

-----------------------------------------------------------------------------
(* What the venue does by itself preserves it.                             *)

LEMMA VenueMovesInv ==
  ASSUME NEW Q, IInv(Q), VenueMoves
  PROVE  IInv(Q)'
<1> USE DEF IInv
<1>1. UNCHANGED <<journal, caps, pc, run, n, seen, attempts, submits, cancelSent, ended, recovery>>
  BY DEF VenueMoves, diskVars, historyVars
<1>2. VenueGrows /\ VenueInv'
  BY VenueStepGrows DEF VenueMoves
<1>3. Current' = Current /\ OrderTrades' = OrderTrades /\ JournaledFills' = JournaledFills
  BY <1>1 DEF Current, OrderTrades, JournaledFills
<1>4. OpenOrders' \ late' \subseteq OpenOrders \ late
  BY <1>2 DEF OpenOrders, VenueGrows
<1>5. JournalTyped' /\ HistoryTyped' /\ ProcessTyped(Q)'
  BY <1>1 DEF JournalTyped, LineTyped, HistoryTyped, ProcessTyped
<1>6. SeenTyped'
  BY <1>1, <1>2 DEF SeenTyped, LineTyped, VenueGrows
<1>7. CountInv'
  <2>1. \A i \in DOMAIN orders' \cup inflight' : i[2] <= submits[i[1]]
    BY <1>2 DEF CountInv, VenueGrows
  <2> QED
    BY <1>1, <2>1 DEF CountInv
<1>8. WriteAhead'
  BY <1>1, <1>2, <1>3 DEF WriteAhead, AttemptJournaledFirst, Attempted, VenueGrows
<1>9. FlatInv'
  BY <1>1, <1>2, <1>4 DEF FlatInv, VenueGrows
<1>10. LateInv'
  BY <1>1, <1>2 DEF LateInv, VenueGrows
<1>11. PlacedInv' /\ AbandonInv'
  BY <1>1, <1>2, <1>3, <1>4 DEF PlacedInv, AbandonInv, VenueGrows
<1>12. CancelsInv'
  <2>1. CanceledOrders(journal') = CanceledOrders(journal)
    BY <1>1 DEF CanceledOrders
  <2>2. pc \in {"canceled", "cleanup.canceled"} => Current \in DOMAIN orders
    BY DEF PlacedInv, Closing
  <2> QED
    BY <1>1, <1>2, <1>3, <2>1, <2>2 DEF CancelsInv, VenueGrows
<1>13. AttemptsInv'
  BY <1>1 DEF AttemptsInv
<1>14. ReadsInv'
  <2>1. pc \in OrderKnown => Current \in DOMAIN orders
    BY DEF PlacedInv, OrderKnown, Resting, Closing
  <2>2. pc \in OrderKnown /\ seen.order.status # "live" =>
          orders'[Current].status = seen.order.status /\ seen.order.trades = TradesOf(Current)'
    <3> SUFFICES ASSUME pc \in OrderKnown, seen.order.status # "live"
                 PROVE  orders'[Current].status = seen.order.status
                        /\ seen.order.trades = TradesOf(Current)'
      OBVIOUS
    <3>1. orders[Current].status = seen.order.status /\ seen.order.trades = TradesOf(Current)
      BY DEF ReadsInv
    <3>2. orders'[Current] = orders[Current] /\ TradesOf(Current)' = TradesOf(Current)
      BY <1>2, <1>3, <2>1, <3>1, ClosedOrders
    <3> QED
      BY <3>1, <3>2
  <2>3. \A t \in DOMAIN seen.trades :
          /\ t \in DOMAIN trades'
          /\ seen.trades[t].order = trades'[t].order
          /\ seen.trades[t].status = "Confirmed" => trades'[t].status = "Confirmed"
    BY <1>2 DEF ReadsInv, VenueGrows
  <2> QED
    BY <1>1, <1>3, <2>2, <2>3 DEF ReadsInv
<1>15. SettledInv(Q)'
  <2> SUFFICES ASSUME NEW o \in DOMAIN orders',
                      \/ ended[o[1]] = "completed"
                      \/ pc \in InSession /\ run = o[1] /\ (o[2] < n \/ pc = "stopping")
               PROVE  Settled(Q, o)'
    BY <1>1 DEF SettledInv
  <2>1. CASE o \in DOMAIN orders
    <3>1. Settled(Q, o)
      BY <2>1 DEF SettledInv
    <3> QED
      BY <1>2, <1>3, <2>1, <3>1, ClosedOrders DEF Settled
  <2>2. CASE o \in inflight
    <3>1. pc \in InSession => ~ (n < n)
      BY LimitsAssumption DEF ProcessTyped
    <3>2. pc \in InSession => ended[run] # "completed"
      BY DEF CountInv
    <3> QED
      BY <2>2, <3>1, <3>2 DEF LateInv
  <2> QED
    BY <1>2, <2>1, <2>2 DEF VenueGrows
<1>16. RecoveryInv'
  <2> SUFFICES ASSUME pc \in {"recover.trades", "recover"}, NEW o \in seen.placed
               PROVE  /\ o \in DOMAIN orders'
                      /\ o \in seen.open \/ orders'[o].status # "live"
                      /\ pc = "recover" /\ o \notin seen.open => TradesOf(o)' \subseteq DOMAIN seen.trades
    BY <1>1 DEF RecoveryInv
  <2>1. o \in DOMAIN orders /\ (o \in seen.open \/ orders[o].status # "live")
    BY DEF RecoveryInv
  <2>2. CASE o \in seen.open
    BY <1>2, <2>1, <2>2 DEF VenueGrows
  <2>3. CASE o \notin seen.open
    <3>1. orders'[o] = orders[o] /\ TradesOf(o)' = TradesOf(o)
      BY <1>2, <2>1, <2>3, ClosedOrders
    <3> QED
      BY <1>2, <2>1, <2>3, <3>1 DEF RecoveryInv, VenueGrows
  <2> QED
    BY <2>2, <2>3
<1> QED
  BY <1>2, <1>5, <1>6, <1>7, <1>8, <1>9, <1>10, <1>11, <1>12, <1>13, <1>14, <1>15, <1>16

-----------------------------------------------------------------------------
(* The invariant.                                                          *)

(* Every kind of step preserves the invariant.                             *)
LEMMA KindsInv ==
  ASSUME NEW Q, Q \subseteq Approvals, IInv(Q), StepOf(Q)
  PROVE  IInv(Q)'
<1>1. Kinds(Q)
  BY StepIsOfAKind
<1> QED
  BY <1>1, MovesInv, FinishesInv, CancelsInvariant, ReservesInv, GoesOnInv, SubmitInv, StartsInv,
     RecoveryPreserves, VenueMovesInv DEF Kinds

LEMMA UnchangedInv ==
  ASSUME NEW Q, IInv(Q), UNCHANGED vars
  PROVE  IInv(Q)'
<1> USE DEF IInv, vars, venueVars, diskVars, historyVars
<1>1. (JournalTyped /\ SeenTyped /\ HistoryTyped /\ ProcessTyped(Q) /\ VenueInv)'
  BY DEF JournalTyped, LineTyped, SeenTyped, HistoryTyped, ProcessTyped, VenueInv, VenueTypeOK, TradesHaveOrders
<1>2. (CountInv /\ WriteAhead /\ LateInv /\ AttemptsInv)'
  BY DEF CountInv, WriteAhead, AttemptJournaledFirst, Attempted, Current, LateInv, AttemptsInv
<1>3. (FlatInv /\ PlacedInv /\ AbandonInv /\ CancelsInv)'
  BY DEF FlatInv, OpenOrders, PlacedInv, Current, AbandonInv, CancelsInv, CanceledOrders
<1>4. (ReadsInv /\ SettledInv(Q) /\ RecoveryInv)'
  BY DEF ReadsInv, Current, TradesOf, OrderTrades, JournaledFills, SettledInv, Settled, RecoveryInv
<1> QED
  BY <1>1, <1>2, <1>3, <1>4

LEMMA InitInv ==
  ASSUME NEW Q, Init
  PROVE  IInv(Q)
<1>1. /\ DOMAIN orders = {} /\ DOMAIN trades = {} /\ inflight = {} /\ late = {}
      /\ journal = {} /\ caps = {} /\ cancelSent = {} /\ recovery = "none"
  <2>1. orders = << >> /\ trades = << >>
    BY DEF Init, VenueInit
  <2>2. << >> \in [{} -> {}]
    OBVIOUS
  <2>3. DOMAIN orders = {} /\ DOMAIN trades = {}
    BY <2>1, <2>2
  <2> QED
    BY <2>3 DEF Init, VenueInit
<1>2. OpenOrders = {} /\ CanceledOrders(journal) = {}
  BY <1>1 DEF OpenOrders, CanceledOrders
<1>a. pc = "idle" /\ run = NoRun /\ seen = Nothing
  BY DEF Init
<1>b. attempts = 0
  BY DEF Init
<1>c. submits = [a \in Approvals |-> 0] /\ ended = [a \in Approvals |-> "not yet"]
  BY DEF Init
<1>3. VenueInv
  BY <1>1, FS_EmptySet DEF VenueInv, VenueTypeOK, TradesHaveOrders
<1>4. JournalTyped /\ HistoryTyped
  BY <1>1, <1>c DEF JournalTyped, HistoryTyped
<1>5. SeenTyped /\ ReadsInv
  <2>1. DOMAIN Nothing.trades = {} /\ DOMAIN Nothing = SeenFields
    BY DEF Nothing, SeenFields
  <2> QED
    BY <1>1, <1>a, <2>1 DEF SeenTyped, SeenFields, Nothing, ReadsInv, OrderKnown
<1>6. ProcessTyped(Q)
  BY <1>1, <1>a DEF ProcessTyped, InSession, Before, Resting, Closing, Command, QuotePcs
<1>7. pc \notin InSession
  BY <1>a DEF InSession, Before, Resting, Closing
<1>8. CountInv /\ WriteAhead
  <2>1. \A a \in Approvals : submits[a] = 0 /\ ended[a] = "not yet"
    BY <1>c
  <2>2. \A a \in Approvals : submits[a] <= MaxOrders
    <3>1. 0 <= MaxOrders
      BY LimitsAssumption
    <3> QED
      BY <2>1, <3>1
  <2> QED
    BY <1>1, <1>a, <1>7, <2>1, <2>2, LimitsAssumption DEF CountInv, WriteAhead, AttemptJournaledFirst
<1>9. FlatInv /\ LateInv /\ PlacedInv /\ AbandonInv
  BY <1>1, <1>2, <1>a DEF FlatInv, LateInv, PlacedInv, AbandonInv, Checking, Cleared, Resting, Closing
<1>10. CancelsInv /\ SettledInv(Q) /\ RecoveryInv
  BY <1>1, <1>2, <1>a DEF CancelsInv, SettledInv, RecoveryInv
<1>11. AttemptsInv
  BY <1>a, <1>b, LimitsAssumption DEF AttemptsInv
<1> QED
  BY <1>3, <1>4, <1>5, <1>6, <1>8, <1>9, <1>10, <1>11 DEF IInv

LEMMA MakerStepOf ==
  ASSUME IInv({}), Next
  PROVE  StepOf({})
<1>1. ASSUME Crash
      PROVE  StepOf({})
  <2>1. Appending \in SUBSET (InSession \cup Command)
    BY DEF Appending, InSession, Before, Resting, Closing
  <2> QED
    BY <1>1, <2>1 DEF Crash, StepOf
<1> QED
  BY <1>1 DEF Next, StepOf

LEMMA LiveStepIs ==
  ASSUME LiveNext
  PROVE  \/ \E a \in QuoteApprovals : Approve(a)
         \/ approved' = approved /\ StepOf(QuoteApprovals)
<1>1. Appending \cup QuoteAppending \in SUBSET (InSession \cup Command)
  BY DEF Appending, QuoteAppending, InSession, Before, Resting, Closing
<1> QED
  BY <1>1 DEF LiveNext, ProcessStep, StepOf

LEMMA LiveStepOf ==
  ASSUME LiveNext
  PROVE  StepOf(QuoteApprovals) \/ UNCHANGED vars
BY LiveStepIs DEF Approve

(* Every state of the LA5 sessions, of every crash and of every recovery   *)
(* satisfies the invariant: what the process holds, the disk and the venue *)
(* never disagree in a way that it excludes.                               *)
THEOREM MakerInvariance == Spec => []IInv({})
<1>1. Init => IInv({})
  BY InitInv
<1>2. IInv({}) /\ [Next]_vars => IInv({})'
  BY MakerStepOf, KindsInv, UnchangedInv
<1> QED
  BY <1>1, <1>2, PTL DEF Spec

(* The same of the LA5 and LA6 sessions on one account.                    *)
THEOREM LiveInvariance == LiveSpec => []IInv(QuoteApprovals)
<1>1. LiveInit => IInv(QuoteApprovals)
  BY InitInv DEF LiveInit
<1>2. IInv(QuoteApprovals) /\ [LiveNext]_liveVars => IInv(QuoteApprovals)'
  BY LiveStepOf, KindsInv, UnchangedInv, QuoteApprovalsAssumption DEF liveVars
<1> QED
  BY <1>1, <1>2, PTL DEF LiveSpec

-----------------------------------------------------------------------------
(* What follows from it.                                                   *)

(* Approvals are spent on no more orders than they allow, each in the      *)
(* journal before it can be anywhere: for sessions of both kinds, any      *)
(* number of approvals, and crashes and restarts at any point.             *)
THEOREM SpentInWriting ==
  /\ Spec => []ApprovalsSpentInWriting
  /\ LiveSpec => []ApprovalsSpentInWriting
<1>1. ASSUME NEW Q, IInv(Q)
      PROVE  ApprovalsSpentInWriting
  BY <1>1 DEF IInv, CountInv, WriteAhead, ApprovalsSpentInWriting, CapNeverExceeded
<1>2. IInv({}) => ApprovalsSpentInWriting
  BY <1>1
<1>3. IInv(QuoteApprovals) => ApprovalsSpentInWriting
  BY <1>1
<1> QED
  BY <1>2, <1>3, MakerInvariance, LiveInvariance, PTL

(* A second order is open only if it arrived after its answer was lost.    *)
LEMMA OneOpenOrder ==
  ASSUME NEW Q, IInv(Q)
  PROVE  OnlyLateSubmitsOverlap
<1>1. IsFiniteSet(late) /\ Cardinality(late) \in Nat
  BY FS_CardinalityType DEF IInv, VenueInv
<1>2. ASSUME NEW o
      PROVE  /\ IsFiniteSet(late \cup {o})
             /\ Cardinality(late \cup {o}) <= Cardinality(late) + 1
  BY <1>1, FS_AddElement
<1>3. \E o : OpenOrders \subseteq late \cup {o}
  BY DEF IInv, FlatInv
<1>4. PICK o : OpenOrders \subseteq late \cup {o}
  BY <1>3
<1>5. IsFiniteSet(OpenOrders) /\ Cardinality(OpenOrders) <= Cardinality(late \cup {o})
  BY <1>2, <1>4, FS_Subset
<1>6. Cardinality(OpenOrders) \in Nat /\ Cardinality(late \cup {o}) \in Nat
  BY <1>2, <1>5, FS_CardinalityType
<1>7. Cardinality(late \cup {o}) <= Cardinality(late) + 1
  BY <1>2
<1> QED
  BY <1>1, <1>5, <1>6, <1>7 DEF OnlyLateSubmitsOverlap

(* So it is for sessions of both kinds, in any order.                      *)
THEOREM OneOrderAtATime ==
  /\ Spec => []OnlyLateSubmitsOverlap
  /\ LiveSpec => []OnlyLateSubmitsOverlap
<1>1. IInv({}) => OnlyLateSubmitsOverlap
  BY OneOpenOrder
<1>2. IInv(QuoteApprovals) => OnlyLateSubmitsOverlap
  BY OneOpenOrder
<1> QED
  BY <1>1, <1>2, MakerInvariance, LiveInvariance, PTL

-----------------------------------------------------------------------------
(* Every step of an LA5 session brings it nearer to its end.               *)

Place(at) == CHOOSE k \in DOMAIN Way : Way[k] = at

LEMMA PlaceIs ==
  ASSUME NEW k \in 1..32
  PROVE  Place(Way[k]) = k
<1>1. /\ DOMAIN Way = 1..32
      /\ \A i, j \in 1..32 : Way[i] = Way[j] => i = j
  BY SMTT(60) DEF Way
<1> HIDE DEF Way
<1>2. \E i \in DOMAIN Way : Way[i] = Way[k]
  BY <1>1
<1>3. Place(Way[k]) \in DOMAIN Way /\ Way[Place(Way[k])] = Way[k]
  BY <1>2 DEF Place
<1> QED
  BY <1>1, <1>3

(* The ways through a session; a cancel may also be tried again, and the   *)
(* next order starts over.                                                 *)
Ahead ==
  {<<"opening", "checks">>, <<"checks", "initial.orders">>,
   <<"initial.orders", "initial.trades">>, <<"initial.trades", "initial">>, <<"initial", "slot">>,
   <<"slot", "pre.orders">>, <<"pre.orders", "pre.trades">>, <<"pre.trades", "pre">>,
   <<"pre", "risk">>, <<"risk", "attempt">>, <<"attempt", "submit">>, <<"submit", "rejected">>,
   <<"submit", "accepted">>, <<"accepted", "heartbeat">>, <<"heartbeat", "post.trades">>,
   <<"post.trades", "post.exact">>, <<"post.exact", "post">>, <<"post", "cancelSlot">>,
   <<"cancelSlot", "latest">>, <<"latest", "cancel">>, <<"latest", "final.exact">>,
   <<"cancel", "cancelFailed">>, <<"cancel", "canceled">>, <<"canceled", "final.exact">>,
   <<"final.exact", "final.orders">>, <<"final.orders", "final.trades">>,
   <<"final.trades", "filled">>, <<"filled", "final">>, <<"final", "stopping">>,
   <<"cleanup", "cleanup.canceled">>, <<"cleanup", "cleanup.failed">>}
  \cup ({"accepted", "heartbeat", "post.trades", "post.exact", "post", "cancelSlot", "latest"}
         \X {"cleanup"})

LEMMA AheadIsLater ==
  ASSUME NEW from, NEW to, <<from, to>> \in Ahead
  PROVE  Place(from) \in 1..32 /\ Place(to) \in 1..32 /\ Place(from) < Place(to)
<1>1. /\ Way[1] = "opening" /\ Way[2] = "checks" /\ Way[3] = "initial.orders"
      /\ Way[4] = "initial.trades" /\ Way[5] = "initial" /\ Way[6] = "slot"
      /\ Way[7] = "pre.orders" /\ Way[8] = "pre.trades" /\ Way[9] = "pre" /\ Way[10] = "risk"
      /\ Way[11] = "attempt" /\ Way[12] = "submit" /\ Way[13] = "rejected"
      /\ Way[14] = "accepted" /\ Way[15] = "heartbeat" /\ Way[16] = "post.trades"
  BY DEF Way
<1>2. /\ Way[17] = "post.exact" /\ Way[18] = "post" /\ Way[19] = "cancelSlot"
      /\ Way[20] = "latest" /\ Way[21] = "cancel" /\ Way[22] = "cancelFailed"
      /\ Way[23] = "canceled" /\ Way[24] = "final.exact" /\ Way[25] = "final.orders"
      /\ Way[26] = "final.trades" /\ Way[27] = "filled" /\ Way[28] = "final"
      /\ Way[29] = "stopping" /\ Way[30] = "cleanup" /\ Way[31] = "cleanup.canceled"
      /\ Way[32] = "cleanup.failed"
  BY DEF Way
<1>3. \A k \in 1..32 : Place(Way[k]) = k
  BY PlaceIs
<1>4. /\ Place("opening") = 1 /\ Place("checks") = 2 /\ Place("initial.orders") = 3
      /\ Place("initial.trades") = 4 /\ Place("initial") = 5 /\ Place("slot") = 6
      /\ Place("pre.orders") = 7 /\ Place("pre.trades") = 8 /\ Place("pre") = 9
      /\ Place("risk") = 10 /\ Place("attempt") = 11 /\ Place("submit") = 12
      /\ Place("rejected") = 13 /\ Place("accepted") = 14 /\ Place("heartbeat") = 15
      /\ Place("post.trades") = 16
  BY <1>1, <1>3
<1>5. /\ Place("post.exact") = 17 /\ Place("post") = 18 /\ Place("cancelSlot") = 19
      /\ Place("latest") = 20 /\ Place("cancel") = 21 /\ Place("cancelFailed") = 22
      /\ Place("canceled") = 23 /\ Place("final.exact") = 24 /\ Place("final.orders") = 25
      /\ Place("final.trades") = 26 /\ Place("filled") = 27 /\ Place("final") = 28
      /\ Place("stopping") = 29 /\ Place("cleanup") = 30 /\ Place("cleanup.canceled") = 31
      /\ Place("cleanup.failed") = 32
  BY <1>2, <1>3
<1> QED
  BY <1>4, <1>5 DEF Ahead

LEMMA SomePlaces ==
  Place("slot") = 6 /\ Place("cancel") = 21 /\ Place("final") = 28 /\ Place("stopping") = 29
<1>1. Way[6] = "slot" /\ Way[21] = "cancel" /\ Way[28] = "final" /\ Way[29] = "stopping"
  BY DEF Way
<1> QED
  BY <1>1, PlaceIs

(* How a session goes on: ahead; with another cancel; to the next order.   *)
GoesAhead ==
  \/ <<pc, pc'>> \in Ahead /\ pc # "final" /\ n' = n /\ attempts' \in {attempts, attempts + 1}
  \/ pc = "cancel" /\ pc' = "cancel" /\ n' = n /\ attempts' = attempts + 1
  \/ pc = "final" /\ pc' = "stopping" /\ n' = n /\ attempts' = 0
  \/ pc = "final" /\ pc' = "slot" /\ n < MaxOrders /\ n' = n + 1 /\ attempts' = 0

LEMMA StepGoesAhead ==
  ASSUME IInv({}), SessionStep
  PROVE  run' = NoRun \/ GoesAhead
<1> USE DEF Goto, End, AfterAcceptFailed, KeepAttempts, GoesAhead, Ahead
<1>1. CASE Opening \/ Checks \/ Risk \/ Attempt \/ Rejected \/ Accepted
  BY <1>1 DEF Opening, Checks, Risk, Attempt, Rejected, Accepted, Step, Log
<1>2. CASE ReadOpenOrders \/ ReadTrades \/ ReadExact
  BY <1>2 DEF ReadOpenOrders, ReadTrades, ReadExact, Read
<1>3. CASE InitialReadback \/ SubmitSlot \/ PreSubmitReadback \/ Heartbeat \/ CancelSlot
  BY <1>3 DEF InitialReadback, SubmitSlot, PreSubmitReadback, Heartbeat, CancelSlot, Step
<1>4. CASE Submit
  BY <1>4 DEF Submit
<1>5. CASE PostReconcile \/ CancelFailed \/ Canceled \/ Filled
  BY <1>5 DEF PostReconcile, CancelFailed, Canceled, Filled, Step, Log
<1>6. CASE Stopping \/ CleanupNote
  BY <1>6 DEF Stopping, StopWith, CleanupNote, Log
<1>7. CASE Cancel \/ Cleanup
  BY <1>7 DEF Cancel, Cleanup, SendCancel
<1>8. CASE FinalReconcile
  BY <1>8 DEF FinalReconcile, NextOrder
<1> QED
  BY <1>1, <1>2, <1>3, <1>4, <1>5, <1>6, <1>7, <1>8 DEF SessionStep

(* The arithmetic of it: the orders to come weigh more than the way and    *)
(* the retries of one.                                                     *)
LEMMA FewerAreLeft ==
  ASSUME NEW limit \in Nat, NEW max \in 1..3, NEW now \in 1..max, NEW next \in 1..max,
         NEW p \in 1..32, NEW q \in 1..32, NEW tries \in 0..limit, NEW triesNext \in 0..limit,
         \/ next = now /\ p < q /\ triesNext <= tries
         \/ next = now /\ p = q /\ triesNext < tries
         \/ next = now + 1 /\ p = 28 /\ q = 6
  PROVE  (max - next) * (32 + limit) + triesNext + 32 - q
           \in 0..((max - now) * (32 + limit) + tries + 32 - p - 1)
<1> DEFINE each == 32 + limit
           left == max - now
           leftNext == max - next
<1>1. each \in Nat /\ each = 32 + limit
  OBVIOUS
<1>2. left \in 0..2 /\ leftNext \in 0..2
  OBVIOUS
<1>3. \/ leftNext = left /\ p < q /\ triesNext <= tries
      \/ leftNext = left /\ p = q /\ triesNext < tries
      \/ leftNext = left - 1 /\ p = 28 /\ q = 6
  OBVIOUS
<1> HIDE DEF each, left, leftNext
<1>4. 0 * each = 0 /\ 1 * each = each /\ 2 * each = each + each
  BY <1>1
<1>5. leftNext * each + triesNext + 32 - q \in 0..(left * each + tries + 32 - p - 1)
  BY <1>1, <1>2, <1>3, <1>4
<1> QED
  BY <1>5 DEF each, left, leftNext

LEMMA AheadIsNearer ==
  ASSUME GoesAhead, n \in 1..MaxOrders, n' \in 1..MaxOrders,
         attempts \in 0..CancelRetryLimit, attempts' \in 0..CancelRetryLimit
  PROVE  Left' \in 0..(Left - 1)
<1> DEFINE p == Place(pc)
<1>1. MaxOrders \in 1..3 /\ CancelRetryLimit \in Nat
  BY LimitsAssumption
<1>2. Len(Way) = 32
  BY DEF Way
<1>3. PICK next \in 1..MaxOrders : n' = next
  OBVIOUS
<1>4. PICK more \in 0..CancelRetryLimit : attempts' = more
  OBVIOUS
<1>5. RetriesLeft = IF pc = "stopping" THEN 0 ELSE CancelRetryLimit - attempts
  BY DEF RetriesLeft
<1>6. PICK at : pc' = at
  OBVIOUS
<1> DEFINE tries == RetriesLeft
           triesNext == IF at = "stopping" THEN 0 ELSE CancelRetryLimit - more
           q == Place(at)
<1>7. RetriesLeft' = triesNext
  BY <1>4, <1>6 DEF RetriesLeft
<1>8. /\ Left = (MaxOrders - n) * (32 + CancelRetryLimit) + tries + 32 - p
      /\ Left' = (MaxOrders - next) * (32 + CancelRetryLimit) + triesNext + 32 - q
  BY <1>2, <1>3, <1>6, <1>7 DEF Left, Place
<1>9. p \in 1..32 /\ q \in 1..32
  BY <1>6, AheadIsLater, SomePlaces DEF GoesAhead
<1>10. tries \in 0..CancelRetryLimit /\ triesNext \in 0..CancelRetryLimit
  BY <1>1, <1>5
<1>11. \/ next = n /\ p < q /\ triesNext <= tries
       \/ next = n /\ p = q /\ triesNext < tries
       \/ next = n + 1 /\ p = 28 /\ q = 6
  <2>1. CASE <<pc, at>> \in Ahead /\ pc # "final" /\ next = n /\ more \in {attempts, attempts + 1}
    <3>1. p < q /\ pc # "stopping"
      BY <2>1, AheadIsLater DEF Ahead
    <3>2. triesNext <= tries
      BY <2>1, <3>1, <1>1, <1>5
    <3> QED
      BY <2>1, <3>1, <3>2
  <2>2. CASE pc = "cancel" /\ at = "cancel" /\ next = n /\ more = attempts + 1
    BY <2>2, <1>1, <1>5
  <2>3. CASE pc = "final" /\ at = "stopping" /\ next = n /\ more = 0
    BY <2>3, <1>1, <1>5, SomePlaces
  <2>4. CASE pc = "final" /\ at = "slot" /\ n < MaxOrders /\ next = n + 1 /\ more = 0
    BY <2>4, SomePlaces
  <2> QED
    BY <1>3, <1>4, <1>6, <2>1, <2>2, <2>3, <2>4 DEF GoesAhead
<1> HIDE DEF p, q, tries, triesNext
<1>12. (MaxOrders - next) * (32 + CancelRetryLimit) + triesNext + 32 - q
         \in 0..((MaxOrders - n) * (32 + CancelRetryLimit) + tries + 32 - p - 1)
  BY <1>1, <1>9, <1>10, <1>11, FewerAreLeft, Zenon
<1> QED
  BY <1>1, <1>8, <1>9, <1>10, <1>12

(* Whatever the limits are, each step of an LA5 session but those of the   *)
(* venue around it ends it or brings it nearer to its end.                 *)
THEOREM SessionsComeToAnEnd == Spec => SessionsComeNearerToTheEnd
<1> DEFINE Nearer == run # NoRun => run' = NoRun \/ Left' \in 0..(Left - 1) \/ VenueMoves
<1>1. ASSUME IInv({}), IInv({})', Next
      PROVE  Nearer
  <2>1. CASE SessionStep
    <3>1. CASE run' = NoRun
      BY <3>1
    <3>2. CASE run' # NoRun
      <4>1. GoesAhead /\ pc' \in InSession
        BY <1>1, <2>1, <3>2, StepGoesAhead
        DEF GoesAhead, Ahead, InSession, Before, Resting, Closing
      <4>2. pc \in InSession
        BY <4>1 DEF GoesAhead, Ahead, InSession, Before, Resting, Closing
      <4>3. n \in 1..MaxOrders /\ attempts \in 0..CancelRetryLimit
        BY <1>1, <4>2 DEF IInv, ProcessTyped, AttemptsInv
      <4>4. n' \in 1..MaxOrders /\ attempts' \in 0..CancelRetryLimit
        BY <1>1, <4>1 DEF IInv, ProcessTyped, AttemptsInv
      <4> QED
        BY <4>1, <4>3, <4>4, AheadIsNearer
    <3> QED
      BY <3>1, <3>2
  <2>2. CASE Crash
    BY <2>2 DEF Crash, CrashWhile, End
  <2>3. CASE RecoveryStep \/ \E a \in Approvals : StartSession(a)
    <3>1. pc \in Recovering \cup {"idle"}
      BY <2>3 DEF RecoveryStep, StartRecovery, RecoveryReadsOrders, RecoveryReadsTrades,
                  EvaluateRecovery, StartSession, Recovering
    <3> QED
      BY <1>1, <3>1 DEF IInv, ProcessTyped
  <2> QED
    BY <1>1, <2>1, <2>2, <2>3 DEF Next
<1>2. IInv({}) /\ IInv({})' /\ [Next]_vars => [Nearer]_vars
  BY <1>1
<1> QED
  BY <1>2, MakerInvariance, PTL DEF Spec, SessionsComeNearerToTheEnd

-----------------------------------------------------------------------------
(* What a recovery reads as closed, confirmed and known is so: it passes   *)
(* only over an account whose every order the journal explains.            *)
LEMMA RecoveryExplains ==
  ASSUME NEW Q, IInv(Q),
         RecoveryPasses(journal, torn, seen.open, seen.trades, seen.balance, balanceAtStart),
         pc = "recover", NEW o \in seen.placed
  PROVE  /\ orders[o].status # "live"
         /\ \A t \in TradesOf(o) : trades[t].status = "Confirmed" /\ t \in KnownTrades(journal)
<1>1. seen.open = {} /\ \A t \in DOMAIN seen.trades : seen.trades[t].status = "Confirmed"
  BY DEF RecoveryPasses, ReadbackPassed
<1>2. DOMAIN seen.trades \subseteq KnownTrades(journal)
  <2> DEFINE owners == {owner \in TradeOwners(journal) : owner[1] \in DOMAIN seen.trades}
  <2>1. DOMAIN seen.trades \subseteq {owner[1] : owner \in owners}
    BY DEF RecoveryPasses, Mismatches, TradeMismatches, When, StartupLocal, StartupVenue
  <2>2. \A owner \in TradeOwners(journal) : owner[1] \in KnownTrades(journal)
    BY DEF TradeOwners, KnownTrades
  <2> QED
    BY <2>1, <2>2
<1>3. o \in DOMAIN orders /\ orders[o].status # "live" /\ TradesOf(o) \subseteq DOMAIN seen.trades
  BY <1>1 DEF IInv, RecoveryInv
<1> QED
  BY <1>1, <1>2, <1>3 DEF IInv, ReadsInv

LEMMA RecoveryStepExplains ==
  ASSUME NEW Q, IInv(Q), StepOf(Q), pc = "recover", pc' = "idle", recovery' = "passed"
  PROVE  RecoveryPasses(journal, torn, seen.open, seen.trades, seen.balance, balanceAtStart)
<1>1. pc \notin InSession \cup Command /\ pc # "idle"
  BY DEF InSession, Before, Resting, Closing, Command
<1>2. ~ (Moves(Q) \/ Finishes \/ Cancels \/ Reserves \/ GoesOn \/ Submit)
  BY <1>1 DEF Moves, Stays, Finishes, Ends, Cancels, Reserves, GoesOn, Submit
<1>3. RecoveryStep
  BY <1>1, <1>2, StepIsOfAKind DEF Kinds, StartSession, StartQuoteSession, VenueMoves
<1> QED
  BY <1>3 DEF RecoveryStep, StartRecovery, RecoveryReadsOrders, RecoveryReadsTrades, EvaluateRecovery

(* A recovery that passes (startup_recovery.rs) does so over an account    *)
(* whose orders are closed, with every trade of theirs confirmed and       *)
(* known, although the venue moved on between its reads.                   *)
THEOREM RecoveryIsExplained == Spec => RecoveryPassesOnlyWhenExplained
<1> DEFINE Explained ==
      pc = "recover" /\ pc' = "idle" /\ recovery' = "passed" =>
        \A o \in seen.placed :
          /\ orders[o].status # "live"
          /\ \A t \in TradesOf(o) : trades[t].status = "Confirmed" /\ t \in KnownTrades(journal)
<1>1. ASSUME IInv({}), Next
      PROVE  Explained
  BY <1>1, MakerStepOf, RecoveryStepExplains, RecoveryExplains
<1>2. IInv({}) /\ [Next]_vars => [Explained]_vars
  BY <1>1
<1> QED
  BY <1>2, MakerInvariance, PTL DEF Spec, RecoveryPassesOnlyWhenExplained

(* What an LA5 session leaves behind.                                      *)
TornInv == torn \in BOOLEAN
LEMMA TornTyped == Spec => []TornInv
<1>1. Init => TornInv
  BY DEF Init, TornInv
<1>2. ASSUME TornInv, [Next]_vars
      PROVE  TornInv'
  <2>1. torn' = torn \/ torn' = TRUE \/ \E appending : torn' = (torn \/ pc \in appending)
    BY <1>2 DEF Next, SessionStep, RecoveryStep, VenueMoves, StartSession, Crash, CrashWhile,
       Opening, Checks, ReadOpenOrders, ReadTrades, ReadExact, InitialReadback, SubmitSlot,
       PreSubmitReadback, Risk, Attempt, Submit, Rejected, Accepted, Heartbeat, PostReconcile,
       CancelSlot, Cancel, CancelFailed, Canceled, Filled, FinalReconcile, Stopping, StopWith,
       Cleanup, CleanupNote, StartRecovery, RecoveryReadsOrders, RecoveryReadsTrades,
       EvaluateRecovery, Step, Read, Log, Recorded, NotRecorded, diskVars, vars
  <2> QED
    BY <1>2, <2>1, Zenon DEF TornInv
<1> QED
  BY <1>1, <1>2, PTL DEF Spec

LEMMA InvTyped ==
  ASSUME IInv({}), TornInv
  PROVE  TypeOK
<1> USE DEF IInv
<1>1. VenueTypeOK /\ caps \subseteq Approvals
  BY DEF VenueInv, ProcessTyped
<1>2. pc \in Pcs /\ (pc \notin Recovering \cup {"idle"} => run \in caps /\ n \in 1..MaxOrders)
  BY DEF ProcessTyped, Pcs, InSession, Before, Resting, Closing, Command, Recovering, QuotePcs
<1>3. \A e \in journal : e.run \in Approvals /\ e.intent \in Intents /\ e.trades \subseteq Trades
  BY DEF JournalTyped, LineTyped
<1>4. DOMAIN seen.trades \subseteq DOMAIN trades /\ seen.open \cup seen.placed \subseteq Intents
  BY DEF ReadsInv, SeenTyped
<1> QED
  BY <1>1, <1>2, <1>3, <1>4 DEF TypeOK, HistoryTyped, AttemptsInv, TornInv

LEMMA InvOutcomes ==
  ASSUME NEW Q, IInv(Q)
  PROVE  AbandonedOnlyAfterCancel /\ JournaledCancelsAreReal /\ CompletedMeansClosed
<1> USE DEF IInv
<1>1. AbandonedOnlyAfterCancel
  BY DEF AbandonInv, AbandonedOnlyAfterCancel
<1>2. JournaledCancelsAreReal
  BY DEF CancelsInv, JournaledCancelsAreReal
<1>3. CompletedMeansClosed
  BY DEF SettledInv, Settled, CompletedMeansClosed
<1> QED
  BY <1>1, <1>2, <1>3

(* An LA5 session leaves behind what is true of the venue, and leaves it   *)
(* typed.                                                                  *)
THEOREM MakerOutcomes == Spec => []OutcomesAreReal
<1>1. IInv({}) => CompletedMeansSettled
  BY DEF IInv, SettledInv, Settled, CompletedMeansSettled
<1>2. IInv({}) /\ TornInv => OutcomesAreReal
  BY <1>1, InvTyped, InvOutcomes DEF OutcomesAreReal
<1> QED
  BY <1>2, MakerInvariance, TornTyped, PTL

-----------------------------------------------------------------------------
(* LA6 orders are submitted as approved.                                   *)

(* The venue forgets no trade.                                             *)
LEMMA TradesAreKept ==
  ASSUME NEW Q, IInv(Q), Kinds(Q)
  PROVE  DOMAIN trades \subseteq DOMAIN trades'
<1>1. CASE VenueMoves
  BY <1>1, VenueStepGrows DEF VenueMoves, IInv, VenueGrows
<1>2. CASE ~ VenueMoves
  BY <1>2 DEF Kinds, Moves, Stays, Finishes, Ends, Cancels, SendCancel, Close, Reserves, GoesOn, Submit,
     Accept, LoseSubmit, StartSession, StartQuoteSession, RecoveryStep, StartRecovery,
     RecoveryReadsOrders, RecoveryReadsTrades, EvaluateRecovery, venueVars
<1> QED
  BY <1>1, <1>2

(* Two readbacks that count the same trades have the same, as none is lost *)
(* (validate_la6_approval_against_account_readback counts them).           *)
LEMMA SameNumberSameTrades ==
  ASSUME NEW seenTrades, NEW signed, IsFiniteSet(seenTrades), signed \subseteq seenTrades,
         AsApproved(seenTrades, signed)
  PROVE  seenTrades = signed
BY FS_Subset DEF AsApproved

(* A session of an approval is one that was signed, and what it holds of   *)
(* the trades never lags behind it.                                        *)
LEMMA ApprovedStep ==
  ASSUME IInv(QuoteApprovals), ApprovedInv, LiveNext
  PROVE  ApprovedInv'
<1>1. CASE \E a \in QuoteApprovals : Approve(a)
  <2>1. PICK a \in QuoteApprovals : Approve(a)
    BY <1>1
  <2>2. /\ DOMAIN approved' = DOMAIN approved \cup {a}
        /\ approved'[a] = DOMAIN trades
        /\ \A b \in DOMAIN approved : approved'[b] = approved[b]
        /\ UNCHANGED vars
    BY <2>1 DEF Approve, With
  <2> QED
    BY <2>2 DEF ApprovedInv, vars, venueVars, InSession, Before, Resting, Closing
<1>2. CASE approved' = approved /\ StepOf(QuoteApprovals)
  <2>1. Kinds(QuoteApprovals)
    BY <1>2, StepIsOfAKind
  <2>2. DOMAIN trades \subseteq DOMAIN trades'
    BY <2>1, TradesAreKept
  <2>3. CASE Moves(QuoteApprovals)
    <3>1. pc' \in {"quote.risk", "submit"} /\ run' \in QuoteApprovals =>
            DOMAIN seen'.trades = approved'[run']
      <4>1. pc = "initial" /\ run \in QuoteApprovals /\ AsApproved(DOMAIN seen.trades, approved[run])
              => DOMAIN seen.trades = approved[run]
        <5>1. IsFiniteSet(DOMAIN seen.trades)
          BY FS_Subset DEF IInv, ReadsInv, VenueInv
        <5> QED
          BY <5>1, SameNumberSameTrades DEF ApprovedInv
      <4> QED
        BY <1>2, <2>3, <4>1 DEF Moves, Stays, ReadsInOrder, ApprovedInv
    <3>2. pc' \in Command \cup InSession /\ run' \in QuoteApprovals => run' \in DOMAIN approved'
      BY <1>2, <2>3 DEF Moves, Stays, ApprovedInv
    <3>3. pc' = "initial" /\ run' \in QuoteApprovals => approved'[run'] \subseteq DOMAIN seen'.trades
      <4>1. "initial" \in InSession
        BY DEF InSession, Before
      <4> QED
        BY <1>2, <2>3, <3>2, <4>1 DEF Moves, Stays, ReadsInOrder, ApprovedInv
    <3> QED
      BY <1>2, <2>2, <3>1, <3>2, <3>3 DEF ApprovedInv
  <2>4. CASE VenueMoves
    BY <1>2, <2>2, <2>4 DEF VenueMoves, ApprovedInv
  <2>5. CASE ~ Moves(QuoteApprovals) /\ ~ VenueMoves
    <3>1. pc' \notin {"initial", "quote.risk", "submit"}
      BY <2>1, <2>5 DEF Kinds, Finishes, Ends, Cancels, SendCancel, Reserves, GoesOn, NextOrder, Submit, Goto,
         StartSession, StartQuoteSession, RecoveryStep, StartRecovery,
         RecoveryReadsOrders, RecoveryReadsTrades, EvaluateRecovery
    <3>2. pc' \in Command \cup InSession /\ run' \in QuoteApprovals => run' \in DOMAIN approved
      BY <2>1, <2>5, ZenonT(60) DEF Kinds, Finishes, Ends, Cancels, SendCancel, Reserves, GoesOn, NextOrder, Submit, Goto,
         StartSession, StartQuoteSession, RecoveryStep, StartRecovery,
         RecoveryReadsOrders, RecoveryReadsTrades, EvaluateRecovery, ApprovedInv,
         InSession, Before, Resting, Closing, Command
    <3> QED
      BY <1>2, <2>2, <3>1, <3>2 DEF ApprovedInv
  <2> QED
    BY <2>1, <2>3, <2>4, <2>5
<1> QED
  BY <1>1, <1>2, LiveStepIs

(* So it is in every state of both kinds of sessions.                      *)
THEOREM ApprovedInvariance == LiveSpec => []ApprovedInv
<1>1. LiveInit => ApprovedInv
  <2>1. << >> \in [{} -> {}]
    OBVIOUS
  <2>2. LiveInit => DOMAIN approved = {}
    BY <2>1 DEF LiveInit
  <2> QED
    BY <2>2 DEF LiveInit, Init, ApprovedInv, Command, InSession, Before, Resting, Closing
<1>2. ASSUME IInv(QuoteApprovals), ApprovedInv, [LiveNext]_liveVars
      PROVE  ApprovedInv'
  <2>1. CASE LiveNext
    BY <1>2, <2>1, ApprovedStep
  <2>2. CASE UNCHANGED liveVars
    BY <1>2, <2>2 DEF ApprovedInv, liveVars, vars, venueVars, InSession, Before, Resting, Closing
  <2> QED
    BY <1>2, <2>1, <2>2
<1> QED
  BY <1>1, <1>2, LiveInvariance, PTL DEF LiveSpec

(* Only a submit is counted as one.                                        *)
LEMMA OnlySubmitsCount ==
  ASSUME NEW Q, Kinds(Q), submits' # submits
  PROVE  pc = "submit"
BY DEF Kinds, Moves, Stays, Finishes, Ends, Cancels, Reserves, GoesOn, Submit, StartSession,
   StartQuoteSession, RecoveryStep, StartRecovery, RecoveryReadsOrders, RecoveryReadsTrades,
   EvaluateRecovery, VenueMoves, historyVars

(* An LA6 order is submitted over exactly the trades it was signed for.    *)
THEOREM SubmitsAsApproved == LiveSpec => QuoteSubmitsAsApproved
<1> DEFINE AsSigned == submits' # submits /\ run \in QuoteApprovals => DOMAIN seen.trades = approved[run]
<1>1. ASSUME IInv(QuoteApprovals), ApprovedInv, [LiveNext]_liveVars
      PROVE  [AsSigned]_liveVars
  <2>1. CASE LiveNext /\ StepOf(QuoteApprovals)
    BY <1>1, <2>1, StepIsOfAKind, OnlySubmitsCount DEF ApprovedInv
  <2>2. CASE UNCHANGED vars
    BY <2>2 DEF vars, historyVars
  <2> QED
    BY <1>1, <2>1, <2>2, LiveStepOf DEF liveVars
<1> QED
  BY <1>1, LiveInvariance, ApprovedInvariance, PTL DEF LiveSpec, QuoteSubmitsAsApproved

(* Sessions of both kinds end as they say, whichever ran before: an order  *)
(* of a failed session was canceled, those of a completed one are closed   *)
(* with their trades confirmed, and a recorded cancel is the venue's.      *)
LiveEnds == AbandonedOnlyAfterCancel /\ CompletedMeansClosed /\ JournaledCancelsAreReal

(* Sessions of both kinds are well typed and end as they say.              *)
THEOREM LiveOutcomes == LiveSpec => [](LiveTypeOK /\ LiveEnds)
<1>1. IInv(QuoteApprovals) => LiveEnds
  BY InvOutcomes DEF LiveEnds
<1>2. IInv(QuoteApprovals) /\ ApprovedInv => LiveTypeOK
  <2>1. IInv(QuoteApprovals) => pc \in Pcs \cup QuotePcs
    BY DEF IInv, ProcessTyped, Pcs, QuotePcs, InSession, Before, Resting, Closing, Command
  <2>2. IInv(QuoteApprovals) => (pc \in Recovering \cup {"idle"} <=> run = NoRun)
    <3>1. IInv(QuoteApprovals) /\ pc \in InSession \cup Command => run \in Approvals
      BY QuoteApprovalsAssumption DEF IInv, ProcessTyped
    <3> QED
      BY <3>1, ApprovalsAssumption DEF IInv, ProcessTyped
  <2>3. IInv(QuoteApprovals) =>
          run \in caps \/ pc \in Recovering \cup {"idle", "command.orders", "command.trades", "command"}
    BY DEF IInv, ProcessTyped, Command
  <2> QED
    BY <2>1, <2>2, <2>3 DEF LiveTypeOK, IInv, VenueInv, AttemptsInv, ApprovedInv
<1> QED
  BY <1>1, <1>2, LiveInvariance, ApprovedInvariance, PTL

-----------------------------------------------------------------------------
(* The LA8 report.  It counts lines of the journal, so this invariant says *)
(* that the lines are true and that none is missing where a session ended. *)

(* What the lines of an order say when they are true.                      *)
PlacedTypes == {"MakerOrderAccepted", "QuotePlaced"}
StopTypes == {"MakerMicroStopped", "QuoteManagerStopped"}
PlacedLine(Q, o) == Event(o[1], IF o[1] \in Q THEN "QuotePlaced" ELSE "MakerOrderAccepted", o, o)
StopLine(Q, o) ==
  [Event(o[1], IF o[1] \in Q THEN "QuoteManagerStopped" ELSE "MakerMicroStopped", o, o)
     EXCEPT !.trades = TradesOf(o), !.status = orders[o].status]

(* The order of the line that ends a session trades no more. *)
Over(o) == orders[o].status # "live" /\ \A t \in TradesOf(o) : trades[t].status = "Confirmed"

(* From the line that an order was placed to its last reconciliation, on   *)
(* the way that does not lead through the cleanup.                         *)
Announced ==
  {"heartbeat", "post.trades", "post.exact", "post", "cancelSlot", "latest", "quote.latest",
   "decide", "cancel", "canceled", "quote.heartbeat", "final.exact", "final.orders",
   "final.trades", "filled", "final"}
DoneWith(o) == pc \in InSession /\ run = o[1] /\ (o[2] < n \/ pc = "stopping")

(* An order has at the venue what it matched.                              *)
MatchedInv ==
  /\ IsFiniteSet(DOMAIN orders)
  /\ \A o \in DOMAIN orders :
       /\ orders[o].matched > 0 => <<o, orders[o].matched>> \in DOMAIN trades
       /\ orders[o].status = "matched" => orders[o].matched = OrderSize

(* Every line is about one order, and true of it.                          *)
LinesInv(Q) ==
  /\ IsFiniteSet(journal) /\ IsFiniteSet(seen.outcomes)
  /\ \A e \in journal :
       /\ e.type \in PlacedTypes => \E o \in DOMAIN orders : e = PlacedLine(Q, o)
       /\ e.type \in CancelTypes =>
            e.order \in DOMAIN orders /\ orders[e.order].status = "canceled" /\ e.run = e.order[1]
       /\ e.type = "QuoteReconciliationResult" => e.run \in Q /\ e.status = "failed"
  /\ \A e \in journal \cup seen.outcomes :
       e.type \in StopTypes => \E o \in DOMAIN orders : Over(o) /\ e = StopLine(Q, o)

(* A session has the lines of the orders it is done with.                  *)
ToldInv(Q) ==
  /\ pc \in Announced => PlacedLine(Q, Current) \in journal
  /\ pc \in InSession /\ run \in Q => n = 1
  /\ pc = "stopping" /\ run \in Q =>
       /\ Current \in DOMAIN orders /\ Over(Current)
       /\ seen.order.status = orders[Current].status
       /\ OrderTrades = TradesOf(Current)
  /\ \A o \in DOMAIN orders :
       /\ DoneWith(o) => PlacedLine(Q, o) \in journal
       /\ DoneWith(o) /\ o[1] \notin Q => StopLine(Q, o) \in seen.outcomes
       /\ ended[o[1]] = "completed" => PlacedLine(Q, o) \in journal /\ StopLine(Q, o) \in journal

RepInv(Q) == MatchedInv /\ LinesInv(Q) /\ ToldInv(Q)

-----------------------------------------------------------------------------
(* What a step writes of an order, and where it leads.                     *)

Told(Q) == IF run \in Q THEN Outcome("QuoteManagerStopped") ELSE seen.outcomes
LineOf(Q, e) ==
  /\ e.type \in PlacedTypes => pc = "accepted" /\ e = PlacedLine(Q, Current)
  /\ e.type \in CancelTypes => e.run = run
  /\ e.type \in StopTypes => pc = "stopping" /\ e \in Told(Q)
  /\ e.type = "QuoteReconciliationResult" => e.run \in Q /\ e.status = "failed"
Lines(Q) ==
  \E events : /\ IsFiniteSet(events)
              /\ journal \subseteq journal' /\ journal' \subseteq journal \cup events
              /\ \A e \in events : LineOf(Q, e)
Turns(Q) ==
  /\ pc' \in Announced => pc \in Announced \/ (pc = "accepted" /\ PlacedLine(Q, Current) \in journal')
  /\ pc' = "stopping" /\ pc # "stopping" => pc \in {"filled", "final"} /\ (pc = "filled" => seen' = seen)
  /\ pc = "final" /\ pc' \in {"slot", "stopping"} => run \notin Q
  /\ pc = "stopping" /\ pc' # "stopping" /\ ended'[run] = "completed" => Told(Q) \subseteq journal'

LEMMA LogLines ==
  ASSUME NEW Q, NEW events, IsFiniteSet(events), \A e \in events : LineOf(Q, e),
         Recorded(events) \/ NotRecorded(events)
  PROVE  Lines(Q)
BY DEF Lines, Recorded, NotRecorded

LEMMA NoLines ==
  ASSUME NEW Q, UNCHANGED journal
  PROVE  Lines(Q)
<1>1. IsFiniteSet({})
  BY FS_EmptySet
<1> QED
  BY <1>1 DEF Lines

(* Lines that are about nothing the report counts. *)
LEMMA NoteLines ==
  ASSUME NEW Q, NEW type,
         type \notin PlacedTypes \cup StopTypes \cup {"QuoteReconciliationResult"}
  PROVE  /\ IsFiniteSet(Note(type)) /\ \A e \in Note(type) : LineOf(Q, e)
         /\ IsFiniteSet(OrderNote(type)) /\ \A e \in OrderNote(type) : LineOf(Q, e)
         /\ IsFiniteSet({})
<1>1. ASSUME NEW order
      PROVE  /\ IsFiniteSet({Event(run, type, Current, order)})
             /\ LineOf(Q, Event(run, type, Current, order))
  <2>1. Event(run, type, Current, order).type = type /\ Event(run, type, Current, order).run = run
    BY DEF Event
  <2> QED
    BY <2>1, FS_Singleton DEF LineOf
<1> QED
  BY <1>1, FS_EmptySet DEF Note, OrderNote

LEMMA PlacedNote ==
  ASSUME NEW Q, pc = "accepted"
  PROVE  LET type == IF run \in Q THEN "QuotePlaced" ELSE "MakerOrderAccepted"
         IN  /\ IsFiniteSet(OrderNote(type)) /\ \A e \in OrderNote(type) : LineOf(Q, e)
             /\ PlacedLine(Q, Current) \in OrderNote(type)
<1> DEFINE type == IF run \in Q THEN "QuotePlaced" ELSE "MakerOrderAccepted"
<1>1. OrderNote(type) = {PlacedLine(Q, Current)}
  BY DEF OrderNote, PlacedLine, Current
<1>2. PlacedLine(Q, Current).type = type
  BY DEF PlacedLine, Event, Current
<1>3. type \in PlacedTypes /\ type \notin CancelTypes \cup StopTypes \cup {"QuoteReconciliationResult"}
  BY DEF PlacedTypes, CancelTypes, StopTypes
<1> HIDE DEF type
<1>4. LineOf(Q, PlacedLine(Q, Current))
  BY <1>2, <1>3 DEF LineOf
<1> QED
  BY <1>1, <1>4, FS_Singleton DEF type

LEMMA OutcomeLines ==
  ASSUME NEW Q, pc = "stopping", \A e \in Told(Q) : e.type \in StopTypes,
         IsFiniteSet(seen.outcomes)
  PROVE  IsFiniteSet(Told(Q)) /\ \A e \in Told(Q) : LineOf(Q, e)
<1>1. IsFiniteSet(Told(Q))
  BY FS_Singleton DEF Told, Outcome
<1>2. \A e \in Told(Q) : LineOf(Q, e)
  BY DEF LineOf, StopTypes, PlacedTypes, CancelTypes
<1> QED
  BY <1>1, <1>2

(* The lines the reports do not count, under the names the steps use.      *)
OtherTypes == {"MakerMicroHalted", "MakerRiskHalt", "MakerOrderSubmitAttempted", "QuotePlanned",
               "MakerOrderRejected", "MakerOrderCanceled", "QuoteCancelConfirmed",
               "QuoteCancelRequested", "MakerReconciliationFailed"}
LEMMA OtherNotes ==
  ASSUME NEW Q, NEW events \in {{}} \cup {Note(type) : type \in OtherTypes}
                                    \cup {OrderNote(type) : type \in OtherTypes},
         Recorded(events) \/ NotRecorded(events)
  PROVE  Lines(Q)
<1>1. \A type \in OtherTypes : type \notin PlacedTypes \cup StopTypes \cup {"QuoteReconciliationResult"}
  BY DEF OtherTypes, PlacedTypes, StopTypes
<1>2. CASE events = {}
  BY <1>2, FS_EmptySet, LogLines
<1>3. ASSUME NEW type \in OtherTypes, events = Note(type) \/ events = OrderNote(type)
      PROVE  Lines(Q)
  <2>1. type \notin PlacedTypes \cup StopTypes \cup {"QuoteReconciliationResult"}
    BY <1>1
  <2>2. /\ IsFiniteSet(Note(type)) /\ \A e \in Note(type) : LineOf(Q, e)
        /\ IsFiniteSet(OrderNote(type)) /\ \A e \in OrderNote(type) : LineOf(Q, e)
    BY <2>1, NoteLines
  <2>3. IsFiniteSet(events) /\ \A e \in events : LineOf(Q, e)
    BY <1>3, <2>2
  <2> QED
    BY <2>3, LogLines
<1> QED
  BY <1>2, <1>3

LEMMA FilledLines ==
  ASSUME NEW Q, Recorded(FilledNote) \/ NotRecorded(FilledNote)
  PROVE  Lines(Q)
<1>1. \A e \in FilledNote : e.type = "MakerOrderFilled" /\ e.run = run
  BY DEF FilledNote, Event
<1>2. IsFiniteSet(FilledNote)
  BY FS_Singleton DEF FilledNote
<1>3. \A e \in FilledNote : LineOf(Q, e)
  BY <1>1 DEF LineOf, PlacedTypes, StopTypes
<1> QED
  BY <1>2, <1>3, LogLines

LEMMA ReconciliationLines ==
  ASSUME NEW Q, run \in Q, NEW passes \in BOOLEAN,
         Recorded(QuoteReconciliationNote(passes)) \/ NotRecorded(QuoteReconciliationNote(passes))
  PROVE  Lines(Q)
<1>1. \A e \in QuoteReconciliationNote(passes) :
         e.type = "QuoteReconciliationResult" /\ e.run = run /\ e.status = "failed"
  BY DEF QuoteReconciliationNote, Event
<1>2. IsFiniteSet(QuoteReconciliationNote(passes))
  BY FS_Singleton, FS_EmptySet DEF QuoteReconciliationNote
<1>3. \A e \in QuoteReconciliationNote(passes) : LineOf(Q, e)
  BY <1>1 DEF LineOf, PlacedTypes, StopTypes, CancelTypes
<1> QED
  BY <1>2, <1>3, LogLines

LEMMA SessionLines ==
  ASSUME NEW Q, IInv(Q), IsFiniteSet(seen.outcomes), IF run \in Q THEN QuoteStep ELSE SessionStep
  PROVE  Lines(Q)
<1> DEFINE Notes == \E events \in {{}} \cup {Note(type) : type \in OtherTypes}
                                        \cup {OrderNote(type) : type \in OtherTypes} :
                      Recorded(events) \/ NotRecorded(events)
<1>1. Notes => Lines(Q)
  BY OtherNotes
<1>2. CASE \/ ReadOpenOrders \/ ReadTrades \/ ReadExact \/ InitialReadback \/ SubmitSlot
           \/ PreSubmitReadback \/ Submit \/ Heartbeat \/ CancelSlot \/ Cancel \/ Cleanup
           \/ CommandReads \/ ReserveCap \/ QuoteInitialReadback \/ QuoteReadLatest \/ QuoteHeartbeat
  <2>1. UNCHANGED journal
    BY <1>2 DEF ReadOpenOrders, ReadTrades, ReadExact, InitialReadback, SubmitSlot, PreSubmitReadback, Submit,
         Heartbeat, CancelSlot, Cancel, Cleanup, CommandReads, ReserveCap, QuoteInitialReadback,
         QuoteReadLatest, QuoteHeartbeat, Step, Read, diskVars
  <2> QED
    BY <2>1, NoLines
<1>3. CASE Opening \/ Checks \/ Risk \/ Attempt \/ Rejected \/ CancelFailed \/ Canceled \/ CleanupNote
           \/ PostReconcile \/ QuoteOpening \/ QuoteRisk \/ Decide \/ QuoteCanceled
  <2>1. Notes \/ UNCHANGED journal
    <3>1. CASE Rejected
      BY <3>1, RefusalIsNoted DEF OtherTypes
    <3>2. CASE ~ Rejected
      BY <1>3, <3>2
      DEF Opening, Checks, Risk, Attempt, CancelFailed, Canceled, CleanupNote, PostReconcile,
          QuoteOpening, QuoteRisk, Decide, QuoteCanceled, ReconciliationNote, Step, Log, diskVars, OtherTypes
    <3> QED
      BY <3>1, <3>2
  <2> HIDE DEF Notes
  <2> QED
    BY <1>1, <2>1, NoLines
<1>4. CASE FinalReconcile
  <2>1. Notes
    BY <1>4 DEF FinalReconcile, ReconciliationNote, OtherTypes
  <2> HIDE DEF Notes
  <2> QED
    BY <1>1, <2>1
<1>5. CASE Filled
  <2>1. UNCHANGED journal \/ Recorded(FilledNote) \/ NotRecorded(FilledNote)
    BY <1>5 DEF Filled, Step, Log, diskVars
  <2> QED
    BY <2>1, NoLines, FilledLines
<1>6. CASE run \notin Q /\ Accepted
  <2>1. pc = "accepted"
        /\ (Recorded(OrderNote("MakerOrderAccepted")) \/ NotRecorded(OrderNote("MakerOrderAccepted")))
    BY <1>6 DEF Accepted, Log
  <2>2. IsFiniteSet(OrderNote("MakerOrderAccepted")) /\ \A e \in OrderNote("MakerOrderAccepted") : LineOf(Q, e)
    BY <1>6, <2>1, PlacedNote
  <2> QED
    BY <2>1, <2>2, LogLines
<1>7. CASE run \in Q /\ QuotePlaced
  <2>1. pc = "accepted" /\ (Recorded(OrderNote("QuotePlaced")) \/ NotRecorded(OrderNote("QuotePlaced")))
    BY <1>7 DEF QuotePlaced, Log
  <2>2. IsFiniteSet(OrderNote("QuotePlaced")) /\ \A e \in OrderNote("QuotePlaced") : LineOf(Q, e)
    BY <1>7, <2>1, PlacedNote
  <2> QED
    BY <2>1, <2>2, LogLines
<1>8. CASE run \in Q /\ (QuotePostReconcile \/ QuoteFinalReconcile)
  <2>1. \E passes \in BOOLEAN :
          Recorded(QuoteReconciliationNote(passes)) \/ NotRecorded(QuoteReconciliationNote(passes))
    BY <1>8 DEF QuotePostReconcile, QuoteFinalReconcile, Log, QuoteReconciliationNote
  <2> QED
    BY <1>8, <2>1, ReconciliationLines
<1>9. CASE (run \notin Q /\ Stopping) \/ (run \in Q /\ QuoteStopping)
  <2>1. pc = "stopping" /\ (Recorded(Told(Q)) \/ NotRecorded(Told(Q)))
    BY <1>9 DEF Stopping, QuoteStopping, StopWith, Log, Told
  <2>2. \A e \in Told(Q) : e.type \in StopTypes
    BY DEF IInv, SeenTyped, Told, Outcome, Event, StopTypes
  <2> QED
    BY <2>1, <2>2, OutcomeLines, LogLines
<1> QED
  BY <1>2, <1>3, <1>4, <1>5, <1>6, <1>7, <1>8, <1>9 DEF SessionStep, QuoteStep

LEMMA SessionTurns ==
  ASSUME NEW Q, IInv(Q), IF run \in Q THEN QuoteStep ELSE SessionStep
  PROVE  Turns(Q)
<1> USE DEF Turns, Announced, Goto, End, AfterAcceptFailed, Step, Read, KeepSeen
<1>0. pc \in InSession => ended[run] \in {"not yet", "crashed"}
  BY DEF IInv, CountInv
<1>1. CASE \/ ReadOpenOrders \/ ReadTrades \/ ReadExact \/ InitialReadback \/ SubmitSlot
           \/ PreSubmitReadback \/ Submit \/ Heartbeat \/ CancelSlot
  BY <1>1 DEF ReadOpenOrders, ReadTrades, ReadExact, InitialReadback, SubmitSlot, PreSubmitReadback, Submit,
       Heartbeat, CancelSlot
<1>2. CASE Cancel \/ Cleanup \/ CommandReads \/ ReserveCap \/ QuoteInitialReadback \/ QuoteReadLatest \/ QuoteHeartbeat
  BY <1>2 DEF Cancel, SendCancel, Cleanup, CommandReads, ReserveCap, QuoteInitialReadback,
       QuoteReadLatest, QuoteHeartbeat, Refused
<1>3. CASE Opening \/ Checks \/ Risk \/ Attempt \/ Rejected \/ CancelFailed
  BY <1>3 DEF Opening, Checks, Risk, Attempt, Rejected, CancelFailed, Log
<1>4. CASE Canceled \/ CleanupNote \/ PostReconcile \/ QuoteOpening \/ QuoteRisk \/ Decide \/ QuoteCanceled
  BY <1>4 DEF Canceled, CleanupNote, PostReconcile, QuoteOpening, QuoteRisk, Decide, QuoteCanceled, Log
<1>5. CASE Filled \/ QuotePostReconcile \/ QuoteFinalReconcile
  BY <1>5 DEF Filled, QuotePostReconcile, QuoteFinalReconcile, Log
<1>6. CASE run \notin Q /\ FinalReconcile
  BY <1>6 DEF FinalReconcile, NextOrder
<1>7. CASE (run \notin Q /\ Accepted) \/ (run \in Q /\ QuotePlaced)
  <2> DEFINE type == IF run \in Q THEN "QuotePlaced" ELSE "MakerOrderAccepted"
  <2>1. /\ pc = "accepted"
        /\ \/ Recorded(OrderNote(type))
           \/ pc' = "cleanup"
    BY <1>7 DEF Accepted, QuotePlaced, Log
  <2>2. PlacedLine(Q, Current) \in OrderNote(type)
    BY <2>1, PlacedNote
  <2>3. Recorded(OrderNote(type)) => PlacedLine(Q, Current) \in journal'
    BY <2>2 DEF Recorded
  <2>4. pc' # "stopping"
    BY <1>7 DEF Accepted, QuotePlaced, Log
  <2> QED
    BY <2>1, <2>3, <2>4
<1>8. CASE (run \notin Q /\ Stopping) \/ (run \in Q /\ QuoteStopping)
  <2>1. /\ pc = "stopping" /\ pc' = "idle"
        /\ \/ Recorded(Told(Q))
           \/ ended' = [ended EXCEPT ![run] = "failed"]
    BY <1>8 DEF Stopping, QuoteStopping, StopWith, Log, Told
  <2>2. run \in Approvals /\ DOMAIN ended = Approvals
    BY <2>1, CurrentTyped DEF IInv, HistoryTyped, InSession
  <2> QED
    BY <2>1, <2>2 DEF Recorded
<1> QED
  BY <1>1, <1>2, <1>3, <1>4, <1>5, <1>6, <1>7, <1>8 DEF SessionStep, QuoteStep

(* Any step of a session or of the rest: what is new in the journal.       *)
LEMMA StepLines ==
  ASSUME NEW Q, IInv(Q), RepInv(Q), StepOf(Q)
  PROVE  Lines(Q) /\ Turns(Q) /\ Writes
<1>1. CASE IF run \in Q THEN QuoteStep ELSE SessionStep
  BY <1>1, SessionLines, SessionTurns, SessionWrites DEF RepInv, LinesInv
<1>2. CASE RecoveryStep
  <2>1. UNCHANGED journal /\ pc \in Recovering \cup {"idle"} /\ pc' \in Recovering \cup {"idle"}
    BY <1>2, RecoveryShape
  <2> QED
    BY <2>1, NoLines, NothingWritten DEF Turns, Recovering, Announced
<1>3. CASE VenueMoves
  BY <1>3, NoLines, NothingWritten DEF VenueMoves, diskVars, Turns, IInv, CountInv, ToldInv, RepInv
<1>4. CASE (\E a \in Approvals \ Q : StartSession(a)) \/ (\E a \in Q : StartQuoteSession(a))
  <2>1. UNCHANGED journal /\ pc = "idle" /\ pc' \in {"opening", "command.orders"}
    BY <1>4 DEF StartSession, StartQuoteSession, diskVars
  <2> QED
    BY <2>1, NoLines, NothingWritten DEF Turns, Announced
<1>5. CASE \E appending \in SUBSET (InSession \cup Command) : CrashWhile(appending)
  <2>1. UNCHANGED journal /\ pc' = "idle" /\ ended' = [ended EXCEPT ![run] = "crashed"]
    BY <1>5 DEF CrashWhile, End
  <2>2. pc \in InSession => run \in Approvals /\ DOMAIN ended = Approvals
    BY CurrentTyped DEF IInv, HistoryTyped
  <2> QED
    BY <2>1, <2>2, NoLines, NothingWritten DEF Turns, Announced, InSession
<1> QED
  BY <1>1, <1>2, <1>3, <1>4, <1>5 DEF StepOf

-----------------------------------------------------------------------------
(* What the venue takes back: nothing that is over.                        *)

VenueChanges(Q) ==
  \/ UNCHANGED venueVars
  \/ \E o \in OpenOrders : Close(o)
  \/ Current \notin DOMAIN orders /\ (Accept(Current) \/ LoseSubmit(Current))
  \/ VenueStep
OrdersKept ==
  \A o \in DOMAIN orders :
    /\ o \in DOMAIN orders'
    /\ orders[o].status = "canceled" => orders'[o].status = "canceled"
    /\ Over(o) => Over(o)' /\ TradesOf(o)' = TradesOf(o) /\ orders'[o] = orders[o]

LEMMA StepChangesVenue ==
  ASSUME NEW Q, IInv(Q), Kinds(Q)
  PROVE  VenueChanges(Q)
<1>1. CASE Moves(Q) \/ Finishes \/ Reserves \/ GoesOn
  BY <1>1 DEF Moves, Stays, Finishes, Ends, Reserves, GoesOn, VenueChanges
<1>2. CASE Cancels
  BY <1>2 DEF Cancels, SendCancel, Close, VenueChanges
<1>3. CASE Submit
  <2>1. Current \notin DOMAIN orders
    BY <1>3, SubmitCounts
  <2> QED
    BY <1>3, <2>1 DEF Submit, VenueChanges
<1>4. CASE RecoveryStep
  BY <1>4, RecoveryShape DEF VenueChanges
<1>5. CASE (\E a \in Approvals \ Q : StartSession(a)) \/ (\E a \in Q : StartQuoteSession(a))
  BY <1>5 DEF StartSession, StartQuoteSession, VenueChanges
<1>6. CASE VenueMoves
  BY <1>6 DEF VenueMoves, VenueChanges
<1> QED
  BY <1>1, <1>2, <1>3, <1>4, <1>5, <1>6 DEF Kinds

LEMMA AcceptKeeps ==
  ASSUME VenueInv, VenueInv', MatchedInv, Current \notin DOMAIN orders, Accept(Current)
  PROVE  OrdersKept /\ MatchedInv'
<1>1. /\ DOMAIN orders' = DOMAIN orders \cup {Current}
      /\ \A o \in DOMAIN orders : orders'[o] = orders[o]
      /\ orders'[Current] = [status |-> "live", matched |-> 0]
      /\ trades' = trades
  BY DEF Accept, With, Fresh
<1>2. IsFiniteSet(DOMAIN orders')
  BY <1>1, FS_AddElement DEF MatchedInv
<1>3. MatchedInv'
  BY <1>1, <1>2 DEF MatchedInv
<1>4. OrdersKept
  BY <1>1 DEF OrdersKept, Over, TradesOf
<1> QED
  BY <1>3, <1>4

LEMMA CloseKeeps ==
  ASSUME VenueInv, MatchedInv, NEW c \in OpenOrders, Close(c)
  PROVE  OrdersKept /\ MatchedInv'
<1>1. c \in DOMAIN orders /\ orders[c].status = "live" /\ orders[c] \in OrderRecord
  BY DEF OpenOrders, VenueInv, VenueTypeOK
<1>2. orders' = [orders EXCEPT ![c] = [orders[c] EXCEPT !.status = "canceled"]] /\ trades' = trades
  BY DEF Close
<1>3. /\ DOMAIN orders' = DOMAIN orders
      /\ \A o \in DOMAIN orders : o # c => orders'[o] = orders[o]
      /\ orders'[c].status = "canceled" /\ orders'[c].matched = orders[c].matched
  BY <1>1, <1>2 DEF OrderRecord
<1>4. MatchedInv'
  BY <1>2, <1>3 DEF MatchedInv
<1>5. OrdersKept
  BY <1>1, <1>2, <1>3 DEF OrdersKept, Over, TradesOf
<1> QED
  BY <1>4, <1>5

LEMMA VenueStepMatches ==
  ASSUME VenueInv, VenueInv', MatchedInv, VenueStep
  PROVE  MatchedInv'
<1>1. ASSUME NEW i \in inflight, Arrive(i)
      PROVE  MatchedInv'
  <2>1. /\ DOMAIN orders' = DOMAIN orders \cup {i} /\ i \notin DOMAIN orders
        /\ \A o \in DOMAIN orders : orders'[o] = orders[o]
        /\ orders'[i] = [status |-> "live", matched |-> 0]
        /\ trades' = trades
    BY <1>1 DEF Arrive, With, Fresh, VenueInv
  <2>2. IsFiniteSet(DOMAIN orders')
    BY <2>1, FS_AddElement DEF MatchedInv
  <2> QED
    BY <2>1, <2>2 DEF MatchedInv
<1>2. ASSUME NEW o \in OpenOrders, Close(o)
      PROVE  MatchedInv'
  BY <1>2, CloseKeeps
<1>3. ASSUME NEW o \in OpenOrders, NEW size \in 1..OrderSize, Fill(o, size)
      PROVE  MatchedInv'
  <2> DEFINE matched == orders[o].matched + size
             status == IF matched = OrderSize THEN "matched" ELSE "live"
  <2>1. o \in DOMAIN orders
    BY DEF OpenOrders
  <2>2. orders' = [orders EXCEPT ![o] = [status |-> status, matched |-> matched]]
    BY <1>3 DEF Fill
  <2>3. /\ DOMAIN trades' = DOMAIN trades \cup {<<o, matched>>}
    BY <1>3 DEF Fill, With
  <2> HIDE DEF matched
  <2>4. /\ DOMAIN orders' = DOMAIN orders
        /\ \A p \in DOMAIN orders : p # o => orders'[p] = orders[p]
        /\ orders'[o].status = status /\ orders'[o].matched = matched
    BY <2>1, <2>2
  <2>5. <<o, orders'[o].matched>> \in DOMAIN trades'
    BY <2>3, <2>4
  <2>6. \A p \in DOMAIN orders' :
          /\ orders'[p].matched > 0 => <<p, orders'[p].matched>> \in DOMAIN trades'
          /\ orders'[p].status = "matched" => orders'[p].matched = OrderSize
    BY <2>3, <2>4, <2>5 DEF MatchedInv
  <2> QED
    BY <2>4, <2>6 DEF MatchedInv
<1>4. CASE UNCHANGED orders /\ DOMAIN trades' = DOMAIN trades
  BY <1>4 DEF MatchedInv
<1>5. VenueStep => \/ \E i \in inflight : Arrive(i)
                   \/ \E o \in OpenOrders : Close(o) \/ \E size \in 1..OrderSize : Fill(o, size)
                   \/ UNCHANGED orders /\ DOMAIN trades' = DOMAIN trades
  BY DEF VenueStep, Vanish, Settle
<1> QED
  BY <1>1, <1>2, <1>3, <1>4, <1>5

LEMMA VenueKeeps ==
  ASSUME NEW Q, VenueInv, VenueInv', MatchedInv, VenueChanges(Q)
  PROVE  OrdersKept /\ MatchedInv'
<1>1. CASE UNCHANGED venueVars \/ LoseSubmit(Current)
  <2>1. orders' = orders /\ trades' = trades
    BY <1>1 DEF venueVars, LoseSubmit
  <2> QED
    BY <2>1 DEF OrdersKept, MatchedInv, Over, TradesOf
<1>2. CASE VenueStep
  <2>1. VenueGrows
    BY <1>2, VenueStepGrows
  <2>2. OrdersKept
    <3>1. \A o \in DOMAIN orders :
            /\ o \in DOMAIN orders'
            /\ orders[o].status # "live" => orders'[o] = orders[o]
      BY <2>1 DEF VenueGrows
    <3>2. \A o \in DOMAIN orders : Over(o) =>
            /\ orders'[o] = orders[o] /\ TradesOf(o)' = TradesOf(o)
            /\ \A t \in TradesOf(o) : trades[t].status = "Confirmed" => trades'[t].status = "Confirmed"
      BY <2>1, ClosedOrders DEF Over
    <3>3. \A o \in DOMAIN orders : Over(o) => Over(o)'
      BY <3>2 DEF Over
    <3> QED
      BY <3>1, <3>2, <3>3 DEF OrdersKept
  <2> QED
    BY <1>2, <2>2, VenueStepMatches
<1> QED
  BY <1>1, <1>2, AcceptKeeps, CloseKeeps DEF VenueChanges

-----------------------------------------------------------------------------
(* The lines stay true.                                                    *)

LEMMA TradesOfOrder ==
  ASSUME ReadsInv, pc \in OrderKnown, seen.order.status # "live"
  PROVE  OrderTrades = TradesOf(Current) /\ seen.order.status = orders[Current].status
BY DEF ReadsInv, OrderTrades, TradesOf

LEMMA OutcomeIsTrue ==
  ASSUME NEW Q, Current \in DOMAIN orders, OrderTrades = TradesOf(Current),
         seen.order.status = orders[Current].status
  PROVE  Outcome(IF run \in Q THEN "QuoteManagerStopped" ELSE "MakerMicroStopped") = {StopLine(Q, Current)}
BY DEF Outcome, StopLine, Current

(* What the last line of a session tells. *)
LEMMA ToldIsTrue ==
  ASSUME NEW Q, IInv(Q), RepInv(Q), pc = "stopping", NEW e \in Told(Q), e.type \in StopTypes
  PROVE  \E o \in DOMAIN orders : Over(o) /\ e = StopLine(Q, o)
<1>1. CASE run \in Q
  BY <1>1, OutcomeIsTrue DEF Told, RepInv, ToldInv
<1>2. CASE run \notin Q
  BY <1>2 DEF Told, RepInv, LinesInv
<1> QED
  BY <1>1, <1>2

LEMMA StepOutcomes ==
  ASSUME NEW Q, IInv(Q), Kinds(Q)
  PROVE  \/ seen'.outcomes = seen.outcomes
         \/ seen'.outcomes = {}
         \/ GoesOn /\ seen'.outcomes = seen.outcomes \cup Outcome("MakerMicroStopped")
<1>1. CASE GoesOn
  BY <1>1 DEF GoesOn, IInv, SeenTyped, SeenFields
<1>2. CASE Moves(Q)
  BY <1>2 DEF Moves, Reads
<1>6. CASE Finishes
  BY <1>6 DEF Finishes, Ends, Nothing
<1>7. CASE Cancels \/ Reserves
  BY <1>7 DEF Cancels, Reserves
<1>3. CASE Submit
  BY <1>3 DEF Submit, KeepSeen, Nothing
<1>4. CASE RecoveryStep
  BY <1>4, RecoveryShape
<1>5. CASE (\E a \in Approvals \ Q : StartSession(a)) \/ (\E a \in Q : StartQuoteSession(a)) \/ VenueMoves
  BY <1>5 DEF StartSession, StartQuoteSession, Nothing, VenueMoves
<1> QED
  BY <1>1, <1>2, <1>3, <1>4, <1>5, <1>6, <1>7 DEF Kinds

(* The order a session goes on from is over, and the outcome says so.      *)
LEMMA GoesOnOutcome ==
  ASSUME NEW Q, IInv(Q), GoesOn, run \notin Q
  PROVE  /\ Current \in DOMAIN orders /\ Over(Current)
         /\ Outcome("MakerMicroStopped") = {StopLine(Q, Current)}
<1>1. pc = "final" /\ OrderReconciles(TRUE) /\ ReadsInv
  BY DEF GoesOn, IInv
<1>2. pc \in OrderKnown /\ Current \in DOMAIN orders
  BY <1>1 DEF OrderKnown, IInv, PlacedInv, Closing
<1>3. Over(Current) /\ seen.order.status # "live"
  BY <1>1, ReconciledIsSettled, ReconciledStatus DEF Over
<1>4. OrderTrades = TradesOf(Current) /\ seen.order.status = orders[Current].status
  BY <1>1, <1>2, <1>3, TradesOfOrder
<1> QED
  BY <1>2, <1>3, <1>4, OutcomeIsTrue

LEMMA LinesKept ==
  ASSUME NEW Q, IInv(Q), RepInv(Q), Kinds(Q), Lines(Q), Turns(Q), Writes, OrdersKept
  PROVE  LinesInv(Q)'
<1>1. PICK events : /\ IsFiniteSet(events)
                    /\ journal \subseteq journal' /\ journal' \subseteq journal \cup events
                    /\ \A e \in events : LineOf(Q, e)
  BY DEF Lines
<1>2. IsFiniteSet(journal')
  <2>1. IsFiniteSet(journal \cup events)
    BY <1>1, FS_Union DEF RepInv, LinesInv
  <2> QED
    BY <1>1, <2>1, FS_Subset
<1>3. GoesOn => pc = "final" /\ pc' \in {"slot", "stopping"} /\ run \notin Q
  BY DEF GoesOn, NextOrder, Turns
<1>4. \A o \in DOMAIN orders : Over(o) => o \in DOMAIN orders' /\ Over(o)' /\ StopLine(Q, o)' = StopLine(Q, o)
  BY DEF OrdersKept, StopLine
<1>5. IsFiniteSet(seen'.outcomes)
  <2>1. IsFiniteSet(seen.outcomes) /\ IsFiniteSet({})
    BY FS_EmptySet DEF RepInv, LinesInv
  <2>2. GoesOn => IsFiniteSet(Outcome("MakerMicroStopped"))
    BY FS_Singleton DEF Outcome
  <2>3. GoesOn => IsFiniteSet(seen.outcomes \cup Outcome("MakerMicroStopped"))
    BY <2>1, <2>2, FS_Union
  <2> QED
    BY <2>1, <2>3, StepOutcomes
<1>6. ASSUME NEW e \in journal', e.type \in PlacedTypes
      PROVE  \E o \in DOMAIN orders' : e = PlacedLine(Q, o)
  <2>1. CASE e \in journal
    BY <1>6, <2>1 DEF RepInv, LinesInv, OrdersKept, PlacedLine
  <2>2. CASE e \notin journal
    <3>1. pc = "accepted" /\ e = PlacedLine(Q, Current)
      BY <1>1, <1>6, <2>2 DEF LineOf
    <3>2. Current \in DOMAIN orders'
      BY <3>1 DEF IInv, PlacedInv, Resting, OrdersKept
    <3> QED
      BY <3>1, <3>2
  <2> QED
    BY <2>1, <2>2
<1>7. ASSUME NEW e \in journal', e.type \in CancelTypes
      PROVE  e.order \in DOMAIN orders' /\ orders'[e.order].status = "canceled" /\ e.run = e.order[1]
  <2>1. CASE e \in journal
    BY <1>7, <2>1 DEF RepInv, LinesInv, OrdersKept
  <2>2. CASE e \notin journal
    <3>1. e.run = run
      BY <1>1, <1>7, <2>2 DEF LineOf
    <3>2. e.order = Current /\ pc \in {"canceled", "cleanup.canceled"}
      BY <1>7, <2>2 DEF Writes
    <3>3. Current \in DOMAIN orders /\ orders[Current].status = "canceled" /\ Current[1] = run
      BY <3>2 DEF IInv, PlacedInv, CancelsInv, Closing, Current
    <3> QED
      BY <3>1, <3>2, <3>3 DEF OrdersKept
  <2> QED
    BY <2>1, <2>2
<1>8. ASSUME NEW e \in journal', e.type = "QuoteReconciliationResult"
      PROVE  e.run \in Q /\ e.status = "failed"
  BY <1>1, <1>8 DEF LineOf, RepInv, LinesInv
<1>9. ASSUME NEW e \in journal' \cup seen'.outcomes, e.type \in StopTypes
      PROVE  \E o \in DOMAIN orders : Over(o) /\ e = StopLine(Q, o)
  <2>1. CASE e \in journal \cup seen.outcomes
    BY <1>9, <2>1 DEF RepInv, LinesInv
  <2>2. CASE e \in journal' /\ e \notin journal
    <3>1. pc = "stopping" /\ e \in Told(Q)
      BY <1>1, <1>9, <2>2 DEF LineOf
    <3> QED
      BY <1>9, <3>1, ToldIsTrue
  <2>3. CASE e \in seen'.outcomes /\ e \notin seen.outcomes
    BY <1>3, <2>3, StepOutcomes, GoesOnOutcome
  <2> QED
    BY <1>9, <2>1, <2>2, <2>3
<1>10. \A e \in journal' \cup seen'.outcomes :
          e.type \in StopTypes => \E o \in DOMAIN orders' : Over(o)' /\ e = StopLine(Q, o)'
  <2> SUFFICES ASSUME NEW e \in journal' \cup seen'.outcomes, e.type \in StopTypes
               PROVE  \E o \in DOMAIN orders' : Over(o)' /\ e = StopLine(Q, o)'
    OBVIOUS
  <2>1. PICK o \in DOMAIN orders : Over(o) /\ e = StopLine(Q, o)
    BY <1>9
  <2>2. o \in DOMAIN orders' /\ Over(o)' /\ e = StopLine(Q, o)'
    BY <1>4, <2>1
  <2> QED
    BY <2>2
<1> QED
  BY <1>2, <1>5, <1>6, <1>7, <1>8, <1>10 DEF LinesInv, PlacedLine

-----------------------------------------------------------------------------
(* A session has told of the orders it is done with.                       *)

LEMMA Announcing ==
  ASSUME NEW Q, IInv(Q), ToldInv(Q), Kinds(Q), Turns(Q), Writes, pc' \in Announced
  PROVE  PlacedLine(Q, Current)' \in journal'
<1>1. UNCHANGED <<run, n>>
  BY DEF Kinds, Moves, Stays, Finishes, Ends, Cancels, Reserves, GoesOn, NextOrder, Submit, Goto,
     StartSession, StartQuoteSession, RecoveryStep, StartRecovery, RecoveryReadsOrders,
     RecoveryReadsTrades, EvaluateRecovery, VenueMoves, Announced
<1>2. PlacedLine(Q, Current)' = PlacedLine(Q, Current)
  BY <1>1 DEF PlacedLine, Current
<1>3. PlacedLine(Q, Current) \in journal'
  BY DEF Turns, ToldInv, Writes
<1> QED
  BY <1>2, <1>3

LEMMA OneQuoteEach ==
  ASSUME NEW Q, IInv(Q), ToldInv(Q), Kinds(Q), Turns(Q), pc' \in InSession, run' \in Q
  PROVE  n' = 1
<1>1. CASE Moves(Q) \/ Cancels \/ Submit \/ VenueMoves
  <2>1. UNCHANGED <<run, n>> /\ pc \in InSession
    BY <1>1 DEF Moves, Stays, Cancels, Submit, Goto, VenueMoves, InSession, Command, Before, Resting, Closing
  <2> QED
    BY <2>1 DEF ToldInv
<1>2. CASE Reserves
  <2>1. UNCHANGED <<run, n>> /\ pc \in Command
    BY <1>2 DEF Reserves, Command
  <2> QED
    BY <2>1 DEF IInv, ProcessTyped
<1>3. CASE GoesOn
  <2>1. pc = "final" /\ pc' \in {"slot", "stopping"} /\ run' = run
    BY <1>3 DEF GoesOn, NextOrder
  <2> QED
    BY <2>1 DEF Turns
<1>4. CASE RecoveryStep
  BY <1>4, RecoveryShape DEF Recovering, InSession, Before, Resting, Closing
<1>5. CASE Finishes \/ (\E a \in Approvals \ Q : StartSession(a)) \/ (\E a \in Q : StartQuoteSession(a))
  BY <1>5 DEF Finishes, Ends, StartSession, StartQuoteSession, InSession, Before, Resting, Closing
<1> QED
  BY <1>1, <1>2, <1>3, <1>4, <1>5 DEF Kinds

(* A quote session that stops has read what became of its order.           *)
LEMMA QuoteStops ==
  ASSUME NEW Q, IInv(Q), RepInv(Q), Kinds(Q), Turns(Q), OrdersKept, pc' = "stopping", run' \in Q
  PROVE  /\ Current' \in DOMAIN orders' /\ Over(Current)'
         /\ seen'.order.status = orders'[Current'].status
         /\ OrderTrades' = TradesOf(Current)'
<1>1. CASE pc = "stopping"
  <2>1. VenueMoves
    BY <1>1 DEF Kinds, Moves, Stays, Finishes, Ends, Cancels, Reserves, GoesOn, NextOrder, Submit, Goto,
     StartSession, StartQuoteSession, RecoveryStep, StartRecovery, RecoveryReadsOrders,
     RecoveryReadsTrades, EvaluateRecovery
  <2>2. UNCHANGED <<run, n, seen>> /\ Current' = Current /\ OrderTrades' = OrderTrades
    BY <2>1 DEF VenueMoves, Current, OrderTrades
  <2>3. /\ Current \in DOMAIN orders /\ Over(Current)
        /\ seen.order.status = orders[Current].status /\ OrderTrades = TradesOf(Current)
    BY <1>1, <2>2 DEF RepInv, ToldInv
  <2>4. /\ Current \in DOMAIN orders' /\ orders'[Current] = orders[Current]
        /\ TradesOf(Current)' = TradesOf(Current) /\ Over(Current)'
    BY <2>2, <2>3 DEF OrdersKept, Over, TradesOf
  <2> QED
    BY <2>2, <2>3, <2>4
<1>2. CASE pc # "stopping"
  <2>1. pc = "filled" /\ seen' = seen /\ UNCHANGED <<run, n>>
    <3>1. pc \in {"filled", "final"} /\ (pc = "filled" => seen' = seen)
      BY <1>2 DEF Turns
    <3>2. UNCHANGED run
      BY <1>2, <3>1 DEF Kinds, Moves, Stays, Finishes, Ends, Cancels, Reserves, GoesOn, NextOrder, Submit, Goto,
         StartSession, StartQuoteSession, RecoveryStep, StartRecovery, RecoveryReadsOrders,
         RecoveryReadsTrades, EvaluateRecovery, VenueMoves
    <3>3. pc = "filled"
      BY <3>1, <3>2 DEF Turns
    <3> QED
      BY <3>1, <3>3 DEF Kinds, Moves, Stays, Finishes, Ends, Cancels, Reserves, GoesOn, Submit,
         StartSession, StartQuoteSession, RecoveryStep, StartRecovery, RecoveryReadsOrders,
         RecoveryReadsTrades, EvaluateRecovery, VenueMoves
  <2>2. Moves(Q)
    BY <2>1 DEF Kinds, Moves, Stays, Finishes, Ends, Cancels, Reserves, GoesOn, Submit,
         StartSession, StartQuoteSession, RecoveryStep, StartRecovery, RecoveryReadsOrders,
         RecoveryReadsTrades, EvaluateRecovery, VenueMoves
  <2>3. OrderReconciles(TRUE) /\ orders' = orders /\ trades' = trades
    BY <2>2 DEF Moves, Onward, Stays, venueVars
  <2>4. pc \in OrderKnown /\ Current \in DOMAIN orders /\ ReadsInv
    BY <2>1 DEF OrderKnown, IInv, PlacedInv, Closing
  <2>5. Over(Current) /\ seen.order.status # "live"
    BY <2>1, <2>3, <2>4, ReconciledIsSettled, ReconciledStatus DEF Over
  <2>6. OrderTrades = TradesOf(Current) /\ seen.order.status = orders[Current].status
    BY <2>4, <2>5, TradesOfOrder
  <2>7. Current' = Current /\ OrderTrades' = OrderTrades /\ TradesOf(Current)' = TradesOf(Current) /\ Over(Current)'
    BY <2>1, <2>3, <2>5 DEF Current, OrderTrades, TradesOf, Over
  <2> QED
    BY <2>1, <2>3, <2>4, <2>6, <2>7
<1> QED
  BY <1>1, <1>2

LEMMA NewOrders ==
  ASSUME NEW Q, IInv(Q), VenueChanges(Q), Kinds(Q), NEW o \in DOMAIN orders' \ DOMAIN orders
  PROVE  (Submit /\ o = Current) \/ (VenueMoves /\ o \in inflight)
<1>1. CASE Submit
  BY <1>1 DEF Submit, Accept, With, LoseSubmit, venueVars
<1>2. CASE VenueMoves
  <2>1. VenueGrows
    BY <1>2, VenueStepGrows DEF VenueMoves, IInv
  <2> QED
    BY <1>2, <2>1 DEF VenueGrows
<1>3. CASE Cancels
  BY <1>3, CancelsOutcome
<1>4. CASE RecoveryStep
  BY <1>4, RecoveryShape
<1>5. CASE Moves(Q) \/ Finishes \/ Reserves \/ GoesOn
           \/ (\E a \in Approvals \ Q : StartSession(a)) \/ (\E a \in Q : StartQuoteSession(a))
  <2>1. orders' = orders
    BY <1>5 DEF Moves, Stays, Finishes, Ends, Reserves, GoesOn, StartSession, StartQuoteSession, venueVars
  <2> QED
    BY <2>1
<1> QED
  BY <1>1, <1>2, <1>3, <1>4, <1>5 DEF Kinds

(* An order a session is done with it was done with before, or it has just *)
(* reconciled it.                                                          *)
LEMMA DoneBefore ==
  ASSUME NEW Q, IInv(Q), IInv(Q)', RepInv(Q), Kinds(Q), Turns(Q), NEW o \in DOMAIN orders', DoneWith(o)'
  PROVE  /\ o \in DOMAIN orders
         /\ \/ DoneWith(o) /\ seen.outcomes \subseteq seen'.outcomes
            \/ o = Current /\ pc = "filled" /\ run \in Q
            \/ o = Current /\ GoesOn
<1>1. /\ pc' \in InSession /\ run' = o[1] /\ (o[2] < n' \/ pc' = "stopping")
  BY DEF DoneWith
<1>2. o[2] \in Nat /\ o[2] >= 1 /\ o = <<o[1], o[2]>> /\ o[1] \in Approvals
  <2>1. o \in SessionIntents
    BY ApprovalsAssumption DEF IInv, VenueInv, VenueTypeOK
  <2> QED
    BY <2>1, LimitsAssumption DEF SessionIntents
<1>3. pc' \in InSession => n' \in 1..MaxOrders
  BY DEF IInv, ProcessTyped
<1>4. CASE Submit
  <2>1. pc = "submit" /\ run' = run /\ n' = n /\ pc' # "stopping" /\ seen' = seen
    BY <1>4 DEF Submit, Goto, KeepSeen
  <2>2. pc \in InSession /\ n \in Nat
    BY <1>1, <1>3, <2>1, LimitsAssumption DEF InSession, Before
  <2>3. o # Current
    BY <1>1, <2>1, <2>2 DEF Current
  <2>4. o \in DOMAIN orders
    <3>1. ~ VenueMoves
      BY <1>4 DEF Submit, VenueMoves, Goto
    <3> QED
      BY <2>3, <3>1, NewOrders, StepChangesVenue
  <2> QED
    BY <1>1, <2>1, <2>2, <2>4 DEF DoneWith
<1>5. CASE VenueMoves
  <2>1. UNCHANGED <<pc, run, n, seen>>
    BY <1>5 DEF VenueMoves
  <2>2. DoneWith(o)
    BY <1>1, <2>1 DEF DoneWith
  <2>3. o \in DOMAIN orders
    <3> SUFFICES ASSUME o \notin DOMAIN orders PROVE FALSE
      OBVIOUS
    <3>1. o \in inflight \/ (Submit /\ o = Current)
      BY NewOrders, StepChangesVenue
    <3>2. o \in inflight
      BY <2>1, <3>1 DEF Submit, Goto
    <3>3. pc = "rejected" /\ o[2] = n
      BY <2>2, <3>2 DEF IInv, LateInv, DoneWith
    <3> QED
      BY <1>2, <2>2, <3>3 DEF DoneWith
  <2> QED
    BY <2>1, <2>2, <2>3
<1>6. CASE Cancels
  <2>1. UNCHANGED <<run, n, seen>> /\ pc \in Resting /\ pc' # "stopping" /\ DOMAIN orders' = DOMAIN orders
    BY <1>6, CancelsOutcome DEF Cancels
  <2>2. pc \in InSession /\ n' = n
    BY <2>1 DEF InSession
  <2> QED
    BY <1>1, <2>1, <2>2 DEF DoneWith
<1>7. CASE RecoveryStep
  BY <1>1, <1>7, RecoveryShape DEF Recovering, InSession, Before, Resting, Closing
<1>8. CASE Finishes
  BY <1>1, <1>8 DEF Finishes, Ends, InSession, Before, Resting, Closing
<1>9. CASE Reserves
  <2>1. n' = 1 /\ pc' # "stopping"
    BY <1>9 DEF Reserves, IInv, ProcessTyped, Command
  <2> QED
    BY <1>1, <1>2, <2>1
<1>10. CASE (\E a \in Approvals \ Q : StartSession(a)) \/ (\E a \in Q : StartQuoteSession(a))
  <2>1. n' = 1 /\ pc' # "stopping"
    BY <1>10 DEF StartSession, StartQuoteSession
  <2> QED
    BY <1>1, <1>2, <2>1
<1>11. CASE GoesOn
  <2>1. /\ pc = "final" /\ run' = run /\ orders' = orders
        /\ n' = n + 1 \/ n' = n
    BY <1>11 DEF GoesOn, NextOrder, venueVars
  <2>2. pc \in InSession /\ n \in Nat
    BY <2>1, LimitsAssumption DEF InSession, Closing, IInv, ProcessTyped
  <2>3. o[2] <= n
    BY <1>1, <2>1, <2>2, OrderAtHand DEF IInv
  <2>4. CASE o[2] < n
    <3>1. DoneWith(o)
      BY <1>1, <2>1, <2>2, <2>4 DEF DoneWith
    <3>2. seen.outcomes \subseteq seen'.outcomes
      BY <1>11 DEF GoesOn, IInv, SeenTyped, SeenFields
    <3> QED
      BY <2>1, <3>1, <3>2
  <2>5. CASE o[2] = n
    BY <1>1, <1>2, <1>11, <2>1, <2>5 DEF Current
  <2> QED
    BY <1>2, <2>2, <2>3, <2>4, <2>5
<1>12. CASE Moves(Q)
  <2>1. /\ UNCHANGED <<run, n, orders>> /\ seen'.outcomes = seen.outcomes
        /\ pc \in InSession /\ pc # "stopping"
    BY <1>1, <1>12 DEF Moves, Stays, Reads, venueVars, InSession, Command, Before, Resting, Closing
  <2>2. CASE o[2] < n
    BY <1>1, <2>1, <2>2 DEF DoneWith
  <2>3. CASE ~ o[2] < n
    <3>1. pc' = "stopping"
      BY <1>1, <2>1, <2>3
    <3>2. pc = "filled" /\ run \in Q
      BY <1>12, <3>1 DEF Moves, Onward
    <3>3. o = Current
      BY <1>1, <2>1, <2>3, OrderAtHand DEF IInv
    <3> QED
      BY <2>1, <3>2, <3>3
  <2> QED
    BY <2>2, <2>3
<1> QED
  BY <1>4, <1>5, <1>6, <1>7, <1>8, <1>9, <1>10, <1>11, <1>12 DEF Kinds

LEMMA DoneIsOver ==
  ASSUME NEW Q, IInv(Q), NEW o \in DOMAIN orders, DoneWith(o) \/ ended[o[1]] = "completed"
  PROVE  Over(o)
BY DEF IInv, SettledInv, Settled, DoneWith, Over

LEMMA DoneKept ==
  ASSUME NEW Q, IInv(Q), IInv(Q)', RepInv(Q), Kinds(Q), Turns(Q), Writes, OrdersKept,
         NEW o \in DOMAIN orders', DoneWith(o)'
  PROVE  PlacedLine(Q, o) \in journal' /\ (o[1] \notin Q => StopLine(Q, o)' \in seen'.outcomes)
<1>1. /\ o \in DOMAIN orders
      /\ \/ DoneWith(o) /\ seen.outcomes \subseteq seen'.outcomes
         \/ o = Current /\ pc = "filled" /\ run \in Q
         \/ o = Current /\ GoesOn
  BY DoneBefore
<1>2. CASE DoneWith(o) /\ seen.outcomes \subseteq seen'.outcomes
  <2>1. Over(o) /\ StopLine(Q, o)' = StopLine(Q, o)
    BY <1>1, <1>2, DoneIsOver DEF OrdersKept, StopLine
  <2> QED
    BY <1>1, <1>2, <2>1 DEF RepInv, ToldInv, Writes
<1>3. CASE o = Current /\ pc = "filled" /\ run \in Q
  <2>1. PlacedLine(Q, o) \in journal
    BY <1>3 DEF RepInv, ToldInv, Announced
  <2> QED
    BY <1>3, <2>1 DEF Writes, Current
<1>4. CASE o = Current /\ GoesOn
  <2>1. pc = "final" /\ pc' \in {"slot", "stopping"}
    BY <1>4 DEF GoesOn, NextOrder
  <2>2. PlacedLine(Q, o) \in journal /\ run \notin Q
    BY <1>4, <2>1 DEF RepInv, ToldInv, Announced, Turns
  <2>3. Over(o) /\ Outcome("MakerMicroStopped") = {StopLine(Q, o)}
    BY <1>4, <2>2, GoesOnOutcome
  <2>4. StopLine(Q, o)' = StopLine(Q, o)
    BY <1>1, <2>3 DEF OrdersKept, StopLine
  <2>5. seen'.outcomes = seen.outcomes \cup Outcome("MakerMicroStopped")
    BY <1>4 DEF GoesOn, IInv, SeenTyped, SeenFields
  <2> QED
    BY <2>2, <2>3, <2>4, <2>5 DEF Writes
<1> QED
  BY <1>1, <1>2, <1>3, <1>4

LEMMA NewlyCompleted ==
  ASSUME NEW Q, IInv(Q), Kinds(Q), NEW a \in Approvals, ended'[a] = "completed", ended[a] # "completed"
  PROVE  pc = "stopping" /\ pc' = "idle" /\ run = a /\ UNCHANGED venueVars
<1>1. ended' # ended
  OBVIOUS
<1>2. Finishes
  BY <1>1, RecoveryShape DEF Kinds, Moves, Stays, Cancels, Reserves, GoesOn, NextOrder, Submit, Goto,
     StartSession, StartQuoteSession, VenueMoves, historyVars
<1>3. DOMAIN ended = Approvals
  BY DEF IInv, HistoryTyped
<1> QED
  BY <1>2, <1>3 DEF Finishes, Ends

LEMMA CompletedKept ==
  ASSUME NEW Q, IInv(Q), IInv(Q)', RepInv(Q), Kinds(Q), Turns(Q), Writes, OrdersKept,
         NEW o \in DOMAIN orders', ended'[o[1]] = "completed"
  PROVE  PlacedLine(Q, o) \in journal' /\ StopLine(Q, o)' \in journal'
<1>1. o[1] \in Approvals /\ o[2] \in 1..MaxOrders /\ o = <<o[1], o[2]>>
  BY ApprovalsAssumption DEF IInv, VenueInv, VenueTypeOK, SessionIntents
<1>2. CASE ended[o[1]] = "completed"
  <2>1. o \in DOMAIN orders
    <3> SUFFICES ASSUME o \notin DOMAIN orders PROVE FALSE
      OBVIOUS
    <3>1. CASE Submit /\ o = Current
      <4>1. pc \in InSession /\ o[1] = run
        BY <3>1 DEF Submit, InSession, Before, Current
      <4> QED
        BY <1>2, <4>1 DEF IInv, CountInv
    <3>2. CASE o \in inflight
      <4>1. ended[o[1]] \in {"failed", "crashed"} \/ (pc \in InSession /\ run = o[1])
        BY <3>2 DEF IInv, LateInv
      <4> QED
        BY <1>2, <4>1 DEF IInv, CountInv
    <3> QED
      BY <3>1, <3>2, NewOrders, StepChangesVenue
  <2>2. StopLine(Q, o)' = StopLine(Q, o)
    BY <1>2, <2>1, DoneIsOver DEF OrdersKept, StopLine
  <2> QED
    BY <1>2, <2>1, <2>2 DEF RepInv, ToldInv, Writes
<1>3. CASE ended[o[1]] # "completed"
  <2>1. pc = "stopping" /\ pc' = "idle" /\ run = o[1] /\ orders' = orders /\ trades' = trades
    BY <1>1, <1>3, NewlyCompleted DEF venueVars
  <2>2. DoneWith(o) /\ o \in DOMAIN orders
    BY <2>1 DEF DoneWith, InSession
  <2>3. StopLine(Q, o)' = StopLine(Q, o)
    BY <2>1 DEF StopLine, TradesOf
  <2>4. PlacedLine(Q, o) \in journal'
    BY <2>2 DEF RepInv, ToldInv, Writes
  <2>5. Told(Q) \subseteq journal'
    BY <2>1 DEF Turns
  <2>6. StopLine(Q, o) \in Told(Q)
    <3>1. CASE run \notin Q
      BY <2>1, <2>2, <3>1 DEF Told, RepInv, ToldInv
    <3>2. CASE run \in Q
      <4>1. n = 1
        BY <2>2, <3>2 DEF DoneWith, RepInv, ToldInv
      <4>2. o[2] <= n
        BY <2>1, <2>2, OrderAtHand DEF DoneWith, IInv
      <4>3. o = Current
        BY <1>1, <2>1, <4>1, <4>2, LimitsAssumption DEF Current
      <4>4. Told(Q) = {StopLine(Q, Current)}
        BY <2>1, <3>2, OutcomeIsTrue DEF Told, RepInv, ToldInv
      <4> QED
        BY <4>3, <4>4
    <3> QED
      BY <3>1, <3>2
  <2> QED
    BY <2>3, <2>4, <2>5, <2>6
<1> QED
  BY <1>2, <1>3

LEMMA RepStep ==
  ASSUME NEW Q, Q \subseteq Approvals, IInv(Q), RepInv(Q), StepOf(Q)
  PROVE  RepInv(Q)'
<1>1. Kinds(Q) /\ IInv(Q)' /\ Lines(Q) /\ Turns(Q) /\ Writes
  BY StepIsOfAKind, KindsInv, StepLines
<1>2. OrdersKept /\ MatchedInv'
  BY <1>1, StepChangesVenue, VenueKeeps DEF IInv, RepInv
<1>3. LinesInv(Q)'
  BY <1>1, <1>2, LinesKept
<1>4. \A o \in DOMAIN orders' :
        /\ DoneWith(o)' => PlacedLine(Q, o) \in journal'
        /\ DoneWith(o)' /\ o[1] \notin Q => StopLine(Q, o)' \in seen'.outcomes
        /\ ended'[o[1]] = "completed" => PlacedLine(Q, o) \in journal' /\ StopLine(Q, o)' \in journal'
  BY <1>1, <1>2, DoneKept, CompletedKept
<1>5. pc' \in Announced => PlacedLine(Q, Current)' \in journal'
  BY <1>1, Announcing DEF RepInv
<1>6. pc' \in InSession /\ run' \in Q => n' = 1
  BY <1>1, OneQuoteEach DEF RepInv
<1>7. pc' = "stopping" /\ run' \in Q =>
        /\ Current' \in DOMAIN orders' /\ Over(Current)'
        /\ seen'.order.status = orders'[Current'].status
        /\ OrderTrades' = TradesOf(Current)'
  BY <1>1, <1>2, QuoteStops
<1>8. ToldInv(Q)'
  BY <1>4, <1>5, <1>6, <1>7 DEF ToldInv, PlacedLine
<1> QED
  BY <1>2, <1>3, <1>8 DEF RepInv

LEMMA RepUnchanged ==
  ASSUME NEW Q, RepInv(Q), UNCHANGED vars
  PROVE  RepInv(Q)'
<1> USE DEF vars, venueVars, diskVars, historyVars
<1>1. MatchedInv' /\ \A o : TradesOf(o)' = TradesOf(o)
  BY DEF RepInv, MatchedInv, TradesOf
<1>2. \A o : Over(o)' = Over(o) /\ StopLine(Q, o)' = StopLine(Q, o)
  BY <1>1 DEF Over, StopLine
<1>3. LinesInv(Q)'
  BY <1>2 DEF RepInv, LinesInv, PlacedLine
<1>4. Current' = Current /\ OrderTrades' = OrderTrades /\ \A o : DoneWith(o)' = DoneWith(o)
  BY DEF Current, OrderTrades, DoneWith
<1>5. ToldInv(Q)'
  BY <1>1, <1>2, <1>4 DEF RepInv, ToldInv, PlacedLine, Over
<1> QED
  BY <1>1, <1>3, <1>5 DEF RepInv

LEMMA RepInit ==
  ASSUME NEW Q, Init
  PROVE  RepInv(Q)
<1>1. DOMAIN orders = {} /\ DOMAIN trades = {} /\ journal = {} /\ seen.outcomes = {} /\ pc = "idle"
  <2>1. orders = << >> /\ trades = << >>
    BY DEF Init, VenueInit
  <2>2. << >> \in [{} -> {}]
    OBVIOUS
  <2> QED
    BY <2>1, <2>2 DEF Init, Nothing
<1>2. "idle" \notin InSession \cup Announced
  BY DEF InSession, Before, Resting, Closing, Announced
<1> QED
  BY <1>1, <1>2, FS_EmptySet DEF RepInv, MatchedInv, LinesInv, ToldInv

(* The journal is true of every order it tells of, and tells of every order*)
(* of a session that completed.                                            *)
THEOREM ReportInvariance == LiveSpec => []RepInv(QuoteApprovals)
<1>1. LiveInit => RepInv(QuoteApprovals)
  BY RepInit DEF LiveInit
<1>2. IInv(QuoteApprovals) /\ RepInv(QuoteApprovals) /\ [LiveNext]_liveVars => RepInv(QuoteApprovals)'
  BY LiveStepOf, RepStep, RepUnchanged, QuoteApprovalsAssumption DEF liveVars
<1> QED
  BY <1>1, <1>2, LiveInvariance, PTL DEF LiveSpec

-----------------------------------------------------------------------------
(* Counting lines is counting orders.                                      *)

LEMMA LinesCountOrders ==
  ASSUME NEW L, IsFiniteSet(L), NEW O,
         \A e \in L : e.order \in O,
         \A o \in O : \E e \in L : e.order = o,
         \A e, g \in L : e.order = g.order => e = g
  PROVE  IsFiniteSet(O) /\ Cardinality(L) = Cardinality(O)
<1> DEFINE f == [e \in L |-> e.order]
<1>1. f \in Surjection(L, O)
  BY DEF Surjection
<1>2. f \in Injection(L, O)
  BY DEF Injection, IsInjective
<1> HIDE DEF f
<1> QED
  BY <1>1, <1>2, FS_Surjection

(* Two parts of a set that have nothing in common.                         *)
LEMMA PartsCount ==
  ASSUME NEW S, IsFiniteSet(S), NEW A, NEW B, A \subseteq S, B \subseteq S, A \cap B = {}
  PROVE  /\ Cardinality(A) + Cardinality(B) <= Cardinality(S)
         /\ A \cup B = S => Cardinality(A) + Cardinality(B) = Cardinality(S)
<1>1. /\ IsFiniteSet(A) /\ IsFiniteSet(B)
      /\ Cardinality(A) \in Nat /\ Cardinality(B) \in Nat /\ Cardinality(S) \in Nat
  BY FS_Subset, FS_CardinalityType
<1>2. Cardinality(A \cup B) = Cardinality(A) + Cardinality(B) - Cardinality(A \cap B)
  BY <1>1, FS_Union
<1>3. Cardinality(A \cap B) = 0
  BY FS_EmptySet
<1>4. Cardinality(A \cup B) <= Cardinality(S)
  BY FS_Subset
<1>5. Cardinality(A \cup B) = Cardinality(A) + Cardinality(B)
  BY <1>1, <1>2, <1>3
<1> QED
  BY <1>4, <1>5

(* The lines of one kind of session: LA6 if `quote`.                       *)
Journal(Q, quote) == {e \in journal : (e.run \in Q) = quote}
PlacedOrders(Q, quote) == {o \in DOMAIN orders : (o[1] \in Q) = quote /\ PlacedLine(Q, o) \in journal}
StoppedOrders(Q, quote) ==
  {o \in DOMAIN orders : (o[1] \in Q) = quote /\ Over(o) /\ StopLine(Q, o) \in journal}
PlacedType(quote) == IF quote THEN "QuotePlaced" ELSE "MakerOrderAccepted"
StopType(quote) == IF quote THEN "QuoteManagerStopped" ELSE "MakerMicroStopped"
Stops(Q, quote) == OfType(Journal(Q, quote), {StopType(quote)})

LEMMA LineFields ==
  ASSUME NEW Q, NEW o
  PROVE  /\ PlacedLine(Q, o).order = o /\ PlacedLine(Q, o).run = o[1]
         /\ PlacedLine(Q, o).type = PlacedType(o[1] \in Q)
         /\ StopLine(Q, o).order = o /\ StopLine(Q, o).run = o[1]
         /\ StopLine(Q, o).type = StopType(o[1] \in Q)
         /\ StopLine(Q, o).trades = TradesOf(o) /\ StopLine(Q, o).status = orders[o].status
BY DEF PlacedLine, StopLine, Event, PlacedType, StopType

LEMMA PlacedCount ==
  ASSUME NEW Q, RepInv(Q), NEW quote \in BOOLEAN
  PROVE  Cardinality(OfType(Journal(Q, quote), {PlacedType(quote)})) = Cardinality(PlacedOrders(Q, quote))
<1> DEFINE L == OfType(Journal(Q, quote), {PlacedType(quote)})
           O == PlacedOrders(Q, quote)
<1>1. IsFiniteSet(L)
  <2>1. L \subseteq journal
    BY DEF OfType, Journal
  <2> QED
    BY <2>1, FS_Subset DEF RepInv, LinesInv
<1>2. ASSUME NEW e \in L
      PROVE  \E o \in O : e = PlacedLine(Q, o)
  <2>1. e \in journal /\ e.type \in PlacedTypes /\ (e.run \in Q) = quote
    BY DEF OfType, Journal, PlacedTypes, PlacedType
  <2>2. PICK o \in DOMAIN orders : e = PlacedLine(Q, o)
    BY <2>1 DEF RepInv, LinesInv
  <2> QED
    BY <2>1, <2>2, LineFields DEF PlacedOrders
<1>3. ASSUME NEW o \in O
      PROVE  PlacedLine(Q, o) \in L
  BY LineFields DEF PlacedOrders, OfType, Journal
<1> HIDE DEF L, O
<1>4. \A e \in L : e.order \in O
  BY <1>2, LineFields
<1>5. \A o \in O : \E e \in L : e.order = o
  BY <1>3, LineFields
<1>6. \A e, g \in L : e.order = g.order => e = g
  BY <1>2, LineFields
<1>7. Cardinality(L) = Cardinality(O)
  BY <1>1, <1>4, <1>5, <1>6, LinesCountOrders
<1> QED
  BY <1>7 DEF L, O

(* The lines that end a session, those with a property of their order.     *)
LEMMA StopCount ==
  ASSUME NEW Q, RepInv(Q), NEW quote \in BOOLEAN, NEW L \in SUBSET Stops(Q, quote),
         NEW O \in SUBSET StoppedOrders(Q, quote),
         \A o \in StoppedOrders(Q, quote) : StopLine(Q, o) \in L <=> o \in O
  PROVE  Cardinality(L) = Cardinality(O)
<1>1. IsFiniteSet(L)
  <2>1. L \subseteq journal
    BY DEF Stops, OfType, Journal
  <2> QED
    BY <2>1, FS_Subset DEF RepInv, LinesInv
<1>2. ASSUME NEW e \in L
      PROVE  \E o \in O : e = StopLine(Q, o)
  <2>1. e \in journal /\ e.type \in StopTypes /\ (e.run \in Q) = quote
    BY DEF Stops, OfType, Journal, StopTypes, StopType
  <2>2. PICK o \in DOMAIN orders : Over(o) /\ e = StopLine(Q, o)
    BY <2>1 DEF RepInv, LinesInv
  <2>3. o \in StoppedOrders(Q, quote)
    BY <2>1, <2>2, LineFields DEF StoppedOrders
  <2> QED
    BY <2>2, <2>3
<1>4. \A e \in L : e.order \in O
  BY <1>2, LineFields
<1>5. \A o \in O : \E e \in L : e.order = o
  BY LineFields
<1>6. \A e, g \in L : e.order = g.order => e = g
  BY <1>2, LineFields
<1> QED
  BY <1>1, <1>4, <1>5, <1>6, LinesCountOrders

LEMMA StopLinesAre ==
  ASSUME NEW Q, NEW quote \in BOOLEAN, NEW o \in StoppedOrders(Q, quote)
  PROVE  StopLine(Q, o) \in Stops(Q, quote)
BY LineFields DEF StoppedOrders, Stops, OfType, Journal

(* An order has filled exactly when the line that ends its session says so.*)
LEMMA FilledIs ==
  ASSUME NEW Q, VenueInv, MatchedInv, NEW o \in DOMAIN orders
  PROVE  WasFilled(StopLine(Q, o)) <=> o \in Traded
<1>1. orders[o].matched \in Nat /\ orders[o] \in OrderRecord
  BY OrderSizeAssumption DEF VenueInv, VenueTypeOK, OrderRecord
<1>2. ASSUME NEW t \in TradesOf(o)
      PROVE  orders[o].matched > 0
  <2>1. t \in Trades /\ t[1] = o /\ t[2] <= orders[o].matched
    BY DEF TradesOf, VenueInv, VenueTypeOK, TradesHaveOrders
  <2>2. t[2] \in 1..OrderSize
    BY <2>1 DEF Trades
  <2> QED
    BY <1>1, <2>1, <2>2, OrderSizeAssumption
<1>3. orders[o].status = "matched" => orders[o].matched > 0
  <2>1. orders[o].status = "matched" => orders[o].matched = OrderSize
    BY DEF MatchedInv
  <2> QED
    BY <2>1, OrderSizeAssumption
<1>4. ASSUME orders[o].matched > 0
      PROVE  TradesOf(o) # {}
  <2>1. <<o, orders[o].matched>> \in DOMAIN trades
    BY <1>4 DEF MatchedInv
  <2>2. trades[<<o, orders[o].matched>>].order = o
    BY <2>1 DEF VenueInv, TradesHaveOrders
  <2> QED
    BY <2>1, <2>2 DEF TradesOf
<1> QED
  BY <1>2, <1>3, <1>4, LineFields DEF WasFilled, Traded

(* What the report counts. *)
Fills(Q, quote) == {e \in Stops(Q, quote) : WasFilled(e)}
FilledOrders(Q, quote) == {o \in StoppedOrders(Q, quote) : o \in Traded}
Failures(Q) == {e \in OfType(Journal(Q, TRUE), {"QuoteReconciliationResult"}) : e.status # "passed"}
QuoteCanceledOrders(Q) == {e.order : e \in CancelsToldOf(Journal(Q, TRUE))}
StoppedCanceled(Q, quote) == {o \in StoppedOrders(Q, quote) : orders[o].status = "canceled"}

LEMMA ScaleCounts ==
  /\ Scale.orders = Cardinality(OfType(Journal(QuoteApprovals, FALSE), {PlacedType(FALSE)}))
                    + Cardinality(OfType(Journal(QuoteApprovals, TRUE), {PlacedType(TRUE)}))
  /\ Scale.fills = Cardinality(Fills(QuoteApprovals, FALSE)) + Cardinality(Fills(QuoteApprovals, TRUE))
  /\ Scale.cancels = Cardinality(FinallyCanceled(Stops(QuoteApprovals, FALSE)))
                     + Cardinality(QuoteCanceledOrders(QuoteApprovals))
  /\ Scale.halts = 0 + Cardinality(Failures(QuoteApprovals))
  /\ Scale.mismatches = 0 + Cardinality(Failures(QuoteApprovals))
<1> DEFINE maker == MakerMicroPart(Journal(QuoteApprovals, FALSE))
           quote == QuoteManagerPart(Journal(QuoteApprovals, TRUE))
<1>1. /\ Journal(QuoteApprovals, FALSE) = {e \in journal : e.run \notin QuoteApprovals}
      /\ Journal(QuoteApprovals, TRUE) = {e \in journal : e.run \in QuoteApprovals}
  BY DEF Journal
<1>2. Scale = [field \in DOMAIN maker |-> maker[field] + quote[field]]
  BY <1>1 DEF Scale, Summary
<1>3. /\ DOMAIN maker = {"orders", "fills", "cancels", "halts", "mismatches"}
      /\ maker.orders = Cardinality(OfType(Journal(QuoteApprovals, FALSE), {PlacedType(FALSE)}))
      /\ maker.fills = Cardinality(Fills(QuoteApprovals, FALSE))
      /\ maker.cancels = Cardinality(FinallyCanceled(Stops(QuoteApprovals, FALSE)))
      /\ maker.halts = 0 /\ maker.mismatches = 0
  BY DEF MakerMicroPart, Fills, Stops, PlacedType, StopType
<1>4. /\ quote.orders = Cardinality(OfType(Journal(QuoteApprovals, TRUE), {PlacedType(TRUE)}))
      /\ quote.fills = Cardinality(Fills(QuoteApprovals, TRUE))
      /\ quote.cancels = Cardinality(QuoteCanceledOrders(QuoteApprovals))
      /\ quote.halts = Cardinality(Failures(QuoteApprovals)) /\ quote.mismatches = Cardinality(Failures(QuoteApprovals))
  BY DEF QuoteManagerPart, Fills, Stops, PlacedType, StopType, QuoteCanceledOrders, Failures, CountedCancels
<1> HIDE DEF maker, quote
<1> QED
  BY <1>2, <1>3, <1>4

LEMMA FillsCount ==
  ASSUME NEW Q, IInv(Q), RepInv(Q), NEW quote \in BOOLEAN
  PROVE  Cardinality(Fills(Q, quote)) = Cardinality(FilledOrders(Q, quote))
<1>1. \A o \in StoppedOrders(Q, quote) :
         /\ StopLine(Q, o) \in Stops(Q, quote)
         /\ WasFilled(StopLine(Q, o)) <=> o \in Traded
  BY StopLinesAre, FilledIs DEF IInv, RepInv, StoppedOrders
<1>2. \A o \in StoppedOrders(Q, quote) : StopLine(Q, o) \in Fills(Q, quote) <=> o \in FilledOrders(Q, quote)
  BY <1>1 DEF Fills, FilledOrders
<1>3. Fills(Q, quote) \in SUBSET Stops(Q, quote) /\ FilledOrders(Q, quote) \in SUBSET StoppedOrders(Q, quote)
  BY DEF Fills, FilledOrders
<1> QED
  BY <1>2, <1>3, StopCount

LEMMA CancelsCount ==
  ASSUME NEW Q, RepInv(Q), NEW quote \in BOOLEAN
  PROVE  Cardinality(FinallyCanceled(Stops(Q, quote))) = Cardinality(StoppedCanceled(Q, quote))
<1>1. \A o \in StoppedOrders(Q, quote) :
         StopLine(Q, o) \in Stops(Q, quote) /\ StopLine(Q, o).status = orders[o].status
  BY StopLinesAre, LineFields
<1>2. \A o \in StoppedOrders(Q, quote) :
         StopLine(Q, o) \in FinallyCanceled(Stops(Q, quote)) <=> o \in StoppedCanceled(Q, quote)
  BY <1>1 DEF FinallyCanceled, StoppedCanceled
<1>3. /\ FinallyCanceled(Stops(Q, quote)) \in SUBSET Stops(Q, quote)
      /\ StoppedCanceled(Q, quote) \in SUBSET StoppedOrders(Q, quote)
  BY DEF FinallyCanceled, StoppedCanceled
<1> QED
  BY <1>2, <1>3, StopCount

(* A line that a quote session canceled, or stopped with a canceled order, *)
(* is about an order of LA6 that the venue has canceled.                   *)
LEMMA QuoteCancelsAreReal ==
  ASSUME NEW Q, RepInv(Q), NEW o \in QuoteCanceledOrders(Q)
  PROVE  o \in VenueCanceled /\ o[1] \in Q
<1>1. PICK e \in CancelsToldOf(Journal(Q, TRUE)) : o = e.order
  BY DEF QuoteCanceledOrders
<1>2. e \in journal /\ e.run \in Q
  BY DEF CancelsToldOf, FinallyCanceled, OfType, Journal
<1>3. CASE e.type \in CancelTypes
  BY <1>1, <1>2, <1>3 DEF RepInv, LinesInv, VenueCanceled
<1>4. CASE e.type \notin CancelTypes
  <2>1. e.type \in StopTypes /\ e.status = "canceled"
    BY <1>4 DEF CancelsToldOf, FinallyCanceled, OfType, CancelTypes, StopTypes
  <2>2. PICK p \in DOMAIN orders : e = StopLine(Q, p)
    BY <1>2, <2>1 DEF RepInv, LinesInv
  <2> QED
    BY <1>1, <1>2, <2>1, <2>2, LineFields DEF VenueCanceled
<1> QED
  BY <1>3, <1>4

(* Over completed sessions there is a line for every order.                *)
LEMMA CompletedAreTold ==
  ASSUME NEW Q, IInv(Q), RepInv(Q), \A a \in caps : ended[a] = "completed", NEW o \in DOMAIN orders
  PROVE  /\ Over(o) /\ PlacedLine(Q, o) \in journal /\ StopLine(Q, o) \in journal
         /\ o \in PlacedOrders(Q, o[1] \in Q) /\ o \in StoppedOrders(Q, o[1] \in Q)
<1>1. o[1] \in Approvals /\ o[2] \in 1..MaxOrders /\ o[2] <= submits[o[1]]
  BY OrderCounted DEF IInv
<1>2. o[1] \in caps
  <2>1. CountInv
    BY DEF IInv
  <2>2. o[1] \notin caps => submits[o[1]] = 0
    BY <1>1, <2>1 DEF CountInv
  <2>3. 1 <= o[2] /\ o[2] \in Int
    BY <1>1, LimitsAssumption
  <2> QED
    BY <1>1, <2>2, <2>3
<1>3. ended[o[1]] = "completed"
  BY <1>2
<1> QED
  BY <1>3, DoneIsOver DEF RepInv, ToldInv, PlacedOrders, StoppedOrders

LEMMA ReportCounts ==
  ASSUME IInv(QuoteApprovals), RepInv(QuoteApprovals)
  PROVE  /\ Scale.orders <= Cardinality(DOMAIN orders)
         /\ Scale.fills <= Cardinality(Traded) /\ Scale.cancels <= Cardinality(VenueCanceled)
         /\ (\A a \in caps : ended[a] = "completed") =>
              /\ Scale.orders = Cardinality(DOMAIN orders)
              /\ Scale.fills = Cardinality(Traded) /\ Scale.cancels = Cardinality(VenueCanceled)
<1> DEFINE Q == QuoteApprovals
           Completed == \A a \in caps : ended[a] = "completed"
<1>1. /\ IsFiniteSet(DOMAIN orders) /\ IsFiniteSet(Traded) /\ IsFiniteSet(VenueCanceled)
  <2>1. IsFiniteSet(DOMAIN orders) /\ Traded \in SUBSET DOMAIN orders /\ VenueCanceled \in SUBSET DOMAIN orders
    BY DEF RepInv, MatchedInv, Traded, VenueCanceled
  <2> QED
    BY <2>1, FS_Subset
<1>2. /\ Scale.orders <= Cardinality(DOMAIN orders)
      /\ Completed => Scale.orders = Cardinality(DOMAIN orders)
  <2>1. Scale.orders = Cardinality(PlacedOrders(Q, FALSE)) + Cardinality(PlacedOrders(Q, TRUE))
    BY ScaleCounts, PlacedCount
  <2>2. /\ PlacedOrders(Q, FALSE) \subseteq DOMAIN orders /\ PlacedOrders(Q, TRUE) \subseteq DOMAIN orders
        /\ PlacedOrders(Q, FALSE) \cap PlacedOrders(Q, TRUE) = {}
    BY DEF PlacedOrders
  <2>3. Completed => PlacedOrders(Q, FALSE) \cup PlacedOrders(Q, TRUE) = DOMAIN orders
    <3>1. ASSUME Completed, NEW o \in DOMAIN orders
          PROVE  o \in PlacedOrders(Q, FALSE) \cup PlacedOrders(Q, TRUE)
      BY <3>1, CompletedAreTold DEF PlacedOrders
    <3> QED
      BY <2>2, <3>1
  <2> DEFINE A == PlacedOrders(Q, FALSE)
             B == PlacedOrders(Q, TRUE)
  <2>4. /\ Scale.orders = Cardinality(A) + Cardinality(B)
        /\ A \subseteq DOMAIN orders /\ B \subseteq DOMAIN orders /\ A \cap B = {}
        /\ Completed => A \cup B = DOMAIN orders
    BY <2>1, <2>2, <2>3
  <2> HIDE DEF A, B, Completed
  <2> QED
    BY <1>1, <2>4, PartsCount
<1>3. /\ Scale.fills <= Cardinality(Traded)
      /\ Completed => Scale.fills = Cardinality(Traded)
  <2>1. Scale.fills = Cardinality(FilledOrders(Q, FALSE)) + Cardinality(FilledOrders(Q, TRUE))
    BY ScaleCounts, FillsCount
  <2>2. /\ FilledOrders(Q, FALSE) \subseteq Traded /\ FilledOrders(Q, TRUE) \subseteq Traded
        /\ FilledOrders(Q, FALSE) \cap FilledOrders(Q, TRUE) = {}
    BY DEF FilledOrders, StoppedOrders
  <2>3. Completed => FilledOrders(Q, FALSE) \cup FilledOrders(Q, TRUE) = Traded
    <3>1. ASSUME Completed, NEW o \in Traded
          PROVE  o \in FilledOrders(Q, FALSE) \cup FilledOrders(Q, TRUE)
      <4>1. o \in StoppedOrders(Q, o[1] \in Q)
        BY <3>1, CompletedAreTold DEF Traded
      <4> QED
        BY <3>1, <4>1 DEF FilledOrders, StoppedOrders
    <3> QED
      BY <2>2, <3>1
  <2> DEFINE A == FilledOrders(Q, FALSE)
             B == FilledOrders(Q, TRUE)
  <2>4. /\ Scale.fills = Cardinality(A) + Cardinality(B)
        /\ A \subseteq Traded /\ B \subseteq Traded /\ A \cap B = {}
        /\ Completed => A \cup B = Traded
    BY <2>1, <2>2, <2>3
  <2> HIDE DEF A, B, Completed
  <2> QED
    BY <1>1, <2>4, PartsCount
<1>4. /\ Scale.cancels <= Cardinality(VenueCanceled)
      /\ Completed => Scale.cancels = Cardinality(VenueCanceled)
  <2>1. Scale.cancels = Cardinality(StoppedCanceled(Q, FALSE)) + Cardinality(QuoteCanceledOrders(Q))
    BY ScaleCounts, CancelsCount
  <2>2. /\ StoppedCanceled(Q, FALSE) \subseteq VenueCanceled /\ QuoteCanceledOrders(Q) \subseteq VenueCanceled
        /\ StoppedCanceled(Q, FALSE) \cap QuoteCanceledOrders(Q) = {}
    BY QuoteCancelsAreReal DEF StoppedCanceled, StoppedOrders, VenueCanceled
  <2>3. Completed => StoppedCanceled(Q, FALSE) \cup QuoteCanceledOrders(Q) = VenueCanceled
    <3>1. ASSUME Completed, NEW o \in VenueCanceled
          PROVE  o \in StoppedCanceled(Q, FALSE) \cup QuoteCanceledOrders(Q)
      <4>1. o \in StoppedOrders(Q, o[1] \in Q) /\ orders[o].status = "canceled"
        BY <3>1, CompletedAreTold DEF VenueCanceled
      <4>2. CASE o[1] \notin Q
        BY <4>1, <4>2 DEF StoppedCanceled, StoppedOrders
      <4>3. CASE o[1] \in Q
        <5>1. o \in StoppedOrders(Q, TRUE)
          BY <4>1, <4>3 DEF StoppedOrders
        <5>2. StopLine(Q, o) \in Stops(Q, TRUE) /\ StopLine(Q, o).status = "canceled"
          BY <4>1, <4>3, LineFields DEF Stops, OfType, Journal, StoppedOrders, StopType
        <5>3. StopLine(Q, o) \in CancelsToldOf(Journal(Q, TRUE)) /\ StopLine(Q, o).order = o
          BY <5>2, LineFields DEF CancelsToldOf, FinallyCanceled, Stops, StopType
        <5> QED
          BY <5>3 DEF QuoteCanceledOrders
      <4> QED
        BY <4>2, <4>3
    <3> QED
      BY <2>2, <3>1
  <2> DEFINE A == StoppedCanceled(Q, FALSE)
             B == QuoteCanceledOrders(Q)
  <2>4. /\ Scale.cancels = Cardinality(A) + Cardinality(B)
        /\ A \subseteq VenueCanceled /\ B \subseteq VenueCanceled /\ A \cap B = {}
        /\ Completed => A \cup B = VenueCanceled
    BY <2>1, <2>2, <2>3
  <2> HIDE DEF A, B, Completed
  <2> QED
    BY <1>1, <2>4, PartsCount
<1> QED
  BY <1>2, <1>3, <1>4

LEMMA JudgedWhenSafe ==
  ASSUME NEW shadowOnly \in BOOLEAN,
         Decision(0, Scale, {}, shadowOnly)
           \in {"HOLD: taker shadow only", "HOLD: paper/live evidence not comparable"}
  PROVE  ~ Unsafe(Scale) /\ Scale.fills # 0
BY DEF Decision

(* The evidence is judged only over a filled order and no failed line.     *)
LEMMA JudgedOnEvidence ==
  ASSUME IInv(QuoteApprovals), RepInv(QuoteApprovals), ~ Unsafe(Scale), Scale.fills # 0
  PROVE  /\ \E o \in Traded : \A t \in TradesOf(o) : trades[t].status = "Confirmed"
         /\ \A e \in journal : e.type # "QuoteReconciliationResult"
<1> DEFINE Q == QuoteApprovals
<1>1. /\ IsFiniteSet(Failures(Q)) /\ Cardinality(Failures(Q)) \in Nat
  <2>1. Failures(Q) \in SUBSET journal
    BY DEF Failures, OfType, Journal
  <2> QED
    BY <2>1, FS_Subset, FS_CardinalityType DEF RepInv, LinesInv
<1>2. Failures(Q) = {}
  <2>1. Scale.mismatches = 0 + Cardinality(Failures(Q)) /\ ~ (Scale.mismatches > 0)
    BY ScaleCounts DEF Unsafe
  <2> DEFINE failures == Cardinality(Failures(Q))
  <2>2. failures \in Nat /\ ~ (0 + failures > 0)
    BY <1>1, <2>1
  <2> HIDE DEF failures
  <2>3. failures = 0
    BY <2>2
  <2>4. Cardinality(Failures(Q)) = 0
    BY <2>3 DEF failures
  <2> QED
    BY <1>1, <2>4, FS_EmptySet, Zenon
<1>3. \A e \in journal : e.type # "QuoteReconciliationResult"
  <2> SUFFICES ASSUME NEW e \in journal, e.type = "QuoteReconciliationResult"
               PROVE  e \in Failures(Q)
    BY <1>2
  <2>1. e.run \in Q /\ e.status = "failed"
    BY DEF RepInv, LinesInv
  <2> QED
    BY <2>1 DEF Failures, OfType, Journal
<1>4. PICK quote \in BOOLEAN : Fills(Q, quote) # {}
  <2>1. Scale.fills = Cardinality(Fills(Q, FALSE)) + Cardinality(Fills(Q, TRUE))
    BY ScaleCounts
  <2> DEFINE A == Fills(Q, FALSE)
             B == Fills(Q, TRUE)
  <2>2. Scale.fills = Cardinality(A) + Cardinality(B)
    BY <2>1
  <2> HIDE DEF A, B
  <2>3. Cardinality({}) = 0 /\ Scale.fills # 0
    BY FS_EmptySet
  <2>4. ASSUME A = {}, B = {}
        PROVE  FALSE
    <3>1. Cardinality(A) = 0 /\ Cardinality(B) = 0
      BY <2>3, <2>4, Zenon
    <3> QED
      BY <2>2, <2>3, <3>1
  <2> QED
    BY <2>4 DEF A, B
<1>5. PICK e \in Fills(Q, quote) : TRUE
  BY <1>4
<1>6. e \in journal /\ e.type \in StopTypes /\ WasFilled(e)
  BY DEF Fills, Stops, OfType, Journal, StopTypes, StopType
<1>7. PICK o \in DOMAIN orders : Over(o) /\ e = StopLine(Q, o)
  BY <1>6 DEF RepInv, LinesInv
<1>8. o \in Traded
  BY <1>6, <1>7, FilledIs DEF IInv, RepInv
<1> QED
  BY <1>3, <1>7, <1>8 DEF Over

(* Sessions of both kinds are well typed and end as they say, and what the *)
(* LA8 report makes of their journals is true of the venue.                *)
THEOREM LiveOutcomesHold == LiveSpec => []LiveOutcomesAreReal
<1>1. IInv(QuoteApprovals) /\ RepInv(QuoteApprovals) => ReportIsTrue
  <2> SUFFICES ASSUME IInv(QuoteApprovals), RepInv(QuoteApprovals)
               PROVE  ReportIsTrue
    OBVIOUS
  <2> QED
    BY ReportCounts, JudgedWhenSafe, JudgedOnEvidence DEF ReportIsTrue
<1>2. LiveTypeOK /\ LiveEnds /\ ReportIsTrue => LiveOutcomesAreReal
  BY DEF LiveEnds, LiveOutcomesAreReal
<1> QED
  BY <1>1, <1>2, LiveOutcomes, LiveInvariance, ReportInvariance, PTL
====
