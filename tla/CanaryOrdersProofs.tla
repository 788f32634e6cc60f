------------------------- MODULE CanaryOrdersProofs -------------------------
(***************************************************************************)
(* Proofs about the one-shot live commands (CanaryOrders), for any number  *)
(* of runs, faults, trades and reads, any approvals and any quotes.  Every *)
(* step is first shown to be of one of a few kinds (StepIsOfAKind); then   *)
(* each kind is shown to preserve the parts of the invariant.              *)
(***************************************************************************)
EXTENDS CanaryOrders, FiniteSetTheorems, TLAPS

-----------------------------------------------------------------------------
(* What the venue does by itself (LiveVenue) takes nothing back.           *)

(* A trade belongs to an order at the venue, which has matched as much.    *)
TradesHaveOrders ==
  \A t \in DOMAIN trades :
    /\ trades[t].order = t[1]
    /\ t[1] \in DOMAIN orders
    /\ t[2] <= orders[t[1]].matched
VenueInv ==
  /\ VenueTypeOK
  /\ TradesHaveOrders
  /\ IsFiniteSet(DOMAIN trades)
  /\ late \subseteq DOMAIN orders /\ IsFiniteSet(late)
  /\ inflight \cap DOMAIN orders = {}

(* Closed orders stay as they are, confirmed trades stay confirmed, only   *)
(* open orders trade, and an order that arrives now is late.               *)
VenueGrows ==
  /\ \A o \in DOMAIN orders :
       /\ o \in DOMAIN orders' /\ orders[o].matched <= orders'[o].matched
       /\ orders[o].status # "live" => orders'[o] = orders[o]
  /\ \A t \in DOMAIN trades :
       /\ t \in DOMAIN trades'
       /\ trades'[t].order = trades[t].order
       /\ trades[t].status = "Confirmed" => trades'[t].status = "Confirmed"
  /\ \A t \in DOMAIN trades' \ DOMAIN trades :
       t[1] \in DOMAIN orders /\ orders[t[1]].status = "live"
  /\ late \subseteq late' /\ inflight' \subseteq inflight /\ late' \subseteq inflight \cup late
  /\ DOMAIN orders' \subseteq DOMAIN orders \cup inflight
  /\ DOMAIN orders' \ late' \subseteq DOMAIN orders \ late

LEMMA MatchedTyped ==
  ASSUME VenueInv, NEW o \in DOMAIN orders
  PROVE  orders[o].matched \in Int /\ orders[o].matched <= orders[o].matched
BY OrderSizeAssumption DEF VenueInv, VenueTypeOK, OrderRecord

LEMMA ArrivalGrows ==
  ASSUME VenueInv, NEW i \in inflight, Arrive(i) \/ Vanish(i)
  PROVE  VenueGrows /\ VenueInv'
<1>1. i \in Intents /\ i \notin DOMAIN orders /\ Fresh \in OrderRecord
  BY OrderSizeAssumption DEF VenueInv, VenueTypeOK, Fresh, OrderRecord
<1>2. CASE Arrive(i)
  <2>1. /\ DOMAIN orders' = DOMAIN orders \cup {i}
        /\ \A o \in DOMAIN orders : orders'[o] = orders[o]
        /\ orders'[i] = Fresh
        /\ trades' = trades /\ inflight' = inflight \ {i} /\ late' = late \cup {i}
    BY <1>1, <1>2 DEF Arrive, With
  <2>2. VenueGrows
    BY <2>1, MatchedTyped DEF VenueGrows
  <2>3. IsFiniteSet(late')
    BY <2>1, FS_AddElement DEF VenueInv
  <2>4. VenueTypeOK'
    BY <1>1, <2>1 DEF VenueInv, VenueTypeOK
  <2>5. TradesHaveOrders'
    BY <2>1 DEF VenueInv, TradesHaveOrders
  <2> QED
    BY <2>1, <2>2, <2>3, <2>4, <2>5 DEF VenueInv
<1>3. CASE Vanish(i)
  BY <1>3, MatchedTyped DEF Vanish, VenueGrows, VenueInv, VenueTypeOK, TradesHaveOrders
<1> QED
  BY <1>2, <1>3

LEMMA CloseGrows ==
  ASSUME VenueInv, NEW o \in OpenOrders, Close(o)
  PROVE  VenueGrows /\ VenueInv'
<1>1. o \in DOMAIN orders /\ orders[o].status = "live" /\ orders[o] \in OrderRecord
  BY DEF OpenOrders, VenueInv, VenueTypeOK
<1>2. orders' = [orders EXCEPT ![o] = [orders[o] EXCEPT !.status = "canceled"]]
  BY DEF Close
<1>3. /\ DOMAIN orders' = DOMAIN orders
      /\ \A p \in DOMAIN orders : p # o => orders'[p] = orders[p]
      /\ orders'[o] = [orders[o] EXCEPT !.status = "canceled"]
      /\ UNCHANGED <<trades, inflight, late>>
  BY <1>1, <1>2 DEF Close
<1>4. orders'[o] \in OrderRecord /\ orders'[o].matched = orders[o].matched
  BY <1>1, <1>3 DEF OrderRecord
<1>5. VenueGrows
  BY <1>1, <1>3, <1>4, MatchedTyped DEF VenueGrows
<1>6. VenueTypeOK'
  BY <1>1, <1>3, <1>4 DEF VenueInv, VenueTypeOK
<1>7. TradesHaveOrders'
  BY <1>3, <1>4 DEF VenueInv, TradesHaveOrders
<1> QED
  BY <1>3, <1>5, <1>6, <1>7 DEF VenueInv

LEMMA FillGrows ==
  ASSUME VenueInv, NEW o \in OpenOrders, NEW size \in 1..OrderSize, Fill(o, size)
  PROVE  VenueGrows /\ VenueInv'
<1> DEFINE matched == orders[o].matched + size
           t == <<o, matched>>
<1>1. /\ o \in DOMAIN orders /\ orders[o].status = "live" /\ o \in Intents
      /\ orders[o].matched \in 0..OrderSize
  BY DEF OpenOrders, VenueInv, VenueTypeOK, OrderRecord
<1>2. matched \in 1..OrderSize /\ orders[o].matched < matched
  BY <1>1, OrderSizeAssumption DEF Fill
<1>3. t \in Trades /\ t \notin DOMAIN trades
  <2>1. t \in Trades /\ t[1] = o /\ t[2] = matched
    BY <1>1, <1>2 DEF Trades
  <2>2. t \in DOMAIN trades => matched <= orders[o].matched
    BY <2>1 DEF VenueInv, TradesHaveOrders
  <2> QED
    BY <1>1, <1>2, <2>1, <2>2, OrderSizeAssumption
<1>4. /\ DOMAIN orders' = DOMAIN orders
      /\ \A p \in DOMAIN orders : p # o => orders'[p] = orders[p]
      /\ orders'[o] \in OrderRecord /\ orders'[o].matched = matched
      /\ UNCHANGED <<inflight, late>>
  BY <1>1, <1>2 DEF Fill, OrderRecord
<1>5. /\ DOMAIN trades' = DOMAIN trades \cup {t}
      /\ \A u \in DOMAIN trades : trades'[u] = trades[u]
      /\ trades'[t] = [order |-> o, status |-> "Matched"]
  BY <1>3 DEF Fill, With
<1>6. trades'[t] \in TradeRecord /\ trades'[t].order = o /\ t[1] = o /\ t[2] = matched
  BY <1>1, <1>5 DEF TradeRecord
<1> HIDE DEF matched, t
<1>7. VenueGrows
  <2>1. \A p \in DOMAIN orders : orders[p].matched <= orders'[p].matched
    BY <1>1, <1>2, <1>4, MatchedTyped, OrderSizeAssumption
  <2> QED
    BY <1>1, <1>4, <1>5, <1>6, <2>1 DEF VenueGrows
<1>8. VenueTypeOK'
  BY <1>1, <1>3, <1>4, <1>5, <1>6 DEF VenueInv, VenueTypeOK
<1>9. TradesHaveOrders'
  <2> SUFFICES ASSUME NEW u \in DOMAIN trades'
               PROVE  trades'[u].order = u[1] /\ u[1] \in DOMAIN orders' /\ u[2] <= orders'[u[1]].matched
    BY DEF TradesHaveOrders
  <2>1. CASE u = t
    BY <1>1, <1>2, <1>4, <1>6, <2>1, OrderSizeAssumption
  <2>2. CASE u # t
    <3>1. u \in DOMAIN trades /\ u \in Trades /\ trades'[u] = trades[u]
      BY <1>5, <2>2 DEF VenueInv, VenueTypeOK
    <3>2. trades[u].order = u[1] /\ u[1] \in DOMAIN orders /\ u[2] <= orders[u[1]].matched
      BY <3>1 DEF VenueInv, TradesHaveOrders
    <3>3. u[2] \in Int
      BY <3>1, OrderSizeAssumption DEF Trades
    <3>4. CASE u[1] = o
      BY <1>1, <1>2, <1>4, <3>1, <3>2, <3>3, <3>4, OrderSizeAssumption
    <3>5. CASE u[1] # o
      BY <1>4, <3>1, <3>2, <3>5
    <3> QED
      BY <3>4, <3>5
  <2> QED
    BY <2>1, <2>2
<1>10. IsFiniteSet(DOMAIN trades')
  BY <1>5, FS_AddElement DEF VenueInv
<1> QED
  BY <1>4, <1>7, <1>8, <1>9, <1>10 DEF VenueInv

LEMMA SettleGrows ==
  ASSUME VenueInv, NEW t \in DOMAIN trades, NEW status \in {"Confirmed", "Failed"}, Settle(t, status)
  PROVE  VenueGrows /\ VenueInv'
<1>1. trades[t] \in TradeRecord /\ trades[t].status = "Matched"
  BY DEF Settle, VenueInv, VenueTypeOK
<1>2. trades' = [trades EXCEPT ![t] = [trades[t] EXCEPT !.status = status]]
  BY DEF Settle
<1>3. /\ DOMAIN trades' = DOMAIN trades
      /\ \A u \in DOMAIN trades : u # t => trades'[u] = trades[u]
      /\ trades'[t] = [trades[t] EXCEPT !.status = status]
      /\ UNCHANGED <<orders, inflight, late>>
  BY <1>2 DEF Settle
<1>4. trades'[t] \in TradeRecord /\ trades'[t].order = trades[t].order
  BY <1>1, <1>3 DEF TradeRecord
<1>5. VenueGrows
  BY <1>1, <1>3, <1>4, MatchedTyped DEF VenueGrows
<1>6. VenueTypeOK'
  BY <1>3, <1>4 DEF VenueInv, VenueTypeOK
<1>7. TradesHaveOrders'
  BY <1>3, <1>4 DEF VenueInv, TradesHaveOrders
<1> QED
  BY <1>3, <1>5, <1>6, <1>7 DEF VenueInv

(* The venue only adds to what it has.                                     *)
LEMMA VenueStepGrows == VenueInv /\ VenueStep => VenueGrows /\ VenueInv'
BY ArrivalGrows, CloseGrows, FillGrows, SettleGrows DEF VenueStep

LEMMA ClosedOrders ==
  ASSUME VenueInv, VenueInv', VenueGrows, NEW o \in DOMAIN orders, orders[o].status # "live"
  PROVE  /\ orders'[o] = orders[o] /\ TradesOf(o)' = TradesOf(o)
         /\ \A t \in TradesOf(o) : trades[t].status = "Confirmed" => trades'[t].status = "Confirmed"
<1>1. orders'[o] = orders[o]
  BY DEF VenueGrows
<1>2. ASSUME NEW t \in TradesOf(o)'
      PROVE  t \in TradesOf(o)
  <2>1. t \in DOMAIN trades' /\ trades'[t].order = o /\ t[1] = o
    BY <1>2 DEF TradesOf, VenueInv, TradesHaveOrders
  <2>2. t \in DOMAIN trades
    BY <2>1 DEF VenueGrows
  <2> QED
    BY <2>1, <2>2 DEF VenueGrows, TradesOf
<1>3. TradesOf(o) \subseteq TradesOf(o)'
  BY DEF TradesOf, VenueGrows
<1> QED
  BY <1>1, <1>2, <1>3 DEF TradesOf, VenueGrows

-----------------------------------------------------------------------------
(* The parts of the inductive invariant.                                   *)

Fields == {"kind", "target", "verdict", "answer", "at", "tries", "limit", "why", "open",
           "listed", "capError"}

(* The steps of each command, and those that come after its order is sent. *)
CancelSteps == {"look", "delete", "look_again"}
StepsOf(kind) ==
  IF kind = "fill" THEN {"orders", "trades", "approved", "reserve", "attempt", "submit", "failed",
                         "update", "succeeded", "orders_after", "trades_after"}
  ELSE IF kind = "canary" THEN {"orders", "trades", "reserve", "submit", "update"}
  ELSE IF kind = "taker" THEN {"orders", "trades", "reserve", "submit", "update", "orders_after",
                               "trades_after", "report"}
  ELSE IF kind = "cancel" THEN CancelSteps
  ELSE {}
Afterwards == {"failed", "update", "succeeded", "orders_after", "trades_after", "report"}

(* A run stands at a step of its command, and has sent its order when it   *)
(* is past that.                                                           *)
RunTyped(r) ==
  /\ DOMAIN run[r] = Fields
  /\ run[r].verdict \in Verdicts /\ run[r].tries \in 0..MaxReads
  /\ run[r].at \notin {"report", "end"} => run[r].verdict = "none"
  /\ run[r].at # "end" => run[r].verdict \notin {"canceled", "filled_and_reconciled"}
  /\ run[r].at = "end" \/ run[r].at \in StepsOf(run[r].kind)
  /\ run[r].at \in Afterwards => r \in sent
  /\ r \in sent => run[r].kind \in Orders /\ run[r].at \in Afterwards \cup {"end"}
  /\ run[r].kind \in Orders => r \in 1..MaxOrders
(* One run of a kind at most may send its order, and has the cap file.     *)
Granted == sent \cup {r \in DOMAIN run : run[r].at \in {"attempt", "submit"}}
CapInv ==
  /\ DOMAIN caps = Orders
  /\ \A kind \in Orders :
       /\ caps[kind].state \in {"none", "torn", "reserved", "recorded"}
       /\ caps[kind].state = "recorded" =>
            caps[kind].order \in sent /\ run[caps[kind].order].kind = kind
  /\ \A r \in Granted : caps[run[r].kind].state # "none"
  /\ \A r, s \in Granted : run[r].kind = run[s].kind => r = s

(* Only orders that were sent are at the venue or on their way; those      *)
(* whose answer was lost are of runs that met a fault.                     *)
AccountInv ==
  /\ VenueInv
  /\ DOMAIN orders \cup inflight \subseteq sent
  /\ inflight \cup late \subseteq DOMAIN faults
  /\ DOMAIN faults \subseteq DOMAIN run
  /\ hidden \subseteq DOMAIN trades
  /\ baseline = NoBaseline \/ baseline \subseteq DOMAIN trades

(* The cancel looks at an order of the venue, and goes on only with the    *)
(* canary's.                                                               *)
CancelSound(r) ==
  /\ run[r].at \in CancelSteps => run[r].target \in DOMAIN orders
  /\ run[r].at \in {"delete", "look_again"} => run[run[r].target].kind = "canary"
  /\ run[r].verdict = "canceled" =>
       /\ run[r].target \in DOMAIN orders
       /\ orders[run[r].target].status = "canceled"

(* An order the venue declined, or never got: it is nowhere.               *)
Declined(r) == r \in sent /\ r \notin DOMAIN orders \cup inflight

(* What a run was answered, and read of the open orders, is true.          *)
Matched(r) ==
  /\ r \in DOMAIN orders /\ orders[r].status # "live" /\ orders[r].matched > 0
  /\ \A t, u \in TradesOf(r) : t = u
AnswerSound(r) ==
  /\ run[r].at \in {"update", "succeeded", "orders_after", "trades_after"} =>
       r \in DOMAIN orders \/ Declined(r)
  /\ run[r].answer = "matched" => Matched(r)
  /\ run[r].listed \subseteq TradesOf(r)
  /\ run[r].listed # {} => run[r].answer = "matched"
  /\ run[r].at = "trades_after" /\ r \in DOMAIN orders /\ r \notin DOMAIN run[r].open =>
       orders[r].status # "live"

(* A verdict of its own order is true.                                     *)
Reconciled(r) ==
  \/ Declined(r) /\ run[r].answer # "matched"
  \/ /\ r \in DOMAIN orders /\ orders[r].status # "live"
     /\ run[r].answer = "matched" => \A t \in TradesOf(r) : trades[t].status = "Confirmed"
VerdictSound(r) ==
  /\ run[r].verdict = "filled_and_reconciled" => r \in DOMAIN orders /\ orders[r].matched > 0
  /\ run[r].verdict = "submitted_reconciled" => Reconciled(r)

(* A taker order goes out at a limit the approval allows.                  *)
LimitApproved(limit) ==
  /\ limit \in Nat
  /\ TakerApproval.size * limit <= TakerApproval.notional
  /\ limit <= TakerApproval.worst
LimitSound(r) ==
  run[r].kind = "taker" /\ (r \in sent \/ run[r].at \in {"reserve", "submit"})
    => LimitApproved(run[r].limit)

(* All that is known of one run.                                           *)
RunSound(r) ==
  RunTyped(r) /\ CancelSound(r) /\ AnswerSound(r) /\ VerdictSound(r) /\ LimitSound(r)
RunInv ==
  /\ \E k \in Nat : DOMAIN run = 1..k
  /\ DOMAIN run \subseteq Runs /\ sent \subseteq DOMAIN run
  /\ \A r \in DOMAIN run : RunSound(r)

ReportInv == EverySubmitIsReported /\ DOMAIN reports \subseteq DOMAIN run

IInv == RunInv /\ CapInv /\ AccountInv /\ AcceptedOrdersAreRecorded /\ ReportInv

(* What no step takes back of the venue: a closed order stays as it is,    *)
(* and a declined one nowhere.                                             *)
OrdersGrow ==
  /\ \A o \in DOMAIN orders :
       /\ o \in DOMAIN orders'
       /\ orders[o].matched > 0 => orders'[o].matched > 0
       /\ orders[o].status # "live" =>
            /\ orders'[o] = orders[o] /\ TradesOf(o)' = TradesOf(o)
            /\ \A t \in TradesOf(o) : trades[t].status = "Confirmed" => trades'[t].status = "Confirmed"
  /\ \A o : TradesOf(o) \subseteq TradesOf(o)'
  /\ \A o : Declined(o) => Declined(o)'

-----------------------------------------------------------------------------
(* The kinds of steps.                                                     *)

(* Only run r changes, and keeps all but the fields `changed`.             *)
Changes(r, changed) ==
  /\ DOMAIN run' = DOMAIN run
  /\ \A s \in DOMAIN run : s # r => run'[s] = run[s]
  /\ DOMAIN run'[r] = Fields
  /\ \A f \in Fields \ changed : run'[r][f] = run[r][f]

(* The ways through the commands; a round of polling goes back once.       *)
Forward ==
  {<<"orders", "trades">>, <<"trades", "approved">>, <<"trades", "reserve">>,
   <<"approved", "reserve">>, <<"reserve", "attempt">>, <<"reserve", "submit">>,
   <<"attempt", "submit">>, <<"submit", "failed">>, <<"submit", "update">>,
   <<"submit", "report">>, <<"update", "succeeded">>, <<"update", "orders_after">>,
   <<"succeeded", "orders_after">>, <<"orders_after", "trades_after">>,
   <<"orders_after", "report">>, <<"trades_after", "report">>,
   <<"look", "delete">>, <<"delete", "look_again">>}
GoesForward(r) ==
  \/ <<run[r].at, run'[r].at>> \in Forward /\ run[r].tries <= run'[r].tries
  \/ /\ run[r].at = "trades_after" /\ run'[r].at = "orders_after"
     /\ run'[r].tries = run[r].tries + 1

(* The command goes on.                                                    *)
Continues(r) ==
  LET from == run[r].at
      to == run'[r].at
  IN
  /\ r \in Active
  /\ Changes(r, {"at", "open", "limit", "verdict", "tries", "why"})
  /\ GoesForward(r)
  /\ to \in StepsOf(run[r].kind)
  /\ to \in Afterwards <=> from \in Afterwards
  /\ to \notin {"look", "update", "failed"}
  /\ from # "update"
  /\ to \in {"attempt", "submit"} => from = "attempt"
  /\ to \in {"succeeded", "orders_after", "trades_after"} =>
       from \in {"succeeded", "orders_after", "trades_after"}
  /\ to = "trades_after" => run'[r].open = OpenNow /\ UNCHANGED venueVars
  /\ to \in {"delete", "look_again"} =>
       from = "delete" \/ (from = "look" /\ Names(caps["canary"], run[r].target))
  /\ run'[r].tries \in 0..MaxReads
  /\ to # "report" => run'[r].verdict = run[r].verdict
  /\ \/ run'[r].verdict = run[r].verdict
     \/ /\ run'[r].verdict \in Verdicts \ {"canceled", "filled_and_reconciled"}
        /\ run'[r].verdict = "submitted_reconciled" => Reconciled(r)
  /\ run'[r].limit = run[r].limit \/ from = "trades"
  /\ run[r].kind = "taker" /\ to = "reserve" => LimitApproved(run'[r].limit)
  /\ UNCHANGED venueVars \/ (from = "delete" /\ Close(run[r].target))
  /\ UNCHANGED <<hidden, caps, baseline, sent, reports, faults>>

(* The command ends.                                                       *)
Leaves(r, verdict) ==
  /\ Changes(r, Fields \ {"answer"})
  /\ run'[r].at = "end" /\ run'[r].verdict = verdict
  /\ run'[r].listed = {} /\ run'[r].tries = 0
  /\ r \in sent => run'[r].kind = run[r].kind /\ run'[r].limit = run[r].limit
  /\ run'[r].kind \in {run[r].kind, "none"}
  /\ verdict = "canceled" => run'[r].target = run[r].target
Ends(r) ==
  LET from == run[r].at
      verdict == run'[r].verdict
  IN
  /\ r \in Active
  /\ Leaves(r, verdict) /\ verdict \in Verdicts
  /\ verdict = "canceled" =>
       from = "look_again" /\ orders[run[r].target].status = "canceled"
  /\ verdict = "filled_and_reconciled" =>
       \/ run[r].verdict = verdict
       \/ r \in DOMAIN orders /\ orders[r].matched > 0
  /\ verdict = "submitted_reconciled" => run[r].verdict = verdict
  /\ UNCHANGED venueVars \/ (from = "delete" /\ Close(run[r].target))
  /\ faults' = faults \/ Fails(r, "call") \/ Fails(r, "cut")
  /\ \/ caps' = caps
     \/ /\ from = "reserve" /\ caps[run[r].kind].state = "none"
        /\ caps' = [caps EXCEPT ![run[r].kind] = [state |-> "torn", order |-> 0]]
     \/ from = "update" /\ caps' = [caps EXCEPT ![run[r].kind] = Recorded(r)]
     \/ from = "update" /\ caps' = [caps EXCEPT ![run[r].kind] = [state |-> "torn", order |-> 0]]
  /\ from = "update" => caps' = [caps EXCEPT ![run[r].kind] = Recorded(r)] \/ r \in DOMAIN faults'
  /\ reports' = reports \/ reports' = With(reports, r, run[r].verdict)
  /\ r \in sent /\ run[r].kind = "taker" =>
       r \in DOMAIN reports' \/ (r \in DOMAIN faults' /\ faults'[r] = "cut")
  /\ UNCHANGED <<hidden, baseline, sent>>

(* The cap file is made; the order's id is written to it, or is not.       *)
Reserves(r) ==
  /\ r \in Active /\ run[r].at = "reserve"
  /\ Changes(r, {"at"})
  /\ run'[r].at = IF run[r].kind = "fill" THEN "attempt" ELSE "submit"
  /\ MayReserve(run[r].kind)
  /\ caps' = [caps EXCEPT ![run[r].kind] = [state |-> "reserved", order |-> 0]]
  /\ UNCHANGED <<venueVars, hidden, baseline, sent, reports, faults>>
Records(r) ==
  /\ r \in Active /\ run[r].at = "update" /\ run[r].kind \in {"fill", "taker"}
  /\ Changes(r, {"at", "capError"})
  /\ run'[r].at = IF run[r].kind = "fill" THEN "succeeded" ELSE "orders_after"
  /\ \/ caps' = [caps EXCEPT ![run[r].kind] = Recorded(r)] /\ faults' = faults
     \/ /\ caps' \in {caps, [caps EXCEPT ![run[r].kind] = [state |-> "torn", order |-> 0]]}
        /\ Fails(r, "call")
  /\ UNCHANGED <<venueVars, hidden, baseline, sent, reports>>

(* The order is sent: it trades at once, rests, or is refused or lost.     *)
Matches(r, size) ==
  /\ orders' = With(orders, r, [status |-> IF size = OrderSize THEN "matched" ELSE "canceled",
                                matched |-> size])
  /\ trades' = With(trades, <<r, size>>, [order |-> r, status |-> "Matched"])
  /\ hidden' \subseteq hidden \cup {<<r, size>>}
  /\ run'[r].answer = "matched" /\ run'[r].listed \subseteq {<<r, size>>}
  /\ UNCHANGED <<inflight, late>>
Places(r) ==
  /\ r \in Active /\ run[r].at = "submit"
  /\ Changes(r, Fields \ {"kind", "limit"})
  /\ sent' = sent \cup {r}
  /\ run'[r].verdict \in Verdicts \ {"canceled", "filled_and_reconciled", "submitted_reconciled"}
  /\ run'[r].tries \in 0..MaxReads
  /\ run'[r].at = "end" \/ run'[r].tries = run[r].tries
  /\ run'[r].at \notin {"report", "end"} => run'[r].verdict = "none"
  /\ \/ /\ run'[r].at = "update" /\ faults' = faults
        /\ \/ \E size \in 1..OrderSize : Matches(r, size)
           \/ /\ Accept(r) \/ UNCHANGED venueVars
              /\ hidden' = hidden
              /\ run'[r].answer # "matched" /\ run'[r].listed = {}
     \/ /\ run'[r].at \in {"failed", "report", "end"} \cap (StepsOf(run[r].kind) \cup {"end"})
        /\ run'[r].at = "end" => run[r].kind = "canary"
        /\ run'[r].answer = run[r].answer /\ run'[r].listed \subseteq run[r].listed
        /\ (faults' = faults /\ UNCHANGED venueVars) \/ (LoseSubmit(r) /\ Fails(r, "call"))
        /\ hidden' = hidden
  /\ UNCHANGED <<caps, baseline, reports>>

(* A command starts.                                                       *)
Starts(r, kind) ==
  /\ r \in Runs \ DOMAIN run
  /\ kind # "cancel" => r \in 1..MaxOrders
  /\ DOMAIN run' = DOMAIN run \cup {r}
  /\ \E k \in Nat : DOMAIN run' = 1..k
  /\ \A s \in DOMAIN run : run'[s] = run[s]
  /\ DOMAIN run'[r] = Fields
  /\ run'[r].kind = kind /\ run'[r].verdict = "none" /\ run'[r].answer = "none"
  /\ run'[r].listed = {} /\ run'[r].tries = 0 /\ run'[r].limit = 0
  /\ run'[r].at = IF kind = "cancel" THEN "look" ELSE "orders"
  /\ kind = "cancel" => run'[r].target \in OpenOrders
  /\ UNCHANGED <<venueVars, hidden, files, sent, faults>>

(* What happens at the venue, and in its lists.                            *)
World ==
  /\ VenueStep \/ UNCHANGED venueVars
  /\ hidden' \subseteq hidden
  /\ baseline' = baseline \/ baseline' \subseteq DOMAIN trades
  /\ UNCHANGED <<caps, run, sent, reports, faults>>

Kinds ==
  \/ \E r \in DOMAIN run : Continues(r) \/ Ends(r) \/ Reserves(r) \/ Records(r) \/ Places(r)
  \/ \E r \in Runs \ DOMAIN run, kind \in Orders \cup {"cancel"} : Starts(r, kind)
  \/ World

-----------------------------------------------------------------------------
(* What changing a run's record does.                                      *)

LEMMA UpdatedFields ==
  ASSUME NEW record, NEW fields
  PROVE  /\ DOMAIN Updated(record, fields) = DOMAIN record \cup DOMAIN fields
         /\ \A f \in DOMAIN fields : Updated(record, fields)[f] = fields[f]
         /\ \A f \in DOMAIN record \ DOMAIN fields : Updated(record, fields)[f] = record[f]
BY DEF Updated

(* A step of a run changes the fields it names, and no others.             *)
LEMMA GoChanges ==
  ASSUME NEW r \in DOMAIN run, DOMAIN run[r] = Fields,
         NEW fields, DOMAIN fields \subseteq Fields, Go(r, fields)
  PROVE  /\ Changes(r, DOMAIN fields)
         /\ \A f \in DOMAIN fields : run'[r][f] = fields[f]
<1>1. /\ DOMAIN run' = DOMAIN run
      /\ \A s \in DOMAIN run : s # r => run'[s] = run[s]
      /\ run'[r] = Updated(run[r], fields)
  BY DEF Go
<1>2. /\ DOMAIN Updated(run[r], fields) = DOMAIN run[r] \cup DOMAIN fields
      /\ \A f \in DOMAIN fields : Updated(run[r], fields)[f] = fields[f]
      /\ \A f \in DOMAIN run[r] \ DOMAIN fields : Updated(run[r], fields)[f] = run[r][f]
  BY UpdatedFields
<1>3. DOMAIN run'[r] = Fields
  BY <1>1, <1>2
<1> QED
  BY <1>1, <1>2, <1>3 DEF Changes

LEMMA ChangesMore ==
  ASSUME NEW r, NEW less, NEW more, less \subseteq more, Changes(r, less)
  PROVE  Changes(r, more)
BY DEF Changes

(* What the record of a run keeps when the run is over.                    *)
LEMMA OverChanges ==
  ASSUME NEW r \in DOMAIN run, DOMAIN run[r] = Fields, NEW verdict, NEW keeps, Over(r, verdict, keeps)
  PROVE  /\ Changes(r, Fields \ {"answer"})
         /\ run'[r].at = "end" /\ run'[r].verdict = verdict
         /\ run'[r].listed = {} /\ run'[r].tries = 0
         /\ run'[r].kind = IF keeps THEN run[r].kind ELSE "none"
         /\ run'[r].limit = IF keeps THEN run[r].limit ELSE 0
         /\ verdict = "canceled" => run'[r].target = run[r].target
<1> DEFINE last == [at |-> "end", verdict |-> verdict,
        kind |-> IF keeps THEN run[r].kind ELSE "none",
        limit |-> IF keeps THEN run[r].limit ELSE 0,
        target |-> IF verdict = "canceled" THEN run[r].target ELSE 0,
        why |-> {}, tries |-> 0]
<1>1. DOMAIN Blank = {"open", "listed", "capError"} /\ Blank["listed"] = {}
  BY DEF Blank
<1>2. /\ DOMAIN last = {"at", "verdict", "kind", "limit", "target", "why", "tries"}
      /\ last["at"] = "end" /\ last["verdict"] = verdict /\ last["tries"] = 0
      /\ last["kind"] = IF keeps THEN run[r].kind ELSE "none"
      /\ last["limit"] = IF keeps THEN run[r].limit ELSE 0
      /\ verdict = "canceled" => last["target"] = run[r].target
  OBVIOUS
<1>3. Go(r, Updated(Blank, last))
  BY DEF Over
<1> HIDE DEF last
<1>4. /\ DOMAIN Updated(Blank, last) = Fields \ {"answer"}
      /\ \A f \in DOMAIN last : Updated(Blank, last)[f] = last[f]
      /\ Updated(Blank, last)["listed"] = {}
  <2>1. /\ DOMAIN Updated(Blank, last) = DOMAIN Blank \cup DOMAIN last
        /\ \A f \in DOMAIN last : Updated(Blank, last)[f] = last[f]
        /\ \A f \in DOMAIN Blank \ DOMAIN last : Updated(Blank, last)[f] = Blank[f]
    BY UpdatedFields
  <2>2. "listed" \in DOMAIN Blank \ DOMAIN last
    BY <1>1, <1>2
  <2>3. Updated(Blank, last)["listed"] = {}
    BY <1>1, <2>1, <2>2
  <2>4. DOMAIN Updated(Blank, last) = Fields \ {"answer"}
    BY <1>1, <1>2, <2>1 DEF Fields
  <2> QED
    BY <2>1, <2>3, <2>4
<1>5. /\ Changes(r, Fields \ {"answer"})
      /\ \A f \in DOMAIN last : run'[r][f] = last[f]
      /\ run'[r]["listed"] = {}
  BY <1>1, <1>2, <1>3, <1>4, GoChanges DEF Fields
<1> QED
  BY <1>2, <1>5

LEMMA EndLeaves ==
  ASSUME NEW r \in DOMAIN run, DOMAIN run[r] = Fields, NEW verdict, End(r, verdict)
  PROVE  Leaves(r, verdict)
<1>1. Over(r, verdict, r \in sent \/ verdict = "canceled")
  BY DEF End
<1> QED
  BY <1>1, OverChanges DEF Leaves

-----------------------------------------------------------------------------
(* Every step is of one of the kinds.                                      *)

(* An end that leaves the files and the venue as they were.                *)
LEMMA StopEnds ==
  ASSUME IInv, NEW r \in Active, End(r, "stopped"),
         r \in sent => run[r].kind # "taker" \/ (r \in DOMAIN faults' /\ faults'[r] = "cut"),
         run[r].at = "update" => r \in DOMAIN faults',
         faults' = faults \/ Fails(r, "call") \/ Fails(r, "cut"),
         UNCHANGED <<venueVars, hidden, caps, baseline, reports, sent>>
  PROVE  Ends(r)
<1>1. Leaves(r, "stopped")
  BY EndLeaves DEF IInv, RunInv, RunSound, RunTyped, Active
<1>2. run'[r].verdict = "stopped"
  BY <1>1 DEF Leaves
<1> QED
  BY <1>1, <1>2 DEF Ends, Verdicts

LEMMA FailsFaults ==
  ASSUME NEW r, NEW fault, Fails(r, fault)
  PROVE  r \in DOMAIN faults' /\ faults'[r] = fault
BY DEF Fails, With

(* A journal that cannot be written ends the LA3 command.                  *)
LEMMA LogFails ==
  ASSUME IInv, NEW r \in Active, run[r].kind = "fill", run[r].at # "update",
         Fails(r, "call"), End(r, "stopped"), UNCHANGED Journaling
  PROVE  Ends(r)
BY StopEnds, FailsFaults DEF Journaling

LEMMA LogKinds ==
  ASSUME IInv, NEW r \in Active, LogApproved(r) \/ LogAttempt(r) \/ LogFailed(r) \/ LogSucceeded(r)
  PROVE  Continues(r) \/ Ends(r)
<1>1. RunTyped(r) /\ r \in DOMAIN run
  BY DEF IInv, RunInv, RunSound, Active
<1>2. run[r].kind = "fill" /\ run[r].at \in {"approved", "attempt", "failed", "succeeded"}
  BY <1>1 DEF LogApproved, LogAttempt, LogFailed, LogSucceeded, At, RunTyped, StepsOf, CancelSteps
<1>3. UNCHANGED Journaling
  BY DEF LogApproved, LogAttempt, LogFailed, LogSucceeded
<1>4. ASSUME Fails(r, "call"), End(r, "stopped")
      PROVE  Ends(r)
  BY <1>2, <1>3, <1>4, LogFails
<1>5. ASSUME NEW to, Go(r, [at |-> to]), UNCHANGED faults,
             <<run[r].at, to>> \in {<<"approved", "reserve">>, <<"attempt", "submit">>, <<"succeeded", "orders_after">>}
      PROVE  Continues(r)
  <2> DEFINE fields == [at |-> to]
  <2>1. DOMAIN fields = {"at"} /\ fields["at"] = to
    OBVIOUS
  <2> HIDE DEF fields
  <2>2. Changes(r, {"at"}) /\ run'[r].at = to
    BY <1>1, <1>5, <2>1, GoChanges DEF RunTyped, Fields, fields
  <2>3. run'[r].verdict = run[r].verdict /\ run'[r].tries = run[r].tries /\ run'[r].limit = run[r].limit
    BY <2>2 DEF Changes, Fields
  <2>4. Changes(r, {"at", "open", "limit", "verdict", "tries", "why"})
    BY <2>2, ChangesMore
  <2> QED
    BY <1>1, <1>2, <1>3, <1>5, <2>2, <2>3, <2>4 DEF Continues, GoesForward, Forward, RunTyped, StepsOf, Afterwards, Journaling
<1>6. ASSUME LogFailed(r), End(r, "stopped"), UNCHANGED faults
      PROVE  Ends(r)
  BY <1>1, <1>2, <1>3, <1>6, StopEnds DEF Journaling, LogFailed, At
<1> QED
  BY <1>4, <1>5, <1>6 DEF LogApproved, LogAttempt, LogFailed, LogSucceeded, Log, At

LEMMA ReadOrdersContinues ==
  ASSUME IInv, NEW r \in Active, ReadOrders(r)
  PROVE  Continues(r)
<1> DEFINE to == IF run[r].at = "orders" THEN "trades" ELSE "trades_after"
           fields == [at |-> to, open |-> OpenNow]
<1>1. RunTyped(r) /\ r \in DOMAIN run
  BY DEF IInv, RunInv, RunSound, Active
<1>2. DOMAIN fields = {"at", "open"} /\ fields["at"] = to /\ fields["open"] = OpenNow
  OBVIOUS
<1>3. run[r].at \in {"orders", "orders_after"} /\ Go(r, fields)
  BY DEF ReadOrders, At
<1> HIDE DEF fields
<1>4. Changes(r, {"at", "open"}) /\ run'[r].at = to /\ run'[r].open = OpenNow
  BY <1>1, <1>2, <1>3, GoChanges DEF RunTyped, Fields
<1>5. run'[r].verdict = run[r].verdict /\ run'[r].tries = run[r].tries /\ run'[r].limit = run[r].limit
  BY <1>4 DEF Changes, Fields
<1>6. Changes(r, {"at", "open", "limit", "verdict", "tries", "why"})
  BY <1>4, ChangesMore
<1>7. to \in StepsOf(run[r].kind)
  BY <1>1, <1>3 DEF RunTyped, StepsOf, CancelSteps
<1> QED
  BY <1>1, <1>3, <1>4, <1>5, <1>6, <1>7 DEF Continues, GoesForward, Forward, RunTyped, Afterwards, ReadOrders, files

LEMMA QuitsKinds ==
  ASSUME IInv, NEW r \in Active, Quits(r)
  PROVE  Continues(r) \/ Ends(r)
<1>1. RunTyped(r) /\ r \in DOMAIN run
  BY DEF IInv, RunInv, RunSound, Active
<1>2. CASE Stops(r)
  <2>1. End(r, "stopped") /\ r \notin sent /\ run[r].at # "update"
    BY <1>1, <1>2 DEF Stops, At, Unsent, RunTyped, Afterwards
  <2> QED
    BY <2>1, StopEnds DEF Quits, files
<1>3. CASE ReadFails(r) /\ run[r].kind # "taker"
  <2>1. End(r, "stopped") /\ run[r].at # "update"
    BY <1>3 DEF ReadFails, At, Is
  <2> QED
    BY <1>3, <2>1, StopEnds DEF Quits, files
<1>4. CASE ReadFails(r) /\ run[r].kind = "taker"
  <2> DEFINE verdict == IF run[r].capError THEN "submitted_cap_update_blocked"
                        ELSE "submitted_post_check_blocked"
             fields == [at |-> "report", verdict |-> verdict, open |-> << >>]
  <2>1. DOMAIN fields = {"at", "verdict", "open"} /\ fields["at"] = "report" /\ fields["verdict"] = verdict
    OBVIOUS
  <2>2. run[r].at \in {"orders_after", "trades_after"} /\ Go(r, fields)
    BY <1>4 DEF ReadFails, At, Is
  <2> HIDE DEF fields
  <2>3. Changes(r, {"at", "verdict", "open"}) /\ run'[r].at = "report" /\ run'[r].verdict = verdict
    BY <1>1, <2>1, <2>2, GoChanges DEF RunTyped, Fields
  <2>4. run'[r].tries = run[r].tries /\ run'[r].limit = run[r].limit
    BY <2>3 DEF Changes, Fields
  <2>5. Changes(r, {"at", "open", "limit", "verdict", "tries", "why"})
    BY <2>3, ChangesMore
  <2> QED
    BY <1>1, <1>4, <2>2, <2>3, <2>4, <2>5
       DEF Continues, GoesForward, Forward, RunTyped, Afterwards, StepsOf, Verdicts, Quits, files
<1> QED
  BY <1>2, <1>3, <1>4 DEF Quits

(* The limit that passes the checks of a taker decision is the approval's. *)
LEMMA LimitIsApproved ==
  ASSUME NEW facts, NEW quote \in Quotes,
         TakerMaySubmit(GateDecision(facts, quote, TakerApproval.size))
  PROVE  LimitApproved(GateDecision(facts, quote, TakerApproval.size).limit)
<1> DEFINE decision == GateDecision(facts, quote, TakerApproval.size)
<1>1. /\ decision.size = TakerApproval.size
      /\ decision.limit \in {0, PriceLimit(quote.asks[1].price)}
      /\ decision.limit = 0 \/ MissingReasons(quote) = {}
  BY DEF GateDecision
<1>2. decision.limit \in Nat
  <2>1. CASE MissingReasons(quote) = {}
    <3>1. quote.asks # << >>
      BY <2>1 DEF MissingReasons, Only
    <3>2. quote.asks[1].price \in Nat /\ One \in Nat /\ Limits.slippage \in Nat
      BY <3>1, TakerAssumption, LimitsAssumption
    <3>3. PriceLimit(quote.asks[1].price) \in Nat
      BY <3>2 DEF PriceLimit
    <3> QED
      BY <1>1, <3>3
  <2> QED
    BY <1>1, <2>1
<1>3. decision.size * decision.limit <= TakerApproval.notional /\ decision.limit <= TakerApproval.worst
  BY DEF TakerMaySubmit, SubmitShape
<1> HIDE DEF decision
<1>4. LimitApproved(decision.limit)
  BY <1>1, <1>2, <1>3 DEF LimitApproved
<1> QED
  BY <1>4 DEF decision

(* A command that has read the account goes on, or stops having done       *)
(* nothing.                                                                *)
LEMMA DecideKinds ==
  ASSUME IInv, NEW r \in Active, run[r].at = "trades", NEW opens, NEW fields,
         DOMAIN fields \subseteq {"at", "limit"}, "at" \in DOMAIN fields,
         fields["at"] \in {"approved", "reserve"} \cap StepsOf(run[r].kind),
         run[r].kind = "taker" => "limit" \in DOMAIN fields /\ (opens => LimitApproved(fields["limit"])),
         Decide(r, opens, fields),
         UNCHANGED <<venueVars, hidden, files, sent, faults>>
  PROVE  Continues(r) \/ Ends(r)
<1>1. RunTyped(r) /\ r \in DOMAIN run
  BY DEF IInv, RunInv, RunSound, Active
<1>2. CASE opens
  <2> DEFINE cleared == [open |-> << >>]
             all == Updated(cleared, fields)
  <2>1. DOMAIN cleared = {"open"}
    OBVIOUS
  <2>2. /\ DOMAIN all = {"open"} \cup DOMAIN fields
        /\ \A f \in DOMAIN fields : all[f] = fields[f]
    <3> HIDE DEF cleared
    <3>1. /\ DOMAIN Updated(cleared, fields) = DOMAIN cleared \cup DOMAIN fields
          /\ \A f \in DOMAIN fields : Updated(cleared, fields)[f] = fields[f]
      BY DEF Updated
    <3> QED
      BY <2>1, <3>1
  <2>3. Go(r, all)
    BY <1>2 DEF Decide
  <2> HIDE DEF all
  <2>4. Changes(r, DOMAIN all) /\ \A f \in DOMAIN all : run'[r][f] = all[f]
    BY <1>1, <2>2, <2>3, GoChanges DEF RunTyped, Fields
  <2>5. run'[r].at = fields["at"] /\ (run[r].kind = "taker" => run'[r].limit = fields["limit"])
    BY <2>2, <2>4
  <2>6. run'[r].tries = run[r].tries /\ run'[r].verdict = run[r].verdict
    BY <2>2, <2>4 DEF Changes, Fields
  <2>7. Changes(r, {"at", "open", "limit", "verdict", "tries", "why"})
    BY <2>2, <2>4, ChangesMore
  <2> QED
    BY <1>1, <1>2, <2>5, <2>6, <2>7 DEF Continues, GoesForward, Forward, RunTyped, Afterwards, files
<1>3. CASE ~ opens
  <2>1. End(r, "stopped") /\ r \notin sent
    BY <1>1, <1>3 DEF Decide, RunTyped, Afterwards
  <2> QED
    BY <2>1, StopEnds DEF files
<1> QED
  BY <1>2, <1>3

LEMMA ReadTradesKinds ==
  ASSUME IInv, NEW r \in Active, ReadTrades(r)
  PROVE  Continues(r) \/ Ends(r)
<1>1. run[r].at = "trades" /\ UNCHANGED <<venueVars, hidden, files, sent, faults>>
  BY SMTT(60) DEF ReadTrades, At
<1>2. PICK read \in {ReadbackOf(run[r].open, Visible)}, off \in {{}, {"geoblock"}} :
       \/ Is(r, {"fill"}) /\ \E market \in FillMarkets :
            Decide(r, FillOpens(off, read, market), [at |-> "approved"])
       \/ Is(r, {"canary"}) /\ Decide(r, CanaryOpens(off, read), [at |-> "reserve"])
       \/ Is(r, {"taker"}) /\ \E quote \in Quotes :
            LET decision == TakerDecisions[TakerFacts(read)][quote] IN
            Decide(r, off = {} /\ EvidenceReasons({}, quote, AgeLimits) = {}
                      /\ TakerMaySubmit(decision),
                   [at |-> "reserve", limit |-> decision.limit])
  BY DEF ReadTrades
<1>3. CASE Is(r, {"fill"}) /\ \E market \in FillMarkets :
            Decide(r, FillOpens(off, read, market), [at |-> "approved"])
  <2>1. PICK market \in FillMarkets : Decide(r, FillOpens(off, read, market), [at |-> "approved"])
    BY <1>3
  <2> DEFINE fields == [at |-> "approved"]
  <2>2. DOMAIN fields = {"at"} /\ fields["at"] = "approved"
    OBVIOUS
  <2>3. Decide(r, FillOpens(off, read, market), fields)
    BY <2>1
  <2> HIDE DEF fields
  <2>4. run[r].kind = "fill"
    BY <1>3 DEF Is
  <2> QED
    BY <1>1, <2>2, <2>3, <2>4, DecideKinds DEF StepsOf
<1>4. CASE Is(r, {"canary"}) /\ Decide(r, CanaryOpens(off, read), [at |-> "reserve"])
  <2> DEFINE fields == [at |-> "reserve"]
  <2>2. DOMAIN fields = {"at"} /\ fields["at"] = "reserve"
    OBVIOUS
  <2>3. Decide(r, CanaryOpens(off, read), fields)
    BY <1>4
  <2> HIDE DEF fields
  <2>4. run[r].kind = "canary"
    BY <1>4 DEF Is
  <2> QED
    BY <1>1, <2>2, <2>3, <2>4, DecideKinds DEF StepsOf
<1>5. CASE Is(r, {"taker"}) /\ \E quote \in Quotes :
            LET decision == TakerDecisions[TakerFacts(read)][quote] IN
            Decide(r, off = {} /\ EvidenceReasons({}, quote, AgeLimits) = {}
                      /\ TakerMaySubmit(decision),
                   [at |-> "reserve", limit |-> decision.limit])
  <2>1. PICK quote \in Quotes :
            LET decision == TakerDecisions[TakerFacts(read)][quote] IN
            Decide(r, off = {} /\ EvidenceReasons({}, quote, AgeLimits) = {}
                      /\ TakerMaySubmit(decision),
                   [at |-> "reserve", limit |-> decision.limit])
    BY <1>5
  <2> DEFINE decision == TakerDecisions[TakerFacts(read)][quote]
             opens == off = {} /\ EvidenceReasons({}, quote, AgeLimits) = {} /\ TakerMaySubmit(decision)
             fields == [at |-> "reserve", limit |-> decision.limit]
  <2>2. DOMAIN fields = {"at", "limit"} /\ fields["at"] = "reserve" /\ fields["limit"] = decision.limit
    OBVIOUS
  <2>3. Decide(r, opens, fields)
    BY <2>1
  <2>4. run[r].kind = "taker"
    BY <1>5 DEF Is
  <2>5. decision = GateDecision(TakerFacts(read), quote, TakerApproval.size)
    <3>1. TakerFacts(read) \in SUBSET {"baseline_not_ready", "reconciliation_not_clean"}
      BY DEF TakerFacts, When
    <3> QED
      BY <3>1 DEF TakerDecisions
  <2>6. opens => LimitApproved(decision.limit)
    BY <2>5, LimitIsApproved
  <2> HIDE DEF fields, opens, decision
  <2> QED
    BY <1>1, <2>2, <2>3, <2>4, <2>6, DecideKinds DEF StepsOf
<1> QED
  BY <1>2, <1>3, <1>4, <1>5

LEMMA ReserveKinds ==
  ASSUME IInv, NEW r \in Active, Reserve(r)
  PROVE  Reserves(r) \/ Ends(r)
<1>1. RunTyped(r) /\ r \in DOMAIN run /\ run[r].at = "reserve" /\ r \notin sent
  BY DEF IInv, RunInv, RunSound, RunTyped, Active, Reserve, At, Afterwards
<1>2. UNCHANGED <<venueVars, hidden, baseline, sent, reports>>
  BY DEF Reserve
<1>3. CASE End(r, "stopped") /\ UNCHANGED <<caps, faults>>
  BY <1>1, <1>2, <1>3, StopEnds
<1>4. CASE /\ MayReserve(run[r].kind) /\ Fails(r, "call") /\ End(r, "stopped")
           /\ caps' = [caps EXCEPT ![run[r].kind] = [state |-> "torn", order |-> 0]]
  <2>1. Leaves(r, "stopped") /\ run'[r].verdict = "stopped"
    BY <1>1, <1>4, EndLeaves DEF RunTyped, Leaves
  <2> QED
    BY <1>1, <1>2, <1>4, <2>1 DEF Ends, Verdicts, MayReserve
<1>5. CASE /\ MayReserve(run[r].kind)
           /\ caps' = [caps EXCEPT ![run[r].kind] = [state |-> "reserved", order |-> 0]]
           /\ Go(r, [at |-> IF run[r].kind = "fill" THEN "attempt" ELSE "submit"])
           /\ UNCHANGED faults
  <2> DEFINE to == IF run[r].kind = "fill" THEN "attempt" ELSE "submit"
             fields == [at |-> to]
  <2>1. DOMAIN fields = {"at"} /\ fields["at"] = to
    OBVIOUS
  <2>2. Go(r, fields)
    BY <1>5
  <2> HIDE DEF fields
  <2>3. Changes(r, {"at"}) /\ run'[r].at = to
    BY <1>1, <2>1, <2>2, GoChanges DEF RunTyped, Fields
  <2> QED
    BY <1>1, <1>2, <1>5, <2>3 DEF Reserves
<1> QED
  BY <1>3, <1>4, <1>5 DEF Reserve

LEMMA RecordKinds ==
  ASSUME IInv, NEW r \in Active, RecordOrder(r)
  PROVE  Records(r) \/ Ends(r)
<1>1. RunTyped(r) /\ r \in DOMAIN run /\ run[r].at = "update" /\ r \in sent
  BY DEF IInv, RunInv, RunSound, RunTyped, Active, RecordOrder, At, Afterwards
<1>2. UNCHANGED <<venueVars, hidden, baseline, sent, reports>>
  BY DEF RecordOrder
<1>3. run[r].kind \in {"fill", "canary", "taker"}
  BY <1>1 DEF RunTyped, Orders
<1> DEFINE recorded == caps' = [caps EXCEPT ![run[r].kind] = Recorded(r)] /\ UNCHANGED faults
           lost == /\ Fails(r, "call")
                   /\ caps' \in {caps, [caps EXCEPT ![run[r].kind] = [state |-> "torn", order |-> 0]]}
<1>4. ASSUME recorded \/ lost, NEW fields, DOMAIN fields \subseteq {"at", "capError"},
             "at" \in DOMAIN fields, Go(r, fields), run[r].kind \in {"fill", "taker"},
             fields["at"] = IF run[r].kind = "fill" THEN "succeeded" ELSE "orders_after"
      PROVE  Records(r)
  <2>1. Changes(r, DOMAIN fields) /\ run'[r].at = fields["at"]
    BY <1>1, <1>4, GoChanges DEF RunTyped, Fields
  <2>2. Changes(r, {"at", "capError"})
    BY <1>4, <2>1, ChangesMore
  <2> QED
    BY <1>1, <1>2, <1>4, <2>1, <2>2 DEF Records
<1>5. ASSUME recorded \/ lost, NEW verdict \in {"stopped", "submitted"}, End(r, verdict),
             run[r].kind # "taker"
      PROVE  Ends(r)
  <2>1. Leaves(r, verdict) /\ run'[r].verdict = verdict
    BY <1>1, <1>5, EndLeaves DEF RunTyped, Leaves
  <2>2. r \in DOMAIN faults' \/ caps' = [caps EXCEPT ![run[r].kind] = Recorded(r)]
    BY <1>5, FailsFaults
  <2> QED
    BY <1>1, <1>2, <1>5, <2>1, <2>2 DEF Ends, Verdicts
<1>6. CASE recorded /\ run[r].kind = "fill" /\ Go(r, [at |-> "succeeded"])
  <2> DEFINE fields == [at |-> "succeeded"]
  <2>1. DOMAIN fields = {"at"} /\ fields["at"] = "succeeded"
    OBVIOUS
  <2>2. Go(r, fields)
    BY <1>6
  <2> HIDE DEF fields
  <2> QED
    BY <1>4, <1>6, <2>1, <2>2
<1>7. CASE recorded /\ run[r].kind = "taker" /\ Go(r, [at |-> "orders_after"])
  <2> DEFINE fields == [at |-> "orders_after"]
  <2>1. DOMAIN fields = {"at"} /\ fields["at"] = "orders_after"
    OBVIOUS
  <2>2. Go(r, fields)
    BY <1>7
  <2> HIDE DEF fields
  <2> QED
    BY <1>4, <1>7, <2>1, <2>2
<1>8. CASE lost /\ run[r].kind = "taker" /\ Go(r, [at |-> "orders_after", capError |-> TRUE])
  <2> DEFINE fields == [at |-> "orders_after", capError |-> TRUE]
  <2>1. DOMAIN fields = {"at", "capError"} /\ fields["at"] = "orders_after"
    OBVIOUS
  <2>2. Go(r, fields)
    BY <1>8
  <2> HIDE DEF fields
  <2> QED
    BY <1>4, <1>8, <2>1, <2>2
<1>9. \/ recorded /\ run[r].kind = "fill" /\ Go(r, [at |-> "succeeded"])
      \/ recorded /\ run[r].kind = "taker" /\ Go(r, [at |-> "orders_after"])
      \/ lost /\ run[r].kind = "taker" /\ Go(r, [at |-> "orders_after", capError |-> TRUE])
      \/ recorded /\ run[r].kind = "canary" /\ End(r, "submitted")
      \/ lost /\ run[r].kind # "taker" /\ End(r, "stopped")
  BY <1>3 DEF RecordOrder
<1> QED
  BY <1>5, <1>6, <1>7, <1>8, <1>9

LEMMA CrashEnds ==
  ASSUME IInv, NEW r \in Active, Crash(r)
  PROVE  Ends(r)
BY StopEnds, FailsFaults DEF Crash, files

(* However a submit ends, it places an order.                              *)
LEMMA SubmitPlaces ==
  ASSUME IInv, NEW r \in Active, Submit(r)
  PROVE  Places(r)
<1>1. RunTyped(r) /\ r \in DOMAIN run /\ run[r].at = "submit"
  BY DEF IInv, RunInv, RunSound, Active, Submit, At
<1>2. run[r].kind \in {"fill", "canary", "taker"} /\ run[r].verdict = "none"
  BY <1>1 DEF RunTyped, StepsOf, CancelSteps
<1>3. /\ sent' = sent \cup {r} /\ UNCHANGED files
      /\ SubmitMatches(r) \/ SubmitRests(r) \/ SubmitDeclined(r) \/ SubmitErrs(r)
  BY DEF Submit
<1>4. ASSUME NEW answer, NEW listed, Submitted(r, answer, listed)
      PROVE  /\ Changes(r, Fields \ {"kind", "limit"})
             /\ run'[r].at = "update" /\ run'[r].verdict = "none" /\ run'[r].tries = run[r].tries
             /\ run'[r].answer = answer /\ run'[r].listed = listed /\ faults' = faults
  <2> DEFINE fields == [at |-> "update", answer |-> answer, listed |-> listed]
  <2>1. /\ DOMAIN fields = {"at", "answer", "listed"} /\ fields["at"] = "update"
        /\ fields["answer"] = answer /\ fields["listed"] = listed
    OBVIOUS
  <2>2. Go(r, fields) /\ faults' = faults
    BY <1>4 DEF Submitted
  <2> HIDE DEF fields
  <2>3. /\ Changes(r, {"at", "answer", "listed"}) /\ run'[r].at = "update"
        /\ run'[r].answer = answer /\ run'[r].listed = listed
    BY <1>1, <2>1, <2>2, GoChanges DEF RunTyped, Fields
  <2>4. run'[r].verdict = "none" /\ run'[r].tries = run[r].tries
    BY <1>2, <2>3 DEF Changes, Fields
  <2>5. Changes(r, Fields \ {"kind", "limit"})
    BY <2>3, ChangesMore DEF Fields
  <2> QED
    BY <2>2, <2>3, <2>4, <2>5
<1>5. CASE SubmitMatches(r)
  <2>1. PICK size \in 1..OrderSize :
          /\ orders' = With(orders, r, [status |-> IF size = OrderSize THEN "matched" ELSE "canceled",
                                        matched |-> size])
          /\ trades' = With(trades, <<r, size>>, [order |-> r, status |-> "Matched"])
          /\ hidden' \in {hidden, hidden \cup {<<r, size>>}}
          /\ \E listed \in SUBSET {<<r, size>>} : Submitted(r, "matched", listed)
    BY <1>5 DEF SubmitMatches
  <2>2. PICK listed \in SUBSET {<<r, size>>} : Submitted(r, "matched", listed)
    BY <2>1
  <2>3. Matches(r, size) /\ run'[r].at = "update" /\ faults' = faults
    BY <1>4, <1>5, <2>1, <2>2 DEF Matches, SubmitMatches
  <2> QED
    BY <1>1, <1>3, <1>4, <2>2, <2>3 DEF Places, RunTyped, Verdicts, files
<1>6. CASE SubmitRests(r)
  <2> DEFINE answer == IF Is(r, {"canary"}) THEN "live" ELSE "delayed"
  <2>1. Submitted(r, answer, {}) /\ Accept(r) /\ hidden' = hidden /\ answer # "matched"
    BY <1>6 DEF SubmitRests
  <2> HIDE DEF answer
  <2> QED
    BY <1>1, <1>3, <1>4, <2>1 DEF Places, RunTyped, Verdicts, files
<1>7. CASE SubmitErrs(r)
  <2>1. /\ (faults' = faults /\ UNCHANGED venueVars) \/ (LoseSubmit(r) /\ Fails(r, "call"))
        /\ hidden' = hidden
    BY <1>7 DEF SubmitErrs
  <2>2. CASE run[r].kind = "fill"
    <3> DEFINE fields == [at |-> "failed"]
    <3>1. DOMAIN fields = {"at"} /\ fields["at"] = "failed"
      OBVIOUS
    <3>2. Go(r, fields)
      BY <1>7, <2>2 DEF SubmitErrs, Refused
    <3> HIDE DEF fields
    <3>3. Changes(r, {"at"}) /\ run'[r].at = "failed"
      BY <1>1, <3>1, <3>2, GoChanges DEF RunTyped, Fields
    <3>4. /\ run'[r].verdict = "none" /\ run'[r].tries = run[r].tries
          /\ run'[r].answer = run[r].answer /\ run'[r].listed = run[r].listed
      BY <1>2, <3>3 DEF Changes, Fields
    <3>5. Changes(r, Fields \ {"kind", "limit"})
      BY <3>3, ChangesMore DEF Fields
    <3> QED
      BY <1>1, <1>3, <1>7, <2>1, <2>2, <3>3, <3>4, <3>5 DEF Places, RunTyped, Verdicts, files, StepsOf
  <2>3. CASE run[r].kind = "taker"
    <3> DEFINE fields == [at |-> "report", verdict |-> "submit_error_blocked"]
    <3>1. /\ DOMAIN fields = {"at", "verdict"} /\ fields["at"] = "report"
          /\ fields["verdict"] = "submit_error_blocked"
      OBVIOUS
    <3>2. Go(r, fields)
      BY <1>7, <2>3 DEF SubmitErrs, Refused
    <3> HIDE DEF fields
    <3>3. /\ Changes(r, {"at", "verdict"}) /\ run'[r].at = "report"
          /\ run'[r].verdict = "submit_error_blocked"
      BY <1>1, <3>1, <3>2, GoChanges DEF RunTyped, Fields
    <3>4. /\ run'[r].tries = run[r].tries
          /\ run'[r].answer = run[r].answer /\ run'[r].listed = run[r].listed
      BY <3>3 DEF Changes, Fields
    <3>5. Changes(r, Fields \ {"kind", "limit"})
      BY <3>3, ChangesMore DEF Fields
    <3> QED
      BY <1>1, <1>3, <1>7, <2>1, <2>3, <3>3, <3>4, <3>5 DEF Places, RunTyped, Verdicts, files, StepsOf
  <2>4. CASE run[r].kind = "canary"
    <3>1. Over(r, "stopped", TRUE)
      BY <1>7, <2>4 DEF SubmitErrs, Refused
    <3>2. /\ Changes(r, Fields \ {"answer"})
          /\ run'[r].at = "end" /\ run'[r].verdict = "stopped"
          /\ run'[r].listed = {} /\ run'[r].tries = 0
          /\ run'[r].kind = run[r].kind /\ run'[r].limit = run[r].limit
      BY <1>1, <3>1, OverChanges DEF RunTyped
    <3>3. run'[r].answer = run[r].answer
      BY <3>2 DEF Changes, Fields
    <3>4. Changes(r, Fields \ {"kind", "limit"})
      BY <3>2, <3>3 DEF Changes
    <3>5. 0 \in 0..MaxReads
      BY OrdersAssumption
    <3> QED
      BY <1>1, <1>3, <1>7, <2>1, <2>4, <3>2, <3>3, <3>4, <3>5 DEF Places, Verdicts, files
  <2> QED
    BY <1>2, <2>2, <2>3, <2>4
<1>8. CASE SubmitDeclined(r)
  <2>1. Submitted(r, "declined", {}) /\ UNCHANGED <<venueVars, hidden>>
    BY <1>8 DEF SubmitDeclined
  <2> QED
    BY <1>1, <1>3, <1>4, <2>1 DEF Places, RunTyped, Verdicts, files
<1> QED
  BY <1>3, <1>5, <1>6, <1>7, <1>8

(* An LA3 order that is reported filled has traded.                        *)
LEMMA ReconcileFillKinds ==
  ASSUME IInv, NEW r \in Active, ReconcileFill(r)
  PROVE  Ends(r)
<1>1. RunTyped(r) /\ r \in DOMAIN run /\ run[r].at = "trades_after" /\ run[r].kind = "fill"
  BY DEF IInv, RunInv, RunSound, Active, ReconcileFill, At, Is
<1>2. UNCHANGED Journaling
  BY DEF ReconcileFill
<1>3. PICK verdict : /\ verdict = FillVerdict(r, ReadbackOf(run[r].open, Visible))
                     /\ Log(r, End(r, verdict))
  BY DEF ReconcileFill
<1>4. CASE Fails(r, "call") /\ End(r, "stopped")
  BY <1>1, <1>2, <1>4, LogFails
<1>5. CASE End(r, verdict) /\ UNCHANGED faults
  <2>1. Leaves(r, verdict) /\ run'[r].verdict = verdict
    BY <1>1, <1>5, EndLeaves DEF RunTyped, Leaves
  <2>2. verdict \in {"ambiguous_incident_required", "filled_and_reconciled",
                     "not_filled_canceled_expired_cleanly"}
    BY <1>3 DEF FillVerdict
  <2>3. verdict = "filled_and_reconciled" => r \in DOMAIN orders /\ orders[r].matched > 0
    <3> SUFFICES ASSUME verdict = "filled_and_reconciled"
                 PROVE  r \in DOMAIN orders /\ orders[r].matched > 0
      OBVIOUS
    <3> DEFINE seen == ReadbackOf(run[r].open, Visible).trades
    <3>1. seen = Visible
      BY DEF ReadbackOf
    <3>2. Filled(r, seen)
      BY <1>3 DEF FillVerdict
    <3>3. CASE run[r].answer = "matched"
      BY <1>1, <3>3 DEF IInv, RunInv, RunSound, AnswerSound, Matched
    <3>4. CASE run[r].answer # "matched"
      <4>1. run[r].listed = {}
        BY <1>1, <3>4 DEF IInv, RunInv, RunSound, AnswerSound
      <4>2. PICK t \in DOMAIN Visible : Visible[t].order = r
        BY <3>1, <3>2, <3>4, <4>1 DEF Filled, Matching
      <4>3. t \in DOMAIN trades /\ trades[t].order = r
        BY <4>2 DEF Visible
      <4>4. /\ t[1] = r /\ t[2] \in 1..OrderSize /\ t[2] <= orders[r].matched
            /\ r \in DOMAIN orders
        BY <4>3 DEF IInv, AccountInv, VenueInv, VenueTypeOK, Trades, TradesHaveOrders
      <4>5. orders[r].matched \in Int
        BY <4>4 DEF IInv, AccountInv, VenueInv, VenueTypeOK, OrderRecord
      <4> QED
        BY <4>4, <4>5, OrderSizeAssumption
    <3> QED
      BY <3>3, <3>4
  <2> QED
    BY <1>1, <1>2, <1>5, <2>1, <2>2, <2>3 DEF Ends, Verdicts, Journaling
<1> QED
  BY <1>3, <1>4, <1>5 DEF Log

(* A readback that blocks nothing shows only confirmed trades.             *)
LEMMA CleanReadbackConfirms ==
  ASSUME NEW open, NEW seen, ReadbackOf(open, seen).reasons = {},
         NEW t \in DOMAIN seen, seen[t].status \in {"Matched", "Confirmed", "Failed"}
  PROVE  seen[t].status = "Confirmed"
<1> DEFINE account == AccountOf(open, seen)
<1>1. Readback!ReadbackReasons({}, account) = {}
  BY DEF ReadbackOf
<1>2. DOMAIN account.trades = DOMAIN seen /\ account.trades[t].status = seen[t].status
  BY DEF AccountOf
<1> HIDE DEF account
<1>3. Readback!TradeReasons(account.trades) = {}
  BY <1>1 DEF Readback!ReadbackReasons
<1>4. seen[t].status \in {account.trades[u].status : u \in DOMAIN account.trades}
  BY <1>2
<1>5. /\ {account.trades[u].status : u \in DOMAIN account.trades}
           \cap {"Matched", "Mined", "Retrying"} = {}
      /\ "Failed" \notin {account.trades[u].status : u \in DOMAIN account.trades}
  BY <1>3 DEF Readback!TradeReasons, Readback!Reason
<1> QED
  BY <1>4, <1>5

(* A taker order that nothing blocks is closed, and its trades are         *)
(* confirmed: the open orders were read while it was closed already, and   *)
(* the trade of a matched order is listed.                                 *)
LEMMA PassedIsReconciled ==
  ASSUME IInv, NEW r \in Active, run[r].at = "trades_after",
         NEW read, read = ReadbackOf(run[r].open, Visible),
         NEW own, own = Matching(r, read.trades),
         NEW mismatches, mismatches = PostMismatches(r, own, read),
         NEW pending, BlockReasons(PostStatus(mismatches, pending), read) = {}
  PROVE  Reconciled(r)
<1>1. read.open = run[r].open /\ read.trades = Visible
  BY DEF ReadbackOf
<1>2. read.reasons = {} /\ PostStatus(mismatches, pending) = "passed" /\ read.open = << >>
  BY DEF BlockReasons, When
<1>3. mismatches = {}
  BY <1>2 DEF PostStatus
<1>4. (r \in DOMAIN orders /\ orders[r].status # "live") \/ Declined(r)
  <2>1. << >> \in [{} -> {}]
    OBVIOUS
  <2>2. r \notin DOMAIN run[r].open
    BY <1>1, <1>2, <2>1
  <2> QED
    BY <2>2 DEF IInv, RunInv, RunSound, AnswerSound, Active
<1>5. ASSUME run[r].answer = "matched", NEW u \in TradesOf(r)
      PROVE  trades[u].status = "Confirmed"
  <2>1. own # {}
    BY <1>3, <1>5 DEF PostMismatches, When
  <2>2. PICK t \in own : TRUE
    BY <2>1
  <2>3. t \in DOMAIN Visible /\ (Visible[t].order = r \/ t \in run[r].listed)
    BY <1>1, <2>2 DEF Matching
  <2>4. t \in DOMAIN trades /\ Visible[t] = trades[t]
    BY <2>3 DEF Visible
  <2>5. run[r].listed \subseteq TradesOf(r) /\ Matched(r)
    BY <1>5 DEF IInv, RunInv, RunSound, AnswerSound, Active
  <2>6. t \in TradesOf(r)
    BY <2>3, <2>4, <2>5 DEF TradesOf
  <2>7. t = u
    BY <2>5, <2>6 DEF Matched
  <2>8. trades[t].status \in {"Matched", "Confirmed", "Failed"}
    BY <2>4 DEF IInv, AccountInv, VenueInv, VenueTypeOK, TradeRecord
  <2>9. ReadbackOf(run[r].open, Visible).reasons = {}
    BY <1>2
  <2>10. Visible[t].status = "Confirmed"
    BY <2>3, <2>4, <2>8, <2>9, CleanReadbackConfirms
  <2> QED
    BY <2>4, <2>7, <2>10
<1>6. run[r].answer = "matched" => r \in DOMAIN orders
  BY DEF IInv, RunInv, RunSound, AnswerSound, Active, Matched
<1> QED
  BY <1>4, <1>5, <1>6 DEF Reconciled, Declined

LEMMA CheckTakerContinues ==
  ASSUME IInv, NEW r \in Active, CheckTaker(r)
  PROVE  Continues(r)
<1>1. RunTyped(r) /\ r \in DOMAIN run /\ run[r].at = "trades_after" /\ run[r].kind = "taker"
  BY DEF IInv, RunInv, RunSound, Active, CheckTaker, At, Is
<1>2. UNCHANGED <<venueVars, hidden, files, sent, faults>> /\ run[r].tries \in 0..MaxReads
  BY <1>1 DEF CheckTaker, RunTyped
<1> DEFINE read == ReadbackOf(run[r].open, Visible)
           own == Matching(r, read.trades)
           mismatches == PostMismatches(r, own, read)
           status == PostStatus(mismatches, Pending(own, read))
           tries == IF run[r].tries < MaxReads THEN run[r].tries + 1 ELSE MaxReads
           verdict == TakerVerdict(r, BlockReasons(status, read))
           again == [at |-> "orders_after", tries |-> tries, open |-> << >>]
           done == [at |-> "report", tries |-> tries, why |-> mismatches, open |-> << >>,
                    verdict |-> verdict]
<1>3. (Go(r, again) /\ tries < MaxReads) \/ Go(r, done)
  BY DEF CheckTaker, PollsAgain
<1>4. verdict \in Verdicts \ {"canceled", "filled_and_reconciled"}
  BY DEF TakerVerdict, Verdicts
<1>5. verdict = "submitted_reconciled" => Reconciled(r)
  <2>1. verdict = "submitted_reconciled" => BlockReasons(status, read) = {}
    BY DEF TakerVerdict
  <2> QED
    BY <1>1, <2>1, PassedIsReconciled
<1>6. /\ tries \in 0..MaxReads /\ run[r].tries <= tries
      /\ tries < MaxReads => tries = run[r].tries + 1
  BY <1>2, OrdersAssumption
<1>7. /\ DOMAIN again = {"at", "tries", "open"} /\ again["at"] = "orders_after" /\ again["tries"] = tries
      /\ DOMAIN done = {"at", "tries", "why", "open", "verdict"} /\ done["at"] = "report"
      /\ done["tries"] = tries /\ done["verdict"] = verdict
  OBVIOUS
<1> HIDE DEF again, done, tries, verdict
<1>8. CASE Go(r, again) /\ tries < MaxReads
  <2>1. Changes(r, {"at", "tries", "open"}) /\ run'[r].at = "orders_after" /\ run'[r].tries = tries
    BY <1>1, <1>7, <1>8, GoChanges DEF RunTyped, Fields
  <2>2. run'[r].verdict = run[r].verdict /\ run'[r].limit = run[r].limit
    BY <2>1 DEF Changes, Fields
  <2>3. Changes(r, {"at", "open", "limit", "verdict", "tries", "why"})
    BY <2>1, ChangesMore
  <2>4. GoesForward(r)
    BY <1>1, <1>6, <1>8, <2>1 DEF GoesForward
  <2> QED
    BY <1>1, <1>2, <1>6, <2>1, <2>2, <2>3, <2>4 DEF Continues, StepsOf, Afterwards, files
<1>9. CASE Go(r, done)
  <2>1. /\ Changes(r, {"at", "tries", "why", "open", "verdict"})
        /\ run'[r].at = "report" /\ run'[r].tries = tries /\ run'[r].verdict = verdict
    BY <1>1, <1>7, <1>9, GoChanges DEF RunTyped, Fields
  <2>2. run'[r].limit = run[r].limit
    BY <2>1 DEF Changes, Fields
  <2>3. Changes(r, {"at", "open", "limit", "verdict", "tries", "why"})
    BY <2>1, ChangesMore
  <2>4. GoesForward(r)
    BY <1>1, <1>6, <2>1 DEF GoesForward, Forward
  <2> QED
    BY <1>1, <1>2, <1>4, <1>5, <1>6, <2>1, <2>2, <2>3, <2>4 DEF Continues, StepsOf, Afterwards, files
<1> QED
  BY <1>3, <1>8, <1>9

LEMMA ReportKinds ==
  ASSUME IInv, NEW r \in Active, Report(r)
  PROVE  Ends(r)
<1>1. RunTyped(r) /\ r \in DOMAIN run /\ run[r].at = "report"
  BY DEF IInv, RunInv, RunSound, Active, Report, At
<1>2. UNCHANGED <<venueVars, hidden, caps, torn, baseline, sent>>
  BY DEF Report
<1>3. CASE Fails(r, "cut") /\ End(r, "stopped") /\ UNCHANGED reports
  BY <1>1, <1>2, <1>3, StopEnds, FailsFaults
<1>4. CASE reports' = Reported(r, run[r].verdict) /\ End(r, run[r].verdict) /\ UNCHANGED faults
  <2>1. Leaves(r, run[r].verdict) /\ run'[r].verdict = run[r].verdict
    BY <1>1, <1>4, EndLeaves DEF RunTyped, Leaves
  <2>2. run[r].verdict # "canceled"
    BY <1>1 DEF RunTyped
  <2>3. r \in DOMAIN reports'
    BY <1>4 DEF Reported, With
  <2> QED
    BY <1>1, <1>2, <1>4, <2>1, <2>2, <2>3 DEF Ends, Reported, RunTyped
<1> QED
  BY <1>3, <1>4 DEF Report

LEMMA LookKinds ==
  ASSUME IInv, NEW r \in Active, Look(r)
  PROVE  Continues(r) \/ Ends(r)
<1>1. RunTyped(r) /\ r \in DOMAIN run /\ run[r].at = "look" /\ r \notin sent
  BY DEF IInv, RunInv, RunSound, RunTyped, Active, Look, At, Afterwards
<1>2. run[r].kind = "cancel"
  BY <1>1 DEF RunTyped, StepsOf
<1>3. UNCHANGED <<venueVars, hidden, files, sent, faults>>
  BY DEF Look
<1>4. CASE End(r, "stopped")
  BY <1>1, <1>3, <1>4, StopEnds DEF files
<1>5. CASE Names(caps["canary"], run[r].target) /\ Go(r, [at |-> "delete"])
  <2> DEFINE fields == [at |-> "delete"]
  <2>1. DOMAIN fields = {"at"} /\ fields["at"] = "delete"
    OBVIOUS
  <2>2. Go(r, fields)
    BY <1>5
  <2> HIDE DEF fields
  <2>3. Changes(r, {"at"}) /\ run'[r].at = "delete"
    BY <1>1, <2>1, <2>2, GoChanges DEF RunTyped, Fields
  <2>4. run'[r].verdict = run[r].verdict /\ run'[r].limit = run[r].limit /\ run'[r].tries = run[r].tries
    BY <2>3 DEF Changes, Fields
  <2>5. Changes(r, {"at", "open", "limit", "verdict", "tries", "why"})
    BY <2>3, ChangesMore
  <2> QED
    BY <1>1, <1>2, <1>3, <1>5, <2>3, <2>4, <2>5
       DEF Continues, GoesForward, Forward, RunTyped, StepsOf, CancelSteps, Afterwards, files
<1> QED
  BY <1>4, <1>5 DEF Look

LEMMA DeleteKinds ==
  ASSUME IInv, NEW r \in Active, Delete(r)
  PROVE  Continues(r) \/ Ends(r)
<1>1. RunTyped(r) /\ r \in DOMAIN run /\ run[r].at = "delete" /\ r \notin sent
  BY DEF IInv, RunInv, RunSound, RunTyped, Active, Delete, At, Afterwards
<1>2. run[r].kind = "cancel"
  BY <1>1 DEF RunTyped, StepsOf, CancelSteps
<1>3. UNCHANGED <<hidden, files, sent>> /\ (Close(run[r].target) \/ UNCHANGED venueVars)
  BY DEF Delete
<1>4. CASE Fails(r, "call") /\ End(r, "stopped")
  <2>1. Leaves(r, "stopped") /\ run'[r].verdict = "stopped"
    BY <1>1, <1>4, EndLeaves DEF RunTyped, Leaves
  <2> QED
    BY <1>1, <1>2, <1>3, <1>4, <2>1 DEF Ends, Verdicts, files
<1>5. ASSUME NEW answer, Go(r, [at |-> "look_again", why |-> answer]), UNCHANGED faults
      PROVE  Continues(r)
  <2> DEFINE fields == [at |-> "look_again", why |-> answer]
  <2>1. DOMAIN fields = {"at", "why"} /\ fields["at"] = "look_again"
    OBVIOUS
  <2>2. Go(r, fields)
    BY <1>5
  <2> HIDE DEF fields
  <2>3. Changes(r, {"at", "why"}) /\ run'[r].at = "look_again"
    BY <1>1, <2>1, <2>2, GoChanges DEF RunTyped, Fields
  <2>4. run'[r].verdict = run[r].verdict /\ run'[r].limit = run[r].limit /\ run'[r].tries = run[r].tries
    BY <2>3 DEF Changes, Fields
  <2>5. Changes(r, {"at", "open", "limit", "verdict", "tries", "why"})
    BY <2>3, ChangesMore
  <2> QED
    BY <1>1, <1>2, <1>3, <1>5, <2>3, <2>4, <2>5
       DEF Continues, GoesForward, Forward, RunTyped, StepsOf, CancelSteps, Afterwards, files
<1> QED
  BY <1>4, <1>5 DEF Delete

(* Only a canceled order is reported canceled.                             *)
LEMMA LookAgainEnds ==
  ASSUME IInv, NEW r \in Active, LookAgain(r)
  PROVE  Ends(r)
<1>1. RunTyped(r) /\ r \in DOMAIN run /\ run[r].at = "look_again" /\ r \notin sent
  BY DEF IInv, RunInv, RunSound, RunTyped, Active, LookAgain, At, Afterwards
<1> DEFINE outcome == Gates!CancelOutcome(run[r].why, OrderRead(run[r].target))
           verdict == IF outcome = {} THEN "canceled" ELSE "stopped"
<1>2. UNCHANGED <<venueVars, hidden, files, sent, faults>> /\ End(r, verdict)
  BY DEF LookAgain
<1>3. verdict = "canceled" => orders[run[r].target].status = "canceled"
  BY DEF Gates!CancelOutcome, Gates!Why, OrderRead
<1>4. verdict \in {"canceled", "stopped"}
  OBVIOUS
<1> HIDE DEF verdict
<1>5. Leaves(r, verdict) /\ run'[r].verdict = verdict
  BY <1>1, <1>2, EndLeaves DEF RunTyped, Leaves
<1> QED
  BY <1>1, <1>2, <1>3, <1>4, <1>5 DEF Ends, Verdicts, files

(* A new run gets the next number.                                         *)
LEMMA StartIsOne ==
  ASSUME IInv, NEW kind \in Orders \cup {"cancel"}, NEW target, Start(kind, target),
         kind = "cancel" => target \in OpenOrders
  PROVE  \E r \in Runs \ DOMAIN run : Starts(r, kind)
<1>1. PICK k \in Nat : DOMAIN run = 1..k
  BY DEF IInv, RunInv
<1>2. Cardinality(DOMAIN run) = k
  <2>1. Cardinality(1..k) = IF 1 > k THEN 0 ELSE k - 1 + 1
    BY <1>1, FS_Interval
  <2> QED
    BY <1>1, <2>1
<1> DEFINE r == k + 1
           first == [kind |-> kind, target |-> target, verdict |-> "none", answer |-> "none",
                     at |-> IF kind = "cancel" THEN "look" ELSE "orders",
                     tries |-> 0, limit |-> 0, why |-> {}]
           record == Updated(Blank, first)
<1>3. /\ r \in Runs /\ (kind # "cancel" => r \in 1..MaxOrders)
      /\ run' = With(run, r, record)
      /\ UNCHANGED <<venueVars, hidden, files, sent, faults>>
  BY <1>1, <1>2, OrdersAssumption DEF Start, Runs, Orders
<1>4. /\ DOMAIN Blank = {"open", "listed", "capError"} /\ Blank["listed"] = {}
      /\ DOMAIN first = Fields \ {"open", "listed", "capError"}
      /\ first["kind"] = kind /\ first["target"] = target /\ first["verdict"] = "none"
      /\ first["answer"] = "none" /\ first["tries"] = 0 /\ first["limit"] = 0
      /\ first["at"] = IF kind = "cancel" THEN "look" ELSE "orders"
  BY DEF Blank, Fields
<1> HIDE DEF first
<1>5. /\ DOMAIN record = DOMAIN Blank \cup DOMAIN first
      /\ \A f \in DOMAIN first : record[f] = first[f]
      /\ \A f \in DOMAIN Blank \ DOMAIN first : record[f] = Blank[f]
  BY UpdatedFields
<1>6. DOMAIN record = Fields /\ record["listed"] = {}
  BY <1>4, <1>5 DEF Fields
<1> HIDE DEF record
<1>7. r \notin DOMAIN run /\ DOMAIN run \cup {r} = 1..r /\ r \in Nat
  BY <1>1
<1>8. /\ DOMAIN run' = DOMAIN run \cup {r} /\ run'[r] = record
      /\ \A s \in DOMAIN run : run'[s] = run[s]
  BY <1>3, <1>7 DEF With
<1> HIDE DEF r
<1>9. Starts(r, kind)
  BY <1>3, <1>4, <1>5, <1>6, <1>7, <1>8 DEF Starts, Fields
<1> QED
  BY <1>3, <1>7, <1>9

(* No step is of any other kind.                                           *)
LEMMA StepIsOfAKind ==
  ASSUME IInv, Next
  PROVE  Kinds
<1>1. ASSUME NEW r \in Active, Step(r) \/ Crash(r)
      PROVE  \E q \in DOMAIN run : Continues(q) \/ Ends(q) \/ Reserves(q) \/ Records(q) \/ Places(q)
  <2>1. r \in DOMAIN run
    BY DEF Active
  <2>2. Continues(r) \/ Ends(r) \/ Reserves(r) \/ Records(r) \/ Places(r)
    BY <1>1, QuitsKinds, ReadOrdersContinues, ReadTradesKinds, LogKinds, ReserveKinds, SubmitPlaces,
       RecordKinds, ReconcileFillKinds, CheckTakerContinues, ReportKinds, LookKinds, DeleteKinds,
       LookAgainEnds, CrashEnds DEF Step
  <2> QED
    BY <2>1, <2>2
<1>2. CASE Rehearse
  <2>1. baseline' = DOMAIN Visible
        /\ UNCHANGED <<venueVars, hidden, caps, torn, run, sent, reports, faults>>
    BY <1>2 DEF Rehearse
  <2>2. baseline' \subseteq DOMAIN trades
    BY <2>1 DEF Visible
  <2> QED
    BY <2>1, <2>2 DEF Kinds, World
<1>3. CASE VenueMoves
  BY <1>3 DEF VenueMoves, Kinds, World, files
<1>4. CASE \E t \in hidden : Show(t)
  BY <1>4 DEF Show, Kinds, World, files
<1>5. ASSUME \/ \E kind \in Orders : Start(kind, 0)
             \/ \E o \in OpenOrders : Start("cancel", o)
      PROVE  \E r \in Runs \ DOMAIN run, kind \in Orders \cup {"cancel"} : Starts(r, kind)
  <2>1. ASSUME NEW kind \in Orders, Start(kind, 0)
        PROVE  \E r \in Runs \ DOMAIN run : Starts(r, kind)
    BY <2>1, StartIsOne DEF Orders
  <2>2. ASSUME NEW o \in OpenOrders, Start("cancel", o)
        PROVE  \E r \in Runs \ DOMAIN run : Starts(r, "cancel")
    BY <2>2, StartIsOne
  <2> QED
    BY <1>5, <2>1, <2>2
<1> QED
  BY <1>1, <1>2, <1>3, <1>4, <1>5 DEF Next, Kinds

-----------------------------------------------------------------------------
(* Every kind preserves the invariant.  RunSound of the other runs is      *)
(* OthersKeep; each lemma then shows what the kind can disturb.            *)

(* What the venue does by itself takes nothing back.                       *)
LEMMA VenueGoesOn ==
  ASSUME IInv, VenueStep \/ UNCHANGED venueVars, sent \subseteq sent'
  PROVE  VenueGrows /\ VenueInv' /\ OrdersGrow
<1>1. VenueInv
  BY DEF IInv, AccountInv
<1>2. VenueGrows /\ VenueInv'
  <2>1. CASE VenueStep
    BY <1>1, <2>1, VenueStepGrows
  <2>2. CASE UNCHANGED venueVars
    <3>1. VenueInv'
      BY <1>1, <2>2 DEF venueVars, VenueInv, VenueTypeOK, TradesHaveOrders
    <3>2. VenueGrows
      BY <1>1, <2>2, MatchedTyped DEF venueVars, VenueGrows
    <3> QED
      BY <3>1, <3>2
  <2> QED
    BY <2>1, <2>2
<1>3. ASSUME NEW o \in DOMAIN orders, orders[o].matched > 0
      PROVE  orders'[o].matched > 0
  <2>1. o \in DOMAIN orders' /\ orders[o].matched <= orders'[o].matched
    BY <1>2 DEF VenueGrows
  <2>2. orders[o].matched \in Int /\ orders'[o].matched \in Int
    BY <1>1, <1>2, <2>1, OrderSizeAssumption DEF VenueInv, VenueTypeOK, OrderRecord
  <2> QED
    BY <1>3, <2>1, <2>2
<1>4. \A o : TradesOf(o) \subseteq TradesOf(o)'
  BY <1>2 DEF TradesOf, VenueGrows
<1>5. ASSUME NEW o \in DOMAIN orders, orders[o].status # "live"
      PROVE  /\ orders'[o] = orders[o] /\ TradesOf(o)' = TradesOf(o)
             /\ \A t \in TradesOf(o) : trades[t].status = "Confirmed" => trades'[t].status = "Confirmed"
  BY <1>1, <1>2, <1>5, ClosedOrders
<1>6. \A o \in DOMAIN orders : o \in DOMAIN orders'
  BY <1>2 DEF VenueGrows
<1>7. \A o : Declined(o) => Declined(o)'
  BY <1>2 DEF Declined, VenueGrows
<1> QED
  BY <1>2, <1>3, <1>4, <1>5, <1>6, <1>7 DEF OrdersGrow

(* What is known of an order stays true.                                   *)
LEMMA KnownStays ==
  ASSUME OrdersGrow, NEW r
  PROVE  /\ Matched(r) => Matched(r)'
         /\ Reconciled(r) /\ run'[r].answer = run[r].answer => Reconciled(r)'
         /\ TradesOf(r) \subseteq TradesOf(r)'
BY DEF Matched, Reconciled, OrdersGrow

(* So does what is known of a run that does nothing.                       *)
SentKept ==
  /\ sent \subseteq sent'
  /\ \A s \in sent : s \in DOMAIN run' /\ run'[s].kind = run[s].kind
LEMMA OthersKeep ==
  ASSUME IInv, OrdersGrow, SentKept,
         NEW s \in DOMAIN run, run'[s] = run[s], s \in sent' => s \in sent
  PROVE  RunSound(s)'
<1> USE DEF IInv, RunInv, RunSound
<1>1. RunTyped(s)'
  BY DEF RunTyped, SentKept
<1>2. \A o \in DOMAIN orders : run'[o].kind = run[o].kind
  BY DEF AccountInv, SentKept
<1>3. CancelSound(s)'
  BY <1>2 DEF CancelSound, CancelSteps, OrdersGrow
<1>4. AnswerSound(s)'
  <2>1. /\ run[s].at \in {"update", "succeeded", "orders_after", "trades_after"} =>
             s \in DOMAIN orders' \/ Declined(s)'
        /\ run[s].answer = "matched" => Matched(s)'
        /\ run[s].listed \subseteq TradesOf(s)'
    BY KnownStays DEF AnswerSound, OrdersGrow
  <2>2. ASSUME run[s].at = "trades_after", s \in DOMAIN orders', s \notin DOMAIN run[s].open
        PROVE  orders'[s].status # "live"
    BY <2>2 DEF AnswerSound, OrdersGrow, Declined
  <2> QED
    BY <2>1, <2>2 DEF AnswerSound
<1>5. VerdictSound(s)'
  BY KnownStays DEF VerdictSound, OrdersGrow
<1>6. LimitSound(s)'
  BY DEF LimitSound, LimitApproved
<1> QED
  BY <1>1, <1>3, <1>4, <1>5, <1>6

LEMMA ContinuesInv ==
  ASSUME IInv, NEW r \in DOMAIN run, Continues(r)
  PROVE  IInv'
<1> USE DEF IInv
<1>1. RunSound(r) /\ r \in Active
  BY DEF RunInv, Continues
<1>2. /\ DOMAIN run' = DOMAIN run
      /\ \A s \in DOMAIN run : s # r => run'[s] = run[s]
      /\ DOMAIN run'[r] = Fields
      /\ run'[r].kind = run[r].kind /\ run'[r].answer = run[r].answer
      /\ run'[r].listed = run[r].listed /\ run'[r].target = run[r].target
  BY DEF Continues, Changes, Fields
<1>3. UNCHANGED <<hidden, caps, baseline, sent, reports, faults>>
  BY DEF Continues
<1>4. VenueGrows /\ VenueInv' /\ OrdersGrow
  <2>1. VenueStep \/ UNCHANGED venueVars
    BY DEF Continues, VenueStep, Close
  <2> QED
    BY <1>3, <2>1, VenueGoesOn
<1>5. SentKept
  BY <1>2, <1>3 DEF SentKept, RunInv
<1>6. \A s \in DOMAIN run : s # r => RunSound(s)'
  BY <1>2, <1>3, <1>4, <1>5, OthersKeep
<1>7. RunSound(r)'
  <2>1. RunTyped(r)'
    BY <1>1, <1>2, <1>3 DEF RunSound, RunTyped, Continues, Active, StepsOf, Afterwards, CancelSteps, Orders
  <2>2. CancelSound(r)'
    <3>1. run'[r].at \in CancelSteps => run[r].at \in CancelSteps
      BY <1>1 DEF RunSound, RunTyped, Continues, Active, StepsOf, CancelSteps
    <3>2. run'[r].at \in {"delete", "look_again"} => run[run[r].target].kind = "canary"
      BY <1>1 DEF RunSound, CancelSound, CapInv, Names, Continues, Orders
    <3>3. run[r].at \in CancelSteps => run[r].target \in DOMAIN orders /\ run[r].target \in DOMAIN run
      BY <1>1 DEF RunSound, CancelSound, AccountInv, RunInv
    <3>4. run'[r].verdict # "canceled"
      BY <1>1 DEF RunSound, RunTyped, Continues, Active
    <3> QED
      BY <1>2, <1>4, <3>1, <3>2, <3>3, <3>4 DEF CancelSound, CancelSteps, VenueGrows
  <2>3. AnswerSound(r)'
    <3>1. run'[r].at \in {"update", "succeeded", "orders_after", "trades_after"} =>
            r \in DOMAIN orders' \/ Declined(r)'
      BY <1>1, <1>4 DEF RunSound, AnswerSound, Continues, OrdersGrow
    <3>2. ASSUME run'[r].at = "trades_after", r \in DOMAIN orders', r \notin DOMAIN run'[r].open
          PROVE  orders'[r].status # "live"
      <4>1. run'[r].open = OpenNow /\ orders' = orders
        BY <3>2 DEF Continues, venueVars
      <4>2. DOMAIN OpenNow = OpenOrders
        BY DEF OpenNow
      <4> QED
        BY <3>2, <4>1, <4>2 DEF OpenOrders
    <3> QED
      BY <1>1, <1>2, <1>4, <3>1, <3>2, KnownStays DEF RunSound, AnswerSound
  <2>4. VerdictSound(r)'
    <3>1. run'[r].verdict # "filled_and_reconciled"
      BY <1>1 DEF RunSound, RunTyped, Continues, Active
    <3>2. run'[r].verdict = "submitted_reconciled" => Reconciled(r)
      BY <1>1 DEF RunSound, VerdictSound, Continues
    <3> QED
      BY <1>2, <1>4, <3>1, <3>2, KnownStays DEF VerdictSound
  <2>5. LimitSound(r)'
    BY <1>1, <1>2, <1>3 DEF RunSound, RunTyped, LimitSound, LimitApproved, Continues, StepsOf, Afterwards, CancelSteps
  <2> QED
    BY <2>1, <2>2, <2>3, <2>4, <2>5 DEF RunSound
<1>8. RunInv'
  BY <1>2, <1>3, <1>6, <1>7 DEF RunInv
<1>9. CapInv'
  <2>1. \A s \in DOMAIN run : run'[s].kind = run[s].kind
    BY <1>2
  <2>2. Granted' \subseteq Granted /\ Granted \subseteq DOMAIN run
    BY <1>2, <1>3 DEF Granted, Continues, RunInv
  <2> QED
    BY <1>3, <2>1, <2>2 DEF CapInv, RunInv
<1>10. AccountInv'
  BY <1>2, <1>3, <1>4 DEF AccountInv, VenueGrows
<1>11. AcceptedOrdersAreRecorded'
  <2> SUFFICES ASSUME NEW s \in sent, s \in DOMAIN orders', s \notin DOMAIN faults,
                      run'[s].at \notin {"update", "submit"}
               PROVE  caps[run'[s].kind] = [state |-> "recorded", order |-> s]
    BY <1>3 DEF AcceptedOrdersAreRecorded
  <2>1. s \in DOMAIN orders /\ s \in DOMAIN run /\ run'[s].kind = run[s].kind
    BY <1>2, <1>4 DEF AccountInv, RunInv, VenueGrows
  <2>2. run[s].at \notin {"update", "submit"}
    BY <1>1, <1>2, <2>1 DEF RunSound, RunTyped, Continues, Afterwards
  <2> QED
    BY <2>1, <2>2 DEF AcceptedOrdersAreRecorded
<1>12. ReportInv'
  <2>1. run'[r].at # "end"
    BY DEF Continues, StepsOf, CancelSteps
  <2> QED
    BY <1>2, <1>3, <2>1 DEF ReportInv, EverySubmitIsReported, RunInv
<1> QED
  BY <1>8, <1>9, <1>10, <1>11, <1>12

(* A fault is noted, and none is forgotten.                                *)
LEMMA FaultsGrow ==
  ASSUME NEW r, faults' = faults \/ Fails(r, "call") \/ Fails(r, "cut")
  PROVE  /\ DOMAIN faults \subseteq DOMAIN faults' /\ DOMAIN faults' \subseteq DOMAIN faults \cup {r}
         /\ \A s \in DOMAIN faults : faults'[s] = faults[s]
BY DEF Fails, With

(* The end of a command, however it comes, leaves its order recorded,      *)
(* reported or excused by a fault.                                         *)
LEMMA EndsInv ==
  ASSUME IInv, NEW r \in DOMAIN run, Ends(r)
  PROVE  IInv'
<1> USE DEF IInv
<1>1. RunSound(r) /\ run[r].at # "end"
  BY DEF RunInv, Ends, Active
<1>2. /\ DOMAIN run' = DOMAIN run
      /\ \A s \in DOMAIN run : s # r => run'[s] = run[s]
      /\ DOMAIN run'[r] = Fields
      /\ run'[r].answer = run[r].answer /\ run'[r].at = "end"
      /\ run'[r].listed = {} /\ run'[r].tries = 0
      /\ r \in sent => run'[r].kind = run[r].kind /\ run'[r].limit = run[r].limit
      /\ run'[r].kind \in {run[r].kind, "none"}
  BY DEF Ends, Leaves, Changes, Fields
<1>3. UNCHANGED <<hidden, baseline, sent>>
  BY DEF Ends
<1>4. VenueGrows /\ VenueInv' /\ OrdersGrow
  <2>1. VenueStep \/ UNCHANGED venueVars
    BY DEF Ends, VenueStep, Close
  <2> QED
    BY <1>3, <2>1, VenueGoesOn
<1>5. SentKept
  BY <1>2, <1>3 DEF SentKept, RunInv
<1>6. \A s \in DOMAIN run : s # r => RunSound(s)'
  BY <1>2, <1>3, <1>4, <1>5, OthersKeep
<1>7. RunSound(r)'
  <2>1. RunTyped(r)'
    <3>1. 0 \in 0..MaxReads /\ run'[r].verdict \in Verdicts
      BY OrdersAssumption DEF Ends
    <3> QED
      BY <1>1, <1>2, <1>3, <3>1 DEF RunSound, RunTyped, Afterwards, Orders
  <2>2. CancelSound(r)'
    <3> SUFFICES ASSUME run'[r].verdict = "canceled"
                 PROVE  run'[r].target \in DOMAIN orders' /\ orders'[run'[r].target].status = "canceled"
      BY <1>2 DEF CancelSound, CancelSteps
    <3>1. /\ run[r].at = "look_again" /\ orders[run[r].target].status = "canceled"
          /\ run'[r].target = run[r].target
      BY DEF Ends, Leaves
    <3>2. run[r].target \in DOMAIN orders
      BY <1>1, <3>1 DEF RunSound, CancelSound, CancelSteps
    <3> QED
      BY <1>4, <3>1, <3>2 DEF OrdersGrow
  <2>3. AnswerSound(r)'
    BY <1>1, <1>2, <1>4, KnownStays DEF RunSound, AnswerSound
  <2>4. VerdictSound(r)'
    <3>1. run'[r].verdict = "filled_and_reconciled" => r \in DOMAIN orders /\ orders[r].matched > 0
      BY <1>1 DEF RunSound, RunTyped, Ends
    <3>2. run'[r].verdict = "submitted_reconciled" => Reconciled(r)
      BY <1>1 DEF RunSound, VerdictSound, Ends
    <3> QED
      BY <1>2, <1>4, <3>1, <3>2, KnownStays DEF VerdictSound, OrdersGrow
  <2>5. LimitSound(r)'
    BY <1>1, <1>2, <1>3 DEF RunSound, LimitSound, LimitApproved
  <2> QED
    BY <2>1, <2>2, <2>3, <2>4, <2>5 DEF RunSound
<1>8. RunInv'
  BY <1>2, <1>3, <1>6, <1>7 DEF RunInv
<1>9. /\ DOMAIN faults \subseteq DOMAIN faults' /\ DOMAIN faults' \subseteq DOMAIN faults \cup {r}
      /\ \A s \in DOMAIN faults : faults'[s] = faults[s]
  BY FaultsGrow DEF Ends
<1>10. /\ run[r].at = "reserve" => r \notin sent
       /\ run[r].at = "update" => r \in sent /\ run[r].kind \in Orders
  BY <1>1 DEF RunSound, RunTyped, Afterwards
<1>11. \/ caps' = caps
       \/ /\ run[r].at = "reserve" /\ caps[run[r].kind].state = "none"
          /\ caps' = [caps EXCEPT ![run[r].kind] = [state |-> "torn", order |-> 0]]
       \/ /\ run[r].at = "update"
          /\ \/ caps' = [caps EXCEPT ![run[r].kind] = Recorded(r)]
             \/ caps' = [caps EXCEPT ![run[r].kind] = [state |-> "torn", order |-> 0]]
  BY DEF Ends
<1>12. CapInv'
  <2>1. Granted' \subseteq Granted /\ Granted \subseteq DOMAIN run /\ r \in Granted' => r \in sent
    BY <1>2, <1>3 DEF Granted, RunInv
  <2>2. \A s \in Granted' : run'[s].kind = run[s].kind /\ s \in Granted
    BY <1>2, <1>3 DEF Granted, RunInv
  <2>3. \A s \in sent : run'[s].kind = run[s].kind
    BY <1>5 DEF SentKept
  <2>4. /\ DOMAIN caps' = Orders
        /\ \A kind \in Orders :
             /\ caps'[kind].state \in {"none", "torn", "reserved", "recorded"}
             /\ caps'[kind].state = "recorded" =>
                  caps'[kind].order \in sent /\ run[caps'[kind].order].kind = kind
             /\ caps[kind].state # "none" => caps'[kind].state # "none"
    BY <1>10, <1>11 DEF CapInv, Recorded
  <2>5. \A s \in Granted : run[s].kind \in Orders
    BY DEF Granted, RunInv, RunSound, RunTyped, StepsOf, CancelSteps, Orders
  <2> QED
    BY <1>3, <2>2, <2>3, <2>4, <2>5 DEF CapInv
<1>13. AccountInv'
  BY <1>2, <1>3, <1>4, <1>9 DEF AccountInv, VenueGrows
<1>14. AcceptedOrdersAreRecorded'
  <2> SUFFICES ASSUME NEW s \in sent, s \in DOMAIN orders', s \notin DOMAIN faults',
                      run'[s].at \notin {"update", "submit"}
               PROVE  caps'[run'[s].kind] = [state |-> "recorded", order |-> s]
    BY <1>3 DEF AcceptedOrdersAreRecorded
  <2>1. /\ s \in DOMAIN orders /\ s \in DOMAIN run /\ run'[s].kind = run[s].kind
        /\ s \notin DOMAIN faults /\ run[s].kind \in Orders
    BY <1>4, <1>5, <1>9 DEF AccountInv, RunInv, RunSound, RunTyped, VenueGrows, SentKept
  <2>2. CASE s = r
    <3>1. run[r].at # "submit" /\ run[r].at # "reserve"
      BY <1>1, <2>2 DEF RunSound, RunTyped, Afterwards
    <3>2. CASE run[r].at = "update"
      BY <2>1, <2>2, <3>2 DEF Ends, CapInv, Recorded
    <3>3. CASE run[r].at # "update"
      BY <1>11, <2>1, <2>2, <3>1, <3>3 DEF AcceptedOrdersAreRecorded
    <3> QED
      BY <3>2, <3>3
  <2>3. CASE s # r
    <3>1. caps[run[s].kind] = [state |-> "recorded", order |-> s]
      BY <1>2, <2>1, <2>3 DEF AcceptedOrdersAreRecorded
    <3>2. run[r].at = "update" => run[s].kind # run[r].kind
      BY <1>10, <2>3 DEF CapInv, Granted
    <3> QED
      BY <1>11, <2>1, <3>1, <3>2 DEF CapInv
  <2> QED
    BY <2>2, <2>3
<1>15. ReportInv'
  <2>1. DOMAIN reports \subseteq DOMAIN reports' /\ DOMAIN reports' \subseteq DOMAIN reports \cup {r}
    BY DEF Ends, With
  <2>2. ASSUME NEW s \in sent, run'[s].kind = "taker", run'[s].at = "end",
               ~ (s \in DOMAIN faults' /\ faults'[s] = "cut")
        PROVE  s \in DOMAIN reports'
    <3>1. s \in DOMAIN run /\ run[s].kind = "taker"
      BY <1>5, <2>2 DEF SentKept, RunInv
    <3>2. CASE s = r
      BY <2>2, <3>1, <3>2 DEF Ends
    <3>3. CASE s # r
      BY <1>2, <1>9, <2>1, <2>2, <3>1, <3>3 DEF ReportInv, EverySubmitIsReported
    <3> QED
      BY <3>2, <3>3
  <2> QED
    BY <1>2, <1>3, <2>1, <2>2 DEF ReportInv, EverySubmitIsReported
<1> QED
  BY <1>8, <1>12, <1>13, <1>14, <1>15

(* The cap file goes to one run of a kind.                                 *)
LEMMA ReservesInv ==
  ASSUME IInv, NEW r \in DOMAIN run, Reserves(r)
  PROVE  IInv'
<1> USE DEF IInv
<1>1. RunSound(r) /\ run[r].at = "reserve" /\ run[r].kind \in Orders /\ r \notin sent
  BY DEF RunInv, RunSound, RunTyped, Reserves, StepsOf, CancelSteps, Orders, Afterwards
<1>2. /\ DOMAIN run' = DOMAIN run
      /\ \A s \in DOMAIN run : s # r => run'[s] = run[s]
      /\ DOMAIN run'[r] = Fields
      /\ \A f \in Fields \ {"at"} : run'[r][f] = run[r][f]
      /\ run'[r].at = IF run[r].kind = "fill" THEN "attempt" ELSE "submit"
  BY DEF Reserves, Changes
<1>3. UNCHANGED <<hidden, baseline, sent, reports, faults>> /\ UNCHANGED venueVars
  BY DEF Reserves
<1>4. VenueGrows /\ VenueInv' /\ OrdersGrow
  BY <1>3, VenueGoesOn
<1>5. \A s \in DOMAIN run : run'[s].kind = run[s].kind
  BY <1>2 DEF Fields
<1>6. SentKept
  BY <1>2, <1>3, <1>5 DEF SentKept, RunInv
<1>7. \A s \in DOMAIN run : s # r => RunSound(s)'
  BY <1>2, <1>3, <1>4, <1>6, OthersKeep
<1>8. RunSound(r)'
  <2>1. RunTyped(r)'
    BY <1>1, <1>2, <1>3 DEF RunSound, RunTyped, Fields, StepsOf, Afterwards, Orders
  <2>2. CancelSound(r)'
    BY <1>1, <1>2 DEF RunSound, RunTyped, CancelSound, CancelSteps, Fields
  <2>3. AnswerSound(r)'
    BY <1>1, <1>2, <1>4, KnownStays DEF RunSound, AnswerSound, Fields
  <2>4. VerdictSound(r)'
    BY <1>1, <1>2 DEF RunSound, RunTyped, VerdictSound, Fields
  <2>5. LimitSound(r)'
    BY <1>1, <1>2, <1>3 DEF RunSound, LimitSound, LimitApproved, Fields
  <2> QED
    BY <2>1, <2>2, <2>3, <2>4, <2>5 DEF RunSound
<1>9. RunInv'
  BY <1>2, <1>3, <1>7, <1>8 DEF RunInv
<1>10. caps' = [caps EXCEPT ![run[r].kind] = [state |-> "reserved", order |-> 0]]
       /\ caps[run[r].kind].state = "none"
  BY DEF Reserves, MayReserve
<1>11. \A s \in Granted : run[s].kind # run[r].kind /\ s \in DOMAIN run /\ run[s].kind \in Orders
  BY <1>10 DEF CapInv, Granted, RunInv, RunSound, RunTyped, StepsOf, CancelSteps, Orders
<1>12. CapInv'
  <2>1. Granted' \subseteq Granted \cup {r}
    BY <1>2, <1>3 DEF Granted
  <2>2. /\ DOMAIN caps' = Orders
        /\ \A kind \in Orders :
             /\ caps'[kind].state \in {"none", "torn", "reserved", "recorded"}
             /\ caps'[kind].state = "recorded" => caps'[kind] = caps[kind]
             /\ kind # run[r].kind => caps'[kind] = caps[kind]
             /\ caps'[run[r].kind].state # "none"
    BY <1>1, <1>10 DEF CapInv
  <2>3. \A s \in Granted' : caps'[run'[s].kind].state # "none"
    BY <1>1, <1>5, <1>11, <2>1, <2>2 DEF CapInv
  <2>4. \A s, q \in Granted' : run'[s].kind = run'[q].kind => s = q
    BY <1>5, <1>11, <2>1 DEF CapInv
  <2>5. \A kind \in Orders : caps'[kind].state = "recorded" =>
          caps'[kind].order \in sent /\ run'[caps'[kind].order].kind = kind
    BY <1>5, <2>2 DEF CapInv, RunInv
  <2> QED
    BY <1>3, <2>2, <2>3, <2>4, <2>5 DEF CapInv
<1>13. AccountInv'
  BY <1>2, <1>3, <1>4 DEF AccountInv, VenueGrows
<1>14. AcceptedOrdersAreRecorded'
  <2> SUFFICES ASSUME NEW s \in sent, s \in DOMAIN orders, s \notin DOMAIN faults,
                      run'[s].at \notin {"update", "submit"}
               PROVE  caps'[run'[s].kind] = [state |-> "recorded", order |-> s]
    BY <1>3 DEF AcceptedOrdersAreRecorded, venueVars
  <2>1. s # r /\ s \in Granted /\ s \in DOMAIN run
    BY <1>1 DEF Granted, RunInv
  <2>2. caps[run[s].kind] = [state |-> "recorded", order |-> s]
    BY <1>2, <2>1 DEF AcceptedOrdersAreRecorded
  <2> QED
    BY <1>2, <1>10, <1>11, <2>1, <2>2 DEF CapInv
<1>15. ReportInv'
  BY <1>1, <1>2, <1>3 DEF ReportInv, EverySubmitIsReported, RunInv
<1> QED
  BY <1>9, <1>12, <1>13, <1>14, <1>15

(* The id goes into the cap file of the run that has it.                   *)
LEMMA RecordsInv ==
  ASSUME IInv, NEW r \in DOMAIN run, Records(r)
  PROVE  IInv'
<1> USE DEF IInv
<1>1. RunSound(r) /\ run[r].at = "update" /\ run[r].kind \in {"fill", "taker"} /\ r \in sent
  BY DEF RunInv, RunSound, RunTyped, Records, Afterwards
<1>2. /\ DOMAIN run' = DOMAIN run
      /\ \A s \in DOMAIN run : s # r => run'[s] = run[s]
      /\ DOMAIN run'[r] = Fields
      /\ \A f \in Fields \ {"at", "capError"} : run'[r][f] = run[r][f]
      /\ run'[r].at = IF run[r].kind = "fill" THEN "succeeded" ELSE "orders_after"
  BY DEF Records, Changes
<1>3. UNCHANGED <<hidden, baseline, sent, reports>> /\ UNCHANGED venueVars
  BY DEF Records
<1>4. VenueGrows /\ VenueInv' /\ OrdersGrow
  BY <1>3, VenueGoesOn
<1>5. \A s \in DOMAIN run : run'[s].kind = run[s].kind
  BY <1>2 DEF Fields
<1>6. SentKept
  BY <1>2, <1>3, <1>5 DEF SentKept, RunInv
<1>7. \A s \in DOMAIN run : s # r => RunSound(s)'
  BY <1>2, <1>3, <1>4, <1>6, OthersKeep
<1>8. RunSound(r)'
  <2>1. RunTyped(r)'
    BY <1>1, <1>2, <1>3 DEF RunSound, RunTyped, Fields, StepsOf, Afterwards, Orders
  <2>2. CancelSound(r)'
    BY <1>1, <1>2 DEF RunSound, RunTyped, CancelSound, CancelSteps, Fields
  <2>3. AnswerSound(r)'
    BY <1>1, <1>2, <1>4, KnownStays DEF RunSound, AnswerSound, Fields, OrdersGrow
  <2>4. VerdictSound(r)'
    BY <1>1, <1>2 DEF RunSound, RunTyped, VerdictSound, Fields
  <2>5. LimitSound(r)'
    BY <1>1, <1>2, <1>3 DEF RunSound, LimitSound, LimitApproved, Fields
  <2> QED
    BY <2>1, <2>2, <2>3, <2>4, <2>5 DEF RunSound
<1>9. RunInv'
  BY <1>2, <1>3, <1>7, <1>8 DEF RunInv
<1>10. /\ DOMAIN faults \subseteq DOMAIN faults' /\ DOMAIN faults' \subseteq DOMAIN faults \cup {r}
       /\ \A s \in DOMAIN faults : faults'[s] = faults[s]
  BY FaultsGrow DEF Records
<1>11. \/ caps' = [caps EXCEPT ![run[r].kind] = Recorded(r)]
       \/ /\ caps' = caps \/ caps' = [caps EXCEPT ![run[r].kind] = [state |-> "torn", order |-> 0]]
          /\ r \in DOMAIN faults'
  BY FailsFaults DEF Records
<1>12. r \in Granted /\ run[r].kind \in Orders
  BY <1>1 DEF Granted, Orders
<1>13. CapInv'
  <2>1. Granted' \subseteq Granted /\ Granted \subseteq DOMAIN run
    BY <1>2, <1>3 DEF Granted, RunInv
  <2>2. /\ DOMAIN caps' = Orders
        /\ \A kind \in Orders :
             /\ caps'[kind].state \in {"none", "torn", "reserved", "recorded"}
             /\ caps'[kind].state = "recorded" =>
                  caps'[kind].order \in sent /\ run[caps'[kind].order].kind = kind
             /\ caps[kind].state # "none" => caps'[kind].state # "none"
    BY <1>1, <1>11, <1>12 DEF CapInv, Recorded
  <2>3. \A s \in Granted : run[s].kind \in Orders
    BY DEF Granted, RunInv, RunSound, RunTyped, StepsOf, CancelSteps, Orders
  <2> QED
    BY <1>3, <1>5, <2>1, <2>2, <2>3 DEF CapInv, RunInv
<1>14. AccountInv'
  BY <1>2, <1>3, <1>4, <1>10 DEF AccountInv, VenueGrows
<1>15. AcceptedOrdersAreRecorded'
  <2> SUFFICES ASSUME NEW s \in sent, s \in DOMAIN orders, s \notin DOMAIN faults',
                      run'[s].at \notin {"update", "submit"}
               PROVE  caps'[run'[s].kind] = [state |-> "recorded", order |-> s]
    BY <1>3 DEF AcceptedOrdersAreRecorded, venueVars
  <2>1. /\ s \in Granted /\ s \in DOMAIN run /\ run'[s].kind = run[s].kind /\ s \notin DOMAIN faults
        /\ run[s].kind \in Orders
    BY <1>5, <1>10 DEF Granted, RunInv, RunSound, RunTyped
  <2>2. CASE s = r
    BY <1>11, <1>12, <2>1, <2>2 DEF CapInv, Recorded
  <2>3. CASE s # r
    <3>1. caps[run[s].kind] = [state |-> "recorded", order |-> s] /\ run[s].kind # run[r].kind
      BY <1>2, <1>12, <2>1, <2>3 DEF AcceptedOrdersAreRecorded, CapInv
    <3> QED
      BY <1>11, <2>1, <3>1 DEF CapInv
  <2> QED
    BY <2>2, <2>3
<1>16. ReportInv'
  BY <1>1, <1>2, <1>3, <1>10 DEF ReportInv, EverySubmitIsReported, RunInv
<1> QED
  BY <1>9, <1>13, <1>14, <1>15, <1>16

LEMMA StartsInv ==
  ASSUME IInv, NEW r \in Runs \ DOMAIN run, NEW kind \in Orders \cup {"cancel"}, Starts(r, kind)
  PROVE  IInv'
<1> USE DEF IInv
<1>1. UNCHANGED <<hidden, caps, baseline, sent, reports, faults>> /\ UNCHANGED venueVars
  BY DEF Starts, files
<1>2. VenueGrows /\ VenueInv' /\ OrdersGrow
  BY <1>1, VenueGoesOn
<1>3. DOMAIN run' = DOMAIN run \cup {r} /\ \A s \in DOMAIN run : run'[s] = run[s]
  BY DEF Starts
<1>4. SentKept
  BY <1>1, <1>3 DEF SentKept, RunInv
<1>5. \A s \in DOMAIN run : RunSound(s)'
  BY <1>1, <1>2, <1>3, <1>4, OthersKeep
<1>6. r \notin sent
  BY DEF RunInv
<1>7. RunSound(r)'
  <2>1. RunTyped(r)'
    BY <1>1, <1>6, OrdersAssumption
       DEF RunTyped, Starts, StepsOf, CancelSteps, Afterwards, Orders, Verdicts
  <2>2. CancelSound(r)'
    BY <1>1 DEF CancelSound, CancelSteps, Starts, OpenOrders, venueVars
  <2>3. AnswerSound(r)' /\ VerdictSound(r)' /\ LimitSound(r)'
    BY <1>1, <1>6 DEF AnswerSound, VerdictSound, LimitSound, Starts
  <2> QED
    BY <2>1, <2>2, <2>3 DEF RunSound
<1>8. RunInv'
  BY <1>1, <1>3, <1>5, <1>7 DEF RunInv, Starts
<1>9. CapInv'
  <2>1. Granted' \subseteq Granted /\ Granted \subseteq DOMAIN run
    BY <1>1, <1>3, <1>6 DEF Granted, Starts, RunInv
  <2> QED
    BY <1>1, <1>3, <2>1 DEF CapInv, RunInv
<1>10. AccountInv'
  BY <1>1, <1>2, <1>3 DEF AccountInv, VenueGrows
<1>11. AcceptedOrdersAreRecorded' /\ ReportInv'
  BY <1>1, <1>3 DEF AcceptedOrdersAreRecorded, ReportInv, EverySubmitIsReported, RunInv, venueVars
<1> QED
  BY <1>8, <1>9, <1>10, <1>11

(* What happens at the venue at any moment disturbs nothing.               *)
LEMMA WorldInv ==
  ASSUME IInv, World
  PROVE  IInv'
<1> USE DEF IInv
<1>1. UNCHANGED <<caps, run, sent, reports, faults>> /\ (VenueStep \/ UNCHANGED venueVars)
  BY DEF World
<1>2. VenueGrows /\ VenueInv' /\ OrdersGrow
  BY <1>1, VenueGoesOn
<1>3. SentKept
  BY <1>1 DEF SentKept, RunInv
<1>4. \A s \in DOMAIN run : RunSound(s)'
  BY <1>1, <1>2, <1>3, OthersKeep
<1>5. RunInv'
  BY <1>1, <1>4 DEF RunInv
<1>6. CapInv' /\ ReportInv'
  BY <1>1 DEF CapInv, Granted, ReportInv, EverySubmitIsReported
<1>7. AccountInv'
  BY <1>1, <1>2 DEF AccountInv, VenueGrows, World
<1>8. AcceptedOrdersAreRecorded'
  BY <1>1, <1>2 DEF AcceptedOrdersAreRecorded, AccountInv, VenueGrows
<1> QED
  BY <1>5, <1>6, <1>7, <1>8

(* The venue takes an order that was not sent before.                      *)
LEMMA PlacesVenue ==
  ASSUME IInv, NEW r \in DOMAIN run, Places(r), r \in Intents, r \notin sent
  PROVE  /\ VenueInv' /\ OrdersGrow
         /\ DOMAIN orders' \subseteq DOMAIN orders \cup {r}
         /\ inflight' \cup late' \subseteq inflight \cup late \cup DOMAIN faults'
         /\ inflight' \subseteq inflight \cup {r}
         /\ hidden' \subseteq DOMAIN trades'
         /\ DOMAIN trades \subseteq DOMAIN trades'
<1>1. /\ VenueInv /\ r \notin DOMAIN orders /\ r \notin inflight /\ hidden \subseteq DOMAIN trades
      /\ sent' = sent \cup {r}
  BY DEF IInv, AccountInv, Places
<1>2. TradesOf(r) = {} /\ (\A t \in DOMAIN trades : t[1] # r)
  BY <1>1 DEF TradesOf, VenueInv, TradesHaveOrders
<1>3. CASE \E size \in 1..OrderSize : Matches(r, size)
  <2>1. PICK size \in 1..OrderSize : Matches(r, size)
    BY <1>3
  <2> DEFINE t == <<r, size>>
  <2>2. t \in Trades /\ t[1] = r /\ t[2] = size /\ t \notin DOMAIN trades
    BY <1>2 DEF Trades
  <2>3. /\ DOMAIN orders' = DOMAIN orders \cup {r}
        /\ \A o \in DOMAIN orders : orders'[o] = orders[o]
        /\ orders'[r] \in OrderRecord /\ orders'[r].matched = size
    BY <1>1, <2>1, OrderSizeAssumption DEF Matches, With, OrderRecord
  <2>4. /\ DOMAIN trades' = DOMAIN trades \cup {t}
        /\ \A u \in DOMAIN trades : trades'[u] = trades[u]
        /\ trades'[t] \in TradeRecord /\ trades'[t].order = r
    BY <2>1, <2>2 DEF Matches, With, TradeRecord
  <2>5. UNCHANGED <<inflight, late>> /\ hidden' \subseteq hidden \cup {t}
    BY <2>1 DEF Matches
  <2> HIDE DEF t
  <2>6. VenueTypeOK'
    BY <1>1, <2>2, <2>3, <2>4, <2>5 DEF VenueInv, VenueTypeOK
  <2>7. TradesHaveOrders'
    <3> SUFFICES ASSUME NEW u \in DOMAIN trades'
                 PROVE  trades'[u].order = u[1] /\ u[1] \in DOMAIN orders' /\ u[2] <= orders'[u[1]].matched
      BY DEF TradesHaveOrders
    <3>1. CASE u = t
      BY <2>2, <2>3, <2>4, <3>1
    <3>2. CASE u # t
      BY <1>1, <2>3, <2>4, <3>2 DEF VenueInv, TradesHaveOrders
    <3> QED
      BY <3>1, <3>2
  <2>8. IsFiniteSet(DOMAIN trades')
    BY <1>1, <2>4, FS_AddElement DEF VenueInv
  <2>9. VenueInv'
    BY <1>1, <2>3, <2>5, <2>6, <2>7, <2>8 DEF VenueInv
  <2>10. OrdersGrow
    <3>1. \A o : o # r => TradesOf(o)' = TradesOf(o)
      BY <2>4 DEF TradesOf
    <3>2. TradesOf(r) \subseteq TradesOf(r)'
      BY <1>2
    <3>3. \A o : Declined(o) => Declined(o)'
      BY <1>1, <2>3, <2>5 DEF Declined, Places
    <3> QED
      BY <1>1, <2>3, <2>4, <3>1, <3>2, <3>3 DEF OrdersGrow, TradesOf
  <2> QED
    BY <1>1, <2>3, <2>4, <2>5, <2>9, <2>10
<1>4. CASE Accept(r) /\ hidden' = hidden
  <2>1. /\ DOMAIN orders' = DOMAIN orders \cup {r}
        /\ \A o \in DOMAIN orders : orders'[o] = orders[o]
        /\ orders'[r] \in OrderRecord
        /\ UNCHANGED <<trades, inflight, late>>
    BY <1>1, <1>4, OrderSizeAssumption DEF Accept, With, Fresh, OrderRecord
  <2>2. VenueInv'
    BY <1>1, <2>1 DEF VenueInv, VenueTypeOK, TradesHaveOrders
  <2>3. \A o : Declined(o) => Declined(o)'
    BY <1>1, <2>1 DEF Declined
  <2>4. OrdersGrow
    BY <2>1, <2>3 DEF OrdersGrow, TradesOf
  <2> QED
    BY <1>1, <1>4, <2>1, <2>2, <2>4
<1>5. CASE /\ UNCHANGED venueVars \/ (LoseSubmit(r) /\ Fails(r, "call"))
           /\ hidden' = hidden
  <2>1. /\ UNCHANGED <<orders, trades, late>>
        /\ inflight' = inflight \/ (inflight' = inflight \cup {r} /\ r \in DOMAIN faults')
    BY <1>5, FailsFaults DEF venueVars, LoseSubmit
  <2>2. VenueInv'
    BY <1>1, <2>1 DEF VenueInv, VenueTypeOK, TradesHaveOrders
  <2>3. \A o : Declined(o) => Declined(o)'
    BY <1>1, <2>1 DEF Declined
  <2>4. OrdersGrow
    BY <2>1, <2>3 DEF OrdersGrow, TradesOf
  <2> QED
    BY <1>1, <1>5, <2>1, <2>2, <2>4
<1> QED
  BY <1>3, <1>4, <1>5 DEF Places

(* The order is the first under its approval.                              *)
LEMMA PlacesInv ==
  ASSUME IInv, NEW r \in DOMAIN run, Places(r)
  PROVE  IInv'
<1> USE DEF IInv
<1>1. RunSound(r) /\ run[r].at = "submit" /\ run[r].kind \in {"fill", "canary", "taker"} /\ r \notin sent
  BY DEF RunInv, RunSound, RunTyped, Places, StepsOf, CancelSteps, Afterwards
<1>2. /\ DOMAIN run' = DOMAIN run
      /\ \A s \in DOMAIN run : s # r => run'[s] = run[s]
      /\ DOMAIN run'[r] = Fields
      /\ run'[r].kind = run[r].kind /\ run'[r].limit = run[r].limit
      /\ run'[r].at \in {"update", "failed", "report", "end"}
      /\ run'[r].at \in StepsOf(run[r].kind) \cup {"end"}
  BY <1>1 DEF Places, Changes, Fields, StepsOf
<1>3. UNCHANGED <<caps, baseline, reports>> /\ sent' = sent \cup {r}
  BY DEF Places
<1>4. r \in Intents /\ r \in 1..MaxOrders /\ run[r].kind \in Orders
  BY <1>1, OrdersAssumption DEF RunSound, RunTyped, Orders
<1>5. /\ VenueInv' /\ OrdersGrow
      /\ DOMAIN orders' \subseteq DOMAIN orders \cup {r}
      /\ inflight' \cup late' \subseteq inflight \cup late \cup DOMAIN faults'
      /\ inflight' \subseteq inflight \cup {r}
      /\ hidden' \subseteq DOMAIN trades'
      /\ DOMAIN trades \subseteq DOMAIN trades'
  BY <1>1, <1>4, PlacesVenue
<1>6. r \notin DOMAIN orders /\ r \notin inflight
  BY <1>1 DEF AccountInv
<1>7. \A s \in DOMAIN run : run'[s].kind = run[s].kind
  BY <1>2
<1>8. SentKept
  BY <1>2, <1>3, <1>7 DEF SentKept, RunInv
<1>9. \A s \in DOMAIN run : s # r => RunSound(s)'
  BY <1>2, <1>3, <1>5, <1>8, OthersKeep
<1>10. run[r].answer # "matched" /\ run[r].listed = {}
  BY <1>1, <1>6 DEF RunSound, AnswerSound, Matched
<1>11. \/ \E size \in 1..OrderSize : Matches(r, size) /\ run'[r].at = "update"
       \/ /\ Accept(r) \/ UNCHANGED venueVars
          /\ run'[r].at = "update"
          /\ run'[r].answer # "matched" /\ run'[r].listed = {}
       \/ /\ run'[r].at # "update" /\ orders' = orders
          /\ run'[r].answer # "matched" /\ run'[r].listed = {}
  BY <1>10 DEF Places, venueVars, LoseSubmit
<1>12. AnswerSound(r)' /\ (r \in DOMAIN orders' => run'[r].at = "update")
  <2>1. ASSUME NEW size \in 1..OrderSize, Matches(r, size), run'[r].at = "update"
        PROVE  AnswerSound(r)'
    <3> DEFINE t == <<r, size>>
    <3>1. r \in DOMAIN orders' /\ orders'[r].status # "live" /\ orders'[r].matched > 0
      BY <2>1, OrderSizeAssumption DEF Matches, With
    <3>2. /\ DOMAIN trades' = DOMAIN trades \cup {t} /\ trades'[t].order = r
          /\ \A u \in DOMAIN trades : u # t => trades'[u] = trades[u]
      BY <2>1 DEF Matches, With
    <3>3. TradesOf(r)' = {t}
      BY <1>6, <3>2 DEF TradesOf, AccountInv, VenueInv, TradesHaveOrders
    <3>4. run'[r].listed \subseteq {t}
      BY <2>1 DEF Matches
    <3>5. run'[r].answer = "matched"
      BY <2>1 DEF Matches
    <3> HIDE DEF t
    <3>6. Matched(r)'
      BY <3>1, <3>3 DEF Matched
    <3> QED
      BY <2>1, <3>1, <3>3, <3>4, <3>5, <3>6 DEF AnswerSound
  <2>2. ASSUME Accept(r), run'[r].at = "update", run'[r].answer # "matched", run'[r].listed = {}
        PROVE  AnswerSound(r)'
    BY <2>2 DEF AnswerSound, Accept, With
  <2>3. ASSUME UNCHANGED venueVars, run'[r].at = "update", run'[r].answer # "matched", run'[r].listed = {}
        PROVE  AnswerSound(r)'
    BY <1>3, <1>6, <2>3 DEF AnswerSound, Declined, venueVars
  <2>4. ASSUME run'[r].at # "update", run'[r].answer # "matched", run'[r].listed = {}
        PROVE  AnswerSound(r)'
    BY <1>2, <2>4 DEF AnswerSound
  <2>5. r \in DOMAIN orders' => run'[r].at = "update"
    BY <1>6, <1>11 DEF venueVars
  <2> QED
    BY <1>11, <2>1, <2>2, <2>3, <2>4, <2>5
<1>13. RunSound(r)'
  <2>1. RunTyped(r)'
    BY <1>1, <1>2, <1>3, <1>4 DEF RunSound, RunTyped, Places, Afterwards, Orders
  <2>2. CancelSound(r)' /\ VerdictSound(r)'
    BY <1>2 DEF CancelSound, VerdictSound, CancelSteps, Places
  <2>3. LimitSound(r)'
    BY <1>1, <1>2 DEF RunSound, LimitSound, LimitApproved
  <2> QED
    BY <1>12, <2>1, <2>2, <2>3 DEF RunSound
<1>14. RunInv'
  BY <1>2, <1>3, <1>9, <1>13 DEF RunInv
<1>15. r \in Granted
  BY <1>1 DEF Granted
<1>16. CapInv'
  <2>1. Granted' \subseteq Granted /\ Granted \subseteq DOMAIN run
    BY <1>2, <1>3, <1>15 DEF Granted, RunInv
  <2> QED
    BY <1>3, <1>7, <2>1 DEF CapInv, RunInv
<1>17. DOMAIN faults \subseteq DOMAIN faults' /\ DOMAIN faults' \subseteq DOMAIN faults \cup {r}
       /\ \A s \in DOMAIN faults : faults'[s] = faults[s]
  BY FaultsGrow DEF Places
<1>18. AccountInv'
  BY <1>2, <1>3, <1>5, <1>17 DEF AccountInv
<1>19. AcceptedOrdersAreRecorded'
  BY <1>2, <1>3, <1>5, <1>12, <1>17 DEF AcceptedOrdersAreRecorded, RunInv
<1>20. ReportInv'
  <2>1. run'[r].at = "end" => run[r].kind = "canary"
    BY DEF Places
  <2> QED
    BY <1>2, <1>3, <1>17, <2>1 DEF ReportInv, EverySubmitIsReported, RunInv
<1> QED
  BY <1>14, <1>16, <1>18, <1>19, <1>20

-----------------------------------------------------------------------------
LEMMA InitInv == Init => IInv
<1> SUFFICES ASSUME Init PROVE IInv
  OBVIOUS
<1>1. << >> \in [{} -> {}]
  OBVIOUS
<1>2. DOMAIN run = {} /\ DOMAIN orders = {} /\ DOMAIN trades = {} /\ DOMAIN faults = {} /\ DOMAIN reports = {}
  BY <1>1 DEF Init, VenueInit
<1>3. DOMAIN run = 1..0
  BY <1>2
<1>4. RunInv
  BY <1>2, <1>3 DEF RunInv, Init
<1>5. CapInv
  BY <1>2 DEF CapInv, Granted, Init, NoCap
<1>6. AccountInv
  BY <1>2, FS_EmptySet DEF AccountInv, VenueInv, VenueTypeOK, TradesHaveOrders, Init, VenueInit
<1> QED
  BY <1>2, <1>4, <1>5, <1>6 DEF IInv, AcceptedOrdersAreRecorded, ReportInv, EverySubmitIsReported, Init

LEMMA UnchangedInv == IInv /\ UNCHANGED vars => IInv'
<1> SUFFICES ASSUME IInv, UNCHANGED vars PROVE IInv'
  OBVIOUS
<1> USE DEF vars, cmdVars
<1>1. World
  BY DEF World
<1> QED
  BY <1>1, WorldInv

(* Every state of the one-shot commands, whatever fails and in whatever    *)
(* order they run, satisfies the invariant.                                *)
THEOREM Invariance == Spec => []IInv
<1>1. IInv /\ [Next]_vars => IInv'
  <2>1. IInv /\ Next => IInv'
    BY StepIsOfAKind, ContinuesInv, EndsInv, ReservesInv, RecordsInv, PlacesInv, StartsInv, WorldInv
       DEF Kinds
  <2> QED
    BY <2>1, UnchangedInv
<1> QED
  BY <1>1, InitInv, PTL DEF Spec

-----------------------------------------------------------------------------
(* What follows from it.                                                   *)

TornInv == torn \in BOOLEAN
LEMMA TornTyped == Spec => []TornInv
<1>1. Init => TornInv
  BY DEF Init, TornInv
<1>2. Next => torn' = torn \/ torn' = TRUE
  <2>1. ASSUME NEW r \in Active, Step(r) \/ Crash(r)
        PROVE  torn' = torn \/ torn' = TRUE
    BY <2>1 DEF Step, Quits, ReadOrders, ReadTrades, LogApproved, Reserve, LogAttempt, Submit,
       LogFailed, RecordOrder, LogSucceeded, ReconcileFill, CheckTaker, Report, Look, Delete,
       LookAgain, Crash, Log, files
  <2> QED
    BY <2>1 DEF Next, Start, Rehearse, VenueMoves, Show, files
<1>3. TornInv /\ [Next]_vars => TornInv'
  <2>1. CASE UNCHANGED vars
    BY <2>1 DEF TornInv, vars, cmdVars
  <2>2. CASE Next
    BY <1>2, <2>2, Zenon DEF TornInv
  <2> QED
    BY <2>1, <2>2
<1> QED
  BY <1>1, <1>3, PTL DEF Spec

LEMMA InvTyped == IInv /\ TornInv => TypeOK
<1> SUFFICES ASSUME IInv, TornInv PROVE TypeOK
  OBVIOUS
<1> USE DEF IInv
<1>1. VenueTypeOK /\ hidden \subseteq DOMAIN trades /\ DOMAIN reports \cup DOMAIN faults \subseteq DOMAIN run
      /\ (baseline = NoBaseline \/ baseline \subseteq DOMAIN trades)
  BY DEF AccountInv, VenueInv, ReportInv
<1>2. \A kind \in Orders : caps[kind].state \in {"none", "torn", "reserved", "recorded"}
                           /\ (caps[kind].state = "recorded" => caps[kind].order \in sent)
  BY DEF CapInv
<1>3. \A r \in DOMAIN run : run[r].at \in Steps /\ run[r].verdict \in Verdicts
                            /\ run[r].tries \in 0..MaxReads
  BY DEF RunInv, RunSound, RunTyped, StepsOf, CancelSteps, Steps
<1>4. DOMAIN run \subseteq Runs /\ sent \subseteq DOMAIN run
  BY DEF RunInv
<1>5. torn \in BOOLEAN
  BY Zenon DEF TornInv
<1> QED
  BY <1>1, <1>2, <1>3, <1>4, <1>5, Zenon DEF TypeOK

(* An order that the venue took is in its cap file, a taker order has its  *)
(* report, only a crash excuses them, and the exact cancel goes to the LB6 *)
(* canary alone.                                                           *)
THEOREM OrdersAreTraceable == Spec => []OrdersStayTraceable
<1>1. IInv => AcceptedOrdersAreRecorded /\ EverySubmitIsReported /\ CancelsOnlyTheCanary
  BY DEF IInv, ReportInv, CancelsOnlyTheCanary, RunInv, RunSound, CancelSound, Active
<1> QED
  BY <1>1, InvTyped, Invariance, TornTyped, PTL DEF OrdersStayTraceable

(* What a command reports of its order is so at the venue and stays so,    *)
(* though it reads orders and trades one after the other and the venue     *)
(* lists trades late.                                                      *)
THEOREM VerdictsHold == Spec => []VerdictsAreTrue
<1>1. IInv => VerdictsAreTrue
  BY DEF IInv, RunInv, RunSound, CancelSound, VerdictSound, Reconciled, Declined, VerdictsAreTrue,
     OpenOrders, Confirmed
<1> QED
  BY <1>1, Invariance, PTL

(* A part of an order costs no more than the whole.                        *)
LEMMA LessIsWorthLess ==
  ASSUME NEW a \in Nat, NEW b \in Nat, NEW c \in Nat, a <= b
  PROVE  a * c <= b * c
<1>1. b * c = a * c + (b - a) * c
  OBVIOUS
<1>2. (b - a) * c >= 0 /\ a * c \in Int
  OBVIOUS
<1> QED
  BY <1>1, <1>2

(* A taker order pays no more than its approval, on any books.             *)
THEOREM TakerPaysNoMore == Spec => []TakerPaysWithinApproval
<1>1. IInv => TakerPaysWithinApproval
  <2> SUFFICES ASSUME IInv, NEW r \in sent, run[r].kind = "taker", r \in DOMAIN orders
               PROVE  /\ orders[r].matched * run[r].limit <= TakerApproval.notional
                      /\ run[r].limit <= TakerApproval.worst
    BY DEF TakerPaysWithinApproval
  <2> DEFINE matched == orders[r].matched
             limit == run[r].limit
             size == TakerApproval.size
  <2>1. LimitApproved(limit)
    BY DEF IInv, RunInv, RunSound, LimitSound
  <2>2. matched \in 0..OrderSize
    BY DEF IInv, AccountInv, VenueInv, VenueTypeOK, OrderRecord
  <2>3. matched \in Nat /\ size \in Nat /\ matched <= size /\ limit \in Nat
    BY <2>1, <2>2, TakerAssumption, OrderSizeAssumption DEF LimitApproved
  <2>4. size * limit <= TakerApproval.notional /\ limit <= TakerApproval.worst
    BY <2>1 DEF LimitApproved
  <2>5. TakerApproval.notional \in Nat
    BY TakerAssumption
  <2> HIDE DEF matched, limit, size
  <2>6. matched * limit <= size * limit
    BY <2>3, LessIsWorthLess
  <2>7. matched * limit \in Int /\ size * limit \in Int
    BY <2>3
  <2>8. matched * limit <= TakerApproval.notional
    BY <2>4, <2>5, <2>6, <2>7
  <2> QED
    BY <2>4, <2>8 DEF matched, limit
<1> QED
  BY <1>1, Invariance, PTL

-----------------------------------------------------------------------------
(* Every step brings its command nearer to the end.                        *)

Position(step) == CHOOSE n \in DOMAIN Order : Order[n] = step

(* The steps of Order are told apart by their places.                      *)
LEMMA PositionIs ==
  ASSUME NEW n \in 1..16
  PROVE  Position(Order[n]) = n
<1>1. /\ DOMAIN Order = 1..16
      /\ \A k, m \in 1..16 : Order[k] = Order[m] => k = m
  BY DEF Order
<1> HIDE DEF Order
<1>2. \E m \in DOMAIN Order : Order[m] = Order[n]
  BY <1>1
<1>3. Position(Order[n]) \in DOMAIN Order /\ Order[Position(Order[n])] = Order[n]
  BY <1>2 DEF Position
<1> QED
  BY <1>1, <1>3

(* Every way through the commands leads to a later step.                   *)
LEMMA ForwardIsLater ==
  ASSUME NEW from, NEW to, <<from, to>> \in Forward
  PROVE  /\ Position(from) \in 1..16 /\ Position(to) \in 1..16
         /\ Position(from) < Position(to)
<1>1. /\ Order[1] = "look" /\ Order[2] = "delete" /\ Order[3] = "look_again" /\ Order[4] = "orders"
      /\ Order[5] = "trades" /\ Order[6] = "approved" /\ Order[7] = "reserve" /\ Order[8] = "attempt"
      /\ Order[9] = "submit" /\ Order[10] = "failed" /\ Order[11] = "update"
      /\ Order[12] = "succeeded" /\ Order[13] = "orders_after" /\ Order[14] = "trades_after"
      /\ Order[15] = "report" /\ Order[16] = "end"
  BY DEF Order
<1>2. \A n \in 1..16 : Position(Order[n]) = n
  BY PositionIs
<1>3. /\ Position("look") = 1 /\ Position("delete") = 2 /\ Position("look_again") = 3
      /\ Position("orders") = 4 /\ Position("trades") = 5 /\ Position("approved") = 6
      /\ Position("reserve") = 7 /\ Position("attempt") = 8 /\ Position("submit") = 9
      /\ Position("failed") = 10 /\ Position("update") = 11 /\ Position("succeeded") = 12
      /\ Position("orders_after") = 13 /\ Position("trades_after") = 14 /\ Position("report") = 15
  BY <1>1, <1>2
<1> QED
  BY <1>3 DEF Forward

LEMMA LoopIsOneBack == Position("trades_after") = 14 /\ Position("orders_after") = 13
<1>1. Order[13] = "orders_after" /\ Order[14] = "trades_after"
  BY DEF Order
<1> QED
  BY <1>1, PositionIs

(* A round of polling costs two of what is left, and gives one back.       *)
LEMMA ForwardIsNearer ==
  ASSUME NEW r \in DOMAIN run, GoesForward(r),
         run[r].tries \in 0..MaxReads, run'[r].tries \in 0..MaxReads
  PROVE  Left(run'[r]) < Left(run[r])
<1> DEFINE p == Position(run[r].at)
           q == Position(run'[r].at)
           t == run[r].tries
           u == run'[r].tries
<1>1. Left(run[r]) = 2 * (MaxReads - t) + Len(Order) - p
      /\ Left(run'[r]) = 2 * (MaxReads - u) + Len(Order) - q
  BY DEF Left, Position
<1>2. Len(Order) = 16 /\ MaxReads \in Nat /\ t \in 0..MaxReads /\ u \in 0..MaxReads
  BY OrdersAssumption DEF Order
<1>3. p \in 1..16 /\ q \in 1..16 /\ ((p < q /\ t <= u) \/ (p = 14 /\ q = 13 /\ u = t + 1))
  BY ForwardIsLater, LoopIsOneBack DEF GoesForward
<1> HIDE DEF p, q, t, u
<1> QED
  BY <1>1, <1>2, <1>3

LEMMA StepIsNearer ==
  ASSUME IInv, Next, NEW s \in DOMAIN run
  PROVE  run'[s] = run[s] \/ run'[s].at = "end" \/ Left(run'[s]) < Left(run[s])
<1>1. Kinds
  BY StepIsOfAKind
<1>2. ASSUME NEW r \in DOMAIN run, Continues(r) \/ Ends(r) \/ Reserves(r) \/ Records(r) \/ Places(r)
      PROVE  run'[s] = run[s] \/ run'[s].at = "end" \/ Left(run'[s]) < Left(run[s])
  <2>1. CASE s # r
    BY <1>2, <2>1 DEF Continues, Ends, Leaves, Reserves, Records, Places, Changes
  <2>2. CASE s = r /\ Ends(r)
    BY <2>2 DEF Ends, Leaves
  <2>3. CASE s = r /\ ~ Ends(r) /\ run'[r].at # "end"
    <3>1. RunTyped(r)
      BY DEF IInv, RunInv, RunSound
    <3>2. GoesForward(r) /\ run'[r].tries \in 0..MaxReads
      <4>1. CASE Continues(r)
        BY <4>1 DEF Continues
      <4>2. CASE Reserves(r)
        <5>1. run'[r].tries = run[r].tries
          BY <4>2 DEF Reserves, Changes, Fields
        <5> QED
          BY <3>1, <4>2, <5>1, OrdersAssumption DEF Reserves, RunTyped, GoesForward, Forward
      <4>3. CASE Records(r)
        <5>1. run'[r].tries = run[r].tries
          BY <4>3 DEF Records, Changes, Fields
        <5> QED
          BY <3>1, <4>3, <5>1, OrdersAssumption DEF Records, RunTyped, GoesForward, Forward
      <4>4. CASE Places(r)
        BY <2>3, <3>1, <4>4, OrdersAssumption DEF Places, RunTyped, GoesForward, Forward
      <4> QED
        BY <1>2, <2>3, <4>1, <4>2, <4>3, <4>4
    <3>3. run[r].tries \in 0..MaxReads
      BY <3>1 DEF RunTyped
    <3> QED
      BY <2>3, <3>2, <3>3, ForwardIsNearer
  <2> QED
    BY <2>1, <2>2, <2>3
<1>3. ASSUME NEW r \in Runs \ DOMAIN run, NEW kind, Starts(r, kind)
      PROVE  run'[s] = run[s]
  BY <1>3 DEF Starts
<1>4. CASE World
  BY <1>4 DEF World
<1> QED
  BY <1>1, <1>2, <1>3, <1>4 DEF Kinds

(* Each step of a command brings it nearer to its end, for any limit of    *)
(* the polling: no command goes on for ever.                               *)
THEOREM CommandsComeToAnEnd == Spec => StepsComeNearerToTheEnd
<1> DEFINE Nearer == \A r \in DOMAIN run :
                       run'[r] = run[r] \/ run'[r].at = "end" \/ Left(run'[r]) < Left(run[r])
<1>1. IInv /\ [Next]_vars => [Nearer]_vars
  BY StepIsNearer
<1> QED
  BY <1>1, Invariance, PTL DEF Spec, StepsComeNearerToTheEnd

-----------------------------------------------------------------------------
(* The commands implement OneShotApproval.                                 *)

SpentOnes == {kind \in Orders : caps[kind].state # "none"}
SentUnder == [kind \in Orders |-> Cardinality({r \in sent : run[r].kind = kind})]

LEMMA SentIsCounted ==
  ASSUME IInv, sent' = sent, \A r \in sent : run'[r].kind = run[r].kind
  PROVE  SentUnder' = SentUnder
<1>1. \A kind \in Orders : {r \in sent' : run'[r].kind = kind} = {r \in sent : run[r].kind = kind}
  OBVIOUS
<1> QED
  BY <1>1 DEF SentUnder

LEMMA SpendingShows ==
  ASSUME IInv, NEW kind \in Orders, caps[kind].state = "none", NEW cap, cap.state # "none",
         caps' = [caps EXCEPT ![kind] = cap]
  PROVE  kind \notin SpentOnes /\ SpentOnes' = SpentOnes \cup {kind}
BY DEF IInv, CapInv, SpentOnes

LEMMA RewritingHides ==
  ASSUME IInv, NEW kind \in Orders, caps[kind].state # "none", NEW cap, cap.state # "none",
         caps' = caps \/ caps' = [caps EXCEPT ![kind] = cap]
  PROVE  SpentOnes' = SpentOnes
BY DEF IInv, CapInv, SpentOnes

OneShotNext ==
  \/ UNCHANGED <<SpentOnes, SentUnder>>
  \/ \E a \in Orders : /\ a \notin SpentOnes /\ SpentOnes' = SpentOnes \cup {a}
                       /\ SentUnder' = SentUnder
  \/ \E a \in Orders : /\ a \in SpentOnes /\ SentUnder[a] = 0
                       /\ SentUnder' = [SentUnder EXCEPT ![a] = 1] /\ SpentOnes' = SpentOnes

(* The order is the one its approval allows.                               *)
LEMMA PlacingSends ==
  ASSUME IInv, NEW r \in DOMAIN run, Places(r)
  PROVE  OneShotNext
<1> USE DEF IInv
<1>1. run[r].kind \in Orders /\ r \notin sent /\ r \in Granted
  BY DEF RunInv, RunSound, RunTyped, Places, StepsOf, CancelSteps, Afterwards, Orders, Granted
<1>2. sent' = sent \cup {r} /\ caps' = caps /\ \A s \in sent \cup {r} : run'[s].kind = run[s].kind
  BY DEF Places, Changes, Fields, RunInv
<1>3. run[r].kind \in SpentOnes /\ SpentOnes' = SpentOnes
  BY <1>1, <1>2 DEF CapInv, SpentOnes
<1>4. {s \in sent : run[s].kind = run[r].kind} = {}
  BY <1>1 DEF CapInv, Granted
<1>5. {s \in sent' : run'[s].kind = run[r].kind} = {r}
  BY <1>2, <1>4
<1>6. \A kind \in Orders : kind # run[r].kind =>
        {s \in sent' : run'[s].kind = kind} = {s \in sent : run[s].kind = kind}
  BY <1>2
<1>7. SentUnder[run[r].kind] = 0
  BY <1>1, <1>4, FS_EmptySet DEF SentUnder
<1>8. SentUnder' = [SentUnder EXCEPT ![run[r].kind] = 1]
  <2>1. Cardinality({r}) = 1
    BY FS_Singleton
  <2> QED
    BY <1>1, <1>5, <1>6, <2>1 DEF SentUnder
<1> QED
  BY <1>1, <1>3, <1>7, <1>8 DEF OneShotNext

LEMMA StepIsOneShot ==
  ASSUME IInv, Next
  PROVE  OneShotNext
<1>1. Kinds
  BY StepIsOfAKind
<1>2. ASSUME NEW r \in DOMAIN run, Continues(r)
      PROVE  OneShotNext
  <2>1. caps' = caps /\ sent' = sent /\ \A s \in sent : run'[s].kind = run[s].kind
    BY <1>2 DEF Continues, Changes, Fields, IInv, RunInv
  <2>2. SpentOnes' = SpentOnes
    BY <2>1 DEF SpentOnes
  <2> QED
    BY <2>1, <2>2, SentIsCounted DEF OneShotNext
<1>3. ASSUME NEW r \in DOMAIN run, Ends(r)
      PROVE  OneShotNext
  <2>1. sent' = sent /\ \A s \in sent : run'[s].kind = run[s].kind
    BY <1>3 DEF Ends, Leaves, Changes, Fields, IInv, RunInv
  <2>2. SentUnder' = SentUnder
    BY <2>1, SentIsCounted
  <2> DEFINE lost == [state |-> "torn", order |-> 0]
  <2>3. lost.state # "none" /\ Recorded(r).state # "none"
    BY DEF Recorded
  <2>4. run[r].at \in {"reserve", "update"} => run[r].kind \in Orders
    BY DEF IInv, RunInv, RunSound, RunTyped, StepsOf, CancelSteps, Orders
  <2>5. run[r].at = "update" => caps[run[r].kind].state # "none"
    BY DEF IInv, RunInv, RunSound, RunTyped, CapInv, Granted, Afterwards
  <2>6. \/ caps' = caps
        \/ /\ run[r].at = "reserve" /\ caps[run[r].kind].state = "none"
           /\ caps' = [caps EXCEPT ![run[r].kind] = lost]
        \/ run[r].at = "update" /\ caps' = [caps EXCEPT ![run[r].kind] = Recorded(r)]
        \/ run[r].at = "update" /\ caps' = [caps EXCEPT ![run[r].kind] = lost]
    BY <1>3 DEF Ends
  <2> HIDE DEF lost
  <2>7. CASE caps' = caps
    BY <2>2, <2>7 DEF OneShotNext, SpentOnes
  <2>8. CASE /\ run[r].at = "reserve" /\ caps[run[r].kind].state = "none"
             /\ caps' = [caps EXCEPT ![run[r].kind] = lost]
    BY <2>2, <2>3, <2>4, <2>8, SpendingShows DEF OneShotNext
  <2>9. CASE run[r].at = "update" /\ caps' = [caps EXCEPT ![run[r].kind] = Recorded(r)]
    BY <2>2, <2>3, <2>4, <2>5, <2>9, RewritingHides DEF OneShotNext
  <2>10. CASE run[r].at = "update" /\ caps' = [caps EXCEPT ![run[r].kind] = lost]
    BY <2>2, <2>3, <2>4, <2>5, <2>10, RewritingHides DEF OneShotNext
  <2> QED
    BY <2>6, <2>7, <2>8, <2>9, <2>10
<1>4. ASSUME NEW r \in DOMAIN run, Reserves(r)
      PROVE  OneShotNext
  <2>1. sent' = sent /\ \A s \in sent : run'[s].kind = run[s].kind
    BY <1>4 DEF Reserves, Changes, Fields, IInv, RunInv
  <2> DEFINE reserved == [state |-> "reserved", order |-> 0]
  <2>2. /\ run[r].kind \in Orders /\ caps[run[r].kind].state = "none" /\ reserved.state # "none"
        /\ caps' = [caps EXCEPT ![run[r].kind] = reserved]
    BY <1>4 DEF Reserves, MayReserve, IInv, RunInv, RunSound, RunTyped, StepsOf, CancelSteps, Orders
  <2> HIDE DEF reserved
  <2>3. run[r].kind \notin SpentOnes /\ SpentOnes' = SpentOnes \cup {run[r].kind}
    BY <2>2, SpendingShows
  <2> QED
    BY <2>1, <2>2, <2>3, SentIsCounted DEF OneShotNext
<1>5. ASSUME NEW r \in DOMAIN run, Records(r)
      PROVE  OneShotNext
  <2>1. sent' = sent /\ \A s \in sent : run'[s].kind = run[s].kind
    BY <1>5 DEF Records, Changes, Fields, IInv, RunInv
  <2> DEFINE lost == [state |-> "torn", order |-> 0]
  <2>2. lost.state # "none" /\ Recorded(r).state # "none"
    BY DEF Recorded
  <2>3. run[r].kind \in Orders /\ caps[run[r].kind].state # "none"
    BY <1>5 DEF Records, IInv, RunInv, RunSound, RunTyped, CapInv, Granted, Afterwards
  <2>4. \/ caps' = caps \/ caps' = [caps EXCEPT ![run[r].kind] = Recorded(r)]
        \/ caps' = [caps EXCEPT ![run[r].kind] = lost]
    BY <1>5 DEF Records
  <2> HIDE DEF lost
  <2>5. SpentOnes' = SpentOnes
    BY <2>2, <2>3, <2>4, RewritingHides
  <2> QED
    BY <2>1, <2>5, SentIsCounted DEF OneShotNext
<1>6. ASSUME NEW r \in Runs \ DOMAIN run, NEW kind, Starts(r, kind)
      PROVE  OneShotNext
  <2>1. caps' = caps /\ sent' = sent /\ \A s \in sent : run'[s].kind = run[s].kind
    BY <1>6 DEF Starts, files, IInv, RunInv
  <2>2. SpentOnes' = SpentOnes
    BY <2>1 DEF SpentOnes
  <2> QED
    BY <2>1, <2>2, SentIsCounted DEF OneShotNext
<1>7. CASE World
  BY <1>7 DEF World, OneShotNext, SpentOnes, SentUnder
<1> QED
  BY <1>1, <1>2, <1>3, <1>4, <1>5, <1>6, <1>7, PlacingSends DEF Kinds

(* The cap files and the orders sent implement OneShotApproval: an         *)
(* approval is spent before its order is sent, stays spent, and no second  *)
(* order is sent.                                                          *)
THEOREM ApprovalsWorkOnce == Spec => ApprovalsAreOneShot
<1>1. Init => Approval!Init
  <2>1. Init => SpentOnes = {}
    BY DEF Init, SpentOnes, NoCap
  <2>2. Init => SentUnder = [a \in Orders |-> 0]
    <3>1. Init => \A kind \in Orders : {r \in sent : run[r].kind = kind} = {}
      BY DEF Init
    <3> QED
      BY <3>1, FS_EmptySet DEF SentUnder
  <2> QED
    BY <2>1, <2>2 DEF Approval!Init, SpentOnes, SentUnder
<1>2. OneShotNext => [Approval!Next]_<<SpentOnes, SentUnder>>
  BY DEF OneShotNext, Approval!Next, Approval!Spend, Approval!Send, SpentOnes, SentUnder
<1>3. IInv /\ [Next]_vars => [Approval!Next]_<<SpentOnes, SentUnder>>
  <2>1. UNCHANGED vars => UNCHANGED <<SpentOnes, SentUnder>>
    BY DEF vars, cmdVars, SpentOnes, SentUnder
  <2> QED
    BY <1>2, <2>1, StepIsOneShot
<1> QED
  BY <1>1, <1>3, Invariance, PTL DEF Spec, ApprovalsAreOneShot, Approval!Spec, SpentOnes, SentUnder
=============================================================================
