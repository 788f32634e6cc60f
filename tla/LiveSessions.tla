---------------------------- MODULE LiveSessions ----------------------------
(***************************************************************************)
(* Live sessions of both kinds on one account and one journal, one process *)
(* at a time: LA5 maker sessions and LA6 quote sessions in any order, each *)
(* of which may crash, with startup recoveries between them, and what the  *)
(* scale report makes of what they leave behind.                           *)
(***************************************************************************)
EXTENDS QuoteSession

CONSTANT QuoteApprovals      \* the approvals that are for LA6

ASSUME QuoteApprovalsAssumption == QuoteApprovals \subseteq Approvals

liveVars == <<vars, approved>>

LiveInit == Init /\ approved = << >>

ProcessStep ==
  /\ IF run \in QuoteApprovals THEN QuoteStep ELSE SessionStep
  /\ UNCHANGED approved

LiveNext ==
  \/ \E a \in QuoteApprovals : Approve(a) \/ (StartQuoteSession(a) /\ UNCHANGED approved)
  \/ \E a \in Approvals \ QuoteApprovals : StartSession(a) /\ UNCHANGED approved
  \/ ProcessStep
  \/ /\ CrashWhile(Appending \cup QuoteAppending) \/ RecoveryStep \/ VenueMoves
     /\ UNCHANGED approved

LiveSpec == LiveInit /\ [][LiveNext]_liveVars

-----------------------------------------------------------------------------
(* What the LA8 report (src/live_alpha_report.rs) makes of the journals of *)
(* the LA5 and LA6 sessions, and the decision it recommends.  A line "...  *)
(* stopped" is one event for each of the orders it tells of, with the      *)
(* trades and the final status of that order.  Canary reports and sums of  *)
(* money are left out; `shadowOnly` says that a shadow taker was evaluated *)
(* and neither it nor a live taker took.                                   *)
OfType(J, types) == {e \in J : e.type \in types}
FinallyCanceled(stops) == {e \in stops : e.status = "canceled"}
WasFilled(stop) == stop.trades # {} \/ stop.status = "matched"

(* apply_la5_journal: neither halts nor failed reconciliations are read.   *)
MakerMicroPart(J) ==
  LET stops == OfType(J, {"MakerMicroStopped"}) IN
  [orders |-> Cardinality(OfType(J, {"MakerOrderAccepted"})),
   fills |-> Cardinality({e \in stops : WasFilled(e)}),
   cancels |-> Cardinality(FinallyCanceled(stops)),
   halts |-> 0, mismatches |-> 0]

(* record_maker_cancel: an order is counted once, by the first event that  *)
(* tells of its end.                                                       *)
CancelsToldOf(J) ==
  OfType(J, {"QuoteCancelConfirmed", "QuoteExpired"})
  \cup FinallyCanceled(OfType(J, {"QuoteManagerStopped"}))
CountedCancels(told) == Cardinality({e.order : e \in told})

(* apply_la6_journal *)
QuoteManagerPart(J) ==
  LET stops == OfType(J, {"QuoteManagerStopped"})
      failures == {e \in OfType(J, {"QuoteReconciliationResult"}) : e.status # "passed"} IN
  [orders |-> Cardinality(OfType(J, {"QuotePlaced"})),
   fills |-> Cardinality({e \in stops : WasFilled(e)}),
   cancels |-> CountedCancels(CancelsToldOf(J)),
   halts |-> Cardinality(failures), mismatches |-> Cardinality(failures)]

(* build_live_alpha_scale_report: a journal with a line that does not      *)
(* parse makes no report.                                                  *)
Summary(makerJournal, quoteJournal) ==
  LET maker == MakerMicroPart(makerJournal)
      quote == QuoteManagerPart(quoteJournal)
  IN [field \in DOMAIN maker |-> maker[field] + quote[field]]

(* recommend, paper and live never being comparable. *)
Unsafe(live) == live.mismatches > 0 \/ live.halts > 0
Decision(paperProfit, live, missing, shadowOnly) ==
  CASE Unsafe(live) -> "NO-GO: lifecycle unsafe"
    [] ~ Unsafe(live) /\ paperProfit < 0 -> "NO-GO: negative expectancy"
    [] ~ Unsafe(live) /\ paperProfit >= 0 /\ (missing # {} \/ live.fills = 0) ->
         "HOLD: more maker-only data required"
    [] OTHER -> IF shadowOnly THEN "HOLD: taker shadow only"
                ELSE "HOLD: paper/live evidence not comparable"

-----------------------------------------------------------------------------
(* Types, and what a running process has already reserved.                 *)
LiveTypeOK ==
  /\ VenueTypeOK
  /\ pc \in Pcs \cup QuotePcs
  /\ pc \in Recovering \cup {"idle"} <=> run = NoRun
  /\ run \in caps \/ pc \in Recovering \cup {"idle", "command.orders", "command.trades", "command"}
  /\ DOMAIN approved \subseteq QuoteApprovals
  /\ \A a \in DOMAIN approved : approved[a] \subseteq DOMAIN trades
  /\ attempts \in 0..CancelRetryLimit

(* An LA6 order is submitted only over the trades its approval was signed  *)
(* for: whatever other sessions, late orders or settlements did since, it  *)
(* sees no trade the approver did not (both readbacks of the command).     *)
QuoteSubmitsAsApproved ==
  [][submits' # submits /\ run \in QuoteApprovals => DOMAIN seen.trades = approved[run]]_liveVars

(* A session of either kind reports "completed" only when its order is     *)
(* closed at the venue and all of its trades are confirmed.                *)
CompletedMeansClosed ==
  \A o \in DOMAIN orders : ended[o[1]] = "completed" =>
    orders[o].status # "live" /\ \A t \in TradesOf(o) : trades[t].status = "Confirmed"

(* The scale report, made between sessions and after their crashes, counts *)
(* no order, fill or cancel that the venue has not had, each of them once  *)
(* although several lines tell of it; over completed sessions it misses    *)
(* none.  It lets the live evidence be judged only when a maker order has  *)
(* filled, and not over a quote session whose reconciliation is on record  *)
(* as failed.                                                              *)
Scale ==
  Summary({e \in journal : e.run \notin QuoteApprovals},
          {e \in journal : e.run \in QuoteApprovals})
Traded == {o \in DOMAIN orders : orders[o].matched > 0}
VenueCanceled == {o \in DOMAIN orders : orders[o].status = "canceled"}
ReportIsTrue ==
  pc = "idle" =>
  LET scale == Scale
      traded == Cardinality(Traded)
      closed == Cardinality(VenueCanceled)
  IN /\ scale.orders <= Cardinality(DOMAIN orders)
     /\ scale.fills <= traded /\ scale.cancels <= closed
     /\ (\A a \in caps : ended[a] = "completed") =>
          scale.orders = Cardinality(DOMAIN orders) /\ scale.fills = traded /\ scale.cancels = closed
     /\ \A shadowOnly \in BOOLEAN :
          Decision(0, scale, {}, shadowOnly)
            \in {"HOLD: taker shadow only", "HOLD: paper/live evidence not comparable"} =>
              /\ \E o \in Traded : \A t \in TradesOf(o) : trades[t].status = "Confirmed"
              /\ \A e \in journal : e.type # "QuoteReconciliationResult"

(* What sessions of both kinds leave behind is true of the venue.          *)
LiveOutcomesAreReal ==
  /\ LiveTypeOK /\ AbandonedOnlyAfterCancel /\ CompletedMeansClosed /\ JournaledCancelsAreReal
  /\ ReportIsTrue

(* An approval is spent on as many orders as it allows, each journaled     *)
(* before it can be anywhere, through crashes and restarts.                *)
ApprovalsSpentInWriting == CapNeverExceeded /\ AttemptJournaledFirst
=============================================================================
