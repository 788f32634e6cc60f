---------------------------- MODULE QuoteManager ----------------------------
(***************************************************************************)
(* One tick of the LA6 quote manager, src/live_quote_manager.rs:           *)
(* evaluate_quote_manager_tick looks at the account, the market and the    *)
(* clock, and says what to do about each open quote in turn, or whether to *)
(* place one when there is none.  What it decided for the quotes before    *)
(* counts against the rates of the next: a tick may hold several cancels   *)
(* and replacements.                                                       *)
(*                                                                         *)
(* Ages, prices and edges appear as the comparisons made with them; a rate *)
(* as the number of calls in the last minute.                              *)
(***************************************************************************)
EXTENDS Integers, Sequences

CONSTANTS
  MaxSubmitRate, MaxCancelRate, MaxReplacementRate,     \* per minute
  MaxReplacements,        \* for the whole approval
  MaxLiveOrders,
  LeaveOpenInWindow       \* leave_open_in_no_trade_window

(* A tick's input: what each gate compares, the calls of the last minute,  *)
(* what the approval has used up, the proposal and the open quotes.        *)
Reasons == {"FairValueMoved", "BookMovedPostOnlyUnsafe", "EdgeBelowThreshold",
            "InventoryChanged", "RiskLimitsChanged"}
Proposals == {"none", "weak", "crossing", "sound"}
Quote == [exact : BOOLEAN, ttlExpired : BOOLEAN, young : BOOLEAN, improved : BOOLEAN,
          reasons : SUBSET Reasons]
Tick == [sessionExpired : BOOLEAN, reconciled : BOOLEAN, heartbeatFresh : BOOLEAN,
         marketOpen : BOOLEAN, dataFresh : BOOLEAN, cooldown : BOOLEAN, window : BOOLEAN,
         submits : Nat, cancels : Nat, replacements : Nat,
         openOrders : Nat, used : Nat,
         proposal : Proposals, quotes : Seq(Quote)]

(* InTickExecutableUsage *)
Usage == [submits : Nat, cancels : Nat, replacements : Nat]
NoUsage == [submits |-> 0, cancels |-> 0, replacements |-> 0]

BugWithDecision(usage, decision) ==      \* an expiry is not counted as a cancel
  CASE decision = "Replace" -> [submits |-> usage.submits + 1, cancels |-> usage.cancels + 1,
                                replacements |-> usage.replacements + 1]
    [] decision = "Cancel" -> [usage EXCEPT !.cancels = @ + 1]
    [] OTHER -> usage
WithDecision(usage, decision) ==
  CASE decision = "Replace" -> [submits |-> usage.submits + 1, cancels |-> usage.cancels + 1,
                                replacements |-> usage.replacements + 1]
    [] decision \in {"Cancel", "Expire"} -> [usage EXCEPT !.cancels = @ + 1]
    [] OTHER -> usage

(* input_with_in_tick_usage *)
WithUsage(tick, usage) ==
  [tick EXCEPT !.submits = @ + usage.submits, !.cancels = @ + usage.cancels,
               !.replacements = @ + usage.replacements, !.used = @ + usage.replacements]

(* exact_order_decision: a cancel by exact id, or a halt. *)
ExactOrder(tick, quote, decision) ==
  IF tick.cancels < MaxCancelRate /\ quote.exact THEN decision ELSE "Halt"

(* The gates before any quote is looked at, in the order of the code. *)
Gate(tick) ==
  IF tick.sessionExpired \/ ~ tick.reconciled THEN "halt"
  ELSE IF ~ tick.heartbeatFresh THEN "cancel"
  ELSE IF ~ tick.marketOpen THEN "halt"
  ELSE IF ~ tick.dataFresh THEN "cancel"
  ELSE IF tick.cooldown THEN "halt"
  ELSE "evaluate"

(* evaluate_new_quote *)
NewQuote(tick) ==
  IF /\ ~ tick.window
     /\ tick.submits < MaxSubmitRate
     /\ tick.openOrders < MaxLiveOrders
     /\ tick.proposal = "sound"
  THEN "Place" ELSE "Skip"

(* The limits a replacement must keep to before its proposal is looked at. *)
MayReplace(tick) ==
  /\ tick.replacements < MaxReplacementRate
  /\ tick.used < MaxReplacements
  /\ tick.submits < MaxSubmitRate

(* What the proposal makes of a quote that should be replaced. *)
Replacement(tick, quote) ==
  LET mustGo == quote.reasons \cap {"EdgeBelowThreshold", "BookMovedPostOnlyUnsafe"} # {} IN
  IF tick.proposal \in {"none", "weak"} THEN ExactOrder(tick, quote, "Cancel")
  ELSE IF ~ quote.improved /\ ~ mustGo THEN "Leave"
  ELSE IF tick.proposal = "crossing" THEN ExactOrder(tick, quote, "Cancel")
  ELSE ExactOrder(tick, quote, "Replace")

BugExistingQuote(tick, quote) ==      \* a healthy quote stays open in the window
  IF quote.ttlExpired THEN ExactOrder(tick, quote, "Expire")
  ELSE IF quote.reasons = {} \/ quote.young THEN "Leave"
  ELSE IF tick.window THEN ExactOrder(tick, quote, "Cancel")
  ELSE IF ~ MayReplace(tick) THEN "Halt"
  ELSE Replacement(tick, quote)

(* evaluate_existing_quote *)
ExistingQuote(tick, quote) ==
  IF quote.ttlExpired THEN ExactOrder(tick, quote, "Expire")
  ELSE IF tick.window
       THEN IF LeaveOpenInWindow THEN "Leave" ELSE ExactOrder(tick, quote, "Cancel")
  ELSE IF quote.reasons = {} \/ quote.young THEN "Leave"
  ELSE IF ~ MayReplace(tick) THEN "Halt"
  ELSE Replacement(tick, quote)

(* evaluate_quote_manager_tick: the decision on one open quote, after the  *)
(* decisions counted in `usage`; and the one decision when none is open.   *)
OnQuote(tick, quote, usage) ==
  CASE Gate(tick) = "halt" -> "Halt"
    [] Gate(tick) = "cancel" -> ExactOrder(WithUsage(tick, usage), quote, "Cancel")
    [] OTHER -> ExistingQuote(WithUsage(tick, usage), quote)
OnNone(tick) == IF Gate(tick) = "evaluate" THEN NewQuote(tick) ELSE "Skip"
=============================================================================
