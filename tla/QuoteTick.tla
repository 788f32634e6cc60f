----------------------------- MODULE QuoteTick -----------------------------
(***************************************************************************)
(* The loop of evaluate_quote_manager_tick over the open quotes, on any    *)
(* input: one step per quote, each seeing what the ones before it used up. *)
(***************************************************************************)
EXTENDS QuoteManager, FiniteSets

CONSTANT Ticks            \* the inputs a tick may be evaluated on

VARIABLES
  tick,        \* the input
  decisions,   \* the decisions so far, in the order of the quotes
  usage        \* in_tick_usage

vars == <<tick, decisions, usage>>

Init == tick \in Ticks /\ decisions = << >> /\ usage = NoUsage

DecideNext ==
  /\ Len(decisions) < Len(tick.quotes)
  /\ LET decision == OnQuote(tick, tick.quotes[Len(decisions) + 1], usage)
     IN /\ decisions' = Append(decisions, decision)
        /\ usage' = WithDecision(usage, decision)
  /\ UNCHANGED tick

DecideNone ==
  /\ tick.quotes = << >> /\ decisions = << >>
  /\ decisions' = << OnNone(tick) >>
  /\ UNCHANGED <<tick, usage>>

Next == DecideNext \/ DecideNone

Spec == Init /\ [][Next]_vars

-----------------------------------------------------------------------------
(* What a tick tells its caller to do never takes a rate, or the number of *)
(* replacements the approval allows, beyond its limit, however many quotes *)
(* are open: nobody else counts them (input_with_in_tick_usage).           *)
Count(kinds) == Cardinality({n \in DOMAIN decisions : decisions[n] \in kinds})
Within(before, more, limit) == more = 0 \/ before + more <= limit
RatesHold ==
  /\ Within(tick.submits, Count({"Place", "Replace"}), MaxSubmitRate)
  /\ Within(tick.cancels, Count({"Cancel", "Expire", "Replace"}), MaxCancelRate)
  /\ Within(tick.replacements, Count({"Replace"}), MaxReplacementRate)
  /\ Within(tick.used, Count({"Replace"}), MaxReplacements)

(* No open quote is left alone, replaced or joined by another on grounds a *)
(* gate further up has ruled out: a session that is over or unreconciled,  *)
(* a heartbeat or data gone stale, a market not open, a cooldown, a ttl    *)
(* passed, the last minutes before the close.                              *)
Sound(t) ==
  /\ ~ t.sessionExpired /\ t.reconciled /\ t.heartbeatFresh /\ t.marketOpen
  /\ t.dataFresh /\ ~ t.cooldown
KeptOnlyWhenSound ==
  \A n \in DOMAIN decisions :
    /\ decisions[n] \in {"Leave", "Replace", "Place"} => Sound(tick)
    /\ decisions[n] \in {"Replace", "Place"} => ~ tick.window /\ tick.proposal = "sound"
    /\ decisions[n] \in {"Leave", "Replace"} =>
         ~ tick.quotes[n].ttlExpired /\ (tick.window => LeaveOpenInWindow)
=============================================================================
