---------------------------- MODULE QuoteSession ----------------------------
(***************************************************************************)
(* One LA6 quote session of src/main.rs (run_live_alpha_quote_manager_     *)
(* command, run_la6_live_quote_manager_session): one post-only order that  *)
(* the quote manager decides to place and, six seconds later, to cancel.   *)
(* It shares the account, the journal, the readbacks, the submit, the      *)
(* cancel retries and the cleanup with LA5 (MakerMicroSession), whose      *)
(* steps it uses under their own names; what differs is written here.      *)
(*                                                                         *)
(* An LA6 approval names the trades the account had when it was signed,    *)
(* and is good for that account only.                                      *)
(***************************************************************************)
EXTENDS MakerMicroSession

VARIABLE approved      \* approval -> the account's trades when it was signed

Manager == INSTANCE QuoteManager WITH
  MaxSubmitRate <- 1, MaxCancelRate <- 1, MaxReplacementRate <- 1, MaxReplacements <- 1,
  MaxLiveOrders <- 1, LeaveOpenInWindow <- FALSE

(* A person reads a flat account and signs an approval for it. *)
Approve(a) ==
  /\ a \notin DOMAIN approved
  /\ ReadbackPassed(OpenOrders, trades)
  /\ approved' = With(approved, a, DOMAIN trades)
  /\ UNCHANGED vars

BugAsApproved(seenTrades, signed) == TRUE
(* validate_la6_approval_against_account_readback compares the numbers of  *)
(* trades; balances and the allowance are compared as well.                *)
AsApproved(seenTrades, signed) == Cardinality(seenTrades) = Cardinality(signed)

-----------------------------------------------------------------------------
(* The command: its own readback, then the cap file.  A refusal before     *)
(* that leaves no trace.                                                   *)
Refused == pc' = "idle" /\ run' = NoRun /\ n' = 0 /\ UNCHANGED ended

StartQuoteSession(a) ==
  /\ pc = "idle"
  /\ a \in DOMAIN approved
  /\ ~ torn                       \* require_la6_journal_preflight
  /\ pc' = "command.orders" /\ run' = a /\ n' = 1
  /\ seen' = Nothing
  /\ attempts' = 0
  /\ UNCHANGED <<venueVars, diskVars, historyVars>>

CommandReads ==
  \/ Read("command.orders", "open", OpenOrders, Goto("command.trades"), Refused)
  \/ Read("command.trades", "trades", trades, Goto("command"), Refused)

ReserveCap ==
  /\ pc = "command"
  /\ \/ /\ Flat /\ AsApproved(DOMAIN seen.trades, approved[run])
        /\ CapFree(run)
        /\ caps' = caps \cup {run}
        /\ Goto("quote.opening")
     \/ Refused /\ UNCHANGED caps
  /\ KeepSeen /\ KeepAttempts
  /\ UNCHANGED <<venueVars, journal, torn, balanceAtStart, submits, cancelSent, recovery>>

(* The journal is replayed again, and QuoteManagerStarted appended. *)
QuoteOpening ==
  /\ pc = "quote.opening"
  /\ Log({}, ~ torn /\ Goto("initial.orders"), End("failed"))

QuoteInitialReadback ==
  /\ pc = "initial"
  /\ \/ /\ Flat /\ AsApproved(DOMAIN seen.trades, approved[run])
        /\ Goto("quote.risk")
        /\ seen' = [seen EXCEPT !.baseline = DOMAIN seen.trades]
     \/ End("failed") /\ KeepSeen
  /\ KeepAttempts
  /\ UNCHANGED <<venueVars, diskVars, submits, cancelSent, recovery>>

-----------------------------------------------------------------------------
(* The two ticks of the quote manager: la6_quote_tick_from_live_market.    *)
(* Rates and used-up replacements are always zero there, and no proposal   *)
(* goes into the second.                                                   *)
LiveTick(window, dataFresh, expired, proposal, quotes) ==
  [sessionExpired |-> expired, reconciled |-> TRUE, heartbeatFresh |-> TRUE,
   marketOpen |-> TRUE, dataFresh |-> dataFresh, cooldown |-> FALSE, window |-> window,
   submits |-> 0, cancels |-> 0, replacements |-> 0, openOrders |-> Len(quotes), used |-> 0,
   proposal |-> proposal, quotes |-> quotes]
PlaceTicks == {LiveTick(w, f, FALSE, p, << >>) :
                 w \in BOOLEAN, f \in BOOLEAN, p \in {"weak", "crossing", "sound"}}
(* Six seconds later, or after the ttl if that is less, the book seen at   *)
(* the start is stale or the quote is past its ttl.                        *)
OpenQuote == [exact |-> TRUE, ttlExpired |-> TRUE, young |-> FALSE, improved |-> FALSE,
              reasons |-> {}]
CancelTicks == {LiveTick(w, f, e, "none", << OpenQuote >>) :
                  w \in BOOLEAN, f \in BOOLEAN, e \in BOOLEAN}
CancelDecision(tick) == Manager!OnQuote(tick, OpenQuote, Manager!NoUsage)

(* Market selection, risk engine, plan checks and the first tick.          *)
QuoteRisk ==
  \/ /\ pc = "quote.risk"
     /\ \E tick \in PlaceTicks : Manager!OnNone(tick) = "Place"
     /\ Log(Note("QuotePlanned"), Goto("submit"), End("failed"))
  \/ Step("quote.risk", End("failed"))      \* MakerRiskRejected, or a "Skip"
  \/ pc = "quote.risk" /\ Log(Note("MakerRiskHalt"), End("failed"), End("failed"))

QuotePlaced ==
  pc = "accepted" /\ Log(OrderNote("QuotePlaced"), Goto("post.trades"), AfterAcceptFailed)

(* append_la6_reconciliation_event *)
QuoteReconciliationNote(passes) ==
  IF passes THEN {}
  ELSE {[Event(run, "QuoteReconciliationResult", Current, Current) EXCEPT !.status = "failed"]}

QuotePostReconcile ==
  /\ pc = "post"
  /\ Log(QuoteReconciliationNote(OrderReconciles(FALSE)),
         IF OrderReconciles(FALSE) THEN Goto("quote.latest") ELSE AfterAcceptFailed,
         AfterAcceptFailed)

QuoteReadLatest ==
  Read("quote.latest", "order", ExactOrder, Goto("decide"), AfterAcceptFailed)

(* An open order is canceled if the second tick says so, by exact id.      *)
Decide ==
  \/ Step("decide", seen.order.status # "live" /\ Goto("quote.heartbeat"))
  \/ /\ pc = "decide" /\ seen.order.status = "live"
     /\ \E tick \in CancelTicks : CancelDecision(tick) \in {"Cancel", "Expire"}
     /\ Log(OrderNote("QuoteCancelRequested"), Goto("cancel"), AfterAcceptFailed)
  \/ Step("decide", /\ seen.order.status = "live"
                    /\ \E tick \in CancelTicks : CancelDecision(tick) \notin {"Cancel", "Expire"}
                    /\ AfterAcceptFailed)

QuoteCanceled ==
  pc = "canceled"
  /\ Log(OrderNote("QuoteCancelConfirmed"), Goto("quote.heartbeat"), End("failed"))

QuoteHeartbeat == Step("quote.heartbeat", Goto("final.exact") \/ End("failed"))

(* Fills are not recorded, only told of in QuoteManagerStopped. *)
QuoteFinalReconcile ==
  LET passes == OrderReconciles(TRUE) IN
  /\ pc = "filled"
  /\ Log(QuoteReconciliationNote(passes),
         IF passes /\ seen.open = {} THEN Goto("stopping") ELSE End("failed"),
         End("failed"))

QuoteStopping == StopWith(Outcome("QuoteManagerStopped"))

QuoteAppending == {"quote.opening", "quote.risk", "decide"}
QuoteStep ==
  \/ CommandReads \/ ReserveCap \/ QuoteOpening
  \/ ReadOpenOrders \/ ReadTrades \/ ReadExact
  \/ QuoteInitialReadback \/ QuoteRisk \/ Submit \/ Rejected
  \/ QuotePlaced \/ QuotePostReconcile \/ QuoteReadLatest \/ Decide
  \/ Cancel \/ CancelFailed \/ QuoteCanceled \/ QuoteHeartbeat
  \/ QuoteFinalReconcile \/ QuoteStopping \/ Cleanup \/ CleanupNote

QuotePcs == {"command.orders", "command.trades", "command", "quote.opening", "quote.risk",
             "quote.latest", "decide", "quote.heartbeat"}
=============================================================================
