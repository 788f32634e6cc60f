---------------------------- MODULE CanaryOrders ----------------------------
(***************************************************************************)
(* The one-shot live commands of src/main.rs, each a process of its own    *)
(* that an operator starts: the LA3 fill canary, the LB6 canary and its    *)
(* exact cancel, the LA7 taker canary.  They share the venue account, the  *)
(* LA3 journal, one cap file for each approval and the taker's baseline.   *)
(*                                                                         *)
(* A run is numbered; the order it sends carries its number.  Files fail   *)
(* to be written or are left torn, answers of the venue are lost, a run    *)
(* crashes at any step: at most MaxFaults runs meet one such fault.  The   *)
(* balance, the markets and the wording of reports are left out.           *)
(***************************************************************************)
EXTENDS LiveVenue, LiveReconciliation, TakerGate

CONSTANTS
  MaxOrders,        \* commands that send an order; one cancel may follow them
  MaxFaults,        \* runs that meet a fault
  MaxTrades,        \* trades of the account after which resting orders trade no more
  MaxReads,         \* LA7_POST_SUBMIT_READBACK_MAX_ATTEMPTS
  FillApproval, FillMarkets,     \* the LA3 approval; the books it may meet
  CanaryPlan,                    \* the LB6 plan
  TakerApproval, Quotes,         \* the LA7 approval; the books it may meet
  AgeLimits, Now, Funds,
  PageLimit, RequiredCollateral, CanaryNotional,
  NoBaseline

(* Each order is the one of a run, of the size of the taker approval.      *)
ASSUME OrdersAssumption == MaxOrders \in Nat /\ MaxReads \in Nat /\ Intents = 1..MaxOrders
ASSUME TakerAssumption ==
  /\ TakerApproval.size = OrderSize /\ TakerApproval.notional \in Nat
  /\ One \in Nat
  /\ \A quote \in Quotes : quote.asks # << >> => quote.asks[1].price \in Nat

Gates == INSTANCE CanaryGates
Readback == INSTANCE AccountReadback

VARIABLES
  hidden,     \* trades the readback does not list yet
  caps,       \* the cap file of each kind of order: [state, order]
  torn,       \* the LA3 journal ends in an incomplete line and no longer replays
  baseline,   \* the trades of the account when the taker's baseline was captured
  run,        \* number -> what the command has read and where it stands
  sent,       \* history: the runs that sent an order
  reports,    \* run -> status of its LA7 live report
  faults      \* run -> the fault it met: a call failed, or the run was cut short

cmdVars == <<hidden, caps, torn, baseline, run, sent, reports, faults>>
vars == <<venueVars, cmdVars>>
files == <<caps, torn, baseline, reports>>

Orders == {"fill", "canary", "taker"}
Runs == 1..(MaxOrders + 1)
NoCap == [state |-> "none", order |-> 0]

Init ==
  /\ VenueInit
  /\ hidden = {} /\ torn = FALSE
  /\ caps = [kind \in Orders |-> NoCap]
  /\ baseline = NoBaseline
  /\ run = << >> /\ sent = {} /\ reports = << >> /\ faults = << >>

Active == {r \in DOMAIN run : run[r].at # "end"}
At(r, steps) == r \in Active /\ run[r].at \in steps
Is(r, kinds) == run[r].kind \in kinds

(* A step of run r: the fields of it that change. *)
Updated(record, fields) ==
  [x \in DOMAIN record \cup DOMAIN fields |-> IF x \in DOMAIN fields THEN fields[x] ELSE record[x]]
Go(r, fields) == run' = [run EXCEPT ![r] = Updated(@, fields)]
Blank == [open |-> << >>, listed |-> {}, capError |-> FALSE]
Over(r, verdict, keeps) ==
  Go(r, Updated(Blank,
       [at |-> "end", verdict |-> verdict,
        kind |-> IF keeps THEN run[r].kind ELSE "none",
        limit |-> IF keeps THEN run[r].limit ELSE 0,
        target |-> IF verdict = "canceled" THEN run[r].target ELSE 0,
        why |-> {}, tries |-> 0]))
End(r, verdict) == Over(r, verdict, r \in sent \/ verdict = "canceled")
Fails(r, fault) ==
  /\ r \notin DOMAIN faults /\ Cardinality(DOMAIN faults) < MaxFaults
  /\ faults' = With(faults, r, fault)

-----------------------------------------------------------------------------
(* Starting, and reading the account.                                      *)

(* The taker wants the baseline and the report of a passed dry run.  The   *)
(* cancel comes last, when nothing else runs, and names any open order.    *)
Start(kind, target) ==
  LET r == Cardinality(DOMAIN run) + 1 IN
  /\ r \in Runs /\ Cardinality(Active) < 2
  /\ IF kind = "cancel" THEN r > MaxOrders /\ Active = {} ELSE r <= MaxOrders
  /\ kind = "taker" => baseline # NoBaseline
  /\ run' = With(run, r, Updated(Blank,
       [kind |-> kind, target |-> target, verdict |-> "none", answer |-> "none",
        at |-> IF kind = "cancel" THEN "look" ELSE "orders",
        tries |-> 0, limit |-> 0, why |-> {}]))
  /\ UNCHANGED <<venueVars, hidden, files, sent, faults>>

Visible == [t \in DOMAIN trades \ hidden |-> trades[t]]
OpenNow == [o \in OpenOrders |-> orders[o].matched]

(* The open orders are read first, the trades afterwards. *)
ReadOrders(r) ==
  /\ At(r, {"orders", "orders_after"})
  /\ Go(r, [at |-> IF run[r].at = "orders" THEN "trades" ELSE "trades_after", open |-> OpenNow])
  /\ UNCHANGED <<venueVars, hidden, files, sent, faults>>

(* A command that fails before anything is sent, for whatever reason, has  *)
(* done nothing.  A request that fails afterwards ends the LA3 command and *)
(* blocks the LA7 report.                                                  *)
Unsent == {"orders", "trades", "approved", "reserve", "look"}
Stops(r) == At(r, Unsent) /\ End(r, "stopped")
ReadFails(r) ==
  /\ At(r, {"orders_after", "trades_after"})
  /\ IF Is(r, {"taker"})
     THEN Go(r, [at |-> "report", verdict |-> IF run[r].capError THEN "submitted_cap_update_blocked"
                                              ELSE "submitted_post_check_blocked", open |-> << >>])
     ELSE End(r, "stopped")
Quits(r) ==
  /\ Stops(r) \/ ReadFails(r)
  /\ UNCHANGED <<venueVars, hidden, files, sent, faults>>

(* The readback as a report: what was read, the reasons it blocks, what    *)
(* the open orders reserve.                                                *)
AccountOf(open, seen) ==
  [venue |-> "trading_enabled", balance |-> Funds, allowance |-> Funds,
   orders |-> [o \in DOMAIN open |-> [status |-> "live", buy |-> TRUE, price |-> 1, ours |-> TRUE,
                                      left |-> OrderSize - open[o]]],
   trades |-> [t \in DOMAIN seen |-> [status |-> seen[t].status, order |-> seen[t].order,
                                      hash |-> TRUE, ours |-> TRUE]]]
ReadbackOf(open, seen) ==
  [open |-> open, trades |-> seen,
   reasons |-> Readback!ReadbackReasons({}, AccountOf(open, seen)),
   reserved |-> Readback!Reserved(AccountOf(open, seen).orders)]
Balance(read) ==
  [open |-> DOMAIN read.open, reserved |-> read.reserved, available |-> Funds - read.reserved]

(* reconcile_live_state_with_account_baseline: trades of the baseline are  *)
(* nobody's.                                                               *)
BaselineMismatches(order, own, read) ==
  LET local == [known |-> {order} \cap DOMAIN read.open, canceled |-> {}, partial |-> {},
                trades |-> own \ baseline, owners |-> (own \ baseline) \X {order},
                balance |-> NoBalance, tokens |-> {}, positions |-> {}]
      venue == [orders |-> [o \in DOMAIN read.open |->
                              IF read.open[o] > 0 THEN "PartiallyFilled" ELSE "Live"],
                trades |-> [t \in DOMAIN read.trades \ baseline |-> read.trades[t]],
                balance |-> NoBalance, positions |-> {}]
  IN Mismatches(local, venue, TRUE)

(* evaluate_la7_live_baseline_binding. *)
BindingReasons(read) ==
  When("current_readback_not_passed", read.reasons # {})
  \cup When("current_open_orders_nonzero", read.open # << >>)
  \cup When("current_reserved_pusd_nonzero", read.reserved # 0)
  \cup When("baseline_trade_missing_from_current_readback",
            ~ baseline \subseteq DOMAIN read.trades)

(* build_live_alpha_taker_canary_gate_report. *)
TakerFacts(read) ==
  When("baseline_not_ready", BindingReasons(read) # {})
  \cup When("reconciliation_not_clean", BaselineMismatches(0, {}, read) # {})
TakerDecisions ==
  [facts \in SUBSET {"baseline_not_ready", "reconciliation_not_clean"} |->
     [quote \in Quotes |-> GateDecision(facts, quote, TakerApproval.size)]]
TakerMaySubmit(decision) ==
  /\ ApprovalFitsConfig(TakerApproval, TakerApproval.cutoff)
  /\ DecisionFitsApproval(decision, TakerApproval)
  /\ SubmitShape(decision, TakerApproval)

CapConsumed(kind) == caps[kind].state \in {"reserved", "recorded"}

(* What each command requires of the account it read.  `off` is a fact     *)
(* that does not hold.                                                     *)
FillOpens(off, read, market) ==
  LET facts == off \cup When("account_preflight", read.reasons # {})
  IN /\ caps["fill"].state # "torn"
     /\ Gates!FillPreflight(facts, FillApproval, Balance(read), market, Now, AgeLimits,
                            ~ torn, CapConsumed("fill")) = {}
CanaryOpens(off, read) ==
  LET facts == off \cup When("account_preflight", read.reasons # {})
  IN /\ caps["canary"].state # "torn"
     /\ Gates!CanaryReadiness("final_gated", facts, CanaryPlan, Balance(read), Now + 1, Now,
                              AgeLimits, CapConsumed("canary")) = {}

Decide(r, opens, fields) ==
  IF opens THEN Go(r, Updated([open |-> << >>], fields)) ELSE End(r, "stopped")
ReadTrades(r) ==
  /\ At(r, {"trades"})
  /\ \E read \in {ReadbackOf(run[r].open, Visible)}, off \in {{}, {"geoblock"}} :
       \/ Is(r, {"fill"}) /\ \E market \in FillMarkets :
            Decide(r, FillOpens(off, read, market), [at |-> "approved"])
       \/ Is(r, {"canary"}) /\ Decide(r, CanaryOpens(off, read), [at |-> "reserve"])
       \/ Is(r, {"taker"}) /\ \E quote \in Quotes :
            LET decision == TakerDecisions[TakerFacts(read)][quote] IN
            Decide(r, off = {} /\ EvidenceReasons({}, quote, AgeLimits) = {}
                      /\ TakerMaySubmit(decision),
                   [at |-> "reserve", limit |-> decision.limit])
  /\ UNCHANGED <<venueVars, hidden, files, sent, faults>>

-----------------------------------------------------------------------------
(* Sending the order.                                                      *)

(* An append to the journal; one that fails may leave a torn line, and     *)
(* ends the command.                                                       *)
Log(r, next) ==
  \/ next /\ UNCHANGED <<torn, faults>>
  \/ Fails(r, "call") /\ torn' \in {torn, TRUE} /\ End(r, "stopped")
Journaling == <<venueVars, hidden, caps, baseline, reports, sent>>

LogApproved(r) ==
  /\ At(r, {"approved"})
  /\ Log(r, Go(r, [at |-> "reserve"]))
  /\ UNCHANGED Journaling

(* The cap file is created, never overwritten. *)
BugMayReserve(kind) == TRUE                     \* the file is overwritten
MayReserve(kind) == caps[kind].state = "none"
Reserve(r) ==
  LET kind == run[r].kind
      Cap(state) == caps' = [caps EXCEPT ![kind] = [state |-> state, order |-> 0]]
  IN /\ At(r, {"reserve"})
     /\ \/ /\ MayReserve(kind)
           /\ Cap("reserved")
           /\ Go(r, [at |-> IF kind = "fill" THEN "attempt" ELSE "submit"])
           /\ UNCHANGED faults
        \/ MayReserve(kind) /\ Fails(r, "call") /\ Cap("torn") /\ End(r, "stopped")
        \/ ~ MayReserve(kind) /\ End(r, "stopped") /\ UNCHANGED <<caps, faults>>
     /\ UNCHANGED <<venueVars, hidden, torn, baseline, sent, reports>>

LogAttempt(r) ==
  /\ At(r, {"attempt"})
  /\ Log(r, Go(r, [at |-> "submit"]))
  /\ UNCHANGED Journaling

(* A fill-and-kill order trades what it can at once; its trade may be      *)
(* listed in the answer and may be hidden from the readback for a while.   *)
(* The post-only order of LB6 rests, and so does a fill-and-kill order     *)
(* whose matching the venue delays.                                        *)
Submitted(r, answer, listed) ==
  /\ Go(r, [at |-> "update", answer |-> answer, listed |-> listed])
  /\ UNCHANGED faults
SubmitMatches(r) ==
  /\ Is(r, {"fill", "taker"})
  /\ \E size \in 1..OrderSize :
       LET trade == <<r, size>> IN
       /\ orders' = With(orders, r, [status |-> IF size = OrderSize THEN "matched" ELSE "canceled",
                                     matched |-> size])
       /\ trades' = With(trades, trade, [order |-> r, status |-> "Matched"])
       /\ hidden' \in {hidden, hidden \cup {trade}}
       /\ \E listed \in SUBSET {trade} : Submitted(r, "matched", listed)
  /\ UNCHANGED <<inflight, late>>
SubmitRests(r) ==
  /\ Accept(r)
  /\ Submitted(r, IF Is(r, {"canary"}) THEN "live" ELSE "delayed", {})
  /\ UNCHANGED hidden

(* The venue answers that it takes no such order; the id it answers with   *)
(* is recorded like any other, and only LA3's verdict looks at the success *)
(* it denies.                                                              *)
SubmitDeclined(r) == Submitted(r, "declined", {}) /\ UNCHANGED <<venueVars, hidden>>

(* Refused, or no answer: the LA3 journal and the LA7 report say so.       *)
Refused(r) ==
  CASE run[r].kind = "fill" -> Go(r, [at |-> "failed"])
    [] run[r].kind = "canary" -> Over(r, "stopped", TRUE)
    [] run[r].kind = "taker" -> Go(r, [at |-> "report", verdict |-> "submit_error_blocked"])
SubmitErrs(r) ==
  /\ \/ UNCHANGED <<venueVars, faults>>
     \/ LoseSubmit(r) /\ Fails(r, "call")
  /\ Refused(r)
  /\ UNCHANGED hidden

Submit(r) ==
  /\ At(r, {"submit"})
  /\ sent' = sent \cup {r}
  /\ SubmitMatches(r) \/ SubmitRests(r) \/ SubmitDeclined(r) \/ SubmitErrs(r)
  /\ UNCHANGED files

LogFailed(r) ==
  /\ At(r, {"failed"})
  /\ Log(r, End(r, "stopped"))
  /\ UNCHANGED Journaling

(* The order id goes into the cap file, which is overwritten in place.     *)
(* When that fails LA3 and LB6 stop; LA7 still reads the account back.     *)
Recorded(r) == [state |-> "recorded", order |-> r]
RecordOrder(r) ==
  LET kind == run[r].kind IN
  /\ At(r, {"update"})
  /\ \/ /\ caps' = [caps EXCEPT ![kind] = Recorded(r)]
        /\ CASE kind = "fill" -> Go(r, [at |-> "succeeded"])
             [] kind = "canary" -> End(r, "submitted")
             [] kind = "taker" -> Go(r, [at |-> "orders_after"])
        /\ UNCHANGED faults
     \/ /\ Fails(r, "call")
        /\ caps' \in {caps, [caps EXCEPT ![kind] = [state |-> "torn", order |-> 0]]}
        /\ IF kind = "taker" THEN Go(r, [at |-> "orders_after", capError |-> TRUE])
           ELSE End(r, "stopped")
  /\ UNCHANGED <<venueVars, hidden, torn, baseline, sent, reports>>

LogSucceeded(r) ==
  /\ At(r, {"succeeded"})
  /\ Log(r, Go(r, [at |-> "orders_after"]))
  /\ UNCHANGED Journaling

-----------------------------------------------------------------------------
(* After the order.                                                        *)

Matching(r, seen) ==
  {t \in DOMAIN seen : seen[t].order = r \/ t \in run[r].listed}

(* reconcile_fill_submission: neither the trades' statuses nor the         *)
(* readback's own verdict are looked at.                                   *)
Filled(r, seen) ==
  run[r].listed # {} \/ Matching(r, seen) # {} \/ run[r].answer = "matched"
FillVerdict(r, read) ==
  IF read.open # << >> \/ read.reserved # 0 THEN "ambiguous_incident_required"
  ELSE IF Filled(r, read.trades) THEN "filled_and_reconciled"
  ELSE IF run[r].answer # "declined" THEN "not_filled_canceled_expired_cleanly"
  ELSE "ambiguous_incident_required"
ReconcileFill(r) ==
  /\ At(r, {"trades_after"}) /\ Is(r, {"fill"})
  /\ \E verdict \in {FillVerdict(r, ReadbackOf(run[r].open, Visible))} :
       Log(r, End(r, verdict))
  /\ UNCHANGED Journaling

(* build_la7_taker_post_submit_report_once.  A readback blocked by nothing *)
(* but trades still pending does not count against the baseline.  An       *)
(* answer that says matched or lists trades is one of success.             *)
TradeMissing == "submitted_order_trade_missing_from_readback"
Pending(own, read) == own # {} /\ read.reasons = {"nonterminal_trade_status"}
PostMismatches(r, own, read) ==
  BaselineMismatches(r, run[r].listed \cup own, read)
  \cup When(TradeMissing, (run[r].answer = "matched" \/ run[r].listed # {}) /\ own = {})
  \cup (BindingReasons(read)
        \ (IF Pending(own, read) THEN {"current_readback_not_passed"} ELSE {}))
PostStatus(mismatches, pending) ==
  IF mismatches = {} THEN "passed"
  ELSE IF pending /\ mismatches = {"NonterminalVenueTradeStatus"}
       THEN "matched_pending_confirmation"
  ELSE "halt_required"

(* la7_should_poll_post_submit_readback: the account is read again while   *)
(* the trade is pending, or while that it is missing is all that is wrong. *)
BugPollsAgain(tries, status, mismatches) ==                \* without the limit
  status = "matched_pending_confirmation" \/ mismatches = {TradeMissing}
PollsAgain(tries, status, mismatches) ==
  /\ tries < MaxReads
  /\ status = "matched_pending_confirmation" \/ mismatches = {TradeMissing}

(* la7_live_post_submit_block_reasons. *)
BlockReasons(status, read) ==
  When("post_submit_readback_not_passed", read.reasons # {})
  \cup When("post_submit_reconciliation_not_passed", status # "passed")
  \cup When("post_submit_open_orders_nonzero", read.open # << >>)
  \cup When("post_submit_reserved_pusd_nonzero", read.reserved # 0)

(* A cap file that could not be updated makes any result a halt. *)
TakerVerdict(r, reasons) ==
  IF run[r].capError THEN "submitted_cap_update_blocked"
  ELSE IF reasons = {} THEN "submitted_reconciled" ELSE "submitted_post_check_blocked"
CheckTaker(r) ==
  /\ At(r, {"trades_after"}) /\ Is(r, {"taker"})
  /\ \E read \in {ReadbackOf(run[r].open, Visible)} :
     \E own \in {Matching(r, read.trades)} :
     \E mismatches \in {PostMismatches(r, own, read)} :
       LET status == PostStatus(mismatches, Pending(own, read))
           tries == IF run[r].tries < MaxReads THEN run[r].tries + 1 ELSE MaxReads
       IN IF PollsAgain(tries, status, mismatches)
          THEN Go(r, [at |-> "orders_after", tries |-> tries, open |-> << >>])
          ELSE Go(r, [at |-> "report", tries |-> tries, why |-> mismatches, open |-> << >>,
                      verdict |-> TakerVerdict(r, BlockReasons(status, read))])
  /\ UNCHANGED <<venueVars, hidden, files, sent, faults>>

BugReported(r, verdict) ==          \* an order without an answer leaves no report
  IF verdict = "submit_error_blocked" THEN reports ELSE With(reports, r, verdict)
Reported(r, verdict) == With(reports, r, verdict)
Report(r) ==
  LET verdict == run[r].verdict IN
  /\ At(r, {"report"})
  /\ \/ reports' = Reported(r, verdict) /\ End(r, verdict) /\ UNCHANGED faults
     \/ Fails(r, "cut") /\ End(r, "stopped") /\ UNCHANGED reports
  /\ UNCHANGED <<venueVars, hidden, caps, torn, baseline, sent>>

-----------------------------------------------------------------------------
(* The exact cancel of the LB6 canary.                                     *)

Names(cap, order) == cap.state = "recorded" /\ cap.order = order

OrderRead(o) == [status |-> orders[o].status, matched |-> orders[o].matched,
                 trades |-> TradesOf(o) \ hidden]
Look(r) ==
  LET o == run[r].target IN
  /\ At(r, {"look"})
  /\ \E off \in {{}, {"kill_switch_active"}} :
       IF Names(caps["canary"], o) /\ Gates!CancelReadiness(off, OrderRead(o)) = {}
       THEN Go(r, [at |-> "delete"]) ELSE End(r, "stopped")
  /\ UNCHANGED <<venueVars, hidden, files, sent, faults>>

(* The venue answers that it canceled an order that still stands for a     *)
(* moment, that it did not, or not at all.                                 *)
Delete(r) ==
  LET o == run[r].target
      open == o \in OpenOrders
      Answered(answer) == Go(r, [at |-> "look_again", why |-> answer]) /\ UNCHANGED faults
  IN /\ At(r, {"delete"})
     /\ \/ open /\ Answered(Gates!CancelAnswer({o}, {}, o, 0)) /\ (Close(o) \/ UNCHANGED venueVars)
        \/ ~ open /\ Answered(Gates!CancelAnswer({}, {o}, o, 0)) /\ UNCHANGED venueVars
        \/ Fails(r, "call") /\ End(r, "stopped") /\ (Close(o) \/ UNCHANGED venueVars)
     /\ UNCHANGED <<hidden, files, sent>>

LookAgain(r) ==
  LET outcome == Gates!CancelOutcome(run[r].why, OrderRead(run[r].target)) IN
  /\ At(r, {"look_again"})
  /\ End(r, IF outcome = {} THEN "canceled" ELSE "stopped")
  /\ UNCHANGED <<venueVars, hidden, files, sent, faults>>

-----------------------------------------------------------------------------
(* The operator's other commands and the world.                            *)

(* Once the last command is over nobody looks at the venue any more. *)
Watched ==
  \/ Active # {} \/ Cardinality(DOMAIN run) < MaxOrders
  \/ Cardinality(DOMAIN run) = MaxOrders /\ OpenOrders # {}

(* capture-account-baseline, of an account whose readback passes, and the  *)
(* dry run of the LA7 gate that the approval binds together with it.  One  *)
(* step: what happens between them makes the dry run fail.  They are made  *)
(* once, the approval names them.                                          *)
Rehearse ==
  /\ baseline = NoBaseline /\ Watched
  /\ ReadbackOf(OpenNow, Visible).reasons = {}
  /\ \E quote \in Quotes : /\ EvidenceReasons({}, quote, AgeLimits) = {}
                            /\ TakerMaySubmit(TakerDecisions[{}][quote])
  /\ baseline' = DOMAIN Visible
  /\ UNCHANGED <<venueVars, hidden, caps, torn, run, sent, reports, faults>>

VenueMoves ==
  /\ Watched /\ VenueStep
  /\ trades' = trades \/ DOMAIN trades' = DOMAIN trades \/ Cardinality(DOMAIN trades) < MaxTrades
  /\ UNCHANGED <<hidden, files, run, sent, faults>>

Show(t) ==
  /\ Watched /\ hidden' = hidden \ {t}
  /\ UNCHANGED <<venueVars, files, run, sent, faults>>

Crash(r) ==
  /\ run[r].at \notin Unsent
  /\ Fails(r, "cut")
  /\ End(r, "stopped")
  /\ UNCHANGED <<venueVars, hidden, files, sent>>

Step(r) ==
  \/ Quits(r) \/ ReadOrders(r) \/ ReadTrades(r)
  \/ LogApproved(r) \/ Reserve(r) \/ LogAttempt(r) \/ Submit(r) \/ LogFailed(r)
  \/ RecordOrder(r) \/ LogSucceeded(r) \/ ReconcileFill(r) \/ CheckTaker(r) \/ Report(r)
  \/ Look(r) \/ Delete(r) \/ LookAgain(r)

Next ==
  \/ \E kind \in Orders : Start(kind, 0)
  \/ \E o \in OpenOrders : Start("cancel", o)
  \/ \E r \in Active : Step(r) \/ Crash(r)
  \/ Rehearse
  \/ VenueMoves
  \/ \E t \in hidden : Show(t)

Spec == Init /\ [][Next]_vars

-----------------------------------------------------------------------------
Steps == {"orders", "trades", "approved", "reserve", "attempt", "submit", "failed", "update",
          "succeeded", "orders_after", "trades_after", "report", "look", "delete", "look_again",
          "end"}
Verdicts == {"none", "stopped", "submitted", "canceled",
             "filled_and_reconciled", "not_filled_canceled_expired_cleanly",
             "ambiguous_incident_required", "submitted_reconciled", "submitted_post_check_blocked",
             "submitted_cap_update_blocked", "submit_error_blocked"}

(* The venue's state is well formed; every run stands at a step of its     *)
(* command; nothing is sent, answered or recorded of a run that was never  *)
(* started.                                                                *)
TypeOK ==
  /\ VenueTypeOK /\ hidden \subseteq DOMAIN trades /\ torn \in BOOLEAN
  /\ \A kind \in Orders : caps[kind].state \in {"none", "torn", "reserved", "recorded"}
                          /\ (caps[kind].state = "recorded" => caps[kind].order \in sent)
  /\ DOMAIN run \subseteq Runs /\ sent \subseteq DOMAIN run
  /\ \A r \in DOMAIN run : run[r].at \in Steps /\ run[r].verdict \in Verdicts
                           /\ run[r].tries \in 0..MaxReads
  /\ DOMAIN reports \cup DOMAIN faults \subseteq DOMAIN run
  /\ baseline = NoBaseline \/ baseline \subseteq DOMAIN trades

(* An order the venue took is in its cap file by the time its run is over, *)
(* so that the exact cancel accepts it, unless the run met a fault: no     *)
(* other command's writing loses it.                                       *)
AcceptedOrdersAreRecorded ==
  \A r \in sent : (/\ r \in DOMAIN orders /\ r \notin DOMAIN faults
                   /\ run[r].at \notin {"update", "submit"})
                  => caps[run[r].kind] = [state |-> "recorded", order |-> r]

(* The exact cancel touches no order but the LB6 canary's, whatever order  *)
(* the operator names.                                                     *)
CancelsOnlyTheCanary ==
  \A r \in Active : run[r].at \in {"delete", "look_again"} => run[run[r].target].kind = "canary"

(* What a command reports of its order is so at the venue, and stays so,   *)
(* although it read orders and trades one after the other and the venue    *)
(* lists trades late: a canceled order is canceled, a filled one traded,   *)
(* and the trades of a matched taker order that was reported reconciled    *)
(* are confirmed.                                                          *)
VerdictsAreTrue ==
  \A r \in DOMAIN run :
    /\ run[r].verdict = "canceled" => orders[run[r].target].status = "canceled"
    /\ run[r].verdict = "filled_and_reconciled" => orders[r].matched > 0
    /\ run[r].verdict = "submitted_reconciled" =>
         r \notin OpenOrders /\ (run[r].answer = "matched" => Confirmed([t \in TradesOf(r) |-> trades[t]]))

(* A taker run that sent its order leaves a report of it, even when the    *)
(* answer was lost or the cap file could not be written: only a crash or   *)
(* a report that cannot be written excuses it.                             *)
EverySubmitIsReported ==
  \A r \in sent : (/\ run[r].kind = "taker" /\ run[r].at = "end"
                   /\ ~ (r \in DOMAIN faults /\ faults[r] = "cut"))
                  => r \in DOMAIN reports

(* An order sent leaves its traces, and only the canary's is canceled.     *)
OrdersStayTraceable ==
  TypeOK /\ AcceptedOrdersAreRecorded /\ EverySubmitIsReported /\ CancelsOnlyTheCanary

(* What a taker order pays, at the limit it was sent with, is within the   *)
(* approval, whatever quote the gate saw.                                  *)
TakerPaysWithinApproval ==
  \A r \in sent : (run[r].kind = "taker" /\ r \in DOMAIN orders)
                  => /\ orders[r].matched * run[r].limit <= TakerApproval.notional
                     /\ run[r].limit <= TakerApproval.worst

(* The approvals, as the cap files and the orders sent implement them.     *)
Approval == INSTANCE OneShotApproval WITH
  Approvals <- Orders,
  spent <- {kind \in Orders : caps[kind].state # "none"},
  sent <- [kind \in Orders |-> Cardinality({r \in sent : run[r].kind = kind})]

(* One order at most is sent under an approval, after it was spent, and a  *)
(* spent approval stays spent, whatever fails, crashes or runs at the same *)
(* time.                                                                   *)
ApprovalsAreOneShot == Approval!Spec

(* Every command ends: each of its steps brings it nearer to its end, and  *)
(* the readback after a taker order is not polled for ever.  The steps of  *)
(* a round of polling are counted back from the rounds that are left.      *)
Order == <<"look", "delete", "look_again", "orders", "trades", "approved", "reserve", "attempt",
           "submit", "failed", "update", "succeeded", "orders_after", "trades_after", "report",
           "end">>
Left(record) ==
  2 * (MaxReads - record.tries) + Len(Order) - (CHOOSE n \in DOMAIN Order : Order[n] = record.at)
StepsComeNearerToTheEnd ==
  [][\A r \in DOMAIN run : run'[r] = run[r] \/ run'[r].at = "end" \/ Left(run'[r]) < Left(run[r])
    ]_vars
=============================================================================
