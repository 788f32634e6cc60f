------------------------- MODULE MakerMicroSession -------------------------
(***************************************************************************)
(* One LA5 maker session of src/main.rs                                    *)
(* (run_live_alpha_maker_micro_live_session) against the venue, with the   *)
(* journal and the approval cap that outlive the process, and startup      *)
(* recovery, which a later process may run.  A session places up to        *)
(* MaxOrders post-only orders one after the other; each rests while        *)
(* heartbeats are posted, is read back, reconciled, canceled, read back    *)
(* and reconciled again.  Every await is a step of its own: the venue may  *)
(* fill or close orders, and the process may crash, between any two.       *)
(*                                                                         *)
(* Rate limits, the duration cap, market selection and the risk engine     *)
(* appear as free choices: they may refuse at the points where they are    *)
(* consulted.                                                              *)
(***************************************************************************)
EXTENDS LiveVenue, StartupRecovery, Sequences

CONSTANTS
  Approvals,          \* approval ids; an approval is good for one run
  MaxOrders,          \* --max-orders of every approval
  CancelRetryLimit,   \* LA5_CANCEL_RETRY_LIMIT
  NoRun

VARIABLES
  journal,       \* the events in the journal file
  torn,          \* whether the file has a line that does not parse
  caps,          \* the approvals whose cap file exists
  balanceAtStart,\* the balance snapshot the journal starts with, if any
  pc, run, n,    \* the process: where it is, for which approval and order
  seen,          \* what its last reads returned
  attempts,      \* cancel attempts for the current order
  submits,       \* history: approval -> orders submitted
  cancelSent,    \* history: orders an exact cancel was sent for
  ended,         \* history: approval -> how its session ended
  recovery       \* what the last startup recovery said

diskVars == <<journal, torn, caps, balanceAtStart>>
historyVars == <<submits, cancelSent, ended, recovery>>
vars == <<venueVars, diskVars, pc, run, n, seen, attempts, historyVars>>

(* The intents of a session are its approval and the number of the order. *)
SessionIntents == Approvals \X (1..MaxOrders)
ASSUME ApprovalsAssumption == Intents = SessionIntents /\ NoRun \notin Approvals
ASSUME LimitsAssumption == MaxOrders \in 1..3 /\ CancelRetryLimit \in Nat \ {0}

Current == <<run, n>>

Nothing == [baseline |-> {}, open |-> {}, trades |-> << >>,
            order |-> [status |-> "live", matched |-> 0, trades |-> {}],
            balance |-> NoBalance, placed |-> {}, outcomes |-> {}]

Init ==
  /\ VenueInit
  /\ journal = {}
  /\ torn = FALSE
  /\ caps = {}
  /\ balanceAtStart \in {NoBalance, [reserved |-> 0, spent |-> 0]}
  /\ pc = "idle" /\ run = NoRun /\ n = 0
  /\ seen = Nothing
  /\ attempts = 0
  /\ submits = [a \in Approvals |-> 0]
  /\ cancelSent = {}
  /\ ended = [a \in Approvals |-> "not yet"]
  /\ recovery = "none"

-----------------------------------------------------------------------------
(* Where the process goes after a step; what it held is gone when it ends. *)

Goto(next) == pc' = next /\ UNCHANGED <<run, n, ended>>
End(how) ==
  /\ pc' = "idle" /\ run' = NoRun /\ n' = 0
  /\ ended' = [ended EXCEPT ![run] = how]
KeepSeen == seen' = IF pc' = "idle" THEN Nothing ELSE seen
KeepAttempts == attempts' = IF pc' = "idle" THEN 0 ELSE attempts

(* la5_try_after_accept! *)
BugAfterAcceptFailed == End("failed")      \* walks away from the accepted order
AfterAcceptFailed == Goto("cleanup")

(* append_la5_journal_event: the event is written and synced, or an error  *)
(* is reported with nothing, part of a line, or the whole line in the file.*)
(* `events` is empty for an event nothing ever reads.                      *)
Recorded(events) == journal' = journal \cup events /\ UNCHANGED torn
NotRecorded(events) ==
  \/ UNCHANGED <<journal, torn>>
  \/ torn' = TRUE /\ UNCHANGED journal
  \/ Recorded(events)

Note(type) == {Event(run, type, Current, NoOrder)}
OrderNote(type) == {Event(run, type, Current, Current)}

(* Appends `events`, then goes on with `done`, or with `failed`. *)
Log(events, done, failed) ==
  /\ \/ Recorded(events) /\ done
     \/ NotRecorded(events) /\ failed
  /\ KeepSeen /\ KeepAttempts
  /\ UNCHANGED <<venueVars, caps, balanceAtStart, submits, cancelSent, recovery>>

(* An awaited step of the process that only moves it on. *)
Step(from, next) ==
  /\ pc = from
  /\ next
  /\ KeepSeen /\ KeepAttempts
  /\ UNCHANGED <<venueVars, diskVars, submits, cancelSent, recovery>>

(* A read that puts `value` into field `field` of seen. *)
Read(from, field, value, next, failed) ==
  /\ pc = from
  /\ \/ next /\ seen' = [seen EXCEPT ![field] = value]
     \/ failed /\ KeepSeen
  /\ KeepAttempts
  /\ UNCHANGED <<venueVars, diskVars, submits, cancelSent, recovery>>

-----------------------------------------------------------------------------
(* The command reserves the approval's cap file with create_new: an        *)
(* approval whose file exists is refused.                                  *)
CapFree(a) == a \notin caps

StartSession(a) ==
  /\ pc = "idle"
  /\ CapFree(a)
  /\ caps' = caps \cup {a}
  /\ pc' = "opening" /\ run' = a /\ n' = 1
  /\ seen' = Nothing
  /\ attempts' = 0
  /\ UNCHANGED <<venueVars, journal, torn, balanceAtStart, historyVars>>

(* journal.replay()?, then the two opening events. *)
Opening ==
  /\ pc = "opening"
  /\ Log({}, ~ torn /\ Goto("checks"), End("failed"))

(* Geoblock and secret presence. *)
Checks ==
  \/ Step("checks", Goto("initial.orders") \/ End("failed"))
  \/ pc = "checks" /\ Log(Note("MakerMicroHalted"), End("failed"), End("failed"))

(* An account readback asks for the open orders first, then the trades.    *)
ReadOpenOrders ==
  \/ Read("initial.orders", "open", OpenOrders, Goto("initial.trades"), End("failed"))
  \/ Read("pre.orders", "open", OpenOrders, Goto("pre.trades"), End("failed"))
  \/ Read("final.orders", "open", OpenOrders, Goto("final.trades"), End("failed"))

ReadTrades ==
  \/ Read("initial.trades", "trades", trades, Goto("initial"), End("failed"))
  \/ Read("pre.trades", "trades", trades, Goto("pre"), End("failed"))
  \/ Read("post.trades", "trades", trades, Goto("post.exact"), AfterAcceptFailed)
  \/ Read("final.trades", "trades", trades, Goto("filled"), End("failed"))

(* require_la5_pre_submit_readback *)
BugFlat == Confirmed(seen.trades)       \* does not look at the open orders
Flat == ReadbackPassed(seen.open, seen.trades)

(* A flat account may still not be the one the approval was given for.     *)
InitialReadback ==
  /\ pc = "initial"
  /\ \/ Flat /\ Goto("slot") /\ seen' = [seen EXCEPT !.baseline = DOMAIN seen.trades]
     \/ End("failed") /\ KeepSeen
  /\ KeepAttempts
  /\ UNCHANGED <<venueVars, diskVars, submits, cancelSent, recovery>>

(* Duration cap and submit rate of the loop head. *)
SubmitSlot == Step("slot", Goto("pre.orders") \/ End("failed"))

PreSubmitReadback == Step("pre", IF Flat THEN Goto("risk") ELSE End("failed"))

(* Market selection, the risk engine and the plan checks may refuse. *)
Risk ==
  \/ pc = "risk" /\ Log({}, Goto("attempt"), End("failed"))
  \/ pc = "risk" /\ Log(Note("MakerRiskHalt"), End("failed"), End("failed"))

BugAttempt == Step("attempt", Goto("submit"))      \* the record is left to the answer
Attempt ==
  /\ pc = "attempt"
  /\ Log(Note("MakerOrderSubmitAttempted"), Goto("submit"), End("failed"))

(* The order is accepted, refused, or the call fails: then the request may *)
(* still be on its way.                                                    *)
Submit ==
  /\ pc = "submit"
  /\ submits' = [submits EXCEPT ![run] = @ + 1]
  /\ \/ Accept(Current) /\ Goto("accepted")
     \/ Goto("rejected") /\ UNCHANGED venueVars
     \/ LoseSubmit(Current) /\ Goto("rejected")
  /\ KeepSeen /\ KeepAttempts
  /\ UNCHANGED <<diskVars, cancelSent, recovery>>

(* An answer that refuses the order may give it an id, of no order placed. *)
RefusalNotes ==
  {Note("MakerOrderRejected")}
    \cup (IF Current \in inflight \cup DOMAIN orders THEN {} ELSE {OrderNote("MakerOrderRejected")})
Rejected ==
  /\ pc = "rejected"
  /\ \E notes \in RefusalNotes : Log(notes, End("failed"), End("failed"))

Accepted ==
  pc = "accepted" /\ Log(OrderNote("MakerOrderAccepted"), Goto("heartbeat"), AfterAcceptFailed)

(* maintain_la5_heartbeat_until_cancel *)
Heartbeat == Step("heartbeat", Goto("post.trades") \/ AfterAcceptFailed)

(* read_maker_order_with_official_sdk *)
ExactOrder == [status |-> orders[Current].status, matched |-> orders[Current].matched,
               trades |-> TradesOf(Current)]
ReadExact ==
  \/ Read("post.exact", "order", ExactOrder, Goto("post"), AfterAcceptFailed)
  \/ Read("latest", "order", ExactOrder,
          IF ExactOrder.status = "live" THEN Goto("cancel") ELSE Goto("final.exact"),
          AfterAcceptFailed)
  \/ Read("final.exact", "order", ExactOrder, Goto("final.orders"), End("failed"))

(* la5_order_trade_ids *)
OrderTrades ==
  seen.order.trades
  \cup {t \in DOMAIN seen.trades \ seen.baseline : seen.trades[t].order = Current}

(* venue_order_status_from_la5_order *)
ExactStatus ==
  CASE seen.order.status = "canceled" -> "Canceled"
    [] seen.order.status = "matched" -> "Filled"
    [] seen.order.matched > 0 -> "PartiallyFilled"
    [] OTHER -> "Live"

BugOrderReconciles(expectFlat) ==      \* looks at the order, not at its trades
  expectFlat => ExactStatus \in {"Canceled", "Filled"}
(* reconcile_la5_order_state: only this order and its trades, and both     *)
(* balances are the one just read.                                         *)
OrderReconciles(expectFlat) ==
  Mismatches(
    [known |-> {Current},
     canceled |-> IF expectFlat /\ ExactStatus # "Filled" THEN {Current} ELSE {},
     partial |-> {},
     trades |-> OrderTrades,
     owners |-> {<<t, Current>> : t \in OrderTrades},
     balance |-> NoBalance, tokens |-> {},
     positions |-> {}],
    [orders |-> [o \in {Current} |-> ExactStatus],
     trades |-> [t \in DOMAIN seen.trades \cap OrderTrades |-> seen.trades[t]],
     balance |-> NoBalance,
     positions |-> {}],
    FALSE) = {}

ReconciliationNote(passes) ==
  IF passes THEN {} ELSE OrderNote("MakerReconciliationFailed")

PostReconcile ==
  /\ pc = "post"
  /\ Log(ReconciliationNote(OrderReconciles(FALSE)),
            IF OrderReconciles(FALSE) THEN Goto("cancelSlot") ELSE AfterAcceptFailed,
            AfterAcceptFailed)

CancelSlot == Step("cancelSlot", Goto("latest") \/ AfterAcceptFailed)

(* What an exact cancel does: it is sent; the order is closed and named in *)
(* the answer, or the answer does not name it or is lost, with the order   *)
(* closed all the same or not.  That an answer that names the order means  *)
(* it is closed is assumed of the venue, as the code takes it: it writes   *)
(* the cancel down on the answer alone.                                    *)
SendCancel(confirmed, unconfirmed) ==
  /\ cancelSent' = cancelSent \cup {Current}
  /\ \/ Close(Current) /\ confirmed
     \/ (Close(Current) \/ UNCHANGED venueVars) /\ unconfirmed

MayRetry(k) == k < CancelRetryLimit
(* cancel_la5_exact_order_with_retries; the duration cap may stop it early.*)
Cancel ==
  /\ pc = "cancel"
  /\ attempts' = attempts + 1
  /\ SendCancel(Goto("canceled"),
                \/ MayRetry(attempts') /\ Goto("cancel")
                \/ Goto("cancelFailed"))
  /\ UNCHANGED <<diskVars, seen, submits, recovery>>

BugCancelFailed ==      \* starts over instead of giving up
  /\ pc = "cancelFailed"
  /\ Goto("latest")
  /\ attempts' = 0
  /\ UNCHANGED <<venueVars, diskVars, seen, submits, cancelSent, recovery>>
CancelFailed ==
  pc = "cancelFailed"
  /\ Log(OrderNote("MakerReconciliationFailed"), End("failed"), End("failed"))

Canceled ==
  pc = "canceled"
  /\ Log(OrderNote("MakerOrderCanceled"), Goto("final.exact"), End("failed"))

(* A fill is recorded with the array of its trades. *)
FilledNote == {[Event(run, "MakerOrderFilled", Current, Current) EXCEPT !.trades = OrderTrades]}
Filled ==
  \/ Step("filled", ExactStatus # "Filled" /\ OrderTrades = {} /\ Goto("final"))
  \/ /\ pc = "filled"
     /\ ExactStatus = "Filled" \/ OrderTrades # {}
     /\ Log(FilledNote, Goto("final"), End("failed"))

NextOrder ==
  /\ UNCHANGED <<run, ended>>
  /\ IF n < MaxOrders THEN n' = n + 1 /\ pc' = "slot" ELSE n' = n /\ pc' = "stopping"

(* What became of the order, for the line that ends the session. *)
Outcome(type) ==
  {[Event(run, type, Current, Current) EXCEPT !.trades = OrderTrades, !.status = seen.order.status]}

FinalReconcile ==
  LET passes == OrderReconciles(TRUE) IN
  /\ pc = "final"
  /\ \/ Recorded(ReconciliationNote(passes))
        /\ IF passes /\ seen.open = {}
           THEN /\ NextOrder
                /\ seen' = [seen EXCEPT !.outcomes = @ \cup Outcome("MakerMicroStopped")]
           ELSE End("failed") /\ KeepSeen
     \/ NotRecorded(ReconciliationNote(passes)) /\ End("failed") /\ KeepSeen
  /\ attempts' = 0
  /\ UNCHANGED <<venueVars, caps, balanceAtStart, submits, cancelSent, recovery>>

(* The line that ends the session, then its journal is replayed once more. *)
StopWith(outcomes) ==
  /\ pc = "stopping"
  /\ Log(outcomes,
            IF torn \/ HasMismatch(OfRun(journal, run)) \/ RiskHalted(OfRun(journal, run))
            THEN End("failed") ELSE End("completed"),
            End("failed"))
Stopping == StopWith(seen.outcomes)

(* la5_cleanup_accepted_order_before_error: one cancel, one record of how  *)
(* it went, and the session ends with the error.                           *)
Cleanup ==
  /\ pc = "cleanup"
  /\ SendCancel(Goto("cleanup.canceled"), Goto("cleanup.failed"))
  /\ UNCHANGED <<diskVars, seen, attempts, submits, recovery>>
CleanupNote ==
  \/ pc = "cleanup.canceled"
     /\ Log(OrderNote("MakerOrderCanceled"), End("failed"), End("failed"))
  \/ pc = "cleanup.failed"
     /\ Log(OrderNote("MakerReconciliationFailed"), End("failed"), End("failed"))

(* The process dies; in the middle of an append it may leave half a line.  *)
Recovering == {"recover.orders", "recover.trades", "recover"}
Appending == {"opening", "checks", "risk", "attempt", "rejected", "accepted", "post",
              "cancelFailed", "canceled", "filled", "final", "stopping",
              "cleanup.canceled", "cleanup.failed"}
CrashWhile(appending) ==
  /\ pc \notin Recovering \cup {"idle"}
  /\ End("crashed")
  /\ torn' \in {torn, torn \/ pc \in appending}
  /\ KeepSeen /\ KeepAttempts
  /\ UNCHANGED <<venueVars, journal, caps, balanceAtStart, submits, cancelSent, recovery>>
Crash == CrashWhile(Appending)

SessionStep ==
  \/ Opening \/ Checks \/ ReadOpenOrders \/ ReadTrades \/ ReadExact
  \/ InitialReadback \/ SubmitSlot \/ PreSubmitReadback \/ Risk
  \/ Attempt \/ Submit \/ Rejected \/ Accepted \/ Heartbeat
  \/ PostReconcile \/ CancelSlot \/ Cancel \/ CancelFailed \/ Canceled
  \/ Filled \/ FinalReconcile \/ Stopping \/ Cleanup \/ CleanupNote

-----------------------------------------------------------------------------
(* Startup recovery by a process of its own, while no session runs: it     *)
(* reads the balance, the open orders and the trades, evaluates, and       *)
(* writes its verdict to the journal under its own run.                    *)
StartRecovery ==
  /\ pc = "idle"
  /\ pc' = "recover.orders"
  /\ seen' = [Nothing EXCEPT !.balance = [reserved |-> 0, spent |-> Spent]]
  /\ UNCHANGED <<venueVars, diskVars, run, n, attempts, historyVars>>

RecoveryReadsOrders ==
  /\ pc = "recover.orders"
  /\ pc' = "recover.trades"
  /\ seen' = [seen EXCEPT !.open = OpenOrders, !.placed = DOMAIN orders,
                          !.balance.reserved = Cardinality(OpenOrders)]
  /\ UNCHANGED <<venueVars, diskVars, run, n, attempts, historyVars>>

RecoveryReadsTrades ==
  /\ pc = "recover.trades"
  /\ pc' = "recover"
  /\ seen' = [seen EXCEPT !.trades = trades]
  /\ UNCHANGED <<venueVars, diskVars, run, n, attempts, historyVars>>

EvaluateRecovery ==
  LET passes == RecoveryPasses(journal, torn, seen.open, seen.trades, seen.balance,
                               balanceAtStart)
  IN /\ pc = "recover"
     /\ pc' = "idle"
     /\ \/ Recorded({}) /\ recovery' = IF passes THEN "passed" ELSE "halted"
        \/ NotRecorded({}) /\ recovery' = "halted"
     /\ KeepSeen
     /\ UNCHANGED <<venueVars, caps, balanceAtStart, run, n, attempts,
                    submits, cancelSent, ended>>

RecoveryStep ==
  StartRecovery \/ RecoveryReadsOrders \/ RecoveryReadsTrades \/ EvaluateRecovery

-----------------------------------------------------------------------------
VenueMoves == VenueStep /\ UNCHANGED <<diskVars, pc, run, n, seen, attempts, historyVars>>

Next ==
  \/ \E a \in Approvals : StartSession(a)
  \/ SessionStep
  \/ Crash
  \/ RecoveryStep
  \/ VenueMoves

Spec == Init /\ [][Next]_vars

-----------------------------------------------------------------------------
(* Properties                                                              *)

(* Every variable has its type; the reads of the process are of the venue. *)
Pcs ==
  {"idle", "opening", "checks", "initial.orders", "initial.trades", "initial", "slot",
   "pre.orders", "pre.trades", "pre", "risk", "attempt", "submit", "rejected", "accepted",
   "heartbeat", "post.trades", "post.exact", "post", "cancelSlot", "latest", "cancel",
   "cancelFailed", "canceled", "final.exact", "final.orders", "final.trades", "filled",
   "final", "stopping", "cleanup", "cleanup.canceled", "cleanup.failed"} \cup Recovering

TypeOK ==
  /\ VenueTypeOK
  /\ \A e \in journal : e.run \in Approvals /\ e.intent \in Intents /\ e.trades \subseteq Trades
  /\ torn \in BOOLEAN
  /\ caps \subseteq Approvals
  /\ pc \in Pcs
  /\ pc \notin Recovering \cup {"idle"} => run \in caps /\ n \in 1..MaxOrders
  /\ DOMAIN seen.trades \subseteq DOMAIN trades
  /\ seen.open \cup seen.placed \subseteq Intents
  /\ attempts \in 0..CancelRetryLimit
  /\ submits \in [Approvals -> Nat]
  /\ cancelSent \subseteq Intents
  /\ ended \in [Approvals -> {"not yet", "completed", "failed", "crashed"}]
  /\ recovery \in {"none", "passed", "halted"}

(* An approval never submits more orders than it allows, however often its *)
(* session crashes and whoever starts it again: the cap file is never      *)
(* released (reserve_la5_approval_cap).                                    *)
CapNeverExceeded == \A a \in Approvals : submits[a] <= MaxOrders

(* Write-ahead: whatever is at the venue, or may still arrive there, is in *)
(* the journal as MakerOrderSubmitAttempted (LA5) or QuotePlanned (LA6),   *)
(* crash or no crash.                                                      *)
Attempted(i) ==
  \E e \in journal : /\ e.type \in {"MakerOrderSubmitAttempted", "QuotePlanned"}
                    /\ e.run = i[1] /\ e.intent = i
AttemptJournaledFirst == \A i \in DOMAIN orders \cup inflight : Attempted(i)

(* A session that ends with an error, rather than with its process, leaves *)
(* no order it knows was accepted resting before it sent that order an     *)
(* exact cancel (la5_try_after_accept!, the cancel retries).               *)
AbandonedOnlyAfterCancel ==
  \A o \in OpenOrders \ late :
    ended[o[1]] = "failed" /\ run # o[1] => o \in cancelSent

(* A session reports "completed" only when each of its orders is closed,   *)
(* each of their trades is confirmed, and each is named in the journal,    *)
(* although fills arrive between any two of its reads.                     *)
JournaledFills == UNION {e.trades : e \in {x \in journal : x.type = "MakerOrderFilled"}}
CompletedMeansSettled ==
  \A o \in DOMAIN orders : ended[o[1]] = "completed" =>
    /\ orders[o].status # "live"
    /\ \A t \in TradesOf(o) : trades[t].status = "Confirmed" /\ t \in JournaledFills

(* The account never has a second order open unless a submit whose answer  *)
(* was lost arrives later: a session submits only on a flat account.       *)
OnlyLateSubmitsOverlap == Cardinality(OpenOrders) <= 1 + Cardinality(late)

(* An order the journal reduces to canceled is one the venue has canceled. *)
JournaledCancelsAreReal == \A o \in CanceledOrders(journal) : orders[o].status = "canceled"

(* What an LA5 session leaves behind, in its outcome, its journal and its  *)
(* cancels, is true of the venue.                                          *)
OutcomesAreReal ==
  TypeOK /\ AbandonedOnlyAfterCancel /\ CompletedMeansSettled /\ JournaledCancelsAreReal

(* Startup recovery passes only over an account whose every order placed   *)
(* when it read is closed, with each of its trades confirmed and known to  *)
(* the journal, although orders and fills move between its reads.          *)
RecoveryPassesOnlyWhenExplained ==
  [][pc = "recover" /\ pc' = "idle" /\ recovery' = "passed" =>
       \A o \in seen.placed :
         /\ orders[o].status # "live"
         /\ \A t \in TradesOf(o) : trades[t].status = "Confirmed" /\ t \in KnownTrades(journal)
    ]_vars

(* No session goes on for ever: each of its steps, however its calls are   *)
(* answered and whatever the venue does in between, brings it nearer to    *)
(* its end; cancels are retried and orders follow each other only so often.*)
(* That the next step comes is not promised, and the code does not see to  *)
(* it: the SDK's clients have no timeout (Client::new(host,                *)
(* Config::default())) and the duration cap is compared between the awaits *)
(* only, so a session whose call is never answered stays where it is, with *)
(* its order resting.                                                      *)
Way ==
  <<"opening", "checks", "initial.orders", "initial.trades", "initial", "slot", "pre.orders",
    "pre.trades", "pre", "risk", "attempt", "submit", "rejected", "accepted", "heartbeat",
    "post.trades", "post.exact", "post", "cancelSlot", "latest", "cancel", "cancelFailed",
    "canceled", "final.exact", "final.orders", "final.trades", "filled", "final", "stopping",
    "cleanup", "cleanup.canceled", "cleanup.failed">>
RetriesLeft == IF pc = "stopping" THEN 0 ELSE CancelRetryLimit - attempts
Left ==
  (MaxOrders - n) * (Len(Way) + CancelRetryLimit) + RetriesLeft
    + Len(Way) - (CHOOSE k \in DOMAIN Way : Way[k] = pc)
SessionsComeNearerToTheEnd ==
  [][run # NoRun =>
       run' = NoRun \/ Left' \in 0..(Left - 1) \/ VenueMoves
    ]_vars

-----------------------------------------------------------------------------
(* What the documents say of the program; the code does otherwise.         *)

(* LIVE_ALPHA_PRD.md: "Never assume a submit failed just because the       *)
(* network response failed."  A MakerOrderRejected line, also written when *)
(* the answer is an error, is about an order the venue never has.          *)
RejectedNeverRests ==
  \A e \in journal : e.type = "MakerOrderRejected" => e.intent \notin DOMAIN orders

(* LIVE_ALPHA_PRD.md: "startup detects unreconciled fills", and no live    *)
(* order placement until reconciliation passes.  No order is submitted     *)
(* over a fill the session has read and no line of the journal names.      *)
NoSubmitOverUnreconciledFill ==
  [][submits' # submits =>
       DOMAIN seen.trades \subseteq KnownTrades(journal) \cup JournaledFills]_vars
=============================================================================
