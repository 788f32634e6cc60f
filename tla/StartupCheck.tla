---------------------------- MODULE StartupCheck ----------------------------
(***************************************************************************)
(* The check of the live account before anything is traded: the validate   *)
(* command and the paper command's shadow readiness (src/main.rs).  Each   *)
(* asks where it is allowed to trade, reads the account in four requests,  *)
(* reconciles it with the journal of earlier runs and, validate alone,     *)
(* writes the verdict into that journal.  The account moves while it is    *)
(* read, requests fail, an append is cut short.                            *)
(*   config: [enabled, mode, taker, named, submodes, allow, handles, flaws *)
(*            (see Configuration), journalPath, held, secrets, heartbeat,  *)
(*            intent, killSwitch, baseline]; `held` is the set of facts of *)
(*            the configuration that do not hold, baseline a file or       *)
(*            NoBaselineFile                                               *)
(*   account: [balance, allowance, orders, trades, markets], the last      *)
(*            three as pages                                               *)
(*   alphaJournal: [state, events, recorded, tokens, positions]            *)
(***************************************************************************)
EXTENDS AccountReadback, StartupRecovery, Configuration

CONSTANTS
  Configs, Accounts, Journals, Commands,   \* what a command may meet
  MaxChecks,                               \* commands
  Me,                                      \* the account's address
  NoBaselineFile                           \* no path is configured

NoReadback == [live |-> FALSE, reasons |-> {"none"}]

VARIABLES
  config, account, alphaJournal,
  check,       \* the command that runs, or Idle
  checks       \* commands started

checkVars == <<config, account, alphaJournal, check, checks>>

Idle == [at |-> "idle", recovery |-> "none"]

CheckInit ==
  /\ config \in Configs /\ account \in Accounts /\ alphaJournal \in Journals
  /\ check = Idle /\ checks = 0

With(record, fields) ==
  [f \in DOMAIN record \cup DOMAIN fields |->
     IF f \in DOMAIN fields THEN fields[f] ELSE record[f]]
To(fields) == check' = With(check, fields)
Finish(status) == To([at |-> "end", status |-> status])

(* A configuration that does not validate ends the process before its      *)
(* command.                                                                *)
Begun(command) ==
  /\ check.at \in {"idle", "end"} /\ checks < MaxChecks
  /\ checks' = checks + 1
  /\ LET valid == ConfigErrors(config) = {}
     IN check' = [at |-> IF valid THEN "place" ELSE "end", command |-> command,
                  place |-> "unknown", credentials |-> FALSE, read |-> << >>,
                  readback |-> NoReadback, recovery |-> "none", lines |-> << >>,
                  status |-> IF valid THEN "running" ELSE "error", heartbeat |-> FALSE,
                  gate |-> {}, mismatches |-> {}]
  /\ UNCHANGED <<config, account, alphaJournal>>

Validating == check.command.name = "validate"
Quietly == UNCHANGED <<config, account, alphaJournal, checks>>

-----------------------------------------------------------------------------
(* The place.  validate reports a blocked place and goes on; paper stops.  *)
(* A shadow run reads the account back only in the shadow mode.            *)
Shadows == check.command.shadow /\ config.enabled /\ config.mode = "shadow"
AfterPlace(place) ==
  IF Validating
  THEN IF check.command.readback THEN "preflight"
       ELSE IF check.command.localOnly THEN "recover" ELSE "discovery"
  ELSE IF Shadows /\ place = "passed" THEN "preflight" ELSE "recover"
Place ==
  /\ check.at = "place"
  /\ IF Validating /\ check.command.localOnly
     THEN To([at |-> AfterPlace("unknown")])
     ELSE \/ \E place \in {"passed", "blocked"} :
               IF place = "blocked" /\ ~ Validating THEN Finish("error")
               ELSE To([at |-> AfterPlace(place), place |-> place])
          \/ Finish("error")
  /\ Quietly

(* run_m2_online_validation: markets discovered, stored and counted. *)
Discovery ==
  /\ check.at = "discovery"
  /\ To([at |-> "recover"]) \/ Finish("error")
  /\ Quietly

(* A sample account stands in for the real one when that must not be read. *)
Held == config.held \cup IF check.place = "passed" THEN {} ELSE {"geoblock"}
Sampled == [live |-> FALSE, reasons |-> ReadbackReasons(Held, SampleAccount)]
MayRead == AsksTheVenue(Held, Validating /\ check.command.localOnly)
Preflight ==
  /\ check.at = "preflight"
  /\ IF ~ MayRead THEN To([at |-> "recover", readback |-> Sampled])
     ELSE IF config.secrets THEN To([at |-> "balance", credentials |-> TRUE])
     ELSE IF Validating THEN Finish("error")
     ELSE To([at |-> "recover", readback |-> Sampled])
  /\ Quietly

-----------------------------------------------------------------------------
(* The account, one request after the other.                               *)
Requests == <<"balance", "orders", "trades", "markets", "recover">>
After(request) == Requests[1 + CHOOSE n \in DOMAIN Requests : Requests[n] = request]

AnswerTo(request) ==
  IF request = "balance" THEN [failed |-> FALSE, data |-> <<account.balance, account.allowance>>]
  ELSE IF request = "markets" THEN MarketPages(account.markets)
  ELSE AllPages(account[request])

ById(entries) ==
  [id \in {entry.id : entry \in entries} |-> CHOOSE entry \in entries : entry.id = id]
SeenOf(read) ==
  [venue |-> VenueStateOf(read.markets), balance |-> read.balance[1],
   allowance |-> read.balance[2],
   orders |-> ById(read.orders),
   trades |-> LET trades == ById(read.trades)
              IN [id \in DOMAIN trades |->
                    [status |-> trades[id].status, order |-> OrderOfTrade(trades[id], Me),
                     hash |-> trades[id].hash, ours |-> trades[id].ours]]]

Request ==
  /\ check.at \in {"balance", "orders", "trades", "markets"}
  /\ \/ Finish("error")
     \/ \E answer \in {AnswerTo(check.at)} :
          IF answer.failed THEN Finish("error")
          ELSE \E read \in {With(check.read, [r \in {check.at} |-> answer.data])} :
                 To([at |-> After(check.at), read |-> read,
                     readback |-> IF check.at # "markets" THEN NoReadback
                                  ELSE [live |-> TRUE,
                                        reasons |-> ReadbackReasons(Held, SeenOf(read))]])
  /\ Quietly

AccountMoves ==
  /\ check.at \in {"orders", "trades", "markets"}
  /\ account' \in Accounts \ {account}
  /\ UNCHANGED <<config, alphaJournal, check, checks>>

-----------------------------------------------------------------------------
(* The recovery: a status is passed, failed or unknown. *)
StatusOf(readback) ==
  IF ~ readback.live THEN "unknown" ELSE IF readback.reasons = {} THEN "passed" ELSE "failed"
Replay ==
  CASE ~ config.journalPath -> "unknown"
    [] config.journalPath /\ alphaJournal.state = "lines" -> "passed"
    [] OTHER -> "failed"

(* The taker's baseline: what its file says, and whether the account read  *)
(* now still starts from it.                                               *)
BaselineRequired == config.mode = "taker_gate" /\ config.taker
BindingHolds(baseline, seen) ==
  /\ baseline.off = {} /\ seen.orders = << >>
  /\ baseline.trades \subseteq DOMAIN seen.trades
BaselineStatus ==
  CASE config.baseline = NoBaselineFile -> "unknown"
    [] config.baseline # NoBaselineFile /\ ~ config.baseline.named -> "failed"
    [] config.baseline.named /\ ~ check.readback.live -> "unknown"
    [] OTHER -> IF check.readback.reasons = {} /\ BindingHolds(config.baseline, SeenOf(check.read))
                THEN "passed" ELSE "failed"
(* The file stays in use unless its check failed. *)
BaselineTrades ==
  IF BaselineRequired /\ BaselineStatus = "passed" THEN config.baseline.trades ELSE {}

LocalState(seen) ==
  [StartupLocal(alphaJournal.events, DOMAIN seen.orders, seen.trades, alphaJournal.recorded)
     EXCEPT !.positions = alphaJournal.positions, !.tokens = alphaJournal.tokens]
ReadBalance(seen) ==
  LET reserved == Reserved(seen.orders)
  IN [reserved |-> reserved, available |-> AtLeastZero(seen.balance - reserved),
      total |-> seen.balance]
(* reconcile_live_state_with_account_baseline *)
BugForeign(seen) == {owner[1] : owner \in TradeOwners(alphaJournal.events)} \cap DOMAIN seen.trades
Foreign(seen) == DOMAIN seen.trades \ BaselineTrades
Without(local, baseline) ==
  [local EXCEPT !.trades = @ \ baseline, !.owners = {owner \in @ : owner[1] \notin baseline}]
MismatchesOf(seen) ==
  Mismatches(Without(LocalState(seen), BaselineTrades),
             StartupVenue(DOMAIN seen.orders, [t \in Foreign(seen) |-> seen.trades[t]],
                          ReadBalance(seen)), FALSE)

Reconciles(status, replay) == status = "passed" /\ replay = "passed"
Complaints(names, status) ==
  IF status = "passed" THEN {} ELSE {<<name, status>> : name \in names}
Complaint(name, status) == Complaints({name}, status)
BlockReasons(mismatches) ==
  LET status == StatusOf(check.readback) IN
  Complaint("geoblock", check.place)
  \cup Complaints({"account_preflight", "balance_allowance", "open_orders_readback",
                   "recent_trades_readback"}, status)
  \cup Complaints({"journal_replay", "position_reconstruction"}, Replay)
  \cup (IF BaselineRequired
        THEN Complaint("account_baseline", BaselineStatus)
             \cup Reason(<<"account_baseline_position_evidence", "incomplete">>,
                         /\ config.baseline # NoBaselineFile /\ BaselineStatus # "failed"
                         /\ ~ config.baseline.complete)
        ELSE {})
  \cup Complaint("reconciliation", IF ~ Reconciles(status, Replay) THEN "unknown"
                                   ELSE IF mismatches = {} THEN "passed" ELSE "failed")

(* shadow_live_heartbeat_healthy_for_paper: nothing ever tells of a heart- *)
(* beat that is alive; none is as good when no order is open.              *)
HeartbeatHealthy ==
  \/ ~ config.heartbeat
  \/ check.readback.live /\ HeartbeatReasons(HeartbeatOf(SeenOf(check.read).orders),
                                            SeenOf(check.read).orders) = {}

Disabled == ~ config.enabled \/ config.mode = "disabled"
Lines(recovery) ==
  CASE recovery = "passed" -> <<"LiveStartupRecoveryStarted", "LiveStartupRecoveryPassed">>
    [] recovery = "halt" -> <<"LiveStartupRecoveryStarted", "LiveStartupRecoveryFailed",
                              "LiveRiskHalt">>
    [] OTHER -> << >>
Recover ==
  /\ check.at = "recover"
  /\ \E mismatches \in {IF Reconciles(StatusOf(check.readback), Replay)
                        THEN MismatchesOf(SeenOf(check.read)) ELSE {}} :
     \E reasons \in {IF Disabled THEN {} ELSE BlockReasons(mismatches)} :
       LET recovery == IF Disabled THEN "skipped" ELSE IF reasons = {} THEN "passed" ELSE "halt"
       IN IF Validating
          THEN To([at |-> "persist", recovery |-> recovery, lines |-> Lines(recovery),
                   mismatches |-> mismatches])
          ELSE To([at |-> "end", recovery |-> recovery, status |-> "ok",
                   heartbeat |-> HeartbeatHealthy])
  /\ Quietly

(* One append per event; the first creates a missing file.  One that is    *)
(* cut short may leave a torn line, and ends the command.                  *)
Persist ==
  /\ check.at = "persist"
  /\ IF check.lines = << >> THEN To([at |-> "gates"]) /\ UNCHANGED alphaJournal
     ELSE IF ~ config.journalPath THEN Finish("error") /\ UNCHANGED alphaJournal
     ELSE \/ /\ alphaJournal' = [alphaJournal EXCEPT
                  !.state = IF @ = "torn" THEN "torn" ELSE "lines",
                  !.events = @ \cup {Event(checks, Head(check.lines), NoIntent, NoOrder)}]
             /\ To([lines |-> Tail(check.lines)])
          \/ /\ Finish("error")
             /\ \/ UNCHANGED alphaJournal
                \/ alphaJournal' = [alphaJournal EXCEPT !.state = "torn"]
  /\ UNCHANGED <<config, account, checks>>

-----------------------------------------------------------------------------
(* The gates validate reports.  The build places no orders unless it was   *)
(* made to; the command never carries the approvals of a live phase.       *)
PlaceReason == IF check.place = "passed" THEN {} ELSE {<<"geoblock", check.place>>}
(* evaluate_live_mode_gate *)
ModeGateReasons ==
  PlaceReason
  \cup Reason(<<"kill_switch_active", "">>, config.killSwitch)
  \cup Reason(<<"missing_config_intent", "">>, ~ config.intent)
  \cup Reason(<<"missing_cli_intent", "">>, ~ check.command.intent)
  \cup {<<"later_phase_approvals_missing", "">>}
(* evaluate_live_alpha_gate *)
CanPlaceOrders == config.mode \in {"fill_canary", "maker_micro", "quote_manager", "taker_gate"}
SubmodeEnabled ==
  \/ config.mode = "fill_canary" /\ "fill_canary" \in config.submodes
  \/ config.mode \in {"maker_micro", "quote_manager"} /\ "maker" \in config.submodes
  \/ config.mode = "taker_gate" /\ config.taker
ReconciliationReadiness ==
  CASE check.recovery = "passed" -> "passed"
    [] check.recovery = "halt" /\ check.mismatches # {} -> "failed"
    [] OTHER -> "unknown"
AlphaGateReasons ==
  PlaceReason
  \cup Reason(<<"live_alpha_disabled", "">>, ~ config.enabled)
  \cup Reason(<<"mode_disabled", "">>, ~ CanPlaceOrders)
  \cup Reason(<<"submode_disabled", "">>, CanPlaceOrders /\ ~ SubmodeEnabled)
  \cup Reason(<<"kill_switch_active", "">>, config.killSwitch)
  \cup Complaint("account_preflight", IF Disabled THEN "unknown" ELSE StatusOf(check.readback))
  \cup (IF config.heartbeat THEN {<<"heartbeat", "unknown">>} ELSE {})
  \cup Complaint("reconciliation", ReconciliationReadiness)
  \cup {<<"missing_cli_intent", "">>, <<"approval_missing", "">>, <<"phase_not_approved", "">>}

(* What makes validate fail after its verdict is written. *)
Refused ==
  \/ check.command.intent /\ ModeGateReasons # {}
  \/ check.command.handles /\ ~ config.secrets
  \/ check.command.readback /\ check.readback.reasons # {}
Gates ==
  /\ check.at = "gates"
  /\ To([at |-> "end", gate |-> AlphaGateReasons,
         status |-> IF Refused THEN "error" ELSE "ok"])
  /\ Quietly

CheckNext ==
  \/ \E command \in Commands : Begun(command)
  \/ Place \/ Discovery \/ Preflight \/ Request \/ AccountMoves
  \/ Recover \/ Persist \/ Gates

CheckSpec == CheckInit /\ [][CheckNext]_checkVars

-----------------------------------------------------------------------------
(* The credentials are used, in either command, only once the place has    *)
(* answered this very command that trading is allowed there, and with the  *)
(* holds of the configuration released; never offline.                     *)
AccountReadAllowed ==
  check # Idle /\ check.credentials =>
    /\ check.place = "passed"
    /\ config.held \cap {"lb3_hold", "legal_access"} = {} /\ config.secrets
    /\ ~ (Validating /\ check.command.localOnly)

(* A recovery that passed, and with it the readiness of a shadow run, is   *)
(* about the real account: nothing was open in it, every trade it listed   *)
(* was final and known, to the journal or to the taker's baseline, and the *)
(* balance was the one journaled.  No sample stands in for it, no page of  *)
(* its orders or trades was left unread.                                   *)
Explained(trade, seen) ==
  \/ <<trade, seen.trades[trade].order>> \in TradeOwners(alphaJournal.events)
  \/ BaselineRequired /\ trade \in config.baseline.trades
PassedMeansClean ==
  check.recovery = "passed" =>
    /\ check.place = "passed" /\ check.credentials
    /\ alphaJournal.positions = {} /\ alphaJournal.tokens = {}
    /\ LET seen == SeenOf(check.read) IN
         /\ seen.venue = "trading_enabled" /\ seen.orders = << >>
         /\ alphaJournal.recorded = [reserved |-> 0, available |-> seen.balance,
                                total |-> seen.balance]
         /\ \A t \in DOMAIN seen.trades :
              seen.trades[t].status = "Confirmed" /\ Explained(t, seen)
StartupIsSound == AccountReadAllowed /\ PassedMeansClean

(* Once nothing but the approvals and the heartbeat is missing, the gate   *)
(* validate reports stands on a recovery that passed, whatever the kind of *)
(* the failure that would have kept it from passing.                       *)
GateStandsOnRecovery ==
  (check # Idle /\ check.gate # {}
   /\ check.gate \subseteq {<<"missing_cli_intent", "">>, <<"approval_missing", "">>,
                            <<"phase_not_approved", "">>, <<"heartbeat", "unknown">>})
  => check.recovery = "passed"
=============================================================================
