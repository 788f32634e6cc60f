--------------------------- MODULE MCLiveTrading ---------------------------
(* Of live trading: two orders, one incident, two moments and observations *)
(* that live for one; one rehearsal, in any configuration that lacks at    *)
(* most two facts, before the session.  Of the checks: one, of an account   *)
(* that may become another between two requests.                           *)
EXTENDS LiveTrading, TLC

MCSymmetry == Permutations(Orders)
MCOffs == {off \in SUBSET Facts : Cardinality(off) <= 2} \cup {Facts}

Alpha == INSTANCE LiveJournal
MCEvent == [Alpha!Event(0, "LiveFillSucceeded", NoIntent, "o1") EXCEPT !.trade = "t1"]
Flat == [reserved |-> 0, available |-> 2, total |-> 2]
Lines0 == [state |-> "lines", events |-> {MCEvent}, recorded |-> Flat, tokens |-> {}, positions |-> {}]
MCJournals ==
  {Lines0,
   [Lines0 EXCEPT !.state = "torn"],
   [Lines0 EXCEPT !.state = "absent", !.events = {}, !.recorded = NoBalance],
   [Lines0 EXCEPT !.positions = {"p1"}],
   [Lines0 EXCEPT !.tokens = {"p1"}],
   [Lines0 EXCEPT !.events = {}]}

ListedTrade(id, status, side) ==
  [id |-> id, status |-> status, hash |-> TRUE, ours |-> TRUE, side |-> side, taker |-> "o1",
   maker |-> "other", makers |-> << [address |-> "other", order |-> "o9"],
                                   [address |-> Me, order |-> "o1"] >>]
ListedMarket(accepting) ==
  [book |-> TRUE, active |-> TRUE, closed |-> FALSE, archived |-> FALSE, accepting |-> accepting]
Quiet == [balance |-> 2, allowance |-> 2, orders |-> << << >> >>,
          trades |-> << << >>, <<ListedTrade("t1", "Confirmed", "maker")>> >>,
          markets |-> << <<ListedMarket(FALSE)>>, <<ListedMarket(TRUE)>> >>]
MCAccounts ==
  {Quiet,
   [Quiet EXCEPT !.trades = << <<ListedTrade("t1", "Confirmed", "none")>> >>],
   [Quiet EXCEPT !.trades = << <<ListedTrade("t1", "Confirmed", "taker"),
                                ListedTrade("t2", "Confirmed", "taker")>> >>],
   [Quiet EXCEPT !.trades = << <<ListedTrade("t1", "Mined", "maker")>> >>],
   [Quiet EXCEPT !.trades = << << >>, << >>, << >> >>],
   [Quiet EXCEPT !.orders = << <<[id |-> "o2", status |-> "live", buy |-> TRUE, left |-> 1,
                                  price |-> 1, ours |-> TRUE]>> >>],
   [Quiet EXCEPT !.balance = 3],
   [Quiet EXCEPT !.markets = << <<ListedMarket(FALSE)>> >>],
   [Quiet EXCEPT !.markets = << <<ListedMarket(TRUE)>>, << >>, << >> >>]}

Handles == [env |-> TRUE, names |-> <<"v1", "v2", "v3", "v4">>]
Config0 == [enabled |-> TRUE, mode |-> "maker_micro", taker |-> FALSE, named |-> FALSE,
            submodes |-> {"maker"}, allow |-> {}, flaws |-> {},
            handles |-> [live_beta |-> Handles, live_trading |-> Handles], journalPath |-> TRUE,
            held |-> {}, secrets |-> TRUE, heartbeat |-> TRUE, intent |-> TRUE,
            killSwitch |-> FALSE, baseline |-> NoBaselineFile]
TakerBaseline(trades) == [named |-> TRUE, off |-> {}, complete |-> TRUE, trades |-> trades]
Taker(baseline) == [Config0 EXCEPT !.mode = "taker_gate", !.taker = TRUE, !.named = TRUE,
                                 !.baseline = baseline]
MCConfigs ==
  {Config0,
   [Config0 EXCEPT !.mode = "shadow", !.heartbeat = FALSE],
   [Config0 EXCEPT !.mode = "shadow"],
   [Config0 EXCEPT !.mode = "shadow", !.secrets = FALSE],
   [Config0 EXCEPT !.enabled = FALSE],
   [Config0 EXCEPT !.mode = "disabled", !.submodes = {}],
   [Config0 EXCEPT !.mode = "disabled"],
   [Config0 EXCEPT !.mode = "quote_manager", !.submodes = {}],
   [Config0 EXCEPT !.handles.live_beta.names = <<"v1", "v2", "v3", "v1">>],
   [Config0 EXCEPT !.journalPath = FALSE],
   [Config0 EXCEPT !.held = {"lb3_hold"}],
   [Config0 EXCEPT !.held = {"address"}, !.secrets = FALSE, !.killSwitch = TRUE],
   [Taker(NoBaselineFile) EXCEPT !.named = FALSE], Taker(TakerBaseline({"t1"})), Taker(TakerBaseline({"t2"})),
   Taker([TakerBaseline({"t1", "t2"}) EXCEPT !.complete = FALSE]),
   Taker([TakerBaseline({"t1"}) EXCEPT !.named = FALSE]),
   Taker([TakerBaseline({"t1"}) EXCEPT !.off = {"wallet"}])}

Validate == [name |-> "validate", localOnly |-> FALSE, readback |-> TRUE, intent |-> FALSE,
             handles |-> FALSE, shadow |-> FALSE]
MCCommands ==
  {Validate,
   [Validate EXCEPT !.localOnly = TRUE, !.handles = TRUE],
   [Validate EXCEPT !.readback = FALSE, !.intent = TRUE],
   [Validate EXCEPT !.name = "paper", !.readback = FALSE, !.shadow = TRUE],
   [Validate EXCEPT !.name = "paper", !.readback = FALSE]}
=============================================================================
