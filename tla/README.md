# Formal models of polymarket-15m-arb-bot

TLA+ models of the bot's paper trading, of its live order sessions and of the commands
around them, the TLC configurations that check them on small instances, and TLAPS proofs about
paper trading, the paper run and its shadow, the paper session, the live sessions, the one-shot
commands, maker quoting and live trading.
Paths below are relative to the repository's root.

- [The system](#the-system): components, state, operations, what can go wrong
- [How the components interact](#how-the-components-interact)
- [The modules](#the-modules) and how they correspond to the code
- [The runs](#the-runs): what each one checks, its bounds, its fairness
- [What the code does otherwise](#what-the-code-does-otherwise): the findings
- [The proofs](#the-proofs)
- [What is left out](#what-is-left-out)
- [Plan](#plan)

## The system

The bot trades 15-minute up/down markets. It is one Rust binary with subcommands
(`src/main.rs`). A command is one process; nothing in it is shared between threads, so what
is concurrent is the process and the venue, several processes one after the other on the same
files, and feeds whose messages arrive in any order. What outlives a process is on disk: the
live order journal, cap files, approval artifacts, the session directory of a paper run.

### Paper side

| Component | State it keeps | Operations | What makes it correct |
|---|---|---|---|
| Paper executor, `src/paper_executor/lifecycle.rs` | orders by id, queue position of each resting maker, next id | open (maker, taker), reject, simulate fill, cancel, expire | no order overfilled; status says what the fills say; a maker is filled only by volume printed beyond the queue it joined; a queue entry exists exactly while a maker rests |
| Position book, `src/paper_executor/pnl.rs` | position per token: net size, average price, realized P&L, fees, mark | apply fill, mark, settle | realized P&L is the cash plus the holdings at their average price, also through zero; the average is a price something was bought or sold at |
| Order books, `src/state/order_book.rs` | levels, hints, last trade, receipt time per token | snapshot, delta, best bid/ask, last trade | freshness is that of the book, not of a print |
| State store, `src/state/snapshot.rs` | books, lifecycle of markets, reference prices | apply event, decision snapshot | a decision never sees data older than its limits |
| Signal engine, `src/signal_engine.rs` | none | evaluate a snapshot | proposes only on tradable, fresh, two-sided data |
| Risk engine, `src/risk_engine.rs` | none | evaluate an intent in a context | notional, loss, rate and drawdown limits hold over sequences of approvals, not only one at a time |
| Replay run, `src/replay.rs` | all of the above, order timestamps, generated and recorded paper events | one loop body per event | position book and executor agree; the run is a function of its events |
| Paper runtime, `run_paper_runtime` in `src/main.rs` | session directory, cycles completed | capture, replay, record new paper events, compare, persist | what was recorded is what a replay generates, also when the session is stopped |
| Storage, `src/storage.rs` | JSON-lines files | append, read in order of the key, sync | replay order is the order of receipt |
| Feeds, `src/feed_ingestion.rs`, `src/normalization.rs`, `src/reference_feed.rs`, discovery, `src/market_discovery.rs` | sockets, parsed messages | capture, parse | nothing received is lost or invented |

### Live side

| Component | State it keeps | Operations | What makes it correct |
|---|---|---|---|
| Order journal, `src/live_order_journal.rs` | append-only JSON lines, synced | append, replay, reduce to `LiveJournalState` | whatever may be at the venue is in it first; what it says is canceled is |
| Reconciliation, `src/live_reconciliation.rs` | none | compare local and venue state | every disagreement is a mismatch |
| Account readback, `src/live_beta_readback.rs` | none | request balance, orders, trades, markets page by page; reasons that block | no page is left unread, no trade that is not final goes unnoticed |
| Startup recovery and the `validate` command, `src/live_startup_recovery.rs`, `src/main.rs` | none; evidence from `main.rs` | geoblock, readback, journal, baseline, reconcile, verdict, gates | passes only over a real account that the journal, or the taker's baseline, explains |
| LA5 maker session, `run_live_alpha_maker_micro_*` in `src/main.rs`, `src/live_maker_micro.rs` | cap file, baseline of trades, current order | approval, rate slot, readback, market, risk, plan, submit, heartbeat, reconcile, cancel with retries, cleanup | one run per approval, within it in money and time; no accepted order is abandoned; "completed" means closed and settled |
| LA6 quote session, `run_live_alpha_quote_manager_*`, `run_la6_*` in `src/main.rs` | cap file, approval bound to the account, current quote | command readback, first tick, submit, second tick, cancel, cleanup | as LA5, and only over the account that was approved |
| Quote manager, `src/live_quote_manager.rs` | none; usage counted through one tick | decide place, keep, cancel, replace, expire, skip, halt | rates hold over all decisions of one tick; a quote is kept only when nothing speaks against it |
| Live risk engine, `src/live_risk_engine.rs` | none | evaluate an intent in a context | every limit, age and alarm is looked at |
| Live shadow, `src/live_executor.rs`, `src/replay.rs` | decisions of a paper run | decide on each proposal, report | what it would send is covered by cash and within the live limits |
| LA3 fill canary, `src/live_fill_canary.rs`; LA7 taker canary, `src/live_taker_gate.rs`; LB6 canary and cancel, `src/live_beta_*.rs` | a cap file each, the LA3 journal, LA7's baseline | gate, reserve, submit, record, read back, report; the exact cancel | at most one order per approval, recorded, and what is reported of it is so |
| LT rehearsals, `src/live_trading_preflight.rs`, `_signing.rs`, `_maker.rs`, `src/live_account_baseline.rs` | artifact files | ask, judge, write | an artifact says "passed" only of what its process heard |
| LT journal and gate, `src/live_trading_journal.rs`, `_reconciliation.rs`, `_gate.rs`, `_evidence.rs` | journal state | reduce, reconcile, gate, bundle | the next order waits for the reconciliation of the last |
| Configuration, `src/config.rs`, `src/live_alpha_config.rs` | none | parse, validate | settings that contradict each other start nothing |
| LA8 report, `src/live_alpha_report.rs` | none; reads journals | count, recommend | counts nothing the venue has not had, and nothing twice |
| Heartbeat, user events, balance tracker, position book, shutdown record | a record each | evaluate, record | not modelled, see below |

### Hard behaviours

Crashes between a journal line, the call it announces and its answer; a lost answer to a
submit or a cancel; fills, expiry and settlement between any two reads of the account; reads
(place, balance, orders, trades, markets, journal) that are not one; retries of a cancel that
already succeeded; a journal or event file whose last line is half written; approvals used again
after a crash, or by two commands at once; limits kept in three places; a clock read before
a sequence of slow requests; a queue position followed through any sequence of prints; several
orders approved alone that fill together; data that looks fresh because something else
arrived; signals and read errors in the middle of a capture; a wall clock that orders events.
`PROJECT.json` lists each at its line under `hazards`, with the properties that would notice it
going wrong, or a note where none can.

## How the components interact

Paper: the runtime (`PaperSession`) discovers markets and captures feeds into a session
directory, cycle by cycle, replays the whole file after each cycle and records the paper
events the replay generates. A replay run reads the stored events and calls, for each, the state
store, the position book (settlement), the executor (fills on a trade print), the signal and
risk engines and the executor (new orders), the shadow, and the position book again (fills,
marks). All calls are synchronous in one loop: `PaperRun` keeps the books and composes
`PaperExecutor` and `PaperPositions` the same way and adds what the loop itself keeps, and
`ShadowRun` puts the shadow beside it.

Live: a command checks its approval, reserves a cap file (`create_new`), replays the journal,
reads the account back and goes through its session, each await a point where the venue may
move or the process may die. Sessions of both kinds and startup recovery meet only through
the journal, the cap files and the account: `LiveSessions` composes them. The one-shot
commands have cap files, a journal and a baseline of their own; two may run at once
(`CanaryOrders`). `validate` and the paper shadow judge the same account and journal from
outside (`StartupCheck`), and the LT rehearsals prepare a live session that this build does
not have (`LiveTrading`, which `CommandsSpec` puts beside the check: they share
nothing, and a behaviour takes one).

## The modules

| Module | Models | Kind |
|---|---|---|
| `PaperOrderLifecycle` | what readers of paper orders are promised: an order appears, fills grow, it ends, it stays ended | abstract specification |
| `PaperExecutor` | `PaperExecutor` with every order operation | specification, refines the former |
| `Ratios` | exact ratios in lowest terms, for the code's floating point averages and P&L | operators |
| `PaperPositions` | `PaperPosition`: fills, fees, marks, settlement | operators |
| `PaperTrading` | the executor with the position its fills make on both sides of flat, then the audit trail and the report's counts, fees and P&L | specification |
| `PaperExecutorProofs` | theorems about `PaperExecutor` and `PaperTrading` | proofs |
| `PaperRun` | `ReplayExecution::run` over the modules above, with the books of the tokens and their freshness | specification |
| `ShadowRun` | the live shadow of that run | specification, extends the former |
| `PaperRunProofs` | theorems about both | proofs |
| `MarketFeeds` | which messages become events; which listed markets are taken | operators |
| `PaperSession` | `run_paper_runtime`, storage, capture, the replay command, the fixture | specification |
| `PaperSessionProofs` | theorems about it | proofs |
| `Configuration` | what `validate` finds wrong in a configuration | operators |
| `LiveJournal` | journal events and the reducer | operators |
| `LiveReconciliation` | `reconcile_live_state` | operators |
| `AccountReadback` | what the authenticated readback makes of an account | operators |
| `StartupRecovery` | local state from the journal, its scope, the verdict | operators |
| `StartupCheck` | the `validate` command and the paper shadow's readiness | specification |
| `LiveVenue` | the venue as the code uses it (not in the repository) | actions |
| `MakerMicroSession` | LA5 session from the submit on, crash, startup recovery | specification |
| `QuoteManager`, `QuoteTick` | `evaluate_quote_manager_tick`; one tick over several quotes | operators, specification |
| `QuoteSession` | LA6 command and session, on LA5's shared steps | actions |
| `LiveSessions` | LA5 and LA6 sessions and recoveries on one account; what the LA8 report counts in their journals, and its recommendation | specification |
| `LiveSessionsProofs` | theorems about the sessions, alone and together | proofs |
| `LiveRisk` | `LiveRiskEngine::evaluate` | operators |
| `MakerQuoting` | LA5 and LA6 from the approval to the submit, by a clock | specification |
| `LiveQuoting` | `MakerQuoting` or a tick | specification |
| `LiveQuotingProofs` | theorems about both | proofs |
| `OneShotApproval` | what a one-shot approval promises | abstract specification |
| `CanaryGates`, `TakerGate` | what LA3, LB6 and LA7 require | operators |
| `CanaryOrders` | LA3, LB6, LA7 and the exact cancel, two at a time | specification, refines `OneShotApproval` |
| `CanaryOrdersProofs` | theorems about it, the refinement among them | proofs |
| `TradingJournal` | LT journal, reconciliation, gate, evidence | actions |
| `TradingRehearsals` | LT baseline, preflight, signing and maker dry runs | actions |
| `LiveTrading` | the rehearsals, then a session that relies on them; or (`CommandsSpec`) the startup check | specification |
| `LiveTradingProofs` | theorems about `LiveTrading`, that `CommandsSpec` keeps to it, and about the checks | proofs |
| `DataLemmas` | lemmas about sums, ratios and folds that several of the proofs cite | proofs |
| `MC...` | constants of the small instances; `MakerMicroSession` and `LiveSessions` need none and are run as they are, with `MakerMicroOrders.cfg`, `RejectedRests.cfg`, `UnreconciledFill.cfg` and `LiveSessions.cfg` | TLC |

`PROJECT.json` maps every definition to its lines. Definitions named `Bug...` are slips the
code might have had; no specification uses them. They stand beside the definition they would
replace, and each property is known to fail with one of them.

### Paper executor

`orders` is the `BTreeMap` by id (ids are handed out in sequence), `queues` is
`maker_queues`. `OpenPaperOrder`, `RejectIntent`, `SimulateMakerFill`, `SimulateTakerFill`,
`CancelOrder` and `ExpireOrder` are the methods. A taker's loop over sorted levels is `Take`:
each level gives what the better ones left over. Prices are ticks and sizes naturals, so the
code's `EPSILON` comparisons are comparisons of integers. `executions`, `printed` and
`aheadAtOpen` are history the properties need and the code does not keep.

### Paper run

`step` is the place in the loop body, `todo` the set of order ids or places of markets still to visit, of which
the code's loops take the least first, so one turn
is several TLA+ steps in the code's order. `Apply` is `StateStore::apply_event` with
`apply_settlement`; `SimulateNext` one call of `simulate_fill` with `record_paper_result`;
`Evaluate` one `evaluate_market`: what the signal engine thinks of an outcome is a free
choice among the orders its data checks let through (it only buys: makers one tick above the
best bid, takers at the average price of the depth); `Approved` is `RiskEngine::evaluate`,
with the resting orders left out of the exposure as the code does. `MarkPositions` ends the
turn. Average prices are exact ratios of integers. The wall clock does not step back.

### Shadow, report and session

`ShadowRun` takes the shadow's context before the paper order opens and appends its decision
after, as `evaluate_market` does, for an edge that is enough for `live_alpha.maker` or not; `Exposure` and `Available` count the orders that rest.
`PaperTrading` counts the audit events of each kind that `PaperExecutionResult` carries and sums
what `PaperReport` does.

`PaperSession` is a program: `pc` names the step. `lines` is `normalized_events.jsonl` in the
order written, each with its ordering key; a write may fail or be cut short (`torn`), and then the
file can no longer be read. What a replay makes of an event depends on all events before it,
so a generated paper event is the set of inputs up to the one it was generated at:
two replays agree exactly if those agree. `Sorted` ranks the lines by `replay_ordering_key`;
`Missing` are the paper events the file lacks, each stamped by the clock and its index among all of them. A capture connects, reads frame by frame until
enough messages, three quiet reads or the deadline, and a read error drops its batch. A signal
is heard where the code selects on it and lost elsewhere. The clock steps back at most
`MaxSteps` times.

`Configuration` decides what a session captures: `Captures` follows the reference feed as
`record_reference_ticks` does. The provider `chainlink` passes validation and brings no prices, so
a session under it captures books without ever having a reference price to trade on.

### Live sessions

`pc` names the await the process is at; `seen` is what its reads returned, so later decisions
use old reads as the code does. `Log(events, done, failed)` appends to the journal: recorded,
or failed with nothing, half a line (`torn`) or the whole line on disk. A torn journal cannot be
replayed at all, as in `LiveOrderJournal::replay`. A submit is accepted, refused, or its
answer is lost, and then it may reach the venue later or never. `SendCancel` has the same
three outcomes. Before an order is accepted an error ends the session; after it, the
`la5_try_after_accept!` paths go through `Cleanup` (`AfterAcceptFailed`), and from the cancel
on errors end the session again, as in the code. `Crash` ends the process anywhere. Startup
recovery reads orders and trades in two steps.

The venue (`LiveVenue`) fills, closes and settles at any time. Rate limits, the duration cap,
market choice and the live risk engine may refuse wherever they are asked; what they decide
is in `MakerQuoting`, which stops at the submit. There `now` runs between any two steps,
`asOf` is the time `select_la5_maker_market_intent` takes before it discovers markets, and each
age is against the clock the code uses for it. Money is in ticks times units.

LA6 differs from LA5 by its approval, which is signed over the trades of the account at that time
and compared by their number in both readbacks, by its write-ahead line (`QuotePlanned`), by
the two ticks, and in that fills are not journaled, only reported. Its second tick comes six
seconds after the book was read, which is more than the five seconds a book stays fresh, so a
quote still open is always canceled or expired then.

`ReportIsTrue` reads the journals as the LA8 report does (`Summary`, `Decision`). Two things it does not
claim, because the code does not do them: `apply_la5_journal` reads neither halts nor failed
reconciliations, so a failed reconciliation of an LA5 session does not make the report unsafe; and
a session that ended without its last line leaves fills and cancels uncounted.

### One-shot commands, checks and live trading

In `CanaryOrders` a run is a process; `at` is the call it is about to make. `caps` are the cap
files, which may be left torn; `hidden` holds trades the venue has not listed yet. A fault -
a call that fails, a lost answer, a write cut short, a crash - meets at most `MaxFaults` runs. The venue
may also answer that it declines an order (`SubmitDeclined`), which only the LA3 verdict looks at.
The LA3, LB6 and LA7 requirements are `CanaryGates` and `TakerGate`, each a set of reasons in
the code's terms. The exact cancel looks, deletes and looks again.

In `StartupCheck` the account is pages that another process may change between two requests;
`check` collects what each request answered. `Foreign` are the trades a baseline takes out of the
reconciliation. `validate` journals the verdict, possibly half of it, and evaluates the gate; the
paper shadow only uses the verdict.

In `TradingRehearsals` `off` is the set of facts that do not hold, `heard` what the calls of
the process answered, and an artifact on `disk` keeps both, so that a property can compare what
it says with what was heard. `TradingJournal` is the reducer with one operator per event kind, the
reconciliation and the gate, an observation being its time unless it calls itself stale; its session is external, and is as free as the tests of those
files use it: it may record anything the venue shows, late, and restart at any time.

## The runs

| Run | Distinct states | What it shows |
|---|---|---|
| `paper_executor` | 328,960 | types, queue entries, status and fills, queue priority; `LedgerIsExact`: fills add up, P&L is cash and holdings through zero and back, averages are prices that were paid; the audit trail and the report tell the orders; `PaperExecutor` implements `PaperOrderLifecycle` |
| `paper_run_feeds` | 431,260 | orders open only on data heard of within the limits, whatever else arrived; no window of a minute holds more orders than the limit |
| `paper_run_fills` | 908,074 | `BooksAgree`: orders, positions and money; no order opens beyond the drawdown; the shadow stays within the market's live limit, is covered by cash, and its divergence count is what was refused |
| `paper_session` | 440,068 | the recorded paper events are how a replay begins; a report stands over a file that explains it, with the prices of the reference feed the configuration names and of no other; a session finds itself divergent only after a signal in a capture or a clock that stepped back; every limited session ends, and a heard signal ends any |
| `maker_orders` | 317,112 | `OutcomesAreReal`: no accepted order abandoned, "completed" means closed, settled and journaled, canceled lines are true; recovery passes only when the journal explains the account; every step of a session brings it nearer to its end (`SessionsComeNearerToTheEnd`) |
| `live_sessions` | 2.3 million | an LA5 and an LA6 session, crashes and recoveries in any order: cap and write-ahead (`ApprovalsSpentInWriting`), the outcomes as above, one order at a time, LA6 orders only over the approved account, and an LA8 report made after any session or crash counts what is so at the venue |
| `live_quoting` | 5.4 million | a session's orders are within its approval in number, money and pace (`KeepsToItsApproval`), clear of the close and of the approved time (`KeepsToItsTime`), and priced behind the book and within the balance; the rates hold over all decisions of a tick, and a quote is left open only when nothing speaks against it |
| `live_canaries` | 979,986 | `CanaryOrders` implements `OneShotApproval`; an accepted order is recorded and reported unless a fault met its run, only the canary is canceled (`OrdersStayTraceable`); verdicts are true of the venue; the taker pays within its approval; every step of a command brings it nearer to its end |
| `live_trading` | 1,130,454 | `RehearsalsAreHonest`: a passed preflight, a passed signing run and an accepted baseline were really heard; the next order waits; a passed reconciliation was told everything; an allowed decision is backed; `ChecksAreSound`: a recovery that passed saw a real, clean, explained account, the gate stands on it, and a configuration with errors runs nothing |
| `maker_lost_submit`, `maker_unreconciled_fill`, `paper_resolved` | | counterexamples, see the findings |

Several of these are conjunctions of statements that stand, each with its comment, beside them
in the module: `LedgerIsExact`, `BooksAgree`, `ShadowKeepsItsLimits`, `RecordIsSound`,
`EndsInTime`, `OutcomesAreReal`, `LiveOutcomesAreReal`, `ApprovalsSpentInWriting`,
`KeepsToItsApproval`, `KeepsToItsTime`, `OrdersStayTraceable`, `RehearsalsAreHonest`,
`ChecksAreSound`.

**Bounds.** `paper_executor`: two tokens, ticks 0..3, six intents (makers and takers of both
sides, invalid price, invalid size), five books (queue ahead, one and two executable levels,
prints at and off the price), two orders. A queue position depends on one order and on the
prints, so two orders are enough to mix them up, and the cycle of prints is unbounded; two orders of
either side open, add to, turn over and close the position. `paper_run_*`: one market of two
tokens, ticks 0..5, five and seven events, two orders; the first run has every kind of event
and time passing, the second the events that move money, and a shadow with room for one of two
orders. Five events suffice to open an order, let data go stale and tempt a second one.
`paper_session`: four reference feeds (of the venue's stream, of Pyth, one that is refused and one
that brings nothing), the book snapshots and that feed in each cycle, one message each of every
sort, two cycles, two listings (one longer than the page limit), one step of the clock. The
websockets of the venue and the exchanges (`Probes`) go through the same steps as the one of the
reference feed and are left out of the instance. `maker_orders`: one approval, two
orders, two units each, three cancel attempts. `live_sessions`: one approval of each kind, one
order each of one unit, two cancel attempts. What two sessions can do to each other is through
the journal, the caps and the account, and one of each kind reaches it; more orders per session
are in `maker_orders`. `live_quoting`: four commands, each with the approval that fits and with
twelve that do not, three books, up to eleven seconds, of which a submit rate's minute is four;
ticks of up to three quotes of seven sorts at rates one or two below their limit, and every
combination of the gates for up to one quote. `live_canaries`: two sending commands and a
cancel, one fault, two polls, one trade: a fault of one command and the steps of another are
what can lose an order's trace. `live_trading`: two orders, one incident, two moments and
observations that live for one, one rehearsal lacking at most two facts (or all); one check, of
eight accounts, five journals and eighteen configurations (three of them refused), with one move of the account between
two requests. Orders of the trading session are interchangeable, hence the symmetry.

**Deadlock** is checked where something must always be possible (`paper_run_*`, where
`Finished` is the end). It is not where a run may really be over: all ids handed out and orders
closed, all approvals used, all commands over, the tick decided.

**Fairness.** Only `paper_session` has liveness, under weak fairness of `SessionStep`, the next
step of the process itself. The code justifies it there: each read of a capture has a timeout, the
cycles of a session are limited, and the process runs until it ends or crashes. Nothing is assumed
of the feeds: they may be silent forever.

The live side is not fair. The SDK's clients are made with `Config::default()`, which sets no
timeout (`src/live_maker_micro.rs:210`), the submits, cancels and reads of an LA5 session await
them bare (`src/main.rs:6111`, `6277`), and its duration cap is compared only between the awaits
(`src/main.rs:5976`, `7166`). A call that is never answered holds the session there, with its
order resting. What the code does see to is that nothing is retried or repeated for ever, and that needs no fairness
to state: `SessionsComeNearerToTheEnd` and `StepsComeNearerToTheEnd` say that every step of a
session or of a one-shot command is one nearer to its end, whatever the venue does in between.

## What the code does otherwise

Three runs check what a document or a test of the repository says, and TLC finds a behaviour
of the code in which it is false.

1. `maker_lost_submit`, `RejectedNeverRests`: any error of the submit call is journaled as
   `MakerOrderRejected` with "submit failed before acceptance" (`src/main.rs:6113`), without a
   readback. If only the answer was lost, the order rests at the venue.
   `LIVE_ALPHA_PRD.md:1084`: "Never assume a submit failed just because the network response
   failed." Every later session's readback refuses to start while it rests.
2. `maker_unreconciled_fill`, `NoSubmitOverUnreconciledFill`: a session takes all trades of
   its first readback as its baseline (`src/main.rs:5929`), and the LA5 command does not ask for
   a startup recovery, so it submits over fills that no journal line names. The LA5 lines that do
   name fills name them as the array `trade_ids`, and the reducer reads only `trade_id`
   (`src/live_order_journal.rs:262`), so recovery can pass only while the readback has no trade
   of an LA5 session (`LIVE_ALPHA_IMPLEMENTATION_PLAN.md:606` wants the trade state
   reconstructed from the journal).
3. `paper_resolved`, `ResolvedIsSettled`: a resolved market's positions are marked at their
   outcome and, in the same turn, at the middle of the book again
   (`src/replay.rs:402-407`), so the settlement shows in no report.

Modelled as the code has it, and not asked as a property:

- `additional_exposures` is empty (`src/replay.rs:926`), so paper orders that rest count for
  nothing when the next is approved, and together they fill beyond `PRD.md:198`'s "Max paper
  notional per market".
- A signal in the middle of a capture ends the session with an error, because the final replay
  generates events no cycle recorded (`src/main.rs:1335`); `docs/m8-observability-runbook.md:124`
  lists other reasons for a nonzero exit.
- The LA7 polling ends when a late trade is also the venue's mismatch (`src/main.rs:10475`).
- `validate` over a missing journal fails once; the line it writes creates the journal, and the
  next one starts from it (`src/main.rs:13112`).
- An order or trade the journal knows and the readback no longer shows is narrowed away before
  the reconciliation (`src/main.rs:13025`).
- The LT reducer drops "reconciled" at the next intention only: an incident opened and reviewed
  again counts as reviewed, and an order intended but not accepted is no mismatch.

## The proofs

Every theorem holds for every value of the constants that meets the assumptions: any number of
orders, approvals, intents, books, fills, ticks, any clock. Each is about the specification the
run of the same property checks.

| Module | Theorems |
|---|---|
| `PaperExecutorProofs` | `TypeCorrect`, `QueuesMatchOrders`, `FillsWithinSize`, `QueueIsNeverJumped` (`Spec => []QueuePriority`), `ImplementsLifecycle` (the refinement of `PaperOrderLifecycle`), `FillsAreCounted`; of the position and report, `LedgerStaysExact`, `AuditTrailIsKept`, `ReportsAddUp` |
| `PaperRunProofs` | `OrderRateKept`, `OpensOnlyOnFreshData`, `RunsTheExecutor` (the run is, of its orders, a behaviour of `PaperExecutor`), `ThreeAccountsAgree` (`RunSpec => []BooksAgree`), `HaltsAtDrawdown`; of the shadow, `ShadowOnlyWatches`, `DivergenceIsTrue`, `ShadowIsCovered`, `LimitsAreKept` (`ShadowSpec => []ShadowKeepsItsLimits`) |
| `PaperSessionProofs` | `RecordHolds` (`Spec => []RecordIsSound`), `ReportHolds` (`ReportIsAudited`), `DivergenceIsExplained` (`DivergesOnlyWhenDisturbed`) |
| `LiveSessionsProofs` | of LA5 sessions and of LA5 and LA6 sessions together: `SpentInWriting`, `OneOrderAtATime`, `MakerOutcomes`, `RecoveryIsExplained`, `SubmitsAsApproved`, `LiveOutcomes`, `LiveOutcomesHold` (with the LA8 report); of LA5 sessions `SessionsComeToAnEnd` |
| `CanaryOrdersProofs` | `ApprovalsWorkOnce` (the refinement of `OneShotApproval`), `OrdersAreTraceable`, `VerdictsHold`, `TakerPaysNoMore`, `CommandsComeToAnEnd` |
| `LiveQuotingProofs` | `SessionsKeepToTheApproval`, `SessionsKeepToTheTime`, `SessionsQuoteBehindTheBook`, `TicksHoldTheRates`, `TicksKeepOnlyWhatIsSound` |
| `LiveTradingProofs` | `TypeCorrect`, `RehearsalsHonest`, `OrdersWait`, `PassedTells`, `AllowedIsBackedHolds`, and `CommandsTrade`: a behaviour of `CommandsSpec` is one of `Spec`, so they hold of it; `ChecksAreSoundHolds`, of the checks of the live_alpha account |
| `DataLemmas` | no theorem of its own: sums, ratios, folds |

**The executor.** `QueuePriority` speaks of what an order was filled and what was printed
since it opened; the code looks at neither but at the queue position. `QueueBookkeeping`
connects the two: the position of a resting order is what the printed volume left of the
queue it joined, and an order that has one was not rejected. That needs
`QueueExactlyForRestingMakers` (a resting maker has a position, so `SimulateMakerFill` never
reads a missing one), and `OpenedValid` and `StatusAgreesWithFills` (what remains is positive
while the order is live, so a fill is capped once and stays below the size). Their
conjunction with `TypeOK` is `IInv`, which TLC checked as an invariant first.

**Ledger and report.** The code never stores what `LedgerIsExact` compares: P&L is updated fill by
fill from a net size and an average. The invariant `BooksInv` adds to `IInv` that the fills add up
and that position, cash and entry prices are `Balanced`: the realized P&L is the cash plus the
net size at the average, and that average lies between the entry prices. One fill keeps a balanced
account balanced, in each of the four cases of `apply_fill` (open, add, reduce, turn over), and an
execution is a sequence of such fills, one per level. For the report, `ReportInv` adds that the
audit events were counted and that the fees of the position and the filled sizes of all orders are
the sums over the fills so far; that the P&L the report works back to is the gross one then follows from
the laws of ratios and of folds.

**The run.** `OrderRateHolds` needs no more than that the clock does not go back (`RateInv`): an order
that opens now is in no earlier window, and its own window has what `RecentOrders` counted and itself.
`OpensOnFreshData` compares the code's ages, which come from the books and reference prices themselves, with
`heard`, the times at which something of that token or asset last arrived. `RunInv` says that the two never
disagree in the harmful direction: no book and no price is stamped later than what was heard. It also types
the books, the orders and the intents an evaluation may choose, which is what
`RunsTheExecutor` needs: every turn of the loop opens, fills and leaves orders only as a step of
`PaperExecutor` may, or leaves them alone, so what is proved of the executor
holds of the orders of every run.

`BooksAgree` joins three accounts the code keeps apart. The position of a token changes only by what
an execution adds (`Flow`): the signed size to its net, the price and fee to its cash. `AccountsInv` says that
each position's net is the sum of the signed fills of its orders and its realized P&L is its cash
plus its net at the average, and a step changes both sides of each equation by the same fill: one order, one
token, one new execution (`NetGrows`, `CashGrows`); for every other token both stay (`CashStays`, `Keeps`). That an execution of several
levels may be booked as one flow is the fold lemma the ledger also uses (`BookedFold`). `PlacesInv`
says that there is a position where, and only where, there were fills, `LifeInv`, `StepInv` and `CountInv` the rest of the run's types.
From the same invariant the equity `RiskEngine` computes from realized and unrealized P&L is, position by
position, the cash and the holdings at their last marks (`WorthIs`), and so the guard on the one is the
halt on the other (`HaltsAtDrawdown`).

The shadow
leaves the run's variables alone (`ShadowOnlyWatches`), and `DecisionsInv`, that a decision without a paper
order is never a submit and that the others are the orders in sequence, gives the divergence count.
`SentInv` ties every decision to send to the paper order it was taken with, one to one: that order is a
maker of the decision's token and notional. So what was sent in a market is no more than what its
unclosed orders and positions come to, which is the exposure the shadow had to leave below the live limit. That
needs `BoughtInv`: a run only ever buys, so what the makers of a token spent is no more than its position
cost, whatever takers paid beside them. The equations of `AccountsInv` turn the balance the code works
out from realized P&L and average prices into the payments `ShadowOrderIsCovered` speaks of.

**The paper session.** A replay looks at the whole file, so the statement about one more line is a
statement about sorting: a line stamped after those of its kind leaves every rank before its own as it was.
`InputGrows` and `PaperGrows` say what that does to both lists: an input adds at most one generated event, at the
end, over all inputs so far; a paper event is recorded last and changes nothing that is
generated. `OrderInv` is what makes their premises true while the clock goes forward: every input in the
file is stamped before the clock, what waits to be stored after the file and in order, the paper events
before the clock plus their number; what waits at `store.paper` is exactly what is missing; and between cycles
nothing is missing, but for a signal inside a capture. `RecordIsSound` and `DivergesOnlyWhenDisturbed` follow. `ReportIsAudited` does
not depend on the clock: `OutputsInv` says that outputs are written in their order, only after the
comparison at the end, over a file that nothing touches afterwards, and `FedSoFar` counts a price
of the reference feed for each cycle, from the capture that must bring an event, through the
pending lines, into the file.

**Sessions.** `IInv(Q)` has the process and what it has read on one side, the files and the venue on
the other. Its parts say which cap file and journal line exist for each place the process can be
at (`CountInv`, `WriteAhead`), that at most one order rests besides those that arrived late
(`FlatInv`, `LateInv`), that an order is left behind only after its cancel (`PlacedInv`,
`AbandonInv`, `CancelsInv`), and that what a read returned is still true of the venue in the sense
the code relies on: a confirmed trade stays confirmed, a closed order stays closed (`ReadsInv`,
`RecoveryInv`). `Q` is the set of LA6 approvals, so one proof serves both specifications. The some forty
actions are first shown to be of nine kinds, by what they may change. The LA8 report counts lines,
not orders. `RepInv` says what makes the two the same: a line that tells an order was placed, canceled
or stopped is true of it (`LinesInv`), an order that a session is done with has its lines
(`ToldInv`), and each line is that order's only one of its type, being determined by the order once
nothing of it can change (`Over`). The counts are then equal because lines and orders are in bijection. `SessionsComeToAnEnd` takes each
action of an LA5 session to a place further on, or to its cancel with one retry less, or to its next
order (`StepGoesAhead`), and each of the three lowers the measure (`AheadIsNearer`).

**One-shot commands.** At most one run of a kind is `Granted` its order, because the cap file is
reserved before the journal line and the submit; with that each step of a run spends an approval,
sends the order of a spent one, or changes neither. A verdict is
sound because the answer "matched" means a closed order of a single trade, so that one confirmed
trade is all of them (`AnswerSound`, `VerdictSound`), whenever the venue lists it. `CommandsComeToAnEnd` is an action property: a
measure of each run falls with each of its steps, whatever the venue does in between.

**Quoting.** `MakerInv` follows one quote: what `Select` chose was sound against the book and the
balance, what risk and plan approved was within the limits at *their* time, and the parts say how
old each is when the next gate relies on it. `TickInv` relates the decisions so far to the usage
that was counted.

**Live trading.** `JInv`: a passed reconciliation and an allowed decision cover every order intended
so far. `RInv`: what a running rehearsal believes was heard, its preconditions held, and so the
file it writes says no more than that.

**Checks.** A check is a record that each stage updates. `CheckInv` says what it may hold at each:
credentials are only there once the place has passed and the holds are released (`ReadAllowed`);
what is read so far is what the account listed when that request was answered (`ReadTyped`,
`ReadSoFar`), though the account may have moved since; a readback is live only with all four answers, and its
reasons are those of these answers (`LiveIsRead`); and before its end a check has reported no
gate (`GateStands`). A recovery that passes has found no reason to halt, so that readback, journal and
reconciliation passed together: no reason of the readback leaves only confirmed trades
(`NoReasonMeansClean`), no mismatch leaves only explained ones (`NoMismatchMeansAgreed`). The lines it
then appends add to the journal and take nothing back (`OwnersStay`), so what passed stays explained.

**Data.** The provers have no induction over data with an operator as parameter, but they have
sets: `DataLemmas` proves what it needs of `SumFunctionOnSet`, `FoldLeft` and of taking an order
level by level from a least counterexample in a well-founded order (`SubsetInduction`). Sums over
sequences and sets then follow few laws (`SumEmpty`, `SumOneMore`, `SumRemove`, `SumAdd`). `Ratios` are in lowest terms, so that
equal values are equal records; `SameValue` is proved from the divisors, and the laws of addition
and multiplication from that.

**Assumptions.** All of them are on constants, named in the module that declares them, and
evaluated by TLC in the runs: types of fees, quotes, requests and ticks as the
code's types have them, and of the intents and books an instance is asked and shown (`InstanceAssumption`, `FeeAssumption`,
`TakerAssumption`, `RequestsAssumption`, `TicksAssumption`, `RehearsalsAssumption`); limits the
validation of approvals and configuration enforces (`LimitsAssumption`: an LA5 session has up to three orders;
`PolicyAssumption`, `QuotingAssumption`); that an order is identified by its approval and number or
by its run (`ApprovalsAssumption`, `OrdersAssumption`, `QuoteApprovalsAssumption`); that no trade is
none (`NoTradeAssumption`) and no token is without a name (`TokensAssumption`); that updates name tokens and assets of the run and carry prices and volumes,
and that ages, limits and step sizes are numbers (`MarketsAssumption`, `UpdatesAssumption`, `NumbersAssumption`); that the starting balance and the market's live
limit are not negative (`BalanceAssumption`, `LimitsAssumption` of `ShadowRun`); that tokens and assets are
finitely many, messages are sequences of items and the outputs of a session have different names
(`FeedsAssumption`, `OutputsAssumption`, `ProbesAssumption`, `BoundsAssumption`); that the trades an account lists have a status of
`TradeReadbackStatus`, its balance is unsigned, and a journal has the parts it is reduced to (`ChecksAssumption`). No fact about sums, folds or sequences is assumed.

**Only model-checked.** Liveness (`EndsInTime`): fairness is out of the prover's reach. Every invariant and every action property of the passing runs is stated by a theorem.

Three definitions changed because a proof showed them wrong. An LB6 run that is refused used to
lose its kind in `CanaryOrders`, so that later statements about it said nothing; it keeps it, as in
`src/main.rs`. `Suits` of `MakerQuoting` lacked the code's guard on a market's least order size. And a
recorded paper event of `PaperSession` was stamped by its place in the batch, where the code adds its index among
all paper events (`src/main.rs:2404`): with the former, events of two cycles could change places. Writing the records of `StartupCheck` as the provers read them
showed two more: the scan of the venue's markets stops at the first open one, so that a page too many
behind it is no error (`MarketPages`), and a `UNION` within a union of reasons was written so that it could be read in two ways.

## What is left out

- Two sessions at once: LA5 and LA6 commands under different approvals could run concurrently;
  `LiveSessions` runs one process at a time. The one-shot commands do run two at a time. An LA5 or
  LA6 session beside a one-shot command is left out.
- Texts of approvals and artifacts, signing, HTTP, JSON and number formats: their
  outcome is fields, an input or a refusal.
- Pages of a readback are in `StartupCheck` only; for the sessions it is one read of the orders
  and one of the trades.
- LA5 and LA6: an order that rests although the cancel's answer names it. The code writes the
  cancel down on that answer (`src/main.rs:6303`, `7240`), although `LIVE_ALPHA_PRD.md:1085` asks
  not to assume it, so `SendCancel` assumes that the venue tells the truth there. `CanaryOrders` models the answered
  but standing order of a one-shot cancel.
- Order ids other than the one submitted: an answer that names another order, and cancels that
  are not exact, are not modelled for LA5 and LA6.
- Rate slots, markets and risk decisions in `MakerMicroSession`, and fills in `MakerQuoting`:
  each module is free where the other is exact, and no property needs both.
- Paper run: probabilities and expected values (a proposal's edge may be too small for the shadow or not), books under a condition id, several reference
  sources per asset. All assets count as correlated, so one limit stands for the smaller of
  total and correlated notional.
- Paper run: a wall clock that steps back, which makes the age of old data zero
  (`src/state/order_book.rs:79`). In `PaperSession` it does step back. `ARCHITECTURE.md:431-439`
  asks for monotonic time for ordering and staleness; the code uses the wall clock for both.
- Volume of duplicated prints: each delivery counts as a print, as in the code.
- Sums of cancels and fees in the LT journal: nothing is judged by them.
- Configuration: a value that is only looked at alone is in range or not; the overrides from the
  environment are left out.
- Latency, staleness and missed-opportunity figures of a report, and the metric samples.
- LA8 report: what it reads of LA3, LA7, paper and shadow reports, and its sums of money.
- Fingerprint mismatches, which nothing sets.

**Not modelled**, with the reason: *shutdown state*, written around a finished command and read by none; *domain and event types*,
data only; *live heartbeat and user events*, never posted or fed by production code in this
build; *balance tracker and position book*, which production code never changes.

## Plan

Done: the paper executor with its proofs; positions, report, the paper run and its shadow; the
paper session with capture, normalization and discovery; journal, readback, reconciliation,
recovery and the checks that use it; configuration; LA8's reading of the journals; LA5 and LA6 from approval to outcome, quote manager; LA3,
LB6 and LA7; LT rehearsals, journal and gate.

Proved: the executor, ledger and report; the rate, the freshness, the accounts and the drawdown halt of
the paper run, and its shadow; the record, the report and the verdict of a paper session; the live
sessions; the one-shot commands; maker quoting and the tick of the quote manager; live trading and the checks of the live_alpha account.

Next, in this order:

1. **Signal engine**: probability and expected value in integer arithmetic, checked against a
   reference definition over bounded inputs.
2. **Two sessions at once** in `LiveSessions`, each on its own approval.
