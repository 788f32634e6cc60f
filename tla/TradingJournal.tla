--------------------------- MODULE TradingJournal ---------------------------
(***************************************************************************)
(* The final-live journal, reconciliation, gate and evidence of LT2:       *)
(* src/live_trading_journal.rs, live_trading_reconciliation.rs,            *)
(* live_trading_gate.rs and live_trading_evidence.rs, around a venue that  *)
(* accepts, fills and settles on its own.  No command of this build calls  *)
(* them; the session that journals what it intends and observes, and asks  *)
(* the gate before each intention, is external, used as their tests do.    *)
(*                                                                         *)
(* An order has the name of its intention and one trade of its own; sizes  *)
(* and prices are those of the order.  Cancels that are intended and fees  *)
(* are left out: they are summed, and nothing is judged by the sums.       *)
(***************************************************************************)
EXTENDS Integers, FiniteSets

CONSTANTS
  Orders, Incidents,
  MaxAge,          \* max_age_ms of an observation
  LastTime         \* bound on the clock

ASSUME TradingJournalAssumption ==
  IsFiniteSet(Orders) /\ MaxAge \in Nat /\ LastTime \in Nat

None == "none"
Unseen == -1
Stale == -2
Live == "live"
Matched == "matched"

VARIABLES
  journal,    \* LiveTradingJournalState
  venue,      \* [orders, trades, settled]: what really happened
  now,
  report,     \* the last reconciliation: None, "passed" or "halt_required"
  decision,   \* the last gate decision
  covered     \* history: the intentions made before the last passed reconciliation

jvars == <<journal, venue, now, report, decision, covered>>

-----------------------------------------------------------------------------
(* reduce_live_trading_journal_events: one operator per event kind.        *)

EmptyJournal ==
  [intended |-> {}, accepted |-> << >>, fills |-> << >>,
   balance |-> Unseen, position |-> 0, settled |-> FALSE,
   incidents |-> {}, reviewed |-> {}, passed |-> FALSE, halted |-> FALSE,
   heartbeat |-> Unseen, geoblock |-> Unseen]

Put(map, key, value) ==
  [k \in DOMAIN map \cup {key} |-> IF k = key THEN value ELSE map[k]]

(* A new intention makes every earlier reconciliation out of date. *)
BugIntended(j, order) == [j EXCEPT !.intended = @ \cup {order}]
Intended(j, order) ==
  [j EXCEPT !.intended = @ \cup {order}, !.passed = FALSE, !.halted = FALSE]
Reconciled(j, passed) == [j EXCEPT !.passed = passed, !.halted = ~ passed]

Unreviewed(j) == j.incidents \ j.reviewed
(* previous_order_reconciled_or_incident_reviewed *)
PreviousResolved(j) ==
  j.intended = {} \/ j.passed \/ (j.halted /\ Unreviewed(j) = {})

(* is_fresh_at: an observation is its time, or Stale when it says so of    *)
(* itself, which in the journal is as good as none; one that does not went *)
(* stale or comes from the future all the same.                            *)
FreshAt(observation, time) ==
  observation \notin {Unseen, Stale} /\ 0 <= time - observation /\ time - observation <= MaxAge

-----------------------------------------------------------------------------
(* reconcile_live_trading_state.                                           *)

If(reason, condition) == IF condition THEN {reason} ELSE {}

OrderMismatches(local, read) ==
  If("unknown_venue_order", ~ DOMAIN read \subseteq DOMAIN local)
  \cup If("accepted_order_drift",
          \E o \in DOMAIN read \cap DOMAIN local : read[o] # local[o])
  \cup If("missing_accepted_order", ~ DOMAIN local \subseteq DOMAIN read)

BugTradeMismatches(accepted, local, read) ==     \* the journal's fills only
  If("unknown_trade", ~ DOMAIN local \subseteq DOMAIN read)
  \cup If("unexpected_fill", \E t \in DOMAIN read \cap DOMAIN local : read[t] # local[t])
TradeMismatches(accepted, local, read) ==
  If("unknown_trade", DOMAIN local # DOMAIN read)
  \cup If("unexpected_fill",
          \/ ~ DOMAIN read \subseteq accepted
          \/ \E t \in DOMAIN read \cap DOMAIN local : read[t] # local[t])

(* An observation in the readback replaces a newer one of the journal.     *)
FirstOf(observation, other) == IF observation # Unseen THEN observation ELSE other

Mismatches(j, read, time) ==
  OrderMismatches(j.accepted, read.orders)
  \cup TradeMismatches(DOMAIN j.accepted, j.fills, read.trades)
  \cup If("balance_drift", j.balance # read.balance)
  \cup If("position_drift", j.position # read.position)
  \cup If("settlement_mismatch", j.settled # read.settled)
  \cup If("stale_heartbeat", ~ FreshAt(FirstOf(read.heartbeat, j.heartbeat), time))
  \cup If("stale_geoblock", ~ FreshAt(FirstOf(read.geoblock, j.geoblock), time))
  \cup If("unreviewed_incident", Unreviewed(j) # {})

-----------------------------------------------------------------------------
(* evaluate_live_trading_gate.  A status is passed, failed or unknown.     *)

(* push_readiness_block: failed and unknown block alike. *)
NotPassed(input, names) == {n \in names : input[n] # "passed"}
BugGateReasons(input) ==          \* the preflight's verdict is left out
  If("final_live_config_disabled", ~ input.enabled)
  \cup NotPassed(input, {"replay", "hash", "reconciliation"})
  \cup If("previous_order_unresolved", ~ input.previous)
GateReasons(input) ==
  If("final_live_config_disabled", ~ input.enabled)
  \cup NotPassed(input, {"preflight", "replay", "hash", "reconciliation"})
  \cup If("heartbeat_stale", ~ input.heartbeat)
  \cup If("geoblock_stale", ~ input.geoblock)
  \cup If("previous_order_unresolved", ~ input.previous)
  \cup If("write_capability_present", input.canWrite)
  \cup If("live_write_observed", input.wrote # {})

(* What the session hands the gate: the last report, the journal now.  LT2 *)
(* has nothing that can write, and has written nothing.                    *)
StatusOf(r) == CASE r = "passed" -> "passed" [] r = "halt_required" -> "failed" [] OTHER -> "unknown"
GateInput(enabled, preflight, hash) ==
  [enabled |-> enabled, preflight |-> preflight, replay |-> "passed", hash |-> hash,
   reconciliation |-> StatusOf(report),
   heartbeat |-> FreshAt(journal.heartbeat, now), geoblock |-> FreshAt(journal.geoblock, now),
   previous |-> PreviousResolved(journal), canWrite |-> FALSE, wrote |-> {}]

(* LiveTradingEvidenceBundleBody::from_input. *)
Summary(j) ==
  [intended |-> Cardinality(j.intended), accepted |-> Cardinality(DOMAIN j.accepted),
   fills |-> Cardinality(DOMAIN j.fills),
   unreviewed |-> Cardinality(Unreviewed(j)),
   resolved |-> PreviousResolved(j)]
Bundle(j, r, d) == [summary |-> Summary(j), reconciliation |-> r, gate |-> d]

-----------------------------------------------------------------------------
NoVenue == [orders |-> << >>, trades |-> << >>, settled |-> FALSE]
JInit ==
  /\ journal = EmptyJournal /\ venue = NoVenue /\ now = 0
  /\ report = None /\ decision = None /\ covered = {}

(* The venue moves on its own. *)
Accept ==
  /\ \E o \in journal.intended \ DOMAIN venue.orders :
       venue' = [venue EXCEPT !.orders = Put(@, o, Live)]
  /\ UNCHANGED <<journal, now, report, decision, covered>>
Fill ==
  /\ \E o \in {p \in DOMAIN venue.orders : venue.orders[p] = Live} :
       venue' = [venue EXCEPT !.orders = Put(@, o, Matched), !.trades = Put(@, o, o)]
  /\ UNCHANGED <<journal, now, report, decision, covered>>
Settle ==
  /\ ~ venue.settled /\ venue.trades # << >>
  /\ venue' = [venue EXCEPT !.settled = TRUE]
  /\ UNCHANGED <<journal, now, report, decision, covered>>
Tick ==
  /\ now < LastTime
  /\ now' = now + 1
  /\ UNCHANGED <<journal, venue, report, decision, covered>>

(* The session appends what it observes, one thing at a time, late or not. *)
Record(j) ==
  /\ journal' = j /\ journal' # journal
  /\ UNCHANGED <<venue, now, report, decision, covered>>
ObserveAccepted ==
  \E o \in DOMAIN venue.orders :
    Record([journal EXCEPT !.accepted = Put(@, o, venue.orders[o])])
ObserveFill ==
  \E t \in DOMAIN venue.trades : Record([journal EXCEPT !.fills = Put(@, t, venue.trades[t])])
Traded == Cardinality(DOMAIN venue.trades)
ObserveBalance == Record([journal EXCEPT !.balance = Traded])
ObservePosition == Record([journal EXCEPT !.position = Traded])
ObserveSettlement == venue.settled /\ Record([journal EXCEPT !.settled = TRUE])
ObserveHeartbeat == \E seen \in {now, Unseen} : Record([journal EXCEPT !.heartbeat = seen])
ObserveGeoblock == \E seen \in {now, Unseen} : Record([journal EXCEPT !.geoblock = seen])
OpenIncident == \E i \in Incidents : Record([journal EXCEPT !.incidents = @ \cup {i}])
ReviewIncident ==
  \E i \in journal.incidents : Record([journal EXCEPT !.reviewed = @ \cup {i}])

(* The account read back, with or without observations of its own.         *)
Readback(heartbeat, geoblock) ==
  [orders |-> venue.orders, trades |-> venue.trades, balance |-> Traded, position |-> Traded,
   settled |-> venue.settled, heartbeat |-> heartbeat, geoblock |-> geoblock]
Reconcile ==
  \E mismatches \in {Mismatches(journal, Readback(h, g), now) : h, g \in {Unseen, Stale, now}} :
    LET passed == mismatches = {} IN
    /\ report' = IF passed THEN "passed" ELSE "halt_required"
    /\ journal' = Reconciled(journal, passed)
    /\ covered' = IF passed THEN journal.intended ELSE covered
    /\ UNCHANGED <<venue, now, decision>>

(* The gate's answer. *)
AskGate(enabled, preflight) ==
  /\ LET reasons == GateReasons(GateInput(enabled, preflight, "passed"))
     IN decision' = IF reasons = {} THEN "allowed" ELSE "blocked"
  /\ UNCHANGED <<journal, venue, now, report, covered>>

(* An allowed decision is used once.          *)
IntendOrder ==
  /\ decision = "allowed"
  /\ \E o \in Orders \ journal.intended : journal' = Intended(journal, o)
  /\ decision' = None
  /\ UNCHANGED <<venue, now, report, covered>>

(* The session starts again: the journal is replayed, all else forgotten.  *)
Restart ==
  /\ report' = None /\ decision' = None 
  /\ UNCHANGED <<journal, venue, now, covered>>

JNext(enabled, preflight) ==
  \/ Accept \/ Fill \/ Settle \/ Tick
  \/ ObserveAccepted \/ ObserveFill \/ ObserveBalance \/ ObservePosition
  \/ ObserveSettlement \/ ObserveHeartbeat \/ ObserveGeoblock
  \/ OpenIncident \/ ReviewIncident
  \/ Reconcile \/ AskGate(enabled, preflight) \/ IntendOrder \/ Restart

-----------------------------------------------------------------------------
JTypeOK ==
  /\ journal.intended \subseteq Orders /\ DOMAIN journal.accepted \subseteq Orders
  /\ DOMAIN journal.fills \subseteq DOMAIN venue.trades
  /\ journal.reviewed \subseteq journal.incidents /\ journal.incidents \subseteq Incidents
  /\ ~ (journal.passed /\ journal.halted)
  /\ now \in 0..LastTime /\ covered \subseteq journal.intended
  /\ report \in {None, "passed", "halt_required"}
  /\ decision \in {None, "allowed", "blocked"}

(* "Reconciliation must block the next order until the previous order is   *)
(* reconciled or incident-reviewed" (LIVE_TRADING_IMPLEMENTATION_PLAN.md): *)
(* no order is intended before a reconciliation made after every earlier   *)
(* intention has passed, whatever was observed, halted, reviewed or        *)
(* restarted meanwhile.                                                    *)
NextOrderWaits ==
  [][journal'.intended # journal.intended => journal.intended \subseteq covered]_jvars

(* When a reconciliation passes the journal has told the whole account:    *)
(* every order the venue has, in its last state, every trade, what they    *)
(* did to the account, and its settlement.                                 *)
PassedMeansTold ==
  [][(report' = "passed" /\ (report # "passed" \/ (journal'.passed /\ ~ journal.passed))) =>
       /\ journal.accepted = venue.orders /\ journal.fills = venue.trades
       /\ journal.balance = Traded /\ journal.position = Traded
       /\ journal.settled = venue.settled]_jvars
=============================================================================
