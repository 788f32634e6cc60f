------------------------- MODULE LiveTradingProofs -------------------------
(***************************************************************************)
(* Proofs about LiveTrading, alone and among the commands, for any orders, *)
(* incidents, ages, configurations and number of commands; and about the   *)
(* checks of the live_alpha account, for any accounts and journals.        *)
(***************************************************************************)
EXTENDS LiveTrading, Sequences, FiniteSetTheorems, TLAPS

-----------------------------------------------------------------------------
(* The session, its journal and the venue.                                 *)

Maps(V) == UNION {[S -> V] : S \in SUBSET Orders}
JournalType ==
  [intended : SUBSET Orders, accepted : Maps({Live, Matched}), fills : Maps(Orders),
   balance : {Unseen} \cup Nat, position : Nat, settled : BOOLEAN, incidents : SUBSET Incidents,
   reviewed : SUBSET Incidents, passed : BOOLEAN, halted : BOOLEAN,
   heartbeat : {Unseen} \cup (0..LastTime), geoblock : {Unseen} \cup (0..LastTime)]
VenueType ==
  [orders : Maps({Live, Matched}), trades : Maps(Orders), settled : BOOLEAN]

(* What the gate relies on: a reconciliation that is still on record has   *)
(* covered every intention, and a report that passed goes with no halt.    *)
JInv ==
  /\ journal \in JournalType
  /\ venue \in VenueType
  /\ DOMAIN venue.orders \subseteq journal.intended
  /\ DOMAIN journal.fills \subseteq DOMAIN venue.trades
  /\ journal.reviewed \subseteq journal.incidents
  /\ now \in 0..LastTime
  /\ covered \subseteq journal.intended
  /\ report \in {None, "passed", "halt_required"}
  /\ decision \in {None, "allowed", "blocked"}
  /\ ~ (journal.passed /\ journal.halted)
  /\ report = "passed" => ~ journal.halted
  /\ journal.passed => journal.intended \subseteq covered
  /\ decision = "allowed" => journal.intended \subseteq covered

LEMMA PutMaps ==
  ASSUME NEW V, NEW map \in Maps(V), NEW key \in Orders, NEW value \in V
  PROVE  Put(map, key, value) \in Maps(V)
<1>1. PICK S \in SUBSET Orders : map \in [S -> V]
  BY DEF Maps
<1>2. DOMAIN map = S
  BY <1>1
<1>3. Put(map, key, value) \in [S \cup {key} -> V]
  BY <1>1, <1>2 DEF Put
<1>4. S \cup {key} \in SUBSET Orders
  OBVIOUS
<1> QED
  BY <1>3, <1>4 DEF Maps

LEMMA PutDomain ==
  ASSUME NEW map, NEW key, NEW value
  PROVE  DOMAIN Put(map, key, value) = DOMAIN map \cup {key}
BY DEF Put

LEMMA MapsAreEqual ==
  ASSUME NEW V, NEW f \in Maps(V), NEW g \in Maps(V),
         DOMAIN f = DOMAIN g, \A o \in DOMAIN f : f[o] = g[o]
  PROVE  f = g
<1>1. PICK S \in SUBSET Orders : f \in [S -> V]
  BY DEF Maps
<1>2. PICK T \in SUBSET Orders : g \in [T -> V]
  BY DEF Maps
<1>3. S = T
  BY <1>1, <1>2
<1> QED
  BY <1>1, <1>2, <1>3

(* The trades of a venue are counted by a natural number. *)
LEMMA TradedIsNat ==
  ASSUME JInv
  PROVE  Traded \in Nat
<1>1. DOMAIN venue.trades \subseteq Orders
  BY DEF JInv, VenueType, Maps
<1>2. IsFiniteSet(DOMAIN venue.trades)
  BY <1>1, TradingJournalAssumption, FS_Subset
<1> QED
  BY <1>2, FS_CardinalityType DEF Traded

LEMMA MapsTyped ==
  ASSUME JInv
  PROVE  /\ journal.accepted \in Maps({Live, Matched}) /\ journal.fills \in Maps(Orders)
         /\ venue.orders \in Maps({Live, Matched}) /\ venue.trades \in Maps(Orders)
BY DEF JInv, JournalType, VenueType

LEMMA JInvInit == JInit => JInv
<1> SUFFICES ASSUME JInit PROVE JInv
  OBVIOUS
<1>1. \A V : << >> \in Maps(V)
  <2> TAKE V
  <2>1. << >> \in [{} -> V]
    OBVIOUS
  <2> QED
    BY <2>1 DEF Maps
<1>2. journal \in JournalType
  BY <1>1, TradingJournalAssumption DEF JInit, EmptyJournal, JournalType
<1>3. venue \in VenueType
  BY <1>1 DEF JInit, NoVenue, VenueType
<1> QED
  BY <1>2, <1>3, TradingJournalAssumption
  DEF JInit, JInv, EmptyJournal, NoVenue, None

(* What the venue does on its own. *)
LEMMA JInvVenue ==
  ASSUME JInv, Accept \/ Fill \/ Settle \/ Tick
  PROVE  JInv'
<1>1. CASE Accept
  <2>1. PICK o \in journal.intended \ DOMAIN venue.orders :
          venue' = [venue EXCEPT !.orders = Put(@, o, Live)]
    BY <1>1 DEF Accept
  <2>2. o \in Orders
    BY DEF JInv, JournalType
  <2>3. Put(venue.orders, o, Live) \in Maps({Live, Matched})
    BY <2>2, MapsTyped, PutMaps, Zenon
  <2>3a. DOMAIN Put(venue.orders, o, Live) = DOMAIN venue.orders \cup {o}
    BY PutDomain
  <2>4. /\ venue' \in VenueType
        /\ DOMAIN venue'.orders \subseteq journal.intended
        /\ venue'.trades = venue.trades
    BY <2>1, <2>3, <2>3a DEF JInv, VenueType
  <2> QED
    BY <1>1, <2>4 DEF Accept, JInv
<1>2. CASE Fill
  <2>1. PICK o \in DOMAIN venue.orders :
          venue' = [venue EXCEPT !.orders = Put(@, o, Matched), !.trades = Put(@, o, o)]
    BY <1>2 DEF Fill
  <2>2. o \in Orders
    BY DEF JInv, JournalType
  <2>3. Put(venue.orders, o, Matched) \in Maps({Live, Matched})
    BY <2>2, MapsTyped, PutMaps, Zenon
  <2>3a. DOMAIN Put(venue.orders, o, Matched) = DOMAIN venue.orders \cup {o}
    BY PutDomain
  <2>4. Put(venue.trades, o, o) \in Maps(Orders)
    BY <2>2, MapsTyped, PutMaps, Zenon
  <2>4a. DOMAIN Put(venue.trades, o, o) = DOMAIN venue.trades \cup {o}
    BY PutDomain
  <2>5. /\ venue' \in VenueType
        /\ DOMAIN venue'.orders \subseteq journal.intended
        /\ DOMAIN venue.trades \subseteq DOMAIN venue'.trades
    BY <2>1, <2>3, <2>3a, <2>4, <2>4a DEF JInv, VenueType
  <2> QED
    BY <1>2, <2>5 DEF Fill, JInv
<1>3. CASE Settle
  <2>1. /\ venue' \in VenueType
        /\ venue'.orders = venue.orders /\ venue'.trades = venue.trades
    BY <1>3 DEF Settle, VenueType, JInv
  <2> QED
    BY <1>3, <2>1 DEF Settle, JInv
<1>4. CASE Tick
  BY <1>4, TradingJournalAssumption DEF Tick, JInv
<1> QED
  BY <1>1, <1>2, <1>3, <1>4

(* A record the session appends leaves what was intended and reconciled.   *)
LEMMA JInvRecord ==
  ASSUME JInv, NEW j, Record(j), j \in JournalType,
         j.intended = journal.intended, j.passed = journal.passed, j.halted = journal.halted,
         DOMAIN j.fills \subseteq DOMAIN venue.trades, j.reviewed \subseteq j.incidents
  PROVE  JInv'
BY DEF JInv, Record

Observe ==
  \/ ObserveAccepted \/ ObserveFill \/ ObserveBalance \/ ObservePosition
  \/ ObserveSettlement \/ ObserveHeartbeat \/ ObserveGeoblock
  \/ OpenIncident \/ ReviewIncident
LEMMA JInvObserve ==
  ASSUME JInv, Observe
  PROVE  JInv'
<1>1. CASE ObserveAccepted
  <2>1. PICK o \in DOMAIN venue.orders :
          Record([journal EXCEPT !.accepted = Put(@, o, venue.orders[o])])
    BY <1>1 DEF ObserveAccepted
  <2>2. o \in Orders /\ venue.orders[o] \in {Live, Matched}
    BY DEF JInv, JournalType, VenueType, Maps
  <2>3. Put(journal.accepted, o, venue.orders[o]) \in Maps({Live, Matched})
    BY <2>2, MapsTyped, PutMaps, Zenon
  <2> DEFINE j == [journal EXCEPT !.accepted = Put(@, o, venue.orders[o])]
  <2>4. /\ j \in JournalType /\ j.intended = journal.intended /\ j.passed = journal.passed
        /\ j.halted = journal.halted /\ j.fills = journal.fills
        /\ j.reviewed = journal.reviewed /\ j.incidents = journal.incidents
    BY <2>3 DEF JInv, JournalType
  <2> QED
    BY <2>1, <2>4, JInvRecord DEF JInv
<1>2. CASE ObserveFill
  <2>1. PICK t \in DOMAIN venue.trades :
          Record([journal EXCEPT !.fills = Put(@, t, venue.trades[t])])
    BY <1>2 DEF ObserveFill
  <2>2. t \in Orders /\ venue.trades[t] \in Orders
    BY DEF JInv, VenueType, Maps
  <2>3. Put(journal.fills, t, venue.trades[t]) \in Maps(Orders)
    BY <2>2, MapsTyped, PutMaps, Zenon
  <2>3a. DOMAIN Put(journal.fills, t, venue.trades[t]) = DOMAIN journal.fills \cup {t}
    BY PutDomain
  <2> DEFINE j == [journal EXCEPT !.fills = Put(@, t, venue.trades[t])]
  <2>4. /\ j \in JournalType /\ j.intended = journal.intended /\ j.passed = journal.passed
        /\ j.halted = journal.halted /\ DOMAIN j.fills \subseteq DOMAIN venue.trades
        /\ j.reviewed = journal.reviewed /\ j.incidents = journal.incidents
    BY <2>3, <2>3a DEF JInv, JournalType
  <2> QED
    BY <2>1, <2>4, JInvRecord DEF JInv
<1>3. CASE ObserveBalance \/ ObservePosition
  <2>1. Traded \in Nat
    BY TradedIsNat
  <2>2. /\ [journal EXCEPT !.balance = Traded] \in JournalType
        /\ [journal EXCEPT !.position = Traded] \in JournalType
    BY <2>1 DEF JInv, JournalType
  <2> QED
    BY <1>3, <2>2, JInvRecord DEF ObserveBalance, ObservePosition, JInv, JournalType
<1>4. CASE ObserveSettlement
  <2>1. [journal EXCEPT !.settled = TRUE] \in JournalType
    BY DEF JInv, JournalType
  <2> QED
    BY <1>4, <2>1, JInvRecord DEF ObserveSettlement, JInv, JournalType
<1>5. CASE ObserveHeartbeat \/ ObserveGeoblock
  <2>1. \A seen \in {now, Unseen} :
          /\ [journal EXCEPT !.heartbeat = seen] \in JournalType
          /\ [journal EXCEPT !.geoblock = seen] \in JournalType
    BY DEF JInv, JournalType
  <2> QED
    BY <1>5, <2>1, JInvRecord DEF ObserveHeartbeat, ObserveGeoblock, JInv, JournalType
<1>6. CASE OpenIncident
  <2>1. PICK i \in Incidents : Record([journal EXCEPT !.incidents = @ \cup {i}])
    BY <1>6 DEF OpenIncident
  <2>2. [journal EXCEPT !.incidents = @ \cup {i}] \in JournalType
    BY DEF JInv, JournalType
  <2> QED
    BY <2>1, <2>2, JInvRecord DEF JInv, JournalType
<1>7. CASE ReviewIncident
  <2>1. PICK i \in journal.incidents : Record([journal EXCEPT !.reviewed = @ \cup {i}])
    BY <1>7 DEF ReviewIncident
  <2>2. i \in Incidents
    BY DEF JInv, JournalType
  <2>3. [journal EXCEPT !.reviewed = @ \cup {i}] \in JournalType
    BY <2>2 DEF JInv, JournalType
  <2> QED
    BY <2>1, <2>3, JInvRecord DEF JInv, JournalType
<1> QED
  BY <1>1, <1>2, <1>3, <1>4, <1>5, <1>6, <1>7 DEF Observe

LEMMA JInvReconcile ==
  ASSUME JInv, Reconcile
  PROVE  JInv'
<1>1. PICK mismatches :
        LET passed == mismatches = {} IN
        /\ report' = IF passed THEN "passed" ELSE "halt_required"
        /\ journal' = Reconciled(journal, passed)
        /\ covered' = IF passed THEN journal.intended ELSE covered
        /\ UNCHANGED <<venue, now, decision>>
  BY DEF Reconcile
<1> DEFINE passed == mismatches = {}
<1>2. passed \in BOOLEAN
  OBVIOUS
<1> HIDE DEF passed
<1>3. /\ journal' \in JournalType
      /\ journal'.intended = journal.intended /\ journal'.fills = journal.fills
      /\ journal'.reviewed = journal.reviewed /\ journal'.incidents = journal.incidents
      /\ journal'.passed = passed /\ journal'.halted = ~ passed
  BY <1>1, <1>2 DEF passed, Reconciled, JInv, JournalType
<1>4. /\ report' = IF passed THEN "passed" ELSE "halt_required"
      /\ covered' = IF passed THEN journal.intended ELSE covered
  BY <1>1 DEF passed
<1> QED
  BY <1>1, <1>2, <1>3, <1>4 DEF JInv

(* The gate passes nothing over an intention that is not covered.          *)
LEMMA AllowedIsCovered ==
  ASSUME JInv, NEW enabled, NEW preflight,
         GateReasons(GateInput(enabled, preflight, "passed")) = {}
  PROVE  /\ enabled /\ preflight = "passed" /\ report = "passed"
         /\ PreviousResolved(journal) /\ journal.intended \subseteq covered
         /\ FreshAt(journal.heartbeat, now) /\ FreshAt(journal.geoblock, now)
<1> DEFINE input == GateInput(enabled, preflight, "passed")
<1>1. /\ input.enabled = enabled /\ input["preflight"] = preflight
      /\ input["reconciliation"] = StatusOf(report)
      /\ input.heartbeat = FreshAt(journal.heartbeat, now)
      /\ input.geoblock = FreshAt(journal.geoblock, now)
      /\ input.previous = PreviousResolved(journal)
  BY DEF GateInput
<1> HIDE DEF input
<1>2. /\ input.enabled /\ input["preflight"] = "passed" /\ input["reconciliation"] = "passed"
      /\ input.heartbeat /\ input.geoblock /\ input.previous
  BY DEF input, GateReasons, If, NotPassed
<1>3. report = "passed"
  BY <1>1, <1>2 DEF StatusOf, JInv, None
<1>4. journal.intended \subseteq covered
  BY <1>1, <1>2, <1>3 DEF PreviousResolved, JInv
<1> QED
  BY <1>1, <1>2, <1>3, <1>4

LEMMA JInvAskGate ==
  ASSUME JInv, NEW enabled, NEW preflight, AskGate(enabled, preflight)
  PROVE  JInv'
<1>1. decision' \in {"allowed", "blocked"}
      /\ (decision' = "allowed" => GateReasons(GateInput(enabled, preflight, "passed")) = {})
  BY DEF AskGate
<1>2. decision' = "allowed" => journal.intended \subseteq covered
  BY <1>1, AllowedIsCovered
<1> QED
  BY <1>1, <1>2 DEF AskGate, JInv

LEMMA JInvIntendOrder ==
  ASSUME JInv, IntendOrder
  PROVE  JInv'
<1>1. PICK o \in Orders \ journal.intended : journal' = Intended(journal, o)
  BY DEF IntendOrder
<1>2. /\ journal' \in JournalType
      /\ journal'.intended = journal.intended \cup {o} /\ journal'.fills = journal.fills
      /\ journal'.reviewed = journal.reviewed /\ journal'.incidents = journal.incidents
      /\ ~ journal'.passed /\ ~ journal'.halted
  BY <1>1 DEF Intended, JInv, JournalType
<1> QED
  BY <1>2 DEF IntendOrder, JInv, None

LEMMA JInvRestart ==
  ASSUME JInv, Restart
  PROVE  JInv'
BY DEF JInv, Restart, None

LEMMA JInvNext ==
  ASSUME JInv, NEW enabled, NEW preflight, JNext(enabled, preflight)
  PROVE  JInv'
<1>1. \/ Accept \/ Fill \/ Settle \/ Tick \/ Observe \/ Reconcile
      \/ AskGate(enabled, preflight) \/ IntendOrder \/ Restart
  BY DEF JNext, Observe
<1> QED
  BY <1>1, JInvVenue, JInvObserve, JInvReconcile, JInvAskGate, JInvIntendOrder, JInvRestart

LEMMA JInvUnchanged ==
  ASSUME JInv, UNCHANGED jvars
  PROVE  JInv'
BY DEF JInv, jvars

LEMMA JTyped == JInv => JTypeOK
BY DEF JInv, JTypeOK, JournalType, Maps

-----------------------------------------------------------------------------
(* The rehearsals and their files.                                         *)

Names == {"baseline", "preflight", "maker", "signing"}
Stages == {"geoblock", "account", "positions", "feeds", "write", "baseline"}
Checks == {"markets"} \cup Feeds
Answers ==
  ({"geoblock"} \X GeoAnswers) \cup ({"account"} \X {"passed", "blocked", "error"})
  \cup ({"positions"} \X {0, 1}) \cup (Checks \X {"not_checked", "passed", "failed"})
ReportType ==
  [status : {"passed", "blocked"}, live : BOOLEAN, open : {0, 1}, reserved : {0, 1}]
ProcessType ==
  [name : Names, off : SUBSET Facts, approval : Approvals, at : Stages,
   geo : GeoAnswers \cup {"not_asked", "not_checked"}, report : ReportType \cup {Nothing},
   status : {"not_run", "passed", "blocked", "error"}, complete : BOOLEAN, positions : {0, 1},
   fresh : [Checks -> {"not_checked", "passed", "failed"}]]
VerdictType == [status : {"passed", "blocked"}, off : SUBSET Facts, heard : SUBSET Answers]
BaselineType ==
  [report : ReportType, complete : BOOLEAN, positions : {0, 1}, heard : SUBSET Answers]
DiskType ==
  [preflight : VerdictType \cup {Nothing}, baseline : BaselineType \cup {Nothing},
   la7 : BaselineType \cup {Nothing}, signing : VerdictType \cup {Nothing},
   maker : VerdictType \cup {Nothing}]

(* What a process believes of its calls is what they answered, and where   *)
(* it stands says which calls it has made.                                 *)
Asked(h) == \E status \in {"passed", "blocked", "error"} : <<"account", status>> \in h
Believes(p, h) ==
  /\ p.geo = "approved" => <<"geoblock", "approved">> \in h
  /\ p.report # Nothing /\ p.report.status = "passed" /\ p.report.live =>
       <<"account", "passed">> \in h
  /\ p.status = "passed" /\ p.name = "signing" => <<"account", "passed">> \in h
  /\ p.complete => <<"positions", p.positions>> \in h
  /\ \A f \in Checks : p.fresh[f] = "passed" => <<f, "passed">> \in h
Stands(p, h) ==
  /\ p.at = "geoblock" => h = {}
  /\ p.at \in {"geoblock", "account"} => p.report = Nothing /\ ~ Asked(h)
  /\ p.at \in {"positions", "feeds", "baseline"} => p.report \in ReportType
  /\ p.at = "write" /\ p.name \in {"baseline", "preflight"} => p.report \in ReportType
  /\ p.name = "signing" => p.at \in {"geoblock", "account", "write"}
  /\ p.name = "signing" /\ p.approval = "local" => h = {}
StaysHome(p, h) ==
  p.name \in {"preflight", "signing"} /\ Asked(h) =>
    /\ <<"geoblock", "approved">> \in h
    /\ p.off \cap {"lt_enabled", "approved_host"} = {}
    /\ (IF p.name = "signing" THEN "lt_legal" ELSE "beta_legal") \notin p.off
(* A report that passed was made by a process whose preconditions held.    *)
Prepared(p) ==
  p.report # Nothing /\ p.report.status = "passed" /\ p.name # "signing" =>
    p.off \cap {"beta_legal", "beta_hold"} = {}

Running(p, h) ==
  /\ p \in ProcessType /\ h \in SUBSET Answers
  /\ Believes(p, h) /\ Stands(p, h) /\ StaysHome(p, h) /\ Prepared(p)
FilesAreHonest ==
  PassedPreflightHeardItAll /\ PassedSigningIsLocalOrReal /\ BoundBaselinesAreReal
RInv ==
  /\ (process = Nothing /\ heard = {}) \/ Running(process, heard)
  /\ disk \in DiskType /\ started \in 0..MaxCommands
  /\ FilesAreHonest

LEMMA NothingRuns ==
  ASSUME NEW p \in ProcessType
  PROVE  p # Nothing
BY DEF ProcessType, Nothing

LEMMA EmptyRuns ==
  ASSUME NEW p \in ProcessType, ~ Asked({}), p.report = Nothing, p.geo # "approved",
         p.status # "passed", ~ p.complete, \A f \in Checks : p.fresh[f] # "passed",
         p.at = "geoblock"
  PROVE  Running(p, {})
BY DEF Running, Believes, Stands, StaysHome, Prepared, Asked

LEMMA RInvInit == RInit => RInv
BY RehearsalsAssumption
DEF RInit, RInv, NoFiles, DiskType, FilesAreHonest, PassedPreflightHeardItAll,
    PassedSigningIsLocalOrReal, BoundBaselinesAreReal

LEMMA Runs ==
  ASSUME RInv, process # Nothing
  PROVE  /\ process \in ProcessType /\ heard \in SUBSET Answers
         /\ Believes(process, heard) /\ Stands(process, heard)
         /\ StaysHome(process, heard) /\ Prepared(process)
BY DEF RInv, Running

LEMMA RInvEnds ==
  ASSUME RInv, Ends
  PROVE  RInv'
BY DEF RInv, Ends, FilesAreHonest, PassedPreflightHeardItAll,
       PassedSigningIsLocalOrReal, BoundBaselinesAreReal

LEMMA RInvGoes ==
  ASSUME RInv, NEW p, NEW more, Goes(p, more), Running(p, heard \cup more)
  PROVE  RInv'
BY DEF RInv, Goes, FilesAreHonest, PassedPreflightHeardItAll,
       PassedSigningIsLocalOrReal, BoundBaselinesAreReal

LEMMA RInvStart ==
  ASSUME RInv, Start
  PROVE  RInv'
<1>1. PICK name \in Names, off \in Offs, approval \in Approvals :
        process' = Idle(name, off, approval)
  BY DEF Start, Names, Approvals
<1>2. Idle(name, off, approval) \in ProcessType
  BY RehearsalsAssumption DEF Idle, ProcessType, Stages, Checks, Feeds
<1>3. Running(process', {})
  BY <1>1, <1>2, EmptyRuns DEF Idle, Asked, Checks, Feeds
<1>4. started' \in 0..MaxCommands
  BY RehearsalsAssumption DEF Start, RInv
<1> QED
  BY <1>3, <1>4
  DEF Start, RInv, FilesAreHonest, PassedPreflightHeardItAll,
      PassedSigningIsLocalOrReal, BoundBaselinesAreReal

LEMMA RInvSkipGeoblock ==
  ASSUME RInv, SkipGeoblock
  PROVE  RInv'
<1> DEFINE p == [process EXCEPT !.geo = "not_checked", !.at = "account"]
<1>1. Goes(p, {}) /\ process.at = "geoblock" /\ process # Nothing
  BY DEF SkipGeoblock
<1>2. p \in ProcessType
  BY <1>1, Runs DEF ProcessType, Stages
<1>3. Believes(p, heard) /\ Stands(p, heard) /\ StaysHome(p, heard) /\ Prepared(p)
  BY <1>1, Runs DEF ProcessType, Believes, Stands, StaysHome, Prepared, Asked
<1> HIDE DEF p
<1> QED
  BY <1>1, <1>2, <1>3, Runs, RInvGoes DEF Running

LEMMA RInvAskGeoblock ==
  ASSUME RInv, AskGeoblock
  PROVE  RInv'
<1>1. process # Nothing /\ process.at = "geoblock" /\ AsksGeoblock
  BY DEF AskGeoblock
<1>2. CASE Ends
  BY <1>2, RInvEnds
<1>3. ASSUME NEW answer \in GeoAnswers,
             Goes([process EXCEPT !.geo = answer, !.at = "account"], {<<"geoblock", answer>>})
      PROVE  RInv'
  <2> DEFINE p == [process EXCEPT !.geo = answer, !.at = "account"]
  <2> DEFINE h == heard \cup {<<"geoblock", answer>>}
  <2>1. p \in ProcessType /\ h \in SUBSET Answers
    <3>1. p \in ProcessType
      BY <1>1, Runs DEF ProcessType, Stages
    <3>2. <<"geoblock", answer>> \in {"geoblock"} \X GeoAnswers
      OBVIOUS
    <3>3. h \in SUBSET Answers
      BY <1>1, <3>2, Runs DEF Answers
    <3> QED
      BY <3>1, <3>3
  <2>2. heard = {}
    BY <1>1, Runs DEF Stands
  <2>3. Believes(p, h)
    BY <1>1, <2>2, Runs DEF ProcessType, Believes
  <2>4. ~ Asked(h)
    BY <2>2 DEF Asked
  <2>5. p.name = "signing" => process.approval = "lt3"
    BY <1>1, Runs DEF AsksGeoblock, SigningScope, ProcessType
  <2>6. Stands(p, h) /\ StaysHome(p, h) /\ Prepared(p)
    BY <1>1, <2>4, <2>5, Runs DEF ProcessType, Stands, StaysHome, Prepared
  <2>7. Running(p, h)
    BY <2>1, <2>3, <2>6 DEF Running
  <2> HIDE DEF p
  <2>8. Goes(p, {<<"geoblock", answer>>})
    BY <1>3 DEF p
  <2> QED
    BY <2>7, <2>8, RInvGoes
<1> QED
  BY <1>2, <1>3 DEF AskGeoblock

(* Whoever reads the account with credentials has heard where it is.       *)
LEMMA ReadersStayHome ==
  ASSUME RInv, process # Nothing, process.at = "account", ReadsAccount
  PROVE  /\ StaysHome(process, heard \cup {<<"account", "passed">>})
         /\ process.name \in {"preflight", "signing"} => <<"geoblock", "approved">> \in heard
         /\ process.name = "signing" => process.approval = "lt3"
         /\ process.name \in {"baseline", "preflight", "signing"}
<1>1. process \in ProcessType /\ Believes(process, heard)
  BY Runs
<1>2. process.name \in {"preflight", "signing"} =>
        process.geo = "approved" /\ process.off \cap {"lt_enabled", "approved_host"} = {}
  BY DEF ReadsAccount, MayReadAccount, ContextMatches, Has
<1>3. process.name = "signing" => "lt_legal" \notin process.off /\ process.approval = "lt3"
  BY DEF ReadsAccount, SigningScope, Has
<1>4. process.name = "preflight" => "beta_legal" \notin process.off
  BY DEF ReadsAccount, MayReadAccount, Has
<1>5. process.name \in {"baseline", "preflight", "signing"}
  BY DEF ReadsAccount
<1> QED
  BY <1>1, <1>2, <1>3, <1>4, <1>5 DEF Believes, StaysHome

LEMMA RInvReadAccount ==
  ASSUME RInv, ReadAccount
  PROVE  RInv'
<1>1. process # Nothing /\ process.at = "account" /\ ReadsAccount
  BY DEF ReadAccount
<1>2. CASE Ends
  BY <1>2, RInvEnds
<1>3. ASSUME NEW r \in Reports,
             Goes([process EXCEPT !.report = r, !.status = r.status, !.at = AfterAccount],
                  {<<"account", r.status>>})
      PROVE  RInv'
  <2> DEFINE p == [process EXCEPT !.report = r, !.status = r.status, !.at = AfterAccount]
  <2> DEFINE h == heard \cup {<<"account", r.status>>}
  <2>1. r \in ReportType /\ (r.status = "passed" => Prerequisites)
    <3>1. PICK open \in {0, 1}, sound \in BOOLEAN :
            r = [status |-> IF open = 0 /\ sound /\ Prerequisites THEN "passed" ELSE "blocked",
                 live |-> TRUE, open |-> open, reserved |-> open]
      BY DEF Reports
    <3> QED
      BY <3>1 DEF ReportType
  <2>2. /\ process \in ProcessType /\ heard \in SUBSET Answers
        /\ Believes(process, heard) /\ Stands(process, heard)
    BY <1>1, Runs
  <2>3. r.status \in {"passed", "blocked"}
    BY <2>1 DEF ReportType
  <2>4. AfterAccount = IF process.name = "signing" THEN "write" ELSE "positions"
    BY DEF AfterAccount
  <2>5. /\ p \in ProcessType /\ p.name = process.name /\ p.off = process.off
        /\ p.approval = process.approval /\ p.geo = process.geo /\ p.report = r
        /\ p.status = r.status /\ p.at = AfterAccount /\ p.complete = process.complete
        /\ p.positions = process.positions /\ p.fresh = process.fresh
    BY <2>1, <2>2, <2>3, <2>4, ZenonT(60) DEF ProcessType, Stages
  <2>6. h \in SUBSET Answers
    <3>1. <<"account", r.status>> \in {"account"} \X {"passed", "blocked", "error"}
      BY <2>3
    <3> QED
      BY <2>2, <3>1 DEF Answers
  <2> HIDE DEF p
  <2>7. Believes(p, h)
    BY <2>2, <2>5 DEF Believes
  <2>8. Stands(p, h)
    BY <1>1, <2>1, <2>4, <2>5, ReadersStayHome DEF Stands
  <2>9. StaysHome(p, h)
    BY <1>1, <2>5, ReadersStayHome DEF StaysHome, Asked
  <2>10. Prepared(p)
    BY <2>1, <2>5 DEF Prepared, Prerequisites, Has
  <2>11. Goes(p, {<<"account", r.status>>})
    BY <1>3 DEF p
  <2> QED
    BY <2>5, <2>6, <2>7, <2>8, <2>9, <2>10, <2>11, RInvGoes DEF Running
<1>4. ASSUME process.name = "signing",
             Goes([process EXCEPT !.status = "error", !.at = "write"], {<<"account", "error">>})
      PROVE  RInv'
  <2> DEFINE p == [process EXCEPT !.status = "error", !.at = "write"]
  <2> DEFINE h == heard \cup {<<"account", "error">>}
  <2>1. /\ process \in ProcessType /\ heard \in SUBSET Answers
        /\ Believes(process, heard) /\ Stands(process, heard) /\ Prepared(process)
    BY <1>1, Runs
  <2>2. /\ p \in ProcessType /\ p.name = process.name /\ p.off = process.off
        /\ p.approval = process.approval /\ p.geo = process.geo /\ p.report = process.report
        /\ p.status = "error" /\ p.at = "write" /\ p.complete = process.complete
        /\ p.positions = process.positions /\ p.fresh = process.fresh
    BY <2>1 DEF ProcessType, Stages
  <2>3. h \in SUBSET Answers
    <3>1. <<"account", "error">> \in {"account"} \X {"passed", "blocked", "error"}
      OBVIOUS
    <3> QED
      BY <2>1, <3>1 DEF Answers
  <2> HIDE DEF p
  <2>4. Believes(p, h)
    BY <2>1, <2>2 DEF Believes
  <2>5. Stands(p, h)
    BY <1>1, <1>4, <2>2, ReadersStayHome DEF Stands
  <2>6. StaysHome(p, h)
    BY <1>1, <2>2, ReadersStayHome DEF StaysHome, Asked
  <2>7. Prepared(p)
    BY <2>1, <2>2 DEF Prepared
  <2>8. Goes(p, {<<"account", "error">>})
    BY <1>4 DEF p
  <2> QED
    BY <2>2, <2>3, <2>4, <2>5, <2>6, <2>7, <2>8, RInvGoes DEF Running
<1> QED
  BY <1>2, <1>3, <1>4 DEF ReadAccount

LEMMA RInvSkipAccount ==
  ASSUME RInv, SkipAccount
  PROVE  RInv'
<1>1. process # Nothing /\ process.at = "account"
  BY DEF SkipAccount
<1>2. CASE Ends
  BY <1>2, RInvEnds
<1>3. /\ process \in ProcessType /\ heard \in SUBSET Answers
      /\ Believes(process, heard) /\ Stands(process, heard) /\ StaysHome(process, heard)
      /\ Prepared(process)
  BY <1>1, Runs
<1>4. ASSUME process.name = "preflight",
             Goes([process EXCEPT !.report = SampleReport(process.off, GeoPassed),
                                  !.at = "feeds"], {})
      PROVE  RInv'
  <2> DEFINE r == SampleReport(process.off, GeoPassed)
  <2> DEFINE p == [process EXCEPT !.report = r, !.at = "feeds"]
  <2>1. /\ r \in ReportType /\ ~ r.live
        /\ r.status = "passed" => process.off \cap {"beta_legal", "beta_hold"} = {}
    BY DEF SampleReport, ReportType
  <2> HIDE DEF r
  <2>2. /\ p \in ProcessType /\ p.name = process.name /\ p.off = process.off
        /\ p.approval = process.approval /\ p.geo = process.geo /\ p.report = r
        /\ p.status = process.status /\ p.at = "feeds" /\ p.complete = process.complete
        /\ p.positions = process.positions /\ p.fresh = process.fresh
    BY <1>3, <2>1 DEF ProcessType, Stages
  <2>3. Goes(p, {})
    BY <1>4 DEF r
  <2> HIDE DEF p
  <2>4. Believes(p, heard) /\ Stands(p, heard) /\ StaysHome(p, heard) /\ Prepared(p)
    BY <1>3, <1>4, <2>1, <2>2 DEF Believes, Stands, StaysHome, Prepared
  <2>5. Running(p, heard \cup {})
    BY <1>3, <2>2, <2>4 DEF Running
  <2> QED
    BY <2>3, <2>5, RInvGoes
<1>5. ASSUME process.name \notin {"baseline", "preflight"}, Goes([process EXCEPT !.at = "write"], {})
      PROVE  RInv'
  <2> DEFINE p == [process EXCEPT !.at = "write"]
  <2>1. /\ p \in ProcessType /\ p.name = process.name /\ p.off = process.off
        /\ p.approval = process.approval /\ p.geo = process.geo /\ p.report = process.report
        /\ p.status = process.status /\ p.at = "write" /\ p.complete = process.complete
        /\ p.positions = process.positions /\ p.fresh = process.fresh
    BY <1>3 DEF ProcessType, Stages
  <2>2. Goes(p, {})
    BY <1>5
  <2> HIDE DEF p
  <2>3. Believes(p, heard) /\ Stands(p, heard) /\ StaysHome(p, heard) /\ Prepared(p)
    BY <1>3, <1>5, <2>1 DEF Believes, Stands, StaysHome, Prepared
  <2>4. Running(p, heard \cup {})
    BY <1>3, <2>1, <2>3 DEF Running
  <2> QED
    BY <2>2, <2>4, RInvGoes
<1> QED
  BY <1>2, <1>4, <1>5 DEF SkipAccount

LEMMA RInvReadPositions ==
  ASSUME RInv, ReadPositions
  PROVE  RInv'
<1>1. process # Nothing /\ process.at = "positions"
  BY DEF ReadPositions
<1>2. CASE Ends
  BY <1>2, RInvEnds
<1>3. /\ process \in ProcessType /\ heard \in SUBSET Answers
      /\ Believes(process, heard) /\ Stands(process, heard) /\ StaysHome(process, heard)
      /\ Prepared(process)
  BY <1>1, Runs
<1>4. ASSUME NEW held \in {0, 1}, NEW stage \in {"write", "feeds"},
             Goes([[process EXCEPT !.complete = TRUE, !.positions = held] EXCEPT !.at = stage],
                  {<<"positions", held>>})
      PROVE  RInv'
  <2> DEFINE p == [[process EXCEPT !.complete = TRUE, !.positions = held] EXCEPT !.at = stage]
  <2> DEFINE h == heard \cup {<<"positions", held>>}
  <2>1. /\ p \in ProcessType /\ p.name = process.name /\ p.off = process.off
        /\ p.approval = process.approval /\ p.geo = process.geo /\ p.report = process.report
        /\ p.status = process.status /\ p.at = stage /\ p.complete = TRUE
        /\ p.positions = held /\ p.fresh = process.fresh
    BY <1>3 DEF ProcessType, Stages
  <2>2. h \in SUBSET Answers
    <3>1. <<"positions", held>> \in {"positions"} \X {0, 1}
      OBVIOUS
    <3> QED
      BY <1>3, <3>1 DEF Answers
  <2>3. Goes(p, {<<"positions", held>>})
    BY <1>4
  <2> HIDE DEF p
  <2>4. Asked(h) <=> Asked(heard)
    BY DEF Asked
  <2>5. Believes(p, h)
    BY <1>3, <2>1 DEF Believes
  <2>6. process.name # "signing"
    BY <1>1, <1>3 DEF Stands
  <2>7. Stands(p, h)
    BY <1>1, <1>3, <2>1, <2>6 DEF Stands
  <2>8. StaysHome(p, h) /\ Prepared(p)
    BY <1>3, <2>1, <2>4 DEF StaysHome, Prepared
  <2> QED
    BY <2>1, <2>2, <2>3, <2>5, <2>7, <2>8, RInvGoes DEF Running
<1> QED
  BY <1>2, <1>4 DEF ReadPositions

LEMMA RInvCheckFeeds ==
  ASSUME RInv, CheckFeeds
  PROVE  RInv'
<1>1. process # Nothing /\ process.at = "feeds"
  BY DEF CheckFeeds
<1>2. /\ process \in ProcessType /\ heard \in SUBSET Answers
      /\ Believes(process, heard) /\ Stands(process, heard) /\ StaysHome(process, heard)
      /\ Prepared(process)
  BY <1>1, Runs
<1>3. process.name # "signing" /\ process.report \in ReportType
  BY <1>1, <1>2 DEF Stands
<1>4. ASSUME Goes([process EXCEPT !.at = "write"], {})
      PROVE  RInv'
  <2> DEFINE p == [process EXCEPT !.at = "write"]
  <2>1. /\ p \in ProcessType /\ p.name = process.name /\ p.off = process.off
        /\ p.approval = process.approval /\ p.geo = process.geo /\ p.report = process.report
        /\ p.status = process.status /\ p.at = "write" /\ p.complete = process.complete
        /\ p.positions = process.positions /\ p.fresh = process.fresh
    BY <1>2 DEF ProcessType, Stages
  <2>2. Goes(p, {})
    BY <1>4
  <2> HIDE DEF p
  <2>3. Believes(p, heard) /\ Stands(p, heard) /\ StaysHome(p, heard) /\ Prepared(p)
    BY <1>2, <1>3, <2>1 DEF Believes, Stands, StaysHome, Prepared
  <2>4. Running(p, heard \cup {})
    BY <1>2, <2>1, <2>3 DEF Running
  <2> QED
    BY <2>2, <2>4, RInvGoes
<1>5. ASSUME NEW checked \in [Checks -> {"not_checked", "passed", "failed"}],
             Goes([process EXCEPT !.fresh = checked, !.at = "write"],
                  {<<f, checked[f]>> : f \in DOMAIN checked})
      PROVE  RInv'
  <2> DEFINE p == [process EXCEPT !.fresh = checked, !.at = "write"]
  <2> DEFINE more == {<<f, checked[f]>> : f \in DOMAIN checked}
  <2>1. /\ p \in ProcessType /\ p.name = process.name /\ p.off = process.off
        /\ p.approval = process.approval /\ p.geo = process.geo /\ p.report = process.report
        /\ p.status = process.status /\ p.at = "write" /\ p.complete = process.complete
        /\ p.positions = process.positions /\ p.fresh = checked
    BY <1>2 DEF ProcessType, Stages
  <2>2. more \in SUBSET Answers
    BY DEF Answers
  <2>3. Goes(p, more)
    BY <1>5
  <2>4. \A f \in Checks : checked[f] = "passed" => <<f, "passed">> \in more
    OBVIOUS
  <2>5. \A status : <<"account", status>> \notin more
    BY DEF Checks, Feeds
  <2> HIDE DEF p, more
  <2>6. Asked(heard \cup more) <=> Asked(heard)
    BY <2>5 DEF Asked
  <2>7. Believes(p, heard \cup more)
    BY <1>2, <2>1, <2>4 DEF Believes
  <2>8. Stands(p, heard \cup more)
    BY <1>3, <2>1 DEF Stands
  <2>9. StaysHome(p, heard \cup more) /\ Prepared(p)
    BY <1>2, <2>1, <2>6 DEF StaysHome, Prepared
  <2> QED
    BY <1>2, <2>1, <2>2, <2>3, <2>7, <2>8, <2>9, RInvGoes DEF Running
<1>6. CASE ~ ContextMatches
  BY <1>4, <1>6 DEF CheckFeeds
<1>7. CASE ContextMatches
  <2>1. PICK answers \in [Checks -> {"passed", "failed"}] :
          LET checked == IF answers["markets"] = "passed" THEN answers
                         ELSE [process.fresh EXCEPT !["markets"] = "failed"]
          IN Goes([process EXCEPT !.fresh = checked, !.at = "write"],
                  {<<f, checked[f]>> : f \in DOMAIN checked})
    BY <1>7 DEF CheckFeeds, Checks
  <2> DEFINE checked == IF answers["markets"] = "passed" THEN answers
                        ELSE [process.fresh EXCEPT !["markets"] = "failed"]
  <2>2. process.fresh \in [Checks -> {"not_checked", "passed", "failed"}]
    BY <1>2 DEF ProcessType
  <2>3. answers \in [Checks -> {"not_checked", "passed", "failed"}]
    OBVIOUS
  <2>4. [process.fresh EXCEPT !["markets"] = "failed"]
          \in [Checks -> {"not_checked", "passed", "failed"}]
    BY <2>2
  <2>5. checked \in [Checks -> {"not_checked", "passed", "failed"}]
    BY <2>3, <2>4
  <2>6. Goes([process EXCEPT !.fresh = checked, !.at = "write"],
             {<<f, checked[f]>> : f \in DOMAIN checked})
    BY <2>1
  <2> HIDE DEF checked
  <2> QED
    BY <1>5, <2>5, <2>6
<1> QED
  BY <1>6, <1>7

(* A verdict passes only over what the process heard itself. *)
LEMMA PassedPreflight ==
  ASSUME NEW p, NEW h, Running(p, h), p.name = "preflight", p.at = "write",
         PreflightReasons(p) = {}
  PROVE  /\ {<<"geoblock", "approved">>, <<"account", "passed">>} \subseteq h
         /\ {<<f, "passed">> : f \in Feeds} \subseteq h
         /\ p.off \cap {"lt_enabled", "approved_host", "beta_legal", "beta_hold"} = {}
<1>1. /\ p \in ProcessType /\ Believes(p, h) /\ Stands(p, h) /\ Prepared(p)
  BY DEF Running
<1>2. /\ p.off \cap {"lt_enabled", "approved_host", "approved_place", "beta_secrets"} = {}
      /\ p.geo = "approved" /\ p.report.status = "passed" /\ p.report.live
      /\ \A f \in DOMAIN p.fresh : p.fresh[f] = "passed"
  BY DEF PreflightReasons, Because
<1>3. p.report \in ReportType /\ p.report # Nothing
  <2>1. p.report \in ReportType
    BY <1>1 DEF Stands
  <2>2. \A r \in ReportType : r # Nothing
    BY DEF ReportType, Nothing
  <2> QED
    BY <2>1, <2>2
<1>4. \A f \in Feeds : <<f, "passed">> \in h
  BY <1>1, <1>2 DEF Believes, ProcessType, Checks
<1>5. <<"geoblock", "approved">> \in h /\ <<"account", "passed">> \in h
  BY <1>1, <1>2, <1>3 DEF Believes
<1>6. p.off \cap {"beta_legal", "beta_hold"} = {}
  BY <1>1, <1>2, <1>3 DEF Prepared
<1> QED
  BY <1>2, <1>4, <1>5, <1>6

LEMMA PassedSigning ==
  ASSUME NEW p, NEW h, Running(p, h), p.name = "signing",
         SigningReasons(p, p.status) = {}
  PROVE  \/ h = {} /\ "lt_enabled" \in p.off
         \/ /\ {<<"geoblock", "approved">>, <<"account", "passed">>} \subseteq h
            /\ p.off \cap {"lt_enabled", "lt_legal", "approved_host", "lt_secrets"} = {}
<1>1. /\ p \in ProcessType /\ Believes(p, h) /\ Stands(p, h) /\ StaysHome(p, h)
  BY DEF Running
<1>2. /\ p.approval # "other"
      /\ p.approval = "local" => "lt_enabled" \in p.off
      /\ p.approval # "local" => p.status = "passed"
      /\ "lt_secrets" \notin p.off
  BY DEF SigningReasons, Because
<1>3. CASE p.approval = "local"
  BY <1>1, <1>2, <1>3 DEF Stands
<1>4. CASE p.approval # "local"
  <2>1. <<"account", "passed">> \in h
    BY <1>1, <1>2, <1>4 DEF Believes
  <2>2. Asked(h)
    BY <2>1 DEF Asked
  <2>3. <<"geoblock", "approved">> \in h /\ p.off \cap {"lt_enabled", "approved_host"} = {}
        /\ "lt_legal" \notin p.off
    BY <1>1, <2>2 DEF StaysHome
  <2> QED
    BY <1>2, <2>1, <2>3
<1> QED
  BY <1>3, <1>4

(* An accepted baseline is an account its process had read. *)
LEMMA AcceptedBaseline ==
  ASSUME NEW p, NEW h, Running(p, h), p.report \in ReportType,
         p.report.status = "passed", p.report.live, p.complete, p.positions = 0
  PROVE  {<<"account", "passed">>, <<"positions", 0>>} \subseteq h
<1>1. Believes(p, h)
  BY DEF Running
<1>2. \A r \in ReportType : r # Nothing
  BY DEF ReportType, Nothing
<1> QED
  BY <1>1, <1>2 DEF Believes

(* The file of a verdict, and of a baseline, are as their process stands.  *)
LEMMA FilesTyped ==
  ASSUME RInv, process # Nothing
  PROVE  /\ \A reasons : File(Verdict(reasons)) \in VerdictType
         /\ process.report \in ReportType => BaselineFile \in BaselineType
BY Runs DEF File, Verdict, VerdictType, BaselineFile, BaselineType, ProcessType

LEMMA BaselineFileIsReal ==
  ASSUME RInv, process # Nothing, process.report \in ReportType,
         BaselineGate(BaselineFile) = {}
  PROVE  {<<"account", "passed">>, <<"positions", 0>>} \subseteq heard
<1>1. /\ process.report.status = "passed" /\ process.report.live
      /\ process.complete /\ process.positions = 0
  BY DEF BaselineGate, BaselineFile, Because
<1>2. Running(process, heard)
  BY DEF RInv
<1> QED
  BY <1>1, <1>2, AcceptedBaseline

LEMMA RInvWriteVerdict ==
  ASSUME RInv, WriteVerdict
  PROVE  RInv'
<1>1. process # Nothing /\ process.at = "write"
  BY DEF WriteVerdict
<1>2. /\ Running(process, heard) /\ process \in ProcessType
      /\ Believes(process, heard) /\ Stands(process, heard) /\ StaysHome(process, heard)
      /\ Prepared(process)
  BY <1>1 DEF RInv, Running
<1>3. process.name \in Names
  BY <1>2 DEF ProcessType
<1>4. disk \in DiskType /\ started \in 0..MaxCommands /\ FilesAreHonest
  BY DEF RInv
<1>5. CASE process.name = "preflight"
  <2> DEFINE p == [process EXCEPT !.at = "baseline"]
  <2> DEFINE file == File(Verdict(PreflightReasons(process)))
  <2>1. /\ disk' = [disk EXCEPT !.preflight = file] /\ process' = p
        /\ heard' = heard /\ started' = started
    <3>1. Writes([disk EXCEPT !.preflight = file], p)
      BY <1>5 DEF WriteVerdict
    <3>2. p \in ProcessType
      BY <1>2 DEF ProcessType, Stages
    <3>3. p # Nothing
      BY <3>2, NothingRuns
    <3> QED
      BY <3>1, <3>3 DEF Writes
  <2>2. Running(p, heard)
    <3>1. /\ p \in ProcessType /\ p.name = process.name /\ p.off = process.off
          /\ p.approval = process.approval /\ p.geo = process.geo
          /\ p.report = process.report /\ p.status = process.status /\ p.at = "baseline"
          /\ p.complete = process.complete /\ p.positions = process.positions
          /\ p.fresh = process.fresh
      BY <1>2 DEF ProcessType, Stages
    <3> HIDE DEF p
    <3>2. Believes(p, heard) /\ Stands(p, heard) /\ StaysHome(p, heard) /\ Prepared(p)
      BY <1>1, <1>2, <1>5, <3>1 DEF Believes, Stands, StaysHome, Prepared
    <3> QED
      BY <1>2, <3>1, <3>2 DEF Running
  <2>3. file \in VerdictType /\ file.heard = heard /\ file.off = process.off
        /\ (file.status = "passed" => PreflightReasons(process) = {})
    BY <1>1, FilesTyped DEF File, Verdict
  <2> HIDE DEF p, file
  <2>4. /\ disk' \in DiskType /\ disk'.preflight = file /\ disk'.baseline = disk.baseline
        /\ disk'.la7 = disk.la7 /\ disk'.signing = disk.signing
    BY <1>4, <2>1, <2>3 DEF DiskType
  <2>5. PassedPreflightHeardItAll'
    BY <1>1, <1>2, <1>5, <2>3, <2>4, PassedPreflight DEF PassedPreflightHeardItAll
  <2>6. PassedSigningIsLocalOrReal'
    BY <1>4, <2>4 DEF FilesAreHonest, PassedSigningIsLocalOrReal
  <2>7. BoundBaselinesAreReal'
    BY <1>4, <2>4 DEF FilesAreHonest, BoundBaselinesAreReal
  <2> QED
    BY <1>4, <2>1, <2>2, <2>4, <2>5, <2>6, <2>7 DEF RInv, FilesAreHonest
<1>6. CASE process.name = "baseline"
  <2>1. /\ disk' = [disk EXCEPT !.la7 = BaselineFile] /\ process' = Nothing
        /\ heard' = {} /\ started' = started
    BY <1>6 DEF WriteVerdict, Writes
  <2>2. process.report \in ReportType
    BY <1>1, <1>2, <1>6 DEF Stands
  <2>3. BaselineFile \in BaselineType /\ BaselineFile.heard = heard
    BY <1>1, <2>2, FilesTyped DEF BaselineFile
  <2>4. BaselineGate(BaselineFile) = {} =>
          {<<"account", "passed">>, <<"positions", 0>>} \subseteq heard
    BY <1>1, <2>2, BaselineFileIsReal
  <2>5. /\ disk' \in DiskType /\ disk'.la7 = BaselineFile
        /\ disk'.preflight = disk.preflight
        /\ disk'.baseline = disk.baseline /\ disk'.signing = disk.signing
    BY <1>4, <2>1, <2>3 DEF DiskType
  <2>6. PassedPreflightHeardItAll' /\ PassedSigningIsLocalOrReal'
    BY <1>4, <2>5 DEF FilesAreHonest, PassedPreflightHeardItAll, PassedSigningIsLocalOrReal
  <2>7. \A f \in {"la7", "baseline"} :
          disk'[f] # Nothing /\ BaselineGate(disk'[f]) = {} =>
            {<<"account", "passed">>, <<"positions", 0>>} \subseteq disk'[f].heard
    <3>1. disk'["la7"] = BaselineFile /\ disk'["baseline"] = disk["baseline"]
      BY <2>5
    <3> QED
      BY <1>4, <2>3, <2>4, <3>1 DEF FilesAreHonest, BoundBaselinesAreReal
  <2>8. BoundBaselinesAreReal'
    BY <2>7 DEF BoundBaselinesAreReal, BaselineGate, Because
  <2> QED
    BY <1>4, <2>1, <2>5, <2>6, <2>8 DEF RInv, FilesAreHonest
<1>7. CASE process.name = "signing"
  <2> DEFINE file == File(Verdict(SigningReasons(process, process.status)))
  <2>1. /\ disk' = [disk EXCEPT !.signing = file] /\ process' = Nothing
        /\ heard' = {} /\ started' = started
    BY <1>7 DEF WriteVerdict, Writes
  <2>2. file \in VerdictType /\ file.heard = heard /\ file.off = process.off
        /\ (file.status = "passed" => SigningReasons(process, process.status) = {})
    BY <1>1, FilesTyped DEF File, Verdict
  <2> HIDE DEF file
  <2>3. /\ disk' \in DiskType /\ disk'.signing = file /\ disk'.baseline = disk.baseline
        /\ disk'.la7 = disk.la7 /\ disk'.preflight = disk.preflight
    BY <1>4, <2>1, <2>2 DEF DiskType
  <2>4. PassedSigningIsLocalOrReal'
    BY <1>2, <1>7, <2>2, <2>3, PassedSigning DEF PassedSigningIsLocalOrReal
  <2>5. PassedPreflightHeardItAll'
    BY <1>4, <2>3 DEF FilesAreHonest, PassedPreflightHeardItAll
  <2>6. BoundBaselinesAreReal'
    BY <1>4, <2>3 DEF FilesAreHonest, BoundBaselinesAreReal
  <2> QED
    BY <1>4, <2>1, <2>3, <2>4, <2>5, <2>6 DEF RInv, FilesAreHonest
<1>8. CASE process.name = "maker"
  <2> DEFINE file == File(Verdict(MakerReasons(process.off, process.geo, BuildLacks)))
  <2>1. /\ disk' = [disk EXCEPT !.maker = file] /\ process' = Nothing
        /\ heard' = {} /\ started' = started
    BY <1>8 DEF WriteVerdict, Writes
  <2>2. file \in VerdictType
    BY <1>1, FilesTyped
  <2> HIDE DEF file
  <2>3. /\ disk' \in DiskType /\ disk'.signing = disk.signing
        /\ disk'.baseline = disk.baseline
        /\ disk'.la7 = disk.la7 /\ disk'.preflight = disk.preflight
    BY <1>4, <2>1, <2>2 DEF DiskType
  <2>4. PassedPreflightHeardItAll' /\ PassedSigningIsLocalOrReal'
    BY <1>4, <2>3 DEF FilesAreHonest, PassedPreflightHeardItAll, PassedSigningIsLocalOrReal
  <2>5. BoundBaselinesAreReal'
    BY <1>4, <2>3 DEF FilesAreHonest, BoundBaselinesAreReal
  <2> QED
    BY <1>4, <2>1, <2>3, <2>4, <2>5 DEF RInv, FilesAreHonest
<1> QED
  BY <1>3, <1>5, <1>6, <1>7, <1>8 DEF Names

LEMMA RInvWriteBaseline ==
  ASSUME RInv, WriteBaseline
  PROVE  RInv'
<1>1. /\ process # Nothing /\ process.at = "baseline"
      /\ disk' = [disk EXCEPT !.baseline = BaselineFile] /\ process' = Nothing
      /\ heard' = {} /\ started' = started
  BY DEF WriteBaseline, Writes
<1>2. process.report \in ReportType
  BY <1>1, Runs DEF Stands
<1>3. BaselineFile \in BaselineType /\ BaselineFile.heard = heard
  BY <1>1, <1>2, FilesTyped DEF BaselineFile
<1>4. BaselineGate(BaselineFile) = {} =>
        {<<"account", "passed">>, <<"positions", 0>>} \subseteq heard
  BY <1>1, <1>2, BaselineFileIsReal
<1>5. disk \in DiskType /\ started \in 0..MaxCommands /\ FilesAreHonest
  BY DEF RInv
<1>6. /\ disk' \in DiskType /\ disk'.baseline = BaselineFile
      /\ disk'.preflight = disk.preflight
      /\ disk'.la7 = disk.la7 /\ disk'.signing = disk.signing
  BY <1>1, <1>3, <1>5 DEF DiskType
<1>7. PassedPreflightHeardItAll' /\ PassedSigningIsLocalOrReal'
  BY <1>5, <1>6 DEF FilesAreHonest, PassedPreflightHeardItAll, PassedSigningIsLocalOrReal
<1>8. \A f \in {"la7", "baseline"} :
        disk'[f] # Nothing /\ BaselineGate(disk'[f]) = {} =>
          {<<"account", "passed">>, <<"positions", 0>>} \subseteq disk'[f].heard
  <2>1. disk'["la7"] = disk["la7"] /\ disk'["baseline"] = BaselineFile
    BY <1>6
  <2> QED
    BY <1>3, <1>4, <1>5, <2>1 DEF FilesAreHonest, BoundBaselinesAreReal
<1>9. BoundBaselinesAreReal'
  BY <1>8 DEF BoundBaselinesAreReal, BaselineGate, Because
<1> QED
  BY <1>1, <1>5, <1>6, <1>7, <1>9 DEF RInv, FilesAreHonest

LEMMA RInvNext ==
  ASSUME RInv, RNext
  PROVE  RInv'
BY RInvStart, RInvSkipGeoblock, RInvAskGeoblock, RInvReadAccount, RInvSkipAccount,
   RInvReadPositions, RInvCheckFeeds, RInvWriteVerdict, RInvWriteBaseline, RInvEnds
DEF RNext, Dies

LEMMA RInvUnchanged ==
  ASSUME RInv, UNCHANGED rvars
  PROVE  RInv'
BY DEF RInv, rvars, FilesAreHonest, PassedPreflightHeardItAll,
       PassedSigningIsLocalOrReal, BoundBaselinesAreReal

LEMMA RHonest ==
  ASSUME RInv
  PROVE  RTypeOK /\ FilesAreHonest /\ CredentialsStayHome
<1>1. process # Nothing => /\ process \in ProcessType /\ heard \in SUBSET Answers
                           /\ StaysHome(process, heard)
  BY Runs
<1>2. RTypeOK
  <2>1. process # Nothing => /\ process.off \subseteq Facts
                             /\ process.geo \in GeoAnswers \cup {"not_asked", "not_checked"}
                             /\ process.at \in Stages
    BY <1>1 DEF ProcessType
  <2>2. process = Nothing => heard = {}
    BY NothingRuns DEF RInv, Running
  <2>3. ASSUME NEW f \in {"preflight", "signing", "maker"}, disk[f] # Nothing
        PROVE  disk[f].status \in {"passed", "blocked"}
    <3>1. disk[f] \in VerdictType \cup {Nothing}
      BY DEF RInv, DiskType
    <3> QED
      BY <2>3, <3>1 DEF VerdictType
  <2>4. started \in 0..MaxCommands
    BY DEF RInv
  <2> QED
    BY <2>1, <2>2, <2>3, <2>4 DEF RTypeOK, Stages
<1>3. CredentialsStayHome
  BY <1>1 DEF CredentialsStayHome, StaysHome, Asked, Has
<1> QED
  BY <1>2, <1>3 DEF RInv

-----------------------------------------------------------------------------
(* Live trading as a whole: what the session took along is what the        *)
(* preflight had heard.                                                    *)

SessionIsHonest ==
  session # Nothing => (session.preflight = "passed" => session.backed)
IInv == JInv /\ RInv /\ SessionIsHonest

LEMMA IInvInit == Init => IInv
BY JInvInit, RInvInit DEF Init, IInv, SessionIsHonest

LEMMA IInvRehearse ==
  ASSUME IInv, Rehearse
  PROVE  IInv'
<1>1. RInv'
  BY RInvNext DEF IInv, Rehearse
<1>2. JInv'
  BY JInvUnchanged DEF IInv, Rehearse
<1>3. SessionIsHonest'
  BY DEF IInv, Rehearse, SessionIsHonest
<1> QED
  BY <1>1, <1>2, <1>3 DEF IInv

LEMMA IInvBegin ==
  ASSUME IInv, Begin
  PROVE  IInv'
<1>1. JInv'
  BY JInvUnchanged DEF IInv, Begin
<1>2. VerdictOf(disk.preflight) = "passed" => Backed(disk.preflight)
  <2>1. PassedPreflightHeardItAll
    BY DEF IInv, RInv, FilesAreHonest
  <2>2. VerdictOf(disk.preflight) = "passed" =>
          disk.preflight # Nothing /\ disk.preflight.status = "passed"
    BY DEF VerdictOf
  <2> QED
    BY <2>1, <2>2 DEF PassedPreflightHeardItAll, Backed
<1>3. SessionIsHonest'
  BY <1>2 DEF Begin, SessionIsHonest
<1>4. RInv'
  <2>1. process' = Nothing /\ heard' = {} /\ disk' = NoFiles /\ started' = 0
    BY NothingRuns DEF IInv, RInv, Running, Begin
  <2> QED
    BY <2>1, RehearsalsAssumption
    DEF RInv, NoFiles, DiskType, FilesAreHonest, PassedPreflightHeardItAll,
        PassedSigningIsLocalOrReal, BoundBaselinesAreReal
<1> QED
  BY <1>1, <1>3, <1>4 DEF IInv

LEMMA IInvTrade ==
  ASSUME IInv, Trade
  PROVE  IInv'
<1>1. JInv'
  BY JInvNext DEF IInv, Trade
<1>2. RInv'
  BY RInvUnchanged DEF IInv, Trade
<1>3. SessionIsHonest'
  BY DEF IInv, Trade, SessionIsHonest
<1> QED
  BY <1>1, <1>2, <1>3 DEF IInv

LEMMA IInvNext == IInv /\ [Next]_vars => IInv'
<1>1. ASSUME IInv, UNCHANGED vars
      PROVE  IInv'
  BY <1>1, JInvUnchanged, RInvUnchanged DEF vars, IInv, SessionIsHonest
<1> QED
  BY <1>1, IInvRehearse, IInvBegin, IInvTrade DEF Next

(* The inductive invariant holds of every reachable state of live trading. *)
THEOREM Invariance == Spec => []IInv
BY IInvInit, IInvNext, PTL DEF Spec

(* Types, and the honesty of what the rehearsals leave behind: for every   *)
(* configuration a command is started with, and any number of commands.    *)
THEOREM TypeCorrect == Spec => []TypeOK
<1>1. IInv => TypeOK
  BY JTyped, RHonest DEF IInv, TypeOK
<1> QED
  BY <1>1, Invariance, PTL

(* A rehearsal's file says no more than was read of the account, and what  *)
(* a live session relies on is such a file.                                *)
THEOREM RehearsalsHonest == Spec => []RehearsalsAreHonest
<1>1. IInv => RehearsalsAreHonest
  BY JTyped, RHonest DEF IInv, TypeOK, RehearsalsAreHonest, FilesAreHonest
<1> QED
  BY <1>1, Invariance, PTL

-----------------------------------------------------------------------------
(* Action properties.                                                      *)

(* Only an intention adds to what is intended.                             *)
LEMMA OnlyIntendOrderIntends ==
  ASSUME JInv, NEW enabled, NEW preflight, JNext(enabled, preflight),
         journal'.intended # journal.intended
  PROVE  IntendOrder
<1>1. \A j : Record(j) => journal' = j
  BY DEF Record
<1>2. journal \in JournalType
  BY DEF JInv
<1>3. CASE Accept \/ Fill \/ Settle \/ Tick \/ AskGate(enabled, preflight) \/ Restart
  BY <1>3 DEF Accept, Fill, Settle, Tick, AskGate, Restart
<1>4. CASE Observe
  BY <1>1, <1>2, <1>4
  DEF Observe, ObserveAccepted, ObserveFill, ObserveBalance, ObservePosition, ObserveSettlement,
      ObserveHeartbeat, ObserveGeoblock, OpenIncident, ReviewIncident, JournalType
<1>5. CASE Reconcile
  BY <1>2, <1>5 DEF Reconcile, Reconciled, JournalType
<1> QED
  BY <1>3, <1>4, <1>5 DEF JNext, Observe

(* No order is intended before every earlier one is covered by a           *)
(* reconciliation, for any orders, incidents and ages.                     *)
THEOREM OrdersWait == Spec => NextOrderWaits
<1>1. IInv /\ [Next]_vars =>
        [journal'.intended # journal.intended => journal.intended \subseteq covered]_jvars
  <2> SUFFICES ASSUME IInv, [Next]_vars, journal'.intended # journal.intended
               PROVE  journal.intended \subseteq covered
    OBVIOUS
  <2>1. Trade
    BY DEF Next, vars, jvars, Rehearse, Begin
  <2>2. IntendOrder
    BY <2>1, OnlyIntendOrderIntends DEF Trade, IInv
  <2> QED
    BY <2>2 DEF IntendOrder, IInv, JInv
<1> QED
  BY <1>1, Invariance, PTL DEF Spec, NextOrderWaits

(* A reconciliation that passes finds no difference between the journal    *)
(* and the account read back.                                              *)
LEMMA NoMismatchMeansTold ==
  ASSUME JInv, NEW h, NEW g, Mismatches(journal, Readback(h, g), now) = {}
  PROVE  /\ journal.accepted = venue.orders /\ journal.fills = venue.trades
         /\ journal.balance = Traded /\ journal.position = Traded
         /\ journal.settled = venue.settled
<1> DEFINE read == Readback(h, g)
<1>1. /\ read.orders = venue.orders /\ read.trades = venue.trades /\ read.balance = Traded
      /\ read.position = Traded /\ read.settled = venue.settled
  BY DEF Readback
<1> HIDE DEF read
<1>2. /\ OrderMismatches(journal.accepted, read.orders) = {}
      /\ TradeMismatches(DOMAIN journal.accepted, journal.fills, read.trades) = {}
      /\ journal.balance = read.balance /\ journal.position = read.position
      /\ journal.settled = read.settled
  BY DEF read, Mismatches, If
<1>3. journal.accepted = venue.orders
  <2>1. DOMAIN journal.accepted = DOMAIN venue.orders
    BY <1>1, <1>2 DEF OrderMismatches, If
  <2>2. \A o \in DOMAIN journal.accepted : journal.accepted[o] = venue.orders[o]
    BY <1>1, <1>2, <2>1 DEF OrderMismatches, If
  <2> QED
    BY <2>1, <2>2, MapsTyped, MapsAreEqual, Zenon
<1>4. journal.fills = venue.trades
  <2>1. DOMAIN journal.fills = DOMAIN venue.trades
    BY <1>1, <1>2 DEF TradeMismatches, If
  <2>2. \A t \in DOMAIN journal.fills : journal.fills[t] = venue.trades[t]
    BY <1>1, <1>2, <2>1 DEF TradeMismatches, If
  <2> QED
    BY <2>1, <2>2, MapsTyped, MapsAreEqual, Zenon
<1> QED
  BY <1>1, <1>2, <1>3, <1>4

(* Only a reconciliation makes a report that passed. *)
LEMMA OnlyReconcilePasses ==
  ASSUME JInv, NEW enabled, NEW preflight, JNext(enabled, preflight),
         report' = "passed", report # "passed" \/ (journal'.passed /\ ~ journal.passed)
  PROVE  Reconcile
<1>1. \A j : Record(j) => journal' = j
  BY DEF Record
<1>2. journal \in JournalType
  BY DEF JInv
<1>3. CASE Accept \/ Fill \/ Settle \/ Tick \/ AskGate(enabled, preflight) \/ Restart
  BY <1>3 DEF Accept, Fill, Settle, Tick, AskGate, Restart, None
<1>4. CASE Observe
  <2>1. report' = report
    BY <1>4
    DEF Observe, ObserveAccepted, ObserveFill, ObserveBalance, ObservePosition, ObserveSettlement,
        ObserveHeartbeat, ObserveGeoblock, OpenIncident, ReviewIncident, Record
  <2>2. journal'.passed = journal.passed
    BY <1>1, <1>2, <1>4
    DEF Observe, ObserveAccepted, ObserveFill, ObserveBalance, ObservePosition, ObserveSettlement,
        ObserveHeartbeat, ObserveGeoblock, OpenIncident, ReviewIncident, JournalType
  <2> QED
    BY <2>1, <2>2
<1>5. CASE IntendOrder
  BY <1>2, <1>5 DEF IntendOrder, Intended, JournalType
<1> QED
  BY <1>3, <1>4, <1>5 DEF JNext, Observe

(* A reconciliation that passes is over a journal that has told the whole  *)
(* account: its orders and trades, what they did to it, its settlement.    *)
THEOREM PassedTells == Spec => PassedMeansTold
<1> DEFINE Told ==
      /\ journal.accepted = venue.orders /\ journal.fills = venue.trades
      /\ journal.balance = Traded /\ journal.position = Traded
      /\ journal.settled = venue.settled
<1>1. IInv /\ [Next]_vars =>
        [(report' = "passed" /\ (report # "passed" \/ (journal'.passed /\ ~ journal.passed)))
           => Told]_jvars
  <2> SUFFICES ASSUME IInv, [Next]_vars, report' = "passed",
                      report # "passed" \/ (journal'.passed /\ ~ journal.passed)
               PROVE  Told
    OBVIOUS
  <2>1. Trade
    BY DEF Next, vars, jvars, Rehearse, Begin
  <2>2. Reconcile
    BY <2>1, OnlyReconcilePasses DEF Trade, IInv
  <2>3. PICK h \in {Unseen, Stale, now}, g \in {Unseen, Stale, now} :
          Mismatches(journal, Readback(h, g), now) = {}
    <3>1. PICK mismatches \in {Mismatches(journal, Readback(h, g), now) :
                                 h, g \in {Unseen, Stale, now}} :
            report' = IF mismatches = {} THEN "passed" ELSE "halt_required"
      BY <2>2 DEF Reconcile
    <3> QED
      BY <3>1
  <2> QED
    BY <2>3, NoMismatchMeansTold DEF IInv
<1> QED
  BY <1>1, Invariance, PTL DEF Spec, PassedMeansTold

(* The gate allows an order only to a session with live trading enabled    *)
(* and a preflight that had heard the account and the place, with every    *)
(* earlier intention covered and fresh observations.                       *)
THEOREM AllowedIsBackedHolds == Spec => AllowedIsBacked
<1> DEFINE Backing ==
       /\ session.enabled /\ session.backed
       /\ journal.intended \subseteq covered
       /\ LET bundle == Bundle(journal, report, decision')
          IN bundle.summary.resolved /\ bundle.reconciliation = "passed"
       /\ FreshAt(journal.heartbeat, now) /\ FreshAt(journal.geoblock, now)
<1>1. IInv /\ [Next]_vars =>
        [(decision' = "allowed" /\ decision # "allowed") => Backing]_vars
  <2> SUFFICES ASSUME IInv, [Next]_vars, decision' = "allowed", decision # "allowed"
               PROVE  Backing
    OBVIOUS
  <2>1. Trade
    BY SMTT(60) DEF Next, vars, jvars, Rehearse, Begin
  <2>1a. Reconcile => decision' = decision
    BY DEF Reconcile
  <2>2. AskGate(session.enabled, session.preflight)
    BY <2>1, <2>1a
    DEF Trade, JNext, Accept, Fill, Settle, Tick, Record, ObserveAccepted, ObserveFill,
        ObserveBalance, ObservePosition, ObserveSettlement, ObserveHeartbeat, ObserveGeoblock,
        OpenIncident, ReviewIncident, IntendOrder, Restart, None
  <2>3. GateReasons(GateInput(session.enabled, session.preflight, "passed")) = {}
    BY <2>2 DEF AskGate
  <2>4. /\ session.enabled /\ session.preflight = "passed" /\ report = "passed"
        /\ PreviousResolved(journal) /\ journal.intended \subseteq covered
        /\ FreshAt(journal.heartbeat, now) /\ FreshAt(journal.geoblock, now)
    BY <2>3, AllowedIsCovered DEF IInv
  <2>5. session.backed
    BY <2>1, <2>4 DEF IInv, SessionIsHonest, Trade
  <2> QED
    BY <2>4, <2>5 DEF Bundle, Summary
<1> QED
  BY <1>1, Invariance, PTL DEF Spec, AllowedIsBacked

-----------------------------------------------------------------------------
(* What is run next to live trading from the same build leaves it alone:   *)
(* all of this holds of the commands too.                                  *)
THEOREM CommandsTrade == CommandsSpec => Spec
<1>1. CommandsInit => Init
  BY DEF CommandsInit
<1>2. [CommandsNext]_allVars => [Next]_vars
  BY DEF CommandsNext, allVars
<1> QED
  BY <1>1, <1>2, PTL DEF CommandsSpec, Spec
-----------------------------------------------------------------------------
(* The checks of the live_alpha account.  What the process that runs knows *)
(* is what it has heard so far.                                            *)

CheckFields ==
  {"at", "command", "place", "credentials", "read", "readback", "recovery", "lines", "status",
   "heartbeat", "gate", "mismatches"}
AskingStages == {"balance", "orders", "trades", "markets"}
BeforeVerdict == {"place", "discovery", "preflight", "recover"} \cup AskingStages
CheckStages == BeforeVerdict \cup {"persist", "gates", "end"}

(* What is read at a stage, and what a live readback says. *)
ReadTyped ==
  /\ "balance" \in DOMAIN check.read => check.read.balance[1] \in Nat
  /\ "trades" \in DOMAIN check.read => \A t \in check.read.trades : t.status \in TradeStatuses
ReadSoFar ==
  /\ check.at = "place" => ~ check.credentials
  /\ check.at \in AskingStages => check.credentials
  /\ check.at \in {"orders", "trades", "markets"} => "balance" \in DOMAIN check.read
  /\ check.at = "markets" => "trades" \in DOMAIN check.read
LiveIsRead ==
  check.readback.live =>
    /\ check.credentials /\ check.at # "place"
    /\ {"balance", "trades"} \subseteq DOMAIN check.read
    /\ check.readback.reasons = Startup!ReadbackReasons(Startup!Held, Startup!SeenOf(check.read))

(* The credentials and the gate, of a check that is not idle. *)
ReadAllowed ==
  check.credentials =>
    /\ check.place = "passed"
    /\ config.held \cap {"lb3_hold", "legal_access"} = {} /\ config.secrets
    /\ ~ (Startup!Validating /\ check.command.localOnly)
Pending ==
  {<<"missing_cli_intent", "">>, <<"approval_missing", "">>, <<"phase_not_approved", "">>,
   <<"heartbeat", "unknown">>}
GateStands ==
  /\ check.at # "end" => check.gate = {}
  /\ check.gate # {} /\ check.gate \subseteq Pending => check.recovery = "passed"

CheckTyped ==
  /\ DOMAIN check = CheckFields
  /\ check.at \in CheckStages
  /\ check.at \in BeforeVerdict => check.recovery = "none"
  /\ ReadTyped /\ ReadSoFar /\ LiveIsRead

CheckInv ==
  /\ ~ Trading => account \in Accounts
  /\ ~ Trading => DOMAIN alphaJournal = {"state", "events", "recorded", "tokens", "positions"}
  /\ \/ check = Startup!Idle
     \/ CheckTyped /\ ReadAllowed /\ GateStands /\ Startup!PassedMeansClean

LEMMA CheckInvMeansSound == CheckInv => ChecksAreSound
<1> SUFFICES ASSUME CheckInv PROVE ChecksAreSound
  OBVIOUS
<1>1. CASE check = Startup!Idle
  BY <1>1 DEF ChecksAreSound, Startup!StartupIsSound, Startup!AccountReadAllowed,
              Startup!PassedMeansClean, Startup!GateStandsOnRecovery, Startup!Idle
<1>2. CASE CheckTyped /\ ReadAllowed /\ GateStands /\ Startup!PassedMeansClean
  <2>1. Startup!AccountReadAllowed
    BY <1>2 DEF Startup!AccountReadAllowed, ReadAllowed
  <2>2. Startup!GateStandsOnRecovery
    BY <1>2 DEF Startup!GateStandsOnRecovery, GateStands, Pending
  <2> QED
    BY <1>2, <2>1, <2>2 DEF ChecksAreSound, Startup!StartupIsSound
<1> QED
  BY <1>1, <1>2 DEF CheckInv

(* A command that goes on updates the record of its check. *)
LEMMA ToIs ==
  ASSUME NEW fields, DOMAIN check = CheckFields, DOMAIN fields \subseteq CheckFields,
         Startup!To(fields)
  PROVE  /\ DOMAIN check' = CheckFields
         /\ \A f \in CheckFields : check'[f] = IF f \in DOMAIN fields THEN fields[f] ELSE check[f]
BY DEF Startup!To, Startup!With

(* What a step that hears nothing and decides nothing leaves as it was. *)
Unheard ==
  /\ DOMAIN check' = CheckFields
  /\ check'.command = check.command /\ check'.place = check.place
  /\ check'.credentials = check.credentials /\ check'.read = check.read
  /\ check'.readback = check.readback /\ check'.recovery = check.recovery
  /\ check'.gate = check.gate

LEMMA UnheardIsKept ==
  ASSUME CheckTyped, ReadAllowed, GateStands, Unheard, UNCHANGED config,
         check'.at \in CheckStages \ (AskingStages \cup {"place"}), check.at # "end",
         check'.at \in BeforeVerdict => check.at \in BeforeVerdict
  PROVE  CheckTyped' /\ ReadAllowed' /\ GateStands'
<1>1. /\ DOMAIN check' = CheckFields /\ check'.at \in CheckStages
      /\ check'.at \in BeforeVerdict => check'.recovery = "none"
  BY DEF Unheard, CheckTyped
<1>2. ReadTyped'
  BY DEF Unheard, CheckTyped, ReadTyped
<1>3. ReadSoFar'
  BY DEF AskingStages, ReadSoFar
<1>4. LiveIsRead'
  <2>1. Startup!Held' = Startup!Held
    BY DEF Unheard, Startup!Held
  <2> QED
    BY <2>1 DEF Unheard, CheckTyped, LiveIsRead
<1>5. ReadAllowed'
  BY DEF Unheard, ReadAllowed, Startup!Validating
<1>6. GateStands'
  BY DEF Unheard, GateStands
<1> QED
  BY <1>1, <1>2, <1>3, <1>4, <1>5, <1>6 DEF CheckTyped

LEMMA UnheardIsSound ==
  ASSUME CheckTyped, ReadAllowed, GateStands, Startup!PassedMeansClean, Unheard,
         UNCHANGED <<config, alphaJournal>>,
         check'.at \in CheckStages \ (AskingStages \cup {"place"}), check.at # "end",
         check'.at \in BeforeVerdict => check.at \in BeforeVerdict
  PROVE  CheckTyped' /\ ReadAllowed' /\ GateStands' /\ Startup!PassedMeansClean'
<1>1. CheckTyped' /\ ReadAllowed' /\ GateStands'
  BY UnheardIsKept
<1>2. Startup!PassedMeansClean'
  BY DEF Unheard, Startup!PassedMeansClean, Startup!Explained, Startup!BaselineRequired
<1> QED
  BY <1>1, <1>2

(* A command starts from nothing. *)
LEMMA BegunIsSound ==
  ASSUME NEW command, Startup!Begun(command)
  PROVE  CheckTyped' /\ ReadAllowed' /\ GateStands' /\ Startup!PassedMeansClean'
<1>1. /\ DOMAIN check' = CheckFields /\ check'.at \in {"place", "end"}
      /\ check'.credentials = FALSE /\ check'.read = << >> /\ check'.readback.live = FALSE
      /\ check'.recovery = "none" /\ check'.gate = {}
  BY DEF Startup!Begun, Startup!NoReadback, CheckFields
<1>2. ReadTyped'
  BY <1>1 DEF ReadTyped
<1>3. ReadSoFar' /\ LiveIsRead'
  BY <1>1 DEF ReadSoFar, LiveIsRead, AskingStages
<1>4. ReadAllowed' /\ GateStands' /\ Startup!PassedMeansClean'
  BY <1>1 DEF ReadAllowed, GateStands, Startup!PassedMeansClean
<1> QED
  BY <1>1, <1>2, <1>3, <1>4 DEF CheckTyped, CheckStages, BeforeVerdict

LEMMA FinishIsSound ==
  ASSUME CheckTyped, ReadAllowed, GateStands, Startup!PassedMeansClean, NEW status,
         Startup!Finish(status), UNCHANGED <<config, alphaJournal>>, check.at # "end"
  PROVE  CheckTyped' /\ ReadAllowed' /\ GateStands' /\ Startup!PassedMeansClean'
<1> DEFINE fields == [at |-> "end", status |-> status]
<1>1. DOMAIN fields = {"at", "status"} /\ fields["at"] = "end"
  OBVIOUS
<1>2. Startup!To(fields)
  BY DEF Startup!Finish
<1> HIDE DEF fields
<1>3. Unheard /\ check'.at = "end"
  BY <1>1, <1>2, ToIs DEF CheckTyped, CheckFields, Unheard
<1> QED
  BY <1>3, UnheardIsSound DEF CheckStages, BeforeVerdict, AskingStages

LEMMA PlaceIsSound ==
  ASSUME CheckTyped, ReadAllowed, GateStands, Startup!PassedMeansClean, Startup!Place
  PROVE  CheckTyped' /\ ReadAllowed' /\ GateStands' /\ Startup!PassedMeansClean'
<1>0. check.at = "place" /\ UNCHANGED <<config, alphaJournal>>
  BY DEF Startup!Place, Startup!Quietly
<1>1. \A place : Startup!AfterPlace(place) \in {"preflight", "recover", "discovery"}
  BY DEF Startup!AfterPlace
<1>2. CASE \E status : Startup!Finish(status)
  BY <1>0, <1>2, FinishIsSound
<1>3. CASE \E place : Startup!To([at |-> Startup!AfterPlace(place)])
  <2>1. PICK place : Startup!To([at |-> Startup!AfterPlace(place)])
    BY <1>3
  <2> DEFINE next == Startup!AfterPlace(place)
             fields == [at |-> next]
  <2> HIDE DEF next
  <2>2. DOMAIN fields = {"at"} /\ fields["at"] = next
    OBVIOUS
  <2>3. Startup!To(fields)
    BY <2>1 DEF next
  <2> HIDE DEF fields
  <2>4. Unheard /\ check'.at = next
    BY <2>2, <2>3, ToIs DEF CheckTyped, CheckFields, Unheard
  <2>5. next \in {"preflight", "recover", "discovery"}
    BY <1>1 DEF next
  <2> QED
    BY <1>0, <2>4, <2>5, UnheardIsSound DEF CheckStages, BeforeVerdict, AskingStages
<1>4. CASE \E place \in {"passed", "blocked"} :
             Startup!To([at |-> Startup!AfterPlace(place), place |-> place])
  <2>1. PICK place \in {"passed", "blocked"} :
          Startup!To([at |-> Startup!AfterPlace(place), place |-> place])
    BY <1>4
  <2> DEFINE next == Startup!AfterPlace(place)
             fields == [at |-> next, place |-> place]
  <2> HIDE DEF next
  <2>2. DOMAIN fields = {"at", "place"} /\ fields["at"] = next
    OBVIOUS
  <2>3. Startup!To(fields)
    BY <2>1 DEF next
  <2> HIDE DEF fields
  <2>4. /\ DOMAIN check' = CheckFields
        /\ \A f \in CheckFields \ {"at", "place"} : check'[f] = check[f]
        /\ check'.at = next
    BY <2>2, <2>3, ToIs DEF CheckTyped, CheckFields
  <2>5. next \in {"preflight", "recover", "discovery"}
    BY <1>1 DEF next
  <2>6. /\ check'.credentials = check.credentials /\ check'.read = check.read
        /\ check'.readback = check.readback /\ check'.recovery = check.recovery
        /\ check'.gate = check.gate /\ check'.command = check.command
    BY <2>4 DEF CheckFields
  <2>7. check.recovery = "none" /\ ~ check.readback.live
    BY <1>0 DEF CheckTyped, LiveIsRead, BeforeVerdict
  <2>8. ~ check.credentials
    BY <1>0 DEF ReadSoFar, CheckTyped
  <2>9. check'.at \in BeforeVerdict /\ check'.at \notin AskingStages /\ check'.at # "place"
    BY <2>4, <2>5 DEF BeforeVerdict, AskingStages
  <2>10. CheckTyped'
    BY <2>4, <2>6, <2>7, <2>9
    DEF CheckTyped, ReadTyped, ReadSoFar, LiveIsRead, CheckStages, AskingStages
  <2>11. ReadAllowed' /\ Startup!PassedMeansClean'
    BY <2>6, <2>7, <2>8 DEF ReadAllowed, Startup!PassedMeansClean
  <2>12. GateStands'
    BY <1>0, <2>6 DEF GateStands
  <2> QED
    BY <2>10, <2>11, <2>12
<1> QED
  BY <1>2, <1>3, <1>4 DEF Startup!Place

LEMMA DiscoveryIsSound ==
  ASSUME CheckTyped, ReadAllowed, GateStands, Startup!PassedMeansClean, Startup!Discovery
  PROVE  CheckTyped' /\ ReadAllowed' /\ GateStands' /\ Startup!PassedMeansClean'
<1>0. check.at = "discovery" /\ UNCHANGED <<config, alphaJournal>>
  BY DEF Startup!Discovery, Startup!Quietly
<1>1. CASE Startup!Finish("error")
  BY <1>0, <1>1, FinishIsSound
<1>2. CASE Startup!To([at |-> "recover"])
  <2>1. Unheard /\ check'.at = "recover"
    BY <1>2, ToIs DEF CheckTyped, CheckFields, Unheard
  <2> QED
    BY <1>0, <2>1, UnheardIsSound DEF CheckStages, BeforeVerdict, AskingStages
<1> QED
  BY <1>1, <1>2 DEF Startup!Discovery

(* The credentials are taken only where the account may be read. *)
LEMMA MayReadIsAllowed ==
  ASSUME Startup!MayRead
  PROVE  /\ check.place = "passed" /\ config.held \cap {"lb3_hold", "legal_access"} = {}
         /\ ~ (Startup!Validating /\ check.command.localOnly)
<1>1. /\ Startup!Held \cap {"lb3_hold", "legal_access", "geoblock"} = {}
      /\ ~ (Startup!Validating /\ check.command.localOnly)
  BY DEF Startup!MayRead, Startup!AsksTheVenue
<1> QED
  BY <1>1 DEF Startup!Held

LEMMA PreflightIsSound ==
  ASSUME CheckTyped, ReadAllowed, GateStands, Startup!PassedMeansClean, Startup!Preflight
  PROVE  CheckTyped' /\ ReadAllowed' /\ GateStands' /\ Startup!PassedMeansClean'
<1>0. check.at = "preflight" /\ UNCHANGED <<config, alphaJournal>>
  BY DEF Startup!Preflight, Startup!Quietly
<1>a. check.recovery = "none" /\ check.gate = {}
  BY <1>0 DEF CheckTyped, GateStands, BeforeVerdict
<1>1. CASE Startup!Finish("error")
  BY <1>0, <1>1, FinishIsSound
<1>2. CASE Startup!To([at |-> "recover", readback |-> Startup!Sampled])
  <2> DEFINE fields == [at |-> "recover", readback |-> Startup!Sampled]
  <2>1. /\ DOMAIN fields = {"at", "readback"} /\ fields["at"] = "recover"
        /\ fields["readback"] = Startup!Sampled
    OBVIOUS
  <2>2. ~ Startup!Sampled.live
    BY DEF Startup!Sampled
  <2> HIDE DEF fields
  <2>3. /\ DOMAIN check' = CheckFields
        /\ \A f \in CheckFields \ {"at", "readback"} : check'[f] = check[f]
        /\ check'.at = "recover" /\ ~ check'.readback.live
    BY <1>2, <2>1, <2>2, ToIs DEF CheckTyped, CheckFields, fields
  <2>4. /\ check'.credentials = check.credentials /\ check'.read = check.read
        /\ check'.recovery = check.recovery /\ check'.place = check.place
        /\ check'.gate = check.gate /\ check'.command = check.command
    BY <2>3 DEF CheckFields
  <2>5. CheckTyped'
    BY <1>a, <2>3, <2>4
    DEF CheckTyped, ReadTyped, ReadSoFar, LiveIsRead, CheckStages, AskingStages, BeforeVerdict
  <2>6. ReadAllowed' /\ Startup!PassedMeansClean' /\ GateStands'
    BY <1>0, <1>a, <2>4 DEF ReadAllowed, Startup!PassedMeansClean, GateStands, Startup!Validating
  <2> QED
    BY <2>5, <2>6
<1>3. CASE Startup!MayRead /\ config.secrets /\ Startup!To([at |-> "balance", credentials |-> TRUE])
  <2> DEFINE fields == [at |-> "balance", credentials |-> TRUE]
  <2>1. /\ DOMAIN fields = {"at", "credentials"} /\ fields["at"] = "balance"
        /\ fields["credentials"] = TRUE
    OBVIOUS
  <2> HIDE DEF fields
  <2>3. /\ DOMAIN check' = CheckFields
        /\ \A f \in CheckFields \ {"at", "credentials"} : check'[f] = check[f]
        /\ check'.at = "balance" /\ check'.credentials = TRUE
    BY <1>3, <2>1, ToIs DEF CheckTyped, CheckFields, fields
  <2>4. /\ check'.readback = check.readback /\ check'.read = check.read
        /\ check'.recovery = check.recovery /\ check'.place = check.place
        /\ check'.gate = check.gate /\ check'.command = check.command
    BY <2>3 DEF CheckFields
  <2>5. ReadTyped' /\ ReadSoFar'
    BY <2>3, <2>4 DEF CheckTyped, ReadTyped, ReadSoFar
  <2>6. LiveIsRead'
    <3>1. Startup!Held' = Startup!Held
      BY <1>0, <2>4 DEF Startup!Held
    <3> QED
      BY <2>3, <2>4, <3>1 DEF CheckTyped, LiveIsRead
  <2>7. CheckTyped'
    BY <1>a, <2>3, <2>4, <2>5, <2>6 DEF CheckTyped, CheckStages, BeforeVerdict, AskingStages
  <2>8. ReadAllowed'
    BY <1>0, <1>3, <2>4, MayReadIsAllowed DEF ReadAllowed, Startup!Validating
  <2>9. Startup!PassedMeansClean' /\ GateStands'
    BY <1>a, <2>4 DEF Startup!PassedMeansClean, GateStands
  <2> QED
    BY <2>7, <2>8, <2>9
<1> QED
  BY <1>1, <1>2, <1>3 DEF Startup!Preflight

(* One request follows the other. *)
LEMMA AfterIs ==
  /\ Startup!After("balance") = "orders" /\ Startup!After("orders") = "trades"
  /\ Startup!After("trades") = "markets" /\ Startup!After("markets") = "recover"
<1> DEFINE places == DOMAIN Startup!Requests
<1>1. /\ places = 1..5
      /\ Startup!Requests[1] = "balance" /\ Startup!Requests[2] = "orders"
      /\ Startup!Requests[3] = "trades" /\ Startup!Requests[4] = "markets"
      /\ Startup!Requests[5] = "recover"
  BY DEF Startup!Requests
<1> HIDE DEF places
<1>2. \A n \in places : n \in {1, 2, 3, 4, 5}
  BY <1>1
<1>3. \A n \in places : /\ Startup!Requests[n] = "balance" => n = 1
                        /\ Startup!Requests[n] = "orders" => n = 2
                        /\ Startup!Requests[n] = "trades" => n = 3
                        /\ Startup!Requests[n] = "markets" => n = 4
  BY <1>1, <1>2
<1>4. 1 \in places /\ 2 \in places /\ 3 \in places /\ 4 \in places
  BY <1>1
<1>5. /\ (CHOOSE n \in places : Startup!Requests[n] = "balance") = 1
      /\ (CHOOSE n \in places : Startup!Requests[n] = "orders") = 2
      /\ (CHOOSE n \in places : Startup!Requests[n] = "trades") = 3
      /\ (CHOOSE n \in places : Startup!Requests[n] = "markets") = 4
  BY <1>1, <1>3, <1>4
<1> QED
  BY <1>1, <1>5 DEF Startup!After, places

(* What the account answers is typed. *)
LEMMA AnswersAreTyped ==
  ASSUME account \in Accounts, NEW request \in AskingStages, ~ Startup!AnswerTo(request).failed
  PROVE  /\ request = "balance" => Startup!AnswerTo(request).data[1] \in Nat
         /\ request = "trades" =>
              \A t \in Startup!AnswerTo(request).data : t.status \in TradeStatuses
<1>1. CASE request = "balance"
  BY <1>1, ChecksAssumption DEF Startup!AnswerTo
<1>2. CASE request = "trades"
  <2>1. Startup!AnswerTo(request) = Startup!AllPages(account.trades)
    BY <1>2 DEF Startup!AnswerTo
  <2>2. Startup!AnswerTo(request) = Startup!Told(account.trades)
    BY <2>1 DEF Startup!AllPages, Startup!NotAnswered
  <2>3. Startup!AnswerTo(request).data = Startup!Listed(account.trades)
    BY <2>2 DEF Startup!Told
  <2> QED
    BY <1>2, <2>3, ChecksAssumption
<1> QED
  BY <1>1, <1>2

LEMMA RequestIsSound ==
  ASSUME CheckTyped, ReadAllowed, GateStands, Startup!PassedMeansClean, account \in Accounts,
         Startup!Request
  PROVE  CheckTyped' /\ ReadAllowed' /\ GateStands' /\ Startup!PassedMeansClean'
<1>0. check.at \in AskingStages /\ check.at # "end" /\ UNCHANGED <<config, alphaJournal>>
  BY DEF Startup!Request, Startup!Quietly, AskingStages
<1>a. check.recovery = "none" /\ check.gate = {} /\ check.credentials
  BY <1>0 DEF CheckTyped, GateStands, BeforeVerdict, ReadSoFar
<1>1. CASE Startup!Finish("error")
  BY <1>0, <1>1, FinishIsSound
<1>2. CASE ~ Startup!Finish("error")
  <2> DEFINE data == Startup!AnswerTo(check.at).data
             read == Startup!With(check.read, [r \in {check.at} |-> data])
             next == Startup!After(check.at)
             told == IF check.at # "markets" THEN Startup!NoReadback
                     ELSE [live |-> TRUE,
                           reasons |-> Startup!ReadbackReasons(Startup!Held, Startup!SeenOf(read))]
             fields == [at |-> next, read |-> read, readback |-> told]
  <2>1. ~ Startup!AnswerTo(check.at).failed /\ Startup!To(fields)
    BY <1>2 DEF Startup!Request
  <2>2. /\ DOMAIN read = DOMAIN check.read \cup {check.at} /\ read[check.at] = data
        /\ \A r \in DOMAIN check.read \ {check.at} : read[r] = check.read[r]
    <3> DEFINE old == check.read
               request == check.at
               answered == [r \in {request} |-> data]
    <3>1. read = Startup!With(old, answered)
      OBVIOUS
    <3>2. answered = [r \in {request} |-> data]
      OBVIOUS
    <3> HIDE DEF data, read, old, request, answered
    <3>3. /\ DOMAIN read = DOMAIN old \cup {request} /\ read[request] = data
          /\ \A r \in DOMAIN old \ {request} : read[r] = old[r]
      BY <3>1, <3>2 DEF Startup!With
    <3> QED
      BY <3>3 DEF old, request
  <2>3. /\ check.at = "balance" => data[1] \in Nat
        /\ check.at = "trades" => \A t \in data : t.status \in TradeStatuses
    BY <1>0, <2>1, AnswersAreTyped
  <2>4. /\ told.live => /\ check.at = "markets"
                        /\ told.reasons = Startup!ReadbackReasons(Startup!Held, Startup!SeenOf(read))
    BY DEF Startup!NoReadback
  <2>5. next \in {"orders", "trades", "markets", "recover"}
        /\ (next = "orders" => check.at = "balance") /\ (next = "trades" => check.at = "orders")
        /\ (next = "markets" => check.at = "trades")
    BY <1>0, AfterIs DEF AskingStages
  <2> HIDE DEF data, read, next, told
  <2>6. /\ DOMAIN fields = {"at", "read", "readback"} /\ fields["at"] = next
        /\ fields["read"] = read /\ fields["readback"] = told
    OBVIOUS
  <2> HIDE DEF fields
  <2>7. /\ DOMAIN check' = CheckFields
        /\ \A f \in CheckFields \ {"at", "read", "readback"} : check'[f] = check[f]
        /\ check'.at = next /\ check'.read = read /\ check'.readback = told
    BY <2>1, <2>6, ToIs DEF CheckTyped, CheckFields
  <2>8. /\ check'.credentials = check.credentials /\ check'.recovery = check.recovery
        /\ check'.place = check.place /\ check'.gate = check.gate
        /\ check'.command = check.command
    BY <2>7 DEF CheckFields
  <2>9. ReadTyped'
    <3>1. "balance" \in DOMAIN read => read.balance[1] \in Nat
      BY <2>2, <2>3 DEF CheckTyped, ReadTyped
    <3>2. "trades" \in DOMAIN read => \A t \in read.trades : t.status \in TradeStatuses
      BY <2>2, <2>3 DEF CheckTyped, ReadTyped
    <3> QED
      BY <2>7, <3>1, <3>2 DEF ReadTyped
  <2>10. ReadSoFar'
    BY <1>a, <2>2, <2>5, <2>7, <2>8 DEF CheckTyped, ReadSoFar
  <2>11. LiveIsRead'
    <3>1. Startup!Held' = Startup!Held
      BY <1>0, <2>8 DEF Startup!Held
    <3>2. check.at = "markets" => {"balance", "trades"} \subseteq DOMAIN read
      BY <2>2 DEF CheckTyped, ReadSoFar
    <3> QED
      BY <1>a, <2>4, <2>5, <2>7, <2>8, <3>1, <3>2 DEF LiveIsRead
  <2>12. CheckTyped'
    BY <1>a, <2>5, <2>7, <2>8, <2>9, <2>10, <2>11
    DEF CheckTyped, CheckStages, BeforeVerdict, AskingStages
  <2>13. ReadAllowed' /\ Startup!PassedMeansClean' /\ GateStands'
    BY <1>0, <1>a, <2>8 DEF ReadAllowed, Startup!PassedMeansClean, GateStands, Startup!Validating
  <2> QED
    BY <2>12, <2>13
<1> QED
  BY <1>1, <1>2

(* The gates report what the recovery has found. *)
LEMMA GateNeedsRecovery ==
  ASSUME Startup!AlphaGateReasons \subseteq Pending
  PROVE  check.recovery = "passed"
<1>1. Startup!Complaint("reconciliation", Startup!ReconciliationReadiness) \subseteq Pending
  BY DEF Startup!AlphaGateReasons
<1>2. Startup!ReconciliationReadiness = "passed"
  <2> DEFINE status == Startup!ReconciliationReadiness
  <2> HIDE DEF status
  <2> SUFFICES ASSUME status # "passed" PROVE FALSE
    BY DEF status
  <2>1. <<"reconciliation", status>> \in Startup!Complaint("reconciliation", status)
    BY DEF Startup!Complaint, Startup!Complaints
  <2>2. <<"reconciliation", status>> \in Pending
    BY <1>1, <2>1 DEF status
  <2> QED
    BY <2>2 DEF Pending
<1> QED
  BY <1>2 DEF Startup!ReconciliationReadiness

LEMMA GatesAreSound ==
  ASSUME CheckTyped, ReadAllowed, GateStands, Startup!PassedMeansClean, Startup!Gates
  PROVE  CheckTyped' /\ ReadAllowed' /\ GateStands' /\ Startup!PassedMeansClean'
<1>0. check.at = "gates" /\ UNCHANGED <<config, alphaJournal>>
  BY DEF Startup!Gates, Startup!Quietly
<1> DEFINE reasons == Startup!AlphaGateReasons
           status == IF Startup!Refused THEN "error" ELSE "ok"
           fields == [at |-> "end", gate |-> reasons, status |-> status]
<1>1. Startup!To(fields)
  BY DEF Startup!Gates
<1>2. reasons \subseteq Pending => check.recovery = "passed"
  BY GateNeedsRecovery
<1> HIDE DEF reasons, status
<1>3. DOMAIN fields = {"at", "gate", "status"} /\ fields["at"] = "end" /\ fields["gate"] = reasons
  OBVIOUS
<1> HIDE DEF fields
<1>4. /\ DOMAIN check' = CheckFields
      /\ \A f \in CheckFields \ {"at", "gate", "status"} : check'[f] = check[f]
      /\ check'.at = "end" /\ check'.gate = reasons
  BY <1>1, <1>3, ToIs DEF CheckTyped, CheckFields
<1>5. /\ check'.credentials = check.credentials /\ check'.recovery = check.recovery
      /\ check'.place = check.place /\ check'.read = check.read
      /\ check'.readback = check.readback /\ check'.command = check.command
  BY <1>4 DEF CheckFields
<1>6. GateStands'
  BY <1>2, <1>4, <1>5 DEF GateStands, Pending
<1>7. ReadTyped' /\ ReadSoFar'
  BY <1>4, <1>5 DEF CheckTyped, ReadTyped, ReadSoFar, AskingStages
<1>8. LiveIsRead'
  <2>1. Startup!Held' = Startup!Held
    BY <1>0, <1>5 DEF Startup!Held
  <2> QED
    BY <1>4, <1>5, <2>1 DEF CheckTyped, LiveIsRead
<1>9. CheckTyped'
  BY <1>4, <1>7, <1>8 DEF CheckTyped, CheckStages, BeforeVerdict, AskingStages
<1>10. ReadAllowed'
  BY <1>0, <1>5 DEF ReadAllowed, Startup!Validating
<1>11. Startup!PassedMeansClean'
  BY <1>0, <1>5 DEF Startup!PassedMeansClean, Startup!Explained, Startup!BaselineRequired
<1> QED
  BY <1>6, <1>9, <1>10, <1>11

(* A readback without a reason to block has seen a clean account. *)
LEMMA NoReasonMeansClean ==
  ASSUME NEW held, NEW seen, Startup!ReadbackReasons(held, seen) = {}
  PROVE  /\ seen.venue = "trading_enabled" /\ seen.orders = << >>
         /\ \A t \in DOMAIN seen.trades :
              seen.trades[t].status \notin {"Matched", "Mined", "Retrying", "Failed", "Unknown"}
<1>1. /\ Startup!Reason("venue_state_not_open", seen.venue # "trading_enabled") = {}
      /\ Startup!OrderReasons(seen.orders) = {} /\ Startup!TradeReasons(seen.trades) = {}
  <2> HIDE DEF Startup!OrderReasons
  <2> QED
    BY DEF Startup!ReadbackReasons
<1>2. seen.venue = "trading_enabled"
  BY <1>1 DEF Startup!Reason
<1>3. seen.orders = << >>
  <2>1. Startup!Reason("unexpected_open_orders", seen.orders # << >>) = {}
    BY <1>1 DEF Startup!OrderReasons
  <2> QED
    BY <2>1 DEF Startup!Reason
<1>4. ASSUME NEW t \in DOMAIN seen.trades
      PROVE  seen.trades[t].status \notin {"Matched", "Mined", "Retrying", "Failed", "Unknown"}
  <2> DEFINE statuses == {seen.trades[u].status : u \in DOMAIN seen.trades}
  <2>1. /\ Startup!Reason("nonterminal_trade_status",
                          statuses \cap {"Matched", "Mined", "Retrying"} # {}) = {}
        /\ Startup!Reason("failed_trade_status", "Failed" \in statuses) = {}
        /\ Startup!Reason("unknown_trade_status", "Unknown" \in statuses) = {}
    BY <1>1 DEF Startup!TradeReasons
  <2>2. seen.trades[t].status \in statuses
    OBVIOUS
  <2> HIDE DEF statuses
  <2> QED
    BY <2>1, <2>2 DEF Startup!Reason
<1> QED
  BY <1>2, <1>3, <1>4

(* No open order holds anything back. *)
LEMMA NothingReserved == Startup!Reserved(<< >>) = 0
<1> DEFINE Rule(g) == g = [s \in SUBSET {} |->
                             IF s = {} THEN 0
                             ELSE LET x == CHOOSE x \in s : TRUE
                                  IN (IF << >>[x].buy THEN << >>[x].left * << >>[x].price ELSE 0)
                                     + g[s \ {x}]]
           none == [s \in SUBSET {} |-> 0]
<1>1. Rule(none)
  OBVIOUS
<1>2. \A g : Rule(g) => g[{}] = 0
  OBVIOUS
<1>3. (CHOOSE g : Rule(g))[{}] = 0
  BY <1>1, <1>2
<1>4. DOMAIN << >> = {}
  OBVIOUS
<1>5. Startup!Reserved(<< >>) = (CHOOSE g : Rule(g))[{}]
  BY <1>4 DEF Startup!Reserved, Startup!MapThenSumSet, Startup!MapThenFoldSet
<1> QED
  BY <1>3, <1>5

(* What was read of the account's trades is typed. *)
LEMMA SeenTrades ==
  ASSUME ReadTyped, {"balance", "trades"} \subseteq DOMAIN check.read
  PROVE  LET seen == Startup!SeenOf(check.read)
         IN /\ seen.balance \in Nat
            /\ \A t \in DOMAIN seen.trades : seen.trades[t].status \in TradeStatuses
<1> DEFINE seen == Startup!SeenOf(check.read)
           listed == Startup!ById(check.read.trades)
<1>1. seen.balance \in Nat
  BY DEF Startup!SeenOf, ReadTyped
<1>2. ASSUME NEW t \in DOMAIN listed PROVE listed[t].status \in TradeStatuses
  <2>1. \E entry \in check.read.trades : entry.id = t
    BY <1>2 DEF Startup!ById
  <2>2. listed[t] \in check.read.trades
    BY <1>2, <2>1 DEF Startup!ById
  <2> QED
    BY <2>2 DEF ReadTyped
<1>3. /\ DOMAIN seen.trades = DOMAIN listed
      /\ \A t \in DOMAIN listed : seen.trades[t].status = listed[t].status
  <2> HIDE DEF listed
  <2> QED
    BY DEF Startup!SeenOf, listed
<1> HIDE DEF seen, listed
<1> QED
  BY <1>1, <1>2, <1>3 DEF seen

(* The journal and the account agree where the recovery finds no mismatch. *)
LEMMA NoMismatchMeansAgreed ==
  ASSUME DOMAIN alphaJournal = {"state", "events", "recorded", "tokens", "positions"},
         NEW seen, seen.orders = << >>, seen.balance \in Nat, Startup!MismatchesOf(seen) = {}
  PROVE  /\ alphaJournal.positions = {} /\ alphaJournal.tokens = {}
         /\ alphaJournal.recorded = [reserved |-> 0, available |-> seen.balance,
                                     total |-> seen.balance]
         /\ \A t \in DOMAIN seen.trades : Startup!Explained(t, seen)
<1> DEFINE base == Startup!BaselineTrades
           local == Startup!LocalState(seen)
           kept == Startup!Without(local, base)
           others == Startup!Foreign(seen)
           listed == Startup!StartupVenue(DOMAIN seen.orders, [t \in others |-> seen.trades[t]],
                                         Startup!ReadBalance(seen))
<1>1. /\ Startup!TradeMismatches(kept, listed) = {} /\ Startup!BalanceMismatches(kept, listed) = {}
      /\ Startup!PositionMismatches(kept, listed, FALSE) = {}
  <2> HIDE DEF kept, listed
  <2>1. Startup!Mismatches(kept, listed, FALSE) = {}
    BY DEF Startup!MismatchesOf, kept, listed
  <2> QED
    BY <2>1 DEF Startup!Mismatches
<1>2. /\ local.positions = alphaJournal.positions /\ local.balance = alphaJournal.recorded
      /\ local.tokens = alphaJournal.tokens
      /\ local.owners \subseteq Startup!TradeOwners(alphaJournal.events)
      /\ DOMAIN local = {"known", "canceled", "partial", "trades", "owners", "balance",
                         "tokens", "positions"}
  BY DEF Startup!LocalState, Startup!StartupLocal
<1>3. /\ kept.positions = local.positions /\ kept.balance = local.balance
      /\ kept.tokens = local.tokens
      /\ kept.owners \subseteq local.owners
  <2> HIDE DEF local, base
  <2> QED
    BY <1>2 DEF Startup!Without
<1>4. /\ listed.balance = Startup!ReadBalance(seen) /\ DOMAIN listed.trades = others
      /\ \A t \in others : listed.trades[t] = seen.trades[t]
  <2> HIDE DEF others
  <2> QED
    BY DEF Startup!StartupVenue
<1>5. others = DOMAIN seen.trades \ base
  BY DEF Startup!Foreign
<1> HIDE DEF base, local, kept, others, listed
<1>6. alphaJournal.positions = {}
  BY <1>1, <1>2, <1>3 DEF Startup!PositionMismatches, Startup!When
<1>7. kept.balance = listed.balance
  BY <1>1 DEF Startup!BalanceMismatches, Startup!When
<1>8. Startup!ReadBalance(seen) = [reserved |-> 0, available |-> seen.balance,
                                   total |-> seen.balance]
  <2>1. Startup!AtLeastZero(seen.balance - 0) = seen.balance
    BY DEF Startup!AtLeastZero
  <2> QED
    BY <2>1, NothingReserved DEF Startup!ReadBalance
<1>10. alphaJournal.tokens = {}
  <2>1. kept.balance # NoBalance /\ listed.balance # NoBalance
    BY <1>4, <1>7, <1>8, ChecksAssumption
  <2> QED
    BY <1>1, <1>2, <1>3, <2>1 DEF Startup!BalanceMismatches, Startup!When
<1>9. ASSUME NEW t \in DOMAIN seen.trades PROVE Startup!Explained(t, seen)
  <2>1. CASE t \in base
    BY <2>1 DEF base, Startup!BaselineTrades, Startup!Explained
  <2>2. CASE t \notin base
    <3>1. t \in DOMAIN listed.trades /\ listed.trades[t] = seen.trades[t]
      BY <1>4, <1>5, <2>2
    <3>2. DOMAIN listed.trades \subseteq kept.trades
      BY <1>1 DEF Startup!TradeMismatches, Startup!When
    <3>3. \A u \in DOMAIN listed.trades \cap kept.trades :
            <<u, listed.trades[u].order>> \in kept.owners
      BY <1>1 DEF Startup!TradeMismatches, Startup!When
    <3>4. <<t, seen.trades[t].order>> \in Startup!TradeOwners(alphaJournal.events)
      BY <1>2, <1>3, <3>1, <3>2, <3>3
    <3> QED
      BY <3>4 DEF Startup!Explained
  <2> QED
    BY <2>1, <2>2
<1> QED
  BY <1>2, <1>3, <1>4, <1>6, <1>7, <1>8, <1>9, <1>10

(* A recovery that found no reason to halt is about the clean account. *)
LEMMA NoBlockMeansClean ==
  ASSUME CheckTyped, DOMAIN alphaJournal = {"state", "events", "recorded", "tokens", "positions"},
         NEW mismatches,
         mismatches = IF Startup!Reconciles(Startup!StatusOf(check.readback), Startup!Replay)
                      THEN Startup!MismatchesOf(Startup!SeenOf(check.read)) ELSE {},
         Startup!BlockReasons(mismatches) = {}
  PROVE  LET seen == Startup!SeenOf(check.read)
         IN /\ check.place = "passed" /\ check.credentials
            /\ alphaJournal.positions = {} /\ alphaJournal.tokens = {}
            /\ seen.venue = "trading_enabled" /\ seen.orders = << >>
            /\ alphaJournal.recorded = [reserved |-> 0, available |-> seen.balance,
                                        total |-> seen.balance]
            /\ \A t \in DOMAIN seen.trades :
                 seen.trades[t].status = "Confirmed" /\ Startup!Explained(t, seen)
<1> DEFINE seen == Startup!SeenOf(check.read)
           status == Startup!StatusOf(check.readback)
           replay == Startup!Replay
           verdict == IF ~ Startup!Reconciles(status, replay) THEN "unknown"
                      ELSE IF mismatches = {} THEN "passed" ELSE "failed"
<1>1. /\ Startup!Complaint("geoblock", check.place) = {}
      /\ Startup!Complaint("account_preflight", status) = {}
      /\ Startup!Complaint("reconciliation", verdict) = {}
  <2>1. /\ Startup!Complaint("geoblock", check.place) = {}
        /\ Startup!Complaint("reconciliation", verdict) = {}
        /\ Startup!Complaints({"account_preflight", "balance_allowance", "open_orders_readback",
                               "recent_trades_readback"}, status) = {}
    BY DEF Startup!BlockReasons
  <2> HIDE DEF status, replay, verdict
  <2> QED
    BY <2>1 DEF Startup!Complaint, Startup!Complaints
<1>2. check.place = "passed" /\ status = "passed" /\ verdict = "passed"
  <2> HIDE DEF status, verdict
  <2> QED
    BY <1>1 DEF Startup!Complaint, Startup!Complaints
<1>3. Startup!MismatchesOf(seen) = {}
  BY <1>2
<1>4. check.readback.live /\ check.readback.reasons = {}
  BY <1>2 DEF Startup!StatusOf
<1>5. /\ check.credentials /\ {"balance", "trades"} \subseteq DOMAIN check.read
      /\ Startup!ReadbackReasons(Startup!Held, seen) = {}
  BY <1>4 DEF CheckTyped, LiveIsRead
<1>6. /\ seen.balance \in Nat
      /\ \A t \in DOMAIN seen.trades : seen.trades[t].status \in TradeStatuses
  BY <1>5, SeenTrades DEF CheckTyped
<1> HIDE DEF seen
<1>7. /\ seen.venue = "trading_enabled" /\ seen.orders = << >>
      /\ \A t \in DOMAIN seen.trades :
           seen.trades[t].status \notin {"Matched", "Mined", "Retrying", "Failed", "Unknown"}
  BY <1>5, NoReasonMeansClean
<1>8. /\ alphaJournal.positions = {} /\ alphaJournal.tokens = {}
      /\ alphaJournal.recorded = [reserved |-> 0, available |-> seen.balance,
                                  total |-> seen.balance]
      /\ \A t \in DOMAIN seen.trades : Startup!Explained(t, seen)
  BY <1>3, <1>6, <1>7, NoMismatchMeansAgreed
<1>9. \A t \in DOMAIN seen.trades : seen.trades[t].status = "Confirmed"
  BY <1>6, <1>7 DEF TradeStatuses
<1> QED
  BY <1>2, <1>5, <1>7, <1>8, <1>9 DEF seen

LEMMA RecoverIsSound ==
  ASSUME CheckTyped, ReadAllowed, GateStands, Startup!PassedMeansClean,
         DOMAIN alphaJournal = {"state", "events", "recorded", "tokens", "positions"}, Startup!Recover
  PROVE  CheckTyped' /\ ReadAllowed' /\ GateStands' /\ Startup!PassedMeansClean'
<1>0. check.at = "recover" /\ UNCHANGED <<config, alphaJournal>>
  BY DEF Startup!Recover, Startup!Quietly
<1> DEFINE mismatches == IF Startup!Reconciles(Startup!StatusOf(check.readback), Startup!Replay)
                         THEN Startup!MismatchesOf(Startup!SeenOf(check.read)) ELSE {}
           reasons == IF Startup!Disabled THEN {} ELSE Startup!BlockReasons(mismatches)
           recovery == IF Startup!Disabled THEN "skipped"
                       ELSE IF reasons = {} THEN "passed" ELSE "halt"
           lines == Startup!Lines(recovery)
           healthy == Startup!HeartbeatHealthy
           written == [at |-> "persist", recovery |-> recovery, lines |-> lines,
                       mismatches |-> mismatches]
           ready == [at |-> "end", recovery |-> recovery, status |-> "ok", heartbeat |-> healthy]
<1>1. Startup!To(written) \/ Startup!To(ready)
  BY DEF Startup!Recover
<1>2. recovery = "passed" => Startup!BlockReasons(mismatches) = {}
  OBVIOUS
<1> HIDE DEF mismatches, reasons, recovery, lines, healthy
<1>3. /\ DOMAIN written = {"at", "recovery", "lines", "mismatches"}
      /\ written["at"] = "persist" /\ written["recovery"] = recovery
      /\ DOMAIN ready = {"at", "recovery", "status", "heartbeat"}
      /\ ready["at"] = "end" /\ ready["recovery"] = recovery
  OBVIOUS
<1> HIDE DEF written, ready
<1>4. /\ DOMAIN check' = CheckFields /\ check'.at \in {"persist", "end"}
      /\ check'.recovery = recovery
      /\ check'.credentials = check.credentials /\ check'.place = check.place
      /\ check'.read = check.read /\ check'.readback = check.readback
      /\ check'.command = check.command /\ check'.gate = check.gate
  <2>1. CASE Startup!To(written)
    BY <1>3, <2>1, ToIs DEF CheckTyped, CheckFields
  <2>2. CASE Startup!To(ready)
    BY <1>3, <2>2, ToIs DEF CheckTyped, CheckFields
  <2> QED
    BY <1>1, <2>1, <2>2
<1>5. GateStands'
  BY <1>0, <1>4 DEF GateStands
<1>6. ReadTyped' /\ ReadSoFar'
  BY <1>4 DEF CheckTyped, ReadTyped, ReadSoFar, AskingStages
<1>7. LiveIsRead'
  <2>1. Startup!Held' = Startup!Held
    BY <1>0, <1>4 DEF Startup!Held
  <2> QED
    BY <1>4, <2>1 DEF CheckTyped, LiveIsRead
<1>8. CheckTyped'
  BY <1>4, <1>6, <1>7 DEF CheckTyped, CheckStages, BeforeVerdict, AskingStages
<1>9. ReadAllowed'
  BY <1>0, <1>4 DEF ReadAllowed, Startup!Validating
<1>10. Startup!PassedMeansClean'
  <2> DEFINE seen == Startup!SeenOf(check.read)
             Clean == /\ check.place = "passed" /\ check.credentials
                      /\ alphaJournal.positions = {} /\ alphaJournal.tokens = {}
                      /\ seen.venue = "trading_enabled" /\ seen.orders = << >>
                      /\ alphaJournal.recorded = [reserved |-> 0, available |-> seen.balance,
                                                  total |-> seen.balance]
                      /\ \A t \in DOMAIN seen.trades :
                           seen.trades[t].status = "Confirmed" /\ Startup!Explained(t, seen)
  <2>1. recovery = "passed" => Clean
    BY <1>2, NoBlockMeansClean DEF mismatches
  <2> QED
    BY <1>0, <1>4, <2>1 DEF Startup!PassedMeansClean, Startup!Explained, Startup!BaselineRequired
<1> QED
  BY <1>5, <1>8, <1>9, <1>10

(* What the journal says of its trades stays said. *)
LEMMA OwnersStay ==
  ASSUME NEW more, NEW events, events \subseteq more
  PROVE  Startup!TradeOwners(events) \subseteq Startup!TradeOwners(more)
BY DEF Startup!TradeOwners, Startup!TradeEvents

LEMMA CleanStays ==
  ASSUME CheckTyped, Startup!PassedMeansClean,
         Unheard, UNCHANGED config, alphaJournal.events \subseteq alphaJournal'.events,
         alphaJournal'.positions = alphaJournal.positions,
         alphaJournal'.tokens = alphaJournal.tokens,
         alphaJournal'.recorded = alphaJournal.recorded
  PROVE  Startup!PassedMeansClean'
<1>1. Startup!TradeOwners(alphaJournal.events) \subseteq Startup!TradeOwners(alphaJournal'.events)
  BY OwnersStay
<1>2. \A t, seen : Startup!Explained(t, seen) => Startup!Explained(t, seen)'
  <2> SUFFICES ASSUME NEW t, NEW seen, Startup!Explained(t, seen)
               PROVE  Startup!Explained(t, seen)'
    OBVIOUS
  <2> QED
    BY <1>1 DEF Startup!Explained, Startup!BaselineRequired
<1> QED
  BY <1>2 DEF Unheard, Startup!PassedMeansClean

LEMMA PersistIsSound ==
  ASSUME CheckTyped, ReadAllowed, GateStands, Startup!PassedMeansClean,
         DOMAIN alphaJournal = {"state", "events", "recorded", "tokens", "positions"}, Startup!Persist
  PROVE  /\ CheckTyped' /\ ReadAllowed' /\ GateStands' /\ Startup!PassedMeansClean'
         /\ DOMAIN alphaJournal' = {"state", "events", "recorded", "tokens", "positions"}
<1>0. check.at = "persist" /\ UNCHANGED config
  BY DEF Startup!Persist
<1> DEFINE event == Startup!Event(checks, Head(check.lines), NoIntent, NoOrder)
           state == IF alphaJournal.state = "torn" THEN "torn" ELSE "lines"
           later == Tail(check.lines)
           fields == [lines |-> later]
<1>1. \/ alphaJournal' = alphaJournal
      \/ alphaJournal' = [alphaJournal EXCEPT !.state = state, !.events = @ \cup {event}]
      \/ alphaJournal' = [alphaJournal EXCEPT !.state = "torn"]
  BY DEF Startup!Persist
<1>2. Startup!To([at |-> "gates"]) \/ Startup!Finish("error") \/ Startup!To(fields)
  BY DEF Startup!Persist
<1> HIDE DEF event, state, later
<1>3. /\ DOMAIN alphaJournal' = {"state", "events", "recorded", "tokens", "positions"}
      /\ alphaJournal.events \subseteq alphaJournal'.events
      /\ alphaJournal'.positions = alphaJournal.positions
      /\ alphaJournal'.tokens = alphaJournal.tokens
      /\ alphaJournal'.recorded = alphaJournal.recorded
  BY <1>1
<1>4. Unheard /\ check'.at \in {"gates", "end", "persist"}
  <2>1. CASE Startup!To([at |-> "gates"])
    BY <2>1, ToIs DEF CheckTyped, CheckFields, Unheard
  <2>2. CASE Startup!Finish("error")
    <3>1. Startup!To([at |-> "end", status |-> "error"])
      BY <2>2 DEF Startup!Finish
    <3> QED
      BY <3>1, ToIs DEF CheckTyped, CheckFields, Unheard
  <2>3. CASE Startup!To(fields)
    <3>1. DOMAIN fields = {"lines"}
      OBVIOUS
    <3> HIDE DEF fields
    <3> QED
      BY <1>0, <2>3, <3>1, ToIs DEF CheckTyped, CheckFields, Unheard
  <2> QED
    BY <1>2, <2>1, <2>2, <2>3
<1>5. CheckTyped' /\ ReadAllowed' /\ GateStands'
  <2>1. /\ check'.at \in CheckStages \ (AskingStages \cup {"place"}) /\ check.at # "end"
        /\ check'.at \notin BeforeVerdict
    BY <1>0, <1>4 DEF CheckStages, BeforeVerdict, AskingStages
  <2> QED
    BY <1>0, <1>4, <2>1, UnheardIsKept
<1>6. Startup!PassedMeansClean'
  BY <1>0, <1>3, <1>4, CleanStays
<1> QED
  BY <1>3, <1>5, <1>6

(* What another moves leaves the check where it is. *)
LEMMA SameIsSound ==
  ASSUME UNCHANGED <<config, alphaJournal, check>>
  PROVE  /\ CheckTyped => CheckTyped'
         /\ ReadAllowed => ReadAllowed'
         /\ GateStands => GateStands'
         /\ Startup!PassedMeansClean => Startup!PassedMeansClean'
BY DEF CheckTyped, ReadTyped, ReadSoFar, LiveIsRead, ReadAllowed, GateStands,
       Startup!PassedMeansClean, Startup!Held, Startup!Validating, Startup!Explained,
       Startup!BaselineRequired

LEMMA CheckInvInit == CommandsInit => CheckInv
BY ChecksAssumption
DEF CommandsInit, Startup!CheckInit, CheckInv, Trading, Startup!Idle

LEMMA CheckInvStep == CheckInv /\ [CommandsNext]_allVars => CheckInv'
<1> SUFFICES ASSUME CheckInv, [CommandsNext]_allVars PROVE CheckInv'
  OBVIOUS
<1>1. CASE UNCHANGED alphaVars
  <2>1. UNCHANGED <<config, account, alphaJournal, check>>
    BY <1>1 DEF alphaVars
  <2> QED
    BY <2>1, SameIsSound DEF CheckInv, Trading, Startup!Idle
<1>2. CASE ~ Trading /\ Startup!CheckNext
  <2>0. /\ account \in Accounts
        /\ DOMAIN alphaJournal = {"state", "events", "recorded", "tokens", "positions"}
    BY <1>2 DEF CheckInv
  <2>1. ASSUME UNCHANGED account,
               DOMAIN alphaJournal' = {"state", "events", "recorded", "tokens", "positions"},
               CheckTyped' /\ ReadAllowed' /\ GateStands' /\ Startup!PassedMeansClean'
        PROVE  CheckInv'
    BY <2>0, <2>1 DEF CheckInv
  <2>2. CASE \E command \in Commands : Startup!Begun(command)
    <3>1. UNCHANGED <<config, account, alphaJournal>>
      BY <2>2 DEF Startup!Begun
    <3> QED
      BY <2>0, <2>1, <2>2, <3>1, BegunIsSound
  <2>3. CASE Startup!AccountMoves
    <3>1. UNCHANGED <<config, alphaJournal, check>> /\ account' \in Accounts
      BY <2>3 DEF Startup!AccountMoves
    <3> QED
      BY <3>1, SameIsSound DEF CheckInv, Trading, Startup!Idle
  <2>4. CASE Startup!Place \/ Startup!Discovery \/ Startup!Preflight \/ Startup!Request
             \/ Startup!Recover \/ Startup!Gates
    <3>1. UNCHANGED <<config, account, alphaJournal>> /\ check # Startup!Idle
      BY <2>4
      DEF Startup!Place, Startup!Discovery, Startup!Preflight, Startup!Request, Startup!Recover,
          Startup!Gates, Startup!Quietly, Startup!Idle
    <3>2. CheckTyped /\ ReadAllowed /\ GateStands /\ Startup!PassedMeansClean
      BY <3>1 DEF CheckInv
    <3>3. CheckTyped' /\ ReadAllowed' /\ GateStands' /\ Startup!PassedMeansClean'
      BY <2>0, <2>4, <3>2, PlaceIsSound, DiscoveryIsSound, PreflightIsSound, RequestIsSound,
         RecoverIsSound, GatesAreSound
    <3> QED
      BY <2>0, <2>1, <3>1, <3>3
  <2>5. CASE Startup!Persist
    <3>1. UNCHANGED account /\ check # Startup!Idle
      BY <2>5 DEF Startup!Persist, Startup!Idle
    <3>2. CheckTyped /\ ReadAllowed /\ GateStands /\ Startup!PassedMeansClean
      BY <3>1 DEF CheckInv
    <3> QED
      BY <2>0, <2>1, <2>5, <3>1, <3>2, PersistIsSound
  <2> QED
    BY <1>2, <2>2, <2>3, <2>4, <2>5 DEF Startup!CheckNext
<1> QED
  BY <1>1, <1>2 DEF CommandsNext, allVars

(* In any configuration, on any account and behind any journal, however    *)
(* the account moves between the requests and wherever an append is cut    *)
(* short: the credentials are used only where and when that is allowed, a  *)
(* recovery that passed is about the real, clean account, explained by the *)
(* journal or the taker's baseline, and a gate that lacks only approvals   *)
(* stands on it.                                                           *)
THEOREM ChecksAreSoundHolds == CommandsSpec => []ChecksAreSound
<1>1. CommandsInit => CheckInv
  BY CheckInvInit
<1>2. CheckInv /\ [CommandsNext]_allVars => CheckInv'
  BY CheckInvStep
<1>3. CheckInv => ChecksAreSound
  BY CheckInvMeansSound
<1> QED
  BY <1>1, <1>2, <1>3, PTL DEF CommandsSpec
=============================================================================
