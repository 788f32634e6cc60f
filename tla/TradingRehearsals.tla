-------------------------- MODULE TradingRehearsals --------------------------
(***************************************************************************)
(* The commands that rehearse live trading and send nothing: the account   *)
(* baseline of LA7 and the LT1 preflight, the LT3 signing dry run and the  *)
(* LT4 maker dry run (src/main.rs, src/live_account_baseline.rs,           *)
(* src/live_trading_preflight.rs, live_trading_signing.rs and              *)
(* live_trading_maker.rs).  A command is a process of its own: it asks the *)
(* geoblock service, the account and the feeds one after another, each of  *)
(* which may answer anything by then, judges what it heard and writes its  *)
(* files one at a time.                                                    *)
(*                                                                         *)
(* What the configuration and the environment of a process do not provide  *)
(* is the set `off` of facts.  A file holds what a reader may rely on, and *)
(* as history what its process had heard.                                  *)
(***************************************************************************)
EXTENDS Integers, FiniteSets

CONSTANTS
  Offs,            \* the configurations a command may be started with
  MaxCommands      \* bound on the commands started

(* live_trading.* and live_beta.* of the configuration, the secrets in the *)
(* environment, and the host's name.                                       *)
Facts ==
  {"lt_enabled", "approved_host", "approved_place", "lt_legal", "lt_secrets", "lt_address",
   "lt_signature_type", "lt_eoa_funder", "lt_baseline", "beta_legal", "beta_hold",
   "beta_secrets", "beta_account", "heartbeat_not_required"}
ASSUME RehearsalsAssumption ==
  /\ \A off \in Offs : off \subseteq Facts
  /\ MaxCommands \in Nat

Nothing == [nothing |-> TRUE]
(* An approval id: "LT3-LOCAL-...", any other "LT3-...", or anything else. *)
Approvals == {"local", "lt3", "other"}
GeoAnswers == {"approved", "elsewhere", "blocked", "error"}
Feeds == {"book", "reference", "predictive"}

VARIABLES
  process,    \* the running command, or Nothing
  heard,      \* history: what its calls answered
  disk,       \* the artifact files
  started

rvars == <<process, heard, disk, started>>

NoFiles == [preflight |-> Nothing, baseline |-> Nothing, la7 |-> Nothing,
            signing |-> Nothing, maker |-> Nothing]
RInit == process = Nothing /\ heard = {} /\ disk = NoFiles /\ started = 0

-----------------------------------------------------------------------------
(* The gates between the calls.                                            *)

Has(fact) == fact \notin process.off

(* live_trading_approval_context_matches: the answer names the place.      *)
ContextMatches ==
  Has("lt_enabled") /\ Has("approved_host") /\ Has("approved_place")
  /\ process.geo = "approved"
GeoPassed == process.geo \in {"approved", "elsewhere"}

(* authenticated_readback_allowed of the preflight: the account is that of *)
(* the beta's configuration.                                               *)
MayReadAccount ==
  ContextMatches /\ Has("beta_secrets") /\ Has("beta_account") /\ Has("beta_legal")

(* live_trading_signing_authenticated_readback_status: whether the venue   *)
(* is asked, before and after the geoblock service.                        *)
SigningScope ==
  /\ Has("lt_enabled") /\ process.approval = "lt3" /\ Has("lt_secrets")
  /\ Has("approved_host") /\ Has("approved_place") /\ Has("lt_legal")
AccountBound == Has("lt_address") /\ Has("lt_signature_type") /\ Has("lt_eoa_funder")

(* sample_live_trading_readback_evidence: nothing was read, and yet a      *)
(* report that may pass; only its live flag tells.                         *)
SampleReport(off, geoPassed) ==
  [status |-> IF geoPassed /\ off \cap {"beta_legal", "beta_hold"} = {} THEN "passed" ELSE "blocked",
   live |-> FALSE, open |-> 0, reserved |-> 0]

(* evaluate_live_trading_preflight, with push_jurisdiction_blocks and      *)
(* push_freshness_block.                                                   *)
Because(reason, condition) == IF condition THEN {reason} ELSE {}
BugPreflightReasons(p) ==         \* a report is a report
  (p.off \cap {"lt_enabled", "approved_host", "approved_place", "beta_secrets"})
  \cup Because("geoblock_not_passed", p.geo # "approved")
  \cup Because("account_readback_not_passed", p.report.status # "passed")
PreflightReasons(p) ==
  (p.off \cap {"lt_enabled", "approved_host", "approved_place", "beta_secrets"})
  \cup Because("geoblock_not_passed", p.geo \notin {"approved", "elsewhere"})
  \cup Because("approved_place_mismatch", p.geo # "approved")
  \cup Because("account_readback_not_passed", p.report.status # "passed")
  \cup Because("account_readback_not_live_network", ~ p.report.live)
  \cup Because("freshness_not_passed", \E f \in DOMAIN p.fresh : p.fresh[f] # "passed")

(* block_reasons of the signing dry run; status is the readback's.         *)
SigningReasons(p, status) ==
  LET local == p.approval = "local"
      enabled == "lt_enabled" \notin p.off
  IN Because("final_live_config_disabled", ~ enabled /\ ~ local)
     \cup Because("approval_id_not_lt3", p.approval = "other")
     \cup Because("local_approval_id_not_allowed_for_enabled_final_live", enabled /\ local)
     \cup Because("approved_authenticated_readback_not_passed",
                  (enabled \/ ~ local) /\ status # "passed")
     \cup (p.off \cap {"lt_secrets", "lt_address", "lt_signature_type", "lt_eoa_funder"})

(* blocked_lt4_maker_candidate, the unknown live state and the missing     *)
(* paper comparison: what this build always lacks.                         *)
BuildLacks ==
  {"market", "price", "size", "tick", "fee", "edge", "market_end", "book", "reference",
   "predictive", "live_state", "paper_decision"}
(* evaluate_maker_candidate_blocks on a candidate that lacks `lacking`.    *)
MakerReasons(off, geo, lacking) ==
  (off \cap {"lt_enabled", "lt_legal", "approved_host", "approved_place", "lt_address",
             "lt_baseline", "heartbeat_not_required"})
  \cup Because("geoblock_not_passed", geo \notin {"approved", "elsewhere"})
  \cup Because("approved_place_mismatch", geo # "approved")
  \cup lacking

(* require_live_alpha_account_baseline_capture_acceptance.                 *)
Acceptable(report) ==
  /\ report.status = "passed" /\ report.live
  /\ report.open = 0 /\ report.reserved = 0

(* evaluate_la7_live_baseline_gate on a baseline file.                     *)
BaselineGate(baseline) ==
  Because("baseline_readback_not_passed", baseline.report.status # "passed")
  \cup Because("baseline_not_live_network", ~ baseline.report.live)
  \cup Because("baseline_open_orders_nonzero", baseline.report.open # 0)
  \cup Because("baseline_reserved_pusd_nonzero", baseline.report.reserved # 0)
  \cup Because("baseline_position_evidence_incomplete", ~ baseline.complete)
  \cup Because("baseline_positions_nonzero", baseline.positions # 0)
-----------------------------------------------------------------------------
(* A process and its calls.                                                *)

Idle(name, off, approval) ==
  [name |-> name, off |-> off, approval |-> approval, at |-> "geoblock", geo |-> "not_asked",
   report |-> Nothing, status |-> "not_run", complete |-> FALSE, positions |-> 0,
   fresh |-> [f \in {"markets"} \cup Feeds |-> "not_checked"]]
Start ==
  /\ process = Nothing /\ started < MaxCommands
  /\ \E off \in Offs :
       \/ \E name \in {"baseline", "preflight", "maker"} : process' = Idle(name, off, "other")
       \/ \E approval \in Approvals : process' = Idle("signing", off, approval)
  /\ heard' = {} /\ started' = started + 1
  /\ UNCHANGED disk

Ends == process' = Nothing /\ heard' = {} /\ UNCHANGED <<disk, started>>
Goes(p, more) == process' = p /\ heard' = heard \cup more /\ UNCHANGED <<disk, started>>

(* The geoblock service: live_trading_geoblock_readback asks it only with  *)
(* final live enabled, the baseline always, and it must not be blocked.    *)
AsksGeoblock ==
  CASE process.name = "baseline" -> TRUE
    [] process.name = "signing" -> SigningScope
    [] OTHER -> Has("lt_enabled")
SkipGeoblock ==
  /\ process # Nothing /\ process.at = "geoblock" /\ ~ AsksGeoblock
  /\ Goes([process EXCEPT !.geo = "not_checked", !.at = "account"], {})
AskGeoblock ==
  /\ process # Nothing /\ process.at = "geoblock" /\ AsksGeoblock
  /\ \E answer \in GeoAnswers :
       IF process.name = "baseline" /\ answer \in {"blocked", "error"} THEN Ends
       ELSE Goes([process EXCEPT !.geo = answer, !.at = "account"], {<<"geoblock", answer>>})

(* The account.  A read that fails ends the command; the signing dry run   *)
(* records it.                                                             *)
ReadsAccount ==
  CASE process.name = "baseline" -> Has("beta_secrets") /\ Has("beta_account")
    [] process.name = "preflight" -> MayReadAccount
    [] process.name = "signing" -> SigningScope /\ ContextMatches /\ AccountBound
    [] OTHER -> FALSE
(* The preconditions a report repeats as reasons.                          *)
Prerequisites ==
  IF process.name = "signing" THEN Has("lt_legal") ELSE Has("beta_legal") /\ Has("beta_hold")
Reports ==
  {[status |-> IF open = 0 /\ sound /\ Prerequisites THEN "passed" ELSE "blocked",
    live |-> TRUE, open |-> open, reserved |-> open] : open \in {0, 1}, sound \in BOOLEAN}
AfterAccount == IF process.name = "signing" THEN "write" ELSE "positions"
ReadAccount ==
  /\ process # Nothing /\ process.at = "account" /\ ReadsAccount
  /\ \/ \E r \in Reports :
          Goes([process EXCEPT !.report = r, !.status = r.status, !.at = AfterAccount],
               {<<"account", r.status>>})
     \/ IF process.name = "signing"
        THEN Goes([process EXCEPT !.status = "error", !.at = "write"], {<<"account", "error">>})
        ELSE Ends
SkipAccount ==
  /\ process # Nothing /\ process.at = "account" /\ ~ ReadsAccount
  /\ IF process.name = "baseline" THEN Ends
     ELSE IF process.name = "preflight"
     THEN Goes([process EXCEPT !.report = SampleReport(process.off, GeoPassed), !.at = "feeds"], {})
     ELSE Goes([process EXCEPT !.at = "write"], {})

(* live_alpha_data_api_positions, after the account and not with it.       *)
ReadPositions ==
  /\ process # Nothing /\ process.at = "positions"
  /\ \/ Ends
     \/ \E held \in {0, 1} :
          LET p == [process EXCEPT !.complete = TRUE, !.positions = held] IN
          IF process.name = "baseline"
          THEN IF Acceptable(process.report)
               THEN Goes([p EXCEPT !.at = "write"], {<<"positions", held>>})
               ELSE Ends
          ELSE Goes([p EXCEPT !.at = "feeds"], {<<"positions", held>>})

(* live_trading_read_only_freshness: without markets nothing is checked.   *)
CheckFeeds ==
  /\ process # Nothing /\ process.at = "feeds"
  /\ IF ~ ContextMatches THEN Goes([process EXCEPT !.at = "write"], {})
     ELSE \E answers \in [{"markets"} \cup Feeds -> {"passed", "failed"}] :
            LET checked == IF answers["markets"] = "passed" THEN answers
                           ELSE [process.fresh EXCEPT !["markets"] = "failed"]
            IN Goes([process EXCEPT !.fresh = checked, !.at = "write"],
                    {<<f, checked[f]>> : f \in DOMAIN checked})

(* The files: the verdict first, the baseline it names after it.           *)
Verdict(reasons) == IF reasons = {} THEN "passed" ELSE "blocked"
File(status) == [status |-> status, off |-> process.off, heard |-> heard]
BaselineFile ==
  [report |-> process.report, complete |-> process.complete, positions |-> process.positions,
   heard |-> heard]
Writes(files, next) ==
  /\ disk' = files
  /\ process' = next
  /\ heard' = IF next = Nothing THEN {} ELSE heard
  /\ UNCHANGED started
WriteVerdict ==
  /\ process # Nothing /\ process.at = "write"
  /\ CASE process.name = "preflight" ->
            Writes([disk EXCEPT !.preflight = File(Verdict(PreflightReasons(process)))],
                   [process EXCEPT !.at = "baseline"])
       [] process.name = "baseline" -> Writes([disk EXCEPT !.la7 = BaselineFile], Nothing)
       [] process.name = "signing" ->
            Writes([disk EXCEPT !.signing =
                      File(Verdict(SigningReasons(process, process.status)))], Nothing)
       [] OTHER ->
            Writes([disk EXCEPT !.maker =
                      File(Verdict(MakerReasons(process.off, process.geo, BuildLacks)))], Nothing)
WriteBaseline ==
  /\ process # Nothing /\ process.at = "baseline"
  /\ Writes([disk EXCEPT !.baseline = BaselineFile], Nothing)

(* A process may be killed, or a write fail, between any two steps.        *)
Dies == process # Nothing /\ Ends

RNext ==
  \/ Start \/ SkipGeoblock \/ AskGeoblock \/ ReadAccount \/ SkipAccount \/ ReadPositions
  \/ CheckFeeds \/ WriteVerdict \/ WriteBaseline \/ Dies
-----------------------------------------------------------------------------
RTypeOK ==
  /\ process # Nothing => /\ process.off \subseteq Facts
                          /\ process.geo \in GeoAnswers \cup {"not_asked", "not_checked"}
                          /\ process.at \in {"geoblock", "account", "positions", "feeds",
                                             "write", "baseline"}
  /\ process = Nothing => heard = {}
  /\ started \in 0..MaxCommands
  /\ \A f \in {"preflight", "signing", "maker"} :
       disk[f] # Nothing => disk[f].status \in {"passed", "blocked"}

(* A preflight that says "passed" heard it all itself: the service placed  *)
(* this host where it was approved, the account was read with open         *)
(* credentials and passed, every feed was fresh.  The sample account that  *)
(* stands in for one that may not be read is never enough.                 *)
PassedPreflightHeardItAll ==
  disk.preflight # Nothing /\ disk.preflight.status = "passed" =>
    /\ {<<"geoblock", "approved">>, <<"account", "passed">>} \subseteq disk.preflight.heard
    /\ {<<f, "passed">> : f \in Feeds} \subseteq disk.preflight.heard
    /\ disk.preflight.off \cap {"lt_enabled", "approved_host", "beta_legal", "beta_hold"} = {}

(* A signing dry run passes in one of two ways: at home, for a local       *)
(* approval, with final live off and not a call made; or for a real one,   *)
(* from the approved place, over an account that answered and passed.      *)
PassedSigningIsLocalOrReal ==
  disk.signing # Nothing /\ disk.signing.status = "passed" =>
    \/ disk.signing.heard = {} /\ "lt_enabled" \in disk.signing.off
    \/ /\ {<<"geoblock", "approved">>, <<"account", "passed">>} \subseteq disk.signing.heard
       /\ disk.signing.off \cap {"lt_enabled", "lt_legal", "approved_host", "lt_secrets"} = {}

(* The account is read with credentials by an LT command only when the     *)
(* service, asked by the same process, put the host where it was approved  *)
(* and the switch for legal access was set.                                *)
CredentialsStayHome ==
  process # Nothing /\ process.name \in {"preflight", "signing"}
  /\ (\E status \in {"passed", "blocked", "error"} : <<"account", status>> \in heard) =>
    /\ <<"geoblock", "approved">> \in heard
    /\ Has("lt_enabled") /\ Has("approved_host")
    /\ Has(IF process.name = "signing" THEN "lt_legal" ELSE "beta_legal")

(* A baseline the LA7 gate accepts, from either command, is an account     *)
(* that was really read, was flat and held no position.                    *)
BoundBaselinesAreReal ==
  \A f \in {"la7", "baseline"} :
    disk[f] # Nothing /\ BaselineGate(disk[f]) = {} =>
      {<<"account", "passed">>, <<"positions", 0>>} \subseteq disk[f].heard
=============================================================================
