---------------------------- MODULE LiveTrading ----------------------------
(***************************************************************************)
(* The way to live trading as the LT modules lay it out: commands rehearse *)
(* it, and a session relies on the preflight they left when it asks the    *)
(* gate for an order.  The session is external (TradingJournal); it takes  *)
(* along the verdict of the preflight file, and nothing reads the files    *)
(* once it runs.                                                           *)
(***************************************************************************)
EXTENDS TradingJournal, TradingRehearsals

VARIABLE session       \* Nothing, or what the session took along

vars == <<jvars, rvars, session>>

Init == JInit /\ RInit /\ session = Nothing

Rehearse == session = Nothing /\ RNext /\ UNCHANGED <<jvars, session>>

VerdictOf(file) ==
  IF file = Nothing THEN "unknown" ELSE IF file.status = "passed" THEN "passed" ELSE "failed"
(* Whether the account and the place had really answered well, as history. *)
Backed(file) ==
  /\ file # Nothing
  /\ {<<"geoblock", "approved">>, <<"account", "passed">>} \subseteq file.heard
Begin ==
  /\ session = Nothing /\ process = Nothing
  /\ \E enabled \in BOOLEAN :
       session' = [enabled |-> enabled, preflight |-> VerdictOf(disk.preflight),
                   backed |-> Backed(disk.preflight)]
  /\ disk' = NoFiles /\ started' = 0
  /\ UNCHANGED <<jvars, process, heard>>

Trade ==
  /\ session # Nothing
  /\ JNext(session.enabled, session.preflight)
  /\ UNCHANGED <<rvars, session>>

Next == Rehearse \/ Begin \/ Trade

Spec == Init /\ [][Next]_vars

-----------------------------------------------------------------------------
TypeOK == JTypeOK /\ RTypeOK

(* What the rehearsals leave in their files, and what they do to get it,   *)
(* is as those files say.                                                  *)
RehearsalsAreHonest ==
  /\ TypeOK /\ PassedPreflightHeardItAll /\ PassedSigningIsLocalOrReal
  /\ CredentialsStayHome /\ BoundBaselinesAreReal

(* The gate allows an order only to a session with live trading enabled    *)
(* that relies on a preflight whose account and place had really answered, *)
(* with the account reconciled since the last intention and, at that       *)
(* moment, a heartbeat and a place seen no longer ago than their limit.    *)
(* The evidence filed with it says so.                                     *)
AllowedIsBacked ==
  [][(decision' = "allowed" /\ decision # "allowed") =>
       /\ session.enabled /\ session.backed
       /\ journal.intended \subseteq covered
       /\ LET bundle == Bundle(journal, report, decision')
          IN bundle.summary.resolved /\ bundle.reconciliation = "passed"
       /\ FreshAt(journal.heartbeat, now) /\ FreshAt(journal.geoblock, now)]_vars
-----------------------------------------------------------------------------
(* All that one build runs before and around live trading: the rehearsals  *)
(* and sessions above on the live_trading account, and the checks of the   *)
(* live_alpha account (StartupCheck).  The two share no account and no     *)
(* file, so a behaviour takes one of them.                                 *)
CONSTANTS
  NoIntent, NoOrder, NoTrade, NoBalance, PageLimit, RequiredCollateral,
  Configs, Accounts, Journals, Commands, MaxChecks, Me, NoBaselineFile

VARIABLES config, account, alphaJournal, check, checks

Startup == INSTANCE StartupCheck

(* Every trade an account lists has a status of the venue's, its balance   *)
(* is an unsigned integer, a journal has been reduced to its state, and no *)
(* balance is none.                                                        *)
TradeStatuses == {"Matched", "Mined", "Confirmed", "Retrying", "Failed", "Unknown"}
ASSUME ChecksAssumption ==
  /\ \A seen \in Accounts :
       /\ seen.balance \in Nat
       /\ \A trade \in Startup!Listed(seen.trades) : trade.status \in TradeStatuses
  /\ \A kept \in Journals : DOMAIN kept = {"state", "events", "recorded", "tokens", "positions"}
  /\ NoBalance \notin [reserved : Nat, available : Nat, total : Nat]

alphaVars == <<config, account, alphaJournal, check, checks>>
allVars == <<vars, alphaVars>>

Trading == config = Nothing
CommandsInit ==
  /\ Init
  /\ \/ Startup!CheckInit
     \/ /\ config = Nothing /\ account = Nothing /\ alphaJournal = Nothing
        /\ check = Startup!Idle /\ checks = 0

CommandsNext ==
  \/ Trading /\ Next /\ UNCHANGED alphaVars
  \/ ~ Trading /\ Startup!CheckNext /\ UNCHANGED vars

CommandsSpec == CommandsInit /\ [][CommandsNext]_allVars

-----------------------------------------------------------------------------
(* A recovery that passed is about the real, clean account, and the gate   *)
(* that lacks nothing else stands on it.                                   *)
ChecksAreSound == Startup!StartupIsSound /\ Startup!GateStandsOnRecovery
=============================================================================
