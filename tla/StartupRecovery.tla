-------------------------- MODULE StartupRecovery --------------------------
(***************************************************************************)
(* Startup recovery (src/live_startup_recovery.rs and the evidence         *)
(* src/main.rs assembles for it): the journal of every earlier run is      *)
(* reduced to a local state, narrowed to what the venue reads back, and    *)
(* reconciled with it.  A check that failed or could not be made halts.    *)
(***************************************************************************)
EXTENDS LiveJournal, LiveReconciliation

(* What one account readback returned: the ids of the open orders, the     *)
(* trades (id -> [order, status]) and the balance.                         *)
ReadbackPassed(open, trades) ==
  open = {} /\ \A t \in DOMAIN trades : trades[t].status = "Confirmed"

(* LocalLiveState::from, then local_state_for_startup_reconciliation_scope:*)
(* only orders still open and trades in the readback are compared.         *)
StartupLocal(J, open, trades, recorded) ==
  LET owners == {owner \in TradeOwners(J) : owner[1] \in DOMAIN trades} IN
  [known |-> KnownOrders(J) \cap open,
   canceled |-> CanceledOrders(J) \cap open,
   partial |-> PartiallyFilledOrders(J) \cap open,
   trades |-> {owner[1] : owner \in owners},
   owners |-> owners,
   balance |-> recorded, tokens |-> {},
   positions |-> {}]

(* venue_state_from_readback: an open order reads back as live. *)
StartupVenue(open, trades, balance) ==
  [orders |-> [o \in open |-> "Live"], trades |-> trades,
   balance |-> balance, positions |-> {}]

(* evaluate_startup_recovery once the geoblock check passed.  `recorded`   *)
(* is the journal's last balance snapshot, `broken` an unreadable journal. *)
BugRecoveryPasses(J, broken, open, trades, balance, recorded) ==
  ~ broken /\ ReadbackPassed(open, trades)     \* does not look at the reconciliation

RecoveryPasses(J, broken, open, trades, balance, recorded) ==
  /\ ~ broken
  /\ ReadbackPassed(open, trades)
  /\ Mismatches(StartupLocal(J, open, trades, recorded),
                StartupVenue(open, trades, balance), FALSE) = {}
=============================================================================
