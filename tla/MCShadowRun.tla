---------------------------- MODULE MCShadowRun ----------------------------
(* MCPaperRun's market; the shadow has room for one of the two orders the  *)
(* paper engine opens, and a taker's fees eat the cash of the next maker.  *)
EXTENDS ShadowRun, MCPaperRun

MCHighFee == [p \in 0..MCMaxPrice |-> IF p \in {0, 5} THEN 0 ELSE 2]

High == Snapshot("up", [p \in {2} |-> 1], [p \in {4} |-> 2])

MCShadowUpdates ==
  {Wide, High, Deep, Cheap, TradePrint("up", 3, 1), TradePrint("up", 3, 4), Tick, Market("Active")}

MCShadowLimits ==
  [usage |-> 9, reserved |-> 18, openOrders |-> 2, single |-> 9, market |-> 15,
   asset |-> 18, total |-> 18]
MCReady == {"mode", "geoblock", "heartbeat", "reconciliation"}
=============================================================================
