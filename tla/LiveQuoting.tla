---------------------------- MODULE LiveQuoting ----------------------------
(***************************************************************************)
(* How live quoting decides: the way of a session to its orders            *)
(* (MakerQuoting), and one tick of the LA6 quote manager over the quotes   *)
(* that are open then (QuoteTick), on any input.  The tick is a function   *)
(* of its input, so a behaviour takes one of the two.                      *)
(***************************************************************************)
EXTENDS MakerQuoting

CONSTANTS
  MaxSubmitRate, MaxCancelRate, MaxReplacementRate, MaxReplacements, MaxLiveOrders,
  LeaveOpenInWindow, Ticks

VARIABLES tick, decisions, usage

Manager == INSTANCE QuoteTick

ASSUME PolicyAssumption ==
  /\ MaxSubmitRate \in Nat \ {0} /\ MaxCancelRate \in Nat \ {0}
  /\ MaxReplacementRate \in Nat \ {0} /\ MaxReplacements \in Nat
  /\ MaxLiveOrders \in Nat \ {0} /\ LeaveOpenInWindow \in BOOLEAN

ASSUME TicksAssumption == \A t \in Ticks : t \in Manager!Tick

quotingVars == <<vars, tick, decisions, usage>>

Quoting == tick = Nothing

QuotingInit ==
  \/ Init /\ tick = Nothing /\ decisions = << >> /\ usage = Manager!NoUsage
  \/ /\ Manager!Init
     /\ request = Nothing /\ phase = "refused" /\ now = 0 /\ started = 0 /\ asOf = 0
     /\ cash = 0 /\ chosen = Nothing /\ riskedAt = 0 /\ plan = Nothing /\ sent = << >>

QuotingNext ==
  \/ Quoting /\ Next /\ UNCHANGED <<tick, decisions, usage>>
  \/ ~ Quoting /\ Manager!Next /\ UNCHANGED vars

QuotingSpec == QuotingInit /\ [][QuotingNext]_quotingVars

-----------------------------------------------------------------------------
(* The two statements of QuoteTick: no rate is passed however many quotes  *)
(* are open, and no quote is kept on grounds a gate has ruled out.         *)
RatesHold == ~ Quoting => Manager!RatesHold
KeptOnlyWhenSound == ~ Quoting => Manager!KeptOnlyWhenSound
=============================================================================
