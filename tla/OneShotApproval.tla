-------------------------- MODULE OneShotApproval --------------------------
(***************************************************************************)
(* What the one-shot live commands promise: an approval is spent before an *)
(* order is sent under it, stays spent, and at most one order is ever sent *)
(* under it, whatever fails in between.                                    *)
(***************************************************************************)
EXTENDS Naturals

CONSTANT Approvals

VARIABLES
  spent,     \* the approvals that are spent
  sent       \* approval -> orders sent under it

Init == spent = {} /\ sent = [a \in Approvals |-> 0]

Spend(a) ==
  /\ a \notin spent
  /\ spent' = spent \cup {a}
  /\ UNCHANGED sent

Send(a) ==
  /\ a \in spent /\ sent[a] = 0
  /\ sent' = [sent EXCEPT ![a] = 1]
  /\ UNCHANGED spent

Next == \E a \in Approvals : Spend(a) \/ Send(a)

Spec == Init /\ [][Next]_<<spent, sent>>
=============================================================================
