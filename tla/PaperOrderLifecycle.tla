------------------------ MODULE PaperOrderLifecycle ------------------------
(***************************************************************************)
(* What a paper order promises to whoever reads it (reports, replay, the   *)
(* position book): an order is born open or rejected, it only ever gains   *)
(* fills up to its size, it is filled exactly when nothing remains, and a  *)
(* terminal order is never touched again.  How a fill is found - book      *)
(* levels, queue position, trade prints - is not visible here.             *)
(*                                                                         *)
(* PaperExecutor implements this specification.                            *)
(***************************************************************************)
EXTENDS Integers, Sequences

VARIABLE ledger      \* the orders in creation order: [size, filled, status]

Terminal == {"Filled", "Canceled", "Expired", "Rejected"}
Live == {"Open", "PartiallyFilled"}

(* The status an unrejected order has after it gained fills. *)
StatusOf(size, filled) ==
  IF filled = size THEN "Filled" ELSE "PartiallyFilled"

Init == ledger = << >>

(* An order is appended: rejected and unfilled, or open, or - a taker -    *)
(* already carrying the fills of its first look at the book.               *)
Create ==
  /\ Len(ledger') = Len(ledger) + 1
  /\ LET new == ledger'[Len(ledger')] IN
     /\ ledger' = Append(ledger, new)
     /\ \/ new.filled = 0 /\ new.status \in {"Open", "Rejected"}
        \/ new.filled \in 1..new.size /\ new.status = StatusOf(new.size, new.filled)

(* A live order gains a positive fill, never beyond its size. *)
Fill ==
  \E o \in DOMAIN ledger : \E more \in 1..(ledger[o].size - ledger[o].filled) :
     /\ ledger[o].status \in Live
     /\ LET filled == ledger[o].filled + more IN
        ledger' = [ledger EXCEPT ![o].filled = filled,
                                 ![o].status = StatusOf(ledger[o].size, filled)]

(* A live order is closed with the fills it has. *)
Close ==
  \E o \in DOMAIN ledger, status \in {"Canceled", "Expired"} :
     /\ ledger[o].status \in Live
     /\ ledger' = [ledger EXCEPT ![o].status = status]

Next == Create \/ Fill \/ Close

Spec == Init /\ [][Next]_ledger
=============================================================================
