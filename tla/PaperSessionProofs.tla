------------------------- MODULE PaperSessionProofs -------------------------
(***************************************************************************)
(* The paper session keeps its record, its report and its verdict: for     *)
(* every value of the constants, RecordIsSound, ReportIsAudited and        *)
(* DivergesOnlyWhenDisturbed are invariants.                               *)
(*                                                                         *)
(* Their inductive invariant has five parts: where a session is in its     *)
(* cycle and what it holds there (SessionInv); the prices each cycle       *)
(* stored (FedSoFar); the outputs, written in order over a checked file    *)
(* (OutputsInv); the stamps of the lines while time goes forward           *)
(* (OrderInv); and DivergesOnlyWhenDisturbed itself.  OrderInv rests on    *)
(* PaperGrows and InputGrows: a line stamped after the others leaves every *)
(* rank before its own as it was.                                          *)
(***************************************************************************)
EXTENDS PaperSession, DataLemmas, FiniteSetTheorems, TLAPS

LineSources == {"paper", "discovery", "fixture", "clob", "exchange", "rtds", "pyth"}
Lines == [mono : Nat, seq : Nat, source : LineSources, what : {"trading", "quiet"} \cup SUBSET Nat]

(* Every rank has its line. *)
Placed(ls, S) == \A k \in 1..Cardinality(S) : Sorted(ls, S)[k] \in S

-----------------------------------------------------------------------------
(* The places of a file and the parts of it are finite sets. *)
LEMMA PlacesFinite ==
  ASSUME NEW ls \in Seq(Lines)
  PROVE  /\ IsFiniteSet(DOMAIN ls) /\ IsFiniteSet(Paper(ls)) /\ IsFiniteSet(Inputs(ls))
         /\ IsFiniteSet(Trading(ls))
         /\ Cardinality(Paper(ls)) \in Nat /\ Cardinality(Trading(ls)) \in Nat
         /\ Paper(ls) \subseteq DOMAIN ls /\ Inputs(ls) \subseteq DOMAIN ls
         /\ Trading(ls) \subseteq Inputs(ls) /\ DOMAIN ls = 1..Len(ls)
<1>1. DOMAIN ls = 1..Len(ls) /\ Len(ls) \in Nat
  OBVIOUS
<1>2. IsFiniteSet(DOMAIN ls)
  BY <1>1, FS_Interval
<1>3. /\ Paper(ls) \subseteq DOMAIN ls /\ Inputs(ls) \subseteq DOMAIN ls
      /\ Trading(ls) \subseteq Inputs(ls)
  BY DEF Paper, Inputs, Trading
<1>4. IsFiniteSet(Paper(ls)) /\ IsFiniteSet(Inputs(ls))
  BY <1>2, <1>3, FS_Subset
<1>5. IsFiniteSet(Trading(ls))
  BY <1>3, <1>4, FS_Subset
<1>6. Cardinality(Paper(ls)) \in Nat /\ Cardinality(Trading(ls)) \in Nat
  BY <1>4, <1>5, FS_CardinalityType
<1> QED
  BY <1>1, <1>2, <1>3, <1>4, <1>5, <1>6

(* As is what is sorted up to a line. *)
LEMMA UpToFinite ==
  ASSUME NEW ls, NEW S, IsFiniteSet(S), NEW n
  PROVE  /\ IsFiniteSet(UpTo(ls, S, n)) /\ Cardinality(UpTo(ls, S, n)) \in Nat
         /\ Cardinality(UpTo(ls, S, n)) <= Cardinality(S)
<1>1. UpTo(ls, S, n) \subseteq S
  BY DEF UpTo
<1> QED
  BY <1>1, FS_Subset, FS_CardinalityType

(* A line that is written leaves the order of the others as it was. *)
(* A line appended changes nothing of the order of the others. *)
LEMMA UpToOld ==
  ASSUME NEW ls \in Seq(Lines), NEW l \in Lines, NEW S \in SUBSET DOMAIN ls, NEW n \in DOMAIN ls
  PROVE  UpTo(Append(ls, l), S, n) = UpTo(ls, S, n)
<1>1. \A m \in DOMAIN ls : Append(ls, l)[m] = ls[m]
  OBVIOUS
<1>2. \A m \in S : Earlier(Append(ls, l), m, n) <=> Earlier(ls, m, n)
  BY <1>1 DEF Earlier
<1> QED
  BY <1>2 DEF UpTo

(* One that is later than all of S comes last. *)
(* A line stamped after those of S is up to none of them ... *)
LEMMA UpToMore ==
  ASSUME NEW ls \in Seq(Lines), NEW l \in Lines, NEW S \in SUBSET DOMAIN ls,
         \A m \in S : ls[m].mono < l.mono,
         NEW n \in S
  PROVE  UpTo(Append(ls, l), S \cup {Len(ls) + 1}, n) = UpTo(ls, S, n)
<1>1. /\ Len(ls) + 1 \notin S /\ n # Len(ls) + 1 /\ n \in DOMAIN ls
      /\ Append(ls, l)[n] = ls[n] /\ Append(ls, l)[Len(ls) + 1] = l
      /\ ls[n].mono \in Nat /\ l.mono \in Nat /\ ls[n].mono < l.mono
  <2>1. n \in 1..Len(ls) /\ Len(ls) \in Nat /\ ls[n] \in Lines
    OBVIOUS
  <2>2. ls[n].mono \in Nat /\ l.mono \in Nat
    BY <2>1 DEF Lines
  <2>3. Append(ls, l)[n] = ls[n] /\ Append(ls, l)[Len(ls) + 1] = l
    BY <2>1
  <2> QED
    BY <2>1, <2>2, <2>3
<1>2. ~ Earlier(Append(ls, l), Len(ls) + 1, n)
  BY <1>1 DEF Earlier
<1>3. UpTo(Append(ls, l), S \cup {Len(ls) + 1}, n) = UpTo(Append(ls, l), S, n)
  BY <1>1, <1>2 DEF UpTo
<1> QED
  BY <1>1, <1>3, UpToOld

(* ... and all of them are up to it. *)
LEMMA UpToNew ==
  ASSUME NEW ls \in Seq(Lines), NEW l \in Lines, NEW S \in SUBSET DOMAIN ls,
         \A m \in S : ls[m].mono < l.mono
  PROVE  UpTo(Append(ls, l), S \cup {Len(ls) + 1}, Len(ls) + 1) = S \cup {Len(ls) + 1}
<1>1. \A m \in S : Earlier(Append(ls, l), m, Len(ls) + 1)
  BY DEF Earlier
<1> QED
  BY <1>1 DEF UpTo

(* So the order of a set of lines is that of its old lines, and the new.   *)
LEMMA SortedOld ==
  ASSUME NEW ls \in Seq(Lines), NEW l \in Lines, NEW S \in SUBSET DOMAIN ls
  PROVE  Sorted(Append(ls, l), S) = Sorted(ls, S)
<1> DEFINE Ranked(list, k) == {x \in S : Cardinality(UpTo(list, S, x)) = k}
<1>1. ASSUME NEW k \in 1..Cardinality(S) PROVE Ranked(Append(ls, l), k) = Ranked(ls, k)
  BY UpToOld
<1>2. ASSUME NEW k \in 1..Cardinality(S)
      PROVE (CHOOSE n \in Ranked(Append(ls, l), k) : TRUE) = (CHOOSE n \in Ranked(ls, k) : TRUE)
  <2> HIDE DEF Ranked
  <2> QED
    BY <1>1, Zenon
<1> QED
  BY <1>2 DEF Sorted

LEMMA SortedMore ==
  ASSUME NEW ls \in Seq(Lines), NEW l \in Lines, NEW S \in SUBSET DOMAIN ls,
         \A m \in S : ls[m].mono < l.mono
  PROVE  LET more == Sorted(Append(ls, l), S \cup {Len(ls) + 1})
         IN /\ Cardinality(S) \in Nat /\ Cardinality(S \cup {Len(ls) + 1}) = Cardinality(S) + 1
            /\ DOMAIN more = 1..(Cardinality(S) + 1)
            /\ \A k \in 1..Cardinality(S) : more[k] = Sorted(ls, S)[k]
            /\ more[Cardinality(S) + 1] = Len(ls) + 1
<1> DEFINE T == S \cup {Len(ls) + 1}
           Ranked(list, set, k) == {x \in set : Cardinality(UpTo(list, set, x)) = k}
           Choice(list, set, k) == CHOOSE n \in Ranked(list, set, k) : TRUE
<1>1. IsFiniteSet(S) /\ Len(ls) + 1 \notin S /\ S \subseteq DOMAIN ls
  <2>1. IsFiniteSet(DOMAIN ls)
    BY PlacesFinite
  <2> QED
    BY <2>1, FS_Subset
<1>2. Cardinality(S) \in Nat /\ Cardinality(T) = Cardinality(S) + 1
  BY <1>1, FS_AddElement, FS_CardinalityType
<1>3. \A x \in S : UpTo(Append(ls, l), T, x) = UpTo(ls, S, x)
  BY UpToMore
<1>4. UpTo(Append(ls, l), T, Len(ls) + 1) = T
  BY UpToNew
<1>5. \A x \in S : Cardinality(UpTo(ls, S, x)) \in Nat /\ Cardinality(UpTo(ls, S, x)) <= Cardinality(S)
  BY <1>1, UpToFinite
<1>6. ASSUME NEW k \in 1..Cardinality(S) PROVE Ranked(Append(ls, l), T, k) = Ranked(ls, S, k)
  <2> HIDE DEF T
  <2>1. Cardinality(UpTo(Append(ls, l), T, Len(ls) + 1)) # k
    BY <1>2, <1>4
  <2>2. T = S \cup {Len(ls) + 1}
    BY DEF T
  <2> QED
    BY <1>3, <2>1, <2>2
<1>7. Ranked(Append(ls, l), T, Cardinality(S) + 1) = {Len(ls) + 1}
  <2> HIDE DEF T
  <2>1. Cardinality(UpTo(Append(ls, l), T, Len(ls) + 1)) = Cardinality(S) + 1
    BY <1>2, <1>4
  <2>2. T = S \cup {Len(ls) + 1}
    BY DEF T
  <2>3. \A x \in S : Cardinality(UpTo(Append(ls, l), T, x)) # Cardinality(S) + 1
    BY <1>2, <1>3, <1>5
  <2> QED
    BY <2>1, <2>2, <2>3
<1>8. ASSUME NEW k \in 1..Cardinality(S) PROVE Choice(Append(ls, l), T, k) = Choice(ls, S, k)
  <2> HIDE DEF Ranked, T
  <2> QED
    BY <1>6, Zenon
<1>9. Choice(Append(ls, l), T, Cardinality(S) + 1) = Len(ls) + 1
  <2> HIDE DEF Ranked, T
  <2>1. Choice(Append(ls, l), T, Cardinality(S) + 1) \in {Len(ls) + 1}
    BY <1>7
  <2> QED
    BY <2>1
<1>10. /\ Sorted(Append(ls, l), T) = [k \in 1..Cardinality(T) |-> Choice(Append(ls, l), T, k)]
       /\ Sorted(ls, S) = [k \in 1..Cardinality(S) |-> Choice(ls, S, k)]
  BY DEF Sorted
<1> HIDE DEF Choice, T
<1>11. /\ Cardinality(S) \in Nat /\ Cardinality(T) = Cardinality(S) + 1
       /\ DOMAIN Sorted(Append(ls, l), T) = 1..(Cardinality(S) + 1)
       /\ \A k \in 1..Cardinality(S) : Sorted(Append(ls, l), T)[k] = Sorted(ls, S)[k]
       /\ Sorted(Append(ls, l), T)[Cardinality(S) + 1] = Len(ls) + 1
  BY <1>2, <1>8, <1>9, <1>10
<1> QED
  BY <1>11 DEF T

(* The records and the generated events, a rank at a time. *)
LEMMA RecordedIs ==
  ASSUME NEW ls
  PROVE  /\ Recorded(ls) = [k \in 1..Cardinality(Paper(ls)) |-> ls[Sorted(ls, Paper(ls))[k]].what]
         /\ Generated(ls) = [k \in 1..Cardinality(Trading(ls)) |->
                              UpTo(ls, Inputs(ls), Sorted(ls, Trading(ls))[k])]
<1>1. \A S : DOMAIN Sorted(ls, S) = 1..Cardinality(S)
  BY DEF Sorted
<1> QED
  BY <1>1 DEF Recorded, Generated

(* A paper event stamped after the others is recorded last, and nothing    *)
(* that is generated changes.                                              *)
LEMMA PaperGrows ==
  ASSUME NEW ls \in Seq(Lines), NEW l \in Lines, l.source = "paper",
         \A n \in Paper(ls) : ls[n].mono < l.mono,
         Placed(ls, Paper(ls)), Placed(ls, Trading(ls))
  PROVE  LET more == Append(ls, l)  count == Cardinality(Paper(ls))
         IN /\ Placed(more, Paper(more)) /\ Placed(more, Trading(more))
            /\ Inputs(more) = Inputs(ls) /\ Trading(more) = Trading(ls)
            /\ Paper(more) = Paper(ls) \cup {Len(ls) + 1}
            /\ count \in Nat /\ Cardinality(Paper(more)) = count + 1
            /\ \A k \in 1..count : Recorded(more)[k] = Recorded(ls)[k]
            /\ Recorded(more)[count + 1] = l.what
            /\ Generated(more) = Generated(ls)
<1> DEFINE more == Append(ls, l)
           count == Cardinality(Paper(ls))
           new == Len(ls) + 1
<1>1. /\ DOMAIN more = DOMAIN ls \cup {new} /\ new \notin DOMAIN ls
      /\ more[new] = l /\ \A n \in DOMAIN ls : more[n] = ls[n]
  OBVIOUS
<1>2. /\ Paper(ls) \subseteq DOMAIN ls /\ Inputs(ls) \subseteq DOMAIN ls
      /\ Trading(ls) \subseteq Inputs(ls)
  BY PlacesFinite
<1>a. Paper(ls) \in SUBSET DOMAIN ls /\ Trading(ls) \in SUBSET DOMAIN ls
  BY <1>2
<1>b. /\ count \in Nat /\ Cardinality(Paper(ls) \cup {new}) = count + 1
      /\ \A k \in 1..count : Sorted(more, Paper(ls) \cup {new})[k] = Sorted(ls, Paper(ls))[k]
      /\ Sorted(more, Paper(ls) \cup {new})[count + 1] = new
  BY <1>a, SortedMore
<1>c. Sorted(more, Trading(ls)) = Sorted(ls, Trading(ls))
  BY <1>a, SortedOld
<1>d. \A n \in DOMAIN ls : UpTo(more, Inputs(ls), n) = UpTo(ls, Inputs(ls), n)
  BY <1>2, UpToOld
<1> HIDE DEF more, new
<1>3. Paper(more) = Paper(ls) \cup {new}
  BY <1>1 DEF Paper
<1>4. Inputs(more) = Inputs(ls)
  BY <1>1, <1>2, <1>3 DEF Inputs
<1>5. Trading(more) = Trading(ls)
  BY <1>1, <1>2, <1>4 DEF Trading
<1> HIDE DEF count
<1>6. \A k \in 1..count : Sorted(ls, Paper(ls))[k] \in Paper(ls)
  BY DEF Placed, count
<1>7. Placed(more, Paper(more))
  <2>1. ASSUME NEW k \in 1..(count + 1) PROVE Sorted(more, Paper(more))[k] \in Paper(more)
    <3>1. CASE k = count + 1
      BY <1>b, <1>3, <3>1
    <3>2. CASE k # count + 1
      <4>1. k \in 1..count
        BY <1>b, <3>2 DEF count
      <4> QED
        BY <1>b, <1>3, <1>6, <4>1 DEF count
    <3> QED
      BY <3>1, <3>2
  <2> QED
    BY <1>b, <1>3, <2>1 DEF Placed, count
<1>8. Placed(more, Trading(more))
  BY <1>c, <1>5 DEF Placed
<1>9. \A k \in 1..(count + 1) : Recorded(more)[k] = more[Sorted(more, Paper(more))[k]].what
  <2>1. Cardinality(Paper(more)) = count + 1
    BY <1>b, <1>3
  <2>2. Recorded(more) = [k \in 1..Cardinality(Paper(more)) |-> more[Sorted(more, Paper(more))[k]].what]
    BY RecordedIs
  <2> QED
    BY <2>1, <2>2
<1>10. \A k \in 1..count : Recorded(ls)[k] = ls[Sorted(ls, Paper(ls))[k]].what
  <2>1. Recorded(ls) = [k \in 1..Cardinality(Paper(ls)) |-> ls[Sorted(ls, Paper(ls))[k]].what]
    BY RecordedIs
  <2> QED
    BY <2>1 DEF count
<1>11. ASSUME NEW k \in 1..count PROVE Recorded(more)[k] = Recorded(ls)[k]
  <2>0. count \in Nat
    BY <1>b
  <2>1. k \in 1..(count + 1)
    BY <2>0
  <2>3. Sorted(more, Paper(more))[k] = Sorted(ls, Paper(ls))[k]
    BY <1>b, <1>3
  <2>2. more[Sorted(ls, Paper(ls))[k]] = ls[Sorted(ls, Paper(ls))[k]]
    BY <1>1, <1>2, <1>6
  <2> QED
    BY <1>9, <1>10, <2>1, <2>2, <2>3
<1>12. Recorded(more)[count + 1] = l.what
  <2>1. count + 1 \in 1..(count + 1) /\ Sorted(more, Paper(more))[count + 1] = new
    BY <1>b, <1>3 DEF count
  <2> QED
    BY <1>1, <1>9, <2>1
<1>13. Generated(more) = Generated(ls)
  <2>1. \A k \in 1..Cardinality(Trading(ls)) :
          UpTo(more, Inputs(ls), Sorted(ls, Trading(ls))[k]) = UpTo(ls, Inputs(ls), Sorted(ls, Trading(ls))[k])
    BY <1>d, <1>2 DEF Placed
  <2>2. Generated(more) = [k \in 1..Cardinality(Trading(ls)) |-> UpTo(more, Inputs(ls), Sorted(ls, Trading(ls))[k])]
    BY <1>c, <1>4, <1>5, RecordedIs
  <2> QED
    BY <2>1, <2>2, RecordedIs
<1> QED
  BY <1>b, <1>3, <1>4, <1>5, <1>7, <1>8, <1>11, <1>12, <1>13 DEF more, count, new

(* An input stamped after the others adds at most one generated event, the *)
(* last, and changes none of those before.                                 *)
LEMMA InputGrows ==
  ASSUME NEW ls \in Seq(Lines), NEW l \in Lines, l.source # "paper",
         \A n \in Inputs(ls) : ls[n].mono < l.mono,
         Placed(ls, Paper(ls)), Placed(ls, Trading(ls))
  PROVE  LET more == Append(ls, l)  count == Cardinality(Trading(ls))
         IN /\ Placed(more, Paper(more)) /\ Placed(more, Trading(more))
            /\ Paper(more) = Paper(ls) /\ Inputs(more) = Inputs(ls) \cup {Len(ls) + 1}
            /\ Trading(more) = Trading(ls) \cup (IF l.what = "trading" THEN {Len(ls) + 1} ELSE {})
            /\ count \in Nat
            /\ Cardinality(Trading(more)) = count + (IF l.what = "trading" THEN 1 ELSE 0)
            /\ \A k \in 1..count : Generated(more)[k] = Generated(ls)[k]
            /\ Recorded(more) = Recorded(ls)
<1> DEFINE more == Append(ls, l)
           count == Cardinality(Trading(ls))
           new == Len(ls) + 1
<1>1. /\ DOMAIN more = DOMAIN ls \cup {new} /\ new \notin DOMAIN ls
      /\ more[new] = l /\ \A n \in DOMAIN ls : more[n] = ls[n]
  OBVIOUS
<1>2. /\ Paper(ls) \subseteq DOMAIN ls /\ Inputs(ls) \subseteq DOMAIN ls
      /\ Trading(ls) \subseteq Inputs(ls) /\ count \in Nat
  BY PlacesFinite
<1>a. Paper(ls) \in SUBSET DOMAIN ls /\ Trading(ls) \in SUBSET DOMAIN ls /\ Inputs(ls) \in SUBSET DOMAIN ls
  BY <1>2
<1>b. /\ Cardinality(Trading(ls) \cup {new}) = count + 1
      /\ \A k \in 1..count : Sorted(more, Trading(ls) \cup {new})[k] = Sorted(ls, Trading(ls))[k]
      /\ Sorted(more, Trading(ls) \cup {new})[count + 1] = new
  BY <1>a, <1>2, SortedMore
<1>c. Sorted(more, Paper(ls)) = Sorted(ls, Paper(ls)) /\ Sorted(more, Trading(ls)) = Sorted(ls, Trading(ls))
  BY <1>a, SortedOld
<1>d. \A n \in Inputs(ls) : UpTo(more, Inputs(ls) \cup {new}, n) = UpTo(ls, Inputs(ls), n)
  BY <1>a, UpToMore
<1> HIDE DEF more, new
<1>3. Paper(more) = Paper(ls)
  BY <1>1 DEF Paper
<1>4. Inputs(more) = Inputs(ls) \cup {new}
  BY <1>1, <1>2, <1>3 DEF Inputs
<1>5. Trading(more) = Trading(ls) \cup (IF l.what = "trading" THEN {new} ELSE {})
  BY <1>1, <1>2, <1>4 DEF Trading
<1> HIDE DEF count
<1>6. \A k \in 1..count : Sorted(ls, Trading(ls))[k] \in Trading(ls)
  BY DEF Placed, count
<1>7. /\ Cardinality(Trading(more)) = count + (IF l.what = "trading" THEN 1 ELSE 0)
      /\ \A k \in 1..count : Sorted(more, Trading(more))[k] = Sorted(ls, Trading(ls))[k]
      /\ Placed(more, Trading(more))
  <2>1. CASE l.what = "trading"
    <3>1. Trading(more) = Trading(ls) \cup {new}
      BY <1>5, <2>1
    <3>2. ASSUME NEW k \in 1..(count + 1) PROVE Sorted(more, Trading(more))[k] \in Trading(more)
      <4>1. CASE k = count + 1
        BY <1>b, <3>1, <4>1
      <4>2. CASE k # count + 1
        <5>1. k \in 1..count
          BY <1>2, <4>2 DEF count
        <5> QED
          BY <1>b, <1>6, <3>1, <5>1 DEF count
      <4> QED
        BY <4>1, <4>2
    <3> QED
      BY <1>b, <2>1, <3>1, <3>2 DEF Placed, count
  <2>2. CASE l.what # "trading"
    <3>1. Trading(more) = Trading(ls)
      BY <1>5, <2>2
    <3> QED
      BY <1>c, <1>2, <2>2, <3>1 DEF Placed, count
  <2> QED
    BY <2>1, <2>2
<1>8. Placed(more, Paper(more))
  BY <1>c, <1>3 DEF Placed
<1>9. \A k \in 1..count : Generated(ls)[k] = UpTo(ls, Inputs(ls), Sorted(ls, Trading(ls))[k])
  <2>1. Generated(ls) = [k \in 1..Cardinality(Trading(ls)) |->
                          UpTo(ls, Inputs(ls), Sorted(ls, Trading(ls))[k])]
    BY RecordedIs
  <2> QED
    BY <2>1 DEF count
<1>10. ASSUME NEW k \in 1..count PROVE Generated(more)[k] = Generated(ls)[k]
  <2>1. k \in 1..Cardinality(Trading(more))
    <3>1. Cardinality(Trading(more)) = count + 1 \/ Cardinality(Trading(more)) = count
      <4>1. CASE l.what = "trading"
        BY <1>7, <4>1
      <4>2. CASE l.what # "trading"
        BY <1>2, <1>7, <4>2
      <4> QED
        BY <4>1, <4>2
    <3>2. count \in Nat
      BY <1>2
    <3> QED
      BY <3>1, <3>2
  <2>2. Generated(more)[k] = UpTo(more, Inputs(more), Sorted(more, Trading(more))[k])
    BY <2>1, RecordedIs
  <2>3. Generated(more)[k] = UpTo(more, Inputs(ls) \cup {new}, Sorted(ls, Trading(ls))[k])
    BY <1>4, <1>7, <2>2
  <2> QED
    BY <1>2, <1>6, <1>9, <1>d, <2>3
<1>11. Recorded(more) = Recorded(ls)
  <2>1. \A k \in 1..Cardinality(Paper(ls)) : more[Sorted(ls, Paper(ls))[k]] = ls[Sorted(ls, Paper(ls))[k]]
    BY <1>1, <1>2 DEF Placed
  <2>2. Recorded(more) = [k \in 1..Cardinality(Paper(ls)) |-> more[Sorted(ls, Paper(ls))[k]].what]
    BY <1>c, <1>3, RecordedIs
  <2>3. Recorded(ls) = [k \in 1..Cardinality(Paper(ls)) |-> ls[Sorted(ls, Paper(ls))[k]].what]
    BY RecordedIs
  <2> QED
    BY <2>1, <2>2, <2>3
<1> QED
  BY <1>2, <1>3, <1>4, <1>5, <1>7, <1>8, <1>10, <1>11 DEF more, count, new

-----------------------------------------------------------------------------
(* Facts about sequences, for elements of any set. *)
LEMMA SequenceOf ==
  ASSUME NEW S, NEW n \in Nat, NEW f \in [1..n -> S]
  PROVE  f \in Seq(S) /\ Len(f) = n
OBVIOUS

LEMMA ShortSequences ==
  ASSUME NEW S, NEW a \in S, NEW b \in S
  PROVE  /\ << >> \in Seq(S) /\ Len(<< >>) = 0
         /\ << a >> \in Seq(S) /\ Len(<< a >>) = 1 /\ << a >>[1] = a
         /\ << a, b >> \in Seq(S) /\ Len(<< a, b >>) = 2 /\ << a, b >>[1] = a
OBVIOUS

LEMMA Joined ==
  ASSUME NEW S, NEW s \in Seq(S), NEW t \in Seq(S)
  PROVE  /\ s \o t \in Seq(S) /\ Len(s) \in Nat /\ Len(t) \in Nat /\ Len(s \o t) = Len(s) + Len(t)
         /\ Len(t) >= 1 => (s \o t)[Len(s) + 1] = t[1]
OBVIOUS

LEMMA Stepwise ==
  ASSUME NEW S, NEW s \in Seq(S), NEW x \in S
  PROVE  /\ Append(s, x) \in Seq(S) /\ Len(Append(s, x)) = Len(s) + 1
         /\ s # << >> => /\ Head(s) \in S /\ Head(s) = s[1] /\ Len(s) \in Nat \ {0}
                        /\ Tail(s) \in Seq(S) /\ Len(Tail(s)) = Len(s) - 1
                        /\ \A i \in 1..Len(Tail(s)) : Tail(s)[i] = s[i + 1]
OBVIOUS

CaptureSources == {"clob", "exchange", "rtds", "pyth"}
CaptureRecords == [source : CaptureSources, snapshot : BOOLEAN, required : BOOLEAN]
PriceFed(f) == f.provider \in {"pyth_proxy", "polymarket_rtds_chainlink"}
(* The place of the reference feed among the captures.                     *)
FeedPlace == Len(Probes) + 2

(* What a cycle captures, and that it captures the reference feed. *)
LEMMA CaptureTyped ==
  ASSUME NEW source \in CaptureSources, NEW snapshot \in BOOLEAN
  PROVE  /\ Capture(source, snapshot) \in CaptureRecords
         /\ Capture(source, snapshot).source = source
         /\ source # "clob" => Capture(source, snapshot).required
BY DEF Capture, CaptureRecords

LEMMA ReferenceTyped ==
  /\ ReferenceCaptures \in Seq(CaptureRecords)
  /\ ReferenceErrors(feed) = {} /\ PriceFed(feed) =>
       /\ Len(ReferenceCaptures) >= 1
       /\ ReferenceCaptures[1].source \in {"rtds", "pyth"} /\ ReferenceCaptures[1].required
<1> DEFINE rtds == Capture("rtds", FALSE)
           pyth == Capture("pyth", TRUE)
           books == Capture("clob", TRUE)
           both == << rtds, books >>
           one == << pyth >>
<1>1. /\ rtds \in CaptureRecords /\ rtds.source = "rtds" /\ rtds.required
      /\ pyth \in CaptureRecords /\ pyth.source = "pyth" /\ pyth.required
      /\ books \in CaptureRecords
  BY CaptureTyped DEF CaptureSources
<1>2. /\ RtdsEnabled(feed) => ReferenceCaptures = both
      /\ ~ RtdsEnabled(feed) /\ PythEnabled(feed) => ReferenceCaptures = one
      /\ ~ RtdsEnabled(feed) /\ ~ PythEnabled(feed) => ReferenceCaptures = << >>
  BY DEF ReferenceCaptures, RtdsEnabled, PythEnabled
<1> HIDE DEF rtds, pyth, books
<1>3. /\ both \in Seq(CaptureRecords) /\ Len(both) = 2 /\ both[1] = rtds
      /\ one \in Seq(CaptureRecords) /\ Len(one) = 1 /\ one[1] = pyth
      /\ << >> \in Seq(CaptureRecords)
  BY <1>1, ShortSequences
<1> HIDE DEF both, one
<1>4. ASSUME ReferenceErrors(feed) = {}, PriceFed(feed) PROVE RtdsEnabled(feed) \/ PythEnabled(feed)
  BY <1>4 DEF ReferenceErrors, Error, PriceFed, RtdsEnabled, PythEnabled
<1>5. CASE RtdsEnabled(feed)
  BY <1>1, <1>2, <1>3, <1>5
<1>6. CASE ~ RtdsEnabled(feed) /\ PythEnabled(feed)
  BY <1>1, <1>2, <1>3, <1>6, SMTT(60)
<1>7. CASE ~ RtdsEnabled(feed) /\ ~ PythEnabled(feed)
  BY <1>2, <1>3, <1>4, <1>7
<1> QED
  BY <1>5, <1>6, <1>7

LEMMA CapturesTyped ==
  /\ Captures \in Seq(CaptureRecords) /\ Len(Captures) \in Nat \ {0}
  /\ FeedPlace \in Nat /\ FeedPlace > 1
  /\ ReferenceErrors(feed) = {} /\ PriceFed(feed) =>
       /\ FeedPlace <= Len(Captures)
       /\ Captures[FeedPlace].source \in {"rtds", "pyth"} /\ Captures[FeedPlace].required
<1> DEFINE probes == [n \in DOMAIN Probes |-> Capture(Probes[n], FALSE)]
           first == Capture("clob", TRUE)
           books == << first >>
           front == books \o probes
           reference == ReferenceCaptures
<1>8. Captures = front \o reference
  BY DEF Captures
<1>1. /\ Len(Probes) \in Nat /\ DOMAIN Probes = 1..Len(Probes)
      /\ \A n \in 1..Len(Probes) : Probes[n] \in CaptureSources
  BY ProbesAssumption DEF CaptureSources
<1>2. \A n \in 1..Len(Probes) : Capture(Probes[n], FALSE) \in CaptureRecords
  BY <1>1, CaptureTyped
<1>3. probes \in [1..Len(Probes) -> CaptureRecords]
  BY <1>1, <1>2
<1>4. first \in CaptureRecords
  BY CaptureTyped DEF CaptureSources
<1> HIDE DEF probes, first
<1>5. probes \in Seq(CaptureRecords) /\ Len(probes) = Len(Probes)
  BY <1>1, <1>3, SequenceOf
<1>6. books \in Seq(CaptureRecords) /\ Len(books) = 1
  BY <1>4, ShortSequences
<1> HIDE DEF books, reference
<1>7. front \in Seq(CaptureRecords) /\ Len(front) = Len(Probes) + 1
  <2>1. /\ books \o probes \in Seq(CaptureRecords) /\ Len(books \o probes) = Len(books) + Len(probes)
    BY <1>5, <1>6, Joined
  <2>2. front = books \o probes
    OBVIOUS
  <2> HIDE DEF front
  <2>3. Len(front) = 1 + Len(Probes)
    BY <1>5, <1>6, <2>1, <2>2
  <2> QED
    BY <1>1, <2>1, <2>2, <2>3
<1> HIDE DEF front
<1>9. reference \in Seq(CaptureRecords)
  BY ReferenceTyped DEF reference
<1>10. /\ Captures \in Seq(CaptureRecords) /\ Len(reference) \in Nat
       /\ Len(Captures) = Len(Probes) + 1 + Len(reference)
       /\ Len(reference) >= 1 => Captures[FeedPlace] = reference[1]
  <2>1. /\ front \o reference \in Seq(CaptureRecords) /\ Len(reference) \in Nat
        /\ Len(front \o reference) = Len(front) + Len(reference)
        /\ Len(reference) >= 1 => (front \o reference)[Len(front) + 1] = reference[1]
    BY <1>7, <1>9, Joined
  <2>2. FeedPlace = Len(front) + 1
    BY <1>1, <1>7 DEF FeedPlace
  <2> QED
    BY <1>1, <1>7, <1>8, <2>1, <2>2
<1>11. FeedPlace \in Nat /\ FeedPlace > 1
  BY <1>1 DEF FeedPlace
<1>12. Len(Captures) \in Nat \ {0}
  BY <1>1, <1>10
<1>13. ASSUME ReferenceErrors(feed) = {}, PriceFed(feed)
       PROVE  /\ FeedPlace <= Len(Captures)
              /\ Captures[FeedPlace].source \in {"rtds", "pyth"} /\ Captures[FeedPlace].required
  <2>1. /\ Len(reference) >= 1
        /\ reference[1].source \in {"rtds", "pyth"} /\ reference[1].required
    BY <1>13, ReferenceTyped DEF reference
  <2>2. FeedPlace <= Len(Captures)
    BY <1>1, <1>10, <2>1 DEF FeedPlace
  <2> QED
    BY <1>10, <2>1, <2>2
<1> QED
  BY <1>10, <1>11, <1>12, <1>13

(* How many events a message brings is a number. *)
LEMMA BatchTyped ==
  ASSUME NEW source, NEW m \in Messages
  PROVE  Batch(source, m).events \in Nat /\ Batch(source, m).refused \in BOOLEAN
<1>1. m \in Seq(Items) /\ DOMAIN m = 1..Len(m) /\ Len(m) \in Nat
  BY FeedsAssumption
<1>2. IsFiniteSet(DOMAIN m)
  BY <1>1, FS_Interval
<1>3. IsFiniteSet({n \in DOMAIN m : m[n] = "event"}) /\ IsFiniteSet({n \in DOMAIN m : Fresh(m)[n] = "event"})
  BY <1>2, FS_Subset
<1>4. DOMAIN Fresh(m) = DOMAIN m
  BY DEF Fresh
<1>5. EventCount(m) \in Nat /\ EventCount(Fresh(m)) \in Nat
  BY <1>3, <1>4, FS_CardinalityType DEF EventCount
<1> HIDE DEF EventCount, Fresh
<1>6. /\ RtdsBatch(m).events \in Nat /\ RtdsBatch(m).refused \in BOOLEAN
      /\ PythBatch(m).events \in Nat /\ PythBatch(m).refused \in BOOLEAN
      /\ FeedBatch(m).events \in Nat /\ FeedBatch(m).refused \in BOOLEAN
  BY <1>5 DEF RtdsBatch, PythBatch, FeedBatch
<1> QED
  BY <1>6 DEF Batch

LEMMA CapturedFrom ==
  ASSUME NEW n \in 1..Len(Captures)
  PROVE  Captures[n].source \in CaptureSources
<1>1. Captures[n] \in CaptureRecords
  BY CapturesTyped
<1> QED
  BY <1>1 DEF CaptureRecords

-----------------------------------------------------------------------------
Places == Storing \cup {"idle", "config", "discover", "fixture", "cycle", "capture", "record",
                        "replay", "wait", "final", "persist"}
Sockets == [open : BOOLEAN, got : 0..MaxMessages, idle : 0..3, left : 0..Deadline]
SessionTyped ==
  /\ lines \in Seq(Lines) /\ pending \in Seq(Lines)
  /\ torn \in BOOLEAN /\ files \subseteq {"config"} \cup Range(Outputs)
  /\ pc \in Places /\ ended \in {"no", "ok", "failed", "diverged", "crashed"}
  /\ kind \in {"bounded", "open", "fixture"}
  /\ socket \in Sockets
  /\ batch \in Seq(Messages)
  /\ events \in Nat /\ cycle \in Nat /\ at \in Nat /\ clock \in Nat \ {0} /\ stepped \in Nat

(* Nothing is captured before the first cycle. *)
Unstarted == pc = "idle" /\ ended = "no"
SessionPlaced ==
  /\ pc # "idle" => ended = "no" /\ ReferenceErrors(feed) = {}
  /\ Unstarted \/ pc # "idle" => ~ torn
  /\ pc \notin Storing => pending = << >>
  /\ pc \in {"capture", "record", "store.events"} => at \in 1..Len(Captures)
  /\ Unstarted \/ pc = "config" => files = {}
  /\ Unstarted \/ pc \in {"config", "discover", "fixture"} => lines = << >>
  /\ Unstarted \/ pc \in {"config", "discover", "fixture", "store.markets", "store.fixture"} => cycle = 0
  /\ kind # "fixture" => pc \notin {"fixture", "store.fixture"}
BatchBounded ==
  /\ Len(batch) <= MaxMessages
  /\ pc = "capture" => Len(batch) <= socket.got
  /\ Unstarted \/ pc \notin {"idle", "capture", "record", "store.events"} => batch = << >>
SessionInv == SessionTyped /\ SessionPlaced /\ BatchBounded

-----------------------------------------------------------------------------
(* The lines each writer makes. *)
LEMMA SameCaptures == UNCHANGED feed => Captures' = Captures
BY DEF Captures, ReferenceCaptures, RtdsEnabled, PythEnabled

LEMMA LineIs ==
  ASSUME NEW mono \in Nat, NEW seq \in Nat, NEW source \in LineSources,
         NEW what \in {"trading", "quiet"} \cup SUBSET Nat
  PROVE  /\ Line(mono, seq, source, what) \in Lines
         /\ Line(mono, seq, source, what).mono = mono
         /\ Line(mono, seq, source, what).source = source
         /\ Line(mono, seq, source, what).what = what
BY DEF Line, Lines

LEMMA StoredIs ==
  ASSUME NEW line \in Lines, clock \in Nat \ {0}
  PROVE  /\ Stored(line) \in Lines
         /\ Stored(line).source = line.source /\ Stored(line).what = line.what
         /\ Stored(line).mono = IF line.source = "paper" THEN clock + line.mono ELSE line.mono
BY DEF Stored, Lines

(* The lines that are prepared. *)
LEMMA MarketLinesAre ==
  ASSUME clock \in Nat \ {0}
  PROVE  /\ MarketLines \in Seq(Lines) /\ Len(MarketLines) \in Nat
         /\ \A n \in 1..Len(MarketLines) :
              /\ MarketLines[n].mono = clock + n - 1 /\ MarketLines[n].source = "discovery"
              /\ MarketLines[n].what = "quiet"
<1> DEFINE count == Cardinality(Assets)
<1>1. count \in Nat
  BY FeedsAssumption, FS_CardinalityType
<1> HIDE DEF count
<1>2. ASSUME NEW n \in 1..count
      PROVE  /\ Line(clock + n - 1, n, "discovery", "quiet") \in Lines
             /\ Line(clock + n - 1, n, "discovery", "quiet").mono = clock + n - 1
             /\ Line(clock + n - 1, n, "discovery", "quiet").source = "discovery"
             /\ Line(clock + n - 1, n, "discovery", "quiet").what = "quiet"
  <2>1. clock + n - 1 \in Nat /\ n \in Nat
    BY <1>1
  <2>2. "discovery" \in LineSources
    BY DEF LineSources
  <2> QED
    BY <2>1, <2>2, LineIs
<1>3. MarketLines = [n \in 1..count |-> Line(clock + n - 1, n, "discovery", "quiet")]
  BY DEF MarketLines, count
<1>4. MarketLines \in [1..count -> Lines]
  BY <1>2, <1>3
<1>5. MarketLines \in Seq(Lines) /\ Len(MarketLines) = count
  BY <1>1, <1>4, SequenceOf
<1> QED
  BY <1>1, <1>2, <1>3, <1>5

LEMMA FixtureLinesAre ==
  /\ FixtureLines \in Seq(Lines) /\ Len(FixtureLines) = 3
  /\ \A n \in 1..3 : FixtureLines[n].mono = n /\ FixtureLines[n].source = "fixture"
<1>1. ASSUME NEW n \in 1..3
      PROVE  LET line == Line(n, n, "fixture", IF n = 3 THEN "trading" ELSE "quiet")
             IN line \in Lines /\ line.mono = n /\ line.source = "fixture"
  <2>1. "fixture" \in LineSources
    BY DEF LineSources
  <2> QED
    BY <2>1, LineIs
<1>2. FixtureLines \in [1..3 -> Lines]
  BY <1>1 DEF FixtureLines
<1>3. FixtureLines \in Seq(Lines) /\ Len(FixtureLines) = 3
  BY <1>2, SequenceOf
<1> QED
  BY <1>1, <1>3 DEF FixtureLines

LEMMA EventLinesAre ==
  ASSUME clock \in Nat \ {0}, cycle \in Nat, lines \in Seq(Lines), at \in 1..Len(Captures),
         NEW count \in Nat, NEW what \in {"trading", "quiet"}
  PROVE  /\ EventLines(count, what) \in Seq(Lines) /\ Len(EventLines(count, what)) = count
         /\ \A n \in 1..count :
              /\ EventLines(count, what)[n].mono = clock + n - 1
              /\ EventLines(count, what)[n].source = Captures[at].source
<1> DEFINE source == Captures[at].source
           about(n) == IF n = 1 THEN what ELSE "quiet"
           line(n) == Line(clock + n - 1, 1000 * (cycle + 1) + Len(lines) + n - 1, source, about(n))
<1>3. EventLines(count, what) = [n \in 1..count |-> line(n)]
  BY DEF EventLines
<1>1. source \in LineSources
  BY CapturedFrom DEF CaptureSources, LineSources
<1> HIDE DEF source
<1>2. ASSUME NEW n \in 1..count
      PROVE  line(n) \in Lines /\ line(n).mono = clock + n - 1 /\ line(n).source = source
  <2>1. clock + n - 1 \in Nat /\ 1000 * (cycle + 1) + Len(lines) + n - 1 \in Nat
    <3>1. Len(lines) \in Nat
      OBVIOUS
    <3> QED
      BY <3>1
  <2>2. about(n) \in {"trading", "quiet"} \cup SUBSET Nat
    OBVIOUS
  <2> DEFINE stamp == clock + n - 1
             place == 1000 * (cycle + 1) + Len(lines) + n - 1
             text == about(n)
  <2>3. line(n) = Line(stamp, place, source, text)
    OBVIOUS
  <2>4. stamp \in Nat /\ place \in Nat
    BY <2>1
  <2> HIDE DEF about, line, stamp, place, text
  <2>5. text \in {"trading", "quiet"} \cup SUBSET Nat
    BY <2>2 DEF text
  <2>6. /\ Line(stamp, place, source, text) \in Lines
        /\ Line(stamp, place, source, text).mono = stamp
        /\ Line(stamp, place, source, text).source = source
    BY <1>1, <2>4, <2>5, LineIs
  <2> QED
    BY <2>3, <2>6 DEF stamp
<1> HIDE DEF line
<1>4. EventLines(count, what) \in [1..count -> Lines]
  BY <1>2, <1>3
<1>5. EventLines(count, what) \in Seq(Lines) /\ Len(EventLines(count, what)) = count
  BY <1>4, SequenceOf
<1> QED
  BY <1>2, <1>3, <1>5 DEF source

(* How many records and generated events there are. *)
LEMMA RecordsAre ==
  ASSUME NEW ls \in Seq(Lines)
  PROVE  /\ Len(Recorded(ls)) = Cardinality(Paper(ls)) /\ Cardinality(Paper(ls)) \in Nat
         /\ Len(Generated(ls)) = Cardinality(Trading(ls)) /\ Cardinality(Trading(ls)) \in Nat
         /\ \A k \in 1..Cardinality(Trading(ls)) : Generated(ls)[k] \in SUBSET Nat
<1> DEFINE made(k) == UpTo(ls, Inputs(ls), Sorted(ls, Trading(ls))[k])
           told(k) == ls[Sorted(ls, Paper(ls))[k]].what
           papers == Cardinality(Paper(ls))
           trades == Cardinality(Trading(ls))
<1>1. papers \in Nat /\ trades \in Nat
  BY PlacesFinite
<1>2. Recorded(ls) = [k \in 1..papers |-> told(k)] /\ Generated(ls) = [k \in 1..trades |-> made(k)]
  BY RecordedIs
<1>3. \A k : made(k) \in SUBSET Nat
  <2>1. Inputs(ls) \subseteq Nat
    BY PlacesFinite
  <2> QED
    BY <2>1 DEF UpTo
<1> HIDE DEF made, told, papers, trades
<1>4. Len([k \in 1..papers |-> told(k)]) = papers /\ Len([k \in 1..trades |-> made(k)]) = trades
  BY <1>1
<1> QED
  BY <1>1, <1>2, <1>3, <1>4 DEF papers, trades

LEMMA MissingAre ==
  ASSUME NEW ls \in Seq(Lines)
  PROVE  LET had == Cardinality(Paper(ls))  all == Cardinality(Trading(ls))
             new == Missing(Recorded(ls), Generated(ls))
         IN had <= all =>
              /\ new \in Seq(Lines) /\ Len(new) = all - had
              /\ \A n \in 1..(all - had) :
                   /\ new[n].mono = had + n - 1 /\ new[n].source = "paper"
                   /\ new[n].what = Generated(ls)[had + n]
<1> DEFINE had == Cardinality(Paper(ls))
           all == Cardinality(Trading(ls))
           new == Missing(Recorded(ls), Generated(ls))
           line(n) == PaperLine(had + n - 1, Generated(ls)[had + n])
<1>1. had \in Nat /\ all \in Nat /\ Len(Recorded(ls)) = had /\ Len(Generated(ls)) = all
  BY RecordsAre
<1>2. new = [n \in 1..(all - had) |-> line(n)]
  BY <1>1 DEF Missing
<1> SUFFICES ASSUME had <= all
             PROVE  /\ new \in Seq(Lines) /\ Len(new) = all - had
                    /\ \A n \in 1..(all - had) :
                         /\ new[n].mono = had + n - 1 /\ new[n].source = "paper"
                         /\ new[n].what = Generated(ls)[had + n]
  OBVIOUS
<1>3. \A k \in 1..all : Generated(ls)[k] \in SUBSET Nat
  BY RecordsAre
<1> HIDE DEF had, all, new
<1>4. ASSUME NEW n \in 1..(all - had)
      PROVE  /\ line(n) \in Lines /\ line(n).mono = had + n - 1 /\ line(n).source = "paper"
             /\ line(n).what = Generated(ls)[had + n]
  <2> DEFINE index == had + n - 1
             event == Generated(ls)[had + n]
  <2>1. had + n \in 1..all /\ index \in Nat
    BY <1>1
  <2>2. event \in {"trading", "quiet"} \cup SUBSET Nat /\ "paper" \in LineSources
    BY <1>3, <2>1 DEF LineSources
  <2>3. line(n) = PaperLine(index, event)
    OBVIOUS
  <2> HIDE DEF index, event, line
  <2>4. PaperLine(index, event) = Line(index, 9000 + index, "paper", event) /\ 9000 + index \in Nat
    BY <2>1 DEF PaperLine
  <2>5. /\ line(n) \in Lines /\ line(n).mono = index /\ line(n).source = "paper"
        /\ line(n).what = event
    BY <2>1, <2>2, <2>3, <2>4, LineIs
  <2> QED
    BY <2>5 DEF index, event
<1> HIDE DEF line
<1>5. all - had \in Nat
  BY <1>1
<1>6. new \in [1..(all - had) -> Lines]
  BY <1>2, <1>4
<1>7. new \in Seq(Lines) /\ Len(new) = all - had
  BY <1>5, <1>6, SequenceOf
<1> QED
  BY <1>2, <1>4, <1>7

-----------------------------------------------------------------------------
(* Where a session is in its cycle, action by action. *)
LEMMA SocketTyped == NoSocket \in Sockets /\ NoSocket.got = 0
BY BoundsAssumption DEF NoSocket, Sockets

LEMMA NextOutput ==
  Unwritten # {} => /\ Min(Unwritten) \in Unwritten /\ Outputs[Min(Unwritten)] \in Range(Outputs)
                    /\ \A n \in Unwritten : Min(Unwritten) <= n
<1>1. DOMAIN Outputs = 1..Len(Outputs) /\ Len(Outputs) \in Nat
  BY OutputsAssumption
<1>2. Unwritten \in SUBSET (0..Len(Outputs))
  BY <1>1 DEF Unwritten
<1>3. Unwritten # {} => Min(Unwritten) \in Unwritten /\ \A n \in Unwritten : Min(Unwritten) <= n
  BY <1>1, <1>2, MinOfRange
<1>4. \A n \in Unwritten : Outputs[n] \in Range(Outputs)
  BY DEF Unwritten, Range
<1> QED
  BY <1>3, <1>4

LEMMA EmptyIs ==
  /\ << >> \in Seq(Lines) /\ << >> \in Seq(Messages)
  /\ Len(<< >>) = 0 /\ Len(<< >>) <= MaxMessages
BY BoundsAssumption

LEMMA SessionInvInit == Init => SessionInv
<1> SUFFICES ASSUME Init PROVE SessionInv
  OBVIOUS
<1>1. /\ << >> \in Seq(Lines) /\ << >> \in Seq(Messages)
      /\ Len(<< >>) = 0 /\ Len(<< >>) <= MaxMessages
  BY EmptyIs
<1>2. SessionTyped
  <2>1. lines \in Seq(Lines) /\ pending \in Seq(Lines) /\ batch \in Seq(Messages)
    BY <1>1 DEF Init
  <2>2. socket \in Sockets /\ torn \in BOOLEAN /\ files \subseteq {"config"} \cup Range(Outputs)
    BY SocketTyped DEF Init
  <2>3. /\ pc \in Places /\ ended \in {"no", "ok", "failed", "diverged", "crashed"}
        /\ kind \in {"bounded", "open", "fixture"}
    BY DEF Init, Places
  <2>4. events \in Nat /\ cycle \in Nat /\ at \in Nat /\ clock \in Nat \ {0} /\ stepped \in Nat
    BY DEF Init
  <2> QED
    BY <2>1, <2>2, <2>3, <2>4 DEF SessionTyped
<1>3. SessionPlaced
  BY DEF Init, SessionPlaced, Unstarted, Storing
<1>4. BatchBounded
  BY <1>1, BoundsAssumption DEF Init, BatchBounded, Unstarted
<1> QED
  BY <1>2, <1>3, <1>4 DEF SessionInv

LEMMA StartKeeps == SessionInv /\ Start => SessionInv'
<1> SUFFICES ASSUME SessionInv, Start PROVE SessionInv'
  OBVIOUS
<1>1. UNCHANGED feed /\ Captures' = Captures
  BY SameCaptures DEF Start, Goto, End, Decides, outsideVars
<1>2. Captures \in Seq(CaptureRecords) /\ Len(Captures) \in Nat \ {0}
  BY CapturesTyped
<1> USE DEF Start, Goto, End, Decides, outsideVars, captureVars
<1>3. SessionTyped'
  BY SocketTyped, EmptyIs, NextOutput, BoundsAssumption DEF SessionInv, SessionTyped, Places, Storing
<1>4. SessionPlaced'
  BY <1>1, <1>2, EmptyIs DEF SessionInv, SessionTyped, SessionPlaced, Unstarted, Places, Storing
<1>5. BatchBounded'
  BY SocketTyped, EmptyIs, BoundsAssumption DEF SessionInv, SessionTyped, SessionPlaced, BatchBounded, Unstarted, Places, Storing
<1> QED
  BY <1>3, <1>4, <1>5 DEF SessionInv

LEMMA WriteConfigKeeps == SessionInv /\ WriteConfig => SessionInv'
<1> SUFFICES ASSUME SessionInv, WriteConfig PROVE SessionInv'
  OBVIOUS
<1>1. UNCHANGED feed /\ Captures' = Captures
  BY SameCaptures DEF WriteConfig, WriteFile, Goto, End, Decides, outsideVars
<1>2. Captures \in Seq(CaptureRecords) /\ Len(Captures) \in Nat \ {0}
  BY CapturesTyped
<1> USE DEF WriteConfig, WriteFile, Goto, End, Decides, outsideVars, captureVars
<1>3. SessionTyped'
  BY SocketTyped, EmptyIs, NextOutput, BoundsAssumption DEF SessionInv, SessionTyped, Places, Storing
<1>4. SessionPlaced'
  BY <1>1, <1>2, EmptyIs DEF SessionInv, SessionTyped, SessionPlaced, Unstarted, Places, Storing
<1>5. BatchBounded'
  BY SocketTyped, EmptyIs, BoundsAssumption DEF SessionInv, SessionTyped, SessionPlaced, BatchBounded, Unstarted, Places, Storing
<1> QED
  BY <1>3, <1>4, <1>5 DEF SessionInv

LEMMA CycleHeadKeeps == SessionInv /\ CycleHead => SessionInv'
<1> SUFFICES ASSUME SessionInv, CycleHead PROVE SessionInv'
  OBVIOUS
<1>1. UNCHANGED feed /\ Captures' = Captures
  BY SameCaptures DEF CycleHead, Goto, End, Decides, outsideVars
<1>2. Captures \in Seq(CaptureRecords) /\ Len(Captures) \in Nat \ {0}
  BY CapturesTyped
<1> USE DEF CycleHead, Goto, End, Decides, outsideVars, captureVars
<1>3. SessionTyped'
  BY SocketTyped, EmptyIs, NextOutput, BoundsAssumption DEF SessionInv, SessionTyped, Places, Storing
<1>4. SessionPlaced'
  BY <1>1, <1>2, EmptyIs DEF SessionInv, SessionTyped, SessionPlaced, Unstarted, Places, Storing
<1>5. BatchBounded'
  BY SocketTyped, EmptyIs, BoundsAssumption DEF SessionInv, SessionTyped, SessionPlaced, BatchBounded, Unstarted, Places, Storing
<1> QED
  BY <1>3, <1>4, <1>5 DEF SessionInv

LEMMA ConnectKeeps == SessionInv /\ Connect => SessionInv'
<1> SUFFICES ASSUME SessionInv, Connect PROVE SessionInv'
  OBVIOUS
<1>1. UNCHANGED feed /\ Captures' = Captures
  BY SameCaptures DEF Connect, Sockets, Goto, End, Decides, outsideVars
<1>2. Captures \in Seq(CaptureRecords) /\ Len(Captures) \in Nat \ {0}
  BY CapturesTyped
<1> USE DEF Connect, Sockets, Goto, End, Decides, outsideVars, captureVars
<1>3. SessionTyped'
  BY SocketTyped, EmptyIs, NextOutput, BoundsAssumption DEF SessionInv, SessionTyped, Places, Storing
<1>4. SessionPlaced'
  BY <1>1, <1>2, EmptyIs DEF SessionInv, SessionTyped, SessionPlaced, Unstarted, Places, Storing
<1>5. BatchBounded'
  BY SocketTyped, EmptyIs, BoundsAssumption DEF SessionInv, SessionTyped, SessionPlaced, BatchBounded, Unstarted, Places, Storing
<1> QED
  BY <1>3, <1>4, <1>5 DEF SessionInv

LEMMA WaitKeeps == SessionInv /\ Wait => SessionInv'
<1> SUFFICES ASSUME SessionInv, Wait PROVE SessionInv'
  OBVIOUS
<1>1. UNCHANGED feed /\ Captures' = Captures
  BY SameCaptures DEF Wait, Goto, End, Decides, outsideVars
<1>2. Captures \in Seq(CaptureRecords) /\ Len(Captures) \in Nat \ {0}
  BY CapturesTyped
<1> USE DEF Wait, Goto, End, Decides, outsideVars, captureVars
<1>3. SessionTyped'
  BY SocketTyped, EmptyIs, NextOutput, BoundsAssumption DEF SessionInv, SessionTyped, Places, Storing
<1>4. SessionPlaced'
  BY <1>1, <1>2, EmptyIs DEF SessionInv, SessionTyped, SessionPlaced, Unstarted, Places, Storing
<1>5. BatchBounded'
  BY SocketTyped, EmptyIs, BoundsAssumption DEF SessionInv, SessionTyped, SessionPlaced, BatchBounded, Unstarted, Places, Storing
<1> QED
  BY <1>3, <1>4, <1>5 DEF SessionInv

LEMMA FinalCheckKeeps == SessionInv /\ FinalCheck => SessionInv'
<1> SUFFICES ASSUME SessionInv, FinalCheck PROVE SessionInv'
  OBVIOUS
<1>1. UNCHANGED feed /\ Captures' = Captures
  BY SameCaptures DEF FinalCheck, Goto, End, Decides, outsideVars
<1>2. Captures \in Seq(CaptureRecords) /\ Len(Captures) \in Nat \ {0}
  BY CapturesTyped
<1> USE DEF FinalCheck, Goto, End, Decides, outsideVars, captureVars
<1>3. SessionTyped'
  BY SocketTyped, EmptyIs, NextOutput, BoundsAssumption DEF SessionInv, SessionTyped, Places, Storing
<1>4. SessionPlaced'
  BY <1>1, <1>2, EmptyIs DEF SessionInv, SessionTyped, SessionPlaced, Unstarted, Places, Storing
<1>5. BatchBounded'
  BY SocketTyped, EmptyIs, BoundsAssumption DEF SessionInv, SessionTyped, SessionPlaced, BatchBounded, Unstarted, Places, Storing
<1> QED
  BY <1>3, <1>4, <1>5 DEF SessionInv

LEMMA PersistKeeps == SessionInv /\ Persist => SessionInv'
<1> SUFFICES ASSUME SessionInv, Persist PROVE SessionInv'
  OBVIOUS
<1>1. UNCHANGED feed /\ Captures' = Captures
  BY SameCaptures DEF Persist, WriteFile, Goto, End, Decides, outsideVars
<1>2. Captures \in Seq(CaptureRecords) /\ Len(Captures) \in Nat \ {0}
  BY CapturesTyped
<1> USE DEF Persist, WriteFile, Goto, End, Decides, outsideVars, captureVars
<1>3. SessionTyped'
  BY SocketTyped, EmptyIs, NextOutput, BoundsAssumption DEF SessionInv, SessionTyped, Places, Storing
<1>4. SessionPlaced'
  BY <1>1, <1>2, EmptyIs, SMTT(60) DEF SessionInv, SessionTyped, SessionPlaced, Unstarted, Places, Storing
<1>5. BatchBounded'
  BY SocketTyped, EmptyIs, BoundsAssumption DEF SessionInv, SessionTyped, SessionPlaced, BatchBounded, Unstarted, Places, Storing
<1> QED
  BY <1>3, <1>4, <1>5 DEF SessionInv

LEMMA CaptureDoneKeeps == SessionInv /\ CaptureDone => SessionInv'
<1> SUFFICES ASSUME SessionInv, CaptureDone PROVE SessionInv'
  OBVIOUS
<1>1. UNCHANGED feed /\ Captures' = Captures
  BY SameCaptures DEF CaptureDone, NothingHeard, Goto, End, Decides, outsideVars
<1>2. Captures \in Seq(CaptureRecords) /\ Len(Captures) \in Nat \ {0}
  BY CapturesTyped
<1> USE DEF CaptureDone, NothingHeard, Goto, End, Decides, outsideVars, captureVars
<1>3. SessionTyped'
  <2>1. (lines \in Seq(Lines) /\ pending \in Seq(Lines) /\ batch \in Seq(Messages))'
    BY DEF SessionInv, SessionTyped
  <2>2. (socket \in Sockets /\ torn \in BOOLEAN /\ files \subseteq {"config"} \cup Range(Outputs))'
    BY SocketTyped DEF SessionInv, SessionTyped
  <2>3. (/\ pc \in Places /\ ended \in {"no", "ok", "failed", "diverged", "crashed"}
         /\ kind \in {"bounded", "open", "fixture"})'
    BY DEF SessionInv, SessionTyped, Places
  <2>4. (events \in Nat /\ cycle \in Nat /\ at \in Nat /\ clock \in Nat \ {0} /\ stepped \in Nat)'
    BY DEF SessionInv, SessionTyped
  <2> QED
    BY <2>1, <2>2, <2>3, <2>4 DEF SessionTyped
<1>4. SessionPlaced'
  BY <1>1, <1>2, EmptyIs DEF SessionInv, SessionTyped, SessionPlaced, Unstarted, Places, Storing
<1>5. BatchBounded'
  BY SocketTyped, EmptyIs, BoundsAssumption DEF SessionInv, SessionTyped, SessionPlaced, BatchBounded, Unstarted, Places, Storing
<1> QED
  BY <1>3, <1>4, <1>5 DEF SessionInv

LEMMA ReadFailsKeeps == SessionInv /\ ReadFails => SessionInv'
<1> SUFFICES ASSUME SessionInv, ReadFails PROVE SessionInv'
  OBVIOUS
<1>1. UNCHANGED feed /\ Captures' = Captures
  BY SameCaptures DEF ReadFails, Goto, End, Decides, outsideVars
<1>2. Captures \in Seq(CaptureRecords) /\ Len(Captures) \in Nat \ {0}
  BY CapturesTyped
<1> USE DEF ReadFails, Goto, End, Decides, outsideVars, captureVars
<1>3. SessionTyped'
  BY SocketTyped, EmptyIs, NextOutput, BoundsAssumption DEF SessionInv, SessionTyped, Places, Storing
<1>4. SessionPlaced'
  BY <1>1, <1>2, EmptyIs DEF SessionInv, SessionTyped, SessionPlaced, Unstarted, Places, Storing
<1>5. BatchBounded'
  BY SocketTyped, EmptyIs, BoundsAssumption DEF SessionInv, SessionTyped, SessionPlaced, BatchBounded, Unstarted, Places, Storing
<1> QED
  BY <1>3, <1>4, <1>5 DEF SessionInv

LEMMA CrashKeeps == SessionInv /\ Crash => SessionInv'
<1> SUFFICES ASSUME SessionInv, Crash PROVE SessionInv'
  OBVIOUS
<1>1. UNCHANGED feed /\ Captures' = Captures
  BY SameCaptures DEF Crash, Die, Goto, End, Decides, outsideVars
<1>2. Captures \in Seq(CaptureRecords) /\ Len(Captures) \in Nat \ {0}
  BY CapturesTyped
<1> USE DEF Crash, Die, Goto, End, Decides, outsideVars, captureVars
<1>3. SessionTyped'
  BY SocketTyped, EmptyIs, NextOutput, BoundsAssumption DEF SessionInv, SessionTyped, Places, Storing
<1>4. SessionPlaced'
  BY <1>1, <1>2, EmptyIs DEF SessionInv, SessionTyped, SessionPlaced, Unstarted, Places, Storing
<1>5. BatchBounded'
  BY SocketTyped, EmptyIs, BoundsAssumption DEF SessionInv, SessionTyped, SessionPlaced, BatchBounded, Unstarted, Places, Storing
<1> QED
  BY <1>3, <1>4, <1>5 DEF SessionInv

LEMMA SignalKeeps == SessionInv /\ Signal => SessionInv'
<1> SUFFICES ASSUME SessionInv, Signal PROVE SessionInv'
  OBVIOUS
<1>1. UNCHANGED feed /\ Captures' = Captures
  BY SameCaptures DEF Signal, Die, Listens, AfterSignal, Goto, End, Decides, outsideVars
<1>2. Captures \in Seq(CaptureRecords) /\ Len(Captures) \in Nat \ {0}
  BY CapturesTyped
<1> USE DEF Signal, Die, Listens, AfterSignal, Goto, End, Decides, outsideVars, captureVars
<1>3. SessionTyped'
  BY SocketTyped, EmptyIs, NextOutput, BoundsAssumption, ZenonT(60) DEF SessionInv, SessionTyped, Places, Storing
<1>4. SessionPlaced'
  BY <1>1, <1>2, EmptyIs DEF SessionInv, SessionTyped, SessionPlaced, Unstarted, Places, Storing
<1>5. BatchBounded'
  BY SocketTyped, EmptyIs, BoundsAssumption DEF SessionInv, SessionTyped, SessionPlaced, BatchBounded, Unstarted, Places, Storing
<1> QED
  BY <1>3, <1>4, <1>5 DEF SessionInv

LEMMA StepBackKeeps == SessionInv /\ StepBack => SessionInv'
<1> SUFFICES ASSUME SessionInv, StepBack PROVE SessionInv'
  OBVIOUS
<1>1. UNCHANGED feed /\ Captures' = Captures
  BY SameCaptures DEF StepBack, Goto, End, Decides, outsideVars
<1>2. Captures \in Seq(CaptureRecords) /\ Len(Captures) \in Nat \ {0}
  BY CapturesTyped
<1> USE DEF StepBack, Goto, End, Decides, outsideVars, captureVars
<1>3. SessionTyped'
  BY SocketTyped, EmptyIs, NextOutput, BoundsAssumption DEF SessionInv, SessionTyped, Places, Storing
<1>4. SessionPlaced'
  BY <1>1, <1>2, EmptyIs DEF SessionInv, SessionTyped, SessionPlaced, Unstarted, Places, Storing
<1>5. BatchBounded'
  BY SocketTyped, EmptyIs, BoundsAssumption DEF SessionInv, SessionTyped, SessionPlaced, BatchBounded, Unstarted, Places, Storing
<1> QED
  BY <1>3, <1>4, <1>5 DEF SessionInv

LEMMA DiscoverKeeps == SessionInv /\ Discover => SessionInv'
<1> SUFFICES ASSUME SessionInv, Discover PROVE SessionInv'
  OBVIOUS
<1> USE DEF Discover, Goto, End, Decides, outsideVars, captureVars
<1>1. UNCHANGED feed /\ Captures' = Captures
  BY SameCaptures
<1>2. MarketLines \in Seq(Lines) /\ Len(MarketLines) \in Nat
  BY MarketLinesAre DEF SessionInv, SessionTyped
<1>3. SessionTyped'
  BY <1>2 DEF SessionInv, SessionTyped, Places, Storing
<1>4. SessionPlaced'
  BY <1>1 DEF SessionInv, SessionTyped, SessionPlaced, Unstarted, Places, Storing
<1>5. BatchBounded'
  BY DEF SessionInv, SessionTyped, SessionPlaced, BatchBounded, Unstarted, Places, Storing
<1> QED
  BY <1>3, <1>4, <1>5 DEF SessionInv

LEMMA StoreNextKeeps ==
  SessionInv /\ pc \in Storing /\ StoreNext => SessionInv'
<1> SUFFICES ASSUME SessionInv, pc \in Storing, StoreNext PROVE SessionInv'
  OBVIOUS
<1> DEFINE line == Stored(Head(pending))
<1>1. UNCHANGED feed /\ Captures' = Captures
  BY SameCaptures DEF StoreNext, outsideVars
<1>2. pending # << >> /\ Head(pending) \in Lines /\ Tail(pending) \in Seq(Lines)
  BY DEF StoreNext, SessionInv, SessionTyped
<1>3. line \in Lines
  BY <1>2, StoredIs DEF SessionInv, SessionTyped
<1>4. Append(lines, line) \in Seq(Lines)
  BY <1>3 DEF SessionInv, SessionTyped
<1>5. /\ lines' = Append(lines, line) \/ lines' = lines
      /\ pending' = Tail(pending) \/ pending' = << >>
      /\ torn' \in BOOLEAN \/ torn' = torn
      /\ \/ UNCHANGED <<torn, pc, ended>>
         \/ pending' = << >> /\ pc' = "idle" /\ ended' = "failed"
      /\ clock' = clock + 1 /\ UNCHANGED <<files, cycle, captureVars, outsideVars>>
  BY DEF StoreNext, End
<1> HIDE DEF line
<1>6. SessionTyped'
  <2>1. (lines \in Seq(Lines) /\ pending \in Seq(Lines) /\ batch \in Seq(Messages))'
    BY <1>2, <1>4, <1>5, EmptyIs DEF SessionInv, SessionTyped, captureVars
  <2>2. (socket \in Sockets /\ torn \in BOOLEAN /\ files \subseteq {"config"} \cup Range(Outputs))'
    BY <1>5 DEF SessionInv, SessionTyped, captureVars
  <2>3. (/\ pc \in Places /\ ended \in {"no", "ok", "failed", "diverged", "crashed"}
         /\ kind \in {"bounded", "open", "fixture"})'
    BY <1>5 DEF SessionInv, SessionTyped, Places, outsideVars
  <2>4. (events \in Nat /\ cycle \in Nat /\ at \in Nat /\ clock \in Nat \ {0} /\ stepped \in Nat)'
    BY <1>5 DEF SessionInv, SessionTyped, captureVars, outsideVars
  <2> QED
    BY <2>1, <2>2, <2>3, <2>4 DEF SessionTyped
<1>7. SessionPlaced'
  BY <1>1, <1>5 DEF SessionInv, SessionTyped, SessionPlaced, Unstarted, Places, Storing, captureVars, outsideVars
<1>8. BatchBounded'
  BY <1>5 DEF SessionInv, SessionTyped, SessionPlaced, BatchBounded, Unstarted, Places, Storing, captureVars
<1> QED
  BY <1>6, <1>7, <1>8 DEF SessionInv

LEMMA AppendLineKeeps == SessionInv /\ AppendLine => SessionInv'
<1> SUFFICES ASSUME SessionInv, AppendLine PROVE SessionInv'
  OBVIOUS
<1>1. CASE pc \in {"store.markets", "store.events", "store.paper", "store.fixture"} /\ StoreNext
  BY <1>1, StoreNextKeeps DEF Storing
<1>2. CASE \/ pc = "store.markets" /\ Then("cycle")
           \/ pc = "store.events" /\ Then("record")
           \/ pc = "store.fixture" /\ Then("replay")
           \/ pc = "store.paper" /\ Then(AfterPaper)
  <2>1. AfterPaper \in {"wait", "cycle", "final"}
    BY DEF AfterPaper
  <2>2. PICK next : /\ Then(next) /\ next \in {"cycle", "record", "replay", "wait", "final"}
                    /\ next = "record" => pc = "store.events"
                    /\ pc \in Storing /\ (next # "record" => pc # "store.events")
    BY <1>2, <2>1 DEF Storing
  <2> USE DEF Then, Goto, Decides, outsideVars, captureVars
  <2>3. UNCHANGED feed /\ Captures' = Captures
    BY <2>2, SameCaptures
  <2>4. SessionTyped'
    BY <2>2 DEF SessionInv, SessionTyped, Places, Storing
  <2>5. SessionPlaced'
    BY <2>2, <2>3 DEF SessionInv, SessionTyped, SessionPlaced, Unstarted, Places, Storing
  <2>6. BatchBounded'
    BY <2>2 DEF SessionInv, SessionTyped, SessionPlaced, BatchBounded, Unstarted, Places, Storing
  <2> QED
    BY <2>4, <2>5, <2>6 DEF SessionInv
<1> QED
  BY <1>1, <1>2 DEF AppendLine

LEMMA FetchKeeps == SessionInv /\ Fetch => SessionInv'
<1> SUFFICES ASSUME SessionInv, Fetch PROVE SessionInv'
  OBVIOUS
<1> USE DEF Fetch, Goto, End, Decides, outsideVars, captureVars
<1>1. UNCHANGED feed /\ Captures' = Captures
  BY SameCaptures
<1>2. (batch' \in Seq(Messages) /\ Len(batch') = 1) \/ batch' = batch
  <2>1. \A m \in Messages : << m >> \in Seq(Messages) /\ Len(<< m >>) = 1
    BY ShortSequences
  <2> QED
    BY <2>1
<1>3. SessionTyped'
  BY <1>2 DEF SessionInv, SessionTyped, Places, Storing
<1>4. SessionPlaced'
  BY <1>1 DEF SessionInv, SessionTyped, SessionPlaced, Unstarted, Places, Storing
<1>5. BatchBounded'
  <2>1. pc = "capture" /\ pc' \in {"record", "idle"} /\ (pc' = "idle" => ended' = "failed")
    OBVIOUS
  <2> HIDE DEF Fetch
  <2>2. Len(batch') <= MaxMessages
    BY <1>2, BoundsAssumption DEF SessionInv, BatchBounded
  <2> QED
    BY <2>1, <2>2 DEF BatchBounded, Unstarted
<1> QED
  BY <1>3, <1>4, <1>5 DEF SessionInv

LEMMA GotTyped ==
  ASSUME NEW s \in Sockets, NEW g \in 0..MaxMessages, NEW i \in 0..3
  PROVE  /\ [s EXCEPT !.got = g, !.idle = i] \in Sockets
         /\ [s EXCEPT !.got = g, !.idle = i].got = g
BY DEF Sockets

LEMMA IdleTyped ==
  ASSUME NEW s \in Sockets, NEW i \in 0..3, NEW l \in 0..Deadline
  PROVE  /\ [s EXCEPT !.idle = i, !.left = l] \in Sockets
         /\ [s EXCEPT !.idle = i, !.left = l].got = s.got
BY DEF Sockets

LEMMA ReadFrameKeeps == SessionInv /\ ReadFrame => SessionInv'
<1> SUFFICES ASSUME SessionInv, ReadFrame PROVE SessionInv'
  OBVIOUS
<1>1. UNCHANGED feed /\ Captures' = Captures
  BY SameCaptures DEF ReadFrame, Decides, outsideVars
<1>2. /\ pc = "capture" /\ UNCHANGED <<lines, torn, files, kind, feed, stepped, cycle, at, events, pending, clock, ended>>
      /\ pc' = pc \/ pc' = "record"
      /\ pc' = "record" => UNCHANGED <<batch, socket>>
      /\ \/ UNCHANGED <<batch, socket>>
         \/ /\ socket.got < MaxMessages /\ socket.left > 0
            /\ \E m \in Messages : batch' = Append(batch, m)
            /\ socket' = [socket EXCEPT !.got = @ + 1, !.idle = 0]
         \/ /\ socket.left > 0 /\ UNCHANGED batch
            /\ socket' = Other(socket) \/ (Quiet(socket) /\ socket' = Idle(socket))
  BY DEF ReadFrame, Goto, Decides, outsideVars
<1>3. socket \in Sockets /\ batch \in Seq(Messages) /\ Len(batch) <= socket.got /\ Len(batch) \in Nat
  BY <1>2 DEF SessionInv, SessionTyped, BatchBounded
<1>4. /\ socket' \in Sockets /\ batch' \in Seq(Messages)
      /\ Len(batch') <= socket'.got
  <2>1. CASE UNCHANGED <<batch, socket>>
    BY <1>3, <2>1
  <2>2. CASE /\ socket.got < MaxMessages
             /\ \E m \in Messages : batch' = Append(batch, m)
             /\ socket' = [socket EXCEPT !.got = @ + 1, !.idle = 0]
    <3>1. batch' \in Seq(Messages) /\ Len(batch') = Len(batch) + 1
      BY <1>3, <2>2
    <3>2. socket.got \in Nat /\ socket.got + 1 \in 0..MaxMessages
      BY <1>3, <2>2, BoundsAssumption DEF Sockets
    <3>3. socket' \in Sockets /\ socket'.got = socket.got + 1
      <4> DEFINE g == socket.got + 1
      <4>1. g \in 0..MaxMessages /\ 0 \in 0..3
        BY <3>2, SMTT(60)
      <4> HIDE DEF g
      <4>2. /\ [socket EXCEPT !.got = g, !.idle = 0] \in Sockets
            /\ [socket EXCEPT !.got = g, !.idle = 0].got = g
        BY <1>3, <4>1, GotTyped
      <4> QED
        BY <2>2, <4>2 DEF g
    <3> QED
      BY <1>3, <3>1, <3>2, <3>3
  <2>3. CASE /\ socket.left > 0 /\ UNCHANGED batch
             /\ socket' = Other(socket) \/ (Quiet(socket) /\ socket' = Idle(socket))
    <3>2. socket.left - 1 \in 0..Deadline
      BY <1>3, <2>3, BoundsAssumption DEF Sockets
    <3> DEFINE l == socket.left - 1
    <3>5. ASSUME NEW i \in 0..3, socket' = [socket EXCEPT !.idle = i, !.left = l]
          PROVE  socket' \in Sockets /\ socket'.got = socket.got
      <4> HIDE DEF l
      <4>1. l \in 0..Deadline
        BY <3>2, SMTT(60) DEF l
      <4>2. /\ [socket EXCEPT !.idle = i, !.left = l] \in Sockets
            /\ [socket EXCEPT !.idle = i, !.left = l].got = socket.got
        BY <1>3, <4>1, IdleTyped
      <4> QED
        BY <3>5, <4>2
    <3>3. ASSUME socket' = Other(socket) PROVE socket' \in Sockets /\ socket'.got = socket.got
      <4>1. 0 \in 0..3 /\ socket' = [socket EXCEPT !.idle = 0, !.left = l]
        BY <3>3 DEF Other
      <4> QED
        BY <3>5, <4>1
    <3>4. ASSUME Quiet(socket), socket' = Idle(socket) PROVE socket' \in Sockets /\ socket'.got = socket.got
      <4>1. socket.idle + 1 \in 0..3 /\ socket' = [socket EXCEPT !.idle = socket.idle + 1, !.left = l]
        BY <1>3, <3>4 DEF Sockets, Quiet, Idle
      <4> QED
        BY <3>5, <4>1
    <3>1. socket' \in Sockets /\ socket'.got = socket.got
      BY <2>3, <3>3, <3>4
    <3> QED
      BY <1>3, <2>3, <3>1
  <2> QED
    BY <1>2, <2>1, <2>2, <2>3
<1>5. socket'.got \in 0..MaxMessages
  BY <1>4 DEF Sockets
<1>6. SessionTyped'
  BY <1>2, <1>4 DEF SessionInv, SessionTyped, Places, Storing
<1>7. SessionPlaced'
  BY <1>1, <1>2 DEF SessionInv, SessionTyped, SessionPlaced, Unstarted, Places, Storing
<1>8. BatchBounded'
  <2>1. Len(batch') \in Nat /\ Len(batch') <= MaxMessages
    BY <1>4, <1>5, BoundsAssumption
  <2> QED
    BY <1>2, <1>4, <2>1 DEF SessionInv, SessionPlaced, BatchBounded, Unstarted
<1> QED
  BY <1>6, <1>7, <1>8 DEF SessionInv

LEMMA RecordMessageKeeps == SessionInv /\ RecordMessage => SessionInv'
<1> SUFFICES ASSUME SessionInv, RecordMessage PROVE SessionInv'
  OBVIOUS
<1> DEFINE source == Captures[at].source
           new == Batch(source, Head(batch))
<1>1. UNCHANGED feed /\ Captures' = Captures
  BY SameCaptures DEF RecordMessage, outsideVars
<1>2. /\ pc = "record" /\ batch # << >> /\ batch' = Tail(batch) /\ batch \in Seq(Messages)
      /\ UNCHANGED <<lines, torn, files, kind, feed, stepped, cycle, at, socket>>
      /\ \/ /\ pc' = "store.events" /\ ended' = ended
            /\ \E what \in {"trading", "quiet"} : pending' = EventLines(new.events, what)
            /\ events' = events + new.events /\ clock' = clock + 1
         \/ pc' = "idle" /\ ended' = "failed" /\ UNCHANGED <<pending, events, clock>>
  BY DEF RecordMessage, Goto, End, outsideVars, SessionInv, SessionTyped
<1>3. /\ Head(batch) \in Messages /\ Tail(batch) \in Seq(Messages) /\ Len(Tail(batch)) = Len(batch) - 1
      /\ Len(batch) \in Nat
  BY <1>2, Stepwise
<1>4. new.events \in Nat
  BY <1>3, BatchTyped
<1> HIDE DEF new
<1>5. \A what \in {"trading", "quiet"} : EventLines(new.events, what) \in Seq(Lines)
  BY <1>2, <1>4, EventLinesAre DEF SessionInv, SessionTyped, SessionPlaced
<1>6. SessionTyped'
  BY <1>2, <1>3, <1>4, <1>5, SMTT(60) DEF SessionInv, SessionTyped, Places, Storing
<1>7. SessionPlaced'
  BY <1>1, <1>2 DEF SessionInv, SessionTyped, SessionPlaced, Unstarted, Places, Storing
<1>8. BatchBounded'
  BY <1>2, <1>3, BoundsAssumption DEF SessionInv, SessionPlaced, BatchBounded, Unstarted
<1> QED
  BY <1>6, <1>7, <1>8 DEF SessionInv

LEMMA FixtureKeeps == SessionInv /\ Fixture => SessionInv'
<1> SUFFICES ASSUME SessionInv, Fixture PROVE SessionInv'
  OBVIOUS
<1> USE DEF Fixture, Goto, Decides, outsideVars, captureVars
<1>1. UNCHANGED feed /\ Captures' = Captures
  BY SameCaptures
<1>3. SessionTyped'
  BY FixtureLinesAre DEF SessionInv, SessionTyped, Places, Storing
<1>4. SessionPlaced'
  BY <1>1 DEF SessionInv, SessionTyped, SessionPlaced, Unstarted, Places, Storing
<1>5. BatchBounded'
  BY DEF SessionInv, SessionTyped, SessionPlaced, BatchBounded, Unstarted, Places, Storing
<1> QED
  BY <1>3, <1>4, <1>5 DEF SessionInv

(* Recorded events that begin the generated ones are no more than those.   *)
LEMMA PrefixIs ==
  ASSUME NEW ls \in Seq(Lines)
  PROVE  IsPrefix(Recorded(ls), Generated(ls)) <=>
           /\ Cardinality(Paper(ls)) <= Cardinality(Trading(ls))
           /\ \A k \in 1..Cardinality(Paper(ls)) : Recorded(ls)[k] = Generated(ls)[k]
<1> DEFINE had == Cardinality(Paper(ls))
           all == Cardinality(Trading(ls))
           old == SubSeq(Recorded(ls), 1, had)
           new == SubSeq(Generated(ls), 1, had)
<1>1. had \in Nat /\ all \in Nat /\ Len(Recorded(ls)) = had /\ Len(Generated(ls)) = all
  BY RecordsAre
<1>2. IsPrefix(Recorded(ls), Generated(ls)) <=> had <= all /\ old = new
  BY <1>1 DEF IsPrefix
<1>3. /\ old = [k \in 1..had |-> Recorded(ls)[k]]
      /\ new = [k \in 1..had |-> Generated(ls)[k]]
  BY <1>1
<1> HIDE DEF had, all, old, new
<1>4. old = new <=> \A k \in 1..had : Recorded(ls)[k] = Generated(ls)[k]
  BY <1>3
<1> QED
  BY <1>2, <1>4 DEF had, all

LEMMA ReplayKeeps == SessionInv /\ Replay => SessionInv'
<1> SUFFICES ASSUME SessionInv, Replay PROVE SessionInv'
  OBVIOUS
<1> USE DEF Goto, Decides, End, outsideVars, captureVars
<1>1. UNCHANGED feed /\ Captures' = Captures
  BY SameCaptures DEF Replay
<1>2. lines \in Seq(Lines)
  BY DEF SessionInv, SessionTyped
<1>3. \/ pc' = "store.paper" /\ ended' = ended /\ pending' \in Seq(Lines)
      \/ pc' = "idle" /\ ended' = "diverged" /\ pending' = pending
  BY <1>2, PrefixIs, MissingAre DEF Replay
<1>4. pc = "replay" /\ UNCHANGED <<lines, torn, files, kind, feed, stepped, cycle, at, socket, batch, events, clock>>
  BY DEF Replay
<1>5. SessionTyped'
  BY <1>3, <1>4 DEF SessionInv, SessionTyped, Places, Storing
<1>6. SessionPlaced'
  BY <1>1, <1>3, <1>4 DEF SessionInv, SessionTyped, SessionPlaced, Unstarted, Places, Storing
<1>7. BatchBounded'
  BY <1>3, <1>4 DEF SessionInv, SessionTyped, SessionPlaced, BatchBounded, Unstarted, Places, Storing
<1> QED
  BY <1>5, <1>6, <1>7 DEF SessionInv

LEMMA SessionInvStep == SessionInv /\ [Next]_vars => SessionInv'
<1> SUFFICES ASSUME SessionInv, [Next]_vars PROVE SessionInv'
  OBVIOUS
<1>1. CASE UNCHANGED vars
  <2>1. Captures' = Captures
    BY <1>1, SameCaptures DEF vars, outsideVars
  <2> QED
    BY <1>1, <2>1 DEF vars, captureVars, outsideVars, SessionInv, SessionTyped, SessionPlaced, BatchBounded, Unstarted
<1> QED
  BY <1>1, StartKeeps, WriteConfigKeeps, DiscoverKeeps, AppendLineKeeps, CycleHeadKeeps, FetchKeeps,
     ConnectKeeps, ReadFrameKeeps, ReadFailsKeeps, RecordMessageKeeps, CaptureDoneKeeps, FixtureKeeps,
     ReplayKeeps, WaitKeeps, FinalCheckKeeps, PersistKeeps, CrashKeeps, SignalKeeps, StepBackKeeps
     DEF Next, SessionStep

(* While a session of a reference feed goes on, each cycle that is over    *)
(* stored a price, and the one at work has when it is past the feed, or    *)
(* has it in hand.                                                         *)
FedSoFar ==
  /\ pc = "store.events" => \A i \in 1..Len(pending) : pending[i].source = Captures[at].source
  /\ kind # "fixture" /\ PriceFed(feed) /\ pc # "idle" =>
       /\ Cardinality(Prices) >= cycle
       /\ pc \in {"capture", "record", "store.events"} =>
            /\ at > FeedPlace => Cardinality(Prices) >= cycle + 1
            /\ at = FeedPlace /\ events > 0 => Cardinality(Prices) + Len(pending) >= cycle + 1
       /\ pc \in {"replay", "store.paper"} => Cardinality(Prices) >= cycle + 1

LEMMA PricesFinite ==
  lines \in Seq(Lines) => IsFiniteSet(Prices) /\ Cardinality(Prices) \in Nat
<1> SUFFICES ASSUME lines \in Seq(Lines) PROVE IsFiniteSet(Prices) /\ Cardinality(Prices) \in Nat
  OBVIOUS
<1>1. IsFiniteSet(DOMAIN lines)
  BY PlacesFinite
<1>2. Prices \subseteq DOMAIN lines
  BY DEF Prices
<1> QED
  BY <1>1, <1>2, FS_Subset, FS_CardinalityType

LEMMA PricesGrow ==
  ASSUME lines \in Seq(Lines), NEW line \in Lines, lines' = Append(lines, line)
  PROVE  /\ Cardinality(Prices') \in Nat /\ Cardinality(Prices) \in Nat
         /\ Cardinality(Prices') >= Cardinality(Prices)
         /\ line.source \in {"rtds", "pyth"} => Cardinality(Prices') = Cardinality(Prices) + 1
<1> DEFINE new == Len(lines) + 1
<1>1. /\ DOMAIN lines' = DOMAIN lines \cup {new} /\ new \notin DOMAIN lines
      /\ lines'[new] = line /\ \A n \in DOMAIN lines : lines'[n] = lines[n]
  OBVIOUS
<1> HIDE DEF new
<1>2. Prices' = Prices \cup (IF line.source \in {"rtds", "pyth"} THEN {new} ELSE {})
  BY <1>1 DEF Prices
<1>3. IsFiniteSet(Prices) /\ Cardinality(Prices) \in Nat /\ new \notin Prices
  BY <1>1, PricesFinite DEF Prices
<1>4. Cardinality(Prices \cup {new}) = Cardinality(Prices) + 1
  BY <1>3, FS_AddElement
<1>5. CASE line.source \in {"rtds", "pyth"}
  <2>1. Prices' = Prices \cup {new}
    BY <1>2, <1>5
  <2> QED
    BY <1>3, <1>4, <2>1
<1>6. CASE line.source \notin {"rtds", "pyth"}
  <2>1. Prices' = Prices
    BY <1>2, <1>6
  <2> QED
    BY <1>3, <1>6, <2>1
<1> QED
  BY <1>5, <1>6

LEMMA SamePrices == UNCHANGED lines => Prices' = Prices
BY DEF Prices

LEMMA FedInit == Init => FedSoFar
BY DEF Init, FedSoFar

LEMMA StoreNextFeeds == SessionInv /\ FedSoFar /\ pc \in Storing /\ StoreNext => FedSoFar'
<1> SUFFICES ASSUME SessionInv, FedSoFar, pc \in Storing, StoreNext PROVE FedSoFar'
  OBVIOUS
<1> DEFINE line == Stored(Head(pending))
<1>1. UNCHANGED feed /\ Captures' = Captures
  BY SameCaptures DEF StoreNext, outsideVars
<1>2. CASE pc' = "idle"
  BY <1>2 DEF FedSoFar
<1>3. CASE pc' # "idle"
  <2>1. /\ pc' = pc /\ lines' = Append(lines, line) /\ pending' = Tail(pending)
        /\ UNCHANGED <<cycle, at, events, kind>>
    BY <1>3 DEF StoreNext, End, captureVars, outsideVars
  <2>2. /\ pending \in Seq(Lines) /\ pending # << >> /\ lines \in Seq(Lines) /\ clock \in Nat \ {0}
        /\ cycle \in Nat
    BY DEF StoreNext, SessionInv, SessionTyped
  <2>3. /\ Head(pending) \in Lines /\ Head(pending) = pending[1] /\ Len(pending) \in Nat \ {0}
        /\ Len(Tail(pending)) = Len(pending) - 1
        /\ \A i \in 1..Len(Tail(pending)) : Tail(pending)[i] = pending[i + 1]
    BY <2>2, Stepwise
  <2>4. line \in Lines /\ line.source = pending[1].source
    BY <2>2, <2>3, StoredIs
  <2>5. /\ Cardinality(Prices') \in Nat /\ Cardinality(Prices) \in Nat
        /\ Cardinality(Prices') >= Cardinality(Prices)
        /\ line.source \in {"rtds", "pyth"} => Cardinality(Prices') = Cardinality(Prices) + 1
    <3> HIDE DEF line
    <3> QED
      BY <2>1, <2>2, <2>4, PricesGrow
  <2> HIDE DEF line
  <2>6. pc = "store.events" => \A i \in 1..Len(pending') : pending'[i].source = Captures[at].source
    BY <2>1, <2>3 DEF FedSoFar
  <2>7. ASSUME kind # "fixture", PriceFed(feed), pc = "store.events", at = FeedPlace
        PROVE  line.source \in {"rtds", "pyth"}
    <3>1. line.source = Captures[FeedPlace].source
      BY <2>3, <2>4, <2>7 DEF FedSoFar
    <3>2. ReferenceErrors(feed) = {}
      BY <2>7 DEF SessionInv, SessionPlaced
    <3> QED
      BY <2>7, <3>1, <3>2, CapturesTyped
  <2>8. ASSUME kind # "fixture", PriceFed(feed)
        PROVE  /\ Cardinality(Prices') >= cycle
               /\ pc \in {"capture", "record", "store.events"} =>
                    /\ at > FeedPlace => Cardinality(Prices') >= cycle + 1
                    /\ at = FeedPlace /\ events > 0 => Cardinality(Prices') + Len(pending') >= cycle + 1
               /\ pc \in {"replay", "store.paper"} => Cardinality(Prices') >= cycle + 1
    <3>1. /\ Cardinality(Prices) >= cycle
          /\ pc = "store.events" /\ at > FeedPlace => Cardinality(Prices) >= cycle + 1
          /\ pc = "store.events" /\ at = FeedPlace /\ events > 0 =>
               Cardinality(Prices) + Len(pending) >= cycle + 1
          /\ pc = "store.paper" => Cardinality(Prices) >= cycle + 1
      BY <2>8 DEF FedSoFar, Storing
    <3>2. pc \in {"store.markets", "store.events", "store.paper", "store.fixture"}
      BY DEF Storing
    <3>3. Len(pending') = Len(pending) - 1
      BY <2>1, <2>3
    <3> QED
      BY <2>2, <2>3, <2>5, <2>7, <2>8, <3>1, <3>2, <3>3
  <2> QED
    BY <1>1, <2>1, <2>6, <2>8 DEF FedSoFar, PriceFed
<1> QED
  BY <1>2, <1>3

LEMMA FedStep == SessionInv /\ FedSoFar /\ [Next]_vars => FedSoFar'
<1> SUFFICES ASSUME SessionInv, FedSoFar, [Next]_vars PROVE FedSoFar'
  OBVIOUS
<1> USE DEF Goto, End, Decides, captureVars, outsideVars
<1>1. Cardinality(Prices) \in Nat /\ cycle \in Nat /\ at \in Nat /\ events \in Nat /\ FeedPlace \in Nat /\ FeedPlace > 1
  BY PricesFinite, CapturesTyped DEF SessionInv, SessionTyped
<1>2. ASSUME UNCHANGED <<lines, feed, kind, cycle>>,
             \/ pc' = pc /\ UNCHANGED <<at, events, pending>>
             \/ pc' = "idle"
             \/ pc' \notin {"capture", "record", "store.events", "replay", "store.paper"} /\ pc # "idle"
      PROVE  FedSoFar'
  <2>1. Prices' = Prices /\ Captures' = Captures
    BY <1>2, SamePrices, SameCaptures
  <2> QED
    BY <1>2, <2>1 DEF FedSoFar, PriceFed
<1>3. CASE UNCHANGED vars
  BY <1>2, <1>3 DEF vars
<1>4. CASE Start
  <2>1. lines = << >> /\ cycle = 0 /\ UNCHANGED <<lines, cycle>> /\ pc' = "config"
    BY <1>4 DEF Start, SessionInv, SessionPlaced, Unstarted
  <2>2. Prices' = Prices
    BY <2>1, SamePrices
  <2> QED
    BY <1>1, <2>1, <2>2 DEF FedSoFar
<1>5. CASE WriteConfig
  BY <1>2, <1>5 DEF WriteConfig, WriteFile
<1>6. CASE Discover
  BY <1>2, <1>6 DEF Discover
<1>7. CASE AppendLine
  <2>1. CASE pc \in {"store.markets", "store.events", "store.paper", "store.fixture"} /\ StoreNext
    BY <2>1, StoreNextFeeds DEF Storing
  <2>2. CASE pc = "store.markets" /\ Then("cycle")
    BY <1>2, <2>2 DEF Then
  <2>3. CASE pc = "store.events" /\ Then("record")
    <3>1. UNCHANGED <<lines, feed, kind, cycle, at, events, pending>> /\ pc' = "record"
      BY <2>3 DEF Then
    <3>2. Prices' = Prices
      BY <3>1, SamePrices
    <3> QED
      BY <2>3, <3>1, <3>2 DEF FedSoFar, PriceFed
  <2>4. CASE pc = "store.fixture" /\ Then("replay")
    <3>1. UNCHANGED <<lines, feed, kind, cycle, at, events, pending>> /\ pc' = "replay" /\ kind = "fixture"
      BY <2>4 DEF Then, SessionInv, SessionPlaced
    <3> QED
      BY <3>1 DEF FedSoFar
  <2>5. CASE pc = "store.paper" /\ Then(AfterPaper)
    <3>1. /\ UNCHANGED <<lines, feed, kind>> /\ cycle' = cycle + 1
          /\ pc' \in {"cycle", "wait", "final"}
      BY <2>5 DEF Then, AfterPaper
    <3>2. Prices' = Prices
      BY <3>1, SamePrices
    <3> QED
      BY <1>1, <2>5, <3>1, <3>2 DEF FedSoFar, PriceFed
  <2> QED
    BY <1>7, <2>1, <2>2, <2>3, <2>4, <2>5 DEF AppendLine
<1>8. CASE CycleHead
  <2>1. CASE pc' = "final"
    BY <1>2, <1>8, <2>1 DEF CycleHead
  <2>2. CASE pc' # "final"
    <3>1. UNCHANGED <<lines, feed, kind, cycle>> /\ at' = 1 /\ pc' = "capture" /\ pc = "cycle"
      BY <1>8, <2>2 DEF CycleHead
    <3>2. Prices' = Prices
      BY <3>1, SamePrices
    <3> QED
      BY <1>1, <3>1, <3>2 DEF FedSoFar, PriceFed
  <2> QED
    BY <2>1, <2>2
<1>9. CASE Fetch \/ Connect \/ ReadFrame \/ ReadFails
  <2>1. /\ UNCHANGED <<lines, feed, kind, cycle, at, events, pending>> /\ pc = "capture"
        /\ pc' \in {"capture", "record", "idle"}
    BY <1>9 DEF Fetch, Connect, ReadFrame, ReadFails
  <2>2. Prices' = Prices
    BY <2>1, SamePrices
  <2> QED
    BY <1>1, <2>1, <2>2 DEF FedSoFar, PriceFed
<1>10. CASE RecordMessage
  <2> DEFINE new == Batch(Captures[at].source, Head(batch))
  <2>1. CASE pc' = "idle"
    BY <2>1 DEF FedSoFar
  <2>2. CASE pc' # "idle"
    <3>1. /\ pc = "record" /\ pc' = "store.events" /\ UNCHANGED <<lines, feed, kind, cycle, at>>
          /\ \E what \in {"trading", "quiet"} : pending' = EventLines(new.events, what)
          /\ events' = events + new.events /\ batch # << >> /\ batch \in Seq(Messages)
      BY <1>10, <2>2 DEF RecordMessage, SessionInv, SessionTyped
    <3>2. new.events \in Nat
      <4>1. Head(batch) \in Messages
        BY <3>1, Stepwise
      <4> QED
        BY <4>1, BatchTyped
    <3> HIDE DEF new
    <3>3. /\ Len(pending') = new.events
          /\ \A i \in 1..Len(pending') : pending'[i].source = Captures[at].source
      <4>1. PICK what \in {"trading", "quiet"} : pending' = EventLines(new.events, what)
        BY <3>1
      <4>2. clock \in Nat \ {0} /\ cycle \in Nat /\ lines \in Seq(Lines) /\ at \in 1..Len(Captures)
        BY <3>1 DEF SessionInv, SessionTyped, SessionPlaced
      <4> DEFINE count == new.events
      <4> HIDE DEF count
      <4>3. count \in Nat /\ pending' = EventLines(count, what)
        BY <3>2, <4>1 DEF count
      <4>4. /\ Len(EventLines(count, what)) = count
            /\ \A i \in 1..count : EventLines(count, what)[i].source = Captures[at].source
        BY <4>2, <4>3, EventLinesAre
      <4> QED
        BY <4>3, <4>4 DEF count
    <3>4. Prices' = Prices /\ Captures' = Captures
      BY <3>1, SamePrices, SameCaptures
    <3>5. pending = << >> /\ Len(pending) = 0
      BY <3>1, EmptyIs DEF SessionInv, SessionPlaced, Storing
    <3> QED
      BY <1>1, <3>1, <3>2, <3>3, <3>4, <3>5 DEF FedSoFar, PriceFed
  <2> QED
    BY <2>1, <2>2
<1>11. CASE CaptureDone
  <2>1. CASE pc' = "idle"
    BY <2>1 DEF FedSoFar
  <2>2. CASE pc' # "idle"
    <3>1. /\ pc = "record" /\ UNCHANGED <<lines, feed, kind, cycle, pending>>
          /\ ~ (Captures[at].required /\ events = 0) /\ events' = 0
          /\ \/ at = Len(Captures) /\ pc' = "replay"
             \/ at # Len(Captures) /\ pc' = "capture" /\ at' = at + 1
      BY <1>11, <2>2 DEF CaptureDone, NothingHeard
    <3>2. at \in 1..Len(Captures) /\ pending = << >> /\ Len(pending) = 0 /\ ReferenceErrors(feed) = {}
      BY <3>1, EmptyIs DEF SessionInv, SessionPlaced, Storing
    <3>3. Prices' = Prices
      BY <3>1, SamePrices
    <3>4. ASSUME kind # "fixture", PriceFed(feed)
          PROVE  /\ Cardinality(Prices) >= cycle
                 /\ at >= FeedPlace => Cardinality(Prices) >= cycle + 1
                 /\ FeedPlace <= Len(Captures)
      <4>1. Captures[FeedPlace].required /\ FeedPlace <= Len(Captures)
        BY <3>2, <3>4, CapturesTyped
      <4>2. at = FeedPlace => events > 0
        BY <1>1, <3>1, <4>1
      <4> QED
        BY <1>1, <3>1, <3>2, <3>4, <4>1, <4>2 DEF FedSoFar
    <3>5. Len(Captures) \in Nat
      BY CapturesTyped
    <3> QED
      BY <1>1, <3>1, <3>2, <3>3, <3>4, <3>5 DEF FedSoFar, PriceFed
  <2> QED
    BY <2>1, <2>2
<1>12. CASE Fixture
  BY <1>2, <1>12 DEF Fixture
<1>13. CASE Replay
  <2>1. /\ pc = "replay" /\ UNCHANGED <<lines, feed, kind, cycle>> /\ pc' \in {"store.paper", "idle"}
    BY <1>13 DEF Replay
  <2>2. Prices' = Prices
    BY <2>1, SamePrices
  <2> QED
    BY <2>1, <2>2 DEF FedSoFar, PriceFed
<1>14. CASE Wait \/ FinalCheck \/ Persist
  BY <1>2, <1>14 DEF Wait, FinalCheck, Persist, WriteFile
<1>15. CASE Crash \/ Signal \/ StepBack
  BY <1>2, <1>15 DEF Crash, Die, Signal, AfterSignal, StepBack
<1> QED
  BY <1>3, <1>4, <1>5, <1>6, <1>7, <1>8, <1>9, <1>10, <1>11, <1>12, <1>13, <1>14, <1>15
     DEF Next, SessionStep

-----------------------------------------------------------------------------
(* The outputs are written in their order, over a file that was checked    *)
(* and that nothing touches any more.                                      *)
Written == {n \in DOMAIN Outputs : Outputs[n] \in files}
Audited == Agree(lines) /\ ~ torn /\ FedAsConfigured
OutputsInv ==
  /\ \A n \in Written : \A m \in 1..n : m \in Written
  /\ Written # {} \/ pc = "persist" => pc \in {"persist", "idle"} /\ Audited

LEMMA WrittenBy ==
  ASSUME NEW file, files' = files \cup {file}
  PROVE  /\ file \notin Range(Outputs) => Written' = Written
         /\ \A k \in DOMAIN Outputs : file = Outputs[k] => Written' = Written \cup {k}
<1>1. \A n \in DOMAIN Outputs : Outputs[n] \in Range(Outputs)
  BY DEF Range
<1>2. \A m, n \in DOMAIN Outputs : Outputs[m] = Outputs[n] => m = n
  BY OutputsAssumption
<1> QED
  BY <1>1, <1>2 DEF Written

LEMMA SameWritten == UNCHANGED files => Written' = Written
BY DEF Written

LEMMA SameAudited == UNCHANGED <<lines, torn, kind, feed, cycle>> => (Audited' <=> Audited)
BY SamePrices DEF Audited, FedAsConfigured

LEMMA OutputsInit == Init => OutputsInv
BY DEF Init, OutputsInv, Written

LEMMA OutputsStep == SessionInv /\ FedSoFar /\ OutputsInv /\ [Next]_vars => OutputsInv'
<1> SUFFICES ASSUME SessionInv, FedSoFar, OutputsInv, [Next]_vars PROVE OutputsInv'
  OBVIOUS
<1> USE DEF Goto, End, Decides, captureVars, outsideVars
<1>1. ASSUME UNCHANGED <<files, lines, torn, kind, feed, cycle>>,
             pc' \in {pc, "idle"} \/ (pc \in {"capture", "wait"} /\ pc' # "persist")
      PROVE  OutputsInv'
  <2>1. Written' = Written /\ (Audited' <=> Audited)
    BY <1>1, SameWritten, SameAudited
  <2> QED
    BY <1>1, <2>1 DEF OutputsInv
<1>2. ASSUME pc \notin {"idle", "persist"}, pc' # "persist",
             Written' = Written
      PROVE  OutputsInv'
  BY <1>2 DEF OutputsInv
<1>3. CASE UNCHANGED vars
  BY <1>1, <1>3 DEF vars
<1>4. CASE Start
  <2>1. files = {} /\ files' = files /\ pc' = "config"
    BY <1>4 DEF Start
  <2> QED
    BY <2>1 DEF OutputsInv, Written
<1>5. CASE WriteConfig
  <2>1. pc = "config" /\ pc' # "persist" /\ (files' = files \/ files' = files \cup {"config"})
    BY <1>5 DEF WriteConfig, WriteFile
  <2>2. Written' = Written
    BY <2>1, WrittenBy, SameWritten, OutputsAssumption
  <2> QED
    BY <1>2, <2>1, <2>2
<1>6. CASE \/ Discover \/ AppendLine \/ CycleHead \/ Fetch \/ Connect \/ ReadFrame \/ ReadFails
           \/ RecordMessage \/ CaptureDone \/ Fixture \/ Replay \/ Wait
  <2>1. files' = files /\ pc \notin {"idle", "persist"} /\ pc' # "persist"
    <3>1. CASE \/ Discover \/ CycleHead \/ Fetch \/ Connect \/ ReadFrame \/ ReadFails
               \/ RecordMessage \/ CaptureDone \/ Fixture \/ Wait
      BY <3>1 DEF Discover, CycleHead, Fetch, Connect, ReadFrame, ReadFails, RecordMessage,
                  CaptureDone, NothingHeard, Fixture, Wait
    <3>2. CASE Replay
      BY <3>2 DEF Replay
    <3>3. CASE AppendLine
      BY <3>3 DEF AppendLine, StoreNext, Then, AfterPaper
    <3> QED
      BY <1>6, <3>1, <3>2, <3>3
  <2> QED
    BY <1>2, <2>1, SameWritten
<1>7. CASE FinalCheck
  <2>1. pc = "final" /\ UNCHANGED <<files, lines, torn, kind, feed, cycle>>
    BY <1>7 DEF FinalCheck
  <2>2. CASE pc' = "idle"
    BY <1>1, <2>1, <2>2
  <2>3. CASE pc' # "idle"
    <3>1. pc' = "persist" /\ Agree(lines)
      BY <1>7, <2>3 DEF FinalCheck
    <3>2. ~ torn
      BY <2>1 DEF SessionInv, SessionPlaced
    <3>3. FedAsConfigured
      BY <2>1 DEF FedSoFar, FedAsConfigured, PriceFed
    <3>4. Audited'
      BY <2>1, <3>1, <3>2, <3>3, SameAudited DEF Audited
    <3>5. Written = {} /\ Written' = Written
      BY <2>1, SameWritten DEF OutputsInv
    <3> QED
      BY <3>1, <3>4, <3>5 DEF OutputsInv
  <2> QED
    BY <2>2, <2>3
<1>8. CASE Persist
  <2>1. /\ pc = "persist" /\ UNCHANGED <<lines, torn, kind, feed, cycle>> /\ pc' \in {"persist", "idle"}
        /\ \/ files' = files \/ files' = files \cup {"config"}
           \/ Unwritten # {} /\ files' = files \cup {Outputs[Min(Unwritten)]}
    BY <1>8 DEF Persist, WriteFile
  <2>2. Audited'
    BY <2>1, SameAudited DEF OutputsInv
  <2>3. CASE files' = files
    BY <1>1, <2>1, <2>3
  <2>4. CASE files' = files \cup {"config"}
    <3>1. Written' = Written
      BY <2>4, WrittenBy, OutputsAssumption
    <3> QED
      BY <2>1, <2>2, <3>1 DEF OutputsInv
  <2>5. CASE Unwritten # {} /\ files' = files \cup {Outputs[Min(Unwritten)]}
    <3> DEFINE k == Min(Unwritten)
    <3>1. k \in Unwritten /\ \A n \in Unwritten : k <= n
      BY <2>5, NextOutput
    <3> HIDE DEF k
    <3>2. DOMAIN Outputs = 1..Len(Outputs) /\ Len(Outputs) \in Nat
      BY OutputsAssumption
    <3>3. k \in DOMAIN Outputs /\ Written = DOMAIN Outputs \ Unwritten
      BY <3>1 DEF Unwritten, Written
    <3>4. Written' = Written \cup {k}
      BY <2>5, <3>3, WrittenBy DEF k
    <3>5. \A m \in 1..k : m # k => m \in Written
      BY <3>1, <3>2, <3>3
    <3>6. \A n \in Written' : \A m \in 1..n : m \in Written'
      BY <3>4, <3>5 DEF OutputsInv
    <3> QED
      BY <2>1, <2>2, <3>6 DEF OutputsInv
  <2> QED
    BY <2>1, <2>3, <2>4, <2>5
<1>9. CASE Crash \/ Signal \/ StepBack
  <2>1. /\ UNCHANGED <<files, lines, kind, feed, cycle>>
        /\ pc' \in {pc, "idle"} \/ (pc \in {"capture", "wait"} /\ pc' # "persist")
        /\ torn' = torn \/ pc \in Storing
    <3> DEFINE dies == /\ UNCHANGED <<files, lines, kind, feed, cycle>> /\ pc' = "idle"
                       /\ torn' = torn \/ pc \in Storing
    <3>1. Die => dies
      <4>1. torn \in BOOLEAN
        BY DEF SessionInv, SessionTyped
      <4>2. pc \notin Storing => (torn \/ pc \in Storing) = torn
        BY <4>1
      <4> QED
        BY <4>2 DEF Die
    <3>2. Crash => dies
      BY <3>1 DEF Crash
    <3>3. StepBack => UNCHANGED <<files, lines, kind, feed, cycle, pc, torn>>
      BY DEF StepBack
    <3>4. Signal => \/ dies
                    \/ UNCHANGED <<files, lines, kind, feed, cycle, pc, torn>>
                    \/ /\ UNCHANGED <<files, lines, kind, feed, cycle, torn>>
                       /\ pc \in {"capture", "wait"} /\ pc' = "final"
      BY <3>1 DEF Signal, Listens, AfterSignal
    <3> QED
      BY <1>9, <3>2, <3>3, <3>4
  <2>2. CASE torn' = torn
    BY <1>1, <2>1, <2>2
  <2>3. CASE pc \in Storing
    <3>1. pc \notin {"idle", "persist"} /\ pc' # "persist"
      BY <2>1, <2>3 DEF Storing
    <3> QED
      BY <1>2, <2>1, <3>1, SameWritten
  <2> QED
    BY <2>1, <2>2, <2>3
<1> QED
  BY <1>3, <1>4, <1>5, <1>6, <1>7, <1>8, <1>9 DEF Next, SessionStep

LEMMA OutputsGiveReport == SessionInv /\ OutputsInv => ReportIsAudited
<1> SUFFICES ASSUME SessionInv, OutputsInv, Outputs[Len(Outputs)] \in files
             PROVE  /\ Range(Outputs) \subseteq files /\ ReplayVerdict(lines, torn) = "deterministic"
                    /\ FedAsConfigured
  BY DEF ReportIsAudited
<1>1. DOMAIN Outputs = 1..Len(Outputs) /\ Len(Outputs) \in Nat \ {0}
  BY OutputsAssumption
<1>2. Len(Outputs) \in Written
  BY <1>1 DEF Written
<1>3. \A m \in 1..Len(Outputs) : m \in Written
  BY <1>2 DEF OutputsInv
<1>4. Range(Outputs) \subseteq files
  BY <1>1, <1>3 DEF Range, Written
<1>5. Audited
  BY <1>2 DEF OutputsInv
<1> QED
  BY <1>4, <1>5 DEF Audited, ReplayVerdict

(* The order of the file, while the clock goes forward: every rank has its *)
(* line, the inputs are stamped before the clock, the paper events before  *)
(* the stamp of the next one, and what is recorded begins what is          *)
(* generated.                                                              *)
Papers == Cardinality(Paper(lines))
Trades == Cardinality(Trading(lines))
LinesOrdered ==
  /\ Placed(lines, Paper(lines)) /\ Placed(lines, Trading(lines))
  /\ \A n \in Inputs(lines) : lines[n].mono < clock
  /\ \A n \in Paper(lines) : lines[n].mono < clock + Papers
  /\ Papers <= Trades
  /\ \A k \in 1..Papers : Recorded(lines)[k] = Generated(lines)[k]

(* What waits to be stored comes after what is.                            *)
InputsAwait ==
  pc \in {"store.markets", "store.events", "store.fixture"} =>
    \A i \in 1..Len(pending) :
      /\ pending[i].source # "paper" /\ pending[i].mono < clock + i
      /\ \A n \in Inputs(lines) : lines[n].mono < pending[i].mono
      /\ \A j \in 1..(i - 1) : pending[j].mono < pending[i].mono
MarketsAwait == pc = "store.markets" => \A i \in 1..Len(pending) : pending[i].what = "quiet"
PapersAwait ==
  pc = "store.paper" =>
    /\ Len(pending) = Trades - Papers
    /\ \A i \in 1..Len(pending) :
         /\ pending[i].source = "paper" /\ pending[i].mono = Papers + i - 1
         /\ pending[i].what = Generated(lines)[Papers + i]

(* Between the cycles, nothing generated is missing.                       *)
Settled ==
  pc \in {"store.markets", "cycle", "wait"} \/ (pc = "final" /\ signal # "heard") => Papers = Trades

Ordered == LinesOrdered /\ InputsAwait /\ MarketsAwait /\ PapersAwait /\ Settled
OrderInv == stepped = 0 => Ordered

LEMMA EmptyFile ==
  /\ Paper(<< >>) = {} /\ Inputs(<< >>) = {} /\ Trading(<< >>) = {}
  /\ Cardinality(Paper(<< >>)) = 0 /\ Cardinality(Trading(<< >>)) = 0
  /\ Placed(<< >>, Paper(<< >>)) /\ Placed(<< >>, Trading(<< >>))
<1>1. Paper(<< >>) = {} /\ Inputs(<< >>) = {} /\ Trading(<< >>) = {}
  BY DEF Paper, Inputs, Trading
<1>2. Cardinality({}) = 0
  BY FS_EmptySet
<1>3. Placed(<< >>, {})
  BY <1>2 DEF Placed
<1> QED
  BY <1>1, <1>2, <1>3

LEMMA Stamped ==
  ASSUME NEW ls \in Seq(Lines), NEW n \in DOMAIN ls
  PROVE  ls[n].mono \in Nat
<1>1. ls[n] \in Lines
  OBVIOUS
<1> QED
  BY <1>1 DEF Lines

LEMMA Appended ==
  ASSUME NEW ls \in Seq(Lines), NEW line \in Lines
  PROVE  /\ Append(ls, line)[Len(ls) + 1] = line
         /\ \A n \in DOMAIN ls : Append(ls, line)[n] = ls[n]
         /\ \A n \in DOMAIN ls : ls[n].mono \in Nat
<1>1. \A n \in DOMAIN ls : ls[n].mono \in Nat
  BY Stamped
<1>2. /\ Append(ls, line)[Len(ls) + 1] = line
      /\ \A n \in DOMAIN ls : Append(ls, line)[n] = ls[n]
  OBVIOUS
<1> QED
  BY <1>1, <1>2

LEMMA OrderInvInit == Init => OrderInv
<1> SUFFICES ASSUME Init PROVE OrderInv
  OBVIOUS
<1>1. lines = << >> /\ pc = "idle" /\ clock = 1
  BY DEF Init
<1>2. Papers = 0 /\ Trades = 0 /\ Inputs(lines) = {} /\ Paper(lines) = {}
  BY <1>1, EmptyFile DEF Papers, Trades
<1>3. Placed(lines, Paper(lines)) /\ Placed(lines, Trading(lines))
  BY <1>1, EmptyFile
<1> QED
  BY <1>1, <1>2, <1>3 DEF OrderInv, Ordered, LinesOrdered, InputsAwait, MarketsAwait, PapersAwait, Settled

LEMMA Counted ==
  lines \in Seq(Lines) => Papers \in Nat /\ Trades \in Nat
BY PlacesFinite DEF Papers, Trades

(* Steps that leave the file alone. *)
LEMMA LinesStayOrdered ==
  ASSUME lines \in Seq(Lines), LinesOrdered, UNCHANGED lines,
         clock \in Nat, clock' \in Nat, clock' >= clock
  PROVE  LinesOrdered' /\ Papers' = Papers /\ Trades' = Trades
<1>1. Papers' = Papers /\ Trades' = Trades /\ Papers \in Nat
  BY Counted DEF Papers, Trades
<1>2. \A n \in Inputs(lines) : lines[n].mono \in Nat
  BY Stamped DEF Inputs
<1>3. \A n \in Paper(lines) : lines[n].mono \in Nat
  BY Stamped DEF Paper
<1>4. \A n \in Inputs(lines) : lines[n].mono < clock'
  BY <1>2 DEF LinesOrdered
<1>5. \A n \in Paper(lines) : lines[n].mono < clock' + Papers
  BY <1>1, <1>3 DEF LinesOrdered
<1> QED
  BY <1>1, <1>4, <1>5 DEF LinesOrdered

LEMMA InputStored ==
  ASSUME lines \in Seq(Lines), LinesOrdered, NEW line \in Lines, line.source # "paper",
         \A n \in Inputs(lines) : lines[n].mono < line.mono,
         clock \in Nat, line.mono < clock + 1, clock' = clock + 1, lines' = Append(lines, line)
  PROVE  /\ LinesOrdered' /\ Papers' = Papers
         /\ Inputs(lines)' = Inputs(lines) \cup {Len(lines) + 1} /\ lines'[Len(lines) + 1] = line
         /\ line.what # "trading" => Trades' = Trades
<1> DEFINE more == Append(lines, line)
           new == Len(lines) + 1
<1>1. /\ Placed(more, Paper(more)) /\ Placed(more, Trading(more))
      /\ Paper(more) = Paper(lines) /\ Inputs(more) = Inputs(lines) \cup {new}
      /\ Trades \in Nat
      /\ Cardinality(Trading(more)) = Trades + (IF line.what = "trading" THEN 1 ELSE 0)
      /\ \A k \in 1..Trades : Generated(more)[k] = Generated(lines)[k]
      /\ Recorded(more) = Recorded(lines)
  BY InputGrows DEF LinesOrdered, Trades
<1>2. /\ more[new] = line /\ \A n \in DOMAIN lines : more[n] = lines[n]
      /\ \A n \in DOMAIN lines : lines[n].mono \in Nat
  BY Appended
<1>3. lines' = more
  OBVIOUS
<1> HIDE DEF more, new
<1>4. Papers' = Papers /\ Papers \in Nat /\ Trades' = Trades + (IF line.what = "trading" THEN 1 ELSE 0)
  BY <1>1, <1>3, Counted DEF Papers, Trades
<1>5. line.mono \in Nat
  BY DEF Lines
<1>6. \A n \in Inputs(more) : more[n].mono < clock'
  <2> SUFFICES ASSUME NEW n \in Inputs(more) PROVE more[n].mono < clock'
    OBVIOUS
  <2>1. CASE n = new
    BY <1>2, <2>1
  <2>2. CASE n # new
    <3>1. n \in Inputs(lines) /\ n \in DOMAIN lines
      BY <1>1, <2>2 DEF Inputs
    <3>2. lines[n].mono < clock /\ lines[n].mono \in Nat /\ more[n] = lines[n]
      BY <1>2, <3>1 DEF LinesOrdered
    <3> QED
      BY <3>2
  <2> QED
    BY <2>1, <2>2
<1>7. \A n \in Paper(more) : more[n].mono < clock' + Papers
  <2> SUFFICES ASSUME NEW n \in Paper(lines) PROVE more[n].mono < clock' + Papers
    BY <1>1
  <2>1. n \in DOMAIN lines
    BY DEF Paper
  <2>2. lines[n].mono < clock + Papers /\ lines[n].mono \in Nat /\ more[n] = lines[n]
    BY <1>2, <2>1 DEF LinesOrdered
  <2> QED
    BY <1>4, <2>2
<1>8. Papers <= Trades /\ Papers <= Trades'
  BY <1>1, <1>4 DEF LinesOrdered
<1>9. \A k \in 1..Papers : Recorded(more)[k] = Generated(more)[k]
  <2> SUFFICES ASSUME NEW k \in 1..Papers PROVE Recorded(more)[k] = Generated(more)[k]
    OBVIOUS
  <2>1. k \in 1..Trades
    BY <1>1, <1>4, <1>8
  <2> QED
    BY <1>1, <2>1 DEF LinesOrdered
<1>10. LinesOrdered'
  BY <1>1, <1>3, <1>4, <1>6, <1>7, <1>8, <1>9 DEF LinesOrdered
<1> QED
  BY <1>1, <1>2, <1>3, <1>4, <1>10 DEF new

LEMMA PaperStored ==
  ASSUME lines \in Seq(Lines), LinesOrdered, NEW line \in Lines, line.source = "paper",
         line.mono = clock + Papers, Papers < Trades, line.what = Generated(lines)[Papers + 1],
         clock \in Nat, clock' = clock + 1, lines' = Append(lines, line)
  PROVE  /\ LinesOrdered' /\ Papers' = Papers + 1 /\ Trades' = Trades
         /\ Generated(lines)' = Generated(lines)
<1> DEFINE more == Append(lines, line)
           new == Len(lines) + 1
<1>1. /\ Placed(more, Paper(more)) /\ Placed(more, Trading(more))
      /\ Inputs(more) = Inputs(lines) /\ Trading(more) = Trading(lines)
      /\ Paper(more) = Paper(lines) \cup {new}
      /\ Papers \in Nat /\ Cardinality(Paper(more)) = Papers + 1
      /\ \A k \in 1..Papers : Recorded(more)[k] = Recorded(lines)[k]
      /\ Recorded(more)[Papers + 1] = line.what
      /\ Generated(more) = Generated(lines)
  BY PaperGrows DEF LinesOrdered, Papers
<1>2. /\ more[new] = line /\ \A n \in DOMAIN lines : more[n] = lines[n]
      /\ \A n \in DOMAIN lines : lines[n].mono \in Nat
  BY Appended
<1>3. lines' = more
  OBVIOUS
<1> HIDE DEF more, new
<1>4. Papers' = Papers + 1 /\ Trades' = Trades /\ Trades \in Nat
  BY <1>1, <1>3, Counted DEF Papers, Trades
<1>6. \A n \in Inputs(more) : more[n].mono < clock'
  <2> SUFFICES ASSUME NEW n \in Inputs(lines) PROVE more[n].mono < clock'
    BY <1>1
  <2>1. n \in DOMAIN lines
    BY DEF Inputs
  <2>2. lines[n].mono < clock /\ lines[n].mono \in Nat /\ more[n] = lines[n]
    BY <1>2, <2>1 DEF LinesOrdered
  <2> QED
    BY <2>2
<1>7. \A n \in Paper(more) : more[n].mono < clock' + (Papers + 1)
  <2> SUFFICES ASSUME NEW n \in Paper(more) PROVE more[n].mono < clock' + (Papers + 1)
    OBVIOUS
  <2>1. CASE n = new
    BY <1>1, <1>2, <2>1
  <2>2. CASE n # new
    <3>1. n \in Paper(lines) /\ n \in DOMAIN lines
      BY <1>1, <2>2 DEF Paper
    <3>2. lines[n].mono < clock + Papers /\ lines[n].mono \in Nat /\ more[n] = lines[n]
      BY <1>2, <3>1 DEF LinesOrdered
    <3> QED
      BY <1>1, <3>2
  <2> QED
    BY <2>1, <2>2
<1>8. Papers + 1 <= Trades
  BY <1>1, <1>4
<1>9. \A k \in 1..(Papers + 1) : Recorded(more)[k] = Generated(more)[k]
  <2> SUFFICES ASSUME NEW k \in 1..(Papers + 1) PROVE Recorded(more)[k] = Generated(more)[k]
    OBVIOUS
  <2>1. k \in 1..Papers \/ k = Papers + 1
    BY <1>1
  <2> QED
    BY <1>1, <2>1 DEF LinesOrdered
<1>10. LinesOrdered'
  BY <1>1, <1>3, <1>4, <1>6, <1>7, <1>8, <1>9 DEF LinesOrdered
<1> QED
  BY <1>1, <1>3, <1>4, <1>10

LEMMA InputStoreKeepsOrder ==
  ASSUME SessionInv, Ordered, pc \in {"store.markets", "store.events", "store.fixture"},
         pending # << >>, lines' = Append(lines, Stored(Head(pending))), clock' = clock + 1,
         pc' = "idle" \/ (pc' = pc /\ pending' = Tail(pending))
  PROVE  Ordered'
<1> DEFINE line == Stored(Head(pending))
           new == Len(lines) + 1
<1>1. /\ pending \in Seq(Lines) /\ lines \in Seq(Lines) /\ clock \in Nat \ {0}
  BY DEF SessionInv, SessionTyped
<1>2. /\ Head(pending) \in Lines /\ Head(pending) = pending[1] /\ Len(pending) \in Nat \ {0}
      /\ Len(Tail(pending)) = Len(pending) - 1
      /\ \A i \in 1..Len(Tail(pending)) : Tail(pending)[i] = pending[i + 1]
  BY <1>1, Stepwise
<1>3. 1 \in 1..Len(pending)
  BY <1>2
<1>4. /\ pending[1].source # "paper" /\ pending[1].mono < clock + 1
      /\ \A n \in Inputs(lines) : lines[n].mono < pending[1].mono
  BY <1>3 DEF Ordered, InputsAwait
<1>5. /\ line \in Lines /\ line.source # "paper" /\ line.mono = pending[1].mono
      /\ line.what = pending[1].what
  BY <1>1, <1>2, <1>4, StoredIs
<1>6. lines' = Append(lines, line)
  OBVIOUS
<1> HIDE DEF line
<1>7. /\ LinesOrdered' /\ Papers' = Papers
      /\ Inputs(lines)' = Inputs(lines) \cup {new} /\ lines'[new] = line
      /\ line.what # "trading" => Trades' = Trades
  BY <1>1, <1>4, <1>5, <1>6, InputStored DEF Ordered
<1>8. \A n \in DOMAIN lines : lines'[n] = lines[n]
  BY <1>1, <1>5, <1>6, Appended
<1>9. CASE pc' = "idle"
  BY <1>7, <1>9 DEF Ordered, InputsAwait, MarketsAwait, PapersAwait, Settled
<1>10. CASE pc' = pc /\ pending' = Tail(pending)
  <2>1. \A i \in 1..Len(pending') :
          /\ pending'[i] = pending[i + 1] /\ i + 1 \in 1..Len(pending) /\ i \in Nat
          /\ 1 \in 1..((i + 1) - 1)
    BY <1>2, <1>10
  <2>2. InputsAwait'
    <3> SUFFICES ASSUME NEW i \in 1..Len(pending')
                 PROVE  /\ pending'[i].source # "paper" /\ pending'[i].mono < clock' + i
                        /\ \A n \in Inputs(lines)' : lines'[n].mono < pending'[i].mono
                        /\ \A j \in 1..(i - 1) : pending'[j].mono < pending'[i].mono
      BY DEF InputsAwait
    <3>1. /\ pending[i + 1].source # "paper" /\ pending[i + 1].mono < clock + (i + 1)
          /\ \A n \in Inputs(lines) : lines[n].mono < pending[i + 1].mono
          /\ \A j \in 1..((i + 1) - 1) : pending[j].mono < pending[i + 1].mono
      BY <2>1 DEF Ordered, InputsAwait
    <3>2. pending'[i] = pending[i + 1] /\ i \in Nat
      BY <2>1
    <3>3. pending'[i].mono < clock' + i
      <4>1. clock + (i + 1) = clock' + i
        BY <1>1, <3>2
      <4> QED
        BY <3>1, <3>2, <4>1
    <3>4. pending[1].mono < pending[i + 1].mono
      BY <2>1, <3>1
    <3>5. \A n \in Inputs(lines)' : lines'[n].mono < pending'[i].mono
      <4> SUFFICES ASSUME NEW n \in Inputs(lines)' PROVE lines'[n].mono < pending'[i].mono
        OBVIOUS
      <4>1. CASE n = new
        BY <1>5, <1>7, <3>2, <3>4, <4>1
      <4>2. CASE n # new
        <5>1. n \in Inputs(lines) /\ n \in DOMAIN lines
          BY <1>7, <4>2 DEF Inputs
        <5> QED
          BY <1>8, <3>1, <3>2, <5>1
      <4> QED
        BY <4>1, <4>2
    <3>6. \A j \in 1..(i - 1) : pending'[j].mono < pending'[i].mono
      <4> SUFFICES ASSUME NEW j \in 1..(i - 1) PROVE pending'[j].mono < pending'[i].mono
        OBVIOUS
      <4>1. j \in 1..Len(pending') /\ j + 1 \in 1..((i + 1) - 1)
        BY <1>2, <1>10, <3>2
      <4>2. pending'[j] = pending[j + 1]
        BY <2>1, <4>1
      <4> QED
        BY <3>1, <3>2, <4>1, <4>2
    <3> QED
      BY <3>1, <3>2, <3>3, <3>5, <3>6
  <2>3. MarketsAwait' /\ Settled'
    <3>1. CASE pc = "store.markets"
      <4>1. \A i \in 1..Len(pending) : pending[i].what = "quiet"
        BY <3>1 DEF Ordered, MarketsAwait
      <4>2. \A i \in 1..Len(pending') : pending'[i].what = "quiet"
        BY <2>1, <4>1
      <4>3. line.what # "trading"
        BY <1>3, <1>5, <4>1
      <4>4. Papers' = Trades'
        BY <1>7, <3>1, <4>3 DEF Ordered, Settled
      <4> QED
        BY <4>2, <4>4 DEF MarketsAwait, Settled
    <3>2. CASE pc \in {"store.events", "store.fixture"}
      BY <1>10, <3>2 DEF MarketsAwait, Settled
    <3> QED
      BY <3>1, <3>2
  <2>4. PapersAwait'
    BY <1>10 DEF PapersAwait
  <2> QED
    BY <1>7, <2>2, <2>3, <2>4 DEF Ordered
<1> QED
  BY <1>9, <1>10

LEMMA PaperStoreKeepsOrder ==
  ASSUME SessionInv, Ordered, pc = "store.paper",
         pending # << >>, lines' = Append(lines, Stored(Head(pending))), clock' = clock + 1,
         pc' = "idle" \/ (pc' = pc /\ pending' = Tail(pending))
  PROVE  Ordered'
<1> DEFINE line == Stored(Head(pending))
<1>1. /\ pending \in Seq(Lines) /\ lines \in Seq(Lines) /\ clock \in Nat \ {0}
  BY DEF SessionInv, SessionTyped
<1>2. /\ Head(pending) \in Lines /\ Head(pending) = pending[1] /\ Len(pending) \in Nat \ {0}
      /\ Len(Tail(pending)) = Len(pending) - 1
      /\ \A i \in 1..Len(Tail(pending)) : Tail(pending)[i] = pending[i + 1]
  BY <1>1, Stepwise
<1>3. 1 \in 1..Len(pending) /\ Papers \in Nat /\ Trades \in Nat
  BY <1>1, <1>2, Counted
<1>4. /\ Len(pending) = Trades - Papers
      /\ \A i \in 1..Len(pending) :
           /\ pending[i].source = "paper" /\ pending[i].mono = Papers + i - 1
           /\ pending[i].what = Generated(lines)[Papers + i]
  BY DEF Ordered, PapersAwait
<1>5. /\ line \in Lines /\ line.source = "paper" /\ line.mono = clock + Papers
      /\ line.what = Generated(lines)[Papers + 1]
  <2>1. /\ pending[1].source = "paper" /\ pending[1].mono = Papers + 1 - 1
        /\ pending[1].what = Generated(lines)[Papers + 1]
    BY <1>3, <1>4
  <2>2. /\ line \in Lines /\ line.source = "paper" /\ line.mono = clock + pending[1].mono
        /\ line.what = pending[1].what
    BY <1>1, <1>2, <2>1, StoredIs
  <2> QED
    BY <1>3, <2>1, <2>2
<1>6. lines' = Append(lines, line) /\ Papers < Trades
  BY <1>2, <1>3, <1>4
<1> HIDE DEF line
<1>7. /\ LinesOrdered' /\ Papers' = Papers + 1 /\ Trades' = Trades
      /\ Generated(lines)' = Generated(lines)
  BY <1>1, <1>5, <1>6, PaperStored DEF Ordered
<1>8. CASE pc' = "idle"
  BY <1>7, <1>8 DEF Ordered, InputsAwait, MarketsAwait, PapersAwait, Settled
<1>9. CASE pc' = pc /\ pending' = Tail(pending)
  <2>1. Len(pending') = Trades' - Papers'
    BY <1>2, <1>3, <1>4, <1>7, <1>9
  <2>2. ASSUME NEW i \in 1..Len(pending')
        PROVE  /\ pending'[i].source = "paper" /\ pending'[i].mono = Papers' + i - 1
               /\ pending'[i].what = Generated(lines)'[Papers' + i]
    <3>1. i + 1 \in 1..Len(pending) /\ i \in Nat /\ pending'[i] = pending[i + 1]
      BY <1>2, <1>9
    <3>2. /\ pending'[i].source = "paper" /\ pending'[i].mono = Papers + (i + 1) - 1
          /\ pending'[i].what = Generated(lines)[Papers + (i + 1)]
      BY <1>4, <3>1
    <3>3. Papers + (i + 1) = Papers' + i /\ Papers + (i + 1) - 1 = Papers' + i - 1
      BY <1>3, <1>7, <3>1
    <3>4. Generated(lines)'[Papers' + i] = Generated(lines)[Papers + (i + 1)]
      BY <1>7, <3>3
    <3> QED
      BY <3>2, <3>3, <3>4
  <2>3. PapersAwait'
    BY <2>1, <2>2 DEF PapersAwait
  <2>4. InputsAwait' /\ MarketsAwait' /\ Settled'
    BY <1>9 DEF InputsAwait, MarketsAwait, Settled
  <2> QED
    BY <1>7, <2>3, <2>4 DEF Ordered
<1> QED
  BY <1>8, <1>9

(* Time is only set back by a step of its own. *)
LEMMA OnlyStepBack ==
  [Next]_vars => UNCHANGED stepped \/ StepBack
<1> USE DEF Goto, End, Decides, captureVars, outsideVars
<1>1. Start \/ WriteConfig \/ Discover \/ CycleHead => UNCHANGED stepped
  BY DEF Start, WriteConfig, WriteFile, Discover, CycleHead
<1>2. AppendLine => UNCHANGED stepped
  BY DEF AppendLine, StoreNext, Then
<1>3. Fetch \/ Connect \/ ReadFrame \/ ReadFails \/ Fixture \/ Wait \/ FinalCheck => UNCHANGED stepped
  BY DEF Fetch, Connect, ReadFrame, ReadFails, Fixture, Wait, FinalCheck
<1>4. RecordMessage \/ CaptureDone => UNCHANGED stepped
  BY DEF RecordMessage, CaptureDone
<1>5. Replay => UNCHANGED stepped
  BY DEF Replay
<1>6. Persist => UNCHANGED stepped
  BY DEF Persist, WriteFile
<1>7. Crash \/ Signal => UNCHANGED stepped
  BY DEF Crash, Signal, Die
<1> QED
  BY <1>1, <1>2, <1>3, <1>4, <1>5, <1>6, <1>7 DEF Next, SessionStep, vars

LEMMA DiscoverKeepsOrder == SessionInv /\ Ordered /\ Discover => Ordered'
<1> SUFFICES ASSUME SessionInv, Ordered, Discover PROVE Ordered'
  OBVIOUS
<1>1. /\ lines = << >> /\ UNCHANGED lines /\ lines \in Seq(Lines) /\ clock \in Nat \ {0}
      /\ \/ pending' = MarketLines /\ clock' = clock + Len(MarketLines) /\ pc' = "store.markets"
         \/ pc' = "idle" /\ clock' = clock
  BY DEF Discover, Decides, Goto, End, SessionInv, SessionTyped, SessionPlaced
<1>2. /\ MarketLines \in Seq(Lines) /\ Len(MarketLines) \in Nat
      /\ \A n \in 1..Len(MarketLines) :
           /\ MarketLines[n].mono = clock + n - 1 /\ MarketLines[n].source = "discovery"
           /\ MarketLines[n].what = "quiet"
  BY <1>1, MarketLinesAre
<1>3. LinesOrdered' /\ Papers' = Papers /\ Trades' = Trades
  <2>1. clock \in Nat /\ clock' \in Nat /\ clock' >= clock
    BY <1>1, <1>2
  <2> QED
    BY <1>1, <2>1, LinesStayOrdered DEF Ordered
<1>4. Papers = 0 /\ Trades = 0 /\ Inputs(lines)' = {}
  BY <1>1, EmptyFile DEF Papers, Trades
<1>5. CASE pc' = "idle"
  BY <1>3, <1>5 DEF Ordered, InputsAwait, MarketsAwait, PapersAwait, Settled
<1>6. CASE pc' # "idle"
  <2>1. pending' = MarketLines /\ clock' = clock + Len(MarketLines) /\ pc' = "store.markets"
    BY <1>1, <1>6
  <2>2. ASSUME NEW i \in 1..Len(MarketLines)
        PROVE  /\ MarketLines[i].source # "paper" /\ MarketLines[i].mono < clock' + i
               /\ MarketLines[i].what = "quiet"
               /\ \A j \in 1..(i - 1) : MarketLines[j].mono < MarketLines[i].mono
    <3>1. \A j \in 1..(i - 1) : j \in 1..Len(MarketLines) /\ clock + j - 1 < clock + i - 1
      BY <1>1, <1>2
    <3>2. clock + i - 1 < clock' + i
      BY <1>1, <1>2, <2>1
    <3> QED
      BY <1>2, <3>1, <3>2
  <2>3. InputsAwait' /\ MarketsAwait'
    BY <1>4, <2>1, <2>2 DEF InputsAwait, MarketsAwait
  <2>4. PapersAwait' /\ Settled'
    BY <1>3, <1>4, <2>1 DEF PapersAwait, Settled
  <2> QED
    BY <1>3, <2>3, <2>4 DEF Ordered
<1> QED
  BY <1>5, <1>6

LEMMA FixtureKeepsOrder == SessionInv /\ Ordered /\ Fixture => Ordered'
<1> SUFFICES ASSUME SessionInv, Ordered, Fixture PROVE Ordered'
  OBVIOUS
<1>1. /\ lines = << >> /\ UNCHANGED lines /\ lines \in Seq(Lines) /\ clock \in Nat \ {0}
      /\ pending' = FixtureLines /\ clock' = clock /\ pc' = "store.fixture"
  BY DEF Fixture, Decides, Goto, SessionInv, SessionTyped, SessionPlaced
<1>2. LinesOrdered'
  <2>1. clock \in Nat /\ clock' \in Nat /\ clock' >= clock
    BY <1>1
  <2> QED
    BY <1>1, <2>1, LinesStayOrdered DEF Ordered
<1>3. Inputs(lines)' = {}
  BY <1>1, EmptyFile
<1>4. \A i \in 1..Len(pending') :
        /\ pending'[i].source # "paper" /\ pending'[i].mono < clock' + i
        /\ \A j \in 1..(i - 1) : pending'[j].mono < pending'[i].mono
  <2>1. Len(FixtureLines) = 3
    BY FixtureLinesAre
  <2> SUFFICES ASSUME NEW i \in 1..3
               PROVE  /\ FixtureLines[i].source # "paper" /\ FixtureLines[i].mono < clock' + i
                      /\ \A j \in 1..(i - 1) : FixtureLines[j].mono < FixtureLines[i].mono
    BY <1>1, <2>1
  <2>2. \A n \in 1..3 : FixtureLines[n].mono = n /\ FixtureLines[n].source = "fixture"
    BY FixtureLinesAre
  <2>3. \A j \in 1..(i - 1) : j \in 1..3 /\ j < i
    OBVIOUS
  <2> QED
    BY <1>1, <2>2, <2>3
<1> QED
  BY <1>1, <1>2, <1>3, <1>4 DEF Ordered, InputsAwait, MarketsAwait, PapersAwait, Settled

LEMMA RecordKeepsOrder ==
  SessionInv /\ Ordered /\ RecordMessage => Ordered'
<1> SUFFICES ASSUME SessionInv, Ordered, RecordMessage PROVE Ordered'
  OBVIOUS
<1> DEFINE new == Batch(Captures[at].source, Head(batch))
<1>1. /\ pc = "record" /\ UNCHANGED lines /\ lines \in Seq(Lines) /\ clock \in Nat \ {0}
      /\ cycle \in Nat /\ at \in 1..Len(Captures)
      /\ batch # << >> /\ batch \in Seq(Messages)
      /\ \/ /\ \E what \in {"trading", "quiet"} : pending' = EventLines(new.events, what)
            /\ clock' = clock + 1 /\ pc' = "store.events"
         \/ pc' = "idle" /\ clock' = clock
  BY DEF RecordMessage, Goto, End, SessionInv, SessionTyped, SessionPlaced
<1>2. LinesOrdered' /\ Papers' = Papers /\ Trades' = Trades
  <2>1. clock \in Nat /\ clock' \in Nat /\ clock' >= clock
    BY <1>1
  <2> QED
    BY <1>1, <2>1, LinesStayOrdered DEF Ordered
<1>3. CASE pc' = "idle"
  BY <1>2, <1>3 DEF Ordered, InputsAwait, MarketsAwait, PapersAwait, Settled
<1>4. CASE pc' # "idle"
  <2>1. Head(batch) \in Messages
    BY <1>1, Stepwise
  <2> DEFINE count == new.events
  <2>2. count \in Nat
    BY <2>1, BatchTyped
  <2>3. clock' = clock + 1 /\ pc' = "store.events"
    BY <1>1, <1>4
  <2>4. PICK what \in {"trading", "quiet"} : pending' = EventLines(count, what)
    BY <1>1, <1>4
  <2> HIDE DEF count
  <2>5. /\ Len(pending') = count
        /\ \A n \in 1..count : /\ pending'[n].mono = clock + n - 1
                               /\ pending'[n].source = Captures[at].source
                               /\ Captures[at].source # "paper"
    <3>1. /\ Len(EventLines(count, what)) = count
          /\ \A n \in 1..count :
               /\ EventLines(count, what)[n].mono = clock + n - 1
               /\ EventLines(count, what)[n].source = Captures[at].source
      BY <1>1, <2>2, EventLinesAre
    <3> QED
      BY <1>1, <2>4, <3>1, CapturedFrom DEF CaptureSources
  <2>6. ASSUME NEW i \in 1..count
        PROVE  /\ pending'[i].source # "paper" /\ pending'[i].mono < clock' + i
               /\ \A n \in Inputs(lines)' : lines'[n].mono < pending'[i].mono
               /\ \A j \in 1..(i - 1) : pending'[j].mono < pending'[i].mono
    <3>1. \A j \in 1..(i - 1) : j \in 1..count /\ clock + j - 1 < clock + i - 1
      BY <1>1, <2>2
    <3>2. clock + i - 1 < clock' + i /\ clock <= clock + i - 1
      BY <1>1, <2>2, <2>3
    <3>3. \A n \in Inputs(lines) : lines[n].mono < clock /\ lines[n].mono \in Nat
      <4>1. Inputs(lines) \subseteq DOMAIN lines
        BY DEF Inputs
      <4> QED
        BY <1>1, <4>1, Stamped DEF Ordered, LinesOrdered
    <3>4. \A n \in Inputs(lines) : lines[n].mono < clock + i - 1
      BY <1>1, <3>2, <3>3
    <3> QED
      BY <1>1, <2>5, <3>1, <3>2, <3>4
  <2>7. InputsAwait'
    BY <2>5, <2>6 DEF InputsAwait
  <2> QED
    BY <1>2, <2>3, <2>7 DEF Ordered, MarketsAwait, PapersAwait, Settled
<1> QED
  BY <1>3, <1>4

LEMMA ReplayKeepsOrder ==
  SessionInv /\ Ordered /\ Replay => Ordered' /\ ended' = ended
<1> SUFFICES ASSUME SessionInv, Ordered, Replay PROVE Ordered' /\ ended' = ended
  OBVIOUS
<1>1. /\ lines \in Seq(Lines) /\ UNCHANGED <<lines, clock>> /\ clock \in Nat
  BY DEF Replay, Decides, SessionInv, SessionTyped
<1>2. LinesOrdered' /\ Papers' = Papers /\ Trades' = Trades
  <2>1. clock' \in Nat /\ clock' >= clock
    BY <1>1
  <2> QED
    BY <1>1, <2>1, LinesStayOrdered DEF Ordered
<1>3. IsPrefix(Recorded(lines), Generated(lines)) /\ Papers <= Trades
  BY <1>1, PrefixIs DEF Ordered, LinesOrdered, Papers, Trades
<1>4. /\ pc' = "store.paper" /\ ended' = ended
      /\ pending' = Missing(Recorded(lines), Generated(lines))
  BY <1>3 DEF Replay, Goto, End
<1>5. /\ Len(pending') = Trades - Papers
      /\ \A n \in 1..(Trades - Papers) :
           /\ pending'[n].mono = Papers + n - 1 /\ pending'[n].source = "paper"
           /\ pending'[n].what = Generated(lines)[Papers + n]
  BY <1>1, <1>3, <1>4, MissingAre DEF Papers, Trades
<1>6. PapersAwait'
  BY <1>1, <1>2, <1>5 DEF PapersAwait
<1> QED
  BY <1>2, <1>4, <1>6 DEF Ordered, InputsAwait, MarketsAwait, Settled

LEMMA AppendKeepsOrder == SessionInv /\ Ordered /\ AppendLine => Ordered'
<1> SUFFICES ASSUME SessionInv, Ordered, AppendLine PROVE Ordered'
  OBVIOUS
<1>1. lines \in Seq(Lines) /\ clock \in Nat
  BY DEF SessionInv, SessionTyped
<1>2. CASE pc \in {"store.markets", "store.events", "store.paper", "store.fixture"} /\ StoreNext
  <2>1. /\ pending # << >> /\ clock' = clock + 1
        /\ pc' = "idle" \/ (pc' = pc /\ pending' = Tail(pending))
        /\ lines' = Append(lines, Stored(Head(pending))) \/ (pc' = "idle" /\ UNCHANGED lines)
    BY <1>2 DEF StoreNext, End
  <2>2. CASE lines' = Append(lines, Stored(Head(pending)))
    BY <1>2, <2>1, <2>2, InputStoreKeepsOrder, PaperStoreKeepsOrder
  <2>3. CASE pc' = "idle" /\ UNCHANGED lines
    <3>1. clock' \in Nat /\ clock' >= clock
      BY <1>1, <2>1
    <3>2. LinesOrdered'
      BY <1>1, <2>3, <3>1, LinesStayOrdered DEF Ordered
    <3> QED
      BY <2>3, <3>2 DEF Ordered, InputsAwait, MarketsAwait, PapersAwait, Settled
  <2> QED
    BY <2>1, <2>2, <2>3
<1>3. ASSUME NEW next, Then(next), next \in {"cycle", "record", "replay", "wait", "final"},
             next \in {"cycle", "wait", "final"} => Papers = Trades
      PROVE  Ordered'
  <2>1. UNCHANGED <<lines, clock>> /\ pc' = next
    BY <1>3 DEF Then, Goto, Decides
  <2>2. LinesOrdered' /\ Papers' = Papers /\ Trades' = Trades
    <3>1. clock' \in Nat /\ clock' >= clock
      BY <1>1, <2>1
    <3> QED
      BY <1>1, <2>1, <3>1, LinesStayOrdered DEF Ordered
  <2> QED
    BY <1>3, <2>1, <2>2 DEF Ordered, InputsAwait, MarketsAwait, PapersAwait, Settled
<1>4. CASE pc = "store.markets" /\ Then("cycle")
  BY <1>3, <1>4 DEF Ordered, Settled
<1>5. CASE pc = "store.events" /\ Then("record")
  BY <1>3, <1>5
<1>6. CASE pc = "store.fixture" /\ Then("replay")
  BY <1>3, <1>6
<1>7. CASE pc = "store.paper" /\ Then(AfterPaper)
  <2>1. AfterPaper \in {"cycle", "wait", "final"}
    BY DEF AfterPaper
  <2>2. Len(pending) = 0
    BY <1>7, EmptyIs DEF Then
  <2>3. Papers = Trades
    BY <1>1, <1>7, <2>2, Counted DEF Ordered, PapersAwait
  <2> QED
    BY <1>3, <1>7, <2>1, <2>3
<1> QED
  BY <1>2, <1>4, <1>5, <1>6, <1>7 DEF AppendLine

LEMMA OrderStep == SessionInv /\ OrderInv /\ [Next]_vars => OrderInv'
<1> SUFFICES ASSUME SessionInv, OrderInv, [Next]_vars, stepped' = 0 PROVE Ordered'
  BY DEF OrderInv
<1> USE DEF Goto, End, Decides, captureVars, outsideVars
<1>1. stepped = 0 /\ ~ StepBack
  <2>1. stepped \in Nat
    BY DEF SessionInv, SessionTyped
  <2>2. ~ StepBack
    BY <2>1 DEF StepBack
  <2> QED
    BY <2>2, OnlyStepBack
<1>2. Ordered
  BY <1>1 DEF OrderInv
<1>3. lines \in Seq(Lines) /\ clock \in Nat
  BY DEF SessionInv, SessionTyped
<1>4. ASSUME UNCHANGED <<lines, clock>>
      PROVE  LinesOrdered' /\ Papers' = Papers /\ Trades' = Trades
  <2>1. clock' \in Nat /\ clock' >= clock
    BY <1>3, <1>4
  <2> QED
    BY <1>2, <1>3, <1>4, <2>1, LinesStayOrdered DEF Ordered
<1>5. ASSUME UNCHANGED <<lines, clock>>, pc' \notin Storing,
             \/ pc' \notin {"cycle", "wait", "final"}
             \/ Papers = Trades
             \/ pc' = "final" /\ signal' = "heard"
      PROVE  Ordered'
  BY <1>4, <1>5 DEF Ordered, InputsAwait, MarketsAwait, PapersAwait, Settled, Storing
<1>6. ASSUME UNCHANGED <<lines, clock, pc, pending>>, signal' # "heard" => signal # "heard"
      PROVE  Ordered'
  BY <1>2, <1>4, <1>6 DEF Ordered, InputsAwait, MarketsAwait, PapersAwait, Settled
<1>7. CASE UNCHANGED vars
  BY <1>6, <1>7 DEF vars
<1>8. CASE Start \/ WriteConfig
  <2>1. UNCHANGED <<lines, clock>> /\ pc' \in {"config", "fixture", "discover", "idle"}
    BY <1>8 DEF Start, WriteConfig, WriteFile
  <2> QED
    BY <1>5, <2>1 DEF Storing
<1>9. CASE CycleHead \/ Wait
  <2>1. UNCHANGED <<lines, clock>> /\ pc' \in {"final", "capture", "cycle"} /\ pc \in {"cycle", "wait"}
    BY <1>9 DEF CycleHead, Wait
  <2>2. Papers = Trades
    BY <1>2, <2>1 DEF Ordered, Settled
  <2> QED
    BY <1>5, <2>1, <2>2 DEF Storing
<1>10. CASE Fetch \/ Connect \/ ReadFrame \/ ReadFails \/ CaptureDone
  <2>1. UNCHANGED <<lines, clock>> /\ pc' \in {"capture", "record", "replay", "idle"}
    BY <1>10 DEF Fetch, Connect, ReadFrame, ReadFails, CaptureDone, NothingHeard
  <2> QED
    BY <1>5, <2>1 DEF Storing
<1>11. CASE FinalCheck \/ Persist
  <2>1. UNCHANGED <<lines, clock>> /\ pc' \in {"persist", "idle"}
    BY <1>11 DEF FinalCheck, Persist, WriteFile
  <2> QED
    BY <1>5, <2>1 DEF Storing
<1>12. CASE Crash
  BY <1>5, <1>12 DEF Crash, Die, Storing
<1>13. CASE Signal
  <2>1. \/ UNCHANGED <<lines, clock>> /\ pc' = "idle"
        \/ UNCHANGED <<lines, clock>> /\ pc' = "final" /\ signal' = "heard"
        \/ UNCHANGED <<lines, clock, pc, pending>> /\ signal' # "heard" /\ signal # "heard"
    BY <1>13 DEF Signal, Die, AfterSignal
  <2> QED
    BY <1>5, <1>6, <2>1 DEF Storing
<1> QED
  BY <1>1, <1>2, <1>7, <1>8, <1>9, <1>10, <1>11, <1>12, <1>13, DiscoverKeepsOrder, AppendKeepsOrder,
     RecordKeepsOrder, FixtureKeepsOrder, ReplayKeepsOrder DEF Next, SessionStep

-----------------------------------------------------------------------------
(* A file that holds all that is generated agrees with its replay. *)
LEMMA AgreesWhenSettled ==
  lines \in Seq(Lines) /\ LinesOrdered /\ Papers = Trades => Agree(lines)
<1> SUFFICES ASSUME lines \in Seq(Lines), LinesOrdered, Papers = Trades PROVE Agree(lines)
  OBVIOUS
<1> DEFINE places == Sorted(lines, Paper(lines))
           trades == Sorted(lines, Trading(lines))
           recorded == [k \in 1..Papers |-> lines[places[k]].what]
           generated == [k \in 1..Trades |-> UpTo(lines, Inputs(lines), trades[k])]
<1>1. Recorded(lines) = recorded /\ Generated(lines) = generated
  BY RecordedIs DEF Papers, Trades
<1>2. \A k \in 1..Papers : Recorded(lines)[k] = Generated(lines)[k]
  BY DEF LinesOrdered
<1> HIDE DEF places, trades
<1>3. \A k \in 1..Papers : recorded[k] = generated[k]
  BY <1>1, <1>2
<1>4. recorded = generated
  BY <1>3
<1> QED
  BY <1>1, <1>4 DEF Agree

LEMMA OnlyChecksDiverge ==
  [Next]_vars /\ ended' = "diverged" => ended = "diverged" \/ Replay \/ FinalCheck
<1> USE DEF Goto, End, Decides, captureVars, outsideVars
<1>1. Start \/ WriteConfig \/ Discover \/ CycleHead => ended' # "diverged" \/ UNCHANGED ended
  BY DEF Start, WriteConfig, WriteFile, Discover, CycleHead
<1>2. AppendLine => ended' # "diverged" \/ UNCHANGED ended
  BY DEF AppendLine, StoreNext, Then
<1>3. Fetch \/ Connect \/ ReadFrame \/ ReadFails \/ Fixture \/ Wait => ended' # "diverged" \/ UNCHANGED ended
  BY DEF Fetch, Connect, ReadFrame, ReadFails, Fixture, Wait
<1>4. RecordMessage \/ CaptureDone => ended' # "diverged" \/ UNCHANGED ended
  BY DEF RecordMessage, CaptureDone, NothingHeard
<1>5. Persist => ended' # "diverged" \/ UNCHANGED ended
  BY DEF Persist, WriteFile
<1>6. Crash \/ Signal \/ StepBack => ended' # "diverged" \/ UNCHANGED ended
  BY DEF Crash, Signal, StepBack, Die
<1> QED
  BY <1>1, <1>2, <1>3, <1>4, <1>5, <1>6 DEF Next, SessionStep, vars

(* What disturbed the session stays known. *)
LEMMA StaysDisturbed ==
  SessionInv /\ [Next]_vars =>
    /\ stepped > 0 => stepped' > 0
    /\ signal = "heard" => signal' = "heard"
<1> SUFFICES ASSUME SessionInv, [Next]_vars
             PROVE  /\ stepped > 0 => stepped' > 0
                    /\ signal = "heard" => signal' = "heard"
  OBVIOUS
<1>1. stepped > 0 => stepped' > 0
  <2>1. stepped \in Nat
    BY DEF SessionInv, SessionTyped
  <2> QED
    BY <2>1, OnlyStepBack DEF StepBack
<1>2. signal = "heard" => signal' = "heard"
  <2> USE DEF Goto, End, Decides, captureVars, outsideVars
  <2>1. Start \/ WriteConfig \/ Discover \/ CycleHead => UNCHANGED signal
    BY DEF Start, WriteConfig, WriteFile, Discover, CycleHead
  <2>2. AppendLine => UNCHANGED signal
    BY DEF AppendLine, StoreNext, Then
  <2>3. Fetch \/ Connect \/ ReadFrame \/ ReadFails \/ Fixture \/ Wait \/ FinalCheck => UNCHANGED signal
    BY DEF Fetch, Connect, ReadFrame, ReadFails, Fixture, Wait, FinalCheck
  <2>4. RecordMessage \/ CaptureDone => UNCHANGED signal
    BY DEF RecordMessage, CaptureDone
  <2>5. Replay => UNCHANGED signal
    BY DEF Replay
  <2>6. Persist => UNCHANGED signal
    BY DEF Persist, WriteFile
  <2>7. Crash \/ StepBack => UNCHANGED signal
    BY DEF Crash, StepBack
  <2>8. Signal => signal = "none"
    BY DEF Signal
  <2> QED
    BY <2>1, <2>2, <2>3, <2>4, <2>5, <2>6, <2>7, <2>8 DEF Next, SessionStep, vars
<1> QED
  BY <1>1, <1>2

LEMMA DivergenceStep ==
  SessionInv /\ OrderInv /\ DivergesOnlyWhenDisturbed /\ [Next]_vars => DivergesOnlyWhenDisturbed'
<1> SUFFICES ASSUME SessionInv, OrderInv, DivergesOnlyWhenDisturbed, [Next]_vars, ended' = "diverged"
             PROVE  (stepped > 0 \/ signal = "heard")'
  BY DEF DivergesOnlyWhenDisturbed
<1>1. stepped \in Nat /\ lines \in Seq(Lines)
  BY DEF SessionInv, SessionTyped
<1>2. ASSUME stepped > 0 \/ signal = "heard" PROVE (stepped > 0 \/ signal = "heard")'
  BY <1>2, StaysDisturbed
<1>3. CASE ended = "diverged"
  BY <1>2, <1>3 DEF DivergesOnlyWhenDisturbed
<1>4. CASE Replay /\ ended # "diverged"
  <2>1. ~ Ordered
    BY <1>4, ReplayKeepsOrder
  <2>2. stepped > 0
    BY <1>1, <2>1 DEF OrderInv
  <2> QED
    BY <1>2, <2>2
<1>5. CASE FinalCheck /\ ended # "diverged"
  <2>1. pc = "final" /\ ~ Agree(lines)
    BY <1>5 DEF FinalCheck, Goto
  <2>2. Ordered => signal = "heard"
    BY <1>1, <2>1, AgreesWhenSettled DEF Ordered, Settled
  <2>3. stepped > 0 \/ signal = "heard"
    BY <1>1, <2>2 DEF OrderInv
  <2> QED
    BY <1>2, <2>3
<1> QED
  BY <1>3, <1>4, <1>5, OnlyChecksDiverge

LEMMA SessionTypeOK == SessionInv => TypeOK
<1> SUFFICES ASSUME SessionInv PROVE TypeOK
  OBVIOUS
<1>1. \A n \in DOMAIN lines : lines[n].mono \in Nat
  <2>1. lines \in Seq(Lines)
    BY DEF SessionInv, SessionTyped
  <2> QED
    BY <2>1, Stamped
<1>2. socket.got \in 0..MaxMessages /\ socket.left \in 0..Deadline /\ socket.idle \in 0..3
  <2>1. socket \in Sockets
    BY DEF SessionInv, SessionTyped
  <2> QED
    BY <2>1 DEF Sockets
<1> QED
  BY <1>1, <1>2 DEF SessionInv, SessionTyped, SessionPlaced, BatchBounded, TypeOK

LEMMA OrderGivesPrefix == SessionInv /\ OrderInv => RecordedIsPrefix
<1> SUFFICES ASSUME SessionInv, OrderInv, stepped = 0
             PROVE  IsPrefix(Recorded(lines), Generated(lines))
  BY DEF RecordedIsPrefix
<1>1. lines \in Seq(Lines) /\ LinesOrdered
  BY DEF SessionInv, SessionTyped, OrderInv, Ordered
<1> QED
  BY <1>1, PrefixIs DEF LinesOrdered, Papers, Trades

(* The invariant of the session. *)
IInv == SessionInv /\ FedSoFar /\ OutputsInv /\ OrderInv /\ DivergesOnlyWhenDisturbed

LEMMA IInvInit == Init => IInv
<1>1. Init => DivergesOnlyWhenDisturbed
  BY DEF Init, DivergesOnlyWhenDisturbed
<1> QED
  BY <1>1, SessionInvInit, FedInit, OutputsInit, OrderInvInit DEF IInv

LEMMA IInvStep == IInv /\ [Next]_vars => IInv'
BY SessionInvStep, FedStep, OutputsStep, OrderStep, DivergenceStep DEF IInv

-----------------------------------------------------------------------------
(* While the clock goes forward, the paper events of the file are how the  *)
(* events its replay generates begin, whatever crash, failed write or      *)
(* signal came between (append_new_recorded_paper_events).                 *)
THEOREM RecordHolds == Spec => []RecordIsSound
<1>1. IInv => RecordIsSound
  BY SessionTypeOK, OrderGivesPrefix DEF IInv, RecordIsSound
<1> QED
  BY <1>1, IInvInit, IInvStep, PTL DEF Spec

(* A session that has its report has all its outputs, a file the replay    *)
(* command finds deterministic, and a reference price for each cycle, even *)
(* after the clock was set back (run_paper_runtime, final comparison).     *)
THEOREM ReportHolds == Spec => []ReportIsAudited
<1>1. IInv => ReportIsAudited
  BY OutputsGiveReport DEF IInv
<1> QED
  BY <1>1, IInvInit, IInvStep, PTL DEF Spec

(* A session ends as divergent only after its clock was set back or a      *)
(* signal cut a cycle short (run_paper_runtime).                           *)
THEOREM DivergenceIsExplained == Spec => []DivergesOnlyWhenDisturbed
<1>1. IInv => DivergesOnlyWhenDisturbed
  BY DEF IInv
<1> QED
  BY <1>1, IInvInit, IInvStep, PTL DEF Spec
=============================================================================
