-------------------------- MODULE LiveQuotingProofs --------------------------
(***************************************************************************)
(* Proofs about LiveQuoting: for any requests and approvals, any books and *)
(* lags, any clock, and any tick of the LA6 quote manager.                 *)
(***************************************************************************)
EXTENDS LiveQuoting, DataLemmas, FiniteSetTheorems, TLAPS

-----------------------------------------------------------------------------
(* The inductive invariant of a session.                                   *)

Begun == phase \notin {"command", "refused"}
Placing == phase \in {"slot", "discover", "select", "risk", "plan", "check", "submit"}

SentOrder ==
  [price : Nat, size : Nat, cancelAfter : Nat, ttl : Nat, plannedAt : Nat, at : Nat,
   book : Books, seenCash : Nat, riskedAt : Nat]

(* What holds of an order by itself, once it is sent. *)
Sound(o) ==
  /\ Notional(o) <= approval.limits.single /\ o.ttl = approval.ttl
  /\ o.cancelAfter + limits.noTrade < o.book.end + (o.plannedAt - o.riskedAt)
  /\ o.cancelAfter < started + approval.duration
  /\ o.price < o.book.ask /\ (o.price < o.book.bid \/ o.book.bid = 1)
  /\ Notional(o) <= o.seenCash

(* A session goes on only if the approval repeats what was commanded, and  *)
(* has an order left whenever it goes for one.                             *)
CommandInv ==
  /\ request \in Requests
  /\ Begun => CapsRequested /\ AsApproved
  /\ ~ Begun => sent = << >>
  /\ Begun => Len(sent) <= request.orders
  /\ Placing => Len(sent) < request.orders

ClockInv ==
  /\ now \in 0..MaxTime /\ started \in 0..now /\ asOf \in 0..now /\ riskedAt \in 0..now
  /\ cash \in Cash \cup {0}
  /\ phase \in {"command", "slot", "discover", "select", "risk", "plan", "check", "submit",
                "resting"} \cup Ended

SentInv ==
  /\ sent \in Seq(SentOrder)
  /\ sent # << >> => Total(sent) <= approval.limits.total
  /\ \A n \in DOMAIN sent : Sound(sent[n]) /\ sent[n].at <= now
  /\ SubmitRateHolds

(* The market that was chosen: behind its book, and paid for. *)
ChosenIsSound ==
  /\ chosen.kind = "chosen" /\ chosen.book \in Books /\ chosen.cash \in Nat
  /\ chosen.bookAge \in 0..limits.bookAge
  /\ chosen.intent.outcome = "Up" /\ chosen.intent.side = "Buy"
  /\ chosen.intent.price \in Nat /\ chosen.intent.size \in Nat
  /\ chosen.intent.price < chosen.book.ask
  /\ chosen.intent.price < chosen.book.bid \/ chosen.book.bid = 1
  /\ chosen.intent.price * chosen.intent.size <= chosen.cash
ChosenInv == phase \in {"risk", "plan", "check", "submit", "resting"} => ChosenIsSound

(* What the risk engine saw still holds when the plan is made. *)
RiskInv ==
  phase \in {"plan", "check", "submit"} =>
    /\ riskedAt + limits.noTrade + maker.ttl < chosen.book.end
    /\ Recent(sent) < limits.submitRate

PlanIsSound ==
  /\ plan.kind = "plan"
  /\ plan.price = chosen.intent.price /\ plan.size = chosen.intent.size
  /\ plan.ttl = maker.ttl /\ plan.cancelAfter \in Nat
  /\ plan.cancelAfter - plan.ttl \in riskedAt..now
PlanInv == phase \in {"check", "submit", "resting"} => PlanIsSound

CheckedInv ==
  phase = "submit" =>
    /\ Notional(plan) <= approval.limits.single /\ plan.ttl = approval.ttl
    /\ Total(sent) + Notional(plan) <= approval.limits.total
    /\ plan.cancelAfter < started + approval.duration

MakerInv ==
  /\ CommandInv /\ ClockInv /\ SentInv /\ ChosenInv /\ RiskInv /\ PlanInv /\ CheckedInv

-----------------------------------------------------------------------------
(* Sums of orders, and the least of a few numbers.                         *)

LEMMA NotionalType == \A o \in SentOrder : Notional(o) \in Nat
<1>1. \A a, b \in Nat : a * b \in Nat
  OBVIOUS
<1>2. \A o \in SentOrder : o.price \in Nat /\ o.size \in Nat
  BY DEF SentOrder
<1> QED
  BY <1>1, <1>2 DEF Notional

LEMMA TotalEmpty == Total(<< >>) = 0
<1>1. ASSUME NEW s, DOMAIN s = {}
      PROVE  Total(s) = 0
  <2> DEFINE f == [n \in DOMAIN s |-> Notional(s[n])]
  <2>1. DOMAIN f = {}
    BY <1>1
  <2> QED
    BY <2>1, SumEmpty DEF Total, SumFunction
<1>2. DOMAIN << >> = {}
  <2>1. << >> \in [{} -> {}]
    OBVIOUS
  <2> QED
    BY <2>1
<1> QED
  BY <1>1, <1>2

LEMMA TotalAppend ==
  ASSUME NEW s \in Seq(SentOrder), NEW o \in SentOrder
  PROVE  Total(Append(s, o)) = Total(s) + Notional(o)
<1> DEFINE f == [n \in DOMAIN s |-> Notional(s[n])]
           g == [n \in DOMAIN Append(s, o) |-> Notional(Append(s, o)[n])]
           S == 1..Len(s)
           last == Len(s) + 1
<1>1. DOMAIN f = S /\ DOMAIN g = S \cup {last} /\ IsFiniteSet(S) /\ last \notin S
  <2>1. IsFiniteSet(S)
    BY FS_Interval
  <2>2. DOMAIN f = S
    OBVIOUS
  <2>3. DOMAIN g = 1..(Len(s) + 1)
    OBVIOUS
  <2>4. 1..(Len(s) + 1) = S \cup {last} /\ last \notin S
    OBVIOUS
  <2> QED
    BY <2>1, <2>2, <2>3, <2>4
<1>2. \A n \in S : f[n] \in Int /\ g[n] \in Int /\ f[n] = g[n]
  BY NotionalType
<1>3. g[last] = Notional(o) /\ Notional(o) \in Int
  BY NotionalType
<1> HIDE DEF f, g, S, last
<1>4. SumFunctionOnSet(g, S \cup {last}) = SumFunctionOnSet(g, S) + g[last]
  BY <1>1, <1>2, <1>3, SumAdd
<1>5. SumFunctionOnSet(f, S) = SumFunctionOnSet(g, S)
  BY <1>1, <1>2, SumSame
<1>6. Total(s) = SumFunctionOnSet(f, S) /\ Total(Append(s, o)) = SumFunctionOnSet(g, S \cup {last})
  <2>1. Total(s) = SumFunctionOnSet(f, DOMAIN f)
    BY DEF Total, SumFunction, f
  <2>2. Total(Append(s, o)) = SumFunctionOnSet(g, DOMAIN g)
    BY DEF Total, SumFunction, g
  <2> QED
    BY <1>1, <2>1, <2>2
<1>7. SumFunctionOnSet(f, S) \in Int
  BY <1>1, <1>2, SumType
<1> QED
  BY <1>3, <1>4, <1>5, <1>6

LEMMA TotalType == ASSUME NEW s \in Seq(SentOrder) PROVE Total(s) \in Nat
<1> DEFINE f == [n \in DOMAIN s |-> Notional(s[n])]
<1>1. IsFiniteSet(1..Len(s))
  BY FS_Interval
<1>3. DOMAIN f = 1..Len(s) /\ \A n \in 1..Len(s) : f[n] \in Nat
  BY NotionalType
<1>2. SumFunctionOnSet(f, 1..Len(s)) \in Nat
  <2> HIDE DEF f
  <2> QED
    BY <1>1, <1>3, SumNat
<1> QED
  BY <1>2, <1>3 DEF Total, SumFunction

(* A set of naturals has a least element, which Min is. *)
LEMMA MinOfNats ==
  ASSUME NEW S \in SUBSET Nat, S # {}
  PROVE  Min(S) \in S /\ \A x \in S : Min(S) <= x
<1>1. PICK x \in S : \A y \in S : ~ (<<y, x>> \in OpToRel(<, Nat))
  BY NatLessThanWellFounded, WFMin
<1>2. \A y \in S : x <= y
  <2> SUFFICES ASSUME NEW y \in S, y < x PROVE FALSE
    OBVIOUS
  <2>1. <<y, x>> \in OpToRel(<, Nat)
    BY DEF OpToRel
  <2> QED
    BY <1>1, <2>1
<1> QED
  BY <1>2 DEF Min

LEMMA Quotient ==
  ASSUME NEW a \in Nat, NEW b \in Nat \ {0}
  PROVE  a \div b \in Nat /\ (a \div b) * b <= a
<1>1. a \div b \in Int /\ a % b \in 0..(b - 1) /\ a = (b * (a \div b)) + (a % b)
  OBVIOUS
<1> QED
  BY <1>1

-----------------------------------------------------------------------------
(* Sessions: the invariant holds at the start and is kept by every step.   *)

LEMMA MakerInit == Init => MakerInv
<1> SUFFICES ASSUME Init PROVE MakerInv
  OBVIOUS
<1>1. CommandInv
  BY DEF Init, CommandInv, Begun, Placing
<1>2. ClockInv
  BY QuotingAssumption DEF Init, ClockInv
<1>3. SentInv
  <2>1. << >> \in Seq(SentOrder) /\ DOMAIN << >> = {}
    BY << >> \in [{} -> {}]
  <2> QED
    BY <2>1 DEF Init, SentInv, SubmitRateHolds
<1> QED
  BY <1>1, <1>2, <1>3 DEF Init, MakerInv, ChosenInv, RiskInv, PlanInv, CheckedInv

(* The orders sent stay what they were while none is added and the command *)
(* and the clocks stand.                                                   *)
LEMMA SentKept ==
  ASSUME MakerInv, UNCHANGED <<request, started, now, sent>>
  PROVE  SentInv'
BY DEF MakerInv, SentInv, SubmitRateHolds, Sound, approval, limits, Total, Notional

LEMMA MakerCommand == MakerInv /\ Command => MakerInv'
<1> SUFFICES ASSUME MakerInv, Command PROVE MakerInv'
  OBVIOUS
<1>0. sent = << >> /\ Len(sent) = 0
  BY DEF MakerInv, CommandInv, Command, Begun
<1>1. CommandInv'
  BY <1>0 DEF MakerInv, CommandInv, Command, Begun, Placing, Goto, CapsRequested, AsApproved, SameSession,
     SameLimits, PoliciesAllow, limits, maker, approval
<1>2. ClockInv'
  BY DEF MakerInv, ClockInv, Command, Goto, Ended
<1>3. SentInv'
  <2>1. sent' = << >> /\ DOMAIN << >> = {} /\ << >> \in Seq(SentOrder)
    BY <1>0, << >> \in [{} -> {}] DEF Command
  <2> QED
    BY <2>1 DEF SentInv, SubmitRateHolds
<1>4. phase' \in {"slot", "discover", "refused"}
  BY DEF Command, Goto
<1> QED
  BY <1>1, <1>2, <1>3, <1>4 DEF MakerInv, ChosenInv, RiskInv, PlanInv, CheckedInv

LEMMA MakerTakeSlot == MakerInv /\ TakeSlot => MakerInv'
<1> SUFFICES ASSUME MakerInv, TakeSlot PROVE MakerInv'
  OBVIOUS
<1>1. CommandInv'
  BY DEF MakerInv, CommandInv, TakeSlot, Begun, Placing, Goto, CapsRequested, AsApproved, SameSession,
     SameLimits, PoliciesAllow, limits, maker, approval
<1>2. ClockInv'
  BY DEF MakerInv, ClockInv, TakeSlot, Goto, Ended, clocks
<1>3. SentInv'
  BY SentKept DEF TakeSlot, clocks
<1>4. phase' \in {"discover", "failed"}
  BY DEF TakeSlot, Goto
<1> QED
  BY <1>1, <1>2, <1>3, <1>4 DEF MakerInv, ChosenInv, RiskInv, PlanInv, CheckedInv

LEMMA MakerDiscover == MakerInv /\ Discover => MakerInv'
<1> SUFFICES ASSUME MakerInv, Discover PROVE MakerInv'
  OBVIOUS
<1>1. CommandInv'
  BY DEF MakerInv, CommandInv, Discover, Begun, Placing, Goto, CapsRequested, AsApproved, SameSession,
     SameLimits, PoliciesAllow, limits, maker, approval
<1>2. ClockInv'
  BY DEF MakerInv, ClockInv, Discover, Goto, Ended, work
<1>3. SentInv'
  BY SentKept DEF Discover, work
<1>4. phase' = "select"
  BY DEF Discover, Goto
<1> QED
  BY <1>1, <1>2, <1>3, <1>4 DEF MakerInv, ChosenInv, RiskInv, PlanInv, CheckedInv

LEMMA SessionTypes ==
  ASSUME MakerInv
  PROVE  /\ now \in Nat /\ started \in Nat /\ cash \in Nat /\ maker.ttl \in Nat
         /\ limits \in [LimitFields -> Nat] /\ approval.limits \in [LimitFields -> Nat]
         /\ \A f \in LimitFields : limits[f] \in Nat
         /\ limits.noTrade \in Nat /\ limits.submitRate \in Nat
         /\ limits.single \in Nat /\ limits.total \in Nat
         /\ approval.limits.single \in Nat /\ approval.limits.total \in Nat
         /\ request.kind \in {"LA5", "LA6"} /\ request.duration \in Nat
<1>1. request \in Requests
  BY DEF MakerInv, CommandInv
<1>2. /\ maker.ttl \in Nat /\ request.kind \in {"LA5", "LA6"} /\ request.duration \in Nat
      /\ limits \in [LimitFields -> Nat] /\ approval.limits \in [LimitFields -> Nat]
  BY <1>1, RequestsAssumption DEF maker, limits, approval
<1>3. now \in Nat /\ started \in Nat /\ cash \in Nat
  BY QuotingAssumption DEF MakerInv, ClockInv
<1>4. /\ "noTrade" \in LimitFields /\ "submitRate" \in LimitFields
      /\ "single" \in LimitFields /\ "total" \in LimitFields
  BY DEF LimitFields
<1> QED
  BY <1>2, <1>3, <1>4

(* The money for an order is within the balance that was read. *)
LEMMA NotionalWithinCash ==
  ASSUME MakerInv, phase = "select"
  PROVE  MaxOrderNotional \in Nat /\ MaxOrderNotional <= cash
<1>1. request \in Requests /\ request.orders \in Nat \ {0} /\ cash \in Nat /\ cumulative \in Nat
  BY QuotingAssumption, RequestsAssumption, TotalType
  DEF MakerInv, CommandInv, ClockInv, SentInv, Begun, CapsRequested, cumulative
<1>2. /\ limits.single \in Int /\ limits.usage \in Int /\ limits.reserved \in Int
      /\ limits.total \in Nat
  BY <1>1, RequestsAssumption DEF limits, LimitFields
<1>3. limits.total \div request.orders \in Int /\ limits.total - cumulative \in Int
  BY <1>1, <1>2, Quotient
<1> DEFINE S == {c \in Caps : c > 0} \cup {cash}
<1>4. S \in SUBSET Nat /\ S # {} /\ cash \in S
  BY <1>1, <1>2, <1>3 DEF Caps
<1> QED
  BY <1>4, MinOfNats DEF MaxOrderNotional

LEMMA PriceIsSound ==
  ASSUME MakerInv, phase = "select", NEW book \in Books, NEW ts, Suits(book, ts)
  PROVE  /\ BuyPrice(book) \in Nat /\ book.minSize \in Nat
         /\ BuyPrice(book) < book.ask
         /\ BuyPrice(book) < book.bid \/ book.bid = 1
         /\ BuyPrice(book) * book.minSize <= cash
<1>1. book.bid \in Nat /\ book.ask \in Nat /\ book.bid < book.ask /\ book.minSize \in Nat \ {0}
  BY BooksAssumption DEF Suits
<1>2. MaxOrderNotional \in Nat /\ MaxOrderNotional <= cash /\ cash \in Nat
  BY NotionalWithinCash, QuotingAssumption DEF MakerInv, ClockInv
<1>3. /\ MaxOrderNotional \div book.minSize \in Nat
      /\ (MaxOrderNotional \div book.minSize) * book.minSize <= MaxOrderNotional
  BY <1>1, <1>2, Quotient
<1>4. BookCap(book) \in Nat /\ book.ask - 1 \in Nat
  BY <1>1 DEF BookCap
<1> DEFINE S == {MaxOrderNotional \div book.minSize, BookCap(book), book.ask - 1}
<1>5. S \in SUBSET Nat /\ S # {}
  BY <1>3, <1>4
<1>6. BuyPrice(book) \in S /\ \A x \in S : BuyPrice(book) <= x
  BY <1>5, MinOfNats DEF BuyPrice
<1>7. /\ BuyPrice(book) \in Nat /\ BuyPrice(book) <= BookCap(book)
      /\ BuyPrice(book) <= book.ask - 1
      /\ BuyPrice(book) <= MaxOrderNotional \div book.minSize
  BY <1>5, <1>6
<1>8. BuyPrice(book) < book.bid \/ book.bid = 1
  BY <1>1, <1>7 DEF BookCap, Suits
<1>9. BuyPrice(book) * book.minSize <= (MaxOrderNotional \div book.minSize) * book.minSize
  <2>1. \A a, b, c \in Nat : a <= b => a * c <= b * c
    OBVIOUS
  <2> QED
    BY <1>1, <1>3, <1>7, <2>1
<1>10. BuyPrice(book) * book.minSize \in Nat /\ (MaxOrderNotional \div book.minSize) * book.minSize \in Nat
  <2>1. \A a, b \in Nat : a * b \in Nat
    OBVIOUS
  <2> QED
    BY <1>1, <1>3, <1>7, <2>1
<1>11. BuyPrice(book) * book.minSize <= cash
  BY <1>2, <1>3, <1>9, <1>10
<1> QED
  BY <1>1, <1>7, <1>8, <1>11

LEMMA MakerSelect == MakerInv /\ Select => MakerInv'
<1> SUFFICES ASSUME MakerInv, Select PROVE MakerInv'
  OBVIOUS
<1>1. CommandInv'
  BY DEF MakerInv, CommandInv, Select, Begun, Placing, Goto, CapsRequested, AsApproved, SameSession,
     SameLimits, PoliciesAllow, limits, maker, approval
<1>2. ClockInv'
  BY DEF MakerInv, ClockInv, Select, Goto, Ended, clocks
<1>3. SentInv'
  BY SentKept DEF Select, clocks
<1>4. CASE phase' = "failed"
  BY <1>1, <1>2, <1>3, <1>4 DEF MakerInv, ChosenInv, RiskInv, PlanInv, CheckedInv
<1>5. CASE phase' # "failed"
  <2>1. PICK book \in Books, lag \in BookLags :
          Suits(book, now - lag) /\ chosen' = Chosen(book, now - lag) /\ phase' = "risk"
    BY <1>5 DEF Select, Goto
  <2>2. phase = "select" /\ cash \in Nat /\ now \in Nat /\ asOf \in Nat /\ lag \in Nat
    BY QuotingAssumption DEF Select, MakerInv, ClockInv
  <2>3. Age(asOf, now - lag) \in Nat /\ Age(asOf, now - lag) <= limits.bookAge
    BY <2>1, <2>2 DEF Age, Suits
  <2>4. limits.bookAge \in Nat
    BY RequestsAssumption DEF MakerInv, CommandInv, limits, LimitFields
  <2>5. chosen'.kind = "chosen" /\ chosen'.book = book /\ chosen'.bookAge = Age(asOf, now - lag)
        /\ chosen'.cash = cash
    BY <2>1 DEF Chosen
  <2>6. /\ chosen'.intent.outcome = "Up" /\ chosen'.intent.side = "Buy"
        /\ chosen'.intent.price = BuyPrice(book) /\ chosen'.intent.size = book.minSize
    BY <2>1 DEF Chosen
  <2>7. limits' = limits
    BY DEF Select, limits
  <2>8. ChosenIsSound'
    BY <2>1, <2>2, <2>3, <2>4, <2>5, <2>6, <2>7, PriceIsSound DEF ChosenIsSound
  <2> QED
    BY <1>1, <1>2, <1>3, <2>1, <2>8 DEF MakerInv, ChosenInv, RiskInv, PlanInv, CheckedInv
<1> QED
  BY <1>4, <1>5

LEMMA MakerRisk == MakerInv /\ Risk => MakerInv'
<1> SUFFICES ASSUME MakerInv, Risk PROVE MakerInv'
  OBVIOUS
<1>1. CommandInv'
  BY DEF MakerInv, CommandInv, Risk, Begun, Placing, Goto, CapsRequested, AsApproved, SameSession,
     SameLimits, PoliciesAllow, limits, maker, approval
<1>2. ClockInv'
  BY DEF MakerInv, ClockInv, Risk, Goto, Ended, clocks
<1>3. SentInv'
  BY SentKept DEF Risk, clocks
<1>4. CASE phase' = "failed"
  BY <1>1, <1>2, <1>3, <1>4 DEF MakerInv, ChosenInv, RiskInv, PlanInv, CheckedInv
<1>5. CASE phase' # "failed"
  <2>1. Approves(limits, chosen.intent, Context, PriceOne) /\ riskedAt' = now /\ phase' = "plan"
    BY <1>5 DEF Risk, Goto
  <2>2. ChosenIsSound /\ ChosenIsSound'
    BY DEF MakerInv, ChosenInv, Risk, clocks, ChosenIsSound, limits
  <2>3. /\ Context.now = now /\ Context.end = chosen.book.end /\ Context.ttl = maker.ttl
        /\ Context.submits = (IF request.kind = "LA5" THEN Recent(sent) ELSE 0)
    BY DEF Context
  <2>4. now + limits.noTrade + maker.ttl < chosen.book.end
    <3>1. /\ now \in Nat /\ limits.noTrade \in Nat /\ maker.ttl \in Nat /\ chosen.book.end \in Nat
      BY <2>2, SessionTypes, BooksAssumption DEF ChosenIsSound
    <3> QED
      BY <2>1, <2>3, <3>1 DEF Approves, TooClose
  <2>5. Recent(sent) < limits.submitRate
    <3>1. limits.submitRate \in Nat /\ request.kind \in {"LA5", "LA6"}
      BY RequestsAssumption DEF MakerInv, CommandInv, limits, LimitFields
    <3>2. ~ CountExhausted(limits.submitRate, Context.submits)
      BY <2>1 DEF Approves, LimitReached
    <3>3. CASE request.kind = "LA5"
      <4>1. Recent(sent) \in Nat
        <5>1. IsFiniteSet(DOMAIN sent)
          BY FS_Interval DEF MakerInv, SentInv
        <5> QED
          BY <5>1, FS_Subset, FS_CardinalityType DEF Recent
      <4> QED
        BY <3>1, <3>2, <3>3, <2>3, <4>1 DEF CountExhausted
    <3>4. CASE request.kind = "LA6"
      <4>1. sent = << >>
        BY <3>4 DEF MakerInv, CommandInv, SentInv, Risk, Begun, Placing, CapsRequested
      <4>2. Recent(sent) = 0
        BY <4>1, FS_EmptySet, << >> \in [{} -> {}] DEF Recent
      <4> QED
        BY <3>1, <3>2, <3>4, <2>3, <4>2 DEF CountExhausted
    <3> QED
      BY <3>1, <3>3, <3>4
  <2>6. RiskInv'
    BY <2>1, <2>4, <2>5 DEF RiskInv, Risk, clocks, Recent, limits, maker
  <2> QED
    BY <1>1, <1>2, <1>3, <2>1, <2>2, <2>6 DEF MakerInv, ChosenInv, PlanInv, CheckedInv
<1> QED
  BY <1>4, <1>5

LEMMA MakerPlan == MakerInv /\ Plan => MakerInv'
<1> SUFFICES ASSUME MakerInv, Plan PROVE MakerInv'
  OBVIOUS
<1>1. CommandInv'
  BY DEF MakerInv, CommandInv, Plan, Begun, Placing, Goto, CapsRequested, AsApproved, SameSession,
     SameLimits, PoliciesAllow, limits, maker, approval
<1>2. ClockInv'
  BY DEF MakerInv, ClockInv, Plan, Goto, Ended, clocks
<1>3. SentInv'
  BY SentKept DEF Plan, clocks
<1>4. CASE phase' = "failed"
  BY <1>1, <1>2, <1>3, <1>4 DEF MakerInv, ChosenInv, RiskInv, PlanInv, CheckedInv
<1>5. CASE phase' # "failed"
  <2>1. plan' = PlanOf /\ phase' = "check"
    BY <1>5 DEF Plan, Goto
  <2>2. ChosenIsSound /\ ChosenIsSound'
    BY DEF MakerInv, ChosenInv, Plan, clocks, ChosenIsSound, limits
  <2>3. RiskInv'
    BY DEF MakerInv, RiskInv, Plan, clocks, Recent, limits, maker
  <2>4. Mapped(chosen.intent, Context).size = chosen.intent.size
    BY <2>2 DEF Mapped, ChosenIsSound
  <2>5. /\ plan'.kind = "plan" /\ plan'.price = chosen.intent.price
        /\ plan'.size = chosen.intent.size /\ plan'.ttl = maker.ttl
        /\ plan'.cancelAfter = now + maker.ttl
    BY <2>1, <2>4 DEF PlanOf
  <2>6. now \in Nat /\ maker.ttl \in Nat /\ riskedAt \in 0..now
    BY SessionTypes DEF MakerInv, ClockInv
  <2>7. PlanIsSound'
    BY <2>5, <2>6 DEF PlanIsSound, Plan, clocks, maker
  <2> QED
    BY <1>1, <1>2, <1>3, <2>1, <2>2, <2>3, <2>7 DEF MakerInv, ChosenInv, PlanInv, CheckedInv
<1> QED
  BY <1>4, <1>5

LEMMA MakerCheckPlan == MakerInv /\ CheckPlan => MakerInv'
<1> SUFFICES ASSUME MakerInv, CheckPlan PROVE MakerInv'
  OBVIOUS
<1>1. CommandInv'
  BY DEF MakerInv, CommandInv, CheckPlan, Begun, Placing, Goto, CapsRequested, AsApproved, SameSession,
     SameLimits, PoliciesAllow, limits, maker, approval
<1>2. ClockInv'
  BY DEF MakerInv, ClockInv, CheckPlan, Goto, Ended, clocks, work
<1>3. SentInv'
  BY SentKept DEF CheckPlan, clocks
<1>4. CASE phase' = "failed"
  BY <1>1, <1>2, <1>3, <1>4 DEF MakerInv, ChosenInv, RiskInv, PlanInv, CheckedInv
<1>5. CASE phase' # "failed"
  <2>1. PlanAllowed /\ FitsDuration /\ phase' = "submit"
    BY <1>5 DEF CheckPlan, Goto
  <2>2. ChosenIsSound /\ ChosenIsSound' /\ PlanIsSound /\ PlanIsSound'
    BY DEF MakerInv, ChosenInv, PlanInv, CheckPlan, clocks, work, ChosenIsSound, PlanIsSound, limits, maker
  <2>3. RiskInv'
    BY DEF MakerInv, RiskInv, CheckPlan, clocks, work, Recent, limits, maker
  <2>4. AsApproved
    BY DEF MakerInv, CommandInv, CheckPlan, Begun
  <2>5. approval.limits.single = limits.single /\ approval.limits.total = limits.total
    BY <2>4, SessionTypes DEF AsApproved, SameLimits, La5Fields, La6Fields
  <2>6. /\ Notional(plan) <= approval.limits.single /\ plan.ttl = approval.ttl
        /\ Total(sent) + Notional(plan) <= approval.limits.total
    BY <2>1, <2>5 DEF PlanAllowed, cumulative
  <2>7. plan.cancelAfter < started + approval.duration
    <3>1. /\ now \in Nat /\ started \in Nat /\ plan.ttl \in Nat /\ plan.cancelAfter \in Nat
          /\ plan.cancelAfter - plan.ttl <= now
          /\ approval.duration = request.duration /\ request.duration \in Nat
      BY <2>2, <2>4, SessionTypes DEF PlanIsSound, AsApproved, SameSession, MakerInv, ClockInv
    <3> QED
      BY <2>1, <3>1 DEF FitsDuration, Elapsed
  <2>8. CheckedInv'
    BY <2>6, <2>7 DEF CheckedInv, CheckPlan, clocks, work, approval, Notional, Total
  <2> QED
    BY <1>1, <1>2, <1>3, <2>1, <2>2, <2>3, <2>8 DEF MakerInv, ChosenInv, PlanInv
<1> QED
  BY <1>4, <1>5

LEMMA MakerSettle == MakerInv /\ Settle => MakerInv'
<1> SUFFICES ASSUME MakerInv, Settle PROVE MakerInv'
  OBVIOUS
<1>1. CommandInv'
  BY RequestsAssumption
  DEF MakerInv, CommandInv, SentInv, Settle, Begun, Placing, Goto, CapsRequested, AsApproved, SameSession,
     SameLimits, PoliciesAllow, limits, maker, approval
<1>2. ClockInv'
  BY QuotingAssumption DEF MakerInv, ClockInv, Settle, Goto, Ended
<1>3. SentInv'
  BY SentKept DEF Settle
<1>4. phase' \in {"slot", "done", "failed"}
  BY DEF Settle, Goto
<1> QED
  BY <1>1, <1>2, <1>3, <1>4 DEF MakerInv, ChosenInv, RiskInv, PlanInv, CheckedInv

LEMMA SentTimes ==
  ASSUME SentInv
  PROVE  sent \in Seq(SentOrder) /\ \A n \in DOMAIN sent : sent[n].at \in Nat /\ sent[n].at <= now
<1>1. \A o \in SentOrder : o.at \in Nat
  BY DEF SentOrder
<1>2. \A n \in DOMAIN sent : sent[n] \in SentOrder
  BY DEF SentInv
<1> QED
  BY <1>1, <1>2 DEF SentInv

LEMMA OrderIsSound ==
  ASSUME MakerInv, phase = "submit"
  PROVE  Order \in SentOrder /\ Sound(Order) /\ Order.at = now /\ Notional(Order) = Notional(plan)
<1>1. ChosenIsSound /\ PlanIsSound
  BY DEF MakerInv, ChosenInv, PlanInv
<1>2. /\ Notional(plan) <= approval.limits.single /\ plan.ttl = approval.ttl
      /\ plan.cancelAfter < started + approval.duration
      /\ riskedAt + limits.noTrade + maker.ttl < chosen.book.end
  BY DEF MakerInv, CheckedInv, RiskInv
<1>3. /\ Order.price = plan.price /\ Order.size = plan.size /\ Order.cancelAfter = plan.cancelAfter
      /\ Order.ttl = plan.ttl /\ Order.plannedAt = plan.cancelAfter - plan.ttl /\ Order.at = now
      /\ Order.book = chosen.book /\ Order.seenCash = chosen.cash /\ Order.riskedAt = riskedAt
  BY DEF Order
<1>4. /\ plan.price \in Nat /\ plan.size \in Nat /\ plan.cancelAfter \in Nat /\ plan.ttl \in Nat
      /\ plan.cancelAfter - plan.ttl \in Nat /\ now \in Nat /\ riskedAt \in Nat
      /\ chosen.book \in Books /\ chosen.cash \in Nat /\ chosen.book.end \in Nat
      /\ limits.noTrade \in Nat
  BY <1>1, SessionTypes, BooksAssumption DEF PlanIsSound, ChosenIsSound, MakerInv, ClockInv
<1>5. Order \in SentOrder
  BY <1>4 DEF Order, SentOrder
<1>6. Notional(Order) = Notional(plan) /\ Notional(plan) = chosen.intent.price * chosen.intent.size
  BY <1>1, <1>3 DEF Notional, PlanIsSound
<1>7. Order.cancelAfter + limits.noTrade < Order.book.end + (Order.plannedAt - Order.riskedAt)
  BY <1>1, <1>2, <1>3, <1>4 DEF PlanIsSound
<1>8. Order.price < Order.book.ask /\ (Order.price < Order.book.bid \/ Order.book.bid = 1)
  BY <1>1, <1>3 DEF PlanIsSound, ChosenIsSound
<1>9. Notional(Order) <= Order.seenCash
  BY <1>1, <1>3, <1>6 DEF ChosenIsSound
<1> QED
  BY <1>2, <1>3, <1>5, <1>6, <1>7, <1>8, <1>9 DEF Sound

(* Sent now, an order is one of at most a minute's worth. *)
LEMMA RateKept ==
  ASSUME MakerInv, phase = "submit", sent' = Append(sent, Order), UNCHANGED <<request, now>>
  PROVE  SubmitRateHolds'
<1> DEFINE last == Len(sent) + 1
           recent == {k \in DOMAIN sent : now - sent[k].at < RateWindow}
<1>1. sent \in Seq(SentOrder) /\ SubmitRateHolds /\ Order \in SentOrder /\ Order.at = now
  BY OrderIsSound DEF MakerInv, SentInv
<1>2. /\ DOMAIN sent' = 1..last /\ sent'[last] = Order
      /\ \A k \in DOMAIN sent : sent'[k] = sent[k] /\ k \in 1..Len(sent)
      /\ DOMAIN sent = 1..Len(sent)
  BY <1>1
<1>3. limits' = limits
  BY DEF limits
<1>4. ASSUME NEW n \in DOMAIN sent
      PROVE  Cardinality({k \in 1..n : sent'[n].at - sent'[k].at < RateWindow}) <= limits.submitRate
  <2>1. {k \in 1..n : sent'[n].at - sent'[k].at < RateWindow}
          = {k \in 1..n : sent[n].at - sent[k].at < RateWindow}
    BY <1>1, <1>2
  <2> QED
    BY <1>1, <2>1 DEF SubmitRateHolds
<1>5. Cardinality({k \in 1..last : sent'[last].at - sent'[k].at < RateWindow}) <= limits.submitRate
  <2>1. Cardinality(recent) < limits.submitRate /\ limits.submitRate \in Nat
    BY SessionTypes DEF MakerInv, RiskInv, Recent
  <2>2. {k \in 1..last : sent'[last].at - sent'[k].at < RateWindow} \in SUBSET (recent \cup {last})
    BY <1>1, <1>2
  <2>3. IsFiniteSet(DOMAIN sent)
    BY <1>2, FS_Interval DEF MakerInv, SentInv
  <2>4. IsFiniteSet(recent)
    <3>1. recent \in SUBSET DOMAIN sent
      OBVIOUS
    <3> HIDE DEF recent
    <3> QED
      BY <2>3, <3>1, FS_Subset
  <2> HIDE DEF recent, last
  <2>5. /\ IsFiniteSet(recent \cup {last}) /\ Cardinality(recent) \in Nat
        /\ Cardinality(recent \cup {last}) <= Cardinality(recent) + 1
    <3>1. Cardinality(recent) \in Nat
      BY <2>4, FS_CardinalityType
    <3> QED
      BY <2>4, <3>1, FS_AddElement
  <2> DEFINE counted == {k \in 1..last : sent'[last].at - sent'[k].at < RateWindow}
  <2>6. Cardinality(counted) <= Cardinality(recent \cup {last}) /\ Cardinality(counted) \in Nat
    <3>1. counted \in SUBSET (recent \cup {last})
      BY <2>2
    <3> HIDE DEF counted
    <3> QED
      BY <2>5, <3>1, FS_Subset, FS_CardinalityType
  <2>7. Cardinality(recent \cup {last}) \in Nat
    BY <2>5, FS_CardinalityType
  <2>8. Cardinality(counted) <= limits.submitRate
    <3> HIDE DEF counted
    <3> QED
      BY <2>1, <2>5, <2>6, <2>7
  <2> QED
    BY <2>8
<1>6. \A n \in 1..last : n \in DOMAIN sent \/ n = last
  BY <1>1, <1>2
<1>7. \A n \in DOMAIN sent' :
        Cardinality({k \in 1..n : sent'[n].at - sent'[k].at < RateWindow}) <= limits.submitRate
  BY <1>2, <1>4, <1>5, <1>6
<1> QED
  BY <1>3, <1>7 DEF SubmitRateHolds

LEMMA MakerSubmit == MakerInv /\ Submit => MakerInv'
<1> SUFFICES ASSUME MakerInv, Submit PROVE MakerInv'
  OBVIOUS
<1>1. ClockInv'
  BY DEF MakerInv, ClockInv, Submit, Goto, Ended, clocks, work
<1>2. CASE phase' = "failed"
  <2>1. CommandInv'
    BY <1>2 DEF MakerInv, CommandInv, Submit, Begun, Placing, Goto, CapsRequested, AsApproved,
       SameSession, SameLimits, PoliciesAllow, limits, maker, approval
  <2>2. SentInv'
    BY <1>2, SentKept DEF Submit, clocks, Goto
  <2> QED
    BY <1>1, <1>2, <2>1, <2>2 DEF MakerInv, ChosenInv, RiskInv, PlanInv, CheckedInv
<1>3. CASE phase' # "failed"
  <2>1. sent' = Append(sent, Order) /\ phase' = "resting" /\ UNCHANGED <<request, clocks, work>>
        /\ phase = "submit"
    BY <1>3 DEF Submit, Goto
  <2>2. Order \in SentOrder /\ Sound(Order) /\ Order.at = now /\ Notional(Order) = Notional(plan)
    BY <2>1, OrderIsSound
  <2>3. sent \in Seq(SentOrder) /\ now \in Nat
    BY SessionTypes DEF MakerInv, SentInv
  <2>4. CommandInv'
    <3>1. Len(sent') = Len(sent) + 1 /\ Len(sent) < request.orders /\ request.orders \in Nat
      BY <2>1, <2>3, RequestsAssumption DEF MakerInv, CommandInv, Placing
    <3> QED
      BY <2>1, <3>1 DEF MakerInv, CommandInv, Begun, Placing, CapsRequested, AsApproved,
         SameSession, SameLimits, PoliciesAllow, limits, maker, approval
  <2>5. SentInv'
    <3>1. sent' \in Seq(SentOrder) /\ SubmitRateHolds'
      BY <2>1, <2>2, <2>3, RateKept DEF clocks
    <3>2. (Total(sent) <= approval.limits.total)'
      <4>1. Total(sent') = Total(sent) + Notional(plan)
        BY <2>1, <2>2, <2>3, TotalAppend
      <4>2. Total(sent)' = Total(sent')
        BY DEF Total, Notional
      <4> QED
        BY <2>1, <4>1, <4>2 DEF MakerInv, CheckedInv, approval
    <3>3. \A n \in DOMAIN sent' : Sound(sent'[n]) /\ sent'[n].at <= now
      BY <2>1, <2>2, <2>3 DEF MakerInv, SentInv
    <3>4. \A o : Sound(o)' <=> Sound(o)
      BY <2>1 DEF Sound, approval, limits, clocks, Notional
    <3>5. \A n \in DOMAIN sent' : (Sound(sent[n]) /\ sent[n].at <= now)'
      BY <2>1, <3>3 DEF Sound, approval, limits, clocks, Notional
    <3> QED
      BY <3>1, <3>2, <3>5 DEF SentInv
  <2>6. ChosenInv' /\ PlanInv'
    BY <2>1 DEF MakerInv, ChosenInv, PlanInv, clocks, work, ChosenIsSound, PlanIsSound, limits, maker
  <2> QED
    BY <1>1, <2>1, <2>4, <2>5, <2>6 DEF MakerInv, RiskInv, CheckedInv
<1> QED
  BY <1>2, <1>3

(* Time only makes what was counted recent less. *)
LEMMA MakerTick == MakerInv /\ Tick => MakerInv'
<1> SUFFICES ASSUME MakerInv, Tick PROVE MakerInv'
  OBVIOUS
<1>0. now' = now + 1 /\ now' \in 0..MaxTime /\ now \in Nat
      /\ UNCHANGED <<request, phase, started, asOf, cash, chosen, riskedAt, plan, sent>>
  BY SessionTypes, QuotingAssumption DEF Tick, work
<1>1. CommandInv'
  BY <1>0 DEF MakerInv, CommandInv, Begun, Placing, Goto, CapsRequested, AsApproved, SameSession,
     SameLimits, PoliciesAllow, limits, maker, approval
<1>2. ClockInv'
  BY <1>0 DEF MakerInv, ClockInv, Ended
<1>3. SentInv'
  <2>1. sent \in Seq(SentOrder) /\ \A n \in DOMAIN sent : sent[n].at \in Nat /\ sent[n].at <= now
    BY SentTimes DEF MakerInv
  <2> QED
    BY <1>0, <2>1, SMTT(60) DEF MakerInv, SentInv, SubmitRateHolds, Sound, approval, limits, Total, Notional
<1>4. ChosenInv'
  BY <1>0 DEF MakerInv, ChosenInv, ChosenIsSound, limits
<1>5. RiskInv'
  <2> DEFINE before == {n \in DOMAIN sent : now - sent[n].at < RateWindow}
             after == {n \in DOMAIN sent : now' - sent[n].at < RateWindow}
  <2>1. sent \in Seq(SentOrder) /\ \A n \in DOMAIN sent : sent[n].at \in Nat
    BY SentTimes DEF MakerInv
  <2>2. after \in SUBSET before /\ before \in SUBSET DOMAIN sent
    BY <1>0, <2>1, QuotingAssumption
  <2>3. IsFiniteSet(DOMAIN sent)
    BY <2>1, FS_Interval
  <2>4. Recent(sent) = Cardinality(before) /\ Recent(sent)' = Cardinality(after)
    BY <1>0 DEF Recent
  <2> HIDE DEF before, after
  <2>5. /\ Cardinality(before) \in Nat /\ Cardinality(after) \in Nat
        /\ Cardinality(after) <= Cardinality(before)
    BY <2>2, <2>3, FS_Subset, FS_CardinalityType
  <2>6. limits' = limits /\ limits.submitRate \in Nat
    BY <1>0, SessionTypes DEF limits
  <2>7. RiskInv
    BY DEF MakerInv
  <2> QED
    BY <1>0, <2>4, <2>5, <2>6, <2>7 DEF RiskInv, maker
<1>6. PlanInv'
  <2>1. riskedAt \in Nat /\ maker.ttl \in Nat
    BY SessionTypes DEF MakerInv, ClockInv
  <2> QED
    BY <1>0, <2>1 DEF MakerInv, PlanInv, PlanIsSound, maker
<1>7. CheckedInv'
  BY <1>0 DEF MakerInv, CheckedInv, approval, Notional, Total
<1> QED
  BY <1>1, <1>2, <1>3, <1>4, <1>5, <1>6, <1>7 DEF MakerInv

LEMMA MakerNext == MakerInv /\ [Next]_vars => MakerInv'
<1> SUFFICES ASSUME MakerInv, [Next]_vars PROVE MakerInv'
  OBVIOUS
<1>1. CASE UNCHANGED vars
  <2>1. UNCHANGED <<request, phase, now, started, asOf, cash, chosen, riskedAt, plan, sent>>
    BY <1>1 DEF vars, clocks, work
  <2>2. SentInv'
    BY <2>1, SentKept
  <2>3. CommandInv'
    BY <2>1 DEF MakerInv, CommandInv, Begun, Placing, Goto, CapsRequested, AsApproved, SameSession,
       SameLimits, PoliciesAllow, limits, maker, approval
  <2>4. ClockInv' /\ ChosenInv' /\ RiskInv'
    BY <2>1 DEF MakerInv, ClockInv, ChosenInv, RiskInv, Ended, ChosenIsSound, limits, maker, Recent
  <2>5. PlanInv' /\ CheckedInv'
    BY <2>1 DEF MakerInv, PlanInv, CheckedInv, PlanIsSound, approval, maker, Notional, Total
  <2> QED
    BY <2>2, <2>3, <2>4, <2>5 DEF MakerInv
<1> QED
  BY <1>1, MakerCommand, MakerTakeSlot, MakerDiscover, MakerSelect, MakerRisk, MakerPlan,
     MakerCheckPlan, MakerSubmit, MakerSettle, MakerTick DEF Next

-----------------------------------------------------------------------------
(* Ticks of the quote manager.                                             *)

Made == {"Place", "Skip", "Leave", "Replace", "Cancel", "Expire", "Halt"}
CancelKinds == {"Cancel", "Expire", "Replace"}

LEMMA UsedUp ==
  ASSUME NEW t \in Manager!Tick, NEW u \in Manager!Usage
  PROVE  LET w == Manager!WithUsage(t, u) IN
         /\ w.submits = t.submits + u.submits /\ w.cancels = t.cancels + u.cancels
         /\ w.replacements = t.replacements + u.replacements
         /\ w.used = t.used + u.replacements
         /\ w.window = t.window /\ w.proposal = t.proposal
BY DEF Manager!WithUsage, Manager!Tick, Manager!Usage

(* What a decision on an open quote says of the tick. *)
LEMMA QuoteDecided ==
  ASSUME NEW t \in Manager!Tick, NEW q \in Manager!Quote, NEW u \in Manager!Usage
  PROVE  LET d == Manager!OnQuote(t, q, u) IN
         /\ d \in Made \ {"Place", "Skip"}
         /\ d \in CancelKinds => t.cancels + u.cancels < MaxCancelRate
         /\ d = "Replace" => /\ t.submits + u.submits < MaxSubmitRate
                             /\ t.replacements + u.replacements < MaxReplacementRate
                             /\ t.used + u.replacements < MaxReplacements
                             /\ ~ t.window /\ t.proposal = "sound"
         /\ d \in {"Leave", "Replace"} =>
              Manager!Sound(t) /\ ~ q.ttlExpired /\ (t.window => LeaveOpenInWindow)
<1> DEFINE w == Manager!WithUsage(t, u)
           d == Manager!OnQuote(t, q, u)
<1>1. /\ w.submits = t.submits + u.submits /\ w.cancels = t.cancels + u.cancels
      /\ w.replacements = t.replacements + u.replacements
      /\ w.used = t.used + u.replacements
      /\ w.window = t.window /\ w.proposal = t.proposal
  BY UsedUp
<1>2. t.proposal \in {"none", "weak", "crossing", "sound"}
  BY DEF Manager!Tick, Manager!Proposals
<1>3. CASE Manager!Gate(t) = "halt"
  BY <1>3 DEF Manager!OnQuote, Made, CancelKinds
<1>4. CASE Manager!Gate(t) = "cancel"
  <2>1. d = Manager!ExactOrder(w, q, "Cancel")
    BY <1>4 DEF Manager!OnQuote
  <2> HIDE DEF w
  <2> QED
    BY <1>1, <2>1 DEF Manager!ExactOrder, Made, CancelKinds
<1>5. CASE Manager!Gate(t) \notin {"halt", "cancel"}
  <2>1. d = Manager!ExistingQuote(w, q)
    BY <1>5 DEF Manager!OnQuote
  <2>2. Manager!Sound(t)
    BY <1>5 DEF Manager!Gate, Manager!Sound
  <2>3. /\ d \in Made \ {"Place", "Skip"}
        /\ d \in CancelKinds => w.cancels < MaxCancelRate
        /\ d = "Replace" => Manager!MayReplace(w) /\ ~ w.window /\ w.proposal = "sound"
        /\ d \in {"Leave", "Replace"} => ~ q.ttlExpired /\ (w.window => LeaveOpenInWindow)
    <3> HIDE DEF w, d
    <3> QED
      BY <1>1, <1>2, <2>1
      DEF Manager!ExistingQuote, Manager!ExactOrder, Manager!Replacement, Made, CancelKinds
  <2>4. Manager!MayReplace(w) =>
          /\ t.submits + u.submits < MaxSubmitRate
          /\ t.replacements + u.replacements < MaxReplacementRate
          /\ t.used + u.replacements < MaxReplacements
    <3> HIDE DEF w
    <3> QED
      BY <1>1 DEF Manager!MayReplace
  <2> HIDE DEF w
  <2> QED
    BY <1>1, <2>2, <2>3, <2>4
<1> QED
  BY <1>3, <1>4, <1>5

LEMMA NoneDecided ==
  ASSUME NEW t \in Manager!Tick
  PROVE  LET d == Manager!OnNone(t) IN
         /\ d \in {"Place", "Skip"}
         /\ d = "Place" => t.submits < MaxSubmitRate /\ Manager!Sound(t) /\ ~ t.window /\ t.proposal = "sound"
BY DEF Manager!OnNone, Manager!NewQuote, Manager!Gate, Manager!Sound

CountIn(list, kinds) == Cardinality({n \in DOMAIN list : list[n] \in kinds})

LEMMA CountType ==
  ASSUME NEW list \in Seq(Made), NEW kinds
  PROVE  CountIn(list, kinds) \in Nat
<1> DEFINE S == {n \in DOMAIN list : list[n] \in kinds}
<1>1. IsFiniteSet(1..Len(list)) /\ DOMAIN list = 1..Len(list)
  BY FS_Interval
<1>2. S \in SUBSET (1..Len(list))
  BY <1>1
<1> HIDE DEF S
<1>3. IsFiniteSet(S)
  BY <1>1, <1>2, FS_Subset
<1> QED
  BY <1>3, FS_CardinalityType DEF CountIn, S

LEMMA CountAppend ==
  ASSUME NEW list \in Seq(Made), NEW d \in Made, NEW kinds
  PROVE  CountIn(Append(list, d), kinds) = CountIn(list, kinds) + (IF d \in kinds THEN 1 ELSE 0)
<1> DEFINE S == {n \in DOMAIN list : list[n] \in kinds}
           T == {n \in DOMAIN Append(list, d) : Append(list, d)[n] \in kinds}
           last == Len(list) + 1
<1>1. IsFiniteSet(1..Len(list)) /\ DOMAIN list = 1..Len(list)
  BY FS_Interval
<1>2. S \in SUBSET (1..Len(list)) /\ last \notin S
  BY <1>1
<1>3. T = S \cup (IF d \in kinds THEN {last} ELSE {})
  <2>1. DOMAIN Append(list, d) = 1..last /\ Append(list, d)[last] = d
    OBVIOUS
  <2>2. \A n \in 1..Len(list) : Append(list, d)[n] = list[n]
    OBVIOUS
  <2>3. \A n \in 1..last : n \in 1..Len(list) \/ n = last
    OBVIOUS
  <2>4. \A n \in 1..Len(list) : n \in 1..last /\ n # last
    OBVIOUS
  <2>5. last \in 1..last
    OBVIOUS
  <2> HIDE DEF last
  <2> QED
    BY <1>1, <2>1, <2>2, <2>3, <2>4, <2>5
<1> HIDE DEF S, T, last
<1>4. IsFiniteSet(S)
  BY <1>1, <1>2, FS_Subset
<1>5. Cardinality(S \cup {last}) = Cardinality(S) + 1 /\ Cardinality(S) \in Nat
  <2>1. Cardinality(S) \in Nat
    BY <1>4, FS_CardinalityType
  <2> QED
    BY <1>2, <1>4, <2>1, FS_AddElement
<1>6. CountIn(list, kinds) = Cardinality(S) /\ CountIn(Append(list, d), kinds) = Cardinality(T)
  BY DEF CountIn, S, T
<1>7. CASE d \in kinds
  BY <1>3, <1>5, <1>6, <1>7
<1>8. CASE d \notin kinds
  BY <1>3, <1>5, <1>6, <1>8
<1> QED
  BY <1>7, <1>8

LEMMA CountNone == ASSUME NEW kinds PROVE CountIn(<< >>, kinds) = 0
<1>1. DOMAIN << >> = {}
  BY << >> \in [{} -> {}]
<1> QED
  BY <1>1, FS_EmptySet DEF CountIn

(* A tick counts what it decided as the rates count it, and stands by it.  *)
Counted ==
  /\ usage.submits = CountIn(decisions, {"Place", "Replace"})
  /\ usage.cancels = CountIn(decisions, CancelKinds)
  /\ usage.replacements = CountIn(decisions, {"Replace"})
TickInv ==
  /\ tick \in Ticks /\ usage \in Manager!Usage /\ decisions \in Seq(Made)
  /\ tick.quotes # << >> => (Len(decisions) <= Len(tick.quotes) /\ Counted)
  /\ Manager!RatesHold
  /\ Manager!KeptOnlyWhenSound

LEMMA TickTypes ==
  ASSUME NEW t \in Ticks
  PROVE  /\ t \in Manager!Tick /\ t.quotes \in Seq(Manager!Quote)
         /\ t.submits \in Nat /\ t.cancels \in Nat /\ t.replacements \in Nat /\ t.used \in Nat
<1>1. t \in Manager!Tick
  BY TicksAssumption
<1> QED
  BY <1>1 DEF Manager!Tick

LEMMA Counting == \A S : Manager!Cardinality(S) = Cardinality(S)
BY DEF Manager!Cardinality, Cardinality

LEMMA RatesAre ==
  Manager!RatesHold <=>
    /\ Manager!Within(tick.submits, CountIn(decisions, {"Place", "Replace"}), MaxSubmitRate)
    /\ Manager!Within(tick.cancels, CountIn(decisions, CancelKinds), MaxCancelRate)
    /\ Manager!Within(tick.replacements, CountIn(decisions, {"Replace"}), MaxReplacementRate)
    /\ Manager!Within(tick.used, CountIn(decisions, {"Replace"}), MaxReplacements)
<1>1. \A kinds : Manager!Count(kinds) = CountIn(decisions, kinds)
  BY Counting DEF Manager!Count, CountIn
<1>2. CancelKinds = {"Cancel", "Expire", "Replace"}
  BY DEF CancelKinds
<1> QED
  BY <1>1, <1>2 DEF Manager!RatesHold

LEMMA WithinOneMore ==
  ASSUME NEW b \in Nat, NEW m \in Nat, NEW limit \in Nat, NEW n,
         Manager!Within(b, m, limit), n = m \/ (n = m + 1 /\ b + m < limit)
  PROVE  Manager!Within(b, n, limit)
BY DEF Manager!Within

LEMMA TickInit == Manager!Init => TickInv
<1> SUFFICES ASSUME Manager!Init PROVE TickInv
  OBVIOUS
<1>1. decisions = << >> /\ DOMAIN << >> = {} /\ << >> \in Seq(Made) /\ Len(<< >>) = 0
  BY << >> \in [{} -> {}] DEF Manager!Init
<1>2. usage = Manager!NoUsage /\ usage \in Manager!Usage
      /\ usage.submits = 0 /\ usage.cancels = 0 /\ usage.replacements = 0
  BY DEF Manager!Init, Manager!NoUsage, Manager!Usage
<1>3. Counted
  BY <1>1, <1>2, CountNone DEF Counted
<1>4. Manager!RatesHold
  BY <1>1, CountNone, RatesAre DEF Manager!Within
<1>5. Manager!KeptOnlyWhenSound
  BY <1>1 DEF Manager!KeptOnlyWhenSound
<1>6. tick \in Ticks /\ Len(tick.quotes) \in Nat
  BY TickTypes DEF Manager!Init
<1> QED
  BY <1>1, <1>2, <1>3, <1>4, <1>5, <1>6 DEF TickInv

LEMMA DecideNextKeeps == TickInv /\ Manager!DecideNext => TickInv'
<1> SUFFICES ASSUME TickInv, Manager!DecideNext PROVE TickInv'
  OBVIOUS
<1> DEFINE k == Len(decisions) + 1
           q == tick.quotes[k]
           d == Manager!OnQuote(tick, q, usage)
<1>1. /\ Len(decisions) < Len(tick.quotes) /\ tick' = tick
      /\ decisions' = Append(decisions, d) /\ usage' = Manager!WithDecision(usage, d)
  BY DEF Manager!DecideNext
<1>2. /\ tick \in Ticks /\ usage \in Manager!Usage /\ decisions \in Seq(Made)
      /\ tick \in Manager!Tick /\ tick.quotes \in Seq(Manager!Quote)
      /\ tick.submits \in Nat /\ tick.cancels \in Nat /\ tick.replacements \in Nat /\ tick.used \in Nat
  BY TickTypes DEF TickInv
<1>3. tick.quotes # << >> /\ Counted /\ k \in DOMAIN tick.quotes /\ q \in Manager!Quote
      /\ k <= Len(tick.quotes)
  BY <1>1, <1>2 DEF TickInv
<1>4. /\ d \in Made \ {"Place", "Skip"}
      /\ d \in CancelKinds => tick.cancels + usage.cancels < MaxCancelRate
      /\ d = "Replace" => /\ tick.submits + usage.submits < MaxSubmitRate
                          /\ tick.replacements + usage.replacements < MaxReplacementRate
                          /\ tick.used + usage.replacements < MaxReplacements
                          /\ ~ tick.window /\ tick.proposal = "sound"
      /\ d \in {"Leave", "Replace"} =>
           Manager!Sound(tick) /\ ~ q.ttlExpired /\ (tick.window => LeaveOpenInWindow)
  BY <1>2, <1>3, QuoteDecided
<1> HIDE DEF d
<1>5. /\ usage.submits \in Nat /\ usage.cancels \in Nat /\ usage.replacements \in Nat
      /\ usage' \in Manager!Usage
      /\ usage'.submits = usage.submits + (IF d = "Replace" THEN 1 ELSE 0)
      /\ usage'.cancels = usage.cancels + (IF d \in CancelKinds THEN 1 ELSE 0)
      /\ usage'.replacements = usage.replacements + (IF d = "Replace" THEN 1 ELSE 0)
  <2>1. /\ usage = [submits |-> usage.submits, cancels |-> usage.cancels,
                    replacements |-> usage.replacements]
        /\ usage.submits \in Nat /\ usage.cancels \in Nat /\ usage.replacements \in Nat
    BY <1>2 DEF Manager!Usage
  <2>2. CASE d = "Replace"
    BY <1>1, <2>1, <2>2, SMTT(60) DEF Manager!WithDecision, Manager!Usage, CancelKinds
  <2>3. CASE d \in {"Cancel", "Expire"}
    BY <1>1, <2>1, <2>3 DEF Manager!WithDecision, Manager!Usage, CancelKinds
  <2>4. CASE d \notin {"Replace", "Cancel", "Expire"}
    <3>1. usage' = usage
      BY <1>1, <2>4 DEF Manager!WithDecision
    <3> QED
      BY <1>2, <2>1, <2>4, <3>1 DEF CancelKinds
  <2> QED
    BY <2>2, <2>3, <2>4
<1>6. \A kinds : CountIn(decisions', kinds) = CountIn(decisions, kinds) + (IF d \in kinds THEN 1 ELSE 0)
  BY <1>1, <1>2, <1>4, CountAppend
<1>7. d \in {"Place", "Replace"} <=> d = "Replace"
  BY <1>4
<1>8. /\ CountIn(decisions', {"Place", "Replace"}) = usage'.submits
      /\ CountIn(decisions', CancelKinds) = usage'.cancels
      /\ CountIn(decisions', {"Replace"}) = usage'.replacements
  BY <1>3, <1>5, <1>6, <1>7 DEF Counted
<1>9. Manager!RatesHold'
  <2>1. /\ MaxSubmitRate \in Nat /\ MaxCancelRate \in Nat /\ MaxReplacementRate \in Nat
        /\ MaxReplacements \in Nat
    BY PolicyAssumption
  <2>2. /\ Manager!Within(tick.submits, usage.submits, MaxSubmitRate)
        /\ Manager!Within(tick.cancels, usage.cancels, MaxCancelRate)
        /\ Manager!Within(tick.replacements, usage.replacements, MaxReplacementRate)
        /\ Manager!Within(tick.used, usage.replacements, MaxReplacements)
    BY <1>3, RatesAre DEF TickInv, Counted
  <2>3. /\ Manager!Within(tick.submits, usage'.submits, MaxSubmitRate)
        /\ Manager!Within(tick.cancels, usage'.cancels, MaxCancelRate)
        /\ Manager!Within(tick.replacements, usage'.replacements, MaxReplacementRate)
        /\ Manager!Within(tick.used, usage'.replacements, MaxReplacements)
    <3>1. /\ usage'.submits = usage.submits
             \/ (/\ usage'.submits = usage.submits + 1
                 /\ tick.submits + usage.submits < MaxSubmitRate)
          /\ usage'.cancels = usage.cancels
             \/ (/\ usage'.cancels = usage.cancels + 1
                 /\ tick.cancels + usage.cancels < MaxCancelRate)
          /\ usage'.replacements = usage.replacements
             \/ /\ usage'.replacements = usage.replacements + 1
                /\ tick.replacements + usage.replacements < MaxReplacementRate
                /\ tick.used + usage.replacements < MaxReplacements
      BY <1>4, <1>5
    <3>2. /\ Manager!Within(tick.submits, usage'.submits, MaxSubmitRate)
          /\ Manager!Within(tick.cancels, usage'.cancels, MaxCancelRate)
      BY <1>2, <1>5, <2>1, <2>2, <3>1, WithinOneMore
    <3>3. /\ Manager!Within(tick.replacements, usage'.replacements, MaxReplacementRate)
          /\ Manager!Within(tick.used, usage'.replacements, MaxReplacements)
      BY <1>2, <1>5, <2>1, <2>2, <3>1, WithinOneMore
    <3> QED
      BY <3>2, <3>3
  <2>4. \A kinds : Manager!Count(kinds)' = CountIn(decisions', kinds)
    BY Counting DEF Manager!Count, CountIn
  <2>5. CancelKinds = {"Cancel", "Expire", "Replace"}
    BY DEF CancelKinds
  <2>6. /\ Manager!Count({"Place", "Replace"})' = usage'.submits
        /\ Manager!Count({"Cancel", "Expire", "Replace"})' = usage'.cancels
        /\ Manager!Count({"Replace"})' = usage'.replacements
    BY <1>8, <2>4, <2>5
  <2> QED
    BY <1>1, <2>3, <2>6 DEF Manager!RatesHold, Manager!Within
<1>10. Manager!KeptOnlyWhenSound'
  <2>1. /\ DOMAIN decisions' = 1..k /\ decisions'[k] = d /\ DOMAIN decisions = 1..Len(decisions)
        /\ \A n \in DOMAIN decisions : decisions'[n] = decisions[n]
    BY <1>1, <1>2, <1>4
  <2>2. \A n \in DOMAIN decisions' : n \in DOMAIN decisions \/ n = k
    BY <2>1, <1>2
  <2>3. /\ d \in {"Leave", "Replace", "Place"} => Manager!Sound(tick)
        /\ d \in {"Replace", "Place"} => ~ tick.window /\ tick.proposal = "sound"
        /\ d \in {"Leave", "Replace"} => ~ q.ttlExpired /\ (tick.window => LeaveOpenInWindow)
    BY <1>4
  <2>4. Manager!KeptOnlyWhenSound
    BY DEF TickInv
  <2>5. Manager!Sound(tick)' <=> Manager!Sound(tick)
    BY <1>1 DEF Manager!Sound
  <2> HIDE DEF k
  <2> QED
    BY <1>1, <2>1, <2>2, <2>3, <2>4, <2>5 DEF Manager!KeptOnlyWhenSound
<1>11. decisions' \in Seq(Made) /\ Len(decisions') = k
  BY <1>1, <1>2, <1>4
<1> QED
  BY <1>1, <1>2, <1>3, <1>5, <1>8, <1>9, <1>10, <1>11 DEF TickInv, Counted

LEMMA DecideNoneKeeps == TickInv /\ Manager!DecideNone => TickInv'
<1> SUFFICES ASSUME TickInv, Manager!DecideNone PROVE TickInv'
  OBVIOUS
<1> DEFINE d == Manager!OnNone(tick)
<1>1. /\ tick.quotes = << >> /\ decisions = << >> /\ decisions' = << d >>
      /\ tick' = tick /\ usage' = usage
  BY DEF Manager!DecideNone
<1>2. /\ tick \in Ticks /\ tick \in Manager!Tick /\ usage \in Manager!Usage
      /\ tick.submits \in Nat /\ tick.cancels \in Nat /\ tick.replacements \in Nat /\ tick.used \in Nat
  BY TickTypes DEF TickInv
<1>3. /\ d \in {"Place", "Skip"}
      /\ d = "Place" => tick.submits < MaxSubmitRate /\ Manager!Sound(tick)
                        /\ ~ tick.window /\ tick.proposal = "sound"
  BY <1>2, NoneDecided
<1> HIDE DEF d
<1>4. << d >> = Append(<< >>, d) /\ << >> \in Seq(Made) /\ d \in Made
  BY <1>3 DEF Made
<1>5. \A kinds : CountIn(decisions', kinds) = IF d \in kinds THEN 1 ELSE 0
  <2>1. \A kinds : CountIn(Append(<< >>, d), kinds) = CountIn(<< >>, kinds) + (IF d \in kinds THEN 1 ELSE 0)
    BY <1>4, CountAppend
  <2> QED
    BY <1>1, <1>4, <2>1, CountNone
<1>6. /\ CountIn(decisions', {"Place", "Replace"}) = (IF d = "Place" THEN 1 ELSE 0)
      /\ CountIn(decisions', CancelKinds) = 0 /\ CountIn(decisions', {"Replace"}) = 0
  BY <1>3, <1>5 DEF CancelKinds
<1>7. Manager!RatesHold'
  <2>1. /\ Manager!Within(tick.submits, CountIn(decisions', {"Place", "Replace"}), MaxSubmitRate)
        /\ Manager!Within(tick.cancels, CountIn(decisions', CancelKinds), MaxCancelRate)
        /\ Manager!Within(tick.replacements, CountIn(decisions', {"Replace"}), MaxReplacementRate)
        /\ Manager!Within(tick.used, CountIn(decisions', {"Replace"}), MaxReplacements)
    BY <1>2, <1>3, <1>6, PolicyAssumption DEF Manager!Within
  <2>2. \A kinds : Manager!Count(kinds)' = CountIn(decisions', kinds)
    BY Counting DEF Manager!Count, CountIn
  <2>3. CancelKinds = {"Cancel", "Expire", "Replace"}
    BY DEF CancelKinds
  <2> QED
    BY <1>1, <2>1, <2>2, <2>3 DEF Manager!RatesHold, Manager!Within
<1>8. Manager!KeptOnlyWhenSound'
  <2>1. DOMAIN decisions' = {1} /\ decisions'[1] = d
    BY <1>1
  <2>2. Manager!Sound(tick)' <=> Manager!Sound(tick)
    BY <1>1 DEF Manager!Sound
  <2> QED
    BY <1>1, <1>3, <2>1, <2>2 DEF Manager!KeptOnlyWhenSound
<1>9. decisions' \in Seq(Made)
  BY <1>1, <1>4
<1> QED
  BY <1>1, <1>2, <1>7, <1>8, <1>9 DEF TickInv

-----------------------------------------------------------------------------
(* A behaviour is a session's or a tick's; the variables of the other rest *)
(* where they started.                                                     *)
Idle ==
  /\ request = Nothing /\ phase = "refused" /\ now = 0 /\ started = 0 /\ asOf = 0
  /\ cash = 0 /\ chosen = Nothing /\ riskedAt = 0 /\ plan = Nothing /\ sent = << >>
QuotingInv == IF Quoting THEN MakerInv ELSE Idle /\ TickInv

LEMMA TicksAreTicks == \A t \in Ticks : t # Nothing
<1> SUFFICES ASSUME NEW t \in Ticks PROVE t # Nothing
  OBVIOUS
<1>1. "quotes" \in DOMAIN t
  BY TickTypes DEF Manager!Tick
<1>2. "quotes" \notin DOMAIN Nothing
  BY DEF Nothing
<1> QED
  BY <1>1, <1>2

LEMMA QuotingInvInit == QuotingInit => QuotingInv
<1>1. Init /\ tick = Nothing => QuotingInv
  BY MakerInit DEF QuotingInv, Quoting
<1>2. Manager!Init /\ Idle => QuotingInv
  BY TickInit, TicksAreTicks DEF QuotingInv, Quoting, Manager!Init
<1> QED
  BY <1>1, <1>2 DEF QuotingInit, Idle

LEMMA QuotingInvNext == QuotingInv /\ [QuotingNext]_quotingVars => QuotingInv'
<1> SUFFICES ASSUME QuotingInv, [QuotingNext]_quotingVars PROVE QuotingInv'
  OBVIOUS
<1>1. CASE Quoting
  <2>1. tick = Nothing /\ MakerInv
    BY <1>1 DEF QuotingInv, Quoting
  <2>2. [Next]_vars /\ tick' = tick
    BY <1>1 DEF QuotingNext, quotingVars
  <2> QED
    BY <2>1, <2>2, MakerNext DEF QuotingInv, Quoting
<1>2. CASE ~ Quoting
  <2>1. Idle /\ TickInv /\ tick # Nothing
    BY <1>2 DEF QuotingInv, Quoting
  <2>2. Manager!Next \/ UNCHANGED <<tick, decisions, usage>>
    BY <1>2 DEF QuotingNext, quotingVars
  <2>3. UNCHANGED vars
    BY <1>2 DEF QuotingNext, quotingVars
  <2>4. Idle'
    BY <2>1, <2>3 DEF Idle, vars, clocks, work, Nothing
  <2>5. CASE Manager!Next
    <3>1. TickInv' /\ tick' = tick
      BY <2>1, <2>5, DecideNextKeeps, DecideNoneKeeps
      DEF Manager!Next, Manager!DecideNext, Manager!DecideNone
    <3> QED
      BY <2>1, <2>4, <3>1 DEF QuotingInv, Quoting, Nothing
  <2>6. CASE UNCHANGED <<tick, decisions, usage>>
    <3>1. TickInv'
      BY <2>1, <2>6 DEF TickInv, Counted, CountIn, Manager!RatesHold, Manager!Count,
         Manager!KeptOnlyWhenSound, Manager!Sound
    <3> QED
      BY <2>1, <2>4, <2>6, <3>1 DEF QuotingInv, Quoting, Nothing
  <2> QED
    BY <2>2, <2>5, <2>6
<1> QED
  BY <1>1, <1>2

THEOREM QuotingInvariant == QuotingSpec => []QuotingInv
BY QuotingInvInit, QuotingInvNext, PTL DEF QuotingSpec

(* The orders of a session are its approval's in number, in size, all      *)
(* together and in the time one rests, and no minute holds more of them    *)
(* than the limit: whatever the config file, the books and the clock.      *)
THEOREM SessionsKeepToTheApproval == QuotingSpec => []KeepsToItsApproval
<1>1. MakerInv => KeepsToItsApproval
  <2> SUFFICES ASSUME MakerInv PROVE KeepsToItsApproval
    OBVIOUS
  <2>1. TypeOK
    BY DEF MakerInv, ClockInv, ChosenInv, ChosenIsSound, PlanInv, PlanIsSound, TypeOK
  <2>2. SentWithinApproval
    <3>1. ASSUME sent # << >>
          PROVE  /\ Len(sent) <= approval.orders
                 /\ Total(sent) <= approval.limits.total
                 /\ \A n \in DOMAIN sent : Sound(sent[n])
      BY <3>1 DEF MakerInv, CommandInv, SentInv, AsApproved, SameSession
    <3> QED
      BY <3>1 DEF SentWithinApproval, Sound
  <2> QED
    BY <2>1, <2>2 DEF KeepsToItsApproval, MakerInv, SentInv
<1>2. Idle => KeepsToItsApproval
  <2> SUFFICES ASSUME Idle PROVE KeepsToItsApproval
    OBVIOUS
  <2>1. DOMAIN sent = {} /\ sent = << >>
    BY << >> \in [{} -> {}] DEF Idle
  <2>2. TypeOK
    BY QuotingAssumption DEF Idle, TypeOK, Ended
  <2> QED
    BY <2>1, <2>2 DEF KeepsToItsApproval, SentWithinApproval, SubmitRateHolds
<1>3. QuotingInv => KeepsToItsApproval
  BY <1>1, <1>2 DEF QuotingInv
<1> QED
  BY <1>3, QuotingInvariant, PTL

(* A quote is due for cancellation before the no-trade window of its       *)
(* market, but for what passes between the risk engine and the plan, and   *)
(* before the session's approved time is over.                             *)
THEOREM SessionsKeepToTheTime == QuotingSpec => []KeepsToItsTime
<1>1. MakerInv => KeepsToItsTime
  <2> SUFFICES ASSUME MakerInv PROVE KeepsToItsTime
    OBVIOUS
  <2>1. \A n \in DOMAIN sent : Sound(sent[n])
    BY DEF MakerInv, SentInv
  <2> QED
    BY <2>1 DEF Sound, KeepsToItsTime, RestsClearOfClose, EndsWithinDuration
<1>2. Idle => KeepsToItsTime
  BY << >> \in [{} -> {}] DEF Idle, KeepsToItsTime, RestsClearOfClose, EndsWithinDuration
<1>3. QuotingInv => KeepsToItsTime
  BY <1>1, <1>2 DEF QuotingInv
<1> QED
  BY <1>3, QuotingInvariant, PTL

(* A quote rests behind the book it was chosen from, a tick below the best *)
(* bid where there is one, and the balance that was read pays for it.      *)
THEOREM SessionsQuoteBehindTheBook == QuotingSpec => []QuotesBehindTheBook
<1>1. MakerInv => QuotesBehindTheBook
  <2> SUFFICES ASSUME MakerInv PROVE QuotesBehindTheBook
    OBVIOUS
  <2>1. \A n \in DOMAIN sent : Sound(sent[n])
    BY DEF MakerInv, SentInv
  <2> QED
    BY <2>1 DEF Sound, QuotesBehindTheBook
<1>2. Idle => QuotesBehindTheBook
  BY << >> \in [{} -> {}] DEF Idle, QuotesBehindTheBook
<1>3. QuotingInv => QuotesBehindTheBook
  BY <1>1, <1>2 DEF QuotingInv
<1> QED
  BY <1>3, QuotingInvariant, PTL

(* However many quotes are open, one tick of the quote manager asks for no *)
(* more submits, cancels and replacements than are left of the rates and   *)
(* of the approval.                                                        *)
THEOREM TicksHoldTheRates == QuotingSpec => []RatesHold
<1>1. QuotingInv => RatesHold
  BY DEF QuotingInv, TickInv, RatesHold
<1> QED
  BY <1>1, QuotingInvariant, PTL

(* No open quote is left alone, replaced or joined by another on grounds a *)
(* gate further up has ruled out.                                          *)
THEOREM TicksKeepOnlyWhatIsSound == QuotingSpec => []KeptOnlyWhenSound
<1>1. QuotingInv => KeptOnlyWhenSound
  BY DEF QuotingInv, TickInv, KeptOnlyWhenSound
<1> QED
  BY <1>1, QuotingInvariant, PTL
=============================================================================
