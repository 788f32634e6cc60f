--------------------------- MODULE MCLiveQuoting ---------------------------
(* An LA5 command of two orders and an LA6 command of one, each with the   *)
(* approval that fits it and with every approval wrong in one place, and   *)
(* LA5 with tighter limits.  A clock of eleven seconds, of which a submit  *)
(* rate's minute is four and the venue's GTD buffer two.                   *)
(* Of ticks: up to three open quotes of seven sorts, any state of the      *)
(* gates, rates one or two calls below or at their limits.                 *)
EXTENDS LiveQuoting

Limits ==
  [single |-> 6, total |-> 10, usage |-> 8, reserved |-> 8, fees |-> 0, market |-> 10,
   asset |-> 10, openOrders |-> 1, marketOrders |-> 1, assetOrders |-> 1, submitRate |-> 1,
   cancelRate |-> 1, bookAge |-> 1, referenceAge |-> 1, noTrade |-> 2,
   dailyRealizedLoss |-> 0, dailyUnrealizedLoss |-> 0]
Maker == [enabled |-> TRUE, postOnly |-> TRUE, gtd |-> TRUE, ttl |-> 2, minEdge |-> 1]
Request(kind, orders, duration, l) ==
  [kind |-> kind, orders |-> orders, duration |-> duration, replacements |-> 1,
   limits |-> l, maker |-> Maker, gatesOpen |-> TRUE,
   approval |-> [orders |-> orders, duration |-> duration, replacements |-> 1, ttl |-> 2,
                 gtdDelta |-> 4, limits |-> l, policies |-> "clear", cash |-> 8]]

Fitting ==
  {Request("LA5", 2, 11, Limits), Request("LA5", 2, 11, [Limits EXCEPT !.submitRate = 2]),
   Request("LA5", 2, 9, [Limits EXCEPT !.total = 6]), Request("LA6", 1, 5, Limits)}
Lowered(r) ==
  {[r EXCEPT !.approval.limits[f] = @ - 1] : f \in {"single", "total", "noTrade", "openOrders"}}
OffBySomething(r) ==
  Lowered(r) \cup
  {[r EXCEPT !.approval.orders = 3], [r EXCEPT !.approval.duration = 4],
   [r EXCEPT !.approval.ttl = 1], [r EXCEPT !.approval.gtdDelta = 3],
   [r EXCEPT !.approval.policies = "negated"], [r EXCEPT !.approval.cash = 9],
   [r EXCEPT !.maker.postOnly = FALSE], [r EXCEPT !.gatesOpen = FALSE]}
MCRequests == Fitting \cup UNION {OffBySomething(r) : r \in Fitting}

Book(bid, ask, size, end) ==
  [bid |-> bid, ask |-> ask, minSize |-> size, end |-> end, fair |-> 6, referenceAge |-> 1]
MCBooks == {Book(4, 5, 2, 9), Book(2, 4, 2, 20), Book(1, 2, 3, 9)}
-----------------------------------------------------------------------------
Sort(reasons) ==
  [exact |-> TRUE, ttlExpired |-> FALSE, young |-> FALSE, improved |-> FALSE, reasons |-> reasons]
Healthy == Sort({})
Expired == [Sort({}) EXCEPT !.ttlExpired = TRUE]
Unsafe == Sort({"BookMovedPostOnlyUnsafe"})
Moved == Sort({"FairValueMoved"})
Improvable == [Sort({"FairValueMoved"}) EXCEPT !.improved = TRUE]
YoungOrNot == {[Unsafe EXCEPT !.young = TRUE], [Unsafe EXCEPT !.exact = FALSE]}
Sorts == {Healthy, Expired, Unsafe, Moved, Improvable} \cup YoungOrNot

QuoteLists == {<< >>} \cup {<<a>> : a \in Sorts} \cup {<<a, b>> : a, b \in Sorts}
              \cup {<<a, b, c>> : a \in {Unsafe, Expired}, b \in {Expired, Improvable, Unsafe},
                                  c \in {Unsafe, Moved, Expired}}

Gates ==
  {[sessionExpired |-> e, reconciled |-> r, heartbeatFresh |-> h, marketOpen |-> m,
    dataFresh |-> d, cooldown |-> c, window |-> w, submits |-> 0, cancels |-> 0,
    replacements |-> 0, openOrders |-> 0, used |-> 0, proposal |-> "sound",
    quotes |-> << >>] :
     e \in BOOLEAN, r \in BOOLEAN, h \in BOOLEAN, m \in BOOLEAN, d \in BOOLEAN,
     c \in BOOLEAN, w \in BOOLEAN}
Running ==
  {g \in Gates : /\ ~ g.sessionExpired /\ g.reconciled /\ g.heartbeatFresh /\ g.marketOpen
                 /\ g.dataFresh /\ ~ g.cooldown}

MCTicks ==
  {[g EXCEPT !.quotes = q, !.openOrders = Len(q)] :
     g \in Gates, q \in {l \in QuoteLists : Len(l) < 2}}
  \cup {[g EXCEPT !.quotes = q, !.submits = s, !.cancels = k, !.replacements = 1, !.used = u,
                  !.openOrders = Len(q), !.proposal = p] :
          g \in Running, q \in QuoteLists, s \in {1, 2}, k \in {0, 1},
          u \in {0, 1}, p \in {"none", "weak", "crossing", "sound"}}
=============================================================================
