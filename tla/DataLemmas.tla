----------------------------- MODULE DataLemmas -----------------------------
(***************************************************************************)
(* Facts about the data the models are built from, for every value.        *)
(*                                                                         *)
(* What SumFunctionOnSet(f, S) of the community modules comes to, for any  *)
(* finite S: the sums of sizes, costs and notionals in the models are its  *)
(* instances.  It folds over S in an order that CHOOSE makes; the lemmas   *)
(* here show that the order does not matter (SumRemove) and give the laws  *)
(* of a sum that the other proofs cite.  Each argument by induction takes  *)
(* a least counterexample in the well-founded order of the subsets of S.   *)
(* Sums over parts of a set, and over what lies behind a key, follow.      *)
(*                                                                         *)
(* What the operations of Ratios do to the numbers they stand for: ratios  *)
(* in lowest terms are equal when their values are (SameValue), and so the *)
(* laws of addition and multiplication hold of them.  Last, that FoldLeft  *)
(* over a sequence is what folding step by step gives (FoldExists).        *)
(***************************************************************************)
EXTENDS Ratios, Functions, Integers, Sequences, FiniteSets, FiniteSetTheorems,
        WellFoundedInduction, TLAPS

(* Induction on a finite set, over a set Q of its subsets. *)
LEMMA SubsetInduction ==
  ASSUME NEW S, IsFiniteSet(S), NEW Q, {} \in Q,
         \A T \in SUBSET S : \A x \in S : x \notin T /\ T \in Q => T \cup {x} \in Q
  PROVE  S \in Q
<1> DEFINE Bad == {T \in SUBSET S : T \notin Q}
<1>1. \A T \in SUBSET S : IsFiniteSet(T)
  BY FS_Subset
<1>2. SUFFICES ASSUME Bad # {} PROVE FALSE
  OBVIOUS
<1>3. Bad \subseteq FiniteSubsetsOf(S)
  BY <1>1 DEF FiniteSubsetsOf
<1>4. PICK T \in Bad : \A U \in Bad : ~ (<<U, T>> \in StrictSubsetOrdering(S))
  BY <1>2, <1>3, FS_StrictSubsetOrderingWellFounded, WFMin
<1>5. PICK x \in T : TRUE
  OBVIOUS
<1>6. T \ {x} \in Q
  <2> SUFFICES ASSUME T \ {x} \notin Q PROVE FALSE
    OBVIOUS
  <2>1. T \ {x} \in Bad
    OBVIOUS
  <2>2. <<T \ {x}, T>> \in StrictSubsetOrdering(S)
    BY <1>5 DEF StrictSubsetOrdering
  <2> QED
    BY <2>1, <2>2, <1>4
<1>7. (T \ {x}) \cup {x} = T
  OBVIOUS
<1> QED
  BY <1>6, <1>7

(* Induction on the natural numbers, over a set Q of them. *)
LEMMA NatSetInduction ==
  ASSUME NEW Q, 0 \in Q, \A k \in Nat : k \in Q => k + 1 \in Q
  PROVE  \A k \in Nat : k \in Q
<1> DEFINE Bad == {k \in Nat : k \notin Q}
<1>1. SUFFICES ASSUME Bad # {} PROVE FALSE
  OBVIOUS
<1>2. PICK k \in Bad : \A j \in Bad : ~ (<<j, k>> \in OpToRel(<, Nat))
  BY <1>1, NatLessThanWellFounded, WFMin
<1>3. k \in Nat /\ k # 0 /\ k \notin Q
  OBVIOUS
<1>4. k - 1 \in Nat /\ (k - 1) + 1 = k
  BY <1>3
<1>5. k - 1 \notin Q
  BY <1>3, <1>4
<1>6. <<k - 1, k>> \in OpToRel(<, Nat)
  BY <1>3, <1>4 DEF OpToRel
<1> QED
  BY <1>2, <1>4, <1>5, <1>6

(* The recursive functions that MapThenFoldSet chooses: for a sum of        *)
(* integers, and for one of ratios.                                        *)
Zero(kind) == IF kind = "ratio" THEN Whole(0) ELSE 0
Add(kind, a, b) == IF kind = "ratio" THEN Plus(a, b) ELSE a + b
SumRule(g, f, T, kind) ==
  g = [s \in SUBSET T |-> IF s = {} THEN Zero(kind)
                          ELSE LET x == CHOOSE x \in s : TRUE IN Add(kind, f[x], g[s \ {x}])]
IntegerRule(g, f, T) ==
  g = [s \in SUBSET T |-> IF s = {} THEN 0
                          ELSE LET x == CHOOSE x \in s : TRUE IN f[x] + g[s \ {x}]]
RatioRule(g, f, T) ==
  g = [s \in SUBSET T |-> IF s = {} THEN Whole(0)
                          ELSE LET x == CHOOSE x \in s : TRUE IN Plus(f[x], g[s \ {x}])]

TotalOf(f, S) == FoldFunctionOnSet(Plus, Whole(0), f, S)

LEMMA SumIsByRule ==
  ASSUME NEW f, NEW S
  PROVE  /\ SumFunctionOnSet(f, S) = (CHOOSE g : IntegerRule(g, f, S))[S]
         /\ TotalOf(f, S) = (CHOOSE g : RatioRule(g, f, S))[S]
BY DEF SumFunctionOnSet, TotalOf, FoldFunctionOnSet, MapThenFoldSet, IntegerRule, RatioRule

LEMMA RulesAre ==
  ASSUME NEW g, NEW f, NEW S
  PROVE  /\ IntegerRule(g, f, S) <=> SumRule(g, f, S, "integer")
         /\ RatioRule(g, f, S) <=> SumRule(g, f, S, "ratio")
BY DEF IntegerRule, RatioRule, SumRule, Zero, Add

(* The rule determines its function, also between different domains, and   *)
(* has one.                                                                *)
LEMMA RuleUnique ==
  ASSUME NEW f, NEW S, IsFiniteSet(S), NEW T \in SUBSET S, NEW U \in SUBSET S,
         NEW g, NEW h, NEW kind, SumRule(g, f, T, kind), SumRule(h, f, U, kind),
         NEW s \in SUBSET (T \cap U)
  PROVE  g[s] = h[s]
<1> DEFINE Same == {v \in SUBSET (T \cap U) : g[v] = h[v]}
           Bad == {v \in SUBSET (T \cap U) : g[v] # h[v]}
<1>1. SUFFICES ASSUME Bad # {} PROVE FALSE
  OBVIOUS
<1>2. Bad \subseteq FiniteSubsetsOf(S)
  BY FS_Subset DEF FiniteSubsetsOf
<1>3. PICK v \in Bad : \A u \in Bad : ~ (<<u, v>> \in StrictSubsetOrdering(S))
  BY <1>1, <1>2, FS_StrictSubsetOrderingWellFounded, WFMin
<1>4. v \in SUBSET T /\ v \in SUBSET U
  OBVIOUS
<1>5. CASE v = {}
  BY <1>4, <1>5 DEF SumRule
<1>6. CASE v # {}
  <2> DEFINE x == CHOOSE x \in v : TRUE
  <2>1. x \in v
    BY <1>6
  <2>2. g[v] = Add(kind, f[x], g[v \ {x}]) /\ h[v] = Add(kind, f[x], h[v \ {x}])
    BY <1>4, <1>6 DEF SumRule
  <2>3. <<v \ {x}, v>> \in StrictSubsetOrdering(S)
    BY <2>1, <1>4 DEF StrictSubsetOrdering
  <2>4. v \ {x} \notin Bad
    BY <2>3, <1>3
  <2>5. g[v \ {x}] = h[v \ {x}]
    BY <2>4, <1>4
  <2> QED
    BY <2>2, <2>5
<1> QED
  BY <1>5, <1>6

LEMMA RuleExists ==
  ASSUME NEW f, NEW S, IsFiniteSet(S), NEW kind
  PROVE  \E g : SumRule(g, f, S, kind)
<1> DEFINE Q == {T \in SUBSET S : \E g : SumRule(g, f, T, kind)}
           Bad == {T \in SUBSET S : ~ \E g : SumRule(g, f, T, kind)}
           G(T) == CHOOSE g : SumRule(g, f, T, kind)
<1>1. SUFFICES ASSUME Bad # {} PROVE FALSE
  OBVIOUS
<1>2. Bad \subseteq FiniteSubsetsOf(S)
  BY FS_Subset DEF FiniteSubsetsOf
<1>3. PICK T \in Bad : \A u \in Bad : ~ (<<u, T>> \in StrictSubsetOrdering(S))
  BY <1>1, <1>2, FS_StrictSubsetOrderingWellFounded, WFMin
<1>4. \A u \in SUBSET T : u # T => SumRule(G(u), f, u, kind)
  <2> SUFFICES ASSUME NEW u \in SUBSET T, u # T PROVE SumRule(G(u), f, u, kind)
    OBVIOUS
  <2>1. <<u, T>> \in StrictSubsetOrdering(S)
    BY DEF StrictSubsetOrdering
  <2>2. \E g : SumRule(g, f, u, kind)
    BY <2>1, <1>3
  <2> QED
    BY <2>2
<1> DEFINE Pick(s) == CHOOSE x \in s : TRUE
           H == [s \in SUBSET T |-> IF s = {} THEN Zero(kind)
                                   ELSE Add(kind, f[Pick(s)], G(s \ {Pick(s)})[s \ {Pick(s)}])]
<1>5. \A u \in SUBSET T : u # T => H[u] = G(u)[u]
  <2> SUFFICES ASSUME NEW u \in SUBSET T, u # T PROVE H[u] = G(u)[u]
    OBVIOUS
  <2>1. SumRule(G(u), f, u, kind)
    BY <1>4
  <2>2. CASE u = {}
    <3>1. G(u)[u] = Zero(kind)
      BY <2>1, <2>2, u \in SUBSET u DEF SumRule
    <3> HIDE DEF G
    <3> QED
      BY <3>1, <2>2
  <2>3. CASE u # {}
    <3> DEFINE x == Pick(u)
    <3>1. x \in u
      BY <2>3
    <3>2. u \ {x} \in SUBSET T /\ u \ {x} # T /\ u \ {x} \in SUBSET u
      BY <3>1
    <3>3. SumRule(G(u \ {x}), f, u \ {x}, kind)
      BY <3>2, <1>4
    <3>4. G(u)[u] = Add(kind, f[x], G(u)[u \ {x}])
      BY <2>1, <2>3, u \in SUBSET u DEF SumRule
    <3>5. H[u] = Add(kind, f[x], G(u \ {x})[u \ {x}])
      <4> HIDE DEF G
      <4> QED
        BY <2>3
    <3>6. G(u)[u \ {x}] = G(u \ {x})[u \ {x}]
      <4>1. ASSUME NEW g, NEW h, NEW v \in SUBSET u, SumRule(g, f, u, kind), SumRule(h, f, v, kind)
            PROVE  g[v] = h[v]
        <5>1. u \in SUBSET S /\ v \in SUBSET S /\ v \in SUBSET (u \cap v)
          OBVIOUS
        <5> HIDE DEF Q, Bad, G, H, Pick, x
        <5> QED
          BY <4>1, <5>1, RuleUnique, SMTT(60)
      <4> HIDE DEF G, x
      <4> QED
        BY <4>1, <2>1, <3>2, <3>3
    <3> QED
      BY <3>4, <3>5, <3>6
  <2> QED
    BY <2>2, <2>3
<1>6. SumRule(H, f, T, kind)
  <2>1. ASSUME NEW s \in SUBSET T, s # {}
        PROVE  H[s] = Add(kind, f[Pick(s)], H[s \ {Pick(s)}])
    <3>1. Pick(s) \in s
      BY <2>1
    <3>2. s \ {Pick(s)} \in SUBSET T /\ s \ {Pick(s)} # T
      BY <3>1
    <3>3. H[s \ {Pick(s)}] = G(s \ {Pick(s)})[s \ {Pick(s)}]
      <4> HIDE DEF Pick, H, G
      <4> QED
        BY <1>5, <3>2
    <3>4. H[s] = Add(kind, f[Pick(s)], G(s \ {Pick(s)})[s \ {Pick(s)}])
      <4> HIDE DEF Pick, G
      <4> QED
        BY <2>1
    <3> QED
      BY <3>3, <3>4
  <2>2. H[{}] = Zero(kind)
    <3> HIDE DEF G
    <3> QED
      OBVIOUS
  <2>3. \E R : H = [s \in SUBSET T |-> R[s]]
    <3> WITNESS H
    <3> HIDE DEF G
    <3> QED
      OBVIOUS
  <2>4. H = [s \in SUBSET T |-> H[s]]
    <3> HIDE DEF G, Pick
    <3> QED
      OBVIOUS
  <2> HIDE DEF H
  <2>5. \A s \in SUBSET T :
          H[s] = IF s = {} THEN Zero(kind)
                 ELSE LET x == CHOOSE x \in s : TRUE IN Add(kind, f[x], H[s \ {x}])
    BY <2>1, <2>2
  <2> QED
    BY <2>4, <2>5 DEF SumRule
<1> QED
  BY <1>6

(* The recursion that SumFunctionOnSet and TotalOf follow, from any choice  *)
(* of functions by the rule.                                               *)
ByRule(G, f, T, kind) == \A U \in SUBSET T : SumRule(G[U], f, U, kind)

LEMMA RuleStep ==
  ASSUME NEW f, NEW T, IsFiniteSet(T), NEW kind, NEW G, ByRule(G, f, T, kind)
  PROVE  /\ G[{}][{}] = Zero(kind)
         /\ T # {} => LET x == CHOOSE x \in T : TRUE
                      IN G[T][T] = Add(kind, f[x], G[T \ {x}][T \ {x}])
<1>1. G[{}][{}] = Zero(kind)
  <2>1. {} \in SUBSET T /\ {} \in SUBSET {}
    OBVIOUS
  <2> QED
    BY <2>1 DEF SumRule, ByRule
<1>2. ASSUME T # {}
      PROVE  LET x == CHOOSE x \in T : TRUE
             IN G[T][T] = Add(kind, f[x], G[T \ {x}][T \ {x}])
  <2> DEFINE x == CHOOSE x \in T : TRUE
  <2>1. x \in T
    BY <1>2
  <2>2. T \in SUBSET T /\ T \ {x} \in SUBSET T /\ T \ {x} \in SUBSET (T \cap (T \ {x}))
    OBVIOUS
  <2>3. G[T][T] = Add(kind, f[x], G[T][T \ {x}])
    BY <1>2, <2>2 DEF SumRule, ByRule
  <2>4. G[T][T \ {x}] = G[T \ {x}][T \ {x}]
    <3>1. ASSUME NEW g, NEW h, NEW U \in SUBSET T, SumRule(g, f, T, kind), SumRule(h, f, U, kind)
          PROVE  g[U] = h[U]
      <4>1. T \in SUBSET T /\ U \in SUBSET (T \cap U)
        OBVIOUS
      <4> QED
        BY <3>1, <4>1, RuleUnique
    <3>2. SumRule(G[T], f, T, kind) /\ SumRule(G[T \ {x}], f, T \ {x}, kind)
      BY <2>2 DEF ByRule
    <3> HIDE DEF x
    <3> QED
      BY <2>2, <3>1, <3>2
  <2> QED
    BY <2>3, <2>4
<1> QED
  BY <1>1, <1>2

LEMMA SumStep ==
  ASSUME NEW f, NEW T, IsFiniteSet(T)
  PROVE  /\ SumFunctionOnSet(f, {}) = 0
         /\ T # {} => LET x == CHOOSE x \in T : TRUE
                      IN SumFunctionOnSet(f, T) = f[x] + SumFunctionOnSet(f, T \ {x})
<1> DEFINE G == [U \in SUBSET T |-> CHOOSE g : IntegerRule(g, f, U)]
<1>1. \A U \in SUBSET T : \E g : IntegerRule(g, f, U)
  BY RuleExists, FS_Subset, RulesAre
<1>2. \A U \in SUBSET T : IntegerRule(G[U], f, U) /\ SumFunctionOnSet(f, U) = G[U][U]
  BY <1>1, SumIsByRule
<1> HIDE DEF G
<1>3. ByRule(G, f, T, "integer")
  BY <1>2, RulesAre DEF ByRule
<1>4. \A a, b : Zero("integer") = 0 /\ Add("integer", a, b) = a + b
  BY DEF Zero, Add
<1>5. /\ G[{}][{}] = Zero("integer")
      /\ T # {} => LET x == CHOOSE x \in T : TRUE
                   IN G[T][T] = Add("integer", f[x], G[T \ {x}][T \ {x}])
  BY <1>3, RuleStep
<1>6. \A x : {} \in SUBSET T /\ T \in SUBSET T /\ T \ {x} \in SUBSET T
  OBVIOUS
<1> QED
  BY <1>2, <1>4, <1>5, <1>6

LEMMA TotalStep ==
  ASSUME NEW f, NEW T, IsFiniteSet(T)
  PROVE  /\ TotalOf(f, {}) = Whole(0)
         /\ T # {} => LET x == CHOOSE x \in T : TRUE
                      IN TotalOf(f, T) = Plus(f[x], TotalOf(f, T \ {x}))
<1> DEFINE G == [U \in SUBSET T |-> CHOOSE g : RatioRule(g, f, U)]
<1>1. \A U \in SUBSET T : \E g : RatioRule(g, f, U)
  BY RuleExists, FS_Subset, RulesAre
<1>2. \A U \in SUBSET T : RatioRule(G[U], f, U) /\ TotalOf(f, U) = G[U][U]
  BY <1>1, SumIsByRule
<1> HIDE DEF G
<1>3. ByRule(G, f, T, "ratio")
  BY <1>2, RulesAre DEF ByRule
<1>4. \A a, b : Zero("ratio") = Whole(0) /\ Add("ratio", a, b) = Plus(a, b)
  BY DEF Zero, Add
<1>5. /\ G[{}][{}] = Zero("ratio")
      /\ T # {} => LET x == CHOOSE x \in T : TRUE
                   IN G[T][T] = Add("ratio", f[x], G[T \ {x}][T \ {x}])
  BY <1>3, RuleStep
<1>6. \A x : {} \in SUBSET T /\ T \in SUBSET T /\ T \ {x} \in SUBSET T
  OBVIOUS
<1> QED
  BY <1>2, <1>4, <1>5, <1>6

LEMMA SumEmpty == \A f : SumFunctionOnSet(f, {}) = 0
BY FS_EmptySet, SumStep

LEMMA SumType ==
  ASSUME NEW S, IsFiniteSet(S), NEW f, \A x \in S : f[x] \in Int
  PROVE  SumFunctionOnSet(f, S) \in Int
<1> DEFINE Bad == {T \in SUBSET S : SumFunctionOnSet(f, T) \notin Int}
<1>1. SUFFICES ASSUME Bad # {} PROVE FALSE
  OBVIOUS
<1>2. Bad \subseteq FiniteSubsetsOf(S)
  BY FS_Subset DEF FiniteSubsetsOf
<1>3. PICK T \in Bad : \A u \in Bad : ~ (<<u, T>> \in StrictSubsetOrdering(S))
  BY <1>1, <1>2, FS_StrictSubsetOrderingWellFounded, WFMin
<1>4. IsFiniteSet(T)
  BY FS_Subset
<1>5. T # {}
  <2>1. SumFunctionOnSet(f, {}) \in Int
    BY SumEmpty
  <2> QED
    BY <2>1
<1> DEFINE x == CHOOSE x \in T : TRUE
<1>6. x \in T
  BY <1>5
<1>7. SumFunctionOnSet(f, T) = f[x] + SumFunctionOnSet(f, T \ {x})
  BY <1>4, <1>5, SumStep
<1> HIDE DEF x
<1>8. <<T \ {x}, T>> \in StrictSubsetOrdering(S)
  BY <1>6 DEF StrictSubsetOrdering
<1>9. SumFunctionOnSet(f, T \ {x}) \in Int
  BY <1>8, <1>3, <1>6
<1> QED
  BY <1>6, <1>7, <1>9

(* Any element may be taken out first. *)
LEMMA SumRemove ==
  ASSUME NEW S, IsFiniteSet(S), NEW f, \A x \in S : f[x] \in Int, NEW x \in S
  PROVE  SumFunctionOnSet(f, S) = f[x] + SumFunctionOnSet(f, S \ {x})
<1> DEFINE Bad == {T \in SUBSET S : \E y \in T :
                     SumFunctionOnSet(f, T) # f[y] + SumFunctionOnSet(f, T \ {y})}
<1>1. SUFFICES ASSUME Bad # {} PROVE FALSE
  OBVIOUS
<1>2. Bad \subseteq FiniteSubsetsOf(S)
  BY FS_Subset DEF FiniteSubsetsOf
<1>3. PICK T \in Bad : \A u \in Bad : ~ (<<u, T>> \in StrictSubsetOrdering(S))
  BY <1>1, <1>2, FS_StrictSubsetOrderingWellFounded, WFMin
<1>4. \A U \in SUBSET T : IsFiniteSet(U) /\ SumFunctionOnSet(f, U) \in Int
  BY FS_Subset, SumType
<1>5. PICK y \in T : SumFunctionOnSet(f, T) # f[y] + SumFunctionOnSet(f, T \ {y})
  OBVIOUS
<1> DEFINE c == CHOOSE c \in T : TRUE
<1>6. c \in T
  BY <1>5
<1>7. SumFunctionOnSet(f, T) = f[c] + SumFunctionOnSet(f, T \ {c})
  BY <1>4, <1>5, SumStep
<1> HIDE DEF c
<1>8. c # y
  BY <1>5, <1>7
<1>9. \A z \in T : T \ {z} \notin Bad
  <2> SUFFICES ASSUME NEW z \in T PROVE <<T \ {z}, T>> \in StrictSubsetOrdering(S)
    BY <1>3
  <2> QED
    BY DEF StrictSubsetOrdering
<1>10. SumFunctionOnSet(f, T \ {c}) = f[y] + SumFunctionOnSet(f, (T \ {c}) \ {y})
  BY <1>5, <1>6, <1>8, <1>9
<1>11. SumFunctionOnSet(f, T \ {y}) = f[c] + SumFunctionOnSet(f, (T \ {y}) \ {c})
  BY <1>5, <1>6, <1>8, <1>9
<1>12. (T \ {c}) \ {y} = (T \ {y}) \ {c}
  OBVIOUS
<1>13. f[c] \in Int /\ f[y] \in Int /\ SumFunctionOnSet(f, (T \ {y}) \ {c}) \in Int
  BY <1>4, <1>6
<1>14. f[c] + (f[y] + SumFunctionOnSet(f, (T \ {y}) \ {c}))
         = f[y] + (f[c] + SumFunctionOnSet(f, (T \ {y}) \ {c}))
  BY <1>13
<1>15. SumFunctionOnSet(f, T) = f[c] + (f[y] + SumFunctionOnSet(f, (T \ {y}) \ {c}))
  BY <1>7, <1>10, <1>12
<1> QED
  BY <1>5, <1>11, <1>14, <1>15

LEMMA SumAdd ==
  ASSUME NEW S, IsFiniteSet(S), NEW f, NEW x, x \notin S, \A y \in S \cup {x} : f[y] \in Int
  PROVE  SumFunctionOnSet(f, S \cup {x}) = SumFunctionOnSet(f, S) + f[x]
<1>1. IsFiniteSet(S \cup {x})
  BY FS_AddElement
<1>0. (S \cup {x}) \ {x} = S
  OBVIOUS
<1>2. SumFunctionOnSet(f, S \cup {x}) = f[x] + SumFunctionOnSet(f, (S \cup {x}) \ {x})
  BY <1>1, SumRemove
<1>3. SumFunctionOnSet(f, S) \in Int /\ f[x] \in Int
  BY SumType
<1>4. SumFunctionOnSet(f, S \cup {x}) = f[x] + SumFunctionOnSet(f, S)
  BY <1>0, <1>2
<1> QED
  BY <1>3, <1>4

(* The same, for provers that lose their way in the quantifiers. *)
Summable(f, S) == IsFiniteSet(S) /\ \A x \in S : f[x] \in Int

LEMMA SumOneMore ==
  ASSUME NEW S, NEW f, NEW x, x \notin S, Summable(f, S \cup {x})
  PROVE  SumFunctionOnSet(f, S \cup {x}) = SumFunctionOnSet(f, S) + f[x]
<1>1. IsFiniteSet(S \cup {x}) /\ \A y \in S \cup {x} : f[y] \in Int
  BY DEF Summable
<1>2. IsFiniteSet(S)
  BY <1>1, FS_Subset
<1> QED
  BY <1>1, <1>2, SumAdd

(* Sums of functions that agree, and sums in the order of their terms.     *)
LEMMA SumSame ==
  ASSUME NEW S, IsFiniteSet(S), NEW f, NEW g,
         \A x \in S : f[x] \in Int /\ f[x] = g[x]
  PROVE  SumFunctionOnSet(f, S) = SumFunctionOnSet(g, S)
<1> DEFINE Q == {T \in SUBSET S : SumFunctionOnSet(f, T) = SumFunctionOnSet(g, T)}
<1>1. {} \in Q
  BY FS_EmptySet, SumEmpty
<1>2. ASSUME NEW T \in SUBSET S, NEW x \in S, x \notin T, T \in Q
      PROVE  T \cup {x} \in Q
  <2>0. x \notin T
    BY <1>2
  <2>1. IsFiniteSet(T) /\ (\A y \in T \cup {x} : f[y] \in Int /\ g[y] \in Int)
    BY FS_Subset
  <2>2. /\ SumFunctionOnSet(f, T \cup {x}) = SumFunctionOnSet(f, T) + f[x]
        /\ SumFunctionOnSet(g, T \cup {x}) = SumFunctionOnSet(g, T) + g[x]
    BY <2>0, <2>1, SumAdd, SMTT(60)
  <2> QED
    BY <1>2, <2>2
<1>3. S \in Q
  <2> HIDE DEF Q
  <2> QED
    BY <1>1, <1>2, SubsetInduction
<1> QED
  BY <1>3

LEMMA SumAtMost ==
  ASSUME NEW S, IsFiniteSet(S), NEW f, NEW g,
         \A x \in S : f[x] \in Int /\ g[x] \in Int /\ f[x] <= g[x]
  PROVE  SumFunctionOnSet(f, S) <= SumFunctionOnSet(g, S)
<1> DEFINE Q == {T \in SUBSET S : SumFunctionOnSet(f, T) <= SumFunctionOnSet(g, T)}
<1>1. {} \in Q
  BY FS_EmptySet, SumEmpty
<1>2. ASSUME NEW T \in SUBSET S, NEW x \in S, x \notin T, T \in Q
      PROVE  T \cup {x} \in Q
  <2>0. x \notin T
    BY <1>2
  <2>1. IsFiniteSet(T) /\ (\A y \in T \cup {x} : f[y] \in Int /\ g[y] \in Int)
    BY FS_Subset
  <2>2. /\ SumFunctionOnSet(f, T \cup {x}) = SumFunctionOnSet(f, T) + f[x]
        /\ SumFunctionOnSet(g, T \cup {x}) = SumFunctionOnSet(g, T) + g[x]
    BY <2>0, <2>1, SumAdd
  <2>3. SumFunctionOnSet(f, T) \in Int /\ SumFunctionOnSet(g, T) \in Int
    BY <2>1, SumType
  <2> QED
    BY <1>2, <2>2, <2>3
<1>3. S \in Q
  <2> HIDE DEF Q
  <2> QED
    BY <1>1, <1>2, SubsetInduction
<1> QED
  BY <1>3

(* Sums of functions that are the sum or the difference of two others.     *)
IsSum(h, f, g, S) == \A x \in S : f[x] \in Int /\ g[x] \in Int /\ h[x] = f[x] + g[x]

LEMMA SumBoth ==
  ASSUME NEW S, IsFiniteSet(S), NEW f, NEW g, NEW h, IsSum(h, f, g, S)
  PROVE  SumFunctionOnSet(h, S) = SumFunctionOnSet(f, S) + SumFunctionOnSet(g, S)
<1> DEFINE Q == {T \in SUBSET S : SumFunctionOnSet(h, T)
                                    = SumFunctionOnSet(f, T) + SumFunctionOnSet(g, T)}
<1>1. {} \in Q
  BY FS_EmptySet, SumEmpty
<1>2. ASSUME NEW T \in SUBSET S, NEW x \in S, x \notin T, T \in Q
      PROVE  T \cup {x} \in Q
  <2>0. x \notin T /\ IsFiniteSet(T \cup {x})
    BY <1>2, FS_Subset
  <2>1. Summable(f, T \cup {x}) /\ Summable(g, T \cup {x}) /\ Summable(h, T \cup {x})
    BY <2>0 DEF Summable, IsSum
  <2>2. /\ SumFunctionOnSet(f, T \cup {x}) = SumFunctionOnSet(f, T) + f[x]
        /\ SumFunctionOnSet(g, T \cup {x}) = SumFunctionOnSet(g, T) + g[x]
        /\ SumFunctionOnSet(h, T \cup {x}) = SumFunctionOnSet(h, T) + h[x]
    BY <2>0, <2>1, SumOneMore
  <2>3. SumFunctionOnSet(f, T) \in Int /\ SumFunctionOnSet(g, T) \in Int
    <3>1. IsFiniteSet(T) /\ (\A y \in T : f[y] \in Int) /\ (\A y \in T : g[y] \in Int)
      BY <2>1, FS_Subset DEF Summable
    <3> QED
      BY <3>1, SumType
  <2>4. f[x] \in Int /\ g[x] \in Int /\ h[x] = f[x] + g[x]
    BY DEF IsSum
  <2>5. SumFunctionOnSet(h, T) = SumFunctionOnSet(f, T) + SumFunctionOnSet(g, T)
    BY <1>2
  <2> QED
    BY <2>2, <2>3, <2>4, <2>5
<1>3. S \in Q
  <2> HIDE DEF Q
  <2> QED
    BY <1>1, <1>2, SubsetInduction
<1> QED
  BY <1>3

LEMMA SumLess ==
  ASSUME NEW S, IsFiniteSet(S), NEW f, NEW g, NEW h, IsSum(f, h, g, S)
  PROVE  SumFunctionOnSet(h, S) = SumFunctionOnSet(f, S) - SumFunctionOnSet(g, S)
<1>1. SumFunctionOnSet(f, S) = SumFunctionOnSet(h, S) + SumFunctionOnSet(g, S)
  BY SumBoth
<1>2. SumFunctionOnSet(g, S) \in Int /\ SumFunctionOnSet(h, S) \in Int
  <2>1. (\A x \in S : g[x] \in Int) /\ (\A x \in S : h[x] \in Int)
    BY DEF IsSum
  <2> QED
    BY <2>1, SumType
<1> QED
  BY <1>1, <1>2

LEMMA SumNat ==
  ASSUME NEW S, IsFiniteSet(S), NEW f, \A x \in S : f[x] \in Nat
  PROVE  SumFunctionOnSet(f, S) \in Nat
<1> DEFINE Q == {T \in SUBSET S : SumFunctionOnSet(f, T) \in Nat}
<1>1. {} \in Q
  BY FS_EmptySet, SumEmpty
<1>2. ASSUME NEW T \in SUBSET S, NEW x \in S, x \notin T, T \in Q
      PROVE  T \cup {x} \in Q
  <2>0. x \notin T
    BY <1>2
  <2>1. IsFiniteSet(T) /\ (\A y \in T \cup {x} : f[y] \in Int)
    BY FS_Subset
  <2>2. SumFunctionOnSet(f, T \cup {x}) = SumFunctionOnSet(f, T) + f[x]
    BY <2>0, <2>1, SumAdd
  <2> QED
    BY <1>2, <2>2
<1>3. S \in Q
  <2> HIDE DEF Q
  <2> QED
    BY <1>1, <1>2, SubsetInduction
<1> QED
  BY <1>3

LEMMA SumZero ==
  ASSUME NEW S, IsFiniteSet(S), NEW f, \A x \in S : f[x] = 0
  PROVE  SumFunctionOnSet(f, S) = 0
<1> DEFINE Q == {T \in SUBSET S : SumFunctionOnSet(f, T) = 0}
<1>1. {} \in Q
  BY FS_EmptySet, SumEmpty
<1>2. ASSUME NEW T \in SUBSET S, NEW x \in S, x \notin T, T \in Q
      PROVE  T \cup {x} \in Q
  <2>0. x \notin T
    BY <1>2
  <2>1. IsFiniteSet(T) /\ (\A y \in T \cup {x} : f[y] \in Int)
    BY FS_Subset
  <2>2. SumFunctionOnSet(f, T \cup {x}) = SumFunctionOnSet(f, T) + f[x]
    BY <2>0, <2>1, SumAdd
  <2> QED
    BY <1>2, <2>2
<1>3. S \in Q
  <2> HIDE DEF Q
  <2> QED
    BY <1>1, <1>2, SubsetInduction
<1> QED
  BY <1>3

(* One term changed by d changes the sum by d. *)
LEMMA SumChange ==
  ASSUME NEW S, IsFiniteSet(S), NEW f, NEW g, NEW x \in S, NEW d \in Int,
         \A y \in S : f[y] \in Int, \A y \in S \ {x} : g[y] = f[y], g[x] = f[x] + d
  PROVE  SumFunctionOnSet(g, S) = SumFunctionOnSet(f, S) + d
<1>1. IsFiniteSet(S \ {x})
  BY FS_RemoveElement
<1>2. SumFunctionOnSet(g, S \ {x}) = SumFunctionOnSet(f, S \ {x})
  BY <1>1, SumSame
<1>3. \A y \in S : g[y] \in Int
  OBVIOUS
<1>4. /\ SumFunctionOnSet(g, S) = g[x] + SumFunctionOnSet(g, S \ {x})
      /\ SumFunctionOnSet(f, S) = f[x] + SumFunctionOnSet(f, S \ {x})
  BY <1>3, SumRemove
<1> QED
  BY <1>1, <1>2, <1>4, SumType

(* The terms g over T are those f over S, but for one that is d more, or   *)
(* new.                                                                    *)
GrowsBy(d, x, f, S, g, T) ==
  /\ IsFiniteSet(S) /\ (\A y \in S : f[y] \in Int) /\ d \in Int
  /\ S \subseteq T /\ T \subseteq S \cup {x}
  /\ \A y \in T \ {x} : g[y] = f[y]
  /\ x \in T => g[x] = (IF x \in S THEN f[x] ELSE 0) + d
  /\ x \notin T => d = 0

LEMMA SumGrown ==
  ASSUME NEW S, NEW T, NEW f, NEW g, NEW x, NEW d, GrowsBy(d, x, f, S, g, T)
  PROVE  /\ SumFunctionOnSet(g, T) = SumFunctionOnSet(f, S) + d
         /\ SumFunctionOnSet(f, S) \in Int
<1> USE DEF GrowsBy
<1> DEFINE E == S \ {x}
<1>1. /\ x \notin E /\ IsFiniteSet(E) /\ IsFiniteSet(E \cup {x})
      /\ (x \in S => S = E \cup {x}) /\ (x \notin S => S = E)
      /\ (x \in T => T = E \cup {x}) /\ (x \notin T => T = E /\ S = E)
  <2>1. IsFiniteSet(E)
    BY FS_Subset
  <2> QED
    BY <2>1, FS_AddElement
<1>2. \A y \in E : f[y] \in Int /\ f[y] = g[y]
  OBVIOUS
<1>3. /\ x \in S => f[x] \in Int
      /\ x \in T => g[x] \in Int /\ g[x] = (IF x \in S THEN f[x] ELSE 0) + d
      /\ x \notin T => d = 0
  OBVIOUS
<1> HIDE DEF E
<1>4. SumFunctionOnSet(f, E) = SumFunctionOnSet(g, E) /\ SumFunctionOnSet(f, E) \in Int
  BY <1>1, <1>2, SumSame, SumType
<1>5. x \in S => SumFunctionOnSet(f, S) = SumFunctionOnSet(f, E) + f[x]
  <2> SUFFICES ASSUME x \in S PROVE SumFunctionOnSet(f, E \cup {x}) = SumFunctionOnSet(f, E) + f[x]
    BY <1>1
  <2>1. Summable(f, E \cup {x})
    BY <1>1, <1>2, <1>3 DEF Summable
  <2> QED
    BY <1>1, <2>1, SumOneMore
<1>6. x \in T => SumFunctionOnSet(g, T) = SumFunctionOnSet(g, E) + g[x]
  <2> SUFFICES ASSUME x \in T PROVE SumFunctionOnSet(g, E \cup {x}) = SumFunctionOnSet(g, E) + g[x]
    BY <1>1
  <2>1. Summable(g, E \cup {x})
    BY <1>1, <1>2, <1>3 DEF Summable
  <2> QED
    BY <1>1, <2>1, SumOneMore
<1>7. CASE x \notin T
  BY <1>1, <1>3, <1>4, <1>7
<1>8. CASE x \in T /\ x \in S
  BY <1>3, <1>4, <1>5, <1>6, <1>8
<1>9. CASE x \in T /\ x \notin S
  <2>1. SumFunctionOnSet(f, S) = SumFunctionOnSet(f, E)
    BY <1>1, <1>9
  <2> QED
    BY <1>3, <1>4, <1>6, <1>9, <2>1
<1> QED
  BY <1>7, <1>8, <1>9

LEMMA SumNegated ==
  ASSUME NEW S, IsFiniteSet(S), NEW f, NEW g, \A x \in S : f[x] \in Int /\ g[x] = -f[x]
  PROVE  SumFunctionOnSet(g, S) = -SumFunctionOnSet(f, S)
<1> DEFINE zero == [x \in S |-> 0]
<1>1. IsSum(zero, f, g, S)
  BY DEF IsSum
<1>2. SumFunctionOnSet(zero, S) = 0
  <2>1. \A x \in S : zero[x] = 0
    OBVIOUS
  <2> HIDE DEF zero
  <2> QED
    BY <2>1, SumZero
<1> HIDE DEF zero
<1>3. SumFunctionOnSet(f, S) \in Int /\ SumFunctionOnSet(g, S) \in Int
  <2>1. (\A x \in S : f[x] \in Int) /\ (\A x \in S : g[x] \in Int)
    OBVIOUS
  <2> QED
    BY <2>1, SumType
<1>4. SumFunctionOnSet(zero, S) = SumFunctionOnSet(f, S) + SumFunctionOnSet(g, S)
  BY <1>1, SumBoth
<1> QED
  BY <1>2, <1>3, <1>4

-----------------------------------------------------------------------------
(* Sums over sequences.                                                    *)
SumOf(s) == SumFunctionOnSet(s, DOMAIN s)

LEMMA IntervalGrows ==
  ASSUME NEW n \in Nat
  PROVE  /\ 1..(n + 1) = (1..n) \cup {n + 1} /\ n + 1 \notin 1..n
         /\ IsFiniteSet(1..n)
<1>1. IsFiniteSet(1..n)
  BY FS_Interval
<1> QED
  BY <1>1

LEMMA SumOfPrefix ==
  ASSUME NEW k \in Nat, NEW f, \A i \in 1..(k + 1) : f[i] \in Int
  PROVE  /\ SumFunctionOnSet(f, 1..(k + 1)) = SumFunctionOnSet(f, 1..k) + f[k + 1]
         /\ SumFunctionOnSet(f, 1..k) \in Int
<1> DEFINE D == 1..k
           last == k + 1
<1>1. /\ 1..(k + 1) = D \cup {last} /\ last \notin D /\ IsFiniteSet(D)
      /\ \A i \in D \cup {last} : f[i] \in Int
  BY IntervalGrows
<1>2. /\ SumFunctionOnSet(f, D \cup {last}) = SumFunctionOnSet(f, D) + f[last]
      /\ SumFunctionOnSet(f, D) \in Int
  <2> HIDE DEF D, last
  <2>1. \A i \in D : f[i] \in Int
    BY <1>1
  <2>2. SumFunctionOnSet(f, D \cup {last}) = SumFunctionOnSet(f, D) + f[last]
    BY <1>1, SumAdd
  <2>3. SumFunctionOnSet(f, D) \in Int
    BY <1>1, <2>1, SumType
  <2> QED
    BY <2>2, <2>3
<1> QED
  BY <1>1, <1>2

(* What grows by f's values, one after the other, has grown by their sum.  *)
(* A value that starts whole and grows by f[1], f[2], ... in turn. *)
Grows(h, f, n) ==
  /\ h[0] \in Int /\ \A k \in 1..n : f[k] \in Int
  /\ \A k \in 0..(n - 1) : h[k + 1] = h[k] + f[k + 1]

LEMMA GrownBySum ==
  ASSUME NEW n \in Nat, NEW f, NEW h, Grows(h, f, n)
  PROVE  h[n] = h[0] + SumFunctionOnSet(f, 1..n)
<1> DEFINE sum(k) == SumFunctionOnSet(f, 1..k)
           Q == {k \in Nat : k <= n => h[k] = h[0] + sum(k)}
<1> USE DEF Grows
<1>1. 0 \in Q
  <2>1. 1..0 = {}
    OBVIOUS
  <2>2. sum(0) = 0
    BY <2>1, SumEmpty
  <2> HIDE DEF sum
  <2> QED
    BY <2>2
<1>2. ASSUME NEW k \in Nat, k \in Q PROVE k + 1 \in Q
  <2> SUFFICES ASSUME k + 1 <= n PROVE h[k + 1] = h[0] + sum(k + 1)
    OBVIOUS
  <2>1. k \in 0..(n - 1) /\ k <= n /\ k + 1 \in 1..n
    OBVIOUS
  <2>2. h[k + 1] = h[k] + f[k + 1] /\ h[k] = h[0] + sum(k) /\ f[k + 1] \in Int
    BY <1>2, <2>1
  <2>3. \A i \in 1..(k + 1) : f[i] \in Int
    BY <2>1
  <2>4. sum(k + 1) = sum(k) + f[k + 1] /\ sum(k) \in Int
    BY <2>3, SumOfPrefix
  <2> HIDE DEF sum
  <2> QED
    BY <2>2, <2>4
<1>3. \A k \in Nat : k \in Q
  <2> HIDE DEF Q
  <2> QED
    BY <1>1, <1>2, NatSetInduction
<1> QED
  BY <1>3

LEMMA SumOfType ==
  ASSUME NEW s \in Seq(Int)
  PROVE  SumOf(s) \in Int
<1>1. DOMAIN s = 1..Len(s) /\ Len(s) \in Nat /\ \A n \in DOMAIN s : s[n] \in Int
  OBVIOUS
<1>2. IsFiniteSet(DOMAIN s)
  BY <1>1, FS_Interval
<1> QED
  BY <1>1, <1>2, SumType DEF SumOf

LEMMA SumOfConcat ==
  ASSUME NEW s \in Seq(Int), NEW t \in Seq(Int)
  PROVE  SumOf(s \o t) = SumOf(s) + SumOf(t)
<1> DEFINE u == s \o t
           m == Len(s)
           Q == {k \in Nat : k <= Len(t) =>
                   SumFunctionOnSet(u, 1..(m + k)) = SumOf(s) + SumFunctionOnSet(t, 1..k)}
<1>1. /\ DOMAIN s = 1..m /\ m \in Nat /\ DOMAIN t = 1..Len(t) /\ Len(t) \in Nat
      /\ DOMAIN u = 1..(m + Len(t))
      /\ \A n \in 1..m : s[n] \in Int /\ u[n] = s[n]
      /\ \A n \in 1..Len(t) : t[n] \in Int /\ u[m + n] = t[n]
  OBVIOUS
<1>2. SumOf(s) \in Int
  BY SumOfType
<1> HIDE DEF u, m
<1>3. \A k \in Nat : k <= Len(t) => SumFunctionOnSet(t, 1..k) \in Int
  <2> SUFFICES ASSUME NEW k \in Nat, k <= Len(t) PROVE SumFunctionOnSet(t, 1..k) \in Int
    OBVIOUS
  <2>1. IsFiniteSet(1..k) /\ \A n \in 1..k : t[n] \in Int
    BY <1>1, IntervalGrows
  <2> QED
    BY <2>1, SumType
<1>4. 0 \in Q
  <2>1. SumFunctionOnSet(u, 1..m) = SumFunctionOnSet(s, 1..m)
    <3>1. IsFiniteSet(1..m) /\ \A n \in 1..m : u[n] \in Int /\ u[n] = s[n]
      BY <1>1, IntervalGrows
    <3> QED
      BY <3>1, SumSame
  <2>2. 1..0 = {} /\ m + 0 = m
    BY <1>1
  <2>3. SumFunctionOnSet(t, 1..0) = 0
    BY <2>2, SumEmpty
  <2> QED
    BY <1>1, <1>2, <2>1, <2>2, <2>3 DEF SumOf
<1>5. ASSUME NEW k \in Nat, k \in Q PROVE k + 1 \in Q
  <2> SUFFICES ASSUME k + 1 <= Len(t)
               PROVE  SumFunctionOnSet(u, 1..(m + (k + 1)))
                        = SumOf(s) + SumFunctionOnSet(t, 1..(k + 1))
    OBVIOUS
  <2>1. k <= Len(t) /\ k + 1 \in 1..Len(t) /\ m + k \in Nat /\ m + (k + 1) = (m + k) + 1
    BY <1>1
  <2>2. u[(m + k) + 1] = t[k + 1] /\ t[k + 1] \in Int
    BY <1>1, <2>1
  <2>3. SumFunctionOnSet(t, 1..(k + 1)) = SumFunctionOnSet(t, 1..k) + t[k + 1]
    <3>1. /\ 1..(k + 1) = (1..k) \cup {k + 1} /\ k + 1 \notin 1..k /\ IsFiniteSet(1..k)
      BY IntervalGrows
    <3>2. \A n \in (1..k) \cup {k + 1} : t[n] \in Int
      BY <1>1, <2>1
    <3> QED
      BY <3>1, <3>2, SumAdd
  <2>4. SumFunctionOnSet(u, 1..((m + k) + 1)) = SumFunctionOnSet(u, 1..(m + k)) + t[k + 1]
    <3> DEFINE D == 1..(m + k)
               last == (m + k) + 1
    <3>1. 1..last = D \cup {last} /\ last \notin D /\ IsFiniteSet(D)
      BY <2>1, IntervalGrows
    <3>2. \A n \in D \cup {last} : u[n] \in Int
      <4> SUFFICES ASSUME NEW n \in D \cup {last} PROVE u[n] \in Int
        OBVIOUS
      <4>1. CASE n \in 1..m
        BY <1>1, <4>1
      <4>2. CASE n \notin 1..m
        <5>1. n - m \in 1..Len(t) /\ n = m + (n - m)
          BY <1>1, <2>1, <4>2
        <5>2. u[m + (n - m)] = t[n - m] /\ t[n - m] \in Int
          BY <1>1, <5>1
        <5> QED
          BY <5>1, <5>2
      <4> QED
        BY <4>1, <4>2
    <3> HIDE DEF D, last
    <3>3. SumFunctionOnSet(u, D \cup {last}) = SumFunctionOnSet(u, D) + u[last]
      BY <3>1, <3>2, SumAdd
    <3> QED
      BY <2>2, <3>1, <3>3 DEF D, last
  <2>5. SumFunctionOnSet(u, 1..(m + k)) = SumOf(s) + SumFunctionOnSet(t, 1..k)
    BY <1>5, <2>1
  <2>6. SumFunctionOnSet(t, 1..k) \in Int
    BY <1>3, <2>1
  <2> QED
    BY <1>2, <2>1, <2>2, <2>3, <2>4, <2>5, <2>6
<1>6. \A k \in Nat : k \in Q
  <2> HIDE DEF Q
  <2> QED
    BY <1>4, <1>5, NatSetInduction
<1>7. SumFunctionOnSet(u, 1..(m + Len(t))) = SumOf(s) + SumFunctionOnSet(t, 1..Len(t))
  BY <1>1, <1>6
<1> QED
  BY <1>1, <1>7 DEF SumOf, u

(* A sum may be taken in other positions, one for one. *)
LEMMA SumMoved ==
  ASSUME NEW S, IsFiniteSet(S), NEW f, NEW g, NEW h,
         \A n \in S : h[n] \in Int /\ h[n] = f[g[n]],
         \A m, n \in S : m # n => g[m] # g[n]
  PROVE  SumFunctionOnSet(h, S) = SumFunctionOnSet(f, {g[n] : n \in S})
<1> DEFINE I(T) == {g[n] : n \in T}
           Q == {T \in SUBSET S : /\ IsFiniteSet(I(T))
                                  /\ SumFunctionOnSet(h, T) = SumFunctionOnSet(f, I(T))}
<1>1. {} \in Q
  <2>1. I({}) = {}
    OBVIOUS
  <2> QED
    BY <2>1, FS_EmptySet, SumEmpty
<1>2. ASSUME NEW T \in SUBSET S, NEW x \in S, x \notin T, T \in Q
      PROVE  T \cup {x} \in Q
  <2>0. x \notin T
    BY <1>2
  <2>1. I(T \cup {x}) = I(T) \cup {g[x]} /\ g[x] \notin I(T)
    BY <1>2
  <2>2. IsFiniteSet(T) /\ \A y \in T \cup {x} : h[y] \in Int
    BY FS_Subset
  <2>3. IsFiniteSet(I(T)) /\ SumFunctionOnSet(h, T) = SumFunctionOnSet(f, I(T))
    BY <1>2
  <2>4. \A y \in I(T) \cup {g[x]} : f[y] \in Int
    OBVIOUS
  <2> HIDE DEF I
  <2>5. IsFiniteSet(I(T) \cup {g[x]})
    BY <2>3, FS_AddElement
  <2>6. SumFunctionOnSet(f, I(T) \cup {g[x]}) = SumFunctionOnSet(f, I(T)) + f[g[x]]
    BY <2>1, <2>3, <2>4, SumAdd, SMTT(60)
  <2>7. SumFunctionOnSet(h, T \cup {x}) = SumFunctionOnSet(h, T) + h[x]
    <3>1. IsFiniteSet(T \cup {x})
      BY <2>2, FS_AddElement
    <3>2. Summable(h, T \cup {x})
      BY <2>2, <3>1 DEF Summable
    <3> QED
      BY <2>0, <3>2, SumOneMore
  <2> QED
    <3>1. h[x] = f[g[x]]
      OBVIOUS
    <3>2. SumFunctionOnSet(h, T \cup {x}) = SumFunctionOnSet(f, I(T \cup {x}))
      BY <2>1, <2>3, <2>6, <2>7, <3>1
    <3>3. T \cup {x} \in SUBSET S
      OBVIOUS
    <3> QED
      BY <2>1, <2>5, <3>2, <3>3
<1>3. S \in Q
  <2> HIDE DEF Q
  <2> QED
    BY <1>1, <1>2, SubsetInduction
<1> QED
  BY <1>3

(* What is zero may be left out of a sum. *)
LEMMA SumWithoutZeros ==
  ASSUME NEW S, IsFiniteSet(S), NEW f, \A x \in S : f[x] \in Int,
         NEW T \in SUBSET S, \A x \in S \ T : f[x] = 0
  PROVE  SumFunctionOnSet(f, T) = SumFunctionOnSet(f, S)
<1> DEFINE R == S \ T
           Q == {U \in SUBSET R : SumFunctionOnSet(f, T \cup U) = SumFunctionOnSet(f, T)}
<1>0. IsFiniteSet(T) /\ IsFiniteSet(R)
  BY FS_Subset
<1>1. {} \in Q
  <2>1. T \cup {} = T
    OBVIOUS
  <2> QED
    BY <2>1
<1>2. ASSUME NEW U \in SUBSET R, NEW x \in R, x \notin U, U \in Q
      PROVE  U \cup {x} \in Q
  <2>1. x \notin T \cup U /\ T \cup (U \cup {x}) = (T \cup U) \cup {x} /\ f[x] = 0
    BY <1>2
  <2>2. IsFiniteSet(T \cup U) /\ \A y \in (T \cup U) \cup {x} : f[y] \in Int
    BY FS_Subset
  <2> DEFINE V == T \cup U
  <2>4. SumFunctionOnSet(f, V) = SumFunctionOnSet(f, T)
    BY <1>2
  <2>6. x \notin V /\ IsFiniteSet(V) /\ \A y \in V \cup {x} : f[y] \in Int
    BY <2>1, <2>2
  <2>7. T \cup (U \cup {x}) = V \cup {x} /\ U \cup {x} \in SUBSET R
    BY <2>1
  <2> HIDE DEF V
  <2>3. SumFunctionOnSet(f, V \cup {x}) = SumFunctionOnSet(f, V) + f[x]
    <3>1. IsFiniteSet(V \cup {x})
      BY <2>6, FS_AddElement
    <3>2. Summable(f, V \cup {x})
      BY <2>6, <3>1 DEF Summable
    <3> QED
      BY <2>6, <3>2, SumOneMore, Zenon
  <2>5. SumFunctionOnSet(f, T) \in Int
    BY <1>0, SumType
  <2> QED
    <3>1. SumFunctionOnSet(f, T \cup (U \cup {x})) = SumFunctionOnSet(f, T)
      <4>1. SumFunctionOnSet(f, V) + f[x] = SumFunctionOnSet(f, T)
        BY <2>1, <2>4, <2>5
      <4> QED
        BY <2>3, <2>7, <4>1, Zenon
    <3> QED
      BY <2>7, <3>1
<1>3. R \in Q
  <2> HIDE DEF Q, R
  <2> QED
    BY <1>0, <1>1, <1>2, SubsetInduction
<1>4. T \cup R = S
  OBVIOUS
<1> HIDE DEF R
<1> QED
  BY <1>3, <1>4


LEMMA MulCancel ==
  ASSUME NEW a \in Int, a # 0, NEW x \in Int, NEW y \in Int, a * x = a * y
  PROVE  x = y
OBVIOUS

LEMMA MulSwap ==
  ASSUME NEW a \in Int, NEW b \in Int, NEW c \in Int, NEW d \in Int
  PROVE  (a * b) * (c * d) = (a * c) * (b * d)
OBVIOUS

LEMMA MulDist ==
  ASSUME NEW a \in Int, NEW b \in Int, NEW c \in Int
  PROVE  a * (b + c) = a * b + a * c /\ a * (b - c) = a * b - a * c /\ (a * b) * c = a * (b * c)
OBVIOUS

LEMMA MulMore ==
  ASSUME NEW a \in Nat \ {0}, NEW x \in Int, NEW y \in Int
  PROVE  (x < y => a * x < a * y) /\ (x <= y => a * x <= a * y)
OBVIOUS

LEMMA DivMod ==
  ASSUME NEW n \in Int, NEW k \in Nat \ {0}
  PROVE  /\ n \div k \in Int /\ n % k \in 0..(k - 1)
         /\ n = k * (n \div k) + (n % k)
<1>1. n \div k \in Int /\ n % k \in 0..(k - 1)
  OBVIOUS
<1>2. n = k * (n \div k) + (n % k)
  OBVIOUS
<1> QED
  BY <1>1, <1>2

LEMMA DivExact ==
  ASSUME NEW c \in Int, NEW k \in Nat \ {0}
  PROVE  (k * c) \div k = c /\ (k * c) % k = 0
<1> DEFINE q == (k * c) \div k
           r == (k * c) % k
<1>1. q \in Int /\ r \in 0..(k - 1) /\ k * c = k * q + r
  <2>1. ASSUME NEW n \in Int PROVE n = k * (n \div k) + (n % k) /\ n \div k \in Int /\ n % k \in 0..(k - 1)
    BY DivMod
  <2>2. k * c \in Int
    OBVIOUS
  <2> QED
    BY <2>1, <2>2
<1> HIDE DEF q, r
<1>2. r = k * (c - q)
  BY <1>1, MulDist
<1>3. c - q = 0
  <2>1. ASSUME c - q >= 1 PROVE FALSE
    <3>1. k * 1 <= k * (c - q)
      BY <1>1, <2>1, MulMore
    <3> QED
      BY <1>1, <1>2, <3>1
  <2>2. ASSUME c - q <= -1 PROVE FALSE
    <3>1. k * (c - q) <= k * (-1)
      BY <1>1, <2>2, MulMore
    <3> QED
      BY <1>1, <1>2, <3>1
  <2> QED
    BY <1>1, <2>1, <2>2
<1>4. c = q /\ r = 0
  BY <1>1, <1>2, <1>3
<1> QED
  BY <1>4 DEF q, r

(* Multipliers of n that d divides; the least is d without the largest     *)
(* divisor it shares with n.                                               *)
Multipliers(n, d) == {j \in Nat \ {0} : \E c \in Int : j * n = c * d}
CommonDivisors(n, d) == {k \in 1..d : d % k = 0 /\ n % k = 0}

LEMMA LeastMultiplier ==
  ASSUME NEW n \in Int, NEW d \in Nat \ {0}, NEW g \in CommonDivisors(n, d),
         \A k \in CommonDivisors(n, d) : k <= g
  PROVE  /\ n = g * (n \div g) /\ d = g * (d \div g)
         /\ d \div g \in Multipliers(n, d)
         /\ \A j \in Multipliers(n, d) : d \div g <= j
<1> DEFINE n1 == n \div g
           d1 == d \div g
           M == Multipliers(n, d)
<1>1. g \in Nat \ {0} /\ d % g = 0 /\ n % g = 0
  BY DEF CommonDivisors
<1>2. n1 \in Int /\ d1 \in Int /\ n = g * n1 /\ d = g * d1
  BY <1>1, DivMod
<1> HIDE DEF n1, d1
<1>3. d1 \in Nat \ {0}
  <2>1. ASSUME d1 <= 0 PROVE FALSE
    <3>1. g * d1 <= g * 0
      BY <1>1, <1>2, <2>1, MulMore
    <3> QED
      BY <1>1, <1>2, <3>1
  <2> QED
    BY <1>2, <2>1
<1>4. d1 \in M
  <2>1. d1 * n = n1 * d
    BY <1>1, <1>2
  <2> QED
    BY <1>2, <1>3, <2>1 DEF Multipliers
<1>5. PICK j \in M : \A i \in M : j <= i
  <2>1. M \subseteq Nat
    BY DEF Multipliers
  <2>2. PICK j \in M : \A i \in M : ~ (<<i, j>> \in OpToRel(<, Nat))
    BY <1>4, <2>1, NatLessThanWellFounded, WFMin
  <2>3. \A i \in M : j <= i
    <3> SUFFICES ASSUME NEW i \in M, i < j PROVE FALSE
      BY <2>1
    <3>1. <<i, j>> \in OpToRel(<, Nat)
      BY <2>1 DEF OpToRel
    <3> QED
      BY <2>2, <3>1
  <2> QED
    BY <2>3
<1>6. j \in Nat \ {0} /\ \E c \in Int : j * n = c * d
  BY DEF Multipliers
<1>7. PICK b \in Int : j * n = b * d
  BY <1>6
<1> DEFINE q == d \div j
           r == d % j
<1>8. q \in Int /\ r \in 0..(j - 1) /\ d = j * q + r
  BY <1>6, DivMod
<1> HIDE DEF q, r
<1>9. r = 0
  <2> SUFFICES ASSUME r # 0 PROVE FALSE
    OBVIOUS
  <2>1. r = d - j * q
    BY <1>6, <1>8
  <2>2. r * n = d * n - (j * n) * q
    BY <1>6, <1>8, <2>1
  <2>3. r * n = (n - b * q) * d
    BY <1>7, <1>8, <2>2
  <2>4. r \in M
    <3>1. r \in Nat \ {0} /\ n - b * q \in Int
      BY <1>6, <1>7, <1>8
    <3> QED
      BY <2>3, <3>1 DEF Multipliers
  <2> QED
    BY <1>5, <1>6, <1>8, <2>4
<1>10. d = j * q /\ q \in Nat \ {0}
  <2>1. d = j * q
    BY <1>6, <1>8, <1>9
  <2>2. ASSUME q <= 0 PROVE FALSE
    <3>1. j * q <= j * 0
      BY <1>6, <1>8, <2>2, MulMore
    <3> QED
      BY <2>1, <1>6, <3>1
  <2> QED
    BY <1>8, <2>1, <2>2
<1>11. n = b * q
  <2>1. j * n = j * (b * q)
    BY <1>6, <1>7, <1>10
  <2>2. b * q \in Int
    BY <1>7, <1>10
  <2> QED
    BY <1>6, <2>1, <2>2, MulCancel
<1>12. q \in CommonDivisors(n, d)
  <2>1. d % q = 0 /\ n % q = 0
    <3>1. (q * j) % q = 0
      BY <1>6, <1>10, DivExact
    <3>3. (q * b) % q = 0
      BY <1>7, <1>10, DivExact
    <3>2. d = q * j /\ n = q * b
      BY <1>6, <1>7, <1>10, <1>11
    <3> QED
      BY <3>1, <3>2, <3>3
  <2>2. q <= d
    <3>1. q * 1 <= q * j
      BY <1>6, <1>10, MulMore
    <3> QED
      BY <1>6, <1>10, <3>1
  <2> QED
    BY <1>10, <2>1, <2>2 DEF CommonDivisors
<1>13. q <= g
  BY <1>12
<1>14. d1 <= j
  <2> SUFFICES ASSUME j < d1 PROVE FALSE
    BY <1>3, <1>6
  <2>1. g * j < g * d1
    BY <1>1, <1>3, <1>6, MulMore
  <2>2. j * q <= j * g
    BY <1>1, <1>6, <1>10, <1>13, MulMore
  <2> QED
    <3>1. g * j < d
      BY <1>2, <2>1
    <3>2. d <= j * g
      BY <1>10, <2>2
    <3>3. g * j = j * g /\ g * j \in Int
      BY <1>1, <1>6
    <3> QED
      BY <3>1, <3>2, <3>3
<1>15. ASSUME NEW i \in M PROVE d1 <= i
  <2>1. j <= i /\ i \in Nat
    BY <1>5 DEF Multipliers
  <2> QED
    BY <1>3, <1>6, <1>14, <2>1
<1> QED
  BY <1>2, <1>4, <1>15 DEF n1, d1

(* Equal fractions have the same lowest terms. *)
LEMMA LowestTerms ==
  ASSUME NEW n \in Int, NEW d \in Nat \ {0}, NEW g \in CommonDivisors(n, d),
         \A k \in CommonDivisors(n, d) : k <= g,
         NEW m \in Int, NEW e \in Nat \ {0}, NEW h \in CommonDivisors(m, e),
         \A k \in CommonDivisors(m, e) : k <= h,
         n * e = m * d
  PROVE  n \div g = m \div h /\ d \div g = e \div h
<1> DEFINE n1 == n \div g
           d1 == d \div g
           m1 == m \div h
           e1 == e \div h
<1>1. g \in Nat \ {0} /\ h \in Nat \ {0}
  BY DEF CommonDivisors
<1>2. /\ n = g * n1 /\ d = g * d1 /\ d1 \in Multipliers(n, d)
      /\ \A j \in Multipliers(n, d) : d1 <= j
  BY LeastMultiplier
<1>3. /\ m = h * m1 /\ e = h * e1 /\ e1 \in Multipliers(m, e)
      /\ \A j \in Multipliers(m, e) : e1 <= j
  BY LeastMultiplier
<1>4. n1 \in Int /\ m1 \in Int /\ d1 \in Nat \ {0} /\ e1 \in Nat \ {0}
  BY <1>1, <1>2, <1>3, DivMod DEF Multipliers
<1> HIDE DEF n1, d1, m1, e1
<1>5. ASSUME NEW a \in Int, NEW b \in Nat \ {0}, NEW u \in Int, NEW v \in Nat \ {0},
             a * v = u * b, NEW j \in Multipliers(a, b)
      PROVE  j \in Multipliers(u, v)
  <2>1. PICK c \in Int : j * a = c * b
    BY DEF Multipliers
  <2>2. j \in Nat \ {0}
    BY DEF Multipliers
  <2>3. b * (j * u) = b * (c * v)
    <3>1. b * (j * u) = j * (a * v)
      BY <1>5, <2>2
    <3>2. j * (a * v) = (j * a) * v
      BY <2>2
    <3>3. (c * b) * v = b * (c * v)
      BY <2>1
    <3> QED
      BY <2>1, <3>1, <3>2, <3>3
  <2>4. j * u = c * v
    BY <2>1, <2>2, <2>3, MulCancel
  <2> QED
    BY <2>1, <2>2, <2>4 DEF Multipliers
<1>6. d1 = e1
  <2>1. d1 \in Multipliers(m, e)
    BY <1>2, <1>5
  <2>2. m * d = n * e
    OBVIOUS
  <2>3. e1 \in Multipliers(n, d)
    BY <1>3, <1>5, <2>2
  <2> QED
    BY <1>2, <1>3, <1>4, <2>1, <2>3
<1>7. n1 = m1
  <2> DEFINE k == (g * h) * d1
  <2>1. k * n1 = k * m1
    <3>1. (g * n1) * (h * d1) = (h * m1) * (g * d1)
      BY <1>2, <1>3, <1>6
    <3>2. k * n1 = (g * n1) * (h * d1) /\ k * m1 = (h * m1) * (g * d1)
      BY <1>1, <1>4
    <3> QED
      BY <3>1, <3>2
  <2>2. k \in Int /\ k # 0
    BY <1>1, <1>4
  <2> HIDE DEF k
  <2> QED
    BY <1>4, <2>1, <2>2, MulCancel
<1> QED
  BY <1>6, <1>7 DEF n1, d1, m1, e1

-----------------------------------------------------------------------------
(* A nonempty finite range of integers has a greatest element, which Max   *)
(* is; a set of naturals has a least.                                      *)
LEMMA MaxOfRange ==
  ASSUME NEW d \in Nat, NEW S \in SUBSET (0..d), S # {}
  PROVE  Max(S) \in S /\ \A x \in S : x <= Max(S)
<1> DEFINE T == {d - x : x \in S}
<1>1. T \in SUBSET Nat /\ T # {}
  <2>1. \A x \in S : x \in Int /\ x <= d /\ d - x \in Nat
    OBVIOUS
  <2>2. PICK x \in S : TRUE
    OBVIOUS
  <2>3. d - x \in T
    OBVIOUS
  <2> QED
    BY <2>1, <2>3
<1>2. PICK t \in T : \A u \in T : ~ (<<u, t>> \in OpToRel(<, Nat))
  BY <1>1, NatLessThanWellFounded, WFMin
<1>3. \A u \in T : t <= u
  <2> SUFFICES ASSUME NEW u \in T, u < t PROVE FALSE
    BY <1>1, SMTT(60)
  <2>1. <<u, t>> \in OpToRel(<, Nat)
    BY <1>1 DEF OpToRel
  <2> QED
    BY <1>2, <2>1
<1>4. PICK y \in S : t = d - y
  BY <1>2
<1>5. \A x \in S : x <= y
  <2> TAKE x \in S
  <2>1. t <= d - x
    BY <1>3
  <2> QED
    BY <1>4, <2>1
<1> QED
  BY <1>5 DEF Max

LEMMA MinOfRange ==
  ASSUME NEW d \in Nat, NEW S \in SUBSET (0..d), S # {}
  PROVE  Min(S) \in S /\ \A x \in S : Min(S) <= x
<1>1. S \in SUBSET Nat
  OBVIOUS
<1>2. PICK t \in S : \A u \in S : ~ (<<u, t>> \in OpToRel(<, Nat))
  BY <1>1, NatLessThanWellFounded, WFMin
<1>3. \A u \in S : t <= u
  <2> SUFFICES ASSUME NEW u \in S, u < t PROVE FALSE
    BY <1>1
  <2>1. <<u, t>> \in OpToRel(<, Nat)
    BY <1>1 DEF OpToRel
  <2> QED
    BY <1>2, <2>1
<1> QED
  BY <1>3 DEF Min

(* The smaller of two integers, as FiniteSetsExt picks it. *)
LEMMA MinPair ==
  ASSUME NEW a \in Int, NEW b \in Int
  PROVE  Min({a, b}) = IF a <= b THEN a ELSE b
BY DEF Min

LEMMA DivisorIs ==
  ASSUME NEW n \in Int, NEW d \in Nat \ {0}
  PROVE  /\ Divisor(n, d) \in CommonDivisors(n, d)
         /\ \A k \in CommonDivisors(n, d) : k <= Divisor(n, d)
<1>1. 1 \in CommonDivisors(n, d)
  <2>1. d % 1 = 0 /\ n % 1 = 0
    <3>1. n % 1 \in 0..(1 - 1) /\ d % 1 \in 0..(1 - 1)
      BY DivMod
    <3> QED
      BY <3>1
  <2> QED
    BY <2>1 DEF CommonDivisors
<1>2. CommonDivisors(n, d) \in SUBSET (0..d)
  BY DEF CommonDivisors
<1>3. Divisor(n, d) = Max(CommonDivisors(n, d))
  BY DEF Divisor, CommonDivisors
<1> QED
  BY <1>1, <1>2, <1>3, MaxOfRange

-----------------------------------------------------------------------------
(* Fractions: ratios of an integer and a positive number.  A fraction r    *)
(* has the value n/d when r[1] * d = n * r[2]; fractions of the same value *)
(* are the same.                                                           *)
Fractions == {Ratio(q[1], q[2]) : q \in Int \X (Nat \ {0})}
StandsFor(r, n, d) == r \in Fractions /\ n \in Int /\ d \in Nat \ {0} /\ r[1] * d = n * r[2]

LEMMA RatioParts ==
  ASSUME NEW n \in Int, NEW d \in Nat \ {0}
  PROVE  /\ Ratio(n, d)[1] \in Int /\ Ratio(n, d)[2] \in Nat \ {0}
         /\ Ratio(n, d)[1] * d = n * Ratio(n, d)[2]
<1> DEFINE g == Divisor(n, d)
           n1 == n \div g
           d1 == d \div g
<1>1. /\ g \in CommonDivisors(n, d)
      /\ \A k \in CommonDivisors(n, d) : k <= g
  BY DivisorIs
<1>2. g \in Nat \ {0}
  BY <1>1 DEF CommonDivisors
<1>3. Ratio(n, d) = <<n1, d1>>
  BY DEF Ratio
<1> HIDE DEF g
<1>4. n = g * n1 /\ d = g * d1 /\ d1 \in Nat \ {0}
  BY <1>1, LeastMultiplier DEF Multipliers
<1>5. n1 \in Int
  BY <1>2, DivMod
<1> HIDE DEF n1, d1
<1>6. n1 * d = n * d1
  <2>1. n1 * (g * d1) = (g * n1) * d1
    BY <1>2, <1>4, <1>5
  <2> QED
    BY <1>4, <2>1
<1> QED
  BY <1>3, <1>4, <1>5, <1>6

LEMMA RatioValue ==
  ASSUME NEW n \in Int, NEW d \in Nat \ {0}
  PROVE  StandsFor(Ratio(n, d), n, d)
<1>1. Ratio(n, d) \in Fractions
  <2>1. <<n, d>> \in Int \X (Nat \ {0})
    OBVIOUS
  <2> QED
    BY <2>1 DEF Fractions
<1> QED
  BY <1>1, RatioParts DEF StandsFor

LEMMA SameRatio ==
  ASSUME NEW n \in Int, NEW d \in Nat \ {0}, NEW m \in Int, NEW e \in Nat \ {0},
         n * e = m * d
  PROVE  Ratio(n, d) = Ratio(m, e)
<1>1. /\ Divisor(n, d) \in CommonDivisors(n, d)
      /\ \A k \in CommonDivisors(n, d) : k <= Divisor(n, d)
      /\ Divisor(m, e) \in CommonDivisors(m, e)
      /\ \A k \in CommonDivisors(m, e) : k <= Divisor(m, e)
  BY DivisorIs
<1>2. /\ n \div Divisor(n, d) = m \div Divisor(m, e)
      /\ d \div Divisor(n, d) = e \div Divisor(m, e)
  BY <1>1, LowestTerms
<1> QED
  BY <1>2 DEF Ratio

LEMMA FractionParts ==
  ASSUME NEW r \in Fractions
  PROVE  r[1] \in Int /\ r[2] \in Nat \ {0} /\ Ratio(r[1], r[2]) = r /\ StandsFor(r, r[1], r[2])
<1>1. PICK q \in Int \X (Nat \ {0}) : r = Ratio(q[1], q[2])
  BY DEF Fractions
<1>2. /\ r[1] \in Int /\ r[2] \in Nat \ {0}
      /\ r[1] * q[2] = q[1] * r[2]
  BY <1>1, RatioParts
<1>3. Ratio(r[1], r[2]) = Ratio(q[1], q[2])
  BY <1>2, SameRatio
<1> QED
  BY <1>1, <1>2, <1>3 DEF StandsFor

(* Fractions of the same value are equal. *)
LEMMA SameValue ==
  ASSUME NEW r, NEW s, NEW n, NEW d, NEW m, NEW e,
         StandsFor(r, n, d), StandsFor(s, m, e), n * e = m * d
  PROVE  r = s
<1>1. /\ r \in Fractions /\ s \in Fractions
      /\ n \in Int /\ m \in Int /\ d \in Nat \ {0} /\ e \in Nat \ {0}
      /\ r[1] * d = n * r[2] /\ s[1] * e = m * s[2]
  BY DEF StandsFor
<1>2. /\ r[1] \in Int /\ r[2] \in Nat \ {0} /\ Ratio(r[1], r[2]) = r
      /\ s[1] \in Int /\ s[2] \in Nat \ {0} /\ Ratio(s[1], s[2]) = s
  BY <1>1, FractionParts
<1>3. Ratio(r[1], r[2]) = Ratio(n, d)
  BY <1>1, <1>2, SameRatio, SMTT(60)
<1>4. Ratio(s[1], s[2]) = Ratio(m, e)
  BY <1>1, <1>2, SameRatio, SMTT(60)
<1>5. Ratio(n, d) = Ratio(m, e)
  BY <1>1, SameRatio
<1> QED
  BY <1>2, <1>3, <1>4, <1>5

(* The value of a sum, of a multiple and of a whole number. *)
LEMMA PlusValue ==
  ASSUME NEW a, NEW b, NEW n, NEW d, NEW m, NEW e, StandsFor(a, n, d), StandsFor(b, m, e)
  PROVE  StandsFor(Plus(a, b), n * e + m * d, d * e)
<1>1. /\ a \in Fractions /\ b \in Fractions
      /\ n \in Int /\ m \in Int /\ d \in Nat \ {0} /\ e \in Nat \ {0}
      /\ a[1] * d = n * a[2] /\ b[1] * e = m * b[2]
  BY DEF StandsFor
<1>2. /\ a[1] \in Int /\ a[2] \in Nat \ {0} /\ b[1] \in Int /\ b[2] \in Nat \ {0}
  BY <1>1, FractionParts
<1> DEFINE a1 == a[1]
           a2 == a[2]
           b1 == b[1]
           b2 == b[2]
           num == a1 * b2 + b1 * a2
           den == a2 * b2
           to == n * e + m * d
           under == d * e
<1>3. /\ a1 \in Int /\ a2 \in Nat \ {0} /\ b1 \in Int /\ b2 \in Nat \ {0}
      /\ a1 * d = n * a2 /\ b1 * e = m * b2 /\ Plus(a, b) = Ratio(num, den)
  BY <1>1, <1>2 DEF Plus
<1> HIDE DEF a1, a2, b1, b2
<1>4. num \in Int /\ den \in Nat \ {0} /\ to \in Int /\ under \in Nat \ {0}
  <2>1. \A x, y \in Nat \ {0} : x * y \in Nat \ {0}
    OBVIOUS
  <2> QED
    BY <1>1, <1>3, <2>1
<1>5. num * under = to * den
  <2>1. (a1 * b2) * (d * e) = (n * e) * (a2 * b2)
    <3>1. (a1 * b2) * (d * e) = (a1 * d) * (b2 * e)
      BY <1>1, <1>3, MulSwap
    <3>2. (n * a2) * (b2 * e) = (n * e) * (a2 * b2)
      BY <1>1, <1>3
    <3> QED
      BY <1>3, <3>1, <3>2
  <2>2. (b1 * a2) * (d * e) = (m * d) * (a2 * b2)
    <3>1. (b1 * a2) * (d * e) = (b1 * e) * (a2 * d)
      BY <1>1, <1>3
    <3>2. (m * b2) * (a2 * d) = (m * d) * (a2 * b2)
      BY <1>1, <1>3
    <3> QED
      BY <1>3, <3>1, <3>2
  <2>3. num * under = (a1 * b2) * (d * e) + (b1 * a2) * (d * e)
    BY <1>1, <1>3
  <2>4. to * den = (n * e) * (a2 * b2) + (m * d) * (a2 * b2)
    BY <1>1, <1>3
  <2> QED
    BY <2>1, <2>2, <2>3, <2>4
<1> HIDE DEF num, den, to, under
<1>6. StandsFor(Ratio(to, under), to, under) /\ Ratio(num, den) = Ratio(to, under)
  BY <1>4, <1>5, RatioValue, SameRatio
<1> QED
  BY <1>3, <1>6 DEF to, under

LEMMA TimesValue ==
  ASSUME NEW k \in Int, NEW a, NEW n, NEW d, StandsFor(a, n, d)
  PROVE  StandsFor(Times(k, a), k * n, d)
<1>1. a \in Fractions /\ n \in Int /\ d \in Nat \ {0} /\ a[1] * d = n * a[2]
  BY DEF StandsFor
<1>2. a[1] \in Int /\ a[2] \in Nat \ {0}
  BY <1>1, FractionParts
<1> DEFINE a1 == a[1]
           a2 == a[2]
<1>3. /\ a1 \in Int /\ a2 \in Nat \ {0} /\ a1 * d = n * a2
      /\ Times(k, a) = Ratio(k * a1, a2)
  BY <1>1, <1>2 DEF Times
<1> HIDE DEF a1, a2
<1>4. (k * a1) * d = (k * n) * a2
  <2>1. (k * a1) * d = k * (a1 * d) /\ (k * n) * a2 = k * (n * a2)
    BY <1>1, <1>3
  <2> QED
    BY <1>3, <2>1
<1>5. k * a1 \in Int /\ k * n \in Int
  BY <1>1, <1>3
<1>6. Ratio(k * a1, a2) = Ratio(k * n, d) /\ StandsFor(Ratio(k * n, d), k * n, d)
  BY <1>1, <1>3, <1>4, <1>5, SameRatio, RatioValue
<1> QED
  BY <1>3, <1>6

LEMMA WholeValue ==
  ASSUME NEW k \in Int
  PROVE  StandsFor(Whole(k), k, 1)
<1>1. Divisor(k, 1) = 1
  <2>1. Divisor(k, 1) \in CommonDivisors(k, 1)
    BY DivisorIs
  <2> QED
    BY <2>1 DEF CommonDivisors
<1>2. k \div 1 = k /\ 1 \div 1 = 1
  <2>1. (1 * k) \div 1 = k /\ (1 * 1) \div 1 = 1
    BY DivExact
  <2> QED
    BY <2>1
<1>3. Ratio(k, 1) = Whole(k)
  BY <1>1, <1>2 DEF Ratio, Whole
<1>4. StandsFor(Ratio(k, 1), k, 1)
  BY RatioValue
<1> QED
  BY <1>3, <1>4

(* Laws of the arithmetic of fractions. *)
LEMMA FractionTypes ==
  /\ \A a, b \in Fractions : Plus(a, b) \in Fractions
  /\ \A k \in Int, a \in Fractions : Times(k, a) \in Fractions
  /\ \A a, b \in Fractions : Minus(a, b) \in Fractions
  /\ \A k \in Int : Whole(k) \in Fractions
<1>1. ASSUME NEW a \in Fractions, NEW b \in Fractions PROVE Plus(a, b) \in Fractions
  <2>1. StandsFor(a, a[1], a[2]) /\ StandsFor(b, b[1], b[2])
    BY FractionParts
  <2>2. StandsFor(Plus(a, b), a[1] * b[2] + b[1] * a[2], a[2] * b[2])
    BY <2>1, PlusValue
  <2> QED
    BY <2>2 DEF StandsFor
<1>2. ASSUME NEW k \in Int, NEW a \in Fractions PROVE Times(k, a) \in Fractions
  <2>1. StandsFor(a, a[1], a[2])
    BY FractionParts
  <2>2. StandsFor(Times(k, a), k * a[1], a[2])
    BY <2>1, TimesValue
  <2> QED
    BY <2>2 DEF StandsFor
<1>3. ASSUME NEW k \in Int PROVE Whole(k) \in Fractions
  BY WholeValue DEF StandsFor
<1>4. -1 \in Int
  OBVIOUS
<1>5. ASSUME NEW a \in Fractions, NEW b \in Fractions PROVE Minus(a, b) \in Fractions
  BY <1>1, <1>2, <1>4 DEF Minus
<1> QED
  BY <1>1, <1>2, <1>3, <1>5

LEMMA PlusSwap ==
  ASSUME NEW a \in Fractions, NEW b \in Fractions
  PROVE  Plus(a, b) = Plus(b, a)
<1>1. a[1] * b[2] + b[1] * a[2] = b[1] * a[2] + a[1] * b[2] /\ a[2] * b[2] = b[2] * a[2]
  BY FractionParts
<1> QED
  BY <1>1 DEF Plus

LEMMA PlusPlus ==
  ASSUME NEW a \in Fractions, NEW b \in Fractions, NEW c \in Fractions
  PROVE  Plus(Plus(a, b), c) = Plus(a, Plus(b, c))
<1> DEFINE a1 == a[1]
           a2 == a[2]
           b1 == b[1]
           b2 == b[2]
           c1 == c[1]
           c2 == c[2]
<1>1. /\ a1 \in Int /\ b1 \in Int /\ c1 \in Int
      /\ a2 \in Nat \ {0} /\ b2 \in Nat \ {0} /\ c2 \in Nat \ {0}
      /\ StandsFor(a, a1, a2) /\ StandsFor(b, b1, b2) /\ StandsFor(c, c1, c2)
  BY FractionParts
<1> HIDE DEF a1, a2, b1, b2, c1, c2
<1>2. /\ StandsFor(Plus(a, b), a1 * b2 + b1 * a2, a2 * b2)
      /\ StandsFor(Plus(b, c), b1 * c2 + c1 * b2, b2 * c2)
  BY <1>1, PlusValue
<1>3. StandsFor(Plus(Plus(a, b), c), (a1 * b2 + b1 * a2) * c2 + c1 * (a2 * b2), (a2 * b2) * c2)
  BY <1>1, <1>2, PlusValue
<1>4. StandsFor(Plus(a, Plus(b, c)), a1 * (b2 * c2) + (b1 * c2 + c1 * b2) * a2, a2 * (b2 * c2))
  BY <1>1, <1>2, PlusValue
<1>5. /\ (a1 * b2 + b1 * a2) * c2 + c1 * (a2 * b2) = a1 * (b2 * c2) + (b1 * c2 + c1 * b2) * a2
      /\ (a2 * b2) * c2 = a2 * (b2 * c2)
  BY <1>1
<1>6. StandsFor(Plus(a, Plus(b, c)), (a1 * b2 + b1 * a2) * c2 + c1 * (a2 * b2), (a2 * b2) * c2)
  BY <1>4, <1>5
<1> DEFINE n == (a1 * b2 + b1 * a2) * c2 + c1 * (a2 * b2)
           d == (a2 * b2) * c2
<1>7. StandsFor(Plus(Plus(a, b), c), n, d) /\ StandsFor(Plus(a, Plus(b, c)), n, d)
  BY <1>3, <1>6
<1> HIDE DEF n, d
<1> QED
  BY <1>7, SameValue

LEMMA PlusZero ==
  ASSUME NEW a \in Fractions
  PROVE  Plus(a, Whole(0)) = a
<1>1. a[1] \in Int /\ a[2] \in Nat \ {0} /\ Ratio(a[1], a[2]) = a
  BY FractionParts
<1>2. a[1] * 1 + 0 * a[2] = a[1] /\ a[2] * 1 = a[2]
  BY <1>1
<1> QED
  BY <1>1, <1>2 DEF Plus, Whole

LEMMA TimesZero ==
  ASSUME NEW a \in Fractions
  PROVE  Times(0, a) = Whole(0)
<1>1. StandsFor(a, a[1], a[2]) /\ a[1] \in Int /\ a[2] \in Nat \ {0}
  BY FractionParts
<1>2. StandsFor(Times(0, a), 0 * a[1], a[2]) /\ StandsFor(Whole(0), 0, 1)
  BY <1>1, TimesValue, WholeValue
<1>3. (0 * a[1]) * 1 = 0 * a[2]
  BY <1>1
<1> QED
  BY <1>2, <1>3, SameValue

LEMMA TimesOne ==
  ASSUME NEW a \in Fractions
  PROVE  Times(1, a) = a
<1>1. a[1] \in Int /\ a[2] \in Nat \ {0} /\ Ratio(a[1], a[2]) = a
  BY FractionParts
<1>2. 1 * a[1] = a[1]
  BY <1>1
<1> QED
  BY <1>1, <1>2 DEF Times

LEMMA TimesPlus ==
  ASSUME NEW k \in Int, NEW a \in Fractions, NEW b \in Fractions
  PROVE  Times(k, Plus(a, b)) = Plus(Times(k, a), Times(k, b))
<1> DEFINE a1 == a[1]
           a2 == a[2]
           b1 == b[1]
           b2 == b[2]
<1>1. /\ a1 \in Int /\ b1 \in Int /\ a2 \in Nat \ {0} /\ b2 \in Nat \ {0}
      /\ StandsFor(a, a1, a2) /\ StandsFor(b, b1, b2)
  BY FractionParts
<1> HIDE DEF a1, a2, b1, b2
<1>2. StandsFor(Plus(a, b), a1 * b2 + b1 * a2, a2 * b2)
  BY <1>1, PlusValue
<1>3. StandsFor(Times(k, Plus(a, b)), k * (a1 * b2 + b1 * a2), a2 * b2)
  BY <1>2, TimesValue
<1>4. StandsFor(Times(k, a), k * a1, a2) /\ StandsFor(Times(k, b), k * b1, b2)
  BY <1>1, TimesValue
<1>5. StandsFor(Plus(Times(k, a), Times(k, b)), (k * a1) * b2 + (k * b1) * a2, a2 * b2)
  BY <1>4, PlusValue
<1>6. k * (a1 * b2 + b1 * a2) = (k * a1) * b2 + (k * b1) * a2
  BY <1>1
<1> DEFINE n == k * (a1 * b2 + b1 * a2)
           d == a2 * b2
<1>7. StandsFor(Times(k, Plus(a, b)), n, d) /\ StandsFor(Plus(Times(k, a), Times(k, b)), n, d)
  BY <1>3, <1>5, <1>6
<1> HIDE DEF n, d
<1> QED
  BY <1>7, SameValue

LEMMA TimesAdd ==
  ASSUME NEW j \in Int, NEW k \in Int, NEW a \in Fractions
  PROVE  Times(j + k, a) = Plus(Times(j, a), Times(k, a))
<1> DEFINE a1 == a[1]
           a2 == a[2]
<1>1. a1 \in Int /\ a2 \in Nat \ {0} /\ StandsFor(a, a1, a2)
  BY FractionParts
<1> HIDE DEF a1, a2
<1>2. /\ StandsFor(Times(j + k, a), (j + k) * a1, a2)
      /\ StandsFor(Times(j, a), j * a1, a2) /\ StandsFor(Times(k, a), k * a1, a2)
  <2>1. ASSUME NEW i \in Int PROVE StandsFor(Times(i, a), i * a1, a2)
    BY <1>1, TimesValue
  <2>2. j + k \in Int
    OBVIOUS
  <2> QED
    BY <2>1, <2>2
<1>3. StandsFor(Plus(Times(j, a), Times(k, a)), (j * a1) * a2 + (k * a1) * a2, a2 * a2)
  BY <1>2, PlusValue
<1>4. ((j + k) * a1) * (a2 * a2) = ((j * a1) * a2 + (k * a1) * a2) * a2
  BY <1>1
<1> QED
  BY <1>2, <1>3, <1>4, SameValue

LEMMA TimesTimes ==
  ASSUME NEW j \in Int, NEW k \in Int, NEW a \in Fractions
  PROVE  Times(j, Times(k, a)) = Times(j * k, a)
<1> DEFINE a1 == a[1]
           a2 == a[2]
<1>1. a1 \in Int /\ a2 \in Nat \ {0} /\ StandsFor(a, a1, a2) /\ j * k \in Int
  BY FractionParts
<1> HIDE DEF a1, a2
<1>2. StandsFor(Times(k, a), k * a1, a2) /\ StandsFor(Times(j * k, a), (j * k) * a1, a2)
  BY <1>1, TimesValue
<1>3. StandsFor(Times(j, Times(k, a)), j * (k * a1), a2)
  BY <1>2, TimesValue
<1>4. j * (k * a1) = (j * k) * a1
  BY <1>1
<1>5. StandsFor(Times(j * k, a), j * (k * a1), a2)
  BY <1>2, <1>4
<1> QED
  BY <1>3, <1>5, SameValue

LEMMA WholePlus ==
  ASSUME NEW j \in Int, NEW k \in Int
  PROVE  Plus(Whole(j), Whole(k)) = Whole(j + k)
<1>1. StandsFor(Whole(j), j, 1) /\ StandsFor(Whole(k), k, 1) /\ StandsFor(Whole(j + k), j + k, 1)
  BY WholeValue
<1>2. StandsFor(Plus(Whole(j), Whole(k)), j * 1 + k * 1, 1 * 1)
  BY <1>1, PlusValue
<1>3. (j * 1 + k * 1) * 1 = (j + k) * (1 * 1)
  OBVIOUS
<1> QED
  BY <1>1, <1>2, <1>3, SameValue

LEMMA TimesWhole ==
  ASSUME NEW j \in Int, NEW k \in Int
  PROVE  Times(j, Whole(k)) = Whole(j * k)
<1>1. StandsFor(Whole(k), k, 1) /\ StandsFor(Whole(j * k), j * k, 1)
  BY WholeValue
<1>2. StandsFor(Times(j, Whole(k)), j * k, 1)
  BY <1>1, TimesValue
<1> QED
  BY <1>1, <1>2, SameValue

(* A bound on a value is a bound on the fraction. *)
LEMMA ValueAtLeast ==
  ASSUME NEW r, NEW n, NEW d, StandsFor(r, n, d), NEW k \in Int
  PROVE  (k * d <= n <=> AtMost(Whole(k), r)) /\ (n <= k * d <=> AtMost(r, Whole(k)))
<1>1. /\ r \in Fractions /\ n \in Int /\ d \in Nat \ {0} /\ r[1] * d = n * r[2]
  BY DEF StandsFor
<1> DEFINE r1 == r[1]
           r2 == r[2]
<1>2. r1 \in Int /\ r2 \in Nat \ {0} /\ r1 * d = n * r2
  BY <1>1, FractionParts
<1>3. (AtMost(Whole(k), r) <=> k * r2 <= r1) /\ (AtMost(r, Whole(k)) <=> r1 <= k * r2)
  <2>1. (AtMost(Whole(k), r) <=> k * r2 <= r1 * 1) /\ (AtMost(r, Whole(k)) <=> r1 * 1 <= k * r2)
    BY DEF AtMost, Whole
  <2> QED
    BY <1>2, <2>1
<1> HIDE DEF r1, r2
<1>4. k * d \in Int /\ k * r2 \in Int
  BY <1>1, <1>2
<1>5. d * (k * r2) = r2 * (k * d) /\ d * r1 = r2 * n
  BY <1>1, <1>2
<1>6. /\ (k * d < n => r2 * (k * d) < r2 * n) /\ (k * d <= n => r2 * (k * d) <= r2 * n)
      /\ (n < k * d => r2 * n < r2 * (k * d)) /\ (n <= k * d => r2 * n <= r2 * (k * d))
  BY <1>1, <1>2, <1>4, MulMore
<1>7. /\ (k * r2 < r1 => d * (k * r2) < d * r1) /\ (k * r2 <= r1 => d * (k * r2) <= d * r1)
      /\ (r1 < k * r2 => d * r1 < d * (k * r2)) /\ (r1 <= k * r2 => d * r1 <= d * (k * r2))
  BY <1>1, <1>2, <1>4, MulMore
<1> DEFINE x == k * d
           y == k * r2
           p == r2 * (k * d)
           q == r2 * n
<1>8. x \in Int /\ y \in Int /\ p \in Int /\ q \in Int
  BY <1>1, <1>2, <1>4
<1>9. /\ (x < n => p < q) /\ (x <= n => p <= q) /\ (n < x => q < p) /\ (n <= x => q <= p)
      /\ (y < r1 => p < q) /\ (y <= r1 => p <= q) /\ (r1 < y => q < p) /\ (r1 <= y => q <= p)
  BY <1>5, <1>6, <1>7
<1>10. (x <= n <=> AtMost(Whole(k), r)) /\ (n <= x <=> AtMost(r, Whole(k)))
  <2>1. (AtMost(Whole(k), r) <=> y <= r1) /\ (AtMost(r, Whole(k)) <=> r1 <= y)
    BY <1>3
  <2> HIDE DEF x, y, p, q
  <2> QED
    BY <2>1, <1>1, <1>2, <1>8, <1>9
<1> QED
  BY <1>10

(* What is left of two sums of whole numbers when a ratio is given back. *)
LEMMA LeftOver ==
  ASSUME NEW j \in Int, NEW k \in Int, NEW n \in Int, NEW a \in Fractions
  PROVE  Minus(Plus(Whole(j), Plus(Whole(k), a)), Plus(a, Whole(n))) = Whole(j + k - n)
<1> DEFINE minus == Times(-1, a)
           x == Whole(j + k)
           y == Whole(-n)
<1>1. /\ j + k \in Int /\ -n \in Int /\ -1 \in Int /\ 1 \in Int
      /\ Whole(j) \in Fractions /\ Whole(k) \in Fractions /\ Whole(n) \in Fractions
      /\ minus \in Fractions /\ x \in Fractions /\ y \in Fractions
  BY FractionTypes
<1>2. Plus(Whole(j), Plus(Whole(k), a)) = Plus(x, a)
  BY <1>1, PlusPlus, WholePlus
<1>3. Times(-1, Plus(a, Whole(n))) = Plus(minus, y)
  <2>1. Times(-1, Whole(n)) = Whole(-n)
    <3>1. Times(-1, Whole(n)) = Whole((-1) * n) /\ (-1) * n = -n
      BY TimesWhole
    <3> QED
      BY <3>1
  <2> QED
    BY <1>1, <2>1, TimesPlus
<1>4. Plus(a, minus) = Whole(0)
  <2>1. Times(1 + -1, a) = Plus(Times(1, a), Times(-1, a)) /\ 1 + -1 = 0
    BY TimesAdd
  <2>2. Times(0, a) = Whole(0) /\ Times(1, a) = a
    BY TimesZero, TimesOne
  <2> QED
    BY <2>1, <2>2
<1> HIDE DEF minus
<1>5. Plus(a, Plus(minus, y)) = y
  <2>1. Plus(Plus(a, minus), y) = Plus(a, Plus(minus, y))
    BY <1>1, PlusPlus
  <2>2. Plus(Whole(0), y) = y
    <3>1. Whole(0) \in Fractions
      BY FractionTypes
    <3>2. Plus(Whole(0), y) = Plus(y, Whole(0)) /\ Plus(y, Whole(0)) = y
      BY <1>1, <3>1, PlusSwap, PlusZero
    <3> QED
      BY <3>2
  <2> QED
    BY <1>4, <2>1, <2>2
<1>6. Plus(Plus(x, a), Plus(minus, y)) = Plus(x, y)
  <2>1. Plus(minus, y) \in Fractions
    BY <1>1, FractionTypes
  <2>2. Plus(Plus(x, a), Plus(minus, y)) = Plus(x, Plus(a, Plus(minus, y)))
    BY <1>1, <2>1, PlusPlus
  <2> QED
    BY <1>5, <2>2
<1>7. Plus(x, y) = Whole((j + k) + -n) /\ (j + k) + -n = j + k - n
  BY <1>1, WholePlus
<1> QED
  BY <1>2, <1>3, <1>6, <1>7 DEF Minus

(* A total of ratios each of which is a whole and another ratio. *)
Parts(r, c, q, S) ==
  \A x \in S : c[x] \in Int /\ q[x] \in Fractions /\ r[x] = Plus(Whole(c[x]), q[x])

LEMMA PlusParts ==
  ASSUME NEW j \in Int, NEW k \in Int, NEW a \in Fractions, NEW b \in Fractions
  PROVE  Plus(Plus(Whole(j), a), Plus(Whole(k), b)) = Plus(Whole(j + k), Plus(a, b))
<1> DEFINE w == Whole(j)
           v == Whole(k)
<1>1. w \in Fractions /\ v \in Fractions /\ Plus(a, b) \in Fractions /\ Plus(v, b) \in Fractions
      /\ Plus(w, v) = Whole(j + k) /\ Plus(v, a) \in Fractions
  BY FractionTypes, WholePlus
<1> HIDE DEF w, v
<1>2. Plus(Plus(w, a), Plus(v, b)) = Plus(w, Plus(a, Plus(v, b)))
  BY <1>1, PlusPlus
<1>3. Plus(a, Plus(v, b)) = Plus(Plus(v, a), b)
  BY <1>1, PlusPlus, PlusSwap
<1>4. Plus(Plus(v, a), b) = Plus(v, Plus(a, b))
  BY <1>1, PlusPlus
<1>5. Plus(w, Plus(v, Plus(a, b))) = Plus(Plus(w, v), Plus(a, b))
  BY <1>1, PlusPlus
<1> QED
  BY <1>1, <1>2, <1>3, <1>4, <1>5 DEF w, v

LEMMA TotalParts ==
  ASSUME NEW S, IsFiniteSet(S), NEW r, NEW c, NEW q, Parts(r, c, q, S)
  PROVE  /\ TotalOf(r, S) = Plus(Whole(SumFunctionOnSet(c, S)), TotalOf(q, S))
         /\ TotalOf(q, S) \in Fractions /\ SumFunctionOnSet(c, S) \in Int
<1> DEFINE P(T) == /\ TotalOf(r, T) = Plus(Whole(SumFunctionOnSet(c, T)), TotalOf(q, T))
                   /\ TotalOf(q, T) \in Fractions /\ SumFunctionOnSet(c, T) \in Int
           Bad == {T \in SUBSET S : ~ P(T)}
<1>1. SUFFICES ASSUME Bad # {} PROVE FALSE
  OBVIOUS
<1>2. Bad \subseteq FiniteSubsetsOf(S)
  BY FS_Subset DEF FiniteSubsetsOf
<1>3. PICK T \in Bad : \A u \in Bad : ~ (<<u, T>> \in StrictSubsetOrdering(S))
  BY <1>1, <1>2, FS_StrictSubsetOrderingWellFounded, WFMin
<1>4. IsFiniteSet(T)
  BY FS_Subset
<1>5. T # {}
  <2>1. P({})
    <3>1. TotalOf(r, {}) = Whole(0) /\ TotalOf(q, {}) = Whole(0) /\ SumFunctionOnSet(c, {}) = 0
      BY FS_EmptySet, TotalStep, SumEmpty
    <3>2. Whole(0) \in Fractions /\ Plus(Whole(0), Whole(0)) = Whole(0)
      BY FractionTypes, PlusZero
    <3> QED
      BY <3>1, <3>2
  <2> QED
    BY <2>1
<1> DEFINE x == CHOOSE x \in T : TRUE
<1>6. x \in T
  BY <1>5
<1>7. /\ SumFunctionOnSet(c, T) = c[x] + SumFunctionOnSet(c, T \ {x})
      /\ TotalOf(r, T) = Plus(r[x], TotalOf(r, T \ {x}))
      /\ TotalOf(q, T) = Plus(q[x], TotalOf(q, T \ {x}))
  BY <1>4, <1>5, SumStep, TotalStep
<1> HIDE DEF x
<1>8. <<T \ {x}, T>> \in StrictSubsetOrdering(S)
  BY <1>6 DEF StrictSubsetOrdering
<1>9. P(T \ {x})
  BY <1>8, <1>3, <1>6
<1>10. c[x] \in Int /\ q[x] \in Fractions /\ r[x] = Plus(Whole(c[x]), q[x])
  BY <1>6 DEF Parts
<1> DEFINE j == SumFunctionOnSet(c, T \ {x})
           b == TotalOf(q, T \ {x})
<1>11. /\ TotalOf(r, T) = Plus(Plus(Whole(c[x]), q[x]), Plus(Whole(j), b))
       /\ j \in Int /\ b \in Fractions
       /\ TotalOf(q, T) = Plus(q[x], b)
       /\ SumFunctionOnSet(c, T) = c[x] + j
  BY <1>7, <1>9, <1>10
<1> DEFINE i == c[x]
           a == q[x]
<1>12. i \in Int /\ a \in Fractions
  BY <1>10
<1> HIDE DEF j, b, i, a
<1>13. Plus(Plus(Whole(i), a), Plus(Whole(j), b)) = Plus(Whole(i + j), Plus(a, b))
  BY <1>11, <1>12, PlusParts
<1>14. Plus(a, b) \in Fractions /\ i + j \in Int
  BY <1>11, <1>12, FractionTypes
<1>15. TotalOf(r, T) = Plus(Plus(Whole(i), a), Plus(Whole(j), b)) /\ TotalOf(q, T) = Plus(a, b)
       /\ SumFunctionOnSet(c, T) = i + j
  BY <1>11 DEF i, a
<1>16. P(T)
  BY <1>13, <1>14, <1>15
<1> QED
  BY <1>16

-----------------------------------------------------------------------------
(* Sums over parts of a set. *)
LEMMA SumUnion ==
  ASSUME NEW S, IsFiniteSet(S), NEW f, \A x \in S : f[x] \in Int,
         NEW A \in SUBSET S, NEW B \in SUBSET S, A \cap B = {}
  PROVE  SumFunctionOnSet(f, A \cup B) = SumFunctionOnSet(f, A) + SumFunctionOnSet(f, B)
<1> DEFINE Q == {T \in SUBSET B : SumFunctionOnSet(f, A \cup T)
                                    = SumFunctionOnSet(f, A) + SumFunctionOnSet(f, T)}
<1>1. IsFiniteSet(A) /\ IsFiniteSet(B)
  BY FS_Subset
<1>2. SumFunctionOnSet(f, A) \in Int
  <2>1. \A x \in A : f[x] \in Int
    OBVIOUS
  <2> QED
    BY <1>1, <2>1, SumType
<1>3. {} \in Q
  <2>1. A \cup {} = A
    OBVIOUS
  <2>2. SumFunctionOnSet(f, {}) = 0
    BY SumEmpty
  <2> QED
    BY <1>2, <2>1, <2>2
<1>4. ASSUME NEW T \in SUBSET B, NEW x \in B, x \notin T, T \in Q PROVE T \cup {x} \in Q
  <2>1. /\ A \cup (T \cup {x}) = (A \cup T) \cup {x} /\ x \notin A \cup T
        /\ IsFiniteSet(A \cup T) /\ IsFiniteSet(T)
    <3>1. A \cup T \in SUBSET S
      OBVIOUS
    <3> QED
      BY <1>1, <1>4, <3>1, FS_Subset
  <2>2. /\ Summable(f, (A \cup T) \cup {x}) /\ Summable(f, T \cup {x}) /\ x \notin T
        /\ \A y \in T : f[y] \in Int
    <3>1. (A \cup T) \cup {x} \in SUBSET S /\ T \cup {x} \in SUBSET S
      OBVIOUS
    <3>2. \A U \in SUBSET S : Summable(f, U)
      BY FS_Subset DEF Summable
    <3> QED
      BY <1>4, <3>1, <3>2
  <2>3. /\ SumFunctionOnSet(f, (A \cup T) \cup {x}) = SumFunctionOnSet(f, A \cup T) + f[x]
        /\ SumFunctionOnSet(f, T \cup {x}) = SumFunctionOnSet(f, T) + f[x]
    <3>1. SumFunctionOnSet(f, (A \cup T) \cup {x}) = SumFunctionOnSet(f, A \cup T) + f[x]
      BY <2>1, <2>2, SumOneMore
    <3>2. SumFunctionOnSet(f, T \cup {x}) = SumFunctionOnSet(f, T) + f[x]
      BY <2>2, SumOneMore
    <3> QED
      BY <3>1, <3>2
  <2>4. SumFunctionOnSet(f, T) \in Int /\ f[x] \in Int
    BY <2>1, <2>2, SumType
  <2>5. SumFunctionOnSet(f, A \cup T) = SumFunctionOnSet(f, A) + SumFunctionOnSet(f, T)
    BY <1>4
  <2>6. SumFunctionOnSet(f, A \cup (T \cup {x}))
          = SumFunctionOnSet(f, A) + SumFunctionOnSet(f, T \cup {x})
    <3>1. SumFunctionOnSet(f, A \cup (T \cup {x})) = SumFunctionOnSet(f, (A \cup T) \cup {x})
      BY <2>1, Zenon
    <3> QED
      BY <1>2, <2>3, <2>4, <2>5, <3>1
  <2> QED
    BY <2>6
<1> HIDE DEF Q
<1>5. B \in Q
  BY <1>1, <1>3, <1>4, SubsetInduction
<1> QED
  BY <1>5 DEF Q

LEMMA SumWithin ==
  ASSUME NEW S, IsFiniteSet(S), NEW f, \A x \in S : f[x] \in Nat, NEW T \in SUBSET S
  PROVE  SumFunctionOnSet(f, T) <= SumFunctionOnSet(f, S)
<1> DEFINE U == S \ T
           t == SumFunctionOnSet(f, T)
           u == SumFunctionOnSet(f, U)
<1>1. T \cup U = S /\ T \cap U = {} /\ U \in SUBSET S
  OBVIOUS
<1> HIDE DEF U
<1>2. \A x \in S : f[x] \in Int
  OBVIOUS
<1>3. SumFunctionOnSet(f, T \cup U) = t + u
  BY <1>1, <1>2, SumUnion
<1>4. t \in Nat /\ u \in Nat
  <2>1. IsFiniteSet(T) /\ IsFiniteSet(U)
    BY <1>1, FS_Subset
  <2>2. (\A x \in T : f[x] \in Nat) /\ \A x \in U : f[x] \in Nat
    BY <1>1
  <2> QED
    BY <2>1, <2>2, SumNat
<1>5. SumFunctionOnSet(f, S) = t + u
  BY <1>1, <1>3, Zenon
<1> HIDE DEF t, u
<1>6. t <= SumFunctionOnSet(f, S)
  BY <1>4, <1>5
<1> QED
  BY <1>6 DEF t

LEMMA SumScaled ==
  ASSUME NEW S, IsFiniteSet(S), NEW k \in Int, NEW f, NEW g,
         \A x \in S : f[x] \in Int /\ g[x] = k * f[x]
  PROVE  SumFunctionOnSet(g, S) = k * SumFunctionOnSet(f, S)
<1> DEFINE Q == {T \in SUBSET S : SumFunctionOnSet(g, T) = k * SumFunctionOnSet(f, T)}
<1>1. {} \in Q
  <2>1. SumFunctionOnSet(g, {}) = 0 /\ SumFunctionOnSet(f, {}) = 0 /\ k * 0 = 0
    BY SumEmpty
  <2> QED
    BY <2>1
<1>2. ASSUME NEW T \in SUBSET S, NEW x \in S, x \notin T, T \in Q PROVE T \cup {x} \in Q
  <2>1. /\ IsFiniteSet(T) /\ f[x] \in Int /\ g[x] = k * f[x] /\ x \notin T
        /\ Summable(f, T \cup {x}) /\ Summable(g, T \cup {x})
        /\ \A y \in T : f[y] \in Int
    <3>1. T \cup {x} \in SUBSET S
      OBVIOUS
    <3>2. IsFiniteSet(T) /\ IsFiniteSet(T \cup {x})
      BY <3>1, FS_Subset
    <3> QED
      BY <1>2, <3>2 DEF Summable
  <2>2. /\ SumFunctionOnSet(f, T \cup {x}) = SumFunctionOnSet(f, T) + f[x]
        /\ SumFunctionOnSet(g, T \cup {x}) = SumFunctionOnSet(g, T) + g[x]
    <3>1. SumFunctionOnSet(f, T \cup {x}) = SumFunctionOnSet(f, T) + f[x]
      BY <2>1, SumOneMore
    <3>2. SumFunctionOnSet(g, T \cup {x}) = SumFunctionOnSet(g, T) + g[x]
      BY <2>1, SumOneMore, ZenonT(60)
    <3> QED
      BY <3>1, <3>2
  <2>3. SumFunctionOnSet(f, T) \in Int
    BY <2>1, SumType
  <2>4. SumFunctionOnSet(g, T) = k * SumFunctionOnSet(f, T)
    BY <1>2
  <2>5. k * (SumFunctionOnSet(f, T) + f[x]) = k * SumFunctionOnSet(f, T) + k * f[x]
    BY <2>1, <2>3, MulDist
  <2>6. SumFunctionOnSet(g, T \cup {x}) = k * SumFunctionOnSet(f, T \cup {x})
    BY <2>1, <2>2, <2>4, <2>5
  <2> QED
    BY <2>6
<1> HIDE DEF Q
<1>3. S \in Q
  BY <1>1, <1>2, SubsetInduction
<1> QED
  BY <1>3 DEF Q

(* The elements of S by their keys; sums[k] is the sum of those of key k. *)
WithKey(S, key, T) == {x \in S : key[x] \in T}

ByKey(sums, f, S, key, T) ==
  /\ IsFiniteSet(S) /\ \A x \in S : f[x] \in Int
  /\ IsFiniteSet(T)
  /\ \A k \in T : sums[k] = SumFunctionOnSet(f, WithKey(S, key, {k}))

LEMMA SumByKey ==
  ASSUME NEW S, NEW f, NEW key, NEW T, NEW sums, ByKey(sums, f, S, key, T)
  PROVE  SumFunctionOnSet(f, WithKey(S, key, T)) = SumFunctionOnSet(sums, T)
<1> USE DEF ByKey
<1> DEFINE Q == {U \in SUBSET T : SumFunctionOnSet(f, WithKey(S, key, U)) = SumFunctionOnSet(sums, U)}
<1>1. {} \in Q
  <2>1. WithKey(S, key, {}) = {}
    BY DEF WithKey
  <2> QED
    BY <2>1, SumEmpty
<1>2. \A k \in T : sums[k] \in Int
  <2> SUFFICES ASSUME NEW k \in T PROVE sums[k] \in Int
    OBVIOUS
  <2>1. WithKey(S, key, {k}) \in SUBSET S
    BY DEF WithKey
  <2>2. IsFiniteSet(WithKey(S, key, {k})) /\ \A x \in WithKey(S, key, {k}) : f[x] \in Int
    BY <2>1, FS_Subset
  <2> QED
    BY <2>2, SumType
<1>3. ASSUME NEW U \in SUBSET T, NEW k \in T, k \notin U, U \in Q PROVE U \cup {k} \in Q
  <2> DEFINE A == WithKey(S, key, U)
             B == WithKey(S, key, {k})
  <2>1. /\ WithKey(S, key, U \cup {k}) = A \cup B /\ A \cap B = {}
        /\ A \in SUBSET S /\ B \in SUBSET S
    BY <1>3 DEF WithKey
  <2>2. sums[k] = SumFunctionOnSet(f, B)
    OBVIOUS
  <2>3. SumFunctionOnSet(f, A) = SumFunctionOnSet(sums, U)
    BY <1>3
  <2> HIDE DEF A, B
  <2>4. SumFunctionOnSet(f, A \cup B) = SumFunctionOnSet(f, A) + SumFunctionOnSet(f, B)
    BY <2>1, SumUnion
  <2>5. IsFiniteSet(U) /\ \A y \in U \cup {k} : sums[y] \in Int
    BY <1>2, FS_Subset
  <2>6. SumFunctionOnSet(sums, U \cup {k}) = SumFunctionOnSet(sums, U) + sums[k]
    BY <1>3, <2>5, SumAdd, SMTT(60)
  <2>7. SumFunctionOnSet(f, WithKey(S, key, U \cup {k})) = SumFunctionOnSet(sums, U \cup {k})
    BY <2>1, <2>2, <2>3, <2>4, <2>6
  <2> QED
    BY <2>7
<1> HIDE DEF Q
<1>4. T \in Q
  BY <1>1, <1>3, SubsetInduction
<1> QED
  BY <1>4 DEF Q

LEMMA TotalWhole ==
  ASSUME NEW S, IsFiniteSet(S), NEW r, NEW c, \A x \in S : c[x] \in Int /\ r[x] = Whole(c[x])
  PROVE  TotalOf(r, S) = Whole(SumFunctionOnSet(c, S)) /\ SumFunctionOnSet(c, S) \in Int
<1> DEFINE P(T) == /\ TotalOf(r, T) = Whole(SumFunctionOnSet(c, T))
                   /\ SumFunctionOnSet(c, T) \in Int
           Bad == {T \in SUBSET S : ~ P(T)}
<1>1. SUFFICES ASSUME Bad # {} PROVE FALSE
  OBVIOUS
<1>2. Bad \subseteq FiniteSubsetsOf(S)
  BY FS_Subset DEF FiniteSubsetsOf
<1>3. PICK T \in Bad : \A u \in Bad : ~ (<<u, T>> \in StrictSubsetOrdering(S))
  BY <1>1, <1>2, FS_StrictSubsetOrderingWellFounded, WFMin
<1>4. IsFiniteSet(T)
  BY FS_Subset
<1>5. T # {}
  <2>1. TotalOf(r, {}) = Whole(0) /\ SumFunctionOnSet(c, {}) = 0
    BY FS_EmptySet, TotalStep, SumEmpty
  <2>2. P({})
    BY <2>1
  <2> QED
    BY <2>2
<1> DEFINE x == CHOOSE x \in T : TRUE
<1>6. x \in T
  BY <1>5
<1>7. /\ SumFunctionOnSet(c, T) = c[x] + SumFunctionOnSet(c, T \ {x})
      /\ TotalOf(r, T) = Plus(r[x], TotalOf(r, T \ {x}))
  BY <1>4, <1>5, SumStep, TotalStep
<1> HIDE DEF x
<1>8. <<T \ {x}, T>> \in StrictSubsetOrdering(S)
  BY <1>6 DEF StrictSubsetOrdering
<1>9. P(T \ {x})
  BY <1>8, <1>3, <1>6
<1> DEFINE j == SumFunctionOnSet(c, T \ {x})
           i == c[x]
<1>10. /\ i \in Int /\ j \in Int /\ SumFunctionOnSet(c, T) = i + j
       /\ TotalOf(r, T) = Plus(Whole(i), Whole(j))
  BY <1>6, <1>7, <1>9
<1> HIDE DEF i, j
<1>11. P(T)
  BY <1>10, WholePlus
<1> QED
  BY <1>11

-----------------------------------------------------------------------------
(* Folding a sequence.  What FoldLeft unfolds to is a choice among the     *)
(* functions on the sets of positions that put the greatest position last; *)
(* there is one, when the operation is a function on the values at hand.   *)
FoldRule(g, F, V, base, s) ==
  /\ g \in [SUBSET (1..Len(s)) -> V]
  /\ g[{}] = base
  /\ \A t \in SUBSET (1..Len(s)) :
        t # {} => g[t] = F[<<g[t \ {Max(t)}], s[Max(t)]>>]

LEMMA FoldExists ==
  ASSUME NEW V, NEW E, NEW F \in [V \X E -> V], NEW base \in V, NEW s \in Seq(E)
  PROVE  \E g : FoldRule(g, F, V, base, s)
<1> DEFINE Folds(g, n) == /\ g \in [SUBSET (1..n) -> V]
                          /\ g[{}] = base
                          /\ \A t \in SUBSET (1..n) :
                               t # {} => g[t] = F[<<g[t \ {Max(t)}], s[Max(t)]>>]
           Q == {n \in Nat : n <= Len(s) => \E g : Folds(g, n)}
<1>1. 0 \in Q
  <2> DEFINE g == [t \in SUBSET (1..0) |-> base]
  <2>1. \A t \in SUBSET (1..0) : t = {}
    OBVIOUS
  <2>2. Folds(g, 0)
    BY <2>1
  <2> QED
    BY <2>2
<1>2. ASSUME NEW n \in Nat, n \in Q PROVE n + 1 \in Q
  <2> SUFFICES ASSUME n + 1 <= Len(s) PROVE \E g : Folds(g, n + 1)
    <3>1. n + 1 \in Nat
      OBVIOUS
    <3> HIDE DEF Folds
    <3> QED
      BY <3>1
  <2>0. n + 1 \in Nat
    OBVIOUS
  <2>1. n <= Len(s) /\ n + 1 \in 1..Len(s)
    OBVIOUS
  <2>2. PICK h : Folds(h, n)
    BY <1>2, <2>1
  <2> DEFINE g == [t \in SUBSET (1..(n + 1)) |->
                     IF n + 1 \in t THEN F[<<h[t \ {n + 1}], s[n + 1]>>] ELSE h[t]]
  <2>3. \A t \in SUBSET (1..(n + 1)) : t \ {n + 1} \in SUBSET (1..n)
    OBVIOUS
  <2>4. s[n + 1] \in E
    BY <2>1
  <2>5. \A t \in SUBSET (1..(n + 1)) : g[t] \in V
    <3> SUFFICES ASSUME NEW t \in SUBSET (1..(n + 1)) PROVE g[t] \in V
      OBVIOUS
    <3>1. CASE n + 1 \in t
      <4>1. h[t \ {n + 1}] \in V
        BY <2>2, <2>3
      <4>2. g[t] = F[<<h[t \ {n + 1}], s[n + 1]>>]
        BY <3>1
      <4> QED
        BY <2>4, <4>1, <4>2
    <3>2. CASE n + 1 \notin t
      <4>1. t \in SUBSET (1..n)
        BY <3>2
      <4>2. g[t] = h[t]
        BY <3>2
      <4> QED
        BY <2>2, <4>1, <4>2
    <3> QED
      BY <3>1, <3>2
  <2>6. g \in [SUBSET (1..(n + 1)) -> V]
    BY <2>5
  <2>7. g[{}] = base
    BY <2>2
  <2>8. ASSUME NEW t \in SUBSET (1..(n + 1)), t # {}
        PROVE  g[t] = F[<<g[t \ {Max(t)}], s[Max(t)]>>]
    <3>1. CASE n + 1 \in t
      <4>1. t \in SUBSET (0..(n + 1))
        OBVIOUS
      <4>2. Max(t) \in t /\ \A x \in t : x <= Max(t)
        BY <2>0, <2>8, <4>1, MaxOfRange
      <4>3. Max(t) = n + 1
        <5>1. Max(t) \in 1..(n + 1) /\ n + 1 <= Max(t)
          BY <3>1, <4>2
        <5> QED
          BY <5>1
      <4>4. g[t \ {n + 1}] = h[t \ {n + 1}]
        BY <2>3
      <4> QED
        BY <3>1, <4>3, <4>4
    <3>2. CASE n + 1 \notin t
      <4>1. t \in SUBSET (1..n) /\ t \in SUBSET (0..(n + 1))
        BY <3>2
      <4>2. Max(t) \in t
        BY <2>0, <2>8, <4>1, MaxOfRange
      <4>3. t \ {Max(t)} \in SUBSET (1..n) /\ n + 1 \notin t \ {Max(t)}
        BY <3>2, <4>1
      <4>4. g[t \ {Max(t)}] = h[t \ {Max(t)}] /\ g[t] = h[t]
        BY <3>2, <4>1, <4>3
      <4>5. h[t] = F[<<h[t \ {Max(t)}], s[Max(t)]>>]
        BY <2>2, <2>8, <4>1
      <4> QED
        BY <4>4, <4>5
    <3> QED
      BY <3>1, <3>2
  <2> HIDE DEF g
  <2> QED
    BY <2>6, <2>7, <2>8
<1>3. Len(s) \in Q
  <2>1. \A n \in Nat : n \in Q
    <3> HIDE DEF Q
    <3> QED
      BY <1>1, <1>2, NatSetInduction
  <2>2. Len(s) \in Nat
    OBVIOUS
  <2> QED
    BY <2>1, <2>2
<1>4. \E g : Folds(g, Len(s))
  <2>1. Len(s) \in Nat /\ Len(s) <= Len(s)
    OBVIOUS
  <2> HIDE DEF Folds
  <2> QED
    BY <1>3, <2>1
<1> QED
  BY <1>4 DEF FoldRule
=============================================================================
