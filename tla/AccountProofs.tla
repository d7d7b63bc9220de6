---------------------------- MODULE AccountProofs ----------------------------
(* Theorems about Account, for any commands and any initial cash. *)
EXTENDS Account, FiniteSetTheorems, WellFoundedInduction, TLAPS

-----------------------------------------------------------------------------
(* Sums over functions with a finite domain                                *)
(*                                                                         *)
(* MapThenSumSet picks the elements in an order of its own.  The lemmas    *)
(* show that the sum exists, that it does not depend on that order, and    *)
(* how it changes with one value of the function.  Induction goes over the *)
(* strict inclusion of finite sets: a nonempty collection of finite sets   *)
(* has a minimal member.                                                   *)

PickOf(s) == CHOOSE x \in s : TRUE

\* One step of the fold of v, given the totals g of the smaller sets.
Folded(v, g, s) == IF s = {} THEN 0 ELSE v[PickOf(s)] + g[s \ {PickOf(s)}]

Totals(v, g, D) == g = [s \in D |-> Folded(v, g, s)]

SumOver(v) == (CHOOSE g : Totals(v, g, SUBSET DOMAIN v))[DOMAIN v]

\* A function that can be summed.
Summable(v) == IsFiniteSet(DOMAIN v) /\ \A x \in DOMAIN v : v[x] \in Int

LEMMA PickIn == ASSUME NEW s, s # {} PROVE PickOf(s) \in s
  BY DEF PickOf

LEMMA MinimalSet ==
  ASSUME NEW S, NEW B, B \subseteq FiniteSubsetsOf(S), B # {}
  PROVE  \E U \in B : \A V \in B : ~(V \subseteq U /\ V # U)
  <1>1. IsWellFoundedOn(StrictSubsetOrdering(S), FiniteSubsetsOf(S))
    BY FS_StrictSubsetOrderingWellFounded
  <1>2. PICK U \in B : \A V \in B : ~(<<V, U>> \in StrictSubsetOrdering(S))
    BY <1>1, WFMin
  <1>3. ASSUME NEW V \in B, V \subseteq U, V # U PROVE FALSE
    <2>1. V \in SUBSET S /\ U \in SUBSET S
      BY DEF FiniteSubsetsOf
    <2> QED BY <1>2, <1>3, <2>1 DEF StrictSubsetOrdering
  <1> QED BY <1>3

\* The subsets of S with at most n elements.
Small(S, n) == {s \in SUBSET S : Cardinality(s) <= n}

\* Totals on the small sets extend to the sets with one more element.
LEMMA TotalsExtend ==
  ASSUME NEW v, NEW S, IsFiniteSet(S), NEW n \in Nat, NEW g, Totals(v, g, Small(S, n))
  PROVE  \E h : Totals(v, h, Small(S, n + 1))
  <1> DEFINE h == [s \in Small(S, n + 1) |-> Folded(v, g, s)]
  <1>1. ASSUME NEW s \in Small(S, n + 1), s # {}
        PROVE  s \ {PickOf(s)} \in Small(S, n)
    <2>1. s \in SUBSET S /\ IsFiniteSet(s) /\ Cardinality(s) \in Nat /\ Cardinality(s) <= n + 1
      BY FS_Subset, FS_CardinalityType DEF Small
    <2>2. Cardinality(s \ {PickOf(s)}) = Cardinality(s) - 1
      BY <1>1, <2>1, FS_RemoveElement, PickIn
    <2> QED BY <2>1, <2>2 DEF Small
  <1>2. Small(S, n) \subseteq Small(S, n + 1)
    <2>1. \A s \in SUBSET S : Cardinality(s) \in Nat
      BY FS_Subset, FS_CardinalityType
    <2> QED BY <2>1 DEF Small
  <1>3. ASSUME NEW s \in Small(S, n) PROVE h[s] = g[s]
    <2>1. h[s] = Folded(v, g, s)
      BY <1>2
    <2>2. g[s] = Folded(v, g, s)
      BY DEF Totals
    <2> QED BY <2>1, <2>2
  <1>4. ASSUME NEW s \in Small(S, n + 1) PROVE Folded(v, g, s) = Folded(v, h, s)
    <2> HIDE DEF h
    <2> QED BY <1>1, <1>3 DEF Folded
  <1>5. Totals(v, h, Small(S, n + 1))
    <2>1. h = [s \in Small(S, n + 1) |-> Folded(v, g, s)]
      OBVIOUS
    <2> HIDE DEF h
    <2> QED BY <1>4, <2>1 DEF Totals
  <1> QED BY <1>5

\* The fold is defined on every finite set.
LEMMA TotalsExist ==
  ASSUME NEW v, NEW S, IsFiniteSet(S)
  PROVE  \E g : Totals(v, g, SUBSET S)
  <1> DEFINE Bad == {U \in FiniteSubsetsOf(S) : ~ \E g : Totals(v, g, Small(S, Cardinality(U)))}
  <1>1. Bad = {}
    <2> SUFFICES ASSUME Bad # {} PROVE FALSE
      OBVIOUS
    <2>1. PICK U \in Bad : \A V \in Bad : ~(V \subseteq U /\ V # U)
      <3>1. Bad \subseteq FiniteSubsetsOf(S)
        OBVIOUS
      <3> HIDE DEF Bad
      <3> QED BY <3>1, MinimalSet
    <2>2. U \in SUBSET S /\ IsFiniteSet(U) /\ ~ \E g : Totals(v, g, Small(S, Cardinality(U)))
      BY DEF FiniteSubsetsOf
    <2>3. CASE U = {}
      <3>1. Small(S, Cardinality(U)) = {{}}
        <4>1. \A s \in SUBSET S : Cardinality(s) \in Nat /\ (Cardinality(s) = 0 <=> s = {})
          BY FS_Subset, FS_CardinalityType, FS_EmptySet
        <4>2. Cardinality(U) = 0 /\ {} \in SUBSET S
          BY <2>3, FS_EmptySet
        <4> QED BY <4>1, <4>2 DEF Small
      <3> DEFINE g == [s \in {{}} |-> 0]
      <3>2. Totals(v, g, {{}})
        BY DEF Totals, Folded
      <3> QED BY <2>2, <3>1, <3>2
    <2>4. CASE U # {}
      <3> DEFINE V == U \ {PickOf(U)}
      <3>1. IsFiniteSet(V) /\ Cardinality(V) = Cardinality(U) - 1 /\ Cardinality(U) \in Nat
            /\ Cardinality(V) \in Nat /\ PickOf(U) \in U
        BY <2>2, <2>4, PickIn, FS_RemoveElement, FS_CardinalityType
      <3>2. V \in FiniteSubsetsOf(S) /\ V \subseteq U /\ V # U
        BY <2>2, <3>1 DEF FiniteSubsetsOf
      <3> HIDE DEF V
      <3>3. V \notin Bad
        BY <2>1, <3>2
      <3>4. PICK g : Totals(v, g, Small(S, Cardinality(V)))
        BY <3>2, <3>3
      <3>5. \E h : Totals(v, h, Small(S, Cardinality(V) + 1))
        BY <3>1, <3>4, TotalsExtend
      <3>6. Cardinality(V) + 1 = Cardinality(U)
        BY <3>1
      <3> QED BY <2>2, <3>5, <3>6
    <2> QED BY <2>3, <2>4
  <1>2. S \in FiniteSubsetsOf(S)
    BY DEF FiniteSubsetsOf
  <1>3. \E g : Totals(v, g, Small(S, Cardinality(S)))
    BY <1>1, <1>2
  <1>4. Small(S, Cardinality(S)) = SUBSET S
    BY FS_Subset DEF Small
  <1> QED BY <1>3, <1>4

\* A sum of integers may be taken off in any order; one of naturals is a natural.
OrderFree(v, g, S) ==
  \A s \in SUBSET S :
    /\ g[s] \in Int
    /\ \A y \in s : g[s] = v[y] + g[s \ {y}]
    /\ (\A y \in s : v[y] >= 0) => g[s] >= 0

LEMMA AnyOrder ==
  ASSUME NEW v, NEW S, IsFiniteSet(S), \A x \in S : v[x] \in Int,
         NEW g, Totals(v, g, SUBSET S)
  PROVE  OrderFree(v, g, S)
  <1> DEFINE Whole(s) == g[s] \in Int
             Any(s) == \A y \in s : g[s] = v[y] + g[s \ {y}]
             Above(s) == (\A y \in s : v[y] >= 0) => g[s] >= 0
             Good(s) == Whole(s) /\ Any(s) /\ Above(s)
             Bad == {s \in FiniteSubsetsOf(S) : ~Good(s)}
  <1>0. \A s \in SUBSET S : s \in FiniteSubsetsOf(S)
    BY FS_Subset DEF FiniteSubsetsOf
  <1>1. \A s \in SUBSET S : g[s] = Folded(v, g, s)
    BY DEF Totals
  <1>2. ASSUME NEW s \in SUBSET S, \A t \in SUBSET S : t \subseteq s /\ t # s => Good(t)
        PROVE  Good(s)
    <2>1. CASE s = {}
      <3>1. g[s] = 0
        BY <1>1, <2>1 DEF Folded
      <3> QED BY <2>1, <3>1
    <2>2. CASE s # {}
      <3> DEFINE x == PickOf(s)
      <3>1. x \in s /\ g[s] = v[x] + g[s \ {x}]
        BY <1>1, <2>2, PickIn DEF Folded
      <3> HIDE DEF x
      <3>2. s \ {x} \in SUBSET S /\ Good(s \ {x})
        BY <1>2, <3>1
      <3>3. v[x] \in Int /\ g[s \ {x}] \in Int
        BY <3>1, <3>2
      <3>4. ASSUME NEW y \in s PROVE g[s] = v[y] + g[s \ {y}]
        <4>1. CASE y = x
          BY <3>1, <4>1
        <4>2. CASE y # x
          <5> DEFINE rest == g[(s \ {x}) \ {y}]
          <5>1. (s \ {y}) \ {x} = (s \ {x}) \ {y}
            OBVIOUS
          <5>2. g[s \ {x}] = v[y] + rest
            BY <3>2, <4>2
          <5>3. s \ {y} \in SUBSET S /\ Good(s \ {y}) /\ x \in s \ {y}
            BY <1>2, <3>1, <4>2
          <5>4. g[s \ {y}] = v[x] + rest
            BY <5>1, <5>3
          <5>5. (s \ {x}) \ {y} \in SUBSET S /\ Good((s \ {x}) \ {y})
            BY <1>2, <3>1
          <5>6. rest \in Int /\ v[y] \in Int
            BY <5>5
          <5> HIDE DEF rest, Good, Bad
          <5> QED BY <3>1, <3>3, <5>2, <5>4, <5>6
        <4> QED BY <4>1, <4>2
      <3>5. g[s] \in Int
        BY ONLY <3>1, <3>3
      <3>6. Above(s)
        BY <3>1, <3>2, <3>3
      <3> QED BY <3>4, <3>5, <3>6
    <2> QED BY <2>1, <2>2
  <1>3. Bad = {}
    <2> SUFFICES ASSUME Bad # {} PROVE FALSE
      OBVIOUS
    <2>1. PICK U \in Bad : \A V \in Bad : ~(V \subseteq U /\ V # U)
      <3>1. Bad \subseteq FiniteSubsetsOf(S)
        OBVIOUS
      <3> HIDE DEF Bad
      <3> QED BY <3>1, MinimalSet
    <2>2. U \in SUBSET S /\ ~Good(U)
      BY DEF FiniteSubsetsOf
    <2> HIDE DEF Good
    <2>3. \A t \in SUBSET S : t \subseteq U /\ t # U => Good(t)
      BY <1>0, <2>1
    <2> QED BY <1>2, <2>2, <2>3
  <1> QED BY <1>0, <1>3 DEF OrderFree

SameOn(v, w, T) == \A x \in T : v[x] = w[x]

\* The totals depend only on the values summed.
LEMMA TotalsAgree ==
  ASSUME NEW v, NEW w, NEW T, NEW g, NEW h, IsFiniteSet(T), SameOn(v, w, T),
         Totals(v, g, SUBSET T), Totals(w, h, SUBSET T)
  PROVE  g[T] = h[T]
  <1> DEFINE Bad == {s \in FiniteSubsetsOf(T) : g[s] # h[s]}
  <1>0. \A s \in SUBSET T : s \in FiniteSubsetsOf(T)
    BY FS_Subset DEF FiniteSubsetsOf
  <1>1. \A s \in SUBSET T : g[s] = Folded(v, g, s) /\ h[s] = Folded(w, h, s)
    BY <1>0 DEF Totals
  <1>2. Bad = {}
    <2> SUFFICES ASSUME Bad # {} PROVE FALSE
      OBVIOUS
    <2>1. PICK U \in Bad : \A V \in Bad : ~(V \subseteq U /\ V # U)
      <3>1. Bad \subseteq FiniteSubsetsOf(T)
        OBVIOUS
      <3> HIDE DEF Bad
      <3> QED BY <3>1, MinimalSet
    <2>2. U \in SUBSET T /\ g[U] # h[U]
      BY DEF FiniteSubsetsOf
    <2>3. CASE U = {}
      BY <1>1, <2>2, <2>3 DEF Folded
    <2>4. CASE U # {}
      <3> DEFINE V == U \ {PickOf(U)}
      <3>1. V \subseteq U /\ V # U /\ V \in FiniteSubsetsOf(T) /\ PickOf(U) \in T
        BY <1>0, <2>2, <2>4, PickIn
      <3>2. g[V] = h[V]
        BY <2>1, <3>1
      <3>3. g[U] = v[PickOf(U)] + g[V] /\ h[U] = w[PickOf(U)] + h[V]
        BY <1>1, <2>2, <2>4 DEF Folded
      <3> HIDE DEF V, Bad
      <3> QED BY <2>2, <3>1, <3>2, <3>3 DEF SameOn
    <2> QED BY <2>3, <2>4
  <1> QED BY <1>0, <1>2

\* Whatever totals are used, they give the sum.
LEMMA SumIsTotal ==
  ASSUME NEW v, Summable(v), NEW w, NEW g, Totals(w, g, SUBSET DOMAIN v),
         \A x \in DOMAIN v : w[x] = v[x]
  PROVE  g[DOMAIN v] = SumOver(v)
  <1> DEFINE h == CHOOSE h : Totals(v, h, SUBSET DOMAIN v)
  <1>1. IsFiniteSet(DOMAIN v)
    BY DEF Summable
  <1>2. Totals(v, h, SUBSET DOMAIN v)
    BY <1>1, TotalsExist
  <1>3. SumOver(v) = h[DOMAIN v]
    BY DEF SumOver
  <1> HIDE DEF h
  <1>4. SameOn(w, v, DOMAIN v)
    BY DEF SameOn
  <1> QED BY <1>1, <1>2, <1>3, <1>4, TotalsAgree

LEMMA SumIsInteger ==
  ASSUME NEW v, Summable(v)
  PROVE  /\ SumOver(v) \in Int
         /\ (\A x \in DOMAIN v : v[x] >= 0) => SumOver(v) >= 0
  <1> DEFINE h == CHOOSE h : Totals(v, h, SUBSET DOMAIN v)
  <1>1. IsFiniteSet(DOMAIN v)
    BY DEF Summable
  <1>2. Totals(v, h, SUBSET DOMAIN v)
    BY <1>1, TotalsExist
  <1>3. SumOver(v) = h[DOMAIN v]
    BY DEF SumOver
  <1> HIDE DEF h
  <1>4. OrderFree(v, h, DOMAIN v)
    BY <1>1, <1>2, AnyOrder DEF Summable
  <1> QED BY <1>3, <1>4 DEF OrderFree

Less(v, x) == [y \in DOMAIN v \ {x} |-> v[y]]

\* One value can be taken out of the sum.
LEMMA SumTakesOut ==
  ASSUME NEW v, Summable(v), NEW x \in DOMAIN v
  PROVE  /\ Summable(Less(v, x))
         /\ SumOver(v) = v[x] + SumOver(Less(v, x))
  <1> DEFINE h == CHOOSE h : Totals(v, h, SUBSET DOMAIN v)
             T == DOMAIN v \ {x}
             k == [s \in SUBSET T |-> h[s]]
  <1>1. IsFiniteSet(DOMAIN v)
    BY DEF Summable
  <1>2. Totals(v, h, SUBSET DOMAIN v)
    BY <1>1, TotalsExist
  <1>3. SumOver(v) = h[DOMAIN v]
    BY DEF SumOver
  <1> HIDE DEF h
  <1>4. OrderFree(v, h, DOMAIN v)
    BY <1>1, <1>2, AnyOrder DEF Summable
  <1>5. h[DOMAIN v] = v[x] + h[T]
    BY <1>4 DEF OrderFree
  <1>6. DOMAIN Less(v, x) = T /\ \A y \in T : v[y] = Less(v, x)[y]
    BY DEF Less
  <1>7. Summable(Less(v, x))
    BY <1>1, <1>6, FS_Subset DEF Summable
  <1>8. Totals(v, k, SUBSET T)
    <2>1. ASSUME NEW s \in SUBSET T PROVE h[s] = Folded(v, k, s)
      <3>1. h[s] = Folded(v, h, s)
        BY <1>2 DEF Totals
      <3>2. s # {} => s \ {PickOf(s)} \in SUBSET T
        OBVIOUS
      <3> QED BY <3>1, <3>2 DEF Folded
    <2>2. k = [s \in SUBSET T |-> h[s]]
      OBVIOUS
    <2> HIDE DEF k, T
    <2> QED BY <2>1, <2>2 DEF Totals
  <1>9. k[T] = h[T]
    OBVIOUS
  <1> HIDE DEF k, T
  <1>10. k[T] = SumOver(Less(v, x))
    BY <1>6, <1>7, <1>8, SumIsTotal
  <1> QED BY <1>3, <1>5, <1>7, <1>9, <1>10

LEMMA SumOfNothing == ASSUME NEW v, DOMAIN v = {} PROVE SumOver(v) = 0
  <1> DEFINE h == CHOOSE h : Totals(v, h, SUBSET DOMAIN v)
  <1>1. Totals(v, h, SUBSET DOMAIN v)
    BY TotalsExist, FS_EmptySet
  <1>2. SumOver(v) = h[DOMAIN v]
    BY DEF SumOver
  <1> HIDE DEF h
  <1>3. h[{}] = Folded(v, h, {})
    BY <1>1 DEF Totals
  <1> QED BY <1>2, <1>3 DEF Folded

\* Replacing one value moves the sum by the difference.
LEMMA SumMoves ==
  ASSUME NEW v, Summable(v), NEW x \in DOMAIN v, NEW w, DOMAIN w = DOMAIN v, w[x] \in Int,
         \A y \in DOMAIN v \ {x} : w[y] = v[y]
  PROVE  Summable(w) /\ SumOver(w) = SumOver(v) - v[x] + w[x]
  <1>1. Summable(w)
    BY DEF Summable
  <1>2. Less(w, x) = Less(v, x)
    BY DEF Less
  <1>3. /\ SumOver(w) = w[x] + SumOver(Less(v, x))
        /\ SumOver(v) = v[x] + SumOver(Less(v, x))
        /\ SumOver(Less(v, x)) \in Int
    BY <1>1, <1>2, SumTakesOut, SumIsInteger
  <1>4. v[x] \in Int
    BY DEF Summable
  <1> QED BY <1>1, <1>3, <1>4

-----------------------------------------------------------------------------
(* The sums of the account *)

RemainingOf(a) == [i \in DOMAIN a.reservations |-> a.reservations[i].remaining]

EffectsOf(S) == [c \in S |-> Effect(c)]

TotalEffect(S) == MapThenSumSet(Effect, S)

\* The folds of Reserved, Unsettled and BookedOnce, spelt out.
ReservedTotals(a, g, D) ==
  g = [s \in D |-> IF s = {} THEN 0 ELSE a.reservations[PickOf(s)].remaining + g[s \ {PickOf(s)}]]

EffectTotals(g, D) ==
  g = [s \in D |-> IF s = {} THEN 0 ELSE Effect(PickOf(s)) + g[s \ {PickOf(s)}]]

LEMMA ReservedIsSum ==
  ASSUME NEW a, Summable(RemainingOf(a))
  PROVE  Reserved(a) = SumOver(RemainingOf(a))
  <1> DEFINE D == DOMAIN a.reservations
             v == RemainingOf(a)
             h == CHOOSE g : ReservedTotals(a, g, SUBSET D)
  <1>1. Reserved(a) = h[D]
    BY DEF Reserved, MapThenSumSet, MapThenFoldSet, ReservedTotals, PickOf
  <1>2. DOMAIN v = D /\ IsFiniteSet(D)
    BY DEF RemainingOf, Summable
  <1>3. ASSUME NEW g PROVE ReservedTotals(a, g, SUBSET D) <=> Totals(v, g, SUBSET D)
    <2>1. ASSUME NEW s \in SUBSET D
          PROVE  Folded(v, g, s) = IF s = {} THEN 0
                   ELSE a.reservations[PickOf(s)].remaining + g[s \ {PickOf(s)}]
      <3>1. s # {} => PickOf(s) \in D
        BY PickIn
      <3> QED BY <3>1 DEF Folded, RemainingOf
    <2> HIDE DEF v, D
    <2> QED BY <2>1 DEF ReservedTotals, Totals
  <1>4. \E g : ReservedTotals(a, g, SUBSET D)
    BY <1>2, <1>3, TotalsExist
  <1>5. Totals(v, h, SUBSET D)
    BY <1>3, <1>4
  <1> HIDE DEF h, D
  <1> QED BY <1>1, <1>2, <1>5, SumIsTotal

LEMMA UnsettledIsSum ==
  ASSUME NEW a, Summable(a.receivables)
  PROVE  Unsettled(a) = SumOver(a.receivables)
  BY DEF Unsettled, MapThenSumSet, MapThenFoldSet, SumOver, Totals, Folded, PickOf

LEMMA BookedIsSum ==
  ASSUME NEW S, Summable(EffectsOf(S))
  PROVE  TotalEffect(S) = SumOver(EffectsOf(S))
  <1> DEFINE v == EffectsOf(S)
             h == CHOOSE g : EffectTotals(g, SUBSET S)
  <1>1. TotalEffect(S) = h[S]
    BY DEF TotalEffect, MapThenSumSet, MapThenFoldSet, EffectTotals, PickOf
  <1>2. DOMAIN v = S /\ IsFiniteSet(S)
    BY DEF EffectsOf, Summable
  <1>3. ASSUME NEW g PROVE EffectTotals(g, SUBSET S) <=> Totals(v, g, SUBSET S)
    <2>1. ASSUME NEW s \in SUBSET S
          PROVE  Folded(v, g, s) = IF s = {} THEN 0 ELSE Effect(PickOf(s)) + g[s \ {PickOf(s)}]
      <3>1. s # {} => PickOf(s) \in S
        BY PickIn
      <3> QED BY <3>1 DEF Folded, EffectsOf
    <2> HIDE DEF v
    <2> QED BY <2>1 DEF EffectTotals, Totals
  <1>4. \E g : EffectTotals(g, SUBSET S)
    BY <1>2, <1>3, TotalsExist
  <1>5. Totals(v, h, SUBSET S)
    BY <1>3, <1>4
  <1> HIDE DEF h
  <1> QED BY <1>1, <1>2, <1>5, SumIsTotal

-----------------------------------------------------------------------------
(* The inductive invariant *)

Ordered == {c.order : c \in {d \in Command : d.op = "RESERVE"}}

Outcomes == {c.outcome : c \in {d \in Command : d.op = "RELEASE"}} \cup {"FILLED", None}

Reservation ==
  [order : Ordered, original : Int, consumed : Int, remaining : Int, released : Int,
   sent : BOOLEAN, acknowledged : BOOLEAN, unknown : BOOLEAN, cancelPending : BOOLEAN,
   terminal : Outcomes]

Booking == {"TRADE", "CASH_CHANGE", "ECONOMIC"}

\* A state of the account; what is not settled yet is never negative.
IsState(a) ==
  /\ a = [cash |-> a.cash, reservations |-> a.reservations, receivables |-> a.receivables,
          flags |-> a.flags, sequence |-> a.sequence, now |-> a.now,
          tradeSeq |-> a.tradeSeq, brokerSeq |-> a.brokerSeq]
  /\ a.cash \in Int /\ a.sequence \in Nat /\ a.now \in Nat
  /\ a.tradeSeq \in Nat /\ a.brokerSeq \in Nat
  /\ IsFiniteSet(DOMAIN a.reservations)
  /\ a.reservations \in [DOMAIN a.reservations -> Reservation]
  /\ IsFiniteSet(DOMAIN a.receivables)
  /\ a.receivables \in [DOMAIN a.receivables -> Nat]

\* A booked fact is bound to its identities, for good.
Bound ==
  \A c \in booked : /\ c \in Command /\ c.op \in Booking
                    /\ \A i \in Identities(c) : i \in DOMAIN semantic /\ semantic[i] = c

AccountInvariant ==
  /\ IsState(state)
  /\ Valid(state)
  /\ IsFiniteSet(booked)
  /\ Bound
  /\ BookedOnce

-----------------------------------------------------------------------------
(* What each operation does to a state *)

LEMMA CommandTyped ==
  ASSUME NEW c \in Command
  PROVE  /\ c.time \in Nat
         /\ c.op \in {"RESERVE", "CASH_CHANGE", "SETTLE"} => c.amount \in Nat
         /\ c.op = "ECONOMIC" => c.amount \in Int
         /\ c.op \in {"TRADE", "BROKER"} => c.sequence \in Nat
         /\ c.op = "TRADE" =>
              /\ c.notional \in Nat /\ c.charges \in Nat /\ c.rebates \in Nat
              /\ c.side \in {"BUY", "SELL"} /\ c.terminal \in BOOLEAN
              /\ CashEffect(c) \in Int
  BY CommandAssumption DEF CashEffect

LEMMA FunctionWith ==
  ASSUME NEW R, NEW f, f \in [DOMAIN f -> R], IsFiniteSet(DOMAIN f), NEW x, NEW y \in R
  PROVE  /\ With(f, x, y) \in [DOMAIN With(f, x, y) -> R]
         /\ IsFiniteSet(DOMAIN With(f, x, y))
  <1>1. DOMAIN With(f, x, y) = DOMAIN f \cup {x}
    BY DEF With
  <1>2. IsFiniteSet(DOMAIN f \cup {x})
    BY FS_AddElement
  <1> QED BY <1>1, <1>2 DEF With

LEMMA StateWithReservations ==
  ASSUME NEW a, IsState(a), NEW f, f \in [DOMAIN f -> Reservation], IsFiniteSet(DOMAIN f),
         NEW b, b = [a EXCEPT !.reservations = f]
  PROVE  IsState(b) /\ b.cash = a.cash
  BY DEF IsState

LEMMA ReserveStep ==
  ASSUME NEW a, IsState(a), NEW c \in Command, c.op = "RESERVE"
  PROVE  IsState(AfterReserve(a, c)) /\ AfterReserve(a, c).cash = a.cash
  <1> DEFINE r == [order |-> c.order, original |-> c.amount, consumed |-> 0,
                   remaining |-> c.amount, released |-> 0, sent |-> FALSE,
                   acknowledged |-> FALSE, unknown |-> FALSE, cancelPending |-> FALSE,
                   terminal |-> None]
             f == With(a.reservations, c.reservation, r)
  <1>1. r \in Reservation
    <2>1. c.order \in Ordered /\ c.amount \in Int /\ None \in Outcomes
      BY CommandTyped DEF Ordered, Outcomes
    <2> QED BY <2>1 DEF Reservation
  <1>2. AfterReserve(a, c) = [a EXCEPT !.reservations = f]
    BY DEF AfterReserve, IsState
  <1> HIDE DEF r
  <1>3. f \in [DOMAIN f -> Reservation] /\ IsFiniteSet(DOMAIN f)
    BY <1>1, FunctionWith DEF IsState
  <1> HIDE DEF f
  <1> QED BY <1>2, <1>3, StateWithReservations

\* An operation that replaces one reservation.
LEMMA ReplaceStep ==
  ASSUME NEW a, IsState(a), NEW i, NEW r \in Reservation,
         NEW b, b = [a EXCEPT !.reservations = [@ EXCEPT ![i] = r]]
  PROVE  IsState(b) /\ b.cash = a.cash
  <1> DEFINE f == [a.reservations EXCEPT ![i] = r]
  <1>1. f \in [DOMAIN f -> Reservation] /\ IsFiniteSet(DOMAIN f)
    BY DEF IsState
  <1>2. b = [a EXCEPT !.reservations = f]
    BY DEF IsState
  <1> HIDE DEF f
  <1> QED BY <1>1, <1>2, StateWithReservations

LEMMA StageStep ==
  ASSUME NEW a, IsState(a), NEW c \in Command, c.op = "STAGE", MayStage(a, c)
  PROVE  IsState(AfterStage(a, c)) /\ AfterStage(a, c).cash = a.cash
  <1> DEFINE r == a.reservations[c.reservation]
             n == CASE c.stage = "SENT_TO_BROKER" -> [r EXCEPT !.sent = TRUE]
                    [] c.stage = "SUBMIT_UNKNOWN" -> [r EXCEPT !.sent = TRUE, !.unknown = TRUE]
                    [] c.stage = "BROKER_ACKNOWLEDGED" ->
                         [r EXCEPT !.sent = TRUE, !.acknowledged = TRUE, !.unknown = FALSE]
                    [] c.stage = "CANCEL_REQUESTED" -> [r EXCEPT !.cancelPending = TRUE]
  <1>1. r \in Reservation
    BY DEF MayStage, Has, IsState
  <1>2. AfterStage(a, c) = [a EXCEPT !.reservations = [@ EXCEPT ![c.reservation] = n]]
    BY DEF AfterStage
  <1>3. n \in Reservation
    <2> HIDE DEF r
    <2>1. c.stage \in {"SENT_TO_BROKER", "SUBMIT_UNKNOWN", "BROKER_ACKNOWLEDGED",
                       "CANCEL_REQUESTED"}
      BY CommandAssumption
    <2> QED BY <1>1, <2>1 DEF Reservation
  <1> HIDE DEF n
  <1> QED BY <1>2, <1>3, ReplaceStep

LEMMA FreedTyped ==
  ASSUME NEW r \in Reservation, NEW o \in Outcomes
  PROVE  /\ Freed(r, o) \in Reservation
         /\ [Freed(r, o) EXCEPT !.unknown = FALSE, !.cancelPending = FALSE] \in Reservation
  <1>1. r.released + r.remaining \in Int /\ 0 \in Int
    BY DEF Reservation
  <1>2. Freed(r, o) \in Reservation
    BY <1>1 DEF Freed, Reservation
  <1>3. \A s \in Reservation :
          [s EXCEPT !.unknown = FALSE, !.cancelPending = FALSE] \in Reservation
    BY DEF Reservation
  <1> QED BY <1>2, <1>3

LEMMA ReleaseStep ==
  ASSUME NEW a, IsState(a), NEW c \in Command, c.op = "RELEASE", MayRelease(a, c)
  PROVE  IsState(AfterRelease(a, c)) /\ AfterRelease(a, c).cash = a.cash
  <1> DEFINE r == a.reservations[c.reservation]
             n == CASE c.outcome = "UNKNOWN" ->
                         [r EXCEPT !.sent = TRUE, !.unknown = TRUE, !.cancelPending = TRUE]
                    [] c.outcome = "NOT_SENT" -> Freed(r, c.outcome)
                    [] OTHER -> [Freed(r, c.outcome) EXCEPT !.unknown = FALSE,
                                                            !.cancelPending = FALSE]
  <1>1. CASE Again(a, c)
    BY <1>1 DEF AfterRelease
  <1>2. CASE ~Again(a, c)
    <2>1. r \in Reservation /\ c.outcome \in Outcomes
      BY DEF MayRelease, Has, IsState, Outcomes
    <2>2. AfterRelease(a, c) = [a EXCEPT !.reservations = [@ EXCEPT ![c.reservation] = n]]
      BY <1>2 DEF AfterRelease
    <2>3. n \in Reservation
      <3> HIDE DEF r
      <3>1. [r EXCEPT !.sent = TRUE, !.unknown = TRUE, !.cancelPending = TRUE] \in Reservation
        BY <2>1 DEF Reservation
      <3> QED BY <2>1, <3>1, FreedTyped
    <2> HIDE DEF n
    <2> QED BY <2>2, <2>3, ReplaceStep
  <1> QED BY <1>1, <1>2

\* What a fill makes of its reservation.
LEMMA ConsumedTyped ==
  ASSUME NEW r \in Reservation, NEW c, Gross(c) \in Int, c.terminal \in BOOLEAN
  PROVE  LET n == Consumed(r, c) IN
         /\ n \in Reservation
         /\ n.original = r.original /\ n.consumed = r.consumed + Gross(c)
         /\ n.remaining = IF c.terminal THEN 0 ELSE r.remaining - Gross(c)
         /\ n.released = IF c.terminal THEN r.released + (r.remaining - Gross(c)) ELSE r.released
  <1> DEFINE s == [r EXCEPT !.sent = TRUE, !.remaining = @ - Gross(c), !.consumed = @ + Gross(c)]
             t == Freed(s, "FILLED")
             u == [t EXCEPT !.unknown = FALSE, !.cancelPending = FALSE]
  <1>1. /\ s \in Reservation /\ s.original = r.original /\ s.consumed = r.consumed + Gross(c)
        /\ s.remaining = r.remaining - Gross(c) /\ s.released = r.released
    <2>1. r.remaining - Gross(c) \in Int /\ r.consumed + Gross(c) \in Int
      BY DEF Reservation
    <2> QED BY <2>1 DEF Reservation
  <1>2. "FILLED" \in Outcomes
    BY DEF Outcomes
  <1>3. Consumed(r, c) = IF c.terminal THEN u ELSE s
    BY DEF Consumed
  <1> HIDE DEF s
  <1>4. /\ t \in Reservation /\ t.original = s.original /\ t.consumed = s.consumed
        /\ t.remaining = 0 /\ t.released = s.released + s.remaining
    <2>1. t \in Reservation
      BY <1>1, <1>2, FreedTyped
    <2> QED BY <1>1, <2>1 DEF Freed, Reservation
  <1> HIDE DEF t
  <1>5. /\ u \in Reservation /\ u.original = t.original /\ u.consumed = t.consumed
        /\ u.remaining = t.remaining /\ u.released = t.released
    BY <1>4 DEF Reservation
  <1> HIDE DEF u
  <1> QED BY <1>1, <1>3, <1>4, <1>5

\* The fields a trade moves, one at a time.
LEMMA TradeFields ==
  ASSUME NEW a, IsState(a), NEW c, ~StaleTrade(a, c), NEW b, b = AfterTrade(a, c)
  PROVE  /\ b = [cash |-> a.cash + CashEffect(c),
                 reservations |-> IF c.side = "BUY"
                   THEN [a.reservations EXCEPT
                           ![c.reservation] = Consumed(a.reservations[c.reservation], c)]
                   ELSE a.reservations,
                 receivables |-> IF ~c.withdrawable /\ CashEffect(c) > 0
                   THEN With(a.receivables, c.trade, CashEffect(c)) ELSE a.receivables,
                 flags |-> a.flags, sequence |-> a.sequence, now |-> a.now,
                 tradeSeq |-> c.sequence, brokerSeq |-> a.brokerSeq]
  <1> DEFINE n == a.cash + CashEffect(c)
             R == IF c.side = "BUY"
                  THEN [a.reservations EXCEPT
                          ![c.reservation] = Consumed(a.reservations[c.reservation], c)]
                  ELSE a.reservations
             Q == IF ~c.withdrawable /\ CashEffect(c) > 0
                  THEN With(a.receivables, c.trade, CashEffect(c)) ELSE a.receivables
  <1>1. a = [cash |-> a.cash, reservations |-> a.reservations, receivables |-> a.receivables,
             flags |-> a.flags, sequence |-> a.sequence, now |-> a.now,
             tradeSeq |-> a.tradeSeq, brokerSeq |-> a.brokerSeq]
    BY DEF IsState
  <1>2. b = [a EXCEPT !.cash = n, !.reservations = R, !.receivables = Q, !.tradeSeq = c.sequence]
    BY DEF AfterTrade
  <1> HIDE DEF n, R, Q
  <1>3. b = [cash |-> n, reservations |-> R, receivables |-> Q, flags |-> a.flags,
             sequence |-> a.sequence, now |-> a.now, tradeSeq |-> c.sequence,
             brokerSeq |-> a.brokerSeq]
    BY <1>1, <1>2
  <1> QED BY <1>3 DEF n, R, Q

LEMMA TradeStep ==
  ASSUME NEW a, IsState(a), NEW c \in Command, c.op = "TRADE", MayTrade(a, c)
  PROVE  /\ IsState(AfterTrade(a, c))
         /\ AfterTrade(a, c).cash = a.cash + (IF StaleTrade(a, c) THEN 0 ELSE CashEffect(c))
  <1>0. /\ c.notional \in Nat /\ c.charges \in Nat /\ c.terminal \in BOOLEAN
        /\ CashEffect(c) \in Int /\ c.sequence \in Nat
    BY CommandTyped
  <1>1. CASE StaleTrade(a, c)
    BY <1>1 DEF AfterTrade, IsState
  <1>2. CASE ~StaleTrade(a, c)
    <2> DEFINE R == IF c.side = "BUY"
                    THEN [a.reservations EXCEPT
                            ![c.reservation] = Consumed(a.reservations[c.reservation], c)]
                    ELSE a.reservations
               Q == IF ~c.withdrawable /\ CashEffect(c) > 0
                    THEN With(a.receivables, c.trade, CashEffect(c)) ELSE a.receivables
               b == AfterTrade(a, c)
    <2>1. b = [cash |-> a.cash + CashEffect(c), reservations |-> R, receivables |-> Q,
               flags |-> a.flags, sequence |-> a.sequence, now |-> a.now,
               tradeSeq |-> c.sequence, brokerSeq |-> a.brokerSeq]
      BY <1>2, TradeFields
    <2>2. R \in [DOMAIN R -> Reservation] /\ IsFiniteSet(DOMAIN R)
      <3>1. CASE c.side = "BUY"
        <4>1. MayConsume(a, c)
          BY <1>2, <3>1 DEF MayTrade
        <4>2. a.reservations[c.reservation] \in Reservation
          BY <4>1 DEF MayConsume, Has, IsState
        <4>3. Consumed(a.reservations[c.reservation], c) \in Reservation
          <5>1. Gross(c) \in Int
            BY <1>0 DEF Gross
          <5> QED BY <1>0, <4>2, <5>1, ConsumedTyped
        <4> QED BY <3>1, <4>3 DEF IsState
      <3>2. CASE c.side # "BUY"
        BY <3>2 DEF IsState
      <3> QED BY <3>1, <3>2
    <2>3. Q \in [DOMAIN Q -> Nat] /\ IsFiniteSet(DOMAIN Q)
      <3>1. a.receivables \in [DOMAIN a.receivables -> Nat] /\ IsFiniteSet(DOMAIN a.receivables)
        BY DEF IsState
      <3>2. CASE ~c.withdrawable /\ CashEffect(c) > 0
        <4>1. CashEffect(c) \in Nat
          BY <1>0, <3>2
        <4> QED BY <3>1, <3>2, <4>1, FunctionWith
      <3> QED BY <3>1, <3>2
    <2> HIDE DEF R, Q, b
    <2>4. a.cash + CashEffect(c) \in Int
      BY <1>0 DEF IsState
    <2>5. IsState(b) /\ b.cash = a.cash + CashEffect(c)
      BY <1>0, <2>1, <2>2, <2>3, <2>4 DEF IsState
    <2> QED BY <1>2, <2>5 DEF b
  <1> QED BY <1>1, <1>2

LEMMA ChangeStep ==
  ASSUME NEW a, IsState(a), NEW c \in Command, c.op = "CASH_CHANGE"
  PROVE  IsState(AfterChange(a, c)) /\ AfterChange(a, c).cash = a.cash + Effect(c)
  <1>1. c.amount \in Nat /\ c.kind \in {"DEPOSIT", "WITHDRAWAL"} /\ a.cash \in Int
    BY CommandAssumption DEF IsState
  <1>2. Effect(c) = IF c.kind = "WITHDRAWAL" THEN -c.amount ELSE c.amount
    BY DEF Effect
  <1> DEFINE n == IF c.kind = "DEPOSIT" THEN a.cash + c.amount ELSE a.cash - c.amount
  <1>3. n \in Int /\ n = a.cash + Effect(c)
    BY <1>1, <1>2
  <1>4. AfterChange(a, c) = [a EXCEPT !.cash = n]
    BY DEF AfterChange
  <1> HIDE DEF n
  <1> QED BY <1>3, <1>4 DEF IsState

LEMMA EconomicStep ==
  ASSUME NEW a, IsState(a), NEW c \in Command, c.op = "ECONOMIC"
  PROVE  IsState(AfterEconomic(a, c)) /\ AfterEconomic(a, c).cash = a.cash + Effect(c)
  <1>1. c.amount \in Int /\ a.cash \in Int /\ a.cash + c.amount \in Int
    BY CommandTyped DEF IsState
  <1>2. Effect(c) = c.amount
    BY DEF Effect
  <1> QED BY <1>1, <1>2 DEF IsState, AfterEconomic

LEMMA SettleStep ==
  ASSUME NEW a, IsState(a), NEW c \in Command, c.op = "SETTLE", MaySettle(a, c)
  PROVE  IsState(AfterSettle(a, c)) /\ AfterSettle(a, c).cash = a.cash
  <1> DEFINE n == a.receivables[c.source] - c.amount
             f == [a.receivables EXCEPT ![c.source] = n]
  <1>1. n \in Nat
    BY CommandTyped DEF MaySettle, IsState
  <1>2. AfterSettle(a, c) = [a EXCEPT !.receivables = f]
    BY DEF AfterSettle
  <1> HIDE DEF n
  <1>3. f \in [DOMAIN f -> Nat] /\ IsFiniteSet(DOMAIN f)
    BY <1>1 DEF IsState
  <1> HIDE DEF f
  <1> QED BY <1>2, <1>3 DEF IsState

LEMMA BrokerStep ==
  ASSUME NEW a, IsState(a), NEW c \in Command, c.op = "BROKER"
  PROVE  IsState(AfterBroker(a, c)) /\ AfterBroker(a, c).cash = a.cash
  <1>1. c.sequence \in Nat
    BY CommandTyped
  <1> QED BY <1>1 DEF IsState, AfterBroker

-----------------------------------------------------------------------------
(* A command and the invariant *)

LEMMA StampedState ==
  ASSUME NEW a, IsState(a), NEW q, NEW n, q \in Nat, n \in Nat
  PROVE  LET b == [a EXCEPT !.sequence = q, !.now = n] IN IsState(b) /\ b.cash = a.cash
  <1>1. ASSUME NEW b, b = [a EXCEPT !.sequence = q, !.now = n]
        PROVE  IsState(b) /\ b.cash = a.cash
    BY <1>1 DEF IsState
  <1> QED BY <1>1

\* The candidate is a state, and its cash has moved by what the command books.
LEMMA CandidateStep ==
  ASSUME NEW a, IsState(a), NEW c \in Command, Known(c) # {} \/ Allowed(a, c)
  PROVE  /\ IsState(Candidate(a, c))
         /\ Candidate(a, c).cash = a.cash + (IF Books(a, c) THEN Effect(c) ELSE 0)
  <1> DEFINE t == Transition(a, c)
             e == IF c.op \in Booking /\ (c.op = "TRADE" => ~StaleTrade(a, c))
                  THEN Effect(c) ELSE 0
  <1>0. a.cash \in Int /\ a.cash + 0 = a.cash
    BY DEF IsState
  <1>1. CASE Duplicate(a, c)
    BY <1>0, <1>1 DEF Candidate, Books
  <1>2. CASE ~Duplicate(a, c)
    <2>1. Allowed(a, c)
      BY <1>2 DEF Duplicate
    <2>2. IsState(t) /\ t.cash = a.cash + e
      <3>1. CASE c.op = "RESERVE"
        BY <1>0, <3>1, ReserveStep DEF Transition, Booking
      <3>2. CASE c.op = "STAGE"
        BY <1>0, <2>1, <3>2, StageStep DEF Transition, Booking, Allowed
      <3>3. CASE c.op = "RELEASE"
        BY <1>0, <2>1, <3>3, ReleaseStep DEF Transition, Booking, Allowed
      <3>4. CASE c.op = "TRADE"
        <4>1. MayTrade(a, c)
          BY <2>1, <3>4 DEF Allowed
        <4>2. t = AfterTrade(a, c) /\ Effect(c) = CashEffect(c)
          BY <3>4 DEF Transition, Effect
        <4>3. e = IF StaleTrade(a, c) THEN 0 ELSE CashEffect(c)
          BY <3>4, <4>2 DEF Booking
        <4> HIDE DEF e, t
        <4> QED BY <3>4, <4>1, <4>2, <4>3, TradeStep
      <3>5. CASE c.op = "CASH_CHANGE"
        BY <3>5, ChangeStep DEF Transition, Booking
      <3>6. CASE c.op = "ECONOMIC"
        BY <3>6, EconomicStep DEF Transition, Booking
      <3>7. CASE c.op = "SETTLE"
        BY <1>0, <2>1, <3>7, SettleStep DEF Transition, Booking, Allowed
      <3>8. CASE c.op = "BROKER"
        BY <1>0, <3>8, BrokerStep DEF Transition, Booking
      <3>9. c.op \in {"RESERVE", "STAGE", "RELEASE", "TRADE", "CASH_CHANGE", "ECONOMIC", "SETTLE",
                      "BROKER"}
        BY CommandAssumption
      <3> QED BY <3>1, <3>2, <3>3, <3>4, <3>5, <3>6, <3>7, <3>8, <3>9
    <2>3. e = IF Books(a, c) THEN Effect(c) ELSE 0
      BY <1>2 DEF Books, Booking
    <2>4. Candidate(a, c) = [t EXCEPT !.sequence = t.sequence + 1,
                                      !.now = IF c.time > t.now THEN c.time ELSE t.now]
      BY <1>2 DEF Candidate
    <2>5. c.time \in Nat
      BY CommandTyped
    <2> HIDE DEF t, e
    <2>6. IsState(Candidate(a, c)) /\ Candidate(a, c).cash = t.cash
      <3>1. /\ t.sequence + 1 \in Nat
            /\ (IF c.time > t.now THEN c.time ELSE t.now) \in Nat
        BY <2>2, <2>5 DEF IsState
      <3> DEFINE n == IF c.time > t.now THEN c.time ELSE t.now
                 q == t.sequence + 1
      <3> HIDE DEF n, q
      <3>2. Candidate(a, c) = [t EXCEPT !.sequence = q, !.now = n] /\ q \in Nat /\ n \in Nat
        BY <2>4, <3>1 DEF n, q
      <3>3. IsState(t)
        BY <2>2
      <3>4. LET b == [t EXCEPT !.sequence = q, !.now = n] IN IsState(b) /\ b.cash = t.cash
        BY ONLY <3>2, <3>3, StampedState
      <3> QED BY <3>2, <3>4
    <2> QED BY <2>2, <2>3, <2>6
  <1> QED BY <1>1, <1>2

LEMMA EffectTyped == ASSUME NEW c \in Command, c.op \in Booking PROVE Effect(c) \in Int
  <1>1. CASE c.op = "TRADE"
    BY <1>1, CommandTyped DEF Effect
  <1>2. CASE c.op = "CASH_CHANGE"
    <2>1. c.amount \in Nat /\ -c.amount \in Int
      BY <1>2, CommandTyped
    <2> QED BY <1>2, <2>1 DEF Effect
  <1>3. CASE c.op = "ECONOMIC"
    BY <1>3, CommandTyped DEF Effect
  <1> QED BY <1>1, <1>2, <1>3 DEF Booking

\* A fact that can be booked has an identity.
LEMMA HasIdentity == ASSUME NEW c \in Command, c.op \in Booking PROVE Identities(c) # {}
  BY DEF Identities, Booking

\* A fact that is booked was not booked before.
LEMMA BooksNew ==
  ASSUME Bound, NEW c \in Command, Books(state, c)
  PROVE  c \notin booked
  <1> SUFFICES ASSUME c \in booked PROVE FALSE
    OBVIOUS
  <1>1. c.op \in Booking /\ Known(c) = {}
    BY DEF Books, Duplicate, Booking
  <1>2. PICK i : i \in Identities(c)
    BY <1>1, HasIdentity
  <1>3. i \in DOMAIN semantic
    BY <1>2 DEF Bound
  <1> QED BY <1>1, <1>2, <1>3 DEF Known

LEMMA BoundStep ==
  ASSUME Bound, NEW c \in Command, Apply(c)
  PROVE  Bound'
  <1> DEFINE I == Identities(c)
  <1>1. semantic' = [i \in DOMAIN semantic \cup I |-> IF i \in I THEN c ELSE semantic[i]]
    BY DEF Apply
  <1>2. \A i \in I \cap DOMAIN semantic : semantic[i] = c
    BY DEF Apply, Known
  <1>3. booked' \subseteq booked \cup {c} /\ (c \in booked' => c \in booked \/ c.op \in Booking)
    BY DEF Apply, Books, Booking
  <1>4. ASSUME NEW d \in booked'
        PROVE  /\ d \in Command /\ d.op \in Booking
               /\ \A i \in Identities(d) : i \in DOMAIN semantic' /\ semantic'[i] = d
    <2>1. d \in Command /\ d.op \in Booking
      BY <1>3 DEF Bound
    <2>2. CASE d = c
      <3> HIDE DEF I
      <3>1. Identities(d) = I
        BY <2>2 DEF I
      <3> QED BY <1>1, <2>1, <2>2, <3>1
    <2>3. CASE d # c
      <3>1. d \in booked
        BY <1>3, <2>3
      <3>2. \A i \in Identities(d) : i \in DOMAIN semantic /\ semantic[i] = d
        BY <3>1 DEF Bound
      <3> HIDE DEF I
      <3>3. \A i \in Identities(d) : i \notin I
        BY <1>2, <2>3, <3>2
      <3> QED BY <1>1, <2>1, <3>2, <3>3
    <2> QED BY <2>2, <2>3
  <1>5. \A d : Identities(d)' = Identities(d)
    BY DEF Identities
  <1> QED BY <1>4, <1>5 DEF Bound

LEMMA EffectsSummable ==
  ASSUME NEW S, IsFiniteSet(S), \A c \in S : c \in Command /\ c.op \in Booking
  PROVE  Summable(EffectsOf(S)) /\ DOMAIN EffectsOf(S) = S
  BY EffectTyped DEF Summable, EffectsOf

\* Booking one more fact adds its effect.
LEMMA BookingAdds ==
  ASSUME NEW S, IsFiniteSet(S), \A c \in S : c \in Command /\ c.op \in Booking,
         NEW d \in Command, d.op \in Booking, d \notin S
  PROVE  /\ TotalEffect(S \cup {d}) = TotalEffect(S) + Effect(d)
         /\ TotalEffect(S) \in Int
  <1> DEFINE T == S \cup {d}
             v == EffectsOf(S)
             w == EffectsOf(T)
  <1>1. IsFiniteSet(T) /\ \A c \in T : c \in Command /\ c.op \in Booking
    BY FS_AddElement
  <1>2. Summable(v) /\ DOMAIN v = S
    BY EffectsSummable
  <1>3. Summable(w) /\ DOMAIN w = T
    BY <1>1, EffectsSummable
  <1>4. v = [c \in S |-> Effect(c)] /\ w = [c \in T |-> Effect(c)]
    BY DEF EffectsOf
  <1>5. SumOver(w) = SumOver(v) + w[d] /\ w[d] = Effect(d)
    <2>1. w[d] = Effect(d) /\ w[d] \in Int
      BY <1>4, EffectTyped
    <2>2. Less(w, d) = v
      BY <1>3, <1>4 DEF Less
    <2> HIDE DEF v, w
    <2>3. SumOver(w) = w[d] + SumOver(v)
      BY <1>3, <2>2, SumTakesOut
    <2> QED BY <1>2, <2>1, <2>3, SumIsInteger
  <1>6. TotalEffect(S) = SumOver(v) /\ TotalEffect(T) = SumOver(w)
    BY <1>2, <1>3, BookedIsSum
  <1>7. SumOver(v) \in Int
    BY <1>2, SumIsInteger
  <1> QED BY <1>5, <1>6, <1>7

LEMMA InvariantInit == Init => AccountInvariant
  <1> SUFFICES ASSUME Init PROVE AccountInvariant
    OBVIOUS
  <1>0. IsFiniteSet({})
    BY FS_EmptySet
  <1>1. /\ state.cash = InitialCash /\ state.reservations = <<>> /\ state.receivables = <<>>
        /\ booked = {} /\ InitialCash \in Nat
    BY CashAssumption DEF Init
  <1>2. DOMAIN state.reservations = {} /\ DOMAIN state.receivables = {}
    BY <1>1
  <1>3. IsState(state)
    <2>1. <<>> \in [{} -> Reservation] /\ <<>> \in [{} -> Nat]
      OBVIOUS
    <2>2. state = [cash |-> InitialCash, reservations |-> <<>>, receivables |-> <<>>,
                   flags |-> {}, sequence |-> 0, now |-> 0, tradeSeq |-> 0, brokerSeq |-> 0]
      BY DEF Init
    <2> QED BY <1>0, <1>1, <1>2, <2>1, <2>2 DEF IsState
  <1>4. Valid(state)
    <2>1. Reserved(state) = 0
      <3>1. DOMAIN RemainingOf(state) = {}
        BY <1>2 DEF RemainingOf
      <3>2. Summable(RemainingOf(state))
        BY <1>0, <3>1 DEF Summable
      <3> QED BY <3>1, <3>2, ReservedIsSum, SumOfNothing
    <2>2. Unsettled(state) = 0
      <3>1. Summable(state.receivables)
        BY <1>0, <1>2 DEF Summable
      <3> QED BY <1>2, <3>1, UnsettledIsSum, SumOfNothing
    <2> QED BY <1>1, <1>2, <2>1, <2>2 DEF Valid, Withdrawable
  <1>5. BookedOnce
    <2>1. Summable(EffectsOf({})) /\ DOMAIN EffectsOf({}) = {}
      BY <1>0 DEF Summable, EffectsOf
    <2>2. TotalEffect({}) = 0
      BY <2>1, BookedIsSum, SumOfNothing
    <2> QED BY <1>1, <2>2 DEF BookedOnce, TotalEffect
  <1> QED BY <1>0, <1>1, <1>3, <1>4, <1>5 DEF AccountInvariant, Bound

LEMMA InvariantNext ==
  ASSUME AccountInvariant, [Next]_vars
  PROVE  AccountInvariant'
  <1>1. CASE UNCHANGED vars
    <2>1. state' = state /\ semantic' = semantic /\ booked' = booked
      BY <1>1 DEF vars
    <2>2. IsState(state') /\ Valid(state') /\ IsFiniteSet(booked')
      BY <2>1 DEF AccountInvariant
    <2>3. Bound' /\ BookedOnce'
      BY <2>1 DEF AccountInvariant, Bound, BookedOnce
    <2> QED BY <2>2, <2>3 DEF AccountInvariant
  <1>2. ASSUME NEW c \in Command, Apply(c) PROVE AccountInvariant'
    <2>1. IsState(state) /\ Bound /\ IsFiniteSet(booked) /\ BookedOnce
      BY DEF AccountInvariant
    <2>2. /\ state' = Candidate(state, c) /\ Valid(Candidate(state, c))
          /\ booked' = IF Books(state, c) THEN booked \cup {c} ELSE booked
          /\ Known(c) # {} \/ Allowed(state, c)
      BY <1>2 DEF Apply
    <2>3. /\ IsState(Candidate(state, c))
          /\ Candidate(state, c).cash = state.cash + (IF Books(state, c) THEN Effect(c) ELSE 0)
      BY <2>1, <2>2, CandidateStep
    <2>4. IsState(state') /\ Valid(state')
      BY <2>2, <2>3
    <2>5. IsFiniteSet(booked')
      BY <2>1, <2>2, FS_AddElement
    <2>6. Bound'
      BY <1>2, <2>1, BoundStep
    <2>7. state'.cash = InitialCash + TotalEffect(booked')
      <3>0. state.cash = InitialCash + TotalEffect(booked) /\ state.cash \in Int
        BY <2>1 DEF BookedOnce, TotalEffect, IsState
      <3>1. CASE Books(state, c)
        <4>1. c \notin booked /\ c.op \in Booking
          BY <2>1, <3>1, BooksNew DEF Books, Booking
        <4>2. \A d \in booked : d \in Command /\ d.op \in Booking
          BY <2>1 DEF Bound
        <4>3. /\ TotalEffect(booked \cup {c}) = TotalEffect(booked) + Effect(c)
              /\ TotalEffect(booked) \in Int
          BY <2>1, <4>1, <4>2, BookingAdds
        <4>4. Effect(c) \in Int /\ InitialCash \in Int
          BY <4>1, EffectTyped, CashAssumption
        <4>5. booked' = booked \cup {c} /\ state'.cash = state.cash + Effect(c)
          BY <2>2, <2>3, <3>1
        <4> QED BY <3>0, <4>3, <4>4, <4>5
      <3>2. CASE ~Books(state, c)
        <4>1. booked' = booked /\ state'.cash = state.cash + 0
          BY <2>2, <2>3, <3>2
        <4> QED BY <3>0, <4>1
      <3> QED BY <3>1, <3>2
    <2>8. \A d, e \in booked' : d # e => Identities(d) \cap Identities(e) = {}
      <3>1. \A d \in booked' : \A i \in Identities(d) : semantic'[i] = d
        BY <2>6 DEF Bound
      <3> QED BY <3>1
    <2>9. BookedOnce'
      BY <2>7, <2>8 DEF BookedOnce, TotalEffect
    <2> QED BY <2>4, <2>5, <2>6, <2>9 DEF AccountInvariant
  <1> QED BY <1>1, <1>2 DEF Next

(* Every reachable state of the account validates, its unsettled proceeds  *)
(* are not negative, and every booked fact is bound to its identities.     *)
THEOREM AccountSound == Spec => []AccountInvariant
  BY InvariantInit, InvariantNext, PTL DEF Spec

(* For any commands in any order: the cash is the initial cash plus the    *)
(* effect of each fact booked, counted once, and no two booked facts share *)
(* an identity (Manager::apply_inner in src/crates/account/src/manager.rs).*)
THEOREM FactsBookedOnce == Spec => []BookedOnce
  <1>1. AccountInvariant => BookedOnce
    BY DEF AccountInvariant
  <1> QED BY <1>1, AccountSound, PTL

-----------------------------------------------------------------------------
(* A funded fill can be booked *)

LEMMA AccountSums ==
  ASSUME NEW a, IsState(a), \A i \in DOMAIN a.reservations : a.reservations[i].remaining >= 0
  PROVE  /\ Summable(RemainingOf(a))
         /\ Reserved(a) = SumOver(RemainingOf(a))
         /\ Reserved(a) \in Nat /\ Unsettled(a) \in Nat
  <1>1. /\ IsFiniteSet(DOMAIN a.reservations)
        /\ \A i \in DOMAIN a.reservations : a.reservations[i].remaining \in Int
    BY DEF IsState, Reservation
  <1>2. Summable(RemainingOf(a)) /\ \A i \in DOMAIN RemainingOf(a) : RemainingOf(a)[i] >= 0
    BY <1>1 DEF Summable, RemainingOf
  <1>3. Reserved(a) = SumOver(RemainingOf(a)) /\ Reserved(a) \in Int /\ Reserved(a) >= 0
    BY <1>2, ReservedIsSum, SumIsInteger
  <1>4. Summable(a.receivables) /\ \A i \in DOMAIN a.receivables : a.receivables[i] >= 0
    BY DEF IsState, Summable
  <1>5. Unsettled(a) \in Int /\ Unsettled(a) >= 0
    BY <1>4, UnsettledIsSum, SumIsInteger
  <1> QED BY <1>2, <1>3, <1>5

\* The fill takes from the cash no more than it takes from the reservation.
LEMMA FillValidates ==
  ASSUME NEW a, IsState(a), Valid(a), NEW c, c.side = "BUY", c.withdrawable = TRUE,
         c.notional \in Nat, c.charges \in Nat, c.rebates \in Nat, c.terminal \in BOOLEAN,
         c.sequence \in Nat, MayConsume(a, c), ~StaleTrade(a, c)
  PROVE  Valid(AfterTrade(a, c))
  <1> DEFINE i == c.reservation
             r == a.reservations[i]
             n == Consumed(r, c)
             b == AfterTrade(a, c)
  <1>1. i \in DOMAIN a.reservations /\ r \in Reservation
    BY DEF MayConsume, Has, IsState
  <1>2. /\ Gross(c) \in Nat /\ Gross(c) = c.notional + c.charges
        /\ CashEffect(c) = c.rebates - Gross(c) /\ CashEffect(c) \in Int
        /\ Gross(c) <= r.remaining
    BY DEF Gross, CashEffect, MayConsume
  <1>3. /\ n \in Reservation
        /\ n.original = r.original /\ n.consumed = r.consumed + Gross(c)
        /\ n.remaining = IF c.terminal THEN 0 ELSE r.remaining - Gross(c)
        /\ n.released = IF c.terminal THEN r.released + (r.remaining - Gross(c)) ELSE r.released
    BY <1>1, <1>2, ConsumedTyped
  <1>4. /\ b.cash = a.cash + CashEffect(c)
        /\ b.reservations = [a.reservations EXCEPT ![i] = n]
        /\ b.receivables = a.receivables
    BY TradeFields
  <1>5. IsState(b)
    <2> DEFINE R == [a.reservations EXCEPT ![i] = n]
    <2>1. R \in [DOMAIN R -> Reservation] /\ IsFiniteSet(DOMAIN R)
      BY <1>3 DEF IsState
    <2>2. b = [cash |-> a.cash + CashEffect(c), reservations |-> R,
               receivables |-> a.receivables, flags |-> a.flags, sequence |-> a.sequence,
               now |-> a.now, tradeSeq |-> c.sequence, brokerSeq |-> a.brokerSeq]
      BY TradeFields
    <2>3. a.cash + CashEffect(c) \in Int
      BY <1>2 DEF IsState
    <2> HIDE DEF R, b
    <2> QED BY <2>1, <2>2, <2>3 DEF IsState
  <1>6. /\ r.original = r.remaining + r.consumed + r.released
        /\ r.remaining \in Nat /\ r.consumed \in Nat /\ r.released \in Nat
    <2>1. /\ r.original = r.remaining + r.consumed + r.released
          /\ r.remaining >= 0 /\ r.consumed >= 0 /\ r.released >= 0
      BY <1>1 DEF Valid
    <2>2. r.remaining \in Int /\ r.consumed \in Int /\ r.released \in Int
      BY <1>1 DEF Reservation
    <2> QED BY <2>1, <2>2
  <1> HIDE DEF n, b, r
  <1>7. /\ n.original = n.remaining + n.consumed + n.released
        /\ n.remaining \in Nat /\ n.consumed >= 0 /\ n.released >= 0
        /\ n.remaining <= r.remaining - Gross(c)
    BY <1>2, <1>3, <1>6
  <1>8. \A j \in DOMAIN b.reservations :
          LET s == b.reservations[j]
          IN /\ s.original = s.remaining + s.consumed + s.released
             /\ s.remaining >= 0 /\ s.consumed >= 0 /\ s.released >= 0
    <2>1. ASSUME NEW j \in DOMAIN b.reservations
          PROVE  LET s == b.reservations[j]
                 IN /\ s.original = s.remaining + s.consumed + s.released
                    /\ s.remaining >= 0 /\ s.consumed >= 0 /\ s.released >= 0
      <3>1. CASE j = i
        <4>1. b.reservations[j] = n
          BY <1>1, <1>4, <3>1
        <4> QED BY <1>7, <4>1
      <3>2. CASE j # i
        <4>1. j \in DOMAIN a.reservations /\ b.reservations[j] = a.reservations[j]
          BY <1>4, <3>2
        <4> QED BY <4>1 DEF Valid
      <3> QED BY <3>1, <3>2
    <2> QED BY <2>1
  <1>9. /\ Summable(RemainingOf(a)) /\ Reserved(a) = SumOver(RemainingOf(a))
        /\ Reserved(a) \in Nat /\ Unsettled(a) \in Nat
    BY AccountSums DEF Valid
  <1>10. Reserved(b) = SumOver(RemainingOf(b)) /\ Reserved(b) \in Nat
    BY <1>5, <1>8, AccountSums
  <1>11. SumOver(RemainingOf(b)) = SumOver(RemainingOf(a)) - r.remaining + n.remaining
    <2>1. DOMAIN RemainingOf(b) = DOMAIN RemainingOf(a) /\ i \in DOMAIN RemainingOf(a)
      BY <1>1, <1>4 DEF RemainingOf
    <2>2. RemainingOf(b)[i] = n.remaining /\ RemainingOf(a)[i] = r.remaining
      BY <1>1, <1>4 DEF RemainingOf, r
    <2>3. \A j \in DOMAIN RemainingOf(a) \ {i} : RemainingOf(b)[j] = RemainingOf(a)[j]
      BY <1>4 DEF RemainingOf
    <2>4. RemainingOf(b)[i] \in Int
      BY <1>7, <2>2
    <2>5. SumOver(RemainingOf(b))
            = SumOver(RemainingOf(a)) - RemainingOf(a)[i] + RemainingOf(b)[i]
      BY <1>9, <2>1, <2>3, <2>4, SumMoves
    <2> QED BY <2>2, <2>5
  <1>12. Unsettled(b) = Unsettled(a)
    BY <1>4 DEF Unsettled
  <1>13. a.cash \in Int /\ a.cash - Reserved(a) - Unsettled(a) >= 0
    BY DEF Valid, Withdrawable, IsState
  <1>14. b.cash - Reserved(b) - Unsettled(b) >= 0
    <2> DEFINE x == Reserved(a)
               y == Reserved(b)
               u == Unsettled(a)
    <2>1. y = x - r.remaining + n.remaining
      BY <1>9, <1>10, <1>11
    <2>2. b.cash = a.cash + (c.rebates - Gross(c))
      BY <1>2, <1>4
    <2>3. x \in Nat /\ y \in Nat /\ u \in Nat /\ Unsettled(b) = u /\ a.cash - x - u >= 0
      BY <1>9, <1>10, <1>12, <1>13
    <2> HIDE DEF x, y, u
    <2>4. b.cash - y - u >= 0
      BY <1>2, <1>6, <1>7, <1>13, <2>1, <2>2, <2>3
    <2> QED BY <2>3, <2>4 DEF y
  <1>15. b.cash >= 0
    BY <1>5, <1>9, <1>10, <1>12, <1>14 DEF IsState
  <1> QED BY <1>8, <1>14, <1>15 DEF Valid, Withdrawable, b

LEMMA FillsFunded == AccountInvariant => FundedFillBooks
  <1> SUFFICES ASSUME AccountInvariant,
                      NEW i \in DOMAIN state.reservations,
                      NEW n \in 0..MaxAmount, NEW ch \in 0..MaxAmount, NEW re \in 0..MaxAmount,
                      NEW terminal \in BOOLEAN,
                      MayConsume(state, Fill(state.reservations[i], i, n, ch, re, terminal))
               PROVE  Valid(AfterTrade(state,
                              Fill(state.reservations[i], i, n, ch, re, terminal)))
    BY DEF FundedFillBooks
  <1> DEFINE c == Fill(state.reservations[i], i, n, ch, re, terminal)
  <1>1. IsState(state) /\ Valid(state)
    BY DEF AccountInvariant
  <1>2. state.tradeSeq \in Nat /\ state.now \in Nat
    BY <1>1 DEF IsState
  <1>3. /\ c.side = "BUY" /\ c.withdrawable = TRUE /\ c.terminal \in BOOLEAN
        /\ c.notional \in Nat /\ c.charges \in Nat /\ c.rebates \in Nat
        /\ c.sequence = state.tradeSeq + 1 /\ c.time = state.now
    BY CashAssumption DEF Fill
  <1> HIDE DEF c
  <1>4. c.sequence \in Nat /\ ~StaleTrade(state, c)
    BY <1>2, <1>3 DEF StaleTrade
  <1>5. MayConsume(state, c)
    BY DEF c
  <1>6. Valid(AfterTrade(state, c))
    BY <1>1, <1>3, <1>4, <1>5, FillValidates
  <1> QED BY <1>6 DEF c

(* What the account checks of amounts never refuses the fill of a funded   *)
(* order: it leaves a state that validates, whatever was withdrawn, lost,  *)
(* reserved or left unsettled meanwhile, also while the account is blocked *)
(* or its journal full by count (Manager::trade, validate and consume in   *)
(* src/crates/account/src/manager.rs and reservation.rs; the byte bound of *)
(* a version 5 checkpoint, manager.rs:241-247, is not modelled).           *)
THEOREM FundedFillsBook == Spec => []FundedFillBooks
  BY AccountSound, FillsFunded, PTL
=============================================================================
