---------------------------- MODULE SumTheorems ----------------------------
(***************************************************************************)
(* What SumFunctionOnSet of the community modules returns, for every       *)
(* function and every finite set: the sum does not depend on the order in  *)
(* which its recursive definition takes the elements.  The gifts that      *)
(* closed rounds have awarded and the money that settled bids have moved   *)
(* are such sums.                                                          *)
(***************************************************************************)
EXTENDS Integers, Functions, FiniteSetTheorems, TLAPS

-----------------------------------------------------------------------------
(* Induction over the subsets of a finite set, for a set F of them.        *)

\* A subset is in F when all smaller ones are.
LEMMA SubsetInduction ==
    ASSUME NEW S, IsFiniteSet(S), NEW F,
           ASSUME NEW T \in SUBSET S, \A U \in SUBSET T : U # T => U \in F
           PROVE  T \in F
    PROVE  S \in F
<1> DEFINE Out == {T \in SUBSET S : T \notin F}
           R == StrictSubsetOrdering(S)
<1>1. IsWellFoundedOn(R, SUBSET S)
  BY FS_StrictSubsetOrderingWellFounded, FS_FiniteSubsetsOfFinite
<1>2. Out = {}
  <2> SUFFICES ASSUME Out # {} PROVE FALSE
    OBVIOUS
  <2>1. PICK T \in Out : \A U \in Out : <<U, T>> \notin R
    <3>1. Out \subseteq SUBSET S
      OBVIOUS
    <3> HIDE DEF R, Out
    <3> QED BY <1>1, <3>1, WFMin
  <2>2. \A U \in SUBSET T : U # T => U \in F
    BY <2>1 DEF StrictSubsetOrdering
  <2> QED
    BY <2>1, <2>2
<1> QED
  BY <1>2

-----------------------------------------------------------------------------
(* The recursive definition.                                               *)

Pick(T) == CHOOSE x \in T : TRUE

\* g gives the sum of f over each subset of S.
IsSum(g, f, S) ==
    g = [T \in SUBSET S |-> IF T = {} THEN 0 ELSE f[Pick(T)] + g[T \ {Pick(T)}]]

SumOf(f, S) == CHOOSE g : IsSum(g, f, S)

LEMMA PickIn == \A T : T # {} => Pick(T) \in T
BY DEF Pick

LEMMA SumIsSumOf ==
    ASSUME NEW f, NEW S
    PROVE  SumFunctionOnSet(f, S) = SumOf(f, S)[S]
BY DEF SumFunctionOnSet, FoldFunctionOnSet, MapThenFoldSet, SumOf, IsSum, Pick

LEMMA IsSumValue ==
    ASSUME NEW f, NEW S, NEW g, IsSum(g, f, S), NEW T \in SUBSET S
    PROVE  g[T] = IF T = {} THEN 0 ELSE f[Pick(T)] + g[T \ {Pick(T)}]
<1> DEFINE h(U) == IF U = {} THEN 0 ELSE f[Pick(U)] + g[U \ {Pick(U)}]
<1>1. g = [U \in SUBSET S |-> h(U)]
  BY DEF IsSum
<1> HIDE DEF h
<1>2. g[T] = h(T)
  BY <1>1
<1> QED
  BY <1>2 DEF h

\* There is at most one such function, on any subset.
LEMMA SumsAgree ==
    ASSUME NEW f, NEW S, IsFiniteSet(S), NEW U, NEW V,
           S \subseteq U, S \subseteq V,
           NEW g, NEW h, IsSum(g, f, U), IsSum(h, f, V)
    PROVE  g[S] = h[S]
<1> DEFINE F == {T \in SUBSET S : g[T] = h[T]}
<1>1. ASSUME NEW T \in SUBSET S, \A W \in SUBSET T : W # T => W \in F
      PROVE  T \in F
  <2>1. T \in SUBSET U /\ T \in SUBSET V
    OBVIOUS
  <2>2. CASE T = {}
    BY <2>1, <2>2, IsSumValue
  <2>3. CASE T # {}
    <3>1. T \ {Pick(T)} \in SUBSET T /\ T \ {Pick(T)} # T
      BY <2>3, PickIn
    <3>2. g[T \ {Pick(T)}] = h[T \ {Pick(T)}]
      BY <1>1, <3>1
    <3>3. g[T] = f[Pick(T)] + g[T \ {Pick(T)}]
      BY <2>1, <2>3, IsSumValue
    <3>4. h[T] = f[Pick(T)] + h[T \ {Pick(T)}]
      BY <2>1, <2>3, IsSumValue
    <3> QED
      BY <3>2, <3>3, <3>4
  <2> QED
    BY <2>2, <2>3
<1>2. S \in F
  <2> HIDE DEF F
  <2> QED BY <1>1, SubsetInduction
<1> QED
  BY <1>2

\* There is one.
LEMMA SumExists ==
    ASSUME NEW f, NEW S, IsFiniteSet(S)
    PROVE  IsSum(SumOf(f, S), f, S)
<1> DEFINE F == {T \in SUBSET S : \E g : IsSum(g, f, T)}
           v(T) == SumOf(f, T)[T]
<1>1. ASSUME NEW T \in SUBSET S, \A U \in SUBSET T : U # T => U \in F
      PROVE  T \in F
  <2> DEFINE w(U) == IF U = {} THEN 0 ELSE f[Pick(U)] + v(U \ {Pick(U)})
             g == [U \in SUBSET T |-> w(U)]
  <2>1. ASSUME NEW U \in SUBSET T, U # T
        PROVE  IsSum(SumOf(f, U), f, U)
    BY <1>1, <2>1 DEF SumOf
  <2>2. ASSUME NEW U \in SUBSET T, U # T
        PROVE  v(U) = w(U)
    <3>1. CASE U = {}
      BY <2>1, <2>2, <3>1, IsSumValue
    <3>2. CASE U # {}
      <4> DEFINE W == U \ {Pick(U)}
      <4>1. W \in SUBSET T /\ W # T /\ W \subseteq U /\ U \in SUBSET U
        BY <3>2, PickIn
      <4>2. IsFiniteSet(W)
        BY <4>1, FS_Subset
      <4>3. SumOf(f, U)[W] = SumOf(f, W)[W]
        <5>1. IsSum(SumOf(f, U), f, U) /\ IsSum(SumOf(f, W), f, W)
          BY <2>1, <2>2, <4>1
        <5> HIDE DEF W
        <5> QED BY <4>1, <4>2, <5>1, SumsAgree
      <4>4. SumOf(f, U)[U] = f[Pick(U)] + SumOf(f, U)[W]
        BY <2>1, <2>2, <3>2, <4>1, IsSumValue
      <4> QED
        BY <3>2, <4>3, <4>4
    <3> QED
      BY <3>1, <3>2
  <2>3. ASSUME NEW U \in SUBSET T
        PROVE  w(U) = IF U = {} THEN 0 ELSE f[Pick(U)] + g[U \ {Pick(U)}]
    <3>1. CASE U = {}
      BY <3>1
    <3>2. CASE U # {}
      <4>1. U \ {Pick(U)} \in SUBSET T /\ U \ {Pick(U)} # T
        BY <3>2, PickIn
      <4>2. g[U \ {Pick(U)}] = v(U \ {Pick(U)})
        <5> HIDE DEF v, w
        <5>1. g[U \ {Pick(U)}] = w(U \ {Pick(U)})
          BY <4>1
        <5> QED BY <2>2, <4>1, <5>1
      <4> QED
        BY <3>2, <4>2
    <3> QED
      BY <3>1, <3>2
  <2>4. IsSum(g, f, T)
    <3> HIDE DEF w
    <3> QED BY <2>3 DEF IsSum
  <2> QED
    BY <2>4
<1>2. S \in F
  <2> HIDE DEF F
  <2> QED BY <1>1, SubsetInduction
<1> QED
  BY <1>2 DEF SumOf

-----------------------------------------------------------------------------
(* What the sum is.                                                        *)

\* The sum over a smaller set is the same, whichever set the function is for.
LEMMA SmallerSum ==
    ASSUME NEW f, NEW U, IsFiniteSet(U), NEW T, T \subseteq U
    PROVE  SumOf(f, U)[T] = SumOf(f, T)[T]
<1>1. IsFiniteSet(T)
  BY FS_Subset
<1>2. IsSum(SumOf(f, U), f, U)
  BY SumExists
<1>3. IsSum(SumOf(f, T), f, T)
  BY <1>1, SumExists
<1> QED
  BY <1>1, <1>2, <1>3, SumsAgree

LEMMA SumUnfold ==
    ASSUME NEW f, NEW S, IsFiniteSet(S), S # {}
    PROVE  SumFunctionOnSet(f, S) =
              f[Pick(S)] + SumFunctionOnSet(f, S \ {Pick(S)})
<1> DEFINE T == S \ {Pick(S)}
<1>1. IsFiniteSet(T) /\ T \subseteq S
  BY FS_RemoveElement
<1>2. IsSum(SumOf(f, S), f, S) /\ IsSum(SumOf(f, T), f, T)
  BY <1>1, SumExists
<1>3. SumOf(f, S)[S] = f[Pick(S)] + SumOf(f, S)[T]
  BY <1>2, IsSumValue
<1>4. SumOf(f, S)[T] = SumOf(f, T)[T]
  <2> HIDE DEF T
  <2> QED BY <1>1, SmallerSum
<1> QED
  BY <1>3, <1>4, SumIsSumOf

\* No element, no sum.
LEMMA SumEmpty == \A f : SumFunctionOnSet(f, {}) = 0
<1> SUFFICES ASSUME NEW f PROVE SumFunctionOnSet(f, {}) = 0
  OBVIOUS
<1>1. IsSum(SumOf(f, {}), f, {})
  BY SumExists, FS_EmptySet
<1>2. SumOf(f, {})[{}] = 0
  BY <1>1, IsSumValue
<1> QED
  BY <1>2, SumIsSumOf

\* The sum of natural numbers is one.
LEMMA SumType ==
    ASSUME NEW f, NEW S, IsFiniteSet(S), \A x \in S : f[x] \in Nat
    PROVE  SumFunctionOnSet(f, S) \in Nat
<1> DEFINE F == {T \in SUBSET S : SumFunctionOnSet(f, T) \in Nat}
<1>1. ASSUME NEW T \in SUBSET S, \A U \in SUBSET T : U # T => U \in F
      PROVE  T \in F
  <2>1. CASE T = {}
    BY <2>1, SumEmpty
  <2>2. CASE T # {}
    <3>1. Pick(T) \in T
      BY <2>2, PickIn
    <3>2. SumFunctionOnSet(f, T \ {Pick(T)}) \in Nat /\ f[Pick(T)] \in Nat
      BY <1>1, <3>1
    <3>3. IsFiniteSet(T)
      BY FS_Subset
    <3>4. SumFunctionOnSet(f, T) = f[Pick(T)] + SumFunctionOnSet(f, T \ {Pick(T)})
      BY <2>2, <3>3, SumUnfold
    <3> QED
      BY <3>2, <3>4
  <2> QED
    BY <2>1, <2>2
<1>2. S \in F
  <2> HIDE DEF F
  <2> QED BY <1>1, SubsetInduction
<1> QED
  BY <1>2

\* Any element may be taken out first.
THEOREM SumRemove ==
    ASSUME NEW f, NEW S, IsFiniteSet(S), \A x \in S : f[x] \in Nat, NEW y \in S
    PROVE  SumFunctionOnSet(f, S) = f[y] + SumFunctionOnSet(f, S \ {y})
<1> DEFINE Sum(T) == SumFunctionOnSet(f, T)
           F == {T \in SUBSET S : \A x \in T : Sum(T) = f[x] + Sum(T \ {x})}
<1>1. ASSUME NEW T \in SUBSET S
      PROVE  IsFiniteSet(T) /\ Sum(T) \in Nat
  <2>1. IsFiniteSet(T)
    BY FS_Subset
  <2> QED
    BY <2>1, SumType
<1>2. ASSUME NEW T \in SUBSET S, T # {}
      PROVE  Sum(T) = f[Pick(T)] + Sum(T \ {Pick(T)})
  BY <1>1, <1>2, SumUnfold
<1>3. ASSUME NEW T \in SUBSET S, \A U \in SUBSET T : U # T => U \in F
      PROVE  T \in F
  <2> SUFFICES ASSUME NEW x \in T PROVE Sum(T) = f[x] + Sum(T \ {x})
    OBVIOUS
  <2> DEFINE p == Pick(T)
  <2>1. p \in T /\ Sum(T) = f[p] + Sum(T \ {p})
    BY <1>2, PickIn
  <2>2. CASE x = p
    BY <2>1, <2>2
  <2>3. CASE x # p
    <3>1. T \ {p} \in F /\ T \ {x} \in F /\ x \in T \ {p} /\ p \in T \ {x}
      <4> HIDE DEF F, p
      <4> QED BY <1>3, <2>1, <2>3
    <3>2. (T \ {p}) \ {x} = (T \ {x}) \ {p}
      OBVIOUS
    <3>3. Sum(T \ {p}) = f[x] + Sum((T \ {p}) \ {x})
      <4> HIDE DEF p, Sum
      <4> QED BY <3>1
    <3>4. Sum(T \ {x}) = f[p] + Sum((T \ {p}) \ {x})
      <4> HIDE DEF p, Sum
      <4> QED BY <3>1, <3>2
    <3>5. /\ f[x] \in Nat /\ f[p] \in Nat /\ Sum(T) \in Nat /\ Sum(T \ {p}) \in Nat
          /\ Sum(T \ {x}) \in Nat /\ Sum((T \ {p}) \ {x}) \in Nat
      <4> HIDE DEF p, Sum
      <4> QED BY <1>1, <2>1
    <3> HIDE DEF Sum, p
    <3> QED
      BY <2>1, <3>3, <3>4, <3>5
  <2> QED
    BY <2>2, <2>3
<1>4. S \in F
  <2> HIDE DEF F
  <2> QED BY <1>3, SubsetInduction
<1> QED
  BY <1>4

\* One more element adds its value.
LEMMA SumAdd ==
    ASSUME NEW f, NEW S, IsFiniteSet(S), NEW y, y \notin S,
           \A x \in S \cup {y} : f[x] \in Nat
    PROVE  SumFunctionOnSet(f, S \cup {y}) = f[y] + SumFunctionOnSet(f, S)
<1>1. IsFiniteSet(S \cup {y}) /\ (S \cup {y}) \ {y} = S
  BY FS_AddElement
<1> QED
  BY <1>1, SumRemove

\* Only the values on the set count.
LEMMA SumSame ==
    ASSUME NEW f, NEW g, NEW S, IsFiniteSet(S), \A x \in S : f[x] = g[x]
    PROVE  SumFunctionOnSet(f, S) = SumFunctionOnSet(g, S)
<1> DEFINE F == {T \in SUBSET S : SumFunctionOnSet(f, T) = SumFunctionOnSet(g, T)}
<1>1. ASSUME NEW T \in SUBSET S, \A U \in SUBSET T : U # T => U \in F
      PROVE  T \in F
  <2>1. CASE T = {}
    BY <2>1, SumEmpty
  <2>2. CASE T # {}
    <3>1. Pick(T) \in T
      BY <2>2, PickIn
    <3>2. SumFunctionOnSet(f, T \ {Pick(T)}) = SumFunctionOnSet(g, T \ {Pick(T)})
      BY <1>1, <3>1
    <3>3. IsFiniteSet(T)
      BY FS_Subset
    <3>4. SumFunctionOnSet(f, T) = f[Pick(T)] + SumFunctionOnSet(f, T \ {Pick(T)})
      BY <2>2, <3>3, SumUnfold
    <3>5. SumFunctionOnSet(g, T) = g[Pick(T)] + SumFunctionOnSet(g, T \ {Pick(T)})
      BY <2>2, <3>3, SumUnfold
    <3> QED
      BY <3>1, <3>2, <3>4, <3>5
  <2> QED
    BY <2>1, <2>2
<1>2. S \in F
  <2> HIDE DEF F
  <2> QED BY <1>1, SubsetInduction
<1> QED
  BY <1>2
=============================================================================
