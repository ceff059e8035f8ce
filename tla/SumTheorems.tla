---------------------------- MODULE SumTheorems ----------------------------
(***************************************************************************)
(* Facts about SumFunctionOnSet(f, S), the community-module operator with  *)
(* which the ledger's reference balances are defined: the sum is 0 over    *)
(* the empty set, does not depend on the order in which the elements are   *)
(* taken, and reads nothing of f outside S.                                *)
(*                                                                         *)
(* The induction theorems of the library take a predicate as a parameter;  *)
(* the inductions below use their first-order core instead, the existence  *)
(* of a minimal element (WFMin), through the lemma NatSetInduction.        *)
(***************************************************************************)
EXTENDS Integers, FiniteSets, Functions, FiniteSetTheorems,
        WellFoundedInduction, TLAPS

(* A set of naturals that holds 0 and is closed under successor is Nat. *)
LEMMA NatSetInduction ==
  ASSUME NEW G, 0 \in G, \A n \in Nat : n \in G => n + 1 \in G
  PROVE  \A n \in Nat : n \in G
<1> DEFINE R == OpToRel(<, Nat)
           Missing == Nat \ G
<1>1. SUFFICES ASSUME Missing # {} PROVE FALSE
  OBVIOUS
<1>2. PICK m \in Missing : \A k \in Missing : ~(<<k, m>> \in R)
  <2>1. IsWellFoundedOn(R, Nat)
    BY NatLessThanWellFounded
  <2>2. Missing \subseteq Nat
    OBVIOUS
  <2> HIDE DEF R, Missing
  <2>3. QED
    BY <1>1, <2>1, <2>2, WFMin
<1>3. m \in Nat /\ m # 0
  OBVIOUS
<1>4. m - 1 \in Nat /\ <<m - 1, m>> \in R
  BY <1>3 DEF OpToRel
<1>5. m - 1 \in G
  BY <1>2, <1>4
<1>6. (m - 1) + 1 \in G
  BY <1>4, <1>5
<1>7. m \in G
  BY <1>3, <1>6
<1>8. QED
  BY <1>7

(***************************************************************************)
(* h tabulates the sums of f over the subsets of S that satisfy the size   *)
(* bound: the recursion that SumFunctionOnSet unfolds to.                  *)
(***************************************************************************)
Pick(T) == CHOOSE x \in T : TRUE

SumStep(h, f, T) == IF T = {} THEN 0 ELSE f[Pick(T)] + h[T \ {Pick(T)}]

IsSumTable(h, f, S) == h = [T \in SUBSET S |-> SumStep(h, f, T)]

(* The definition of SumFunctionOnSet, unfolded to the table it chooses. *)
LEMMA SumIsTableEntry ==
  ASSUME NEW f, NEW S
  PROVE  SumFunctionOnSet(f, S) = (CHOOSE h : IsSumTable(h, f, S))[S]
BY DEF SumFunctionOnSet, FoldFunctionOnSet, MapThenFoldSet, IsSumTable,
       SumStep, Pick

(* Taking the picked element out of a finite set makes it smaller by one. *)
LEMMA PickSmaller ==
  ASSUME NEW T, IsFiniteSet(T), T # {}
  PROVE  /\ Pick(T) \in T
         /\ IsFiniteSet(T \ {Pick(T)})
         /\ Cardinality(T) \in Nat \ {0}
         /\ Cardinality(T \ {Pick(T)}) = Cardinality(T) - 1
<1>1. Pick(T) \in T
  BY DEF Pick
<1>2. Cardinality(T) \in Nat
  BY FS_CardinalityType
<1>3. Cardinality(T) # 0
  BY FS_EmptySet
<1>4. QED
  BY <1>1, <1>2, <1>3, FS_RemoveElement

(* A table of sums exists for every finite set: built size by size. *)
LEMMA SumTableExists ==
  ASSUME NEW f, NEW S, IsFiniteSet(S)
  PROVE  \E h : IsSumTable(h, f, S)
<1> DEFINE Small(n) == {T \in SUBSET S : Cardinality(T) <= n}
           Table(h, n) == h = [T \in Small(n) |-> SumStep(h, f, T)]
           G == {n \in Nat : \E h : Table(h, n)}
<1>1. \A T \in SUBSET S : IsFiniteSet(T) /\ Cardinality(T) \in Nat
  BY FS_Subset, FS_CardinalityType
<1>2. 0 \in G
  <2> DEFINE h0 == [T \in Small(0) |-> 0]
  <2>1. \A T \in Small(0) : T = {}
    BY <1>1, FS_EmptySet
  <2>2. h0 = [T \in Small(0) |-> SumStep(h0, f, T)]
    BY <2>1 DEF SumStep
  <2>3. Table(h0, 0)
    BY <2>2
  <2> QED
    BY <2>3
<1>3. \A n \in Nat : n \in G => n + 1 \in G
  <2> SUFFICES ASSUME NEW n \in Nat, n \in G PROVE n + 1 \in G
    OBVIOUS
  <2>1. PICK h : Table(h, n)
    OBVIOUS
  <2> DEFINE k == [T \in Small(n + 1) |-> SumStep(h, f, T)]
  <2>2. ASSUME NEW T \in Small(n + 1)
        PROVE  SumStep(k, f, T) = SumStep(h, f, T)
    <3>1. CASE T = {}
      BY <3>1 DEF SumStep
    <3>2. CASE T # {}
      <4> DEFINE U == T \ {Pick(T)}
      <4>1. U \in SUBSET S /\ Cardinality(U) <= n
        BY <1>1, <3>2, PickSmaller
      <4>2. U \in Small(n) /\ U \in Small(n + 1)
        BY <1>1, <4>1
      <4>3. h[U] = SumStep(h, f, U)
        BY <2>1, <4>2
      <4>4. k[U] = SumStep(h, f, U)
        BY <4>2
      <4>5. QED
        BY <3>2, <4>3, <4>4 DEF SumStep
    <3>3. QED
      BY <3>1, <3>2
  <2>3. k = [T \in Small(n + 1) |-> SumStep(k, f, T)]
    BY <2>2
  <2>4. Table(k, n + 1)
    BY <2>3
  <2>5. n + 1 \in Nat
    OBVIOUS
  <2> HIDE DEF Table, k
  <2> QED
    BY <2>4, <2>5
<1>4. Cardinality(S) \in G
  <2> HIDE DEF G
  <2>1. QED
    BY <1>1, <1>2, <1>3, NatSetInduction
<1>5. Small(Cardinality(S)) = SUBSET S
  BY <1>1, FS_Subset
<1>6. QED
  BY <1>4, <1>5 DEF IsSumTable

(* Two tables of the same function agree wherever both are defined. *)
LEMMA SumTablesAgree ==
  ASSUME NEW f, NEW S, NEW T \in SUBSET S, IsFiniteSet(S),
         NEW g, NEW h, IsSumTable(g, f, S), IsSumTable(h, f, T)
  PROVE  \A U \in SUBSET T : g[U] = h[U]
<1> DEFINE G == {n \in Nat : \A U \in SUBSET T : Cardinality(U) = n => g[U] = h[U]}
<1>1. \A U \in SUBSET T : IsFiniteSet(U) /\ Cardinality(U) \in Nat /\ U \in SUBSET S
  BY FS_Subset, FS_CardinalityType
<1>2. \A U \in SUBSET T : g[U] = SumStep(g, f, U) /\ h[U] = SumStep(h, f, U)
  BY <1>1 DEF IsSumTable
<1>3. 0 \in G
  BY <1>1, <1>2, FS_EmptySet DEF SumStep
<1>4. \A n \in Nat : n \in G => n + 1 \in G
  <2> SUFFICES ASSUME NEW n \in Nat, n \in G, NEW U \in SUBSET T,
                      Cardinality(U) = n + 1
               PROVE  g[U] = h[U]
    OBVIOUS
  <2>1. U # {}
    BY FS_EmptySet
  <2>2. U \ {Pick(U)} \in SUBSET T /\ Cardinality(U \ {Pick(U)}) = n
    BY <1>1, <2>1, PickSmaller
  <2>3. g[U \ {Pick(U)}] = h[U \ {Pick(U)}]
    BY <2>2
  <2>4. QED
    BY <1>2, <2>1, <2>3 DEF SumStep
<1>5. \A n \in Nat : n \in G
  <2> HIDE DEF G
  <2>1. QED
    BY <1>3, <1>4, NatSetInduction
<1>6. QED
  BY <1>1, <1>5

(* The recursion that the sum satisfies, one picked element at a time. *)
LEMMA SumPick ==
  ASSUME NEW f, NEW S, IsFiniteSet(S)
  PROVE  SumFunctionOnSet(f, S) =
           IF S = {} THEN 0
           ELSE f[Pick(S)] + SumFunctionOnSet(f, S \ {Pick(S)})
<1> DEFINE h == CHOOSE k : IsSumTable(k, f, S)
           U == S \ {Pick(S)}
           g == CHOOSE k : IsSumTable(k, f, U)
<1>1. IsSumTable(h, f, S)
  BY SumTableExists
<1>2. SumFunctionOnSet(f, S) = SumStep(h, f, S)
  BY <1>1, SumIsTableEntry DEF IsSumTable
<1>3. U \in SUBSET S /\ IsFiniteSet(U)
  BY FS_Subset
<1>4. IsSumTable(g, f, U)
  BY <1>3, SumTableExists
<1>5. SumFunctionOnSet(f, U) = g[U]
  BY SumIsTableEntry
<1> HIDE DEF h, g
<1>6. h[U] = g[U]
  BY <1>1, <1>3, <1>4, SumTablesAgree
<1>7. QED
  BY <1>2, <1>5, <1>6 DEF SumStep

(* Nothing to add up: the sum over the empty set is 0. *)
LEMMA SumEmpty ==
  ASSUME NEW f
  PROVE  SumFunctionOnSet(f, {}) = 0
BY FS_EmptySet, SumPick

(* A sum of naturals is a natural. *)
LEMMA SumNat ==
  ASSUME NEW f, NEW S, IsFiniteSet(S), \A x \in S : f[x] \in Nat
  PROVE  SumFunctionOnSet(f, S) \in Nat
<1> DEFINE G == {n \in Nat : \A T \in SUBSET S :
                   Cardinality(T) = n => SumFunctionOnSet(f, T) \in Nat}
<1>1. \A T \in SUBSET S : IsFiniteSet(T) /\ Cardinality(T) \in Nat
  BY FS_Subset, FS_CardinalityType
<1>2. 0 \in G
  BY <1>1, FS_EmptySet, SumEmpty
<1>3. \A n \in Nat : n \in G => n + 1 \in G
  <2> SUFFICES ASSUME NEW n \in Nat, n \in G, NEW T \in SUBSET S,
                      Cardinality(T) = n + 1
               PROVE  SumFunctionOnSet(f, T) \in Nat
    OBVIOUS
  <2>1. T # {}
    BY FS_EmptySet
  <2>2. Pick(T) \in S /\ T \ {Pick(T)} \in SUBSET S /\ Cardinality(T \ {Pick(T)}) = n
    BY <1>1, <2>1, PickSmaller
  <2>3. SumFunctionOnSet(f, T \ {Pick(T)}) \in Nat
    BY <2>2
  <2>4. SumFunctionOnSet(f, T) = f[Pick(T)] + SumFunctionOnSet(f, T \ {Pick(T)})
    BY <1>1, <2>1, SumPick
  <2>5. QED
    BY <2>2, <2>3, <2>4
<1>4. \A n \in Nat : n \in G
  <2> HIDE DEF G
  <2>1. QED
    BY <1>2, <1>3, NatSetInduction
<1>5. QED
  BY <1>1, <1>4

(* Any element may be taken first: the sum does not depend on the order. *)
LEMMA SumRemove ==
  ASSUME NEW f, NEW S, IsFiniteSet(S), \A x \in S : f[x] \in Nat, NEW e \in S
  PROVE  SumFunctionOnSet(f, S) = f[e] + SumFunctionOnSet(f, S \ {e})
<1> DEFINE P(n) == \A T \in SUBSET S : Cardinality(T) = n =>
                     \A x \in T : SumFunctionOnSet(f, T)
                                  = f[x] + SumFunctionOnSet(f, T \ {x})
           G == {n \in Nat : P(n)}
<1>1. \A T \in SUBSET S : /\ IsFiniteSet(T) /\ Cardinality(T) \in Nat
                           /\ SumFunctionOnSet(f, T) \in Nat
  BY FS_Subset, FS_CardinalityType, SumNat
<1>2. 0 \in G
  BY <1>1, FS_EmptySet
<1>3. \A n \in Nat : n \in G => n + 1 \in G
  <2>0. SUFFICES ASSUME NEW n \in Nat, P(n) PROVE P(n + 1)
    <3> HIDE DEF P
    <3> QED
      BY <2>0
  <2> TAKE T \in SUBSET S
  <2> HAVE Cardinality(T) = n + 1
  <2> TAKE x \in T
  <2> DEFINE p == Pick(T)
             Rest == (T \ {x}) \ {p}
  <2>1. IsFiniteSet(T) /\ p \in T
    BY <1>1, PickSmaller
  <2>2. SumFunctionOnSet(f, T) = f[p] + SumFunctionOnSet(f, T \ {p})
    BY <2>1, SumPick
  <2> HIDE DEF p
  <2>3. CASE x = p
    BY <2>2, <2>3
  <2>4. CASE x # p
    <3>1. Cardinality(T \ {p}) = n /\ Cardinality(T \ {x}) = n
      <4>1. /\ Cardinality(T \ {p}) = Cardinality(T) - 1
            /\ Cardinality(T \ {x}) = Cardinality(T) - 1
        BY <2>1, FS_RemoveElement
      <4>2. QED
        BY <4>1
    <3>2. T \ {p} \in SUBSET S /\ T \ {x} \in SUBSET S /\ Rest \in SUBSET S
      OBVIOUS
    <3>3. x \in T \ {p} /\ p \in T \ {x} /\ (T \ {p}) \ {x} = Rest
      BY <2>1, <2>4
    <3>4. SumFunctionOnSet(f, T \ {p}) = f[x] + SumFunctionOnSet(f, Rest)
      BY <2>0, <3>1, <3>2, <3>3
    <3>5. SumFunctionOnSet(f, T \ {x}) = f[p] + SumFunctionOnSet(f, Rest)
      BY <2>0, <3>1, <3>2, <3>3
    <3>6. f[x] \in Nat /\ f[p] \in Nat /\ SumFunctionOnSet(f, Rest) \in Nat
      BY <1>1, <2>1, <3>2
    <3>7. QED
      BY <2>2, <3>4, <3>5, <3>6
  <2>5. QED
    BY <2>3, <2>4
<1>4. \A n \in Nat : n \in G
  <2> HIDE DEF G
  <2>1. QED
    BY <1>2, <1>3, NatSetInduction
<1>5. QED
  BY <1>1, <1>4

(* The sum reads nothing of the function outside the set. *)
LEMMA SumCongruence ==
  ASSUME NEW f, NEW g, NEW S, IsFiniteSet(S), \A x \in S : f[x] = g[x]
  PROVE  SumFunctionOnSet(f, S) = SumFunctionOnSet(g, S)
<1> DEFINE G == {n \in Nat : \A T \in SUBSET S : Cardinality(T) = n =>
                   SumFunctionOnSet(f, T) = SumFunctionOnSet(g, T)}
<1>1. \A T \in SUBSET S : IsFiniteSet(T) /\ Cardinality(T) \in Nat
  BY FS_Subset, FS_CardinalityType
<1>2. 0 \in G
  BY <1>1, FS_EmptySet, SumEmpty
<1>3. \A n \in Nat : n \in G => n + 1 \in G
  <2> SUFFICES ASSUME NEW n \in Nat, n \in G, NEW T \in SUBSET S,
                      Cardinality(T) = n + 1
               PROVE  SumFunctionOnSet(f, T) = SumFunctionOnSet(g, T)
    OBVIOUS
  <2>1. T # {}
    BY FS_EmptySet
  <2>2. Pick(T) \in S /\ T \ {Pick(T)} \in SUBSET S /\ Cardinality(T \ {Pick(T)}) = n
    BY <1>1, <2>1, PickSmaller
  <2>3. SumFunctionOnSet(f, T \ {Pick(T)}) = SumFunctionOnSet(g, T \ {Pick(T)})
    BY <2>2
  <2>4. f[Pick(T)] = g[Pick(T)]
    BY <2>2
  <2>5. QED
    BY <1>1, <2>1, <2>3, <2>4, SumPick
<1>4. \A n \in Nat : n \in G
  <2> HIDE DEF G
  <2>1. QED
    BY <1>2, <1>3, NatSetInduction
<1>5. QED
  BY <1>1, <1>4

(* A sum of naturals grows with the set and with the function. *)
LEMMA SumMonotone ==
  ASSUME NEW T, IsFiniteSet(T), NEW S \in SUBSET T, NEW f, NEW g,
         \A x \in T : g[x] \in Nat,
         \A x \in S : f[x] \in Nat /\ f[x] <= g[x]
  PROVE  SumFunctionOnSet(f, S) <= SumFunctionOnSet(g, T)
<1> DEFINE G == {n \in Nat : \A U \in SUBSET T : Cardinality(U) = n =>
                   SumFunctionOnSet(f, U \cap S) <= SumFunctionOnSet(g, U)}
<1>1. \A U \in SUBSET T : /\ IsFiniteSet(U) /\ Cardinality(U) \in Nat
                           /\ IsFiniteSet(U \cap S)
                           /\ SumFunctionOnSet(g, U) \in Nat
                           /\ SumFunctionOnSet(f, U \cap S) \in Nat
  BY FS_Subset, FS_CardinalityType, SumNat
<1>2. 0 \in G
  <2>1. ASSUME NEW U \in SUBSET T, Cardinality(U) = 0
        PROVE  SumFunctionOnSet(f, U \cap S) <= SumFunctionOnSet(g, U)
    <3>1. U = {} /\ U \cap S = {}
      BY <1>1, <2>1, FS_EmptySet
    <3>2. QED
      BY <3>1, SumEmpty
  <2>2. QED
    BY <2>1
<1>3. \A n \in Nat : n \in G => n + 1 \in G
  <2> SUFFICES ASSUME NEW n \in Nat, n \in G, NEW U \in SUBSET T,
                      Cardinality(U) = n + 1
               PROVE  SumFunctionOnSet(f, U \cap S) <= SumFunctionOnSet(g, U)
    OBVIOUS
  <2>1. U # {}
    BY FS_EmptySet
  <2>2. PICK p : p = Pick(U)
    OBVIOUS
  <2> DEFINE V == U \ {p}
  <2>3. p \in U /\ V \in SUBSET T /\ Cardinality(V) = n
    <3>1. IsFiniteSet(U)
      BY <1>1
    <3>2. p \in U /\ Cardinality(V) = Cardinality(U) - 1
      BY <2>1, <2>2, <3>1, PickSmaller
    <3>3. QED
      BY <3>2
  <2>4. SumFunctionOnSet(f, V \cap S) <= SumFunctionOnSet(g, V)
    BY <2>3
  <2>5. SumFunctionOnSet(g, U) = g[p] + SumFunctionOnSet(g, V)
    <3>1. IsFiniteSet(U) /\ \A x \in U : g[x] \in Nat
      BY <1>1
    <3>2. QED
      BY <2>3, <3>1, SumRemove
  <2>6. /\ SumFunctionOnSet(f, V \cap S) \in Nat /\ SumFunctionOnSet(g, V) \in Nat
        /\ g[p] \in Nat
    BY <1>1, <2>3
  <2>7. CASE p \in S
    <3>1. (U \cap S) \ {p} = V \cap S /\ p \in U \cap S
      BY <2>3, <2>7
    <3>2. IsFiniteSet(U \cap S) /\ \A x \in U \cap S : f[x] \in Nat
      BY <1>1
    <3>3. SumFunctionOnSet(f, U \cap S) = f[p] + SumFunctionOnSet(f, (U \cap S) \ {p})
      BY <3>1, <3>2, SumRemove
    <3>4. f[p] \in Nat /\ f[p] <= g[p]
      BY <2>7
    <3> HIDE DEF V
    <3>5. QED
      BY <2>4, <2>5, <2>6, <3>1, <3>3, <3>4
  <2>8. CASE p \notin S
    <3>1. U \cap S = V \cap S
      BY <2>8
    <3> HIDE DEF V
    <3>2. QED
      BY <2>4, <2>5, <2>6, <3>1
  <2>9. QED
    BY <2>7, <2>8
<1>4. \A n \in Nat : n \in G
  <2> HIDE DEF G
  <2>1. QED
    BY <1>2, <1>3, NatSetInduction
<1>5. T \cap S = S /\ T \in SUBSET T
  OBVIOUS
<1>6. QED
  BY <1>1, <1>4, <1>5

(* Among naturals with a bound there is a largest one. *)
LEMMA LargestExists ==
  ASSUME NEW bound \in Nat, NEW S \in SUBSET (0 .. bound), S # {}
  PROVE  \E x \in S : \A y \in S : y <= x
<1> DEFINE R == OpToRel(<, Nat)
           Below == {bound - x : x \in S}
<1>1. IsWellFoundedOn(R, Nat)
  BY NatLessThanWellFounded
<1>2. Below \subseteq Nat /\ Below # {}
  <2>1. \A x \in S : x \in Nat /\ x <= bound /\ bound - x \in Nat
    OBVIOUS
  <2>2. Below \subseteq Nat
    BY <2>1
  <2>3. PICK x \in S : TRUE
    OBVIOUS
  <2>4. bound - x \in Below
    OBVIOUS
  <2>5. QED
    BY <2>2, <2>4
<1>3. PICK m \in Below : \A k \in Below : ~(<<k, m>> \in R)
  <2> HIDE DEF R, Below
  <2>1. QED
    BY <1>1, <1>2, WFMin
<1>4. PICK x \in S : m = bound - x
  OBVIOUS
<1>5. ASSUME NEW y \in S
      PROVE  y <= x
  <2>1. ~(bound - y < m)
    BY <1>2, <1>3 DEF OpToRel
  <2>2. QED
    BY <1>4, <2>1
<1>6. QED
  BY <1>5

(* Ten times the terms, ten times the sum. *)
LEMMA SumTenfold ==
  ASSUME NEW S, IsFiniteSet(S), NEW f, NEW g,
         \A x \in S : f[x] \in Nat /\ g[x] = 10 * f[x]
  PROVE  SumFunctionOnSet(g, S) = 10 * SumFunctionOnSet(f, S)
<1> DEFINE G == {n \in Nat : \A T \in SUBSET S : Cardinality(T) = n =>
                   SumFunctionOnSet(g, T) = 10 * SumFunctionOnSet(f, T)}
<1>1. \A T \in SUBSET S : /\ IsFiniteSet(T) /\ Cardinality(T) \in Nat
                           /\ SumFunctionOnSet(f, T) \in Nat
  BY FS_Subset, FS_CardinalityType, SumNat
<1>2. 0 \in G
  BY <1>1, FS_EmptySet, SumEmpty
<1>3. \A n \in Nat : n \in G => n + 1 \in G
  <2> SUFFICES ASSUME NEW n \in Nat, n \in G, NEW T \in SUBSET S,
                      Cardinality(T) = n + 1
               PROVE  SumFunctionOnSet(g, T) = 10 * SumFunctionOnSet(f, T)
    OBVIOUS
  <2>1. T # {}
    <3>1. Cardinality(T) # 0
      OBVIOUS
    <3>2. QED
      BY ONLY <3>1, FS_EmptySet
  <2>2. PICK p : p = Pick(T)
    OBVIOUS
  <2>3. PICK U : U = T \ {p}
    OBVIOUS
  <2>4. p \in S /\ U \in SUBSET S /\ Cardinality(U) = n
    BY <1>1, <2>1, <2>2, <2>3, PickSmaller
  <2>5. SumFunctionOnSet(g, U) = 10 * SumFunctionOnSet(f, U)
    BY <2>4
  <2>6. /\ SumFunctionOnSet(g, T) = g[p] + SumFunctionOnSet(g, U)
        /\ SumFunctionOnSet(f, T) = f[p] + SumFunctionOnSet(f, U)
    BY <1>1, <2>1, <2>2, <2>3, SumPick
  <2>7. f[p] \in Nat /\ SumFunctionOnSet(f, U) \in Nat /\ g[p] = 10 * f[p]
    BY <1>1, <2>4
  <2>8. \A a, b \in Nat : 10 * (a + b) = 10 * a + 10 * b
    OBVIOUS
  <2>9. 10 * (f[p] + SumFunctionOnSet(f, U)) = 10 * f[p] + 10 * SumFunctionOnSet(f, U)
    BY <2>7, <2>8
  <2>10. QED
    BY <2>5, <2>6, <2>7, <2>9
<1>4. \A n \in Nat : n \in G
  <2> HIDE DEF G
  <2>1. QED
    BY <1>2, <1>3, NatSetInduction
<1>5. S \in SUBSET S
  OBVIOUS
<1>6. QED
  BY <1>1, <1>4, <1>5
=============================================================================
