------------------------- MODULE FixedDecimalProofs -------------------------
(***************************************************************************)
(* Parsing accepts exactly the decimals that fit, and printing gives their *)
(* texts back: for texts of any length, integer types of any range and any *)
(* precision.                                                              *)
(***************************************************************************)
EXTENDS FixedDecimal, SumTheorems, SequenceTheorems

-----------------------------------------------------------------------------
(* Definitions by recursion. *)

(* The value for n is made from that for its rest, which has a lower rank  *)
(* or does not matter.                                                     *)
IsRecursion(D, Val, rank, rest, next) ==
  /\ Val # {} /\ rank \in [D -> Nat] /\ rest \in [D -> D] /\ next \in [D -> [Val -> Val]]
  /\ \A n \in D : rank[rest[n]] < rank[n] \/ \A v, w \in Val : next[n][v] = next[n][w]

(* There is a function with these values: approximations of it exist up to *)
(* every rank, and they agree as far as they go.                           *)
LEMMA RecursionIsDefined ==
  ASSUME NEW D, NEW Val, NEW rank, NEW rest, NEW next, IsRecursion(D, Val, rank, rest, next)
  PROVE  \E f \in [D -> Val] : \A n \in D : f[n] = next[n][f[rest[n]]]
<1> USE DEF IsRecursion
<1> DEFINE Upto(h, k) == \A n \in D : rank[n] <= k => h[n] = next[n][h[rest[n]]]
           G == {k \in Nat : \E h \in [D -> Val] : Upto(h, k)}
           H == {k \in Nat : \A g, h \in [D -> Val] : Upto(g, k) /\ Upto(h, k) =>
                   \A n \in D : rank[n] <= k => g[n] = h[n]}
<1>1. ASSUME NEW h \in [D -> Val], NEW n \in D
      PROVE  next[n][h[rest[n]]] \in Val
  <2>1. h[rest[n]] \in Val /\ next[n] \in [Val -> Val]
    OBVIOUS
  <2>2. QED
    BY <2>1
<1>2. ASSUME NEW g \in [D -> Val], NEW h \in [D -> Val], NEW k \in Nat,
             \A n \in D : rank[n] <= k => g[n] = h[n], NEW n \in D, rank[n] <= k + 1
      PROVE  next[n][g[rest[n]]] = next[n][h[rest[n]]]
  <2>1. g[rest[n]] \in Val /\ h[rest[n]] \in Val /\ rest[n] \in D
    OBVIOUS
  <2>2. CASE rank[rest[n]] < rank[n]
    <3>1. rank[rest[n]] \in Nat /\ rank[n] \in Nat
      BY <2>1
    <3>2. rank[rest[n]] <= k
      BY <1>2, <2>2, <3>1
    <3>3. g[rest[n]] = h[rest[n]]
      BY <1>2, <2>1, <3>2
    <3>4. QED
      BY <3>3
  <2>3. CASE \A v, w \in Val : next[n][v] = next[n][w]
    BY <2>1, <2>3
  <2>4. QED
    BY <2>2, <2>3
<1>3. ASSUME NEW g \in [D -> Val], NEW h \in [D -> Val], NEW n \in D, rank[n] <= 0
      PROVE  next[n][g[rest[n]]] = next[n][h[rest[n]]]
  <2>1. g[rest[n]] \in Val /\ h[rest[n]] \in Val /\ rest[n] \in D
    OBVIOUS
  <2>2. rank[rest[n]] \in Nat /\ rank[n] \in Nat
    BY <2>1
  <2>3. ~(rank[rest[n]] < rank[n])
    BY <1>3, <2>2
  <2>4. QED
    BY <2>1, <2>3
<1>4. \A h \in [D -> Val] : [n \in D |-> next[n][h[rest[n]]]] \in [D -> Val]
  BY <1>1
<1>5. 0 \in G
  <2>1. PICK h \in [D -> Val] : TRUE
    <3>1. PICK v \in Val : TRUE
      OBVIOUS
    <3>2. [n \in D |-> v] \in [D -> Val]
      OBVIOUS
    <3>3. QED
      BY <3>2
  <2>2. PICK g : g = [n \in D |-> next[n][h[rest[n]]]]
    OBVIOUS
  <2>3. g \in [D -> Val]
    BY <1>4, <2>2
  <2>4. Upto(g, 0)
    <3>1. \A n \in D : g[n] = next[n][h[rest[n]]]
      BY <2>2
    <3>2. QED
      BY <1>3, <2>3, <3>1
  <2> HIDE DEF Upto
  <2>5. QED
    BY <2>3, <2>4
<1>6. \A k \in Nat : k \in G => k + 1 \in G
  <2> SUFFICES ASSUME NEW k \in Nat, k \in G PROVE k + 1 \in G
    OBVIOUS
  <2>1. PICK h \in [D -> Val] : Upto(h, k)
    OBVIOUS
  <2>2. PICK g : g = [n \in D |-> next[n][h[rest[n]]]]
    OBVIOUS
  <2>3. g \in [D -> Val] /\ \A n \in D : g[n] = next[n][h[rest[n]]]
    BY <1>4, <2>2
  <2>4. \A n \in D : rank[n] <= k => g[n] = h[n]
    BY <2>1, <2>3
  <2>5. \A n \in D : rank[n] <= k + 1 => next[n][g[rest[n]]] = next[n][h[rest[n]]]
    BY <1>2, <2>3, <2>4
  <2>6. Upto(g, k + 1)
    BY <2>3, <2>5
  <2>7. k + 1 \in Nat
    OBVIOUS
  <2> HIDE DEF Upto
  <2>8. QED
    BY <2>3, <2>6, <2>7
<1>7. \A k \in Nat : \E h \in [D -> Val] : Upto(h, k)
  <2>1. \A k \in Nat : k \in G
    <3> HIDE DEF G
    <3>1. QED
      BY <1>5, <1>6, NatSetInduction
  <2>2. QED
    BY <2>1
<1>8. 0 \in H
  <2>1. ASSUME NEW g \in [D -> Val], NEW h \in [D -> Val], Upto(g, 0), Upto(h, 0),
               NEW n \in D, rank[n] <= 0
        PROVE  g[n] = h[n]
    <3>1. next[n][g[rest[n]]] = next[n][h[rest[n]]]
      BY <1>3, <2>1
    <3>2. QED
      BY <2>1, <3>1
  <2> HIDE DEF Upto
  <2>2. QED
    BY <2>1
<1>9. \A k \in Nat : k \in H => k + 1 \in H
  <2> SUFFICES ASSUME NEW k \in Nat, k \in H PROVE k + 1 \in H
    <3> HIDE DEF H
    <3>1. QED
      OBVIOUS
  <2>1. ASSUME NEW g \in [D -> Val], NEW h \in [D -> Val],
               Upto(g, k + 1), Upto(h, k + 1), NEW n \in D, rank[n] <= k + 1
        PROVE  g[n] = h[n]
    <3>1. \A m \in D : rank[m] \in Nat /\ (rank[m] <= k => rank[m] <= k + 1)
      OBVIOUS
    <3>2. Upto(g, k) /\ Upto(h, k)
      BY <2>1, <3>1
    <3>3. \A m \in D : rank[m] <= k => g[m] = h[m]
      <4> HIDE DEF Upto
      <4>1. QED
        BY <2>1, <3>2
    <3>4. next[n][g[rest[n]]] = next[n][h[rest[n]]]
      BY <1>2, <2>1, <3>3
    <3>5. QED
      BY <2>1, <3>4
  <2>2. k + 1 \in Nat
    OBVIOUS
  <2> HIDE DEF Upto
  <2>3. QED
    BY <2>1, <2>2
<1>10. \A k \in Nat : k \in H
  <2> HIDE DEF H
  <2>1. QED
    BY <1>8, <1>9, NatSetInduction
<1> DEFINE Of(k) == CHOOSE h \in [D -> Val] : Upto(h, k)
<1>11. \A k \in Nat : Of(k) \in [D -> Val] /\ Upto(Of(k), k)
  <2> HIDE DEF Upto
  <2>1. QED
    BY <1>7
<1>12. PICK f : f = [n \in D |-> Of(rank[n])[n]]
  OBVIOUS
<1>13. f \in [D -> Val]
  <2>1. \A n \in D : rank[n] \in Nat
    OBVIOUS
  <2> HIDE DEF Of
  <2>2. \A n \in D : Of(rank[n])[n] \in Val
    BY <1>11, <2>1
  <2>3. QED
    BY <1>12, <2>2
<1>14. ASSUME NEW n \in D
       PROVE  f[n] = next[n][f[rest[n]]]
  <2>1. rank[n] \in Nat /\ rest[n] \in D /\ rank[rest[n]] \in Nat
    OBVIOUS
  <2>2. PICK h : h = Of(rank[n])
    OBVIOUS
  <2>3. PICK g : g = Of(rank[rest[n]])
    OBVIOUS
  <2>4. h \in [D -> Val] /\ Upto(h, rank[n]) /\ g \in [D -> Val] /\ Upto(g, rank[rest[n]])
    <3> HIDE DEF Upto, Of
    <3>1. QED
      BY <1>11, <2>1, <2>2, <2>3
  <2>5. f[n] = h[n] /\ f[rest[n]] = g[rest[n]]
    <3> HIDE DEF Of
    <3>1. QED
      BY <1>12, <2>1, <2>2, <2>3
  <2> HIDE DEF Of
  <2>6. h[n] = next[n][h[rest[n]]]
    BY <2>1, <2>4
  <2>7. CASE rank[rest[n]] < rank[n]
    <3>1. \A m \in D : rank[m] \in Nat /\ (rank[m] <= rank[rest[n]] => rank[m] <= rank[n])
      BY <2>1, <2>7
    <3>2. Upto(h, rank[rest[n]])
      BY <2>4, <3>1
    <3>3. PICK k \in Nat : k = rank[rest[n]]
      BY <2>1
    <3>4. k \in H /\ Upto(h, k) /\ Upto(g, k) /\ rank[rest[n]] <= k
      <4> HIDE DEF Upto, H
      <4>1. QED
        BY <1>10, <2>1, <2>4, <3>2, <3>3
    <3>5. h[rest[n]] = g[rest[n]]
      <4> HIDE DEF Upto
      <4>1. QED
        BY <2>1, <2>4, <3>4
    <3>6. QED
      BY <2>5, <2>6, <3>5
  <2>8. CASE \A v, w \in Val : next[n][v] = next[n][w]
    BY <2>1, <2>4, <2>5, <2>6, <2>8
  <2>9. QED
    BY <2>7, <2>8
<1>15. QED
  BY <1>13, <1>14

-----------------------------------------------------------------------------
(* Powers of ten. *)

PowerStep(h, n) == IF n = 0 THEN 1 ELSE Ten * h[n - 1]

LEMMA PowersExist == \E f : f = [n \in Nat |-> PowerStep(f, n)]
<1>1. PICK rank : rank = [n \in Nat |-> n]
  OBVIOUS
<1>2. PICK rest : rest = [n \in Nat |-> IF n = 0 THEN 0 ELSE n - 1]
  OBVIOUS
<1>3. PICK next : next = [n \in Nat |-> [v \in Nat |-> IF n = 0 THEN 1 ELSE 10 * v]]
  OBVIOUS
<1>4. rank \in [Nat -> Nat] /\ rest \in [Nat -> Nat] /\ next \in [Nat -> [Nat -> Nat]]
  BY <1>1, <1>2, <1>3
<1>5. \A n \in Nat : rank[rest[n]] < rank[n] \/ \A v, w \in Nat : next[n][v] = next[n][w]
  BY <1>1, <1>2, <1>3
<1>6. PICK f \in [Nat -> Nat] : \A n \in Nat : f[n] = next[n][f[rest[n]]]
  <2>1. IsRecursion(Nat, Nat, rank, rest, next)
    BY <1>4, <1>5 DEF IsRecursion
  <2>2. PICK D : D = Nat
    OBVIOUS
  <2>3. \E f \in [D -> D] : \A n \in D : f[n] = next[n][f[rest[n]]]
    BY <2>1, <2>2, RecursionIsDefined
  <2>4. QED
    BY <2>2, <2>3
<1>7. \A n \in Nat : f[n] = PowerStep(f, n)
  <2> SUFFICES ASSUME NEW n \in Nat PROVE f[n] = PowerStep(f, n)
    OBVIOUS
  <2>1. rest[n] \in Nat /\ f[rest[n]] \in Nat
    BY <1>4, <1>6
  <2>2. f[n] = IF n = 0 THEN 1 ELSE 10 * f[rest[n]]
    BY <1>3, <1>6, <2>1
  <2>3. QED
    BY <1>2, <2>2 DEF PowerStep, Ten
<1>8. f = [n \in Nat |-> PowerStep(f, n)]
  <2>1. f = [n \in Nat |-> f[n]]
    BY <1>6
  <2>2. QED
    BY <1>7, <2>1
<1>9. QED
  BY <1>8

(* Each power is ten times the one before, so they grow. *)
LEMMA Powers ==
  /\ PowerOfTen[0] = 1
  /\ \A n \in Nat : PowerOfTen[n + 1] = Ten * PowerOfTen[n]
  /\ \A n \in Nat : PowerOfTen[n] \in Nat \ {0}
<1> DEFINE P == PowerOfTen
<1>1. P = CHOOSE f : f = [n \in Nat |-> PowerStep(f, n)]
  BY DEF PowerOfTen, PowerStep
<1>2. P = [n \in Nat |-> PowerStep(P, n)]
  <2> HIDE DEF P
  <2>1. QED
    BY <1>1, PowersExist
<1>3. \A n \in Nat : P[n] = PowerStep(P, n)
  <2> HIDE DEF P
  <2>1. QED
    BY <1>2
<1>4. P[0] = 1
  BY <1>3 DEF PowerStep
<1>5. \A n \in Nat : P[n + 1] = Ten * P[n]
  <2> SUFFICES ASSUME NEW n \in Nat PROVE P[n + 1] = Ten * P[n]
    OBVIOUS
  <2>1. n + 1 \in Nat /\ n + 1 # 0 /\ (n + 1) - 1 = n
    OBVIOUS
  <2> HIDE DEF P
  <2>2. QED
    BY <1>3, <2>1 DEF PowerStep
<1>6. \A n \in Nat : P[n] \in Nat \ {0}
  <2> DEFINE G == {n \in Nat : P[n] \in Nat \ {0}}
  <2> HIDE DEF P
  <2>1. 0 \in G
    BY <1>4
  <2>2. \A n \in Nat : n \in G => n + 1 \in G
    BY <1>5 DEF Ten
  <2>3. \A n \in Nat : n \in G
    <3> HIDE DEF G
    <3>1. QED
      BY <2>1, <2>2, NatSetInduction
  <2>4. QED
    BY <2>3
<1>7. QED
  BY <1>4, <1>5, <1>6

-----------------------------------------------------------------------------
(* Texts, and what one more byte changes. *)

Byte == Digit \cup OtherByte \cup {".", "-"}

LEMMA DigitFacts ==
  /\ "." \notin Digit /\ "-" \notin Digit
  /\ \A c \in Digit : DigitValue[c] \in 0 .. 9
<1>1. /\ DOMAIN Digits = 1 .. 10
      /\ Digit = {"0", "1", "2", "3", "4", "5", "6", "7", "8", "9"}
  BY DEF Digits, Digit, ToSet
<1>2. "." \notin Digit /\ "-" \notin Digit
  BY <1>1
<1>3. ASSUME NEW c \in Digit
      PROVE  DigitValue[c] \in 0 .. 9
  <2>1. \E i \in DOMAIN Digits : Digits[i] = c
    BY DEF Digit, ToSet
  <2>2. PICK i : i = CHOOSE j \in DOMAIN Digits : Digits[j] = c
    OBVIOUS
  <2>3. i \in 1 .. 10
    BY <1>1, <2>1, <2>2
  <2>4. DigitValue[c] = i - 1
    BY <2>2 DEF DigitValue
  <2>5. QED
    BY <2>3, <2>4
<1>4. QED
  BY <1>2, <1>3

(* A text with one more byte behind it, and its digits and points. *)
LEMMA PlacesGrow ==
  ASSUME NEW s \in Seq(Byte), NEW c \in Byte, NEW t, t = Append(s, c),
         NEW last, last = Len(s) + 1
  PROVE  /\ t \in Seq(Byte) /\ Len(t) = last /\ Len(s) \in Nat /\ t # <<>>
         /\ DOMAIN s = 1 .. Len(s) /\ DOMAIN t = DOMAIN s \cup {last}
         /\ last \notin DOMAIN s /\ \A i \in DOMAIN s : i \in Nat /\ i < last
         /\ t[last] = c /\ \A i \in DOMAIN s : t[i] = s[i]
<1>1. /\ t \in Seq(Byte) /\ Len(t) = last /\ Len(s) \in Nat /\ t # <<>>
      /\ DOMAIN s = 1 .. Len(s) /\ DOMAIN t = 1 .. last
      /\ t[last] = c /\ \A i \in 1 .. Len(s) : t[i] = s[i]
  BY AppendProperties, LenProperties
<1>2. /\ DOMAIN t = DOMAIN s \cup {last} /\ last \notin DOMAIN s
      /\ \A i \in DOMAIN s : i \in Nat /\ i < last
  BY <1>1
<1>3. \A i \in DOMAIN s : t[i] = s[i]
  BY <1>1
<1>4. QED
  BY <1>1, <1>2, <1>3

LEMMA DigitPlacesGrow ==
  ASSUME NEW s \in Seq(Byte), NEW c \in Byte
  PROVE  /\ c \in Digit => DigitPlaces(Append(s, c)) = DigitPlaces(s) \cup {Len(s) + 1}
         /\ c \notin Digit => DigitPlaces(Append(s, c)) = DigitPlaces(s)
<1>1. PICK t : t = Append(s, c)
  OBVIOUS
<1>2. PICK last : last = Len(s) + 1
  OBVIOUS
<1>3. /\ DOMAIN t = DOMAIN s \cup {last} /\ last \notin DOMAIN s
      /\ t[last] = c /\ \A i \in DOMAIN s : t[i] = s[i]
  BY <1>1, <1>2, PlacesGrow
<1>4. CASE c \in Digit
  BY <1>1, <1>2, <1>3, <1>4 DEF DigitPlaces
<1>5. CASE c \notin Digit
  BY <1>1, <1>2, <1>3, <1>5 DEF DigitPlaces
<1>6. QED
  BY <1>4, <1>5

LEMMA PointsGrow ==
  ASSUME NEW s \in Seq(Byte), NEW c \in Byte
  PROVE  /\ c = "." => Points(Append(s, c)) = Points(s) \cup {Len(s) + 1}
         /\ c # "." => Points(Append(s, c)) = Points(s)
<1>1. PICK t : t = Append(s, c)
  OBVIOUS
<1>2. PICK last : last = Len(s) + 1
  OBVIOUS
<1>3. /\ DOMAIN t = DOMAIN s \cup {last} /\ last \notin DOMAIN s
      /\ t[last] = c /\ \A i \in DOMAIN s : t[i] = s[i]
  BY <1>1, <1>2, PlacesGrow
<1>4. CASE c = "."
  BY <1>1, <1>2, <1>3, <1>4 DEF Points
<1>5. CASE c # "."
  BY <1>1, <1>2, <1>3, <1>5 DEF Points
<1>6. QED
  BY <1>4, <1>5

LEMMA PlacesFinite ==
  ASSUME NEW s \in Seq(Byte)
  PROVE  /\ IsFiniteSet(DigitPlaces(s)) /\ IsFiniteSet(Points(s))
         /\ \A P \in SUBSET DOMAIN s : IsFiniteSet(P) /\ Cardinality(P) \in Nat
<1>1. IsFiniteSet(DOMAIN s)
  BY LenProperties, FS_Interval
<1>2. \A P \in SUBSET DOMAIN s : IsFiniteSet(P) /\ Cardinality(P) \in Nat
  BY <1>1, FS_Subset, FS_CardinalityType
<1>3. QED
  BY <1>2 DEF DigitPlaces, Points

(* The number is one of naturals, and a digit more shifts it by a place. *)
Weighted(s) ==
  [i \in DigitPlaces(s) |->
     DigitValue[s[i]] * PowerOfTen[Cardinality({j \in DigitPlaces(s) : j > i})]]

LEMMA WeightedNat ==
  ASSUME NEW s \in Seq(Byte)
  PROVE  /\ Magnitude(s) = SumFunctionOnSet(Weighted(s), DigitPlaces(s))
         /\ \A i \in DigitPlaces(s) :
              /\ Weighted(s)[i] \in Nat
              /\ DigitValue[s[i]] \in Nat
              /\ Cardinality({j \in DigitPlaces(s) : j > i}) \in Nat
         /\ Magnitude(s) \in Nat
<1>1. Magnitude(s) = SumFunctionOnSet(Weighted(s), DigitPlaces(s))
  BY DEF Magnitude, Weighted
<1>2. ASSUME NEW i \in DigitPlaces(s)
      PROVE  /\ Weighted(s)[i] \in Nat
             /\ DigitValue[s[i]] \in Nat
             /\ Cardinality({j \in DigitPlaces(s) : j > i}) \in Nat
  <2>1. DigitValue[s[i]] \in 0 .. 9
    BY DigitFacts DEF DigitPlaces
  <2>2. PICK n : n = Cardinality({j \in DigitPlaces(s) : j > i})
    OBVIOUS
  <2>3. n \in Nat
    <3>1. {j \in DigitPlaces(s) : j > i} \in SUBSET DOMAIN s
      BY DEF DigitPlaces
    <3>2. QED
      BY <2>2, <3>1, PlacesFinite
  <2>4. PowerOfTen[n] \in Nat
    BY <2>3, Powers
  <2>5. Weighted(s)[i] = DigitValue[s[i]] * PowerOfTen[n]
    BY <2>2 DEF Weighted
  <2>6. \A a, b \in Nat : a * b \in Nat
    OBVIOUS
  <2>7. QED
    BY <2>1, <2>2, <2>3, <2>4, <2>5, <2>6
<1>3. Magnitude(s) \in Nat
  BY <1>1, <1>2, PlacesFinite, SumNat
<1>4. QED
  BY <1>1, <1>2, <1>3

LEMMA MagnitudeGrows ==
  ASSUME NEW s \in Seq(Byte), NEW c \in Byte, NEW t, t = Append(s, c)
  PROVE  Magnitude(t) = IF c \in Digit THEN Ten * Magnitude(s) + DigitValue[c] ELSE Magnitude(s)
<1>1. PICK last : last = Len(s) + 1
  OBVIOUS
<1>2. /\ t \in Seq(Byte) /\ last \notin DOMAIN s /\ t[last] = c
      /\ \A i \in DOMAIN s : i \in Nat /\ i < last /\ t[i] = s[i]
      /\ c \in Digit => DigitPlaces(t) = DigitPlaces(s) \cup {last}
      /\ c \notin Digit => DigitPlaces(t) = DigitPlaces(s)
      /\ last \in Nat
  <2>1. Len(s) \in Nat
    BY LenProperties
  <2>2. last \in Nat
    BY <1>1, <2>1
  <2>3. t \in Seq(Byte) /\ last \notin DOMAIN s /\ t[last] = c
    BY <1>1, PlacesGrow
  <2>4. \A i \in DOMAIN s : i \in Nat /\ i < last /\ t[i] = s[i]
    BY <1>1, AppendProperties, LenProperties
  <2>5. /\ c \in Digit => DigitPlaces(t) = DigitPlaces(s) \cup {last}
        /\ c \notin Digit => DigitPlaces(t) = DigitPlaces(s)
    BY <1>1, DigitPlacesGrow
  <2>6. QED
    BY <2>2, <2>3, <2>4, <2>5
<1>3. PICK P : P = DigitPlaces(s)
  OBVIOUS
<1>4. P \in SUBSET DOMAIN s /\ IsFiniteSet(P)
  BY <1>3, PlacesFinite DEF DigitPlaces
<1>5. PICK f : f = Weighted(s)
  OBVIOUS
<1>6. PICK g : g = Weighted(t)
  OBVIOUS
<1>7. CASE c \notin Digit
  <2>1. DigitPlaces(t) = P
    BY <1>2, <1>3, <1>7
  <2>2. \A i \in P : f[i] = g[i]
    BY <1>2, <1>3, <1>4, <1>5, <1>6, <2>1 DEF Weighted
  <2>3. SumFunctionOnSet(f, P) = SumFunctionOnSet(g, P)
    BY <1>4, <2>2, SumCongruence
  <2>4. QED
    BY <1>2, <1>3, <1>5, <1>6, <1>7, <2>1, <2>3, WeightedNat
<1>8. CASE c \in Digit
  <2>1. PICK Q : Q = P \cup {last}
    OBVIOUS
  <2>2. DigitPlaces(t) = Q /\ last \in Q /\ last \notin P /\ Q \ {last} = P
    BY <1>2, <1>3, <1>4, <1>8, <2>1
  <2>3. /\ Magnitude(t) = SumFunctionOnSet(g, Q)
        /\ IsFiniteSet(Q) /\ \A i \in Q : g[i] \in Nat
    BY <1>2, <1>6, <2>2, WeightedNat, PlacesFinite
  <2>4. SumFunctionOnSet(g, Q) = g[last] + SumFunctionOnSet(g, P)
    BY <2>2, <2>3, SumRemove
  <2>5. g[last] = DigitValue[c]
    <3>1. {j \in Q : j > last} = {}
      BY <1>2, <1>4, <2>1
    <3>2. g[last] = DigitValue[c] * PowerOfTen[0]
      BY <1>2, <1>6, <2>2, <3>1, FS_EmptySet DEF Weighted
    <3>3. DigitValue[c] \in 0 .. 9
      BY <1>8, DigitFacts
    <3>4. PICK d \in 0 .. 9 : d = DigitValue[c]
      BY <3>3
    <3>5. g[last] = d * 1
      BY <3>2, <3>4, Powers
    <3>6. QED
      BY <3>4, <3>5
  <2>6. ASSUME NEW i \in P
        PROVE  f[i] \in Nat /\ g[i] = Ten * f[i]
    <3>1. PICK later : later = {j \in P : j > i}
      OBVIOUS
    <3>2. PICK n : n = Cardinality(later)
      OBVIOUS
    <3>3. {j \in Q : j > i} = later \cup {last} /\ last \notin later
      BY <1>2, <1>4, <2>1, <3>1
    <3>4. n \in Nat /\ Cardinality(later \cup {last}) = n + 1
      <4>1. later \in SUBSET DOMAIN s
        BY <1>4, <3>1
      <4>2. IsFiniteSet(later) /\ Cardinality(later) \in Nat
        BY <4>1, PlacesFinite
      <4>3. QED
        BY <3>2, <3>3, <4>2, FS_AddElement
    <3>5. PICK d : d = DigitValue[s[i]]
      OBVIOUS
    <3>6. d \in Nat /\ f[i] \in Nat
      BY <1>3, <1>5, <3>5, WeightedNat
    <3>7. f[i] = d * PowerOfTen[n]
      BY <1>3, <1>5, <3>1, <3>2, <3>5 DEF Weighted
    <3>8. g[i] = d * PowerOfTen[n + 1]
      BY <1>2, <1>4, <1>6, <2>1, <2>2, <3>3, <3>4, <3>5 DEF Weighted
    <3>9. PICK p \in Nat : p = PowerOfTen[n] /\ PowerOfTen[n + 1] = 10 * p
      BY <3>4, Powers DEF Ten
    <3>10. d * (10 * p) = 10 * (d * p)
      BY <3>6
    <3>11. QED
      BY <3>6, <3>7, <3>8, <3>9, <3>10 DEF Ten
  <2>7. SumFunctionOnSet(g, P) = Ten * SumFunctionOnSet(f, P)
    BY <1>4, <2>6, SumTenfold DEF Ten
  <2>8. Magnitude(s) = SumFunctionOnSet(f, P) /\ Magnitude(s) \in Nat
    BY <1>3, <1>5, WeightedNat
  <2>9. DigitValue[c] \in 0 .. 9
    BY <1>8, DigitFacts
  <2>10. QED
    BY <1>8, <2>3, <2>4, <2>5, <2>7, <2>8, <2>9 DEF Ten
<1>9. QED
  BY <1>7, <1>8

-----------------------------------------------------------------------------
(* What a text says, byte by byte. *)

HasSign(s) == Signed /\ s # <<>> /\ s[1] = "-"

Legal(s) == \A i \in DOMAIN s : s[i] \in Digit \cup {"."} \/ (i = 1 /\ HasSign(s))

LEMMA SignFacts ==
  ASSUME NEW s \in Seq(Byte)
  PROVE  /\ Unsigned(s) = s <=> ~HasSign(s)
         /\ ToSet(Unsigned(s)) \subseteq Digit \cup {"."} <=> Legal(s)
<1>1. Len(s) \in Nat /\ DOMAIN s = 1 .. Len(s) /\ (Len(s) > 0 <=> s # <<>>)
  BY LenProperties, EmptySeq
<1>2. CASE ~HasSign(s)
  <2>1. Unsigned(s) = s
    BY <1>1, <1>2 DEF HasSign, Unsigned
  <2>2. QED
    BY <1>2, <2>1 DEF Legal, ToSet
<1>3. CASE HasSign(s)
  <2>1. PICK u : u = Tail(s)
    OBVIOUS
  <2>2. Unsigned(s) = u /\ s # <<>>
    BY <1>1, <1>3, <2>1 DEF HasSign, Unsigned
  <2>3. /\ u \in Seq(Byte) /\ Len(u) = Len(s) - 1
        /\ \A i \in 1 .. Len(u) : u[i] = s[i + 1]
    BY <2>1, <2>2, HeadTailProperties
  <2>4. u # s
    BY <1>1, <2>3
  <2>5. DOMAIN u = 1 .. Len(s) - 1
    BY <2>3, LenProperties
  <2>6. ASSUME ToSet(u) \subseteq Digit \cup {"."}, NEW i \in DOMAIN s, i # 1
        PROVE  s[i] \in Digit \cup {"."}
    <3>1. i - 1 \in 1 .. Len(s) - 1 /\ (i - 1) + 1 = i
      BY <1>1, <2>6
    <3>2. u[i - 1] = s[i]
      BY <2>3, <3>1
    <3>3. u[i - 1] \in ToSet(u)
      BY <2>5, <3>1 DEF ToSet
    <3>4. QED
      BY <2>6, <3>2, <3>3
  <2>7. ASSUME Legal(s), NEW i \in DOMAIN u
        PROVE  u[i] \in Digit \cup {"."}
    <3>1. i + 1 \in DOMAIN s /\ i + 1 # 1
      BY <1>1, <2>5
    <3>2. u[i] = s[i + 1]
      BY <2>3, <2>5
    <3>3. QED
      BY <2>7, <3>1, <3>2 DEF Legal
  <2>8. ToSet(u) \subseteq Digit \cup {"."} => Legal(s)
    BY <1>3, <2>6 DEF Legal
  <2>9. Legal(s) => ToSet(u) \subseteq Digit \cup {"."}
    BY <2>7 DEF ToSet
  <2>10. QED
    BY <1>3, <2>2, <2>4, <2>8, <2>9
<1>4. QED
  BY <1>2, <1>3

LEMMA SignStays ==
  ASSUME NEW s \in Seq(Byte), NEW c \in Byte
  PROVE  /\ s # <<>> => (HasSign(Append(s, c)) <=> HasSign(s))
         /\ s = <<>> => (HasSign(Append(s, c)) <=> Signed /\ c = "-")
         /\ Legal(Append(s, c)) <=>
              Legal(s) /\ (c \in Digit \cup {"."} \/ (s = <<>> /\ Signed /\ c = "-"))
<1>1. PICK t : t = Append(s, c)
  OBVIOUS
<1>2. PICK last : last = Len(s) + 1
  OBVIOUS
<1>3. /\ DOMAIN t = DOMAIN s \cup {last} /\ last \notin DOMAIN s /\ t # <<>>
      /\ t[last] = c /\ \A i \in DOMAIN s : t[i] = s[i]
  BY <1>1, <1>2, PlacesGrow
<1>4. CASE s = <<>>
  <2>1. last = 1 /\ DOMAIN s = {}
    BY <1>2, <1>4
  <2>2. HasSign(t) <=> Signed /\ c = "-"
    BY <1>3, <2>1 DEF HasSign
  <2>3. Legal(t) <=> c \in Digit \cup {"."} \/ HasSign(t)
    BY <1>3, <2>1 DEF Legal
  <2>4. Legal(s)
    BY <2>1 DEF Legal
  <2>5. QED
    BY <1>1, <1>4, <2>2, <2>3, <2>4
<1>5. CASE s # <<>>
  <2>1. 1 \in DOMAIN s
    BY <1>5, EmptySeq, LenProperties
  <2>2. HasSign(t) <=> HasSign(s)
    BY <1>3, <1>5, <2>1 DEF HasSign
  <2>3. last # 1
    BY <1>3, <2>1
  <2>4. Legal(t) <=> Legal(s) /\ c \in Digit \cup {"."}
    BY <1>3, <2>2, <2>3 DEF Legal
  <2>5. QED
    BY <1>1, <1>5, <2>2, <2>4
<1>6. QED
  BY <1>4, <1>5

(* With one point at most, the decimals are the bytes behind it. *)
LEMMA PointFacts ==
  ASSUME NEW s \in Seq(Byte), Cardinality(Points(s)) <= 1
  PROVE  /\ Decimals(s) \in Nat
         /\ Points(s) # {} => \E p \in DOMAIN s : Points(s) = {p} /\ Decimals(s) = Len(s) - p
<1>1. CASE Points(s) = {}
  BY <1>1 DEF Decimals
<1>2. CASE Points(s) # {}
  <2>1. PICK p \in Points(s) : TRUE
    BY <1>2
  <2>2. IsFiniteSet(Points(s)) /\ Cardinality(Points(s)) \in Nat
    BY PlacesFinite DEF Points
  <2>3. IsFiniteSet(Points(s) \ {p}) /\ Cardinality(Points(s) \ {p}) = Cardinality(Points(s)) - 1
    BY <2>1, <2>2, FS_RemoveElement
  <2>4. Points(s) \ {p} = {}
    <3>1. Cardinality(Points(s) \ {p}) \in Nat
      BY <2>3, FS_CardinalityType
    <3>2. Cardinality(Points(s) \ {p}) = 0
      BY <2>2, <2>3, <3>1
    <3>3. QED
      BY <2>3, <3>2, FS_EmptySet
  <2>5. Points(s) = {p}
    BY <2>1, <2>4
  <2>6. p \in DOMAIN s /\ p \in 1 .. Len(s) /\ Len(s) \in Nat
    BY <2>1, LenProperties DEF Points
  <2>7. Min({p}) = p
    BY <2>6 DEF Min
  <2>8. Decimals(s) = Len(s) - p
    BY <2>5, <2>7 DEF Decimals
  <2>9. QED
    BY <2>5, <2>6, <2>8
<1>3. QED
  BY <1>1, <1>2

LEMMA DecimalsGrow ==
  ASSUME NEW s \in Seq(Byte), NEW c \in Byte, Cardinality(Points(s)) <= 1
  PROVE  /\ Points(s) = {} =>
              /\ Cardinality(Points(Append(s, c))) <= 1 /\ Decimals(Append(s, c)) = 0
              /\ Points(Append(s, c)) = {} <=> c # "."
         /\ Points(s) # {} /\ c # "." =>
              /\ Cardinality(Points(Append(s, c))) <= 1
              /\ Decimals(Append(s, c)) = Decimals(s) + 1
              /\ Points(Append(s, c)) # {}
         /\ Points(s) # {} /\ c = "." => ~(Cardinality(Points(Append(s, c))) <= 1)
<1>1. PICK t : t = Append(s, c)
  OBVIOUS
<1>2. PICK last : last = Len(s) + 1
  OBVIOUS
<1>3. /\ t \in Seq(Byte) /\ Len(t) = last /\ last \notin DOMAIN s
      /\ \A i \in DOMAIN s : i \in Nat /\ i < last
  BY <1>1, <1>2, PlacesGrow
<1>4. Len(s) \in Nat
  BY LenProperties
<1>5. /\ c = "." => Points(t) = Points(s) \cup {last}
      /\ c # "." => Points(t) = Points(s)
  BY <1>1, <1>2, PointsGrow
<1>6. Cardinality({}) = 0 /\ \A p : Cardinality({p}) = 1
  BY FS_EmptySet, FS_Singleton
<1>7. CASE Points(s) = {} /\ c # "."
  BY <1>1, <1>5, <1>6, <1>7 DEF Decimals
<1>8. CASE Points(s) = {} /\ c = "."
  <2>1. Points(t) = {last}
    BY <1>5, <1>8
  <2>2. Cardinality(Points(t)) <= 1
    <3>1. Cardinality(Points(t)) = 1
      BY <1>6, <2>1, Zenon
    <3>2. QED
      BY <3>1
  <2>3. \E p \in DOMAIN t : Points(t) = {p} /\ Decimals(t) = Len(t) - p
    BY <1>3, <2>1, <2>2, PointFacts
  <2>4. Decimals(t) = last - last
    BY <1>3, <2>1, <2>3
  <2>5. Decimals(t) = 0
    BY <1>2, <1>4, <2>4
  <2>6. QED
    BY <1>1, <1>8, <2>1, <2>2, <2>5
<1>9. CASE Points(s) # {} /\ c # "."
  <2>1. PICK p \in DOMAIN s : Points(s) = {p} /\ Decimals(s) = Len(s) - p
    BY <1>9, PointFacts
  <2>2. Points(t) = {p} /\ Cardinality(Points(t)) <= 1
    BY <1>5, <1>6, <1>9, <2>1
  <2>3. \E q \in DOMAIN t : Points(t) = {q} /\ Decimals(t) = Len(t) - q
    BY <1>3, <2>2, PointFacts
  <2>4. Decimals(t) = Len(t) - p
    BY <2>2, <2>3
  <2>5. p \in Nat
    BY <1>3
  <2>6. Decimals(t) = Decimals(s) + 1
    BY <1>2, <1>3, <1>4, <2>1, <2>4, <2>5
  <2>7. QED
    BY <1>1, <1>9, <2>2, <2>6
<1>10. CASE Points(s) # {} /\ c = "."
  <2>1. PICK p \in DOMAIN s : Points(s) = {p}
    BY <1>10, PointFacts
  <2>2. Points(t) = {p, last} /\ p # last
    BY <1>3, <1>5, <1>10, <2>1
  <2>3. PICK P : P = {p}
    OBVIOUS
  <2>4. IsFiniteSet(P) /\ Cardinality(P) = 1 /\ last \notin P
    BY <2>2, <2>3, FS_Singleton
  <2>5. Cardinality(P \cup {last}) = 2
    <3>1. Cardinality(P \cup {last}) = Cardinality(P) + 1
      BY <2>4, FS_AddElement, Zenon
    <3>2. QED
      BY <2>4, <3>1
  <2>6. Points(t) = P \cup {last}
    BY <2>2, <2>3
  <2>7. Cardinality(Points(t)) = 2
    BY <2>5, <2>6
  <2>8. QED
    BY <1>1, <1>10, <2>7
<1>11. QED
  BY <1>7, <1>8, <1>9, <1>10

(* What one more byte makes of a text that can be continued. *)
LEMMA BeginsGrows ==
  ASSUME NEW s \in Seq(Byte), NEW c \in Byte, BeginsDecimal(s), format.precision \in Nat
  PROVE  BeginsDecimal(Append(s, c)) <=>
           /\ c \in Digit \cup {"."} \/ (s = <<>> /\ Signed /\ c = "-")
           /\ Points(s) # {} => c # "." /\ Decimals(s) # format.precision
<1>1. PICK t : t = Append(s, c)
  OBVIOUS
<1>2. PICK precision : precision = format.precision
  OBVIOUS
<1>3. t \in Seq(Byte)
  BY <1>1, AppendProperties
<1>4. Legal(s) /\ Cardinality(Points(s)) <= 1 /\ Decimals(s) <= precision
  BY <1>2, SignFacts DEF BeginsDecimal
<1>5. Decimals(s) \in Nat /\ precision \in Nat
  BY <1>2, <1>4, PointFacts
<1>6. BeginsDecimal(t) <=>
        Legal(t) /\ Cardinality(Points(t)) <= 1 /\ Decimals(t) <= precision
  BY <1>2, <1>3, SignFacts DEF BeginsDecimal
<1>7. Legal(t) <=> c \in Digit \cup {"."} \/ (s = <<>> /\ Signed /\ c = "-")
  BY <1>1, <1>4, SignStays
<1>8. CASE Points(s) = {}
  <2>1. Cardinality(Points(t)) <= 1 /\ Decimals(t) = 0
    BY <1>1, <1>4, <1>8, DecimalsGrow
  <2>2. Decimals(t) <= precision
    BY <1>5, <2>1
  <2>3. QED
    BY <1>1, <1>2, <1>6, <1>7, <1>8, <2>1, <2>2
<1>9. CASE Points(s) # {} /\ c = "."
  <2>1. ~(Cardinality(Points(t)) <= 1)
    BY <1>1, <1>4, <1>9, DecimalsGrow
  <2>2. QED
    BY <1>1, <1>6, <1>9, <2>1
<1>10. CASE Points(s) # {} /\ c # "."
  <2>1. Cardinality(Points(t)) <= 1 /\ Decimals(t) = Decimals(s) + 1
    BY <1>1, <1>4, <1>10, DecimalsGrow
  <2>2. Decimals(t) <= precision <=> Decimals(s) # precision
    BY <1>4, <1>5, <2>1
  <2>3. QED
    BY <1>1, <1>2, <1>6, <1>7, <1>10, <2>1, <2>2
<1>11. QED
  BY <1>8, <1>9, <1>10

-----------------------------------------------------------------------------
(* Products with powers of ten. *)

LEMMA Products ==
  /\ \A a, b \in Nat : a * b \in Nat
  /\ \A a \in Nat, p \in Nat \ {0} : a <= a * p
  /\ \A a, p \in Nat : a * (10 * p) = 10 * (a * p)
<1>1. \A a, b \in Nat : a * b \in Nat
  OBVIOUS
<1>2. ASSUME NEW a \in Nat, NEW p \in Nat \ {0}
      PROVE  a <= a * p
  <2>1. PICK q \in Nat : p = 1 + q
    <3>1. p - 1 \in Nat /\ p = 1 + (p - 1)
      OBVIOUS
    <3>2. QED
      BY <3>1
  <2>2. a * q \in Nat /\ a * (1 + q) = a + a * q
    BY <1>1
  <2>3. QED
    BY <2>1, <2>2
<1>3. \A a, p \in Nat : a * (10 * p) = 10 * (a * p)
  OBVIOUS
<1>4. QED
  BY <1>1, <1>2, <1>3

(* The later the power, the larger the product. *)
LEMMA PowersGrow ==
  ASSUME NEW a \in Nat, NEW m \in Nat
  PROVE  \A k \in Nat : a * PowerOfTen[m] <= a * PowerOfTen[m + k]
<1> DEFINE G == {k \in Nat : a * PowerOfTen[m] <= a * PowerOfTen[m + k]}
<1>1. \A n \in Nat : PowerOfTen[n] \in Nat /\ a * PowerOfTen[n] \in Nat
  BY Powers, Products
<1>2. 0 \in G
  <2>1. m + 0 = m
    OBVIOUS
  <2>2. a * PowerOfTen[m] <= a * PowerOfTen[m]
    BY <1>1
  <2>3. QED
    BY <2>1, <2>2
<1>3. \A k \in Nat : k \in G => k + 1 \in G
  <2> SUFFICES ASSUME NEW k \in Nat, a * PowerOfTen[m] <= a * PowerOfTen[m + k]
               PROVE  a * PowerOfTen[m] <= a * PowerOfTen[m + (k + 1)]
    OBVIOUS
  <2>1. m + k \in Nat /\ m + (k + 1) = (m + k) + 1
    OBVIOUS
  <2>2. PICK p \in Nat : p = PowerOfTen[m + k] /\ PowerOfTen[m + (k + 1)] = 10 * p
    BY <1>1, <2>1, Powers DEF Ten
  <2>3. a * (10 * p) = 10 * (a * p) /\ a * p \in Nat
    BY <2>2, Products
  <2>4. PICK low \in Nat : low = a * PowerOfTen[m]
    BY <1>1
  <2>5. PICK high \in Nat : high = a * p
    BY <2>3
  <2>6. low <= high => low <= 10 * high
    OBVIOUS
  <2>7. QED
    BY <2>2, <2>3, <2>4, <2>5, <2>6
<1>4. \A k \in Nat : k \in G
  <2> HIDE DEF G
  <2>1. QED
    BY <1>2, <1>3, NatSetInduction
<1>5. QED
  BY <1>4

-----------------------------------------------------------------------------
(* The parser. *)

SignOf(s) == IF HasSign(s) THEN -1 ELSE 1

LEMMA SameFormat ==
  ASSUME format' = format, NEW t, t = text'
  PROVE  /\ Numbers' = Numbers /\ (Signed' <=> Signed)
         /\ BeginsDecimal(text)' <=> BeginsDecimal(t)
         /\ IsDecimal(text)' <=> IsDecimal(t)
         /\ SignOf(text)' = SignOf(t)
         /\ Scaled(text)' = Scaled(t)
         /\ Magnitude(text)' = Magnitude(t) /\ Decimals(text)' = Decimals(t)
         /\ Points(text)' = Points(t) /\ DigitPlaces(text)' = DigitPlaces(t)
<1>1. Numbers' = Numbers /\ (Signed' <=> Signed)
  BY DEF Numbers, Signed, Checked
<1>2. /\ Magnitude(text)' = Magnitude(t) /\ Decimals(text)' = Decimals(t)
      /\ Points(text)' = Points(t) /\ DigitPlaces(text)' = DigitPlaces(t)
  OBVIOUS
<1>3. Unsigned(text)' = Unsigned(t)
  BY <1>1 DEF Unsigned
<1>4. BeginsDecimal(text)' <=> BeginsDecimal(t)
  BY <1>2, <1>3 DEF BeginsDecimal
<1>5. IsDecimal(text)' <=> IsDecimal(t)
  BY <1>4 DEF IsDecimal
<1>6. SignOf(text)' = SignOf(t)
  BY <1>1 DEF SignOf, HasSign
<1>7. Scaled(text)' = Scaled(t)
  BY <1>2, <1>3 DEF Scaled
<1>8. QED
  BY <1>1, <1>2, <1>4, <1>5, <1>6, <1>7

LEMMA FormatFacts ==
  ASSUME TypeOK
  PROVE  /\ format.min \in Int /\ format.min <= 0 /\ format.max \in Int /\ format.max >= 255
         /\ format.precision \in Nat
         /\ sign \in {-1, 1} /\ (sign = -1 => Signed)
<1>1. format \in Formats /\ sign \in Numbers \cap {-1, 1}
  BY DEF TypeOK
<1>2. sign = -1 => Signed
  BY <1>1 DEF Signed, Checked
<1>3. QED
  BY <1>1, <1>2, FormatsAssumption

(* What lies outside of the type stays outside when it grows. *)
LEMMA Outside ==
  ASSUME TypeOK, NEW m \in Nat, NEW n \in Nat, m <= n, sign * n \in Numbers
  PROVE  sign * m \in Numbers
<1>1. PICK low \in Int : low = format.min
  BY FormatFacts
<1>2. PICK high \in Int : high = format.max
  BY FormatFacts
<1>3. low <= 0 /\ 0 <= high /\ Numbers = low .. high
  BY <1>1, <1>2, FormatFacts DEF Numbers
<1>4. CASE sign = 1
  <2>1. 1 * n = n /\ 1 * m = m
    OBVIOUS
  <2>2. QED
    BY <1>3, <1>4, <2>1
<1>5. CASE sign = -1
  <2>1. -1 * n = -n /\ -1 * m = -m
    OBVIOUS
  <2>2. QED
    BY <1>3, <1>5, <2>1
<1>6. QED
  BY <1>4, <1>5, FormatFacts

(* A digit more is read if and only if the number with it fits: no step on *)
(* the way to it overflows before it does.                                 *)
LEMMA AppendDigitFacts ==
  ASSUME TypeOK, NEW m \in Nat, fractions = sign * m, NEW d \in 0 .. 9,
         NEW n, n = 10 * m + d
  PROVE  /\ n \in Nat
         /\ sign * n \in Numbers => AppendDigit(d) = {sign * n}
         /\ sign * n \notin Numbers => AppendDigit(d) = {}
<1>1. n \in Nat /\ 10 * m \in Nat /\ d \in Nat /\ 10 * m <= n /\ d <= n
  OBVIOUS
<1>2. fractions * Ten = sign * (10 * m) /\ sign * (10 * m) + sign * d = sign * n
  <2>1. CASE sign = 1
    BY <1>1, <2>1 DEF Ten
  <2>2. CASE sign = -1
    BY <1>1, <2>2 DEF Ten
  <2>3. QED
    BY <2>1, <2>2, FormatFacts
<1>3. PICK x : x = sign * (10 * m)
  OBVIOUS
<1>4. PICK y : y = sign * d
  OBVIOUS
<1>5. PICK z : z = sign * n
  OBVIOUS
<1>6. AppendDigit(d) = UNION {Checked(shifted + signed) : signed \in Checked(y), shifted \in Checked(x)}
  BY <1>2, <1>3, <1>4 DEF AppendDigit
<1>7. x + y = z
  BY <1>2, <1>3, <1>4, <1>5
<1>8. CASE z \in Numbers
  <2>1. x \in Numbers /\ y \in Numbers
    BY <1>1, <1>3, <1>4, <1>5, <1>8, Outside
  <2>2. Checked(x) = {x} /\ Checked(y) = {y} /\ Checked(z) = {z}
    BY <1>8, <2>1 DEF Checked
  <2>3. AppendDigit(d) = {z}
    BY <1>6, <1>7, <2>2
  <2>4. QED
    BY <1>1, <1>5, <1>8, <2>3
<1>9. CASE z \notin Numbers
  <2>1. Checked(z) = {} /\ Checked(x) \subseteq {x} /\ Checked(y) \subseteq {y}
    BY <1>9 DEF Checked
  <2>2. AppendDigit(d) = {}
    BY <1>6, <1>7, <2>1
  <2>3. QED
    BY <1>1, <1>5, <1>9, <2>2
<1>10. QED
  BY <1>8, <1>9

(* The value of a text is its digits, times a power of ten that is at      *)
(* least 1, with its sign.                                                 *)
LEMMA ScaledFacts ==
  ASSUME NEW s \in Seq(Byte), BeginsDecimal(s), format.precision \in Nat
  PROVE  /\ Decimals(s) \in Nat /\ format.precision - Decimals(s) \in Nat
         /\ Scaled(s) = SignOf(s) * (Magnitude(s) * PowerOfTen[format.precision - Decimals(s)])
<1>1. Cardinality(Points(s)) <= 1 /\ Decimals(s) <= format.precision
  BY DEF BeginsDecimal
<1>2. Decimals(s) \in Nat
  BY <1>1, PointFacts
<1>3. SignOf(s) = IF Unsigned(s) = s THEN 1 ELSE -1
  BY SignFacts DEF SignOf
<1>4. QED
  BY <1>1, <1>2, <1>3 DEF Scaled

-----------------------------------------------------------------------------
(* The invariant. *)

(* While the text is read, the variables are what it says so far. *)
WhileReading ==
  /\ BeginsDecimal(text)
  /\ hasDigit <=> DigitPlaces(text) # {}
  /\ decimalDigits = IF Points(text) = {} THEN {} ELSE {Decimals(text)}
  /\ fractions = sign * Magnitude(text)

(* Afterwards the number is shifted up to its last place. *)
WhileShifting ==
  /\ BeginsDecimal(text) /\ DigitPlaces(text) # {}
  /\ \E dd \in Decimals(text) .. format.precision :
       /\ decimalDigits = {dd}
       /\ fractions = sign * (Magnitude(text) * PowerOfTen[dd - Decimals(text)])

ReadsText ==
  /\ text \in Seq(Byte)
  /\ status \in {"Reading", "Shifting"} => sign = SignOf(text)
  /\ status = "Reading" => WhileReading
  /\ status = "Shifting" => WhileShifting

ParserInv == TypeOK /\ ReadsText /\ AcceptsExactly /\ RefusesOnlyUnfit

LEMMA ConsumeFacts ==
  ASSUME ParserInv, NEW c \in Byte, Consume(c)
  PROVE  /\ status = "Reading" /\ WhileReading /\ sign = SignOf(text)
         /\ text' = Append(text, c) /\ text' \in Seq(Byte) /\ text \in Seq(Byte)
         /\ text' # <<>>
         /\ format' = format /\ format' \in Formats /\ Numbers' = Numbers
         /\ Cardinality(Points(text)) <= 1
         /\ Magnitude(text) \in Nat /\ Magnitude(text') \in Nat
<1>1. /\ status = "Reading" /\ WhileReading /\ sign = SignOf(text)
      /\ text \in Seq(Byte) /\ text' = Append(text, c) /\ format' = format
      /\ format \in Formats
  BY DEF ParserInv, ReadsText, Consume, TypeOK
<1>2. PICK s : s = text
  OBVIOUS
<1>3. PICK t : t = text'
  OBVIOUS
<1>4. t \in Seq(Byte) /\ t # <<>>
  BY <1>1, <1>2, <1>3, PlacesGrow
<1>5. Magnitude(s) \in Nat /\ Magnitude(t) \in Nat
  BY <1>1, <1>2, <1>4, WeightedNat
<1>6. Numbers' = Numbers
  BY <1>1, <1>3, SameFormat
<1>7. Cardinality(Points(text)) <= 1
  BY <1>1 DEF WhileReading, BeginsDecimal
<1>8. QED
  BY <1>1, <1>2, <1>3, <1>4, <1>5, <1>6, <1>7

(* A byte that the parser takes leaves a text that can be continued, and   *)
(* one at which it stops does not.                                         *)
LEMMA RefusalKeeps ==
  ASSUME ParserInv, NEW c \in Byte, Consume(c), NEW error \in {"InvalidChar", "TooMuchFractionalDigits"},
         Refuse(error), NEW t, t = text', ~BeginsDecimal(t)
  PROVE  ParserInv'
<1>1. text' \in Seq(Byte) /\ format' = format /\ format \in Formats /\ Numbers' = Numbers
  BY ConsumeFacts
<1>2. /\ status' = error /\ sign' = sign /\ fractions' = fractions
      /\ hasDigit' = hasDigit /\ decimalDigits' = decimalDigits
  BY DEF Refuse
<1>3. TypeOK'
  BY <1>1, <1>2 DEF TypeOK, ParserInv, Refusal
<1>4. ~BeginsDecimal(text)'
  BY <1>1, SameFormat
<1>5. ReadsText' /\ AcceptsExactly' /\ RefusesOnlyUnfit'
  BY <1>1, <1>2, <1>4 DEF ReadsText, AcceptsExactly, RefusesOnlyUnfit
<1>6. QED
  BY <1>3, <1>5 DEF ParserInv

LEMMA ReadMinusKeeps ==
  ASSUME ParserInv, ReadMinus
  PROVE  ParserInv'
<1>1. "-" \in Byte /\ "-" \notin Digit \cup {"."}
  BY DigitFacts DEF Byte
<1>2. /\ text = <<>> /\ Signed /\ Consume("-") /\ sign' = -1 /\ fractions' = fractions
      /\ hasDigit' = hasDigit /\ decimalDigits' = decimalDigits /\ status' = status
  BY DEF ReadMinus, AtSign
<1>3. /\ status = "Reading" /\ WhileReading
      /\ text' = Append(text, "-") /\ text' \in Seq(Byte) /\ text \in Seq(Byte)
      /\ text' # <<>> /\ format' = format /\ format' \in Formats /\ Numbers' = Numbers
      /\ Cardinality(Points(text)) <= 1
  BY <1>1, <1>2, ConsumeFacts
<1>4. PICK s : s = text
  OBVIOUS
<1>5. PICK t : t = text'
  OBVIOUS
<1>6. t = Append(s, "-") /\ s \in Seq(Byte) /\ s = <<>> /\ BeginsDecimal(s)
  BY <1>2, <1>3, <1>4, <1>5 DEF WhileReading
<1>7. DigitPlaces(s) = {} /\ Points(s) = {} /\ Magnitude(s) = 0
  <2>1. DOMAIN s = {}
    BY <1>6
  <2>2. DigitPlaces(s) = {} /\ Points(s) = {}
    BY <2>1 DEF DigitPlaces, Points
  <2>3. Magnitude(s) = SumFunctionOnSet(Weighted(s), DigitPlaces(s))
    BY <1>6, WeightedNat
  <2>4. QED
    BY <2>2, <2>3, SumEmpty
<1>8. /\ DigitPlaces(t) = {} /\ Points(t) = {} /\ Magnitude(t) = 0
  <2>1. DigitPlaces(t) = DigitPlaces(s)
    BY <1>1, <1>6, DigitPlacesGrow
  <2>2. Points(t) = Points(s)
    BY <1>1, <1>6, PointsGrow
  <2>3. Magnitude(t) = Magnitude(s)
    BY <1>1, <1>6, MagnitudeGrows
  <2>4. QED
    BY <1>7, <2>1, <2>2, <2>3
<1>9. BeginsDecimal(t)
  BY <1>1, <1>2, <1>6, <1>7, BeginsGrows, FormatFacts DEF ParserInv
<1>10. SignOf(t) = -1
  BY <1>1, <1>2, <1>6, SignStays DEF SignOf
<1>11. sign' = SignOf(text)' /\ BeginsDecimal(text)'
  BY <1>2, <1>3, <1>5, <1>9, <1>10, SameFormat
<1>12. fractions = 0 /\ decimalDigits = {} /\ ~hasDigit
  <2>1. sign \in {-1, 1} /\ fractions = sign * 0
    BY <1>3, <1>4, <1>7, FormatFacts DEF WhileReading, ParserInv
  <2>2. QED
    BY <1>3, <1>4, <1>7, <2>1 DEF WhileReading
<1>13. TypeOK'
  <2>1. -1 \in Numbers
    BY <1>2 DEF Signed, Checked
  <2>2. sign' * fractions' >= 0
    BY <1>2, <1>12
  <2>3. QED
    BY <1>2, <1>3, <2>1, <2>2 DEF TypeOK, ParserInv
<1>14. WhileReading'
  <2>1. fractions' = sign' * Magnitude(text')
    BY <1>2, <1>5, <1>8, <1>12
  <2>2. QED
    BY <1>2, <1>5, <1>8, <1>11, <1>12, <2>1 DEF WhileReading
<1>15. ReadsText' /\ AcceptsExactly' /\ RefusesOnlyUnfit'
  BY <1>2, <1>3, <1>11, <1>14 DEF ReadsText, AcceptsExactly, RefusesOnlyUnfit
<1>16. QED
  BY <1>13, <1>15 DEF ParserInv

LEMMA ReadOtherKeeps ==
  ASSUME ParserInv, NEW c \in OtherByte \cup {"-"}, ReadOther(c)
  PROVE  ParserInv'
<1>1. c \in Byte /\ c \notin Digit \cup {"."}
  BY DigitFacts, OtherByteAssumption DEF Byte
<1>2. (c = "-" => ~AtSign) /\ Consume(c) /\ Refuse("InvalidChar")
  BY DEF ReadOther
<1>3. PICK s : s = text
  OBVIOUS
<1>4. PICK t : t = text'
  OBVIOUS
<1>5. s \in Seq(Byte) /\ t = Append(s, c) /\ BeginsDecimal(s)
  BY <1>1, <1>2, <1>3, <1>4, ConsumeFacts DEF WhileReading
<1>6. ~(s = <<>> /\ Signed /\ c = "-")
  BY <1>2, <1>3 DEF AtSign
<1>7. ~BeginsDecimal(t)
  BY <1>1, <1>5, <1>6, BeginsGrows, FormatFacts DEF ParserInv
<1>8. QED
  BY <1>1, <1>2, <1>4, <1>7, RefusalKeeps

LEMMA ReadPointKeeps ==
  ASSUME ParserInv, ReadPoint
  PROVE  ParserInv'
<1>1. "." \in Byte /\ "." \notin Digit /\ "." # "-"
  BY DigitFacts DEF Byte
<1>2. Consume(".")
  BY DEF ReadPoint
<1>3. /\ status = "Reading" /\ WhileReading /\ sign = SignOf(text)
      /\ text' = Append(text, ".") /\ text' \in Seq(Byte) /\ text \in Seq(Byte)
      /\ text' # <<>> /\ format' = format /\ format' \in Formats /\ Numbers' = Numbers
      /\ Cardinality(Points(text)) <= 1 /\ Magnitude(text) \in Nat
  BY <1>1, <1>2, ConsumeFacts
<1>4. PICK s : s = text
  OBVIOUS
<1>5. PICK t : t = text'
  OBVIOUS
<1>6. t = Append(s, ".") /\ s \in Seq(Byte) /\ BeginsDecimal(s)
  BY <1>3, <1>4, <1>5 DEF WhileReading
<1>7. BeginsDecimal(t) <=> Points(s) = {}
  BY <1>1, <1>6, BeginsGrows, FormatFacts DEF ParserInv
<1>8. ASSUME decimalDigits # {}, Refuse("InvalidChar")
      PROVE  ParserInv'
  <2>1. Points(s) # {}
    BY <1>3, <1>4, <1>8 DEF WhileReading
  <2>2. QED
    BY <1>1, <1>2, <1>5, <1>7, <1>8, <2>1, RefusalKeeps
<1>9. ASSUME decimalDigits = {}, decimalDigits' = {0},
             UNCHANGED <<sign, fractions, hasDigit, status>>
      PROVE  ParserInv'
  <2>1. Points(s) = {}
    BY <1>3, <1>4, <1>9 DEF WhileReading
  <2>2. BeginsDecimal(t)
    BY <1>7, <2>1
  <2>3. Points(t) # {} /\ Decimals(t) = 0
    BY <1>1, <1>3, <1>4, <1>6, <2>1, DecimalsGrow
  <2>4. DigitPlaces(t) = DigitPlaces(s)
    BY <1>1, <1>6, DigitPlacesGrow
  <2>5. Magnitude(t) = Magnitude(s)
    BY <1>1, <1>6, MagnitudeGrows
  <2>6. SignOf(t) = SignOf(s)
    <3>1. s = <<>> => ~HasSign(s)
      BY DEF HasSign
    <3>2. QED
      BY <1>1, <1>6, <3>1, SignStays DEF SignOf
  <2>7. sign' = SignOf(text)' /\ BeginsDecimal(text)'
    BY <1>3, <1>4, <1>5, <1>9, <2>2, <2>6, SameFormat
  <2>8. TypeOK'
    <3>1. {0} \subseteq 0 .. format.precision /\ Cardinality({0}) = 1
      BY FormatFacts, FS_Singleton DEF ParserInv
    <3>2. decimalDigits' \subseteq 0 .. format'.precision /\ Cardinality(decimalDigits') <= 1
      BY <1>3, <1>9, <3>1
    <3>3. QED
      BY <1>3, <1>9, <3>2 DEF TypeOK, ParserInv
  <2>9. WhileReading'
    <3>1. fractions' = sign' * Magnitude(text')
      BY <1>3, <1>4, <1>5, <1>9, <2>5 DEF WhileReading
    <3>2. hasDigit' <=> DigitPlaces(text') # {}
      BY <1>3, <1>4, <1>5, <1>9, <2>4 DEF WhileReading
    <3>3. decimalDigits' = IF Points(text') = {} THEN {} ELSE {Decimals(text')}
      BY <1>5, <1>9, <2>3
    <3>4. QED
      BY <2>7, <3>1, <3>2, <3>3 DEF WhileReading
  <2>10. ReadsText' /\ AcceptsExactly' /\ RefusesOnlyUnfit'
    BY <1>3, <1>9, <2>7, <2>9 DEF ReadsText, AcceptsExactly, RefusesOnlyUnfit
  <2>11. QED
    BY <2>8, <2>10 DEF ParserInv
<1>10. QED
  BY <1>8, <1>9 DEF ReadPoint

LEMMA ReadDigitKeeps ==
  ASSUME ParserInv, NEW c \in Digit, ReadDigit(c)
  PROVE  ParserInv'
<1>1. c \in Byte /\ c # "." /\ c # "-"
  BY DigitFacts DEF Byte
<1>2. Consume(c)
  BY DEF ReadDigit
<1>3. /\ status = "Reading" /\ WhileReading /\ sign = SignOf(text)
      /\ text' = Append(text, c) /\ text' \in Seq(Byte) /\ text \in Seq(Byte)
      /\ text' # <<>> /\ format' = format /\ format' \in Formats /\ Numbers' = Numbers
      /\ Cardinality(Points(text)) <= 1 /\ Magnitude(text) \in Nat
  BY <1>1, <1>2, ConsumeFacts
<1>4. PICK s : s = text
  OBVIOUS
<1>5. PICK t : t = text'
  OBVIOUS
<1>6. /\ t = Append(s, c) /\ s \in Seq(Byte) /\ t \in Seq(Byte)
      /\ BeginsDecimal(s) /\ Cardinality(Points(s)) <= 1
  BY <1>3, <1>4, <1>5 DEF WhileReading
<1>7. PICK precision : precision = format.precision
  OBVIOUS
<1>8. precision \in Nat /\ Decimals(s) \in Nat /\ Decimals(s) <= precision
  BY <1>6, <1>7, FormatFacts, PointFacts DEF ParserInv, BeginsDecimal
<1>9. BeginsDecimal(t) <=> (Points(s) # {} => Decimals(s) # precision)
  BY <1>1, <1>6, <1>7, BeginsGrows, FormatFacts DEF ParserInv
<1>10. decimalDigits = {precision} <=> Points(s) # {} /\ Decimals(s) = precision
  <2>1. decimalDigits = IF Points(s) = {} THEN {} ELSE {Decimals(s)}
    BY <1>3, <1>4 DEF WhileReading
  <2>2. QED
    BY <2>1
<1>11. PICK d : d = DigitValue[c]
  OBVIOUS
<1>12. PICK m : m = Magnitude(s)
  OBVIOUS
<1>13. PICK n : n = 10 * m + d
  OBVIOUS
<1>14. d \in 0 .. 9 /\ m \in Nat /\ fractions = sign * m
  BY <1>3, <1>4, <1>11, <1>12, DigitFacts DEF WhileReading
<1>15. /\ n \in Nat
       /\ sign * n \in Numbers => AppendDigit(d) = {sign * n}
       /\ sign * n \notin Numbers => AppendDigit(d) = {}
  BY <1>13, <1>14, AppendDigitFacts DEF ParserInv
<1>16. Magnitude(t) = n
  BY <1>6, <1>11, <1>12, <1>13, <1>1, MagnitudeGrows DEF Ten
<1>17. SignOf(t) = sign
  <2>1. s = <<>> => ~HasSign(s)
    BY DEF HasSign
  <2>2. SignOf(t) = SignOf(s)
    BY <1>1, <1>6, <2>1, SignStays DEF SignOf
  <2>3. QED
    BY <1>3, <1>4, <2>2
<1>18. ASSUME decimalDigits = {precision}, Refuse("TooMuchFractionalDigits")
       PROVE  ParserInv'
  <2>1. ~BeginsDecimal(t)
    BY <1>9, <1>10, <1>18
  <2>2. QED
    BY <1>1, <1>2, <1>5, <1>18, <2>1, RefusalKeeps
<1>19. ASSUME decimalDigits # {precision}, AppendDigit(d) = {}, Refuse("TooLarge")
       PROVE  ParserInv'
  <2>1. BeginsDecimal(t)
    BY <1>9, <1>10, <1>19
  <2>2. PICK p : p = PowerOfTen[precision - Decimals(t)]
    OBVIOUS
  <2>3. p \in Nat \ {0} /\ Scaled(t) = sign * (n * p)
    <3>1. precision - Decimals(t) \in Nat
      BY <1>6, <1>7, <1>8, <2>1, ScaledFacts
    <3>2. p \in Nat \ {0}
      BY <2>2, <3>1, Powers
    <3>3. Scaled(t) = SignOf(t) * (Magnitude(t) * p)
      BY <1>6, <1>7, <1>8, <2>1, <2>2, ScaledFacts
    <3>4. QED
      BY <1>16, <1>17, <3>2, <3>3
  <2>4. n * p \in Nat /\ n <= n * p
    BY <1>15, <2>3, Products
  <2>5. sign * n \notin Numbers
    BY <1>15, <1>19
  <2>6. Scaled(t) \notin Numbers
    BY <1>15, <2>3, <2>4, <2>5, Outside DEF ParserInv
  <2>7. /\ status' = "TooLarge" /\ sign' = sign /\ fractions' = fractions
        /\ hasDigit' = hasDigit /\ decimalDigits' = decimalDigits
    BY <1>19 DEF Refuse
  <2>8. BeginsDecimal(text)' /\ Scaled(text)' \notin Numbers'
    BY <1>3, <1>5, <2>1, <2>6, SameFormat
  <2>9. TypeOK'
    BY <1>3, <2>7 DEF TypeOK, ParserInv, Refusal
  <2>10. ReadsText' /\ AcceptsExactly' /\ RefusesOnlyUnfit'
    BY <1>3, <2>7, <2>8 DEF ReadsText, AcceptsExactly, RefusesOnlyUnfit
  <2>11. QED
    BY <2>9, <2>10 DEF ParserInv
<1>20. ASSUME decimalDigits # {precision}, fractions' \in AppendDigit(d), hasDigit' = TRUE,
              decimalDigits' = {dd + 1 : dd \in decimalDigits}, UNCHANGED <<sign, status>>
       PROVE  ParserInv'
  <2>1. BeginsDecimal(t)
    BY <1>9, <1>10, <1>20
  <2>2. sign * n \in Numbers /\ fractions' = sign * n
    BY <1>15, <1>20
  <2>3. DigitPlaces(t) # {}
    BY <1>1, <1>6, DigitPlacesGrow
  <2>4. decimalDigits' = IF Points(t) = {} THEN {} ELSE {Decimals(t)}
    <3>1. CASE Points(s) = {}
      <4>1. Points(t) = {}
        BY <1>1, <1>6, <3>1, DecimalsGrow
      <4>2. decimalDigits = {}
        BY <1>3, <1>4, <3>1 DEF WhileReading
      <4>3. QED
        BY <1>20, <4>1, <4>2
    <3>2. CASE Points(s) # {}
      <4>1. Points(t) # {} /\ Decimals(t) = Decimals(s) + 1
        BY <1>1, <1>6, <3>2, DecimalsGrow
      <4>2. decimalDigits = {Decimals(s)}
        BY <1>3, <1>4, <3>2 DEF WhileReading
      <4>3. QED
        BY <1>20, <4>1, <4>2
    <3>3. QED
      BY <3>1, <3>2
  <2>5. sign' = SignOf(text)' /\ BeginsDecimal(text)'
    BY <1>3, <1>5, <1>17, <1>20, <2>1, SameFormat
  <2>6. TypeOK'
    <3>1. decimalDigits' \subseteq 0 .. format'.precision /\ Cardinality(decimalDigits') <= 1
      <4>1. Decimals(t) \in Nat /\ Decimals(t) <= precision
        BY <1>6, <1>7, <2>1, PointFacts DEF BeginsDecimal
      <4>2. Cardinality({}) = 0 /\ Cardinality({Decimals(t)}) = 1
        BY FS_EmptySet, FS_Singleton
      <4>3. QED
        BY <1>3, <1>7, <1>8, <2>4, <4>1, <4>2
    <3>2. sign' * fractions' >= 0
      <4>1. sign' = sign /\ sign \in {1, -1}
        BY <1>20, FormatFacts DEF ParserInv
      <4>2. QED
        BY <1>15, <2>2, <4>1
    <3>3. fractions' \in Numbers'
      BY <1>3, <2>2
    <3>4. QED
      BY <1>3, <1>20, <3>1, <3>2, <3>3 DEF TypeOK, ParserInv
  <2>7. WhileReading'
    <3>1. fractions' = sign' * Magnitude(text')
      BY <1>5, <1>16, <1>20, <2>2
    <3>2. QED
      BY <1>5, <1>20, <2>3, <2>4, <2>5, <3>1 DEF WhileReading
  <2>8. ReadsText' /\ AcceptsExactly' /\ RefusesOnlyUnfit'
    BY <1>3, <1>20, <2>5, <2>7 DEF ReadsText, AcceptsExactly, RefusesOnlyUnfit
  <2>9. QED
    BY <2>6, <2>8 DEF ParserInv
<1>21. QED
  BY <1>7, <1>11, <1>18, <1>19, <1>20 DEF ReadDigit

LEMMA DigitIn ==
  ASSUME NEW s
  PROVE  ToSet(s) \cap Digit # {} <=> DigitPlaces(s) # {}
BY DEF ToSet, DigitPlaces

LEMMA EndKeeps ==
  ASSUME ParserInv, End
  PROVE  ParserInv'
<1>1. /\ status = "Reading" /\ WhileReading /\ sign = SignOf(text) /\ text \in Seq(Byte)
      /\ format \in Formats
  BY DEF ParserInv, ReadsText, TypeOK, End
<1>2. format' = format /\ text' = text
  BY DEF End
<1>3. PICK t : t = text
  OBVIOUS
<1>4. t = text'
  BY <1>2, <1>3
<1>5. t \in Seq(Byte) /\ BeginsDecimal(t) /\ Cardinality(Points(t)) <= 1
  BY <1>1, <1>3 DEF WhileReading, BeginsDecimal
<1>6. /\ Numbers' = Numbers /\ SignOf(text)' = SignOf(t)
      /\ BeginsDecimal(text)' /\ (IsDecimal(text)' <=> IsDecimal(t))
  BY <1>2, <1>4, <1>5, SameFormat
<1>7. ASSUME ~hasDigit, Refuse("NoDigits")
      PROVE  ParserInv'
  <2>1. /\ status' = "NoDigits" /\ sign' = sign /\ fractions' = fractions
        /\ hasDigit' = hasDigit /\ decimalDigits' = decimalDigits
    BY <1>7 DEF Refuse
  <2>2. ~IsDecimal(t)
    BY <1>1, <1>3, <1>7, DigitIn DEF WhileReading, IsDecimal
  <2>3. TypeOK'
    BY <1>1, <1>2, <1>6, <2>1 DEF TypeOK, ParserInv, Refusal
  <2>4. ReadsText' /\ AcceptsExactly' /\ RefusesOnlyUnfit'
    BY <1>1, <1>2, <1>6, <2>1, <2>2 DEF ReadsText, AcceptsExactly, RefusesOnlyUnfit
  <2>5. QED
    BY <2>3, <2>4 DEF ParserInv
<1>8. ASSUME hasDigit, status' = "Shifting",
             decimalDigits' = IF decimalDigits = {} THEN {0} ELSE decimalDigits,
             UNCHANGED <<sign, fractions, hasDigit>>
      PROVE  ParserInv'
  <2>1. Decimals(t) \in Nat /\ Decimals(t) <= format.precision /\ format.precision \in Nat
    BY <1>5, PointFacts, FormatFacts DEF BeginsDecimal, ParserInv
  <2>2. decimalDigits' = {Decimals(t)}
    <3>1. CASE Points(t) = {}
      BY <1>1, <1>3, <1>8, <3>1 DEF WhileReading, Decimals
    <3>2. CASE Points(t) # {}
      BY <1>1, <1>3, <1>8, <3>2 DEF WhileReading
    <3>3. QED
      BY <3>1, <3>2
  <2>3. TypeOK'
    <3>1. decimalDigits' \subseteq 0 .. format'.precision /\ Cardinality(decimalDigits') <= 1
      <4>1. {Decimals(t)} \subseteq 0 .. format.precision
        BY <2>1
      <4>2. Cardinality({Decimals(t)}) = 1
        BY FS_Singleton
      <4>3. QED
        BY <1>2, <2>2, <4>1, <4>2
    <3>2. QED
      BY <1>1, <1>2, <1>6, <1>8, <3>1 DEF TypeOK, ParserInv
  <2>4. WhileShifting'
    <3>1. DigitPlaces(text') # {}
      BY <1>1, <1>2, <1>8 DEF WhileReading
    <3>2. PICK m : m = Magnitude(t)
      OBVIOUS
    <3>3. m \in Nat /\ fractions = sign * m
      BY <1>1, <1>3, <1>5, <3>2, WeightedNat DEF WhileReading
    <3>4. PICK dd : dd = Decimals(t)
      OBVIOUS
    <3>5. dd - dd = 0 /\ m * 1 = m
      BY <2>1, <3>3, <3>4
    <3>6. fractions' = sign' * (m * PowerOfTen[dd - dd])
      BY <1>8, <3>3, <3>5, Powers
    <3>7. dd \in Decimals(text') .. format'.precision
      BY <1>2, <1>4, <2>1, <3>4
    <3>8. decimalDigits' = {dd} /\ fractions' = sign' * (Magnitude(text') * PowerOfTen[dd - Decimals(text')])
      BY <1>4, <2>2, <3>2, <3>4, <3>6
    <3>9. QED
      BY <1>6, <3>1, <3>7, <3>8 DEF WhileShifting
  <2>5. ReadsText' /\ AcceptsExactly' /\ RefusesOnlyUnfit'
    BY <1>1, <1>2, <1>3, <1>6, <1>8, <2>4 DEF ReadsText, AcceptsExactly, RefusesOnlyUnfit
  <2>6. QED
    BY <2>3, <2>5 DEF ParserInv
<1>9. QED
  BY <1>7, <1>8 DEF End

LEMMA ShiftKeeps ==
  ASSUME ParserInv, Shift
  PROVE  ParserInv'
<1>1. /\ status = "Shifting" /\ WhileShifting /\ sign = SignOf(text) /\ text \in Seq(Byte)
      /\ format \in Formats
  BY DEF ParserInv, ReadsText, TypeOK, Shift
<1>2. format' = format /\ text' = text
  BY DEF Shift
<1>3. PICK t : t = text
  OBVIOUS
<1>4. t = text'
  BY <1>2, <1>3
<1>5. PICK precision : precision = format.precision
  OBVIOUS
<1>6. PICK m : m = Magnitude(t)
  OBVIOUS
<1>7. PICK decimals : decimals = Decimals(t)
  OBVIOUS
<1>8. PICK dd \in decimals .. precision :
        decimalDigits = {dd} /\ fractions = sign * (m * PowerOfTen[dd - decimals])
  BY <1>1, <1>3, <1>5, <1>6, <1>7 DEF WhileShifting
<1>9. t \in Seq(Byte) /\ BeginsDecimal(t) /\ m \in Nat
  BY <1>1, <1>3, <1>6, WeightedNat DEF WhileShifting
<1>10. /\ precision \in Nat /\ decimals \in Nat /\ dd \in Nat
       /\ dd - decimals \in Nat /\ dd <= precision /\ precision - decimals \in Nat
       /\ Scaled(t) = sign * (m * PowerOfTen[precision - decimals])
  <2>1. precision \in Nat
    BY <1>5, FormatFacts DEF ParserInv
  <2>2. /\ decimals \in Nat /\ precision - decimals \in Nat
        /\ Scaled(t) = sign * (m * PowerOfTen[precision - decimals])
    BY <1>1, <1>3, <1>5, <1>6, <1>7, <1>9, <2>1, ScaledFacts
  <2>3. QED
    BY <1>8, <2>1, <2>2
<1>11. PICK n : n = m * PowerOfTen[dd - decimals]
  OBVIOUS
<1>12. n \in Nat /\ fractions = sign * n
  BY <1>8, <1>9, <1>10, <1>11, Powers, Products
<1>13. m * PowerOfTen[(dd + 1) - decimals] = 10 * n
  <2>1. (dd + 1) - decimals = (dd - decimals) + 1
    BY <1>10
  <2>2. PICK p \in Nat : p = PowerOfTen[dd - decimals] /\ PowerOfTen[(dd + 1) - decimals] = 10 * p
    BY <1>10, <2>1, Powers DEF Ten
  <2>3. QED
    BY <1>9, <1>11, <2>2, Products
<1>14. fractions * Ten = sign * (10 * n)
  <2>1. CASE sign = 1
    BY <1>12, <2>1 DEF Ten
  <2>2. CASE sign = -1
    BY <1>12, <2>2 DEF Ten
  <2>3. QED
    BY <2>1, <2>2, FormatFacts DEF ParserInv
<1>15. /\ Numbers' = Numbers /\ SignOf(text)' = SignOf(t) /\ BeginsDecimal(text)'
       /\ (IsDecimal(text)' <=> IsDecimal(t)) /\ Scaled(text)' = Scaled(t)
  BY <1>2, <1>4, <1>9, SameFormat
<1>16. ASSUME ~ShiftsLeft(dd), Refuse("Ok")
       PROVE  ParserInv'
  <2>1. /\ status' = "Ok" /\ sign' = sign /\ fractions' = fractions
        /\ hasDigit' = hasDigit /\ decimalDigits' = decimalDigits
    BY <1>16 DEF Refuse
  <2>2. dd = precision
    BY <1>5, <1>10, <1>16 DEF ShiftsLeft
  <2>3. fractions = Scaled(t)
    BY <1>8, <1>10, <2>2
  <2>4. IsDecimal(t)
    BY <1>1, <1>3, <1>9, DigitIn DEF WhileShifting, IsDecimal
  <2>5. TypeOK'
    BY <1>1, <1>2, <1>15, <2>1 DEF TypeOK, ParserInv
  <2>6. ReadsText' /\ AcceptsExactly' /\ RefusesOnlyUnfit'
    BY <1>1, <1>2, <1>15, <2>1, <2>3, <2>4 DEF ReadsText, AcceptsExactly, RefusesOnlyUnfit
  <2>7. QED
    BY <2>5, <2>6 DEF ParserInv
<1>17. ASSUME ShiftsLeft(dd), Checked(fractions * Ten) = {}, Refuse("TooLarge")
       PROVE  ParserInv'
  <2>1. /\ status' = "TooLarge" /\ sign' = sign /\ fractions' = fractions
        /\ hasDigit' = hasDigit /\ decimalDigits' = decimalDigits
    BY <1>17 DEF Refuse
  <2>2. sign * (10 * n) \notin Numbers
    BY <1>14, <1>17 DEF Checked
  <2>3. PICK value : value = m * PowerOfTen[precision - decimals]
    OBVIOUS
  <2>4. 10 * n <= value /\ value \in Nat
    <3>1. PICK k \in Nat : k = precision - (dd + 1)
      BY <1>5, <1>10, <1>17 DEF ShiftsLeft
    <3>2. (dd + 1) - decimals \in Nat /\ ((dd + 1) - decimals) + k = precision - decimals
      BY <1>10, <3>1
    <3>3. PICK first \in Nat : first = (dd + 1) - decimals
      BY <3>2
    <3>4. m * PowerOfTen[first] <= m * PowerOfTen[first + k]
      BY <1>9, PowersGrow
    <3>5. value \in Nat
      BY <1>9, <1>10, <2>3, Powers, Products
    <3>6. QED
      BY <1>13, <2>3, <3>2, <3>3, <3>4, <3>5
  <2>5. Scaled(t) \notin Numbers
    BY <1>10, <1>12, <2>2, <2>3, <2>4, Outside DEF ParserInv
  <2>6. TypeOK'
    BY <1>1, <1>2, <1>15, <2>1 DEF TypeOK, ParserInv, Refusal
  <2>7. ReadsText' /\ AcceptsExactly' /\ RefusesOnlyUnfit'
    BY <1>1, <1>2, <1>15, <2>1, <2>5 DEF ReadsText, AcceptsExactly, RefusesOnlyUnfit
  <2>8. QED
    BY <2>6, <2>7 DEF ParserInv
<1>18. ASSUME ShiftsLeft(dd), fractions' \in Checked(fractions * Ten),
              decimalDigits' = {dd + 1}, UNCHANGED <<sign, hasDigit, status>>
       PROVE  ParserInv'
  <2>1. fractions' = sign * (10 * n) /\ fractions' \in Numbers
    BY <1>14, <1>18 DEF Checked
  <2>2. dd + 1 \in decimals .. precision
    BY <1>5, <1>10, <1>18 DEF ShiftsLeft
  <2>3. TypeOK'
    <3>1. decimalDigits' \subseteq 0 .. format'.precision /\ Cardinality(decimalDigits') <= 1
      <4>1. {dd + 1} \subseteq 0 .. precision
        BY <1>10, <2>2
      <4>2. Cardinality({dd + 1}) = 1
        BY FS_Singleton
      <4>3. QED
        BY <1>2, <1>5, <1>18, <4>1, <4>2
    <3>2. sign' * fractions' >= 0
      <4>1. sign' = sign /\ sign \in {1, -1}
        BY <1>18, FormatFacts DEF ParserInv
      <4>2. QED
        BY <1>12, <2>1, <4>1
    <3>3. QED
      BY <1>1, <1>2, <1>15, <1>18, <2>1, <3>1, <3>2 DEF TypeOK, ParserInv
  <2>4. WhileShifting'
    <3>1. DigitPlaces(text') # {}
      BY <1>1, <1>2 DEF WhileShifting
    <3>2. fractions' = sign' * (m * PowerOfTen[(dd + 1) - decimals])
      BY <1>13, <1>18, <2>1
    <3>3. fractions' = sign' * (Magnitude(text') * PowerOfTen[(dd + 1) - Decimals(text')])
      BY <1>4, <1>6, <1>7, <3>2
    <3>4. dd + 1 \in Decimals(text') .. format'.precision
      BY <1>2, <1>4, <1>5, <1>7, <2>2
    <3>5. QED
      BY <1>15, <1>18, <3>1, <3>3, <3>4 DEF WhileShifting
  <2>5. ReadsText' /\ AcceptsExactly' /\ RefusesOnlyUnfit'
    BY <1>1, <1>2, <1>3, <1>15, <1>18, <2>4 DEF ReadsText, AcceptsExactly, RefusesOnlyUnfit
  <2>6. QED
    BY <2>3, <2>5 DEF ParserInv
<1>19. QED
  BY <1>8, <1>16, <1>17, <1>18 DEF Shift

LEMMA ParserInvariant == Spec => []ParserInv
<1>1. Init => ParserInv
  <2> SUFFICES ASSUME Init PROVE ParserInv
    OBVIOUS
  <2>1. /\ format \in Formats /\ text = <<>> /\ sign = 1 /\ fractions = 0 /\ ~hasDigit
        /\ hasDigit \in BOOLEAN /\ decimalDigits = {} /\ status = "Reading"
    BY DEF Init
  <2>2. PICK low \in Int : low = format.min
    BY <2>1, FormatsAssumption
  <2>3. PICK high \in Int : high = format.max
    BY <2>1, FormatsAssumption
  <2>4. low <= 0 /\ 255 <= high /\ Numbers = low .. high /\ format.precision \in Nat
    BY <2>1, <2>2, <2>3, FormatsAssumption DEF Numbers
  <2>5. TypeOK
    <3>1. 1 \in Numbers /\ 0 \in Numbers
      BY <2>4
    <3>2. sign * fractions = 0
      BY <2>1
    <3>3. QED
      BY <2>1, <3>1, <3>2, FS_EmptySet DEF TypeOK
  <2>6. PICK s : s = <<>>
    OBVIOUS
  <2>7. s \in Seq(Byte) /\ DOMAIN s = {}
    BY <2>6, EmptySeq
  <2>8. DigitPlaces(s) = {} /\ Points(s) = {} /\ Decimals(s) = 0
    BY <2>7 DEF DigitPlaces, Points, Decimals
  <2>9. Magnitude(s) = 0
    <3>1. Magnitude(s) = SumFunctionOnSet(Weighted(s), DigitPlaces(s))
      BY <2>7, WeightedNat
    <3>2. QED
      BY <2>8, <3>1, SumEmpty
  <2>10. BeginsDecimal(s)
    <3>1. Legal(s)
      BY <2>7 DEF Legal
    <3>2. Cardinality(Points(s)) <= 1
      BY <2>8, FS_EmptySet
    <3>3. Decimals(s) <= format.precision
      BY <2>4, <2>8
    <3>4. ToSet(Unsigned(s)) \subseteq Digit \cup {"."}
      BY <2>7, <3>1, SignFacts
    <3>5. QED
      BY <3>2, <3>3, <3>4 DEF BeginsDecimal
  <2>11. SignOf(s) = 1
    BY <2>6 DEF SignOf, HasSign
  <2>12. WhileReading
    <3>1. fractions = sign * Magnitude(text)
      BY <2>1, <2>6, <2>9
    <3>2. QED
      BY <2>1, <2>6, <2>8, <2>10, <3>1 DEF WhileReading
  <2>13. QED
    BY <2>1, <2>5, <2>6, <2>7, <2>11, <2>12
       DEF ParserInv, ReadsText, AcceptsExactly, RefusesOnlyUnfit
<1>2. ParserInv /\ [Next]_vars => ParserInv'
  <2>1. ASSUME ParserInv, UNCHANGED vars
        PROVE  ParserInv'
    <3>1. /\ format' = format /\ text' = text /\ sign' = sign /\ fractions' = fractions
          /\ hasDigit' = hasDigit /\ decimalDigits' = decimalDigits /\ status' = status
      BY <2>1 DEF vars
    <3>2. PICK t : t = text
      OBVIOUS
    <3>3. /\ Numbers' = Numbers /\ (BeginsDecimal(text)' <=> BeginsDecimal(t))
          /\ (IsDecimal(text)' <=> IsDecimal(t)) /\ SignOf(text)' = SignOf(t)
          /\ Scaled(text)' = Scaled(t)
      <4>1. t = text'
        BY <3>1, <3>2
      <4>2. QED
        BY <3>1, <4>1, SameFormat
    <3>4. QED
      BY <2>1, <3>1, <3>2, <3>3 DEF ParserInv, TypeOK, ReadsText, WhileReading, WhileShifting,
                              AcceptsExactly, RefusesOnlyUnfit
  <2>2. QED
    BY <2>1, ReadMinusKeeps, ReadDigitKeeps, ReadPointKeeps, ReadOtherKeeps, EndKeeps,
       ShiftKeeps DEF Next
<1>3. QED
  BY <1>1, <1>2, PTL DEF Spec

(* The parser's variables stay within the type, for every type and         *)
(* precision and texts of any length: each operation that could overflow   *)
(* is refused.                                                             *)
THEOREM ParserTypeCorrect == Spec => []TypeOK
<1>1. ParserInv => TypeOK
  BY DEF ParserInv
<1>2. QED
  BY <1>1, ParserInvariant, PTL

(* What from_str accepts is a decimal, and it is the decimal's value.      *)
THEOREM AcceptedIsExact == Spec => []AcceptsExactly
<1>1. ParserInv => AcceptsExactly
  BY DEF ParserInv
<1>2. QED
  BY <1>1, ParserInvariant, PTL

(* What from_str refuses is no decimal, has too many decimals, or does not *)
(* fit into the type.                                                      *)
THEOREM RefusedIsUnfit == Spec => []RefusesOnlyUnfit
<1>1. ParserInv => RefusesOnlyUnfit
  BY DEF ParserInv
<1>2. QED
  BY <1>1, ParserInvariant, PTL

-----------------------------------------------------------------------------
(* Digits of numbers. *)

LEMMA Divide ==
  ASSUME NEW n \in Int, NEW p \in Nat, p > 0
  PROVE  \E q \in Int, r \in 0 .. p - 1 : n \div p = q /\ n % p = r /\ n = p * q + r
<1>1. PICK q \in Int : q = n \div p
  OBVIOUS
<1>2. PICK m \in Int : m = p * q
  OBVIOUS
<1>3. m <= n /\ n < m + p
  BY <1>1, <1>2
<1>4. PICK r \in 0 .. p - 1 : n = m + r
  <2>1. n - m \in 0 .. p - 1 /\ n = m + (n - m)
    BY <1>3
  <2>2. QED
    BY <2>1
<1>5. n % p = r
  BY <1>2, <1>4
<1>6. n = p * q + r
  BY <1>2, <1>4
<1>7. n \div p = q
  BY <1>1
<1>8. QED
  BY <1>5, <1>6, <1>7, Zenon

LEMMA DivideByTen ==
  ASSUME NEW n \in Int
  PROVE  \E q \in Int, r \in 0 .. 9 : n \div 10 = q /\ n % 10 = r /\ n = 10 * q + r
<1>1. 10 \in Nat /\ 10 > 0
  OBVIOUS
<1>2. PICK t \in Nat : t = 10
  OBVIOUS
<1>3. PICK q \in Int, r \in 0 .. t - 1 : n \div t = q /\ n % t = r /\ n = t * q + r
  BY <1>1, <1>2, Divide
<1>4. n \div 10 = q /\ n % 10 = r /\ n = 10 * q + r
  BY <1>2, <1>3, Zenon
<1>5. r \in 0 .. 9
  BY <1>2
<1>6. QED
  BY <1>4, <1>5, Zenon

LEMMA DigitOfFacts ==
  \A d \in 0 .. 9 : /\ DigitOf(d) \in Digit /\ DigitValue[DigitOf(d)] = d
                    /\ DigitOf(d) = "0" <=> d = 0
<1> SUFFICES ASSUME NEW d \in 0 .. 9
             PROVE  /\ DigitOf(d) \in Digit /\ DigitValue[DigitOf(d)] = d
                    /\ DigitOf(d) = "0" <=> d = 0
  OBVIOUS
<1>1. DOMAIN Digits = 1 .. 10
  BY DEF Digits
<1>2. \A i, j \in 1 .. 10 : Digits[i] = Digits[j] => i = j
  BY DEF Digits
<1>3. d + 1 \in 1 .. 10
  OBVIOUS
<1>4. DigitOf(d) \in Digit
  BY <1>1, <1>3 DEF DigitOf, Digit, ToSet
<1>5. DigitValue[DigitOf(d)] = d
  <2>1. PICK i : i = CHOOSE j \in DOMAIN Digits : Digits[j] = DigitOf(d)
    OBVIOUS
  <2>2. i \in DOMAIN Digits /\ Digits[i] = DigitOf(d)
    BY <1>1, <1>3, <2>1 DEF DigitOf
  <2>3. i = d + 1
    BY <1>1, <1>2, <1>3, <2>2 DEF DigitOf
  <2>4. DigitValue[DigitOf(d)] = i - 1
    BY <1>4, <2>1 DEF DigitValue
  <2>5. QED
    BY <2>3, <2>4
<1>6. DigitOf(d) = "0" <=> d = 0
  <2>1. Digits[1] = "0" /\ 1 \in 1 .. 10
    BY DEF Digits
  <2>2. DigitOf(d) = "0" <=> d + 1 = 1
    BY <1>2, <1>3, <2>1 DEF DigitOf
  <2>3. QED
    BY <2>2
<1>7. QED
  BY <1>4, <1>5, <1>6

(* A text of digits, without a zero in front, that says a number. *)
Says(s, n) ==
  /\ s \in Seq(Digit) /\ Magnitude(s) = n
  /\ s # <<>> /\ s[1] = "0" => n = 0

LEMMA EmptyText ==
  /\ <<>> \in Seq(Digit) /\ <<>> \in Seq(Byte)
  /\ DigitPlaces(<<>>) = {} /\ Points(<<>>) = {} /\ Magnitude(<<>>) = 0
<1>1. <<>> \in Seq(Digit) /\ <<>> \in Seq(Byte)
  BY EmptySeq
<1>2. PICK s : s = <<>>
  OBVIOUS
<1>3. s \in Seq(Byte) /\ DOMAIN s = {}
  BY <1>1, <1>2
<1>4. DigitPlaces(s) = {} /\ Points(s) = {}
  BY <1>3 DEF DigitPlaces, Points
<1>5. Magnitude(s) = SumFunctionOnSet(Weighted(s), DigitPlaces(s))
  BY <1>3, WeightedNat
<1>6. QED
  BY <1>1, <1>2, <1>4, <1>5, SumEmpty

LEMMA DigitText ==
  ASSUME NEW s \in Seq(Digit)
  PROVE  s \in Seq(Byte)
BY SeqMonotonic DEF Byte

(* A digit more at the end. *)
LEMMA SaysGrows ==
  ASSUME NEW s, NEW n \in Nat, Says(s, n), NEW d \in 0 .. 9, NEW t, t = Append(s, DigitOf(d)),
         n > 0 \/ s = <<>>
  PROVE  Says(t, 10 * n + d) /\ Len(t) = Len(s) + 1
<1>1. s \in Seq(Digit) /\ s \in Seq(Byte) /\ Magnitude(s) = n
  BY DigitText DEF Says
<1>2. DigitOf(d) \in Digit /\ DigitOf(d) \in Byte /\ DigitValue[DigitOf(d)] = d
  BY DigitOfFacts DEF Byte
<1>3. t \in Seq(Digit) /\ Len(t) = Len(s) + 1
  BY <1>1, <1>2, AppendProperties
<1>4. Magnitude(t) = 10 * n + d
  BY <1>1, <1>2, MagnitudeGrows DEF Ten
<1>5. t[1] = "0" => 10 * n + d = 0
  <2>1. CASE s = <<>>
    <3>1. t[1] = DigitOf(d)
      BY <2>1
    <3>2. n = 0
      BY <1>1, <2>1, EmptyText
    <3>3. t[1] = "0" => d = 0
      BY <3>1, DigitOfFacts
    <3>4. QED
      BY <3>2, <3>3
  <2>2. CASE s # <<>>
    <3>1. 1 \in 1 .. Len(s)
      BY <1>1, <2>2, EmptySeq
    <3>2. t[1] = s[1]
      BY <1>1, <1>2, <3>1, AppendProperties
    <3>3. s[1] # "0"
      BY <2>2 DEF Says
    <3>4. QED
      BY <3>2, <3>3
  <2>3. QED
    BY <2>1, <2>2
<1>6. QED
  BY <1>3, <1>4, <1>5 DEF Says

(* The number that the standard library prints. *)

FmtNatStep(h, n) ==
  IF n < Ten THEN <<DigitOf(n)>> ELSE Append(h[n \div Ten], DigitOf(n % Ten))

LEMMA FmtNatExists == \E f : f = [n \in Nat |-> FmtNatStep(f, n)]
<1>1. PICK D : D = Nat
  OBVIOUS
<1>2. PICK rank : rank = [n \in D |-> n]
  OBVIOUS
<1>3. PICK rest : rest = [n \in D |-> n \div 10]
  OBVIOUS
<1>4. PICK V : V = Seq(Digit)
  OBVIOUS
<1>5. PICK next : next = [n \in D |-> [v \in V |->
                            IF n < 10 THEN <<DigitOf(n)>> ELSE Append(v, DigitOf(n % 10))]]
  OBVIOUS
<1>6. \A n \in D : n \in Int /\ n \div 10 \in D /\ (n >= 10 => n \div 10 < n)
  BY <1>1
<1>7. ASSUME NEW n \in D, NEW v \in V
      PROVE  next[n][v] \in V
  <2>1. n < 10 => n \in 0 .. 9
    BY <1>1
  <2>2. n % 10 \in 0 .. 9
    BY <1>6
  <2>3. n < 10 => <<DigitOf(n)>> \in V
    BY <1>4, <2>1, DigitOfFacts
  <2>4. Append(v, DigitOf(n % 10)) \in V
    BY <1>4, <2>2, DigitOfFacts, AppendProperties
  <2>5. QED
    BY <1>5, <2>3, <2>4
<1>8. /\ rank \in [D -> Nat] /\ rest \in [D -> D] /\ next \in [D -> [V -> V]] /\ V # {}
  <2>1. rank \in [D -> Nat] /\ rest \in [D -> D]
    BY <1>1, <1>2, <1>3, <1>6
  <2>2. next \in [D -> [V -> V]]
    BY <1>5, <1>7
  <2>3. V # {}
    BY <1>4, EmptyText
  <2>4. QED
    BY <2>1, <2>2, <2>3
<1>9. ASSUME NEW n \in D
      PROVE  rank[rest[n]] < rank[n] \/ \A v, w \in V : next[n][v] = next[n][w]
  <2>1. CASE n < 10
    BY <1>5, <2>1
  <2>2. CASE ~(n < 10)
    <3>1. n >= 10
      BY <1>1, <2>2
    <3>2. QED
      BY <1>2, <1>3, <1>6, <3>1
  <2>3. QED
    BY <2>1, <2>2
<1>10. IsRecursion(D, V, rank, rest, next)
  BY <1>8, <1>9 DEF IsRecursion
<1>11. PICK f \in [D -> V] : \A n \in D : f[n] = next[n][f[rest[n]]]
  BY <1>10, RecursionIsDefined
<1>12. ASSUME NEW n \in D
       PROVE  f[n] = FmtNatStep(f, n)
  <2>1. rest[n] = n \div 10 /\ n \div 10 \in D /\ f[n \div 10] \in V
    BY <1>3, <1>6, <1>11
  <2>2. f[n] = next[n][f[n \div 10]]
    BY <1>11, <2>1
  <2>3. QED
    BY <1>5, <2>1, <2>2 DEF FmtNatStep, Ten
<1>13. f = [n \in D |-> FmtNatStep(f, n)]
  <2>1. f = [n \in D |-> f[n]]
    BY <1>11
  <2>2. QED
    BY <1>12, <2>1
<1>14. QED
  BY <1>1, <1>13

LEMMA FmtNatUnfolds ==
  ASSUME NEW n \in Nat
  PROVE  FmtNat[n] = IF n < 10 THEN <<DigitOf(n)>> ELSE Append(FmtNat[n \div 10], DigitOf(n % 10))
<1> DEFINE F == FmtNat
<1>1. F = CHOOSE f : f = [m \in Nat |-> FmtNatStep(f, m)]
  BY DEF FmtNat, FmtNatStep
<1> HIDE DEF F
<1>2. F = [m \in Nat |-> FmtNatStep(F, m)]
  BY <1>1, FmtNatExists
<1>3. F[n] = FmtNatStep(F, n)
  BY <1>2
<1>4. QED
  BY <1>3 DEF F, FmtNatStep, Ten

(* A natural number is printed in as many digits as it needs. *)
FmtNatFits(n) ==
  /\ Says(FmtNat[n], n) /\ FmtNat[n] # <<>>
  /\ n < 10 => Len(FmtNat[n]) = 1
  /\ \A k \in Nat : k > 0 /\ n < PowerOfTen[k] => Len(FmtNat[n]) <= k

LEMMA FmtNatStepFits ==
  ASSUME NEW n \in Nat, n < 10 \/ FmtNatFits(n \div 10)
  PROVE  FmtNatFits(n)
<1>1. PICK q \in Int, r \in 0 .. 9 : n \div 10 = q /\ n % 10 = r /\ n = 10 * q + r
  BY DivideByTen
<1>2. CASE n < 10
  <2>1. FmtNat[n] = <<DigitOf(n)>>
    BY <1>2, FmtNatUnfolds
  <2>2. Says(<<>>, 0)
    BY EmptyText DEF Says
  <2>3. PICK t : t = <<DigitOf(n)>>
    OBVIOUS
  <2>4. t = Append(<<>>, DigitOf(n)) /\ n \in 0 .. 9
    BY <1>2, <2>3
  <2>5. Says(t, 10 * 0 + n) /\ Len(t) = Len(<<>>) + 1
    BY <2>2, <2>4, SaysGrows
  <2>6. Says(t, n) /\ Len(t) = 1 /\ t # <<>>
    BY <2>3, <2>5
  <2>7. \A k \in Nat : k > 0 => 1 <= k
    OBVIOUS
  <2>8. QED
    BY <2>1, <2>3, <2>6, <2>7 DEF FmtNatFits
<1>3. CASE n >= 10
  <2>1. PICK s : s = FmtNat[q]
    OBVIOUS
  <2>2. PICK t : t = FmtNat[n]
    OBVIOUS
  <2>3. q \in Nat /\ q > 0
    BY <1>1, <1>3
  <2>4. FmtNatFits(q)
    BY <1>1, <1>3
  <2>5. t = Append(s, DigitOf(r))
    <3>1. ~(n < 10)
      BY <1>3
    <3>2. t = Append(FmtNat[n \div 10], DigitOf(n % 10))
      BY <2>2, <3>1, FmtNatUnfolds, Zenon
    <3>3. QED
      BY <1>1, <2>1, <3>2, Zenon
  <2>6. Says(s, q) /\ s # <<>>
    BY <2>1, <2>4 DEF FmtNatFits
  <2>7. Says(t, n) /\ Len(t) = Len(s) + 1
    BY <1>1, <2>3, <2>5, <2>6, SaysGrows
  <2>8. s \in Seq(Digit) /\ t \in Seq(Digit) /\ Len(s) \in Nat
    BY <2>6, <2>7, LenProperties DEF Says
  <2>9. t # <<>>
    BY <2>7, <2>8, EmptySeq
  <2>10. ASSUME NEW k \in Nat, k > 0 /\ n < PowerOfTen[k]
         PROVE  Len(t) <= k
    <3>1. PICK j \in Nat : k = j + 1
      <4>1. k - 1 \in Nat /\ k = (k - 1) + 1
        BY <2>10
      <4>2. QED
        BY <4>1
    <3>2. PICK p \in Nat : p = PowerOfTen[j] /\ PowerOfTen[k] = 10 * p
      BY <3>1, Powers DEF Ten
    <3>3. q < p
      BY <1>1, <2>10, <3>2
    <3>4. j # 0
      <4>1. j = 0 => p = 1
        BY <3>2, Powers
      <4>2. QED
        BY <2>3, <3>3, <4>1
    <3>5. Len(s) <= j
      BY <2>1, <2>4, <3>2, <3>3, <3>4 DEF FmtNatFits
    <3>6. QED
      BY <2>7, <2>8, <3>1, <3>5
  <2>11. \A k \in Nat : k > 0 /\ n < PowerOfTen[k] => Len(t) <= k
    BY <2>10
  <2>12. ~(n < 10)
    BY <1>3
  <2>13. QED
    BY <2>2, <2>7, <2>9, <2>11, <2>12, Zenon DEF FmtNatFits
<1>4. QED
  BY <1>2, <1>3

LEMMA FmtNatFacts ==
  ASSUME NEW n \in Nat
  PROVE  FmtNatFits(n)
<1> DEFINE G == {m \in Nat : \A k \in Nat : k <= m => FmtNatFits(k)}
<1>1. 0 \in G
  <2>1. FmtNatFits(0)
    BY FmtNatStepFits
  <2>2. \A k \in Nat : k <= 0 => k = 0
    OBVIOUS
  <2>3. QED
    BY <2>1, <2>2
<1>2. \A m \in Nat : m \in G => m + 1 \in G
  <2> SUFFICES ASSUME NEW m \in Nat, m \in G PROVE m + 1 \in G
    <3> HIDE DEF G
    <3>1. QED
      OBVIOUS
  <2>1. ASSUME NEW k \in Nat, k <= m + 1
        PROVE  FmtNatFits(k)
    <3>1. CASE k < 10
      BY <3>1, FmtNatStepFits
    <3>2. CASE k >= 10
      <4>1. k \div 10 \in Nat /\ k \div 10 <= m
        BY <2>1, <3>2
      <4>2. FmtNatFits(k \div 10)
        BY <4>1
      <4>3. QED
        BY <4>2, FmtNatStepFits
    <3>3. QED
      BY <3>1, <3>2
  <2>2. QED
    BY <2>1
<1>3. \A m \in Nat : m \in G
  <2> HIDE DEF G
  <2>1. QED
    BY <1>1, <1>2, NatSetInduction
<1>4. n \in G /\ n <= n
  BY <1>3
<1>5. QED
  BY <1>4

(* The digits of a negative number. *)

LEMMA SplitFacts ==
  ASSUME NEW n \in Int
  PROVE  /\ SplitDigit(n).rest \in Int /\ SplitDigit(n).digit \in 0 .. 9
         /\ n > 0 => SplitDigit(n).rest \in 0 .. n - 1
         /\ n < 0 => /\ SplitDigit(n).rest \in n + 1 .. 0
                     /\ -n = 10 * (-SplitDigit(n).rest) + SplitDigit(n).digit
<1>1. PICK q \in Int, r \in 0 .. 9 : n \div 10 = q /\ n % 10 = r /\ n = 10 * q + r
  BY DivideByTen
<1>2. PICK split : split = SplitDigit(n)
  OBVIOUS
<1>3. split = IF q < 0 /\ r # 0 THEN [rest |-> q + 1, digit |-> 10 - r]
                               ELSE [rest |-> q, digit |-> r]
  <2>1. split = IF n \div 10 < 0 /\ n % 10 # 0
                THEN [rest |-> n \div 10 + 1, digit |-> 10 - (n % 10)]
                ELSE [rest |-> n \div 10, digit |-> n % 10]
    BY <1>2, Zenon DEF SplitDigit, Ten
  <2>2. QED
    BY <1>1, <2>1, Zenon
<1>4. CASE q < 0 /\ r # 0
  <2>1. split.rest = q + 1 /\ split.digit = 10 - r
    BY <1>3, <1>4
  <2>2. n < 0 /\ -n = 10 * (-(q + 1)) + (10 - r) /\ q + 1 \in n + 1 .. 0
    BY <1>1, <1>4
  <2>3. ~(n > 0) /\ 10 - r \in 0 .. 9 /\ q + 1 \in Int
    BY <1>1, <1>4
  <2>4. QED
    BY <1>2, <2>1, <2>2, <2>3, Zenon
<1>5. CASE ~(q < 0 /\ r # 0)
  <2>1. split.rest = q /\ split.digit = r
    BY <1>3, <1>5
  <2>2. n > 0 => q \in 0 .. n - 1
    BY <1>1
  <2>3. n < 0 => -n = 10 * (-q) + r /\ q \in n + 1 .. 0
    BY <1>1, <1>5
  <2>4. split.rest \in Int /\ split.digit \in 0 .. 9
    BY <2>1
  <2>5. n > 0 => split.rest \in 0 .. n - 1
    BY <2>1, <2>2
  <2>6. n < 0 => split.rest \in n + 1 .. 0 /\ -n = 10 * (-split.rest) + split.digit
    BY <2>1, <2>3
  <2>7. QED
    BY <1>2, <2>4, <2>5, <2>6, Zenon
<1>6. QED
  BY <1>4, <1>5

NegativeStep(h, n) ==
  IF n = 0 THEN <<>> ELSE LET split == SplitDigit(n) IN Append(h[split.rest], DigitOf(split.digit))

LEMMA NegativeDigitsExist == \E f : f = [n \in Int |-> NegativeStep(f, n)]
<1>1. PICK D : D = Int
  OBVIOUS
<1>2. PICK rank : rank = [n \in D |-> IF n < 0 THEN -n ELSE n]
  OBVIOUS
<1>3. PICK rest : rest = [n \in D |-> IF n = 0 THEN 0 ELSE SplitDigit(n).rest]
  OBVIOUS
<1>4. PICK V : V = Seq(Digit)
  OBVIOUS
<1>5. PICK next : next = [n \in D |-> [v \in V |->
                     IF n = 0 THEN <<>> ELSE Append(v, DigitOf(SplitDigit(n).digit))]]
  OBVIOUS
<1>6. ASSUME NEW n \in D
      PROVE  rank[n] \in Nat /\ rest[n] \in D /\ (n # 0 => rank[rest[n]] < rank[n])
  <2>1. rest[n] \in Int /\ (n > 0 => rest[n] \in 0 .. n - 1) /\ (n < 0 => rest[n] \in n + 1 .. 0)
    BY <1>1, <1>3, SplitFacts
  <2>2. QED
    BY <1>1, <1>2, <2>1
<1>7. ASSUME NEW n \in D, NEW v \in V
      PROVE  next[n][v] \in V
  <2>1. SplitDigit(n).digit \in 0 .. 9
    BY <1>1, SplitFacts
  <2>2. Append(v, DigitOf(SplitDigit(n).digit)) \in V
    BY <1>4, <2>1, DigitOfFacts, AppendProperties
  <2>3. <<>> \in V
    BY <1>4, EmptyText
  <2>4. QED
    BY <1>5, <2>2, <2>3
<1>8. /\ rank \in [D -> Nat] /\ rest \in [D -> D] /\ next \in [D -> [V -> V]] /\ V # {}
  <2>1. rank \in [D -> Nat]
    BY <1>2, <1>6
  <2>2. rest \in [D -> D]
    BY <1>3, <1>6
  <2>3. next \in [D -> [V -> V]]
    BY <1>5, <1>7
  <2>4. V # {}
    BY <1>4, EmptyText
  <2>5. QED
    BY <2>1, <2>2, <2>3, <2>4
<1>9. ASSUME NEW n \in D
      PROVE  rank[rest[n]] < rank[n] \/ \A v, w \in V : next[n][v] = next[n][w]
  <2>1. n = 0 => \A v, w \in V : next[n][v] = next[n][w]
    BY <1>5
  <2>2. QED
    BY <1>6, <2>1
<1>10. IsRecursion(D, V, rank, rest, next)
  BY <1>8, <1>9 DEF IsRecursion
<1>11. PICK f \in [D -> V] : \A n \in D : f[n] = next[n][f[rest[n]]]
  BY <1>10, RecursionIsDefined
<1>12. ASSUME NEW n \in D
       PROVE  f[n] = NegativeStep(f, n)
  <2>1. f[rest[n]] \in V /\ f[n] = next[n][f[rest[n]]]
    BY <1>6, <1>11
  <2>2. f[n] = IF n = 0 THEN <<>> ELSE Append(f[rest[n]], DigitOf(SplitDigit(n).digit))
    BY <1>5, <2>1
  <2>3. n # 0 => rest[n] = SplitDigit(n).rest
    BY <1>3
  <2>4. QED
    BY <2>2, <2>3 DEF NegativeStep
<1>13. f = [n \in D |-> NegativeStep(f, n)]
  <2>1. f = [n \in D |-> f[n]]
    BY <1>11
  <2>2. QED
    BY <1>12, <2>1
<1>14. QED
  BY <1>1, <1>13

LEMMA NegativeDigitsUnfold ==
  ASSUME NEW n \in Int
  PROVE  NegativeDigits[n] =
           IF n = 0 THEN <<>>
           ELSE Append(NegativeDigits[SplitDigit(n).rest], DigitOf(SplitDigit(n).digit))
<1> DEFINE F == NegativeDigits
<1>1. F = CHOOSE f : f = [m \in Int |-> NegativeStep(f, m)]
  BY DEF NegativeDigits, NegativeStep
<1> HIDE DEF F
<1>2. F = [m \in Int |-> NegativeStep(F, m)]
  BY <1>1, NegativeDigitsExist
<1>3. F[n] = NegativeStep(F, n)
  BY <1>2
<1>4. QED
  BY <1>3 DEF F, NegativeStep

(* They are those of its absolute value. *)
LEMMA NegativeDigitsFacts ==
  ASSUME NEW n \in Nat
  PROVE  Says(NegativeDigits[-n], n)
<1> DEFINE G == {m \in Nat : \A k \in Nat : k <= m => Says(NegativeDigits[-k], k)}
<1>1. Says(NegativeDigits[0], 0)
  <2>1. NegativeDigits[0] = <<>>
    BY NegativeDigitsUnfold
  <2>2. QED
    BY <2>1, EmptyText DEF Says
<1>2. 0 \in G
  <2>1. \A k \in Nat : k <= 0 => k = 0 /\ -k = 0
    OBVIOUS
  <2>2. QED
    BY <1>1, <2>1
<1>3. \A m \in Nat : m \in G => m + 1 \in G
  <2> SUFFICES ASSUME NEW m \in Nat, m \in G PROVE m + 1 \in G
    <3> HIDE DEF G
    <3>1. QED
      OBVIOUS
  <2>1. ASSUME NEW k \in Nat, k <= m + 1
        PROVE  Says(NegativeDigits[-k], k)
    <3>1. CASE k = 0
      <4>1. \A j \in Nat : j <= 0 => -j = 0
        OBVIOUS
      <4>2. k <= 0
        BY <3>1
      <4>3. -k = 0
        BY <4>1, <4>2, Zenon
      <4>4. QED
        BY <1>1, <3>1, <4>3, Zenon
    <3>2. CASE k # 0
      <4>1. PICK l \in Int : l = -k
        OBVIOUS
      <4>2. l < 0 /\ -l = k
        BY <3>2, <4>1
      <4>3. PICK q : q = SplitDigit(l).rest
        OBVIOUS
      <4>4. PICK d : d = SplitDigit(l).digit
        OBVIOUS
      <4>5. q \in l + 1 .. 0 /\ d \in 0 .. 9 /\ k = 10 * (-q) + d
        BY <4>2, <4>3, <4>4, SplitFacts
      <4>6. PICK j \in Nat : j = -q /\ -j = q /\ j <= m /\ k = 10 * j + d
        <5>1. -q \in Nat /\ -(-q) = q /\ -q <= m
          BY <2>1, <4>1, <4>5
        <5>2. QED
          BY <4>5, <5>1
      <4>7. PICK s : s = NegativeDigits[q]
        OBVIOUS
      <4>8. PICK t : t = NegativeDigits[l]
        OBVIOUS
      <4>9. Says(s, j)
        BY <4>6, <4>7
      <4>10. t = Append(s, DigitOf(d))
        <5>1. l # 0
          BY <4>2
        <5>2. QED
          BY <4>3, <4>4, <4>7, <4>8, <5>1, NegativeDigitsUnfold, Zenon
      <4>11. j > 0 \/ s = <<>>
        <5>1. CASE j = 0
          <6>1. q = 0
            BY <4>6, <5>1
          <6>2. QED
            BY <4>7, <6>1, NegativeDigitsUnfold
        <5>2. CASE j # 0
          BY <5>2
        <5>3. QED
          BY <5>1, <5>2
      <4>12. Says(t, 10 * j + d)
        BY <4>5, <4>9, <4>10, <4>11, SaysGrows
      <4>13. QED
        BY <4>1, <4>6, <4>8, <4>12
    <3>3. QED
      BY <3>1, <3>2
  <2>2. QED
    BY <2>1
<1>4. \A m \in Nat : m \in G
  <2> HIDE DEF G
  <2>1. QED
    BY <1>2, <1>3, NatSetInduction
<1>5. n \in G /\ n <= n
  BY <1>4
<1>6. QED
  BY <1>5

-----------------------------------------------------------------------------
(* Texts with digits behind them. *)

(* A text that is not empty is a shorter one and a digit. *)
LEMMA LastDigit ==
  ASSUME NEW b \in Seq(Digit), NEW k \in Nat, Len(b) = k + 1
  PROVE  \E a \in Seq(Digit), d \in Digit : b = Append(a, d) /\ Len(a) = k
<1>1. PICK d : d = b[k + 1]
  OBVIOUS
<1>2. PICK a : a = SubSeq(b, 1, k)
  OBVIOUS
<1>3. 1 \in 1 .. Len(b) /\ k + 1 \in 1 .. Len(b) /\ k + 1 \in 1 .. k + 1 /\ (k + 1) - 1 = k
  OBVIOUS
<1>4. d \in Digit
  BY <1>1, <1>3, ElementOfSeq
<1>5. a \in Seq(Digit) /\ Len(a) = k
  <2>1. \A i \in 1 .. k : b[i] \in Digit
    BY ElementOfSeq
  <2>2. k - 1 + 1 = k /\ ~(1 <= k) => k = 0
    OBVIOUS
  <2>3. Len(a) = IF 1 <= k THEN k - 1 + 1 ELSE 0
    BY <1>2, <2>1, SubSeqProperties
  <2>4. Len(a) = k
    BY <2>3
  <2>5. a \in Seq(Digit)
    BY <1>2, <2>1, SubSeqProperties
  <2>6. QED
    BY <2>4, <2>5
<1>6. b = a \o <<d>>
  <2>1. SubSeq(b, 1, k + 1) = b
    BY SubSeqFull
  <2>2. PICK n \in 1 .. Len(b) : n = k + 1 /\ n - 1 = k
    BY <1>3
  <2>3. SubSeq(b, 1, n) = SubSeq(b, 1, n - 1) \o <<b[n]>>
    BY <1>3, <2>2, SubSeqRecursiveSecond
  <2>4. QED
    BY <1>1, <1>2, <2>1, <2>2, <2>3
<1>7. b = Append(a, d)
  BY <1>4, <1>5, <1>6, AppendIsConcat
<1>8. QED
  BY <1>4, <1>5, <1>7

LEMMA MagnitudeOfDigits ==
  ASSUME NEW s \in Seq(Byte), NEW b \in Seq(Digit)
  PROVE  Magnitude(s \o b) = Magnitude(s) * PowerOfTen[Len(b)] + Magnitude(b)
<1> DEFINE Adds(a) == Magnitude(s \o a) = Magnitude(s) * PowerOfTen[Len(a)] + Magnitude(a)
           G == {k \in Nat : \A a \in Seq(Digit) : Len(a) = k => Adds(a)}
<1>1. PICK m \in Nat : m = Magnitude(s)
  BY WeightedNat
<1>2. 0 \in G
  <2>1. ASSUME NEW a \in Seq(Digit), Len(a) = 0
        PROVE  Adds(a)
    <3>1. a = <<>>
      BY <2>1, EmptySeq
    <3>2. s \o a = s
      BY <3>1, ConcatEmptySeq
    <3>3. PowerOfTen[Len(a)] = 1 /\ Magnitude(a) = 0
      BY <2>1, <3>1, Powers, EmptyText
    <3>4. m = m * 1 + 0
      OBVIOUS
    <3>5. QED
      BY <1>1, <3>2, <3>3, <3>4
  <2> HIDE DEF Adds
  <2>2. QED
    BY <2>1
<1>3. \A k \in Nat : k \in G => k + 1 \in G
  <2> SUFFICES ASSUME NEW k \in Nat, k \in G PROVE k + 1 \in G
    <3> HIDE DEF G
    <3>1. QED
      OBVIOUS
  <2>1. ASSUME NEW c \in Seq(Digit), Len(c) = k + 1
        PROVE  Adds(c)
    <3>1. PICK a \in Seq(Digit), d \in Digit : c = Append(a, d) /\ Len(a) = k
      BY <2>1, LastDigit
    <3>2. Adds(a)
      <4> HIDE DEF Adds
      <4>1. QED
        BY <3>1
    <3>3. a \in Seq(Byte) /\ c \in Seq(Byte) /\ d \in Byte /\ s \o a \in Seq(Byte)
      <4>1. a \in Seq(Byte) /\ c \in Seq(Byte)
        BY DigitText
      <4>2. d \in Byte
        BY DEF Byte
      <4>3. QED
        BY <4>1, <4>2, ConcatProperties
    <3>4. s \o c = Append(s \o a, d)
      <4>1. c = a \o <<d>> /\ Append(s \o a, d) = (s \o a) \o <<d>>
        BY <3>1, <3>3, AppendIsConcat
      <4>2. <<d>> \in Seq(Byte)
        BY <3>3
      <4>3. (s \o a) \o <<d>> = s \o (a \o <<d>>)
        BY <3>3, <4>2, ConcatAssociative
      <4>4. QED
        BY <4>1, <4>3
    <3>5. PICK v \in Nat : v = DigitValue[d]
      <4>1. DigitValue[d] \in 0 .. 9
        BY DigitFacts, Zenon
      <4>2. QED
        BY <4>1
    <3>6. Magnitude(s \o c) = 10 * Magnitude(s \o a) + v
      BY <3>3, <3>4, <3>5, MagnitudeGrows DEF Ten
    <3>7. Magnitude(c) = 10 * Magnitude(a) + v
      BY <3>1, <3>3, <3>5, MagnitudeGrows DEF Ten
    <3>8. PICK p \in Nat : p = PowerOfTen[k] /\ PowerOfTen[k + 1] = 10 * p
      BY Powers DEF Ten
    <3>9. PICK n \in Nat : n = Magnitude(a)
      BY <3>3, WeightedNat
    <3>10. Magnitude(s \o c) = 10 * (m * p + n) + v
      BY <1>1, <3>1, <3>2, <3>6, <3>8, <3>9
    <3>11. PICK x \in Nat : x = m * p /\ m * (10 * p) = 10 * x
      OBVIOUS
    <3>12. 10 * (x + n) + v = 10 * x + (10 * n + v)
      OBVIOUS
    <3>13. Magnitude(s \o c) = 10 * x + (10 * n + v)
      BY <3>10, <3>11, <3>12
    <3>14. Magnitude(c) = 10 * n + v
      BY <3>7, <3>9
    <3>15. Magnitude(s) * PowerOfTen[Len(c)] = 10 * x
      BY <1>1, <2>1, <3>8, <3>11
    <3>16. QED
      BY <3>13, <3>14, <3>15
  <2> HIDE DEF Adds
  <2>2. QED
    BY <2>1
<1>4. \A k \in Nat : k \in G
  <2> HIDE DEF G
  <2>1. QED
    BY <1>2, <1>3, NatSetInduction
<1>5. Len(b) \in G
  BY <1>4, LenProperties
<1>6. Adds(b)
  <2> HIDE DEF Adds
  <2>1. QED
    BY <1>5
<1>7. QED
  BY <1>6

IsExtension(t, s, b) ==
  /\ t \in Seq(Byte) /\ Len(t) = Len(s) + Len(b) /\ Len(s) \in Nat /\ Len(b) \in Nat
  /\ \A i \in 1 .. Len(s) : t[i] = s[i]
  /\ \A i \in 1 .. Len(b) : t[Len(s) + i] = b[i]
  /\ Magnitude(t) = Magnitude(s) * PowerOfTen[Len(b)] + Magnitude(b)
  /\ Points(t) = Points(s)
  /\ Legal(s) => Legal(t)
  /\ s # <<>> => (HasSign(t) <=> HasSign(s))
  /\ s = <<>> => ~HasSign(t)

LEMMA DigitsAppended ==
  ASSUME NEW s \in Seq(Byte), NEW b \in Seq(Digit), NEW t, t = s \o b
  PROVE  IsExtension(t, s, b)
<1>1. b \in Seq(Byte)
  BY DigitText
<1>2. /\ t \in Seq(Byte) /\ Len(t) = Len(s) + Len(b) /\ Len(s) \in Nat /\ Len(b) \in Nat
      /\ DOMAIN t = 1 .. Len(t) /\ DOMAIN s = 1 .. Len(s)
      /\ \A i \in 1 .. Len(t) : t[i] = IF i <= Len(s) THEN s[i] ELSE b[i - Len(s)]
  BY <1>1, ConcatProperties, LenProperties
<1>3. \A i \in 1 .. Len(s) : t[i] = s[i] /\ i \in 1 .. Len(t)
  BY <1>2
<1>4. \A i \in 1 .. Len(b) : t[Len(s) + i] = b[i]
  <2>1. ASSUME NEW i \in 1 .. Len(b)
        PROVE  t[Len(s) + i] = b[i]
    <3>1. PICK j \in 1 .. Len(t) : j = Len(s) + i /\ ~(j <= Len(s)) /\ j - Len(s) = i
      BY <1>2
    <3>2. QED
      BY <1>2, <3>1
  <2>2. QED
    BY <2>1
<1>5. \A i \in 1 .. Len(t) : i \in 1 .. Len(s) \/ (t[i] \in Digit /\ i # 1) \/ (t[i] \in Digit /\ s = <<>>)
  <2>1. ASSUME NEW i \in 1 .. Len(t), i \notin 1 .. Len(s)
        PROVE  t[i] \in Digit /\ (i # 1 \/ s = <<>>)
    <3>1. i - Len(s) \in 1 .. Len(b) /\ ~(i <= Len(s))
      BY <1>2, <2>1
    <3>2. t[i] \in Digit
      BY <1>2, <3>1, ElementOfSeq
    <3>3. i = 1 => s = <<>>
      BY <1>2, <2>1, EmptySeq
    <3>4. QED
      BY <3>2, <3>3
  <2>2. QED
    BY <2>1
<1>6. Magnitude(t) = Magnitude(s) * PowerOfTen[Len(b)] + Magnitude(b)
  BY MagnitudeOfDigits
<1>7. Points(t) = Points(s)
  BY <1>2, <1>3, <1>5, DigitFacts DEF Points
<1>8. s # <<>> => (HasSign(t) <=> HasSign(s))
  <2>1. s # <<>> => 1 \in 1 .. Len(s) /\ t # <<>>
    BY <1>2, EmptySeq
  <2>2. QED
    BY <1>3, <2>1 DEF HasSign
<1>9. s = <<>> => ~HasSign(t)
  <2>1. ASSUME s = <<>>, t # <<>>
        PROVE  t[1] \in Digit
    <3>1. 1 \in 1 .. Len(t) /\ 1 \notin 1 .. Len(s)
      BY <1>2, <2>1, EmptySeq
    <3>2. QED
      BY <1>5, <3>1
  <2>2. QED
    BY <2>1, DigitFacts DEF HasSign
<1>10. Legal(s) => Legal(t)
  <2>1. ASSUME Legal(s), NEW i \in DOMAIN t
        PROVE  t[i] \in Digit \cup {"."} \/ (i = 1 /\ HasSign(t))
    <3>1. CASE i \in 1 .. Len(s)
      <4>1. s # <<>> /\ t[i] = s[i] /\ i \in DOMAIN s
        BY <1>2, <1>3, <3>1, EmptySeq
      <4>2. QED
        BY <1>8, <2>1, <4>1 DEF Legal
    <3>2. CASE i \notin 1 .. Len(s)
      BY <1>2, <1>5, <3>2
    <3>3. QED
      BY <3>1, <3>2
  <2>2. QED
    BY <2>1 DEF Legal
<1>11. QED
  BY <1>2, <1>3, <1>4, <1>6, <1>7, <1>8, <1>9, <1>10 DEF IsExtension

LEMMA Reassociate ==
  ASSUME NEW s \in Seq(Byte), NEW a \in Seq(Byte), NEW b \in Seq(Byte)
  PROVE  s \o (a \o b) = (s \o a) \o b
BY ConcatAssociative

LEMMA PointPlaced ==
  ASSUME NEW m \in Seq(Byte), NEW a \in Seq(Byte), NEW b \in Seq(Byte)
  PROVE  m \o (a \o <<".">> \o b) = Append(m \o a, ".") \o b
<1>1. PICK p : p = <<".">>
  OBVIOUS
<1>2. p \in Seq(Byte) /\ "." \in Byte
  BY <1>1 DEF Byte
<1>3. PICK c : c = a \o p
  OBVIOUS
<1>4. c \in Seq(Byte) /\ m \o a \in Seq(Byte)
  BY <1>2, <1>3, ConcatProperties
<1>5. m \o (c \o b) = (m \o c) \o b
  BY <1>4, Reassociate
<1>6. m \o c = (m \o a) \o p
  BY <1>2, <1>3, Reassociate
<1>7. Append(m \o a, ".") = (m \o a) \o p
  BY <1>1, <1>2, <1>4, AppendIsConcat
<1>8. QED
  BY <1>1, <1>3, <1>5, <1>6, <1>7

(* The sign that is printed in front. *)
IsSign(m) == m = <<>> \/ (m = <<"-">> /\ Signed)

LEMMA SignText ==
  ASSUME NEW m, IsSign(m)
  PROVE  /\ m \in Seq(Byte) /\ Magnitude(m) = 0 /\ Points(m) = {} /\ Legal(m)
         /\ HasSign(m) <=> m # <<>>
         /\ m # <<>> => Len(m) = 1 /\ m[1] = "-"
<1>1. CASE m = <<>>
  <2>1. DOMAIN m = {}
    BY <1>1
  <2>2. Legal(m) /\ ~HasSign(m)
    BY <1>1, <2>1 DEF Legal, HasSign
  <2>3. QED
    BY <1>1, <2>2, EmptyText
<1>2. CASE m = <<"-">> /\ Signed
  <2>1. PICK e : e = <<>>
    OBVIOUS
  <2>2. e \in Seq(Byte) /\ Magnitude(e) = 0 /\ Points(e) = {} /\ Legal(e) /\ e = <<>>
    <3>1. DOMAIN e = {}
      BY <2>1
    <3>2. Legal(e)
      BY <3>1 DEF Legal
    <3>3. QED
      BY <2>1, <3>2, EmptyText
  <2>3. m = Append(e, "-") /\ m # <<>> /\ Len(m) = 1 /\ m[1] = "-"
    BY <1>2, <2>1
  <2>4. "-" \in Byte /\ "-" \notin Digit
    BY DigitFacts DEF Byte
  <2>5. m \in Seq(Byte)
    BY <2>2, <2>3, <2>4, AppendProperties
  <2>6. Magnitude(m) = 0
    BY <2>2, <2>3, <2>4, MagnitudeGrows
  <2>7. Points(m) = {}
    BY <2>2, <2>3, <2>4, PointsGrow
  <2>8. HasSign(m) /\ Legal(m)
    <3>1. /\ e = <<>> => (HasSign(Append(e, "-")) <=> Signed /\ "-" = "-")
          /\ Legal(Append(e, "-")) <=>
               Legal(e) /\ ("-" \in Digit \cup {"."} \/ (e = <<>> /\ Signed /\ "-" = "-"))
      BY <2>2, <2>4, SignStays, Zenon
    <3>2. QED
      BY <1>2, <2>2, <2>3, <3>1, Zenon
  <2>9. QED
    BY <2>3, <2>5, <2>6, <2>7, <2>8
<1>3. QED
  BY <1>1, <1>2 DEF IsSign

LEMMA UnsignedText ==
  ASSUME NEW m, IsSign(m), NEW u \in Seq(Byte), NEW t, t = m \o u, HasSign(t) <=> m # <<>>
  PROVE  Unsigned(t) = u /\ (Unsigned(t) = t <=> m = <<>>)
<1>1. m \in Seq(Byte) /\ (m # <<>> => Len(m) = 1 /\ m[1] = "-")
  BY SignText
<1>2. t \in Seq(Byte) /\ Len(t) = Len(m) + Len(u) /\ Len(m) \in Nat /\ Len(u) \in Nat
  BY <1>1, ConcatProperties, LenProperties
<1>3. Unsigned(t) = t <=> m = <<>>
  BY <1>2, SignFacts
<1>4. CASE m = <<>>
  <2>1. t = u
    BY <1>4, ConcatEmptySeq
  <2>2. QED
    BY <1>3, <1>4, <2>1
<1>5. CASE m # <<>>
  <2>1. Len(t) = 1 + Len(u) /\ Len(t) > 0 /\ t # <<>>
    <3>1. Len(t) = 1 + Len(u) /\ Len(t) > 0
      <4>1. Len(m) = 1
        BY <1>1, <1>5
      <4>2. QED
        BY <1>2, <4>1
    <3>2. t # <<>>
      BY <3>1, EmptySeq
    <3>3. QED
      BY <3>1, <3>2
  <2>2. Signed /\ t[1] = "-"
    BY <1>5 DEF HasSign
  <2>3. Unsigned(t) = Tail(t)
    BY <2>1, <2>2 DEF Unsigned
  <2>4. PICK v : v = Tail(t)
    OBVIOUS
  <2>5. v \in Seq(Byte) /\ Len(v) = Len(u) /\ \A i \in 1 .. Len(u) : v[i] = t[i + 1]
    <3>1. /\ v \in Seq(Byte) /\ Len(v) = Len(t) - 1
          /\ \A i \in 1 .. Len(v) : v[i] = t[i + 1]
      BY <1>2, <2>1, <2>4, HeadTailProperties
    <3>2. Len(v) = Len(u)
      BY <1>2, <2>1, <3>1
    <3>3. QED
      BY <3>1, <3>2
  <2>6. ASSUME NEW i \in 1 .. Len(u)
        PROVE  t[i + 1] = u[i]
    <3>1. PICK j \in 1 .. Len(m) + Len(u) : j = i + 1 /\ ~(j <= Len(m)) /\ j - Len(m) = i
      <4>1. Len(m) = 1
        BY <1>1, <1>5
      <4>2. i + 1 \in 1 .. 1 + Len(u) /\ ~(i + 1 <= 1) /\ (i + 1) - 1 = i
        BY <1>2
      <4>3. QED
        BY <4>1, <4>2
    <3>2. (m \o u)[j] = IF j <= Len(m) THEN m[j] ELSE u[j - Len(m)]
      BY <1>1, <3>1, ConcatProperties
    <3>3. QED
      BY <3>1, <3>2
  <2>7. v = u
    BY <2>5, <2>6, SeqEqual
  <2>8. QED
    BY <1>3, <2>3, <2>4, <2>7
<1>6. QED
  BY <1>4, <1>5

(* A sign, and digits. *)
LEMMA DigitsAlone ==
  ASSUME NEW m, IsSign(m), NEW a \in Seq(Digit), NEW t, t = m \o a
  PROVE  /\ t \in Seq(Byte) /\ Len(t) \in Nat /\ Magnitude(t) = Magnitude(a) /\ Points(t) = {}
         /\ Legal(t)
         /\ a # <<>> => t # <<>> /\ (HasSign(t) <=> m # <<>>) /\ ToSet(t) \cap Digit # {}
<1>1. /\ m \in Seq(Byte) /\ Magnitude(m) = 0 /\ Points(m) = {} /\ Legal(m)
      /\ HasSign(m) <=> m # <<>>
  BY SignText
<1>2. /\ t \in Seq(Byte) /\ Len(t) = Len(m) + Len(a) /\ Len(m) \in Nat /\ Len(a) \in Nat
      /\ \A i \in 1 .. Len(a) : t[Len(m) + i] = a[i]
      /\ Magnitude(t) = Magnitude(m) * PowerOfTen[Len(a)] + Magnitude(a)
      /\ Points(t) = {} /\ Legal(t)
      /\ m # <<>> => (HasSign(t) <=> HasSign(m))
      /\ m = <<>> => ~HasSign(t)
  <2>1. IsExtension(t, m, a)
    BY <1>1, DigitsAppended
  <2>2. QED
    BY <1>1, <2>1 DEF IsExtension
<1>3. Magnitude(t) = Magnitude(a)
  <2>1. PICK p \in Nat : p = PowerOfTen[Len(a)]
    BY <1>2, Powers
  <2>2. PICK n \in Nat : n = Magnitude(a)
    BY DigitText, WeightedNat
  <2>3. 0 * p + n = n
    OBVIOUS
  <2>4. QED
    BY <1>1, <1>2, <2>1, <2>2, <2>3
<1>4. ASSUME a # <<>>
      PROVE  t # <<>> /\ (HasSign(t) <=> m # <<>>) /\ ToSet(t) \cap Digit # {}
  <2>1. Len(a) > 0
    BY <1>4, EmptySeq
  <2>2. Len(t) # 0
    BY <1>2, <2>1
  <2>3. t # <<>>
    BY <2>2, EmptySeq
  <2>4. Len(m) + 1 \in DOMAIN t /\ 1 \in 1 .. Len(a)
    BY <1>2, <2>1, LenProperties
  <2>5. t[Len(m) + 1] = a[1] /\ a[1] \in Digit
    BY <1>2, <2>4, ElementOfSeq
  <2>6. ToSet(t) \cap Digit # {}
    BY <2>4, <2>5 DEF ToSet
  <2>7. QED
    BY <1>1, <1>2, <2>3, <2>6
<1>5. Len(t) \in Nat
  BY <1>2
<1>6. QED
  BY <1>2, <1>3, <1>4, <1>5

LEMMA PlainForm ==
  ASSUME NEW m, IsSign(m), NEW a \in Seq(Digit), a # <<>>, NEW t, t = m \o a,
         format.precision \in Nat
  PROVE  /\ IsDecimal(t) /\ Decimals(t) = 0 /\ Magnitude(t) = Magnitude(a)
         /\ Unsigned(t) = a /\ (Unsigned(t) = t <=> m = <<>>)
<1>1. /\ t \in Seq(Byte) /\ Magnitude(t) = Magnitude(a) /\ Points(t) = {} /\ Legal(t)
      /\ (HasSign(t) <=> m # <<>>) /\ ToSet(t) \cap Digit # {}
  BY DigitsAlone
<1>2. Unsigned(t) = a /\ (Unsigned(t) = t <=> m = <<>>)
  <2>1. a \in Seq(Byte)
    BY DigitText
  <2>2. QED
    BY <1>1, <2>1, UnsignedText
<1>3. Decimals(t) = 0
  BY <1>1 DEF Decimals
<1>4. ToSet(Unsigned(t)) \subseteq Digit \cup {"."}
  BY <1>1, SignFacts
<1>5. Cardinality(Points(t)) <= 1
  <2>1. Cardinality(Points(t)) = 0
    BY <1>1, FS_EmptySet, Zenon
  <2>2. QED
    BY <2>1
<1>6. Decimals(t) <= format.precision
  BY <1>3
<1>7. IsDecimal(t)
  BY <1>1, <1>4, <1>5, <1>6 DEF IsDecimal, BeginsDecimal
<1>8. QED
  BY <1>1, <1>2, <1>3, <1>7

(* Digits, a point, and as many digits as the format has decimals. *)
IsSplit(u, a, b) ==
  /\ a \in Seq(Digit) /\ a # <<>> /\ b \in Seq(Digit) /\ Len(b) = format.precision
  /\ u = a \o <<".">> \o b

(* What such a text says with a sign in front. *)
ReadsBack(t, m, u, a, b) ==
  /\ IsDecimal(t) /\ Decimals(t) = format.precision
  /\ Magnitude(t) = Magnitude(a) * PowerOfTen[Len(b)] + Magnitude(b)
  /\ Unsigned(t) = u /\ (Unsigned(t) = t <=> m = <<>>)
  /\ u[1] = a[1] /\ u[Len(a) + 1] = "."

LEMMA PointForm ==
  ASSUME NEW m, IsSign(m), NEW a, NEW b, NEW u, IsSplit(u, a, b), NEW t, t = m \o u
  PROVE  ReadsBack(t, m, u, a, b)
<1> USE DEF IsSplit
<1>1. PICK v : v = m \o a
  OBVIOUS
<1>2. /\ v \in Seq(Byte) /\ Len(v) \in Nat /\ Magnitude(v) = Magnitude(a) /\ Points(v) = {}
      /\ Legal(v) /\ v # <<>> /\ (HasSign(v) <=> m # <<>>) /\ ToSet(v) \cap Digit # {}
  BY <1>1, DigitsAlone
<1>3. PICK w : w = Append(v, ".")
  OBVIOUS
<1>4. "." \in Byte /\ "." \notin Digit
  BY DigitFacts DEF Byte
<1>5. /\ w \in Seq(Byte) /\ Len(w) = Len(v) + 1 /\ w # <<>>
      /\ DOMAIN v \subseteq DOMAIN w /\ \A i \in DOMAIN v : w[i] = v[i]
  <2>1. PICK last : last = Len(v) + 1
    OBVIOUS
  <2>2. /\ w \in Seq(Byte) /\ Len(w) = last /\ w # <<>>
        /\ DOMAIN w = DOMAIN v \cup {last} /\ \A i \in DOMAIN v : w[i] = v[i]
    BY <1>2, <1>3, <1>4, <2>1, PlacesGrow
  <2>3. QED
    BY <2>1, <2>2
<1>6. Magnitude(w) = Magnitude(a)
  BY <1>2, <1>3, <1>4, MagnitudeGrows
<1>7. Points(w) = {Len(w)}
  BY <1>2, <1>3, <1>4, <1>5, PointsGrow
<1>8. (HasSign(w) <=> m # <<>>) /\ Legal(w)
  BY <1>2, <1>3, <1>4, SignStays
<1>9. a \in Seq(Byte) /\ b \in Seq(Byte) /\ m \in Seq(Byte) /\ <<".">> \in Seq(Byte)
  BY <1>4, DigitText, SignText
<1>10. PICK c : c = a \o <<".">>
  OBVIOUS
<1>11. c = Append(a, ".") /\ c \in Seq(Byte) /\ u = c \o b /\ u \in Seq(Byte)
  BY <1>4, <1>9, <1>10, AppendIsConcat, ConcatProperties
<1>12. t = w \o b
  BY <1>1, <1>3, <1>9, PointPlaced
<1>13. /\ t \in Seq(Byte) /\ Len(t) = Len(w) + Len(b) /\ Len(w) \in Nat /\ Len(b) \in Nat
       /\ \A i \in 1 .. Len(w) : t[i] = w[i]
       /\ Magnitude(t) = Magnitude(a) * PowerOfTen[Len(b)] + Magnitude(b)
       /\ Points(t) = {Len(w)} /\ Legal(t) /\ (HasSign(t) <=> m # <<>>)
  <2>1. /\ t \in Seq(Byte) /\ Len(t) = Len(w) + Len(b) /\ Len(w) \in Nat /\ Len(b) \in Nat
        /\ \A i \in 1 .. Len(w) : t[i] = w[i]
        /\ Magnitude(t) = Magnitude(w) * PowerOfTen[Len(b)] + Magnitude(b)
        /\ Points(t) = Points(w)
        /\ Legal(w) => Legal(t)
        /\ w # <<>> => (HasSign(t) <=> HasSign(w))
    <3>1. IsExtension(t, w, b)
      BY <1>5, <1>12, DigitsAppended
    <3>2. QED
      BY <3>1 DEF IsExtension
  <2>2. QED
    BY <1>5, <1>6, <1>7, <1>8, <2>1, Zenon
<1>14. Unsigned(t) = u /\ (Unsigned(t) = t <=> m = <<>>)
  BY <1>11, <1>13, UnsignedText
<1>15. Cardinality(Points(t)) <= 1
  <2>1. Cardinality(Points(t)) = 1
    BY <1>13, FS_Singleton, Zenon
  <2>2. QED
    BY <2>1
<1>16. Decimals(t) = format.precision
  <2>1. PICK p \in DOMAIN t : Points(t) = {p} /\ Decimals(t) = Len(t) - p
    BY <1>13, <1>15, PointFacts
  <2>2. p = Len(w)
    BY <1>13, <2>1
  <2>3. QED
    BY <1>13, <2>1, <2>2
<1>17. ToSet(t) \cap Digit # {}
  <2>1. PICK i \in DOMAIN v : v[i] \in Digit
    BY <1>2 DEF ToSet
  <2>2. i \in DOMAIN w /\ w[i] \in Digit
    BY <1>5, <2>1
  <2>3. i \in 1 .. Len(w)
    BY <1>5, <2>2, LenProperties
  <2>4. i \in DOMAIN t
    BY <1>13, <2>3, LenProperties
  <2>5. t[i] \in Digit
    BY <1>13, <2>2, <2>3
  <2>6. QED
    BY <2>4, <2>5 DEF ToSet
<1>18. IsDecimal(t)
  <2>1. ToSet(Unsigned(t)) \subseteq Digit \cup {"."}
    BY <1>13, SignFacts
  <2>2. Decimals(t) <= format.precision
    BY <1>13, <1>16
  <2>3. QED
    BY <1>15, <1>17, <2>1, <2>2 DEF IsDecimal, BeginsDecimal
<1>19. u[1] = a[1] /\ u[Len(a) + 1] = "."
  <2>1. /\ Len(c) = Len(a) + 1 /\ Len(a) \in Nat /\ c[Len(a) + 1] = "."
        /\ \A i \in 1 .. Len(a) : c[i] = a[i]
    BY <1>4, <1>9, <1>11, AppendProperties, LenProperties
  <2>2. \A i \in 1 .. Len(c) : u[i] = c[i]
    BY <1>11, DigitsAppended DEF IsExtension
  <2>3. 1 \in 1 .. Len(a)
    BY <2>1, EmptySeq
  <2>4. 1 \in 1 .. Len(c) /\ Len(a) + 1 \in 1 .. Len(c)
    BY <2>1, <2>3
  <2>5. u[1] = c[1]
    BY <2>2, <2>4
  <2>6. u[Len(a) + 1] = c[Len(a) + 1]
    BY <2>2, <2>4
  <2>7. QED
    BY <2>1, <2>3, <2>5, <2>6
<1>20. QED
  BY <1>13, <1>14, <1>16, <1>18, <1>19 DEF ReadsBack

-----------------------------------------------------------------------------
(* Printing. *)

LEMMA ZerosFacts ==
  ASSUME NEW k \in Int
  PROVE  /\ Zeros(k) \in Seq(Digit) /\ Magnitude(Zeros(k)) = 0
         /\ Len(Zeros(k)) = IF k > 0 THEN k ELSE 0
<1>1. PICK n \in Nat : n = IF k > 0 THEN k ELSE 0
  <2>1. (IF k > 0 THEN k ELSE 0) \in Nat
    OBVIOUS
  <2>2. QED
    BY <2>1
<1>2. PICK z : z = Zeros(k)
  OBVIOUS
<1>3. "0" \in Digit /\ DigitValue["0"] = 0
  <2>1. DigitOf(0) = "0" /\ 0 \in 0 .. 9
    BY DigitOfFacts
  <2>2. QED
    BY <2>1, DigitOfFacts
<1>4. z = [i \in 1 .. n |-> "0"]
  <2>1. 1 .. k = 1 .. n
    BY <1>1
  <2>2. z = [i \in 1 .. k |-> "0"]
    BY <1>2 DEF Zeros
  <2>3. QED
    BY <2>1, <2>2, Zenon
<1>5. z \in Seq(Digit)
  <2>1. z \in [1 .. n -> Digit]
    BY <1>3, <1>4
  <2>2. QED
    BY <2>1, SeqDef
<1>6. Len(z) = n
  <2>1. Len(z) \in Nat /\ DOMAIN z = 1 .. Len(z)
    BY <1>5, LenProperties
  <2>2. PICK l \in Nat : l = Len(z)
    BY <2>1
  <2>3. 1 .. n = 1 .. l
    BY <1>4, <2>1, <2>2
  <2>4. \A i, j \in Nat : i < j => j \in 1 .. j /\ j \notin 1 .. i
    OBVIOUS
  <2>5. ~(n < l) /\ ~(l < n)
    BY <2>3, <2>4
  <2>6. QED
    BY <2>2, <2>5
<1>7. z \in Seq(Byte)
  BY <1>5, DigitText
<1>8. PICK P : P = DigitPlaces(z)
  OBVIOUS
<1>9. PICK f : f = Weighted(z)
  OBVIOUS
<1>10. ASSUME NEW i \in P
       PROVE  f[i] \in Nat /\ f[i] = 10 * f[i]
  <2>1. z[i] = "0"
    BY <1>4, <1>8 DEF DigitPlaces
  <2>2. PICK c \in Nat : c = Cardinality({j \in P : j > i})
    BY <1>7, <1>8, WeightedNat
  <2>3. PICK p \in Nat : p = PowerOfTen[c]
    BY Powers
  <2>4. f[i] = DigitValue[z[i]] * PowerOfTen[c]
    BY <1>8, <1>9, <2>2 DEF Weighted
  <2>5. f[i] = 0 * p
    BY <1>3, <2>1, <2>3, <2>4
  <2>6. f[i] = 0
    BY <2>5
  <2>7. QED
    BY <2>6
<1>11. Magnitude(z) = SumFunctionOnSet(f, P) /\ Magnitude(z) \in Nat /\ IsFiniteSet(P)
  BY <1>7, <1>8, <1>9, WeightedNat, PlacesFinite
<1>12. SumFunctionOnSet(f, P) = 10 * SumFunctionOnSet(f, P)
  BY <1>10, <1>11, SumTenfold
<1>13. Magnitude(z) = 0
  BY <1>11, <1>12
<1>14. QED
  BY <1>1, <1>2, <1>5, <1>6, <1>13

LEMMA PadToFacts ==
  ASSUME NEW width \in Nat, NEW s \in Seq(Digit)
  PROVE  /\ PadTo(width, s) \in Seq(Digit) /\ Magnitude(PadTo(width, s)) = Magnitude(s)
         /\ Len(s) <= width => Len(PadTo(width, s)) = width
         /\ Len(s) > width => PadTo(width, s) = s
<1>1. PICK k \in Int : k = width - Len(s)
  <2>1. Len(s) \in Nat
    BY LenProperties
  <2>2. width - Len(s) \in Int
    BY <2>1
  <2>3. QED
    BY <2>2
<1>2. PICK z : z = Zeros(k)
  OBVIOUS
<1>3. PICK t : t = z \o s
  OBVIOUS
<1>4. PadTo(width, s) = t
  BY <1>1, <1>2, <1>3 DEF PadTo
<1>5. z \in Seq(Digit) /\ Magnitude(z) = 0 /\ Len(z) = IF k > 0 THEN k ELSE 0
  BY <1>2, ZerosFacts
<1>6. z \in Seq(Byte)
  BY <1>5, DigitText
<1>7. t \in Seq(Digit)
  BY <1>3, <1>5, ConcatProperties
<1>8. IsExtension(t, z, s)
  BY <1>3, <1>6, DigitsAppended
<1>9. Len(t) = Len(z) + Len(s) /\ Len(z) \in Nat /\ Len(s) \in Nat
  BY <1>8 DEF IsExtension
<1>10. Magnitude(t) = Magnitude(s)
  <2>1. PICK p \in Nat : p = PowerOfTen[Len(s)]
    BY <1>9, Powers
  <2>2. PICK n \in Nat : n = Magnitude(s)
    BY DigitText, WeightedNat
  <2>3. 0 * p + n = n
    OBVIOUS
  <2>4. Magnitude(t) = Magnitude(z) * PowerOfTen[Len(s)] + Magnitude(s)
    BY <1>8 DEF IsExtension
  <2>5. QED
    BY <1>5, <2>1, <2>2, <2>3, <2>4
<1>11. Len(s) <= width => Len(t) = width
  <2>1. Len(s) <= width => Len(z) = width - Len(s)
    BY <1>1, <1>5, <1>9
  <2>2. QED
    BY <1>9, <2>1
<1>12. Len(s) > width => t = s
  <2>1. Len(s) > width => Len(z) = 0
    BY <1>1, <1>5, <1>9
  <2>2. Len(z) = 0 => z = <<>>
    BY <1>5, EmptySeq
  <2>3. QED
    BY <1>3, <2>1, <2>2, ConcatEmptySeq
<1>13. QED
  BY <1>4, <1>7, <1>10, <1>11, <1>12

(* The digits of a number around the point, with one zero in front of it   *)
(* at most.                                                                *)
IsPointForm(u, n) ==
  \E a, b :
    /\ IsSplit(u, a, b)
    /\ Magnitude(a) * PowerOfTen[Len(b)] + Magnitude(b) = n
    /\ a[1] = "0" => Len(a) = 1

LEMMA FmtAbsForm ==
  ASSUME NEW abs \in Nat, format.precision \in Nat, format.precision > 0,
         FractionsPerUnit = {} => abs < PowerOfTen[format.precision]
  PROVE  IsPointForm(FmtAbs(abs), abs)
<1>1. PICK k \in Nat : k = format.precision /\ k > 0
  OBVIOUS
<1>2. PICK p \in Nat : p = PowerOfTen[k] /\ p > 0
  <2>1. PowerOfTen[k] \in Nat \ {0}
    BY Powers
  <2>2. QED
    BY <2>1
<1>3. PICK int : int = IF FractionsPerUnit = {} THEN 0 ELSE abs \div PowerOfTen[k]
  OBVIOUS
<1>4. PICK frac : frac = IF FractionsPerUnit = {} THEN abs ELSE abs % PowerOfTen[k]
  OBVIOUS
<1>5. PICK a : a = FmtNat[int]
  OBVIOUS
<1>6. PICK c : c = FmtNat[frac]
  OBVIOUS
<1>7. PICK b : b = PadTo(k, c)
  OBVIOUS
<1>8. FmtAbs(abs) = a \o <<".">> \o b
  BY <1>1, <1>3, <1>4, <1>5, <1>6, <1>7, Zenon DEF FmtAbs
<1>9. int \in Nat /\ frac \in 0 .. p - 1 /\ int * p + frac = abs
  <2>1. CASE FractionsPerUnit = {}
    <3>1. int = 0 /\ frac = abs /\ abs < p
      BY <1>1, <1>2, <1>3, <1>4, <2>1
    <3>2. 0 * p + abs = abs /\ abs \in 0 .. p - 1
      BY <3>1
    <3>3. QED
      BY <3>1, <3>2
  <2>2. CASE FractionsPerUnit # {}
    <3>1. int = abs \div p /\ frac = abs % p
      BY <1>2, <1>3, <1>4, <2>2, Zenon
    <3>2. PICK q \in Int, r \in 0 .. p - 1 : abs \div p = q /\ abs % p = r /\ abs = p * q + r
      <4>1. abs \in Int
        OBVIOUS
      <4>2. QED
        BY <1>2, <4>1, Divide
    <3>3. int = q /\ frac = r
      BY <3>1, <3>2, Zenon
    <3>4. q >= 0
      <4>1. CASE q < 0
        <5>1. q + 1 <= 0 /\ p * (q + 1) = p * q + p
          BY <4>1
        <5>2. p * (q + 1) <= 0
          BY <5>1
        <5>3. QED
          BY <3>2, <5>1, <5>2
      <4>2. QED
        BY <4>1
    <3>5. p * q = q * p
      OBVIOUS
    <3>6. QED
      BY <3>2, <3>3, <3>4, <3>5
  <2>3. QED
    BY <2>1, <2>2
<1>10. Says(a, int) /\ a # <<>> /\ (int < 10 => Len(a) = 1)
  BY <1>5, <1>9, FmtNatFacts DEF FmtNatFits
<1>11. Says(c, frac) /\ Len(c) <= k
  <2>1. frac \in Nat /\ frac < PowerOfTen[k]
    BY <1>2, <1>9
  <2>2. QED
    BY <1>1, <1>6, <2>1, FmtNatFacts DEF FmtNatFits
<1>12. a \in Seq(Digit) /\ Magnitude(a) = int /\ (a[1] = "0" => Len(a) = 1)
  BY <1>9, <1>10 DEF Says
<1>13. c \in Seq(Digit) /\ Magnitude(c) = frac
  BY <1>11 DEF Says
<1>14. b \in Seq(Digit) /\ Magnitude(b) = frac /\ Len(b) = k
  BY <1>7, <1>11, <1>13, PadToFacts
<1>15. Magnitude(a) * PowerOfTen[Len(b)] + Magnitude(b) = abs
  BY <1>2, <1>9, <1>12, <1>14
<1>16. QED
  BY <1>1, <1>8, <1>10, <1>12, <1>14, <1>15 DEF IsPointForm, IsSplit

LEMMA FmtWithoutAbsForm ==
  ASSUME NEW n \in Nat, format.precision \in Nat, NEW l \in Int, l = -n
  PROVE  IsPointForm(FmtWithoutAbs(l), n)
<1>1. PICK k \in Nat : k = format.precision
  OBVIOUS
<1>2. PICK c : c = NegativeDigits[l]
  OBVIOUS
<1>3. PICK digits : digits = PadTo(k + 1, c)
  OBVIOUS
<1>4. Says(c, n)
  BY <1>2, NegativeDigitsFacts, Zenon
<1>5. c \in Seq(Digit) /\ Magnitude(c) = n /\ Len(c) \in Nat
  BY <1>4, LenProperties DEF Says
<1>6. /\ digits \in Seq(Digit) /\ Magnitude(digits) = n
      /\ Len(c) <= k + 1 => Len(digits) = k + 1
      /\ Len(c) > k + 1 => digits = c
  <2>1. k + 1 \in Nat
    OBVIOUS
  <2>2. QED
    BY <1>3, <1>5, <2>1, PadToFacts
<1>7. PICK point \in Nat : point = Len(digits) - k /\ point >= 1 /\ point <= Len(digits)
  <2>1. Len(digits) >= k + 1 /\ Len(digits) \in Nat
    BY <1>5, <1>6
  <2>2. Len(digits) - k \in Nat /\ Len(digits) - k >= 1 /\ Len(digits) - k <= Len(digits)
    BY <2>1
  <2>3. QED
    BY <2>2
<1>8. Len(digits) \in Nat /\ Len(digits) = point + k
  BY <1>6, <1>7, LenProperties
<1>9. PICK a : a = SubSeq(digits, 1, point)
  OBVIOUS
<1>10. PICK b : b = SubSeq(digits, point + 1, Len(digits))
  OBVIOUS
<1>11. FmtWithoutAbs(l) = a \o <<".">> \o b
  BY <1>1, <1>2, <1>3, <1>7, <1>9, <1>10, Zenon DEF FmtWithoutAbs
<1>12. \A i \in 1 .. Len(digits) : digits[i] \in Digit
  BY <1>6, ElementOfSeq
<1>13. a \in Seq(Digit) /\ Len(a) = point /\ a[1] = digits[1]
  <2>1. \A i \in 1 .. point : digits[i] \in Digit
    BY <1>7, <1>8, <1>12
  <2>2. /\ a \in Seq(Digit) /\ Len(a) = IF 1 <= point THEN point - 1 + 1 ELSE 0
        /\ \A i \in 1 .. point - 1 + 1 : a[i] = digits[1 + i - 1]
    BY <1>9, <2>1, SubSeqProperties
  <2>3. point - 1 + 1 = point /\ 1 \in 1 .. point /\ 1 + 1 - 1 = 1
    BY <1>7
  <2>4. QED
    BY <1>7, <2>2, <2>3
<1>14. b \in Seq(Digit) /\ Len(b) = k
  <2>1. \A i \in point + 1 .. Len(digits) : digits[i] \in Digit
    BY <1>7, <1>8, <1>12
  <2>2. PICK from \in Int : from = point + 1
    OBVIOUS
  <2>3. /\ b \in Seq(Digit)
        /\ Len(b) = IF from <= Len(digits) THEN Len(digits) - from + 1 ELSE 0
    BY <1>8, <1>10, <2>1, <2>2, SubSeqProperties
  <2>4. QED
    BY <1>8, <2>2, <2>3
<1>15. digits = a \o b
  <2>1. PICK m \in 1 .. Len(digits) + 1 : m = 1
    BY <1>8
  <2>2. point \in m - 1 .. Len(digits) /\ Len(digits) \in point .. Len(digits)
    BY <1>7, <1>8, <2>1
  <2>3. SubSeq(digits, m, point) \o SubSeq(digits, point + 1, Len(digits))
          = SubSeq(digits, m, Len(digits))
    BY <1>6, <2>2, ConcatAdjacentSubSeq
  <2>4. SubSeq(digits, 1, Len(digits)) = digits
    BY <1>6, SubSeqFull
  <2>5. QED
    BY <1>9, <1>10, <2>1, <2>3, <2>4
<1>16. Magnitude(a) * PowerOfTen[Len(b)] + Magnitude(b) = n
  BY <1>6, <1>13, <1>14, <1>15, DigitText, MagnitudeOfDigits
<1>17. a # <<>>
  BY <1>7, <1>13, EmptySeq
<1>18. a[1] = "0" => Len(a) = 1
  <2>1. CASE Len(c) <= k + 1
    BY <1>6, <1>8, <1>13, <2>1
  <2>2. CASE Len(c) > k + 1
    <3>1. c # <<>>
      BY <1>5, <2>2, EmptySeq
    <3>2. a[1] = "0" => n = 0
      BY <1>4, <1>6, <1>13, <2>2, <3>1 DEF Says
    <3>3. n = 0 => c = <<>>
      <4>1. n = 0 => l = 0
        <5>1. \A j \in Nat : j <= 0 => -j = 0
          OBVIOUS
        <5>2. n = 0 => n <= 0
          OBVIOUS
        <5>3. QED
          BY <5>1, <5>2, Zenon
      <4>2. QED
        BY <1>2, <4>1, NegativeDigitsUnfold
    <3>4. QED
      BY <3>1, <3>2, <3>3
  <2>3. QED
    BY <1>5, <2>1, <2>2
<1>19. QED
  BY <1>1, <1>11, <1>13, <1>14, <1>16, <1>17, <1>18 DEF IsPointForm, IsSplit

(* What is printed is right for every number of the type. *)
LEMMA PrintingIsRight ==
  ASSUME TypeOK
  PROVE  PrintsExactly
<1>1. PICK n \in Int : n = fractions
  BY DEF TypeOK, Numbers
<1>2. PICK k \in Nat : k = format.precision
  BY FormatsAssumption DEF TypeOK
<1>3. PICK low \in Int, high \in Int : low = format.min /\ high = format.max
  BY FormatsAssumption DEF TypeOK
<1>4. Numbers = low .. high /\ n \in low .. high
  BY <1>1, <1>3 DEF Numbers, TypeOK
<1>5. low <= 0 /\ high >= 0
  BY <1>3, FormatsAssumption DEF TypeOK
<1>6. \A x \in Int : Checked(x) = {} <=> ~(low <= x /\ x <= high)
  BY <1>4 DEF Checked
<1>7. PICK abs \in Nat : abs = (IF n < 0 THEN -n ELSE n)
  <2>1. (IF n < 0 THEN -n ELSE n) \in Nat
    OBVIOUS
  <2>2. QED
    BY <2>1
<1>8. PICK m : m = IF n < 0 THEN <<"-">> ELSE <<>>
  OBVIOUS
<1>9. IsSign(m) /\ (m = <<>> <=> ~(n < 0))
  <2>1. n < 0 => Signed
    BY <1>4, <1>5, <1>6 DEF Signed
  <2>2. QED
    BY <1>8, <2>1 DEF IsSign
<1>10. PICK t : t = Fmt(n)
  OBVIOUS
<1>11. ASSUME IsDecimal(t), Decimals(t) = k, Magnitude(t) = abs, Unsigned(t) = t <=> m = <<>>
       PROVE  Scaled(t) = n
  <2>1. PowerOfTen[format.precision - Decimals(t)] = 1
    <3>1. format.precision - Decimals(t) = 0
      BY <1>2, <1>11
    <3>2. QED
      BY <3>1, Powers
  <2>2. Scaled(t) = (IF ~(n < 0) THEN 1 ELSE -1) * (abs * 1)
    BY <1>9, <1>11, <2>1, Zenon DEF Scaled
  <2>3. CASE n < 0
    <3>1. abs = -n /\ Scaled(t) = (-1) * (abs * 1)
      BY <1>7, <2>2, <2>3
    <3>2. QED
      BY <3>1
  <2>4. CASE ~(n < 0)
    <3>1. abs = n /\ Scaled(t) = 1 * (abs * 1)
      BY <1>7, <2>2, <2>4
    <3>2. QED
      BY <3>1
  <2>5. QED
    BY <2>3, <2>4
<1>12. CASE k = 0
  <2>1. PICK a : a = FmtNat[abs]
    OBVIOUS
  <2>2. t = m \o a
    BY <1>1, <1>2, <1>7, <1>8, <1>10, <1>12, <2>1, Zenon DEF Fmt
  <2>3. Says(a, abs) /\ a # <<>> /\ (abs < 10 => Len(a) = 1)
    BY <2>1, FmtNatFacts DEF FmtNatFits
  <2>4. a \in Seq(Digit) /\ Magnitude(a) = abs /\ (a[1] = "0" => abs = 0)
    BY <2>3 DEF Says
  <2>5. /\ IsDecimal(t) /\ Decimals(t) = 0 /\ Magnitude(t) = abs
        /\ Unsigned(t) = a /\ (Unsigned(t) = t <=> m = <<>>)
    BY <1>2, <1>9, <2>2, <2>3, <2>4, PlainForm
  <2>6. Unsigned(t)[1] = "0" => ~(Len(t) > 1)
    <3>1. ASSUME a[1] = "0"
          PROVE  Len(t) = 1
      <4>1. abs = 0
        BY <2>4, <3>1
      <4>2. m = <<>> /\ Len(a) = 1
        BY <1>7, <1>9, <2>3, <4>1
      <4>3. t = a
        BY <2>5, <4>2
      <4>4. QED
        BY <4>2, <4>3
    <3>2. Len(t) = 1 => ~(Len(t) > 1)
      OBVIOUS
    <3>3. QED
      BY <2>5, <3>1, <3>2, Zenon
  <2>7. Scaled(t) = n
    BY <1>11, <1>12, <2>5
  <2>8. QED
    BY <1>1, <1>2, <1>10, <1>12, <2>5, <2>6, <2>7 DEF PrintsExactly
<1>13. CASE k > 0
  <2>1. PICK u : u = IF n < 0 /\ Checked(-n) = {} THEN FmtWithoutAbs(n) ELSE FmtAbs(abs)
    OBVIOUS
  <2>2. k # 0
    BY <1>13
  <2>3. t = m \o u
    BY <1>2, <1>7, <1>8, <1>10, <2>1, <2>2, Zenon DEF Fmt
  <2>4. IsPointForm(u, abs)
    <3>1. CASE n < 0 /\ Checked(-n) = {}
      <4>1. n = -abs
        BY <1>7, <3>1
      <4>2. IsPointForm(FmtWithoutAbs(n), abs)
        BY <1>2, <4>1, FmtWithoutAbsForm
      <4>3. QED
        BY <2>1, <3>1, <4>2
    <3>2. CASE ~(n < 0 /\ Checked(-n) = {})
      <4>1. abs <= high
        BY <1>4, <1>6, <1>7, <3>2
      <4>2. FractionsPerUnit = {} => abs < PowerOfTen[format.precision]
        <5>1. PICK p \in Nat : p = PowerOfTen[k]
          BY Powers
        <5>2. FractionsPerUnit = {} => ~(low <= p /\ p <= high)
          BY <1>2, <1>6, <5>1 DEF FractionsPerUnit
        <5>3. FractionsPerUnit = {} => abs < p
          BY <1>5, <4>1, <5>2
        <5>4. QED
          BY <1>2, <5>1, <5>3
      <4>3. format.precision \in Nat /\ format.precision > 0
        BY <1>2, <1>13
      <4>4. IsPointForm(FmtAbs(abs), abs)
        BY <4>2, <4>3, FmtAbsForm
      <4>5. QED
        BY <2>1, <3>2, <4>4
    <3>3. QED
      BY <3>1, <3>2
  <2>5. PICK a, b :
          /\ IsSplit(u, a, b)
          /\ Magnitude(a) * PowerOfTen[Len(b)] + Magnitude(b) = abs
          /\ a[1] = "0" => Len(a) = 1
    BY <2>4 DEF IsPointForm
  <2>6. /\ IsDecimal(t) /\ Decimals(t) = format.precision
        /\ Magnitude(t) = Magnitude(a) * PowerOfTen[Len(b)] + Magnitude(b)
        /\ Unsigned(t) = u /\ (Unsigned(t) = t <=> m = <<>>)
        /\ u[1] = a[1] /\ u[Len(a) + 1] = "."
    <3>1. IsSign(m) /\ IsSplit(u, a, b)
      BY <1>9, <2>5
    <3>2. ReadsBack(t, m, u, a, b)
      BY <2>3, <3>1, PointForm
    <3>3. QED
      BY <3>2, Zenon DEF ReadsBack
  <2>7. Magnitude(t) = abs /\ Decimals(t) = k
    BY <1>2, <2>5, <2>6, Zenon
  <2>8. Scaled(t) = n
    BY <1>11, <2>6, <2>7
  <2>9. Unsigned(t)[1] = "0" => Unsigned(t)[2] = "."
    <3>1. ASSUME a[1] = "0"
          PROVE  u[2] = "."
      <4>1. Len(a) = 1
        BY <2>5, <3>1, Zenon
      <4>2. Len(a) + 1 = 2
        BY <4>1
      <4>3. QED
        BY <2>6, <4>2
    <3>2. QED
      BY <2>6, <3>1
  <2>10. format.precision > 0
    BY <1>2, <1>13
  <2>11. QED
    BY <1>1, <1>10, <2>6, <2>8, <2>9, <2>10 DEF PrintsExactly
<1>14. QED
  BY <1>12, <1>13

(* Whatever number was read is printed as a decimal of the format that     *)
(* says it again: by the digits of its absolute value, for one that has    *)
(* none by floored division, and without a unit if none fits.              *)
THEOREM PrintedIsExact == Spec => []PrintsExactly
<1>1. Spec => []TypeOK
  BY ParserTypeCorrect
<1>2. TypeOK => PrintsExactly
  BY PrintingIsRight
<1>3. QED
  BY <1>1, <1>2, PTL
=============================================================================
