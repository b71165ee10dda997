----------------------------- MODULE SearchProofs -----------------------------
(***************************************************************************)
(* Proofs about Search, for any chunks and scores, any federated sources   *)
(* and hits, and any number of requests, writes and faults.                *)
(***************************************************************************)
EXTENDS Search, SequenceTheorems, FiniteSetTheorems, TLAPS

-----------------------------------------------------------------------------
(* Finite sets in order                                                    *)

\* R orders S: it is irreflexive, transitive and total there.
Orders(R, S) ==
    /\ \A c \in S : <<c, c>> \notin R
    /\ \A c, d, e \in S : <<c, d>> \in R /\ <<d, e>> \in R => <<c, e>> \in R
    /\ \A c, d \in S : c # d => <<c, d>> \in R \/ <<d, c>> \in R

\* Exactly one element of an ordered finite set has a given rank.
LEMMA OneOfEachRank ==
    ASSUME NEW S, IsFiniteSet(S), NEW R, Orders(R, S)
    PROVE  /\ \A c \in S : Rank(S, R, c) \in 1 .. Cardinality(S)
           /\ \A c, d \in S : Rank(S, R, c) = Rank(S, R, d) => c = d
           /\ \A n \in 1 .. Cardinality(S) : \E c \in S : Rank(S, R, c) = n
<1> DEFINE before(c) == {d \in S : <<d, c>> \in R}
           T == 1 .. Cardinality(S)
           rank == [c \in S |-> Rank(S, R, c)]
<1>1. Cardinality(S) \in Nat
  BY FS_CardinalityType
<1>2. \A c \in S : IsFiniteSet(before(c)) /\ Cardinality(before(c)) \in Nat
                   /\ Rank(S, R, c) = Cardinality(before(c)) + 1
  BY FS_Subset, FS_CardinalityType DEF Rank
<1>a. \A c, d \in S : d \in before(c) <=> <<d, c>> \in R
  OBVIOUS
<1>b. \A c \in S : before(c) \subseteq S
  OBVIOUS
<1> HIDE DEF before
<1>3. \A c \in S : Rank(S, R, c) \in T
  <2> SUFFICES ASSUME NEW c \in S PROVE Rank(S, R, c) \in T
    OBVIOUS
  <2>1. before(c) \in SUBSET (S \ {c})
    BY <1>a, <1>b DEF Orders
  <2>2. IsFiniteSet(S \ {c}) /\ Cardinality(S \ {c}) = Cardinality(S) - 1
    BY FS_RemoveElement
  <2>3. Cardinality(before(c)) <= Cardinality(S) - 1
    BY <2>1, <2>2, FS_Subset
  <2> QED
    BY <1>1, <1>2, <2>3
<1>4. \A c, d \in S : <<c, d>> \in R => Rank(S, R, c) # Rank(S, R, d)
  <2> SUFFICES ASSUME NEW c \in S, NEW d \in S, <<c, d>> \in R
               PROVE  Rank(S, R, c) # Rank(S, R, d)
    OBVIOUS
  <2>1. before(c) \in SUBSET before(d)
    BY <1>a, <1>b DEF Orders
  <2>2. c \in before(d) /\ c \notin before(c)
    BY <1>a DEF Orders
  <2>3. Cardinality(before(d)) # Cardinality(before(c))
    BY <1>2, <2>1, <2>2, FS_Subset
  <2> QED
    BY <1>2, <2>3
<1>5. \A c, d \in S : Rank(S, R, c) = Rank(S, R, d) => c = d
  BY <1>4 DEF Orders
<1>6. IsFiniteSet(T) /\ Cardinality(T) = Cardinality(S)
  BY <1>1, FS_Interval
<1>7. rank \in Injection(S, T)
  BY <1>3, <1>5 DEF Injection, IsInjective
<1>8. rank \in Surjection(S, T)
  BY <1>6, <1>7, FS_Injection
<1>9. \A n \in T : \E c \in S : Rank(S, R, c) = n
  BY <1>8 DEF Surjection
<1> QED
  BY <1>3, <1>5, <1>9

\* Ordered lists every element of an ordered finite set once, by rank.
LEMMA OrderedLists ==
    ASSUME NEW S, IsFiniteSet(S), NEW R, Orders(R, S)
    PROVE  /\ Ordered(S, R) \in Seq(S)
           /\ Len(Ordered(S, R)) = Cardinality(S)
           /\ ToSet(Ordered(S, R)) = S
           /\ \A n \in 1 .. Cardinality(S) :
                  Ordered(S, R)[n] \in S /\ Rank(S, R, Ordered(S, R)[n]) = n
<1> DEFINE list == Listing(S, R)
<1>1. Ordered(S, R) = list
  BY DEF Ordered, The
<1>2. Cardinality(S) \in Nat
  BY FS_CardinalityType
<1>3. \A n \in 1 .. Cardinality(S) : list[n] \in S /\ Rank(S, R, list[n]) = n
  BY OneOfEachRank DEF Listing
<1>4. list \in Seq(S) /\ Len(list) = Cardinality(S) /\ DOMAIN list = 1 .. Cardinality(S)
  <2>1. list \in [1 .. Cardinality(S) -> S]
    BY <1>3 DEF Listing
  <2> QED
    BY <1>2, <2>1
<1>5. ToSet(list) = S
  <2>1. \A c \in S : \E n \in 1 .. Cardinality(S) : list[n] = c
    BY <1>3, OneOfEachRank
  <2> QED
    BY <1>3, <1>4, <2>1 DEF ToSet
<1> QED
  BY <1>1, <1>3, <1>4, <1>5

LEMMA SmallerOrders ==
    ASSUME NEW P, NEW S \in SUBSET P, P \subseteq Int
    PROVE  Orders(Smaller(P), S)
BY DEF Orders, Smaller

\* An ordered finite set that is not empty has a first and a last element.
LEMMA FirstAndLast ==
    ASSUME NEW S, IsFiniteSet(S), S # {}, NEW R, Orders(R, S)
    PROVE  /\ \E c \in S : \A d \in S : d = c \/ <<c, d>> \in R
           /\ \E c \in S : \A d \in S : d = c \/ <<d, c>> \in R
<1> DEFINE n == Cardinality(S)
           before(c) == {d \in S : <<d, c>> \in R}
<1>1. n \in Nat \ {0}
  BY FS_CardinalityType, FS_EmptySet
<1>2. /\ \E c \in S : Rank(S, R, c) = 1
      /\ \E c \in S : Rank(S, R, c) = n
  BY <1>1, OneOfEachRank
<1>3. ASSUME NEW c \in S, Rank(S, R, c) = 1
      PROVE  \A d \in S : d = c \/ <<c, d>> \in R
  <2>1. IsFiniteSet(before(c))
    BY FS_Subset
  <2>2. Cardinality(before(c)) + 1 = 1 /\ Cardinality(before(c)) \in Nat
    BY <1>3, <2>1, FS_CardinalityType DEF Rank
  <2>3. before(c) = {}
    BY <2>1, <2>2, FS_EmptySet
  <2> QED
    BY <2>3 DEF Orders
<1>4. ASSUME NEW c \in S, Rank(S, R, c) = n
      PROVE  \A d \in S : d = c \/ <<d, c>> \in R
  <2>1. before(c) \in SUBSET (S \ {c})
    BY DEF Orders
  <2>2. IsFiniteSet(S \ {c}) /\ Cardinality(S \ {c}) = n - 1
    BY FS_RemoveElement
  <2>3. Cardinality(before(c)) + 1 = n /\ Cardinality(before(c)) \in Nat
    BY <1>4, <2>1, <2>2, FS_Subset, FS_CardinalityType DEF Rank
  <2>5. Cardinality(before(c)) = Cardinality(S \ {c})
    BY <1>1, <2>2, <2>3
  <2>4. before(c) = S \ {c}
    BY <2>1, <2>2, <2>5, FS_Subset
  <2> QED
    BY <2>4
<1> QED
  BY <1>2, <1>3, <1>4

\* A finite nonempty set of integers has a least and a greatest element.
LEMMA MinMax ==
    ASSUME NEW S, IsFiniteSet(S), S # {}
    PROVE  S \subseteq Int =>
               /\ Min(S) \in S /\ \A x \in S : Min(S) <= x
               /\ Max(S) \in S /\ \A x \in S : x <= Max(S)
<1>1. \A R : Orders(R, S) =>
          /\ \E c \in S : \A d \in S : d = c \/ <<c, d>> \in R
          /\ \E c \in S : \A d \in S : d = c \/ <<d, c>> \in R
  BY FirstAndLast
<1>0. \A c, d \in S : <<c, d>> \in Smaller(S) => c < d
  BY DEF Smaller
<1>2. HAVE S \subseteq Int
<1>3. Orders(Smaller(S), S)
  BY <1>2, SmallerOrders
<1>4. PICK lo \in S : \A d \in S : d = lo \/ <<lo, d>> \in Smaller(S)
  BY <1>1, <1>3
<1>5. PICK hi \in S : \A d \in S : d = hi \/ <<d, hi>> \in Smaller(S)
  BY <1>1, <1>3
<1>6. \A x \in S : lo <= x /\ x <= hi
  <2> TAKE x \in S
  <2>1. x = lo \/ lo < x
    BY <1>0, <1>4
  <2>2. x = hi \/ x < hi
    BY <1>0, <1>5
  <2>3. lo \in Int /\ hi \in Int /\ x \in Int
    BY <1>2
  <2> QED
    BY <2>1, <2>2, <2>3
<1>7. Min(S) \in S /\ \A x \in S : Min(S) <= x
  BY <1>6 DEF Min
<1>8. Max(S) \in S /\ \A x \in S : x <= Max(S)
  BY <1>6 DEF Max
<1> QED
  BY <1>7, <1>8

LEMMA MinMaxOfTwo ==
    ASSUME NEW a \in Int, NEW b \in Int
    PROVE  /\ Min({a, b}) = IF a <= b THEN a ELSE b
           /\ Max({a, b}) = IF a <= b THEN b ELSE a
<1>1. IsFiniteSet({a, b})
  <2>1. IsFiniteSet({a} \cup {b})
    BY FS_Singleton, FS_AddElement
  <2>2. {a, b} = {a} \cup {b}
    OBVIOUS
  <2> QED
    BY <2>1, <2>2
<1> DEFINE P == {a, b}
<1>2. P # {} /\ IsFiniteSet(P)
  BY <1>1
<1>a. P \subseteq Int /\ a \in P /\ b \in P /\ \A x \in P : x = a \/ x = b
  OBVIOUS
<1> HIDE DEF P
<1>b. P \subseteq Int =>
          /\ Min(P) \in P /\ \A x \in P : Min(P) <= x
          /\ Max(P) \in P /\ \A x \in P : x <= Max(P)
  BY <1>2, MinMax
<1>3. /\ Min(P) \in P /\ \A x \in P : Min(P) <= x
      /\ Max(P) \in P /\ \A x \in P : x <= Max(P)
  BY <1>a, <1>b
<1>4. /\ Min(P) <= a /\ Min(P) <= b /\ a <= Max(P) /\ b <= Max(P)
      /\ Min(P) = a \/ Min(P) = b
      /\ Max(P) = a \/ Max(P) = b
  BY <1>a, <1>3
<1> QED
  BY <1>4 DEF P

-----------------------------------------------------------------------------
(* Lists: slices, filters, the engines, their fusion and the blend         *)

LEMMA SliceLists ==
    ASSUME NEW T, NEW s \in Seq(T), NEW k \in Int
    PROVE  /\ Slice(s, k) \in Seq(T)
           /\ Len(Slice(s, k)) <= Len(s)
           /\ k >= 0 => Len(Slice(s, k)) = IF k <= Len(s) THEN k ELSE Len(s)
           /\ \A i \in 1 .. Len(Slice(s, k)) : Slice(s, k)[i] = s[i]
           /\ ToSet(Slice(s, k)) \subseteq ToSet(s)
<1> DEFINE n == IF k >= 0 THEN Min({k, Len(s)}) ELSE Max({0, Len(s) + k})
<1>1. Len(s) \in Nat
  OBVIOUS
<1>2. Min({k, Len(s)}) = IF k <= Len(s) THEN k ELSE Len(s)
  BY <1>1, MinMaxOfTwo
<1>3. Max({0, Len(s) + k}) = IF 0 <= Len(s) + k THEN Len(s) + k ELSE 0
  <2> DEFINE m == Len(s) + k
             z == 0
  <2>1. m \in Int /\ z \in Int
    BY <1>1
  <2> HIDE DEF m, z
  <2>2. Max({z, m}) = IF z <= m THEN m ELSE z
    BY <2>1, MinMaxOfTwo
  <2> QED
    BY <2>2 DEF m, z
<1>4. /\ n \in Nat /\ n <= Len(s)
      /\ k >= 0 => n = IF k <= Len(s) THEN k ELSE Len(s)
  BY <1>1, <1>2, <1>3
<1>5. Slice(s, k) = SubSeq(s, 1, n)
  BY DEF Slice
<1> HIDE DEF n
<1>6. \A i \in 1 .. n : s[i] \in T
  BY <1>4
<1>7. /\ SubSeq(s, 1, n) \in Seq(T)
      /\ Len(SubSeq(s, 1, n)) = n
      /\ \A i \in 1 .. n : SubSeq(s, 1, n)[i] = s[i]
  BY <1>4, <1>6, SubSeqProperties
<1>8. ToSet(SubSeq(s, 1, n)) \subseteq ToSet(s)
  BY <1>4, <1>7 DEF ToSet
<1> QED
  BY <1>4, <1>5, <1>7, <1>8

LEMMA KeptIsPicked ==
    ASSUME NEW s, NEW S
    PROVE  Kept(s, S) = Picked(s, Ordered({i \in DOMAIN s : s[i] \in S}, Smaller(DOMAIN s)))
BY DEF Kept, The

\* A filter keeps the elements of the set, and nothing else.
LEMMA KeptLists ==
    ASSUME NEW T, NEW s \in Seq(T), NEW S
    PROVE  /\ Kept(s, S) \in Seq(T)
           /\ ToSet(Kept(s, S)) = ToSet(s) \cap S
           /\ Kept(s, S) \in Seq(ToSet(s) \cap S)
           /\ Len(Kept(s, S)) <= Len(s)
<1> DEFINE P == {i \in DOMAIN s : s[i] \in S}
           R == Smaller(DOMAIN s)
           L == Ordered(P, R)
<1>1. Kept(s, S) = Picked(s, L)
  BY KeptIsPicked
<1>2. Len(s) \in Nat /\ DOMAIN s = 1 .. Len(s)
  OBVIOUS
<1>3. IsFiniteSet(1 .. Len(s)) /\ Cardinality(1 .. Len(s)) = Len(s)
  BY <1>2, FS_Interval
<1>4. IsFiniteSet(P) /\ Cardinality(P) <= Len(s) /\ Cardinality(P) \in Nat
  <2>1. P \in SUBSET (1 .. Len(s))
    BY <1>2
  <2> QED
    BY <1>3, <2>1, FS_Subset, FS_CardinalityType
<1>5. Orders(R, P)
  BY <1>2, SmallerOrders
<1>6. /\ L \in Seq(P) /\ Len(L) = Cardinality(P) /\ ToSet(L) = P
  <2> HIDE DEF P, R
  <2> QED
    BY <1>4, <1>5, OrderedLists
<1> DEFINE n == Cardinality(P)
<1>7. DOMAIN L = 1 .. n /\ \A i \in 1 .. n : L[i] \in P
  <2> HIDE DEF P, L
  <2> QED
    BY <1>4, <1>6
<1>8. \A i \in 1 .. n : s[L[i]] \in ToSet(s) \cap S /\ s[L[i]] \in T
  <2>1. \A j \in P : s[j] \in ToSet(s) \cap S /\ s[j] \in T
    BY DEF ToSet
  <2> HIDE DEF P, L, n
  <2> QED
    BY <1>7, <2>1
<1>9. Picked(s, L) = [i \in 1 .. n |-> s[L[i]]]
  BY <1>7 DEF Picked
<1>10. /\ Picked(s, L) \in Seq(T) /\ Picked(s, L) \in Seq(ToSet(s) \cap S)
       /\ Len(Picked(s, L)) = n /\ DOMAIN Picked(s, L) = 1 .. n
  <2> HIDE DEF P, L, n
  <2>1. Picked(s, L) \in [1 .. n -> T] /\ Picked(s, L) \in [1 .. n -> ToSet(s) \cap S]
    BY <1>8, <1>9
  <2>2. n \in Nat
    BY <1>4 DEF n
  <2> QED
    BY <2>1, <2>2
<1>11. ToSet(s) \cap S \subseteq ToSet(Picked(s, L))
  <2> SUFFICES ASSUME NEW c \in ToSet(s), c \in S PROVE c \in ToSet(Picked(s, L))
    OBVIOUS
  <2>1. PICK i \in DOMAIN s : s[i] = c
    BY DEF ToSet
  <2>2. i \in ToSet(L)
    BY <1>6, <2>1
  <2>3. PICK j \in DOMAIN L : L[j] = i
    BY <2>2 DEF ToSet
  <2> HIDE DEF P, L, n
  <2>4. j \in 1 .. n /\ Picked(s, L)[j] = c
    BY <1>7, <1>9, <2>1, <2>3
  <2> QED
    BY <1>10, <2>4 DEF ToSet
<1>12. ToSet(Picked(s, L)) \subseteq ToSet(s) \cap S
  <2> HIDE DEF P, L, n
  <2> QED
    BY <1>8, <1>9, <1>10 DEF ToSet
<1> HIDE DEF L, P
<1> QED
  BY <1>1, <1>4, <1>10, <1>11, <1>12

\* Of two lists in a row, of which the filter keeps all of the second and
\* nothing of the first, it keeps the second.
LEMMA KeptOfConcat ==
    ASSUME NEW T, NEW a \in Seq(T), NEW b \in Seq(T), NEW S,
           \A i \in 1 .. Len(a) : a[i] \notin S,
           \A i \in 1 .. Len(b) : b[i] \in S
    PROVE  Kept(a \o b, S) = b
<1> DEFINE s == a \o b
           m == Len(a)
           n == Len(b)
           P == {i \in DOMAIN s : s[i] \in S}
           R == Smaller(DOMAIN s)
           L == Ordered(P, R)
<1>1. Kept(s, S) = Picked(s, L)
  BY KeptIsPicked
<1>2. m \in Nat /\ n \in Nat
  OBVIOUS
<1>3. /\ s \in Seq(T) /\ Len(s) = m + n /\ DOMAIN s = 1 .. (m + n)
      /\ \A i \in 1 .. m : s[i] = a[i]
      /\ \A i \in 1 .. n : s[m + i] = b[i]
  OBVIOUS
<1> HIDE DEF s
<1>4. P = (m + 1) .. (m + n)
  <2>1. \A i \in 1 .. m : i \notin P
    BY <1>3
  <2>2. \A i \in (m + 1) .. (m + n) : i \in P
    <3> SUFFICES ASSUME NEW i \in (m + 1) .. (m + n) PROVE i \in P
      OBVIOUS
    <3>1. i - m \in 1 .. n /\ m + (i - m) = i
      BY <1>2
    <3>2. s[i] = b[i - m]
      BY <1>3, <3>1
    <3> QED
      BY <1>2, <1>3, <3>1, <3>2
  <2> QED
    BY <1>2, <1>3, <2>1, <2>2
<1>5. IsFiniteSet(P) /\ Cardinality(P) = n
  <2> HIDE DEF m, n, P
  <2> DEFINE lo == m + 1
             hi == m + n
  <2>1. lo \in Int /\ hi \in Int /\ (IF lo > hi THEN 0 ELSE hi - lo + 1) = n
    BY <1>2
  <2> HIDE DEF lo, hi
  <2>2. IsFiniteSet(lo .. hi) /\ Cardinality(lo .. hi) = IF lo > hi THEN 0 ELSE hi - lo + 1
    BY <2>1, FS_Interval
  <2> QED
    BY <1>4, <2>1, <2>2 DEF lo, hi
<1>6. Orders(R, P)
  BY <1>3, SmallerOrders
<1>7. /\ L \in Seq(P) /\ Len(L) = n /\ ToSet(L) = P
      /\ \A i \in 1 .. n : L[i] \in P /\ Rank(P, R, L[i]) = i
  <2> HIDE DEF P, R, n
  <2> QED
    BY <1>5, <1>6, OrderedLists
<1>8. \A i \in P : Rank(P, R, i) = i - m
  <2> SUFFICES ASSUME NEW i \in P PROVE Rank(P, R, i) = i - m
    OBVIOUS
  <2>1. {j \in P : <<j, i>> \in R} = (m + 1) .. (i - 1)
    BY <1>2, <1>3, <1>4 DEF Smaller
  <2>2. i \in Int /\ m + 1 <= i
    BY <1>2, <1>4
  <2>3. Rank(P, R, i) = Cardinality({j \in P : <<j, i>> \in R}) + 1
    BY DEF Rank
  <2> HIDE DEF m, n, P, R
  <2> DEFINE lo == m + 1
             hi == i - 1
  <2>4. lo \in Int /\ hi \in Int /\ (IF lo > hi THEN 0 ELSE hi - lo + 1) + 1 = i - m
    BY <1>2, <2>2
  <2> HIDE DEF lo, hi
  <2>5. Cardinality(lo .. hi) = IF lo > hi THEN 0 ELSE hi - lo + 1
    BY <2>4, FS_Interval
  <2>6. Cardinality({j \in P : <<j, i>> \in R}) = Cardinality(lo .. hi)
    BY <2>1 DEF lo, hi
  <2> QED
    BY <2>3, <2>4, <2>5, <2>6
<1>9. \A i \in 1 .. n : L[i] = m + i
  <2> HIDE DEF m, n, P, R, L
  <2> SUFFICES ASSUME NEW i \in 1 .. n PROVE L[i] = m + i
    OBVIOUS
  <2>1. L[i] \in P /\ L[i] - m = i
    BY <1>7, <1>8
  <2>2. L[i] \in Int /\ m \in Int /\ i \in Int
    BY <1>2, <1>4, <2>1
  <2>3. \A x, y, z \in Int : x - y = z => x = y + z
    OBVIOUS
  <2> QED
    BY <2>1, <2>2, <2>3
<1>10. DOMAIN L = 1 .. n
  <2> HIDE DEF P, L
  <2> QED
    BY <1>7
<1>11. Picked(s, L) = [i \in 1 .. n |-> b[i]]
  <2> HIDE DEF m, P, L
  <2> QED
    BY <1>3, <1>9, <1>10 DEF Picked
<1>12. b = [i \in 1 .. n |-> b[i]]
  OBVIOUS
<1> QED
  BY <1>1, <1>11, <1>12 DEF s

LEMMA Scores ==
    /\ Chunks \subseteq Nat /\ IsFiniteSet(Chunks) /\ Foreign \subseteq Chunks
    /\ \A c \in Chunks : /\ Similarity[c] \in Int /\ TitleScore[c] \in Int /\ TextScore[c] \in Int
                         /\ Weight[c] \in Int /\ RerankScore[c] \in Int
    /\ TitleBoost \in Int /\ TextBoost \in Int /\ Multiplier \in Int /\ Scale \in Int
    /\ FusionK \in Nat \ {0}
BY RetrievalAssumption DEF RetrievalAssumption

LEMMA PositionIsPlace ==
    ASSUME NEW T, NEW s \in Seq(T), NEW c \in ToSet(s)
    PROVE  Position(s, c) \in 1 .. Len(s) /\ s[Position(s, c)] = c
<1> DEFINE P == {i \in DOMAIN s : s[i] = c}
<1>1. Len(s) \in Nat /\ DOMAIN s = 1 .. Len(s)
  OBVIOUS
<1>2. IsFiniteSet(P)
  <2>1. IsFiniteSet(1 .. Len(s))
    BY <1>1, FS_Interval
  <2> QED
    BY <1>1, <2>1, FS_Subset
<1>3. P # {}
  BY DEF ToSet
<1>4. P \subseteq Int
  BY <1>1
<1>5. P \subseteq Int => Min(P) \in P
  <2> HIDE DEF P
  <2> QED
    BY <1>2, <1>3, MinMax
<1>6. Min(P) \in P
  BY <1>4, <1>5
<1>7. Position(s, c) = Min(P)
  BY DEF Position
<1> QED
  BY <1>1, <1>6, <1>7

LEMMA RankedLists ==
    ASSUME NEW S \in SUBSET Chunks, NEW score, \A c \in S : score[c] \in Int
    PROVE  /\ Ranked(score, S) \in Seq(S)
           /\ ToSet(Ranked(score, S)) = S
<1> DEFINE R == Above(score, S)
<1>1. Ranked(score, S) = Ordered(S, R)
  BY DEF Ranked, The
<1>a. IsFiniteSet(S)
  <2>1. IsFiniteSet(Chunks)
    BY Scores
  <2> QED
    BY <2>1, FS_Subset
<1>2. IsFiniteSet(S) /\ \A c \in S : c \in Int
  BY <1>a, Scores
<1>3. \A c, d \in S : <<c, d>> \in R <=> score[c] > score[d] \/ (score[c] = score[d] /\ c < d)
  BY DEF Above, Outranks
<1> HIDE DEF R
<1>4. Orders(R, S)
  BY <1>2, <1>3 DEF Orders
<1> QED
  BY <1>1, <1>2, <1>4, OrderedLists

\* A list is sorted by value, ties by place: an order of its chunks.
LEMMA LeadsOrder ==
    ASSUME NEW s \in Seq(Chunks), NEW value, \A c \in ToSet(s) : value[c] \in Int
    PROVE  /\ IsFiniteSet(ToSet(s)) /\ Cardinality(ToSet(s)) <= Cardinality(Chunks)
           /\ Orders(Leads(s, value), ToSet(s))
           /\ Sorted(s, value) = Ordered(ToSet(s), Leads(s, value))
<1> DEFINE S == ToSet(s)
           R == Leads(s, value)
           at(c) == Position(s, c)
<1>1. Sorted(s, value) = Ordered(S, R)
  BY DEF Sorted, The
<1>2. S \in SUBSET Chunks
  BY DEF ToSet
<1>3. IsFiniteSet(S) /\ Cardinality(S) <= Cardinality(Chunks)
  BY <1>2, Scores, FS_Subset
<1>4. \A c \in S : at(c) \in Int /\ s[at(c)] = c
  BY PositionIsPlace
<1>5. \A c, d \in S : <<c, d>> \in R <=> value[c] > value[d] \/ (value[c] = value[d] /\ at(c) < at(d))
  BY DEF Leads
<1>6. Orders(R, S)
  <2> HIDE DEF R, at, S
  <2>1. \A c, d \in S : at(c) = at(d) => c = d
    BY <1>4
  <2> QED
    BY <1>4, <1>5, <2>1 DEF Orders, S
<1> QED
  BY <1>1, <1>3, <1>6

\* Sorted only moves: it lists the chunks of s, each of them once.
LEMMA SortedLists ==
    ASSUME NEW s \in Seq(Chunks), NEW value, \A c \in ToSet(s) : value[c] \in Int
    PROVE  /\ Sorted(s, value) \in Seq(ToSet(s)) /\ Sorted(s, value) \in Seq(Chunks)
           /\ ToSet(Sorted(s, value)) = ToSet(s)
           /\ Len(Sorted(s, value)) <= Cardinality(Chunks)
<1> DEFINE S == ToSet(s)
           R == Leads(s, value)
<1>1. S \in SUBSET Chunks
  BY DEF ToSet
<1>2. /\ IsFiniteSet(S) /\ Cardinality(S) <= Cardinality(Chunks)
      /\ Orders(R, S) /\ Sorted(s, value) = Ordered(S, R)
  BY LeadsOrder
<1>3. Ordered(S, R) \in Seq(S) /\ Len(Ordered(S, R)) = Cardinality(S) /\ ToSet(Ordered(S, R)) = S
  <2> HIDE DEF S, R
  <2> QED
    BY <1>2, OrderedLists
<1> HIDE DEF R
<1> QED
  BY <1>1, <1>2, <1>3

\* The first of a sorted list has the highest value.
LEMMA SortedFirst ==
    ASSUME NEW s \in Seq(Chunks), NEW value, \A c \in ToSet(s) : value[c] \in Int, s # <<>>
    PROVE  /\ Head(Sorted(s, value)) \in ToSet(s)
           /\ \A c \in ToSet(s) : value[c] <= value[Head(Sorted(s, value))]
<1> DEFINE S == ToSet(s)
           R == Leads(s, value)
           first == Ordered(S, R)[1]
<1>1. Sorted(s, value) = Ordered(S, R) /\ IsFiniteSet(S) /\ Orders(R, S)
  BY LeadsOrder
<1>2. S \in SUBSET Chunks
  BY DEF ToSet
<1>3. \A c, d \in S : value[c] > value[d] => <<c, d>> \in R
  BY DEF Leads
<1>4. S # {}
  <2>1. 1 \in DOMAIN s
    OBVIOUS
  <2>2. s[1] \in S
    BY <2>1 DEF ToSet
  <2> QED
    BY <2>2
<1> HIDE DEF S, R
<1>5. Cardinality(S) \in Nat /\ Cardinality(S) # 0
  BY <1>1, <1>4, FS_CardinalityType, FS_EmptySet
<1>6. 1 \in 1 .. Cardinality(S)
  BY <1>5
<1>7. first \in S /\ Rank(S, R, first) = 1 /\ Ordered(S, R) \in Seq(S) /\ Len(Ordered(S, R)) = Cardinality(S)
  BY <1>1, <1>6, OrderedLists
<1>8. Head(Sorted(s, value)) = first
  BY <1>1, <1>5, <1>7
<1> DEFINE before == {d \in S : <<d, first>> \in R}
<1>9. Cardinality(before) = 0
  <2>1. IsFiniteSet(before)
    BY <1>1, FS_Subset
  <2>2. Cardinality(before) \in Nat
    BY <2>1, FS_CardinalityType
  <2> HIDE DEF first
  <2>3. Cardinality(before) + 1 = 1
    BY <1>7 DEF Rank
  <2> QED
    BY <2>2, <2>3
<1>10. before = {}
  BY <1>1, <1>9, FS_Subset, FS_EmptySet
<1>11. \A c \in S : <<c, first>> \notin R
  BY <1>10
<1>12. \A c \in S : value[c] <= value[first]
  <2> HIDE DEF first, before
  <2>1. \A c \in S : value[c] \in Int
    BY DEF S
  <2>2. \A c \in S : ~(value[c] > value[first])
    BY <1>3, <1>7, <1>11
  <2> QED
    BY <1>7, <2>1, <2>2
<1> QED
  BY <1>7, <1>8, <1>12 DEF S

\* The rows of the store that the engines of this chunk strategy may name.
Rows(st) == (st.chunks \cup st.embeddings) \ Foreign

LEMMA EngineLists ==
    ASSUME NEW st, st.chunks \in SUBSET Chunks, st.embeddings \in SUBSET Chunks, NEW k \in Int
    PROVE  /\ Semantic(st, k) \in Seq(Rows(st))
           /\ Keyword(st, k) \in Seq(Rows(st))
           /\ GraphDirect(st, k) \in Seq(Rows(st))
<1>1. Semantic(st, k) \in Seq(Rows(st))
  <2> DEFINE rows == UNION {Nearest(st, t, k) : t \in 1 .. Shards}
             own == rows \ Foreign
             top == Slice(Ranked(Similarity, own), k)
  <2>1. own \in SUBSET Chunks /\ own \subseteq Rows(st)
    BY DEF Nearest, Best, Rows
  <2>2. Semantic(st, k) = Kept(top, Similar(top))
    BY DEF Semantic, The
  <2> HIDE DEF own
  <2>3. Ranked(Similarity, own) \in Seq(own)
    BY <2>1, Scores, RankedLists
  <2>4. top \in Seq(own)
    BY <2>3, SliceLists
  <2> HIDE DEF top
  <2>5. Kept(top, Similar(top)) \in Seq(own)
    BY <2>4, KeptLists
  <2> QED
    BY <2>1, <2>2, <2>5
<1>2. Keyword(st, k) \in Seq(Rows(st))
  <2> DEFINE titles == Matching(st, TitleScore, k)
             texts == Matching(st, TextScore, k)
             both == titles \cup texts
             boosted == Boosted(titles, texts)
  <2>1. Keyword(st, k) = Slice(Ranked(boosted, both), k)
    BY DEF Keyword, The
  <2>2. both \in SUBSET Chunks /\ both \subseteq Rows(st)
    BY DEF Matching, Best, Rows
  <2>3. \A c \in both : boosted[c] \in Int
    <3> SUFFICES ASSUME NEW c \in both PROVE boosted[c] \in Int
      OBVIOUS
    <3> DEFINE x == TitleBoost * TitleScore[c]
               y == TextBoost * TextScore[c]
    <3>a. c \in Chunks
      BY <2>2
    <3>b. TitleBoost \in Int /\ TextBoost \in Int /\ TitleScore[c] \in Int /\ TextScore[c] \in Int
      BY <3>a, Scores
    <3>1. x \in Int /\ y \in Int
      BY <3>b
    <3>2. boosted[c] = (IF c \in titles THEN x ELSE 0) + (IF c \in texts THEN y ELSE 0)
      BY DEF Boosted
    <3> HIDE DEF x, y, titles, texts, both, boosted
    <3> QED
      BY <3>1, <3>2
  <2> HIDE DEF both, boosted
  <2>4. Ranked(boosted, both) \in Seq(both)
    BY <2>2, <2>3, RankedLists
  <2>5. Slice(Ranked(boosted, both), k) \in Seq(both)
    BY <2>4, SliceLists
  <2> QED
    BY <2>1, <2>2, <2>5
<1>3. GraphDirect(st, k) \in Seq(Rows(st))
  <2> DEFINE heavy == {c \in Chunks : Weight[c] > 0}
             n == Max({k, k * Multiplier})
             sections == Slice(Ranked(Weight, heavy), n)
             own == st.chunks \ Foreign
  <2>1. n \in Int
    <3> DEFINE m == k * Multiplier
    <3>1. m \in Int
      BY Scores
    <3> HIDE DEF m
    <3>2. Max({k, m}) = IF k <= m THEN m ELSE k
      BY <3>1, MinMaxOfTwo
    <3> QED
      BY <3>1, <3>2 DEF m
  <2>2. GraphDirect(st, k) = Slice(Kept(sections, own), k)
    BY DEF GraphDirect
  <2>3. heavy \in SUBSET Chunks /\ \A c \in heavy : Weight[c] \in Int
    BY Scores
  <2> HIDE DEF heavy, n
  <2>4. Ranked(Weight, heavy) \in Seq(heavy)
    BY <2>3, RankedLists
  <2>5. sections \in Seq(heavy)
    BY <2>1, <2>4, SliceLists
  <2> HIDE DEF sections
  <2>6. Kept(sections, own) \in Seq(ToSet(sections) \cap own)
    BY <2>5, KeptLists
  <2>7. Slice(Kept(sections, own), k) \in Seq(ToSet(sections) \cap own)
    BY <2>6, SliceLists
  <2>8. ToSet(sections) \cap own \subseteq Rows(st)
    BY DEF Rows
  <2> QED
    BY <2>2, <2>7, <2>8
<1> QED
  BY <1>1, <1>2, <1>3

\* Scores of some chunks.
Scorings == UNION {[D -> Int] : D \in SUBSET Chunks}

LEMMA NamedLists ==
    ASSUME NEW S, NEW lists, lists[1] \in Seq(S), lists[2] \in Seq(S), lists[3] \in Seq(S)
    PROVE  Named(lists) \in Seq(S)
BY DEF Named

\* A list gives a chunk one over its place plus FusionK, at most.
LEMMA ShareBound ==
    ASSUME NEW list \in Seq(Chunks), NEW c
    PROVE  Share(list, c) \in Nat /\ Share(list, c) * (FusionK + 1) <= Scale
<1>1. Scale \in Nat \ {0} /\ FusionK \in Nat \ {0}
  BY RetrievalAssumption DEF RetrievalAssumption
<1>2. CASE c \notin ToSet(list)
  BY <1>1, <1>2 DEF Share
<1>3. CASE c \in ToSet(list)
  <2> DEFINE p == Position(list, c)
             d == FusionK + p
             x == Scale \div d
             k == FusionK + 1
  <2>1. p \in Nat \ {0}
    BY <1>3, PositionIsPlace
  <2>2. Share(list, c) = x
    BY <1>3 DEF Share
  <2> HIDE DEF p
  <2>3. d \in Nat \ {0} /\ k \in Nat /\ k <= d
    BY <1>1, <2>1
  <2> HIDE DEF d, k
  <2>4. x \in Int /\ x >= 0 /\ x * d <= Scale
    BY <1>1, <2>3
  <2> HIDE DEF x
  <2>5. x * k <= x * d
    BY <2>3, <2>4
  <2>6. x * k \in Int /\ x * d \in Int
    BY <2>3, <2>4
  <2>7. x * k <= Scale
    BY <1>1, <2>4, <2>5, <2>6
  <2> QED
    BY <2>2, <2>4, <2>7 DEF k
<1> QED
  BY <1>2, <1>3

\* No sum of the reciprocal ranks in three lists is above three times the first.
FusedBounded(score) ==
    \A c \in DOMAIN score : score[c] \in Nat /\ score[c] * (FusionK + 1) <= 3 * Scale

LEMMA FusedScoreBound ==
    ASSUME NEW lists,
           lists[1] \in Seq(Chunks), lists[2] \in Seq(Chunks), lists[3] \in Seq(Chunks)
    PROVE  FusedBounded(FusedScore(lists))
<1> SUFFICES ASSUME NEW c \in ToSet(Named(lists))
             PROVE  /\ FusedScore(lists)[c] \in Nat
                    /\ FusedScore(lists)[c] * (FusionK + 1) <= 3 * Scale
  BY DEF FusedBounded, FusedScore
<1> DEFINE x == Share(lists[1], c)
           y == Share(lists[2], c)
           z == Share(lists[3], c)
           k == FusionK + 1
<1>1. FusedScore(lists)[c] = x + y + z
  BY DEF FusedScore
<1>2. /\ x \in Nat /\ x * k <= Scale /\ y \in Nat /\ y * k <= Scale /\ z \in Nat /\ z * k <= Scale
  BY ShareBound
<1>3. k \in Nat /\ Scale \in Nat
  BY RetrievalAssumption DEF RetrievalAssumption
<1> HIDE DEF x, y, z, k
<1>4. (x + y + z) * k = x * k + y * k + z * k
  BY <1>2, <1>3
<1>5. x * k \in Int /\ y * k \in Int /\ z * k \in Int
  BY <1>2, <1>3
<1>6. (x + y + z) * k <= 3 * Scale /\ x + y + z \in Nat
  BY <1>2, <1>3, <1>4, <1>5
<1> QED
  BY <1>1, <1>6 DEF k

LEMMA FusedLists ==
    ASSUME NEW S \in SUBSET Chunks, NEW lists,
           lists[1] \in Seq(S), lists[2] \in Seq(S), lists[3] \in Seq(S)
    PROVE  /\ FusedScore(lists) \in Scorings
           /\ Fused(lists, FusedScore(lists)) \in Seq(S)
           /\ Fused(lists, FusedScore(lists)) \in Seq(Chunks)
           /\ ToSet(Fused(lists, FusedScore(lists))) \subseteq DOMAIN FusedScore(lists)
           /\ Len(Fused(lists, FusedScore(lists))) <= Cardinality(Chunks)
           /\ Named(lists) = <<>> => ToSet(Fused(lists, FusedScore(lists))) = {}
<1> DEFINE named == Named(lists)
           score == FusedScore(lists)
<1>1. lists[1] \in Seq(Chunks) /\ lists[2] \in Seq(Chunks) /\ lists[3] \in Seq(Chunks)
  OBVIOUS
<1>2. named \in Seq(S) /\ ToSet(named) \subseteq S
  BY NamedLists DEF ToSet
<1>3. \A c : Share(lists[1], c) \in Nat /\ Share(lists[2], c) \in Nat /\ Share(lists[3], c) \in Nat
  BY <1>1, ShareBound
<1>4. \A c : Share(lists[1], c) + Share(lists[2], c) + Share(lists[3], c) \in Int
  BY <1>3
<1>5. score \in [ToSet(named) -> Int]
  BY <1>4 DEF FusedScore
<1>6. score \in Scorings
  BY <1>2, <1>5 DEF Scorings
<1>7. named \in Seq(Chunks)
  BY <1>2
<1>8. Fused(lists, score) = Sorted(named, score)
  BY DEF Fused
<1>9. named = <<>> => ToSet(named) = {}
  BY DEF ToSet
<1> HIDE DEF named, score
<1>10. /\ Sorted(named, score) \in Seq(ToSet(named)) /\ Sorted(named, score) \in Seq(Chunks)
       /\ ToSet(Sorted(named, score)) = ToSet(named)
       /\ Len(Sorted(named, score)) <= Cardinality(Chunks)
  BY <1>5, <1>7, SortedLists
<1>11. Sorted(named, score) \in Seq(S)
  BY <1>2, <1>10
<1> QED
  BY <1>5, <1>6, <1>8, <1>9, <1>10, <1>11 DEF named, score

LEMMA RerankedLists ==
    ASSUME NEW st, NEW ids \in Seq(Chunks)
    PROVE  Reranked(st, ids) \in Seq(ToSet(ids))
<1> DEFINE good == {c \in st.chunks : RerankScore[c] >= RerankFloor}
           kept == Kept(ids, good)
<1> HIDE DEF good
<1>1. kept \in Seq(Chunks) /\ ToSet(kept) \subseteq ToSet(ids)
  <2>1. kept \in Seq(Chunks)
    BY KeptLists
  <2>2. ToSet(kept) = ToSet(ids) \cap good
    BY KeptLists
  <2> QED
    BY <2>1, <2>2
<1>2. Reranked(st, ids) = Sorted(kept, RerankScore)
  BY DEF Reranked, good
<1> HIDE DEF kept
<1>3. \A c \in ToSet(kept) : RerankScore[c] \in Int
  <2>1. ToSet(kept) \subseteq Chunks
    BY <1>1 DEF ToSet
  <2>2. \A c \in Chunks : RerankScore[c] \in Int
    BY Scores
  <2> QED
    BY <2>1, <2>2
<1>4. Sorted(kept, RerankScore) \in Seq(ToSet(kept))
  BY <1>1, <1>3, SortedLists
<1> QED
  BY <1>1, <1>2, <1>4

\* The least and the greatest of the scores of some chunks.
Bounded(f, S) ==
    /\ Min({f[c] : c \in S}) \in Int /\ Max({f[c] : c \in S}) \in Int
    /\ \A c \in S : Min({f[d] : d \in S}) <= f[c] /\ f[c] <= Max({f[d] : d \in S})
    /\ \E c \in S : f[c] = Max({f[d] : d \in S})

LEMMA ScoreBounds ==
    ASSUME NEW S, IsFiniteSet(S), S # {}, NEW f, \A c \in S : f[c] \in Int
    PROVE  Bounded(f, S)
<1> DEFINE F == {f[c] : c \in S}
           g == [c \in S |-> f[c]]
<1>1. IsFiniteSet(F)
  <2>1. g \in Surjection(S, F)
    BY DEF Surjection
  <2> QED
    BY <2>1, FS_Surjection
<1>2. F # {}
  OBVIOUS
<1>3. F \subseteq Int => /\ Min(F) \in F /\ \A x \in F : Min(F) <= x
                         /\ Max(F) \in F /\ \A x \in F : x <= Max(F)
  <2> HIDE DEF F
  <2> QED
    BY <1>1, <1>2, MinMax
<1>4. Min(F) \in F /\ Max(F) \in F /\ \A x \in F : Min(F) <= x /\ x <= Max(F)
  BY <1>3
<1>5. Min(F) \in Int /\ Max(F) \in Int /\ \A c \in S : f[c] \in F
  BY <1>4
<1>6. \E c \in S : f[c] = Max(F)
  BY <1>4
<1> HIDE DEF F
<1> QED
  BY <1>4, <1>5, <1>6 DEF F, Bounded

\* The span of the scores of some chunks: what tells two of them apart, or 1.
LEMMA SpanIsPositive ==
    ASSUME NEW S, IsFiniteSet(S), S # {}, NEW f, \A c \in S : f[c] \in Int
    PROVE  /\ Span({f[c] : c \in S}) \in Nat \ {0}
           /\ Cardinality({f[c] : c \in S}) > 1 =>
                  Span({f[c] : c \in S}) = Max({f[c] : c \in S}) - Min({f[c] : c \in S})
<1> DEFINE F == {f[c] : c \in S}
           lo == Min(F)
           hi == Max(F)
<1>1. Bounded(f, S)
  BY ScoreBounds
<1>2. lo \in Int /\ hi \in Int
  BY <1>1 DEF Bounded
<1>3. \A x \in F : x \in Int /\ lo <= x /\ x <= hi
  BY <1>1 DEF Bounded
<1>4. F # {}
  OBVIOUS
<1>5. Span(F) = IF hi > lo THEN hi - lo ELSE 1
  BY DEF Span
<1> HIDE DEF F, lo, hi
<1>6. hi = lo => \A x \in F : x = lo
  <2> SUFFICES ASSUME hi = lo, NEW x \in F PROVE x = lo
    OBVIOUS
  <2>1. lo <= x /\ x <= lo /\ x \in Int
    BY <1>3
  <2> QED
    BY <1>2, <2>1
<1>7. hi = lo => Cardinality(F) = 1
  <2>1. hi = lo => F = {lo}
    BY <1>4, <1>6
  <2> QED
    BY <2>1, FS_Singleton
<1>8. lo <= hi
  <2>1. PICK x \in F : TRUE
    BY <1>4
  <2> QED
    BY <1>2, <1>3, <2>1
<1>9. Span(F) \in Nat \ {0}
  BY <1>2, <1>5
<1>10. Cardinality(F) > 1 => Span(F) = hi - lo
  <2>1. Cardinality(F) > 1 => hi > lo
    BY <1>2, <1>7, <1>8
  <2> QED
    BY <1>5, <2>1
<1> QED
  BY <1>9, <1>10 DEF F, lo, hi

\* Every value the blend sorts by is a whole number.
LEMMA BlendedValues ==
    ASSUME NEW score \in Scorings, NEW scored, scored \subseteq Chunks, scored \subseteq DOMAIN score,
           scored # {}
    PROVE  \A c \in DOMAIN score : BlendedScore(score, scored)[c] \in Int
<1> SUFFICES ASSUME NEW c \in DOMAIN score PROVE BlendedScore(score, scored)[c] \in Int
  OBVIOUS
<1> DEFINE value == BlendedScore(score, scored)
           a == Min({score[d] : d \in scored})
           b == Min({RerankScore[d] : d \in scored})
           s == Span({score[d] : d \in scored})
           t == Span({RerankScore[d] : d \in scored})
<1>1. value[c] = IF c \in scored
                 THEN Scale * (4 * (score[c] - a) * t + 6 * (RerankScore[c] - b) * s)
                 ELSE 10 * s * t * score[c]
  BY DEF BlendedScore
<1>2. IsFiniteSet(scored)
  <2>1. IsFiniteSet(Chunks)
    BY Scores
  <2> QED
    BY <2>1, FS_Subset
<1>3. \A d \in DOMAIN score : score[d] \in Int
  BY DEF Scorings
<1>4. a \in Int /\ s \in Int
  <2>1. Bounded(score, scored)
    BY <1>2, <1>3, ScoreBounds
  <2>2. s \in Nat \ {0}
    BY <1>2, <1>3, SpanIsPositive
  <2> QED
    BY <2>1, <2>2 DEF Bounded
<1>5. \A d \in scored : RerankScore[d] \in Int
  BY Scores
<1>6. b \in Int /\ t \in Int
  <2>1. Bounded(RerankScore, scored)
    BY <1>2, <1>5, ScoreBounds
  <2>2. t \in Nat \ {0}
    BY <1>2, <1>5, SpanIsPositive
  <2> QED
    BY <2>1, <2>2 DEF Bounded
<1>7. score[c] \in Int /\ Scale \in Int
  BY <1>3, Scores
<1> HIDE DEF value, a, b, s, t
<1>8. CASE c \in scored
  <2> DEFINE x == 4 * (score[c] - a) * t
             y == 6 * (RerankScore[c] - b) * s
  <2>1. x \in Int /\ y \in Int
    BY <1>4, <1>5, <1>6, <1>7, <1>8
  <2> HIDE DEF x, y
  <2>2. Scale * (x + y) \in Int
    BY <1>7, <2>1
  <2> QED
    BY <1>1, <1>8, <2>2 DEF x, y, value
<1>9. CASE c \notin scored
  <2>1. 10 * s * t * score[c] \in Int
    BY <1>4, <1>6, <1>7
  <2> QED
    BY <1>1, <1>9, <2>1 DEF value
<1> QED
  BY <1>8, <1>9

\* The best of the scored chunks is worth six tenths or more, a fused score at
\* most three shares, which is less when FusionK is 5 or more.
LEMMA BestBlend ==
    ASSUME FusionK >= 5, NEW score \in Scorings, FusedBounded(score),
           NEW scored, scored \subseteq Chunks, scored \subseteq DOMAIN score,
           Cardinality({RerankScore[c] : c \in scored}) > 1
    PROVE  \E m \in scored : \A c \in DOMAIN score \ scored :
               BlendedScore(score, scored)[c] < BlendedScore(score, scored)[m]
<1> DEFINE value == BlendedScore(score, scored)
           a == Min({score[d] : d \in scored})
           b == Min({RerankScore[d] : d \in scored})
           s == Span({score[d] : d \in scored})
           t == Span({RerankScore[d] : d \in scored})
           hi == Max({RerankScore[d] : d \in scored})
<1>1. scored # {}
  <2>1. scored = {} => {RerankScore[c] : c \in scored} = {}
    OBVIOUS
  <2>2. Cardinality({}) = 0
    BY FS_EmptySet
  <2>3. scored = {} => Cardinality({RerankScore[c] : c \in scored}) = 0
    BY <2>1, <2>2
  <2> QED
    BY <2>3
<1>2. IsFiniteSet(scored)
  <2>1. IsFiniteSet(Chunks)
    BY Scores
  <2> QED
    BY <2>1, FS_Subset
<1>3. \A d \in DOMAIN score : score[d] \in Int
  BY DEF Scorings
<1>4. a \in Int /\ s \in Nat \ {0} /\ \A d \in scored : a <= score[d]
  <2>1. \A d \in scored : score[d] \in Int
    BY <1>3
  <2>2. Bounded(score, scored)
    BY <1>1, <1>2, <2>1, ScoreBounds
  <2>3. s \in Nat \ {0}
    BY <1>1, <1>2, <2>1, SpanIsPositive
  <2> QED
    BY <2>2, <2>3 DEF Bounded
<1>5. \A d \in scored : RerankScore[d] \in Int
  BY Scores
<1>6. /\ b \in Int /\ hi \in Int /\ t \in Nat \ {0} /\ t = hi - b
      /\ \E d \in scored : RerankScore[d] = hi
  <2>1. Bounded(RerankScore, scored)
    BY <1>1, <1>2, <1>5, ScoreBounds
  <2>2. t \in Nat \ {0} /\ t = hi - b
    BY <1>1, <1>2, <1>5, SpanIsPositive
  <2> QED
    BY <2>1, <2>2 DEF Bounded
<1>7. PICK m \in scored : RerankScore[m] = hi
  BY <1>6
<1>8. value[m] = Scale * (4 * (score[m] - a) * t + 6 * (RerankScore[m] - b) * s)
  BY DEF BlendedScore
<1>9. \A c \in DOMAIN score \ scored : value[c] = 10 * s * t * score[c]
  BY DEF BlendedScore
<1>10. Scale \in Nat \ {0} /\ FusionK \in Nat
  BY RetrievalAssumption DEF RetrievalAssumption
<1> HIDE DEF value, a, b, s, t, hi
<1> DEFINE u == s * t
<1>11. u \in Nat \ {0}
  BY <1>4, <1>6
<1>12. value[m] >= Scale * (6 * u) /\ value[m] \in Int
  <2> DEFINE w == score[m] - a
             x == 4 * w * t
  <2>1. w \in Nat
    BY <1>3, <1>4
  <2> HIDE DEF w
  <2>2. x \in Nat
    BY <1>6, <2>1
  <2> HIDE DEF x
  <2>3. value[m] = Scale * (x + 6 * u)
    <3>1. RerankScore[m] - b = t
      BY <1>6, <1>7
    <3>2. 6 * t * s = 6 * u
      BY <1>4, <1>6 DEF u
    <3> QED
      BY <1>8, <3>1, <3>2 DEF x, w
  <2> HIDE DEF u
  <2> DEFINE y == 6 * u
  <2>4. y \in Nat
    BY <1>11
  <2> HIDE DEF y
  <2>5. Scale * (x + y) = Scale * x + Scale * y /\ Scale * x \in Nat /\ Scale * y \in Nat
    BY <1>10, <2>2, <2>4
  <2> QED
    BY <2>3, <2>5 DEF y
<1>13. ASSUME NEW c \in DOMAIN score \ scored
       PROVE  value[c] < value[m]
  <2> DEFINE f == score[c]
             k == FusionK + 1
  <2>1. f \in Nat /\ f * k <= 3 * Scale
    BY DEF FusedBounded
  <2>2. k \in Nat /\ k >= 6
    BY <1>10
  <2> HIDE DEF f, k, u
  <2>3. 6 * f <= 3 * Scale
    <3>1. f * 6 <= f * k /\ f * k \in Int
      BY <2>1, <2>2
    <3> QED
      BY <1>10, <2>1, <3>1
  <2>4. 10 * f < 6 * Scale
    BY <1>10, <2>1, <2>3
  <2>5. (10 * f) * u < (6 * Scale) * u
    <3> DEFINE p == 10 * f
               q == 6 * Scale
    <3>1. p \in Nat /\ q \in Nat /\ p < q
      BY <1>10, <2>1, <2>4
    <3> HIDE DEF p, q
    <3>2. p * u < q * u
      BY <1>11, <3>1
    <3> QED
      BY <3>2 DEF p, q
  <2>6. value[c] = (10 * f) * u
    <3>1. value[c] = 10 * s * t * f
      BY <1>9 DEF f
    <3> QED
      BY <1>4, <1>6, <2>1, <3>1 DEF u
  <2>7. (6 * Scale) * u = Scale * (6 * u) /\ Scale * (6 * u) \in Int /\ value[c] \in Int
    BY <1>10, <1>11, <2>1, <2>6
  <2> QED
    BY <1>12, <2>5, <2>6, <2>7
<1> QED
  BY <1>13 DEF value

\* The blend only moves the chunks of the fused list.
LEMMA BlendedLists ==
    ASSUME NEW fused \in Seq(Chunks), NEW score \in Scorings, ToSet(fused) \subseteq DOMAIN score,
           NEW reranked \in Seq(ToSet(fused))
    PROVE  /\ Blended(fused, score, reranked) \in Seq(Chunks)
           /\ ToSet(Blended(fused, score, reranked)) \subseteq ToSet(fused)
<1>1. CASE reranked = <<>>
  BY <1>1 DEF Blended
<1>2. CASE reranked # <<>>
  <2> DEFINE scored == ToSet(reranked)
             rest == Kept(fused, ToSet(fused) \ scored)
             all == reranked \o rest
             value == BlendedScore(score, scored)
  <2>1. Blended(fused, score, reranked) = Sorted(all, value)
    BY <1>2 DEF Blended
  <2>2. /\ ToSet(fused) \subseteq Chunks /\ scored \subseteq ToSet(fused) /\ scored # {}
    <3>1. ToSet(fused) \subseteq Chunks /\ scored \subseteq ToSet(fused)
      BY DEF ToSet
    <3>2. 1 \in DOMAIN reranked
      BY <1>2
    <3>3. reranked[1] \in scored
      BY <3>2 DEF ToSet
    <3> QED
      BY <3>1, <3>3
  <2>3. \A c \in DOMAIN score : value[c] \in Int
    <3>1. scored \subseteq Chunks /\ scored \subseteq DOMAIN score
      BY <2>2
    <3> HIDE DEF scored
    <3> QED
      BY <2>2, <3>1, BlendedValues
  <2>8. all \in Seq(ToSet(fused)) /\ ToSet(all) \subseteq ToSet(fused)
    <3>1. rest \in Seq(ToSet(fused) \cap (ToSet(fused) \ scored))
      BY KeptLists
    <3> HIDE DEF rest
    <3>2. rest \in Seq(ToSet(fused))
      BY <3>1
    <3>3. all \in Seq(ToSet(fused))
      BY <3>2
    <3> HIDE DEF all
    <3> QED
      BY <3>3 DEF ToSet
  <2> HIDE DEF all, value
  <2>9. all \in Seq(Chunks) /\ \A c \in ToSet(all) : value[c] \in Int
    BY <2>2, <2>3, <2>8
  <2> QED
    BY <2>1, <2>8, <2>9, SortedLists
<1> QED
  BY <1>1, <1>2

\* If the cross-encoder told chunks apart, one that it scored leads the blend.
LEMMA BlendLeads ==
    ASSUME FusionK >= 5, NEW fused \in Seq(Chunks), NEW score \in Scorings, FusedBounded(score),
           ToSet(fused) \subseteq DOMAIN score, NEW reranked \in Seq(ToSet(fused)),
           Cardinality({RerankScore[c] : c \in ToSet(reranked)}) > 1
    PROVE  Head(Blended(fused, score, reranked)) \in ToSet(reranked)
<1> DEFINE scored == ToSet(reranked)
           rest == Kept(fused, ToSet(fused) \ scored)
           all == reranked \o rest
           value == BlendedScore(score, scored)
           head == Head(Sorted(all, value))
<1>1. scored # {}
  <2>1. scored = {} => {RerankScore[c] : c \in scored} = {}
    OBVIOUS
  <2>2. Cardinality({}) = 0
    BY FS_EmptySet
  <2>3. scored = {} => Cardinality({RerankScore[c] : c \in scored}) = 0
    BY <2>1, <2>2
  <2> QED
    BY <2>3
<1>2. reranked # <<>>
  BY <1>1 DEF ToSet
<1>3. Head(Blended(fused, score, reranked)) = head
  BY <1>2 DEF Blended
<1>4. scored \subseteq ToSet(fused) /\ ToSet(fused) \subseteq Chunks
  BY DEF ToSet
<1>5. PICK m \in scored : \A c \in DOMAIN score \ scored : value[c] < value[m]
  <2> HIDE DEF scored
  <2> QED
    BY <1>4, BestBlend DEF scored
<1>6. \A c \in DOMAIN score : value[c] \in Int
  <2> HIDE DEF scored
  <2> QED
    BY <1>1, <1>4, BlendedValues
<1>7. all \in Seq(ToSet(fused)) /\ scored \subseteq ToSet(all) /\ all # <<>>
  <2>1. rest \in Seq(ToSet(fused) \cap (ToSet(fused) \ scored))
    BY KeptLists
  <2> HIDE DEF rest
  <2>2. rest \in Seq(ToSet(fused))
    BY <2>1
  <2>3. all \in Seq(ToSet(fused)) /\ Len(all) = Len(reranked) + Len(rest)
    BY <2>2
  <2>4. \A i \in DOMAIN reranked : i \in DOMAIN all /\ all[i] = reranked[i]
    BY <2>2
  <2> QED
    BY <1>2, <2>3, <2>4 DEF ToSet
<1> HIDE DEF all, value
<1>8. ToSet(all) \subseteq ToSet(fused) /\ all \in Seq(Chunks)
  BY <1>4, <1>7 DEF ToSet
<1>9. /\ head \in ToSet(all)
      /\ \A c \in ToSet(all) : value[c] <= value[head]
  <2>1. \A c \in ToSet(all) : value[c] \in Int
    BY <1>6, <1>8
  <2> QED
    BY <1>7, <1>8, <2>1, SortedFirst
<1> HIDE DEF head, scored
<1>10. m \in ToSet(all) /\ m \in DOMAIN score /\ head \in DOMAIN score
  BY <1>4, <1>7, <1>8, <1>9
<1>11. value[m] <= value[head] /\ value[m] \in Int /\ value[head] \in Int
  BY <1>6, <1>9, <1>10
<1>12. head \in scored
  BY <1>5, <1>10, <1>11
<1> QED
  BY <1>3, <1>12 DEF scored

\* A merge with no more reserved places than top_k: how long it is, and which
\* federated hits it shows.
\* The result has the places the candidates can fill; its federated part is
\* the best of what is worth showing, in its order.
Fills(result, local, federated, low, k, quota) ==
    LET worth == Kept(federated, ToSet(federated) \ low)
        slots == Min({quota, Len(worth)})
    IN  /\ Len(result) = Min({k, Len(local) + slots})
        /\ Kept(result, {c \in ToSet(result) : c[1] # "local"}) = Slice(worth, slots)

LEMMA MergeShows ==
    ASSUME NEW T, NEW local \in Seq(T), NEW federated \in Seq(T), NEW low,
           NEW k \in Nat, NEW quota \in Nat, quota <= k,
           \A i \in 1 .. Len(local) : local[i][1] = "local",
           \A i \in 1 .. Len(federated) : federated[i][1] # "local"
    PROVE  Fills(Merge(local, federated, low, k, quota), local, federated, low, k, quota)
<1> DEFINE worth == Kept(federated, ToSet(federated) \ low)
           slots == Min({quota, Len(worth)})
           first == Slice(local, k - slots)
           second == Slice(worth, slots)
           result == first \o second
           S == {c \in ToSet(result) : c[1] # "local"}
<1>1. worth \in Seq(T) /\ Len(worth) \in Nat /\ ToSet(worth) \subseteq ToSet(federated)
  <2> DEFINE shown == ToSet(federated) \ low
  <2> HIDE DEF shown
  <2>2. /\ Kept(federated, shown) \in Seq(T)
        /\ ToSet(Kept(federated, shown)) = ToSet(federated) \cap shown
    BY KeptLists
  <2>1. worth \in Seq(T) /\ ToSet(worth) \subseteq ToSet(federated)
    BY <2>2 DEF shown
  <2> HIDE DEF worth
  <2> QED
    BY <2>1
<1>2. \A c \in ToSet(worth) : c[1] # "local"
  <2>1. \A c \in ToSet(federated) : c[1] # "local"
    BY DEF ToSet
  <2> QED
    BY <1>1, <2>1
<1>3. Merge(local, federated, low, k, quota) = result
  BY DEF Merge
<1> HIDE DEF worth
<1>4. slots = IF quota <= Len(worth) THEN quota ELSE Len(worth)
  <2> DEFINE n == Len(worth)
  <2>1. n \in Int
    BY <1>1
  <2> HIDE DEF n
  <2>2. Min({quota, n}) = IF quota <= n THEN quota ELSE n
    BY <2>1, MinMaxOfTwo
  <2> QED
    BY <2>2 DEF n
<1>5. slots \in Nat /\ slots <= k /\ slots <= Len(worth)
  BY <1>1, <1>4
<1> HIDE DEF slots
<1>6. /\ second \in Seq(T) /\ Len(second) = slots
      /\ \A i \in 1 .. slots : second[i] = worth[i]
  BY <1>1, <1>5, SliceLists
<1> DEFINE m == k - slots
           l == Len(local)
<1>7. m \in Nat /\ l \in Nat
  BY <1>5
<1> HIDE DEF m
<1>8. /\ Slice(local, m) \in Seq(T) /\ Len(Slice(local, m)) = IF m <= l THEN m ELSE l
      /\ \A i \in 1 .. Len(Slice(local, m)) : Slice(local, m)[i] = local[i]
      /\ Len(Slice(local, m)) <= l
  BY <1>7, SliceLists
<1>9. /\ first \in Seq(T) /\ Len(first) = (IF m <= l THEN m ELSE l)
      /\ \A i \in 1 .. Len(first) : first[i] = local[i]
      /\ Len(first) <= l
  BY <1>8 DEF m
<1> HIDE DEF first, second
<1>10. result \in Seq(T) /\ Len(result) = Len(first) + slots
  <2>1. first \in Seq(T) /\ second \in Seq(T) /\ Len(second) = slots
    BY <1>6, <1>9
  <2>2. result \in Seq(T) /\ Len(result) = Len(first) + Len(second)
    BY <2>1, ConcatProperties
  <2> QED
    BY <2>1, <2>2
<1>11. Min({k, l + slots}) = IF k <= l + slots THEN k ELSE l + slots
  <2> DEFINE n == l + slots
  <2>1. n \in Int
    BY <1>5, <1>7
  <2> HIDE DEF n
  <2>2. Min({k, n}) = IF k <= n THEN k ELSE n
    BY <2>1, MinMaxOfTwo
  <2> QED
    BY <2>2 DEF n
<1>12. Len(result) = Min({k, l + slots})
  <2> HIDE DEF l, result
  <2> QED
    BY <1>5, <1>7, <1>9, <1>10, <1>11 DEF m
<1>13. \A i \in 1 .. Len(first) : first[i] \notin S
  BY <1>7, <1>9
<1>14. \A i \in 1 .. Len(second) : second[i] \in S
  <2> SUFFICES ASSUME NEW i \in 1 .. Len(second) PROVE second[i] \in S
    OBVIOUS
  <2>1. second[i] = worth[i] /\ i \in 1 .. Len(worth)
    BY <1>1, <1>5, <1>6
  <2>2. second[i][1] # "local"
    BY <1>1, <1>2, <2>1 DEF ToSet
  <2>3. Len(first) + i \in DOMAIN result /\ result[Len(first) + i] = second[i]
    BY <1>6, <1>9
  <2>4. second[i] \in ToSet(result)
    BY <2>3 DEF ToSet
  <2> QED
    BY <2>2, <2>4
<1> HIDE DEF S
<1>15. Kept(first \o second, S) = second
  BY <1>6, <1>9, <1>13, <1>14, KeptOfConcat
<1> QED
  BY <1>3, <1>12, <1>15 DEF Fills, worth, slots, second, S

-----------------------------------------------------------------------------
(* The inductive invariant                                                 *)

Found == ({"local"} \X Chunks) \cup UNION {ToSet(Hits[s]) : s \in Asked}
Stores == [{"chunks", "embeddings", "provenance", "active"} -> SUBSET Chunks]
Progress ==
    [pc : Steps, answer : {"none", "ok", "failed"}, topk : Nat, rerank : BOOLEAN,
     federated : BOOLEAN, limit : Nat, pool : Nat, previous : Int, lists : Seq(Seq(Chunks)),
     score : Scorings, known : SUBSET Chunks, scored : SUBSET Chunks, local : Seq(Chunks),
     result : Seq(Found)]

CacheType == [valid : {"unset", "yes", "no"}, catalog : {"unset", "loaded", "empty"}]
Types ==
    /\ store \in Stores
    /\ cache \in CacheType
    /\ queue \in Seq(Requests \cup {"poll"})
    /\ worker \in Requests \cup {"none", "poll"}
    /\ req \in [Requests -> Progress]
    /\ call \in [Requests -> [Asked -> {"none", "queued", "running"}]]
    /\ outcome \in [Requests -> [Asked -> Outcomes]]
    /\ seen \in [Requests -> SUBSET Chunks]
    /\ quiet \in [Requests -> BOOLEAN]

\* The worker has one job; those that wait are the poller's and, once each,
\* those of queued requests; a request not made yet asks nobody.
Jobs ==
    /\ \A r \in Requests :
           req[r].pc \notin {"new", "queued", "done", "failed"} <=> worker = r
    /\ \A i \in DOMAIN queue :
           queue[i] # "poll" => queue[i] \in Requests /\ req[queue[i]].pc = "queued"
    /\ \A i, j \in DOMAIN queue : queue[i] = queue[j] /\ queue[i] # "poll" => i = j
    /\ \A r \in Requests : req[r].pc = "new" =>
           req[r].answer = "none" /\ \A s \in Asked : outcome[r][s] # "pending"

Threads == IsFiniteSet(Running) /\ Cardinality(Running) <= PoolThreads

\* What a request carries from step to step fits the step it is at, and its
\* pool is no larger than it was at first or than twice the chunks there are.
Shaped(q) ==
    /\ q.pc # "new" =>
           q.topk \in TopKs /\ \E p \in {q.topk, RerankPool} : q.limit = PoolSize(q.topk, p)
    /\ Len(q.lists) = CASE q.pc = "keyword" -> 1 [] q.pc = "graph" -> 2 [] OTHER -> 0
    /\ q.pc \in {"known", "active", "rerank"} => ToSet(q.local) \subseteq DOMAIN q.score
    /\ q.pc \in {"known", "active"} => Len(q.local) <= Cardinality(Chunks)
    /\ q.pool <= q.limit \/ q.pool <= 2 * Cardinality(Chunks)

\* sn has what is active now, and what the filter found active.
Visible(q, st, sn) ==
    /\ q.pc # "new" => st.active \subseteq sn
    /\ q.pc \in {"rerank", "build", "done"} => ToSet(q.local) \subseteq sn

\* While the index stays as it is, the candidates are rows of it, all those
\* with provenance are known to have it once that is read, and a request whose
\* rows all have provenance fails only when its pool is too large.
Healthy(q, st, qt) ==
    qt =>
        /\ \A i \in DOMAIN q.lists : q.lists[i] \in Seq(Rows(st))
        /\ q.pc \in {"known", "active"} => ToSet(q.local) \subseteq Rows(st)
        /\ q.pc = "active" => ToSet(q.local) \cap st.provenance \subseteq q.known
        /\ q.answer = "failed" /\ Rows(st) \subseteq st.provenance =>
               q.pc = "failed" /\ q.pool > MaxTopK

Sane(q, st, sn, qt) == Shaped(q) /\ Visible(q, st, sn) /\ Healthy(q, st, qt)

\* No search asks for fewer results than are reserved for federated hits.
QuotaFits == \A k \in TopKs : Quota <= k

\* What MergeExact says of one request.
Shown(r) ==
    LET worth == Kept(Candidates(r), ToSet(Candidates(r)) \ LowSignal)
        slots == IF req[r].federated THEN Min({Quota, Len(worth)}) ELSE 0
    IN /\ Len(req[r].result) = Min({req[r].topk, Len(req[r].local) + slots})
       /\ Kept(req[r].result, {c \in ToSet(req[r].result) : c[1] # "local"}) = Slice(worth, slots)

\* A request that was answered is over, and so are its calls.
Over(r) ==
    Answered(r) =>
        /\ req[r].pc = "done"
        /\ \A s \in Asked : outcome[r][s] # "pending"
        /\ QuotaFits => Shown(r)

Inv ==
    /\ Types /\ Jobs /\ Threads
    /\ \A r \in Requests : Sane(req[r], store, seen[r], quiet[r]) /\ Over(r)

-----------------------------------------------------------------------------
(* Lemmas of the inductive step                                            *)

\* The requests a step leaves alone stay over, if they were.
LEMMA OverKept ==
    ASSUME NEW r \in Requests, Over(r), req'[r] = req[r], outcome'[r] = outcome[r]
    PROVE  Over(r)'
<1>1. Candidates(r)' = Candidates(r)
  BY DEF Candidates, Places
<1>2. Shown(r)' <=> Shown(r)
  BY <1>1 DEF Shown
<1> QED
  BY <1>2 DEF Over, Answered

LEMMA NotAnswered ==
    ASSUME NEW r \in Requests, req[r].answer # "ok"
    PROVE  Over(r)
BY DEF Over, Answered

\* A step that fails or may fail makes no request quiet.
LEMMA QuietOnly ==
    ASSUME Types, Sound \/ Faulty
    PROVE  /\ quiet' \in [Requests -> BOOLEAN]
           /\ \A r \in Requests : quiet'[r] => quiet[r]
           /\ Faulty => \A r \in Requests : ~quiet'[r]
BY DEF Types, Sound, Faulty

LEMMA SaneWeaker ==
    ASSUME NEW q, NEW st, NEW sn, NEW qt, NEW qu, Sane(q, st, sn, qt), qu => qt
    PROVE  Sane(q, st, sn, qu)
BY DEF Sane, Healthy

LEMMA ThreadsKept ==
    ASSUME Threads, Running' \subseteq Running
    PROVE  Threads'
<1>1. Running' \in SUBSET Running
  OBVIOUS
<1>2. IsFiniteSet(Running') /\ Cardinality(Running') <= Cardinality(Running)
  BY <1>1, FS_Subset DEF Threads
<1>3. /\ Cardinality(Running) \in Int /\ Cardinality(Running') \in Int /\ PoolThreads \in Int
  BY <1>2, FS_CardinalityType, SearchAssumption DEF Threads, SearchAssumption
<1> QED
  BY <1>2, <1>3 DEF Threads

\* What a step of the request on the worker must leave behind.
LEMMA StepKeeps ==
    ASSUME Inv, NEW r \in Requests, worker = r, NEW q \in Progress, Step(r, q),
           Sound \/ Faulty, cache' \in CacheType,
           q.pc \notin {"new", "queued"}, q.answer # "ok",
           Sane(q, store, seen[r], quiet'[r])
    PROVE  Inv'
<1>1. /\ Types /\ Jobs /\ Threads
      /\ \A p \in Requests : Sane(req[p], store, seen[p], quiet[p]) /\ Over(p)
  BY DEF Inv
<1>2. /\ req' \in [Requests -> Progress] /\ req'[r] = q
      /\ \A p \in Requests \ {r} : req'[p] = req[p]
      /\ worker' = IF q.pc \in {"done", "failed"} THEN "none" ELSE r
      /\ UNCHANGED <<store, writes, queue, call, outcome, seen, polls>>
  BY <1>1 DEF Types, Step, index, loop
<1>3. Types'
  BY <1>1, <1>2, QuietOnly DEF Types
<1>4. Jobs'
  <2>1. /\ \A p \in Requests \ {r} : req[p].pc \in {"new", "queued", "done", "failed"}
        /\ req[r].pc \notin {"new", "queued", "done", "failed"}
    BY <1>1 DEF Jobs
  <2>2. q.pc \notin {"new", "queued", "done", "failed"} <=> worker' = r
    BY <1>2, SearchAssumption DEF SearchAssumption
  <2>3. \A p \in Requests \ {r} : worker' # p
    BY <1>2, SearchAssumption DEF SearchAssumption
  <2>4. \A p \in Requests : req'[p].pc \notin {"new", "queued", "done", "failed"} <=> worker' = p
    BY <1>2, <2>1, <2>2, <2>3
  <2>5. \A i \in DOMAIN queue' : queue'[i] # "poll" =>
            queue'[i] \in Requests /\ req'[queue'[i]].pc = "queued"
    BY <1>1, <1>2, <2>1 DEF Jobs
  <2>6. \A p \in Requests : req'[p].pc = "new" =>
            req'[p].answer = "none" /\ \A s \in Asked : outcome'[p][s] # "pending"
    BY <1>1, <1>2 DEF Jobs
  <2> QED
    BY <1>1, <1>2, <2>4, <2>5, <2>6 DEF Jobs
<1>5. Threads'
  BY <1>1, <1>2, ThreadsKept DEF Running
<1>6. ASSUME NEW p \in Requests PROVE Sane(req[p], store, seen[p], quiet[p])' /\ Over(p)'
  <2>1. CASE p = r
    <3>1. Over(r)'
      BY <1>2 DEF Over, Answered
    <3> QED
      BY <1>2, <2>1, <3>1
  <2>2. CASE p # r
    <3>1. Sane(req[p], store, seen[p], quiet'[p])
      BY <1>1, QuietOnly, SaneWeaker
    <3>2. Over(p)'
      BY <1>1, <1>2, <2>2, OverKept
    <3> QED
      BY <1>2, <2>2, <3>1, <3>2
  <2> QED
    BY <2>1, <2>2
<1> QED
  BY <1>3, <1>4, <1>5, <1>6 DEF Inv

\* The request on the worker: where it may be, and that it was not answered.
LEMMA OnWorker ==
    ASSUME Inv, NEW r \in Requests, worker = r
    PROVE  /\ req[r] \in Progress /\ req[r].answer \in {"none", "failed"}
           /\ Sane(req[r], store, seen[r], quiet[r]) /\ store.active \subseteq seen[r]
           /\ seen[r] \subseteq Chunks
           /\ store.chunks \in SUBSET Chunks /\ store.embeddings \in SUBSET Chunks
<1>1. req[r] \in Progress /\ store \in Stores /\ seen[r] \subseteq Chunks
  BY DEF Inv, Types
<1>2. req[r].pc \notin {"new", "queued", "done", "failed"}
  BY DEF Inv, Jobs
<1>3. req[r].answer # "ok"
  BY <1>2 DEF Inv, Over, Answered
<1>4. Sane(req[r], store, seen[r], quiet[r])
  BY DEF Inv
<1> QED
  BY <1>1, <1>2, <1>3, <1>4 DEF Progress, Sane, Visible, Stores

LEMMA RaiseKeeps ==
    ASSUME Inv, NEW r \in Requests, worker = r, Raise(r), req[r].pc \notin {"keyword", "graph"},
           Sound \/ Faulty, cache' \in CacheType,
           quiet'[r] /\ Rows(store) \subseteq store.provenance => req[r].pool > MaxTopK
    PROVE  Inv'
<1> DEFINE p == req[r]
           q == [p EXCEPT !.pc = "failed", !.answer = "failed"]
<1>1. p \in Progress /\ Sane(p, store, seen[r], quiet[r]) /\ store.active \subseteq seen[r]
  BY OnWorker
<1>2. q \in Progress
  BY <1>1 DEF Progress, Steps
<1>3. /\ q.pc = "failed" /\ q.answer = "failed" /\ q.topk = p.topk /\ q.limit = p.limit
      /\ q.pool = p.pool /\ q.lists = p.lists /\ q.score = p.score /\ q.local = p.local
  BY <1>1 DEF Progress
<1> HIDE DEF q
<1>4. p.pc # "new"
  BY DEF Inv, Jobs
<1>5. Shaped(q)
  BY <1>1, <1>3, <1>4 DEF Sane, Shaped
<1>6. Visible(q, store, seen[r])
  BY <1>1, <1>3 DEF Visible
<1>7. quiet'[r] => quiet[r]
  BY QuietOnly DEF Inv
<1>8. Healthy(q, store, quiet'[r])
  BY <1>1, <1>3, <1>7 DEF Sane, Healthy
<1>9. Step(r, q)
  BY DEF Raise, q
<1> QED
  BY <1>2, <1>3, <1>5, <1>6, <1>8, <1>9, StepKeeps DEF Sane

LEMMA ListedKeeps ==
    ASSUME Inv, NEW r \in Requests, worker = r, NEW list, NEW pc, Listed(r, list, pc),
           <<req[r].pc, pc>> \in {<<"semantic", "keyword">>, <<"keyword", "graph">>},
           Sound \/ Faulty, cache' \in CacheType,
           list \in Seq(Rows(store))
    PROVE  Inv'
<1> DEFINE p == req[r]
           q == [p EXCEPT !.lists = Append(@, list), !.pc = pc]
<1>1. /\ p \in Progress /\ Sane(p, store, seen[r], quiet[r]) /\ store.active \subseteq seen[r]
      /\ p.answer \in {"none", "failed"} /\ Rows(store) \subseteq Chunks
  BY OnWorker DEF Rows
<1>2. pc \in Steps /\ p.lists \in Seq(Seq(Chunks)) /\ list \in Seq(Chunks)
  BY <1>1 DEF Progress, Steps
<1>3. q \in Progress
  <2> DEFINE lists == Append(p.lists, list)
  <2>1. lists \in Seq(Seq(Chunks))
    BY <1>2
  <2>2. q = [p EXCEPT !.lists = lists, !.pc = pc]
    OBVIOUS
  <2> HIDE DEF lists, q
  <2> QED
    BY <1>1, <1>2, <2>1, <2>2 DEF Progress
<1>4. /\ q.pc = pc /\ q.answer = p.answer /\ q.topk = p.topk /\ q.limit = p.limit
      /\ q.pool = p.pool /\ q.lists = Append(p.lists, list) /\ q.score = p.score /\ q.local = p.local
  BY <1>1 DEF Progress
<1> HIDE DEF q
<1>5. Shaped(q)
  BY <1>1, <1>2, <1>4 DEF Sane, Shaped
<1>6. Visible(q, store, seen[r])
  BY <1>1, <1>4 DEF Visible
<1>7. quiet'[r] => quiet[r]
  BY QuietOnly DEF Inv
<1>8. Healthy(q, store, quiet'[r])
  <2>1. p.pc \notin {"failed", "known", "active"}
    OBVIOUS
  <2> QED
    BY <1>1, <1>2, <1>4, <1>7, <2>1 DEF Sane, Healthy
<1>9. Step(r, q)
  BY DEF Listed, q
<1> QED
  BY <1>1, <1>3, <1>4, <1>5, <1>6, <1>8, <1>9, StepKeeps DEF Sane

-----------------------------------------------------------------------------
(* The steps of a local search                                             *)

\* The lists the engines give the request on the worker.
LEMMA ListsNow ==
    ASSUME Inv, NEW r \in Requests, worker = r
    PROVE  /\ Semantic(store, req[r].pool) \in Seq(Rows(store))
           /\ Keyword(store, req[r].pool) \in Seq(Rows(store))
           /\ GraphDirect(store, req[r].pool) \in Seq(Rows(store))
<1> DEFINE k == req[r].pool
<1>1. k \in Int
  BY OnWorker DEF Progress
<1>2. store.chunks \in SUBSET Chunks /\ store.embeddings \in SUBSET Chunks
  BY OnWorker
<1> HIDE DEF k
<1>3. \A st, n : st.chunks \in SUBSET Chunks /\ st.embeddings \in SUBSET Chunks /\ n \in Int =>
          /\ Semantic(st, n) \in Seq(Rows(st))
          /\ Keyword(st, n) \in Seq(Rows(st))
          /\ GraphDirect(st, n) \in Seq(Rows(st))
  BY EngineLists
<1> QED
  BY <1>1, <1>2, <1>3 DEF k

LEMMA SemanticKeeps ==
    ASSUME Inv, NEW r \in Requests, SearchSemantic(r)
    PROVE  Inv'
<1> DEFINE list == Semantic(store, req[r].pool)
           empty == <<>>
<1>1. worker = r /\ req[r].pc = "semantic"
  BY DEF SearchSemantic, At
<1>2. list \in Seq(Rows(store))
  BY <1>1, ListsNow
<1>3. list \in Seq(Rows(store)) /\ empty \in Seq(Rows(store))
  BY <1>2
<1>4. Sound \/ Faulty
  BY DEF SearchSemantic
<1>5. cache' \in CacheType
  BY DEF SearchSemantic, CacheType, Inv, Types
<1> HIDE DEF list, empty
<1>6. \/ req[r].pool > MaxTopK /\ Raise(r)
      \/ Faulty /\ Raise(r)
      \/ Listed(r, list, "keyword")
      \/ Listed(r, empty, "keyword")
  BY DEF SearchSemantic, list, empty
<1>7. CASE req[r].pool > MaxTopK /\ Raise(r)
  BY <1>1, <1>4, <1>5, <1>7, RaiseKeeps DEF CacheType
<1>8. CASE Faulty /\ Raise(r)
  <2>1. ~quiet'[r]
    BY <1>8, QuietOnly DEF Inv
  <2> QED
    BY <1>1, <1>5, <1>8, <2>1, RaiseKeeps DEF CacheType
<1>9. CASE Listed(r, list, "keyword")
  BY <1>1, <1>3, <1>4, <1>5, <1>9, ListedKeeps DEF CacheType
<1>10. CASE Listed(r, empty, "keyword")
  BY <1>1, <1>3, <1>4, <1>5, <1>10, ListedKeeps DEF CacheType
<1> QED
  BY <1>6, <1>7, <1>8, <1>9, <1>10

LEMMA KeywordKeeps ==
    ASSUME Inv, NEW r \in Requests, SearchKeyword(r)
    PROVE  Inv'
<1> DEFINE list == Keyword(store, req[r].pool)
           empty == <<>>
<1>1. worker = r /\ req[r].pc = "keyword"
  BY DEF SearchKeyword, At
<1>2. list \in Seq(Rows(store))
  BY <1>1, ListsNow
<1>3. list \in Seq(Rows(store)) /\ empty \in Seq(Rows(store))
  BY <1>2
<1>4. Sound \/ Faulty
  BY DEF SearchKeyword
<1>5. cache' \in CacheType
  BY DEF SearchKeyword, CacheType, Inv, Types
<1> HIDE DEF list, empty
<1>6. Listed(r, list, "graph") \/ Listed(r, empty, "graph")
  BY DEF SearchKeyword, list, empty
<1> QED
  BY <1>1, <1>3, <1>4, <1>5, <1>6, ListedKeeps DEF CacheType

\* The fusion of three lists; the last one is what the graph found, or nothing.
Fuses(r, list) ==
    \E lists \in {Append(req[r].lists, list)} : \E score \in {FusedScore(lists)} :
        Step(r, [req[r] EXCEPT !.lists = <<>>, !.score = score, !.local = Fused(lists, score),
                               !.pc = IF Named(lists) = <<>> THEN "done" ELSE "known"])

\* The lists of the first two engines and, third, the last one.
LEMMA ThirdList ==
    ASSUME NEW T, NEW lists \in Seq(T), Len(lists) = 2, NEW list \in T
    PROVE  /\ Append(lists, list)[1] = lists[1] /\ Append(lists, list)[1] \in T
           /\ Append(lists, list)[2] = lists[2] /\ Append(lists, list)[2] \in T
           /\ Append(lists, list)[3] = list
<1>1. \A s \in Seq(T) : \A e \in T :
          /\ \A i \in 1 .. Len(s) : Append(s, e)[i] = s[i] /\ s[i] \in T
          /\ Append(s, e)[Len(s) + 1] = e
  OBVIOUS
<1>2. 1 \in 1 .. Len(lists) /\ 2 \in 1 .. Len(lists) /\ Len(lists) + 1 = 3
  OBVIOUS
<1>3. /\ \A i \in 1 .. Len(lists) : Append(lists, list)[i] = lists[i] /\ lists[i] \in T
      /\ Append(lists, list)[Len(lists) + 1] = list
  BY <1>1, Zenon
<1> QED
  BY <1>2, <1>3, Zenon

LEMMA FusesKeeps ==
    ASSUME Inv, NEW r \in Requests, worker = r, req[r].pc = "graph", NEW list, Fuses(r, list),
           Sound \/ Faulty, cache' \in CacheType, list \in Seq(Rows(store))
    PROVE  Inv'
<1> DEFINE p == req[r]
           lists == Append(p.lists, list)
           score == FusedScore(lists)
           local == Fused(lists, score)
           pc == IF Named(lists) = <<>> THEN "done" ELSE "known"
           none == <<>>
           q == [p EXCEPT !.lists = none, !.score = score, !.local = local, !.pc = pc]
<1>1. /\ p \in Progress /\ Sane(p, store, seen[r], quiet[r]) /\ store.active \subseteq seen[r]
      /\ p.answer \in {"none", "failed"} /\ Rows(store) \in SUBSET Chunks
  BY OnWorker DEF Rows
<1>2. p.lists \in Seq(Seq(Chunks)) /\ list \in Seq(Chunks) /\ Len(p.lists) = 2
  BY <1>1 DEF Progress, Sane, Shaped
<1>3. /\ lists[1] = p.lists[1] /\ lists[2] = p.lists[2] /\ lists[3] = list
      /\ lists[1] \in Seq(Chunks) /\ lists[2] \in Seq(Chunks) /\ lists[3] \in Seq(Chunks)
  BY <1>2, ThirdList
<1>4. quiet'[r] => quiet[r]
  BY QuietOnly DEF Inv
<1>5. quiet[r] => lists[1] \in Seq(Rows(store)) /\ lists[2] \in Seq(Rows(store))
  BY <1>1, <1>2, <1>3 DEF Sane, Healthy
<1>6. Step(r, q)
  BY DEF Fuses
<1> HIDE DEF lists
<1>7. /\ score \in Scorings /\ local \in Seq(Chunks) /\ ToSet(local) \subseteq DOMAIN score
      /\ Len(local) <= Cardinality(Chunks)
      /\ Named(lists) = <<>> => ToSet(local) = {}
  BY <1>3, FusedLists
<1>8. quiet[r] => ToSet(local) \subseteq Rows(store)
  <2> SUFFICES ASSUME quiet[r] PROVE ToSet(local) \subseteq Rows(store)
    OBVIOUS
  <2>1. local \in Seq(Rows(store))
    BY <1>1, <1>3, <1>5, FusedLists
  <2> HIDE DEF local
  <2> QED
    BY <2>1 DEF ToSet
<1> HIDE DEF score, local
<1>9. pc \in Steps /\ none \in Seq(Seq(Chunks)) /\ Len(none) = 0 /\ DOMAIN none = {}
  BY DEF Steps
<1>10. pc \in {"done", "known"} /\ (pc = "done" => ToSet(local) = {})
  BY <1>7
<1> HIDE DEF pc, none
<1>11. q \in Progress
  BY <1>1, <1>7, <1>9 DEF Progress
<1>12. /\ q.pc = pc /\ q.answer = p.answer /\ q.topk = p.topk /\ q.limit = p.limit
       /\ q.pool = p.pool /\ q.lists = none /\ q.score = score /\ q.local = local
  BY <1>1 DEF Progress
<1> HIDE DEF q
<1>13. Shaped(q)
  BY <1>1, <1>7, <1>9, <1>10, <1>12 DEF Sane, Shaped
<1>14. Visible(q, store, seen[r])
  BY <1>1, <1>10, <1>12 DEF Visible
<1>15. Healthy(q, store, quiet'[r])
  <2>1. p.pc # "failed"
    OBVIOUS
  <2> QED
    BY <1>1, <1>4, <1>8, <1>9, <1>10, <1>12, <2>1 DEF Sane, Healthy
<1> QED
  BY <1>1, <1>6, <1>10, <1>11, <1>12, <1>13, <1>14, <1>15, StepKeeps DEF Sane, CacheType

LEMMA GraphKeeps ==
    ASSUME Inv, NEW r \in Requests, SearchGraph(r)
    PROVE  Inv'
<1> DEFINE list == GraphDirect(store, req[r].pool)
           empty == <<>>
<1>1. worker = r /\ req[r].pc = "graph"
  BY DEF SearchGraph, At
<1>2. list \in Seq(Rows(store))
  BY <1>1, ListsNow
<1>3. list \in Seq(Rows(store)) /\ empty \in Seq(Rows(store))
  BY <1>2
<1>4. Sound \/ Faulty
  BY DEF SearchGraph
<1>5. cache' \in CacheType
  BY DEF SearchGraph, CacheType, Inv, Types
<1> HIDE DEF list, empty
<1>6. Fuses(r, list) \/ Fuses(r, empty)
  BY DEF SearchGraph, Fuses, list, empty
<1> QED
  BY <1>1, <1>3, <1>4, <1>5, <1>6, FusesKeeps

LEMMA ProvenanceKeeps ==
    ASSUME Inv, NEW r \in Requests, LoadProvenance(r)
    PROVE  Inv'
<1> DEFINE p == req[r]
           known == ToSet(p.local) \cap store.provenance
           q == [p EXCEPT !.known = known, !.pc = "active"]
<1>2. cache' \in CacheType /\ worker = r /\ p.pc = "known"
  BY DEF LoadProvenance, At, CacheType, Inv, Types
<1>3. CASE Faulty /\ Raise(r)
  <2>1. ~quiet'[r]
    BY <1>3, QuietOnly DEF Inv
  <2> QED
    BY <1>2, <1>3, <2>1, RaiseKeeps DEF CacheType
<1>4. CASE Sound /\ Step(r, q)
  <2>1. /\ p \in Progress /\ Sane(p, store, seen[r], quiet[r]) /\ store.active \subseteq seen[r]
        /\ p.answer \in {"none", "failed"}
    BY <1>2, OnWorker
  <2>2. known \in SUBSET Chunks
    BY <2>1 DEF Progress, ToSet
  <2> HIDE DEF known
  <2>3. q \in Progress
    BY <2>1, <2>2 DEF Progress, Steps
  <2>4. /\ q.pc = "active" /\ q.answer = p.answer /\ q.topk = p.topk /\ q.limit = p.limit
        /\ q.pool = p.pool /\ q.lists = p.lists /\ q.score = p.score /\ q.local = p.local
        /\ q.known = known
    BY <2>1 DEF Progress
  <2> HIDE DEF q
  <2>5. Shaped(q)
    BY <1>2, <2>1, <2>4 DEF Sane, Shaped
  <2>6. Visible(q, store, seen[r])
    BY <2>1, <2>4 DEF Visible
  <2>7. quiet'[r] => quiet[r]
    BY <1>4, QuietOnly DEF Inv
  <2>8. Healthy(q, store, quiet'[r])
    BY <1>2, <2>1, <2>4, <2>7 DEF Sane, Healthy, known
  <2> QED
    BY <1>2, <1>4, <2>1, <2>3, <2>4, <2>5, <2>6, <2>8, StepKeeps DEF Sane, CacheType
<1> QED
  BY <1>3, <1>4 DEF LoadProvenance

\* What the filter drops is inactive and, once its provenance was read, known;
\* the pool grows only while as many candidates were fused as it asked for.
LEMMA FilterKeeps ==
    ASSUME Inv, NEW r \in Requests, FilterActive(r)
    PROVE  Inv'
<1> DEFINE p == req[r]
           active == ActiveOf(p.local)
           n == Len(p.local)
           unknown == \E c \in ToSet(p.local) : c \notin store.active /\ c \notin p.known
           enough == \/ Len(active) >= p.topk
                     \/ n < p.pool
                     \/ n <= p.previous
           pc == IF active = <<>> THEN "done" ELSE "rerank"
           none == <<>>
           pool == 2 * p.pool
           q1 == [p EXCEPT !.local = active, !.pc = pc]
           q2 == [p EXCEPT !.previous = n, !.pool = pool, !.score = none, !.pc = "semantic"]
<1>1. cache' \in CacheType /\ worker = r /\ p.pc = "active" /\ (Sound \/ Faulty)
  BY DEF FilterActive, At, CacheType, Inv, Types
<1>2. /\ p \in Progress /\ Sane(p, store, seen[r], quiet[r]) /\ store.active \subseteq seen[r]
      /\ p.answer \in {"none", "failed"}
  BY <1>1, OnWorker
<1>3. quiet'[r] => quiet[r]
  BY <1>1, QuietOnly DEF Inv
<1>4. p.local \in Seq(Chunks) /\ n \in Nat /\ p.pool \in Nat
  BY <1>2 DEF Progress
<1>5. /\ active \in Seq(Chunks)
      /\ ToSet(active) = ToSet(p.local) \cap store.active
      /\ active = <<>> => ToSet(active) = {}
  <2>1. active = Kept(p.local, store.active)
    BY DEF ActiveOf
  <2>2. /\ Kept(p.local, store.active) \in Seq(Chunks)
        /\ ToSet(Kept(p.local, store.active)) = ToSet(p.local) \cap store.active
    BY <1>4, KeptLists
  <2>3. active = <<>> => ToSet(active) = {}
    BY DEF ToSet
  <2> QED
    BY <2>1, <2>2, <2>3
<1>6. pc \in {"done", "rerank"} /\ (pc = "done" => ToSet(active) = {})
  BY <1>5
<1>7. none \in Scorings
  BY DEF Scorings
<1>8. \/ unknown /\ Sound /\ Raise(r)
      \/ Faulty /\ Raise(r)
      \/ ~unknown /\ Sound /\ enough /\ Step(r, q1)
      \/ ~unknown /\ Sound /\ ~enough /\ Step(r, q2)
  BY DEF FilterActive
<1> HIDE DEF active, n, pc, none
<1>9. CASE Faulty /\ Raise(r)
  <2>1. ~quiet'[r]
    BY <1>9, QuietOnly DEF Inv
  <2> QED
    BY <1>1, <1>9, <2>1, RaiseKeeps DEF CacheType
<1>10. CASE unknown /\ Sound /\ Raise(r)
  <2>1. ~(quiet'[r] /\ Rows(store) \subseteq store.provenance)
    BY <1>1, <1>2, <1>3, <1>10 DEF Sane, Healthy
  <2> QED
    BY <1>1, <1>10, <2>1, RaiseKeeps DEF CacheType
<1>11. CASE Sound /\ Step(r, q1)
  <2>1. q1 \in Progress
    BY <1>2, <1>5, <1>6 DEF Progress, Steps
  <2>2. /\ q1.pc = pc /\ q1.answer = p.answer /\ q1.topk = p.topk /\ q1.limit = p.limit
        /\ q1.pool = p.pool /\ q1.lists = p.lists /\ q1.score = p.score /\ q1.local = active
    BY <1>2 DEF Progress
  <2> HIDE DEF q1
  <2>3. Shaped(q1)
    BY <1>1, <1>2, <1>5, <1>6, <2>2 DEF Sane, Shaped
  <2>4. Visible(q1, store, seen[r])
    BY <1>2, <1>5, <1>6, <2>2 DEF Visible
  <2>5. Healthy(q1, store, quiet'[r])
    BY <1>1, <1>2, <1>3, <1>6, <2>2 DEF Sane, Healthy
  <2> QED
    BY <1>1, <1>2, <1>6, <1>11, <2>1, <2>2, <2>3, <2>4, <2>5, StepKeeps DEF Sane, CacheType
<1>12. CASE Sound /\ ~enough /\ Step(r, q2)
  <2> DEFINE bound == Cardinality(Chunks)
  <2>1. pool \in Nat /\ n \in Int
    BY <1>4
  <2>2. n <= bound
    BY <1>1, <1>2 DEF Sane, Shaped, n
  <2>3. pool <= 2 * bound
    <3>1. bound \in Int
      <4>1. IsFiniteSet(Chunks)
        BY Scores
      <4> QED
        BY <4>1, FS_CardinalityType
    <3>2. ~(n < p.pool)
      BY <1>12
    <3> HIDE DEF bound
    <3> QED
      BY <1>4, <2>2, <3>1, <3>2
  <2> HIDE DEF pool, bound
  <2>4. q2 \in Progress
    BY <1>2, <1>7, <2>1 DEF Progress, Steps
  <2>5. /\ q2.pc = "semantic" /\ q2.answer = p.answer /\ q2.topk = p.topk /\ q2.limit = p.limit
        /\ q2.pool = pool /\ q2.lists = p.lists /\ q2.local = p.local
    BY <1>2 DEF Progress
  <2> HIDE DEF q2
  <2>6. Shaped(q2)
    BY <1>1, <1>2, <2>3, <2>5 DEF Sane, Shaped, bound
  <2>7. Visible(q2, store, seen[r])
    BY <1>2, <2>5 DEF Visible
  <2>8. Healthy(q2, store, quiet'[r])
    BY <1>1, <1>2, <1>3, <2>5 DEF Sane, Healthy
  <2> QED
    BY <1>1, <1>2, <1>12, <2>4, <2>5, <2>6, <2>7, <2>8, StepKeeps DEF Sane, CacheType
<1> QED
  BY <1>8, <1>9, <1>10, <1>11, <1>12

LEMMA RerankKeeps ==
    ASSUME Inv, NEW r \in Requests, Rerank(r)
    PROVE  Inv'
<1> DEFINE p == req[r]
           top == Slice(p.local, p.limit)
           ranked == Reranked(store, top)
           scored == ToSet(ranked)
           local == Blended(p.local, p.score, ranked)
           q1 == [p EXCEPT !.local = local, !.scored = scored, !.pc = "build"]
           q2 == [p EXCEPT !.pc = "build"]
<1>1. cache' \in CacheType /\ worker = r /\ p.pc = "rerank" /\ (Sound \/ Faulty)
  BY DEF Rerank, At, CacheType, Inv, Types
<1>2. /\ p \in Progress /\ Sane(p, store, seen[r], quiet[r]) /\ store.active \subseteq seen[r]
      /\ p.answer \in {"none", "failed"}
  BY <1>1, OnWorker
<1>3. quiet'[r] => quiet[r]
  BY <1>1, QuietOnly DEF Inv
<1>4. Step(r, q1) \/ Step(r, q2)
  BY DEF Rerank
<1>5. CASE Step(r, q1)
  <2>1. /\ p.local \in Seq(Chunks) /\ p.limit \in Int /\ p.score \in Scorings
        /\ ToSet(p.local) \subseteq DOMAIN p.score /\ ToSet(p.local) \subseteq Chunks
    BY <1>1, <1>2 DEF Progress, Sane, Shaped, ToSet
  <2>2. top \in Seq(Chunks) /\ ToSet(top) \subseteq ToSet(p.local)
    BY <2>1, SliceLists
  <2> HIDE DEF top
  <2>3. ranked \in Seq(ToSet(top))
    BY <2>2, RerankedLists
  <2> HIDE DEF ranked
  <2>4. ranked \in Seq(ToSet(p.local))
    BY <2>2, <2>3
  <2>5. scored \in SUBSET Chunks
    BY <2>1, <2>4 DEF ToSet
  <2>6. local \in Seq(Chunks) /\ ToSet(local) \subseteq ToSet(p.local)
    BY <2>1, <2>4, BlendedLists
  <2> HIDE DEF scored, local
  <2>7. q1 \in Progress
    BY <1>2, <2>5, <2>6 DEF Progress, Steps
  <2>8. /\ q1.pc = "build" /\ q1.answer = p.answer /\ q1.topk = p.topk /\ q1.limit = p.limit
        /\ q1.pool = p.pool /\ q1.lists = p.lists /\ q1.score = p.score /\ q1.local = local
    BY <1>2 DEF Progress
  <2> HIDE DEF q1
  <2>9. Shaped(q1)
    BY <1>1, <1>2, <2>8 DEF Sane, Shaped
  <2>10. Visible(q1, store, seen[r])
    BY <1>1, <1>2, <2>6, <2>8 DEF Sane, Visible
  <2>11. Healthy(q1, store, quiet'[r])
    BY <1>1, <1>2, <1>3, <2>8 DEF Sane, Healthy
  <2> QED
    BY <1>1, <1>2, <1>5, <2>7, <2>8, <2>9, <2>10, <2>11, StepKeeps DEF Sane, CacheType
<1>6. CASE Step(r, q2)
  <2>1. q2 \in Progress
    BY <1>2 DEF Progress, Steps
  <2>2. /\ q2.pc = "build" /\ q2.answer = p.answer /\ q2.topk = p.topk /\ q2.limit = p.limit
        /\ q2.pool = p.pool /\ q2.lists = p.lists /\ q2.score = p.score /\ q2.local = p.local
    BY <1>2 DEF Progress
  <2> HIDE DEF q2
  <2>3. Shaped(q2)
    BY <1>1, <1>2, <2>2 DEF Sane, Shaped
  <2>4. Visible(q2, store, seen[r])
    BY <1>1, <1>2, <2>2 DEF Sane, Visible
  <2>5. Healthy(q2, store, quiet'[r])
    BY <1>1, <1>2, <1>3, <2>2 DEF Sane, Healthy
  <2> QED
    BY <1>1, <1>2, <1>6, <2>1, <2>2, <2>3, <2>4, <2>5, StepKeeps DEF Sane, CacheType
<1> QED
  BY <1>4, <1>5, <1>6

LEMMA BuildKeeps ==
    ASSUME Inv, NEW r \in Requests, BuildCandidates(r)
    PROVE  Inv'
<1> DEFINE p == req[r]
           top == Slice(p.local, p.topk)
           local == Kept(top, store.chunks)
           none == <<>>
           q == [p EXCEPT !.pc = "done", !.score = none, !.known = {}, !.local = local]
<1>1. cache' \in CacheType /\ worker = r /\ p.pc = "build" /\ Sound
  BY DEF BuildCandidates, At, CacheType, Inv, Types
<1>2. /\ p \in Progress /\ Sane(p, store, seen[r], quiet[r]) /\ store.active \subseteq seen[r]
      /\ p.answer \in {"none", "failed"}
  BY <1>1, OnWorker
<1>3. quiet'[r] => quiet[r]
  BY <1>1, QuietOnly DEF Inv
<1>4. Step(r, q)
  BY DEF BuildCandidates
<1>5. p.local \in Seq(Chunks) /\ p.topk \in Int
  BY <1>2 DEF Progress
<1>6. top \in Seq(Chunks) /\ ToSet(top) \subseteq ToSet(p.local)
  BY <1>5, SliceLists
<1> HIDE DEF top
<1>7. local \in Seq(Chunks) /\ ToSet(local) \subseteq ToSet(top)
  <2>1. ToSet(local) = ToSet(top) \cap store.chunks /\ local \in Seq(Chunks)
    BY <1>6, KeptLists
  <2> HIDE DEF local
  <2> QED
    BY <2>1
<1>8. none \in Scorings
  BY DEF Scorings
<1> HIDE DEF local, none
<1>9. q \in Progress
  BY <1>2, <1>7, <1>8 DEF Progress, Steps
<1>10. /\ q.pc = "done" /\ q.answer = p.answer /\ q.topk = p.topk /\ q.limit = p.limit
       /\ q.pool = p.pool /\ q.lists = p.lists /\ q.local = local
  BY <1>2 DEF Progress
<1> HIDE DEF q
<1>11. Shaped(q)
  BY <1>1, <1>2, <1>10 DEF Sane, Shaped
<1>12. Visible(q, store, seen[r])
  BY <1>1, <1>2, <1>6, <1>7, <1>10 DEF Sane, Visible
<1>13. Healthy(q, store, quiet'[r])
  BY <1>1, <1>2, <1>3, <1>10 DEF Sane, Healthy
<1> QED
  BY <1>1, <1>2, <1>4, <1>9, <1>10, <1>11, <1>12, <1>13, StepKeeps DEF Sane, CacheType

LEMMA LocalKeeps ==
    ASSUME Inv, NEW r \in Requests, LocalStep(r)
    PROVE  Inv'
BY SemanticKeeps, KeywordKeeps, GraphKeeps, ProvenanceKeeps, FilterKeeps, RerankKeeps, BuildKeeps
   DEF LocalStep

-----------------------------------------------------------------------------
(* The index, the worker and the poller                                    *)

LEMMA WriteKeeps ==
    ASSUME Inv, NEW st \in Stores, Write(st)
    PROVE  Inv'
<1>1. /\ Types /\ Jobs /\ Threads
      /\ \A r \in Requests : Sane(req[r], store, seen[r], quiet[r]) /\ Over(r)
  BY DEF Inv
<1>2. /\ store' = st /\ st.active \in SUBSET Chunks
      /\ seen' = [r \in Requests |-> seen[r] \cup st.active]
      /\ quiet' = [r \in Requests |-> FALSE]
      /\ UNCHANGED <<cache, queue, worker, req, call, outcome>>
  BY DEF Write, serving, loop, Stores
<1>3. Types'
  <2>1. seen' \in [Requests -> SUBSET Chunks]
    BY <1>1, <1>2 DEF Types
  <2> QED
    BY <1>1, <1>2, <2>1 DEF Types
<1>4. Jobs'
  BY <1>1, <1>2 DEF Jobs
<1>5. Threads'
  BY <1>1, <1>2, ThreadsKept DEF Running
<1>6. ASSUME NEW r \in Requests PROVE Sane(req[r], store, seen[r], quiet[r])' /\ Over(r)'
  <2>1. /\ seen'[r] = seen[r] \cup st.active /\ ~quiet'[r] /\ store' = st /\ req'[r] = req[r]
    BY <1>2
  <2>2. Shaped(req[r]) /\ Visible(req[r], store, seen[r])
    BY <1>1 DEF Sane
  <2>3. Visible(req[r], st, seen'[r])
    BY <2>1, <2>2 DEF Visible
  <2>4. Healthy(req[r], st, quiet'[r])
    BY <2>1 DEF Healthy
  <2>5. Over(r)'
    BY <1>1, <1>2, OverKept
  <2> QED
    BY <2>1, <2>2, <2>3, <2>4, <2>5 DEF Sane
<1> QED
  BY <1>3, <1>4, <1>5, <1>6 DEF Inv

LEMMA SyncKeeps ==
    ASSUME Inv, Sync
    PROVE  Inv'
<1>1. store \in Stores
  BY DEF Inv, Types
<1>2. PICK c \in Chunks :
          \/ Write([store EXCEPT !.active = @ \ {c}])
          \/ Write([store EXCEPT !.active = @ \cup {c}])
          \/ Write([store EXCEPT !.chunks = @ \ {c}])
          \/ Write([store EXCEPT !.provenance = @ \ {c}, !.active = @ \ {c}])
          \/ Write([store EXCEPT !.embeddings = @ \cup {c}])
  BY DEF Sync
<1> DEFINE s1 == [store EXCEPT !.active = @ \ {c}]
           s2 == [store EXCEPT !.active = @ \cup {c}]
           s3 == [store EXCEPT !.chunks = @ \ {c}]
           s4 == [store EXCEPT !.provenance = @ \ {c}, !.active = @ \ {c}]
           s5 == [store EXCEPT !.embeddings = @ \cup {c}]
<1>3. s1 \in Stores /\ s2 \in Stores /\ s3 \in Stores /\ s5 \in Stores
  BY <1>1 DEF Stores
<1>4. s4 \in Stores
  <2> DEFINE a == store.provenance \ {c}
             b == store.active \ {c}
  <2>1. s4 = [store EXCEPT !.provenance = a, !.active = b]
    BY <1>1 DEF Stores
  <2>2. a \in SUBSET Chunks /\ b \in SUBSET Chunks
    BY <1>1 DEF Stores
  <2> HIDE DEF a, b, s4
  <2> QED
    BY <1>1, <2>1, <2>2 DEF Stores
<1>5. Write(s1) \/ Write(s2) \/ Write(s3) \/ Write(s4) \/ Write(s5)
  BY <1>2
<1> HIDE DEF s1, s2, s3, s4, s5
<1> QED
  BY <1>3, <1>4, <1>5, WriteKeeps

\* Steps that leave the requests, the store and the calls alone.
LEMMA Unmoved ==
    ASSUME Inv, UNCHANGED <<store, req, call, outcome, seen, quiet>>
    PROVE  /\ Threads'
           /\ \A r \in Requests : Sane(req[r], store, seen[r], quiet[r])' /\ Over(r)'
<1>1. Threads'
  BY ThreadsKept DEF Running, Inv
<1>2. \A r \in Requests : Sane(req[r], store, seen[r], quiet[r])'
  BY DEF Inv
<1>3. \A r \in Requests : Over(r)'
  BY OverKept DEF Inv
<1> QED
  BY <1>1, <1>2, <1>3

LEMMA PollKeeps ==
    ASSUME Inv, Poll
    PROVE  Inv'
<1>1. Types /\ Jobs
  BY DEF Inv
<1>2. /\ queue' = Append(queue, "poll")
      /\ UNCHANGED <<store, cache, worker, req, call, outcome, seen, quiet>>
  BY DEF Poll, index, loop
<1>3. queue \in Seq(Requests \cup {"poll"})
  BY <1>1 DEF Types
<1>4. /\ queue' \in Seq(Requests \cup {"poll"})
      /\ DOMAIN queue = 1 .. Len(queue) /\ DOMAIN queue' = 1 .. Len(queue) + 1
      /\ \A i \in DOMAIN queue : queue'[i] = queue[i]
      /\ queue'[Len(queue) + 1] = "poll"
      /\ Len(queue) \in Nat
  BY <1>2, <1>3
<1>5. Types'
  BY <1>1, <1>2, <1>4 DEF Types
<1>6. \A i \in DOMAIN queue' : queue'[i] # "poll" => i \in DOMAIN queue
  BY <1>4
<1>7. Jobs'
  BY <1>1, <1>2, <1>4, <1>6 DEF Jobs
<1> QED
  BY <1>2, <1>5, <1>7, Unmoved DEF Inv

LEMMA PollEndKeeps ==
    ASSUME Inv, PollEnd
    PROVE  Inv'
<1>1. Types /\ Jobs
  BY DEF Inv
<1>2. /\ worker = "poll" /\ worker' = "none"
      /\ UNCHANGED <<store, cache, queue, req, call, outcome, seen, quiet>>
  BY DEF PollEnd, index, loop
<1>3. Types'
  BY <1>1, <1>2 DEF Types
<1>4. "none" \notin Requests /\ "poll" \notin Requests
  BY SearchAssumption DEF SearchAssumption
<1>5. \A r \in Requests : worker # r /\ worker' # r
  BY <1>2, <1>4
<1>6. Jobs'
  BY <1>1, <1>2, <1>5 DEF Jobs
<1> QED
  BY <1>2, <1>3, <1>6, Unmoved DEF Inv

LEMMA TakeKeeps ==
    ASSUME Inv, Take
    PROVE  Inv'
<1>1. /\ Types /\ Jobs /\ Threads
      /\ \A r \in Requests : Sane(req[r], store, seen[r], quiet[r]) /\ Over(r)
  BY DEF Inv
<1>2. /\ worker = "none" /\ queue # <<>> /\ worker' = Head(queue) /\ queue' = Tail(queue)
      /\ req' = [r \in Requests |-> IF r = worker' THEN [req[r] EXCEPT !.pc = "semantic"] ELSE req[r]]
      /\ UNCHANGED <<store, cache, call, outcome, seen, quiet>>
  BY DEF Take, index, loop
<1>3. "none" \notin Requests /\ "poll" \notin Requests
  BY SearchAssumption DEF SearchAssumption
<1>4. queue \in Seq(Requests \cup {"poll"})
  BY <1>1 DEF Types
<1>5. /\ DOMAIN queue = 1 .. Len(queue) /\ Len(queue) \in Nat \ {0} /\ worker' = queue[1]
      /\ queue' \in Seq(Requests \cup {"poll"}) /\ DOMAIN queue' = 1 .. Len(queue) - 1
      /\ \A i \in DOMAIN queue' : i + 1 \in DOMAIN queue /\ queue'[i] = queue[i + 1] /\ i + 1 # 1
  BY <1>2, <1>4
<1>6. worker' \in Requests \cup {"poll"} /\ (worker' \in Requests => req[worker'].pc = "queued")
  BY <1>1, <1>3, <1>4, <1>5 DEF Jobs
<1>7. \A r \in Requests : req[r] \in Progress
  BY <1>1 DEF Types
<1>8. ASSUME NEW r \in Requests, r = worker'
      PROVE  /\ req'[r] \in Progress /\ req[r].pc = "queued" /\ req'[r].pc = "semantic"
             /\ req'[r].answer = req[r].answer /\ req'[r].topk = req[r].topk
             /\ req'[r].limit = req[r].limit /\ req'[r].pool = req[r].pool
             /\ req'[r].lists = req[r].lists
  <2> DEFINE q == [req[r] EXCEPT !.pc = "semantic"]
  <2>1. q \in Progress
    BY <1>7 DEF Progress, Steps
  <2>2. req'[r] = q
    BY <1>2, <1>8
  <2> QED
    BY <1>6, <1>7, <1>8, <2>1, <2>2 DEF Progress
<1>9. \A r \in Requests : r # worker' => req'[r] = req[r]
  BY <1>2
<1>10. \A r \in Requests : req'[r] \in Progress
  BY <1>7, <1>8, <1>9
<1>11. Types'
  <2>1. req' \in [Requests -> Progress]
    BY <1>2, <1>10
  <2> QED
    BY <1>1, <1>2, <1>5, <1>6, <2>1 DEF Types
<1>12. Jobs'
  <2>1. \A r \in Requests :
            req'[r].pc \notin {"new", "queued", "done", "failed"} <=> worker' = r
    BY <1>1, <1>2, <1>3, <1>8, <1>9 DEF Jobs
  <2>2. ASSUME NEW i \in DOMAIN queue', queue'[i] # "poll"
        PROVE  queue'[i] \in Requests /\ req'[queue'[i]].pc = "queued"
    <3>1. /\ i + 1 \in DOMAIN queue /\ queue'[i] = queue[i + 1] /\ i + 1 # 1 /\ 1 \in DOMAIN queue
      BY <1>5
    <3>2. queue[i + 1] \in Requests /\ req[queue[i + 1]].pc = "queued" /\ queue[i + 1] # queue[1]
      BY <1>1, <2>2, <3>1 DEF Jobs
    <3> QED
      BY <1>5, <1>9, <3>1, <3>2
  <2>3. ASSUME NEW i \in DOMAIN queue', NEW j \in DOMAIN queue',
               queue'[i] = queue'[j], queue'[i] # "poll"
        PROVE  i = j
    <3>1. /\ i + 1 \in DOMAIN queue /\ queue'[i] = queue[i + 1]
          /\ j + 1 \in DOMAIN queue /\ queue'[j] = queue[j + 1] /\ i \in Int /\ j \in Int
      BY <1>5
    <3>2. i + 1 = j + 1
      BY <1>1, <2>3, <3>1 DEF Jobs
    <3> QED
      BY <3>1, <3>2
  <2>4. \A r \in Requests : req'[r].pc = "new" =>
            req'[r].answer = "none" /\ \A s \in Asked : outcome'[r][s] # "pending"
    BY <1>1, <1>2, <1>8, <1>9 DEF Jobs
  <2> QED
    BY <2>1, <2>2, <2>3, <2>4 DEF Jobs
<1>13. Threads'
  BY <1>1, <1>2, ThreadsKept DEF Running
<1>14. ASSUME NEW r \in Requests PROVE Sane(req[r], store, seen[r], quiet[r])' /\ Over(r)'
  <2>1. CASE r # worker'
    BY <1>1, <1>2, <1>9, <2>1, OverKept
  <2>2. CASE r = worker'
    <3> DEFINE q == req'[r]
    <3>1. /\ q.pc = "semantic" /\ req[r].pc = "queued"
          /\ q.answer = req[r].answer /\ q.topk = req[r].topk
          /\ q.limit = req[r].limit /\ q.pool = req[r].pool /\ q.lists = req[r].lists
      BY <1>8, <2>2
    <3>2. Sane(req[r], store, seen[r], quiet[r])
      BY <1>1
    <3> HIDE DEF q
    <3>3. Shaped(q)
      BY <3>1, <3>2 DEF Sane, Shaped
    <3>4. Visible(q, store, seen[r])
      BY <3>1, <3>2 DEF Sane, Visible
    <3>5. Healthy(q, store, quiet[r])
      BY <3>1, <3>2 DEF Sane, Healthy
    <3>6. req[r].answer # "ok"
      BY <1>1, <3>1 DEF Over, Answered
    <3>7. Over(r)'
      BY <3>1, <3>6 DEF Over, Answered, q
    <3> QED
      BY <1>2, <3>3, <3>4, <3>5, <3>7 DEF Sane, q
  <2> QED
    BY <2>1, <2>2
<1> QED
  BY <1>11, <1>12, <1>13, <1>14 DEF Inv

-----------------------------------------------------------------------------
(* Requests and calls                                                      *)

LEMMA PoolSizes ==
    ASSUME NEW k \in Nat, NEW p \in Nat
    PROVE  PoolSize(k, p) \in Nat
<1> DEFINE a == k * OverfetchFactor
           b == k + OverfetchSlack
           S == {p, a, b}
<1>1. a \in Nat /\ b \in Nat
  BY SearchAssumption DEF SearchAssumption
<1> HIDE DEF a, b
<1>2. S \subseteq Nat /\ S \subseteq Int
  BY <1>1
<1>3. IsFiniteSet(S) /\ S # {}
  <2>1. IsFiniteSet({p}) /\ IsFiniteSet({p} \cup {a}) /\ IsFiniteSet({p} \cup {a} \cup {b})
    BY FS_EmptySet, FS_AddElement, FS_Singleton
  <2>2. S = {p} \cup {a} \cup {b}
    OBVIOUS
  <2> HIDE DEF S
  <2> QED
    BY <2>1, <2>2
<1>4. PoolSize(k, p) = Max(S)
  BY DEF PoolSize, a, b
<1> HIDE DEF S
<1>5. S \subseteq Int => Max(S) \in S
  BY <1>3, MinMax
<1> QED
  BY <1>2, <1>4, <1>5

LEMMA SubmitKeeps ==
    ASSUME Inv, NEW r \in Requests, Submit(r)
    PROVE  Inv'
<1>1. /\ Types /\ Jobs /\ Threads
      /\ \A p \in Requests : Sane(req[p], store, seen[p], quiet[p]) /\ Over(p)
  BY DEF Inv
<1>2. PICK k \in TopKs, rerank \in Reranks, fed \in Federations :
          /\ req[r].pc = "new"
          /\ LET pool == PoolSize(k, IF rerank THEN RerankPool ELSE k)
             IN req' = [req EXCEPT ![r] = [@ EXCEPT !.pc = "queued", !.topk = k, !.rerank = rerank,
                                                    !.federated = fed, !.limit = pool, !.pool = pool]]
          /\ queue' = Append(queue, r)
          /\ call' = IF fed THEN [call EXCEPT ![r] = [s \in Asked |-> "queued"]] ELSE call
          /\ outcome' = IF fed THEN [outcome EXCEPT ![r] = [s \in Asked |-> "pending"]] ELSE outcome
          /\ seen' = [seen EXCEPT ![r] = store.active] /\ quiet' = [quiet EXCEPT ![r] = TRUE]
          /\ UNCHANGED <<index, cache, worker, faults, polls>>
  BY Zenon DEF Submit
<1>3. /\ queue' = Append(queue, r)
      /\ seen' = [seen EXCEPT ![r] = store.active] /\ quiet' = [quiet EXCEPT ![r] = TRUE]
      /\ UNCHANGED <<store, cache, worker>>
  BY <1>2 DEF index
<1> DEFINE size == IF rerank THEN RerankPool ELSE k
           pool == PoolSize(k, size)
           p == req[r]
           q == [p EXCEPT !.pc = "queued", !.topk = k, !.rerank = rerank,
                          !.federated = fed, !.limit = pool, !.pool = pool]
<1>4. k \in Nat /\ RerankPool \in Nat /\ rerank \in BOOLEAN /\ fed \in BOOLEAN
  BY SearchAssumption DEF SearchAssumption
<1>5. size \in Nat /\ size \in {k, RerankPool}
  BY <1>4
<1> HIDE DEF size
<1>6. pool \in Nat
  BY <1>4, <1>5, PoolSizes
<1>7. pool = PoolSize(k, size)
  OBVIOUS
<1>8. req' = [req EXCEPT ![r] = q]
  BY <1>2 DEF size
<1> HIDE DEF pool
<1>9. p \in Progress /\ p.pc = "new"
  BY <1>1, <1>2 DEF Types
<1>10. q \in Progress
  BY <1>4, <1>6, <1>9 DEF Progress, Steps
<1>11. /\ q.pc = "queued" /\ q.answer = p.answer /\ q.topk = k /\ q.limit = pool
       /\ q.pool = pool /\ q.lists = p.lists
  BY <1>9 DEF Progress
<1> HIDE DEF q
<1>12. /\ req' \in [Requests -> Progress] /\ req'[r] = q
       /\ \A x \in Requests \ {r} : req'[x] = req[x]
  BY <1>1, <1>8, <1>10 DEF Types
<1>13. /\ call' \in [Requests -> [Asked -> {"none", "queued", "running"}]]
       /\ outcome' \in [Requests -> [Asked -> Outcomes]]
       /\ \A x \in Requests \ {r} : call'[x] = call[x] /\ outcome'[x] = outcome[x]
       /\ call'[r] = call[r] \/ \A s \in Asked : call'[r][s] = "queued"
  <2> DEFINE c == [s \in Asked |-> "queued"]
             o == [s \in Asked |-> "pending"]
  <2>1. c \in [Asked -> {"none", "queued", "running"}] /\ \A s \in Asked : c[s] = "queued"
    OBVIOUS
  <2>2. o \in [Asked -> Outcomes]
    BY DEF Outcomes
  <2>3. \/ call' = [call EXCEPT ![r] = c] /\ outcome' = [outcome EXCEPT ![r] = o]
        \/ call' = call /\ outcome' = outcome
    <3>1. /\ call' = IF fed THEN [call EXCEPT ![r] = c] ELSE call
          /\ outcome' = IF fed THEN [outcome EXCEPT ![r] = o] ELSE outcome
      BY <1>2
    <3> HIDE DEF c, o
    <3> QED
      BY <1>4, <3>1
  <2> HIDE DEF c, o
  <2>4. /\ call \in [Requests -> [Asked -> {"none", "queued", "running"}]]
        /\ outcome \in [Requests -> [Asked -> Outcomes]]
    BY <1>1 DEF Types
  <2>5. CASE call' = [call EXCEPT ![r] = c] /\ outcome' = [outcome EXCEPT ![r] = o]
    BY <2>1, <2>2, <2>4, <2>5
  <2>6. CASE call' = call /\ outcome' = outcome
    BY <2>4, <2>6
  <2> QED
    BY <2>3, <2>5, <2>6
<1>14. /\ seen' \in [Requests -> SUBSET Chunks] /\ seen'[r] = store.active
       /\ quiet' \in [Requests -> BOOLEAN]
       /\ \A x \in Requests \ {r} : seen'[x] = seen[x] /\ quiet'[x] = quiet[x]
  <2>1. store.active \in SUBSET Chunks
    BY <1>1 DEF Types, Stores
  <2> QED
    BY <1>1, <1>3, <2>1 DEF Types
<1>15. /\ queue' \in Seq(Requests \cup {"poll"}) /\ Len(queue) \in Nat
       /\ DOMAIN queue = 1 .. Len(queue) /\ DOMAIN queue' = 1 .. Len(queue) + 1
       /\ \A i \in DOMAIN queue : queue'[i] = queue[i]
       /\ queue'[Len(queue) + 1] = r
  <2>1. queue \in Seq(Requests \cup {"poll"})
    BY <1>1 DEF Types
  <2> QED
    BY <1>3, <2>1
<1>16. Types'
  BY <1>1, <1>3, <1>12, <1>13, <1>14, <1>15 DEF Types
<1>17. Jobs'
  <2>1. worker' = worker /\ worker # r
    BY <1>1, <1>3, <1>9 DEF Jobs
  <2>2. \A x \in Requests :
            req'[x].pc \notin {"new", "queued", "done", "failed"} <=> worker' = x
    BY <1>1, <1>11, <1>12, <2>1 DEF Jobs
  <2>3. \A i \in DOMAIN queue' : i \in DOMAIN queue \/ i = Len(queue) + 1
    BY <1>15
  <2>4. \A i \in DOMAIN queue : queue[i] # r
    <3>1. r # "poll"
      BY SearchAssumption DEF SearchAssumption
    <3> QED
      BY <1>1, <1>9, <3>1 DEF Jobs
  <2>5. \A i \in DOMAIN queue' : queue'[i] # "poll" =>
            queue'[i] \in Requests /\ req'[queue'[i]].pc = "queued"
    <3>1. \A i \in DOMAIN queue : queue[i] # "poll" =>
              queue[i] \in Requests \ {r} /\ req[queue[i]].pc = "queued"
      BY <1>1, <2>4 DEF Jobs
    <3> QED
      BY <1>11, <1>12, <1>15, <2>3, <3>1
  <2>6. \A i, j \in DOMAIN queue' : queue'[i] = queue'[j] /\ queue'[i] # "poll" => i = j
    BY <1>1, <1>15, <2>3, <2>4 DEF Jobs
  <2>7. \A x \in Requests : req'[x].pc = "new" =>
            req'[x].answer = "none" /\ \A s \in Asked : outcome'[x][s] # "pending"
    <3>1. \A x \in Requests : req'[x].pc = "new" => x \in Requests \ {r}
      BY <1>11, <1>12
    <3> QED
      BY <1>1, <1>12, <1>13, <3>1 DEF Jobs
  <2> QED
    BY <2>2, <2>5, <2>6, <2>7 DEF Jobs
<1>18. Threads'
  <2>1. ASSUME NEW x \in Requests \X Asked, call'[x[1]][x[2]] = "running"
        PROVE  call[x[1]][x[2]] = "running"
    BY <1>13, <2>1
  <2>2. Running' \subseteq Running
    BY <2>1 DEF Running
  <2> QED
    BY <1>1, <2>2, ThreadsKept
<1>19. ASSUME NEW x \in Requests PROVE Sane(req[x], store, seen[x], quiet[x])' /\ Over(x)'
  <2>1. CASE x # r
    BY <1>1, <1>3, <1>12, <1>13, <1>14, <2>1, OverKept
  <2>2. CASE x = r
    <3>1. Sane(p, store, seen[r], quiet[r]) /\ p.answer = "none"
      BY <1>1, <1>9 DEF Jobs
    <3>2. Shaped(q)
      <4>1. Len(p.lists) = 0
        BY <1>9, <3>1 DEF Sane, Shaped
      <4>2. pool <= pool
        BY <1>6
      <4> QED
        BY <1>5, <1>7, <1>11, <4>1, <4>2 DEF Shaped
    <3>3. Visible(q, store, store.active)
      BY <1>11 DEF Visible
    <3>4. Healthy(q, store, quiet'[r])
      <4>1. p.lists \in Seq(Seq(Chunks)) /\ Len(p.lists) = 0
        BY <1>9, <3>1 DEF Sane, Shaped, Progress
      <4>2. DOMAIN p.lists = {}
        BY <4>1
      <4> QED
        BY <1>11, <3>1, <4>2 DEF Healthy
    <3>5. Over(r)'
      BY <1>11, <1>12, <3>1 DEF Over, Answered
    <3> QED
      BY <1>3, <1>12, <1>14, <2>2, <3>2, <3>3, <3>4, <3>5 DEF Sane
  <2> QED
    BY <2>1, <2>2
<1> QED
  BY <1>16, <1>17, <1>18, <1>19 DEF Inv

\* An outcome that was pending is no longer, or nothing is new.
Settled(r, s) ==
    /\ outcome' \in [Requests -> [Asked -> Outcomes]]
    /\ \A p \in Requests \ {r} : outcome'[p] = outcome[p]
    /\ \/ outcome'[r] = outcome[r]
       \/ /\ outcome[r][s] = "pending"
          /\ \A t \in Asked : outcome'[r][t] = "pending" => outcome[r][t] = "pending"

\* Steps of a call: they may fail the request, if it waits for the call.
LEMMA CallKeeps ==
    ASSUME Inv, NEW r \in Requests, NEW s \in Asked,
           UNCHANGED <<store, cache, queue, worker, seen>>,
           Sound \/ Faulty,
           call' \in [Requests -> [Asked -> {"none", "queued", "running"}]],
           Settled(r, s),
           \/ req' = req
           \/ /\ Faulty /\ outcome[r][s] = "pending"
              /\ req' = [req EXCEPT ![r].answer = IF @ = "none" THEN "failed" ELSE @],
           Threads'
    PROVE  Inv'
<1>1. /\ Types /\ Jobs /\ Threads
      /\ \A p \in Requests : Sane(req[p], store, seen[p], quiet[p]) /\ Over(p)
  BY DEF Inv
<1>2. /\ quiet' \in [Requests -> BOOLEAN]
      /\ \A p \in Requests : quiet'[p] => quiet[p]
      /\ Faulty => \A p \in Requests : ~quiet'[p]
  BY <1>1, QuietOnly
<1>3. /\ outcome' \in [Requests -> [Asked -> Outcomes]]
      /\ \A p \in Requests \ {r} : outcome'[p] = outcome[p]
      /\ \A t \in Asked : outcome'[r][t] = "pending" => outcome[r][t] = "pending"
      /\ outcome[r][s] # "pending" => outcome'[r] = outcome[r]
  BY DEF Settled
<1> DEFINE q == req'[r]
<1>4. /\ req' \in [Requests -> Progress]
      /\ \A p \in Requests \ {r} : req'[p] = req[p]
      /\ q = req[r] \/ (Faulty /\ outcome[r][s] = "pending")
      /\ q.pc = req[r].pc /\ q.topk = req[r].topk /\ q.limit = req[r].limit
      /\ q.pool = req[r].pool /\ q.lists = req[r].lists /\ q.score = req[r].score
      /\ q.local = req[r].local /\ q.known = req[r].known
      /\ q.answer = "ok" => req[r].answer = "ok"
  <2>1. req \in [Requests -> Progress] /\ req[r] \in Progress
    BY <1>1 DEF Types
  <2>2. CASE req' = req
    <3>1. q = req[r]
      BY <2>2
    <3>2. req' \in [Requests -> Progress] /\ \A p \in Requests \ {r} : req'[p] = req[p]
      BY <2>1, <2>2
    <3> HIDE DEF q
    <3> QED
      BY <3>1, <3>2
  <2>3. CASE /\ Faulty /\ outcome[r][s] = "pending"
             /\ req' = [req EXCEPT ![r].answer = IF @ = "none" THEN "failed" ELSE @]
    <3> DEFINE answer == IF req[r].answer = "none" THEN "failed" ELSE req[r].answer
               one == [req[r] EXCEPT !.answer = answer]
    <3>1. req' = [req EXCEPT ![r] = one]
      BY <2>3
    <3>2. answer \in {"none", "ok", "failed"} /\ (answer = "ok" => req[r].answer = "ok")
      BY <2>1 DEF Progress
    <3> HIDE DEF answer
    <3>3. one \in Progress
      BY <2>1, <3>2 DEF Progress
    <3>4. /\ one.pc = req[r].pc /\ one.topk = req[r].topk /\ one.limit = req[r].limit
          /\ one.pool = req[r].pool /\ one.lists = req[r].lists /\ one.score = req[r].score
          /\ one.local = req[r].local /\ one.known = req[r].known /\ one.answer = answer
      BY <2>1 DEF Progress
    <3> HIDE DEF one
    <3>5. /\ req' \in [Requests -> Progress] /\ q = one
          /\ \A p \in Requests \ {r} : req'[p] = req[p]
      BY <2>1, <3>1, <3>3
    <3> HIDE DEF q
    <3> QED
      BY <2>3, <3>2, <3>4, <3>5
  <2> QED
    BY <2>2, <2>3
<1>5. \A p \in Requests : req'[p].pc = req[p].pc
  BY <1>4
<1>6. Types'
  BY <1>1, <1>2, <1>3, <1>4 DEF Types
<1>7. outcome[r][s] = "pending" => req[r].pc # "new" /\ req[r].answer # "ok"
  BY <1>1 DEF Jobs, Over, Answered
<1>8. Jobs'
  <2>1. \A p \in Requests : req'[p].pc = "new" =>
            req'[p].answer = "none" /\ \A t \in Asked : outcome'[p][t] # "pending"
    BY <1>1, <1>3, <1>4, <1>7 DEF Jobs
  <2>2. \A i \in DOMAIN queue' : queue'[i] # "poll" =>
            queue'[i] \in Requests /\ req'[queue'[i]].pc = "queued"
    BY <1>1, <1>5 DEF Jobs
  <2> QED
    BY <1>1, <1>5, <2>1, <2>2 DEF Jobs
<1>9. ASSUME NEW p \in Requests PROVE Sane(req[p], store, seen[p], quiet[p])' /\ Over(p)'
  <2>1. CASE p # r
    <3>1. Sane(req[p], store, seen[p], quiet'[p])
      BY <1>1, <1>2, SaneWeaker
    <3>2. Over(p)'
      BY <1>1, <1>3, <1>4, <2>1, OverKept
    <3> QED
      BY <1>4, <2>1, <3>1, <3>2
  <2>2. CASE p = r
    <3>1. Sane(req[r], store, seen[r], quiet'[r])
      BY <1>1, <1>2, SaneWeaker
    <3>2. Shaped(q) /\ Visible(q, store, seen[r])
      BY <1>4, <3>1 DEF Sane, Shaped, Visible
    <3>3. Healthy(q, store, quiet'[r])
      BY <1>2, <1>4, <3>1 DEF Sane, Healthy
    <3>4. Over(r)'
      <4>1. CASE outcome[r][s] = "pending"
        BY <1>4, <1>7, <4>1 DEF Over, Answered
      <4>2. CASE outcome[r][s] # "pending"
        BY <1>1, <1>3, <1>4, <4>2, OverKept
      <4> QED
        BY <4>1, <4>2
    <3> QED
      BY <2>2, <3>2, <3>3, <3>4 DEF Sane
  <2> QED
    BY <2>1, <2>2
<1> QED
  BY <1>6, <1>8, <1>9 DEF Inv

LEMMA CallStartKeeps ==
    ASSUME Inv, NEW r \in Requests, NEW s \in Asked, CallStart(r, s)
    PROVE  Inv'
<1>1. /\ call[r][s] = "queued" /\ Cardinality(Running) < PoolThreads
      /\ call' = [call EXCEPT ![r][s] = "running"]
      /\ UNCHANGED <<store, cache, queue, worker, seen, req, outcome>> /\ Sound
  BY DEF CallStart, index, serving, Sound
<1>2. call \in [Requests -> [Asked -> {"none", "queued", "running"}]]
  BY DEF Inv, Types
<1>3. outcome \in [Requests -> [Asked -> Outcomes]]
  BY DEF Inv, Types
<1>4. Running' \subseteq Running \cup {<<r, s>>}
  BY <1>1, <1>2 DEF Running
<1>5. Threads'
  <2> DEFINE more == Running \cup {<<r, s>>}
  <2>1. IsFiniteSet(Running)
    BY DEF Inv, Threads
  <2>2. /\ IsFiniteSet(more)
        /\ Cardinality(more) = Cardinality(Running) \/ Cardinality(more) = Cardinality(Running) + 1
    BY <2>1, FS_AddElement
  <2> HIDE DEF more
  <2>3. Running' \in SUBSET more
    BY <1>4 DEF more
  <2>4. IsFiniteSet(Running') /\ Cardinality(Running') <= Cardinality(more)
    BY <2>2, <2>3, FS_Subset
  <2>5. /\ Cardinality(Running) \in Int /\ Cardinality(Running') \in Int
        /\ Cardinality(more) \in Int /\ PoolThreads \in Int
    BY <2>1, <2>2, <2>4, FS_CardinalityType, SearchAssumption DEF SearchAssumption
  <2> QED
    BY <1>1, <2>2, <2>4, <2>5 DEF Threads
<1>6. call' \in [Requests -> [Asked -> {"none", "queued", "running"}]]
  BY <1>1, <1>2
<1>7. Settled(r, s)
  BY <1>1, <1>3 DEF Settled
<1> QED
  BY <1>1, <1>5, <1>6, <1>7, CallKeeps

LEMMA CallEndKeeps ==
    ASSUME Inv, NEW r \in Requests, NEW s \in Asked, CallEnd(r, s)
    PROVE  Inv'
<1>1. /\ call' = [call EXCEPT ![r][s] = "none"]
      /\ UNCHANGED <<store, cache, queue, worker, seen>> /\ (Sound \/ Faulty)
      /\ \/ req' = req
         \/ /\ Faulty /\ outcome[r][s] = "pending"
            /\ req' = [req EXCEPT ![r].answer = IF @ = "none" THEN "failed" ELSE @]
  BY DEF CallEnd, index, serving
<1>2. /\ call \in [Requests -> [Asked -> {"none", "queued", "running"}]]
      /\ outcome \in [Requests -> [Asked -> Outcomes]]
  BY DEF Inv, Types
<1>3. Settled(r, s)
  <2>1. \/ outcome' = outcome
        \/ outcome[r][s] = "pending" /\ outcome' = [outcome EXCEPT ![r][s] = "ok"]
        \/ outcome[r][s] = "pending" /\ outcome' = [outcome EXCEPT ![r][s] = "error"]
        \/ outcome[r][s] = "pending" /\ outcome' = [outcome EXCEPT ![r][s] = "raised"]
    BY DEF CallEnd
  <2>2. CASE outcome' = outcome
    BY <1>2, <2>2 DEF Settled
  <2>3. CASE outcome[r][s] = "pending" /\ outcome' = [outcome EXCEPT ![r][s] = "ok"]
    BY <1>2, <2>3 DEF Settled, Outcomes
  <2>4. CASE outcome[r][s] = "pending" /\ outcome' = [outcome EXCEPT ![r][s] = "error"]
    BY <1>2, <2>4 DEF Settled, Outcomes
  <2>5. CASE outcome[r][s] = "pending" /\ outcome' = [outcome EXCEPT ![r][s] = "raised"]
    BY <1>2, <2>5 DEF Settled, Outcomes
  <2> QED
    BY <2>1, <2>2, <2>3, <2>4, <2>5
<1>4. Running' \subseteq Running /\ call' \in [Requests -> [Asked -> {"none", "queued", "running"}]]
  BY <1>1, <1>2 DEF Running
<1>5. Threads'
  BY <1>4, ThreadsKept DEF Inv
<1> QED
  BY <1>1, <1>3, <1>4, <1>5, CallKeeps

LEMMA TimeoutKeeps ==
    ASSUME Inv, NEW r \in Requests, NEW s \in Asked, Timeout(r, s)
    PROVE  Inv'
<1>1. /\ outcome[r][s] = "pending" /\ outcome' = [outcome EXCEPT ![r][s] = "skipped"]
      /\ call' = [call EXCEPT ![r][s] = IF @ = "queued" THEN "none" ELSE @]
      /\ UNCHANGED <<store, cache, queue, worker, seen, req>> /\ Sound
  BY DEF Timeout, index, serving, Sound
<1>2. call \in [Requests -> [Asked -> {"none", "queued", "running"}]]
  BY DEF Inv, Types
<1>3. PICK c \in {"none", "queued", "running"} :
          /\ call' = [call EXCEPT ![r][s] = c]
          /\ c = "running" => call[r][s] = "running"
  <2> DEFINE c == IF call[r][s] = "queued" THEN "none" ELSE call[r][s]
  <2>1. c \in {"none", "queued", "running"} /\ (c = "running" => call[r][s] = "running")
    BY <1>2
  <2>2. call' = [call EXCEPT ![r][s] = c]
    BY <1>1
  <2> HIDE DEF c
  <2> QED
    BY <2>1, <2>2
<1>4. Running' \subseteq Running /\ call' \in [Requests -> [Asked -> {"none", "queued", "running"}]]
  BY <1>2, <1>3 DEF Running
<1>5. Threads'
  BY <1>4, ThreadsKept DEF Inv
<1>6. Settled(r, s)
  <2>1. outcome \in [Requests -> [Asked -> Outcomes]]
    BY DEF Inv, Types
  <2> QED
    BY <1>1, <2>1 DEF Settled, Outcomes
<1> QED
  BY <1>1, <1>4, <1>5, <1>6, CallKeeps

-----------------------------------------------------------------------------
(* The answer                                                              *)

\* What the sources found, in their turn: their hits, and no local candidate.
LEMMA CandidatesLists ==
    ASSUME NEW r \in Requests, req[r].topk \in Nat
    PROVE  /\ Candidates(r) \in Seq(Found)
           /\ \A i \in 1 .. Len(Candidates(r)) : Candidates(r)[i][1] # "local"
<1> DEFINE P == Places(r)
           R == InTurn(P)
           m == Len(Sources)
           k == req[r].topk
           L == Ordered(P, R)
<1>1. Sources \in Seq(Asked)
  BY SearchAssumption DEF SearchAssumption, Asked
<1>2. m \in Nat /\ \A i \in 1 .. m : Sources[i] \in Asked
  BY <1>1
<1>3. \A p \in P : /\ p = <<p[1], p[2]>> /\ p[1] \in 1 .. m /\ p[2] \in Nat \ {0}
                   /\ p[1] \in Int /\ p[2] \in Int
                   /\ p[2] <= Len(Hits[Sources[p[1]]])
  <2> HIDE DEF m
  <2> QED
    BY <1>2 DEF Places, m
<1>4. IsFiniteSet(P)
  <2> DEFINE A == 1 .. m
             B == 1 .. k
             one == 1
  <2>1. P \in SUBSET (A \X B)
    BY DEF Places
  <2>2. one \in Int /\ m \in Int /\ k \in Int
    BY <1>2
  <2>3. A = one .. m /\ B = one .. k
    OBVIOUS
  <2> HIDE DEF A, B, P, one, m, k
  <2>4. IsFiniteSet(A) /\ IsFiniteSet(B)
    BY <2>2, <2>3, FS_Interval
  <2>5. IsFiniteSet(A \X B)
    BY <2>4, FS_Product
  <2> QED
    BY <2>1, <2>5, FS_Subset
<1> HIDE DEF P
<1>5. Orders(R, P)
  <2>1. \A c, d \in P : <<c, d>> \in R <=> c[1] < d[1] \/ (c[1] = d[1] /\ c[2] < d[2])
    BY DEF InTurn
  <2>2. \A c, d \in P : c # d => c[1] # d[1] \/ c[2] # d[2]
    BY <1>3
  <2> HIDE DEF R
  <2> QED
    BY <1>3, <2>1, <2>2 DEF Orders
<1> HIDE DEF R
<1>6. /\ L \in Seq(P) /\ Len(L) = Cardinality(P)
  BY <1>4, <1>5, OrderedLists
<1> HIDE DEF L
<1>7. Candidates(r) = [n \in DOMAIN L |-> Hits[Sources[L[n][1]]][L[n][2]]]
  BY DEF Candidates, L, P, R
<1>8. ASSUME NEW n \in DOMAIN L
      PROVE  Candidates(r)[n] \in Found /\ Candidates(r)[n][1] # "local"
  <2> DEFINE p == L[n]
             s == Sources[p[1]]
             hit == Hits[s][p[2]]
  <2>1. p \in P
    BY <1>6
  <2>2. s \in Asked /\ p[2] \in 1 .. Len(Hits[s])
    BY <1>2, <1>3, <2>1
  <2>3. Hits[s] \in Seq(ToSet(Hits[s])) /\ \A h \in ToSet(Hits[s]) : h[1] # "local"
    BY <2>2, SearchAssumption DEF SearchAssumption, Asked
  <2>4. Candidates(r)[n] = hit
    BY <1>7
  <2> HIDE DEF p, s
  <2>5. hit \in ToSet(Hits[s])
    BY <2>2, <2>3 DEF ToSet
  <2> QED
    BY <2>2, <2>3, <2>4, <2>5 DEF Found
<1>9. Len(L) \in Nat /\ DOMAIN L = 1 .. Len(L) /\ Candidates(r) \in [1 .. Len(L) -> Found]
  BY <1>6, <1>7, <1>8
<1>10. Candidates(r) \in Seq(Found) /\ Len(Candidates(r)) = Len(L)
  <2> DEFINE found == Candidates(r)
             n == Len(L)
  <2>1. n \in Nat /\ found \in [1 .. n -> Found]
    BY <1>9
  <2> HIDE DEF found, n
  <2>2. found \in Seq(Found) /\ Len(found) = n
    BY <2>1
  <2> QED
    BY <2>2 DEF found, n
<1> QED
  BY <1>8, <1>9, <1>10

LEMMA MergeLists ==
    ASSUME NEW T, NEW local \in Seq(T), NEW federated \in Seq(T), NEW low,
           NEW k \in Int, NEW quota \in Nat
    PROVE  Merge(local, federated, low, k, quota) \in Seq(T)
<1> DEFINE shown == ToSet(federated) \ low
           worth == Kept(federated, shown)
           n == Len(worth)
           slots == Min({quota, n})
           m == k - slots
<1> HIDE DEF shown
<1>1. worth \in Seq(T) /\ n \in Int
  <2>1. worth \in Seq(T)
    BY KeptLists
  <2> HIDE DEF worth
  <2> QED
    BY <2>1
<1> HIDE DEF worth, n
<1>2. slots \in Int
  <2>1. slots = IF quota <= n THEN quota ELSE n
    BY <1>1, MinMaxOfTwo
  <2> QED
    BY <1>1, <2>1
<1> HIDE DEF slots
<1>3. m \in Int
  BY <1>2
<1> HIDE DEF m
<1>4. Slice(local, m) \in Seq(T) /\ Slice(worth, slots) \in Seq(T)
  BY <1>1, <1>2, <1>3, SliceLists
<1>5. Merge(local, federated, low, k, quota) = Slice(local, m) \o Slice(worth, slots)
  BY DEF Merge, m, slots, n, worth, shown
<1> HIDE DEF Merge
<1> QED
  BY <1>4, <1>5, ConcatProperties

\* Without places for them, the merge with anything is the local candidates.
LEMMA LocalAlone ==
    ASSUME NEW T, NEW local \in Seq(T), NEW federated \in Seq(T), NEW low, NEW k \in Nat
    PROVE  /\ Slice(local, k) = Merge(local, federated, low, k, 0)
           /\ Min({0, Len(Kept(federated, ToSet(federated) \ low))}) = 0
<1> DEFINE z == 0
           shown == ToSet(federated) \ low
           worth == Kept(federated, shown)
           n == Len(worth)
           slots == Min({z, n})
<1>0. z \in Int /\ z = 0
  OBVIOUS
<1> HIDE DEF shown, z
<1>1. worth \in Seq(T) /\ n \in Int /\ n >= 0
  <2>1. worth \in Seq(T)
    BY KeptLists
  <2> HIDE DEF worth
  <2> QED
    BY <2>1
<1> HIDE DEF worth, n
<1>2. slots = z
  <2>1. slots = IF z <= n THEN z ELSE n
    BY <1>0, <1>1, MinMaxOfTwo
  <2> QED
    BY <1>0, <1>1, <2>1
<1>3. Slice(local, k) \in Seq(T)
  BY SliceLists
<1>4. Slice(worth, z) \in Seq(T) /\ Len(Slice(worth, z)) = 0
  <2>1. /\ Slice(worth, z) \in Seq(T)
        /\ z >= 0 => Len(Slice(worth, z)) = IF z <= Len(worth) THEN z ELSE Len(worth)
    BY <1>0, <1>1, SliceLists
  <2> QED
    BY <1>0, <1>1, <2>1 DEF n
<1>5. Slice(worth, z) = <<>>
  <2> DEFINE s == Slice(worth, z)
  <2>1. s \in Seq(T) /\ Len(s) = 0
    BY <1>4
  <2> HIDE DEF s
  <2>2. s = <<>>
    BY <2>1, EmptySeq
  <2> QED
    BY <2>2 DEF s
<1>6. Merge(local, federated, low, k, z) = Slice(local, k - slots) \o Slice(worth, slots)
  BY DEF Merge, slots, n, worth, shown
<1>7. k - z = k
  BY <1>0
<1>8. Merge(local, federated, low, k, z) = Slice(local, k) \o <<>>
  BY <1>2, <1>5, <1>6, <1>7
<1>9. Slice(local, k) \o <<>> = Slice(local, k)
  <2> DEFINE s == Slice(local, k)
  <2>1. s \in Seq(T)
    BY <1>3
  <2> HIDE DEF s
  <2>2. s \o <<>> = s
    BY <2>1, ConcatEmptySeq
  <2> QED
    BY <2>2 DEF s
<1> QED
  BY <1>0, <1>2, <1>8, <1>9 DEF slots, n, worth, shown

LEMMA RespondKeeps ==
    ASSUME Inv, NEW r \in Requests, Respond(r)
    PROVE  Inv'
<1> DEFINE p == req[r]
           local == LocalCandidates(r)
           found == Candidates(r)
           k == p.topk
           merged == Merge(local, found, LowSignal, k, Quota)
           alone == Slice(local, k)
           result == IF p.federated THEN merged ELSE alone
           q == [p EXCEPT !.answer = "ok", !.result = result]
<1>1. /\ Types /\ Jobs /\ Threads
      /\ \A x \in Requests : Sane(req[x], store, seen[x], quiet[x]) /\ Over(x)
  BY DEF Inv
<1>2. /\ p.pc = "done" /\ p.answer = "none"
      /\ \A s \in Asked : outcome[r][s] # "pending"
      /\ req' = [req EXCEPT ![r] = q]
      /\ UNCHANGED <<store, cache, queue, worker, call, outcome, seen, quiet>>
  BY DEF Respond, index, serving, loop
<1>3. p \in Progress
  BY <1>1 DEF Types
<1>4. /\ p.local \in Seq(Chunks) /\ k \in Nat /\ k \in TopKs /\ p.federated \in BOOLEAN
  BY <1>1, <1>2, <1>3 DEF Progress, Sane, Shaped
<1>5. /\ local \in Seq(Found) /\ Len(local) = Len(p.local)
      /\ \A i \in 1 .. Len(local) : local[i][1] = "local"
  BY <1>4 DEF LocalCandidates, Found
<1>6. /\ found \in Seq(Found)
      /\ \A i \in 1 .. Len(found) : found[i][1] # "local"
  BY <1>4, CandidatesLists
<1>7. Quota \in Nat
  BY SearchAssumption DEF SearchAssumption
<1> HIDE DEF local, found, k
<1>8. merged \in Seq(Found) /\ alone \in Seq(Found)
  BY <1>4, <1>5, <1>6, <1>7, MergeLists, SliceLists
<1>9. result \in Seq(Found)
  BY <1>8
<1> DEFINE worth == Kept(found, ToSet(found) \ LowSignal)
           slots == IF p.federated THEN Min({Quota, Len(worth)}) ELSE 0
           hits == {c \in ToSet(result) : c[1] # "local"}
<1>10. ASSUME QuotaFits
       PROVE  /\ Len(result) = Min({k, Len(local) + slots})
              /\ Kept(result, hits) = Slice(worth, slots)
  <2> DEFINE quota == IF p.federated THEN Quota ELSE 0
             plain == Merge(local, found, LowSignal, k, 0)
             none == Min({0, Len(worth)})
             places == Min({quota, Len(worth)})
  <2>1. quota \in Nat /\ quota <= k
    BY <1>4, <1>7, <1>10 DEF QuotaFits
  <2>2. alone = plain /\ none = 0
    BY <1>4, <1>5, <1>6, LocalAlone
  <2>3. /\ result = Merge(local, found, LowSignal, k, quota)
        /\ places = slots
    <3> HIDE DEF worth
    <3> QED
      BY <1>4, <2>2
  <2> HIDE DEF quota
  <2>4. Fills(result, local, found, LowSignal, k, quota)
    BY <1>4, <1>5, <1>6, <2>1, <2>3, MergeShows
  <2> HIDE DEF result, slots
  <2> QED
    BY <2>3, <2>4 DEF Fills
<1> HIDE DEF result
<1>11. q \in Progress
  BY <1>3, <1>9 DEF Progress
<1>12. /\ q.pc = "done" /\ q.answer = "ok" /\ q.topk = p.topk /\ q.limit = p.limit
       /\ q.pool = p.pool /\ q.lists = p.lists /\ q.score = p.score /\ q.local = p.local
       /\ q.federated = p.federated /\ q.result = result
  BY <1>2, <1>3 DEF Progress
<1> HIDE DEF q
<1>13. /\ req' \in [Requests -> Progress] /\ req'[r] = q
       /\ \A x \in Requests \ {r} : req'[x] = req[x]
       /\ \A x \in Requests : req'[x].pc = req[x].pc
  BY <1>1, <1>2, <1>11, <1>12 DEF Types
<1>14. Types'
  BY <1>1, <1>2, <1>13 DEF Types
<1>15. Jobs'
  <2>1. \A x \in Requests : req'[x].pc = "new" =>
            req'[x].answer = "none" /\ \A s \in Asked : outcome'[x][s] # "pending"
    BY <1>1, <1>2, <1>12, <1>13 DEF Jobs
  <2>2. \A i \in DOMAIN queue' : queue'[i] # "poll" =>
            queue'[i] \in Requests /\ req'[queue'[i]].pc = "queued"
    BY <1>1, <1>2, <1>13 DEF Jobs
  <2> QED
    BY <1>1, <1>2, <1>13, <2>1, <2>2 DEF Jobs
<1>16. Threads'
  BY <1>1, <1>2, ThreadsKept DEF Running
<1>17. Over(r)'
  <2>1. Candidates(r)' = found
    BY <1>2, <1>12, <1>13 DEF Candidates, Places, found
  <2>2. QuotaFits => Shown(r)'
    BY <1>5, <1>10, <1>12, <1>13, <2>1 DEF Shown, k
  <2> QED
    BY <1>2, <1>12, <1>13, <2>2 DEF Over, QuotaFits
<1>18. ASSUME NEW x \in Requests PROVE Sane(req[x], store, seen[x], quiet[x])' /\ Over(x)'
  <2>1. CASE x # r
    BY <1>1, <1>2, <1>13, <2>1, OverKept
  <2>2. CASE x = r
    <3>1. Sane(p, store, seen[r], quiet[r])
      BY <1>1
    <3>2. Shaped(q)
      BY <1>2, <1>12, <3>1 DEF Sane, Shaped
    <3>3. Visible(q, store, seen[r])
      BY <1>2, <1>12, <3>1 DEF Sane, Visible
    <3>4. Healthy(q, store, quiet[r])
      BY <1>2, <1>12, <3>1 DEF Sane, Healthy
    <3> QED
      BY <1>2, <1>13, <1>17, <2>2, <3>2, <3>3, <3>4 DEF Sane
  <2> QED
    BY <2>1, <2>2
<1> QED
  BY <1>14, <1>15, <1>16, <1>18 DEF Inv

-----------------------------------------------------------------------------
(* The theorems                                                            *)

LEMMA InitInv ==
    ASSUME Init
    PROVE  Inv
<1> DEFINE none == <<>>
<1>1. store \in Stores
  BY SearchAssumption DEF Init, SearchAssumption, Stores
<1>2. none \in Scorings /\ none \in Seq(Seq(Chunks)) /\ none \in Seq(Chunks) /\ none \in Seq(Found)
      /\ none \in Seq(Requests \cup {"poll"}) /\ Len(none) = 0 /\ DOMAIN none = {}
  BY DEF Scorings
<1>3. /\ Idle = [pc |-> "new", answer |-> "none", topk |-> 0, rerank |-> FALSE, federated |-> FALSE,
                 limit |-> 0, pool |-> 0, previous |-> -1, lists |-> none, score |-> none, known |-> {},
                 scored |-> {}, local |-> none, result |-> none]
      /\ queue = none
  BY DEF Idle, Init
<1> HIDE DEF none
<1>4. Idle \in Progress
  <2>1. -1 \in Int /\ 0 \in Nat
    OBVIOUS
  <2> QED
    BY <1>2, <1>3, <2>1 DEF Progress, Steps
<1>5. /\ Idle.pc = "new" /\ Idle.answer = "none" /\ Idle.limit = 0 /\ Idle.pool = 0
      /\ Idle.lists = none
  BY <1>3
<1>6. \A r \in Requests : /\ req[r] = Idle /\ call[r] = [s \in Asked |-> "none"]
                          /\ outcome[r] = [s \in Asked |-> "none"]
  BY DEF Init
<1>7. Types
  BY <1>1, <1>2, <1>3, <1>4 DEF Types, Init, Outcomes, CacheType
<1>8. Jobs
  <2>1. worker \notin Requests
    BY SearchAssumption DEF SearchAssumption, Init
  <2> QED
    BY <1>2, <1>3, <1>5, <1>6, <2>1 DEF Jobs
<1>9. Threads
  <2>1. Running = {}
    BY <1>6 DEF Running
  <2>2. IsFiniteSet({}) /\ Cardinality({}) = 0
    BY FS_EmptySet
  <2>3. 0 <= PoolThreads
    BY SearchAssumption DEF SearchAssumption
  <2> QED
    BY <2>1, <2>2, <2>3 DEF Threads
<1>10. ASSUME NEW r \in Requests PROVE Sane(req[r], store, seen[r], quiet[r]) /\ Over(r)
  <2> DEFINE p == req[r]
  <2>1. p = Idle
    BY <1>6
  <2> HIDE DEF p
  <2>2. Shaped(p) /\ Visible(p, store, seen[r]) /\ Healthy(p, store, quiet[r])
    BY <1>2, <1>5, <2>1 DEF Shaped, Visible, Healthy
  <2>3. Over(r)
    BY <1>5, <2>1 DEF Over, Answered, p
  <2> QED
    BY <2>2, <2>3 DEF Sane, p
<1> QED
  BY <1>7, <1>8, <1>9, <1>10 DEF Inv

LEMMA NextKeeps ==
    ASSUME Inv, [Next]_vars
    PROVE  Inv'
<1>1. CASE Sync
  BY <1>1, SyncKeeps
<1>2. CASE Poll
  BY <1>2, PollKeeps
<1>3. CASE Take
  BY <1>3, TakeKeeps
<1>4. CASE PollEnd
  BY <1>4, PollEndKeeps
<1>5. CASE \E r \in Requests : Submit(r) \/ LocalStep(r) \/ Respond(r)
  BY <1>5, SubmitKeeps, LocalKeeps, RespondKeeps
<1>6. CASE \E r \in Requests, s \in Asked : CallStart(r, s) \/ CallEnd(r, s) \/ Timeout(r, s)
  BY <1>6, CallStartKeeps, CallEndKeeps, TimeoutKeeps
<1>7. CASE UNCHANGED vars
  <2>1. UNCHANGED <<store, cache, queue, worker, req, call, outcome, seen, quiet>>
    BY <1>7 DEF vars
  <2>2. Types' /\ Jobs'
    BY <2>1 DEF Inv, Types, Jobs
  <2> QED
    BY <2>1, <2>2, Unmoved DEF Inv
<1> QED
  BY <1>1, <1>2, <1>3, <1>4, <1>5, <1>6, <1>7 DEF Next

\* The invariant of the searches holds in every reachable state.
THEOREM Inductive == Spec => []Inv
<1>1. Init => Inv
  BY InitInv
<1>2. Inv /\ [Next]_vars => Inv'
  BY NextKeeps
<1> QED
  BY <1>1, <1>2, PTL DEF Spec

\* The requests, the worker's jobs and the threads of the calls stay in their
\* ranges, whatever the engines and the sources find.
THEOREM TypeCorrect == Spec => []TypeOK
<1>1. Inv => TypeOK
  <2> SUFFICES ASSUME Inv PROVE TypeOK
    OBVIOUS
  <2>1. Types /\ Jobs /\ Threads
    BY DEF Inv
  <2>2. ToSet(queue) \subseteq {r \in Requests : req[r].pc = "queued"} \cup {"poll"}
    BY <2>1 DEF Jobs, ToSet
  <2>3. \A r \in Requests : req[r].pc \in Steps /\ req[r].answer \in {"none", "ok", "failed"}
    BY <2>1 DEF Types, Progress
  <2> QED
    BY <2>1, <2>2, <2>3 DEF TypeOK, Types, Jobs, Threads, Stores, CacheType
<1> QED
  BY <1>1, Inductive, PTL

\* An inactive document is never shown: each local result of an answer was
\* active at some time of its search, however the index changed meanwhile
\* (search_async, _filter_active_pool).
THEOREM ResultsVisible == Spec => []VisibleResults
<1>1. Inv => VisibleResults
  <2> SUFFICES ASSUME Inv, NEW r \in Requests, Answered(r)
               PROVE  ToSet(req[r].local) \subseteq seen[r]
    BY DEF VisibleResults
  <2>1. req[r].pc = "done"
    BY DEF Inv, Over
  <2> QED
    BY <2>1 DEF Inv, Sane, Visible
<1> QED
  BY <1>1, Inductive, PTL

\* Unless fewer results are asked for than places are reserved, an answer
\* fills exactly the places it can, and shows the best federated hits that
\* arrived in time, in their order (_merge_candidates).
THEOREM MergedExactly ==
    ASSUME QuotaFits
    PROVE  Spec => []MergeExact
<1>1. Inv => MergeExact
  <2> SUFFICES ASSUME Inv, NEW r \in Requests, Answered(r)
               PROVE  LET found == Candidates(r)
                          worth == Kept(found, ToSet(found) \ LowSignal)
                          slots == IF req[r].federated THEN Min({Quota, Len(worth)}) ELSE 0
                      IN /\ Len(req[r].result) = Min({req[r].topk, Len(req[r].local) + slots})
                         /\ Kept(req[r].result, {c \in ToSet(req[r].result) : c[1] # "local"})
                                = Slice(worth, slots)
    BY DEF MergeExact
  <2> QED
    BY QuotaFits DEF Inv, Over, Shown
<1> QED
  BY <1>1, Inductive, PTL

\* A search of a quiet index whose rows all have their provenance fails for
\* one reason only: the pool it asks the vector search for has grown above
\* the largest top_k (SurrealVectorStore.search).
THEOREM OnlyThePoolFails ==
    Spec => [](\A r \in Requests :
                   quiet[r] /\ Rows(store) \subseteq store.provenance /\ req[r].answer = "failed"
                       => req[r].pc = "failed" /\ req[r].pool > MaxTopK)
<1>1. Inv => \A r \in Requests :
                 quiet[r] /\ Rows(store) \subseteq store.provenance /\ req[r].answer = "failed"
                     => req[r].pc = "failed" /\ req[r].pool > MaxTopK
  BY DEF Inv, Sane, Healthy
<1> QED
  BY <1>1, Inductive, PTL

\* Nor does it get there but by its own first pool, or by doubling while it is
\* full, which takes as many chunks: neither a poll nor another request, neither
\* a slow source nor a timeout fails a healthy search, whatever its top_k.
THEOREM HealthyAreAnswered == Spec => []HealthyAnswered
<1>1. Inv => HealthyAnswered
  <2> SUFFICES ASSUME Inv, NEW r \in Requests, quiet[r], Rows(store) \subseteq store.provenance,
                      req[r].answer = "failed"
               PROVE  /\ req[r].pool > MaxTopK
                      /\ req[r].limit > MaxTopK \/ 2 * Cardinality(Chunks) > MaxTopK
    BY DEF HealthyAnswered, Whole, Rows
  <2> DEFINE p == req[r]
             bound == 2 * Cardinality(Chunks)
  <2>1. p.pc = "failed" /\ p.pool > MaxTopK
    BY DEF Inv, Sane, Healthy
  <2>2. p \in Progress
    BY DEF Inv, Types
  <2>3. p.pool <= p.limit \/ p.pool <= bound
    BY <2>1 DEF Inv, Sane, Shaped
  <2>4. p.pool \in Int /\ p.limit \in Int /\ MaxTopK \in Int
    BY <2>2, SearchAssumption DEF SearchAssumption, Progress
  <2>5. bound \in Int
    <3>1. IsFiniteSet(Chunks)
      BY Scores
    <3>2. Cardinality(Chunks) \in Int
      BY <3>1, FS_CardinalityType
    <3> QED
      BY <3>2
  <2> HIDE DEF p, bound
  <2>6. p.pool > MaxTopK /\ (p.limit > MaxTopK \/ bound > MaxTopK)
    BY <2>1, <2>3, <2>4, <2>5
  <2> QED
    BY <2>6 DEF p, bound
<1> QED
  BY <1>1, Inductive, PTL

-----------------------------------------------------------------------------
(* The chunks the cross-encoder scored lead                                *)

\* The cross-encoder could tell the chunks it scored apart.
Discerned(q) == Cardinality({RerankScore[c] : c \in q.scored}) > 1

\* Nothing is scored before the cross-encoder is asked; the scores it is
\* blended with are those of the fusion, as long as they are used.
Leading(q) ==
    /\ q.pc \notin {"build", "done"} => q.scored = {}
    /\ q.pc \in {"known", "active", "rerank"} => FusedBounded(q.score)
    /\ q.pc = "build" /\ Discerned(q) => Head(q.local) \in q.scored

LeadInv == \A r \in Requests : Leading(req[r])

\* A step of one request concerns that request alone.
LEMMA OneLeads ==
    ASSUME Inv, LeadInv, NEW r \in Requests, NEW q, req' = [req EXCEPT ![r] = q],
           Leading(req[r]) => Leading(q)
    PROVE  LeadInv'
<1>1. req \in [Requests -> Progress]
  BY DEF Inv, Types
<1>2. \A p \in Requests : req'[p] = IF p = r THEN q ELSE req[p]
  BY <1>1
<1>3. \A p \in Requests : Leading(req'[p])
  BY <1>2 DEF LeadInv
<1>4. \A p \in Requests : Leading(req[p])' <=> Leading(req'[p])
  BY DEF Leading, Discerned, FusedBounded
<1> QED
  BY <1>3, <1>4 DEF LeadInv

\* Steps of the request on the worker that neither fuse nor blend.
LEMMA PlainLeads ==
    ASSUME Inv, LeadInv, NEW r \in Requests, NEW q,
           req' = [req EXCEPT ![r] = q], req[r].pc \notin {"build", "done"},
           q.scored = req[r].scored,
           \/ q.pc \in {"new", "queued", "semantic", "keyword", "graph", "failed", "done"}
           \/ /\ req[r].pc \in {"known", "active"} /\ q.pc \in {"active", "rerank"}
              /\ q.score = req[r].score
    PROVE  LeadInv'
<1>1. Leading(req[r]) => Leading(q)
  BY DEF Leading
<1> QED
  BY <1>1, OneLeads

LEMMA RaiseLeads ==
    ASSUME Inv, LeadInv, NEW r \in Requests, Raise(r), req[r].pc \notin {"build", "done"}
    PROVE  LeadInv'
<1> DEFINE p == req[r]
           q == [p EXCEPT !.pc = "failed", !.answer = "failed"]
<1>1. p \in Progress /\ req' = [req EXCEPT ![r] = q]
  BY DEF Inv, Types, Raise, Step
<1>2. q.pc = "failed" /\ q.scored = p.scored
  BY <1>1 DEF Progress
<1> HIDE DEF q
<1> QED
  BY <1>1, <1>2, PlainLeads

LEMMA ListedLeads ==
    ASSUME Inv, LeadInv, NEW r \in Requests, NEW list, NEW pc \in {"keyword", "graph"},
           Listed(r, list, pc), req[r].pc \notin {"build", "done"}
    PROVE  LeadInv'
<1> DEFINE p == req[r]
           q == [p EXCEPT !.lists = Append(@, list), !.pc = pc]
<1>1. p \in Progress /\ req' = [req EXCEPT ![r] = q]
  BY DEF Inv, Types, Listed, Step
<1>2. q.pc = pc /\ q.scored = p.scored
  BY <1>1 DEF Progress
<1> HIDE DEF q
<1> QED
  BY <1>1, <1>2, PlainLeads

LEMMA FusesLeads ==
    ASSUME Inv, LeadInv, NEW r \in Requests, worker = r, req[r].pc = "graph",
           NEW list \in Seq(Chunks), Fuses(r, list)
    PROVE  LeadInv'
<1> DEFINE p == req[r]
           lists == Append(p.lists, list)
           score == FusedScore(lists)
           local == Fused(lists, score)
           pc == IF Named(lists) = <<>> THEN "done" ELSE "known"
           q == [p EXCEPT !.lists = <<>>, !.score = score, !.local = local, !.pc = pc]
<1>1. p \in Progress /\ Sane(p, store, seen[r], quiet[r])
  BY OnWorker
<1>2. p.lists \in Seq(Seq(Chunks)) /\ list \in Seq(Chunks) /\ Len(p.lists) = 2
  BY <1>1 DEF Progress, Sane, Shaped
<1>3. lists[1] \in Seq(Chunks) /\ lists[2] \in Seq(Chunks) /\ lists[3] \in Seq(Chunks)
  BY <1>2, ThirdList
<1>4. req' = [req EXCEPT ![r] = q]
  BY DEF Fuses, Step
<1> HIDE DEF lists
<1>5. FusedBounded(score)
  BY <1>3, FusedScoreBound
<1>6. pc \in {"done", "known"}
  OBVIOUS
<1> HIDE DEF score, local, pc
<1>7. q.pc = pc /\ q.scored = p.scored /\ q.score = score
  BY <1>1 DEF Progress
<1> HIDE DEF q
<1>8. Leading(p) => Leading(q)
  BY <1>5, <1>6, <1>7 DEF Leading
<1> QED
  BY <1>4, <1>8, OneLeads

\* Either the cross-encoder scored nothing, or one of what it scored leads.
LEMMA RerankLeads ==
    ASSUME FusionK >= 5, Inv, LeadInv, NEW r \in Requests, Rerank(r)
    PROVE  LeadInv'
<1> DEFINE p == req[r]
           top == Slice(p.local, p.limit)
           ranked == Reranked(store, top)
           scored == ToSet(ranked)
           local == Blended(p.local, p.score, ranked)
           q1 == [p EXCEPT !.local = local, !.scored = scored, !.pc = "build"]
           q2 == [p EXCEPT !.pc = "build"]
<1>1. worker = r /\ p.pc = "rerank"
  BY DEF Rerank, At
<1>2. p \in Progress /\ Sane(p, store, seen[r], quiet[r])
  BY <1>1, OnWorker
<1>3. FusedBounded(p.score) /\ p.scored = {}
  BY <1>1 DEF LeadInv, Leading
<1>4. req' = [req EXCEPT ![r] = q1] \/ req' = [req EXCEPT ![r] = q2]
  BY DEF Rerank, Step
<1>5. CASE req' = [req EXCEPT ![r] = q1]
  <2>1. /\ p.local \in Seq(Chunks) /\ p.limit \in Int /\ p.score \in Scorings
        /\ ToSet(p.local) \subseteq DOMAIN p.score
    BY <1>1, <1>2 DEF Progress, Sane, Shaped
  <2>2. top \in Seq(Chunks) /\ ToSet(top) \subseteq ToSet(p.local)
    BY <2>1, SliceLists
  <2> HIDE DEF top
  <2>3. ranked \in Seq(ToSet(top))
    BY <2>2, RerankedLists
  <2> HIDE DEF ranked
  <2>4. ranked \in Seq(ToSet(p.local))
    BY <2>2, <2>3
  <2>5. Cardinality({RerankScore[c] : c \in ToSet(ranked)}) > 1 => Head(local) \in ToSet(ranked)
    BY <1>3, <2>1, <2>4, BlendLeads
  <2> HIDE DEF scored, local
  <2>6. q1.pc = "build" /\ q1.scored = scored /\ q1.local = local
    BY <1>2 DEF Progress
  <2> HIDE DEF q1
  <2>7. Leading(q1)
    BY <2>5, <2>6 DEF Leading, Discerned, scored
  <2> QED
    BY <1>5, <2>7, OneLeads
<1>6. CASE req' = [req EXCEPT ![r] = q2]
  <2>1. q2.pc = "build" /\ q2.scored = {}
    BY <1>2, <1>3 DEF Progress
  <2> HIDE DEF q2
  <2>2. ~Discerned(q2)
    <3>1. {RerankScore[c] : c \in q2.scored} = {}
      BY <2>1
    <3>2. Cardinality({}) = 0
      BY FS_EmptySet
    <3>3. Cardinality({RerankScore[c] : c \in q2.scored}) = 0
      BY <3>1, <3>2
    <3> QED
      BY <3>3 DEF Discerned
  <2>3. Leading(q2)
    BY <2>1, <2>2 DEF Leading
  <2> QED
    BY <1>6, <2>3, OneLeads
<1> QED
  BY <1>4, <1>5, <1>6

LEMMA LocalLeads ==
    ASSUME FusionK >= 5, Inv, LeadInv, NEW r \in Requests, LocalStep(r)
    PROVE  LeadInv'
<1> DEFINE p == req[r]
<1>1. p \in Progress
  BY DEF Inv, Types
<1>2. CASE SearchSemantic(r)
  BY <1>2, RaiseLeads, ListedLeads DEF SearchSemantic, At
<1>3. CASE SearchKeyword(r)
  BY <1>3, ListedLeads DEF SearchKeyword, At
<1>4. CASE SearchGraph(r)
  <2> DEFINE list == GraphDirect(store, p.pool)
             empty == <<>>
  <2>1. worker = r /\ p.pc = "graph"
    BY <1>4 DEF SearchGraph, At
  <2>2. list \in Seq(Chunks) /\ empty \in Seq(Chunks)
    <3>1. Rows(store) \subseteq Chunks
      BY <2>1, OnWorker DEF Rows
    <3>2. list \in Seq(Rows(store))
      BY <2>1, ListsNow
    <3> HIDE DEF list
    <3> QED
      BY <3>1, <3>2
  <2> HIDE DEF list, empty
  <2>3. Fuses(r, list) \/ Fuses(r, empty)
    BY <1>4 DEF SearchGraph, Fuses, list, empty
  <2> QED
    BY <2>1, <2>2, <2>3, FusesLeads
<1>5. CASE LoadProvenance(r)
  <2> DEFINE known == ToSet(p.local) \cap store.provenance
             q == [p EXCEPT !.known = known, !.pc = "active"]
  <2>1. p.pc = "known" /\ (Raise(r) \/ req' = [req EXCEPT ![r] = q])
    BY <1>5 DEF LoadProvenance, At, Step
  <2> HIDE DEF known
  <2>2. q.pc = "active" /\ q.scored = p.scored /\ q.score = p.score
    BY <1>1 DEF Progress
  <2> HIDE DEF q
  <2> QED
    BY <2>1, <2>2, RaiseLeads, PlainLeads
<1>6. CASE FilterActive(r)
  <2> DEFINE active == ActiveOf(p.local)
             pc == IF active = <<>> THEN "done" ELSE "rerank"
             q1 == [p EXCEPT !.local = active, !.pc = pc]
             n == Len(p.local)
             pool == 2 * p.pool
             q2 == [p EXCEPT !.previous = n, !.pool = pool, !.score = <<>>, !.pc = "semantic"]
  <2>1. /\ p.pc = "active"
        /\ Raise(r) \/ req' = [req EXCEPT ![r] = q1] \/ req' = [req EXCEPT ![r] = q2]
    BY <1>6 DEF FilterActive, At, Step
  <2>2. pc \in {"done", "rerank"}
    OBVIOUS
  <2> HIDE DEF active, pc, n, pool
  <2>3. /\ q1.pc = pc /\ q1.scored = p.scored /\ q1.score = p.score
        /\ q2.pc = "semantic" /\ q2.scored = p.scored
    BY <1>1 DEF Progress
  <2> HIDE DEF q1, q2
  <2> QED
    BY <2>1, <2>2, <2>3, RaiseLeads, PlainLeads
<1>7. CASE Rerank(r)
  BY <1>7, RerankLeads
<1>8. CASE BuildCandidates(r)
  <2> DEFINE local == Kept(Slice(p.local, p.topk), store.chunks)
             q == [p EXCEPT !.pc = "done", !.score = <<>>, !.known = {}, !.local = local]
  <2>1. req' = [req EXCEPT ![r] = q]
    BY <1>8 DEF BuildCandidates, Step
  <2> HIDE DEF local
  <2>2. q.pc = "done"
    BY <1>1 DEF Progress
  <2> HIDE DEF q
  <2>3. Leading(q)
    BY <2>2 DEF Leading
  <2> QED
    BY <2>1, <2>3, OneLeads
<1> QED
  BY <1>2, <1>3, <1>4, <1>5, <1>6, <1>7, <1>8 DEF LocalStep

LEMMA NextLeads ==
    ASSUME FusionK >= 5, Inv, LeadInv, [Next]_vars
    PROVE  LeadInv'
<1>1. req \in [Requests -> Progress]
  BY DEF Inv, Types
<1>2. CASE req' = req
  BY <1>2 DEF LeadInv, Leading, Discerned, FusedBounded
<1>3. CASE Sync \/ Poll \/ PollEnd \/ UNCHANGED vars
  BY <1>2, <1>3 DEF Sync, Write, Poll, PollEnd, vars
<1>4. CASE Take
  <2>1. queue # <<>> /\ queue \in Seq(Requests \cup {"poll"}) /\ worker' = Head(queue)
    BY <1>4 DEF Take, Inv, Types
  <2>2. 1 \in DOMAIN queue /\ worker' = queue[1]
    BY <2>1
  <2>3. CASE worker' \in Requests
    <3> DEFINE r == worker'
               q == [req[r] EXCEPT !.pc = "semantic"]
    <3>1. "poll" \notin Requests
      BY SearchAssumption DEF SearchAssumption
    <3>2. req[r].pc = "queued"
      BY <2>2, <2>3, <3>1 DEF Inv, Jobs
    <3>3. req' = [req EXCEPT ![r] = q]
      BY <1>1, <1>4, <2>3 DEF Take
    <3>4. q.pc = "semantic" /\ q.scored = req[r].scored
      BY <1>1, <2>3 DEF Progress
    <3> HIDE DEF q
    <3> QED
      BY <2>3, <3>2, <3>3, <3>4, PlainLeads
  <2>4. CASE worker' \notin Requests
    <3>1. req' = req
      BY <1>1, <1>4, <2>4 DEF Take
    <3> QED
      BY <1>2, <3>1
  <2> QED
    BY <2>3, <2>4
<1>5. ASSUME NEW r \in Requests, Submit(r) PROVE LeadInv'
  <2>1. PICK k \in TopKs, rerank \in Reranks, fed \in Federations :
            /\ req[r].pc = "new"
            /\ LET pool == PoolSize(k, IF rerank THEN RerankPool ELSE k)
               IN req' = [req EXCEPT ![r] = [@ EXCEPT !.pc = "queued", !.topk = k, !.rerank = rerank,
                                                      !.federated = fed, !.limit = pool, !.pool = pool]]
            /\ queue' = Append(queue, r)
            /\ call' = IF fed THEN [call EXCEPT ![r] = [s \in Asked |-> "queued"]] ELSE call
            /\ outcome' = IF fed THEN [outcome EXCEPT ![r] = [s \in Asked |-> "pending"]] ELSE outcome
            /\ seen' = [seen EXCEPT ![r] = store.active] /\ quiet' = [quiet EXCEPT ![r] = TRUE]
            /\ UNCHANGED <<index, cache, worker, faults, polls>>
    BY <1>5, Zenon DEF Submit
  <2> DEFINE pool == PoolSize(k, IF rerank THEN RerankPool ELSE k)
             q == [req[r] EXCEPT !.pc = "queued", !.topk = k, !.rerank = rerank,
                                 !.federated = fed, !.limit = pool, !.pool = pool]
  <2>2. req' = [req EXCEPT ![r] = q]
    BY <2>1
  <2> HIDE DEF pool
  <2>3. q.pc = "queued" /\ q.scored = req[r].scored
    BY <1>1 DEF Progress
  <2> HIDE DEF q
  <2> QED
    BY <2>1, <2>2, <2>3, PlainLeads
<1>6. ASSUME NEW r \in Requests, LocalStep(r) PROVE LeadInv'
  BY <1>6, LocalLeads
<1>7. ASSUME NEW r \in Requests, Respond(r) PROVE LeadInv'
  <2>1. PICK found : req' = [req EXCEPT ![r] = [@ EXCEPT
               !.answer = "ok",
               !.result = IF req[r].federated
                          THEN Merge(LocalCandidates(r), found, LowSignal, req[r].topk, Quota)
                          ELSE Slice(LocalCandidates(r), req[r].topk)]]
    BY <1>7, Zenon DEF Respond
  <2> DEFINE result == IF req[r].federated
                       THEN Merge(LocalCandidates(r), found, LowSignal, req[r].topk, Quota)
                       ELSE Slice(LocalCandidates(r), req[r].topk)
             q == [req[r] EXCEPT !.answer = "ok", !.result = result]
  <2>2. req' = [req EXCEPT ![r] = q] /\ req[r].pc = "done"
    BY <1>7, <2>1 DEF Respond
  <2> HIDE DEF result
  <2>3. q.pc = req[r].pc
    BY <1>1 DEF Progress
  <2> HIDE DEF q
  <2>4. Leading(q)
    BY <2>2, <2>3 DEF Leading
  <2> QED
    BY <2>2, <2>4, OneLeads
<1>8. ASSUME NEW r \in Requests, NEW s \in Asked, CallStart(r, s) \/ CallEnd(r, s) \/ Timeout(r, s)
      PROVE LeadInv'
  <2> DEFINE p == req[r]
             answer == IF p.answer = "none" THEN "failed" ELSE p.answer
             q == [p EXCEPT !.answer = answer]
  <2>1. req' = req \/ req' = [req EXCEPT ![r].answer = IF @ = "none" THEN "failed" ELSE @]
    BY <1>8 DEF CallStart, CallEnd, Timeout
  <2>2. CASE req' # req
    <3>1. req' = [req EXCEPT ![r] = q]
      BY <2>1, <2>2
    <3> HIDE DEF answer
    <3>2. q.pc = p.pc /\ q.score = p.score /\ q.scored = p.scored /\ q.local = p.local
      BY <1>1 DEF Progress
    <3> HIDE DEF q
    <3>3. Leading(p) => Leading(q)
      BY <3>2 DEF Leading, Discerned
    <3> QED
      BY <3>1, <3>3, OneLeads
  <2> QED
    BY <1>2, <2>2
<1> QED
  BY <1>3, <1>4, <1>5, <1>6, <1>7, <1>8 DEF Next

\* With FusionK at 5 or more (it is 60 in fuse_results), a chunk that the
\* cross-encoder scored comes first, if it told the chunks it scored apart:
\* no fused score, left as it was, is above the best of the blended ones.
THEOREM ScoredLead ==
    ASSUME FusionK >= 5
    PROVE  Spec => []RerankedLeads
<1>1. Init => LeadInv
  BY DEF Init, LeadInv, Leading, Idle
<1>2. Inv /\ LeadInv /\ [Next]_vars => LeadInv'
  BY NextLeads
<1>3. LeadInv => RerankedLeads
  BY DEF LeadInv, Leading, Discerned, RerankedLeads
<1> QED
  BY <1>1, <1>2, <1>3, Inductive, PTL DEF Spec
=============================================================================
