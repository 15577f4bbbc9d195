-------------------------- MODULE DomainTrieProofs --------------------------
(***************************************************************************)
(* What DomainTrie promises, for every list of patterns and every name:    *)
(* rank and select are exact, the trie that NewMatcher lays out is that of *)
(* the sorted keys, and Match answers as the patterns mean.                *)
(*                                                                         *)
(* Counts are of finite sets, by position; lists are sorted by the number  *)
(* of elements before each; and the sums of the rank index, a recursive    *)
(* function, are shown by induction over a set of numbers.                 *)
(***************************************************************************)
EXTENDS DomainTrie, FiniteSetTheorems, SequenceTheorems, WellFoundedInduction, TLAPS

-----------------------------------------------------------------------------
(* Sorted lists                                                            *)

\* A set of numbers that is closed under successors from 0 on has them all.
LEMMA NatSetInduction ==
    ASSUME NEW T, 0 \in T, \A n \in T \cap Nat : n + 1 \in T
    PROVE  Nat \subseteq T
<1>1. SUFFICES ASSUME Nat \ T # {} PROVE FALSE
  OBVIOUS
<1>2. PICK n \in Nat \ T : \A m \in Nat \ T : <<m, n>> \notin OpToRel(<, Nat)
  BY <1>1, NatLessThanWellFounded, WFMin, Nat \ T \subseteq Nat
<1>3. n # 0
  OBVIOUS
<1>4. n - 1 \in Nat /\ n - 1 < n
  BY <1>3
<1>5. n - 1 \in T
  BY <1>2, <1>4 DEF OpToRel
<1>6. (n - 1) + 1 \in T
  BY <1>4, <1>5
<1>7. QED
  BY <1>6

\* A set of numbers that is not empty has a least one.
LEMMA LeastIs ==
    ASSUME NEW S, S \subseteq Nat, S # {}
    PROVE  \E n \in S : \A m \in S : n <= m
<1>1. PICK n \in S : \A m \in S : <<m, n>> \notin OpToRel(<, Nat)
  BY NatLessThanWellFounded, WFMin
<1>2. \A m \in S : n <= m
  <2> TAKE m \in S
  <2>1. m \in Nat /\ n \in Nat /\ <<m, n>> \in Nat \X Nat
    OBVIOUS
  <2>2. ~(m < n)
    BY <1>1, <2>1 DEF OpToRel
  <2>3. QED
    BY <2>1, <2>2
<1>3. QED
  BY <1>2

\* How many elements of S come before x.
Place(S, R, x) == Cardinality({y \in S : <<y, x>> \in R})

\* In a finite set with a strict total order every rank is taken.
LEMMA RankOnto ==
    ASSUME NEW S, IsFiniteSet(S), NEW R \in SUBSET (S \X S),
           \A x \in S : <<x, x>> \notin R,
           \A x, y \in S : x = y \/ <<x, y>> \in R \/ <<y, x>> \in R,
           \A x, y, z \in S : <<x, y>> \in R /\ <<y, z>> \in R => <<x, z>> \in R
    PROVE  /\ \A k \in 1 .. Cardinality(S) : \E x \in S : Place(S, R, x) = k - 1
           /\ \A x \in S : Place(S, R, x) \in 0 .. Cardinality(S) - 1
           /\ \A x, y \in S : <<x, y>> \in R => Place(S, R, x) < Place(S, R, y)
<1> DEFINE Below0(x) == {y \in S : <<y, x>> \in R}
           rank == [x \in S |-> Cardinality(Below0(x))]
           n == Cardinality(S)
<1>1. n \in Nat
  BY FS_CardinalityType
<1>2. \A x \in S : IsFiniteSet(Below0(x)) /\ Cardinality(Below0(x)) \in Nat
  <2> TAKE x \in S
  <2>1. Below0(x) \in SUBSET S
    OBVIOUS
  <2>2. IsFiniteSet(Below0(x))
    BY <2>1, FS_Subset
  <2>3. QED
    BY <2>2, FS_CardinalityType
<1>3. \A x \in S : rank[x] \in 0 .. n - 1
  <2> TAKE x \in S
  <2>1. Below0(x) \in SUBSET S /\ Below0(x) # S
    OBVIOUS
  <2>2. Cardinality(Below0(x)) <= n /\ Cardinality(Below0(x)) # n
    BY <2>1, FS_Subset
  <2>3. QED
    BY <1>1, <1>2, <2>2
<1>4. \A x, y \in S : <<x, y>> \in R => rank[x] < rank[y]
  <2> SUFFICES ASSUME NEW x \in S, NEW y \in S, <<x, y>> \in R PROVE rank[x] < rank[y]
    OBVIOUS
  <2>1. Below0(x) \in SUBSET Below0(y) /\ Below0(x) # Below0(y)
    OBVIOUS
  <2>2. Cardinality(Below0(x)) <= Cardinality(Below0(y)) /\ Cardinality(Below0(x)) # Cardinality(Below0(y))
    BY <1>2, <2>1, FS_Subset
  <2>3. rank[x] = Cardinality(Below0(x)) /\ rank[y] = Cardinality(Below0(y))
    OBVIOUS
  <2>4. Cardinality(Below0(x)) \in Nat /\ Cardinality(Below0(y)) \in Nat
    BY <1>2
  <2>5. QED
    <3> HIDE DEF rank, Below0
    <3>1. QED
      BY <2>2, <2>3, <2>4
<1>5. rank \in Injection(S, 0 .. n - 1)
  <2>1. rank \in [S -> 0 .. n - 1]
    BY <1>3
  <2>2. \A x, y \in S : rank[x] = rank[y] => x = y
    <3> SUFFICES ASSUME NEW x \in S, NEW y \in S, rank[x] = rank[y], x # y PROVE FALSE
      OBVIOUS
    <3>1. rank[x] \in Int /\ rank[y] \in Int
      BY <1>1, <1>3
    <3> HIDE DEF rank, n
    <3>2. <<x, y>> \in R \/ <<y, x>> \in R
      OBVIOUS
    <3>3. rank[x] < rank[y] \/ rank[y] < rank[x]
      BY <1>4, <3>2
    <3>4. QED
      BY <3>1, <3>3
  <2> HIDE DEF rank
  <2>3. QED
    BY <2>1, <2>2 DEF Injection, IsInjective
<1>6. IsFiniteSet(0 .. n - 1) /\ Cardinality(0 .. n - 1) = n
  <2> HIDE DEF n
  <2>1. 0 \in Int /\ n - 1 \in Int /\ (n - 1) - 0 + 1 = n /\ (0 > n - 1 => n = 0)
    BY <1>1
  <2>2. QED
    BY <2>1, FS_Interval
<1>7. rank \in Surjection(S, 0 .. n - 1)
  <2> HIDE DEF rank, n
  <2>1. Cardinality(S) = Cardinality(0 .. n - 1)
    BY <1>6 DEF n
  <2>2. QED
    BY <1>5, <1>6, <2>1, FS_Injection
<1>8. \A k \in 0 .. n - 1 : \E x \in S : rank[x] = k
  <2> HIDE DEF rank, n
  <2>1. QED
    BY <1>7 DEF Surjection
<1>9. \A k \in 1 .. n : \E x \in S : rank[x] = k - 1
  <2> TAKE k \in 1 .. n
  <2>1. k - 1 \in 0 .. n - 1
    BY <1>1
  <2> HIDE DEF rank, n
  <2>2. QED
    BY <1>8, <2>1
<1>10. \A x \in S : rank[x] = Place(S, R, x)
  BY DEF Place
<1> HIDE DEF rank, n
<1>11. QED
  BY <1>3, <1>4, <1>9, <1>10 DEF n

\* A strict total order on a set.
StrictOrder(R, S) ==
    /\ R \in SUBSET (S \X S)
    /\ \A x \in S : <<x, x>> \notin R
    /\ \A x, y \in S : x = y \/ <<x, y>> \in R \/ <<y, x>> \in R
    /\ \A x, y, z \in S : <<x, y>> \in R /\ <<y, z>> \in R => <<x, z>> \in R

\* Its elements in that order.
Listed(S, R) == [k \in 1 .. Cardinality(S) |-> CHOOSE x \in S : Place(S, R, x) = k - 1]

\* Elements by their places: each once, in order.
LEMMA ByPlace ==
    ASSUME NEW S, IsFiniteSet(S), NEW R, StrictOrder(R, S)
    PROVE  /\ Listed(S, R) \in Seq(S) /\ Len(Listed(S, R)) = Cardinality(S)
           /\ \A j, k \in DOMAIN Listed(S, R) : j < k => <<Listed(S, R)[j], Listed(S, R)[k]>> \in R
           /\ \A x \in S : \E k \in DOMAIN Listed(S, R) : Listed(S, R)[k] = x
<1> DEFINE n == Cardinality(S)
           list == Listed(S, R)
<1>0. \A x, y \in S : x = y \/ <<x, y>> \in R \/ <<y, x>> \in R
  BY DEF StrictOrder
<1>1. /\ \A k \in 1 .. n : \E x \in S : Place(S, R, x) = k - 1
      /\ \A x \in S : Place(S, R, x) \in 0 .. n - 1
      /\ \A x, y \in S : <<x, y>> \in R => Place(S, R, x) < Place(S, R, y)
  BY RankOnto DEF StrictOrder
<1>2. n \in Nat
  BY FS_CardinalityType
<1> HIDE DEF n
<1>3. DOMAIN list = 1 .. n /\ \A k \in 1 .. n : list[k] \in S /\ Place(S, R, list[k]) = k - 1
  BY <1>1 DEF n, Listed
<1>31. list = [k \in 1 .. n |-> list[k]]
  BY DEF n, Listed
<1> HIDE DEF list
<1>4. list \in Seq(S) /\ Len(list) = n
  BY <1>2, <1>3, <1>31 DEF n
<1>5. ASSUME NEW x \in S, NEW y \in S, Place(S, R, x) = Place(S, R, y) PROVE x = y
  <2>1. PICK p \in 0 .. n - 1 : Place(S, R, x) = p
    BY <1>1
  <2>2. ~(p < p)
    BY <1>2
  <2>3. <<x, y>> \notin R /\ <<y, x>> \notin R
    BY <1>1, <1>5, <2>1, <2>2
  <2>4. QED
    BY <1>0, <2>3
<1>6. \A x \in S : \E k \in DOMAIN list : list[k] = x
  <2> TAKE x \in S
  <2>1. PICK p \in 0 .. n - 1 : Place(S, R, x) = p
    BY <1>1
  <2>2. p + 1 \in 1 .. n /\ p + 1 - 1 = p
    BY <1>2
  <2>3. list[p + 1] \in S /\ Place(S, R, list[p + 1]) = p /\ p + 1 \in DOMAIN list
    BY <1>3, <2>2
  <2>4. list[p + 1] = x
    BY <1>5, <2>1, <2>3
  <2>5. QED
    BY <2>3, <2>4
<1>7. ASSUME NEW j \in DOMAIN list, NEW k \in DOMAIN list, j < k PROVE <<list[j], list[k]>> \in R
  <2>1. /\ list[j] \in S /\ list[k] \in S /\ j \in Int /\ k \in Int
        /\ Place(S, R, list[j]) = j - 1 /\ Place(S, R, list[k]) = k - 1
    BY <1>2, <1>3
  <2>2. ~(<<list[k], list[j]>> \in R) /\ list[j] # list[k]
    BY <1>1, <1>7, <2>1
  <2>3. QED
    BY <1>0, <2>1, <2>2
<1>8. QED
  BY <1>4, <1>6, <1>7 DEF n, list

\* A set of numbers, in order.
LEMMA AscendingIs ==
    ASSUME NEW S, IsFiniteSet(S), S \subseteq Nat
    PROVE  /\ Ascending(S) \in Seq(S) /\ Len(Ascending(S)) = Cardinality(S)
           /\ \A j, k \in DOMAIN Ascending(S) : j < k => Ascending(S)[j] < Ascending(S)[k]
           /\ \A i \in S : \E k \in DOMAIN Ascending(S) : Ascending(S)[k] = i
<1> DEFINE R == {p \in S \X S : p[1] < p[2]}
           before(x) == Cardinality({j \in S : j < x})
<1>1. \A x, y \in S : <<x, y>> \in R <=> x < y
  OBVIOUS
<1>2. R \in SUBSET (S \X S)
  OBVIOUS
<1>3. Ascending(S) = [k \in 1 .. Cardinality(S) |-> CHOOSE i \in S : before(i) = k - 1]
  BY DEF Ascending
<1>4. \A x \in S : before(x) = Place(S, R, x)
  <2>1. \A x \in S : {j \in S : j < x} = {y \in S : <<y, x>> \in R}
    BY <1>1
  <2> HIDE DEF R
  <2>2. QED
    BY <2>1 DEF Place
<1> HIDE DEF R, before
<1>5. \A k : (CHOOSE i \in S : before(i) = k - 1) = (CHOOSE i \in S : Place(S, R, i) = k - 1)
  BY <1>4
<1>6. Ascending(S) = Listed(S, R)
  BY <1>3, <1>5 DEF Listed
<1>7. StrictOrder(R, S)
  BY <1>1, <1>2 DEF StrictOrder
<1>8. /\ Ascending(S) \in Seq(S) /\ Len(Ascending(S)) = Cardinality(S)
      /\ \A j, k \in DOMAIN Ascending(S) : j < k => <<Ascending(S)[j], Ascending(S)[k]>> \in R
      /\ \A x \in S : \E k \in DOMAIN Ascending(S) : Ascending(S)[k] = x
  BY <1>6, <1>7, ByPlace
<1>9. \A k \in DOMAIN Ascending(S) : Ascending(S)[k] \in S
  BY <1>8
<1>10. QED
  BY <1>1, <1>8, <1>9

\* The order of keys is one: no key before itself.
LEMMA LessThanIrreflexive == ASSUME NEW s \in Seq(Nat) PROVE ~LessThan(s, s)
BY DEF LessThan

\* Two different keys are in order, one way or the other.
LEMMA LessThanTotal ==
    ASSUME NEW s \in Seq(Nat), NEW t \in Seq(Nat)
    PROVE  s = t \/ LessThan(s, t) \/ LessThan(t, s)
<1> DEFINE D == {n \in Nat : n = Len(s) \/ n = Len(t) \/ s[n + 1] # t[n + 1]}
<1>1. Len(s) \in D
  OBVIOUS
<1>2. PICK n \in D : \A m \in D : n <= m
  BY <1>1, LeastIs
<1>3. n \in Nat /\ n <= Len(s) /\ n <= Len(t)
  <2>1. Len(t) \in D
    OBVIOUS
  <2>2. QED
    BY <1>1, <1>2, <2>1
<1>4. Agree(s, t, n) /\ Agree(t, s, n)
  <2> SUFFICES ASSUME NEW i \in 1 .. n PROVE s[i] = t[i]
    BY DEF Agree
  <2>1. i - 1 \in Nat /\ i - 1 < n /\ (i - 1) + 1 = i
    BY <1>3
  <2>2. i - 1 \notin D
    <3> HIDE DEF D
    <3>1. QED
      BY <1>2, <1>3, <2>1
  <2>3. QED
    BY <2>1, <2>2
<1>5. CASE n = Len(s) /\ n = Len(t)
  <2>1. \A i \in 1 .. Len(s) : s[i] = t[i]
    BY <1>4, <1>5 DEF Agree
  <2>2. s = t
    BY <1>5, <2>1, SeqEqual
  <2>3. QED
    BY <2>2
<1>6. CASE n = Len(s) /\ n # Len(t)
  <2>1. n \in 0 .. Len(s) /\ n < Len(t)
    BY <1>3, <1>6
  <2> HIDE DEF D
  <2>2. QED
    BY <1>4, <1>6, <2>1 DEF LessThan
<1>7. CASE n # Len(s) /\ n = Len(t)
  <2>1. n \in 0 .. Len(t) /\ n < Len(s)
    BY <1>3, <1>7
  <2> HIDE DEF D
  <2>2. QED
    BY <1>4, <1>7, <2>1 DEF LessThan
<1>8. CASE n # Len(s) /\ n # Len(t)
  <2>1. s[n + 1] # t[n + 1] /\ s[n + 1] \in Nat /\ t[n + 1] \in Nat
    BY <1>3, <1>8
  <2>2. s[n + 1] < t[n + 1] \/ t[n + 1] < s[n + 1]
    BY <2>1
  <2>3. n \in 0 .. Len(s) /\ n \in 0 .. Len(t) /\ n < Len(t) /\ n < Len(s)
    BY <1>3, <1>8
  <2>4. QED
    BY <1>4, <2>2, <2>3 DEF LessThan
<1>9. QED
  BY <1>5, <1>6, <1>7, <1>8

\* And the order is transitive.
LEMMA LessThanTransitive ==
    ASSUME NEW s \in Seq(Nat), NEW t \in Seq(Nat), NEW u \in Seq(Nat), LessThan(s, t), LessThan(t, u)
    PROVE  LessThan(s, u)
<1>1. PICK n \in 0 .. Len(s) : n < Len(t) /\ Agree(s, t, n) /\ (n = Len(s) \/ s[n + 1] < t[n + 1])
  BY DEF LessThan
<1>2. PICK m \in 0 .. Len(t) : m < Len(u) /\ Agree(t, u, m) /\ (m = Len(t) \/ t[m + 1] < u[m + 1])
  BY DEF LessThan
<1>3. CASE n < m
  <2>1. Agree(s, u, n) /\ t[n + 1] = u[n + 1]
    BY <1>1, <1>2, <1>3 DEF Agree
  <2>2. n \in 0 .. Len(s) /\ n < Len(u)
    BY <1>1, <1>2, <1>3
  <2>3. QED
    BY <1>1, <2>1, <2>2 DEF LessThan
<1>4. CASE m <= n
  <2>1. Agree(s, u, m)
    BY <1>1, <1>2, <1>4 DEF Agree
  <2>2. m \in 0 .. Len(s) /\ m < Len(u) /\ m < Len(t) /\ t[m + 1] < u[m + 1]
    BY <1>1, <1>2, <1>4
  <2>3. CASE m = Len(s)
    BY <2>1, <2>2, <2>3 DEF LessThan
  <2>4. CASE m # Len(s) /\ m < n
    <3>1. s[m + 1] = t[m + 1]
      BY <1>1, <2>4 DEF Agree
    <3>2. QED
      BY <2>1, <2>2, <3>1 DEF LessThan
  <2>5. CASE m # Len(s) /\ m = n
    <3>1. s[m + 1] < t[m + 1] /\ s[m + 1] \in Nat /\ t[m + 1] \in Nat /\ u[m + 1] \in Nat
      <4>1. m + 1 \in 1 .. Len(s) /\ m + 1 \in 1 .. Len(t) /\ m + 1 \in 1 .. Len(u)
        <5>1. Len(s) \in Nat /\ Len(t) \in Nat /\ Len(u) \in Nat
          BY LenProperties
        <5>2. m \in 0 .. Len(s) /\ m < Len(u) /\ m < Len(t)
          BY <2>2
        <5>3. QED
          BY <2>5, <5>1, <5>2
      <4>2. s[m + 1] < t[m + 1]
        <5>1. n = Len(s) \/ s[n + 1] < t[n + 1]
          BY <1>1
        <5>2. QED
          BY <2>5, <5>1
      <4>3. s[m + 1] \in Nat /\ t[m + 1] \in Nat /\ u[m + 1] \in Nat
        BY <4>1, ElementOfSeq
      <4>4. QED
        BY <4>2, <4>3
    <3>2. s[m + 1] < u[m + 1]
      BY <2>2, <3>1
    <3>3. QED
      BY <2>1, <2>2, <3>2 DEF LessThan
  <2>6. QED
    BY <1>1, <1>4, <2>3, <2>4, <2>5
<1>5. QED
  BY <1>1, <1>2, <1>3, <1>4

\* A set of keys, in order.
LEMMA SortedIs ==
    ASSUME NEW S, IsFiniteSet(S), S \subseteq Seq(Nat)
    PROVE  /\ Sorted(S) \in Seq(S) /\ Len(Sorted(S)) = Cardinality(S)
           /\ \A j, k \in DOMAIN Sorted(S) : j < k => LessThan(Sorted(S)[j], Sorted(S)[k])
           /\ \A i \in S : \E k \in DOMAIN Sorted(S) : Sorted(S)[k] = i
<1> DEFINE R == {p \in S \X S : LessThan(p[1], p[2])}
           before(x) == Cardinality({j \in S : LessThan(j, x)})
<1>1. \A x, y \in S : <<x, y>> \in R <=> LessThan(x, y)
  OBVIOUS
<1>2. R \in SUBSET (S \X S)
  OBVIOUS
<1>3. Sorted(S) = [k \in 1 .. Cardinality(S) |-> CHOOSE i \in S : before(i) = k - 1]
  BY DEF Sorted
<1>4. \A x \in S : before(x) = Place(S, R, x)
  <2>1. \A x \in S : {j \in S : LessThan(j, x)} = {y \in S : <<y, x>> \in R}
    BY <1>1
  <2> HIDE DEF R
  <2>2. QED
    BY <2>1 DEF Place
<1> HIDE DEF R, before
<1>5. \A k : (CHOOSE i \in S : before(i) = k - 1) = (CHOOSE i \in S : Place(S, R, i) = k - 1)
  BY <1>4
<1>6. Sorted(S) = Listed(S, R)
  BY <1>3, <1>5 DEF Listed
<1>7. StrictOrder(R, S)
  <2>1. \A x \in S : x \in Seq(Nat)
    OBVIOUS
  <2>2. QED
    BY <1>1, <1>2, <2>1, LessThanIrreflexive, LessThanTotal, LessThanTransitive DEF StrictOrder
<1>8. /\ Sorted(S) \in Seq(S) /\ Len(Sorted(S)) = Cardinality(S)
      /\ \A j, k \in DOMAIN Sorted(S) : j < k => <<Sorted(S)[j], Sorted(S)[k]>> \in R
      /\ \A x \in S : \E k \in DOMAIN Sorted(S) : Sorted(S)[k] = x
  BY <1>6, <1>7, ByPlace
<1>9. QED
  <2>1. \A j \in DOMAIN Sorted(S) : Sorted(S)[j] \in S
    BY <1>8
  <2>2. QED
    BY <1>1, <1>8, <2>1

-----------------------------------------------------------------------------
(* Counting ones                                                           *)

\* The ones between two positions.
OnesAt(bm, a, b) == {p \in a .. b - 1 : Bit(bm, p) = 1}

\* They are finitely many.
LEMMA OnesAre ==
    ASSUME NEW bm, NEW a \in Int, NEW b \in Int
    PROVE  /\ IsFiniteSet(OnesAt(bm, a, b)) /\ Ones(bm, a, b) = Cardinality(OnesAt(bm, a, b))
           /\ Ones(bm, a, b) \in Nat
           /\ b <= a => Ones(bm, a, b) = 0
<1>1. IsFiniteSet(a .. b - 1)
  BY FS_Interval
<1>2. OnesAt(bm, a, b) \in SUBSET (a .. b - 1)
  BY DEF OnesAt
<1>3. IsFiniteSet(OnesAt(bm, a, b))
  BY <1>1, <1>2, FS_Subset
<1>4. Ones(bm, a, b) = Cardinality(OnesAt(bm, a, b))
  BY DEF Ones, OnesAt
<1>5. b <= a => OnesAt(bm, a, b) = {}
  BY DEF OnesAt
<1>6. QED
  BY <1>3, <1>4, <1>5, FS_CardinalityType, FS_EmptySet

\* Counts add up.
LEMMA OnesSplit ==
    ASSUME NEW bm, NEW a \in Int, NEW b \in Int, NEW c \in Int, a <= b, b <= c
    PROVE  Ones(bm, a, c) = Ones(bm, a, b) + Ones(bm, b, c)
<1>1. OnesAt(bm, a, c) = OnesAt(bm, a, b) \cup OnesAt(bm, b, c)
  BY DEF OnesAt
<1>2. OnesAt(bm, a, b) \cap OnesAt(bm, b, c) = {}
  BY DEF OnesAt
<1>3. Cardinality(OnesAt(bm, a, c)) = Cardinality(OnesAt(bm, a, b)) + Cardinality(OnesAt(bm, b, c)) - Cardinality({})
  BY <1>1, <1>2, OnesAre, FS_Union
<1>4. QED
  <2>1. Ones(bm, a, b) \in Nat /\ Ones(bm, b, c) \in Nat /\ Cardinality({}) = 0
    BY OnesAre, FS_EmptySet
  <2>2. QED
    BY <1>3, <2>1, OnesAre

\* One position more adds its bit.
LEMMA OnesStep ==
    ASSUME NEW bm \in Seq({0, 1}), NEW a \in Int, NEW b \in Nat, a <= b
    PROVE  Bit(bm, b) \in {0, 1} /\ Ones(bm, a, b + 1) = Ones(bm, a, b) + Bit(bm, b)
<1>1. Bit(bm, b) \in {0, 1}
  BY DEF Bit
<1>2. Ones(bm, a, b + 1) = Ones(bm, a, b) + Ones(bm, b, b + 1)
  BY OnesSplit
<1>3. OnesAt(bm, b, b + 1) = IF Bit(bm, b) = 1 THEN {b} ELSE {}
  BY DEF OnesAt
<1>4. Cardinality({b}) = 1 /\ Cardinality({}) = 0
  BY FS_Singleton, FS_EmptySet
<1>5. Ones(bm, b, b + 1) = Bit(bm, b)
  BY <1>1, <1>3, <1>4, OnesAre
<1>6. QED
  BY <1>1, <1>2, <1>5

\* Counts grow, by one for a position at most.
LEMMA OnesGrow ==
    ASSUME NEW bm \in Seq({0, 1}), NEW b \in Nat, NEW c \in Nat, b <= c
    PROVE  Ones(bm, 0, b) <= Ones(bm, 0, c) /\ Ones(bm, 0, c) <= Ones(bm, 0, b) + (c - b)
<1>1. Ones(bm, 0, c) = Ones(bm, 0, b) + Ones(bm, b, c)
  BY OnesSplit
<1>2. Ones(bm, 0, b) \in Nat /\ Ones(bm, b, c) \in Nat
  BY OnesAre
<1>3. Ones(bm, b, c) <= c - b
  <2>1. OnesAt(bm, b, c) \in SUBSET (b .. c - 1)
    BY DEF OnesAt
  <2>2. IsFiniteSet(b .. c - 1) /\ Cardinality(b .. c - 1) = c - b
    <3>1. b \in Int /\ c - 1 \in Int /\ (c - 1) - b + 1 = c - b /\ (b > c - 1 => c - b = 0)
      OBVIOUS
    <3>2. QED
      BY <3>1, FS_Interval
  <2>3. Cardinality(OnesAt(bm, b, c)) <= Cardinality(b .. c - 1)
    BY <2>1, <2>2, FS_Subset
  <2>4. QED
    BY <2>2, <2>3, OnesAre
<1>4. QED
  BY <1>1, <1>2, <1>3

\* A one counts for the positions after it, and a zero does not.
LEMMA OnesAfter ==
    ASSUME NEW bm \in Seq({0, 1}), NEW p \in Nat, NEW q \in Nat, p < q
    PROVE  /\ Bit(bm, p) = 1 => Ones(bm, 0, p) < Ones(bm, 0, q)
           /\ Bit(bm, p) = 0 => p - Ones(bm, 0, p) < q - Ones(bm, 0, q)
<1>1. Ones(bm, 0, p + 1) = Ones(bm, 0, p) + Bit(bm, p)
  BY OnesStep
<1>2. Ones(bm, 0, p + 1) <= Ones(bm, 0, q) /\ Ones(bm, 0, q) <= Ones(bm, 0, p + 1) + (q - (p + 1))
  BY OnesGrow
<1>3. Ones(bm, 0, p) \in Nat /\ Ones(bm, 0, q) \in Nat /\ Ones(bm, 0, p + 1) \in Nat
  BY OnesAre
<1>4. QED
  BY <1>1, <1>2, <1>3

\* Two ones have different counts before them.
LEMMA OnesDiffer ==
    ASSUME NEW bm \in Seq({0, 1}), NEW p \in Nat, NEW q \in Nat,
           Bit(bm, p) = 1, Bit(bm, q) = 1, Ones(bm, 0, p) = Ones(bm, 0, q)
    PROVE  p = q
<1>1. Ones(bm, 0, p) \in Nat
  BY OnesAre
<1>2. ~(p < q) /\ ~(q < p)
  BY <1>1, OnesAfter
<1>3. QED
  BY <1>2

\* Every number below a count is the count before some one.
LEMMA OnesTaken ==
    ASSUME NEW bm \in Seq({0, 1}), NEW a \in Nat, NEW b \in Nat, a <= b, NEW i \in Nat,
           Ones(bm, 0, a) <= i, i < Ones(bm, 0, b)
    PROVE  \E p \in a .. b - 1 : Bit(bm, p) = 1 /\ Ones(bm, 0, p) = i
<1>0. \A e \in Nat : Bit(bm, e) \in {0, 1} /\ Ones(bm, 0, e + 1) = Ones(bm, 0, e) + Bit(bm, e)
  <2> TAKE e \in Nat
  <2>1. 0 \in Int /\ 0 <= e
    OBVIOUS
  <2>2. QED
    BY <2>1, OnesStep, Zenon
<1> DEFINE T == {p \in Nat : a <= p /\ i < Ones(bm, 0, p)}
<1>1. PICK q \in T : \A r \in T : q <= r
  <2>1. T # {} /\ T \subseteq Nat
    OBVIOUS
  <2> HIDE DEF T
  <2>2. QED
    BY <2>1, LeastIs
<1>2. q \in Nat /\ a <= q /\ i < Ones(bm, 0, q) /\ q <= b
  BY <1>1
<1>3. q # a
  <2>1. Ones(bm, 0, a) \in Nat
    BY OnesAre
  <2>2. QED
    BY <1>2, <2>1
<1>4. PICK r \in Nat : q = r + 1 /\ a <= r /\ r <= b - 1 /\ r < q
  <2>1. q - 1 \in Nat /\ q = (q - 1) + 1 /\ a <= q - 1 /\ q - 1 <= b - 1 /\ q - 1 < q
    BY <1>2, <1>3
  <2>2. QED
    BY <2>1
<1>5. Ones(bm, 0, r) \in Nat /\ Ones(bm, 0, r) <= i
  <2>1. r \notin T
    <3> HIDE DEF T
    <3>1. QED
      BY <1>1, <1>2, <1>4
  <2>2. Ones(bm, 0, r) \in Nat
    BY <1>4, OnesAre
  <2>3. QED
    BY <1>4, <2>1, <2>2
<1>6. Bit(bm, r) \in {0, 1} /\ Ones(bm, 0, r + 1) = Ones(bm, 0, r) + Bit(bm, r)
  <2> HIDE DEF T
  <2>1. r \in Nat
    BY <1>4
  <2>2. QED
    BY <1>0, <2>1
<1>7. Bit(bm, r) = 1 /\ Ones(bm, 0, r) = i
  BY <1>2, <1>4, <1>5, <1>6
<1>8. r \in a .. b - 1
  BY <1>4
<1>9. QED
  BY <1>7, <1>8

\* Nothing is counted after the end.
LEMMA OnesEnd ==
    ASSUME NEW bm \in Seq({0, 1}), NEW p \in Nat, Len(bm) <= p
    PROVE  Ones(bm, 0, p) = Ones(bm, 0, Len(bm))
<1>1. OnesAt(bm, 0, p) = OnesAt(bm, 0, Len(bm))
  BY DEF OnesAt, Bit
<1>2. QED
  BY <1>1, OnesAre

\* Counts depend on the bits below.
LEMMA OnesAgree ==
    ASSUME NEW bm, NEW cm, NEW b \in Nat, \A p \in 0 .. b - 1 : Bit(bm, p) = Bit(cm, p)
    PROVE  Ones(bm, 0, b) = Ones(cm, 0, b)
<1>1. OnesAt(bm, 0, b) = OnesAt(cm, 0, b)
  BY DEF OnesAt
<1>2. QED
  BY <1>1, OnesAre

-----------------------------------------------------------------------------
(* The rank index                                                          *)

\* Words cover the bitmap.
LEMMA WordsCover ==
    ASSUME NEW bm \in Seq({0, 1})
    PROVE  /\ WordCount(bm) \in Nat
           /\ Len(bm) <= WordCount(bm) * WordBits
<1> DEFINE n == Len(bm)
           B == WordBits
<1>1. B \in Nat /\ B > 0 /\ n \in Nat
  BY TrieAssumption
<1> HIDE DEF n, B
<1>2. n + B - 1 = B * ((n + B - 1) \div B) + ((n + B - 1) % B) /\ (n + B - 1) % B \in 0 .. B - 1
      /\ (n + B - 1) \div B \in Int
  BY <1>1
<1> DEFINE w == (n + B - 1) \div B
           m == (n + B - 1) % B
<1>3. n + B - 1 = B * w + m /\ m \in 0 .. B - 1 /\ w \in Int
  BY <1>2
<1> HIDE DEF w, m
<1>4. n <= B * w
  BY <1>1, <1>3
<1>5. w >= 0
  <2>1. SUFFICES ASSUME w <= -1 PROVE FALSE
    BY <1>3
  <2>2. B * w <= B * (-1)
    BY <1>1, <1>3, <2>1
  <2>3. B * (-1) = -B /\ B * w \in Int
    BY <1>1, <1>3
  <2>4. QED
    BY <1>1, <1>4, <2>2, <2>3
<1>6. B * w = w * B
  BY <1>1, <1>3
<1>7. QED
  BY <1>3, <1>4, <1>5, <1>6 DEF w, WordCount, n, B

\* What a quotient is.
LEMMA QuotientIs ==
    ASSUME NEW B \in Nat \ {0}, NEW i \in Nat
    PROVE  i \div B \in Nat /\ (i \div B) * B <= i /\ i < (i \div B + 1) * B
<1>1. B \in Nat /\ B > 0
  OBVIOUS
<1>2. i = B * (i \div B) + (i % B) /\ i % B \in 0 .. B - 1 /\ i \div B \in Int
  BY <1>1
<1> DEFINE w == i \div B
           m == i % B
<1>3. i = B * w + m /\ m \in 0 .. B - 1 /\ w \in Int
  BY <1>2
<1> HIDE DEF w, m
<1>4. w >= 0
  <2>1. SUFFICES ASSUME w <= -1 PROVE FALSE
    BY <1>3
  <2>2. B * w <= B * (-1)
    BY <1>1, <1>3, <2>1
  <2>3. QED
    BY <1>1, <1>3, <2>2
<1>5. B * w = w * B /\ (w + 1) * B = w * B + B
  BY <1>1, <1>3
<1>6. w * B <= i /\ i < (w + 1) * B
  BY <1>1, <1>3, <1>5
<1>7. QED
  BY <1>3, <1>4, <1>6 DEF w

\* A position lies in its word.
LEMMA WordOf ==
    ASSUME NEW i \in Nat
    PROVE  /\ i \div WordBits \in Nat
           /\ (i \div WordBits) * WordBits <= i /\ i < (i \div WordBits + 1) * WordBits
BY QuotientIs, TrieAssumption

\* Words follow one another.
LEMMA WordsInOrder ==
    ASSUME NEW v \in Nat, NEW w \in Nat, v <= w
    PROVE  v * WordBits \in Nat /\ w * WordBits \in Nat /\ v * WordBits <= w * WordBits
           /\ (w + 1) * WordBits = w * WordBits + WordBits
<1> DEFINE B == WordBits
<1>1. B \in Nat
  BY TrieAssumption
<1> HIDE DEF B
<1>2. QED
  BY <1>1 DEF B

\* Where a word starts.
LEMMA WordStart ==
    ASSUME NEW w \in Nat
    PROVE  w * WordBits \in Nat /\ (w + 1) * WordBits = w * WordBits + WordBits /\ WordBits \in Nat
<1>1. w <= w
  OBVIOUS
<1>2. QED
  BY <1>1, WordsInOrder, TrieAssumption

\* f counts the ones before the first m words.
CountsTo(bm, m, f) == f = [w \in 0 .. m |-> IF w = 0 THEN 0 ELSE f[w - 1] + WordOnes(bm, w - 1)]

\* The function exists, and there is no other one.
LEMMA CountsAre ==
    ASSUME NEW bm \in Seq({0, 1}), NEW m \in Nat
    PROVE  /\ \E f : CountsTo(bm, m, f)
           /\ \A f : CountsTo(bm, m, f) => \A w \in 0 .. m : f[w] = Ones(bm, 0, w * WordBits)
<1>1. ASSUME NEW w \in Nat
      PROVE  Ones(bm, 0, (w + 1) * WordBits) = Ones(bm, 0, w * WordBits) + WordOnes(bm, w)
  <2>1. w * WordBits \in Nat /\ (w + 1) * WordBits \in Nat /\ w * WordBits <= (w + 1) * WordBits
    <3> DEFINE x == w * WordBits
               y == (w + 1) * WordBits
    <3>1. x \in Nat /\ y = x + WordBits /\ WordBits \in Nat
      BY WordStart
    <3> HIDE DEF x, y
    <3>2. x \in Nat /\ y \in Nat /\ x <= y
      BY <3>1
    <3>3. QED
      BY <3>2 DEF x, y
  <2>2. QED
    BY <2>1, OnesSplit DEF WordOnes
<1>2. Ones(bm, 0, 0 * WordBits) = 0
  <2>1. 0 * WordBits = 0
    BY TrieAssumption
  <2>2. QED
    BY <2>1, OnesAre
<1>3. \E f : CountsTo(bm, m, f)
  <2> DEFINE g == [w \in 0 .. m |-> Ones(bm, 0, w * WordBits)]
  <2>1. ASSUME NEW w \in 0 .. m
        PROVE  g[w] = IF w = 0 THEN 0 ELSE g[w - 1] + WordOnes(bm, w - 1)
    <3>1. CASE w = 0
      BY <1>2, <3>1
    <3>2. CASE w # 0
      <4>1. PICK v \in 0 .. m : w = v + 1 /\ v = w - 1 /\ v \in Nat
        BY <3>2
      <4>2. g[w] = g[v] + WordOnes(bm, v)
        BY <1>1, <4>1
      <4>3. QED
        BY <3>2, <4>1, <4>2
    <3>3. QED
      BY <3>1, <3>2
  <2>2. g = [w \in 0 .. m |-> g[w]]
    OBVIOUS
  <2> HIDE DEF g
  <2>3. CountsTo(bm, m, g)
    BY <2>1, <2>2 DEF CountsTo
  <2>4. QED
    BY <2>3
<1>4. ASSUME NEW f, CountsTo(bm, m, f) PROVE \A w \in 0 .. m : f[w] = Ones(bm, 0, w * WordBits)
  <2> DEFINE T == {w \in Nat : w <= m => f[w] = Ones(bm, 0, w * WordBits)}
  <2>1. 0 \in T
    BY <1>2, <1>4 DEF CountsTo
  <2>2. ASSUME NEW w \in T \cap Nat PROVE w + 1 \in T
    <3>1. CASE w + 1 <= m
      <4>1. w + 1 \in 0 .. m /\ (w + 1) - 1 = w /\ w + 1 # 0 /\ w <= m
        BY <3>1
      <4>2. f[w + 1] = f[w] + WordOnes(bm, w)
        BY <1>4, <4>1 DEF CountsTo
      <4>3. f[w] = Ones(bm, 0, w * WordBits)
        BY <4>1
      <4>4. f[w + 1] = Ones(bm, 0, (w + 1) * WordBits)
        BY <1>1, <4>2, <4>3
      <4>5. QED
        BY <4>4
    <3>2. CASE ~(w + 1 <= m)
      BY <3>2
    <3>3. QED
      BY <3>1, <3>2
  <2> HIDE DEF T
  <2>3. Nat \subseteq T
    BY <2>1, <2>2, NatSetInduction
  <2>4. QED
    BY <2>3 DEF T
<1>5. QED
  BY <1>3, <1>4

\* The rank index counts the ones before each word.
LEMMA RankIndexIs ==
    ASSUME NEW bm \in Seq({0, 1})
    PROVE  RankIndex(bm) = [k \in 1 .. WordCount(bm) + 1 |-> Ones(bm, 0, (k - 1) * WordBits)]
<1> DEFINE f == CHOOSE f : CountsTo(bm, WordCount(bm), f)
<1>1. WordCount(bm) \in Nat
  BY WordsCover
<1>2. \A w \in 0 .. WordCount(bm) : f[w] = Ones(bm, 0, w * WordBits)
  BY <1>1, CountsAre
<1>3. RankIndex(bm) = [k \in 1 .. WordCount(bm) + 1 |-> f[k - 1]]
  BY DEF RankIndex, CountsTo
<1> HIDE DEF f
<1>4. \A k \in 1 .. WordCount(bm) + 1 : k - 1 \in 0 .. WordCount(bm)
  BY <1>1
<1>5. QED
  BY <1>2, <1>3, <1>4

\* Rank counts the ones before any position.
LEMMA RankIs ==
    ASSUME NEW bm \in Seq({0, 1}), NEW i \in Nat
    PROVE  Rank(bm, RankIndex(bm), i) = Ones(bm, 0, i)
<1> DEFINE w == i \div WordBits
           n == WordCount(bm)
           ranks0 == RankIndex(bm)
<1>1. w \in Nat /\ w * WordBits \in Nat /\ w * WordBits <= i
  <2>1. w \in Nat /\ w * WordBits <= i
    BY WordOf
  <2> HIDE DEF w
  <2>2. QED
    BY <2>1, WordStart
<1>2. n \in Nat /\ n * WordBits \in Nat /\ Len(bm) <= n * WordBits
  <2>1. n \in Nat /\ Len(bm) <= n * WordBits
    BY WordsCover
  <2> HIDE DEF n
  <2>2. QED
    BY <2>1, WordStart
<1>3. ranks0 = [k \in 1 .. n + 1 |-> Ones(bm, 0, (k - 1) * WordBits)]
  BY RankIndexIs
<1>4. Rank(bm, ranks0, i) = IF w >= n THEN ranks0[Len(ranks0)] ELSE ranks0[w + 1] + Ones(bm, w * WordBits, i)
  BY DEF Rank
<1> HIDE DEF w, n, ranks0
<1>5. CASE w >= n
  <2>1. Len(ranks0) = n + 1 /\ n + 1 \in 1 .. n + 1 /\ (n + 1) - 1 = n
    BY <1>2, <1>3
  <2>2. ranks0[n + 1] = Ones(bm, 0, n * WordBits)
    BY <1>3, <2>1
  <2>3. n * WordBits <= w * WordBits
    BY <1>1, <1>2, <1>5, WordsInOrder
  <2>4. Len(bm) <= i
    BY <1>1, <1>2, <2>3
  <2>5. Ones(bm, 0, n * WordBits) = Ones(bm, 0, Len(bm)) /\ Ones(bm, 0, i) = Ones(bm, 0, Len(bm))
    BY <1>2, <2>4, OnesEnd
  <2>6. QED
    BY <1>4, <1>5, <2>1, <2>2, <2>5 DEF ranks0
<1>6. CASE w < n
  <2>1. w + 1 \in 1 .. n + 1 /\ (w + 1) - 1 = w
    BY <1>1, <1>2, <1>6
  <2>2. ranks0[w + 1] = Ones(bm, 0, w * WordBits)
    BY <1>3, <2>1
  <2>3. Ones(bm, 0, i) = Ones(bm, 0, w * WordBits) + Ones(bm, w * WordBits, i)
    BY <1>1, OnesSplit
  <2>4. ~(w >= n)
    BY <1>1, <1>2, <1>6
  <2>5. QED
    BY <1>4, <2>2, <2>3, <2>4 DEF ranks0
<1>7. QED
  BY <1>1, <1>2, <1>5, <1>6

-----------------------------------------------------------------------------
(* The select index                                                        *)

\* A multiple of the sampling.
LEMMA Multiples ==
    ASSUME NEW j \in Nat, NEW k \in Nat
    PROVE  /\ j * Sampling \in Nat /\ (j * Sampling) % Sampling = 0
           /\ j < k => j * Sampling < k * Sampling
           /\ j <= k => j * Sampling <= k * Sampling
<1> DEFINE B == Sampling
<1>1. B \in Nat /\ B > 0
  BY TrieAssumption
<1> HIDE DEF B
<1>2. j * B \in Nat
  BY <1>1
<1>3. (j * B) % B = 0
  <2> DEFINE q == (j * B) \div B
             m == (j * B) % B
  <2>1. j * B = B * q + m /\ m \in 0 .. B - 1 /\ q \in Int
    BY <1>1, <1>2
  <2> HIDE DEF q, m
  <2>2. m = B * (j - q)
    BY <1>1, <2>1
  <2>3. j - q >= 1 => B * (j - q) >= B * 1
    BY <1>1, <2>1
  <2>4. j - q <= -1 => B * (j - q) <= B * (-1)
    BY <1>1, <2>1
  <2>5. B * 1 = B /\ B * (-1) = -B
    BY <1>1
  <2>6. ~(j - q >= 1) /\ ~(j - q <= -1)
    BY <1>1, <2>1, <2>2, <2>3, <2>4, <2>5
  <2>7. j - q = 0
    BY <2>1, <2>6
  <2>8. QED
    BY <1>1, <2>2, <2>7 DEF m
<1>4. j < k => j * B < k * B
  <2>1. SUFFICES ASSUME j < k PROVE j * B < k * B
    OBVIOUS
  <2>2. (j + 1) * B <= k * B /\ (j + 1) * B = j * B + B
    BY <1>1, <2>1
  <2>3. QED
    BY <1>1, <1>2, <2>2
<1>5. j <= k => j * B <= k * B
  BY <1>1
<1>6. QED
  BY <1>2, <1>3, <1>4, <1>5 DEF B

\* The k-th sample has at most as many ones before it as there are samples.
LEMMA SelectIndexIs ==
    ASSUME NEW bm \in Seq({0, 1})
    PROVE  /\ Len(SelectIndex(bm)) \in Nat \ {0}
           /\ \A k \in 1 .. Len(SelectIndex(bm)) :
                 /\ SelectIndex(bm)[k] \in Nat
                 /\ Ones(bm, 0, SelectIndex(bm)[k]) <= (k - 1) * Sampling
<1> DEFINE S == Sampled(bm)
           list == SelectIndex(bm)
<1>1. CASE S = {}
  <2>1. list = <<0>>
    BY <1>1 DEF SelectIndex
  <2>2. Ones(bm, 0, 0) = 0 /\ (1 - 1) * Sampling = 0
    BY OnesAre, TrieAssumption
  <2>3. QED
    BY <2>1, <2>2
<1>2. CASE S # {}
  <2>1. S \subseteq Nat /\ IsFiniteSet(S)
    <3>1. S \subseteq 0 .. Len(bm) - 1 /\ S \in SUBSET (0 .. Len(bm) - 1)
      BY DEF Sampled
    <3>2. IsFiniteSet(0 .. Len(bm) - 1)
      BY FS_Interval
    <3>3. IsFiniteSet(S)
      BY <3>1, <3>2, FS_Subset
    <3>4. QED
      BY <3>1, <3>3
  <2>2. list = Ascending(S)
    BY <1>2 DEF SelectIndex
  <2>3. \A p \in Nat : p \in S <=> p < Len(bm) /\ Bit(bm, p) = 1 /\ Ones(bm, 0, p) % Sampling = 0
    BY DEF Sampled
  <2> HIDE DEF S, list
  <2>4. /\ list \in Seq(S)
        /\ \A j, k \in DOMAIN list : j < k => list[j] < list[k]
        /\ \A i \in S : \E k \in DOMAIN list : list[k] = i
    BY <2>1, <2>2, AscendingIs
  <2>5. Len(list) \in Nat \ {0}
    <3>1. PICK i \in S : TRUE
      BY <1>2 DEF S
    <3>2. PICK k \in DOMAIN list : list[k] = i
      BY <2>4
    <3>3. QED
      BY <2>4, <3>2
  <2>6. \A k \in DOMAIN list : k \in 1 .. Len(list) /\ list[k] \in S /\ list[k] \in Nat /\ list[k] < Len(bm)
    <3>1. \A k \in DOMAIN list : k \in 1 .. Len(list) /\ list[k] \in S
      BY <2>4
    <3>2. QED
      BY <2>1, <2>3, <3>1
  <2> DEFINE bad == {k \in DOMAIN list : ~(Ones(bm, 0, list[k]) <= (k - 1) * Sampling)}
  <2>7. bad = {}
    <3>1. SUFFICES ASSUME bad # {} PROVE FALSE
      OBVIOUS
    <3>2. bad \subseteq Nat
      BY <2>6
    <3>3. PICK k \in bad : \A j \in bad : k <= j
      <4> HIDE DEF bad
      <4>1. QED
        BY <3>1, <3>2, LeastIs
    <3>4. k \in DOMAIN list /\ k \in Nat /\ k >= 1 /\ k - 1 \in Nat /\ ~(Ones(bm, 0, list[k]) <= (k - 1) * Sampling)
      BY <2>6
    <3>5. (k - 1) * Sampling \in Nat /\ ((k - 1) * Sampling) % Sampling = 0
      BY <3>4, Multiples
    <3>6. Ones(bm, 0, 0) = 0 /\ Ones(bm, 0, list[k]) \in Nat
      BY <2>6, <3>4, OnesAre
    <3>7. PICK p \in 0 .. list[k] - 1 : Bit(bm, p) = 1 /\ Ones(bm, 0, p) = (k - 1) * Sampling
      <4>1. list[k] \in Nat /\ Ones(bm, 0, 0) <= (k - 1) * Sampling /\ (k - 1) * Sampling < Ones(bm, 0, list[k])
        BY <2>6, <3>4, <3>5, <3>6
      <4>2. QED
        BY <3>5, <4>1, OnesTaken
    <3>8. p \in S /\ p \in Nat /\ p < list[k]
      <4>1. p \in Nat /\ p < Len(bm) /\ p < list[k]
        BY <2>6, <3>4
      <4>2. QED
        BY <2>3, <3>5, <3>7, <4>1
    <3>9. PICK j \in DOMAIN list : list[j] = p
      BY <2>4, <3>8
    <3>10. j < k
      <4>1. j \in Nat /\ list[j] \in Nat /\ list[k] \in Nat
        BY <2>6, <3>4
      <4>2. j # k /\ ~(k < j)
        BY <2>4, <3>4, <3>8, <3>9, <4>1
      <4>3. QED
        BY <3>4, <4>1, <4>2
    <3>11. j \notin bad /\ j - 1 \in Nat /\ j - 1 < k - 1
      <4>1. j \in 1 .. Len(list)
        BY <2>6
      <4> HIDE DEF bad
      <4>2. QED
        BY <3>3, <3>4, <3>10, <4>1
    <3>12. (j - 1) * Sampling < (k - 1) * Sampling /\ (j - 1) * Sampling \in Nat
      BY <3>4, <3>11, Multiples
    <3>13. Ones(bm, 0, list[j]) <= (j - 1) * Sampling
      BY <3>11
    <3>14. QED
      BY <3>5, <3>7, <3>9, <3>12, <3>13
  <2>8. \A k \in 1 .. Len(list) : k \in DOMAIN list
    BY <2>4
  <2>9. QED
    BY <2>5, <2>6, <2>7, <2>8 DEF list
<1>3. QED
  BY <1>1, <1>2

\* Select finds the i-th one.
LEMMA SelectIs ==
    ASSUME NEW bm \in Seq({0, 1}), NEW i \in Nat, i < Ones(bm, 0, Len(bm))
    PROVE  \E p \in Nat : /\ p = Select(bm, RankIndex(bm), SelectIndex(bm), i)
                          /\ Bit(bm, p) = 1 /\ Ones(bm, 0, p) = i
<1> DEFINE n     == WordCount(bm)
           sx    == SelectIndex(bm)
           rx    == RankIndex(bm)
           q     == i \div Sampling
           sidx  == IF q >= Len(sx) THEN Len(sx) - 1 ELSE q
           lo    == sx[sidx + 1] \div WordBits
           found == {w \in lo .. n - 1 : rx[w + 2] > i}
           w     == CHOOSE v \in found : \A u \in found : v <= u
           Is(p) == Bit(bm, p) = 1 /\ Ones(bm, w * WordBits, p) = i - rx[w + 1]
<1>1. Select(bm, rx, sx, i) =
        IF found = {} THEN n * WordBits ELSE CHOOSE p \in w * WordBits .. (w + 1) * WordBits - 1 : Is(p)
  BY DEF Select
<1>2. /\ n \in Nat /\ n * WordBits \in Nat
      /\ Ones(bm, 0, n * WordBits) = Ones(bm, 0, Len(bm))
  <2>1. n \in Nat /\ Len(bm) <= n * WordBits
    BY WordsCover
  <2> HIDE DEF n
  <2>2. QED
    BY <2>1, WordStart, OnesEnd
<1>3. rx = [k \in 1 .. n + 1 |-> Ones(bm, 0, (k - 1) * WordBits)]
  BY RankIndexIs
<1>4. lo \in Nat /\ lo * WordBits \in Nat /\ Ones(bm, 0, lo * WordBits) <= i
  <2>1. q \in Nat /\ q * Sampling <= i
    BY QuotientIs, TrieAssumption
  <2>2. Len(sx) \in Nat \ {0} /\ \A k \in 1 .. Len(sx) : sx[k] \in Nat /\ Ones(bm, 0, sx[k]) <= (k - 1) * Sampling
    BY SelectIndexIs
  <2> HIDE DEF q, sx
  <2>3. sidx \in Nat /\ sidx <= q /\ sidx + 1 \in 1 .. Len(sx) /\ (sidx + 1) - 1 = sidx
    BY <2>1, <2>2
  <2>4. sidx * Sampling <= q * Sampling /\ sidx * Sampling \in Nat /\ q * Sampling \in Nat
    <3> HIDE DEF sidx
    <3>1. QED
      BY <2>1, <2>3, Multiples
  <2> DEFINE p == sx[sidx + 1]
  <2>5. p \in Nat /\ Ones(bm, 0, p) <= sidx * Sampling
    <3> HIDE DEF sidx
    <3>1. sx[sidx + 1] \in Nat /\ Ones(bm, 0, sx[sidx + 1]) <= ((sidx + 1) - 1) * Sampling
      BY <2>2, <2>3
    <3>2. QED
      BY <2>3, <3>1
  <2>6. lo = p \div WordBits
    OBVIOUS
  <2> HIDE DEF p, lo, sidx
  <2>7. lo \in Nat /\ lo * WordBits <= p
    BY <2>5, <2>6, WordOf
  <2>8. lo * WordBits \in Nat
    BY <2>7, WordStart
  <2>9. Ones(bm, 0, lo * WordBits) <= Ones(bm, 0, p) /\ Ones(bm, 0, p) \in Nat /\ Ones(bm, 0, lo * WordBits) \in Nat
    BY <2>5, <2>7, <2>8, OnesGrow, OnesAre
  <2>10. QED
    BY <2>1, <2>4, <2>5, <2>7, <2>8, <2>9
<1> HIDE DEF n, sx, rx, q, sidx, lo
<1>5. \A v \in Nat : v \in lo .. n - 1 => (v \in found <=> i < Ones(bm, 0, (v + 1) * WordBits))
  <2> SUFFICES ASSUME NEW v \in Nat, v \in lo .. n - 1
               PROVE  v \in found <=> i < Ones(bm, 0, (v + 1) * WordBits)
    OBVIOUS
  <2>1. v + 2 \in 1 .. n + 1 /\ (v + 2) - 1 = v + 1
    BY <1>2, <1>4
  <2>2. rx[v + 2] = Ones(bm, 0, (v + 1) * WordBits)
    BY <1>3, <2>1
  <2>3. (v + 1) * WordBits \in Nat
    BY WordStart
  <2>4. rx[v + 2] \in Nat
    BY <2>2, <2>3, OnesAre
  <2>5. QED
    BY <2>2, <2>4
<1>6. found \subseteq Nat /\ found \subseteq lo .. n - 1
  BY <1>2, <1>4
<1>7. found # {}
  <2>1. lo < n
    <3>1. SUFFICES ASSUME n <= lo PROVE FALSE
      BY <1>2, <1>4
    <3>2. n * WordBits <= lo * WordBits
      BY <1>2, <1>4, <3>1, WordsInOrder
    <3>3. Ones(bm, 0, n * WordBits) <= Ones(bm, 0, lo * WordBits)
      BY <1>2, <1>4, <3>2, OnesGrow
    <3>4. Ones(bm, 0, n * WordBits) \in Nat /\ Ones(bm, 0, lo * WordBits) \in Nat
      BY <1>2, <1>4, OnesAre
    <3>5. QED
      BY <1>2, <1>4, <3>3, <3>4
  <2>2. n - 1 \in Nat /\ n - 1 \in lo .. n - 1 /\ (n - 1) + 1 = n
    BY <1>2, <1>4, <2>1
  <2> HIDE DEF found
  <2>3. QED
    BY <1>2, <1>5, <2>2
<1>8. w \in found /\ \A u \in found : w <= u
  <2>1. \E v \in found : \A u \in found : v <= u
    <3> HIDE DEF found
    <3>1. QED
      BY <1>6, <1>7, LeastIs
  <2> HIDE DEF found
  <2>2. QED
    BY <2>1
<1> HIDE DEF found, w
<1>9. w \in Nat /\ w \in lo .. n - 1 /\ w * WordBits \in Nat /\ (w + 1) * WordBits = w * WordBits + WordBits
      /\ WordBits \in Nat
  BY <1>6, <1>8, WordStart
<1>10. Ones(bm, 0, w * WordBits) <= i
  <2>1. CASE w = lo
    BY <1>4, <2>1
  <2>2. CASE w # lo
    <3>1. PICK v \in Nat : w = v + 1 /\ v \in lo .. n - 1 /\ v < w
      <4>1. w - 1 \in Nat /\ w = (w - 1) + 1 /\ w - 1 \in lo .. n - 1 /\ w - 1 < w
        BY <1>2, <1>4, <1>9, <2>2
      <4>2. QED
        BY <4>1
    <3>2. v \notin found
      BY <1>8, <1>9, <3>1
    <3>3. ~(i < Ones(bm, 0, w * WordBits))
      BY <1>5, <3>1, <3>2
    <3>4. Ones(bm, 0, w * WordBits) \in Nat
      BY <1>9, OnesAre
    <3>5. QED
      BY <3>3, <3>4
  <2>3. QED
    BY <2>1, <2>2
<1> DEFINE x == w * WordBits
           y == (w + 1) * WordBits
<1>11. x \in Nat /\ y \in Nat /\ x <= y /\ Ones(bm, 0, x) <= i /\ i < Ones(bm, 0, y)
  <2>1. i < Ones(bm, 0, y)
    BY <1>5, <1>8, <1>9
  <2>2. x \in Nat /\ y = x + WordBits /\ Ones(bm, 0, x) <= i /\ WordBits \in Nat
    BY <1>9, <1>10
  <2> HIDE DEF x, y
  <2>3. QED
    BY <2>1, <2>2
<1>12. rx[w + 1] = Ones(bm, 0, x)
  <2>1. w + 1 \in 1 .. n + 1 /\ (w + 1) - 1 = w
    BY <1>2, <1>4, <1>9
  <2>2. QED
    BY <1>3, <2>1
<1>13. Select(bm, rx, sx, i) = CHOOSE p \in x .. y - 1 : Is(p)
  BY <1>1, <1>7
<1>14. \A p : Is(p) <=> Bit(bm, p) = 1 /\ Ones(bm, x, p) = i - Ones(bm, 0, x)
  BY <1>12
<1> HIDE DEF x, y, Is
<1>15. \A p \in x .. y - 1 : p \in Nat /\ (Is(p) <=> Bit(bm, p) = 1 /\ Ones(bm, 0, p) = i)
  <2> TAKE p \in x .. y - 1
  <2>1. p \in Nat /\ x <= p
    BY <1>11
  <2>2. Ones(bm, 0, p) = Ones(bm, 0, x) + Ones(bm, x, p)
    BY <1>11, <2>1, OnesSplit
  <2>3. Ones(bm, 0, x) \in Nat /\ Ones(bm, x, p) \in Nat
    BY <1>11, <2>1, OnesAre
  <2>4. QED
    BY <1>14, <2>1, <2>2, <2>3
<1>16. \E p \in x .. y - 1 : Is(p)
  <2>1. PICK p \in x .. y - 1 : Bit(bm, p) = 1 /\ Ones(bm, 0, p) = i
    BY <1>11, OnesTaken
  <2>2. QED
    BY <1>15, <2>1
<1>17. \E p \in x .. y - 1 : p = Select(bm, rx, sx, i) /\ Is(p)
  BY <1>13, <1>16
<1>18. QED
  BY <1>15, <1>17 DEF rx, sx

-----------------------------------------------------------------------------
(* Keys in order, and the ranges of them that share a prefix               *)

\* A key does not come before one that it begins with.
LEMMA PrefixFirst ==
    ASSUME NEW s \in Seq(Nat), NEW t \in Seq(Nat), Len(t) <= Len(s), Agree(s, t, Len(t))
    PROVE  ~LessThan(s, t)
<1>1. SUFFICES ASSUME NEW n \in 0 .. Len(s), n < Len(t), Agree(s, t, n), n = Len(s) \/ s[n + 1] < t[n + 1]
               PROVE  FALSE
  BY DEF LessThan
<1>2. n + 1 \in 1 .. Len(t) /\ n # Len(s)
  BY <1>1
<1>3. s[n + 1] = t[n + 1] /\ t[n + 1] \in Nat
  BY <1>2 DEF Agree
<1>4. QED
  BY <1>1, <1>2, <1>3

\* Of keys that agree up to there, the lesser one goes on with no greater
\* character.
LEMMA CharOrder ==
    ASSUME NEW s \in Seq(Nat), NEW t \in Seq(Nat), NEW c \in Nat, c < Len(s), c < Len(t),
           Agree(s, t, c), LessThan(s, t)
    PROVE  s[c + 1] <= t[c + 1]
<1>1. PICK n \in 0 .. Len(s) : n < Len(t) /\ Agree(s, t, n) /\ (n = Len(s) \/ s[n + 1] < t[n + 1])
  BY DEF LessThan
<1>2. s[c + 1] \in Nat /\ t[c + 1] \in Nat
  OBVIOUS
<1>3. CASE n < c
  <2>1. n + 1 \in 1 .. c /\ n # Len(s)
    BY <1>3
  <2>2. s[n + 1] = t[n + 1] /\ t[n + 1] \in Nat
    BY <2>1 DEF Agree
  <2>3. s[n + 1] < t[n + 1]
    BY <1>1, <2>1
  <2>4. QED
    BY <2>2, <2>3
<1>4. CASE n = c
  BY <1>1, <1>2, <1>4
<1>5. CASE c < n
  <2>1. c + 1 \in 1 .. n
    BY <1>5
  <2>2. QED
    BY <1>1, <1>2, <2>1 DEF Agree
<1>6. QED
  BY <1>3, <1>4, <1>5

\* The keys are a sorted list of texts.
Ordered ==
    /\ keys \in Seq(Seq(Nat))
    /\ \A j, k \in DOMAIN keys : j < k => LessThan(keys[j], keys[k])

\* The character that a key has after a node's prefix.
NextChar(elt, j) == keys[j][elt.col + 1]

\* What is in a node's range: the prefix itself can only be its first key,
\* and the characters after the prefix ascend.
LEMMA RangeIs ==
    ASSUME Ordered, NEW elt, Covers(elt)
    PROVE  /\ elt.s \in elt.s .. elt.e - 1 /\ elt.s \in Nat \ {0} /\ elt.e \in Nat /\ elt.col \in Nat
           /\ \A j \in elt.s .. elt.e - 1 :
                 /\ j \in DOMAIN keys /\ j \in Nat \ {0} /\ keys[j] \in Seq(Nat)
                 /\ Len(keys[j]) \in Nat /\ Len(keys[j]) >= elt.col
                 /\ Agree(keys[j], keys[elt.s], elt.col)
                 /\ Len(keys[j]) = elt.col => j = elt.s
           /\ Longer(elt) \subseteq elt.s .. elt.e - 1
           /\ \A j \in elt.s .. elt.e - 1 : j \in Longer(elt) <=> Len(keys[j]) > elt.col
           /\ \A j \in Longer(elt) : NextChar(elt, j) \in Nat
           /\ \A j, k \in Longer(elt) : j <= k => NextChar(elt, j) <= NextChar(elt, k)
<1> DEFINE s == elt.s
           e == elt.e
           c == elt.col
<1>1. /\ s \in DOMAIN keys /\ e \in 1 .. Len(keys) + 1 /\ c \in 0 .. Len(keys[s])
      /\ \A j \in DOMAIN keys : j \in s .. e - 1 <=> Len(keys[j]) >= c /\ Agree(keys[j], keys[s], c)
  BY DEF Covers
<1>2. Longer(elt) = (IF c = Len(keys[s]) THEN s + 1 ELSE s) .. e - 1
  BY DEF Longer, EndsAt
<1>3. \A j : NextChar(elt, j) = keys[j][c + 1]
  BY DEF NextChar
<1>4. /\ keys \in Seq(Seq(Nat))
      /\ \A j, k \in DOMAIN keys : j < k => LessThan(keys[j], keys[k])
  BY DEF Ordered
<1> HIDE DEF s, e, c
<1>5. DOMAIN keys = 1 .. Len(keys) /\ Len(keys) \in Nat
  BY <1>4
<1>6. \A j \in DOMAIN keys : keys[j] \in Seq(Nat) /\ Len(keys[j]) \in Nat /\ j \in Nat \ {0}
  BY <1>4, <1>5
<1>7. s \in Nat \ {0} /\ e \in Nat /\ e <= Len(keys) + 1 /\ c \in Nat /\ Len(keys[s]) >= c /\ Len(keys[s]) \in Nat
  BY <1>1, <1>5, <1>6
<1>8. s \in s .. e - 1
  BY <1>1, <1>7 DEF Agree
<1>9. \A j \in s .. e - 1 : j \in DOMAIN keys
  BY <1>5, <1>7
<1>10. \A j \in s .. e - 1 : Len(keys[j]) >= c /\ Agree(keys[j], keys[s], c)
  BY <1>1, <1>9
<1>11. ASSUME NEW j \in s .. e - 1, Len(keys[j]) = c PROVE j = s
  <2>1. j >= s /\ j \in Nat /\ j \in DOMAIN keys /\ s \in DOMAIN keys
    BY <1>6, <1>7, <1>9, <1>1
  <2>2. SUFFICES ASSUME s < j PROVE FALSE
    BY <1>7, <2>1
  <2>3. LessThan(keys[s], keys[j])
    BY <1>4, <2>1, <2>2
  <2>4. Agree(keys[s], keys[j], Len(keys[j]))
    BY <1>10, <1>11 DEF Agree
  <2>5. Len(keys[j]) <= Len(keys[s])
    BY <1>7, <1>11
  <2>6. QED
    BY <1>6, <2>1, <2>3, <2>4, <2>5, PrefixFirst
<1>12. Longer(elt) \subseteq s .. e - 1
  BY <1>2, <1>7
<1>13. ASSUME NEW j \in s .. e - 1 PROVE j \in Longer(elt) <=> Len(keys[j]) > c
  <2>1. j \in Nat /\ j >= s /\ Len(keys[j]) \in Nat /\ Len(keys[j]) >= c
    BY <1>6, <1>7, <1>9, <1>10
  <2>2. CASE j = s
    BY <1>2, <1>7, <1>8, <2>1, <2>2
  <2>3. CASE j # s
    <3>1. Len(keys[j]) # c
      BY <1>11, <2>3
    <3>2. j \in Longer(elt)
      BY <1>2, <1>7, <2>1, <2>3
    <3>3. QED
      BY <1>7, <2>1, <3>1, <3>2
  <2>4. QED
    BY <2>2, <2>3
<1>14. \A j \in Longer(elt) : keys[j][c + 1] \in Nat
  <2> SUFFICES ASSUME NEW j \in Longer(elt) PROVE keys[j][c + 1] \in Nat
    OBVIOUS
  <2>1. j \in DOMAIN keys /\ Len(keys[j]) > c
    BY <1>9, <1>12, <1>13
  <2>2. QED
    BY <1>6, <1>7, <2>1
<1>15. ASSUME NEW j \in Longer(elt), NEW k \in Longer(elt), j <= k PROVE keys[j][c + 1] <= keys[k][c + 1]
  <2>1. /\ j \in DOMAIN keys /\ j \in Nat /\ k \in DOMAIN keys /\ k \in Nat
        /\ Len(keys[j]) > c /\ Len(keys[k]) > c
    BY <1>6, <1>9, <1>12, <1>13
  <2>2. CASE j = k
    BY <1>14, <2>2
  <2>3. CASE j < k
    <3>1. LessThan(keys[j], keys[k])
      BY <1>4, <2>1, <2>3
    <3>2. Agree(keys[j], keys[k], c)
      BY <1>10, <1>12 DEF Agree
    <3>3. c < Len(keys[j]) /\ c < Len(keys[k]) /\ keys[j] \in Seq(Nat) /\ keys[k] \in Seq(Nat)
      BY <1>6, <1>7, <2>1
    <3>4. QED
      BY <1>7, <3>1, <3>2, <3>3, CharOrder
  <2>4. QED
    BY <1>15, <2>1, <2>2, <2>3
<1>16. QED
  <2>1. s \in s .. e - 1 /\ s \in Nat \ {0} /\ e \in Nat /\ c \in Nat
    BY <1>7, <1>8
  <2>2. \A j \in s .. e - 1 :
            /\ j \in DOMAIN keys /\ j \in Nat \ {0} /\ keys[j] \in Seq(Nat)
            /\ Len(keys[j]) \in Nat /\ Len(keys[j]) >= c
            /\ Agree(keys[j], keys[s], c)
            /\ Len(keys[j]) = c => j = s
    BY <1>6, <1>9, <1>10, <1>11
  <2>3. \A j \in Longer(elt) : NextChar(elt, j) \in Nat
    BY <1>3, <1>14
  <2>4. \A j, k \in Longer(elt) : j <= k => NextChar(elt, j) <= NextChar(elt, k)
    BY <1>3, <1>15
  <2>5. QED
    BY <1>12, <1>13, <2>1, <2>2, <2>3, <2>4 DEF s, e, c

\* What the first keys of a character are: there is one for each character,
\* their characters ascend, and the child's range is of the keys with its
\* character.
LEMMA FirstsAre ==
    ASSUME Ordered, NEW elt, Covers(elt)
    PROVE  /\ Firsts(elt) \subseteq Longer(elt)
           /\ \A k \in Longer(elt) : \E j \in Firsts(elt) : NextChar(elt, j) = NextChar(elt, k)
           /\ \A j, k \in Firsts(elt) : j < k => NextChar(elt, j) < NextChar(elt, k)
<1> DEFINE L == Longer(elt)
           F == Firsts(elt)
           ch(j) == NextChar(elt, j)
<1>1. F = {j \in L : j - 1 \in L => ch(j - 1) # ch(j)}
  BY DEF Firsts, NextChar
<1>2. /\ L \subseteq Nat \ {0}
      /\ \A j \in L : ch(j) \in Nat
      /\ \A j, k \in L : j <= k => ch(j) <= ch(k)
  BY RangeIs
<1>3. ASSUME NEW i \in L, NEW k \in L, NEW j \in Nat, i <= j, j <= k PROVE j \in L
  <2>1. elt.s \in Nat /\ elt.e \in Nat
    BY RangeIs
  <2>2. QED
    BY <1>2, <1>3, <2>1 DEF Longer
<1> HIDE DEF L, F, ch
<1>4. F \subseteq L
  BY <1>1
<1>5. ASSUME NEW k \in L PROVE \E j \in F : ch(j) = ch(k)
  <2> DEFINE S == {j \in L : ch(j) = ch(k)}
  <2>1. k \in S /\ S \subseteq Nat
    BY <1>2
  <2> HIDE DEF S
  <2>2. PICK j \in S : \A i \in S : j <= i
    BY <2>1, LeastIs
  <2>3. j \in L /\ ch(j) = ch(k) /\ j \in Nat
    BY <1>2 DEF S
  <2>4. j - 1 \notin S
    BY <2>2, <2>3
  <2>5. j - 1 \in L => ch(j - 1) # ch(j)
    BY <2>3, <2>4 DEF S
  <2>6. QED
    BY <1>1, <2>3, <2>5
<1>6. ASSUME NEW j \in F, NEW k \in F, j < k PROVE ch(j) < ch(k)
  <2>1. j \in L /\ k \in L /\ j \in Nat /\ k \in Nat
    BY <1>2, <1>4
  <2>2. k - 1 \in Nat /\ j <= k - 1 /\ k - 1 <= k
    BY <1>6, <2>1
  <2>3. k - 1 \in L
    BY <1>3, <2>1, <2>2
  <2>4. ch(j) <= ch(k - 1) /\ ch(k - 1) <= ch(k) /\ ch(k - 1) # ch(k)
    BY <1>1, <1>2, <2>1, <2>2, <2>3
  <2>5. QED
    BY <1>2, <2>1, <2>3, <2>4
<1>7. QED
  BY <1>4, <1>5, <1>6 DEF L, F, ch

\* A child's range is of the keys that have its longer prefix.
LEMMA ChildCovers ==
    ASSUME Ordered, NEW elt, Covers(elt), NEW j \in Firsts(elt)
    PROVE  /\ Covers(ChildOf(elt, j)) /\ ChildOf(elt, j) \in [s : Nat, e : Nat, col : Nat]
           /\ ChildOf(elt, j).s = j /\ ChildOf(elt, j).col = elt.col + 1
           /\ j \in elt.s .. elt.e - 1
<1> DEFINE L == Longer(elt)
           F == Firsts(elt)
           ch(k) == NextChar(elt, k)
           later == {k \in F : k > j}
           end == IF later = {} THEN elt.e ELSE CHOOSE k \in later : \A l \in later : k <= l
           s == elt.s
           e == elt.e
           c == elt.col
<1>1. ChildOf(elt, j) = [s |-> j, col |-> c + 1, e |-> end]
  BY DEF ChildOf
<1>2. /\ F = {k \in L : k - 1 \in L => ch(k - 1) # ch(k)}
      /\ j \in F
  BY DEF Firsts, NextChar
<1>3. /\ s \in Nat \ {0} /\ e \in Nat /\ c \in Nat
      /\ L \subseteq s .. e - 1
      /\ \A k \in s .. e - 1 : /\ k \in DOMAIN keys /\ k \in Nat \ {0} /\ keys[k] \in Seq(Nat)
                               /\ Len(keys[k]) \in Nat /\ Len(keys[k]) >= c
                               /\ Agree(keys[k], keys[s], c)
                               /\ k \in L <=> Len(keys[k]) > c
      /\ \A k \in L : ch(k) \in Nat
      /\ \A i, k \in L : i <= k => ch(i) <= ch(k)
  BY RangeIs
<1>4. /\ s \in DOMAIN keys /\ e \in 1 .. Len(keys) + 1
      /\ \A k \in DOMAIN keys : k \in s .. e - 1 <=> Len(keys[k]) >= c /\ Agree(keys[k], keys[s], c)
  BY DEF Covers
<1>5. \A k : ch(k) = keys[k][c + 1]
  BY DEF NextChar
<1>6. ASSUME NEW i \in L, NEW k \in Nat, i <= k, k <= e - 1 PROVE k \in L
  BY <1>3, <1>6 DEF Longer
<1>7. \A k \in F : k \in L /\ k \in Nat
  BY <1>2, <1>3
<1>8. \A i, k \in F : i < k => ch(i) < ch(k)
  BY FirstsAre
<1>9. keys \in Seq(Seq(Nat))
  BY DEF Ordered
<1> HIDE DEF L, F, ch, s, e, c
<1>10. /\ end \in Nat /\ j < end /\ end <= e
       /\ end \in F \/ end = e
       /\ \A k \in F : k > j => end <= k
  <2>1. j \in Nat /\ j \in L /\ j < e
    BY <1>2, <1>3, <1>7
  <2>2. CASE later = {}
    <3>1. end = e
      BY <2>2 DEF e
    <3>2. \A k \in F : ~(k > j)
      BY <2>2
    <3> HIDE DEF end
    <3>3. QED
      BY <1>3, <2>1, <3>1, <3>2
  <2>3. CASE later # {}
    <3>1. later \subseteq Nat
      BY <1>7
    <3>2. \E k \in later : \A l \in later : k <= l
      <4> HIDE DEF later
      <4>1. QED
        BY <2>3, <3>1, LeastIs
    <3>3. end = CHOOSE k \in later : \A l \in later : k <= l
      BY <2>3
    <3> HIDE DEF later, end
    <3>4. end \in later /\ \A l \in later : end <= l
      BY <3>2, <3>3
    <3>5. end \in F /\ end > j /\ \A k \in F : k > j => end <= k
      BY <3>4 DEF later
    <3>6. end \in L /\ end \in Nat
      BY <1>7, <3>5
    <3>7. end <= e
      BY <1>3, <3>6
    <3>8. QED
      BY <2>1, <3>5, <3>6, <3>7
  <2>4. QED
    BY <2>2, <2>3
<1> HIDE DEF later, end
<1>11. j \in L /\ j \in Nat /\ j \in s .. e - 1 /\ j \in DOMAIN keys /\ Len(keys[j]) > c
  BY <1>2, <1>3, <1>7
<1>12. ASSUME NEW k \in L PROVE k \in j .. end - 1 <=> ch(k) = ch(j)
  <2>1. k \in Nat /\ k \in s .. e - 1
    BY <1>3
  <2>2. ASSUME k \in j .. end - 1, ch(k) # ch(j) PROVE FALSE
    <3> DEFINE S == {i \in L : i >= j /\ ch(i) # ch(j)}
    <3>1. k \in S /\ S \subseteq Nat
      <4>1. \A i \in L : i \in Nat
        BY <1>3
      <4>2. k >= j
        BY <1>10, <1>11, <2>1, <2>2
      <4>3. QED
        BY <2>2, <4>1, <4>2
    <3> HIDE DEF S
    <3>2. PICK f \in S : \A i \in S : f <= i
      BY <3>1, LeastIs
    <3>3. f \in L /\ f \in Nat /\ f >= j /\ ch(f) # ch(j) /\ f <= k
      BY <1>3, <3>1, <3>2 DEF S
    <3>4. f # j
      BY <3>3
    <3>5. PICK g \in Nat : f = g + 1 /\ g = f - 1 /\ j <= g /\ g < f /\ g <= e - 1
      <4>1. f - 1 \in Nat /\ f = (f - 1) + 1 /\ j <= f - 1 /\ f - 1 < f /\ f - 1 <= e - 1
        BY <1>3, <1>11, <2>1, <3>3, <3>4
      <4>2. QED
        BY <4>1
    <3>6. g \in L /\ g \notin S
      BY <1>6, <1>11, <3>2, <3>3, <3>5
    <3>7. ch(g) = ch(j)
      BY <3>5, <3>6 DEF S
    <3>8. f \in F /\ f > j
      BY <1>2, <1>11, <3>3, <3>4, <3>5, <3>7
    <3>9. end <= f
      BY <1>10, <3>8
    <3>10. QED
      BY <1>10, <1>11, <2>1, <2>2, <3>3, <3>9
  <2>3. ASSUME ch(k) = ch(j), k < j PROVE FALSE
    <3>1. PICK g \in Nat : j = g + 1 /\ g = j - 1 /\ k <= g /\ g < j /\ g <= e - 1
      <4>1. j - 1 \in Nat /\ j = (j - 1) + 1 /\ k <= j - 1 /\ j - 1 < j /\ j - 1 <= e - 1
        BY <1>3, <1>11, <2>1, <2>3
      <4>2. QED
        BY <4>1
    <3>2. g \in L
      BY <1>6, <3>1
    <3>3. ch(k) <= ch(g) /\ ch(g) <= ch(j) /\ ch(g) # ch(j)
      <4>1. k <= g /\ g <= j
        BY <1>11, <2>1, <3>1
      <4>2. ch(k) <= ch(g) /\ ch(g) <= ch(j)
        BY <1>3, <1>11, <3>2, <4>1
      <4>3. ch(g) # ch(j)
        BY <1>2, <3>1, <3>2
      <4>4. QED
        BY <4>2, <4>3
    <3>4. QED
      BY <1>3, <1>11, <2>3, <3>2, <3>3
  <2>4. ASSUME ch(k) = ch(j), end <= k PROVE FALSE
    <3>1. end \in F
      BY <1>3, <1>10, <2>1, <2>4
    <3>2. ch(j) < ch(end) /\ end \in L
      BY <1>2, <1>7, <1>8, <1>10, <3>1
    <3>3. ch(end) <= ch(k)
      BY <1>3, <2>4, <3>2
    <3>4. QED
      BY <1>3, <1>11, <2>4, <3>2, <3>3
  <2>5. QED
    BY <1>10, <1>11, <2>1, <2>2, <2>3, <2>4
<1>13. ASSUME NEW k \in DOMAIN keys
       PROVE  k \in j .. end - 1 <=> Len(keys[k]) >= c + 1 /\ Agree(keys[k], keys[j], c + 1)
  <2>1. k \in Nat /\ Len(keys[k]) \in Nat
    BY <1>9
  <2>2. ASSUME k \in j .. end - 1
        PROVE  Len(keys[k]) >= c + 1 /\ Agree(keys[k], keys[j], c + 1)
    <3>1. k \in L
      BY <1>3, <1>6, <1>10, <1>11, <2>1, <2>2
    <3>2. ch(k) = ch(j)
      BY <1>12, <2>2, <3>1
    <3>3. k \in s .. e - 1 /\ Len(keys[k]) > c
      BY <1>3, <3>1
    <3>4. Agree(keys[k], keys[s], c) /\ Agree(keys[j], keys[s], c)
      BY <1>3, <1>11, <3>3
    <3>5. keys[k][c + 1] = keys[j][c + 1]
      BY <1>5, <3>2
    <3>6. Agree(keys[k], keys[j], c + 1)
      <4>1. SUFFICES ASSUME NEW i \in 1 .. c + 1 PROVE keys[k][i] = keys[j][i]
        BY DEF Agree
      <4>2. i \in 1 .. c \/ i = c + 1
        BY <1>3
      <4>3. QED
        BY <3>4, <3>5, <4>2 DEF Agree
    <3>7. QED
      BY <1>3, <2>1, <3>3, <3>6
  <2>3. ASSUME Len(keys[k]) >= c + 1, Agree(keys[k], keys[j], c + 1)
        PROVE  k \in j .. end - 1
    <3>1. Agree(keys[j], keys[s], c)
      BY <1>3, <1>11
    <3>2. \A i \in 1 .. c : i \in 1 .. c + 1
      BY <1>3
    <3>3. Agree(keys[k], keys[s], c)
      BY <2>3, <3>1, <3>2 DEF Agree
    <3>4. k \in s .. e - 1
      BY <1>3, <1>4, <2>1, <2>3, <3>3
    <3>5. k \in L
      BY <1>3, <2>1, <2>3, <3>4
    <3>6. c + 1 \in 1 .. c + 1
      BY <1>3
    <3>7. ch(k) = ch(j)
      BY <1>5, <2>3, <3>6 DEF Agree
    <3>8. QED
      BY <1>12, <3>5, <3>7
  <2>4. QED
    BY <2>2, <2>3
<1>14. QED
  <2> DEFINE child == ChildOf(elt, j)
  <2>1. child.s = j /\ child.col = c + 1 /\ child.e = end /\ child = [s |-> j, col |-> c + 1, e |-> end]
    BY <1>1 DEF c
  <2> HIDE DEF child
  <2>2. end \in 1 .. Len(keys) + 1 /\ c + 1 \in 0 .. Len(keys[j]) /\ c + 1 \in Nat
    <3>1. end \in Nat /\ end >= 1 /\ end <= e /\ e \in Nat /\ e <= Len(keys) + 1 /\ Len(keys) \in Nat
      BY <1>4, <1>9, <1>10, <1>11
    <3>2. Len(keys[j]) \in Nat /\ c + 1 <= Len(keys[j]) /\ c + 1 \in Nat
      BY <1>3, <1>11
    <3>3. QED
      BY <3>1, <3>2
  <2>3. Covers(child)
    BY <1>11, <1>13, <2>1, <2>2 DEF Covers
  <2>4. child \in [s : Nat, e : Nat, col : Nat]
    BY <1>10, <1>11, <2>1, <2>2
  <2>5. QED
    BY <1>11, <2>1, <2>3, <2>4 DEF child, s, e, c

-----------------------------------------------------------------------------
(* What a key means for a name                                             *)

\* A text read backwards.
LEMMA ReverseIs ==
    ASSUME NEW s \in Seq(Nat)
    PROVE  /\ Reverse(s) \in Seq(Nat) /\ Len(Reverse(s)) = Len(s)
           /\ \A i \in 1 .. Len(s) : Reverse(s)[i] = s[Len(s) - i + 1]
<1>1. Reverse(s) = [i \in 1 .. Len(s) |-> s[(Len(s) - i) + 1]]
  BY DEF Reverse
<1>2. \A i \in 1 .. Len(s) : (Len(s) - i) + 1 \in 1 .. Len(s)
  OBVIOUS
<1>3. \A i \in 1 .. Len(s) : s[(Len(s) - i) + 1] \in Nat
  BY <1>2
<1>4. QED
  BY <1>1, <1>3

\* Different texts are different backwards.
LEMMA ReverseOnce ==
    ASSUME NEW s \in Seq(Nat), NEW t \in Seq(Nat), Reverse(s) = Reverse(t)
    PROVE  s = t
<1>1. Len(s) = Len(t) /\ Len(s) \in Nat
  BY ReverseIs
<1>2. ASSUME NEW i \in 1 .. Len(s) PROVE s[i] = t[i]
  <2>1. PICK j \in 1 .. Len(s) : i = Len(s) - j + 1
    <3>1. Len(s) - i + 1 \in 1 .. Len(s) /\ i = Len(s) - (Len(s) - i + 1) + 1
      BY <1>1
    <3>2. QED
      BY <3>1
  <2>2. Reverse(s)[j] = s[i] /\ Reverse(t)[j] = t[i]
    <3>1. Reverse(s)[j] = s[Len(s) - j + 1]
      BY ReverseIs
    <3>2. Reverse(t)[j] = t[Len(t) - j + 1]
      BY <1>1, ReverseIs
    <3>3. QED
      BY <1>1, <2>1, <3>1, <3>2
  <2>3. QED
    BY <2>2
<1>3. QED
  BY <1>1, <1>2

\* What a text with a first character is backwards.
LEMMA ReverseCons ==
    ASSUME NEW x \in Nat, NEW d \in Seq(Nat)
    PROVE  /\ Reverse(<<x>> \o d) \in Seq(Nat) /\ Len(Reverse(<<x>> \o d)) = Len(d) + 1
           /\ Agree(Reverse(<<x>> \o d), Reverse(d), Len(d))
           /\ Reverse(<<x>> \o d)[Len(d) + 1] = x
<1> DEFINE t == <<x>> \o d
           n == Len(d)
<1>1. /\ t \in Seq(Nat) /\ Len(t) = n + 1 /\ n \in Nat /\ t[1] = x
      /\ \A k \in 1 .. n : t[k + 1] = d[k]
  OBVIOUS
<1> HIDE DEF t
<1>2. /\ Reverse(t) \in Seq(Nat) /\ Len(Reverse(t)) = n + 1
      /\ \A i \in 1 .. n + 1 : Reverse(t)[i] = t[(n + 1) - i + 1]
  <2>1. t \in Seq(Nat) /\ Len(t) = n + 1
    BY <1>1
  <2>2. /\ Reverse(t) \in Seq(Nat) /\ Len(Reverse(t)) = Len(t)
        /\ \A i \in 1 .. Len(t) : Reverse(t)[i] = t[Len(t) - i + 1]
    BY <2>1, ReverseIs
  <2>3. QED
    BY <2>1, <2>2
<1>3. \A i \in 1 .. n : Reverse(d)[i] = d[n - i + 1]
  BY ReverseIs
<1> HIDE DEF n
<1>4. ASSUME NEW i \in 1 .. n PROVE Reverse(t)[i] = Reverse(d)[i]
  <2>1. n - i + 1 \in 1 .. n /\ (n + 1) - i + 1 = (n - i + 1) + 1 /\ i \in 1 .. n + 1
    BY <1>1
  <2>2. t[(n + 1) - i + 1] = d[n - i + 1]
    BY <1>1, <2>1
  <2>3. QED
    BY <1>2, <1>3, <2>1, <2>2
<1>5. Reverse(t)[n + 1] = x
  <2>1. n + 1 \in 1 .. n + 1 /\ (n + 1) - (n + 1) + 1 = 1
    BY <1>1
  <2>2. Reverse(t)[n + 1] = t[(n + 1) - (n + 1) + 1]
    BY <1>2, <2>1
  <2>3. QED
    BY <1>1, <2>1, <2>2
<1>6. QED
  BY <1>1, <1>2, <1>4, <1>5 DEF Agree, t, n

\* The first part of a text.
LEMMA FirstPart ==
    ASSUME NEW s \in Seq(Nat), NEW n \in Nat, n <= Len(s)
    PROVE  /\ SubSeq(s, 1, n) \in Seq(Nat) /\ Len(SubSeq(s, 1, n)) = n
           /\ \A i \in 1 .. n : SubSeq(s, 1, n)[i] = s[i]
<1>1. n \in Int /\ 1 \in Int /\ (IF 1 <= n THEN n - 1 + 1 ELSE 0) = n /\ n - 1 + 1 = n
  OBVIOUS
<1>2. \A i \in 1 .. n : s[i] \in Nat /\ 1 + i - 1 = i
  OBVIOUS
<1>3. /\ SubSeq(s, 1, n) \in Seq(Nat)
      /\ Len(SubSeq(s, 1, n)) = IF 1 <= n THEN n - 1 + 1 ELSE 0
      /\ \A i \in 1 .. n - 1 + 1 : SubSeq(s, 1, n)[i] = s[1 + i - 1]
  BY <1>1, <1>2, SubSeqProperties
<1>4. QED
  BY <1>1, <1>2, <1>3

\* A suffix of a text, backwards.
LEMMA SuffixIs ==
    ASSUME NEW s \in Seq(Nat), NEW t \in Seq(Nat)
    PROVE  IsSuffix(s, t) <=> Len(s) <= Len(t) /\ Agree(Reverse(s), Reverse(t), Len(s))
<1> DEFINE u == Reverse(s)
           v == Reverse(t)
           n == Len(s)
           m == Len(t)
<1>1. u \in Seq(Nat) /\ v \in Seq(Nat) /\ Len(u) = n /\ Len(v) = m /\ n \in Nat /\ m \in Nat
  BY ReverseIs
<1>2. IsSuffix(s, t) <=> Len(u) <= Len(v) /\ SubSeq(u, 1, Len(u)) = SubSeq(v, 1, Len(u))
  BY DEF IsSuffix, IsPrefix
<1> HIDE DEF u, v, n, m
<1>3. ASSUME n <= m PROVE SubSeq(u, 1, n) = SubSeq(v, 1, n) <=> Agree(u, v, n)
  <2>1. /\ SubSeq(u, 1, n) \in Seq(Nat) /\ SubSeq(v, 1, n) \in Seq(Nat)
        /\ Len(SubSeq(u, 1, n)) = n /\ Len(SubSeq(v, 1, n)) = n
        /\ \A i \in 1 .. n : SubSeq(u, 1, n)[i] = u[i] /\ SubSeq(v, 1, n)[i] = v[i]
    BY <1>1, <1>3, FirstPart
  <2>2. ASSUME Agree(u, v, n) PROVE SubSeq(u, 1, n) = SubSeq(v, 1, n)
    <3> DEFINE a == SubSeq(u, 1, n)
               b == SubSeq(v, 1, n)
    <3>1. \A i \in 1 .. n : a[i] = b[i]
      BY <2>1, <2>2 DEF Agree
    <3>2. a \in Seq(Nat) /\ b \in Seq(Nat) /\ Len(a) = n /\ Len(b) = n
      BY <2>1
    <3> HIDE DEF a, b
    <3>3. a = b
      BY <1>1, <3>1, <3>2
    <3>4. QED
      BY <3>3 DEF a, b
  <2>3. ASSUME SubSeq(u, 1, n) = SubSeq(v, 1, n) PROVE Agree(u, v, n)
    BY <2>1, <2>3 DEF Agree
  <2>4. QED
    BY <2>2, <2>3
<1>4. QED
  BY <1>1, <1>2, <1>3 DEF u, v, n, m

\* When a key matches a name read backwards.
Hit(K, R) ==
    LET m == Len(K) - 1
    IN  \/ K = R
        \/ /\ m \in 0 .. Len(R) /\ Agree(K, R, m)
           /\ \/ K[m + 1] = PrefixLabel
              \/ K[m + 1] = RootLabel /\ (m = Len(R) \/ R[m + 1] = Dot)

\* The key of a suffix.
LEMMA SuffixKeyIs ==
    ASSUME NEW s \in Text
    PROVE  /\ s \in Seq(Nat) /\ SuffixKey(s) \in Seq(Nat) /\ Len(SuffixKey(s)) = Len(s) + 1 /\ Len(s) \in Nat
           /\ Agree(SuffixKey(s), Reverse(s), Len(s))
           /\ SuffixKey(s)[Len(s) + 1] = (IF s # <<>> /\ s[1] = Dot THEN PrefixLabel ELSE RootLabel)
<1>1. s \in Seq(Nat) /\ Len(s) \in Nat
  BY DEF Text
<1> DEFINE x == IF s # <<>> /\ s[1] = Dot THEN PrefixLabel ELSE RootLabel
<1>2. x \in Nat
  BY DEF PrefixLabel, RootLabel
<1>3. SuffixKey(s) = Reverse(<<x>> \o s)
  BY DEF SuffixKey
<1> HIDE DEF x
<1>4. /\ SuffixKey(s) \in Seq(Nat) /\ Len(SuffixKey(s)) = Len(s) + 1
      /\ Agree(SuffixKey(s), Reverse(s), Len(s))
      /\ SuffixKey(s)[Len(s) + 1] = x
  BY <1>1, <1>2, <1>3, ReverseCons
<1>5. QED
  BY <1>1, <1>4 DEF x

\* A name backwards has no labels in it.
LEMMA TextBackwards ==
    ASSUME NEW d \in Text
    PROVE  /\ d \in Seq(Nat) /\ Reverse(d) \in Seq(Nat) /\ Len(Reverse(d)) = Len(d) /\ Len(d) \in Nat
           /\ \A i \in 1 .. Len(d) : Reverse(d)[i] # RootLabel /\ Reverse(d)[i] # PrefixLabel
<1> DEFINE S == Nat \ {RootLabel, PrefixLabel}
<1>1. d \in Seq(S) /\ d \in Seq(Nat) /\ Len(d) \in Nat
  BY DEF Text
<1> HIDE DEF S
<1>2. /\ Reverse(d) \in Seq(Nat) /\ Len(Reverse(d)) = Len(d)
      /\ \A i \in 1 .. Len(d) : Reverse(d)[i] = d[Len(d) - i + 1]
  BY <1>1, ReverseIs
<1>3. ASSUME NEW i \in 1 .. Len(d) PROVE Reverse(d)[i] \in S
  <2>1. Len(d) - i + 1 \in 1 .. Len(d)
    BY <1>1
  <2>2. d[Len(d) - i + 1] \in S
    BY <1>1, <2>1
  <2>3. QED
    BY <1>2, <2>2
<1>4. QED
  BY <1>1, <1>2, <1>3 DEF S

\* The key of a suffix matches the names that the suffix means.
LEMMA SuffixHit ==
    ASSUME NEW s \in Text, NEW d \in Text
    PROVE  Hit(SuffixKey(s), Reverse(d)) <=>
               IF s # <<>> /\ s[1] = Dot THEN IsSuffix(s, d)
               ELSE d = s \/ IsSuffix(<<Dot>> \o s, d)
<1> DEFINE K == SuffixKey(s)
           R == Reverse(d)
           n == Len(s)
           dotted == s # <<>> /\ s[1] = Dot
<1>1. /\ s \in Seq(Nat) /\ K \in Seq(Nat) /\ Len(K) = n + 1 /\ n \in Nat
      /\ Agree(K, Reverse(s), n)
      /\ K[n + 1] = IF dotted THEN PrefixLabel ELSE RootLabel
  BY SuffixKeyIs
<1>2. /\ d \in Seq(Nat) /\ R \in Seq(Nat) /\ Len(R) = Len(d) /\ Len(d) \in Nat
      /\ \A i \in 1 .. Len(R) : R[i] # RootLabel /\ R[i] # PrefixLabel
  BY TextBackwards
<1>3. Agree(K, R, n) <=> Agree(Reverse(s), R, n)
  BY <1>1 DEF Agree
<1>4. IsSuffix(s, d) <=> n <= Len(R) /\ Agree(K, R, n)
  BY <1>1, <1>2, <1>3, SuffixIs
<1>5. d = s <=> n = Len(R) /\ Agree(K, R, n)
  <2>1. d = s => n = Len(R) /\ Agree(Reverse(s), R, n)
    BY <1>2 DEF Agree
  <2>2. ASSUME n = Len(R), Agree(Reverse(s), R, n) PROVE d = s
    <3>1. Reverse(s) \in Seq(Nat) /\ Len(Reverse(s)) = n
      BY <1>1, ReverseIs
    <3> DEFINE Q == Reverse(s)
    <3> HIDE DEF Q, R, n
    <3>2. Q = R
      <4>1. \A i \in 1 .. n : Q[i] = R[i]
        BY <2>2 DEF Agree, Q
      <4>2. Q \in Seq(Nat) /\ R \in Seq(Nat) /\ Len(Q) = n /\ Len(R) = n
        BY <1>2, <2>2, <3>1 DEF Q
      <4>3. QED
        BY <4>1, <4>2
    <3>3. QED
      BY <1>1, <1>2, <3>2, ReverseOnce DEF Q, R
  <2>3. QED
    BY <1>3, <2>1, <2>2
<1>6. IsSuffix(<<Dot>> \o s, d) <=> n + 1 <= Len(R) /\ Agree(K, R, n) /\ R[n + 1] = Dot
  <2> DEFINE t == <<Dot>> \o s
             V == Reverse(t)
  <2>1. t \in Seq(Nat) /\ Len(t) = n + 1
    BY <1>1 DEF Dot
  <2>2. V \in Seq(Nat) /\ Len(V) = n + 1 /\ Agree(V, Reverse(s), n) /\ V[n + 1] = Dot
    BY <1>1, ReverseCons DEF Dot
  <2>3. IsSuffix(t, d) <=> n + 1 <= Len(R) /\ Agree(V, R, n + 1)
    <3> HIDE DEF t
    <3>1. IsSuffix(t, d) <=> Len(t) <= Len(d) /\ Agree(V, R, Len(t))
      BY <1>2, <2>1, SuffixIs
    <3>2. QED
      BY <1>2, <2>1, <3>1
  <2> HIDE DEF V, t, R, K, n
  <2>4. Agree(V, R, n + 1) <=> Agree(V, R, n) /\ V[n + 1] = R[n + 1]
    <3>1. \A i \in 1 .. n + 1 : i \in 1 .. n \/ i = n + 1
      BY <1>1
    <3>2. n + 1 \in 1 .. n + 1 /\ \A i \in 1 .. n : i \in 1 .. n + 1
      BY <1>1
    <3>3. QED
      BY <3>1, <3>2 DEF Agree
  <2>5. Agree(V, R, n) <=> Agree(Reverse(s), R, n)
    BY <2>2 DEF Agree
  <2>6. IsSuffix(t, d) <=> n + 1 <= Len(R) /\ Agree(K, R, n) /\ R[n + 1] = Dot
    BY <1>3, <2>2, <2>3, <2>4, <2>5
  <2>7. QED
    BY <2>6 DEF t
<1>7. K # R
  <2>1. SUFFICES ASSUME K = R PROVE FALSE
    OBVIOUS
  <2>2. n + 1 \in 1 .. Len(R)
    BY <1>1, <1>2, <2>1
  <2>3. QED
    BY <1>1, <1>2, <2>1, <2>2
<1>8. Hit(K, R) <=> /\ n \in 0 .. Len(R) /\ Agree(K, R, n)
                    /\ \/ K[n + 1] = PrefixLabel
                       \/ K[n + 1] = RootLabel /\ (n = Len(R) \/ R[n + 1] = Dot)
  <2>1. Len(K) - 1 = n
    BY <1>1
  <2>2. QED
    BY <1>7, <2>1 DEF Hit
<1>9. RootLabel # PrefixLabel
  BY DEF RootLabel, PrefixLabel
<1> HIDE DEF K, R, n
<1>10. CASE dotted
  BY <1>1, <1>2, <1>4, <1>8, <1>9, <1>10 DEF K, R
<1>11. CASE ~dotted
  <2>1. Hit(K, R) <=> n \in 0 .. Len(R) /\ Agree(K, R, n) /\ (n = Len(R) \/ R[n + 1] = Dot)
    BY <1>1, <1>8, <1>9, <1>11
  <2>2. n \in 0 .. Len(R) <=> n = Len(R) \/ n + 1 <= Len(R)
    BY <1>1, <1>2
  <2>3. ASSUME n + 1 > Len(R), n \in 0 .. Len(R) PROVE n = Len(R)
    BY <1>1, <1>2, <2>3
  <2>4. Hit(K, R) <=> d = s \/ IsSuffix(<<Dot>> \o s, d)
    BY <1>1, <1>2, <1>5, <1>6, <2>1, <2>2
  <2>5. QED
    BY <1>11, <2>4 DEF K, R
<1>12. QED
  BY <1>10, <1>11

\* The key of an exact name matches that name.
LEMMA ExactHit ==
    ASSUME NEW x \in Text \ {<<>>}, NEW d \in Text
    PROVE  Hit(Reverse(x), Reverse(d)) <=> x = d
<1> DEFINE K == Reverse(x)
           R == Reverse(d)
<1>1. /\ x \in Seq(Nat) /\ K \in Seq(Nat) /\ Len(K) = Len(x) /\ Len(x) \in Nat
      /\ \A i \in 1 .. Len(K) : K[i] # RootLabel /\ K[i] # PrefixLabel
  BY TextBackwards
<1>2. d \in Seq(Nat)
  BY DEF Text
<1>3. Len(K) - 1 + 1 \in 1 .. Len(K)
  BY <1>1
<1> HIDE DEF K, R
<1>4. Hit(K, R) <=> K = R
  BY <1>1, <1>3 DEF Hit
<1>5. QED
  BY <1>1, <1>2, <1>4, ReverseOnce DEF K, R

\* A name is matched when a key matches it backwards.
LEMMA MatchedIs ==
    ASSUME input \in Inputs, NEW d \in Text
    PROVE  Matched(d) <=> \E K \in Keys(input) : Hit(K, Reverse(d))
<1>1. input.exact \subseteq Text \ {<<>>} /\ input.suffix \subseteq Text
  BY TrieAssumption
<1> DEFINE Means(s) == IF s # <<>> /\ s[1] = Dot THEN IsSuffix(s, d) ELSE d = s \/ IsSuffix(<<Dot>> \o s, d)
<1>2. Matched(d) <=> d \in input.exact \/ \E s \in input.suffix : Means(s)
  BY DEF Matched
<1>3. \A s \in input.suffix : Hit(SuffixKey(s), Reverse(d)) <=> Means(s)
  BY <1>1, SuffixHit
<1>4. Means(d)
  <2>1. d \in Seq(Nat) /\ Len(d) \in Nat
    BY DEF Text
  <2>2. IsSuffix(d, d)
    BY <2>1, SuffixIs DEF Agree
  <2>3. QED
    BY <2>2
<1> HIDE DEF Means
<1>5. \A x \in input.exact : Hit(Reverse(x), Reverse(d)) <=> x = d
  BY <1>1, ExactHit
<1>6. ASSUME Matched(d) PROVE \E K \in Keys(input) : Hit(K, Reverse(d))
  <2>1. CASE d \in input.exact \ input.suffix
    <3>1. Reverse(d) \in Keys(input)
      BY <2>1 DEF Keys
    <3>2. QED
      BY <1>5, <2>1, <3>1
  <2>2. CASE d \in input.suffix
    <3>1. SuffixKey(d) \in Keys(input)
      BY <2>2 DEF Keys
    <3>2. QED
      BY <1>3, <1>4, <2>2, <3>1
  <2>3. CASE \E s \in input.suffix : Means(s)
    <3>1. PICK s \in input.suffix : Means(s)
      BY <2>3
    <3>2. SuffixKey(s) \in Keys(input)
      BY DEF Keys
    <3>3. QED
      BY <1>3, <3>1, <3>2
  <2>4. QED
    BY <1>2, <1>6, <2>1, <2>2, <2>3
<1>7. ASSUME NEW K \in Keys(input), Hit(K, Reverse(d)) PROVE Matched(d)
  <2>1. CASE \E s \in input.suffix : K = SuffixKey(s)
    BY <1>2, <1>3, <1>7, <2>1
  <2>2. CASE \E x \in input.exact \ input.suffix : K = Reverse(x)
    BY <1>2, <1>5, <1>7, <2>2
  <2>3. QED
    BY <2>1, <2>2 DEF Keys
<1>8. QED
  BY <1>6, <1>7

\* A key is not empty, and has a label at its end at most.
IsKey(K) ==
    /\ K \in Seq(Nat) /\ Len(K) \in Nat \ {0}
    /\ \A i \in 1 .. Len(K) : K[i] \in {RootLabel, PrefixLabel} => i = Len(K)

\* The keys of a list of patterns.
LEMMA KeysAre ==
    ASSUME NEW lists \in Inputs
    PROVE  /\ IsFiniteSet(Keys(lists)) /\ Keys(lists) \subseteq Seq(Nat)
           /\ \A K \in Keys(lists) : IsKey(K)
<1> DEFINE E == lists.exact \ lists.suffix
           F == lists.suffix
           A == {SuffixKey(d) : d \in F}
           B == {Reverse(d) : d \in E}
<1>1. IsFiniteSet(lists.exact) /\ lists.exact \subseteq Text \ {<<>>} /\ IsFiniteSet(F) /\ F \subseteq Text
  BY TrieAssumption
<1>2. IsFiniteSet(E)
  BY <1>1, FS_Difference
<1>3. Keys(lists) = A \cup B
  BY DEF Keys
<1>4. IsFiniteSet(A)
  <2>1. \A d \in F : SuffixKey(d) \in A
    OBVIOUS
  <2> DEFINE f == [d \in F |-> SuffixKey(d)]
  <2>2. f \in Surjection(F, A)
    BY DEF Surjection
  <2>3. QED
    BY <1>1, <2>2, FS_Surjection
<1>5. IsFiniteSet(B)
  <2> DEFINE f == [d \in E |-> Reverse(d)]
  <2>1. f \in Surjection(E, B)
    BY DEF Surjection
  <2>2. QED
    BY <1>2, <2>1, FS_Surjection
<1>6. IsFiniteSet(A \cup B)
  BY <1>4, <1>5, FS_Union
<1>7. ASSUME NEW d \in F PROVE IsKey(SuffixKey(d))
  <2> DEFINE K == SuffixKey(d)
             n == Len(d)
  <2>1. d \in Text
    BY <1>1
  <2>2. K \in Seq(Nat) /\ Len(K) = n + 1 /\ n \in Nat /\ Agree(K, Reverse(d), n)
    BY <2>1, SuffixKeyIs
  <2>3. \A i \in 1 .. n : Reverse(d)[i] # RootLabel /\ Reverse(d)[i] # PrefixLabel
    BY <2>1, TextBackwards
  <2> HIDE DEF K, n
  <2>4. \A i \in 1 .. Len(K) : i \in 1 .. n \/ i = Len(K)
    BY <2>2
  <2>5. \A i \in 1 .. n : K[i] \notin {RootLabel, PrefixLabel}
    BY <2>2, <2>3 DEF Agree
  <2>6. IsKey(K)
    BY <2>2, <2>4, <2>5 DEF IsKey
  <2>7. QED
    BY <2>6 DEF K
<1>8. ASSUME NEW d \in E PROVE IsKey(Reverse(d))
  <2>1. d \in Text /\ d # <<>>
    BY <1>1
  <2>2. /\ d \in Seq(Nat) /\ Reverse(d) \in Seq(Nat) /\ Len(Reverse(d)) = Len(d) /\ Len(d) \in Nat
        /\ \A i \in 1 .. Len(d) : Reverse(d)[i] # RootLabel /\ Reverse(d)[i] # PrefixLabel
    BY <2>1, TextBackwards
  <2>3. Len(d) # 0
    BY <2>1, <2>2
  <2>4. QED
    BY <2>2, <2>3 DEF IsKey
<1>9. \A K \in A \cup B : IsKey(K)
  BY <1>7, <1>8
<1>10. QED
  BY <1>3, <1>6, <1>9 DEF IsKey

\* The list of keys is ordered, and has the keys in it.
LEMMA KeyListIs ==
    ASSUME input \in Inputs, keys = Sorted(Keys(input))
    PROVE  /\ Ordered
           /\ \A j \in DOMAIN keys : keys[j] \in Keys(input) /\ IsKey(keys[j]) /\ keys[j] \in Seq(Nat)
           /\ \A K \in Keys(input) : \E j \in DOMAIN keys : keys[j] = K
<1> DEFINE S == Keys(input)
<1>1. IsFiniteSet(S) /\ S \subseteq Seq(Nat) /\ \A K \in S : IsKey(K)
  BY KeysAre
<1>2. keys = Sorted(S)
  OBVIOUS
<1> HIDE DEF S
<1>3. /\ keys \in Seq(S)
      /\ \A j, k \in DOMAIN keys : j < k => LessThan(keys[j], keys[k])
      /\ \A K \in S : \E j \in DOMAIN keys : keys[j] = K
  BY <1>1, <1>2, SortedIs
<1>4. \A j \in DOMAIN keys : keys[j] \in S
  BY <1>3
<1>5. keys \in Seq(Seq(Nat))
  <2>1. keys = [j \in 1 .. Len(keys) |-> keys[j]] /\ Len(keys) \in Nat /\ DOMAIN keys = 1 .. Len(keys)
    BY <1>3
  <2>2. \A j \in 1 .. Len(keys) : keys[j] \in Seq(Nat)
    BY <1>1, <1>4, <2>1
  <2>3. QED
    BY <2>1, <2>2
<1>6. QED
  BY <1>1, <1>3, <1>4, <1>5 DEF Ordered, S

-----------------------------------------------------------------------------
(* Laying out a node                                                       *)

\* The list u is s with the m elements of t after it.
Extended(u, s, m, t, S) ==
    /\ u \in Seq(S) /\ Len(u) = Len(s) + m
    /\ \A n \in 1 .. Len(s) : u[n] = s[n]
    /\ \A k \in 1 .. m : u[Len(s) + k] = t[k]

\* What a list with another one after it is.
LEMMA AppendedIs ==
    ASSUME NEW S, NEW s \in Seq(S), NEW m \in Nat, NEW t \in [1 .. m -> S]
    PROVE  Extended(s \o t, s, m, t, S)
<1>1. t \in Seq(S) /\ Len(t) = m /\ Len(s) \in Nat
  OBVIOUS
<1>2. /\ s \o t \in Seq(S) /\ Len(s \o t) = Len(s) + Len(t)
      /\ \A i \in 1 .. Len(s) + Len(t) : (s \o t)[i] = IF i <= Len(s) THEN s[i] ELSE t[i - Len(s)]
  BY <1>1, ConcatProperties
<1>3. ASSUME NEW n \in 1 .. Len(s) PROVE (s \o t)[n] = s[n]
  <2>1. n \in 1 .. Len(s) + Len(t) /\ n <= Len(s)
    BY <1>1
  <2>2. QED
    BY <1>2, <2>1
<1>4. ASSUME NEW k \in 1 .. m PROVE (s \o t)[Len(s) + k] = t[k]
  <2>1. Len(s) + k \in 1 .. Len(s) + Len(t) /\ ~(Len(s) + k <= Len(s)) /\ (Len(s) + k) - Len(s) = k
    BY <1>1
  <2>2. QED
    BY <1>2, <2>1
<1>5. QED
  BY <1>1, <1>2, <1>3, <1>4 DEF Extended

\* The bitmap with one node more: 0s for its edges, and a 1.
NodeBits(bm, m) == bm \o [k \in 1 .. m |-> 0] \o <<1>>

\* What it adds to the bitmap.
LEMMA BitmapGrows ==
    ASSUME NEW bm \in Seq({0, 1}), NEW m \in Nat, NEW cm, cm = NodeBits(bm, m)
    PROVE  /\ cm \in Seq({0, 1}) /\ Len(cm) = Len(bm) + m + 1
           /\ \A p \in 0 .. Len(bm) - 1 : Bit(cm, p) = Bit(bm, p)
           /\ \A p \in Len(bm) .. Len(bm) + m - 1 : Bit(cm, p) = 0
           /\ Bit(cm, Len(bm) + m) = 1
           /\ \A p \in 0 .. Len(bm) : Ones(cm, 0, p) = Ones(bm, 0, p)
           /\ \A p \in Len(bm) .. Len(bm) + m : Ones(cm, 0, p) = Ones(bm, 0, Len(bm))
           /\ Ones(cm, 0, Len(cm)) = Ones(bm, 0, Len(bm)) + 1
<1> DEFINE n == Len(bm)
           zeros == [k \in 1 .. m |-> 0]
           am == bm \o zeros
<1>1. n \in Nat
  OBVIOUS
<1>2. /\ am \in Seq({0, 1}) /\ Len(am) = n + m
      /\ \A k \in 1 .. n : am[k] = bm[k]
      /\ \A k \in 1 .. m : am[n + k] = 0
  <2>1. zeros \in [1 .. m -> {0, 1}] /\ \A k \in 1 .. m : zeros[k] = 0
    OBVIOUS
  <2> HIDE DEF zeros
  <2>2. Extended(bm \o zeros, bm, m, zeros, {0, 1})
    BY <2>1, AppendedIs
  <2>3. QED
    BY <2>1, <2>2 DEF Extended
<1>3. cm = am \o <<1>>
  BY DEF NodeBits
<1> HIDE DEF am, n
<1>4. /\ cm \in Seq({0, 1}) /\ Len(cm) = n + m + 1
      /\ \A k \in 1 .. n + m : cm[k] = am[k]
      /\ cm[n + m + 1] = 1
  BY <1>1, <1>2, <1>3
<1>5. \A p \in 0 .. n - 1 : Bit(cm, p) = Bit(bm, p)
  <2> SUFFICES ASSUME NEW p \in 0 .. n - 1 PROVE Bit(cm, p) = Bit(bm, p)
    OBVIOUS
  <2>1. p + 1 \in 1 .. n /\ p + 1 \in 1 .. n + m /\ p < Len(cm) /\ p < n
    BY <1>1, <1>4
  <2>2. cm[p + 1] = bm[p + 1]
    BY <1>2, <1>4, <2>1
  <2>3. QED
    BY <2>1, <2>2 DEF Bit, n
<1>6. \A p \in n .. n + m - 1 : Bit(cm, p) = 0
  <2> SUFFICES ASSUME NEW p \in n .. n + m - 1 PROVE Bit(cm, p) = 0
    OBVIOUS
  <2>1. PICK k \in 1 .. m : p = n + k - 1
    <3>1. p - n + 1 \in 1 .. m /\ p = n + (p - n + 1) - 1
      BY <1>1
    <3>2. QED
      BY <3>1
  <2>2. p + 1 = n + k /\ n + k \in 1 .. n + m /\ p < Len(cm)
    BY <1>1, <1>4, <2>1
  <2>3. cm[p + 1] = 0
    BY <1>2, <1>4, <2>2
  <2>4. QED
    BY <2>2, <2>3 DEF Bit
<1>7. Bit(cm, n + m) = 1
  <2>1. n + m < Len(cm)
    BY <1>1, <1>4
  <2>2. QED
    BY <1>4, <2>1 DEF Bit
<1>8. ASSUME NEW p \in 0 .. n PROVE Ones(cm, 0, p) = Ones(bm, 0, p)
  <2>1. \A r \in 0 .. p - 1 : Bit(cm, r) = Bit(bm, r)
    <3> TAKE r \in 0 .. p - 1
    <3>1. r \in 0 .. n - 1
      BY <1>1
    <3>2. QED
      BY <1>5, <3>1
  <2>2. p \in Nat
    BY <1>1
  <2>3. QED
    BY <2>1, <2>2, OnesAgree
<1>9. ASSUME NEW p \in n .. n + m PROVE Ones(cm, 0, p) = Ones(bm, 0, n)
  <2>1. p \in Nat /\ n <= p /\ 0 <= n
    BY <1>1
  <2>2. Ones(cm, 0, p) = Ones(cm, 0, n) + Ones(cm, n, p)
    BY <1>1, <2>1, OnesSplit
  <2>3. OnesAt(cm, n, p) = {}
    <3>1. ASSUME NEW r \in n .. p - 1 PROVE Bit(cm, r) # 1
      <4>1. r \in n .. n + m - 1
        BY <1>1, <2>1
      <4>2. Bit(cm, r) = 0
        BY <1>6, <4>1
      <4>3. QED
        BY <4>2
    <3>2. QED
      BY <3>1 DEF OnesAt
  <2>4. Ones(cm, n, p) = 0
    <3>1. Ones(cm, n, p) = Cardinality(OnesAt(cm, n, p))
      BY <1>1, <2>1, OnesAre
    <3>2. QED
      BY <2>3, <3>1, FS_EmptySet
  <2>5. Ones(cm, 0, n) = Ones(bm, 0, n) /\ Ones(bm, 0, n) \in Nat
    <3>1. n \in 0 .. n
      BY <1>1
    <3>2. Ones(cm, 0, n) = Ones(bm, 0, n)
      BY <1>8, <3>1
    <3>3. n \in Int /\ 0 \in Int
      BY <1>1
    <3>4. Ones(bm, 0, n) \in Nat
      BY <3>3, OnesAre
    <3>5. QED
      BY <3>2, <3>4
  <2>6. QED
    BY <2>2, <2>4, <2>5
<1>10. Ones(cm, 0, Len(cm)) = Ones(bm, 0, n) + 1
  <2>1. n + m \in Nat /\ n + m \in n .. n + m /\ 0 <= n + m
    BY <1>1
  <2>2. Ones(cm, 0, (n + m) + 1) = Ones(cm, 0, n + m) + Bit(cm, n + m)
    <3> DEFINE q == n + m
    <3>1. q \in Nat /\ 0 <= q /\ 0 \in Int
      BY <2>1
    <3> HIDE DEF q
    <3>2. Ones(cm, 0, q + 1) = Ones(cm, 0, q) + Bit(cm, q)
      BY <1>4, <3>1, OnesStep
    <3>3. QED
      BY <3>2 DEF q
  <2>3. QED
    BY <1>4, <1>7, <1>9, <2>1, <2>2
<1>11. QED
  BY <1>4, <1>5, <1>6, <1>7, <1>8, <1>9, <1>10 DEF n

\* A position in an edge's range has its node's label and child in place.
LEMMA EdgeIs ==
    ASSUME Shape, EdgesRight, NEW n \in 0 .. node - 1, NEW p \in EdgesOf(n)
    PROVE  /\ p \in Nat /\ p < Len(bitmap) /\ Bit(bitmap, p) = 0 /\ Ones(bitmap, 0, p) = n
           /\ p - n + 1 \in 1 .. Len(labels) /\ p - n + 2 \in 1 .. Len(queue)
<1>1. /\ node \in 0 .. Len(queue) /\ queue \in Seq([s : Nat, e : Nat, col : Nat]) /\ labels \in Seq(Nat)
      /\ bitmap \in Seq({0, 1})
      /\ queue # <<>> => Len(queue) = Len(labels) + 1
  BY DEF Shape
<1>2. p \in Nat /\ p < Len(bitmap) /\ Bit(bitmap, p) = 0 /\ Ones(bitmap, 0, p) = n /\ n \in Nat
  BY <1>1 DEF EdgesOf
<1>3. Ones(bitmap, 0, p) <= p
  <2>1. Ones(bitmap, 0, 0) = 0
    BY OnesAre
  <2>2. 0 \in Nat /\ 0 <= p /\ Ones(bitmap, 0, p) <= Ones(bitmap, 0, 0) + (p - 0)
    BY <1>1, <1>2, OnesGrow
  <2>3. QED
    BY <1>2, <2>1, <2>2
<1>4. p - n + 2 \in DOMAIN queue
  BY DEF EdgesRight
<1>5. p - n + 2 \in 1 .. Len(queue) /\ Len(queue) \in Nat /\ Len(labels) \in Nat /\ queue # <<>>
  <2>1. DOMAIN queue = 1 .. Len(queue) /\ Len(queue) \in Nat
    BY <1>1, LenProperties
  <2>2. Len(labels) \in Nat
    BY <1>1, LenProperties
  <2>3. Len(<<>>) = 0
    BY EmptySeq
  <2>4. Len(queue) > 0
    <3>1. node \in 0 .. Len(queue)
      BY <1>1
    <3>2. n \in 0 .. node - 1
      OBVIOUS
    <3>3. QED
      BY <2>1, <3>1, <3>2
  <2>5. QED
    BY <1>4, <2>1, <2>2, <2>3, <2>4
<1>6. QED
  BY <1>1, <1>2, <1>3, <1>5

\* What a node adds to the trie, the children of its range in order.
Added(elt, edges, m, N) ==
    /\ m \in Nat /\ N \in Nat /\ N < Len(queue) /\ Covers(elt)
    /\ \A k \in 1 .. m : edges[k] \in Firsts(elt) /\ edges[k] \in Longer(elt)
    /\ \A j, k \in 1 .. m : j < k => edges[j] < edges[k]
    /\ \A j \in Firsts(elt) : \E k \in 1 .. m : edges[k] = j
    /\ node' = N + 1 /\ keys' = keys /\ input' = input
    /\ queue' \in Seq([s : Nat, e : Nat, col : Nat]) /\ Len(queue') = Len(queue) + m
    /\ \A n \in 1 .. Len(queue) : queue'[n] = queue[n]
    /\ \A k \in 1 .. m : queue'[Len(queue) + k] = ChildOf(elt, edges[k])
    /\ labels' \in Seq(Nat) /\ Len(labels') = Len(labels) + m
    /\ \A n \in 1 .. Len(labels) : labels'[n] = labels[n]
    /\ \A k \in 1 .. m : labels'[Len(labels) + k] = NextChar(elt, edges[k])
    /\ bitmap' = NodeBits(bitmap, m)

\* A node laid out adds that, with its children in the order of their keys.
LEMMA NodeAdded ==
    ASSUME TrieRight, input \in Inputs, BuildNode,
           NEW elt, elt = queue[node + 1], NEW edges, edges = Ascending(Firsts(elt)),
           NEW m, m = Len(edges), NEW N, N = node
    PROVE  Added(elt, edges, m, N)
<1>1. Shape /\ Ranges
  BY DEF TrieRight
<1>2. /\ keys = Sorted(Keys(input)) /\ node \in 0 .. Len(queue)
      /\ queue \in Seq([s : Nat, e : Nat, col : Nat]) /\ labels \in Seq(Nat)
  BY <1>1 DEF Shape
<1>3. Ordered
  BY <1>2, KeyListIs
<1>4. /\ node < Len(queue) /\ node' = node + 1
      /\ queue' = queue \o [k \in DOMAIN edges |-> ChildOf(elt, edges[k])]
      /\ labels' = labels \o [k \in DOMAIN edges |-> keys[edges[k]][elt.col + 1]]
      /\ bitmap' = bitmap \o [k \in DOMAIN edges |-> 0] \o <<1>>
      /\ keys' = keys /\ input' = input
  BY DEF BuildNode
<1>5. N \in Nat /\ N < Len(queue) /\ N + 1 \in 1 .. Len(queue)
  <2>1. node \in 0 .. Len(queue) /\ node < Len(queue) /\ Len(queue) \in Nat
    BY <1>2, <1>4, LenProperties
  <2>2. QED
    BY <2>1
<1>6. Covers(elt)
  BY <1>1, <1>5 DEF Ranges
<1>7. Firsts(elt) \subseteq Longer(elt) /\ Firsts(elt) \subseteq Nat /\ IsFiniteSet(Firsts(elt))
  <2>1. Firsts(elt) \subseteq Longer(elt) /\ Longer(elt) \subseteq elt.s .. elt.e - 1
    BY <1>3, <1>6, FirstsAre, RangeIs
  <2>2. elt.s \in Nat /\ elt.e \in Nat
    BY <1>3, <1>6, RangeIs
  <2>3. IsFiniteSet(elt.s .. elt.e - 1)
    <3>1. elt.s \in Int /\ elt.e - 1 \in Int
      BY <2>2
    <3>2. QED
      BY <3>1, FS_Interval
  <2>4. Firsts(elt) \in SUBSET (elt.s .. elt.e - 1)
    BY <2>1
  <2>5. QED
    BY <2>1, <2>2, <2>3, <2>4, FS_Subset
<1>8. /\ edges \in Seq(Firsts(elt))
      /\ \A j, k \in DOMAIN edges : j < k => edges[j] < edges[k]
      /\ \A i \in Firsts(elt) : \E k \in DOMAIN edges : edges[k] = i
  BY <1>7, AscendingIs
<1>9. m \in Nat /\ DOMAIN edges = 1 .. m /\ \A k \in 1 .. m : edges[k] \in Firsts(elt) /\ edges[k] \in Longer(elt)
  BY <1>7, <1>8
<1>10. \A k \in 1 .. m : ChildOf(elt, edges[k]) \in [s : Nat, e : Nat, col : Nat]
  BY <1>3, <1>6, <1>9, ChildCovers
<1>11. \A k \in 1 .. m : keys[edges[k]][elt.col + 1] = NextChar(elt, edges[k])
  BY DEF NextChar
<1>12. \A k \in 1 .. m : NextChar(elt, edges[k]) \in Nat
  BY <1>3, <1>6, <1>9, RangeIs
<1>13. /\ queue' \in Seq([s : Nat, e : Nat, col : Nat]) /\ Len(queue') = Len(queue) + m
       /\ \A n \in 1 .. Len(queue) : queue'[n] = queue[n]
       /\ \A k \in 1 .. m : queue'[Len(queue) + k] = ChildOf(elt, edges[k])
  <2> DEFINE t == [k \in 1 .. m |-> ChildOf(elt, edges[k])]
             S == [s : Nat, e : Nat, col : Nat]
  <2>1. t \in [1 .. m -> S] /\ \A k \in 1 .. m : t[k] = ChildOf(elt, edges[k])
    BY <1>10
  <2>2. queue' = queue \o t
    BY <1>4, <1>9
  <2>3. queue \in Seq(S)
    BY <1>2
  <2> HIDE DEF t, S
  <2>4. Extended(queue', queue, m, t, S)
    <3>1. m \in Nat /\ t \in [1 .. m -> S]
      BY <1>9, <2>1
    <3>2. Extended(queue \o t, queue, m, t, S)
      BY <2>3, <3>1, AppendedIs
    <3>3. QED
      BY <2>2, <3>2
  <2>5. QED
    BY <2>1, <2>4 DEF Extended, S
<1>14. /\ labels' \in Seq(Nat) /\ Len(labels') = Len(labels) + m
       /\ \A n \in 1 .. Len(labels) : labels'[n] = labels[n]
       /\ \A k \in 1 .. m : labels'[Len(labels) + k] = NextChar(elt, edges[k])
  <2> DEFINE t == [k \in 1 .. m |-> NextChar(elt, edges[k])]
             S == Nat
  <2>1. t \in [1 .. m -> S] /\ \A k \in 1 .. m : t[k] = NextChar(elt, edges[k])
    BY <1>12
  <2>2. labels' = labels \o t
    BY <1>4, <1>9, <1>11
  <2>3. labels \in Seq(S)
    BY <1>2
  <2> HIDE DEF t, S
  <2>4. Extended(labels', labels, m, t, S)
    <3>1. m \in Nat /\ t \in [1 .. m -> S]
      BY <1>9, <2>1
    <3>2. Extended(labels \o t, labels, m, t, S)
      BY <2>3, <3>1, AppendedIs
    <3>3. QED
      BY <2>2, <3>2
  <2>5. QED
    BY <2>1, <2>4 DEF Extended, S
<1>15. /\ \A j, k \in 1 .. m : j < k => edges[j] < edges[k]
       /\ \A j \in Firsts(elt) : \E k \in 1 .. m : edges[k] = j
  BY <1>8, <1>9
<1>16. node' = N + 1 /\ bitmap' = NodeBits(bitmap, m)
  BY <1>4, <1>9 DEF NodeBits
<1>17. QED
  BY <1>4, <1>5, <1>6, <1>9, <1>13, <1>14, <1>15, <1>16 DEF Added

\* A node laid out keeps the trie right.
LEMMA BuildKeepsTrie ==
    ASSUME TrieRight, input \in Inputs, BuildNode
    PROVE  TrieRight'
<1> DEFINE S == [s : Nat, e : Nat, col : Nat]
<1>1. PICK elt, edges, m, N :
        /\ elt = queue[node + 1] /\ edges = Ascending(Firsts(elt)) /\ m = Len(edges) /\ N = node
  OBVIOUS
<1>2. /\ Shape /\ Ranges /\ EdgesRight /\ EdgesComplete /\ EdgesInOrder /\ LeavesRight
  BY DEF TrieRight
<1>3. /\ m \in Nat /\ N \in Nat /\ N < Len(queue) /\ Covers(elt)
      /\ \A k \in 1 .. m : edges[k] \in Firsts(elt) /\ edges[k] \in Longer(elt)
      /\ \A j, k \in 1 .. m : j < k => edges[j] < edges[k]
      /\ \A j \in Firsts(elt) : \E k \in 1 .. m : edges[k] = j
      /\ node' = N + 1 /\ keys' = keys /\ input' = input
      /\ queue' \in Seq(S) /\ Len(queue') = Len(queue) + m
      /\ \A n \in 1 .. Len(queue) : queue'[n] = queue[n]
      /\ \A k \in 1 .. m : queue'[Len(queue) + k] = ChildOf(elt, edges[k])
      /\ labels' \in Seq(Nat) /\ Len(labels') = Len(labels) + m
      /\ \A n \in 1 .. Len(labels) : labels'[n] = labels[n]
      /\ \A k \in 1 .. m : labels'[Len(labels) + k] = NextChar(elt, edges[k])
      /\ bitmap' = NodeBits(bitmap, m)
  <2>1. Added(elt, edges, m, N)
    BY <1>1, NodeAdded
  <2>2. QED
    BY <2>1 DEF Added
<1>31. /\ m \in Nat /\ N \in Nat /\ N < Len(queue) /\ node' = N + 1 /\ keys' = keys /\ input' = input
       /\ Len(queue') = Len(queue) + m /\ Len(labels') = Len(labels) + m
  BY <1>3
<1>4. /\ keys = Sorted(Keys(input)) /\ queue \in Seq(S) /\ labels \in Seq(Nat)
      /\ queue = <<>> <=> keys = <<>>
      /\ queue # <<>> => Len(queue) = Len(labels) + 1 /\ queue[1] = [s |-> 1, e |-> Len(keys) + 1, col |-> 0]
      /\ bitmap \in Seq({0, 1}) /\ Len(bitmap) = Len(labels) + N /\ Ones(bitmap, 0, Len(bitmap)) = N
      /\ bitmap = <<>> \/ Bit(bitmap, Len(bitmap) - 1) = 1
  BY <1>1, <1>2 DEF Shape
<1>5. Ordered
  BY <1>4, KeyListIs
<1> DEFINE Q == Len(queue)
           L == Len(labels)
           B == Len(bitmap)
<1>6. Q \in Nat /\ L \in Nat /\ B \in Nat /\ Q = L + 1 /\ B = L + N /\ N + 1 \in 1 .. Q /\ queue # <<>>
  <2>1. Q \in Nat /\ L \in Nat /\ B \in Nat /\ N \in Nat /\ N < Q
    <3>1. queue \in Seq(S) /\ labels \in Seq(Nat) /\ bitmap \in Seq({0, 1})
      BY <1>4
    <3> HIDE DEF S
    <3>2. Len(queue) \in Nat /\ Len(labels) \in Nat /\ Len(bitmap) \in Nat
      BY <3>1
    <3>3. QED
      BY <1>31, <3>2
  <2>2. queue # <<>>
    BY <2>1
  <2>3. Q = L + 1 /\ B = L + N
    BY <1>4, <2>2
  <2> HIDE DEF Q, L, B
  <2>4. QED
    BY <2>1, <2>2, <2>3
<1>7. /\ bitmap' \in Seq({0, 1}) /\ Len(bitmap') = B + m + 1
      /\ \A p \in 0 .. B - 1 : Bit(bitmap', p) = Bit(bitmap, p)
      /\ \A p \in B .. B + m - 1 : Bit(bitmap', p) = 0
      /\ Bit(bitmap', B + m) = 1
      /\ \A p \in 0 .. B : Ones(bitmap', 0, p) = Ones(bitmap, 0, p)
      /\ \A p \in B .. B + m : Ones(bitmap', 0, p) = N
      /\ Ones(bitmap', 0, Len(bitmap')) = N + 1
  <2>1. bitmap \in Seq({0, 1}) /\ m \in Nat /\ bitmap' = NodeBits(bitmap, m)
    BY <1>3, <1>4
  <2> DEFINE cm == bitmap'
  <2> HIDE DEF cm
  <2>2. cm = NodeBits(bitmap, m)
    BY <2>1 DEF cm
  <2>3. /\ cm \in Seq({0, 1}) /\ Len(cm) = Len(bitmap) + m + 1
        /\ \A p \in 0 .. Len(bitmap) - 1 : Bit(cm, p) = Bit(bitmap, p)
        /\ \A p \in Len(bitmap) .. Len(bitmap) + m - 1 : Bit(cm, p) = 0
        /\ Bit(cm, Len(bitmap) + m) = 1
        /\ \A p \in 0 .. Len(bitmap) : Ones(cm, 0, p) = Ones(bitmap, 0, p)
        /\ \A p \in Len(bitmap) .. Len(bitmap) + m : Ones(cm, 0, p) = Ones(bitmap, 0, Len(bitmap))
        /\ Ones(cm, 0, Len(cm)) = Ones(bitmap, 0, Len(bitmap)) + 1
    BY <2>1, <2>2, BitmapGrows
  <2>4. QED
    BY <1>4, <2>3 DEF cm
<1> HIDE DEF Q, L, B, S
<1>8. Shape'
  <2>1. Len(queue') = Q + m /\ Len(labels') = L + m /\ queue'[1] = queue[1] /\ queue' # <<>>
    <3>1. Len(queue') = Q + m /\ Len(labels') = L + m
      BY <1>3 DEF Q, L
    <3>2. 1 \in 1 .. Q /\ Q + m # 0
      BY <1>3, <1>6
    <3>3. queue'[1] = queue[1]
      BY <1>3, <3>2 DEF Q
    <3>4. queue' # <<>>
      BY <3>1, <3>2
    <3>5. QED
      BY <3>1, <3>3, <3>4
  <2>2. keys' = Sorted(Keys(input'))
    BY <1>3, <1>4
  <2>3. node' \in 0 .. Len(queue')
    BY <1>3, <1>6, <2>1 DEF Q
  <2>4. ~(queue' = <<>>) /\ ~(keys' = <<>>)
    BY <1>3, <1>4, <1>6, <2>1
  <2>5. Len(queue') = Len(labels') + 1
    BY <1>31, <1>6, <2>1
  <2>6. queue'[1] = [s |-> 1, e |-> Len(keys') + 1, col |-> 0]
    BY <1>31, <1>4, <1>6, <2>1
  <2>7. Len(bitmap') = Len(labels') + node' /\ Ones(bitmap', 0, Len(bitmap')) = node'
    <3>1. Len(bitmap') = B + m + 1 /\ Ones(bitmap', 0, Len(bitmap')) = N + 1
      BY <1>7
    <3>2. QED
      BY <1>31, <1>6, <2>1, <3>1
  <2>8. Bit(bitmap', Len(bitmap') - 1) = 1
    <3>1. Len(bitmap') - 1 = B + m
      <4>1. B \in Nat /\ m \in Nat
        BY <1>31, <1>6
      <4>2. Len(bitmap') = B + m + 1
        BY <1>7
      <4> HIDE DEF B
      <4>3. QED
        BY <4>1, <4>2
    <3>2. QED
      BY <1>7, <3>1
  <2>9. bitmap' \in Seq({0, 1}) /\ queue' \in Seq(S) /\ labels' \in Seq(Nat)
    BY <1>3, <1>7
  <2>10. QED
    BY <2>2, <2>3, <2>4, <2>5, <2>6, <2>7, <2>8, <2>9 DEF Shape, S
<1>9. Ranges'
  <2>1. \A x : Covers(x) => Covers(x)'
    BY <1>3 DEF Covers
  <2>2. ASSUME NEW n \in 1 .. Len(queue') PROVE Covers(queue'[n])
    <3>1. CASE n \in 1 .. Q
      <4>1. queue'[n] = queue[n] /\ Covers(queue[n])
        BY <1>2, <1>3, <3>1 DEF Q, Ranges
      <4>2. QED
        BY <4>1
    <3>2. CASE n \notin 1 .. Q
      <4>1. PICK k \in 1 .. m : n = Q + k
        <5>1. n - Q \in 1 .. m /\ n = Q + (n - Q)
          BY <1>3, <1>6, <3>2 DEF Q
        <5>2. QED
          BY <5>1
      <4>2. queue'[n] = ChildOf(elt, edges[k])
        BY <1>3, <4>1 DEF Q
      <4>3. Covers(ChildOf(elt, edges[k]))
        BY <1>3, <1>5, ChildCovers
      <4>4. QED
        BY <4>2, <4>3
    <3>3. QED
      BY <3>1, <3>2
  <2>3. ASSUME NEW n \in 1 .. Len(queue') PROVE Covers(queue[n])'
    <3>1. PICK x : x = queue'[n]
      OBVIOUS
    <3>2. Covers(x)
      BY <2>2, <3>1
    <3>3. QED
      BY <1>3, <3>1, <3>2 DEF Covers
  <2>4. QED
    BY <2>3 DEF Ranges
<1>10. ASSUME NEW n \in 0 .. N - 1
       PROVE  /\ \A p : p \in EdgesOf(n)' <=> p \in EdgesOf(n)
              /\ \A p \in EdgesOf(n) : LabelOf(n, p)' = LabelOf(n, p)
  <2>1. n \in Nat /\ n < N /\ n \in 0 .. node - 1
    BY <1>1, <1>3
  <2>2. ASSUME NEW p, p \in EdgesOf(n)' PROVE p \in EdgesOf(n)
    <3>1. p \in 0 .. B + m /\ Bit(bitmap', p) = 0 /\ Ones(bitmap', 0, p) = n
      <4>1. p \in 0 .. Len(bitmap') - 1 /\ Bit(bitmap', p) = 0 /\ Ones(bitmap', 0, p) = n
        BY <2>2 DEF EdgesOf
      <4>2. Len(bitmap') = B + m + 1
        BY <1>7
      <4>3. QED
        BY <1>31, <1>6, <4>1, <4>2
    <3>2. p \in 0 .. B - 1
      <4>1. ~(p \in B .. B + m)
        BY <1>7, <2>1, <3>1
      <4>2. QED
        BY <1>3, <1>6, <3>1, <4>1
    <3>3. p \in 0 .. B
      BY <1>6, <3>2
    <3>4. Bit(bitmap, p) = 0 /\ Ones(bitmap, 0, p) = n
      BY <1>7, <3>1, <3>2, <3>3
    <3>5. QED
      BY <3>2, <3>4 DEF EdgesOf, B
  <2>3. ASSUME NEW p \in EdgesOf(n) PROVE p \in EdgesOf(n)' /\ LabelOf(n, p)' = LabelOf(n, p)
    <3>1. p \in 0 .. B - 1 /\ Bit(bitmap, p) = 0 /\ Ones(bitmap, 0, p) = n
      BY DEF EdgesOf, B
    <3>2. p \in 0 .. B
      BY <1>6, <3>1
    <3>3. Bit(bitmap', p) = 0 /\ Ones(bitmap', 0, p) = n
      BY <1>7, <3>1, <3>2
    <3>4. p \in 0 .. Len(bitmap') - 1
      BY <1>3, <1>6, <1>7, <3>1
    <3>5. p \in EdgesOf(n)'
      BY <3>3, <3>4 DEF EdgesOf
    <3>6. p - n + 1 \in 1 .. Len(labels)
      BY <1>2, <2>1, EdgeIs
    <3>7. labels'[p - n + 1] = labels[p - n + 1]
      BY <1>3, <3>6
    <3>8. QED
      BY <3>5, <3>7 DEF LabelOf
  <2>4. QED
    BY <2>2, <2>3
<1>11. ASSUME NEW p, p \in EdgesOf(N)'
       PROVE  \E k \in 1 .. m : p = B + k - 1
  <2>1. p \in 0 .. B + m /\ Bit(bitmap', p) = 0 /\ Ones(bitmap', 0, p) = N
    <3>1. p \in 0 .. Len(bitmap') - 1 /\ Bit(bitmap', p) = 0 /\ Ones(bitmap', 0, p) = N
      BY <1>11 DEF EdgesOf
    <3>2. Len(bitmap') = B + m + 1
      BY <1>7
    <3>3. QED
      BY <1>6, <1>31, <3>1, <3>2
  <2>2. p # B + m
    BY <1>7, <2>1
  <2>3. ~(p < B)
    <3>1. SUFFICES ASSUME p < B PROVE FALSE
      OBVIOUS
    <3>2. p \in 0 .. B - 1 /\ p \in 0 .. B /\ p \in Nat
      BY <1>6, <2>1, <3>1
    <3>3. Bit(bitmap, p) = 0 /\ Ones(bitmap, 0, p) = N
      BY <1>7, <2>1, <3>2
    <3>4. Bit(bitmap, B - 1) = 1
      <4>1. bitmap # <<>>
        BY <1>6, <3>1, <3>2 DEF B
      <4>2. QED
        BY <1>4, <4>1 DEF B
    <3>5. PICK r \in Nat : r = B - 1 /\ r + 1 = B /\ p < r
      <4>1. p # B - 1
        BY <3>3, <3>4
      <4>2. B - 1 \in Nat /\ (B - 1) + 1 = B /\ p < B - 1
        BY <1>6, <3>1, <3>2, <4>1
      <4>3. QED
        BY <4>2
    <3>6. Ones(bitmap, 0, r) < Ones(bitmap, 0, B)
      BY <1>4, <1>6, <3>4, <3>5, OnesAfter
    <3>7. Ones(bitmap, 0, p) <= Ones(bitmap, 0, r)
      BY <1>4, <3>2, <3>5, OnesGrow
    <3>8. Ones(bitmap, 0, B) = N /\ Ones(bitmap, 0, r) \in Nat
      BY <1>4, <3>5, OnesAre DEF B
    <3>9. QED
      BY <1>3, <3>3, <3>6, <3>7, <3>8
  <2>4. p - B + 1 \in 1 .. m /\ p = B + (p - B + 1) - 1
    BY <1>3, <1>6, <2>1, <2>2, <2>3
  <2>5. QED
    BY <2>4
<1>12. ASSUME NEW k \in 1 .. m, NEW p, p = B + k - 1
       PROVE  /\ p \in EdgesOf(N)' /\ LabelOf(N, p)' = NextChar(elt, edges[k])
              /\ p \in Nat /\ p - N + 2 \in DOMAIN queue' /\ queue'[p - N + 2] = ChildOf(elt, edges[k])
  <2>1. p \in B .. B + m - 1 /\ p \in B .. B + m /\ p \in 0 .. Len(bitmap') - 1 /\ p \in Nat
    BY <1>3, <1>6, <1>7, <1>12
  <2>2. p \in EdgesOf(N)'
    BY <1>7, <2>1 DEF EdgesOf
  <2>3. p - N + 1 = L + k /\ p - N + 2 = Q + k
    BY <1>31, <1>6, <1>12
  <2>4. labels'[p - N + 1] = NextChar(elt, edges[k])
    BY <1>3, <2>3 DEF L
  <2>5. queue'[p - N + 2] = ChildOf(elt, edges[k])
    BY <1>3, <2>3 DEF Q
  <2>6. p - N + 2 \in DOMAIN queue'
    <3>1. Q + k \in 1 .. Q + m /\ Len(queue') = Q + m
      BY <1>3, <1>6 DEF Q
    <3>2. DOMAIN queue' = 1 .. Len(queue')
      BY <1>3
    <3>3. QED
      BY <2>3, <3>1, <3>2
  <2>7. QED
    BY <2>1, <2>2, <2>4, <2>5, <2>6 DEF LabelOf
<1>13. queue'[N + 1] = elt /\ queue[N + 1] = elt
  BY <1>1, <1>3, <1>6 DEF Q
<1>14. \A n \in 0 .. node' - 1 : n \in 0 .. N - 1 \/ n = N
  BY <1>3
<1>15. ASSUME NEW n \in 0 .. N - 1
       PROVE  queue'[n + 1] = queue[n + 1] /\ n \in 0 .. node - 1
  <2>1. n + 1 \in 1 .. Q /\ n \in 0 .. node - 1
    BY <1>1, <1>3, <1>6
  <2>2. QED
    BY <1>3, <2>1 DEF Q
<1>16. EdgesRight'
  <2>1. ASSUME NEW n \in 0 .. node' - 1, NEW p, p \in EdgesOf(n)'
        PROVE  /\ p - n + 2 \in DOMAIN queue'
               /\ queue'[p - n + 2].s \in queue'[n + 1].s .. queue'[n + 1].e - 1
               /\ queue'[p - n + 2].col = queue'[n + 1].col + 1
               /\ LabelOf(n, p)' = keys[queue'[p - n + 2].s][queue'[p - n + 2].col]
    <3>1. CASE n \in 0 .. N - 1
      <4>1. p \in EdgesOf(n) /\ LabelOf(n, p)' = LabelOf(n, p) /\ queue'[n + 1] = queue[n + 1] /\ n \in 0 .. node - 1
        BY <1>10, <1>15, <2>1, <3>1
      <4>2. /\ p - n + 2 \in DOMAIN queue
            /\ queue[p - n + 2].s \in queue[n + 1].s .. queue[n + 1].e - 1
            /\ queue[p - n + 2].col = queue[n + 1].col + 1
            /\ LabelOf(n, p) = keys[queue[p - n + 2].s][queue[p - n + 2].col]
        BY <1>2, <4>1 DEF EdgesRight
      <4>3. p - n + 2 \in 1 .. Q
        BY <1>2, <4>1, EdgeIs DEF Q
      <4>4. queue'[p - n + 2] = queue[p - n + 2]
        BY <1>3, <4>3 DEF Q
      <4>5. p - n + 2 \in DOMAIN queue'
        <5>1. DOMAIN queue' = 1 .. Len(queue') /\ Len(queue') = Q + m
          BY <1>3 DEF Q
        <5>2. Q \in Nat /\ m \in Nat
          BY <1>31, <1>6
        <5> HIDE DEF Q
        <5>3. QED
          BY <4>3, <5>1, <5>2
      <4>6. QED
        BY <4>1, <4>2, <4>4, <4>5
    <3>2. CASE n = N
      <4>1. PICK k \in 1 .. m : p = B + k - 1
        BY <1>11, <2>1, <3>2
      <4>2. /\ LabelOf(N, p)' = NextChar(elt, edges[k])
            /\ p - N + 2 \in DOMAIN queue' /\ queue'[p - N + 2] = ChildOf(elt, edges[k])
        BY <1>12, <4>1
      <4>3. /\ ChildOf(elt, edges[k]).s = edges[k] /\ ChildOf(elt, edges[k]).col = elt.col + 1
            /\ edges[k] \in elt.s .. elt.e - 1
        BY <1>3, <1>5, ChildCovers
      <4>4. QED
        BY <1>13, <3>2, <4>2, <4>3 DEF NextChar
    <3>3. QED
      BY <1>14, <3>1, <3>2
  <2>2. QED
    BY <1>3, <2>1 DEF EdgesRight
<1>17. EdgesComplete'
  <2>1. ASSUME NEW n \in 0 .. node' - 1, NEW j \in queue'[n + 1].s .. queue'[n + 1].e - 1,
               Len(keys[j]) > queue'[n + 1].col
        PROVE  \E p : p \in EdgesOf(n)' /\ LabelOf(n, p)' = keys[j][queue'[n + 1].col + 1]
    <3>1. CASE n \in 0 .. N - 1
      <4>1. queue'[n + 1] = queue[n + 1] /\ n \in 0 .. node - 1
        BY <1>15, <3>1
      <4>2. PICK p \in EdgesOf(n) : LabelOf(n, p) = keys[j][queue[n + 1].col + 1]
        BY <1>2, <2>1, <4>1 DEF EdgesComplete
      <4>3. p \in EdgesOf(n)' /\ LabelOf(n, p)' = LabelOf(n, p)
        BY <1>10, <3>1
      <4>4. QED
        BY <4>1, <4>2, <4>3
    <3>2. CASE n = N
      <4>1. j \in elt.s .. elt.e - 1 /\ Len(keys[j]) > elt.col
        BY <1>13, <2>1, <3>2
      <4>2. j \in Longer(elt)
        BY <1>3, <1>5, <4>1, RangeIs
      <4>3. PICK i \in Firsts(elt) : NextChar(elt, i) = NextChar(elt, j)
        BY <1>3, <1>5, <4>2, FirstsAre
      <4>4. PICK k \in 1 .. m : edges[k] = i
        BY <1>3
      <4>5. PICK p : p = B + k - 1
        OBVIOUS
      <4>6. p \in EdgesOf(N)' /\ LabelOf(N, p)' = NextChar(elt, j)
        BY <1>12, <4>3, <4>4, <4>5
      <4>7. QED
        BY <1>13, <3>2, <4>6 DEF NextChar
    <3>3. QED
      BY <1>14, <3>1, <3>2
  <2>2. QED
    BY <1>3, <2>1 DEF EdgesComplete
<1>18. EdgesInOrder'
  <2>1. ASSUME NEW n \in 0 .. node' - 1, NEW p, NEW r, p \in EdgesOf(n)', r \in EdgesOf(n)', p < r
        PROVE  LabelOf(n, p)' < LabelOf(n, r)'
    <3>1. CASE n \in 0 .. N - 1
      <4>1. /\ p \in EdgesOf(n) /\ r \in EdgesOf(n) /\ n \in 0 .. node - 1
            /\ LabelOf(n, p)' = LabelOf(n, p) /\ LabelOf(n, r)' = LabelOf(n, r)
        BY <1>10, <1>15, <2>1, <3>1
      <4>2. QED
        BY <1>2, <2>1, <4>1 DEF EdgesInOrder
    <3>2. CASE n = N
      <4>1. PICK i \in 1 .. m : p = B + i - 1
        BY <1>11, <2>1, <3>2
      <4>2. PICK k \in 1 .. m : r = B + k - 1
        BY <1>11, <2>1, <3>2
      <4>3. i < k
        BY <1>6, <2>1, <4>1, <4>2
      <4>4. edges[i] < edges[k] /\ edges[i] \in Firsts(elt) /\ edges[k] \in Firsts(elt)
        BY <1>3, <4>3
      <4>5. NextChar(elt, edges[i]) < NextChar(elt, edges[k])
        BY <1>3, <1>5, <4>4, FirstsAre
      <4>6. LabelOf(N, p)' = NextChar(elt, edges[i]) /\ LabelOf(N, r)' = NextChar(elt, edges[k])
        BY <1>12, <4>1, <4>2
      <4>7. QED
        BY <3>2, <4>5, <4>6
    <3>3. QED
      BY <1>14, <3>1, <3>2
  <2>2. QED
    BY <2>1 DEF EdgesInOrder
<1>19. LeavesRight'
  <2> DEFINE Ends(n) == queue'[n + 1].col = Len(keys[queue'[n + 1].s])
  <2>1. leaves = {n \in 0 .. N - 1 : EndsAt(queue[n + 1])}
    BY <1>1, <1>2 DEF LeavesRight
  <2>2. leaves' = IF EndsAt(elt) THEN leaves \cup {N} ELSE leaves
    BY <1>1 DEF BuildNode
  <2>3. \A n \in 0 .. N - 1 : EndsAt(queue[n + 1]) <=> Ends(n)
    BY <1>15 DEF EndsAt
  <2>4. EndsAt(elt) <=> Ends(N)
    BY <1>13 DEF EndsAt
  <2> HIDE DEF Ends
  <2>5. \A n : n \in 0 .. N <=> n \in 0 .. N - 1 \/ n = N
    BY <1>3
  <2>6. leaves' = {n \in 0 .. N : Ends(n)}
    BY <2>1, <2>2, <2>3, <2>4, <2>5
  <2>7. node' - 1 = N
    BY <1>3
  <2>8. QED
    BY <1>3, <2>6, <2>7 DEF LeavesRight, EndsAt, Ends
<1>20. QED
  BY <1>8, <1>9, <1>16, <1>17, <1>18, <1>19 DEF TrieRight

\* Construction starts with the root.
LEMMA InitTrie == Init => TrieRight
<1> SUFFICES ASSUME Init PROVE TrieRight
  OBVIOUS
<1>1. /\ input \in Inputs /\ keys = Sorted(Keys(input)) /\ node = 0
      /\ queue = IF keys = <<>> THEN <<>> ELSE <<[s |-> 1, e |-> Len(keys) + 1, col |-> 0]>>
      /\ labels = <<>> /\ bitmap = <<>> /\ leaves = {}
  BY DEF Init
<1>2. keys \in Seq(Seq(Nat))
  BY <1>1, KeyListIs DEF Ordered
<1>3. Len(keys) \in Nat /\ (keys # <<>> => Len(keys) > 0)
  BY <1>2
<1>4. Ones(bitmap, 0, Len(bitmap)) = 0
  BY <1>1, OnesAre
<1>5. Shape
  <2>1. queue \in Seq([s : Nat, e : Nat, col : Nat])
    <3> DEFINE S == [s : Nat, e : Nat, col : Nat]
               root == [s |-> 1, e |-> Len(keys) + 1, col |-> 0]
    <3>1. root \in S
      BY <1>3
    <3>2. queue = IF keys = <<>> THEN <<>> ELSE <<root>>
      BY <1>1
    <3> HIDE DEF S, root
    <3>3. <<>> \in Seq(S) /\ <<root>> \in Seq(S)
      BY <3>1
    <3>4. queue \in Seq(S)
      BY <3>2, <3>3
    <3>5. QED
      BY <3>4 DEF S
  <2>2. CASE keys = <<>>
    BY <1>1, <1>4, <2>1, <2>2 DEF Shape
  <2>3. CASE keys # <<>>
    <3>1. queue # <<>> /\ Len(queue) = 1 /\ queue[1] = [s |-> 1, e |-> Len(keys) + 1, col |-> 0]
      BY <1>1, <2>3
    <3>2. Len(labels) = 0 /\ Len(bitmap) = 0
      BY <1>1
    <3>3. QED
      BY <1>1, <1>4, <2>1, <2>3, <3>1, <3>2 DEF Shape
  <2>4. QED
    BY <2>2, <2>3
<1>6. Ranges
  <2> SUFFICES ASSUME NEW n \in 1 .. Len(queue) PROVE Covers(queue[n])
    BY DEF Ranges
  <2>1. keys # <<>> /\ queue[n] = [s |-> 1, e |-> Len(keys) + 1, col |-> 0]
    BY <1>1
  <2>2. PICK elt : elt = queue[n] /\ elt.s = 1 /\ elt.e = Len(keys) + 1 /\ elt.col = 0
    BY <2>1
  <2>3. DOMAIN keys = 1 .. Len(keys) /\ 1 \in DOMAIN keys /\ Len(keys) + 1 \in 1 .. Len(keys) + 1
    BY <1>2, <1>3, <2>1
  <2>4. 0 \in 0 .. Len(keys[1])
    BY <1>2, <2>3
  <2>5. ASSUME NEW j \in DOMAIN keys
        PROVE  j \in 1 .. (Len(keys) + 1) - 1 <=> Len(keys[j]) >= 0 /\ Agree(keys[j], keys[1], 0)
    <3>1. j \in 1 .. (Len(keys) + 1) - 1 /\ Len(keys[j]) >= 0
      BY <1>2, <1>3, <2>3
    <3>2. Agree(keys[j], keys[1], 0)
      BY DEF Agree
    <3>3. QED
      BY <3>1, <3>2
  <2>6. Covers(elt)
    BY <2>2, <2>3, <2>4, <2>5 DEF Covers
  <2>7. QED
    BY <2>2, <2>6
<1>7. EdgesRight /\ EdgesComplete /\ EdgesInOrder
  <2>1. 0 .. node - 1 = {}
    BY <1>1
  <2>2. QED
    BY <2>1 DEF EdgesRight, EdgesComplete, EdgesInOrder
<1>8. LeavesRight
  <2>1. 0 .. node - 1 = {}
    BY <1>1
  <2>2. QED
    BY <1>1, <2>1 DEF LeavesRight
<1>9. QED
  BY <1>5, <1>6, <1>7, <1>8 DEF TrieRight

-----------------------------------------------------------------------------
(* The walk                                                                *)

\* Where a walk is in a trie that is built.
LEMMA WalkIs ==
    ASSUME Inv, pc = "walk"
    PROVE  /\ input \in Inputs /\ Shape /\ Ranges /\ EdgesRight /\ EdgesComplete /\ EdgesInOrder /\ LeavesRight
           /\ Ordered /\ name \in Text
           /\ bitmap \in Seq({0, 1}) /\ labels \in Seq(Nat)
           /\ node \in Nat /\ Len(queue) = node /\ node = Len(labels) + 1 /\ Len(labels) \in Nat
           /\ Ones(bitmap, 0, Len(bitmap)) = node
           /\ ranks = RankIndex(bitmap) /\ selects = SelectIndex(bitmap)
           /\ nodeId \in Nat /\ nodeId \in 0 .. node - 1 /\ nodeId + 1 \in 1 .. Len(queue)
           /\ Covers(queue[nodeId + 1])
           /\ at \in Nat /\ at <= Len(name) /\ Len(name) \in Nat
           /\ bmIdx \in Nat /\ bmIdx < Len(bitmap) /\ Ones(bitmap, 0, bmIdx) = nodeId
           /\ queue[nodeId + 1].col = at
           /\ Agree(Reverse(name), keys[queue[nodeId + 1].s], at)
<1>1. /\ input \in Inputs /\ TrieRight /\ IndexBuilt /\ name \in Names \cup {<<>>}
      /\ labels # <<>> /\ OnPath
  BY DEF Inv
<1>2. Shape /\ Ranges /\ EdgesRight /\ EdgesComplete /\ EdgesInOrder /\ LeavesRight
  BY <1>1 DEF TrieRight
<1>3. /\ keys = Sorted(Keys(input)) /\ bitmap \in Seq({0, 1}) /\ labels \in Seq(Nat)
      /\ queue \in Seq([s : Nat, e : Nat, col : Nat])
      /\ (queue = <<>> => labels = <<>>) /\ (queue # <<>> => Len(queue) = Len(labels) + 1)
      /\ Ones(bitmap, 0, Len(bitmap)) = node
  BY <1>2 DEF Shape
<1>4. Ordered
  BY <1>1, <1>3, KeyListIs
<1>5. name \in Text
  <2>1. <<>> \in Text
    BY DEF Text
  <2>2. QED
    BY <1>1, <2>1, TrieAssumption
<1>6. queue # <<>> /\ Len(queue) = Len(labels) + 1 /\ Len(labels) \in Nat /\ Len(queue) \in Nat
  BY <1>1, <1>3
<1>7. node = Len(queue) /\ ranks = RankIndex(bitmap) /\ selects = SelectIndex(bitmap)
  BY <1>1, <1>6 DEF IndexBuilt
<1>8. /\ nodeId \in 0 .. Len(queue) - 1
      /\ at \in 0 .. Len(name) /\ bmIdx \in Nat
      /\ queue[nodeId + 1].col = at
      /\ Agree(Reverse(name), keys[queue[nodeId + 1].s], at)
      /\ Ones(bitmap, 0, bmIdx) = nodeId
  BY <1>1 DEF OnPath
<1>9. nodeId \in Nat /\ nodeId \in 0 .. node - 1 /\ nodeId + 1 \in 1 .. Len(queue)
  BY <1>6, <1>7, <1>8
<1>10. Covers(queue[nodeId + 1])
  BY <1>2, <1>9 DEF Ranges
<1>11. at \in Nat /\ at <= Len(name) /\ Len(name) \in Nat
  BY <1>5, <1>8 DEF Text
<1>12. bmIdx < Len(bitmap)
  <2>1. SUFFICES ASSUME Len(bitmap) <= bmIdx PROVE FALSE
    BY <1>3, <1>8
  <2>2. Ones(bitmap, 0, bmIdx) = Ones(bitmap, 0, Len(bitmap))
    BY <1>3, <1>8, <2>1, OnesEnd
  <2>3. QED
    BY <1>3, <1>6, <1>7, <1>8, <1>9, <2>2
<1>13. QED
  BY <1>1, <1>2, <1>3, <1>4, <1>5, <1>6, <1>7, <1>8, <1>9, <1>10, <1>11, <1>12

\* What the walk's edge leads to: child is its node, the next one in number.
EdgeTo(next, child) ==
    /\ next = CountZeros(bmIdx + 1) /\ next = bmIdx - nodeId + 1
    /\ next \in Nat \ {0} /\ next \in 0 .. node - 1
    /\ child = queue[next + 1] /\ child.col = at + 1
    /\ child.s \in DOMAIN keys /\ keys[child.s] \in Seq(Nat) /\ Len(keys[child.s]) >= at + 1
    /\ Agree(keys[child.s], Reverse(name), at)
    /\ keys[child.s][at + 1] = Label
    /\ bmIdx \in EdgesOf(nodeId) /\ Label = LabelOf(nodeId, bmIdx)
    /\ Ones(bitmap, 0, bmIdx + 1) = nodeId
    /\ LabelIdx \in 0 .. Len(labels) - 1
    /\ Label \in {RootLabel, PrefixLabel} => Len(keys[child.s]) = at + 1 /\ next \in leaves

\* A 0 where the walk is means an edge, with a node in place.
LEMMA EdgeLeads ==
    ASSUME Inv, pc = "walk", Bit(bitmap, bmIdx) = 0
    PROVE  \E next, child : EdgeTo(next, child)
<1>1. /\ input \in Inputs /\ Shape /\ EdgesRight /\ LeavesRight /\ Ordered
      /\ bitmap \in Seq({0, 1}) /\ node \in Nat /\ Len(queue) = node /\ node = Len(labels) + 1 /\ Len(labels) \in Nat
      /\ ranks = RankIndex(bitmap) /\ nodeId \in Nat /\ nodeId \in 0 .. node - 1
      /\ Covers(queue[nodeId + 1])
      /\ at \in Nat
      /\ bmIdx \in Nat /\ bmIdx < Len(bitmap) /\ Ones(bitmap, 0, bmIdx) = nodeId
      /\ queue[nodeId + 1].col = at
      /\ Agree(Reverse(name), keys[queue[nodeId + 1].s], at)
  BY WalkIs
<1>2. bmIdx \in EdgesOf(nodeId)
  BY <1>1 DEF EdgesOf
<1>3. bmIdx - nodeId + 1 \in 1 .. Len(labels) /\ bmIdx - nodeId + 2 \in 1 .. Len(queue)
  BY <1>1, <1>2, EdgeIs
<1>4. PICK next \in Nat : next = bmIdx - nodeId + 1
  BY <1>1, <1>3
<1>5. next # 0 /\ next \in 0 .. node - 1 /\ next + 1 = bmIdx - nodeId + 2 /\ LabelIdx \in 0 .. Len(labels) - 1
      /\ LabelIdx + 1 = bmIdx - nodeId + 1
  BY <1>1, <1>3, <1>4 DEF LabelIdx
<1>6. Ones(bitmap, 0, bmIdx + 1) = nodeId
  <2>1. Ones(bitmap, 0, bmIdx + 1) = Ones(bitmap, 0, bmIdx) + Bit(bitmap, bmIdx)
    BY <1>1, OnesStep
  <2>2. QED
    BY <1>1, <2>1
<1>7. next = CountZeros(bmIdx + 1)
  <2>1. bmIdx + 1 \in Nat
    BY <1>1
  <2>2. Rank(bitmap, ranks, bmIdx + 1) = nodeId
    BY <1>1, <1>6, <2>1, RankIs
  <2>3. QED
    BY <1>1, <1>4, <2>2 DEF CountZeros
<1>8. PICK child : child = queue[next + 1]
  OBVIOUS
<1>9. PICK parent : parent = queue[nodeId + 1]
  OBVIOUS
<1>10. /\ child.s \in parent.s .. parent.e - 1
       /\ child.col = parent.col + 1
       /\ LabelOf(nodeId, bmIdx) = keys[child.s][child.col]
  <2>1. LET parent0 == queue[nodeId + 1]
            child0  == queue[bmIdx - nodeId + 2]
        IN  /\ child0.s \in parent0.s .. parent0.e - 1
            /\ child0.col = parent0.col + 1
            /\ LabelOf(nodeId, bmIdx) = keys[child0.s][child0.col]
    BY <1>1, <1>2 DEF EdgesRight
  <2>2. QED
    BY <1>5, <1>8, <1>9, <2>1
<1>11. Label = LabelOf(nodeId, bmIdx)
  BY <1>5 DEF Label, LabelOf
<1>12. Covers(parent) /\ parent.col = at
  BY <1>1, <1>9
<1>13. /\ child.s \in DOMAIN keys /\ keys[child.s] \in Seq(Nat)
       /\ Agree(keys[child.s], keys[parent.s], at)
  BY <1>1, <1>10, <1>12, RangeIs
<1>14. Agree(keys[child.s], Reverse(name), at)
  BY <1>1, <1>9, <1>13 DEF Agree
<1>15. Covers(child)
  <2>1. next + 1 \in 1 .. Len(queue)
    BY <1>1, <1>5
  <2>2. Ranges
    BY WalkIs
  <2>3. QED
    BY <1>8, <2>1, <2>2 DEF Ranges
<1>16. Len(keys[child.s]) >= at + 1
  <2>1. child.s \in child.s .. child.e - 1
    BY <1>1, <1>15, RangeIs
  <2>2. Len(keys[child.s]) >= child.col
    BY <1>1, <1>15, <2>1, RangeIs
  <2>3. QED
    BY <1>10, <1>12, <2>2
<1>17. child.col = at + 1 /\ keys[child.s][at + 1] = Label
  BY <1>10, <1>11, <1>12
<1>18. ASSUME Label \in {RootLabel, PrefixLabel} PROVE Len(keys[child.s]) = at + 1 /\ next \in leaves
  <2>1. keys = Sorted(Keys(input))
    BY <1>1 DEF Shape
  <2>2. IsKey(keys[child.s])
    BY <1>1, <1>13, <2>1, KeyListIs
  <2>3. at + 1 \in 1 .. Len(keys[child.s])
    BY <1>1, <1>13, <1>16
  <2>4. Len(keys[child.s]) = at + 1
    BY <1>17, <1>18, <2>2, <2>3 DEF IsKey
  <2>5. EndsAt(queue[next + 1])
    BY <1>8, <1>17, <2>4 DEF EndsAt
  <2>6. QED
    BY <1>1, <1>5, <2>4, <2>5 DEF LeavesRight
<1>19. EdgeTo(next, child)
  BY <1>2, <1>4, <1>5, <1>6, <1>7, <1>8, <1>11, <1>13, <1>14, <1>16, <1>17, <1>18 DEF EdgeTo
<1>20. QED
  BY <1>19

\* The bounds check never fails: there is no edge where there is a 1.
LEMMA NoEdgeIs ==
    ASSUME Inv, pc = "walk"
    PROVE  NoEdge <=> Bit(bitmap, bmIdx) # 0
<1>1. bitmap \in Seq({0, 1}) /\ bmIdx \in Nat
  BY WalkIs
<1>2. Bit(bitmap, bmIdx) \in {0, 1}
  BY <1>1 DEF Bit
<1>3. Bit(bitmap, bmIdx) = 0 => LabelIdx \in 0 .. Len(labels) - 1
  BY EdgeLeads DEF EdgeTo
<1>4. QED
  BY <1>2, <1>3 DEF NoEdge

\* A key that has what is matched of the name, and more, has an edge here.
LEMMA KeyEdge ==
    ASSUME Inv, pc = "walk", NEW j \in DOMAIN keys, Len(keys[j]) > at, Agree(keys[j], Reverse(name), at)
    PROVE  \E p \in EdgesOf(nodeId) : LabelOf(nodeId, p) = keys[j][at + 1]
<1>1. /\ EdgesComplete /\ nodeId \in 0 .. node - 1 /\ Covers(queue[nodeId + 1]) /\ Ordered
      /\ at \in Nat /\ queue[nodeId + 1].col = at
      /\ Agree(Reverse(name), keys[queue[nodeId + 1].s], at)
  BY WalkIs
<1>2. PICK elt : elt = queue[nodeId + 1]
  OBVIOUS
<1>3. Agree(keys[j], keys[elt.s], elt.col)
  BY <1>1, <1>2 DEF Agree
<1>4. Len(keys[j]) \in Nat
  BY <1>1 DEF Ordered
<1>5. j \in elt.s .. elt.e - 1
  BY <1>1, <1>2, <1>3, <1>4 DEF Covers
<1>6. QED
  BY <1>1, <1>2, <1>5 DEF EdgesComplete

\* The node is a leaf when what is matched of the name is a key.
LEMMA LeafIs ==
    ASSUME Inv, pc = "walk"
    PROVE  nodeId \in leaves <=> \E j \in DOMAIN keys : Len(keys[j]) = at /\ Agree(keys[j], Reverse(name), at)
<1>1. /\ LeavesRight /\ nodeId \in 0 .. node - 1 /\ Covers(queue[nodeId + 1]) /\ Ordered
      /\ at \in Nat /\ queue[nodeId + 1].col = at
      /\ Agree(Reverse(name), keys[queue[nodeId + 1].s], at)
  BY WalkIs
<1>2. PICK elt : elt = queue[nodeId + 1]
  OBVIOUS
<1>3. nodeId \in leaves <=> elt.col = Len(keys[elt.s])
  BY <1>1, <1>2 DEF LeavesRight, EndsAt
<1>4. elt.s \in DOMAIN keys
  BY <1>1, <1>2 DEF Covers
<1>5. ASSUME nodeId \in leaves
      PROVE  \E j \in DOMAIN keys : Len(keys[j]) = at /\ Agree(keys[j], Reverse(name), at)
  <2>1. Len(keys[elt.s]) = at /\ Agree(keys[elt.s], Reverse(name), at)
    BY <1>1, <1>2, <1>3, <1>5 DEF Agree
  <2>2. QED
    BY <1>4, <2>1
<1>6. ASSUME NEW j \in DOMAIN keys, Len(keys[j]) = at, Agree(keys[j], Reverse(name), at)
      PROVE  nodeId \in leaves
  <2>1. Agree(keys[j], keys[elt.s], elt.col)
    BY <1>1, <1>2, <1>6 DEF Agree
  <2>2. j \in elt.s .. elt.e - 1
    BY <1>1, <1>2, <1>6, <2>1 DEF Covers
  <2>3. j = elt.s
    BY <1>1, <1>2, <1>6, <2>2, RangeIs
  <2>4. QED
    BY <1>1, <1>2, <1>3, <1>6, <2>3
<1>7. QED
  BY <1>5, <1>6

\* An edge whose position is the walk's or greater, where the bit is 1, is not
\* one of its node's.
LEMMA NoLaterEdge ==
    ASSUME Inv, pc = "walk", NoEdge, NEW p \in EdgesOf(nodeId)
    PROVE  p < bmIdx
<1>1. bitmap \in Seq({0, 1}) /\ bmIdx \in Nat /\ Ones(bitmap, 0, bmIdx) = nodeId /\ nodeId \in Nat
  BY WalkIs
<1>2. Bit(bitmap, bmIdx) = 1
  <2>1. Bit(bitmap, bmIdx) \in {0, 1}
    BY <1>1, OnesStep
  <2>2. QED
    BY <2>1, NoEdgeIs
<1>3. p \in Nat /\ Bit(bitmap, p) = 0 /\ Ones(bitmap, 0, p) = nodeId
  BY DEF EdgesOf
<1>4. p # bmIdx
  BY <1>2, <1>3
<1>5. bmIdx < p => Ones(bitmap, 0, bmIdx) < Ones(bitmap, 0, p)
  BY <1>1, <1>2, <1>3, OnesAfter
<1>6. QED
  BY <1>1, <1>3, <1>4, <1>5

\* A walk does not change the trie.
LEMMA TrieSame ==
    ASSUME TrieRight, UNCHANGED trie
    PROVE  /\ TrieRight'
           /\ \A n : EdgesOf(n)' = EdgesOf(n)
           /\ \A n, p : LabelOf(n, p)' = LabelOf(n, p)
<1>1. /\ input' = input /\ keys' = keys /\ queue' = queue /\ node' = node /\ labels' = labels
      /\ bitmap' = bitmap /\ leaves' = leaves
  BY DEF trie
<1>2. \A n : EdgesOf(n)' = EdgesOf(n)
  BY <1>1 DEF EdgesOf
<1>3. \A n, p : LabelOf(n, p)' = LabelOf(n, p)
  BY <1>1 DEF LabelOf
<1>4. Shape /\ Ranges /\ EdgesRight /\ EdgesComplete /\ EdgesInOrder /\ LeavesRight
  BY DEF TrieRight
<1>5. Shape'
  BY <1>1, <1>4 DEF Shape
<1>6. Ranges'
  BY <1>1, <1>4 DEF Ranges, Covers
<1>7. EdgesRight'
  BY <1>1, <1>4 DEF EdgesRight, EdgesOf, LabelOf
<1>8. EdgesComplete'
  BY <1>1, <1>4 DEF EdgesComplete, EdgesOf, LabelOf
<1>9. EdgesInOrder'
  BY <1>1, <1>4 DEF EdgesInOrder, EdgesOf, LabelOf
<1>10. LeavesRight'
  BY <1>1, <1>4 DEF LeavesRight, EndsAt
<1>11. QED
  BY <1>2, <1>3, <1>5, <1>6, <1>7, <1>8, <1>9, <1>10 DEF TrieRight

\* Nor what has been built on it.
LEMMA BuiltSame ==
    ASSUME Inv, pc # "build", UNCHANGED trie, name' \in Names \cup {<<>>}
    PROVE  input' \in Inputs /\ TrieRight' /\ IndexBuilt' /\ name' \in Names \cup {<<>>}
<1>1. input \in Inputs /\ TrieRight /\ IndexBuilt
  BY DEF Inv
<1>2. TrieRight'
  BY <1>1, TrieSame
<1>3. input' \in Inputs /\ IndexBuilt'
  BY <1>1 DEF trie, IndexBuilt
<1>4. QED
  BY <1>2, <1>3

\* A position with a 0 that has a node's number of ones before it has a label.
LEMMA LabelPlace ==
    ASSUME TrieRight, IndexBuilt, labels # <<>>, NEW n \in 0 .. Len(queue) - 1, NEW b \in Nat,
           Ones(bitmap, 0, b) = n, Bit(bitmap, b) = 0
    PROVE  b - n \in 0 .. Len(labels) - 1
<1>1. Shape /\ EdgesRight /\ node = Len(queue)
  BY DEF TrieRight, IndexBuilt
<1>2. /\ bitmap \in Seq({0, 1}) /\ queue \in Seq([s : Nat, e : Nat, col : Nat]) /\ labels \in Seq(Nat)
      /\ Ones(bitmap, 0, Len(bitmap)) = node
  BY <1>1 DEF Shape
<1>3. Len(queue) \in Nat /\ n \in Nat /\ n < Len(queue) /\ n \in 0 .. node - 1 /\ Len(labels) \in Nat
  <2>1. Len(queue) \in Nat /\ Len(labels) \in Nat
    BY <1>2, LenProperties
  <2>2. node = Len(queue)
    BY <1>1
  <2>3. QED
    BY <2>1, <2>2
<1>4. b < Len(bitmap)
  <2>1. SUFFICES ASSUME Len(bitmap) <= b PROVE FALSE
    BY <1>2
  <2>2. Ones(bitmap, 0, b) = Ones(bitmap, 0, Len(bitmap))
    BY <1>2, <2>1, OnesEnd
  <2>3. QED
    BY <1>1, <1>2, <1>3, <2>2
<1>5. b \in EdgesOf(n)
  BY <1>2, <1>4 DEF EdgesOf
<1>6. b - n + 1 \in 1 .. Len(labels)
  BY <1>1, <1>3, <1>5, EdgeIs
<1>7. QED
  BY <1>3, <1>6

\* A walk that starts is at the root, and has passed nothing.
LEMMA MatchKeeps ==
    ASSUME Inv, NEW d \in Names, Match(d)
    PROVE  Inv'
<1>1. /\ pc = "ready" /\ name' = d /\ at' = 0 /\ nodeId' = 0 /\ bmIdx' = 0 /\ UNCHANGED trie
      /\ IF labels = <<>> THEN pc' = "ready" ELSE pc' = "walk"
  BY DEF Match, Answer
<1>2. input' \in Inputs /\ TrieRight' /\ IndexBuilt' /\ name' \in Names \cup {<<>>}
  BY <1>1, BuiltSame
<1>3. TrieRight /\ IndexBuilt
  BY <1>1 DEF Inv
<1>4. ASSUME labels # <<>> PROVE labels' # <<>> /\ OnPath' /\ InBounds' /\ PassedEdges' /\ PassedNodes'
  <2>1. labels' = labels /\ queue' = queue /\ bitmap' = bitmap /\ keys' = keys
    BY <1>1 DEF trie
  <2>2. queue # <<>> /\ queue \in Seq([s : Nat, e : Nat, col : Nat]) /\ queue[1].col = 0
    <3>1. Shape
      BY <1>3 DEF TrieRight
    <3>2. queue # <<>>
      BY <1>4, <3>1 DEF Shape
    <3>3. /\ queue \in Seq([s : Nat, e : Nat, col : Nat])
          /\ queue[1] = [s |-> 1, e |-> Len(keys) + 1, col |-> 0]
      BY <3>1, <3>2 DEF Shape
    <3>4. QED
      BY <3>2, <3>3
  <2>3. Len(queue) \in Nat /\ Len(queue) > 0
    BY <2>2
  <2>4. Len(d) \in Nat
    BY TrieAssumption DEF Text
  <2>5. Ones(bitmap, 0, 0) = 0
    BY OnesAre
  <2>6. 0 + 1 = 1
    OBVIOUS
  <2>7. OnPath'
    <3>1. nodeId' \in 0 .. Len(queue') - 1 /\ at' \in 0 .. Len(name') /\ bmIdx' \in Nat
      BY <1>1, <2>1, <2>3, <2>4
    <3>2. queue'[nodeId' + 1].col = at'
      BY <1>1, <2>1, <2>2, <2>6
    <3>3. Agree(Reverse(name'), keys'[queue'[nodeId' + 1].s], at')
      BY <1>1 DEF Agree
    <3>4. Ones(bitmap', 0, bmIdx') = nodeId'
      BY <1>1, <2>1, <2>5
    <3>5. QED
      BY <3>1, <3>2, <3>3, <3>4 DEF OnPath
  <2>8. InBounds'
    <3>1. Bit(bitmap, 0) = 0 => 0 - 0 \in 0 .. Len(labels) - 1
      BY <1>3, <1>4, <2>3, <2>5, LabelPlace
    <3>2. QED
      BY <1>1, <2>1, <3>1 DEF InBounds, LabelIdx
  <2>9. PassedEdges'
    <3>1. \A p \in EdgesOf(nodeId)' : ~(p < bmIdx')
      BY <1>1 DEF EdgesOf
    <3>2. QED
      BY <3>1 DEF PassedEdges
  <2>10. PassedNodes'
    <3>1. 0 .. at' - 1 = {}
      BY <1>1
    <3>2. QED
      BY <3>1 DEF PassedNodes
  <2>11. QED
    BY <1>4, <2>1, <2>7, <2>8, <2>9, <2>10
<1>5. QED
  BY <1>1, <1>2, <1>4 DEF Inv

\* A walk that goes past an edge it does not look for keeps its invariant.
LEMMA PastEdge ==
    ASSUME Inv, pc = "walk", Bit(bitmap, bmIdx) = 0,
           Label # PrefixLabel,
           IF at < Len(name) THEN Label # Char /\ (Label = RootLabel => Char # Dot) ELSE Label # RootLabel,
           bmIdx' = bmIdx + 1, UNCHANGED <<trie, pc, name, at, nodeId>>
    PROVE  Inv'
<1>1. /\ bitmap \in Seq({0, 1}) /\ nodeId \in Nat /\ at \in Nat
      /\ bmIdx \in Nat /\ Ones(bitmap, 0, bmIdx) = nodeId
  BY WalkIs
<1>2. PICK next, child : EdgeTo(next, child)
  BY EdgeLeads
<1>3. bmIdx \in EdgesOf(nodeId) /\ Label = LabelOf(nodeId, bmIdx) /\ Ones(bitmap, 0, bmIdx + 1) = nodeId
  BY <1>2 DEF EdgeTo
<1>4. /\ input \in Inputs /\ TrieRight /\ IndexBuilt /\ name \in Names \cup {<<>>}
      /\ labels # <<>> /\ OnPath /\ InBounds /\ PassedEdges /\ PassedNodes
  BY DEF Inv
<1>5. input' \in Inputs /\ TrieRight' /\ IndexBuilt' /\ name' \in Names \cup {<<>>}
  BY <1>4, BuiltSame
<1>6. /\ labels' = labels /\ queue' = queue /\ bitmap' = bitmap /\ keys' = keys
      /\ name' = name /\ at' = at /\ nodeId' = nodeId /\ pc' = "walk"
  BY DEF trie
<1>7. bmIdx + 1 \in Nat
  BY <1>1
<1>8. OnPath'
  BY <1>3, <1>4, <1>6, <1>7 DEF OnPath
<1>9. InBounds'
  <2>1. nodeId \in 0 .. Len(queue) - 1
    BY <1>4 DEF OnPath
  <2>2. Bit(bitmap, bmIdx + 1) = 0 => (bmIdx + 1) - nodeId \in 0 .. Len(labels) - 1
    BY <1>3, <1>4, <1>7, <2>1, LabelPlace
  <2>3. QED
    BY <1>4, <1>6, <2>2 DEF InBounds, LabelIdx
<1>10. PassedEdges'
  <2>1. EdgesOf(nodeId)' = EdgesOf(nodeId)
    BY <1>6 DEF EdgesOf
  <2>2. \A p : LabelOf(nodeId, p)' = LabelOf(nodeId, p)
    BY <1>6 DEF LabelOf
  <2>3. Char' = Char
    BY <1>6 DEF Char
  <2>4. ASSUME NEW p \in EdgesOf(nodeId), p < bmIdx + 1
        PROVE  /\ LabelOf(nodeId, p) # PrefixLabel
               /\ IF at < Len(name)
                    THEN LabelOf(nodeId, p) # Char /\ (LabelOf(nodeId, p) = RootLabel => Char # Dot)
                    ELSE LabelOf(nodeId, p) # RootLabel
    <3>1. p \in Nat
      BY <1>1 DEF EdgesOf
    <3>2. CASE p < bmIdx
      BY <1>4, <3>2 DEF PassedEdges
    <3>3. CASE p = bmIdx
      BY <1>3, <3>3
    <3>4. QED
      BY <1>1, <2>4, <3>1, <3>2, <3>3
  <2>5. QED
    BY <1>6, <2>1, <2>2, <2>3, <2>4 DEF PassedEdges
<1>11. PassedNodes'
  BY <1>4, <1>6 DEF PassedNodes
<1>12. QED
  BY <1>4, <1>5, <1>6, <1>8, <1>9, <1>10, <1>11 DEF Inv

\* A walk that follows the edge of the next character keeps its invariant.
LEMMA DescendKeeps ==
    ASSUME Inv, Descend
    PROVE  Inv'
<1>1. /\ pc = "walk" /\ at < Len(name) /\ ~NoEdge /\ Label = Char
      /\ nodeId' = CountZeros(bmIdx + 1) /\ bmIdx' = SelectIthOne(CountZeros(bmIdx + 1) - 1) + 1
      /\ at' = at + 1 /\ UNCHANGED <<trie, pc, name>>
  BY DEF Descend, Walking
<1>2. Bit(bitmap, bmIdx) = 0
  BY <1>1, NoEdgeIs
<1>3. /\ bitmap \in Seq({0, 1}) /\ nodeId \in Nat /\ at \in Nat /\ node \in Nat /\ Len(queue) = node
      /\ bmIdx \in Nat /\ Ones(bitmap, 0, bmIdx) = nodeId /\ Ones(bitmap, 0, Len(bitmap)) = node
      /\ selects = SelectIndex(bitmap) /\ ranks = RankIndex(bitmap) /\ EdgesInOrder
      /\ name \in Text /\ nodeId \in 0 .. node - 1 /\ Len(name) \in Nat /\ Ordered
  BY <1>1, WalkIs
<1>4. PICK next, child : EdgeTo(next, child)
  BY <1>1, <1>2, EdgeLeads
<1>5. /\ next = CountZeros(bmIdx + 1)
      /\ next \in Nat \ {0} /\ next \in 0 .. node - 1
      /\ child = queue[next + 1] /\ child.col = at + 1
      /\ child.s \in DOMAIN keys /\ keys[child.s] \in Seq(Nat) /\ Len(keys[child.s]) >= at + 1
      /\ Agree(keys[child.s], Reverse(name), at)
      /\ keys[child.s][at + 1] = Label
      /\ bmIdx \in EdgesOf(nodeId) /\ Label = LabelOf(nodeId, bmIdx)
  BY <1>4 DEF EdgeTo
<1>51. next \in Nat \ {0} /\ next \in 0 .. node - 1 /\ next = CountZeros(bmIdx + 1)
  BY <1>5
<1>6. PICK r \in Nat : r = next - 1 /\ r + 1 = next /\ r < node
  <2>1. next - 1 \in Nat /\ (next - 1) + 1 = next /\ next - 1 < node
    BY <1>3, <1>51
  <2>2. QED
    BY <2>1
<1>7. PICK q \in Nat : q = SelectIthOne(r) /\ Bit(bitmap, q) = 1 /\ Ones(bitmap, 0, q) = r
  <2>1. r < Ones(bitmap, 0, Len(bitmap))
    BY <1>3, <1>6
  <2>2. \E p \in Nat : /\ p = Select(bitmap, RankIndex(bitmap), SelectIndex(bitmap), r)
                       /\ Bit(bitmap, p) = 1 /\ Ones(bitmap, 0, p) = r
    BY <1>3, <2>1, SelectIs
  <2>3. QED
    BY <1>3, <2>2 DEF SelectIthOne
<1>8. nodeId' = next /\ bmIdx' = q + 1 /\ q + 1 \in Nat
  <2>1. bmIdx' = SelectIthOne(next - 1) + 1 /\ nodeId' = next
    BY <1>1, <1>51
  <2>2. bmIdx' = SelectIthOne(r) + 1
    BY <1>6, <2>1
  <2>3. QED
    BY <1>7, <2>1, <2>2
<1>9. Ones(bitmap, 0, q + 1) = next
  <2>1. Ones(bitmap, 0, q + 1) = Ones(bitmap, 0, q) + Bit(bitmap, q)
    BY <1>3, <1>7, OnesStep
  <2>2. QED
    BY <1>6, <1>7, <2>1
<1>10. /\ input \in Inputs /\ TrieRight /\ IndexBuilt /\ name \in Names \cup {<<>>}
       /\ labels # <<>> /\ OnPath /\ InBounds /\ PassedEdges /\ PassedNodes
  BY <1>1 DEF Inv
<1>11. input' \in Inputs /\ TrieRight' /\ IndexBuilt' /\ name' \in Names \cup {<<>>}
  BY <1>1, <1>10, BuiltSame
<1>12. /\ labels' = labels /\ queue' = queue /\ bitmap' = bitmap /\ keys' = keys
       /\ name' = name /\ pc' = "walk"
  BY <1>1 DEF trie
<1>13. at + 1 \in 1 .. Len(name) /\ Char = Reverse(name)[at + 1]
  BY <1>1, <1>3 DEF Char
<1>14. Agree(Reverse(name), keys[child.s], at + 1)
  <2> SUFFICES ASSUME NEW i \in 1 .. at + 1 PROVE Reverse(name)[i] = keys[child.s][i]
    BY DEF Agree
  <2>1. i \in 1 .. at \/ i = at + 1
    BY <1>3
  <2>2. QED
    BY <1>1, <1>5, <1>13, <2>1 DEF Agree
<1>15. OnPath'
  <2>1. nodeId' \in 0 .. Len(queue') - 1 /\ at' \in 0 .. Len(name') /\ bmIdx' \in Nat
    <3>1. nodeId' \in 0 .. Len(queue') - 1
      BY <1>3, <1>51, <1>8, <1>12
    <3>2. at' \in 0 .. Len(name')
      BY <1>1, <1>3, <1>12, <1>13
    <3>3. QED
      BY <1>8, <3>1, <3>2
  <2>2. queue'[nodeId' + 1].col = at' /\ Agree(Reverse(name'), keys'[queue'[nodeId' + 1].s], at')
    BY <1>1, <1>5, <1>8, <1>12, <1>14
  <2>3. Ones(bitmap', 0, bmIdx') = nodeId'
    BY <1>8, <1>9, <1>12
  <2>4. QED
    BY <2>1, <2>2, <2>3 DEF OnPath
<1>16. InBounds'
  <2>1. next \in 0 .. Len(queue) - 1
    BY <1>3, <1>5
  <2>2. Bit(bitmap, q + 1) = 0 => (q + 1) - next \in 0 .. Len(labels) - 1
    BY <1>8, <1>9, <1>10, <2>1, LabelPlace
  <2>3. next > 0
    BY <1>5
  <2>4. QED
    BY <1>8, <1>12, <2>2, <2>3 DEF InBounds, LabelIdx
<1>17. PassedEdges'
  <2>1. ASSUME NEW p \in EdgesOf(nodeId)' PROVE ~(p < bmIdx')
    <3>1. p \in Nat /\ Bit(bitmap, p) = 0 /\ Ones(bitmap, 0, p) = next
      BY <1>8, <1>12 DEF EdgesOf
    <3>2. p # q
      BY <1>7, <3>1
    <3>3. p < q => Ones(bitmap, 0, p) <= Ones(bitmap, 0, q)
      BY <1>3, <1>7, <3>1, OnesGrow
    <3>4. Ones(bitmap, 0, q) = next - 1 /\ next \in Nat /\ q \in Nat /\ bmIdx' = q + 1
      BY <1>5, <1>6, <1>7, <1>8
    <3>5. ~(p < q)
      BY <3>1, <3>3, <3>4
    <3>6. QED
      BY <3>1, <3>2, <3>4, <3>5
  <2>2. QED
    BY <2>1 DEF PassedEdges
<1>18. PassedNodes'
  <2> DEFINE R == Reverse(name)
  <2>1. ASSUME NEW j \in DOMAIN keys, NEW m \in 0 .. at, Len(keys[j]) = m + 1, Agree(keys[j], R, m)
        PROVE  /\ keys[j][m + 1] # PrefixLabel
               /\ keys[j][m + 1] = RootLabel => R[m + 1] # Dot
    <3>1. CASE m \in 0 .. at - 1
      BY <1>10, <2>1, <3>1 DEF PassedNodes
    <3>2. CASE m = at
      <4>1. PICK p \in EdgesOf(nodeId) : LabelOf(nodeId, p) = keys[j][at + 1]
        <5>1. Len(keys[j]) > at
          BY <1>3, <2>1, <3>2
        <5>2. QED
          BY <1>1, <2>1, <3>2, <5>1, KeyEdge
      <4>2. p \in Nat
        BY DEF EdgesOf
      <4>3. R[at + 1] # RootLabel /\ R[at + 1] # PrefixLabel /\ R[at + 1] \in Nat
        <5>1. R \in Seq(Nat) /\ Len(R) = Len(name)
          BY <1>3, TextBackwards
        <5>2. R[at + 1] \in Nat
          BY <1>13, <5>1
        <5>3. R[at + 1] # RootLabel /\ R[at + 1] # PrefixLabel
          BY <1>3, <1>13, TextBackwards
        <5>4. QED
          BY <5>2, <5>3
      <4>4. CASE p < bmIdx
        BY <1>1, <1>10, <1>13, <3>2, <4>1, <4>4 DEF PassedEdges
      <4>5. CASE p = bmIdx
        BY <1>1, <1>5, <1>13, <3>2, <4>1, <4>3, <4>5
      <4>6. CASE bmIdx < p
        <5>1. LabelOf(nodeId, bmIdx) < LabelOf(nodeId, p)
          BY <1>3, <1>5, <4>6 DEF EdgesInOrder
        <5>2. R[at + 1] < keys[j][at + 1] /\ keys[j][at + 1] \in Nat
          <6>1. at + 1 \in 1 .. Len(keys[j]) /\ keys[j] \in Seq(Nat)
            BY <1>3, <2>1, <3>2 DEF Ordered
          <6>2. keys[j][at + 1] \in Nat
            BY <6>1
          <6>3. LabelOf(nodeId, bmIdx) = R[at + 1]
            BY <1>1, <1>5, <1>13
          <6>4. QED
            BY <4>1, <5>1, <6>2, <6>3
        <5>3. R[at + 1] >= 2
          BY <4>3 DEF RootLabel, PrefixLabel
        <5>4. keys[j][at + 1] > 2
          BY <4>3, <5>2, <5>3
        <5>5. QED
          BY <3>2, <5>4 DEF RootLabel, PrefixLabel
      <4>7. QED
        BY <1>3, <4>2, <4>4, <4>5, <4>6
    <3>3. m \in 0 .. at - 1 \/ m = at
      BY <1>3
    <3>4. QED
      BY <3>1, <3>2, <3>3
  <2>2. at' - 1 = at
    BY <1>1, <1>3
  <2>3. QED
    BY <1>12, <2>1, <2>2 DEF PassedNodes
<1>19. QED
  BY <1>10, <1>11, <1>12, <1>15, <1>16, <1>17, <1>18 DEF Inv

-----------------------------------------------------------------------------
(* Every step                                                              *)

\* A walk that gives its answer leaves the trie as it is.
LEMMA AnswerKeeps ==
    ASSUME Inv, pc = "walk", pc' = "ready", UNCHANGED <<trie, name>>
    PROVE  Inv'
<1>1. name' \in Names \cup {<<>>}
  BY DEF Inv
<1>2. input' \in Inputs /\ TrieRight' /\ IndexBuilt' /\ name' \in Names \cup {<<>>}
  BY <1>1, BuiltSame
<1>3. QED
  BY <1>2 DEF Inv

\* Every step keeps the trie right, and the walk on its path.
LEMMA StepKeeps ==
    ASSUME Inv, [Next]_vars
    PROVE  Inv'
<1>1. CASE BuildNode
  <2>1. TrieRight /\ input \in Inputs /\ name \in Names \cup {<<>>}
    BY DEF Inv
  <2>2. TrieRight'
    BY <1>1, <2>1, BuildKeepsTrie
  <2>3. pc' = "build" /\ input' = input /\ name' = name
    BY <1>1 DEF BuildNode
  <2>4. QED
    BY <2>1, <2>2, <2>3 DEF Inv
<1>2. CASE Index
  <2>1. /\ pc = "build" /\ node = Len(queue) /\ pc' = "ready"
        /\ ranks' = IF queue = <<>> THEN <<>> ELSE RankIndex(bitmap)
        /\ selects' = IF queue = <<>> THEN <<>> ELSE SelectIndex(bitmap)
        /\ input' = input /\ keys' = keys /\ queue' = queue /\ node' = node /\ labels' = labels
        /\ bitmap' = bitmap /\ leaves' = leaves /\ name' = name
    BY <1>2 DEF Index
  <2>2. TrieRight /\ input \in Inputs /\ name \in Names \cup {<<>>}
    BY DEF Inv
  <2>3. Shape /\ Ranges /\ EdgesRight /\ EdgesComplete /\ EdgesInOrder /\ LeavesRight
    BY <2>2 DEF TrieRight
  <2>4. Shape'
    BY <2>1, <2>3 DEF Shape
  <2>5. Ranges' /\ LeavesRight'
    BY <2>1, <2>3 DEF Ranges, Covers, LeavesRight, EndsAt
  <2>6. EdgesRight' /\ EdgesComplete' /\ EdgesInOrder'
    BY <2>1, <2>3 DEF EdgesRight, EdgesComplete, EdgesInOrder, EdgesOf, LabelOf
  <2>7. IndexBuilt'
    BY <2>1 DEF IndexBuilt, RankIndex, SelectIndex, Sampled, WordCount, WordOnes
  <2>8. QED
    BY <2>1, <2>2, <2>4, <2>5, <2>6, <2>7 DEF Inv, TrieRight
<1>3. CASE Subdomain
  BY <1>3, AnswerKeeps DEF Subdomain, Walking, Answer
<1>4. CASE NextEdge
  <2>1. /\ pc = "walk" /\ at < Len(name) /\ ~NoEdge /\ Label \notin {PrefixLabel, Char} /\ ~RootHit
        /\ bmIdx' = bmIdx + 1 /\ UNCHANGED <<trie, pc, name, at, nodeId>>
    BY <1>4 DEF NextEdge, Walking
  <2>2. Bit(bitmap, bmIdx) = 0
    BY <2>1, NoEdgeIs
  <2>3. Label = RootLabel => Char # Dot
    <3>1. PICK next, child : EdgeTo(next, child)
      BY <2>1, <2>2, EdgeLeads
    <3>2. Label = RootLabel => CountZeros(bmIdx + 1) \in leaves
      BY <3>1 DEF EdgeTo
    <3>3. QED
      BY <2>1, <3>2 DEF RootHit
  <2>4. QED
    BY <2>1, <2>2, <2>3, PastEdge
<1>5. CASE Descend
  BY <1>5, DescendKeeps
<1>6. CASE NoMatch
  BY <1>6, AnswerKeeps DEF NoMatch, Walking, Answer
<1>7. CASE ExactMatch
  BY <1>7, AnswerKeeps DEF ExactMatch, Exhausted, Answer
<1>8. CASE Marker
  <2>1. pc = "walk" /\ at = Len(name) /\ UNCHANGED <<trie, name, at, nodeId>>
    BY <1>8 DEF Marker, Exhausted
  <2>2. CASE NoEdge \/ Label \in {PrefixLabel, RootLabel}
    BY <1>8, <2>1, <2>2, AnswerKeeps DEF Marker, Answer
  <2>3. CASE ~NoEdge /\ Label \notin {PrefixLabel, RootLabel}
    <3>1. bmIdx' = bmIdx + 1 /\ UNCHANGED <<trie, pc, name, at, nodeId>>
      BY <1>8, <2>1, <2>3 DEF Marker
    <3>2. Bit(bitmap, bmIdx) = 0
      BY <2>1, <2>3, NoEdgeIs
    <3>3. ~(at < Len(name)) /\ Label # PrefixLabel /\ Label # RootLabel
      <4>1. Len(name) \in Nat
        BY <2>1, WalkIs
      <4>2. QED
        BY <2>1, <2>3, <4>1
    <3>4. QED
      BY <2>1, <3>1, <3>2, <3>3, PastEdge
  <2>4. QED
    BY <2>2, <2>3
<1>9. CASE \E d \in Names : Match(d)
  BY <1>9, MatchKeeps
<1>10. CASE UNCHANGED vars
  <2>1. /\ UNCHANGED <<trie, pc, name, at, nodeId, bmIdx>>
        /\ UNCHANGED <<input, keys, queue, node, labels, bitmap, leaves, ranks, selects>>
    BY <1>10 DEF vars, trie
  <2>2. TrieRight' /\ input' \in Inputs
    BY <2>1, TrieSame DEF Inv
  <2>3. IndexBuilt' <=> IndexBuilt
    BY <2>1 DEF IndexBuilt
  <2>4. /\ OnPath' <=> OnPath
        /\ InBounds' <=> InBounds
    BY <2>1 DEF OnPath, InBounds, LabelIdx
  <2>5. PassedEdges' <=> PassedEdges
    <3>1. EdgesOf(nodeId)' = EdgesOf(nodeId) /\ \A p : LabelOf(nodeId, p)' = LabelOf(nodeId, p)
      BY <2>1 DEF EdgesOf, LabelOf
    <3>2. Char' = Char
      BY <2>1 DEF Char
    <3>3. QED
      BY <2>1, <3>1, <3>2 DEF PassedEdges
  <2>6. PassedNodes' <=> PassedNodes
    BY <2>1 DEF PassedNodes
  <2>7. QED
    BY <2>1, <2>2, <2>3, <2>4, <2>5, <2>6 DEF Inv
<1>11. QED
  BY <1>1, <1>2, <1>3, <1>4, <1>5, <1>6, <1>7, <1>8, <1>9, <1>10 DEF Next, Has

\* The trie is right at every step of its construction, and the walk's loop
\* invariant holds: it is where the name leads, in bounds, past no match.
THEOREM InvHolds == Spec => []Inv
<1>1. Init => Inv
  <2>1. Init => TrieRight /\ input \in Inputs /\ name = <<>> /\ pc = "build"
    BY InitTrie DEF Init
  <2>2. QED
    BY <2>1 DEF Inv
<1>2. Inv /\ [Next]_vars => Inv'
  BY StepKeeps
<1>3. QED
  BY <1>1, <1>2, PTL DEF Spec

\* Rank and select mean what they say wherever they are asked.
THEOREM IndexExactHolds == Spec => []IndexExact
<1>1. Inv => IndexExact
  <2> SUFFICES ASSUME Inv, pc # "build", queue # <<>>
               PROVE  /\ \A i \in 0 .. Len(bitmap) : Rank(bitmap, ranks, i) = Ones(bitmap, 0, i)
                      /\ \A i \in 0 .. node - 1 :
                            LET p == SelectIthOne(i) IN Bit(bitmap, p) = 1 /\ Ones(bitmap, 0, p) = i
    BY DEF IndexExact
  <2>1. TrieRight /\ IndexBuilt
    BY DEF Inv
  <2>2. /\ ranks = RankIndex(bitmap) /\ selects = SelectIndex(bitmap)
        /\ bitmap \in Seq({0, 1}) /\ Ones(bitmap, 0, Len(bitmap)) = node /\ node \in 0 .. Len(queue)
    BY <2>1 DEF TrieRight, Shape, IndexBuilt
  <2>3. \A i \in 0 .. Len(bitmap) : Rank(bitmap, ranks, i) = Ones(bitmap, 0, i)
    BY <2>2, RankIs
  <2>4. ASSUME NEW i \in 0 .. node - 1
        PROVE  Bit(bitmap, SelectIthOne(i)) = 1 /\ Ones(bitmap, 0, SelectIthOne(i)) = i
    <3>1. i \in Nat /\ i < Ones(bitmap, 0, Len(bitmap))
      BY <2>2
    <3>2. \E p \in Nat : /\ p = Select(bitmap, RankIndex(bitmap), SelectIndex(bitmap), i)
                         /\ Bit(bitmap, p) = 1 /\ Ones(bitmap, 0, p) = i
      BY <2>2, <3>1, SelectIs
    <3>3. QED
      BY <2>2, <3>2 DEF SelectIthOne
  <2>5. QED
    BY <2>3, <2>4
<1>2. QED
  BY <1>1, InvHolds, PTL

-----------------------------------------------------------------------------
(* The answers                                                             *)

\* Keys and names: a name is matched when some key in the list hits it.
LEMMA HitIs ==
    ASSUME Inv, pc = "walk"
    PROVE  Matched(name) <=> \E j \in DOMAIN keys : Hit(keys[j], Reverse(name))
<1>1. input \in Inputs /\ Shape /\ name \in Text
  BY WalkIs
<1>2. keys = Sorted(Keys(input))
  BY <1>1 DEF Shape
<1>3. /\ \A j \in DOMAIN keys : keys[j] \in Keys(input)
      /\ \A K \in Keys(input) : \E j \in DOMAIN keys : keys[j] = K
  BY <1>1, <1>2, KeyListIs
<1>4. Matched(name) <=> \E K \in Keys(input) : Hit(K, Reverse(name))
  BY <1>1, MatchedIs
<1>5. QED
  BY <1>3, <1>4

\* A key that has what is matched of the name, then a label that the walk
\* takes for a match, is one.
LEMMA MarkerHits ==
    ASSUME Inv, pc = "walk", Bit(bitmap, bmIdx) = 0,
           \/ Label = PrefixLabel
           \/ Label = RootLabel /\ (at = Len(name) \/ Char = Dot)
    PROVE  Matched(name)
<1>1. PICK next, child : EdgeTo(next, child)
  BY EdgeLeads
<1>2. /\ child.s \in DOMAIN keys /\ keys[child.s] \in Seq(Nat)
      /\ Agree(keys[child.s], Reverse(name), at)
      /\ keys[child.s][at + 1] = Label
      /\ Len(keys[child.s]) = at + 1
  BY <1>1 DEF EdgeTo
<1>3. at \in Nat /\ at <= Len(name) /\ Len(name) \in Nat /\ name \in Text
  BY WalkIs
<1>4. Len(Reverse(name)) = Len(name)
  BY <1>3, TextBackwards
<1>5. Len(keys[child.s]) - 1 = at /\ at \in 0 .. Len(Reverse(name))
  BY <1>2, <1>3, <1>4
<1>6. Hit(keys[child.s], Reverse(name))
  BY <1>2, <1>4, <1>5 DEF Hit, Char
<1>7. QED
  BY <1>2, <1>6, HitIs

\* A key that is the name makes its node a leaf.
LEMMA LeafHits ==
    ASSUME Inv, pc = "walk", at = Len(name)
    PROVE  nodeId \in leaves <=> \E j \in DOMAIN keys : keys[j] = Reverse(name)
<1>1. at \in Nat /\ name \in Text /\ Ordered
  BY WalkIs
<1>2. Reverse(name) \in Seq(Nat) /\ Len(Reverse(name)) = at
  BY <1>1, TextBackwards
<1>3. ASSUME NEW j \in DOMAIN keys
      PROVE  Len(keys[j]) = at /\ Agree(keys[j], Reverse(name), at) <=> keys[j] = Reverse(name)
  <2> DEFINE K == keys[j]
             R == Reverse(name)
  <2>1. K \in Seq(Nat)
    BY <1>1 DEF Ordered
  <2>2. R \in Seq(Nat) /\ Len(R) = at
    BY <1>2
  <2> HIDE DEF K, R
  <2>3. ASSUME Len(K) = at, Agree(K, R, at) PROVE K = R
    <3>1. \A i \in 1 .. at : K[i] = R[i]
      BY <2>3 DEF Agree
    <3>2. K = [i \in 1 .. at |-> K[i]] /\ R = [i \in 1 .. at |-> R[i]]
      BY <2>1, <2>2, <2>3
    <3>3. QED
      BY <3>1, <3>2
  <2>4. K = R => Len(K) = at /\ Agree(K, R, at)
    BY <2>2 DEF Agree
  <2>5. QED
    BY <2>3, <2>4 DEF K, R
<1>4. QED
  BY <1>3, LeafIs

\* A walk that finds no edge any more has passed no match but the name itself.
LEMMA NothingLeft ==
    ASSUME Inv, pc = "walk", NoEdge, NEW j \in DOMAIN keys, Hit(keys[j], Reverse(name))
    PROVE  at = Len(name) /\ keys[j] = Reverse(name)
<1> DEFINE K == keys[j]
           R == Reverse(name)
           n == Len(name)
<1>1. /\ at \in Nat /\ at <= n /\ n \in Nat /\ name \in Text /\ Ordered
  BY WalkIs
<1>2. R \in Seq(Nat) /\ Len(R) = n
  BY <1>1, TextBackwards
<1>3. K \in Seq(Nat) /\ Len(K) \in Nat
  BY <1>1 DEF Ordered
<1>4. PassedEdges /\ PassedNodes
  BY DEF Inv
<1>5. RootLabel # PrefixLabel /\ \A i \in 1 .. n : R[i] # RootLabel /\ R[i] # PrefixLabel
  BY <1>1, TextBackwards DEF RootLabel, PrefixLabel
<1>6. ASSUME Len(K) > at, Agree(K, R, at)
      PROVE  /\ K[at + 1] # PrefixLabel
             /\ IF at < n THEN K[at + 1] # R[at + 1] /\ (K[at + 1] = RootLabel => R[at + 1] # Dot)
                ELSE K[at + 1] # RootLabel
  <2>1. PICK p \in EdgesOf(nodeId) : LabelOf(nodeId, p) = K[at + 1]
    BY <1>6, KeyEdge
  <2>2. p < bmIdx
    BY NoLaterEdge
  <2>3. QED
    BY <1>4, <2>1, <2>2 DEF PassedEdges, Char
<1>7. Hit(K, R)
  OBVIOUS
<1> HIDE DEF K, R, n
<1>8. CASE K = R
  <2>1. CASE at < n
    <3>1. Len(K) > at /\ Agree(K, R, at) /\ K[at + 1] = R[at + 1]
      BY <1>1, <1>2, <1>8, <2>1 DEF Agree
    <3>2. QED
      BY <1>6, <2>1, <3>1
  <2>2. QED
    BY <1>1, <1>8, <2>1 DEF K, R, n
<1>9. CASE K # R
  <2>1. PICK m \in 0 .. n : /\ Len(K) = m + 1 /\ Agree(K, R, m)
                            /\ \/ K[m + 1] = PrefixLabel
                               \/ K[m + 1] = RootLabel /\ (m = n \/ R[m + 1] = Dot)
    <3>1. /\ Len(K) - 1 \in 0 .. n /\ Agree(K, R, Len(K) - 1)
          /\ \/ K[(Len(K) - 1) + 1] = PrefixLabel
             \/ K[(Len(K) - 1) + 1] = RootLabel /\ (Len(K) - 1 = n \/ R[(Len(K) - 1) + 1] = Dot)
      BY <1>2, <1>7, <1>9 DEF Hit
    <3>2. PICK m \in 0 .. n : m = Len(K) - 1
      BY <3>1
    <3>3. Len(K) = m + 1
      BY <1>1, <1>3, <3>2
    <3>4. QED
      BY <3>1, <3>2, <3>3
  <2>2. CASE m < at
    <3>1. m \in 0 .. at - 1 /\ m # n
      BY <1>1, <2>2
    <3>2. /\ K[m + 1] # PrefixLabel
          /\ K[m + 1] = RootLabel => R[m + 1] # Dot
      BY <1>4, <2>1, <3>1 DEF PassedNodes, K, R
    <3>3. QED
      BY <2>1, <3>1, <3>2
  <2>3. CASE m = at
    <3>1. Len(K) > at /\ Agree(K, R, at)
      BY <1>1, <2>1, <2>3
    <3>2. at < n \/ at = n
      BY <1>1
    <3>3. at < n => at # n
      BY <1>1
    <3>4. QED
      BY <1>6, <2>1, <2>3, <3>1, <3>2, <3>3
  <2>4. CASE at < m
    <3>1. Len(K) > at /\ Agree(K, R, at) /\ at < n /\ at + 1 \in 1 .. m
      BY <1>1, <2>1, <2>4 DEF Agree
    <3>2. K[at + 1] = R[at + 1]
      BY <2>1, <3>1 DEF Agree
    <3>3. QED
      BY <1>6, <3>1, <3>2
  <2>5. QED
    BY <1>1, <2>1, <2>2, <2>3, <2>4
<1>10. QED
  BY <1>8, <1>9

\* A trie without labels has no keys, and there is nothing to match.
LEMMA NoLabels ==
    ASSUME Inv, pc # "build", labels = <<>>, NEW d \in Text
    PROVE  ~Matched(d)
<1>1. TrieRight /\ IndexBuilt /\ input \in Inputs
  BY DEF Inv
<1>2. /\ Shape /\ EdgesRight /\ EdgesComplete /\ Ranges
  BY <1>1 DEF TrieRight
<1>3. /\ keys = Sorted(Keys(input)) /\ (queue = <<>> <=> keys = <<>>)
      /\ queue \in Seq([s : Nat, e : Nat, col : Nat])
  BY <1>2 DEF Shape
<1>4. /\ Ordered
      /\ \A j \in DOMAIN keys : IsKey(keys[j])
      /\ \A K \in Keys(input) : \E j \in DOMAIN keys : keys[j] = K
  BY <1>1, <1>3, KeyListIs
<1>5. queue = <<>>
  <2>1. SUFFICES ASSUME queue # <<>> PROVE FALSE
    OBVIOUS
  <2>2. /\ Len(queue) = Len(labels) + 1 /\ queue[1] = [s |-> 1, e |-> Len(keys) + 1, col |-> 0]
    BY <1>2, <2>1 DEF Shape
  <2>3. Len(queue) = 1 /\ node = 1
    BY <1>1, <2>2 DEF IndexBuilt
  <2>4. 0 \in 0 .. node - 1 /\ 1 \in 1 .. Len(queue) /\ 0 + 1 = 1
    BY <2>3
  <2>5. Covers(queue[1])
    BY <1>2, <2>4 DEF Ranges
  <2>6. PICK elt : elt = queue[1] /\ elt.s = 1 /\ elt.col = 0
    BY <2>2
  <2>7. 1 \in elt.s .. elt.e - 1 /\ 1 \in DOMAIN keys
    BY <1>4, <2>5, <2>6, RangeIs
  <2>8. Len(keys[1]) > 0
    BY <1>4, <2>7 DEF IsKey
  <2>9. \E p \in EdgesOf(0) : LabelOf(0, p) = keys[1][elt.col + 1]
    BY <1>2, <2>4, <2>6, <2>7, <2>8 DEF EdgesComplete
  <2>10. PICK p \in EdgesOf(0) : TRUE
    BY <2>9
  <2>11. p - 0 + 1 \in 1 .. Len(labels)
    BY <1>2, <2>4, EdgeIs
  <2>12. Len(labels) = 0
    OBVIOUS
  <2>13. QED
    BY <2>11, <2>12
<1>6. DOMAIN keys = {}
  BY <1>3, <1>5
<1>7. Keys(input) = {}
  BY <1>4, <1>6
<1>8. QED
  BY <1>1, <1>7, MatchedIs

\* An answer, once given, is for the name it was asked of, and right.
LEMMA AnswerKept ==
    ASSUME Inv, AnswersRight, [Next]_vars
    PROVE  AnswersRight'
<1>1. ASSUME input' = input, name' = name, answer' = answer PROVE AnswersRight'
  BY <1>1 DEF AnswersRight, Matched
<1>2. ASSUME input' = input, name' = name, answer' = "yes", Matched(name) PROVE AnswersRight'
  BY <1>2 DEF AnswersRight, Matched
<1>3. ASSUME input' = input, name' = name, answer' = "no", ~Matched(name) PROVE AnswersRight'
  BY <1>3 DEF AnswersRight, Matched
<1>4. CASE BuildNode \/ Index \/ UNCHANGED vars
  BY <1>1, <1>4 DEF BuildNode, Index, vars, trie
<1>5. CASE NextEdge \/ Descend
  BY <1>1, <1>5 DEF NextEdge, Descend, trie
<1>6. CASE Subdomain
  <2>1. /\ pc = "walk" /\ ~NoEdge /\ (Label = PrefixLabel \/ RootHit)
        /\ answer' = "yes" /\ input' = input /\ name' = name
    BY <1>6 DEF Subdomain, Walking, Answer, trie
  <2>2. Bit(bitmap, bmIdx) = 0
    BY <2>1, NoEdgeIs
  <2>3. Matched(name)
    BY <2>1, <2>2, MarkerHits DEF RootHit
  <2>4. QED
    BY <1>2, <2>1, <2>3
<1>7. CASE NoMatch
  <2>1. pc = "walk" /\ at < Len(name) /\ NoEdge /\ answer' = "no" /\ input' = input /\ name' = name
    BY <1>7 DEF NoMatch, Walking, Answer, trie
  <2>2. at # Len(name)
    <3>1. at \in Nat /\ Len(name) \in Nat
      BY <2>1, WalkIs
    <3>2. QED
      BY <2>1, <3>1
  <2>3. ~Matched(name)
    BY <2>1, <2>2, HitIs, NothingLeft
  <2>4. QED
    BY <1>3, <2>1, <2>3
<1>8. CASE ExactMatch
  <2>1. pc = "walk" /\ at = Len(name) /\ nodeId \in leaves /\ answer' = "yes" /\ input' = input /\ name' = name
    BY <1>8 DEF ExactMatch, Exhausted, Answer, trie
  <2>2. PICK j \in DOMAIN keys : keys[j] = Reverse(name)
    BY <2>1, LeafHits
  <2>3. Hit(keys[j], Reverse(name))
    BY <2>2 DEF Hit
  <2>4. QED
    BY <1>2, <2>1, <2>3, HitIs
<1>9. CASE Marker
  <2>1. pc = "walk" /\ at = Len(name) /\ nodeId \notin leaves /\ input' = input /\ name' = name
    BY <1>9 DEF Marker, Exhausted, trie
  <2>2. CASE NoEdge
    <3>1. answer' = "no"
      BY <1>9, <2>2 DEF Marker, Answer
    <3>2. ~Matched(name)
      BY <2>1, <2>2, HitIs, NothingLeft, LeafHits
    <3>3. QED
      BY <1>3, <2>1, <3>1, <3>2
  <2>3. CASE ~NoEdge /\ Label \in {PrefixLabel, RootLabel}
    <3>1. answer' = "yes"
      BY <1>9, <2>3 DEF Marker, Answer
    <3>2. Bit(bitmap, bmIdx) = 0
      BY <2>1, <2>3, NoEdgeIs
    <3>3. Matched(name)
      BY <2>1, <2>3, <3>2, MarkerHits
    <3>4. QED
      BY <1>2, <2>1, <3>1, <3>3
  <2>4. CASE ~NoEdge /\ Label \notin {PrefixLabel, RootLabel}
    BY <1>1, <1>9, <2>1, <2>4 DEF Marker
  <2>5. QED
    BY <2>2, <2>3, <2>4
<1>10. CASE \E d \in Names : Match(d)
  <2>1. PICK d \in Names : Match(d)
    BY <1>10
  <2>2. /\ pc = "ready" /\ name' = d /\ input' = input
        /\ answer' = IF labels = <<>> THEN "no" ELSE "none"
    BY <2>1 DEF Match, Answer, trie
  <2>3. labels = <<>> => ~Matched(d)
    <3>1. d \in Text
      BY TrieAssumption
    <3>2. QED
      BY <2>2, <3>1, NoLabels
  <2>4. QED
    BY <2>2, <2>3 DEF AnswersRight, Matched
<1>11. QED
  BY <1>4, <1>5, <1>6, <1>7, <1>8, <1>9, <1>10 DEF Next, Has

\* Match answers yes to the names that the patterns mean, and to no other.
THEOREM AnswersRightHolds == Spec => []AnswersRight
<1>1. Init => AnswersRight
  BY DEF Init, AnswersRight
<1>2. Inv /\ AnswersRight /\ [Next]_vars => AnswersRight'
  BY AnswerKept
<1>3. QED
  BY <1>1, <1>2, InvHolds, PTL DEF Spec

=============================================================================
