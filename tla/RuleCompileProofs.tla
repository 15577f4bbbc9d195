------------------------- MODULE RuleCompileProofs --------------------------
(***************************************************************************)
(* From the configuration to every answer: for configurations, databases   *)
(* and addresses of any size, building reports the first error that there  *)
(* is (BuildInv is the inductive invariant), and the rules that it made    *)
(* answer every question as the text and the raw databases say (AnswerInv, *)
(* on top of it, with the binary search of GeoIP as a machine of its own). *)
(* CompileAssumption and GeoFilesAssumption say what sound configurations, *)
(* databases and questions are.                                            *)
(*                                                                         *)
(* What a recursive function computes (ReadItems, LoadSing) is shown by    *)
(* induction over a set of numbers: the library's theorems of induction    *)
(* take an operator, which the provers cannot instantiate.                 *)
(***************************************************************************)
EXTENDS RuleCompile, FiniteSetTheorems, SequenceTheorems, WellFoundedInduction, TLAPS

-----------------------------------------------------------------------------
(* Numbers, powers and ranks                                               *)

\* A set of numbers that is closed under successors from 0 on has them all.
LEMMA NatSetInduction ==
    ASSUME NEW T, 0 \in T, \A n \in T \cap Nat : n + 1 \in T
    PROVE  Nat \subseteq T
<1>1. SUFFICES ASSUME Nat \ T # {} PROVE FALSE
  OBVIOUS
<1>2. PICK n \in Nat \ T : \A m \in Nat \ T : <<m, n>> \notin OpToRel(<, Nat)
  BY <1>1, NatLessThanWellFounded, WFMin, Nat \ T \subseteq Nat
<1>3. n # 0
  OBVIOUS
<1>4. n - 1 \in Nat /\ n - 1 < n
  BY <1>3
<1>5. n - 1 \in T
  BY <1>2, <1>4 DEF OpToRel
<1>6. (n - 1) + 1 \in T
  BY <1>4, <1>5
<1>7. QED
  BY <1>6

\* A set of numbers that is not empty has a least one.
LEMMA LeastIs ==
    ASSUME NEW S, S \subseteq Nat, S # {}
    PROVE  LeastOf(S) \in S /\ \A i \in S : LeastOf(S) <= i
<1>1. PICK n \in S : \A m \in S : <<m, n>> \notin OpToRel(<, Nat)
  BY NatLessThanWellFounded, WFMin
<1>2. \A m \in S : n <= m
  <2> TAKE m \in S
  <2>1. m \in Nat /\ n \in Nat /\ <<m, n>> \in Nat \X Nat
    OBVIOUS
  <2>2. ~(m < n)
    BY <1>1, <2>1 DEF OpToRel
  <2>3. QED
    BY <2>1, <2>2
<1>3. \E i \in S : \A j \in S : i <= j
  BY <1>2
<1>4. QED
  BY <1>3 DEF LeastOf

\* One that is bounded has a greatest one.
LEMMA GreatestIs ==
    ASSUME NEW n \in Nat, NEW S, S \subseteq 1 .. n, S # {}
    PROVE  \E i \in S : \A j \in S : j <= i
<1> DEFINE T == {n - i : i \in S}
<1>1. T \subseteq Nat /\ T # {}
  <2>1. \A i \in S : n - i \in Nat
    OBVIOUS
  <2>2. QED
    BY <2>1
<1>2. PICK t \in T : \A u \in T : t <= u
  BY <1>1, LeastIs
<1>3. PICK i \in S : t = n - i
  BY <1>2
<1>4. \A j \in S : j <= i
  <2> TAKE j \in S
  <2>1. n - j \in T /\ i \in 1 .. n /\ j \in 1 .. n
    OBVIOUS
  <2>2. n - i <= n - j
    BY <1>2, <1>3, <2>1
  <2>3. QED
    BY <2>1, <2>2
<1>5. QED
  BY <1>3, <1>4

\* A power of two is a positive number.
LEMMA PowerIs == ASSUME NEW n \in Nat PROVE 2 ^ n \in Nat \ {0}
<1>1. IsFiniteSet(1 .. n) /\ Cardinality(1 .. n) = n
  BY FS_Interval
<1>2. IsFiniteSet(SUBSET (1 .. n)) /\ Cardinality(SUBSET (1 .. n)) = 2 ^ n
  BY <1>1, FS_SUBSET
<1>3. Cardinality(SUBSET (1 .. n)) \in Nat
  BY <1>2, FS_CardinalityType
<1>4. QED
  BY <1>2, <1>3, FS_EmptySet

\* How many elements of S come before x.
Rank(S, R, x) == Cardinality({y \in S : <<y, x>> \in R})

\* In a finite set with a strict total order every rank is taken.
LEMMA RankOnto ==
    ASSUME NEW S, IsFiniteSet(S), NEW R \in SUBSET (S \X S),
           \A x \in S : <<x, x>> \notin R,
           \A x, y \in S : x = y \/ <<x, y>> \in R \/ <<y, x>> \in R,
           \A x, y, z \in S : <<x, y>> \in R /\ <<y, z>> \in R => <<x, z>> \in R
    PROVE  /\ \A k \in 1 .. Cardinality(S) : \E x \in S : Rank(S, R, x) = k - 1
           /\ \A x \in S : Rank(S, R, x) \in 0 .. Cardinality(S) - 1
           /\ \A x, y \in S : <<x, y>> \in R => Rank(S, R, x) < Rank(S, R, y)
<1> DEFINE Below0(x) == {y \in S : <<y, x>> \in R}
           rank == [x \in S |-> Cardinality(Below0(x))]
           n == Cardinality(S)
<1>1. n \in Nat
  BY FS_CardinalityType
<1>2. \A x \in S : IsFiniteSet(Below0(x)) /\ Cardinality(Below0(x)) \in Nat
  <2> TAKE x \in S
  <2>1. Below0(x) \in SUBSET S
    OBVIOUS
  <2>2. IsFiniteSet(Below0(x))
    BY <2>1, FS_Subset
  <2>3. QED
    BY <2>2, FS_CardinalityType
<1>3. \A x \in S : rank[x] \in 0 .. n - 1
  <2> TAKE x \in S
  <2>1. Below0(x) \in SUBSET S /\ Below0(x) # S
    OBVIOUS
  <2>2. Cardinality(Below0(x)) <= n /\ Cardinality(Below0(x)) # n
    BY <2>1, FS_Subset
  <2>3. QED
    BY <1>1, <1>2, <2>2
<1>4. \A x, y \in S : <<x, y>> \in R => rank[x] < rank[y]
  <2> SUFFICES ASSUME NEW x \in S, NEW y \in S, <<x, y>> \in R PROVE rank[x] < rank[y]
    OBVIOUS
  <2>1. Below0(x) \in SUBSET Below0(y) /\ Below0(x) # Below0(y)
    OBVIOUS
  <2>2. Cardinality(Below0(x)) <= Cardinality(Below0(y)) /\ Cardinality(Below0(x)) # Cardinality(Below0(y))
    BY <1>2, <2>1, FS_Subset
  <2>3. QED
    BY <1>2, <2>2
<1>5. rank \in Injection(S, 0 .. n - 1)
  <2>1. rank \in [S -> 0 .. n - 1]
    BY <1>3
  <2>2. \A x, y \in S : rank[x] = rank[y] => x = y
    <3> SUFFICES ASSUME NEW x \in S, NEW y \in S, rank[x] = rank[y], x # y PROVE FALSE
      OBVIOUS
    <3>1. rank[x] \in Int /\ rank[y] \in Int
      BY <1>1, <1>3
    <3> HIDE DEF rank, n
    <3>2. <<x, y>> \in R \/ <<y, x>> \in R
      OBVIOUS
    <3>3. rank[x] < rank[y] \/ rank[y] < rank[x]
      BY <1>4, <3>2
    <3>4. QED
      BY <3>1, <3>3
  <2> HIDE DEF rank
  <2>3. QED
    BY <2>1, <2>2 DEF Injection, IsInjective
<1>6. IsFiniteSet(0 .. n - 1) /\ Cardinality(0 .. n - 1) = n
  <2> HIDE DEF n
  <2>1. 0 \in Int /\ n - 1 \in Int /\ (n - 1) - 0 + 1 = n /\ (0 > n - 1 => n = 0)
    BY <1>1
  <2>2. QED
    BY <2>1, FS_Interval
<1>7. rank \in Surjection(S, 0 .. n - 1)
  <2> HIDE DEF rank, n
  <2>1. Cardinality(S) = Cardinality(0 .. n - 1)
    BY <1>6 DEF n
  <2>2. QED
    BY <1>5, <1>6, <2>1, FS_Injection
<1>8. \A k \in 0 .. n - 1 : \E x \in S : rank[x] = k
  <2> HIDE DEF rank, n
  <2>1. QED
    BY <1>7 DEF Surjection
<1>9. \A k \in 1 .. n : \E x \in S : rank[x] = k - 1
  <2> TAKE k \in 1 .. n
  <2>1. k - 1 \in 0 .. n - 1
    BY <1>1
  <2> HIDE DEF rank, n
  <2>2. QED
    BY <1>8, <2>1
<1>10. \A x \in S : rank[x] = Rank(S, R, x)
  BY DEF Rank
<1> HIDE DEF rank, n
<1>11. QED
  BY <1>3, <1>4, <1>9, <1>10 DEF n

-----------------------------------------------------------------------------
(* From CIDRs to a sorted list of networks                                 *)

\* The networks of a set, each once, by rising address.
LEMMA ByAddressIs ==
    ASSUME NEW S, IsFiniteSet(S), S \subseteq Nets, \A a, b \in S : a.ip = b.ip => a = b
    PROVE  /\ ByAddress(S) \in Seq(S) /\ Len(ByAddress(S)) = Cardinality(S)
           /\ \A j, k \in DOMAIN ByAddress(S) : j < k => ByAddress(S)[j].ip < ByAddress(S)[k].ip
           /\ \A n \in S : \E k \in DOMAIN ByAddress(S) : ByAddress(S)[k] = n
<1> DEFINE R == {p \in S \X S : p[1].ip < p[2].ip}
           below(x) == Cardinality({m \in S : m.ip < x.ip})
           list == ByAddress(S)
           n == Cardinality(S)
<1>1. \A x \in S : x.ip \in Nat
  BY DEF Nets
<1>2. \A x, y \in S : <<x, y>> \in R <=> x.ip < y.ip
  OBVIOUS
<1>4. /\ R \in SUBSET (S \X S)
      /\ \A x \in S : <<x, x>> \notin R
      /\ \A x, y \in S : x = y \/ <<x, y>> \in R \/ <<y, x>> \in R
      /\ \A x, y, z \in S : <<x, y>> \in R /\ <<y, z>> \in R => <<x, z>> \in R
  <2>1. R \in SUBSET (S \X S)
    OBVIOUS
  <2> HIDE DEF R
  <2>2. QED
    BY <1>1, <1>2, <2>1
<1>5. /\ \A k \in 1 .. n : \E x \in S : Rank(S, R, x) = k - 1
      /\ \A x \in S : Rank(S, R, x) \in 0 .. n - 1
      /\ \A x, y \in S : x.ip < y.ip => Rank(S, R, x) < Rank(S, R, y)
  <2> HIDE DEF R
  <2>1. QED
    BY <1>2, <1>4, RankOnto
<1>6. n \in Nat
  BY FS_CardinalityType
<1>7. list = [k \in 1 .. n |-> CHOOSE x \in S : below(x) = k - 1]
  BY DEF ByAddress
<1>71. \A x \in S : below(x) = Rank(S, R, x)
  <2>1. \A x \in S : {m \in S : m.ip < x.ip} = {y \in S : <<y, x>> \in R}
    BY <1>2
  <2> HIDE DEF R
  <2>2. QED
    BY <2>1 DEF Rank
<1> HIDE DEF list, n, R, below
<1>8. DOMAIN list = 1 .. n /\ \A k \in 1 .. n : list[k] \in S /\ Rank(S, R, list[k]) = k - 1
  BY <1>5, <1>7, <1>71
<1>9. list \in Seq(S) /\ Len(list) = n
  BY <1>6, <1>7, <1>8
<1>10. \A x \in S : \E k \in DOMAIN list : list[k] = x
  <2> TAKE x \in S
  <2>1. Rank(S, R, x) \in 0 .. n - 1
    BY <1>5
  <2>2. Rank(S, R, x) + 1 \in 1 .. n /\ Rank(S, R, x) + 1 - 1 = Rank(S, R, x)
    BY <1>6, <2>1
  <2> DEFINE k == Rank(S, R, x) + 1
  <2>3. Rank(S, R, list[k]) = k - 1 /\ list[k] \in S
    BY <1>8, <2>2
  <2>4. ~(list[k].ip < x.ip) /\ ~(x.ip < list[k].ip)
    BY <1>5, <2>1, <2>2, <2>3
  <2>5. list[k].ip = x.ip
    BY <1>1, <2>3, <2>4
  <2>6. QED
    BY <1>8, <2>2, <2>3, <2>5
<1>11. \A j, k \in DOMAIN list : j < k => list[j].ip < list[k].ip
  <2> SUFFICES ASSUME NEW j \in DOMAIN list, NEW k \in DOMAIN list, j < k PROVE list[j].ip < list[k].ip
    OBVIOUS
  <2>1. list[j] \in S /\ list[k] \in S /\ Rank(S, R, list[j]) = j - 1 /\ Rank(S, R, list[k]) = k - 1 /\ j \in Int /\ k \in Int
    BY <1>8
  <2>2. ~(list[k].ip < list[j].ip)
    BY <1>5, <2>1
  <2>3. list[j].ip # list[k].ip
    BY <2>1
  <2>4. QED
    BY <1>1, <2>1, <2>2, <2>3
<1>12. QED
  BY <1>9, <1>10, <1>11 DEF list, n

\* Addresses of either family have bits, IPv6 ones more.
LEMMA BitsAre == /\ Bits4 \in Nat /\ Bits6 \in Nat /\ Bits4 <= Bits6 /\ Bits4 # 0
                 /\ \A bytes : BitsOf(bytes) \in Nat
BY GeoFilesAssumption DEF BitsOf

\* The numbers of one block are those with the same quotient.
LEMMA DivSame ==
    ASSUME NEW a \in Nat, NEW b \in Nat, NEW n \in Nat \ {0}
    PROVE  a - (a % n) <= b /\ b < (a - (a % n)) + n <=> a \div n = b \div n
<1>1. a = n * (a \div n) + (a % n) /\ (a % n) \in 0 .. n - 1 /\ a \div n \in Int
  OBVIOUS
<1>2. b = n * (b \div n) + (b % n) /\ (b % n) \in 0 .. n - 1 /\ b \div n \in Int
  OBVIOUS
<1>3. ASSUME a \div n = b \div n PROVE a - (a % n) <= b /\ b < (a - (a % n)) + n
  BY <1>1, <1>2, <1>3
<1>4. ASSUME a - (a % n) <= b, b < (a - (a % n)) + n PROVE a \div n = b \div n
  <2> DEFINE p == a \div n
             q == b \div n
  <2>1. n * p <= n * q + (n - 1) /\ n * q < n * p + n
    BY <1>1, <1>2, <1>4
  <2>2. p \in Int /\ q \in Int
    BY <1>1, <1>2
  <2> HIDE DEF p, q
  <2>3. ~(p < q) 
    <3>1. SUFFICES ASSUME p < q PROVE FALSE
      OBVIOUS
    <3>2. n * (p + 1) <= n * q
      BY <2>2, <3>1
    <3>3. QED
      BY <2>1, <2>2, <3>2
  <2>4. ~(q < p)
    <3>1. SUFFICES ASSUME q < p PROVE FALSE
      OBVIOUS
    <3>2. n * (q + 1) <= n * p
      BY <2>2, <3>1
    <3>3. QED
      BY <2>1, <2>2, <3>2
  <2>5. QED
    BY <2>2, <2>3, <2>4 DEF p, q
<1>5. QED
  BY <1>3, <1>4

\* A network contains the addresses that begin like its own.
LEMMA NetIs ==
    ASSUME NEW c, NEW bits \in Nat, c.ip \in Nat, c.prefix \in 0 .. bits
    PROVE  /\ Net(c, bits) \in Nets /\ Net(c, bits).ip = c.ip
           /\ \A ip \in Nat : NetContains(Net(c, bits), ip) <=> SamePrefix(c.ip, ip, c.prefix, bits)
<1> DEFINE size == 2 ^ (bits - c.prefix)
<1>1. bits - c.prefix \in Nat /\ ~(c.prefix > bits)
  OBVIOUS
<1>2. size \in Nat \ {0}
  BY <1>1, PowerIs
<1>3. Net(c, bits) = [ip |-> c.ip, size |-> size]
  BY <1>1 DEF Net
<1>4. ASSUME NEW ip \in Nat
      PROVE  NetContains(Net(c, bits), ip) <=> SamePrefix(c.ip, ip, c.prefix, bits)
  <2> HIDE DEF size
  <2>1. NetContains(Net(c, bits), ip) <=> c.ip - (c.ip % size) <= ip /\ ip < (c.ip - (c.ip % size)) + size
    BY <1>2, <1>3 DEF NetContains, Base
  <2>2. c.ip - (c.ip % size) <= ip /\ ip < (c.ip - (c.ip % size)) + size <=> c.ip \div size = ip \div size
    BY <1>2, DivSame
  <2>3. QED
    BY <2>1, <2>2 DEF SamePrefix, size
<1>5. QED
  <2> HIDE DEF size
  <2>1. QED
    BY <1>2, <1>3, <1>4 DEF Nets

\* A list of networks, none in another, is one that can be searched, and it
\* holds the addresses of its networks.
LEMMA NetListIs ==
    ASSUME NEW cidrs, SoundCIDRs(cidrs), NEW bytes
    PROVE  LET list == ByAddress(NetsOf(cidrs, bytes))
           IN  /\ list \in Seq(Nets) /\ Sorted(list) /\ Disjoint(list)
               /\ \A ip \in Nat :
                     (\E k \in DOMAIN list : NetContains(list[k], ip)) <=>
                     (\E c \in cidrs : c.bytes = bytes /\ SamePrefix(c.ip, ip, c.prefix, BitsOf(bytes)))
<1> DEFINE mine == {d \in cidrs : d.bytes = bytes}
           all  == NetsOf(cidrs, bytes)
           bits == BitsOf(bytes)
           list == ByAddress(all)
<1>1. all = {Net(c, bits) : c \in mine} /\ bits \in Nat
  BY BitsAre DEF NetsOf
<1>2. \A c \in mine : c.ip \in Nat /\ c.prefix \in 0 .. bits
  BY DEF SoundCIDRs
<1>3. \A c \in mine : /\ Net(c, bits) \in Nets /\ Net(c, bits).ip = c.ip
                      /\ \A ip \in Nat : NetContains(Net(c, bits), ip) <=> SamePrefix(c.ip, ip, c.prefix, bits)
  <2> HIDE DEF mine, bits
  <2>1. QED
    BY <1>1, <1>2, NetIs
<1>4. \A c, d \in mine : c # d => ~SamePrefix(c.ip, d.ip, c.prefix, bits)
  BY DEF SoundCIDRs
<1>5. IsFiniteSet(all)
  <2>1. IsFiniteSet(mine)
    <3>1. mine \in SUBSET cidrs /\ IsFiniteSet(cidrs)
      BY DEF SoundCIDRs
    <3> HIDE DEF mine
    <3>2. QED
      BY <3>1, FS_Subset
  <2>2. [c \in mine |-> Net(c, bits)] \in Surjection(mine, all)
    <3> HIDE DEF mine, bits, all
    <3>1. QED
      BY <1>1 DEF Surjection
  <2> HIDE DEF mine, bits, all
  <2>3. QED
    BY <2>1, <2>2, FS_Surjection
<1> HIDE DEF mine, bits, all
<1>6. all \subseteq Nets
  BY <1>1, <1>3
<1>7. ASSUME NEW c \in mine, NEW d \in mine, c.ip = d.ip PROVE c = d
  <2>1. SamePrefix(c.ip, d.ip, c.prefix, bits)
    BY <1>7 DEF SamePrefix
  <2>2. QED
    BY <1>4, <2>1
<1>8. \A a, b \in all : a.ip = b.ip => a = b
  BY <1>1, <1>3, <1>7
<1>9. /\ list \in Seq(all)
      /\ \A j, k \in DOMAIN list : j < k => list[j].ip < list[k].ip
      /\ \A n \in all : \E k \in DOMAIN list : list[k] = n
  BY <1>5, <1>6, <1>8, ByAddressIs
<1> HIDE DEF list
<1>10. \A k \in DOMAIN list : list[k] \in all /\ list[k].ip \in Nat /\ k \in Nat
  <2>1. \A k \in DOMAIN list : list[k] \in all /\ k \in Nat
    BY <1>9
  <2>2. QED
    BY <1>6, <2>1 DEF Nets
<1>11. list \in Seq(Nets)
  BY <1>6, <1>9
<1>12. Sorted(list)
  BY <1>9, <1>10 DEF Sorted
<1>13. Disjoint(list)
  <2> SUFFICES ASSUME NEW j \in DOMAIN list, NEW k \in DOMAIN list, j # k
               PROVE  ~NetContains(list[j], list[k].ip)
    BY DEF Disjoint
  <2>1. PICK c \in mine, d \in mine : list[j] = Net(c, bits) /\ list[k] = Net(d, bits)
    BY <1>1, <1>10
  <2>2. list[j].ip # list[k].ip
    <3>1. j < k \/ k < j
      BY <1>10
    <3>2. list[j].ip < list[k].ip \/ list[k].ip < list[j].ip
      BY <1>9, <3>1
    <3>3. QED
      BY <1>10, <3>2
  <2>3. c # d
    BY <2>1, <2>2
  <2>4. ~SamePrefix(c.ip, d.ip, c.prefix, bits)
    BY <1>4, <2>3
  <2>5. QED
    BY <1>2, <1>3, <2>1, <2>4
<1>14. ASSUME NEW ip \in Nat
       PROVE (\E k \in DOMAIN list : NetContains(list[k], ip)) <=> (\E c \in mine : SamePrefix(c.ip, ip, c.prefix, bits))
  <2>1. (\E k \in DOMAIN list : NetContains(list[k], ip)) <=> (\E n \in all : NetContains(n, ip))
    BY <1>9, <1>10
  <2>2. QED
    BY <1>1, <1>3, <2>1
<1>15. QED
  BY <1>11, <1>12, <1>13, <1>14 DEF list, mine, bits, all

-----------------------------------------------------------------------------
(* V2Ray files and trees                                                   *)

\* The two kinds of databases.
Kinds == {"geoip", "geosite"}

\* A database that is readable is the one that its file makes; of any other
\* no list can be had.
LEMMA LoadIs ==
    ASSUME NEW kind \in Kinds, NEW source, SoundSource(kind, source)
    PROVE  /\ Readable(kind, source) =>
                 Load(kind, source) = LoadFile(kind, source.file.format, source.file)
           /\ ~Readable(kind, source) => ~Load(kind, source).ok \/ DOMAIN Load(kind, source).map = {}
<1> DEFINE format == IF source.format # "none" THEN source.format ELSE Detected(kind, source.extension)
<1>1. /\ source.given \in BOOLEAN
      /\ source.format \in Formats(kind) \cup {"none"}
      /\ "none" \notin Formats(kind)
  BY DEF SoundSource, Formats
<1>2. ASSUME Readable(kind, source) PROVE source.given /\ format = source.file.format /\ format # "none"
  BY <1>1, <1>2 DEF Readable, Detected
<1>3. ASSUME source.given, format # "none", format = source.file.format PROVE Readable(kind, source)
  BY <1>1, <1>3 DEF Readable, Detected
<1>4. /\ ~source.given => DOMAIN Load(kind, source).map = {}
      /\ source.given /\ format = "none" => ~Load(kind, source).ok
      /\ source.given /\ format # "none" => Load(kind, source) = LoadFile(kind, format, source.file)
  BY DEF Load, Loaded, NoMap, Failed
<1>5. ASSUME format # source.file.format PROVE ~LoadFile(kind, format, source.file).ok
  BY <1>5 DEF LoadFile, Failed
<1> HIDE DEF format
<1>6. QED
  BY <1>1, <1>2, <1>3, <1>4, <1>5

\* A V2Ray file whose codes differ has one list per code, its entry.
LEMMA LoadDatIs ==
    ASSUME NEW entries, IsSeq(entries), DistinctCodes(entries)
    PROVE  /\ LoadDat(entries).ok
           /\ DOMAIN LoadDat(entries).map = {Lower(entries[i].code) : i \in DOMAIN entries}
           /\ \A i \in DOMAIN entries : LoadDat(entries).map[Lower(entries[i].code)] = entries[i]
<1> DEFINE last(code) == CHOOSE i \in DOMAIN entries :
                               /\ Lower(entries[i].code) = code
                               /\ \A j \in DOMAIN entries : Lower(entries[j].code) = code => j <= i
<1>1. LoadDat(entries) = [ok |-> TRUE, map |-> [code \in {Lower(entries[i].code) : i \in DOMAIN entries} |-> entries[last(code)]]]
  BY DEF LoadDat, Loaded
<1>2. \A i \in DOMAIN entries : last(Lower(entries[i].code)) = i
  <2> TAKE i \in DOMAIN entries
  <2> DEFINE code == Lower(entries[i].code)
             P(x) == /\ Lower(entries[x].code) = code
                     /\ \A j \in DOMAIN entries : Lower(entries[j].code) = code => j <= x
  <2>1. \A j \in DOMAIN entries : j \in Int
    BY DEF IsSeq
  <2>2. P(i)
    BY <2>1 DEF DistinctCodes
  <2>3. \A x \in DOMAIN entries : P(x) => x = i
    BY DEF DistinctCodes
  <2> HIDE DEF P
  <2>4. (CHOOSE x \in DOMAIN entries : P(x)) = i
    BY <2>2, <2>3
  <2>5. QED
    BY <2>4 DEF P
<1> HIDE DEF last
<1>3. QED
  BY <1>1, <1>2

\* The networks of a code, and their CIDRs in a list.
Coded(networks, code) == {n \in networks : \E c \in n.codes : Lower(c) = code}

\* Their addresses.
Shortened(networks) == {To4(n.cidr) : n \in networks}

\* The list of a code that a tree becomes.
LEMMA ByCodeIs ==
    ASSUME NEW networks, NEW code
    PROVE  /\ ByCode(networks).ok
           /\ code \in DOMAIN ByCode(networks).map <=> Coded(networks, code) # {}
           /\ code \in DOMAIN ByCode(networks).map =>
                /\ ByCode(networks).map[code].inverse = FALSE
                /\ ByCode(networks).map[code].cidrs = Shortened(Coded(networks, code))
BY DEF ByCode, Loaded, Coded, Shortened

\* The CIDR of a network of a tree with IPv4 addresses only.
CIDR4(n)  == [bytes |-> 4, ip |-> n.ip, prefix |-> n.prefix]
CIDRs4(s) == {CIDR4(n) : n \in s}

\* A tree of version 4 has a list for each code, of its networks.
LEMMA Networks4 ==
    ASSUME NEW db, db.version = 4, NEW skipAliased \in BOOLEAN, NEW code
    PROVE  LET list == ByCode(Networks(db, skipAliased))
           IN  /\ code \in DOMAIN list.map <=> Coded(db.nets, code) # {}
               /\ code \in DOMAIN list.map =>
                     list.map[code].cidrs = CIDRs4(Coded(db.nets, code))
<1> DEFINE networks == Networks(db, skipAliased)
           full(n)  == [cidr |-> CIDR4(n), codes |-> n.codes]
<1>1. networks = {full(n) : n \in db.nets}
  BY DEF Networks, CIDR4
<1>2. \A n : full(n).cidr = CIDR4(n) /\ full(n).codes = n.codes /\ To4(CIDR4(n)) = CIDR4(n)
  BY DEF CIDR4, To4
<1> HIDE DEF networks, full
<1>3. Coded(networks, code) = {full(n) : n \in Coded(db.nets, code)}
  BY <1>1, <1>2 DEF Coded
<1>4. Shortened(Coded(networks, code)) = CIDRs4(Coded(db.nets, code))
  BY <1>2, <1>3 DEF Shortened, CIDRs4
<1>5. Coded(networks, code) = {} <=> Coded(db.nets, code) = {}
  BY <1>3
<1>6. QED
  BY <1>4, <1>5, ByCodeIs DEF networks

\* What a network of a tree of version 6 becomes.
CIDR6(n) ==
    IF InIPv4Subtree(n) THEN [bytes |-> 4, ip |-> n.ip, prefix |-> n.prefix - (Bits6 - Bits4)]
    ELSE [bytes |-> 16, ip |-> n.ip, prefix |-> n.prefix]
CIDRs6(s) == {CIDR6(n) : n \in s}

\* A tree of version 6 read without aliases: the IPv4 subtree as IPv4 networks.
LEMMA Networks6 ==
    ASSUME NEW db, db.version = 6, SoundTree(db), NEW code
    PROVE  LET list == ByCode(Networks(db, TRUE))
           IN  /\ code \in DOMAIN list.map <=> Coded(db.nets, code) # {}
               /\ code \in DOMAIN list.map =>
                     list.map[code].cidrs = CIDRs6(Coded(db.nets, code))
<1> DEFINE networks == Networks(db, TRUE)
           full(n)  == [cidr |-> CIDR6(n), codes |-> n.codes]
<1>1. networks = {full(n) : n \in db.nets}
  <2>1. networks = {IF InIPv4Subtree(net)
                    THEN [cidr |-> [bytes |-> 4, ip |-> net.ip, prefix |-> net.prefix - (Bits6 - Bits4)], codes |-> net.codes]
                    ELSE [cidr |-> [bytes |-> 16, ip |-> net.ip, prefix |-> net.prefix], codes |-> net.codes] : net \in db.nets}
    BY DEF Networks
  <2>2. \A n : full(n) = IF InIPv4Subtree(n)
                    THEN [cidr |-> [bytes |-> 4, ip |-> n.ip, prefix |-> n.prefix - (Bits6 - Bits4)], codes |-> n.codes]
                    ELSE [cidr |-> [bytes |-> 16, ip |-> n.ip, prefix |-> n.prefix], codes |-> n.codes]
    BY DEF CIDR6
  <2> HIDE DEF networks, full
  <2>3. QED
    BY <2>1, <2>2
<1>2. \A n \in db.nets : full(n).cidr = CIDR6(n) /\ full(n).codes = n.codes
  OBVIOUS
<1>3. \A n \in db.nets : To4(CIDR6(n)) = CIDR6(n)
  <2> TAKE n \in db.nets
  <2>1. CASE InIPv4Subtree(n)
    BY <2>1 DEF CIDR6, To4
  <2>2. CASE ~InIPv4Subtree(n)
    <3>1. n.ip \notin MappedOnes
      BY <2>2 DEF SoundTree
    <3>2. QED
      BY <2>2, <3>1 DEF CIDR6, To4
  <2>3. QED
    BY <2>1, <2>2
<1> HIDE DEF networks, full
<1>4. Coded(networks, code) = {full(n) : n \in Coded(db.nets, code)}
  BY <1>1, <1>2 DEF Coded
<1>5. Shortened(Coded(networks, code)) = CIDRs6(Coded(db.nets, code))
  <2>1. Coded(db.nets, code) \subseteq db.nets
    BY DEF Coded
  <2>2. QED
    BY <1>2, <1>3, <1>4, <2>1 DEF Shortened, CIDRs6
<1>6. Coded(networks, code) = {} <=> Coded(db.nets, code) = {}
  BY <1>4
<1>7. QED
  BY <1>5, <1>6, ByCodeIs DEF networks

\* A reader that does not skip them has the same codes, and addresses of 4 or
\* of 16 bytes.
LEMMA NetworksAll ==
    ASSUME NEW db, db.version = 6, NEW code
    PROVE  LET list == ByCode(Networks(db, FALSE))
           IN  /\ code \in DOMAIN list.map <=> Coded(db.nets, code) # {}
               /\ code \in DOMAIN list.map => \A c \in list.map[code].cidrs : c.bytes \in {4, 16}
<1> DEFINE networks == Networks(db, FALSE)
           plain(n) == [cidr |-> [bytes |-> 16, ip |-> n.ip, prefix |-> n.prefix], codes |-> n.codes]
           alias(n) == [cidr |-> [bytes |-> 16, ip |-> n.ip + Mapped, prefix |-> n.prefix], codes |-> n.codes]
           low == {n \in db.nets : db.aliased /\ InIPv4Subtree(n)}
<1>1. networks = {plain(n) : n \in db.nets} \cup {alias(n) : n \in low}
  BY DEF Networks
<1>2. \A n \in db.nets : /\ plain(n).cidr.bytes = 16 /\ alias(n).cidr.bytes = 16
                         /\ plain(n).codes = n.codes /\ alias(n).codes = n.codes
  OBVIOUS
<1>3. low \subseteq db.nets
  OBVIOUS
<1> HIDE DEF networks, plain, alias, low
<1>4. \A n \in networks : n.cidr.bytes = 16 /\ \E m \in db.nets : n.codes = m.codes
  BY <1>1, <1>2, <1>3
<1>5. \A m \in db.nets : \E n \in networks : n.codes = m.codes
  BY <1>1, <1>2
<1>6. Coded(networks, code) = {} <=> Coded(db.nets, code) = {}
  BY <1>4, <1>5 DEF Coded
<1>7. \A c \in Shortened(Coded(networks, code)) : c.bytes \in {4, 16}
  <2>1. \A n \in Coded(networks, code) : n.cidr.bytes = 16
    BY <1>4 DEF Coded
  <2>2. \A n \in Coded(networks, code) : To4(n.cidr).bytes \in {4, 16}
    BY <2>1 DEF To4
  <2>3. QED
    BY <2>2 DEF Shortened
<1>8. QED
  BY <1>6, <1>7, ByCodeIs DEF networks

\* An address that a question may have.
AddrOK(addr) == \/ addr.bytes = 4 /\ addr.number \in 0 .. 2 ^ Bits4 - 1
                \/ addr.bytes = 16 /\ addr.number \in 2 ^ Bits4 .. 2 ^ Bits6 - 1

\* Does a list have it?
Holds(cidrs, addr) ==
    \E c \in cidrs : c.bytes = addr.bytes /\ SamePrefix(c.ip, addr.number, c.prefix, BitsOf(c.bytes))

\* The bits of its addresses.
TreeBits(db) == IF db.version = 4 THEN Bits4 ELSE Bits6

\* CIDRs that are made of a tree's networks, and leave as many bits open.
LEMMA OfNetworks ==
    ASSUME NEW db, SoundTree(db), NEW mine \in SUBSET db.nets, NEW C, NEW cidr \in [mine -> C],
           \A n \in mine : /\ cidr[n].ip = n.ip /\ cidr[n].prefix \in 0 .. BitsOf(cidr[n].bytes)
                           /\ BitsOf(cidr[n].bytes) - cidr[n].prefix = TreeBits(db) - n.prefix
    PROVE  SoundCIDRs(Range(cidr))
<1> DEFINE cidrs == Range(cidr)
           bits  == TreeBits(db)
<1>0. cidrs = {cidr[n] : n \in mine}
  BY DEF Range
<1>1. IsFiniteSet(cidrs)
  <2>1. IsFiniteSet(mine)
    BY FS_Subset DEF SoundTree
  <2>2. cidr \in Surjection(mine, cidrs)
    BY <1>0 DEF Surjection
  <2>3. QED
    BY <2>1, <2>2, FS_Surjection
<1>2. \A n \in mine : \A x : SamePrefix(cidr[n].ip, x, cidr[n].prefix, BitsOf(cidr[n].bytes)) <=> SamePrefix(n.ip, x, n.prefix, bits)
  BY DEF SamePrefix
<1>3. \A n, m \in mine : n # m => ~SamePrefix(n.ip, m.ip, n.prefix, bits)
  BY DEF SoundTree, TreeBits
<1>4. \A n \in mine : n.ip \in Nat
  BY DEF SoundTree
<1> HIDE DEF cidrs, bits
<1>5. SoundCIDRs(cidrs)
  <2>1. \A c \in cidrs : c.ip \in Nat /\ c.prefix \in 0 .. BitsOf(c.bytes)
    BY <1>0, <1>4
  <2>2. ASSUME NEW c \in cidrs, NEW d \in cidrs, c # d
        PROVE  ~SamePrefix(c.ip, d.ip, c.prefix, BitsOf(c.bytes))
    <3>1. PICK n \in mine, m \in mine : c = cidr[n] /\ d = cidr[m]
      BY <1>0
    <3>2. n # m
      BY <2>2, <3>1
    <3>3. QED
      BY <1>2, <1>3, <3>1, <3>2
  <2>3. QED
    BY <1>1, <2>1, <2>2 DEF SoundCIDRs
<1>6. QED
  BY <1>5 DEF cidrs

\* The list of a tree of version 4 is sound, and holds the addresses of the
\* country.
LEMMA TreeList4 ==
    ASSUME NEW db, db.version = 4, SoundTree(db), NEW mine \in SUBSET db.nets
    PROVE  /\ SoundCIDRs(CIDRs4(mine))
           /\ \A addr : Holds(CIDRs4(mine), addr) <=>
                 \E n \in mine : addr.bytes = 4 /\ SamePrefix(n.ip, addr.number, n.prefix, Bits4)
<1> DEFINE cidr == [n \in mine |-> CIDR4(n)]
<1>1. \A n \in mine : cidr[n] = CIDR4(n)
  OBVIOUS
<1>2. cidr \in [mine -> {CIDR4(n) : n \in mine}]
  OBVIOUS
<1>3. \A n \in mine : /\ cidr[n].ip = n.ip /\ cidr[n].bytes = 4
                      /\ cidr[n].prefix \in 0 .. BitsOf(cidr[n].bytes)
                      /\ BitsOf(cidr[n].bytes) - cidr[n].prefix = Bits4 - n.prefix
  BY <1>1 DEF CIDR4, BitsOf, SoundTree
<1> HIDE DEF cidr
<1>4. TreeBits(db) = Bits4
  BY DEF TreeBits
<1>5. /\ SoundCIDRs(Range(cidr))
      /\ \A addr : Holds(Range(cidr), addr) <=>
            \E n \in mine : cidr[n].bytes = addr.bytes /\ SamePrefix(n.ip, addr.number, n.prefix, Bits4)
  <2>1. \A n \in mine : /\ cidr[n].ip = n.ip /\ cidr[n].prefix \in 0 .. BitsOf(cidr[n].bytes)
                        /\ BitsOf(cidr[n].bytes) - cidr[n].prefix = TreeBits(db) - n.prefix
    BY <1>3, <1>4
  <2>2. SoundCIDRs(Range(cidr))
    BY <1>2, <2>1, OfNetworks
  <2>3. \A n \in mine : \A x : SamePrefix(cidr[n].ip, x, cidr[n].prefix, BitsOf(cidr[n].bytes)) <=> SamePrefix(n.ip, x, n.prefix, Bits4)
    BY <1>3 DEF SamePrefix
  <2>4. Range(cidr) = {cidr[n] : n \in mine}
    BY <1>2 DEF Range
  <2>5. QED
    BY <2>2, <2>3, <2>4 DEF Holds
<1>6. Range(cidr) = CIDRs4(mine)
  BY <1>1, <1>2 DEF Range, CIDRs4
<1>7. \A addr : Holds(Range(cidr), addr) <=>
            \E n \in mine : addr.bytes = 4 /\ SamePrefix(n.ip, addr.number, n.prefix, Bits4)
  BY <1>3, <1>5
<1>8. QED
  BY <1>5, <1>6, <1>7

\* So is, and does, that of a tree of version 6.
LEMMA TreeList6 ==
    ASSUME NEW db, db.version = 6, SoundTree(db), NEW mine \in SUBSET db.nets
    PROVE  /\ SoundCIDRs(CIDRs6(mine))
           /\ \A addr : AddrOK(addr) =>
                 (Holds(CIDRs6(mine), addr) <=>
                  \E n \in mine : SamePrefix(n.ip, addr.number, n.prefix, Bits6))
<1> DEFINE cidr == [n \in mine |-> CIDR6(n)]
<1>1. \A n \in mine : cidr[n] = CIDR6(n)
  OBVIOUS
<1>2. cidr \in [mine -> {CIDR6(n) : n \in mine}]
  OBVIOUS
<1> HIDE DEF cidr
<1>3. \A n \in mine :
         /\ n.ip \in Nat /\ n.prefix \in 0 .. Bits6 /\ n.ip % 2 ^ (Bits6 - n.prefix) = 0
         /\ \/ InIPv4Subtree(n) /\ n.ip + 2 ^ (Bits6 - n.prefix) <= 2 ^ Bits4
            \/ n.ip >= 2 ^ Bits4 /\ n.ip \notin MappedOnes
  BY DEF SoundTree
<1>4. \A n \in mine : 2 ^ (Bits6 - n.prefix) \in Nat \ {0}
  <2> TAKE n \in mine
  <2>1. Bits6 - n.prefix \in Nat
    BY <1>3, BitsAre
  <2>2. QED
    BY <2>1, PowerIs
<1>5. 2 ^ Bits4 \in Nat \ {0}
  BY BitsAre, PowerIs
<1>6. \A n \in mine : /\ cidr[n].ip = n.ip
                      /\ cidr[n].bytes = IF InIPv4Subtree(n) THEN 4 ELSE 16
                      /\ cidr[n].prefix \in 0 .. BitsOf(cidr[n].bytes)
                      /\ BitsOf(cidr[n].bytes) - cidr[n].prefix = Bits6 - n.prefix
  <2> TAKE n \in mine
  <2>1. CASE InIPv4Subtree(n)
    <3>1. cidr[n] = [bytes |-> 4, ip |-> n.ip, prefix |-> n.prefix - (Bits6 - Bits4)]
      BY <1>1, <2>1 DEF CIDR6
    <3>2. n.prefix >= Bits6 - Bits4 /\ n.prefix \in 0 .. Bits6 /\ Bits6 \in Nat /\ Bits4 \in Nat
      BY <1>3, <2>1, BitsAre DEF InIPv4Subtree
    <3>3. BitsOf(4) = Bits4
      BY DEF BitsOf
    <3>4. QED
      BY <2>1, <3>1, <3>2, <3>3
  <2>2. CASE ~InIPv4Subtree(n)
    <3>1. cidr[n] = [bytes |-> 16, ip |-> n.ip, prefix |-> n.prefix]
      BY <1>1, <2>2 DEF CIDR6
    <3>2. BitsOf(16) = Bits6
      BY DEF BitsOf
    <3>3. QED
      BY <1>3, <2>2, <3>1, <3>2
  <2>3. QED
    BY <2>1, <2>2
<1>7. TreeBits(db) = Bits6
  BY DEF TreeBits
<1>8. /\ SoundCIDRs(Range(cidr))
      /\ \A addr : Holds(Range(cidr), addr) <=>
            \E n \in mine : cidr[n].bytes = addr.bytes /\ SamePrefix(n.ip, addr.number, n.prefix, Bits6)
  <2>1. \A n \in mine : /\ cidr[n].ip = n.ip /\ cidr[n].prefix \in 0 .. BitsOf(cidr[n].bytes)
                        /\ BitsOf(cidr[n].bytes) - cidr[n].prefix = TreeBits(db) - n.prefix
    BY <1>6, <1>7
  <2>2. SoundCIDRs(Range(cidr))
    BY <1>2, <2>1, OfNetworks
  <2>3. \A n \in mine : \A x : SamePrefix(cidr[n].ip, x, cidr[n].prefix, BitsOf(cidr[n].bytes)) <=> SamePrefix(n.ip, x, n.prefix, Bits6)
    BY <1>6 DEF SamePrefix
  <2>4. Range(cidr) = {cidr[n] : n \in mine}
    BY <1>2 DEF Range
  <2>5. QED
    BY <2>2, <2>3, <2>4 DEF Holds
<1>9. ASSUME NEW addr, AddrOK(addr), NEW n \in mine, SamePrefix(n.ip, addr.number, n.prefix, Bits6)
      PROVE  cidr[n].bytes = addr.bytes
  <2> DEFINE size == 2 ^ (Bits6 - n.prefix)
  <2>1. size \in Nat \ {0} /\ n.ip \in Nat /\ n.ip % size = 0
    BY <1>3, <1>4
  <2>2. addr.number \in Nat
    <3>1. 2 ^ Bits6 \in Nat
      BY BitsAre, PowerIs
    <3>2. QED
      BY <1>5, <1>9, <3>1 DEF AddrOK
  <2>3. n.ip \div size = addr.number \div size
    BY <1>9 DEF SamePrefix
  <2> HIDE DEF size
  <2>4. n.ip - (n.ip % size) <= addr.number /\ addr.number < (n.ip - (n.ip % size)) + size
    BY <2>1, <2>2, <2>3, DivSame
  <2>5. n.ip <= addr.number /\ addr.number < n.ip + size
    BY <2>1, <2>2, <2>4
  <2>6. CASE InIPv4Subtree(n)
    <3>1. n.ip + size <= 2 ^ Bits4
      BY <1>3, <1>5, <2>6 DEF InIPv4Subtree, size
    <3>2. addr.number < 2 ^ Bits4
      BY <1>5, <2>1, <2>2, <2>5, <3>1
    <3>3. addr.bytes = 4
      BY <1>5, <1>9, <2>2, <3>2 DEF AddrOK
    <3>4. QED
      BY <1>6, <2>6, <3>3
  <2>7. CASE ~InIPv4Subtree(n)
    <3>1. n.ip >= 2 ^ Bits4
      BY <1>3, <2>7
    <3>2. addr.bytes = 16
      BY <1>5, <1>9, <2>1, <2>2, <2>5, <3>1 DEF AddrOK
    <3>3. QED
      BY <1>6, <2>7, <3>2
  <2>8. QED
    BY <2>6, <2>7
<1>10. Range(cidr) = CIDRs6(mine)
  BY <1>1, <1>2 DEF Range, CIDRs6
<1>11. QED
  BY <1>8, <1>9, <1>10

-----------------------------------------------------------------------------
(* Lists of a country                                                      *)

\* A list that is had comes from the file.
LEMMA ReadableOf ==
    ASSUME NEW kind \in Kinds, NEW source, SoundSource(kind, source), NEW code, HasList(kind, source, code)
    PROVE  /\ Readable(kind, source) /\ code # Nil
           /\ source.file.format \in Formats(kind) /\ SoundFile(kind, source.file)
           /\ LoadFile(kind, source.file.format, source.file).ok
           /\ Lower(code) \in DOMAIN LoadFile(kind, source.file.format, source.file).map
           /\ ListOf(kind, source, code) = LoadFile(kind, source.file.format, source.file).map[Lower(code)]
<1>1. code # Nil /\ Load(kind, source).ok /\ Lower(code) \in DOMAIN Load(kind, source).map
  BY DEF HasList
<1>2. Readable(kind, source)
  BY <1>1, LoadIs
<1>3. Load(kind, source) = LoadFile(kind, source.file.format, source.file)
  BY <1>2, LoadIs
<1>4. QED
  BY <1>1, <1>2, <1>3 DEF ListOf, Readable, SoundSource

\* And what the file has can be had.
LEMMA HasListIf ==
    ASSUME NEW kind \in Kinds, NEW source, SoundSource(kind, source), NEW code, Readable(kind, source), code # Nil,
           LoadFile(kind, source.file.format, source.file).ok,
           Lower(code) \in DOMAIN LoadFile(kind, source.file.format, source.file).map
    PROVE  HasList(kind, source, code)
BY LoadIs DEF HasList

\* What the two loaders of trees make of a tree, when they agree.
LEMMA LoadTreeIs ==
    ASSUME NEW db, SoundTree(db), db.format = "mmdb" \/ (db.format = "metadb" /\ db.version = 4),
           NEW kind, NEW code
    PROVE  LET list == LoadFile(kind, db.format, db)
           IN  /\ list.ok
               /\ Lower(code) \in DOMAIN list.map <=> Coded(db.nets, Lower(code)) # {}
               /\ Lower(code) \in DOMAIN list.map =>
                    /\ list.map[Lower(code)].inverse = FALSE
                    /\ list.map[Lower(code)].cidrs = IF db.version = 4 THEN CIDRs4(Coded(db.nets, Lower(code)))
                                                                       ELSE CIDRs6(Coded(db.nets, Lower(code)))
<1> DEFINE skip == db.format = "mmdb"
           list == ByCode(Networks(db, skip))
<1>1. LoadFile(kind, db.format, db) = list
  BY DEF LoadFile, LoadMMDB, LoadMetaDB
<1>2. db.version \in {4, 6} /\ skip \in BOOLEAN
  BY DEF SoundTree
<1>3. CASE db.version = 4
  <2>1. /\ Lower(code) \in DOMAIN list.map <=> Coded(db.nets, Lower(code)) # {}
        /\ Lower(code) \in DOMAIN list.map => list.map[Lower(code)].cidrs = CIDRs4(Coded(db.nets, Lower(code)))
    BY <1>2, <1>3, Networks4, ZenonT(40)
  <2>2. list.ok /\ (Lower(code) \in DOMAIN list.map => list.map[Lower(code)].inverse = FALSE)
    BY ByCodeIs
  <2> HIDE DEF list
  <2>3. QED
    BY <1>1, <1>3, <2>1, <2>2
<1>4. CASE db.version = 6
  <2>0. skip
    BY <1>4
  <2>1. /\ Lower(code) \in DOMAIN list.map <=> Coded(db.nets, Lower(code)) # {}
        /\ Lower(code) \in DOMAIN list.map => list.map[Lower(code)].cidrs = CIDRs6(Coded(db.nets, Lower(code)))
    <3>1. list = ByCode(Networks(db, TRUE))
      BY <2>0
    <3>2. QED
      BY <1>4, <3>1, Networks6
  <2>2. list.ok /\ (Lower(code) \in DOMAIN list.map => list.map[Lower(code)].inverse = FALSE)
    BY ByCodeIs
  <2> HIDE DEF list
  <2>3. QED
    BY <1>1, <1>4, <2>1, <2>2
<1>5. QED
  BY <1>2, <1>3, <1>4

\* What a rule takes from a database: networks apart, and the addresses of the
\* country.
CountryList(list, file, code) ==
    /\ list.inverse \in BOOLEAN
    /\ list.inverse <=> Inverted(file, code)
    /\ SoundCIDRs(list.cidrs)
    /\ \A addr : AddrOK(addr) => (Holds(list.cidrs, addr) <=> InCountry(file, code, addr))

\* The list of a V2Ray file is as CountryList says.
LEMMA DatListIs ==
    ASSUME NEW file, file.format = "dat", SoundFile("geoip", file), NEW code,
           Lower(code) \in DOMAIN LoadFile("geoip", file.format, file).map
    PROVE  CountryList(LoadFile("geoip", file.format, file).map[Lower(code)], file, code)
<1> DEFINE list == LoadFile("geoip", file.format, file).map[Lower(code)]
<1>1. /\ IsSeq(file.entries) /\ DistinctCodes(file.entries)
      /\ \A i \in DOMAIN file.entries : file.entries[i].inverse \in BOOLEAN /\ SoundCIDRs(file.entries[i].cidrs)
  BY DEF SoundFile
<1>2. LoadFile("geoip", file.format, file) = LoadDat(file.entries)
  BY DEF LoadFile
<1>3. PICK i \in DOMAIN file.entries : Lower(code) = Lower(file.entries[i].code)
  BY <1>1, <1>2, LoadDatIs
<1>4. list = file.entries[i]
  BY <1>1, <1>2, <1>3, LoadDatIs
<1> HIDE DEF list
<1>5. \A j \in DOMAIN file.entries : SameWord(file.entries[j].code, code) <=> j = i
  BY <1>1, <1>3 DEF DistinctCodes, SameWord
<1>6. list.inverse <=> Inverted(file, code)
  BY <1>1, <1>4, <1>5 DEF Inverted
<1>7. \A addr : InCountry(file, code, addr) <=> \E c \in file.entries[i].cidrs :
          c.bytes = addr.bytes /\ SamePrefix(c.ip, addr.number, c.prefix, BitsOf(c.bytes))
  BY <1>5 DEF InCountry
<1>8. \A addr : Holds(list.cidrs, addr) <=> InCountry(file, code, addr)
  BY <1>4, <1>7 DEF Holds
<1>9. QED
  BY <1>1, <1>4, <1>6, <1>8 DEF list, CountryList

\* That of a tree is too.
LEMMA TreeListIs ==
    ASSUME NEW file, SoundTree(file), file.format = "mmdb" \/ (file.format = "metadb" /\ file.version = 4), NEW code,
           Lower(code) \in DOMAIN LoadFile("geoip", file.format, file).map
    PROVE  CountryList(LoadFile("geoip", file.format, file).map[Lower(code)], file, code)
<1> DEFINE list == LoadFile("geoip", file.format, file).map[Lower(code)]
           mine == Coded(file.nets, Lower(code))
<1>1. list.inverse = FALSE
  BY LoadTreeIs
<1>2. list.cidrs = IF file.version = 4 THEN CIDRs4(mine) ELSE CIDRs6(mine)
  BY LoadTreeIs
<1>3. mine \in SUBSET file.nets /\ file.version \in {4, 6}
  BY DEF Coded, SoundTree
<1>4. ~Inverted(file, code)
  BY DEF Inverted
<1> HIDE DEF mine, list
<1>5. CASE file.version = 4
  <2>1. list.cidrs = CIDRs4(mine)
    BY <1>2, <1>5
  <2>2. /\ SoundCIDRs(list.cidrs)
        /\ \A addr : Holds(list.cidrs, addr) <=> \E n \in mine : addr.bytes = 4 /\ SamePrefix(n.ip, addr.number, n.prefix, Bits4)
    BY <1>3, <1>5, <2>1, TreeList4
  <2>3. \A addr : InCountry(file, code, addr) <=>
            \E n \in mine : addr.bytes = 4 /\ SamePrefix(n.ip, addr.number, n.prefix, Bits4)
    BY <1>5 DEF InCountry, mine, Coded, SameWord
  <2>4. QED
    BY <1>1, <1>4, <2>2, <2>3 DEF list, CountryList
<1>6. CASE file.version = 6
  <2>1. list.cidrs = CIDRs6(mine)
    BY <1>2, <1>6
  <2>2. /\ SoundCIDRs(list.cidrs)
        /\ \A addr : AddrOK(addr) =>
              (Holds(list.cidrs, addr) <=> \E n \in mine : SamePrefix(n.ip, addr.number, n.prefix, Bits6))
    BY <1>3, <1>6, <2>1, TreeList6
  <2>3. \A addr : InCountry(file, code, addr) <=> \E n \in mine : SamePrefix(n.ip, addr.number, n.prefix, Bits6)
    BY <1>6 DEF InCountry, mine, Coded, SameWord
  <2>4. QED
    BY <1>1, <1>4, <2>2, <2>3 DEF list, CountryList
<1>7. QED
  BY <1>3, <1>5, <1>6

\* A list for a country holds its addresses, whatever the format of the file.
LEMMA GeoIPListIs ==
    ASSUME NEW source, SoundSource("geoip", source), NEW code, HasList("geoip", source, code),
           source.file.format = "metadb" => source.file.version = 4
    PROVE  CountryList(ListOf("geoip", source, code), source.file, code)
<1>1. /\ source.file.format \in {"dat", "mmdb", "metadb"} /\ SoundFile("geoip", source.file)
      /\ Lower(code) \in DOMAIN LoadFile("geoip", source.file.format, source.file).map
      /\ ListOf("geoip", source, code) = LoadFile("geoip", source.file.format, source.file).map[Lower(code)]
  BY ReadableOf DEF Kinds, Formats
<1>2. PICK file : file = source.file
  OBVIOUS
<1>3. CASE file.format = "dat"
  BY <1>1, <1>2, <1>3, DatListIs
<1>4. CASE file.format # "dat"
  <2>1. SoundTree(file) /\ (file.format = "mmdb" \/ (file.format = "metadb" /\ file.version = 4))
    BY <1>1, <1>2, <1>4 DEF SoundFile
  <2>2. QED
    BY <1>1, <1>2, <2>1, TreeListIs
<1>5. QED
  BY <1>3, <1>4

-----------------------------------------------------------------------------
(* GeoIP rules that compile                                                *)

\* A matcher takes addresses of the two lengths only.
LEMMA GeoIPMatcherIs ==
    ASSUME NEW list
    PROVE  GeoIPMatcher(list) # NoMatcher <=> \A c \in list.cidrs : c.bytes \in {4, 16}
<1>1. [kind |-> "geoip", inverse |-> list.inverse, v4 |-> ByAddress(NetsOf(list.cidrs, 4)),
       v6 |-> ByAddress(NetsOf(list.cidrs, 16))].kind # NoMatcher.kind
  BY DEF NoMatcher
<1>2. QED
  BY <1>1 DEF GeoIPMatcher

\* A tree has a list for each of its codes, of addresses that a matcher takes.
LEMMA TreeUsable ==
    ASSUME NEW db, SoundTree(db), db.format \in {"mmdb", "metadb"}, NEW code
    PROVE  LET all == LoadFile("geoip", db.format, db)
           IN  /\ all.ok
               /\ Lower(code) \in DOMAIN all.map <=> Coded(db.nets, Lower(code)) # {}
               /\ Lower(code) \in DOMAIN all.map => \A c \in all.map[Lower(code)].cidrs : c.bytes \in {4, 16}
<1>1. CASE db.format = "mmdb" \/ db.version = 4
  <2>1. db.format = "mmdb" \/ (db.format = "metadb" /\ db.version = 4)
    BY <1>1
  <2> DEFINE all == LoadFile("geoip", db.format, db)
             mine == Coded(db.nets, Lower(code))
  <2>2. all.ok /\ (Lower(code) \in DOMAIN all.map <=> mine # {})
    BY <2>1, LoadTreeIs
  <2>3. Lower(code) \in DOMAIN all.map =>
            all.map[Lower(code)].cidrs = IF db.version = 4 THEN CIDRs4(mine) ELSE CIDRs6(mine)
    BY <2>1, LoadTreeIs
  <2> HIDE DEF all, mine
  <2>4. \A c \in CIDRs4(mine) : c.bytes \in {4, 16}
    BY DEF CIDRs4, CIDR4
  <2>5. \A c \in CIDRs6(mine) : c.bytes \in {4, 16}
    <3>1. \A n \in mine : CIDR6(n).bytes \in {4, 16}
      BY DEF CIDR6
    <3>2. QED
      BY <3>1 DEF CIDRs6
  <2>6. QED
    BY <2>2, <2>3, <2>4, <2>5 DEF all, mine
<1>2. CASE db.format = "metadb" /\ db.version = 6
  <2>1. LoadFile("geoip", db.format, db) = ByCode(Networks(db, FALSE))
    BY <1>2 DEF LoadFile, LoadMetaDB
  <2>2. QED
    BY <1>2, <2>1, ByCodeIs, NetworksAll
<1>3. QED
  BY <1>1, <1>2 DEF SoundTree

\* A rule gets its GeoIP matcher exactly when the database has a list that it
\* can use.
LEMMA GeoIPUsableIs ==
    ASSUME NEW source, SoundSource("geoip", source), NEW code
    PROVE  HasList("geoip", source, code) /\ GeoIPMatcher(ListOf("geoip", source, code)) # NoMatcher
           <=> Usable("geoip", source, code)
<1>0. "geoip" \in Kinds
  BY DEF Kinds
<1>1. CASE code = Nil \/ ~Readable("geoip", source)
  BY <1>0, <1>1, LoadIs DEF HasList, Usable
<1>2. CASE code # Nil /\ Readable("geoip", source)
  <2> DEFINE all == LoadFile("geoip", source.file.format, source.file)
  <2>1. /\ HasList("geoip", source, code) <=> all.ok /\ Lower(code) \in DOMAIN all.map
        /\ ListOf("geoip", source, code) = all.map[Lower(code)]
        /\ source.file.format \in {"dat", "mmdb", "metadb"} /\ SoundFile("geoip", source.file)
    <3>1. Load("geoip", source) = all
      BY <1>0, <1>2, LoadIs
    <3>2. QED
      BY <1>2, <3>1 DEF HasList, ListOf, Readable, SoundSource, Formats
  <2>2. PICK file : file = source.file
    OBVIOUS
  <2>3. CASE file.format = "dat"
    <3>1. all = LoadDat(file.entries)
      BY <2>2, <2>3 DEF LoadFile
    <3>2. IsSeq(file.entries) /\ DistinctCodes(file.entries)
      BY <2>1, <2>2, <2>3 DEF SoundFile
    <3> HIDE DEF all
    <3>3. Usable("geoip", source, code) <=>
             \E i \in DOMAIN file.entries :
                Lower(file.entries[i].code) = Lower(code) /\ \A c \in file.entries[i].cidrs : c.bytes \in {4, 16}
      BY <1>2, <2>2, <2>3 DEF Usable, SameWord
    <3>4. /\ all.ok /\ DOMAIN all.map = {Lower(file.entries[i].code) : i \in DOMAIN file.entries}
          /\ \A i \in DOMAIN file.entries : all.map[Lower(file.entries[i].code)] = file.entries[i]
      BY <3>1, <3>2, LoadDatIs
    <3>5. QED
      BY <2>1, <3>3, <3>4, GeoIPMatcherIs
  <2>4. CASE file.format # "dat"
    <3>1. SoundTree(file) /\ file.format \in {"mmdb", "metadb"}
      BY <2>1, <2>2, <2>4 DEF SoundFile
    <3>2. all = LoadFile("geoip", file.format, file)
      BY <2>2
    <3>3. /\ all.ok
          /\ Lower(code) \in DOMAIN all.map <=> Coded(file.nets, Lower(code)) # {}
          /\ Lower(code) \in DOMAIN all.map => \A c \in all.map[Lower(code)].cidrs : c.bytes \in {4, 16}
      BY <3>1, <3>2, TreeUsable
    <3>4. Usable("geoip", source, code) <=> Coded(file.nets, Lower(code)) # {}
      BY <1>2, <2>2, <3>1 DEF Usable, SameWord, Coded
    <3> HIDE DEF all
    <3>5. QED
      BY <2>1, <3>3, <3>4, GeoIPMatcherIs
  <2>5. QED
    BY <2>3, <2>4
<1>3. QED
  BY <1>1, <1>2

-----------------------------------------------------------------------------
(* sing-geosite files: reading the items of a code                         *)

\* What is read at first, and after every item.
Unread(from) == [ok |-> TRUE, pos |-> from, read |-> {}]

\* f reads m items.
ReadsTo(file, from, m, f) == f = [n \in 0 .. m |-> IF n = 0 THEN Unread(from) ELSE ReadItem(file, f[n - 1])]

\* The recursive function that reads the items is defined up to any count.
LEMMA ReadsExist ==
    ASSUME NEW file, NEW from, NEW count \in Nat
    PROVE  \E f : ReadsTo(file, from, count, f)
<1> DEFINE T == {m \in Nat : \E f : ReadsTo(file, from, m, f)}
<1>1. 0 \in T
  <2>1. ReadsTo(file, from, 0, [n \in 0 .. 0 |-> Unread(from)])
    BY DEF ReadsTo
  <2>2. QED
    BY <2>1
<1>2. ASSUME NEW m \in T \cap Nat PROVE m + 1 \in T
  <2>1. PICK f : ReadsTo(file, from, m, f)
    OBVIOUS
  <2> DEFINE g == [n \in 0 .. m + 1 |-> IF n <= m THEN f[n] ELSE ReadItem(file, f[m])]
  <2>2. ASSUME NEW n \in 0 .. m + 1 PROVE g[n] = IF n = 0 THEN Unread(from) ELSE ReadItem(file, g[n - 1])
    <3>1. CASE n = 0
      BY <2>1, <3>1 DEF ReadsTo
    <3>2. CASE n # 0 /\ n <= m
      <4>1. n \in 0 .. m /\ n - 1 \in 0 .. m /\ n - 1 \in 0 .. m + 1 /\ n - 1 <= m
        BY <3>2
      <4>2. g[n] = f[n] /\ g[n - 1] = f[n - 1]
        BY <3>2, <4>1
      <4>3. f[n] = ReadItem(file, f[n - 1])
        BY <2>1, <3>2, <4>1 DEF ReadsTo
      <4>4. QED
        BY <3>2, <4>2, <4>3
    <3>3. CASE n = m + 1
      <4>1. g[n] = ReadItem(file, f[m]) /\ g[m] = f[m] /\ n - 1 = m /\ n # 0
        BY <3>3
      <4>2. QED
        BY <4>1
    <3>4. QED
      BY <3>1, <3>2, <3>3
  <2>3. g = [n \in 0 .. m + 1 |-> g[n]]
    OBVIOUS
  <2> HIDE DEF g
  <2>4. ReadsTo(file, from, m + 1, g)
    BY <2>2, <2>3 DEF ReadsTo
  <2>5. QED
    BY <2>4
<1> HIDE DEF T
<1>3. Nat \subseteq T
  BY <1>1, <1>2, NatSetInduction
<1>4. QED
  BY <1>3 DEF T

\* ReadItems is the last value of it.
LEMMA ReadItemsIs ==
    ASSUME NEW file, NEW from, NEW count \in Nat
    PROVE  \E f : ReadsTo(file, from, count, f) /\ ReadItems(file, from, count) = f[count]
<1> DEFINE after == CHOOSE f : ReadsTo(file, from, count, f)
<1>1. ReadsTo(file, from, count, after)
  BY ReadsExist
<1>2. ReadItems(file, from, count) = after[count]
  BY DEF ReadItems, ReadsTo, Unread
<1>3. QED
  BY <1>1, <1>2

\* The items of a file.
SoundItems(file) == \A p \in DOMAIN file.items : p \in Nat /\ SoundItem(file.items[p])

\* The places of n items, what they hold, and where they end.
RunsOf(file, index, n) ==
    {run \in [1 .. n -> DOMAIN file.items] :
        \A k \in 1 .. n : run[k] = IF k = 1 THEN index ELSE run[k - 1] + file.items[run[k - 1]].size}

\* The items of a run, and where it ends.
Held(file, run) == {file.items[run[k]] : k \in DOMAIN run}
EndOf(file, index, run, n) == IF n = 0 THEN index ELSE run[n] + file.items[run[n]].size

\* A state of the reader after n items.
ReadRight(file, index, n, s) ==
    /\ s = [ok |-> s.ok, pos |-> s.pos, read |-> s.read] /\ s.ok \in BOOLEAN /\ s.pos \in Nat
    /\ \A run \in RunsOf(file, index, n) :
          s.ok /\ s.read = Held(file, run) /\ s.pos = EndOf(file, index, run, n)
    /\ s.ok => \E run \in RunsOf(file, index, n) : TRUE

\* A longer run begins with the shorter one.
LEMMA RunsExtend ==
    ASSUME NEW file, NEW index \in Nat, SoundItems(file), NEW n \in Nat, NEW run \in RunsOf(file, index, n + 1)
    PROVE  \E r \in RunsOf(file, index, n) :
              /\ run[n + 1] = EndOf(file, index, r, n) /\ run[n + 1] \in DOMAIN file.items
              /\ Held(file, run) = Held(file, r) \cup {file.items[run[n + 1]]}
<1> DEFINE r == [k \in 1 .. n |-> run[k]]
<1>1. /\ run \in [1 .. n + 1 -> DOMAIN file.items]
      /\ \A k \in 1 .. n + 1 : run[k] = IF k = 1 THEN index ELSE run[k - 1] + file.items[run[k - 1]].size
  BY DEF RunsOf
<1>2. \A k \in 1 .. n : r[k] = run[k] /\ run[k] \in DOMAIN file.items /\ k \in 1 .. n + 1
  BY <1>1
<1>3. r \in [1 .. n -> DOMAIN file.items] /\ DOMAIN r = 1 .. n
  BY <1>1, <1>2
<1> HIDE DEF r
<1>4. r \in RunsOf(file, index, n)
  <2>1. ASSUME NEW k \in 1 .. n PROVE r[k] = IF k = 1 THEN index ELSE r[k - 1] + file.items[r[k - 1]].size
    <3>1. k = 1 \/ k - 1 \in 1 .. n
      OBVIOUS
    <3>2. QED
      BY <1>1, <1>2, <3>1
  <2>2. QED
    BY <1>3, <2>1 DEF RunsOf
<1>5. run[n + 1] = EndOf(file, index, r, n)
  <2>1. run[n + 1] = IF n + 1 = 1 THEN index ELSE run[(n + 1) - 1] + file.items[run[(n + 1) - 1]].size
    BY <1>1
  <2>2. n = 0 \/ n \in 1 .. n
    OBVIOUS
  <2>3. QED
    BY <1>2, <2>1, <2>2 DEF EndOf
<1>6. Held(file, run) = Held(file, r) \cup {file.items[run[n + 1]]}
  <2>1. DOMAIN run = 1 .. n + 1 /\ 1 .. n + 1 = (1 .. n) \cup {n + 1}
    BY <1>1
  <2>2. QED
    BY <1>2, <1>3, <2>1 DEF Held
<1>7. QED
  BY <1>1, <1>4, <1>5, <1>6

\* A run goes on where an item follows.
LEMMA RunsGrow ==
    ASSUME NEW file, NEW index \in Nat, SoundItems(file), NEW n \in Nat, NEW run \in RunsOf(file, index, n),
           EndOf(file, index, run, n) \in DOMAIN file.items
    PROVE  \E r \in RunsOf(file, index, n + 1) : TRUE
<1> DEFINE end == EndOf(file, index, run, n)
           r == [k \in 1 .. n + 1 |-> IF k <= n THEN run[k] ELSE end]
<1>1. /\ run \in [1 .. n -> DOMAIN file.items]
      /\ \A k \in 1 .. n : run[k] = IF k = 1 THEN index ELSE run[k - 1] + file.items[run[k - 1]].size
  BY DEF RunsOf
<1>2. \A k \in 1 .. n : r[k] = run[k]
  OBVIOUS
<1>3. r[n + 1] = end
  OBVIOUS
<1>4. r \in [1 .. n + 1 -> DOMAIN file.items]
  <2>1. \A k \in 1 .. n + 1 : r[k] \in DOMAIN file.items
    BY <1>1
  <2>2. QED
    BY <2>1
<1> HIDE DEF r
<1>5. ASSUME NEW k \in 1 .. n + 1 PROVE r[k] = IF k = 1 THEN index ELSE r[k - 1] + file.items[r[k - 1]].size
  <2>1. CASE k \in 1 .. n
    <3>1. k = 1 \/ k - 1 \in 1 .. n
      BY <2>1
    <3>2. QED
      BY <1>1, <1>2, <2>1, <3>1
  <2>2. CASE k = n + 1
    <3>1. n = 0 \/ n \in 1 .. n
      OBVIOUS
    <3>2. k - 1 = n /\ (k = 1 <=> n = 0)
      BY <2>2
    <3>3. QED
      BY <1>2, <1>3, <2>2, <3>1, <3>2 DEF EndOf
  <2>3. QED
    BY <2>1, <2>2
<1>6. r \in RunsOf(file, index, n + 1)
  BY <1>4, <1>5 DEF RunsOf
<1>7. QED
  BY <1>6

\* One item more keeps a reading right.
LEMMA ReadItemRight ==
    ASSUME NEW file, NEW index \in Nat, SoundItems(file), NEW n \in Nat, NEW s, ReadRight(file, index, n, s)
    PROVE  ReadRight(file, index, n + 1, ReadItem(file, s))
<1> DEFINE t == ReadItem(file, s)
<1>1. CASE s.ok /\ s.pos \in DOMAIN file.items
  <2>1. t = [ok |-> TRUE, pos |-> s.pos + file.items[s.pos].size, read |-> s.read \cup {file.items[s.pos]}]
    BY <1>1 DEF ReadItem
  <2>2. t.pos \in Nat
    BY <1>1, <2>1 DEF ReadRight, SoundItems, SoundItem
  <2>3. ASSUME NEW run \in RunsOf(file, index, n + 1)
        PROVE  t.ok /\ t.read = Held(file, run) /\ t.pos = EndOf(file, index, run, n + 1)
    <3>1. PICK r \in RunsOf(file, index, n) :
              /\ run[n + 1] = EndOf(file, index, r, n) /\ run[n + 1] \in DOMAIN file.items
              /\ Held(file, run) = Held(file, r) \cup {file.items[run[n + 1]]}
      BY RunsExtend
    <3>2. s.read = Held(file, r) /\ s.pos = run[n + 1]
      BY <3>1 DEF ReadRight
    <3>3. n + 1 # 0
      OBVIOUS
    <3>4. QED
      BY <2>1, <3>1, <3>2, <3>3, SMTT(30) DEF EndOf
  <2>4. \E run \in RunsOf(file, index, n + 1) : TRUE
    <3>1. PICK run \in RunsOf(file, index, n) : s.pos = EndOf(file, index, run, n)
      BY <1>1 DEF ReadRight
    <3>2. QED
      BY <1>1, <3>1, RunsGrow
  <2> HIDE DEF t
  <2>5. QED
    BY <2>1, <2>2, <2>3, <2>4 DEF ReadRight, t
<1>2. CASE ~(s.ok /\ s.pos \in DOMAIN file.items)
  <2>1. t = [s EXCEPT !.ok = FALSE]
    BY <1>2 DEF ReadItem
  <2>2. t = [ok |-> FALSE, pos |-> s.pos, read |-> s.read] /\ s.pos \in Nat
    BY <2>1 DEF ReadRight
  <2>3. ASSUME NEW run \in RunsOf(file, index, n + 1) PROVE FALSE
    <3>1. PICK r \in RunsOf(file, index, n) : run[n + 1] = EndOf(file, index, r, n) /\ run[n + 1] \in DOMAIN file.items
      BY RunsExtend
    <3>2. QED
      BY <1>2, <3>1 DEF ReadRight
  <2> HIDE DEF t
  <2>4. QED
    BY <2>2, <2>3 DEF ReadRight, t
<1>3. QED
  BY <1>1, <1>2

\* Reading an entry fails when its items do not follow each other, and reads
\* them otherwise.
LEMMA ReadItemsRight ==
    ASSUME NEW file, NEW index \in Nat, SoundItems(file), NEW count \in Nat
    PROVE  ReadRight(file, index, count, ReadItems(file, index, count))
<1>1. PICK f : ReadsTo(file, index, count, f) /\ ReadItems(file, index, count) = f[count]
  BY ReadItemsIs
<1> DEFINE T == {n \in Nat : n <= count => ReadRight(file, index, n, f[n])}
<1>2. 0 \in T
  <2>1. f[0] = Unread(index)
    BY <1>1 DEF ReadsTo
  <2>2. ASSUME NEW run \in RunsOf(file, index, 0) PROVE Held(file, run) = {}
    BY DEF RunsOf, Held
  <2>3. \E run \in RunsOf(file, index, 0) : TRUE
    <3>1. [k \in 1 .. 0 |-> index] \in RunsOf(file, index, 0)
      BY DEF RunsOf
    <3>2. QED
      BY <3>1
  <2>4. ReadRight(file, index, 0, f[0])
    BY <2>1, <2>2, <2>3 DEF ReadRight, Unread, EndOf
  <2>5. QED
    BY <2>4
<1>3. ASSUME NEW n \in T \cap Nat PROVE n + 1 \in T
  <2>1. SUFFICES ASSUME n + 1 <= count PROVE ReadRight(file, index, n + 1, f[n + 1])
    OBVIOUS
  <2>2. f[n + 1] = ReadItem(file, f[n])
    <3>1. n + 1 \in 0 .. count /\ n + 1 # 0 /\ (n + 1) - 1 = n
      BY <2>1
    <3>2. QED
      BY <1>1, <3>1 DEF ReadsTo
  <2>3. ReadRight(file, index, n, f[n])
    BY <2>1
  <2>4. QED
    BY <2>2, <2>3, ReadItemRight
<1> HIDE DEF T
<1>4. Nat \subseteq T
  BY <1>2, <1>3, NatSetInduction
<1>5. count \in T
  BY <1>4
<1>6. QED
  BY <1>1, <1>5 DEF T

\* Before the first entry.
NoneAdded == [ok |-> TRUE, pos |-> 0, map |-> NoMap]

\* f adds m entries.
AddsTo(file, m, f) == f = [n \in 0 .. m |-> IF n = 0 THEN NoneAdded ELSE AddEntry(file, f[n - 1], file.index[n])]

\* The recursive function that adds the entries is defined up to any number.
LEMMA AddsExist ==
    ASSUME NEW file, NEW count \in Nat
    PROVE  \E f : AddsTo(file, count, f)
<1> DEFINE T == {m \in Nat : \E f : AddsTo(file, m, f)}
<1>1. 0 \in T
  <2>1. AddsTo(file, 0, [n \in 0 .. 0 |-> NoneAdded])
    BY DEF AddsTo
  <2>2. QED
    BY <2>1
<1>2. ASSUME NEW m \in T \cap Nat PROVE m + 1 \in T
  <2>1. PICK f : AddsTo(file, m, f)
    OBVIOUS
  <2> DEFINE g == [n \in 0 .. m + 1 |-> IF n <= m THEN f[n] ELSE AddEntry(file, f[m], file.index[n])]
  <2>2. ASSUME NEW n \in 0 .. m + 1 PROVE g[n] = IF n = 0 THEN NoneAdded ELSE AddEntry(file, g[n - 1], file.index[n])
    <3>1. CASE n = 0
      BY <2>1, <3>1 DEF AddsTo
    <3>2. CASE n # 0 /\ n <= m
      <4>1. n \in 0 .. m /\ n - 1 \in 0 .. m /\ n - 1 \in 0 .. m + 1 /\ n - 1 <= m
        BY <3>2
      <4>2. g[n] = f[n] /\ g[n - 1] = f[n - 1]
        BY <3>2, <4>1
      <4>3. f[n] = AddEntry(file, f[n - 1], file.index[n])
        BY <2>1, <3>2, <4>1 DEF AddsTo
      <4>4. QED
        BY <3>2, <4>2, <4>3
    <3>3. CASE n = m + 1
      <4>1. g[n] = AddEntry(file, f[m], file.index[n]) /\ g[m] = f[m] /\ n - 1 = m /\ n # 0
        BY <3>3
      <4>2. QED
        BY <4>1
    <3>4. QED
      BY <3>1, <3>2, <3>3
  <2>3. g = [n \in 0 .. m + 1 |-> g[n]]
    OBVIOUS
  <2> HIDE DEF g
  <2>4. AddsTo(file, m + 1, g)
    BY <2>2, <2>3 DEF AddsTo
  <2>5. QED
    BY <2>4
<1> HIDE DEF T
<1>3. Nat \subseteq T
  BY <1>1, <1>2, NatSetInduction
<1>4. QED
  BY <1>3 DEF T

\* LoadSing is the last value of it.
LEMMA LoadSingIs ==
    ASSUME NEW file, Len(file.index) \in Nat
    PROVE  \E f : AddsTo(file, Len(file.index), f) /\ LoadSing(file) = f[Len(file.index)]
<1> DEFINE after == CHOOSE f : AddsTo(file, Len(file.index), f)
<1>1. AddsTo(file, Len(file.index), after)
  BY AddsExist
<1>2. LoadSing(file) = after[Len(file.index)]
  BY DEF LoadSing, AddsTo, NoneAdded
<1>3. QED
  BY <1>1, <1>2

\* The runs of an entry.
EntryRuns(file, entry) == RunsOf(file, entry.index, entry.count)

\* What the loader has after n entries of the index.
SingRight(file, n, s) ==
    /\ s = [ok |-> s.ok, pos |-> s.pos, map |-> s.map] /\ s.ok \in BOOLEAN
    /\ s.ok <=> \A i \in 1 .. n : EntryRuns(file, file.index[i]) # {}
    /\ s.ok => /\ s.pos = 0 /\ DOMAIN s.map = {Lower(file.index[i].code) : i \in 1 .. n}
               /\ \A i \in 1 .. n : \A run \in EntryRuns(file, file.index[i]) :
                     s.map[Lower(file.index[i].code)] = [domains |-> Domains(Held(file, run))]

\* Read comes back to where it began, with the items of the entry.
LEMMA ReadIs ==
    ASSUME NEW file, SoundItems(file), NEW entry, entry.index \in Nat, entry.count \in Nat
    PROVE  LET r == Read(file, 0, entry)
           IN  /\ r.ok \in BOOLEAN /\ (r.ok <=> EntryRuns(file, entry) # {})
               /\ r.ok => r.pos = 0 /\ \A run \in EntryRuns(file, entry) : r.read = Held(file, run)
<1> DEFINE s == ReadItems(file, entry.index, entry.count)
<1>1. ReadRight(file, entry.index, entry.count, s)
  BY ReadItemsRight
<1>2. 0 + entry.index = entry.index
  OBVIOUS
<1>3. Read(file, 0, entry) = IF s.ok THEN [s EXCEPT !.pos = s.pos - entry.index - (s.pos - entry.index)] ELSE s
  BY <1>2 DEF Read, SeekBack
<1> HIDE DEF s
<1>4. s.ok => s.pos - entry.index - (s.pos - entry.index) = 0
  BY <1>1 DEF ReadRight
<1>5. s.ok <=> EntryRuns(file, entry) # {}
  BY <1>1 DEF ReadRight, EntryRuns
<1>6. s.ok => \A run \in EntryRuns(file, entry) : s.read = Held(file, run)
  BY <1>1 DEF ReadRight, EntryRuns
<1>7. s = [ok |-> s.ok, pos |-> s.pos, read |-> s.read] /\ s.ok \in BOOLEAN
  BY <1>1 DEF ReadRight
<1>8. CASE s.ok
  <2>1. Read(file, 0, entry) = [ok |-> s.ok, pos |-> 0, read |-> s.read]
    BY <1>3, <1>4, <1>7, <1>8
  <2> DEFINE r == Read(file, 0, entry)
  <2>2. r.ok = s.ok /\ r.pos = 0 /\ r.read = s.read
    BY <2>1
  <2> HIDE DEF r
  <2>3. r.ok \in BOOLEAN /\ (r.ok <=> EntryRuns(file, entry) # {})
    BY <1>5, <1>7, <2>2
  <2>4. \A run \in EntryRuns(file, entry) : r.read = Held(file, run)
    BY <1>6, <1>8, <2>2
  <2>5. QED
    BY <2>2, <2>3, <2>4 DEF r
<1>9. CASE ~s.ok
  BY <1>3, <1>5, <1>7, <1>9
<1>10. QED
  BY <1>8, <1>9

\* The index of a file, and its items.
SoundIndex(file) ==
    /\ IsSeq(file.index) /\ DistinctCodes(file.index) /\ SoundItems(file)
    /\ \A i \in DOMAIN file.index : file.index[i].index \in Nat /\ file.index[i].count \in Nat

\* One entry more keeps what was added right.
LEMMA AddEntryRight ==
    ASSUME NEW file, SoundIndex(file), NEW n \in Nat, n + 1 <= Len(file.index), NEW s, SingRight(file, n, s)
    PROVE  SingRight(file, n + 1, AddEntry(file, s, file.index[n + 1]))
<1> DEFINE entry == file.index[n + 1]
           r == Read(file, s.pos, entry)
           t == AddEntry(file, s, entry)
<1>1. /\ n + 1 \in DOMAIN file.index /\ SoundItems(file) /\ entry.index \in Nat /\ entry.count \in Nat
      /\ \A i \in 1 .. n : i \in DOMAIN file.index /\ Lower(file.index[i].code) # Lower(entry.code)
  <2>1. \A i \in 1 .. n + 1 : i \in DOMAIN file.index
    BY DEF SoundIndex, IsSeq
  <2>2. \A i \in 1 .. n : i \in 1 .. n + 1 /\ i # n + 1
    OBVIOUS
  <2>3. n + 1 \in 1 .. n + 1
    OBVIOUS
  <2>4. QED
    BY <2>1, <2>2, <2>3 DEF SoundIndex, DistinctCodes
<1>2. s = [ok |-> s.ok, pos |-> s.pos, map |-> s.map] /\ s.ok \in BOOLEAN
  BY DEF SingRight
<1>3. 1 .. n + 1 = (1 .. n) \cup {n + 1}
  OBVIOUS
<1>4. CASE s.ok
  <2>1. s.pos = 0
    BY <1>4 DEF SingRight
  <2>2. /\ r.ok \in BOOLEAN /\ (r.ok <=> EntryRuns(file, entry) # {})
        /\ r.ok => r.pos = 0 /\ \A run \in EntryRuns(file, entry) : r.read = Held(file, run)
    BY <1>1, <2>1, ReadIs
  <2> HIDE DEF r
  <2>3. CASE r.ok
    <3> DEFINE map == [c \in DOMAIN s.map \cup {Lower(entry.code)} |->
                          IF c = Lower(entry.code) THEN [domains |-> Domains(r.read)] ELSE s.map[c]]
    <3>1. t = [ok |-> TRUE, pos |-> r.pos, map |-> map]
      BY <1>4, <2>3 DEF AddEntry, AddCode, r
    <3>2. \A i \in 1 .. n + 1 : EntryRuns(file, file.index[i]) # {}
      BY <1>3, <1>4, <2>2, <2>3 DEF SingRight
    <3>3. DOMAIN map = {Lower(file.index[i].code) : i \in 1 .. n + 1}
      <4>1. DOMAIN s.map = {Lower(file.index[i].code) : i \in 1 .. n}
        BY <1>4 DEF SingRight
      <4>2. QED
        BY <1>3, <4>1
    <3>4. ASSUME NEW i \in 1 .. n + 1, NEW run \in EntryRuns(file, file.index[i])
          PROVE  map[Lower(file.index[i].code)] = [domains |-> Domains(Held(file, run))]
      <4>1. CASE i = n + 1
        BY <2>2, <2>3, <3>4, <4>1
      <4>2. CASE i \in 1 .. n
        <5>1. Lower(file.index[i].code) # Lower(entry.code)
          BY <1>1, <4>2
        <5>2. Lower(file.index[i].code) \in DOMAIN s.map
          BY <1>4, <4>2 DEF SingRight
        <5>3. map[Lower(file.index[i].code)] = s.map[Lower(file.index[i].code)]
          BY <5>1, <5>2
        <5>4. s.map[Lower(file.index[i].code)] = [domains |-> Domains(Held(file, run))]
          BY <1>4, <3>4, <4>2 DEF SingRight
        <5>5. QED
          BY <5>3, <5>4
      <4>3. QED
        BY <1>3, <4>1, <4>2
    <3> HIDE DEF map, t
    <3>5. QED
      BY <2>2, <2>3, <3>1, <3>2, <3>3, <3>4 DEF SingRight, t
  <2>4. CASE ~r.ok
    <3>1. t = [ok |-> FALSE, pos |-> s.pos, map |-> NoMap]
      BY <1>2, <2>4 DEF AddEntry, AddCode, r
    <3>2. EntryRuns(file, file.index[n + 1]) = {} /\ n + 1 \in 1 .. n + 1
      BY <2>2, <2>4
    <3> HIDE DEF t
    <3>3. QED
      BY <3>1, <3>2 DEF SingRight, t
  <2>5. QED
    BY <2>2, <2>3, <2>4
<1>5. CASE ~s.ok
  <2>1. t = [ok |-> FALSE, pos |-> s.pos, map |-> NoMap]
    BY <1>2, <1>5 DEF AddEntry, AddCode
  <2>2. ~ \A i \in 1 .. n + 1 : EntryRuns(file, file.index[i]) # {}
    BY <1>3, <1>5 DEF SingRight
  <2> HIDE DEF t
  <2>3. QED
    BY <2>1, <2>2 DEF SingRight, t
<1>6. QED
  BY <1>2, <1>4, <1>5

\* The loader fails when some entry does, and has a list per code otherwise.
LEMMA LoadSingRight ==
    ASSUME NEW file, SoundIndex(file)
    PROVE  SingRight(file, Len(file.index), LoadSing(file))
<1> DEFINE count == Len(file.index)
<1>0. count \in Nat
  BY DEF SoundIndex, IsSeq
<1> HIDE DEF count
<1>1. PICK f : AddsTo(file, count, f) /\ LoadSing(file) = f[count]
  BY <1>0, LoadSingIs DEF count
<1> DEFINE T == {n \in Nat : n <= count => SingRight(file, n, f[n])}
<1>2. 0 \in T
  <2>1. f[0] = NoneAdded
    BY <1>0, <1>1 DEF AddsTo
  <2>2. SingRight(file, 0, f[0])
    BY <2>1 DEF SingRight, NoneAdded, NoMap
  <2>3. QED
    BY <2>2
<1>3. ASSUME NEW n \in T \cap Nat PROVE n + 1 \in T
  <2>1. SUFFICES ASSUME n + 1 <= count PROVE SingRight(file, n + 1, f[n + 1])
    OBVIOUS
  <2>2. f[n + 1] = AddEntry(file, f[n], file.index[n + 1])
    <3>1. n + 1 \in 0 .. count /\ n + 1 # 0 /\ (n + 1) - 1 = n
      BY <1>0, <2>1
    <3>2. QED
      BY <1>1, <3>1 DEF AddsTo
  <2>3. SingRight(file, n, f[n])
    BY <1>0, <2>1
  <2>4. QED
    BY <2>1, <2>2, <2>3, AddEntryRight DEF count
<1> HIDE DEF T
<1>4. Nat \subseteq T
  BY <1>2, <1>3, NatSetInduction
<1>5. count \in T
  BY <1>0, <1>4
<1>6. QED
  BY <1>0, <1>1, <1>5 DEF T, count

-----------------------------------------------------------------------------
(* Lists of a site, and rules that compile                                 *)

\* The runs that the reference speaks of are those the reader takes.
LEMMA RunsAre == ASSUME NEW file, NEW entry PROVE Runs(file, entry) = EntryRuns(file, entry)
BY DEF Runs, EntryRuns, RunsOf

\* The runs of an entry hold the same items.
LEMMA RunsAgree ==
    ASSUME NEW file, SoundItems(file), NEW entry, entry.index \in Nat, entry.count \in Nat,
           NEW run \in EntryRuns(file, entry), NEW other \in EntryRuns(file, entry)
    PROVE  Held(file, run) = Held(file, other)
BY ReadItemsRight DEF ReadRight, EntryRuns

\* The list of an entry is made of the items that the index gives its code.
LEMMA SingListIs ==
    ASSUME NEW file, SoundIndex(file)
    PROVE  /\ LoadSing(file).ok <=> \A i \in DOMAIN file.index : Runs(file, file.index[i]) # {}
           /\ LoadSing(file).ok =>
                /\ DOMAIN LoadSing(file).map = {Lower(file.index[i].code) : i \in DOMAIN file.index}
                /\ \A code : Lower(code) \in DOMAIN LoadSing(file).map =>
                      LoadSing(file).map[Lower(code)] = [domains |-> Domains(ItemsOf(file, code))]
<1> DEFINE s == LoadSing(file)
<1>1. DOMAIN file.index = 1 .. Len(file.index)
  BY DEF SoundIndex, IsSeq
<1>2. SingRight(file, Len(file.index), s)
  BY LoadSingRight
<1> HIDE DEF s
<1>3. s.ok <=> \A i \in DOMAIN file.index : Runs(file, file.index[i]) # {}
  BY <1>1, <1>2, RunsAre DEF SingRight
<1>4. ASSUME s.ok PROVE DOMAIN s.map = {Lower(file.index[i].code) : i \in DOMAIN file.index}
  BY <1>1, <1>2, <1>4 DEF SingRight
<1>5. ASSUME s.ok, NEW code, Lower(code) \in DOMAIN s.map
      PROVE  s.map[Lower(code)] = [domains |-> Domains(ItemsOf(file, code))]
  <2>1. PICK i \in DOMAIN file.index : Lower(code) = Lower(file.index[i].code)
    BY <1>4, <1>5
  <2>2. PICK run \in EntryRuns(file, file.index[i]) : TRUE
    BY <1>3, <1>5, RunsAre
  <2>3. s.map[Lower(code)] = [domains |-> Domains(Held(file, run))]
    BY <1>1, <1>2, <1>5, <2>1 DEF SingRight
  <2>4. {j \in DOMAIN file.index : SameWord(file.index[j].code, code)} = {i}
    BY <2>1 DEF SameWord, SoundIndex, DistinctCodes
  <2>5. ItemsOf(file, code) = UNION {Held(file, r) : r \in EntryRuns(file, file.index[i])}
    BY <2>4, RunsAre DEF ItemsOf, Held
  <2>6. \A r \in EntryRuns(file, file.index[i]) : Held(file, r) = Held(file, run)
    BY RunsAgree DEF SoundIndex
  <2>7. ItemsOf(file, code) = Held(file, run)
    BY <2>5, <2>6
  <2>8. QED
    BY <2>3, <2>7
<1>6. QED
  BY <1>3, <1>4, <1>5 DEF s

\* The items of a code are sound.
LEMMA ItemsSound ==
    ASSUME NEW file, SoundItems(file), NEW code, NEW item \in ItemsOf(file, code)
    PROVE  SoundItem(item)
<1>1. PICK i \in DOMAIN file.index : \E run \in Runs(file, file.index[i]) : \E k \in DOMAIN run : item = file.items[run[k]]
  BY DEF ItemsOf
<1>2. PICK run \in Runs(file, file.index[i]) : \E k \in DOMAIN run : item = file.items[run[k]]
  BY <1>1
<1>3. run \in [1 .. file.index[i].count -> DOMAIN file.items]
  BY DEF Runs
<1>4. QED
  BY <1>2, <1>3 DEF SoundItems

\* A matcher takes domains of the four types, with patterns that compile.
LEMMA SiteMatcherIs ==
    ASSUME NEW list, NEW attrs
    PROVE  SiteMatcher(list, attrs) # NoMatcher <=> Compilable(list.domains)
<1>1. Matcher(list.domains, attrs).kind = "geosite" /\ NoMatcher.kind = "none"
  BY DEF Matcher, NoMatcher
<1>2. QED
  BY <1>1 DEF SiteMatcher

\* Of the items of sing-geosite only a pattern can be wrong.
LEMMA DomainsCompilable ==
    ASSUME NEW items, \A item \in items : SoundItem(item)
    PROVE  Compilable(Domains(items)) <=> \A item \in items : ~(item.type = "regex" /\ item.value = Nil)
<1> DEFINE of(item) == [type |-> CASE item.type = "domain"  -> "full"  [] item.type = "suffix" -> "root"
                 [] item.type = "keyword" -> "plain" [] item.type = "regex"  -> "regex",
      value |-> IF item.type = "suffix" /\ IsPrefix(<<".">>, item.value) THEN Tail(item.value)
                ELSE item.value,
      attrs |-> {}]
<1>1. \A item \in items : item.type \in {"domain", "suffix", "keyword", "regex"}
  BY DEF SoundItem
<1>2. Domains(items) = {of(item) : item \in items}
  <2>1. {i \in items : i.type \in {"domain", "suffix", "keyword", "regex"}} = items
    BY <1>1
  <2>2. QED
    BY <2>1 DEF Domains
<1>3. \A item \in items : /\ of(item).type \in Types
                          /\ of(item).type = "regex" <=> item.type = "regex"
                          /\ item.type = "regex" => of(item).value = item.value
  BY <1>1 DEF Types
<1> HIDE DEF of
<1>4. QED
  BY <1>2, <1>3 DEF Compilable

\* A rule gets its GeoSite matcher exactly when the database has a list that
\* it can use.
LEMMA GeoSiteUsableIs ==
    ASSUME NEW source, SoundSource("geosite", source), NEW code, NEW attrs
    PROVE  HasList("geosite", source, code) /\ SiteMatcher(ListOf("geosite", source, code), attrs) # NoMatcher
           <=> Usable("geosite", source, code)
<1>0. "geosite" \in Kinds
  BY DEF Kinds
<1>1. CASE code = Nil \/ ~Readable("geosite", source)
  BY <1>0, <1>1, LoadIs DEF HasList, Usable
<1>2. CASE code # Nil /\ Readable("geosite", source)
  <2> DEFINE all == LoadFile("geosite", source.file.format, source.file)
  <2>1. /\ HasList("geosite", source, code) <=> all.ok /\ Lower(code) \in DOMAIN all.map
        /\ ListOf("geosite", source, code) = all.map[Lower(code)]
        /\ source.file.format \in {"dat", "db"} /\ SoundFile("geosite", source.file)
    <3>1. Load("geosite", source) = all
      BY <1>0, <1>2, LoadIs
    <3>2. QED
      BY <1>2, <3>1 DEF HasList, ListOf, Readable, SoundSource, Formats
  <2>2. PICK file : file = source.file
    OBVIOUS
  <2>3. CASE file.format = "dat"
    <3>1. all = LoadDat(file.entries)
      BY <2>2, <2>3 DEF LoadFile
    <3>2. /\ IsSeq(file.entries) /\ DistinctCodes(file.entries)
          /\ \A i \in DOMAIN file.entries : \A d \in file.entries[i].domains : SoundDomain(d)
      BY <2>1, <2>2, <2>3 DEF SoundFile
    <3> HIDE DEF all
    <3>3. \A i \in DOMAIN file.entries :
             Compilable(file.entries[i].domains) <=>
                \A d \in file.entries[i].domains : d.type # "other" /\ ~(d.type = "regex" /\ d.value = Nil)
      BY <3>2 DEF Compilable, SoundDomain, Types
    <3>4. Usable("geosite", source, code) <=>
             \E i \in DOMAIN file.entries :
                Lower(file.entries[i].code) = Lower(code) /\ Compilable(file.entries[i].domains)
      BY <1>2, <2>2, <2>3, <3>3 DEF Usable, SameWord
    <3>5. /\ all.ok /\ DOMAIN all.map = {Lower(file.entries[i].code) : i \in DOMAIN file.entries}
          /\ \A i \in DOMAIN file.entries : all.map[Lower(file.entries[i].code)] = file.entries[i]
      BY <3>1, <3>2, LoadDatIs
    <3>6. QED
      BY <2>1, <3>4, <3>5, SiteMatcherIs
  <2>4. CASE file.format = "db"
    <3>1. all = LoadSing(file)
      BY <2>2, <2>4 DEF LoadFile
    <3>2. SoundIndex(file)
      BY <2>1, <2>2, <2>4 DEF SoundFile, SoundIndex, SoundItems
    <3> HIDE DEF all
    <3>3. /\ all.ok <=> \A i \in DOMAIN file.index : Runs(file, file.index[i]) # {}
          /\ all.ok => DOMAIN all.map = {Lower(file.index[i].code) : i \in DOMAIN file.index}
          /\ all.ok /\ Lower(code) \in DOMAIN all.map => all.map[Lower(code)] = [domains |-> Domains(ItemsOf(file, code))]
      BY <3>1, <3>2, SingListIs
    <3>4. Compilable(Domains(ItemsOf(file, code))) <=>
             \A item \in ItemsOf(file, code) : ~(item.type = "regex" /\ item.value = Nil)
      <4>1. \A item \in ItemsOf(file, code) : SoundItem(item)
        BY <3>2, ItemsSound DEF SoundIndex
      <4>2. QED
        BY <4>1, DomainsCompilable
    <3>5. Usable("geosite", source, code) <=>
             /\ \A i \in DOMAIN file.index : Runs(file, file.index[i]) # {}
             /\ \E i \in DOMAIN file.index : Lower(file.index[i].code) = Lower(code)
             /\ Compilable(Domains(ItemsOf(file, code)))
      BY <1>2, <2>2, <2>4, <3>4 DEF Usable, SameWord
    <3>6. all.ok => (Lower(code) \in DOMAIN all.map <=> \E i \in DOMAIN file.index : Lower(file.index[i].code) = Lower(code))
      BY <3>3
    <3>7. QED
      BY <2>1, <3>3, <3>5, <3>6, SiteMatcherIs
  <2>5. QED
    BY <2>1, <2>2, <2>3, <2>4
<1>3. QED
  BY <1>1, <1>2

-----------------------------------------------------------------------------
(* Rules without a flaw                                                    *)

\* The least number of a set is the one that LeastOf chooses.
LEMMA LeastUnique ==
    ASSUME NEW S, S \subseteq Nat, NEW x \in S, \A y \in S : x <= y
    PROVE  LeastOf(S) = x
<1>1. LeastOf(S) \in S /\ \A i \in S : LeastOf(S) <= i
  BY LeastIs
<1>2. LeastOf(S) <= x /\ x <= LeastOf(S) /\ x \in Nat /\ LeastOf(S) \in Nat
  BY <1>1
<1>3. QED
  BY <1>2

\* A sequence is one whatever its elements.
LEMMA SeqIs ==
    ASSUME NEW X, NEW s \in Seq(X)
    PROVE  IsSeq(s)
BY DEF IsSeq

\* An element more at the end of a sequence.
LEMMA SeqAppend ==
    ASSUME NEW s, IsSeq(s), NEW x
    PROVE  /\ IsSeq(Append(s, x)) /\ Len(Append(s, x)) = Len(s) + 1 /\ Len(s) \in Nat
           /\ Append(s, x)[Len(s) + 1] = x /\ \A i \in 1 .. Len(s) : Append(s, x)[i] = s[i]
<1> DEFINE X == {s[i] : i \in DOMAIN s} \cup {x}
<1>1. s \in Seq(X)
  BY DEF IsSeq
<1>2. Append(s, x) \in Seq(X)
  BY <1>1
<1>3. IsSeq(Append(s, x))
  BY <1>2, SeqIs
<1>4. QED
  BY <1>1, <1>3

\* The domain of a sequence.
LEMMA SeqLen == ASSUME NEW s, IsSeq(s) PROVE Len(s) \in Nat /\ DOMAIN s = 1 .. Len(s)
BY DEF IsSeq

\* A rule compiles if it has none of the flaws of a host.
FlawedHost(rule) ==
    \/ rule.addr.prefix \in {"geoip", "geosite"} /\ ~Usable(rule.addr.prefix, config[rule.addr.prefix], rule.addr.body)
    \/ rule.addr.prefix = "suffix" /\ rule.addr.body.id = <<>>
    \/ rule.addr.prefix = "none" /\ rule.addr.slash /\ rule.addr.nets = {}

\* A host compiles when it has no flaw.
LEMMA HostMatcherIs ==
    ASSUME config \in Configs, NEW rule, SoundRule(rule)
    PROVE  HostMatcher(rule.addr) # NoMatcher <=> ~FlawedHost(rule)
<1> DEFINE a == rule.addr
<1>1. SoundSource("geoip", config.geoip) /\ SoundSource("geosite", config.geosite)
  BY CompileAssumption DEF SoundConfig
<1>2. a.prefix \in {"all", "geoip", "geosite", "suffix", "none"}
  BY DEF SoundRule
<1>3. NoMatcher.kind = "none"
  BY DEF NoMatcher
<1>4. CASE a.prefix = "all"
  BY <1>3, <1>4 DEF HostMatcher, FlawedHost
<1>5. CASE a.prefix = "geoip"
  <2>1. HostMatcher(a) = IF HasList("geoip", config.geoip, a.body)
                         THEN GeoIPMatcher(ListOf("geoip", config.geoip, a.body)) ELSE NoMatcher
    BY <1>5 DEF HostMatcher
  <2>2. FlawedHost(rule) <=> ~Usable("geoip", config.geoip, a.body)
    BY <1>5 DEF FlawedHost
  <2>3. QED
    BY <1>1, <2>1, <2>2, GeoIPUsableIs
<1>6. CASE a.prefix = "geosite"
  <2>1. HostMatcher(a) = IF HasList("geosite", config.geosite, a.body)
                         THEN SiteMatcher(ListOf("geosite", config.geosite, a.body), a.attrs) ELSE NoMatcher
    BY <1>6 DEF HostMatcher
  <2>2. FlawedHost(rule) <=> ~Usable("geosite", config.geosite, a.body)
    BY <1>6 DEF FlawedHost
  <2>3. QED
    BY <1>1, <2>1, <2>2, GeoSiteUsableIs
<1>7. \A mode, name : DomainMatcher(mode, name) # NoMatcher
  BY <1>3 DEF DomainMatcher
<1>8. CASE a.prefix = "suffix"
  BY <1>7, <1>8 DEF HostMatcher, FlawedHost
<1>9. CASE a.prefix = "none"
  <2>1. [kind |-> "addr", nets |-> a.nets] # NoMatcher
    BY <1>3
  <2>2. QED
    BY <1>7, <1>9, <2>1 DEF HostMatcher, FlawedHost
<1>10. QED
  BY <1>2, <1>4, <1>5, <1>6, <1>8, <1>9

\* A protocol and its ports compile when they have no flaw.
LEMMA GoodProtoPortIs ==
    ASSUME NEW p, p.proto \in {"both", "tcp", "udp", "other"}, p.ports \in Seq(Int), Len(p.ports) <= 2
    PROVE  GoodProtoPort(p) <=>
              ~ \/ p.proto = "other"
                \/ \E i, j \in DOMAIN p.ports :
                      \/ p.ports[i] \notin 0 .. MaxPort
                      \/ i < j /\ p.ports[i] > p.ports[j]
<1>1. p.proto \in RM!Protocols <=> p.proto # "other"
  BY DEF RM!Protocols
<1>2. DOMAIN p.ports \subseteq {1, 2} /\ (Len(p.ports) = 2 <=> DOMAIN p.ports = {1, 2})
      /\ \A i \in DOMAIN p.ports : p.ports[i] \in Int
  <2>0. Len(p.ports) \in Nat /\ DOMAIN p.ports = 1 .. Len(p.ports)
    OBVIOUS
  <2> DEFINE n == Len(p.ports)
  <2>1. n \in {0, 1, 2} /\ DOMAIN p.ports = 1 .. n
    <3>1. n \in Nat /\ n <= 2 /\ DOMAIN p.ports = 1 .. n
      BY <2>0
    <3> HIDE DEF n
    <3>2. QED
      BY <3>1
  <2>2. 1 .. 0 = {} /\ 1 .. 1 = {1} /\ 1 .. 2 = {1, 2}
    OBVIOUS
  <2>3. \A i \in DOMAIN p.ports : p.ports[i] \in Int
    OBVIOUS
  <2>4. QED
    BY <2>1, <2>2, <2>3, SMTT(30)
<1>3. (\E i, j \in DOMAIN p.ports : i < j /\ p.ports[i] > p.ports[j]) <=> Len(p.ports) = 2 /\ ~(p.ports[1] <= p.ports[2])
  BY <1>2
<1>4. QED
  BY <1>1, <1>3 DEF GoodProtoPort

\* The names in the table of outbounds.
LEMMA TableDomain ==
    ASSUME NEW entries
    PROVE  DOMAIN OutboundsToMap(entries) =
              {Lower(entries[i].name).id : i \in DOMAIN entries} \cup {"direct", "reject", "default"}
BY DEF OutboundsToMap

\* Flawed is what CompileRule refuses.
LEMMA FlawedIs ==
    ASSUME config \in Configs, table = OutboundsToMap(config.outbounds), NEW rule, SoundRule(rule)
    PROVE  Flawed(rule) <=>
              ~ /\ Lower(rule.outbound).id \in DOMAIN table /\ HostMatcher(rule.addr) # NoMatcher
                /\ GoodProtoPort(rule.protoPort) /\ (rule.hijack.given => rule.hijack.ip # Nil)
<1>1. Lower(rule.outbound).id \in DOMAIN table <=>
         Lower(rule.outbound).id \in {"direct", "reject", "default"} \cup
            {Lower(config.outbounds[i].name).id : i \in DOMAIN config.outbounds}
  BY TableDomain
<1>2. HostMatcher(rule.addr) # NoMatcher <=> ~FlawedHost(rule)
  BY HostMatcherIs
<1>3. GoodProtoPort(rule.protoPort) <=>
         ~ \/ rule.protoPort.proto = "other"
           \/ \E i, j \in DOMAIN rule.protoPort.ports :
                 \/ rule.protoPort.ports[i] \notin 0 .. MaxPort
                 \/ i < j /\ rule.protoPort.ports[i] > rule.protoPort.ports[j]
  BY GoodProtoPortIs DEF SoundRule
<1>4. QED
  BY <1>1, <1>2, <1>3 DEF Flawed, FlawedHost

-----------------------------------------------------------------------------
(* Building: the inductive invariant                                       *)

\* The steps after building.
Answering == {"ready", "match", "search", "answered"}

\* The rules parsed are those of the first n lines, none of which is bad.
ParsedTo(n) ==
    /\ IsSeq(rules)
    /\ \A i \in DOMAIN rules : rules[i].num \in RuleLines /\ rules[i].num <= n /\ rules[i].rule = Text[rules[i].num].rule
    /\ \A i, j \in DOMAIN rules : i < j => rules[i].num < rules[j].num
    /\ \A l \in RuleLines : l <= n => \E i \in DOMAIN rules : rules[i].num = l
    /\ \A l \in DOMAIN Text : l <= n => Text[l].kind # "bad"

\* The first n of them are compiled, and have no flaw.
CompiledTo(n) ==
    /\ IsSeq(compiled) /\ Len(compiled) = n
    /\ \A i \in 1 .. n : /\ compiled[i] = Compiled(rules[i].rule, HostMatcher(rules[i].rule.addr))
                         /\ ~Flawed(rules[i].rule)

\* The first n entries are accepted.
AcceptedTo(n) == \A i \in DOMAIN config.outbounds : i <= n => Accepted(config.outbounds[i])

\* The rules come from one place.
TextGiven == ~(config.file.given /\ (~config.file.readable \/ config.inline # <<>>))

\* A database is loaded for a rule.
LoadedRight == \A kind \in loaded : \E l \in RuleLines : Text[l].rule.addr.prefix = kind

\* What holds at every step of building, and after it.
BuildInv ==
    /\ config \in Configs
    /\ pc \in Answering \cup {"outbounds", "rules", "syntax", "rule", "failed"}
    /\ pc = "outbounds" => line \in Nat \ {0} /\ AcceptedTo(line - 1)
    /\ pc \notin {"outbounds", "failed"} => AcceptedTo(Len(config.outbounds))
    /\ pc \in {"outbounds", "rules"} => rules = <<>> /\ compiled = <<>>
    /\ pc \in {"syntax", "rule"} \cup Answering => TextGiven /\ table = OutboundsToMap(config.outbounds)
    /\ pc = "syntax" => line \in Nat \ {0} /\ ParsedTo(line - 1) /\ compiled = <<>>
    /\ pc = "rule" => line \in Nat \ {0} /\ ParsedTo(Len(Text)) /\ CompiledTo(line - 1) /\ line - 1 <= Len(rules)
    /\ pc \in Answering => ParsedTo(Len(Text)) /\ CompiledTo(Len(rules))
    /\ pc = "failed" => error # Nil /\ error = ErrorAsWritten
    /\ LoadedRight

\* A configuration is a sound one.
LEMMA ConfigIs ==
    ASSUME config \in Configs
    PROVE  /\ IsSeq(config.outbounds) /\ IsSeq(Text) /\ RuleLines \subseteq DOMAIN Text
           /\ DOMAIN config.outbounds \subseteq Nat /\ DOMAIN Text \subseteq Nat
           /\ \A l \in RuleLines : SoundRule(Text[l].rule)
<1>1. SoundConfig(config)
  BY CompileAssumption
<1>2. IsSeq(config.outbounds) /\ SoundText(Text)
  BY <1>1 DEF SoundConfig, Text
<1>3. QED
  BY <1>2, SeqLen DEF SoundText, RuleLines

\* What is read off the configuration stays.
LEMMA ConfigStays ==
    ASSUME config' = config
    PROVE  /\ ErrorAsWritten' = ErrorAsWritten /\ Text' = Text /\ RuleLines' = RuleLines
           /\ TextGiven' = TextGiven
           /\ \A n : AcceptedTo(n)' = AcceptedTo(n)
           /\ \A rule : Flawed(rule)' = Flawed(rule)
           /\ \A a : HostMatcher(a)' = HostMatcher(a)
<1>1. Text' = Text
  BY DEF Text
<1>2. RuleLines' = RuleLines
  BY <1>1 DEF RuleLines
<1>3. \A rule : Flawed(rule)' = Flawed(rule)
  BY DEF Flawed
<1>4. \A a : HostMatcher(a)' = HostMatcher(a)
  BY DEF HostMatcher
<1>5. ErrorAsWritten' = ErrorAsWritten
  BY <1>1, <1>2, <1>3 DEF ErrorAsWritten
<1>6. TextGiven' = TextGiven /\ \A n : AcceptedTo(n)' = AcceptedTo(n)
  BY DEF TextGiven, AcceptedTo
<1>7. QED
  BY <1>1, <1>2, <1>3, <1>4, <1>5, <1>6

\* The frames of the parts of BuildInv.
LEMMA ParsedStays ==
    ASSUME config' = config, rules' = rules, NEW n
    PROVE  ParsedTo(n)' = ParsedTo(n)
BY ConfigStays DEF ParsedTo

\* Compiled rules stay with the table.
LEMMA CompiledStays ==
    ASSUME config' = config, rules' = rules, table' = table, compiled' = compiled, NEW n
    PROVE  CompiledTo(n)' = CompiledTo(n)
<1>1. \A rule, host : Compiled(rule, host)' = Compiled(rule, host)
  BY DEF Compiled
<1>2. QED
  BY <1>1, ConfigStays DEF CompiledTo

\* So do the databases.
LEMMA LoadedStays ==
    ASSUME config' = config, loaded' = loaded
    PROVE  LoadedRight' = LoadedRight
BY ConfigStays DEF LoadedRight

\* An error is none of the values that stand for nothing.
LEMMA ErrorIs ==
    ASSUME NEW stage \in {"outbounds", "rules", "syntax", "rule"}, NEW where \in Nat
    PROVE  [stage |-> stage, at |-> where] # Nil
BY CompileAssumption

\* Nothing is built at first.
LEMMA BuildInit == ASSUME Init PROVE BuildInv
<1>1. config \in Configs /\ pc = "outbounds" /\ line = 1 /\ rules = <<>> /\ compiled = <<>> /\ loaded = {}
  BY DEF Init
<1>2. DOMAIN config.outbounds = 1 .. Len(config.outbounds) /\ line - 1 = 0
  BY <1>1, ConfigIs, SeqLen
<1>3. AcceptedTo(line - 1)
  BY <1>2 DEF AcceptedTo
<1>4. QED
  BY <1>1, <1>3 DEF BuildInv, LoadedRight, Answering

\* An entry is accepted, or is the first that is not.
LEMMA BuildOutboundInv == ASSUME BuildInv, BuildOutbound PROVE BuildInv'
<1>1. /\ pc = "outbounds" /\ config' = config /\ rules' = rules /\ table' = table
      /\ compiled' = compiled /\ loaded' = loaded /\ config \in Configs
      /\ line \in Nat \ {0} /\ AcceptedTo(line - 1) /\ LoadedRight /\ rules = <<>> /\ compiled = <<>>
  BY DEF BuildInv, BuildOutbound
<1>2. DOMAIN config.outbounds = 1 .. Len(config.outbounds) /\ Len(config.outbounds) \in Nat
  BY <1>1, ConfigIs, SeqLen
<1>3. LoadedRight'
  BY <1>1, LoadedStays
<1>4. CASE line > Len(config.outbounds)
  <2>1. pc' = "rules"
    BY <1>1, <1>4 DEF BuildOutbound, Goto
  <2>2. AcceptedTo(Len(config.outbounds))
    BY <1>1, <1>2, <1>4 DEF AcceptedTo
  <2>3. QED
    BY <1>1, <1>3, <2>1, <2>2, ConfigStays DEF BuildInv, Answering
<1>5. CASE line <= Len(config.outbounds) /\ Accepted(config.outbounds[line])
  <2>1. pc' = pc /\ line' = line + 1
    BY <1>1, <1>2, <1>5 DEF BuildOutbound
  <2>2. AcceptedTo(line' - 1)
    BY <1>1, <1>2, <1>5, <2>1 DEF AcceptedTo
  <2>3. AcceptedTo(line - 1)'
    BY <1>1, <2>2 DEF AcceptedTo
  <2>4. QED
    BY <1>1, <1>3, <2>1, <2>3 DEF BuildInv, Answering
<1>6. CASE line <= Len(config.outbounds) /\ ~Accepted(config.outbounds[line])
  <2>1. pc' = "failed" /\ error' = [stage |-> "outbounds", at |-> line]
    BY <1>1, <1>2, <1>6 DEF BuildOutbound, Fail
  <2> DEFINE entries == {i \in DOMAIN config.outbounds : ~Accepted(config.outbounds[i])}
  <2>2. line \in entries /\ entries \subseteq Nat /\ \A i \in entries : line <= i
    BY <1>1, <1>2, <1>6 DEF AcceptedTo
  <2>3. LeastOf(entries) = line
    BY <2>2, LeastUnique
  <2>4. error' = ErrorAsWritten
    BY <2>1, <2>2, <2>3 DEF ErrorAsWritten
  <2>5. error' # Nil
    BY <1>1, <2>1, ErrorIs
  <2>6. QED
    BY <1>1, <1>3, <2>1, <2>4, <2>5, ConfigStays DEF BuildInv, Answering
<1>7. QED
  BY <1>1, <1>2, <1>4, <1>5, <1>6

\* The rules are given, in one way.
LEMMA BuildRulesInv == ASSUME BuildInv, BuildRules PROVE BuildInv'
<1>1. /\ pc = "rules" /\ config' = config /\ rules' = rules /\ table' = OutboundsToMap(config.outbounds)
      /\ compiled' = compiled /\ loaded' = loaded /\ config \in Configs
      /\ AcceptedTo(Len(config.outbounds)) /\ LoadedRight /\ rules = <<>> /\ compiled = <<>>
  BY DEF BuildInv, BuildRules
<1>2. DOMAIN config.outbounds = 1 .. Len(config.outbounds) /\ Len(config.outbounds) \in Nat
      /\ DOMAIN Text \subseteq Nat \ {0} /\ RuleLines \subseteq DOMAIN Text
  BY <1>1, ConfigIs, SeqLen
<1>3. LoadedRight'
  BY <1>1, LoadedStays
<1>4. CASE ~TextGiven
  <2>1. pc' = "failed" /\ error' = [stage |-> "rules", at |-> 0]
    BY <1>1, <1>4 DEF BuildRules, Fail, TextGiven
  <2>2. {i \in DOMAIN config.outbounds : ~Accepted(config.outbounds[i])} = {}
    BY <1>1, <1>2 DEF AcceptedTo
  <2>3. error' = ErrorAsWritten
    BY <1>4, <2>1, <2>2 DEF ErrorAsWritten, TextGiven
  <2>4. error' # Nil
    BY <2>1, ErrorIs
  <2>5. QED
    BY <1>1, <1>3, <2>1, <2>3, <2>4, ConfigStays DEF BuildInv, Answering
<1>5. CASE TextGiven
  <2>1. pc' = "syntax" /\ line' = 1
    BY <1>1, <1>5 DEF BuildRules, Goto, TextGiven
  <2>2. ParsedTo(0)
    BY <1>1, <1>2 DEF ParsedTo, IsSeq
  <2>3. line' - 1 = 0 /\ ParsedTo(0)' = ParsedTo(0)
    BY <1>1, <2>1, ParsedStays
  <2>4. ParsedTo(line - 1)'
    BY <2>2, <2>3 DEF ParsedTo
  <2>5. AcceptedTo(Len(config.outbounds))' /\ TextGiven'
    BY <1>1, <1>5, ConfigStays
  <2>6. QED
    BY <1>1, <1>3, <2>1, <2>4, <2>5 DEF BuildInv, Answering
<1>6. QED
  BY <1>4, <1>5

\* All of the entries are accepted.
NoRefused == {i \in DOMAIN config.outbounds : ~Accepted(config.outbounds[i])} = {}

\* No entry was refused.
LEMMA NoneRefused ==
    ASSUME config \in Configs, AcceptedTo(Len(config.outbounds))
    PROVE  NoRefused
<1>1. DOMAIN config.outbounds = 1 .. Len(config.outbounds) /\ Len(config.outbounds) \in Nat
  BY ConfigIs, SeqLen
<1>2. QED
  BY <1>1 DEF AcceptedTo, NoRefused

\* A line is parsed, skipped, or the first that is bad.
LEMMA ParseLineInv == ASSUME BuildInv, ParseLine PROVE BuildInv'
<1>1. /\ pc = "syntax" /\ config' = config /\ table' = table /\ table = OutboundsToMap(config.outbounds)
      /\ compiled' = compiled /\ loaded' = loaded /\ config \in Configs /\ compiled = <<>>
      /\ AcceptedTo(Len(config.outbounds)) /\ LoadedRight /\ TextGiven
      /\ line \in Nat \ {0} /\ ParsedTo(line - 1)
  BY DEF BuildInv, ParseLine
<1>2. /\ DOMAIN Text = 1 .. Len(Text) /\ Len(Text) \in Nat /\ RuleLines \subseteq DOMAIN Text
      /\ \A i \in DOMAIN rules : i \in Nat
      /\ DOMAIN rules = 1 .. Len(rules) /\ Len(rules) \in Nat /\ IsSeq(rules)
  BY <1>1, ConfigIs, SeqLen DEF ParsedTo
<1>3. LoadedRight' /\ AcceptedTo(Len(config.outbounds))' /\ TextGiven' /\ table' = OutboundsToMap(config.outbounds)'
  BY <1>1, LoadedStays, ConfigStays
<1>4. CASE line > Len(Text)
  <2>1. pc' = "rule" /\ line' = 1 /\ rules' = rules
    BY <1>1, <1>4 DEF ParseLine, Goto
  <2>2. ParsedTo(Len(Text))
    BY <1>1, <1>2, <1>4 DEF ParsedTo
  <2>3. ParsedTo(Len(Text))'
    BY <1>1, <2>1, <2>2, ParsedStays, ConfigStays DEF ParsedTo
  <2>4. CompiledTo(line - 1)'
    BY <1>1, <2>1 DEF CompiledTo, IsSeq
  <2>5. line' - 1 <= Len(rules')
    BY <1>2, <2>1
  <2>6. QED
    BY <1>1, <1>3, <2>1, <2>3, <2>4, <2>5 DEF BuildInv, Answering
<1>5. CASE line <= Len(Text) /\ Text[line].kind = "bad"
  <2>1. pc' = "failed" /\ error' = [stage |-> "syntax", at |-> line]
    BY <1>1, <1>2, <1>5 DEF ParseLine, Fail
  <2> DEFINE bad == {l \in DOMAIN Text : Text[l].kind = "bad"}
  <2>2. line \in bad /\ bad \subseteq Nat /\ \A i \in bad : line <= i
    BY <1>1, <1>2, <1>5 DEF ParsedTo
  <2>3. LeastOf(bad) = line
    BY <2>2, LeastUnique
  <2>4. NoRefused
    BY <1>1, NoneRefused
  <2>5. error' = ErrorAsWritten
    BY <1>1, <2>1, <2>2, <2>3, <2>4 DEF ErrorAsWritten, NoRefused, TextGiven
  <2>6. error' # Nil
    BY <1>1, <2>1, ErrorIs
  <2>7. QED
    BY <1>1, <1>3, <2>1, <2>5, <2>6, ConfigStays DEF BuildInv, Answering
<1>6. CASE line <= Len(Text) /\ Text[line].kind # "bad"
  <2>1. pc' = "syntax" /\ line' = line + 1 /\ line \in DOMAIN Text /\ line' - 1 = line
        /\ rules' = IF Text[line].kind = "blank" THEN rules ELSE Append(rules, [rule |-> Text[line].rule, num |-> line])
    BY <1>1, <1>2, <1>6 DEF ParseLine
  <2>2. Text[line].kind = "blank" \/ line \in RuleLines
    BY <1>1, <1>6, <2>1, CompileAssumption DEF SoundConfig, SoundText, Text, RuleLines
  <2>3. \A l \in DOMAIN Text : l <= line => Text[l].kind # "bad"
    BY <1>1, <1>2, <1>6 DEF ParsedTo
  <2>4. CASE Text[line].kind = "blank"
    <3>1. rules' = rules
      BY <2>1, <2>4
    <3>2. line \notin RuleLines
      BY <2>4 DEF RuleLines
    <3>3. ParsedTo(line)
      BY <1>1, <1>2, <2>3, <3>2 DEF ParsedTo
    <3>4. ParsedTo(line - 1)'
      BY <1>1, <2>1, <3>1, <3>3, ConfigStays DEF ParsedTo
    <3>5. QED
      BY <1>1, <1>3, <2>1, <3>4 DEF BuildInv, Answering
  <2>5. CASE line \in RuleLines
    <3> DEFINE new == [rule |-> Text[line].rule, num |-> line]
               n == Len(rules)
    <3>1. rules' = Append(rules, new)
      BY <2>1, <2>5 DEF RuleLines
    <3>2. /\ IsSeq(rules') /\ Len(rules') = n + 1 /\ n \in Nat
          /\ rules'[n + 1] = new /\ \A i \in 1 .. n : rules'[i] = rules[i]
      BY <1>2, <3>1, SeqAppend
    <3>3. DOMAIN rules' = 1 .. n + 1 /\ 1 .. n + 1 = (1 .. n) \cup {n + 1} /\ DOMAIN rules = 1 .. n
      BY <1>2, <3>2, SeqLen
    <3>4. new.num = line /\ new.rule = Text[line].rule
      OBVIOUS
    <3> HIDE DEF n, new
    <3>5. ASSUME NEW i \in DOMAIN rules'
          PROVE  rules'[i].num \in RuleLines /\ rules'[i].num <= line /\ rules'[i].rule = Text[rules'[i].num].rule
      <4>1. CASE i = n + 1
        BY <1>1, <2>5, <3>2, <3>4, <4>1
      <4>2. CASE i \in 1 .. n
        <5>1. rules[i].num \in RuleLines /\ rules[i].num <= line - 1 /\ rules[i].rule = Text[rules[i].num].rule
          BY <1>1, <3>3, <4>2 DEF ParsedTo
        <5>2. rules[i].num \in Nat
          BY <1>2, <5>1
        <5>3. QED
          BY <1>1, <3>2, <4>2, <5>1, <5>2
      <4>3. QED
        BY <3>3, <3>5, <4>1, <4>2
    <3>6. ASSUME NEW i \in DOMAIN rules', NEW j \in DOMAIN rules', i < j PROVE rules'[i].num < rules'[j].num
      <4>1. i \in 1 .. n
        BY <3>2, <3>3, <3>6
      <4>2. rules'[i].num = rules[i].num /\ rules[i].num <= line - 1 /\ rules[i].num \in Nat
        <5>1. rules[i].num \in RuleLines /\ rules[i].num <= line - 1
          BY <1>1, <3>3, <4>1 DEF ParsedTo
        <5>2. QED
          BY <1>2, <3>2, <4>1, <5>1
      <4>3. CASE j = n + 1
        BY <1>1, <3>2, <3>4, <4>2, <4>3
      <4>4. CASE j \in 1 .. n
        BY <1>1, <3>2, <3>3, <3>6, <4>1, <4>4 DEF ParsedTo
      <4>5. QED
        BY <3>3, <3>6, <4>3, <4>4
    <3>7. ASSUME NEW l \in RuleLines, l <= line PROVE \E i \in DOMAIN rules' : rules'[i].num = l
      <4>1. CASE l = line
        BY <3>2, <3>3, <3>4, <4>1
      <4>2. CASE l # line
        <5>1. l <= line - 1
          BY <1>1, <1>2, <3>7, <4>2
        <5>2. PICK i \in DOMAIN rules : rules[i].num = l
          BY <1>1, <5>1 DEF ParsedTo
        <5>3. QED
          BY <3>2, <3>3, <5>2
      <4>3. QED
        BY <4>1, <4>2
    <3>8. ParsedTo(line - 1)'
      BY <1>1, <2>1, <2>3, <3>2, <3>5, <3>6, <3>7, ConfigStays DEF ParsedTo
    <3>9. QED
      BY <1>1, <1>3, <2>1, <3>8 DEF BuildInv, Answering
  <2>6. QED
    BY <2>2, <2>4, <2>5
<1>7. QED
  BY <1>1, <1>2, <1>4, <1>5, <1>6

\* The rules are those of the text.
LEMMA RulesAre ==
    ASSUME config \in Configs, ParsedTo(Len(Text))
    PROVE  /\ DOMAIN rules = 1 .. Len(rules) /\ Len(rules) \in Nat
           /\ \A i \in DOMAIN rules : /\ rules[i].num \in RuleLines /\ rules[i].num \in Nat
                                      /\ rules[i].rule = Text[rules[i].num].rule /\ SoundRule(rules[i].rule)
           /\ \A l \in RuleLines : \E i \in DOMAIN rules : rules[i].num = l
           /\ \A i, j \in DOMAIN rules : i < j => rules[i].num < rules[j].num
           /\ \A l \in DOMAIN Text : Text[l].kind # "bad"
<1>1. DOMAIN Text = 1 .. Len(Text) /\ Len(Text) \in Nat /\ RuleLines \subseteq DOMAIN Text
      /\ \A l \in RuleLines : SoundRule(Text[l].rule)
  BY ConfigIs, SeqLen
<1>2. DOMAIN rules = 1 .. Len(rules) /\ Len(rules) \in Nat
  BY SeqLen DEF ParsedTo
<1>3. \A l \in DOMAIN Text : l <= Len(Text) /\ l \in Nat
  BY <1>1
<1>4. QED
  BY <1>1, <1>2, <1>3 DEF ParsedTo

\* A rule is compiled, or the first that has a flaw.
LEMMA CompileRuleInv == ASSUME BuildInv, CompileRule PROVE BuildInv'
<1>1. /\ pc = "rule" /\ config' = config /\ table' = table /\ table = OutboundsToMap(config.outbounds)
      /\ rules' = rules /\ config \in Configs
      /\ AcceptedTo(Len(config.outbounds)) /\ LoadedRight /\ TextGiven
      /\ line \in Nat \ {0} /\ ParsedTo(Len(Text)) /\ CompiledTo(line - 1) /\ line - 1 <= Len(rules)
  BY DEF BuildInv, CompileRule
<1>2. DOMAIN rules = 1 .. Len(rules) /\ Len(rules) \in Nat
  BY <1>1, RulesAre
<1>3. AcceptedTo(Len(config.outbounds))' /\ TextGiven' /\ table' = OutboundsToMap(config.outbounds)' /\ ParsedTo(Len(Text))'
  <2>1. ParsedTo(Len(Text))' = ParsedTo(Len(Text))
    BY <1>1, ConfigStays DEF ParsedTo
  <2>2. QED
    BY <1>1, <2>1, ConfigStays
<1>4. CASE line > Len(rules)
  <2>1. pc' = "ready" /\ compiled' = compiled /\ loaded' = loaded
    BY <1>1, <1>4 DEF CompileRule, Goto
  <2>2. line - 1 = Len(rules)
    BY <1>1, <1>2, <1>4
  <2>3. CompiledTo(Len(rules))
    BY <1>1, <2>2
  <2>4. CompiledTo(Len(rules))'
    BY <1>1, <2>1, <2>3, CompiledStays DEF CompiledTo
  <2>5. LoadedRight'
    BY <1>1, <2>1, LoadedStays
  <2>6. QED
    BY <1>1, <1>3, <2>1, <2>4, <2>5 DEF BuildInv, Answering
<1>5. CASE line <= Len(rules)
  <2> DEFINE rule == rules[line].rule
             known == Lower(rule.outbound).id \in DOMAIN table
             host == HostMatcher(rule.addr)
             good == /\ known /\ host # NoMatcher /\ GoodProtoPort(rule.protoPort)
                     /\ rule.hijack.given => rule.hijack.ip # Nil
  <2>1. /\ line \in DOMAIN rules /\ rules[line].num \in RuleLines /\ rules[line].num \in Nat
        /\ rule = Text[rules[line].num].rule /\ SoundRule(rule)
    BY <1>1, <1>2, <1>5, RulesAre
  <2>2. Flawed(rule) <=> ~good
    BY <1>1, <2>1, FlawedIs
  <2>3. /\ loaded' = IF known /\ rule.addr.prefix \in {"geoip", "geosite"} /\ rule.addr.body # Nil
                     THEN loaded \cup {rule.addr.prefix} ELSE loaded
        /\ IF good
           THEN /\ compiled' = Append(compiled, Compiled(rule, host))
                /\ line' = line + 1 /\ UNCHANGED <<pc, error>>
           ELSE Fail(rules[line].num) /\ UNCHANGED compiled
    BY <1>1, <1>2, <1>5 DEF CompileRule
  <2>4. LoadedRight'
    <3>1. \A kind \in loaded' : kind \in loaded \/ kind = rule.addr.prefix
      BY <2>3
    <3>2. \A kind \in loaded' : \E l \in RuleLines : Text[l].rule.addr.prefix = kind
      BY <1>1, <2>1, <3>1 DEF LoadedRight
    <3>3. QED
      BY <1>1, <3>2, ConfigStays DEF LoadedRight
  <2> HIDE DEF known, good
  <2>5. CASE good
    <3>1. compiled' = Append(compiled, Compiled(rule, host)) /\ line' = line + 1 /\ pc' = "rule"
      BY <1>1, <2>3, <2>5
    <3>2. IsSeq(compiled) /\ Len(compiled) = line - 1
      BY <1>1 DEF CompiledTo
    <3>3. /\ IsSeq(compiled') /\ Len(compiled') = line /\ compiled'[line] = Compiled(rule, host)
          /\ \A i \in 1 .. line - 1 : compiled'[i] = compiled[i]
      <4> DEFINE new == Compiled(rule, host)
                 n == Len(compiled)
      <4>1. n \in Nat /\ IsSeq(Append(compiled, new)) /\ Len(Append(compiled, new)) = n + 1
            /\ Append(compiled, new)[n + 1] = new /\ \A i \in 1 .. n : Append(compiled, new)[i] = compiled[i]
        BY <3>2, SeqAppend
      <4>2. n + 1 = line /\ n = line - 1
        BY <1>1, <3>2
      <4> HIDE DEF n, new
      <4>3. QED
        BY <3>1, <4>1, <4>2 DEF new
    <3>4. \A r, h : Compiled(r, h)' = Compiled(r, h)
      BY <1>1 DEF Compiled
    <3>5. ASSUME NEW i \in 1 .. line
          PROVE  /\ compiled'[i] = Compiled(rules[i].rule, HostMatcher(rules[i].rule.addr))
                 /\ ~Flawed(rules[i].rule)
      <4>1. i = line \/ i \in 1 .. line - 1
        BY <1>1
      <4>2. QED
        BY <1>1, <2>2, <2>5, <3>3, <4>1 DEF CompiledTo
    <3>6. line' - 1 = line /\ line' \in Nat \ {0}
      BY <1>1, <3>1
    <3>7. CompiledTo(line - 1)'
      BY <1>1, <3>3, <3>4, <3>5, <3>6, ConfigStays DEF CompiledTo
    <3>8. QED
      BY <1>1, <1>3, <1>5, <2>4, <3>1, <3>6, <3>7 DEF BuildInv, Answering
  <2>6. CASE ~good
    <3>1. pc' = "failed" /\ error' = [stage |-> "rule", at |-> rules[line].num]
      BY <1>1, <2>3, <2>6 DEF Fail
    <3> DEFINE flawed == {l \in RuleLines : Flawed(Text[l].rule)}
    <3>2. rules[line].num \in flawed
      BY <2>1, <2>2, <2>6
    <3>3. ASSUME NEW l \in flawed PROVE rules[line].num <= l
      <4>1. PICK i \in DOMAIN rules : rules[i].num = l /\ rules[i].rule = Text[l].rule /\ l \in Nat
        BY <1>1, RulesAre
      <4>2. Flawed(rules[i].rule) /\ i \in Nat
        BY <1>2, <4>1
      <4>3. ~(i < line)
        BY <1>1, <1>2, <4>1, <4>2 DEF CompiledTo
      <4>4. i = line \/ line < i
        BY <1>1, <4>2, <4>3
      <4>5. i = line \/ rules[line].num < rules[i].num
        BY <1>1, <2>1, <4>4, RulesAre
      <4>6. QED
        BY <2>1, <4>1, <4>5
    <3>4. flawed \subseteq Nat
      BY <1>1, ConfigIs
    <3>5. LeastOf(flawed) = rules[line].num
      BY <3>2, <3>3, <3>4, LeastUnique
    <3>6. NoRefused /\ {l \in DOMAIN Text : Text[l].kind = "bad"} = {}
      BY <1>1, NoneRefused, RulesAre
    <3>7. error' = ErrorAsWritten
      BY <1>1, <3>1, <3>2, <3>5, <3>6 DEF ErrorAsWritten, NoRefused, TextGiven
    <3>8. error' # Nil
      BY <2>1, <3>1, ErrorIs
    <3>9. QED
      BY <1>1, <1>3, <2>4, <3>1, <3>7, <3>8, ConfigStays DEF BuildInv, Answering
  <2>7. QED
    BY <2>5, <2>6
<1>6. QED
  BY <1>1, <1>2, <1>4, <1>5

\* Nothing of it changes once building is over.
LEMMA AnsweringInv ==
    ASSUME BuildInv, UNCHANGED <<config, buildVars>>,
           pc' = pc \/ (pc \in Answering /\ pc' \in Answering)
    PROVE  BuildInv'
<1>1. config' = config /\ line' = line /\ rules' = rules /\ table' = table /\ compiled' = compiled
      /\ loaded' = loaded /\ error' = error
  BY DEF buildVars
<1>2. /\ \A n : AcceptedTo(n)' = AcceptedTo(n) /\ ParsedTo(n)' = ParsedTo(n) /\ CompiledTo(n)' = CompiledTo(n)
      /\ TextGiven' = TextGiven /\ LoadedRight' = LoadedRight /\ ErrorAsWritten' = ErrorAsWritten /\ Text' = Text
  BY <1>1, ConfigStays, ParsedStays, CompiledStays, LoadedStays
<1>3. /\ AcceptedTo(line - 1)' = AcceptedTo(line - 1) /\ ParsedTo(line - 1)' = ParsedTo(line - 1)
      /\ CompiledTo(line - 1)' = CompiledTo(line - 1)
      /\ AcceptedTo(Len(config.outbounds))' = AcceptedTo(Len(config.outbounds))
      /\ ParsedTo(Len(Text))' = ParsedTo(Len(Text)) /\ CompiledTo(Len(rules))' = CompiledTo(Len(rules))
  <2>1. line' - 1 = line - 1 /\ config'.outbounds = config.outbounds /\ Len(rules') = Len(rules)
    BY <1>1
  <2>2. Text' = Text /\ RuleLines' = RuleLines
    BY <1>1, ConfigStays
  <2>3. AcceptedTo(line - 1)' = AcceptedTo(line - 1) /\ AcceptedTo(Len(config.outbounds))' = AcceptedTo(Len(config.outbounds))
    BY <1>1, <2>1 DEF AcceptedTo
  <2>4. ParsedTo(line - 1)' = ParsedTo(line - 1) /\ ParsedTo(Len(Text))' = ParsedTo(Len(Text))
    BY <1>1, <2>1, <2>2 DEF ParsedTo
  <2>5. CompiledTo(line - 1)' = CompiledTo(line - 1) /\ CompiledTo(Len(rules))' = CompiledTo(Len(rules))
    <3>1. ASSUME NEW r PROVE Flawed(r)' = Flawed(r) /\ \A h : Compiled(r, h)' = Compiled(r, h)
      BY <1>1, ConfigStays DEF Compiled
    <3>2. \A a : HostMatcher(a)' = HostMatcher(a)
      BY <1>1, ConfigStays
    <3>3. QED
      BY <1>1, <2>1, <3>1, <3>2 DEF CompiledTo
  <2>6. QED
    BY <2>3, <2>4, <2>5
<1>4. CASE pc' = pc
  BY <1>1, <1>2, <1>3, <1>4 DEF BuildInv
<1>5. CASE pc \in Answering /\ pc' \in Answering
  <2>1. pc \notin {"outbounds", "rules", "syntax", "rule", "failed"} /\ pc' \notin {"outbounds", "rules", "syntax", "rule", "failed"}
    BY <1>5 DEF Answering
  <2>2. QED
    BY <1>1, <1>2, <1>3, <1>5, <2>1 DEF BuildInv
<1>6. QED
  BY <1>4, <1>5

\* BuildInv is inductive.
LEMMA BuildNext == ASSUME BuildInv, [Next]_vars PROVE BuildInv'
<1>1. CASE BuildOutbound
  BY <1>1, BuildOutboundInv
<1>2. CASE BuildRules
  BY <1>2, BuildRulesInv
<1>3. CASE ParseLine
  BY <1>3, ParseLineInv
<1>4. CASE CompileRule
  BY <1>4, CompileRuleInv
<1>5. CASE (\E q \in Questions : Ask(q)) \/ NoRule \/ TryRule \/ TryGeoIP \/ SearchStep \/ Searched
  <2>1. UNCHANGED <<config, buildVars>> /\ (pc' = pc \/ (pc \in Answering /\ pc' \in Answering))
    BY <1>5 DEF Ask, NoRule, TryRule, TryGeoIP, SearchStep, Searched, Settle, Search, Answering
  <2>2. QED
    BY <2>1, AnsweringInv
<1>6. CASE UNCHANGED vars
  BY <1>6, AnsweringInv DEF vars
<1>7. QED
  BY <1>1, <1>2, <1>3, <1>4, <1>5, <1>6 DEF Next

\* What it says of errors is what FirstErrorReported asks.
LEMMA BuiltRight == ASSUME BuildInv PROVE FirstErrorReported
<1>1. pc = "failed" => error # Nil /\ error = ErrorAsWritten
  BY DEF BuildInv
<1>2. ASSUME pc \in Answering PROVE ErrorAsWritten = Nil
  <2>1. config \in Configs /\ AcceptedTo(Len(config.outbounds)) /\ TextGiven /\ ParsedTo(Len(Text)) /\ CompiledTo(Len(rules))
    BY <1>2 DEF BuildInv, Answering
  <2>2. NoRefused /\ {l \in DOMAIN Text : Text[l].kind = "bad"} = {}
    BY <2>1, NoneRefused, RulesAre
  <2>3. {l \in RuleLines : Flawed(Text[l].rule)} = {}
    <3>1. \A i \in DOMAIN rules : ~Flawed(rules[i].rule)
      BY <2>1, RulesAre DEF CompiledTo
    <3>2. \A l \in RuleLines : \E i \in DOMAIN rules : rules[i].rule = Text[l].rule
      BY <2>1, RulesAre
    <3>3. QED
      BY <3>1, <3>2
  <2>4. QED
    BY <2>1, <2>2, <2>3 DEF ErrorAsWritten, NoRefused, TextGiven
<1>3. QED
  BY <1>1, <1>2 DEF FirstErrorReported, Answering

\* Building fails exactly when something in the configuration is wrong, and
\* names the first entry or line in which it is, for every configuration and
\* every sound database (config.Build, router.New, Compile; compile.go:112).
THEOREM FirstErrorReportedHolds == Spec => []FirstErrorReported
<1>1. Spec => []BuildInv
  BY BuildInit, BuildNext, PTL DEF Spec
<1>2. QED
  BY <1>1, BuiltRight, PTL

-----------------------------------------------------------------------------
(* What a GeoSite matcher answers                                          *)

\* A value occurs in a name where a rest of the name begins with it.
LEMMA OccursIs ==
    ASSUME NEW value \in Seq(STRING), NEW name \in Seq(STRING)
    PROVE  (\E i \in 0 .. Len(name) : IsPrefix(value, SubSeq(name, i + 1, Len(name)))) <=> Occurs(value, name)
<1> DEFINE n == Len(name)
           m == Len(value)
           At(i) == i + m <= n /\ \A k \in 1 .. m : name[i + k] = value[k]
<1>1. n \in Nat /\ m \in Nat
  OBVIOUS
<1>2. SubSeq(value, 1, m) = value
  BY SubSeqFull
<1>3. ASSUME NEW i \in 0 .. n
      PROVE  IsPrefix(value, SubSeq(name, i + 1, n)) <=> At(i)
  <2> DEFINE rest == SubSeq(name, i + 1, n)
  <2>1. /\ rest \in Seq(STRING) /\ Len(rest) = n - i
        /\ \A k \in 1 .. n - i : rest[k] = name[i + k]
    <3>1. \A k \in i + 1 .. n : name[k] \in STRING
      BY <1>1
    <3>2. /\ rest \in Seq(STRING) /\ Len(rest) = IF i + 1 <= n THEN n - (i + 1) + 1 ELSE 0
          /\ \A k \in 1 .. n - (i + 1) + 1 : rest[k] = name[(i + 1) + k - 1]
      BY <1>1, <3>1, SubSeqProperties
    <3>3. Len(rest) = n - i /\ n - (i + 1) + 1 = n - i
      BY <1>1, <3>2
    <3>4. \A k \in 1 .. n - i : (i + 1) + k - 1 = i + k
      BY <1>1
    <3>5. QED
      BY <3>2, <3>3, <3>4
  <2> HIDE DEF rest
  <2>2. CASE m <= n - i
    <3> DEFINE front == SubSeq(rest, 1, m)
    <3>1. front \in Seq(STRING) /\ Len(front) = m /\ \A k \in 1 .. m : front[k] = rest[k]
      <4>1. \A k \in 1 .. m : rest[k] \in STRING
        BY <1>1, <2>1, <2>2
      <4>2. /\ front \in Seq(STRING) /\ Len(front) = IF 1 <= m THEN m - 1 + 1 ELSE 0
            /\ \A k \in 1 .. m - 1 + 1 : front[k] = rest[1 + k - 1]
        BY <1>1, <4>1, SubSeqProperties
      <4>3. Len(front) = m /\ m - 1 + 1 = m
        BY <1>1, <4>2
      <4>4. \A k \in 1 .. m : 1 + k - 1 = k
        OBVIOUS
      <4>5. QED
        BY <4>2, <4>3, <4>4
    <3> HIDE DEF front
    <3>2. front = value <=> \A k \in 1 .. m : front[k] = value[k]
      BY <3>1, SeqEqual
    <3>3. \A k \in 1 .. m : front[k] = name[i + k]
      BY <1>1, <2>1, <2>2, <3>1
    <3>4. IsPrefix(value, rest) <=> front = value
      BY <1>1, <1>2, <2>1, <2>2 DEF IsPrefix, front
    <3>5. At(i) <=> \A k \in 1 .. m : name[i + k] = value[k]
      BY <1>1, <2>2
    <3> HIDE DEF At
    <3>6. QED
      BY <3>2, <3>3, <3>4, <3>5 DEF rest
  <2>3. CASE ~(m <= n - i)
    BY <1>1, <2>1, <2>3 DEF IsPrefix, rest
  <2>4. QED
    BY <2>2, <2>3
<1>4. ASSUME NEW before \in 0 .. n, NEW after \in 0 .. n, before <= after
      PROVE  SubSeq(name, before + 1, after) = value <=> after = before + m /\ At(before)
  <2> DEFINE part == SubSeq(name, before + 1, after)
  <2>1. /\ part \in Seq(STRING) /\ Len(part) = after - before
        /\ \A k \in 1 .. after - before : part[k] = name[before + k]
    <3>1. \A k \in before + 1 .. after : name[k] \in STRING
      BY <1>1
    <3>2. /\ part \in Seq(STRING) /\ Len(part) = IF before + 1 <= after THEN after - (before + 1) + 1 ELSE 0
          /\ \A k \in 1 .. after - (before + 1) + 1 : part[k] = name[(before + 1) + k - 1]
      BY <1>1, <3>1, SubSeqProperties
    <3>3. Len(part) = after - before /\ after - (before + 1) + 1 = after - before
      BY <1>1, <1>4, <3>2
    <3>4. \A k \in 1 .. after - before : (before + 1) + k - 1 = before + k
      BY <1>1
    <3>5. QED
      BY <3>2, <3>3, <3>4
  <2> HIDE DEF part
  <2>2. part = value <=> after - before = m /\ \A k \in 1 .. m : part[k] = value[k]
    BY <2>1, SeqEqual
  <2>3. after - before = m <=> after = before + m
    BY <1>1
  <2>4. after = before + m => (At(before) <=> \A k \in 1 .. m : part[k] = value[k])
    BY <1>1, <2>1, <2>3
  <2>5. QED
    BY <2>2, <2>3, <2>4 DEF part
<1> HIDE DEF n, m, At
<1>5. Occurs(value, name) <=> \E i \in 0 .. n : At(i)
  <2>1. ASSUME Occurs(value, name) PROVE \E i \in 0 .. n : At(i)
    BY <1>4, <2>1 DEF Occurs, n
  <2>2. ASSUME NEW i \in 0 .. n, At(i) PROVE Occurs(value, name)
    <3>1. i + m \in 0 .. n /\ i <= i + m
      BY <1>1, <2>2 DEF At
    <3>2. SubSeq(name, i + 1, i + m) = value
      BY <1>4, <2>2, <3>1
    <3>3. QED
      BY <3>1, <3>2 DEF Occurs, n
  <2>3. QED
    BY <2>1, <2>2
<1>6. QED
  BY <1>3, <1>5 DEF n

\* What a domain of a list asks of a name.
Met(d, name) ==
    \/ d.type = "plain" /\ Occurs(d.value, name)
    \/ d.type = "regex" /\ name \in d.value
    \/ d.type = "full"  /\ name = d.value
    \/ d.type = "root"  /\ Below(d.value, name)

\* A line without attributes takes every domain, one with attributes those
\* that have them all.
LEMMA AttrsAre == ASSUME NEW d, NEW attrs PROVE MatchesAttrs(d, attrs) <=> attrs \subseteq d.attrs
BY DEF MatchesAttrs

\* What the trie answers for a domain.
LEMMA TrieMeets ==
    ASSUME NEW d, SoundDomain(d), NEW attrs, Fast(d, attrs), NEW name \in Seq(STRING)
    PROVE  (TrieMatches(d, name) <=> Met(d, name)) /\ attrs \subseteq d.attrs
<1>1. d.type = "full" \/ (d.type = "root" /\ ~(d.value # <<>> /\ Head(d.value) = "."))
  BY DEF Fast, SoundDomain
<1>2. TrieMatches(d, name) <=> Met(d, name)
  BY <1>1 DEF TrieMatches, Met, Below
<1>3. QED
  BY <1>2, AttrsAre DEF Fast

\* What the walk answers for one.
LEMMA WalkMeets ==
    ASSUME NEW d, SoundDomain(d), d.type # "other", NEW m, NEW name \in Seq(STRING)
    PROVE  MatchDomainWithAttrs(m, d, name) <=> m.attrs \subseteq d.attrs /\ Met(d, name)
<1>1. d.type = "plain" \/ d.type = "regex" \/ d.type = "full" \/ d.type = "root"
  BY DEF SoundDomain
<1>2. CASE d.type = "plain"
  <2>1. d.value \in Seq(STRING)
    BY <1>2 DEF SoundDomain
  <2>2. (\E i \in 0 .. Len(name) : IsPrefix(d.value, SubSeq(name, i + 1, Len(name)))) <=> Occurs(d.value, name)
    BY <2>1, OccursIs
  <2>3. QED
    BY <1>2, <2>2, AttrsAre DEF MatchDomainWithAttrs, Met
<1>3. CASE d.type # "plain"
  BY <1>1, <1>3, AttrsAre DEF MatchDomainWithAttrs, Met, Below
<1>4. QED
  BY <1>2, <1>3

\* A matcher that could be built matches the names that a domain with all the
\* attributes asks for, wherever the domain was put.
LEMMA MatcherMeets ==
    ASSUME NEW domains, Compilable(domains), \A d \in domains : SoundDomain(d), NEW attrs,
           NEW name \in Seq(STRING)
    PROVE  SiteMatches(Matcher(domains, attrs), name) <=> \E d \in domains : attrs \subseteq d.attrs /\ Met(d, name)
<1> DEFINE m == Matcher(domains, attrs)
           rest == m.plain \cup m.regex \cup m.attr
<1>1. /\ m.attrs = attrs /\ m.fast \subseteq domains /\ rest \subseteq domains
      /\ \A d \in m.fast : Fast(d, attrs)
      /\ m.fast \cup rest = domains
  BY DEF Matcher, Compilable, Types, Fast
<1>2. SiteMatches(m, name) <=> (\E d \in m.fast : TrieMatches(d, name)) \/ (\E d \in rest : MatchDomainWithAttrs(m, d, name))
  BY DEF SiteMatches
<1>3. \A d \in domains : d.type # "other"
  BY DEF Compilable, Types
<1> HIDE DEF m, rest
<1>4. \A d \in m.fast : (TrieMatches(d, name) <=> Met(d, name)) /\ attrs \subseteq d.attrs
  BY <1>1, TrieMeets
<1>5. \A d \in rest : MatchDomainWithAttrs(m, d, name) <=> attrs \subseteq d.attrs /\ Met(d, name)
  BY <1>1, <1>3, WalkMeets
<1>6. QED
  BY <1>1, <1>2, <1>4, <1>5 DEF m

\* A sequence of one element.
LEMMA OneIsSeq == ASSUME NEW X, NEW x \in X PROVE <<x>> \in Seq(X) /\ Len(<<x>>) = 1 /\ <<x>>[1] = x
OBVIOUS

\* The domains that sing-geosite's items become, ask what the items say.
LEMMA DomainsMet ==
    ASSUME NEW items, \A item \in items : SoundItem(item), NEW attrs, NEW name
    PROVE  /\ \A d \in Domains(items) : SoundDomain(d)
           /\ (\E d \in Domains(items) : attrs \subseteq d.attrs /\ Met(d, name)) <=>
              (\E item \in items :
                  /\ attrs = {}
                  /\ \/ item.type = "keyword" /\ Occurs(item.value, name)
                     \/ item.type = "regex"   /\ name \in item.value
                     \/ item.type = "domain"  /\ name = item.value
                     \/ item.type = "suffix"  /\ Below(Tail(item.value), name))
<1> DEFINE of(item) == [type |-> CASE item.type = "domain"  -> "full"  [] item.type = "suffix" -> "root"
                 [] item.type = "keyword" -> "plain" [] item.type = "regex"  -> "regex",
      value |-> IF item.type = "suffix" /\ IsPrefix(<<".">>, item.value) THEN Tail(item.value)
                ELSE item.value,
      attrs |-> {}]
           says(item) == \/ item.type = "keyword" /\ Occurs(item.value, name)
                         \/ item.type = "regex"   /\ name \in item.value
                         \/ item.type = "domain"  /\ name = item.value
                         \/ item.type = "suffix"  /\ Below(Tail(item.value), name)
<1>1. \A item \in items : item.type \in {"domain", "suffix", "keyword", "regex"}
  BY DEF SoundItem
<1>2. Domains(items) = {of(item) : item \in items}
  <2>1. {i \in items : i.type \in {"domain", "suffix", "keyword", "regex"}} = items
    BY <1>1
  <2>2. QED
    BY <2>1 DEF Domains
<1>3. ASSUME NEW item \in items
      PROVE  SoundDomain(of(item)) /\ of(item).attrs = {} /\ (Met(of(item), name) <=> says(item))
  <2>1. CASE item.type = "suffix"
    <3>1. item.value \in Seq(STRING) /\ Len(item.value) > 1 /\ item.value[1] = "." /\ item.value[2] # "."
      BY <2>1 DEF SoundItem
    <3>2. IsPrefix(<<".">>, item.value)
      <4> DEFINE s == item.value
      <4>1. s \in Seq(STRING) /\ Len(s) >= 1 /\ s[1] = "."
        BY <3>1
      <4> HIDE DEF s
      <4>0. <<".">> \in Seq(STRING) /\ Len(<<".">>) = 1 /\ <<".">>[1] = "."
        <5>1. "." \in STRING
          BY <4>1
        <5>2. QED
          BY <5>1, OneIsSeq
      <4>2. SubSeq(s, 1, 1) = <<".">>
        <5>1. \A i \in 1 .. 1 : s[i] \in STRING
          BY <4>1
        <5>2. /\ SubSeq(s, 1, 1) \in Seq(STRING) /\ Len(SubSeq(s, 1, 1)) = IF 1 <= 1 THEN 1 - 1 + 1 ELSE 0
              /\ \A i \in 1 .. 1 - 1 + 1 : SubSeq(s, 1, 1)[i] = s[1 + i - 1]
          BY <5>1, SubSeqProperties
        <5>3. Len(SubSeq(s, 1, 1)) = 1 /\ SubSeq(s, 1, 1)[1] = "."
          BY <4>1, <5>2
        <5>4. \A i \in 1 .. 1 : SubSeq(s, 1, 1)[i] = <<".">>[i]
          BY <4>0, <5>3
        <5>5. QED
          BY <4>0, <5>2, <5>3, <5>4, SeqEqual
      <4>3. SubSeq(<<".">>, 1, 1) = <<".">> /\ Len(<<".">>) = 1
        BY <4>0, SubSeqFull
      <4>4. IsPrefix(<<".">>, s)
        BY <4>1, <4>2, <4>3 DEF IsPrefix
      <4>5. QED
        BY <4>4 DEF s
    <3>3. Tail(item.value) \in Seq(STRING) /\ Tail(item.value) # <<>> /\ Head(Tail(item.value)) = item.value[2]
      <4> DEFINE s == item.value
      <4>1. s \in Seq(STRING) /\ Len(s) > 1 /\ s # <<>> /\ Len(s) \in Nat
        BY <3>1
      <4> HIDE DEF s
      <4>2. /\ Tail(s) \in Seq(STRING) /\ Len(Tail(s)) = Len(s) - 1
            /\ \A i \in 1 .. Len(Tail(s)) : Tail(s)[i] = s[i + 1]
        BY <4>1, HeadTailProperties
      <4>3. Len(Tail(s)) >= 1 /\ 1 \in 1 .. Len(Tail(s))
        BY <4>1, <4>2
      <4>4. Tail(s)[1] = s[2]
        BY <4>2, <4>3
      <4>5. \A t \in Seq(STRING) : Len(t) >= 1 => t # <<>> /\ Head(t) = t[1]
        OBVIOUS
      <4>6. Tail(s) # <<>> /\ Head(Tail(s)) = s[2]
        BY <4>2, <4>3, <4>4, <4>5
      <4>7. QED
        BY <4>2, <4>6 DEF s
    <3>4. of(item).type = "root" /\ of(item).value = Tail(item.value) /\ of(item).attrs = {}
      BY <2>1, <3>2
    <3> HIDE DEF of
    <3>5. QED
      BY <2>1, <3>1, <3>3, <3>4 DEF SoundDomain, Met
  <2>2. CASE item.type # "suffix"
    <3>1. /\ of(item).value = item.value /\ of(item).attrs = {}
          /\ item.type = "domain" => of(item).type = "full"
          /\ item.type = "keyword" => of(item).type = "plain"
          /\ item.type = "regex" => of(item).type = "regex"
      BY <2>2
    <3>2. item.type # "regex" => item.value \in Seq(STRING)
      BY DEF SoundItem
    <3> HIDE DEF of
    <3>3. QED
      BY <1>1, <2>2, <3>1, <3>2 DEF SoundDomain, Met
  <2>3. QED
    BY <2>1, <2>2
<1> HIDE DEF of, says
<1>4. \A item \in items : attrs \subseteq of(item).attrs <=> attrs = {}
  BY <1>3
<1>5. (\E d \in Domains(items) : attrs \subseteq d.attrs /\ Met(d, name)) <=>
      (\E item \in items : attrs = {} /\ says(item))
  BY <1>2, <1>3, <1>4
<1>6. \A d \in Domains(items) : SoundDomain(d)
  BY <1>2, <1>3
<1>7. QED
  BY <1>5, <1>6 DEF says

\* A rule for a site matches the names that the site's list has with all of
\* the rule's attributes, whatever the format of the file.
LEMMA SiteHost ==
    ASSUME NEW source, SoundSource("geosite", source), NEW code, HasList("geosite", source, code), NEW attrs,
           SiteMatcher(ListOf("geosite", source, code), attrs) # NoMatcher, NEW name \in Seq(STRING)
    PROVE  /\ SiteMatcher(ListOf("geosite", source, code), attrs).kind = "geosite"
           /\ SiteMatches(SiteMatcher(ListOf("geosite", source, code), attrs), name) <=>
              InSite(source.file, code, attrs, name)
<1> DEFINE list == ListOf("geosite", source, code)
<1>1. /\ source.file.format \in {"dat", "db"} /\ SoundFile("geosite", source.file)
      /\ LoadFile("geosite", source.file.format, source.file).ok
      /\ Lower(code) \in DOMAIN LoadFile("geosite", source.file.format, source.file).map
      /\ list = LoadFile("geosite", source.file.format, source.file).map[Lower(code)]
  BY ReadableOf DEF Kinds, Formats
<1> HIDE DEF list
<1>2. Compilable(list.domains) /\ SiteMatcher(list, attrs) = Matcher(list.domains, attrs)
  BY DEF SiteMatcher, list
<1>3. SiteMatcher(list, attrs).kind = "geosite"
  BY <1>2 DEF Matcher
<1>4. PICK file : file = source.file
  OBVIOUS
<1>5. CASE file.format = "dat"
  <2>1. LoadFile("geosite", file.format, file) = LoadDat(file.entries)
    BY <1>5 DEF LoadFile
  <2>2. /\ IsSeq(file.entries) /\ DistinctCodes(file.entries)
        /\ \A i \in DOMAIN file.entries : \A d \in file.entries[i].domains : SoundDomain(d)
    BY <1>1, <1>4, <1>5 DEF SoundFile
  <2>3. PICK i \in DOMAIN file.entries : Lower(code) = Lower(file.entries[i].code)
    BY <1>1, <1>4, <2>1, <2>2, LoadDatIs
  <2>4. list = file.entries[i]
    BY <1>1, <1>4, <2>1, <2>2, <2>3, LoadDatIs
  <2>5. \A j \in DOMAIN file.entries : SameWord(file.entries[j].code, code) <=> j = i
    BY <2>2, <2>3 DEF DistinctCodes, SameWord
  <2>6. InSite(file, code, attrs, name) <=>
           \E j \in DOMAIN file.entries : \E d \in file.entries[j].domains :
              SameWord(file.entries[j].code, code) /\ attrs \subseteq d.attrs /\ Met(d, name)
    BY <1>5 DEF InSite, Met
  <2>7. InSite(file, code, attrs, name) <=> \E d \in list.domains : attrs \subseteq d.attrs /\ Met(d, name)
    BY <2>4, <2>5, <2>6
  <2>8. \A d \in list.domains : SoundDomain(d)
    BY <2>2, <2>4
  <2>9. QED
    BY <1>2, <1>3, <1>4, <2>7, <2>8, MatcherMeets DEF list
<1>6. CASE file.format = "db"
  <2>1. LoadFile("geosite", file.format, file) = LoadSing(file)
    BY <1>6 DEF LoadFile
  <2>2. SoundIndex(file)
    BY <1>1, <1>4, <1>6 DEF SoundFile, SoundIndex, SoundItems
  <2>3. list = [domains |-> Domains(ItemsOf(file, code))]
    BY <1>1, <1>4, <2>1, <2>2, SingListIs
  <2>4. list.domains = Domains(ItemsOf(file, code))
    BY <2>3
  <2>5. \A item \in ItemsOf(file, code) : SoundItem(item)
    BY <2>2, ItemsSound DEF SoundIndex
  <2>6. InSite(file, code, attrs, name) <=>
           \E item \in ItemsOf(file, code) :
              /\ attrs = {}
              /\ \/ item.type = "keyword" /\ Occurs(item.value, name)
                 \/ item.type = "regex"   /\ name \in item.value
                 \/ item.type = "domain"  /\ name = item.value
                 \/ item.type = "suffix"  /\ Below(Tail(item.value), name)
    BY <1>6 DEF InSite
  <2> DEFINE items == ItemsOf(file, code)
  <2>a. \A item \in items : SoundItem(item)
    BY <2>5
  <2> HIDE DEF items
  <2>7. InSite(file, code, attrs, name) <=> \E d \in list.domains : attrs \subseteq d.attrs /\ Met(d, name)
    <3>1. (\E d \in Domains(items) : attrs \subseteq d.attrs /\ Met(d, name)) <=>
              (\E item \in items :
                  /\ attrs = {}
                  /\ \/ item.type = "keyword" /\ Occurs(item.value, name)
                     \/ item.type = "regex"   /\ name \in item.value
                     \/ item.type = "domain"  /\ name = item.value
                     \/ item.type = "suffix"  /\ Below(Tail(item.value), name))
      BY <2>a, DomainsMet, ZenonT(40)
    <3>2. QED
      BY <2>4, <2>6, <3>1 DEF items
  <2>8. \A d \in list.domains : SoundDomain(d)
    <3>1. \A d \in Domains(items) : SoundDomain(d)
      BY <2>a, DomainsMet
    <3>2. QED
      BY <2>4, <3>1 DEF items
  <2>9. QED
    BY <1>2, <1>3, <1>4, <2>7, <2>8, MatcherMeets DEF list
<1>7. QED
  BY <1>1, <1>4, <1>5, <1>6

\* A rule for a country searches for the addresses that its list has.
LEMMA GeoIPHost ==
    ASSUME NEW source, SoundSource("geoip", source), NEW code, HasList("geoip", source, code),
           source.file.format = "metadb" => source.file.version = 4,
           GeoIPMatcher(ListOf("geoip", source, code)) # NoMatcher
    PROVE  LET m == GeoIPMatcher(ListOf("geoip", source, code))
           IN  /\ m.kind = "geoip" /\ m.inverse \in BOOLEAN /\ (m.inverse <=> Inverted(source.file, code))
               /\ m.v4 \in Seq(Nets) /\ Sorted(m.v4) /\ Disjoint(m.v4)
               /\ m.v6 \in Seq(Nets) /\ Sorted(m.v6) /\ Disjoint(m.v6)
               /\ \A addr : AddrOK(addr) /\ addr.bytes = 4 =>
                     ((\E k \in DOMAIN m.v4 : NetContains(m.v4[k], addr.number)) <=> InCountry(source.file, code, addr))
               /\ \A addr : AddrOK(addr) /\ addr.bytes = 16 =>
                     ((\E k \in DOMAIN m.v6 : NetContains(m.v6[k], addr.number)) <=> InCountry(source.file, code, addr))
<1> DEFINE list == ListOf("geoip", source, code)
           m == GeoIPMatcher(list)
<1>1. CountryList(list, source.file, code)
  BY GeoIPListIs
<1> HIDE DEF list
<1>2. /\ m.kind = "geoip" /\ m.inverse = list.inverse
      /\ m.v4 = ByAddress(NetsOf(list.cidrs, 4)) /\ m.v6 = ByAddress(NetsOf(list.cidrs, 16))
  BY DEF GeoIPMatcher, list
<1> HIDE DEF m
<1>3. SoundCIDRs(list.cidrs)
  BY <1>1 DEF CountryList
<1>4. /\ m.v4 \in Seq(Nets) /\ Sorted(m.v4) /\ Disjoint(m.v4)
      /\ \A ip \in Nat :
            (\E k \in DOMAIN m.v4 : NetContains(m.v4[k], ip)) <=>
            (\E c \in list.cidrs : c.bytes = 4 /\ SamePrefix(c.ip, ip, c.prefix, BitsOf(4)))
  BY <1>2, <1>3, NetListIs, SMTT(30)
<1>5. /\ m.v6 \in Seq(Nets) /\ Sorted(m.v6) /\ Disjoint(m.v6)
      /\ \A ip \in Nat :
            (\E k \in DOMAIN m.v6 : NetContains(m.v6[k], ip)) <=>
            (\E c \in list.cidrs : c.bytes = 16 /\ SamePrefix(c.ip, ip, c.prefix, BitsOf(16)))
  BY <1>2, <1>3, NetListIs
<1>6. \A addr : AddrOK(addr) => addr.number \in Nat
  <2>1. 2 ^ Bits4 \in Nat /\ 2 ^ Bits6 \in Nat
    BY GeoFilesAssumption, PowerIs
  <2>2. QED
    BY <2>1 DEF AddrOK
<1>7. ASSUME NEW addr, AddrOK(addr), addr.bytes = 4
      PROVE  (\E k \in DOMAIN m.v4 : NetContains(m.v4[k], addr.number)) <=> InCountry(source.file, code, addr)
  <2>1. Holds(list.cidrs, addr) <=> InCountry(source.file, code, addr)
    BY <1>1, <1>7 DEF CountryList
  <2>2. Holds(list.cidrs, addr) <=> \E c \in list.cidrs : c.bytes = 4 /\ SamePrefix(c.ip, addr.number, c.prefix, BitsOf(4))
    BY <1>7 DEF Holds
  <2>3. QED
    BY <1>4, <1>6, <1>7, <2>1, <2>2
<1>8. ASSUME NEW addr, AddrOK(addr), addr.bytes = 16
      PROVE  (\E k \in DOMAIN m.v6 : NetContains(m.v6[k], addr.number)) <=> InCountry(source.file, code, addr)
  <2>1. Holds(list.cidrs, addr) <=> InCountry(source.file, code, addr)
    BY <1>1, <1>8 DEF CountryList
  <2>2. Holds(list.cidrs, addr) <=> \E c \in list.cidrs : c.bytes = 16 /\ SamePrefix(c.ip, addr.number, c.prefix, BitsOf(16))
    BY <1>8 DEF Holds
  <2>3. QED
    BY <1>5, <1>6, <1>8, <2>1, <2>2
<1>9. m.inverse \in BOOLEAN /\ (m.inverse <=> Inverted(source.file, code))
  BY <1>1, <1>2 DEF CountryList
<1>10. QED
  BY <1>2, <1>4, <1>5, <1>7, <1>8, <1>9 DEF m, list

-----------------------------------------------------------------------------
(* Outbounds and filters by name                                           *)

\* A word in lower case.
LEMMA LowerIs ==
    ASSUME NEW x, IsWord(x)
    PROVE  Lower(x) = [id |-> x.id, caps |-> FALSE]
<1> DEFINE r == [id |-> x.id, caps |-> x.caps]
           s == [id |-> x.id, caps |-> FALSE]
           e == [r EXCEPT !.caps = FALSE]
<1>1. DOMAIN e = {"id", "caps"} /\ DOMAIN s = {"id", "caps"}
  OBVIOUS
<1>2. e.id = s.id /\ e.caps = s.caps
  OBVIOUS
<1>3. e = [f \in {"id", "caps"} |-> e[f]] /\ s = [f \in {"id", "caps"} |-> s[f]]
  OBVIOUS
<1> HIDE DEF e, s
<1>4. e = s
  BY <1>2, <1>3
<1>5. Lower(x) = e
  BY DEF Lower, IsWord, e
<1>6. QED
  BY <1>4, <1>5 DEF s

\* Words are the same when they agree in lower case.
LEMMA WordsAre ==
    ASSUME NEW v, IsWord(v), NEW w, IsWord(w)
    PROVE  SameWord(v, w) <=> Lower(v).id = Lower(w).id
<1>1. Lower(v) = [id |-> v.id, caps |-> FALSE] /\ Lower(w) = [id |-> w.id, caps |-> FALSE]
  BY LowerIs
<1>2. Lower(v).id = v.id /\ Lower(w).id = w.id
  BY <1>1
<1>3. QED
  BY <1>1, <1>2 DEF SameWord

\* Outbounds are found in the table by the name that the configuration gives
\* them, whatever its case.
LEMMA NamedIs ==
    ASSUME config \in Configs, AcceptedTo(Len(config.outbounds)), table = OutboundsToMap(config.outbounds),
           NEW name, IsWord(name), Lower(name).id \in DOMAIN table
    PROVE  Named(name) = table[Lower(name).id]
<1> DEFINE entries == config.outbounds
           n == Lower(name).id
           names == {Lower(entries[i].name).id : i \in DOMAIN entries}
           having == {i \in DOMAIN entries : SameWord(entries[i].name, name)}
           mine == {i \in DOMAIN entries : Lower(entries[i].name).id = n}
           last(x) == CHOOSE i \in DOMAIN entries :
                       /\ Lower(entries[i].name).id = x
                       /\ \A j \in DOMAIN entries : Lower(entries[j].name).id = x => j <= i
           direct == IF "direct" \in names THEN entries[last("direct")] ELSE Builtin("direct")
<1>1. DOMAIN entries = 1 .. Len(entries) /\ Len(entries) \in Nat /\ IsSeq(entries)
  BY ConfigIs, SeqLen
<1>2. \A i \in DOMAIN entries : IsWord(entries[i].name)
  <2>1. \A i \in DOMAIN entries : entries[i].name # Nil
    BY <1>1 DEF AcceptedTo, Accepted
  <2>2. QED
    BY <2>1, CompileAssumption DEF SoundConfig
<1>3. having = mine
  BY <1>2, WordsAre
<1>4. Named(name) = IF having # {} THEN entries[CHOOSE i \in having : \A j \in having : j <= i]
                    ELSE IF n # "default" THEN Builtin(n)
                    ELSE IF entries # <<>> THEN entries[1] ELSE Builtin("direct")
  BY DEF Named
<1>5. table[n] = IF n \in names THEN entries[last(n)]
                 ELSE IF n = "default" /\ entries # <<>> THEN entries[1]
                 ELSE IF n = "reject" THEN Builtin("reject") ELSE direct
  <2>1. n \in names \cup {"direct", "reject", "default"}
    BY TableDomain
  <2>2. QED
    BY <2>1 DEF OutboundsToMap
<1>6. n \in names <=> mine # {}
  OBVIOUS
<1>7. CASE n \in names
  <2>1. PICK g \in mine : \A j \in mine : j <= g
    BY <1>1, <1>6, <1>7, GreatestIs
  <2>2. mine \subseteq Nat
    BY <1>1
  <2>3. (CHOOSE i \in mine : \A j \in mine : j <= i) = g
    <3> DEFINE c == CHOOSE i \in mine : \A j \in mine : j <= i
    <3>1. c \in mine /\ \A j \in mine : j <= c
      BY <2>1
    <3>2. c <= g /\ g <= c /\ c \in Nat /\ g \in Nat
      BY <2>1, <2>2, <3>1
    <3> HIDE DEF c
    <3>3. c = g
      BY <3>2
    <3>4. QED
      BY <3>3 DEF c
  <2>4. last(n) = g
    <3> DEFINE c == last(n)
    <3>0. g \in DOMAIN entries /\ Lower(entries[g].name).id = n
          /\ \A j \in DOMAIN entries : Lower(entries[j].name).id = n => j <= g
      BY <2>1
    <3>1. c \in mine /\ \A j \in mine : j <= c
      <4>1. /\ c \in DOMAIN entries /\ Lower(entries[c].name).id = n
            /\ \A j \in DOMAIN entries : Lower(entries[j].name).id = n => j <= c
        BY <3>0
      <4>2. QED
        BY <4>1
    <3>2. c <= g /\ g <= c /\ c \in Nat /\ g \in Nat
      BY <2>1, <2>2, <3>1
    <3> HIDE DEF c
    <3>3. c = g
      BY <3>2
    <3>4. QED
      BY <3>3 DEF c
  <2>5. Named(name) = entries[g]
    BY <1>3, <1>4, <1>6, <1>7, <2>3
  <2> HIDE DEF last, direct
  <2>6. table[n] = entries[g]
    BY <1>5, <1>7, <2>4
  <2>7. QED
    BY <2>5, <2>6
<1>8. CASE n \notin names
  <2>1. n \in {"direct", "reject", "default"}
    BY <1>8, TableDomain
  <2>2. entries = <<>> => names = {}
    OBVIOUS
  <2>3. n = "direct" => direct = Builtin("direct")
    BY <1>8
  <2>4. entries = <<>> => direct = Builtin("direct")
    BY <2>2
  <2> HIDE DEF last, direct, names
  <2>5. QED
    BY <1>3, <1>4, <1>5, <1>6, <1>8, <2>1, <2>3, <2>4
<1>9. QED
  BY <1>7, <1>8

\* The filter of a compiled rule is the one that is written.
LEMMA FilterIs ==
    ASSUME NEW rule, SoundRule(rule), NEW host, NEW proto, NEW port \in Int
    PROVE  RM!PassesFilter(Compiled(rule, host), proto, port) <=>
              /\ rule.protoPort.proto \in {"both", proto}
              /\ rule.protoPort.ports # <<>> =>
                    port \in Head(rule.protoPort.ports) .. Last(rule.protoPort.ports)
<1> DEFINE c == Compiled(rule, host)
           ports == rule.protoPort.ports
<1>1. /\ c.proto = rule.protoPort.proto /\ c.hasPortFilter = (ports # <<>>)
      /\ ports # <<>> => c.startPort = Head(ports) /\ c.endPort = Last(ports)
  BY DEF Compiled
<1> HIDE DEF c, ports
<1>2. QED
  BY <1>1 DEF RM!PassesFilter, c, ports

-----------------------------------------------------------------------------
(* A rule and what is written                                              *)

\* What a question holds, once it is asked.
AskedOf(q) ==
    /\ q.host.name.runes \in Seq(STRING)
    /\ q.host.v4 # Nil => q.host.v4.addr.bytes = 4 /\ AddrOK(q.host.v4.addr)
    /\ q.host.v6 # Nil => q.host.v6.addr.bytes = 16 /\ AddrOK(q.host.v6.addr)
    /\ q.port \in Int

\* A MetaDB that maps one family, IPv4.
OneFamily(source) == source.file.format = "metadb" => source.file.version = 4

\* Does a list of networks hold an address?
Has(list, ip) == \E k \in DOMAIN list : NetContains(list[k], ip)

\* What the matcher of a rule has to do with the text.
LEMMA HostIs ==
    ASSUME config \in Configs, OneFamily(config.geoip), NEW rule, SoundRule(rule),
           HostMatcher(rule.addr) # NoMatcher, NEW q, AskedOf(q)
    PROVE  LET a == rule.addr
               m == HostMatcher(a)
           IN  /\ m.kind = "geoip" <=> a.prefix = "geoip"
               /\ m.kind = "geosite" <=> a.prefix = "geosite"
               /\ a.prefix = "geosite" => (SiteMatches(m, q.host.name.runes) <=> HostAsWritten(a, q.host))
               /\ a.prefix \notin {"geoip", "geosite"} => (RM!HostMatches(m, q.host) <=> HostAsWritten(a, q.host))
               /\ a.prefix = "geoip" =>
                    /\ m.inverse \in BOOLEAN /\ (m.inverse <=> Inverted(config.geoip.file, a.body))
                    /\ m.v4 \in Seq(Nets) /\ Sorted(m.v4) /\ Disjoint(m.v4)
                    /\ m.v6 \in Seq(Nets) /\ Sorted(m.v6) /\ Disjoint(m.v6)
                    /\ q.host.v4 # Nil =>
                         (Has(m.v4, q.host.v4.addr.number) <=> InCountry(config.geoip.file, a.body, q.host.v4.addr))
                    /\ q.host.v6 # Nil =>
                         (Has(m.v6, q.host.v6.addr.number) <=> InCountry(config.geoip.file, a.body, q.host.v6.addr))
<1> DEFINE a == rule.addr
           m == HostMatcher(a)
<1>1. SoundSource("geoip", config.geoip) /\ SoundSource("geosite", config.geosite)
  BY CompileAssumption DEF SoundConfig
<1>2. a.prefix \in {"all", "geoip", "geosite", "suffix", "none"}
  BY DEF SoundRule
<1>3. NoMatcher.kind = "none"
  BY DEF NoMatcher
<1>4. CASE a.prefix = "geoip"
  <2> DEFINE list == ListOf("geoip", config.geoip, a.body)
  <2>1. HasList("geoip", config.geoip, a.body) /\ m = GeoIPMatcher(list) /\ GeoIPMatcher(list) # NoMatcher
    BY <1>4 DEF HostMatcher
  <2>2. /\ m.kind = "geoip" /\ m.inverse \in BOOLEAN /\ (m.inverse <=> Inverted(config.geoip.file, a.body))
        /\ m.v4 \in Seq(Nets) /\ Sorted(m.v4) /\ Disjoint(m.v4)
        /\ m.v6 \in Seq(Nets) /\ Sorted(m.v6) /\ Disjoint(m.v6)
    BY <1>1, <2>1, GeoIPHost DEF OneFamily
  <2>3. \A addr : AddrOK(addr) /\ addr.bytes = 4 =>
           (Has(m.v4, addr.number) <=> InCountry(config.geoip.file, a.body, addr))
    BY <1>1, <2>1, GeoIPHost DEF OneFamily, Has
  <2>4. \A addr : AddrOK(addr) /\ addr.bytes = 16 =>
           (Has(m.v6, addr.number) <=> InCountry(config.geoip.file, a.body, addr))
    BY <1>1, <2>1, GeoIPHost DEF OneFamily, Has
  <2> HIDE DEF list, m
  <2>5. QED
    BY <1>4, <2>2, <2>3, <2>4 DEF AskedOf, m
<1>5. CASE a.prefix = "geosite"
  <2> DEFINE list == ListOf("geosite", config.geosite, a.body)
  <2>1. HasList("geosite", config.geosite, a.body) /\ m = SiteMatcher(list, a.attrs) /\ SiteMatcher(list, a.attrs) # NoMatcher
    BY <1>5 DEF HostMatcher
  <2>2. m.kind = "geosite"
        /\ (SiteMatches(m, q.host.name.runes) <=> InSite(config.geosite.file, a.body, a.attrs, q.host.name.runes))
    BY <1>1, <2>1, SiteHost DEF AskedOf
  <2>3. HostAsWritten(a, q.host) <=> InSite(config.geosite.file, a.body, a.attrs, q.host.name.runes)
    BY <1>5 DEF HostAsWritten
  <2> HIDE DEF list, m
  <2>4. QED
    BY <1>5, <2>2, <2>3 DEF m
<1>6. CASE a.prefix \notin {"geoip", "geosite"}
  <2>1. HostAsWritten(a, q.host) <=> RM!HostMatches(m, q.host)
    BY <1>6 DEF HostAsWritten
  <2>2. m.kind \in {"all", "addr", "domain"}
    <3>1. CASE a.prefix = "all"
      BY <3>1 DEF HostMatcher
    <3>2. CASE a.prefix = "suffix"
      BY <3>2 DEF HostMatcher, DomainMatcher
    <3>3. CASE a.prefix = "none"
      <4>1. m = [kind |-> "addr", nets |-> a.nets] \/ \E mode : m = DomainMatcher(mode, a.body)
        BY <3>3 DEF HostMatcher
      <4>2. [kind |-> "addr", nets |-> a.nets].kind = "addr"
        OBVIOUS
      <4>3. \A mode : DomainMatcher(mode, a.body).kind = "domain"
        BY DEF DomainMatcher
      <4> HIDE DEF m
      <4>4. QED
        BY <4>1, <4>2, <4>3
    <3>4. QED
      BY <1>2, <1>6, <3>1, <3>2, <3>3
  <2> HIDE DEF m
  <2>3. QED
    BY <1>6, <2>1, <2>2 DEF m
<1>7. QED
  BY <1>4, <1>5, <1>6

\* What is written stays.
LEMMA WrittenStays ==
    ASSUME config' = config
    PROVE  /\ \A rule, q : RuleAsWritten(rule, q)' = RuleAsWritten(rule, q)
           /\ \A q : AnswerAsWritten(q)' = AnswerAsWritten(q)
<1>1. \A m, host : RM!HostMatches(m, host)' = RM!HostMatches(m, host)
  BY DEF RM!HostMatches, RM!InNets, RM!DomainMatches
<1>2. \A a, host : HostAsWritten(a, host)' = HostAsWritten(a, host)
  BY <1>1, ConfigStays DEF HostAsWritten
<1>3. \A rule, q : RuleAsWritten(rule, q)' = RuleAsWritten(rule, q)
  BY <1>2 DEF RuleAsWritten
<1>4. \A name : Named(name)' = Named(name)
  BY DEF Named
<1>5. \A q : AnswerAsWritten(q)' = AnswerAsWritten(q)
  BY <1>3, <1>4, ConfigStays DEF AnswerAsWritten
<1>6. QED
  BY <1>3, <1>5

-----------------------------------------------------------------------------
(* The binary search                                                       *)

\* A network holds its own address.
LEMMA BaseIs ==
    ASSUME NEW net \in Nets, net.size # 0
    PROVE  Base(net) \in Int /\ Base(net) <= net.ip /\ net.ip < Base(net) + net.size
<1>1. net.ip \in Nat /\ net.size \in Nat /\ net.size > 0
  BY DEF Nets
<1>2. net.ip % net.size \in 0 .. net.size - 1
  BY <1>1
<1>3. QED
  BY <1>1, <1>2 DEF Base

\* A network that contains the needle has no other network's address between
\* its own address and the needle.
LEMMA NothingBetween ==
    ASSUME nets \in Seq(Nets), Disjoint(nets), needle \in Nat,
           NEW k \in DOMAIN nets, NEW m \in DOMAIN nets, k # m, NetContains(nets[k], needle)
    PROVE  /\ ~(nets[k].ip <= nets[m].ip /\ nets[m].ip <= needle)
           /\ ~(needle <= nets[m].ip /\ nets[m].ip <= nets[k].ip)
<1> DEFINE base == Base(nets[k])
<1>1. nets[k] \in Nets /\ nets[m] \in Nets
  OBVIOUS
<1>2. nets[k].size # 0 /\ base <= needle /\ needle < base + nets[k].size
  BY DEF NetContains
<1>3. base \in Int /\ base <= nets[k].ip /\ nets[k].ip < base + nets[k].size
  BY <1>1, <1>2, BaseIs
<1>4. ~(base <= nets[m].ip /\ nets[m].ip < base + nets[k].size)
  BY <1>2 DEF Disjoint, NetContains
<1>5. nets[k].ip \in Nat /\ nets[k].size \in Nat /\ nets[m].ip \in Nat
  BY <1>1 DEF Nets
<1> HIDE DEF base
<1>6. QED
  BY <1>2, <1>3, <1>4, <1>5

\* The middle is within the list.
LEMMA MidIs ==
    ASSUME SearchInv, left <= right
    PROVE  Mid \in DOMAIN nets /\ left <= Mid /\ Mid <= right
BY DEF SearchInv, Mid

\* The network in the middle misses the needle: so do those beyond it.
LEMMA ProbeInv == ASSUME SearchInv, Probe PROVE SearchInv'
<1>1. /\ nets' = nets /\ needle' = needle /\ verdict = "open" /\ left <= right
      /\ nets \in Seq(Nets) /\ Sorted(nets) /\ Disjoint(nets) /\ needle \in Nat
      /\ left \in 1 .. Len(nets) + 1 /\ right \in 0 .. Len(nets)
  BY DEF Probe, SearchInv
<1>2. Mid \in DOMAIN nets /\ left <= Mid /\ Mid <= right /\ Mid \in Int
  BY <1>1, MidIs DEF Mid
<1>3. \A k \in DOMAIN nets : NetContains(nets[k], needle)' = NetContains(nets[k], needle)
  BY <1>1 DEF NetContains, Base
<1>4. \A k \in DOMAIN nets : nets[k].ip \in Nat /\ k \in 1 .. Len(nets)
  <2>1. \A k \in DOMAIN nets : nets[k] \in Nets /\ k \in 1 .. Len(nets)
    BY <1>1
  <2>2. QED
    BY <2>1 DEF Nets
<1>5. Sorted(nets)' /\ Disjoint(nets)'
  BY <1>1 DEF Sorted, Disjoint, NetContains, Base
<1>6. CASE NetContains(nets[Mid], needle)
  <2>1. verdict' = "found" /\ left' = left /\ right' = right
    BY <1>6 DEF Probe
  <2>2. QED
    BY <1>1, <1>2, <1>5, <1>6, <2>1 DEF SearchInv, SearchRight, NetContains, Base
<1>7. CASE ~NetContains(nets[Mid], needle) /\ nets[Mid].ip < needle
  <2>1. left' = Mid + 1 /\ right' = right /\ verdict' = "open"
    BY <1>1, <1>7 DEF Probe
  <2>2. ASSUME NEW k \in DOMAIN nets, NetContains(nets[k], needle) PROVE Mid + 1 <= k /\ k <= right
    <3>1. k # Mid /\ k <= right
      BY <1>1, <1>7, <2>2 DEF SearchInv
    <3>2. ~(nets[k].ip <= nets[Mid].ip)
      BY <1>1, <1>2, <1>4, <1>7, <2>2, <3>1, NothingBetween, SMTT(30)
    <3>3. ~(k < Mid)
      BY <1>1, <1>2, <3>2 DEF Sorted
    <3>4. QED
      BY <1>2, <1>4, <3>1, <3>3
  <2>3. QED
    BY <1>1, <1>2, <1>5, <2>1, <2>2 DEF SearchInv, SearchRight, NetContains, Base
<1>8. CASE ~NetContains(nets[Mid], needle) /\ ~(nets[Mid].ip < needle)
  <2>1. left' = left /\ right' = Mid - 1 /\ verdict' = "open"
    BY <1>1, <1>8 DEF Probe
  <2>2. ASSUME NEW k \in DOMAIN nets, NetContains(nets[k], needle) PROVE left <= k /\ k <= Mid - 1
    <3>1. k # Mid /\ left <= k
      BY <1>1, <1>8, <2>2 DEF SearchInv
    <3>2. ~(nets[Mid].ip <= nets[k].ip)
      BY <1>1, <1>2, <1>4, <1>8, <2>2, <3>1, NothingBetween, SMTT(30)
    <3>3. ~(Mid < k)
      BY <1>1, <1>2, <3>2 DEF Sorted
    <3>4. QED
      BY <1>2, <1>4, <3>1, <3>3
  <2>3. QED
    BY <1>1, <1>2, <1>5, <2>1, <2>2 DEF SearchInv, SearchRight, NetContains, Base
<1>9. QED
  BY <1>6, <1>7, <1>8

\* Nothing is left to search.
LEMMA MissInv == ASSUME SearchInv, Miss PROVE SearchInv'
<1>1. UNCHANGED <<nets, needle, left, right>> /\ verdict = "open" /\ verdict' = "missed" /\ left > right
  BY DEF Miss
<1>2. \A k \in DOMAIN nets : ~NetContains(nets[k], needle)
  BY <1>1 DEF SearchInv
<1>3. QED
  BY <1>1, <1>2 DEF SearchInv, SearchRight, NetContains, Base, Sorted, Disjoint

\* SearchInv is inductive.
LEMMA SearchingInv == ASSUME SearchInv, [Searching]_searchVars PROVE SearchInv'
<1>1. CASE UNCHANGED searchVars
  BY <1>1 DEF searchVars, SearchInv, SearchRight, NetContains, Base, Sorted, Disjoint
<1>2. QED
  BY <1>1, ProbeInv, MissInv DEF Searching

\* The networks outside of left and right never contain the address
\* (matchers_geodat.go:35-46).
THEOREM SearchInvariance == SearchSpec => []SearchInv
<1>1. SearchInit => SearchInv
  <2> SUFFICES ASSUME SearchInit PROVE SearchInv
    OBVIOUS
  <2>1. Len(nets) \in Nat /\ DOMAIN nets = 1 .. Len(nets)
    BY DEF SearchInit
  <2>2. QED
    BY <2>1 DEF SearchInit, SearchInv, SearchRight
<1>2. QED
  BY <1>1, SearchingInv, PTL DEF SearchSpec

\* For any number of disjoint networks, sorted as newGeoIPMatcher sorts them,
\* the search finds exactly the addresses they contain.
THEOREM SearchRightHolds == SearchSpec => []SearchRight
<1>1. SearchInv => SearchRight
  BY DEF SearchInv
<1>2. QED
  BY <1>1, SearchInvariance, PTL

-----------------------------------------------------------------------------
(* Answering: the inductive invariant                                      *)

\* A rule that the question has come to, and the search for an address of it.
ComeTo ==
    /\ at \in 1 .. Len(rules) + 1
    /\ \A i \in 1 .. at - 1 : ~RuleAsWritten(rules[i].rule, question)

\* The search for an address of the host.
SearchedFor ==
    /\ at <= Len(rules)
    /\ compiled[at].host.kind = "geoip"
    /\ RM!PassesFilter(compiled[at], question.proto, question.port)
    /\ family \in {"v4", "v6"} /\ question.host[family] # Nil
    /\ nets = compiled[at].host[family] /\ needle = question.host[family].addr.number
    /\ family = "v6" /\ question.host.v4 # Nil => ~Has(compiled[at].host.v4, question.host.v4.addr.number)

\* What holds while a question is answered.
AnswerInv ==
    /\ SearchInv
    /\ pc \in {"match", "search", "answered"} => AskedOf(question)
    /\ pc \in {"match", "search"} => ComeTo
    /\ pc = "search" => SearchedFor
    /\ pc = "answered" => answer = AnswerAsWritten(question)

\* What an answer needs of BuildInv.
LEMMA BuiltFacts ==
    ASSUME BuildInv, pc \in Answering
    PROVE  /\ config \in Configs /\ AcceptedTo(Len(config.outbounds)) /\ table = OutboundsToMap(config.outbounds)
           /\ ParsedTo(Len(Text)) /\ Len(compiled) = Len(rules) /\ Len(rules) \in Nat /\ DOMAIN rules = 1 .. Len(rules)
           /\ \A i \in 1 .. Len(rules) :
                 /\ compiled[i] = Compiled(rules[i].rule, HostMatcher(rules[i].rule.addr))
                 /\ compiled[i].host = HostMatcher(rules[i].rule.addr)
                 /\ SoundRule(rules[i].rule)
                 /\ HostMatcher(rules[i].rule.addr) # NoMatcher
                 /\ Lower(rules[i].rule.outbound).id \in DOMAIN table
<1>1. config \in Configs /\ AcceptedTo(Len(config.outbounds)) /\ table = OutboundsToMap(config.outbounds)
      /\ ParsedTo(Len(Text)) /\ CompiledTo(Len(rules))
  BY DEF BuildInv, Answering
<1>2. DOMAIN rules = 1 .. Len(rules) /\ Len(rules) \in Nat /\ \A i \in DOMAIN rules : SoundRule(rules[i].rule)
  BY <1>1, RulesAre
<1>3. Len(compiled) = Len(rules)
      /\ \A i \in 1 .. Len(rules) : /\ compiled[i] = Compiled(rules[i].rule, HostMatcher(rules[i].rule.addr))
                                    /\ ~Flawed(rules[i].rule)
  BY <1>1 DEF CompiledTo
<1>4. \A rule, host : Compiled(rule, host).host = host
  BY DEF Compiled
<1>5. \A i \in 1 .. Len(rules) : HostMatcher(rules[i].rule.addr) # NoMatcher
                                  /\ Lower(rules[i].rule.outbound).id \in DOMAIN table
  BY <1>1, <1>2, <1>3, FlawedIs
<1>6. QED
  BY <1>1, <1>2, <1>3, <1>4, <1>5

\* The table of outbounds, the rules and the question stay while it is answered.
LEMMA AskStays ==
    ASSUME UNCHANGED <<config, buildVars, question>>
    PROVE  /\ \A i : RuleAsWritten(rules[i].rule, question)' = RuleAsWritten(rules[i].rule, question)
           /\ AnswerAsWritten(question)' = AnswerAsWritten(question)
           /\ AskedOf(question)' = AskedOf(question)
<1>1. config' = config /\ rules' = rules /\ question' = question
  BY DEF buildVars
<1>2. \A rule, q : RuleAsWritten(rule, q)' = RuleAsWritten(rule, q)
  BY <1>1, WrittenStays
<1>3. \A q : AnswerAsWritten(q)' = AnswerAsWritten(q)
  BY <1>1, WrittenStays
<1>4. QED
  BY <1>1, <1>2, <1>3

\* A search that nobody touches.
LEMMA SearchStays == ASSUME SearchInv, UNCHANGED searchVars PROVE SearchInv'
BY SearchingInv DEF searchVars

\* A rule that matches, when none before it did, gives the answer.
LEMMA HitRight ==
    ASSUME BuildInv, AnswerInv, pc \in {"match", "search"}, at <= Len(rules),
           RuleAsWritten(rules[at].rule, question)
    PROVE  [outbound |-> compiled[at].outbound, hijack |-> compiled[at].hijack] = AnswerAsWritten(question)
<1> DEFINE rule == rules[at].rule
           hits == {l \in RuleLines : RuleAsWritten(Text[l].rule, question)}
<1>1. pc \in Answering
  BY DEF Answering
<1>2. at \in 1 .. Len(rules) /\ at \in DOMAIN rules
      /\ \A i \in 1 .. at - 1 : ~RuleAsWritten(rules[i].rule, question)
  BY <1>1, BuiltFacts DEF AnswerInv, ComeTo
<1>3. /\ config \in Configs /\ ParsedTo(Len(Text)) /\ AcceptedTo(Len(config.outbounds))
      /\ table = OutboundsToMap(config.outbounds)
      /\ compiled[at] = Compiled(rule, HostMatcher(rule.addr)) /\ SoundRule(rule)
      /\ Lower(rule.outbound).id \in DOMAIN table
  BY <1>1, <1>2, BuiltFacts
<1>4. /\ rules[at].num \in RuleLines /\ rules[at].num \in Nat /\ rule = Text[rules[at].num].rule
  BY <1>2, <1>3, RulesAre
<1>5. rules[at].num \in hits /\ hits \subseteq Nat
  <2>1. RuleLines \subseteq Nat
    BY <1>3, ConfigIs
  <2>2. QED
    BY <1>4, <2>1
<1>6. ASSUME NEW l \in hits PROVE rules[at].num <= l
  <2>1. PICK i \in DOMAIN rules : rules[i].num = l /\ rules[i].rule = Text[l].rule
    BY <1>3, RulesAre
  <2>2. i \in Nat /\ i \in 1 .. Len(rules) /\ l \in Nat
    BY <1>1, <1>5, <2>1, BuiltFacts
  <2>3. ~(i < at)
    BY <1>2, <2>1, <2>2
  <2>4. i = at \/ at < i
    BY <1>2, <2>2, <2>3
  <2>5. QED
    BY <1>2, <1>3, <1>4, <2>1, <2>2, <2>4, RulesAre
<1>7. LeastOf(hits) = rules[at].num
  BY <1>5, <1>6, LeastUnique
<1>8. AnswerAsWritten(question) = [outbound |-> Named(rule.outbound), hijack |-> rule.hijack.ip]
  <2>1. AnswerAsWritten(question) = IF hits = {} THEN [outbound |-> Named(Word("default")), hijack |-> Nil]
           ELSE [outbound |-> Named(Text[LeastOf(hits)].rule.outbound), hijack |-> Text[LeastOf(hits)].rule.hijack.ip]
    BY DEF AnswerAsWritten
  <2> HIDE DEF hits
  <2>2. QED
    BY <1>4, <1>5, <1>7, <2>1
<1>9. Named(rule.outbound) = table[Lower(rule.outbound).id]
  BY <1>3, NamedIs DEF SoundRule
<1>10. compiled[at].outbound = table[Lower(rule.outbound).id] /\ compiled[at].hijack = rule.hijack.ip
  BY <1>3 DEF Compiled
<1>11. QED
  BY <1>8, <1>9, <1>10

\* Without a rule that matches, the default outbound is the answer.
LEMMA DefaultRight ==
    ASSUME BuildInv, AnswerInv, pc = "match", at > Len(compiled)
    PROVE  [outbound |-> table["default"], hijack |-> Nil] = AnswerAsWritten(question)
<1>1. pc \in Answering
  BY DEF Answering
<1>2. /\ config \in Configs /\ ParsedTo(Len(Text)) /\ AcceptedTo(Len(config.outbounds))
      /\ table = OutboundsToMap(config.outbounds) /\ Len(rules) \in Nat /\ DOMAIN rules = 1 .. Len(rules)
      /\ Len(compiled) = Len(rules)
  BY <1>1, BuiltFacts
<1>3. \A i \in DOMAIN rules : ~RuleAsWritten(rules[i].rule, question)
  BY <1>2 DEF AnswerInv, ComeTo
<1>4. {l \in RuleLines : RuleAsWritten(Text[l].rule, question)} = {}
  BY <1>2, <1>3, RulesAre
<1>5. AnswerAsWritten(question) = [outbound |-> Named(Word("default")), hijack |-> Nil]
  BY <1>4 DEF AnswerAsWritten
<1>6. IsWord(Word("default")) /\ Word("default").id = "default"
  BY DEF IsWord, Word
<1>7. Lower(Word("default")).id = "default"
  BY <1>6, LowerIs
<1>8. Named(Word("default")) = table["default"]
  BY <1>2, <1>6, <1>7, NamedIs, TableDomain
<1>9. QED
  BY <1>5, <1>8

\* The rule in question is one of the rules, and what its matcher stands for.
LEMMA RuleIs ==
    ASSUME BuildInv, AnswerInv, pc \in {"match", "search"}, at <= Len(compiled), OneFamily(config.geoip)
    PROVE  LET rule == rules[at].rule
               m    == compiled[at].host
               host == question.host
           IN  /\ at \in 1 .. Len(rules) /\ AskedOf(question)
               /\ RM!PassesFilter(compiled[at], question.proto, question.port) <=>
                    /\ rule.protoPort.proto \in {"both", question.proto}
                    /\ rule.protoPort.ports # <<>> =>
                          question.port \in Head(rule.protoPort.ports) .. Last(rule.protoPort.ports)
               /\ RuleAsWritten(rule, question) <=>
                    /\ RM!PassesFilter(compiled[at], question.proto, question.port)
                    /\ HostAsWritten(rule.addr, host)
               /\ m.kind = "geoip" <=> rule.addr.prefix = "geoip"
               /\ m.kind = "geosite" => (SiteMatches(m, host.name.runes) <=> HostAsWritten(rule.addr, host))
               /\ m.kind \notin {"geoip", "geosite"} => (RM!HostMatches(m, host) <=> HostAsWritten(rule.addr, host))
               /\ m.kind = "geoip" =>
                    /\ m.v4 \in Seq(Nets) /\ Sorted(m.v4) /\ Disjoint(m.v4)
                    /\ m.v6 \in Seq(Nets) /\ Sorted(m.v6) /\ Disjoint(m.v6)
                    /\ m.inverse \in BOOLEAN
                    /\ HostAsWritten(rule.addr, host) <=>
                         m.inverse # ((host.v4 # Nil /\ Has(m.v4, host.v4.addr.number)) \/
                                      (host.v6 # Nil /\ Has(m.v6, host.v6.addr.number)))
<1> DEFINE rule == rules[at].rule
           m    == compiled[at].host
           host == question.host
<1>1. pc \in Answering
  BY DEF Answering
<1>2. at \in 1 .. Len(rules) /\ AskedOf(question) /\ config \in Configs
  BY <1>1, BuiltFacts DEF AnswerInv, ComeTo
<1>3. /\ compiled[at] = Compiled(rule, HostMatcher(rule.addr)) /\ m = HostMatcher(rule.addr)
      /\ SoundRule(rule) /\ HostMatcher(rule.addr) # NoMatcher
  BY <1>1, <1>2, BuiltFacts
<1> HIDE DEF rule, m
<1>4. RM!PassesFilter(compiled[at], question.proto, question.port) <=>
        /\ rule.protoPort.proto \in {"both", question.proto}
        /\ rule.protoPort.ports # <<>> =>
              question.port \in Head(rule.protoPort.ports) .. Last(rule.protoPort.ports)
  BY <1>2, <1>3, FilterIs DEF AskedOf
<1>5. RuleAsWritten(rule, question) <=>
        /\ RM!PassesFilter(compiled[at], question.proto, question.port)
        /\ HostAsWritten(rule.addr, host)
  BY <1>4 DEF RuleAsWritten
<1>6. /\ m.kind = "geoip" <=> rule.addr.prefix = "geoip"
      /\ m.kind = "geosite" <=> rule.addr.prefix = "geosite"
      /\ rule.addr.prefix = "geosite" => (SiteMatches(m, host.name.runes) <=> HostAsWritten(rule.addr, host))
      /\ rule.addr.prefix \notin {"geoip", "geosite"} => (RM!HostMatches(m, host) <=> HostAsWritten(rule.addr, host))
  BY <1>2, <1>3, HostIs
<1>7. ASSUME m.kind = "geoip"
      PROVE  /\ m.v4 \in Seq(Nets) /\ Sorted(m.v4) /\ Disjoint(m.v4)
             /\ m.v6 \in Seq(Nets) /\ Sorted(m.v6) /\ Disjoint(m.v6)
             /\ m.inverse \in BOOLEAN
             /\ HostAsWritten(rule.addr, host) <=>
                   m.inverse # ((host.v4 # Nil /\ Has(m.v4, host.v4.addr.number)) \/
                                (host.v6 # Nil /\ Has(m.v6, host.v6.addr.number)))
  <2>1. /\ m.v4 \in Seq(Nets) /\ Sorted(m.v4) /\ Disjoint(m.v4)
        /\ m.v6 \in Seq(Nets) /\ Sorted(m.v6) /\ Disjoint(m.v6)
        /\ m.inverse \in BOOLEAN /\ (m.inverse <=> Inverted(config.geoip.file, rule.addr.body))
        /\ host.v4 # Nil =>
              (Has(m.v4, host.v4.addr.number) <=> InCountry(config.geoip.file, rule.addr.body, host.v4.addr))
        /\ host.v6 # Nil =>
              (Has(m.v6, host.v6.addr.number) <=> InCountry(config.geoip.file, rule.addr.body, host.v6.addr))
    BY <1>2, <1>3, <1>6, <1>7, HostIs
  <2>2. HostAsWritten(rule.addr, host) <=>
           Inverted(config.geoip.file, rule.addr.body) #
              \E ip \in {host.v4, host.v6} \ {Nil} : InCountry(config.geoip.file, rule.addr.body, ip.addr)
    BY <1>6, <1>7 DEF HostAsWritten
  <2> DEFINE in4 == host.v4 # Nil /\ InCountry(config.geoip.file, rule.addr.body, host.v4.addr)
             in6 == host.v6 # Nil /\ InCountry(config.geoip.file, rule.addr.body, host.v6.addr)
  <2>3. (\E ip \in {host.v4, host.v6} \ {Nil} : InCountry(config.geoip.file, rule.addr.body, ip.addr)) <=> in4 \/ in6
    OBVIOUS
  <2>4. /\ in4 <=> host.v4 # Nil /\ Has(m.v4, host.v4.addr.number)
        /\ in6 <=> host.v6 # Nil /\ Has(m.v6, host.v6.addr.number)
    BY <2>1
  <2>5. Inverted(config.geoip.file, rule.addr.body) \in BOOLEAN
    BY DEF Inverted
  <2> HIDE DEF in4, in6
  <2>6. HostAsWritten(rule.addr, host) <=> ~(Inverted(config.geoip.file, rule.addr.body) <=> (in4 \/ in6))
    BY <2>2, <2>3, <2>5
  <2>7. QED
    BY <2>1, <2>4, <2>6
<1>8. QED
  BY <1>2, <1>4, <1>5, <1>6, <1>7 DEF rule, m

\* The answer to a rule's question settles it.
LEMMA SettledRight ==
    ASSUME BuildInv, AnswerInv, pc \in {"match", "search"}, at <= Len(compiled), OneFamily(config.geoip),
           NEW hit \in BOOLEAN, hit <=> RuleAsWritten(rules[at].rule, question),
           Settle(hit), UNCHANGED searchVars
    PROVE  AnswerInv'
<1>1. UNCHANGED <<config, buildVars, question>> /\ rules' = rules
  BY DEF Settle, buildVars
<1>2. SearchInv'
  BY SearchStays DEF AnswerInv
<1>3. at \in 1 .. Len(rules) /\ AskedOf(question) /\ ComeTo /\ Len(compiled) = Len(rules) /\ Len(rules) \in Nat
  <2>1. Len(compiled) = Len(rules) /\ Len(rules) \in Nat
    BY BuiltFacts DEF Answering
  <2>2. QED
    BY <2>1, RuleIs DEF AnswerInv
<1>4. AskedOf(question)'
  BY <1>1, <1>3, AskStays
<1>5. CASE hit
  <2>1. pc' = "answered" /\ answer' = [outbound |-> compiled[at].outbound, hijack |-> compiled[at].hijack]
    BY <1>5 DEF Settle
  <2>2. answer' = AnswerAsWritten(question)
    BY <1>3, <1>5, <2>1, HitRight
  <2>3. AnswerAsWritten(question)' = AnswerAsWritten(question)
    BY <1>1, AskStays
  <2>4. QED
    BY <1>2, <1>4, <2>1, <2>2, <2>3 DEF AnswerInv
<1>6. CASE ~hit
  <2>1. pc' = "match" /\ at' = at + 1
    BY <1>6 DEF Settle
  <2>2. \A i \in 1 .. at : ~RuleAsWritten(rules[i].rule, question)
    <3>1. \A i \in 1 .. at : i = at \/ i \in 1 .. at - 1
      BY <1>3
    <3>2. QED
      BY <1>3, <1>6, <3>1 DEF ComeTo
  <2>3. \A i \in 1 .. at : ~RuleAsWritten(rules[i].rule, question)'
    BY <1>1, <2>2, AskStays
  <2>4. at' \in 1 .. Len(rules) + 1 /\ at' - 1 = at
    BY <1>3, <2>1
  <2>5. ComeTo'
    BY <1>1, <2>3, <2>4 DEF ComeTo
  <2>6. QED
    BY <1>2, <1>4, <2>1, <2>5 DEF AnswerInv
<1>7. QED
  BY <1>5, <1>6

\* A search that begins.
LEMMA SearchBegins ==
    ASSUME BuildInv, AnswerInv, pc \in {"match", "search"}, at <= Len(compiled), OneFamily(config.geoip),
           compiled[at].host.kind = "geoip",
           RM!PassesFilter(compiled[at], question.proto, question.port),
           NEW f \in {"v4", "v6"}, question.host[f] # Nil,
           f = "v6" /\ question.host.v4 # Nil => ~Has(compiled[at].host.v4, question.host.v4.addr.number),
           Search(f)
    PROVE  AnswerInv'
<1> DEFINE m == compiled[at].host
<1>1. /\ UNCHANGED <<config, buildVars, question>> /\ rules' = rules /\ compiled' = compiled
      /\ at' = at /\ pc' = "search" /\ family' = f /\ question' = question
      /\ nets' = m[f] /\ needle' = question.host[f].addr.number
      /\ left' = 1 /\ right' = Len(m[f]) /\ verdict' = "open"
  BY DEF Search, Begin, buildVars
<1>2. /\ at \in 1 .. Len(rules) /\ AskedOf(question) /\ ComeTo
      /\ m[f] \in Seq(Nets) /\ Sorted(m[f]) /\ Disjoint(m[f])
  <2>1. /\ m.v4 \in Seq(Nets) /\ Sorted(m.v4) /\ Disjoint(m.v4)
        /\ m.v6 \in Seq(Nets) /\ Sorted(m.v6) /\ Disjoint(m.v6)
        /\ at \in 1 .. Len(rules) /\ AskedOf(question)
    BY RuleIs
  <2>2. ComeTo
    BY DEF AnswerInv
  <2> HIDE DEF m
  <2>3. QED
    BY <2>1, <2>2
<1>3. question.host[f].addr.number \in Nat
  <2>1. AddrOK(question.host[f].addr)
    BY <1>2 DEF AskedOf
  <2>2. 2 ^ Bits4 \in Nat /\ 2 ^ Bits6 \in Nat
    BY GeoFilesAssumption, PowerIs
  <2>3. QED
    BY <2>1, <2>2 DEF AddrOK
<1>4. AskedOf(question)' /\ ComeTo'
  BY <1>1, <1>2, AskStays DEF ComeTo
<1>5. SearchedFor'
  <2>1. RM!PassesFilter(compiled[at], question.proto, question.port)'
    BY <1>1 DEF RM!PassesFilter
  <2>2. (family' = "v6" /\ question'.host.v4 # Nil) => ~Has(compiled[at].host.v4, question.host.v4.addr.number)'
    BY <1>1 DEF Has
  <2>3. QED
    BY <1>1, <1>2, <2>1, <2>2 DEF SearchedFor
<1>6. SearchInv'
  <2> DEFINE list == m[f]
  <2>1. list \in Seq(Nets) /\ Sorted(list) /\ Disjoint(list) /\ Len(list) \in Nat /\ DOMAIN list = 1 .. Len(list)
    BY <1>2
  <2>2. nets' = list /\ left' = 1 /\ right' = Len(list) /\ verdict' = "open" /\ needle' \in Nat
    BY <1>1, <1>3
  <2> HIDE DEF list
  <2>3. Sorted(nets') /\ Disjoint(nets')
    BY <2>1, <2>2
  <2>4. left' \in 1 .. Len(nets') + 1 /\ right' \in 0 .. Len(nets') /\ nets' \in Seq(Nets)
    BY <2>1, <2>2
  <2>5. \A k \in DOMAIN nets' : left' <= k /\ k <= right'
    BY <2>1, <2>2
  <2>6. QED
    BY <2>2, <2>3, <2>4, <2>5 DEF SearchInv, SearchRight
<1>7. QED
  BY <1>1, <1>4, <1>5, <1>6 DEF AnswerInv

\* Nothing is asked at first.
LEMMA AnswerInit == ASSUME Init PROVE AnswerInv
<1>1. pc = "outbounds" /\ nets = <<>> /\ needle = 0 /\ left = 1 /\ right = 0 /\ verdict = "missed"
  BY DEF Init
<1>2. nets \in Seq(Nets) /\ Len(nets) = 0 /\ DOMAIN nets = {}
  BY <1>1
<1>3. SearchInv
  BY <1>1, <1>2 DEF SearchInv, SearchRight, Sorted, Disjoint
<1>4. QED
  BY <1>1, <1>3 DEF AnswerInv

\* Before the first question there is nothing to say.
LEMMA BuildingAnswers ==
    ASSUME AnswerInv, BuildOutbound \/ BuildRules \/ ParseLine \/ CompileRule
    PROVE  AnswerInv'
<1>1. UNCHANGED searchVars /\ pc' \in {"outbounds", "rules", "syntax", "rule", "ready", "failed"}
  BY DEF BuildOutbound, BuildRules, ParseLine, CompileRule, Goto, Fail
<1>2. SearchInv'
  BY <1>1, SearchStays DEF AnswerInv
<1>3. QED
  BY <1>1, <1>2 DEF AnswerInv

\* A question is asked with its name in lower case.
LEMMA AskInv == ASSUME BuildInv, AnswerInv, NEW q \in Questions, Ask(q) PROVE AnswerInv'
<1>1. /\ pc' = "match" /\ question' = [q EXCEPT !.host.name = RM!ToLower(@)] /\ at' = 1
      /\ UNCHANGED searchVars /\ rules' = rules /\ pc \in {"ready", "answered"}
  BY DEF Ask, buildVars
<1>2. SoundQuestion(q)
  BY CompileAssumption
<1> DEFINE name == RM!ToLower(q.host.name)
           host == [q.host EXCEPT !.name = name]
           asked == [q EXCEPT !.host = host]
<1>3. asked.port = q.port /\ asked.host.v4 = q.host.v4 /\ asked.host.v6 = q.host.v6 /\ asked.host.name = name
  <2>1. DOMAIN q = {"host", "proto", "port"} /\ DOMAIN q.host = {"name", "v4", "v6"}
    BY <1>2 DEF SoundQuestion
  <2>2. host.name = name /\ host.v4 = q.host.v4 /\ host.v6 = q.host.v6
    BY <2>1
  <2> HIDE DEF host
  <2>3. asked.host = host /\ asked.port = q.port
    BY <2>1
  <2>4. QED
    BY <2>2, <2>3
<1>4. name.runes = q.host.name.runes
  BY <1>2 DEF RM!ToLower, SoundQuestion
<1>5. question' = asked
  BY <1>1
<1> HIDE DEF name, host, asked
<1>6. AskedOf(asked)
  BY <1>2, <1>3, <1>4 DEF AskedOf, SoundQuestion, AddrOK
<1>7. AskedOf(question)'
  BY <1>5, <1>6 DEF AskedOf, AddrOK
<1>8. ComeTo'
  <2>1. Len(rules) \in Nat
    BY <1>1, BuiltFacts DEF Answering
  <2>2. at' \in 1 .. Len(rules') + 1 /\ 1 .. at' - 1 = {}
    BY <1>1, <2>1
  <2>3. QED
    BY <2>2 DEF ComeTo
<1>9. SearchInv'
  BY <1>1, SearchStays DEF AnswerInv
<1>10. QED
  BY <1>1, <1>7, <1>8, <1>9 DEF AnswerInv

\* No rule is left.
LEMMA NoRuleInv == ASSUME BuildInv, AnswerInv, NoRule PROVE AnswerInv'
<1>1. /\ pc = "match" /\ at > Len(compiled) /\ pc' = "answered"
      /\ answer' = [outbound |-> table["default"], hijack |-> Nil]
      /\ UNCHANGED <<config, buildVars, question>> /\ UNCHANGED searchVars
  BY DEF NoRule
<1>2. answer' = AnswerAsWritten(question)
  BY <1>1, DefaultRight
<1>3. AskedOf(question)' /\ AnswerAsWritten(question)' = AnswerAsWritten(question)
  BY <1>1, AskStays DEF AnswerInv
<1>4. SearchInv'
  BY <1>1, SearchStays DEF AnswerInv
<1>5. QED
  BY <1>1, <1>2, <1>3, <1>4 DEF AnswerInv

\* A rule without a GeoIP list, or one that its filters refuse.
LEMMA TryRuleInv == ASSUME BuildInv, AnswerInv, OneFamily(config.geoip), TryRule PROVE AnswerInv'
<1> DEFINE rule == compiled[at]
           passes == RM!PassesFilter(rule, question.proto, question.port)
           hit == /\ passes
                  /\ IF rule.host.kind = "geosite" THEN SiteMatches(rule.host, question.host.name.runes)
                     ELSE RM!HostMatches(rule.host, question.host)
<1>1. /\ pc = "match" /\ at <= Len(compiled) /\ UNCHANGED searchVars
      /\ rule.host.kind = "geoip" => ~passes
      /\ Settle(hit)
  BY DEF TryRule
<1>2. RuleAsWritten(rules[at].rule, question) <=> passes /\ HostAsWritten(rules[at].rule.addr, question.host)
  BY <1>1, RuleIs
<1>3. /\ rule.host.kind = "geosite" =>
            (SiteMatches(rule.host, question.host.name.runes) <=> HostAsWritten(rules[at].rule.addr, question.host))
      /\ rule.host.kind \notin {"geoip", "geosite"} =>
            (RM!HostMatches(rule.host, question.host) <=> HostAsWritten(rules[at].rule.addr, question.host))
  BY <1>1, RuleIs
<1>4. hit <=> RuleAsWritten(rules[at].rule, question)
  BY <1>1, <1>2, <1>3
<1>5. hit \in BOOLEAN
  OBVIOUS
<1> HIDE DEF hit, passes
<1>6. QED
  BY <1>1, <1>4, <1>5, SettledRight

\* A rule with a GeoIP list.
LEMMA TryGeoIPInv == ASSUME BuildInv, AnswerInv, OneFamily(config.geoip), TryGeoIP PROVE AnswerInv'
<1> DEFINE host == question.host
<1>1. /\ pc = "match" /\ at <= Len(compiled) /\ compiled[at].host.kind = "geoip"
      /\ RM!PassesFilter(compiled[at], question.proto, question.port)
      /\ IF host.v4 # Nil THEN Search("v4")
         ELSE IF host.v6 # Nil THEN Search("v6")
         ELSE Settle(compiled[at].host.inverse) /\ UNCHANGED searchVars
  BY DEF TryGeoIP
<1>2. CASE host.v4 # Nil
  <2>1. Search("v4") /\ question.host["v4"] # Nil
    BY <1>1, <1>2
  <2>2. QED
    BY <1>1, <2>1, SearchBegins
<1>3. CASE host.v4 = Nil /\ host.v6 # Nil
  <2>1. Search("v6") /\ question.host["v6"] # Nil
    BY <1>1, <1>3
  <2>2. QED
    BY <1>1, <1>3, <2>1, SearchBegins
<1>4. CASE host.v4 = Nil /\ host.v6 = Nil
  <2> DEFINE hit == compiled[at].host.inverse
  <2>1. Settle(hit) /\ UNCHANGED searchVars
    BY <1>1, <1>4
  <2>2. hit \in BOOLEAN
    BY <1>1, RuleIs
  <2>3. HostAsWritten(rules[at].rule.addr, host) <=>
           hit # ((host.v4 # Nil /\ Has(compiled[at].host.v4, host.v4.addr.number)) \/
                  (host.v6 # Nil /\ Has(compiled[at].host.v6, host.v6.addr.number)))
    BY <1>1, RuleIs
  <2>4. RuleAsWritten(rules[at].rule, question) <=> HostAsWritten(rules[at].rule.addr, host)
    BY <1>1, RuleIs
  <2>5. hit <=> RuleAsWritten(rules[at].rule, question)
    BY <1>4, <2>2, <2>3, <2>4
  <2> HIDE DEF hit
  <2>6. QED
    BY <1>1, <2>1, <2>2, <2>5, SettledRight
<1>5. QED
  BY <1>2, <1>3, <1>4

\* A turn of the search.
LEMMA SearchStepInv == ASSUME BuildInv, AnswerInv, SearchStep PROVE AnswerInv'
<1>1. /\ pc = "search" /\ pc' = pc /\ Searching /\ UNCHANGED <<config, buildVars, question>>
      /\ at' = at /\ family' = family /\ rules' = rules /\ compiled' = compiled /\ question' = question
  BY DEF SearchStep, askVars, buildVars
<1>2. nets' = nets /\ needle' = needle
  BY <1>1 DEF Searching, Probe, Miss
<1>3. SearchInv'
  BY <1>1, SearchingInv DEF AnswerInv
<1>4. AskedOf(question) /\ ComeTo /\ SearchedFor
  BY <1>1 DEF AnswerInv
<1>5. AskedOf(question)' /\ ComeTo'
  BY <1>1, <1>4, AskStays DEF ComeTo
<1>6. SearchedFor'
  <2>1. RM!PassesFilter(compiled[at], question.proto, question.port)' =
        RM!PassesFilter(compiled[at], question.proto, question.port)
    BY <1>1 DEF RM!PassesFilter
  <2>2. Has(compiled[at].host.v4, question.host.v4.addr.number)' = Has(compiled[at].host.v4, question.host.v4.addr.number)
    BY <1>1 DEF Has
  <2>3. QED
    BY <1>1, <1>2, <1>4, <2>1, <2>2 DEF SearchedFor
<1>7. QED
  BY <1>1, <1>3, <1>5, <1>6 DEF AnswerInv

\* What a search has found settles the rule, unless the host has another address.
LEMMA SearchedInv == ASSUME BuildInv, AnswerInv, OneFamily(config.geoip), Searched PROVE AnswerInv'
<1> DEFINE host == question.host
           m == compiled[at].host
<1>1. /\ pc = "search" /\ verdict # "open"
      /\ IF verdict = "missed" /\ family = "v4" /\ host.v6 # Nil THEN Search("v6")
         ELSE Settle((verdict = "found") # m.inverse) /\ UNCHANGED searchVars
  BY DEF Searched
<1>2. /\ at <= Len(rules) /\ m.kind = "geoip" /\ RM!PassesFilter(compiled[at], question.proto, question.port)
      /\ family \in {"v4", "v6"} /\ host[family] # Nil
      /\ nets = m[family] /\ needle = host[family].addr.number
      /\ family = "v6" /\ host.v4 # Nil => ~Has(m.v4, host.v4.addr.number)
      /\ SearchRight /\ verdict \in {"open", "found", "missed"}
  BY <1>1 DEF AnswerInv, SearchedFor, SearchInv
<1>3. at <= Len(compiled)
  BY <1>1, <1>2, BuiltFacts DEF Answering
<1>4. verdict = "found" <=> Has(m[family], host[family].addr.number)
  BY <1>1, <1>2 DEF SearchRight, Has
<1>5. CASE verdict = "missed" /\ family = "v4" /\ host.v6 # Nil
  <2>1. Search("v6") /\ question.host["v6"] # Nil
    BY <1>1, <1>5
  <2>2. ~Has(compiled[at].host.v4, question.host.v4.addr.number)
    BY <1>4, <1>5
  <2>3. QED
    BY <1>1, <1>2, <1>3, <2>1, <2>2, SearchBegins
<1>6. CASE ~(verdict = "missed" /\ family = "v4" /\ host.v6 # Nil)
  <2> DEFINE found == verdict = "found"
             hit == found # m.inverse
             in4 == host.v4 # Nil /\ Has(m.v4, host.v4.addr.number)
             in6 == host.v6 # Nil /\ Has(m.v6, host.v6.addr.number)
  <2>1. Settle(hit) /\ UNCHANGED searchVars
    BY <1>1, <1>6
  <2>2. m.inverse \in BOOLEAN /\ (HostAsWritten(rules[at].rule.addr, host) <=> m.inverse # (in4 \/ in6))
    BY <1>1, <1>2, <1>3, RuleIs
  <2>3. RuleAsWritten(rules[at].rule, question) <=> HostAsWritten(rules[at].rule.addr, host)
    BY <1>1, <1>2, <1>3, RuleIs
  <2>4. found <=> in4 \/ in6
    <3>1. CASE family = "v4"
      <4>1. host.v4 # Nil /\ (found <=> Has(m.v4, host.v4.addr.number))
        BY <1>2, <1>4, <3>1
      <4>2. ~found => host.v6 = Nil
        BY <1>1, <1>2, <1>6, <3>1
      <4>3. QED
        BY <4>1, <4>2
    <3>2. CASE family = "v6"
      <4>1. host.v6 # Nil /\ (found <=> Has(m.v6, host.v6.addr.number))
        BY <1>2, <1>4, <3>2
      <4>2. ~in4
        BY <1>2, <3>2
      <4>3. QED
        BY <4>1, <4>2
    <3>3. QED
      BY <1>2, <3>1, <3>2
  <2>5. hit \in BOOLEAN /\ found \in BOOLEAN
    OBVIOUS
  <2> HIDE DEF found, in4, in6
  <2>6. hit <=> RuleAsWritten(rules[at].rule, question)
    BY <2>2, <2>3, <2>4, <2>5
  <2> HIDE DEF hit
  <2>7. QED
    BY <1>1, <1>3, <2>1, <2>5, <2>6, SettledRight
<1>7. QED
  BY <1>5, <1>6

\* AnswerInv is inductive, under BuildInv.
LEMMA AnswerNext == ASSUME BuildInv, AnswerInv, OneFamily(config.geoip), [Next]_vars PROVE AnswerInv'
<1>1. CASE BuildOutbound \/ BuildRules \/ ParseLine \/ CompileRule
  BY <1>1, BuildingAnswers
<1>2. CASE \E q \in Questions : Ask(q)
  BY <1>2, AskInv
<1>3. CASE NoRule
  BY <1>3, NoRuleInv
<1>4. CASE TryRule
  BY <1>4, TryRuleInv
<1>5. CASE TryGeoIP
  BY <1>5, TryGeoIPInv
<1>6. CASE SearchStep
  BY <1>6, SearchStepInv
<1>7. CASE Searched
  BY <1>7, SearchedInv
<1>8. CASE UNCHANGED vars
  <2>1. UNCHANGED <<config, buildVars, question>> /\ UNCHANGED searchVars
        /\ UNCHANGED <<pc, at, family, answer, rules, compiled, question, nets, needle>>
    BY <1>8 DEF vars, buildVars, askVars, searchVars
  <2>2. SearchInv'
    BY <2>1, SearchStays DEF AnswerInv
  <2>3. AskedOf(question)' = AskedOf(question) /\ AnswerAsWritten(question)' = AnswerAsWritten(question)
    BY <2>1, AskStays
  <2>4. ComeTo' = ComeTo
    <3>1. \A i : RuleAsWritten(rules[i].rule, question)' = RuleAsWritten(rules[i].rule, question)
      BY <2>1, AskStays
    <3>2. QED
      BY <2>1, <3>1 DEF ComeTo
  <2>5. SearchedFor' = SearchedFor
    <3>1. RM!PassesFilter(compiled[at], question.proto, question.port)' =
          RM!PassesFilter(compiled[at], question.proto, question.port)
      BY <2>1 DEF RM!PassesFilter
    <3>2. Has(compiled[at].host.v4, question.host.v4.addr.number)' = Has(compiled[at].host.v4, question.host.v4.addr.number)
      BY <2>1 DEF Has
    <3>3. QED
      BY <2>1, <3>1, <3>2 DEF SearchedFor
  <2>6. QED
    BY <2>1, <2>2, <2>3, <2>4, <2>5 DEF AnswerInv
<1>9. QED
  BY <1>1, <1>2, <1>3, <1>4, <1>5, <1>6, <1>7, <1>8 DEF Next

\* MetaDBs that map IPv4 addresses only.
OneFamilyMetaDBs == \A c \in Configs : OneFamily(c.geoip)

\* Every answer is that of the first line that matches, read off the text and
\* the raw databases: for rule sets, databases and address lengths of any size,
\* unless a MetaDB maps IPv6 addresses (compile.go:99, geoloader.go:351).
THEOREM AnswersAsWrittenHolds == OneFamilyMetaDBs /\ Spec => []AnswersAsWritten
<1>1. BuildInv /\ OneFamilyMetaDBs => OneFamily(config.geoip)
  BY DEF BuildInv, OneFamilyMetaDBs
<1>2. Init => BuildInv /\ AnswerInv
  BY BuildInit, AnswerInit
<1>3. OneFamilyMetaDBs /\ BuildInv /\ AnswerInv /\ [Next]_vars => (BuildInv /\ AnswerInv)'
  BY <1>1, BuildNext, AnswerNext
<1>4. AnswerInv => AnswersAsWritten
  BY DEF AnswerInv, AnswersAsWritten
<1>5. QED
  <2>1. CASE OneFamilyMetaDBs
    <3>1. BuildInv /\ AnswerInv /\ [Next]_vars => (BuildInv /\ AnswerInv)'
      BY <1>3, <2>1
    <3>2. QED
      BY <1>2, <1>4, <3>1, PTL DEF Spec
  <2>2. QED
    BY <2>1

\* Every search of a GeoIP rule runs on sorted networks that are apart, and a
\* database is loaded only for a rule that names it (matchers_geodat.go:84,
\* compile.go:128).
THEOREM InvHolds == OneFamilyMetaDBs /\ Spec => []Inv
<1>1. BuildInv /\ OneFamilyMetaDBs => OneFamily(config.geoip)
  BY DEF BuildInv, OneFamilyMetaDBs
<1>2. Init => BuildInv /\ AnswerInv
  BY BuildInit, AnswerInit
<1>3. OneFamilyMetaDBs /\ BuildInv /\ AnswerInv /\ [Next]_vars => (BuildInv /\ AnswerInv)'
  BY <1>1, BuildNext, AnswerNext
<1>4. BuildInv /\ AnswerInv => Inv
  BY DEF BuildInv, LoadedRight, AnswerInv, SearchedFor, Inv
<1>5. QED
  <2>1. CASE OneFamilyMetaDBs
    <3>1. BuildInv /\ AnswerInv /\ [Next]_vars => (BuildInv /\ AnswerInv)'
      BY <1>3, <2>1
    <3>2. QED
      BY <1>2, <1>4, <3>1, PTL DEF Spec
  <2>2. QED
    BY <2>1

=============================================================================
