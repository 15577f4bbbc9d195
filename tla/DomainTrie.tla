----------------------------- MODULE DomainTrie -----------------------------
(***************************************************************************)
(* domain.Matcher (pkg/acl/domain): exact and suffix patterns in a         *)
(* succinct trie.  NewMatcher sorts the reversed patterns and lays the     *)
(* trie out breadth first: for each node one 0 per edge and a 1 in the     *)
(* label bitmap, and a label per edge.  Match walks it with rank and       *)
(* select on that bitmap.                                                  *)
(*                                                                         *)
(* A character is a number, in byte order; patterns and names have been    *)
(* lowered.  The bitmap is its bits, its words are counted only where the  *)
(* code's indices do: words of 64 bits, and every 32nd one sampled.        *)
(***************************************************************************)
EXTENDS Integers, FiniteSets, SequencesExt

CONSTANTS
    WordBits,   \* 64
    Sampling,   \* 32
    Inputs,     \* pattern lists: [exact, suffix], two sets of names
    Names       \* what is asked for

RootLabel   == 0        \* '\n'
PrefixLabel == 1        \* '\r'
Dot         == 2        \* greater characters are letters

Text == Seq(Nat \ {RootLabel, PrefixLabel})

\* No exact pattern is empty; a name may be, that of a host without one.
ASSUME TrieAssumption ==
    /\ WordBits \in Nat \ {0} /\ Sampling \in Nat \ {0}
    /\ \A lists \in Inputs :
          /\ IsFiniteSet(lists.exact) /\ lists.exact \subseteq Text \ {<<>>}
          /\ IsFiniteSet(lists.suffix) /\ lists.suffix \subseteq Text
    /\ Names \subseteq Text

VARIABLES
    input,
    keys,       \* domainList: the sorted keys
    queue,      \* ranges of keys [s, e, col], one per node of the trie
    node,       \* i: the next of them to be laid out
    labels, bitmap,
    leaves,     \* nodes whose bit is set
    ranks, selects,
    pc,
    name,       \* the argument of Match
    at,         \* i of has: characters matched
    nodeId, bmIdx,
    answer

trie == <<input, keys, queue, node, labels, bitmap, leaves, ranks, selects>>
vars == <<trie, pc, name, at, nodeId, bmIdx, answer>>

-----------------------------------------------------------------------------
(* NewMatcher: the keys                                                    *)

Agree(s, t, n) == \A i \in 1 .. n : s[i] = t[i]

\* strings compare byte by byte.
LessThan(s, t) ==
    \E n \in 0 .. Len(s) :
        /\ n < Len(t)
        /\ Agree(s, t, n)
        /\ n = Len(s) \/ s[n + 1] < t[n + 1]

\* Each of a set, in the order of the number of those before it.
Sorted(S) == [k \in 1 .. Cardinality(S) |-> CHOOSE s \in S : Cardinality({t \in S : LessThan(t, s)}) = k - 1]

Ascending(S) == [k \in 1 .. Cardinality(S) |-> CHOOSE i \in S : Cardinality({j \in S : j < i}) = k - 1]

\* A suffix that starts with a dot matches subdomains only.
SuffixKey(d) ==
    Reverse(<<IF d # <<>> /\ d[1] = Dot THEN PrefixLabel ELSE RootLabel>> \o d)

\* An exact name is dropped if the same text was seen as a suffix.
Keys(lists) ==
    {SuffixKey(d) : d \in lists.suffix} \cup {Reverse(d) : d \in lists.exact \ lists.suffix}

Init ==
    /\ input \in Inputs
    /\ keys = Sorted(Keys(input))
    /\ queue = IF keys = <<>> THEN <<>> ELSE <<[s |-> 1, e |-> Len(keys) + 1, col |-> 0]>>
    /\ node = 0
    /\ labels = <<>> /\ bitmap = <<>> /\ leaves = {}
    /\ ranks = <<>> /\ selects = <<>>
    /\ pc = "build"
    /\ name = <<>> /\ at = 0 /\ nodeId = 0 /\ bmIdx = 0
    /\ answer = "none"

-----------------------------------------------------------------------------
(* newSuccinctSet                                                          *)

\* The first key of a node's range ends there.
EndsAt(elt) == elt.col = Len(keys[elt.s])

\* The keys of its range that go on.
Longer(elt) == (IF EndsAt(elt) THEN elt.s + 1 ELSE elt.s) .. elt.e - 1

\* Where a new character begins among them.
Firsts(elt) ==
    {j \in Longer(elt) :
        j - 1 \in Longer(elt) => keys[j - 1][elt.col + 1] # keys[j][elt.col + 1]}

\* A range ends where the next one begins.
ChildOf(elt, j) ==
    LET later == {k \in Firsts(elt) : k > j}
    IN  [s |-> j, col |-> elt.col + 1,
         e |-> IF later = {} THEN elt.e ELSE CHOOSE k \in later : \A l \in later : k <= l]

\* One iteration of the breadth-first loop: a 0 and a label for each edge,
\* then a 1.
BuildNode ==
    LET elt   == queue[node + 1]
        edges == Ascending(Firsts(elt))
    IN  /\ pc = "build" /\ node < Len(queue)
        /\ node'   = node + 1
        /\ leaves' = IF EndsAt(elt) THEN leaves \cup {node} ELSE leaves
        /\ queue'  = queue \o [k \in DOMAIN edges |-> ChildOf(elt, edges[k])]
        /\ labels' = labels \o [k \in DOMAIN edges |-> keys[edges[k]][elt.col + 1]]
        /\ bitmap' = bitmap \o [k \in DOMAIN edges |-> 0] \o <<1>>
        /\ UNCHANGED <<input, keys, ranks, selects, pc, name, at, nodeId, bmIdx, answer>>

-----------------------------------------------------------------------------
(* Rank and select.  Positions, words and ones are counted from 0.         *)

\* getBit
Bit(bm, p)      == IF p < Len(bm) THEN bm[p + 1] ELSE 0
WordCount(bm)   == (Len(bm) + WordBits - 1) \div WordBits
Ones(bm, a, b)  == Cardinality({p \in a .. b - 1 : Bit(bm, p) = 1})
WordOnes(bm, w) == Ones(bm, w * WordBits, (w + 1) * WordBits)

\* indexRank64: ones before each word, and all of them at the end.
RankIndex(bm) ==
    LET before[w \in 0 .. WordCount(bm)] ==
            IF w = 0 THEN 0 ELSE before[w - 1] + WordOnes(bm, w - 1)
    IN  [k \in 1 .. WordCount(bm) + 1 |-> before[k - 1]]

\* indexSelect32R64: the position of every Sampling-th one.
Sampled(bm) == {p \in 0 .. Len(bm) - 1 : Bit(bm, p) = 1 /\ Ones(bm, 0, p) % Sampling = 0}

SelectIndex(bm) == IF Sampled(bm) = {} THEN <<0>> ELSE Ascending(Sampled(bm))

\* rank64: ones before position i.
Rank(bm, rindex, i) ==
    LET w == i \div WordBits
    IN  IF w >= WordCount(bm) THEN rindex[Len(rindex)]
        ELSE rindex[w + 1] + Ones(bm, w * WordBits, i)

CountZeros(i) == i - Rank(bitmap, ranks, i)

\* Mutant: the search for the word stops one too early when the i-th one is
\* the first of its word.
SelectEarly(bm, rindex, sindex, i) ==
    LET sidx  == IF i \div Sampling >= Len(sindex) THEN Len(sindex) - 1 ELSE i \div Sampling
        found == {w \in sindex[sidx + 1] \div WordBits .. WordCount(bm) - 1 : rindex[w + 2] >= i}
        w     == CHOOSE v \in found : \A u \in found : v <= u
    IN  IF found = {} THEN WordCount(bm) * WordBits
        ELSE CHOOSE p \in w * WordBits .. (w + 1) * WordBits :
                 \/ Bit(bm, p) = 1 /\ Ones(bm, w * WordBits, p) = i - rindex[w + 1]
                 \/ p = (w + 1) * WordBits

\* select32R64: the position of the i-th one.  The search for its word starts
\* where the sample before it lies, and clears ones in it until the i-th is
\* the lowest.
Select(bm, rindex, sindex, i) ==
    LET sidx  == IF i \div Sampling >= Len(sindex) THEN Len(sindex) - 1 ELSE i \div Sampling
        found == {w \in sindex[sidx + 1] \div WordBits .. WordCount(bm) - 1 : rindex[w + 2] > i}
        w     == CHOOSE v \in found : \A u \in found : v <= u
    IN  IF found = {} THEN WordCount(bm) * WordBits
        ELSE CHOOSE p \in w * WordBits .. (w + 1) * WordBits - 1 :
                 Bit(bm, p) = 1 /\ Ones(bm, w * WordBits, p) = i - rindex[w + 1]

SelectIthOne(i) == Select(bitmap, ranks, selects, i)

\* ss.init
Index ==
    /\ pc = "build" /\ node = Len(queue)
    /\ ranks' = IF queue = <<>> THEN <<>> ELSE RankIndex(bitmap)
    /\ selects' = IF queue = <<>> THEN <<>> ELSE SelectIndex(bitmap)
    /\ pc' = "ready"
    /\ UNCHANGED <<input, keys, queue, node, labels, bitmap, leaves,
                   name, at, nodeId, bmIdx, answer>>

-----------------------------------------------------------------------------
(* Match, and has                                                          *)

Answer(what) == pc' = "ready" /\ answer' = what

\* A trie without labels matches nothing.
Match(d) ==
    /\ pc = "ready"
    /\ name' = d
    /\ at' = 0 /\ nodeId' = 0 /\ bmIdx' = 0
    /\ IF labels = <<>> THEN Answer("no") ELSE pc' = "walk" /\ answer' = "none"
    /\ UNCHANGED trie

Char     == Reverse(name)[at + 1]
LabelIdx == bmIdx - nodeId
Label    == labels[LabelIdx + 1]

\* No edge is left, or the bounds check fails.
NoEdge == Bit(bitmap, bmIdx) = 1 \/ LabelIdx \notin 0 .. Len(labels) - 1

Walking   == pc = "walk" /\ at < Len(name)
Exhausted == pc = "walk" /\ at = Len(name)

\* A root label whose node is a leaf, at a dot of the name: a subdomain.
RootHit ==
    Label = RootLabel /\ Char = Dot /\ CountZeros(bmIdx + 1) \in leaves

\* Mutant: the dot is forgotten, and "xa" is a subdomain of "a".
SubdomainAnywhere ==
    /\ Walking /\ ~ NoEdge
    /\ Label = PrefixLabel \/ Label = RootLabel
    /\ Answer("yes")
    /\ UNCHANGED <<trie, name, at, nodeId, bmIdx>>

Subdomain ==
    /\ Walking /\ ~ NoEdge
    /\ Label = PrefixLabel \/ RootHit
    /\ Answer("yes")
    /\ UNCHANGED <<trie, name, at, nodeId, bmIdx>>

NextEdge ==
    /\ Walking /\ ~ NoEdge
    /\ Label \notin {PrefixLabel, Char} /\ ~ RootHit
    /\ bmIdx' = bmIdx + 1
    /\ UNCHANGED <<trie, pc, name, at, nodeId, answer>>

\* Mutant: the walk forgets that select counts from 0.
DescendTooFar ==
    LET next == CountZeros(bmIdx + 1)
    IN  /\ Walking /\ ~ NoEdge
        /\ Label = Char
        /\ nodeId' = next
        /\ bmIdx'  = SelectIthOne(next) + 1
        /\ at'     = at + 1
        /\ UNCHANGED <<trie, pc, name, answer>>

\* The edge's node; its own edges begin after the 1 of the node before it.
Descend ==
    LET next == CountZeros(bmIdx + 1)
    IN  /\ Walking /\ ~ NoEdge
        /\ Label = Char
        /\ nodeId' = next
        /\ bmIdx'  = SelectIthOne(next - 1) + 1
        /\ at'     = at + 1
        /\ UNCHANGED <<trie, pc, name, answer>>

NoMatch ==
    /\ Walking /\ NoEdge
    /\ Answer("no")
    /\ UNCHANGED <<trie, name, at, nodeId, bmIdx>>

\* The whole name is matched: a leaf, or else a marker among the edges.
ExactMatch ==
    /\ Exhausted /\ nodeId \in leaves
    /\ Answer("yes")
    /\ UNCHANGED <<trie, name, at, nodeId, bmIdx>>

\* Mutant: the scan for a marker looks at one edge over and over.
MarkerStuck ==
    /\ Exhausted /\ nodeId \notin leaves
    /\ IF NoEdge THEN Answer("no") /\ UNCHANGED bmIdx
       ELSE IF Label \in {PrefixLabel, RootLabel} THEN Answer("yes") /\ UNCHANGED bmIdx
       ELSE bmIdx' = bmIdx /\ UNCHANGED <<pc, answer>>
    /\ UNCHANGED <<trie, name, at, nodeId>>

Marker ==
    /\ Exhausted /\ nodeId \notin leaves
    /\ IF NoEdge THEN Answer("no") /\ UNCHANGED bmIdx
       ELSE IF Label \in {PrefixLabel, RootLabel} THEN Answer("yes") /\ UNCHANGED bmIdx
       ELSE bmIdx' = bmIdx + 1 /\ UNCHANGED <<pc, answer>>
    /\ UNCHANGED <<trie, name, at, nodeId>>

Has == Subdomain \/ NextEdge \/ Descend \/ NoMatch \/ ExactMatch \/ Marker

Next == BuildNode \/ Index \/ Has \/ \E d \in Names : Match(d)

Spec == Init /\ [][Next]_vars

\* A loop that can go on does.
FairSpec == Spec /\ WF_vars(BuildNode \/ Index \/ Has)

-----------------------------------------------------------------------------
(* Properties                                                              *)

\* What the patterns mean (domain/README.md): an exact one its name; a suffix
\* with a leading dot the names that end with it; any other suffix its name
\* and the names that end with a dot and it.
Matched(d) ==
    \/ d \in input.exact
    \/ \E s \in input.suffix :
          IF s # <<>> /\ s[1] = Dot THEN IsSuffix(s, d)
          ELSE d = s \/ IsSuffix(<<Dot>> \o s, d)

\* The trie and the walk agree with the patterns, for every name.
AnswersRight == answer # "none" => (answer = "yes" <=> Matched(name))

\* The trie's sizes: one label per edge and per node but the root, and one 1
\* per node laid out.
Shape ==
    /\ keys = Sorted(Keys(input))
    /\ node \in 0 .. Len(queue)
    /\ queue = <<>> <=> keys = <<>>
    /\ queue \in Seq([s : Nat, e : Nat, col : Nat]) /\ labels \in Seq(Nat)
    /\ IF queue = <<>> THEN labels = <<>>
       ELSE Len(queue) = Len(labels) + 1 /\ queue[1] = [s |-> 1, e |-> Len(keys) + 1, col |-> 0]
    /\ bitmap \in Seq({0, 1})
    /\ bitmap = <<>> \/ Bit(bitmap, Len(bitmap) - 1) = 1
    /\ Len(bitmap) = Len(labels) + node
    /\ Ones(bitmap, 0, Len(bitmap)) = node

\* A node stands for a prefix, and its range is of the keys that have it.
Covers(elt) ==
    /\ elt.s \in DOMAIN keys /\ elt.e \in 1 .. Len(keys) + 1 /\ elt.col \in 0 .. Len(keys[elt.s])
    /\ \A j \in DOMAIN keys :
          j \in elt.s .. elt.e - 1 <=> Len(keys[j]) >= elt.col /\ Agree(keys[j], keys[elt.s], elt.col)

Ranges == \A n \in 1 .. Len(queue) : Covers(queue[n])

\* The edges of a node are the 0s of the bitmap that have its number of 1s
\* before them; the edge at p has the (p - n)-th label.
EdgesOf(n)    == {p \in 0 .. Len(bitmap) - 1 : Bit(bitmap, p) = 0 /\ Ones(bitmap, 0, p) = n}
LabelOf(n, p) == labels[p - n + 1]

\* Nodes come in the order of their edges: an edge leads to the node of the
\* prefix that is longer by its label.
EdgesRight ==
    \A n \in 0 .. node - 1 : \A p \in EdgesOf(n) :
        LET parent == queue[n + 1]
            child  == queue[p - n + 2]
        IN  /\ p - n + 2 \in DOMAIN queue
            /\ child.s \in parent.s .. parent.e - 1
            /\ child.col = parent.col + 1
            /\ LabelOf(n, p) = keys[child.s][child.col]

\* There is an edge for each character that goes on from a prefix, and they
\* are in order.
EdgesComplete ==
    \A n \in 0 .. node - 1 :
        LET parent == queue[n + 1]
        IN  \A j \in parent.s .. parent.e - 1 :
                Len(keys[j]) > parent.col =>
                    \E p \in EdgesOf(n) : LabelOf(n, p) = keys[j][parent.col + 1]

EdgesInOrder ==
    \A n \in 0 .. node - 1 : \A p, r \in EdgesOf(n) : p < r => LabelOf(n, p) < LabelOf(n, r)

LeavesRight == leaves = {n \in 0 .. node - 1 : EndsAt(queue[n + 1])}

TrieRight == Shape /\ Ranges /\ EdgesRight /\ EdgesComplete /\ EdgesInOrder /\ LeavesRight

\* The walk's loop invariant: the node it is at is the one of the part of the
\* name it has matched, and its position is among that node's edges.
OnPath ==
    /\ nodeId \in 0 .. Len(queue) - 1
    /\ at \in 0 .. Len(name) /\ bmIdx \in Nat
    /\ queue[nodeId + 1].col = at
    /\ Agree(Reverse(name), keys[queue[nodeId + 1].s], at)
    /\ Ones(bitmap, 0, bmIdx) = nodeId

\* The bounds checks of has (93, 125, 143) are never needed.
InBounds ==
    /\ Bit(bitmap, bmIdx) = 0 => LabelIdx \in 0 .. Len(labels) - 1
    /\ at > 0 => nodeId > 0

\* The edges that the walk has gone past at this node were not those it looks
\* for.
PassedEdges ==
    \A p \in EdgesOf(nodeId) :
        LET label == LabelOf(nodeId, p)
        IN  p < bmIdx =>
                /\ label # PrefixLabel
                /\ IF at < Len(name) THEN label # Char /\ (label = RootLabel => Char # Dot)
                   ELSE label # RootLabel

\* Nor has it gone past a suffix.
PassedNodes ==
    \A j \in DOMAIN keys : \A m \in 0 .. at - 1 :
        Len(keys[j]) = m + 1 /\ Agree(keys[j], Reverse(name), m) =>
            /\ keys[j][m + 1] # PrefixLabel
            /\ keys[j][m + 1] = RootLabel => Reverse(name)[m + 1] # Dot

IndexBuilt ==
    /\ node = Len(queue)
    /\ queue # <<>> => ranks = RankIndex(bitmap) /\ selects = SelectIndex(bitmap)

Inv ==
    /\ input \in Inputs /\ name \in Names \cup {<<>>}
    /\ pc \in {"build", "ready", "walk"}
    /\ TrieRight
    /\ pc # "build" => IndexBuilt
    /\ pc = "walk" => labels # <<>> /\ OnPath /\ InBounds /\ PassedEdges /\ PassedNodes

\* Rank and select mean what they say at every position, word boundaries and
\* the end of the bitmap included.
IndexExact ==
    pc # "build" /\ queue # <<>> =>
        /\ \A i \in 0 .. Len(bitmap) : Rank(bitmap, ranks, i) = Ones(bitmap, 0, i)
        /\ \A i \in 0 .. node - 1 :
              LET p == SelectIthOne(i) IN Bit(bitmap, p) = 1 /\ Ones(bitmap, 0, p) = i

\* Construction and every walk end.
Answers == []<>(pc = "ready")

=============================================================================
