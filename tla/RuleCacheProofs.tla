-------------------------- MODULE RuleCacheProofs ---------------------------
(***************************************************************************)
(* RuleCache implements RuleService, for every rule set, set of callers,   *)
(* set of requests and cache size.  The argument: equal keys mean equal    *)
(* answers, so coherence survives whoever adds an entry; golang-lru keeps  *)
(* one entry per key; and a result waits in `found' for its own call only. *)
(***************************************************************************)
EXTENDS RuleCache, TLAPS

\* Two requests with one key have one answer: String keeps every part of a
\* host that the matchers look at.
LEMMA KeyDecides ==
    ASSUME NEW r, NEW s, Key(r) = Key(s)
    PROVE  Answer(r) = Answer(s)
<1> DEFINE hr == Lowered(r)
           hs == Lowered(s)
<1>1. /\ hr.name = hs.name
      /\ Canonical(hr.v4) = Canonical(hs.v4)
      /\ Canonical(hr.v6) = Canonical(hs.v6)
      /\ r.proto = s.proto
      /\ r.port = s.port
  BY DEF Key, HostString
<1>2. ASSUME NEW m PROVE HostMatches(m, hr) = HostMatches(m, hs)
  <2> HIDE DEF hr, hs
  <2>1. ASSUME NEW nets PROVE InNets(hr, nets) = InNets(hs, nets)
    BY <1>1 DEF InNets
  <2>2. QED
    BY <1>1, <2>1 DEF HostMatches
<1>3. FirstMatch(hr, r.proto, r.port) = FirstMatch(hs, s.proto, s.port)
  <2> HIDE DEF hr, hs
  <2>1. ASSUME NEW rule
        PROVE RuleMatches(rule, hr, r.proto, r.port) = RuleMatches(rule, hs, s.proto, s.port)
    BY <1>1, <1>2 DEF RuleMatches
  <2>2. QED
    BY <2>1 DEF FirstMatch
<1>4. QED
  BY <1>3 DEF Answer, Lowered

-----------------------------------------------------------------------------
(* The LRU list                                                            *)

\* Removing an element keeps the others, in order.
LEMMA WithoutElement ==
    ASSUME NEW S, NEW s \in Seq(S), NEW i \in 1 .. Len(s)
    PROVE  /\ Without(s, i) \in Seq(S)
           /\ Len(Without(s, i)) = Len(s) - 1
           /\ \A j \in 1 .. Len(s) - 1 :
                 Without(s, i)[j] = IF j < i THEN s[j] ELSE s[j + 1]
<1>1. Without(s, i) \in [1 .. Len(s) - 1 -> S]
  BY DEF Without
<1>2. Len(s) - 1 \in Nat
  OBVIOUS
<1>3. QED
  BY <1>1, <1>2 DEF Without

\* What an entry's use does to a list without duplicate keys: the entry comes
\* last, the rest was there before, and neither bound nor distinctness breaks.
LEMMA UsedEntry ==
    ASSUME NEW S, cache \in Seq(S), Distinct, Bounded, Size \in Nat \ {0}, NEW e \in S
    PROVE  /\ Used(e) \in Seq(S)
           /\ Len(Used(e)) \in 1 .. Size
           /\ Used(e)[Len(Used(e))] = e
           /\ \A n \in DOMAIN Used(e) :
                 Used(e)[n] = e \/ \E i \in DOMAIN cache : Used(e)[n] = cache[i]
           /\ \A m, n \in DOMAIN Used(e) : Used(e)[m].key = Used(e)[n].key => m = n
<1>1. CASE Cached(e.key)
  <2> DEFINE p == PositionOf(e.key)
             rest == Without(cache, p)
  <2>1. p \in 1 .. Len(cache) /\ cache[p].key = e.key
    BY <1>1 DEF Cached, PositionOf
  <2>2. Used(e) = Append(rest, e)
    BY <1>1 DEF Used
  <2> HIDE DEF p
  <2>3. /\ rest \in Seq(S)
        /\ Len(rest) = Len(cache) - 1
        /\ \A j \in 1 .. Len(cache) - 1 :
              rest[j] = IF j < p THEN cache[j] ELSE cache[j + 1]
    BY <2>1, WithoutElement
  <2> HIDE DEF rest
  <2> DEFINE old(j) == IF j < p THEN j ELSE j + 1
  <2>a. \A j \in 1 .. Len(rest) :
           old(j) \in 1 .. Len(cache) /\ old(j) # p /\ rest[j] = cache[old(j)]
    BY <2>1, <2>3
  <2>b. \A m, n \in 1 .. Len(rest) : old(m) = old(n) => m = n
    BY <2>1, <2>3
  <2> HIDE DEF old
  <2>4. \A j \in 1 .. Len(rest) : rest[j].key # e.key
    BY <2>1, <2>a DEF Distinct
  <2>5. \A m, n \in 1 .. Len(rest) : rest[m].key = rest[n].key => m = n
    BY <2>a, <2>b DEF Distinct
  <2>6. rest \in Seq(S) /\ Len(rest) \in 0 .. Size - 1
    BY <2>1, <2>3 DEF Bounded
  <2>7. \A n \in 1 .. Len(rest) : \E i \in DOMAIN cache : rest[n] = cache[i]
    BY <2>1, <2>3, SMTT(30)
  <2>8. QED
    BY <2>2, <2>4, <2>5, <2>6, <2>7
<1>2. CASE ~ Cached(e.key)
  <2> DEFINE rest == IF Len(cache) = Size THEN Tail(cache) ELSE cache
  <2>1. Used(e) = Append(rest, e)
    BY <1>2 DEF Used
  <2>2. /\ rest \in Seq(S)
        /\ Len(rest) \in 0 .. Size - 1
        /\ \A j \in 1 .. Len(rest) :
              rest[j] = cache[IF Len(cache) = Size THEN j + 1 ELSE j]
        /\ Len(rest) = IF Len(cache) = Size THEN Len(cache) - 1 ELSE Len(cache)
    BY DEF Bounded
  <2> HIDE DEF rest
  <2>3. \A j \in 1 .. Len(rest) : rest[j].key # e.key
    BY <1>2, <2>2 DEF Cached
  <2>4. \A m, n \in 1 .. Len(rest) : rest[m].key = rest[n].key => m = n
    BY <2>2 DEF Distinct
  <2>5. QED
    BY <2>1, <2>2, <2>3, <2>4
<1>3. QED
  BY <1>1, <1>2

-----------------------------------------------------------------------------
(* The invariant                                                           *)

Entry == [key : {Key(r) : r \in Requests}, result : Answers]

\* Using a coherent entry keeps the cache part of the invariant.
LEMMA UsedInv ==
    ASSUME Inv, NEW r \in Requests, NEW e, e = [key |-> Key(r), result |-> Answer(r)],
           cache' = Used(e)
    PROVE  /\ cache' \in Seq(Entry)
           /\ Coherent' /\ Distinct' /\ Bounded'
           /\ cache' # <<>>
           /\ cache'[Len(cache')] = e
<1>1. e \in Entry
  BY DEF Entry, Answers
<1>2. cache \in Seq(Entry) /\ Distinct /\ Bounded /\ Size \in Nat \ {0}
  BY RuleCacheAssumption DEF Inv, TypeOK, Entry
<1>3. /\ Used(e) \in Seq(Entry)
      /\ Len(Used(e)) \in 1 .. Size
      /\ Used(e)[Len(Used(e))] = e
      /\ \A n \in DOMAIN Used(e) :
            Used(e)[n] = e \/ \E i \in DOMAIN cache : Used(e)[n] = cache[i]
      /\ \A m, n \in DOMAIN Used(e) : Used(e)[m].key = Used(e)[n].key => m = n
  BY <1>1, <1>2, UsedEntry
<1>4. Coherent'
  <2> SUFFICES ASSUME NEW n \in DOMAIN Used(e), NEW q \in Requests, Used(e)[n].key = Key(q)
               PROVE  Used(e)[n].result = Answer(q)
    BY DEF Coherent
  <2>1. CASE Used(e)[n] = e
    BY <2>1, KeyDecides
  <2>2. CASE \E i \in DOMAIN cache : Used(e)[n] = cache[i]
    BY <2>2 DEF Inv, Coherent
  <2>3. QED
    BY <1>3, <2>1, <2>2
<1>5. Distinct' /\ Bounded'
  BY <1>3 DEF Distinct, Bounded
<1>6. QED
  BY <1>3, <1>4, <1>5

\* What a hit finds is the right answer.
LEMMA CachedAnswer ==
    ASSUME Inv, NEW r \in Requests, Cached(Key(r))
    PROVE  cache[PositionOf(Key(r))] = [key |-> Key(r), result |-> Answer(r)]
<1> DEFINE p == PositionOf(Key(r))
<1>1. p \in DOMAIN cache /\ cache[p].key = Key(r)
  BY DEF Cached, PositionOf
<1> HIDE DEF p
<1>2. cache \in Seq(Entry)
  BY DEF Inv, TypeOK, Entry
<1>3. cache[p] \in Entry
  <2> HIDE DEF Entry
  <2> QED
    BY <1>1, <1>2
<1>4. cache[p].result = Answer(r)
  BY <1>1 DEF Inv, Coherent
<1>5. cache[p] = [key |-> Key(r), result |-> Answer(r)]
  BY <1>1, <1>3, <1>4 DEF Entry
<1>6. QED
  BY <1>5 DEF p

LEMMA HitInv ==
    ASSUME Inv, NEW c \in Callers, Hit(c)
    PROVE  /\ Inv'
           /\ request[c] \in Requests
           /\ answer' = [answer EXCEPT ![c] = Answer(request[c])]
           /\ cache' = Used([key |-> Key(request[c]), result |-> Answer(request[c])])
<1> DEFINE e == [key |-> Key(request[c]), result |-> Answer(request[c])]
<1>1. request[c] \in Requests
  BY DEF Inv, TypeOK, CallsOK, Hit
<1>2. cache' = Used(e) /\ Return(c, Answer(request[c]))
  BY <1>1, CachedAnswer DEF Hit
<1> HIDE DEF e
<1>3. cache' \in Seq(Entry) /\ Coherent' /\ Distinct' /\ Bounded'
  BY <1>1, <1>2, UsedInv DEF e
<1>4. TypeOK' /\ CallsOK'
  BY <1>1, <1>2, <1>3 DEF Inv, TypeOK, CallsOK, Return, Answers, Entry
<1>5. QED
  BY <1>1, <1>2, <1>3, <1>4 DEF Inv, Return, e

LEMMA AddInv ==
    ASSUME Inv, NEW c \in Callers, Add(c)
    PROVE  /\ Inv'
           /\ request[c] \in Requests
           /\ answer' = [answer EXCEPT ![c] = Answer(request[c])]
           /\ cache' = Used([key |-> Key(request[c]), result |-> Answer(request[c])])
<1> DEFINE e == [key |-> Key(request[c]), result |-> Answer(request[c])]
<1>1. request[c] \in Requests
  BY DEF Inv, TypeOK, CallsOK, Add
<1>2. cache' = Used(e) /\ Return(c, Answer(request[c]))
  BY DEF Inv, CallsOK, Add
<1> HIDE DEF e
<1>3. cache' \in Seq(Entry) /\ Coherent' /\ Distinct' /\ Bounded'
  BY <1>1, <1>2, UsedInv DEF e
<1>4. TypeOK' /\ CallsOK'
  BY <1>1, <1>2, <1>3 DEF Inv, TypeOK, CallsOK, Return, Answers, Entry
<1>5. QED
  BY <1>1, <1>2, <1>3, <1>4 DEF Inv, Return, e

\* Steps that leave the cache alone.
LEMMA CallInv ==
    ASSUME Inv, NEW c \in Callers, NEW r \in Requests, Call(c, r)
    PROVE  Inv'
BY RuleCacheAssumption
DEF Inv, TypeOK, Coherent, Distinct, Bounded, CallsOK, Call

LEMMA MissInv ==
    ASSUME Inv, NEW c \in Callers, Miss(c)
    PROVE  Inv'
BY DEF Inv, TypeOK, Coherent, Distinct, Bounded, CallsOK, Miss

LEMMA SearchInv ==
    ASSUME Inv, NEW c \in Callers, Search(c)
    PROVE  Inv'
<1>1. request[c] \in Requests
  BY DEF Inv, TypeOK, CallsOK, Search
<1>2. found' = [found EXCEPT ![c] = Answer(request[c])]
  BY DEF Search, Answer, Lowered
<1>3. QED
  BY <1>1, <1>2
  DEF Inv, TypeOK, Coherent, Distinct, Bounded, CallsOK, Search, Answers

\* Every behaviour of the cached Match satisfies Inv.
THEOREM Invariance == Spec => []Inv
<1>1. Init => Inv
  <2> SUFFICES ASSUME Init PROVE Inv
    OBVIOUS
  <2> USE RuleCacheAssumption DEF Init
  <2>1. TypeOK /\ CallsOK
    BY DEF TypeOK, CallsOK
  <2>2. Coherent /\ Distinct /\ Bounded
    BY DEF Coherent, Distinct, Bounded
  <2>3. QED
    BY <2>1, <2>2 DEF Inv
<1>2. Inv /\ [Next]_vars => Inv'
  <2> SUFFICES ASSUME Inv, [Next]_vars PROVE Inv'
    OBVIOUS
  <2>1. CASE UNCHANGED vars
    BY <2>1 DEF vars, Inv, TypeOK, Coherent, Distinct, Bounded, CallsOK
  <2>2. CASE Next
    BY <2>2, CallInv, HitInv, MissInv, SearchInv, AddInv DEF Next
  <2>3. QED
    BY <2>1, <2>2
<1>3. QED
  BY <1>1, <1>2, PTL DEF Spec

\* Callers cannot tell the cached, concurrent Match from a fresh search of
\* the rules for every call.
THEOREM Refinement == Spec => ImplementsService
<1>1. Init => Service!Init
  BY DEF Init, Service!Init
<1>2. Inv /\ [Next]_vars => [Service!Next]_(Service!svars)
  <2> SUFFICES ASSUME Inv, [Next]_vars PROVE [Service!Next]_(Service!svars)
    OBVIOUS
  <2>1. ASSUME NEW c \in Callers, NEW r \in Requests, Call(c, r)
        PROVE  Service!Ask(c, r)
    BY <2>1 DEF Inv, CallsOK, Call, Service!Ask
  <2>2. ASSUME NEW c \in Callers, Hit(c) PROVE Service!Reply(c)
    <3>1. request[c] \in Requests /\ answer' = [answer EXCEPT ![c] = Answer(request[c])]
      BY <2>2, HitInv
    <3>2. QED
      BY <2>2, <3>1, RuleCacheAssumption DEF Hit, Return, Service!Reply
  <2>3. ASSUME NEW c \in Callers, Add(c) PROVE Service!Reply(c)
    <3>1. request[c] \in Requests /\ answer' = [answer EXCEPT ![c] = Answer(request[c])]
      BY <2>3, AddInv
    <3>2. QED
      BY <2>3, <3>1, RuleCacheAssumption DEF Add, Return, Service!Reply
  <2>4. ASSUME NEW c \in Callers, Miss(c) \/ Search(c) PROVE UNCHANGED Service!svars
    BY <2>4 DEF Miss, Search, Service!svars
  <2>5. CASE UNCHANGED vars
    BY <2>5 DEF vars, Service!svars
  <2>6. QED
    BY <2>1, <2>2, <2>3, <2>4, <2>5 DEF Next, Service!Next
<1>3. QED
  BY Invariance, <1>1, <1>2, PTL DEF Spec, ImplementsService, Service!Spec

\* Every call that returns, a call without a match included, leaves its key
\* the most recently used in the cache.
THEOREM AnsweredIsCachedHolds == Spec => AnsweredIsCached
<1>1. Inv /\ [Next]_vars => [ReturnsCached]_vars
  <2> SUFFICES ASSUME Inv, Next, NEW c \in Callers, request[c] # Nil, request'[c] = Nil
               PROVE  /\ cache' # <<>>
                      /\ cache'[Len(cache')] = [key |-> Key(request[c]), result |-> answer'[c]]
    BY DEF ReturnsCached
  <2>1. Hit(c) \/ Add(c)
    BY RuleCacheAssumption
    DEF Inv, TypeOK, CallsOK, Next, Call, Hit, Miss, Search, Add, Return
  <2> DEFINE e == [key |-> Key(request[c]), result |-> Answer(request[c])]
  <2>2. /\ request[c] \in Requests
        /\ answer'[c] = Answer(request[c])
    BY <2>1, HitInv, AddInv DEF Inv, TypeOK
  <2>3. cache' = Used(e)
    BY <2>1, HitInv, AddInv
  <2> HIDE DEF e
  <2>4. cache' # <<>> /\ cache'[Len(cache')] = e
    BY <2>2, <2>3, UsedInv DEF e
  <2>5. QED
    BY <2>2, <2>4 DEF e
<1>2. QED
  BY Invariance, <1>1, PTL DEF Spec, AnsweredIsCached

=============================================================================
