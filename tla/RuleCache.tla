----------------------------- MODULE RuleCache ------------------------------
(***************************************************************************)
(* compiledRuleSetImpl.Match (pkg/acl/compile.go): the first-match search  *)
(* behind an LRU cache that concurrent callers share.  Each operation of   *)
(* the cache (hashicorp/golang-lru) is atomic; Match as a whole is not, so *)
(* two callers may miss, search and add the same key at once, and an entry *)
(* may be evicted between one caller's miss and its add.                   *)
(***************************************************************************)
EXTENDS RuleMatch

CONSTANTS
    Callers,
    Requests,
    Size        \* capacity of the cache

\* lru.New refuses a size below 1, and Compile passes the error on.
ASSUME RuleCacheAssumption == Size \in Nat \ {0} /\ Nil \notin Requests

VARIABLES
    cache,      \* entries [key, result], least recently used first
    pc,
    request,    \* per caller: the argument of its call, or Nil
    found,      \* per caller: the result of its search, or Nil
    answer      \* per caller: what its latest call returned, or Nil

vars == <<cache, pc, request, found, answer>>

-----------------------------------------------------------------------------
(* The cache key                                                           *)

Lowered(r) == [r.host EXCEPT !.name = ToLower(@)]

\* HostInfo.String prints the name and both addresses.
HostString(host) == <<host.name, Canonical(host.v4), Canonical(host.v6)>>

\* Mutant: a key that forgets the port.
KeyWithoutPort(r) == [host |-> HostString(Lowered(r)), proto |-> r.proto, port |-> 0]

Key(r) == [host |-> HostString(Lowered(r)), proto |-> r.proto, port |-> r.port]

-----------------------------------------------------------------------------
(* golang-lru                                                              *)

Cached(k) == \E i \in DOMAIN cache : cache[i].key = k

PositionOf(k) == CHOOSE i \in DOMAIN cache : cache[i].key = k

\* The sequence s without its i-th element.
Without(s, i) == [j \in 1 .. Len(s) - 1 |-> IF j < i THEN s[j] ELSE s[j + 1]]

\* Entry e becomes the most recently used one; the oldest makes room for it.
Used(e) ==
    IF Cached(e.key) THEN Append(Without(cache, PositionOf(e.key)), e)
    ELSE Append(IF Len(cache) = Size THEN Tail(cache) ELSE cache, e)

-----------------------------------------------------------------------------
Init ==
    /\ cache   = <<>>
    /\ pc      = [c \in Callers |-> "idle"]
    /\ request = [c \in Callers |-> Nil]
    /\ found   = [c \in Callers |-> Nil]
    /\ answer  = [c \in Callers |-> Nil]

Call(c, r) ==
    /\ pc[c] = "idle"
    /\ pc'      = [pc EXCEPT ![c] = "get"]
    /\ request' = [request EXCEPT ![c] = r]
    /\ answer'  = [answer EXCEPT ![c] = Nil]
    /\ UNCHANGED <<cache, found>>

Return(c, result) ==
    /\ pc'      = [pc EXCEPT ![c] = "idle"]
    /\ request' = [request EXCEPT ![c] = Nil]
    /\ found'   = [found EXCEPT ![c] = Nil]
    /\ answer'  = [answer EXCEPT ![c] = result]

\* Cache.Get finds the key, and makes it the most recently used one.
Hit(c) ==
    LET k == Key(request[c])
    IN  /\ pc[c] = "get"
        /\ Cached(k)
        /\ cache' = Used(cache[PositionOf(k)])
        /\ Return(c, cache[PositionOf(k)].result)

Miss(c) ==
    /\ pc[c] = "get"
    /\ ~ Cached(Key(request[c]))
    /\ pc' = [pc EXCEPT ![c] = "search"]
    /\ UNCHANGED <<cache, request, found, answer>>

\* Mutant: the name is lowered for the key, but searched for as it came.
SearchAsWritten(c) ==
    /\ pc[c] = "search"
    /\ pc'    = [pc EXCEPT ![c] = "add"]
    /\ found' = [found EXCEPT ![c] =
                    FirstMatch(request[c].host, request[c].proto, request[c].port)]
    /\ UNCHANGED <<cache, request, answer>>

\* The rules never change: the loop over them is one step.
Search(c) ==
    /\ pc[c] = "search"
    /\ pc'    = [pc EXCEPT ![c] = "add"]
    /\ found' = [found EXCEPT ![c] =
                    FirstMatch(Lowered(request[c]), request[c].proto, request[c].port)]
    /\ UNCHANGED <<cache, request, answer>>

\* Mutant: only a match is worth caching.
AddMatchOnly(c) ==
    /\ pc[c] = "add"
    /\ cache' = IF found[c] = NoMatch THEN cache
                ELSE Used([key |-> Key(request[c]), result |-> found[c]])
    /\ Return(c, found[c])

\* Cache.Add, of a match and of "no match" alike.
Add(c) ==
    /\ pc[c] = "add"
    /\ cache' = Used([key |-> Key(request[c]), result |-> found[c]])
    /\ Return(c, found[c])

Next ==
    \E c \in Callers :
        \/ \E r \in Requests : Call(c, r)
        \/ Hit(c) \/ Miss(c) \/ Search(c) \/ Add(c)

Spec == Init /\ [][Next]_vars

-----------------------------------------------------------------------------
(* Properties                                                              *)

Answers == {Answer(r) : r \in Requests}

TypeOK ==
    /\ cache \in Seq([key : {Key(r) : r \in Requests}, result : Answers])
    /\ pc \in [Callers -> {"idle", "get", "search", "add"}]
    /\ request \in [Callers -> Requests \cup {Nil}]
    /\ found \in [Callers -> Answers \cup {Nil}]
    /\ answer \in [Callers -> Answers \cup {Nil}]

\* Every entry holds the first match of every request that has its key,
\* whichever caller's request it was added for, and however spelled.
Coherent ==
    \A i \in DOMAIN cache, r \in Requests :
        cache[i].key = Key(r) => cache[i].result = Answer(r)

\* A key is cached once, though two callers may add it at once.
Distinct == \A i, j \in DOMAIN cache : cache[i].key = cache[j].key => i = j

Bounded == Len(cache) <= Size

\* A caller between its search and its add holds the right result.
CallsOK ==
    \A c \in Callers :
        /\ pc[c] = "idle" <=> request[c] = Nil
        /\ pc[c] = "add" => found[c] = Answer(request[c])

\* Inductive: the cache stays coherent, without duplicates and within its
\* size, whatever calls overlap and whatever is evicted in between.
Inv == TypeOK /\ Coherent /\ Distinct /\ Bounded /\ CallsOK

\* "No match should also be cached" (106): a call that returns leaves its key
\* in the cache, the most recently used of all.
ReturnsCached ==
    \A c \in Callers :
        request[c] # Nil /\ request'[c] = Nil =>
            /\ cache' # <<>>
            /\ cache'[Len(cache')] = [key |-> Key(request[c]), result |-> answer'[c]]

AnsweredIsCached == [][ReturnsCached]_vars

\* The cache is invisible: callers cannot tell Match from a service that
\* searches the rules anew for every call.
Service == INSTANCE RuleService WITH pending <- request, answer <- answer

ImplementsService == Service!Spec

=============================================================================
