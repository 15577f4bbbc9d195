------------------------------- MODULE GeoSite -------------------------------
(***************************************************************************)
(* A GeoSite list as a rule uses it (pkg/acl/matchers_geodat.go): domains  *)
(* that need no look at their attributes go to the succinct trie, whose    *)
(* answers are DomainTrie's subject, the others are walked through.        *)
(*                                                                         *)
(* A domain is [type, value, attrs]; its value and a host's name are       *)
(* sequences of runes in lower case, as the published lists have them.  A  *)
(* regular expression is the set of names it matches, or Nil if it cannot  *)
(* be compiled.                                                            *)
(***************************************************************************)
EXTENDS Addresses, Integers, SequencesExt

Types == {"plain", "regex", "root", "full"}

\* newGeositeMatcher fails on a type it does not know and on a bad pattern.
Compilable(domains) ==
    \A d \in domains : d.type \in Types /\ (d.type = "regex" => d.value # Nil)

MatchesAttrs(d, attrs) == attrs # {} => d.attrs # {} /\ attrs \subseteq d.attrs

\* The trie takes a domain for which the attributes cannot matter.
Fast(d, attrs) ==
    /\ d.type \in {"full", "root"}
    /\ MatchesAttrs(d, attrs) /\ (d.attrs = {} \/ attrs = {})

\* newGeositeMatcher.
Matcher(domains, attrs) ==
    [kind  |-> "geosite", attrs |-> attrs,
     fast  |-> {d \in domains : Fast(d, attrs)},
     plain |-> {d \in domains : d.type = "plain"},
     regex |-> {d \in domains : d.type = "regex"},
     attr  |-> {d \in domains : d.type \in {"full", "root"} /\ ~Fast(d, attrs)}]

\* A pattern of the trie that begins with a dot is met by subdomains only.
TrieMatches(d, name) ==
    IF d.type = "full" THEN name = d.value
    ELSE IF d.value # <<>> /\ Head(d.value) = "." THEN IsSuffix(d.value, name) /\ name # d.value
    ELSE name = d.value \/ IsSuffix(<<".">> \o d.value, name)

\* matchDomainWithAttrs: the attributes first.
MatchDomainWithAttrs(m, d, name) ==
    /\ MatchesAttrs(d, m.attrs)
    /\ CASE d.type = "plain" -> \E i \in 0 .. Len(name) : IsPrefix(d.value, SubSeq(name, i + 1, Len(name)))
         [] d.type = "regex" -> name \in d.value
         [] d.type = "full"  -> name = d.value
         [] d.type = "root"  -> name = d.value \/ IsSuffix(<<".">> \o d.value, name)

\* geositeMatcher.Match.
SiteMatches(m, name) ==
    \/ \E d \in m.fast : TrieMatches(d, name)
    \/ \E d \in m.plain \cup m.regex \cup m.attr : MatchDomainWithAttrs(m, d, name)

=============================================================================
