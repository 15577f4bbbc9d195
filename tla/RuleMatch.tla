----------------------------- MODULE RuleMatch ------------------------------
(***************************************************************************)
(* What a compiled rule set answers (pkg/acl/compile.go, matchers.go): the *)
(* first rule, in file order, that matches host, protocol and port.  There *)
(* is no state here; RuleService and RuleCache are built on it.            *)
(*                                                                         *)
(* A host name is its runes and a spelling: "plain" lower case, "upper"   *)
(* for any use of capitals, "ace" for the punycode form of a name.         *)
(***************************************************************************)
EXTENDS Integers, Sequences, Addresses

CONSTANT Rules      \* the compiled rules, in file order

Protocols == {"both", "tcp", "udp"}

\* strings.ToLower, and idna.ToUnicode after it.
ToLower(name)   == IF name.spelling = "upper" THEN [name EXCEPT !.spelling = "plain"]
                                              ELSE name
ToUnicode(name) == IF name.spelling = "ace" THEN [name EXCEPT !.spelling = "plain"]
                                            ELSE name

-----------------------------------------------------------------------------
(* Host matchers.  `nets' is the set of addresses an IP, a CIDR or a GeoIP *)
(* list stands for.                                                        *)

InNets(host, nets) == Canonical(host.v4) \in nets \/ Canonical(host.v6) \in nets

IsSuffixOf(p, s) == Len(p) <= Len(s) /\ \A i \in 1..Len(p) : p[i] = s[Len(s) - Len(p) + i]

\* deepMatchRune, from the i-th rune of str and the j-th of the pattern on.
DeepMatchRune(str, pattern) ==
    LET M[i \in 1 .. Len(str) + 1, j \in 1 .. Len(pattern) + 1] ==
            IF j > Len(pattern) THEN i > Len(str)
            ELSE IF pattern[j] = "*" THEN M[i, j + 1] \/ (i <= Len(str) /\ M[i + 1, j])
            ELSE i <= Len(str) /\ str[i] = pattern[j] /\ M[i + 1, j + 1]
    IN  M[1, 1]

\* The pattern is compared as it was written: an "ace" pattern meets no name,
\* since every name is decoded first.
DomainMatches(m, name) ==
    /\ name.spelling = m.pattern.spelling
    /\ CASE m.mode = "exact"    -> name.runes = m.pattern.runes
         [] m.mode = "wildcard" -> DeepMatchRune(name.runes, m.pattern.runes)
         [] m.mode = "suffix"   -> \/ name.runes = m.pattern.runes
                                  \/ IsSuffixOf(<<".">> \o m.pattern.runes, name.runes)

HostMatches(m, host) ==
    CASE m.kind = "all"    -> TRUE
      [] m.kind = "addr"   -> InNets(host, m.nets)
      [] m.kind = "geoip"  -> InNets(host, m.nets) # m.inverse
      [] m.kind = "domain" -> DomainMatches(m, ToUnicode(host.name))

-----------------------------------------------------------------------------
(* Rules.  The absence of a port filter is a flag of its own: port 0 can   *)
(* be filtered for.                                                        *)

PassesFilter(rule, proto, port) ==
    /\ rule.proto \in {"both", proto}
    /\ rule.hasPortFilter => port \in rule.startPort .. rule.endPort

RuleMatches(rule, host, proto, port) ==
    PassesFilter(rule, proto, port) /\ HostMatches(rule.host, host)

NoMatch == [outbound |-> Nil, hijack |-> Nil]

\* The linear search of compiledRuleSetImpl.Match.
FirstMatch(host, proto, port) ==
    LET hits == {i \in DOMAIN Rules : RuleMatches(Rules[i], host, proto, port)}
    IN  IF hits = {} THEN NoMatch
        ELSE LET first == CHOOSE i \in hits : \A j \in hits : i <= j
             IN  [outbound |-> Rules[first].outbound, hijack |-> Rules[first].hijack]

\* What a caller is promised: the answer for the name in lower case.
Answer(r) == FirstMatch([r.host EXCEPT !.name = ToLower(@)], r.proto, r.port)

=============================================================================
