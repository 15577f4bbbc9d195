---------------------------- MODULE MCRuleCache -----------------------------
(* A rule set where a wrong key, a stale entry or an unlowered name gives  *)
(* another answer, and requests that differ in one field each.             *)
EXTENDS RuleCache

CONSTANTS i4, i6, h4         \* two addresses, and one to hijack to

Name(runes, spelling) == [runes |-> runes, spelling |-> spelling]

Domain(mode, runes) ==
    [kind |-> "domain", mode |-> mode, pattern |-> Name(runes, "plain")]

Rule(ob, m, proto, ports, hijack) ==
    [outbound |-> ob, host |-> m, proto |-> proto, hasPortFilter |-> ports # {},
     startPort |-> IF ports = {} THEN 0 ELSE CHOOSE p \in ports : \A q \in ports : p <= q,
     endPort   |-> IF ports = {} THEN 0 ELSE CHOOSE p \in ports : \A q \in ports : p >= q,
     hijack |-> hijack]

MCRules == <<
    Rule("reject", Domain("suffix", <<"a", ".", "c">>), "udp", {443}, Nil),
    Rule("dns", Domain("wildcard", <<"*", ".", "c">>), "both", {0, 53}, h4),
    Rule("proxy", [kind |-> "addr", nets |-> {i6}], "both", {}, Nil),
    Rule("direct", [kind |-> "geoip", nets |-> {i4}, inverse |-> FALSE], "tcp", {}, Nil) >>

Req(name, v4, v6, proto, port) ==
    [host |-> [name |-> name, v4 |-> v4, v6 |-> v6], proto |-> proto, port |-> port]

A  == Name(<<"a", ".", "c">>, "plain")
AU == Name(<<"a", ".", "c">>, "upper")
WA == Name(<<"w", ".", "a">>, "ace")

MCRequests == {
    Req(AU, Short(i4), Nil, "udp", 53), Req(A, Long(i4), Nil, "udp", 53),
    Req(A, Short(i4), Nil, "udp", 443),
    Req(WA, Nil, Nil, "udp", 53), Req(WA, Nil, Long(i6), "udp", 53) }

=============================================================================
