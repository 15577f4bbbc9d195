------------------------------ MODULE MCRouter ------------------------------
(* Two addresses of each family and two names; rules for one address, for  *)
(* one name and for one port.                                              *)
EXTENDS Router

CONSTANTS i4, j4, i6, j6

Name(runes) == [runes |-> runes, spelling |-> "plain"]
Domain(mode, runes) == [kind |-> "domain", mode |-> mode, pattern |-> Name(runes)]

Rule(ob, m, p, port, hijack) ==
    [outbound |-> ob, host |-> m, proto |-> p, hasPortFilter |-> port # 0,
     startPort |-> port, endPort |-> port, hijack |-> hijack]

MCRules == <<
    Rule("reject", [kind |-> "addr", nets |-> {i6}], "tcp", 0, Nil),
    Rule("proxy", Domain("suffix", <<"a">>), "udp", 53, Long(j4)),
    Rule("direct", Domain("suffix", <<"a">>), "tcp", 53, Long(j6)),
    Rule("direct", Domain("suffix", <<"b">>), "udp", 80, Long(i4)),
    Rule("proxy", [kind |-> "addr", nets |-> {j4}], "both", 0, Nil) >>

MCHosts == {Name(<<"a">>), Name(<<"b">>)}

=============================================================================
