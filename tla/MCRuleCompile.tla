--------------------------- MODULE MCRuleCompile ----------------------------
(* IPv4 addresses of 3 bits, IPv6 addresses of 7, of which the lowest 8 are*)
(* the IPv4 addresses of a tree and the next 8 the IPv4-mapped ones; one   *)
(* database of each format, and configurations that use them or are wrong. *)
EXTENDS RuleCompile

Caps(id) == [id |-> id, caps |-> TRUE]

-----------------------------------------------------------------------------
(* Databases: "cn" has three networks of each family, "us" is inverted in  *)
(* the V2Ray file, "zz" has an address of a wrong length.                  *)

CIDR(bytes, ip, prefix) == [bytes |-> bytes, ip |-> ip, prefix |-> prefix]

GeoIPDat == [format |-> "dat", entries |-> <<
    [code |-> Caps("cn"), inverse |-> FALSE,
     cidrs |-> {CIDR(4, 7, 3), CIDR(4, 1, 2), CIDR(4, 4, 3),
                CIDR(16, 40, 5), CIDR(16, 64, 3), CIDR(16, 100, 7)}],
    [code |-> Word("us"), inverse |-> TRUE, cidrs |-> {CIDR(4, 5, 3), CIDR(16, 44, 5)}],
    [code |-> Word("zz"), inverse |-> FALSE, cidrs |-> {CIDR(5, 1, 3)}] >>]

Tree(format, version, nets6) == [format |-> format, version |-> version, aliased |-> version = 6, nets |-> nets6]

Node(ip, prefix, codes) == [ip |-> ip, prefix |-> prefix, codes |-> codes]

MMDB6 == Tree("mmdb", 6, {
    Node(0, 6, {Caps("cn")}), Node(4, 7, {Caps("cn")}), Node(5, 7, {Caps("us")}), Node(7, 7, {Caps("cn")}),
    Node(40, 5, {Caps("cn")}), Node(64, 3, {Caps("cn")}), Node(100, 7, {Caps("cn")})})

MetaNets4 == {Node(0, 2, {Word("cn")}), Node(4, 3, {Word("cn"), Caps("us")}), Node(7, 3, {Word("us")})}

MetaDB4 == Tree("metadb", 4, MetaNets4)
MetaDB6 == Tree("metadb", 6, {
    Node(0, 6, {Word("cn")}), Node(4, 7, {Word("cn"), Caps("us")}), Node(40, 5, {Word("cn")})})

Name(runes) == [runes |-> runes, spelling |-> "plain"]

D(type, value, attrs) == [type |-> type, value |-> value, attrs |-> attrs]

AB  == <<"a", ".", "b">>
XAB == <<"x", ".", "a", ".", "b">>
BA  == <<"b", "a">>

SiteDat == [format |-> "dat", entries |-> <<
    [code |-> Word("ads"), domains |-> {D("full", BA, {})}],
    [code |-> Word("web"),
     domains |-> {D("root", AB, {"ads", "old"}), D("full", <<"b">>, {"ads"}), D("full", BA, {}),
                  D("plain", <<"a", "c">>, {"ads"}), D("regex", {<<"c">>}, {"old"})}],
    [code |-> Caps("odd"), domains |-> {D("other", <<"a">>, {})}],
    [code |-> Word("bad"), domains |-> {D("regex", Nil, {})}] >>]

Item(type, value, size) == [type |-> type, value |-> value, size |-> size]

SiteDb(whole) == [format |-> "db",
    index |-> << [code |-> Caps("web"), index |-> 5, count |-> 3], [code |-> Word("ads"), index |-> 0, count |-> 1] >>,
    items |-> LET all == (0 :> Item("domain", <<"b">>, 5))
                         @@ (5 :> Item("suffix", <<".">> \o AB, 8))
                         @@ (13 :> Item("keyword", <<"a", "c">>, 6))
                         @@ (19 :> Item("domain", BA, 6))
              IN  IF whole THEN all ELSE [p \in DOMAIN all \ {19} |-> all[p]]]

NoFile == [format |-> "missing"]

Source(given, format, extension, file) ==
    [given |-> given, format |-> format, extension |-> extension, file |-> file]

NoLoader == Source(FALSE, "none", Word("none"), NoFile)
GeoIPs == {Source(TRUE, "none", Caps("dat"), GeoIPDat), Source(TRUE, "mmdb", Word("dat"), MMDB6),
           Source(TRUE, "none", Word("metadb"), MetaDB4)}
Sites  == {Source(TRUE, "none", Word("dat"), SiteDat), Source(TRUE, "db", Word("dat"), SiteDb(TRUE))}
Unusable == {NoLoader, Source(TRUE, "none", Word("txt"), NoFile), Source(TRUE, "none", Word("dat"), NoFile),
             Source(TRUE, "dat", Word("dat"), SiteDb(TRUE)), Source(TRUE, "none", Word("db"), SiteDb(FALSE))}

-----------------------------------------------------------------------------
(* Lines                                                                   *)

Addr(prefix, body, attrs, slash, ips) ==
    [prefix |-> prefix, body |-> body, attrs |-> attrs, slash |-> slash, nets |-> ips]

All           == Addr("all", Nil, {}, FALSE, {})
GeoIPOf(code) == Addr("geoip", code, {}, FALSE, {})
Site(code, attrs) == Addr("geosite", code, attrs, FALSE, {})
IPs(slash, ips)   == Addr("none", Word(<<>>), {}, slash, ips)
Host(runes)   == Addr("none", Word(runes), {}, FALSE, {})

Line(ob, addr, proto, ports, hijack) ==
    [kind |-> "rule", rule |->
        [outbound |-> Word(ob), addr |-> addr, protoPort |-> [proto |-> proto, ports |-> ports], hijack |-> hijack]]

Keep   == [given |-> FALSE, ip |-> Nil]
To(ip) == [given |-> TRUE, ip |-> ip]
Blank  == [kind |-> "blank"]
Bad    == [kind |-> "bad"]

IP4(n) == [bytes |-> 4, number |-> n]
IP6(n) == [bytes |-> 16, number |-> n]

GeoIPLines == {
    Line("proxy", GeoIPOf(Word("cn")), "both", <<>>, Keep),
    Line("reject", GeoIPOf(Caps("us")), "tcp", <<1, 2>>, Keep)}
SiteLines == {
    Line("proxy", Site(Word("web"), {}), "udp", <<2>>, To(IP4(3))),
    Line("reject", Site(Caps("web"), {"ads"}), "both", <<>>, Keep),
    Line("proxy", Site(Caps("web"), {"ads", "old"}), "both", <<>>, Keep)}
PlainLines == {
    Line("default", All, "tcp", <<2, 3>>, Keep),
    [Line("proxy", Addr("suffix", Caps(AB), {}, FALSE, {}), "both", <<>>, Keep) EXCEPT !.rule.outbound.caps = TRUE],
    Line("reject", IPs(TRUE, {IP4(2), IP4(3)}), "both", <<>>, Keep),
    Line("proxy", IPs(FALSE, {IP6(45)}), "udp", <<>>, Keep),
    Line("proxy", Host(<<"*", "b">>), "both", <<0>>, To(IP6(64)))}
WrongLines == {
    Line("nowhere", All, "both", <<>>, Keep),
    Line("proxy", GeoIPOf(Nil), "both", <<>>, Keep),
    Line("proxy", GeoIPOf(Word("xx")), "both", <<>>, Keep),
    Line("proxy", GeoIPOf(Word("zz")), "both", <<>>, Keep),
    Line("proxy", Site(Nil, {}), "both", <<>>, Keep),
    Line("proxy", Site(Word("odd"), {}), "both", <<>>, Keep),
    Line("proxy", Site(Word("bad"), {}), "both", <<>>, Keep),
    Line("proxy", Addr("suffix", Word(<<>>), {}, FALSE, {}), "both", <<>>, Keep),
    Line("proxy", IPs(TRUE, {}), "both", <<>>, Keep),
    Line("proxy", All, "other", <<>>, Keep),
    Line("proxy", All, "tcp", <<65536>>, Keep),
    Line("proxy", All, "tcp", <<-1>>, Keep),
    Line("proxy", All, "tcp", <<0, 65536>>, Keep),
    Line("proxy", All, "tcp", <<3, 2>>, Keep),
    Line("proxy", All, "both", <<>>, To(Nil))}

-----------------------------------------------------------------------------
(* Configurations                                                          *)

Entry(name, type, settings) == [name |-> name, type |-> type, settings |-> settings]

Proxy == Entry(Caps("proxy"), Word("socks5"), "good")
OutboundLists == {
    <<>>, <<Proxy>>,
    <<Proxy, Entry(Word("direct"), Caps("direct"), "good"), Entry(Word("default"), Word("reject"), "none")>>,
    <<Entry(Word("proxy"), Word("http"), "good"), Entry(Caps("reject"), Word("direct"), "none"), Proxy>>,
    <<Entry(Word("proxy"), Word("http"), "bad")>>, <<Proxy, Entry(Word("x"), Word("socks5"), "none")>>,
    <<Proxy, Entry(Word("x"), Word("direct"), "bad"), Entry(Nil, Word("direct"), "none")>>,
    <<Entry(Nil, Word("direct"), "good")>>, <<Proxy, Entry(Word("x"), Word("smtp"), "none")>> }

NoRules == [given |-> FALSE, readable |-> FALSE, lines |-> <<>>]

Config(outbounds, file, inline, geoip, geosite) ==
    [outbounds |-> outbounds, file |-> file, inline |-> inline, geoip |-> geoip, geosite |-> geosite]

File(lines) == [given |-> TRUE, readable |-> TRUE, lines |-> lines]

OnePlain == CHOOSE l \in PlainLines : l.rule.addr.prefix = "suffix"

\* Good texts, against every database; wrong ones in every place of a text.
MCConfigs ==
    {Config(<<Proxy>>, NoRules, <<g, s, p>>, geoip, site) :
        g \in GeoIPLines, s \in SiteLines, p \in PlainLines, geoip \in GeoIPs, site \in Sites}
    \cup {Config(obs, File(<<p, Blank, g>>), <<>>, geoip, NoLoader) :
        obs \in OutboundLists, p \in PlainLines, g \in GeoIPLines, geoip \in GeoIPs \cup Unusable}
    \cup {Config(obs, NoRules, <<Blank, s>>, NoLoader, site) :
        obs \in OutboundLists, s \in SiteLines, site \in Sites \cup Unusable}
    \cup {Config(<<Proxy>>, NoRules, text, geoip, site) :
        text \in UNION {{<<Blank, w>>, <<OnePlain, w, v>>, <<w, Bad>>} : w, v \in WrongLines},
        geoip \in GeoIPs, site \in Sites}
    \cup {Config(<<Proxy>>, file, <<OnePlain>>, NoLoader, NoLoader) :
        file \in {File(<<>>), [File(<<OnePlain>>) EXCEPT !.readable = FALSE]}}
    \cup {Config(<<>>, [File(<<Bad>>) EXCEPT !.readable = FALSE], <<>>, NoLoader, NoLoader)}

\* Against a MetaDB with both families.
MCMetaConfigs ==
    {Config(<<Proxy>>, NoRules, <<g>>, Source(TRUE, "none", Word("metadb"), MetaDB6), NoLoader) :
        g \in GeoIPLines}

Q(runes, v4, v6, proto, port) ==
    [host |-> [name |-> Name(runes),
               v4 |-> IF v4 = Nil THEN Nil ELSE Short(IP4(v4)), v6 |-> IF v6 = Nil THEN Nil ELSE Long(IP6(v6))],
     proto |-> proto, port |-> port]

\* Every IPv4 address, IPv6 addresses at the edges of the networks, and names.
MCQuestions ==
    {Q(<<>>, n, Nil, "tcp", 2) : n \in 0 .. 7}
    \cup {Q(<<>>, Nil, n, "udp", 1) : n \in {39, 40, 43, 44, 64, 79, 80, 99, 100, 101}}
    \cup {Q(BA, 6, 40, "tcp", 1), Q(XAB, 6, 48, "udp", 2), [Q(AB, 3, 45, "udp", 0) EXCEPT !.host.name.spelling = "upper"]}
    \cup {Q(runes, Nil, Nil, "udp", 2) : runes \in {AB, XAB, BA, <<"b">>, <<"c">>, <<"a", "c", "x">>, <<"x", "a">>}}

=============================================================================
