------------------------------- MODULE Router -------------------------------
(***************************************************************************)
(* Router.DialTCP and DialUDP (pkg/router/router.go) with the outbounds'   *)
(* use of the address they are given: resolve the host, match the rules,   *)
(* rewrite a hijacked address, dial.  All of it happens in the caller's    *)
(* *Addr, which the caller may write datagrams to, and dial again.  Every  *)
(* lookup may be answered differently.                                     *)
(*                                                                         *)
(* The rule set is asked without its cache: RuleCache shows that nobody    *)
(* can tell.  Which of its addresses a direct outbound dials for TCP is    *)
(* DirectDial's subject; here it is any of them.  Its UDP socket is        *)
(* DirectUDP's.                                                            *)
(***************************************************************************)
EXTENDS RuleMatch, DirectUDP

CONSTANTS
    Hosts,      \* host names that are no IP addresses
    Ports,
    Default     \* the outbound for hosts without a rule

\* An address as a host: its text.
Literal(ip) == [runes |-> <<ip>>, spelling |-> "plain"]

ASSUME RouterAssumption ==
    /\ \A ip \in IPs : Literal(ip) \notin Hosts
    /\ DOMAIN Rules \subseteq Nat
    /\ \A i \in DOMAIN Rules :
          /\ Rules[i].outbound # Nil
          /\ Rules[i].hijack # Nil => Rules[i].hijack.addr \in IPs

VARIABLES
    addr,       \* the caller's Addr: host, port, and ResolveInfo as info, v4, v6
    proto,
    pc,
    route,      \* what the rules said: outbound and hijack address
    matched,    \* ghost: the host, protocol and port they were asked about
    answered,   \* ghost: the addresses this call's resolution came to
    contacted,  \* ghost: the addresses a direct outbound dialled
    asked       \* ghost: the host a proxy was asked for

routerVars == <<addr, proto, pc, route, matched, answered, contacted, asked>>
vars == <<routerVars, udpVars>>

Init ==
    /\ \E h \in Hosts \cup {Literal(ip) : ip \in IPs}, p \in Ports :
          addr = [host |-> h, port |-> p, info |-> NoInfo]
    /\ proto \in {"tcp", "udp"}
    /\ pc = "idle"
    /\ route = NoMatch
    /\ matched = Nil /\ answered = NoInfo
    /\ contacted = {} /\ asked = Nil
    /\ InitUDP

-----------------------------------------------------------------------------
\* DialTCP or DialUDP is called, with an Addr as new or as the last call left
\* it; a UDP connection of the last call is closed.
Call(p) ==
    /\ pc \in {"idle", "open"}
    /\ pc' = "resolve"
    /\ proto' = p
    /\ route' = NoMatch
    /\ matched' = Nil /\ answered' = NoInfo
    /\ contacted' = {} /\ asked' = Nil
    /\ CloseUDP
    /\ UNCHANGED addr

Resolved(info) ==
    /\ pc' = "match"
    /\ addr' = [addr EXCEPT !.info = info]
    /\ answered' = info
    /\ UNCHANGED <<proto, route, matched, contacted, asked, udpVars>>

\* resolve: an IP address as the host needs no lookup.
ResolveLiteral ==
    /\ pc = "resolve"
    /\ \E ip \in IPs : addr.host = Literal(ip) /\ Resolved(Parsed(ip))

\* Mutant: an Addr that was resolved before is not looked up again.
LookupOnce(info) ==
    /\ pc = "resolve"
    /\ addr.host \in Hosts
    /\ IF addr.info.known
       THEN /\ pc' = "match" /\ answered' = info
            /\ UNCHANGED <<addr, proto, route, matched, contacted, asked, udpVars>>
       ELSE Resolved(info)

\* Any other host is looked up, every time.
Lookup(info) ==
    /\ pc = "resolve"
    /\ addr.host \in Hosts
    /\ Resolved(info)

HostInfo == [name |-> addr.host, v4 |-> addr.info.v4, v6 |-> addr.info.v6]

Question == [host |-> HostInfo, proto |-> proto, port |-> addr.port]

\* Mutant: only the resolved address is rewritten, not the host.
HijackInfoOnly(ip) ==
    [addr EXCEPT !.info = IF ip.addr \in V4 THEN Info(Short(ip.addr), Nil) ELSE Info(Nil, ip)]

\* Both Host and ResolveInfo become the hijack address.
Hijack(ip) ==
    [addr EXCEPT !.host = Literal(ip.addr),
                 !.info = IF ip.addr \in V4 THEN Info(Short(ip.addr), Nil) ELSE Info(Nil, ip)]

\* match: the default outbound, or the first rule's, with its hijack address.
Match ==
    LET found == Answer(Question)
    IN  /\ pc = "match"
        /\ pc' = "dial"
        /\ matched' = Question
        /\ IF found.outbound = Nil
           THEN route' = [outbound |-> Default, hijack |-> Nil] /\ UNCHANGED addr
           ELSE /\ route' = found
                /\ addr' = IF found.hijack = Nil THEN addr ELSE Hijack(found.hijack)
        /\ UNCHANGED <<proto, answered, contacted, asked, udpVars>>

-----------------------------------------------------------------------------
(* The outbound dials                                                      *)

Returns == pc' = "idle" /\ UNCHANGED <<addr, proto, route, matched, answered, udpVars>>

\* Reject, a direct outbound without an address, one that gets no UDP socket,
\* or an HTTP proxy for UDP.
Refuse ==
    /\ pc = "dial"
    /\ \/ route.outbound = "reject"
       \/ route.outbound = "direct" /\ (proto = "udp" \/ Families(addr.info) = {})
       \/ route.outbound = "proxy" /\ proto = "udp"
    /\ Returns
    /\ UNCHANGED <<contacted, asked>>

\* Mutant: the direct outbound looks the host up for itself.
DirectLooksUp(some) ==
    /\ pc = "dial" /\ route.outbound = "direct" /\ proto = "tcp"
    /\ some # {}
    /\ \E info \in IF addr.host \in Hosts THEN Lookups ELSE {addr.info} :
          contacted' = {ip.addr : ip \in Families(info)}
    /\ Returns
    /\ UNCHANGED asked

\* The direct outbound takes the ResolveInfo it finds, and dials one address
\* or both.
DialDirect(some) ==
    /\ pc = "dial" /\ route.outbound = "direct" /\ proto = "tcp"
    /\ some # {}
    /\ Returns
    /\ contacted' = {ip.addr : ip \in some}
    /\ UNCHANGED asked

\* A direct UDP connection is a socket of its own: nobody is contacted yet.
ListenUDP ==
    /\ pc = "dial" /\ route.outbound = "direct" /\ proto = "udp"
    /\ pc' = "open"
    /\ Listen(addr.info)
    /\ UNCHANGED <<addr, proto, route, matched, answered, contacted, asked>>

\* A SOCKS5 or HTTP proxy is asked for the host, and resolves it itself.
DialProxy ==
    /\ pc = "dial" /\ route.outbound = "proxy"
    /\ pc' = IF proto = "tcp" THEN "idle" ELSE "open"
    /\ asked' = addr.host
    /\ UNCHANGED <<addr, proto, route, matched, answered, contacted, udpVars>>

\* WriteTo on the UDP connection with the Addr that was dialled, ...
WriteDirect ==
    /\ pc = "open" /\ route.outbound = "direct"
    /\ WriteTo(addr.info)
    /\ contacted' = contacted \cup {Target(addr.info).addr}
    /\ UNCHANGED <<addr, proto, pc, route, matched, answered, asked>>

\* ... or through the proxy to its host.
WriteProxy ==
    /\ pc = "open" /\ route.outbound = "proxy"
    /\ asked' = addr.host
    /\ UNCHANGED <<addr, proto, pc, route, matched, answered, contacted, udpVars>>

\* The direct connection serves other addresses too, which the rules are not
\* asked about: a new Addr, looked up by WriteTo; what arrives, and answers.
Exchange ==
    /\ pc = "open" /\ route.outbound = "direct"
    /\ \/ \E info \in Lookups : WriteTo(info)
       \/ \E ip \in IPs : ReadFrom(ip)
       \/ Reply
    /\ UNCHANGED routerVars

Next ==
    \/ \E p \in {"tcp", "udp"} : Call(p)
    \/ ResolveLiteral
    \/ \E info \in Lookups : Lookup(info)
    \/ Match
    \/ Refuse \/ ListenUDP \/ DialProxy
    \/ \E some \in SUBSET Families(addr.info) : DialDirect(some)
    \/ WriteDirect \/ WriteProxy \/ Exchange

Spec == Init /\ [][Next]_vars

-----------------------------------------------------------------------------
(* Properties                                                              *)

\* The first rule for what was asked; the default outbound hijacks nothing.
Wanted == IF Answer(matched).outbound = Nil THEN NoMatch ELSE Answer(matched)

\* Whatever DNS answers in between, the address a direct outbound dials is one
\* that the rules were asked about, or the hijack address of the rule.
DialledWasMatched ==
    \A ip \in contacted :
        IF Wanted.hijack # Nil THEN ip = Wanted.hijack.addr
        ELSE ip \in {Canonical(matched.host.v4), Canonical(matched.host.v6)}

\* "Redirect matched traffic to different IPs" (README.md:10): a proxy is
\* asked for the hijack address too, and for nothing else.
HijackReachesProxy ==
    asked # Nil =>
        asked = IF Wanted.hijack # Nil THEN Literal(Wanted.hijack.addr) ELSE matched.host.name

\* The rules see this call's lookup, also when the Addr was dialled before
\* and DNS has changed.
MatchedIsFresh ==
    matched # Nil => matched.host.v4 = answered.v4 /\ matched.host.v6 = answered.v6

-----------------------------------------------------------------------------
(* The inductive invariant behind them                                     *)

\* From the match on, the Addr holds what was matched or the hijack address.
Routed ==
    pc \in {"dial", "open"} =>
        IF Wanted.hijack = Nil
        THEN /\ addr.host = matched.host.name
             /\ addr.info.v4 = matched.host.v4 /\ addr.info.v6 = matched.host.v6
        ELSE /\ addr.host = Literal(Wanted.hijack.addr)
             /\ \A ip \in Families(addr.info) : ip.addr = Wanted.hijack.addr

\* What resolve has just put into the Addr.
Looked == pc = "match" => addr.info = answered

\* Nothing is dialled before the match, and without one.
Quiet ==
    /\ pc \in {"resolve", "match", "dial"} => contacted = {} /\ asked = Nil
    /\ pc \in {"resolve", "match"} => matched = Nil

\* The Addr holds IPs, and the socket is there exactly while it is needed.
Sound ==
    /\ DOMAIN addr = {"host", "port", "info"}
    /\ InfoOK(addr.info)
    /\ pc # "open" => sock = Closed
    /\ pc = "open" /\ route.outbound = "direct" => sock.family # "none"

\* The Addr carries what the rules decided about, from resolve to dial.
Carried ==
    /\ Routed /\ Looked /\ Quiet
    /\ DialledWasMatched /\ HijackReachesProxy /\ MatchedIsFresh

Inv == Sound /\ UDPInv /\ Carried

=============================================================================
