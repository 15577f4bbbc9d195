---------------------------- MODULE RouterProofs ----------------------------
(***************************************************************************)
(* The router's promises for every rule set, every host and every sequence *)
(* of DNS answers, with those of its direct UDP sockets for every mode,    *)
(* bind address, device and peer.                                          *)
(***************************************************************************)
EXTENDS Router, TLAPS, WellFoundedInduction

-----------------------------------------------------------------------------
(* What every step of a direct UDP socket preserves                        *)

\* What an IP's text is resolved to: the IP, in its own family.
LEMMA ParsedIs ==
    ASSUME NEW ip \in IPs
    PROVE  /\ FamilyOf(ip) = "v4" => Parsed(ip).v4.addr = ip /\ Parsed(ip).v4 # Nil /\ Parsed(ip).v6 = Nil
           /\ FamilyOf(ip) = "v6" => Parsed(ip).v6.addr = ip /\ Parsed(ip).v6 # Nil /\ Parsed(ip).v4 = Nil
           /\ Parsed(ip).known
<1>1. Nil \notin {ip, Long(ip), Short(ip)} /\ Long(ip).addr = ip
  BY DirectUDPAssumption DEF Long
<1>2. CASE ip \in V4
  BY <1>1, <1>2 DEF Parsed, Info, FamilyOf
<1>3. CASE ip \notin V4
  BY <1>1, <1>3 DEF Parsed, Info, FamilyOf
<1>4. QED
  BY <1>2, <1>3

LEMMA ParsedOK == ASSUME NEW ip \in IPs PROVE InfoOK(Parsed(ip))
<1>1. FamilyOf(ip) \in {"v4", "v6"}
  BY DEF FamilyOf
<1>2. CASE FamilyOf(ip) = "v4"
  BY <1>2, ParsedIs DEF InfoOK
<1>3. CASE FamilyOf(ip) = "v6"
  BY <1>3, ParsedIs DEF InfoOK
<1>4. QED
  BY <1>1, <1>2, <1>3

\* What a lookup comes to: an IP of each family at most.
LEMMA LookupOK == ASSUME NEW info \in Lookups PROVE InfoOK(info)
<1>1. PICK ips \in {<<>>} \cup (IPs \X IPs) : info = Split(ips)
  BY DEF Lookups
<1>2. \A i \in DOMAIN ips : ips[i] \in IPs
  BY <1>1
<1>3. ASSUME NEW family, family \subseteq IPs, FirstIn(ips, family) # Nil
      PROVE  FirstIn(ips, family).addr \in family
  <2> DEFINE at == {i \in DOMAIN ips : ips[i] \in family}
  <2>1. at # {}
    BY <1>3 DEF FirstIn
  <2>2. \E i \in at : \A j \in at : i <= j
    <3>1. DOMAIN ips \subseteq 1..2 /\ at \subseteq DOMAIN ips
      BY <1>1
    <3>2. QED
      BY <2>1, <3>1
  <2>3. (CHOOSE i \in at : \A j \in at : i <= j) \in at
    BY <2>2
  <2>4. QED
    BY <2>1, <2>3 DEF FirstIn, Short
<1>4. info.v4 # Nil => info.v4.addr \in V4
  BY <1>1, <1>3 DEF Split, Info, IPs
<1>5. info.v6 # Nil => info.v6.addr \in V6
  BY <1>1, <1>3 DEF Split, Info, IPs, Long
<1>6. QED
  BY <1>4, <1>5, DirectUDPAssumption DEF InfoOK, FamilyOf, IPs

\* Whatever an address is resolved to, an IP that is written to can be
\* written to by itself, and its datagram leaves as configured.
LEMMA TargetReached ==
    ASSUME UDPInv, NEW info, InfoOK(info), sock.family # "none", Target(info) # Nil
    PROVE  LET ip == Target(info).addr
           IN  /\ ip \in IPs
               /\ Reached(ip)
               /\ FamilyOf(ip) = Second => FallsBack
               /\ sock.source = direct.bind[FamilyOf(ip)]
               /\ sock.device = direct.device
<1> DEFINE ip == Target(info).addr
<1>0. /\ First \in {"v4", "v6"} /\ Second \in {"v4", "v6"} /\ First # Second
      /\ direct.device # Nil => direct.bind.v4 = Nil /\ direct.bind.v6 = Nil
      /\ sock.family \in {"dual", "v4", "v6"} /\ SockOK
  BY DEF First, Second, UDPInv, SockOK, Buildable
<1>1. CASE sock.family = "dual"
  <2>1. PICK f \in {"v4", "v6"} : f = Pick(info) /\ Target(info) = info[f]
    BY <1>0, <1>1 DEF Target, Pick
  <2>2. ip \in IPs /\ FamilyOf(ip) = f /\ (f = Second => FallsBack)
    BY <1>0, <2>1 DEF InfoOK, Pick
  <2>3. Pick(Parsed(ip)) = f /\ Parsed(ip)[f] # Nil
    BY <1>0, <2>1, <2>2, ParsedIs DEF Pick
  <2>4. Reached(ip)
    BY <1>1, <2>1, <2>3 DEF Reached, Target
  <2>5. QED
    BY <1>0, <1>1, <2>1, <2>2, <2>4 DEF SockOK, Unbound
<1>2. CASE sock.family \in {"v4", "v6"}
  <2>1. Target(info) = info[sock.family]
    BY <1>2 DEF Target
  <2>2. ip \in IPs /\ FamilyOf(ip) = sock.family
    BY <1>2, <2>1 DEF InfoOK
  <2>3. Reached(ip)
    BY <1>2, <2>2, ParsedIs DEF Reached, Target
  <2>4. QED
    BY <1>0, <1>2, <2>2, <2>3 DEF SockOK, Unbound
<1>3. QED
  BY <1>0, <1>1, <1>2

LEMMA InitUDPInv == ASSUME InitUDP PROVE UDPInv
BY DEF InitUDP, UDPInv, SockOK, Closed, LeavesAsConfigured

LEMMA CloseUDPInv == ASSUME UDPInv, CloseUDP PROVE UDPInv'
<1>1. /\ direct' = direct /\ sock' = Closed
      /\ heard' = Nil /\ sent' = {} /\ lost' = {}
  BY DEF CloseUDP
<1>2. SockOK'
  BY <1>1 DEF SockOK, Closed
<1>3. QED
  BY <1>1, <1>2 DEF UDPInv, Buildable, LeavesAsConfigured

LEMMA UDPKept == ASSUME UDPInv, UNCHANGED udpVars PROVE UDPInv'
<1>1. First' = First /\ Second' = Second /\ FallsBack' = FallsBack /\ Unbound' = Unbound
  BY DEF udpVars, First, Second, FallsBack, Unbound
<1>2. \A ip : Reached(ip)' = Reached(ip)
  BY <1>1 DEF udpVars, Reached, Target, Pick, Parsed
<1>3. QED
  BY <1>1, <1>2 DEF udpVars, UDPInv, SockOK, LeavesAsConfigured

\* A socket is opened where none was.
LEMMA ListenInv ==
    ASSUME UDPInv, sock = Closed, NEW info, InfoOK(info), Listen(info)
    PROVE  UDPInv'
<1>1. direct' = direct /\ heard' = Nil /\ sent' = {} /\ lost' = {}
  BY DEF Listen, UDPInv, SockOK, Closed
<1>2. First' = First /\ Second' = Second /\ FallsBack' = FallsBack /\ Unbound' = Unbound
  BY <1>1 DEF First, Second, FallsBack, Unbound
<1>3. SockOK'
  <2>1. CASE Unbound /\ sock' = [family |-> "dual", source |-> Nil, device |-> direct.device]
    BY <1>1, <1>2, <2>1 DEF SockOK
  <2>2. CASE /\ ~Unbound /\ Pick(info) # "none"
             /\ sock' = [family |-> Pick(info), source |-> direct.bind[Pick(info)], device |-> Nil]
    <3>1. Pick(info) \in {"v4", "v6"} /\ (Pick(info) = Second => FallsBack)
      BY <2>2 DEF Pick, First, Second
    <3>2. QED
      BY <1>1, <1>2, <2>2, <3>1 DEF SockOK
  <2>3. QED
    BY <2>1, <2>2 DEF Listen
<1>4. QED
  BY <1>1, <1>3 DEF UDPInv, Buildable, LeavesAsConfigured

\* What stays as it was while settings and socket do.
LEMMA Kept ==
    ASSUME UDPInv, UNCHANGED <<direct, sock>>
    PROVE  /\ Buildable(direct') /\ direct' \in Settings
           /\ \A ip : Reached(ip)' = Reached(ip)
           /\ First' = First /\ Second' = Second /\ FallsBack' = FallsBack
<1>1. First' = First /\ Second' = Second /\ FallsBack' = FallsBack
  BY DEF First, Second, FallsBack
<1>2. \A ip : Reached(ip)' = Reached(ip)
  BY <1>1 DEF Reached, Target, Pick, Parsed
<1>3. QED
  BY <1>1, <1>2 DEF UDPInv

LEMMA SockKept ==
    ASSUME UDPInv, UNCHANGED <<direct, sock>>, sock.family # "none"
    PROVE  SockOK'
BY Kept DEF UDPInv, SockOK, Unbound

\* A datagram is sent.
LEMMA SendInv ==
    ASSUME UDPInv, UNCHANGED <<direct, sock>>, sock.family # "none",
           NEW info, InfoOK(info), Target(info) # Nil, sent' = sent \cup {Datagram(info)}
    PROVE  /\ \A d \in sent' : d.to \in IPs /\ Reached(d.to)'
           /\ LeavesAsConfigured'
<1>1. \A d \in sent' : d.to \in IPs /\ Reached(d.to)'
  <2>1. ASSUME NEW d \in sent' PROVE d.to \in IPs /\ Reached(d.to)
    <3>1. CASE d \in sent
      BY <3>1 DEF UDPInv
    <3>2. CASE d = Datagram(info)
      BY <3>2, TargetReached DEF Datagram
    <3>3. QED
      BY <3>1, <3>2
  <2>2. QED
    BY <2>1, Kept
<1>2. LeavesAsConfigured'
  <2>1. SUFFICES ASSUME NEW d \in sent'
                 PROVE  /\ FamilyOf(d.to) = Second => FallsBack
                        /\ d.source = direct.bind[FamilyOf(d.to)]
                        /\ d.device = direct.device
    BY Kept DEF LeavesAsConfigured
  <2>2. CASE d \in sent
    BY <2>2 DEF UDPInv, LeavesAsConfigured
  <2>3. CASE d = Datagram(info)
    BY <2>3, TargetReached DEF Datagram
  <2>4. QED
    BY <2>2, <2>3
<1>3. QED
  BY <1>1, <1>2

LEMMA WriteToInv ==
    ASSUME UDPInv, sock.family # "none", NEW info, InfoOK(info), WriteTo(info)
    PROVE  UDPInv'
<1>1. UNCHANGED <<direct, sock, heard, lost>> /\ Target(info) # Nil /\ sent' = sent \cup {Datagram(info)}
  BY DEF WriteTo
<1>2. QED
  BY <1>1, Kept, SockKept, SendInv DEF UDPInv

LEMMA ReadFromInv ==
    ASSUME UDPInv, NEW ip \in IPs, sock.family # "none", ReadFrom(ip)
    PROVE  UDPInv'
<1>1. UNCHANGED <<direct, sock, sent, lost>> /\ heard' = Returned(ip)
  BY DEF ReadFrom
<1>2. LeavesAsConfigured'
  BY <1>1, Kept DEF UDPInv, LeavesAsConfigured
<1>3. heard'.host \in IPs /\ heard'.info \in {NoInfo, Parsed(heard'.host)}
  BY <1>1 DEF Returned
<1>4. QED
  BY <1>1, <1>2, <1>3, Kept, SockKept DEF UDPInv

\* The Addr that ReadFrom returned is resolved to the sender, be it now or
\* before: the answer is refused exactly when the sender is out of reach.
LEMMA ReplyInv == ASSUME UDPInv, sock.family # "none", Reply PROVE UDPInv'
<1> DEFINE info == IF heard.info.known THEN heard.info ELSE Parsed(heard.host)
<1>1. /\ heard # Nil /\ UNCHANGED <<direct, sock>>
      /\ heard' = [heard EXCEPT !.info = info]
      /\ IF Target(info) = Nil
         THEN lost' = lost \cup {heard.host} /\ UNCHANGED sent
         ELSE sent' = sent \cup {Datagram(info)} /\ UNCHANGED lost
  BY DEF Reply
<1>2. heard.host \in IPs /\ info = Parsed(heard.host) /\ InfoOK(info)
  BY <1>1, ParsedOK DEF UDPInv, NoInfo
<1>3. heard' # Nil => heard'.host \in IPs /\ heard'.info \in {NoInfo, Parsed(heard'.host)}
  BY <1>1, <1>2 DEF UDPInv, Returned
<1>4. CASE Target(info) = Nil
  <2>1. ~Reached(heard.host) /\ lost' = lost \cup {heard.host} /\ sent' = sent
    BY <1>1, <1>2, <1>4 DEF Reached
  <2>2. LeavesAsConfigured'
    BY <1>1, <2>1, Kept DEF UDPInv, LeavesAsConfigured
  <2>3. QED
    BY <1>1, <1>3, <2>1, <2>2, Kept, SockKept DEF UDPInv
<1>5. CASE Target(info) # Nil
  <2>1. sent' = sent \cup {Datagram(info)} /\ lost' = lost
    BY <1>1, <1>5
  <2>2. QED
    BY <1>1, <1>2, <1>3, <1>5, <2>1, Kept, SockKept, SendInv DEF UDPInv
<1>6. QED
  BY <1>4, <1>5

\* Who is out of reach was never sent a datagram.
LEMMA UDPInvImplies == ASSUME UDPInv PROVE LeavesAsConfigured /\ RepliesReach
BY DEF UDPInv, RepliesReach

-----------------------------------------------------------------------------
(* The router                                                              *)

LEMMA InitCarried == ASSUME Init PROVE Carried
<1>1. pc = "idle" /\ matched = Nil /\ contacted = {} /\ asked = Nil
  BY DEF Init
<1>2. QED
  BY <1>1 DEF Carried, Routed, Looked, Quiet, MatchedIsFresh, DialledWasMatched,
     HijackReachesProxy

LEMMA CallCarried == ASSUME NEW p, Call(p) PROVE Carried'
<1>1. pc' = "resolve" /\ matched' = Nil /\ contacted' = {} /\ asked' = Nil
  BY DEF Call
<1>2. QED
  BY <1>1 DEF Carried, Routed, Looked, Quiet, MatchedIsFresh, DialledWasMatched,
     HijackReachesProxy

\* The address is looked up, or parsed, afresh.
LEMMA ResolveCarried ==
    ASSUME Inv, ResolveLiteral \/ \E info \in Lookups : Lookup(info)
    PROVE  Carried'
<1>1. PICK info : pc = "resolve" /\ Resolved(info)
  BY DEF ResolveLiteral, Lookup
<1>2. addr'.info = info /\ answered' = info
  BY <1>1 DEF Resolved, Inv, Sound
<1>3. pc' = "match" /\ matched' = Nil /\ contacted' = {} /\ asked' = Nil
  BY <1>1 DEF Resolved, Inv, Carried, Quiet
<1>4. QED
  BY <1>2, <1>3 DEF Carried, Routed, Looked, Quiet, MatchedIsFresh, DialledWasMatched,
     HijackReachesProxy

\* The rules are asked about what was resolved, and the Addr is left as it is
\* or becomes the hijack address.
LEMMA MatchCarried == ASSUME Inv, Match PROVE Carried'
<1>1. matched' = Question /\ pc' = "dial" /\ contacted' = {} /\ asked' = Nil
  BY DEF Match, Inv, Carried, Quiet
<1>2. MatchedIsFresh'
  <2>1. addr.info = answered /\ answered' = answered
    BY DEF Match, Inv, Carried, Looked
  <2>2. QED
    BY <1>1, <2>1 DEF MatchedIsFresh, Question, HostInfo
<1>3. Routed'
  <2> DEFINE found == Answer(Question)
             wanted == IF found.outbound = Nil THEN NoMatch ELSE found
  <2>1. Wanted' = wanted
    BY <1>1 DEF Wanted
  <2>2. wanted.hijack = Nil => addr' = addr
    BY DEF Match, NoMatch
  <2>3. wanted.hijack # Nil => addr' = Hijack(wanted.hijack)
    BY DEF Match, NoMatch
  <2> HIDE DEF wanted
  <2>4. CASE wanted.hijack = Nil
    BY <1>1, <2>1, <2>2, <2>4 DEF Routed, Question, HostInfo
  <2>5. CASE wanted.hijack # Nil
    <3> DEFINE ip == wanted.hijack
    <3>1. addr'.host = Literal(ip.addr)
      BY <2>3, <2>5 DEF Hijack, Inv, Sound
    <3>2. addr'.info = IF ip.addr \in V4 THEN Info(Short(ip.addr), Nil) ELSE Info(Nil, ip)
      BY <2>3, <2>5 DEF Hijack, Inv, Sound
    <3>3. \A a \in Families(addr'.info) : a.addr = ip.addr
      BY <3>2 DEF Families, Info, Short
    <3>4. QED
      BY <1>1, <2>1, <2>5, <3>1, <3>3 DEF Routed, Families
  <2>6. QED
    BY <2>4, <2>5
<1>4. QED
  BY <1>1, <1>2, <1>3 DEF Carried, Looked, Quiet, DialledWasMatched, HijackReachesProxy

\* What may be contacted or asked once the match is over.
LEMMA AddrIsRouted ==
    ASSUME Inv, pc \in {"dial", "open"}
    PROVE  /\ \A ip \in Families(addr.info) :
                  IF Wanted.hijack # Nil THEN ip.addr = Wanted.hijack.addr
                  ELSE ip.addr \in {Canonical(matched.host.v4), Canonical(matched.host.v6)}
           /\ addr.host = IF Wanted.hijack # Nil THEN Literal(Wanted.hijack.addr)
                                                 ELSE matched.host.name
<1>1. CASE Wanted.hijack = Nil
  <2>1. addr.host = matched.host.name
    BY <1>1 DEF Inv, Carried, Routed
  <2>2. addr.info.v4 = matched.host.v4 /\ addr.info.v6 = matched.host.v6
    BY <1>1 DEF Inv, Carried, Routed
  <2>3. ASSUME NEW ip \in Families(addr.info)
        PROVE  ip.addr \in {Canonical(matched.host.v4), Canonical(matched.host.v6)}
    BY <2>2 DEF Families, Canonical
  <2>4. QED
    BY <1>1, <2>1, <2>3
<1>2. CASE Wanted.hijack # Nil
  BY <1>2 DEF Inv, Carried, Routed
<1>3. QED
  BY <1>1, <1>2

\* After the match nothing is routed anew, whatever the outbound does.
LEMMA OutboundCarried ==
    ASSUME Inv, pc \in {"dial", "open"}, pc' \in {"idle", "open"},
           UNCHANGED <<addr, proto, route, matched, answered>>,
           contacted' \subseteq contacted \cup {ip.addr : ip \in Families(addr.info)},
           asked' \in {asked, addr.host}
    PROVE  Carried'
<1>1. Wanted' = Wanted
  BY DEF Wanted
<1>2. DialledWasMatched'
  BY <1>1, AddrIsRouted DEF DialledWasMatched, Inv, Carried
<1>3. HijackReachesProxy'
  BY <1>1, AddrIsRouted DEF HijackReachesProxy, Inv, Carried
<1>4. Routed'
  BY <1>1 DEF Routed, Inv, Carried, Families
<1>5. QED
  BY <1>2, <1>3, <1>4 DEF Inv, Carried, Looked, Quiet, MatchedIsFresh

\* A datagram to the Addr that was dialled goes to one of its addresses.
LEMMA WriteDirectTarget ==
    ASSUME Inv, WriteDirect
    PROVE  Target(addr.info) \in Families(addr.info)
<1>1. Target(addr.info) # Nil /\ sock.family \in {"dual", "v4", "v6"}
  BY DEF WriteDirect, WriteTo, Inv, Sound, UDPInv, SockOK
<1>2. Target(addr.info) \in {addr.info.v4, addr.info.v6}
  BY <1>1 DEF Target, Pick, First, Second
<1>3. QED
  BY <1>1, <1>2 DEF Families

LEMMA NextCarried == ASSUME Inv, [Next]_vars PROVE Carried'
<1>1. ASSUME NEW p, Call(p) PROVE Carried'
  BY <1>1, CallCarried
<1>2. CASE ResolveLiteral \/ \E info \in Lookups : Lookup(info)
  BY <1>2, ResolveCarried
<1>3. CASE Match
  BY <1>3, MatchCarried
<1>4. CASE Refuse
  BY <1>4, OutboundCarried DEF Refuse, Returns
<1>5. CASE ListenUDP
  BY <1>5, OutboundCarried DEF ListenUDP
<1>6. CASE DialProxy
  BY <1>6, OutboundCarried DEF DialProxy
<1>7. ASSUME NEW some \in SUBSET Families(addr.info), DialDirect(some) PROVE Carried'
  BY <1>7, OutboundCarried DEF DialDirect, Returns
<1>8. CASE WriteDirect
  BY <1>8, WriteDirectTarget, OutboundCarried DEF WriteDirect
<1>9. CASE WriteProxy
  BY <1>9, OutboundCarried DEF WriteProxy
<1>10. CASE Exchange
  BY <1>10, OutboundCarried DEF Exchange, routerVars
<1>11. CASE UNCHANGED vars
  <2>1. Wanted' = Wanted
    BY <1>11 DEF vars, routerVars, Wanted
  <2>2. QED
    BY <1>11, <2>1 DEF vars, routerVars, Inv, Carried, Routed, Looked, Quiet,
       DialledWasMatched, HijackReachesProxy, MatchedIsFresh, Families
<1>12. QED
  BY <1>1, <1>2, <1>3, <1>4, <1>5, <1>6, <1>7, <1>8, <1>9, <1>10, <1>11 DEF Next

-----------------------------------------------------------------------------
(* The Addr holds IPs, and the socket keeps its promises                   *)

\* A non-empty set of numbers has a least one: the first match is a match.
LEMMA Least ==
    ASSUME NEW S, S \subseteq Nat, S # {}
    PROVE  \E i \in S : \A j \in S : i <= j
<1>1. PICK i \in S : \A j \in S : ~ (<<j, i>> \in OpToRel(<, Nat))
  BY WFMin, NatLessThanWellFounded
<1>2. \A j \in S : ~ (j < i)
  BY <1>1 DEF OpToRel
<1>3. QED
  BY <1>2

\* A hijack address is an IP, and is put where its family belongs.
LEMMA HijackIsIP ==
    ASSUME Inv, Answer(Question).hijack # Nil
    PROVE  InfoOK(Hijack(Answer(Question).hijack).info)
<1> DEFINE asked_ == [Question.host EXCEPT !.name = ToLower(@)]
           hits == {i \in DOMAIN Rules : RuleMatches(Rules[i], asked_, Question.proto, Question.port)}
           first == CHOOSE i \in hits : \A j \in hits : i <= j
           ip == Answer(Question).hijack
<1>1. hits # {} /\ ip = Rules[first].hijack
  BY DEF Answer, FirstMatch, NoMatch
<1>2. first \in DOMAIN Rules
  <2>1. hits \subseteq DOMAIN Rules /\ hits \subseteq Nat
    BY RouterAssumption
  <2> HIDE DEF hits
  <2>2. \E i \in hits : \A j \in hits : i <= j
    BY <1>1, <2>1, Least
  <2>3. QED
    BY <2>1, <2>2
<1>3. ip # Nil /\ ip.addr \in IPs
  BY <1>1, <1>2, RouterAssumption
<1>4. Hijack(ip).info = IF ip.addr \in V4 THEN Info(Short(ip.addr), Nil) ELSE Info(Nil, ip)
  BY DEF Hijack, Inv, Sound
<1> HIDE DEF ip
<1>5. Short(ip.addr).addr = ip.addr
  BY DEF Short
<1>6. InfoOK(Hijack(ip).info)
  BY <1>3, <1>4, <1>5 DEF InfoOK, Info, FamilyOf
<1>7. QED
  BY <1>6 DEF ip

LEMMA InitSound == ASSUME Init PROVE Sound /\ UDPInv
<1>1. UDPInv
  BY InitUDPInv DEF Init
<1>2. DOMAIN addr = {"host", "port", "info"} /\ addr.info = NoInfo /\ sock = Closed /\ pc = "idle"
  BY DEF Init, InitUDP
<1>3. QED
  BY <1>1, <1>2 DEF Sound, InfoOK, NoInfo

LEMMA MatchSound == ASSUME Inv, Match PROVE Sound'
<1> DEFINE found == Answer(Question)
<1>1. pc' = "dial" /\ pc = "match" /\ sock' = sock
  BY DEF Match, udpVars
<1>2. addr' = addr \/ (found.hijack # Nil /\ addr' = Hijack(found.hijack))
  BY DEF Match
<1>3. CASE addr' = addr
  BY <1>1, <1>3 DEF Inv, Sound, InfoOK
<1>4. CASE found.hijack # Nil /\ addr' = Hijack(found.hijack)
  <2>1. InfoOK(addr'.info)
    BY <1>4, HijackIsIP
  <2>2. DOMAIN addr' = {"host", "port", "info"}
    BY <1>4 DEF Hijack, Inv, Sound
  <2>3. QED
    BY <1>1, <2>1, <2>2 DEF Inv, Sound, InfoOK
<1>5. QED
  BY <1>2, <1>3, <1>4

LEMMA ListenSound == ASSUME Inv, ListenUDP PROVE Sound' /\ UDPInv'
<1>1. pc = "dial" /\ pc' = "open" /\ addr' = addr /\ sock = Closed /\ Listen(addr.info)
  BY DEF ListenUDP, Inv, Sound
<1>2. UDPInv'
  BY <1>1, ListenInv DEF Inv, Sound
<1>3. sock'.family # "none"
  BY <1>1 DEF Listen
<1>4. QED
  BY <1>1, <1>2, <1>3 DEF Inv, Sound, InfoOK

\* The socket changes only while it is open, and stays open.
LEMMA OpenSound ==
    ASSUME Inv, pc = "open", pc' = "open", route' = route, addr' = addr,
           sock' = sock \/ sock'.family # "none"
    PROVE  Sound'
BY DEF Inv, Sound, InfoOK

LEMMA ExchangeSound == ASSUME Inv, Exchange PROVE Sound' /\ UDPInv'
<1>1. UDPInv /\ pc = "open" /\ sock.family # "none" /\ UNCHANGED routerVars
  BY DEF Exchange, Inv, Sound
<1>2. sock' = sock
  BY DEF Exchange, WriteTo, ReadFrom, Reply
<1>3. UDPInv'
  <2>1. ASSUME NEW info \in Lookups, WriteTo(info) PROVE UDPInv'
    BY <1>1, <2>1, LookupOK, WriteToInv
  <2>2. ASSUME NEW ip \in IPs, ReadFrom(ip) PROVE UDPInv'
    BY <1>1, <2>2, ReadFromInv
  <2>3. CASE Reply
    BY <1>1, <2>3, ReplyInv
  <2>4. QED
    BY <2>1, <2>2, <2>3 DEF Exchange
<1>4. QED
  BY <1>1, <1>2, <1>3, OpenSound DEF routerVars

LEMMA NextSound == ASSUME Inv, [Next]_vars PROVE Sound' /\ UDPInv'
<1> USE DEF Inv
<1>1. ASSUME NEW p, Call(p) PROVE Sound' /\ UDPInv'
  BY <1>1, CloseUDPInv DEF Call, CloseUDP, Sound, InfoOK
<1>2. ASSUME NEW info, InfoOK(info), pc = "resolve", Resolved(info) PROVE Sound' /\ UDPInv'
  BY <1>2, UDPKept DEF Resolved, Sound, InfoOK, udpVars
<1>3. CASE ResolveLiteral \/ \E info \in Lookups : Lookup(info)
  BY <1>2, <1>3, ParsedOK, LookupOK DEF ResolveLiteral, Lookup
<1>4. CASE Match
  BY <1>4, MatchSound, UDPKept DEF Match
<1>5. ASSUME pc = "dial", Returns PROVE Sound' /\ UDPInv'
  BY <1>5, UDPKept DEF Returns, Sound, InfoOK, udpVars
<1>6. CASE Refuse \/ \E some \in SUBSET Families(addr.info) : DialDirect(some)
  BY <1>5, <1>6 DEF Refuse, DialDirect
<1>7. CASE ListenUDP
  BY <1>7, ListenSound
<1>8. CASE DialProxy
  BY <1>8, UDPKept DEF DialProxy, Sound, InfoOK, udpVars
<1>9. CASE WriteDirect
  <2>1. UDPInv'
    BY <1>9, WriteToInv DEF WriteDirect, Sound
  <2>2. QED
    BY <1>9, <2>1, OpenSound DEF WriteDirect, WriteTo
<1>10. CASE WriteProxy
  BY <1>10, UDPKept, OpenSound DEF WriteProxy, udpVars
<1>11. CASE Exchange
  BY <1>11, ExchangeSound
<1>12. CASE UNCHANGED vars
  BY <1>12, UDPKept DEF vars, routerVars, udpVars, Sound, InfoOK
<1>13. QED
  BY <1>1, <1>3, <1>4, <1>6, <1>7, <1>8, <1>9, <1>10, <1>11, <1>12 DEF Next

-----------------------------------------------------------------------------
\* The Addr carries what the rules decided about, from resolve to dial
\* (router.go:101-167).
THEOREM Invariance == Spec => []Inv
<1>1. Init => Inv
  BY InitSound, InitCarried DEF Inv
<1>2. Inv /\ [Next]_vars => Inv'
  BY NextSound, NextCarried DEF Inv
<1>3. QED
  BY <1>1, <1>2, PTL DEF Spec

\* The IP that a direct outbound dials is one the rules were asked about, or
\* the hijack address: no second lookup in between (direct.go:248).
THEOREM DialledWasMatchedHolds == Spec => []DialledWasMatched
<1>1. Inv => DialledWasMatched
  BY DEF Inv, Carried
<1>2. QED
  BY <1>1, Invariance, PTL

\* A hijack address reaches the proxies, which look at the Addr's host only
\* (router.go:145, socks5.go:243).
THEOREM HijackReachesProxyHolds == Spec => []HijackReachesProxy
<1>1. Inv => HijackReachesProxy
  BY DEF Inv, Carried
<1>2. QED
  BY <1>1, Invariance, PTL

\* An Addr that is dialled again is looked up again before it is matched
\* (router.go:113).
THEOREM MatchedIsFreshHolds == Spec => []MatchedIsFresh
<1>1. Inv => MatchedIsFresh
  BY DEF Inv, Carried
<1>2. QED
  BY <1>1, Invariance, PTL

\* Every datagram of a direct UDP connection leaves by the device or from the
\* bind address of its settings, in a family that the mode allows
\* (config.go:157, direct.go:356, direct.go:435).
THEOREM LeavesAsConfiguredHolds == Spec => []LeavesAsConfigured
<1>1. Inv => LeavesAsConfigured
  BY UDPInvImplies DEF Inv
<1>2. QED
  BY <1>1, Invariance, PTL

\* A peer that was sent a datagram can be answered through the Addr that
\* ReadFrom returned (direct.go:336, direct.go:347).
THEOREM RepliesReachHolds == Spec => []RepliesReach
<1>1. Inv => RepliesReach
  BY UDPInvImplies DEF Inv
<1>2. QED
  BY <1>1, Invariance, PTL

=============================================================================
