----------------------------- MODULE DirectUDP ------------------------------
(***************************************************************************)
(* The UDP side of a direct outbound: what a configuration file makes of   *)
(* its settings (pkg/config/config.go, NewDirectWithOptions), and the one  *)
(* socket of a directUDPConn (pkg/outbound/direct.go), which sends         *)
(* datagrams to any number of addresses.  Router composes it.              *)
(*                                                                         *)
(* A field of a ResolveInfo, or of the bind addresses, is also addressed   *)
(* by the name of its family, "v4" or "v6".                                *)
(***************************************************************************)
EXTENDS Addresses, Integers

CONSTANTS
    V4, V6,     \* IP addresses
    L4, L6,     \* addresses of this host
    Device      \* a network device

VARIABLES
    direct,     \* the Direct outbound: mode, bind addresses and DeviceName
    sock,       \* its directUDPConn: family, source address and device
    heard,      \* the Addr of the last datagram read, or Nil
    sent,       \* ghost: the datagrams sent, as receiver, source and device
    lost        \* ghost: senders a reply to whose Addr was refused

udpVars == <<direct, sock, heard, sent, lost>>

IPs == V4 \cup V6

\* No IP is mistaken for another family's, or for none.
ASSUME DirectUDPAssumption ==
    /\ V4 \cap V6 = {}
    /\ \A ip \in IPs : Nil \notin {ip, Long(ip), Short(ip)}
    /\ Nil \notin {L4, L6, Device}

FamilyOf(ip) == IF ip \in V4 THEN "v4" ELSE "v6"

Modes == {"auto", "64", "46", "6", "4"}

\* What a file may say; "bad" is any other word.
Settings ==
    [mode : Modes \cup {"bad"}, device : {Nil, Device},
     bind : [v4 : {Nil, L4, L6}, v6 : {Nil, L4, L6}]]

\* Mutant: a device and addresses to bind to are accepted together.
BuildableTogether(c) == c.mode # "bad" /\ c.bind.v4 # L6 /\ c.bind.v6 # L4

\* buildDirect refuses an unknown mode, and a device together with an address
\* to bind to; NewDirectWithOptions an address of the wrong family.
Buildable(c) ==
    /\ c.mode # "bad"
    /\ c.device # Nil => c.bind.v4 = Nil /\ c.bind.v6 = Nil
    /\ c.bind.v4 # L6 /\ c.bind.v6 # L4

Closed == [family |-> "none", source |-> Nil, device |-> Nil]

InitUDP ==
    /\ direct \in {c \in Settings : Buildable(c)}
    /\ sock = Closed
    /\ heard = Nil
    /\ sent = {} /\ lost = {}

-----------------------------------------------------------------------------
(* Choice of a family, in DialUDP and in WriteTo alike                     *)

First     == IF direct.mode \in {"64", "6"} THEN "v6" ELSE "v4"
Second    == IF First = "v4" THEN "v6" ELSE "v4"
FallsBack == direct.mode \in {"auto", "64", "46"}

\* The family the mode takes of an address, or "none".
Pick(info) ==
    IF info[First] # Nil THEN First
    ELSE IF FallsBack /\ info[Second] # Nil THEN Second
    ELSE "none"

Unbound == direct.bind.v4 = Nil /\ direct.bind.v6 = Nil

-----------------------------------------------------------------------------
\* DialUDP.  Without bind addresses it is a socket for both families, whatever
\* the address, bound to the device; with them, a socket for the family that
\* the mode takes of the address, whose bind address may still be missing.
Listen(info) ==
    /\ \/ Unbound /\ sock' = [family |-> "dual", source |-> Nil, device |-> direct.device]
       \/ /\ ~Unbound /\ Pick(info) # "none"
          /\ sock' = [family |-> Pick(info), source |-> direct.bind[Pick(info)], device |-> Nil]
    /\ UNCHANGED <<direct, heard, sent, lost>>

\* The connection is closed, and what was known of it is of no use.
CloseUDP ==
    /\ sock' = Closed
    /\ heard' = Nil
    /\ sent' = {} /\ lost' = {}
    /\ UNCHANGED direct

\* The IP that WriteTo sends to, or Nil when it returns an error.
Target(info) ==
    IF sock.family # "dual" THEN info[sock.family]
    ELSE IF Pick(info) = "none" THEN Nil ELSE info[Pick(info)]

Datagram(info) == [to |-> Target(info).addr, source |-> sock.source, device |-> sock.device]

\* WriteTo to an Addr that was resolved to `info'.  An error changes nothing.
WriteTo(info) ==
    /\ Target(info) # Nil
    /\ sent' = sent \cup {Datagram(info)}
    /\ UNCHANGED <<direct, sock, heard, lost>>

\* Mutant: ReadFrom fills in a ResolveInfo, without the address.
ReturnedEmpty(ip) == [host |-> ip, info |-> Info(Nil, Nil)]

\* What ReadFrom makes of the sender: the IP's text, and no ResolveInfo.
Returned(ip) == [host |-> ip, info |-> NoInfo]

\* ReadFrom: anybody's datagram that a socket of this family gets.
ReadFrom(ip) ==
    /\ sock.family \in {"dual", FamilyOf(ip)}
    /\ heard' = Returned(ip)
    /\ UNCHANGED <<direct, sock, sent, lost>>

\* splitIPv4IPv6, and the loop of Router.resolve: the first of each family.
FirstIn(ips, family) ==
    LET at == {i \in DOMAIN ips : ips[i] \in family}
    IN  IF at = {} THEN Nil ELSE Short(ips[CHOOSE i \in at : \A j \in at : i <= j])

Split(ips) ==
    Info(FirstIn(ips, V4), IF FirstIn(ips, V6) = Nil THEN Nil ELSE Long(FirstIn(ips, V6).addr))

\* net.LookupIP of a name: a list of IPs, up to two here; no IP when it fails.
Lookups == {Split(ips) : ips \in {<<>>} \cup (IPs \X IPs)}

\* Direct.resolve of an IP's text: the IP itself.
Parsed(ip) == IF ip \in V4 THEN Info(Long(ip), Nil) ELSE Info(Nil, Long(ip))

\* WriteTo with the Addr that ReadFrom returned, which it resolves in place
\* unless it has a ResolveInfo.
Reply ==
    /\ heard # Nil
    /\ LET info == IF heard.info.known THEN heard.info ELSE Parsed(heard.host)
       IN  /\ heard' = [heard EXCEPT !.info = info]
           /\ IF Target(info) = Nil
              THEN lost' = lost \cup {heard.host} /\ UNCHANGED sent
              ELSE sent' = sent \cup {Datagram(info)} /\ UNCHANGED lost
    /\ UNCHANGED <<direct, sock>>

-----------------------------------------------------------------------------
(* Properties                                                              *)

\* Over the whole life of a socket, which keeps the family of the first
\* address (direct.go:356) while the mode says which families may be used, a
\* datagram leaves by the device and from the bind address of the settings
\* (config.go:39-41), in a family that the mode allows.
LeavesAsConfigured ==
    \A d \in sent :
        LET family == FamilyOf(d.to)
        IN  /\ family = Second => FallsBack
            /\ d.source = direct.bind[family]
            /\ d.device = direct.device

\* Who was sent a datagram can be answered: a WriteTo with the Addr that
\* ReadFrom returned (direct.go:340) is never refused, whatever mode and family.
RepliesReach == {d.to : d \in sent} \cap lost = {}

-----------------------------------------------------------------------------
(* The inductive invariant behind them                                     *)

\* A resolved address has IPs of the right family.
InfoOK(info) == \A f \in {"v4", "v6"} : info[f] # Nil => info[f].addr \in IPs /\ FamilyOf(info[f].addr) = f

\* What DialUDP made of the settings stays true for as long as the socket is open.
SockOK ==
    /\ sock.family \in {"none", "dual", "v4", "v6"}
    /\ sock.family = "dual" => Unbound /\ sock.source = Nil /\ sock.device = direct.device
    /\ sock.family \in {"v4", "v6"} =>
          /\ ~Unbound
          /\ sock.source = direct.bind[sock.family] /\ sock.device = Nil
          /\ sock.family = Second => FallsBack
    /\ sock.family = "none" => sent = {} /\ lost = {} /\ heard = Nil

\* Whether the socket reaches an IP depends on the IP alone.
Reached(ip) == Target(Parsed(ip)) # Nil

UDPInv ==
    /\ Buildable(direct) /\ direct \in Settings
    /\ SockOK
    /\ heard # Nil => heard.host \in IPs /\ heard.info \in {NoInfo, Parsed(heard.host)}
    /\ \A d \in sent : d.to \in IPs /\ Reached(d.to)
    /\ \A ip \in lost : ~Reached(ip)
    /\ LeavesAsConfigured

=============================================================================
