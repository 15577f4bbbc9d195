----------------------------- MODULE Addresses ------------------------------
(***************************************************************************)
(* The addresses that rules, router and outbounds pass to each other: IPs, *)
(* and the ResolveInfo of an outbound.Addr (pkg/outbound/outbound.go).     *)
(*                                                                         *)
(* An IP is an address and the length of its Go slice: a net.IP holding an *)
(* IPv4 address is 4 bytes long, or 16 when it comes from net.ParseIP.     *)
(***************************************************************************)

CONSTANT Nil    \* no IP address, no outbound

\* The two forms of an IPv4 address: net.ParseIP's, and To4's.
Long(ip)  == [addr |-> ip, bytes |-> 16]
Short(ip) == [addr |-> ip, bytes |-> 4]

\* The address whatever the slice's length: what String prints, and what
\* Equal, Contains and To4 look at.
Canonical(ip) == IF ip = Nil THEN Nil ELSE ip.addr

\* ResolveInfo; `known' tells it from nil.
Info(v4, v6) == [known |-> TRUE, v4 |-> v4, v6 |-> v6]
NoInfo       == [known |-> FALSE, v4 |-> Nil, v6 |-> Nil]

Families(info) == {ip \in {info.v4, info.v6} : ip # Nil}

=============================================================================
