-------------------------------- MODULE GeoIP --------------------------------
(***************************************************************************)
(* A GeoIP list as a rule uses it (pkg/acl/matchers_geodat.go): networks   *)
(* of one family, sorted by address, and the binary search for an address. *)
(* The search is a machine of its own, one turn of the loop per step, that *)
(* RuleCompile runs for every rule with a list.                            *)
(*                                                                         *)
(* An address is a number below 2^bits, for the bits of its family.        *)
(***************************************************************************)
EXTENDS Integers, Sequences

VARIABLES
    nets,       \* the list searched, a sequence of networks
    needle,     \* the address searched for
    left, right,
    verdict     \* "open" while the loop runs, then "found" or "missed"

searchVars == <<nets, needle, left, right, verdict>>

-----------------------------------------------------------------------------
(* A net.IPNet is an address and the number of addresses that its mask     *)
(* leaves open. CIDRMask makes no mask of a prefix that is too long; such a*)
(* network, of size 0, contains nothing.                                   *)

Net(cidr, bits) ==
    [ip |-> cidr.ip, size |-> IF cidr.prefix > bits THEN 0 ELSE 2 ^ (bits - cidr.prefix)]

\* The address of the network itself: Contains masks both sides.
Base(net) == net.ip - (net.ip % net.size)

NetContains(net, ip) == net.size # 0 /\ Base(net) <= ip /\ ip < Base(net) + net.size

Nets == [ip : Nat, size : Nat]

\* By bytes.Compare on the addresses.
Sorted(list) == \A j, k \in DOMAIN list : j < k => list[j].ip <= list[k].ip

\* What the search takes for granted: no network holds another one's address.
Disjoint(list) == \A j, k \in DOMAIN list : j # k => ~NetContains(list[j], list[k].ip)

-----------------------------------------------------------------------------
(* matchIP                                                                 *)

Begin(list, ip) ==
    /\ nets' = list /\ needle' = ip
    /\ left' = 1 /\ right' = Len(list)
    /\ verdict' = "open"

Mid == (left + right) \div 2

\* Mutant: the network below the middle is skipped too.
ProbeSkips ==
    /\ verdict = "open" /\ left <= right
    /\ IF NetContains(nets[Mid], needle) THEN verdict' = "found" /\ UNCHANGED <<left, right>>
       ELSE IF nets[Mid].ip < needle THEN left' = Mid + 1 /\ UNCHANGED <<right, verdict>>
       ELSE right' = Mid - 2 /\ UNCHANGED <<left, verdict>>
    /\ UNCHANGED <<nets, needle>>

\* One turn of the loop.
Probe ==
    /\ verdict = "open" /\ left <= right
    /\ IF NetContains(nets[Mid], needle) THEN verdict' = "found" /\ UNCHANGED <<left, right>>
       ELSE IF nets[Mid].ip < needle THEN left' = Mid + 1 /\ UNCHANGED <<right, verdict>>
       ELSE right' = Mid - 1 /\ UNCHANGED <<left, verdict>>
    /\ UNCHANGED <<nets, needle>>

Miss ==
    /\ verdict = "open" /\ left > right
    /\ verdict' = "missed"
    /\ UNCHANGED <<nets, needle, left, right>>

SearchInit ==
    /\ nets \in Seq(Nets) /\ Sorted(nets) /\ Disjoint(nets)
    /\ needle \in Nat
    /\ left = 1 /\ right = Len(nets)
    /\ verdict = "open"

Searching == Probe \/ Miss

\* One search alone, of any list and for any address.
SearchSpec == SearchInit /\ [][Searching]_searchVars

-----------------------------------------------------------------------------
(* Properties                                                              *)

\* The search finds the address exactly when some network of the list
\* contains it (matchers_geodat.go:35), wherever in the list that is.
SearchRight ==
    verdict # "open" => (verdict = "found" <=> \E k \in DOMAIN nets : NetContains(nets[k], needle))

(* The inductive invariant behind it                                       *)

\* While the loop runs, only networks between left and right can contain it.
SearchInv ==
    /\ nets \in Seq(Nets) /\ Sorted(nets) /\ Disjoint(nets)
    /\ needle \in Nat
    /\ left \in 1 .. Len(nets) + 1 /\ right \in 0 .. Len(nets)
    /\ verdict \in {"open", "found", "missed"}
    /\ verdict = "open" =>
          \A k \in DOMAIN nets : NetContains(nets[k], needle) => left <= k /\ k <= right
    /\ SearchRight

=============================================================================
