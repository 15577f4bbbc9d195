----------------------------- MODULE ProxyConn ------------------------------
(***************************************************************************)
(* One call of DialTCP or DialUDP on a proxy outbound (pkg/outbound/       *)
(* socks5.go and http.go), and the connection it returns.  The call talks  *)
(* to the proxy over a TCP connection; a deadline covers parts of the      *)
(* talk.  A UDP association lives as long as this connection: a goroutine, *)
(* hold, waits for its end.                                                *)
(*                                                                         *)
(* Every step of the talk can fail, by an error of the connection, the     *)
(* deadline, or an answer that is no success.  How the SOCKS5 library      *)
(* reads an answer is external: it takes no byte more than the answer has. *)
(***************************************************************************)
EXTENDS Integers, Sequences

CONSTANT Bytes      \* bound: how many bytes the target sends

ASSUME ProxyAssumption == Bytes \in Nat

VARIABLES
    kind,       \* "connect" and "associate" of SOCKS5, or "http"
    pc,         \* of the call, "returned" in the end
    result,     \* "none", "conn" or "error"
    tcp, udp,   \* this end of the connections: "none", "open", "closed"
    deadline,   \* the TCP connection has a deadline
    peer,       \* the proxy keeps its end of the TCP connection open
    next,       \* the first byte of the target's that nobody took off the wire
    kept,       \* the bytes in bufReader, then in cachedConn
    got,        \* ghost: the bytes the caller has read
    hold,       \* the hold goroutine
    closer,     \* a caller in Close
    reading     \* a caller waits in ReadFrom

call  == <<pc, result>>
conns == <<tcp, udp, deadline>>
data  == <<next, kept, got>>
users == <<hold, closer, reading>>
vars  == <<kind, call, conns, peer, data, users>>

Init ==
    /\ kind \in {"connect", "associate", "http"}
    /\ pc = "dial" /\ result = "none"
    /\ tcp = "none" /\ udp = "none" /\ deadline = FALSE
    /\ peer = TRUE
    /\ next = 1 /\ kept = <<>> /\ got = <<>>
    /\ hold = "none" /\ closer = "none" /\ reading = FALSE

-----------------------------------------------------------------------------
(* The call                                                                *)

Goto(from, to) == pc = from /\ pc' = to /\ UNCHANGED <<result, kind, peer, data, users>>

Return(r) == pc' = "returned" /\ result' = r /\ UNCHANGED <<kind, peer, data>>

\* The error paths that close the connection.
Abort ==
    /\ Return("error")
    /\ tcp' = "closed"
    /\ UNCHANGED <<udp, deadline, users>>

Dial ==
    /\ Goto("dial", IF kind = "http" THEN "write" ELSE "arm")
    /\ tcp' = "open"
    /\ UNCHANGED <<udp, deadline>>

DialFails ==
    /\ pc = "dial"
    /\ Return("error")
    /\ UNCHANGED <<conns, users>>

\* Mutant: the negotiation has no deadline.
ArmNothing(from, to) == Goto(from, to) /\ UNCHANGED conns

\* SetDeadline, now and 10 s.
Arm(from, to) ==
    /\ Goto(from, to)
    /\ deadline' = TRUE
    /\ UNCHANGED <<tcp, udp>>

\* SetDeadline to the zero time.
Disarm(from, to) ==
    /\ Goto(from, to)
    /\ deadline' = FALSE
    /\ UNCHANGED <<tcp, udp>>

\* dialAndNegotiate: the proxy picks a method.  It may ask for a user name and
\* password that were not offered, and is given them.
Greet(method) ==
    /\ \/ method = "none" /\ Goto("greet", "disarm")
       \/ method = "userpass" /\ Goto("greet", "login")
    /\ UNCHANGED conns

Login == Goto("login", "disarm") /\ UNCHANGED conns

NegotiationFails == pc \in {"arm", "greet", "login", "disarm"} /\ Abort

\* request, for DialTCP and DialUDP: sent and answered with success.
Request == Goto("request", "settle") /\ UNCHANGED conns

\* Mutant: the caller of request does not close the connection on an error.
RequestLeaks ==
    /\ pc \in {"rearm", "request", "settle"} /\ kind # "http"
    /\ Return("error")
    /\ UNCHANGED <<conns, users>>

RequestFails == pc \in {"rearm", "request", "settle"} /\ kind # "http" /\ Abort

\* Mutant: the deadline of the request stays.
SettleArmed ==
    /\ kind # "http" /\ pc = "settle"
    /\ IF kind = "associate" THEN Goto("settle", "bind")
                             ELSE Return("conn") /\ UNCHANGED users
    /\ UNCHANGED conns

\* The deadline is cleared, and DialTCP is done.
Settle ==
    /\ kind # "http" /\ pc = "settle"
    /\ deadline' = FALSE
    /\ IF kind = "associate" THEN Goto("settle", "bind")
                             ELSE Return("conn") /\ UNCHANGED users
    /\ UNCHANGED <<tcp, udp>>

\* newSOCKS5UDPConn
Bind ==
    /\ pc = "bind"
    /\ udp' = "open" /\ hold' = "copying"
    /\ Return("conn")
    /\ UNCHANGED <<tcp, deadline, closer, reading>>

\* Without a UDP socket, the TCP connection is left as it is.
BindFails ==
    /\ pc = "bind"
    /\ Return("error")
    /\ UNCHANGED <<conns, users>>

\* HTTP's DialTCP: the request is written before there is a deadline.
Write == Goto("write", "armReply") /\ UNCHANGED conns

\* The answer is read through a buffer, which may take more than the answer.
Reply(n) ==
    /\ pc = "reply" /\ pc' = "finish"
    /\ next' = next + n
    /\ kept' = [i \in 1 .. n |-> i]
    /\ UNCHANGED <<kind, result, conns, peer, got, users>>

\* Mutant: the connection is returned without what the buffer has taken.
FinishPlain ==
    /\ pc = "finish"
    /\ pc' = "returned" /\ result' = "conn"
    /\ deadline' = FALSE
    /\ kept' = <<>>
    /\ UNCHANGED <<kind, tcp, udp, peer, next, got, users>>

\* Mutant: the deadline of the talk stays on the connection.
FinishArmed ==
    /\ pc = "finish"
    /\ Return("conn")
    /\ UNCHANGED <<conns, users>>

\* The deadline is cleared; what the buffer holds goes into a cachedConn.
Finish ==
    /\ pc = "finish"
    /\ deadline' = FALSE
    /\ Return("conn")
    /\ UNCHANGED <<tcp, udp, users>>

HTTPFails == pc \in {"write", "armReply", "reply", "finish"} /\ Abort

-----------------------------------------------------------------------------
(* What the call returned                                                  *)

\* Read with room for n bytes: from the cachedConn's buffer first, closed or not.
Read(n) ==
    /\ result = "conn" /\ kind # "associate"
    /\ IF kept # <<>>
       THEN LET m == IF n < Len(kept) THEN n ELSE Len(kept)
            IN  /\ got' = got \o SubSeq(kept, 1, m)
                /\ kept' = SubSeq(kept, m + 1, Len(kept))
                /\ UNCHANGED next
       ELSE \E m \in 1 .. n :
                /\ tcp = "open" /\ next + m <= Bytes + 1
                /\ got' = got \o [i \in 1 .. m |-> next + i - 1]
                /\ next' = next + m
                /\ UNCHANGED kept
    /\ UNCHANGED <<kind, call, conns, peer, users>>

\* The proxy closes its end, or is lost.
PeerCloses ==
    /\ tcp # "none" /\ peer
    /\ peer' = FALSE
    /\ UNCHANGED <<kind, call, conns, data, users>>

\* hold: io.Copy ends, with the proxy's end of the connection, with this one,
\* or by a deadline.
HoldReturns ==
    /\ hold = "copying"
    /\ ~peer \/ tcp = "closed" \/ deadline
    /\ hold' = "closing"
    /\ UNCHANGED <<kind, call, conns, peer, data, closer, reading>>

HoldClosesTCP ==
    /\ hold = "closing"
    /\ hold' = "half" /\ tcp' = "closed"
    /\ UNCHANGED <<kind, call, udp, deadline, peer, data, closer, reading>>

\* Mutant: the UDP socket is left to the caller.
HoldForgetsUDP ==
    /\ hold = "half"
    /\ hold' = "done"
    /\ UNCHANGED <<kind, call, conns, peer, data, closer, reading>>

HoldClosesUDP ==
    /\ hold = "half"
    /\ hold' = "done" /\ udp' = "closed"
    /\ UNCHANGED <<kind, call, tcp, deadline, peer, data, closer, reading>>

\* Close: the TCP connection first, ...
CloseTCP ==
    /\ result = "conn" /\ closer = "none"
    /\ tcp' = "closed"
    /\ closer' = IF kind = "associate" THEN "half" ELSE "done"
    /\ UNCHANGED <<kind, call, udp, deadline, peer, data, hold, reading>>

\* ... then the UDP socket.
CloseUDP ==
    /\ closer = "half"
    /\ udp' = "closed" /\ closer' = "done"
    /\ UNCHANGED <<kind, call, tcp, deadline, peer, data, hold, reading>>

\* ReadFrom waits for a datagram, or for the socket to be closed.
ReadFrom ==
    /\ result = "conn" /\ kind = "associate" /\ ~reading
    /\ reading' = TRUE
    /\ UNCHANGED <<kind, call, conns, peer, data, hold, closer>>

ReadFromReturns ==
    /\ reading
    /\ reading' = FALSE
    /\ UNCHANGED <<kind, call, conns, peer, data, hold, closer>>

-----------------------------------------------------------------------------
Local == \/ Arm("arm", "greet") \/ Disarm("disarm", "rearm") \/ Arm("rearm", "request")
         \/ Settle \/ Bind \/ BindFails \/ Arm("armReply", "reply") \/ Finish

Failure == NegotiationFails \/ RequestFails \/ HTTPFails

Hold == HoldReturns \/ HoldClosesTCP \/ HoldClosesUDP

Next ==
    \/ Dial \/ DialFails
    \/ Local \/ Failure
    \/ \E method \in {"none", "userpass"} : Greet(method)
    \/ Login \/ Request \/ Write
    \/ \E n \in 0 .. Bytes : Reply(n)
    \/ \E n \in 1 .. Bytes : Read(n)
    \/ PeerCloses \/ Hold \/ CloseTCP \/ CloseUDP
    \/ ReadFrom \/ ReadFromReturns

Spec == Init /\ [][Next]_vars

\* The dialer has a timeout; what needs no answer is done; a wait under a
\* deadline ends; hold, Close and a read from a closed socket go on.
Fairness ==
    /\ WF_vars(Dial \/ DialFails)
    /\ WF_vars(Local)
    /\ WF_vars(deadline /\ Failure)
    /\ WF_vars(Hold)
    /\ WF_vars(CloseUDP)
    /\ WF_vars(udp = "closed" /\ ReadFromReturns)

FairSpec == Spec /\ Fairness

-----------------------------------------------------------------------------
(* Properties                                                              *)

\* An error leaves no connection behind, but for the TCP connection of an
\* association that gets no UDP socket (socks5.go:194).
ErrorCloses ==
    result = "error" =>
        /\ udp = "none" /\ hold = "none"
        /\ tcp = "open" => kind = "associate" /\ ~deadline

\* The caller reads every byte of the target's once and in order, those
\* included that came with the proxy's answer (http.go:147).
BytesInOrder ==
    result = "conn" => got \o kept = [i \in 1 .. next - 1 |-> i]

\* An association is not ended but by its caller or by the proxy: neither by a
\* deadline that a step of the dial has left behind (socks5.go:152).
KeptWhileWanted ==
    [][udp = "open" /\ udp' = "closed" => closer # "none" \/ ~peer]_vars

\* When the proxy ends an association, or the caller closes it, both connections
\* are closed and nobody waits for a datagram forever.
AssociationEnds ==
    /\ hold = "copying" /\ (~peer \/ closer # "none") ~> tcp = "closed" /\ udp = "closed"
    /\ reading /\ (~peer \/ closer # "none") ~> ~reading

\* A call returns, whatever the proxy does or does not; only an HTTP proxy that
\* does not take the request can keep it, for the deadline comes after the
\* write (http.go:124-128).
CallReturns ==
    /\ pc = "dial" ~> pc \in {"returned", "write"}
    /\ pc = "armReply" ~> pc = "returned"

-----------------------------------------------------------------------------
(* The inductive invariant behind them                                     *)

TypeOK ==
    /\ kind \in {"connect", "associate", "http"}
    /\ result \in {"none", "conn", "error"}
    /\ tcp \in {"none", "open", "closed"} /\ udp \in {"none", "open", "closed"}
    /\ deadline \in BOOLEAN /\ peer \in BOOLEAN
    /\ next \in Nat \ {0} /\ kept \in Seq(Nat) /\ got \in Seq(Nat)
    /\ hold \in {"none", "copying", "closing", "half", "done"}
    /\ closer \in {"none", "half", "done"}

\* Where the call is tells what it has.
Calling ==
    /\ pc # "returned" <=> result = "none"
    /\ pc = "dial" => tcp = "none" /\ ~deadline
    /\ pc \notin {"dial", "returned"} => tcp = "open"
    /\ pc \in {"arm", "greet", "login", "disarm", "rearm", "request", "bind"} => kind # "http"
    /\ pc = "bind" => kind = "associate" /\ ~deadline
    /\ pc \in {"write", "armReply", "reply", "finish"} => kind = "http"

\* Before a connection is returned, nobody but the call uses what it has opened,
\* and no byte of the target's is read, but by the buffer.
Unused ==
    result # "conn" =>
        /\ udp = "none" /\ hold = "none" /\ closer = "none"
        /\ got = <<>> /\ kept = [i \in 1 .. next - 1 |-> i]
        /\ result = "none" /\ pc # "finish" => next = 1

\* hold goes on until there is a reason to end.
Alive ==
    /\ result = "conn" => ~deadline
    /\ hold = "copying" /\ tcp = "closed" => closer # "none"
    /\ hold \in {"closing", "half", "done"} => closer # "none" \/ ~peer

Inv == TypeOK /\ Calling /\ Unused /\ Alive /\ ErrorCloses /\ BytesInOrder

=============================================================================
