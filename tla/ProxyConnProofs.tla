-------------------------- MODULE ProxyConnProofs ---------------------------
(***************************************************************************)
(* What a dial through a proxy leaves behind, for any number of bytes.     *)
(* The bytes are put together in the lemmas on Read and Reply; every other *)
(* step leaves them alone.                                                 *)
(***************************************************************************)
EXTENDS ProxyConn, SequenceTheorems, TLAPS

\* The parts of the invariant that are about the bytes, as one.
Bytewise ==
    /\ next \in Nat \ {0} /\ kept \in Seq(Nat) /\ got \in Seq(Nat)
    /\ result # "conn" => /\ got = <<>> /\ kept = [i \in 1 .. next - 1 |-> i]
                          /\ result = "none" /\ pc # "finish" => next = 1
    /\ BytesInOrder

\* The rest of it.
Connwise ==
    /\ kind \in {"connect", "associate", "http"}
    /\ result \in {"none", "conn", "error"}
    /\ tcp \in {"none", "open", "closed"} /\ udp \in {"none", "open", "closed"}
    /\ deadline \in BOOLEAN /\ peer \in BOOLEAN
    /\ hold \in {"none", "copying", "closing", "half", "done"}
    /\ closer \in {"none", "half", "done"}
    /\ Calling /\ Alive /\ ErrorCloses
    /\ result # "conn" => udp = "none" /\ hold = "none" /\ closer = "none"

LEMMA TwoParts == Inv <=> Connwise /\ Bytewise
BY DEF Inv, TypeOK, Unused, Connwise, Bytewise

\* A step that leaves the bytes alone and returns no connection yet, or what
\* the buffer has.
LEMMA BytesKept ==
    ASSUME Bytewise, UNCHANGED data,
           pc' = "finish" => pc = "finish",
           result' # "conn" => result # "conn",
           result # "conn" /\ result' = "none" => result = "none"
                                               /\ (pc = "finish" => pc' = "finish")
    PROVE  Bytewise'
<1>1. CASE result = "conn"
  BY <1>1 DEF Bytewise, BytesInOrder, data
<1>2. CASE result # "conn"
  <2>1. got \o kept = [i \in 1 .. next - 1 |-> i]
    BY <1>2, ConcatEmptySeq DEF Bytewise
  <2>2. QED
    BY <1>2, <2>1 DEF Bytewise, BytesInOrder, data
<1>3. QED
  BY <1>1, <1>2

LEMMA CountIsSeq ==
    ASSUME NEW n \in Nat
    PROVE  [i \in 1 .. n |-> i] \in Seq(Nat) /\ Len([i \in 1 .. n |-> i]) = n
<1>1. [i \in 1 .. n |-> i] \in [1 .. n -> Nat]
  OBVIOUS
<1>2. QED
  BY <1>1

\* The numbers up to k, and the next m.
LEMMA CountOn ==
    ASSUME NEW k \in Nat, NEW m \in Nat, NEW s, NEW t,
           s = [i \in 1 .. k |-> i], t = [i \in 1 .. m |-> k + i]
    PROVE  t \in Seq(Nat) /\ s \o t = [i \in 1 .. k + m |-> i]
<1> DEFINE all == [i \in 1 .. k + m |-> i]
<1>1. s \in Seq(Nat) /\ Len(s) = k /\ \A i \in 1 .. k : s[i] = i
  BY CountIsSeq
<1>2. t \in [1 .. m -> Nat]
  OBVIOUS
<1>3. t \in Seq(Nat) /\ Len(t) = m /\ \A i \in 1 .. m : t[i] = k + i
  BY <1>2
<1>4. k + m \in Nat
  OBVIOUS
<1>5. all \in Seq(Nat) /\ Len(all) = k + m /\ \A i \in 1 .. k + m : all[i] = i
  BY <1>4, CountIsSeq
<1> HIDE DEF all
<1>6. s \o t \in Seq(Nat) /\ Len(s \o t) = Len(s) + Len(t)
  BY <1>1, <1>3, ConcatProperties
<1>7. \A i \in 1 .. Len(s) + Len(t) : (s \o t)[i] = IF i <= Len(s) THEN s[i] ELSE t[i - Len(s)]
  BY <1>1, <1>3, ConcatProperties
<1>8. ASSUME NEW i \in 1 .. k + m PROVE (s \o t)[i] = i
  <2>1. CASE i <= k
    BY <1>1, <1>3, <1>7, <2>1
  <2>2. CASE ~(i <= k)
    <3>1. (s \o t)[i] = t[i - k]
      BY <1>1, <1>3, <1>7, <2>2
    <3>2. i - k \in 1 .. m /\ k + (i - k) = i
      BY <2>2
    <3>3. t[i - k] = k + (i - k)
      BY <1>3, <3>2
    <3>4. QED
      BY <3>1, <3>2, <3>3
  <2>3. QED
    BY <2>1, <2>2
<1>9. s \o t = all
  BY <1>1, <1>3, <1>5, <1>6, <1>8, SeqEqual
<1>10. QED
  BY <1>3, <1>9 DEF all

LEMMA ReplyBytes == ASSUME Inv, NEW n \in 0 .. Bytes, Reply(n) PROVE Bytewise'
<1>1. result = "none" /\ next = 1 /\ got = <<>>
  BY DEF Reply, Inv, Calling, Unused
<1>2. next' = n + 1 /\ kept' = [i \in 1 .. n |-> i] /\ got' = <<>> /\ n \in Nat
      /\ result' = "none" /\ pc' = "finish"
  BY <1>1, ProxyAssumption DEF Reply
<1>3. kept' \in Seq(Nat)
  BY <1>2, CountIsSeq
<1>4. QED
  BY <1>2, <1>3, EmptySeq DEF Bytewise, BytesInOrder

\* A sequence is its first m elements and the others.
LEMMA SplitAt ==
    ASSUME NEW s \in Seq(Nat), NEW m \in 1 .. Len(s)
    PROVE  /\ SubSeq(s, 1, m) \in Seq(Nat) /\ SubSeq(s, m + 1, Len(s)) \in Seq(Nat)
           /\ SubSeq(s, 1, m) \o SubSeq(s, m + 1, Len(s)) = s
<1>1. Len(s) \in Nat /\ \A i \in 1 .. Len(s) : s[i] \in Nat
  BY LenProperties, ElementOfSeq
<1>2. m \in Int /\ m + 1 \in Int /\ Len(s) \in Int /\ 1 \in Int
  BY <1>1
<1>3. \A i \in 1 .. m : s[i] \in Nat
  BY <1>1
<1>4. \A i \in m + 1 .. Len(s) : s[i] \in Nat
  BY <1>1
<1>5. SubSeq(s, 1, m) \in Seq(Nat)
  BY <1>2, <1>3, SubSeqProperties
<1>6. SubSeq(s, m + 1, Len(s)) \in Seq(Nat)
  BY <1>2, <1>4, SubSeqProperties
<1>7. SubSeq(s, 1, m) \o SubSeq(s, m + 1, Len(s)) = SubSeq(s, 1, Len(s))
  <2>1. 1 \in 1 .. Len(s) + 1 /\ m \in 1 - 1 .. Len(s) /\ Len(s) \in m .. Len(s)
    BY <1>1
  <2>2. QED
    BY <2>1, ConcatAdjacentSubSeq
<1>8. QED
  BY <1>5, <1>6, <1>7, SubSeqFull

LEMMA Regroup ==
    \A s, t, u \in Seq(Nat) : (s \o t) \o u = s \o (t \o u)
BY ConcatAssociative, SMTT(30)

LEMMA ReadBytes == ASSUME Inv, NEW n \in 1 .. Bytes, Read(n) PROVE Bytewise'
<1>1. result' = "conn" /\ got \o kept = [i \in 1 .. next - 1 |-> i]
  BY DEF Read, call, Inv, BytesInOrder
<1>2. next \in Nat \ {0} /\ kept \in Seq(Nat) /\ got \in Seq(Nat)
  BY DEF Inv, TypeOK
<1>3. n \in Nat \ {0}
  BY ProxyAssumption
<1>4. CASE kept # <<>>
  <2> DEFINE m == IF n < Len(kept) THEN n ELSE Len(kept)
             a == SubSeq(kept, 1, m)
             b == SubSeq(kept, m + 1, Len(kept))
  <2>1. got' = got \o a /\ kept' = b /\ next' = next
    BY <1>4 DEF Read
  <2>2. m \in 1 .. Len(kept) /\ Len(kept) \in Nat
    BY <1>2, <1>3, <1>4, EmptySeq, LenProperties
  <2>3. a \in Seq(Nat) /\ b \in Seq(Nat) /\ a \o b = kept
    <3> HIDE DEF m
    <3>1. QED
      BY <1>2, <2>2, SplitAt
  <2> HIDE DEF a, b, m
  <2>4. got' \o kept' = got \o kept
    <3>1. (got \o a) \o b = got \o (a \o b)
      BY <1>2, <2>3, Regroup, Zenon
    <3>2. QED
      BY <2>1, <2>3, <3>1
  <2>5. got' \in Seq(Nat) /\ kept' \in Seq(Nat)
    <3>1. got \o a \in Seq(Nat)
      BY <1>2, <2>3, ConcatProperties
    <3>2. QED
      BY <2>1, <2>3, <3>1
  <2>6. QED
    BY <1>1, <1>2, <2>1, <2>4, <2>5 DEF Bytewise, BytesInOrder
<1>5. CASE kept = <<>>
  <2>1. PICK m \in 1 .. n : /\ got' = got \o [i \in 1 .. m |-> next + i - 1]
                            /\ next' = next + m /\ kept' = kept
    BY <1>5 DEF Read
  <2> DEFINE k == next - 1
             row == [i \in 1 .. m |-> k + i]
  <2>2. m \in Nat /\ k \in Nat /\ next = k + 1
    BY <1>2, <1>3
  <2>3. row = [i \in 1 .. m |-> next + i - 1]
    BY <2>2
  <2>4. got = [i \in 1 .. k |-> i]
    BY <1>1, <1>2, <1>5, ConcatEmptySeq
  <2> HIDE DEF k
  <2>5. row \in Seq(Nat) /\ got \o row = [i \in 1 .. k + m |-> i]
    BY <2>2, <2>4, CountOn
  <2>6. got' = [i \in 1 .. k + m |-> i] /\ got' \in Seq(Nat)
    <3>1. got' = got \o row
      BY <2>1, <2>3
    <3>2. k + m \in Nat
      BY <2>2
    <3>3. QED
      BY <2>5, <3>1, <3>2, CountIsSeq
  <2>7. next' - 1 = k + m /\ next' \in Nat \ {0}
    BY <2>1, <2>2
  <2>8. kept' = <<>> /\ kept' \in Seq(Nat) /\ got' \o kept' = got'
    BY <1>2, <1>5, <2>1, <2>6, ConcatEmptySeq
  <2>9. QED
    BY <1>1, <2>6, <2>7, <2>8 DEF Bytewise, BytesInOrder
<1>6. QED
  BY <1>4, <1>5

\* Every other step leaves the bytes where they are.
LEMMA OtherBytes ==
    ASSUME Inv, [Next]_vars, ~\E n \in 0 .. Bytes : Reply(n), ~\E n \in 1 .. Bytes : Read(n)
    PROVE  Bytewise'
<1>1. UNCHANGED data
  BY DEF Next, Dial, DialFails, Local, Failure, Hold, Arm, Disarm, Settle, Bind, BindFails,
     Finish, NegotiationFails, RequestFails, HTTPFails, Abort, Greet, Login, Request, Write,
     Goto, Return, PeerCloses, HoldReturns, HoldClosesTCP, HoldClosesUDP, CloseTCP, CloseUDP,
     ReadFrom, ReadFromReturns, vars
<1>2. /\ pc' = "finish" => pc = "finish"
      /\ result' # "conn" => result # "conn"
      /\ result # "conn" /\ result' = "none" =>
            result = "none" /\ (pc = "finish" => pc' = "finish")
  BY DEF Inv, TypeOK, Calling, Next, Dial, DialFails, Local, Failure, Hold, Arm, Disarm,
     Settle, Bind, BindFails, Finish, NegotiationFails, RequestFails, HTTPFails, Abort, Greet,
     Login, Request, Write, Goto, Return, PeerCloses, HoldReturns, HoldClosesTCP,
     HoldClosesUDP, CloseTCP, CloseUDP, ReadFrom, ReadFromReturns, vars, call
<1>3. QED
  BY <1>1, <1>2, TwoParts, BytesKept

-----------------------------------------------------------------------------
(* The connections                                                         *)

LEMMA DialConns ==
    ASSUME Connwise,
           \/ Dial \/ DialFails \/ Failure
           \/ \E method \in {"none", "userpass"} : Greet(method)
           \/ Login \/ Request \/ Write
    PROVE  Connwise'
BY DEF Connwise, Calling, Alive, ErrorCloses, Dial, DialFails, Failure, NegotiationFails,
   RequestFails, HTTPFails, Abort, Greet, Login, Request, Write, Goto, Return, conns, users

LEMMA LocalConns == ASSUME Connwise, Local PROVE Connwise'
<1>1. CASE Settle
  BY <1>1 DEF Connwise, Calling, Alive, ErrorCloses, Settle, Goto, Return, users
<1>2. CASE Bind
  <2>1. result = "none" /\ kind = "associate" /\ ~deadline /\ closer = "none"
    BY <1>2 DEF Connwise, Calling, Bind
  <2>2. /\ UNCHANGED <<kind, tcp, deadline, peer, closer>>
        /\ pc' = "returned" /\ result' = "conn" /\ udp' = "open" /\ hold' = "copying"
    BY <1>2 DEF Bind, Return
  <2>3. tcp = "open"
    BY <1>2 DEF Connwise, Calling, Bind
  <2>4. Calling' /\ ErrorCloses'
    BY <2>1, <2>2 DEF Calling, ErrorCloses
  <2>5. QED
    BY <2>1, <2>2, <2>3, <2>4 DEF Connwise, Alive
<1>3. CASE BindFails
  BY <1>3 DEF Connwise, Calling, Alive, ErrorCloses, BindFails, Return, conns, users
<1>4. CASE Finish
  BY <1>4 DEF Connwise, Calling, Alive, ErrorCloses, Finish, Return, users
<1>5. CASE Disarm("disarm", "rearm")
  BY <1>5 DEF Connwise, Calling, Alive, ErrorCloses, Disarm, Goto, users
<1>6. CASE Arm("arm", "greet") \/ Arm("rearm", "request") \/ Arm("armReply", "reply")
  BY <1>6 DEF Connwise, Calling, Alive, ErrorCloses, Arm, Goto, users
<1>7. QED
  BY <1>1, <1>2, <1>3, <1>4, <1>5, <1>6 DEF Local

\* A step that changes no connection.
LEMMA SameConns ==
    ASSUME Connwise, UNCHANGED <<kind, result, tcp, udp, deadline, hold, closer>>,
           peer' = peer \/ peer' = FALSE,
           pc' = pc \/ (pc = "reply" /\ pc' = "finish")
    PROVE  Connwise'
<1>1. Calling'
  BY DEF Connwise, Calling
<1>2. Alive'
  <2>1. ~peer => ~peer'
    OBVIOUS
  <2>2. QED
    BY <2>1 DEF Connwise, Alive
<1>3. ErrorCloses'
  BY DEF Connwise, ErrorCloses
<1>4. deadline' \in BOOLEAN /\ peer' \in BOOLEAN
  BY DEF Connwise
<1>5. QED
  BY <1>1, <1>2, <1>3, <1>4 DEF Connwise

LEMMA ByteConns ==
    ASSUME Connwise, (\E n \in 0 .. Bytes : Reply(n)) \/ (\E n \in 1 .. Bytes : Read(n))
    PROVE  Connwise'
<1>1. /\ UNCHANGED <<kind, result, tcp, udp, deadline, hold, closer, peer>>
      /\ pc' = pc \/ (pc = "reply" /\ pc' = "finish")
  BY DEF Reply, Read, call, conns, users
<1>2. QED
  BY <1>1, SameConns

LEMMA EndConns ==
    ASSUME Connwise, PeerCloses \/ Hold \/ CloseTCP \/ CloseUDP \/ ReadFrom \/ ReadFromReturns
    PROVE  Connwise'
<1>1. UNCHANGED <<kind, pc, result, deadline>>
  BY DEF PeerCloses, Hold, HoldReturns, HoldClosesTCP, HoldClosesUDP, CloseTCP, CloseUDP,
     ReadFrom, ReadFromReturns, call, conns
<1>2. CASE PeerCloses \/ ReadFrom \/ ReadFromReturns
  <2>1. UNCHANGED <<tcp, udp, hold, closer>> /\ (peer' = peer \/ peer' = FALSE)
    BY <1>2 DEF PeerCloses, ReadFrom, ReadFromReturns, conns, users
  <2>2. QED
    BY <1>1, <2>1, SameConns
<1>3. CASE Hold \/ CloseTCP \/ CloseUDP
  <2>1. result = "conn" /\ ~deadline /\ pc = "returned"
    BY <1>3 DEF Connwise, Calling, Alive, Hold, HoldReturns, HoldClosesTCP, HoldClosesUDP,
       CloseTCP, CloseUDP
  <2>2. Calling' /\ ErrorCloses'
    BY <1>1, <2>1 DEF Calling, ErrorCloses
  <2>3. Alive'
    <3>1. CASE HoldReturns
      BY <1>1, <2>1, <3>1 DEF Connwise, Alive, HoldReturns, conns
    <3>2. CASE HoldClosesTCP
      BY <1>1, <2>1, <3>2 DEF Connwise, Alive, HoldClosesTCP
    <3>3. CASE HoldClosesUDP
      BY <1>1, <2>1, <3>3 DEF Connwise, Alive, HoldClosesUDP
    <3>4. CASE CloseTCP
      BY <1>1, <2>1, <3>4 DEF Connwise, Alive, CloseTCP
    <3>5. CASE CloseUDP
      BY <1>1, <2>1, <3>5 DEF Connwise, Alive, CloseUDP
    <3>6. QED
      BY <1>3, <3>1, <3>2, <3>3, <3>4, <3>5 DEF Hold
  <2>4. /\ tcp' \in {tcp, "closed"} /\ udp' \in {udp, "closed"} /\ peer' = peer
        /\ hold' \in {hold, "closing", "half", "done"} /\ closer' \in {closer, "half", "done"}
    BY <1>3 DEF Hold, HoldReturns, HoldClosesTCP, HoldClosesUDP, CloseTCP, CloseUDP, conns
  <2>5. QED
    BY <1>1, <2>1, <2>2, <2>3, <2>4 DEF Connwise
<1>4. QED
  BY <1>2, <1>3

LEMMA NextInv == ASSUME Inv, [Next]_vars PROVE Inv'
<1>1. Connwise'
  <2>1. CASE UNCHANGED vars
    BY <2>1, TwoParts DEF vars, call, conns, users, Connwise, Calling, Alive, ErrorCloses
  <2>2. CASE Next
    BY <2>2, TwoParts, DialConns, LocalConns, ByteConns, EndConns DEF Next
  <2>3. QED
    BY <2>1, <2>2
<1>2. Bytewise'
  BY ReplyBytes, ReadBytes, OtherBytes
<1>3. (Connwise /\ Bytewise)' => Inv'
  BY DEF Inv, TypeOK, Unused, Connwise, Bytewise
<1>4. QED
  BY <1>1, <1>2, <1>3

LEMMA InitInv == ASSUME Init PROVE Inv
<1>1. next = 1 /\ kept = <<>> /\ got = <<>> /\ result = "none"
  BY DEF Init
<1>2. kept = [i \in 1 .. next - 1 |-> i] /\ kept \in Seq(Nat) /\ got \in Seq(Nat)
  BY <1>1, EmptySeq
<1>3. Bytewise
  BY <1>1, <1>2 DEF Bytewise, BytesInOrder
<1>4. Connwise
  BY DEF Init, Connwise, Calling, Alive, ErrorCloses
<1>5. QED
  BY <1>3, <1>4, TwoParts

-----------------------------------------------------------------------------
\* Ownership, bytes and the reasons to end an association (socks5.go, http.go).
THEOREM Invariance == Spec => []Inv
BY InitInv, NextInv, PTL DEF Spec

\* Every error path closes what the call has opened, except that of
\* newSOCKS5UDPConn (socks5.go:194).
THEOREM ErrorClosesHolds == Spec => []ErrorCloses
<1>1. Inv => ErrorCloses
  BY DEF Inv
<1>2. QED
  BY <1>1, Invariance, PTL

\* No byte is lost or read twice between bufReader, cachedConn and the
\* connection, however many come with the answer (http.go:147, 177).
THEOREM BytesInOrderHolds == Spec => []BytesInOrder
<1>1. Inv => BytesInOrder
  BY DEF Inv
<1>2. QED
  BY <1>1, Invariance, PTL

\* Only the caller or the proxy ends an association (socks5.go:206, 236).
THEOREM KeptWhileWantedHolds == Spec => KeptWhileWanted
<1>1. ASSUME Inv, [Next]_vars
      PROVE  [udp = "open" /\ udp' = "closed" => closer # "none" \/ ~peer]_vars
  <2>1. CASE HoldClosesUDP \/ CloseUDP
    BY <1>1, <2>1 DEF Inv, Alive, HoldClosesUDP, CloseUDP
  <2>2. CASE ~(HoldClosesUDP \/ CloseUDP)
    <3>1. udp' # "closed" \/ udp' = udp
      BY <1>1, <2>2 DEF Next, Dial, DialFails, Local, Failure, Hold, Arm, Disarm, Settle, Bind,
         BindFails, Finish, NegotiationFails, RequestFails, HTTPFails, Abort, Greet, Login,
         Request, Write, Goto, Return, Reply, Read, PeerCloses, HoldReturns, HoldClosesTCP,
         CloseTCP, ReadFrom, ReadFromReturns, vars, conns
    <3>2. QED
      BY <3>1
  <2>3. QED
    BY <2>1, <2>2
<1>2. QED
  BY <1>1, Invariance, PTL DEF Spec, KeptWhileWanted

=============================================================================
