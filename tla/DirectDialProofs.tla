--------------------------- MODULE DirectDialProofs ---------------------------
(***************************************************************************)
(* Whatever the order in which the dials of a Direct.DialTCP end and their *)
(* results are received, the caller gets a connection if a family that the *)
(* mode allows can be reached.  No constant is involved: the interleavings *)
(* are few, and the proof says why each of them is right.                  *)
(***************************************************************************)
EXTENDS DirectDial, TLAPS

\* The channel holds each family at most once, whatever is put in, and so
\* never more than two results.
LEMMA QueuePut ==
    ASSUME NEW q \in Queues, NEW f \in Families, f \notin Content(q)
    PROVE  Append(q, f) \in Queues /\ Content(Append(q, f)) = Content(q) \cup {f}
<1> DEFINE r == Append(q, f)
<1>1. /\ q \in Seq(Families) /\ r \in Seq(Families) /\ Len(r) = Len(q) + 1
      /\ \A i \in DOMAIN q : r[i] = q[i] /\ q[i] # f
      /\ r[Len(q) + 1] = f /\ DOMAIN r = 1 .. Len(q) + 1 /\ DOMAIN q = 1 .. Len(q)
  BY DEF Queues, Content
<1> HIDE DEF r
<1>2. r \in Queues
  BY <1>1 DEF Queues
<1>3. Content(r) = Content(q) \cup {f}
  BY <1>1 DEF Content
<1>4. QED
  BY <1>2, <1>3 DEF r

LEMMA QueueTake ==
    ASSUME NEW q \in Queues, q # <<>>
    PROVE  /\ Head(q) \in Content(q)
           /\ Tail(q) \in Queues /\ Content(Tail(q)) = Content(q) \ {Head(q)}
<1> DEFINE r == Tail(q)
<1>1. /\ q \in Seq(Families) /\ r \in Seq(Families) /\ Len(q) = Len(r) + 1
      /\ \A i \in DOMAIN r : r[i] = q[i + 1]
      /\ Head(q) = q[1] /\ DOMAIN r = 1 .. Len(r) /\ DOMAIN q = 1 .. Len(r) + 1 /\ Len(r) \in Nat
  BY DEF Queues
<1>2. \A i, j \in DOMAIN q : i # j => q[i] # q[j]
  BY DEF Queues
<1> HIDE DEF r
<1>3. r \in Queues
  BY <1>1, <1>2 DEF Queues
<1>4. Content(r) = Content(q) \ {Head(q)}
  <2>1. ASSUME NEW i \in DOMAIN q, i # 1 PROVE i - 1 \in DOMAIN r /\ r[i - 1] = q[i]
    BY <1>1, <2>1
  <2>2. \A i \in DOMAIN r : r[i] # q[1]
    BY <1>1, <1>2
  <2>3. QED
    BY <1>1, <2>1, <2>2 DEF Content
<1>5. Head(q) \in Content(q)
  BY <1>1 DEF Content
<1>6. QED
  BY <1>3, <1>4, <1>5 DEF r

LEMMA QueueType ==
    ASSUME NEW q \in Queues
    PROVE  /\ q \in Seq(Families) /\ Content(q) \subseteq Families
           /\ q = <<>> <=> Content(q) = {}
           /\ Len(q) <= 2
<1>1. q \in Seq(Families) /\ \A i, j \in DOMAIN q : i # j => q[i] # q[j]
  BY DEF Queues
<1>2. q = <<>> <=> Content(q) = {}
  BY <1>1 DEF Content
<1>3. Len(q) <= 2
  <2> SUFFICES ASSUME Len(q) >= 3 PROVE FALSE
    BY <1>1
  <2>1. q[1] # q[2] /\ q[1] # q[3] /\ q[2] # q[3]
    BY <1>1
  <2>2. q[1] \in Families /\ q[2] \in Families /\ q[3] \in Families
    BY <1>1
  <2>3. QED
    BY <2>1, <2>2 DEF Families
<1>4. QED
  BY <1>1, <1>2, <1>3 DEF Content

\* README.md:193-197 and the code's switch name the same families.
LEMMA TargetsAllowed ==
    ASSUME TypeOK
    PROVE  Targets \subseteq Families /\ \A f \in Families : f \in Targets <=> Allowed(f)
BY DEF TypeOK, Targets, Allowed, Modes, Families

\* What a call was given does not change, nor do the families it may dial.
LEMMA EnvKept ==
    ASSUME UNCHANGED env
    PROVE  /\ UNCHANGED <<mode, fastOpen, noDelayOff, addrs, up>>
           /\ Targets' = Targets /\ \A f \in Families : Allowed(f)' = Allowed(f)
BY DEF env, Targets, Allowed

LEMMA InitInv == Init => Inv
<1> SUFFICES ASSUME Init PROVE Inv
  OBVIOUS
<1>1. Content(<<>>) = {} /\ <<>> \in Queues
  BY DEF Content, Queues
<1>2. TypeOK
  BY DEF Init, TypeOK, Families
<1>3. \A f \in Families : DialOK(f)
  BY DEF Init, DialOK
<1>4. DialsOK
  BY DEF Init, DialsOK, Ended
<1>5. OutcomeOK
  BY DEF Init, OutcomeOK, Families
<1>6. QED
  BY <1>1, <1>2, <1>3, <1>4, <1>5 DEF Inv, Init

LEMMA RefuseInv == ASSUME Inv, Refuse PROVE Inv'
<1>1. /\ caller = "start" /\ Targets = {} /\ caller' = "done" /\ result' = "error"
      /\ UNCHANGED <<env, dial, conn, tuned, ch, drain>>
  BY DEF Refuse
<1>2. Targets' = Targets /\ UNCHANGED <<mode, fastOpen, noDelayOff, addrs, up>>
  BY <1>1, EnvKept
<1>3. TypeOK'
  BY <1>1, <1>2 DEF Inv, TypeOK
<1>4. (\A f \in Families : DialOK(f))'
  BY <1>1, <1>2 DEF Inv, DialOK
<1>5. DialsOK'
  BY <1>1, <1>2 DEF Inv, DialsOK, OutcomeOK, Ended
<1>6. OutcomeOK'
  BY <1>1, <1>2 DEF Inv, OutcomeOK, DialsOK, DialOK, Families
<1>7. QED
  BY <1>1, <1>3, <1>4, <1>5, <1>6 DEF Inv

LEMMA StartInv == ASSUME Inv, Start PROVE Inv'
<1>1. /\ caller = "start" /\ Targets # {}
      /\ caller' = IF Targets = Families THEN "first" ELSE "single"
      /\ dial' = [f \in Families |-> IF f \in Targets THEN "running" ELSE "no"]
      /\ UNCHANGED <<env, conn, tuned, ch, drain, result>>
  BY DEF Start
<1>2. Targets' = Targets /\ UNCHANGED <<mode, fastOpen, noDelayOff, addrs, up>>
  BY <1>1, EnvKept
<1>3. TypeOK'
  BY <1>1, <1>2 DEF Inv, TypeOK
<1>4. (\A f \in Families : DialOK(f))'
  BY <1>1, <1>2 DEF Inv, DialOK, DialsOK
<1>5. ch = <<>> /\ Waiting' = {} /\ Ended' = {}
  BY <1>1 DEF Inv, OutcomeOK, Waiting, Content, Ended
<1>6. DialsOK'
  BY <1>1, <1>2, <1>5 DEF DialsOK
<1>7. OutcomeOK'
  BY <1>1, <1>2, <1>5 DEF Inv, OutcomeOK, DialsOK, DialOK, Families
<1>8. QED
  BY <1>1, <1>3, <1>4, <1>6, <1>7 DEF Inv

\* A dial function ends, in a way that leaves what DialOK says: its result is
\* sent, or the call returns it.
LEMMA EndsInv ==
    ASSUME Inv, NEW f \in Families, NEW how \in {"ok", "error", "tune error"},
           Ends(f, how), conn' = [conn EXCEPT ![f] = conn'[f]],
           conn'[f] \in {"none", "lazy", "open", "closed"},
           tuned \subseteq tuned', tuned' \subseteq Families, DialOK(f)',
           how = "ok" => conn'[f] # "closed"
    PROVE  Inv'
<1>1. /\ dial[f] = "running" /\ dial' = [dial EXCEPT ![f] = how]
      /\ UNCHANGED <<env, drain>>
  BY DEF Ends
<1>2. Targets' = Targets /\ UNCHANGED <<mode, fastOpen, noDelayOff, addrs, up>>
  BY <1>1, EnvKept
<1>3. /\ dial \in [Families -> {"no", "running", "ok", "error", "tune error"}]
      /\ conn \in [Families -> {"none", "lazy", "open", "closed"}]
      /\ f \in Targets /\ caller # "start"
      /\ Ended' = Ended \cup {f} /\ f \notin Ended /\ f \notin Failed
  <2>1. /\ dial \in [Families -> {"no", "running", "ok", "error", "tune error"}]
        /\ conn \in [Families -> {"none", "lazy", "open", "closed"}]
    BY DEF Inv, TypeOK
  <2>2. f \in Targets /\ caller # "start"
    BY <1>1 DEF Inv, DialsOK
  <2>3. \A g \in Families : dial'[g] = IF g = f THEN how ELSE dial[g]
    BY <1>1, <2>1
  <2>4. Ended' = Ended \cup {f}
    BY <2>3 DEF Ended
  <2>5. QED
    BY <1>1, <2>1, <2>2, <2>4 DEF Ended, Failed
<1>4. (\A g \in Families : DialOK(g))'
  <2>1. ASSUME NEW g \in Families, g # f PROVE DialOK(g)'
    <3>1. dial'[g] = dial[g] /\ conn'[g] = conn[g] /\ (g \in tuned => g \in tuned')
      BY <1>1, <1>3, <2>1
    <3>2. QED
      BY <1>2, <3>1 DEF Inv, DialOK
  <2>2. QED
    BY <2>1
<1>5. CASE caller = "single"
  <2>1. /\ caller' = "done" /\ ch' = ch /\ result' = IF how = "ok" THEN f ELSE "error"
        /\ drain = "no" /\ ch = <<>> /\ Ended = {} /\ Targets # Families
    BY <1>5 DEF Ends, Inv, OutcomeOK, DialsOK
  <2>2. Targets = {f}
    BY <1>3, <2>1, TargetsAllowed, ZenonT(40) DEF Inv, Families
  <2>3. TypeOK'
    BY <1>1, <1>2, <1>3, <2>1 DEF Inv, TypeOK
  <2>4. DialsOK'
    BY <1>1, <1>2, <1>3, <2>1, <2>2 DEF Inv, DialsOK
  <2>5. OutcomeOK'
    <3>1. ASSUME NEW g \in Families, g # f PROVE dial'[g] = "no" /\ dial[g] = "no"
      BY <1>1, <1>3, <2>2, <3>1 DEF Inv, DialsOK
    <3>2. dial'[f] = how /\ f \in Families /\ f # "error" /\ f # "none"
      BY <1>1, <1>3 DEF Families
    <3>3. Targets' \subseteq Failed' <=> how # "ok"
      BY <1>2, <2>2, <3>2 DEF Failed
    <3>4. QED
      BY <1>1, <1>2, <2>1, <3>1, <3>2, <3>3 DEF OutcomeOK, Families
  <2>6. QED
    BY <1>4, <2>1, <2>3, <2>4, <2>5 DEF Inv
<1>6. CASE caller # "single"
  <2>1. caller' = caller /\ result' = result /\ ch' = Append(ch, f)
    BY <1>6 DEF Ends
  <2>2. caller = "done" => drain = "waiting" /\ f # result
    BY <1>1, <1>3 DEF Inv, DialsOK, OutcomeOK
  <2>3. Waiting \subseteq Ended
    BY <1>3, <1>6, <2>2 DEF Inv, DialsOK, TypeOK
  <2>4. Append(ch, f) \in Queues /\ Waiting' = Waiting \cup {f}
    BY <1>3, <2>1, <2>3, QueuePut DEF Inv, Waiting
  <2>5. TypeOK'
    BY <1>1, <1>2, <1>3, <2>1, <2>4, QueueType DEF Inv, TypeOK
  <2>6. DialsOK'
    <3>1. (\A g \in Families : dial[g] = "no" <=> caller = "start" \/ g \notin Targets)'
      BY <1>1, <1>2, <1>3, <2>1 DEF Inv, DialsOK
    <3>2. Failed \subseteq Failed'
      BY <1>1, <1>3 DEF Failed
    <3>3. CASE caller = "first"
      BY <1>2, <1>3, <2>1, <2>4, <3>1, <3>3 DEF Inv, DialsOK
    <3>4. CASE caller = "second"
      <4>1. PICK g \in Failed : Waiting = Ended \ {g}
        BY <3>4 DEF Inv, DialsOK
      <4>2. Waiting' = Ended' \ {g} /\ g \in Failed'
        BY <1>3, <2>4, <3>2, <4>1
      <4>3. QED
        BY <1>2, <2>1, <3>1, <3>4, <4>2 DEF Inv, DialsOK
    <3>5. CASE caller = "done"
      <4>1. drain' = "waiting" /\ result' = result /\ Waiting' = Ended' \ {result'}
        BY <1>1, <1>3, <2>1, <2>2, <2>4, <3>5, ZenonT(40) DEF Inv, DialsOK
      <4>2. QED
        BY <1>2, <2>1, <3>1, <3>5, <4>1 DEF DialsOK
    <3>6. QED
      BY <1>3, <1>6, <3>3, <3>4, <3>5 DEF Inv, TypeOK
  <2>7. OutcomeOK'
    <3>1. /\ caller \notin {"start", "single"}
          /\ \A g \in Families : g # f => dial'[g] = dial[g] /\ conn'[g] = conn[g]
          /\ dial'[f] = how
      BY <1>1, <1>3, <1>6
    <3>2. Failed \subseteq Failed'
      BY <1>1, <1>3 DEF Failed
    <3>3. result # f
      BY <2>2, <1>3 DEF Inv, OutcomeOK, Families
    <3>4. QED
      BY <1>1, <1>2, <2>1, <2>2, <3>1, <3>2, <3>3 DEF Inv, OutcomeOK
  <2>8. QED
    BY <1>4, <2>1, <2>4, <2>5, <2>6, <2>7 DEF Inv
<1>7. QED
  BY <1>5, <1>6

LEMMA EndsFacts ==
    ASSUME Inv, NEW f \in Families, NEW how, Ends(f, how)
    PROVE  /\ fastOpen' = fastOpen /\ noDelayOff' = noDelayOff /\ up' = up
           /\ dial'[f] = how /\ conn[f] = "none"
<1>1. dial \in [Families -> {"no", "running", "ok", "error", "tune error"}] /\ DialOK(f)
  BY DEF Inv, TypeOK
<1>2. dial[f] = "running" /\ dial' = [dial EXCEPT ![f] = how] /\ UNCHANGED env
  BY DEF Ends
<1>3. QED
  BY <1>1, <1>2, EnvKept DEF DialOK

LEMMA DialInv ==
    ASSUME Inv, NEW f \in Families,
           Connect(f) \/ ConnectFails(f) \/ TuneFails(f) \/ DialLazily(f)
    PROVE  Inv'
<1>1. /\ conn \in [Families -> {"none", "lazy", "open", "closed"}] /\ tuned \subseteq Families
      /\ dial \in [Families -> {"no", "running", "ok", "error", "tune error"}]
  BY DEF Inv, TypeOK
<1>2. ASSUME Connect(f) PROVE Inv'
  <2>1. /\ Ends(f, "ok") /\ f \in up /\ ~fastOpen
        /\ conn' = [conn EXCEPT ![f] = "open"] /\ conn'[f] = "open"
        /\ tuned' = IF noDelayOff THEN tuned \cup {f} ELSE tuned
    BY <1>1, <1>2 DEF Connect
  <2>2. DialOK(f)'
    <3>1. /\ fastOpen' = fastOpen /\ noDelayOff' = noDelayOff /\ up' = up
          /\ dial'[f] = "ok"
      BY <2>1, EndsFacts
    <3>2. QED
      BY <2>1, <3>1 DEF DialOK
  <2>3. QED
    BY <1>1, <2>1, <2>2, EndsInv
<1>3. ASSUME ConnectFails(f) PROVE Inv'
  <2>1. Ends(f, "error") /\ f \notin up /\ ~fastOpen /\ conn' = conn /\ tuned' = tuned
    BY <1>3 DEF ConnectFails
  <2>2. conn' = [conn EXCEPT ![f] = conn'[f]] /\ conn'[f] = "none"
    BY <1>1, <2>1, EndsFacts
  <2>3. DialOK(f)'
    <3>1. /\ fastOpen' = fastOpen /\ noDelayOff' = noDelayOff /\ up' = up
          /\ dial'[f] = "error"
      BY <2>1, EndsFacts
    <3>2. QED
      BY <2>1, <2>2, <3>1 DEF DialOK
  <2>4. QED
    BY <1>1, <2>1, <2>2, <2>3, EndsInv
<1>4. ASSUME TuneFails(f) PROVE Inv'
  <2>1. /\ Ends(f, "tune error") /\ f \in up /\ ~fastOpen /\ tuned' = tuned
        /\ conn' = [conn EXCEPT ![f] = "closed"] /\ conn'[f] = "closed"
    BY <1>1, <1>4 DEF TuneFails
  <2>2. DialOK(f)'
    <3>1. /\ fastOpen' = fastOpen /\ noDelayOff' = noDelayOff /\ up' = up
          /\ dial'[f] = "tune error"
      BY <2>1, EndsFacts
    <3>2. QED
      BY <2>1, <3>1 DEF DialOK
  <2>3. QED
    BY <1>1, <2>1, <2>2, EndsInv
<1>5. ASSUME DialLazily(f) PROVE Inv'
  <2>1. /\ Ends(f, "ok") /\ fastOpen /\ tuned' = tuned
        /\ conn' = [conn EXCEPT ![f] = "lazy"] /\ conn'[f] = "lazy"
    BY <1>1, <1>5 DEF DialLazily
  <2>2. DialOK(f)'
    <3>1. /\ fastOpen' = fastOpen /\ noDelayOff' = noDelayOff /\ up' = up
          /\ dial'[f] = "ok"
      BY <2>1, EndsFacts
    <3>2. QED
      BY <2>1, <3>1 DEF DialOK
  <2>3. QED
    BY <1>1, <2>1, <2>2, EndsInv
<1>6. QED
  BY <1>2, <1>3, <1>4, <1>5

\* The first result, when both families are dialled and the other's result is
\* still to come.
LEMMA ReceiveFirstInv == ASSUME Inv, ReceiveFirst PROVE Inv'
<1> DEFINE f == Head(ch)
<1>1. /\ caller = "first" /\ ch # <<>> /\ ch' = Tail(ch)
      /\ UNCHANGED <<env, dial, conn, tuned>>
      /\ IF dial[f] = "ok" THEN caller' = "done" /\ result' = f /\ drain' = "waiting"
         ELSE caller' = "second" /\ result' = result /\ drain' = drain
  BY DEF ReceiveFirst
<1>2. Targets' = Targets /\ UNCHANGED <<mode, fastOpen, noDelayOff, addrs, up>>
  BY <1>1, EnvKept
<1>3. ch' \in Queues /\ Waiting' = Waiting \ {f} /\ f \in Waiting
  BY <1>1, QueueTake DEF Inv, Waiting
<1>4. Targets = Families /\ Waiting = Ended /\ result = "none" /\ drain = "no"
  BY <1>1 DEF Inv, DialsOK, OutcomeOK
<1>5. f \in Families /\ (dial[f] # "ok" => f \in Failed) /\ Ended' = Ended /\ Failed' = Failed
  BY <1>1, <1>3, <1>4 DEF Ended, Failed, Inv, TypeOK
<1> HIDE DEF f
<1>6. TypeOK'
  BY <1>1, <1>2, <1>3, <1>5, QueueType DEF Inv, TypeOK
<1>7. (\A g \in Families : DialOK(g))'
  BY <1>1, <1>2 DEF Inv, DialOK
<1>8. DialsOK'
  BY <1>1, <1>2, <1>3, <1>4, <1>5 DEF Inv, DialsOK
<1>9. OutcomeOK'
  BY <1>1, <1>2, <1>4, <1>5 DEF Inv, OutcomeOK, Families
<1>10. QED
  BY <1>3, <1>6, <1>7, <1>8, <1>9 DEF Inv

\* The second: the first has failed.
LEMMA ReceiveSecondInv == ASSUME Inv, ReceiveSecond PROVE Inv'
<1> DEFINE f == Head(ch)
<1>1. /\ caller = "second" /\ ch # <<>> /\ ch' = Tail(ch) /\ caller' = "done"
      /\ result' = IF dial[f] = "ok" THEN f ELSE "error"
      /\ UNCHANGED <<env, dial, conn, tuned, drain>>
  BY DEF ReceiveSecond
<1>2. Targets' = Targets /\ UNCHANGED <<mode, fastOpen, noDelayOff, addrs, up>>
  BY <1>1, EnvKept
<1>3. ch' \in Queues /\ Waiting' = Waiting \ {f} /\ f \in Waiting
  BY <1>1, QueueTake DEF Inv, Waiting
<1>4. Targets = Families /\ drain = "no" /\ result = "none"
  BY <1>1 DEF Inv, DialsOK, OutcomeOK
<1>5. PICK g \in Failed : Waiting = Ended \ {g}
  BY <1>1 DEF Inv, DialsOK
<1>6. /\ f \in Families /\ g \in Families /\ f # g /\ Families = {f, g}
      /\ f \in Ended /\ g \in Ended /\ Ended' = Ended /\ Failed' = Failed
      /\ dial[f] # "ok" => f \in Failed
  BY <1>1, <1>3, <1>5 DEF Ended, Failed, Inv, TypeOK, Families
<1> HIDE DEF f
<1>7. Ended = Families /\ Waiting' = {} /\ ch' = <<>>
  <2>1. Ended = Families /\ Waiting' = {}
    BY <1>3, <1>5, <1>6 DEF Ended
  <2>2. QED
    BY <1>3, <2>1, QueueType DEF Waiting
<1>8. TypeOK'
  BY <1>1, <1>2, <1>3, <1>6, QueueType DEF Inv, TypeOK
<1>9. (\A h \in Families : DialOK(h))'
  BY <1>1, <1>2 DEF Inv, DialOK
<1>10. DialsOK'
  BY <1>1, <1>2, <1>4, <1>6, <1>7 DEF Inv, DialsOK
<1>11. OutcomeOK'
  BY <1>1, <1>2, <1>4, <1>5, <1>6, <1>7 DEF Inv, OutcomeOK, Families, Failed
<1>12. QED
  BY <1>3, <1>8, <1>9, <1>10, <1>11 DEF Inv

\* The drain goroutine closes the family that the caller does not hold.
LEMMA DrainInv == ASSUME Inv, Drain PROVE Inv'
<1> DEFINE f == Head(ch)
<1>1. /\ drain = "waiting" /\ ch # <<>> /\ ch' = Tail(ch) /\ drain' = "done"
      /\ conn' = [conn EXCEPT ![f] = IF dial[f] = "ok" THEN "closed" ELSE @]
      /\ UNCHANGED <<env, caller, dial, tuned, result>>
  BY DEF Drain
<1>2. Targets' = Targets /\ UNCHANGED <<mode, fastOpen, noDelayOff, addrs, up>>
  BY <1>1, EnvKept
<1>3. ch' \in Queues /\ Waiting' = Waiting \ {f} /\ f \in Waiting
  BY <1>1, QueueTake DEF Inv, Waiting
<1>4. /\ Targets = Families /\ result \in Families /\ caller = "done"
      /\ Waiting = Ended \ {result} /\ dial[result] = "ok" /\ result \in Ended
  BY <1>1 DEF Inv, DialsOK, OutcomeOK, Ended, TypeOK
<1>5. /\ f \in Families /\ f # result /\ Families = {f, result} /\ Ended = Families
      /\ Ended' = Ended /\ Failed' = Failed
  BY <1>1, <1>3, <1>4 DEF Ended, Failed, Families
<1> HIDE DEF f
<1>6. ch' = <<>>
  <2>1. Waiting' = {}
    BY <1>3, <1>4, <1>5
  <2>2. QED
    BY <1>3, <2>1, QueueType DEF Waiting
<1>7. /\ conn \in [Families -> {"none", "lazy", "open", "closed"}]
      /\ \A g \in Families : g # f => conn'[g] = conn[g]
      /\ conn'[f] = IF dial[f] = "ok" THEN "closed" ELSE conn[f]
  BY <1>1, <1>5 DEF Inv, TypeOK
<1>8. TypeOK'
  BY <1>1, <1>2, <1>3, <1>7, QueueType DEF Inv, TypeOK
<1>9. (\A g \in Families : DialOK(g))'
  BY <1>1, <1>2, <1>5, <1>7, ZenonT(40) DEF Inv, DialOK
<1>10. DialsOK'
  BY <1>1, <1>2, <1>4, <1>5 DEF Inv, DialsOK
<1>11. OutcomeOK'
  BY <1>1, <1>2, <1>4, <1>5, <1>6, <1>7 DEF Inv, OutcomeOK, Families
<1>12. QED
  BY <1>3, <1>8, <1>9, <1>10, <1>11 DEF Inv

LEMMA FirstWriteInv == ASSUME Inv, FirstWrite PROVE Inv'
<1>1. /\ caller = "done" /\ result \in Families /\ conn[result] = "lazy"
      /\ conn' = [conn EXCEPT ![result] = IF result \in up THEN "open" ELSE "closed"]
      /\ UNCHANGED <<env, caller, dial, tuned, ch, drain, result>>
  BY DEF FirstWrite
<1>2. Targets' = Targets /\ UNCHANGED <<mode, fastOpen, noDelayOff, addrs, up>>
  BY <1>1, EnvKept
<1>3. /\ conn \in [Families -> {"none", "lazy", "open", "closed"}]
      /\ \A g \in Families : g # result => conn'[g] = conn[g]
      /\ conn'[result] = IF result \in up THEN "open" ELSE "closed"
      /\ dial[result] = "ok" /\ DialOK(result)
  BY <1>1 DEF Inv, TypeOK, OutcomeOK
<1>4. TypeOK'
  BY <1>1, <1>2, <1>3 DEF Inv, TypeOK
<1>5. fastOpen
  BY <1>1, <1>3 DEF DialOK
<1>6. (\A g \in Families : DialOK(g))'
  BY <1>1, <1>2, <1>3, <1>5 DEF Inv, DialOK
<1>7. DialsOK'
  BY <1>1, <1>2 DEF Inv, DialsOK, Ended, Failed, Waiting
<1>8. OutcomeOK'
  BY <1>1, <1>2, <1>3, <1>5 DEF Inv, OutcomeOK, Failed, Families
<1>9. QED
  BY <1>1, <1>4, <1>6, <1>7, <1>8 DEF Inv

LEMMA StutterInv == ASSUME Inv, UNCHANGED vars PROVE Inv'
<1>1. UNCHANGED env /\ UNCHANGED <<caller, dial, conn, tuned, ch, drain, result>>
  BY DEF vars, env
<1>2. Targets' = Targets /\ UNCHANGED <<mode, fastOpen, noDelayOff, addrs, up>>
  BY <1>1, EnvKept
<1>3. QED
  BY <1>1, <1>2, ZenonT(40) DEF Inv, TypeOK, DialOK, DialsOK, OutcomeOK, Ended, Failed, Waiting

-----------------------------------------------------------------------------
\* Every family's result is sent once, received once, and its connection is
\* the caller's or closed.
THEOREM InvHolds == Spec => []Inv
<1>1. Inv /\ [Next]_vars => Inv'
  BY RefuseInv, StartInv, DialInv, ReceiveFirstInv, ReceiveSecondInv, DrainInv, FirstWriteInv,
     StutterInv DEF Next
<1>2. QED
  BY InitInv, <1>1, PTL DEF Spec

\* "if both connections fail" (direct.go:303): an error means that every dial
\* of the mode was made and failed, and that nothing is left open.
THEOREM ErrorMeansAllFailedHolds == Spec => []ErrorMeansAllFailed
<1>1. ASSUME Inv, result = "error" PROVE ErrorMeansAllFailed
  <2>1. caller = "done" /\ drain = "no" /\ Targets \subseteq Failed
    BY <1>1 DEF Inv, OutcomeOK, TypeOK, Families
  <2>2. \A f \in Targets : dial[f] \in {"error", "tune error"}
    BY <2>1 DEF Failed
  <2>3. \A f \in Families : f \notin Targets => dial[f] = "no"
    BY <1>1 DEF Inv, DialsOK
  <2>4. \A f \in Families : DialOK(f)
    BY <1>1 DEF Inv
  <2>5. QED
    BY <2>2, <2>3, <2>4 DEF ErrorMeansAllFailed, DialOK
<1>2. Inv => ErrorMeansAllFailed
  BY <1>1 DEF ErrorMeansAllFailed
<1>3. QED
  BY InvHolds, <1>2, PTL

\* A target that can be reached on a family of the mode is reached, unless two
\* lazy dials raced.
THEOREM ReachableIsReachedHolds == Spec => []ReachableIsReached
<1>1. ASSUME Inv, ~(fastOpen /\ Targets = Families), caller = "done",
             result \in Families => conn[result] # "lazy",
             NEW f \in up, Allowed(f), dial[f] # "tune error"
      PROVE  result \in Families /\ conn[result] = "open"
  <2>1. f \in Families /\ f \in Targets /\ Targets \subseteq Families
    BY <1>1, TargetsAllowed DEF Inv, TypeOK
  <2>2. drain # "waiting" => f \in Ended
    BY <1>1, <2>1 DEF Inv, DialsOK
  <2>3. f \notin Failed
    BY <1>1, <2>1 DEF Inv, DialOK, Failed
  <2>4. result \in Families
    BY <1>1, <2>1, <2>3 DEF Inv, OutcomeOK, TypeOK
  <2>5. dial[result] = "ok" /\ (conn[result] = "closed" => fastOpen /\ result \notin up)
    BY <1>1, <2>4 DEF Inv, OutcomeOK
  <2>6. conn[result] \in {"open", "closed"}
    BY <1>1, <2>4, <2>5 DEF Inv, DialOK, TypeOK
  <2>7. CASE fastOpen
    <3>1. result \in Targets /\ Targets # Families
      BY <1>1, <2>4, <2>5, <2>7 DEF Inv, DialsOK
    <3>2. result = f
      BY <2>1, <2>4, <3>1 DEF Families
    <3>3. QED
      BY <1>1, <2>4, <2>5, <2>6, <3>2
  <2>8. QED
    BY <2>4, <2>5, <2>6, <2>7
<1>2. Inv => ReachableIsReached
  BY <1>1 DEF ReachableIsReached, Reached
<1>3. QED
  BY InvHolds, <1>2, PTL

=============================================================================
