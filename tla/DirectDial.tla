----------------------------- MODULE DirectDial -----------------------------
(***************************************************************************)
(* One Direct.DialTCP call (pkg/outbound/direct.go) and the goroutines it  *)
(* leaves behind.  The mode decides which address families are dialled; in *)
(* auto mode with both at hand two goroutines dial at once and report to a *)
(* channel, the caller takes the first success, and a third goroutine      *)
(* closes the loser.  With FastOpen the dial functions return a lazy       *)
(* connection (FastOpenConn) at once, dialled by its first Write.          *)
(***************************************************************************)
EXTENDS Naturals, Sequences

Families == {"v4", "v6"}
Modes    == {"auto", "64", "46", "6", "4", "invalid"}

VARIABLES
    mode,       \* Direct.Mode
    fastOpen,   \* DirectOptions.FastOpen
    noDelayOff, \* DirectOptions.TCPNoDelay is set, to false
    addrs,      \* families of ResolveInfo; none when the lookup failed
    up,         \* families the target can be reached on
    caller,     \* where DialTCP is
    dial,       \* per family: "no", "running", or how the dial function ended
    conn,       \* per family: the connection it made
    tuned,      \* connections whose TCP_NODELAY was turned off
    ch,         \* families whose dialResult is in the channel
    drain,      \* the goroutine that drops the second result
    result      \* "none", "error", or the family of the returned connection

vars == <<mode, fastOpen, noDelayOff, addrs, up, caller, dial, conn, tuned, ch, drain, result>>

env == <<mode, fastOpen, noDelayOff, addrs, up>>

\* Mutant: IPv6-first falls back to nothing.
TargetsWithoutFallback ==
    CASE mode = "auto"        -> addrs
      [] mode \in {"6", "64"} -> addrs \cap {"v6"}
      [] mode \in {"4", "46"} -> addrs \cap {"v4"}
      [] mode = "invalid"     -> {}

\* The families that DialTCP tries.
Targets ==
    CASE mode = "auto"    -> addrs
      [] mode = "64"      -> IF "v6" \in addrs THEN {"v6"} ELSE addrs
      [] mode = "46"      -> IF "v4" \in addrs THEN {"v4"} ELSE addrs
      [] mode = "6"       -> addrs \cap {"v6"}
      [] mode = "4"       -> addrs \cap {"v4"}
      [] mode = "invalid" -> {}

Init ==
    /\ mode \in Modes
    /\ fastOpen \in BOOLEAN /\ noDelayOff \in BOOLEAN
    /\ addrs \in SUBSET Families
    /\ up \in SUBSET Families
    /\ caller = "start"
    /\ dial = [f \in Families |-> "no"]
    /\ conn = [f \in Families |-> "none"]
    /\ tuned = {}
    /\ ch = <<>>
    /\ drain = "no"
    /\ result = "none"

-----------------------------------------------------------------------------
(* DialTCP                                                                 *)

\* No address of a family the mode allows, or no such mode.
Refuse ==
    /\ caller = "start"
    /\ Targets = {}
    /\ caller' = "done"
    /\ result' = "error"
    /\ UNCHANGED <<env, dial, conn, tuned, ch, drain>>

\* One family: the caller dials.  Two: it starts a goroutine for each and
\* waits for the first result.
Start ==
    /\ caller = "start"
    /\ Targets # {}
    /\ caller' = IF Targets = Families THEN "first" ELSE "single"
    /\ dial' = [f \in Families |-> IF f \in Targets THEN "running" ELSE "no"]
    /\ UNCHANGED <<env, conn, tuned, ch, drain, result>>

\* Mutant: a goroutine that failed sends its error, and then its result too.
EndsTwice(f, how) ==
    /\ dial[f] = "running"
    /\ dial' = [dial EXCEPT ![f] = how]
    /\ IF caller = "single"
       THEN /\ caller' = "done"
            /\ result' = IF how = "ok" THEN f ELSE "error"
            /\ UNCHANGED ch
       ELSE /\ ch' = IF how = "ok" THEN Append(ch, f) ELSE ch \o <<f, f>>
            /\ UNCHANGED <<caller, result>>
    /\ UNCHANGED <<env, drain>>

\* The dial function of family f ends.  Alone, its result is DialTCP's;
\* otherwise the goroutine sends it (the channel holds both results).
Ends(f, how) ==
    /\ dial[f] = "running"
    /\ dial' = [dial EXCEPT ![f] = how]
    /\ IF caller = "single"
       THEN /\ caller' = "done"
            /\ result' = IF how = "ok" THEN f ELSE "error"
            /\ UNCHANGED ch
       ELSE /\ ch' = Append(ch, f)
            /\ UNCHANGED <<caller, result>>
    /\ UNCHANGED <<env, drain>>

\* A real dial: it connects where the target can be reached.
Connect(f) ==
    /\ ~ fastOpen
    /\ f \in up
    /\ Ends(f, "ok")
    /\ conn' = [conn EXCEPT ![f] = "open"]
    /\ tuned' = IF noDelayOff THEN tuned \cup {f} ELSE tuned

ConnectFails(f) ==
    /\ ~ fastOpen
    /\ f \notin up
    /\ Ends(f, "error")
    /\ UNCHANGED <<conn, tuned>>

\* Mutant: the connection is not closed when SetNoDelay fails.
TuneFailsOpen(f) ==
    /\ ~ fastOpen /\ noDelayOff
    /\ f \in up
    /\ Ends(f, "tune error")
    /\ conn' = [conn EXCEPT ![f] = "open"]
    /\ UNCHANGED tuned

\* wrapDialNoDelay: SetNoDelay fails, the new connection is closed.
TuneFails(f) ==
    /\ ~ fastOpen /\ noDelayOff
    /\ f \in up
    /\ Ends(f, "tune error")
    /\ conn' = [conn EXCEPT ![f] = "closed"]
    /\ UNCHANGED tuned

\* A fast-open dial never fails and connects nothing yet.  Its result is no
\* *net.TCPConn, so wrapDialNoDelay leaves it as it is.
DialLazily(f) ==
    /\ fastOpen
    /\ Ends(f, "ok")
    /\ conn' = [conn EXCEPT ![f] = "lazy"]
    /\ UNCHANGED tuned

\* Mutant: a failed first result is returned without waiting for the other.
ReceiveOnlyFirst ==
    /\ caller = "first" /\ ch # <<>>
    /\ caller' = "done"
    /\ result' = IF dial[Head(ch)] = "ok" THEN Head(ch) ELSE "error"
    /\ drain' = "waiting"
    /\ ch' = Tail(ch)
    /\ UNCHANGED <<env, dial, conn, tuned>>

\* The first result: a success is returned, and another goroutine takes care
\* of the second.
ReceiveFirst ==
    /\ caller = "first" /\ ch # <<>>
    /\ IF dial[Head(ch)] = "ok"
       THEN caller' = "done" /\ result' = Head(ch) /\ drain' = "waiting"
       ELSE caller' = "second" /\ UNCHANGED <<result, drain>>
    /\ ch' = Tail(ch)
    /\ UNCHANGED <<env, dial, conn, tuned>>

\* After a failure the second result is returned, whatever it is.
ReceiveSecond ==
    /\ caller = "second" /\ ch # <<>>
    /\ caller' = "done"
    /\ result' = IF dial[Head(ch)] = "ok" THEN Head(ch) ELSE "error"
    /\ ch' = Tail(ch)
    /\ UNCHANGED <<env, dial, conn, tuned, drain>>

\* Mutant: the second result is received and forgotten.
DrainOnly ==
    /\ drain = "waiting" /\ ch # <<>>
    /\ drain' = "done"
    /\ ch' = Tail(ch)
    /\ UNCHANGED <<env, caller, dial, conn, tuned, result>>

\* The second result of a call that has its connection: a connection is
\* closed.  (Closing a lazy one closes its readyChan: it never dials.)
Drain ==
    /\ drain = "waiting" /\ ch # <<>>
    /\ drain' = "done"
    /\ conn' = [conn EXCEPT ![Head(ch)] = IF dial[Head(ch)] = "ok" THEN "closed" ELSE @]
    /\ ch' = Tail(ch)
    /\ UNCHANGED <<env, caller, dial, tuned, result>>

\* The caller writes to the connection it got.  A lazy one is dialled now,
\* once (FastOpenConn!OneDial), and stays unusable when that fails.
FirstWrite ==
    /\ caller = "done" /\ result \in Families
    /\ conn[result] = "lazy"
    /\ conn' = [conn EXCEPT ![result] = IF result \in up THEN "open" ELSE "closed"]
    /\ UNCHANGED <<env, caller, dial, tuned, ch, drain, result>>

Next ==
    \/ Refuse \/ Start \/ ReceiveFirst \/ ReceiveSecond \/ Drain \/ FirstWrite
    \/ \E f \in Families :
          Connect(f) \/ ConnectFails(f) \/ TuneFails(f) \/ DialLazily(f)

Spec == Init /\ [][Next]_vars

\* Every goroutine runs, and a dial ends by its timeout at the latest; the
\* caller need not write.
Runs ==
    \/ Refuse \/ Start \/ ReceiveFirst \/ ReceiveSecond \/ Drain
    \/ \E f \in Families :
          Connect(f) \/ ConnectFails(f) \/ TuneFails(f) \/ DialLazily(f)

FairSpec == Spec /\ WF_vars(Runs)

-----------------------------------------------------------------------------
(* Properties                                                              *)

\* The channel's two places are enough: no goroutine ever waits to send.
TypeOK ==
    /\ mode \in Modes
    /\ fastOpen \in BOOLEAN /\ noDelayOff \in BOOLEAN
    /\ addrs \subseteq Families /\ up \subseteq Families /\ tuned \subseteq Families
    /\ caller \in {"start", "single", "first", "second", "done"}
    /\ dial \in [Families -> {"no", "running", "ok", "error", "tune error"}]
    /\ conn \in [Families -> {"none", "lazy", "open", "closed"}]
    /\ ch \in Seq(Families) /\ Len(ch) <= 2
    /\ drain \in {"no", "waiting", "done"}
    /\ result \in Families \cup {"none", "error"}

\* DialTCP answers with an error only when every dial it could have made has
\* been made and has failed ("if both connections fail", 303), or when there
\* was none to make for this mode.
ErrorMeansAllFailed ==
    result = "error" =>
        /\ \A f \in Targets : dial[f] \in {"error", "tune error"}
        /\ \A f \in Families : conn[f] \in {"none", "closed"}

\* README.md:193-197: auto uses both, 64 and 46 the preferred family or else
\* the other, 6 and 4 theirs only.
Allowed(f) ==
    /\ f \in addrs
    /\ CASE mode = "auto"    -> TRUE
         [] mode = "64"      -> f = "v6" \/ "v6" \notin addrs
         [] mode = "46"      -> f = "v4" \/ "v4" \notin addrs
         [] mode = "6"       -> f = "v6"
         [] mode = "4"       -> f = "v4"
         [] mode = "invalid" -> FALSE

\* When the target can be reached on a family the mode allows, the caller,
\* once it has written, holds an established connection.
Reached ==
    /\ caller = "done"
    /\ result \in Families => conn[result] # "lazy"
    /\ \E f \in up : Allowed(f) /\ dial[f] # "tune error"
    => result \in Families /\ conn[result] = "open"

\* It does, but where two lazy dials race: the first to be wrapped wins.
ReachableIsReached == ~ (fastOpen /\ Targets = Families) => Reached

\* "Dual-stack "happy eyeballs", try both IPv4 and IPv6 simultaneously"
\* (configs/config.yaml.example:18) makes no exception for fast open.
HappyEyeballs == Reached

\* Nothing leaks: DialTCP returns, and in the end no connection is left that
\* the caller does not hold.
Settles ==
    <>[](/\ caller = "done"
         /\ \A f \in Families : conn[f] \in {"lazy", "open"} => f = result)

(* The inductive invariant behind them                                     *)

Ended   == {f \in Families : dial[f] \notin {"no", "running"}}
Failed  == {f \in Families : dial[f] \in {"error", "tune error"}}

\* A family's result is in the channel once at most.
Queues     == {q \in Seq(Families) : \A i, j \in DOMAIN q : i # j => q[i] # q[j]}
Content(q) == {q[i] : i \in DOMAIN q}
Waiting    == Content(ch)

\* How a dial ends, and what it leaves: an established connection only where
\* the target can be reached, tuned if it must be; nothing when it fails.
DialOK(f) ==
    /\ dial[f] \in {"no", "running", "error"} => conn[f] = "none"
    /\ dial[f] = "error" => ~ fastOpen /\ f \notin up
    /\ dial[f] = "tune error" => conn[f] = "closed" /\ ~ fastOpen
    /\ dial[f] = "ok" /\ ~ fastOpen =>
          /\ f \in up /\ conn[f] \in {"open", "closed"}
          /\ noDelayOff => f \in tuned
    /\ dial[f] = "ok" /\ fastOpen =>
          /\ conn[f] = "open" => f \in up
          /\ conn[f] # "none"

\* Which dials there are, and whose results are still to be received.
DialsOK ==
    /\ \A f \in Families : dial[f] = "no" <=> caller = "start" \/ f \notin Targets
    /\ caller \in {"start", "single"} => Ended = {}
    /\ caller \in {"single", "first", "second"} => Targets # {}
    /\ caller \in {"first", "second"} => Targets = Families
    /\ caller = "single" => Targets # Families
    /\ caller = "first"  => Waiting = Ended
    /\ caller = "second" => \E f \in Failed : Waiting = Ended \ {f}
    /\ caller = "done"   => IF drain = "waiting" THEN Waiting = Ended \ {result}
                            ELSE Ended = Targets

\* Two dials and no more: nothing is in the channel unless someone will take
\* it, and who has a result is not deprived of it.
OutcomeOK ==
    /\ caller \in {"start", "single"} => ch = <<>>
    /\ caller = "done" /\ drain # "waiting" => ch = <<>>
    /\ caller # "done" => result = "none" /\ drain = "no"
    /\ caller = "done" => result # "none"
    /\ drain # "no" => Targets = Families /\ result \in Families
    /\ result = "error" => Targets \subseteq Failed
    /\ result \in Families =>
          /\ dial[result] = "ok"
          /\ conn[result] = "closed" => fastOpen /\ result \notin up
    /\ \A f \in Families : conn[f] = "closed" /\ dial[f] = "ok" /\ f # result => drain = "done"

Inv == TypeOK /\ ch \in Queues /\ (\A f \in Families : DialOK(f)) /\ DialsOK /\ OutcomeOK

=============================================================================
