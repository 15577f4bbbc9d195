---------------------------- MODULE FastOpenConn ----------------------------
(***************************************************************************)
(* fastOpenConn (pkg/outbound/fastopen.go): a net.Conn whose TCP Fast Open *)
(* handshake is put off until the first Write, because that Write's        *)
(* payload travels in the SYN.  Goroutines call Read, Write, Close and the *)
(* deadline setters at any time and in any order.                          *)
(*                                                                         *)
(* A section under connLock that only reads, and a locked section that     *)
(* neither blocks nor is observed half way, is one action guarded by the   *)
(* lock being free.  Write's exclusive section is split, since it blocks   *)
(* in the dial and since readers woken by readyChan look at c.conn without *)
(* the lock.                                                               *)
(***************************************************************************)
EXTENDS Naturals

CONSTANTS
    Threads,    \* goroutines that share the connection
    None,       \* connLock is not held for writing
    Times,      \* values of a deadline
    Unset       \* no deadline

ASSUME FastOpenAssumption == None \notin Threads /\ Unset \notin Times

VARIABLES
    conn,       \* c.conn: "nil", or the real connection, "open" or "closed"
    ready,      \* c.readyChan is closed (closeOnce has run)
    holder,     \* the goroutine that holds connLock for writing
    preset,     \* c.deadline, c.readDeadline, c.writeDeadline
    connDl,     \* deadlines in force on the real connection
    pc,         \* where each goroutine is
    lastSet,    \* ghost: per direction, what the latest setter call asked for
    shut,       \* ghost: a Close returned nil, or some call answered ErrClosed
    dials       \* ghost: real dials started

vars == <<conn, ready, holder, preset, connDl, pc, lastSet, shut, dials>>

Dirs  == {"read", "write"}
Kinds == Dirs \cup {"both"}          \* which of the three setters
MaybeTime == Times \cup {Unset}

\* Program points inside the exclusive section of Write.
Locked == {"recheck", "dial", "publish", "announce", "writeHeld"}
Points == Locked \cup {"idle", "readWait", "readCheck", "readConn",
                       "writeCheck", "writeLock", "writeConn", "close"}

Goto(t, from, to) == pc[t] = from /\ pc' = [pc EXCEPT ![t] = to]

\* isClosedBeforeReady: readyChan is closed and there is no connection.
ClosedBeforeReady == ready /\ conn = "nil"

\* The setter of kind k reaches direction d.
Reaches(k, d) == k \in {d, "both"}

\* The deadlines `dl' after the setter of kind k with value x.
Apply(dl, k, x) == [d \in Dirs |-> IF Reaches(k, d) THEN x ELSE dl[d]]

Init ==
    /\ conn = "nil"
    /\ ready = FALSE
    /\ holder = None
    /\ preset = [k \in Kinds |-> Unset]
    /\ connDl = [d \in Dirs |-> Unset]
    /\ pc = [t \in Threads |-> "idle"]
    /\ lastSet = [d \in Dirs |-> Unset]
    /\ shut = FALSE
    /\ dials = 0

-----------------------------------------------------------------------------
(* Read                                                                    *)

\* The locked look at c.conn.
ReadStart(t) ==
    /\ holder = None
    /\ Goto(t, "idle", IF conn # "nil" THEN "readConn" ELSE "readWait")
    /\ UNCHANGED <<conn, ready, holder, preset, connDl, lastSet, shut, dials>>

\* <-c.readyChan
ReadWake(t) ==
    /\ ready
    /\ Goto(t, "readWait", "readCheck")
    /\ UNCHANGED <<conn, ready, holder, preset, connDl, lastSet, shut, dials>>

\* c.conn is read again, this time without the lock.
ReadCheck(t) ==
    /\ Goto(t, "readCheck", IF conn = "nil" THEN "idle" ELSE "readConn")
    /\ shut' = (shut \/ conn = "nil")
    /\ UNCHANGED <<conn, ready, holder, preset, connDl, lastSet, dials>>

\* The real connection's Read returns, with data or an error.
ReadReturn(t) ==
    /\ Goto(t, "readConn", "idle")
    /\ UNCHANGED <<conn, ready, holder, preset, connDl, lastSet, shut, dials>>

-----------------------------------------------------------------------------
(* Write                                                                   *)

WriteStart(t) ==
    /\ holder = None
    /\ Goto(t, "idle", IF conn # "nil" THEN "writeConn" ELSE "writeCheck")
    /\ UNCHANGED <<conn, ready, holder, preset, connDl, lastSet, shut, dials>>

\* The second shared section: give up early when already closed.
WriteCheck(t) ==
    /\ holder = None
    /\ Goto(t, "writeCheck", IF ClosedBeforeReady THEN "idle" ELSE "writeLock")
    /\ shut' = (shut \/ ClosedBeforeReady)
    /\ UNCHANGED <<conn, ready, holder, preset, connDl, lastSet, dials>>

WriteLock(t) ==
    /\ holder = None
    /\ Goto(t, "writeLock", "recheck")
    /\ holder' = t
    /\ UNCHANGED <<conn, ready, preset, connDl, lastSet, shut, dials>>

\* Mutant: the early return forgets to unlock.
WriteClosedKeepsLock(t) ==
    /\ ClosedBeforeReady
    /\ Goto(t, "recheck", "idle")
    /\ shut' = TRUE
    /\ UNCHANGED <<conn, ready, holder, preset, connDl, lastSet, dials>>

\* Another goroutine may have closed or established it in between.
WriteClosed(t) ==
    /\ ClosedBeforeReady
    /\ Goto(t, "recheck", "idle")
    /\ holder' = None
    /\ shut' = TRUE
    /\ UNCHANGED <<conn, ready, preset, connDl, lastSet, dials>>

WriteEstablished(t) ==
    /\ conn # "nil"
    /\ Goto(t, "recheck", "writeHeld")
    /\ UNCHANGED <<conn, ready, holder, preset, connDl, lastSet, shut, dials>>

\* Mutants: Write dials without looking again whether another goroutine
\* established the connection, or closed it, while it waited for the lock.
WriteDialAgain(t) ==
    /\ ~ ClosedBeforeReady
    /\ Goto(t, "recheck", "dial")
    /\ dials' = dials + 1
    /\ UNCHANGED <<conn, ready, holder, preset, connDl, lastSet, shut>>

WriteDialClosed(t) ==
    /\ conn = "nil"
    /\ Goto(t, "recheck", "dial")
    /\ dials' = dials + 1
    /\ UNCHANGED <<conn, ready, holder, preset, connDl, lastSet, shut>>

WriteDial(t) ==
    /\ conn = "nil" /\ ~ready
    /\ Goto(t, "recheck", "dial")
    /\ dials' = dials + 1
    /\ UNCHANGED <<conn, ready, holder, preset, connDl, lastSet, shut>>

\* Mutant: a failed dial does not close readyChan.
DialFailsSilently(t) ==
    /\ Goto(t, "dial", "idle")
    /\ holder' = None
    /\ UNCHANGED <<conn, ready, preset, connDl, lastSet, shut, dials>>

DialFails(t) ==
    /\ Goto(t, "dial", "idle")
    /\ ready' = TRUE
    /\ holder' = None
    /\ UNCHANGED <<conn, preset, connDl, lastSet, shut, dials>>

\* Mutant: only SetDeadline is remembered.
ApplyBothOnly == [d \in Dirs |-> preset["both"]]

\* The pre-set deadlines go to the new connection: deadline first, then
\* readDeadline and writeDeadline.
ApplyPreset ==
    [d \in Dirs |-> IF preset[d] # Unset THEN preset[d] ELSE preset["both"]]

\* Mutant: readyChan is closed before c.conn is assigned.
DialSucceedsEarly(t) ==
    /\ Goto(t, "dial", "publish")
    /\ connDl' = ApplyPreset
    /\ ready' = TRUE
    /\ UNCHANGED <<conn, holder, preset, lastSet, shut, dials>>

DialSucceeds(t) ==
    /\ Goto(t, "dial", "publish")
    /\ connDl' = ApplyPreset
    /\ UNCHANGED <<conn, ready, holder, preset, lastSet, shut, dials>>

\* c.conn = conn
WritePublish(t) ==
    /\ Goto(t, "publish", "announce")
    /\ conn' = "open"
    /\ UNCHANGED <<ready, holder, preset, connDl, lastSet, shut, dials>>

\* close(c.readyChan), and the deferred Unlock.
WriteAnnounce(t) ==
    /\ Goto(t, "announce", "idle")
    /\ ready' = TRUE
    /\ holder' = None
    /\ UNCHANGED <<conn, preset, connDl, lastSet, shut, dials>>

\* The real connection's Write returns; it was called without the lock, or,
\* by a goroutine that lost the race to dial, with the lock held.
WriteReturn(t) ==
    /\ Goto(t, "writeConn", "idle")
    /\ UNCHANGED <<conn, ready, holder, preset, connDl, lastSet, shut, dials>>

WriteHeldReturn(t) ==
    /\ Goto(t, "writeHeld", "idle")
    /\ holder' = None
    /\ UNCHANGED <<conn, ready, preset, connDl, lastSet, shut, dials>>

-----------------------------------------------------------------------------
(* Close and the deadline setters                                          *)

\* Close is called, and waits for connLock.
CloseStart(t) ==
    /\ Goto(t, "idle", "close")
    /\ UNCHANGED <<conn, ready, holder, preset, connDl, lastSet, shut, dials>>

\* Mutant: Close before the connection is ready leaves readyChan open.
CloseBodyLazy(t) ==
    /\ holder = None
    /\ Goto(t, "close", "idle")
    /\ conn' = IF conn = "nil" THEN conn ELSE "closed"
    /\ shut' = TRUE
    /\ UNCHANGED <<ready, holder, preset, connDl, lastSet, dials>>

\* Its locked section.  With no connection it closes readyChan, if that is
\* not closed yet; a connection is closed.
CloseBody(t) ==
    /\ holder = None
    /\ Goto(t, "close", "idle")
    /\ conn' = IF conn = "nil" THEN conn ELSE "closed"
    /\ ready' = (ready \/ conn = "nil")
    /\ shut' = TRUE
    /\ UNCHANGED <<holder, preset, connDl, lastSet, dials>>

\* SetDeadline, SetReadDeadline, SetWriteDeadline: the field is set whatever
\* happens next; then the real connection's deadline, or ErrClosed.
SetDeadline(t, k, x) ==
    /\ holder = None
    /\ pc[t] = "idle"
    /\ preset' = [preset EXCEPT ![k] = x]
    /\ connDl' = IF conn = "nil" THEN connDl ELSE Apply(connDl, k, x)
    /\ lastSet' = Apply(lastSet, k, x)
    /\ shut' = (shut \/ ClosedBeforeReady)
    /\ UNCHANGED <<conn, ready, holder, pc, dials>>

-----------------------------------------------------------------------------
Read(t)  == ReadStart(t) \/ ReadWake(t) \/ ReadCheck(t) \/ ReadReturn(t)

Write(t) ==
    \/ WriteStart(t) \/ WriteCheck(t) \/ WriteLock(t)
    \/ WriteClosed(t) \/ WriteEstablished(t) \/ WriteDial(t)
    \/ DialFails(t) \/ DialSucceeds(t)
    \/ WritePublish(t) \/ WriteAnnounce(t)
    \/ WriteReturn(t) \/ WriteHeldReturn(t)

Close(t) == CloseStart(t) \/ CloseBody(t)

Next == \E t \in Threads :
            \/ Read(t) \/ Write(t) \/ Close(t)
            \/ \E k \in Kinds, x \in Times : SetDeadline(t, k, x)

Spec == Init /\ [][Next]_vars

(* A goroutine that can run does run.  A dial ends (the dialer has a       *)
(* timeout), and Go's RWMutex lets no waiter starve.  Nothing makes the    *)
(* peer read, so a Write on the real connection may never return.          *)
Runs(t) ==
    \/ ReadWake(t) \/ ReadCheck(t)
    \/ WriteClosed(t) \/ WriteEstablished(t) \/ WriteDial(t)
    \/ DialFails(t) \/ DialSucceeds(t) \/ WritePublish(t) \/ WriteAnnounce(t)

TakesLock(t) == WriteCheck(t) \/ WriteLock(t) \/ CloseBody(t)

Fairness == \A t \in Threads : WF_vars(Runs(t)) /\ SF_vars(TakesLock(t))

FairSpec == Spec /\ Fairness

-----------------------------------------------------------------------------
(* Properties                                                              *)

TypeOK ==
    /\ conn \in {"nil", "open", "closed"}
    /\ ready \in BOOLEAN
    /\ holder \in Threads \cup {None}
    /\ preset \in [Kinds -> MaybeTime]
    /\ connDl \in [Dirs -> MaybeTime]
    /\ pc \in [Threads -> Points]
    /\ lastSet \in [Dirs -> MaybeTime]
    /\ shut \in BOOLEAN
    /\ dials \in Nat

\* Read looks at c.conn without the lock once readyChan is closed (62, 67);
\* that is no data race: no Write is then about to assign c.conn (118).
NoDataRace ==
    \A r, w \in Threads : ~ (pc[r] = "readCheck" /\ pc[w] = "publish")

\* The payload of the first Write goes out in one SYN: however many Writes,
\* Closes and failures race, the real dial is started at most once.
OneDial == dials <= 1

\* Once a Close has returned nil, or any call has answered ErrClosed, there
\* is no real connection left open and none on its way: nothing leaks.
NoConnAfterShut ==
    shut => conn # "open" /\ \A t \in Threads :
                                pc[t] \notin {"dial", "publish", "announce"}

\* Deadlines set before the connection exists are not lost: outside the
\* locked section the real connection has the latest one asked for, unless
\* SetDeadline and the setter of that direction were both used.
DeadlinesKept ==
    holder = None /\ conn # "nil" =>
        \A d \in Dirs : \/ connDl[d] = lastSet[d]
                        \/ preset["both"] # Unset /\ preset[d] # Unset

\* "Apply pre-set states" (107): the real connection starts with, and keeps,
\* the deadlines that the calls made so far, in their order, ask for.
DeadlinesInOrder == holder = None /\ conn # "nil" => connDl = lastSet

SomeoneOpensOrShuts ==
    \E t \in Threads : pc[t] \in {"writeLock", "recheck", "dial", "close"}

\* A Read that waits for the connection returns or goes on to read once some
\* goroutine is writing or closing: no path through Write or Close, a failed
\* dial among them, forgets to wake it.
WaitingReadWakes ==
    \A r \in Threads :
        (pc[r] = "readWait" /\ SomeoneOpensOrShuts) ~> pc[r] # "readWait"

\* Close returns, unless a Write that holds connLock is blocked by the peer.
CloseReturns ==
    \A t \in Threads :
        pc[t] = "close" ~> (pc[t] # "close" \/ \E w \in Threads : pc[w] = "writeHeld")

-----------------------------------------------------------------------------
(* The inductive invariant behind the safety properties                    *)

\* connLock excludes: the goroutine inside the section is its holder.
LockOwner == \A t \in Threads : pc[t] \in Locked <=> holder = t

\* Between the dial and the announcement nobody else sees a change: the
\* connection is neither published nor closed under the dialling Write.
DialInProgress ==
    \A t \in Threads :
        /\ pc[t] \in {"dial", "publish"} => conn = "nil" /\ ~ ready
        /\ pc[t] = "announce" => conn = "open" /\ ~ ready
        /\ pc[t] \in {"dial", "publish", "announce"} => dials = 1
        /\ pc[t] = "writeHeld" => conn # "nil"
        /\ pc[t] = "readCheck" => ready

\* One dial decides: with the lock free, or held by anyone but the dialler,
\* a started dial has ended and readyChan is closed.
DialDecided ==
    /\ dials \in {0, 1}
    /\ conn # "nil" => dials = 1
    /\ (dials = 1 \/ conn # "nil") =>
           \/ ready
           \/ \E t \in Threads : pc[t] \in {"dial", "publish", "announce"}

ShutIsFinal == shut => ready /\ conn # "open"

\* What the fields still hold, and what the connection was given, agree with
\* the calls made so far wherever order did not matter.
DeadlinesAgree ==
    \A d \in Dirs : preset["both"] = Unset \/ preset[d] = Unset =>
        /\ conn = "nil" => lastSet[d] = ApplyPreset[d]
        /\ (conn # "nil" \/ \E t \in Threads : pc[t] = "publish") => connDl[d] = lastSet[d]

\* Inductive: the lock, the dial and readyChan stay consistent through every
\* interleaving of Read, Write, Close and the setters.
Inv ==
    /\ TypeOK /\ LockOwner /\ DialInProgress
    /\ DialDecided /\ ShutIsFinal /\ DeadlinesAgree

=============================================================================
