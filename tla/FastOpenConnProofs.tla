------------------------- MODULE FastOpenConnProofs -------------------------
(***************************************************************************)
(* The safety of FastOpenConn for every set of goroutines and of times.    *)
(* Inv is inductive; the safety properties follow from it state by state.  *)
(***************************************************************************)
EXTENDS FastOpenConn, TLAPS

\* The initial state, nobody inside and nothing dialled, satisfies Inv.
LEMMA InitInv == Init => Inv
<1> SUFFICES ASSUME Init PROVE Inv
  OBVIOUS
<1> USE FastOpenAssumption DEF Init
<1>1. TypeOK
  BY DEF TypeOK, Kinds, Dirs, MaybeTime, Points
<1>2. LockOwner /\ DialInProgress
  BY DEF LockOwner, DialInProgress, Locked
<1>3. DialDecided /\ ShutIsFinal
  BY DEF DialDecided, ShutIsFinal
<1>4. DeadlinesAgree
  BY DEF DeadlinesAgree, ApplyPreset, Kinds, Dirs
<1>5. QED
  BY <1>1, <1>2, <1>3, <1>4 DEF Inv

\* The steps of Read change pc, and shut only when the connection is closed.
LEMMA ReadInv ==
    ASSUME Inv, NEW t \in Threads, Read(t)
    PROVE  Inv'
<1> USE FastOpenAssumption
    DEF Inv, TypeOK, LockOwner, DialInProgress, DialDecided, ShutIsFinal,
        DeadlinesAgree, ApplyPreset, Kinds, Dirs, MaybeTime, Points, Locked, Goto
<1>1. CASE ReadStart(t)
  BY <1>1 DEF ReadStart
<1>2. CASE ReadWake(t)
  BY <1>2 DEF ReadWake
<1>3. CASE ReadCheck(t)
  BY <1>3 DEF ReadCheck
<1>4. CASE ReadReturn(t)
  BY <1>4 DEF ReadReturn
<1>5. QED
  BY <1>1, <1>2, <1>3, <1>4 DEF Read

\* The steps of Write: everything between WriteLock and the unlock is done by
\* the holder of connLock, so it meets the state it left.
LEMMA WriteInv ==
    ASSUME Inv, NEW t \in Threads, Write(t)
    PROVE  Inv'
<1> USE FastOpenAssumption
    DEF Inv, TypeOK, LockOwner, DialInProgress, DialDecided, ShutIsFinal,
        DeadlinesAgree, Kinds, Dirs, MaybeTime, Points, Locked, Goto, ApplyPreset
<1>1. CASE WriteStart(t)
  BY <1>1 DEF WriteStart
<1>2. CASE WriteCheck(t)
  BY <1>2 DEF WriteCheck, ClosedBeforeReady
<1>3. CASE WriteLock(t)
  BY <1>3 DEF WriteLock
<1>4. CASE WriteClosed(t)
  BY <1>4 DEF WriteClosed, ClosedBeforeReady
<1>5. CASE WriteEstablished(t)
  BY <1>5 DEF WriteEstablished
<1>6. CASE WriteDial(t)
  BY <1>6 DEF WriteDial
<1>7. CASE DialFails(t)
  BY <1>7 DEF DialFails
<1>8. CASE DialSucceeds(t)
  BY <1>8 DEF DialSucceeds
<1>9. CASE WritePublish(t)
  BY <1>9 DEF WritePublish
<1>10. CASE WriteAnnounce(t)
  BY <1>10 DEF WriteAnnounce
<1>11. CASE WriteReturn(t)
  BY <1>11 DEF WriteReturn
<1>12. CASE WriteHeldReturn(t)
  BY <1>12 DEF WriteHeldReturn
<1>13. QED
  BY <1>1, <1>2, <1>3, <1>4, <1>5, <1>6, <1>7, <1>8, <1>9, <1>10, <1>11, <1>12
  DEF Write

\* Close and the setters run with the lock free: no dial is in progress.
LEMMA CloseInv ==
    ASSUME Inv, NEW t \in Threads, Close(t)
    PROVE  Inv'
<1> USE FastOpenAssumption
    DEF Inv, TypeOK, LockOwner, DialInProgress, DialDecided, ShutIsFinal,
        DeadlinesAgree, ApplyPreset, Kinds, Dirs, MaybeTime, Points, Locked, Goto
<1>1. CASE CloseStart(t)
  BY <1>1 DEF CloseStart
<1>2. CASE CloseBody(t)
  BY <1>2 DEF CloseBody
<1>3. QED
  BY <1>1, <1>2 DEF Close

LEMMA SetDeadlineInv ==
    ASSUME Inv, NEW t \in Threads, NEW k \in Kinds, NEW x \in Times,
           SetDeadline(t, k, x)
    PROVE  Inv'
<1> USE FastOpenAssumption
    DEF Inv, TypeOK, LockOwner, DialInProgress, DialDecided, ShutIsFinal,
        DeadlinesAgree, ApplyPreset, Apply, Reaches, ClosedBeforeReady,
        Kinds, Dirs, MaybeTime, Points, Locked
<1> QED
  BY DEF SetDeadline

\* Every behaviour of fastOpenConn satisfies Inv.
THEOREM Invariance == Spec => []Inv
<1>1. Inv /\ [Next]_vars => Inv'
  <2> SUFFICES ASSUME Inv, [Next]_vars PROVE Inv'
    OBVIOUS
  <2>1. CASE UNCHANGED vars
    BY <2>1
    DEF vars, Inv, TypeOK, LockOwner, DialInProgress, DialDecided, ShutIsFinal,
        DeadlinesAgree, ApplyPreset
  <2>2. CASE Next
    BY <2>2, ReadInv, WriteInv, CloseInv, SetDeadlineInv DEF Next
  <2>3. QED
    BY <2>1, <2>2
<1>2. QED
  BY InitInv, <1>1, PTL DEF Spec

\* Read's unlocked look at c.conn never races with Write's assignment.
THEOREM NoDataRaceHolds == Spec => []NoDataRace
<1>1. Inv => NoDataRace
  BY DEF Inv, DialInProgress, NoDataRace
<1>2. QED
  BY Invariance, <1>1, PTL

\* The real dial is started at most once.
THEOREM OneDialHolds == Spec => []OneDial
<1>1. Inv => OneDial
  BY DEF Inv, DialDecided, OneDial
<1>2. QED
  BY Invariance, <1>1, PTL

\* After a Close, or an ErrClosed, no connection is open or on its way.
THEOREM NoConnAfterShutHolds == Spec => []NoConnAfterShut
<1>1. Inv => NoConnAfterShut
  BY DEF Inv, DialInProgress, ShutIsFinal, NoConnAfterShut
<1>2. QED
  BY Invariance, <1>1, PTL

\* A deadline set before the connection exists is in force on it, when only
\* one of SetDeadline and that direction's setter was used.
THEOREM DeadlinesKeptHolds == Spec => []DeadlinesKept
<1>1. Inv => DeadlinesKept
  BY DEF Inv, DeadlinesAgree, DeadlinesKept
<1>2. QED
  BY Invariance, <1>1, PTL

\* A step never replaces the connection: once set it stays set, and a closed
\* one is not opened again.
ConnStable == conn # "nil" => conn' # "nil" /\ (conn = "closed" => conn' = "closed")

\* c.conn is assigned once: Write's check under the lock keeps a second
\* assignment out.
THEOREM ConnAssignedOnce == Spec => [][ConnStable]_vars
<1>1. Inv /\ [Next]_vars => [ConnStable]_vars
  <2> SUFFICES ASSUME Inv, Next PROVE ConnStable
    OBVIOUS
  <2> USE DEF ConnStable
  <2>1. CASE \E t \in Threads : Read(t)
    BY <2>1 DEF Read, ReadStart, ReadWake, ReadCheck, ReadReturn
  <2>2. CASE \E t \in Threads : Write(t)
    BY <2>2
    DEF Inv, DialInProgress, Goto,
        Write, WriteStart, WriteCheck, WriteLock, WriteClosed, WriteEstablished,
        WriteDial, DialFails, DialSucceeds, WritePublish, WriteAnnounce,
        WriteReturn, WriteHeldReturn
  <2>3. CASE \E t \in Threads : Close(t)
    BY <2>3 DEF Close, CloseStart, CloseBody
  <2>4. CASE \E t \in Threads, k \in Kinds, x \in Times : SetDeadline(t, k, x)
    BY <2>4 DEF SetDeadline
  <2>5. QED
    BY <2>1, <2>2, <2>3, <2>4 DEF Next
<1>2. QED
  BY Invariance, <1>1, PTL DEF Spec

=============================================================================
