-------------------------- MODULE GeoLoaderProofs ---------------------------
(***************************************************************************)
(* The safety of GeoLoader for every number of goroutines, processes and   *)
(* databases.  Inv is inductive: the mutex keeps a process's loads apart,  *)
(* and the rename of verified content keeps processes apart.               *)
(***************************************************************************)
EXTENDS GeoLoader, FiniteSetTheorems, TLAPS

\* The types, and the temporary files that go with the program counters.
Files == TypeOK /\ BodyThere /\ TempThere /\ TempOwned

\* A caller with a temporary file holds its process's mutex: a crash cuts one
\* download short at most.
LEMMA OneDownload ==
    ASSUME TypeOK, TempOwned, LockOwner, NEW p \in Procs
    PROVE  Cardinality(Downloads(p)) \in {0, 1}
<1>1. Downloads(p) \subseteq {mu[p]}
  BY GeoAssumption DEF Downloads, TypeOK, TempOwned, LockOwner, Holding
<1>2. IsFiniteSet({mu[p]}) /\ Cardinality({mu[p]}) = 1
  BY FS_Singleton
<1>3. IsFiniteSet(Downloads(p)) /\ Cardinality(Downloads(p)) <= 1
  BY <1>1, <1>2, FS_Subset
<1>4. Cardinality(Downloads(p)) \in Nat
  BY <1>3, FS_CardinalityType
<1>5. QED
  BY <1>3, <1>4

\* Files and temporary files: what is copied, verified and renamed exists.
LEMMA FilesStep ==
    ASSUME Files, LockOwner, [Next]_vars
    PROVE  Files'
<1> USE GeoAssumption DEF Files, TypeOK, BodyThere, TempThere, TempOwned, Contents
<1>1. ASSUME NEW c \in Callers, NEW d \in Databases, Call(c, d) PROVE Files'
  BY <1>1 DEF Call, Goto, still, config
<1>2. ASSUME NEW c \in Callers, Lock(c) PROVE Files'
  BY <1>2 DEF Lock, Goto, still, config
<1>3. ASSUME NEW c \in Callers, UseMap(c) PROVE Files'
  BY <1>3 DEF UseMap, Goto, Return, still, config
<1>4. ASSUME NEW c \in Callers, NoFormat(c) PROVE Files'
  BY <1>4 DEF NoFormat, Goto, Return, still, config
<1>5. ASSUME NEW c \in Callers, Stat(c) PROVE Files'
  BY <1>5 DEF Stat, Goto, still, config
<1>6. ASSUME NEW c \in Callers, GetFails(c) PROVE Files'
  BY <1>6 DEF GetFails, Goto, still, config
<1>7. ASSUME NEW c \in Callers, NEW x \in Contents, GetStarts(c, x) PROVE Files'
  BY <1>7 DEF GetStarts, Goto, still, config
<1>8. ASSUME NEW c \in Callers, Copy(c) PROVE Files'
  BY <1>8 DEF Copy, Goto, still, config
<1>9. ASSUME NEW c \in Callers, CopyFails(c) PROVE Files'
  BY <1>9 DEF CopyFails, Goto, still, config
<1>10. ASSUME NEW c \in Callers, Verify(c) PROVE Files'
  BY <1>10 DEF Verify, Goto, still, config
<1>11. ASSUME NEW c \in Callers, Rename(c) PROVE Files'
  BY <1>11 DEF Rename, Goto, still, config
<1>12. ASSUME NEW c \in Callers, RenameFails(c) PROVE Files'
  BY <1>12 DEF RenameFails, Goto, still, config
<1>13. ASSUME NEW c \in Callers, GiveUp(c) PROVE Files'
  BY <1>13 DEF GiveUp, Goto, Return, still, config
<1>14. ASSUME NEW c \in Callers, FallBack(c) PROVE Files'
  BY <1>14 DEF FallBack, Goto, still, config
<1>15. ASSUME NEW c \in Callers, Load(c) PROVE Files'
  BY <1>15 DEF Load, Goto, Return, still, config, Loads
<1>16. ASSUME NEW c \in Callers, LoadFails(c) PROVE Files'
  BY <1>16 DEF LoadFails, Goto, Return, still, config
<1>17. ASSUME NEW d \in Databases, Age(d) PROVE Files'
  BY <1>17 DEF Age, still, config
<1>18. ASSUME NEW p \in Procs, Crash(p) PROVE Files'
  <2>1. Cardinality(Downloads(p)) \in Nat
    BY OneDownload DEF Files
  <2>2. orphans' \in Nat /\ crashes' \in 0 .. MaxCrashes
    BY <1>18, <2>1 DEF Crash
  <2>3. QED
    BY <1>18, <2>2 DEF Crash, config
<1>19. CASE UNCHANGED vars
  BY <1>19 DEF vars, still, config
<1>20. QED
  BY <1>1, <1>2, <1>3, <1>4, <1>5, <1>6, <1>7, <1>8, <1>9, <1>10, <1>11,
     <1>12, <1>13, <1>14, <1>15, <1>16, <1>17, <1>18, <1>19
  DEF Next, Working, Transferring

\* Only a crash leaves a temporary file, and one at most.
LEMMA OrphansStep ==
    ASSUME Files, LockOwner, orphans <= crashes, [Next]_vars
    PROVE  (orphans <= crashes)'
<1>1. ASSUME NEW p \in Procs, Crash(p) PROVE (orphans <= crashes)'
  <2>1. Cardinality(Downloads(p)) \in {0, 1}
    BY OneDownload DEF Files
  <2>2. orphans \in Nat /\ crashes \in Nat
    BY GeoAssumption DEF Files, TypeOK
  <2>3. QED
    BY <1>1, <2>1, <2>2 DEF Crash
<1>2. CASE UNCHANGED <<orphans, crashes>>
  BY <1>2
<1>3. (\E p \in Procs : Crash(p)) \/ UNCHANGED <<orphans, crashes>>
  BY DEF Next, Working, Transferring, Call, Lock, UseMap, NoFormat, Stat, GetFails, GetStarts,
         Copy, CopyFails, Verify, Rename, RenameFails, GiveUp, FallBack, Load, LoadFails, Age,
         still, vars
<1>4. QED
  BY <1>1, <1>2, <1>3

\* Nobody touches a caller's temporary file between its verification and its rename.
LEMMA VerifiedStep ==
    ASSUME TypeOK, Verified, [Next]_vars
    PROVE  Verified'
<1> USE GeoAssumption DEF TypeOK, Verified, Loads
<1>1. ASSUME NEW c \in Callers, NEW d \in Databases, Call(c, d) PROVE Verified'
  BY <1>1 DEF Call, Goto, still, config
<1>2. ASSUME NEW c \in Callers, Lock(c) PROVE Verified'
  BY <1>2 DEF Lock, Goto, still, config
<1>3. ASSUME NEW c \in Callers, UseMap(c) PROVE Verified'
  BY <1>3 DEF UseMap, Goto, Return, still, config
<1>4. ASSUME NEW c \in Callers, NoFormat(c) PROVE Verified'
  BY <1>4 DEF NoFormat, Goto, Return, still, config
<1>5. ASSUME NEW c \in Callers, Stat(c) PROVE Verified'
  BY <1>5 DEF Stat, Goto, still, config
<1>6. ASSUME NEW c \in Callers, GetFails(c) PROVE Verified'
  BY <1>6 DEF GetFails, Goto, still, config
<1>7. ASSUME NEW c \in Callers, NEW x \in Contents, GetStarts(c, x) PROVE Verified'
  BY <1>7 DEF GetStarts, Goto, still, config
<1>8. ASSUME NEW c \in Callers, Copy(c) PROVE Verified'
  BY <1>8 DEF Copy, Goto, still, config
<1>9. ASSUME NEW c \in Callers, CopyFails(c) PROVE Verified'
  BY <1>9 DEF CopyFails, Goto, still, config
<1>10. ASSUME NEW c \in Callers, Verify(c) PROVE Verified'
  BY <1>10 DEF Verify, Goto, still, config
<1>11. ASSUME NEW c \in Callers, Rename(c) PROVE Verified'
  BY <1>11 DEF Rename, Goto, still, config
<1>12. ASSUME NEW c \in Callers, RenameFails(c) PROVE Verified'
  BY <1>12 DEF RenameFails, Goto, still, config
<1>13. ASSUME NEW c \in Callers, GiveUp(c) PROVE Verified'
  BY <1>13 DEF GiveUp, Goto, Return, still, config
<1>14. ASSUME NEW c \in Callers, FallBack(c) PROVE Verified'
  BY <1>14 DEF FallBack, Goto, still, config
<1>15. ASSUME NEW c \in Callers, Load(c) PROVE Verified'
  BY <1>15 DEF Load, Goto, Return, still, config
<1>16. ASSUME NEW c \in Callers, LoadFails(c) PROVE Verified'
  BY <1>16 DEF LoadFails, Goto, Return, still, config
<1>17. ASSUME NEW d \in Databases, Age(d) PROVE Verified'
  BY <1>17 DEF Age, still, config
<1>18. ASSUME NEW p \in Procs, Crash(p) PROVE Verified'
  BY <1>18 DEF Crash, still, config
<1>19. CASE UNCHANGED vars
  BY <1>19 DEF vars, still, config
<1>20. QED
  BY <1>1, <1>2, <1>3, <1>4, <1>5, <1>6, <1>7, <1>8, <1>9, <1>10, <1>11,
     <1>12, <1>13, <1>14, <1>15, <1>16, <1>17, <1>18, <1>19
  DEF Next, Working, Transferring

\* Mutual exclusion: only the holder of a process's mutex moves its callers on.
LEMMA LockOwnerStep ==
    ASSUME TypeOK, LockOwner, [Next]_vars
    PROVE  LockOwner'
<1> USE GeoAssumption DEF TypeOK, LockOwner, Holding
<1>1. ASSUME NEW c \in Callers, NEW d \in Databases, Call(c, d) PROVE LockOwner'
  BY <1>1 DEF Call, Goto, still, config
<1>2. ASSUME NEW c \in Callers, Lock(c) PROVE LockOwner'
  BY <1>2 DEF Lock, Goto, still, config
<1>3. ASSUME NEW c \in Callers, UseMap(c) PROVE LockOwner'
  BY <1>3 DEF UseMap, Goto, Return, still, config
<1>4. ASSUME NEW c \in Callers, NoFormat(c) PROVE LockOwner'
  BY <1>4 DEF NoFormat, Goto, Return, still, config
<1>5. ASSUME NEW c \in Callers, Stat(c) PROVE LockOwner'
  BY <1>5 DEF Stat, Goto, still, config
<1>6. ASSUME NEW c \in Callers, GetFails(c) PROVE LockOwner'
  BY <1>6 DEF GetFails, Goto, still, config
<1>7. ASSUME NEW c \in Callers, NEW x \in Contents, GetStarts(c, x) PROVE LockOwner'
  BY <1>7 DEF GetStarts, Goto, still, config
<1>8. ASSUME NEW c \in Callers, Copy(c) PROVE LockOwner'
  BY <1>8 DEF Copy, Goto, still, config
<1>9. ASSUME NEW c \in Callers, CopyFails(c) PROVE LockOwner'
  BY <1>9 DEF CopyFails, Goto, still, config
<1>10. ASSUME NEW c \in Callers, Verify(c) PROVE LockOwner'
  BY <1>10 DEF Verify, Goto, still, config
<1>11. ASSUME NEW c \in Callers, Rename(c) PROVE LockOwner'
  BY <1>11 DEF Rename, Goto, still, config
<1>12. ASSUME NEW c \in Callers, RenameFails(c) PROVE LockOwner'
  BY <1>12 DEF RenameFails, Goto, still, config
<1>13. ASSUME NEW c \in Callers, GiveUp(c) PROVE LockOwner'
  BY <1>13 DEF GiveUp, Goto, Return, still, config
<1>14. ASSUME NEW c \in Callers, FallBack(c) PROVE LockOwner'
  BY <1>14 DEF FallBack, Goto, still, config
<1>15. ASSUME NEW c \in Callers, Load(c) PROVE LockOwner'
  BY <1>15 DEF Load, Goto, Return, still, config
<1>16. ASSUME NEW c \in Callers, LoadFails(c) PROVE LockOwner'
  BY <1>16 DEF LoadFails, Goto, Return, still, config
<1>17. ASSUME NEW d \in Databases, Age(d) PROVE LockOwner'
  BY <1>17 DEF Age, still, config
<1>18. ASSUME NEW p \in Procs, Crash(p) PROVE LockOwner'
  BY <1>18 DEF Crash, still, config
<1>19. CASE UNCHANGED vars
  BY <1>19 DEF vars, still, config
<1>20. QED
  BY <1>1, <1>2, <1>3, <1>4, <1>5, <1>6, <1>7, <1>8, <1>9, <1>10, <1>11,
     <1>12, <1>13, <1>14, <1>15, <1>16, <1>17, <1>18, <1>19
  DEF Next, Working, Transferring

\* A map appears only at the end of the holder's own call.
LEMMA StillUnloadedStep ==
    ASSUME TypeOK, LockOwner, StillUnloaded, [Next]_vars
    PROVE  StillUnloaded'
<1> USE GeoAssumption DEF TypeOK, LockOwner, StillUnloaded, Holding
<1>1. ASSUME NEW c \in Callers, NEW d \in Databases, Call(c, d) PROVE StillUnloaded'
  BY <1>1 DEF Call, Goto, still, config
<1>2. ASSUME NEW c \in Callers, Lock(c) PROVE StillUnloaded'
  BY <1>2 DEF Lock, Goto, still, config
<1>3. ASSUME NEW c \in Callers, UseMap(c) PROVE StillUnloaded'
  BY <1>3 DEF UseMap, Goto, Return, still, config
<1>4. ASSUME NEW c \in Callers, NoFormat(c) PROVE StillUnloaded'
  BY <1>4 DEF NoFormat, Goto, Return, still, config
<1>5. ASSUME NEW c \in Callers, Stat(c) PROVE StillUnloaded'
  BY <1>5 DEF Stat, Goto, still, config
<1>6. ASSUME NEW c \in Callers, GetFails(c) PROVE StillUnloaded'
  BY <1>6 DEF GetFails, Goto, still, config
<1>7. ASSUME NEW c \in Callers, NEW x \in Contents, GetStarts(c, x) PROVE StillUnloaded'
  BY <1>7 DEF GetStarts, Goto, still, config
<1>8. ASSUME NEW c \in Callers, Copy(c) PROVE StillUnloaded'
  BY <1>8 DEF Copy, Goto, still, config
<1>9. ASSUME NEW c \in Callers, CopyFails(c) PROVE StillUnloaded'
  BY <1>9 DEF CopyFails, Goto, still, config
<1>10. ASSUME NEW c \in Callers, Verify(c) PROVE StillUnloaded'
  BY <1>10 DEF Verify, Goto, still, config
<1>11. ASSUME NEW c \in Callers, Rename(c) PROVE StillUnloaded'
  BY <1>11 DEF Rename, Goto, still, config
<1>12. ASSUME NEW c \in Callers, RenameFails(c) PROVE StillUnloaded'
  BY <1>12 DEF RenameFails, Goto, still, config
<1>13. ASSUME NEW c \in Callers, GiveUp(c) PROVE StillUnloaded'
  BY <1>13 DEF GiveUp, Goto, Return, still, config
<1>14. ASSUME NEW c \in Callers, FallBack(c) PROVE StillUnloaded'
  BY <1>14 DEF FallBack, Goto, still, config
<1>15. ASSUME NEW c \in Callers, Load(c) PROVE StillUnloaded'
  BY <1>15 DEF Load, Goto, Return, still, config
<1>16. ASSUME NEW c \in Callers, LoadFails(c) PROVE StillUnloaded'
  BY <1>16 DEF LoadFails, Goto, Return, still, config
<1>17. ASSUME NEW d \in Databases, Age(d) PROVE StillUnloaded'
  BY <1>17 DEF Age, still, config
<1>18. ASSUME NEW p \in Procs, Crash(p) PROVE StillUnloaded'
  BY <1>18 DEF Crash, still, config
<1>19. CASE UNCHANGED vars
  BY <1>19 DEF vars, still, config
<1>20. QED
  BY <1>1, <1>2, <1>3, <1>4, <1>5, <1>6, <1>7, <1>8, <1>9, <1>10, <1>11,
     <1>12, <1>13, <1>14, <1>15, <1>16, <1>17, <1>18, <1>19
  DEF Next, Working, Transferring

\* So a map that was given out is never replaced.
LEMMA OneMapStep ==
    ASSUME TypeOK, LockOwner, StillUnloaded, OneMapPerProcess, [Next]_vars
    PROVE  OneMapPerProcess'
<1> USE GeoAssumption DEF TypeOK, LockOwner, StillUnloaded, OneMapPerProcess, Holding, Contents
<1>1. ASSUME NEW c \in Callers, NEW d \in Databases, Call(c, d) PROVE OneMapPerProcess'
  BY <1>1 DEF Call, Goto, still, config
<1>2. ASSUME NEW c \in Callers, Lock(c) PROVE OneMapPerProcess'
  BY <1>2 DEF Lock, Goto, still, config
<1>3. ASSUME NEW c \in Callers, UseMap(c) PROVE OneMapPerProcess'
  BY <1>3 DEF UseMap, Goto, Return, still, config
<1>4. ASSUME NEW c \in Callers, NoFormat(c) PROVE OneMapPerProcess'
  BY <1>4 DEF NoFormat, Goto, Return, still, config
<1>5. ASSUME NEW c \in Callers, Stat(c) PROVE OneMapPerProcess'
  BY <1>5 DEF Stat, Goto, still, config
<1>6. ASSUME NEW c \in Callers, GetFails(c) PROVE OneMapPerProcess'
  BY <1>6 DEF GetFails, Goto, still, config
<1>7. ASSUME NEW c \in Callers, NEW x \in Contents, GetStarts(c, x) PROVE OneMapPerProcess'
  BY <1>7 DEF GetStarts, Goto, still, config
<1>8. ASSUME NEW c \in Callers, Copy(c) PROVE OneMapPerProcess'
  BY <1>8 DEF Copy, Goto, still, config
<1>9. ASSUME NEW c \in Callers, CopyFails(c) PROVE OneMapPerProcess'
  BY <1>9 DEF CopyFails, Goto, still, config
<1>10. ASSUME NEW c \in Callers, Verify(c) PROVE OneMapPerProcess'
  BY <1>10 DEF Verify, Goto, still, config
<1>11. ASSUME NEW c \in Callers, Rename(c) PROVE OneMapPerProcess'
  BY <1>11 DEF Rename, Goto, still, config
<1>12. ASSUME NEW c \in Callers, RenameFails(c) PROVE OneMapPerProcess'
  BY <1>12 DEF RenameFails, Goto, still, config
<1>13. ASSUME NEW c \in Callers, GiveUp(c) PROVE OneMapPerProcess'
  BY <1>13 DEF GiveUp, Goto, Return, still, config
<1>14. ASSUME NEW c \in Callers, FallBack(c) PROVE OneMapPerProcess'
  BY <1>14 DEF FallBack, Goto, still, config
<1>15. ASSUME NEW c \in Callers, Load(c) PROVE OneMapPerProcess'
  <2> SUFFICES ASSUME NEW e \in Callers, answer'[e] \in Contents
               PROVE  map'[ProcOf[e]][want'[e]] = answer'[e]
    OBVIOUS
  <2>1. /\ want' = want
        /\ answer' = [answer EXCEPT ![c] = file[want[c]]]
        /\ map' = [map EXCEPT ![ProcOf[c]][want[c]] = file[want[c]]]
        /\ map[ProcOf[c]][want[c]] = "none"
    BY <1>15 DEF Load, Goto, Return
  <2>2. CASE e = c
    BY <2>1, <2>2
  <2>3. CASE e # c
    <3>1. answer[e] \in Contents /\ map[ProcOf[e]][want[e]] = answer[e] /\ answer[e] # "none"
      BY <2>1, <2>3
    <3>2. QED
      BY <2>1, <2>3, <3>1
  <2>4. QED
    BY <2>2, <2>3
<1>16. ASSUME NEW c \in Callers, LoadFails(c) PROVE OneMapPerProcess'
  BY <1>16 DEF LoadFails, Goto, Return, still, config
<1>17. ASSUME NEW d \in Databases, Age(d) PROVE OneMapPerProcess'
  BY <1>17 DEF Age, still, config
<1>18. ASSUME NEW p \in Procs, Crash(p) PROVE OneMapPerProcess'
  BY <1>18 DEF Crash, still, config
<1>19. CASE UNCHANGED vars
  BY <1>19 DEF vars, still, config
<1>20. QED
  BY <1>1, <1>2, <1>3, <1>4, <1>5, <1>6, <1>7, <1>8, <1>9, <1>10, <1>11,
     <1>12, <1>13, <1>14, <1>15, <1>16, <1>17, <1>18, <1>19
  DEF Next, Working, Transferring

\* Every behaviour of the loaders satisfies Inv.
THEOREM Invariance == Spec => []Inv
<1>1. Init => Inv
  BY GeoAssumption
  DEF Init, Inv, TypeOK, LockOwner, StillUnloaded, Verified, BodyThere, TempThere,
      TempsRemoved, TempOwned, OneMapPerProcess, Holding, Contents
<1>2. Inv /\ [Next]_vars => Inv'
  BY FilesStep, OrphansStep, VerifiedStep, LockOwnerStep, StillUnloadedStep, OneMapStep
  DEF Inv, Files, TempsRemoved
<1>3. QED
  BY <1>1, <1>2, PTL DEF Spec

\* Callers of one process that got a database got the same map.
THEOREM OneMapPerProcessHolds == Spec => []OneMapPerProcess
<1>1. Inv => OneMapPerProcess
  BY DEF Inv
<1>2. QED
  BY Invariance, <1>1, PTL

\* A call that goes on or returns has removed its temporary file, and every crash
\* leaves one at most.
THEOREM TempsRemovedHolds == Spec => []TempsRemoved
<1>1. Inv => TempsRemoved
  BY DEF Inv
<1>2. QED
  BY Invariance, <1>1, PTL

\* No step of any process, a crash included, makes a loadable file unloadable.
THEOREM StaysLoadableHolds == Spec => StaysLoadable
<1>1. Inv /\ [Next]_vars => [KeepsLoadable]_vars
  <2> SUFFICES ASSUME Inv, Next, NEW d \in Databases, Loads(d, file[d])
               PROVE  Loads(d, file[d]')
    BY DEF KeepsLoadable
  <2>1. format' = format
    BY DEF Next, Working, Transferring, Call, Lock, UseMap, NoFormat, Stat, GetFails, GetStarts, Copy,
           CopyFails, Verify, Rename, RenameFails, GiveUp, FallBack, Load, LoadFails, Age, Crash, still, config
  <2>2. CASE \E c \in Callers : Rename(c)
    BY <2>1, <2>2 DEF Rename, Goto, Inv, TypeOK, Verified, Loads
  <2>3. CASE file' = file
    BY <2>1, <2>3 DEF Loads
  <2>4. (\E c \in Callers : Rename(c)) \/ file' = file
    BY DEF Next, Working, Transferring, Call, Lock, UseMap, NoFormat, Stat, GetFails, GetStarts, Copy,
           CopyFails, Verify, RenameFails, GiveUp, FallBack, Load, LoadFails, Age, Crash
  <2>5. QED
    BY <2>2, <2>3, <2>4
<1>2. QED
  BY Invariance, <1>1, PTL DEF Spec, StaysLoadable

\* An error is answered only without a format or without a file that loads.
THEOREM FailsOnlyWithoutFileHolds == Spec => FailsOnlyWithoutFile
<1>1. Inv /\ [Next]_vars => [FailureJustified]_vars
  <2> SUFFICES ASSUME Inv, Next, NEW c \in Callers,
                      answer[c] = "none", answer'[c] = "error"
               PROVE  format[want[c]] = "unset" \/ ~ Loads(want[c], file[want[c]])
    BY DEF FailureJustified
  <2>1. answer'[c] # answer[c]
    OBVIOUS
  <2>2. NoFormat(c) \/ GiveUp(c) \/ LoadFails(c)
    <3>1. ASSUME NEW e \in Callers
          PROVE  ~ (\/ Lock(e) \/ Stat(e) \/ GetFails(e) \/ Copy(e) \/ CopyFails(e)
                    \/ Verify(e) \/ Rename(e) \/ RenameFails(e) \/ FallBack(e)
                    \/ \E x \in Contents : GetStarts(e, x))
      BY <2>1
      DEF Lock, Stat, GetFails, GetStarts, Copy, CopyFails, Verify, Rename, RenameFails,
          FallBack
    <3>2. ASSUME NEW p \in Procs PROVE ~ Crash(p)
      BY <2>1 DEF Crash
    <3>3. ASSUME NEW e \in Callers, NEW d \in Databases PROVE ~ (Call(e, d) \/ Age(d))
      BY <2>1 DEF Call, Age, Inv, TypeOK
    <3>4. ASSUME NEW e \in Callers PROVE ~ UseMap(e)
      <4>1. map[ProcOf[e]][want[e]] \in Contents \cup {"none"}
        BY GeoAssumption DEF Inv, TypeOK
      <4>2. map[ProcOf[e]][want[e]] # "error"
        BY <4>1, GeoAssumption DEF Contents
      <4>3. QED
        BY <2>1, <4>2 DEF UseMap, Return, Inv, TypeOK
    <3>5. ASSUME NEW e \in Callers PROVE ~ Load(e)
      BY <2>1, GeoAssumption DEF Load, Loads, Return, Inv, TypeOK
    <3>6. ASSUME NEW e \in Callers, NoFormat(e) \/ GiveUp(e) \/ LoadFails(e) PROVE e = c
      BY <2>1, <3>6 DEF NoFormat, GiveUp, LoadFails, Return, Inv, TypeOK
    <3>7. \/ \E e \in Callers : NoFormat(e) \/ GiveUp(e) \/ LoadFails(e)
          \/ \E d \in Databases : Age(d)
      BY <3>1, <3>2, <3>3, <3>4, <3>5 DEF Next, Working, Transferring
    <3>8. QED
      BY <3>3, <3>6, <3>7
  <2>3. CASE NoFormat(c)
    BY <2>3 DEF NoFormat
  <2>4. CASE GiveUp(c)
    BY <2>4, GeoAssumption DEF GiveUp, Loads
  <2>5. CASE LoadFails(c)
    BY <2>5 DEF LoadFails
  <2>6. QED
    BY <2>2, <2>3, <2>4, <2>5
<1>2. QED
  BY Invariance, <1>1, PTL DEF Spec, FailsOnlyWithoutFile

=============================================================================
