----------------------------- MODULE GeoLoader ------------------------------
(***************************************************************************)
(* AutoGeoLoader (pkg/acl/geoloader.go): load a geo database on demand,    *)
(* downloading it when it is missing, empty or old.  Goroutines of one     *)
(* process share a loader and its mutex; several processes share the data  *)
(* directory, and a process may crash at any point, leaving its temporary  *)
(* file behind.  LoadGeoIP and LoadGeoSite are the same handler for two    *)
(* databases: `d' below.                                                   *)
(*                                                                         *)
(* A file's content is a value of Contents; what a loader makes of it is   *)
(* Loads.  The data of a loaded map is the content it was made from.       *)
(***************************************************************************)
EXTENDS Naturals, FiniteSets

CONSTANTS
    Callers,        \* goroutines
    Procs,          \* processes, with one loader each
    ProcOf,         \* the process of each caller
    Databases,      \* geoip, geosite
    Versions,       \* well-formed contents with entries in them
    MaxCrashes,     \* bound: how often processes crash
    None

ASSUME GeoAssumption ==
    /\ ProcOf \in [Callers -> Procs]
    /\ None \notin Callers
    /\ MaxCrashes \in Nat
    /\ Versions \cap {"absent", "empty", "garbage", "error", "none"} = {}

Formats  == {"unset", "dat", "mmdb"}        \* unset: cannot be detected
Contents == Versions \cup {"empty", "garbage"}

VARIABLES
    format,     \* per database
    url,        \* per database: a download URL is configured
    file,       \* per database: the file's content, or "absent"
    old,        \* per database: the file is older than the update interval
    temp,       \* per caller: content of its temporary file, or "none"
    orphans,    \* how many temporary files of dead processes the directory has
    crashes,    \* ghost: how often a process has crashed
    mu,         \* per process: the caller that holds l.mu
    map,        \* per process and database: what geoIPMap holds, or "none"
    pc, want,   \* per caller: where it is, and the database it asked for
    body,       \* per caller: what the server is sending
    answer      \* per caller: "none", "error", or the content behind the map

vars == <<format, url, file, old, temp, orphans, crashes, mu, map, pc, want, body, answer>>

config == <<format, url>>
still  == <<config, orphans, crashes>>      \* what no call changes

\* A protobuf list may be empty; an MMDB, MetaDB or sing file has a header.
Loads(d, content) ==
    \/ content \in Versions
    \/ content = "empty" /\ format[d] = "dat"

Init ==
    /\ format \in [Databases -> Formats]
    /\ url \in [Databases -> BOOLEAN]
    /\ file \in [Databases -> Contents \cup {"absent"}]
    /\ old = [d \in Databases |-> FALSE]
    /\ temp = [c \in Callers |-> "none"]
    /\ orphans = 0 /\ crashes = 0
    /\ mu = [p \in Procs |-> None]
    /\ map = [p \in Procs |-> [d \in Databases |-> "none"]]
    /\ pc = [c \in Callers |-> "idle"]
    /\ want \in [Callers -> Databases]
    /\ body = [c \in Callers |-> "none"]
    /\ answer = [c \in Callers |-> "none"]

Goto(c, from, to) == pc[c] = from /\ pc' = [pc EXCEPT ![c] = to]

\* The call returns, and the deferred unlock runs.
Return(c, from, what) ==
    /\ Goto(c, from, "idle")
    /\ mu' = [mu EXCEPT ![ProcOf[c]] = None]
    /\ answer' = [answer EXCEPT ![c] = what]

-----------------------------------------------------------------------------
Call(c, d) ==
    /\ Goto(c, "idle", "lock")
    /\ want' = [want EXCEPT ![c] = d]
    /\ answer' = [answer EXCEPT ![c] = "none"]
    /\ UNCHANGED <<still, file, old, temp, mu, map, body>>

\* Mutant: no mutex.
LockNothing(c) ==
    /\ Goto(c, "lock", "cached")
    /\ mu' = [mu EXCEPT ![ProcOf[c]] = c]
    /\ UNCHANGED <<still, file, old, temp, map, want, body, answer>>

Lock(c) ==
    /\ mu[ProcOf[c]] = None
    /\ Goto(c, "lock", "cached")
    /\ mu' = [mu EXCEPT ![ProcOf[c]] = c]
    /\ UNCHANGED <<still, file, old, temp, map, want, body, answer>>

\* A map that was loaded before is returned as it is.
UseMap(c) ==
    /\ map[ProcOf[c]][want[c]] # "none"
    /\ Return(c, "cached", map[ProcOf[c]][want[c]])
    /\ UNCHANGED <<still, file, old, temp, map, want, body>>

\* Mutant: the early return leaves the mutex locked.
NoFormatKeepsLock(c) ==
    /\ map[ProcOf[c]][want[c]] = "none"
    /\ format[want[c]] = "unset"
    /\ Goto(c, "cached", "idle")
    /\ answer' = [answer EXCEPT ![c] = "error"]
    /\ UNCHANGED <<still, file, old, temp, mu, map, want, body>>

NoFormat(c) ==
    /\ map[ProcOf[c]][want[c]] = "none"
    /\ format[want[c]] = "unset"
    /\ Return(c, "cached", "error")
    /\ UNCHANGED <<still, file, old, temp, map, want, body>>

\* shouldDownload: the file is missing, empty or old.
ShouldDownload(d) == file[d] \in {"absent", "empty"} \/ old[d]

\* Mutant: the early return of a loaded map is left out.
StatAlways(c) ==
    /\ format[want[c]] # "unset"
    /\ Goto(c, "cached", IF ShouldDownload(want[c]) THEN "get" ELSE "load")
    /\ UNCHANGED <<still, file, old, temp, mu, map, want, body, answer>>

Stat(c) ==
    /\ map[ProcOf[c]][want[c]] = "none"
    /\ format[want[c]] # "unset"
    /\ Goto(c, "cached", IF ShouldDownload(want[c]) THEN "get" ELSE "load")
    /\ UNCHANGED <<still, file, old, temp, mu, map, want, body, answer>>

-----------------------------------------------------------------------------
(* download.  Every error removes the temporary file, if it exists yet.    *)

\* No URL, no directory, no connection, or a status other than 200.
GetFails(c) ==
    /\ Goto(c, "get", "failed")
    /\ UNCHANGED <<still, file, old, temp, mu, map, want, body, answer>>

\* The server answers 200; CreateTemp makes an empty file.
GetStarts(c, content) ==
    /\ url[want[c]]
    /\ Goto(c, "get", "copy")
    /\ body' = [body EXCEPT ![c] = content]
    /\ temp' = [temp EXCEPT ![c] = "empty"]
    /\ UNCHANGED <<still, file, old, mu, map, want, answer>>

Copy(c) ==
    /\ Goto(c, "copy", "verify")
    /\ temp' = [temp EXCEPT ![c] = body[c]]
    /\ body' = [body EXCEPT ![c] = "none"]
    /\ UNCHANGED <<still, file, old, mu, map, want, answer>>

\* Mutant: the temporary file stays when the transfer breaks off.
CopyFailsKeepingTemp(c) ==
    /\ Goto(c, "copy", "failed")
    /\ body' = [body EXCEPT ![c] = "none"]
    /\ UNCHANGED <<still, file, old, temp, mu, map, want, answer>>

\* The transfer breaks off, or the disk is full.
CopyFails(c) ==
    /\ Goto(c, "copy", "failed")
    /\ temp' = [temp EXCEPT ![c] = "none"]
    /\ body' = [body EXCEPT ![c] = "none"]
    /\ UNCHANGED <<still, file, old, mu, map, want, answer>>

\* Mutant: the integrity check is forgotten.
VerifyNothing(c) ==
    /\ Goto(c, "verify", "rename")
    /\ UNCHANGED <<still, file, old, temp, mu, map, want, body, answer>>

\* checkFunc loads the temporary file in the loader's format.
Verify(c) ==
    /\ Goto(c, "verify", IF Loads(want[c], temp[c]) THEN "rename" ELSE "failed")
    /\ temp' = IF Loads(want[c], temp[c]) THEN temp ELSE [temp EXCEPT ![c] = "none"]
    /\ UNCHANGED <<still, file, old, mu, map, want, body, answer>>

Rename(c) ==
    /\ Goto(c, "rename", "load")
    /\ file' = [file EXCEPT ![want[c]] = temp[c]]
    /\ old'  = [old EXCEPT ![want[c]] = FALSE]
    /\ temp' = [temp EXCEPT ![c] = "none"]
    /\ UNCHANGED <<still, mu, map, want, body, answer>>

RenameFails(c) ==
    /\ Goto(c, "rename", "failed")
    /\ temp' = [temp EXCEPT ![c] = "none"]
    /\ UNCHANGED <<still, file, old, mu, map, want, body, answer>>

-----------------------------------------------------------------------------
(* After the download                                                      *)

\* Mutant: a failed download fails the call.
GiveUpAlways(c) ==
    /\ Return(c, "failed", "error")
    /\ UNCHANGED <<still, file, old, temp, map, want, body>>

\* "If download fails but file exists, try to use it."
GiveUp(c) ==
    /\ file[want[c]] = "absent"
    /\ Return(c, "failed", "error")
    /\ UNCHANGED <<still, file, old, temp, map, want, body>>

FallBack(c) ==
    /\ file[want[c]] # "absent"
    /\ Goto(c, "failed", "load")
    /\ UNCHANGED <<still, file, old, temp, mu, map, want, body, answer>>

\* The final file is loaded and its map kept.
Load(c) ==
    /\ Loads(want[c], file[want[c]])
    /\ Return(c, "load", file[want[c]])
    /\ map' = [map EXCEPT ![ProcOf[c]][want[c]] = file[want[c]]]
    /\ UNCHANGED <<still, file, old, temp, want, body>>

\* An error is not kept: the next call tries again.
LoadFails(c) ==
    /\ ~ Loads(want[c], file[want[c]])
    /\ Return(c, "load", "error")
    /\ UNCHANGED <<still, file, old, temp, map, want, body>>

-----------------------------------------------------------------------------
(* The surroundings                                                        *)

\* Time passes.
Age(d) ==
    /\ file[d] # "absent"
    /\ ~ old[d]
    /\ old' = [old EXCEPT ![d] = TRUE]
    /\ UNCHANGED <<still, file, temp, mu, map, pc, want, body, answer>>

\* Downloads that a crash of process p would cut short.
Downloads(p) == {c \in Callers : ProcOf[c] = p /\ temp[c] # "none"}

\* The process dies.  Its memory is gone; its temporary file stays in the
\* directory, and nobody knows its name any more.  (A process whose Stat fails
\* for another reason than a missing file dies, too: shouldDownload then
\* dereferences a nil FileInfo.)
Crash(p) ==
    LET mine(c, v, x) == IF ProcOf[c] = p THEN x ELSE v[c]
    IN  /\ crashes < MaxCrashes
        /\ crashes' = crashes + 1
        /\ orphans' = orphans + Cardinality(Downloads(p))
        /\ pc'     = [c \in Callers |-> mine(c, pc, "idle")]
        /\ answer' = [c \in Callers |-> mine(c, answer, "none")]
        /\ body'   = [c \in Callers |-> mine(c, body, "none")]
        /\ temp'   = [c \in Callers |-> mine(c, temp, "none")]
        /\ mu'     = [mu EXCEPT ![p] = None]
        /\ map'    = [map EXCEPT ![p] = [d \in Databases |-> "none"]]
        /\ UNCHANGED <<config, file, old, want>>

Working(c) ==
    \/ Lock(c) \/ UseMap(c) \/ NoFormat(c) \/ Stat(c)
    \/ Verify(c) \/ Rename(c) \/ RenameFails(c)
    \/ GiveUp(c) \/ FallBack(c) \/ Load(c) \/ LoadFails(c)

\* Steps that wait for the server.
Transferring(c) ==
    \/ GetFails(c) \/ \E content \in Contents : GetStarts(c, content)
    \/ Copy(c) \/ CopyFails(c)

Next ==
    \/ \E c \in Callers :
          \/ Working(c) \/ Transferring(c)
          \/ \E d \in Databases : Call(c, d)
    \/ \E d \in Databases : Age(d)
    \/ \E p \in Procs : Crash(p)

Spec == Init /\ [][Next]_vars

\* A caller runs, and the mutex starves nobody.  The download has no timeout:
\* nothing makes http.Get return, nor the copying of the body.
FairSpec == Spec /\ \A c \in Callers : SF_vars(Working(c))

-----------------------------------------------------------------------------
(* Properties                                                              *)

TypeOK ==
    /\ format \in [Databases -> Formats]
    /\ url \in [Databases -> BOOLEAN]
    /\ file \in [Databases -> Contents \cup {"absent"}]
    /\ old \in [Databases -> BOOLEAN]
    /\ temp \in [Callers -> Contents \cup {"none"}]
    /\ orphans \in Nat /\ crashes \in 0 .. MaxCrashes
    /\ mu \in [Procs -> Callers \cup {None}]
    /\ map \in [Procs -> [Databases -> Contents \cup {"none"}]]
    /\ pc \in [Callers -> {"idle", "lock", "cached", "get", "copy", "verify",
                           "rename", "failed", "load"}]
    /\ want \in [Callers -> Databases]
    /\ body \in [Callers -> Contents \cup {"none"}]
    /\ answer \in [Callers -> Contents \cup {"none", "error"}]

\* A file that loads is only ever replaced, by whichever process, by one that
\* loads; no crash, broken transfer or bad reply leaves a broken one.
KeepsLoadable == \A d \in Databases : Loads(d, file[d]) => Loads(d, file[d]')

StaysLoadable == [][KeepsLoadable]_vars

\* "Verify the downloaded file" (259), and an empty file needs a download
\* (geoloader_test.go:266): a database with entries is never replaced by an
\* empty one.
StaysUseful == [][\A d \in Databases : file[d] \in Versions => file'[d] \in Versions]_file

\* All callers of a process that got a database got the same map, however
\* their loads and other processes' downloads overlap.
OneMapPerProcess ==
    \A c \in Callers :
        answer[c] \in Contents => map[ProcOf[c]][want[c]] = answer[c]

\* A call that goes on without its download, or returns, has removed its
\* temporary file (the deferred Remove, 250).
TempOwned ==
    \A c \in Callers : temp[c] # "none" => pc[c] \in {"copy", "verify", "rename"}

\* Temporary files in the directory: those of the downloads under way, and what
\* crashes have left, one file each at most, since the mutex lets one call of a
\* process download.  Nobody removes these.
TempsRemoved == TempOwned /\ orphans <= crashes

FailureJustified ==
    \A c \in Callers : answer[c] = "none" /\ answer'[c] = "error" =>
        format[want[c]] = "unset" \/ ~ Loads(want[c], file[want[c]])

\* A call fails only when there is, then, no file that loads: a failed
\* download falls back to what is there.
FailsOnlyWithoutFile ==
    [][FailureJustified]_vars

\* A call returns, unless it, or a call of its process that holds the mutex,
\* hangs in http.Get or in the transfer that follows.
CallReturns ==
    \A c \in Callers :
        pc[c] = "lock" ~> \/ pc[c] = "idle"
                          \/ \E e \in Callers : ProcOf[e] = ProcOf[c] /\ pc[e] \in {"get", "copy"}

-----------------------------------------------------------------------------
(* The inductive invariant behind the safety properties                    *)

Holding == {"cached", "get", "copy", "verify", "rename", "failed", "load"}

\* l.mu excludes: the caller inside LoadGeoIP or LoadGeoSite is its holder.
LockOwner ==
    \A c \in Callers : pc[c] \in Holding <=> mu[ProcOf[c]] = c

\* While a caller downloads or loads, the map it wants is not there yet.
StillUnloaded ==
    \A c \in Callers :
        pc[c] \in Holding \ {"cached"} =>
            map[ProcOf[c]][want[c]] = "none" /\ format[want[c]] # "unset"

\* What is about to be renamed has been verified, and is unchanged since.
Verified == \A c \in Callers : pc[c] = "rename" => Loads(want[c], temp[c])

\* A transfer in progress has a content to copy.
BodyThere == \A c \in Callers : pc[c] = "copy" => body[c] \in Contents

\* A temporary file is there to be verified.
TempThere == \A c \in Callers : pc[c] \in {"verify", "rename"} => temp[c] \in Contents

\* Inductive.
Inv ==
    /\ TypeOK /\ LockOwner /\ StillUnloaded /\ Verified
    /\ BodyThere /\ TempThere /\ TempsRemoved /\ OneMapPerProcess

=============================================================================
