------------------------------ MODULE GeoFiles -------------------------------
(***************************************************************************)
(* What the loaders make of geo database files: a list per country or site *)
(* code, in the form of the V2Ray files (pkg/acl/geodat, mmdb, metadb,     *)
(* singsite, and the choice between them in geoloader.go, geoformat.go).   *)
(*                                                                         *)
(* A word whose case matters is [id, caps].  A CIDR is [bytes, ip,         *)
(* prefix]: the length of its address, 4 or 16 in a sound file, and the    *)
(* address as a number.                                                    *)
(***************************************************************************)
EXTENDS Integers, SequencesExt

CONSTANTS
    Bits4, Bits6,   \* bits of an IPv4 and of an IPv6 address: 32 and 128
    Mapped          \* ::ffff:0:0, the first of the IPv4-mapped addresses

ASSUME GeoFilesAssumption ==
    /\ Bits4 \in Nat \ {0} /\ Bits6 \in Nat /\ Bits6 > 2 * Bits4
    /\ Mapped \in 2 ^ Bits4 .. 2 ^ Bits6 - 2 ^ Bits4 /\ Mapped % 2 ^ Bits4 = 0

Lower(word) == [word EXCEPT !.caps = FALSE]

NoMap   == [code \in {} |-> code]
Loaded(map) == [ok |-> TRUE, map |-> map]
Failed      == [ok |-> FALSE, map |-> NoMap]

-----------------------------------------------------------------------------
(* geodat: protobuf messages of entries                                    *)

\* Of entries whose codes differ in case only, the last one stays.
LoadDat(entries) ==
    Loaded([code \in {Lower(entries[i].code) : i \in DOMAIN entries} |->
               LET last == CHOOSE i \in DOMAIN entries :
                               /\ Lower(entries[i].code) = code
                               /\ \A j \in DOMAIN entries : Lower(entries[j].code) = code => j <= i
               IN  entries[last]])

-----------------------------------------------------------------------------
(* mmdb and metadb: a tree of addresses, read by maxminddb-golang.  A tree *)
(* of version 6 holds the IPv4 addresses as ::a.b.c.d, its lowest, and may *)
(* hold an alias of them at the IPv4-mapped addresses.                     *)

InIPv4Subtree(net) == net.ip < 2 ^ Bits4 /\ net.prefix >= Bits6 - Bits4

\* Networks of the reader, with or without SkipAliasedNetworks; only with it
\* are the IPv4 networks of a version 6 tree given as such.
Networks(db, skipAliased) ==
    LET as(bytes, net, ip, prefix) ==
            [cidr |-> [bytes |-> bytes, ip |-> ip, prefix |-> prefix], codes |-> net.codes]
    IN  IF db.version = 4 THEN {as(4, net, net.ip, net.prefix) : net \in db.nets}
        ELSE IF skipAliased
        THEN {IF InIPv4Subtree(net) THEN as(4, net, net.ip, net.prefix - (Bits6 - Bits4))
              ELSE as(16, net, net.ip, net.prefix) : net \in db.nets}
        ELSE {as(16, net, net.ip, net.prefix) : net \in db.nets} \cup
             {as(16, net, net.ip + Mapped, net.prefix) :
                 net \in {n \in db.nets : db.aliased /\ InIPv4Subtree(n)}}

MappedOnes == Mapped .. Mapped + 2 ^ Bits4 - 1

\* To4 shortens a mapped address; the length of the prefix stays.
To4(cidr) ==
    IF cidr.bytes = 16 /\ cidr.ip \in MappedOnes
    THEN [cidr EXCEPT !.bytes = 4, !.ip = @ - Mapped] ELSE cidr

\* The networks by code; one network may have several codes in a MetaDB.
ByCode(networks) ==
    Loaded([code \in UNION {{Lower(c) : c \in n.codes} : n \in networks} |->
               [inverse |-> FALSE,
                cidrs |-> {To4(n.cidr) : n \in {m \in networks : \E c \in m.codes : Lower(c) = code}}]])

\* Mutant: the reader's default, here too.
LoadMMDBAliased(db) == ByCode(Networks(db, FALSE))

LoadMMDB(db) == ByCode(Networks(db, TRUE))

\* The MetaDB loader does take the default.
LoadMetaDB(db) == ByCode(Networks(db, FALSE))

-----------------------------------------------------------------------------
(* singsite: after an index of codes, each with the offset and the number  *)
(* of its items, the items.  The file's position is relative to their      *)
(* start; items[p] is the item at p, and takes `size' bytes.               *)

\* readByte and readVString.
ReadItem(file, s) ==
    IF s.ok /\ s.pos \in DOMAIN file.items
    THEN [ok |-> TRUE, pos |-> s.pos + file.items[s.pos].size, read |-> s.read \cup {file.items[s.pos]}]
    ELSE [s EXCEPT !.ok = FALSE]

\* `count' of them, from a position on.
ReadItems(file, from, count) ==
    LET after[n \in 0 .. count] ==
            IF n = 0 THEN [ok |-> TRUE, pos |-> from, read |-> {}] ELSE ReadItem(file, after[n - 1])
    IN  after[count]

\* The type of a V2Ray list, and without the dot that suffixes begin with.
Domains(items) ==
    {[type |-> CASE item.type = "domain"  -> "full"  [] item.type = "suffix" -> "root"
                 [] item.type = "keyword" -> "plain" [] item.type = "regex"  -> "regex",
      value |-> IF item.type = "suffix" /\ IsPrefix(<<".">>, item.value) THEN Tail(item.value)
                ELSE item.value,
      attrs |-> {}] : item \in {i \in items : i.type \in {"domain", "suffix", "keyword", "regex"}}}

\* Read seeks back over its offset and what it read, unless it failed.
SeekBack(r, start, index) ==
    IF r.ok THEN [r EXCEPT !.pos = @ - index - (r.pos - start)] ELSE r

\* Read: the items of a code, from its offset on.
Read(file, pos, entry) ==
    SeekBack(ReadItems(file, pos + entry.index, entry.count), pos + entry.index, entry.index)

\* A code with its list; the first failure is the loader's.
AddCode(s, code, r) ==
    IF s.ok /\ r.ok
    THEN [ok |-> TRUE, pos |-> r.pos,
          map |-> [c \in DOMAIN s.map \cup {code} |->
                      IF c = code THEN [domains |-> Domains(r.read)] ELSE s.map[c]]]
    ELSE [s EXCEPT !.ok = FALSE, !.map = NoMap]

AddEntry(file, s, entry) == AddCode(s, Lower(entry.code), Read(file, s.pos, entry))

\* The codes in the order of the index.
LoadSing(file) ==
    LET after[n \in 0 .. Len(file.index)] ==
            IF n = 0 THEN [ok |-> TRUE, pos |-> 0, map |-> NoMap]
            ELSE AddEntry(file, after[n - 1], file.index[n])
    IN  after[Len(file.index)]

-----------------------------------------------------------------------------
(* FileGeoLoader and NilGeoLoader.  Of a path its extension matters; the   *)
(* file behind it has a format of its own and can be missing or damaged.   *)

Formats(kind) == IF kind = "geoip" THEN {"dat", "mmdb", "metadb"} ELSE {"dat", "db"}

\* DetectGeoIPFormat and DetectGeoSiteFormat.
Detected(kind, extension) ==
    IF Lower(extension).id \in Formats(kind) THEN Lower(extension).id ELSE "none"

\* loadGeoIP and loadGeoSite: a file of another format cannot be decoded (but
\* a MaxMind file by the MetaDB loader: SoundSource leaves this pair out).
LoadFile(kind, format, file) ==
    IF format # file.format THEN Failed
    ELSE CASE format = "dat"    -> LoadDat(file.entries)
           [] format = "mmdb"   -> LoadMMDB(file)
           [] format = "metadb" -> LoadMetaDB(file)
           [] format = "db"     -> LoadSing(file)

\* Without a loader or a path there is no data, which is no error.
Load(kind, source) ==
    LET format == IF source.format # "none" THEN source.format
                  ELSE Detected(kind, source.extension)
    IN  IF ~source.given THEN Loaded(NoMap)
        ELSE IF format = "none" THEN Failed
        ELSE LoadFile(kind, format, source.file)

-----------------------------------------------------------------------------
(* Files as their publishers make them.  The code checks none of this.     *)

IsWord(w) == w = [id |-> w.id, caps |-> w.caps]
IsSeq(s)  == s \in Seq({s[i] : i \in DOMAIN s})

\* No two entries are of one country or site.
DistinctCodes(entries) ==
    \A i, j \in DOMAIN entries : Lower(entries[i].code) = Lower(entries[j].code) => i = j

\* Do the first `prefix' of `bits' bits agree?
SamePrefix(a, b, prefix, bits) == a \div 2 ^ (bits - prefix) = b \div 2 ^ (bits - prefix)

BitsOf(bytes) == IF bytes = 4 THEN Bits4 ELSE Bits6

\* No network of a list lies in another one.
SoundCIDRs(cidrs) ==
    /\ IsFiniteSet(cidrs)
    /\ \A c \in cidrs : c.ip \in Nat /\ c.prefix \in 0 .. BitsOf(c.bytes)
    /\ \A c, d \in cidrs :
          c # d /\ c.bytes = d.bytes => ~SamePrefix(c.ip, d.ip, c.prefix, BitsOf(c.bytes))

\* The networks of a tree are apart and begin at their first address; none
\* spans IPv4 and other addresses, or lies where the alias is.
SoundTree(db) ==
    LET bits == IF db.version = 4 THEN Bits4 ELSE Bits6
    IN  /\ db.version \in {4, 6} /\ IsFiniteSet(db.nets)
        /\ \A n \in db.nets :
              /\ n.ip \in Nat /\ n.prefix \in 0 .. bits /\ n.ip % 2 ^ (bits - n.prefix) = 0
              /\ \A c \in n.codes : IsWord(c)
              /\ db.version = 6 => \/ InIPv4Subtree(n) /\ n.ip + 2 ^ (bits - n.prefix) <= 2 ^ Bits4
                                   \/ n.ip >= 2 ^ Bits4 /\ n.ip \notin MappedOnes
        /\ \A n, m \in db.nets : n # m => ~SamePrefix(n.ip, m.ip, n.prefix, bits)

\* Names are in lower case; a root domain is written without its dot.
SoundDomain(d) ==
    /\ d.type \in {"plain", "regex", "root", "full", "other"}
    /\ d.type # "regex" => d.value \in Seq(STRING)
    /\ d.type = "root"  => d.value = <<>> \/ Head(d.value) # "."

\* sing-geosite's suffixes begin with a dot (singsite/load.go:34).
SoundItem(item) ==
    /\ item.type \in {"domain", "suffix", "keyword", "regex"} /\ item.size \in Nat
    /\ item.type # "regex" => item.value \in Seq(STRING)
    /\ item.type = "suffix" => Len(item.value) > 1 /\ item.value[1] = "." /\ item.value[2] # "."

SoundFile(kind, file) ==
    CASE file.format = "dat" ->
           /\ IsSeq(file.entries) /\ DistinctCodes(file.entries)
           /\ \A i \in DOMAIN file.entries :
                 /\ IsWord(file.entries[i].code)
                 /\ IF kind = "geoip" THEN file.entries[i].inverse \in BOOLEAN /\ SoundCIDRs(file.entries[i].cidrs)
                    ELSE \A d \in file.entries[i].domains : SoundDomain(d)
      [] file.format = "db" ->
           /\ IsSeq(file.index) /\ DistinctCodes(file.index)
           /\ \A i \in DOMAIN file.index :
                 /\ IsWord(file.index[i].code)
                 /\ file.index[i].index \in Nat /\ file.index[i].count \in Nat
           /\ \A p \in DOMAIN file.items : p \in Nat /\ SoundItem(file.items[p])
      [] OTHER -> SoundTree(file)

\* A loader's path and format, with the file it finds.
SoundSource(kind, source) ==
    /\ source.given \in BOOLEAN /\ IsWord(source.extension)
    /\ source.format \in Formats(kind) \cup {"none"}
    /\ source.file.format \in Formats(kind) => SoundFile(kind, source.file)
    \* The MetaDB loader would read a MaxMind file, too.
    /\ source.file.format = "mmdb" /\ source.format = "none" => Lower(source.extension).id # "metadb"
    /\ source.file.format = "mmdb" => source.format # "metadb"

=============================================================================
