# A TLA+ verification of acl-engine

acl-engine routes connections: rules written in a small text language name an
outbound for each destination, and outbounds make the connection, directly or
through a proxy. Rules may refer to GeoIP and GeoSite databases, which are
loaded, and downloaded, on demand. This directory models the parts of it that
keep state, run concurrently or fail half way, checks them with TLC and proves
their safety with TLAPS.

## The system

| Component | Source | State | Operations | What makes it correct |
|---|---|---|---|---|
| Router | `router/router.go` | rule set, default outbound | `New`, `DialTCP`, `DialUDP` (resolve, match, hijack, dial) | the outbound of the first matching rule dials the (possibly hijacked) address |
| Rule text | `acl/parse.go` | none | `ParseTextRules` | lines are counted as an editor counts them |
| Rule set | `acl/compile.go`, `matchers.go` | rules, LRU cache | `Compile`, `Match` | a rule means what its line says, the first error is reported; the cache is invisible: every call gets the first match for its own request |
| GeoIP, GeoSite matchers | `acl/matchers_geodat.go` | sorted networks, domain lists | `Match` | agree with the lists they were made from |
| Domain matcher | `acl/domain/` | succinct trie: bitmaps, labels, rank and select indices | `NewMatcher`, `Match` | agrees with the exact and suffix patterns |
| Geo loader | `acl/geoloader.go` | maps, mutex, files on disk | `LoadGeoIP`, `LoadGeoSite`, `download` | one map per process, files are replaced whole and verified, no failure loses a database |
| Readers | `acl/geodat`, `mmdb`, `metadb`, `singsite` | open files, position, cached codes | `LoadGeoIP`, `LoadGeoSite`, `LookupCode`, `Read` | every format gives the lists that its file describes |
| Direct outbound | `outbound/direct.go` | mode, dial functions | `DialTCP` (dual stack), `DialUDP`, `WriteTo` | reaches what the mode allows, leaks nothing |
| Fast-open connection | `outbound/fastopen.go` | connection, lock, ready channel, deadlines | `Read`, `Write`, `Close`, setters | one dial, no leak, no lost wake-up |
| SOCKS5, HTTP outbounds | `outbound/socks5.go`, `http.go` | proxy connection, UDP association | `DialTCP`, `DialUDP`, `ReadFrom`, `WriteTo` | every error closes what was opened |
| Configuration | `config/config.go` | none | `Parse`, `Build` | refuses contradictory settings, so that nothing configured is silently ignored |

The router calls the rule set for every connection, from any goroutine, and
then the outbound. A rule set is compiled once; the geo loader is called during
compilation only, but one loader may serve several compilations, and several
processes may share its directory. The direct outbound returns fast-open
connections to its callers, and its own drain goroutine closes the loser of a
dual-stack race, lazy or not.

Hard to test are: the interleavings of a fast-open connection's methods, whose
lock is held over a dial; concurrent misses of the rule cache; the dual-stack
race and what is left behind when it is over; downloads that fail half way, crash
or meet another process; and the error paths of the proxies. `PROJECT.json`
lists each at its line.

## Modules

| Area | Modules |
|---|---|
| Rules | `RuleMatch` (answers), `RuleService` (promise), `RuleCache` (code), `RuleCompile` (from the configuration to answers) on `GeoIP`, `GeoSite` and `GeoFiles` |
| Router | `Router`, on `RuleMatch`, `DirectUDP` and `Addresses` |
| Outbounds | `DirectDial`, `DirectUDP`, `FastOpenConn`, `ProxyConn` |
| Databases | `GeoLoader` (files on disk), `GeoFiles` (what is in them), `DomainTrie` |
| Proofs | `*Proofs`, each beside the module it is about |
| Instances | `MC*`, and one `.cfg` per run |

`FastOpenConn` has one action per section of code between two points where
another goroutine can interfere. Sections under the read lock and the short
sections under the write lock are one action, enabled while nobody holds the
write lock (`holder = None`). `Write`'s exclusive section is split at the dial,
at the assignment of `c.conn` and at the closing of `readyChan`, because `Read`
looks at `c.conn` without the lock. `lastSet`, `shut` and `dials` are history
variables. `LocalAddr` and `RemoteAddr` change nothing and are left out.

`RuleMatch` defines the answer: the first rule in file order that matches. Names
are runes with a spelling (lower case, capitals, punycode), addresses carry the
length of their slice, and lists of networks are the sets of addresses they
cover. `RuleService` is the promise: a call is answered with `Answer` of its own
request. `RuleCache` is the code: `Get`, the search, and `Add` are separate
steps of each caller, on a least-recently-used cache of `Size` entries. It
implements `RuleService` with `pending <- request`.

`DirectDial` follows one `DialTCP` from the lookup's result to the first write
of the caller, with the two dial goroutines, the channel and the drain
goroutine. A family of the target is either reachable or not; a dial that is not
fast-open succeeds exactly on a reachable family, unless the socket option fails.

`GeoLoader` follows `LoadGeoIP` and `LoadGeoSite`, which differ in names only,
through lock, format, stat, download, verification, rename, fallback and load.
`ProcOf` groups callers into processes; each process has a mutex and its maps,
and all share the files. A file's content is a well-formed version, empty or
garbage. `Crash` forgets everything a process had in memory, and leaves its temporary file
in the directory: `orphans` counts these, and the ghost variable `crashes` what can have caused them.

`DomainTrie` follows a domain matcher from `NewMatcher` to the end of one `Match`:
the sorted keys, the trie's bitmaps built node by node, the rank and select samples,
and the walk from label to label. The word size is a constant (64 in the code), so that
a small trie crosses the words' borders as a large one does. The loops of
`Match` are actions; what the walk reads from the bitmaps is what the code reads, an
index out of range included. Names are in lower case already, and characters
are numbers.

`RuleCompile` is `config.Build`, `router.New`, `ParseTextRules` and `Compile` in one
machine, one entry, line or rule per step, that ends in a refusal or in compiled rules,
which are then asked questions. A text is split into words already, and a word stands for
what `ParseIP` or `ParseUint` makes of it; the checks, their order and their errors are
the code's. Its reference, `AnswerAsWritten` and `ErrorAsWritten`, is read off the text and the raw
files and shares no operator with the compiler but for rules without a database. `GeoIP` is the binary
search, a machine of its own which `RuleCompile` runs for each rule with a list. `GeoSite`
has the matcher's partition of a list by type and attributes, and both ways through it; the
trie's answers are those that `DomainTrie` establishes. `GeoFiles` has the four loaders:
DAT entries; the networks of an MMDB or a MetaDB, whose library is modelled by
what `Networks` gives with and without `SkipAliasedNetworks`; and sing-geosite, whose reader seeks
relative to where it is. An address is a number, and a prefix the bits it fixes.

`DirectUDP` is the socket of a direct outbound, from the settings that `buildDirect` and
`NewDirectWithOptions` accept to `WriteTo`, `ReadFrom` and a `WriteTo` of the `Addr`
that was read. `sent` and `lost` are history variables.

`Addresses` has the values all of these pass on: IPs with the length of their slice, and `ResolveInfo`.

`Router` is one goroutine's calls of `DialTCP` and `DialUDP` with one `Addr`, which
they change in place: resolve, match, hijack, and what a direct outbound or a proxy
makes of the `Addr` then. A direct UDP connection is `DirectUDP`'s, and also serves addresses
that the router never sees (`Exchange`). Each lookup may be answered differently. It is built on
`RuleMatch`; the cache need not be there since `RuleCache` refines `RuleService`. Ghost variables
keep what the rules were asked and who was contacted.

`ProxyConn` is one dial through a SOCKS5 or an HTTP proxy and the connection it returns.
`Arm` and `Disarm` are the calls of `SetDeadline`; each step between can fail, and
`NegotiationFails`, `RequestFails`, `HTTPFails` and `BindFails` are the code's error paths. After a
return, the caller reads bytes, some of which `bufReader` may have taken with the proxy's
answer; or it uses a UDP association, which the goroutine `hold`, `Close` and the proxy
can end.

## Runs

| Run | Bounds | What it shows |
|---|---|---|
| `fast_open` | 3 goroutines, 1 time | all properties of `FastOpenConn`. Three goroutines let one dial while a second waits to read and a third closes or loses the race; a fourth repeats one of these parts |
| `fast_open_deadlines` | 2 goroutines, 2 times | **violated**: deadlines set before the first write lose the order of the calls |
| `rule_cache` | 2 callers, cache of 2, 5 requests with 4 keys | cache invariants, "no match" is cached, refinement of `RuleService`. Each pair of requests differs in one field, so a key that forgets it gives a wrong answer |
| `direct_dial` | every mode, option, lookup and reachability | the complete state space: `DirectDial` has no parameter |
| `direct_dial_lazy` | the same | **violated**: with fast open, auto mode does not look for a reachable family |
| `geo_loader` | 3 callers in 2 processes, 1 database, 2 versions, 2 crashes | all properties of `GeoLoader`. Two callers of one process contend for the mutex, the third downloads the same file. A crash leaves a process and the files as they can be at the start, but for the temporary files; two let both processes crash, or one again after its restart |
| `domain_trie` | 256 pattern lists, 41 names, words of 4 bits, every other one sampled | the trie answers as the patterns do, its index counts exactly, no index is out of bounds, and every walk ends |
| `router` | 2 addresses of each family, 2 names, 2 ports, 5 rules, every setting of a direct outbound | what is dialled is what was matched or the hijack address, over any number of calls with one `Addr`; datagrams leave by the configured device, address and family, and can be answered |
| `rule_compile` | texts of up to 3 lines, a database of every format, every kind of error, 28 questions; IPv4 addresses of 3 bits, IPv6 of 7 | the first error is reported with its line, and otherwise every answer is what text and raw databases say. Three networks of each family let the search go left, right and end between two; 7 bits leave room for IPv4 addresses, their mapped aliases and others |
| `rule_compile_meta` | the same, a MetaDB with both families | **violated**: no IPv4 address is in any country |
| `proxy_conn` | both proxies, 3 bytes | every failure and its clean-up, bytes in order, the end of an association from either side, and that a call returns. Three bytes let the buffer hold more than one `Read` takes, and leave one on the wire |
| `geo_loader_empty` | 1 caller, 1 version | **violated**: an empty reply replaces a good DAT file |

The safety properties of `FastOpenConn`, `RuleCache`, `GeoLoader`, `Router` and
`ProxyConn` are those of their theorems below; the runs of all but `RuleCache` and `Router`
show liveness too.

Deadlock is checked in `rule_cache`, `geo_loader` and `router`. A fast-open connection may
come to a stop, with every goroutine in a `Read` that nobody serves; a
`DialTCP`, a `Match` or a closed connection is over at some point, and so is the building of a
configuration that is refused.

## Fairness

* `FastOpenConn`: weak fairness of a goroutine's own steps, and of the dial, which
  the dialer's 10 s timeout ends; strong fairness of taking the lock, since
  Go's `RWMutex` starves no waiter. There is none for the write on the real
  connection, nor for the calls themselves.
* `DirectDial`: weak fairness of all goroutines and dials, none for `FirstWrite`.
* `DomainTrie`: weak fairness of the loops, which one goroutine runs.
* `ProxyConn`: weak fairness of the dial, which the dialer's timeout ends, of steps
  that wait for nobody, of a failure while a deadline is set, and of `hold`, `Close` and reads
  from a closed socket. None for the proxy: its answers may never come.
* `Router`, `RuleCompile`: none; they have safety properties only.
* `GeoLoader`: strong fairness of a caller's steps (`sync.Mutex` hands over to a
  waiter of more than 1 ms). There is none for the steps that wait for the server
  (`Transferring`): the code sets no timeout on `http.Get`, which would cover the body
  too, and `CallReturns` says so.

## Proofs

`FastOpenConnProofs`, `RuleCacheProofs`, `GeoLoaderProofs`, `RouterProofs`, `ProxyConnProofs`,
`DirectDialProofs`, `RuleCompileProofs` and `DomainTrieProofs` prove, for every value of the constants, from the assumptions of each module only
(`FastOpenAssumption`, `RuleCacheAssumption`, `GeoAssumption`: distinct special
values, a cache of at least one entry, a process for every caller, and a number of crashes;
`ProxyAssumption`: a number of bytes; `DirectUDPAssumption`, `RouterAssumption`: no name is an
IP's text, every rule has an outbound, and hijack addresses are IPs; `GeoFilesAssumption`: IPv4-mapped
addresses lie among the IPv6 ones; `CompileAssumption`: configurations, files and questions are of the
form that the section on databases describes; `TrieAssumption`: words and samples of at least one bit, finite
sets of patterns, no exact one of which is empty, and names and patterns without the two characters that the code uses as labels). `DirectDial`
has no constants.

* `FastOpenConn`: `Inv` is inductive. `OneDial`, `NoDataRace` and
  `NoConnAfterShut` are not inductive by themselves: they need to know who
  holds the lock (`LockOwner`), that nothing is visible of a dial in progress
  (`DialInProgress`), and that a dial that is over has closed `readyChan`
  (`DialDecided`). `DeadlinesKept` needs `DeadlinesAgree`, its counterpart before
  the connection exists. `ConnAssignedOnce` shows that a connection a reader has
  seen is never replaced by another.
* `RuleCache`: `Inv` is inductive; `Coherent` rests on the lemma `KeyDecides`,
  that requests with one key have one answer, whatever the rules are. This is where
  the key's fields, the lower-casing and the printing of addresses matter.
  `Refinement` maps a hit and an add to `Reply`, and all else to stuttering or `Ask`.
* `GeoLoader`: `Inv` is proved in layers, each of which uses those before it:
  the mutex, types and temporary files, what crashes leave, verified content, the map that is not there
  while its loader works, and so one map per process. That a crash leaves one temporary file at most
  (`TempsRemoved`) needs the mutex: the calls of a process that have one are its holder alone (`OneDownload`). `StaysLoadable` and
  `FailsOnlyWithoutFile` are action properties that follow from it.
* `Router`: the promises speak of what was dialled; they are inductive with `Routed`,
  which says that the `Addr` still holds what was matched, or the hijack address, when the
  outbound looks at it, and `Looked`, that the match sees this call's lookup.
* `ProxyConn`: `Inv` has two halves, about connections and about bytes.
  `ErrorCloses` needs `Calling`, what each step of the dial has opened, and
  `BytesInOrder` needs `Unused`, that nobody reads before the call returns. `KeptWhileWanted`
  is an action property that follows from `Alive`: `hold` ends for a reason.

* `Router`, its direct UDP sockets: `LeavesAsConfigured` is inductive with `SockOK`, that a socket has
  what its settings say for as long as it is open, and `RepliesReach` with the fact that
  whether a socket reaches an IP depends on the IP alone (`Reached`): a receiver and a refused sender
  can then not be the same. The lemmas about `DirectUDP`'s operators come first in `RouterProofs`, which
  applies them to its steps.
* `DirectDial`: `Inv` says who owns which connection. What a dial leaves when it ends
  (`DialOK`), whose results are still in the channel, by how far the caller and the drain goroutine have got
  (`DialsOK`), and that nothing is in the channel that nobody will take (`OutcomeOK`). The two
  promises about the answer follow from it.
* `RuleCompile`: `FirstErrorReported` holds for every text. Its invariant, `BuildInv`, says of each stage what has been
  accepted: the outbounds so far are good (`AcceptedTo`), the rules so far are the text's with their lines (`ParsedTo`), the
  compiled rules are the translations of the rules so far, none of which has a flaw (`CompiledTo`). That
  the compiler's checks refuse what `ErrorAsWritten` calls a flaw rests on the loaders: each of the four, with its
  choice of the last entry, its shortened addresses and its seeks, gives a list for a code
  exactly when the raw file has one.
* `RuleCompile`'s answers: `AnswersAsWritten` and `Inv` are proved under `OneFamilyMetaDBs`, that a MetaDB has one family
  of addresses; without it `AnswersAsWritten` is false, as `rule_compile_meta` shows. `AnswerInv` adds to `BuildInv` that no rule before
  `at` matches the question, and that a search in progress is one of `GeoIP`'s over a list
  that stands for the country. The lists are right because a loader keeps which addresses are in
  a country (`CountryList`), and sorted because `ByAddress` puts each network at the place that counts those below it; both go by
  induction over finite sets of networks, or over the numbers that they are counted by, which the library's
  theorems about `Nat` as a set allow. The order of the list and that networks are disjoint are what the search
  assumes.
* `GeoIP`, in `RuleCompileProofs`: `SearchInv` is inductive. Its heart is that no
  other network begins between an address and the network that holds it (`NothingBetween`), so that
  the half that is dropped cannot hold it; it is
  proved for every sorted list and every address, with sorting and disjointness as assumptions of
  `SearchInit`.

* `DomainTrie`'s index: `IndexExact` holds for every size of words and samples. Ones are counted as
  cardinalities, so that the counts of two parts add up and every count up to the last is taken at some
  position. The rank index, a recursive sum, is the count up to each word
  by induction over a set of numbers; `Select` then finds the only word in which the count
  passes `i`, since the sample it starts from lies before it.
* `DomainTrie`'s construction: `TrieRight` is inductive. Its heart is `Covers`: a node's range has
  exactly the keys that have its prefix, which the range of the next character keeps because the
  keys are sorted; keys that agree up to a column come in the order of what follows there. `BuildKeepsTrie` then shows
  that an edge's place among the 0s is its node's place in the queue, all of a level before the next.
* `DomainTrie`'s answers: the walk keeps `OnPath`, that it is at the node of what it has matched, and `PassedEdges` and
  `PassedNodes`, that no suffix and no next character was passed over. `MatchedIs` turns the meaning of the
  patterns into one of the reversed keys: a name is matched if it is a key, or if a key without its
  marker is a beginning of it. With it, each "yes" has its key, and "no" leaves no key
  that could match (`NothingLeft`). `Inv` and `AnswersRight` follow.

TLC alone checks liveness (fairness and `ENABLED` are out of the prover's reach): that reads
wake, calls return and walks end. Every invariant and every other action property
of a passing run has a theorem.

## Findings

1. Deadlines set on a fast-open connection before its first write are applied in
   the order deadline, read deadline, write deadline, whatever the order of the
   calls (`fastopen.go:107-116`).
2. Fast open and auto mode together: both dials succeed at once, so the first
   goroutine to run decides the family, reachable or not (`direct.go:301-328`).
3. An empty reply passes the integrity check of a DAT file (`geoloader.go:259`).
4. The MetaDB loader walks a tree with its aliases and reads IPv4 networks with IPv6 prefixes
   (`metadb/load.go:50`): from a database of both families no rule matches an IPv4 address.
   A tree of version 4 is read rightly, and so are both versions by the MMDB loader.

More facts that the models have and no property forbids. Three are exceptions that properties state:

* `ErrorCloses` excepts the TCP connection of an association whose UDP socket cannot be
  opened, which nobody closes (`socks5.go:194`).
* Both properties named `CallReturns` except a server that does not answer: an HTTP proxy that does
  not take the request, since the deadline is set after the write (`http.go:124`), and
  a download, which has no timeout and holds the loader's mutex (`geoloader.go:230`).
* `CloseReturns` excepts a `Write` that lost the race for the dial and writes to the connection with the
  lock held (`fastopen.go:98`).

The others are steps of the models:

* With fast open, `TCPNoDelay: false` is silently ignored, although its comment promises it without
  exception ("TCP_NODELAY, default true", `config.go:46`; "set TCP_NODELAY on the resulting connection",
  `direct.go:72`): `wrapDialNoDelay` passes a connection that is no `*net.TCPConn` on as it is (`direct.go:79`), and
  `fastOpenConn` does not set the option later. `DialLazily` and `FirstWrite` leave `tuned` unchanged.
* Temporary files that crashes have left are never removed: `orphans` only grows. `TempsRemoved` says
  by how much at most.
* A `Stat` that fails for another reason than a missing file ends the process (`geoloader.go:210`); it is
  one of the crashes.

## Assumptions on databases

Lists are taken to be as their publishers make them: the networks of a list are disjoint (the search
misses an address in a network that lies in another one), codes are distinct up to case, names and
attributes of GeoSite lists are in lower case, no full name is empty (a trie with no other
pattern would not match it), no name has a carriage return or a line feed, and a tree does not have a network that spans
IPv4 and IPv6 addresses. A MaxMind file is not given to the MetaDB loader, which would read it. Of the aliases
that a tree can have, those of the IPv4-mapped addresses are modelled, not those of Teredo and 6to4
(2001::/32, 2002::/16). The code checks none of this.

## Not modelled, and the plan

Not modelled for good: YAML, the regular expression for a rule and the splitting of its fields
(data without control), generated protobuf code, third-party readers, single
system calls per platform, the layout of SOCKS5 datagrams, the URL of an HTTP proxy, and the
lower-casing of the domain matcher, which both sides of a comparison go through. `CachedDatabase`
and `LookupIP` of `metadb` are called by nothing here: they put the library's LRU
cache in front of a file that does not change. Time is not modelled: a deadline is a value, or set
or not set, and a timeout is a step that may always happen. Nor is the running time of `deepMatchRune`.

Names in punycode are in `RuleMatch` and `RuleCache`, not in `RuleCompile`'s questions: a
domain rule decodes them, a GeoSite rule does not.

Every safety property of a passing run is proved, `AnswersAsWritten` under `OneFamilyMetaDBs`; what is left is to bring in the parts above that
are only data today, where a later version of the code gives them state.
