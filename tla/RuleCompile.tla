----------------------------- MODULE RuleCompile -----------------------------
(***************************************************************************)
(* From a configuration to answers: config.Build (pkg/config/config.go),   *)
(* router.New (pkg/router/router.go), ParseTextRules and Compile           *)
(* (pkg/acl/parse.go, compile.go), one line per step, with the databases   *)
(* that GeoFiles loads; then questions to the compiled rules, through the  *)
(* searches of GeoIP and GeoSite.  The cache of the rule set is RuleCache's*)
(* subject, and left out.                                                  *)
(*                                                                         *)
(* Text is taken as split into its words: a rule is [outbound, addr,       *)
(* protoPort, hijack], and what net.ParseIP, net.ParseCIDR or ParseUint    *)
(* make of a word stands for it.                                           *)
(***************************************************************************)
EXTENDS GeoIP, GeoSite, GeoFiles

CONSTANTS
    Configs,    \* configurations, with the loader's sources and their files
    Questions   \* [host, proto, port], for names without punycode

\* What the splitting of a rule gives; a code or a name may be missing.
SoundRule(rule) ==
    /\ IsWord(rule.outbound)
    /\ rule.addr.prefix \in {"all", "geoip", "geosite", "suffix", "none"}
    /\ rule.addr.prefix \in {"geoip", "geosite"} => rule.addr.body = Nil \/ IsWord(rule.addr.body)
    /\ rule.protoPort.proto \in {"both", "tcp", "udp", "other"}
    /\ rule.protoPort.ports \in Seq(Int) /\ Len(rule.protoPort.ports) <= 2

SoundText(lines) ==
    /\ IsSeq(lines)
    /\ \A l \in DOMAIN lines :
          lines[l].kind \in {"rule", "blank", "bad"} /\ (lines[l].kind = "rule" => SoundRule(lines[l].rule))

SoundConfig(c) ==
    /\ IsSeq(c.outbounds)
    /\ \A i \in DOMAIN c.outbounds : c.outbounds[i].name = Nil \/ IsWord(c.outbounds[i].name)
    /\ SoundText(c.inline) /\ SoundText(c.file.lines)
    /\ SoundSource("geoip", c.geoip) /\ SoundSource("geosite", c.geosite)

\* An IPv6 address is none of those that stand for an IPv4 address in a tree.
SoundQuestion(q) ==
    /\ q = [host |-> q.host, proto |-> q.proto, port |-> q.port]
    /\ q.host = [name |-> q.host.name, v4 |-> q.host.v4, v6 |-> q.host.v6]
    /\ q.host.name = [runes |-> q.host.name.runes, spelling |-> q.host.name.spelling]
    /\ q.host.name.runes \in Seq(STRING)
    /\ q.host.v4 # Nil => q.host.v4.addr.bytes = 4 /\ q.host.v4.addr.number \in 0 .. 2 ^ Bits4 - 1
    /\ q.host.v6 # Nil => q.host.v6.addr.bytes = 16 /\ q.host.v6.addr.number \in 2 ^ Bits4 .. 2 ^ Bits6 - 1
    /\ q.port \in Int

ASSUME CompileAssumption ==
    /\ Nil \notin [stage : {"outbounds", "rules", "syntax", "rule"}, at : Nat]
    /\ \A c \in Configs : SoundConfig(c)
    /\ \A q \in Questions : SoundQuestion(q)

VARIABLES
    config,
    pc,
    line,       \* the entry, line or rule in progress
    rules,      \* the rules parsed
    table,      \* outbounds by name
    compiled,
    loaded,     \* the databases that were asked for
    error,      \* where building stopped, or Nil
    question,
    at,         \* the rule that the question has come to
    family,     \* the address of the host that is searched for
    answer

buildVars == <<line, rules, table, compiled, loaded, error>>
askVars   == <<question, at, family, answer>>
vars      == <<config, pc, buildVars, askVars, searchVars>>

\* The matchers without a database.
RM == INSTANCE RuleMatch WITH Rules <- compiled

Word(id) == [id |-> id, caps |-> FALSE]

Init ==
    /\ config \in Configs
    /\ pc = "outbounds" /\ line = 1
    /\ rules = <<>> /\ table = <<>> /\ compiled = <<>>
    /\ loaded = {} /\ error = Nil
    /\ question = Nil /\ at = 0 /\ family = "none" /\ answer = Nil
    /\ nets = <<>> /\ needle = 0 /\ left = 1 /\ right = 0 /\ verdict = "missed"

-----------------------------------------------------------------------------
(* Building                                                                *)

Goto(step) == pc' = step /\ line' = 1

Fail(where) == pc' = "failed" /\ error' = [stage |-> pc, at |-> where] /\ UNCHANGED line

\* buildOutbound: the settings of a proxy are required, those of a direct
\* outbound must be good if there are any, and a reject has none.
Accepted(entry) ==
    LET type == Lower(entry.type).id
    IN  /\ entry.name # Nil
        /\ \/ type = "direct" /\ entry.settings # "bad"
           \/ type \in {"socks5", "http"} /\ entry.settings = "good"
           \/ type = "reject"

BuildOutbound ==
    /\ pc = "outbounds"
    /\ IF line > Len(config.outbounds) THEN Goto("rules") /\ UNCHANGED error
       ELSE IF Accepted(config.outbounds[line]) THEN line' = line + 1 /\ UNCHANGED <<pc, error>>
       ELSE Fail(line)
    /\ UNCHANGED <<config, rules, table, compiled, loaded, askVars, searchVars>>

Builtin(type) == [name |-> Word(type), type |-> Word(type), settings |-> "none"]

\* outboundsToMap: the last entry of a name, the built-in ones unless they are
\* overridden, and for "default" the first entry.
OutboundsToMap(entries) ==
    LET names == {Lower(entries[i].name).id : i \in DOMAIN entries}
        last(n) == CHOOSE i \in DOMAIN entries :
                       /\ Lower(entries[i].name).id = n
                       /\ \A j \in DOMAIN entries : Lower(entries[j].name).id = n => j <= i
        direct == IF "direct" \in names THEN entries[last("direct")] ELSE Builtin("direct")
    IN  [n \in names \cup {"direct", "reject", "default"} |->
            IF n \in names THEN entries[last(n)]
            ELSE IF n = "default" /\ entries # <<>> THEN entries[1]
            ELSE IF n = "reject" THEN Builtin("reject") ELSE direct]

\* buildRules: a file or lines in place, and the file must be readable.
BuildRules ==
    /\ pc = "rules"
    /\ IF config.file.given /\ (config.inline # <<>> \/ ~config.file.readable)
       THEN Fail(0)
       ELSE Goto("syntax") /\ UNCHANGED error
    /\ table' = OutboundsToMap(config.outbounds)
    /\ UNCHANGED <<config, rules, compiled, loaded, askVars, searchVars>>

Text == IF config.file.given THEN config.file.lines ELSE config.inline

\* Mutant: lines without a rule are not counted.
ParseLineUncounted ==
    /\ pc = "syntax"
    /\ IF line > Len(Text) THEN Goto("rule") /\ UNCHANGED <<error, rules>>
       ELSE IF Text[line].kind = "bad" THEN Fail(line) /\ UNCHANGED rules
       ELSE /\ line' = line + 1
            /\ rules' = IF Text[line].kind = "blank" THEN rules
                        ELSE Append(rules, [rule |-> Text[line].rule, num |-> Len(rules) + 1])
            /\ UNCHANGED <<pc, error>>
    /\ UNCHANGED <<config, table, compiled, loaded, askVars, searchVars>>

\* ParseTextRules: comments and empty lines are skipped, but counted.
ParseLine ==
    /\ pc = "syntax"
    /\ IF line > Len(Text) THEN Goto("rule") /\ UNCHANGED <<error, rules>>
       ELSE IF Text[line].kind = "bad" THEN Fail(line) /\ UNCHANGED rules
       ELSE /\ line' = line + 1
            /\ rules' = IF Text[line].kind = "blank" THEN rules
                        ELSE Append(rules, [rule |-> Text[line].rule, num |-> line])
            /\ UNCHANGED <<pc, error>>
    /\ UNCHANGED <<config, table, compiled, loaded, askVars, searchVars>>

-----------------------------------------------------------------------------
(* Compile                                                                 *)

\* Networks in the order of their addresses, which differ.
ByAddress(set) ==
    [k \in 1 .. Cardinality(set) |->
        CHOOSE n \in set : Cardinality({m \in set : m.ip < n.ip}) = k - 1]

NetsOf(cidrs, bytes) == {Net(c, BitsOf(bytes)) : c \in {d \in cidrs : d.bytes = bytes}}

\* What stands for an error.
NoMatcher == [kind |-> "none"]

\* newGeoIPMatcher, which fails for an address of another length.
GeoIPMatcher(list) ==
    IF \E c \in list.cidrs : c.bytes \notin {4, 16} THEN NoMatcher
    ELSE [kind |-> "geoip", inverse |-> list.inverse,
          v4 |-> ByAddress(NetsOf(list.cidrs, 4)), v6 |-> ByAddress(NetsOf(list.cidrs, 16))]

\* newGeositeMatcher, which fails for a bad domain.
SiteMatcher(list, attrs) ==
    IF Compilable(list.domains) THEN Matcher(list.domains, attrs) ELSE NoMatcher

\* Does a database have a list of this code?  One that cannot be loaded has none.
HasList(kind, source, code) ==
    code # Nil /\ LET db == Load(kind, source) IN db.ok /\ Lower(code) \in DOMAIN db.map

ListOf(kind, source, code) == Load(kind, source).map[Lower(code)]

DomainMatcher(mode, name) ==
    [kind |-> "domain", mode |-> mode, pattern |-> [runes |-> Lower(name).id, spelling |-> "plain"]]

\* compileHostMatcher: the first form that the address has.
HostMatcher(a) ==
    CASE a.prefix = "all"     -> [kind |-> "all"]
      [] a.prefix = "geoip"   -> IF HasList("geoip", config.geoip, a.body)
                                 THEN GeoIPMatcher(ListOf("geoip", config.geoip, a.body)) ELSE NoMatcher
      [] a.prefix = "geosite" -> IF HasList("geosite", config.geosite, a.body)
                                 THEN SiteMatcher(ListOf("geosite", config.geosite, a.body), a.attrs) ELSE NoMatcher
      [] a.prefix = "suffix"  -> IF a.body.id = <<>> THEN NoMatcher ELSE DomainMatcher("suffix", a.body)
      [] a.prefix = "none"    ->
            IF a.nets # {} THEN [kind |-> "addr", nets |-> a.nets]
            ELSE IF a.slash THEN NoMatcher
            ELSE DomainMatcher(IF \E i \in DOMAIN a.body.id : a.body.id[i] = "*"
                               THEN "wildcard" ELSE "exact", a.body)

MaxPort == 65535

\* parseProtoPort: no port, one, or the two of a range.
GoodProtoPort(p) ==
    /\ p.proto \in RM!Protocols
    /\ \A i \in DOMAIN p.ports : p.ports[i] \in 0 .. MaxPort
    /\ Len(p.ports) = 2 => p.ports[1] <= p.ports[2]

Compiled(rule, host) ==
    LET ports == IF rule.protoPort.ports = <<>> THEN <<0>> ELSE rule.protoPort.ports
    IN  [outbound |-> table[Lower(rule.outbound).id], host |-> host,
         proto |-> rule.protoPort.proto, hasPortFilter |-> rule.protoPort.ports # <<>>,
         startPort |-> Head(ports), endPort |-> Last(ports), hijack |-> rule.hijack.ip]

\* One rule: its outbound, its host with the database it needs, protocol and
\* port, hijack address.  The first rule with a flaw ends it all.
CompileRule ==
    /\ pc = "rule"
    /\ IF line > Len(rules) THEN Goto("ready") /\ UNCHANGED <<error, compiled, loaded>>
       ELSE LET rule  == rules[line].rule
                known == Lower(rule.outbound).id \in DOMAIN table
                host  == HostMatcher(rule.addr)
            IN  /\ loaded' = IF known /\ rule.addr.prefix \in {"geoip", "geosite"} /\ rule.addr.body # Nil
                             THEN loaded \cup {rule.addr.prefix} ELSE loaded
                /\ IF /\ known /\ host # NoMatcher /\ GoodProtoPort(rule.protoPort)
                      /\ rule.hijack.given => rule.hijack.ip # Nil
                   THEN /\ compiled' = Append(compiled, Compiled(rule, host))
                        /\ line' = line + 1 /\ UNCHANGED <<pc, error>>
                   ELSE Fail(rules[line].num) /\ UNCHANGED compiled
    /\ UNCHANGED <<config, rules, table, askVars, searchVars>>

-----------------------------------------------------------------------------
(* Answering                                                               *)

\* A question to the rules, for the name in lower case.
Ask(q) ==
    /\ pc \in {"ready", "answered"}
    /\ pc' = "match"
    /\ question' = [q EXCEPT !.host.name = RM!ToLower(@)]
    /\ at' = 1 /\ answer' = Nil
    /\ UNCHANGED <<config, buildVars, family, searchVars>>

\* A rule without a hit hands on to the next one.
Settle(hit) ==
    /\ family' = "none"
    /\ IF hit
       THEN /\ pc' = "answered" /\ UNCHANGED at
            /\ answer' = [outbound |-> compiled[at].outbound, hijack |-> compiled[at].hijack]
       ELSE pc' = "match" /\ at' = at + 1 /\ UNCHANGED answer
    /\ UNCHANGED <<config, buildVars, question>>

\* The default outbound, after the last rule (Router.match).
NoRule ==
    /\ pc = "match" /\ at > Len(compiled)
    /\ pc' = "answered"
    /\ answer' = [outbound |-> table["default"], hijack |-> Nil]
    /\ UNCHANGED <<config, buildVars, question, at, family, searchVars>>

\* A rule without a GeoIP list, or one that its filters refuse.
TryRule ==
    /\ pc = "match" /\ at <= Len(compiled)
    /\ LET rule == compiled[at]
       IN  /\ rule.host.kind = "geoip" => ~RM!PassesFilter(rule, question.proto, question.port)
           /\ Settle(/\ RM!PassesFilter(rule, question.proto, question.port)
                     /\ IF rule.host.kind = "geosite" THEN SiteMatches(rule.host, question.host.name.runes)
                        ELSE RM!HostMatches(rule.host, question.host))
    /\ UNCHANGED searchVars

\* geoipMatcher.Match searches for one address of the host after the other.
Search(f) ==
    /\ pc' = "search" /\ family' = f
    /\ Begin(compiled[at].host[f], question.host[f].addr.number)
    /\ UNCHANGED <<config, buildVars, question, at, answer>>

TryGeoIP ==
    /\ pc = "match" /\ at <= Len(compiled)
    /\ compiled[at].host.kind = "geoip"
    /\ RM!PassesFilter(compiled[at], question.proto, question.port)
    /\ IF question.host.v4 # Nil THEN Search("v4")
       ELSE IF question.host.v6 # Nil THEN Search("v6")
       ELSE Settle(compiled[at].host.inverse) /\ UNCHANGED searchVars

SearchStep ==
    /\ pc = "search"
    /\ Searching
    /\ UNCHANGED <<config, pc, buildVars, askVars>>

\* A list that is inverted matches what it does not hold.
Searched ==
    /\ pc = "search" /\ verdict # "open"
    /\ IF verdict = "missed" /\ family = "v4" /\ question.host.v6 # Nil THEN Search("v6")
       ELSE Settle((verdict = "found") # compiled[at].host.inverse) /\ UNCHANGED searchVars

Next ==
    \/ BuildOutbound \/ BuildRules \/ ParseLine \/ CompileRule
    \/ \E q \in Questions : Ask(q)
    \/ NoRule \/ TryRule \/ TryGeoIP \/ SearchStep \/ Searched

Spec == Init /\ [][Next]_vars

-----------------------------------------------------------------------------
(* What the configuration says, read off the text and the raw files        *)

LeastOf(S) == CHOOSE i \in S : \A j \in S : i <= j

\* Is there a file, and is it what it is taken for?
Readable(kind, source) ==
    /\ source.given
    /\ source.file.format \in Formats(kind)
    /\ source.file.format = IF source.format # "none" THEN source.format ELSE Lower(source.extension).id

SameWord(v, w) == Lower(v) = Lower(w)

\* Is an address in a country?  In a tree of version 6 the IPv4 addresses are
\* the lowest of all.
InCountry(file, code, addr) ==
    IF file.format = "dat"
    THEN \E i \in DOMAIN file.entries : \E c \in file.entries[i].cidrs :
            /\ SameWord(file.entries[i].code, code) /\ c.bytes = addr.bytes
            /\ SamePrefix(c.ip, addr.number, c.prefix, BitsOf(c.bytes))
    ELSE \E n \in file.nets :
            /\ \E c \in n.codes : SameWord(c, code)
            /\ addr.bytes = 4 \/ file.version = 6
            /\ SamePrefix(n.ip, addr.number, n.prefix, IF file.version = 4 THEN Bits4 ELSE Bits6)

Inverted(file, code) ==
    file.format = "dat" /\ \E i \in DOMAIN file.entries :
        SameWord(file.entries[i].code, code) /\ file.entries[i].inverse

Occurs(value, name) ==
    \E before, after \in 0 .. Len(name) :
        before <= after /\ SubSeq(name, before + 1, after) = value

Below(domain, name) == name = domain \/ IsSuffix(<<".">> \o domain, name)

\* The places of the items of an index entry: they follow each other.
Runs(file, entry) ==
    {run \in [1 .. entry.count -> DOMAIN file.items] :
        \A k \in 1 .. entry.count :
            run[k] = IF k = 1 THEN entry.index ELSE run[k - 1] + file.items[run[k - 1]].size}

ItemsOf(file, code) ==
    UNION {UNION {{file.items[run[k]] : k \in DOMAIN run} : run \in Runs(file, file.index[i])} :
              i \in {j \in DOMAIN file.index : SameWord(file.index[j].code, code)}}

\* Is a name in a site?  sing-geosite has no attributes, and its suffixes
\* begin with a dot (singsite/load.go:34).
InSite(file, code, attrs, name) ==
    IF file.format = "dat"
    THEN \E i \in DOMAIN file.entries : \E d \in file.entries[i].domains :
            /\ SameWord(file.entries[i].code, code)
            /\ attrs \subseteq d.attrs
            /\ \/ d.type = "plain" /\ Occurs(d.value, name)
               \/ d.type = "regex" /\ name \in d.value
               \/ d.type = "full"  /\ name = d.value
               \/ d.type = "root"  /\ Below(d.value, name)
    ELSE \E item \in ItemsOf(file, code) :
            /\ attrs = {}
            /\ \/ item.type = "keyword" /\ Occurs(item.value, name)
               \/ item.type = "regex"   /\ name \in item.value
               \/ item.type = "domain"  /\ name = item.value
               \/ item.type = "suffix"  /\ Below(Tail(item.value), name)

HostAsWritten(a, host) ==
    CASE a.prefix = "geoip" ->
            Inverted(config.geoip.file, a.body) #
                \E ip \in {host.v4, host.v6} \ {Nil} : InCountry(config.geoip.file, a.body, ip.addr)
      [] a.prefix = "geosite" -> InSite(config.geosite.file, a.body, a.attrs, host.name.runes)
      [] OTHER -> RM!HostMatches(HostMatcher(a), host)

RuleAsWritten(rule, q) ==
    /\ rule.protoPort.proto \in {"both", q.proto}
    /\ rule.protoPort.ports # <<>> =>
          q.port \in Head(rule.protoPort.ports) .. Last(rule.protoPort.ports)
    /\ HostAsWritten(rule.addr, q.host)

RuleLines == {l \in DOMAIN Text : Text[l].kind = "rule"}

\* The outbound of a name: the last entry that has it, or the built-in one.
Named(name) ==
    LET having == {i \in DOMAIN config.outbounds : SameWord(config.outbounds[i].name, name)}
    IN  IF having # {} THEN config.outbounds[CHOOSE i \in having : \A j \in having : j <= i]
        ELSE IF Lower(name).id # "default" THEN Builtin(Lower(name).id)
        ELSE IF config.outbounds # <<>> THEN config.outbounds[1] ELSE Builtin("direct")

AnswerAsWritten(q) ==
    LET hits == {l \in RuleLines : RuleAsWritten(Text[l].rule, q)}
        rule == Text[LeastOf(hits)].rule
    IN  IF hits = {} THEN [outbound |-> Named(Word("default")), hijack |-> Nil]
        ELSE [outbound |-> Named(rule.outbound), hijack |-> rule.hijack.ip]

\* Does a database have a list of this code that a rule can use?
Usable(kind, source, code) ==
    /\ code # Nil /\ Readable(kind, source)
    /\ LET file == source.file
       IN  CASE file.format = "dat" ->
                  \E i \in DOMAIN file.entries :
                     /\ SameWord(file.entries[i].code, code)
                     /\ IF kind = "geoip" THEN \A c \in file.entries[i].cidrs : c.bytes \in {4, 16}
                        ELSE \A d \in file.entries[i].domains :
                                d.type # "other" /\ ~(d.type = "regex" /\ d.value = Nil)
             [] file.format = "db" ->
                  /\ \A i \in DOMAIN file.index : Runs(file, file.index[i]) # {}
                  /\ \E i \in DOMAIN file.index : SameWord(file.index[i].code, code)
                  /\ \A item \in ItemsOf(file, code) : ~(item.type = "regex" /\ item.value = Nil)
             [] OTHER -> \E n \in file.nets : \E c \in n.codes : SameWord(c, code)

Flawed(rule) ==
    \/ Lower(rule.outbound).id \notin {"direct", "reject", "default"} \cup
          {Lower(config.outbounds[i].name).id : i \in DOMAIN config.outbounds}
    \/ rule.addr.prefix \in {"geoip", "geosite"} /\ ~Usable(rule.addr.prefix, config[rule.addr.prefix], rule.addr.body)
    \/ rule.addr.prefix = "suffix" /\ rule.addr.body.id = <<>>
    \/ rule.addr.prefix = "none" /\ rule.addr.slash /\ rule.addr.nets = {}
    \/ rule.protoPort.proto = "other"
    \/ \E i, j \in DOMAIN rule.protoPort.ports :
          \/ rule.protoPort.ports[i] \notin 0 .. MaxPort
          \/ i < j /\ rule.protoPort.ports[i] > rule.protoPort.ports[j]
    \/ rule.hijack.given /\ rule.hijack.ip = Nil

ErrorAsWritten ==
    LET entries == {i \in DOMAIN config.outbounds : ~Accepted(config.outbounds[i])}
        bad     == {l \in DOMAIN Text : Text[l].kind = "bad"}
        flawed  == {l \in RuleLines : Flawed(Text[l].rule)}
    IN  IF entries # {} THEN [stage |-> "outbounds", at |-> LeastOf(entries)]
        ELSE IF config.file.given /\ (~config.file.readable \/ config.inline # <<>>)
        THEN [stage |-> "rules", at |-> 0]
        ELSE IF bad # {} THEN [stage |-> "syntax", at |-> LeastOf(bad)]
        ELSE IF flawed # {} THEN [stage |-> "rule", at |-> LeastOf(flawed)]
        ELSE Nil

-----------------------------------------------------------------------------
(* Properties                                                              *)

\* Every answer is what the text and the raw databases say: the outbound and
\* hijack address of the first line that matches, a GeoIP line by the networks
\* of its country whatever the format of the file (README.md:295-300), a
\* GeoSite line by the domains of its site with all of the line's attributes.
AnswersAsWritten == pc = "answered" => answer = AnswerAsWritten(question)

\* Building fails if and only if something is wrong, and names the first line
\* or entry in which it is, comments and empty lines counted (parse.go:54).
FirstErrorReported ==
    /\ pc = "failed" => error # Nil /\ error = ErrorAsWritten
    /\ pc \in {"ready", "match", "search", "answered"} => ErrorAsWritten = Nil

\* The searches run as GeoIP wants them, and a database is loaded only if a
\* rule needs it (compile.go:128).
Inv ==
    /\ SearchInv
    /\ pc = "search" => /\ compiled[at].host.kind = "geoip"
                        /\ nets = compiled[at].host[family] /\ needle = question.host[family].addr.number
    /\ \A kind \in loaded : \E l \in RuleLines : Text[l].rule.addr.prefix = kind

=============================================================================
