----------------------------- MODULE ConfigRules -----------------------------
(***************************************************************************)
(* Which configurations rustydns accepts (validate_config in               *)
(* crates/rustydns-core/src/config.rs), what the daemon does with one at   *)
(* startup (crates/rustydnsd/src/main.rs, handler.rs), and what the first  *)
(* promises the second.                                                    *)
(*                                                                         *)
(* A value the code parses is kept with whether it parses: an address to   *)
(* listen at is [ok, ip, port], an upstream is [scheme, usable], and an    *)
(* optional value is a sequence of at most one.                            *)
(***************************************************************************)
EXTENDS AuthorityLookup, Schedule, NameRules

CONSTANTS LoopbackV4, LocalhostV4    \* 127.0.0.0/8 and 127.0.0.1

ASSUME ConfigAssumption ==
    /\ LocalhostV4 \in LoopbackV4
    /\ LoopbackV4 \subseteq 1..(2^V4Bits - 1)

Bind(ip, port) == [ok |-> TRUE, ip |-> ip, port |-> port]

IsLoopback(ip) == ip.bits \in IF ip.family = "v4" THEN LoopbackV4 ELSE {1}
IsUnspecified(ip) == ip.bits = 0

-----------------------------------------------------------------------------
(* The shape of a configuration.                                           *)

BindRecord == [ok : BOOLEAN, ip : Addresses, port : Nat]
UrlRecord == [scheme : STRING, usable : BOOLEAN]
RouteRecord == [zone : DnsName, dotted : BOOLEAN, resolvers : Seq(UrlRecord), protocol : STRING]
GroupRecord == [name : STRING, sources : Seq(STRING), trusted : Seq(STRING), allowlist : Seq(DnsName)]
PolicyRecord ==
    [ node : STRING, client : Seq([ok : BOOLEAN, ip : Addresses]),
      windows : Seq(WindowRecord), group : Seq(STRING) ]

ServerRecord ==
    [ listen : Seq(BindRecord), doh : Seq(BindRecord), dot : Seq(BindRecord), doq : Seq(BindRecord),
      tls : SUBSET {"cert", "key"}, dotted : BOOLEAN ]
UpstreamRecord ==
    [ resolvers : Seq(UrlRecord), protocol : STRING, timeout : Nat, cache : Nat,
      routes : Seq(RouteRecord), proxies : Seq(UrlRecord) ]
AuthorityRecord ==
    [ mesh : DnsName, zones : Seq(DnsName), static : Seq(StaticRecord), dotted : BOOLEAN,
      bundle : STRING, max_age : Nat, poll : Nat ]
BlocklistRecord ==
    [ sources : Seq(STRING), trusted : Seq(STRING), local_files : Seq(STRING), timeout : Nat, max_bytes : Nat,
      reload : Nat, response : STRING, sinkhole : BOOLEAN, cloaking : BOOLEAN,
      denylist : Seq(DenylistEntry), regex : Seq(BOOLEAN), allowlist : Seq(DnsName), groups : Seq(GroupRecord) ]
PrivacyRecord == [ring : Nat, to_disk : BOOLEAN, path : STRING, files : Nat, bytes : Nat]
RateRecord == [enabled : BOOLEAN, qps : Nat, burst : Nat, clients : Nat]

ConfigRecord ==
    [ server : ServerRecord, upstream : UpstreamRecord, authority : AuthorityRecord,
      blocklist : BlocklistRecord, privacy : PrivacyRecord,
      metrics : [listen : BindRecord, path : STRING], rate : RateRecord,
      policy : Seq(PolicyRecord), rewrite : Seq(RewriteRecord) ]

-----------------------------------------------------------------------------
(* The defaults of the sections.                                           *)

DefaultServer ==
    [ listen   |-> <<Bind(V4(CHOOSE b \in LoopbackV4 \ {LocalhostV4} : TRUE), 53)>>,
      doh      |-> <<Bind(V4(LocalhostV4), 8053)>>,
      dot      |-> <<>>,
      doq      |-> <<>>,
      tls      |-> {},                \* which of "cert" and "key" are set
      dotted   |-> TRUE ]             \* the mesh zone ends with a dot

DefaultUpstream ==
    [ resolvers |-> <<[scheme |-> "https", usable |-> TRUE], [scheme |-> "https", usable |-> TRUE]>>,
      protocol  |-> "doh",
      timeout   |-> 5000,
      cache     |-> 10000,
      routes    |-> <<>>,
      proxies   |-> <<>> ]

DefaultAuthority ==
    [ mesh    |-> <<"mesh">>,
      zones   |-> <<>>,
      static  |-> <<>>,
      dotted  |-> TRUE,
      bundle  |-> "unset",            \* the paths of the bundle and of its key
      max_age |-> 600,
      poll    |-> 30 ]

DefaultBlocklist ==
    [ sources   |-> <<"https">>,
      trusted   |-> <<>>,
      local_files |-> <<>>,
      timeout   |-> 30000,
      max_bytes |-> 50 * 1024 * 1024,
      reload    |-> 86400,
      response  |-> "nxdomain",
      sinkhole  |-> TRUE,             \* sinkhole_ip is an address
      cloaking  |-> TRUE,
      denylist  |-> <<>>,
      regex     |-> <<>>,             \* for each pattern, whether it compiles
      allowlist |-> <<>>,
      groups    |-> <<>> ]

DefaultPrivacy ==
    [ ring    |-> 1000,
      to_disk |-> FALSE,
      path    |-> "unset",
      files   |-> 5,
      bytes   |-> 10 * 1024 * 1024 ]

DefaultMetrics == [listen |-> Bind(V4(LocalhostV4), 9153), path |-> "plain"]

DefaultRateLimit == [enabled |-> TRUE, qps |-> 100, burst |-> 200, clients |-> 10000]

DefaultConfig ==
    [ server    |-> DefaultServer,
      upstream  |-> DefaultUpstream,
      authority |-> DefaultAuthority,
      blocklist |-> DefaultBlocklist,
      privacy   |-> DefaultPrivacy,
      metrics   |-> DefaultMetrics,
      rate      |-> DefaultRateLimit,
      policy    |-> <<>>,
      rewrite   |-> <<>> ]

-----------------------------------------------------------------------------
(* The addresses of the listeners.                                         *)

AllOk(binds) == \A i \in DOMAIN binds : binds[i].ok

\* Every one of them, since the daemon gives up at the first that does not.
ListenersParse(config) ==
    /\ config.server.listen # <<>>
    /\ AllOk(config.server.listen)
    /\ AllOk(config.server.dot \o config.server.doq \o config.server.doh)
    /\ config.metrics.listen.ok

\* MetricsConfig::effective_listen: what is not loopback is moved to loopback,
\* in the family it has natively.
effective_listen(metrics) ==
    LET ip == Unmapped(metrics.listen.ip)
    IN  [metrics.listen EXCEPT !.ip =
            IF IsLoopback(ip) THEN ip
            ELSE IF ip.family = "v6" THEN V6(1) ELSE V4(LocalhostV4)]

addrs_compete_raw(a, b) ==
    \/ a.family = b.family /\ (a = b \/ IsUnspecified(a) \/ IsUnspecified(b))
    \/ a.family = "v6" /\ b.family = "v4" /\ IsUnspecified(a)
    \/ a.family = "v4" /\ b.family = "v6" /\ IsUnspecified(b)

\* norm_ip first: an IPv6 socket on the unspecified address takes IPv4 as well.
addrs_compete(a, b) ==
    LET x == Unmapped(a)
        y == Unmapped(b)
    IN  \/ x.family = y.family /\ (x = y \/ IsUnspecified(x) \/ IsUnspecified(y))
        \/ x.family = "v6" /\ y.family = "v4" /\ IsUnspecified(x)
        \/ x.family = "v4" /\ y.family = "v6" /\ IsUnspecified(y)

Listener(role, binds) == {[role |-> role, at |-> b] : b \in ToSet(binds)}

\* No two roles compete for a port; within a role overlaps are deliberate.
Apart(listeners) ==
    \A s, t \in listeners :
        s.role # t.role /\ s.at.port = t.at.port => ~addrs_compete(s.at.ip, t.at.ip)

ListenersApart(config) ==
    LET s == config.server
        plain == Listener("plain", s.listen)
    IN  /\ Apart(plain \cup Listener("dot", s.dot) \cup Listener("doh", s.doh)
                   \cup Listener("metrics", <<effective_listen(config.metrics)>>))
        /\ Apart(plain \cup Listener("doq", s.doq))

HasTls(server) == server.tls = {"cert", "key"}

\* DoH speaks plaintext and so stays on loopback unless TLS is set up; DoT and
\* DoQ need it.
TlsCovers(config) ==
    LET s == config.server IN
    /\ \A i \in DOMAIN s.doh : IsLoopback(Unmapped(s.doh[i].ip)) \/ HasTls(s)
    /\ s.dot \o s.doq # <<>> => HasTls(s)

\* Both mesh zones end with a dot; a declared zone is one label, declared once.
ZonesValid(config) ==
    LET zones == config.authority.zones IN
    /\ config.server.dotted /\ config.authority.dotted
    /\ \A i \in DOMAIN zones : Len(zones[i]) = 1
    /\ \A i, j \in DOMAIN zones : i # j => normalise_name(zones[i]) # normalise_name(zones[j])

-----------------------------------------------------------------------------
(* Upstreams.  A scheme is that of the URL, "none" for a bare host and     *)
(* "empty" for no URL at all.                                              *)

SchemeFits(url, protocol) ==
    CASE protocol \in {"doh", "odoh"} -> url.scheme = "https"
      [] protocol = "doq" -> url.scheme \in {"quic", "h3"}
      [] protocol = "plain" -> url.scheme = "none"

AllFit(urls, protocol) == \A i \in DOMAIN urls : SchemeFits(urls[i], protocol)

\* Relays are configured exactly for the oblivious protocol.
UpstreamValid(config) ==
    LET u == config.upstream IN
    /\ u.resolvers # <<>> /\ AllFit(u.resolvers, u.protocol)
    /\ u.protocol = "odoh" <=> u.proxies # <<>>
    /\ u.protocol = "odoh" => AllFit(u.proxies, "odoh")
    /\ u.timeout > 0
    /\ u.cache <= 500000

\* Every route names a zone of its own below the root and has upstreams.
RoutesValid(config) ==
    LET routes == config.upstream.routes IN
    \A i \in DOMAIN routes :
        /\ routes[i].zone # <<>> /\ routes[i].dotted
        /\ \A j \in 1..(i - 1) : normalise_name(routes[j].zone) # normalise_name(routes[i].zone)
        /\ routes[i].resolvers # <<>>
        /\ routes[i].protocol # "odoh"
        /\ AllFit(routes[i].resolvers, routes[i].protocol)

-----------------------------------------------------------------------------
(* Blocklists, privacy, the limiter, policies and rewrites.                *)

\* The labels of an entry after its leading "*." and then its leading dots.
Stripped(typed, label) ==
    LET first == SelectInSeq(typed, LAMBDA l : l # label)
    IN  IF first = 0 THEN <<>> ELSE SubSeq(typed, first, Len(typed))
Bare(typed) == Stripped(Stripped(typed, "*"), "")

\* reject_overbroad_allowlist: an entry keeps two labels.
reject_overbroad_allowlist(entries) == \A i \in DOMAIN entries : Len(Bare(entries[i])) > 1

NoPlainHttp(sources) == \A i \in DOMAIN sources : sources[i] # "http"

\* RegexRules::compile
RegexCompiles(regex) == Len(regex) <= 1000 /\ \A i \in DOMAIN regex : regex[i]

\* The limits of a fetch, and how often there is one.
FetchValid(b) ==
    /\ b.timeout > 0
    /\ b.max_bytes \in 1..(100 * 1024 * 1024)
    /\ b.reload = 0 \/ b.reload >= 300

BlocklistValid(config) ==
    LET b == config.blocklist IN
    /\ NoPlainHttp(b.sources \o b.trusted)
    /\ FetchValid(b)
    /\ b.response = "sinkhole" => b.sinkhole
    /\ \A i \in DOMAIN b.denylist : EntryParses(b.denylist[i])
    /\ RegexCompiles(b.regex)
    /\ reject_overbroad_allowlist(b.allowlist)
    /\ \A i \in DOMAIN b.groups :
          /\ b.groups[i].name # ""
          /\ \A j \in 1..(i - 1) : b.groups[j].name # b.groups[i].name
          /\ NoPlainHttp(b.groups[i].sources \o b.groups[i].trusted)
          /\ reject_overbroad_allowlist(b.groups[i].allowlist)

MIN_FILE_BYTES == 4096
MAX_FILE_BYTES == 1024 * 1024 * 1024

PrivacyValid(config) ==
    LET p == config.privacy IN
    /\ p.ring <= 100000
    /\ p.to_disk => /\ p.path = "set"
                    /\ p.files > 0
                    /\ p.bytes \in MIN_FILE_BYTES..MAX_FILE_BYTES

RateLimitValid(config) ==
    LET r == config.rate IN
    r.enabled => r.qps > 0 /\ r.burst >= r.qps /\ r.clients \in 1..1000000

\* A policy names a client by node or by address ([ok, ip]).
PolicyValid_ungrouped(config) ==
    \A i \in DOMAIN config.policy :
        LET p == config.policy[i] IN
        /\ p.node # "none" \/ p.client # <<>>
        /\ p.node \in {"none", "ed25519"}
        /\ AllOk(p.client)
        /\ \A j \in DOMAIN p.windows : WindowValid(p.windows[j])

PolicyValid(config) ==
    \A i \in DOMAIN config.policy :
        LET p == config.policy[i] IN
        /\ p.node # "none" \/ p.client # <<>>
        /\ p.node \in {"none", "ed25519"}
        /\ AllOk(p.client)
        /\ \A j \in DOMAIN p.windows : WindowValid(p.windows[j])
        /\ \A g \in ToSet(p.group) : \E k \in DOMAIN config.blocklist.groups :
              config.blocklist.groups[k].name = g

\* One action, an address that parses, a target that is not the name itself,
\* and no wildcard over a top-level domain.  The name "." is the empty name
\* here, and is refused like it.
RewriteValid(config) ==
    \A i \in DOMAIN config.rewrite :
        LET r == config.rewrite[i] IN
        /\ r.name # <<>>
        /\ r.kind \in {"address", "cname", "block"}
        /\ r.kind = "cname" => r.target # <<>> /\ normalise_name(r.target) # normalise_name(r.name)
        /\ IsWildcard(r.name) => Len(Bare(r.name)) > 1

validate_config(config) ==
    /\ ListenersParse(config)
    /\ ZonesValid(config)
    /\ ListenersApart(config)
    /\ TlsCovers(config)
    /\ UpstreamValid(config)
    /\ RoutesValid(config)
    /\ BlocklistValid(config)
    /\ PrivacyValid(config)
    /\ RateLimitValid(config)
    /\ PolicyValid(config)
    /\ RewriteValid(config)

-----------------------------------------------------------------------------
(* Startup.                                                                *)

\* --validate-config builds the authority too.
validate_only(config) == validate_config(config) /\ Accepts(config.authority)

\* metrics_listen_addr decides again where the metrics listen.
metrics_listen_addr(metrics) ==
    LET ip == Unmapped(metrics.listen.ip)
    IN  [metrics.listen EXCEPT !.ip =
            IF IsLoopback(ip) THEN ip
            ELSE IF ip.family = "v6" THEN V6(1) ELSE V4(LocalhostV4)]

ensure_doh_bind_allowed(bind, tls) == IsLoopback(Unmapped(bind.ip)) \/ tls

\* "reserved" stands for /health and /queries, "meta" for a path with captures
\* and "dots" for one with dot-segments.
normalize_metrics_path(path) == path \notin {"reserved", "meta", "dots"}

\* Resolver::new with every name resolved: an arm needs one upstream.
ResolverBuilds(config) ==
    LET u == config.upstream
        SomeUsable(urls) == \E i \in DOMAIN urls : urls[i].usable
    IN  /\ IF u.protocol = "odoh"
           THEN u.proxies # <<>> /\ u.resolvers # <<>> /\
                \A i \in DOMAIN u.resolvers : u.resolvers[i].usable /\ u.resolvers[i].scheme = "https"
           ELSE SomeUsable(u.resolvers)
        /\ \A i \in DOMAIN u.routes : SomeUsable(u.routes[i].resolvers)

\* A port that takes CAP_NET_BIND_SERVICE to bind.
Privileged(port) == port \in 1..1023

\* What main goes through before it serves: any of these ends it.  DoH and the
\* metrics are bound last, when drop_capabilities has given the capability up.
Starts(config) ==
    LET s == config.server IN
    /\ Accepts(config.authority)
    /\ ResolverBuilds(config)
    /\ config.privacy.to_disk => config.privacy.path # "unset"
    /\ config.blocklist.response = "sinkhole" => config.blocklist.sinkhole
    /\ AllOk(s.listen \o s.dot \o s.doq \o s.doh) /\ config.metrics.listen.ok
    /\ s.dot \o s.doq # <<>> => HasTls(s)
    /\ \A i \in DOMAIN s.doh : ensure_doh_bind_allowed(s.doh[i], HasTls(s))
    /\ normalize_metrics_path(config.metrics.path)
    /\ \A i \in DOMAIN s.doh : ~Privileged(s.doh[i].port)
    /\ ~Privileged(metrics_listen_addr(config.metrics).port)

\* The sockets it binds.
Bound(config) ==
    LET s == config.server
        On(transport, listeners) == {[transport |-> transport, role |-> l.role, at |-> l.at] : l \in listeners}
        plain == Listener("plain", s.listen)
    IN  On("udp", plain \cup Listener("doq", s.doq)) \cup
        On("tcp", plain \cup Listener("dot", s.dot) \cup Listener("doh", s.doh)
                    \cup Listener("metrics", <<metrics_listen_addr(config.metrics)>>))

\* build_policy_map: the last policy of a client, whichever way either is
\* written; one whose address does not parse is skipped and a schedule that
\* does not compile is none.
PolicyOf(config, src) ==
    LET mine == {i \in DOMAIN config.policy :
                    \E c \in ToSet(config.policy[i].client) :
                        c.ok /\ Unmapped(c.ip) = Unmapped(src)}
        p == config.policy[Max(mine)]
        compiled == \A j \in DOMAIN p.windows : WindowValid(p.windows[j])
    IN  IF mine = {} THEN <<>>
        ELSE <<[schedule |-> IF compiled THEN compile(p.windows) ELSE <<>>, group |-> p.group]>>

\* BlocklistEngine::new: a denylist that does not parse is none.
EngineDenylist(config) ==
    IF \A i \in DOMAIN config.blocklist.denylist : EntryParses(config.blocklist.denylist[i])
    THEN DenylistOf(config.blocklist.denylist) ELSE {}

\* is_blocked_for_group: a group that does not exist is the global list.
ListFor(config, group) ==
    IF \E g \in ToSet(config.blocklist.groups), want \in ToSet(group) : g.name = want
    THEN group ELSE <<>>

-----------------------------------------------------------------------------
(* SIGHUP.                                                                 *)

\* handle_sighup: the resolver, the limiter, the policies, the rewrites and the
\* listeners follow the new configuration; the blocklist engine, the authority
\* and the query log stay as startup built them.
InForce(startup, new) ==
    [new EXCEPT !.blocklist = startup.blocklist,
                !.authority = startup.authority,
                !.privacy = startup.privacy]

ChangedFields(section, fields, old, new) ==
    {<<section, f>> : f \in {g \in fields : old[section][g] # new[section][g]}}

\* The settings it looks at, of the sections that stay.
Compared ==
    [ blocklist |-> {"sources", "local_files", "response", "sinkhole", "allowlist", "cloaking",
                     "denylist", "regex", "groups"},
      authority |-> {"static", "mesh", "zones", "max_age", "poll"},
      privacy   |-> {"to_disk", "path"} ]

\* Mutant: the groups are taken for content, which a reload fetches anew.
restart_required_changes_ungrouped(old, new) ==
    ChangedFields("blocklist", Compared.blocklist \ {"groups"}, old, new)
      \cup ChangedFields("authority", Compared.authority, old, new)
      \cup ChangedFields("privacy", Compared.privacy, old, new)

\* The changed settings the reload warns about.
restart_required_changes(old, new) ==
    ChangedFields("blocklist", Compared.blocklist, old, new)
      \cup ChangedFields("authority", Compared.authority, old, new)
      \cup ChangedFields("privacy", Compared.privacy, old, new)

-----------------------------------------------------------------------------
(* Properties.                                                             *)

\* What a socket receives: its address, or all of its family on the unspecified
\* one, and IPv4 as well on the unspecified IPv6 address.
Receives(bind, ip) ==
    LET at == Unmapped(bind.ip)
        host == Unmapped(ip)
    IN  at = host \/ (IsUnspecified(at) /\ (at.family = "v6" \/ host.family = "v4"))

\* No packet or connection can reach two roles: of an accepted configuration no
\* two sockets of different roles receive the same address and port, wherever
\* the daemon in the end puts the metrics and in whatever family the addresses
\* are written.
RolesApart(config) ==
    validate_config(config) =>
        \A s, t \in Bound(config) :
            s.transport = t.transport /\ s.at.port = t.at.port /\ s.role # t.role =>
                ~\E ip \in Addresses : Receives(s.at, ip) /\ Receives(t.at, ip)

\* What validation does not look at, although it ends the startup: a metrics
\* path axum cannot mount, a privileged port for DoH or the metrics, an arm of
\* the resolver none of whose URLs has a usable host and port (for the oblivious
\* arm: one that has none).
Overlooked(config) ==
    LET u == config.upstream
        s == config.server
        NoneUsable(urls) == \A i \in DOMAIN urls : ~urls[i].usable
    IN  \/ ~normalize_metrics_path(config.metrics.path)
        \/ \E i \in DOMAIN s.doh : Privileged(s.doh[i].port)
        \/ Privileged(config.metrics.listen.port)
        \/ u.protocol = "odoh" /\ \E i \in DOMAIN u.resolvers : ~u.resolvers[i].usable
        \/ u.protocol # "odoh" /\ NoneUsable(u.resolvers)
        \/ \E i \in DOMAIN u.routes : NoneUsable(u.routes[i].resolvers)

\* --validate-config "must fail on the same configs the daemon would die on at
\* startup" (config.rs:2149-2151).  It does for everything but what is
\* Overlooked: an accepted configuration fails to start exactly when one of
\* those is wrong, and then always.
AcceptedStarts(config) ==
    validate_only(config) => (Starts(config) <=> ~Overlooked(config))

\* Nothing of an accepted configuration is dropped on the way: the defaults the
\* daemon falls back to, for a schedule, a denylist or a group it cannot use,
\* all of which restrict less, are never needed.
NothingFallsBack(config, Clients) ==
    validate_config(config) =>
        /\ Cardinality(EngineDenylist(config)) > 0 <=> config.blocklist.denylist # <<>>
        /\ \A src \in Clients :
              LET found == PolicyOf(config, src)
                  written == {i \in DOMAIN config.policy :
                                \E c \in ToSet(config.policy[i].client) : SameHost(c.ip, src)}
              IN  /\ found = <<>> <=> written = {}
                  /\ found # <<>> =>
                        \E i \in written :
                            /\ Len(found[1].schedule) = Len(config.policy[i].windows)
                            /\ ListFor(config, found[1].group) = config.policy[i].group

\* The names the operator allows or rewrites.
NamesOf(config) ==
    {r.name : r \in ToSet(config.rewrite)} \cup ToSet(config.blocklist.allowlist) \cup
    UNION {ToSet(g.allowlist) : g \in ToSet(config.blocklist.groups)}

\* No entry of an accepted configuration takes a whole top-level domain out of
\* the blocklists or answers for one: of the names directly below a label none
\* is allowed, in any group, or rewritten, unless it is named itself.
NoWholeDomain(config, Labels, Fresh) ==
    validate_config(config) =>
        \A label \in Labels :
            /\ MatchingAction(config.rewrite, <<Fresh, label>>) = {}
            /\ \A list \in {config.blocklist.allowlist} \cup
                           {g.allowlist : g \in ToSet(config.blocklist.groups)} :
                  ~is_allowed(from_entries(list), <<Fresh, label>>)

\* The settings that are not those of the file after a reload.
NotFollowed(startup, new) ==
    UNION {ChangedFields(section, DOMAIN new[section], InForce(startup, new), new) :
              section \in {"blocklist", "authority", "privacy"}}

\* Those that restart_required_changes does not compare.
Silent ==
    [ blocklist |-> {"trusted", "reload", "timeout", "max_bytes"},
      authority |-> {"bundle"},
      privacy   |-> {"ring", "files", "bytes"} ]

\* What a SIGHUP leaves as it was is what it warns of, and the changed settings
\* of Silent, which it ignores without a word: of these the claim that "a reload
\* never silently ignores a change" (operator-endpoints.md:291-293) is false.
\* Without a warning a client is still served as after a restart in what does
\* not depend on them: its schedule, its group, the allowlists, the refused
\* addresses and the names answered locally are those of the new configuration.
\* Policies are validated against the groups of the new configuration and then
\* run against those of startup.
ReloadLikeRestart(startup, new, Clients, Names) ==
    LET running == InForce(startup, new)
        Local(config) == build_snapshot(config.authority, <<>>)
        Allowed(config, group, name) ==
            \/ is_allowed(from_entries(config.blocklist.allowlist), name)
            \/ \E g \in ToSet(config.blocklist.groups) :
                  <<g.name>> = ListFor(config, group) /\ is_allowed(from_entries(g.allowlist), name)
    IN  validate_only(startup) /\ validate_config(new) =>
        /\ NotFollowed(startup, new) =
              restart_required_changes(startup, new)
                \cup UNION {ChangedFields(section, Silent[section], startup, new) : section \in DOMAIN Silent}
        /\ restart_required_changes(startup, new) = {} =>
           /\ EngineDenylist(running) = EngineDenylist(new)
           /\ Local(running) = Local(new)
           /\ \A src \in Clients :
                LET found == PolicyOf(running, src)
                    group == IF found = <<>> THEN <<>> ELSE found[1].group
                IN  /\ found = PolicyOf(new, src)
                    /\ ListFor(running, group) = group
                    /\ \A name \in Names : Allowed(running, group, name) <=> Allowed(new, group, name)
=============================================================================
