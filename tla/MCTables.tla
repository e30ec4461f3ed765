------------------------------ MODULE MCTables ------------------------------
(* Small inputs for every table of Tables. *)
EXTENDS Tables

MCLower ==
    [l \in {"a", "b", "c", "d", "www", "com", "mesh", "home", "nas", "localhost", "fresh", "*"} |-> l]
      @@ ("A" :> "a") @@ ("COM" :> "com")

MCAlwaysSkipped == {<<"localhost">>}

UpTo(n, S) == UNION {[1..k -> S] : k \in 0..n}

-----------------------------------------------------------------------------
(* The authority: four names of the mesh, each with nothing, an address or *)
(* an alias to one of them or to a name outside.                           *)

Static(name, type, host) ==
    [ name |-> name, type |-> type, address |-> "v4",
      target |-> <<[kind |-> "host", value |-> 0, host |-> host]>>, bytes |-> 1, ttl |-> 0 ]

ChainNames == {<<l, "mesh">> : l \in {"a", "b", "c", "d"}}
AtName(name) ==
    {<<>>, <<Static(name, "A", name)>>} \cup
    {<<Static(name, "CNAME", to)>> : to \in ChainNames \cup {<<"www", "com">>}}
MCChainZones ==
    {[mesh |-> <<"mesh">>, zones |-> <<>>, static |-> w \o x \o y \o z] :
        w \in AtName(<<"A", "mesh">>), x \in AtName(<<"b", "mesh">>),
        y \in AtName(<<"c", "mesh">>), z \in AtName(<<"d", "mesh">>)}
MCChainQueries == [name : {<<"A", "mesh">>}, type : {"A", "TXT"}]

\* Records with good and bad fields, at names from a whole domain downwards.
Number(n) == [kind |-> "number", value |-> n, host |-> <<>>]
HostWord == [kind |-> "host", value |-> 0, host |-> <<"a", "com">>]
Records ==
    {Static(n, "A", <<"a">>) :
        n \in {<<>>, <<"com">>, <<"a", "COM">>, <<"www", "a", "com">>, <<"mesh">>, <<"a", "mesh">>,
               <<"home">>, <<"nas", "home">>}} \cup
    {[Static(<<"www", "a", "com">>, "MX", <<"a">>) EXCEPT !.target = <<Number(p), HostWord>>] :
        p \in {10, 65536}} \cup
    {[Static(<<"www", "a", "com">>, "TXT", <<"a">>) EXCEPT !.bytes = b] : b \in {255, 256}} \cup
    {[Static(<<"www", "a", "com">>, "SRV", <<"a">>) EXCEPT
        !.target = <<Number(0), Number(5), Number(53), HostWord>>, !.ttl = 60]}
MCAuthorityConfigs ==
    [mesh : {<<"mesh">>}, zones : {<<>>, <<<<"home">>>>}, static : UpTo(2, Records)]

BundleEntry(label, aliases, ip) ==
    [ label |-> label, rr_type |-> "A", target_addr_kind |-> "mesh_ipv4", expected_ip |-> ip,
      ttl |-> 60, node |-> "n1", aliases |-> aliases ]
MCBundles ==
    { <<>>,
      <<BundleEntry(<<"A">>, <<<<"b">>>>, "v4")>>,
      <<BundleEntry(<<"A">>, <<>>, "v4"), BundleEntry(<<"c">>, <<<<"a", "com">>>>, "v4")>>,
      <<BundleEntry(<<"b">>, <<>>, "v4"), BundleEntry(<<"d">>, <<>>, "v6")>> }

-----------------------------------------------------------------------------
(* Days of four minutes of two seconds, and more than a week of them.      *)

Times == {[h |-> h, m |-> m] : h \in 0..DayHours, m \in 0..(HourMinutes - 1)} \cup {Unset}
Windows == [days : {<<>>, <<3>>, <<6, 0>>}, start : Times, end : Times, offset : {-4, 0, 3}]
ValidWindows == {w \in Windows : WindowValid(w)}
MCWindowLists ==
    {<<>>} \cup {<<w>> : w \in ValidWindows} \cup
    {<<v, w>> : v, w \in {x \in ValidWindows : x.days = <<6, 0>> /\ x.start = [h |-> 1, m |-> 0]}}
MCInstants == 0..63

-----------------------------------------------------------------------------
(* Addresses of two and five bits.                                         *)

Entries == {[ip |-> ip, prefix |-> p] : ip \in Addresses, p \in 0..6}
FewEntries == {[ip |-> ip, prefix |-> p] : ip \in {V4(2), V6(3), Mapped(V4(1))}, p \in {1, 2, 5}}
MCDenylists == {<<e>> : e \in Entries} \cup {<<e, f>> : e, f \in FewEntries}
MCClients == [ip : Addresses, node : {"n1"}]

Answer(name, type, target, ip) == [name |-> name, type |-> type, target |-> target, ip |-> ip]
MCAnswers == UpTo(3,
    {Answer(<<"A", "com">>, "A", <<>>, V4(3)), Answer(<<"a", "com">>, "A", <<>>, V4(1)),
     Answer(<<"b", "com">>, "A", <<>>, V4(3)), Answer(<<"c", "com">>, "AAAA", <<>>, V6(9)),
     Answer(<<"c", "com">>, "AAAA", <<>>, Mapped(V4(1))), Answer(<<"a", "com">>, "AAAA", <<>>, V6(1)),
     Answer(<<"a", "com">>, "CNAME", <<"b", "COM">>, V4(0)),
     Answer(<<"b", "com">>, "CNAME", <<"c", "com">>, V4(0)),
     Answer(<<"c", "com">>, "CNAME", <<"A", "com">>, V4(0)),
     Answer(<<"a", "com">>, "TXT", <<>>, V4(0)), Answer(<<"a", "com">>, "SOA", <<>>, V4(0))})
MCQuestions == [name : {<<"a", "COM">>}, type : {"A", "AAAA"}]

-----------------------------------------------------------------------------
(* Rules on names.                                                         *)

Line(kind, says, name) == [kind |-> kind, names |-> <<name>>, says |-> says, long |-> FALSE]
Lines ==
    {Line("comment", "none", <<>>)} \cup
    {Line("hosts", "block", n) : n \in {<<"A", "com">>, <<"com">>, <<"localhost">>}} \cup
    {[Line("hosts", "block", <<"b", "com">>) EXCEPT !.names = <<@[1], <<"nas", "home">>>>],
     [Line("hosts", "block", <<"b", "com">>) EXCEPT !.long = TRUE]} \cup
    {Line("plain", "block", <<"www", "a", "com">>)} \cup
    {Line("rpz", s, n) : s \in {"block", "allow"}, n \in {<<"*", "a", "COM">>, <<"*", "com">>, <<"a", "com">>}} \cup
    {Line("adguard", s, n) : s \in {"block", "allow", "other"}, n \in {<<"a", "com">>, <<"com">>}}
MCSourceLists ==
    {<<[lines |-> l, trusted |-> t]>> : l \in UpTo(2, Lines), t \in BOOLEAN} \cup
    {<<[lines |-> <<l>>, trusted |-> FALSE], [lines |-> <<m>>, trusted |-> t]>> :
        l \in {x \in Lines : x.says = "block" /\ ~x.long}, m \in {x \in Lines : x.says = "allow"}, t \in BOOLEAN}
MCAllowlists == {<<>>, <<<<"*", "a", "com">>>>, <<<<"a", "COM">>, <<"", "b", "com">>>>}
MCPatterns == {{}, {<<"b", "com">>, <<"a", "com">>}}
MCSpellings ==
    {<<>>, <<"a", "COM">>, <<"www", "A", "com">>, <<"d", "www", "a", "com">>, <<"b", "com">>, <<"nas", "home">>,
     <<"fresh", "com">>}

Rule(name, kind, ip, target) == [name |-> name, kind |-> kind, ip |-> ip, target |-> target]
MCRewriteLists == UpTo(3,
    {Rule(<<"a", "com">>, "address", Mapped(V4(3)), <<>>),
     Rule(<<"A", "com">>, "cname", V4(0), <<"b", "com">>),
     Rule(<<"a", "com">>, "bad", V4(0), <<>>),
     Rule(<<"*", "com">>, "block", V4(0), <<>>),
     Rule(<<"*", "a", "com">>, "address", V6(9), <<>>),
     Rule(<<"", "A", "com">>, "cname", V4(0), <<"d", "com">>),
     Rule(<<"*", "www", "a", "com">>, "block", V4(0), <<>>)})
MCRewriteQueries == [name : MCSpellings, type : {"A", "AAAA", "ANY", "TXT"}]
MCEngines == <<[name |-> <<"www", "a", "com">>, target |-> <<"nas", "home">>],
               [name |-> <<"a", "com">>, target |-> <<"nas", "home">>]>>

-----------------------------------------------------------------------------
(* Configurations: the default with its listeners moved about, or with one *)
(* section changed.                                                        *)

Ips == {V4(0), V4(1), V4(3), V6(0), V6(1), V6(9), Mapped(V4(0)), Mapped(V4(1)), Mapped(V4(3))}
Binds == {Bind(ip, port) : ip \in Ips, port \in {53, 853}}
BadBind == [Bind(V4(1), 53) EXCEPT !.ok = FALSE]
Optional(S) == {<<>>} \cup {<<x>> : x \in S}
WithServer(s) == [DefaultConfig EXCEPT !.server = s]

Moved ==
    {[WithServer([DefaultServer EXCEPT !.listen = <<p>>, !.doh = d, !.tls = {"cert", "key"}])
        EXCEPT !.metrics.listen = m] :
        p \in Binds, d \in Optional({b \in Binds : b.port = 53}), m \in {b \in Binds : b.port = 53}} \cup
    {WithServer([DefaultServer EXCEPT !.listen = <<p>>, !.dot = d, !.doq = q, !.tls = {"cert", "key"}]) :
        p \in Binds, d, q \in Optional({b \in Binds : b.port = 853})}

Servers ==
    {[DefaultServer EXCEPT !.listen = l, !.doh = h, !.dot = d, !.tls = t] :
        l \in {<<>>, <<Bind(V4(2), 53)>>, <<Bind(V4(2), 53), BadBind>>},
        h \in Optional({Bind(V4(1), 8053), Bind(Mapped(V4(3)), 8053), BadBind}),
        d \in Optional({Bind(V4(3), 853), BadBind}), t \in SUBSET {"cert", "key"}} \cup
    {[DefaultServer EXCEPT !.dotted = FALSE]}

Url(scheme, usable) == [scheme |-> scheme, usable |-> usable]
Urls == {Url(s, u) : s \in {"https", "quic", "http", "none"}, u \in BOOLEAN}
RouteTo(zone, urls, protocol) ==
    [zone |-> zone, dotted |-> zone # <<"b">>, resolvers |-> urls, protocol |-> protocol]
Upstreams ==
    {[DefaultUpstream EXCEPT !.resolvers = r, !.protocol = p, !.proxies = x] :
        r \in UpTo(2, Urls), p \in {"doh", "doq", "plain", "odoh"},
        x \in {<<>>, <<Url("https", TRUE)>>, <<Url("http", TRUE)>>}} \cup
    {[DefaultUpstream EXCEPT !.routes = r] : r \in UpTo(2,
        {RouteTo(z, u, p) : z \in {<<>>, <<"home">>, <<"b">>, <<"a", "com">>},
            u \in {<<>>, <<Url("none", TRUE)>>, <<Url("none", FALSE), Url("none", TRUE)>>},
            p \in {"plain", "odoh"}})} \cup
    {[DefaultUpstream EXCEPT !.timeout = t, !.cache = c] : t \in {0, 1}, c \in {0, 500000, 500001}}

Group(name, allowlist) ==
    [name |-> name, sources |-> <<"https">>, trusted |-> <<>>, allowlist |-> allowlist]
Broad == {<<"com">>, <<"*", "com">>, <<"", "com">>, <<"*", "*", "com">>, <<"", "*", "com">>,
          <<"*", "a", "com">>, <<"a", "com">>, <<"*">>}
Blocklists ==
    {[DefaultBlocklist EXCEPT !.allowlist = a, !.groups = g] :
        a \in UpTo(2, Broad), g \in {<<>>, <<Group("kids", <<<<"a", "com">>>>)>>}} \cup
    {[DefaultBlocklist EXCEPT !.groups = <<Group(n, <<>>), Group(m, <<a>>)>>] :
        n, m \in {"", "kids", "all"}, a \in Broad} \cup
    {[DefaultBlocklist EXCEPT !.response = r, !.sinkhole = s, !.reload = t, !.regex = x, !.denylist = d] :
        r \in {"nxdomain", "sinkhole"}, s \in BOOLEAN, t \in {0, 299, 300},
        x \in {<<>>, <<TRUE>>, <<TRUE, FALSE>>},
        d \in {<<>>, <<[ip |-> V4(3), prefix |-> 2]>>, <<[ip |-> V4(3), prefix |-> 3]>>}} \cup
    {[DefaultBlocklist EXCEPT !.sources = <<s>>, !.timeout = t, !.max_bytes = b] :
        s \in {"https", "http"}, t \in {0, 1}, b \in {0, 1, 100 * 1024 * 1024 + 1}}

Privacies ==
    {[DefaultPrivacy EXCEPT !.to_disk = TRUE, !.path = p, !.files = f, !.bytes = b] :
        p \in {"unset", "blank", "set"}, f \in {0, 1}, b \in {4095, 4096}} \cup
    {[DefaultPrivacy EXCEPT !.ring = 100001]}

Window(start, end) == [days |-> <<>>, start |-> start, end |-> end, offset |-> 0]
Policies ==
    {[node |-> n, client |-> c, windows |-> w, group |-> g] :
        n \in {"none", "ed25519", "other"},
        c \in {<<>>, <<[ok |-> TRUE, ip |-> V4(3)]>>, <<[ok |-> TRUE, ip |-> Mapped(V4(3))]>>,
               <<[ok |-> FALSE, ip |-> V4(3)]>>},
        w \in {<<>>, <<Window([h |-> 1, m |-> 0], [h |-> 0, m |-> 1])>>,
               <<Window([h |-> 1, m |-> 0], Unset)>>},
        g \in Optional({"kids", "none"})}
FewPolicies ==
    {p \in Policies : /\ p.node = "none" /\ p.group # <<"none">>
                      /\ p.windows # <<>> => IsTime(p.windows[1].end)}

MCConfigs ==
    Moved \cup {WithServer(s) : s \in Servers} \cup
    {[DefaultConfig EXCEPT !.upstream = u] : u \in Upstreams} \cup
    {[DefaultConfig EXCEPT !.blocklist = b] : b \in Blocklists} \cup
    {[DefaultConfig EXCEPT !.privacy = p] : p \in Privacies} \cup
    {[DefaultConfig EXCEPT !.metrics.path = p] : p \in {"reserved", "meta", "dots"}} \cup
    {[DefaultConfig EXCEPT !.metrics.listen.port = m, !.server.doh = d] :
        m \in {0, 1023, 1024}, d \in Optional({Bind(V4(1), q) : q \in {0, 443, 1023, 1024}})} \cup
    {[DefaultConfig EXCEPT !.rate = [enabled |-> e, qps |-> q, burst |-> b, clients |-> c]] :
        e \in BOOLEAN, q \in {0, 2}, b \in {0, 1, 2}, c \in {0, 1, 1000001}} \cup
    {[DefaultConfig EXCEPT !.policy = p, !.blocklist.groups = <<Group("kids", <<>>)>>] :
        p \in UpTo(1, Policies) \cup {<<x, y>> : x, y \in FewPolicies}} \cup
    {[DefaultConfig EXCEPT !.rewrite = <<Rule(n, k, V4(3), t)>>] :
        n \in Broad \cup {<<>>}, k \in {"address", "cname", "block", "bad"}, t \in {<<>>, <<"A", "com">>}} \cup
    {[DefaultConfig EXCEPT !.authority = [DefaultAuthority EXCEPT !.zones = z, !.static = c.static, !.dotted = d]] :
        c \in {x \in MCAuthorityConfigs : Len(x.static) = 1},
        z \in {<<>>, <<<<"home">>>>, <<<<"a", "com">>>>, <<<<"a">>, <<"A">>>>}, d \in BOOLEAN}

\* Two groups, policies that use them, and a few changes elsewhere.
GroupLists ==
    {<<>>, <<Group("kids", <<>>)>>, <<Group("kids", <<<<"a", "com">>>>)>>,
     <<Group("kids", <<>>), Group("all", <<<<"b", "com">>>>)>>}
PolicyFor(ip, group, windows) ==
    [node |-> "none", client |-> <<[ok |-> TRUE, ip |-> ip]>>, windows |-> windows, group |-> group]
PolicyLists ==
    {<<>>, <<PolicyFor(V4(3), <<"kids">>, <<>>)>>, <<PolicyFor(Mapped(V4(3)), <<"all">>, <<>>)>>,
     <<PolicyFor(V4(3), <<"kids">>, <<>>),
       PolicyFor(Mapped(V4(3)), <<>>, <<Window([h |-> 1, m |-> 0], [h |-> 0, m |-> 1])>>)>>}
MCReloadConfigs ==
    {[DefaultConfig EXCEPT !.blocklist.groups = g, !.policy = p, !.blocklist.allowlist = a] :
        g \in GroupLists, p \in PolicyLists, a \in {<<>>, <<<<"*", "a", "com">>>>}} \cup
    {[DefaultConfig EXCEPT !.blocklist.denylist = d, !.authority.static = s] :
        d \in {<<>>, <<[ip |-> V4(3), prefix |-> 2]>>, <<[ip |-> V4(3), prefix |-> 3]>>},
        s \in UpTo(1, {r \in Records : r.type = "A"})} \cup
    {[DefaultConfig EXCEPT !.blocklist.trusted = t, !.blocklist.sources = s, !.authority.bundle = b,
                           !.authority.max_age = a, !.privacy.ring = n] :
        t, s \in {<<>>, <<"https">>}, b \in {"unset", "set"}, a \in {0, 600}, n \in {0, 1000}} \cup
    {[DefaultConfig EXCEPT !.blocklist.timeout = 1, !.blocklist.max_bytes = 1, !.blocklist.reload = 0,
                           !.blocklist.local_files = l, !.privacy.files = 1] : l \in {<<>>, <<"hosts">>}}

MCTopLabels == {"com", "mesh", "home", "a"}
=============================================================================
