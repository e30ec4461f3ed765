------------------------------- MODULE Tables -------------------------------
(***************************************************************************)
(* The parts of rustydns that only compute: each is asked one question at  *)
(* a time, over every input of a bounded set, and its answer compared with *)
(* what the part is for.  A state is a question; the answers are the       *)
(* operators of the modules extended here.                                 *)
(***************************************************************************)
EXTENDS ConfigRules, AnswerFilters

CONSTANTS
    ChainZones, ChainQueries,           \* zones full of aliases, and queries to them
    AuthorityConfigs, MeshBundles,      \* authority sections and mesh bundles
    WindowLists, Instants,              \* block windows of a client, and seconds
    Denylists,
    Clients,
    Answers, Questions,                 \* answers of an upstream, and what was asked
    SourceLists, Allowlists, Patterns, Spellings,
    RewriteLists, RewriteQueries, Engines,
    Configs, ReloadConfigs,             \* configurations alone, and in pairs over a reload
    TopLabels, FreshLabel               \* top-level labels, and a label nothing names

\* The inputs have the shapes serde, the wire format and the parsers give them.
\* The windows are valid, as validate_config has them.  An authority has a mesh
\* zone that is not the root, and its declared zones are single labels.
ASSUME InputsAssumption ==
    /\ ChainZones \cup AuthorityConfigs \subseteq AuthoritySection
    /\ \A c \in AuthorityConfigs :
          /\ c.mesh # <<>>
          /\ \A i \in DOMAIN c.zones : Len(c.zones[i]) = 1
    /\ MeshBundles \subseteq Seq(BundleRecord)
    /\ WindowLists \subseteq Seq({w \in WindowRecord : WindowValid(w)}) /\ Instants \subseteq Nat
    /\ Denylists \subseteq Seq(DenylistEntry)
    /\ \A c \in Clients : c.ip \in Addresses
    /\ Answers \subseteq Seq(AnswerRecord)
    /\ SourceLists \subseteq Seq(SourceRecord) /\ Allowlists \subseteq Seq(DnsName)
    /\ Spellings \subseteq DnsName
    /\ RewriteLists \subseteq Seq(RewriteRecord)
    /\ \A q \in RewriteQueries : q.name \in DnsName
    /\ Engines \in Seq(EngineRecord)
    /\ \A e \in ToSet(Engines) : e.name # <<>> /\ ~IsWildcard(e.name)
    /\ Configs \cup ReloadConfigs \subseteq ConfigRecord

\* The label that stands for any name nobody wrote is in none of the inputs.
ASSUME LabelsAssumption ==
    /\ TopLabels \subseteq STRING
    /\ \A c \in AuthorityConfigs : FreshFor(FreshLabel, SectionNames(c))
    /\ \A c \in Configs : FreshFor(FreshLabel, NamesOf(c))

VARIABLE asked

Nothing == [table |-> "none"]

TablesInit == asked = Nothing

Ask(question) == asked' = question

AskChain == \E z \in ChainZones, q \in ChainQueries :
    Ask([table |-> "chain", zone |-> z, name |-> q.name, type |-> q.type])

AskAuthority == \E c \in AuthorityConfigs, b \in MeshBundles :
    Ask([table |-> "authority", config |-> c, bundle |-> b])

AskSchedule == \E w \in WindowLists, t \in Instants :
    Ask([table |-> "schedule", windows |-> w, secs |-> t])

AskDenylist == \E d \in Denylists : Ask([table |-> "denylist", entries |-> d])

AskClients == \E a, b \in Clients : Ask([table |-> "client", a |-> a, b |-> b])

AskAnswer == \E a \in Answers, q \in Questions :
    Ask([table |-> "answer", answers |-> a, name |-> q.name, type |-> q.type])

AskBlocklist == \E s \in SourceLists, a \in Allowlists, r \in Patterns :
    Ask([table |-> "blocklist", sources |-> s, allowlist |-> a, regex |-> r])

AskRewrite == \E r \in RewriteLists : Ask([table |-> "rewrite", rules |-> r])

AskConfig == \E c \in Configs : Ask([table |-> "config", config |-> c])

AskReload == \E startup, new \in ReloadConfigs :
    Ask([table |-> "reload", startup |-> startup, new |-> new])

Answered == asked # Nothing /\ asked' = Nothing

TablesNext ==
    \/ /\ asked = Nothing
       /\ \/ AskChain \/ AskAuthority \/ AskSchedule \/ AskDenylist \/ AskClients
          \/ AskAnswer \/ AskBlocklist \/ AskRewrite \/ AskConfig \/ AskReload
    \/ Answered

TablesSpec == TablesInit /\ [][TablesNext]_asked

-----------------------------------------------------------------------------
(* Properties: each asks its part the question of the state.               *)

\* Authority::lookup answers a name with the chain of aliases from it, without
\* a name twice, within the zones and the limit, and with the records it ends in.
\* Whatever static records and mesh bundle are loaded, the authority claims a
\* whole top-level domain only if the operator declared it (static_zone_apex),
\* and the bundle neither hides a static record nor extends the authority beyond
\* the mesh zone (build_snapshot).
AuthorityAnswers ==
    /\ asked.table = "chain" =>
        AnswerIsTheChain(asked.zone, build_snapshot(asked.zone, <<>>), asked.name, asked.type)
    /\ asked.table = "authority" =>
        /\ ClaimsOnlyDeclared(asked.config, asked.bundle, TopLabels, FreshLabel)
        /\ StaticAlwaysServed(asked.config, asked.bundle,
                              {<<FreshLabel, l>> : l \in TopLabels} \cup Spellings)

\* BlockSchedule blocks a client at exactly the seconds its windows name, across
\* midnight, weeks, offsets and a clock that cannot be believed; and a window and
\* the same one turned round split each of their days, so that no second is lost
\* or blocked twice at a boundary (window_matches).
WindowsHold ==
    asked.table = "schedule" =>
        /\ BlockedAsWritten(asked.windows, asked.secs)
        /\ \A i \in DOMAIN asked.windows : WindowsTileTheDay(asked.windows[i], asked.secs)

\* An address means the same host in every spelling: IpDenylist blocks exactly the
\* hosts its entries name, from a single host to everything, and two clients look
\* alike in the logs exactly if they share a network (ClientId::anonymized),
\* whichever socket family reported them.
AddressesHold ==
    /\ asked.table = "denylist" => DenylistCovers(asked.entries)
    /\ asked.table = "client" => AnonymisedByNetwork(asked.a, asked.b)

\* Of an upstream's answer exactly the records survive that its aliases, in any
\* order, lead to from the question (filter_answer_sanity); with the rebinding
\* defence no address of a private host does, in any spelling, and nothing else is
\* lost (filter_private_rdata).
AnswersFiltered ==
    asked.table = "answer" =>
        /\ AnswerStaysOnTopic(asked.answers, asked.name, asked.type)
        /\ NoPrivateHost(asked.answers, asked.name, asked.type)

\* A query is blocked exactly if the loaded lines name it or something above it
\* and neither the operator nor a trusted source allows it (parse, is_blocked);
\* a line that names a whole top-level domain names nothing.
ListsBlock ==
    asked.table = "blocklist" =>
        \A typed \in Spellings :
            BlockedAsListed(asked.sources, asked.allowlist, asked.regex, typed)

\* A name that a rewrite is about is answered by the closest rule wherever it
\* stands in the configuration, and never asked upstream (RewriteMap); a search
\* engine is answered with its restricted form unless the operator has a rule for
\* that very name (combined_rewrite_rules).
RewritesAnswer ==
    asked.table = "rewrite" =>
        /\ \A q \in RewriteQueries : ClosestRewriteAnswers(asked.rules, q.name, q.type)
        /\ SafeSearchHolds(Engines, asked.rules)

\* No address and port of an accepted configuration is received by two roles,
\* wherever the daemon binds them in the end (validate_config, effective_listen).
ListenersSeparate == asked.table = "config" => RolesApart(asked.config)

\* What an accepted configuration says is what happens.  The daemon starts with
\* it, but for the metrics path and for upstream URLs without a usable host
\* (main).  The defaults it falls back to when a schedule, a denylist or a group
\* cannot be used, which all restrict less, are never needed (build_policy_map,
\* BlocklistEngine::new).  No allowlist or rewrite reaches a whole top-level
\* domain, in any of the ways a wildcard can be written.
AcceptedInForce ==
    asked.table = "config" =>
        /\ AcceptedStarts(asked.config)
        /\ NothingFallsBack(asked.config, {c.ip : c \in Clients})
        /\ NoWholeDomain(asked.config, TopLabels, FreshLabel)

\* A SIGHUP that warns of nothing leaves every client with the schedule, the
\* lists and the local names of the new configuration, although policies come
\* from it and groups from the startup one (restart_required_changes).
ReloadsReported ==
    asked.table = "reload" =>
        ReloadLikeRestart(asked.startup, asked.new, {c.ip : c \in Clients}, Spellings)
=============================================================================
