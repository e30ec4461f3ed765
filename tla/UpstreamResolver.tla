-------------------------- MODULE UpstreamResolver --------------------------
(***************************************************************************)
(* Resolver (crates/rustydns-resolver/src/lib.rs) and its oblivious arm    *)
(* (odoh.rs): building one arm for the default upstreams and one for every *)
(* conditional-forwarding route, choosing the arm of a name, and the ODoH  *)
(* exchange with its cached target key, while other queries refresh the    *)
(* same key and the targets rotate theirs.                                 *)
(*                                                                         *)
(* A name is the sequence of its labels and a zone a suffix of it.  A      *)
(* target's key is a number that grows with every rotation.  What HPKE,    *)
(* HTTPS and hickory do is left open, except that a target only opens what *)
(* was sealed for the key it has now.                                      *)
(***************************************************************************)
EXTENDS Naturals, FiniteSets, Sequences, SequencesExt

CONSTANTS
    Queries,    \* slots for resolutions in flight
    Names,      \* what is asked for
    Configs,    \* [default, routes, relays, randomize, dnssec]
    UrlKind,    \* upstream url -> "literal", "host" or "malformed"
    Attempts,   \* ATTEMPTS of bootstrap_resolve_with_retry
    MaxKeys,    \* bound: keys a target ever publishes
    MaxChain    \* bound: DNSKEY/DS lookups of one validation

Urls == DOMAIN UrlKind
None == 0
Keys == 1..MaxKeys

\* What validate_config lets through: a route's zone is not the root and named
\* once; a relay is an https url, so never "none", which stands for no relay.
Zones == Seq(STRING)
RouteSpec == [zone : Zones \ {<<>>}, urls : Seq(Urls), protocol : STRING]
ConfigSpec == [default : [urls : Seq(Urls), protocol : STRING], routes : Seq(RouteSpec),
               relays : Seq(STRING \ {"none"}), randomize : BOOLEAN, dnssec : BOOLEAN]

ASSUME UpstreamAssumption ==
    /\ UrlKind \in [Urls -> {"literal", "host", "malformed"}]
    /\ Attempts \in Nat \ {0} /\ MaxKeys \in Nat \ {0} /\ MaxChain \in Nat
    /\ Configs \subseteq ConfigSpec
    /\ \A c \in Configs : \A i, j \in 1..Len(c.routes) :
          c.routes[i].zone = c.routes[j].zone => i = j

VARIABLES
    config,
    stage,      \* "building", "ready", or "failed": Resolver::new returned Err
    at,         \* the arm being built: 1 is the default, 1 + i is route i
    url,        \* the url of it being bootstrapped
    attempt,    \* of bootstrap_resolve_with_retry
    servers,    \* name_servers of the arm so far: the urls that were resolved
    arms,       \* the arms built: a sequence of [zone, urls]
    published,  \* the key each target has now
    cached,     \* OdohTarget.config
    query,      \* what each resolution knows; via is the arm it was sent by
    spoiled     \* history: something else may have cost a resolution its key

buildVars == <<config, stage, at, url, attempt, servers, arms>>
vars == <<buildVars, published, cached, query, spoiled>>

Elements(s) == {s[i] : i \in DOMAIN s}
Targets == Elements(config.default.urls)
IsOdoh == config.default.protocol = "odoh"

Idle == [pc |-> "idle", name |-> <<>>, via |-> <<>>, target |-> "none", relay |-> "none",
         retried |-> FALSE, key |-> None, reply |-> "none", chain |-> 0, posts |-> 0, fetches |-> 0]

-----------------------------------------------------------------------------
(* Resolver::new. *)

\* default, then the routes in the order they are written.
ArmSpecs(c) == <<[zone |-> <<>>, urls |-> c.default.urls, protocol |-> c.default.protocol]>>
                 \o c.routes

\* OdohTarget::parse: an https url with a host.
TargetParses(u) == UrlKind[u] # "malformed"

\* OdohArm::new refuses a list without relays, and one bad target is enough.
OdohRefused(c) ==
    c.relays = <<>> \/ \E u \in Elements(c.default.urls) : ~TargetParses(u)

Refused(c) ==
    \/ c.default.urls = <<>>
    \/ c.default.protocol = "odoh" /\ OdohRefused(c)

\* The oblivious arm needs no bootstrap, so building starts at the routes.
Init ==
    /\ config \in Configs
    /\ stage = IF Refused(config) THEN "failed" ELSE "building"
    /\ arms = IF IsOdoh /\ ~Refused(config)
                THEN <<[zone |-> <<>>, servers |-> Elements(config.default.urls)]>> ELSE <<>>
    /\ at = Len(arms) + 1
    /\ url = 1 /\ attempt = 1 /\ servers = {}
    /\ published = [u \in Urls |-> 1]
    /\ cached = [u \in Urls |-> None]
    /\ query = [q \in Queries |-> Idle]
    /\ spoiled = [q \in Queries |-> FALSE]

\* The url build_resolver_arm is at.
Spec_(i) == ArmSpecs(config)[i]
Current == Spec_(at).urls[url]
Building == stage = "building" /\ at <= Len(ArmSpecs(config))
InArm == Building /\ url <= Len(Spec_(at).urls)

\* build_name_servers: an ODoH route and an address that does not parse are
\* errors at once, a literal address needs no lookup.
Hopeless == Spec_(at).protocol = "odoh" \/ UrlKind[Current] = "malformed"

\* A url that cannot be bootstrapped is skipped with a warning.
SkipUrl ==
    /\ InArm
    /\ Hopeless \/ (UrlKind[Current] = "host" /\ attempt > Attempts)
    /\ url' = url + 1 /\ attempt' = 1
    /\ UNCHANGED <<config, stage, at, servers, arms, published, cached, query, spoiled>>

\* Mutant: the retries are not counted.
LookupFails_uncounted ==
    /\ InArm /\ ~Hopeless
    /\ UrlKind[Current] = "host" /\ attempt <= Attempts
    /\ attempt' = 1 + (attempt % Attempts)
    /\ UNCHANGED <<config, stage, at, url, servers, arms, published, cached, query, spoiled>>

\* lookup_host fails or returns no address; the next attempt is after a delay.
LookupFails ==
    /\ InArm /\ ~Hopeless
    /\ UrlKind[Current] = "host" /\ attempt <= Attempts
    /\ attempt' = attempt + 1
    /\ UNCHANGED <<config, stage, at, url, servers, arms, published, cached, query, spoiled>>

Bootstrapped ==
    /\ InArm /\ ~Hopeless
    /\ UrlKind[Current] = "literal" \/ attempt <= Attempts
    /\ servers' = servers \cup {Current}
    /\ url' = url + 1 /\ attempt' = 1
    /\ UNCHANGED <<config, stage, at, arms, published, cached, query, spoiled>>

\* Mutant: an arm without a server is left out instead of ending the build.
FinishArm_skip ==
    /\ Building /\ ~InArm
    /\ arms' = IF servers = {} THEN arms
               ELSE Append(arms, [zone |-> Spec_(at).zone, servers |-> servers])
    /\ at' = at + 1
    /\ url' = 1 /\ servers' = {}
    /\ UNCHANGED <<config, stage, attempt, published, cached, query, spoiled>>

\* The end of build_resolver_arm: `?` ends the build on the first arm that has
\* no server at all.
FinishArm ==
    /\ Building /\ ~InArm
    /\ IF servers = {}
         THEN stage' = "failed" /\ UNCHANGED <<at, arms>>
         ELSE /\ arms' = Append(arms, [zone |-> Spec_(at).zone, servers |-> servers])
              /\ at' = at + 1
              /\ UNCHANGED stage
    /\ url' = 1 /\ servers' = {}
    /\ UNCHANGED <<config, attempt, published, cached, query, spoiled>>

LongerZone(a, b) == Len(a.zone) > Len(b.zone)

\* routes.sort_by_key, a stable sort: the order of the arms that leaves the
\* default at its place and has the routes with the longest zone first.
SortRoutes(as) ==
    {p \in Bijection(DOMAIN as, DOMAIN as) :
        /\ p[1] = 1
        /\ \A i, j \in 2..Len(as) : i < j =>
              \/ LongerZone(as[p[i]], as[p[j]])
              \/ Len(as[p[i]].zone) = Len(as[p[j]].zone) /\ p[i] < p[j]}

FinishBuild ==
    /\ stage = "building" /\ at > Len(ArmSpecs(config))
    /\ \E p \in SortRoutes(arms) : arms' = [i \in DOMAIN arms |-> arms[p[i]]]
    /\ stage' = "ready"
    /\ UNCHANGED <<config, at, url, attempt, servers, published, cached, query, spoiled>>

-----------------------------------------------------------------------------
(* Resolver::resolve. *)

\* match_route: the first arm in the order of the table whose zone the name is
\* in, and the default arm if there is none.
Matching(n) == {i \in 2..Len(arms) : IsSuffix(arms[i].zone, n)}
MatchRoute(n) == arms[IF Matching(n) = {} THEN 1 ELSE Min(Matching(n))]

\* select_target and select_proxy: any of them, or always the first.
Selected(s) == IF config.randomize THEN Elements(s) ELSE {Head(s)}

\* Begins an exchange: the target and the relay are chosen for both attempts.
BeginExchange(q, known) ==
    \E t \in Selected(config.default.urls), r \in Selected(config.relays) :
       query' = [query EXCEPT ![q] =
                   [known EXCEPT !.pc = "config", !.target = t, !.relay = r,
                                 !.reply = "none", !.retried = FALSE, !.posts = 0, !.fetches = 0]]

Resolve(q, n) ==
    /\ stage = "ready" /\ query[q].pc = "idle"
    /\ spoiled' = [spoiled EXCEPT ![q] = FALSE]
    /\ LET known == [Idle EXCEPT !.name = n, !.via = MatchRoute(n).zone] IN
       IF known.via = <<>> /\ IsOdoh
         THEN BeginExchange(q, known)
         ELSE query' = [query EXCEPT ![q] = [known EXCEPT !.pc = "hickory"]]
    /\ UNCHANGED <<buildVars, published, cached>>

\* resolve returns, and all but the outcome is dropped.
Finished(q, how, reply) ==
    query' = [query EXCEPT ![q] = [Idle EXCEPT !.pc = how, !.reply = reply]]

\* The caller takes the outcome and the slot is free again.
Collect(q) ==
    /\ query[q].pc \in {"done", "failed"}
    /\ query' = [query EXCEPT ![q] = Idle]
    /\ UNCHANGED <<buildVars, published, cached, spoiled>>

\* resolve_via_hickory and map_resolve_error; an empty answer is an outcome too.
HickoryEnds(q) ==
    /\ query[q].pc = "hickory"
    /\ \E how \in {"done", "failed"} : Finished(q, how, "none")
    /\ UNCHANGED <<buildVars, published, cached, spoiled>>

-----------------------------------------------------------------------------
(* OdohTransport::exchange. *)

\* config_for with a cached key.
LoadConfig(q) ==
    /\ query[q].pc = "config" /\ cached[query[q].target] # None
    /\ query' = [query EXCEPT ![q].pc = "post", ![q].key = cached[query[q].target]]
    /\ UNCHANGED <<buildVars, published, cached, spoiled>>

\* config_for without one: the target answers a fetch with the key of that
\* moment, or the fetch fails, is too large, or holds no usable config.
FetchConfigs(q) ==
    /\ query[q].pc = "config" /\ cached[query[q].target] = None
    /\ \/ query' = [query EXCEPT ![q].pc = "store", ![q].fetches = @ + 1,
                                 ![q].key = published[query[q].target]]
       \/ Finished(q, "failed", "no config")
    /\ UNCHANGED <<buildVars, published, cached, spoiled>>

\* The fetched key is stored whatever has been stored since, and used.
StoreConfig(q) ==
    LET t == query[q].target IN
    /\ query[q].pc = "store"
    /\ cached' = [cached EXCEPT ![t] = query[q].key]
    /\ query' = [query EXCEPT ![q].pc = "post"]
    /\ spoiled' = [p \in Queries |-> \/ spoiled[p]
                                      \/ (p # q /\ query[q].key # published[t])]
    /\ UNCHANGED <<buildVars, published>>

\* What comes back from the relay: the target's message, a rejection with 400,
\* something that does not decrypt, or no usable response at all (another
\* status, the network, an oversized or malformed body).
Stale == {"bad request", "undecryptable"}
Messages == {"answer", "nxdomain", "failure"}
OdohError == Stale \cup {"unusable", "no config", "failure"}

PostOblivious(q) ==
    LET opens == query[q].key = published[query[q].target] IN
    /\ query[q].pc = "post"
    /\ \E r \in Stale \cup {"unusable"} \cup (IF opens THEN Messages ELSE {}) :
          /\ query' = [query EXCEPT ![q].pc = "reply", ![q].reply = r, ![q].key = None,
                                    ![q].posts = @ + 1]
          /\ spoiled' = [spoiled EXCEPT ![q] = @ \/ (opens /\ r \in Stale)]
    /\ UNCHANGED <<buildVars, published, cached>>

\* Mutant: the stale key is used again.
StaleKey_kept(q) ==
    /\ query[q].pc = "reply" /\ query[q].reply \in Stale /\ ~query[q].retried
    /\ query' = [query EXCEPT ![q].pc = "config", ![q].retried = TRUE, ![q].reply = "none"]
    /\ UNCHANGED <<buildVars, published, cached, spoiled>>

\* The first attempt met a stale key: the cache is emptied and the loop goes on.
StaleKey(q) ==
    /\ query[q].pc = "reply" /\ query[q].reply \in Stale /\ ~query[q].retried
    /\ query' = [query EXCEPT ![q].pc = "config", ![q].retried = TRUE, ![q].reply = "none"]
    /\ cached' = [cached EXCEPT ![query[q].target] = None]
    /\ UNCHANGED <<buildVars, published, spoiled>>

\* Every other failure, and the second of a stale key, ends the exchange.
ExchangeFails(q) ==
    /\ query[q].pc = "reply"
    /\ query[q].reply = "unusable" \/ (query[q].reply \in Stale /\ query[q].retried)
    /\ Finished(q, "failed", query[q].reply)
    /\ UNCHANGED <<buildVars, published, cached, spoiled>>

\* DnssecDnsHandle looks up the chain through OdohHandle::send, each lookup
\* being an exchange of its own.
ValidatorAsks(q) ==
    /\ query[q].pc = "reply" /\ query[q].reply \in Messages
    /\ config.dnssec /\ query[q].chain < MaxChain
    /\ BeginExchange(q, [query[q] EXCEPT !.chain = @ + 1])
    /\ UNCHANGED <<buildVars, published, cached, spoiled>>

\* resolve_plain, resolve_validated and outcome_from_parts: a validator may
\* find the answer bogus, and a failure code is an error.
ExchangeEnds(q) ==
    /\ query[q].pc = "reply" /\ query[q].reply \in Messages
    /\ \E ok \in IF query[q].reply = "failure" THEN {FALSE}
                 ELSE IF config.dnssec THEN BOOLEAN ELSE {TRUE} :
          Finished(q, IF ok THEN "done" ELSE "failed", query[q].reply)
    /\ UNCHANGED <<buildVars, published, cached, spoiled>>

-----------------------------------------------------------------------------
(* The targets, and the whole. *)

\* A target replaces its key; whoever resolves through it may notice.
Rotate(t) ==
    /\ published[t] < MaxKeys
    /\ published' = [published EXCEPT ![t] = @ + 1]
    /\ spoiled' = [q \in Queries |-> spoiled[q] \/ query[q].target = t]
    /\ UNCHANGED <<buildVars, cached, query>>

BuildStep == SkipUrl \/ LookupFails \/ Bootstrapped \/ FinishArm \/ FinishBuild
QueryStep(q) ==
    \/ HickoryEnds(q) \/ LoadConfig(q) \/ FetchConfigs(q) \/ StoreConfig(q)
    \/ PostOblivious(q) \/ StaleKey(q) \/ ExchangeFails(q) \/ ValidatorAsks(q)
    \/ ExchangeEnds(q)

Next ==
    \/ BuildStep
    \/ \E q \in Queries : QueryStep(q) \/ Collect(q) \/ \E n \in Names : Resolve(q, n)
    \/ stage = "ready" /\ IsOdoh /\ \E t \in Targets : Rotate(t)
    \/ stage = "failed" /\ UNCHANGED vars   \* the daemon does not start or keeps the old one

Spec == Init /\ [][Next]_vars

\* Lookups, fetches and posts have timeouts, and the executor runs what is ready.
FairSpec == Spec /\ WF_vars(BuildStep) /\ \A q \in Queries : WF_vars(QueryStep(q))

-----------------------------------------------------------------------------
(* Properties. *)

QueryState ==
    [pc : {"idle", "hickory", "config", "store", "post", "reply", "done", "failed"},
     name : Names \cup {<<>>}, via : Zones, target : Urls \cup {"none"}, relay : STRING \cup {"none"},
     retried : BOOLEAN, key : Keys \cup {None}, reply : Messages \cup OdohError \cup {"none"},
     chain : 0..MaxChain, posts : Nat, fetches : Nat]

\* The variables keep their types.
TypeOK ==
    /\ config \in Configs /\ stage \in {"building", "ready", "failed"}
    /\ at \in 1..Len(ArmSpecs(config)) + 1
    /\ url \in Nat \ {0} /\ attempt \in 1..Attempts + 1 /\ servers \subseteq Urls
    /\ arms \in Seq([zone : Zones, servers : SUBSET Urls])
    /\ published \in [Urls -> Keys] /\ cached \in [Urls -> Keys \cup {None}]
    /\ query \in [Queries -> QueryState]
    /\ spoiled \in [Queries -> BOOLEAN]

\* A name only ever leaves through the arm of the most specific route it is in
\* (through the default arm only when it is in no route), and through a relay
\* if that is the oblivious arm.  A route that could not be built, or a table
\* in the wrong order, would leak internal names to the public upstreams.
LeavesByItsRoute ==
    \A q \in Queries :
       LET zones == {r.zone : r \in {x \in Elements(config.routes) :
                                        IsSuffix(x.zone, query[q].name)}}
       IN  query[q].pc \notin {"idle", "done", "failed"} =>
             /\ IF zones = {} THEN query[q].via = <<>>
                ELSE /\ query[q].via \in zones
                     /\ \A z \in zones : Len(z) <= Len(query[q].via)
             /\ query[q].relay # "none" <=> IsOdoh /\ zones = {}

\* A rotation costs a resolution one retry (exchange).  One that gave up because
\* its key was refused twice was spoiled by something it cannot help: a rotation
\* while it ran, a rejection of the right key, or another resolution that stored
\* a key fetched before the rotation.  And it posts at most twice, and fetches at
\* most once unless a stale key told it to: a relay that throttles does not turn
\* queries into fetches.
RotationCostsARetry ==
    \A q \in Queries :
       /\ query[q].pc = "failed" /\ query[q].reply \in Stale => spoiled[q]
       /\ query[q].posts <= 2
       /\ query[q].fetches <= IF query[q].retried THEN 2 ELSE 1

\* Building ends, and every resolution that began comes to an outcome although
\* keys may be refused and others refresh them.
EveryResolutionEnds ==
    /\ <>(stage # "building")
    /\ \A q \in Queries :
          query[q].pc \notin {"idle", "done", "failed"} ~> query[q].pc \in {"done", "failed"}
=============================================================================
