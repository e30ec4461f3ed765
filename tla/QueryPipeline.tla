---------------------------- MODULE QueryPipeline ----------------------------
(***************************************************************************)
(* DnsHandler::handle_request (crates/rustydnsd/src/handler.rs): one query *)
(* from its receipt through the gates, the authority, the rewrites, the    *)
(* blocklist and the upstream resolver to the logged reply, while a SIGHUP *)
(* swaps resolver, policies and rewrites one after the other and reloads   *)
(* swap the blocklists.  Each shared table is loaded at the gate that uses *)
(* it, so one query may meet several configurations.                       *)
(*                                                                         *)
(* A query is a request with at most a few defects, an answer is a set of  *)
(* records; which names a suffix or wildcard matches is already decided.   *)
(* Whether the rate limiter refuses (see RateLimiter) and whether it is    *)
(* now inside a client's block windows is left open here.                  *)
(***************************************************************************)
EXTENDS Naturals, FiniteSets, Sequences

CONSTANTS
    Queries,        \* slots for queries in flight
    Requests,       \* what clients send: [from, name, defects, udp]
    Names,
    Addrs,
    Configs,        \* the contents rustydns.toml ever has
    Policies,       \* [[policy]] of each config: client address -> policy
    Rewrites,       \* [[rewrite]] of each config: Names -> RewriteKinds
    Routed,         \* names with an [[upstream.route]] of their own
    BlockPrivate,   \* upstream.block_private_rdata of each config
    Groups,         \* [[blocklist.groups]], fixed at startup
    GroupNames,     \* what a policy may name, groups of a later config too
    Default,        \* the global blocklist
    ListStates,     \* the sets of names a list ever blocks
    OwnNames,       \* names inside the mesh zone and the static zones
    OwnRecords,     \* OwnNames -> what the authority answers
    Pin,            \* Names -> the record a rewrite answers with
    Answers,        \* the answer sections an upstream ever sends
    PrivateAddrs, DeniedAddrs,
    BlockCname,     \* blocklist.block_cname_cloaking
    BlockResponse,  \* blocklist.block_response
    Sinkhole,       \* Names -> the sinkhole record
    Unset,          \* no resolver loaded
    NoRequest,      \* the slot is free
    UdpRoom         \* how many records a datagram holds

Lists == Groups \cup {Default}
RewriteKinds == {"none", "answer", "nodata", "nxdomain"}
Records == [owner : Names, kind : {"cname"}, data : Names]
             \cup [owner : Names, kind : {"addr", "other"}, data : Addrs]

\* The gates in front of the pipeline, and a type parse_record_type refuses.
Defects == {"malformed", "opcode", "response", "edns", "any", "class", "unknown type"}

\* A client's address as the socket shows it: IPv4, or mapped into IPv6.
Forms == {"v4", "mapped"}

PolicyRecords == [bypass : BOOLEAN, zones : SUBSET Names, windows : BOOLEAN,
                  group : GroupNames \cup {Default}]

ASSUME PipelineAssumption ==
    /\ Default \notin GroupNames /\ Groups \subseteq GroupNames
    /\ \A r \in Requests : /\ r.from[2] \in Forms
                           /\ r.name \in Names
                           /\ r.defects \subseteq Defects
                           /\ r.udp \in BOOLEAN
    /\ \A c \in Configs :
          /\ \A a \in DOMAIN Policies[c] : a[2] \in Forms /\ Policies[c][a] \in PolicyRecords
          /\ \A a, b \in DOMAIN Policies[c] : a[1] = b[1] => a = b
    /\ Rewrites \in [Configs -> [Names -> RewriteKinds]]
    /\ Routed \in [Configs -> SUBSET Names]
    /\ BlockPrivate \in [Configs -> BOOLEAN]
    /\ ListStates \subseteq SUBSET Names /\ Unset \notin Configs
    /\ OwnNames \subseteq Names
    /\ OwnRecords \in [OwnNames -> SUBSET Records]
    /\ Pin \in [Names -> Records]
    /\ Sinkhole \in [Names -> Records]
    /\ Answers \subseteq SUBSET Records
    /\ BlockCname \in BOOLEAN
    /\ BlockResponse \in {"nxdomain", "refused", "sinkhole"}
    /\ UdpRoom \in Nat

VARIABLES
    policyCfg, rewriteCfg, resolverCfg, \* the config each ArcSwap was built from
    lists,          \* the blocked names of every list
    hup, hupCfg,    \* where handle_sighup is, and the config it loaded
    pc, req,        \* each query: where it is, the request
    policy,         \* ctx.policy
    resolver,       \* the config of the resolver it loaded
    records,        \* out.records
    unjudged,       \* CNAMEs of them not yet looked up in the blocklist
    reply,          \* the Reply
    logged,         \* entries this query left in the query log
    asked,          \* history: the name was sent upstream
    seen            \* history: all that was in force since the query arrived

swapVars == <<policyCfg, rewriteCfg, resolverCfg, lists, hup, hupCfg>>
queryVars == <<pc, req, policy, resolver, records, unjudged, reply, logged, asked>>
vars == <<swapVars, queryVars, seen>>

-----------------------------------------------------------------------------
(* Policy. *)

\* PolicyDecision::default.
Unrestricted == [bypass |-> FALSE, zones |-> {}, windows |-> FALSE, group |-> Default]

\* Mutant: mapped addresses are taken as they come.
CanonicalClientIp_identity(a) == a

CanonicalClientIp(a) == <<a[1], "v4">>

\* build_policy_map and the lookup of resolve_policy, both by canonical address.
ResolvePolicy(c, a) ==
    IF \E x \in DOMAIN Policies[c] : CanonicalClientIp(x) = CanonicalClientIp(a)
      THEN Policies[c][CHOOSE x \in DOMAIN Policies[c] :
                          CanonicalClientIp(x) = CanonicalClientIp(a)]
      ELSE Unrestricted

\* is_blocked_for_group: a group the engine does not know is the global list.
ListFor(p) == IF p.group \in Groups THEN p.group ELSE Default

-----------------------------------------------------------------------------
(* Replies. *)

\* ResponseCode::low, what the log keeps of a code: BADVERS is 16.
Low(code) == IF code = "BADVERS" THEN "NOERROR" ELSE code

NoReply == [code |-> "none", by |-> "nobody", answers |-> {}, tc |-> FALSE]
Reply(code, by, answers) == [code |-> code, by |-> by, answers |-> answers, tc |-> FALSE]
Reject(code) == Reply(code, "rejected", {})

\* build_block_response; a sinkhole address of the wrong family gives NXDOMAIN.
BlockReplies(n) ==
    CASE BlockResponse = "nxdomain" -> {Reply("NXDOMAIN", "blocklist", {})}
      [] BlockResponse = "refused"  -> {Reply("REFUSED", "blocklist", {})}
      [] BlockResponse = "sinkhole" -> {Reply("NOERROR", "blocklist", {Sinkhole[n]}),
                                        Reply("NXDOMAIN", "blocklist", {})}

\* respond: over UDP the records that do not fit are shed and TC is set.
Sent(r, udp) ==
    IF udp /\ Cardinality(r.answers) > UdpRoom
      THEN {[r EXCEPT !.answers = kept, !.tc = TRUE] :
               kept \in {s \in SUBSET r.answers : Cardinality(s) = UdpRoom}}
      ELSE {r}

\* The gates that only need the request and the policy, in their order.
Screened(r, p, limited, inWindow) ==
    IF "malformed" \in r.defects    THEN Reject("FORMERR")
    ELSE IF limited                 THEN Reject("REFUSED")
    ELSE IF "opcode" \in r.defects  THEN Reject("NOTIMP")
    ELSE IF "response" \in r.defects THEN Reject("REFUSED")
    ELSE IF "edns" \in r.defects    THEN Reject("BADVERS")
    ELSE IF "any" \in r.defects     THEN Reject("REFUSED")
    ELSE IF "class" \in r.defects   THEN Reject("NOTIMP")
    ELSE IF p.windows /\ inWindow   THEN Reject("REFUSED")
    ELSE IF p.zones # {} /\ r.name \notin p.zones THEN Reject("REFUSED")
    ELSE NoReply

-----------------------------------------------------------------------------
(* What the resolver keeps of an answer. *)

\* The names a chain of CNAMEs in the answer leads to from n: the least set
\* with n that is closed under them.
Closed(a, s) == \A r \in a : r.kind = "cname" /\ r.owner \in s => r.data \in s
Reached(a, n) == {m \in Names : \A s \in SUBSET Names : n \in s /\ Closed(a, s) => m \in s}

\* Mutant: the bailiwick of an answer is not checked.
FilterAnswerSanity_anyOwner(a, n) == {r \in a : r.kind # "other"}

\* filter_out_of_bailiwick, then filter_wrong_type; a set has no duplicates.
FilterAnswerSanity(a, n) == {r \in a : r.owner \in Reached(a, n) /\ r.kind # "other"}

\* Mutant: answers of a route are filtered and those of the default arm not.
FilterPrivateRdata_routes(a, n, c) ==
    IF BlockPrivate[c] /\ n \in Routed[c]
      THEN {r \in a : ~(r.kind = "addr" /\ r.data \in PrivateAddrs)} ELSE a

\* Only answers of the default arm are filtered.
FilterPrivateRdata(a, n, c) ==
    IF BlockPrivate[c] /\ n \notin Routed[c]
      THEN {r \in a : ~(r.kind = "addr" /\ r.data \in PrivateAddrs)} ELSE a

Outcome(a, n, c) == FilterPrivateRdata(FilterAnswerSanity(a, n), n, c)

ResponseIpBlocked(a) == \E r \in a : r.kind = "addr" /\ r.data \in DeniedAddrs

-----------------------------------------------------------------------------
(* The query log and the replies aside, a query only reads shared state: what
   was in force while it did is kept as history. *)

InFlight(q) == pc[q] \notin {"idle", "done", "gone"}

\* The [[policy]] entry written for a client, whatever form its address has.
EntryFor(c, client) ==
    IF \E a \in DOMAIN Policies[c] : a[1] = client
      THEN Policies[c][CHOOSE a \in DOMAIN Policies[c] : a[1] = client]
      ELSE Unrestricted

\* History at the arrival of a request, and after a change of shared state
\* under a query that is not decided yet.
SeenFirst(r, inWindow) ==
    LET p == EntryFor(policyCfg, r.from[1]) IN
    [policy |-> p, window |-> inWindow, lists |-> {lists[ListFor(p)]},
     rewrites |-> {rewriteCfg}, resolvers |-> {resolverCfg}]
NothingSeen == [policy |-> Unrestricted, window |-> FALSE, lists |-> {}, rewrites |-> {},
                resolvers |-> {}]
SeenAfter ==
    [q \in Queries |->
        IF pc[q] \notin {"idle", "finish", "done", "gone"}
          THEN [seen[q] EXCEPT !.lists = @ \cup {lists'[ListFor(seen[q].policy)]},
                               !.rewrites = @ \cup {rewriteCfg'},
                               !.resolvers = @ \cup {resolverCfg'}]
          ELSE seen[q]]

-----------------------------------------------------------------------------
Init ==
    /\ policyCfg \in Configs /\ rewriteCfg = policyCfg /\ resolverCfg = policyCfg
    /\ lists \in [Lists -> ListStates]
    /\ hup = "idle" /\ hupCfg = policyCfg
    /\ pc = [q \in Queries |-> "idle"]
    /\ req = [q \in Queries |-> NoRequest]
    /\ policy = [q \in Queries |-> Unrestricted]
    /\ resolver = [q \in Queries |-> Unset]
    /\ records = [q \in Queries |-> {}]
    /\ unjudged = [q \in Queries |-> {}]
    /\ reply = [q \in Queries |-> NoReply]
    /\ logged = [q \in Queries |-> <<>>]
    /\ asked = [q \in Queries |-> FALSE]
    /\ seen = [q \in Queries |-> NothingSeen]

-----------------------------------------------------------------------------
(* One query. *)

Goto(q, l) == pc' = [pc EXCEPT ![q] = l]
Decide(q, r) == reply' = [reply EXCEPT ![q] = r] /\ Goto(q, "finish")

\* The policy is loaded once, then the gates that need nothing else.
Receive(q, r, limited, inWindow) ==
    /\ pc[q] = "idle"
    /\ LET p == ResolvePolicy(policyCfg, r.from)
           s == Screened(r, p, limited, inWindow)
       IN  /\ policy' = [policy EXCEPT ![q] = p]
           /\ reply' = [reply EXCEPT ![q] = s]
           /\ Goto(q, IF s = NoReply THEN "authority" ELSE "finish")
    /\ req' = [req EXCEPT ![q] = r]
    /\ seen' = [seen EXCEPT ![q] = SeenFirst(r, inWindow)]
    /\ UNCHANGED <<swapVars, resolver, records, unjudged, logged, asked>>

GateAuthority(q) ==
    /\ pc[q] = "authority"
    /\ LET n == req[q].name IN
       \/ n \in OwnNames /\ Decide(q, Reply("NOERROR", "authority", OwnRecords[n]))
       \/ n \notin OwnNames /\ Goto(q, "rewrite") /\ UNCHANGED reply
    /\ UNCHANGED <<swapVars, req, policy, resolver, records, unjudged, logged, asked, seen>>

GateRewrite(q) ==
    /\ pc[q] = "rewrite"
    /\ LET n == req[q].name
           k == Rewrites[rewriteCfg][n]
       IN  \/ k = "answer" /\ Decide(q, Reply("NOERROR", "rewrite", {Pin[n]}))
           \/ k = "nodata" /\ Decide(q, Reply("NOERROR", "rewrite", {}))
           \/ k = "nxdomain" /\ Decide(q, Reply("NXDOMAIN", "rewrite", {}))
           \/ k = "none" /\ Goto(q, "blocklist") /\ UNCHANGED reply
    /\ UNCHANGED <<swapVars, req, policy, resolver, records, unjudged, logged, asked, seen>>

\* is_blocked_for_group, against the state of this moment.
IsBlocked(q, n) == n \in lists[ListFor(policy[q])]

GateBlocklist(q) ==
    /\ pc[q] = "blocklist"
    /\ LET n == req[q].name IN
       \/ /\ ~policy[q].bypass /\ IsBlocked(q, n)
          /\ \E r \in BlockReplies(n) : Decide(q, r)
       \/ /\ policy[q].bypass \/ ~IsBlocked(q, n)
          /\ Goto(q, "resolve") /\ UNCHANGED reply
    /\ UNCHANGED <<swapVars, req, policy, resolver, records, unjudged, logged, asked, seen>>

ServFail == Reply("SERVFAIL", "server failure", {})

\* stage_resolve up to its await: the resolver is loaded and keeps being used.
Forward(q) ==
    /\ pc[q] = "resolve"
    /\ \/ /\ "unknown type" \in req[q].defects
          /\ Decide(q, ServFail)
          /\ UNCHANGED <<resolver, asked>>
       \/ /\ "unknown type" \notin req[q].defects
          /\ resolver' = [resolver EXCEPT ![q] = resolverCfg]
          /\ asked' = [asked EXCEPT ![q] = TRUE]
          /\ Goto(q, "await") /\ UNCHANGED reply
    /\ UNCHANGED <<swapVars, req, policy, records, unjudged, logged, seen>>

\* The await ends, by an answer, by "no such name" or by an error or timeout.
UpstreamEnds(q) ==
    /\ pc[q] = "await"
    /\ \/ \E a \in Answers :
             LET out == Outcome(a, req[q].name, resolver[q]) IN
             /\ records' = [records EXCEPT ![q] = out]
             /\ unjudged' = [unjudged EXCEPT ![q] =
                   {r \in out : r.kind = "cname" /\ BlockCname /\ ~policy[q].bypass}]
             /\ Goto(q, "judge")
             /\ UNCHANGED reply
       \/ Decide(q, Reply("NXDOMAIN", "resolver", {})) /\ UNCHANGED <<records, unjudged>>
       \/ Decide(q, ServFail) /\ UNCHANGED <<records, unjudged>>
    /\ resolver' = [resolver EXCEPT ![q] = Unset]
    /\ UNCHANGED <<swapVars, req, policy, logged, asked, seen>>

\* cname_chain_blocked: every target is looked up with a load of its own.
JudgeCname(q) ==
    /\ pc[q] = "judge"
    /\ \E c \in unjudged[q] :
          \/ /\ IsBlocked(q, c.data)
             /\ \E r \in BlockReplies(req[q].name) : Decide(q, r)
             /\ UNCHANGED unjudged
          \/ /\ ~IsBlocked(q, c.data)
             /\ unjudged' = [unjudged EXCEPT ![q] = @ \ {c}]
             /\ UNCHANGED <<pc, reply>>
    /\ UNCHANGED <<swapVars, req, policy, resolver, records, logged, asked, seen>>

\* Mutant: an answer with no record left gets no reply.
JudgeAddresses_someRecord(q) ==
    /\ pc[q] = "judge"
    /\ unjudged[q] = {}
    /\ records[q] # {}
    /\ \/ /\ ~policy[q].bypass /\ ResponseIpBlocked(records[q])
          /\ \E r \in BlockReplies(req[q].name) : Decide(q, r)
       \/ /\ policy[q].bypass \/ ~ResponseIpBlocked(records[q])
          /\ Decide(q, Reply("NOERROR", "resolver", records[q]))
    /\ UNCHANGED <<swapVars, req, policy, resolver, records, unjudged, logged, asked, seen>>

\* response_ip_blocked, and the reply when nothing was found.
JudgeAddresses(q) ==
    /\ pc[q] = "judge"
    /\ unjudged[q] = {}
    /\ \/ /\ ~policy[q].bypass /\ ResponseIpBlocked(records[q])
          /\ \E r \in BlockReplies(req[q].name) : Decide(q, r)
       \/ /\ policy[q].bypass \/ ~ResponseIpBlocked(records[q])
          /\ Decide(q, Reply("NOERROR", "resolver", records[q]))
    /\ UNCHANGED <<swapVars, req, policy, resolver, records, unjudged, logged, asked, seen>>

\* Mutant: rejected queries are not logged.
Finish_onlyServed(q) ==
    /\ pc[q] = "finish"
    /\ logged' = [logged EXCEPT ![q] = IF reply[q].by = "rejected" THEN @
                                      ELSE Append(@, <<Low(reply[q].code), reply[q].by>>)]
    /\ \E r \in Sent(reply[q], req[q].udp) : reply' = [reply EXCEPT ![q] = r]
    /\ Goto(q, "done")
    /\ records' = [records EXCEPT ![q] = {}]
    /\ unjudged' = [unjudged EXCEPT ![q] = {}]
    /\ policy' = [policy EXCEPT ![q] = Unrestricted]
    /\ UNCHANGED <<swapVars, req, resolver, asked, seen>>

\* finish: log the query, then send the reply.
Finish(q) ==
    /\ pc[q] = "finish"
    /\ logged' = [logged EXCEPT ![q] = Append(@, <<Low(reply[q].code), reply[q].by>>)]
    /\ \E r \in Sent(reply[q], req[q].udp) : reply' = [reply EXCEPT ![q] = r]
    /\ Goto(q, "done")
    /\ records' = [records EXCEPT ![q] = {}]
    /\ unjudged' = [unjudged EXCEPT ![q] = {}]
    /\ policy' = [policy EXCEPT ![q] = Unrestricted]
    /\ UNCHANGED <<swapVars, req, resolver, asked, seen>>

\* A DoH client hangs up: the request's future is dropped at its await.
HangUp(q) ==
    /\ pc[q] = "await"
    /\ ~req[q].udp
    /\ Goto(q, "gone")
    /\ resolver' = [resolver EXCEPT ![q] = Unset]
    /\ policy' = [policy EXCEPT ![q] = Unrestricted]
    /\ UNCHANGED <<swapVars, req, records, unjudged, reply, logged, asked, seen>>

\* The slot is free for another query; its history ends.
Release(q) ==
    /\ pc[q] \in {"done", "gone"}
    /\ Goto(q, "idle")
    /\ req' = [req EXCEPT ![q] = NoRequest]
    /\ reply' = [reply EXCEPT ![q] = NoReply]
    /\ logged' = [logged EXCEPT ![q] = <<>>]
    /\ asked' = [asked EXCEPT ![q] = FALSE]
    /\ seen' = [seen EXCEPT ![q] = NothingSeen]
    /\ UNCHANGED <<swapVars, policy, resolver, records, unjudged>>

-----------------------------------------------------------------------------
(* What changes under the queries. *)

\* handle_sighup after its reloads: a config that does not load changes nothing.
LoadConfig ==
    /\ hup = "idle"
    /\ hupCfg' \in Configs
    /\ hup' = "resolver"
    /\ UNCHANGED <<policyCfg, rewriteCfg, resolverCfg, lists, queryVars, seen>>

\* apply_hot_swaps: a resolver that cannot be built leaves the old one.
SwapResolver ==
    /\ hup = "resolver"
    /\ resolverCfg' \in {hupCfg, resolverCfg}
    /\ hup' = "policies"
    /\ UNCHANGED <<policyCfg, rewriteCfg, lists, hupCfg, queryVars>>
    /\ seen' = SeenAfter

SwapPolicies ==
    /\ hup = "policies"
    /\ policyCfg' = hupCfg
    /\ hup' = "rewrites"
    /\ UNCHANGED <<rewriteCfg, resolverCfg, lists, hupCfg, queryVars, seen>>

SwapRewrites ==
    /\ hup = "rewrites"
    /\ rewriteCfg' = hupCfg
    /\ hup' = "idle"
    /\ UNCHANGED <<policyCfg, resolverCfg, lists, hupCfg, queryVars>>
    /\ seen' = SeenAfter

\* A reload stores a new state for one list (BlocklistReload).
SwapList(l) ==
    /\ \E s \in ListStates : lists' = [lists EXCEPT ![l] = s]
    /\ UNCHANGED <<policyCfg, rewriteCfg, resolverCfg, hup, hupCfg, queryVars>>
    /\ seen' = SeenAfter

HandlerStep(q) ==
    \/ GateAuthority(q) \/ GateRewrite(q) \/ GateBlocklist(q) \/ Forward(q)
    \/ UpstreamEnds(q) \/ JudgeCname(q) \/ JudgeAddresses(q) \/ Finish(q)

Next ==
    \/ \E q \in Queries :
          \/ \E r \in Requests, limited, inWindow \in BOOLEAN : Receive(q, r, limited, inWindow)
          \/ HandlerStep(q)
          \/ HangUp(q)
          \/ Release(q)
    \/ LoadConfig \/ SwapResolver \/ SwapPolicies \/ SwapRewrites
    \/ \E l \in Lists : SwapList(l)

Spec == Init /\ [][Next]_vars

\* The executor runs a ready query on, and an upstream exchange ends by an
\* answer or by its timeout.  Nothing else has to happen.
FairSpec == Spec /\ \A q \in Queries : WF_vars(HandlerStep(q))

-----------------------------------------------------------------------------
(* Properties. *)

Codes == {"NOERROR", "NXDOMAIN", "REFUSED", "NOTIMP", "FORMERR", "BADVERS", "SERVFAIL"}
Sources == {"rejected", "authority", "rewrite", "blocklist", "resolver", "server failure"}

\* Type invariant; a reply that left over UDP holds no more records than fit.
TypeOK ==
    /\ {policyCfg, rewriteCfg, resolverCfg, hupCfg} \subseteq Configs
    /\ lists \in [Lists -> ListStates]
    /\ hup \in {"idle", "resolver", "policies", "rewrites"}
    /\ pc \in [Queries -> {"idle", "authority", "rewrite", "blocklist", "resolve", "await",
                           "judge", "finish", "done", "gone"}]
    /\ req \in [Queries -> Requests \cup {NoRequest}]
    /\ policy \in [Queries -> PolicyRecords]
    /\ resolver \in [Queries -> Configs \cup {Unset}]
    /\ records \in [Queries -> SUBSET Records]
    /\ unjudged \in [Queries -> SUBSET Records]
    /\ reply \in [Queries -> [code : Codes \cup {"none"}, by : Sources \cup {"nobody"},
                              answers : SUBSET Records, tc : BOOLEAN]]
    /\ logged \in [Queries -> Seq(Codes \X Sources)]
    /\ asked \in [Queries -> BOOLEAN]
    /\ seen \in [Queries -> [policy : PolicyRecords, window : BOOLEAN,
                             lists : SUBSET ListStates, rewrites : SUBSET Configs,
                             resolvers : SUBSET Configs]]
    /\ \A q \in Queries :
          /\ pc[q] # "idle" => req[q] \in Requests
          /\ pc[q] = "await" => resolver[q] \in Configs
          /\ unjudged[q] \subseteq records[q]
          /\ pc[q] = "done" /\ req[q].udp => ~(Cardinality(reply[q].answers) > UdpRoom)

\* A name leaves for an upstream only if the client's own policy at its arrival
\* lets it out, the name is not ours, and neither a rewrite nor the client's
\* blocklist held it for the whole time the query was under way, whatever was
\* swapped meanwhile ("the pinned name never falls through to the resolver, so
\* it cannot leak upstream", rewrite.rs; gate_zones: "never even probe the
\* resolver").
NothingLeaks ==
    \A q \in Queries : asked[q] =>
        LET n == req[q].name
            p == seen[q].policy
        IN  /\ req[q].defects = {}
            /\ ~(p.windows /\ seen[q].window)
            /\ p.zones = {} \/ n \in p.zones
            /\ n \notin OwnNames
            /\ \E c \in seen[q].rewrites : Rewrites[c][n] = "none"
            /\ p.bypass \/ \E s \in seen[q].lists : n \notin s

\* No record of an upstream answer that reaches a client names, as its owner or
\* as the target of a CNAME, a domain that the client's blocklist held all the
\* time, nor a denied address, unless the client's policy bypasses the list
\* (stage_resolve: "checking targets covers the whole chain").
NoBlockedAnswer ==
    \A q \in Queries :
        reply[q].by = "resolver" /\ ~seen[q].policy.bypass =>
            \A r \in reply[q].answers :
                /\ ~(r.kind = "addr" /\ r.data \in DeniedAddrs)
                /\ BlockCname => /\ \E s \in seen[q].lists : r.owner \notin s
                                 /\ r.kind = "cname" =>
                                       \E s \in seen[q].lists : r.data \notin s

\* Rebinding defence: a client gets no private address for a name that was on
\* the default arm of a filtering resolver all the time (resolve, "Rebinding
\* defence").
NoRebinding ==
    \A q \in Queries :
        /\ reply[q].by = "resolver"
        /\ \A c \in seen[q].resolvers : BlockPrivate[c] /\ req[q].name \notin Routed[c]
        => \A r \in reply[q].answers : ~(r.kind = "addr" /\ r.data \in PrivateAddrs)

\* Every query that was answered left exactly one entry in the query log, with
\* the low bits of the code and the source of the reply that was sent, and none
\* before that
\* ("logged and sent in exactly ONE place").
LoggedAsSent ==
    \A q \in Queries :
        logged[q] = IF pc[q] = "done" THEN <<<<Low(reply[q].code), reply[q].by>>>> ELSE <<>>

\* Every query is answered, unless its client hangs up ("stage_resolve always
\* produces a Reply").
EveryQueryEnds == \A q \in Queries : InFlight(q) ~> ~InFlight(q)
=============================================================================
