------------------------- MODULE QueryPipelineProofs -------------------------
(***************************************************************************)
(* Proofs about QueryPipeline for any number of queries, any requests,     *)
(* names, configs, blocklists and upstream answers: type correctness, that *)
(* no query leaks, that no answer carries what the client's blocklist      *)
(* held or a private address, and that the log agrees with what was sent.  *)
(***************************************************************************)
EXTENDS QueryPipeline, TLAPS

\* Where a query is before its reply is decided, and past each gate.
PastBlocklist == {"resolve", "await", "judge"}
PastRewrite == PastBlocklist \cup {"blocklist"}
PastAuthority == PastRewrite \cup {"rewrite"}
Undecided == PastAuthority \cup {"authority"}

ReplyType == [code : Codes \cup {"none"}, by : Sources \cup {"nobody"},
              answers : SUBSET Records, tc : BOOLEAN]

\* What the gates of Receive have established for an undecided query.
Admitted(q) ==
    pc[q] \in Undecided =>
        /\ policy[q] = seen[q].policy
        /\ req[q].defects \subseteq {"unknown type"}
        /\ ~(policy[q].windows /\ seen[q].window)
        /\ policy[q].zones = {} \/ req[q].name \in policy[q].zones
        /\ reply[q] = NoReply

\* What is in force now is part of an undecided query's history.
Witnessed(q) ==
    /\ pc[q] \in Undecided =>
          /\ lists[ListFor(seen[q].policy)] \in seen[q].lists
          /\ rewriteCfg \in seen[q].rewrites
          /\ resolverCfg \in seen[q].resolvers
    /\ pc[q] = "await" => resolver[q] \in seen[q].resolvers

\* What each later gate has established.
Passed(q) ==
    /\ pc[q] \in PastAuthority => req[q].name \notin OwnNames
    /\ pc[q] \in PastRewrite =>
          \E c \in seen[q].rewrites : Rewrites[c][req[q].name] = "none"
    /\ pc[q] \in PastBlocklist =>
          seen[q].policy.bypass \/ \E s \in seen[q].lists : req[q].name \notin s

\* The records under judgement: each one continues a chain of CNAMEs among
\* them, targets already judged were not blocked, and no private address is
\* left if every resolver in force filters.
Judged(q) ==
    pc[q] = "judge" =>
        /\ \A r \in records[q] :
              \/ r.owner = req[q].name
              \/ \E c \in records[q] : c.kind = "cname" /\ c.data = r.owner
        /\ BlockCname /\ ~seen[q].policy.bypass =>
              \A r \in records[q] : r.kind = "cname" =>
                 r \in unjudged[q] \/ \E s \in seen[q].lists : r.data \notin s
        /\ (\A c \in seen[q].resolvers : BlockPrivate[c] /\ req[q].name \notin Routed[c]) =>
              \A r \in records[q] : ~(r.kind = "addr" /\ r.data \in PrivateAddrs)

\* The bodies of the properties, for one query.
Silent(q) ==
    asked[q] =>
        /\ req[q].defects = {}
        /\ ~(seen[q].policy.windows /\ seen[q].window)
        /\ seen[q].policy.zones = {} \/ req[q].name \in seen[q].policy.zones
        /\ req[q].name \notin OwnNames
        /\ \E c \in seen[q].rewrites : Rewrites[c][req[q].name] = "none"
        /\ seen[q].policy.bypass \/ \E s \in seen[q].lists : req[q].name \notin s
Clean(q) ==
    reply[q].by = "resolver" /\ ~seen[q].policy.bypass =>
        \A r \in reply[q].answers :
            /\ ~(r.kind = "addr" /\ r.data \in DeniedAddrs)
            /\ BlockCname => /\ \E s \in seen[q].lists : r.owner \notin s
                             /\ r.kind = "cname" => \E s \in seen[q].lists : r.data \notin s
Public(q) ==
    /\ reply[q].by = "resolver"
    /\ \A c \in seen[q].resolvers : BlockPrivate[c] /\ req[q].name \notin Routed[c]
    => \A r \in reply[q].answers : ~(r.kind = "addr" /\ r.data \in PrivateAddrs)
Logged(q) ==
    logged[q] = IF pc[q] = "done" THEN <<<<Low(reply[q].code), reply[q].by>>>> ELSE <<>>

\* A reply is there from its decision on, and only then.
Replied(q) ==
    /\ pc[q] = "finish" => reply[q].code \in Codes /\ reply[q].by \in Sources
    /\ reply[q].by = "resolver" => pc[q] \in {"finish", "done"}
    /\ pc[q] = "idle" => ~asked[q]

QInv(q) ==
    /\ Admitted(q) /\ Witnessed(q) /\ Passed(q) /\ Judged(q)
    /\ Silent(q) /\ Clean(q) /\ Public(q) /\ Logged(q) /\ Replied(q)

IInv == TypeOK /\ \A q \in Queries : QInv(q)

-----------------------------------------------------------------------------
(* The operators of the model. *)

\* Looking a policy up by canonical address finds the entry written for the
\* client, whatever form the two addresses have.
LEMMA PolicyOfClient ==
    ASSUME NEW c \in Configs, NEW a
    PROVE  ResolvePolicy(c, a) = EntryFor(c, a[1])
<1>1. \A x : CanonicalClientIp(x) = CanonicalClientIp(a) <=> x[1] = a[1]
  BY DEF CanonicalClientIp
<1>2. CASE \E x \in DOMAIN Policies[c] : x[1] = a[1]
  <2>1. PICK x \in DOMAIN Policies[c] : x[1] = a[1]
    BY <1>2
  <2>2. \A y \in DOMAIN Policies[c] : y[1] = a[1] => y = x
    BY <2>1, PipelineAssumption
  <2>3. (CHOOSE y \in DOMAIN Policies[c] :
            CanonicalClientIp(y) = CanonicalClientIp(a)) = x
    BY <1>1, <2>1, <2>2
  <2>4. (CHOOSE y \in DOMAIN Policies[c] : y[1] = a[1]) = x
    BY <2>1, <2>2
  <2> QED
    BY <1>1, <1>2, <2>3, <2>4 DEF ResolvePolicy, EntryFor
<1>3. CASE ~\E x \in DOMAIN Policies[c] : x[1] = a[1]
  BY <1>1, <1>3 DEF ResolvePolicy, EntryFor
<1> QED
  BY <1>2, <1>3

\* Every client has a policy.
LEMMA PolicyType ==
    ASSUME NEW c \in Configs, NEW client
    PROVE  EntryFor(c, client) \in PolicyRecords
<1>1. Unrestricted \in PolicyRecords
  BY DEF Unrestricted, PolicyRecords
<1>2. CASE \E a \in DOMAIN Policies[c] : a[1] = client
  <2> DEFINE x == CHOOSE a \in DOMAIN Policies[c] : a[1] = client
  <2>1. x \in DOMAIN Policies[c]
    BY <1>2
  <2>2. Policies[c][x] \in PolicyRecords
    BY <2>1, PipelineAssumption
  <2> QED
    BY <1>2, <2>2 DEF EntryFor
<1> QED
  BY <1>1, <1>2 DEF EntryFor

\* Every policy has a list.
LEMMA ListForType == \A p : ListFor(p) \in Lists
BY DEF ListFor, Lists

\* What a request has passed when Receive does not reply.
LEMMA ScreenedReply ==
    ASSUME NEW r \in Requests, NEW p \in PolicyRecords,
           NEW limited \in BOOLEAN, NEW inWindow \in BOOLEAN,
           NEW s, s = Screened(r, p, limited, inWindow)
    PROVE  /\ s \in ReplyType
           /\ s # NoReply => s.code \in Codes /\ s.by \in Sources
           /\ s.by # "resolver"
           /\ s = NoReply => /\ r.defects \subseteq {"unknown type"}
                             /\ ~(p.windows /\ inWindow)
                             /\ p.zones = {} \/ r.name \in p.zones
<1>1. /\ r.defects \subseteq Defects
      /\ p.windows \in BOOLEAN
  BY PipelineAssumption DEF PolicyRecords
<1>2. \A code \in Codes : /\ Reject(code) \in ReplyType
                          /\ Reject(code).code = code
                          /\ Reject(code).by = "rejected"
                          /\ Reject(code) # NoReply
  BY DEF Reject, Reply, NoReply, ReplyType, Codes, Sources
<1>3. NoReply \in ReplyType /\ NoReply.by = "nobody"
  BY DEF NoReply, ReplyType, Codes, Sources
<1>4. CASE s = NoReply
  <2>1. /\ \A d \in Defects \ {"unknown type"} : d \notin r.defects
        /\ ~(p.windows /\ inWindow)
        /\ p.zones = {} \/ r.name \in p.zones
    BY <1>2, <1>4 DEF Screened, Defects, Codes
  <2> QED
    BY <1>1, <1>3, <1>4, <2>1 DEF Defects
<1>5. CASE s # NoReply
  <2>1. \E code \in Codes : s = Reject(code)
    BY <1>5 DEF Screened, Codes
  <2> QED
    BY <1>2, <1>5, <2>1 DEF Sources
<1> QED
  BY <1>4, <1>5

\* Replies of the blocklist.
LEMMA BlockReplyType ==
    ASSUME NEW n \in Names, NEW r \in BlockReplies(n)
    PROVE  /\ r \in ReplyType
           /\ r.code \in Codes
           /\ r.by = "blocklist"
<1>1. Sinkhole[n] \in Records
  BY PipelineAssumption
<1>2. \A code \in Codes, a \in SUBSET Records :
          LET x == Reply(code, "blocklist", a) IN
          x \in ReplyType /\ x.code = code /\ x.by = "blocklist"
  BY DEF Reply, ReplyType, Sources
<1>3. \E code \in Codes, a \in {{}, {Sinkhole[n]}} : r = Reply(code, "blocklist", a)
  BY PipelineAssumption DEF BlockReplies, Codes
<1> QED
  BY <1>1, <1>2, <1>3

\* A sent reply is the reply, with fewer records if they do not fit.
LEMMA SentReply ==
    ASSUME NEW r \in ReplyType, NEW udp \in BOOLEAN, NEW t \in Sent(r, udp)
    PROVE  /\ t \in ReplyType
           /\ t.code = r.code /\ t.by = r.by /\ t.answers \subseteq r.answers
           /\ udp => ~(Cardinality(t.answers) > UdpRoom)
<1>1. CASE udp /\ Cardinality(r.answers) > UdpRoom
  <2>1. PICK kept \in SUBSET r.answers :
            /\ Cardinality(kept) = UdpRoom
            /\ t = [r EXCEPT !.answers = kept, !.tc = TRUE]
    BY <1>1 DEF Sent
  <2>2. t.answers = kept /\ t.code = r.code /\ t.by = r.by /\ t \in ReplyType
    BY <2>1 DEF ReplyType
  <2> QED
    BY <2>1, <2>2, PipelineAssumption
<1>2. CASE ~(udp /\ Cardinality(r.answers) > UdpRoom)
  BY <1>2 DEF Sent
<1> QED
  BY <1>1, <1>2

\* The log keeps a code.
LEMMA LowType == \A code \in Codes : Low(code) \in Codes
BY DEF Low, Codes

\* In what the resolver keeps of an answer, every owner but the name that was
\* asked for is the target of a CNAME that is kept too.
LEMMA KeptChain ==
    ASSUME NEW a \in Answers, NEW n \in Names, NEW r \in FilterAnswerSanity(a, n)
    PROVE  \/ r.owner = n
           \/ \E c \in FilterAnswerSanity(a, n) : c.kind = "cname" /\ c.data = r.owner
<1> DEFINE F == FilterAnswerSanity(a, n)
           S == {m \in Names : m = n \/ \E c \in F : c.kind = "cname" /\ c.data = m}
<1>1. \A x \in a : x.owner \in Names /\ (x.kind = "cname" => x.data \in Names)
  BY PipelineAssumption DEF Records
<1>2. ASSUME NEW x \in a, x.kind = "cname", x.owner \in S
      PROVE  x.data \in S
  <2>1. x.owner \in Reached(a, n)
    <3>1. CASE x.owner = n
      BY <1>1, <3>1 DEF Reached
    <3>2. CASE \E c \in F : c.kind = "cname" /\ c.data = x.owner
      <4>1. PICK c \in F : c.kind = "cname" /\ c.data = x.owner
        BY <3>2
      <4>2. c \in a /\ c.owner \in Reached(a, n)
        BY DEF FilterAnswerSanity
      <4>3. ASSUME NEW s \in SUBSET Names, n \in s, Closed(a, s)
            PROVE  x.owner \in s
        BY <4>1, <4>2, <4>3 DEF Reached, Closed
      <4> QED
        BY <1>1, <4>3 DEF Reached
    <3> QED
      BY <1>2, <3>1, <3>2
  <2>2. x \in F
    BY <1>2, <2>1 DEF FilterAnswerSanity
  <2> QED
    BY <1>1, <1>2, <2>2
<1>3. S \in SUBSET Names /\ n \in S /\ Closed(a, S)
  BY <1>2 DEF Closed
<1>4. r.owner \in S
  BY <1>3 DEF FilterAnswerSanity, Reached
<1> QED
  BY <1>4

\* The same of what is left after the private addresses went, which none are
\* if the resolver filters.
LEMMA OutcomeKept ==
    ASSUME NEW a \in Answers, NEW n \in Names, NEW c \in Configs,
           NEW out, out = Outcome(a, n, c)
    PROVE  /\ out \in SUBSET Records
           /\ \A r \in out : \/ r.owner = n
                             \/ \E x \in out : x.kind = "cname" /\ x.data = r.owner
           /\ BlockPrivate[c] /\ n \notin Routed[c] =>
                 \A r \in out : ~(r.kind = "addr" /\ r.data \in PrivateAddrs)
<1> DEFINE F == FilterAnswerSanity(a, n)
<1>1. F \in SUBSET Records
  BY PipelineAssumption DEF FilterAnswerSanity
<1>2. /\ out \subseteq F
      /\ \A x \in F : x.kind = "cname" => x \in out
  BY DEF Outcome, FilterPrivateRdata
<1>3. \A r \in F : r.owner = n \/ \E x \in F : x.kind = "cname" /\ x.data = r.owner
  BY KeptChain
<1>4. BlockPrivate[c] /\ n \notin Routed[c] =>
         \A r \in out : ~(r.kind = "addr" /\ r.data \in PrivateAddrs)
  BY DEF Outcome, FilterPrivateRdata
<1> HIDE DEF F
<1> QED
  BY <1>1, <1>2, <1>3, <1>4

-----------------------------------------------------------------------------
(* Steps that do not move a query. *)

\* Another query moved: nothing this query or its history depends on changed.
LEMMA Untouched ==
    ASSUME NEW q \in Queries, QInv(q), UNCHANGED swapVars,
           pc'[q] = pc[q], req'[q] = req[q], policy'[q] = policy[q],
           resolver'[q] = resolver[q], records'[q] = records[q],
           unjudged'[q] = unjudged[q], reply'[q] = reply[q],
           logged'[q] = logged[q], asked'[q] = asked[q], seen'[q] = seen[q]
    PROVE  QInv(q)'
<1>1. Admitted(q)'
  BY DEF QInv, Admitted, swapVars
<1>2. Witnessed(q)'
  BY DEF QInv, Witnessed, swapVars
<1>3. Passed(q)'
  BY DEF QInv, Passed, swapVars
<1>4. Judged(q)'
  BY DEF QInv, Judged, swapVars
<1>5. Silent(q)'
  BY DEF QInv, Silent, swapVars
<1>6. Clean(q)'
  BY DEF QInv, Clean, swapVars
<1>7. Public(q)'
  BY DEF QInv, Public, swapVars
<1>8. Logged(q)'
  BY DEF QInv, Logged, swapVars
<1>9. Replied(q)'
  BY DEF QInv, Replied, swapVars
<1> QED
  BY <1>1, <1>2, <1>3, <1>4, <1>5, <1>6, <1>7, <1>8, <1>9 DEF QInv

\* Shared state was swapped: the history of an undecided query grows by what
\* is in force now, that of any other stays.
LEMMA Swapped ==
    ASSUME IInv, UNCHANGED queryVars, seen' = SeenAfter, NEW q \in Queries
    PROVE  QInv(q)'
<1> DEFINE h == seen[q]
           l == lists'[ListFor(h.policy)]
<1>1. /\ h \in [policy : PolicyRecords, window : BOOLEAN, lists : SUBSET ListStates,
                rewrites : SUBSET Configs, resolvers : SUBSET Configs]
      /\ pc[q] \in Undecided \cup {"idle", "finish", "done", "gone"}
  BY DEF IInv, TypeOK, Undecided, PastAuthority, PastRewrite, PastBlocklist
<1>2. CASE pc[q] \in Undecided
  <2>1. seen'[q] = [h EXCEPT !.lists = @ \cup {l}, !.rewrites = @ \cup {rewriteCfg'},
                             !.resolvers = @ \cup {resolverCfg'}]
    BY <1>2 DEF SeenAfter, Undecided, PastAuthority, PastRewrite, PastBlocklist
  <2>2. /\ seen'[q].policy = h.policy /\ seen'[q].window = h.window
        /\ seen'[q].lists = h.lists \cup {l}
        /\ seen'[q].rewrites = h.rewrites \cup {rewriteCfg'}
        /\ seen'[q].resolvers = h.resolvers \cup {resolverCfg'}
    BY <1>1, <2>1
  <2> HIDE DEF l
  <2>3. Witnessed(q)'
    BY <2>2 DEF IInv, QInv, Witnessed, queryVars, l
  <2>4. Admitted(q)'
    BY <2>2 DEF IInv, QInv, Admitted, queryVars
  <2>41. Passed(q)'
    BY <2>2 DEF IInv, QInv, Passed, queryVars
  <2>42. Logged(q)' /\ Replied(q)'
    BY DEF IInv, QInv, Logged, Replied, queryVars
  <2>5. Judged(q)'
    BY <2>2 DEF IInv, QInv, Judged, queryVars
  <2>6. Silent(q)'
    BY <2>2 DEF IInv, QInv, Silent, queryVars
  <2>7. reply[q].by # "resolver"
    BY <1>2 DEF IInv, QInv, Replied, Undecided, PastAuthority, PastRewrite, PastBlocklist
  <2>8. Clean(q)' /\ Public(q)'
    BY <2>7 DEF Clean, Public, queryVars
  <2> QED
    BY <2>3, <2>4, <2>41, <2>42, <2>5, <2>6, <2>8 DEF QInv
<1>3. CASE pc[q] \in {"idle", "finish", "done", "gone"}
  <2>1. seen'[q] = seen[q]
    BY <1>3 DEF SeenAfter
  <2>2. /\ pc[q] \notin Undecided
        /\ pc[q] \notin PastAuthority /\ pc[q] \notin PastRewrite
        /\ pc[q] \notin PastBlocklist /\ pc[q] # "await" /\ pc[q] # "judge"
    BY <1>3 DEF Undecided, PastAuthority, PastRewrite, PastBlocklist
  <2>3. Admitted(q)'
    BY <2>1, <2>2 DEF IInv, QInv, Admitted, queryVars
  <2>4. Witnessed(q)'
    BY <2>1, <2>2 DEF IInv, QInv, Witnessed, queryVars
  <2>5. Passed(q)'
    BY <2>1, <2>2 DEF IInv, QInv, Passed, queryVars
  <2>6. Judged(q)'
    BY <2>1, <2>2 DEF IInv, QInv, Judged, queryVars
  <2>7. Silent(q)'
    BY <2>1, <2>2 DEF IInv, QInv, Silent, queryVars
  <2>8. Clean(q)'
    BY <2>1, <2>2 DEF IInv, QInv, Clean, queryVars
  <2>9. Public(q)'
    BY <2>1, <2>2 DEF IInv, QInv, Public, queryVars
  <2>10. Logged(q)'
    BY <2>1, <2>2 DEF IInv, QInv, Logged, queryVars
  <2>11. Replied(q)'
    BY <2>1, <2>2 DEF IInv, QInv, Replied, queryVars
  <2> QED
    BY <2>3, <2>4, <2>5, <2>6, <2>7, <2>8, <2>9, <2>10, <2>11 DEF QInv
<1> QED
  BY <1>1, <1>2, <1>3

\* Only the policies, or where handle_sighup is, changed.
LEMMA NotSeen ==
    ASSUME NEW q \in Queries, QInv(q), UNCHANGED <<rewriteCfg, resolverCfg, lists, queryVars, seen>>
    PROVE  QInv(q)'
<1>1. Admitted(q)'
  BY DEF QInv, Admitted, queryVars
<1>2. Witnessed(q)'
  BY DEF QInv, Witnessed, queryVars
<1>3. Passed(q)'
  BY DEF QInv, Passed, queryVars
<1>4. Judged(q)'
  BY DEF QInv, Judged, queryVars
<1>5. Silent(q)'
  BY DEF QInv, Silent, queryVars
<1>6. Clean(q)'
  BY DEF QInv, Clean, queryVars
<1>7. Public(q)'
  BY DEF QInv, Public, queryVars
<1>8. Logged(q)'
  BY DEF QInv, Logged, queryVars
<1>9. Replied(q)'
  BY DEF QInv, Replied, queryVars
<1> QED
  BY <1>1, <1>2, <1>3, <1>4, <1>5, <1>6, <1>7, <1>8, <1>9 DEF QInv

-----------------------------------------------------------------------------
(* Type correctness. *)

\* The state at startup is well-formed.
LEMMA InitTypeOK == Init => TypeOK
<1> SUFFICES ASSUME Init PROVE TypeOK
  OBVIOUS
<1>1. Unrestricted \in PolicyRecords
  BY DEF Unrestricted, PolicyRecords
<1>2. NoReply \in ReplyType
  BY DEF NoReply, ReplyType
<1>3. NothingSeen \in [policy : PolicyRecords, window : BOOLEAN, lists : SUBSET ListStates,
                       rewrites : SUBSET Configs, resolvers : SUBSET Configs]
  BY <1>1 DEF NothingSeen
<1> QED
  BY <1>1, <1>2, <1>3 DEF Init, TypeOK, ReplyType

\* The step moves q and no other query, and no shared state.
MovesOnly(q) ==
    /\ UNCHANGED swapVars
    /\ \A x \in Queries \ {q} :
          /\ pc'[x] = pc[x] /\ req'[x] = req[x] /\ policy'[x] = policy[x]
          /\ resolver'[x] = resolver[x] /\ records'[x] = records[x]
          /\ unjudged'[x] = unjudged[x] /\ reply'[x] = reply[x]
          /\ logged'[x] = logged[x] /\ asked'[x] = asked[x] /\ seen'[x] = seen[x]

\* Such a step keeps the invariant if it keeps that of q.
LEMMA OneMoves ==
    ASSUME IInv, NEW q \in Queries, MovesOnly(q), TypeOK', QInv(q)'
    PROVE  IInv'
<1>1. ASSUME NEW x \in Queries, x # q
      PROVE  QInv(x)'
  BY <1>1, Untouched DEF MovesOnly, IInv
<1> QED
  BY <1>1 DEF IInv

\* What is known of a request.
LEMMA RequestType ==
    ASSUME TypeOK, NEW q \in Queries, pc[q] # "idle"
    PROVE  /\ req[q] \in Requests /\ req[q].name \in Names /\ req[q].udp \in BOOLEAN
           /\ req[q].defects \subseteq Defects
BY PipelineAssumption DEF TypeOK

-----------------------------------------------------------------------------
(* One lemma per step of a query. *)

\* A new query: its history starts with what is in force, and its policy is the
\* entry written for its client.
LEMMA ReceiveKeeps ==
    ASSUME IInv, NEW q \in Queries, NEW r \in Requests,
           NEW limited \in BOOLEAN, NEW inWindow \in BOOLEAN,
           Receive(q, r, limited, inWindow)
    PROVE  IInv'
<1> DEFINE p == ResolvePolicy(policyCfg, r.from)
           s == Screened(r, p, limited, inWindow)
           h == SeenFirst(r, inWindow)
<1>1. TypeOK /\ QInv(q)
  BY DEF IInv
<1>2. policyCfg \in Configs
  BY <1>1 DEF TypeOK
<1>3. p = EntryFor(policyCfg, r.from[1]) /\ p \in PolicyRecords
  BY <1>2, PolicyOfClient, PolicyType
<1>4. lists[ListFor(p)] \in ListStates
  BY <1>1, ListForType DEF TypeOK
<1>5. h = [policy |-> p, window |-> inWindow, lists |-> {lists[ListFor(p)]},
           rewrites |-> {rewriteCfg}, resolvers |-> {resolverCfg}]
  BY <1>3 DEF SeenFirst
<1>6. /\ s \in ReplyType
      /\ s # NoReply => s.code \in Codes /\ s.by \in Sources
      /\ s.by # "resolver"
      /\ s = NoReply => /\ r.defects \subseteq {"unknown type"}
                        /\ ~(p.windows /\ inWindow)
                        /\ p.zones = {} \/ r.name \in p.zones
  BY <1>3, ScreenedReply
<1> HIDE DEF p, s, h
<1>7. /\ pc[q] = "idle"
      /\ policy' = [policy EXCEPT ![q] = p]
      /\ reply' = [reply EXCEPT ![q] = s]
      /\ pc' = [pc EXCEPT ![q] = IF s = NoReply THEN "authority" ELSE "finish"]
      /\ req' = [req EXCEPT ![q] = r]
      /\ seen' = [seen EXCEPT ![q] = h]
      /\ UNCHANGED <<swapVars, resolver, records, unjudged, logged, asked>>
  BY DEF Receive, Goto, p, s, h
<1>8. h \in [policy : PolicyRecords, window : BOOLEAN, lists : SUBSET ListStates,
             rewrites : SUBSET Configs, resolvers : SUBSET Configs]
  BY <1>1, <1>3, <1>4, <1>5 DEF TypeOK
<1>9. TypeOK'
  BY <1>1, <1>3, <1>6, <1>7, <1>8 DEF TypeOK, ReplyType, swapVars
<1>10. MovesOnly(q)
  BY <1>1, <1>7 DEF MovesOnly, TypeOK
<1>11. /\ pc'[q] = IF s = NoReply THEN "authority" ELSE "finish"
       /\ policy'[q] = p /\ reply'[q] = s /\ req'[q] = r /\ seen'[q] = h
       /\ asked'[q] = FALSE /\ logged'[q] = <<>>
       /\ UNCHANGED swapVars
  BY <1>1, <1>7 DEF TypeOK, QInv, Logged, Replied
<1>12. Admitted(q)'
  <2> SUFFICES ASSUME pc'[q] \in Undecided
               PROVE  /\ p = h.policy /\ r.defects \subseteq {"unknown type"}
                      /\ ~(p.windows /\ h.window)
                      /\ p.zones = {} \/ r.name \in p.zones
                      /\ s = NoReply
    BY <1>11 DEF Admitted
  <2>1. s = NoReply
    BY <1>11 DEF Undecided, PastAuthority, PastRewrite, PastBlocklist
  <2>2. h.policy = p /\ h.window = inWindow
    BY <1>5
  <2>3. ~(p.windows /\ h.window)
    BY <1>6, <2>1, <2>2, Zenon
  <2> QED
    BY <1>6, <2>1, <2>2, <2>3
<1>13. Witnessed(q)'
  BY <1>5, <1>11 DEF Witnessed, swapVars
<1>14. Passed(q)' /\ Judged(q)' /\ Silent(q)'
  BY <1>11 DEF Passed, Judged, Silent, PastAuthority, PastRewrite, PastBlocklist
<1>15. Clean(q)' /\ Public(q)' /\ Replied(q)'
  BY <1>6, <1>11 DEF Clean, Public, Replied
<1>16. Logged(q)'
  BY <1>11 DEF Logged
<1> QED
  BY <1>9, <1>10, <1>12, <1>13, <1>14, <1>15, <1>16, OneMoves DEF QInv

\* Every place that decides on a reply: it is enough that the reply itself is
\* one this query may get.
LEMMA DecideKeeps ==
    ASSUME IInv, NEW q \in Queries, pc[q] \in Undecided,
           NEW r \in ReplyType, r.code \in Codes, r.by \in Sources,
           Decide(q, r),
           UNCHANGED <<swapVars, req, policy, records, unjudged, logged, asked, seen>>,
           resolver' = resolver \/ resolver' = [resolver EXCEPT ![q] = Unset],
           r.by = "resolver" /\ ~seen[q].policy.bypass =>
               \A x \in r.answers :
                   /\ ~(x.kind = "addr" /\ x.data \in DeniedAddrs)
                   /\ BlockCname =>
                         /\ \E l \in seen[q].lists : x.owner \notin l
                         /\ x.kind = "cname" => \E l \in seen[q].lists : x.data \notin l,
           (/\ r.by = "resolver"
            /\ \A c \in seen[q].resolvers : BlockPrivate[c] /\ req[q].name \notin Routed[c])
              => \A x \in r.answers : ~(x.kind = "addr" /\ x.data \in PrivateAddrs)
    PROVE  IInv'
<1>1. TypeOK /\ QInv(q)
  BY DEF IInv
<1>2. /\ reply' = [reply EXCEPT ![q] = r]
      /\ pc' = [pc EXCEPT ![q] = "finish"]
  BY DEF Decide, Goto
<1>3. pc[q] # "idle" /\ pc[q] # "done"
  BY DEF Undecided, PastAuthority, PastRewrite, PastBlocklist
<1>4. TypeOK'
  BY <1>1, <1>2, <1>3 DEF TypeOK, ReplyType, swapVars
<1>5. MovesOnly(q)
  BY <1>1, <1>2 DEF MovesOnly, TypeOK
<1>6. pc'[q] = "finish" /\ reply'[q] = r
  BY <1>1, <1>2 DEF TypeOK
<1>7. Admitted(q)' /\ Witnessed(q)' /\ Passed(q)' /\ Judged(q)'
  BY <1>6 DEF Admitted, Witnessed, Passed, Judged, Undecided, PastAuthority, PastRewrite,
              PastBlocklist
<1>8. Silent(q)'
  BY <1>1 DEF QInv, Silent
<1>9. Clean(q)'
  BY <1>6 DEF Clean
<1>10. Public(q)'
  BY <1>6 DEF Public
<1>11. Logged(q)'
  BY <1>1, <1>3, <1>6 DEF QInv, Logged
<1>12. Replied(q)'
  BY <1>6 DEF Replied
<1> QED
  BY <1>4, <1>5, <1>7, <1>8, <1>9, <1>10, <1>11, <1>12, OneMoves DEF QInv

\* Every place that lets a query go on to its next gate.
LEMMA GoOnKeeps ==
    ASSUME IInv, NEW q \in Queries, pc[q] \in Undecided,
           NEW l \in PastAuthority, Goto(q, l), l # "await", l # "judge",
           UNCHANGED <<swapVars, req, policy, resolver, records, unjudged, reply, logged,
                       asked, seen>>,
           Passed(q)'
    PROVE  IInv'
<1>1. TypeOK /\ QInv(q)
  BY DEF IInv
<1>2. pc' = [pc EXCEPT ![q] = l]
  BY DEF Goto
<1>3. /\ pc[q] # "idle" /\ pc[q] # "done" /\ pc[q] # "finish"
      /\ l # "idle" /\ l # "done" /\ l # "finish" /\ l \in Undecided
  BY DEF Undecided, PastAuthority, PastRewrite, PastBlocklist
<1>4. TypeOK'
  BY <1>1, <1>2, <1>3 DEF TypeOK, swapVars, PastAuthority, PastRewrite, PastBlocklist
<1>5. MovesOnly(q)
  BY <1>1, <1>2 DEF MovesOnly, TypeOK
<1>6. pc'[q] = l
  BY <1>1, <1>2 DEF TypeOK
<1>7. Admitted(q)'
  BY <1>1, <1>3, <1>6 DEF QInv, Admitted
<1>8. Witnessed(q)'
  BY <1>1, <1>3, <1>6 DEF QInv, Witnessed, swapVars
<1>9. Judged(q)'
  BY <1>6 DEF Judged
<1>10. Silent(q)' /\ Clean(q)' /\ Public(q)'
  BY <1>1 DEF QInv, Silent, Clean, Public
<1>11. Logged(q)' /\ Replied(q)'
  BY <1>1, <1>3, <1>6 DEF QInv, Logged, Replied
<1> QED
  BY <1>4, <1>5, <1>7, <1>8, <1>9, <1>10, <1>11, OneMoves DEF QInv

\* Past the authority a name is not ours.
LEMMA GateAuthorityKeeps ==
    ASSUME IInv, NEW q \in Queries, GateAuthority(q)
    PROVE  IInv'
<1> DEFINE n == req[q].name
<1>1. TypeOK /\ QInv(q) /\ pc[q] = "authority" /\ pc[q] \in Undecided
  BY DEF IInv, GateAuthority, Undecided
<1>2. CASE n \in OwnNames
  <2> DEFINE r == Reply("NOERROR", "authority", OwnRecords[n])
  <2>1. /\ r \in ReplyType /\ r.code \in Codes /\ r.by \in Sources /\ r.by # "resolver"
    BY <1>2, PipelineAssumption DEF Reply, ReplyType, Codes, Sources
  <2>2. Decide(q, r)
    BY <1>2 DEF GateAuthority
  <2> HIDE DEF r
  <2> QED
    BY <1>1, <2>1, <2>2, DecideKeeps DEF GateAuthority
<1>3. CASE n \notin OwnNames
  <2>1. Goto(q, "rewrite") /\ UNCHANGED reply
    BY <1>3 DEF GateAuthority
  <2>2. Passed(q)'
    BY <1>1, <1>3, <2>1
       DEF GateAuthority, Goto, TypeOK, Passed, PastAuthority, PastRewrite, PastBlocklist
  <2> QED
    BY <1>1, <2>1, <2>2, GoOnKeeps DEF GateAuthority, PastAuthority
<1> QED
  BY <1>2, <1>3

\* Past the rewrites, one that was in force did not hold the name.
LEMMA GateRewriteKeeps ==
    ASSUME IInv, NEW q \in Queries, GateRewrite(q)
    PROVE  IInv'
<1> DEFINE n == req[q].name
           k == Rewrites[rewriteCfg][n]
<1>1. TypeOK /\ QInv(q) /\ pc[q] = "rewrite" /\ pc[q] \in Undecided
  BY DEF IInv, GateRewrite, Undecided, PastAuthority
<1>2. n \in Names
  BY <1>1, RequestType
<1>3. CASE k # "none"
  <2>1. \E code \in {"NOERROR", "NXDOMAIN"}, a \in {{}, {Pin[n]}} :
           Decide(q, Reply(code, "rewrite", a))
    BY <1>3 DEF GateRewrite
  <2>2. PICK r : /\ Decide(q, r)
                 /\ \E code \in {"NOERROR", "NXDOMAIN"}, a \in {{}, {Pin[n]}} :
                       r = Reply(code, "rewrite", a)
    BY <2>1
  <2>3. /\ r \in ReplyType /\ r.code \in Codes /\ r.by \in Sources /\ r.by # "resolver"
    BY <1>2, <2>2, PipelineAssumption DEF Reply, ReplyType, Codes, Sources
  <2> QED
    BY <1>1, <2>2, <2>3, DecideKeeps DEF GateRewrite
<1>4. CASE k = "none"
  <2>1. Goto(q, "blocklist") /\ UNCHANGED reply
    BY <1>4 DEF GateRewrite
  <2>2. rewriteCfg \in seen[q].rewrites /\ n \notin OwnNames
    BY <1>1 DEF QInv, Witnessed, Passed, PastAuthority
  <2>3. Passed(q)'
    BY <1>1, <1>4, <2>1, <2>2
       DEF GateRewrite, Goto, TypeOK, Passed, PastAuthority, PastRewrite, PastBlocklist
  <2> QED
    BY <1>1, <2>1, <2>3, GoOnKeeps DEF GateRewrite, PastAuthority, PastRewrite
<1> QED
  BY <1>3, <1>4

\* Past the blocklist, a state of it that was in force did not hold the name.
LEMMA GateBlocklistKeeps ==
    ASSUME IInv, NEW q \in Queries, GateBlocklist(q)
    PROVE  IInv'
<1> DEFINE n == req[q].name
<1>1. TypeOK /\ QInv(q) /\ pc[q] = "blocklist" /\ pc[q] \in Undecided
  BY DEF IInv, GateBlocklist, Undecided, PastAuthority, PastRewrite
<1>2. n \in Names
  BY <1>1, RequestType
<1>3. CASE \E r \in BlockReplies(n) : Decide(q, r)
  <2>1. PICK r \in BlockReplies(n) : Decide(q, r)
    BY <1>3
  <2>2. r \in ReplyType /\ r.code \in Codes /\ r.by \in Sources /\ r.by # "resolver"
    BY <1>2, <2>1, BlockReplyType DEF Sources
  <2> QED
    BY <1>1, <2>1, <2>2, DecideKeeps DEF GateBlocklist
<1>4. CASE /\ policy[q].bypass \/ ~IsBlocked(q, n)
           /\ Goto(q, "resolve") /\ UNCHANGED reply
  <2>1. /\ policy[q] = seen[q].policy
        /\ lists[ListFor(seen[q].policy)] \in seen[q].lists
        /\ n \notin OwnNames
        /\ \E c \in seen[q].rewrites : Rewrites[c][n] = "none"
    BY <1>1 DEF QInv, Admitted, Witnessed, Passed, PastAuthority, PastRewrite
  <2>2. seen[q].policy.bypass \/ \E s \in seen[q].lists : n \notin s
    BY <1>4, <2>1 DEF IsBlocked
  <2>3. Passed(q)'
    BY <1>1, <1>4, <2>1, <2>2
       DEF GateBlocklist, Goto, TypeOK, Passed, PastAuthority, PastRewrite, PastBlocklist
  <2> QED
    BY <1>1, <1>4, <2>3, GoOnKeeps DEF GateBlocklist, PastAuthority, PastRewrite, PastBlocklist
<1> QED
  BY <1>3, <1>4 DEF GateBlocklist

\* SERVFAIL, and the resolver's "no such name", carry nothing.
LEMMA EmptyReplies ==
    ASSUME NEW r \in {ServFail, Reply("NXDOMAIN", "resolver", {})}
    PROVE  /\ r \in ReplyType /\ r.code \in Codes /\ r.by \in Sources
           /\ r.answers = {}
<1>1. {} \in SUBSET Records
  OBVIOUS
<1>2. CASE r = ServFail
  BY <1>1, <1>2 DEF ServFail, Reply, ReplyType, Codes, Sources
<1>3. CASE r = Reply("NXDOMAIN", "resolver", {})
  BY <1>1, <1>3 DEF Reply, ReplyType, Codes, Sources
<1> QED
  BY <1>2, <1>3

\* A name is sent upstream only with all the gates behind it.
LEMMA ForwardKeeps ==
    ASSUME IInv, NEW q \in Queries, Forward(q)
    PROVE  IInv'
<1> DEFINE n == req[q].name
<1>1. TypeOK /\ QInv(q) /\ pc[q] = "resolve" /\ pc[q] \in Undecided
  BY DEF IInv, Forward, Undecided, PastAuthority, PastRewrite, PastBlocklist
<1>2. CASE Decide(q, ServFail) /\ UNCHANGED <<resolver, asked>>
  BY <1>1, <1>2, EmptyReplies, DecideKeeps DEF Forward
<1>3. CASE /\ "unknown type" \notin req[q].defects
           /\ resolver' = [resolver EXCEPT ![q] = resolverCfg]
           /\ asked' = [asked EXCEPT ![q] = TRUE]
           /\ Goto(q, "await") /\ UNCHANGED reply
  <2>1. /\ pc' = [pc EXCEPT ![q] = "await"]
        /\ UNCHANGED <<swapVars, req, policy, records, unjudged, reply, logged, seen>>
    BY <1>3 DEF Forward, Goto
  <2>2. TypeOK'
    BY <1>1, <1>3, <2>1 DEF TypeOK, swapVars
  <2>3. MovesOnly(q)
    BY <1>1, <1>3, <2>1 DEF MovesOnly, TypeOK
  <2>4. pc'[q] = "await" /\ resolver'[q] = resolverCfg
    BY <1>1, <1>3, <2>1 DEF TypeOK
  <2>5. Admitted(q)'
    BY <1>1, <2>1 DEF QInv, Admitted
  <2>6. Witnessed(q)'
    BY <1>1, <2>1, <2>4 DEF QInv, Witnessed, swapVars
  <2>7. Passed(q)'
    BY <1>1, <2>1, <2>4 DEF QInv, Passed, PastAuthority, PastRewrite, PastBlocklist
  <2>8. Judged(q)' /\ Clean(q)' /\ Public(q)'
    BY <1>1, <2>1, <2>4 DEF QInv, Judged, Clean, Public
  <2>9. Logged(q)' /\ Replied(q)'
    BY <1>1, <2>1, <2>4 DEF QInv, Logged, Replied
  <2>10. Silent(q)'
    <3>1. req[q].defects = {}
      BY <1>1, <1>3 DEF QInv, Admitted
    <3>2. /\ policy[q] = seen[q].policy
          /\ ~(policy[q].windows /\ seen[q].window)
          /\ policy[q].zones = {} \/ n \in policy[q].zones
      BY <1>1 DEF QInv, Admitted
    <3>3. ~(seen[q].policy.windows /\ seen[q].window)
      BY <3>2, Zenon
    <3>4. /\ n \notin OwnNames
          /\ \E c \in seen[q].rewrites : Rewrites[c][n] = "none"
          /\ seen[q].policy.bypass \/ \E s \in seen[q].lists : n \notin s
      BY <1>1 DEF QInv, Passed, PastAuthority, PastRewrite, PastBlocklist
    <3> QED
      BY <2>1, <3>1, <3>2, <3>3, <3>4 DEF Silent
  <2> QED
    BY <2>2, <2>3, <2>5, <2>6, <2>7, <2>8, <2>9, <2>10, OneMoves DEF QInv
<1> QED
  BY <1>2, <1>3 DEF Forward

\* The answer is filtered by the resolver that was asked, not by the one in force.
LEMMA UpstreamEndsKeeps ==
    ASSUME IInv, NEW q \in Queries, UpstreamEnds(q)
    PROVE  IInv'
<1> DEFINE n == req[q].name
<1>1. /\ TypeOK /\ QInv(q) /\ pc[q] = "await" /\ pc[q] \in Undecided
      /\ resolver' = [resolver EXCEPT ![q] = Unset]
      /\ UNCHANGED <<swapVars, req, policy, logged, asked, seen>>
  BY DEF IInv, UpstreamEnds, Undecided, PastAuthority, PastRewrite, PastBlocklist
<1>2. CASE /\ \E r \in {ServFail, Reply("NXDOMAIN", "resolver", {})} : Decide(q, r)
           /\ UNCHANGED <<records, unjudged>>
  <2>1. PICK r \in {ServFail, Reply("NXDOMAIN", "resolver", {})} : Decide(q, r)
    BY <1>2
  <2>2. r \in ReplyType /\ r.code \in Codes /\ r.by \in Sources /\ r.answers = {}
    BY EmptyReplies
  <2> QED
    BY <1>1, <1>2, <2>1, <2>2, DecideKeeps
<1>3. ASSUME NEW a \in Answers, NEW out, out = Outcome(a, n, resolver[q]),
             records' = [records EXCEPT ![q] = out],
             unjudged' = [unjudged EXCEPT ![q] =
                   {r \in out : r.kind = "cname" /\ BlockCname /\ ~policy[q].bypass}],
             Goto(q, "judge"), UNCHANGED reply
      PROVE  IInv'
  <2>1. /\ n \in Names
        /\ resolver[q] \in Configs /\ resolver[q] \in seen[q].resolvers
        /\ policy[q] = seen[q].policy
    BY <1>1, RequestType DEF TypeOK, QInv, Witnessed, Admitted
  <2>2. /\ out \in SUBSET Records
        /\ \A r \in out : \/ r.owner = n
                          \/ \E x \in out : x.kind = "cname" /\ x.data = r.owner
        /\ BlockPrivate[resolver[q]] /\ n \notin Routed[resolver[q]] =>
              \A r \in out : ~(r.kind = "addr" /\ r.data \in PrivateAddrs)
    BY <1>3, <2>1, OutcomeKept
  <2>3. pc' = [pc EXCEPT ![q] = "judge"]
    BY <1>3 DEF Goto
  <2>4. TypeOK'
    BY <1>1, <1>3, <2>2, <2>3 DEF TypeOK, swapVars
  <2>5. MovesOnly(q)
    BY <1>1, <1>3, <2>3 DEF MovesOnly, TypeOK
  <2>6. /\ pc'[q] = "judge" /\ records'[q] = out
        /\ unjudged'[q] = {r \in out : r.kind = "cname" /\ BlockCname /\ ~policy[q].bypass}
    BY <1>1, <1>3, <2>3 DEF TypeOK
  <2>7. Admitted(q)'
    BY <1>1, <1>3 DEF QInv, Admitted
  <2>8. Witnessed(q)'
    BY <1>1, <2>6 DEF QInv, Witnessed, swapVars
  <2>9. Passed(q)'
    BY <1>1, <2>6 DEF QInv, Passed, PastAuthority, PastRewrite, PastBlocklist
  <2>10. Judged(q)'
    BY <1>1, <2>1, <2>2, <2>6 DEF Judged
  <2>11. Silent(q)' /\ Clean(q)' /\ Public(q)'
    BY <1>1, <1>3 DEF QInv, Silent, Clean, Public
  <2>12. Logged(q)' /\ Replied(q)'
    BY <1>1, <1>3, <2>6 DEF QInv, Logged, Replied
  <2> QED
    BY <2>4, <2>5, <2>7, <2>8, <2>9, <2>10, <2>11, <2>12, OneMoves DEF QInv
<1> QED
  BY <1>2, <1>3 DEF UpstreamEnds

\* A CNAME target that is cleared was outside the list of this moment.
LEMMA JudgeCnameKeeps ==
    ASSUME IInv, NEW q \in Queries, JudgeCname(q)
    PROVE  IInv'
<1>1. /\ TypeOK /\ QInv(q) /\ pc[q] = "judge" /\ pc[q] \in Undecided
      /\ UNCHANGED <<swapVars, req, policy, resolver, records, logged, asked, seen>>
  BY DEF IInv, JudgeCname, Undecided, PastAuthority, PastRewrite, PastBlocklist
<1>2. CASE \E r \in BlockReplies(req[q].name) : Decide(q, r) /\ UNCHANGED unjudged
  <2>1. PICK r \in BlockReplies(req[q].name) : Decide(q, r) /\ UNCHANGED unjudged
    BY <1>2
  <2>2. r \in ReplyType /\ r.code \in Codes /\ r.by \in Sources /\ r.by # "resolver"
    BY <1>1, RequestType, BlockReplyType DEF Sources
  <2> QED
    BY <1>1, <2>1, <2>2, DecideKeeps
<1>3. ASSUME NEW c \in unjudged[q], ~IsBlocked(q, c.data),
             unjudged' = [unjudged EXCEPT ![q] = @ \ {c}],
             UNCHANGED <<pc, reply>>
      PROVE  IInv'
  <2>1. TypeOK'
    BY <1>1, <1>3 DEF TypeOK, swapVars
  <2>2. MovesOnly(q)
    BY <1>1, <1>3 DEF MovesOnly, TypeOK
  <2>3. unjudged'[q] = unjudged[q] \ {c}
    BY <1>1, <1>3 DEF TypeOK
  <2>4. lists[ListFor(seen[q].policy)] \in seen[q].lists /\ policy[q] = seen[q].policy
    BY <1>1 DEF QInv, Witnessed, Admitted
  <2>5. \E s \in seen[q].lists : c.data \notin s
    BY <1>3, <2>4 DEF IsBlocked
  <2>6. Judged(q)'
    BY <1>1, <1>3, <2>3, <2>5 DEF QInv, Judged
  <2>7. Admitted(q)' /\ Passed(q)' /\ Silent(q)'
    BY <1>1, <1>3 DEF QInv, Admitted, Passed, Silent
  <2>8. Witnessed(q)'
    BY <1>1, <1>3 DEF QInv, Witnessed, swapVars
  <2>9. Clean(q)' /\ Public(q)'
    BY <1>1, <1>3 DEF QInv, Clean, Public
  <2>10. Logged(q)' /\ Replied(q)'
    BY <1>1, <1>3 DEF QInv, Logged, Replied
  <2> QED
    BY <2>1, <2>2, <2>6, <2>7, <2>8, <2>9, <2>10, OneMoves DEF QInv
<1> QED
  BY <1>2, <1>3 DEF JudgeCname

\* The resolver's reply: with no CNAME left to judge, every owner in it is
\* cleared as well.
LEMMA JudgeAddressesKeeps ==
    ASSUME IInv, NEW q \in Queries, JudgeAddresses(q)
    PROVE  IInv'
<1> DEFINE n == req[q].name
<1>1. /\ TypeOK /\ QInv(q) /\ pc[q] = "judge" /\ pc[q] \in Undecided
      /\ unjudged[q] = {}
      /\ UNCHANGED <<swapVars, req, policy, resolver, records, unjudged, logged, asked, seen>>
  BY DEF IInv, JudgeAddresses, Undecided, PastAuthority, PastRewrite, PastBlocklist
<1>2. CASE \E r \in BlockReplies(n) : Decide(q, r)
  <2>1. PICK r \in BlockReplies(n) : Decide(q, r)
    BY <1>2
  <2>2. r \in ReplyType /\ r.code \in Codes /\ r.by \in Sources /\ r.by # "resolver"
    BY <1>1, RequestType, BlockReplyType DEF Sources
  <2> QED
    BY <1>1, <2>1, <2>2, DecideKeeps
<1>3. CASE /\ policy[q].bypass \/ ~ResponseIpBlocked(records[q])
           /\ Decide(q, Reply("NOERROR", "resolver", records[q]))
  <2> DEFINE r == Reply("NOERROR", "resolver", records[q])
  <2>1. records[q] \in SUBSET Records
    BY <1>1 DEF TypeOK
  <2>2. /\ r \in ReplyType /\ r.code \in Codes /\ r.by \in Sources
        /\ r.answers = records[q]
    BY <2>1 DEF Reply, ReplyType, Codes, Sources
  <2> HIDE DEF r
  <2>3. ASSUME ~seen[q].policy.bypass, NEW x \in records[q]
        PROVE  /\ ~(x.kind = "addr" /\ x.data \in DeniedAddrs)
               /\ BlockCname => /\ \E l \in seen[q].lists : x.owner \notin l
                                /\ x.kind = "cname" => \E l \in seen[q].lists : x.data \notin l
    <3>1. policy[q] = seen[q].policy
      BY <1>1 DEF QInv, Admitted
    <3>2. ~(x.kind = "addr" /\ x.data \in DeniedAddrs)
      BY <1>3, <2>3, <3>1 DEF ResponseIpBlocked
    <3>3. ASSUME BlockCname
          PROVE  \A y \in records[q] :
                    y.kind = "cname" => \E l \in seen[q].lists : y.data \notin l
      BY <1>1, <2>3, <3>3 DEF QInv, Judged
    <3>4. \E l \in seen[q].lists : n \notin l
      BY <1>1, <2>3 DEF QInv, Passed, PastBlocklist
    <3>5. \/ x.owner = n
          \/ \E c \in records[q] : c.kind = "cname" /\ c.data = x.owner
      BY <1>1, <2>3 DEF QInv, Judged
    <3> QED
      BY <2>3, <3>2, <3>3, <3>4, <3>5
  <2>4. (\A c \in seen[q].resolvers : BlockPrivate[c] /\ n \notin Routed[c])
           => \A x \in records[q] : ~(x.kind = "addr" /\ x.data \in PrivateAddrs)
    BY <1>1 DEF QInv, Judged
  <2>5. Decide(q, r)
    BY <1>3 DEF r
  <2> QED
    BY <1>1, <2>2, <2>3, <2>4, <2>5, DecideKeeps
<1> QED
  BY <1>2, <1>3 DEF JudgeAddresses

\* Shedding records and logging keep what was shown of the reply.
LEMMA FinishKeeps ==
    ASSUME IInv, NEW q \in Queries, Finish(q)
    PROVE  IInv'
<1> DEFINE e == <<Low(reply[q].code), reply[q].by>>
<1>1. /\ TypeOK /\ QInv(q) /\ pc[q] = "finish"
      /\ pc' = [pc EXCEPT ![q] = "done"]
      /\ logged' = [logged EXCEPT ![q] = Append(@, e)]
      /\ records' = [records EXCEPT ![q] = {}]
      /\ unjudged' = [unjudged EXCEPT ![q] = {}]
      /\ policy' = [policy EXCEPT ![q] = Unrestricted]
      /\ UNCHANGED <<swapVars, req, resolver, asked, seen>>
  BY DEF IInv, Finish, Goto
<1>2. PICK t \in Sent(reply[q], req[q].udp) : reply' = [reply EXCEPT ![q] = t]
  BY DEF Finish
<1>3. /\ reply[q] \in ReplyType /\ reply[q].code \in Codes /\ reply[q].by \in Sources
      /\ req[q].udp \in BOOLEAN
  BY <1>1, RequestType DEF TypeOK, ReplyType, QInv, Replied
<1>4. /\ t \in ReplyType
      /\ t.code = reply[q].code /\ t.by = reply[q].by /\ t.answers \subseteq reply[q].answers
      /\ req[q].udp => ~(Cardinality(t.answers) > UdpRoom)
  BY <1>2, <1>3, SentReply
<1>5. e \in Codes \X Sources /\ logged[q] = <<>>
  BY <1>1, <1>3, LowType DEF QInv, Logged
<1>6. Unrestricted \in PolicyRecords
  BY DEF Unrestricted, PolicyRecords
<1>7. Append(logged[q], e) = <<e>> /\ <<e>> \in Seq(Codes \X Sources)
  BY <1>5
<1> HIDE DEF e
<1>8. TypeOK'
  BY <1>1, <1>2, <1>4, <1>6, <1>7 DEF TypeOK, ReplyType, swapVars
<1>9. MovesOnly(q)
  BY <1>1, <1>2 DEF MovesOnly, TypeOK
<1>10. pc'[q] = "done" /\ reply'[q] = t /\ logged'[q] = <<e>>
  BY <1>1, <1>2, <1>7 DEF TypeOK, ReplyType
<1>11. Admitted(q)' /\ Witnessed(q)' /\ Passed(q)' /\ Judged(q)'
  BY <1>10 DEF Admitted, Witnessed, Passed, Judged, Undecided, PastAuthority, PastRewrite,
               PastBlocklist
<1>12. Silent(q)'
  BY <1>1 DEF QInv, Silent
<1>13. Clean(q)'
  BY <1>1, <1>4, <1>10 DEF QInv, Clean
<1>14. Public(q)'
  BY <1>1, <1>4, <1>10 DEF QInv, Public
<1>15. Logged(q)'
  BY <1>4, <1>10 DEF Logged, e
<1>16. Replied(q)'
  BY <1>10 DEF Replied
<1> QED
  BY <1>8, <1>9, <1>11, <1>12, <1>13, <1>14, <1>15, <1>16, OneMoves DEF QInv

\* A dropped query leaves no entry.
LEMMA HangUpKeeps ==
    ASSUME IInv, NEW q \in Queries, HangUp(q)
    PROVE  IInv'
<1>1. /\ TypeOK /\ QInv(q) /\ pc[q] = "await"
      /\ pc' = [pc EXCEPT ![q] = "gone"]
      /\ resolver' = [resolver EXCEPT ![q] = Unset]
      /\ policy' = [policy EXCEPT ![q] = Unrestricted]
      /\ UNCHANGED <<swapVars, req, records, unjudged, reply, logged, asked, seen>>
  BY DEF IInv, HangUp, Goto
<1>2. Unrestricted \in PolicyRecords
  BY DEF Unrestricted, PolicyRecords
<1>3. TypeOK'
  BY <1>1, <1>2 DEF TypeOK, swapVars
<1>4. MovesOnly(q)
  BY <1>1 DEF MovesOnly, TypeOK
<1>5. pc'[q] = "gone"
  BY <1>1 DEF TypeOK
<1>6. Admitted(q)' /\ Witnessed(q)' /\ Passed(q)' /\ Judged(q)'
  BY <1>5 DEF Admitted, Witnessed, Passed, Judged, Undecided, PastAuthority, PastRewrite,
              PastBlocklist
<1>7. Silent(q)' /\ Clean(q)' /\ Public(q)'
  BY <1>1 DEF QInv, Silent, Clean, Public
<1>8. Logged(q)' /\ Replied(q)'
  BY <1>1, <1>5 DEF QInv, Logged, Replied
<1> QED
  BY <1>3, <1>4, <1>6, <1>7, <1>8, OneMoves DEF QInv

\* A freed slot is as at startup.
LEMMA ReleaseKeeps ==
    ASSUME IInv, NEW q \in Queries, Release(q)
    PROVE  IInv'
<1>1. /\ TypeOK /\ QInv(q)
      /\ pc' = [pc EXCEPT ![q] = "idle"]
      /\ req' = [req EXCEPT ![q] = NoRequest]
      /\ reply' = [reply EXCEPT ![q] = NoReply]
      /\ logged' = [logged EXCEPT ![q] = <<>>]
      /\ asked' = [asked EXCEPT ![q] = FALSE]
      /\ seen' = [seen EXCEPT ![q] = NothingSeen]
      /\ UNCHANGED <<swapVars, policy, resolver, records, unjudged>>
  BY DEF IInv, Release, Goto
<1>2. Unrestricted \in PolicyRecords
  BY DEF Unrestricted, PolicyRecords
<1>3. /\ NoReply \in ReplyType /\ NoReply.by = "nobody"
      /\ NothingSeen \in [policy : PolicyRecords, window : BOOLEAN, lists : SUBSET ListStates,
                          rewrites : SUBSET Configs, resolvers : SUBSET Configs]
  BY <1>2 DEF NoReply, ReplyType, NothingSeen
<1>4. TypeOK'
  BY <1>1, <1>3 DEF TypeOK, ReplyType, swapVars
<1>5. MovesOnly(q)
  BY <1>1 DEF MovesOnly, TypeOK
<1>6. pc'[q] = "idle" /\ reply'[q] = NoReply /\ logged'[q] = <<>> /\ asked'[q] = FALSE
  BY <1>1 DEF TypeOK
<1>7. Admitted(q)' /\ Witnessed(q)' /\ Passed(q)' /\ Judged(q)'
  BY <1>6 DEF Admitted, Witnessed, Passed, Judged, Undecided, PastAuthority, PastRewrite,
              PastBlocklist
<1>8. Silent(q)' /\ Clean(q)' /\ Public(q)' /\ Replied(q)'
  BY <1>3, <1>6 DEF Silent, Clean, Public, Replied
<1>9. Logged(q)'
  BY <1>6 DEF Logged
<1> QED
  BY <1>4, <1>5, <1>7, <1>8, <1>9, OneMoves DEF QInv

-----------------------------------------------------------------------------
(* The steps of handle_sighup and of the blocklist's reloads. *)

\* The history of every query keeps its type when something is swapped.
LEMMA SeenAfterType ==
    ASSUME TypeOK, rewriteCfg' \in Configs, resolverCfg' \in Configs,
           lists' \in [Lists -> ListStates], seen' = SeenAfter
    PROVE  seen' \in [Queries -> [policy : PolicyRecords, window : BOOLEAN,
                                  lists : SUBSET ListStates, rewrites : SUBSET Configs,
                                  resolvers : SUBSET Configs]]
<1> DEFINE H == [policy : PolicyRecords, window : BOOLEAN, lists : SUBSET ListStates,
                 rewrites : SUBSET Configs, resolvers : SUBSET Configs]
<1>1. ASSUME NEW q \in Queries
      PROVE  SeenAfter[q] \in H
  <2>1. seen[q] \in H
    BY DEF TypeOK
  <2>2. lists'[ListFor(seen[q].policy)] \in ListStates
    BY ListForType
  <2> QED
    BY <2>1, <2>2 DEF SeenAfter
<1> QED
  BY <1>1 DEF SeenAfter

\* A step that only changes shared state, and says so to the histories.
LEMMA SwapKeeps ==
    ASSUME IInv, UNCHANGED queryVars, UNCHANGED <<policyCfg, hupCfg>>,
           hup' \in {"idle", "resolver", "policies", "rewrites"},
           rewriteCfg' \in Configs, resolverCfg' \in Configs,
           lists' \in [Lists -> ListStates], seen' = SeenAfter
    PROVE  IInv'
<1>1. TypeOK
  BY DEF IInv
<1>2. TypeOK'
  BY <1>1, SeenAfterType DEF TypeOK, queryVars
<1> QED
  BY <1>2, Swapped DEF IInv

\* The four steps of a SIGHUP.
LEMMA SighupKeeps ==
    ASSUME IInv, LoadConfig \/ SwapResolver \/ SwapPolicies \/ SwapRewrites
    PROVE  IInv'
<1>1. TypeOK
  BY DEF IInv
<1>2. CASE SwapResolver
  <2>1. resolverCfg' \in Configs
    BY <1>1, <1>2 DEF SwapResolver, TypeOK
  <2> QED
    BY <1>1, <1>2, <2>1, SwapKeeps DEF SwapResolver, TypeOK
<1>3. CASE SwapRewrites
  <2>1. rewriteCfg' \in Configs
    BY <1>1, <1>3 DEF SwapRewrites, TypeOK
  <2> QED
    BY <1>1, <1>3, <2>1, SwapKeeps DEF SwapRewrites, TypeOK
<1>4. CASE LoadConfig \/ SwapPolicies
  <2>1. UNCHANGED <<rewriteCfg, resolverCfg, lists, queryVars, seen>>
    BY <1>4 DEF LoadConfig, SwapPolicies
  <2>2. /\ policyCfg' \in Configs /\ hupCfg' \in Configs
        /\ hup' \in {"idle", "resolver", "policies", "rewrites"}
    BY <1>1, <1>4 DEF LoadConfig, SwapPolicies, TypeOK
  <2>3. TypeOK'
    BY <1>1, <2>1, <2>2 DEF TypeOK, queryVars
  <2> QED
    BY <2>1, <2>3, NotSeen DEF IInv
<1> QED
  BY <1>2, <1>3, <1>4

\* A blocklist reload.
LEMMA SwapListKeeps ==
    ASSUME IInv, NEW l \in Lists, SwapList(l)
    PROVE  IInv'
<1>1. TypeOK
  BY DEF IInv
<1>2. lists' \in [Lists -> ListStates]
  BY <1>1 DEF SwapList, TypeOK
<1> QED
  BY <1>1, <1>2, SwapKeeps DEF SwapList, TypeOK

-----------------------------------------------------------------------------
(* The theorems. *)

\* The inductive invariant holds initially.
LEMMA InitIInv == Init => IInv
<1> SUFFICES ASSUME Init, NEW q \in Queries PROVE QInv(q)
  BY InitTypeOK DEF IInv
<1>1. /\ pc[q] = "idle" /\ reply[q] = NoReply /\ logged[q] = <<>> /\ asked[q] = FALSE
      /\ NoReply.by = "nobody"
  BY DEF Init, NoReply
<1>2. Admitted(q) /\ Witnessed(q) /\ Passed(q) /\ Judged(q)
  BY <1>1 DEF Admitted, Witnessed, Passed, Judged, Undecided, PastAuthority, PastRewrite,
              PastBlocklist
<1>3. Silent(q) /\ Clean(q) /\ Public(q) /\ Replied(q)
  BY <1>1 DEF Silent, Clean, Public, Replied
<1>4. Logged(q)
  BY <1>1 DEF Logged
<1> QED
  BY <1>2, <1>3, <1>4 DEF QInv

\* Every step keeps it.
LEMMA StepIInv == IInv /\ [Next]_vars => IInv'
<1> SUFFICES ASSUME IInv, [Next]_vars PROVE IInv'
  OBVIOUS
<1>1. ASSUME NEW q \in Queries, NEW r \in Requests, NEW limited \in BOOLEAN,
             NEW inWindow \in BOOLEAN, Receive(q, r, limited, inWindow)
      PROVE  IInv'
  BY <1>1, ReceiveKeeps
<1>2. ASSUME NEW q \in Queries, HandlerStep(q)
      PROVE  IInv'
  BY <1>2, GateAuthorityKeeps, GateRewriteKeeps, GateBlocklistKeeps, ForwardKeeps,
     UpstreamEndsKeeps, JudgeCnameKeeps, JudgeAddressesKeeps, FinishKeeps DEF HandlerStep
<1>3. ASSUME NEW q \in Queries, HangUp(q)
      PROVE  IInv'
  BY <1>3, HangUpKeeps
<1>4. ASSUME NEW q \in Queries, Release(q)
      PROVE  IInv'
  BY <1>4, ReleaseKeeps
<1>5. CASE LoadConfig \/ SwapResolver \/ SwapPolicies \/ SwapRewrites
  BY <1>5, SighupKeeps
<1>6. ASSUME NEW l \in Lists, SwapList(l)
      PROVE  IInv'
  BY <1>6, SwapListKeeps
<1>7. CASE UNCHANGED vars
  <2>1. UNCHANGED <<rewriteCfg, resolverCfg, lists, queryVars, seen>> /\ UNCHANGED swapVars
    BY <1>7 DEF vars, swapVars
  <2>2. TypeOK'
    BY <2>1 DEF IInv, TypeOK, queryVars, swapVars
  <2> QED
    BY <2>1, <2>2, NotSeen DEF IInv
<1> QED
  BY <1>1, <1>2, <1>3, <1>4, <1>5, <1>6, <1>7 DEF Next

\* The inductive invariant holds of every reachable state of the pipeline.
THEOREM Invariance == Spec => []IInv
BY InitIInv, StepIInv, PTL DEF Spec

\* Every state of the pipeline has its type, and no reply that left over UDP
\* holds more records than respond found room for.
THEOREM TypeCorrect == Spec => []TypeOK
<1>1. IInv => TypeOK
  BY DEF IInv
<1> QED
  BY <1>1, Invariance, PTL

\* No name leaves for an upstream that the gates should have kept, whatever is
\* swapped while the query passes them.
THEOREM NeverLeaks == Spec => []NothingLeaks
<1>1. IInv => NothingLeaks
  BY DEF IInv, QInv, Silent, NothingLeaks
<1> QED
  BY <1>1, Invariance, PTL

\* No answer of the resolver shows a client a name its blocklist held all the
\* time or a denied address: checking the targets of the CNAMEs that are left
\* after the bailiwick filter covers every name in the answer.
THEOREM NeverServesBlocked == Spec => []NoBlockedAnswer
<1>1. IInv => NoBlockedAnswer
  BY DEF IInv, QInv, Clean, NoBlockedAnswer
<1> QED
  BY <1>1, Invariance, PTL

\* A filtering resolver never hands a private address to a client, even if
\* another resolver replaces it while the query waits for the upstream.
THEOREM NeverRebinds == Spec => []NoRebinding
<1>1. IInv => NoRebinding
  BY DEF IInv, QInv, Public, NoRebinding
<1> QED
  BY <1>1, Invariance, PTL

\* The log has one entry for every reply, with its code and source, and none
\* for a query that was dropped or is not answered yet.
THEOREM LogAgrees == Spec => []LoggedAsSent
<1>1. IInv => LoggedAsSent
  BY DEF IInv, QInv, Logged, LoggedAsSent
<1> QED
  BY <1>1, Invariance, PTL
=============================================================================
