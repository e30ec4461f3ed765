------------------------------ MODULE Frontend ------------------------------
(***************************************************************************)
(* What surrounds the pipeline of one query, for queries that run side by  *)
(* side on several threads: the DoH exchange (rustydnsd/src/doh.rs), the   *)
(* counters (metrics.rs, incremented by handler.rs), the two sinks of the  *)
(* query log (query_log.rs) and the /queries endpoint.                     *)
(*                                                                         *)
(* Which verdict the pipeline reaches is left open; QueryPipeline models   *)
(* how it is reached.  Every counter and every sink is touched in a step   *)
(* of its own, in the order of the code, since other threads run between.  *)
(* The writer behind the disk channel is QueryLogDisk.                     *)
(***************************************************************************)
EXTENDS Naturals, Sequences, SequencesExt, FiniteSets, FiniteSetsExt

CONSTANTS
    Requests,       \* the queries, each sent once
    Doh,            \* those that come over DoH
    Verdicts,       \* the verdicts of the gates that may be reached
    Dropped,        \* how many private records an answer may lose
    RingSizes,      \* the values query_log_ring_size may have
    ChannelCap,     \* CHANNEL_CAPACITY of the disk writer
    MaxRendered,    \* MAX_QUERIES_RENDERED
    None            \* no reply, no status

\* What the gates may decide: a counter to increment or none, the code of the
\* reply and the ServedBy label of the log entry.
Gates == {
    <<"policy_rate_limited", "REFUSED", "Rejected">>,       \* gate_rate_limit
    <<None, "NOTIMP", "Rejected">>,                         \* gate_opcode, gate_class
    <<None, "REFUSED", "Rejected">>,                        \* gate_opcode, AXFR
    <<None, "BADVERS", "Rejected">>,                        \* gate_edns_version
    <<"policy_refused_any", "REFUSED", "Rejected">>,        \* gate_any_qtype
    <<"policy_schedule_blocked", "REFUSED", "Rejected">>,   \* gate_schedule
    <<"policy_zone_denied", "REFUSED", "Rejected">>,        \* gate_zones
    <<"authority_hits", "NOERROR", "Authority">>,           \* gate_authority
    <<"rewrite_hits", "NOERROR", "Rewrite">>,               \* gate_rewrite
    <<"rewrite_hits", "NXDOMAIN", "Rewrite">>,
    <<"blocklist_hits", "NOERROR", "Blocklist">>,           \* gate_blocklist
    <<"blocklist_hits", "NXDOMAIN", "Blocklist">>,
    <<"blocklist_hits", "REFUSED", "Blocklist">> }

GateCounters == {
    "policy_rate_limited", "policy_refused_any", "policy_schedule_blocked",
    "policy_zone_denied", "authority_hits", "rewrite_hits", "blocklist_hits" }
Causes == {"cname_cloaking_blocked", "response_ip_blocked"}
Codes == {"NOERROR", "FORMERR", "SERVFAIL", "NXDOMAIN", "NOTIMP", "REFUSED", "BADVERS"}

Counters ==
    GateCounters \cup Causes
    \cup {"queries", "resolver_queries", "resolver_failures", "policy_blocklist_bypass",
          "private_rdata_dropped", "disk_dropped"}
\* All but one count a query once at most; that one counts records.
PerQuery == Counters \ {"private_rdata_dropped"}

\* A reply is the code of the response and the source it came from.
Replies == {<<g[2], g[3]>> : g \in Gates}
    \cup {<<"FORMERR", "Rejected">>, <<"SERVFAIL", "ServerFailure">>,
          <<"NOERROR", "Resolver">>, <<"NXDOMAIN", "Resolver">>}

\* ResponseCode::low(): the log has no room for the extended code BADVERS (16).
Low(code) == IF code = "BADVERS" THEN "NOERROR" ELSE code

\* An entry of the log is a query with the low bits of its code and its source.
Entries == Requests \X {<<Low(x[1]), x[2]>> : x \in Replies}

ASSUME FrontendAssumption ==
    /\ IsFiniteSet(Requests)
    /\ Doh \subseteq Requests
    /\ Verdicts \subseteq Gates
    /\ Dropped \subseteq Nat
    /\ RingSizes \subseteq Nat
    /\ ChannelCap \in Nat \ {0}
    /\ MaxRendered \in Nat
    /\ None \notin Counters /\ None \notin Replies /\ None \notin Seq(Entries)
    /\ None \notin BOOLEAN /\ None \notin Nat

VARIABLES
    pc,             \* where each request is
    reply,          \* its Reply: <<code, served_by>>
    cause,          \* the counter of a block found in the answer
    encoded,        \* whether its response could be encoded
    slot,           \* what its oneshot channel holds
    status,         \* its HTTP status
    count,          \* the counters
    responses,      \* rustydns_dns_responses_by_rcode_total
    ring,           \* QueryLog::inner, oldest first
    capacity,       \* QueryLog::capacity
    disk,           \* the channel to the disk writer; None without a writer
    pushed, taken   \* history: all entries of the ring, and of the channel

requestVars == <<pc, reply, cause, encoded, slot, status>>
logVars == <<ring, capacity, disk, pushed, taken>>
vars == <<requestVars, count, responses, logVars>>

-----------------------------------------------------------------------------
(* QueryLog::new or with_disk_sink, and Metrics::new: all counters at zero. *)
Init ==
    /\ pc = [r \in Requests |-> "idle"]
    /\ reply = [r \in Requests |-> None]
    /\ cause = [r \in Requests |-> None]
    /\ encoded = [r \in Requests |-> None]
    /\ slot = [r \in Requests |-> None]
    /\ status = [r \in Requests |-> None]
    /\ count = [c \in Counters |-> 0]
    /\ responses = [c \in Codes |-> 0]
    /\ ring = <<>>
    /\ capacity \in RingSizes
    /\ disk \in {None, <<>>}
    /\ pushed = <<>> /\ taken = <<>>

Goto(r, l) == pc' = [pc EXCEPT ![r] = l]
Inc(cs) == count' = [c \in Counters |-> count[c] + (IF c \in cs THEN 1 ELSE 0)]
Decide(r, code, by) == reply' = [reply EXCEPT ![r] = <<code, by>>]

-----------------------------------------------------------------------------
(* The request arrives. *)

\* What is refused before a query exists: the body limit of the router comes
\* before the content type, that before the message.  A base64 parameter of
\* more than 65535 bytes does not fit into a request line.
HttpStatus(method, flaws) ==
    CASE method = "GET" /\ "base64" \in flaws -> 400
      [] method = "POST" /\ "large" \in flaws -> 413
      [] method = "POST" /\ "type" \in flaws -> 415
      [] flaws \cap {"empty", "malformed"} # {} -> 400
      [] OTHER -> None

Flaws(method) ==
    {"empty", "malformed"} \cup (IF method = "GET" THEN {"base64"} ELSE {"large", "type"})

\* handle_get or handle_post, up to the call of handle_request.
ArriveDoh(r, method, flaws) ==
    /\ pc[r] = "idle" /\ r \in Doh
    /\ LET s == HttpStatus(method, flaws) IN
       /\ status' = [status EXCEPT ![r] = s]
       /\ Goto(r, IF s = None THEN "request" ELSE "done")
    /\ UNCHANGED <<reply, cause, encoded, slot, count, responses, logVars>>

\* hickory parsed a message from a socket (UDP, TCP, DoT or DoQ).
ArrivePlain(r) ==
    /\ pc[r] = "idle" /\ r \notin Doh
    /\ Goto(r, "request")
    /\ UNCHANGED <<reply, cause, encoded, slot, status, count, responses, logVars>>

-----------------------------------------------------------------------------
(* handle_request. *)

\* request_info() fails: not exactly one question.  Not counted as a query.
FormErr(r) ==
    /\ pc[r] = "request"
    /\ Decide(r, "FORMERR", "Rejected")
    /\ Goto(r, "disk")
    /\ UNCHANGED <<cause, encoded, slot, status, count, responses, logVars>>

\* inc_queries and inc_query_qtype.
CountQuery(r) ==
    /\ pc[r] = "request"
    /\ Inc({"queries"})
    /\ Goto(r, "gates")
    /\ UNCHANGED <<reply, cause, encoded, slot, status, responses, logVars>>

\* The first gate that decides.
Gate(r, v) ==
    /\ pc[r] = "gates"
    /\ Inc({v[1]})
    /\ Decide(r, v[2], v[3])
    /\ Goto(r, "disk")
    /\ UNCHANGED <<cause, encoded, slot, status, responses, logVars>>

\* No gate decides; the bypass is counted if it made the difference.
Forward(r, bypass) ==
    /\ pc[r] = "gates"
    /\ Inc({"resolver_queries"} \cup (IF bypass THEN {"policy_blocklist_bypass"} ELSE {}))
    /\ Goto(r, "upstream")
    /\ UNCHANGED <<reply, cause, encoded, slot, status, responses, logVars>>

\* The resolver answers; the records with private addresses that it took out are
\* counted one by one, before anything is looked for in the rest.
Answer(r, n) ==
    /\ pc[r] = "upstream"
    /\ count' = [count EXCEPT !["private_rdata_dropped"] = @ + n]
    /\ Goto(r, "answered")
    /\ UNCHANGED <<reply, cause, encoded, slot, status, responses, logVars>>

\* The answer has passed: NOERROR, with records or without.
Served(r) ==
    /\ pc[r] = "answered"
    /\ Decide(r, "NOERROR", "Resolver")
    /\ Goto(r, "disk")
    /\ UNCHANGED <<cause, encoded, slot, status, count, responses, logVars>>

\* The name does not exist: no records, so none dropped and none to block.
NoSuchName(r) ==
    /\ pc[r] = "upstream"
    /\ Decide(r, "NXDOMAIN", "Resolver")
    /\ Goto(r, "disk")
    /\ UNCHANGED <<cause, encoded, slot, status, count, responses, logVars>>

\* Mutant: only the counter of the cause is incremented.
AnswerBlocked_causeOnly(r, c) ==
    /\ pc[r] = "answered"
    /\ cause' = [cause EXCEPT ![r] = c]
    /\ Goto(r, "cause")
    /\ UNCHANGED <<reply, encoded, slot, status, count, responses, logVars>>

\* The answer is blocked by a CNAME or by an address in it: one counter,
AnswerBlocked(r, c) ==
    /\ pc[r] = "answered"
    /\ Inc({"blocklist_hits"})
    /\ cause' = [cause EXCEPT ![r] = c]
    /\ Goto(r, "cause")
    /\ UNCHANGED <<reply, encoded, slot, status, responses, logVars>>

\* then the other.  build_block_response gives NXDOMAIN, REFUSED or the sinkhole.
CountCause(r, code) ==
    /\ pc[r] = "cause"
    /\ Inc({cause[r]})
    /\ Decide(r, code, "Blocklist")
    /\ Goto(r, "disk")
    /\ UNCHANGED <<cause, encoded, slot, status, responses, logVars>>

\* Every error of the resolver is SERVFAIL.
Failed(r) ==
    /\ pc[r] = "upstream"
    /\ Inc({"resolver_failures"})
    /\ Decide(r, "SERVFAIL", "ServerFailure")
    /\ Goto(r, "disk")
    /\ UNCHANGED <<cause, encoded, slot, status, responses, logVars>>

\* The client hangs up, or its server is dropped, at the one await that can
\* take time: the future is dropped there.
HangUp(r) ==
    /\ pc[r] = "upstream"
    /\ Goto(r, "gone")
    /\ UNCHANGED <<reply, cause, encoded, slot, status, count, responses, logVars>>

-----------------------------------------------------------------------------
(* finish: QueryLog::record, then respond. *)

Entry(r) == <<r, <<Low(reply[r][1]), reply[r][2]>>>>
DiskOff == disk = None

\* Mutant: an entry that finds the channel full is not kept in memory either.
SendToDisk_gated(r) ==
    /\ pc[r] = "disk"
    /\ IF DiskOff
         THEN UNCHANGED <<disk, taken, count>> /\ Goto(r, "ring")
         ELSE IF Len(disk) < ChannelCap
         THEN /\ disk' = Append(disk, Entry(r))
              /\ taken' = Append(taken, Entry(r))
              /\ UNCHANGED count
              /\ Goto(r, "ring")
         ELSE UNCHANGED <<disk, taken>> /\ Inc({"disk_dropped"}) /\ Goto(r, "respond")
    /\ UNCHANGED <<reply, cause, encoded, slot, status, responses, ring, capacity, pushed>>

\* try_send: a full channel costs the disk stream this entry.
SendToDisk(r) ==
    /\ pc[r] = "disk"
    /\ IF DiskOff
         THEN UNCHANGED <<disk, taken, count>>
         ELSE IF Len(disk) < ChannelCap
         THEN /\ disk' = Append(disk, Entry(r))
              /\ taken' = Append(taken, Entry(r))
              /\ UNCHANGED count
         ELSE UNCHANGED <<disk, taken>> /\ Inc({"disk_dropped"})
    /\ Goto(r, "ring")
    /\ UNCHANGED <<reply, cause, encoded, slot, status, responses, ring, capacity, pushed>>

\* Mutant: the ring grows one entry past its capacity.
Pushed_late(e) == Append(IF Len(ring) > capacity THEN Tail(ring) ELSE ring, e)

\* pop_front if the ring is full, push_back.
Pushed(e) == Append(IF Len(ring) = capacity THEN Tail(ring) ELSE ring, e)

\* The second half of record, under the mutex.  Another query may have pushed
\* since this one was handed to the disk writer.
PushRing(r) ==
    /\ pc[r] = "ring"
    /\ IF capacity = 0
         THEN UNCHANGED <<ring, pushed>>
         ELSE ring' = Pushed(Entry(r)) /\ pushed' = Append(pushed, Entry(r))
    /\ Goto(r, "respond")
    /\ UNCHANGED <<reply, cause, encoded, slot, status, count, responses, capacity, disk, taken>>

\* respond counts the code, whatever becomes of the response.
CountResponse(r) ==
    /\ pc[r] = "respond"
    /\ responses' = [responses EXCEPT ![reply[r][1]] = @ + 1]
    /\ Goto(r, "send")
    /\ UNCHANGED <<reply, cause, encoded, slot, status, count, logVars>>

\* Mutant: the sender is used before the message is encoded.
SendResponse_early(r, encodes) ==
    /\ pc[r] = "send"
    /\ encoded' = [encoded EXCEPT ![r] = encodes]
    /\ slot' = IF r \in Doh THEN [slot EXCEPT ![r] = reply[r]] ELSE slot
    /\ Goto(r, IF r \in Doh THEN "wait" ELSE "done")
    /\ UNCHANGED <<reply, cause, status, count, responses, logVars>>

\* send_response: over DoH the encoded message goes into the channel; a message
\* that cannot be encoded leaves it empty, and its sender is dropped with the
\* handler.  A plain response is sent, or lost with a warning.
SendResponse(r, encodes) ==
    /\ pc[r] = "send"
    /\ encoded' = [encoded EXCEPT ![r] = encodes]
    /\ slot' = IF r \in Doh /\ encodes THEN [slot EXCEPT ![r] = reply[r]] ELSE slot
    /\ Goto(r, IF r \in Doh THEN "wait" ELSE "done")
    /\ UNCHANGED <<reply, cause, status, count, responses, logVars>>

\* Mutant: only a message ends the wait.
AnswerHttp_filled(r) ==
    /\ pc[r] = "wait"
    /\ slot[r] # None
    /\ status' = [status EXCEPT ![r] = 200]
    /\ Goto(r, "done")
    /\ UNCHANGED <<reply, cause, encoded, slot, count, responses, logVars>>

\* The handler has returned, so the channel holds the bytes or has lost its
\* sender: the deadline around it cannot pass.
AnswerHttp(r) ==
    /\ pc[r] = "wait"
    /\ status' = [status EXCEPT ![r] = IF slot[r] = None THEN 500 ELSE 200]
    /\ Goto(r, "done")
    /\ UNCHANGED <<reply, cause, encoded, slot, count, responses, logVars>>

-----------------------------------------------------------------------------
(* The readers of the two sinks. *)

\* The disk writer takes the oldest entry.
WriterTakes ==
    /\ ~DiskOff /\ disk # <<>>
    /\ disk' = Tail(disk)
    /\ UNCHANGED <<requestVars, count, responses, ring, capacity, pushed, taken>>

\* queries_handler: the snapshot is newest first, and cut to the cap.
QueriesHandler(s) == SubSeq(Reverse(s), 1, Min({Len(s), MaxRendered}))

RequestStep(r) ==
    \/ FormErr(r)
    \/ CountQuery(r)
    \/ \E v \in Verdicts : Gate(r, v)
    \/ \E bypass \in BOOLEAN : Forward(r, bypass)
    \/ \E n \in Dropped : Answer(r, n)
    \/ NoSuchName(r)
    \/ Served(r)
    \/ \E c \in Causes : AnswerBlocked(r, c)
    \/ \E code \in {"NOERROR", "NXDOMAIN", "REFUSED"} : CountCause(r, code)
    \/ Failed(r)
    \/ SendToDisk(r)
    \/ PushRing(r)
    \/ CountResponse(r)
    \/ \E encodes \in BOOLEAN : SendResponse(r, encodes)
    \/ AnswerHttp(r)

Ended(r) == pc[r] \in {"done", "gone"}

Next ==
    \/ \E r \in Requests, method \in {"GET", "POST"} :
          \E flaws \in SUBSET Flaws(method) : ArriveDoh(r, method, flaws)
    \/ \E r \in Requests : ArrivePlain(r) \/ HangUp(r) \/ RequestStep(r)
    \/ WriterTakes
    \/ (\A r \in Requests : Ended(r)) /\ UNCHANGED vars

Spec == Init /\ [][Next]_vars

\* A handler that runs goes on: the resolver answers within its timeouts, and
\* nothing else on the way waits for long.
FairSpec == Spec /\ \A r \in Requests : WF_vars(RequestStep(r))

-----------------------------------------------------------------------------
(* Properties. *)

\* Type invariant: no counter but the one of dropped records runs past the number
\* of queries, the ring and the channel stay within their capacities.
TypeOK ==
    /\ pc \in [Requests -> {"idle", "request", "gates", "upstream", "answered",
                            "cause", "disk", "ring", "respond", "send", "wait", "done", "gone"}]
    /\ reply \in [Requests -> Replies \cup {None}]
    /\ cause \in [Requests -> Causes \cup {None}]
    /\ encoded \in [Requests -> BOOLEAN \cup {None}]
    /\ slot \in [Requests -> Replies \cup {None}]
    /\ status \in [Requests -> {200, 400, 413, 415, 500, None}]
    /\ count \in [Counters -> Nat]
    /\ \A c \in PerQuery : count[c] <= Cardinality(Requests)
    /\ responses \in [Codes -> 0..Cardinality(Requests)]
    /\ capacity \in RingSizes /\ ring \in Seq(Entries) /\ Len(ring) <= capacity
    /\ disk = None \/ (disk \in Seq(Entries) /\ Len(disk) <= ChannelCap)
    /\ pushed \in Seq(Entries) /\ taken \in Seq(Entries)

\* Where the entries of a request are in the log, and how many of a source.
Positions(r) == {i \in 1..Len(pushed) : pushed[i][1] = r}
By(label) == Cardinality({i \in 1..Len(pushed) : pushed[i][2][2] = label})

At(places) == {r \in Requests : pc[r] \in places}
Logged == At({"respond", "send", "wait", "done"}) \ {r \in Requests : reply[r] = None}

\* Queries that were counted and whose response was not, and may never be.
Pending == At({"gates", "upstream", "answered", "cause", "gone"})
    \cup {r \in At({"disk", "ring", "respond"}) : reply[r][1] # "FORMERR"}

\* All responses.
Answered ==
    responses["NOERROR"] + responses["FORMERR"] + responses["SERVFAIL"] + responses["NXDOMAIN"]
    + responses["NOTIMP"] + responses["REFUSED"] + responses["BADVERS"]

\* The counters an operator compares add up at every moment: a query that was
\* received (dns_queries_total) is still on its way, was given up by its client,
\* or was answered, once (responses_by_rcode, counted in respond); FORMERR, which
\* has no question to count, is the only answer without a query.  Once the
\* queries that were counted are logged, the log and the counters tell the same
\* story for every source of an answer (served_by of an entry, and the counter of
\* the stage in handler.rs), however the threads interleaved.
CountersAgree ==
    /\ Answered = Cardinality(Logged \ At({"respond"}))
    /\ count["queries"] + responses["FORMERR"] = Answered + Cardinality(Pending)
    /\ capacity > 0 /\ At({"upstream", "answered", "cause", "disk", "ring"}) = {} =>
        /\ By("Authority") = count["authority_hits"]
        /\ By("Rewrite") = count["rewrite_hits"]
        /\ By("Blocklist") = count["blocklist_hits"]
        /\ By("ServerFailure") = count["resolver_failures"]
        /\ By("Resolver") + By("ServerFailure") + count["cname_cloaking_blocked"]
            + count["response_ip_blocked"] + Cardinality(At({"gone"}))
           = count["resolver_queries"]

\* A query is logged exactly once, before its response is counted, with the source
\* of its answer and the low bits of the code it is answered with (log_query takes
\* rcode.low(), so a BADVERS is logged as NOERROR while respond counts it as
\* BADVERS); a full disk channel costs the disk stream
\* a counted entry and the ring nothing (the comment in QueryLog::record); what
\* never became a query, or was given up, leaves no entry.  /queries shows the
\* latest entries, newest first, in the order in which the queries took the lock.
LoggedOnce ==
    /\ \A r \in Requests :
          IF r \in Logged /\ capacity > 0
            THEN \E i \in 1..Len(pushed) : Positions(r) = {i} /\ pushed[i] = Entry(r)
            ELSE Positions(r) = {}
    /\ ~DiskOff => Len(taken) + count["disk_dropped"]
                      = Cardinality(Logged \cup At({"ring"}))
    /\ QueriesHandler(ring)
          = SubSeq(Reverse(pushed), 1, Min({capacity, MaxRendered, Len(pushed)}))

\* A DoH client gets 200 with the reply that was logged and counted for its own
\* query, 500 only for a reply that could not be encoded, and anything else only
\* when no query came of its request (handle_dns_message).
DohAnswersAsLogged ==
    \A r \in Doh :
        /\ status[r] = 200 => encoded[r] = TRUE /\ slot[r] = reply[r] /\ r \in Logged
        /\ status[r] = 500 => encoded[r] = FALSE /\ r \in Logged
        /\ status[r] \in {400, 413, 415} => reply[r] = None /\ Positions(r) = {}
        /\ pc[r] = "done" => status[r] # None

\* Every request that arrived is answered or given up.
EveryRequestEnds == \A r \in Requests : pc[r] # "idle" ~> Ended(r)
=============================================================================
