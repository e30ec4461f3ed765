--------------------------- MODULE FrontendProofs ---------------------------
(***************************************************************************)
(* Proofs about Frontend for any number of queries side by side, any       *)
(* verdicts of the gates, any sizes of the ring, the channel and /queries. *)
(***************************************************************************)
EXTENDS Frontend, SequenceTheorems, FiniteSetTheorems, TLAPS

USE DEF requestVars, logVars, Goto, Decide

Places == {"idle", "request", "gates", "upstream", "answered", "cause", "disk",
           "ring", "respond", "send", "wait", "done", "gone"}

-----------------------------------------------------------------------------
(* Gates, replies and counters. *)

\* What a gate decides.
LEMMA GateFacts ==
    ASSUME NEW v \in Verdicts
    PROVE  /\ <<v[2], v[3]>> \in Replies /\ <<v[2], v[3]>> # None
           /\ v[2] \in Codes /\ v[2] # "FORMERR"
           /\ v[1] \in GateCounters \cup {None}
           /\ v[1] = "authority_hits" <=> v[3] = "Authority"
           /\ v[1] = "rewrite_hits" <=> v[3] = "Rewrite"
           /\ v[1] = "blocklist_hits" <=> v[3] = "Blocklist"
           /\ v[3] \notin {"Resolver", "ServerFailure"}
<1>1. v \in Gates /\ None \notin Replies
  BY FrontendAssumption
<1>2. None # "authority_hits" /\ None # "rewrite_hits" /\ None # "blocklist_hits"
  BY FrontendAssumption DEF Counters, GateCounters
<1>3. <<v[2], v[3]>> \in Replies
  BY <1>1 DEF Replies
<1>4. v[1] \in GateCounters \cup {None}
  BY <1>1 DEF Gates, GateCounters
<1>5. /\ v[2] \in Codes /\ v[2] # "FORMERR"
      /\ v[1] = "authority_hits" <=> v[3] = "Authority"
      /\ v[1] = "rewrite_hits" <=> v[3] = "Rewrite"
      /\ v[1] = "blocklist_hits" <=> v[3] = "Blocklist"
      /\ v[3] \notin {"Resolver", "ServerFailure"}
  BY <1>1, <1>2 DEF Gates, Codes
<1>6. QED
  BY <1>1, <1>3, <1>4, <1>5

\* The replies of the stages after the gates.
LEMMA ReplyFacts ==
    /\ <<"FORMERR", "Rejected">> \in Replies
    /\ <<"SERVFAIL", "ServerFailure">> \in Replies
    /\ \A code \in {"NOERROR", "NXDOMAIN"} : <<code, "Resolver">> \in Replies
    /\ \A code \in {"NOERROR", "NXDOMAIN", "REFUSED"} : <<code, "Blocklist">> \in Replies
    /\ None \notin Replies
<1>1. <<"blocklist_hits", "NOERROR", "Blocklist">> \in Gates
      /\ <<"blocklist_hits", "NXDOMAIN", "Blocklist">> \in Gates
      /\ <<"blocklist_hits", "REFUSED", "Blocklist">> \in Gates
  BY DEF Gates
<1>2. \A g \in Gates : <<g[2], g[3]>> \in Replies
  BY DEF Replies
<1>3. /\ <<"NOERROR", "Blocklist">> \in Replies /\ <<"NXDOMAIN", "Blocklist">> \in Replies
      /\ <<"REFUSED", "Blocklist">> \in Replies
  BY <1>1, <1>2
<1>4. QED
  BY <1>3, FrontendAssumption DEF Replies

\* The first part of a reply is a code.
LEMMA ReplyCode == \A x \in Replies : x[1] \in Codes /\ x = <<x[1], x[2]>>
<1>1. \A g \in Gates : g[2] \in Codes
  BY DEF Gates, Codes
<1>2. QED
  BY <1>1 DEF Replies, Codes

\* What Inc does to the counters.
LEMMA IncFacts ==
    ASSUME NEW cs, count \in [Counters -> Nat], Inc(cs)
    PROVE  /\ count' \in [Counters -> Nat]
           /\ \A c \in Counters : c \in cs => count'[c] = count[c] + 1
           /\ \A c \in Counters : c \notin cs => count'[c] = count[c]
BY DEF Inc

\* The counters the properties speak of.
LEMMA CounterNames ==
    /\ {"queries", "resolver_queries", "resolver_failures", "policy_blocklist_bypass",
        "disk_dropped", "cname_cloaking_blocked", "response_ip_blocked",
        "authority_hits", "rewrite_hits", "blocklist_hits"} \subseteq PerQuery
    /\ PerQuery \subseteq Counters /\ "private_rdata_dropped" \in Counters \ PerQuery
    /\ None \notin Counters
<1>1. None \notin Counters
  BY FrontendAssumption
<1>2. QED
  BY <1>1 DEF PerQuery, Counters, Causes, GateCounters

\* An answer adds to the counter of dropped records, and to no other.
LEMMA AnswerFacts ==
    ASSUME NEW r, NEW n \in Dropped, count \in [Counters -> Nat], Answer(r, n)
    PROVE  /\ count' \in [Counters -> Nat]
           /\ \A c \in PerQuery : count'[c] = count[c]
<1>1. n \in Nat
  BY FrontendAssumption
<1>2. QED
  BY <1>1, CounterNames DEF Answer, PerQuery

-----------------------------------------------------------------------------
(* Types, and what is known of one request at each place. *)

Types ==
    /\ pc \in [Requests -> Places]
    /\ reply \in [Requests -> Replies \cup {None}]
    /\ cause \in [Requests -> Causes \cup {None}]
    /\ encoded \in [Requests -> BOOLEAN \cup {None}]
    /\ slot \in [Requests -> Replies \cup {None}]
    /\ status \in [Requests -> {200, 400, 413, 415, 500, None}]
    /\ count \in [Counters -> Nat]
    /\ responses \in [Codes -> Nat]
    /\ capacity \in RingSizes /\ ring \in Seq(Entries)
    /\ disk = None \/ (disk \in Seq(Entries) /\ Len(disk) <= ChannelCap)
    /\ pushed \in Seq(Entries) /\ taken \in Seq(Entries)

\* A reply is decided exactly between the gates and the end; a status is given
\* at the end, from what the oneshot channel holds.
Decided(r) ==
    /\ pc[r] \in {"idle", "request", "gates", "upstream", "answered", "cause", "gone"}
          => reply[r] = None
    /\ pc[r] \in {"disk", "ring", "respond", "send", "wait"} => reply[r] # None
    /\ pc[r] = "done" /\ r \notin Doh => reply[r] # None
    /\ pc[r] = "cause" => cause[r] # None
    /\ pc[r] # "done" => status[r] = None
Exchanged(r) ==
    /\ pc[r] \notin {"wait", "done"} => slot[r] = None
    /\ pc[r] = "wait" =>
          \/ encoded[r] = TRUE /\ slot[r] = reply[r]
          \/ encoded[r] = FALSE /\ slot[r] = None
    /\ pc[r] = "done" /\ r \in Doh =>
          \/ status[r] = 200 /\ encoded[r] = TRUE /\ slot[r] = reply[r] /\ reply[r] # None
          \/ status[r] = 500 /\ encoded[r] = FALSE /\ reply[r] # None
          \/ status[r] \in {400, 413, 415} /\ reply[r] = None
Known(r) == Decided(r) /\ Exchanged(r)
BaseInv == Types /\ \A r \in Requests : Known(r)

\* Nothing of another request changes.
Others(r) == \A x \in Requests \ {r} :
    /\ pc'[x] = pc[x] /\ reply'[x] = reply[x] /\ cause'[x] = cause[x]
    /\ encoded'[x] = encoded[x] /\ slot'[x] = slot[x] /\ status'[x] = status[x]

\* What one request does leaves the others as they were.
LEMMA KnownFrame ==
    ASSUME NEW r \in Requests, \A x \in Requests : Known(x), Others(r), Known(r)'
    PROVE  \A x \in Requests : Known(x)'
<1> SUFFICES ASSUME NEW x \in Requests PROVE Known(x)'
  OBVIOUS
<1>1. CASE x = r
  BY <1>1
<1>2. CASE x # r
  BY <1>2 DEF Known, Decided, Exchanged, Others
<1>3. QED
  BY <1>1, <1>2

\* The statuses of a refusal.
LEMMA HttpStatusType ==
    ASSUME NEW method, NEW flaws
    PROVE  HttpStatus(method, flaws) \in {400, 413, 415, None}
BY DEF HttpStatus

\* A request arrives, or its client hangs up.
LEMMA ArriveKnown ==
    ASSUME BaseInv, NEW r \in Requests,
           \/ ArrivePlain(r) \/ HangUp(r)
           \/ \E method \in {"GET", "POST"} : \E flaws \in SUBSET Flaws(method) :
                 ArriveDoh(r, method, flaws)
    PROVE  Types' /\ Others(r) /\ Known(r)'
<1>1. CASE ArrivePlain(r)
  BY <1>1 DEF BaseInv, Types, Known, Decided, Exchanged, Others, ArrivePlain, Places
<1>2. CASE HangUp(r)
  BY <1>2 DEF BaseInv, Types, Known, Decided, Exchanged, Others, HangUp, Places
<1>3. ASSUME NEW method \in {"GET", "POST"}, NEW flaws \in SUBSET Flaws(method),
             ArriveDoh(r, method, flaws)
      PROVE  Types' /\ Others(r) /\ Known(r)'
  <2> DEFINE s == HttpStatus(method, flaws)
  <2>1. /\ s \in {400, 413, 415, None}
        /\ status' = [status EXCEPT ![r] = s]
        /\ pc' = [pc EXCEPT ![r] = IF s = None THEN "request" ELSE "done"]
    <3>1. s \in {400, 413, 415, None}
      BY HttpStatusType
    <3>2. QED
      BY <1>3, <3>1 DEF ArriveDoh
  <2> HIDE DEF s
  <2>2. /\ UNCHANGED <<reply, cause, encoded, slot, count, responses, logVars>>
        /\ pc[r] = "idle" /\ r \in Doh
    BY <1>3 DEF ArriveDoh
  <2>3. None \notin {400, 413, 415}
    BY FrontendAssumption
  <2>4. Types' /\ Others(r)
    BY <2>1, <2>2 DEF BaseInv, Types, Others, Places
  <2>5. reply[r] = None /\ slot[r] = None /\ reply'[r] = None /\ slot'[r] = None
    BY <2>2 DEF BaseInv, Known, Decided, Exchanged
  <2>6. pc'[r] = (IF s = None THEN "request" ELSE "done") /\ status'[r] = s
    BY <2>1 DEF BaseInv, Types
  <2>7. Known(r)'
    <3>1. s \in {400, 413, 415, None}
      BY <2>1
    <3>2. QED
      BY <2>2, <2>3, <2>5, <2>6, <3>1 DEF Known, Decided, Exchanged
  <2>8. QED
    BY <2>4, <2>7
<1>4. QED
  BY <1>1, <1>2, <1>3

\* A reply is decided on.
LEMMA DecideKnown ==
    ASSUME BaseInv, NEW r \in Requests, NEW x \in Replies, x # None,
           pc[r] \in {"request", "gates", "upstream", "answered", "cause"},
           reply' = [reply EXCEPT ![r] = x], pc' = [pc EXCEPT ![r] = "disk"],
           count' \in [Counters -> Nat],
           UNCHANGED <<cause, encoded, slot, status, responses, logVars>>
    PROVE  Types' /\ Others(r) /\ Known(r)'
<1>1. Types' /\ Others(r)
  BY DEF BaseInv, Types, Others, Places
<1>2. pc'[r] = "disk" /\ reply'[r] = x
  BY DEF BaseInv, Types
<1>3. slot'[r] = None /\ status'[r] = None
  BY DEF BaseInv, Known, Decided, Exchanged
<1>4. QED
  BY <1>1, <1>2, <1>3 DEF Known, Decided, Exchanged

\* A request goes on without a reply, which may find its answer blocked.
LEMMA OnwardKnown ==
    ASSUME BaseInv, NEW r \in Requests,
           \/ CountQuery(r) \/ \E bypass \in BOOLEAN : Forward(r, bypass)
           \/ \E n \in Dropped : Answer(r, n)
           \/ \E c \in Causes : AnswerBlocked(r, c)
    PROVE  Types' /\ Others(r) /\ Known(r)'
<1>1. CASE CountQuery(r)
  <2>1. count' \in [Counters -> Nat]
    BY <1>1, IncFacts DEF CountQuery, BaseInv, Types
  <2>2. QED
    BY <1>1, <2>1 DEF CountQuery, BaseInv, Types, Known, Decided, Exchanged, Others, Places
<1>2. ASSUME NEW bypass \in BOOLEAN, Forward(r, bypass) PROVE Types' /\ Others(r) /\ Known(r)'
  <2>1. PICK cs : Inc(cs)
    BY <1>2 DEF Forward
  <2>2. count' \in [Counters -> Nat]
    BY <2>1, IncFacts DEF BaseInv, Types
  <2>3. pc[r] = "gates" /\ pc' = [pc EXCEPT ![r] = "upstream"]
        /\ UNCHANGED <<reply, cause, encoded, slot, status, responses, logVars>>
    BY <1>2 DEF Forward
  <2>4. QED
    BY <2>2, <2>3 DEF BaseInv, Types, Known, Decided, Exchanged, Others, Places
<1>3. ASSUME NEW c \in Causes, AnswerBlocked(r, c) PROVE Types' /\ Others(r) /\ Known(r)'
  <2>1. count' \in [Counters -> Nat]
    BY <1>3, IncFacts DEF AnswerBlocked, BaseInv, Types
  <2>2. c # None
    BY CounterNames DEF Causes
  <2>3. QED
    BY <1>3, <2>1, <2>2
       DEF AnswerBlocked, BaseInv, Types, Known, Decided, Exchanged, Others, Places
<1>4. ASSUME NEW n \in Dropped, Answer(r, n) PROVE Types' /\ Others(r) /\ Known(r)'
  <2>1. count' \in [Counters -> Nat]
    BY <1>4, AnswerFacts DEF BaseInv, Types
  <2>2. QED
    BY <1>4, <2>1 DEF Answer, BaseInv, Types, Known, Decided, Exchanged, Others, Places
<1>5. QED
  BY <1>1, <1>2, <1>3, <1>4

\* The actions that decide on a reply.
LEMMA RepliesKnown ==
    ASSUME BaseInv, NEW r \in Requests,
           \/ FormErr(r) \/ Failed(r) \/ \E v \in Verdicts : Gate(r, v)
           \/ Served(r) \/ NoSuchName(r)
           \/ \E code \in {"NOERROR", "NXDOMAIN", "REFUSED"} : CountCause(r, code)
    PROVE  Types' /\ Others(r) /\ Known(r)'
<1>0. count \in [Counters -> Nat]
  BY DEF BaseInv, Types
<1>1. CASE FormErr(r)
  BY <1>0, <1>1, DecideKnown, ReplyFacts DEF FormErr
<1>2. CASE Failed(r)
  <2>1. count' \in [Counters -> Nat]
    BY <1>0, <1>2, IncFacts DEF Failed
  <2>2. QED
    BY <1>2, <2>1, DecideKnown, ReplyFacts DEF Failed
<1>3. ASSUME NEW v \in Verdicts, Gate(r, v) PROVE Types' /\ Others(r) /\ Known(r)'
  <2>1. count' \in [Counters -> Nat]
    BY <1>0, <1>3, IncFacts DEF Gate
  <2>2. QED
    BY <1>3, <2>1, DecideKnown, GateFacts DEF Gate
<1>4. CASE Served(r) \/ NoSuchName(r)
  BY <1>0, <1>4, DecideKnown, ReplyFacts DEF Served, NoSuchName
<1>5. ASSUME NEW code \in {"NOERROR", "NXDOMAIN", "REFUSED"}, CountCause(r, code)
      PROVE  Types' /\ Others(r) /\ Known(r)'
  <2>1. count' \in [Counters -> Nat]
    BY <1>0, <1>5, IncFacts DEF CountCause
  <2>2. <<code, "Blocklist">> \in Replies /\ <<code, "Blocklist">> # None
    BY ReplyFacts
  <2>3. QED
    BY <1>5, <2>1, <2>2, DecideKnown DEF CountCause
<1>6. QED
  BY <1>1, <1>2, <1>3, <1>4, <1>5

\* What happens to an entry of the log.
LEMMA EntryType ==
    ASSUME BaseInv, NEW r \in Requests, reply[r] # None
    PROVE  Entry(r) \in Entries /\ Entry(r)[1] = r /\ Entry(r)[2][2] = reply[r][2]
<1>1. reply[r] \in Replies
  BY DEF BaseInv, Types
<1>2. QED
  BY <1>1 DEF Entry, Entries

\* The two halves of record.
LEMMA RecordKnown ==
    ASSUME BaseInv, NEW r \in Requests, SendToDisk(r) \/ PushRing(r)
    PROVE  Types' /\ Others(r) /\ Known(r)'
<1>0. /\ count \in [Counters -> Nat] /\ ring \in Seq(Entries) /\ pushed \in Seq(Entries)
      /\ taken \in Seq(Entries) /\ capacity \in RingSizes
      /\ disk = None \/ (disk \in Seq(Entries) /\ Len(disk) <= ChannelCap)
      /\ RingSizes \subseteq Nat /\ ChannelCap \in Nat
  BY FrontendAssumption DEF BaseInv, Types
<1>1. CASE SendToDisk(r)
  <2>1. reply[r] # None /\ pc[r] = "disk" /\ pc' = [pc EXCEPT ![r] = "ring"]
        /\ UNCHANGED <<reply, cause, encoded, slot, status, responses, ring, capacity, pushed>>
    BY <1>1 DEF SendToDisk, BaseInv, Known, Decided
  <2>2. Entry(r) \in Entries
    BY <2>1, EntryType
  <2>3. /\ count' \in [Counters -> Nat] /\ taken' \in Seq(Entries)
        /\ disk' = None \/ (disk' \in Seq(Entries) /\ Len(disk') <= ChannelCap)
    <3>1. CASE DiskOff
      BY <1>0, <1>1, <3>1 DEF SendToDisk
    <3>2. CASE ~DiskOff /\ Len(disk) < ChannelCap
      <4>1. /\ disk' = Append(disk, Entry(r)) /\ taken' = Append(taken, Entry(r))
            /\ count' = count
        BY <1>1, <3>2 DEF SendToDisk
      <4>2. disk \in Seq(Entries) /\ Len(disk) \in Nat
        BY <1>0, <3>2, LenProperties DEF DiskOff
      <4>3. /\ Append(disk, Entry(r)) \in Seq(Entries) /\ Append(taken, Entry(r)) \in Seq(Entries)
            /\ Len(Append(disk, Entry(r))) = Len(disk) + 1
        BY <1>0, <2>2, <4>2, AppendProperties
      <4>4. Len(disk) + 1 <= ChannelCap
        BY <1>0, <3>2, <4>2
      <4>5. QED
        BY <1>0, <4>1, <4>3, <4>4
    <3>3. CASE ~DiskOff /\ ~(Len(disk) < ChannelCap)
      <4>1. Inc({"disk_dropped"}) /\ UNCHANGED <<disk, taken>>
        BY <1>1, <3>3 DEF SendToDisk
      <4>2. QED
        BY <1>0, <4>1, IncFacts
    <3>4. QED
      BY <3>1, <3>2, <3>3
  <2>4. Types' /\ Others(r)
    BY <2>1, <2>3 DEF BaseInv, Types, Others, Places
  <2>5. Known(r)'
    BY <2>1 DEF BaseInv, Types, Known, Decided, Exchanged
  <2>6. QED
    BY <2>4, <2>5
<1>2. CASE PushRing(r)
  <2>1. reply[r] # None /\ pc[r] = "ring" /\ pc' = [pc EXCEPT ![r] = "respond"]
        /\ UNCHANGED <<reply, cause, encoded, slot, status, count, responses, capacity, disk, taken>>
    BY <1>2 DEF PushRing, BaseInv, Known, Decided
  <2>2. Entry(r) \in Entries
    BY <2>1, EntryType
  <2>3. ring' \in Seq(Entries) /\ pushed' \in Seq(Entries)
    <3>1. CASE capacity = 0
      BY <1>0, <1>2, <3>1 DEF PushRing
    <3>2. CASE capacity # 0
      <4>1. ring' = Pushed(Entry(r)) /\ pushed' = Append(pushed, Entry(r))
        BY <1>2, <3>2 DEF PushRing
      <4>2. Append(pushed, Entry(r)) \in Seq(Entries) /\ Append(ring, Entry(r)) \in Seq(Entries)
        BY <1>0, <2>2, AppendProperties
      <4>3. Len(ring) = capacity => Append(Tail(ring), Entry(r)) \in Seq(Entries)
        <5>1. SUFFICES ASSUME Len(ring) = capacity PROVE Append(Tail(ring), Entry(r)) \in Seq(Entries)
          OBVIOUS
        <5>2. ring # <<>>
          BY <1>0, <3>2, <5>1, EmptySeq
        <5>3. Tail(ring) \in Seq(Entries)
          BY <1>0, <5>2, HeadTailProperties
        <5>4. QED
          BY <2>2, <5>3, AppendProperties
      <4>4. QED
        BY <4>1, <4>2, <4>3 DEF Pushed
    <3>3. QED
      BY <3>1, <3>2
  <2>4. Types' /\ Others(r)
    BY <2>1, <2>3 DEF BaseInv, Types, Others, Places
  <2>5. Known(r)'
    BY <2>1 DEF BaseInv, Types, Known, Decided, Exchanged
  <2>6. QED
    BY <2>4, <2>5
<1>3. QED
  BY <1>1, <1>2

\* The response is counted, sent, and answered over HTTP.
LEMMA RespondKnown ==
    ASSUME BaseInv, NEW r \in Requests,
           \/ CountResponse(r) \/ AnswerHttp(r)
           \/ \E encodes \in BOOLEAN : SendResponse(r, encodes)
    PROVE  Types' /\ Others(r) /\ Known(r)'
<1>1. CASE CountResponse(r)
  <2>1. reply[r] # None /\ pc[r] = "respond" /\ pc' = [pc EXCEPT ![r] = "send"]
        /\ UNCHANGED <<reply, cause, encoded, slot, status, count, logVars>>
    BY <1>1 DEF CountResponse, BaseInv, Known, Decided
  <2>2. reply[r] \in Replies
    BY <2>1 DEF BaseInv, Types
  <2>3. responses' \in [Codes -> Nat]
    <3>1. reply[r][1] \in Codes
      BY <2>2, ReplyCode
    <3>2. QED
      BY <1>1, <3>1 DEF CountResponse, BaseInv, Types
  <2>4. Types' /\ Others(r)
    BY <2>1, <2>3 DEF BaseInv, Types, Others, Places
  <2>5. Known(r)'
    BY <2>1 DEF BaseInv, Types, Known, Decided, Exchanged
  <2>6. QED
    BY <2>4, <2>5
<1>2. ASSUME NEW encodes \in BOOLEAN, SendResponse(r, encodes)
      PROVE  Types' /\ Others(r) /\ Known(r)'
  <2>1. /\ pc[r] = "send" /\ reply[r] # None /\ slot[r] = None /\ status[r] = None
        /\ reply[r] \in Replies
        /\ pc' = [pc EXCEPT ![r] = IF r \in Doh THEN "wait" ELSE "done"]
        /\ encoded' = [encoded EXCEPT ![r] = encodes]
        /\ UNCHANGED <<reply, cause, status, count, responses, logVars>>
    BY <1>2 DEF SendResponse, BaseInv, Types, Known, Decided, Exchanged
  <2>2. slot' = [slot EXCEPT ![r] = IF r \in Doh /\ encodes THEN reply[r] ELSE None]
    BY <1>2, <2>1 DEF SendResponse, BaseInv, Types
  <2>3. Types' /\ Others(r)
    BY <2>1, <2>2 DEF BaseInv, Types, Others, Places
  <2>4. /\ pc'[r] = (IF r \in Doh THEN "wait" ELSE "done") /\ encoded'[r] = encodes
        /\ slot'[r] = (IF r \in Doh /\ encodes THEN reply[r] ELSE None)
        /\ reply'[r] = reply[r] /\ status'[r] = None
    BY <2>1, <2>2 DEF BaseInv, Types
  <2>5. Decided(r)'
    BY <2>1, <2>4 DEF Decided
  <2>6. Exchanged(r)'
    <3>1. CASE encodes
      BY <2>4, <3>1 DEF Exchanged
    <3>2. CASE ~encodes
      BY <2>4, <3>2 DEF Exchanged
    <3>3. QED
      BY <3>1, <3>2
  <2>7. QED
    BY <2>3, <2>5, <2>6 DEF Known
<1>3. CASE AnswerHttp(r)
  <2>1. /\ pc[r] = "wait" /\ reply[r] # None /\ pc' = [pc EXCEPT ![r] = "done"]
        /\ status' = [status EXCEPT ![r] = IF slot[r] = None THEN 500 ELSE 200]
        /\ UNCHANGED <<reply, cause, encoded, slot, count, responses, logVars>>
    BY <1>3 DEF AnswerHttp, BaseInv, Known, Decided
  <2>2. \/ encoded[r] = TRUE /\ slot[r] = reply[r]
        \/ encoded[r] = FALSE /\ slot[r] = None
    BY <2>1 DEF BaseInv, Known, Exchanged
  <2>3. Types' /\ Others(r)
    BY <2>1 DEF BaseInv, Types, Others, Places
  <2>4. /\ pc'[r] = "done" /\ status'[r] = (IF slot[r] = None THEN 500 ELSE 200)
        /\ reply'[r] = reply[r] /\ slot'[r] = slot[r] /\ encoded'[r] = encoded[r]
    BY <2>1 DEF BaseInv, Types
  <2>5. Decided(r)'
    BY <2>1, <2>4 DEF Decided
  <2>6. Exchanged(r)'
    BY <2>1, <2>2, <2>4 DEF Exchanged
  <2>7. QED
    BY <2>3, <2>5, <2>6 DEF Known
<1>4. QED
  BY <1>1, <1>2, <1>3

\* A step of a request.
ArrivalStep(r) ==
    \/ ArrivePlain(r) \/ HangUp(r)
    \/ \E method \in {"GET", "POST"} : \E flaws \in SUBSET Flaws(method) :
          ArriveDoh(r, method, flaws)

\* A step is one of a request, one of the disk writer, or none at all.
LEMMA NextCases ==
    ASSUME [Next]_vars
    PROVE  \/ \E r \in Requests : ArrivalStep(r) \/ RequestStep(r)
           \/ WriterTakes
           \/ UNCHANGED vars
BY DEF Next, ArrivalStep

\* A step of a request keeps the types, what is known of it, and the others.
LEMMA StepKnown ==
    ASSUME BaseInv, NEW r \in Requests, ArrivalStep(r) \/ RequestStep(r)
    PROVE  Types' /\ Others(r) /\ Known(r)'
<1>1. CASE ArrivalStep(r)
  BY <1>1, ArriveKnown DEF ArrivalStep
<1>2. CASE RequestStep(r)
  <2>1. CASE \/ CountQuery(r) \/ \E bypass \in BOOLEAN : Forward(r, bypass)
             \/ \E n \in Dropped : Answer(r, n)
             \/ \E c \in Causes : AnswerBlocked(r, c)
    BY <2>1, OnwardKnown
  <2>2. CASE \/ FormErr(r) \/ Failed(r) \/ \E v \in Verdicts : Gate(r, v)
             \/ Served(r) \/ NoSuchName(r)
             \/ \E code \in {"NOERROR", "NXDOMAIN", "REFUSED"} : CountCause(r, code)
    BY <2>2, RepliesKnown
  <2>3. CASE SendToDisk(r) \/ PushRing(r)
    BY <2>3, RecordKnown
  <2>4. CASE \/ CountResponse(r) \/ AnswerHttp(r)
             \/ \E encodes \in BOOLEAN : SendResponse(r, encodes)
    BY <2>4, RespondKnown
  <2>5. QED
    BY <1>2, <2>1, <2>2, <2>3, <2>4 DEF RequestStep
<1>3. QED
  BY <1>1, <1>2

\* Every step keeps them.
LEMMA BaseStep == BaseInv /\ [Next]_vars => BaseInv'
<1> SUFFICES ASSUME BaseInv, [Next]_vars PROVE BaseInv'
  OBVIOUS
<1>1. ASSUME NEW r \in Requests, ArrivalStep(r) \/ RequestStep(r) PROVE BaseInv'
  <2>1. Types' /\ Others(r) /\ Known(r)'
    BY <1>1, StepKnown
  <2>2. QED
    BY <2>1, KnownFrame DEF BaseInv
<1>2. CASE WriterTakes
  <2>1. disk \in Seq(Entries) /\ disk # <<>> /\ Len(disk) <= ChannelCap /\ ChannelCap \in Nat
    BY <1>2, FrontendAssumption DEF WriterTakes, DiskOff, BaseInv, Types
  <2>2. Tail(disk) \in Seq(Entries) /\ Len(Tail(disk)) = Len(disk) - 1 /\ Len(disk) \in Nat
    BY <2>1, HeadTailProperties, LenProperties
  <2>3. Types'
    BY <1>2, <2>1, <2>2 DEF WriterTakes, BaseInv, Types
  <2>4. \A r \in Requests : Known(r)'
    BY <1>2 DEF WriterTakes, BaseInv, Known, Decided, Exchanged
  <2>5. QED
    BY <2>3, <2>4 DEF BaseInv
<1>3. CASE UNCHANGED vars
  BY <1>3 DEF vars, BaseInv, Types, Known, Decided, Exchanged
<1>4. QED
  BY <1>1, <1>2, <1>3, NextCases

\* The first state has the types, and every request is known to be idle.
LEMMA BaseInit == Init => BaseInv
<1> SUFFICES ASSUME Init PROVE BaseInv
  OBVIOUS
<1>1. <<>> \in Seq(Entries) /\ Len(<<>>) = 0 /\ ChannelCap \in Nat
  BY EmptySeq, FrontendAssumption
<1>2. disk = None \/ (disk \in Seq(Entries) /\ Len(disk) <= ChannelCap)
  <2>1. CASE disk = None
    BY <2>1
  <2>2. CASE disk = <<>>
    <3>1. Len(disk) = 0 /\ disk \in Seq(Entries)
      BY <1>1, <2>2
    <3>2. QED
      BY <1>1, <3>1
  <2>3. QED
    BY <2>1, <2>2 DEF Init
<1>3. ring \in Seq(Entries) /\ pushed \in Seq(Entries) /\ taken \in Seq(Entries)
  BY <1>1 DEF Init
<1>4. /\ pc \in [Requests -> Places] /\ reply \in [Requests -> Replies \cup {None}]
      /\ cause \in [Requests -> Causes \cup {None}]
      /\ encoded \in [Requests -> BOOLEAN \cup {None}]
      /\ slot \in [Requests -> Replies \cup {None}]
      /\ status \in [Requests -> {200, 400, 413, 415, 500, None}]
  BY DEF Init, Places
<1>5. /\ count \in [Counters -> Nat] /\ responses \in [Codes -> Nat]
      /\ capacity \in RingSizes
  BY DEF Init
<1>6. Types
  BY <1>2, <1>3, <1>4, <1>5 DEF Types
<1>7. \A r \in Requests : Known(r)
  BY DEF Init, Known, Decided, Exchanged
<1>8. QED
  BY <1>6, <1>7 DEF BaseInv

-----------------------------------------------------------------------------
(* Counting requests. *)

\* S becomes T, and they differ in r at most.
Shifts(r, S, T) ==
    /\ Cardinality(S) \in Nat /\ Cardinality(T) \in Nat
    /\ (r \in S <=> r \in T) => Cardinality(T) = Cardinality(S)
    /\ r \notin S /\ r \in T => Cardinality(T) = Cardinality(S) + 1
    /\ r \in S /\ r \notin T => Cardinality(S) = Cardinality(T) + 1

\* Two sets of requests that differ in one at most.
LEMMA ShiftsFact ==
    ASSUME NEW r \in Requests, NEW S \in SUBSET Requests, NEW T \in SUBSET Requests,
           \A x \in Requests \ {r} : x \in S <=> x \in T
    PROVE  Shifts(r, S, T)
<1>0. IsFiniteSet(S) /\ IsFiniteSet(T) /\ Cardinality(S) \in Nat /\ Cardinality(T) \in Nat
  BY FrontendAssumption, FS_Subset, FS_CardinalityType
<1>1. CASE r \in S <=> r \in T
  <2>1. S = T
    BY <1>1
  <2>2. QED
    BY <1>0, <1>1, <2>1 DEF Shifts
<1>2. CASE r \notin S /\ r \in T
  <2>1. T = S \cup {r}
    BY <1>2
  <2>2. Cardinality(T) = Cardinality(S) + 1
    BY <1>0, <1>2, <2>1, FS_AddElement
  <2>3. QED
    BY <1>0, <1>2, <2>2 DEF Shifts
<1>3. CASE r \in S /\ r \notin T
  <2>1. S = T \cup {r}
    BY <1>3
  <2>2. Cardinality(S) = Cardinality(T) + 1
    BY <1>0, <1>3, <2>1, FS_AddElement
  <2>3. QED
    BY <1>0, <1>3, <2>2 DEF Shifts
<1>4. QED
  BY <1>1, <1>2, <1>3

Sent == Logged \ At({"respond"})
Recorded == Logged \cup At({"ring"})
On(label) == {r \in At({"disk", "ring"}) : reply[r][2] = label}
Blocked == On("Blocklist") \cup At({"cause"})
Forwarded == On("Resolver") \cup On("ServerFailure") \cup At({"upstream", "answered", "cause"})

\* Which sets a request is in, by its place and its reply.
LEMMA Members ==
    ASSUME NEW r \in Requests
    PROVE  /\ \A P : r \in At(P) <=> pc[r] \in P
           /\ r \in Sent <=> pc[r] \in {"send", "wait", "done"} /\ reply[r] # None
           /\ r \in Recorded <=>
                 \/ pc[r] = "ring"
                 \/ pc[r] \in {"respond", "send", "wait", "done"} /\ reply[r] # None
           /\ r \in Logged <=>
                 pc[r] \in {"respond", "send", "wait", "done"} /\ reply[r] # None
           /\ r \in Pending <=>
                 \/ pc[r] \in {"gates", "upstream", "answered", "cause", "gone"}
                 \/ pc[r] \in {"disk", "ring", "respond"} /\ reply[r][1] # "FORMERR"
           /\ \A l : r \in On(l) <=> pc[r] \in {"disk", "ring"} /\ reply[r][2] = l
           /\ r \in Blocked <=>
                 pc[r] = "cause" \/ (pc[r] \in {"disk", "ring"} /\ reply[r][2] = "Blocklist")
           /\ r \in Forwarded <=>
                 \/ pc[r] \in {"upstream", "answered", "cause"}
                 \/ pc[r] \in {"disk", "ring"} /\ reply[r][2] \in {"Resolver", "ServerFailure"}
BY DEF At, Sent, Recorded, Logged, Pending, On, Blocked, Forwarded

\* The same after a step.
LEMMA MembersNext ==
    ASSUME NEW r \in Requests
    PROVE  /\ \A P : r \in At(P)' <=> pc'[r] \in P
           /\ r \in Sent' <=> pc'[r] \in {"send", "wait", "done"} /\ reply'[r] # None
           /\ r \in Recorded' <=>
                 \/ pc'[r] = "ring"
                 \/ pc'[r] \in {"respond", "send", "wait", "done"} /\ reply'[r] # None
           /\ r \in Logged' <=>
                 pc'[r] \in {"respond", "send", "wait", "done"} /\ reply'[r] # None
           /\ r \in Pending' <=>
                 \/ pc'[r] \in {"gates", "upstream", "answered", "cause", "gone"}
                 \/ pc'[r] \in {"disk", "ring", "respond"} /\ reply'[r][1] # "FORMERR"
           /\ \A l : r \in On(l)' <=> pc'[r] \in {"disk", "ring"} /\ reply'[r][2] = l
           /\ r \in Blocked' <=>
                 pc'[r] = "cause" \/ (pc'[r] \in {"disk", "ring"} /\ reply'[r][2] = "Blocklist")
           /\ r \in Forwarded' <=>
                 \/ pc'[r] \in {"upstream", "answered", "cause"}
                 \/ pc'[r] \in {"disk", "ring"} /\ reply'[r][2] \in {"Resolver", "ServerFailure"}
BY DEF At, Sent, Recorded, Logged, Pending, On, Blocked, Forwarded

\* A step of one request shifts each of these sets.
LEMMA SetsShift ==
    ASSUME NEW r \in Requests, Others(r)
    PROVE  /\ \A P : Shifts(r, At(P), At(P)')
           /\ Shifts(r, Sent, Sent') /\ Shifts(r, Recorded, Recorded')
           /\ Shifts(r, Pending, Pending')
           /\ \A l : Shifts(r, On(l), On(l)')
           /\ Shifts(r, Blocked, Blocked') /\ Shifts(r, Forwarded, Forwarded')
<1>1. ASSUME NEW P PROVE Shifts(r, At(P), At(P)')
  <2>1. \A x \in Requests \ {r} : x \in At(P) <=> x \in At(P)'
    BY DEF At, Others
  <2>2. At(P) \subseteq Requests /\ At(P)' \subseteq Requests
    BY DEF At
  <2>3. QED
    BY <2>1, <2>2, ShiftsFact
<1>2. ASSUME NEW l PROVE Shifts(r, On(l), On(l)')
  <2>1. \A x \in Requests \ {r} : x \in On(l) <=> x \in On(l)'
    BY DEF On, At, Others
  <2>2. On(l) \subseteq Requests /\ On(l)' \subseteq Requests
    BY DEF On, At
  <2>3. QED
    BY <2>1, <2>2, ShiftsFact
<1>3. Shifts(r, Sent, Sent')
  <2>1. \A x \in Requests \ {r} : x \in Sent <=> x \in Sent'
    BY DEF Sent, Logged, At, Others
  <2>2. Sent \subseteq Requests /\ Sent' \subseteq Requests
    BY DEF Sent, Logged, At
  <2>3. QED
    BY <2>1, <2>2, ShiftsFact
<1>4. Shifts(r, Recorded, Recorded')
  <2>1. \A x \in Requests \ {r} : x \in Recorded <=> x \in Recorded'
    BY DEF Recorded, Logged, At, Others
  <2>2. Recorded \subseteq Requests /\ Recorded' \subseteq Requests
    BY DEF Recorded, Logged, At
  <2>3. QED
    BY <2>1, <2>2, ShiftsFact
<1>5. Shifts(r, Pending, Pending')
  <2>1. \A x \in Requests \ {r} : x \in Pending <=> x \in Pending'
    BY DEF Pending, At, Others
  <2>2. Pending \subseteq Requests /\ Pending' \subseteq Requests
    BY DEF Pending, At
  <2>3. QED
    BY <2>1, <2>2, ShiftsFact
<1>6. Shifts(r, Blocked, Blocked')
  <2>1. \A x \in Requests \ {r} : x \in Blocked <=> x \in Blocked'
    BY DEF Blocked, On, At, Others
  <2>2. Blocked \subseteq Requests /\ Blocked' \subseteq Requests
    BY DEF Blocked, On, At
  <2>3. QED
    BY <2>1, <2>2, ShiftsFact
<1>7. Shifts(r, Forwarded, Forwarded')
  <2>1. \A x \in Requests \ {r} : x \in Forwarded <=> x \in Forwarded'
    BY DEF Forwarded, On, At, Others
  <2>2. Forwarded \subseteq Requests /\ Forwarded' \subseteq Requests
    BY DEF Forwarded, On, At
  <2>3. QED
    BY <2>1, <2>2, ShiftsFact
<1>8. QED
  BY <1>1, <1>2, <1>3, <1>4, <1>5, <1>6, <1>7

-----------------------------------------------------------------------------
(* The two sinks of the log. *)

\* A step that is not one of record leaves the log alone.
Quiet(r) ==
    /\ UNCHANGED logVars
    /\ count'["disk_dropped"] = count["disk_dropped"]
    /\ r \in Logged' <=> r \in Logged
    /\ r \in Recorded' <=> r \in Recorded
    /\ reply'[r] = reply[r] \/ (r \notin Logged /\ r \notin Logged')

\* What makes a step quiet.
LEMMA QuietFact ==
    ASSUME BaseInv, NEW r \in Requests, UNCHANGED logVars,
           count'["disk_dropped"] = count["disk_dropped"],
           \/ /\ pc[r] \in {"idle", "request", "gates", "upstream", "answered", "cause", "disk"}
              /\ \/ pc'[r] \in {"request", "gates", "upstream", "answered", "cause", "disk", "gone"}
                 \/ pc'[r] = "done" /\ reply'[r] = None
           \/ /\ pc[r] \in {"respond", "send", "wait"} /\ pc'[r] \in {"send", "wait", "done"}
              /\ reply'[r] = reply[r]
    PROVE  Quiet(r)
<1>1. r \in Logged' <=> r \in Logged
  BY Members, MembersNext
<1>2. r \in Recorded' <=> r \in Recorded
  BY Members, MembersNext
<1>3. reply'[r] = reply[r] \/ (r \notin Logged /\ r \notin Logged')
  BY Members, MembersNext
<1>4. QED
  BY <1>1, <1>2, <1>3 DEF Quiet

\* No counter of a gate, of a cause or of the resolver is the one of the channel.
LEMMA DroppedAlone ==
    ASSUME BaseInv, NEW cs, Inc(cs), "disk_dropped" \notin cs
    PROVE  count'["disk_dropped"] = count["disk_dropped"]
<1>1. count \in [Counters -> Nat] /\ "disk_dropped" \in Counters
  BY CounterNames DEF BaseInv, Types
<1>2. QED
  BY <1>1, IncFacts

\* All steps of a request but the two halves of record are quiet.
LEMMA QuietSteps ==
    ASSUME BaseInv, NEW r \in Requests, ArrivalStep(r) \/ RequestStep(r)
    PROVE  SendToDisk(r) \/ PushRing(r) \/ Quiet(r)
<1>0. pc \in [Requests -> Places] /\ reply \in [Requests -> Replies \cup {None}]
  BY DEF BaseInv, Types
<1>1. ASSUME ArrivalStep(r) PROVE Quiet(r)
  <2>1. CASE ArrivePlain(r) \/ HangUp(r)
    BY <1>0, <2>1, QuietFact DEF ArrivePlain, HangUp
  <2>2. ASSUME NEW method \in {"GET", "POST"}, NEW flaws \in SUBSET Flaws(method),
               ArriveDoh(r, method, flaws)
        PROVE  Quiet(r)
    <3>1. /\ pc[r] = "idle" /\ pc'[r] \in {"request", "done"}
          /\ UNCHANGED <<reply, cause, encoded, slot, count, responses, logVars>>
      BY <1>0, <2>2 DEF ArriveDoh
    <3>2. reply'[r] = None
      BY <3>1 DEF BaseInv, Known, Decided
    <3>3. QED
      BY <3>1, <3>2, QuietFact
  <2>3. QED
    BY <1>1, <2>1, <2>2 DEF ArrivalStep
<1>2. ASSUME RequestStep(r), ~SendToDisk(r), ~PushRing(r) PROVE Quiet(r)
  <2>1. CASE FormErr(r)
    BY <1>0, <2>1, QuietFact DEF FormErr
  <2>2. CASE CountQuery(r)
    <3>1. count'["disk_dropped"] = count["disk_dropped"]
      BY <2>2, DroppedAlone DEF CountQuery
    <3>2. QED
      BY <1>0, <2>2, <3>1, QuietFact DEF CountQuery
  <2>3. ASSUME NEW v \in Verdicts, Gate(r, v) PROVE Quiet(r)
    <3>1. v[1] # "disk_dropped"
      BY GateFacts, CounterNames DEF GateCounters
    <3>2. count'["disk_dropped"] = count["disk_dropped"]
      BY <2>3, <3>1, DroppedAlone DEF Gate
    <3>3. QED
      BY <1>0, <2>3, <3>2, QuietFact DEF Gate
  <2>4. ASSUME NEW bypass \in BOOLEAN, Forward(r, bypass) PROVE Quiet(r)
    <3>1. PICK cs : Inc(cs) /\ "disk_dropped" \notin cs
      BY <2>4 DEF Forward
    <3>2. count'["disk_dropped"] = count["disk_dropped"]
      BY <3>1, DroppedAlone
    <3>3. pc[r] = "gates" /\ pc'[r] = "upstream" /\ UNCHANGED logVars
      BY <1>0, <2>4 DEF Forward
    <3>4. QED
      BY <3>2, <3>3, QuietFact
  <2>5. CASE Served(r) \/ NoSuchName(r)
    BY <1>0, <2>5, QuietFact DEF Served, NoSuchName
  <2>a. ASSUME NEW n \in Dropped, Answer(r, n) PROVE Quiet(r)
    <3>1. count'["disk_dropped"] = count["disk_dropped"]
      BY <2>a, AnswerFacts, CounterNames DEF BaseInv, Types
    <3>2. QED
      BY <1>0, <2>a, <3>1, QuietFact DEF Answer
  <2>6. ASSUME NEW c, AnswerBlocked(r, c) PROVE Quiet(r)
    <3>1. count'["disk_dropped"] = count["disk_dropped"]
      BY <2>6, DroppedAlone DEF AnswerBlocked
    <3>2. QED
      BY <1>0, <2>6, <3>1, QuietFact DEF AnswerBlocked
  <2>7. ASSUME NEW code, CountCause(r, code) PROVE Quiet(r)
    <3>1. cause[r] # "disk_dropped"
      <4>1. cause[r] \in Causes
        BY <2>7 DEF CountCause, BaseInv, Types, Known, Decided
      <4>2. QED
        BY <4>1 DEF Causes
    <3>2. count'["disk_dropped"] = count["disk_dropped"]
      BY <2>7, <3>1, DroppedAlone DEF CountCause
    <3>3. QED
      BY <1>0, <2>7, <3>2, QuietFact DEF CountCause
  <2>8. CASE Failed(r)
    <3>1. count'["disk_dropped"] = count["disk_dropped"]
      BY <2>8, DroppedAlone DEF Failed
    <3>2. QED
      BY <1>0, <2>8, <3>1, QuietFact DEF Failed
  <2>9. CASE CountResponse(r) \/ AnswerHttp(r)
    BY <1>0, <2>9, QuietFact DEF CountResponse, AnswerHttp
  <2>10. ASSUME NEW encodes, SendResponse(r, encodes) PROVE Quiet(r)
    <3>1. /\ pc[r] = "send" /\ pc'[r] \in {"wait", "done"}
          /\ UNCHANGED <<reply, count, logVars>>
      BY <1>0, <2>10 DEF SendResponse
    <3>2. QED
      BY <3>1, QuietFact
  <2>11. QED
    BY <1>2, <2>1, <2>2, <2>3, <2>4, <2>5, <2>a, <2>6, <2>7, <2>8, <2>9, <2>10 DEF RequestStep
<1>3. QED
  BY <1>1, <1>2

\* The first part of LoggedOnce.
LogOf(r) ==
    IF r \in Logged /\ capacity > 0
      THEN \E i \in 1..Len(pushed) : Positions(r) = {i} /\ pushed[i] = Entry(r)
      ELSE Positions(r) = {}
\* The ring holds the latest entries in their order.
RingInv ==
    /\ Len(ring) = IF Len(pushed) < capacity THEN Len(pushed) ELSE capacity
    /\ \A i \in 1..Len(ring) : ring[i] = pushed[Len(pushed) - Len(ring) + i]
\* The channel took an entry, or the counter has it.
DiskInv == ~DiskOff => Len(taken) + count["disk_dropped"] = Cardinality(Recorded)
LogInv == (\A r \in Requests : LogOf(r)) /\ RingInv /\ DiskInv

\* What Append does to the entries and their positions.
LEMMA AppendFacts ==
    ASSUME NEW S, NEW s \in Seq(S), NEW e \in S
    PROVE  /\ Len(s) \in Nat /\ Len(Append(s, e)) = Len(s) + 1
           /\ Append(s, e)[Len(s) + 1] = e
           /\ \A i \in 1..Len(s) : Append(s, e)[i] = s[i]
BY AppendProperties, LenProperties

\* An entry of r is pushed: r has one, the others what they had.
LEMMA PushPositions ==
    ASSUME BaseInv, NEW r \in Requests, reply[r] # None, pushed' = Append(pushed, Entry(r))
    PROVE  /\ Len(pushed) \in Nat /\ Len(pushed') = Len(pushed) + 1
           /\ \A i \in 1..Len(pushed) : pushed'[i] = pushed[i]
           /\ pushed'[Len(pushed) + 1] = Entry(r)
           /\ Positions(r)' = Positions(r) \cup {Len(pushed) + 1}
           /\ \A x \in Requests \ {r} : Positions(x)' = Positions(x)
<1>0. pushed \in Seq(Entries) /\ Entry(r) \in Entries /\ Entry(r)[1] = r
  BY EntryType DEF BaseInv, Types
<1>1. /\ Len(pushed) \in Nat /\ Len(pushed') = Len(pushed) + 1
      /\ \A i \in 1..Len(pushed) : pushed'[i] = pushed[i]
      /\ pushed'[Len(pushed) + 1] = Entry(r)
  BY <1>0, AppendFacts
<1>2. 1..Len(pushed') = (1..Len(pushed)) \cup {Len(pushed) + 1}
  BY <1>1
<1>3. \A x : Positions(x)' = {i \in 1..Len(pushed') : pushed'[i][1] = x}
  BY DEF Positions
<1>4. Positions(r)' = Positions(r) \cup {Len(pushed) + 1}
  BY <1>0, <1>1, <1>2, <1>3 DEF Positions
<1>5. ASSUME NEW x \in Requests \ {r} PROVE Positions(x)' = Positions(x)
  BY <1>0, <1>1, <1>2, <1>3 DEF Positions
<1>6. QED
  BY <1>1, <1>4, <1>5

\* The ring after a push.
LEMMA PushRingInv ==
    ASSUME BaseInv, RingInv, NEW r \in Requests, PushRing(r)
    PROVE  RingInv'
<1>0. /\ ring \in Seq(Entries) /\ pushed \in Seq(Entries) /\ capacity \in Nat
      /\ Len(ring) \in Nat /\ Len(pushed) \in Nat
  BY FrontendAssumption, LenProperties DEF BaseInv, Types
<1>1. CASE capacity = 0
  BY <1>1 DEF PushRing, RingInv
<1>2. CASE capacity # 0
  <2>1. ring' = Pushed(Entry(r)) /\ pushed' = Append(pushed, Entry(r)) /\ capacity' = capacity
    BY <1>2 DEF PushRing
  <2>2. reply[r] # None
    BY DEF PushRing, BaseInv, Known, Decided
  <2>3. Entry(r) \in Entries
    BY <2>2, EntryType
  <2>4. /\ Len(pushed') = Len(pushed) + 1 /\ pushed'[Len(pushed) + 1] = Entry(r)
        /\ \A i \in 1..Len(pushed) : pushed'[i] = pushed[i]
    BY <1>0, <2>1, <2>3, AppendFacts
  <2>5. CASE Len(ring) = capacity
    <3>1. ring # <<>>
      BY <1>0, <1>2, <2>5, EmptySeq
    <3>2. /\ Tail(ring) \in Seq(Entries) /\ Len(Tail(ring)) = Len(ring) - 1
          /\ \A i \in 1..Len(Tail(ring)) : Tail(ring)[i] = ring[i + 1]
      BY <1>0, <3>1, HeadTailProperties
    <3>3. ring' = Append(Tail(ring), Entry(r))
      BY <2>1, <2>5 DEF Pushed
    <3>4. /\ Len(ring') = Len(ring) /\ ring'[Len(ring)] = Entry(r)
          /\ \A i \in 1..Len(ring)-1 : ring'[i] = ring[i + 1]
      BY <1>0, <2>3, <3>2, <3>3, AppendFacts
    <3>5. Len(pushed) >= capacity
      BY <1>0, <2>5 DEF RingInv
    <3>6. ASSUME NEW i \in 1..Len(ring')
          PROVE  ring'[i] = pushed'[Len(pushed') - Len(ring') + i]
      <4>1. CASE i = Len(ring)
        BY <1>0, <2>4, <3>4, <4>1
      <4>2. CASE i \in 1..Len(ring)-1
        <5>1. i + 1 \in 1..Len(ring) /\ ring'[i] = ring[i + 1]
          BY <1>0, <3>4, <4>2
        <5>2. ring[i + 1] = pushed[Len(pushed) - Len(ring) + (i + 1)]
          BY <5>1 DEF RingInv
        <5>3. /\ Len(pushed) - Len(ring) + (i + 1) \in 1..Len(pushed)
              /\ Len(pushed) - Len(ring) + (i + 1) = Len(pushed') - Len(ring') + i
          BY <1>0, <2>4, <2>5, <3>4, <3>5, <4>2
        <5>4. QED
          BY <2>4, <5>1, <5>2, <5>3
      <4>3. i = Len(ring) \/ i \in 1..Len(ring)-1
        BY <1>0, <3>4
      <4>4. QED
        BY <4>1, <4>2, <4>3
    <3>7. Len(ring') = IF Len(pushed') < capacity' THEN Len(pushed') ELSE capacity'
      BY <1>0, <2>1, <2>4, <2>5, <3>4, <3>5
    <3>8. QED
      BY <3>6, <3>7 DEF RingInv
  <2>6. CASE Len(ring) # capacity
    <3>1. Len(pushed) < capacity /\ Len(ring) = Len(pushed)
      BY <1>0, <2>6 DEF RingInv
    <3>2. ring' = Append(ring, Entry(r))
      BY <2>1, <2>6 DEF Pushed
    <3>3. /\ Len(ring') = Len(ring) + 1 /\ ring'[Len(ring) + 1] = Entry(r)
          /\ \A i \in 1..Len(ring) : ring'[i] = ring[i]
      BY <1>0, <2>3, <3>2, AppendFacts
    <3>4. ASSUME NEW i \in 1..Len(ring')
          PROVE  ring'[i] = pushed'[Len(pushed') - Len(ring') + i]
      <4>0. Len(pushed') - Len(ring') + i = i
        BY <1>0, <2>4, <3>1, <3>3
      <4>1. CASE i = Len(ring) + 1
        BY <2>4, <3>1, <3>3, <4>0, <4>1
      <4>2. CASE i \in 1..Len(ring)
        <5>1. ring[i] = pushed[Len(pushed) - Len(ring) + i]
          BY <4>2 DEF RingInv
        <5>2. Len(pushed) - Len(ring) + i = i
          BY <1>0, <3>1, <4>2
        <5>3. ring'[i] = ring[i] /\ pushed'[i] = pushed[i]
          BY <2>4, <3>1, <3>3, <4>2
        <5>4. QED
          BY <4>0, <5>1, <5>2, <5>3
      <4>3. i = Len(ring) + 1 \/ i \in 1..Len(ring)
        BY <1>0, <3>3
      <4>4. QED
        BY <4>1, <4>2, <4>3
    <3>5. Len(ring') = IF Len(pushed') < capacity' THEN Len(pushed') ELSE capacity'
      BY <1>0, <2>1, <2>4, <3>1, <3>3
    <3>6. QED
      BY <3>4, <3>5 DEF RingInv
  <2>7. QED
    BY <2>5, <2>6
<1>3. QED
  BY <1>1, <1>2

\* A step of a request keeps what the log says of every request.
LEMMA LogOfStep ==
    ASSUME BaseInv, LogInv, NEW r \in Requests, ArrivalStep(r) \/ RequestStep(r)
    PROVE  \A x \in Requests : LogOf(x)'
<1>0. capacity' = capacity /\ capacity \in Nat /\ Others(r) /\ pc \in [Requests -> Places]
  <2>1. capacity' = capacity
    <3>1. SendToDisk(r) \/ PushRing(r) \/ Quiet(r)
      BY QuietSteps
    <3>2. QED
      BY <3>1 DEF SendToDisk, PushRing, Quiet
  <2>2. QED
    BY <2>1, FrontendAssumption, StepKnown DEF BaseInv, Types
<1>1. ASSUME NEW x \in Requests, pushed' = pushed, x \in Logged' <=> x \in Logged,
             x \in Logged => reply'[x] = reply[x]
      PROVE  LogOf(x)'
  <2>1. LogOf(x)
    BY DEF LogInv
  <2>2. QED
    BY <1>0, <1>1, <2>1 DEF LogOf, Positions, Entry
<1>2. ASSUME NEW x \in Requests \ {r}
      PROVE  (x \in Logged' <=> x \in Logged) /\ reply'[x] = reply[x]
  BY <1>0, <1>2 DEF Others, Logged, At
<1>3. CASE SendToDisk(r)
  <2>1. pushed' = pushed /\ pc[r] = "disk" /\ pc'[r] = "ring"
    BY <1>0, <1>3 DEF SendToDisk
  <2>2. r \notin Logged /\ r \notin Logged'
    BY <2>1, Members, MembersNext
  <2>3. QED
    BY <1>1, <1>2, <2>1, <2>2
<1>4. CASE PushRing(r)
  <2>1. pc[r] = "ring" /\ pc'[r] = "respond" /\ reply' = reply /\ reply[r] # None
    BY <1>0, <1>4 DEF PushRing, BaseInv, Known, Decided
  <2>2. r \notin Logged /\ r \in Logged'
    BY <2>1, Members, MembersNext
  <2>3. CASE capacity = 0
    <3>1. pushed' = pushed
      BY <1>4, <2>3 DEF PushRing
    <3>2. LogOf(r)'
      BY <1>0, <2>2, <2>3, <3>1 DEF LogInv, LogOf, Positions
    <3>3. QED
      BY <1>1, <1>2, <3>1, <3>2
  <2>4. CASE capacity # 0
    <3>1. pushed' = Append(pushed, Entry(r))
      BY <1>4, <2>4 DEF PushRing
    <3>2. /\ Len(pushed) \in Nat /\ Len(pushed') = Len(pushed) + 1
          /\ \A i \in 1..Len(pushed) : pushed'[i] = pushed[i]
          /\ pushed'[Len(pushed) + 1] = Entry(r)
          /\ Positions(r)' = Positions(r) \cup {Len(pushed) + 1}
          /\ \A x \in Requests \ {r} : Positions(x)' = Positions(x)
      BY <2>1, <3>1, PushPositions
    <3>3. LogOf(r)'
      <4>1. Positions(r) = {}
        BY <2>2 DEF LogInv, LogOf
      <4>2. Positions(r)' = {Len(pushed) + 1} /\ Len(pushed) + 1 \in 1..Len(pushed')
        BY <3>2, <4>1
      <4>3. pushed'[Len(pushed) + 1] = Entry(r)'
        BY <2>1, <3>2 DEF Entry
      <4>4. capacity' > 0
        BY <1>0, <2>4
      <4>5. QED
        BY <2>2, <4>2, <4>3, <4>4 DEF LogOf
    <3>4. ASSUME NEW x \in Requests \ {r} PROVE LogOf(x)'
      <4>1. Positions(x)' = Positions(x) /\ (x \in Logged' <=> x \in Logged) /\ Entry(x)' = Entry(x)
        BY <1>2, <3>2, <2>1 DEF Entry
      <4>2. LogOf(x)
        BY DEF LogInv
      <4>3. CASE x \in Logged /\ capacity > 0
        <5>1. PICK i \in 1..Len(pushed) : Positions(x) = {i} /\ pushed[i] = Entry(x)
          BY <4>2, <4>3 DEF LogOf
        <5>2. i \in 1..Len(pushed') /\ pushed'[i] = Entry(x)
          BY <3>2, <5>1
        <5>3. QED
          BY <1>0, <4>1, <4>3, <5>1, <5>2 DEF LogOf
      <4>4. CASE ~(x \in Logged /\ capacity > 0)
        BY <1>0, <4>1, <4>2, <4>4 DEF LogOf
      <4>5. QED
        BY <4>3, <4>4
    <3>5. QED
      BY <3>3, <3>4
  <2>5. QED
    BY <2>3, <2>4
<1>5. CASE Quiet(r)
  <2>1. pushed' = pushed
    BY <1>5 DEF Quiet
  <2>2. (r \in Logged' <=> r \in Logged) /\ (r \in Logged => reply'[r] = reply[r])
    BY <1>5 DEF Quiet
  <2>3. QED
    BY <1>1, <1>2, <2>1, <2>2
<1>6. QED
  BY <1>3, <1>4, <1>5, QuietSteps

\* A step of a request adds to the disk stream or to the counter of what it lost.
LEMMA DiskStep ==
    ASSUME BaseInv, DiskInv, NEW r \in Requests, ArrivalStep(r) \/ RequestStep(r)
    PROVE  DiskInv'
<1>0. /\ Shifts(r, Recorded, Recorded') /\ pc \in [Requests -> Places]
      /\ count \in [Counters -> Nat] /\ taken \in Seq(Entries) /\ Len(taken) \in Nat
      /\ count["disk_dropped"] \in Nat /\ "disk_dropped" \in Counters
  BY StepKnown, SetsShift, LenProperties, CounterNames DEF BaseInv, Types
<1>1. CASE SendToDisk(r)
  <2>1. pc[r] = "disk" /\ pc'[r] = "ring" /\ reply[r] # None
    BY <1>0, <1>1 DEF SendToDisk, BaseInv, Known, Decided
  <2>2. r \notin Recorded /\ r \in Recorded'
    BY <2>1, Members, MembersNext
  <2>3. Cardinality(Recorded') = Cardinality(Recorded) + 1 /\ Cardinality(Recorded) \in Nat
    BY <1>0, <2>2 DEF Shifts
  <2>4. CASE DiskOff
    BY <1>1, <2>4 DEF SendToDisk, DiskInv, DiskOff
  <2>5. CASE ~DiskOff /\ Len(disk) < ChannelCap
    <3>1. taken' = Append(taken, Entry(r)) /\ count' = count
      BY <1>1, <2>5 DEF SendToDisk
    <3>2. Len(taken') = Len(taken) + 1
      BY <1>0, <2>1, <3>1, EntryType, AppendFacts
    <3>3. Len(taken) + count["disk_dropped"] = Cardinality(Recorded)
      BY <2>5 DEF DiskInv
    <3>4. Len(taken') + count'["disk_dropped"] = Cardinality(Recorded')
      BY <1>0, <2>3, <3>1, <3>2, <3>3
    <3>5. QED
      BY <3>4 DEF DiskInv
  <2>6. CASE ~DiskOff /\ ~(Len(disk) < ChannelCap)
    <3>1. Inc({"disk_dropped"}) /\ taken' = taken
      BY <1>1, <2>6 DEF SendToDisk
    <3>2. count'["disk_dropped"] = count["disk_dropped"] + 1
      BY <1>0, <3>1, IncFacts
    <3>3. Len(taken) + count["disk_dropped"] = Cardinality(Recorded)
      BY <2>6 DEF DiskInv
    <3>4. Len(taken') + count'["disk_dropped"] = Cardinality(Recorded')
      BY <1>0, <2>3, <3>1, <3>2, <3>3
    <3>5. QED
      BY <3>4 DEF DiskInv
  <2>7. QED
    BY <2>4, <2>5, <2>6
<1>2. CASE PushRing(r)
  <2>1. pc[r] = "ring" /\ pc'[r] = "respond" /\ reply[r] # None /\ reply' = reply
        /\ UNCHANGED <<disk, taken, count>>
    BY <1>0, <1>2 DEF PushRing, BaseInv, Known, Decided
  <2>2. r \in Recorded /\ r \in Recorded'
    BY <2>1, Members, MembersNext
  <2>3. Cardinality(Recorded') = Cardinality(Recorded)
    BY <1>0, <2>2 DEF Shifts
  <2>4. QED
    BY <2>1, <2>3 DEF DiskInv, DiskOff
<1>3. CASE Quiet(r)
  <2>1. Cardinality(Recorded') = Cardinality(Recorded)
    BY <1>0, <1>3 DEF Quiet, Shifts
  <2>2. UNCHANGED <<disk, taken>> /\ count'["disk_dropped"] = count["disk_dropped"]
    BY <1>3 DEF Quiet
  <2>3. QED
    BY <2>1, <2>2 DEF DiskInv, DiskOff
<1>4. QED
  BY <1>1, <1>2, <1>3, QuietSteps

\* Nothing else disturbs the ring.
LEMMA LogFrame ==
    ASSUME LogInv, UNCHANGED <<pc, reply, ring, pushed, capacity>>
    PROVE  RingInv' /\ \A r \in Requests : LogOf(r)'
<1>1. RingInv'
  BY DEF LogInv, RingInv
<1>2. ASSUME NEW r \in Requests PROVE LogOf(r)'
  <2>1. Logged' = Logged
    BY DEF Logged, At
  <2>2. Positions(r)' = Positions(r) /\ Entry(r)' = Entry(r)
    BY DEF Positions, Entry
  <2>3. QED
    BY <2>1, <2>2 DEF LogInv, LogOf
<1>3. QED
  BY <1>1, <1>2

\* Every step keeps the log as it should be.
LEMMA LogStep == BaseInv /\ LogInv /\ [Next]_vars => LogInv'
<1> SUFFICES ASSUME BaseInv, LogInv, [Next]_vars PROVE LogInv'
  OBVIOUS
<1>1. ASSUME NEW r \in Requests, ArrivalStep(r) \/ RequestStep(r) PROVE LogInv'
  <2>1. RingInv'
    <3>1. CASE PushRing(r)
      BY <3>1, PushRingInv DEF LogInv
    <3>2. CASE SendToDisk(r)
      BY <3>2 DEF SendToDisk, LogInv, RingInv
    <3>3. CASE Quiet(r)
      BY <3>3 DEF Quiet, LogInv, RingInv
    <3>4. QED
      BY <1>1, <3>1, <3>2, <3>3, QuietSteps
  <2>2. QED
    BY <1>1, <2>1, LogOfStep, DiskStep DEF LogInv
<1>2. CASE WriterTakes
  <2>1. RingInv' /\ \A r \in Requests : LogOf(r)'
    <3>1. UNCHANGED <<pc, reply, ring, pushed, capacity>>
      BY <1>2 DEF WriterTakes
    <3>2. QED
      BY <3>1, LogFrame
  <2>2. ~DiskOff /\ UNCHANGED <<taken, count, pc, reply>>
    BY <1>2 DEF WriterTakes
  <2>3. DiskInv'
    BY <2>2 DEF LogInv, DiskInv, Recorded, Logged, At
  <2>4. QED
    BY <2>1, <2>3 DEF LogInv
<1>3. CASE UNCHANGED vars
  <2>1. RingInv' /\ \A r \in Requests : LogOf(r)'
    <3>1. UNCHANGED <<pc, reply, ring, pushed, capacity>>
      BY <1>3 DEF vars
    <3>2. QED
      BY <3>1, LogFrame
  <2>2. DiskInv'
    BY <1>3 DEF vars, LogInv, DiskInv, DiskOff, Recorded, Logged, At
  <2>3. QED
    BY <2>1, <2>2 DEF LogInv
<1>4. QED
  BY <1>1, <1>2, <1>3, NextCases

\* At the start the log is empty and nothing is recorded.
LEMMA LogInit == Init => LogInv
<1> SUFFICES ASSUME Init PROVE LogInv
  OBVIOUS
<1>1. Len(pushed) = 0 /\ Len(ring) = 0 /\ Len(taken) = 0 /\ capacity \in Nat
  BY FrontendAssumption, EmptySeq DEF Init
<1>2. Logged = {} /\ Recorded = {}
  BY DEF Init, Logged, Recorded, At
<1>3. \A r \in Requests : LogOf(r)
  BY <1>1, <1>2 DEF LogOf, Positions
<1>4. RingInv
  BY <1>1 DEF RingInv
<1>5. DiskInv
  <2>1. count["disk_dropped"] = 0
    BY CounterNames DEF Init
  <2>2. Cardinality(Recorded) = 0
    BY <1>2, FS_EmptySet
  <2>3. QED
    BY <1>1, <2>1, <2>2 DEF DiskInv
<1>6. QED
  BY <1>3, <1>4, <1>5 DEF LogInv

\* The smallest of two numbers, and of three.
LEMMA MinFacts ==
    ASSUME NEW a \in Nat, NEW b \in Nat, NEW c \in Nat
    PROVE  /\ Min({a, b}) = IF a <= b THEN a ELSE b
           /\ Min({a, b, c}) \in {a, b, c} /\ Min({a, b, c}) <= a
           /\ Min({a, b, c}) <= b /\ Min({a, b, c}) <= c
<1>1. \E x \in {a, b} : \A y \in {a, b} : x =< y
  OBVIOUS
<1>2. \E x \in {a, b, c} : \A y \in {a, b, c} : x =< y
  OBVIOUS
<1>3. Min({a, b}) \in {a, b} /\ \A y \in {a, b} : Min({a, b}) =< y
  BY <1>1 DEF Min
<1>4. Min({a, b, c}) \in {a, b, c} /\ \A y \in {a, b, c} : Min({a, b, c}) =< y
  BY <1>2 DEF Min
<1>5. QED
  BY <1>3, <1>4

\* /queries shows the latest entries, newest first.
LEMMA QueriesLatest ==
    ASSUME BaseInv, RingInv
    PROVE  QueriesHandler(ring)
              = SubSeq(Reverse(pushed), 1, Min({capacity, MaxRendered, Len(pushed)}))
<1>0. /\ ring \in Seq(Entries) /\ pushed \in Seq(Entries) /\ capacity \in Nat
      /\ Len(ring) \in Nat /\ Len(pushed) \in Nat /\ MaxRendered \in Nat
  BY FrontendAssumption, LenProperties DEF BaseInv, Types
<1> DEFINE k == Min({Len(ring), MaxRendered})
           m == Min({capacity, MaxRendered, Len(pushed)})
<1>1. k = m /\ k \in Nat /\ k <= Len(ring) /\ Len(ring) <= Len(pushed)
  <2>1. k = IF Len(ring) <= MaxRendered THEN Len(ring) ELSE MaxRendered
    BY <1>0, MinFacts
  <2>2. /\ m \in {capacity, MaxRendered, Len(pushed)}
        /\ m <= capacity /\ m <= MaxRendered /\ m <= Len(pushed)
    BY <1>0, MinFacts
  <2>3. Len(ring) = IF Len(pushed) < capacity THEN Len(pushed) ELSE capacity
    BY DEF RingInv
  <2> HIDE DEF k, m
  <2>4. QED
    BY <1>0, <2>1, <2>2, <2>3
<1> HIDE DEF k, m
<1>2. \A i \in 1..k : /\ Reverse(ring)[i] = ring[(Len(ring) - i) + 1]
                      /\ Reverse(pushed)[i] = pushed[(Len(pushed) - i) + 1]
  BY <1>0, <1>1 DEF Reverse
<1>3. \A i \in 1..k : Reverse(ring)[i] = Reverse(pushed)[i] /\ Reverse(ring)[i] \in Entries
  <2>1. SUFFICES ASSUME NEW i \in 1..k
                 PROVE  Reverse(ring)[i] = Reverse(pushed)[i] /\ Reverse(ring)[i] \in Entries
    OBVIOUS
  <2>2. (Len(ring) - i) + 1 \in 1..Len(ring)
    BY <1>0, <1>1
  <2>3. ring[(Len(ring) - i) + 1] = pushed[Len(pushed) - Len(ring) + ((Len(ring) - i) + 1)]
    BY <2>2 DEF RingInv
  <2>4. Len(pushed) - Len(ring) + ((Len(ring) - i) + 1) = (Len(pushed) - i) + 1
    BY <1>0, <1>1
  <2>5. ring[(Len(ring) - i) + 1] \in Entries
    BY <1>0, <2>2, ElementOfSeq
  <2>6. QED
    BY <1>2, <2>3, <2>4, <2>5
<1>4. /\ SubSeq(Reverse(ring), 1, k) \in Seq(Entries)
      /\ Len(SubSeq(Reverse(ring), 1, k)) = (IF 1 <= k THEN k - 1 + 1 ELSE 0)
      /\ \A i \in 1..k - 1 + 1 : SubSeq(Reverse(ring), 1, k)[i] = Reverse(ring)[1 + i - 1]
  BY <1>1, <1>3, SubSeqProperties
<1>5. /\ SubSeq(Reverse(pushed), 1, k) \in Seq(Entries)
      /\ Len(SubSeq(Reverse(pushed), 1, k)) = (IF 1 <= k THEN k - 1 + 1 ELSE 0)
      /\ \A i \in 1..k - 1 + 1 : SubSeq(Reverse(pushed), 1, k)[i] = Reverse(pushed)[1 + i - 1]
  BY <1>1, <1>3, SubSeqProperties
<1>6. \A i \in 1..Len(SubSeq(Reverse(ring), 1, k)) :
         SubSeq(Reverse(ring), 1, k)[i] = SubSeq(Reverse(pushed), 1, k)[i]
  BY <1>1, <1>3, <1>4, <1>5
<1>7. SubSeq(Reverse(ring), 1, k) = SubSeq(Reverse(pushed), 1, k)
  BY <1>4, <1>5, <1>6, SeqEqual
<1>8. QED
  BY <1>1, <1>7 DEF QueriesHandler, k, m

\* What the invariant says of the log.
LEMMA LogMeaning == BaseInv /\ LogInv => LoggedOnce
<1> SUFFICES ASSUME BaseInv, LogInv PROVE LoggedOnce
  OBVIOUS
<1>1. QueriesHandler(ring)
         = SubSeq(Reverse(pushed), 1, Min({capacity, MaxRendered, Len(pushed)}))
  BY QueriesLatest DEF LogInv
<1>2. ~DiskOff => Len(taken) + count["disk_dropped"] = Cardinality(Logged \cup At({"ring"}))
  BY DEF LogInv, DiskInv, Recorded
<1>3. \A r \in Requests : LogOf(r)
  BY DEF LogInv
<1>4. QED
  BY <1>1, <1>2, <1>3 DEF LoggedOnce, LogOf

\* Every query is logged exactly once, with the source of its reply and the low
\* bits of its code, in the ring and in the disk stream or its counter; /queries
\* shows the latest (log_query, QueryLog::record, queries_handler), for any number
\* of threads.
THEOREM LoggedAlways == Spec => []LoggedOnce
<1>1. Init => BaseInv /\ LogInv
  BY BaseInit, LogInit
<1>2. (BaseInv /\ LogInv) /\ [Next]_vars => (BaseInv /\ LogInv)'
  BY BaseStep, LogStep
<1>3. BaseInv /\ LogInv => LoggedOnce
  BY LogMeaning
<1>4. QED
  BY <1>1, <1>2, <1>3, PTL DEF Spec

\* A DoH client is answered as its own query was logged (handle_dns_message).
THEOREM DohAlways == Spec => []DohAnswersAsLogged
<1>1. Init => BaseInv /\ LogInv
  BY BaseInit, LogInit
<1>2. (BaseInv /\ LogInv) /\ [Next]_vars => (BaseInv /\ LogInv)'
  BY BaseStep, LogStep
<1>3. BaseInv /\ LogInv => DohAnswersAsLogged
  <2>1. SUFFICES ASSUME BaseInv, LogInv, NEW r \in Doh
        PROVE  /\ status[r] = 200 => encoded[r] = TRUE /\ slot[r] = reply[r] /\ r \in Logged
               /\ status[r] = 500 => encoded[r] = FALSE /\ r \in Logged
               /\ status[r] \in {400, 413, 415} => reply[r] = None /\ Positions(r) = {}
               /\ pc[r] = "done" => status[r] # None
    BY DEF DohAnswersAsLogged
  <2>2. r \in Requests /\ None \notin {200, 400, 413, 415, 500}
    BY FrontendAssumption
  <2>3. pc[r] # "done" => status[r] = None
    BY <2>1, <2>2 DEF BaseInv, Known, Decided
  <2>4. pc[r] = "done" =>
          \/ status[r] = 200 /\ encoded[r] = TRUE /\ slot[r] = reply[r] /\ reply[r] # None
          \/ status[r] = 500 /\ encoded[r] = FALSE /\ reply[r] # None
          \/ status[r] \in {400, 413, 415} /\ reply[r] = None
    BY <2>1, <2>2 DEF BaseInv, Known, Exchanged
  <2>5. pc[r] = "done" => (r \in Logged <=> reply[r] # None)
    BY <2>2, Members
  <2>6. r \notin Logged => Positions(r) = {}
    BY <2>1, <2>2 DEF LogInv, LogOf
  <2>7. QED
    BY <2>2, <2>3, <2>4, <2>5, <2>6
<1>4. QED
  BY <1>1, <1>2, <1>3, PTL DEF Spec

-----------------------------------------------------------------------------
(* What the counters see of a step. *)

Counts(cs) == \A c \in PerQuery : count'[c] = IF c \in cs THEN count[c] + 1 ELSE count[c]
Passes(r, p, q, cs) == pc[r] = p /\ pc'[r] = q /\ reply'[r] = reply[r] /\ Counts(cs)
Decides(r, p, cs, y) == pc[r] = p /\ pc'[r] = "disk" /\ reply'[r] = y /\ Counts(cs)

\* The way of a request up to its entry in the log, and after its response.
Walks(r) ==
    \/ \E q \in {"request", "done"} : Passes(r, "idle", q, {})
    \/ Decides(r, "request", {}, <<"FORMERR", "Rejected">>)
    \/ Passes(r, "request", "gates", {"queries"})
    \/ \E v \in Verdicts : Decides(r, "gates", {v[1]}, <<v[2], v[3]>>)
    \/ \E b \in {{}, {"policy_blocklist_bypass"}} :
          Passes(r, "gates", "upstream", {"resolver_queries"} \cup b)
    \/ Decides(r, "upstream", {}, <<"NXDOMAIN", "Resolver">>)
    \/ Passes(r, "upstream", "answered", {})
    \/ Decides(r, "answered", {}, <<"NOERROR", "Resolver">>)
    \/ Passes(r, "answered", "cause", {"blocklist_hits"})
    \/ \E code \in {"NOERROR", "NXDOMAIN", "REFUSED"}, k \in Causes :
          Decides(r, "cause", {k}, <<code, "Blocklist">>)
    \/ Decides(r, "upstream", {"resolver_failures"}, <<"SERVFAIL", "ServerFailure">>)
    \/ Passes(r, "upstream", "gone", {})
    \/ \E d \in {{}, {"disk_dropped"}} : Passes(r, "disk", "ring", d)
    \/ \E q \in {"wait", "done"} : Passes(r, "send", q, {})
    \/ Passes(r, "wait", "done", {})
Pushes(r) ==
    /\ Passes(r, "ring", "respond", {}) /\ UNCHANGED responses
    /\ pushed' = IF capacity = 0 THEN pushed ELSE Append(pushed, Entry(r))
Responds(r) ==
    /\ Passes(r, "respond", "send", {}) /\ UNCHANGED pushed
    /\ responses' = [responses EXCEPT ![reply[r][1]] = @ + 1]
Shape(r) ==
    /\ UNCHANGED capacity
    /\ (Walks(r) /\ UNCHANGED <<responses, pushed>>) \/ Pushes(r) \/ Responds(r)

\* Inc counts, and so does leaving the counters alone.
LEMMA CountsFact ==
    ASSUME BaseInv
    PROVE  /\ \A cs : Inc(cs) => Counts(cs)
           /\ UNCHANGED count => Counts({})
<1>1. count \in [Counters -> Nat] /\ PerQuery \subseteq Counters
  BY CounterNames DEF BaseInv, Types
<1>2. QED
  BY <1>1 DEF Inc, Counts

\* Every step of a request has such a shape.
LEMMA Shapes ==
    ASSUME BaseInv, NEW r \in Requests, ArrivalStep(r) \/ RequestStep(r)
    PROVE  Shape(r)
<1>0. pc \in [Requests -> Places] /\ reply \in [Requests -> Replies \cup {None}]
  BY DEF BaseInv, Types
<1>1. ASSUME ArrivalStep(r) PROVE Shape(r)
  <2>1. CASE ArrivePlain(r)
    BY <1>0, <2>1, CountsFact DEF ArrivePlain, Passes, Walks, Shape
  <2>2. CASE HangUp(r)
    BY <1>0, <2>2, CountsFact DEF HangUp, Passes, Walks, Shape
  <2>3. ASSUME NEW method \in {"GET", "POST"}, NEW flaws \in SUBSET Flaws(method),
               ArriveDoh(r, method, flaws)
        PROVE  Shape(r)
    <3>1. /\ pc[r] = "idle" /\ pc'[r] \in {"request", "done"}
          /\ UNCHANGED <<reply, cause, encoded, slot, count, responses, logVars>>
      BY <1>0, <2>3 DEF ArriveDoh
    <3>2. QED
      BY <3>1, CountsFact DEF Passes, Walks, Shape
  <2>4. QED
    BY <1>1, <2>1, <2>2, <2>3 DEF ArrivalStep
<1>2. ASSUME RequestStep(r) PROVE Shape(r)
  <2>1. CASE FormErr(r)
    <3>1. Decides(r, "request", {}, <<"FORMERR", "Rejected">>) /\ UNCHANGED <<responses, logVars>>
      BY <1>0, <2>1, CountsFact DEF FormErr, Decides
    <3>2. QED
      BY <3>1 DEF Walks, Shape
  <2>2. CASE CountQuery(r)
    <3>1. Passes(r, "request", "gates", {"queries"}) /\ UNCHANGED <<responses, logVars>>
      BY <1>0, <2>2, CountsFact DEF CountQuery, Passes
    <3>2. QED
      BY <3>1 DEF Walks, Shape
  <2>3. ASSUME NEW v \in Verdicts, Gate(r, v) PROVE Shape(r)
    <3>1. Decides(r, "gates", {v[1]}, <<v[2], v[3]>>) /\ UNCHANGED <<responses, logVars>>
      BY <1>0, <2>3, CountsFact DEF Gate, Decides
    <3>2. QED
      BY <3>1 DEF Walks, Shape
  <2>4. ASSUME NEW bypass \in BOOLEAN, Forward(r, bypass) PROVE Shape(r)
    <3>1. PICK b \in {{}, {"policy_blocklist_bypass"}} : Inc({"resolver_queries"} \cup b)
      BY <2>4 DEF Forward
    <3>2. Passes(r, "gates", "upstream", {"resolver_queries"} \cup b)
          /\ UNCHANGED <<responses, logVars>>
      BY <1>0, <2>4, <3>1, CountsFact DEF Forward, Passes
    <3>3. QED
      BY <3>2 DEF Walks, Shape
  <2>5. CASE Served(r)
    <3>1. Decides(r, "answered", {}, <<"NOERROR", "Resolver">>) /\ UNCHANGED <<responses, logVars>>
      BY <1>0, <2>5, CountsFact DEF Served, Decides
    <3>2. QED
      BY <3>1 DEF Walks, Shape
  <2>a. CASE NoSuchName(r)
    <3>1. Decides(r, "upstream", {}, <<"NXDOMAIN", "Resolver">>) /\ UNCHANGED <<responses, logVars>>
      BY <1>0, <2>a, CountsFact DEF NoSuchName, Decides
    <3>2. QED
      BY <3>1 DEF Walks, Shape
  <2>b. ASSUME NEW n \in Dropped, Answer(r, n) PROVE Shape(r)
    <3>1. Counts({})
      BY <2>b, AnswerFacts DEF Counts, BaseInv, Types
    <3>2. Passes(r, "upstream", "answered", {}) /\ UNCHANGED <<responses, logVars>>
      BY <1>0, <2>b, <3>1 DEF Answer, Passes
    <3>3. QED
      BY <3>2 DEF Walks, Shape
  <2>6. ASSUME NEW c \in Causes, AnswerBlocked(r, c) PROVE Shape(r)
    <3>1. Passes(r, "answered", "cause", {"blocklist_hits"}) /\ UNCHANGED <<responses, logVars>>
      BY <1>0, <2>6, CountsFact DEF AnswerBlocked, Passes
    <3>2. QED
      BY <3>1 DEF Walks, Shape
  <2>7. ASSUME NEW code \in {"NOERROR", "NXDOMAIN", "REFUSED"}, CountCause(r, code) PROVE Shape(r)
    <3>1. cause[r] \in Causes
      BY <2>7 DEF CountCause, BaseInv, Types, Known, Decided
    <3>2. Decides(r, "cause", {cause[r]}, <<code, "Blocklist">>) /\ UNCHANGED <<responses, logVars>>
      BY <1>0, <2>7, CountsFact DEF CountCause, Decides
    <3>3. QED
      BY <3>1, <3>2 DEF Walks, Shape
  <2>8. CASE Failed(r)
    <3>1. Decides(r, "upstream", {"resolver_failures"}, <<"SERVFAIL", "ServerFailure">>)
          /\ UNCHANGED <<responses, logVars>>
      BY <1>0, <2>8, CountsFact DEF Failed, Decides
    <3>2. QED
      BY <3>1 DEF Walks, Shape
  <2>9. CASE SendToDisk(r)
    <3>1. PICK d \in {{}, {"disk_dropped"}} : Counts(d)
      BY <2>9, CountsFact DEF SendToDisk
    <3>2. Passes(r, "disk", "ring", d) /\ UNCHANGED <<responses, capacity, pushed>>
      BY <1>0, <2>9, <3>1 DEF SendToDisk, Passes
    <3>3. QED
      BY <3>2 DEF Walks, Shape
  <2>10. CASE PushRing(r)
    <3>1. Passes(r, "ring", "respond", {}) /\ UNCHANGED <<responses, capacity>>
      BY <1>0, <2>10, CountsFact DEF PushRing, Passes
    <3>2. pushed' = IF capacity = 0 THEN pushed ELSE Append(pushed, Entry(r))
      BY <2>10 DEF PushRing
    <3>3. QED
      BY <3>1, <3>2 DEF Pushes, Shape
  <2>11. CASE CountResponse(r)
    <3>1. Passes(r, "respond", "send", {}) /\ UNCHANGED logVars
      BY <1>0, <2>11, CountsFact DEF CountResponse, Passes
    <3>2. responses' = [responses EXCEPT ![reply[r][1]] = @ + 1]
      BY <2>11 DEF CountResponse
    <3>3. QED
      BY <3>1, <3>2 DEF Responds, Shape
  <2>12. ASSUME NEW encodes \in BOOLEAN, SendResponse(r, encodes) PROVE Shape(r)
    <3>1. /\ pc[r] = "send" /\ pc'[r] \in {"wait", "done"}
          /\ UNCHANGED <<reply, count, responses, logVars>>
      BY <1>0, <2>12 DEF SendResponse
    <3>2. QED
      BY <3>1, CountsFact DEF Passes, Walks, Shape
  <2>13. CASE AnswerHttp(r)
    <3>1. Passes(r, "wait", "done", {}) /\ UNCHANGED <<responses, logVars>>
      BY <1>0, <2>13, CountsFact DEF AnswerHttp, Passes
    <3>2. QED
      BY <3>1 DEF Walks, Shape
  <2>14. QED
    BY <1>2, <2>1, <2>2, <2>3, <2>4, <2>5, <2>a, <2>b, <2>6, <2>7, <2>8, <2>9, <2>10, <2>11,
       <2>12, <2>13
       DEF RequestStep
<1>3. QED
  BY <1>1, <1>2

-----------------------------------------------------------------------------
(* Queries and responses. *)

SumInv ==
    /\ Answered = Cardinality(Sent)
    /\ count["queries"] + responses["FORMERR"] = Answered + Cardinality(Pending)

\* On its way to the log a request is counted when it becomes pending, and stays so.
LEMMA WalkSum ==
    ASSUME BaseInv, NEW r \in Requests, Walks(r)
    PROVE  /\ r \in Sent' <=> r \in Sent
           /\ \/ count'["queries"] = count["queries"] /\ (r \in Pending' <=> r \in Pending)
              \/ count'["queries"] = count["queries"] + 1 /\ r \notin Pending /\ r \in Pending'
<1>0. "queries" \in PerQuery /\ Decided(r)
  BY CounterNames DEF BaseInv, Known
<1> DEFINE Goal ==
      /\ r \in Sent' <=> r \in Sent
      /\ \/ count'["queries"] = count["queries"] /\ (r \in Pending' <=> r \in Pending)
         \/ count'["queries"] = count["queries"] + 1 /\ r \notin Pending /\ r \in Pending'
<1>1. ASSUME NEW cs, Counts(cs)
      PROVE  count'["queries"] = IF "queries" \in cs THEN count["queries"] + 1 ELSE count["queries"]
  BY <1>0, <1>1 DEF Counts
<1>2. ASSUME NEW q \in {"request", "done"}, Passes(r, "idle", q, {}) PROVE Goal
  BY <1>0, <1>1, <1>2, Members, MembersNext DEF Passes, Decided
<1>3. CASE Decides(r, "request", {}, <<"FORMERR", "Rejected">>)
  BY <1>1, <1>3, Members, MembersNext DEF Decides
<1>4. CASE Passes(r, "request", "gates", {"queries"})
  BY <1>1, <1>4, Members, MembersNext DEF Passes
<1>5. ASSUME NEW v \in Verdicts, Decides(r, "gates", {v[1]}, <<v[2], v[3]>>) PROVE Goal
  <2>1. v[1] # "queries" /\ v[2] # "FORMERR"
    BY GateFacts, CounterNames DEF GateCounters
  <2>2. QED
    BY <1>1, <1>5, <2>1, Members, MembersNext DEF Decides
<1>6. ASSUME NEW b \in {{}, {"policy_blocklist_bypass"}},
             Passes(r, "gates", "upstream", {"resolver_queries"} \cup b)
      PROVE  Goal
  BY <1>1, <1>6, Members, MembersNext DEF Passes
<1>7. CASE Decides(r, "upstream", {}, <<"NXDOMAIN", "Resolver">>)
  BY <1>1, <1>7, Members, MembersNext DEF Decides
<1>a. CASE Passes(r, "upstream", "answered", {})
  BY <1>1, <1>a, Members, MembersNext DEF Passes
<1>b. CASE Decides(r, "answered", {}, <<"NOERROR", "Resolver">>)
  BY <1>1, <1>b, Members, MembersNext DEF Decides
<1>8. CASE Passes(r, "answered", "cause", {"blocklist_hits"})
  BY <1>1, <1>8, Members, MembersNext DEF Passes
<1>9. ASSUME NEW code \in {"NOERROR", "NXDOMAIN", "REFUSED"}, NEW k \in Causes,
             Decides(r, "cause", {k}, <<code, "Blocklist">>)
      PROVE  Goal
  BY <1>1, <1>9, Members, MembersNext DEF Decides, Causes
<1>10. CASE Decides(r, "upstream", {"resolver_failures"}, <<"SERVFAIL", "ServerFailure">>)
  BY <1>1, <1>10, Members, MembersNext DEF Decides
<1>11. CASE Passes(r, "upstream", "gone", {})
  BY <1>1, <1>11, Members, MembersNext DEF Passes
<1>12. ASSUME NEW d \in {{}, {"disk_dropped"}}, Passes(r, "disk", "ring", d) PROVE Goal
  BY <1>1, <1>12, Members, MembersNext DEF Passes
<1>13. ASSUME NEW q \in {"wait", "done"}, Passes(r, "send", q, {}) PROVE Goal
  BY <1>1, <1>13, Members, MembersNext DEF Passes
<1>14. CASE Passes(r, "wait", "done", {})
  BY <1>1, <1>14, Members, MembersNext DEF Passes
<1>15. QED
  BY <1>2, <1>3, <1>4, <1>5, <1>6, <1>7, <1>a, <1>b, <1>8, <1>9, <1>10, <1>11, <1>12, <1>13,
     <1>14 DEF Walks

\* A response is counted under one code.
LEMMA AnsweredGrows ==
    ASSUME BaseInv, NEW c \in Codes, responses' = [responses EXCEPT ![c] = @ + 1]
    PROVE  /\ Answered' = Answered + 1
           /\ responses'["FORMERR"] = IF c = "FORMERR" THEN responses["FORMERR"] + 1
                                                       ELSE responses["FORMERR"]
<1>1. responses \in [Codes -> Nat]
  BY DEF BaseInv, Types
<1>2. \A x \in Codes : responses[x] \in Nat /\ responses'[x] = IF x = c THEN responses[x] + 1 ELSE responses[x]
  BY <1>1
<1>3. QED
  BY <1>2 DEF Answered, Codes

\* The sums are numbers.
LEMMA SumTypes ==
    ASSUME BaseInv
    PROVE  Answered \in Nat /\ responses["FORMERR"] \in Nat /\ count["queries"] \in Nat
<1>1. count["queries"] \in Nat
  BY CounterNames DEF BaseInv, Types
<1>2. \A c \in Codes : responses[c] \in Nat
  BY DEF BaseInv, Types
<1>3. Answered \in Nat /\ responses["FORMERR"] \in Nat
  BY <1>2 DEF Codes, Answered
<1>4. QED
  BY <1>1, <1>3

\* A step of a request keeps the sums.
LEMMA SumStep ==
    ASSUME BaseInv, SumInv, NEW r \in Requests, ArrivalStep(r) \/ RequestStep(r)
    PROVE  SumInv'
<1>0. Shape(r) /\ Shifts(r, Sent, Sent') /\ Shifts(r, Pending, Pending')
  BY Shapes, StepKnown, SetsShift
<1>t. Answered \in Nat /\ responses["FORMERR"] \in Nat /\ count["queries"] \in Nat
  BY SumTypes
<1>1. CASE Walks(r) /\ UNCHANGED <<responses, pushed>>
  <2>1. Answered' = Answered /\ responses'["FORMERR"] = responses["FORMERR"]
    BY <1>1 DEF Answered
  <2>2. Cardinality(Sent') = Cardinality(Sent)
    BY <1>0, <1>1, WalkSum DEF Shifts
  <2>3. \/ /\ count'["queries"] = count["queries"]
           /\ Cardinality(Pending') = Cardinality(Pending)
        \/ /\ count'["queries"] = count["queries"] + 1
           /\ Cardinality(Pending') = Cardinality(Pending) + 1
    BY <1>0, <1>1, WalkSum DEF Shifts
  <2>4. Cardinality(Pending) \in Nat
    BY <1>0 DEF Shifts
  <2>5. count'["queries"] + responses'["FORMERR"] = Answered' + Cardinality(Pending')
    BY <1>t, <2>1, <2>3, <2>4 DEF SumInv
  <2>6. QED
    BY <2>1, <2>2, <2>5 DEF SumInv
<1>2. CASE Pushes(r)
  <2>1. /\ pc[r] = "ring" /\ pc'[r] = "respond" /\ reply'[r] = reply[r]
        /\ UNCHANGED responses /\ count'["queries"] = count["queries"]
    BY <1>2, CounterNames DEF Pushes, Passes, Counts
  <2>2. (r \in Sent' <=> r \in Sent) /\ (r \in Pending' <=> r \in Pending)
    BY <2>1, Members, MembersNext
  <2>3. Cardinality(Sent') = Cardinality(Sent) /\ Cardinality(Pending') = Cardinality(Pending)
    BY <1>0, <2>2 DEF Shifts
  <2>4. QED
    BY <2>1, <2>3 DEF SumInv, Answered
<1>3. CASE Responds(r)
  <2>1. /\ pc[r] = "respond" /\ pc'[r] = "send" /\ reply'[r] = reply[r]
        /\ responses' = [responses EXCEPT ![reply[r][1]] = @ + 1]
        /\ count'["queries"] = count["queries"]
    BY <1>3, CounterNames DEF Responds, Passes, Counts
  <2>2. reply[r] # None /\ reply[r][1] \in Codes
    BY <2>1, ReplyCode DEF BaseInv, Types, Known, Decided
  <2>3. /\ Answered' = Answered + 1
        /\ responses'["FORMERR"] = IF reply[r][1] = "FORMERR" THEN responses["FORMERR"] + 1
                                                              ELSE responses["FORMERR"]
    BY <2>1, <2>2, AnsweredGrows
  <2>4. /\ r \notin Sent /\ r \in Sent' /\ r \notin Pending'
        /\ r \in Pending <=> reply[r][1] # "FORMERR"
    BY <2>1, <2>2, Members, MembersNext
  <2>5. /\ Cardinality(Sent') = Cardinality(Sent) + 1
        /\ Cardinality(Pending) = IF reply[r][1] = "FORMERR" THEN Cardinality(Pending')
                                                             ELSE Cardinality(Pending') + 1
        /\ Cardinality(Pending) \in Nat /\ Cardinality(Pending') \in Nat
    BY <1>0, <2>4 DEF Shifts
  <2>6. count'["queries"] + responses'["FORMERR"] = Answered' + Cardinality(Pending')
    BY <1>t, <2>1, <2>3, <2>5 DEF SumInv
  <2>7. QED
    BY <2>3, <2>5, <2>6 DEF SumInv
<1>4. QED
  BY <1>0, <1>1, <1>2, <1>3 DEF Shape

-----------------------------------------------------------------------------
(* The log and the counters. *)

Joined ==
    By("Resolver") + By("ServerFailure") + count["cname_cloaking_blocked"]
    + count["response_ip_blocked"] + Cardinality(At({"gone"})) + Cardinality(Forwarded)
TallyInv ==
    capacity > 0 =>
        /\ By("Authority") + Cardinality(On("Authority")) = count["authority_hits"]
        /\ By("Rewrite") + Cardinality(On("Rewrite")) = count["rewrite_hits"]
        /\ By("Blocklist") + Cardinality(Blocked) = count["blocklist_hits"]
        /\ By("ServerFailure") + Cardinality(On("ServerFailure")) = count["resolver_failures"]
        /\ Joined = count["resolver_queries"]

\* How many entries of a source a push adds.
LEMMA ByPush ==
    ASSUME BaseInv, NEW r \in Requests, reply[r] # None, pushed' = Append(pushed, Entry(r)), NEW l
    PROVE  By(l)' = By(l) + (IF reply[r][2] = l THEN 1 ELSE 0)
<1>0. /\ Len(pushed) \in Nat /\ Len(pushed') = Len(pushed) + 1
      /\ \A i \in 1..Len(pushed) : pushed'[i] = pushed[i]
      /\ pushed'[Len(pushed) + 1] = Entry(r) /\ Entry(r)[2][2] = reply[r][2]
  BY PushPositions, EntryType
<1> DEFINE S == {i \in 1..Len(pushed) : pushed[i][2][2] = l}
           T == {i \in 1..Len(pushed') : pushed'[i][2][2] = l}
<1>1. By(l) = Cardinality(S) /\ By(l)' = Cardinality(T)
  BY DEF By
<1>2. 1..Len(pushed') = (1..Len(pushed)) \cup {Len(pushed) + 1}
  BY <1>0
<1>3. IsFiniteSet(S) /\ Cardinality(S) \in Nat /\ Len(pushed) + 1 \notin S
  <2>1. IsFiniteSet(1..Len(pushed))
    BY <1>0, FS_Interval
  <2>2. S \subseteq 1..Len(pushed)
    OBVIOUS
  <2>3. IsFiniteSet(S) /\ Cardinality(S) \in Nat
    BY <2>1, <2>2, FS_Subset, FS_CardinalityType
  <2>4. QED
    BY <1>0, <2>2, <2>3
<1>4. CASE reply[r][2] = l
  <2>1. T = S \cup {Len(pushed) + 1}
    BY <1>0, <1>2, <1>4
  <2> HIDE DEF S, T
  <2>2. Cardinality(T) = Cardinality(S) + 1
    BY <1>3, <2>1, FS_AddElement
  <2>3. QED
    BY <1>1, <1>4, <2>2
<1>5. CASE reply[r][2] # l
  <2>1. T = S
    BY <1>0, <1>2, <1>5
  <2> HIDE DEF S, T
  <2>2. QED
    BY <1>1, <1>3, <1>5, <2>1
<1>6. QED
  BY <1>4, <1>5

\* The number of entries of a source is a number.
LEMMA ByType == ASSUME BaseInv, NEW l PROVE By(l) \in Nat
<1>1. Len(pushed) \in Nat
  BY LenProperties DEF BaseInv, Types
<1> DEFINE S == {i \in 1..Len(pushed) : pushed[i][2][2] = l}
<1>2. IsFiniteSet(1..Len(pushed)) /\ S \subseteq 1..Len(pushed)
  <2>1. IsFiniteSet(1..Len(pushed))
    BY <1>1, FS_Interval
  <2>2. S \subseteq 1..Len(pushed)
    OBVIOUS
  <2>3. QED
    BY <2>1, <2>2
<1>3. Cardinality(S) \in Nat
  BY <1>2, FS_Subset, FS_CardinalityType
<1>4. QED
  BY <1>3 DEF By

\* A request is counted when it enters S, the requests whose entry is to come.
Enters(r, c, S, T) ==
    \/ count'[c] = count[c] /\ (r \in S <=> r \in T)
    \/ count'[c] = count[c] + 1 /\ r \notin S /\ r \in T

\* It leaves the resolver with an entry to come, with a cause, or for good.
Resolves(r) ==
    \/ /\ count'["resolver_queries"] = count["resolver_queries"]
       /\ count'["cname_cloaking_blocked"] = count["cname_cloaking_blocked"]
       /\ count'["response_ip_blocked"] = count["response_ip_blocked"]
       /\ r \in At({"gone"}) <=> r \in At({"gone"})'
       /\ r \in Forwarded <=> r \in Forwarded'
    \/ /\ count'["resolver_queries"] = count["resolver_queries"] + 1
       /\ count'["cname_cloaking_blocked"] = count["cname_cloaking_blocked"]
       /\ count'["response_ip_blocked"] = count["response_ip_blocked"]
       /\ r \in At({"gone"}) <=> r \in At({"gone"})'
       /\ r \notin Forwarded /\ r \in Forwarded'
    \/ /\ count'["resolver_queries"] = count["resolver_queries"]
       /\ \/ /\ count'["cname_cloaking_blocked"] = count["cname_cloaking_blocked"] + 1
             /\ count'["response_ip_blocked"] = count["response_ip_blocked"]
          \/ /\ count'["cname_cloaking_blocked"] = count["cname_cloaking_blocked"]
             /\ count'["response_ip_blocked"] = count["response_ip_blocked"] + 1
       /\ r \in At({"gone"}) <=> r \in At({"gone"})'
       /\ r \in Forwarded /\ r \notin Forwarded'
    \/ /\ count'["resolver_queries"] = count["resolver_queries"]
       /\ count'["cname_cloaking_blocked"] = count["cname_cloaking_blocked"]
       /\ count'["response_ip_blocked"] = count["response_ip_blocked"]
       /\ r \notin At({"gone"}) /\ r \in At({"gone"})'
       /\ r \in Forwarded /\ r \notin Forwarded'

WalkTallies(r) ==
    /\ Enters(r, "authority_hits", On("Authority"), On("Authority")')
    /\ Enters(r, "rewrite_hits", On("Rewrite"), On("Rewrite")')
    /\ Enters(r, "blocklist_hits", Blocked, Blocked')
    /\ Enters(r, "resolver_failures", On("ServerFailure"), On("ServerFailure")')
    /\ Resolves(r)

\* Every step on the way to the log is counted so.
LEMMA WalkTally ==
    ASSUME BaseInv, NEW r \in Requests, Walks(r)
    PROVE  WalkTallies(r)
<1>0. Decided(r)
  BY DEF BaseInv, Known
<1>1. ASSUME NEW cs, Counts(cs),
             NEW c \in {"authority_hits", "rewrite_hits", "blocklist_hits", "resolver_failures",
                        "resolver_queries", "cname_cloaking_blocked", "response_ip_blocked"}
      PROVE  count'[c] = IF c \in cs THEN count[c] + 1 ELSE count[c]
  BY <1>1, CounterNames DEF Counts
<1>2. ASSUME NEW q \in {"request", "done"}, Passes(r, "idle", q, {}) PROVE WalkTallies(r)
  BY <1>0, <1>1, <1>2, Members, MembersNext DEF Passes, WalkTallies, Enters, Resolves
<1>3. CASE Decides(r, "request", {}, <<"FORMERR", "Rejected">>)
  BY <1>1, <1>3, Members, MembersNext DEF Decides, WalkTallies, Enters, Resolves
<1>4. CASE Passes(r, "request", "gates", {"queries"})
  BY <1>1, <1>4, Members, MembersNext DEF Passes, WalkTallies, Enters, Resolves
<1>5. ASSUME NEW v \in Verdicts, Decides(r, "gates", {v[1]}, <<v[2], v[3]>>) PROVE WalkTallies(r)
  <2>1. v[1] \notin {"resolver_failures", "resolver_queries", "cname_cloaking_blocked",
                     "response_ip_blocked"}
    BY GateFacts, CounterNames DEF GateCounters
  <2>2. /\ v[1] = "authority_hits" <=> v[3] = "Authority"
        /\ v[1] = "rewrite_hits" <=> v[3] = "Rewrite"
        /\ v[1] = "blocklist_hits" <=> v[3] = "Blocklist"
        /\ v[3] \notin {"Resolver", "ServerFailure"}
    BY GateFacts
  <2>3. pc[r] = "gates" /\ pc'[r] = "disk" /\ reply'[r][2] = v[3] /\ Counts({v[1]})
    BY <1>5 DEF Decides
  <2>4. QED
    BY <1>1, <2>1, <2>2, <2>3, Members, MembersNext DEF WalkTallies, Enters, Resolves
<1>6. ASSUME NEW b \in {{}, {"policy_blocklist_bypass"}},
             Passes(r, "gates", "upstream", {"resolver_queries"} \cup b)
      PROVE  WalkTallies(r)
  BY <1>1, <1>6, Members, MembersNext DEF Passes, WalkTallies, Enters, Resolves
<1>7. CASE Decides(r, "upstream", {}, <<"NXDOMAIN", "Resolver">>)
  BY <1>1, <1>7, Members, MembersNext DEF Decides, WalkTallies, Enters, Resolves
<1>a. CASE Passes(r, "upstream", "answered", {})
  BY <1>1, <1>a, Members, MembersNext DEF Passes, WalkTallies, Enters, Resolves
<1>b. CASE Decides(r, "answered", {}, <<"NOERROR", "Resolver">>)
  BY <1>1, <1>b, Members, MembersNext DEF Decides, WalkTallies, Enters, Resolves
<1>8. CASE Passes(r, "answered", "cause", {"blocklist_hits"})
  BY <1>1, <1>8, Members, MembersNext DEF Passes, WalkTallies, Enters, Resolves
<1>9. ASSUME NEW code \in {"NOERROR", "NXDOMAIN", "REFUSED"}, NEW k \in Causes,
             Decides(r, "cause", {k}, <<code, "Blocklist">>)
      PROVE  WalkTallies(r)
  BY <1>1, <1>9, Members, MembersNext DEF Decides, Causes, WalkTallies, Enters, Resolves
<1>10. CASE Decides(r, "upstream", {"resolver_failures"}, <<"SERVFAIL", "ServerFailure">>)
  BY <1>1, <1>10, Members, MembersNext DEF Decides, WalkTallies, Enters, Resolves
<1>11. CASE Passes(r, "upstream", "gone", {})
  BY <1>1, <1>11, Members, MembersNext DEF Passes, WalkTallies, Enters, Resolves
<1>12. ASSUME NEW d \in {{}, {"disk_dropped"}}, Passes(r, "disk", "ring", d) PROVE WalkTallies(r)
  BY <1>1, <1>12, Members, MembersNext DEF Passes, WalkTallies, Enters, Resolves
<1>13. ASSUME NEW q \in {"wait", "done"}, Passes(r, "send", q, {}) PROVE WalkTallies(r)
  BY <1>1, <1>13, Members, MembersNext DEF Passes, WalkTallies, Enters, Resolves
<1>14. CASE Passes(r, "wait", "done", {})
  BY <1>1, <1>14, Members, MembersNext DEF Passes, WalkTallies, Enters, Resolves
<1>15. QED
  BY <1>2, <1>3, <1>4, <1>5, <1>6, <1>7, <1>a, <1>b, <1>8, <1>9, <1>10, <1>11, <1>12, <1>13,
     <1>14 DEF Walks

\* One line of the tally when a request enters a set.
LEMMA EntersFact ==
    ASSUME NEW r, NEW c, NEW S, NEW T, NEW b \in Nat,
           count[c] \in Nat, Shifts(r, S, T), Enters(r, c, S, T),
           b + Cardinality(S) = count[c]
    PROVE  b + Cardinality(T) = count'[c]
BY DEF Shifts, Enters

\* One line of the tally when its entry is pushed.
LEMMA LeavesFact ==
    ASSUME NEW r, NEW n, NEW S, NEW T, NEW b \in Nat, n \in Nat, Shifts(r, S, T),
           r \notin T, b + Cardinality(S) = n
    PROVE  (b + (IF r \in S THEN 1 ELSE 0)) + Cardinality(T) = n
BY DEF Shifts

\* The counters of the tally are numbers.
LEMMA TallyTypes ==
    ASSUME BaseInv
    PROVE  /\ \A l : By(l) \in Nat
           /\ \A c \in {"authority_hits", "rewrite_hits", "blocklist_hits", "resolver_failures",
                        "resolver_queries", "cname_cloaking_blocked", "response_ip_blocked"} :
                 count[c] \in Nat
<1>1. \A c \in Counters : count[c] \in Nat
  BY DEF BaseInv, Types
<1>2. QED
  BY <1>1, ByType, CounterNames

\* A step of a request keeps the tally.
LEMMA TallyStep ==
    ASSUME BaseInv, TallyInv, NEW r \in Requests, ArrivalStep(r) \/ RequestStep(r)
    PROVE  TallyInv'
<1>0. /\ Shape(r) /\ capacity' = capacity
      /\ Shifts(r, On("Authority"), On("Authority")') /\ Shifts(r, On("Rewrite"), On("Rewrite")')
      /\ Shifts(r, On("ServerFailure"), On("ServerFailure")')
      /\ Shifts(r, Blocked, Blocked') /\ Shifts(r, Forwarded, Forwarded')
      /\ Shifts(r, At({"gone"}), At({"gone"})')
  BY Shapes, StepKnown, SetsShift DEF Shape
<1>t. /\ \A l : By(l) \in Nat
      /\ \A c \in {"authority_hits", "rewrite_hits", "blocklist_hits", "resolver_failures",
                   "resolver_queries", "cname_cloaking_blocked", "response_ip_blocked"} :
            count[c] \in Nat
  BY TallyTypes
<1> SUFFICES ASSUME capacity > 0
    PROVE  /\ By("Authority")' + Cardinality(On("Authority")') = count'["authority_hits"]
           /\ By("Rewrite")' + Cardinality(On("Rewrite")') = count'["rewrite_hits"]
           /\ By("Blocklist")' + Cardinality(Blocked') = count'["blocklist_hits"]
           /\ By("ServerFailure")' + Cardinality(On("ServerFailure")') = count'["resolver_failures"]
           /\ Joined' = count'["resolver_queries"]
  BY <1>0 DEF TallyInv
<1>i. /\ By("Authority") + Cardinality(On("Authority")) = count["authority_hits"]
      /\ By("Rewrite") + Cardinality(On("Rewrite")) = count["rewrite_hits"]
      /\ By("Blocklist") + Cardinality(Blocked) = count["blocklist_hits"]
      /\ By("ServerFailure") + Cardinality(On("ServerFailure")) = count["resolver_failures"]
      /\ Joined = count["resolver_queries"]
  BY DEF TallyInv
<1>n. /\ Cardinality(At({"gone"})) \in Nat /\ Cardinality(Forwarded) \in Nat
      /\ Cardinality(At({"gone"})') \in Nat /\ Cardinality(Forwarded') \in Nat
  BY <1>0 DEF Shifts
<1>1. CASE Walks(r) /\ UNCHANGED <<responses, pushed>>
  <2>1. WalkTallies(r)
    BY <1>1, WalkTally
  <2>2. \A l : By(l)' = By(l)
    BY <1>1 DEF By
  <2>3. By("Authority") + Cardinality(On("Authority")') = count'["authority_hits"]
    BY <1>0, <1>t, <1>i, <2>1, EntersFact DEF WalkTallies
  <2>4. By("Rewrite") + Cardinality(On("Rewrite")') = count'["rewrite_hits"]
    BY <1>0, <1>t, <1>i, <2>1, EntersFact DEF WalkTallies
  <2>5. By("Blocklist") + Cardinality(Blocked') = count'["blocklist_hits"]
    BY <1>0, <1>t, <1>i, <2>1, EntersFact DEF WalkTallies
  <2>6. By("ServerFailure") + Cardinality(On("ServerFailure")') = count'["resolver_failures"]
    BY <1>0, <1>t, <1>i, <2>1, EntersFact DEF WalkTallies
  <2>7. Joined' = count'["resolver_queries"]
    <3>1. Resolves(r)
      BY <2>1 DEF WalkTallies
    <3>2. /\ By("Resolver")' = By("Resolver") /\ By("ServerFailure")' = By("ServerFailure")
          /\ By("Resolver") \in Nat /\ By("ServerFailure") \in Nat
          /\ count["cname_cloaking_blocked"] \in Nat /\ count["response_ip_blocked"] \in Nat
          /\ count["resolver_queries"] \in Nat
      BY <1>t, <2>2
    <3>3. QED
      BY <1>0, <1>i, <1>n, <3>1, <3>2 DEF Joined, Resolves, Shifts
  <2>8. QED
    BY <2>2, <2>3, <2>4, <2>5, <2>6, <2>7
<1>2. CASE Pushes(r)
  <2>1. /\ pc[r] = "ring" /\ pc'[r] = "respond" /\ reply'[r] = reply[r]
        /\ pushed' = Append(pushed, Entry(r))
    BY <1>2 DEF Pushes, Passes
  <2>2. reply[r] # None
    BY <2>1 DEF BaseInv, Known, Decided
  <2>3. \A l : By(l)' = By(l) + (IF reply[r][2] = l THEN 1 ELSE 0)
    BY <2>1, <2>2, ByPush
  <2>4. \A c \in {"authority_hits", "rewrite_hits", "blocklist_hits", "resolver_failures",
                  "resolver_queries", "cname_cloaking_blocked", "response_ip_blocked"} :
           count'[c] = count[c]
    BY <1>2, CounterNames DEF Pushes, Passes, Counts
  <2>5. /\ r \notin On("Authority")' /\ r \notin On("Rewrite")' /\ r \notin On("ServerFailure")'
        /\ r \notin Blocked' /\ r \notin Forwarded'
        /\ r \notin At({"gone"}) /\ r \notin At({"gone"})'
    BY <2>1, MembersNext, Members
  <2>6. /\ \A l : r \in On(l) <=> reply[r][2] = l
        /\ r \in Blocked <=> reply[r][2] = "Blocklist"
        /\ r \in Forwarded <=> reply[r][2] \in {"Resolver", "ServerFailure"}
    BY <2>1, Members
  <2>7. By("Authority")' + Cardinality(On("Authority")') = count'["authority_hits"]
    BY <1>0, <1>t, <1>i, <2>3, <2>4, <2>5, <2>6, LeavesFact
  <2>8. By("Rewrite")' + Cardinality(On("Rewrite")') = count'["rewrite_hits"]
    BY <1>0, <1>t, <1>i, <2>3, <2>4, <2>5, <2>6, LeavesFact
  <2>9. By("Blocklist")' + Cardinality(Blocked') = count'["blocklist_hits"]
    BY <1>0, <1>t, <1>i, <2>3, <2>4, <2>5, <2>6, LeavesFact
  <2>10. By("ServerFailure")' + Cardinality(On("ServerFailure")') = count'["resolver_failures"]
    BY <1>0, <1>t, <1>i, <2>3, <2>4, <2>5, <2>6, LeavesFact
  <2>11. Joined' = count'["resolver_queries"]
    <3>1. /\ By("Resolver")' = By("Resolver") + (IF reply[r][2] = "Resolver" THEN 1 ELSE 0)
          /\ By("ServerFailure")'
                = By("ServerFailure") + (IF reply[r][2] = "ServerFailure" THEN 1 ELSE 0)
          /\ By("Resolver") \in Nat /\ By("ServerFailure") \in Nat
          /\ count["cname_cloaking_blocked"] \in Nat /\ count["response_ip_blocked"] \in Nat
          /\ count["resolver_queries"] \in Nat
          /\ count'["cname_cloaking_blocked"] = count["cname_cloaking_blocked"]
          /\ count'["response_ip_blocked"] = count["response_ip_blocked"]
          /\ count'["resolver_queries"] = count["resolver_queries"]
      BY <1>t, <2>3, <2>4
    <3>2. Cardinality(At({"gone"})') = Cardinality(At({"gone"}))
      BY <1>0, <2>5 DEF Shifts
    <3>3. Cardinality(Forwarded)
            = Cardinality(Forwarded')
              + (IF reply[r][2] = "Resolver" THEN 1 ELSE 0)
              + (IF reply[r][2] = "ServerFailure" THEN 1 ELSE 0)
      BY <1>0, <1>n, <2>5, <2>6 DEF Shifts
    <3>4. CASE reply[r][2] = "Resolver"
      <4>1. /\ By("Resolver")' = By("Resolver") + 1 /\ By("ServerFailure")' = By("ServerFailure")
            /\ Cardinality(Forwarded) = Cardinality(Forwarded') + 1
        BY <1>n, <3>1, <3>3, <3>4
      <4>2. QED
        BY <1>i, <1>n, <3>1, <3>2, <4>1 DEF Joined
    <3>5. CASE reply[r][2] = "ServerFailure"
      <4>1. /\ By("Resolver")' = By("Resolver") /\ By("ServerFailure")' = By("ServerFailure") + 1
            /\ Cardinality(Forwarded) = Cardinality(Forwarded') + 1
        BY <1>n, <3>1, <3>3, <3>5
      <4>2. QED
        BY <1>i, <1>n, <3>1, <3>2, <4>1 DEF Joined
    <3>6. CASE reply[r][2] \notin {"Resolver", "ServerFailure"}
      <4>1. /\ By("Resolver")' = By("Resolver") /\ By("ServerFailure")' = By("ServerFailure")
            /\ Cardinality(Forwarded) = Cardinality(Forwarded')
        BY <1>n, <3>1, <3>3, <3>6
      <4>2. QED
        BY <1>i, <1>n, <3>1, <3>2, <4>1 DEF Joined
    <3>7. QED
      BY <3>4, <3>5, <3>6
  <2>12. QED
    BY <2>7, <2>8, <2>9, <2>10, <2>11
<1>3. CASE Responds(r)
  <2>1. /\ pc[r] = "respond" /\ pc'[r] = "send" /\ reply'[r] = reply[r] /\ UNCHANGED pushed
    BY <1>3 DEF Responds, Passes
  <2>2. \A c \in {"authority_hits", "rewrite_hits", "blocklist_hits", "resolver_failures",
                  "resolver_queries", "cname_cloaking_blocked", "response_ip_blocked"} :
           count'[c] = count[c]
    BY <1>3, CounterNames DEF Responds, Passes, Counts
  <2>3. \A l : By(l)' = By(l)
    BY <2>1 DEF By
  <2>4. /\ r \in On("Authority") <=> r \in On("Authority")'
        /\ r \in On("Rewrite") <=> r \in On("Rewrite")'
        /\ r \in On("ServerFailure") <=> r \in On("ServerFailure")'
        /\ r \in Blocked <=> r \in Blocked'
        /\ r \in Forwarded <=> r \in Forwarded'
        /\ r \in At({"gone"}) <=> r \in At({"gone"})'
    BY <2>1, Members, MembersNext
  <2>5. /\ Cardinality(On("Authority")') = Cardinality(On("Authority"))
        /\ Cardinality(On("Rewrite")') = Cardinality(On("Rewrite"))
        /\ Cardinality(On("ServerFailure")') = Cardinality(On("ServerFailure"))
        /\ Cardinality(Blocked') = Cardinality(Blocked)
        /\ Cardinality(Forwarded') = Cardinality(Forwarded)
        /\ Cardinality(At({"gone"})') = Cardinality(At({"gone"}))
    BY <1>0, <2>4 DEF Shifts
  <2>6. QED
    BY <1>i, <2>2, <2>3, <2>5 DEF Joined
<1>4. QED
  BY <1>0, <1>1, <1>2, <1>3 DEF Shape

-----------------------------------------------------------------------------
(* Bounds. *)

\* The places of a request before counter c may count it.
Early(c) ==
    {"idle", "request"}
    \cup (IF c = "queries" THEN {} ELSE {"gates"})
    \cup (IF c \in Causes \cup {"blocklist_hits", "resolver_failures", "disk_dropped"}
            THEN {"upstream", "answered"} ELSE {})
    \cup (IF c \in Causes \cup {"disk_dropped"} THEN {"cause"} ELSE {})
    \cup (IF c = "disk_dropped" THEN {"disk"} ELSE {})
Later(c) == At(Places \ Early(c))

\* A counter counts no request that has not come past it.
BoundInv == \A c \in PerQuery : count[c] <= Cardinality(Later(c))

\* A step counts a request only where it passes the counter, and never takes it back.
LEMMA WalkBound ==
    ASSUME BaseInv, NEW r \in Requests, Shape(r), NEW c \in PerQuery
    PROVE  \/ count'[c] = count[c] /\ (pc[r] \notin Early(c) => pc'[r] \notin Early(c))
           \/ count'[c] = count[c] + 1 /\ pc[r] \in Early(c) /\ pc'[r] \notin Early(c)
<1> DEFINE Goal ==
       \/ count'[c] = count[c] /\ (pc[r] \notin Early(c) => pc'[r] \notin Early(c))
       \/ count'[c] = count[c] + 1 /\ pc[r] \in Early(c) /\ pc'[r] \notin Early(c)
<1>1. ASSUME NEW cs, Counts(cs) PROVE count'[c] = IF c \in cs THEN count[c] + 1 ELSE count[c]
  BY <1>1 DEF Counts
<1>2. ASSUME NEW q \in {"request", "done"}, Passes(r, "idle", q, {}) PROVE Goal
  BY <1>1, <1>2 DEF Passes, Early
<1>3. CASE Decides(r, "request", {}, <<"FORMERR", "Rejected">>)
  BY <1>1, <1>3 DEF Decides, Early
<1>4. CASE Passes(r, "request", "gates", {"queries"})
  BY <1>1, <1>4 DEF Passes, Early
<1>5. ASSUME NEW v \in Verdicts, Decides(r, "gates", {v[1]}, <<v[2], v[3]>>) PROVE Goal
  <2>1. v[1] # "queries" /\ v[1] # "disk_dropped"
    BY GateFacts, CounterNames DEF GateCounters
  <2>2. QED
    BY <1>1, <1>5, <2>1 DEF Decides, Early
<1>6. ASSUME NEW b \in {{}, {"policy_blocklist_bypass"}},
             Passes(r, "gates", "upstream", {"resolver_queries"} \cup b)
      PROVE  Goal
  BY <1>1, <1>6 DEF Passes, Early, Causes
<1>7. CASE Decides(r, "upstream", {}, <<"NXDOMAIN", "Resolver">>)
  BY <1>1, <1>7 DEF Decides, Early
<1>a. CASE Passes(r, "upstream", "answered", {})
  BY <1>1, <1>a DEF Passes, Early, Causes
<1>b. CASE Decides(r, "answered", {}, <<"NOERROR", "Resolver">>)
  BY <1>1, <1>b DEF Decides, Early
<1>8. CASE Passes(r, "answered", "cause", {"blocklist_hits"})
  BY <1>1, <1>8 DEF Passes, Early, Causes
<1>9. ASSUME NEW code \in {"NOERROR", "NXDOMAIN", "REFUSED"}, NEW k \in Causes,
             Decides(r, "cause", {k}, <<code, "Blocklist">>)
      PROVE  Goal
  BY <1>1, <1>9 DEF Decides, Early, Causes
<1>10. CASE Decides(r, "upstream", {"resolver_failures"}, <<"SERVFAIL", "ServerFailure">>)
  BY <1>1, <1>10 DEF Decides, Early, Causes
<1>11. CASE Passes(r, "upstream", "gone", {})
  BY <1>1, <1>11 DEF Passes, Early
<1>12. ASSUME NEW d \in {{}, {"disk_dropped"}}, Passes(r, "disk", "ring", d) PROVE Goal
  BY <1>1, <1>12 DEF Passes, Early
<1>13. ASSUME NEW q \in {"wait", "done"}, Passes(r, "send", q, {}) PROVE Goal
  BY <1>1, <1>13 DEF Passes, Early
<1>14. CASE Passes(r, "wait", "done", {})
  BY <1>1, <1>14 DEF Passes, Early
<1>15. CASE Pushes(r)
  BY <1>1, <1>15 DEF Pushes, Passes, Early
<1>16. CASE Responds(r)
  BY <1>1, <1>16 DEF Responds, Passes, Early
<1>17. Walks(r) => Goal
  BY <1>2, <1>3, <1>4, <1>5, <1>6, <1>7, <1>a, <1>b, <1>8, <1>9, <1>10, <1>11, <1>12, <1>13,
     <1>14 DEF Walks
<1>18. QED
  BY <1>15, <1>16, <1>17 DEF Shape

\* A step of a request keeps the bound.
LEMMA BoundStep ==
    ASSUME BaseInv, BoundInv, NEW r \in Requests, ArrivalStep(r) \/ RequestStep(r)
    PROVE  BoundInv'
<1>0. Shape(r) /\ Others(r) /\ pc[r] \in Places /\ pc'[r] \in Places
  BY Shapes, StepKnown DEF BaseInv, Types
<1>1. ASSUME NEW c \in PerQuery PROVE count'[c] <= Cardinality(Later(c)')
  <2>1. \/ count'[c] = count[c] /\ (pc[r] \notin Early(c) => pc'[r] \notin Early(c))
        \/ count'[c] = count[c] + 1 /\ pc[r] \in Early(c) /\ pc'[r] \notin Early(c)
    BY <1>0, WalkBound
  <2>2. /\ r \in Later(c) <=> pc[r] \notin Early(c)
        /\ r \in Later(c)' <=> pc'[r] \notin Early(c)
    BY <1>0 DEF Later, At, Early
  <2>3. Shifts(r, Later(c), Later(c)')
    <3>1. \A x \in Requests \ {r} : x \in Later(c) <=> x \in Later(c)'
      BY <1>0 DEF Later, At, Others, Early
    <3>2. Later(c) \subseteq Requests /\ Later(c)' \subseteq Requests
      BY DEF Later, At
    <3>3. QED
      BY <3>1, <3>2, ShiftsFact
  <2>4. count[c] <= Cardinality(Later(c)) /\ count[c] \in Nat
    BY CounterNames DEF BoundInv, BaseInv, Types
  <2>5. \/ count'[c] = count[c] /\ Cardinality(Later(c)) <= Cardinality(Later(c)')
        \/ count'[c] = count[c] + 1 /\ Cardinality(Later(c)') = Cardinality(Later(c)) + 1
    BY <2>1, <2>2, <2>3 DEF Shifts
  <2>6. Cardinality(Later(c)) \in Nat /\ Cardinality(Later(c)') \in Nat
    BY <2>3 DEF Shifts
  <2>7. QED
    BY <2>4, <2>5, <2>6
<1>2. QED
  BY <1>1 DEF BoundInv

-----------------------------------------------------------------------------
(* The invariant, and the two theorems that need all of it. *)

CountInv == BaseInv /\ LogInv /\ SumInv /\ TallyInv /\ BoundInv

\* The disk writer and a step of nobody leave the counters and the log alone.
LEMMA CountFrame ==
    ASSUME SumInv, TallyInv, BoundInv, UNCHANGED <<pc, reply, count, responses, pushed, capacity>>
    PROVE  SumInv' /\ TallyInv' /\ BoundInv'
<1>1. /\ \A P : At(P)' = At(P)
      /\ \A l : By(l)' = By(l)
      /\ Sent' = Sent /\ Pending' = Pending /\ Answered' = Answered
  BY DEF At, By, Sent, Logged, Pending, Answered
<1>2. /\ \A l : On(l)' = On(l)
      /\ Blocked' = Blocked /\ Forwarded' = Forwarded
  BY DEF At, On, Blocked, Forwarded
<1>3. SumInv'
  BY <1>1 DEF SumInv
<1>4. TallyInv'
  BY <1>1, <1>2 DEF TallyInv, Joined
<1>5. BoundInv'
  <2>1. \A c : Later(c)' = Later(c)
    BY DEF Later, At, Early
  <2>2. QED
    BY <2>1 DEF BoundInv
<1>6. QED
  BY <1>3, <1>4, <1>5

\* Every step keeps the invariant.
LEMMA CountStep == CountInv /\ [Next]_vars => CountInv'
<1> SUFFICES ASSUME CountInv, [Next]_vars PROVE CountInv'
  OBVIOUS
<1>0. BaseInv /\ LogInv /\ SumInv /\ TallyInv /\ BoundInv /\ BaseInv' /\ LogInv'
  BY BaseStep, LogStep DEF CountInv
<1>1. ASSUME NEW r \in Requests, ArrivalStep(r) \/ RequestStep(r)
      PROVE  SumInv' /\ TallyInv' /\ BoundInv'
  BY <1>0, <1>1, SumStep, TallyStep, BoundStep
<1>2. ASSUME WriterTakes PROVE SumInv' /\ TallyInv' /\ BoundInv'
  BY <1>0, <1>2, CountFrame DEF WriterTakes
<1>3. ASSUME UNCHANGED vars PROVE SumInv' /\ TallyInv' /\ BoundInv'
  BY <1>0, <1>3, CountFrame DEF vars
<1>4. SumInv' /\ TallyInv' /\ BoundInv'
  BY <1>1, <1>2, <1>3, NextCases
<1>5. QED
  BY <1>0, <1>4 DEF CountInv

\* At the start every count is zero and every request is idle.
LEMMA CountInit == Init => CountInv
<1> SUFFICES ASSUME Init PROVE CountInv
  OBVIOUS
<1>1. /\ \A c \in Counters : count[c] = 0
      /\ \A c \in Codes : responses[c] = 0
      /\ \A r \in Requests : pc[r] = "idle"
  BY DEF Init
<1>2. Sent = {} /\ Pending = {} /\ Blocked = {} /\ Forwarded = {} /\ At({"gone"}) = {}
      /\ \A l : On(l) = {}
  BY <1>1, Members DEF Sent, Logged, Pending, Blocked, Forwarded, On, At
<1>3. Cardinality({}) = 0
  BY FS_EmptySet
<1>4. \A l : By(l) = 0
  <2>1. Len(pushed) = 0
    BY EmptySeq DEF Init
  <2>2. \A l : {i \in 1..Len(pushed) : pushed[i][2][2] = l} = {}
    BY <2>1
  <2>3. QED
    BY <1>3, <2>2 DEF By
<1>5. SumInv
  <2>1. Answered = 0 /\ responses["FORMERR"] = 0
    BY <1>1 DEF Answered, Codes
  <2>2. count["queries"] = 0
    BY <1>1, CounterNames
  <2>3. QED
    BY <1>2, <1>3, <2>1, <2>2 DEF SumInv
<1>6. TallyInv
  <2>1. \A c \in {"authority_hits", "rewrite_hits", "blocklist_hits", "resolver_failures",
                  "resolver_queries", "cname_cloaking_blocked", "response_ip_blocked"} :
           count[c] = 0
    BY <1>1, CounterNames
  <2>2. /\ Cardinality(On("Authority")) = 0 /\ Cardinality(On("Rewrite")) = 0
        /\ Cardinality(On("ServerFailure")) = 0 /\ Cardinality(Blocked) = 0
        /\ Cardinality(Forwarded) = 0 /\ Cardinality(At({"gone"})) = 0
    BY <1>2, <1>3
  <2>3. /\ By("Authority") = 0 /\ By("Rewrite") = 0 /\ By("ServerFailure") = 0
        /\ By("Blocklist") = 0 /\ By("Resolver") = 0
    BY <1>4
  <2>4. /\ count["authority_hits"] = 0 /\ count["rewrite_hits"] = 0
        /\ count["blocklist_hits"] = 0 /\ count["resolver_failures"] = 0
        /\ count["resolver_queries"] = 0 /\ count["cname_cloaking_blocked"] = 0
        /\ count["response_ip_blocked"] = 0
    BY <2>1
  <2>5. QED
    BY <2>2, <2>3, <2>4 DEF TallyInv, Joined
<1>7. BoundInv
  <2>1. \A c : Later(c) = {}
    BY <1>1 DEF Later, At, Early
  <2>2. QED
    BY <1>1, <1>3, <2>1, CounterNames DEF BoundInv
<1>8. QED
  BY <1>5, <1>6, <1>7, BaseInit, LogInit DEF CountInv

\* The counters add up at every moment and agree with the log once the queries on
\* their way are logged (handler.rs, metrics.rs), however the threads interleave.
THEOREM CountersAlways == Spec => []CountersAgree
<1>1. CountInv => CountersAgree
  <2> SUFFICES ASSUME CountInv PROVE CountersAgree
    OBVIOUS
  <2>1. Answered = Cardinality(Logged \ At({"respond"}))
        /\ count["queries"] + responses["FORMERR"] = Answered + Cardinality(Pending)
    BY DEF CountInv, SumInv, Sent
  <2>2. ASSUME capacity > 0, At({"upstream", "answered", "cause", "disk", "ring"}) = {}
        PROVE  /\ By("Authority") = count["authority_hits"]
               /\ By("Rewrite") = count["rewrite_hits"]
               /\ By("Blocklist") = count["blocklist_hits"]
               /\ By("ServerFailure") = count["resolver_failures"]
               /\ By("Resolver") + By("ServerFailure") + count["cname_cloaking_blocked"]
                   + count["response_ip_blocked"] + Cardinality(At({"gone"}))
                  = count["resolver_queries"]
    <3>1. (\A l : On(l) = {}) /\ Blocked = {} /\ Forwarded = {}
      BY <2>2 DEF At, On, Blocked, Forwarded
    <3>2. Cardinality({}) = 0 /\ Cardinality(At({"gone"})) \in Nat
      <4>1. IsFiniteSet(At({"gone"}))
        BY FrontendAssumption, FS_Subset DEF At
      <4>2. QED
        BY <4>1, FS_EmptySet, FS_CardinalityType
    <3>3. /\ \A l : By(l) \in Nat
          /\ count["cname_cloaking_blocked"] \in Nat /\ count["response_ip_blocked"] \in Nat
      BY TallyTypes DEF CountInv
    <3>4. /\ By("Authority") + 0 = count["authority_hits"]
          /\ By("Rewrite") + 0 = count["rewrite_hits"]
          /\ By("Blocklist") + 0 = count["blocklist_hits"]
          /\ By("ServerFailure") + 0 = count["resolver_failures"]
          /\ Joined = count["resolver_queries"]
      BY <2>2, <3>1, <3>2 DEF CountInv, TallyInv
    <3>5. QED
      BY <3>1, <3>2, <3>3, <3>4 DEF Joined
  <2>3. QED
    BY <2>1, <2>2 DEF CountersAgree
<1>2. QED
  BY <1>1, CountInit, CountStep, PTL DEF Spec

\* The type invariant: no counter that counts queries runs past their number, and
\* the ring and the channel stay within their capacities.
THEOREM TypeAlways == Spec => []TypeOK
<1>1. CountInv => TypeOK
  <2> SUFFICES ASSUME CountInv PROVE TypeOK
    OBVIOUS
  <2>0. Types /\ IsFiniteSet(Requests) /\ Cardinality(Requests) \in Nat
    BY FrontendAssumption, FS_CardinalityType DEF CountInv, BaseInv
  <2>1. ASSUME NEW c \in PerQuery PROVE count[c] <= Cardinality(Requests)
    <3>1. Later(c) \subseteq Requests
      BY DEF Later, At
    <3>2. Cardinality(Later(c)) <= Cardinality(Requests) /\ Cardinality(Later(c)) \in Nat
      BY <2>0, <3>1, FS_Subset, FS_CardinalityType
    <3>3. count[c] <= Cardinality(Later(c)) /\ count[c] \in Nat
      BY <2>0, CounterNames DEF CountInv, BoundInv, Types
    <3>4. QED
      BY <2>0, <3>2, <3>3
  <2>2. responses \in [Codes -> 0..Cardinality(Requests)]
    <3>1. Answered <= Cardinality(Requests)
      <4>1. Sent \subseteq Requests
        BY DEF Sent, Logged, At
      <4>2. Cardinality(Sent) <= Cardinality(Requests)
        BY <2>0, <4>1, FS_Subset
      <4>3. QED
        BY <4>2 DEF CountInv, SumInv
    <3>2. \A c \in Codes : responses[c] \in Nat
      BY <2>0 DEF Types
    <3>3. \A c \in Codes : responses[c] <= Answered
      BY <3>2 DEF Answered, Codes
    <3>4. Answered \in Nat
      BY SumTypes DEF CountInv
    <3>5. \A c \in Codes : responses[c] \in 0..Cardinality(Requests)
      BY <2>0, <3>1, <3>2, <3>3, <3>4
    <3>6. QED
      BY <2>0, <3>5 DEF Types
  <2>3. Len(ring) <= capacity
    <3>1. capacity \in Nat /\ Len(pushed) \in Nat
      BY <2>0, FrontendAssumption, LenProperties DEF Types
    <3>2. Len(ring) = IF Len(pushed) < capacity THEN Len(pushed) ELSE capacity
      BY DEF CountInv, LogInv, RingInv
    <3>3. QED
      BY <3>1, <3>2
  <2>4. QED
    BY <2>0, <2>1, <2>2, <2>3 DEF TypeOK, Types, Places
<1>2. QED
  BY <1>1, CountInit, CountStep, PTL DEF Spec
=============================================================================
