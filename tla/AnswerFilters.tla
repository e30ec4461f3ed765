--------------------------- MODULE AnswerFilters ---------------------------
(***************************************************************************)
(* What the resolver keeps of an upstream's answer (crates/rustydns-       *)
(* resolver/src/lib.rs): the records of the name asked for and of those    *)
(* its aliases lead to, of the type asked for, each once, and with the     *)
(* rebinding defence no private address.                                   *)
(*                                                                         *)
(* A record is [name, type, target, ip]; name and target as the upstream   *)
(* spelled them.                                                           *)
(***************************************************************************)
EXTENDS DnsNames, AddressRules, Selection

AnswerRecord == [name : DnsName, type : STRING, target : DnsName, ip : Addresses]

\* rdata_to_record_data: other types cannot be represented and are dropped.
Represented == {"A", "AAAA", "CNAME", "PTR", "NS", "MX", "SRV", "TXT"}

\* The owner is folded, the name an alias leads to is not.
record_to_dns_record(rec) == [rec EXCEPT !.name = normalise_name(@)]

lookup_to_dns_records(answers) ==
    LET known == Select(answers, {i \in DOMAIN answers : answers[i].type \in Represented})
    IN  [i \in DOMAIN known |-> record_to_dns_record(known[i])]

\* A single pass over the answer.
Allowed_once(records, qname) ==
    LET walk[k \in 0..Len(records)] ==
          IF k = 0 THEN {normalise_name(qname)}
          ELSE IF records[k].type = "CNAME" /\ records[k].name \in walk[k - 1]
          THEN walk[k - 1] \cup {normalise_name(records[k].target)}
          ELSE walk[k - 1]
    IN  walk[Len(records)]

\* The names reached from one by the aliases of the answer, in whatever order
\* they stand: every pass adds the targets of the names known, until none does.
Allowed(records, qname) ==
    LET pass[k \in 0..Len(records)] ==
          IF k = 0 THEN {normalise_name(qname)}
          ELSE pass[k - 1] \cup
                 {normalise_name(r.target) :
                    r \in {x \in ToSet(records) : x.type = "CNAME" /\ x.name \in pass[k - 1]}}
    IN  pass[Len(records)]

filter_out_of_bailiwick(records, qname) ==
    LET allowed == Allowed(records, qname)
    IN  Select(records, {i \in DOMAIN records : records[i].name \in allowed})

filter_wrong_type(records, qtype) ==
    Select(records, {i \in DOMAIN records : records[i].type \in {qtype, "CNAME"}})

\* The first of the records that are equal in every field.
dedup_identical(records) ==
    Select(records, {i \in DOMAIN records : \A j \in 1..(i - 1) : records[j] # records[i]})

filter_answer_sanity(records, qname, qtype) ==
    dedup_identical(filter_wrong_type(filter_out_of_bailiwick(records, qname), qtype))

filter_private_rdata(records) ==
    Select(records, {i \in DOMAIN records :
        records[i].type \in {"A", "AAAA"} => ~is_private_or_internal(records[i].ip)})

\* Both upstream transports filter alike; the rebinding defence is for answers
\* of the default upstreams.
FilterAnswer(answers, qname, qtype, private) ==
    LET sane == filter_answer_sanity(lookup_to_dns_records(answers), qname, qtype)
    IN  IF private THEN filter_private_rdata(sane) ELSE sane

-----------------------------------------------------------------------------
(* Properties.                                                             *)

\* The names an answer is about: those in every set of names that holds the
\* question and, with a name, all that its aliases lead to.
Reached(records, qname) ==
    LET aliases == {r \in ToSet(records) : r.type = "CNAME"}
        Nodes == {normalise_name(qname)} \cup {normalise_name(r.target) : r \in aliases}
        Closed == {S \in SUBSET Nodes :
                     /\ normalise_name(qname) \in S
                     /\ \A r \in aliases : r.name \in S => normalise_name(r.target) \in S}
    IN  {n \in Nodes : \A S \in Closed : n \in S}

\* An upstream can make the resolver serve nothing but the answer: whatever it
\* adds, in whatever order and however often, what is kept is exactly the
\* records its aliases lead to from the question that have the type asked for.
AnswerStaysOnTopic(answers, qname, qtype) ==
    LET records == lookup_to_dns_records(answers)
        kept == FilterAnswer(answers, qname, qtype, FALSE)
        reached == Reached(records, qname)
        wanted == {r \in ToSet(records) : r.name \in reached /\ r.type \in {qtype, "CNAME"}}
    IN  ToSet(kept) = wanted /\ Len(kept) = Cardinality(wanted)

\* With the rebinding defence no answer leads a client to a private host, in
\* either family and in the mapped spelling, and nothing else is lost.
NoPrivateHost(answers, qname, qtype) ==
    LET sane == ToSet(FilterAnswer(answers, qname, qtype, FALSE))
        kept == ToSet(FilterAnswer(answers, qname, qtype, TRUE))
        Private == {V4(b) : b \in PrivateV4} \cup
                   {V6(b) : b \in {x \in PrivateV6 : ~IsMapped(V6(x))}}
    IN  \A r \in sane :
          r \notin kept <=>
              r.type \in {"A", "AAAA"} /\ \E ip \in Private : SameHost(ip, r.ip)
=============================================================================
