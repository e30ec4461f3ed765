-------------------------- MODULE AuthorityLookup --------------------------
(***************************************************************************)
(* What the authority of rustydns answers: how static records and the      *)
(* records of a mesh bundle become a snapshot of zones and records, which  *)
(* names the snapshot claims, and which records a query gets.              *)
(***************************************************************************)
EXTENDS DnsNames, Selection

CONSTANTS
    MaxCnameDepth,   \* MAX_CNAME_DEPTH: hops followed inside the zones
    StaticTtl        \* STATIC_RECORD_TTL: the ttl of a record that names none

ASSUME LookupAssumption ==
    /\ MaxCnameDepth \in Nat
    /\ StaticTtl \in Nat \ {0}

-----------------------------------------------------------------------------
(* Names.                                                                  *)

\* The zone itself or a name below it.  Nothing but the root is in the root
\* zone: "a." does not end in a dot that follows another.
name_within_zone(name, zone) ==
    \/ name = zone
    \/ /\ zone # <<>>
       /\ Len(name) > Len(zone)
       /\ IsSuffix(zone, name)

-----------------------------------------------------------------------------
(* Static records.  A word of a target is a number or a host name; a TXT   *)
(* target has a length in bytes.                                           *)

StaticRecord ==
    [ name : DnsName, type : STRING, address : STRING, bytes : Nat, ttl : Nat,
      target : Seq([kind : STRING, value : Nat, host : DnsName]) ]

\* A field that must hold a number of 16 bits.
parse_u16(word) == word.kind = "number" /\ word.value < 2^16

\* Whether the record as configured can be converted.
Convertible(sr) ==
    LET words == sr.target IN
    \/ sr.type = "A" /\ sr.address = "v4"
    \/ sr.type = "AAAA" /\ sr.address = "v6"
    \/ sr.type \in {"CNAME", "PTR", "NS"} /\ words # <<>>
    \/ sr.type = "TXT" /\ words # <<>> /\ sr.bytes <= 255
    \/ sr.type = "MX" /\ Len(words) = 2 /\ parse_u16(words[1])
    \/ sr.type = "SRV" /\ Len(words) = 4 /\ \A i \in 1..3 : parse_u16(words[i])

\* The name a record leads to: the last word of its target.
Target(sr) ==
    IF sr.type \in {"CNAME", "PTR", "NS", "MX", "SRV"}
    THEN normalise_name(Last(sr.target).host)
    ELSE <<>>

\* The record kept in memory.
static_record_to_dns_record(sr) ==
    [ name   |-> normalise_name(sr.name),
      type   |-> sr.type,
      target |-> Target(sr),
      ttl    |-> IF sr.ttl = 0 THEN StaticTtl ELSE sr.ttl,
      node   |-> "none" ]

\* The zone a static record makes the authority claim: the name's parent, or
\* the name itself when it is a single label.
static_zone_apex(name) == IF Len(name) >= 2 THEN Tail(name) ELSE name

\* Whether it may: never the root, and a single label (a whole top-level
\* domain) only if it is the mesh zone or declared in authority.zones.
MayClaim(name, mesh, declared) ==
    /\ name # <<>>
    /\ Len(static_zone_apex(name)) = 1 => static_zone_apex(name) \in declared \cup {mesh}

-----------------------------------------------------------------------------
(* A configuration is [mesh, zones, static]; a bundle is a sequence of     *)
(* entries.                                                                *)

AuthoritySection == [mesh : DnsName, zones : Seq(DnsName), static : Seq(StaticRecord)]

BundleRecord ==
    [ label : DnsName, rr_type : STRING, target_addr_kind : STRING, expected_ip : STRING,
      ttl : Nat, node : STRING, aliases : Seq(DnsName) ]

DeclaredZones(config) == {normalise_name(z) : z \in ToSet(config.zones)}

MeshZone(config) == normalise_name(config.mesh)

\* One bad record refuses the whole configuration.
Accepts(config) ==
    \A i \in DOMAIN config.static :
        /\ Convertible(config.static[i])
        /\ MayClaim(normalise_name(config.static[i].name), MeshZone(config),
                    DeclaredZones(config))

StaticRecords(config) ==
    [i \in DOMAIN config.static |-> static_record_to_dns_record(config.static[i])]

\* Declared zones are claimed even while no record lies below them.
StaticZones(config) ==
    {static_zone_apex(r.name) : r \in ToSet(StaticRecords(config))}
        \cup (DeclaredZones(config) \ {MeshZone(config)})

\* The label and every alias must be one well-formed label.
validate_single_label(value) == Len(value) = 1 /\ value[1] \in DOMAIN Lower

\* An entry the bundle may hold; a field that is missing has no such value.
EntryValid(entry) ==
    /\ validate_single_label(entry.label)
    /\ entry.rr_type = "A"
    /\ entry.target_addr_kind = "mesh_ipv4"
    /\ entry.expected_ip = "v4"
    /\ entry.ttl \in Nat
    /\ \A i \in DOMAIN entry.aliases : validate_single_label(entry.aliases[i])

\* An address record for the label and for each alias, tagged with the node.
build_record(entry, mesh) ==
    LET names == <<entry.label>> \o entry.aliases IN
    [i \in DOMAIN names |->
        [ name   |-> normalise_name(names[i]) \o mesh,
          type   |-> "A",
          target |-> <<>>,
          ttl    |-> entry.ttl,
          node   |-> entry.node ]]

\* The records of a bundle: one bad entry refuses the bundle, and the
\* authority runs with its static records alone.
MeshRecords(config, bundle) ==
    IF \A i \in DOMAIN bundle : EntryValid(bundle[i])
    THEN FlattenSeq([i \in DOMAIN bundle |-> build_record(bundle[i], MeshZone(config))])
    ELSE <<>>

\* Static records first, then the mesh's; every mesh name is a zone as well.
build_snapshot(config, bundle) ==
    LET mesh == MeshRecords(config, bundle) IN
    [ records |-> StaticRecords(config) \o mesh,
      zones   |-> StaticZones(config) \cup {r.name : r \in ToSet(mesh)} ]

mesh_record_count(snap) == Cardinality({i \in DOMAIN snap.records : snap.records[i].node # "none"})

-----------------------------------------------------------------------------
(* Lookup.                                                                 *)

is_authoritative_for(config, snap, name) ==
    \E zone \in snap.zones \cup {MeshZone(config)} : name_within_zone(name, zone)

\* The records at a name, of one type or all of them.
RecordsAt(snap, name, type) ==
    Select(snap.records, {i \in DOMAIN snap.records : /\ snap.records[i].name = name
                                                      /\ type \in {snap.records[i].type, "ANY"}})

\* The walk goes on after a loop and outside the zones.
Chase_unchecked(config, snap, first, type) ==
    LET step[i \in 0..MaxCnameDepth] ==
          IF i = 0
          THEN [out |-> <<first>>, next |-> first.target, done |-> FALSE]
          ELSE LET s == step[i - 1]
                   terminal == RecordsAt(snap, s.next, type)
                   aliases == RecordsAt(snap, s.next, "CNAME")
               IN  IF s.done \/ (terminal = <<>> /\ aliases = <<>>)
                   THEN [s EXCEPT !.done = TRUE]
                   ELSE IF terminal # <<>>
                   THEN [s EXCEPT !.out = @ \o terminal, !.done = TRUE]
                   ELSE [s EXCEPT !.out = Append(@, aliases[1]), !.next = aliases[1].target]
    IN  step[MaxCnameDepth].out

\* The walk along the aliases from a first one.  Each turn ends the walk at a
\* name seen before, outside the zones, at records of the type, or at a name
\* with nothing to follow, and else takes the next alias.
Chase(config, snap, first, type) ==
    LET step[i \in 0..MaxCnameDepth] ==
          IF i = 0
          THEN [out |-> <<first>>, next |-> first.target, visited |-> {first.name}, done |-> FALSE]
          ELSE LET s == step[i - 1]
                   terminal == RecordsAt(snap, s.next, type)
                   aliases == RecordsAt(snap, s.next, "CNAME")
               IN  IF \/ s.done
                      \/ s.next \in s.visited
                      \/ ~is_authoritative_for(config, snap, s.next)
                      \/ (terminal = <<>> /\ aliases = <<>>)
                   THEN [s EXCEPT !.done = TRUE]
                   ELSE IF terminal # <<>>
                   THEN [s EXCEPT !.out = @ \o terminal, !.done = TRUE]
                   ELSE [s EXCEPT !.out = Append(@, aliases[1]),
                                  !.next = aliases[1].target,
                                  !.visited = @ \cup {s.next}]
    IN  step[MaxCnameDepth].out

\* The records at the name, or the aliases from it and what they lead to.
collect_with_cname_chain(config, snap, name, type) ==
    LET direct == RecordsAt(snap, name, type)
        aliases == RecordsAt(snap, name, "CNAME")
    IN  IF type \in {"CNAME", "ANY"} \/ direct # <<>> \/ aliases = <<>>
        THEN direct
        ELSE Chase(config, snap, aliases[1], type)

\* "none" passes the query on to the blocklist and the resolver; an empty
\* answer is authoritative.
lookup(config, snap, typed, type) ==
    LET name == normalise_name(typed) IN
    IF is_authoritative_for(config, snap, name)
    THEN [claimed |-> TRUE, records |-> collect_with_cname_chain(config, snap, name, type)]
    ELSE [claimed |-> FALSE, records |-> <<>>]

-----------------------------------------------------------------------------
(* Properties of a configuration with a bundle, and of a query to it.      *)

\* The names an operator wrote in an authority section.
SectionNames(config) == {config.mesh} \cup {config.static[i].name : i \in DOMAIN config.static}

\* The aliases an answer begins with, and the name they lead to.
Aliases(out) == Select(out, {i \in DOMAIN out : out[i].type = "CNAME"})
End(name, out) == IF Aliases(out) = <<>> THEN name ELSE Last(Aliases(out)).target

\* An answer is a chain of aliases from the name asked for, no name twice and
\* each within the zones, and then all records of the type at the end of it.  It
\* breaks off without them only where the chain leaves the zones, comes back to
\* a name of it, ends in a name that has none, or is longer than the limit: a
\* loop or a long chain costs a client no more than that.
AnswerIsTheChain(config, snap, typed, type) ==
    LET name == normalise_name(typed)
        found == lookup(config, snap, typed, type)
        out == found.records
        chain == Aliases(out)
        end == End(name, out)
        owners == {chain[i].name : i \in DOMAIN chain}
    IN  found.claimed /\ type \notin {"CNAME", "ANY"} =>
          /\ chain # <<>> => chain[1].name = name
          /\ \A i \in 2..Len(chain) : chain[i].name = chain[i - 1].target
          /\ Cardinality(owners) = Len(chain)
          /\ \A n \in owners : is_authoritative_for(config, snap, n)
          /\ Len(chain) <= MaxCnameDepth + 1
          /\ IF Len(out) > Len(chain)
             THEN out = chain \o RecordsAt(snap, end, type)
             ELSE \/ end \in owners
                  \/ ~is_authoritative_for(config, snap, end)
                  \/ Len(chain) = MaxCnameDepth + 1
                  \/ RecordsAt(snap, end, type) \o RecordsAt(snap, end, "CNAME") = <<>>

\* The authority never answers for a whole top-level domain or the root unless
\* the operator declared it or it is the mesh zone: a name directly below any
\* other label is left to the resolver, whatever records and bundle are loaded.
\* Fresh is a label that no record has.
ClaimsOnlyDeclared(config, bundle, Labels, Fresh) ==
    Accepts(config) =>
        LET snap == build_snapshot(config, bundle) IN
        /\ ~is_authoritative_for(config, snap, <<>>)
        /\ \A label \in Labels :
              is_authoritative_for(config, snap, <<Fresh, label>>) =>
                  <<label>> \in DeclaredZones(config) \cup {MeshZone(config)}

\* Every static record is answered to a query for its name and type, in any
\* spelling, whatever bundle is merged; and no bundle makes the authority claim
\* a name outside the mesh zone that it did not claim before.
StaticAlwaysServed(config, bundle, Asked) ==
    Accepts(config) =>
        LET snap == build_snapshot(config, bundle) IN
        /\ \A sr \in ToSet(config.static) :
              LET found == lookup(config, snap, sr.name, sr.type)
              IN  found.claimed /\ static_record_to_dns_record(sr) \in ToSet(found.records)
        /\ \A typed \in Asked :
              lookup(config, snap, typed, "ANY").claimed =>
                  \/ lookup(config, build_snapshot(config, <<>>), typed, "ANY").claimed
                  \/ name_within_zone(normalise_name(typed), MeshZone(config))
=============================================================================
