----------------------------- MODULE NameRules -----------------------------
(***************************************************************************)
(* The rules on names: what a blocklist source contributes (crates/        *)
(* rustydns-blocklist/src/parser.rs), which names the loaded lists and the *)
(* allowlist block (engine.rs, allowlist.rs), and what a rewrite answers   *)
(* (crates/rustydnsd/src/rewrite.rs), Safe Search included.                *)
(*                                                                         *)
(* A wildcard "*.x" is a name whose first label is "*", and ".x" one whose *)
(* first label is empty: neither is the label of a query.                  *)
(***************************************************************************)
EXTENDS DnsNames, AddressRules, FiniteSets, FiniteSetsExt

CONSTANT AlwaysSkipped    \* localhost and its like, never an entry

\* is_always_skipped: every one of them is a single label.  To
\* validate_and_normalize an asterisk is a label like another.
ASSUME SkippedAssumption == \A name \in AlwaysSkipped : Len(name) = 1
ASSUME AsteriskAssumption == "*" \in DOMAIN Lower

-----------------------------------------------------------------------------
(* Parsing a source.  A line is [kind, names, says, long]: kind is the     *)
(* format it is written in or "comment", says what it asks for ("block",   *)
(* "allow" or something the parser ignores), long that it exceeds          *)
(* MAX_LINE_BYTES.                                                         *)

LineRecord ==
    [ kind : {"comment", "hosts", "plain", "rpz", "adguard"}, names : Seq(DnsName),
      says : STRING, long : BOOLEAN ]
SourceRecord == [lines : Seq(LineRecord), trusted : BOOLEAN]

\* The format of the first line that is no comment; Plain for an empty source.
detect_format(lines) ==
    LET content == {i \in DOMAIN lines : lines[i].kind # "comment"}
    IN  IF content = {} THEN "plain" ELSE lines[Min(content)].kind

\* Printable labels of at most 63 bytes, none of them empty.
validate_and_normalize(typed) == typed # <<>> /\ WellFormed(typed)

\* An entry for a top-level domain is refused, to block or to allow.
validate_block_entry(typed) == validate_and_normalize(typed) /\ Len(typed) >= 2
validate_allow_entry(typed) == validate_and_normalize(typed) /\ Len(typed) >= 2

Entry(what, typed) == [what |-> what, name |-> normalise_name(typed)]

\* A hosts or plain line blocks each of its names.
ExactEntries(names) ==
    {Entry("exact", d) : d \in {x \in names :
        validate_block_entry(x) /\ normalise_name(x) \notin AlwaysSkipped}}

AllowEntries(line) ==
    {Entry("allow", d) : d \in {x \in ToSet(line.names) : validate_allow_entry(x)}}

\* "*.x CNAME ." blocks what is below x, "x CNAME ." blocks x itself, and a
\* passthru allows the name as it is written.
parse_rpz(line) ==
    LET wild == {x \in ToSet(line.names) : x # <<>> /\ x[1] = "*"} IN
    CASE line.says = "allow" -> AllowEntries(line)
      [] line.says = "block" ->
            {Entry("parent", Tail(d)) : d \in {x \in wild : validate_block_entry(Tail(x))}}
              \cup ExactEntries(ToSet(line.names) \ wild)
      [] OTHER -> {}

\* "||x^" blocks x and what is below it, "@@||x^" allows x.
parse_adguard(line) ==
    CASE line.says = "allow" -> AllowEntries(line)
      [] line.says = "block" ->
            LET exact == ExactEntries(ToSet(line.names))
            IN  exact \cup {[e EXCEPT !.what = "parent"] : e \in exact}
      [] OTHER -> {}

\* The parser of the format makes nothing a query could match of a line written
\* in another.
ParseLine(line, format) ==
    IF line.long \/ line.kind # format THEN {}
    ELSE CASE format \in {"hosts", "plain"} -> ExactEntries(ToSet(line.names))
           [] format = "rpz" -> parse_rpz(line)
           [] format = "adguard" -> parse_adguard(line)

parse(lines) == UNION {ParseLine(lines[i], detect_format(lines)) : i \in DOMAIN lines}

-----------------------------------------------------------------------------
(* The allowlist and the state of a set of sources.                        *)

IsWildcard(typed) == Len(typed) > 1 /\ typed[1] \in {"*", ""}

\* Allowlist::from_entries
from_entries(entries) ==
    [ exact    |-> {normalise_name(e) : e \in {x \in ToSet(entries) : x # <<>> /\ ~IsWildcard(x)}},
      suffixes |-> {normalise_name(Tail(e)) : e \in {x \in ToSet(entries) : IsWildcard(x)}} ]

extend_exact(allow, names) == [allow EXCEPT !.exact = @ \cup names]

\* The name itself, or a wildcard above it.
is_allowed(allow, name) ==
    name # <<>> /\ (name \in allow.exact \/ Parents(name) \cap allow.suffixes # {})

\* A source is [lines, trusted]: allow entries of one that is not trusted are
\* dropped and counted.
build_state(sources, allowlist, regex) ==
    LET Of(what, S) == {e.name : e \in {x \in UNION {parse(s.lines) : s \in S} : x.what = what}}
        all == ToSet(sources)
    IN  [ domains   |-> Of("exact", all),
          parents   |-> Of("parent", all),
          allow     |-> extend_exact(from_entries(allowlist),
                                     Of("allow", {s \in all : s.trusted})),
          regex     |-> regex ]

\* Only the parent just above the name is looked up.
is_blocked_shallow(state, typed) ==
    LET name == normalise_name(typed) IN
    /\ name # <<>>
    /\ ~is_allowed(state.allow, name)
    /\ \/ name \in state.domains
       \/ Len(name) > 1 /\ Tail(name) \in state.parents
       \/ name \in state.regex

\* The allowlist wins; then the name, the wildcards above it and the patterns.
is_blocked(state, typed) ==
    LET name == normalise_name(typed) IN
    /\ name # <<>>
    /\ ~is_allowed(state.allow, name)
    /\ \/ name \in state.domains
       \/ Parents(name) \cap state.parents # {}
       \/ name \in state.regex

-----------------------------------------------------------------------------
(* Rewrites.  A rule is [name, kind, ip, target] with kind one of          *)
(* "address", "cname", "block" and "bad" (an address that does not parse). *)

RewriteRecord ==
    [ name : DnsName, kind : {"address", "cname", "block", "bad"}, ip : Addresses,
      target : DnsName ]

\* An address is kept in its native family.
RuleAction(rule) == [kind |-> rule.kind, ip |-> Unmapped(rule.ip), target |-> rule.target]

\* RewriteMap::from_rules: for one name the last rule counts.
ExactAction(rules, name) ==
    LET at == {i \in DOMAIN rules : /\ rules[i].kind # "bad"
                                    /\ ~IsWildcard(rules[i].name)
                                    /\ normalise_name(rules[i].name) = name}
    IN  {RuleAction(rules[i]) : i \in IF at = {} THEN {} ELSE {Max(at)}}

WildcardOrder_asWritten(rules, i, j) == i < j

\* The wildcards, the longest first and in the order given among equals.
WildcardOrder(rules, i, j) ==
    \/ Len(rules[i].name) > Len(rules[j].name)
    \/ Len(rules[i].name) = Len(rules[j].name) /\ i < j

\* The wildcards above a name.
WildcardsAbove(rules, name) ==
    {i \in DOMAIN rules : /\ rules[i].kind # "bad"
                          /\ IsWildcard(rules[i].name)
                          /\ normalise_name(Tail(rules[i].name)) \in Parents(name)}

\* An alias answers every type, an address the types of its family, and a
\* pinned name is never asked upstream.
decide(action, qtype) ==
    CASE action.kind = "block" -> "nxdomain"
      [] action.kind = "cname" -> "cname"
      [] action.kind = "address" ->
            IF qtype \in {IF action.ip.family = "v4" THEN "A" ELSE "AAAA", "ANY"}
            THEN "address" ELSE "nodata"

\* The action for a name: of its own rule, or of the first wildcard above it.
MatchingAction(rules, typed) ==
    LET name == normalise_name(typed)
        own == ExactAction(rules, name)
        above == WildcardsAbove(rules, name)
    IN  IF name = <<>> THEN {}
        ELSE IF own # {} THEN own
        ELSE {RuleAction(rules[i]) :
                i \in {x \in above : \A y \in above : x = y \/ WildcardOrder(rules, x, y)}}

rewrite_lookup(rules, typed, qtype) == {decide(a, qtype) : a \in MatchingAction(rules, typed)}

EngineRecord == [name : DnsName, target : DnsName]

\* SafeSearchConfig::rewrite_rules: an alias for each name of an engine.
safesearch_rules(engines) ==
    [i \in DOMAIN engines |-> [name |-> engines[i].name, kind |-> "cname",
                               ip |-> V4(0), target |-> engines[i].target]]

\* The operator's rules come after and so win for the same name.
combined_rewrite_rules(engines, rules) == safesearch_rules(engines) \o rules

-----------------------------------------------------------------------------
(* Properties.                                                             *)

\* A line of a source names a query, as itself or as something above it; an
\* entry of a single label names nothing.
LineNames(line, name) ==
    \E d \in {x \in ToSet(line.names) : WellFormed(x) /\ Len(x) >= 2} :
        LET below == name # normalise_name(d) /\ IsSuffix(normalise_name(d), name) IN
        CASE line.kind \in {"hosts", "plain"} -> normalise_name(d) = name
          [] line.kind = "adguard" -> line.says = "block" /\ (normalise_name(d) = name \/ below)
          [] line.kind = "rpz" ->
                /\ line.says = "block"
                /\ IF d # <<>> /\ d[1] = "*"
                   THEN Len(d) > 2 /\ Len(name) >= Len(d) /\ IsSuffix(normalise_name(Tail(d)), name)
                   ELSE normalise_name(d) = name
          [] OTHER -> FALSE

\* A query is blocked exactly when a line of a source, in the format the source
\* begins with, names it or a wildcard far above it, or a pattern does, unless
\* the operator or a trusted source allows it; and however it is spelled.
BlockedAsListed(sources, allowlist, regex, typed) ==
    LET name == normalise_name(typed)
        named == \E s \in ToSet(sources) : \E i \in DOMAIN s.lines :
                    /\ s.lines[i].kind = detect_format(s.lines) /\ ~s.lines[i].long
                    /\ LineNames(s.lines[i], name)
        passed == \E s \in ToSet(sources) : \E i \in DOMAIN s.lines :
                    /\ s.trusted /\ s.lines[i].kind = detect_format(s.lines)
                    /\ ~s.lines[i].long /\ s.lines[i].kind \in {"rpz", "adguard"}
                    /\ s.lines[i].says = "allow"
                    /\ \E d \in ToSet(s.lines[i].names) : WellFormed(d) /\ normalise_name(d) = name
        allowed == \E e \in ToSet(allowlist) :
                    IF IsWildcard(e) THEN normalise_name(Tail(e)) \in Parents(name)
                    ELSE normalise_name(e) = name
    IN  Len(name) >= 2 =>
          (is_blocked(build_state(sources, allowlist, regex), typed) <=>
              ~allowed /\ ~passed /\ (named \/ name \in regex))

\* Whether a rule is about a name, and how closely.
Closeness(rule, name) ==
    IF rule.kind = "bad" THEN 0
    ELSE IF ~IsWildcard(rule.name)
    THEN IF normalise_name(rule.name) = name THEN Len(name) + 1 ELSE 0
    ELSE IF normalise_name(Tail(rule.name)) \in Parents(name) THEN Len(rule.name) ELSE 0

\* A name that any rule is about is answered by the closest one and never asked
\* upstream, whatever its type and wherever in the configuration the rule stands.
ClosestRewriteAnswers(rules, typed, qtype) ==
    LET name == normalise_name(typed)
        about == {i \in DOMAIN rules : Closeness(rules[i], name) > 0}
        closest == {i \in about : \A j \in about :
                       Closeness(rules[i], name) >= Closeness(rules[j], name)}
    IN  name # <<>> =>
          /\ about = {} <=> rewrite_lookup(rules, typed, qtype) = {}
          /\ about # {} =>
                \E i \in closest :
                    MatchingAction(rules, typed) = {RuleAction(rules[i])}

\* With Safe Search on, the name of an engine is answered with the restricted
\* one, unless the operator wrote a rule for that very name,
\* which then decides; a wildcard of the operator's does not get round it.
SafeSearchHolds(engines, rules) ==
    \A e \in ToSet(engines) :
        LET own == {i \in DOMAIN rules : /\ rules[i].kind # "bad" /\ ~IsWildcard(rules[i].name)
                                         /\ normalise_name(rules[i].name) = normalise_name(e.name)}
            action == MatchingAction(combined_rewrite_rules(engines, rules), e.name)
        IN  IF own = {}
            THEN \E a \in action : a.kind = "cname" /\ \E x \in ToSet(engines) :
                    normalise_name(x.name) = normalise_name(e.name) /\ a.target = x.target
            ELSE action = {RuleAction(rules[Max(own)])}
=============================================================================
