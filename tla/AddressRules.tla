---------------------------- MODULE AddressRules ----------------------------
(***************************************************************************)
(* What rustydns does with addresses: the response-IP denylist             *)
(* (crates/rustydns-core/src/ip_denylist.rs), the anonymised client of the *)
(* logs (client.rs) and the private ranges of the rebinding defence        *)
(* (crates/rustydns-resolver/src/lib.rs).                                  *)
(*                                                                         *)
(* An address is [family, bits].  The widths are parameters; the code has  *)
(* 32 and 128 bits, an IPv4 address being mapped into IPv6 below a prefix  *)
(* of 96 bits.                                                             *)
(***************************************************************************)
EXTENDS Naturals, Sequences, SequencesExt

CONSTANTS
    V4Bits, V6Bits,
    MappedPrefix,       \* the high bits of ::ffff:0:0/96
    V4Kept, V6Kept,     \* the bits of a client that the logs keep: 16 and 64
    PrivateV4, PrivateV6

ASSUME AddressAssumption ==
    /\ V4Bits \in Nat /\ V6Bits \in Nat /\ V4Bits < V6Bits
    /\ MappedPrefix \in 0..(2^(V6Bits - V4Bits) - 1)
    /\ V4Kept \in 0..V4Bits /\ V6Kept \in 0..V6Bits
    /\ PrivateV4 \subseteq 0..(2^V4Bits - 1) /\ PrivateV6 \subseteq 0..(2^V6Bits - 1)

\* What a power of two is, up to the width of an address: to the provers "^" is
\* an operator they know nothing of.
ASSUME PowerAssumption ==
    /\ 2^0 = 1
    /\ \A n \in 0..(V6Bits - 1) : 2^(n + 1) = 2 * 2^n

V4(bits) == [family |-> "v4", bits |-> bits]
V6(bits) == [family |-> "v6", bits |-> bits]
Width(family) == IF family = "v4" THEN V4Bits ELSE V6Bits
Addresses == {V4(b) : b \in 0..(2^V4Bits - 1)} \cup {V6(b) : b \in 0..(2^V6Bits - 1)}

\* to_ipv4_mapped
IsMapped(ip) == ip.family = "v6" /\ ip.bits \div 2^V4Bits = MappedPrefix
Unmapped(ip) == IF IsMapped(ip) THEN V4(ip.bits % 2^V4Bits) ELSE ip
Mapped(ip) == IF ip.family = "v4" THEN V6(MappedPrefix * 2^V4Bits + ip.bits) ELSE ip

\* The address with all but its first bits cleared: bits & mask.
Masked(ip, prefix) ==
    LET rest == 2^(Width(ip.family) - prefix) IN [ip EXCEPT !.bits = @ - (@ % rest)]

-----------------------------------------------------------------------------
(* IpDenylist.  An entry is [ip, prefix]; a bare address has the prefix of *)
(* its width.                                                              *)

DenylistEntry == [ip : Addresses, prefix : Nat]

\* parse_prefix
EntryParses(entry) == entry.prefix <= Width(entry.ip.family)

parse_entry_raw(entry) == [ip |-> Masked(entry.ip, entry.prefix), prefix |-> entry.prefix]

\* A mapped range that lies within the mapped addresses is kept as the range
\* of IPv4 addresses it means; a wider one stays what it is.
parse_entry(entry) ==
    LET mapped == IsMapped(entry.ip) /\ entry.prefix >= V6Bits - V4Bits
        ip == IF mapped THEN Unmapped(entry.ip) ELSE entry.ip
        prefix == IF mapped THEN entry.prefix - (V6Bits - V4Bits) ELSE entry.prefix
    IN  [ip |-> Masked(ip, prefix), prefix |-> prefix]

DenylistOf(entries) == {parse_entry(entries[i]) : i \in DOMAIN entries}

Hit(denylist, ip) ==
    \E rule \in denylist :
        rule.ip.family = ip.family /\ Masked(ip, rule.prefix) = rule.ip

\* A mapped address is also tried as the IPv4 address it holds.
denylist_contains(denylist, ip) == Hit(denylist, ip) \/ Hit(denylist, Unmapped(ip))

-----------------------------------------------------------------------------
(* ClientId::anonymized: the network of the client, an IPv4 client being   *)
(* the same whichever family reported it; a node id is never part of it.   *)

anonymized(client) ==
    LET ip == Unmapped(client.ip)
    IN  Masked(ip, IF ip.family = "v4" THEN V4Kept ELSE V6Kept)

\* ClientId::full, for operators who log client addresses.
full(client) == client

-----------------------------------------------------------------------------
(* The rebinding defence: private, loopback, link-local, unspecified,      *)
(* documentation and multicast ranges of either family.                    *)

is_private_or_internal(ip) ==
    LET native == Unmapped(ip)
    IN  native.bits \in IF native.family = "v4" THEN PrivateV4 ELSE PrivateV6

-----------------------------------------------------------------------------
(* Properties.                                                             *)

\* Two addresses are one host to the network: an IPv4 address and its mapped
\* spelling.
SameHost(a, b) == Unmapped(a) = Unmapped(b)

\* The first bits of an address as a number, counted in either family from the
\* same end.
Network(ip, prefix) == ip.bits \div 2^(Width(ip.family) - prefix)

\* An entry names the addresses that agree with it on its prefix; an entry
\* within IPv4, in either spelling, names its hosts in either spelling.
EntryNames(entry, ip) ==
    IF entry.ip.family = "v6" /\ entry.prefix < V6Bits - V4Bits
    THEN ip.family = "v6" /\ Network(ip, entry.prefix) = Network(entry.ip, entry.prefix)
    ELSE LET wide == IF entry.ip.family = "v4" THEN entry.prefix + (V6Bits - V4Bits) ELSE entry.prefix
         IN  Network(Mapped(ip), wide) = Network(Mapped(entry.ip), wide)

\* The denylist blocks exactly the addresses its entries name, whichever family
\* the entry and the answer are written in, from one host to all of them.
DenylistCovers(entries) ==
    (\A i \in DOMAIN entries : EntryParses(entries[i])) =>
        \A ip \in Addresses :
            denylist_contains(DenylistOf(entries), ip)
                <=> \E i \in DOMAIN entries : EntryNames(entries[i], ip)

\* Two clients look alike in the logs exactly when they are in the same
\* network: no host can be told from its neighbours, clients of different
\* networks can, and the family a socket reports changes nothing.
AnonymisedByNetwork(a, b) ==
    LET x == Unmapped(a.ip)
        y == Unmapped(b.ip)
    IN  anonymized(a) = anonymized(b) <=>
          /\ x.family = y.family
          /\ LET kept == IF x.family = "v4" THEN V4Kept ELSE V6Kept
             IN  Network(x, kept) = Network(y, kept)
=============================================================================
