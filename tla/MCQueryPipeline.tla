--------------------------- MODULE MCQueryPipeline ---------------------------
(* A small instance of QueryPipeline for TLC. *)
EXTENDS QueryPipeline, TLC

CONSTANTS home, corp, site, ads,            \* names
          public, private, denied,          \* addresses
          kid, lab, admin, guest,           \* clients
          strict, later                     \* groups

MCNames == {home, corp, site, ads}
MCAddrs == {public, private, denied}

\* Reloading from config 1 to 2 drops the bypass, the quarantine and the
\* window, moves kid to a group the engine does not have, and swaps what is
\* pinned with what is routed.
MCConfigs == {1, 2}
Entry(bypass, zones, windows, group) ==
    [bypass |-> bypass, zones |-> zones, windows |-> windows, group |-> group]
MCPolicies == <<
    (<<kid, "v4">> :> Entry(FALSE, {}, TRUE, strict)) @@
    (<<lab, "mapped">> :> Entry(FALSE, {home}, FALSE, Default)) @@
    (<<admin, "v4">> :> Entry(TRUE, {}, FALSE, Default)),
    (<<kid, "mapped">> :> Entry(FALSE, {}, FALSE, later)) >>
MCRewrites == <<
    (home :> "answer") @@ (corp :> "nodata") @@ (site :> "none") @@ (ads :> "nxdomain"),
    (home :> "none") @@ (corp :> "none") @@ (site :> "answer") @@ (ads :> "none") >>
MCRouted == <<{}, {corp}>>
MCBlockPrivate == <<TRUE, TRUE>>
MCListStates == {{}, {ads}}
Address(n, a) == [owner |-> n, kind |-> "addr", data |-> a]
Alias(n, m) == [owner |-> n, kind |-> "cname", data |-> m]
MCOwnRecords == home :> {Address(home, private)}
MCPin == [n \in MCNames |-> Address(n, private)]
MCSinkhole == [n \in MCNames |-> Address(n, public)]

\* A plain answer, one cloaking a tracker, one with a record nobody asked for
\* beside it, and addresses that are private or denied.
MCAnswers == {
    {Address(site, public), [owner |-> site, kind |-> "other", data |-> public]},
    {Alias(site, ads), Address(ads, public)},
    {Address(site, public), Address(ads, public)},
    {Address(site, private), Address(corp, private)},
    {Alias(site, corp), Address(corp, denied)} }

Ask(client, form, n, defects, udp) ==
    [from |-> <<client, form>>, name |-> n, defects |-> defects, udp |-> udp]
MCRequests ==
    {Ask(kid, "mapped", site, {}, TRUE), Ask(lab, "v4", site, {}, TRUE),
     Ask(lab, "v4", home, {}, TRUE), Ask(admin, "v4", site, {}, FALSE),
     Ask(guest, "v4", corp, {}, TRUE), Ask(guest, "v4", ads, {}, TRUE),
     Ask(guest, "v4", site, {"unknown type"}, TRUE)}
    \cup {Ask(guest, "v4", site, d, TRUE) :
             d \in {{"malformed"}, {"opcode", "class"}, {"edns", "any"}}}
=============================================================================
