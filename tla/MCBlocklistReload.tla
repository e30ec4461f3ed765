-------------------------- MODULE MCBlocklistReload --------------------------
(* Small instances of BlocklistReload for TLC. *)
EXTENDS BlocklistReload, TLC

CONSTANTS file, url, ads, cdn, shop

MCSources == {file, url}
MCNames == {ads, cdn, shop}

\* The default list reads the file and, as an untrusted source, the URL; the
\* group reads the URL and trusts it.
MCLocalFiles == [l \in 0..NumGroups |-> IF l = 0 THEN {file} ELSE {}]
MCRemoteUrls == [l \in 0..NumGroups |-> {url}]
MCTrustedRpz == [l \in 0..NumGroups |-> IF l = 0 THEN {} ELSE {url}]

\* The operator never wants `shop' blocked; a regex rule and both sources do.
MCAllowEntries == [l \in 0..NumGroups |-> IF l = 0 THEN {shop} ELSE {}]
MCRegexNames == {shop}

\* The URL's second version tries to allow what the file blocks.
MCBody ==
    (file :> [v \in 0..MaxVersion |-> [block |-> {ads}, allow |-> {}]]) @@
    (url  :> [v \in 0..MaxVersion |->
                IF v = 0 THEN [block |-> {cdn, shop}, allow |-> {}]
                         ELSE [block |-> {cdn, shop}, allow |-> {ads}]])
=============================================================================
