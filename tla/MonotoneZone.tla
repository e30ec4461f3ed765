---------------------------- MODULE MonotoneZone ----------------------------
(***************************************************************************)
(* What the authority promises about the mesh half of its zone data: one   *)
(* register, replaced as a whole, that never goes back to an older bundle  *)
(* while the process lives.  MeshAuthority is shown to implement it.       *)
(***************************************************************************)
EXTENDS Naturals

CONSTANTS
    Bundles,    \* the signed bundles the publisher ever produces
    NoBundle    \* no mesh data: static-only mode

VARIABLES
    zone,       \* the bundle being served
    boots       \* how often the process has been restarted

zoneVars == <<zone, boots>>

\* candidate < current on the tuple (generated_at_unix, nonce).
Older(a, b) ==
    \/ a.gen < b.gen
    \/ a.gen = b.gen /\ a.nonce < b.nonce

ZoneInit ==
    /\ zone \in Bundles \cup {NoBundle}
    /\ boots = 0

\* A reload replaces the whole register; an equal version is re-applied.
Apply(b) ==
    /\ zone # NoBundle => ~Older(b, zone)
    /\ zone' = b
    /\ UNCHANGED boots

\* A restart forgets the history: the register is seeded from the file.
Reboot ==
    /\ zone' \in Bundles \cup {NoBundle}
    /\ boots' = boots + 1

ZoneNext ==
    \/ \E b \in Bundles : Apply(b)
    \/ Reboot

ZoneSpec == ZoneInit /\ [][ZoneNext]_zoneVars
=============================================================================
