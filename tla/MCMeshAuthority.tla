--------------------------- MODULE MCMeshAuthority ---------------------------
(* A small instance of MeshAuthority for TLC. *)
EXTENDS MeshAuthority

\* Two generations, a same-second republication under a higher nonce, a bundle
\* that expires inside the run, and a signed one whose lifetime is empty.
MCBundles == {
    [gen |-> 0, nonce |-> 0, expires |-> 3, count |-> 1],
    [gen |-> 0, nonce |-> 1, expires |-> 3, count |-> 2],
    [gen |-> 1, nonce |-> 0, expires |-> 2, count |-> 3],
    [gen |-> 2, nonce |-> 0, expires |-> 2, count |-> 4] }
=============================================================================
