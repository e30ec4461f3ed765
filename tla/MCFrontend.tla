----------------------------- MODULE MCFrontend -----------------------------
(* A small instance of Frontend for TLC. *)
EXTENDS Frontend

\* One verdict that has no counter, whose code does not fit the log, one of a gate
\* and one of the blocklist.
MCVerdicts == {
    <<None, "BADVERS", "Rejected">>,
    <<"authority_hits", "NOERROR", "Authority">>,
    <<"blocklist_hits", "REFUSED", "Blocklist">> }
=============================================================================
