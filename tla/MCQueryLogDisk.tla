--------------------------- MODULE MCQueryLogDisk ---------------------------
(* Small instances of QueryLogDisk for TLC. *)
EXTENDS QueryLogDisk

MCFaultSets == {{}, {"data"}, {"data", "rename", "open", "edit"}}
MCOpenFails == {{"open"}}
=============================================================================
