------------------------------ MODULE MCDaemon ------------------------------
(* A small instance of Daemon for TLC. *)
EXTENDS Daemon

\* "any" is the wildcard address on the port of "a"; "low" is below 1024.
MCAddrs == {"a", "b", "c", "any", "low"}
MCLoopbackOf == [x \in {"any"} |-> "a"]
MCOverlapping == {{"any", "a"}}

\* Plain DNS on a, DoH on b, metrics on c.
Base ==
    [ listen |-> {"a"}, dot |-> None, doq |-> None, tls |-> None, doh |-> "b",
      timeout |-> 1, metrics |-> "c", path |-> "good" ]

\* From Base: a longer timeout; plain DNS on DoH's address and no DoH; DoT and
\* DoQ on that address, metrics moved; plain DNS and metrics changed in ways
\* that need a restart or are refused; metrics and plain DNS in conflict; a
\* public DoH without TLS.
MCConfigs == {
    Base,
    [Base EXCEPT !.timeout = 2],
    [Base EXCEPT !.listen = {"any", "b"}, !.doh = None],
    [Base EXCEPT !.dot = "b", !.doq = "b", !.tls = "cert", !.doh = "low"],
    [Base EXCEPT !.listen = {"low"}, !.doh = "any", !.tls = "cert", !.path = "bad"],
    [Base EXCEPT !.metrics = "any"] }
=============================================================================
