---------------------------- MODULE MCRateLimiter ----------------------------
(* Two IPv4 hosts, one of them also in its mapped form, loopback written     *)
(* both ways, and two addresses of one IPv6 /64.                             *)
EXTENDS RateLimiter, TLC

CONSTANTS w1, w2

V4(h) == [family |-> "v4", net |-> "::", host |-> h]
Mapped(h) == [family |-> "mapped", net |-> "::", host |-> h]
V6(n, h) == [family |-> "v6", net |-> n, host |-> h]

MCLoopback == {V4("lo"), V6("::", "1")}
MCAddrs == {V4("a"), Mapped("a"), Mapped("b"), Mapped("lo"),
            V6("p", "x"), V6("p", "y")}

\* The workers are interchangeable.
WorkerSymmetry == Permutations(Workers)
=============================================================================
