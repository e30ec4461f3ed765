------------------------ MODULE MCUpstreamResolver ------------------------
(* A small instance of UpstreamResolver for TLC. *)
EXTENDS UpstreamResolver, TLC

MCUrlKind == [a |-> "host", b |-> "literal", c |-> "malformed"]

\* A name in two nested routes and one in the outer route at most.
MCNames == {<<"www", "corp", "lan">>, <<"nas", "lan">>}

Arm(urls, protocol) == [urls |-> urls, protocol |-> protocol]
Route(zone, urls, protocol) == [zone |-> zone, urls |-> urls, protocol |-> protocol]
Config(default, routes, relays, randomize, dnssec) ==
    [default |-> default, routes |-> routes, relays |-> relays, randomize |-> randomize,
      dnssec |-> dnssec]

\* Oblivious defaults with several targets, with several relays, and one that
\* validates; a hickory default with an upstream to skip and nested routes in
\* the wrong order; and four that are refused.
MCConfigs == {
    Config(Arm(<<"a", "b">>, "odoh"), <<Route(<<"corp", "lan">>, <<"a">>, "plain")>>,
           <<"r">>, TRUE, FALSE),
    Config(Arm(<<"b">>, "odoh"), <<Route(<<"corp", "lan">>, <<"b">>, "doh")>>,
           <<"r", "s">>, TRUE, FALSE),
    Config(Arm(<<"b">>, "odoh"), <<Route(<<"corp", "lan">>, <<"b">>, "doh")>>,
           <<"r", "s">>, FALSE, TRUE),
    Config(Arm(<<"c", "a">>, "doh"),
           <<Route(<<"lan">>, <<"b">>, "plain"), Route(<<"corp", "lan">>, <<"a", "c">>, "doq")>>,
           <<>>, TRUE, TRUE),
    Config(Arm(<<"b">>, "doh"), <<Route(<<"lan">>, <<"b">>, "odoh")>>, <<"r">>, FALSE, FALSE),
    Config(Arm(<<"c", "a">>, "odoh"), <<>>, <<"r">>, TRUE, TRUE),
    Config(Arm(<<"a">>, "odoh"), <<>>, <<>>, TRUE, TRUE),
    Config(Arm(<<>>, "doh"), <<>>, <<>>, FALSE, FALSE) }
=============================================================================
