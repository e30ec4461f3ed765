------------------------------- MODULE Daemon -------------------------------
(***************************************************************************)
(* The main task of rustydnsd (rustydnsd/src/main.rs, listeners.rs): the   *)
(* startup, the signal loop, handle_sighup, the three listener groups that *)
(* ActiveListeners replaces one after the other, and the shutdown.         *)
(*                                                                         *)
(* A listener generation is what it was built from: for "dns" the plain,   *)
(* DoT and DoQ addresses with their TLS files, for "doh" the address and   *)
(* the upstream timeout its deadline comes from, for "metrics" the address *)
(* and the path.  The blocklist and mesh reloads of a SIGHUP are one step  *)
(* here; BlocklistReload and MeshAuthority model them.                     *)
(***************************************************************************)
EXTENDS Integers, FiniteSets

CONSTANTS
    Addrs,          \* socket addresses
    Privileged,     \* those whose port is below 1024
    Public,         \* those that are not loopback addresses
    LoopbackOf,     \* the loopback address with the port of a public one
    Overlapping,    \* pairs of addresses, one a wildcard, that compete
    TlsFiles,       \* values of (tls_cert_path, tls_key_path)
    Timeouts,       \* values of upstream.timeout_ms
    Paths,          \* values of metrics.path
    BadPaths,       \* those normalize_metrics_path refuses
    Configs,        \* what the operator writes to rustydns.toml
    None,           \* an absent address, file, generation or configuration
    MaxWrites,      \* bound: edits of rustydns.toml
    MaxSignals      \* bound: signals sent

Groups == {"dns", "doh", "metrics"}
Signals == {"HUP", "TERM", "INT"}

Config ==
    [ listen : SUBSET Addrs, dot : Addrs \cup {None}, doq : Addrs \cup {None},
      tls : TlsFiles \cup {None}, doh : Addrs \cup {None}, timeout : Timeouts,
      metrics : Addrs, path : Paths ]

\* The generations a group can have.
Generation ==
    [listen : SUBSET Addrs, dot : Addrs \cup {None}, doq : Addrs \cup {None},
     tls : TlsFiles \cup {None}]
    \cup [addr : Addrs, timeout : Timeouts] \cup [addr : Addrs, path : Paths]

ASSUME DaemonAssumption ==
    /\ Privileged \subseteq Addrs
    /\ Public \subseteq Addrs
    /\ LoopbackOf \in [Public -> Addrs \ Public]
    /\ \A a \in Public : LoopbackOf[a] \in Privileged <=> a \in Privileged
    /\ BadPaths \subseteq Paths
    /\ Configs \subseteq Config
    /\ None \notin Addrs /\ None \notin TlsFiles
    /\ None \notin Configs /\ None \notin Generation
    /\ MaxWrites \in Nat
    /\ MaxSignals \in Nat

VARIABLES
    file,           \* rustydns.toml
    writes, sent,   \* edits and signals so far
    pc, group,      \* the main task: where it is, and in which group
    new,            \* the configuration that is being applied
    hot,            \* what the resolver, and the policies, were built from
    caps,           \* whether the process may still bind privileged ports
    cur,            \* the generation serving in each group
    live,           \* the live_* fields of ActiveListeners
    fresh,          \* a generation that is bound and not yet swapped in
    retired,        \* replaced generations that still exist
    handlers,       \* the signals the process catches
    hup, term,      \* a signal waits in the stream of that name
    ctrlc,          \* the ctrl_c() future of this turn of the select
    kept,           \* history: what the last reload reported as not applied
    told,           \* history: a SIGTERM was caught
    unread          \* history: rustydns.toml was not read since the last SIGHUP

operator == <<file, writes, sent>>
listeners == <<cur, live, fresh, retired>>
signals == <<handlers, hup, term, ctrlc, told>>
vars == <<operator, pc, group, new, hot, caps, listeners, signals, kept, unread>>

-----------------------------------------------------------------------------
(* Configurations. *)

\* addrs_compete: with SO_REUSEPORT both sockets get part of the connections.
Compete(a, b) == a = b \/ {a, b} \in Overlapping

\* metrics_listen_addr and MetricsConfig::effective_listen.
EffectiveMetrics(c) == IF c.metrics \in Public THEN LoopbackOf[c.metrics] ELSE c.metrics

TcpRoles(c) ==
    ({"plain"} \X c.listen) \cup ({"dot"} \X ({c.dot} \ {None}))
        \cup ({"doh"} \X ({c.doh} \ {None})) \cup {<<"metrics", EffectiveMetrics(c)>>}

UdpRoles(c) == ({"plain"} \X c.listen) \cup ({"doq"} \X ({c.doq} \ {None}))

Apart(roles) == \A p, q \in roles : p[1] # q[1] => ~Compete(p[2], q[2])

\* ensure_doh_bind_allowed, and the same rule in validate_config.
DohBindAllowed(addr, tls) == addr \in Public => tls # None

\* DoT and DoQ need a certificate, and DoH one behind a public address.
TlsPresent(c) ==
    /\ DohBindAllowed(c.doh, c.tls)
    /\ c.dot # None \/ c.doq # None => c.tls # None

\* load_config, as far as validate_config is about listeners.
Valid(c) ==
    /\ c.listen # {}
    /\ Apart(TcpRoles(c))
    /\ Apart(UdpRoles(c))
    /\ TlsPresent(c)

\* The generation that c asks for in group g.
Wanted(g, c) ==
    CASE g = "dns" -> [listen |-> c.listen, dot |-> c.dot, doq |-> c.doq, tls |-> c.tls]
      [] g = "doh" -> IF c.doh = None THEN None
                      ELSE [addr |-> c.doh, timeout |-> c.timeout]
      [] g = "metrics" -> [addr |-> EffectiveMetrics(c), path |-> c.path]

Addresses(g, s) ==
    IF s = None THEN {}
    ELSE IF g = "dns" THEN s.listen \cup ({s.dot, s.doq} \ {None})
    ELSE {s.addr}

-----------------------------------------------------------------------------
Init ==
    /\ file \in Configs
    /\ writes = 0 /\ sent = 0
    /\ pc = "boot" /\ group = "dns"
    /\ new = None
    /\ hot = [resolver |-> None, policy |-> None]
    /\ caps = TRUE
    /\ cur = [g \in Groups |-> None]
    /\ live = [g \in Groups |-> None]
    /\ fresh = None
    /\ retired = {}
    /\ handlers = {}
    /\ hup = FALSE /\ term = FALSE /\ ctrlc = "dropped"
    /\ kept = {}
    /\ told = FALSE /\ unread = FALSE

Ended == pc \in {"failed", "killed", "stopped"}

\* Where the main task serves and can still be reloaded.
Loop == {"select", "fetch", "load", "swap", "reconcile", "install"}

\* The operating system closes every socket.
ProcessEnds(how) ==
    /\ pc' = how
    /\ cur' = [g \in Groups |-> None]
    /\ fresh' = None
    /\ retired' = {}
    /\ UNCHANGED <<operator, group, new, hot, caps, live, signals, kept, unread>>

-----------------------------------------------------------------------------
(* Startup: main, l.95 to 454. *)

\* load_config, the resolver and the handler.
Boot ==
    /\ pc = "boot"
    /\ \/ /\ Valid(file)
          /\ new' = file
          /\ hot' = [resolver |-> file, policy |-> file]
          /\ pc' = "start"
          /\ UNCHANGED <<operator, group, caps, listeners, signals, kept, unread>>
       \/ ProcessEnds("failed")

NextGroup(g) == IF g = "dns" THEN "doh" ELSE "metrics"

\* What the checks before the bind let through: a path the router accepts, a
\* DoH address that is loopback or has TLS behind it.
Acceptable(g) ==
    /\ g = "metrics" => new.path \notin BadPaths
    /\ g = "doh" => DohBindAllowed(new.doh, new.tls)

\* A bind may fail for many reasons, and below port 1024 it needs the
\* capability.  At startup systemd may have bound the DNS sockets already.
MayBind(g, s) == caps \/ Addresses(g, s) \cap Privileged = {}

\* build_dns_server, then start_doh, then start_metrics.  The capabilities are
\* dropped after the first; a failure to drop them is only logged.
Start ==
    /\ pc = "start"
    /\ LET s == Wanted(group, new) IN
       \/ /\ Acceptable(group)
          /\ MayBind(group, s)
          /\ cur' = [cur EXCEPT ![group] = s]
          /\ live' = [live EXCEPT ![group] = s]
          /\ caps' \in (IF group = "dns" THEN BOOLEAN ELSE {caps})
          /\ group' = NextGroup(group)
          /\ pc' = IF group = "metrics" THEN "register" ELSE "start"
          /\ UNCHANGED <<operator, new, hot, fresh, retired, signals, kept, unread>>
       \/ s # None /\ ProcessEnds("failed")

\* run_signal_loop subscribes to SIGHUP and SIGTERM.
Register ==
    /\ pc = "register"
    /\ handlers' = {"HUP", "TERM"}
    /\ pc' = "select"
    /\ UNCHANGED <<operator, group, new, hot, caps, listeners, hup, term, ctrlc,
                   told, kept, unread>>

-----------------------------------------------------------------------------
(* The signal loop: run_signal_loop and handle_sighup. *)

\* The select polls ctrl_c(), which subscribes to SIGINT from then on.
ArmCtrlC ==
    /\ pc = "select"
    /\ ctrlc = "dropped"
    /\ ctrlc' = "armed"
    /\ handlers' = handlers \cup {"INT"}
    /\ UNCHANGED <<operator, pc, group, new, hot, caps, listeners, hup, term, told,
                   kept, unread>>

\* Mutant: the SIGTERM stream is made in the select too, and dropped with it.
TakeHup_dropsTerm ==
    /\ pc = "select"
    /\ hup
    /\ hup' = FALSE /\ term' = FALSE
    /\ ctrlc' = "dropped"
    /\ pc' = "fetch"
    /\ UNCHANGED <<operator, group, new, hot, caps, listeners, handlers, told, kept, unread>>

\* The HUP branch wins: the other futures of this turn are dropped, and with
\* ctrl_c() a SIGINT it may have seen.  The SIGTERM stream lives on.
TakeHup ==
    /\ pc = "select"
    /\ hup
    /\ hup' = FALSE
    /\ ctrlc' = "dropped"
    /\ pc' = "fetch"
    /\ UNCHANGED <<operator, group, new, hot, caps, listeners, handlers, term, told,
                   kept, unread>>

\* The SIGTERM or the ctrl_c() branch wins: break.
TakeStop ==
    /\ pc = "select"
    /\ term \/ ctrlc = "fired"
    /\ pc' = "cancel"
    /\ ctrlc' = "dropped"
    /\ UNCHANGED <<operator, group, new, hot, caps, listeners, handlers, hup, term,
                   told, kept, unread>>

\* The blocklist fetch round, unless one ran within MIN_SIGHUP_FETCH_SPACING,
\* and reload_mesh; neither changes what follows.
Refresh ==
    /\ pc = "fetch"
    /\ pc' = "load"
    /\ UNCHANGED <<operator, group, new, hot, caps, listeners, signals, kept, unread>>

\* load_config; one that does not parse or validate ends the reload here.
LoadConfig ==
    /\ pc = "load"
    /\ unread' = FALSE
    /\ \/ /\ Valid(file)
          /\ new' = file
          /\ pc' = "swap"
       \/ /\ ~Valid(file)
          /\ pc' = "select"
          /\ UNCHANGED new
    /\ UNCHANGED <<operator, group, hot, caps, listeners, signals, kept>>

\* apply_hot_swaps: the resolver may fail to build and is then kept.
ApplyHotSwaps ==
    /\ pc = "swap"
    /\ \/ /\ hot' = [resolver |-> new, policy |-> new]
          /\ kept' = {}
       \/ /\ hot' = [hot EXCEPT !.policy = new]
          /\ kept' = {"resolver"}
    /\ pc' = "reconcile"
    /\ group' = "dns"
    /\ UNCHANGED <<operator, new, caps, listeners, signals, unread>>

-----------------------------------------------------------------------------
(* reload_listeners: reload_dns_group, reload_doh_group, reload_metrics_group. *)

\* On to the next group, or back to the select.
GroupDone ==
    /\ pc' = IF group = "metrics" THEN "select" ELSE "reconcile"
    /\ group' = NextGroup(group)

Retire(g, s) ==
    IF s = None THEN {} ELSE {[group |-> g, spec |-> s, accepting |-> TRUE]}

\* Mutant: the groups are compared by their addresses only.
Changed_address ==
    Addresses(group, Wanted(group, new)) # Addresses(group, live[group])

\* The diff against the live_* fields.
Changed == Wanted(group, new) # live[group]

\* The group is wanted, has changed, and its new addresses can be bound without
\* privileges.
Rebindable ==
    /\ Changed
    /\ Wanted(group, new) # None
    /\ Acceptable(group)
    /\ Addresses(group, Wanted(group, new)) \cap Privileged = {}

Unchanged ==
    /\ pc = "reconcile"
    /\ ~Changed
    /\ GroupDone
    /\ UNCHANGED <<operator, new, hot, caps, listeners, signals, kept, unread>>

\* "change needs a restart", a refused metrics path: the group is left alone.
Refused ==
    /\ pc = "reconcile"
    /\ Changed
    /\ Wanted(group, new) # None
    /\ ~Rebindable
    /\ kept' = kept \cup {group}
    /\ GroupDone
    /\ UNCHANGED <<operator, new, hot, caps, listeners, signals, unread>>

\* The TLS files cannot be loaded or a socket cannot be bound: the sockets of
\* the new generation are dropped, "keeping current listeners".
RebindFails ==
    /\ pc = "reconcile"
    /\ Rebindable
    /\ kept' = kept \cup {group}
    /\ GroupDone
    /\ UNCHANGED <<operator, new, hot, caps, listeners, signals, unread>>

\* Mutant: the old generation is cancelled before the new one is bound.
Bind_cancelsFirst ==
    /\ pc = "reconcile"
    /\ Rebindable
    /\ fresh' = Wanted(group, new)
    /\ cur' = [cur EXCEPT ![group] = None]
    /\ pc' = "install"
    /\ UNCHANGED <<operator, group, new, hot, caps, live, retired, signals, kept, unread>>

\* The new generation is bound next to the old one and starts to serve.
Bind ==
    /\ pc = "reconcile"
    /\ Rebindable
    /\ fresh' = Wanted(group, new)
    /\ pc' = "install"
    /\ UNCHANGED <<operator, group, new, hot, caps, cur, live, retired, signals, kept, unread>>

\* It becomes the current one, and the old one is drained or cancelled.
Install ==
    /\ pc = "install"
    /\ retired' = retired \cup Retire(group, cur[group])
    /\ cur' = [cur EXCEPT ![group] = fresh]
    /\ live' = [live EXCEPT ![group] = fresh]
    /\ fresh' = None
    /\ GroupDone
    /\ UNCHANGED <<operator, new, hot, caps, signals, kept, unread>>

\* doh_listen was removed.
RemoveDoh ==
    /\ pc = "reconcile"
    /\ Changed
    /\ Wanted(group, new) = None
    /\ retired' = retired \cup Retire(group, cur[group])
    /\ cur' = [cur EXCEPT ![group] = None]
    /\ live' = [live EXCEPT ![group] = None]
    /\ GroupDone
    /\ UNCHANGED <<operator, new, hot, caps, fresh, signals, kept, unread>>

-----------------------------------------------------------------------------
(* Generations that were replaced. *)

\* The accept loops of a cancelled or draining generation end.
StopAccepting(r) ==
    /\ r.accepting
    /\ retired' = (retired \ {r}) \cup {[r EXCEPT !.accepting = FALSE]}
    /\ UNCHANGED <<operator, pc, group, new, hot, caps, cur, live, fresh, signals, kept, unread>>

\* Its last connection ends, which is up to the clients.
Drained(r) ==
    /\ ~r.accepting
    /\ retired' = retired \ {r}
    /\ UNCHANGED <<operator, pc, group, new, hot, caps, cur, live, fresh, signals, kept, unread>>

\* Mutant: the timeout is given to the wrong servers.
DrainTimedOut_notDns(r) == r.group # "dns" /\ Drained(r)

\* drain_server_in_background: after the timeout the server is dropped.  The
\* DoH and metrics servers are given no such limit.
DrainTimedOut(r) == r.group = "dns" /\ Drained(r)

-----------------------------------------------------------------------------
(* The shutdown: main after the loop, and ActiveListeners::drain. *)

\* shutdown.cancel(), the child tokens of DoH and metrics with it; then drain
\* takes the DNS server and stops its accept loops.
Cancel ==
    /\ pc = "cancel"
    /\ retired' = retired \cup UNION {Retire(g, cur[g]) : g \in Groups}
    /\ cur' = [g \in Groups |-> None]
    /\ pc' = "drain"
    /\ UNCHANGED <<operator, group, new, hot, caps, live, fresh, handlers, hup, term, ctrlc,
                   told, kept, unread>>

\* The clients are done ("server drained cleanly"), the shutdown timeout has
\* passed, or a second signal came: main returns in each case.
Exit ==
    /\ pc = "drain"
    /\ ProcessEnds("stopped")

-----------------------------------------------------------------------------
(* The operator. *)

WriteConfig(c) ==
    /\ ~Ended
    /\ writes < MaxWrites
    /\ c # file
    /\ file' = c
    /\ writes' = writes + 1
    /\ UNCHANGED <<sent, pc, group, new, hot, caps, listeners, signals, kept, unread>>

\* A signal the process does not catch yet ends it.
SendUncaught(s) ==
    /\ ~Ended
    /\ s \notin handlers
    /\ ProcessEnds("killed")

\* Streams keep one signal each until it is received; ctrl_c() sees a SIGINT
\* only while its future exists.
Catch(s) ==
    /\ hup' = (hup \/ s = "HUP")
    /\ term' = (term \/ s = "TERM")
    /\ ctrlc' = IF s = "INT" /\ ctrlc = "armed" THEN "fired" ELSE ctrlc

Send(s) ==
    /\ ~Ended
    /\ sent < MaxSignals
    /\ s \in handlers
    /\ sent' = sent + 1
    /\ Catch(s)
    /\ told' = (told \/ s = "TERM")
    /\ unread' = (unread \/ s = "HUP")
    /\ UNCHANGED <<file, writes, pc, group, new, hot, caps, listeners, handlers, kept>>

-----------------------------------------------------------------------------
\* The steps of the main task.
Main ==
    \/ Boot \/ Start \/ Register
    \/ ArmCtrlC \/ TakeHup \/ TakeStop
    \/ Refresh \/ LoadConfig \/ ApplyHotSwaps
    \/ Unchanged \/ Refused \/ RebindFails \/ Bind \/ Install \/ RemoveDoh
    \/ Cancel \/ Exit

Next ==
    \/ Main
    \/ \E r \in retired : StopAccepting(r) \/ Drained(r) \/ DrainTimedOut(r)
    \/ \E c \in Configs : WriteConfig(c)
    \/ \E s \in Signals : Send(s) \/ SendUncaught(s)

Spec == Init /\ [][Next]_vars

\* The runtime polls its tasks and the timers fire.  No client is assumed to
\* close a connection, and no operator to do anything.
FairSpec ==
    /\ Spec
    /\ WF_vars(Main)
    /\ WF_vars(\E r \in retired : StopAccepting(r))
    /\ WF_vars(\E r \in retired : DrainTimedOut(r))

-----------------------------------------------------------------------------
(* Properties. *)

\* The types of the variables; a retired generation always had sockets.
TypeOK ==
    /\ file \in Configs
    /\ writes \in 0..MaxWrites
    /\ sent \in 0..MaxSignals
    /\ pc \in Loop \cup {"boot", "start", "register", "cancel", "drain",
                         "failed", "killed", "stopped"}
    /\ group \in Groups
    /\ new \in Configs \cup {None}
    /\ hot \in [resolver : Configs \cup {None}, policy : Configs \cup {None}]
    /\ caps \in BOOLEAN
    /\ cur \in [Groups -> Generation \cup {None}]
    /\ live \in [Groups -> Generation \cup {None}]
    /\ fresh \in Generation \cup {None}
    /\ retired \subseteq [group : Groups, spec : Generation, accepting : BOOLEAN]
    /\ handlers \subseteq Signals
    /\ hup \in BOOLEAN /\ term \in BOOLEAN
    /\ ctrlc \in {"dropped", "armed", "fired"}
    /\ kept \subseteq Groups \cup {"resolver"}
    /\ told \in BOOLEAN /\ unread \in BOOLEAN

\* "the daemon never goes dark" (docs/design-sighup-reload.md): from the moment
\* the loop runs until it is left, the plain DNS and the metrics listeners
\* serve, whatever fails in a reload, and the live_* fields that the next
\* reload compares with say what every group is really serving.
NeverGoesDark ==
    pc \in Loop =>
        /\ cur["dns"] # None /\ cur["dns"].listen # {}
        /\ cur["metrics"] # None
        /\ \A g \in Groups : cur[g] = live[g]

\* Between two reloads every group serves what the last accepted configuration
\* asks for, unless that reload reported that it kept the group; the DoH
\* deadline then follows the timeout of the resolver.
ServesWhatWasLoaded ==
    pc = "select" =>
        /\ Valid(hot.policy)
        /\ \A g \in Groups \ kept : cur[g] = Wanted(g, hot.policy)
        /\ kept = {} /\ cur["doh"] # None => cur["doh"].timeout = hot.resolver.timeout

\* No signal that the loop waits for is lost (run_signal_loop).  A SIGTERM that
\* was caught stops the daemon, also when it comes during a reload and although
\* clients may never close their connections.  A SIGINT that ctrl_c() saw does
\* so too unless a SIGHUP is handled in the same turn of the select.  After a
\* SIGHUP rustydns.toml is read again, also when the signal comes during a
\* reload, so that no edit made before the signal is missed.
SignalsHonoured ==
    /\ told ~> Ended
    /\ ctrlc = "fired" ~> Ended \/ pc = "fetch"
    /\ unread ~> ~unread \/ Ended

\* Replaced generations stop accepting, and those of the DNS server are gone in
\* bounded time although clients keep their connections.
RetiredGenerationsEnd ==
    []<>(\A r \in retired : ~r.accepting /\ r.group # "dns")
=============================================================================
