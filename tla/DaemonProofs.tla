---------------------------- MODULE DaemonProofs ----------------------------
(* For every set of configurations: the daemon never goes dark, and between   *)
(* two reloads it serves what the last accepted configuration asks for.       *)
EXTENDS Daemon, TLAPS

\* Group g was dealt with under configuration c.
Settled(g, c) == g \in kept \/ cur[g] = Wanted(g, c)

\* Whether reload_listeners and the startup deal with g before h.
Before(g, h) == g # h /\ (g = "dns" \/ h = "metrics")

\* What serves agrees with the live_* fields, and DNS and metrics do serve.
Lit ==
    /\ \A g \in Groups : cur[g] = live[g]
    /\ cur["dns"] # None /\ cur["dns"].listen # {}
    /\ cur["metrics"] # None

\* The resolver was built from c, or reported as kept.
ResolverOf(c) == "resolver" \in kept \/ hot.resolver = c

\* The strengthening: what is known at each place of the main task.
Inv ==
    /\ TypeOK
    /\ pc \in Loop => Lit
    /\ pc = "boot" => group = "dns" /\ \A g \in Groups : cur[g] = live[g]
    /\ pc = "start" =>
        /\ new \in Configs /\ Valid(new)
        /\ hot.policy = new /\ hot.resolver = new
        /\ \A g \in Groups : cur[g] = live[g]
        /\ \A g \in Groups : Before(g, group) => cur[g] = Wanted(g, new)
    /\ pc \in {"register", "select", "fetch", "load"} =>
        /\ hot.policy \in Configs /\ Valid(hot.policy)
        /\ Lit
        /\ ResolverOf(hot.policy)
        /\ \A g \in Groups : Settled(g, hot.policy)
    /\ pc = "swap" => new \in Configs /\ Valid(new)
    /\ pc \in {"reconcile", "install"} =>
        /\ new \in Configs /\ Valid(new)
        /\ hot.policy = new
        /\ ResolverOf(new)
        /\ \A g \in Groups : Before(g, group) => Settled(g, new)
    /\ pc = "install" => fresh = Wanted(group, new) /\ fresh # None

-----------------------------------------------------------------------------
\* What a configuration asks for is a generation, or nothing, for DoH only.
LEMMA WantedType ==
    ASSUME NEW c \in Configs, NEW g \in Groups
    PROVE  /\ Wanted(g, c) \in Generation \cup {None}
           /\ g # "doh" => Wanted(g, c) \in Generation /\ Wanted(g, c) # None
<1>1. c \in Config
    BY DaemonAssumption
<1>2. EffectiveMetrics(c) \in Addrs
    BY <1>1, DaemonAssumption DEF EffectiveMetrics, Config
<1>3. CASE g = "dns"
    BY <1>1, <1>3, DaemonAssumption DEF Wanted, Generation, Config
<1>4. CASE g = "doh"
    BY <1>1, <1>4 DEF Wanted, Generation, Config
<1>5. CASE g = "metrics"
    BY <1>1, <1>2, <1>5, DaemonAssumption DEF Wanted, Generation, Config
<1> QED
    BY <1>3, <1>4, <1>5 DEF Groups

\* The fields of a wanted generation.
LEMMA WantedFields ==
    ASSUME NEW c \in Configs
    PROVE  /\ Valid(c) => Wanted("dns", c).listen # {}
           /\ Wanted("doh", c) # None => Wanted("doh", c).timeout = c.timeout
BY DEF Wanted, Valid

\* Only a generation that served is retired.
LEMMA RetireType ==
    ASSUME NEW g \in Groups, NEW s \in Generation \cup {None}
    PROVE  Retire(g, s) \subseteq [group : Groups, spec : Generation, accepting : BOOLEAN]
<1>1. CASE s = None
    BY <1>1 DEF Retire
<1>2. CASE s # None
    <2>1. s \in Generation
        BY <1>2
    <2>2. [group |-> g, spec |-> s, accepting |-> TRUE]
              \in [group : Groups, spec : Generation, accepting : BOOLEAN]
        BY <2>1
    <2> QED
        BY <1>2, <2>2 DEF Retire
<1> QED
    BY <1>1, <1>2

-----------------------------------------------------------------------------
\* The startup begins in the invariant.
LEMMA InitInv == Init => Inv
<1> SUFFICES ASSUME Init PROVE Inv
    OBVIOUS
<1>1. cur = [g \in Groups |-> None] /\ live = [g \in Groups |-> None]
    BY DEF Init
<1>2. \A g \in Groups : cur[g] = live[g]
    BY <1>1
<1>3. cur \in [Groups -> Generation \cup {None}] /\ live \in [Groups -> Generation \cup {None}]
    BY <1>1
<1>4. hot \in [resolver : Configs \cup {None}, policy : Configs \cup {None}]
    BY DEF Init
<1>5. TypeOK
    <2>1. group \in Groups
        BY DEF Init, Groups
    <2>2. writes \in 0..MaxWrites /\ sent \in 0..MaxSignals
        BY DaemonAssumption DEF Init
    <2>3. retired \subseteq [group : Groups, spec : Generation, accepting : BOOLEAN]
        BY DEF Init
    <2> QED
        BY <1>3, <1>4, <2>1, <2>2, <2>3 DEF Init, TypeOK
<1>6. pc = "boot" /\ group = "dns"
    BY DEF Init
<1> QED
    BY <1>2, <1>5, <1>6 DEF Inv, Loop

\* A step that ends the process leaves nothing to show.
LEMMA EndsInv ==
    ASSUME Inv, NEW how \in {"failed", "killed", "stopped"}, ProcessEnds(how)
    PROVE  Inv'
BY DEF Inv, TypeOK, ProcessEnds, Loop, operator, signals

\* Startup loads a valid configuration, or fails.
LEMMA BootInv == ASSUME Inv, Boot PROVE Inv'
<1>1. CASE ProcessEnds("failed")
    BY <1>1, EndsInv
<1>2. CASE Valid(file) /\ new' = file
           /\ hot' = [resolver |-> file, policy |-> file] /\ pc' = "start"
           /\ UNCHANGED <<operator, group, caps, listeners, signals, kept, unread>>
    <2>1. TypeOK'
        BY <1>2 DEF Inv, TypeOK, Loop, operator, listeners, signals
    <2>2. pc = "boot"
        BY DEF Boot
    <2>3. \A g \in Groups : ~Before(g, group)
        BY <2>2 DEF Inv, Before, Groups
    <2> QED
        BY <1>2, <2>1, <2>2, <2>3 DEF Inv, TypeOK, Loop, listeners, Before
<1> QED
    BY <1>1, <1>2 DEF Boot

\* A step that only moves between the places where nothing is being applied.
LEMMA FrameInv ==
    ASSUME Inv, TypeOK',
           UNCHANGED <<group, new, hot, cur, live, fresh, kept>>,
           \/ pc' = pc
           \/ pc = "register" /\ pc' = "select"
           \/ pc \in {"select", "fetch"} /\ pc' \in {"select", "fetch", "load"}
           \/ pc' \in {"cancel", "drain"}
    PROVE  Inv'
<1>2. CASE pc' = pc
    BY <1>2 DEF Inv, Lit, Loop, ResolverOf, Settled
<1>3. CASE pc' \in {"cancel", "drain"}
    BY <1>3 DEF Inv, Loop
<1>4. CASE /\ pc \in {"register", "select", "fetch"}
           /\ pc' \in {"select", "fetch", "load"}
    BY <1>4 DEF Inv, Lit, Loop, ResolverOf, Settled
<1> QED
    BY <1>2, <1>3, <1>4

\* The loop is entered with every listener serving.
LEMMA RegisterInv == ASSUME Inv, Register PROVE Inv'
<1>1. TypeOK'
    BY DEF Inv, TypeOK, Register, Loop, Signals, operator, listeners
<1> QED
    BY <1>1, FrameInv DEF Register, listeners

\* Polling ctrl_c() touches no listener.
LEMMA ArmCtrlCInv == ASSUME Inv, ArmCtrlC PROVE Inv'
<1>1. TypeOK'
    BY DEF Inv, TypeOK, ArmCtrlC, Signals, operator, listeners
<1> QED
    BY <1>1, FrameInv DEF ArmCtrlC, listeners

\* Receiving a SIGHUP touches no listener.
LEMMA TakeHupInv == ASSUME Inv, TakeHup PROVE Inv'
<1>1. TypeOK'
    BY DEF Inv, TypeOK, TakeHup, Loop, operator, listeners
<1> QED
    BY <1>1, FrameInv DEF TakeHup, listeners

\* Leaving the loop ends what is claimed of it.
LEMMA TakeStopInv == ASSUME Inv, TakeStop PROVE Inv'
<1>1. TypeOK'
    BY DEF Inv, TypeOK, TakeStop, operator, listeners
<1> QED
    BY <1>1, FrameInv DEF TakeStop, listeners

\* The blocklist and mesh reloads touch no listener.
LEMMA RefreshInv == ASSUME Inv, Refresh PROVE Inv'
<1>1. TypeOK'
    BY DEF Inv, TypeOK, Refresh, Loop, operator, listeners, signals
<1> QED
    BY <1>1, FrameInv DEF Refresh, listeners

\* What happens to the retired generations concerns no other state.
LEMMA RetiredInv ==
    ASSUME Inv, NEW r \in retired, StopAccepting(r) \/ Drained(r) \/ DrainTimedOut(r)
    PROVE  Inv'
<1>1. r \in [group : Groups, spec : Generation, accepting : BOOLEAN]
    BY DEF Inv, TypeOK
<1>2. [r EXCEPT !.accepting = FALSE] \in [group : Groups, spec : Generation, accepting : BOOLEAN]
    BY <1>1
<1>3. retired' \subseteq [group : Groups, spec : Generation, accepting : BOOLEAN]
    BY <1>2 DEF Inv, TypeOK, StopAccepting, Drained, DrainTimedOut
<1>4. UNCHANGED <<operator, pc, group, new, hot, caps, cur, live, fresh, signals, kept, unread>>
    BY DEF StopAccepting, Drained, DrainTimedOut
<1>5. TypeOK'
    BY <1>3, <1>4 DEF Inv, TypeOK, operator, signals
<1> QED
    BY <1>4, <1>5, FrameInv

\* Edits of the file and caught signals touch no listener.
LEMMA OperatorInv ==
    ASSUME Inv, (\E c \in Configs : WriteConfig(c)) \/ (\E s \in Signals : Send(s))
    PROVE  Inv'
<1>1. ASSUME NEW c \in Configs, WriteConfig(c) PROVE Inv'
    <2>1. TypeOK'
        BY <1>1, DaemonAssumption DEF Inv, TypeOK, WriteConfig, listeners, signals
    <2> QED
        BY <1>1, <2>1, FrameInv DEF WriteConfig, listeners
<1>2. ASSUME NEW s \in Signals, Send(s) PROVE Inv'
    <2>1. sent' \in 0..MaxSignals
        BY <1>2, DaemonAssumption DEF Inv, TypeOK, Send
    <2>2. /\ hup' \in BOOLEAN /\ term' \in BOOLEAN
          /\ told' \in BOOLEAN /\ unread' \in BOOLEAN
        BY <1>2, Zenon DEF Send, Catch
    <2>3. ctrlc' \in {"dropped", "armed", "fired"}
        BY <1>2 DEF Inv, TypeOK, Send, Catch
    <2>4. TypeOK'
        BY <1>2, <2>1, <2>2, <2>3 DEF Inv, TypeOK, Send, listeners
    <2> QED
        BY <1>2, <2>4, FrameInv DEF Send, listeners
<1> QED
    BY <1>1, <1>2

\* A refused configuration leaves everything; an accepted one is valid.
LEMMA LoadConfigInv == ASSUME Inv, LoadConfig PROVE Inv'
<1>0. new' \in Configs \cup {None} /\ pc' \in Loop /\ unread' \in BOOLEAN
    BY DEF Inv, TypeOK, LoadConfig, Loop
<1>1. TypeOK'
    <2>1. UNCHANGED <<operator, group, hot, caps, listeners, signals, kept>>
        BY DEF LoadConfig
    <2> QED
        BY <1>0, <2>1 DEF Inv, TypeOK, operator, listeners, signals
<1>2. UNCHANGED <<group, hot, cur, live, fresh, kept>> /\ pc = "load"
    BY DEF LoadConfig, listeners
<1>3. CASE Valid(file) /\ new' = file /\ pc' = "swap"
    <2>1. (new \in Configs /\ Valid(new))'
        BY <1>3 DEF Inv, TypeOK, Valid
    <2> QED
        BY <1>1, <1>2, <1>3, <2>1 DEF Inv, Lit, Loop
<1>4. CASE pc' = "select" /\ UNCHANGED new
    BY <1>1, <1>2, <1>4 DEF Inv, Lit, Loop, ResolverOf, Settled
<1> QED
    BY <1>3, <1>4 DEF LoadConfig

\* The hot swaps fix the configuration that the groups are reconciled to.
LEMMA ApplyHotSwapsInv == ASSUME Inv, ApplyHotSwaps PROVE Inv'
<1>1. /\ pc = "swap" /\ pc' = "reconcile" /\ group' = "dns"
      /\ new \in Configs /\ Valid(new)
      /\ UNCHANGED <<new, cur, live, fresh>>
    BY DEF ApplyHotSwaps, Inv, listeners
<1>2. hot \in [resolver : Configs \cup {None}, policy : Configs \cup {None}]
    BY DEF Inv, TypeOK
<1>3. hot' \in [resolver : Configs \cup {None}, policy : Configs \cup {None}]
    BY <1>1, <1>2 DEF ApplyHotSwaps
<1>4. hot'.policy = new /\ (hot'.resolver = new \/ "resolver" \in kept')
    BY <1>2 DEF ApplyHotSwaps
<1>5. TypeOK'
    BY <1>1, <1>3 DEF Inv, TypeOK, ApplyHotSwaps, Loop, Groups, operator, listeners, signals
<1>6. \A g \in Groups : ~Before(g, group')
    BY <1>1 DEF Before, Groups
<1> QED
    BY <1>1, <1>4, <1>5, <1>6 DEF Inv, Lit, Loop, ResolverOf, Before

-----------------------------------------------------------------------------
(* The reconciliation of one group. *)

\* When the group at hand is settled, the reload may go on to the next one.
LEMMA GroupDoneInv ==
    ASSUME Inv, TypeOK', pc \in {"reconcile", "install"}, GroupDone,
           UNCHANGED <<new, hot>>,
           kept \subseteq kept',
           \A g \in Groups : g # group => cur'[g] = cur[g],
           Lit', group \in kept' \/ cur'[group] = Wanted(group, new)
    PROVE  Inv'
<1>1. group \in Groups /\ group' = NextGroup(group)
    BY DEF Inv, TypeOK, GroupDone
<1>2. \A g \in Groups : Before(g, group) => Settled(g, new)'
    <2> TAKE g \in Groups
    <2> HAVE Before(g, group)
    <2>1. Settled(g, new) /\ g # group
        BY DEF Inv, Before
    <2> QED
        BY <2>1 DEF Settled
<1>3. \A g \in Groups : g = group => Settled(g, new)'
    BY DEF Settled
<1>4. new' \in Configs /\ Valid(new)' /\ hot'.policy = new' /\ ResolverOf(new)'
    BY DEF Inv, ResolverOf, Valid
<1>5. CASE group = "metrics"
    <2>1. \A g \in Groups : Settled(g, new)'
        BY <1>2, <1>3, <1>5 DEF Before, Groups
    <2>2. pc' = "select"
        BY <1>5 DEF GroupDone
    <2>3. \A g \in Groups : Settled(g, hot.policy)'
        BY <1>4, <2>1 DEF Settled
    <2>4. ResolverOf(hot.policy)' /\ Valid(hot.policy)' /\ hot'.policy \in Configs
        BY <1>4 DEF ResolverOf
    <2> QED
        BY <2>2, <2>3, <2>4 DEF Inv, Loop
<1>6. CASE group # "metrics"
    <2>1. pc' = "reconcile"
        BY <1>6 DEF GroupDone
    <2>2. \A g \in Groups : Before(g, group') => g = group \/ Before(g, group)
        BY <1>1, <1>6 DEF Before, NextGroup, Groups
    <2>3. \A g \in Groups : Before(g, group') => Settled(g, new)'
        BY <1>2, <1>3, <2>2
    <2> QED
        BY <1>4, <2>1, <2>3 DEF Inv, Loop, Before
<1> QED
    BY <1>5, <1>6

\* The step to the next group keeps the types.
LEMMA GroupDoneType ==
    ASSUME GroupDone, group \in Groups
    PROVE  group' \in Groups /\ pc' \in Loop
BY DEF GroupDone, NextGroup, Groups, Loop

\* A group that is left as it is: unchanged, refused, or not bindable.
LEMMA LeftAloneInv ==
    ASSUME Inv, Unchanged \/ Refused \/ RebindFails
    PROVE  Inv'
<1>1. /\ pc = "reconcile" /\ GroupDone
      /\ UNCHANGED <<operator, new, hot, caps, listeners, signals, unread>>
      /\ kept' = kept \/ kept' = kept \cup {group}
    BY DEF Unchanged, Refused, RebindFails
<1>2. group \in Groups
    BY DEF Inv, TypeOK
<1>3. TypeOK'
    BY <1>1, <1>2, GroupDoneType DEF Inv, TypeOK, operator, listeners, signals
<1>4. Lit /\ Lit'
    BY <1>1 DEF Inv, Lit, Loop, listeners
<1>5. group \in kept' \/ cur'[group] = Wanted(group, new)
    <2>1. CASE Unchanged
        BY <2>1, <1>1, <1>2, <1>4 DEF Unchanged, Changed, Lit, listeners
    <2>2. CASE Refused \/ RebindFails
        BY <2>2 DEF Refused, RebindFails
    <2> QED
        BY <2>1, <2>2
<1> QED
    BY <1>1, <1>3, <1>4, <1>5, GroupDoneInv DEF listeners

\* Binding the new generation leaves the old one serving.
LEMMA BindInv == ASSUME Inv, Bind PROVE Inv'
<1>1. /\ pc = "reconcile" /\ pc' = "install" /\ Rebindable
      /\ fresh' = Wanted(group, new)
      /\ UNCHANGED <<operator, group, new, hot, caps, cur, live, retired, signals, kept, unread>>
    BY DEF Bind
<1>2. fresh' \in Generation \cup {None} /\ fresh' # None
    BY <1>1, WantedType DEF Inv, TypeOK, Rebindable
<1>3. TypeOK'
    BY <1>1, <1>2 DEF Inv, TypeOK, Loop, operator, signals
<1> QED
    BY <1>1, <1>2, <1>3 DEF Inv, Lit, Loop, ResolverOf, Settled

\* The generation s takes over the group at hand, in cur and in live alike.
LEMMA Replace ==
    ASSUME Inv, pc \in {"reconcile", "install"}, NEW s \in Generation \cup {None},
           s = Wanted(group, new),
           cur' = [cur EXCEPT ![group] = s],
           live' = [live EXCEPT ![group] = s],
           retired' = retired \cup Retire(group, cur[group])
    PROVE  /\ cur' \in [Groups -> Generation \cup {None}]
           /\ live' \in [Groups -> Generation \cup {None}]
           /\ retired' \subseteq [group : Groups, spec : Generation, accepting : BOOLEAN]
           /\ Lit'
           /\ cur'[group] = Wanted(group, new)
           /\ \A g \in Groups : g # group => cur'[g] = cur[g]
<1>1. /\ cur \in [Groups -> Generation \cup {None}]
      /\ live \in [Groups -> Generation \cup {None}]
      /\ group \in Groups /\ new \in Configs /\ Valid(new) /\ Lit
    BY DEF Inv, TypeOK, Loop
<1>2. cur[group] \in Generation \cup {None}
    BY <1>1
<1>3. retired' \subseteq [group : Groups, spec : Generation, accepting : BOOLEAN]
    BY <1>1, <1>2, RetireType DEF Inv, TypeOK
<1>4. \A g \in Groups : cur'[g] = live'[g]
    BY <1>1 DEF Lit
<1>5. "dns" \in Groups /\ "metrics" \in Groups
    BY DEF Groups
<1>6. cur'["dns"] # None /\ cur'["dns"].listen # {}
    <2>1. CASE group = "dns"
        BY <1>1, <1>5, <2>1, WantedType, WantedFields
    <2>2. CASE group # "dns"
        BY <1>1, <1>5, <2>2 DEF Lit
    <2> QED
        BY <2>1, <2>2
<1>7. cur'["metrics"] # None
    <2>1. CASE group = "metrics"
        BY <1>1, <1>5, <2>1, WantedType
    <2>2. CASE group # "metrics"
        BY <1>1, <1>5, <2>2 DEF Lit
    <2> QED
        BY <2>1, <2>2
<1> QED
    BY <1>1, <1>3, <1>4, <1>6, <1>7 DEF Lit

\* The swap puts the wanted generation into cur and live.
LEMMA InstallInv == ASSUME Inv, Install PROVE Inv'
<1>1. pc = "install" /\ fresh = Wanted(group, new) /\ fresh \in Generation \cup {None}
    BY DEF Install, Inv, TypeOK
<1>2. /\ cur' \in [Groups -> Generation \cup {None}]
      /\ live' \in [Groups -> Generation \cup {None}]
      /\ retired' \subseteq [group : Groups, spec : Generation, accepting : BOOLEAN]
      /\ Lit'
      /\ cur'[group] = Wanted(group, new)
      /\ \A g \in Groups : g # group => cur'[g] = cur[g]
    BY <1>1, Replace DEF Install
<1>3. TypeOK'
    BY <1>2, GroupDoneType DEF Inv, TypeOK, Install, operator, signals
<1> QED
    BY <1>1, <1>2, <1>3, GroupDoneInv DEF Install

\* Removing DoH leaves DNS and metrics serving.
LEMMA RemoveDohInv == ASSUME Inv, RemoveDoh PROVE Inv'
<1>1. pc = "reconcile" /\ None = Wanted(group, new)
    BY DEF RemoveDoh
<1>2. /\ cur' \in [Groups -> Generation \cup {None}]
      /\ live' \in [Groups -> Generation \cup {None}]
      /\ retired' \subseteq [group : Groups, spec : Generation, accepting : BOOLEAN]
      /\ Lit'
      /\ cur'[group] = Wanted(group, new)
      /\ \A g \in Groups : g # group => cur'[g] = cur[g]
    BY <1>1, Replace DEF RemoveDoh
<1>3. TypeOK'
    BY <1>2, GroupDoneType DEF Inv, TypeOK, RemoveDoh, operator, signals
<1> QED
    BY <1>1, <1>2, <1>3, GroupDoneInv DEF RemoveDoh

-----------------------------------------------------------------------------
(* Startup and shutdown. *)

\* Startup brings the groups up in order, each as configured.
LEMMA StartInv == ASSUME Inv, Start PROVE Inv'
<1>0. /\ pc = "start" /\ group \in Groups /\ new \in Configs /\ Valid(new)
      /\ cur \in [Groups -> Generation \cup {None}]
      /\ live \in [Groups -> Generation \cup {None}]
    BY DEF Start, Inv, TypeOK
<1>1. CASE ProcessEnds("failed")
    BY <1>1, EndsInv
<1>2. CASE /\ cur' = [cur EXCEPT ![group] = Wanted(group, new)]
           /\ live' = [live EXCEPT ![group] = Wanted(group, new)]
           /\ caps' \in (IF group = "dns" THEN BOOLEAN ELSE {caps})
           /\ group' = NextGroup(group)
           /\ pc' = (IF group = "metrics" THEN "register" ELSE "start")
           /\ UNCHANGED <<operator, new, hot, fresh, retired, signals, kept, unread>>
    <2>1. Wanted(group, new) \in Generation \cup {None}
        BY <1>0, WantedType
    <2>2. /\ cur' \in [Groups -> Generation \cup {None}]
          /\ live' \in [Groups -> Generation \cup {None}]
        BY <1>0, <1>2, <2>1
    <2>3. caps' \in BOOLEAN /\ group' \in Groups
        BY <1>2 DEF Inv, TypeOK, NextGroup, Groups
    <2>4. TypeOK'
        BY <1>2, <2>2, <2>3 DEF Inv, TypeOK, operator, signals
    <2>5. \A g \in Groups : cur'[g] = live'[g]
        BY <1>0, <1>2 DEF Inv
    <2>6. \A g \in Groups : g = group \/ Before(g, group) => cur'[g] = Wanted(g, new)
        BY <1>0, <1>2 DEF Inv
    <2>7. hot'.policy = new /\ hot'.resolver = new /\ new' = new
        BY <1>0, <1>2 DEF Inv
    <2>8. CASE group = "metrics"
        <3>1. \A g \in Groups : cur'[g] = Wanted(g, new)
            BY <2>6, <2>8 DEF Before, Groups
        <3>2. "dns" \in Groups /\ "metrics" \in Groups
            BY DEF Groups
        <3>3. /\ cur'["dns"] # None /\ cur'["dns"].listen # {}
              /\ cur'["metrics"] # None
            BY <1>0, <3>1, <3>2, WantedType, WantedFields
        <3>4. Lit'
            BY <2>5, <3>3 DEF Lit
        <3>5. Valid(hot.policy)' /\ ResolverOf(hot.policy)'
            BY <1>0, <2>7 DEF ResolverOf
        <3>6. \A g \in Groups : Settled(g, hot.policy)'
            BY <3>1, <2>7 DEF Settled
        <3>7. pc' = "register"
            BY <1>2, <2>8
        <3> QED
            BY <1>0, <2>4, <2>7, <3>4, <3>5, <3>6, <3>7 DEF Inv, Loop
    <2>9. CASE group # "metrics"
        <3>1. \A g \in Groups : Before(g, group') => g = group \/ Before(g, group)
            BY <1>0, <1>2, <2>9 DEF Before, NextGroup, Groups
        <3>2. \A g \in Groups : Before(g, group') => cur'[g] = Wanted(g, new')
            BY <2>6, <2>7, <3>1
        <3>3. pc' = "start"
            BY <1>2, <2>9
        <3>4. Valid(new)'
            BY <1>0, <2>7
        <3> QED
            BY <1>0, <2>4, <2>5, <2>7, <3>2, <3>3, <3>4 DEF Inv, Loop, Before
    <2> QED
        BY <2>8, <2>9
<1> QED
    BY <1>1, <1>2 DEF Start

\* The shutdown retires every generation.
LEMMA CancelInv == ASSUME Inv, Cancel PROVE Inv'
<1>1. cur \in [Groups -> Generation \cup {None}]
    BY DEF Inv, TypeOK
<1>2. \A g \in Groups : Retire(g, cur[g])
          \subseteq [group : Groups, spec : Generation, accepting : BOOLEAN]
    BY <1>1, RetireType
<1>3. UNION {Retire(g, cur[g]) : g \in Groups}
          \subseteq [group : Groups, spec : Generation, accepting : BOOLEAN]
    BY <1>2
<1>4. retired' \subseteq [group : Groups, spec : Generation, accepting : BOOLEAN]
    BY <1>3 DEF Cancel, Inv, TypeOK
<1>5. TypeOK'
    BY <1>4 DEF Cancel, Inv, TypeOK, operator
<1> QED
    BY <1>5 DEF Cancel, Inv, Loop

-----------------------------------------------------------------------------
\* Every step of the main task, of a retired generation and of the operator
\* preserves the strengthening.
LEMMA NextInv == ASSUME Inv, [Next]_vars PROVE Inv'
<1>1. CASE Main
    BY <1>1, BootInv, StartInv, RegisterInv, ArmCtrlCInv, TakeHupInv, TakeStopInv,
       RefreshInv, LoadConfigInv, ApplyHotSwapsInv, LeftAloneInv, BindInv, InstallInv,
       RemoveDohInv, CancelInv, EndsInv
       DEF Main, Exit
<1>2. CASE \E r \in retired : StopAccepting(r) \/ Drained(r) \/ DrainTimedOut(r)
    BY <1>2, RetiredInv
<1>3. CASE \E c \in Configs : WriteConfig(c)
    BY <1>3, OperatorInv
<1>4. CASE \E s \in Signals : Send(s) \/ SendUncaught(s)
    BY <1>4, OperatorInv, EndsInv DEF SendUncaught
<1>5. CASE UNCHANGED vars
    <2>1. /\ UNCHANGED <<group, new, hot, cur, live, fresh, kept>> /\ pc' = pc
          /\ TypeOK'
        BY <1>5 DEF vars, operator, listeners, signals, Inv, TypeOK
    <2> QED
        BY <2>1, FrameInv
<1> QED
    BY <1>1, <1>2, <1>3, <1>4, <1>5 DEF Next

\* The strengthening is an invariant of the daemon.
THEOREM Invariance == Spec => []Inv
<1>1. Init => Inv
    BY InitInv
<1>2. Inv /\ [Next]_vars => Inv'
    BY NextInv
<1> QED
    BY <1>1, <1>2, PTL DEF Spec

\* Type correctness; a retired generation always had sockets.
THEOREM TypeCorrect == Spec => []TypeOK
<1>1. Inv => TypeOK
    BY DEF Inv
<1> QED
    BY <1>1, Invariance, PTL

\* Whatever the configurations are and whichever binds, TLS loads and resolver
\* builds fail: from the signal loop's start to its end, plain DNS and metrics
\* are served and the live_* fields tell the truth about every group.
THEOREM DaemonStaysLit == Spec => []NeverGoesDark
<1>1. Inv => NeverGoesDark
    BY DEF Inv, NeverGoesDark, Lit
<1> QED
    BY <1>1, Invariance, PTL

\* Between two reloads each group serves what the last accepted configuration
\* asks for unless that reload reported it as kept, whatever was kept or failed
\* in the reloads before; and the DoH deadline follows the resolver.
THEOREM ReloadTakesEffect == Spec => []ServesWhatWasLoaded
<1>1. Inv => ServesWhatWasLoaded
    <2> SUFFICES ASSUME Inv, pc = "select"
                 PROVE  /\ Valid(hot.policy)
                        /\ \A g \in Groups \ kept : cur[g] = Wanted(g, hot.policy)
                        /\ kept = {} /\ cur["doh"] # None
                               => cur["doh"].timeout = hot.resolver.timeout
        BY DEF ServesWhatWasLoaded
    <2>1. /\ hot.policy \in Configs /\ Valid(hot.policy)
          /\ ResolverOf(hot.policy)
          /\ \A g \in Groups : Settled(g, hot.policy)
        BY DEF Inv
    <2>2. \A g \in Groups \ kept : cur[g] = Wanted(g, hot.policy)
        BY <2>1 DEF Settled
    <2>3. ASSUME kept = {}, cur["doh"] # None
          PROVE  cur["doh"].timeout = hot.resolver.timeout
        <3>1. cur["doh"] = Wanted("doh", hot.policy) /\ hot.resolver = hot.policy
            BY <2>1, <2>2, <2>3 DEF ResolverOf, Groups
        <3> QED
            BY <2>1, <2>3, <3>1, WantedFields
    <2> QED
        BY <2>1, <2>2, <2>3
<1> QED
    BY <1>1, Invariance, PTL
=============================================================================
