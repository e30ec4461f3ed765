----------------------------- MODULE RateLimiter -----------------------------
(***************************************************************************)
(* The per-source token buckets of rustydnsd/src/rate_limiter.rs, shared   *)
(* by every worker thread of the runtime.  RateLimiter::check reads the    *)
(* clock BEFORE it takes the lock, so it is two steps here: Arrive and     *)
(* CheckLocked.                                                            *)
(*                                                                         *)
(* Tokens are counted in refill units: one unit accrues per clock tick and *)
(* a query costs Cost of them, so `elapsed * qps' is exact.                *)
(***************************************************************************)
EXTENDS Naturals, FiniteSets

CONSTANTS
    Workers,        \* threads that run check
    Addrs,          \* source addresses
    Loopback,       \* those of 127.0.0.0/8, and ::1
    ZeroHost,       \* an interface identifier of all zeros
    Idle,           \* a worker that is not in check
    Burst,          \* burst, in units
    Cost,           \* one token, in units
    MaxTracked,     \* max_tracked_clients
    GcInterval,     \* GC_INTERVAL
    IdleThreshold,  \* IDLE_THRESHOLD
    MaxClock,       \* bound: last tick
    MaxSwaps        \* bound: number of SIGHUP reloads

Families == {"v4", "mapped", "v6"}

ASSUME LimiterAssumption ==
    /\ \A a \in Addrs : DOMAIN a = {"family", "net", "host"} /\ a.family \in Families
    /\ \A a \in Addrs : a = [family |-> a.family, net |-> a.net, host |-> a.host]
    /\ \A a, b \in Addrs : a.family # "v6" /\ b.family # "v6" => a.net = b.net
    /\ Cost \in Nat \ {0}
    /\ Burst \in Nat /\ Cost <= Burst
    /\ MaxTracked \in Nat \ {0}
    /\ GcInterval \in Nat
    /\ IdleThreshold \in Nat
    /\ MaxClock \in Nat
    /\ MaxSwaps \in Nat

VARIABLES
    single,         \* the runtime has one worker thread, as on a host with one CPU
    clock,          \* Instant::now(), in ticks
    buckets,        \* the live limiter's table, key -> Bucket
    lastGc,         \* LimiterState::last_gc
    pending,        \* each worker's check, between the clock and the lock
    swaps,          \* limiters built so far, by SIGHUP
    history         \* history: what each site was granted, and since when

vars == <<single, clock, buckets, lastGc, pending, swaps, history>>

-----------------------------------------------------------------------------
\* Mutant: mapped addresses are left wrapped.
NormaliseMapped_identity(a) == a

\* normalise_mapped: ::ffff:a.b.c.d is the IPv4 address a.b.c.d.
NormaliseMapped(a) ==
    IF a.family = "mapped" THEN [a EXCEPT !.family = "v4"] ELSE a

\* Mutant: IPv6 is keyed on the full address.
BucketKey_full(a) == a

\* bucket_key: IPv4 on the address, IPv6 on the /64.
BucketKey(a) == IF a.family = "v4" THEN a ELSE [a EXCEPT !.host = ZeroHost]

KeyOf(a) == BucketKey(NormaliseMapped(a))

\* Instant::duration_since saturates at zero.
Since(t, u) == IF t >= u THEN t - u ELSE 0

Fresh(now) == [tokens |-> Burst, lastRefill |-> now, lastUsed |-> now]

\* The tokens of b once it is refilled at now, clamped to the burst.
Refill(b, now) ==
    LET t == b.tokens + Since(now, b.lastRefill)
    IN  IF t <= Burst THEN t ELSE Burst

Admits(tokens) == tokens >= Cost

\* The bucket after the query was answered: refusals are stamped as well.
Charge(b, now) ==
    LET t == Refill(b, now)
    IN  [tokens |-> IF Admits(t) THEN t - Cost ELSE t,
         lastRefill |-> now, lastUsed |-> now]

GcDue(now) == Since(now, lastGc) >= GcInterval

\* The buckets that outlive the idle sweep.
Kept(now) ==
    IF GcDue(now)
    THEN {k \in DOMAIN buckets : Since(now, buckets[k].lastUsed) < IdleThreshold}
    ELSE DOMAIN buckets

\* Mutant: room is made only once the table is over its ceiling.
Evictions_late(keys, key) ==
    IF key \in keys \/ Cardinality(keys) <= MaxTracked
    THEN {{}}
    ELSE {{o} : o \in {k \in keys : \A j \in keys :
                         buckets[k].lastUsed <= buckets[j].lastUsed}}

\* The sets of buckets that may go to make room for key: one of the least
\* recently used (a tie is broken by the hash map's order) when it is full.
Evictions(keys, key) ==
    IF key \in keys \/ Cardinality(keys) < MaxTracked
    THEN {{}}
    ELSE {{o} : o \in {k \in keys : \A j \in keys :
                         buckets[k].lastUsed <= buckets[j].lastUsed}}

\* The table after a query for key at now, with the buckets in gone evicted.
TableAfter(key, now, keys, gone) ==
    [k \in (keys \ gone) \cup {key} |->
        IF k # key THEN buckets[k]
        ELSE Charge(IF key \in keys THEN buckets[key] ELSE Fresh(now), now)]

-----------------------------------------------------------------------------
(* Who is who, independently of how the code keys its buckets: a site is an *)
(* IPv4 host, however it is written, or an IPv6 /64.                        *)

SameSite(a, b) ==
    IF a.family = "v6" THEN b.family = "v6" /\ a.net = b.net
                       ELSE b.family # "v6" /\ a.host = b.host

Site(a) == {b \in Addrs : SameSite(a, b)}
Sites == {Site(a) : a \in Addrs}

Unseen == [born |-> 0, spent |-> 0]

\* What the sites have been granted after `site' was answered at now; an
\* eviction forgets a site, an idle sweep does not.
HistoryAfter(site, now, admitted, gone) ==
    [s \in Sites |->
        IF s = site
        THEN IF ~admitted THEN history[s]
             ELSE [born |-> IF history[s].spent = 0 THEN now ELSE history[s].born,
                   spent |-> history[s].spent + Cost]
        ELSE IF \E a \in s : KeyOf(a) \in gone THEN Unseen
        ELSE history[s]]

-----------------------------------------------------------------------------
Init ==
    /\ single \in BOOLEAN
    /\ clock = 0
    /\ buckets = [k \in {} |-> Fresh(0)]
    /\ lastGc = 0
    /\ pending = [w \in Workers |-> Idle]
    /\ swaps = 0
    /\ history = [s \in Sites |-> Unseen]

Tick ==
    /\ clock < MaxClock
    /\ clock' = clock + 1
    /\ UNCHANGED <<single, buckets, lastGc, pending, swaps, history>>

\* A query that is not exempt: the limiter is loaded and the clock is read.  There
\* is no await in check: one thread alone ends a check before it begins another.
Arrive(w, a) ==
    /\ pending[w] = Idle
    /\ single => \A u \in Workers : pending[u] = Idle
    /\ NormaliseMapped(a) \notin Loopback
    /\ pending' = [pending EXCEPT ![w] = [from |-> a, now |-> clock, live |-> TRUE]]
    /\ UNCHANGED <<single, clock, buckets, lastGc, swaps, history>>

\* The rest of check, under the lock: sweep, evict, insert, refill, decide.
CheckLocked(w) ==
    /\ pending[w] # Idle
    /\ pending[w].live
    /\ LET now == pending[w].now
           key == KeyOf(pending[w].from)
           keys == Kept(now)
           b == IF key \in keys THEN buckets[key] ELSE Fresh(now)
       IN  /\ \E gone \in Evictions(keys, key) :
                 /\ buckets' = TableAfter(key, now, keys, gone)
                 /\ history' = HistoryAfter(Site(pending[w].from), now,
                                            Admits(Refill(b, now)), gone)
           /\ lastGc' = IF GcDue(now) THEN now ELSE lastGc
    /\ pending' = [pending EXCEPT ![w] = Idle]
    /\ UNCHANGED <<single, clock, swaps>>

\* The worker loaded a limiter that has been swapped out meanwhile: it is
\* answered from a table nobody else will see again.
CheckReplaced(w) ==
    /\ pending[w] # Idle
    /\ ~pending[w].live
    /\ pending' = [pending EXCEPT ![w] = Idle]
    /\ UNCHANGED <<single, clock, buckets, lastGc, swaps, history>>

\* swap_rate_limiter: a SIGHUP builds a new limiter, with an empty table.
SwapRateLimiter ==
    /\ swaps < MaxSwaps
    /\ swaps' = swaps + 1
    /\ buckets' = [k \in {} |-> Fresh(0)]
    /\ lastGc' = clock
    /\ history' = [s \in Sites |-> Unseen]
    /\ pending' = [w \in Workers |->
          IF pending[w] = Idle THEN Idle ELSE [pending[w] EXCEPT !.live = FALSE]]
    /\ UNCHANGED <<single, clock>>

Next ==
    \/ Tick
    \/ SwapRateLimiter
    \/ \E w \in Workers :
          \/ \E a \in Addrs : Arrive(w, a)
          \/ CheckLocked(w)
          \/ CheckReplaced(w)

Spec == Init /\ [][Next]_vars

-----------------------------------------------------------------------------
(* Properties. *)

Keys == {KeyOf(a) : a \in Addrs}

\* Type invariant; no bucket ever holds more than the burst.
TypeOK ==
    /\ single \in BOOLEAN
    /\ clock \in 0..MaxClock
    /\ DOMAIN buckets \subseteq Keys
    /\ buckets \in [DOMAIN buckets -> [tokens : 0..Burst, lastRefill : 0..MaxClock,
                                       lastUsed : 0..MaxClock]]
    /\ lastGc \in 0..MaxClock
    /\ pending \in [Workers -> {Idle} \cup
                      [from : Addrs, now : 0..MaxClock, live : BOOLEAN]]
    /\ swaps \in 0..MaxSwaps
    /\ history \in [Sites -> [born : 0..MaxClock, spent : Nat]]

\* max_tracked_clients caps the live table, at every moment and whoever is
\* between the clock and the lock (module doc, "Memory bounds").
TableBounded ==
    IsFiniteSet(DOMAIN buckets) /\ Cardinality(DOMAIN buckets) <= MaxTracked

\* No collateral: a bucket is never short of more than its own site spent,
\* so nobody is refused for what another site did (normalise_mapped, l.83-88).
NoCollateral ==
    \A a \in Addrs : KeyOf(a) \in DOMAIN buckets =>
        buckets[KeyOf(a)].tokens + history[Site(a)].spent >= Burst

\* What a site is granted, over all its addresses and across idle sweeps, is
\* at most the burst and what accrued since it was first seen or evicted
\* ("Refilled at `qps` per second up to `burst`", l.102).
RateBound ==
    \A s \in Sites : history[s].spent + history[s].born <= Burst + clock

\* With one worker thread that bound holds, if an empty bucket is full again
\* before the idle sweep may forget it: otherwise a sweep gives tokens away.
SingleRateBound == single /\ Burst <= IdleThreshold => RateBound
=============================================================================
