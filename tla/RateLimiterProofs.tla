-------------------------- MODULE RateLimiterProofs --------------------------
(***************************************************************************)
(* What holds of the token buckets for every number of workers, addresses, *)
(* ticks and table slots; and, for a single worker, the rate bound.        *)
(***************************************************************************)
EXTENDS RateLimiter, FiniteSetTheorems, TLAPS

\* A check between its two steps.
Pending == [from : Addrs, now : 0..MaxClock, live : BOOLEAN]

\* Two addresses share a bucket exactly when they are of one site.
LEMMA KeyIsSite ==
    ASSUME NEW a \in Addrs, NEW b \in Addrs
    PROVE  KeyOf(a) = KeyOf(b) <=> Site(a) = Site(b)
<1>1. a = [family |-> a.family, net |-> a.net, host |-> a.host] /\ a.family \in Families
  BY LimiterAssumption
<1>2. b = [family |-> b.family, net |-> b.net, host |-> b.host] /\ b.family \in Families
  BY LimiterAssumption
<1>3. a.family # "v6" /\ b.family # "v6" => a.net = b.net
  BY LimiterAssumption
<1>4. KeyOf(a) = IF a.family = "v6"
                 THEN [family |-> "v6", net |-> a.net, host |-> ZeroHost]
                 ELSE [family |-> "v4", net |-> a.net, host |-> a.host]
  BY <1>1 DEF KeyOf, BucketKey, NormaliseMapped, Families
<1>5. KeyOf(b) = IF b.family = "v6"
                 THEN [family |-> "v6", net |-> b.net, host |-> ZeroHost]
                 ELSE [family |-> "v4", net |-> b.net, host |-> b.host]
  BY <1>2 DEF KeyOf, BucketKey, NormaliseMapped, Families
<1>6. KeyOf(a) = KeyOf(b) <=> SameSite(a, b)
  BY <1>1, <1>2, <1>3, <1>4, <1>5 DEF SameSite, Families
<1>7. SameSite(a, b) => Site(a) = Site(b)
  BY DEF SameSite, Site
<1>8. Site(a) = Site(b) => SameSite(a, b)
  <2>1. b \in Site(b)
    BY DEF Site, SameSite
  <2> QED
    BY <2>1 DEF Site
<1> QED
  BY <1>6, <1>7, <1>8

\* A bucket that is charged at a legal time is a bucket again, at most full.
LEMMA ChargeType ==
    ASSUME NEW b \in [tokens : 0..Burst, lastRefill : 0..MaxClock, lastUsed : 0..MaxClock],
           NEW now \in 0..MaxClock
    PROVE  /\ Refill(b, now) \in 0..Burst
           /\ Charge(b, now) \in [tokens : 0..Burst, lastRefill : 0..MaxClock,
                                  lastUsed : 0..MaxClock]
<1>1. b.tokens \in 0..Burst /\ b.lastRefill \in 0..MaxClock
  OBVIOUS
<1>2. Since(now, b.lastRefill) \in Nat
  BY <1>1, LimiterAssumption DEF Since
<1>3. Refill(b, now) \in 0..Burst
  BY <1>1, <1>2, LimiterAssumption DEF Refill
<1>4. Admits(Refill(b, now)) => Refill(b, now) - Cost \in 0..Burst
  BY <1>3, LimiterAssumption DEF Admits
<1> QED
  BY <1>3, <1>4 DEF Charge

\* A new bucket is well typed.
LEMMA FreshType ==
    ASSUME NEW now \in 0..MaxClock
    PROVE  Fresh(now) \in [tokens : 0..Burst, lastRefill : 0..MaxClock, lastUsed : 0..MaxClock]
BY LimiterAssumption DEF Fresh

\* The type invariant holds initially.
LEMMA InitType == Init => TypeOK
<1> SUFFICES ASSUME Init PROVE TypeOK
  OBVIOUS
<1>1. DOMAIN buckets = {}
  BY DEF Init
<1>2. history \in [Sites -> [born : 0..MaxClock, spent : Nat]]
  BY LimiterAssumption DEF Init, Unseen
<1> QED
  BY <1>1, <1>2, LimiterAssumption DEF Init, TypeOK

\* The only buckets that go are in the table, and the key that is asked for
\* is never among them.
LEMMA EvictionsSound ==
    ASSUME NEW keys, NEW key, NEW gone \in Evictions(keys, key)
    PROVE  gone \subseteq keys /\ key \notin gone
BY DEF Evictions

\* A locked check keeps the types.
LEMMA CheckType ==
    ASSUME TypeOK, NEW w \in Workers, CheckLocked(w)
    PROVE  TypeOK'
<1> DEFINE now == pending[w].now
           key == KeyOf(pending[w].from)
           keys == Kept(now)
           B == [tokens : 0..Burst, lastRefill : 0..MaxClock, lastUsed : 0..MaxClock]
           b == IF key \in keys THEN buckets[key] ELSE Fresh(now)
<1>1. pending[w] \in Pending
  BY DEF CheckLocked, TypeOK, Pending
<1>2. now \in 0..MaxClock /\ key \in Keys /\ Site(pending[w].from) \in Sites
  BY <1>1 DEF Pending, Keys, Sites
<1>3. keys \subseteq DOMAIN buckets
  BY DEF Kept
<1>4. \A k \in DOMAIN buckets : buckets[k] \in B
  BY DEF TypeOK
<1>5. b \in B
  BY <1>2, <1>3, <1>4, FreshType
<1>6. Charge(b, now) \in B
  BY <1>2, <1>5, ChargeType
<1> HIDE DEF now, key, keys, B
<1>7. PICK gone \in Evictions(keys, key) :
        /\ buckets' = TableAfter(key, now, keys, gone)
        /\ history' = HistoryAfter(Site(pending[w].from), now, Admits(Refill(b, now)), gone)
  BY DEF CheckLocked, now, key, keys
<1>8. DOMAIN buckets' = (keys \ gone) \cup {key}
  BY <1>7 DEF TableAfter
<1>9. DOMAIN buckets' \subseteq Keys
  BY <1>2, <1>3, <1>8 DEF TypeOK
<1>10. buckets' \in [DOMAIN buckets' -> B]
  <2>1. ASSUME NEW k \in DOMAIN buckets' PROVE buckets'[k] \in B
    <3>1. buckets'[k] = IF k # key THEN buckets[k] ELSE Charge(b, now)
      BY <1>7, <1>8 DEF TableAfter
    <3> QED
      BY <3>1, <1>3, <1>4, <1>6, <1>8
  <2>2. buckets' = [k \in DOMAIN buckets' |-> buckets'[k]]
    BY <1>7, <1>8 DEF TableAfter
  <2> QED
    BY <2>1, <2>2
<1>11. history' \in [Sites -> [born : 0..MaxClock, spent : Nat]]
  BY <1>2, <1>7, LimiterAssumption DEF TypeOK, HistoryAfter, Unseen
<1>12. lastGc' \in 0..MaxClock
  BY <1>2 DEF CheckLocked, TypeOK, now
<1>13. pending' \in [Workers -> {Idle} \cup Pending]
  BY DEF CheckLocked, TypeOK, Pending
<1> QED
  BY <1>9, <1>10, <1>11, <1>12, <1>13 DEF CheckLocked, TypeOK, B, Pending

\* A swap keeps the types.
LEMMA SwapType ==
    ASSUME TypeOK, SwapRateLimiter
    PROVE  TypeOK'
<1>1. DOMAIN buckets' = {} /\ buckets' \in [{} -> [tokens : 0..Burst,
                           lastRefill : 0..MaxClock, lastUsed : 0..MaxClock]]
  BY DEF SwapRateLimiter
<1>2. history' \in [Sites -> [born : 0..MaxClock, spent : Nat]]
  BY LimiterAssumption DEF SwapRateLimiter, Unseen
<1>3. pending' \in [Workers -> {Idle} \cup Pending]
  BY DEF SwapRateLimiter, TypeOK, Pending
<1>4. swaps' \in 0..MaxSwaps
  BY LimiterAssumption DEF SwapRateLimiter, TypeOK
<1> QED
  BY <1>1, <1>2, <1>3, <1>4 DEF SwapRateLimiter, TypeOK, Pending

\* Every step keeps the types.
LEMMA StepType == TypeOK /\ [Next]_vars => TypeOK'
<1> SUFFICES ASSUME TypeOK, [Next]_vars PROVE TypeOK'
  OBVIOUS
<1>1. CASE Tick
  BY <1>1, LimiterAssumption DEF Tick, TypeOK
<1>2. CASE SwapRateLimiter
  BY <1>2, SwapType
<1>3. ASSUME NEW w \in Workers, NEW a \in Addrs, Arrive(w, a) PROVE TypeOK'
  <2>1. pending' \in [Workers -> {Idle} \cup Pending]
    BY <1>3 DEF Arrive, TypeOK, Pending
  <2> QED
    BY <1>3, <2>1 DEF Arrive, TypeOK, Pending
<1>4. ASSUME NEW w \in Workers, CheckLocked(w) PROVE TypeOK'
  BY <1>4, CheckType
<1>5. ASSUME NEW w \in Workers, CheckReplaced(w) PROVE TypeOK'
  <2>1. pending' \in [Workers -> {Idle} \cup Pending]
    BY <1>5 DEF CheckReplaced, TypeOK, Pending
  <2> QED
    BY <1>5, <2>1 DEF CheckReplaced, TypeOK, Pending
<1>6. CASE UNCHANGED vars
  BY <1>6 DEF vars, TypeOK
<1> QED
  BY <1>1, <1>2, <1>3, <1>4, <1>5, <1>6 DEF Next

\* The type invariant: whatever the workers interleave, a bucket holds
\* between nothing and the burst.
THEOREM TypeCorrect == Spec => []TypeOK
BY InitType, StepType, PTL DEF Spec

-----------------------------------------------------------------------------
(* The table never outgrows max_tracked_clients. *)

\* One check keeps the table within its bound: what is inserted is paid for
\* by an eviction when the table is full.
LEMMA CheckBounded ==
    ASSUME TableBounded, NEW w \in Workers, CheckLocked(w)
    PROVE  TableBounded'
<1> DEFINE now == pending[w].now
           key == KeyOf(pending[w].from)
           keys == Kept(now)
<1>1. keys \subseteq DOMAIN buckets
  BY DEF Kept
<1>2. IsFiniteSet(keys) /\ Cardinality(keys) <= Cardinality(DOMAIN buckets)
  BY <1>1, FS_Subset DEF TableBounded
<1>3. Cardinality(keys) \in Nat /\ Cardinality(DOMAIN buckets) \in Nat
  BY <1>2, FS_CardinalityType DEF TableBounded
<1>4. Cardinality(keys) <= MaxTracked
  BY <1>2, <1>3, LimiterAssumption DEF TableBounded
<1> HIDE DEF now, key, keys
<1>5. PICK gone \in Evictions(keys, key) : DOMAIN buckets' = (keys \ gone) \cup {key}
  BY DEF CheckLocked, TableAfter, now, key, keys
<1>6. CASE key \in keys
  <2>1. DOMAIN buckets' = keys
    BY <1>5, <1>6 DEF Evictions
  <2> QED
    BY <2>1, <1>2, <1>4 DEF TableBounded
<1>7. CASE key \notin keys /\ Cardinality(keys) < MaxTracked
  <2>1. DOMAIN buckets' = keys \cup {key}
    BY <1>5, <1>7 DEF Evictions
  <2>2. IsFiniteSet(keys \cup {key}) /\ Cardinality(keys \cup {key}) = Cardinality(keys) + 1
    BY <1>2, <1>7, FS_AddElement
  <2> QED
    BY <2>1, <2>2, <1>3, <1>7, LimiterAssumption DEF TableBounded
<1>8. CASE key \notin keys /\ ~(Cardinality(keys) < MaxTracked)
  <2>1. PICK o \in keys : gone = {o}
    BY <1>5, <1>8 DEF Evictions
  <2>2. IsFiniteSet(keys \ {o}) /\ Cardinality(keys \ {o}) = Cardinality(keys) - 1
    BY <1>2, <2>1, FS_RemoveElement
  <2>3. /\ IsFiniteSet((keys \ {o}) \cup {key})
        /\ Cardinality((keys \ {o}) \cup {key}) = Cardinality(keys \ {o}) + 1
    BY <1>8, <2>2, FS_AddElement
  <2>4. Cardinality((keys \ {o}) \cup {key}) = Cardinality(keys)
    BY <2>2, <2>3, <1>3
  <2> QED
    BY <1>5, <2>1, <2>3, <2>4, <1>4 DEF TableBounded
<1> QED
  BY <1>6, <1>7, <1>8

\* The cap on tracked clients holds for every number of workers and clients.
THEOREM TableStaysBounded == Spec => []TableBounded
<1>1. Init => TableBounded
  <2> SUFFICES ASSUME Init PROVE TableBounded
    OBVIOUS
  <2>1. DOMAIN buckets = {}
    BY DEF Init
  <2> QED
    BY <2>1, FS_EmptySet, LimiterAssumption DEF TableBounded
<1>2. TableBounded /\ [Next]_vars => TableBounded'
  <2> SUFFICES ASSUME TableBounded, [Next]_vars PROVE TableBounded'
    OBVIOUS
  <2>1. CASE SwapRateLimiter
    <3>1. DOMAIN buckets' = {}
      BY <2>1 DEF SwapRateLimiter
    <3> QED
      BY <3>1, FS_EmptySet, LimiterAssumption DEF TableBounded
  <2>2. ASSUME NEW w \in Workers, CheckLocked(w) PROVE TableBounded'
    BY <2>2, CheckBounded
  <2>3. CASE UNCHANGED buckets
    BY <2>3 DEF TableBounded
  <2> QED
    BY <2>1, <2>2, <2>3 DEF Next, vars, Tick, Arrive, CheckReplaced
<1> QED
  BY <1>1, <1>2, PTL DEF Spec

-----------------------------------------------------------------------------
(* Nobody is refused for what another site did. *)

\* One check takes from a bucket what it puts on the same site's account, and
\* forgets a site only together with its bucket.
LEMMA CheckNoCollateral ==
    ASSUME TypeOK, NoCollateral, NEW w \in Workers, CheckLocked(w)
    PROVE  NoCollateral'
<1> DEFINE now == pending[w].now
           from == pending[w].from
           key == KeyOf(from)
           keys == Kept(now)
           B == [tokens : 0..Burst, lastRefill : 0..MaxClock, lastUsed : 0..MaxClock]
           b == IF key \in keys THEN buckets[key] ELSE Fresh(now)
<1>1. from \in Addrs /\ now \in 0..MaxClock
  <2>1. pending[w] \in Pending
    BY DEF CheckLocked, TypeOK, Pending
  <2> QED
    BY <2>1 DEF Pending
<1>2. keys \subseteq DOMAIN buckets
  BY DEF Kept
<1>3. \A k \in DOMAIN buckets : buckets[k] \in B
  BY DEF TypeOK
<1>4. b \in B
  BY <1>1, <1>2, <1>3, FreshType
<1>5. Refill(b, now) \in 0..Burst
  BY <1>1, <1>4, ChargeType
<1>6. Refill(b, now) >= b.tokens
  BY <1>1, <1>4, LimiterAssumption DEF Refill, Since
<1>7. \A s \in Sites : history[s] \in [born : 0..MaxClock, spent : Nat]
  BY DEF TypeOK
<1> HIDE DEF now, from, key, keys, B
<1>8. PICK gone \in Evictions(keys, key) :
        /\ buckets' = TableAfter(key, now, keys, gone)
        /\ history' = HistoryAfter(Site(from), now, Admits(Refill(b, now)), gone)
  BY DEF CheckLocked, now, from, key, keys
<1>9. DOMAIN buckets' = (keys \ gone) \cup {key}
  BY <1>8 DEF TableAfter
<1> SUFFICES ASSUME NEW a \in Addrs, KeyOf(a) \in DOMAIN buckets'
             PROVE  buckets'[KeyOf(a)].tokens + history'[Site(a)].spent >= Burst
  BY DEF NoCollateral, KeyOf, Site
<1>10. Site(a) \in Sites
  BY DEF Sites
<1>11. CASE KeyOf(a) = key
  <2>1. Site(a) = Site(from)
    BY <1>1, <1>11, KeyIsSite DEF key
  <2>2. buckets'[KeyOf(a)] = Charge(b, now)
    BY <1>8, <1>9, <1>11 DEF TableAfter
  <2>3. b.tokens + history[Site(a)].spent >= Burst
    <3>1. CASE key \in keys
      BY <3>1, <1>2, <1>11 DEF NoCollateral
    <3>2. CASE key \notin keys
      BY <3>2, <1>7, <1>10, LimiterAssumption DEF Fresh
    <3> QED
      BY <3>1, <3>2
  <2>4. history'[Site(a)].spent = IF Admits(Refill(b, now))
                                  THEN history[Site(a)].spent + Cost
                                  ELSE history[Site(a)].spent
    BY <1>8, <1>10, <2>1 DEF HistoryAfter
  <2>5. Charge(b, now).tokens = IF Admits(Refill(b, now))
                                THEN Refill(b, now) - Cost ELSE Refill(b, now)
    BY DEF Charge
  <2>6. b.tokens \in Nat /\ history[Site(a)].spent \in Nat
    BY <1>4, <1>7, <1>10 DEF B
  <2> HIDE DEF b
  <2>7. Refill(b, now) + history[Site(a)].spent >= Burst
    BY <1>5, <1>6, <2>3, <2>6, LimiterAssumption
  <2> QED
    BY <1>5, <2>2, <2>4, <2>5, <2>6, <2>7, LimiterAssumption
<1>12. CASE KeyOf(a) # key
  <2>1. Site(a) # Site(from)
    BY <1>1, <1>12, KeyIsSite DEF key
  <2>2. KeyOf(a) \in keys \ gone
    BY <1>9, <1>12
  <2>3. buckets'[KeyOf(a)] = buckets[KeyOf(a)]
    BY <1>8, <1>9, <1>12 DEF TableAfter
  <2>4. \A c \in Site(a) : KeyOf(c) = KeyOf(a)
    <3> SUFFICES ASSUME NEW c \in Site(a) PROVE KeyOf(c) = KeyOf(a)
      OBVIOUS
    <3>1. c \in Addrs /\ SameSite(a, c)
      BY DEF Site
    <3>2. Site(c) = Site(a)
      BY <3>1 DEF Site, SameSite
    <3> QED
      BY <3>1, <3>2, KeyIsSite
  <2>5. history'[Site(a)] = history[Site(a)]
    BY <1>8, <1>10, <2>1, <2>2, <2>4 DEF HistoryAfter
  <2> QED
    BY <1>2, <2>2, <2>3, <2>5 DEF NoCollateral
<1> QED
  BY <1>11, <1>12

\* A bucket is never short of more than its own site spent, for every set of
\* addresses, in whatever form they arrive, and every number of workers.
THEOREM NoCollateralEver == Spec => []NoCollateral
<1>1. Init => NoCollateral
  BY DEF Init, NoCollateral
<1>2. TypeOK /\ NoCollateral /\ [Next]_vars => NoCollateral'
  <2> SUFFICES ASSUME TypeOK, NoCollateral, [Next]_vars PROVE NoCollateral'
    OBVIOUS
  <2>1. CASE SwapRateLimiter
    <3>1. DOMAIN buckets' = {}
      BY <2>1 DEF SwapRateLimiter
    <3> QED
      BY <3>1 DEF NoCollateral
  <2>2. ASSUME NEW w \in Workers, CheckLocked(w) PROVE NoCollateral'
    BY <2>2, CheckNoCollateral
  <2>3. CASE UNCHANGED <<buckets, history>>
    BY <2>3 DEF NoCollateral
  <2> QED
    BY <2>1, <2>2, <2>3 DEF Next, vars, Tick, Arrive, CheckReplaced
<1> QED
  BY <1>1, <1>2, TypeCorrect, PTL DEF Spec

-----------------------------------------------------------------------------
(***************************************************************************)
(* The rate bound, when checks do not overlap.  The strengthening says why *)
(* a sweep may forget a bucket: a site that has no bucket spent no more    *)
(* than what had accrued by the last sweep, so a full bucket owes it       *)
(* nothing.  This needs an empty bucket to be full again before it can be  *)
(* swept.                                                                  *)
(***************************************************************************)

\* No stamp lies in the future of the clock, or of a check in progress.
Ordered(t) ==
    /\ lastGc <= t
    /\ \A k \in DOMAIN buckets :
          buckets[k].lastRefill <= t /\ buckets[k].lastUsed = buckets[k].lastRefill

\* What site `Site(a)' spent is covered by what accrued.
Covered(a) ==
    LET h == history[Site(a)] IN
    IF KeyOf(a) \in DOMAIN buckets
    THEN h.spent + h.born + buckets[KeyOf(a)].tokens <= Burst + buckets[KeyOf(a)].lastRefill
    ELSE h.spent + h.born <= lastGc

\* At most one check is between the clock and the lock.
Sole == \A u, w \in Workers : pending[u] # Idle /\ pending[w] # Idle => u = w

Accounted ==
    /\ Sole
    /\ Ordered(clock)
    /\ \A w \in Workers : pending[w] # Idle =>
          pending[w].now <= clock /\ (pending[w].live => Ordered(pending[w].now))
    /\ \A a \in Addrs : Covered(a)

\* One check of the only worker keeps the account.
LEMMA CheckAccounted ==
    ASSUME Burst <= IdleThreshold,
           TypeOK, Accounted, NEW w \in Workers, CheckLocked(w)
    PROVE  Accounted'
<1> DEFINE now == pending[w].now
           from == pending[w].from
           key == KeyOf(from)
           keys == Kept(now)
           B == [tokens : 0..Burst, lastRefill : 0..MaxClock, lastUsed : 0..MaxClock]
           b == IF key \in keys THEN buckets[key] ELSE Fresh(now)
<1>1. from \in Addrs /\ now \in 0..MaxClock
  <2>1. pending[w] \in Pending
    BY DEF CheckLocked, TypeOK, Pending
  <2> QED
    BY <2>1 DEF Pending
<1>2. keys \subseteq DOMAIN buckets
  BY DEF Kept
<1>3. \A k \in DOMAIN buckets : buckets[k] \in B
  BY DEF TypeOK
<1>4. b \in B
  BY <1>1, <1>2, <1>3, FreshType
<1>5. Refill(b, now) \in 0..Burst
  BY <1>1, <1>4, ChargeType
<1>6. \A s \in Sites : history[s] \in [born : 0..MaxClock, spent : Nat]
  BY DEF TypeOK
<1>7. Ordered(now) /\ now <= clock
  BY DEF Accounted, CheckLocked
<1>8. clock' = clock /\ clock \in Nat /\ lastGc \in Nat
  BY LimiterAssumption DEF CheckLocked, TypeOK
<1>9. lastGc' = IF GcDue(now) THEN now ELSE lastGc
  BY DEF CheckLocked
<1>10. lastGc <= lastGc' /\ lastGc' <= now /\ lastGc' \in Nat
  BY <1>1, <1>7, <1>8, <1>9, LimiterAssumption DEF Ordered
<1> HIDE DEF now, from, key, keys, B
<1>11. PICK gone \in Evictions(keys, key) :
        /\ buckets' = TableAfter(key, now, keys, gone)
        /\ history' = HistoryAfter(Site(from), now, Admits(Refill(b, now)), gone)
  BY DEF CheckLocked, now, from, key, keys
<1>12. DOMAIN buckets' = (keys \ gone) \cup {key}
  BY <1>11 DEF TableAfter
<1>13. buckets'[key] = Charge(b, now)
  BY <1>11, <1>12 DEF TableAfter
<1>14. \A k \in DOMAIN buckets' : k # key => k \in keys \ gone /\ buckets'[k] = buckets[k]
  BY <1>11, <1>12 DEF TableAfter
<1>15. Charge(b, now).lastRefill = now /\ Charge(b, now).lastUsed = now
  BY DEF Charge
<1>16. Ordered(clock)'
  <2>1. lastGc' <= clock
    BY <1>1, <1>7, <1>8, <1>10
  <2>2. ASSUME NEW k \in DOMAIN buckets'
        PROVE  buckets'[k].lastRefill <= clock /\ buckets'[k].lastUsed = buckets'[k].lastRefill
    <3>1. CASE k = key
      BY <3>1, <1>7, <1>13, <1>15
    <3>2. CASE k # key
      BY <3>2, <1>2, <1>14 DEF Accounted, Ordered
    <3> QED
      BY <3>1, <3>2
  <2> QED
    BY <2>1, <2>2, <1>8 DEF Ordered
<1>17. \A u \in Workers : pending'[u] = Idle
  BY DEF CheckLocked, TypeOK, Accounted, Sole
<1>18. ASSUME NEW a \in Addrs PROVE Covered(a)'
  <2> DEFINE s == Site(a)
             h == history[s]
  <2>1. s \in Sites /\ s' = s /\ KeyOf(a)' = KeyOf(a)
    BY DEF Sites, Site, KeyOf
  <2>2. h.spent \in Nat /\ h.born \in Nat
    BY <1>6, <2>1
  <2>3. Covered(a)
    BY DEF Accounted
  <2>4. CASE KeyOf(a) = key
    <3>1. s = Site(from)
      BY <1>1, <2>4, KeyIsSite DEF key
    <3>2. history'[s] = IF ~Admits(Refill(b, now)) THEN h
                        ELSE [born |-> IF h.spent = 0 THEN now ELSE h.born,
                              spent |-> h.spent + Cost]
      BY <1>11, <2>1, <3>1 DEF HistoryAfter
    <3>3. Charge(b, now).tokens = IF Admits(Refill(b, now))
                                  THEN Refill(b, now) - Cost ELSE Refill(b, now)
      BY DEF Charge
    <3>4. now \in Nat
      BY <1>1
    <3>5. h.spent + h.born + Refill(b, now) <= Burst + now
      <4>1. CASE key \in keys
        <5>1. b = buckets[key] /\ key \in DOMAIN buckets
          BY <4>1, <1>2
        <5>2. b.lastRefill <= now
          BY <5>1, <1>7 DEF Ordered
        <5>3. h.spent + h.born + b.tokens <= Burst + b.lastRefill
          BY <5>1, <2>3, <2>4 DEF Covered
        <5>4. b.tokens \in Nat /\ b.lastRefill \in Nat
          BY <1>4 DEF B
        <5> HIDE DEF b, h
        <5>5. Refill(b, now) <= b.tokens + (now - b.lastRefill)
          BY <5>2, <5>4, <3>4, LimiterAssumption DEF Refill, Since
        <5> QED
          BY <5>2, <5>3, <5>4, <5>5, <3>4, <2>2, <1>5, LimiterAssumption
      <4>2. CASE key \notin keys
        <5>1. h.spent + h.born <= now
          <6>1. CASE key \in DOMAIN buckets
            <7>1. Since(now, buckets[key].lastUsed) >= IdleThreshold
              <8>1. buckets[key].lastUsed \in Nat
                BY <6>1, <1>3 DEF B
              <8> QED
                BY <8>1, <4>2, <6>1, <3>4, LimiterAssumption DEF keys, Kept, Since
            <7>2. buckets[key].lastUsed = buckets[key].lastRefill /\ buckets[key].lastRefill <= now
              BY <6>1, <1>7 DEF Ordered
            <7>3. buckets[key].tokens \in Nat /\ buckets[key].lastRefill \in Nat
              BY <6>1, <1>3 DEF B
            <7>4. h.spent + h.born + buckets[key].tokens <= Burst + buckets[key].lastRefill
              BY <6>1, <2>3, <2>4 DEF Covered
            <7> HIDE DEF h
            <7>5. now - buckets[key].lastRefill >= IdleThreshold
              BY <7>1, <7>2, <7>3, <3>4 DEF Since
            <7> QED
              BY <7>3, <7>4, <7>5, <3>4, <2>2, LimiterAssumption
          <6>2. CASE key \notin DOMAIN buckets
            <7>1. h.spent + h.born <= lastGc
              BY <6>2, <2>3, <2>4 DEF Covered
            <7> QED
              BY <7>1, <1>7, <1>8, <2>2, <3>4 DEF Ordered
          <6> QED
            BY <6>1, <6>2
        <5> HIDE DEF h
        <5> QED
          BY <5>1, <1>5, <2>2, <3>4, LimiterAssumption
      <4> QED
        BY <4>1, <4>2
    <3> HIDE DEF b, h, s
    <3>6. history'[s].spent + history'[s].born + Charge(b, now).tokens <= Burst + now
      BY <3>2, <3>3, <3>4, <3>5, <2>2, <1>5, LimiterAssumption
    <3> QED
      BY <3>6, <2>1, <2>4, <1>12, <1>13, <1>15 DEF Covered, s
  <2>5. CASE KeyOf(a) # key
    <3>1. s # Site(from)
      BY <1>1, <2>5, KeyIsSite DEF key
    <3>2. \A c \in s : KeyOf(c) = KeyOf(a)
      <4> SUFFICES ASSUME NEW c \in s PROVE KeyOf(c) = KeyOf(a)
        OBVIOUS
      <4>1. c \in Addrs /\ SameSite(a, c)
        BY DEF Site
      <4>2. Site(c) = Site(a)
        BY <4>1 DEF Site, SameSite
      <4> QED
        BY <4>1, <4>2, KeyIsSite
    <3>3. a \in s
      BY DEF Site, SameSite
    <3>4. history'[s] = IF KeyOf(a) \in gone THEN Unseen ELSE h
      BY <1>11, <2>1, <3>1, <3>2, <3>3 DEF HistoryAfter
    <3>5. CASE KeyOf(a) \in DOMAIN buckets'
      <4>1. KeyOf(a) \in keys \ gone /\ buckets'[KeyOf(a)] = buckets[KeyOf(a)]
        BY <3>5, <2>5, <1>14
      <4> QED
        BY <4>1, <3>4, <3>5, <2>1, <2>3, <1>2 DEF Covered
    <3>6. CASE KeyOf(a) \notin DOMAIN buckets'
      <4>1. history'[s].spent + history'[s].born <= lastGc'
        <5>1. CASE KeyOf(a) \in gone
          BY <5>1, <3>4, <1>10 DEF Unseen
        <5>2. CASE KeyOf(a) \notin gone /\ KeyOf(a) \notin DOMAIN buckets
          <6>1. h.spent + h.born <= lastGc
            BY <5>2, <2>3 DEF Covered
          <6> QED
            BY <6>1, <5>2, <3>4, <1>8, <1>10, <2>2
        <5>3. CASE KeyOf(a) \notin gone /\ KeyOf(a) \in DOMAIN buckets
          <6>1. KeyOf(a) \notin keys
            BY <5>3, <3>6, <1>12
          <6>2. GcDue(now) /\ ~(Since(now, buckets[KeyOf(a)].lastUsed) < IdleThreshold)
            BY <6>1, <5>3 DEF keys, Kept
          <6>3. /\ buckets[KeyOf(a)].lastUsed = buckets[KeyOf(a)].lastRefill
                /\ buckets[KeyOf(a)].lastRefill <= now
            BY <5>3, <1>7 DEF Ordered
          <6>4. buckets[KeyOf(a)].tokens \in Nat /\ buckets[KeyOf(a)].lastRefill \in Nat
            BY <5>3, <1>3 DEF B
          <6>5. h.spent + h.born + buckets[KeyOf(a)].tokens <= Burst + buckets[KeyOf(a)].lastRefill
            BY <5>3, <2>3 DEF Covered
          <6>6. lastGc' = now /\ now \in Nat
            BY <6>2, <1>1, <1>9
          <6> HIDE DEF h
          <6>7. now - buckets[KeyOf(a)].lastRefill >= IdleThreshold
            BY <6>2, <6>3, <6>4, <6>6, LimiterAssumption DEF Since
          <6>8. h.spent + h.born <= now
            BY <6>4, <6>5, <6>6, <6>7, <2>2, LimiterAssumption
          <6> QED
            BY <6>6, <6>8, <5>3, <3>4
        <5> QED
          BY <5>1, <5>2, <5>3
      <4> QED
        BY <4>1, <3>6, <2>1 DEF Covered
    <3> QED
      BY <3>5, <3>6
  <2> QED
    BY <2>4, <2>5
<1> QED
  BY <1>16, <1>17, <1>18 DEF Accounted, Sole

\* Every step of a limiter with one worker keeps the account.
LEMMA StepAccounted ==
    ASSUME single, Burst <= IdleThreshold,
           TypeOK, Accounted, [Next]_vars
    PROVE  Accounted'
<1>1. CASE Tick
  <2>1. Ordered(clock)'
    BY <1>1, LimiterAssumption DEF Tick, Accounted, Ordered, TypeOK
  <2>2. ASSUME NEW w \in Workers, pending'[w] # Idle
        PROVE  pending'[w].now <= clock' /\ (pending'[w].live => Ordered(pending[w].now)')
    <3>1. pending[w] # Idle /\ pending' = pending /\ clock' = clock + 1 /\ clock \in Nat
      BY <1>1, <2>2, LimiterAssumption DEF Tick, TypeOK
    <3>2. pending[w] \in Pending
      BY <3>1 DEF TypeOK, Pending
    <3>3. pending[w].now \in Nat
      BY <3>2, LimiterAssumption DEF Pending
    <3>4. pending'[w].now <= clock'
      BY <3>1, <3>3 DEF Accounted
    <3>5. pending'[w].live => Ordered(pending[w].now)'
      BY <1>1, <3>1 DEF Tick, Accounted, Ordered
    <3> QED
      BY <3>4, <3>5
  <2>3. \A a \in Addrs : Covered(a)'
    BY <1>1 DEF Tick, Accounted, Covered
  <2>4. Sole'
    BY <1>1 DEF Tick, Accounted, Sole
  <2> QED
    BY <2>1, <2>2, <2>3, <2>4 DEF Accounted
<1>2. CASE SwapRateLimiter
  <2>1. DOMAIN buckets' = {} /\ lastGc' = clock /\ clock' = clock /\ clock \in Nat
    BY <1>2, LimiterAssumption DEF SwapRateLimiter, TypeOK
  <2>2. ASSUME NEW w \in Workers, pending'[w] # Idle
        PROVE  pending'[w].now <= clock /\ ~pending'[w].live
    <3>1. pending[w] # Idle /\ pending'[w] = [pending[w] EXCEPT !.live = FALSE]
      BY <1>2, <2>2 DEF SwapRateLimiter
    <3>2. pending[w] \in Pending
      BY <3>1 DEF TypeOK, Pending
    <3>3. pending'[w].now = pending[w].now /\ pending'[w].live = FALSE
      BY <3>1, <3>2 DEF Pending
    <3> QED
      BY <3>1, <3>3 DEF Accounted
  <2>3. \A a \in Addrs : Covered(a)'
    <3> SUFFICES ASSUME NEW a \in Addrs PROVE Covered(a)'
      OBVIOUS
    <3>1. history'[Site(a)] = Unseen /\ Site(a)' = Site(a)
      BY <1>2 DEF SwapRateLimiter, Sites, Site
    <3> QED
      BY <3>1, <2>1 DEF Covered, Unseen
  <2>4. Ordered(clock)'
    BY <2>1 DEF Ordered
  <2>5. Sole'
    BY <1>2 DEF SwapRateLimiter, Accounted, Sole
  <2> QED
    BY <2>1, <2>2, <2>3, <2>4, <2>5 DEF Accounted
<1>3. ASSUME NEW w \in Workers, NEW a \in Addrs, Arrive(w, a) PROVE Accounted'
  <2>1. \A u \in Workers : pending'[u] # Idle => u = w
    BY <1>3 DEF Arrive, TypeOK
  <2>2. pending'[w] = [from |-> a, now |-> clock, live |-> TRUE]
    BY <1>3 DEF Arrive, TypeOK
  <2>3. Ordered(clock)' /\ \A c \in Addrs : Covered(c)'
    BY <1>3 DEF Arrive, Accounted, Ordered, Covered
  <2>4. clock' = clock /\ clock \in Nat
    BY <1>3, LimiterAssumption DEF Arrive, TypeOK
  <2>5. Ordered(pending[w].now)'
    BY <2>2, <2>3, <2>4 DEF Ordered
  <2> QED
    BY <2>1, <2>2, <2>3, <2>4, <2>5 DEF Accounted, Sole
<1>4. ASSUME NEW w \in Workers, CheckLocked(w) PROVE Accounted'
  BY <1>4, CheckAccounted
<1>5. ASSUME NEW w \in Workers, CheckReplaced(w) PROVE Accounted'
  <2>1. \A u \in Workers : pending'[u] = Idle
    BY <1>5 DEF CheckReplaced, TypeOK, Accounted, Sole
  <2> QED
    BY <1>5, <2>1 DEF CheckReplaced, Accounted, Ordered, Covered, Sole
<1>6. CASE UNCHANGED vars
  BY <1>6 DEF vars, Accounted, Ordered, Covered, Sole
<1> QED
  BY <1>1, <1>2, <1>3, <1>4, <1>5, <1>6 DEF Next

\* When checks do not overlap and an empty bucket refills before it can be
\* swept, no site is ever granted more than the burst and what accrued since
\* it was first seen, whatever addresses it uses: a sweep gives nothing away
\* (RateLimiter::check, with a runtime of one thread).
THEOREM SingleKeepsRate == Spec => []SingleRateBound
<1> DEFINE Account == single /\ Burst <= IdleThreshold => Accounted
<1>1. Init => Account
  <2> SUFFICES ASSUME Init PROVE Accounted
    OBVIOUS
  <2>1. DOMAIN buckets = {}
    BY DEF Init
  <2>2. \A a \in Addrs : Covered(a)
    BY <2>1 DEF Init, Covered, Unseen, Sites
  <2>3. Ordered(clock)
    BY <2>1 DEF Init, Ordered
  <2> QED
    BY <2>2, <2>3 DEF Init, Accounted, Sole
<1>2. TypeOK /\ Account /\ [Next]_vars => Account'
  <2>1. [Next]_vars => single' = single
    BY DEF Next, Tick, SwapRateLimiter, Arrive, CheckLocked, CheckReplaced, vars
  <2> QED
    BY <2>1, StepAccounted
<1>3. TypeOK /\ Accounted => RateBound
  <2> SUFFICES ASSUME TypeOK, Accounted, NEW s \in Sites
               PROVE  history[s].spent + history[s].born <= Burst + clock
    BY DEF RateBound
  <2>1. PICK a \in Addrs : s = Site(a)
    BY DEF Sites
  <2>2. history[s].spent \in Nat /\ history[s].born \in Nat /\ clock \in Nat /\ lastGc \in Nat
    BY LimiterAssumption DEF TypeOK
  <2>3. CASE KeyOf(a) \in DOMAIN buckets
    <3>1. buckets[KeyOf(a)].tokens \in Nat /\ buckets[KeyOf(a)].lastRefill \in Nat
      BY <2>3, LimiterAssumption DEF TypeOK
    <3>2. history[s].spent + history[s].born + buckets[KeyOf(a)].tokens
            <= Burst + buckets[KeyOf(a)].lastRefill
      BY <2>1, <2>3 DEF Accounted, Covered
    <3>3. buckets[KeyOf(a)].lastRefill <= clock
      BY <2>3 DEF Accounted, Ordered
    <3> QED
      BY <3>1, <3>2, <3>3, <2>2, LimiterAssumption
  <2>4. CASE KeyOf(a) \notin DOMAIN buckets
    <3>1. history[s].spent + history[s].born <= lastGc /\ lastGc <= clock
      BY <2>1, <2>4 DEF Accounted, Covered, Ordered
    <3> QED
      BY <3>1, <2>2, LimiterAssumption
  <2> QED
    BY <2>3, <2>4
<1>4. TypeOK /\ Account => SingleRateBound
  BY <1>3 DEF SingleRateBound
<1> HIDE DEF Account
<1> QED
  BY <1>1, <1>2, <1>4, TypeCorrect, PTL DEF Spec
=============================================================================
