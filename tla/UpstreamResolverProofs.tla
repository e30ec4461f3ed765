----------------------- MODULE UpstreamResolverProofs -----------------------
(***************************************************************************)
(* Proofs about UpstreamResolver for any configurations, any number of     *)
(* resolutions in flight, any names and any number of key rotations.       *)
(***************************************************************************)
EXTENDS UpstreamResolver, SequenceTheorems, FiniteSetTheorems,
        WellFoundedInduction, TLAPS

USE UpstreamAssumption

Arm == [zone : Zones, servers : SUBSET Urls]

-----------------------------------------------------------------------------
(* The first element. *)

\* A set of naturals that is not empty has a least element: of its initial
\* segments up to one of its elements, one is minimal for strict inclusion.
LEMMA LeastElement ==
    ASSUME NEW M \in SUBSET Nat, M # {}
    PROVE  \E m \in M : \A k \in M : m <= k
<1>1. PICK n \in M : TRUE
  OBVIOUS
<1> DEFINE U == 0..n
           Upto(k) == {j \in M : j <= k}
           F == {Upto(k) : k \in {j \in M : j <= n}}
<1>2. IsFiniteSet(U)
  BY <1>1, FS_Interval
<1>3. F \subseteq SUBSET U /\ F # {}
  <2>1. \A k \in M : k <= n => Upto(k) \subseteq U
    <3>1. ASSUME NEW k \in M, k <= n, NEW j \in M, j <= k PROVE j \in 0..n
      BY <1>1, <3>1
    <3>2. QED
      BY <3>1
  <2>2. Upto(n) \in F
    BY <1>1
  <2>3. QED
    BY <2>1, <2>2
<1>4. IsWellFoundedOn(StrictSubsetOrdering(U), SUBSET U)
  <2> HIDE DEF U
  <2>1. QED
    BY <1>2, FS_StrictSubsetOrderingWellFounded, FS_FiniteSubsetsOfFinite
<1>5. PICK X \in F : \A Y \in F : <<Y, X>> \notin StrictSubsetOrdering(U)
  <2> HIDE DEF U, F
  <2>1. QED
    BY <1>3, <1>4, WFMin
<1>6. PICK m \in M : m <= n /\ X = Upto(m)
  OBVIOUS
<1>7. ASSUME NEW k \in M, k < m PROVE FALSE
  <2>1. Upto(k) \in F
    BY <1>1, <1>6, <1>7
  <2>2. Upto(k) \subseteq Upto(m) /\ m \in Upto(m) /\ m \notin Upto(k)
    <3>1. \A j \in M : j <= k => j <= m
      BY <1>7
    <3>2. m <= m /\ ~(m <= k)
      BY <1>7
    <3>3. QED
      BY <3>1, <3>2
  <2>3. Upto(k) \in SUBSET U /\ X \in SUBSET U
    BY <1>3, <2>1
  <2> HIDE DEF U, F, Upto
  <2>4. <<Upto(k), X>> \in StrictSubsetOrdering(U)
    BY <1>6, <2>2, <2>3 DEF StrictSubsetOrdering
  <2>5. QED
    BY <1>5, <2>1, <2>4
<1>8. QED
  BY <1>6, <1>7

\* What Min returns.
LEMMA MinIsLeast ==
    ASSUME NEW M \in SUBSET Nat, M # {}
    PROVE  Min(M) \in M /\ \A k \in M : Min(M) <= k
BY LeastElement DEF Min

-----------------------------------------------------------------------------
(* What a configuration guarantees. *)

\* The zone of the default arm.
LEMMA EmptyZone == <<>> \in Zones
BY EmptySeq DEF Zones

\* The parts of a configuration have their types.
LEMMA ConfigType ==
    ASSUME NEW c \in Configs
    PROVE  /\ c.routes \in Seq(RouteSpec) /\ c.default.urls \in Seq(Urls)
           /\ c.relays \in Seq(STRING \ {"none"})
           /\ c.default.protocol \in STRING
           /\ c.randomize \in BOOLEAN /\ c.dnssec \in BOOLEAN
BY DEF ConfigSpec

\* The arms to build: the default's, whose zone is empty, then the routes'.
LEMMA ArmSpecsType ==
    ASSUME NEW c \in Configs
    PROVE  /\ Len(ArmSpecs(c)) = Len(c.routes) + 1 /\ Len(c.routes) \in Nat
           /\ ArmSpecs(c)[1].zone = <<>> /\ ArmSpecs(c)[1].urls = c.default.urls
           /\ \A i \in 1..Len(c.routes) : ArmSpecs(c)[i + 1] = c.routes[i]
           /\ \A i \in 2..Len(ArmSpecs(c)) : ArmSpecs(c)[i] = c.routes[i - 1]
           /\ \A i \in 1..Len(ArmSpecs(c)) :
                 ArmSpecs(c)[i].zone \in Zones /\ ArmSpecs(c)[i].urls \in Seq(Urls)
<1> DEFINE d == [zone |-> <<>>, urls |-> c.default.urls, protocol |-> c.default.protocol]
           All == [zone : Zones, urls : Seq(Urls), protocol : STRING]
<1>1. d \in All
  BY ConfigType, EmptyZone
<1>2. c.routes \in Seq(All)
  <2>1. RouteSpec \subseteq All
    BY DEF RouteSpec
  <2>2. c.routes \in Seq(RouteSpec)
    BY ConfigType
  <2> HIDE DEF All
  <2>3. QED
    BY <2>1, <2>2, SeqMonotonic
<1>3. ArmSpecs(c) = <<d>> \o c.routes
  BY DEF ArmSpecs
<1>4. d.zone = <<>> /\ d.urls = c.default.urls
  OBVIOUS
<1> HIDE DEF d
<1>5. /\ Len(ArmSpecs(c)) = Len(c.routes) + 1 /\ Len(c.routes) \in Nat
      /\ ArmSpecs(c)[1] = d
      /\ \A i \in 2..Len(ArmSpecs(c)) : ArmSpecs(c)[i] = c.routes[i - 1]
  BY <1>1, <1>2, <1>3
<1>6. \A i \in 1..Len(c.routes) : ArmSpecs(c)[i + 1] = c.routes[i]
  BY <1>5
<1>7. ASSUME NEW i \in 1..Len(ArmSpecs(c))
      PROVE  ArmSpecs(c)[i] \in All
  <2>1. CASE i = 1
    BY <2>1, <1>1, <1>5
  <2>2. CASE i # 1
    <3>1. i - 1 \in 1..Len(c.routes) /\ ArmSpecs(c)[i] = c.routes[i - 1]
      BY <2>2, <1>5
    <3>2. QED
      BY <3>1, <1>2, ElementOfSeq
  <2>3. QED
    BY <2>1, <2>2
<1>8. QED
  BY <1>4, <1>5, <1>6, <1>7

\* A function on 1..n is a sequence.
LEMMA FunIsSeq ==
    ASSUME NEW S, NEW n \in Nat, NEW f \in [1..n -> S]
    PROVE  f \in Seq(S)
<1>1. Seq(S) = UNION {[1..m -> S] : m \in Nat}
  BY SeqDef, Zenon
<1>2. [1..n -> S] \in {[1..m -> S] : m \in Nat}
  OBVIOUS
<1>3. QED
  BY <1>1, <1>2, Zenon

\* The elements of a sequence.
LEMMA ElementsType ==
    ASSUME NEW S, NEW s \in Seq(S)
    PROVE  Elements(s) \subseteq S
BY ElementOfSeq, LenProperties DEF Elements

\* Whatever is selected from a sequence that is not empty is one of its elements.
LEMMA SelectedType ==
    ASSUME NEW S, NEW s \in Seq(S), s # <<>>
    PROVE  Selected(s) \subseteq S
BY DEF Selected, Elements

\* The outcome of an empty slot.
LEMMA IdleType == Idle \in QueryState
<1>1. 0 \in 0..MaxChain
  OBVIOUS
<1> DEFINE nil == <<>>
<1>2. nil \in Zones /\ nil \in Names \cup {<<>>}
  BY EmptyZone
<1>3. Idle = [pc |-> "idle", name |-> nil, via |-> nil, target |-> "none", relay |-> "none",
              retried |-> FALSE, key |-> None, reply |-> "none", chain |-> 0, posts |-> 0,
              fetches |-> 0]
  BY DEF Idle
<1> HIDE DEF nil
<1>4. QED
  BY <1>1, <1>2, <1>3 DEF QueryState, None

-----------------------------------------------------------------------------
(* Type correctness. *)

\* A configuration that Resolver::new refuses is never built from.
Accepted == stage # "failed" => ~Refused(config)
TInv == TypeOK /\ Accepted

\* A resolver starts well typed, with a configuration that was accepted.
LEMMA TInit == Init => TInv
<1> SUFFICES ASSUME Init PROVE TInv
  OBVIOUS
<1>1. config \in Configs
  BY DEF Init
<1>2. arms \in Seq(Arm) /\ Len(arms) \in {0, 1}
  <2>1. Elements(config.default.urls) \subseteq Urls
    BY <1>1, ConfigType, ElementsType
  <2> DEFINE a == [zone |-> <<>>, servers |-> Elements(config.default.urls)]
  <2>2. a \in Arm
    BY <2>1, EmptyZone DEF Arm
  <2>3. arms = <<a>> \/ arms = <<>>
    BY DEF Init
  <2> HIDE DEF a
  <2>4. QED
    <3>1. CASE arms = <<a>>
      BY <2>2, <3>1
    <3>2. CASE arms = <<>>
      BY <3>2, EmptySeq
    <3>3. QED
      BY <2>3, <3>1, <3>2
<1>3. at \in 1..Len(ArmSpecs(config)) + 1
  BY <1>1, <1>2, ArmSpecsType DEF Init
<1>4. query \in [Queries -> QueryState]
  BY IdleType DEF Init
<1>5. published \in [Urls -> Keys] /\ cached \in [Urls -> Keys \cup {None}]
  BY DEF Init, Keys
<1>6. TypeOK
  BY <1>1, <1>2, <1>3, <1>4, <1>5 DEF Init, TypeOK, Arm
<1>7. Accepted
  BY DEF Init, Accepted
<1>8. QED
  BY <1>6, <1>7 DEF TInv

\* One resolution moves: the others keep what they know.
LEMMA OneMoves ==
    ASSUME query \in [Queries -> QueryState], NEW q \in Queries, NEW rec \in QueryState,
           query' = [query EXCEPT ![q] = rec]
    PROVE  /\ query' \in [Queries -> QueryState]
           /\ query'[q] = rec
           /\ \A p \in Queries : p # q => query'[p] = query[p]
OBVIOUS

\* Building changes the arms and its own position only.
LEMMA TBuild == TInv /\ BuildStep => TInv'
<1> SUFFICES ASSUME TInv, BuildStep PROVE TInv'
  OBVIOUS
<1> USE DEF TInv
<1>1. /\ UNCHANGED <<config, published, cached, query, spoiled>>
      /\ stage = "building"
      /\ stage' # "failed" => stage # "failed"
      /\ stage' \in {"building", "ready", "failed"}
  BY DEF BuildStep, SkipUrl, LookupFails, Bootstrapped, FinishArm, FinishBuild, InArm, Building
<1>2. Accepted'
  BY <1>1 DEF Accepted
<1>3. config \in Configs /\ Len(ArmSpecs(config)) \in Nat
  BY ArmSpecsType DEF TypeOK
<1>4. InArm => Current \in Urls
  <2> SUFFICES ASSUME InArm PROVE Current \in Urls
    OBVIOUS
  <2>1. at \in 1..Len(ArmSpecs(config)) /\ url \in 1..Len(Spec_(at).urls)
        /\ Spec_(at).urls \in Seq(Urls)
    BY <1>3, ArmSpecsType, LenProperties DEF InArm, Building, TypeOK, Spec_
  <2>2. QED
    BY <2>1, ElementOfSeq DEF Current
<1>5. CASE SkipUrl \/ LookupFails \/ Bootstrapped
  BY <1>1, <1>2, <1>3, <1>4, <1>5 DEF SkipUrl, LookupFails, Bootstrapped, TypeOK
<1>6. CASE FinishArm
  <2>1. at \in 1..Len(ArmSpecs(config)) /\ Spec_(at).zone \in Zones
    BY <1>3, <1>6, ArmSpecsType DEF FinishArm, Building, TypeOK, Spec_
  <2> DEFINE a == [zone |-> Spec_(at).zone, servers |-> servers]
  <2>2. a \in Arm
    BY <2>1 DEF Arm, TypeOK
  <2>3. arms' = arms \/ arms' = Append(arms, a)
    BY <1>6 DEF FinishArm
  <2> HIDE DEF a
  <2>4. arms' \in Seq(Arm)
    <3>1. arms \in Seq(Arm)
      BY DEF TypeOK, Arm
    <3>2. QED
      BY <2>2, <2>3, <3>1, AppendProperties
  <2>5. at' \in 1..Len(ArmSpecs(config)) + 1
    BY <1>3, <1>6, <2>1 DEF FinishArm, TypeOK
  <2>6. QED
    BY <1>1, <1>2, <1>6, <2>4, <2>5 DEF FinishArm, TypeOK, Arm
<1>7. CASE FinishBuild
  <2>1. PICK p \in SortRoutes(arms) : arms' = [i \in DOMAIN arms |-> arms[p[i]]]
    BY <1>7 DEF FinishBuild
  <2>2. p \in [DOMAIN arms -> DOMAIN arms]
    BY DEF SortRoutes, Bijection, Injection
  <2>3. DOMAIN arms = 1..Len(arms) /\ Len(arms) \in Nat /\ arms \in [1..Len(arms) -> Arm]
    BY LenProperties DEF TypeOK, Arm
  <2>4. arms' \in [1..Len(arms) -> Arm]
    BY <2>1, <2>2, <2>3
  <2>5. arms' \in Seq(Arm)
    BY <2>3, <2>4, FunIsSeq
  <2>6. QED
    BY <1>1, <1>2, <1>7, <2>5 DEF FinishBuild, TypeOK, Arm
<1>8. QED
  BY <1>5, <1>6, <1>7 DEF BuildStep

-----------------------------------------------------------------------------
(* The table of routes. *)

ZonesOf(c) == {r.zone : r \in Elements(c.routes)}

\* While the table is built it has the arms of the specifications before `at', all
\* of them; once it is ready it has the arm of every route, the longest zone first.
RouteInv ==
    /\ stage = "building" =>
          /\ Len(arms) = at - 1
          /\ \A i \in 1..Len(arms) : arms[i].zone = ArmSpecs(config)[i].zone
    /\ stage = "ready" =>
          /\ Len(arms) >= 1 /\ arms[1].zone = <<>>
          /\ {arms[i].zone : i \in 2..Len(arms)} = ZonesOf(config)
          /\ \A i, j \in 2..Len(arms) : i < j => Len(arms[i].zone) >= Len(arms[j].zone)

\* Nothing is built yet, or only the oblivious default arm.
LEMMA RouteInit == Init => RouteInv
<1> SUFFICES ASSUME Init PROVE RouteInv
  OBVIOUS
<1> DEFINE a == [zone |-> <<>>, servers |-> Elements(config.default.urls)]
<1>1. a.zone = <<>> /\ stage # "ready" /\ at = Len(arms) + 1
  BY DEF Init
<1>2. config \in Configs /\ (arms = <<a>> \/ arms = <<>>)
  BY DEF Init
<1>3. ArmSpecs(config)[1].zone = <<>>
  BY <1>2, ArmSpecsType
<1> HIDE DEF a
<1>4. CASE arms = <<a>>
  BY <1>1, <1>3, <1>4 DEF RouteInv
<1>5. CASE arms = <<>>
  BY <1>1, <1>5 DEF RouteInv
<1>6. QED
  BY <1>2, <1>4, <1>5

\* Sorting a complete table: every route's arm is still there, longest zone first.
LEMMA SortedTable ==
    ASSUME TypeOK, RouteInv, FinishBuild
    PROVE  RouteInv'
<1> DEFINE n == Len(arms)
           specs == ArmSpecs(config)
<1>1. config \in Configs /\ arms \in Seq(Arm)
  BY DEF TypeOK, Arm
<1>2. /\ Len(specs) = Len(config.routes) + 1 /\ Len(config.routes) \in Nat
      /\ specs[1].zone = <<>>
      /\ \A i \in 1..Len(config.routes) : specs[i + 1] = config.routes[i]
      /\ \A i \in 2..Len(specs) : specs[i] = config.routes[i - 1]
  BY <1>1, ArmSpecsType
<1>3. /\ n = Len(specs) /\ n \in Nat /\ n >= 1 /\ DOMAIN arms = 1..n
      /\ \A i \in 1..n : arms[i].zone = specs[i].zone
  BY <1>1, <1>2, LenProperties DEF FinishBuild, RouteInv, TypeOK
<1>4. PICK p \in SortRoutes(arms) : arms' = [i \in DOMAIN arms |-> arms[p[i]]]
  BY DEF FinishBuild
<1> HIDE DEF n, specs
<1>5. /\ p \in [1..n -> 1..n] /\ p[1] = 1
      /\ \A a, b \in 1..n : p[a] = p[b] => a = b
      /\ \A t \in 1..n : \E i \in 1..n : p[i] = t
  BY <1>3 DEF SortRoutes, Bijection, Injection, Surjection, IsInjective
<1>6. \A i, j \in 2..n : i < j =>
         \/ LongerZone(arms[p[i]], arms[p[j]])
         \/ Len(arms[p[i]].zone) = Len(arms[p[j]].zone)
  BY DEF SortRoutes, n
<1>7. Len(arms') = n /\ \A i \in 1..n : arms'[i] = arms[p[i]]
  BY <1>3, <1>4
<1>8. arms'[1].zone = <<>>
  BY <1>2, <1>3, <1>5, <1>7
<1>9. ASSUME NEW i \in 2..n PROVE arms'[i].zone \in ZonesOf(config)
  <2>1. p[i] \in 2..n
    BY <1>3, <1>5
  <2>2. arms'[i].zone = config.routes[p[i] - 1].zone /\ p[i] - 1 \in 1..Len(config.routes)
    <3>1. i \in 1..n /\ p[i] \in 1..n
      BY <1>3, <2>1
    <3>2. arms'[i].zone = specs[p[i]].zone
      BY <3>1, <1>3, <1>7
    <3>3. p[i] \in 2..Len(specs) /\ p[i] - 1 \in 1..Len(config.routes)
      BY <2>1, <1>2, <1>3
    <3>4. QED
      BY <3>2, <3>3, <1>2
  <2>3. DOMAIN config.routes = 1..Len(config.routes)
    BY <1>1, ConfigType, LenProperties
  <2>4. QED
    BY <2>2, <2>3 DEF ZonesOf, Elements
<1>10. ASSUME NEW z \in ZonesOf(config) PROVE \E i \in 2..n : arms'[i].zone = z
  <2>1. PICK j \in 1..Len(config.routes) : z = config.routes[j].zone
    <3>1. DOMAIN config.routes = 1..Len(config.routes)
      BY <1>1, ConfigType, LenProperties
    <3>2. QED
      BY <3>1 DEF ZonesOf, Elements
  <2>2. j + 1 \in 1..n /\ j + 1 # 1 /\ arms[j + 1].zone = z
    BY <2>1, <1>2, <1>3
  <2>3. PICK i \in 1..n : p[i] = j + 1
    BY <1>5, <2>2
  <2>4. i # 1
    BY <1>5, <2>2, <2>3
  <2>5. i \in 2..n /\ arms'[i].zone = z
    BY <2>2, <2>3, <2>4, <1>3, <1>7
  <2>6. QED
    BY <2>5
<1>11. {arms'[i].zone : i \in 2..n} = ZonesOf(config)
  BY <1>9, <1>10
<1>12. ASSUME NEW i \in 2..n, NEW j \in 2..n, i < j
       PROVE  Len(arms'[i].zone) >= Len(arms'[j].zone)
  <2>1. p[i] \in 1..n /\ p[j] \in 1..n /\ i \in 1..n /\ j \in 1..n
    <3>1. i \in 1..n /\ j \in 1..n
      BY <1>3
    <3>2. QED
      BY <3>1, <1>5
  <2>2. arms[p[i]] \in Arm /\ arms[p[j]] \in Arm
    BY <2>1, <1>1, ElementOfSeq DEF n
  <2>3. Len(arms[p[i]].zone) \in Nat /\ Len(arms[p[j]].zone) \in Nat
    BY <2>2, LenProperties DEF Arm, Zones
  <2>4. Len(arms[p[i]].zone) >= Len(arms[p[j]].zone)
    BY <1>6, <1>12, <2>3 DEF LongerZone
  <2>5. QED
    BY <2>1, <2>4, <1>7
<1>13. config' = config /\ stage' = "ready"
  BY DEF FinishBuild
<1>14. ZonesOf(config') = ZonesOf(config)
  BY <1>13
<1>15. QED
  BY <1>3, <1>7, <1>8, <1>11, <1>12, <1>13, <1>14 DEF RouteInv

\* Only the build changes what it builds.
LEMMA BuildAlone == [Next]_vars => BuildStep \/ UNCHANGED buildVars
<1> SUFFICES ASSUME [Next]_vars, ~BuildStep PROVE UNCHANGED buildVars
  OBVIOUS
<1>1. ASSUME NEW q \in Queries, QueryStep(q) PROVE UNCHANGED buildVars
  BY <1>1 DEF QueryStep, HickoryEnds, LoadConfig, FetchConfigs, StoreConfig, PostOblivious,
              StaleKey, ExchangeFails, ValidatorAsks, ExchangeEnds
<1>2. ASSUME NEW q \in Queries, Collect(q) \/ \E n \in Names : Resolve(q, n)
      PROVE UNCHANGED buildVars
  BY <1>2 DEF Collect, Resolve
<1>3. ASSUME NEW t \in Targets, Rotate(t) PROVE UNCHANGED buildVars
  BY <1>3 DEF Rotate
<1>4. CASE UNCHANGED vars
  BY <1>4 DEF vars
<1>5. QED
  BY <1>1, <1>2, <1>3, <1>4 DEF Next

\* The first arm that cannot be built ends the build, so no route is ever missing
\* from the table.
LEMMA RouteStep ==
    TypeOK /\ RouteInv /\ [Next]_vars => RouteInv'
<1> SUFFICES ASSUME TypeOK, RouteInv, [Next]_vars PROVE RouteInv'
  OBVIOUS
<1>1. CASE FinishArm
  <2> DEFINE a == [zone |-> Spec_(at).zone, servers |-> servers]
  <2>1. stage = "building" /\ UNCHANGED config
    BY <1>1 DEF FinishArm, Building
  <2>2. CASE stage' = "failed"
    BY <2>2 DEF RouteInv
  <2>3. CASE UNCHANGED stage /\ arms' = Append(arms, a) /\ at' = at + 1
    <3>1. config \in Configs /\ arms \in Seq(Arm)
      BY DEF TypeOK, Arm
    <3>2. at \in 1..Len(ArmSpecs(config)) /\ Spec_(at).zone \in Zones
      BY <1>1, <3>1, ArmSpecsType DEF FinishArm, Building, TypeOK, Spec_
    <3>3. a \in Arm /\ a.zone = ArmSpecs(config)[at].zone
      BY <3>2 DEF Arm, TypeOK, Spec_
    <3> HIDE DEF a
    <3>4. /\ Len(arms') = Len(arms) + 1 /\ arms'[Len(arms) + 1] = a
          /\ \A i \in 1..Len(arms) : arms'[i] = arms[i]
      BY <2>3, <3>1, <3>3, AppendProperties
    <3>5. Len(arms) \in Nat /\ Len(arms) = at - 1
      BY <2>1, <3>1, LenProperties DEF RouteInv
    <3>6. Len(arms') = at' - 1 /\ at = Len(arms) + 1
      BY <2>3, <3>2, <3>4, <3>5
    <3>7. ASSUME NEW i \in 1..Len(arms') PROVE arms'[i].zone = ArmSpecs(config)[i].zone
      <4>1. CASE i = Len(arms) + 1
        BY <4>1, <3>3, <3>4, <3>6
      <4>2. CASE i \in 1..Len(arms)
        BY <4>2, <2>1, <3>4 DEF RouteInv
      <4>3. QED
        BY <3>4, <3>5, <4>1, <4>2
    <3>8. QED
      BY <2>1, <2>3, <3>6, <3>7 DEF RouteInv
  <2>4. QED
    BY <1>1, <2>2, <2>3 DEF FinishArm
<1>2. CASE FinishBuild
  BY <1>2, SortedTable
<1>3. UNCHANGED <<config, stage, at, arms>> => RouteInv'
  BY DEF RouteInv
<1>4. CASE SkipUrl \/ LookupFails \/ Bootstrapped
  BY <1>3, <1>4 DEF SkipUrl, LookupFails, Bootstrapped
<1>5. CASE UNCHANGED buildVars
  BY <1>3, <1>5 DEF buildVars
<1>6. BuildStep \/ UNCHANGED buildVars
  BY BuildAlone
<1>7. QED
  BY <1>1, <1>2, <1>4, <1>5, <1>6 DEF BuildStep

\* The routes a name is in.
ZonesFor(c, n) == {r.zone : r \in {x \in Elements(c.routes) : IsSuffix(x.zone, n)}}

\* The most specific of some zones, or the default when there is none.
Specific(z, zones) ==
    IF zones = {} THEN z = <<>>
    ELSE z \in zones /\ \A y \in zones : Len(y) <= Len(z)

\* With a ready table match_route finds the most specific route of a name.
LEMMA MatchIsSpecific ==
    ASSUME TypeOK, RouteInv, stage = "ready", NEW n
    PROVE  /\ MatchRoute(n).zone \in Zones
           /\ Specific(MatchRoute(n).zone, ZonesFor(config, n))
           /\ MatchRoute(n).zone = <<>> <=> ZonesFor(config, n) = {}
<1>1. /\ Len(arms) \in Nat /\ Len(arms) >= 1 /\ config \in Configs
      /\ \A i \in 1..Len(arms) : arms[i] \in Arm
  BY LenProperties, ElementOfSeq DEF TypeOK, RouteInv, Arm
<1>2. /\ arms[1].zone = <<>>
      /\ {arms[i].zone : i \in 2..Len(arms)} = ZonesOf(config)
      /\ \A i, j \in 2..Len(arms) : i < j => Len(arms[i].zone) >= Len(arms[j].zone)
  BY DEF RouteInv
<1>3. \A i \in 2..Len(arms) : arms[i].zone \in Zones /\ Len(arms[i].zone) \in Nat
  BY <1>1, LenProperties DEF Arm, Zones
<1>4. ZonesFor(config, n) = {z \in ZonesOf(config) : IsSuffix(z, n)}
  BY DEF ZonesFor, ZonesOf
<1>5. ASSUME NEW z \in ZonesFor(config, n) PROVE \E i \in Matching(n) : arms[i].zone = z
  BY <1>2, <1>4 DEF Matching
<1>6. ASSUME NEW i \in Matching(n) PROVE arms[i].zone \in ZonesFor(config, n)
  BY <1>2, <1>4 DEF Matching
<1>7. \A z \in ZonesOf(config) : z # <<>>
  <2>1. config.routes \in Seq(RouteSpec)
    BY <1>1, ConfigType
  <2>2. \A r \in Elements(config.routes) : r.zone # <<>>
    <3>1. Elements(config.routes) \subseteq RouteSpec
      BY <2>1, ElementsType
    <3>2. QED
      BY <3>1 DEF RouteSpec
  <2>3. QED
    BY <2>2 DEF ZonesOf
<1>8. CASE Matching(n) = {}
  <2>1. ZonesFor(config, n) = {}
    BY <1>5, <1>8
  <2>2. MatchRoute(n) = arms[1]
    BY <1>8 DEF MatchRoute
  <2>3. QED
    BY <2>1, <2>2, <1>2, EmptyZone DEF Specific
<1>9. CASE Matching(n) # {}
  <2> DEFINE m == Min(Matching(n))
  <2>1. Matching(n) \subseteq Nat
    BY <1>1 DEF Matching
  <2>2. m \in Matching(n) /\ \A k \in Matching(n) : m <= k
    BY <2>1, <1>9, MinIsLeast
  <2>3. MatchRoute(n) = arms[m]
    BY <1>9 DEF MatchRoute
  <2> HIDE DEF m
  <2>4. m \in 2..Len(arms) /\ arms[m].zone \in ZonesFor(config, n)
    BY <2>2, <1>6 DEF Matching
  <2>5. ASSUME NEW z \in ZonesFor(config, n) PROVE Len(z) <= Len(arms[m].zone)
    <3>1. PICK i \in Matching(n) : arms[i].zone = z
      BY <1>5
    <3>2. i \in 2..Len(arms) /\ m <= i
      BY <2>2 DEF Matching
    <3>3. i = m \/ m < i
      BY <1>1, <2>4, <3>2
    <3>4. QED
      BY <1>2, <1>3, <2>4, <3>1, <3>2, <3>3
  <2>6. arms[m].zone # <<>>
    BY <2>4, <1>4, <1>7
  <2>7. QED
    BY <2>3, <2>4, <2>5, <2>6, <1>3 DEF Specific
<1>10. QED
  BY <1>8, <1>9

-----------------------------------------------------------------------------
(* What a resolution in flight knows. *)

Odoh(c) == c.default.protocol = "odoh"
Exchanging == {"config", "store", "post", "reply"}

\* In an exchange there is a target and a relay, and the configuration has both.
ExchangeOf(k, c) ==
    k.pc \in Exchanging =>
        ~Refused(c) /\ Odoh(c) /\ k.target \in Urls /\ k.relay # "none"

\* LeavesByItsRoute of one resolution.
LeavesOf(k, c) ==
    k.pc \notin {"idle", "done", "failed"} =>
        /\ Specific(k.via, ZonesFor(c, k.name))
        /\ k.relay # "none" <=> Odoh(c) /\ ZonesFor(c, k.name) = {}

\* The posts and fetches made so far, and what a retry that nothing spoiled (sp[q])
\* may rely on: the cache (ca) is empty or holds the key published now (pub), then
\* the key in hand is that one, and it is not refused.
RetryOf(k, q, sp, ca, pub) ==
    /\ k.pc \in {"config", "store", "post"} => k.posts = (IF k.retried THEN 1 ELSE 0)
    /\ k.pc = "reply" => k.posts = (IF k.retried THEN 2 ELSE 1)
    /\ k.pc \notin Exchanging => k.posts = 0
    /\ k.pc = "config" => k.fetches <= (IF k.retried THEN 1 ELSE 0)
    /\ k.fetches <= (IF k.retried THEN 2 ELSE 1)
    /\ k.retried /\ ~sp[q] =>
          /\ k.pc = "config" => ca[k.target] \in {None, pub[k.target]}
          /\ k.pc \in {"store", "post"} => k.key = pub[k.target]
          /\ k.pc = "reply" => k.reply \notin Stale
    /\ k.pc = "failed" /\ k.reply \in Stale => sp[q]

Good(k, q, sp, ca, pub, c) ==
    ExchangeOf(k, c) /\ LeavesOf(k, c) /\ RetryOf(k, q, sp, ca, pub)

QInv == \A q \in Queries : Good(query[q], q, spoiled, cached, published, config)

\* The two properties are parts of it.
LEMMA QInvSuffices == TypeOK /\ QInv => LeavesByItsRoute /\ RotationCostsARetry
<1> SUFFICES ASSUME TypeOK, QInv PROVE LeavesByItsRoute /\ RotationCostsARetry
  OBVIOUS
<1>1. ASSUME NEW q \in Queries
      PROVE  /\ query[q].pc = "failed" /\ query[q].reply \in Stale => spoiled[q]
             /\ query[q].posts <= 2
             /\ query[q].fetches <= IF query[q].retried THEN 2 ELSE 1
  <2>1. RetryOf(query[q], q, spoiled, cached, published) /\ query[q] \in QueryState
    BY DEF QInv, Good, TypeOK
  <2>2. query[q].posts <= 2
    <3>1. CASE query[q].pc \in {"config", "store", "post"}
      BY <2>1, <3>1 DEF RetryOf
    <3>2. CASE query[q].pc = "reply"
      BY <2>1, <3>2 DEF RetryOf
    <3>3. CASE query[q].pc \notin Exchanging
      BY <2>1, <3>3 DEF RetryOf
    <3>4. QED
      BY <3>1, <3>2, <3>3 DEF Exchanging
  <2>3. QED
    BY <2>1, <2>2 DEF RetryOf
<1>2. ASSUME NEW q \in Queries
      PROVE  LeavesOf(query[q], config)
  BY DEF QInv, Good
<1>3. RotationCostsARetry
  BY <1>1 DEF RotationCostsARetry
<1>4. LeavesByItsRoute
  BY <1>2 DEF LeavesByItsRoute, LeavesOf, ZonesFor, Specific, IsOdoh, Odoh
<1>5. QED
  BY <1>3, <1>4

\* A slot that is empty or holds an outcome.
LEMMA EndedGood ==
    ASSUME NEW k, k.pc \in {"idle", "done", "failed"}, k.posts = 0, k.fetches = 0,
           NEW q \in Queries,
           k.pc = "failed" /\ k.reply \in Stale => spoiled[q]
    PROVE  Good(k, q, spoiled, cached, published, config)
<1>1. k.pc \notin Exchanging /\ k.pc \notin {"config", "store", "post", "reply"}
  BY DEF Exchanging
<1>2. ExchangeOf(k, config) /\ LeavesOf(k, config)
  BY <1>1 DEF ExchangeOf, LeavesOf
<1>3. RetryOf(k, q, spoiled, cached, published)
  BY <1>1 DEF RetryOf
<1>4. QED
  BY <1>2, <1>3 DEF Good

\* One resolution moves, and leaves the others a cache they may rely on unless it
\* spoils them.
LEMMA Moved ==
    ASSUME TypeOK, QInv, NEW q \in Queries, NEW rec \in QueryState,
           query' = [query EXCEPT ![q] = rec],
           UNCHANGED <<buildVars, published>>,
           cached' \in [Urls -> Keys \cup {None}],
           spoiled' \in [Queries -> BOOLEAN],
           Good(rec, q, spoiled', cached', published, config),
           \A p \in Queries : p # q => (spoiled[p] => spoiled'[p]),
           \A p \in Queries : \A t \in Urls :
              \/ p = q \/ spoiled'[p]
              \/ cached'[t] \in {cached[t], None, published[t]}
    PROVE  TypeOK' /\ QInv'
<1>1. /\ query' \in [Queries -> QueryState] /\ query'[q] = rec
      /\ \A p \in Queries : p # q => query'[p] = query[p]
  BY OneMoves DEF TypeOK
<1>2. TypeOK'
  BY <1>1 DEF TypeOK, buildVars
<1>3. ASSUME NEW p \in Queries, p # q
      PROVE  Good(query[p], p, spoiled', cached', published, config)
  <2>1. /\ ExchangeOf(query[p], config) /\ LeavesOf(query[p], config)
        /\ RetryOf(query[p], p, spoiled, cached, published)
    BY DEF QInv, Good
  <2>2. query[p].pc = "config" => query[p].target \in Urls
    BY <2>1 DEF ExchangeOf, Exchanging
  <2>3. RetryOf(query[p], p, spoiled', cached', published)
    BY <1>3, <2>1, <2>2 DEF RetryOf
  <2>4. QED
    BY <2>1, <2>3 DEF Good
<1>4. \A p \in Queries : Good(query'[p], p, spoiled', cached', published', config')
  BY <1>1, <1>3 DEF buildVars
<1>5. QED
  BY <1>2, <1>4 DEF QInv

\* The outcome of a resolution takes its place.
LEMMA FinishedStep ==
    ASSUME TypeOK, QInv, NEW q \in Queries, NEW how \in {"done", "failed"},
           NEW r \in Messages \cup OdohError \cup {"none"}, Finished(q, how, r),
           how = "failed" /\ r \in Stale => spoiled[q],
           UNCHANGED <<buildVars, published, cached, spoiled>>
    PROVE  TypeOK' /\ QInv'
<1>0. PICK k : k = [Idle EXCEPT !.pc = how, !.reply = r]
  OBVIOUS
<1>1. query' = [query EXCEPT ![q] = k]
  BY <1>0 DEF Finished
<1>2. /\ k \in QueryState /\ k.pc = how /\ k.reply = r
      /\ k.posts = 0 /\ k.fetches = 0
  BY <1>0, IdleType DEF Idle, QueryState
<1>3. Good(k, q, spoiled, cached, published, config)
  <2>1. k.pc = "failed" /\ k.reply \in Stale => spoiled[q]
    BY <1>2
  <2>2. k.pc \in {"idle", "done", "failed"}
    BY <1>2
  <2>3. k.posts = 0 /\ k.fetches = 0
    BY <1>2
  <2>4. QED
    BY <2>1, <2>2, <2>3, EndedGood
<1>4. QED
  BY <1>1, <1>2, <1>3, Moved DEF TypeOK

\* A finished resolution frees its slot.
LEMMA CollectStep ==
    ASSUME TypeOK, QInv, NEW q \in Queries, Collect(q)
    PROVE  TypeOK' /\ QInv'
<1>1. query' = [query EXCEPT ![q] = Idle] /\ UNCHANGED <<buildVars, published, cached, spoiled>>
  BY DEF Collect
<1>2. Idle.pc = "idle" /\ Idle.posts = 0 /\ Idle.fetches = 0
  BY DEF Idle
<1>3. Good(Idle, q, spoiled, cached, published, config)
  BY <1>2, EndedGood
<1>4. QED
  BY <1>1, <1>3, IdleType, Moved DEF TypeOK

\* A hickory arm answers or fails; nothing oblivious is involved.
LEMMA HickoryStep ==
    ASSUME TypeOK, QInv, NEW q \in Queries, HickoryEnds(q)
    PROVE  TypeOK' /\ QInv'
<1>1. PICK how \in {"done", "failed"} : Finished(q, how, "none")
  BY DEF HickoryEnds
<1>2. "none" \notin Stale /\ "none" \in Messages \cup OdohError \cup {"none"}
  BY DEF Stale
<1>3. UNCHANGED <<buildVars, published, cached, spoiled>>
  BY DEF HickoryEnds
<1>4. QED
  BY <1>1, <1>2, <1>3, FinishedStep

\* What QInv says of one resolution.
LEMMA Unfold ==
    ASSUME TypeOK, QInv, NEW q \in Queries
    PROVE  /\ query[q] \in QueryState
           /\ ExchangeOf(query[q], config) /\ LeavesOf(query[q], config)
           /\ RetryOf(query[q], q, spoiled, cached, published)
           /\ query[q].pc \in Exchanging =>
                 /\ query[q].target \in Urls
                 /\ published[query[q].target] \in Keys
                 /\ cached[query[q].target] \in Keys \cup {None}
<1>1. /\ query[q] \in QueryState
      /\ ExchangeOf(query[q], config) /\ LeavesOf(query[q], config)
      /\ RetryOf(query[q], q, spoiled, cached, published)
  BY DEF TypeOK, QInv, Good
<1>2. query[q].pc \in Exchanging => query[q].target \in Urls
  BY <1>1 DEF ExchangeOf
<1>3. QED
  BY <1>1, <1>2 DEF TypeOK

\* A step of an exchange keeps its name, arm, target and relay.
LEMMA SameRoute ==
    ASSUME NEW k, NEW r, NEW c, ExchangeOf(k, c), LeavesOf(k, c),
           k.pc \in Exchanging, r.pc \in Exchanging,
           r.name = k.name, r.via = k.via, r.target = k.target, r.relay = k.relay
    PROVE  ExchangeOf(r, c) /\ LeavesOf(r, c)
BY DEF ExchangeOf, LeavesOf, Exchanging

\* A cached key is taken as it is found (OdohTarget::config).
LEMMA LoadStep ==
    ASSUME TypeOK, QInv, NEW q \in Queries, LoadConfig(q)
    PROVE  TypeOK' /\ QInv'
<1> DEFINE k == query[q]
           r == [k EXCEPT !.pc = "post", !.key = cached[k.target]]
<1>1. /\ k.pc = "config" /\ cached[k.target] # None
      /\ query' = [query EXCEPT ![q] = r]
      /\ UNCHANGED <<buildVars, published, cached, spoiled>>
  BY DEF LoadConfig
<1>2. k.pc \in Exchanging
  BY <1>1 DEF Exchanging
<1>3. r \in QueryState
  BY <1>2, Unfold DEF QueryState
<1>4. /\ r.pc = "post" /\ r.key = cached[k.target] /\ r.pc \in Exchanging
      /\ r.name = k.name /\ r.via = k.via /\ r.target = k.target /\ r.relay = k.relay
      /\ r.retried = k.retried /\ r.posts = k.posts /\ r.fetches = k.fetches
  BY Unfold DEF QueryState, Exchanging
<1>6. /\ RetryOf(k, q, spoiled, cached, published) /\ k \in QueryState
      /\ ExchangeOf(k, config) /\ LeavesOf(k, config)
  BY Unfold
<1> HIDE DEF k, r
<1>5. ExchangeOf(r, config) /\ LeavesOf(r, config)
  BY <1>2, <1>4, <1>6, SameRoute
<1>7. RetryOf(r, q, spoiled, cached, published)
  BY <1>1, <1>4, <1>6 DEF RetryOf
<1>8. QED
  BY <1>1, <1>3, <1>5, <1>7, Moved DEF TypeOK, Good

\* A key is fetched from the target, or the fetch fails.
LEMMA FetchStep ==
    ASSUME TypeOK, QInv, NEW q \in Queries, FetchConfigs(q)
    PROVE  TypeOK' /\ QInv'
<1> DEFINE k == query[q]
           r == [k EXCEPT !.pc = "store", !.fetches = k.fetches + 1,
                          !.key = published[k.target]]
<1>1. /\ k.pc = "config"
      /\ query' = [query EXCEPT ![q] = r] \/ Finished(q, "failed", "no config")
      /\ UNCHANGED <<buildVars, published, cached, spoiled>>
  BY DEF FetchConfigs
<1>2. CASE Finished(q, "failed", "no config")
  <2>1. "no config" \in OdohError /\ "no config" \notin Stale
    BY DEF OdohError, Stale
  <2>2. QED
    BY <1>1, <1>2, <2>1, FinishedStep
<1>3. CASE query' = [query EXCEPT ![q] = r]
  <2>1. k.pc \in Exchanging
    BY <1>1 DEF Exchanging
  <2>2. r \in QueryState
    <3>1. k \in QueryState /\ k.fetches + 1 \in Nat /\ published[k.target] \in Keys
      BY <2>1, Unfold DEF QueryState
    <3>2. QED
      BY <3>1 DEF QueryState
  <2>3. /\ r.pc = "store" /\ r.key = published[k.target] /\ r.pc \in Exchanging
        /\ r.name = k.name /\ r.via = k.via /\ r.target = k.target /\ r.relay = k.relay
        /\ r.retried = k.retried /\ r.posts = k.posts /\ r.fetches = k.fetches + 1
    BY Unfold DEF QueryState, Exchanging
  <2>4. /\ RetryOf(k, q, spoiled, cached, published) /\ k \in QueryState
        /\ ExchangeOf(k, config) /\ LeavesOf(k, config)
    BY Unfold
  <2>5. k.fetches \in Nat
    BY <2>4 DEF QueryState
  <2> HIDE DEF k, r
  <2>6. ExchangeOf(r, config) /\ LeavesOf(r, config)
    BY <2>1, <2>3, <2>4, SameRoute
  <2>7. RetryOf(r, q, spoiled, cached, published)
    <3>1. /\ r.posts = (IF r.retried THEN 1 ELSE 0)
          /\ r.fetches <= (IF r.retried THEN 2 ELSE 1)
      <4>1. /\ k.posts = (IF k.retried THEN 1 ELSE 0)
            /\ k.fetches <= (IF k.retried THEN 1 ELSE 0)
        BY <1>1, <2>4 DEF RetryOf
      <4>2. CASE k.retried
        BY <4>1, <4>2, <2>3, <2>5
      <4>3. CASE ~k.retried
        BY <4>1, <4>3, <2>3, <2>5
      <4>4. QED
        BY <4>2, <4>3
    <3>2. QED
      BY <2>3, <3>1 DEF RetryOf
  <2>8. QED
    BY <1>1, <1>3, <2>2, <2>6, <2>7, Moved DEF TypeOK, Good
<1>4. QED
  BY <1>1, <1>2, <1>3

\* A key that is stored late spoils the others unless it is the published one.
LEMMA StoreStep ==
    ASSUME TypeOK, QInv, NEW q \in Queries, StoreConfig(q)
    PROVE  TypeOK' /\ QInv'
<1> DEFINE k == query[q]
           r == [k EXCEPT !.pc = "post"]
<1>1. /\ k.pc = "store" /\ query' = [query EXCEPT ![q] = r]
      /\ cached' = [cached EXCEPT ![k.target] = k.key]
      /\ spoiled' = [p \in Queries |-> \/ spoiled[p]
                                        \/ (p # q /\ k.key # published[k.target])]
      /\ UNCHANGED <<buildVars, published>>
  BY DEF StoreConfig
<1>2. k.pc \in Exchanging
  BY <1>1 DEF Exchanging
<1>3. r \in QueryState
  BY <1>2, Unfold DEF QueryState
<1>4. /\ r.pc = "post" /\ r.key = k.key /\ r.pc \in Exchanging
      /\ r.name = k.name /\ r.via = k.via /\ r.target = k.target /\ r.relay = k.relay
      /\ r.retried = k.retried /\ r.posts = k.posts /\ r.fetches = k.fetches
  BY Unfold DEF QueryState, Exchanging
<1>5. /\ RetryOf(k, q, spoiled, cached, published) /\ k \in QueryState
      /\ ExchangeOf(k, config) /\ LeavesOf(k, config)
      /\ k.target \in Urls /\ k.key \in Keys \cup {None}
  BY <1>2, Unfold DEF QueryState
<1> HIDE DEF k, r
<1>6. /\ cached' \in [Urls -> Keys \cup {None}]
      /\ \A t \in Urls : cached'[t] = IF t = k.target THEN k.key ELSE cached[t]
  BY <1>1, <1>5 DEF TypeOK
<1>7. spoiled' \in [Queries -> BOOLEAN]
  BY <1>1 DEF TypeOK
<1>8. spoiled'[q] = spoiled[q]
  BY <1>1 DEF TypeOK
<1>9. \A p \in Queries : p # q => (spoiled[p] => spoiled'[p])
  BY <1>1
<1>10. \A p \in Queries : \A t \in Urls :
          \/ p = q \/ spoiled'[p]
          \/ cached'[t] \in {cached[t], None, published[t]}
  <2>1. CASE k.key = published[k.target]
    BY <1>6, <2>1
  <2>2. CASE k.key # published[k.target]
    BY <1>1, <2>2
  <2>3. QED
    BY <2>1, <2>2
<1>11. ExchangeOf(r, config) /\ LeavesOf(r, config)
  BY <1>2, <1>4, <1>5, SameRoute
<1>12. RetryOf(r, q, spoiled', cached', published)
  BY <1>1, <1>4, <1>5, <1>8 DEF RetryOf
<1>13. QED
  BY <1>1, <1>3, <1>6, <1>7, <1>9, <1>10, <1>11, <1>12, Moved DEF Good

\* The right key may be refused too, which spoils the resolution.
LEMMA PostStep ==
    ASSUME TypeOK, QInv, NEW q \in Queries, PostOblivious(q)
    PROVE  TypeOK' /\ QInv'
<1> DEFINE k == query[q]
           opens == k.key = published[k.target]
<1>1. k.pc = "post" /\ UNCHANGED <<buildVars, published, cached>>
  BY DEF PostOblivious
<1>2. PICK m \in Stale \cup {"unusable"} \cup (IF opens THEN Messages ELSE {}) :
         /\ query' = [query EXCEPT ![q].pc = "reply", ![q].reply = m, ![q].key = None,
                                   ![q].posts = @ + 1]
         /\ spoiled' = [spoiled EXCEPT ![q] = @ \/ (opens /\ m \in Stale)]
  BY Zenon DEF PostOblivious
<1> DEFINE r == [k EXCEPT !.pc = "reply", !.reply = m, !.key = None, !.posts = k.posts + 1]
<1>3. m \in Messages \cup OdohError /\ k.pc \in Exchanging
  BY <1>1 DEF OdohError, Exchanging
<1>4. r \in QueryState
  <2>1. k \in QueryState /\ k.posts + 1 \in Nat
    BY Unfold DEF QueryState
  <2>2. QED
    BY <1>3, <2>1 DEF QueryState
<1>5. /\ r.pc = "reply" /\ r.reply = m /\ r.pc \in Exchanging
      /\ r.name = k.name /\ r.via = k.via /\ r.target = k.target /\ r.relay = k.relay
      /\ r.retried = k.retried /\ r.posts = k.posts + 1 /\ r.fetches = k.fetches
  BY Unfold DEF QueryState, Exchanging
<1>6. /\ RetryOf(k, q, spoiled, cached, published) /\ k \in QueryState
      /\ ExchangeOf(k, config) /\ LeavesOf(k, config)
  BY Unfold
<1>7. query' = [query EXCEPT ![q] = r]
  BY <1>2
<1> HIDE DEF k, r
<1>8. /\ spoiled' \in [Queries -> BOOLEAN]
      /\ \A p \in Queries : p # q => (spoiled[p] => spoiled'[p])
      /\ ~spoiled'[q] => ~spoiled[q] /\ (m \in Stale => k.key # published[k.target])
  BY <1>2 DEF TypeOK
<1>9. ExchangeOf(r, config) /\ LeavesOf(r, config)
  BY <1>3, <1>5, <1>6, SameRoute
<1>10. r.retried /\ ~spoiled'[q] => m \notin Stale
  BY <1>1, <1>5, <1>6, <1>8 DEF RetryOf
<1>11. RetryOf(r, q, spoiled', cached, published)
  <2>1. /\ r.posts = (IF r.retried THEN 2 ELSE 1)
        /\ r.fetches <= (IF r.retried THEN 2 ELSE 1)
    BY <1>1, <1>5, <1>6 DEF RetryOf
  <2>2. QED
    BY <1>5, <1>10, <2>1 DEF RetryOf
<1>12. cached' \in [Urls -> Keys \cup {None}] /\ cached' = cached
  BY <1>1 DEF TypeOK
<1>13. QED
  BY <1>1, <1>4, <1>7, <1>8, <1>9, <1>11, <1>12, Moved DEF Good

\* The retry starts from an empty cache.
LEMMA StaleStep ==
    ASSUME TypeOK, QInv, NEW q \in Queries, StaleKey(q)
    PROVE  TypeOK' /\ QInv'
<1> DEFINE k == query[q]
           r == [k EXCEPT !.pc = "config", !.retried = TRUE, !.reply = "none"]
<1>1. /\ k.pc = "reply" /\ query' = [query EXCEPT ![q] = r]
      /\ cached' = [cached EXCEPT ![k.target] = None]
      /\ UNCHANGED <<buildVars, published, spoiled>>
  BY DEF StaleKey
<1>2. ~k.retried
  BY DEF StaleKey
<1>3. k.pc \in Exchanging
  BY <1>1 DEF Exchanging
<1>4. r \in QueryState
  BY Unfold DEF QueryState
<1>5. /\ r.pc = "config" /\ r.pc \in Exchanging
      /\ r.name = k.name /\ r.via = k.via /\ r.target = k.target /\ r.relay = k.relay
      /\ r.posts = k.posts /\ r.fetches = k.fetches
  BY Unfold DEF QueryState, Exchanging
<1>6. r.retried
  BY Unfold DEF QueryState
<1>7. /\ RetryOf(k, q, spoiled, cached, published) /\ k \in QueryState
      /\ ExchangeOf(k, config) /\ LeavesOf(k, config)
      /\ k.target \in Urls
  BY <1>3, Unfold
<1> HIDE DEF k, r
<1>8. /\ cached' \in [Urls -> Keys \cup {None}]
      /\ \A t \in Urls : cached'[t] \in {cached[t], None, published[t]}
      /\ cached'[k.target] = None
  BY <1>1, <1>7 DEF TypeOK
<1>9. ExchangeOf(r, config) /\ LeavesOf(r, config)
  BY <1>3, <1>5, <1>7, SameRoute
<1>10. RetryOf(r, q, spoiled, cached', published)
  <2>1. r.posts = 1 /\ r.fetches <= 1
    BY <1>1, <1>2, <1>5, <1>7 DEF RetryOf
  <2>2. r.fetches \in Nat
    BY <1>4 DEF QueryState
  <2>3. r.fetches <= 2
    BY <2>1, <2>2
  <2>4. QED
    BY <1>5, <1>6, <1>8, <2>1, <2>3 DEF RetryOf
<1>11. QED
  BY <1>1, <1>4, <1>8, <1>9, <1>10, Moved DEF Good, TypeOK

\* An exchange that cannot be repeated ends its resolution.
LEMMA FailsStep ==
    ASSUME TypeOK, QInv, NEW q \in Queries, ExchangeFails(q)
    PROVE  TypeOK' /\ QInv'
<1> DEFINE k == query[q]
<1>1. /\ k.pc = "reply" /\ Finished(q, "failed", k.reply)
      /\ UNCHANGED <<buildVars, published, cached, spoiled>>
  BY DEF ExchangeFails
<1>2. k.reply \in Messages \cup OdohError \cup {"none"}
  BY Unfold DEF QueryState
<1>3. k.reply \in Stale => k.retried
  BY DEF ExchangeFails, Stale
<1>4. RetryOf(k, q, spoiled, cached, published)
  BY Unfold
<1>5. k.reply \in Stale => spoiled[q]
  BY <1>1, <1>3, <1>4 DEF RetryOf
<1>6. QED
  BY <1>1, <1>2, <1>5, FinishedStep

\* The reply of an exchange ends it.
LEMMA EndsStep ==
    ASSUME TypeOK, QInv, NEW q \in Queries, ExchangeEnds(q)
    PROVE  TypeOK' /\ QInv'
<1>1. query[q].reply \in Messages /\ UNCHANGED <<buildVars, published, cached, spoiled>>
  BY DEF ExchangeEnds
<1>2. PICK how \in {"done", "failed"} : Finished(q, how, query[q].reply)
  BY DEF ExchangeEnds
<1>3. query[q].reply \notin Stale
  BY <1>1 DEF Messages, Stale
<1>4. QED
  BY <1>1, <1>2, <1>3, FinishedStep

\* An exchange begins at one of the configured targets, through one of the relays.
LEMMA BeginStep ==
    ASSUME TypeOK, QInv, NEW q \in Queries, NEW known \in QueryState,
           BeginExchange(q, known), ~Refused(config), Odoh(config),
           Specific(known.via, ZonesFor(config, known.name)),
           ZonesFor(config, known.name) = {},
           UNCHANGED <<buildVars, published, cached>>,
           spoiled' \in [Queries -> BOOLEAN],
           \A p \in Queries : p # q => (spoiled[p] => spoiled'[p])
    PROVE  TypeOK' /\ QInv'
<1>1. PICK t \in Selected(config.default.urls), w \in Selected(config.relays) :
         query' = [query EXCEPT ![q] =
                     [known EXCEPT !.pc = "config", !.target = t, !.relay = w, !.reply = "none",
                                   !.retried = FALSE, !.posts = 0, !.fetches = 0]]
  BY DEF BeginExchange
<1>2. config \in Configs
  BY DEF TypeOK
<1>3. config.default.urls # <<>> /\ config.relays # <<>>
  BY DEF Refused, OdohRefused, Odoh
<1>4. t \in Urls /\ w \in STRING \ {"none"}
  BY <1>2, <1>3, ConfigType, SelectedType
<1>5. PICK r : r = [known EXCEPT !.pc = "config", !.target = t, !.relay = w, !.reply = "none",
                                 !.retried = FALSE, !.posts = 0, !.fetches = 0]
  OBVIOUS
<1>6. r \in QueryState
  BY <1>4, <1>5 DEF QueryState
<1>7. /\ r.pc = "config" /\ r.target = t /\ r.relay = w
      /\ r.posts = 0 /\ r.fetches = 0 /\ r.via = known.via /\ r.name = known.name
  BY <1>5 DEF QueryState
<1>8. ~r.retried
  BY <1>5 DEF QueryState
<1>9. ExchangeOf(r, config) /\ LeavesOf(r, config)
  BY <1>4, <1>7 DEF ExchangeOf, LeavesOf
<1>10. RetryOf(r, q, spoiled', cached, published)
  BY <1>7, <1>8 DEF RetryOf, Exchanging
<1>11. cached' \in [Urls -> Keys \cup {None}] /\ cached' = cached
  BY DEF TypeOK
<1>12. query' = [query EXCEPT ![q] = r]
  BY <1>1, <1>5
<1>13. QED
  BY <1>6, <1>9, <1>10, <1>11, <1>12, Moved DEF Good

\* Every lookup of the validator's chain leaves the way the name itself did.
LEMMA AsksStep ==
    ASSUME TypeOK, QInv, NEW q \in Queries, ValidatorAsks(q)
    PROVE  TypeOK' /\ QInv'
<1>1. PICK known : known = [query[q] EXCEPT !.chain = query[q].chain + 1]
  OBVIOUS
<1>2. /\ query[q].pc = "reply" /\ query[q].chain < MaxChain
      /\ BeginExchange(q, known) /\ UNCHANGED <<buildVars, published, cached, spoiled>>
  BY <1>1 DEF ValidatorAsks
<1>3. /\ query[q] \in QueryState /\ ExchangeOf(query[q], config)
      /\ LeavesOf(query[q], config)
  BY Unfold
<1>4. known \in QueryState /\ known.via = query[q].via /\ known.name = query[q].name
  BY <1>1, <1>2, <1>3 DEF QueryState
<1>5. ~Refused(config) /\ Odoh(config) /\ query[q].relay # "none"
  BY <1>2, <1>3 DEF ExchangeOf, Exchanging
<1>6. /\ Specific(known.via, ZonesFor(config, known.name))
      /\ ZonesFor(config, known.name) = {}
  BY <1>2, <1>3, <1>4, <1>5 DEF LeavesOf
<1>7. spoiled' = spoiled /\ spoiled \in [Queries -> BOOLEAN]
  BY <1>2 DEF TypeOK
<1>8. QED
  BY <1>2, <1>4, <1>5, <1>6, <1>7, BeginStep

\* A name starts on the arm that match_route found for it.
LEMMA ResolveStep ==
    ASSUME TypeOK, Accepted, RouteInv, QInv, NEW q \in Queries, NEW n \in Names, Resolve(q, n)
    PROVE  TypeOK' /\ QInv'
<1> DEFINE z == MatchRoute(n).zone
<1>1. PICK known : known = [Idle EXCEPT !.name = n, !.via = z]
  OBVIOUS
<1>2. /\ stage = "ready" /\ spoiled' = [spoiled EXCEPT ![q] = FALSE]
      /\ UNCHANGED <<buildVars, published, cached>>
  BY DEF Resolve
<1>3. IF known.via = <<>> /\ IsOdoh
        THEN BeginExchange(q, known)
        ELSE query' = [query EXCEPT ![q] = [known EXCEPT !.pc = "hickory"]]
  BY <1>1 DEF Resolve
<1>4. z \in Zones /\ Specific(z, ZonesFor(config, n)) /\ (z = <<>> <=> ZonesFor(config, n) = {})
  BY <1>2, MatchIsSpecific
<1> HIDE DEF z
<1>5. /\ known \in QueryState /\ known.name = n /\ known.via = z
      /\ known.relay = "none" /\ known.posts = 0 /\ known.fetches = 0
  BY <1>1, <1>4, IdleType DEF Idle, QueryState
<1>6. ~known.retried
  BY <1>1 DEF Idle
<1>7. /\ spoiled' \in [Queries -> BOOLEAN]
      /\ \A p \in Queries : p # q => (spoiled[p] => spoiled'[p])
  BY <1>2 DEF TypeOK
<1>8. CASE known.via = <<>> /\ IsOdoh
  <2>1. ~Refused(config) /\ Odoh(config)
    BY <1>2, <1>8 DEF Accepted, IsOdoh, Odoh
  <2>2. BeginExchange(q, known)
    BY <1>3, <1>8
  <2>3. ZonesFor(config, known.name) = {} /\ Specific(known.via, ZonesFor(config, known.name))
    BY <1>4, <1>5, <1>8
  <2>4. QED
    BY <1>2, <1>5, <1>7, <2>1, <2>2, <2>3, BeginStep
<1>9. CASE ~(known.via = <<>> /\ IsOdoh)
  <2>1. PICK r : r = [known EXCEPT !.pc = "hickory"]
    OBVIOUS
  <2>2. /\ r \in QueryState /\ r.pc = "hickory" /\ r.name = n /\ r.via = z
        /\ r.relay = "none" /\ r.posts = 0 /\ r.fetches = 0
    BY <1>5, <2>1 DEF QueryState
  <2>3. ~r.retried
    BY <1>5, <1>6, <2>1 DEF QueryState
  <2>4. query' = [query EXCEPT ![q] = r]
    BY <1>3, <1>9, <2>1
  <2>5. r.pc \notin Exchanging
    BY <2>2 DEF Exchanging
  <2>6. ExchangeOf(r, config)
    BY <2>5 DEF ExchangeOf
  <2>7. LeavesOf(r, config)
    BY <1>4, <1>5, <1>9, <2>2 DEF LeavesOf, IsOdoh, Odoh
  <2>8. RetryOf(r, q, spoiled', cached, published)
    BY <2>2, <2>3, <2>5 DEF RetryOf
  <2>9. cached' \in [Urls -> Keys \cup {None}] /\ cached' = cached
    BY <1>2 DEF TypeOK
  <2>10. QED
    BY <1>2, <1>7, <2>2, <2>4, <2>6, <2>7, <2>8, <2>9, Moved DEF Good
<1>10. QED
  BY <1>8, <1>9

\* A rotation spoils whoever resolves through that target, and nobody else.
LEMMA RotateStep ==
    ASSUME TypeOK, QInv, NEW t \in Urls, Rotate(t)
    PROVE  TypeOK' /\ QInv'
<1>1. /\ published' = [published EXCEPT ![t] = published[t] + 1] /\ published[t] < MaxKeys
      /\ spoiled' = [q \in Queries |-> spoiled[q] \/ query[q].target = t]
      /\ UNCHANGED <<buildVars, cached, query>>
  BY DEF Rotate
<1>2. published' \in [Urls -> Keys]
  <2>1. published[t] + 1 \in Keys
    BY <1>1 DEF TypeOK, Keys
  <2>2. QED
    BY <1>1, <2>1 DEF TypeOK
<1>3. spoiled' \in [Queries -> BOOLEAN]
  BY <1>1 DEF TypeOK
<1>4. TypeOK'
  BY <1>1, <1>2, <1>3 DEF TypeOK, buildVars
<1>5. ASSUME NEW q \in Queries
      PROVE  Good(query[q], q, spoiled', cached, published', config)
  <2>1. /\ ExchangeOf(query[q], config) /\ LeavesOf(query[q], config)
        /\ RetryOf(query[q], q, spoiled, cached, published)
    BY Unfold
  <2>2. spoiled[q] => spoiled'[q]
    BY <1>1
  <2>3. ~spoiled'[q] => query[q].target # t
    BY <1>1
  <2>4. query[q].pc \in Exchanging /\ ~spoiled'[q] =>
          published'[query[q].target] = published[query[q].target]
    BY <1>1, <2>3, Unfold DEF TypeOK
  <2>5. RetryOf(query[q], q, spoiled', cached, published')
    BY <2>1, <2>2, <2>4 DEF RetryOf, Exchanging
  <2>6. QED
    BY <2>1, <2>5 DEF Good
<1>6. QED
  BY <1>1, <1>4, <1>5 DEF QInv, buildVars

-----------------------------------------------------------------------------
(* The theorems. *)

IInv == TypeOK /\ Accepted /\ RouteInv /\ QInv

\* The invariants of the resolver hold before it is built.
LEMMA IInvInit == Init => IInv
<1> SUFFICES ASSUME Init PROVE QInv
  BY TInit, RouteInit DEF TInv, IInv
<1>1. Idle.pc = "idle" /\ Idle.posts = 0 /\ Idle.fetches = 0
  BY DEF Idle
<1>2. \A q \in Queries : query[q] = Idle
  BY DEF Init
<1>3. \A q \in Queries : Good(Idle, q, spoiled, cached, published, config)
  BY <1>1, EndedGood
<1>4. QED
  BY <1>2, <1>3 DEF QInv

\* Every step keeps the invariant.
LEMMA IInvStep == IInv /\ [Next]_vars => IInv'
<1> SUFFICES ASSUME IInv, [Next]_vars PROVE IInv'
  OBVIOUS
<1> USE DEF IInv
<1>1. RouteInv'
  BY RouteStep
<1>2. CASE BuildStep
  <2>1. TypeOK' /\ Accepted'
    BY <1>2, TBuild DEF TInv
  <2>2. UNCHANGED <<config, published, cached, query, spoiled>>
    BY <1>2 DEF BuildStep, SkipUrl, LookupFails, Bootstrapped, FinishArm, FinishBuild
  <2>3. QInv'
    BY <2>2 DEF QInv
  <2>4. QED
    BY <1>1, <2>1, <2>3
<1>3. ASSUME UNCHANGED buildVars, TypeOK' /\ QInv' PROVE IInv'
  BY <1>1, <1>3 DEF Accepted, buildVars
<1>4. ASSUME NEW q \in Queries, QueryStep(q) PROVE TypeOK' /\ QInv'
  BY <1>4, HickoryStep, LoadStep, FetchStep, StoreStep, PostStep, StaleStep, FailsStep,
     AsksStep, EndsStep DEF QueryStep
<1>5. ASSUME NEW q \in Queries, Collect(q) PROVE TypeOK' /\ QInv'
  BY <1>5, CollectStep
<1>6. ASSUME NEW q \in Queries, NEW n \in Names, Resolve(q, n) PROVE TypeOK' /\ QInv'
  BY <1>6, ResolveStep
<1>7. ASSUME NEW t \in Targets, Rotate(t) PROVE TypeOK' /\ QInv'
  <2>1. t \in Urls
    BY ConfigType, ElementsType DEF TypeOK, Targets
  <2>2. QED
    BY <1>7, <2>1, RotateStep
<1>8. CASE UNCHANGED vars
  BY <1>8 DEF vars, buildVars, TypeOK, QInv, Accepted, RouteInv
<1>9. BuildStep \/ UNCHANGED buildVars
  BY BuildAlone
<1>10. QED
  BY <1>2, <1>3, <1>4, <1>5, <1>6, <1>7, <1>8, <1>9 DEF Next

\* Every variable keeps its type: in particular a resolution only ever waits on a
\* target and a relay that are configured, with a key that was published.
THEOREM TypeCorrect == Spec => []TypeOK
BY IInvInit, IInvStep, PTL DEF Spec, IInv

\* However many routes there are and in whatever order they are written, a name
\* only leaves through the most specific route it is in, through the default arm
\* when it is in none, and through a relay exactly when that arm is oblivious.
THEOREM RouteAlways == Spec => []LeavesByItsRoute
BY IInvInit, IInvStep, QInvSuffices, PTL DEF Spec, IInv

\* With any number of resolutions refreshing the same keys and any number of
\* rotations, an exchange posts at most twice, and gives up on a refused key only
\* when something spoiled it.
THEOREM RetryAlways == Spec => []RotationCostsARetry
BY IInvInit, IInvStep, QInvSuffices, PTL DEF Spec, IInv
=============================================================================
