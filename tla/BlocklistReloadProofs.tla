------------------------ MODULE BlocklistReloadProofs ------------------------
(***************************************************************************)
(* Proofs about BlocklistReload for any lists, sources, versions and any   *)
(* number of concurrent reloads.                                           *)
(***************************************************************************)
EXTENDS BlocklistReload, TLAPS

USE BlocklistAssumption

\* The sources of a list.
SourcesOf(l) == LocalFiles[l] \cup RemoteUrls[l]

\* A state that is built from real content is well typed.
LEMMA BuildStateType ==
    ASSUME NEW l \in Lists, NEW ld \in Loads
    PROVE  BuildState(l, ld) \in [loads : Loads, base : SUBSET Names]
BY DEF BuildState, Lists

\* What Contribute does to the two maps, when it is given good content.
LEMMA ContributeType ==
    ASSUME TypeOK, NEW r \in Reloaders, NEW s \in Sources,
           NEW v \in Versions \cup {None}, Contribute(r, s, v)
    PROVE  /\ lastGood' \in [Sources -> Versions \cup {None}]
           /\ gathered' \in [Reloaders -> Loads]
           /\ \A q \in Reloaders : q # r => gathered'[q] = gathered[q]
           /\ \A t \in Sources : lastGood[t] # None => lastGood'[t] # None
           /\ gathered[r] \subseteq gathered'[r]
           /\ \A x \in gathered'[r] :
                 x \in gathered[r] \/ (x[1] = s /\ lastGood'[s] # None)
           /\ lastGood[s] # None => \E x \in gathered'[r] : x[1] = s
<1> DEFINE good == IF v # None THEN v ELSE lastGood[s]
<1>1. good \in Versions \cup {None}
  BY DEF TypeOK
<1>2. /\ lastGood' = [lastGood EXCEPT ![s] = good]
      /\ gathered' = [gathered EXCEPT ![r] =
                        IF good = None THEN @ ELSE @ \cup {<<s, good>>}]
  BY DEF Contribute
<1>3. good # None => <<s, good>> \in Sources \X Versions
  BY <1>1
<1>4. gathered' \in [Reloaders -> Loads]
  BY <1>1, <1>2, <1>3 DEF TypeOK, Loads
<1>5. /\ lastGood' \in [Sources -> Versions \cup {None}]
      /\ \A t \in Sources : lastGood[t] # None => lastGood'[t] # None
      /\ lastGood'[s] = good
  BY <1>1, <1>2 DEF TypeOK
<1>6. \A q \in Reloaders : q # r => gathered'[q] = gathered[q]
  BY <1>2 DEF TypeOK
<1>7. gathered'[r] = IF good = None THEN gathered[r]
                     ELSE gathered[r] \cup {<<s, good>>}
  BY <1>2 DEF TypeOK
<1>8. lastGood[s] # None => good # None
  OBVIOUS
<1>9. <<s, good>>[1] = s
  OBVIOUS
<1> HIDE DEF good
<1>10. /\ gathered[r] \subseteq gathered'[r]
       /\ lastGood[s] # None => \E x \in gathered'[r] : x[1] = s
  BY <1>7, <1>8, <1>9
<1>11. \A x \in gathered'[r] : x \in gathered[r] \/ (x[1] = s /\ lastGood'[s] # None)
  BY <1>5, <1>7, <1>9
<1>12. QED
  BY <1>4, <1>5, <1>6, <1>10, <1>11

\* The type invariant holds initially.
LEMMA InitType == Init => TypeOK
<1> SUFFICES ASSUME Init PROVE TypeOK
  OBVIOUS
<1>1. 0 \in Versions /\ 0 \in Lists /\ {} \in Loads
  BY DEF Versions, Lists, Loads
<1>2. \A l \in Lists : EmptyState(l) \in [loads : Loads, base : SUBSET Names]
  BY <1>1 DEF EmptyState
<1>3. QED
  BY <1>1, <1>2 DEF Init, TypeOK

\* Every step of any task keeps the types.
LEMMA StepType == TypeOK /\ [Next]_vars => TypeOK'
<1> SUFFICES ASSUME TypeOK, [Next]_vars PROVE TypeOK'
  OBVIOUS
<1>1. ASSUME NEW s \in Sources, Publish(s) PROVE TypeOK'
  BY <1>1 DEF Publish, taskVars, TypeOK, Versions
<1>2. ASSUME NEW s \in Sources, Toggle(s) PROVE TypeOK'
  BY <1>2 DEF Toggle, taskVars, TypeOK
<1>3. ASSUME NEW r \in Reloaders, StartReload(r) PROVE TypeOK'
  BY <1>3 DEF StartReload, TypeOK, Lists
<1>4. ASSUME NEW r \in Reloaders, NEW s \in Sources, ReadLocal(r, s)
      PROVE TypeOK'
  BY <1>4 DEF ReadLocal, TypeOK
<1>40. ASSUME NEW r \in Reloaders, NEW s \in Sources, KeepLocal(r, s)
      PROVE TypeOK'
  <2>1. got[r][s] \in Versions \cup {None}
    BY DEF TypeOK
  <2>2. lastGood' \in [Sources -> Versions \cup {None}]
        /\ gathered' \in [Reloaders -> Loads]
    BY <1>40, <2>1, ContributeType DEF KeepLocal
  <2>3. QED
    BY <1>40, <2>2 DEF KeepLocal, TypeOK
<1>5. ASSUME NEW r \in Reloaders, StartFetches(r) PROVE TypeOK'
  BY <1>5 DEF StartFetches, TypeOK
<1>6. ASSUME NEW r \in Reloaders, NEW s \in Sources, FetchEnds(r, s)
      PROVE TypeOK'
  BY <1>6 DEF FetchEnds, TypeOK
<1>7. ASSUME NEW r \in Reloaders, AllFetched(r) PROVE TypeOK'
  BY <1>7 DEF AllFetched, TypeOK
<1>8. ASSUME NEW r \in Reloaders, NEW s \in Sources, SettleFetch(r, s)
      PROVE TypeOK'
  <2>1. got[r][s] \in Versions \cup {None}
    BY DEF TypeOK
  <2>2. lastGood' \in [Sources -> Versions \cup {None}]
        /\ gathered' \in [Reloaders -> Loads]
    BY <1>8, <2>1, ContributeType DEF SettleFetch
  <2>3. QED
    BY <1>8, <2>2 DEF SettleFetch, TypeOK
<1>9. ASSUME NEW r \in Reloaders, SwapState(r) PROVE TypeOK'
  <2>1. gathered[r] \in Loads /\ at[r] \in Lists
    BY DEF TypeOK
  <2>2. BuildState(at[r], gathered[r]) \in [loads : Loads, base : SUBSET Names]
    BY <2>1, BuildStateType
  <2>3. engine' \in [Lists -> [loads : Loads, base : SUBSET Names]]
    BY <1>9, <2>1, <2>2 DEF SwapState, TypeOK
  <2>4. gathered' \in [Reloaders -> Loads]
    BY <1>9 DEF SwapState, TypeOK, Loads
  <2>5. /\ 0 \in Lists
        /\ at[r] < NumGroups => at[r] + 1 \in Lists
    BY <2>1 DEF Lists
  <2> DEFINE next == at[r] + 1
             files == LocalFiles[next]
  <2>51. at[r] < NumGroups => next \in Lists /\ files \in SUBSET Sources
    BY <2>5
  <2>6. at' \in [Reloaders -> Lists] /\ todo' \in [Reloaders -> SUBSET Sources]
    <3>1. CASE at[r] < NumGroups
      <4>1. /\ at' = [at EXCEPT ![r] = next]
            /\ todo' = [todo EXCEPT ![r] = files]
        BY <1>9, <3>1 DEF SwapState
      <4> HIDE DEF next, files
      <4>2. QED
        BY <3>1, <4>1, <2>51 DEF TypeOK
    <3>2. CASE ~(at[r] < NumGroups)
      <4>1. at' = [at EXCEPT ![r] = 0] /\ UNCHANGED todo
        BY <1>9, <3>2 DEF SwapState
      <4>2. QED
        BY <2>5, <4>1 DEF TypeOK
    <3>3. QED
      BY <3>1, <3>2
  <2>7. pc' \in [Reloaders -> {"idle", "read", "fetch", "settle"}]
        /\ booted' \in BOOLEAN
    BY <1>9 DEF SwapState, TypeOK
  <2>8. QED
    BY <1>9, <2>3, <2>4, <2>6, <2>7 DEF SwapState, TypeOK
<1>10. CASE UNCHANGED vars
  BY <1>10 DEF vars, taskVars, TypeOK
<1>11. QED
  BY <1>1, <1>2, <1>3, <1>4, <1>40, <1>5, <1>6, <1>7, <1>8, <1>9, <1>10
     DEF Next, ReloadStep

\* Only real content is ever gathered, remembered or built into a state.
THEOREM TypeCorrect == Spec => []TypeOK
BY InitType, StepType, PTL DEF Spec

-----------------------------------------------------------------------------
\* A contribution leaves content to fall back to for everything gathered.
LEMMA ContributionKeepsFallback ==
    ASSUME TypeOK, FallbackExists, NEW r \in Reloaders, NEW s \in Sources,
           NEW v \in Versions \cup {None}, Contribute(r, s, v),
           engine' = engine
    PROVE  FallbackExists'
<1>1. ASSUME NEW l \in Lists, NEW t \in From(engine[l])
      PROVE  lastGood'[t] # None
  <2>1. lastGood[t] # None
    BY <1>1 DEF FallbackExists
  <2>2. t \in Sources
    BY <1>1 DEF From, TypeOK, Loads
  <2>3. QED
    BY <2>1, <2>2, ContributeType
<1>2. ASSUME NEW q \in Reloaders, NEW x \in gathered'[q]
      PROVE  lastGood'[x[1]] # None
  <2>1. CASE x \in gathered[q]
    <3>1. lastGood[x[1]] # None
      BY <2>1 DEF FallbackExists
    <3>2. x[1] \in Sources
      BY <2>1 DEF TypeOK, Loads
    <3>3. QED
      BY <3>1, <3>2, ContributeType
  <2>2. CASE q = r /\ x[1] = s /\ lastGood'[s] # None
    BY <2>2
  <2>3. QED
    BY <1>2, <2>1, <2>2, ContributeType
<1>3. QED
  BY <1>1, <1>2 DEF FallbackExists, From

\* No step takes the fallback of a source away.
LEMMA StepFallback ==
    TypeOK /\ FallbackExists /\ [Next]_vars => FallbackExists'
<1> SUFFICES ASSUME TypeOK, FallbackExists, [Next]_vars PROVE FallbackExists'
  OBVIOUS
<1>1. ASSUME NEW r \in Reloaders, NEW s \in Sources, KeepLocal(r, s)
      PROVE FallbackExists'
  <2>1. got[r][s] \in Versions \cup {None}
    BY DEF TypeOK
  <2>2. Contribute(r, s, got[r][s]) /\ engine' = engine
    BY <1>1 DEF KeepLocal
  <2>3. QED
    BY <2>1, <2>2, ContributionKeepsFallback
<1>2. ASSUME NEW r \in Reloaders, NEW s \in Sources, SettleFetch(r, s)
      PROVE FallbackExists'
  <2>1. got[r][s] \in Versions \cup {None}
    BY DEF TypeOK
  <2>2. Contribute(r, s, got[r][s]) /\ engine' = engine
    BY <1>2 DEF SettleFetch
  <2>3. QED
    BY <2>1, <2>2, ContributionKeepsFallback
<1>3. ASSUME NEW r \in Reloaders, SwapState(r)
      PROVE FallbackExists'
  <2>1. ASSUME NEW l \in Lists, NEW s \in From(engine'[l])
        PROVE  lastGood[s] # None
    <3>1. CASE engine'[l] = engine[l]
      BY <2>1, <3>1 DEF FallbackExists
    <3>2. CASE engine'[l] = BuildState(at[r], gathered[r])
      BY <2>1, <3>2 DEF FallbackExists, From, BuildState
    <3>3. QED
      BY <1>3, <3>1, <3>2 DEF SwapState, TypeOK
  <2>2. ASSUME NEW q \in Reloaders, NEW x \in gathered'[q]
        PROVE  lastGood[x[1]] # None
    BY <1>3, <2>2 DEF SwapState, TypeOK, FallbackExists
  <2>3. QED
    BY <1>3, <2>1, <2>2 DEF SwapState, FallbackExists
<1>4. CASE UNCHANGED <<engine, lastGood, gathered>>
  BY <1>4 DEF FallbackExists, From
<1>5. QED
  BY <1>1, <1>2, <1>3, <1>4
     DEF Next, ReloadStep, Publish, Toggle, StartReload, ReadLocal, StartFetches,
         FetchEnds, AllFetched, vars, taskVars

\* With any number of concurrent reloads, every source that is part of an
\* active list has content to fall back to.
THEOREM FallbackAlways == Spec => []FallbackExists
<1>1. Init => FallbackExists
  BY DEF Init, FallbackExists, EmptyState, From
<1>2. QED
  BY <1>1, StepFallback, TypeCorrect, PTL DEF Spec

-----------------------------------------------------------------------------
(* Who may exempt a name. *)

\* The configured part of a state's allowlist: the list's own entries from the
\* start, nothing but the list's own and the global entries ever, and all of the
\* global ones once anything has been loaded.
AllowInv ==
    \A l \in Lists :
        /\ engine[l].base \subseteq AllowEntries[0] \cup AllowEntries[l]
        /\ engine[l].loads # {} => AllowEntries[0] \subseteq engine[l].base

\* Only a swap changes a state, and it builds the new one with BuildState.
LEMMA EngineStep ==
    ASSUME TypeOK, [Next]_vars, NEW l \in Lists
    PROVE  \/ engine'[l] = engine[l]
           \/ \E ld \in Loads : engine'[l] = BuildState(l, ld)
<1>1. ASSUME NEW r \in Reloaders, SwapState(r)
      PROVE  \/ engine'[l] = engine[l]
             \/ \E ld \in Loads : engine'[l] = BuildState(l, ld)
  <2>1. gathered[r] \in Loads /\ at[r] \in Lists
    BY DEF TypeOK
  <2>2. \/ engine' = engine
        \/ engine' = [engine EXCEPT ![at[r]] = BuildState(at[r], gathered[r])]
    BY <1>1 DEF SwapState
  <2>3. engine'[l] = engine[l]
        \/ (l = at[r] /\ engine'[l] = BuildState(l, gathered[r]))
    BY <2>2 DEF TypeOK
  <2>4. QED
    BY <2>1, <2>3
<1>2. CASE engine' = engine
  BY <1>2
<1>3. QED
  BY <1>1, <1>2
     DEF Next, ReloadStep, Publish, Toggle, StartReload, ReadLocal, KeepLocal,
         StartFetches, FetchEnds, AllFetched, SettleFetch, vars

\* AllowInv is inductive.
LEMMA AllowStep == TypeOK /\ AllowInv /\ [Next]_vars => AllowInv'
<1> SUFFICES ASSUME TypeOK, AllowInv, [Next]_vars, NEW l \in Lists
             PROVE  /\ engine'[l].base \subseteq AllowEntries[0] \cup AllowEntries[l]
                    /\ engine'[l].loads # {} => AllowEntries[0] \subseteq engine'[l].base
  BY DEF AllowInv
<1>1. CASE engine'[l] = engine[l]
  BY <1>1 DEF AllowInv
<1>2. ASSUME NEW ld \in Loads, engine'[l] = BuildState(l, ld)
      PROVE  engine'[l].base = AllowEntries[0] \cup AllowEntries[l]
  BY <1>2 DEF BuildState
<1>3. QED
  BY <1>1, <1>2, EngineStep

\* With that allowlist, nobody but the configuration and the trusted sources can
\* exempt a name, and the global allowlist always does.
LEMMA AllowInvSuffices == AllowInv => AllowsAsConfigured
<1> SUFFICES ASSUME AllowInv PROVE AllowsAsConfigured
  OBVIOUS
<1>1. ASSUME NEW l \in Lists, NEW n \in Names,
             \E x \in engine[l].loads : n \in Body[x[1]][x[2]].block,
             n \notin AllowEntries[0] \cup AllowEntries[l],
             \A x \in engine[l].loads :
                n \in Body[x[1]][x[2]].allow => x[1] \in RemoteUrls[l] \ TrustedRpz[l]
      PROVE  IsBlocked(l, engine[l], n)
  <2>1. n \notin engine[l].base
    BY <1>1 DEF AllowInv
  <2>2. ASSUME NEW x \in engine[l].loads, Trusted(l, x[1])
        PROVE  n \notin Body[x[1]][x[2]].allow
    BY <1>1, <2>2 DEF Trusted
  <2>3. n \notin AllowedBy(l, engine[l])
    BY <2>1, <2>2 DEF AllowedBy
  <2>4. QED
    BY <1>1, <2>3 DEF IsBlocked
<1>2. ASSUME NEW l \in Lists, NEW n \in AllowEntries[0], engine[l].loads # {}
      PROVE  ~IsBlocked(l, engine[l], n)
  BY <1>2 DEF AllowInv, IsBlocked, AllowedBy
<1>3. QED
  BY <1>1, <1>2 DEF AllowsAsConfigured, UntrustedNeverUnblocks, GlobalAllowOnceLoaded

\* With any number of concurrent reloads, whatever remote content says, names are
\* exempted by the configuration and by trusted sources only, and the global
\* allowlist holds in every list that has been loaded.
THEOREM AllowsAlways == Spec => []AllowsAsConfigured
<1>1. Init => AllowInv
  BY DEF Init, AllowInv, EmptyState
<1>2. QED
  BY <1>1, AllowStep, AllowInvSuffices, TypeCorrect, PTL DEF Spec

-----------------------------------------------------------------------------
(* A reload that runs alone keeps every source. *)

\* The sources task r has yet to settle for its list.
Pending(r) ==
    CASE pc[r] = "read"   -> todo[r] \cup RemoteUrls[at[r]]
      [] pc[r] = "fetch"  -> RemoteUrls[at[r]]
      [] pc[r] = "settle" -> todo[r]
      [] OTHER            -> {}

\* Without the loop the other tasks rest.
Rest == \A r \in Reloaders \ {Main} : pc[r] = "idle"

\* States are built from a list's own sources, and while its reload runs every
\* source of the active state is gathered already or still to come.
AloneInv ==
    /\ \A l \in Lists : From(engine[l]) \subseteq SourcesOf(l)
    /\ pc[Main] = "idle" => gathered[Main] = {}
    /\ todo[Main] \subseteq Sources
    /\ pc[Main] # "idle" =>
          /\ Pending(Main) \subseteq SourcesOf(at[Main])
          /\ \A x \in gathered[Main] : x[1] \in SourcesOf(at[Main])
          /\ \A s \in From(engine[at[Main]]) :
                s \in Pending(Main) \/ \E x \in gathered[Main] : x[1] = s

\* The invariant of an unaccompanied main task holds initially.
LEMMA AloneInit == Init => AloneInv
BY DEF Init, AloneInv, EmptyState, From, SourcesOf

\* Without the loop a step is one of the main task or of the world outside.
LEMMA AloneCases ==
    ASSUME ~periodic, Rest, [Next]_vars
    PROVE  \/ \E s \in Sources : Publish(s) \/ Toggle(s)
           \/ StartReload(Main) \/ ReloadStep(Main) \/ UNCHANGED vars
<1>1. ASSUME NEW r \in Reloaders \ {Main}, StartReload(r) \/ ReloadStep(r) PROVE FALSE
  <2>1. pc[r] = "idle"
    BY DEF Rest
  <2>2. QED
    BY <1>1, <2>1 DEF StartReload, ReloadStep, ReadLocal, KeepLocal, StartFetches, FetchEnds,
                      AllFetched, SettleFetch, SwapState
<1>2. QED
  BY <1>1 DEF Next

\* The other tasks go on resting.
LEMMA RestStep ==
    ASSUME ~periodic, TypeOK, Rest, [Next]_vars
    PROVE  Rest' /\ periodic' = periodic
<1>1. \/ UNCHANGED pc
      \/ \E p : pc' = [pc EXCEPT ![Main] = p]
  BY AloneCases
     DEF ReloadStep, StartReload, ReadLocal, KeepLocal, StartFetches, FetchEnds,
         AllFetched, SettleFetch, SwapState, Publish, Toggle, vars, taskVars
<1>2. periodic' = periodic
  BY AloneCases
     DEF ReloadStep, StartReload, ReadLocal, KeepLocal, StartFetches, FetchEnds,
         AllFetched, SettleFetch, SwapState, Publish, Toggle, vars
<1>3. QED
  BY <1>1, <1>2 DEF Rest, TypeOK

\* A contribution settles its source.
LEMMA AloneContribute ==
    ASSUME TypeOK, FallbackExists, AloneInv, pc[Main] \in {"read", "settle"},
           NEW s \in todo[Main], NEW v \in Versions \cup {None},
           Contribute(Main, s, v), todo' = [todo EXCEPT ![Main] = @ \ {s}],
           UNCHANGED <<engine, pc, at>>
    PROVE  AloneInv'
<1>1. s \in Sources /\ s \in Pending(Main) /\ s \in SourcesOf(at[Main])
  BY DEF AloneInv, Pending
<1>2. /\ Pending(Main)' \subseteq Pending(Main)
      /\ Pending(Main) \subseteq Pending(Main)' \cup {s}
      /\ todo'[Main] \subseteq Sources
  BY DEF Pending, TypeOK
<1>3. \A x \in gathered'[Main] : x[1] \in SourcesOf(at[Main])
  BY <1>1, ContributeType DEF AloneInv
<1>4. ASSUME NEW t \in From(engine[at[Main]])
      PROVE  t \in Pending(Main)' \/ \E x \in gathered'[Main] : x[1] = t
  <2>1. CASE t = s
    <3>1. lastGood[s] # None
      BY <2>1, <1>4 DEF FallbackExists, TypeOK
    <3>2. QED
      BY <2>1, <3>1, <1>1, ContributeType
  <2>2. CASE t # s /\ t \in Pending(Main)
    BY <2>2, <1>2
  <2>3. CASE \E x \in gathered[Main] : x[1] = t
    BY <2>3, <1>1, ContributeType
  <2>4. QED
    BY <1>4, <2>1, <2>2, <2>3 DEF AloneInv
<1>5. pc'[Main] # "idle"
  OBVIOUS
<1>6. QED
  BY <1>2, <1>3, <1>4, <1>5 DEF AloneInv, SourcesOf, From

\* Every step of an unaccompanied main task keeps that invariant.
LEMMA AloneStep ==
    ASSUME ~periodic, Rest, TypeOK, FallbackExists, AloneInv, [Next]_vars
    PROVE  AloneInv'
<1>0. at[Main] \in Lists /\ 0 \in Lists
  BY DEF TypeOK, Lists
<1>1. CASE StartReload(Main)
  <2>1. Pending(Main)' = SourcesOf(0) /\ at'[Main] = 0 /\ pc'[Main] = "read"
    BY <1>1 DEF StartReload, Pending, SourcesOf, TypeOK
  <2>2. gathered'[Main] = {} /\ todo'[Main] \subseteq Sources
    BY <1>0, <1>1 DEF StartReload, AloneInv, TypeOK
  <2>3. \A t \in From(engine[0]) : t \in SourcesOf(0)
    BY <1>0 DEF AloneInv
  <2>4. engine' = engine
    BY <1>1 DEF StartReload
  <2>5. QED
    BY <2>1, <2>2, <2>3, <2>4 DEF AloneInv, SourcesOf, From
<1>2. ASSUME NEW s \in Sources, KeepLocal(Main, s) PROVE AloneInv'
  <2>1. got[Main][s] \in Versions \cup {None}
    BY DEF TypeOK
  <2>2. QED
    BY <1>2, <2>1, AloneContribute DEF KeepLocal
<1>3. CASE StartFetches(Main)
  <2>1. Pending(Main)' = Pending(Main) /\ pc'[Main] = "fetch"
    BY <1>3 DEF StartFetches, Pending, TypeOK
  <2>2. todo'[Main] \subseteq Sources
    BY <1>0, <1>3 DEF StartFetches, TypeOK
  <2>3. UNCHANGED <<engine, gathered, at>> /\ pc[Main] # "idle"
    BY <1>3 DEF StartFetches
  <2>4. QED
    BY <2>1, <2>2, <2>3 DEF AloneInv, SourcesOf, From
<1>4. ASSUME NEW s \in Sources, FetchEnds(Main, s) PROVE AloneInv'
  <2>1. Pending(Main)' = Pending(Main) /\ pc'[Main] = "fetch"
    BY <1>4 DEF FetchEnds, Pending, TypeOK
  <2>2. todo'[Main] \subseteq Sources
    BY <1>4 DEF FetchEnds, AloneInv, TypeOK
  <2>3. UNCHANGED <<engine, gathered, at>> /\ pc[Main] # "idle"
    BY <1>4 DEF FetchEnds
  <2>4. QED
    BY <2>1, <2>2, <2>3 DEF AloneInv, SourcesOf, From
<1>5. CASE AllFetched(Main)
  <2>1. Pending(Main)' = Pending(Main) /\ pc'[Main] = "settle"
    BY <1>5 DEF AllFetched, Pending, TypeOK
  <2>2. todo'[Main] \subseteq Sources
    BY <1>0, <1>5 DEF AllFetched, TypeOK
  <2>3. UNCHANGED <<engine, gathered, at>> /\ pc[Main] # "idle"
    BY <1>5 DEF AllFetched
  <2>4. QED
    BY <2>1, <2>2, <2>3 DEF AloneInv, SourcesOf, From
<1>6. ASSUME NEW s \in Sources, SettleFetch(Main, s) PROVE AloneInv'
  <2>1. got[Main][s] \in Versions \cup {None}
    BY DEF TypeOK
  <2>2. QED
    BY <1>6, <2>1, AloneContribute DEF SettleFetch
<1>7. CASE SwapState(Main)
  <2>1. ASSUME NEW l \in Lists PROVE From(engine'[l]) \subseteq SourcesOf(l)
    <3>1. CASE engine'[l] = engine[l]
      BY <3>1 DEF AloneInv
    <3>2. CASE l = at[Main] /\ engine'[l] = BuildState(l, gathered[Main])
      BY <1>7, <3>2 DEF SwapState, AloneInv, BuildState, From
    <3>3. QED
      BY <1>7, <3>1, <3>2 DEF SwapState, TypeOK
  <2>2. gathered'[Main] = {}
    BY <1>7 DEF SwapState, TypeOK
  <2>3. CASE at[Main] < NumGroups
    <3> DEFINE next == at[Main] + 1
    <3>1. next \in Lists
      BY <1>0, <2>3 DEF Lists
    <3>2. at'[Main] = next /\ todo'[Main] = LocalFiles[next] /\ pc'[Main] = "read"
      BY <1>7, <2>3 DEF SwapState, TypeOK
    <3> HIDE DEF next
    <3>3. Pending(Main)' = SourcesOf(next)
      BY <3>2 DEF Pending, SourcesOf
    <3>4. LocalFiles[next] \subseteq Sources
      BY <3>1
    <3>5. QED
      BY <2>1, <2>2, <3>1, <3>2, <3>3, <3>4 DEF AloneInv, SourcesOf, From
  <2>4. CASE ~(at[Main] < NumGroups)
    <3>1. pc'[Main] = "idle" /\ todo'[Main] \subseteq Sources
      BY <1>7, <2>4 DEF SwapState, TypeOK
    <3>2. QED
      BY <2>1, <2>2, <3>1 DEF AloneInv, SourcesOf, From
  <2>5. QED
    BY <2>3, <2>4
<1>8. CASE UNCHANGED <<engine, gathered, todo, pc, at>>
  BY <1>8 DEF AloneInv, Pending, SourcesOf, From
<1>9. QED
  BY <1>1, <1>2, <1>3, <1>4, <1>5, <1>6, <1>7, <1>8, AloneCases
     DEF ReloadStep, ReadLocal, Publish, Toggle, vars, taskVars

-----------------------------------------------------------------------------
(* Versions, when a reload runs alone. *)

\* What is still to be read or fetched, and what was read or fetched and is
\* not settled yet.
GotInv ==
    /\ pc[Main] = "read" => todo[Main] \subseteq LocalFiles[at[Main]]
    /\ pc[Main] = "fetch" => todo[Main] \subseteq RemoteUrls[at[Main]]
    /\ \A s \in Sources : got[Main][s] # None =>
          \/ pc[Main] = "read" /\ s \in todo[Main]
          \/ pc[Main] = "fetch" /\ s \in RemoteUrls[at[Main]] \ todo[Main]
          \/ pc[Main] = "settle" /\ s \in todo[Main]

\* What is remembered is not newer than what was fetched since, and that not
\* newer than what the source serves.
FreshInv ==
    \A s \in Sources :
        /\ lastGood[s] # None => lastGood[s] <= content[s]
        /\ got[Main][s] # None =>
              /\ got[Main][s] <= content[s]
              /\ lastGood[s] # None => lastGood[s] <= got[Main][s]

\* No state has a newer version than the one remembered, and the running reload
\* has gathered nothing older than what any state has of the same source.
VersionInv ==
    /\ \A l \in Lists : \A x \in engine[l].loads : x[2] <= lastGood[x[1]]
    /\ \A y \in gathered[Main] :
          /\ y[2] <= lastGood[y[1]]
          /\ \A l \in Lists : \A x \in engine[l].loads : x[1] = y[1] => x[2] <= y[2]

\* A source contributes once to a list.
OnceInv ==
    /\ \A l \in Lists : \A x, y \in engine[l].loads : x[1] = y[1] => x = y
    /\ \A x, y \in gathered[Main] : x[1] = y[1] => x = y
    /\ \A x \in gathered[Main] : x[1] \notin Pending(Main)

SerialInv == Rest /\ AloneInv /\ GotInv /\ FreshInv /\ VersionInv /\ OnceInv

\* They hold initially.
LEMMA SerialInit == Init => SerialInv
<1> SUFFICES ASSUME Init PROVE SerialInv
  OBVIOUS
<1>1. Rest /\ AloneInv
  BY AloneInit DEF Init, Rest
<1>2. /\ \A s \in Sources : got[Main][s] = None /\ lastGood[s] = None
      /\ gathered[Main] = {} /\ \A l \in Lists : engine[l].loads = {}
  BY DEF Init, EmptyState
<1>3. GotInv /\ FreshInv /\ VersionInv /\ OnceInv
  <2>1. GotInv
    BY <1>2 DEF GotInv, Init
  <2>2. QED
    BY <1>2, <2>1 DEF FreshInv, VersionInv, OnceInv
<1>4. QED
  BY <1>1, <1>3 DEF SerialInv

\* What a contribution that is not older than what is remembered does.
LEMMA SerialContribute ==
    ASSUME TypeOK, FallbackExists, FreshInv, VersionInv, OnceInv,
           NEW s \in Sources, s \in Pending(Main), NEW v \in Versions \cup {None},
           v # None => v <= content[s] /\ (lastGood[s] # None => lastGood[s] <= v),
           Contribute(Main, s, v), UNCHANGED <<engine, content>>,
           \A t \in Sources \ {s} : got'[Main][t] = got[Main][t],
           got'[Main][s] = None,
           Pending(Main)' \subseteq Pending(Main) \ {s}
    PROVE  FreshInv' /\ VersionInv' /\ OnceInv'
<1> DEFINE good == IF v # None THEN v ELSE lastGood[s]
<1>1. /\ good \in Versions \cup {None}
      /\ good # None => good <= content[s] /\ (lastGood[s] # None => lastGood[s] <= good)
      /\ lastGood[s] # None => good # None
  <2>1. lastGood[s] \in Versions \cup {None} /\ content[s] \in Versions
    BY DEF TypeOK
  <2>2. \A n \in Versions : n <= n
    BY DEF Versions
  <2>3. lastGood[s] # None => lastGood[s] <= content[s] /\ lastGood[s] <= lastGood[s]
    BY <2>1, <2>2 DEF FreshInv
  <2>4. QED
    BY <2>1, <2>3
<1>2. /\ lastGood' = [lastGood EXCEPT ![s] = good]
      /\ gathered' = [gathered EXCEPT ![Main] =
                        IF good = None THEN @ ELSE @ \cup {<<s, good>>}]
  BY DEF Contribute
<1> HIDE DEF good
<1>3. /\ lastGood'[s] = good /\ \A t \in Sources \ {s} : lastGood'[t] = lastGood[t]
      /\ gathered'[Main] = IF good = None THEN gathered[Main]
                           ELSE gathered[Main] \cup {<<s, good>>}
  BY <1>2 DEF TypeOK
<1>4. FreshInv'
  BY <1>1, <1>3 DEF FreshInv
<1>5. \A l \in Lists : \A x \in engine[l].loads : x[1] \in Sources /\ x[2] \in Versions
  BY DEF TypeOK, Loads
<1>6. \A y \in gathered[Main] : y[1] \in Sources /\ y[2] \in Versions
  BY DEF TypeOK, Loads
<1>7. \A l \in Lists : \A x \in engine[l].loads : x[1] = s => good # None /\ x[2] <= good
  <2>1. SUFFICES ASSUME NEW l \in Lists, NEW x \in engine[l].loads, x[1] = s
                 PROVE  good # None /\ x[2] <= good
    OBVIOUS
  <2>2. lastGood[s] # None
    BY <2>1 DEF FallbackExists, From
  <2>3. x[2] <= lastGood[s] /\ lastGood[s] <= good /\ good # None
    BY <1>1, <2>1, <2>2 DEF VersionInv
  <2>4. x[2] \in Nat /\ lastGood[s] \in Nat /\ good \in Nat
    BY <1>1, <1>5, <2>2, <2>3 DEF TypeOK, Versions
  <2>5. QED
    BY <2>3, <2>4
<1>8. \A y \in gathered[Main] : y[1] # s
  BY DEF OnceInv
<1>9. VersionInv'
  <2>1. ASSUME NEW l \in Lists, NEW x \in engine[l].loads PROVE x[2] <= lastGood'[x[1]]
    BY <1>3, <1>5, <1>7 DEF VersionInv
  <2>2. ASSUME NEW y \in gathered'[Main]
        PROVE  /\ y[2] <= lastGood'[y[1]]
               /\ \A l \in Lists : \A x \in engine[l].loads : x[1] = y[1] => x[2] <= y[2]
    <3>1. CASE y \in gathered[Main]
      BY <1>3, <1>6, <1>8, <3>1 DEF VersionInv
    <3>2. CASE y = <<s, good>> /\ good # None
      <4>1. y[1] = s /\ y[2] = good
        BY <3>2
      <4>2. good <= good
        BY <1>1, <3>2 DEF Versions
      <4>3. QED
        BY <1>3, <1>7, <4>1, <4>2
    <3>3. QED
      BY <1>3, <3>1, <3>2
  <2>3. QED
    BY <2>1, <2>2 DEF VersionInv
<1>10. OnceInv'
  <2>1. \A x, y \in gathered'[Main] : x[1] = y[1] => x = y
    <3>1. <<s, good>>[1] = s
      OBVIOUS
    <3>2. QED
      BY <1>3, <1>8, <3>1 DEF OnceInv
  <2>2. \A x \in gathered'[Main] : x[1] \notin Pending(Main)'
    <3>1. <<s, good>>[1] = s
      OBVIOUS
    <3>2. QED
      BY <1>3, <3>1 DEF OnceInv
  <2>3. QED
    BY <2>1, <2>2 DEF OnceInv
<1>11. QED
  BY <1>4, <1>9, <1>10

\* What was fetched is fetched content of the list that is being gathered.
LEMMA GotStep ==
    ASSUME ~periodic, Rest, TypeOK, GotInv, [Next]_vars
    PROVE  GotInv'
<1>0. at[Main] \in Lists /\ 0 \in Lists /\ Main \in Reloaders
  BY DEF TypeOK, Lists
<1>1. CASE StartReload(Main)
  <2>1. pc'[Main] = "read" /\ at'[Main] = 0 /\ todo'[Main] = LocalFiles[0]
    BY <1>1 DEF StartReload, TypeOK
  <2>2. \A s \in Sources : got'[Main][s] = None
    BY <1>1 DEF StartReload, GotInv
  <2>3. QED
    BY <2>1, <2>2 DEF GotInv
<1>2. ASSUME NEW s \in Sources, ReadLocal(Main, s) PROVE GotInv'
  <2>1. s \in todo[Main] /\ UNCHANGED <<pc, at, todo>> /\ pc[Main] = "read"
    BY <1>2 DEF ReadLocal
  <2>2. \A t \in Sources \ {s} : got'[Main][t] = got[Main][t]
    BY <1>2 DEF ReadLocal, TypeOK
  <2>3. QED
    BY <2>1, <2>2 DEF GotInv
<1>20. ASSUME NEW s \in Sources, KeepLocal(Main, s) PROVE GotInv'
  <2>1. todo'[Main] = todo[Main] \ {s} /\ pc[Main] = "read" /\ UNCHANGED <<pc, at>>
    BY <1>20 DEF KeepLocal, TypeOK
  <2>2. got'[Main][s] = None /\ \A t \in Sources \ {s} : got'[Main][t] = got[Main][t]
    BY <1>20 DEF KeepLocal, TypeOK
  <2>3. pc'[Main] = "read" /\ todo'[Main] \subseteq LocalFiles[at'[Main]]
    BY <2>1 DEF GotInv
  <2>4. \A t \in Sources : got'[Main][t] # None => t \in todo'[Main]
    BY <2>1, <2>2 DEF GotInv
  <2>5. QED
    BY <2>3, <2>4 DEF GotInv
<1>3. CASE StartFetches(Main)
  <2>1. pc'[Main] = "fetch" /\ todo'[Main] = RemoteUrls[at[Main]] /\ pc[Main] = "read" /\ todo[Main] = {}
    BY <1>3 DEF StartFetches, TypeOK
  <2>2. UNCHANGED <<at, got>>
    BY <1>3 DEF StartFetches
  <2>3. QED
    BY <2>1, <2>2 DEF GotInv
<1>4. ASSUME NEW s \in Sources, FetchEnds(Main, s) PROVE GotInv'
  <2>1. todo'[Main] = todo[Main] \ {s} /\ s \in todo[Main] /\ pc[Main] = "fetch"
    BY <1>4 DEF FetchEnds, TypeOK
  <2>2. UNCHANGED <<pc, at>>
    BY <1>4 DEF FetchEnds
  <2>3. \A t \in Sources \ {s} : got'[Main][t] = got[Main][t]
    BY <1>4 DEF FetchEnds, TypeOK
  <2>4. QED
    BY <2>1, <2>2, <2>3 DEF GotInv
<1>5. CASE AllFetched(Main)
  <2>1. /\ pc'[Main] = "settle" /\ todo'[Main] = RemoteUrls[at[Main]]
        /\ pc[Main] = "fetch" /\ todo[Main] = {}
    BY <1>5 DEF AllFetched, TypeOK
  <2>2. UNCHANGED <<at, got>>
    BY <1>5 DEF AllFetched
  <2>3. QED
    BY <2>1, <2>2 DEF GotInv
<1>6. ASSUME NEW s \in Sources, SettleFetch(Main, s) PROVE GotInv'
  <2>1. todo'[Main] = todo[Main] \ {s} /\ pc[Main] = "settle" /\ UNCHANGED <<pc, at>>
    BY <1>6 DEF SettleFetch, TypeOK
  <2>2. got'[Main][s] = None /\ \A t \in Sources \ {s} : got'[Main][t] = got[Main][t]
    BY <1>6 DEF SettleFetch, TypeOK
  <2>3. QED
    BY <2>1, <2>2 DEF GotInv
<1>7. CASE SwapState(Main)
  <2>1. \A s \in Sources : got'[Main][s] = None
    BY <1>7 DEF SwapState, GotInv
  <2>2. CASE at[Main] < NumGroups
    <3> DEFINE next == at[Main] + 1
    <3>1. at'[Main] = next /\ todo'[Main] = LocalFiles[next] /\ pc'[Main] = "read"
      BY <1>7, <2>2 DEF SwapState, TypeOK
    <3> HIDE DEF next
    <3>2. QED
      BY <2>1, <3>1 DEF GotInv
  <2>3. CASE ~(at[Main] < NumGroups)
    <3>1. pc'[Main] = "idle"
      BY <1>7, <2>3 DEF SwapState, TypeOK
    <3>2. QED
      BY <2>1, <3>1 DEF GotInv
  <2>4. QED
    BY <2>2, <2>3
<1>8. CASE UNCHANGED <<todo, pc, at, got>>
  BY <1>8 DEF GotInv
<1>9. QED
  BY <1>1, <1>2, <1>20, <1>3, <1>4, <1>5, <1>6, <1>7, <1>8, AloneCases
     DEF ReloadStep, Publish, Toggle, vars, taskVars

\* A step of the reload that gathers nothing and settles nothing keeps the
\* versions in order.
LEMMA SerialKept ==
    ASSUME FreshInv, VersionInv, OnceInv,
           UNCHANGED <<content, lastGood, engine, gathered>>,
           gathered[Main] = {} \/ Pending(Main)' = Pending(Main),
           \A s \in Sources : \/ got'[Main][s] = got[Main][s]
                              \/ got'[Main][s] = None
                              \/ got'[Main][s] = content[s] /\ content[s] <= content[s]
    PROVE  FreshInv' /\ VersionInv' /\ OnceInv'
<1>1. FreshInv'
  BY DEF FreshInv
<1>2. VersionInv'
  BY DEF VersionInv
<1>3. OnceInv'
  BY DEF OnceInv
<1>4. QED
  BY <1>1, <1>2, <1>3

\* Every step of an unaccompanied main task keeps the versions in order.
LEMMA SerialStep ==
    ASSUME ~periodic, TypeOK, FallbackExists, SerialInv, [Next]_vars
    PROVE  SerialInv'
<1>0. /\ Rest /\ AloneInv /\ GotInv /\ FreshInv /\ VersionInv /\ OnceInv
      /\ Rest' /\ AloneInv' /\ GotInv'
      /\ at[Main] \in Lists /\ 0 \in Lists /\ Main \in Reloaders
  BY RestStep, AloneStep, GotStep DEF SerialInv, TypeOK, Lists
<1> SUFFICES FreshInv' /\ VersionInv' /\ OnceInv'
  BY <1>0 DEF SerialInv
<1>v. \A s \in Sources : content[s] <= content[s]
  BY DEF TypeOK, Versions
<1>1. CASE StartReload(Main)
  <2>1. gathered[Main] = {} /\ UNCHANGED <<content, lastGood, engine, gathered, got>>
    BY <1>0, <1>1 DEF StartReload, AloneInv
  <2>2. QED
    BY <1>0, <2>1, SerialKept
<1>2. ASSUME NEW s \in Sources, ReadLocal(Main, s)
      PROVE  FreshInv' /\ VersionInv' /\ OnceInv'
  <2>1. Pending(Main)' = Pending(Main)
    BY <1>2 DEF ReadLocal, Pending
  <2>2. UNCHANGED <<content, lastGood, engine, gathered>>
    BY <1>2 DEF ReadLocal
  <2>3. \A t \in Sources : \/ got'[Main][t] = got[Main][t] \/ got'[Main][t] = None
                           \/ got'[Main][t] = content[t]
    BY <1>2 DEF ReadLocal, TypeOK
  <2>4. QED
    BY <1>0, <1>v, <2>1, <2>2, <2>3, SerialKept
<1>20. ASSUME NEW s \in Sources, KeepLocal(Main, s)
      PROVE  FreshInv' /\ VersionInv' /\ OnceInv'
  <2> DEFINE v == got[Main][s]
  <2>1. /\ v \in Versions \cup {None}
        /\ v # None => v <= content[s] /\ (lastGood[s] # None => lastGood[s] <= v)
    BY <1>0 DEF TypeOK, FreshInv
  <2>2. Contribute(Main, s, v) /\ UNCHANGED <<engine, content, pc, at>>
    BY <1>20 DEF KeepLocal
  <2> HIDE DEF v
  <2>3. /\ pc[Main] = "read" /\ s \in todo[Main] /\ todo'[Main] = todo[Main] \ {s}
        /\ s \in LocalFiles[at[Main]] /\ s \notin RemoteUrls[at[Main]]
    BY <1>0, <1>20 DEF KeepLocal, TypeOK, GotInv
  <2>4. s \in Pending(Main) /\ Pending(Main)' \subseteq Pending(Main) \ {s}
    BY <2>2, <2>3 DEF Pending
  <2>5. got'[Main][s] = None /\ \A t \in Sources \ {s} : got'[Main][t] = got[Main][t]
    BY <1>20 DEF KeepLocal, TypeOK
  <2>6. QED
    BY <1>0, <2>1, <2>2, <2>4, <2>5, SerialContribute
<1>3. CASE StartFetches(Main)
  <2>1. Pending(Main)' = Pending(Main)
    BY <1>3 DEF StartFetches, Pending, TypeOK
  <2>2. UNCHANGED <<content, lastGood, engine, gathered, got>>
    BY <1>3 DEF StartFetches
  <2>3. QED
    BY <1>0, <2>1, <2>2, SerialKept
<1>4. ASSUME NEW s \in Sources, FetchEnds(Main, s)
      PROVE  FreshInv' /\ VersionInv' /\ OnceInv'
  <2>1. Pending(Main)' = Pending(Main)
    BY <1>4 DEF FetchEnds, Pending, TypeOK
  <2>2. UNCHANGED <<content, lastGood, engine, gathered>>
    BY <1>4 DEF FetchEnds
  <2>3. \A t \in Sources : \/ got'[Main][t] = got[Main][t] \/ got'[Main][t] = None
                           \/ got'[Main][t] = content[t]
    BY <1>4 DEF FetchEnds, TypeOK
  <2>4. QED
    BY <1>0, <1>v, <2>1, <2>2, <2>3, SerialKept
<1>5. CASE AllFetched(Main)
  <2>1. Pending(Main)' = Pending(Main)
    BY <1>5 DEF AllFetched, Pending, TypeOK
  <2>2. UNCHANGED <<content, lastGood, engine, gathered, got>>
    BY <1>5 DEF AllFetched
  <2>3. QED
    BY <1>0, <2>1, <2>2, SerialKept
<1>6. ASSUME NEW s \in Sources, SettleFetch(Main, s)
      PROVE  FreshInv' /\ VersionInv' /\ OnceInv'
  <2> DEFINE v == got[Main][s]
  <2>1. /\ v \in Versions \cup {None}
        /\ v # None => v <= content[s] /\ (lastGood[s] # None => lastGood[s] <= v)
    BY <1>0 DEF TypeOK, FreshInv
  <2>2. Contribute(Main, s, v) /\ UNCHANGED <<engine, content, pc, at>>
    BY <1>6 DEF SettleFetch
  <2> HIDE DEF v
  <2>3. pc[Main] = "settle" /\ s \in todo[Main] /\ todo'[Main] = todo[Main] \ {s}
    BY <1>6 DEF SettleFetch, TypeOK
  <2>4. s \in Pending(Main) /\ Pending(Main)' \subseteq Pending(Main) \ {s}
    BY <2>2, <2>3 DEF Pending
  <2>5. got'[Main][s] = None /\ \A t \in Sources \ {s} : got'[Main][t] = got[Main][t]
    BY <1>6 DEF SettleFetch, TypeOK
  <2>6. QED
    BY <1>0, <2>1, <2>2, <2>4, <2>5, SerialContribute
<1>7. CASE SwapState(Main)
  <2>1. gathered'[Main] = {} /\ UNCHANGED <<content, lastGood, got>>
    BY <1>7 DEF SwapState, TypeOK
  <2>2. ASSUME NEW l \in Lists
        PROVE  engine'[l].loads = engine[l].loads \/ engine'[l].loads = gathered[Main]
    BY <1>7 DEF SwapState, TypeOK, BuildState
  <2>3. FreshInv'
    BY <1>0, <2>1 DEF FreshInv
  <2>4. VersionInv'
    BY <1>0, <2>1, <2>2 DEF VersionInv
  <2>5. OnceInv'
    BY <1>0, <2>1, <2>2 DEF OnceInv
  <2>6. QED
    BY <2>3, <2>4, <2>5
<1>8. ASSUME NEW s \in Sources, Publish(s)
      PROVE  FreshInv' /\ VersionInv' /\ OnceInv'
  <2>1. UNCHANGED <<lastGood, engine, gathered, got, pc, at, todo>>
    BY <1>8 DEF Publish, taskVars
  <2>2. ASSUME NEW t \in Sources, NEW n \in Nat, n <= content[t] PROVE n <= content'[t]
    <3>1. content[t] \in Nat /\ content'[t] \in {content[t], content[t] + 1}
      BY <1>8 DEF Publish, TypeOK, Versions
    <3>2. QED
      BY <2>2, <3>1
  <2>3. FreshInv'
    <3>1. \A t \in Sources : /\ lastGood[t] # None => lastGood[t] \in Nat
                             /\ got[Main][t] # None => got[Main][t] \in Nat
      BY <1>0 DEF TypeOK, Versions
    <3>2. QED
      BY <1>0, <2>1, <2>2, <3>1 DEF FreshInv
  <2>4. VersionInv'
    BY <1>0, <2>1 DEF VersionInv
  <2>5. OnceInv'
    BY <1>0, <2>1 DEF OnceInv, Pending
  <2>6. QED
    BY <2>3, <2>4, <2>5
<1>9. CASE UNCHANGED <<content, lastGood, engine, gathered, got, pc, at, todo>>
  <2>1. Pending(Main)' = Pending(Main)
    BY <1>9 DEF Pending
  <2>2. QED
    BY <1>0, <1>9, <2>1, SerialKept
<1>10. QED
  BY <1>0, <1>1, <1>2, <1>20, <1>3, <1>4, <1>5, <1>6, <1>7, <1>8, <1>9, AloneCases
     DEF ReloadStep, Toggle, vars, taskVars

\* A step of an unaccompanied main task takes nothing away from a list and gives
\* it nothing older.
LEMMA SerialKeepsList ==
    ASSUME ~periodic, TypeOK, SerialInv, [Next]_vars, NEW l \in Lists
    PROVE  NeverBack(l)
<1>0. Rest /\ AloneInv /\ VersionInv /\ OnceInv
  BY DEF SerialInv
<1>1. CASE engine'[l] = engine[l]
  <2>1. \A x \in engine[l].loads : x[2] <= x[2]
    BY DEF TypeOK, Loads, Versions
  <2>2. QED
    BY <1>0, <1>1, <2>1 DEF NeverBack, OnceInv
<1>2. CASE SwapState(Main) /\ l = at[Main]
           /\ engine'[l] = BuildState(l, gathered[Main])
  <2>1. Pending(Main) = {} /\ pc[Main] # "idle"
    BY <1>2 DEF SwapState, Pending
  <2>2. \A s \in From(engine[l]) : \E x \in gathered[Main] : x[1] = s
    BY <1>0, <1>2, <2>1 DEF AloneInv
  <2>3. engine'[l].loads = gathered[Main]
    BY <1>2 DEF BuildState
  <2>4. From(engine'[l]) = {x[1] : x \in gathered[Main]}
    BY <2>3 DEF From
  <2>5. From(engine[l]) \subseteq From(engine'[l])
    BY <2>2, <2>4
  <2>6. \A x \in engine[l].loads, y \in engine'[l].loads : x[1] = y[1] => x[2] <= y[2]
    BY <1>0, <2>3 DEF VersionInv
  <2>7. QED
    BY <2>5, <2>6 DEF NeverBack
<1>3. SwapState(Main) \/ engine' = engine
  BY <1>0, AloneCases
     DEF ReloadStep, Publish, Toggle, StartReload, ReadLocal, KeepLocal, StartFetches, FetchEnds,
         AllFetched, SettleFetch, vars
<1>4. SwapState(Main) =>
        engine' = engine \/ engine' =
          [engine EXCEPT ![at[Main]] = BuildState(at[Main], gathered[Main])]
  BY DEF SwapState
<1>5. engine \in [Lists -> [loads : Loads, base : SUBSET Names]]
  BY DEF TypeOK
<1>6. QED
  BY <1>1, <1>2, <1>3, <1>4, <1>5

\* When only startup and SIGHUPs reload (reload_interval_secs = 0), whatever
\* fails, no reload drops a source that an active list was built from or gives
\* the list an older version of it: BlocklistLoader::reload over gather and
\* last_good.
THEOREM SerialAlways == Spec => SerialNeverGoesBack
<1> DEFINE Serial == ~periodic => SerialInv
<1>1. Init => Serial
  BY SerialInit
<1>2. TypeOK /\ FallbackExists /\ Serial /\ [Next]_vars => Serial'
  <2>1. [Next]_vars => periodic' = periodic
    BY DEF Next, ReloadStep, Publish, Toggle, StartReload, ReadLocal, KeepLocal,
           StartFetches, FetchEnds, AllFetched, SettleFetch, SwapState, vars
  <2>2. QED
    BY <2>1, SerialStep
<1>3. TypeOK /\ Serial /\ [Next]_vars
      => [~periodic => \A l \in Lists : NeverBack(l)]_vars
  BY SerialKeepsList
<1>4. QED
  BY <1>1, <1>2, <1>3, TypeCorrect, FallbackAlways, PTL DEF Spec, SerialNeverGoesBack
=============================================================================
