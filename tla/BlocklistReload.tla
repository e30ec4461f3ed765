--------------------------- MODULE BlocklistReload ---------------------------
(***************************************************************************)
(* Blocklist reloads: BlocklistLoader::reload (rustydnsd) gathering every  *)
(* source of the default list and of each client group, falling back to    *)
(* the last good content of a source that fails, and swapping one state    *)
(* per list into BlocklistEngine (rustydns-blocklist).  The main task runs *)
(* the startup load and every SIGHUP reload; the periodic loop, when its   *)
(* interval is not 0, runs its own reloads beside it: nothing serialises   *)
(* the two.                                                                *)
(*                                                                         *)
(* A source's content is a version number; Body says what a version of it  *)
(* blocks and allows.  List 0 is the default list, 1..NumGroups are the    *)
(* groups in the order of the configuration.                               *)
(***************************************************************************)
EXTENDS Naturals

CONSTANTS
    Reloaders,      \* the tasks that call reload
    Main,           \* the main task: startup load, then SIGHUPs
    Sources,        \* every configured path and URL
    NumGroups,      \* number of [[blocklist.groups]]
    LocalFiles,     \* local_files of each list
    RemoteUrls,     \* sources of each list
    TrustedRpz,     \* trusted_rpz_sources of each list
    Names,          \* the domain names that matter
    AllowEntries,   \* the configured allowlist of each list
    RegexNames,     \* names that a regex rule matches
    Body,           \* Body[s][v]: what version v of source s contains
    MaxVersion,     \* bound: versions a source ever has
    None            \* a source with no content

Lists == 0..NumGroups
Versions == 0..MaxVersion
Loads == SUBSET (Sources \X Versions)

ASSUME BlocklistAssumption ==
    /\ Main \in Reloaders
    /\ NumGroups \in Nat
    /\ MaxVersion \in Nat
    /\ LocalFiles \in [Lists -> SUBSET Sources]
    /\ RemoteUrls \in [Lists -> SUBSET Sources]
    /\ TrustedRpz \in [Lists -> SUBSET Sources]
    /\ \A l \in Lists : LocalFiles[l] \cap RemoteUrls[l] = {}
    /\ AllowEntries \in [Lists -> SUBSET Names]
    /\ RegexNames \subseteq Names
    /\ Body \in [Sources -> [Versions -> [block : SUBSET Names,
                                          allow : SUBSET Names]]]
    /\ None \notin Versions

VARIABLES
    periodic,       \* reload_interval_secs is not 0: the periodic loop is spawned
    content,        \* the version of each source its publisher serves now
    up,             \* the sources that can be read or fetched now
    lastGood,       \* BlocklistLoader::last_good
    engine,         \* per list: what the active BlocklistState was built from
    pc,             \* where each task is in reload
    at,             \* the list each task is gathering
    todo,           \* sources of that list still to be read, fetched or settled
    reading,        \* the local file each task has read and not yet remembered, in a set
    got,            \* what was read or fetched and not settled yet
    gathered,       \* `sources' of gather: <<source, version>>
    booted          \* the startup load is over

taskVars == <<pc, at, todo, reading, got, gathered>>
vars == <<periodic, content, up, lastGood, engine, booted, taskVars>>

-----------------------------------------------------------------------------
\* Mutant: every source may allow.
Trusted_all(l, s) == s \in LocalFiles[l] \cup RemoteUrls[l]

\* The trust a source has in a list: local files and listed RPZ URLs.
Trusted(l, s) == s \in LocalFiles[l] \cup TrustedRpz[l]

\* The states BlocklistEngine::new starts with: a group has its own allowlist
\* only.
EmptyState(l) == [loads |-> {}, base |-> AllowEntries[l]]

\* build_state with the allowlist that reload passes: the global one is merged
\* into every group's.
BuildState(l, loads) ==
    [loads |-> loads, base |-> AllowEntries[0] \cup AllowEntries[l]]

\* The allowlist of a state: configured entries and those of trusted sources.
AllowedBy(l, st) ==
    st.base \cup
        UNION {Body[x[1]][x[2]].allow : x \in {y \in st.loads : Trusted(l, y[1])}}

\* BlocklistState::is_blocked: allowlist first, then entries, then regexes.
IsBlocked(l, st, n) ==
    /\ n \notin AllowedBy(l, st)
    /\ \/ \E x \in st.loads : n \in Body[x[1]][x[2]].block
       \/ n \in RegexNames

\* The sources whose entries are part of a state.
From(st) == {x[1] : x \in st.loads}

-----------------------------------------------------------------------------
Init ==
    /\ periodic \in BOOLEAN
    /\ content = [s \in Sources |-> 0]
    /\ up \in SUBSET Sources
    /\ lastGood = [s \in Sources |-> None]
    /\ engine = [l \in Lists |-> EmptyState(l)]
    /\ pc = [r \in Reloaders |-> "idle"]
    /\ at = [r \in Reloaders |-> 0]
    /\ todo = [r \in Reloaders |-> {}]
    /\ reading = [r \in Reloaders |-> {}]
    /\ got = [r \in Reloaders |-> [s \in Sources |-> None]]
    /\ gathered = [r \in Reloaders |-> {}]
    /\ booted = FALSE

(* The publishers and the network. *)

\* A source gets new content.
Publish(s) ==
    /\ content[s] < MaxVersion
    /\ content' = [content EXCEPT ![s] = @ + 1]
    /\ UNCHANGED <<periodic, up, lastGood, engine, booted, taskVars>>

\* A source becomes unreadable (missing file, timeout, HTTP error, over the
\* size cap) or readable again.
Toggle(s) ==
    /\ up' = IF s \in up THEN up \ {s} ELSE up \cup {s}
    /\ UNCHANGED <<periodic, content, lastGood, engine, booted, taskVars>>

-----------------------------------------------------------------------------
(* One reload by task r: for each list, gather and swap. *)

\* The main task loads at startup, before the periodic loop is spawned, if it is.
StartReload(r) ==
    /\ pc[r] = "idle"
    /\ r = Main \/ (booted /\ periodic)
    /\ pc' = [pc EXCEPT ![r] = "read"]
    /\ at' = [at EXCEPT ![r] = 0]
    /\ todo' = [todo EXCEPT ![r] = LocalFiles[0]]
    /\ UNCHANGED <<periodic, content, up, lastGood, engine, booted, reading, got, gathered>>

\* Mutant: a fallback consumes the remembered content.
Contribute_consumes(r, s, v) ==
    LET good == IF v # None THEN v ELSE lastGood[s] IN
    /\ lastGood' = [lastGood EXCEPT ![s] = v]
    /\ gathered' = [gathered EXCEPT ![r] =
                        IF good = None THEN @ ELSE @ \cup {<<s, good>>}]

\* Mutant: a failed source contributes nothing.
Contribute_noFallback(r, s, v) ==
    /\ lastGood' = [lastGood EXCEPT ![s] = IF v = None THEN @ ELSE v]
    /\ gathered' = [gathered EXCEPT ![r] =
                        IF v = None THEN @ ELSE @ \cup {<<s, v>>}]

\* Mutant: remembered content is preferred to what was just read.
Contribute_cached(r, s, v) ==
    LET good == IF lastGood[s] # None THEN lastGood[s] ELSE v IN
    /\ lastGood' = [lastGood EXCEPT ![s] = good]
    /\ gathered' = [gathered EXCEPT ![r] =
                        IF good = None THEN @ ELSE @ \cup {<<s, good>>}]

\* What one source contributes: its new content, remembered, or else the
\* last good one, or else nothing.
Contribute(r, s, v) ==
    LET good == IF v # None THEN v ELSE lastGood[s] IN
    /\ lastGood' = [lastGood EXCEPT ![s] = good]
    /\ gathered' = [gathered EXCEPT ![r] =
                        IF good = None THEN @ ELSE @ \cup {<<s, good>>}]

\* Local files are read one after the other, each on a blocking thread ...
ReadLocal(r, s) ==
    /\ pc[r] = "read"
    /\ reading[r] = {}
    /\ s \in todo[r]
    /\ got' = [got EXCEPT ![r][s] = IF s \in up THEN content[s] ELSE None]
    /\ reading' = [reading EXCEPT ![r] = {s}]
    /\ UNCHANGED <<periodic, content, up, lastGood, engine, booted, pc, at, todo, gathered>>

\* ... and what was read, or the fallback, is taken when the task goes on.
KeepLocal(r, s) ==
    /\ pc[r] = "read"
    /\ s \in todo[r] \cap reading[r]
    /\ Contribute(r, s, got[r][s])
    /\ got' = [got EXCEPT ![r][s] = None]
    /\ reading' = [reading EXCEPT ![r] = {}]
    /\ todo' = [todo EXCEPT ![r] = @ \ {s}]
    /\ UNCHANGED <<periodic, content, up, engine, booted, pc, at>>

StartFetches(r) ==
    /\ pc[r] = "read"
    /\ todo[r] = {}
    /\ pc' = [pc EXCEPT ![r] = "fetch"]
    /\ todo' = [todo EXCEPT ![r] = RemoteUrls[at[r]]]
    /\ UNCHANGED <<periodic, content, up, lastGood, engine, booted, at, reading, got, gathered>>

\* Fetches run concurrently and end in any order; results are only kept.
FetchEnds(r, s) ==
    /\ pc[r] = "fetch"
    /\ s \in todo[r]
    /\ got' = [got EXCEPT ![r][s] = IF s \in up THEN content[s] ELSE None]
    /\ todo' = [todo EXCEPT ![r] = @ \ {s}]
    /\ UNCHANGED <<periodic, content, up, lastGood, engine, booted, pc, at, reading, gathered>>

AllFetched(r) ==
    /\ pc[r] = "fetch"
    /\ todo[r] = {}
    /\ pc' = [pc EXCEPT ![r] = "settle"]
    /\ todo' = [todo EXCEPT ![r] = RemoteUrls[at[r]]]
    /\ UNCHANGED <<periodic, content, up, lastGood, engine, booted, at, reading, got, gathered>>

\* After the last fetch the results are settled one by one.
SettleFetch(r, s) ==
    /\ pc[r] = "settle"
    /\ s \in todo[r]
    /\ Contribute(r, s, got[r][s])
    /\ got' = [got EXCEPT ![r][s] = None]
    /\ todo' = [todo EXCEPT ![r] = @ \ {s}]
    /\ UNCHANGED <<periodic, content, up, engine, booted, pc, at, reading>>

\* The end of a list: swap the state unless nothing was gathered, then go to
\* the next list or end the reload.
SwapState(r) ==
    /\ pc[r] = "settle"
    /\ todo[r] = {}
    /\ engine' = IF gathered[r] = {} THEN engine
                 ELSE [engine EXCEPT ![at[r]] = BuildState(at[r], gathered[r])]
    /\ gathered' = [gathered EXCEPT ![r] = {}]
    /\ IF at[r] < NumGroups
         THEN /\ at' = [at EXCEPT ![r] = @ + 1]
              /\ todo' = [todo EXCEPT ![r] = LocalFiles[at[r] + 1]]
              /\ pc' = [pc EXCEPT ![r] = "read"]
              /\ UNCHANGED booted
         ELSE /\ at' = [at EXCEPT ![r] = 0]
              /\ pc' = [pc EXCEPT ![r] = "idle"]
              /\ booted' = TRUE
              /\ UNCHANGED todo
    /\ UNCHANGED <<periodic, content, up, lastGood, reading, got>>

ReloadStep(r) ==
    \/ \E s \in Sources : ReadLocal(r, s) \/ KeepLocal(r, s) \/ FetchEnds(r, s) \/ SettleFetch(r, s)
    \/ StartFetches(r)
    \/ AllFetched(r)
    \/ SwapState(r)

Next ==
    \/ \E s \in Sources : Publish(s) \/ Toggle(s)
    \/ \E r \in Reloaders : StartReload(r) \/ ReloadStep(r)

Spec == Init /\ [][Next]_vars

\* Every read and fetch ends (a fetch by its timeout), so a started reload
\* does; the startup load is made, and the periodic loop reloads for ever.
\* Nobody promises a SIGHUP.
Fairness ==
    /\ \A r \in Reloaders : WF_vars(ReloadStep(r))
    /\ \A r \in Reloaders \ {Main} : WF_vars(StartReload(r))
    /\ WF_vars(~booted /\ StartReload(Main))

FairSpec == Spec /\ Fairness

-----------------------------------------------------------------------------
(* Properties. *)

\* Type invariant of the loader, the engine and the tasks' locals: nothing but
\* real content is ever gathered or becomes part of a state.
TypeOK ==
    /\ periodic \in BOOLEAN
    /\ content \in [Sources -> Versions]
    /\ up \in SUBSET Sources
    /\ lastGood \in [Sources -> Versions \cup {None}]
    /\ engine \in [Lists -> [loads : Loads, base : SUBSET Names]]
    /\ pc \in [Reloaders -> {"idle", "read", "fetch", "settle"}]
    /\ at \in [Reloaders -> Lists]
    /\ todo \in [Reloaders -> SUBSET Sources]
    /\ reading \in [Reloaders -> SUBSET Sources]
    /\ got \in [Reloaders -> [Sources -> Versions \cup {None}]]
    /\ gathered \in [Reloaders -> Loads]
    /\ booted \in BOOLEAN

\* Whatever interleaving of reloads led here, every source that is part of an
\* active state, or that a running reload has gathered, has remembered content
\* to fall back to when its next refresh fails (last_good, l.32-36 and 267-272).
FallbackExists ==
    /\ \A l \in Lists : \A s \in From(engine[l]) : lastGood[s] # None
    /\ \A r \in Reloaders : \A x \in gathered[r] : lastGood[x[1]] # None

\* A reload never removes a source's entries from an active list: "a FAILED
\* refresh falls back to it instead of silently dropping that source's entries
\* from the active list" (the comment on BlocklistLoader::last_good).
SourceKept ==
    [][\A l \in Lists : From(engine[l]) \subseteq From(engine'[l])]_vars

\* A list keeps its sources and gets no older version of any.
NeverBack(l) ==
    /\ From(engine[l]) \subseteq From(engine'[l])
    /\ \A x \in engine[l].loads, y \in engine'[l].loads : x[1] = y[1] => x[2] <= y[2]

\* When only startup and SIGHUPs reload, a reload never removes a source's
\* entries from an active list (SourceKept, l.32-36 of blocklist_loader.rs) and
\* never replaces the content of a source by an older version of it, also when a
\* fetch failed and the last good content was used.
SerialNeverGoesBack == [][~periodic => \A l \in Lists : NeverBack(l)]_vars

\* Who may exempt a name from a list (BlocklistEngine::build_state and
\* BlocklistLoader::reload).  An allow entry of a remote source that is not
\* listed in trusted_rpz_sources never unblocks a name: one that some source of a
\* state blocks and that neither the configuration nor a trusted source allows is
\* blocked.  And "merge the GLOBAL allowlist into each group": once a list has
\* been loaded, no name of the global allowlist is blocked in it.
UntrustedNeverUnblocks ==
    \A l \in Lists, n \in Names :
        ( /\ \E x \in engine[l].loads : n \in Body[x[1]][x[2]].block
          /\ n \notin AllowEntries[0] \cup AllowEntries[l]
          /\ \A x \in engine[l].loads :
                n \in Body[x[1]][x[2]].allow =>
                    x[1] \in RemoteUrls[l] \ TrustedRpz[l] )
        => IsBlocked(l, engine[l], n)
GlobalAllowOnceLoaded ==
    \A l \in Lists, n \in AllowEntries[0] :
        engine[l].loads # {} => ~IsBlocked(l, engine[l], n)
AllowsAsConfigured == UntrustedNeverUnblocks /\ GlobalAllowOnceLoaded

\* Once every source stays readable, every list ends up holding the content
\* that its sources serve, whatever stale reload was still running: the
\* periodic loop repairs what a slower reload overwrote.
Current(l) ==
    engine[l].loads = {<<s, content[s]>> : s \in LocalFiles[l] \cup RemoteUrls[l]}
EventuallyCurrent ==
    <>[](up = Sources) => <>[](\A l \in Lists : Current(l))

\* With the periodic loop every list catches up so.
LoopCatchesUp == periodic => EventuallyCurrent
=============================================================================
