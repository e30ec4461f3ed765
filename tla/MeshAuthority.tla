---------------------------- MODULE MeshAuthority ----------------------------
(***************************************************************************)
(* The mesh-zone half of the authority (crates/rustydns-authority): the    *)
(* signed bundle that rustynetd leaves on disk, the two tasks that re-read *)
(* it (the poll loop and the SIGHUP handler), the anti-rollback watermark  *)
(* with its lock, the snapshot lookups are answered from, and the gauge    *)
(* that is set after the lock is gone.                                     *)
(*                                                                         *)
(* The module models an authority with both bundle paths configured;       *)
(* without them reload_mesh returns Ok(None) and touches nothing.          *)
(***************************************************************************)
EXTENDS Naturals

CONSTANTS
    Reloaders,      \* the tasks that call reload_mesh
    Poller,         \* the one that runs on a timer
    Bundles,        \* the signed bundles rustynetd ever publishes
    NoBundle,       \* no bundle applied (static-only mode)
    Unloadable,     \* a missing, oversized, malformed or mis-signed file
    Free,           \* nobody holds the watermark lock
    MaxAge,         \* mesh_zone_max_age_secs, 0 = no age limit
    TrustFloor,     \* MIN_TRUSTED_UNIX_SECS
    MaxClock,       \* bound: last second of the wall clock
    MaxBoots        \* bound: number of restarts

ASSUME MeshAssumption ==
    /\ Poller \in Reloaders
    /\ Free \notin Reloaders
    /\ Bundles \subseteq [gen : Nat, nonce : Nat, expires : Nat, count : Nat]
    /\ NoBundle \notin Bundles
    /\ NoBundle \notin {[gen |-> b.gen, nonce |-> b.nonce] : b \in Bundles}
    /\ Unloadable \notin Bundles
    /\ MaxAge \in Nat
    /\ TrustFloor \in Nat
    /\ MaxClock \in Nat
    /\ MaxBoots \in Nat

VARIABLES
    file,           \* what lies at mesh_zone_bundle_path
    clock,          \* the wall clock, in seconds
    snapshot,       \* the bundle merged into the live Snapshot
    watermark,      \* mesh_watermark: (gen, nonce) of the last applied bundle
    lock,           \* holder of mesh_watermark's Mutex
    pc,             \* where each reloader is in reload_mesh
    loaded,         \* each reloader's local `loaded'
    outcome,        \* each reloader's result, before the metrics see it
    gauge,          \* rustydns_mesh_records
    boots           \* restarts so far

taskVars == <<pc, loaded, outcome>>
vars == <<file, clock, snapshot, watermark, lock, gauge, boots, taskVars>>

-----------------------------------------------------------------------------
\* Mutant: generation and nonce are compared one by one.
Older_either(a, b) == a.gen < b.gen \/ a.nonce < b.nonce

\* candidate < (cur_gen, cur_nonce): the derived order on the tuple.
Older(a, b) ==
    \/ a.gen < b.gen
    \/ a.gen = b.gen /\ a.nonce < b.nonce

\* The tuple the watermark keeps of a bundle; None before the first one.
Version(b) == IF b = NoBundle THEN NoBundle ELSE [gen |-> b.gen, nonce |-> b.nonce]

\* build_loaded_bundle refuses a bundle whose lifetime is empty.
HasLifetime(b) == b.gen < b.expires

\* Read, signature-checked and parsed; every failure on the way is Unloadable.
Loadable(f) == f # Unloadable /\ HasLifetime(f)

\* enforce_freshness_at: trusted clock, not expired, not too old.
Fresh(b, now) ==
    /\ now >= TrustFloor
    /\ now < b.expires
    /\ MaxAge > 0 => now <= b.gen + MaxAge

\* load_mesh_bundle in one go, as Authority::new runs it before any task exists.
LoadAtBoot(f, now) ==
    IF Loadable(f) /\ Fresh(f, now) THEN f ELSE NoBundle

\* mesh_record_count: only records of the bundle carry a mesh_node_id.
RecordCount(b) == IF b = NoBundle THEN 0 ELSE b.count

\* Authority::new, then the gauge is seeded when there is anything to count.
Boot(f, now) ==
    LET b == LoadAtBoot(f, now) IN
    /\ snapshot' = b
    /\ watermark' = Version(b)
    /\ gauge' = RecordCount(b)
    /\ lock' = Free
    /\ pc' = [r \in Reloaders |-> "idle"]
    /\ loaded' = [r \in Reloaders |-> NoBundle]
    /\ outcome' = [r \in Reloaders |-> NoBundle]

Init ==
    /\ file \in Bundles \cup {Unloadable}
    /\ clock \in 0..MaxClock
    /\ snapshot = LoadAtBoot(file, clock)
    /\ watermark = Version(LoadAtBoot(file, clock))
    /\ gauge = RecordCount(LoadAtBoot(file, clock))
    /\ lock = Free
    /\ pc = [r \in Reloaders |-> "idle"]
    /\ loaded = [r \in Reloaders |-> NoBundle]
    /\ outcome = [r \in Reloaders |-> NoBundle]
    /\ boots = 0

-----------------------------------------------------------------------------
(* The environment. *)

\* rustynetd replaces the file: any signed bundle, an old one included, or
\* something that cannot be loaded (a half-written or tampered file).
Publish(f) ==
    /\ f # file
    /\ file' = f
    /\ UNCHANGED <<clock, snapshot, watermark, lock, gauge, boots, taskVars>>

\* The wall clock advances, or is stepped back.
ClockMoves(t) ==
    /\ t < clock \/ t = clock + 1
    /\ clock' = t
    /\ UNCHANGED <<file, snapshot, watermark, lock, gauge, boots, taskVars>>

\* The process dies at any point and is started again.
Restart ==
    /\ boots < MaxBoots
    /\ boots' = boots + 1
    /\ Boot(file, clock)
    /\ UNCHANGED <<file, clock>>

-----------------------------------------------------------------------------
(* reload_mesh, by the poll loop or by a SIGHUP. *)

\* Key and bundle are read and the signature verified, outside the lock.
ReadBundle(r) ==
    /\ pc[r] = "idle"
    /\ \/ /\ Loadable(file)
          /\ loaded' = [loaded EXCEPT ![r] = file]
          /\ pc' = [pc EXCEPT ![r] = "freshness"]
          /\ UNCHANGED outcome
       \/ /\ ~Loadable(file)
          /\ outcome' = [outcome EXCEPT ![r] = NoBundle]
          /\ pc' = [pc EXCEPT ![r] = "mark"]
          /\ UNCHANGED loaded
    /\ UNCHANGED <<file, clock, snapshot, watermark, lock, gauge, boots>>

\* The clock is read after the file; the bundle may be stale by now.
CheckFreshness(r) ==
    /\ pc[r] = "freshness"
    /\ \/ /\ Fresh(loaded[r], clock)
          /\ pc' = [pc EXCEPT ![r] = "lock"]
          /\ UNCHANGED outcome
       \/ /\ ~Fresh(loaded[r], clock)
          /\ outcome' = [outcome EXCEPT ![r] = NoBundle]
          /\ pc' = [pc EXCEPT ![r] = "mark"]
    /\ UNCHANGED <<file, clock, snapshot, watermark, lock, gauge,
                   boots, loaded>>

\* Mutant: the comparison is made without taking the lock.
CompareWatermark_unlocked(r) ==
    /\ pc[r] = "lock"
    /\ watermark # NoBundle => ~Older(loaded[r], watermark)
    /\ lock' = r
    /\ pc' = [pc EXCEPT ![r] = "store"]
    /\ UNCHANGED <<file, clock, snapshot, watermark, gauge, boots,
                   loaded, outcome>>

\* The lock is taken and the candidate compared; a rollback is an Err.
CompareWatermark(r) ==
    /\ pc[r] = "lock"
    /\ lock = Free
    /\ \/ /\ watermark # NoBundle
          /\ Older(loaded[r], watermark)
          /\ outcome' = [outcome EXCEPT ![r] = NoBundle]
          /\ pc' = [pc EXCEPT ![r] = "mark"]
          /\ UNCHANGED lock
       \/ /\ watermark # NoBundle => ~Older(loaded[r], watermark)
          /\ lock' = r
          /\ pc' = [pc EXCEPT ![r] = "store"]
          /\ UNCHANGED outcome
    /\ UNCHANGED <<file, clock, snapshot, watermark, gauge, boots,
                   loaded>>

\* self.snapshot.store(..): from here on lookups see the new bundle.
StoreSnapshot(r) ==
    /\ pc[r] = "store"
    /\ snapshot' = loaded[r]
    /\ pc' = [pc EXCEPT ![r] = "advance"]
    /\ UNCHANGED <<file, clock, watermark, lock, gauge, boots, loaded, outcome>>

\* Mutant: only the first applied bundle sets the watermark.
AdvanceWatermark_firstOnly(r) ==
    /\ pc[r] = "advance"
    /\ watermark' = IF watermark = NoBundle THEN Version(loaded[r]) ELSE watermark
    /\ lock' = Free
    /\ outcome' = [outcome EXCEPT ![r] = loaded[r]]
    /\ pc' = [pc EXCEPT ![r] = "mark"]
    /\ UNCHANGED <<file, clock, snapshot, gauge, boots, loaded>>

\* *watermark = Some(candidate); drop(watermark).
AdvanceWatermark(r) ==
    /\ pc[r] = "advance"
    /\ watermark' = Version(loaded[r])
    /\ lock' = Free
    /\ outcome' = [outcome EXCEPT ![r] = loaded[r]]
    /\ pc' = [pc EXCEPT ![r] = "mark"]
    /\ UNCHANGED <<file, clock, snapshot, gauge, boots, loaded>>

\* The caller marks the metrics; a failure leaves the gauge as it was.
MarkMetrics(r) ==
    /\ pc[r] = "mark"
    /\ gauge' = IF outcome[r] = NoBundle THEN gauge ELSE outcome[r].count
    /\ loaded' = [loaded EXCEPT ![r] = NoBundle]
    /\ outcome' = [outcome EXCEPT ![r] = NoBundle]
    /\ pc' = [pc EXCEPT ![r] = "idle"]
    /\ UNCHANGED <<file, clock, snapshot, watermark, lock, boots>>

ReloadStep(r) ==
    \/ ReadBundle(r)
    \/ CheckFreshness(r)
    \/ CompareWatermark(r)
    \/ StoreSnapshot(r)
    \/ AdvanceWatermark(r)
    \/ MarkMetrics(r)

Next ==
    \/ \E f \in Bundles \cup {Unloadable} : Publish(f)
    \/ \E t \in 0..MaxClock : ClockMoves(t)
    \/ Restart
    \/ \E r \in Reloaders : ReloadStep(r)

Spec == Init /\ [][Next]_vars

\* A started reload runs to its end (there is no await inside it and the lock
\* is only ever held for two stores); the poll loop starts one again and again.
\* Nobody promises another SIGHUP, another bundle or a moving clock.
Fairness ==
    /\ WF_vars(ReadBundle(Poller))
    /\ \A r \in Reloaders :
          /\ WF_vars(CheckFreshness(r))
          /\ SF_vars(CompareWatermark(r))
          /\ WF_vars(StoreSnapshot(r))
          /\ WF_vars(AdvanceWatermark(r))
          /\ WF_vars(MarkMetrics(r))

FairSpec == Spec /\ Fairness

-----------------------------------------------------------------------------
(* Properties. *)

\* The abstract register, with the live snapshot as its value.
Zone == INSTANCE MonotoneZone WITH zone <- snapshot

Versions == {Version(b) : b \in Bundles}

\* Type invariant of the authority's state and of the two tasks' locals; the
\* gauge only ever holds the record count of some bundle.
TypeOK ==
    /\ file \in Bundles \cup {Unloadable}
    /\ clock \in 0..MaxClock
    /\ snapshot \in Bundles \cup {NoBundle}
    /\ watermark \in Versions \cup {NoBundle}
    /\ lock \in Reloaders \cup {Free}
    /\ pc \in [Reloaders -> {"idle", "freshness", "lock", "store", "advance",
                             "mark"}]
    /\ loaded \in [Reloaders -> Bundles \cup {NoBundle}]
    /\ outcome \in [Reloaders -> Bundles \cup {NoBundle}]
    /\ gauge \in {RecordCount(b) : b \in Bundles \cup {NoBundle}}
    /\ boots \in 0..MaxBoots

\* The snapshot and the watermark move together: whenever the lock is free the
\* watermark is the version of the bundle that lookups are answered from, and
\* while a reload is between its two stores the snapshot is not behind it
\* (the comment on Authority::mesh_watermark).
WatermarkTracksSnapshot ==
    /\ lock = Free => watermark = Version(snapshot)
    /\ watermark # NoBundle => snapshot # NoBundle /\ ~Zone!Older(snapshot, watermark)

\* The live snapshot implements a register that is only ever replaced by a
\* bundle that is not older, until the process restarts: no interleaving of
\* the poll loop with a SIGHUP rolls a name back (reload_mesh, l.204-220).
ImplementsMonotoneZone == Zone!ZoneSpec

\* A bundle that stays on disk, stays fresh and is not older than what was
\* applied ends up being served, and stays served: no reload of a bundle read
\* earlier can take its place for good (the poll loop, spawn_mesh_reload_loop).
\* Nor does the gauge, which is set after the lock is released and so may be set
\* in the wrong order, tell another bundle's size for good
\* (mark_mesh_zone_reload_success).
Acceptable(b) ==
    /\ file = b
    /\ HasLifetime(b)
    /\ Fresh(b, clock)
    /\ watermark # NoBundle => ~Zone!Older(b, watermark)
FreshBundleIsServed ==
    \A b \in Bundles : <>[]Acceptable(b) => <>[](snapshot = b /\ gauge = b.count)
=============================================================================
