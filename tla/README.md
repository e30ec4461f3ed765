# A TLA+ model of rustydns

rustydns is a DNS daemon for a home or mesh network: it answers names of a signed
mesh zone and of static zones itself, applies per-client policies, rewrites and
blocklists, and forwards the rest to encrypted upstreams. This directory models
it in TLA+: its stateful parts as state machines, the parts that only compute as
operators checked against reference definitions. TLC checks both on small
instances, and TLAPS proves every safety and action property for every instance.
`PROJECT.json`
lists the runs, the properties with a mutant each, the source lines behind every
definition, the hazards and the theorems.

To run a check: `tlc -workers 2 -config QueryPipeline.cfg MCQueryPipeline`; to
check a proof: `tlapm QueryPipelineProofs.tla`.

## 1. Inventory

| Component | State | Operations | Interacts with |
|---|---|---|---|
| Query pipeline (`rustydnsd/src/handler.rs`) | per query: policy, resolver handle, records, reply | gates: malformed, rate limit, opcode, response, EDNS, ANY, class, window, zones, authority, rewrite, blocklist; resolve; CNAME and address checks; finish | loads policies, rewrites, resolver, limiter (ArcSwap) and the blocklist engine at different moments; writes the query log |
| Mesh authority (`rustydns-authority`) | snapshot, anti-rollback watermark and its lock | load at boot, `reload_mesh` | poll loop and SIGHUP call it; lookups read the snapshot; the metrics gauge |
| Authority lookup (same crate) | none of its own | zone membership, CNAME chase, NODATA / NXDOMAIN | reads the snapshot |
| Blocklist (`blocklist_loader.rs`, `rustydns-blocklist`) | `last_good` per source, one state per list | startup load, SIGHUP reload, periodic reload, `is_blocked` | publishers on disk and on the web; the pipeline reads |
| Rate limiter (`rate_limiter.rs`) | token buckets, time of the last sweep | `check`, swap on SIGHUP | every worker thread |
| Query log (`query_log.rs`, `query_log_disk.rs`) | ring, channel, buffered file, backups, counters | record, batch write, rotate, drain at shutdown | pipeline writes; file system; main cancels it |
| Daemon (`main.rs`, `listeners.rs`) | listener groups, tasks, cancellation | boot, signal loop, SIGHUP, listener reload and rollback, shutdown | everything |
| Upstream resolver (`rustydns-resolver`) | route table, default arm | build, `resolve`, answer filters | pipeline; hickory |
| ODoH client (`odoh.rs`) | one cached key for each target | fetch key, query, retry once on 400 | resolver |
| DoH listener (`doh.rs`) | in-flight requests, a oneshot channel each | decode, hand to the pipeline, answer | pipeline |
| Metrics (`metrics.rs`) | counters and gauges | increment, render, `/queries` | every stage of the pipeline, the reloads |
| Config, schedules, denylist, rewrite table, parsers, client identity | none while running | validation, parsing, pure lookups | built at boot and on SIGHUP |

What is hard about them: tables that are swapped one after the other under queries
in flight; two tasks that reload the same thing without a common lock; a clock
that is read before a lock; a rotation of several file-system calls with a failure
or a crash between any two of them; values judged when they are loaded and used
much later. `hazards` in `PROJECT.json` lists each of these at its line with the
properties that would catch it.

What makes each component correct:

- *pipeline*: a name leaves only if every gate let it out; nothing blocked, denied
  or private comes back; one log entry per reply; every query ends.
- *mesh authority*: never rolled back while the process lives; a good bundle ends up
  being served.
- *blocklist*: a failing source keeps its last good entries; untrusted sources
  cannot allow names; the lists end up current.
- *rate limiter*: bounded table, nobody is charged for someone else, nobody gets
  more than the burst and what accrued.
- *query log*: bounded files, the latest lines in order, every entry accounted for;
  one entry for each query in each sink, telling what the counters tell.
- *upstream resolver*: a name leaves by the arm of its most specific route or not at
  all, and an oblivious one only through a relay; a rotated key costs a query at most
  a retry; every resolution ends.
- *DoH listener*: the client gets the reply that was logged for its own query.
- *tables*: each lookup gives what its configuration means, wherever it is written
  and in whatever spelling.
- *configuration*: what is accepted starts, but for what validation overlooks, is in
  force as written, and never reaches further than it says; what a reload does not
  follow it warns of, but for a known list of settings.

## 2. Modules

| Module | Models | Main abstractions |
|---|---|---|
| `QueryPipeline` | `handle_request` and everything it calls, and `apply_hot_swaps` | a request is a client, a name, a set of defects and its transport; an answer is a set of records; the sets of names a list or a route matches are given |
| `MeshAuthority` | `Authority::new`, `reload_mesh`, the poll loop, SIGHUP | a bundle is generation, nonce, expiry and record count; every reason not to load a file is one value |
| `MonotoneZone` | what the mesh zone promises: a register that is never replaced by an older bundle, except by a restart | abstract specification |
| `BlocklistReload` | `BlocklistLoader::reload`, `BlocklistEngine` | a source's content is a version number |
| `RateLimiter` | `RateLimiter::check` and its keys | tokens in refill units, so that `elapsed * qps` is exact |
| `QueryLogDisk` | ring, channel, writer task, rotation | an entry is one unit of size |
| `Daemon` | `main`, the signal loop, `handle_sighup`, `ActiveListeners`, shutdown | a listener generation is the record it was built from; addresses are values with a relation of competing ones; the content reloads of a SIGHUP are one step |
| `UpstreamResolver` | `Resolver::new` and `resolve`, the oblivious arm with its key cache | a key is a number that grows with each rotation; hickory and HPKE are external |
| `Frontend` | the DoH exchange, the counters, both sinks of the query log, `/queries`, around the pipeline of several requests | which verdict the pipeline reaches is a free choice among those it has |
| `DnsNames`, `AuthorityLookup` | names, static records, bundle entries, the snapshot, `Authority::lookup` | a name is the sequence of its labels |
| `Schedule` | compilation of block windows and `is_blocked_at` | days of `DayHours * HourMinutes` minutes |
| `AddressRules` | mapped addresses, `IpDenylist`, `ClientId::anonymized` | addresses of `V4Bits` and `V6Bits` bits |
| `AnswerFilters` | `filter_answer_sanity`, `filter_private_rdata` | an answer is a sequence of records |
| `NameRules` | the four line formats of blocklists, `is_blocked`, allowlists, regex rules, rewrites, Safe Search | a line arrives split into format, names and verdict; a regex is the set of names it matches |
| `ConfigRules` | defaults, `validate_config`, what startup and SIGHUP do with a configuration | a value that is parsed is kept with whether it parses |
| `Selection` | `Vec::retain` and `Iterator::filter`, without recursion | indices kept, in their order |
| `Tables` | one question at a time to each of the parts that only compute | a state is a question |
| `MC*` | the constants of the instances | |
| `*Proofs` | the theorems; those about `MeshAuthority` are the last part of `TablesProofs` | |

Variables keep the names of the code's fields where they have one. Variables marked
*history* in the declarations exist only for the properties: what was in force since
a query arrived, what a site was granted, what reached a file, how many flushes
failed. Operators named `X_something` beside an `X` are mutants: forms of
`X` with a plausible bug, used to show that a property can fail.

### QueryPipeline

`Receive` is the part of `handle_request` that needs nothing but the request and the
policy: canonical address, policy, and the gates in the order of the source. Then
each gate that loads a shared table is an action, because a SIGHUP may swap another
table between two of them: `GateAuthority`, `GateRewrite`, `GateBlocklist`,
`Forward` (which loads the resolver and sends), `UpstreamEnds` (the await ends by an
answer, by "no such name" or by an error; the filters of the resolver that was
loaded run), `JudgeCname` (one load of the blocklist for each target),
`JudgeAddresses`, `Finish` (log, then truncate and send). `HangUp` is the future of
a DoH request being dropped. `LoadConfig`, `SwapResolver` (which may keep the old
resolver), `SwapPolicies` and `SwapRewrites` are a SIGHUP in its order; `SwapList` is
a blocklist reload, whose detail is in `BlocklistReload`. The rate limiter's verdict
and whether the clock is in a block window are free choices.

The authority's answer is a constant: its records change with the mesh bundle
(`MeshAuthority`), which no property of this module depends on.

### Daemon

The main task from `main` to its exit. `Boot` and `Start` (once for each group; the
capabilities go after the first) are the startup, `Register`, `ArmCtrlC`, `TakeHup`
and `TakeStop` the turns of the select, `Refresh`, `LoadConfig`, `ApplyHotSwaps` the
first part of `handle_sighup`. A group is then left alone (`Unchanged`, `Refused`,
`RebindFails`), removed (`RemoveDoh`), or bound (`Bind`) and swapped in (`Install`).
Old generations go on in `retired`. `hup` and `term` are signals waiting in streams
that live as long as the loop; `ctrlc` is a future of one turn. A signal that has no
handler yet ends the process. A generation is the record it was built from, so what
serves (`cur`) can be compared with `live` and with a configuration.

### MeshAuthority

A reload is `ReadBundle`, `CheckFreshness`, `CompareWatermark`, `StoreSnapshot`,
`AdvanceWatermark`, `MarkMetrics`: the reading and verifying is done outside the
lock, the next three under it, the gauge is set after it. `Publish` puts any bundle,
older ones included, or an unloadable file on disk; `ClockMoves` advances the wall
clock or steps it back; `Restart` forgets the watermark.

### BlocklistReload

A reload walks the lists; for each it reads the local files one by one (`ReadLocal`
on a blocking thread, then `KeepLocal`, so that another reload may run in between),
fetches the URLs (concurrently, so in any order), settles every source with
`Contribute` (new content, or the last good one, or nothing), and swaps one state. The main task runs
the startup load and the SIGHUPs; the periodic loop runs its own, unless `periodic` is
false, which is `reload_interval_secs = 0`.

### RateLimiter

`check` is two steps, `Arrive` (the limiter is loaded, the clock is read) and
`CheckLocked` (sweep, evict, refill, decide), since a thread may wait for the mutex
in between. `CheckReplaced` is a thread that holds a limiter a SIGHUP has replaced.
`single` is a runtime with one worker thread, where a check that began ends before
the next begins.

### QueryLogDisk

Every file-system call of `rotate` is a step, and each may fail as the constant
`Faults` allows. The directory maps names to contents, and `handle` is the name the
open file has now (renaming an open file renames what the writer goes on writing to).
A failed flush at the end of a batch counts as an I/O error (`misflushed` has how many
of them there were), the one a rotation starts with does not. `skipped` is how many
rotations were given up.

### UpstreamResolver

`SkipUrl`, `LookupFails`, `Bootstrapped`, `FinishArm` and `FinishBuild` build one arm
after the other: a URL that cannot be used is skipped, a name is looked up
`Attempts` times, and an arm without a server refuses the whole resolver, so that no
name of a route can fall through to the default arm. `Resolve` picks the arm. On the
oblivious one a query goes through `LoadConfig`, `FetchConfigs`, `StoreConfig`,
`PostOblivious` and, after a 400, `StaleKey`, which drops the key of the target
whoever stored it and starts over once. `ValidatorAsks` is the DNSSEC validator
sending an exchange of its own. `Rotate` is the target's doing and external.
`spoiled` is history: whether something a resolution cannot help, such as a rotation
while it ran or a key stored by a slower query, may have cost it its retry.

### Frontend

A request passes its counters, its verdict, the disk channel, the ring, the response
counter and the reply one step at a time, since each is a lock or an atomic of its
own and other threads run in between. `Answer` adds the private records that were
dropped, as many as they are, before the answer is served or blocked. A block is
answered with NXDOMAIN, REFUSED or the sinkhole. The log has the low bits of a code
(`Low`), the response its whole. `HangUp` drops the future of a DoH request
wherever it awaits. The ring and the channel are those of `QueryLogDisk`, which
models the writer behind the channel.

### Tables

The parts that only compute have no states of their own. `Tables` asks each of them
every question of a bounded set, and an invariant compares the answer with a
definition written from what the part is for and not from its code: the chain of
aliases as a path, a schedule by the minutes a window names, a denylist entry by the
hosts it names, an answer's records by reachability, a blocklist by the lines that
name a name or something above it, listeners by the addresses a socket receives, a
reload by what a restart would give. The sets of questions are constants, and the shapes
of their elements (`StaticRecord`, `BundleRecord`, `WindowRecord`, `DenylistEntry`,
`AnswerRecord`, `SourceRecord`, `RewriteRecord`, `ConfigRecord`) are those that serde, the
wire format and the parsers give; `MCTables` lists the instances.

## 3. Runs

Passing runs:

| Run | Shows |
|---|---|
| `pipeline` | Clients with a bypass, a quarantine, a window and a group of their own; two configurations that disagree on everything; five upstream answers (plain, cloaking a tracker, with a stray record, private, denied). No leak, no blocked or private answer, one log entry, every query ends. |
| `daemon` | Six configurations (a longer timeout, plain DNS on DoH's old address, DoT and DoQ there, privileged and refused changes, two invalid ones), two edits and two signals at any moment; every bind and build may fail. Never dark, never stale, no SIGHUP or SIGTERM lost, old servers go away. |
| `mesh` | Poll loop and SIGHUP, four bundles, a clock of three ticks that may step back, one restart. The snapshot refines `MonotoneZone`, watermark and snapshot agree, a bundle that stays acceptable is served for good. |
| `blocklist` | Two reloading tasks, or the main task alone, a default list and one group, a file and a URL that change and fail. The fallback exists, untrusted sources do not unblock, the global allowlist is in every loaded list; a task alone drops no source and never goes back to older content; with the loop the lists end up current. |
| `limiter` | Two workers, or one, three sites in all their written forms, two slots. Table bound and no collateral refusals; with one worker the rate bound, across idle sweeps and evictions. |
| `disklog` | No failures, failing writes, or every call failing and `max_files` edited between runs, two crashes anywhere. The files hold the latest lines in order, every entry and every failed flush is accounted for, the writer drains, and the footprint is `max_files` files of the maximal size as long as no rotation is given up and the limit is not lowered. |
| `upstream` | Eight configurations (several targets, several relays, a validating one, nested routes in the wrong order, four that are refused), lookups that fail, two resolutions, one rotation of each target's key. No name leaves by a wrong arm or without its relay; a rotation alone fails no query; exchanges are bounded; building and resolving end. |
| `frontend` | A DoH request and a plain query with every verdict, rings of none, one and two entries, a channel of one that may be full or missing, answers that lose two private records. Counters balance, log and counters agree, one entry for each query, `/queries` shows the newest, the DoH client gets what was logged, every request ends. |
| `tables` | Every table over its bounded inputs: about 50 000 questions, nine properties, one for each kind of table. |

Violation runs, each a place where the code does something else than the
repository says (`findings` quotes the lines):

| Run | Shows |
|---|---|
| `blocklist_race` | Reloads are not serialised: a slow one that had nothing for a source overwrites a faster one that had. |
| `limiter_race` | The clock is read before the lock: a late worker winds `last_refill` back and the interval is credited twice. |
| `disklog_reopen` | After one failed reopen `cur_size` stays at its limit, and the following rotations move the open file down until it is deleted. |

### Bounds

Counters that the code leaves unbounded have a named bound: `MaxClock`, `MaxBoots`,
`MaxVersion`, `MaxSwaps`, `MaxEntries`, `MaxRestarts`, `MaxWrites`, `MaxSignals`,
`MaxKeys`, `MaxChain`. They are chosen so that the
interesting cases happen:

- Queries only read what they share, so one query slot, reused, together with every
  swap at every moment covers what a query can meet; the proofs cover any number of
  slots. Two configurations are enough for any mixture of an old and a new one.
- Two reloading tasks are what the daemon has. Four bundles include two of one
  generation with different nonces and one that expires within the clock's range.
- Two signals are two reloads, one of them during the other, or a SIGTERM during a
  reload; two edits let the second reload start from what a partly failed first one
  left. The proofs cover any number of both.
- Two workers suffice for an overtaking at the lock; two slots for three sites make
  evictions happen. A bucket of one query refills in two ticks, which is the idle
  threshold, and the clock has three, so that a sweep forgets buckets that are just
  full and one with a shorter threshold would forget one that is not.
- A file holds one entry and the buffer two, so that a rotation happens on every
  write and a buffer may be flushed into either file. Four entries and up to three
  files let a backup be moved down and deleted.
- Two resolutions are enough for one to store a key the other has overtaken; a target
  rotates once, since `spoiled` excuses what a second rotation during one resolution
  does. Each configuration of `upstream` is there for a branch of `Resolver::new`.
- Two requests are enough for any two steps of the frontend to be exchanged; more
  entries than the ring holds come from the ring of one, more than are rendered from
  `MaxRendered = 1`. `Dropped = {2}` makes the counter of records run past the number
  of requests; nothing reads that counter, so an answer that loses none goes the same way.
- `tables`: aliases among four names with a limit of two make chains that end at,
  below and past the limit and loops with and without a tail. A day has four minutes
  of two seconds and the instants cover a week and a day, with offsets that cross
  midnight both ways. Addresses of two and five bits have a mapped range, private and
  public hosts and every prefix length, the one past the longest included. Lists have
  up to two lines, rewrites up to three rules, in every order. Configurations vary one
  section at a time, and the listeners together; reloads go between any two of 91,
  in which the settings a reload follows, warns of and ignores change alone and together.

Queries, reloads, restarts and swaps of all kinds fire in these runs.

### Fairness

- `pipeline`: weak fairness of each query's handler step. The executor polls a task
  that is ready, and an upstream exchange ends by an answer, an error or the timeout
  hickory and the ODoH client are configured with. Nothing is assumed of SIGHUPs,
  list reloads, hang-ups or new queries.
- `daemon`: weak fairness of the main task (fetches, binds and the drain end by
  success, failure or timeout), of the end of cancelled accept loops, and of the drain
  timeout of a retired DNS server. No client is assumed to close a connection.
- `mesh`: the poll loop starts a reload again and again and a started reload goes on;
  strong fairness for taking the lock, which others hold only for two stores. No
  SIGHUP, publication or clock step is assumed.
- `blocklist`: the periodic loop starts a reload again and again, and every step of a
  started one is taken, since reads and fetches end by success, failure or timeout.
  The property asks only for what holds once the sources stay readable and unchanged.
- `upstream`: weak fairness of building and of each resolution: lookups, fetches and
  posts have timeouts. No rotation and no new resolution is assumed.
- `frontend`: weak fairness of each request's steps; clients may stay or go away.

## 4. Proofs

The theorems hold for all values of the constants under the named assumptions of
each module (`PipelineAssumption`, `MeshAssumption`, ...), which say what the
configuration validates and what types the constants have. TLC evaluates the same
assumptions on the instances. Every state machine has its proofs, and its type
invariant is a theorem (`TypeCorrect`, `TypeAlways`).

**QueryPipelineProofs.** `TypeCorrect`, `NeverLeaks`, `NeverServesBlocked`,
`NeverRebinds`, `LogAgrees`. None of the properties is inductive: when a name is
sent, the gates it passed lie several swaps back. The invariant `IInv` therefore
says, for each query, what every gate behind it has established, about the history
of what was in force and not about what is in force now:
`Admitted` (the gates of `Receive`; the policy is the one written for this client),
`Witnessed` (what is in force now belongs to the history, so a verdict of this
moment is one of the history), `Passed` (own name, rewrite, blocklist), `Judged` (the
records between the upstream's answer and the reply), `Replied`, and the bodies of
the properties. Two lemmas carry the argument. `PolicyOfClient`: looking a policy up
by canonical address finds the entry written for the client, if no two entries name
the same client. `KeptChain`: after the bailiwick filter every owner but the queried
name is the target of a CNAME that was kept, by applying the definition of the
reachable names as a least closed set to the set of the kept targets. From the
second follows what `cname_chain_blocked` claims: checking the targets covers the
owners too. Steps that move one query are separated from steps that swap something
by `OneMoves` and `Swapped`; `DecideKeeps` serves all places that decide on a reply.

**DaemonProofs.** `DaemonStaysLit`, `ReloadTakesEffect`, `TypeCorrect`. The second
property speaks of the quiet places only; the invariant `Inv` says what is known in
between: which groups are already `Settled` under the configuration being applied
(those `Before` the one at hand), that the bound generation is the wanted one, and
that `cur` and `live` agree throughout (`Lit`), without which the diff of the next
reload could skip a change. `GroupDoneInv` is the step from one group to the next.

**BlocklistReloadProofs.** For any number of tasks: `TypeCorrect`, `FallbackAlways`
(whatever a list is built from has a last good content to fall back to) and
`AllowsAlways`; its invariant bounds the configured part of each state's allowlist from
both sides, and the two halves of the property follow from the bounds. Without the
periodic loop: `SerialAlways`, an action property about the moment of a swap. A swap
replaces all that a list holds by what one reload has gathered, so `SerialInv` says
during a reload how the two compare: each source of the active state is gathered
already or still to come (`AloneInv`); fetched content waits for its settling and for
nothing else, as a file that was read waits to be kept (`GotInv`); remembered content is never newer than what was fetched since,
nor that newer than what is served (`FreshInv`); no state has a newer version than the
remembered one, and nothing gathered is older than what a state has (`VersionInv`); a
source contributes once (`OnceInv`). The run `blocklist_race` shows that the loop has to
be excluded.

**RateLimiterProofs.** `TypeCorrect`, `TableStaysBounded`, `NoCollateralEver` for any
number of workers (`KeyIsSite`: two addresses share a bucket exactly when they are of
one site), and `SingleKeepsRate`: with one worker thread the rate bound holds. Its
invariant ties the tokens of a bucket to what its site was granted; the idle sweep keeps
it because a bucket idle for the threshold is full again. `SingleRateBound` therefore
says `Burst <= IdleThreshold`. The defaults meet it (a bucket refills in 2 s, the
threshold is 300 s); the validation of the configuration (config.rs:2661-2696) does not
enforce it, so a burst of more than 300 s worth of `qps` is outside of the theorem, and
there the sweep does hand out a second burst (section 5). `limiter_race`
shows that the single worker is needed.

**UpstreamResolverProofs.** `TypeCorrect`, `RouteAlways`, `RetryAlways`, for any accepted
configuration and any number of resolutions. `RouteInv`: while the resolver is built it
has an arm for each specification so far, none left out; when it is ready it has one for
every zone, longest first. Since the zones that match a name are suffixes of it, the
first match is the most specific one. `RetryOf` says where a resolution is between the
key it holds and the cache: after its retry, if nothing spoiled it, the cache is empty
or has the key published now, and then so has its hand; the target opens that one.
`Moved` separates a step of one resolution from what it does to the others through the
shared cache: a key stored by another one spoils whoever relied on the cache, unless it
is the current one.

**QueryLogDiskProofs.** `TypeCorrect`, `AccountedAlways`, `FootprintAlways`,
`RetainsAlways`, for any limits, any entries and crashes anywhere. `CountInv` and `OwedInv`
follow an entry from the channel through the hand and the buffer into a file, and count a
failed flush beside it. `SizeInv` is what bounds the files: the open one with its buffer
is at most `MaxFileSize` larger for each rotation that was given up, also when `cur_size`
and the file disagree, and one more line fits whenever one is written. `SteadyInv` says
that without failing calls and edits none is given up, and that until one is, the open
file is `path`; with `skipped = 0` in `SizeInv` this is the documented bound.
`OrderInv` puts files, buffer, hand, channel and
the next entry in one ascending order. `Placed` says which name is free at each step of a
rotation, so that no rename overwrites a file, and `Kept` is preserved by each operation
on the directory (`Renamed`, removal of the oldest, append).

**FrontendProofs.** `TypeAlways`, `LoggedAlways`, `DohAlways`, `CountersAlways`, for any
finite set of requests. `BaseInv` says what is known of a request at each place (its
reply, its oneshot slot, its status). `LogInv` has for each request where its entry is,
that the ring is the end of what was pushed, and that channel and drops add up. The
counters are compared with numbers of requests, so a step is summarised by how it moves
one request between sets (`Shape`) and `Shifts` gives what happens to the cardinalities:
`SumInv` for the totals, `TallyInv` for each source of an answer with the requests that
are counted and not logged yet, `BoundInv` for the counters of queries. `CountersAgree` holds of the
tallies where the set of those requests is empty.

**TablesProofs.** Each of the nine invariants of `Tables`: `AuthorityAlwaysAnswers`,
`WindowsAlwaysHold`, `AddressesAlwaysHold`, `AnswersAlwaysFiltered`, `ListsAlwaysBlock`,
`RewritesAlwaysAnswer`, `ListenersAlwaysSeparate`, `AcceptedAlwaysInForce`,
`ReloadsAlwaysReported`. A behaviour is a sequence of questions, and the invariant
`Posed` only says that each is of its set; the work is in theorems about the operators,
which hold for lists, names, answers, days and addresses of any size:

- `DenylistExact`, `Anonymised`. A mask keeps the quotient by a power of two, so an entry
  names an interval of hosts, in either family, and mapping an address moves the whole
  interval.
- `BlockedExactly`, `DayTiled`. A second of local time is reduced to a day and a minute of
  it (`DivModInt`, for local times before the epoch too), and `MinuteBetween` turns the
  two comparisons of the code into an interval of seconds; a window that wraps is the two
  ends of its own day.
- `BlockedExactlyAsListed`. Each line format by itself, then the union: what a name is
  looked up under are the names above it, and an entry covers it exactly if it is one of
  them. A name of a single label is blocked by no entry.
- `ClosestAnswers`, `SafeSearch`. The table is ordered by length and then by place, so among
  the rules above a name there is exactly one that comes first, and it is a longest one.
- `AnswerOnTopic`, `NoPrivateAnswer`. `filter_answer_sanity` makes as many passes as there
  are records. `AllowedIsReached` shows that this is enough in any order of the records:
  a pass that adds no name ends the growth, every other adds one, and there are at most
  as many names as records beside the question.
- `ListenersKeepApart`, `AcceptedConfigStarts`, `AcceptedNeedsNoDefault`, `NoDomainTaken`,
  `ReloadIsRestart`. The rules of `validate_config` pair by pair against what sockets
  receive, against every way a start can fail, and against every fallback. An accepted
  configuration starts if and only if nothing of `Overlooked` is wrong with it. The fields
  of the sections a reload keeps are those `restart_required_changes` compares and those
  of `Silent` (`NotFollowedParts`), so the two together are what it does not follow;
  `AllowlistsNarrow` has what a client's lists allow when nothing was warned of.
- `ChainAnswers`. The invariant of the walk along aliases is `WalkAt`: after turn `i` there
  is a chain of `i + 1` aliases without a name twice, each owner within the zones, the walk
  is at its last target and has visited exactly its owners; or it is over, and then the
  chain ends for one of the reasons the reference names.
- `DeclaredClaims`, `StaticServed`. Where each zone of a snapshot comes from: a static
  record's parent or own name, a declared zone, or a bundle's name, which is below the
  mesh zone.

Recursion and induction. The prover cannot use the induction theorems of its library,
which take a predicate as a parameter. `SetInduction` states induction with a set in the
place of the predicate; it is proved from `Least`, which rests on `WFMin`. A recursive
function in a LET is a CHOOSE to the prover; `Iterates` shows that an iteration of any
length exists, after which the CHOOSE can be unfolded. For the same reason the filters
are written with `Select` over a set of indices and not with `SelectSeq`.

Assumptions. `InputsAssumption` has the shapes above; it asks of an authority section that
its declared zones are single labels, which `validate_config` enforces, and that its mesh
zone is not the root, which it does not (see section 5). `LabelsAssumption`: the label
that stands for a name nobody wrote is in none of the inputs. `LowerAssumption`: lower
case is lower case. `SkippedAssumption`: `localhost` and the others that
`is_always_skipped` drops are single labels. `AsteriskAssumption`: an asterisk is a
well-formed label, as `validate_and_normalize` has it. `PowerAssumption` is the recursion
of `2^n` up to the width of an address, since the provers know nothing of `^`.

**Mesh authority** (the end of `TablesProofs`). `Refinement` (`Spec => Zone!ZoneSpec`), `WatermarkAgrees`,
`TypeCorrect`. The invariant says who holds the lock and
what the holder has established: before its first store snapshot and watermark
agree, after it the snapshot is its own bundle, and the bundle is not older than the
watermark in both cases. Without that part the store could be a rollback.

**Only model-checked.** The liveness properties (`EveryQueryEnds`,
`FreshBundleIsServed`, `LoopCatchesUp`, `SignalsHonoured`, `RetiredGenerationsEnd`,
`EveryResolutionEnds`, `EveryRequestEnds`), which the proof system cannot prove under
fairness. Every other property of a passing run is a theorem.

## 5. Observations without a run of their own

Met while modelling; each is a difference between the code and a comment or a page.

- The mesh gauge is set after the lock is released (main.rs:1534), so two overlapping
  reloads can leave the count of the older bundle until the next one;
  metrics.rs:152 describes it as the number of records served. `FreshBundleIsServed`
  shows that it comes right.
- Until its first load a group has its own allowlist only (engine.rs:180);
  allowlist.rs:3-4 says the allowlist always wins. Until then only the regex rules
  block anything in a group, and the global allowlist does not exempt from them.
- The disk writer is cancelled but not joined at exit (main.rs:472), so what it drains
  (query_log_disk.rs:205) may be cut short.
- The "bounded total footprint" of `max_file_bytes * max_files` (query_log_disk.rs:41-43,
  docs/security.md:354-356, docs/operator-endpoints.md:278-279) holds while rotations succeed. One that is given up, because its flush, a rename or the open
  fails, lets the file grow by another `max_file_bytes` before the next attempt, again
  and again if the fault stays; after a failed open the file that grows may have no name
  (`disklog_reopen`); and lowering `query_log_max_files` leaves the backups above the new
  limit (query_log_disk.rs:269). `FootprintBounded` is stated for the rest.
- `io_errors_total` counts a failed flush once, however many lines were in the buffer, and
  those lines are counted as written before; the flush of a rotation is not counted at
  all. `Accounted` has the exact sum.
- A line counts as written when it is in the buffer (operator-endpoints.md:129 speaks
  of lines written to disk).
- BADVERS (16) is logged by its low four bits, as NOERROR (handler.rs:314-317), and sent
  and counted as BADVERS.
- `ctrl_c()` is created anew in every turn of the signal loop (main.rs:1209). A SIGINT
  during a reload is lost, and so is one that was seen when the SIGHUP branch of the
  same turn wins; main.rs:39 says SIGINT is a graceful shutdown. What
  `SignalsHonoured` says of SIGTERM fails for SIGINT; what it says of SIGINT holds.
- Until `run_signal_loop` is reached a SIGHUP ends the process (`SendUncaught`); the
  startup's first blocklist load, which may take long, comes before.
- Groups are reconciled one by one, so a configuration can be half applied. With plain
  DNS on `a`, a reload that asks for plain DNS on a privileged port and DoH on the
  wildcard address of `a`'s port keeps the first and binds the second: two roles
  share one TCP port, which config.rs:2035-2038 and :2101-2104 rule out for a single
  configuration ("SO_REUSEPORT would hand each connection to a random protocol").
- config.rs:2149-2151 asks that `--validate-config` fail on what the daemon would die
  on. Three things pass it and end the startup: a `doh_listen` or `metrics.listen` below
  1024, since both are bound after the capabilities are dropped (main.rs:404, 423-424); a
  `metrics.path` that is reserved or has meta characters or dot segments; and upstream URLs
  that only `parse_upstream_url` or `OdohTarget::parse` refuse. They are `Overlooked`, and
  `AcceptedInForce` says that there is nothing else.
- The expiry of a mesh bundle is checked at load time only (mesh.rs:449): one that
  expires later goes on being served until another one replaces it, while
  docs/integration-rustynet.md:72-75 says the daemon never serves an expired bundle. The
  model does the same, so no property of a passing run says otherwise.
- The deadline of a DoH request is applied to the oneshot channel after the handler
  has finished (doh.rs:201-223), so it neither bounds the handler nor can fire.
- README.md:176 and docs/deployment-docker.md:192 say `/health` returns 503 for a stale
  mesh bundle; `health_handler` (metrics.rs:529) only knows whether the listeners are
  bound.
- docs/operator-endpoints.md:291-293 says that the daemon warns of every
  restart-required field "so a reload never *silently* ignores a change".
  `restart_required_changes` (main.rs:1437) does not compare
  `blocklist.trusted_rpz_sources`, `reload_interval_secs`, `fetch_timeout_ms`,
  `max_fetch_bytes`, `privacy.query_log_ring_size`, `query_log_max_files`,
  `query_log_max_file_bytes` nor the paths of the mesh bundle, which a reload does not
  apply either: changes of these are ignored without a word. They are `Silent`, and
  `ReloadsReported` says that there is nothing else.
- A burst of more than 300 s worth of `qps` is accepted (config.rs:2661-2696); the idle
  sweep (rate_limiter.rs:192) then forgets buckets that are not full yet.
- A rewrite to its own name is rejected, but `*.example.com` to `www.example.com` and
  two rules that point at each other are not; both make chains that clients follow in
  a circle.
- `validate_config` asks that a mesh zone end with a dot (config.rs:1973-1978) and so
  accepts the root, and the authority then claims the name `.` itself, which
  `static_zone_apex` (rustydns-authority/src/lib.rs:591) refuses to every static
  record. `ClaimsOnlyDeclared` is stated for a mesh zone below the root.
- Of two exact rewrites for a name the last wins, of two equal wildcards the first
  (`RewriteMap::from_rules`).
- `*.domain CNAME rpz-passthru.` becomes an allow entry for a name with a literal `*`
  label and never matches; an AdGuard `@@` exception allows the exact name although
  the block beside it covers everything below.
- An allowlist or rewrite entry `.*.com` passes the rule that asks for two labels, and
  then matches only below a literal `*.com`.
- In plain mode a bare IPv6 upstream is split at its last colon (`2001:db8::53`).
- An ODoH query whose key was refused is "retried once with a freshly fetched config"
  (odoh.rs) unless another query has stored an older key meanwhile; then it is retried
  with that one. `spoiled` counts this among the excuses of `RotationCostsARetry`.
- FORMERR replies are counted in `responses_by_rcode` but not in `dns_queries_total`,
  queries given up by a DoH client the other way round; `CountersAgree` has the exact
  sum.
- Ring and disk stream may hold two concurrent queries in different orders, since the
  channel and the ring are two locks.
- The metrics listener is started last, so the 503 of `/health` can be seen only
  briefly; at shutdown main waits for the DNS server and not for DoH requests.

## 6. What is not modelled

- Text: the splitting of blocklist lines, TOML, URLs, base64url and regular expressions
  into the parts the models start from, and the rendering of metrics.
- Libraries: the DNS wire format, TLS, HTTP, HPKE and ed25519, hickory's exchange and
  cache. They appear as external choices.
- Reading the configuration file: its size and permission checks, credentials in
  files, redaction in log output. They keep no state and change none.
- The permission check of an existing query log file, the hashing of logged names, and
  the health flag, which is set once.
- Socket activation and privilege dropping beyond their success or failure
  (`listeners.rs`), and the command line.
- `rustynet` itself: bundles appear on disk (`Publish`).

## 7. Plan

Done: the state machines of the inventory, then the tables, then the proofs of all
safety and action properties of both. What is left: a composition of `Frontend` with the
writer of `QueryLogDisk`, so that the channel is one and the same in both.
