# Verification of geo-idx-api in TLA+

geo-idx-api mirrors MLS listings and GIS layers into PostgreSQL, enriches them
and serves them to the customers' registered hostnames. Ordering, failure and
concurrency decide whether that works in the job queue, the sync pipelines that
run on it, the choice of a read replica, the caches, and the keys that admit a
request. This directory models those parts, checks them with TLC and proves
their safety properties with TLAPS.

Paths below are relative to the repository. `PROJECT.json` holds the same
information for tools: components, runs, the source lines of every definition,
hazards, findings and theorems.

## 1. Inventory

| Component | State | Operations | What is hard |
|---|---|---|---|
| Job queue (`internal/queue/queue.go`) | tables `jobs`, `job_batches`, `failed_jobs` | Enqueue, EnqueueBatch, Reserve (sweep, claim), Delete, Release, Fail, CompleteBatchJob | several workers; crashes between statements; errors that are discarded; reservations that expire while the handler still runs |
| Worker loop (`queue/worker.go`) | the reserved job, pool and queue cursors | reserve, process, Delete, handleBatchComplete, Release | ditto; a busy queue against the others |
| Replication kickoff (`service/sync/kickoff.go`, `freshness.go`, `fetch_guard.go`) | none of its own | decide per dataset between replication, nothing, incremental | check-then-act against jobs in flight; two comparisons of one age in two files |
| Bridge and Spark workers (`service/sync/*_worker.go`, `*_sync.go`) | `listing_sync_cursors`, staged pages, `listings` | FetchPage, PersistChunk, PersistFinalize | the chain is carried only by jobs; read-modify-write of the cursor row; retries; empty pages; 403; skip caps |
| Cursor store (`service/sync/cursor.go`) | one row per dataset and kind | ApplyPatch and queries | the row is read, merged and written back whole, without a lock |
| Staged pages (`service/sync/replica_page.go`) | `replica_pages` | store, read a chunk, delete | a page that outlives its batch, a batch that outlives its page |
| Listing mirror (`service/sync/listing_mirror.go`, `purge.go`, ...) | `listings` | upsert, delete by status, purge | upserts carry no version guard |
| Read replicas (`internal/db/replica_selector.go`) | map of replica pools with health counters | probe cycle, GetBestReplica, Close | a mutex held across a blocking Close; atomics stored without it |
| Scheduler (`internal/scheduler`) | session advisory lock, cron entries | acquire, run, stop, bootstrap check | a leader whose session has died goes on |
| FEMA enrichment (`service/fema`, `repository/fema`) | flood columns, chained jobs, circuit breaker | kickoff, batch, point query, update by id, continue | check-then-enqueue; rows that move or are replaced during a query; partial failure of a batch |
| GIS sync (`service/gis/sync_*.go`, `repository/gis`) | parcels, cities, counties, zips with a generation per source | kickoff, pages, county assignment, delete of older generations | late pages of an old generation; two refreshes at once; failure between the statements of a refresh |
| Keys and hostnames (`api/middleware`, `repository/token.go`, `domain*.go`, `handler/dashboard`, `service/auth`) | users, invitations, domains, keys | invite, accept, provision, verify, regenerate, delete, revoke; admit a request | look-ups on lagging replicas; read, wait for DNS, write; overlapping requests |
| Caches (`service/cache`, `service/gis/proxy.go`, `service/comps/cache.go`) | `mls_search_cache`, `gis_cache`, `listings_cache` | look up, fetch, store, purge | slow requests overwrite newer entries; replicas; partial writes |
| Comps engine, search, image proxy, crypto, web pages | none, or one row | request handling | sequential; floating point |

The components interact through the queue: the scheduler enqueues kickoffs, a
kickoff enqueues a fetch, a fetch stages a page and enqueues a batch of chunk
jobs, the queue enqueues the batch's finalize job when the last chunk is
counted, and finalize advances the cursor and enqueues the next fetch. No
component keeps a chain alive except the job that is running it, so the promise
of the queue (a finalize job comes exactly once, and only after every chunk) is
what the mirror's correctness rests on. That is why the queue comes first.

What makes each part correct:

* queue: no job is lost; one worker per job; a batch is finalized once, after
  its chunks, and eventually; every queue is served;
* pipeline: the cursor never runs ahead of the mirror; a sync is reported as
  finished only on a full mirror; a chunk finds its page; an active chain has a
  job; the first sync ends; a stale mirror is polled again;
* incremental cycles: every change up to the high-water mark is in the mirror;
* GIS: an undisturbed refresh leaves exactly what the upstream lists; an empty
  database fills up;
* mirror and enrichment: versions do not go back; a flood zone belongs to the
  row's own point and every listing gets one; closed listings leave;
* keys: what is granted was entitled; a replaced key is refused; one account per
  invitation; a hostname is verified before it is served;
* caches: no answer is older than its time to live, or from the future;
* replicas: no pool leaks; a dead replica is taken out and let back only by
  successive probes; reads and shutdown end.

## 2. Modules

| Module | Models | Checked by |
|---|---|---|
| `JobQueue` | the queue client and the worker loop; one step per SQL statement or transaction | `MCJobQueue`: run `queue` |
| `BatchBarrier` | abstract: what EnqueueBatch promises its callers | implemented by `JobQueue` (property ImplementsBarrier of run `queue`) |
| `JobQueueProofs` | theorems on `JobQueue`: durability, claims, batches, the refinement | TLAPS |
| `FairReserve` | reserveNext, reserveWeighted, ReserveFair: the rotation over pools and queues, one step per probe | `MCFairReserve`: run `fair` |
| `FairReserveProofs` | theorems on `FairReserve`: the rotation: cursors, complete scans, the bound on bypasses | TLAPS |
| `SyncPipeline` | kickoff, the three handlers, cursor, staged pages and mirror of one dataset | `MCSyncPipeline`: runs `pipeline`, `pipeline_wedge` |
| `SyncPipelineProofs` | theorems on `SyncPipeline`: cursor and mirror, staged pages, the chain and its jobs | TLAPS |
| `IncrementalSync` | modification timestamps, second-granular cursor and window, `$skip` paging | `MCIncrementalSync`: run `incremental` |
| `IncrementalSyncProofs` | theorems on `IncrementalSync`: the high-water mark | TLAPS |
| `ListingMirror` | the listings table between the persist jobs, the purge and the FEMA enrichment | `MCListingMirror`: run `mirror` |
| `ListingMirrorProofs` | theorems on `ListingMirror`: zones, stamps and ids | TLAPS |
| `GisSync` | scheduler leadership, bootstrap, boundary and parcel refreshes | `MCGisSync`: runs `gis`, `gis_annual` |
| `DomainAccess` | accounts, hostnames, keys; the dashboard's writes and the API middleware | `MCDomainAccess`: runs `access`, `access_retired` |
| `DomainAccessProofs` | theorems on `DomainAccess`: tables on the primary and the replica, grants, invitations | TLAPS |
| `ReadCaches` | the three caches in front of upstream services and their purge | `MCReadCaches`: run `reads` |
| `GisAndCacheProofs` | theorems on `GisSync`: what a refresh leaves behind; and on `ReadCaches`: freshness of the three caches | TLAPS |
| `ReplicaSelector` | probe loop, GetBestReplica and Close on shared entries | `MCReplicaSelector`: run `replicas` |
| `ReplicaSelectorProofs` | theorems on `ReplicaSelector`: pools, mutex and breaker | TLAPS |

How the modules build on each other: `JobQueue` lets a worker reserve any queue;
`FairReserve` shows that the rotation justifies the fairness this assumes.
`JobQueue` implements `BatchBarrier`, in which there are no workers, rows or
counters: a batch appears whole, its jobs succeed in any order, and one
on_complete job follows when all have. `SyncPipeline`, `ListingMirror` and
`GisSync` take the queue as `JobQueue` shows it to be while handlers keep within
their reservation: a handler that fails starts over until given up, and the
finalize job follows the last chunk. `IncrementalSync` zooms in on the data of
one cycle that `SyncPipeline` abstracts to "a page with or without more", and
`ListingMirror` on what fetches and persist jobs of a dataset write when they
meet. `DomainAccess` and `ReadCaches` read through the pools of
`ReplicaSelector`, seen as any of the primary and a replica that lags.

### JobQueue

`live`, `body`, `attempts`, `reserved`, `delay` are the columns of `jobs`;
`pending`, `finished`, `notify` those of `job_batches`; `failed` is
`failed_jobs`. `pc` and `held` are a worker's place in `Run` and its
`ReservedJob`. Time is relative: `reserved` is the age of `reserved_at`, `delay`
the time until `available_at`; the code only compares these with the clock.
`Abandon` is a crash or a failed statement whose error `Run` discards, between
any two statements. `succeeded`, `counted`, `dropped` and `faults` are history:
no action is enabled or disabled by the first three.

`AllowOverrun` says whether time may pass a reservation's end while its worker
is still busy. Nothing in the code prevents it (the handler's context has no
deadline). The run has FALSE; the theorems on NoJobLost and FinalizeOnce hold for
both values, and Known limitations says what TRUE does to the others.
`AllowDeleteLoss` says whether the `DELETE` after a success may fail, in which case `Run` goes on and counts the
chunk although its row will be claimed again.

### FairReserve

A scan probes pool after pool and, in a pool, queue after queue; other workers
and producers change what is there between the probes. `tag` is a queue under
observation, `bypass` the number of jobs taken elsewhere since it last got work
without being served.

### SyncPipeline

A job is a slot with its kind, its place in the handler, and the cursor row it
has read (`snap`). `PatchRead` and `PatchWrite` are the two halves of
ApplyPatch. `cursor.url` is `replication_next_url` (0: none), `cursor.fin` the
age of `last_sync_finished_at`. The mirror is the set of chunks written.
`Fault` restarts or gives up a handler at any statement; kickoffs may overlap
with anything up to `MaxOverlaps` times.

### IncrementalSync

Listings have the time of their last change; `PerSecond` changes fit into a
second. A cycle fetches by `$skip` under the filter "modified since the cursor"
(Spark: and before the second of the
cycle's first request); finalize advances the cursor to
the newest row of the page, cut to the second. `windowed` is fixed initially,
so both feeds are covered.

### ListingMirror

`source` is the MLS, `listings` the mirror, `pages` the answers of the feed with
the rows still to be written. A fetch asks (`AskFeed`) and stores its page in a
later step (`StorePage`). Kickoff starts none while a page is staged (`Fetch`),
and in mode "replication" the fetch itself looks once more; an incremental fetch
that the queue runs again (`RepeatFetch`) does not look. So several answers may
be on their way and several pages staged. `overlapped` is history: it remembers
that fetches have met until their pages are gone, and overlapping ones count
among the `MaxFaults`. A page's `no` only tells pages with equal rows apart.
HydrateReplicaBatch is one step per transaction
(`FlushChunk`), then the deletes and the finalize (`FinishPage`); a failure
starts a staged page over and loses an answer not yet stored (`FailPage`). The
enrichment chain is `jobs` and `work`: a batch selects stale rows (`StartBatch`), asks the NFHL for each point
concurrently behind the circuit breaker (`StartQuery`, `QueryAnswers`,
`QueryFails`), writes all answers by id in one transaction (`CommitBatch`) and
enqueues its continuation (`ChainBatch`). EnqueueKickoffIfAbsent is two steps;
`finalizers` counts the callers between them.
A flood zone code is one of the classes ComputeLowRiskFloodZoneYN tells apart.
`moved` is history.

### GisSync

A handler is the sequence of database statements it has still to make (`todo`,
built by `Plan`); handlers interleave between statements, and any statement may
fail, a batched upsert in its middle. `rows` are the four tables with the
generation that wrote each row, `gen` is `gis_source_states.generation`. Parcel
pages are jobs of their own, boundary layers are paged inside one handler.
`sched` and `lock` are the schedulers and the advisory lock; `LoseSession` frees
the lock without the leader noticing. A job's `clean` mark is history: no other
refresh and no upstream change touched its layer since it began. A job's id is
its kind and a number no other job of the queue has; only its uniqueness matters.
A kickoff's look for an active page may overlook one (`CheckActive`), as the
query leaves out pages reserved for two hours and is made on a replica; the
other counts made through ReadPool are taken as current.

### DomainAccess

The database is a log of states: its last element is the primary, its first what
a lagging replica shows. A transaction appends a state; every look-up picks a
view. Handlers that look up first and write later hold what they have read in a
slot. Row ids stand for the random TXT values and serial numbers for the keys,
as neither repeats. `minted`, `made` and `retired` are history. A request with a
key goes through `handleToken`, one without through `handleDomain`, which asks
for no verification; GrantSound states what each owes.

### ReadCaches

An answer is the time at which the upstream gave it. Requests look up, fetch and
store in separate steps, and the rows of comparables are written under a stamp
taken when the write begins (`UpsertClosedBatch`). `MaxHold` bounds the time
between answer and write. Its specification is `CacheSpec`, so that one module can
extend it together with `GisSync`.

### ReplicaSelector

`mu` names the holder of the mutex while it may block; a section that cannot
block is one step. `closing` is the pool whose Close is waiting for borrowed
connections. `updateCircuitBreaker` and `markUnhealthy` take one step per store
to an atomic, so their orders mix freely. `run` is history: the last probes in
a row that failed or succeeded. A reader takes a connection of the pool it was
given (`Read`) and, like the dashboard's loadPageData, may call the selector
again for each row of its result (`NextRow`) before it gives the connection back
(`ReadEnd`); `held` is the pool of that connection. `Stuck` is the deadlock this
makes possible: Pool.Close waits, under the mutex, for a connection whose reader
waits for the mutex. Pool sizes are not modelled.

## 3. Runs

Passing runs:

| Run | Distinct states | Shows |
|---|---|---|
| `queue` | 128,083 | NoJobLost, ExclusiveClaim, FinalizeGate, FinalizeOnce; JobsDrain and BatchSettles under fairness; the refinement ImplementsBarrier |
| `fair` | 42,576 | BoundedBypass (fewer than pools x pool size jobs pass a waiting queue), EmptyScanProbesAll, NoStarvation |
| `pipeline` | 615,860 | CursorCovers, FinishedMeansMirrored, ChunkHasPage with one mishap anywhere; ChainAlive and InitialSyncCompletes in the behaviours without one |
| `incremental` | 28,882 | OnePageHighWaterMark and OnePageConverges: in the behaviours whose cycles fit one page |
| `replicas` | 528,525 | NoPoolLeak, BreakerTrips, Readmission; ShutdownUnlessStuck and ReadsReturnUnlessStuck under fairness: the nested call is all that can block either |
| `gis` | 635,041 | RefreshExact: a refresh that nothing else disturbed leaves each upstream feature once, whatever failed and was retried; BootstrapCompletes |
| `mirror` | 1,134,647 | ZoneOfOwnPoint, ZoneCatchesUp, also when fetches overlap; NoRegress while they do not |
| `access` | 813,011 | schema and key integrity (TypeOK), OneAccountPerInvite, GrantSound, RetiredKeyRefusedInTheEnd |
| `reads` | 3,699,287 | FreshServed for all three caches; nothing is from the future (CacheTypeOK) |

Runs that end in a violation, each a disagreement between the code and what a
document or a comment says of it (quoted under "findings" in `PROJECT.json`):

* `pipeline_wedge`: a failure between marking the chain, staging the page and
  enqueueing its batch leaves a dataset that retries and kickoffs both skip.
* `gis_annual`: the second yearly boundary refresh always fails, because a city
  is inserted with county NULL, which never conflicts with its older row, and
  the county is then refused to it while the older row has it.
* `access_retired`: a replaced key is still accepted where a replica has not seen
  the replacement. That it is refused in the end is checked by `access`.

### Known limitations

Further behaviours the models show and no run asserts. Each can be reproduced by
the change named; "P of M" is a definition P of module M, to be named in the
configuration in place of what it checks. The first five are disagreements with
what a document or a comment says.

* A listing that closes stays Active in the mirror: the filters
  (`mirror_window.go:11` and `:35`) are evaluated on its present status and no
  longer return it, and the purge (`purge.go:28`) looks at the stored one.
  `docs/listings-mirror.md:116` says of the purge "Always deletes **Closed** rows
  from `listings`", `:13` lists Closed as not in the mirror. ClosedLeaves of
  `ListingMirror` (a PROPERTY) is violated under `ListingMirror.cfg`.
* Two pages of a dataset are staged at a time: `fetch_guard.go:15` stops no fetch
  in mode "incremental", and kickoff does not see a fetch that has not stored its
  page. The upsert compares no timestamps (`listing_mirror.go:161`), so the older
  page may be written last; hence the premise of NoRegress.
  `docs/deployment-operations.md:149` says "expect ≤1 pending/processing per
  provider+dataset". OneActivePage of `ListingMirror` (an INVARIANT), and
  NoRegress without its premise, are violated under `ListingMirror.cfg`.
* In a cycle of several pages the filter advances with the cursor
  (`bridge_worker.go:369`) and `$skip` still counts from the old one (`:215`), so
  a change below the cursor is passed over. `docs/listings-mirror.md:66` says the
  cursor "holds the high-water mark". HighWaterMark of `IncrementalSync` (an
  INVARIANT) is violated under `IncrementalSync.cfg`.
* A dashboard page that reads its rows from a replica asks for another pool for
  each row (`handler/dashboard/handler.go:246`, `repository/token.go:143`). When
  the replica is removed, or the API shuts down, in between, page and selector
  wait for each other for ever, and so does every later read: Pool.Close
  (`replica_selector.go:390`, `:288`) is called with the mutex held. The comment
  at `replica_selector.go:275` says "Close stops the probe goroutine and closes
  all per-replica pools." Shutdown of `ReplicaSelector` (a PROPERTY) is violated
  under `ReplicaSelector.cfg`.
* A hostname is served without a verified TXT record if the request brings no key
  (`domain_token.go:68-82`). `docs/admin-dashboard.md:38` says "DNS TXT
  verification is required before API auth", `docs/api.md:26` "verified domain".
  VerifiedBeforeAuth of `DomainAccess` (an INVARIANT) is violated under
  `DomainAccess.cfg`.
* A handler that outlives its reservation: the chunk is counted twice and the
  finalize job may come while another chunk has never succeeded. `queue` with
  `AllowOverrun = TRUE` violates FinalizeGate (and ExclusiveClaim); NoJobLost and
  FinalizeOnce are proved to hold all the same. `AllowDeleteLoss = TRUE` violates
  FinalizeGate too: the chunk's row is claimed, and counted, a second time.
* A worker lost between the delete of a chunk and CompleteBatchJob leaves the
  batch open for ever: that is the exception `dropped` in BatchSettles. Without
  it the property is violated.
* Polling in steady state needs an age at most (freshness.go) and at least
  (kickoff.go) the freshness window; once that instant is missed nothing polls
  again. SteadyPolls of `SyncPipeline` is violated under the constants of
  `SyncPipeline_wedge.cfg`, also with `MaxFaults = 0`.
* Two kickoffs in flight start two chains, whose whole-row writes of the cursor
  undo each other: OverlapHarmless of `SyncPipeline` is violated under
  `SyncPipeline.cfg`.
* At the skip cap (`Backlog = TRUE`) or the chain cap (`MaxChain` > 0) of
  `SyncPipeline`, a sync ends without being recorded as finished.
* `gis`: the guard of `ASSUME PagesAssumption` is needed. If a service returns
  fewer features than asked for, the next offset, which advances by the page
  size, skips features.
* `reads`: HasData passes more arguments than its statement has placeholders
  for, so the persistent GIS tier is never reached (the model goes straight to
  the live sources); an empty answer after all sources failed is cached like any
  other; a query longer than 32 characters does not fit `query_hash` and is
  never cached; nothing purges `gis_cache`, and a bump of the generation does
  not invalidate it.

### Bounds, and why they are enough

* `queue`: two workers are the fewest that can race on a row, and no action looks
  at more than one other worker; two queues, one batch of two chunks (so that one
  chunk can be first and the other last) or two single jobs, `MaxAttempts` 2 (a
  retry and an exhaustion), one fault, time-out 1. There are job ids for a second
  finalize job, so FinalizeOnce could fail. A garbled payload is in, because it
  is the one kind JobsDrain has to except; payloads of unregistered and legacy
  types behave like a failing and a succeeding job. The theorems hold without
  these bounds.
* `fair`: queue lists with three pools, two, and the round robin without pools,
  pools of one and two queues, one failing probe.
* `pipeline`: two pages (a first and a last one), two chunks, an empty last page
  allowed, one fault or overlap in all: every pair "one mishap, anywhere" is
  covered. `pipeline_wedge` needs no more than one.
* `incremental`: three listings, two instants per second, four instants, pages of
  two (`Top = 2`): cycles of one page occur in the run and cycles of two do, and
  the properties speak of the behaviours without the latter. The skip cap is left to SyncPipeline's `Backlog`.
* `replicas`: two hosts, of which host 1 comes, goes and fails at will and is
  opened twice (its entry can be replaced under a request that holds the old
  one), thresholds 2, one reader with one nested call. Host 2 is steady until the
  shutdown, a restriction for size; it competes with host 1 in the selection.
* `gis`: two workers (refreshes that meet) and two schedulers (a leader that has
  lost its session, and its successor), two pages of parcels and of zips, a
  malformed and a foreign feature, two attempts per job, two events of which one
  is a failure. Generations end at 3, which leaves room for a refresh after a
  bootstrap; BootstrapCompletes excepts behaviours that use them up.
  `gis_annual` has one worker and no failure.
* `mirror`: two listings, a point in a high-risk and one in a low-risk zone,
  batches of one row (so that a chain takes several batches), one revision by the
  MLS (an older and a newer version of one listing), two fetches under way, one
  failure, a breaker that opens at it, one worker. A page is one transaction and
  its finalize, and the other page's may come between. That a fetch overlaps
  another counts as the failure. Chains overlap between batches.
* `access`: one hostname that can be registered twice, the administrator and one
  invited address with two invitations, two requests in flight, four keys, four
  transactions, a replica one transaction behind, one TXT record. Two of each is
  what the races need: the old and the new registration, the old and the new
  key, the first and the second acceptance. `access_retired` has one request and
  three transactions.
* `reads`: two requests, times to live of 1 against a clock of 3, so that
  entries expire, are refreshed late and purged; a scope of four sales and one of
  the last three of them, live queries that return three, so that one scope is
  answered with rows another one fetched.

### Fairness

* JobQueue: time passes, a worker goes on with what it holds, and a queue whose
  row stays claimable is claimed from (`Run` polls for ever, and `fair` shows the
  rotation reaches every queue). Crashes and producers owe nothing.
* FairReserve: `Run` calls reserveNext again and again.
* SyncPipeline: the scheduler's kickoff recurs, time passes, some job makes a step;
  FairSpec gives each job its turn, which is JobsDrain.
* IncrementalSync: cycles are run; whether they are is SyncPipeline's subject.
* ListingMirror: the scheduler polls, purges and kicks off, time passes, a worker
  goes on with its batch. The MLS, failures and the administrator owe nothing.
* GisSync: workers and standby schedulers poll, and the bootstrap check is a cron
  entry. Failures, refreshes and the upstream owe nothing.
* DomainAccess: a replica in use keeps up, and a request is answered.
* ReplicaSelector: weak fairness of the probe loop, strong fairness of what
  waits for the mutex (`sync.RWMutex` starves neither side) and of the
  cancellation case of the probe loop's `select`, which chooses at random.

Deadlock is checked except where the system may come to rest: the pipeline runs,
where a mishap can stop a dataset (`pipeline_wedge`); the run of ReplicaSelector,
where a reader and the selector can stop each other (Known limitations); and the
runs of GisSync, DomainAccess and ReadCaches, whose bounds on events,
transactions and time end a behaviour.

## 4. Proofs

TLAPS proves every safety property of the passing runs, without the runs' bounds:
for any number of workers, requests, hosts, listings, features, pages, faults and
so on.

| Theorem | Statement | Beyond the module's named assumptions |
|---|---|---|
| **JobQueueProofs** `TypeCorrect` | `SafetySpec => []TypeOK` | |
| `JobsAreDurable` | `SafetySpec => []NoJobLost` | |
| `BatchFinalizedOnce` | `SafetySpec => []FinalizeOnce` | |
| `ClaimsAreExclusive` | `SafetySpec => []ExclusiveClaim` | jobs end within their reservation (`~AllowOverrun`) |
| `FinalizeWaitsForChunks` | `SafetySpec => []FinalizeGate` | the same, and no lost DELETE (`~AllowDeleteLoss`) |
| `QueueImplementsBarrier` | `SafetySpec => ImplementsBarrier` | both |
| **FairReserveProofs** `CursorsStayInside` | `Spec => []TypeOK` | |
| `EmptyScansAreComplete` | `Spec => []EmptyScanProbesAll` | |
| `BypassIsBounded` | `Spec => []BoundedBypass` | |
| **SyncPipelineProofs** `PipelineTypes` | `Spec => []TypeOK` | |
| `ResumeSkipsNoPage` | `Spec => []CursorCovers` | |
| `FinishedIsComplete` | `Spec => []FinishedMeansMirrored` | |
| `ChunksFindTheirPage` | `Spec => []ChunkHasPage` | |
| `ChainsAreCarried` | `Spec => []ChainAlive` | no limit on the length of a chain (`MaxChain = 0`, the default) |
| **IncrementalSyncProofs** `SyncTypes` | `Spec => []TypeOK` | |
| `CursorIsHighWaterMark` | `Spec => OnePageHighWaterMark` | (in the property: what a request selects fits one page) |
| **ReplicaSelectorProofs** `SelectorTypes` | `Spec => []TypeOK` | |
| `PoolsNeverLeak` | `Spec => []NoPoolLeak` | |
| `BreakersTrip` | `Spec => []BreakerTrips` | |
| `ReadmittedAfterProbes` | `Spec => Readmission` | |
| **ListingMirrorProofs** `MirrorTypes` | `Spec => []TypeOK` | |
| `ZonesBelong` | `Spec => []ZoneOfOwnPoint` | |
| `NeverBackInTime` | `Spec => NoRegress` | (in the property: fetches do not overlap) |
| **DomainAccessProofs** `TablesStayWhole` | `Spec => []TypeOK` | |
| `GrantsAreEntitled` | `Spec => []GrantSound` | |
| `InvitesMakeOneAccount` | `Spec => []OneAccountPerInvite` | |
| **GisAndCacheProofs** `GisTypes` | `Spec => []TypeOK` | |
| `RefreshesAreExact` | `Spec => RefreshExact` | |
| `CacheTypes` | `CacheSpec => []CacheTypeOK` | |
| `AnswersAreFresh` | `CacheSpec => []FreshServed` | |

The named assumptions give the constants their types: bounds are natural
numbers, thresholds, page and chunk sizes are positive, sets of hosts, listings
and rows are finite, `NULL` differs from what it stands in for. Six say more:
`ReserveAssumption` that a worker's queue list is not empty, names no queue
twice and none "none", "nil" or "error" (those are the model's outcomes of a
scan); `AccessAssumption` that what is offered to a domain is a non-empty
sequence of feeds, that some feed is configured and that the administrator's
address is not one to invite; `ListingMirrorAssumption` that the flood map has one zone or
none for a point; `CacheAssumption` that a hit of the comps cache takes at least
three rows, as the code makes sure; `PagesAssumption` that the upstream
answers with a full page while it has one (Known limitations says why), and
`GisAssumption` that it lists a feature of a layer once. TLC evaluates all of
them in the runs.

Six theorems have a further hypothesis, in the statement or in the property;
Known limitations says what happens without it. The hypotheses are satisfied by the passing runs, so no
theorem is vacuous.

### The arguments

Each inductive invariant was checked with TLC too, on the instances of section 3
(of AccessInv all but the types of the tables, which TLC cannot enumerate; they
are its TypeOK there).

* Durability of jobs: NoJobLost alone is not inductive, since a row may be
  deleted. `Recorded` adds that a worker about to delete has seen its job succeed
  or has recorded it in `failed_jobs`.
* Finalize once: `OnceInv`. A worker past the decrement is the one that took
  pending to 0 (`FinishingIsFirst`), there is at most one per batch, and a batch
  with a finalize job has pending 0 and nobody there (`FinalizedIsEmpty`,
  `FinalizeUnique`); pending never rises, and the decrement stops at 0. This holds
  even when chunks are counted twice.
* Exclusive claims: `LeaseHeld`. The row a busy worker holds is reserved and not
  older than the time-out, so the sweep and the claim both pass it by.
* The gate: `CountInv`. `pending_jobs` is exactly the number of chunks that have
  not been counted, and a chunk is counted at most once, after it succeeded and
  its row is gone. With the reservation overrun or the DELETE lost, the second
  half fails.
* The barrier: under `CountInv` and `OnceInv` each action of `JobQueue` is an
  action of `BatchBarrier` or leaves its variables alone; the finalize job of the
  queue is allowed by the abstract one because the counter is exact, and is the
  only one because of OnceInv. The proof is about the safety part; that a batch
  settles is the run's BatchSettles.
* The rotation: `FairInv`. Take the distance from the pool cursor to the tagged
  queue's pool, and from that pool's cursor to the queue. The jobs that have
  passed it, plus (distance in the pool) x (number of pools), plus the distance
  to the pool, never exceed (pools) x (size of the pool) - 1: every job taken
  elsewhere shortens the rest of the way by at least one. For the empty scan,
  every queue behind the scan's position, seen from where the cursors stood, has
  been probed.
* The pipeline: `PipelineInv`. The cursor is read, merged and written back whole,
  by any number of overlapping handlers, so the invariant cannot speak of the row
  alone. The mirror only grows, hence what it once justified it justifies for
  ever: every copy of the row in a handler, every patch, plan and fetch is
  justified by the mirror, or, while its page is still being persisted, by the
  mirror with that page added. The batch counter bounds the chunks that are
  missing or have a job (`CountOK`), so finalize runs only once the page is there.
* The chain: `AliveInv`. While nothing has gone wrong there is no job at all, or
  one job that is not a chunk, or the chunks of one page, as many as the counter
  says; and the plan in hand carries the chain on, ends it in the cursor, or finds
  it at rest.
* The high-water mark: `SyncInv`. The staged page holds, for some instant t, all
  changes between the cursor and t, although the MLS goes on changing listings
  while the page is on its way. A listing changed again after the read has
  a stamp beyond t and is not promised. It needs the page to be the whole
  selection; otherwise the next `$skip` counts from a filter that has moved.
* The selector: `SelectorInv`. Who holds the mutex, and that the open pools are
  the entries' pools except the one being closed, give NoPoolLeak. For the breaker
  the counters are compared with the history of probes, between the two atomic
  stores of a probe too: a concurrent markUnhealthy only raises failures and lowers
  successes, so failures never fall below the run of bad probes and successes never
  exceed the run of good ones.
* The mirror: `MirrorInv`. A row of the mirror has a stamp up to the cursor or that
  of its row in a staged page, also when fetches overlap. While they do not, there
  is one page at a time and its stamps are newer than the cursor; so a repeated
  upsert writes what is there or something newer, and the order is restored once
  the pages of an overlap are gone.
  An id is given to one incarnation of a listing only, so an answer written by id
  is right for the row that has the id, unless it has moved.
* Access: `AccessInv`. Every state in the log, not only the primary's, is sound
  (staging and production rows come in pairs, a hostname has one registration, keys
  are as they were minted, a verified row has had its TXT record), and the history
  of what was made and minted only grows; so a key from one view and a row from
  another still agree on their owner. An invitation a request has read from a
  replica exists on the primary, whose transaction looks at it again.
* Refreshes: `GisInv`. A handler is known by the statements it has left, not by
  the sequence it was built from: its bump comes first, of the statements on a
  layer the pages come first, and what is read is also cleaned up
  (`BoundaryTodo`). Of a clean refresh with generation g on a layer, no row of the
  table is newer than g, the rows of generation g are features of the feed, each
  once (`Owned`), and they include all those before the offset of the page to
  read next, or all of them once no page is left (`Reached`); so the delete of
  older generations leaves the feed. What keeps others away: a boundary job that
  is still clean runs alone (`Alone`); the parcel pages in the queue are all of
  one chain or none is clean (`OneChain`, `ChainOK`); and the generation of a
  kickoff that has not enqueued its first page is on no row, page or other
  kickoff (`Unborn`). A retry takes a new generation, so a half-written page of
  the attempt before it is among what is deleted; a retried parcel page keeps its
  generation and writes the same rows again. The invariant takes feeds, tables,
  generations, queue and handlers as arguments (`Good`), so that each action is
  proved as a composition of small steps: rows change, a handler goes on, a job
  joins, leaves or is relabelled (`TableStep`, `HandlerStep`, `AddStep`,
  `DropStep`, `UncleanStep`, `ReserveStep`).
* Caches: `CacheInv`. A stamp runs ahead of the answer it belongs to by no more
  than the time a request held it, on the primary and on the replica alike, and
  no answer is ahead of the clock (`NoFuture`, part of CacheTypeOK).

Operators with an argument for the state (`CursorOK(M, c)`, `RowsOK(L, nid)`)
occur in the invariants wherever an action's effect is easier to state on the
value than on the primed variable.

### Only model-checked

* Liveness: JobsDrain, BatchSettles, NoStarvation, InitialSyncCompletes,
  OnePageConverges, ShutdownUnlessStuck, ReadsReturnUnlessStuck, ZoneCatchesUp,
  BootstrapCompletes, RetiredKeyRefusedInTheEnd. Fairness and ENABLED are outside
  the prover's reach. The bounds of the safety theorems are what the liveness rests on, though:
  BoundedBypass for NoStarvation, ChainAlive for InitialSyncCompletes.

## 5. Not modelled

Snapshot and metrics, logging, HTTP and SQL text, JSON field mapping, geometry;
LISTEN and NOTIFY (polling subsumes them). Spark's pages run through the Bridge
handlers with `NavHydrate = FALSE`; its own continuation plan has no
configuration. The daily purge of completed staged pages. Dashboard sessions and
the one-time display of keys in them. The limit of connections of a pool, which
dashboard pages that hold one and ask for another could reach
(`handler/dashboard/handler.go:246`). The comparables engine computes with
floating-point numbers, which TLC does not have, and keeps no state but its
cache. Search builds SQL; web pages, monitoring, geocoding, image rewriting and
crypto prices are reads or single calls.

## 6. Plan

Done: the nine models, and the proofs of their safety properties (section 4).

Left, all of it modelling: Spark's continuation plan, the purge of staged pages,
dashboard sessions.
