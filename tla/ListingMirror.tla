--------------------------- MODULE ListingMirror ---------------------------
(***************************************************************************)
(* The listings table between its three writers: the persist jobs of the   *)
(* MLS feed (internal/service/sync/listing_mirror.go), the daily purge     *)
(* (purge.go), and the FEMA flood enrichment chain                         *)
(* (internal/service/fema, internal/repository/fema).                      *)
(*                                                                         *)
(* A listing is a status, a point and a modification stamp.  Active and    *)
(* Pending are treated alike by all of this code and are one status here.  *)
(* Time is abstracted to the two tests the code makes: a flood stamp       *)
(* expires after FEMA_FLOOD_STALE_DAYS, a row is purged when it was last   *)
(* persisted before the MLS_LOCAL_MIRROR_ROLLING_MONTHS.                   *)
(*                                                                         *)
(* A fetch reads the cursor and asks the MLS, and stores the page in a     *)
(* later step.  Kickoff starts no fetch while a page is staged, and neither *)
(* does a fetch in mode "replication" go on; nothing stops an incremental  *)
(* fetch that the queue runs again.  A job that fails is run again by the  *)
(* queue or given up (JobQueue).  A page whose batch was never enqueued is *)
(* SyncPipeline's subject.                                                 *)
(***************************************************************************)
EXTENDS Integers, Sequences, FiniteSets, FiniteSetsExt, SequencesExt

CONSTANTS
    Keys,           \* listing keys
    Places,         \* points a listing can be at
    NoPlace,        \* latitude and longitude missing
    StartAt,        \* where the MLS has each listing at first
    ZoneAt,         \* NFHL: the flood zone class of each point, or NoZone
    Workers,        \* worker goroutines on the enrichment queue
    RollingWindow,  \* MLS_LOCAL_MIRROR_ROLLING_MONTHS > 0
    UpsertChunk,    \* rows written in one transaction
    BatchSize,      \* FEMA_FLOOD_ENRICH_BATCH_SIZE
    FailThreshold,  \* consecutive failures that open the circuit breaker
    MaxRevisions,   \* bound: changes the MLS makes to its listings
    MaxFetches,     \* bound: fetches and their pages under way
    MaxJobs,        \* bound: enrichment jobs waiting
    MaxFaults       \* bound: failed point queries, transactions, jobs, overlapping fetches

NoZone == "none"
NoRow  == [id |-> 0]
NoJob  == [kind |-> "none"]

(* ComputeLowRiskFloodZoneYN sees a code as one of three classes: with an  *)
(* A or a V in it, without them and with an X (or "no"), neither.          *)
ZoneClasses == {"AE", "X", "D"}
Statuses    == {"active", "unpriced", "closed"}

ASSUME ListingMirrorAssumption ==
    /\ IsFiniteSet(Keys)
    /\ NoPlace \notin Places
    /\ StartAt \in [Keys -> Places]
    /\ ZoneAt \in [Places -> ZoneClasses \cup {NoZone}]
    /\ RollingWindow \in BOOLEAN
    /\ {UpsertChunk, BatchSize, FailThreshold} \subseteq Nat \ {0}
    /\ {MaxRevisions, MaxFetches, MaxJobs, MaxFaults} \subseteq Nat

VARIABLES
    source,     \* the MLS: its listings as they are now
    clock,      \* last modification stamp the MLS gave out
    since,      \* last_modification_timestamp of the sync cursor
    pages,      \* answers of the feed, staged once they are in replica_pages
    overlapped, \* history: of the fetches now under way, one was asked or
                \* repeated before another had stored its page
    listings,   \* the mirror
    nextId,     \* listings.id sequence
    finalizers, \* callers of EnqueueKickoffIfAbsent between look and insert
    jobs,       \* enrichment jobs waiting, oldest first
    work,       \* what each worker is doing
    breaker,    \* circuit breaker of the NFHL client
    faults      \* failures so far

feedVars   == <<source, clock>>
syncVars   == <<since, pages, overlapped, finalizers>>
enrichVars == <<jobs, work, breaker>>
vars == <<feedVars, syncVars, listings, nextId, enrichVars, faults>>

Present(k) == listings[k] # NoRow

Fault == faults < MaxFaults /\ faults' = faults + 1

-----------------------------------------------------------------------------
(* The MLS and its feed. *)

(* The MLS changes the status or the point of a listing. *)
Revise(k) ==
    /\ clock < Cardinality(Keys) + MaxRevisions
    /\ clock' = clock + 1
    /\ \/ \E st \in Statuses \ {source[k].status} :
             source' = [source EXCEPT ![k].status = st, ![k].mod = clock + 1]
       \/ \E at \in (Places \cup {NoPlace}) \ {source[k].at} :
             source' = [source EXCEPT ![k].at = at, ![k].mod = clock + 1]
    /\ UNCHANGED <<syncVars, listings, nextId, enrichVars, faults>>

(* activePendingStatusFilter and BridgeIncrementalFilter: the rows the     *)
(* feed returns, evaluated by the MLS on the status it has now.            *)
ActivePending(r) == r.status \in {"active", "unpriced"}
FeedRows == {source[k] : k \in {x \in Keys : ActivePending(source[x])
                                             /\ source[x].mod > since}}

(* EnqueueKickoffIfAbsent looks for an enrichment job (waiting, or reserved *)
(* within two hours) and then inserts one: two statements.                 *)
HasActiveFloodEnrichJob == jobs # <<>> \/ \E w \in Workers : work[w].job # NoJob
LookForJob == finalizers' = IF HasActiveFloodEnrichJob THEN finalizers ELSE finalizers + 1

(* HasActivePage: a page is pending or processing. *)
MutantNoActivePage ==          \* mutant: a page that is processing does not count
    \A pg \in pages : pg.staged => pg.left # pg.rows

NoActivePage == \A pg \in pages : ~pg.staged

(* The other pages, numbered in the order in which they were asked for. *)
Without(pg) == {[p EXCEPT !.no = IF @ > pg.no THEN @ - 1 ELSE @] : p \in pages \ {pg}}

(* FetchPage up to the answer of the MLS.  Before the first page has given *)
(* the cursor a timestamp the mode is "replication", and a staged page     *)
(* ends the fetch (fetch_guard.go); in mode "incremental" it does not.  An *)
(* empty answer finishes the sync.                                         *)
AskFeed ==
    /\ finalizers = 0 /\ Cardinality(pages) < MaxFetches      \* bounds
    /\ since > 0 \/ NoActivePage
    /\ IF FeedRows = {}
       THEN LookForJob /\ UNCHANGED pages
       ELSE /\ pages' = pages \cup {[no |-> Cardinality(pages) + 1, staged |-> FALSE,
                                      rows |-> FeedRows, left |-> FeedRows]}
            /\ UNCHANGED finalizers
    /\ UNCHANGED <<feedVars, since, listings, nextId, enrichVars>>

(* Kickoff finds no active page and enqueues a fetch; it does not look for *)
(* one that has not yet stored its page.                                   *)
Fetch ==
    /\ NoActivePage
    /\ AskFeed
    /\ IF \E pg \in pages : ~pg.staged
       THEN Fault /\ overlapped' = TRUE
       ELSE UNCHANGED <<faults, overlapped>>

(* The queue runs a fetch again: a statement after StorePage failed, or    *)
(* its reservation expired.                                                *)
RepeatFetch ==
    /\ pages # {}
    /\ Fault
    /\ AskFeed
    /\ overlapped' = TRUE

StorePage(pg) ==
    /\ pg \in pages /\ ~pg.staged
    /\ pages' = (pages \ {pg}) \cup {[pg EXCEPT !.staged = TRUE]}
    /\ UNCHANGED <<feedVars, since, overlapped, finalizers, listings, nextId, enrichVars, faults>>

-----------------------------------------------------------------------------
(* HydrateReplicaBatch. *)

(* BuildListingRecord: what a row asks for.  An Active row without any of  *)
(* its three prices is skipped, a row of another status is deleted.        *)
RowAction(r) == CASE r.status = "active"   -> "upsert"
                  [] r.status = "unpriced" -> "skip"
                  [] OTHER                 -> "delete"

InsertRow(r, id) ==
    [id |-> id, status |-> r.status, at |-> r.at, mod |-> r.mod,
     zone |-> NoZone, low |-> FALSE, stamp |-> "null", moved |-> FALSE]

(* Latitude and longitude follow the feed and coordinates, set or cleared  *)
(* in the same transaction, follow them.  moved is a history variable: the *)
(* point of this row has changed since its insert.                         *)
SetPoint(row, at) == [row EXCEPT !.at = at, !.moved = @ \/ at # row.at]

(* ON CONFLICT DO UPDATE: the flood columns stay as they are. *)
MutantUpdateRow(row, r) ==     \* mutant: the upsert overwrites the FEMA flag
    [SetPoint(row, r.at) EXCEPT !.status = r.status, !.mod = r.mod, !.low = FALSE]

UpdateRow(row, r) ==
    [SetPoint(row, r.at) EXCEPT !.status = r.status, !.mod = r.mod]

Upsert(rows) ==
    LET new  == {r \in rows : ~Present(r.key)}
        before(r) == Cardinality({s \in new : s.mod < r.mod})
        Write(r)  == IF Present(r.key) THEN UpdateRow(listings[r.key], r)
                                       ELSE InsertRow(r, nextId + before(r))
    IN  /\ listings' = [k \in Keys |->
              IF \E r \in rows : r.key = k
              THEN Write(CHOOSE r \in rows : r.key = k) ELSE listings[k]]
        /\ nextId' = nextId + Cardinality(new)

(* One transaction of flush(): the next UpsertChunk rows of the page, in   *)
(* the order the feed returns them.                                        *)
FlushChunk(pg) ==
    /\ pg \in pages /\ pg.staged
    /\ LET todo  == {r \in pg.left : RowAction(r) = "upsert"}
           chunk == {r \in todo : Cardinality({s \in todo : s.mod < r.mod}) < UpsertChunk}
       IN /\ todo # {}
          /\ Upsert(chunk)
          /\ pages' = (pages \ {pg}) \cup {[pg EXCEPT !.left = @ \ chunk]}
    /\ UNCHANGED <<feedVars, since, overlapped, finalizers, enrichVars, faults>>

(* flushDeletes after the last flush, then the batch's finalize job moves  *)
(* the cursor, drops the page and turns to EnqueueKickoffIfAbsent.         *)
FinishPage(pg) ==
    /\ pg \in pages /\ pg.staged
    /\ \A r \in pg.left : RowAction(r) # "upsert"
    /\ listings' = [k \in Keys |->
          IF \E r \in pg.rows : r.key = k /\ RowAction(r) = "delete"
          THEN NoRow ELSE listings[k]]
    /\ since' = Max({since} \cup {r.mod : r \in pg.rows})
    /\ pages' = Without(pg)
    /\ overlapped' = (overlapped /\ pages' # {})
    /\ LookForJob
    /\ UNCHANGED <<feedVars, nextId, enrichVars, faults>>

(* The persist job fails or its worker dies: it is run again, whole.  The  *)
(* worker of a fetch dies before StorePage: the answer is gone.            *)
FailPage(pg) ==
    /\ pg \in pages
    /\ Fault
    /\ \/ ~pg.staged /\ pages' = Without(pg)
       \/ /\ pg.staged /\ pg.left # pg.rows
          /\ pages' = (pages \ {pg}) \cup {[pg EXCEPT !.left = pg.rows]}
    /\ overlapped' = (overlapped /\ pages' # {})
    /\ UNCHANGED <<feedVars, since, finalizers, listings, nextId, enrichVars>>

-----------------------------------------------------------------------------
(* PurgeClosed.Run: closed rows and, with a rolling window, the rows S     *)
(* that were last persisted before it.  There is no clock in the model:    *)
(* months may pass between any two steps.                                  *)
PurgeClosed(S) ==
    /\ S \subseteq {k \in Keys : Present(k) /\ RollingWindow}
    /\ listings' = [k \in Keys |->
          IF k \in S \/ (Present(k) /\ listings[k].status = "closed")
          THEN NoRow ELSE listings[k]]
    /\ UNCHANGED <<feedVars, syncVars, nextId, enrichVars, faults>>

(* FEMA_FLOOD_STALE_DAYS pass. *)
ExpireStamp(k) ==
    /\ Present(k) /\ listings[k].stamp = "fresh"
    /\ listings' = [listings EXCEPT ![k].stamp = "expired"]
    /\ UNCHANGED <<feedVars, syncVars, nextId, enrichVars, faults>>

-----------------------------------------------------------------------------
(* Who starts an enrichment chain. *)

KickoffJob            == [kind |-> "kickoff"]
BatchJob(cursor, lim) == [kind |-> "batch", cursor |-> cursor, limit |-> lim]
Room == Len(jobs) < MaxJobs

EnqueueKickoff ==
    /\ finalizers > 0
    /\ finalizers' = finalizers - 1
    /\ jobs' = IF Room THEN Append(jobs, KickoffJob) ELSE jobs
    /\ UNCHANGED <<feedVars, since, pages, overlapped, listings, nextId, work, breaker, faults>>

(* The scheduler's 04:30 cron enqueues without looking. *)
CronKickoff ==
    /\ Room
    /\ jobs' = Append(jobs, KickoffJob)
    /\ UNCHANGED <<feedVars, syncVars, listings, nextId, work, breaker, faults>>

(* POST /api/v1/admin/flood-enrich with a limit: a batch, no look either.  *)
(* Without a limit it is the look and the insert of EnqueueKickoffIfAbsent *)
(* that follow an empty Fetch.                                             *)
AdminEnrich ==
    /\ Room
    /\ \E lim \in 1 .. BatchSize : jobs' = Append(jobs, BatchJob(0, lim))
    /\ UNCHANGED <<feedVars, syncVars, listings, nextId, work, breaker, faults>>

-----------------------------------------------------------------------------
(* The enrichment jobs. *)

MutantStaleNull(row) ==        \* mutant: only rows never enriched are stale
    row # NoRow /\ row.at # NoPlace /\ row.stamp = "null"
MutantStaleAnywhere(row) ==    \* mutant: rows without a point are selected
    row # NoRow /\ row.stamp \in {"null", "expired"}

Stale(row) == row # NoRow /\ row.at # NoPlace /\ row.stamp \in {"null", "expired"}
StaleKeys  == {k \in Keys : Stale(listings[k])}

Idle == [job |-> NoJob, phase |-> "idle", rows |-> {}, todo |-> {},
         flight |-> {}, got |-> {}]

(* SelectStaleForEnrichment: the first limit stale rows after the cursor,  *)
(* with the points they have now.                                          *)
SelectStale(cursor, limit) ==
    LET after == {[id |-> listings[k].id, at |-> listings[k].at] :
                     k \in {x \in StaleKeys : listings[x].id > cursor}}
    IN  {r \in after : Cardinality({s \in after : s.id < r.id}) < limit}

(* Kickoff counts the stale rows and enqueues the first batch. *)
Kickoff(w) ==
    /\ work[w] = Idle /\ jobs # <<>> /\ Head(jobs) = KickoffJob
    /\ jobs' = IF StaleKeys = {} THEN Tail(jobs)
               ELSE Append(Tail(jobs), BatchJob(0, BatchSize))
    /\ UNCHANGED <<feedVars, syncVars, listings, nextId, work, breaker, faults>>

(* RunBatch up to its point queries; an empty selection ends the chain.    *)
StartBatch(w) ==
    /\ work[w] = Idle /\ jobs # <<>> /\ Head(jobs).kind = "batch"
    /\ LET rows == SelectStale(Head(jobs).cursor, Head(jobs).limit) IN
       work' = [work EXCEPT ![w] =
                  IF rows = {} THEN Idle
                  ELSE [job |-> Head(jobs), phase |-> "query", rows |-> rows,
                        todo |-> rows, flight |-> {}, got |-> {}]]
    /\ jobs' = Tail(jobs)
    /\ UNCHANGED <<feedVars, syncVars, listings, nextId, breaker, faults>>

(* circuitBreaker.allow, for a goroutine's QueryPoint: a lapsed breaker is *)
(* closed and lets everyone through, an open one fails the point at once.  *)
Allow(b) == IF b.state = "lapsed" THEN [fails |-> 0, state |-> "closed"] ELSE b

StartQuery(w, r) ==
    /\ r \in work[w].todo
    /\ breaker' = Allow(breaker)
    /\ work' = [work EXCEPT ![w].todo = @ \ {r},
                            ![w].flight = IF breaker'.state = "closed"
                                          THEN @ \cup {r} ELSE @]
    /\ UNCHANGED <<feedVars, syncVars, listings, nextId, jobs, faults>>

(* QueryPoint answers within its four attempts: recordSuccess, and an      *)
(* update built from the point that was selected.                          *)
QueryAnswers(w, r) ==
    /\ r \in work[w].flight
    /\ breaker' = [fails |-> 0, state |-> "closed"]
    /\ work' = [work EXCEPT ![w].flight = @ \ {r},
                            ![w].got = @ \cup {[id |-> r.id, zone |-> ZoneAt[r.at]]}]
    /\ UNCHANGED <<feedVars, syncVars, listings, nextId, jobs, faults>>

(* QueryPoint gives up: recordFailure, and the listing is left out. *)
RecordFailure(b) ==
    [fails |-> b.fails + 1,
     state |-> IF b.fails + 1 >= FailThreshold THEN "open" ELSE b.state]

QueryFails(w, r) ==
    /\ r \in work[w].flight
    /\ Fault
    /\ breaker' = RecordFailure(breaker)
    /\ work' = [work EXCEPT ![w].flight = @ \ {r}]
    /\ UNCHANGED <<feedVars, syncVars, listings, nextId, jobs>>

(* Thirty seconds pass. *)
BreakerLapses ==
    /\ breaker.state = "open"
    /\ breaker' = [breaker EXCEPT !.state = "lapsed"]
    /\ UNCHANGED <<feedVars, syncVars, listings, nextId, jobs, work, faults>>

(* BatchUpdateFEMA, one transaction: each update goes to the row that has  *)
(* its id, whatever point that row is at by now.                           *)
ComputeLowRisk(zone) == zone = "X"

SetZone(row, zone) ==
    [row EXCEPT !.zone = zone, !.low = ComputeLowRisk(zone), !.stamp = "fresh"]

ApplyUpdates(got) ==
    [k \in Keys |->
        IF Present(k) /\ \E u \in got : u.id = listings[k].id
        THEN SetZone(listings[k], (CHOOSE u \in got : u.id = listings[k].id).zone)
        ELSE listings[k]]

CommitBatch(w) ==
    /\ work[w].phase = "query" /\ work[w].todo = {} /\ work[w].flight = {}
    /\ listings' = ApplyUpdates(work[w].got)
    /\ work' = [work EXCEPT ![w].phase = "chain", ![w].got = {}]
    /\ UNCHANGED <<feedVars, syncVars, nextId, jobs, breaker, faults>>

(* A full batch enqueues the next one from its last id. *)
ChainBatch(w) ==
    /\ work[w].phase = "chain"
    /\ LET job  == work[w].job
           rows == work[w].rows
       IN jobs' = IF Cardinality(rows) = job.limit
                  THEN Append(jobs, BatchJob(Max({r.id : r \in rows}), job.limit))
                  ELSE jobs
    /\ work' = [work EXCEPT ![w] = Idle]
    /\ UNCHANGED <<feedVars, syncVars, listings, nextId, breaker, faults>>

(* A statement of RunBatch fails or its worker dies: the queue runs the    *)
(* job again, or has run it often enough and gives it up.                  *)
FailBatch(w) ==
    /\ work[w].job # NoJob
    /\ Fault
    /\ jobs' \in {jobs, Append(jobs, work[w].job)}
    /\ work' = [work EXCEPT ![w] = Idle]
    /\ UNCHANGED <<feedVars, syncVars, listings, nextId, breaker>>

-----------------------------------------------------------------------------
(* The order in which the MLS stamped the listings it starts with. *)
KeyRank == CHOOSE f \in [Keys -> 1 .. Cardinality(Keys)] : IsInjective(f)

Init ==
    /\ source = [k \in Keys |-> [key |-> k, status |-> "active", at |-> StartAt[k],
                                 mod |-> KeyRank[k]]]
    /\ clock = Cardinality(Keys)
    /\ since = 0
    /\ pages = {}
    /\ overlapped = FALSE
    /\ finalizers = 0
    /\ listings = [k \in Keys |-> NoRow]
    /\ nextId = 1
    /\ jobs = <<>>
    /\ work = [w \in Workers |-> Idle]
    /\ breaker = [fails |-> 0, state |-> "closed"]
    /\ faults = 0

Query(w) == \E r \in work[w].todo \cup work[w].flight :
                StartQuery(w, r) \/ QueryAnswers(w, r) \/ QueryFails(w, r)

Next ==
    \/ \E k \in Keys : Revise(k) \/ ExpireStamp(k)
    \/ Fetch \/ RepeatFetch
    \/ \E pg \in pages : StorePage(pg) \/ FlushChunk(pg) \/ FinishPage(pg) \/ FailPage(pg)
    \/ \E S \in SUBSET Keys : Cardinality(S) <= 1 /\ PurgeClosed(S)
    \/ EnqueueKickoff \/ CronKickoff \/ AdminEnrich
    \/ BreakerLapses
    \/ \E w \in Workers : \/ Kickoff(w) \/ StartBatch(w) \/ Query(w)
                           \/ CommitBatch(w) \/ ChainBatch(w) \/ FailBatch(w)

(* The scheduler keeps polling, purging and kicking off, a live worker     *)
(* keeps taking steps, and time passes.  The MLS owes nothing.             *)
Fairness ==
    /\ WF_vars(Fetch) /\ WF_vars(EnqueueKickoff)
    /\ WF_vars(\E pg \in pages : StorePage(pg) \/ FlushChunk(pg) \/ FinishPage(pg))
    /\ WF_vars(PurgeClosed({})) /\ WF_vars(CronKickoff) /\ WF_vars(BreakerLapses)
    /\ \A k \in Keys : WF_vars(ExpireStamp(k))
    /\ \A w \in Workers : WF_vars(\/ Kickoff(w) \/ StartBatch(w) \/ Query(w)
                                   \/ CommitBatch(w) \/ ChainBatch(w))

Spec == Init /\ [][Next]_vars /\ Fairness

-----------------------------------------------------------------------------
SourceRow == [key : Keys, status : Statuses, at : Places \cup {NoPlace}, mod : Nat]
Row == [id : Nat \ {0}, status : {"active"}, at : Places \cup {NoPlace}, mod : Nat,
        zone : ZoneClasses \cup {NoZone}, low : BOOLEAN,
        stamp : {"null", "fresh", "expired"}, moved : BOOLEAN]
PointRow == [id : Nat, at : Places]

(* The state has the shape the code gives it; in particular the mirror     *)
(* holds only Active and Pending rows with distinct ids, and a selected    *)
(* row has a point to ask the NFHL about.                                  *)
TypeOK ==
    /\ source \in [Keys -> SourceRow]
    /\ clock \in Nat /\ since \in 0 .. clock /\ nextId \in Nat
    /\ \A pg \in pages : pg.rows \subseteq SourceRow /\ pg.left \subseteq pg.rows
    /\ \A k \in Keys : Present(k) => listings[k] \in Row /\ listings[k].id < nextId
    /\ \A j, k \in Keys : Present(j) /\ listings[j].id = listings[k].id => j = k
    /\ finalizers \in Nat
    /\ \A w \in Workers : work[w].rows \subseteq PointRow
    /\ breaker.fails \in 0 .. MaxFaults
    /\ faults \in 0 .. MaxFaults

(* However chains overlap, are retried or lag behind the feed, a row whose *)
(* point has not changed since its insert carries no zone but its own      *)
(* point's, and the low-risk flag is always that of the stored FEMA zone:  *)
(* a listing that was purged and came back is not given the answer of a    *)
(* query made for its predecessor (BatchUpdateFEMA goes by id), and an     *)
(* upsert never disturbs what the enrichment wrote.                        *)
ZoneOfOwnPoint ==
    \A k \in Keys : Present(k) =>
        LET row == listings[k] IN
        /\ row.low = ComputeLowRisk(row.zone)
        /\ (~row.moved /\ row.stamp # "null") => row.zone = ZoneAt[row.at]

(* The upsert has no guard on the modification timestamp.  As long as the  *)
(* fetches under way come one after the other (the queue has run none of   *)
(* them again, and kickoff started none before the last had stored its     *)
(* page), kickoff's look for a staged page is enough: failed and repeated  *)
(* persist jobs included, a row of the mirror never goes back in time.     *)
(* What an earlier overlap has left behind does no harm once its pages     *)
(* are gone.                                                               *)
NoRegress ==
    [][~overlapped => \A k \in Keys :
          Present(k) /\ Present(k)' => listings'[k].mod >= listings[k].mod]_vars

(* A dataset has one staged page at a time ("Active replica pages (expect  *)
(* <=1 pending/processing per provider+dataset)", deployment-operations).  *)
(* Overlapping fetches break this, and the older page may then be written  *)
(* after the newer one.  No run checks it.                                 *)
OneActivePage == Cardinality({pg \in pages : pg.staged}) <= 1

(* Since the MLS changes a listing finitely often, again and again every   *)
(* listing of the mirror that has a point carries the zone of that point:  *)
(* also when it moved after a batch had selected it, when its query or its *)
(* batch failed, or when the breaker was open.  Its stamp expires and the  *)
(* daily chain comes back to it.                                           *)
ZoneRight(row)  == row = NoRow \/ row.at = NoPlace \/ row.zone = ZoneAt[row.at]
ZoneCatchesUp == \A k \in Keys : []<>ZoneRight(listings[k])

(* A listing that has left the market leaves the mirror ("Active, Pending" *)
(* are "In mirror", "Closed" is "Not in mirror").  The code does not keep  *)
(* this promise, and no run checks it.                                     *)
ClosedLeaves ==
    \A k \in Keys : source[k].status = "closed" ~>
        (~Present(k) \/ source[k].status # "closed")
=============================================================================
