---------------------------- MODULE SyncPipeline ----------------------------
(***************************************************************************)
(* The MLS replication pipeline of src/internal/service/sync for one       *)
(* dataset: the minute kickoff, the FetchPage, PersistChunk and            *)
(* PersistFinalize handlers, the cursor row (listing_sync_cursors), the    *)
(* staged replica pages and the mirror.  Handlers of different jobs        *)
(* interleave at every statement; ApplyPatch is a read followed by a write *)
(* of the whole row.                                                       *)
(*                                                                         *)
(* The queue is the one of module JobQueue within its lease: a handler     *)
(* that fails, or whose worker dies before the job row is deleted, starts  *)
(* over, until it is given up, and the finalize job of a page follows the  *)
(* last of its chunks (JobQueueProofs!FinalizeWaitsForChunks).  A fault    *)
(* that ends in giving up stands for maxAttempts failures in a row.        *)
(*                                                                         *)
(* Upstream is external: the replication feed has pages 1..NumPages, whose *)
(* next links stand for their numbers, and an incremental or navigation    *)
(* page is full (there is more), partial, or empty.  Rows carry a          *)
(* modification timestamp.                                                 *)
(***************************************************************************)
EXTENDS Naturals, FiniteSets

CONSTANTS
    NumPages,      \* pages of the replication feed
    NumChunks,     \* persist chunks per staged page
    NavHydrate,    \* Bridge with SyncNavHydrateAfterReplication; Spark: FALSE
    EmptyLast,     \* may the last replication page be empty?
    Backlog,       \* may an incremental cycle hold more rows than the skip cap?
    SkipCap,       \* 10000 / top
    MaxChain,      \* SyncMaxChainedFetch, 0 for no cap
    Freshness,     \* ReplicationFreshnessMinutes
    Exhaust,       \* may a job fail maxAttempts times in a row?
    MaxFaults,     \* bound: crashes, failed statements, HTTP errors and 403s
    MaxOverlaps,   \* bound: kickoffs that begin before earlier work is done
    MaxMishaps,    \* bound: both of them together
    NULL

ASSUME PipelineAssumption ==
    /\ {NumPages, NumChunks, SkipCap, Freshness} \subseteq Nat \ {0}
    /\ {MaxChain, MaxFaults, MaxOverlaps, MaxMishaps} \subseteq Nat
    /\ {NavHydrate, EmptyLast, Backlog, Exhaust} \subseteq BOOLEAN
    /\ NULL \notin Nat /\ NULL \notin BOOLEAN

(***************************************************************************)
(* Bounds on jobs and staged pages that never hold up a run: a chain has   *)
(* at most a fetch and its chunks, and every mishap can add one chain.     *)
(***************************************************************************)
Slot == 1..((1 + MaxMishaps) * (NumChunks + 1))
Staged == 1..(1 + MaxMishaps)

Modes == {"replication", "nav_hydrate", "incremental"}

(***************************************************************************)
(* SyncCursor: whether last_modification_timestamp is set, the page that   *)
(* replication_next_url links to (0 for none), replication_in_progress,    *)
(* and the age of last_sync_finished_at.                                   *)
(***************************************************************************)
Age == 0..(Freshness + 1)
Cursor == [mod : BOOLEAN, url : 0..NumPages, inProg : BOOLEAN, fin : Age \cup {NULL}]

(***************************************************************************)
(* CursorPatch: prog is ReplicationInProgress, apply ApplyReplicationState,*)
(* max whether MaxModificationTs is set, finish MarkSyncFinished.          *)
(***************************************************************************)
Patch == [prog : BOOLEAN \cup {NULL}, apply : BOOLEAN, url : 0..NumPages,
          max : BOOLEAN, finish : BOOLEAN]
NoPatch == [prog |-> NULL, apply |-> FALSE, url |-> 0, max |-> FALSE, finish |-> FALSE]

(***************************************************************************)
(* fetchPageArgs (the depth is counted only under a chain cap) and the     *)
(* part of persistFinalizeArgs that continuationPlan decides.  A           *)
(* dispatched incremental fetch is a next fetch with zero arguments.       *)
(***************************************************************************)
Fetch == [mode : Modes, skip : 0..SkipCap, depth : 0..MaxChain]
FirstFetch(m) == [mode |-> m, skip |-> 0, depth |-> 0]
Plan == [patch : Patch, next : Fetch \cup {NULL}]
NoPlan == [patch |-> NoPatch, next |-> NULL]

(***************************************************************************)
(* A replica page is staged while its status is pending or processing (no  *)
(* code tells these apart).  A job is in the queue or in a handler; pc is  *)
(* the handler's next step.                                                *)
(*   args   of a fetch             part   the replication page it got      *)
(*   page   the staged page of a chunk or finalize job (0: none)           *)
(*   plan   what finalize will do                                          *)
(*   snap   the cursor row the handler has read                            *)
(*   patch, after   an ApplyPatch call and the step that follows it        *)
(***************************************************************************)
VARIABLES
    cursor,     \* the listing_sync_cursors row
    staged,     \* active replica_pages: the replication page, 0, or NULL
    mirror,     \* listings: chunks <<part, chunk>>; part 0 for other rows
    jobs,       \* slot -> job, or NULL
    left,       \* staged page -> chunk jobs of its batch still outstanding
    faults,     \* faults so far
    overlaps    \* kickoffs so far that began before earlier work was done

vars == <<cursor, staged, mirror, jobs, left, faults, overlaps>>

Job == [kind : {"kickoff", "fetch", "chunk", "finalize"}, args : Fetch,
        part : 0..NumPages, page : 0..Cardinality(Staged), chunk : 0..NumChunks,
        plan : Plan, patch : Patch, snap : Cursor \cup {NULL},
        pc : {"start", "request", "read", "write", "store", "empty", "batch",
              "unstage", "next"},
        after : {"store", "unstage", "end"}]

\* Nothing that may be missing is the mark of what is missing.
ASSUME NullAssumption == NULL \notin Job \cup Cursor \cup Fetch

NewJob(k) == [kind |-> k, args |-> FirstFetch("incremental"), part |-> 0,
              page |-> 0, chunk |-> 0, plan |-> NoPlan, patch |-> NoPatch, snap |-> NULL,
              pc |-> "start", after |-> "end"]

TypeOK ==
    /\ cursor \in Cursor
    /\ staged \in [Staged -> (0..NumPages) \cup {NULL}]
    /\ mirror \subseteq (0..NumPages) \X (1..NumChunks)
    /\ DOMAIN jobs = Slot /\ \A i \in Slot : jobs[i] = NULL \/ jobs[i] \in Job
    /\ left \in [Staged -> 0..NumChunks]
    /\ faults \in 0..MaxFaults /\ overlaps \in 0..MaxOverlaps

Init ==
    /\ cursor = [mod |-> FALSE, url |-> 0, inProg |-> FALSE, fin |-> NULL]
    /\ staged = [s \in Staged |-> NULL]
    /\ mirror = {}
    /\ jobs = [i \in Slot |-> NULL]
    /\ left = [s \in Staged |-> 0]
    /\ faults = 0 /\ overlaps = 0

Active == {i \in Slot : jobs[i] # NULL}
At(i, step) == i \in Active /\ jobs[i].pc = step

(***************************************************************************)
(* Become replaces a job.  Expand puts n jobs in place of job i, in its    *)
(* and the lowest free slots (slots are interchangeable).                  *)
(***************************************************************************)
Become(i, job) == jobs' = [jobs EXCEPT ![i] = job]
Expand(i, n, new(_)) ==
    LET free == (Slot \ Active) \cup {i}
        rank(j) == Cardinality({x \in free : x <= j})
    IN  /\ n <= Cardinality(free)
        /\ jobs' = [j \in Slot |-> IF j \in free /\ rank(j) <= n THEN new(rank(j))
                                   ELSE IF j = i THEN NULL ELSE jobs[j]]

(***************************************************************************)
(* What may become of a job whose handler fails or whose worker dies: it   *)
(* starts over from its arguments, or it is given up (failed_jobs).  A     *)
(* kickoff comes again in a minute anyway.                                 *)
(***************************************************************************)
Again(j) ==
    [NewJob(j.kind) EXCEPT !.args = j.args, !.chunk = j.chunk,
       !.page = IF j.kind = "fetch" THEN 0 ELSE j.page,
       !.plan = IF j.kind = "fetch" THEN NoPlan ELSE j.plan]
Failed(j) ==
    IF j.kind = "kickoff" THEN {NULL}
    ELSE {Again(j)} \cup (IF Exhaust THEN {NULL} ELSE {})

MayFault ==
    /\ faults < MaxFaults /\ faults + overlaps < MaxMishaps
    /\ faults' = faults + 1

(***************************************************************************)
(* The handler of job i returns nil after its last statement, which        *)
(* enqueued the jobs new(1), ..., new(n).  Its row is deleted, or the      *)
(* worker dies just before that and the job will run once more.            *)
(***************************************************************************)
End(i, n, new(_)) ==
    \/ Expand(i, n, new) /\ UNCHANGED faults
    \/ LET again(k) == IF k > n THEN Again(jobs[i]) ELSE new(k)
       IN  MayFault /\ Expand(i, n + 1, again)
EndWithout(i) == LET none(k) == NULL IN End(i, 0, none)
EndWith(i, job) == LET one(k) == job IN End(i, 1, one)

-----------------------------------------------------------------------------
(* Cursor *)

ReplicationChainActive(c) == c.inProg \/ c.url # 0

HasActivePage == \E s \in Staged : staged[s] # NULL

MirrorSeeded == mirror # {}

mergeCursorPatch(c, p) ==
    [mod    |-> c.mod \/ p.max,
     url    |-> IF p.apply THEN p.url ELSE c.url,
     inProg |-> IF p.prog # NULL THEN p.prog ELSE c.inProg,
     fin    |-> IF p.finish THEN 0 ELSE c.fin]

(***************************************************************************)
(* ApplyPatch: ForDataset, then an UPDATE of every column.                 *)
(***************************************************************************)
PatchRead(i) ==
    /\ At(i, "read")
    /\ jobs' = [jobs EXCEPT ![i].snap = cursor, ![i].pc = "write"]
    /\ UNCHANGED <<cursor, staged, mirror, left, faults, overlaps>>

PatchWrite(i) ==
    /\ At(i, "write")
    /\ cursor' = mergeCursorPatch(jobs[i].snap, jobs[i].patch)
    /\ \/ /\ jobs[i].after # "end"
          /\ jobs' = [jobs EXCEPT ![i].pc = jobs[i].after, ![i].snap = NULL,
                                  ![i].patch = NoPatch]
          /\ UNCHANGED faults
       \/ jobs[i].after = "end" /\ EndWithout(i)
    /\ UNCHANGED <<staged, mirror, left, overlaps>>

-----------------------------------------------------------------------------
(* Kickoff *)

(***************************************************************************)
(* Freshness.IsCurrent and shouldPollIncremental, each with its own        *)
(* comparison of last_sync_finished_at with the clock.                     *)
(***************************************************************************)
IsCurrent(c) ==
    /\ ~HasActivePage /\ ~ReplicationChainActive(c)
    /\ c.mod /\ c.fin # NULL
    /\ c.fin <= Freshness

ShouldPollIncremental(c) ==
    /\ ~ReplicationChainActive(c)
    /\ c.fin = NULL \/ c.fin >= Freshness

(***************************************************************************)
(* dispatchDataset.  The scheduler runs it every minute on any worker: it  *)
(* looks for an active page first, and in a second step reads the cursor   *)
(* and the mirror and enqueues a fetch or nothing.                         *)
(***************************************************************************)
KickoffBegin ==
    /\ ~HasActivePage
    /\ \/ Active = {} /\ UNCHANGED overlaps
       \/ /\ Active # {}
          /\ overlaps < MaxOverlaps /\ faults + overlaps < MaxMishaps
          /\ overlaps' = overlaps + 1
    /\ \E i \in Slot \ Active :
        /\ \A j \in Slot \ Active : i <= j
        /\ Become(i, NewJob("kickoff"))
    /\ UNCHANGED <<cursor, staged, mirror, left, faults>>

RunReplication(c) == ~ReplicationChainActive(c) /\ ~MirrorSeeded
RunIncremental(c) ==
    /\ ~ReplicationChainActive(c) /\ MirrorSeeded
    /\ IsCurrent(c) /\ ShouldPollIncremental(c)

KickoffDecide(i) ==
    /\ At(i, "start") /\ jobs[i].kind = "kickoff"
    /\ \/ /\ RunReplication(cursor)
          /\ Become(i, [NewJob("fetch") EXCEPT !.args = FirstFetch("replication")])
       \/ /\ RunIncremental(cursor)
          /\ Become(i, NewJob("fetch"))
       \/ /\ ~RunReplication(cursor) /\ ~RunIncremental(cursor)
          /\ Become(i, NULL)
    /\ UNCHANGED <<cursor, staged, mirror, left, faults, overlaps>>

-----------------------------------------------------------------------------
(* FetchPage *)

(***************************************************************************)
(* FetchPage up to the page guard: the chain cap, and an incremental fetch *)
(* during replication, end the job.                                        *)
(***************************************************************************)
FetchBegin(i) ==
    /\ At(i, "start") /\ jobs[i].kind = "fetch"
    /\ LET f == jobs[i].args
           capped == MaxChain > 0 /\ f.depth >= MaxChain
           yields == f.mode = "incremental" /\ cursor.inProg
       IN  \/ (capped \/ yields) /\ EndWithout(i)
           \/ /\ ~(capped \/ yields)
              /\ jobs' = [jobs EXCEPT ![i].snap = cursor, ![i].pc = "request"]
              /\ UNCHANGED faults
    /\ UNCHANGED <<cursor, staged, mirror, left, overlaps>>

(***************************************************************************)
(* skipReplicationFetchWhenPageActive                                      *)
(***************************************************************************)
PageGuard(i) == jobs[i].args.mode = "replication" /\ HasActivePage

FetchSkip(i) ==
    /\ At(i, "request") /\ PageGuard(i)
    /\ EndWithout(i)
    /\ UNCHANGED <<cursor, staged, mirror, left, overlaps>>

\* Mutant: a 403 also counts as the end of the sync cycle.
MutantForbiddenFinishes(i) ==
    /\ At(i, "request") /\ ~PageGuard(i)
    /\ MayFault
    /\ jobs' = [jobs EXCEPT ![i].snap = NULL, ![i].pc = "read", ![i].after = "end",
                            ![i].patch = [NoPatch EXCEPT !.apply = TRUE, !.prog = FALSE,
                                                         !.finish = TRUE]]
    /\ UNCHANGED <<cursor, staged, mirror, left, overlaps>>

(***************************************************************************)
(* Upstream says 403: the chain is cut off and its next link forgotten.    *)
(***************************************************************************)
FetchForbidden(i) ==
    /\ At(i, "request") /\ ~PageGuard(i)
    /\ MayFault
    /\ jobs' = [jobs EXCEPT ![i].snap = NULL, ![i].pc = "read", ![i].after = "end",
                            ![i].patch = [NoPatch EXCEPT !.apply = TRUE, !.prog = FALSE]]
    /\ UNCHANGED <<cursor, staged, mirror, left, overlaps>>

\* Mutant: no skip cap.
MutantUncapped(f, p, rows, more) ==
    [patch |-> [NoPatch EXCEPT !.max = rows, !.finish = ~more],
     next  |-> [mode |-> f.mode, skip |-> f.skip + 1, depth |-> 0]]

(***************************************************************************)
(* continuationPlan: the finalize patch and the fetch that follows a page  *)
(* (after the last replication page without nav hydrate, and after the     *)
(* last nav page, the incremental fetch finalize dispatches if the page    *)
(* gave a timestamp).  more is IncrementalHasMore.                         *)
(***************************************************************************)
continuationPlan(f, p, rows, more) ==
    LET complete == p = NumPages
        chain(m, s) == [mode |-> m, skip |-> s,
                        depth |-> IF MaxChain = 0 THEN 0 ELSE f.depth + 1]
        dispatch == IF rows THEN FirstFetch("incremental") ELSE NULL
        page == [NoPatch EXCEPT !.max = rows]
        skip == f.skip + 1
    IN  CASE f.mode = "replication" ->
               [patch |-> [page EXCEPT !.apply = TRUE, !.prog = ~complete,
                                       !.url = IF complete THEN 0 ELSE p + 1],
                next  |-> IF ~complete THEN chain("replication", 0)
                          ELSE IF NavHydrate THEN chain("nav_hydrate", 0)
                          ELSE dispatch]
          [] f.mode = "nav_hydrate" ->
               [patch |-> page,
                next  |-> IF more /\ skip < SkipCap THEN chain("nav_hydrate", skip)
                          ELSE dispatch]
          [] f.mode = "incremental" ->
               [patch |-> [page EXCEPT !.finish = ~more],
                next  |-> IF more /\ skip < SkipCap THEN chain("incremental", skip)
                          ELSE NULL]

\* Mutant: the fetch, not finalize, stores the next link.
MutantFetchAdvances(i) ==
    /\ At(i, "request") /\ ~PageGuard(i)
    /\ jobs[i].args.mode = "replication"
    /\ LET p == IF jobs[i].snap.url # 0 THEN jobs[i].snap.url ELSE 1
           plan == continuationPlan(jobs[i].args, p, TRUE, FALSE)
       IN  jobs' = [jobs EXCEPT
             ![i].snap = NULL, ![i].part = p, ![i].plan = plan, ![i].after = "store",
             ![i].patch = [plan.patch EXCEPT !.prog = TRUE], ![i].pc = "read"]
    /\ UNCHANGED <<cursor, staged, mirror, left, faults, overlaps>>

(***************************************************************************)
(* FetchReplicationPage follows the next link of the row FetchPage read,   *)
(* or starts over.  A page with rows first marks replication in progress.  *)
(***************************************************************************)
FetchReplication(i) ==
    /\ At(i, "request") /\ ~PageGuard(i)
    /\ jobs[i].args.mode = "replication"
    /\ \E rows \in BOOLEAN :
        LET p == IF jobs[i].snap.url # 0 THEN jobs[i].snap.url ELSE 1
        IN  /\ rows \/ (p = NumPages /\ EmptyLast)
            /\ jobs' = [jobs EXCEPT
                 ![i].snap = NULL, ![i].part = p,
                 ![i].plan = continuationPlan(jobs[i].args, p, rows, FALSE),
                 ![i].patch = IF rows THEN [NoPatch EXCEPT !.prog = TRUE] ELSE NoPatch,
                 ![i].after = IF rows THEN "store" ELSE "end",
                 ![i].pc = IF rows THEN "read" ELSE "empty"]
    /\ UNCHANGED <<cursor, staged, mirror, left, faults, overlaps>>

\* Mutant: an empty page ends the job without marking the sync finished.
MutantEmptyUnmarked(i) ==
    /\ At(i, "request") /\ jobs[i].args.mode # "replication"
    /\ \/ EndWithout(i)
       \/ /\ jobs' = [jobs EXCEPT ![i].snap = NULL, ![i].pc = "store",
                        ![i].plan = continuationPlan(jobs[i].args, 0, TRUE, FALSE)]
          /\ UNCHANGED faults
    /\ UNCHANGED <<cursor, staged, mirror, left, overlaps>>

(***************************************************************************)
(* FetchNavHydratePage and FetchIncrementalPage.  An empty page ends the   *)
(* cycle at once; without a timestamp in the cursor no request is made and *)
(* the incremental page counts as empty.                                   *)
(***************************************************************************)
FetchPaged(i) ==
    /\ At(i, "request") /\ jobs[i].args.mode # "replication"
    /\ \E outcome \in {"full", "partial", "empty"} :
        /\ jobs[i].args.mode = "incremental" =>
             /\ ~jobs[i].snap.mod => outcome = "empty"
             /\ outcome = "full" => Backlog \/ jobs[i].args.skip + 1 < SkipCap
        /\ jobs' = IF outcome = "empty"
                   THEN [jobs EXCEPT ![i].snap = NULL, ![i].pc = "read", ![i].after = "end",
                                     ![i].patch = [NoPatch EXCEPT !.finish = TRUE]]
                   ELSE [jobs EXCEPT ![i].snap = NULL, ![i].pc = "store",
                           ![i].plan = continuationPlan(jobs[i].args, 0, TRUE,
                                                        outcome = "full")]
    /\ UNCHANGED <<cursor, staged, mirror, left, faults, overlaps>>

(***************************************************************************)
(* dispatchPersistBatch: an empty page goes straight to finalize; any      *)
(* other is stored and then its chunks are enqueued as a batch.  The       *)
(* identifier of a deleted page is reused only when no job holds it.       *)
(***************************************************************************)
DispatchEmpty(i) ==
    /\ At(i, "empty")
    /\ EndWith(i, [NewJob("finalize") EXCEPT !.plan = jobs[i].plan])
    /\ UNCHANGED <<cursor, staged, mirror, left, overlaps>>

StorePage(i) ==
    /\ At(i, "store")
    /\ LET unused == {s \in Staged : staged[s] = NULL /\ \A j \in Active : jobs[j].page # s}
       IN  \E s \in unused :
        /\ \A t \in unused : s <= t
        /\ staged' = [staged EXCEPT ![s] = jobs[i].part]
        /\ jobs' = [jobs EXCEPT ![i].page = s, ![i].pc = "batch"]
    /\ UNCHANGED <<cursor, mirror, left, faults, overlaps>>

EnqueueBatch(i) ==
    /\ At(i, "batch")
    /\ LET chunk(n) == [NewJob("chunk") EXCEPT !.page = jobs[i].page, !.chunk = n,
                                               !.plan = jobs[i].plan]
       IN  End(i, NumChunks, chunk)
    /\ left' = [left EXCEPT ![jobs[i].page] = NumChunks]
    /\ UNCHANGED <<cursor, staged, mirror, overlaps>>

-----------------------------------------------------------------------------
(* PersistChunk and PersistFinalize *)

(***************************************************************************)
(* PersistChunk: HydrateReplicaBatch upserts the rows of the staged chunk; *)
(* RowsForChunk fails if the page is gone (see Fault).  When the job row   *)
(* of the last chunk of the batch goes, the finalize job comes.            *)
(***************************************************************************)
PersistChunk(i) ==
    /\ At(i, "start") /\ jobs[i].kind = "chunk"
    /\ LET page == jobs[i].page
       IN  /\ staged[page] # NULL
           /\ mirror' = mirror \cup {<<staged[page], jobs[i].chunk>>}
           /\ \/ /\ left' = [left EXCEPT ![page] = @ - 1]
                 /\ Become(i, IF left[page] = 1
                              THEN [NewJob("finalize") EXCEPT !.page = page,
                                                              !.plan = jobs[i].plan]
                              ELSE NULL)
                 /\ UNCHANGED faults
              \/ /\ MayFault
                 /\ \E j \in Failed(jobs[i]) : Become(i, j)
                 /\ UNCHANGED left
    /\ UNCHANGED <<cursor, staged, overlaps>>

(***************************************************************************)
(* PersistFinalize: patch the cursor if there is anything to patch, drop   *)
(* the staged page (errors of MarkCompleted and DeletePage are ignored),   *)
(* enqueue the next fetch.                                                 *)
(***************************************************************************)
FinalizeBegin(i) ==
    /\ At(i, "start") /\ jobs[i].kind = "finalize"
    /\ jobs' = [jobs EXCEPT ![i].patch = jobs[i].plan.patch, ![i].after = "unstage",
                            ![i].pc = IF jobs[i].plan.patch = NoPatch THEN "unstage"
                                      ELSE "read"]
    /\ UNCHANGED <<cursor, staged, mirror, left, faults, overlaps>>

\* Mutant: finalize deletes every staged page of the dataset.
MutantUnstageAll(i) ==
    /\ At(i, "unstage")
    /\ staged' = [s \in Staged |-> NULL]
    /\ jobs' = [jobs EXCEPT ![i].pc = "next"]
    /\ UNCHANGED <<cursor, mirror, left, faults, overlaps>>

\* Mutant: the next fetch is enqueued only when finalize dispatches an incremental one.
MutantNextOnlyIncremental(i) ==
    /\ At(i, "next")
    /\ LET next == jobs[i].plan.next
       IN  IF next # NULL /\ next = FirstFetch("incremental")
           THEN EndWith(i, [NewJob("fetch") EXCEPT !.args = next])
           ELSE EndWithout(i)
    /\ UNCHANGED <<cursor, staged, mirror, left, overlaps>>

FinalizeUnstage(i) ==
    /\ At(i, "unstage")
    /\ \/ /\ staged' = [s \in Staged |-> IF s = jobs[i].page THEN NULL ELSE staged[s]]
          /\ UNCHANGED faults
       \/ jobs[i].page # 0 /\ MayFault /\ UNCHANGED staged
    /\ jobs' = [jobs EXCEPT ![i].pc = "next"]
    /\ UNCHANGED <<cursor, mirror, left, overlaps>>

FinalizeNext(i) ==
    /\ At(i, "next")
    /\ LET next == jobs[i].plan.next
       IN  IF next = NULL THEN EndWithout(i)
           ELSE EndWith(i, [NewJob("fetch") EXCEPT !.args = next])
    /\ UNCHANGED <<cursor, staged, mirror, left, overlaps>>

-----------------------------------------------------------------------------
(* Failures, time *)

(***************************************************************************)
(* A statement of the handler or its HTTP request fails, or the worker     *)
(* dies in the middle.  A chunk that fails half way may have committed     *)
(* some of its rows.                                                       *)
(***************************************************************************)
Fault(i) ==
    /\ i \in Active
    /\ MayFault
    /\ \E j \in Failed(jobs[i]) : Become(i, j)
    /\ mirror' \in {mirror} \cup
                   (IF jobs[i].kind = "chunk" THEN {mirror \cup {<<0, 1>>}} ELSE {})
    /\ UNCHANGED <<cursor, staged, left, overlaps>>

(***************************************************************************)
(* Time passes: last_sync_finished_at gets older, also in rows already     *)
(* read.                                                                   *)
(***************************************************************************)
Older(a) == IF a = NULL \/ a > Freshness THEN a ELSE a + 1

Tick ==
    /\ cursor.fin # NULL /\ cursor.fin <= Freshness
    /\ cursor' = [cursor EXCEPT !.fin = Older(@)]
    /\ jobs' = [i \in Slot |->
                  IF i \in Active /\ jobs[i].snap # NULL
                  THEN [jobs[i] EXCEPT !.snap.fin = Older(@)] ELSE jobs[i]]
    /\ UNCHANGED <<staged, mirror, left, faults, overlaps>>

Step(i) ==
    \/ PatchRead(i) \/ PatchWrite(i)
    \/ KickoffDecide(i)
    \/ FetchBegin(i) \/ FetchSkip(i) \/ FetchReplication(i) \/ FetchPaged(i)
    \/ DispatchEmpty(i) \/ StorePage(i) \/ EnqueueBatch(i)
    \/ PersistChunk(i)
    \/ FinalizeBegin(i) \/ FinalizeUnstage(i) \/ FinalizeNext(i)

Next ==
    \/ KickoffBegin
    \/ \E i \in Slot : Step(i) \/ FetchForbidden(i) \/ Fault(i)
    \/ Tick

(***************************************************************************)
(* The scheduler keeps running kickoffs, some worker keeps running some    *)
(* job, and time passes; FairSpec asks that every job gets its turn, which *)
(* the queue guarantees within its lease (JobQueue!JobsDrain).  Nothing is *)
(* owed about faults.                                                      *)
(***************************************************************************)
Spec ==
    /\ Init /\ [][Next]_vars
    /\ WF_vars(KickoffBegin) /\ WF_vars(Tick)
    /\ WF_vars(\E i \in Slot : Step(i))

FairSpec == Spec /\ \A i \in Slot : WF_vars(Step(i))

-----------------------------------------------------------------------------
(* Properties *)

Mirrored(p) == \A c \in 1..NumChunks : <<p, c>> \in mirror

(***************************************************************************)
(* The next link in the cursor only ever points past pages whose every     *)
(* chunk is in the mirror, so that a chain resumed from the cursor after   *)
(* any crash, retry, stale row write or racing second chain skips no page  *)
(* (finalize, and nothing else, advances replication_next_url).            *)
(***************************************************************************)
CursorCovers == \A p \in 1..NumPages : p < cursor.url => Mirrored(p)

(***************************************************************************)
(* last_sync_finished_at is set only once the whole replication feed has   *)
(* been mirrored (its last page may have come back empty): the mode        *)
(* "steady" is never reported on a partial mirror, whatever failed or was  *)
(* cut off by a 403 on the way.                                            *)
(***************************************************************************)
FinishedMeansMirrored ==
    cursor.fin # NULL =>
        \A p \in 1..NumPages : Mirrored(p) \/ (EmptyLast /\ p = NumPages)

(***************************************************************************)
(* A chunk job always finds its staged page: no finalize, of this chain or *)
(* of another, deletes a page whose chunks are still to be read.           *)
(***************************************************************************)
ChunkHasPage ==
    \A i \in Active : jobs[i].kind = "chunk" => staged[jobs[i].page] # NULL

(***************************************************************************)
(* Kickoff leaves a dataset alone while its chain is active or a page is   *)
(* staged, so some job must then be there to carry it on.  It holds as     *)
(* long as nothing has failed, no kickoffs overlap and no chain cap is set.*)
(***************************************************************************)
ChainActive == ReplicationChainActive(cursor) \/ HasActivePage
ChainAlive == faults = 0 /\ overlaps = 0 /\ ChainActive => Active # {}

(***************************************************************************)
(* That overlapping kickoffs do no harm either (docs: kickoff "must not    *)
(* stack replication fetches").  It does not hold, and no run asserts it:  *)
(* two chains overwrite each other's row-wide ApplyPatch, and a chain can  *)
(* be left active without a job.  See Known limitations in README.md.      *)
(***************************************************************************)
OverlapHarmless == faults = 0 /\ ChainActive => Active # {}

(***************************************************************************)
(* Without faults the first sync comes to an end and is recorded.          *)
(***************************************************************************)
InitialSyncCompletes == [](faults = 0 /\ overlaps = 0) => <>(cursor.fin # NULL)

(***************************************************************************)
(* After every fault, kickoff and retries get the dataset going again:     *)
(* the first sync comes to an end all the same.                            *)
(***************************************************************************)
SyncRecovers == <>(cursor.fin # NULL)

(***************************************************************************)
(* That a mirror whose last sync is older than the freshness window is     *)
(* polled again.  It does not hold, and no run asserts it: polling asks    *)
(* for an age both at most (IsCurrent) and at least the window             *)
(* (shouldPollIncremental).  See Known limitations in README.md.           *)
(***************************************************************************)
SteadyPolls == (cursor.fin # NULL /\ cursor.fin > Freshness) ~> (cursor.fin = 0)
=============================================================================
