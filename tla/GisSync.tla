------------------------------ MODULE GisSync ------------------------------
(***************************************************************************)
(* The persistent GIS layers: who refreshes them and how.                  *)
(*                                                                         *)
(* Schedulers elect a leader with an advisory lock; the leader enqueues    *)
(* cron refreshes and, whenever a layer is empty, the bootstrap jobs.      *)
(* Workers run the jobs: boundary jobs read the counties, cities and zips  *)
(* of the FDOT service page by page inside one handler, parcel jobs chain  *)
(* one job per page.  Every refresh stamps its rows with a generation and  *)
(* ends by deleting the rows of earlier generations.                       *)
(*                                                                         *)
(* A handler is its sequence of database statements (todo); two handlers   *)
(* interleave between statements, a statement may fail, and a failed job   *)
(* is run again from its start until its tries are used up.                *)
(***************************************************************************)
EXTENDS Naturals, FiniteSets, Sequences, SequencesExt

CONSTANTS
    Workers, Schedulers,
    InitialFeed,   \* layer -> the upstream features, in the order of its pages
    Home,          \* city -> the county it overlaps most
    Pilot,         \* the parcels whose CO_NO names an MLS pilot county
    Malformed,     \* features without a geometry or without an identifier
    PageSize,      \* GIS_SYNC_PAGE_SIZE
    ServerCap,     \* the upstream's own limit on the features of an answer
    MaxTries,      \* attempts of a job
    MaxJobs,       \* bound: jobs in the queue when cron or an operator adds one
    MaxPending,    \* bound: jobs a bootstrap check may find in the queue
    MaxGen,        \* bound: generation of a source
    MaxEvents,     \* bound: failures, outages, refreshes, probes, upstream changes
    MaxFaults      \* bound: the failures and outages among them

Boundaries == {"counties", "cities", "zips"}
Layers == Boundaries \cup {"parcels"}
Sources == {"fdot", "parcels"}
SourceOf(l) == IF l = "parcels" THEN "parcels" ELSE "fdot"
BoundaryKinds == {"initial", "annual", "zip"}
Kinds == BoundaryKinds \cup {"parcels", "page"}
Null == "null"

\* A page shorter than was asked for makes the next offset skip features.
ASSUME PagesAssumption ==
    PageSize \in Nat \ {0} /\ ServerCap \in Nat /\ ServerCap >= PageSize

Names == UNION {ToSet(InitialFeed[l]) : l \in Layers}

\* The upstream lists a feature of a layer once; of a city listed twice the set
\* of rows would hold one row where the table has two.
ASSUME GisAssumption ==
    /\ InitialFeed \in [Layers -> Seq(Names)]
    /\ \A l \in Layers : \A i, k \in DOMAIN InitialFeed[l] :
          InitialFeed[l][i] = InitialFeed[l][k] => i = k
    /\ Schedulers # {}
    /\ MaxTries \in Nat \ {0} /\ {MaxGen, MaxEvents, MaxFaults} \subseteq Nat

VARIABLES
    feed,   \* layer -> what the upstream service lists now
    rows,   \* layer -> the rows of its table
    gen,    \* source -> gis_source_states.generation
    jobs,   \* rows of the GIS queue
    run,    \* worker -> the handler it is in
    sched,  \* scheduler -> standby or leader
    lock,   \* the scheduler whose session holds the advisory lock
    events, \* how many events the environment has caused
    faults  \* how many of them were failures or outages

vars == <<feed, rows, gen, jobs, run, sched, lock, events, faults>>

Row == [name : Names, county : Names \cup {Null}, gen : 1..MaxGen]
Step(op, l, n) == [op |-> op, layer |-> l, off |-> n]
Id == Kinds \X Nat
Idle == [job |-> <<>>, gen |-> 0, todo |-> <<>>]
Job(id) == CHOOSE j \in jobs : j.id = id
Busy(w) == run[w].job # <<>>

TypeOK ==
    /\ feed \in [Layers -> Seq(Names)]
    /\ DOMAIN rows = Layers /\ \A l \in Layers : rows[l] \subseteq Row
    /\ gen \in [Sources -> 0..MaxGen]
    /\ jobs \subseteq [id : Id, kind : Kinds, gen : 0..MaxGen,
                       off : Nat, tries : 0..MaxTries, clean : BOOLEAN]
    /\ \A w \in Workers :
          /\ run[w].gen \in 0..MaxGen
          /\ Busy(w) => \E j \in jobs : j.id = run[w].job
    /\ \A v, w \in Workers : v # w /\ Busy(v) => run[v].job # run[w].job
    /\ sched \in [Schedulers -> {"standby", "leader"}]
    /\ lock \in Schedulers \cup {Null}
    /\ events \in 0..MaxEvents /\ faults \in 0..MaxFaults

Init ==
    /\ feed = InitialFeed
    /\ rows = [l \in Layers |-> {}]
    /\ gen = [s \in Sources |-> 0]
    /\ jobs = {}
    /\ run = [w \in Workers |-> Idle]
    /\ lock = CHOOSE s \in Schedulers : TRUE   \* any of them, they are alike
    /\ sched = [s \in Schedulers |-> IF s = lock THEN "leader" ELSE "standby"]
    /\ events = 0 /\ faults = 0

Event == events < MaxEvents /\ events' = events + 1 /\ UNCHANGED faults
Failure ==
    /\ events < MaxEvents /\ events' = events + 1
    /\ faults < MaxFaults /\ faults' = faults + 1

---------------------------------------------------------------------------
(* The queue.                                                              *)

\* The row that enqueueing a job of kind k adds.
NewRow(k) ==
    LET n == CHOOSE n \in 1..(Cardinality(jobs) + 1) : \A j \in jobs : j.id # <<k, n>>
    IN [id |-> <<k, n>>, kind |-> k, gen |-> 0, off |-> 0, tries |-> 0, clean |-> TRUE]

NewRows(kinds) == {NewRow(k) : k \in kinds}

\* HasActiveParcelSyncJob: a page waits or is being worked on (CheckActive says
\* what the query may miss).
ActivePage == \E j \in jobs : j.kind = "page"

MutantFailed(id) ==
    IF Job(id).tries <= MaxTries THEN jobs ELSE jobs \ {Job(id)}

\* A failed job goes back to the queue, or to failed_jobs after its last try.
Failed(id) ==
    IF Job(id).tries < MaxTries THEN jobs ELSE jobs \ {Job(id)}

---------------------------------------------------------------------------
(* The upstream and the tables.                                            *)

\* FetchLayerPage, FetchParcelPage, ParseFeatureCollection.
Page(l, off) ==
    SubSeq(feed[l], off + 1, Min({off + PageSize, off + ServerCap, Len(feed[l])}))

\* A full page, or exceededTransferLimit: there is another page.
More(l, off) == Len(Page(l, off)) >= PageSize \/ Len(feed[l]) > off + Len(Page(l, off))

IsMLSPilotCounty(p) == p \in Pilot

\* The features that become rows: one without geometry or identifier is
\* skipped, and so is a statewide parcel outside the pilot counties.
Kept(l, names) == {n \in names \ Malformed : l = "parcels" => IsMLSPilotCounty(n)}

Stamped(names, g) == {[name |-> n, county |-> Null, gen |-> g] : n \in names}

\* Counties, zips and parcels conflict on their name: the row is replaced,
\* whatever its generation.
UpsertByName(l, names, g) == {r \in rows[l] : r.name \notin names} \cup Stamped(names, g)

\* Cities conflict on (city_name, county), and their feed has no county: NULL
\* conflicts with nothing, so that the row is added.
UpsertCities(names, g) == rows["cities"] \cup Stamped(names, g)

Upsert(l, names, g) ==
    IF l = "cities" THEN UpsertCities(names, g) ELSE UpsertByName(l, names, g)

MutantDeleteStale(l, g) == {r \in rows[l] : r.gen > g}
DeleteStale(l, g) == {r \in rows[l] : r.gen >= g}

\* The cities a spatial join gives a county of their own generation, and the
\* table after the update; UNIQUE (city_name, county) refuses the statement
\* when another row already has the pair.
Joined(cs) ==
    {c \in cs : \E co \in rows["counties"] : co.name = Home[c.name] /\ co.gen = c.gen}
Collides(cs) ==
    \E c \in Joined(cs), r \in rows["cities"] :
        r # c /\ r.name = c.name /\ (r.county = Home[c.name] \/ r \in Joined(cs))
Backfill(cs) ==
    (rows["cities"] \ Joined(cs)) \cup {[c EXCEPT !.county = Home[c.name]] : c \in Joined(cs)}

BackfillCityCounties(g) == {c \in rows["cities"] : c.gen = g}
BackfillMissingCityCounties == {c \in rows["cities"] : c.county = Null}

---------------------------------------------------------------------------
(* The handlers, as the statements they run.                               *)

Refresh(l) == <<Step("page", l, 0), Step("stale", l, 0)>>

runFullBoundarySync ==
    <<Step("bump", "zips", 0), Step("page", "counties", 0), Step("page", "cities", 0),
      Step("backfill", "cities", 0), Step("page", "zips", 0),
      Step("stale", "cities", 0), Step("stale", "counties", 0), Step("stale", "zips", 0)>>

RunZipSync == <<Step("bump", "zips", 0)>> \o Refresh("zips")

RunGapFill ==
    LET empty == {l \in Boundaries : rows[l] = {}}
        If(l, s) == IF l \in empty THEN s ELSE <<>>
    IN (IF empty = {} THEN <<>> ELSE <<Step("bump", "zips", 0)>>)
       \o If("counties", Refresh("counties"))
       \o If("cities", <<Step("page", "cities", 0), Step("backfill", "cities", 0),
                         Step("stale", "cities", 0)>>)
       \o If("zips", Refresh("zips"))
       \o <<Step("missing", "cities", 0)>>

RunBootstrapBoundaries ==
    IF \A l \in Boundaries : rows[l] = {} THEN runFullBoundarySync ELSE RunGapFill

InitialSync == RunBootstrapBoundaries \o <<Step("initial", "parcels", 0)>>

Kickoff == <<Step("check", "parcels", 0), Step("bump", "parcels", 0), Step("kick", "parcels", 0)>>

Plan(j) ==
    CASE j.kind = "initial" -> InitialSync
      [] j.kind = "annual"  -> runFullBoundarySync
      [] j.kind = "zip"     -> RunZipSync
      [] j.kind = "parcels" -> Kickoff
      [] j.kind = "page"    -> <<Step("page", "parcels", j.off)>>

Others(w) == {run[v].job : v \in {v \in Workers \ {w} : Busy(v)}}

\* An idle worker, any of them, reserves a job.  clean records whether the
\* refresh has had its tables to itself: a boundary handler loses it, and takes
\* it from the others, when two of them run at once.
Start == \E j \in jobs :
    LET w == CHOOSE w \in Workers : ~Busy(w)
        inFlight == {i \in jobs : i.id \in Others(w) /\ i.kind \in BoundaryKinds}
        meets == j.kind \in BoundaryKinds /\ inFlight # {}
    IN /\ \E v \in Workers : ~Busy(v)
       /\ j.id \notin Others(w)
       /\ jobs' = {IF i = j THEN [j EXCEPT !.tries = @ + 1, !.clean = @ /\ ~meets]
                   ELSE IF meets /\ i \in inFlight THEN [i EXCEPT !.clean = FALSE]
                   ELSE i : i \in jobs}
       /\ run' = [run EXCEPT ![w] = [job |-> j.id, gen |-> j.gen, todo |-> Plan(j)]]
       /\ UNCHANGED <<feed, rows, gen, sched, lock, events, faults>>

Doing(w, op) == Busy(w) /\ run[w].todo # <<>> /\ Head(run[w].todo).op = op
Now(w) == Head(run[w].todo)
Go(w, steps) == run' = [run EXCEPT ![w].todo = steps]
Then(w) == Tail(run[w].todo)

\* BumpSourceGeneration.
Bump(w) ==
    LET s == SourceOf(Now(w).layer) IN
    /\ Doing(w, "bump") /\ gen[s] < MaxGen
    /\ gen' = [gen EXCEPT ![s] = @ + 1]
    /\ run' = [run EXCEPT ![w].gen = gen[s] + 1, ![w].todo = Then(w)]
    /\ UNCHANGED <<feed, rows, jobs, sched, lock, events, faults>>

\* syncLayer and SyncPage: fetch a page, upsert it, go on to the next one.
SyncPage(w) ==
    LET l == Now(w).layer
        off == Now(w).off
        next == Step(IF l = "parcels" THEN "next" ELSE "page", l, off + PageSize)
        last == IF l = "parcels" THEN <<Step("stale", l, 0)>> ELSE <<>>
    IN /\ Doing(w, "page")
       /\ ~(l = "parcels" /\ off = 0 /\ Page(l, 0) = <<>>)
       /\ rows' = [rows EXCEPT ![l] = Upsert(l, Kept(l, ToSet(Page(l, off))), run[w].gen)]
       /\ Go(w, (IF More(l, off) THEN <<next>> ELSE last) \o Then(w))
       /\ UNCHANGED <<feed, gen, jobs, sched, lock, events, faults>>

\* A kickoff may enqueue its first page long after it took its generation: by
\* then the chain of a later one may have come and gone.
Newest(g) == \A r \in rows["parcels"] : r.gen <= g

\* enqueuePage: the first page of a kickoff, or the page after this one.
EnqueuePage(w) ==
    LET first == Doing(w, "kick")
        page == [NewRow("page") EXCEPT
                    !.gen = run[w].gen, !.off = Now(w).off,
                    !.clean = IF first THEN ~ActivePage /\ Newest(run[w].gen)
                              ELSE Job(run[w].job).clean]
    IN /\ first \/ Doing(w, "next")
       /\ jobs' = {IF first /\ j.kind = "page" THEN [j EXCEPT !.clean = FALSE] ELSE j : j \in jobs}
                      \cup {page}
       /\ Go(w, Then(w))
       /\ UNCHANGED <<feed, rows, gen, sched, lock, events, faults>>

\* kickoff skips a source that has an active page job.  The query leaves out a
\* page reserved for more than two hours, and one a lagging replica does not
\* show yet: such a page is overlooked.
CheckActive(w) ==
    /\ Doing(w, "check")
    /\ \/ Go(w, IF ActivePage THEN <<>> ELSE Then(w)) /\ UNCHANGED <<events, faults>>
       \/ ActivePage /\ Event /\ Go(w, Then(w))
    /\ UNCHANGED <<feed, rows, gen, jobs, sched, lock>>

\* DeleteStaleParcels, DeleteStaleCities, DeleteStaleCounties, DeleteStaleZips.
Stale(w) ==
    /\ Doing(w, "stale")
    /\ rows' = [rows EXCEPT ![Now(w).layer] = DeleteStale(Now(w).layer, run[w].gen)]
    /\ Go(w, Then(w))
    /\ UNCHANGED <<feed, gen, jobs, sched, lock, events, faults>>

Target(w) ==
    IF Doing(w, "backfill") THEN BackfillCityCounties(run[w].gen) ELSE BackfillMissingCityCounties

AssignCounties(w) ==
    /\ Doing(w, "backfill") \/ Doing(w, "missing")
    /\ ~Collides(Target(w))
    /\ rows' = [rows EXCEPT !["cities"] = Backfill(Target(w))]
    /\ Go(w, Then(w))
    /\ UNCHANGED <<feed, gen, jobs, sched, lock, events, faults>>

\* ParcelSyncService.RunInitialSync: a kickoff unless there are parcels.
RunInitialSync(w) ==
    /\ Doing(w, "initial")
    /\ Go(w, IF rows["parcels"] = {} THEN Kickoff ELSE <<>>)
    /\ UNCHANGED <<feed, rows, gen, jobs, sched, lock, events, faults>>

\* The worker deletes the job of a handler that returned.
Finish(w) ==
    /\ Busy(w) /\ run[w].todo = <<>>
    /\ jobs' = jobs \ {Job(run[w].job)}
    /\ run' = [run EXCEPT ![w] = Idle]
    /\ UNCHANGED <<feed, rows, gen, sched, lock, events, faults>>

GiveUp(w) ==
    /\ jobs' = Failed(run[w].job)
    /\ run' = [run EXCEPT ![w] = Idle]

\* A statement that fails every time: the city's pair exists already, or the
\* first page of the parcels is empty.
Abort(w) ==
    /\ \/ (Doing(w, "backfill") \/ Doing(w, "missing")) /\ Collides(Target(w))
       \/ Doing(w, "page") /\ Now(w).layer = "parcels" /\ Now(w).off = 0 /\ Page("parcels", 0) = <<>>
    /\ GiveUp(w)
    /\ UNCHANGED <<feed, rows, gen, sched, lock, events, faults>>

\* A failed fetch or statement, or a worker that dies: of a page, the chunks
\* before the failure are written.
Fault(w) ==
    /\ Busy(w) /\ Failure
    /\ GiveUp(w)
    /\ \/ UNCHANGED rows
       \/ /\ Doing(w, "page")
          /\ LET l == Now(w).layer
                 page == Kept(l, ToSet(Page(l, Now(w).off)))
             IN \E part \in SUBSET page \ {{}, page} :
                    rows' = [rows EXCEPT ![l] = Upsert(l, part, run[w].gen)]
    /\ UNCHANGED <<feed, gen, sched, lock>>

---------------------------------------------------------------------------
(* The schedulers.                                                         *)

AllEmpty == \A l \in Layers : rows[l] = {}

MutantPlan ==
    IF AllEmpty THEN {"initial"}
    ELSE {k \in {"parcels", "zip", "annual"} :
            \/ k = "parcels" /\ rows["parcels"] = {}
            \/ k = "zip" /\ rows["zips"] = {}
            \/ k = "annual" /\ rows["cities"] = {} /\ rows["counties"] = {}}

PlanBootstrapActions ==
    IF AllEmpty THEN {"initial"}
    ELSE {k \in {"parcels", "zip", "annual"} :
            \/ k = "parcels" /\ rows["parcels"] = {}
            \/ k = "zip" /\ rows["zips"] = {}
            \/ k = "annual" /\ (rows["cities"] = {} \/ rows["counties"] = {})}

\* TryAcquireLeader.
TryAcquireLeader(s) ==
    /\ sched[s] = "standby" /\ lock = Null
    /\ lock' = s
    /\ sched' = [sched EXCEPT ![s] = "leader"]
    /\ UNCHANGED <<feed, rows, gen, jobs, run, events, faults>>

\* At the start of a leader and every six hours: one job per empty layer.  An
\* enqueue that fails is only logged.
EnqueueGISSyncBootstrap(s) ==
    /\ sched[s] = "leader"
    /\ PlanBootstrapActions # {}
    /\ Cardinality(jobs) <= MaxPending
    /\ \A k \in Sources : gen[k] < MaxGen
    /\ \/ /\ jobs' = jobs \cup NewRows(PlanBootstrapActions)
          /\ UNCHANGED <<events, faults>>
       \/ /\ Failure
          /\ \E k \in PlanBootstrapActions :
                jobs' = jobs \cup NewRows(PlanBootstrapActions \ {k})
    /\ UNCHANGED <<feed, rows, gen, run, sched, lock>>

Refreshing(k) ==
    /\ Event
    /\ Cardinality(jobs) < MaxJobs
    /\ jobs' = jobs \cup NewRows({k})
    /\ UNCHANGED <<feed, rows, gen, run, sched, lock>>

\* The monthly and annual cron entries of a leader.
Cron(s) == sched[s] = "leader" /\ \E k \in {"parcels", "annual"} : Refreshing(k)

\* An operator runs gis-enqueue.
GisEnqueue == \E k \in {"parcels", "annual", "zip"} : Refreshing(k)

\* probeOne: a changed fingerprint bumps the generation and syncs nothing.
ProbeOne(s) ==
    /\ Event
    /\ gen[s] < MaxGen
    /\ gen' = [gen EXCEPT ![s] = @ + 1]
    /\ UNCHANGED <<feed, rows, jobs, run, sched, lock>>

\* The session that holds the lock ends; its leader does not notice.
LoseSession(s) ==
    /\ Failure
    /\ lock = s /\ lock' = Null
    /\ UNCHANGED <<feed, rows, gen, jobs, run, sched>>

\* A leader gets SIGTERM or dies: its pool closes, its session lets go of the
\* lock, and the process is started again as a standby.
Stop(s) ==
    /\ Failure
    /\ sched[s] = "leader"
    /\ sched' = [sched EXCEPT ![s] = "standby"]
    /\ lock' = IF lock = s THEN Null ELSE lock
    /\ UNCHANGED <<feed, rows, gen, jobs, run>>

\* The first page of parcels disappears upstream: every later offset shifts,
\* under the chains in flight too.
Churn ==
    /\ Event
    /\ feed["parcels"] # <<>>
    /\ feed' = [feed EXCEPT !["parcels"] = SubSeq(@, PageSize + 1, Len(@))]
    /\ jobs' = {[j EXCEPT !.clean = @ /\ j.kind # "page"] : j \in jobs}
    /\ UNCHANGED <<rows, gen, run, sched, lock>>

---------------------------------------------------------------------------
Handle(w) ==
    \/ Bump(w) \/ SyncPage(w) \/ EnqueuePage(w) \/ CheckActive(w) \/ Stale(w)
    \/ AssignCounties(w) \/ RunInitialSync(w) \/ Finish(w) \/ Abort(w)

Next ==
    \/ Start
    \/ \E w \in Workers : Handle(w) \/ Fault(w)
    \/ \E s \in Schedulers :
          TryAcquireLeader(s) \/ EnqueueGISSyncBootstrap(s) \/ LoseSession(s) \/ Stop(s)
    \/ (\E s \in Schedulers : Cron(s)) \/ GisEnqueue
    \/ \E s \in Sources : ProbeOne(s)
    \/ Churn

\* Workers poll, standbys poll for the lock and the bootstrap check is a cron
\* entry; nothing is assumed of failures, refreshes or the upstream.
Fairness ==
    /\ WF_vars(Start) /\ \A w \in Workers : WF_vars(Handle(w))
    /\ \A s \in Schedulers :
          /\ WF_vars(TryAcquireLeader(s)) /\ WF_vars(EnqueueGISSyncBootstrap(s))

Spec == Init /\ [][Next]_vars /\ Fairness

---------------------------------------------------------------------------
(* Correctness.                                                            *)

Wanted(l) == Kept(l, ToSet(feed[l]))
Exact(l) == {r.name : r \in rows[l]} = Wanted(l) /\ Cardinality(rows[l]) = Cardinality(Wanted(l))

\* When a refresh deletes the stale rows of a layer, and no other refresh and
\* no upstream change touched that layer since it began, the table holds what
\* the upstream lists, each feature once: no page was skipped, whatever failed
\* and was retried on the way (SyncPage, syncLayer, deleteStale).
RefreshExact ==
    [][\A w \in Workers, l \in Layers :
          Stale(w) /\ Now(w).layer = l /\ Job(run[w].job).clean => Exact(l)']_vars

\* While generations last, every layer the upstream has ends up with rows for
\* good: the leader's checks repair what failed jobs, lost enqueues and dead
\* leaders left empty (enqueueGISSyncBootstrap, PlanBootstrapActions).
BootstrapCompletes ==
    <>[](\/ \A l \in Layers : Wanted(l) # {} => rows[l] # {}
         \/ \E s \in Sources : gen[s] = MaxGen)

\* What gis-api.md says of gis_cities: refreshed by the annual job, with the
\* county assigned after the sync.  Between jobs, when nothing failed and no
\* two refreshes met, each city is listed once and has its county.
CitiesSettled ==
    jobs = {} /\ faults = 0 /\ rows["cities"] # {}
        => Exact("cities") /\ \A c \in rows["cities"] : c.county # Null
=============================================================================
