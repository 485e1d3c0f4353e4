-------------------------- MODULE ReplicaSelector ---------------------------
(***************************************************************************)
(* The choice of a PostgreSQL read replica in src/internal/db: a probe     *)
(* loop that discovers the replicas, opens and closes their pools and runs *)
(* a circuit breaker for each; any number of requests in GetBestReplica;   *)
(* and Close.  They share the map of replicas under a read-write mutex,    *)
(* and the fields of an entry as atomics without it.                       *)
(*                                                                         *)
(* A section under the mutex that cannot block is one step.  Pool.Close    *)
(* can: it blocks until the connections taken from the pool have been      *)
(* returned, and is called with the mutex held.  A reader may come back to *)
(* GetBestReplica for each row of a result it is still reading, as the     *)
(* dashboard does, with a connection in hand.  Whether a host answers is   *)
(* left to chance at every probe and ping; the primary behind the fallback *)
(* pool is always there.  What only Snapshot shows (name, last selection,  *)
(* fallback flag, time of discovery) is left out.                          *)
(***************************************************************************)
EXTENDS Integers, FiniteSets

CONSTANTS
    Hosts,             \* the hosts Patroni may report, in the order of their names
    Steady,            \* bound: those that answer and stay listed until the shutdown
    Requests,          \* the readers
    Latencies,         \* latencies a probe may measure
    FailThreshold,
    RecoverThreshold,
    MaxPools,          \* bound: pools opened for one host
    MaxRows,           \* bound: rows for which a reader calls the selector again
    NULL

ASSUME SelectorAssumption ==
    /\ Hosts \subseteq Nat /\ IsFiniteSet(Hosts) /\ Steady \subseteq Hosts
    /\ Latencies \subseteq Nat \ {0}
    /\ {FailThreshold, RecoverThreshold, MaxPools} \subseteq Nat \ {0}
    /\ MaxRows \in Nat

VARIABLES
    replicas,   \* host -> replicaEntry, or NULL
    open,       \* the pools that are open, as <<host, number>>
    opened,     \* host -> pools opened so far
    mu,         \* who holds the mutex: NULL, "prober" or "closer"
    closing,    \* the pool whose Close the holder of the mutex waits for
    prober,     \* what the probe loop does next
    desired,    \* the replicas the running cycle has discovered
    todo,       \* hosts it has still to probe
    probe,      \* the circuit breaker update it is in the middle of
    req,        \* the state of each reader
    cancelled,  \* the context of the probe loop is cancelled
    cl,         \* Close: "open", "waiting", "closing" or "closed"
    run         \* history: host -> probes that failed, succeeded in a row

vars == <<replicas, open, opened, mu, closing, prober, desired, todo, probe, req, cancelled, cl,
          run>>
poolVars == <<open, opened, mu, closing>>
proberVars == <<prober, desired, todo, probe>>
stopVars == <<cancelled, cl>>

(***************************************************************************)
(* An entry.  The counters are only compared with their thresholds and     *)
(* saturate there.  A latency of 0 has not been measured, -1 is a failure. *)
(***************************************************************************)
Entry == [pool : 1..MaxPools, healthy : BOOLEAN, latency : Latencies \cup {0, -1},
          failures : 0..FailThreshold, successes : 0..RecoverThreshold]
Pool == Hosts \X (1..MaxPools)
ProbeState == [host : Hosts, ok : BOOLEAN, step : {"count", "health"}, trips : BOOLEAN]

ASSUME NullAssumption ==
    NULL \notin Entry /\ NULL \notin Pool /\ NULL \notin ProbeState
    /\ NULL \notin {"prober", "closer"}

UpTo(n, bound) == IF n < bound THEN n + 1 ELSE bound

Known == {h \in Hosts : replicas[h] # NULL}
PoolOf(h) == <<h, replicas[h].pool>>

(***************************************************************************)
(* A reader is in GetBestReplica with a selected pool and the number of    *)
(* attempts made, or is reading with a connection of the pool it got.  If  *)
(* it called from within the loop over a result, held is the pool of the   *)
(* result's connection; rows counts these calls.                           *)
(***************************************************************************)
InCall == {"select", "ping", "mark", "health", "failures", "successes", "record", "fallback"}
NoCall == [pc |-> "idle", pool |-> NULL, attempt |-> 0, held |-> NULL, rows |-> 0]
Reading(p) == \E r \in Requests : \/ req[r].pc = "read" /\ req[r].pool = p
                                  \/ req[r].held = p

TypeOK ==
    /\ \A h \in Hosts : replicas[h] = NULL \/ replicas[h] \in Entry
    /\ open \subseteq Pool /\ opened \in [Hosts -> 0..MaxPools]
    /\ mu \in {NULL, "prober", "closer"} /\ closing \in Pool \cup {NULL}
    /\ prober \in {"discover", "sync", "update", "probe", "wait", "done"}
    /\ desired \subseteq Hosts /\ todo \subseteq Hosts
    /\ probe = NULL \/ probe \in ProbeState
    /\ req \in [Requests -> [pc : InCall \cup {"idle", "return", "read"},
                             pool : Pool \cup {NULL}, attempt : 0..2,
                             held : Pool \cup {NULL}, rows : 0..MaxRows]]
    /\ cancelled \in BOOLEAN /\ cl \in {"open", "waiting", "closing", "closed"}
    /\ run \in [Hosts -> [bad : 0..FailThreshold, good : 0..RecoverThreshold]]

NoRun == [bad |-> 0, good |-> 0]

Init ==
    /\ replicas = [h \in Hosts |-> NULL]
    /\ open = {} /\ opened = [h \in Hosts |-> 0]
    /\ mu = NULL /\ closing = NULL
    /\ prober = "discover" /\ desired = {} /\ todo = {} /\ probe = NULL
    /\ req = [r \in Requests |-> NoCall]
    /\ cancelled = FALSE /\ cl = "open"
    /\ run = [h \in Hosts |-> NoRun]

(***************************************************************************)
(* Pool.Close, first and second half: no connection can be taken any more, *)
(* and all that were taken are back.                                       *)
(***************************************************************************)
CloseBegin(p) ==
    /\ closing = NULL
    /\ closing' = p /\ open' = open \ {p}
CloseEnd ==
    /\ closing # NULL /\ ~Reading(closing)
    /\ closing' = NULL

-----------------------------------------------------------------------------
(* The probe loop *)

(***************************************************************************)
(* discoverReplicas: no Patroni host answers, or the first one that does   *)
(* lists the running replicas.  After cancel every request fails.          *)
(***************************************************************************)
Discover ==
    /\ prober = "discover"
    /\ \/ prober' = "wait" /\ UNCHANGED desired
       \/ /\ ~cancelled
          /\ desired' \in SUBSET {h \in Hosts : h \in Known \/ opened[h] < MaxPools}
          /\ Known \cap Steady \subseteq desired'
          /\ prober' = "sync"
    /\ UNCHANGED <<replicas, poolVars, todo, probe, req, stopVars, run>>

SyncLock ==
    /\ prober = "sync" /\ mu = NULL
    /\ mu' = "prober" /\ prober' = "update"
    /\ UNCHANGED <<replicas, open, opened, closing, desired, todo, probe, req, stopVars, run>>

(* mutant of SyncRemove: the entry is dropped, its pool left open *)
MutantRemoveLeaks ==
    /\ prober = "update"
    /\ \E h \in Known \ desired :
        /\ replicas' = [replicas EXCEPT ![h] = NULL]
        /\ run' = [run EXCEPT ![h] = NoRun]
    /\ UNCHANGED <<open, closing, opened, mu, proberVars, req, stopVars>>

(***************************************************************************)
(* syncReplicaPools: close and forget the replicas that are gone ...       *)
(***************************************************************************)
SyncRemove ==
    /\ prober = "update"
    /\ \/ /\ \E h \in Known \ desired : CloseBegin(PoolOf(h))
          /\ UNCHANGED <<replicas, run>>
       \/ /\ CloseEnd
          /\ replicas' = [replicas EXCEPT ![closing[1]] = NULL]
          /\ run' = [run EXCEPT ![closing[1]] = NoRun]
          /\ UNCHANGED open
    /\ UNCHANGED <<opened, mu, proberVars, req, stopVars>>

(***************************************************************************)
(* ... then open a pool for every new one, healthy until probed.           *)
(***************************************************************************)
SyncAdd ==
    /\ prober = "update" /\ closing = NULL /\ Known \subseteq desired
    /\ \E new \in SUBSET (desired \ Known) :
        /\ opened' = [h \in Hosts |-> IF h \in new THEN opened[h] + 1 ELSE opened[h]]
        /\ open' = open \cup {<<h, opened[h] + 1>> : h \in new}
        /\ replicas' = [h \in Hosts |->
             IF h \in new THEN [pool |-> opened[h] + 1, healthy |-> TRUE, latency |-> 0,
                                failures |-> 0, successes |-> 0]
             ELSE replicas[h]]
        /\ todo' = Known \cup new
    /\ mu' = NULL /\ prober' = "probe" /\ desired' = {}
    /\ UNCHANGED <<closing, probe, req, stopVars, run>>

(* mutant of ProbeReplica: a failed probe keeps the count of successes *)
MutantProbeKeeps(h) ==
    /\ prober = "probe" /\ probe = NULL /\ h \in todo
    /\ todo' = todo \ {h}
    /\ \/ /\ ~cancelled
          /\ \E l \in Latencies :
                replicas' = [replicas EXCEPT ![h].latency = l, ![h].failures = 0]
          /\ probe' = [host |-> h, ok |-> TRUE, step |-> "count", trips |-> FALSE]
          /\ run' = [run EXCEPT ![h] = [bad |-> 0, good |-> UpTo(@.good, RecoverThreshold)]]
       \/ /\ h \notin Steady \/ cancelled
          /\ replicas' = [replicas EXCEPT ![h].latency = -1]
          /\ probe' = [host |-> h, ok |-> FALSE, step |-> "count", trips |-> FALSE]
          /\ run' = [run EXCEPT ![h] = [bad |-> UpTo(@.bad, FailThreshold), good |-> 0]]
    /\ UNCHANGED <<poolVars, prober, desired, req, stopVars>>

(***************************************************************************)
(* probeReplica: SELECT 1, the latency, and the first store of             *)
(* updateCircuitBreaker.                                                   *)
(***************************************************************************)
ProbeReplica(h) ==
    /\ prober = "probe" /\ probe = NULL /\ h \in todo
    /\ todo' = todo \ {h}
    /\ \/ /\ ~cancelled
          /\ \E l \in Latencies :
                replicas' = [replicas EXCEPT ![h].latency = l, ![h].failures = 0]
          /\ probe' = [host |-> h, ok |-> TRUE, step |-> "count", trips |-> FALSE]
          /\ run' = [run EXCEPT ![h] = [bad |-> 0, good |-> UpTo(@.good, RecoverThreshold)]]
       \/ /\ h \notin Steady \/ cancelled
          /\ replicas' = [replicas EXCEPT ![h].latency = -1, ![h].successes = 0]
          /\ probe' = [host |-> h, ok |-> FALSE, step |-> "count", trips |-> FALSE]
          /\ run' = [run EXCEPT ![h] = [bad |-> UpTo(@.bad, FailThreshold), good |-> 0]]
    /\ UNCHANGED <<poolVars, prober, desired, req, stopVars>>

(* mutant of ProbeCount: the count is read before it is increased *)
MutantCountLate ==
    /\ probe # NULL /\ probe.step = "count"
    /\ LET h == probe.host
           s == replicas[h].successes
           f == replicas[h].failures
       IN  IF probe.ok
           THEN /\ replicas' = [replicas EXCEPT ![h].successes = UpTo(s, RecoverThreshold)]
                /\ probe' = [probe EXCEPT !.step = "health", !.trips = s >= RecoverThreshold]
           ELSE /\ replicas' = [replicas EXCEPT ![h].failures = UpTo(f, FailThreshold)]
                /\ probe' = [probe EXCEPT !.step = "health", !.trips = f >= FailThreshold]
    /\ UNCHANGED <<poolVars, prober, desired, todo, req, stopVars, run>>

(***************************************************************************)
(* Its second: the atomic Add, whose result decides.                       *)
(***************************************************************************)
ProbeCount ==
    /\ probe # NULL /\ probe.step = "count"
    /\ LET h == probe.host
           s == UpTo(replicas[h].successes, RecoverThreshold)
           f == UpTo(replicas[h].failures, FailThreshold)
       IN  IF probe.ok
           THEN /\ replicas' = [replicas EXCEPT ![h].successes = s]
                /\ probe' = [probe EXCEPT !.step = "health", !.trips = s >= RecoverThreshold]
           ELSE /\ replicas' = [replicas EXCEPT ![h].failures = f]
                /\ probe' = [probe EXCEPT !.step = "health", !.trips = f >= FailThreshold]
    /\ UNCHANGED <<poolVars, prober, desired, todo, req, stopVars, run>>

(***************************************************************************)
(* And its last.                                                           *)
(***************************************************************************)
ProbeHealth ==
    /\ probe # NULL /\ probe.step = "health"
    /\ replicas' = IF probe.trips THEN [replicas EXCEPT ![probe.host].healthy = probe.ok]
                   ELSE replicas
    /\ probe' = NULL
    /\ UNCHANGED <<poolVars, prober, desired, todo, req, stopVars, run>>

CycleEnd ==
    /\ prober = "probe" /\ probe = NULL /\ todo = {}
    /\ mu = NULL
    /\ prober' = "wait"
    /\ UNCHANGED <<replicas, poolVars, desired, todo, probe, req, stopVars, run>>

(***************************************************************************)
(* The select of probeLoop: with the tick and the cancellation both ready  *)
(* either may be taken.                                                    *)
(***************************************************************************)
Wake ==
    /\ prober = "wait"
    /\ prober' = "discover"
    /\ UNCHANGED <<replicas, poolVars, desired, todo, probe, req, stopVars, run>>

(* mutant of Stop: a cancelled loop starts another cycle instead of ending *)
MutantStopRetries ==
    /\ prober = "wait" /\ cancelled
    /\ prober' = "discover"
    /\ UNCHANGED <<replicas, poolVars, desired, todo, probe, req, stopVars, run>>

Stop ==
    /\ prober = "wait" /\ cancelled
    /\ prober' = "done"
    /\ UNCHANGED <<replicas, poolVars, desired, todo, probe, req, stopVars, run>>

-----------------------------------------------------------------------------
(* GetBestReplica *)

Goto(r, pc) == req' = [req EXCEPT ![r].pc = pc]

Call(r) ==
    /\ req[r].pc = "idle"
    /\ req' = [req EXCEPT ![r] = [NoCall EXCEPT !.pc = IF cl = "open" THEN "select" ELSE "idle"]]
    /\ UNCHANGED <<replicas, poolVars, proberVars, stopVars, run>>

(***************************************************************************)
(* selectBest: the healthy entry of the lowest latency, then name.         *)
(***************************************************************************)
Before(h, k) ==
    \/ replicas[h].latency < replicas[k].latency
    \/ replicas[h].latency = replicas[k].latency /\ h <= k

SelectBest(r) ==
    /\ req[r].pc = "select" /\ mu = NULL
    /\ LET healthy == {h \in Known : replicas[h].healthy}
       IN  \/ healthy = {} /\ Goto(r, "fallback")
           \/ \E h \in healthy :
                /\ \A k \in healthy : Before(h, k)
                /\ req' = [req EXCEPT ![r].pc = "ping", ![r].pool = PoolOf(h)]
    /\ UNCHANGED <<replicas, poolVars, proberVars, stopVars, run>>

(***************************************************************************)
(* quickPing; a closed pool never answers.                                 *)
(***************************************************************************)
QuickPing(r) ==
    /\ req[r].pc = "ping"
    /\ \/ req[r].pool \in open /\ Goto(r, "record")
       \/ (req[r].pool[1] \notin Steady \/ req[r].pool \notin open) /\ Goto(r, "mark")
    /\ UNCHANGED <<replicas, poolVars, proberVars, stopVars, run>>

(* mutants of NextAttempt: one attempt too many; attempts not counted *)
MutantOneMore(r) ==
    req' = [req EXCEPT ![r].pool = NULL, ![r].attempt = @ + 1,
                       ![r].pc = IF req[r].attempt < 2 THEN "select" ELSE "fallback"]
MutantForever(r) == req' = [req EXCEPT ![r].pool = NULL, ![r].pc = "select"]

(***************************************************************************)
(* markUnhealthy looks the host up again (its entry may be another one by  *)
(* now) and makes three stores.  Two attempts, then the fallback.          *)
(***************************************************************************)
SelectedEntry(r) == replicas[req[r].pool[1]] # NULL /\ PoolOf(req[r].pool[1]) = req[r].pool
NextAttempt(r) ==
    req' = [req EXCEPT ![r].pool = NULL, ![r].attempt = @ + 1,
                       ![r].pc = IF req[r].attempt + 1 < 2 THEN "select" ELSE "fallback"]

MarkUnhealthy(r) ==
    /\ req[r].pc = "mark" /\ mu = NULL
    /\ LET h == req[r].pool[1]
       IN  \/ h \notin Known /\ NextAttempt(r)
           \/ h \in Known /\ req' = [req EXCEPT ![r].pc = "health", ![r].pool = PoolOf(h)]
    /\ UNCHANGED <<replicas, poolVars, proberVars, stopVars, run>>

StoreTo(r, e) ==
    replicas' = IF SelectedEntry(r) THEN [replicas EXCEPT ![req[r].pool[1]] = e] ELSE replicas

MarkHealth(r) ==
    /\ req[r].pc = "health"
    /\ StoreTo(r, [replicas[req[r].pool[1]] EXCEPT !.healthy = FALSE])
    /\ Goto(r, "failures")
    /\ UNCHANGED <<poolVars, proberVars, stopVars, run>>

MarkFailures(r) ==
    /\ req[r].pc = "failures"
    /\ StoreTo(r, [replicas[req[r].pool[1]] EXCEPT !.failures = FailThreshold])
    /\ Goto(r, "successes")
    /\ UNCHANGED <<poolVars, proberVars, stopVars, run>>

MarkSuccesses(r) ==
    /\ req[r].pc = "successes"
    /\ StoreTo(r, [replicas[req[r].pool[1]] EXCEPT !.successes = 0])
    /\ NextAttempt(r)
    /\ UNCHANGED <<poolVars, proberVars, stopVars, run>>

(***************************************************************************)
(* A call has been served: a nested one goes on with the result around it. *)
(***************************************************************************)
Resume(r) ==
    req' = [req EXCEPT ![r] =
              IF @.held = NULL THEN NoCall
              ELSE [pc |-> "read", pool |-> @.held, attempt |-> 0, held |-> NULL, rows |-> @.rows]]

(***************************************************************************)
(* recordSelection, for a replica and for the fallback; a read from the    *)
(* latter needs nothing from the selector any more.                        *)
(***************************************************************************)
RecordSelection(r) ==
    /\ mu = NULL
    /\ \/ req[r].pc = "record" /\ req' = [req EXCEPT ![r].pc = "return", ![r].attempt = 0]
       \/ req[r].pc = "fallback" /\ Resume(r)
    /\ UNCHANGED <<replicas, poolVars, proberVars, stopVars, run>>

(***************************************************************************)
(* The caller takes a connection of the pool it was given.  If that has    *)
(* been closed since, the query fails and with it the handler, whose       *)
(* deferred rows.Close gives back what it held.                            *)
(***************************************************************************)
Read(r) ==
    /\ req[r].pc = "return"
    /\ IF req[r].pool \in open THEN Goto(r, "read") ELSE req' = [req EXCEPT ![r] = NoCall]
    /\ UNCHANGED <<replicas, poolVars, proberVars, stopVars, run>>

(***************************************************************************)
(* loadPageData, for a row of its result: FindByDomain calls ReadPool      *)
(* while rows keeps its connection.  A closed selector ends the handler.   *)
(***************************************************************************)
NextRow(r) ==
    /\ req[r].pc = "read" /\ req[r].held = NULL /\ req[r].rows < MaxRows
    /\ req' = [req EXCEPT ![r] =
                  IF cl # "open" THEN NoCall
                  ELSE [pc |-> "select", pool |-> NULL, attempt |-> 0, held |-> @.pool,
                        rows |-> @.rows + 1]]
    /\ UNCHANGED <<replicas, poolVars, proberVars, stopVars, run>>

(***************************************************************************)
(* The end of the result, or of the single row: the connection goes back.  *)
(***************************************************************************)
ReadEnd(r) ==
    /\ req[r].pc = "read"
    /\ Resume(r)
    /\ UNCHANGED <<replicas, poolVars, proberVars, stopVars, run>>

-----------------------------------------------------------------------------
(* Close *)

(***************************************************************************)
(* The API's shutdown: the signal handler cancels the context the selector *)
(* was made with, then Close is called.                                    *)
(***************************************************************************)
Signal ==
    /\ ~cancelled /\ cancelled' = TRUE
    /\ UNCHANGED <<replicas, poolVars, proberVars, req, cl, run>>

CloseCall ==
    /\ cl = "open" /\ cl' = "waiting" /\ cancelled' = TRUE
    /\ UNCHANGED <<replicas, poolVars, proberVars, req, run>>

CloseLock ==
    /\ cl = "waiting" /\ prober = "done" /\ mu = NULL
    /\ cl' = "closing" /\ mu' = "closer"
    /\ UNCHANGED <<replicas, open, opened, closing, proberVars, req, cancelled, run>>

ClosePool ==
    /\ cl = "closing"
    /\ \/ \E p \in {PoolOf(h) : h \in Known} \cap open : CloseBegin(p)
       \/ CloseEnd /\ UNCHANGED open
    /\ UNCHANGED <<replicas, opened, mu, proberVars, req, stopVars, run>>

CloseDone ==
    /\ cl = "closing" /\ closing = NULL /\ {PoolOf(h) : h \in Known} \cap open = {}
    /\ replicas' = [h \in Hosts |-> NULL] /\ run' = [h \in Hosts |-> NoRun]
    /\ mu' = NULL /\ cl' = "closed"
    /\ UNCHANGED <<open, opened, closing, proberVars, req, cancelled>>

-----------------------------------------------------------------------------
Prober ==
    \/ Discover \/ SyncLock \/ SyncRemove \/ SyncAdd
    \/ \E h \in Hosts : ProbeReplica(h)
    \/ ProbeCount \/ ProbeHealth \/ CycleEnd \/ Wake \/ Stop

Request(r) ==
    \/ SelectBest(r) \/ QuickPing(r)
    \/ MarkUnhealthy(r) \/ MarkHealth(r) \/ MarkFailures(r) \/ MarkSuccesses(r)
    \/ RecordSelection(r) \/ Read(r) \/ NextRow(r) \/ ReadEnd(r)

Closer == CloseLock \/ ClosePool \/ CloseDone

Next == Prober \/ Closer \/ Signal \/ CloseCall \/ \E r \in Requests : Call(r) \/ Request(r)

(***************************************************************************)
(* Goroutines are scheduled, pings and queries have timeouts, results end, *)
(* a select whose cancellation stays ready takes it in the end, and a      *)
(* mutex is not withheld from one that waits for it (a sync.RWMutex lets   *)
(* no reader overtake a waiting writer, nor a writer starve readers).      *)
(***************************************************************************)
Spec ==
    /\ Init /\ [][Next]_vars
    /\ WF_vars(Prober) /\ SF_vars(SyncLock) /\ SF_vars(Stop) /\ SF_vars(Closer)
    /\ \A r \in Requests : SF_vars(Request(r))

-----------------------------------------------------------------------------
(***************************************************************************)
(* Pools are neither leaked nor closed twice over: whenever nobody is      *)
(* changing the map, the open pools are exactly those of its entries.  In  *)
(* particular a closed selector leaves no pool open.                       *)
(***************************************************************************)
NoPoolLeak ==
    /\ mu = NULL => open = {PoolOf(h) : h \in Known}
    /\ cl = "closed" => open = {}

(***************************************************************************)
(* updateCircuitBreaker against the markUnhealthy of concurrent requests:  *)
(* a replica whose last FailThreshold probes failed is not healthy,        *)
(* whatever was stored to its counters meanwhile.                          *)
(***************************************************************************)
BreakerTrips ==
    \A h \in Known :
        (run[h].bad = FailThreshold /\ (probe = NULL \/ probe.host # h)) => ~replicas[h].healthy

(***************************************************************************)
(* And one that is unhealthy is let back only after RecoverThreshold       *)
(* probes in a row have succeeded.                                         *)
(***************************************************************************)
Readmission ==
    [][\A h \in Hosts :
        (/\ replicas[h] # NULL /\ replicas'[h] # NULL
         /\ replicas[h].pool = replicas'[h].pool
         /\ ~replicas[h].healthy /\ replicas'[h].healthy)
        => run[h].good = RecoverThreshold]_vars

(***************************************************************************)
(* The mutex is held for the closing of a pool, and a reader that has a    *)
(* connection of this pool waits for the mutex.                            *)
(***************************************************************************)
WaitsForMutex(r) == req[r].pc \in {"select", "mark", "record", "fallback"}
Stuck == closing # NULL /\ \E r \in Requests : req[r].held = closing /\ WaitsForMutex(r)

(***************************************************************************)
(* "Close stops the probe goroutine and closes all per-replica pools":     *)
(* wherever in its cycle the probe loop was.  Stuck breaks this.           *)
(***************************************************************************)
Shutdown == (cl = "waiting") ~> (cl = "closed")

(***************************************************************************)
(* A reader that comes back to the selector with a connection in hand is   *)
(* all that can keep Close from ending: otherwise the probe loop stops and *)
(* every pool is closed once its readers are done.                         *)
(***************************************************************************)
ShutdownUnlessStuck == (cl = "waiting") ~> (cl = "closed" \/ Stuck)

(***************************************************************************)
(* And all that can keep GetBestReplica from returning and the read from   *)
(* ending, although pools are closed with the mutex held.                  *)
(***************************************************************************)
ReadsReturnUnlessStuck ==
    \A r \in Requests : (req[r].pc = "select") ~> (req[r].pc = "idle" \/ Stuck)
=============================================================================
