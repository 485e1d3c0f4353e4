---------------------------- MODULE FairReserve -----------------------------
(***************************************************************************)
(* How one worker of src/internal/queue picks the queue it takes its next  *)
(* job from: partitionWorkerQueues, Worker.reserveNext, reserveWeighted    *)
(* and Client.ReserveFair.  Every probe of a queue is a transaction of its *)
(* own (JobQueue!Reserve), so jobs come and go, through producers and the  *)
(* other workers, between the probes of one scan.                          *)
(***************************************************************************)
EXTENDS Naturals, Sequences, FiniteSets, SequencesExt

CONSTANTS
    Lists,       \* the queue lists a worker may be configured with
    Class(_),    \* queue -> "fetch", "persist" or "other", by its suffix
    MaxErrors    \* bound: probes that fail

ASSUME ReserveAssumption ==
    /\ MaxErrors \in Nat
    /\ \A l \in Lists : /\ l \in Seq(Range(l)) /\ Len(l) > 0
                        /\ \A i, j \in DOMAIN l : l[i] = l[j] => i = j
                        /\ \A i \in DOMAIN l : Class(l[i]) \in {"fetch", "persist", "other"}
                        /\ {"none", "nil", "error"} \cap Range(l) = {}

VARIABLES
    list,      \* Worker.queues
    cur,       \* per pool: fairFetchCursor, fairPersistCursor, fairOtherCursor;
               \* or, for a worker without pools, fairQueueCursor alone
    poolCur,   \* fairPoolCursor
    avail,     \* the queues that have an available job
    scan,      \* [on, i, j]: a scan is at offset i of the pools and j in the pool
    probed,    \* queues this scan (or the last one) has found empty
    last,      \* result of the last scan: a queue, "nil" or "error" ("none" at first)
    tag,       \* the queue whose waiting is observed
    bypass,    \* jobs taken from other queues while tag had one available
    errors     \* probes that failed so far

vars == <<list, cur, poolCur, avail, scan, probed, last, tag, bypass, errors>>

Queue == Range(list)

(***************************************************************************)
(* partitionWorkerQueues, and the choice reserveNext makes.  Without both  *)
(* a fetch and a persist queue there is a single rotation over the list    *)
(* (also for one queue, where Reserve and ReserveFair do the same).        *)
(***************************************************************************)
Of(l, class) ==
    LET at == {i \in DOMAIN l : Class(l[i]) = class}
        nth(n) == CHOOSE i \in at : Cardinality({k \in at : k <= i}) = n
    IN  [n \in 1..Cardinality(at) |-> l[nth(n)]]
partitionWorkerQueues(l) ==
    IF Of(l, "fetch") = <<>> \/ Of(l, "persist") = <<>> THEN <<l>>
    ELSE IF Of(l, "other") = <<>> THEN <<Of(l, "fetch"), Of(l, "persist")>>
    ELSE <<Of(l, "fetch"), Of(l, "persist"), Of(l, "other")>>

PoolsOf == [l \in Lists |-> partitionWorkerQueues(l)]
Pools == PoolsOf[list]
NumPools == Len(Pools)

Idle == [on |-> FALSE, i |-> 0, j |-> 0]

TypeOK ==
    /\ list \in Lists
    /\ poolCur \in 0..(NumPools - 1)
    /\ DOMAIN cur = 1..NumPools
    /\ \A k \in 1..NumPools : cur[k] \in 0..(Len(Pools[k]) - 1)
    /\ avail \subseteq Queue /\ probed \subseteq Queue
    /\ scan.on \in BOOLEAN /\ scan.i \in 0..(NumPools - 1) /\ scan.j \in Nat
    /\ last \in Queue \cup {"none", "nil", "error"}
    /\ tag \in Queue
    /\ bypass \in Nat
    /\ errors \in 0..MaxErrors

Init ==
    /\ list \in Lists
    /\ cur = [k \in 1..NumPools |-> 0]
    /\ poolCur = 0
    /\ avail \in SUBSET Queue
    /\ scan = Idle /\ probed = {} /\ last = "none"
    /\ tag \in Queue
    /\ bypass = 0
    /\ errors = 0

-----------------------------------------------------------------------------
(***************************************************************************)
(* Producers, releases and sweeps make a job available; other workers take *)
(* the last one.                                                           *)
(***************************************************************************)
Arrive(q) ==
    /\ q \notin avail
    /\ avail' = avail \cup {q}
    /\ UNCHANGED <<list, cur, poolCur, scan, probed, last, tag, bypass, errors>>

Drain(q) ==
    /\ q \in avail
    /\ avail' = avail \ {q}
    /\ bypass' = IF q = tag THEN 0 ELSE bypass
    /\ UNCHANGED <<list, cur, poolCur, scan, probed, last, tag, errors>>

(***************************************************************************)
(* reserveNext begins with the pool of fairPoolCursor.                     *)
(***************************************************************************)
Begin ==
    /\ ~scan.on
    /\ scan' = [on |-> TRUE, i |-> 0, j |-> 0]
    /\ probed' = {}
    /\ UNCHANGED <<list, cur, poolCur, avail, last, tag, bypass, errors>>

\* Mutant: the scan of the pools stops at the last one instead of wrapping around.
MutantPoolAt == IF poolCur + scan.i < NumPools THEN poolCur + scan.i + 1 ELSE NumPools

(***************************************************************************)
(* The pool and the position in it that the scan is about to probe         *)
(* (positions count from 0, as in the code).                               *)
(***************************************************************************)
PoolAt == ((poolCur + scan.i) % NumPools) + 1
SizeAt == Len(Pools[PoolAt])
IndexAt == (cur[PoolAt] + scan.j) % SizeAt
QueueAt == Pools[PoolAt][IndexAt + 1]

\* Mutant: the pool cursor stays on the pool that had a job.
MutantTakeSamePool ==
    /\ scan.on /\ QueueAt \in avail
    /\ avail' \in {avail, avail \ {QueueAt}}
    /\ cur' = [cur EXCEPT ![PoolAt] = (IndexAt + 1) % SizeAt]
    /\ poolCur' = PoolAt - 1
    /\ last' = QueueAt
    /\ scan' = Idle
    /\ bypass' = IF tag \in avail /\ tag # QueueAt THEN bypass + 1 ELSE 0
    /\ UNCHANGED <<list, probed, tag, errors>>

\* Mutant: the cursor of the pool is not wrapped around.
MutantTakeNoWrap ==
    /\ scan.on /\ QueueAt \in avail
    /\ avail' \in {avail, avail \ {QueueAt}}
    /\ cur' = [cur EXCEPT ![PoolAt] = IndexAt + 1]
    /\ poolCur' = PoolAt % NumPools
    /\ last' = QueueAt
    /\ scan' = Idle
    /\ bypass' = IF tag \in avail /\ tag # QueueAt THEN bypass + 1 ELSE 0
    /\ UNCHANGED <<list, probed, tag, errors>>

(***************************************************************************)
(* The probe claims a job: both cursors move past where it was found.      *)
(* There may be more jobs in the queue.                                    *)
(***************************************************************************)
Take ==
    /\ scan.on /\ QueueAt \in avail
    /\ avail' \in {avail, avail \ {QueueAt}}
    /\ cur' = [cur EXCEPT ![PoolAt] = (IndexAt + 1) % SizeAt]
    /\ poolCur' = PoolAt % NumPools
    /\ last' = QueueAt
    /\ scan' = Idle
    /\ bypass' = IF tag \in avail /\ tag # QueueAt THEN bypass + 1 ELSE 0
    /\ UNCHANGED <<list, probed, tag, errors>>

(***************************************************************************)
(* The probe finds nothing: the next queue of the pool, the next pool, or  *)
(* the end of the scan with no job and no cursor moved.                    *)
(***************************************************************************)
Miss ==
    /\ scan.on /\ QueueAt \notin avail
    /\ probed' = probed \cup {QueueAt}
    /\ \/ /\ scan.j + 1 < SizeAt
          /\ scan' = [scan EXCEPT !.j = @ + 1]
          /\ UNCHANGED last
       \/ /\ scan.j + 1 = SizeAt /\ scan.i + 1 < NumPools
          /\ scan' = [scan EXCEPT !.i = @ + 1, !.j = 0]
          /\ UNCHANGED last
       \/ /\ scan.j + 1 = SizeAt /\ scan.i + 1 = NumPools
          /\ scan' = Idle
          /\ last' = "nil"
    /\ UNCHANGED <<list, cur, poolCur, avail, tag, bypass, errors>>

(***************************************************************************)
(* The probe fails (a statement, or a claimed payload that does not        *)
(* decode): the scan is over and every cursor stays where it was.          *)
(***************************************************************************)
ProbeError ==
    /\ scan.on
    /\ errors < MaxErrors /\ errors' = errors + 1
    /\ scan' = Idle
    /\ last' = "error"
    /\ UNCHANGED <<list, cur, poolCur, avail, probed, tag, bypass>>

Probe == Begin \/ Take \/ Miss

Next ==
    \/ Probe \/ ProbeError
    \/ \E q \in Queue : Arrive(q) \/ Drain(q)

(***************************************************************************)
(* Run calls reserveNext again and again.                                  *)
(***************************************************************************)
Spec == Init /\ [][Next]_vars /\ WF_vars(Probe)

-----------------------------------------------------------------------------
(* Properties *)

(***************************************************************************)
(* "persist backlog cannot starve fetch (and vice versa)" and "one feed    *)
(* cannot monopolize": while a queue has a job, fewer than (number of      *)
(* pools) x (size of its pool) jobs are taken from other queues before one *)
(* is taken from it, whatever arrives, goes or fails between the probes.   *)
(***************************************************************************)
PoolSize(q) ==
    Len(CHOOSE p \in Range(Pools) : q \in Range(p))

BoundedBypass == bypass < NumPools * PoolSize(tag)

(***************************************************************************)
(* A scan that ends without a job has found every configured queue empty.  *)
(***************************************************************************)
EmptyScanProbesAll == last = "nil" /\ ~scan.on => probed = Queue

(***************************************************************************)
(* A queue that always has a job is served again and again.                *)
(***************************************************************************)
NoStarvation == <>[](tag \in avail) => []<>(last = tag)
=============================================================================
