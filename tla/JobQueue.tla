------------------------------ MODULE JobQueue ------------------------------
(***************************************************************************)
(* The PostgreSQL job queue of src/internal/queue: the tables jobs,        *)
(* job_batches and failed_jobs, the Client operations on them, and the     *)
(* loop each Worker process runs (reserve, process, then Delete and batch  *)
(* completion, or Release).  Every SQL statement (or transaction) is one   *)
(* atomic step; between two of them a worker can crash, a statement can    *)
(* fail (the code discards those errors), and other workers can act.       *)
(*                                                                         *)
(* Time is kept relative: reserved_at as the age of the reservation,       *)
(* available_at as the seconds still to wait.  The code only ever compares *)
(* these columns with the clock, so nothing it can tell apart is lost.     *)
(***************************************************************************)
EXTENDS Naturals, FiniteSets

CONSTANTS
    Workers,             \* the worker processes
    Queues,              \* the queue names
    Kinds,               \* the kinds of payload Enqueue is called with
    Delays,              \* the delays Enqueue is called with
    BatchSizes,          \* the numbers of jobs EnqueueBatch is called with
    MaxAttempts,         \* Worker.maxAttempts
    RetryAfter,          \* Client.retryAfter
    ReservationTimeout,  \* Client.reservationTimeout
    AllowOverrun,        \* may a job outlive its reservation?
    AllowDeleteLoss,     \* may the DELETE after a success fail?
    MaxSubmitted,        \* bound: producers stop at this job id
    MaxBatches,          \* bound: batches created
    MaxFaults,           \* bound: crashes and failed statements
    AttemptBound,        \* bound: attempts saturates here
    NULL

(***************************************************************************)
(* What process() and UnmarshalPayload tell apart: a registered type, a    *)
(* type without a handler, a legacy Laravel payload (discarded), and a     *)
(* payload that does not decode.                                           *)
(***************************************************************************)
PlainKinds == {"known", "unknown", "legacy", "garbled"}

ASSUME QueueAssumption ==
    /\ Queues # {}
    /\ Kinds \subseteq PlainKinds
    /\ Delays \subseteq Nat
    /\ BatchSizes \subseteq Nat
    /\ MaxAttempts \in Nat \ {0}
    /\ RetryAfter \in Nat
    /\ ReservationTimeout \in Nat \ {0}
    /\ AllowOverrun \in BOOLEAN
    /\ AllowDeleteLoss \in BOOLEAN
    /\ MaxSubmitted \in Nat
    /\ MaxBatches \in Nat
    /\ MaxFaults \in Nat
    /\ AttemptBound \in Nat
    /\ NULL \notin Nat

(***************************************************************************)
(* There is room for a second on_complete job of every batch.              *)
(***************************************************************************)
JobId == 1..(MaxSubmitted + MaxBatches + MaxBatches)
BatchId == 1..MaxBatches

(***************************************************************************)
(* Immutable columns of a jobs row: its queue, what its payload is, and    *)
(* the batch it belongs to ("chunk") or completes ("finalize"); 0 is none. *)
(***************************************************************************)
Body == [queue : Queues, kind : PlainKinds \cup {"chunk", "finalize"},
         batch : 0..MaxBatches]

VARIABLES
    \* table jobs
    nextId,      \* the next serial id
    live,        \* the ids of the rows in the table
    body,        \* queue and payload of every id ever inserted
    attempts,    \* attempts
    reserved,    \* age of reserved_at, or NULL
    delay,       \* how far available_at is ahead of the clock
    \* table job_batches
    nextBatch,
    pending,     \* pending_jobs
    finished,    \* finished_at is set
    notify,      \* options names an on_complete job
    \* table failed_jobs
    failed,      \* the ids of the jobs recorded there
    \* worker processes
    pc,          \* what the worker does next
    held,        \* its ReservedJob: id and attempts as of the reservation
    \* history
    succeeded,   \* jobs whose handler returned nil
    counted,     \* chunk jobs that decremented pending_jobs
    dropped,     \* batches a worker abandoned after deleting a chunk row
    faults       \* crashes and failed statements so far

jobVars == <<nextId, live, body, attempts, reserved, delay>>
batchVars == <<nextBatch, pending, finished, notify>>
workerVars == <<pc, held>>
historyVars == <<succeeded, counted, dropped, faults>>
vars == <<jobVars, batchVars, failed, workerVars, historyVars>>

Ids == 1..(nextId - 1)
Batches == 1..(nextBatch - 1)
ChunksOf(b) == {i \in Ids : body[i].kind = "chunk" /\ body[i].batch = b}

(***************************************************************************)
(* A worker that has reserved a row and not yet deleted or released it.    *)
(***************************************************************************)
Claiming == {"run", "ok", "err", "fail"}
(***************************************************************************)
(* A worker inside handleBatchComplete, after its row was deleted.         *)
(***************************************************************************)
Completing == {"complete", "finish", "onComplete"}

TypeOK ==
    /\ nextId \in Nat \ {0}
    /\ Ids \subseteq JobId
    /\ live \subseteq Ids
    /\ body \in [JobId -> Body]
    /\ attempts \in [JobId -> Nat]
    /\ reserved \in [JobId -> Nat \cup {NULL}]
    /\ delay \in [JobId -> Nat]
    /\ nextBatch \in Nat \ {0}
    /\ Batches \subseteq BatchId
    /\ pending \in [BatchId -> Nat]
    /\ finished \in [BatchId -> BOOLEAN]
    /\ notify \in [BatchId -> BOOLEAN]
    /\ failed \subseteq Ids
    /\ pc \in [Workers -> {"idle"} \cup Claiming \cup Completing]
    /\ held \in [Workers -> [id : JobId \cup {0}, attempts : Nat]]
    /\ \A w \in Workers : pc[w] # "idle" => held[w].id \in Ids
    /\ succeeded \subseteq Ids
    /\ counted \subseteq Ids
    /\ dropped \subseteq 0..MaxBatches
    /\ faults \in Nat

NoBody == [queue |-> CHOOSE q \in Queues : TRUE, kind |-> "legacy", batch |-> 0]
NoJob == [id |-> 0, attempts |-> 0]

Init ==
    /\ nextId = 1
    /\ live = {}
    /\ body = [i \in JobId |-> NoBody]
    /\ attempts = [i \in JobId |-> 0]
    /\ reserved = [i \in JobId |-> NULL]
    /\ delay = [i \in JobId |-> 0]
    /\ nextBatch = 1
    /\ pending = [b \in BatchId |-> 0]
    /\ finished = [b \in BatchId |-> FALSE]
    /\ notify = [b \in BatchId |-> FALSE]
    /\ failed = {}
    /\ pc = [w \in Workers |-> "idle"]
    /\ held = [w \in Workers |-> NoJob]
    /\ succeeded = {}
    /\ counted = {}
    /\ dropped = {}
    /\ faults = 0

-----------------------------------------------------------------------------
(* Producers *)

(***************************************************************************)
(* INSERT n rows with the next serial ids, available after d.              *)
(***************************************************************************)
Insert(n, bd, d) ==
    LET new == nextId..(nextId + n - 1)
    IN  /\ nextId' = nextId + n
        /\ live' = live \cup new
        /\ body' = [i \in JobId |-> IF i \in new THEN bd ELSE body[i]]
        /\ delay' = [i \in JobId |-> IF i \in new THEN d ELSE delay[i]]
        /\ UNCHANGED <<attempts, reserved>>

Enqueue(q, k, d) ==
    /\ nextId <= MaxSubmitted
    /\ Insert(1, [queue |-> q, kind |-> k, batch |-> 0], d)
    /\ UNCHANGED <<batchVars, failed, workerVars, historyVars>>

(***************************************************************************)
(* One transaction: the job_batches row and its n child jobs.              *)
(***************************************************************************)
EnqueueBatch(q, n, onComplete) ==
    /\ n > 0
    /\ nextId + n <= MaxSubmitted + 1
    /\ nextBatch \in BatchId
    /\ Insert(n, [queue |-> q, kind |-> "chunk", batch |-> nextBatch], 0)
    /\ nextBatch' = nextBatch + 1
    /\ pending' = [pending EXCEPT ![nextBatch] = n]
    /\ notify' = [notify EXCEPT ![nextBatch] = onComplete]
    /\ UNCHANGED <<finished, failed, workerVars, historyVars>>

-----------------------------------------------------------------------------
(* Reservation *)

\* Mutant: the sweep compares with <= instead of <.
MutantStaleEarly == {i \in live : reserved[i] # NULL /\ reserved[i] >= ReservationTimeout}
\* Mutant: no sweep of stale reservations.
MutantNeverStale == {i \in {} : TRUE}

(***************************************************************************)
(* Rows the first UPDATE of reserveFromQueues returns to the queue.        *)
(***************************************************************************)
Stale == {i \in live : reserved[i] # NULL /\ reserved[i] > ReservationTimeout}

(***************************************************************************)
(* Rows of q its SELECT sees after that UPDATE.                            *)
(***************************************************************************)
Available(q) ==
    {i \in live : /\ body[i].queue = q
                  /\ i \in Stale \/ (reserved[i] = NULL /\ delay[i] = 0)}

(***************************************************************************)
(* reserveFromQueues on one queue: one transaction that sweeps the stale   *)
(* reservations of every queue and claims the lowest available id.  If the *)
(* queue has no available row the transaction rolls back, sweep included.  *)
(* A payload that does not decode is reported only after the commit: the   *)
(* row stays reserved and no worker works on it.  Only such a row can be   *)
(* reserved without end; with AttemptBound above MaxAttempts + MaxFaults   *)
(* no other row reaches the cap on attempts.                               *)
(***************************************************************************)
Reserve(w, q) ==
    /\ pc[w] = "idle"
    /\ \E i \in Available(q) :
        /\ \A j \in Available(q) : i <= j
        /\ reserved' = [j \in JobId |-> IF j = i THEN 0
                                        ELSE IF j \in Stale THEN NULL
                                        ELSE reserved[j]]
        /\ delay' = [j \in JobId |-> IF j \in Stale THEN 0 ELSE delay[j]]
        /\ attempts' = [attempts EXCEPT ![i] = IF @ < AttemptBound THEN @ + 1 ELSE @]
        /\ \/ /\ body[i].kind = "garbled"
              /\ UNCHANGED workerVars
           \/ /\ body[i].kind # "garbled"
              /\ pc' = [pc EXCEPT ![w] = "run"]
              /\ held' = [held EXCEPT ![w] = [id |-> i, attempts |-> attempts'[i]]]
    /\ UNCHANGED <<nextId, live, body, batchVars, failed, historyVars>>

-----------------------------------------------------------------------------
(* The worker loop after a reservation *)

Goto(w, label) == pc' = [pc EXCEPT ![w] = label]

(***************************************************************************)
(* process returns nil: the handler succeeded, or the payload is a legacy  *)
(* one and is discarded.                                                   *)
(***************************************************************************)
ProcessOk(w) ==
    /\ pc[w] = "run"
    /\ body[held[w].id].kind # "unknown"
    /\ succeeded' = succeeded \cup {held[w].id}
    /\ Goto(w, "ok")
    /\ UNCHANGED <<jobVars, batchVars, failed, held, counted, dropped, faults>>

(***************************************************************************)
(* process returns an error: the handler's, or an unregistered type.       *)
(***************************************************************************)
ProcessErr(w) ==
    /\ pc[w] = "run"
    /\ body[held[w].id].kind # "legacy"
    /\ Goto(w, "err")
    /\ UNCHANGED <<jobVars, batchVars, failed, held, historyVars>>

DeleteRow(i) ==
    /\ live' = live \ {i}
    /\ reserved' = [reserved EXCEPT ![i] = NULL]
    /\ delay' = [delay EXCEPT ![i] = 0]
    /\ UNCHANGED <<nextId, body, attempts>>

(***************************************************************************)
(* Success: Delete by id, its error discarded, then handleBatchComplete,   *)
(* which does nothing unless the payload carries a batch_id.               *)
(***************************************************************************)
Delete(w) ==
    /\ pc[w] = "ok"
    /\ \/ DeleteRow(held[w].id) /\ UNCHANGED faults
       \/ /\ AllowDeleteLoss
          /\ faults < MaxFaults
          /\ faults' = faults + 1
          /\ UNCHANGED jobVars
    /\ Goto(w, IF body[held[w].id].kind = "chunk" THEN "complete" ELSE "idle")
    /\ UNCHANGED <<batchVars, failed, held, succeeded, counted, dropped>>

\* Mutant: retryAfter is subtracted from the clock, as the timeout of the sweep is.
MutantReleaseBack(w) ==
    /\ pc[w] = "err"
    /\ held[w].attempts < MaxAttempts
    /\ IF held[w].id \in live
       THEN /\ reserved' = [reserved EXCEPT ![held[w].id] = NULL]
            /\ delay' = [delay EXCEPT ![held[w].id] = 0 - RetryAfter]
       ELSE UNCHANGED <<reserved, delay>>
    /\ Goto(w, "idle")
    /\ UNCHANGED <<nextId, live, body, attempts, batchVars, failed, held, historyVars>>

(***************************************************************************)
(* Release below maxAttempts: back to the queue after retryAfter.  The     *)
(* UPDATE is by id only and touches nothing if the row is gone.            *)
(***************************************************************************)
Release(w) ==
    /\ pc[w] = "err"
    /\ held[w].attempts < MaxAttempts
    /\ IF held[w].id \in live
       THEN /\ reserved' = [reserved EXCEPT ![held[w].id] = NULL]
            /\ delay' = [delay EXCEPT ![held[w].id] = RetryAfter]
       ELSE UNCHANGED <<reserved, delay>>
    /\ Goto(w, "idle")
    /\ UNCHANGED <<nextId, live, body, attempts, batchVars, failed, held, historyVars>>

\* Mutant: Fail deletes the row without recording it in failed_jobs.
MutantFailUnrecorded(w) ==
    /\ pc[w] = "err"
    /\ held[w].attempts >= MaxAttempts
    /\ Goto(w, "fail")
    /\ UNCHANGED <<jobVars, batchVars, failed, held, historyVars>>

(***************************************************************************)
(* Release at maxAttempts calls Fail: INSERT into failed_jobs, then Delete.*)
(***************************************************************************)
FailInsert(w) ==
    /\ pc[w] = "err"
    /\ held[w].attempts >= MaxAttempts
    /\ failed' = failed \cup {held[w].id}
    /\ Goto(w, "fail")
    /\ UNCHANGED <<jobVars, batchVars, held, historyVars>>

\* Mutant: a failed chunk completes its batch like a successful one.
MutantFailCompletes(w) ==
    /\ pc[w] = "fail"
    /\ DeleteRow(held[w].id)
    /\ Goto(w, IF body[held[w].id].kind = "chunk" THEN "complete" ELSE "idle")
    /\ UNCHANGED <<batchVars, failed, held, historyVars>>

FailDelete(w) ==
    /\ pc[w] = "fail"
    /\ DeleteRow(held[w].id)
    /\ Goto(w, "idle")
    /\ UNCHANGED <<batchVars, failed, held, historyVars>>

\* Mutant: every decrement, not only the last one, finishes the batch.
MutantCompleteEach(w) ==
    LET b == body[held[w].id].batch
    IN  /\ pc[w] = "complete"
        /\ pending' = [pending EXCEPT ![b] = IF @ > 0 THEN @ - 1 ELSE 0]
        /\ counted' = counted \cup {held[w].id}
        /\ Goto(w, "finish")
        /\ UNCHANGED <<jobVars, nextBatch, finished, notify, failed, held,
                       succeeded, dropped, faults>>

(***************************************************************************)
(* CompleteBatchJob: UPDATE ... SET pending_jobs = pending_jobs - 1 WHERE  *)
(* pending_jobs > 0 RETURNING pending_jobs.                                *)
(***************************************************************************)
CompleteBatchJob(w) ==
    LET b == body[held[w].id].batch
    IN  /\ pc[w] = "complete"
        /\ IF pending[b] > 0
           THEN /\ pending' = [pending EXCEPT ![b] = @ - 1]
                /\ counted' = counted \cup {held[w].id}
                /\ Goto(w, IF pending[b] = 1 THEN "finish" ELSE "idle")
           ELSE /\ Goto(w, "idle")
                /\ UNCHANGED <<pending, counted>>
        /\ UNCHANGED <<jobVars, nextBatch, finished, notify, failed, held,
                       succeeded, dropped, faults>>

\* Mutant: an error of the finished_at UPDATE ends the completion.
MutantFinishGivesUp(w) ==
    LET b == body[held[w].id].batch
    IN  /\ pc[w] = "finish"
        /\ \/ /\ finished' = [finished EXCEPT ![b] = TRUE]
              /\ Goto(w, IF notify[b] THEN "onComplete" ELSE "idle")
              /\ UNCHANGED faults
           \/ /\ faults < MaxFaults
              /\ faults' = faults + 1
              /\ Goto(w, "idle")
              /\ UNCHANGED finished
        /\ UNCHANGED <<jobVars, nextBatch, pending, notify, failed, held,
                       succeeded, counted, dropped>>

(***************************************************************************)
(* The last decrement stamps finished_at; an error of that UPDATE is       *)
(* discarded and the completion goes on.                                   *)
(***************************************************************************)
FinishBatch(w) ==
    LET b == body[held[w].id].batch
    IN  /\ pc[w] = "finish"
        /\ \/ finished' = [finished EXCEPT ![b] = TRUE] /\ UNCHANGED faults
           \/ /\ faults < MaxFaults
              /\ faults' = faults + 1
              /\ UNCHANGED finished
        /\ Goto(w, IF notify[b] THEN "onComplete" ELSE "idle")
        /\ UNCHANGED <<jobVars, nextBatch, pending, notify, failed, held,
                       succeeded, counted, dropped>>

(***************************************************************************)
(* ... and enqueues the batch's on_complete job, on the batch's queue.     *)
(***************************************************************************)
EnqueueOnComplete(w) ==
    LET c == body[held[w].id]
    IN  /\ pc[w] = "onComplete"
        /\ nextId \in JobId
        /\ Insert(1, [queue |-> c.queue, kind |-> "finalize", batch |-> c.batch], 0)
        /\ Goto(w, "idle")
        /\ UNCHANGED <<batchVars, failed, held, historyVars>>

(***************************************************************************)
(* The worker process dies, or the statement it is about to execute fails  *)
(* and Run discards the error: the loop starts over and nothing more is    *)
(* done about the job.  (A failing DELETE after a success is the second    *)
(* disjunct of Delete: there the loop goes on to handleBatchComplete.)     *)
(***************************************************************************)
Abandon(w) ==
    /\ pc[w] # "idle"
    /\ faults < MaxFaults
    /\ faults' = faults + 1
    /\ dropped' = IF pc[w] \in Completing
                  THEN dropped \cup {body[held[w].id].batch}
                  ELSE dropped
    /\ Goto(w, "idle")
    /\ UNCHANGED <<jobVars, batchVars, failed, held, succeeded, counted>>

-----------------------------------------------------------------------------
(***************************************************************************)
(* One second passes.  Ages past the timeout need not be told apart.       *)
(* Unless AllowOverrun, every job is assumed to be deleted or released     *)
(* before its reservation expires; the code has nothing that enforces it.  *)
(***************************************************************************)
InLease(w) ==
    LET r == reserved[held[w].id]
    IN  r # NULL /\ r < ReservationTimeout

Tick ==
    /\ ~AllowOverrun => \A w \in Workers : pc[w] \in Claiming => InLease(w)
    /\ reserved' = [i \in JobId |->
                      IF reserved[i] = NULL \/ reserved[i] = ReservationTimeout + 1
                      THEN reserved[i] ELSE reserved[i] + 1]
    /\ delay' = [i \in JobId |-> IF delay[i] = 0 THEN 0 ELSE delay[i] - 1]
    /\ UNCHANGED <<nextId, live, body, attempts, batchVars, failed, workerVars, historyVars>>

Produce ==
    \/ \E q \in Queues, k \in Kinds, d \in Delays : Enqueue(q, k, d)
    \/ \E q \in Queues, n \in BatchSizes, oc \in BOOLEAN : EnqueueBatch(q, n, oc)

(***************************************************************************)
(* What a worker that keeps running does with the job it has reserved.     *)
(***************************************************************************)
Proceed(w) ==
    \/ ProcessOk(w)
    \/ ProcessErr(w)
    \/ Delete(w)
    \/ Release(w)
    \/ FailInsert(w)
    \/ FailDelete(w)
    \/ CompleteBatchJob(w)
    \/ FinishBatch(w)
    \/ EnqueueOnComplete(w)

Next ==
    \/ Produce
    \/ \E w \in Workers, q \in Queues : Reserve(w, q)
    \/ \E w \in Workers : Proceed(w)
    \/ \E w \in Workers : Abandon(w)
    \/ Tick

(***************************************************************************)
(* Run polls every pollEvery and visits every configured queue in rotation *)
(* (module FairReserve), handlers return, and time passes.  Nothing obliges*)
(* a producer to enqueue or a worker to crash.                             *)
(***************************************************************************)
Fairness ==
    /\ WF_vars(Tick)
    /\ \A w \in Workers : WF_vars(Proceed(w))
    /\ \A w \in Workers, q \in Queues : WF_vars(Reserve(w, q))

SafetySpec == Init /\ [][Next]_vars
Spec == SafetySpec /\ Fairness
-----------------------------------------------------------------------------
(* Properties *)

FinalizesOf(b) == {i \in Ids : body[i].kind = "finalize" /\ body[i].batch = b}

(***************************************************************************)
(* A job is never lost: whatever workers crash, overrun their reservation  *)
(* or race on one row, every job ever inserted is still in jobs, or is     *)
(* recorded in failed_jobs, or its handler has succeeded ("durable async   *)
(* work ... survives restarts", queue.go).                                 *)
(***************************************************************************)
NoJobLost == \A i \in Ids : i \in live \/ i \in failed \/ i \in succeeded

(***************************************************************************)
(* As long as jobs finish within reservationTimeout, no two workers work   *)
(* on the same row at a time, crashes and retries notwithstanding          *)
(* (SKIP LOCKED claim, sweep of stale reservations, Release by id).        *)
(***************************************************************************)
ExclusiveClaim ==
    \A v, w \in Workers :
        pc[v] \in Claiming /\ pc[w] \in Claiming /\ held[v].id = held[w].id => v = w

(***************************************************************************)
(* "OnComplete: enqueued when all jobs finish" (BatchSpec): the finalize   *)
(* job of a batch exists only once the handler of every chunk of the batch *)
(* has succeeded.  The sync pipeline advances its cursor on it.            *)
(***************************************************************************)
FinalizeGate == \A b \in Batches : FinalizesOf(b) # {} => ChunksOf(b) \subseteq succeeded

(***************************************************************************)
(* A batch enqueues its finalize job at most once, even when workers that  *)
(* overran their reservation complete the same chunk again.                *)
(***************************************************************************)
FinalizeOnce == \A b \in Batches : \A i, j \in FinalizesOf(b) : i = j

(***************************************************************************)
(* The queue implements the barrier its callers see: rows, reservations,   *)
(* retries, crashes and the pending_jobs counter, which several workers    *)
(* decrement in separate statements, are invisible except for a batch that *)
(* appears at once, jobs that succeed, and one on_complete job after all   *)
(* of them.  A chunk that ends in failed_jobs keeps its batch from it.     *)
(***************************************************************************)
Barrier == INSTANCE BatchBarrier WITH
    Batch <- BatchId,
    Job <- JobId,
    members <- [b \in BatchId |-> ChunksOf(b)],
    done <- {i \in succeeded : body[i].kind = "chunk"},
    completed <- [b \in BatchId |-> Cardinality(FinalizesOf(b))]

ImplementsBarrier == Barrier!Spec

(***************************************************************************)
(* Every job eventually leaves the jobs table, by success or by            *)
(* failed_jobs, after any finite number of crashes.  The exception is a    *)
(* payload that does not decode (it is swept and reserved for ever), which *)
(* can hold up only rows behind it in its own queue.                       *)
(***************************************************************************)
BehindGarbled(i) ==
    \E j \in live : j <= i /\ body[j].kind = "garbled" /\ body[j].queue = body[i].queue

JobsDrain == \A i \in JobId : (i \in live /\ ~BehindGarbled(i)) ~> (i \notin live)

(***************************************************************************)
(* Once every chunk of a batch has succeeded and left the table, its       *)
(* finalize job is eventually enqueued, unless a worker was lost between   *)
(* deleting a chunk row and completing the batch (the only way to lose it).*)
(***************************************************************************)
ChunksDone(b) ==
    b \in Batches /\ notify[b] /\ ChunksOf(b) \subseteq succeeded \ (live \cup failed)

BatchSettles ==
    \A b \in BatchId : ChunksDone(b) ~> (b \in dropped \/ FinalizesOf(b) # {})
=============================================================================
