--------------------------- MODULE JobQueueProofs ---------------------------
(***************************************************************************)
(* Theorems about JobQueue, for every number of workers, queues, jobs,     *)
(* batches and faults.                                                     *)
(***************************************************************************)
EXTENDS JobQueue, FiniteSetTheorems, TLAPS

-----------------------------------------------------------------------------
(* Type correctness *)

LEMMA InitTypeOK == Init => TypeOK
  <1> USE QueueAssumption
  <1> SUFFICES ASSUME Init PROVE TypeOK
    OBVIOUS
  <1>1. NoBody \in Body
    BY DEF NoBody, Body, PlainKinds
  <1>2. Ids = {} /\ Batches = {}
    BY DEF Init, Ids, Batches
  <1>3. QED
    BY <1>1, <1>2 DEF Init, TypeOK, NoJob, Ids, Batches, JobId, BatchId

(***************************************************************************)
(* What Insert does to the columns of jobs.                                *)
(***************************************************************************)
LEMMA InsertType ==
  ASSUME TypeOK, NEW n \in Nat, NEW bd \in Body, NEW d \in Nat,
         nextId + n <= MaxSubmitted + MaxBatches + MaxBatches + 1, Insert(n, bd, d)
  PROVE  /\ nextId' \in Nat \ {0}
         /\ Ids' \subseteq JobId
         /\ Ids \subseteq Ids'
         /\ live' \subseteq Ids'
         /\ body' \in [JobId -> Body]
         /\ attempts' \in [JobId -> Nat]
         /\ reserved' \in [JobId -> Nat \cup {NULL}]
         /\ delay' \in [JobId -> Nat]
  BY QueueAssumption DEF TypeOK, Insert, Ids, JobId

LEMMA ProduceType == TypeOK /\ Produce => TypeOK'
  <1> USE QueueAssumption
  <1>1. ASSUME TypeOK, NEW q \in Queues, NEW k \in Kinds, NEW d \in Delays,
               Enqueue(q, k, d)
        PROVE  TypeOK'
    <2> DEFINE bd == [queue |-> q, kind |-> k, batch |-> 0]
    <2>1. bd \in Body /\ d \in Nat
      BY DEF Body, PlainKinds
    <2>2. nextId + 1 <= MaxSubmitted + MaxBatches + MaxBatches + 1 /\ Insert(1, bd, d)
      BY <1>1 DEF Enqueue, TypeOK
    <2> HIDE DEF bd
    <2>3. QED
      BY <1>1, <2>1, <2>2, InsertType
      DEF Enqueue, TypeOK, batchVars, workerVars, historyVars, Batches
  <1>2. ASSUME TypeOK, NEW q \in Queues, NEW n \in BatchSizes, NEW oc \in BOOLEAN,
               EnqueueBatch(q, n, oc)
        PROVE  TypeOK'
    <2> DEFINE bd == [queue |-> q, kind |-> "chunk", batch |-> nextBatch]
    <2>1. bd \in Body /\ n \in Nat
      BY <1>2 DEF Body, EnqueueBatch, BatchId
    <2>2. nextId + n <= MaxSubmitted + MaxBatches + MaxBatches + 1 /\ Insert(n, bd, 0)
      BY <1>2 DEF EnqueueBatch, TypeOK
    <2> HIDE DEF bd
    <2>3. Batches' \subseteq BatchId /\ nextBatch' \in Nat \ {0}
      BY <1>2 DEF EnqueueBatch, TypeOK, Batches, BatchId
    <2>4. QED
      BY <1>2, <2>1, <2>2, <2>3, InsertType
      DEF EnqueueBatch, TypeOK, workerVars, historyVars
  <1>3. QED
    BY <1>1, <1>2 DEF Produce

LEMMA ReserveType ==
  ASSUME TypeOK, NEW w \in Workers, NEW q \in Queues, Reserve(w, q)
  PROVE  TypeOK'
  <1> USE QueueAssumption
  <1>1. PICK i \in Available(q) : Reserve(w, q)!2!(i)
    BY DEF Reserve
  <1>2. i \in Ids /\ i \in JobId
    BY DEF Available, TypeOK
  <1>3. reserved' \in [JobId -> Nat \cup {NULL}] /\ delay' \in [JobId -> Nat]
    BY <1>1 DEF TypeOK
  <1>4. attempts' \in [JobId -> Nat]
    BY <1>1, <1>2 DEF TypeOK
  <1>5. held' \in [Workers -> [id : JobId \cup {0}, attempts : Nat]]
    BY <1>1, <1>2, <1>4 DEF TypeOK, workerVars
  <1>6. pc' \in [Workers -> {"idle"} \cup Claiming \cup Completing]
    BY <1>1 DEF TypeOK, workerVars, Claiming
  <1>7. \A v \in Workers : pc'[v] # "idle" => held'[v].id \in Ids
    BY <1>1, <1>2 DEF TypeOK, workerVars
  <1>8. QED
    BY <1>3, <1>4, <1>5, <1>6, <1>7
    DEF Reserve, TypeOK, Ids, Batches, batchVars, historyVars

LEMMA ProceedType ==
  ASSUME TypeOK, NEW w \in Workers, Proceed(w)
  PROVE  TypeOK'
  <1> USE QueueAssumption DEF TypeOK, Goto, Claiming, Completing, Ids, Batches,
          jobVars, batchVars, workerVars, historyVars
  <1>1. CASE ProcessOk(w)
    BY <1>1 DEF ProcessOk
  <1>2. CASE ProcessErr(w)
    BY <1>2 DEF ProcessErr
  <1>3. CASE Delete(w)
    <2>1. pc' \in [Workers -> {"idle"} \cup Claiming \cup Completing]
      BY <1>3 DEF Delete
    <2>2. \A v \in Workers : pc'[v] # "idle" => held'[v].id \in Ids
      BY <1>3 DEF Delete
    <2>3. CASE DeleteRow(held[w].id) /\ UNCHANGED faults
      BY <1>3, <2>1, <2>2, <2>3 DEF Delete, DeleteRow
    <2>4. CASE faults' = faults + 1 /\ UNCHANGED jobVars
      BY <1>3, <2>1, <2>2, <2>4 DEF Delete
    <2>5. QED
      BY <1>3, <2>3, <2>4 DEF Delete
  <1>4. CASE Release(w)
    BY <1>4 DEF Release
  <1>5. CASE FailInsert(w)
    BY <1>5 DEF FailInsert
  <1>6. CASE FailDelete(w)
    BY <1>6 DEF FailDelete, DeleteRow
  <1>7. CASE CompleteBatchJob(w)
    <2> DEFINE b == body[held[w].id].batch
    <2>1. CASE pending[b] > 0
      <3>1. pending' \in [BatchId -> Nat]
        BY <1>7, <2>1 DEF CompleteBatchJob
      <3>2. pc' \in [Workers -> {"idle"} \cup Claiming \cup Completing]
        BY <1>7 DEF CompleteBatchJob
      <3>3. \A v \in Workers : pc'[v] # "idle" => held'[v].id \in Ids
        BY <1>7 DEF CompleteBatchJob
      <3>4. counted' \subseteq Ids
        <4>1. counted' = counted \cup {held[w].id}
          BY <1>7, <2>1 DEF CompleteBatchJob
        <4>2. held[w].id \in Ids
          BY <1>7 DEF CompleteBatchJob
        <4>3. QED
          BY <4>1, <4>2
      <3>5. QED
        BY <1>7, <3>1, <3>2, <3>3, <3>4 DEF CompleteBatchJob
    <2>2. CASE ~(pending[b] > 0)
      BY <1>7, <2>2 DEF CompleteBatchJob
    <2>3. QED
      BY <2>1, <2>2
  <1>8. CASE FinishBatch(w)
    <2>1. faults' \in Nat
      BY <1>8 DEF FinishBatch
    <2>5. finished' \in [BatchId -> BOOLEAN]
      BY <1>8, Zenon DEF FinishBatch
    <2>2. pc' \in [Workers -> {"idle"} \cup Claiming \cup Completing]
      BY <1>8 DEF FinishBatch
    <2>3. \A v \in Workers : pc'[v] # "idle" => held'[v].id \in Ids
      BY <1>8 DEF FinishBatch
    <2>4. QED
      BY <1>8, <2>1, <2>2, <2>3, <2>5 DEF FinishBatch
  <1>9. CASE EnqueueOnComplete(w)
    <2> DEFINE c == body[held[w].id]
               bd == [queue |-> c.queue, kind |-> "finalize", batch |-> c.batch]
    <2>1. c \in Body
      BY <1>9 DEF EnqueueOnComplete
    <2>2. bd \in Body
      BY <2>1 DEF Body
    <2>3. nextId + 1 <= MaxSubmitted + MaxBatches + MaxBatches + 1 /\ Insert(1, bd, 0)
      BY <1>9 DEF EnqueueOnComplete, JobId
    <2> HIDE DEF bd
    <2>4. QED
      BY <1>9, <2>2, <2>3, InsertType DEF EnqueueOnComplete
  <1>10. QED
    BY <1>1, <1>2, <1>3, <1>4, <1>5, <1>6, <1>7, <1>8, <1>9 DEF Proceed

LEMMA AbandonType ==
  ASSUME TypeOK, NEW w \in Workers, Abandon(w)
  PROVE  TypeOK'
  <1> USE QueueAssumption DEF TypeOK, Ids, Batches, jobVars, batchVars
  <1>1. body[held[w].id] \in Body
    BY DEF Abandon
  <1>2. dropped' \subseteq 0..MaxBatches
    BY <1>1 DEF Abandon, Body
  <1>3. QED
    BY <1>2 DEF Abandon, Goto, Claiming, Completing

LEMMA TickType == TypeOK /\ Tick => TypeOK'
  BY QueueAssumption
  DEF TypeOK, Tick, Ids, Batches, batchVars, workerVars, historyVars

LEMMA StepTypeOK == TypeOK /\ [Next]_vars => TypeOK'
  <1> SUFFICES ASSUME TypeOK, [Next]_vars PROVE TypeOK'
    OBVIOUS
  <1>1. CASE UNCHANGED vars
    BY <1>1 DEF TypeOK, vars, Ids, Batches, jobVars, batchVars, workerVars, historyVars
  <1>2. QED
    BY <1>1, ProduceType, ReserveType, ProceedType, AbandonType, TickType DEF Next

(***************************************************************************)
(* Type correctness of the tables, the workers and the history.            *)
(***************************************************************************)
THEOREM TypeCorrect == SafetySpec => []TypeOK
  BY InitTypeOK, StepTypeOK, PTL DEF SafetySpec
-----------------------------------------------------------------------------
(* No job is lost *)

(***************************************************************************)
(* The row of a job is deleted only by a worker that has recorded what     *)
(* became of it.                                                           *)
(***************************************************************************)
Recorded ==
    \A w \in Workers : /\ pc[w] = "ok" => held[w].id \in succeeded
                       /\ pc[w] = "fail" => held[w].id \in failed

LostInv == NoJobLost /\ Recorded

LEMMA LostInsert ==
  ASSUME TypeOK, NoJobLost, NEW n \in Nat, NEW bd, NEW d, Insert(n, bd, d),
         failed' = failed, succeeded' = succeeded
  PROVE  NoJobLost'
  BY DEF TypeOK, NoJobLost, Insert, Ids

LEMMA LostProceed ==
  ASSUME TypeOK, LostInv, NEW w \in Workers, Proceed(w)
  PROVE  LostInv'
  <1> USE DEF TypeOK, LostInv, Goto, Ids, jobVars, batchVars, workerVars, historyVars
  <1>1. CASE ProcessOk(w)
    BY <1>1 DEF ProcessOk, NoJobLost, Recorded
  <1>2. CASE ProcessErr(w)
    BY <1>2 DEF ProcessErr, NoJobLost, Recorded
  <1>3. CASE Delete(w)
    <2>1. held[w].id \in succeeded
      BY <1>3 DEF Delete, Recorded
    <2>2. NoJobLost'
      BY <1>3, <2>1 DEF Delete, DeleteRow, NoJobLost
    <2>3. Recorded'
      BY <1>3 DEF Delete, Recorded
    <2>4. QED
      BY <2>2, <2>3
  <1>4. CASE Release(w)
    BY <1>4 DEF Release, NoJobLost, Recorded
  <1>5. CASE FailInsert(w)
    BY <1>5 DEF FailInsert, NoJobLost, Recorded
  <1>6. CASE FailDelete(w)
    <2>1. held[w].id \in failed
      BY <1>6 DEF FailDelete, Recorded
    <2>2. NoJobLost'
      BY <1>6, <2>1 DEF FailDelete, DeleteRow, NoJobLost
    <2>3. Recorded'
      BY <1>6 DEF FailDelete, Recorded
    <2>4. QED
      BY <2>2, <2>3
  <1>7. CASE CompleteBatchJob(w)
    BY <1>7 DEF CompleteBatchJob, NoJobLost, Recorded
  <1>8. CASE FinishBatch(w)
    BY <1>8 DEF FinishBatch, NoJobLost, Recorded
  <1>9. CASE EnqueueOnComplete(w)
    <2>1. NoJobLost'
      BY <1>9, LostInsert DEF EnqueueOnComplete
    <2>2. Recorded'
      BY <1>9 DEF EnqueueOnComplete, Recorded
    <2>3. QED
      BY <2>1, <2>2
  <1>10. QED
    BY <1>1, <1>2, <1>3, <1>4, <1>5, <1>6, <1>7, <1>8, <1>9 DEF Proceed

LEMMA LostStep == TypeOK /\ LostInv /\ [Next]_vars => LostInv'
  <1> SUFFICES ASSUME TypeOK, LostInv, [Next]_vars PROVE LostInv'
    OBVIOUS
  <1> USE DEF LostInv, vars, jobVars, batchVars, workerVars, historyVars
  <1>1. CASE Produce
    <2>1. /\ failed' = failed /\ succeeded' = succeeded /\ UNCHANGED workerVars
          /\ \E n \in Nat : \E bd, d : Insert(n, bd, d)
      BY <1>1, QueueAssumption DEF Produce, Enqueue, EnqueueBatch
    <2>2. NoJobLost'
      BY <2>1, LostInsert
    <2>3. Recorded'
      BY <2>1 DEF Recorded
    <2>4. QED
      BY <2>2, <2>3
  <1>2. ASSUME NEW w \in Workers, NEW q \in Queues, Reserve(w, q) PROVE LostInv'
    BY <1>2 DEF Reserve, NoJobLost, Recorded, Ids, TypeOK
  <1>3. ASSUME NEW w \in Workers, Abandon(w) PROVE LostInv'
    BY <1>3 DEF Abandon, Goto, NoJobLost, Recorded, Ids, TypeOK
  <1>4. CASE Tick
    BY <1>4 DEF Tick, NoJobLost, Recorded, Ids
  <1>5. CASE UNCHANGED vars
    BY <1>5 DEF NoJobLost, Recorded, Ids
  <1>6. QED
    BY <1>1, <1>2, <1>3, <1>4, <1>5, LostProceed DEF Next

(***************************************************************************)
(* Whatever overruns its reservation, crashes or fails to execute, a job   *)
(* is in the table, in failed_jobs, or has succeeded.                      *)
(***************************************************************************)
THEOREM JobsAreDurable == SafetySpec => []NoJobLost
  <1>1. Init => LostInv
    BY DEF Init, LostInv, NoJobLost, Recorded, Ids
  <1>2. QED
    BY <1>1, LostStep, TypeCorrect, PTL DEF SafetySpec, LostInv
-----------------------------------------------------------------------------
(* A batch is finalized at most once *)

(***************************************************************************)
(* A worker between the decrement to zero and the on_complete job.         *)
(***************************************************************************)
Finishing == {"finish", "onComplete"}
BatchOf(w) == body[held[w].id].batch
IsFinalize(i, b) == body[i].kind = "finalize" /\ body[i].batch = b

BatchRefs ==
    \A i \in Ids : body[i].kind \in {"chunk", "finalize"} => body[i].batch \in Batches
ChunkHeld == \A w \in Workers : pc[w] \in Completing => body[held[w].id].kind = "chunk"
FinalizedIsEmpty ==
    \A i \in Ids : body[i].kind = "finalize" => pending[body[i].batch] = 0
FinishingIsFirst ==
    \A w \in Workers : pc[w] \in Finishing =>
        /\ pending[BatchOf(w)] = 0
        /\ \A i \in Ids : ~IsFinalize(i, BatchOf(w))
        /\ \A v \in Workers : pc[v] \in Finishing /\ BatchOf(v) = BatchOf(w) => v = w
FinalizeUnique ==
    \A i, j \in Ids : body[i].kind = "finalize" /\ IsFinalize(j, body[i].batch) => i = j

(***************************************************************************)
(* The inductive invariant: only the decrement that takes pending_jobs to  *)
(* 0 lets a worker finish the batch, and no later decrement can.           *)
(***************************************************************************)
OnceInv == BatchRefs /\ ChunkHeld /\ FinalizedIsEmpty /\ FinishingIsFirst /\ FinalizeUnique

(***************************************************************************)
(* Steps that change neither the bodies nor the batches and let no worker  *)
(* enter Finishing, nor Completing without a chunk.                        *)
(***************************************************************************)
LEMMA OnceFrame ==
  ASSUME TypeOK, OnceInv, UNCHANGED <<nextId, body, nextBatch, pending>>,
         \A v \in Workers :
            /\ pc'[v] \in Completing => /\ held'[v] = held[v]
                                        /\ body[held[v].id].kind = "chunk"
            /\ pc'[v] \in Finishing => pc[v] \in Finishing /\ held'[v] = held[v]
  PROVE  OnceInv'
  <1>1. BatchRefs' /\ FinalizedIsEmpty' /\ FinalizeUnique'
    BY DEF OnceInv, BatchRefs, FinalizedIsEmpty, FinalizeUnique, IsFinalize, Ids, Batches
  <1>2. ChunkHeld'
    BY DEF OnceInv, ChunkHeld
  <1>3. FinishingIsFirst'
    BY DEF OnceInv, FinishingIsFirst, IsFinalize, BatchOf, Ids
  <1>4. QED
    BY <1>1, <1>2, <1>3 DEF OnceInv

LEMMA OnceEnqueue ==
  ASSUME TypeOK, OnceInv, NEW q, NEW k \in Kinds, NEW d, Enqueue(q, k, d)
  PROVE  OnceInv'
  <1>1. k \notin {"chunk", "finalize"}
    BY QueueAssumption DEF PlainKinds
  <1>2. /\ UNCHANGED <<nextBatch, pending, pc, held>>
        /\ Ids' = Ids \cup {nextId} /\ nextId \notin Ids /\ nextId \in JobId
        /\ \A i \in Ids : body'[i] = body[i]
        /\ body'[nextId].kind = k
    BY QueueAssumption
    DEF Enqueue, Insert, TypeOK, Ids, JobId, batchVars, workerVars
  <1>3. \A w \in Workers : pc[w] \in Completing => held[w].id \in Ids
    BY DEF TypeOK, Completing
  <1>4. \A w \in Workers : pc[w] \in Finishing => held[w].id \in Ids
    BY DEF TypeOK, Finishing
  <1>5. BatchRefs' /\ FinalizedIsEmpty' /\ FinalizeUnique'
    BY <1>1, <1>2
    DEF OnceInv, BatchRefs, FinalizedIsEmpty, FinalizeUnique, IsFinalize, Batches
  <1>6. ChunkHeld'
    BY <1>2, <1>3 DEF OnceInv, ChunkHeld
  <1>7. FinishingIsFirst'
    BY <1>1, <1>2, <1>4 DEF OnceInv, FinishingIsFirst, IsFinalize, BatchOf
  <1>8. QED
    BY <1>5, <1>6, <1>7 DEF OnceInv

LEMMA OnceEnqueueBatch ==
  ASSUME TypeOK, OnceInv, NEW q, NEW n \in BatchSizes, NEW oc, EnqueueBatch(q, n, oc)
  PROVE  OnceInv'
  <1> DEFINE new == nextId..(nextId + n - 1)
  <1>1. /\ UNCHANGED <<pc, held>>
        /\ Ids' = Ids \cup new
        /\ \A i \in Ids : i \notin new /\ body'[i] = body[i]
        /\ \A i \in new : body'[i].kind = "chunk" /\ body'[i].batch = nextBatch
    BY QueueAssumption
    DEF EnqueueBatch, Insert, TypeOK, Ids, JobId, workerVars
  <1>2. /\ Batches' = Batches \cup {nextBatch} /\ nextBatch \notin Batches
        /\ \A b \in Batches : pending'[b] = pending[b]
    BY DEF EnqueueBatch, TypeOK, Batches
  <1>3. \A w \in Workers : pc[w] \in Completing => held[w].id \in Ids
    BY DEF TypeOK, Completing
  <1>4. \A w \in Workers : pc[w] \in Finishing =>
            held[w].id \in Ids /\ body[held[w].id].kind = "chunk"
    BY DEF TypeOK, OnceInv, ChunkHeld, Finishing, Completing
  <1> HIDE DEF new
  <1>5. BatchRefs'
    BY <1>1, <1>2 DEF OnceInv, BatchRefs
  <1>6. FinalizedIsEmpty'
    BY <1>1, <1>2 DEF OnceInv, FinalizedIsEmpty, BatchRefs
  <1>7. FinalizeUnique'
    BY <1>1 DEF OnceInv, FinalizeUnique, IsFinalize
  <1>8. ChunkHeld'
    BY <1>1, <1>3 DEF OnceInv, ChunkHeld
  <1>9. FinishingIsFirst'
    BY <1>1, <1>2, <1>4 DEF OnceInv, FinishingIsFirst, IsFinalize, BatchOf, BatchRefs
  <1>10. QED
    BY <1>5, <1>6, <1>7, <1>8, <1>9 DEF OnceInv

LEMMA OnceComplete ==
  ASSUME TypeOK, OnceInv, NEW w \in Workers, CompleteBatchJob(w)
  PROVE  OnceInv'
  <1> USE DEF jobVars, Goto
  <1> DEFINE b == BatchOf(w)
  <1>1. UNCHANGED <<nextId, body, nextBatch, held>> /\ pc[w] = "complete"
    BY DEF CompleteBatchJob
  <1>2. \A v \in Workers : v # w => pc'[v] = pc[v]
    BY DEF CompleteBatchJob, TypeOK
  <1>3. held[w].id \in Ids /\ body[held[w].id].kind = "chunk" /\ b \in Batches
    BY <1>1 DEF TypeOK, OnceInv, ChunkHeld, Completing, BatchRefs, BatchOf
  <1>4. b \in BatchId
    BY <1>3 DEF TypeOK
  <1>5. ChunkHeld'
    BY <1>1, <1>2, <1>3 DEF OnceInv, ChunkHeld
  <1>6. BatchRefs' /\ FinalizeUnique'
    BY <1>1 DEF OnceInv, BatchRefs, FinalizeUnique, IsFinalize, Ids, Batches
  <1>7. CASE pending[b] > 0
    <2>1. /\ pending' = [pending EXCEPT ![b] = @ - 1]
          /\ pc'[w] = IF pending[b] = 1 THEN "finish" ELSE "idle"
      BY <1>7 DEF CompleteBatchJob, BatchOf, TypeOK
    <2>2. \A i \in Ids : ~IsFinalize(i, b)
      BY <1>7 DEF OnceInv, FinalizedIsEmpty, IsFinalize
    <2>3. \A v \in Workers : pc[v] \in Finishing => BatchOf(v) # b
      BY <1>7 DEF OnceInv, FinishingIsFirst
    <2>4. \A i \in Ids : body[i].kind = "finalize" => pending'[body[i].batch] = pending[body[i].batch]
      BY <2>1, <2>2 DEF TypeOK, IsFinalize
    <2>5. FinalizedIsEmpty'
      BY <1>1, <2>4 DEF OnceInv, FinalizedIsEmpty, Ids
    <2>6. pending'[b] = pending[b] - 1 /\ \A c : c # b => pending'[c] = pending[c]
      BY <1>4, <2>1 DEF TypeOK
    <2>7. FinishingIsFirst'
      <3> SUFFICES ASSUME NEW v \in Workers, pc'[v] \in Finishing
                   PROVE  /\ pending'[BatchOf(v)] = 0
                          /\ \A i \in Ids : ~IsFinalize(i, BatchOf(v))
                          /\ \A u \in Workers : pc'[u] \in Finishing /\ BatchOf(u) = BatchOf(v) => u = v
        BY <1>1 DEF FinishingIsFirst, IsFinalize, BatchOf, Ids
      <3>1. CASE v = w
        <4>1. pending[b] = 1
          BY <2>1, <3>1 DEF Finishing
        <4>2. QED
          BY <4>1, <3>1, <2>6, <2>2, <2>3, <1>2
      <3>2. CASE v # w
        BY <3>2, <1>2, <2>3, <2>6 DEF OnceInv, FinishingIsFirst
      <3>3. QED
        BY <3>1, <3>2
    <2>8. QED
      BY <1>5, <1>6, <2>5, <2>7 DEF OnceInv
  <1>8. CASE ~(pending[b] > 0)
    <2>1. pending' = pending /\ pc'[w] = "idle"
      BY <1>8 DEF CompleteBatchJob, BatchOf, TypeOK
    <2>2. \A v \in Workers : pc'[v] \in Finishing => pc[v] \in Finishing
      BY <1>2, <2>1 DEF Finishing
    <2>3. \A v \in Workers : pc'[v] \in Completing => pc[v] \in Completing
      BY <1>2, <2>1 DEF Completing
    <2>4. QED
      BY <1>1, <2>1, <2>2, <2>3, OnceFrame DEF OnceInv, ChunkHeld
  <1>9. QED
    BY <1>7, <1>8

LEMMA OnceOnComplete ==
  ASSUME TypeOK, OnceInv, NEW w \in Workers, EnqueueOnComplete(w)
  PROVE  OnceInv'
  <1> DEFINE b == BatchOf(w)
  <1>1. /\ UNCHANGED <<nextBatch, pending, held>>
        /\ pc[w] = "onComplete" /\ pc'[w] = "idle"
        /\ \A v \in Workers : v # w => pc'[v] = pc[v]
    BY DEF EnqueueOnComplete, Goto, TypeOK, batchVars
  <1>2. /\ Ids' = Ids \cup {nextId} /\ nextId \notin Ids
        /\ \A i \in Ids : body'[i] = body[i]
        /\ body'[nextId].kind = "finalize" /\ body'[nextId].batch = b
    <2> DEFINE c == body[held[w].id]
               bd == [queue |-> c.queue, kind |-> "finalize", batch |-> c.batch]
    <2>1. nextId \in JobId /\ Insert(1, bd, 0)
      BY DEF EnqueueOnComplete
    <2>2. bd.kind = "finalize" /\ bd.batch = b
      BY DEF BatchOf
    <2> HIDE DEF bd, b
    <2>3. QED
      BY <2>1, <2>2, QueueAssumption DEF Insert, TypeOK, Ids
  <1>3. \A v \in Workers : pc[v] # "idle" => held[v].id \in Ids /\ BatchOf(v)' = BatchOf(v)
    BY <1>1, <1>2 DEF TypeOK, BatchOf
  <1>4. b \in Batches /\ pending[b] = 0 /\ \A i \in Ids : ~IsFinalize(i, b)
    BY <1>1, <1>3
    DEF OnceInv, FinishingIsFirst, Finishing, ChunkHeld, Completing, BatchRefs, BatchOf
  <1>5. \A v \in Workers : pc'[v] \in Finishing => /\ v # w /\ pc[v] \in Finishing
                                                   /\ BatchOf(v) # b
    BY <1>1 DEF OnceInv, FinishingIsFirst, Finishing
  <1>6. BatchRefs' /\ FinalizedIsEmpty'
    BY <1>1, <1>2, <1>4 DEF OnceInv, BatchRefs, FinalizedIsEmpty, Batches
  <1>7. FinalizeUnique'
    BY <1>2, <1>4 DEF OnceInv, FinalizeUnique, IsFinalize
  <1>8. ChunkHeld'
    BY <1>1, <1>2, <1>3 DEF OnceInv, ChunkHeld, Completing
  <1>9. FinishingIsFirst'
    <2> SUFFICES ASSUME NEW v \in Workers, pc'[v] \in Finishing
                 PROVE  /\ pending'[BatchOf(v)'] = 0
                        /\ \A i \in Ids' : ~IsFinalize(i, BatchOf(v))'
                        /\ \A u \in Workers :
                             pc'[u] \in Finishing /\ BatchOf(u)' = BatchOf(v)' => u = v
      BY DEF FinishingIsFirst
    <2>1. pc[v] \in Finishing /\ BatchOf(v)' = BatchOf(v) /\ BatchOf(v) # b
      BY <1>3, <1>5 DEF Finishing
    <2>2. pending'[BatchOf(v)'] = 0
      BY <1>1, <2>1 DEF OnceInv, FinishingIsFirst
    <2>3. \A i \in Ids' : ~IsFinalize(i, BatchOf(v))'
      BY <1>2, <2>1 DEF OnceInv, FinishingIsFirst, IsFinalize
    <2>4. \A u \in Workers : pc'[u] \in Finishing /\ BatchOf(u)' = BatchOf(v)' => u = v
      BY <1>3, <1>5, <2>1 DEF OnceInv, FinishingIsFirst, Finishing
    <2>5. QED
      BY <2>2, <2>3, <2>4
  <1>10. QED
    BY <1>6, <1>7, <1>8, <1>9 DEF OnceInv

LEMMA OnceStep == TypeOK /\ OnceInv /\ [Next]_vars => OnceInv'
  <1> SUFFICES ASSUME TypeOK, OnceInv, [Next]_vars PROVE OnceInv'
    OBVIOUS
  <1> USE DEF vars, jobVars, batchVars, workerVars, historyVars
  <1>1. CASE Produce
    BY <1>1, OnceEnqueue, OnceEnqueueBatch DEF Produce
  <1>2. ASSUME NEW w \in Workers, NEW q \in Queues, Reserve(w, q) PROVE OnceInv'
    <2>1. \A v \in Workers : pc'[v] \in Completing => pc'[v] = pc[v] /\ held'[v] = held[v]
      BY <1>2 DEF Reserve, Completing, TypeOK
    <2>2. \A v \in Workers : pc'[v] \in Finishing => pc'[v] = pc[v] /\ held'[v] = held[v]
      BY <1>2 DEF Reserve, Finishing, TypeOK
    <2>3. QED
      BY <1>2, <2>1, <2>2, OnceFrame DEF Reserve, OnceInv, ChunkHeld
  <1>3. ASSUME NEW w \in Workers, Proceed(w) PROVE OnceInv'
    <2> USE DEF Goto
    <2>1. CASE ProcessOk(w) \/ ProcessErr(w) \/ Release(w) \/ FailInsert(w) \/ FailDelete(w)
      <3>1. /\ UNCHANGED <<nextId, body, nextBatch, pending, held>>
            /\ pc'[w] \notin Completing \cup Finishing
            /\ \A v \in Workers : v # w => pc'[v] = pc[v]
        BY <2>1 DEF ProcessOk, ProcessErr, Release, FailInsert, FailDelete, DeleteRow,
                    TypeOK, Completing, Finishing
      <3>2. QED
        BY <3>1, OnceFrame DEF OnceInv, ChunkHeld
    <2>2. CASE Delete(w)
      <3>1. /\ UNCHANGED <<nextId, body, nextBatch, pending, held>>
            /\ pc'[w] \notin Finishing
            /\ pc'[w] \in Completing => body[held[w].id].kind = "chunk"
            /\ \A v \in Workers : v # w => pc'[v] = pc[v]
        BY <2>2 DEF Delete, DeleteRow, TypeOK, Completing, Finishing
      <3>2. QED
        BY <3>1, OnceFrame DEF OnceInv, ChunkHeld
    <2>3. CASE FinishBatch(w)
      <3>1. /\ UNCHANGED <<nextId, body, nextBatch, pending, held>>
            /\ pc[w] \in Finishing /\ pc[w] \in Completing
            /\ \A v \in Workers : v # w => pc'[v] = pc[v]
        BY <2>3 DEF FinishBatch, TypeOK, Completing, Finishing
      <3>2. QED
        BY <3>1, OnceFrame DEF OnceInv, ChunkHeld
    <2>4. QED
      BY <1>3, <2>1, <2>2, <2>3, OnceComplete, OnceOnComplete DEF Proceed
  <1>4. ASSUME NEW w \in Workers, Abandon(w) PROVE OnceInv'
    <2>1. /\ UNCHANGED <<nextId, body, nextBatch, pending, held>>
          /\ pc'[w] = "idle"
          /\ \A v \in Workers : v # w => pc'[v] = pc[v]
      BY <1>4 DEF Abandon, Goto, TypeOK
    <2>2. "idle" \notin Completing \cup Finishing
      BY DEF Completing, Finishing
    <2>3. QED
      BY <2>1, <2>2, OnceFrame DEF OnceInv, ChunkHeld
  <1>5. CASE Tick \/ UNCHANGED vars
    BY <1>5, OnceFrame DEF Tick, OnceInv, ChunkHeld
  <1>6. QED
    BY <1>1, <1>2, <1>3, <1>4, <1>5 DEF Next

LEMMA OnceAlways == SafetySpec => []OnceInv
  <1>1. Init => OnceInv
    <2> SUFFICES ASSUME Init PROVE OnceInv
      OBVIOUS
    <2>1. Ids = {} /\ \A w \in Workers : pc[w] \notin Completing \cup Finishing
      BY DEF Init, Ids, Completing, Finishing
    <2>2. QED
      BY <2>1 DEF OnceInv, BatchRefs, ChunkHeld, FinalizedIsEmpty, FinishingIsFirst,
                  FinalizeUnique
  <1>2. QED
    BY <1>1, OnceStep, TypeCorrect, PTL DEF SafetySpec

(***************************************************************************)
(* However often a chunk is completed again by a worker that overran its   *)
(* reservation, a batch enqueues its on_complete job at most once.         *)
(***************************************************************************)
THEOREM BatchFinalizedOnce == SafetySpec => []FinalizeOnce
  <1>1. OnceInv => FinalizeOnce
    BY DEF OnceInv, FinalizeUnique, IsFinalize, FinalizeOnce, FinalizesOf
  <1>2. QED
    BY <1>1, OnceAlways, PTL
-----------------------------------------------------------------------------
(* Within the lease, a row has at most one worker *)

LeaseHeld ==
    \A w \in Workers : pc[w] \in Claiming =>
        /\ held[w].id \in live
        /\ reserved[held[w].id] \in Nat
        /\ reserved[held[w].id] <= ReservationTimeout

LeaseInv == LeaseHeld /\ ExclusiveClaim

(***************************************************************************)
(* Steps by which no worker gains a claim and no claimed row is touched.   *)
(***************************************************************************)
LEMMA LeaseFrame ==
  ASSUME TypeOK, LeaseInv,
         \A v \in Workers : pc'[v] \in Claiming =>
            /\ pc[v] \in Claiming /\ held'[v] = held[v]
            /\ held[v].id \in live'
            /\ reserved'[held[v].id] = reserved[held[v].id]
  PROVE  LeaseInv'
  BY DEF LeaseInv, LeaseHeld, ExclusiveClaim

LEMMA LeaseReserve ==
  ASSUME TypeOK, LeaseInv, NEW w \in Workers, NEW q \in Queues, Reserve(w, q)
  PROVE  LeaseInv'
  <1> USE QueueAssumption
  <1>1. PICK i \in Available(q) : Reserve(w, q)!2!(i)
    BY DEF Reserve
  <1>2. i \in live /\ i \in JobId /\ live' = live
    BY DEF Available, TypeOK, Reserve
  <1>3. \A v \in Workers : pc[v] \in Claiming =>
            /\ held[v].id # i /\ v # w
            /\ held[v].id \in JobId
            /\ reserved'[held[v].id] = reserved[held[v].id]
    <2> SUFFICES ASSUME NEW v \in Workers, pc[v] \in Claiming
                 PROVE  /\ held[v].id # i /\ v # w
                        /\ held[v].id \in JobId
                        /\ reserved'[held[v].id] = reserved[held[v].id]
      OBVIOUS
    <2>1. held[v].id \in live /\ reserved[held[v].id] \in Nat
          /\ reserved[held[v].id] <= ReservationTimeout
      BY DEF LeaseInv, LeaseHeld
    <2>2. held[v].id \notin Stale
      BY <2>1 DEF Stale
    <2>3. held[v].id \notin Available(q)
      BY <2>1, <2>2 DEF Available
    <2>4. v # w
      BY DEF Reserve, Claiming
    <2>5. QED
      BY <1>1, <2>1, <2>2, <2>3, <2>4 DEF TypeOK
  <1>4. CASE UNCHANGED workerVars
    BY <1>2, <1>3, <1>4, LeaseFrame DEF workerVars, LeaseInv, LeaseHeld
  <1>5. CASE /\ pc' = [pc EXCEPT ![w] = "run"]
             /\ held' = [held EXCEPT ![w] = [id |-> i, attempts |-> attempts'[i]]]
    <2>1. held'[w].id = i /\ reserved'[i] = 0
      BY <1>1, <1>2, <1>5 DEF TypeOK
    <2>2. \A v \in Workers : v # w => pc'[v] = pc[v] /\ held'[v] = held[v]
      BY <1>5 DEF TypeOK
    <2>3. QED
      BY <1>2, <1>3, <2>1, <2>2 DEF LeaseInv, LeaseHeld, ExclusiveClaim
  <1>6. QED
    BY <1>1, <1>4, <1>5

LEMMA LeaseStep ==
  ASSUME ~AllowOverrun, TypeOK, LeaseInv, [Next]_vars
  PROVE  LeaseInv'
  <1> USE DEF vars, jobVars, batchVars, workerVars, historyVars, Goto
  <1>1. CASE Produce
    <2>1. live \subseteq live' /\ UNCHANGED <<reserved, pc, held>>
      BY <1>1 DEF Produce, Enqueue, EnqueueBatch, Insert
    <2>2. QED
      BY <2>1, LeaseFrame DEF LeaseInv, LeaseHeld
  <1>2. ASSUME NEW w \in Workers, Proceed(w) PROVE LeaseInv'
    <2>1. CASE ProcessOk(w) \/ ProcessErr(w) \/ FailInsert(w)
      <3>1. /\ UNCHANGED <<live, reserved, held>>
            /\ pc[w] \in Claiming
            /\ \A v \in Workers : v # w => pc'[v] = pc[v]
        BY <2>1 DEF ProcessOk, ProcessErr, FailInsert, TypeOK, Claiming
      <3>2. QED
        BY <3>1, LeaseFrame DEF LeaseInv, LeaseHeld
    <2>2. CASE Delete(w) \/ FailDelete(w) \/ Release(w)
      <3>1. /\ held' = held /\ pc[w] \in Claiming /\ pc'[w] \notin Claiming
            /\ \A v \in Workers : v # w => pc'[v] = pc[v]
        BY <2>2 DEF Delete, FailDelete, Release, DeleteRow, TypeOK, Claiming
      <3>2. /\ live \ {held[w].id} \subseteq live'
            /\ \A i \in JobId : i # held[w].id => reserved'[i] = reserved[i]
        BY <2>2 DEF Delete, FailDelete, Release, DeleteRow, TypeOK
      <3>3. \A v \in Workers : v # w /\ pc[v] \in Claiming =>
                /\ held[v].id # held[w].id
                /\ held[v].id \in live /\ held[v].id \in JobId
        BY <3>1 DEF LeaseInv, LeaseHeld, ExclusiveClaim, TypeOK
      <3>4. QED
        BY <3>1, <3>2, <3>3, LeaseFrame
    <2>3. CASE CompleteBatchJob(w) \/ FinishBatch(w)
      <3>1. /\ UNCHANGED <<live, reserved, held>>
            /\ pc'[w] \notin Claiming
            /\ \A v \in Workers : v # w => pc'[v] = pc[v]
        BY <2>3 DEF CompleteBatchJob, FinishBatch, TypeOK, Claiming
      <3>2. QED
        BY <3>1, LeaseFrame DEF LeaseInv, LeaseHeld
    <2>4. CASE EnqueueOnComplete(w)
      <3>1. /\ live \subseteq live' /\ UNCHANGED <<reserved, held>>
            /\ pc'[w] \notin Claiming
            /\ \A v \in Workers : v # w => pc'[v] = pc[v]
        BY <2>4 DEF EnqueueOnComplete, Insert, TypeOK, Claiming
      <3>2. QED
        BY <3>1, LeaseFrame DEF LeaseInv, LeaseHeld
    <2>5. QED
      BY <1>2, <2>1, <2>2, <2>3, <2>4 DEF Proceed
  <1>3. ASSUME NEW w \in Workers, Abandon(w) PROVE LeaseInv'
    <2>1. /\ UNCHANGED <<live, reserved, held>>
          /\ pc'[w] \notin Claiming
          /\ \A v \in Workers : v # w => pc'[v] = pc[v]
      BY <1>3 DEF Abandon, TypeOK, Claiming
    <2>2. QED
      BY <2>1, LeaseFrame DEF LeaseInv, LeaseHeld
  <1>4. CASE Tick
    <2>1. UNCHANGED <<live, pc, held>> /\ \A w \in Workers : pc[w] \in Claiming => InLease(w)
      BY <1>4 DEF Tick
    <2>2. \A w \in Workers : pc[w] \in Claiming =>
              reserved'[held[w].id] = reserved[held[w].id] + 1
      BY <1>4, <2>1, QueueAssumption DEF Tick, InLease, LeaseInv, LeaseHeld, TypeOK
    <2>3. LeaseHeld'
      BY <2>1, <2>2, QueueAssumption DEF InLease, LeaseInv, LeaseHeld
    <2>4. ExclusiveClaim'
      BY <2>1 DEF LeaseInv, ExclusiveClaim
    <2>5. QED
      BY <2>3, <2>4 DEF LeaseInv
  <1>5. CASE UNCHANGED vars
    BY <1>5, LeaseFrame DEF LeaseInv, LeaseHeld
  <1>6. QED
    BY <1>1, <1>2, <1>3, <1>4, <1>5, LeaseReserve DEF Next

LEMMA LeaseInit == Init => LeaseInv
  BY DEF Init, LeaseInv, LeaseHeld, ExclusiveClaim, Claiming

(***************************************************************************)
(* If every job is deleted or released before its reservation expires, two *)
(* workers never work on one row at the same time.                         *)
(***************************************************************************)
THEOREM ClaimsAreExclusive ==
  ASSUME ~AllowOverrun
  PROVE  SafetySpec => []ExclusiveClaim
  <1>1. TypeOK /\ LeaseInv /\ [Next]_vars => LeaseInv'
    BY LeaseStep
  <1>2. LeaseInv => ExclusiveClaim
    BY DEF LeaseInv
  <1>3. QED
    BY <1>1, <1>2, LeaseInit, TypeCorrect, PTL DEF SafetySpec
-----------------------------------------------------------------------------
(* The finalize job waits for every chunk *)

Remaining(b) == ChunksOf(b) \ counted

CountedOnce ==
    /\ counted \subseteq succeeded
    /\ counted \cap live = {}
    /\ \A w \in Workers : pc[w] = "complete" =>
        held[w].id \in succeeded /\ held[w].id \notin live \cup counted
    /\ \A v, w \in Workers :
        pc[v] = "complete" /\ pc[w] = "complete" /\ held[v].id = held[w].id => v = w

PendingExact == \A b \in Batches : pending[b] = Cardinality(Remaining(b))

(***************************************************************************)
(* The inductive invariant of the gate: pending_jobs is exactly the number *)
(* of chunks that have not yet decremented it, and each does so once.      *)
(***************************************************************************)
CountInv == CountedOnce /\ PendingExact

LEMMA RemainingFinite ==
  ASSUME TypeOK, NEW b
  PROVE  IsFiniteSet(Remaining(b))
  <1>1. IsFiniteSet(Ids)
    BY FS_Interval DEF TypeOK, Ids
  <1>2. Remaining(b) \subseteq Ids
    BY DEF Remaining, ChunksOf
  <1>3. QED
    BY <1>1, <1>2, FS_Subset

LEMMA PendingFrame ==
  ASSUME PendingExact, UNCHANGED <<nextId, body, nextBatch, pending, counted>>
  PROVE  PendingExact'
  BY DEF PendingExact, Remaining, ChunksOf, Ids, Batches

(***************************************************************************)
(* Inserting a row that is not a chunk leaves every batch as it is.        *)
(***************************************************************************)
LEMMA PendingInsert ==
  ASSUME TypeOK, PendingExact, NEW bd, NEW d, Insert(1, bd, d), nextId \in JobId,
         bd.kind # "chunk", UNCHANGED <<nextBatch, pending, counted>>
  PROVE  PendingExact'
  <1>1. \A b : ChunksOf(b)' = ChunksOf(b)
    <2>1. /\ Ids' = Ids \cup {nextId} /\ nextId \notin Ids
          /\ \A i \in Ids : body'[i] = body[i]
          /\ body'[nextId] = bd
      BY QueueAssumption DEF TypeOK, Insert, Ids, JobId
    <2>2. QED
      BY <2>1 DEF ChunksOf
  <1>2. QED
    BY <1>1 DEF PendingExact, Remaining, Batches

LEMMA RunCardinality ==
  ASSUME NEW a \in Nat, NEW n \in Nat \ {0}
  PROVE  Cardinality(a..(a + n - 1)) = n
  <1> DEFINE z == a + n - 1
  <1>1. z \in Int /\ a \in Int /\ a <= z /\ z - a + 1 = n
    OBVIOUS
  <1> HIDE DEF z
  <1>2. Cardinality(a..z) = IF a > z THEN 0 ELSE z - a + 1
    BY <1>1, FS_Interval
  <1>3. Cardinality(a..z) = n
    BY <1>1, <1>2
  <1>4. QED
    BY <1>3 DEF z

LEMMA PendingEnqueueBatch ==
  ASSUME TypeOK, OnceInv, PendingExact,
         NEW q, NEW n \in BatchSizes, NEW oc, EnqueueBatch(q, n, oc)
  PROVE  PendingExact'
  <1> DEFINE new == nextId..(nextId + n - 1)
  <1>1. /\ n \in Nat \ {0} /\ nextId \in Nat /\ counted' = counted
        /\ Ids' = Ids \cup new
        /\ \A i \in Ids : i \notin new /\ body'[i] = body[i]
        /\ \A i \in new : body'[i].kind = "chunk" /\ body'[i].batch = nextBatch
    BY QueueAssumption DEF EnqueueBatch, Insert, TypeOK, Ids, JobId, historyVars
  <1>2. /\ Batches' = Batches \cup {nextBatch} /\ nextBatch \notin Batches
        /\ \A b \in Batches : pending'[b] = pending[b]
        /\ pending'[nextBatch] = n
    BY DEF EnqueueBatch, TypeOK, Batches
  <1>3. Cardinality(new) = n
    BY <1>1, RunCardinality
  <1> HIDE DEF new
  <1>4. \A b \in Batches : Remaining(b)' = Remaining(b)
    BY <1>1, <1>2 DEF Remaining, ChunksOf
  <1>5. PICK nb : nb = nextBatch
    OBVIOUS
  <1>6. Remaining(nb)' = new
    <2>1. ChunksOf(nb)' = new
      BY <1>1, <1>2, <1>5 DEF ChunksOf, OnceInv, BatchRefs
    <2>2. counted \subseteq Ids
      BY DEF TypeOK
    <2>3. QED
      BY <1>1, <2>1, <2>2 DEF Remaining
  <1>7. QED
    BY <1>2, <1>3, <1>4, <1>5, <1>6 DEF PendingExact

LEMMA PendingComplete ==
  ASSUME TypeOK, OnceInv, CountInv, NEW w \in Workers, CompleteBatchJob(w)
  PROVE  PendingExact'
  <1>0. PICK b, i : b = BatchOf(w) /\ i = held[w].id
    OBVIOUS
  <1>1. UNCHANGED <<nextId, body, nextBatch>> /\ pc[w] = "complete"
    BY DEF CompleteBatchJob, jobVars
  <1>2. i \in ChunksOf(b) /\ b \in Batches /\ b \in BatchId
    BY <1>0, <1>1 DEF TypeOK, OnceInv, ChunkHeld, Completing, BatchRefs, BatchOf, ChunksOf
  <1>3. i \in Remaining(b)
    BY <1>0, <1>1, <1>2 DEF CountInv, CountedOnce, Remaining
  <1>4. CASE pending[b] > 0
    <2>1. pending' = [pending EXCEPT ![b] = @ - 1] /\ counted' = counted \cup {i}
      BY <1>0, <1>4 DEF CompleteBatchJob, BatchOf
    <2>2. \A c : ChunksOf(c)' = ChunksOf(c)
      BY <1>1 DEF ChunksOf, Ids
    <2>3. Remaining(b)' = Remaining(b) \ {i}
      BY <2>1, <2>2 DEF Remaining
    <2>4. \A c \in Batches : c # b => Remaining(c)' = Remaining(c)
      BY <1>2, <2>1, <2>2 DEF Remaining, ChunksOf
    <2>5. Cardinality(Remaining(b) \ {i}) = Cardinality(Remaining(b)) - 1
      BY <1>3, RemainingFinite, FS_RemoveElement
    <2>6. pending'[b] = pending[b] - 1 /\ \A c \in Batches : c # b => pending'[c] = pending[c]
      BY <1>2, <2>1 DEF TypeOK
    <2>7. QED
      BY <1>1, <1>2, <2>3, <2>4, <2>5, <2>6 DEF CountInv, PendingExact, Batches
  <1>5. CASE ~(pending[b] > 0)
    <2>1. UNCHANGED <<pending, counted>>
      BY <1>0, <1>5 DEF CompleteBatchJob, BatchOf
    <2>2. QED
      BY <1>1, <2>1, PendingFrame DEF CountInv
  <1>6. QED
    BY <1>4, <1>5

(***************************************************************************)
(* Steps that count nothing, delete only, and let no worker reach          *)
(* CompleteBatchJob.                                                       *)
(***************************************************************************)
LEMMA CountedFrame ==
  ASSUME TypeOK, CountedOnce, counted' = counted, succeeded \subseteq succeeded',
         live' \cap Ids \subseteq live,
         \A v \in Workers : pc'[v] = "complete" => pc[v] = "complete" /\ held'[v] = held[v]
  PROVE  CountedOnce'
  <1>1. \A v \in Workers : pc[v] = "complete" => held[v].id \in Ids
    BY DEF TypeOK
  <1>2. counted \subseteq Ids
    BY DEF TypeOK
  <1>3. QED
    BY <1>1, <1>2 DEF CountedOnce
LEMMA CountStep ==
  ASSUME ~AllowDeleteLoss, TypeOK, LostInv, OnceInv, LeaseInv, CountInv, [Next]_vars
  PROVE  CountInv'
  <1> USE DEF CountInv, vars, jobVars, batchVars, workerVars, historyVars, Goto
  <1>1. CASE Produce
    <2>1. /\ UNCHANGED <<counted, succeeded, pc, held>>
          /\ live' \cap Ids \subseteq live
      BY <1>1, QueueAssumption DEF Produce, Enqueue, EnqueueBatch, Insert, TypeOK, Ids
    <2>2. CountedOnce'
      BY <2>1, CountedFrame
    <2>3. ASSUME NEW q, NEW k \in Kinds, NEW d, Enqueue(q, k, d) PROVE PendingExact'
      <3> DEFINE bd == [queue |-> q, kind |-> k, batch |-> 0]
      <3>1. bd.kind # "chunk"
        BY QueueAssumption DEF PlainKinds
      <3>2. Insert(1, bd, d) /\ nextId \in JobId /\ UNCHANGED <<nextBatch, pending, counted>>
        BY <2>3, QueueAssumption DEF Enqueue, TypeOK, JobId
      <3> HIDE DEF bd
      <3>3. QED
        BY <3>1, <3>2, PendingInsert
    <2>4. QED
      BY <1>1, <2>2, <2>3, PendingEnqueueBatch DEF Produce
  <1>2. ASSUME NEW w \in Workers, NEW q \in Queues, Reserve(w, q) PROVE CountInv'
    <2>1. \A v \in Workers : pc'[v] = "complete" => pc[v] = "complete" /\ held'[v] = held[v]
      BY <1>2 DEF Reserve, TypeOK
    <2>2. QED
      BY <1>2, <2>1, CountedFrame, PendingFrame DEF Reserve
  <1>3. ASSUME NEW w \in Workers, Proceed(w) PROVE CountInv'
    <2>1. CASE ProcessOk(w) \/ ProcessErr(w) \/ Release(w) \/ FailInsert(w) \/ FailDelete(w)
      <3>1. /\ UNCHANGED <<nextId, body, nextBatch, pending, counted, held>>
            /\ succeeded \subseteq succeeded' /\ live' \subseteq live
            /\ pc'[w] # "complete"
            /\ \A v \in Workers : v # w => pc'[v] = pc[v]
        BY <2>1 DEF ProcessOk, ProcessErr, Release, FailInsert, FailDelete, DeleteRow, TypeOK
      <3>2. QED
        BY <3>1, CountedFrame, PendingFrame
    <2>2. CASE Delete(w)
      <3>1. /\ UNCHANGED <<nextId, body, nextBatch, pending, counted, succeeded, held>>
            /\ live' = live \ {held[w].id}
            /\ pc[w] = "ok"
            /\ \A v \in Workers : v # w => pc'[v] = pc[v]
        BY <2>2 DEF Delete, DeleteRow, TypeOK
      <3>2. held[w].id \in live /\ held[w].id \in succeeded
        BY <3>1 DEF LeaseInv, LeaseHeld, Claiming, LostInv, Recorded
      <3>3. held[w].id \notin counted
        BY <3>2 DEF CountedOnce
      <3>4. \A v \in Workers : pc[v] = "complete" => held[v].id # held[w].id
        BY <3>2 DEF CountedOnce
      <3>5. CountedOnce'
        BY <3>1, <3>2, <3>3, <3>4 DEF CountedOnce
      <3>6. QED
        BY <3>1, <3>5, PendingFrame
    <2>3. CASE CompleteBatchJob(w)
      <3>1. /\ UNCHANGED <<succeeded, live, held>>
            /\ counted' \subseteq counted \cup {held[w].id} /\ counted \subseteq counted'
            /\ pc[w] = "complete" /\ pc'[w] # "complete"
            /\ \A v \in Workers : v # w => pc'[v] = pc[v]
        BY <2>3 DEF CompleteBatchJob, TypeOK
      <3>2. CountedOnce'
        BY <3>1 DEF CountedOnce
      <3>3. QED
        BY <2>3, <3>2, PendingComplete
    <2>4. CASE FinishBatch(w)
      <3>1. /\ UNCHANGED <<nextId, body, nextBatch, pending, counted, succeeded, live, held>>
            /\ pc'[w] # "complete"
            /\ \A v \in Workers : v # w => pc'[v] = pc[v]
        BY <2>4 DEF FinishBatch, TypeOK
      <3>2. QED
        BY <3>1, CountedFrame, PendingFrame
    <2>5. CASE EnqueueOnComplete(w)
      <3> DEFINE c == body[held[w].id]
                 bd == [queue |-> c.queue, kind |-> "finalize", batch |-> c.batch]
      <3>1. /\ UNCHANGED <<nextBatch, pending, counted, succeeded, held>>
            /\ pc'[w] # "complete"
            /\ \A v \in Workers : v # w => pc'[v] = pc[v]
        BY <2>5 DEF EnqueueOnComplete, TypeOK
      <3>2. Insert(1, bd, 0) /\ nextId \in JobId /\ bd.kind # "chunk"
        BY <2>5 DEF EnqueueOnComplete
      <3> HIDE DEF bd
      <3>3. PendingExact'
        BY <3>1, <3>2, PendingInsert
      <3>4. live' \cap Ids \subseteq live
        BY <3>2 DEF Insert, Ids, TypeOK
      <3>5. QED
        BY <3>1, <3>3, <3>4, CountedFrame
    <2>6. QED
      BY <1>3, <2>1, <2>2, <2>3, <2>4, <2>5 DEF Proceed
  <1>4. ASSUME NEW w \in Workers, Abandon(w) PROVE CountInv'
    <2>1. /\ UNCHANGED <<nextId, body, nextBatch, pending, counted, succeeded, live, held>>
          /\ pc'[w] # "complete"
          /\ \A v \in Workers : v # w => pc'[v] = pc[v]
      BY <1>4 DEF Abandon, TypeOK
    <2>2. QED
      BY <2>1, CountedFrame, PendingFrame
  <1>5. CASE Tick \/ UNCHANGED vars
    BY <1>5, CountedFrame, PendingFrame DEF Tick
  <1>6. QED
    BY <1>1, <1>2, <1>3, <1>4, <1>5 DEF Next

LEMMA GateFromCount ==
  ASSUME TypeOK, OnceInv, CountInv
  PROVE  FinalizeGate
  <1> SUFFICES ASSUME NEW b \in Batches, NEW f \in FinalizesOf(b)
               PROVE  ChunksOf(b) \subseteq succeeded
    BY DEF FinalizeGate
  <1>1. pending[b] = 0
    BY DEF FinalizesOf, OnceInv, FinalizedIsEmpty
  <1>2. Remaining(b) = {}
    BY <1>1, RemainingFinite, FS_EmptySet DEF CountInv, PendingExact
  <1>3. QED
    BY <1>2 DEF Remaining, CountInv, CountedOnce

LEMMA CountAlways ==
  ASSUME ~AllowOverrun, ~AllowDeleteLoss
  PROVE  SafetySpec => []CountInv
  <1>1. Init => LostInv
    BY DEF Init, LostInv, NoJobLost, Recorded, Ids
  <1>2. Init => CountInv
    BY DEF Init, CountInv, CountedOnce, PendingExact, Batches
  <1>3. TypeOK /\ LeaseInv /\ [Next]_vars => LeaseInv'
    BY LeaseStep
  <1>4. TypeOK /\ LostInv /\ OnceInv /\ LeaseInv /\ CountInv /\ [Next]_vars => CountInv'
    BY CountStep
  <1>5. QED
    BY <1>1, <1>2, <1>3, <1>4, LostStep, LeaseInit, OnceAlways, TypeCorrect, PTL
    DEF SafetySpec

(***************************************************************************)
(* If every job is deleted or released before its reservation expires and  *)
(* no DELETE fails, the on_complete job of a batch exists only when every  *)
(* chunk of the batch has succeeded, whatever crashes and retries occur.   *)
(***************************************************************************)
THEOREM FinalizeWaitsForChunks ==
  ASSUME ~AllowOverrun, ~AllowDeleteLoss
  PROVE  SafetySpec => []FinalizeGate
  <1>1. TypeOK /\ OnceInv /\ CountInv => FinalizeGate
    BY GateFromCount
  <1>2. QED
    BY <1>1, CountAlways, OnceAlways, TypeCorrect, PTL
-----------------------------------------------------------------------------
(* The queue implements the barrier *)

(***************************************************************************)
(* The barrier is a function of the bodies of the jobs inserted so far and *)
(* of the jobs that succeeded: steps that leave these alone are invisible. *)
(***************************************************************************)
LEMMA BarrierFrame ==
  ASSUME UNCHANGED <<nextId, body, succeeded>>
  PROVE  UNCHANGED Barrier!vars
  BY DEF Barrier!vars, ChunksOf, FinalizesOf, Ids

LEMMA BarrierInit == Init => Barrier!Init
  <1> SUFFICES ASSUME Init PROVE Barrier!Init
    OBVIOUS
  <1>1. Ids = {} /\ succeeded = {}
    BY DEF Init, Ids
  <1>2. \A b \in BatchId : ChunksOf(b) = {} /\ FinalizesOf(b) = {}
    BY <1>1 DEF ChunksOf, FinalizesOf
  <1>3. Cardinality({}) = 0
    BY FS_EmptySet
  <1>4. QED
    BY <1>1, <1>2, <1>3 DEF Barrier!Init

(***************************************************************************)
(* A plain Enqueue is invisible.                                           *)
(***************************************************************************)
LEMMA BarrierEnqueue ==
  ASSUME TypeOK, NEW q, NEW k \in Kinds, NEW d, Enqueue(q, k, d)
  PROVE  UNCHANGED Barrier!vars
  <1>1. /\ Ids' = Ids \cup {nextId} /\ nextId \notin Ids
        /\ \A i \in Ids : body'[i] = body[i]
        /\ body'[nextId].kind \notin {"chunk", "finalize"}
        /\ succeeded' = succeeded
    BY QueueAssumption
    DEF Enqueue, Insert, TypeOK, Ids, JobId, PlainKinds, historyVars
  <1>2. \A b \in BatchId : ChunksOf(b)' = ChunksOf(b) /\ FinalizesOf(b)' = FinalizesOf(b)
    BY <1>1 DEF ChunksOf, FinalizesOf
  <1>3. {i \in succeeded : body[i].kind = "chunk"}'
          = {i \in succeeded : body[i].kind = "chunk"}
    BY <1>1 DEF TypeOK
  <1>4. QED
    BY <1>2, <1>3 DEF Barrier!vars

(***************************************************************************)
(* EnqueueBatch: the batch is there with all of its chunks.                *)
(***************************************************************************)
LEMMA BarrierEnqueueBatch ==
  ASSUME TypeOK, OnceInv, NEW q, NEW n \in BatchSizes, NEW oc, EnqueueBatch(q, n, oc)
  PROVE  Barrier!Next
  <1>0. PICK b, new : b = nextBatch /\ new = nextId..(nextId + n - 1)
    OBVIOUS
  <1>a. /\ Ids' = Ids \cup new
        /\ \A i \in Ids : i \notin new /\ body'[i] = body[i]
        /\ \A i \in new : body'[i].kind = "chunk" /\ body'[i].batch = b
    BY <1>0, QueueAssumption DEF EnqueueBatch, Insert, TypeOK, Ids, JobId
  <1>b. new \subseteq JobId /\ new # {}
    <2>1. n \in Nat \ {0} /\ nextId \in Nat \ {0} /\ nextId + n <= MaxSubmitted + 1
      BY QueueAssumption DEF EnqueueBatch, TypeOK
    <2>2. nextId \in new
      BY <1>0, <2>1
    <2>3. new \subseteq JobId
      BY <1>0, <2>1, QueueAssumption DEF JobId
    <2>4. QED
      BY <2>2, <2>3
  <1>1. /\ Ids' = Ids \cup new /\ new \subseteq JobId /\ new # {}
        /\ \A i \in Ids : i \notin new /\ body'[i] = body[i]
        /\ \A i \in new : body'[i].kind = "chunk" /\ body'[i].batch = b
        /\ succeeded' = succeeded
    BY <1>a, <1>b DEF EnqueueBatch, historyVars
  <1>2. b \in BatchId /\ b \notin Batches
    BY <1>0 DEF EnqueueBatch, TypeOK, Batches
  <1>3. ChunksOf(b) = {} /\ ChunksOf(b)' = new
    BY <1>1, <1>2 DEF ChunksOf, OnceInv, BatchRefs
  <1>4. \A c \in BatchId : c # b => ChunksOf(c)' = ChunksOf(c)
    BY <1>1 DEF ChunksOf
  <1>5. \A c \in BatchId : FinalizesOf(c)' = FinalizesOf(c)
    BY <1>1 DEF FinalizesOf
  <1>6. {i \in succeeded : body[i].kind = "chunk"}'
          = {i \in succeeded : body[i].kind = "chunk"}
    BY <1>1 DEF TypeOK
  <1>7. \A c \in BatchId : new \cap ChunksOf(c) = {}
    BY <1>1 DEF ChunksOf
  <1>8. Barrier!Enqueue(b, new)
    <2> DEFINE members == [c \in BatchId |-> ChunksOf(c)]
    <2>1. members[b] = {} /\ new \cap UNION {members[c] : c \in BatchId} = {}
      BY <1>2, <1>3, <1>7
    <2>2. members' = [members EXCEPT ![b] = new]
      BY <1>2, <1>3, <1>4
    <2>3. [c \in BatchId |-> Cardinality(FinalizesOf(c))]'
            = [c \in BatchId |-> Cardinality(FinalizesOf(c))]
      BY <1>5
    <2>4. QED
      BY <1>1, <1>6, <2>1, <2>2, <2>3 DEF Barrier!Enqueue
  <1>9. QED
    BY <1>1, <1>2, <1>8 DEF Barrier!Next

(***************************************************************************)
(* A handler that succeeds: a chunk of its batch, or nothing the barrier   *)
(* knows of.                                                               *)
(***************************************************************************)
LEMMA BarrierSucceed ==
  ASSUME TypeOK, OnceInv, NEW w \in Workers, ProcessOk(w)
  PROVE  Barrier!Next \/ UNCHANGED Barrier!vars
  <1>0. PICK i : i = held[w].id
    OBVIOUS
  <1>1. i \in Ids /\ i \in JobId
    BY <1>0 DEF ProcessOk, TypeOK
  <1>2. UNCHANGED <<nextId, body>> /\ succeeded' = succeeded \cup {i}
    BY <1>0 DEF ProcessOk, jobVars
  <1>3. \A c \in BatchId : ChunksOf(c)' = ChunksOf(c) /\ FinalizesOf(c)' = FinalizesOf(c)
    BY <1>2 DEF ChunksOf, FinalizesOf, Ids
  <1>4. CASE body[i].kind = "chunk"
    <2>1. PICK b \in BatchId : i \in ChunksOf(b)
      BY <1>1, <1>4 DEF OnceInv, BatchRefs, ChunksOf, TypeOK
    <2>2. {j \in succeeded : body[j].kind = "chunk"}'
            = {j \in succeeded : body[j].kind = "chunk"} \cup {i}
      BY <1>2, <1>4
    <2>3. Barrier!Succeed(b, i)
      BY <1>3, <2>1, <2>2 DEF Barrier!Succeed
    <2>4. QED
      BY <1>1, <2>1, <2>3 DEF Barrier!Next
  <1>5. CASE body[i].kind # "chunk"
    <2>1. {j \in succeeded : body[j].kind = "chunk"}'
            = {j \in succeeded : body[j].kind = "chunk"}
      BY <1>2, <1>5
    <2>2. QED
      BY <1>3, <2>1 DEF Barrier!vars
  <1>6. QED
    BY <1>4, <1>5

(***************************************************************************)
(* The on_complete job: every chunk has succeeded, and it is the first.    *)
(***************************************************************************)
LEMMA BarrierComplete ==
  ASSUME TypeOK, OnceInv, CountInv, NEW w \in Workers, EnqueueOnComplete(w)
  PROVE  Barrier!Next
  <1>a. PICK b : b = BatchOf(w)
    OBVIOUS
  <1>0. pc[w] = "onComplete" /\ pc[w] \in Completing /\ pc[w] \in Finishing
    BY DEF EnqueueOnComplete, Completing, Finishing
  <1>1. held[w].id \in Ids /\ body[held[w].id].kind = "chunk" /\ b \in Batches /\ b \in BatchId
    BY <1>a, <1>0 DEF TypeOK, OnceInv, ChunkHeld, BatchRefs, BatchOf
  <1>2. held[w].id \in ChunksOf(b)
    BY <1>a, <1>1 DEF ChunksOf, BatchOf
  <1>3. pending[b] = 0 /\ FinalizesOf(b) = {}
    BY <1>a, <1>0 DEF OnceInv, FinishingIsFirst, IsFinalize, FinalizesOf
  <1>4. PICK f : /\ Ids' = Ids \cup {f} /\ f \notin Ids
                 /\ \A i \in Ids : body'[i] = body[i]
                 /\ body'[f].kind = "finalize" /\ body'[f].batch = b
                 /\ succeeded' = succeeded
    <2> DEFINE c == body[held[w].id]
               bd == [queue |-> c.queue, kind |-> "finalize", batch |-> c.batch]
    <2>1. Insert(1, bd, 0) /\ nextId \in JobId /\ succeeded' = succeeded
      BY DEF EnqueueOnComplete, historyVars
    <2>2. bd.kind = "finalize" /\ bd.batch = b
      BY <1>a DEF BatchOf
    <2> HIDE DEF bd
    <2>3. /\ Ids' = Ids \cup {nextId} /\ nextId \notin Ids
          /\ \A i \in Ids : body'[i] = body[i]
          /\ body'[nextId] = bd
      BY <2>1, QueueAssumption DEF Insert, TypeOK, Ids, JobId
    <2>4. QED
      BY <2>1, <2>2, <2>3
  <1>5. Remaining(b) = {}
    BY <1>1, <1>3, RemainingFinite, FS_EmptySet DEF CountInv, PendingExact
  <1>6. ChunksOf(b) \subseteq {i \in succeeded : body[i].kind = "chunk"}
    BY <1>5 DEF Remaining, CountInv, CountedOnce, ChunksOf
  <1>7. \A c \in BatchId : ChunksOf(c)' = ChunksOf(c)
    BY <1>4 DEF ChunksOf
  <1>8. \A c \in BatchId : c # b => FinalizesOf(c)' = FinalizesOf(c)
    BY <1>4 DEF FinalizesOf
  <1>9. FinalizesOf(b)' = {f}
    BY <1>3, <1>4 DEF FinalizesOf
  <1>10. Cardinality(FinalizesOf(b)) = 0 /\ Cardinality(FinalizesOf(b)') = 1
    BY <1>3, <1>9, FS_EmptySet, FS_Singleton
  <1>11. {i \in succeeded : body[i].kind = "chunk"}'
           = {i \in succeeded : body[i].kind = "chunk"}
    BY <1>4 DEF TypeOK
  <1>12. Barrier!Complete(b)
    BY <1>1, <1>2, <1>6, <1>7, <1>8, <1>10, <1>11 DEF Barrier!Complete
  <1>13. QED
    BY <1>1, <1>12 DEF Barrier!Next

LEMMA BarrierStep ==
  ASSUME TypeOK, OnceInv, CountInv, [Next]_vars
  PROVE  Barrier!Next \/ UNCHANGED Barrier!vars
  <1> USE DEF vars, jobVars, batchVars, workerVars, historyVars
  <1>1. CASE Produce
    BY <1>1, BarrierEnqueue, BarrierEnqueueBatch DEF Produce
  <1>2. ASSUME NEW w \in Workers, NEW q \in Queues, Reserve(w, q)
        PROVE  UNCHANGED Barrier!vars
    BY <1>2, BarrierFrame DEF Reserve
  <1>3. ASSUME NEW w \in Workers, Proceed(w)
        PROVE  Barrier!Next \/ UNCHANGED Barrier!vars
    <2>1. CASE ProcessOk(w)
      BY <2>1, BarrierSucceed
    <2>2. CASE EnqueueOnComplete(w)
      BY <2>2, BarrierComplete
    <2>3. CASE ProcessErr(w) \/ Delete(w) \/ Release(w) \/ FailInsert(w) \/ FailDelete(w)
               \/ CompleteBatchJob(w) \/ FinishBatch(w)
      <3>1. UNCHANGED <<nextId, body, succeeded>>
        BY <2>3
        DEF ProcessErr, Delete, DeleteRow, Release, FailInsert, FailDelete,
            CompleteBatchJob, FinishBatch
      <3>2. QED
        BY <3>1, BarrierFrame
    <2>4. QED
      BY <1>3, <2>1, <2>2, <2>3 DEF Proceed
  <1>4. ASSUME NEW w \in Workers, Abandon(w) PROVE UNCHANGED Barrier!vars
    BY <1>4, BarrierFrame DEF Abandon
  <1>5. CASE Tick \/ UNCHANGED vars
    BY <1>5, BarrierFrame DEF Tick
  <1>6. QED
    BY <1>1, <1>2, <1>3, <1>4, <1>5 DEF Next

(***************************************************************************)
(* EnqueueBatch keeps its promise: with jobs that end within their lease   *)
(* and DELETEs that succeed, every behaviour of the queue, with any number *)
(* of workers, crashes and retries, is one of BatchBarrier, in which a     *)
(* batch appears whole, its jobs succeed in any order and on_complete      *)
(* comes once and last.                                                    *)
(***************************************************************************)
THEOREM QueueImplementsBarrier ==
  ASSUME ~AllowOverrun, ~AllowDeleteLoss
  PROVE  SafetySpec => ImplementsBarrier
  <1>1. TypeOK /\ OnceInv /\ CountInv /\ [Next]_vars => [Barrier!Next]_(Barrier!vars)
    BY BarrierStep
  <1>2. QED
    BY <1>1, BarrierInit, CountAlways, OnceAlways, TypeCorrect, PTL
    DEF SafetySpec, ImplementsBarrier, Barrier!Spec
=============================================================================
