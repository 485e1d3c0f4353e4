------------------------- MODULE SyncPipelineProofs -------------------------
(***************************************************************************)
(* Proofs about SyncPipeline, for every number of pages, chunks, faults    *)
(* and overlapping kickoffs: the next link in the cursor never skips a     *)
(* page, a sync is recorded as finished only over a complete mirror, and a *)
(* chunk job always finds its staged page.  And, while nothing has failed  *)
(* and no kickoffs have overlapped: a chain is carried on by some job.     *)
(*                                                                         *)
(* The mirror only grows, so what a handler has read, planned or been      *)
(* asked to do stays justified by the mirror once it is.  The invariant    *)
(* says that every cursor row held by a handler, every patch, every plan   *)
(* and every fetch's mode is justified: PlanOK of a page's plan holds for  *)
(* the mirror with that page added, and the batch counter makes finalize   *)
(* wait until the page is really there.                                    *)
(***************************************************************************)
EXTENDS SyncPipeline, FiniteSetTheorems, TLAPS

-----------------------------------------------------------------------------
(* The inductive invariant; M a mirror, S the staged pages, J the jobs.    *)

Page(p) == {p} \X (1..NumChunks)
Covered(M, u) == \A p \in 1..NumPages : p < u => Page(p) \subseteq M
Complete(M) == \A p \in 1..NumPages : Page(p) \subseteq M \/ (EmptyLast /\ p = NumPages)

CursorOK(M, c) ==
    /\ c \in Cursor
    /\ Covered(M, c.url)
    /\ c.fin # NULL => Complete(M)

PatchOK(M, p) ==
    /\ p \in Patch
    /\ Covered(M, p.url)
    /\ p.finish => Complete(M)

FetchOK(M, f) == f \in Fetch /\ (f.mode # "replication" => Complete(M))

PlanOK(M, pl) ==
    /\ pl \in Plan
    /\ PatchOK(M, pl.patch)
    /\ pl.next # NULL => FetchOK(M, pl.next)

KickoffOK(j) == j.pc = "start" /\ j.page = 0

FetchJobOK(M, S, j) ==
    /\ FetchOK(M, j.args)
    /\ j.pc \in {"start", "request", "read", "write", "store", "empty", "batch"}
    /\ j.pc # "batch" => j.page = 0
    /\ j.pc = "request" => MaxChain = 0 \/ j.args.depth < MaxChain
    /\ j.pc \in {"read", "write"} => PatchOK(M, j.patch) /\ j.after \in {"store", "end"}
    /\ j.pc \in {"read", "write"} /\ j.after = "store" => PlanOK(M \cup Page(j.part), j.plan)
    /\ j.pc \in {"store", "batch"} => PlanOK(M \cup Page(j.part), j.plan)
    /\ j.pc = "empty" => PlanOK(M, j.plan)
    /\ j.pc = "batch" => j.page \in Staged /\ S[j.page] = j.part

ChunkJobOK(M, S, j) ==
    /\ j.pc = "start"
    /\ j.page \in Staged /\ S[j.page] \in 0..NumPages
    /\ j.chunk \in 1..NumChunks
    /\ PlanOK(M \cup Page(S[j.page]), j.plan)

FinalizeJobOK(M, j) ==
    /\ j.pc \in {"start", "read", "write", "unstage", "next"}
    /\ PlanOK(M, j.plan)
    /\ j.pc \in {"read", "write"} => PatchOK(M, j.patch) /\ j.after = "unstage"

JobOK(M, S, j) ==
    /\ j \in Job
    /\ j.pc \in {"request", "write"} => CursorOK(M, j.snap)
    /\ j.snap # NULL => CursorOK(M, j.snap)
    /\ j.kind = "kickoff" => KickoffOK(j)
    /\ j.kind = "fetch" => FetchJobOK(M, S, j)
    /\ j.kind = "chunk" => ChunkJobOK(M, S, j)
    /\ j.kind = "finalize" => FinalizeJobOK(M, j)

(***************************************************************************)
(* Two jobs of one staged page are two different chunks of its batch.      *)
(***************************************************************************)
Apart(x, y) ==
    x.page # 0 /\ x.page = y.page =>
        x.kind = "chunk" /\ y.kind = "chunk" /\ x.chunk # y.chunk

JobsOK(M, S, J) ==
    /\ DOMAIN J = Slot
    /\ \A i \in Slot : J[i] # NULL => JobOK(M, S, J[i])
    /\ \A i, k \in Slot : i # k /\ J[i] # NULL /\ J[k] # NULL => Apart(J[i], J[k])

(***************************************************************************)
(* The batch counter of a page bounds the chunks that are still to come:   *)
(* the ones not in the mirror and the ones that have a job.                *)
(***************************************************************************)
Pending(J, s) ==
    {c \in 1..NumChunks : \E i \in Slot : /\ J[i] # NULL /\ J[i].kind = "chunk"
                                          /\ J[i].page = s /\ J[i].chunk = c}
Missing(M, p) == {c \in 1..NumChunks : <<p, c>> \notin M}
CountOK(M, S, J, L) ==
    \A s \in Staged :
        Pending(J, s) # {} => Cardinality(Missing(M, S[s]) \cup Pending(J, s)) <= L[s]

PipelineInv ==
    /\ staged \in [Staged -> (0..NumPages) \cup {NULL}]
    /\ mirror \subseteq (0..NumPages) \X (1..NumChunks)
    /\ left \in [Staged -> 0..NumChunks]
    /\ faults \in 0..MaxFaults /\ overlaps \in 0..MaxOverlaps
    /\ CursorOK(mirror, cursor)
    /\ JobsOK(mirror, staged, jobs)
    /\ CountOK(mirror, staged, jobs, left)

-----------------------------------------------------------------------------
(* What is justified by a mirror is justified by a larger one.             *)

LEMMA PageNumbers ==
    /\ NumPages \in Nat \ {0} /\ NumChunks \in Nat \ {0}
    /\ SkipCap \in Nat \ {0} /\ Freshness \in Nat \ {0}
    /\ MaxChain \in Nat /\ MaxFaults \in Nat /\ MaxOverlaps \in Nat /\ MaxMishaps \in Nat
    /\ NavHydrate \in BOOLEAN /\ EmptyLast \in BOOLEAN
    /\ NULL \notin Nat /\ NULL \notin BOOLEAN
BY PipelineAssumption

LEMMA CompleteMono ==
    ASSUME NEW M, NEW M2, M \subseteq M2, Complete(M)
    PROVE  Complete(M2)
BY Zenon DEF Complete

LEMMA CoveredMono ==
    ASSUME NEW M, NEW M2, M \subseteq M2, NEW u, Covered(M, u)
    PROVE  Covered(M2, u)
BY Zenon DEF Covered

LEMMA CursorMono ==
    ASSUME NEW M, NEW M2, M \subseteq M2, NEW c, CursorOK(M, c)
    PROVE  CursorOK(M2, c)
BY CompleteMono, CoveredMono, Zenon DEF CursorOK

LEMMA PatchMono ==
    ASSUME NEW M, NEW M2, M \subseteq M2, NEW p, PatchOK(M, p)
    PROVE  PatchOK(M2, p)
BY CompleteMono, CoveredMono, Zenon DEF PatchOK

LEMMA FetchMono ==
    ASSUME NEW M, NEW M2, M \subseteq M2, NEW f, FetchOK(M, f)
    PROVE  FetchOK(M2, f)
BY CompleteMono, Zenon DEF FetchOK

LEMMA PlanMono ==
    ASSUME NEW M, NEW M2, M \subseteq M2, NEW pl, PlanOK(M, pl)
    PROVE  PlanOK(M2, pl)
BY PatchMono, FetchMono, Zenon DEF PlanOK

(***************************************************************************)
(* A job stays in order when the mirror grows and the staged page of a     *)
(* fetch or chunk job is left alone.                                       *)
(***************************************************************************)
LEMMA JobFrame ==
    ASSUME NEW M, NEW M2, M \subseteq M2, NEW S, NEW S2, NEW j, JobOK(M, S, j),
           j.kind \in {"fetch", "chunk"} /\ j.page \in Staged => S2[j.page] = S[j.page]
    PROVE  JobOK(M2, S2, j)
<1>1. M \cup Page(j.part) \subseteq M2 \cup Page(j.part)
  OBVIOUS
<1>2. M \cup Page(S[j.page]) \subseteq M2 \cup Page(S[j.page])
  OBVIOUS
<1>3. /\ j.pc \in {"request", "write"} => CursorOK(M2, j.snap)
      /\ j.snap # NULL => CursorOK(M2, j.snap)
  BY CursorMono, Zenon DEF JobOK
<1>4. j.kind = "fetch" => FetchJobOK(M2, S2, j)
  <2> HAVE j.kind = "fetch"
  <2>1. FetchJobOK(M, S, j)
    BY DEF JobOK
  <2>2. FetchOK(M2, j.args)
    BY <2>1, FetchMono, Zenon DEF FetchJobOK
  <2>3. PatchOK(M, j.patch) => PatchOK(M2, j.patch)
    BY PatchMono, Zenon
  <2>4. PlanOK(M \cup Page(j.part), j.plan) => PlanOK(M2 \cup Page(j.part), j.plan)
    BY <1>1, PlanMono, Zenon
  <2>5. PlanOK(M, j.plan) => PlanOK(M2, j.plan)
    BY PlanMono, Zenon
  <2> QED
    BY <2>1, <2>2, <2>3, <2>4, <2>5, Zenon DEF FetchJobOK
<1>5. j.kind = "chunk" => ChunkJobOK(M2, S2, j)
  <2> HAVE j.kind = "chunk"
  <2>1. ChunkJobOK(M, S, j)
    BY DEF JobOK
  <2>2. S2[j.page] = S[j.page]
    BY <2>1 DEF ChunkJobOK
  <2>3. PlanOK(M2 \cup Page(S[j.page]), j.plan)
    BY <2>1, <1>2, PlanMono, Zenon DEF ChunkJobOK
  <2> QED
    BY <2>1, <2>2, <2>3, Zenon DEF ChunkJobOK
<1>6. j.kind = "finalize" => FinalizeJobOK(M2, j)
  BY PlanMono, PatchMono, Zenon DEF JobOK, FinalizeJobOK
<1> QED
  BY <1>3, <1>4, <1>5, <1>6, Zenon DEF JobOK

-----------------------------------------------------------------------------
(* How a step changes the jobs.                                            *)

(***************************************************************************)
(* J2 has new jobs in the slots K; job i of J is gone, the others stay.    *)
(***************************************************************************)
Replaced(J, J2, i, K) ==
    /\ DOMAIN J2 = Slot /\ i \in Slot /\ K \subseteq Slot
    /\ \A k \in Slot \ K : J2[k] = NULL \/ (k # i /\ J2[k] = J[k])

NewJobs(M, S, J, i, J2, K) ==
    /\ \A k \in K : JobOK(M, S, J2[k])
    /\ \A k \in K, l \in Slot : l # i /\ J[l] # NULL => Apart(J2[k], J[l])
    /\ \A k, l \in K : k # l => Apart(J2[k], J2[l])

(***************************************************************************)
(* Job x may come in place of job y whatever the other jobs are.           *)
(***************************************************************************)
Follows(x, y) ==
    \/ x.page = 0 /\ x.kind # "chunk"
    \/ x.page = y.page /\ x.kind = y.kind /\ x.chunk = y.chunk

LEMMA ApartSym == ASSUME NEW x, NEW y, Apart(x, y) PROVE Apart(y, x)
BY Zenon DEF Apart

LEMMA JobsReplaced ==
    ASSUME NEW M, NEW S, NEW M2, NEW S2, NEW J, NEW J2, NEW i, NEW K, JobsOK(M, S, J),
           Replaced(J, J2, i, K), NewJobs(M2, S2, J, i, J2, K),
           \A k \in Slot : k # i /\ J[k] # NULL => JobOK(M2, S2, J[k])
    PROVE  JobsOK(M2, S2, J2)
<1>1. DOMAIN J2 = Slot
  BY DEF Replaced
<1>2. ASSUME NEW k \in Slot, J2[k] # NULL PROVE JobOK(M2, S2, J2[k])
  BY <1>2, Zenon DEF Replaced, NewJobs
<1>3. ASSUME NEW k \in Slot, NEW l \in Slot, k # l, J2[k] # NULL, J2[l] # NULL
      PROVE  Apart(J2[k], J2[l])
  <2>1. CASE k \in K /\ l \in K
    BY <2>1, <1>3, Zenon DEF NewJobs
  <2>2. CASE k \in K /\ l \notin K
    BY <2>2, <1>3, Zenon DEF NewJobs, Replaced
  <2>3. CASE k \notin K /\ l \in K
    <3>1. Apart(J2[l], J2[k])
      BY <2>3, <1>3, Zenon DEF NewJobs, Replaced
    <3> QED
      BY <3>1, ApartSym, Zenon
  <2>4. CASE k \notin K /\ l \notin K
    BY <2>4, <1>3, Zenon DEF JobsOK, Replaced
  <2> QED
    BY <2>1, <2>2, <2>3, <2>4, Zenon
<1> QED
  BY <1>1, <1>2, <1>3, Zenon DEF JobsOK

LEMMA ApartFollows ==
    ASSUME NEW x, NEW y, NEW z, Follows(x, y), Apart(y, z)
    PROVE  Apart(x, z)
BY DEF Follows, Apart

LEMMA FiniteChunks ==
    ASSUME NEW T, T \subseteq 1..NumChunks
    PROVE  /\ IsFiniteSet(T) /\ Cardinality(T) \in 0..NumChunks
           /\ \A R : R \subseteq T => IsFiniteSet(R) /\ Cardinality(R) <= Cardinality(T)
<1>1. IsFiniteSet(1..NumChunks) /\ Cardinality(1..NumChunks) = NumChunks
  <2>1. NumChunks \in Int /\ 1 \in Int /\ ~(1 > NumChunks) /\ NumChunks - 1 + 1 = NumChunks
    BY PageNumbers
  <2> QED
    BY <2>1, FS_Interval
<1>2. IsFiniteSet(T) /\ Cardinality(T) <= NumChunks
  BY <1>1, FS_Subset
<1>3. Cardinality(T) \in Nat
  BY <1>2, FS_CardinalityType
<1>4. \A R : R \subseteq T => IsFiniteSet(R) /\ Cardinality(R) <= Cardinality(T)
  BY <1>2, FS_Subset
<1> QED
  BY <1>2, <1>3, <1>4, PageNumbers

LEMMA CountMono ==
    ASSUME NEW M, NEW S, NEW J, NEW L, CountOK(M, S, J, L), NEW M2, M \subseteq M2,
           NEW S2, NEW J2,
           L \in [Staged -> 0..NumChunks],
           \A s \in Staged : Pending(J2, s) \subseteq Pending(J, s),
           \A s \in Staged : Pending(J2, s) # {} => S2[s] = S[s]
    PROVE  CountOK(M2, S2, J2, L)
<1> SUFFICES ASSUME NEW s \in Staged, Pending(J2, s) # {}
             PROVE  Cardinality(Missing(M2, S2[s]) \cup Pending(J2, s)) <= L[s]
  BY DEF CountOK
<1> DEFINE A == Missing(M, S[s]) \cup Pending(J, s)
           B == Missing(M2, S2[s]) \cup Pending(J2, s)
<1>1. S2[s] = S[s] /\ Pending(J2, s) \subseteq Pending(J, s)
  OBVIOUS
<1>2. Missing(M2, S2[s]) \subseteq Missing(M, S[s])
  BY <1>1, Zenon DEF Missing
<1>3. A \subseteq 1..NumChunks /\ B \subseteq A
  BY <1>1, <1>2, Zenon DEF Missing, Pending
<1>4. Cardinality(A) <= L[s]
  BY <1>1 DEF CountOK
<1>5. Cardinality(B) \in 0..NumChunks /\ Cardinality(A) \in 0..NumChunks
  <2>1. B \subseteq 1..NumChunks
    BY <1>3
  <2> QED
    BY <2>1, <1>3, FiniteChunks
<1>6. Cardinality(B) <= Cardinality(A)
  BY <1>3, FiniteChunks
<1>7. L[s] \in 0..NumChunks
  OBVIOUS
<1> HIDE DEF A, B
<1>8. Cardinality(B) <= L[s]
  BY <1>4, <1>5, <1>6, <1>7, PageNumbers
<1> QED
  BY <1>8 DEF B

(***************************************************************************)
(* A step of job i that leaves the staged pages and the counters alone.    *)
(***************************************************************************)
LEMMA Quiet ==
    ASSUME NEW M, NEW S, NEW J, NEW L, JobsOK(M, S, J), CountOK(M, S, J, L),
           L \in [Staged -> 0..NumChunks],
           NEW M2, M \subseteq M2, NEW i, NEW J2, NEW K, J[i] # NULL,
           Replaced(J, J2, i, K),
           \A k \in K : JobOK(M2, S, J2[k]) /\ Follows(J2[k], J[i]),
           \A k, l \in K : k # l => J2[k].page = 0 \/ J2[l].page = 0
    PROVE  JobsOK(M2, S, J2) /\ CountOK(M2, S, J2, L)
<1>0. i \in Slot /\ K \subseteq Slot
  BY DEF Replaced
<1>1. \A k \in K, l \in Slot : l # i /\ J[l] # NULL => Apart(J2[k], J[l])
  <2> TAKE k \in K, l \in Slot
  <2> HAVE l # i /\ J[l] # NULL
  <2>1. Apart(J[i], J[l])
    BY <1>0, Zenon DEF JobsOK
  <2>2. Follows(J2[k], J[i])
    OBVIOUS
  <2> QED
    BY <2>1, <2>2, ApartFollows, Zenon
<1>2. \A k, l \in K : k # l => Apart(J2[k], J2[l])
  BY DEF Apart
<1>3. NewJobs(M2, S, J, i, J2, K)
  BY <1>1, <1>2, Zenon DEF NewJobs
<1>4. \A k \in Slot : k # i /\ J[k] # NULL => JobOK(M2, S, J[k])
  <2> TAKE k \in Slot
  <2> HAVE k # i /\ J[k] # NULL
  <2>1. JobOK(M, S, J[k])
    BY Zenon DEF JobsOK
  <2>2. S[J[k].page] = S[J[k].page]
    OBVIOUS
  <2> QED
    BY <2>1, <2>2, JobFrame, Zenon
<1>5. JobsOK(M2, S, J2)
  BY <1>3, <1>4, JobsReplaced
<1>6. \A s \in Staged : Pending(J2, s) \subseteq Pending(J, s)
  <2> SUFFICES ASSUME NEW s \in Staged, NEW c \in Pending(J2, s)
               PROVE  c \in Pending(J, s)
    BY Zenon
  <2>0. s # 0
    BY DEF Staged
  <2>1. PICK k \in Slot : /\ J2[k] # NULL /\ J2[k].kind = "chunk"
                          /\ J2[k].page = s /\ J2[k].chunk = c
    BY Zenon DEF Pending
  <2>2. c \in 1..NumChunks
    BY Zenon DEF Pending
  <2>3. CASE k \in K
    <3>1. Follows(J2[k], J[i])
      BY <2>3
    <3>2. J[i].kind = "chunk" /\ J[i].page = s /\ J[i].chunk = c
      BY <3>1, <2>1 DEF Follows
    <3> QED
      BY <3>2, <2>2, <1>0, Zenon DEF Pending
  <2>4. CASE k \notin K
    <3>1. J2[k] = J[k]
      BY <2>1, <2>4, Zenon DEF Replaced
    <3> QED
      BY <3>1, <2>1, <2>2, Zenon DEF Pending
  <2> QED
    BY <2>3, <2>4, Zenon
<1>7. \A s \in Staged : Pending(J2, s) # {} => S[s] = S[s]
  OBVIOUS
<1>8. CountOK(M2, S, J2, L)
  BY <1>6, <1>7, CountMono, Zenon
<1> QED
  BY <1>5, <1>8

(***************************************************************************)
(* Job i becomes x, or ends.                                               *)
(***************************************************************************)
LEMMA QuietBecome ==
    ASSUME NEW M, NEW S, NEW J, NEW L, JobsOK(M, S, J), CountOK(M, S, J, L),
           L \in [Staged -> 0..NumChunks],
           NEW M2, M \subseteq M2, NEW i \in Slot, J[i] # NULL, NEW x,
           JobOK(M2, S, x), Follows(x, J[i])
    PROVE  JobsOK(M2, S, [J EXCEPT ![i] = x]) /\ CountOK(M2, S, [J EXCEPT ![i] = x], L)
<1>1. PICK J2 : J2 = [J EXCEPT ![i] = x]
  OBVIOUS
<1>2. DOMAIN J2 = Slot /\ J2[i] = x /\ \A k \in Slot \ {i} : J2[k] = J[k]
  BY <1>1 DEF JobsOK
<1>3. Replaced(J, J2, i, {i})
  BY <1>2 DEF Replaced
<1>4. \A k \in {i} : JobOK(M2, S, J2[k]) /\ Follows(J2[k], J[i])
  BY <1>2
<1>5. \A k, l \in {i} : k # l => J2[k].page = 0 \/ J2[l].page = 0
  OBVIOUS
<1>6. JobsOK(M2, S, J2) /\ CountOK(M2, S, J2, L)
  BY <1>3, <1>4, <1>5, Quiet
<1> QED
  BY <1>1, <1>6, Zenon

LEMMA QuietDrop ==
    ASSUME NEW M, NEW S, NEW J, NEW L, JobsOK(M, S, J), CountOK(M, S, J, L),
           L \in [Staged -> 0..NumChunks],
           NEW M2, M \subseteq M2, NEW i \in Slot, J[i] # NULL
    PROVE  JobsOK(M2, S, [J EXCEPT ![i] = NULL]) /\ CountOK(M2, S, [J EXCEPT ![i] = NULL], L)
<1>1. PICK J2 : J2 = [J EXCEPT ![i] = NULL]
  OBVIOUS
<1>2. DOMAIN J2 = Slot /\ J2[i] = NULL /\ \A k \in Slot \ {i} : J2[k] = J[k]
  BY <1>1 DEF JobsOK
<1>3. Replaced(J, J2, i, {})
  BY <1>2 DEF Replaced
<1>4. \A k \in {} : JobOK(M2, S, J2[k]) /\ Follows(J2[k], J[i])
  OBVIOUS
<1>5. \A k, l \in {} : k # l => J2[k].page = 0 \/ J2[l].page = 0
  OBVIOUS
<1>6. JobsOK(M2, S, J2) /\ CountOK(M2, S, J2, L)
  BY <1>3, <1>4, <1>5, Quiet
<1> QED
  BY <1>1, <1>6, Zenon

-----------------------------------------------------------------------------
(* Slots: Expand gives different numbers to different new jobs.            *)

Rank(F, j) == Cardinality({x \in F : x <= j})

LEMMA RankFacts ==
    ASSUME NEW F, F \subseteq Slot, NEW j \in F, NEW k \in F
    PROVE  Rank(F, j) \in Nat \ {0} /\ (Rank(F, j) = Rank(F, k) => j = k)
<1>1. IsFiniteSet(F) /\ j \in Nat /\ k \in Nat /\ F \subseteq Nat
  <2>1. PICK n : n = (1 + MaxMishaps) * (NumChunks + 1)
    OBVIOUS
  <2>2. n \in Int
    BY <2>1, PageNumbers
  <2>3. Slot = 1..n
    BY <2>1 DEF Slot
  <2>4. IsFiniteSet(1..n)
    BY <2>2, FS_Interval
  <2>5. F \subseteq 1..n
    BY <2>3
  <2>6. IsFiniteSet(F)
    BY <2>4, <2>5, FS_Subset
  <2>7. \A x \in 1..n : x \in Nat
    BY <2>2
  <2> QED
    BY <2>5, <2>6, <2>7, Zenon
<1> DEFINE Below(x) == {y \in F : y <= x}
<1>2. ASSUME NEW x \in F
      PROVE  IsFiniteSet(Below(x)) /\ x \in Below(x) /\ Rank(F, x) = Cardinality(Below(x))
  <2>1. x \in Nat
    BY <1>1
  <2>2. Below(x) \subseteq F
    OBVIOUS
  <2>3. IsFiniteSet(Below(x))
    BY <2>2, <1>1, FS_Subset
  <2> QED
    BY <2>1, <2>3 DEF Rank
<1>3. ASSUME NEW x \in F PROVE Rank(F, x) \in Nat \ {0}
  <2>1. IsFiniteSet(Below(x)) /\ Below(x) # {}
    BY <1>2
  <2>2. Cardinality(Below(x)) \in Nat /\ Cardinality(Below(x)) # 0
    BY <2>1, FS_CardinalityType, FS_EmptySet
  <2> QED
    BY <2>2, <1>2
<1>4. ASSUME NEW x \in F, NEW y \in F, x < y PROVE Rank(F, x) # Rank(F, y)
  <2>0. x \in Nat /\ y \in Nat
    BY <1>1
  <2>1. Below(x) \subseteq Below(y) /\ y \in Below(y) /\ y \notin Below(x)
    <3>1. \A z \in F : z <= x => z <= y
      BY <2>0, <1>1, <1>4
    <3>2. ~(y <= x) /\ y <= y
      BY <2>0, <1>4
    <3> QED
      BY <3>1, <3>2, Zenon
  <2>2. Cardinality(Below(x)) # Cardinality(Below(y))
    <3>1. IsFiniteSet(Below(y)) /\ Below(x) # Below(y)
      BY <2>1, <1>2
    <3> HIDE DEF Below
    <3> QED
      BY <3>1, <2>1, FS_Subset
  <2> QED
    BY <2>2, <1>2
<1> QED
  BY <1>1, <1>3, <1>4

LEMMA MayFaultType ==
    ASSUME MayFault, faults \in 0..MaxFaults
    PROVE  faults' \in 0..MaxFaults
BY PageNumbers DEF MayFault

LEMMA EndOut ==
    ASSUME NEW i \in Slot, DOMAIN jobs = Slot, EndWithout(i), faults \in 0..MaxFaults
    PROVE  /\ \E K : /\ Replaced(jobs, jobs', i, K)
                     /\ \A k \in K : jobs'[k] = Again(jobs[i])
                     /\ \A k, l \in K : k = l
           /\ faults' \in 0..MaxFaults
<1> DEFINE F == (Slot \ Active) \cup {i}
           K == {k \in F : Rank(F, k) = 1}
<1>0. F \subseteq Slot /\ \A k \in Slot \ F : jobs[k] # NULL /\ k # i
  BY DEF Active
<1>1. \A k \in F : Rank(F, k) \in Nat \ {0}
  BY <1>0, RankFacts
<1>2. \A k, l \in K : k = l
  BY <1>0, RankFacts
<1>3. CASE jobs' = [j \in Slot |-> IF j \in F /\ Rank(F, j) <= 0 THEN NULL
                                   ELSE IF j = i THEN NULL ELSE jobs[j]] /\ UNCHANGED faults
  <2>1. Replaced(jobs, jobs', i, {})
    BY <1>3, <1>1 DEF Replaced, Active
  <2> QED
    BY <2>1, <1>3
<1>4. CASE MayFault /\ jobs' = [j \in Slot |-> IF j \in F /\ Rank(F, j) <= 1
                                   THEN IF Rank(F, j) > 0 THEN Again(jobs[i]) ELSE NULL
                                   ELSE IF j = i THEN NULL ELSE jobs[j]]
  <2>1. \A k \in K : jobs'[k] = Again(jobs[i])
    BY <1>4, <1>0
  <2>2. \A k \in Slot \ K : jobs'[k] = NULL \/ (k # i /\ jobs'[k] = jobs[k])
    <3> TAKE k \in Slot \ K
    <3>1. ~(k \in F /\ Rank(F, k) <= 1)
      BY <1>1
    <3> HIDE DEF F, K
    <3> QED
      BY <3>1, <1>4
  <2>3. Replaced(jobs, jobs', i, K)
    BY <2>2, <1>4, <1>0 DEF Replaced
  <2>4. faults' \in 0..MaxFaults
    BY <1>4, MayFaultType
  <2> QED
    BY <2>1, <2>3, <2>4, <1>2
<1> QED
  BY <1>3, <1>4 DEF EndWithout, End, Expand, Rank

LEMMA EndIn ==
    ASSUME NEW i \in Slot, NEW x, DOMAIN jobs = Slot, EndWith(i, x), faults \in 0..MaxFaults
    PROVE  /\ \E K : /\ Replaced(jobs, jobs', i, K)
                     /\ \A k \in K : jobs'[k] = x \/ jobs'[k] = Again(jobs[i])
                     /\ \A k, l \in K : k # l => jobs'[k] = x \/ jobs'[l] = x
           /\ faults' \in 0..MaxFaults
<1> DEFINE F == (Slot \ Active) \cup {i}
           K(n) == {k \in F : Rank(F, k) <= n}
<1>0. F \subseteq Slot /\ \A k \in Slot \ F : jobs[k] # NULL /\ k # i
  BY DEF Active
<1>1. \A k \in F : Rank(F, k) \in Nat \ {0}
  BY <1>0, RankFacts
<1>2. \A k, l \in F : Rank(F, k) = Rank(F, l) => k = l
  BY <1>0, RankFacts
<1>3. CASE jobs' = [j \in Slot |-> IF j \in F /\ Rank(F, j) <= 1 THEN x
                                   ELSE IF j = i THEN NULL ELSE jobs[j]] /\ UNCHANGED faults
  <2>1. \A k \in K(1) : jobs'[k] = x
    BY <1>3, <1>0
  <2>2. Replaced(jobs, jobs', i, K(1))
    BY <1>3, <1>0 DEF Replaced
  <2> QED
    BY <2>1, <2>2, <1>3
<1>4. CASE MayFault /\ jobs' = [j \in Slot |-> IF j \in F /\ Rank(F, j) <= 1 + 1
                                   THEN IF Rank(F, j) > 1 THEN Again(jobs[i]) ELSE x
                                   ELSE IF j = i THEN NULL ELSE jobs[j]]
  <2>1. \A k \in K(2) : jobs'[k] = x \/ (jobs'[k] = Again(jobs[i]) /\ Rank(F, k) = 2)
    BY <1>4, <1>0, <1>1
  <2>2. \A k, l \in K(2) : k # l => jobs'[k] = x \/ jobs'[l] = x
    BY <2>1, <1>2
  <2>3. Replaced(jobs, jobs', i, K(2))
    BY <1>4, <1>0 DEF Replaced
  <2>4. faults' \in 0..MaxFaults
    BY <1>4, MayFaultType
  <2> QED
    BY <2>1, <2>2, <2>3, <2>4
<1> QED
  BY <1>3, <1>4 DEF EndWith, End, Expand, Rank

ChunkOf(j, c) == [NewJob("chunk") EXCEPT !.page = j.page, !.chunk = c, !.plan = j.plan]

LEMMA EndBatch ==
    ASSUME NEW i \in Slot, DOMAIN jobs = Slot, EnqueueBatch(i), faults \in 0..MaxFaults
    PROVE  /\ \E K, r :
                /\ Replaced(jobs, jobs', i, K)
                /\ \A k \in K : /\ r[k] \in 1..(NumChunks + 1)
                                /\ jobs'[k] = IF r[k] > NumChunks THEN Again(jobs[i])
                                              ELSE ChunkOf(jobs[i], r[k])
                /\ \A k, l \in K : k # l => r[k] # r[l]
           /\ faults' \in 0..MaxFaults
<1> DEFINE F == (Slot \ Active) \cup {i}
           K(n) == {k \in F : Rank(F, k) <= n}
           r == [k \in F |-> Rank(F, k)]
<1>0. F \subseteq Slot /\ \A k \in Slot \ F : jobs[k] # NULL /\ k # i
  BY DEF Active
<1>1. \A k \in F : Rank(F, k) \in Nat \ {0}
  BY <1>0, RankFacts
<1>2. \A k, l \in F : Rank(F, k) = Rank(F, l) => k = l
  BY <1>0, RankFacts
<1>3. CASE jobs' = [j \in Slot |-> IF j \in F /\ Rank(F, j) <= NumChunks
                                   THEN ChunkOf(jobs[i], Rank(F, j))
                                   ELSE IF j = i THEN NULL ELSE jobs[j]] /\ UNCHANGED faults
  <2>1. \A k \in K(NumChunks) :
           /\ r[k] \in 1..(NumChunks + 1)
           /\ jobs'[k] = IF r[k] > NumChunks THEN Again(jobs[i]) ELSE ChunkOf(jobs[i], r[k])
    <3> TAKE k \in K(NumChunks)
    <3>1. k \in Slot /\ k \in F /\ Rank(F, k) <= NumChunks /\ r[k] = Rank(F, k)
      BY <1>0
    <3>2. jobs'[k] = ChunkOf(jobs[i], r[k])
      BY <3>1, <1>3
    <3> HIDE DEF F, K, r
    <3> QED
      BY <3>1, <3>2, <1>1, PageNumbers
  <2>2. Replaced(jobs, jobs', i, K(NumChunks))
    BY <1>3, <1>0 DEF Replaced
  <2>3. \A k, l \in K(NumChunks) : k # l => r[k] # r[l]
    BY <1>2
  <2>4. faults' \in 0..MaxFaults
    BY <1>3
  <2> QED
    <3> HIDE DEF F, K, r
    <3> QED
      BY <2>1, <2>2, <2>3, <2>4, Zenon
<1>4. CASE MayFault /\ jobs' = [j \in Slot |->
                                   IF j \in F /\ Rank(F, j) <= NumChunks + 1
                                   THEN IF Rank(F, j) > NumChunks THEN Again(jobs[i])
                                        ELSE ChunkOf(jobs[i], Rank(F, j))
                                   ELSE IF j = i THEN NULL ELSE jobs[j]]
  <2>1. \A k \in K(NumChunks + 1) :
           /\ r[k] \in 1..(NumChunks + 1)
           /\ jobs'[k] = IF r[k] > NumChunks THEN Again(jobs[i]) ELSE ChunkOf(jobs[i], r[k])
    <3> TAKE k \in K(NumChunks + 1)
    <3>1. k \in Slot /\ k \in F /\ Rank(F, k) <= NumChunks + 1 /\ r[k] = Rank(F, k)
      BY <1>0
    <3>2. jobs'[k] = IF r[k] > NumChunks THEN Again(jobs[i]) ELSE ChunkOf(jobs[i], r[k])
      BY <3>1, <1>4
    <3> HIDE DEF F, K, r
    <3> QED
      BY <3>1, <3>2, <1>1, PageNumbers
  <2>2. Replaced(jobs, jobs', i, K(NumChunks + 1))
    BY <1>4, <1>0 DEF Replaced
  <2>3. \A k, l \in K(NumChunks + 1) : k # l => r[k] # r[l]
    BY <1>2
  <2>4. faults' \in 0..MaxFaults
    BY <1>4, MayFaultType
  <2> QED
    <3> HIDE DEF F, K, r
    <3> QED
      BY <2>1, <2>2, <2>3, <2>4, Zenon
<1> QED
  BY <1>3, <1>4 DEF EnqueueBatch, End, Expand, Rank, ChunkOf

-----------------------------------------------------------------------------
(* New jobs, patches and plans.                                            *)

LEMMA NoPatchOK ==
    ASSUME NEW M
    PROVE  PatchOK(M, NoPatch) /\ PlanOK(M, NoPlan) /\ NoPatch \in Patch /\ NoPlan \in Plan
<1>1. NoPatch \in Patch /\ NoPatch.url = 0 /\ ~NoPatch.finish
  BY PageNumbers DEF NoPatch, Patch
<1>2. Covered(M, 0)
  BY PageNumbers DEF Covered
<1>3. PatchOK(M, NoPatch)
  BY <1>1, <1>2, Zenon DEF PatchOK
<1>4. NoPlan \in Plan /\ NoPlan.patch = NoPatch /\ NoPlan.next = NULL
  BY <1>1 DEF NoPlan, Plan
<1> QED
  BY <1>1, <1>3, <1>4, Zenon DEF PlanOK

LEMMA FirstFetchType ==
    ASSUME NEW m \in Modes
    PROVE  FirstFetch(m) \in Fetch /\ FirstFetch(m).mode = m /\ FirstFetch(m).depth = 0
BY PageNumbers DEF FirstFetch, Fetch

LEMMA StagedCount == Cardinality(Staged) = 1 + MaxMishaps /\ Staged \subseteq 0..Cardinality(Staged)
<1>1. 1 + MaxMishaps \in Nat /\ 1 + MaxMishaps >= 1
  BY PageNumbers
<1>2. Cardinality(Staged) = 1 + MaxMishaps
  BY <1>1, FS_Interval DEF Staged
<1> QED
  BY <1>1, <1>2 DEF Staged

LEMMA NewJobType ==
    ASSUME NEW k \in {"kickoff", "fetch", "chunk", "finalize"}
    PROVE  /\ NewJob(k) \in Job
           /\ NewJob(k).kind = k /\ NewJob(k).pc = "start" /\ NewJob(k).page = 0
           /\ NewJob(k).snap = NULL /\ NewJob(k).args = FirstFetch("incremental")
           /\ NewJob(k).chunk = 0
<1>1. FirstFetch("incremental") \in Fetch
  BY FirstFetchType DEF Modes
<1>2. NoPatch \in Patch /\ NoPlan \in Plan
  BY NoPatchOK
<1>3. 0 \in 0..NumPages /\ 0 \in 0..Cardinality(Staged) /\ 0 \in 0..NumChunks
  BY PageNumbers, StagedCount
<1>4. NewJob(k) \in Job
  BY <1>1, <1>2, <1>3 DEF NewJob, Job
<1> QED
  BY <1>4 DEF NewJob

(***************************************************************************)
(* A job that has just been enqueued is in order if its arguments are.     *)
(***************************************************************************)
LEMMA FetchStartOK ==
    ASSUME NEW M, NEW S, NEW f, FetchOK(M, f)
    PROVE  LET x == [NewJob("fetch") EXCEPT !.args = f]
           IN  JobOK(M, S, x) /\ x.page = 0 /\ x.kind = "fetch"
<1> DEFINE x == [NewJob("fetch") EXCEPT !.args = f]
<1>1. f \in Fetch
  BY DEF FetchOK
<1>2. x \in Job
  BY <1>1, NewJobType DEF Job
<1>3. /\ x.kind = "fetch" /\ x.pc = "start" /\ x.page = 0 /\ x.snap = NULL /\ x.args = f
  BY NewJobType DEF Job
<1>4. FetchJobOK(M, S, x)
  <2> HIDE DEF x
  <2> QED
    BY <1>3 DEF FetchJobOK
<1> HIDE DEF x
<1>5. JobOK(M, S, x)
  BY <1>2, <1>3, <1>4 DEF JobOK
<1> QED
  BY <1>3, <1>5 DEF x

LEMMA FinalizeStartOK ==
    ASSUME NEW M, NEW S, NEW x \in Job, x.kind = "finalize", x.pc = "start", x.snap = NULL,
           PlanOK(M, x.plan)
    PROVE  JobOK(M, S, x)
BY DEF JobOK, FinalizeJobOK

(***************************************************************************)
(* The page of fetch j is staged, and its plan waits for it.               *)
(***************************************************************************)
BatchReady(M, S, j) ==
    /\ j.page \in Staged /\ S[j.page] \in 0..NumPages
    /\ PlanOK(M \cup Page(S[j.page]), j.plan)

LEMMA ChunkStartOK ==
    ASSUME NEW M, NEW S, NEW j, NEW c \in 1..NumChunks, BatchReady(M, S, j)
    PROVE  /\ JobOK(M, S, ChunkOf(j, c)) /\ ChunkOf(j, c).page = j.page
           /\ ChunkOf(j, c).kind = "chunk" /\ ChunkOf(j, c).chunk = c
<1> DEFINE x == ChunkOf(j, c)
<1>1. j.plan \in Plan /\ c \in 0..NumChunks /\ j.page \in 0..Cardinality(Staged)
  BY StagedCount, PageNumbers DEF PlanOK, BatchReady
<1>2. x \in Job
  BY <1>1, NewJobType DEF Job, ChunkOf
<1>3. /\ x.kind = "chunk" /\ x.pc = "start" /\ x.page = j.page /\ x.snap = NULL
      /\ x.plan = j.plan /\ x.chunk = c
  BY NewJobType DEF Job, ChunkOf
<1> HIDE DEF x
<1>4. ChunkJobOK(M, S, x)
  BY <1>3 DEF ChunkJobOK, BatchReady
<1>5. JobOK(M, S, x)
  BY <1>2, <1>3, <1>4 DEF JobOK
<1> QED
  BY <1>3, <1>5 DEF x

LEMMA AgainOK ==
    ASSUME NEW M, NEW S, NEW j, JobOK(M, S, j)
    PROVE  JobOK(M, S, Again(j)) /\ Follows(Again(j), j) /\ (j.kind = "fetch" => Again(j).page = 0)
<1> DEFINE x == Again(j)
<1>1. /\ j \in Job /\ j.kind \in {"kickoff", "fetch", "chunk", "finalize"} /\ j.args \in Fetch
      /\ j.chunk \in 0..NumChunks /\ j.page \in 0..Cardinality(Staged) /\ j.plan \in Plan
  BY DEF JobOK, Job
<1>2. NoPlan \in Plan /\ 0 \in 0..Cardinality(Staged)
  BY NoPatchOK, StagedCount, PageNumbers
<1>3. x \in Job
  <2>1. PICK pg \in 0..Cardinality(Staged) : pg = IF j.kind = "fetch" THEN 0 ELSE j.page
    BY <1>1, <1>2
  <2>2. PICK pl \in Plan : pl = IF j.kind = "fetch" THEN NoPlan ELSE j.plan
    BY <1>1, <1>2
  <2>3. x = [NewJob(j.kind) EXCEPT !.args = j.args, !.chunk = j.chunk, !.page = pg,
                                   !.plan = pl]
    BY <2>1, <2>2 DEF Again
  <2>4. NewJob(j.kind) \in Job
    BY <1>1, NewJobType
  <2> QED
    BY <1>1, <2>3, <2>4 DEF Job
<1>4. /\ x.kind = j.kind /\ x.pc = "start" /\ x.snap = NULL /\ x.args = j.args
      /\ x.chunk = j.chunk /\ x.page = (IF j.kind = "fetch" THEN 0 ELSE j.page)
      /\ x.plan = (IF j.kind = "fetch" THEN NoPlan ELSE j.plan)
  BY <1>1, NewJobType DEF Job, Again
<1> HIDE DEF x
<1>5. j.kind = "kickoff" => KickoffOK(x)
  BY <1>4 DEF JobOK, KickoffOK
<1>6. j.kind = "fetch" => FetchJobOK(M, S, x)
  BY <1>4 DEF JobOK, FetchJobOK
<1>7. j.kind = "chunk" => ChunkJobOK(M, S, x)
  BY <1>4 DEF JobOK, ChunkJobOK
<1>8. j.kind = "finalize" => FinalizeJobOK(M, x)
  BY <1>4 DEF JobOK, FinalizeJobOK
<1>9. JobOK(M, S, x)
  BY <1>3, <1>4, <1>5, <1>6, <1>7, <1>8 DEF JobOK
<1>10. Follows(x, j) /\ (j.kind = "fetch" => x.page = 0)
  BY <1>4 DEF Follows
<1> QED
  BY <1>9, <1>10 DEF x

(***************************************************************************)
(* continuationPlan: the plan of page p is justified by a mirror N that    *)
(* has the page if it has rows.                                            *)
(***************************************************************************)
LEMMA PlanFetched ==
    ASSUME NEW M, NEW f, FetchOK(M, f), NEW p \in 0..NumPages, Covered(M, p),
           f.mode = "replication" => p # 0, MaxChain = 0 \/ f.depth < MaxChain,
           NEW rows \in BOOLEAN, NEW more \in BOOLEAN,
           f.mode = "replication" /\ ~rows => p = NumPages /\ EmptyLast,
           NEW N, M \subseteq N, f.mode = "replication" /\ rows => Page(p) \subseteq N
    PROVE  PlanOK(N, continuationPlan(f, p, rows, more))
<1> DEFINE complete == p = NumPages
           chain(m, s) == [mode |-> m, skip |-> s,
                           depth |-> IF MaxChain = 0 THEN 0 ELSE f.depth + 1]
           dispatch == IF rows THEN FirstFetch("incremental") ELSE NULL
           page == [NoPatch EXCEPT !.max = rows]
           skip == f.skip + 1
<1>1. /\ f \in Fetch /\ f.mode \in Modes /\ f.skip \in 0..SkipCap /\ f.depth \in 0..MaxChain
      /\ f.mode # "replication" => Complete(M)
  BY DEF FetchOK, Fetch
<1>2. \A m \in Modes : \A s \in 0..SkipCap : chain(m, s) \in Fetch /\ chain(m, s).mode = m
  <2>1. (IF MaxChain = 0 THEN 0 ELSE f.depth + 1) \in 0..MaxChain
    BY <1>1, PageNumbers
  <2> QED
    BY <2>1 DEF Fetch
<1>3. Complete(M) => \A m \in Modes : \A s \in 0..SkipCap : FetchOK(N, chain(m, s))
  BY <1>2, CompleteMono DEF FetchOK
<1>4. Complete(M) => (dispatch # NULL => FetchOK(N, dispatch))
  BY FirstFetchType, CompleteMono DEF FetchOK, Modes
<1>5. dispatch \in Fetch \cup {NULL}
  BY FirstFetchType DEF Modes
<1>6. page \in Patch /\ page.url = 0 /\ ~page.finish
  BY NoPatchOK DEF Patch, NoPatch
<1>7. Covered(N, 0)
  BY PageNumbers DEF Covered
<1>8. PatchOK(N, page)
  BY <1>6, <1>7 DEF PatchOK
<1>9. CASE f.mode = "replication"
  <2> DEFINE pt == [page EXCEPT !.apply = TRUE, !.prog = ~complete,
                                !.url = IF complete THEN 0 ELSE p + 1]
             nx == IF ~complete THEN chain("replication", 0)
                   ELSE IF NavHydrate THEN chain("nav_hydrate", 0) ELSE dispatch
  <2>1. continuationPlan(f, p, rows, more) = [patch |-> pt, next |-> nx]
    BY <1>9 DEF continuationPlan
  <2>2. (IF complete THEN 0 ELSE p + 1) \in 0..NumPages
    BY PageNumbers
  <2>3. (~complete) \in BOOLEAN
    OBVIOUS
  <2>4. pt \in Patch /\ pt.url = (IF complete THEN 0 ELSE p + 1) /\ ~pt.finish
    <3> HIDE DEF page, complete
    <3> QED
      BY <1>6, <2>2, <2>3 DEF Patch
  <2>5. Covered(N, IF complete THEN 0 ELSE p + 1)
    <3>1. CASE complete
      BY <3>1, <1>7
    <3>2. CASE ~complete
      <4>1. rows
        BY <3>2, <1>9
      <4> SUFFICES ASSUME NEW q \in 1..NumPages, q < p + 1 PROVE Page(q) \subseteq N
        BY <3>2 DEF Covered
      <4>2. q < p \/ q = p
        BY PageNumbers
      <4> QED
        BY <4>1, <4>2, <1>9 DEF Covered
    <3> QED
      BY <3>1, <3>2
  <2>6. PatchOK(N, pt)
    <3> HIDE DEF pt
    <3> QED
      BY <2>4, <2>5 DEF PatchOK
  <2>7. complete => Complete(N)
    <3> SUFFICES ASSUME p = NumPages, NEW q \in 1..NumPages
                 PROVE  Page(q) \subseteq N \/ (EmptyLast /\ q = NumPages)
      BY DEF Complete
    <3>1. q < p \/ q = p
      BY PageNumbers
    <3> QED
      BY <3>1, <1>9 DEF Covered
  <2>8. nx \in Fetch \cup {NULL} /\ (nx # NULL => FetchOK(N, nx))
    <3>0. 0 \in 0..SkipCap
      BY PageNumbers
    <3>1. chain("replication", 0) \in Fetch /\ FetchOK(N, chain("replication", 0))
      <4>1. chain("replication", 0) \in Fetch /\ chain("replication", 0).mode = "replication"
        BY <1>2, <3>0 DEF Modes
      <4> HIDE DEF chain
      <4> QED
        BY <4>1 DEF FetchOK
    <3>2. complete => FetchOK(N, chain("nav_hydrate", 0))
      BY <1>2, <3>0, <2>7 DEF FetchOK, Modes
    <3>3. complete => (dispatch # NULL => FetchOK(N, dispatch))
      BY FirstFetchType, <2>7 DEF FetchOK, Modes
    <3>4. chain("nav_hydrate", 0) \in Fetch
      BY <1>2, <3>0 DEF Modes
    <3> HIDE DEF chain, complete, dispatch
    <3> QED
      BY <3>1, <3>2, <3>3, <3>4, <1>5
  <2>9. [patch |-> pt, next |-> nx] \in Plan
    <3> HIDE DEF pt, nx
    <3> QED
      BY <2>4, <2>8 DEF Plan
  <2> HIDE DEF pt, nx
  <2> QED
    BY <2>1, <2>6, <2>8, <2>9 DEF PlanOK
<1>10. CASE f.mode = "nav_hydrate"
  <2> DEFINE nx == IF more /\ skip < SkipCap THEN chain("nav_hydrate", skip) ELSE dispatch
  <2>1. continuationPlan(f, p, rows, more) = [patch |-> page, next |-> nx]
    BY <1>10 DEF continuationPlan
  <2>2. skip < SkipCap => skip \in 0..SkipCap
    BY <1>1, PageNumbers
  <2>3. nx \in Fetch \cup {NULL} /\ (nx # NULL => FetchOK(N, nx))
    <3>1. "nav_hydrate" \in Modes /\ Complete(M)
      BY <1>1, <1>10 DEF Modes
    <3> HIDE DEF chain, dispatch, skip
    <3> QED
      BY <3>1, <2>2, <1>2, <1>3, <1>4, <1>5
  <2> HIDE DEF page, nx
  <2>4. [patch |-> page, next |-> nx] \in Plan
    BY <1>6, <2>3 DEF Plan
  <2> QED
    BY <2>1, <2>3, <2>4, <1>8 DEF PlanOK
<1>11. CASE f.mode = "incremental"
  <2> DEFINE nx == IF more /\ skip < SkipCap THEN chain("incremental", skip) ELSE NULL
             pt == [page EXCEPT !.finish = ~more]
  <2>1. continuationPlan(f, p, rows, more) = [patch |-> pt, next |-> nx]
    BY <1>11 DEF continuationPlan
  <2>2. skip < SkipCap => skip \in 0..SkipCap
    BY <1>1, PageNumbers
  <2>3. nx \in Fetch \cup {NULL} /\ (nx # NULL => FetchOK(N, nx))
    <3>1. "incremental" \in Modes /\ Complete(M)
      BY <1>1, <1>11 DEF Modes
    <3> HIDE DEF chain, dispatch, skip
    <3> QED
      BY <3>1, <2>2, <1>2, <1>3
  <2>4. (~more) \in BOOLEAN
    OBVIOUS
  <2>5. pt \in Patch /\ pt.url = 0
    <3> HIDE DEF page
    <3> QED
      BY <1>6, <2>4 DEF Patch
  <2>6. PatchOK(N, pt)
    <3>1. Complete(N)
      BY <1>1, <1>11, CompleteMono
    <3> HIDE DEF pt
    <3> QED
      BY <3>1, <2>5, <1>7 DEF PatchOK
  <2> HIDE DEF pt, nx
  <2>7. [patch |-> pt, next |-> nx] \in Plan
    BY <2>5, <2>3 DEF Plan
  <2> QED
    BY <2>1, <2>3, <2>6, <2>7 DEF PlanOK
<1> QED
  BY <1>1, <1>9, <1>10, <1>11 DEF Modes

LEMMA MergeOK ==
    ASSUME NEW M, NEW c, CursorOK(M, c), NEW p, PatchOK(M, p)
    PROVE  CursorOK(M, mergeCursorPatch(c, p))
<1>1. /\ c.mod \in BOOLEAN /\ c.url \in 0..NumPages /\ c.inProg \in BOOLEAN
      /\ c.fin \in Age \cup {NULL}
  BY DEF CursorOK, Cursor
<1>2. /\ p.prog \in BOOLEAN \cup {NULL} /\ p.url \in 0..NumPages /\ p.max \in BOOLEAN
      /\ p.apply \in BOOLEAN /\ p.finish \in BOOLEAN
  BY DEF PatchOK, Patch
<1>3. PICK md \in BOOLEAN : md = (c.mod \/ p.max)
  BY <1>1, <1>2, Zenon
<1>4. PICK u \in 0..NumPages : u = IF p.apply THEN p.url ELSE c.url
  BY <1>1, <1>2
<1>5. PICK g \in BOOLEAN : g = IF p.prog # NULL THEN p.prog ELSE c.inProg
  BY <1>1, <1>2
<1>6. PICK fin \in Age \cup {NULL} : fin = IF p.finish THEN 0 ELSE c.fin
  <2>1. 0 \in Age
    BY PageNumbers DEF Age
  <2> QED
    BY <1>1, <1>2, <2>1
<1>7. mergeCursorPatch(c, p) = [mod |-> md, url |-> u, inProg |-> g, fin |-> fin]
  BY <1>3, <1>4, <1>5, <1>6 DEF mergeCursorPatch
<1>8. Covered(M, u) /\ (fin # NULL => Complete(M))
  BY <1>4, <1>6, <1>2 DEF CursorOK, PatchOK
<1>9. [mod |-> md, url |-> u, inProg |-> g, fin |-> fin] \in Cursor
  BY DEF Cursor
<1> QED
  BY <1>7, <1>8, <1>9 DEF CursorOK

-----------------------------------------------------------------------------
(* Steps that change one job, and perhaps the cursor or the mirror.        *)

LEMMA StepParts ==
    ASSUME PipelineInv, NEW i \in Slot, jobs[i] # NULL
    PROVE  /\ JobsOK(mirror, staged, jobs) /\ CountOK(mirror, staged, jobs, left)
           /\ left \in [Staged -> 0..NumChunks] /\ CursorOK(mirror, cursor)
           /\ JobOK(mirror, staged, jobs[i]) /\ DOMAIN jobs = Slot
           /\ faults \in 0..MaxFaults /\ overlaps \in 0..MaxOverlaps
           /\ mirror \subseteq mirror
BY Zenon DEF PipelineInv, JobsOK

LEMMA StepBecome ==
    ASSUME PipelineInv, NEW i \in Slot, jobs[i] # NULL, NEW x,
           JobOK(mirror, staged, x), Follows(x, jobs[i]),
           jobs' = [jobs EXCEPT ![i] = x], CursorOK(mirror, cursor'),
           UNCHANGED <<staged, mirror, left, overlaps>>, faults' \in 0..MaxFaults
    PROVE  PipelineInv'
<1>1. JobsOK(mirror, staged, jobs') /\ CountOK(mirror, staged, jobs', left)
  BY StepParts, QuietBecome
<1> QED
  BY <1>1 DEF PipelineInv

LEMMA StepDrop ==
    ASSUME PipelineInv, NEW i \in Slot, jobs[i] # NULL,
           jobs' = [jobs EXCEPT ![i] = NULL], CursorOK(mirror, cursor'),
           UNCHANGED <<staged, mirror, left, overlaps>>, faults' \in 0..MaxFaults
    PROVE  PipelineInv'
<1>1. JobsOK(mirror, staged, jobs') /\ CountOK(mirror, staged, jobs', left)
  BY StepParts, QuietDrop
<1> QED
  BY <1>1 DEF PipelineInv

LEMMA StepOut ==
    ASSUME PipelineInv, NEW i \in Slot, jobs[i] # NULL, EndWithout(i),
           CursorOK(mirror, cursor'), UNCHANGED <<staged, mirror, left, overlaps>>
    PROVE  PipelineInv'
<1>0. JobOK(mirror, staged, jobs[i]) /\ faults \in 0..MaxFaults /\ DOMAIN jobs = Slot
  BY StepParts
<1>1. PICK K : /\ Replaced(jobs, jobs', i, K)
               /\ \A k \in K : jobs'[k] = Again(jobs[i])
               /\ \A k, l \in K : k = l
  BY <1>0, EndOut
<1>2. faults' \in 0..MaxFaults
  BY <1>0, EndOut
<1>3. \A k \in K : JobOK(mirror, staged, jobs'[k]) /\ Follows(jobs'[k], jobs[i])
  BY <1>0, <1>1, AgainOK
<1>4. PICK J2 : J2 = jobs'
  OBVIOUS
<1>5. JobsOK(mirror, staged, J2) /\ CountOK(mirror, staged, J2, left)
  BY <1>1, <1>3, <1>4, StepParts, Quiet
<1> QED
  BY <1>2, <1>4, <1>5 DEF PipelineInv

LEMMA StepIn ==
    ASSUME PipelineInv, NEW i \in Slot, jobs[i] # NULL, NEW x, EndWith(i, x),
           JobOK(mirror, staged, x), x.page = 0, x.kind # "chunk",
           UNCHANGED <<cursor, staged, mirror, left, overlaps>>
    PROVE  PipelineInv'
<1>0. JobOK(mirror, staged, jobs[i]) /\ faults \in 0..MaxFaults /\ DOMAIN jobs = Slot
  BY StepParts
<1>1. PICK K : /\ Replaced(jobs, jobs', i, K)
               /\ \A k \in K : jobs'[k] = x \/ jobs'[k] = Again(jobs[i])
               /\ \A k, l \in K : k # l => jobs'[k] = x \/ jobs'[l] = x
  BY <1>0, EndIn
<1>2. faults' \in 0..MaxFaults
  BY <1>0, EndIn
<1>3. \A k \in K : JobOK(mirror, staged, jobs'[k]) /\ Follows(jobs'[k], jobs[i])
  <2>1. JobOK(mirror, staged, Again(jobs[i])) /\ Follows(Again(jobs[i]), jobs[i])
    BY <1>0, AgainOK
  <2>2. Follows(x, jobs[i])
    BY DEF Follows
  <2> QED
    BY <1>1, <2>1, <2>2
<1>4. PICK J2 : J2 = jobs'
  OBVIOUS
<1>5. \A k, l \in K : k # l => J2[k].page = 0 \/ J2[l].page = 0
  BY <1>1, <1>4
<1>6. JobsOK(mirror, staged, J2) /\ CountOK(mirror, staged, J2, left)
  BY <1>1, <1>3, <1>4, <1>5, StepParts, Quiet
<1> QED
  BY <1>2, <1>4, <1>6 DEF PipelineInv

-----------------------------------------------------------------------------
(* Each action preserves the invariant.                                    *)

LEMMA PatchReadInv ==
    ASSUME PipelineInv, NEW i \in Slot, PatchRead(i)
    PROVE  PipelineInv'
<1> DEFINE j == jobs[i]
           x == [j EXCEPT !.snap = cursor, !.pc = "write"]
<1>1. /\ jobs[i] # NULL /\ j.pc = "read" /\ UNCHANGED <<cursor, staged, mirror, left, faults, overlaps>>
  BY DEF PatchRead, At, Active
<1>2. JobOK(mirror, staged, j) /\ CursorOK(mirror, cursor) /\ DOMAIN jobs = Slot
      /\ faults \in 0..MaxFaults
  BY <1>1, StepParts
<1>3. jobs' = [jobs EXCEPT ![i] = x]
  BY <1>2 DEF PatchRead
<1>4. j \in Job /\ cursor \in Cursor
  BY <1>2 DEF JobOK, CursorOK
<1>5. x \in Job
  BY <1>4 DEF Job
<1>6. /\ x.snap = cursor /\ x.pc = "write" /\ x.kind = j.kind /\ x.args = j.args /\ x.part = j.part
      /\ x.page = j.page /\ x.chunk = j.chunk /\ x.plan = j.plan /\ x.patch = j.patch
      /\ x.after = j.after
  BY <1>4 DEF Job
<1> HIDE DEF x
<1>7. JobOK(mirror, staged, x) /\ Follows(x, j)
  <2>1. j.kind # "kickoff" /\ j.kind # "chunk"
    BY <1>1, <1>2 DEF JobOK, KickoffOK, ChunkJobOK
  <2>2. j.kind = "fetch" => FetchJobOK(mirror, staged, x)
    BY <1>1, <1>2, <1>6 DEF JobOK, FetchJobOK
  <2>3. j.kind = "finalize" => FinalizeJobOK(mirror, x)
    BY <1>1, <1>2, <1>6 DEF JobOK, FinalizeJobOK
  <2> QED
    BY <1>2, <1>5, <1>6, <2>1, <2>2, <2>3 DEF JobOK, Follows
<1> QED
  BY <1>1, <1>2, <1>3, <1>7, StepBecome

LEMMA PatchWriteInv ==
    ASSUME PipelineInv, NEW i \in Slot, PatchWrite(i)
    PROVE  PipelineInv'
<1> DEFINE j == jobs[i]
           x == [j EXCEPT !.pc = j.after, !.snap = NULL, !.patch = NoPatch]
<1>1. /\ jobs[i] # NULL /\ j.pc = "write" /\ UNCHANGED <<staged, mirror, left, overlaps>>
  BY DEF PatchWrite, At, Active
<1>2. JobOK(mirror, staged, j) /\ DOMAIN jobs = Slot /\ faults \in 0..MaxFaults
  BY <1>1, StepParts
<1>3. j.kind # "kickoff" /\ j.kind # "chunk"
  BY <1>1, <1>2 DEF JobOK, KickoffOK, ChunkJobOK
<1>4. j \in Job /\ j.kind \in {"kickoff", "fetch", "chunk", "finalize"}
      /\ j.after \in {"store", "unstage", "end"}
  BY <1>2 DEF JobOK, Job
<1>5. CursorOK(mirror, cursor')
  <2>1. CursorOK(mirror, j.snap)
    BY <1>1, <1>2 DEF JobOK
  <2>2. PatchOK(mirror, j.patch)
    BY <1>1, <1>2, <1>3, <1>4 DEF JobOK, FetchJobOK, FinalizeJobOK
  <2> QED
    BY <2>1, <2>2, MergeOK DEF PatchWrite
<1>6. CASE j.after = "end"
  <2>1. EndWithout(i)
    BY <1>6 DEF PatchWrite
  <2> QED
    BY <2>1, <1>1, <1>5, StepOut
<1>7. CASE j.after # "end"
  <2>1. jobs' = [jobs EXCEPT ![i] = x] /\ UNCHANGED faults
    BY <1>2, <1>7 DEF PatchWrite
  <2>2. NoPatch \in Patch
    BY NoPatchOK
  <2>3. x \in Job
    BY <1>4, <1>7, <2>2 DEF Job
  <2>4. /\ x.snap = NULL /\ x.pc = j.after /\ x.kind = j.kind /\ x.args = j.args
        /\ x.part = j.part /\ x.page = j.page /\ x.chunk = j.chunk /\ x.plan = j.plan
    BY <1>4 DEF Job
  <2> HIDE DEF x
  <2>5. j.kind = "fetch" => FetchJobOK(mirror, staged, x)
    BY <1>1, <1>2, <1>7, <2>4 DEF JobOK, FetchJobOK
  <2>6. j.kind = "finalize" => FinalizeJobOK(mirror, x)
    BY <1>1, <1>2, <1>7, <2>4 DEF JobOK, FinalizeJobOK
  <2>7. JobOK(mirror, staged, x) /\ Follows(x, j)
    BY <1>3, <1>4, <1>7, <2>3, <2>4, <2>5, <2>6 DEF JobOK, Follows
  <2> QED
    BY <1>1, <1>2, <1>5, <2>1, <2>7, StepBecome
<1> QED
  BY <1>6, <1>7

LEMMA KickoffBeginInv ==
    ASSUME PipelineInv, KickoffBegin
    PROVE  PipelineInv'
<1>1. PICK i \in Slot \ Active : jobs' = [jobs EXCEPT ![i] = NewJob("kickoff")]
  BY DEF KickoffBegin, Become
<1>2. UNCHANGED <<cursor, staged, mirror, left, faults>>
  BY DEF KickoffBegin
<1>3. overlaps' \in 0..MaxOverlaps
  BY PageNumbers DEF KickoffBegin, PipelineInv
<1>4. jobs[i] = NULL /\ JobsOK(mirror, staged, jobs) /\ CountOK(mirror, staged, jobs, left)
      /\ left \in [Staged -> 0..NumChunks]
  BY DEF Active, PipelineInv
<1>5. PICK J2 : J2 = jobs'
  OBVIOUS
<1>6. /\ DOMAIN J2 = Slot /\ J2[i] = NewJob("kickoff")
      /\ \A k \in Slot \ {i} : J2[k] = jobs[k]
  BY <1>1, <1>4, <1>5 DEF JobsOK
<1>7. Replaced(jobs, J2, i, {i})
  BY <1>6 DEF Replaced
<1>8. J2[i] \in Job /\ J2[i].kind = "kickoff" /\ J2[i].pc = "start" /\ J2[i].page = 0
      /\ J2[i].snap = NULL
  BY <1>6, NewJobType
<1>9. JobOK(mirror, staged, J2[i])
  BY <1>8 DEF JobOK, KickoffOK
<1>10. NewJobs(mirror, staged, jobs, i, J2, {i})
  BY <1>8, <1>9 DEF NewJobs, Apart
<1>11. \A k \in Slot : k # i /\ jobs[k] # NULL => JobOK(mirror, staged, jobs[k])
  BY <1>4, Zenon DEF JobsOK
<1>12. JobsOK(mirror, staged, J2)
  BY <1>4, <1>7, <1>10, <1>11, JobsReplaced
<1>13. \A s \in Staged : Pending(J2, s) \subseteq Pending(jobs, s)
  BY <1>6, <1>8 DEF Pending
<1>14. \A s \in Staged : Pending(J2, s) # {} => staged[s] = staged[s]
  OBVIOUS
<1>15. mirror \subseteq mirror
  OBVIOUS
<1>16. CountOK(mirror, staged, J2, left)
  BY <1>4, <1>13, <1>14, <1>15, CountMono
<1> QED
  BY <1>2, <1>3, <1>5, <1>12, <1>16 DEF PipelineInv

LEMMA KickoffDecideInv ==
    ASSUME PipelineInv, NEW i \in Slot, KickoffDecide(i)
    PROVE  PipelineInv'
<1>1. jobs[i] # NULL /\ UNCHANGED <<cursor, staged, mirror, left, faults, overlaps>>
  BY DEF KickoffDecide, At, Active
<1>2. JobOK(mirror, staged, jobs[i]) /\ DOMAIN jobs = Slot /\ faults \in 0..MaxFaults
      /\ CursorOK(mirror, cursor) /\ faults' \in 0..MaxFaults /\ CursorOK(mirror, cursor')
  BY <1>1, StepParts
<1>3. ASSUME NEW f, FetchOK(mirror, f),
             jobs' = [jobs EXCEPT ![i] = [NewJob("fetch") EXCEPT !.args = f]]
      PROVE  PipelineInv'
  <2>1. PICK x : x = [NewJob("fetch") EXCEPT !.args = f]
    OBVIOUS
  <2>2. JobOK(mirror, staged, x) /\ x.page = 0 /\ x.kind = "fetch"
    BY <1>3, <2>1, FetchStartOK
  <2>3. Follows(x, jobs[i])
    BY <2>2 DEF Follows
  <2>4. jobs' = [jobs EXCEPT ![i] = x]
    BY <1>3, <2>1
  <2> QED
    BY <1>1, <1>2, <2>2, <2>3, <2>4, StepBecome
<1>4. CASE RunReplication(cursor) /\ Become(i, [NewJob("fetch") EXCEPT !.args = FirstFetch("replication")])
  <2>1. FetchOK(mirror, FirstFetch("replication"))
    BY FirstFetchType DEF FetchOK, Modes
  <2> QED
    BY <1>3, <1>4, <2>1 DEF Become
<1>5. CASE RunIncremental(cursor) /\ Become(i, NewJob("fetch"))
  <2>1. Complete(mirror)
    BY <1>2, <1>5 DEF RunIncremental, IsCurrent, CursorOK
  <2>2. FetchOK(mirror, FirstFetch("incremental"))
    BY <2>1, FirstFetchType DEF FetchOK, Modes
  <2>3. NewJob("fetch") = [NewJob("fetch") EXCEPT !.args = FirstFetch("incremental")]
    BY DEF NewJob
  <2> QED
    BY <1>3, <1>5, <2>2, <2>3 DEF Become
<1>6. CASE Become(i, NULL)
  <2>1. jobs' = [jobs EXCEPT ![i] = NULL]
    BY <1>6 DEF Become
  <2> QED
    BY <1>1, <1>2, <2>1, StepDrop
<1> QED
  BY <1>4, <1>5, <1>6 DEF KickoffDecide

LEMMA FetchBeginInv ==
    ASSUME PipelineInv, NEW i \in Slot, FetchBegin(i)
    PROVE  PipelineInv'
<1> DEFINE j == jobs[i]
           x == [j EXCEPT !.snap = cursor, !.pc = "request"]
           capped == MaxChain > 0 /\ j.args.depth >= MaxChain
           yields == j.args.mode = "incremental" /\ cursor.inProg
<1>1. /\ jobs[i] # NULL /\ j.pc = "start" /\ j.kind = "fetch"
      /\ UNCHANGED <<cursor, staged, mirror, left, overlaps>>
  BY DEF FetchBegin, At, Active
<1>2. /\ JobOK(mirror, staged, j) /\ DOMAIN jobs = Slot /\ faults \in 0..MaxFaults
      /\ CursorOK(mirror, cursor) /\ CursorOK(mirror, cursor')
  BY <1>1, StepParts
<1>3. CASE EndWithout(i)
  BY <1>1, <1>2, <1>3, StepOut
<1>4. CASE ~(capped \/ yields) /\ jobs' = [jobs EXCEPT ![i].snap = cursor, ![i].pc = "request"]
           /\ UNCHANGED faults
  <2>1. jobs' = [jobs EXCEPT ![i] = x]
    BY <1>2, <1>4
  <2>2. j \in Job /\ cursor \in Cursor /\ j.args \in Fetch
    BY <1>2 DEF JobOK, CursorOK, Job
  <2>3. x \in Job
    BY <2>2 DEF Job
  <2>4. /\ x.snap = cursor /\ x.pc = "request" /\ x.kind = "fetch" /\ x.args = j.args
        /\ x.page = j.page /\ x.chunk = j.chunk
    BY <1>1, <2>2 DEF Job
  <2>5. MaxChain = 0 \/ j.args.depth < MaxChain
    BY <1>4, <2>2, PageNumbers DEF Fetch
  <2> HIDE DEF x
  <2>6. FetchJobOK(mirror, staged, x)
    BY <1>1, <1>2, <2>4, <2>5 DEF JobOK, FetchJobOK
  <2>7. JobOK(mirror, staged, x) /\ Follows(x, j)
    BY <1>1, <1>2, <2>3, <2>4, <2>6 DEF JobOK, Follows
  <2> QED
    BY <1>1, <1>2, <1>4, <2>1, <2>7, StepBecome
<1> QED
  BY <1>3, <1>4 DEF FetchBegin

(***************************************************************************)
(* A fetch at its request; what it becomes keeps its arguments.            *)
(***************************************************************************)
LEMMA AtRequest ==
    ASSUME PipelineInv, NEW i \in Slot, At(i, "request")
    PROVE  /\ jobs[i] # NULL /\ jobs[i].kind = "fetch" /\ jobs[i] \in Job /\ jobs[i].page = 0
           /\ FetchOK(mirror, jobs[i].args) /\ CursorOK(mirror, jobs[i].snap)
           /\ MaxChain = 0 \/ jobs[i].args.depth < MaxChain
           /\ DOMAIN jobs = Slot /\ faults \in 0..MaxFaults /\ CursorOK(mirror, cursor)
<1>1. jobs[i] # NULL /\ jobs[i].pc = "request"
  BY DEF At, Active
<1>2. /\ JobOK(mirror, staged, jobs[i]) /\ DOMAIN jobs = Slot /\ faults \in 0..MaxFaults
      /\ CursorOK(mirror, cursor)
  BY <1>1, StepParts
<1>3. jobs[i] \in Job /\ jobs[i].kind \in {"kickoff", "fetch", "chunk", "finalize"}
  BY <1>2 DEF JobOK, Job
<1>4. jobs[i].kind = "fetch"
  BY <1>1, <1>2, <1>3 DEF JobOK, KickoffOK, ChunkJobOK, FinalizeJobOK
<1> QED
  BY <1>1, <1>2, <1>3, <1>4 DEF JobOK, FetchJobOK

LEMMA FetchSkipInv ==
    ASSUME PipelineInv, NEW i \in Slot, FetchSkip(i)
    PROVE  PipelineInv'
<1>1. /\ At(i, "request") /\ EndWithout(i) /\ UNCHANGED <<cursor, staged, mirror, left, overlaps>>
  BY DEF FetchSkip
<1>2. jobs[i] # NULL /\ CursorOK(mirror, cursor')
  BY <1>1, AtRequest
<1> QED
  BY <1>1, <1>2, StepOut

(***************************************************************************)
(* A fetch that has a patch to apply and will then store its page or end.  *)
(***************************************************************************)
LEMMA FetchGoesOn ==
    ASSUME PipelineInv, NEW i \in Slot, At(i, "request"), NEW x \in Job,
           x.kind = "fetch", x.args = jobs[i].args, x.page = 0, x.snap = NULL,
           FetchJobOK(mirror, staged, x), x.pc \notin {"request", "write"},
           jobs' = [jobs EXCEPT ![i] = x], faults' \in 0..MaxFaults,
           UNCHANGED <<cursor, staged, mirror, left, overlaps>>
    PROVE  PipelineInv'
<1>1. JobOK(mirror, staged, x) /\ Follows(x, jobs[i])
  BY DEF JobOK, Follows
<1>2. jobs[i] # NULL /\ CursorOK(mirror, cursor')
  BY AtRequest
<1> QED
  BY <1>1, <1>2, StepBecome

LEMMA FetchForbiddenInv ==
    ASSUME PipelineInv, NEW i \in Slot, FetchForbidden(i)
    PROVE  PipelineInv'
<1> DEFINE j == jobs[i]
           pt == [NoPatch EXCEPT !.apply = TRUE, !.prog = FALSE]
           x == [j EXCEPT !.snap = NULL, !.pc = "read", !.after = "end", !.patch = pt]
<1>1. At(i, "request") /\ MayFault /\ UNCHANGED <<cursor, staged, mirror, left, overlaps>>
  BY DEF FetchForbidden
<1>2. /\ j.kind = "fetch" /\ j \in Job /\ j.page = 0 /\ FetchOK(mirror, j.args)
      /\ DOMAIN jobs = Slot /\ faults \in 0..MaxFaults
  BY <1>1, AtRequest
<1>3. pt \in Patch /\ pt.url = 0 /\ ~pt.finish
  BY NoPatchOK DEF Patch, NoPatch
<1>4. Covered(mirror, 0)
  BY PageNumbers DEF Covered
<1>5. PatchOK(mirror, pt)
  BY <1>3, <1>4 DEF PatchOK
<1>6. jobs' = [jobs EXCEPT ![i] = x]
  BY <1>2 DEF FetchForbidden
<1> HIDE DEF pt
<1>7. x \in Job
  BY <1>2, <1>3 DEF Job
<1>8. /\ x.snap = NULL /\ x.pc = "read" /\ x.after = "end" /\ x.patch = pt /\ x.kind = "fetch"
      /\ x.args = j.args /\ x.page = 0
  BY <1>2 DEF Job
<1> HIDE DEF x
<1>9. FetchJobOK(mirror, staged, x)
  BY <1>2, <1>5, <1>8 DEF FetchJobOK
<1>10. faults' \in 0..MaxFaults
  BY <1>1, <1>2, MayFaultType
<1> QED
  BY <1>1, <1>6, <1>7, <1>8, <1>9, <1>10, FetchGoesOn

LEMMA FetchReplicationInv ==
    ASSUME PipelineInv, NEW i \in Slot, FetchReplication(i)
    PROVE  PipelineInv'
<1> DEFINE j == jobs[i]
           p == IF j.snap.url # 0 THEN j.snap.url ELSE 1
<1>1. /\ At(i, "request") /\ j.args.mode = "replication"
      /\ UNCHANGED <<cursor, staged, mirror, left, faults, overlaps>>
  BY DEF FetchReplication
<1>2. /\ j.kind = "fetch" /\ j \in Job /\ j.page = 0 /\ FetchOK(mirror, j.args)
      /\ DOMAIN jobs = Slot /\ faults \in 0..MaxFaults /\ CursorOK(mirror, j.snap)
      /\ MaxChain = 0 \/ j.args.depth < MaxChain
  BY <1>1, AtRequest
<1>3. p \in 0..NumPages /\ p # 0 /\ Covered(mirror, p)
  <2>1. j.snap.url \in 0..NumPages /\ Covered(mirror, j.snap.url)
    BY <1>2 DEF CursorOK, Cursor
  <2>2. Covered(mirror, 1) /\ 1 \in 0..NumPages
    BY PageNumbers DEF Covered
  <2> QED
    BY <2>1, <2>2
<1> HIDE DEF p
<1>4. PICK rows \in BOOLEAN :
        /\ rows \/ (p = NumPages /\ EmptyLast)
        /\ jobs' = [jobs EXCEPT
                 ![i].snap = NULL, ![i].part = p,
                 ![i].plan = continuationPlan(jobs[i].args, p, rows, FALSE),
                 ![i].patch = IF rows THEN [NoPatch EXCEPT !.prog = TRUE] ELSE NoPatch,
                 ![i].after = IF rows THEN "store" ELSE "end",
                 ![i].pc = IF rows THEN "read" ELSE "empty"]
  BY DEF FetchReplication, p
<1>5. PICK pl : pl = continuationPlan(j.args, p, rows, FALSE)
  OBVIOUS
<1>6. PICK pt \in Patch : pt = IF rows THEN [NoPatch EXCEPT !.prog = TRUE] ELSE NoPatch
  BY NoPatchOK DEF Patch
<1>7. PICK af \in {"store", "end"} : af = IF rows THEN "store" ELSE "end"
  OBVIOUS
<1>8. PICK pc \in {"read", "empty"} : pc = IF rows THEN "read" ELSE "empty"
  OBVIOUS
<1>9. /\ PlanOK(mirror \cup Page(p), pl)
      /\ ~rows => PlanOK(mirror, pl)
  <2>1. FALSE \in BOOLEAN /\ mirror \subseteq mirror \cup Page(p) /\ Page(p) \subseteq mirror \cup Page(p)
        /\ mirror \subseteq mirror
    OBVIOUS
  <2>2. j.args.mode = "replication" /\ ~rows => p = NumPages /\ EmptyLast
    BY <1>4
  <2>3. PlanOK(mirror \cup Page(p), pl)
    BY <1>2, <1>3, <1>5, <2>1, <2>2, PlanFetched
  <2>4. ASSUME ~rows PROVE PlanOK(mirror, pl)
    BY <1>2, <1>3, <1>5, <2>1, <2>2, <2>4, PlanFetched
  <2> QED
    BY <2>3, <2>4
<1>10. PatchOK(mirror, pt)
  <2>1. pt.url = 0 /\ ~pt.finish
    BY <1>6 DEF NoPatch
  <2>2. Covered(mirror, 0)
    BY PageNumbers DEF Covered
  <2> QED
    BY <2>1, <2>2 DEF PatchOK
<1> DEFINE x == [j EXCEPT !.snap = NULL, !.part = p, !.plan = pl, !.patch = pt,
                          !.after = af, !.pc = pc]
<1>11. jobs' = [jobs EXCEPT ![i] = x]
  BY <1>2, <1>4, <1>5, <1>6, <1>7, <1>8
<1>12. pl \in Plan
  BY <1>9 DEF PlanOK
<1>13. x \in Job
  BY <1>2, <1>3, <1>12 DEF Job
<1>14. /\ x.snap = NULL /\ x.pc = pc /\ x.after = af /\ x.patch = pt /\ x.kind = "fetch"
       /\ x.args = j.args /\ x.page = 0 /\ x.part = p /\ x.plan = pl
  BY <1>2 DEF Job
<1> HIDE DEF x
<1>15. FetchJobOK(mirror, staged, x)
  BY <1>2, <1>7, <1>8, <1>9, <1>10, <1>14 DEF FetchJobOK
<1>16. x.pc \notin {"request", "write"} /\ faults' \in 0..MaxFaults
  BY <1>1, <1>2, <1>14
<1> QED
  BY <1>1, <1>11, <1>13, <1>14, <1>15, <1>16, FetchGoesOn

LEMMA FetchPagedInv ==
    ASSUME PipelineInv, NEW i \in Slot, FetchPaged(i)
    PROVE  PipelineInv'
<1> DEFINE j == jobs[i]
<1>1. /\ At(i, "request") /\ j.args.mode # "replication"
      /\ UNCHANGED <<cursor, staged, mirror, left, faults, overlaps>>
  BY DEF FetchPaged
<1>2. /\ j.kind = "fetch" /\ j \in Job /\ j.page = 0 /\ FetchOK(mirror, j.args)
      /\ DOMAIN jobs = Slot /\ faults \in 0..MaxFaults /\ faults' \in 0..MaxFaults
      /\ MaxChain = 0 \/ j.args.depth < MaxChain
  BY <1>1, AtRequest
<1>3. Complete(mirror) /\ Covered(mirror, 0)
  BY <1>1, <1>2, PageNumbers DEF FetchOK, Covered
<1>4. PICK outcome \in {"full", "partial", "empty"} :
        jobs' = IF outcome = "empty"
                   THEN [jobs EXCEPT ![i].snap = NULL, ![i].pc = "read", ![i].after = "end",
                                     ![i].patch = [NoPatch EXCEPT !.finish = TRUE]]
                   ELSE [jobs EXCEPT ![i].snap = NULL, ![i].pc = "store",
                           ![i].plan = continuationPlan(jobs[i].args, 0, TRUE,
                                                        outcome = "full")]
  BY DEF FetchPaged
<1>5. CASE outcome = "empty"
  <2> DEFINE pt == [NoPatch EXCEPT !.finish = TRUE]
             x == [j EXCEPT !.snap = NULL, !.pc = "read", !.after = "end", !.patch = pt]
  <2>1. jobs' = [jobs EXCEPT ![i] = x]
    BY <1>2, <1>4, <1>5
  <2>2. pt \in Patch /\ pt.url = 0
    BY NoPatchOK DEF Patch, NoPatch
  <2>3. PatchOK(mirror, pt)
    BY <1>3, <2>2 DEF PatchOK
  <2> HIDE DEF pt
  <2>4. x \in Job
    BY <1>2, <2>2 DEF Job
  <2>5. /\ x.snap = NULL /\ x.pc = "read" /\ x.after = "end" /\ x.patch = pt
        /\ x.kind = "fetch" /\ x.args = j.args /\ x.page = 0
    BY <1>2 DEF Job
  <2> HIDE DEF x
  <2>6. FetchJobOK(mirror, staged, x)
    BY <1>2, <2>3, <2>5 DEF FetchJobOK
  <2> QED
    BY <1>1, <1>2, <2>1, <2>4, <2>5, <2>6, FetchGoesOn
<1>6. CASE outcome # "empty"
  <2>1. PICK more \in BOOLEAN : more = (outcome = "full")
    BY Zenon
  <2>2. PICK pl : pl = continuationPlan(j.args, 0, TRUE, more)
    OBVIOUS
  <2> DEFINE x == [j EXCEPT !.snap = NULL, !.pc = "store", !.plan = pl]
  <2>3. jobs' = [jobs EXCEPT ![i] = x]
    BY <1>2, <1>4, <1>6, <2>1, <2>2
  <2>4. PlanOK(mirror \cup Page(j.part), pl)
    <3>1. 0 \in 0..NumPages /\ TRUE \in BOOLEAN /\ mirror \subseteq mirror \cup Page(j.part)
      BY PageNumbers
    <3> QED
      BY <1>1, <1>2, <1>3, <2>2, <3>1, PlanFetched
  <2>5. pl \in Plan
    BY <2>4 DEF PlanOK
  <2>6. x \in Job
    BY <1>2, <2>5 DEF Job
  <2>7. /\ x.snap = NULL /\ x.pc = "store" /\ x.kind = "fetch" /\ x.args = j.args
        /\ x.page = 0 /\ x.part = j.part /\ x.plan = pl
    BY <1>2 DEF Job
  <2> HIDE DEF x
  <2>8. FetchJobOK(mirror, staged, x)
    BY <1>2, <2>4, <2>7 DEF FetchJobOK
  <2> QED
    BY <1>1, <1>2, <2>3, <2>6, <2>7, <2>8, FetchGoesOn
<1> QED
  BY <1>5, <1>6

LEMMA DispatchEmptyInv ==
    ASSUME PipelineInv, NEW i \in Slot, DispatchEmpty(i)
    PROVE  PipelineInv'
<1> DEFINE j == jobs[i]
<1>1. /\ j # NULL /\ j.pc = "empty" /\ UNCHANGED <<cursor, staged, mirror, left, overlaps>>
  BY DEF DispatchEmpty, At, Active
<1>2. JobOK(mirror, staged, j)
  BY <1>1, StepParts
<1>3. j.kind \in {"kickoff", "fetch", "chunk", "finalize"}
  BY <1>2 DEF JobOK, Job
<1>4. PlanOK(mirror, j.plan)
  BY <1>1, <1>2, <1>3 DEF JobOK, KickoffOK, FetchJobOK, ChunkJobOK, FinalizeJobOK
<1>5. j.plan \in Plan
  BY <1>4 DEF PlanOK
<1> DEFINE x == [NewJob("finalize") EXCEPT !.plan = j.plan]
<1>6. x \in Job
  BY <1>5, NewJobType DEF Job
<1>7. x.kind = "finalize" /\ x.pc = "start" /\ x.snap = NULL /\ x.plan = j.plan /\ x.page = 0
  BY NewJobType DEF Job
<1>8. EndWith(i, x)
  BY DEF DispatchEmpty
<1> HIDE DEF x
<1>9. JobOK(mirror, staged, x)
  BY <1>4, <1>6, <1>7, FinalizeStartOK
<1> QED
  BY <1>1, <1>7, <1>8, <1>9, StepIn

LEMMA CountLess ==
    ASSUME NEW A, A \subseteq 1..NumChunks, NEW B, B \subseteq A, NEW n \in 0..NumChunks,
           Cardinality(A) <= n
    PROVE  Cardinality(B) <= n
<1>1. Cardinality(B) <= Cardinality(A) /\ Cardinality(A) \in 0..NumChunks
  BY FiniteChunks
<1>2. B \subseteq 1..NumChunks
  OBVIOUS
<1>3. Cardinality(B) \in 0..NumChunks
  BY <1>2, FiniteChunks
<1> QED
  BY <1>1, <1>3, PageNumbers

LEMMA StorePageInv ==
    ASSUME PipelineInv, NEW i \in Slot, StorePage(i)
    PROVE  PipelineInv'
<1> DEFINE j == jobs[i]
<1>1. j # NULL /\ j.pc = "store" /\ UNCHANGED <<cursor, mirror, left, faults, overlaps>>
  BY DEF StorePage, At, Active
<1>2. /\ JobOK(mirror, staged, j) /\ DOMAIN jobs = Slot /\ JobsOK(mirror, staged, jobs)
      /\ CountOK(mirror, staged, jobs, left) /\ left \in [Staged -> 0..NumChunks]
  BY <1>1, StepParts
<1>3. /\ j \in Job /\ j.kind \in {"kickoff", "fetch", "chunk", "finalize"}
      /\ j.part \in 0..NumPages
  BY <1>2 DEF JobOK, Job
<1>4. j.kind = "fetch"
  BY <1>1, <1>2, <1>3 DEF JobOK, KickoffOK, ChunkJobOK, FinalizeJobOK
<1>5. FetchJobOK(mirror, staged, j)
  BY <1>2, <1>4 DEF JobOK
<1>6. PICK s \in Staged :
        /\ \A k \in Active : jobs[k].page # s
        /\ staged' = [staged EXCEPT ![s] = j.part]
        /\ jobs' = [jobs EXCEPT ![i].page = s, ![i].pc = "batch"]
  BY DEF StorePage
<1> DEFINE x == [j EXCEPT !.page = s, !.pc = "batch"]
<1>7. \A k \in Slot : jobs[k] # NULL => jobs[k].page # s
  BY <1>6 DEF Active
<1>8. staged' \in [Staged -> (0..NumPages) \cup {NULL}] /\ staged'[s] = j.part
      /\ \A t \in Staged \ {s} : staged'[t] = staged[t]
  BY <1>3, <1>6 DEF PipelineInv
<1>9. PICK S2 : S2 = staged'
  OBVIOUS
<1>10. PICK J2 : J2 = jobs'
  OBVIOUS
<1>11. J2 = [jobs EXCEPT ![i] = x]
  BY <1>2, <1>6, <1>10
<1>12. DOMAIN J2 = Slot /\ J2[i] = x /\ \A k \in Slot \ {i} : J2[k] = jobs[k]
  BY <1>2, <1>11
<1>13. s \in 0..Cardinality(Staged) /\ s # 0
  BY StagedCount DEF Staged
<1>14. x \in Job
  BY <1>3, <1>13 DEF Job
<1>15. /\ x.kind = "fetch" /\ x.pc = "batch" /\ x.page = s /\ x.part = j.part
       /\ x.plan = j.plan /\ x.args = j.args /\ x.snap = j.snap
  BY <1>3, <1>4 DEF Job
<1> HIDE DEF x
<1>16. FetchJobOK(mirror, S2, x)
  BY <1>1, <1>5, <1>8, <1>9, <1>15 DEF FetchJobOK
<1>17. JobOK(mirror, S2, x)
  BY <1>2, <1>14, <1>15, <1>16 DEF JobOK
<1>18. Replaced(jobs, J2, i, {i})
  BY <1>12 DEF Replaced
<1>19. \A l \in Slot : l # i /\ jobs[l] # NULL => Apart(x, jobs[l])
  BY <1>7, <1>15 DEF Apart
<1>20. NewJobs(mirror, S2, jobs, i, J2, {i})
  BY <1>12, <1>17, <1>19 DEF NewJobs
<1>21. \A k \in Slot : k # i /\ jobs[k] # NULL => JobOK(mirror, S2, jobs[k])
  <2> TAKE k \in Slot
  <2> HAVE k # i /\ jobs[k] # NULL
  <2>1. JobOK(mirror, staged, jobs[k])
    BY <1>2, Zenon DEF JobsOK
  <2>2. jobs[k].page \in Staged => S2[jobs[k].page] = staged[jobs[k].page]
    BY <1>7, <1>8, <1>9
  <2>3. mirror \subseteq mirror
    OBVIOUS
  <2> QED
    BY <2>1, <2>2, <2>3, JobFrame
<1>22. JobsOK(mirror, S2, J2)
  BY <1>2, <1>18, <1>20, <1>21, JobsReplaced
<1>23. \A t \in Staged : Pending(J2, t) \subseteq Pending(jobs, t)
  BY <1>12, <1>15 DEF Pending
<1>24. \A t \in Staged : Pending(J2, t) # {} => S2[t] = staged[t]
  <2> SUFFICES ASSUME NEW t \in Staged, Pending(J2, t) # {} PROVE t # s
    BY <1>8, <1>9
  <2>1. PICK c : c \in Pending(jobs, t)
    BY <1>23
  <2> QED
    BY <2>1, <1>7 DEF Pending
<1>25. mirror \subseteq mirror
  OBVIOUS
<1>26. CountOK(mirror, S2, J2, left)
  BY <1>2, <1>23, <1>24, <1>25, CountMono
<1> QED
  BY <1>1, <1>8, <1>9, <1>10, <1>22, <1>26 DEF PipelineInv

LEMMA EnqueueBatchInv ==
    ASSUME PipelineInv, NEW i \in Slot, EnqueueBatch(i)
    PROVE  PipelineInv'
<1> DEFINE j == jobs[i]
           s == j.page
<1>1. j # NULL /\ j.pc = "batch" /\ UNCHANGED <<cursor, staged, mirror, overlaps>>
      /\ left' = [left EXCEPT ![s] = NumChunks]
  BY DEF EnqueueBatch, At, Active
<1>2. /\ JobOK(mirror, staged, j) /\ DOMAIN jobs = Slot /\ JobsOK(mirror, staged, jobs)
      /\ CountOK(mirror, staged, jobs, left) /\ left \in [Staged -> 0..NumChunks]
      /\ faults \in 0..MaxFaults
  BY <1>1, StepParts
<1>3. /\ j \in Job /\ j.kind \in {"kickoff", "fetch", "chunk", "finalize"}
      /\ j.part \in 0..NumPages
  BY <1>2 DEF JobOK, Job
<1>4. j.kind = "fetch"
  BY <1>1, <1>2, <1>3 DEF JobOK, KickoffOK, ChunkJobOK, FinalizeJobOK
<1>5. s \in Staged /\ s # 0 /\ staged[s] = j.part /\ PlanOK(mirror \cup Page(staged[s]), j.plan)
  <2>1. FetchJobOK(mirror, staged, j)
    BY <1>2, <1>4 DEF JobOK
  <2>2. s \in Staged /\ staged[s] = j.part /\ PlanOK(mirror \cup Page(j.part), j.plan)
    BY <1>1, <2>1 DEF FetchJobOK
  <2>3. s # 0
    BY <2>2 DEF Staged
  <2> QED
    BY <2>2, <2>3, Zenon
<1>6. PICK K, r :
        /\ Replaced(jobs, jobs', i, K)
        /\ \A k \in K : /\ r[k] \in 1..(NumChunks + 1)
                        /\ jobs'[k] = IF r[k] > NumChunks THEN Again(jobs[i])
                                      ELSE ChunkOf(jobs[i], r[k])
        /\ \A k, l \in K : k # l => r[k] # r[l]
  BY <1>2, EndBatch
<1>7. faults' \in 0..MaxFaults
  BY <1>2, EndBatch
<1>8. PICK J2 : J2 = jobs'
  OBVIOUS
<1>9. Replaced(jobs, J2, i, K)
  BY <1>6, <1>8
<1>10. JobOK(mirror, staged, Again(j)) /\ Again(j).page = 0 /\ Follows(Again(j), j)
  BY <1>2, <1>4, AgainOK
<1>11. \A k \in K :
          /\ JobOK(mirror, staged, J2[k])
          /\ \/ J2[k].page = 0
             \/ J2[k].page = s /\ J2[k].kind = "chunk" /\ J2[k].chunk = r[k]
  <2> TAKE k \in K
  <2>1. CASE r[k] > NumChunks
    BY <2>1, <1>6, <1>8, <1>10
  <2>2. CASE ~(r[k] > NumChunks)
    <3>1. J2[k] = ChunkOf(j, r[k]) /\ r[k] \in 1..NumChunks
      BY <2>2, <1>6, <1>8, PageNumbers
    <3>2. staged[s] \in 0..NumPages
      BY <1>3, <1>5
    <3>3. BatchReady(mirror, staged, j)
      BY <3>2, <1>5 DEF BatchReady
    <3> HIDE DEF j
    <3>4. PICK c \in 1..NumChunks : c = r[k]
      BY <3>1
    <3>5. /\ JobOK(mirror, staged, ChunkOf(j, c)) /\ ChunkOf(j, c).page = j.page
          /\ ChunkOf(j, c).kind = "chunk" /\ ChunkOf(j, c).chunk = c
      BY <3>3, ChunkStartOK
    <3> QED
      BY <3>1, <3>4, <3>5, Zenon
  <2> QED
    BY <2>1, <2>2
<1>12. \A l \in Slot : l # i /\ jobs[l] # NULL => jobs[l].page # s
  BY <1>1, <1>2, <1>4, <1>5 DEF JobsOK, Apart
<1>13. NewJobs(mirror, staged, jobs, i, J2, K)
  <2>1. \A k \in K, l \in Slot : l # i /\ jobs[l] # NULL => Apart(J2[k], jobs[l])
    BY <1>11, <1>12 DEF Apart
  <2>2. \A k, l \in K : k # l => Apart(J2[k], J2[l])
    BY <1>6, <1>11 DEF Apart
  <2> QED
    BY <1>11, <2>1, <2>2 DEF NewJobs
<1>14. \A k \in Slot : k # i /\ jobs[k] # NULL => JobOK(mirror, staged, jobs[k])
  BY <1>2, Zenon DEF JobsOK
<1>15. JobsOK(mirror, staged, J2)
  BY <1>2, <1>9, <1>13, <1>14, JobsReplaced
<1>16. PICK L2 : L2 = left'
  OBVIOUS
<1>17. L2 \in [Staged -> 0..NumChunks] /\ L2[s] = NumChunks /\ \A t \in Staged \ {s} : L2[t] = left[t]
  BY <1>1, <1>2, <1>5, <1>16, PageNumbers
<1>18. ASSUME NEW t \in Staged, t # s, Pending(J2, t) # {}
       PROVE  Cardinality(Missing(mirror, staged[t]) \cup Pending(J2, t)) <= L2[t]
  <2>0. t # 0
    BY DEF Staged
  <2>1. Pending(J2, t) \subseteq Pending(jobs, t)
    <3> SUFFICES ASSUME NEW c \in Pending(J2, t) PROVE c \in Pending(jobs, t)
      OBVIOUS
    <3>1. PICK k \in Slot : /\ J2[k] # NULL /\ J2[k].kind = "chunk"
                            /\ J2[k].page = t /\ J2[k].chunk = c
      BY DEF Pending
    <3>2. k \notin K
      BY <3>1, <2>0, <1>11, <1>18
    <3>3. J2[k] = jobs[k]
      BY <3>1, <3>2, <1>9 DEF Replaced
    <3> QED
      BY <3>1, <3>3 DEF Pending
  <2> DEFINE A == Missing(mirror, staged[t]) \cup Pending(jobs, t)
             B == Missing(mirror, staged[t]) \cup Pending(J2, t)
  <2>2. A \subseteq 1..NumChunks /\ B \subseteq A
    BY <2>1 DEF Missing, Pending
  <2>3. Cardinality(A) <= left[t] /\ left[t] \in 0..NumChunks
    BY <2>1, <1>2, <1>18 DEF CountOK
  <2> HIDE DEF A, B
  <2>4. Cardinality(B) <= left[t]
    BY <2>2, <2>3, CountLess
  <2> QED
    BY <2>4, <1>17, <1>18 DEF B
<1>19. Cardinality(Missing(mirror, staged[s]) \cup Pending(J2, s)) <= L2[s]
  <2>1. Missing(mirror, staged[s]) \cup Pending(J2, s) \subseteq 1..NumChunks
    BY DEF Missing, Pending
  <2>2. Cardinality(Missing(mirror, staged[s]) \cup Pending(J2, s)) \in 0..NumChunks
    BY <2>1, FiniteChunks
  <2> QED
    BY <2>2, <1>17, PageNumbers
<1>20. CountOK(mirror, staged, J2, L2)
  BY <1>18, <1>19 DEF CountOK
<1> QED
  BY <1>1, <1>7, <1>8, <1>15, <1>16, <1>17, <1>20 DEF PipelineInv

(***************************************************************************)
(* A failed job, with a mirror that may have grown.                        *)
(***************************************************************************)
LEMMA StepFailed ==
    ASSUME PipelineInv, NEW i \in Slot, jobs[i] # NULL, MayFault,
           NEW x \in Failed(jobs[i]), jobs' = [jobs EXCEPT ![i] = x],
           mirror \subseteq mirror', mirror' \subseteq (0..NumPages) \X (1..NumChunks),
           UNCHANGED <<cursor, staged, left, overlaps>>
    PROVE  PipelineInv'
<1>1. PICK M2 : M2 = mirror'
  OBVIOUS
<1>2. /\ JobsOK(mirror, staged, jobs) /\ CountOK(mirror, staged, jobs, left)
      /\ left \in [Staged -> 0..NumChunks] /\ CursorOK(mirror, cursor)
      /\ JobOK(mirror, staged, jobs[i]) /\ faults \in 0..MaxFaults
  BY StepParts
<1>3. CursorOK(M2, cursor)
  BY <1>1, <1>2, CursorMono
<1>4. JobsOK(M2, staged, jobs') /\ CountOK(M2, staged, jobs', left)
  <2>1. CASE x = NULL
    BY <1>1, <1>2, <2>1, QuietDrop
  <2>2. CASE x = Again(jobs[i])
    <3>1. JobOK(mirror, staged, x) /\ Follows(x, jobs[i])
      BY <1>2, <2>2, AgainOK
    <3>2. staged[x.page] = staged[x.page]
      OBVIOUS
    <3>3. JobOK(M2, staged, x)
      BY <1>1, <3>1, <3>2, JobFrame
    <3> QED
      BY <1>1, <1>2, <3>1, <3>3, QuietBecome
  <2> QED
    BY <2>1, <2>2 DEF Failed
<1>5. faults' \in 0..MaxFaults
  BY <1>2, MayFaultType
<1> QED
  BY <1>1, <1>3, <1>4, <1>5 DEF PipelineInv

LEMMA FaultInv ==
    ASSUME PipelineInv, NEW i \in Slot, Fault(i)
    PROVE  PipelineInv'
<1>1. jobs[i] # NULL /\ MayFault /\ UNCHANGED <<cursor, staged, left, overlaps>>
  BY DEF Fault, Active
<1>2. PICK x \in Failed(jobs[i]) : jobs' = [jobs EXCEPT ![i] = x]
  BY DEF Fault, Become
<1>3. mirror' = mirror \/ mirror' = mirror \cup {<<0, 1>>}
  BY DEF Fault
<1>4. mirror \subseteq mirror' /\ mirror' \subseteq (0..NumPages) \X (1..NumChunks)
  <2>1. <<0, 1>> \in (0..NumPages) \X (1..NumChunks)
    BY PageNumbers
  <2> QED
    BY <2>1, <1>3, Zenon DEF PipelineInv
<1> QED
  BY <1>1, <1>2, <1>4, StepFailed

LEMMA PersistChunkInv ==
    ASSUME PipelineInv, NEW i \in Slot, PersistChunk(i)
    PROVE  PipelineInv'
<1> DEFINE j == jobs[i]
<1>1. j # NULL /\ j.kind = "chunk" /\ UNCHANGED <<cursor, staged, overlaps>>
  BY DEF PersistChunk, At, Active
<1>2. /\ JobOK(mirror, staged, j) /\ DOMAIN jobs = Slot /\ JobsOK(mirror, staged, jobs)
      /\ CountOK(mirror, staged, jobs, left) /\ left \in [Staged -> 0..NumChunks]
      /\ faults \in 0..MaxFaults /\ CursorOK(mirror, cursor)
  BY <1>1, StepParts
<1>3. PICK s \in Staged : s = j.page
  BY <1>1, <1>2 DEF JobOK, ChunkJobOK
<1>4. PICK c \in 1..NumChunks : c = j.chunk
  BY <1>1, <1>2 DEF JobOK, ChunkJobOK
<1>5. PICK p \in 0..NumPages : p = staged[s]
  BY <1>1, <1>2, <1>3 DEF JobOK, ChunkJobOK
<1>6. PlanOK(mirror \cup Page(p), j.plan) /\ j.plan \in Plan
  BY <1>1, <1>2, <1>3, <1>5 DEF JobOK, ChunkJobOK, PlanOK
<1>7. PICK M2 : M2 = mirror \cup {<<p, c>>}
  OBVIOUS
<1>8. mirror' = M2
  BY <1>3, <1>4, <1>5, <1>7 DEF PersistChunk
<1>9. mirror \subseteq M2 /\ M2 \subseteq (0..NumPages) \X (1..NumChunks)
  BY <1>7 DEF PipelineInv
<1>10. CASE MayFault /\ (\E x \in Failed(jobs[i]) : Become(i, x)) /\ UNCHANGED left
  BY <1>1, <1>8, <1>9, <1>10, StepFailed DEF Become
<1>11. ASSUME left' = [left EXCEPT ![s] = left[s] - 1], UNCHANGED faults,
              Become(i, IF left[s] = 1
                        THEN [NewJob("finalize") EXCEPT !.page = s, !.plan = j.plan]
                        ELSE NULL)
       PROVE  PipelineInv'
  <2> DEFINE A == Missing(mirror, p) \cup Pending(jobs, s)
  <2>1. A \subseteq 1..NumChunks /\ c \in Pending(jobs, s) /\ c \in A
    BY <1>1, <1>3, <1>4 DEF Missing, Pending
  <2>2. Cardinality(A) <= left[s] /\ left[s] \in 0..NumChunks
    BY <1>2, <1>5, <2>1 DEF CountOK
  <2>3. IsFiniteSet(A) /\ Cardinality(A) \in 0..NumChunks
    BY <2>1, FiniteChunks
  <2>4. Cardinality(A \ {c}) = Cardinality(A) - 1 /\ Cardinality(A) # 0
    <3>1. Cardinality(A \ {c}) = Cardinality(A) - 1
      BY <2>1, <2>3, FS_RemoveElement
    <3>2. Cardinality(A) # 0
      BY <2>1, <2>3, FS_EmptySet
    <3> QED
      BY <3>1, <3>2
  <2>5. \A l \in Slot : l # i /\ jobs[l] # NULL /\ jobs[l].page = s =>
                          /\ jobs[l].kind = "chunk" /\ jobs[l].chunk # c
                          /\ jobs[l].chunk \in A
    <3> SUFFICES ASSUME NEW l \in Slot, l # i, jobs[l] # NULL, jobs[l].page = s
                 PROVE  /\ jobs[l].kind = "chunk" /\ jobs[l].chunk # c
                        /\ jobs[l].chunk \in A
      OBVIOUS
    <3>1. Apart(j, jobs[l]) /\ JobOK(mirror, staged, jobs[l])
      BY <1>1, <1>2 DEF JobsOK
    <3>2. s # 0
      BY DEF Staged
    <3>3. jobs[l].kind = "chunk" /\ jobs[l].chunk # c
      BY <3>1, <3>2, <1>3, <1>4 DEF Apart
    <3>4. jobs[l].chunk \in 1..NumChunks
      BY <3>1, <3>3 DEF JobOK, ChunkJobOK
    <3> QED
      BY <3>3, <3>4 DEF Pending
  <2>6. PICK L2 : L2 = left'
    OBVIOUS
  <2>7. /\ L2 \in [Staged -> 0..NumChunks] /\ L2[s] = left[s] - 1
        /\ \A t \in Staged \ {s} : L2[t] = left[t]
    <3>1. left[s] - 1 \in 0..NumChunks
      BY <2>2, <2>3, <2>4, PageNumbers
    <3> QED
      BY <1>2, <1>11, <2>6, <3>1
  <2>8. PICK J2 : J2 = jobs'
    OBVIOUS
  <2>9. /\ DOMAIN J2 = Slot /\ \A k \in Slot \ {i} : J2[k] = jobs[k]
    BY <1>2, <1>11, <2>8 DEF Become
  <2>10. \A k \in Slot : k # i /\ jobs[k] # NULL => JobOK(M2, staged, jobs[k])
    <3> TAKE k \in Slot
    <3> HAVE k # i /\ jobs[k] # NULL
    <3>1. JobOK(mirror, staged, jobs[k])
      BY <1>2, Zenon DEF JobsOK
    <3>2. staged[jobs[k].page] = staged[jobs[k].page]
      OBVIOUS
    <3> QED
      BY <3>1, <3>2, <1>9, JobFrame, Zenon
  <2>11. ASSUME JobsOK(M2, staged, J2), J2[i] # NULL => J2[i].kind # "chunk"
         PROVE  PipelineInv'
    <3>1. ASSUME NEW t \in Staged PROVE Pending(J2, t) \subseteq Pending(jobs, t)
      BY <2>9, <2>11 DEF Pending
    <3>2. ASSUME NEW t \in Staged, Pending(J2, t) # {}
          PROVE  Cardinality(Missing(M2, staged[t]) \cup Pending(J2, t)) <= L2[t]
      <4> DEFINE B == Missing(M2, staged[t]) \cup Pending(J2, t)
      <4>1. CASE t # s
        <5> DEFINE C == Missing(mirror, staged[t]) \cup Pending(jobs, t)
        <5>1. C \subseteq 1..NumChunks /\ B \subseteq C
          BY <3>1, <1>9 DEF Missing, Pending
        <5>2. Cardinality(C) <= left[t] /\ left[t] \in 0..NumChunks
          BY <3>1, <3>2, <1>2 DEF CountOK
        <5> HIDE DEF B, C
        <5>3. Cardinality(B) <= left[t]
          BY <5>1, <5>2, CountLess
        <5> QED
          BY <5>3, <4>1, <2>7 DEF B
      <4>2. CASE t = s
        <5>1. c \notin Missing(M2, staged[s])
          BY <1>5, <1>7 DEF Missing
        <5>2. c \notin Pending(J2, s)
          BY <2>5, <2>9, <2>11 DEF Pending
        <5>3. Missing(M2, staged[s]) \subseteq Missing(mirror, p)
          BY <1>5, <1>9 DEF Missing
        <5>4. Pending(J2, s) \subseteq Pending(jobs, s)
          BY <3>1
        <5>5. B \subseteq A \ {c} /\ A \ {c} \subseteq 1..NumChunks
          BY <5>1, <5>2, <5>3, <5>4, <4>2, <2>1
        <5>6. Cardinality(A \ {c}) <= L2[s] /\ L2[s] \in 0..NumChunks
          BY <2>2, <2>3, <2>4, <2>7, PageNumbers
        <5> HIDE DEF A, B
        <5>7. Cardinality(B) <= L2[s]
          BY <5>5, <5>6, CountLess
        <5> QED
          BY <5>7, <4>2 DEF B
      <4> QED
        BY <4>1, <4>2
    <3>3. CountOK(M2, staged, J2, L2)
      BY <3>2 DEF CountOK
    <3>4. CursorOK(M2, cursor)
      BY <1>2, <1>9, CursorMono
    <3> QED
      BY <1>1, <1>8, <1>9, <1>11, <2>6, <2>7, <2>8, <2>11, <3>3, <3>4 DEF PipelineInv
  <2>12. CASE left[s] = 1
    <3> DEFINE x == [NewJob("finalize") EXCEPT !.page = s, !.plan = j.plan]
    <3>1. J2[i] = x
      BY <1>2, <1>11, <2>8, <2>12 DEF Become
    <3>2. A = {c}
      <4>1. Cardinality(A) = 1 /\ Cardinality(A \ {c}) = 0
        BY <2>2, <2>3, <2>4, <2>12, PageNumbers
      <4>2. IsFiniteSet(A \ {c})
        BY <2>3, FS_RemoveElement
      <4>3. A \ {c} = {}
        BY <4>1, <4>2, FS_EmptySet
      <4> QED
        BY <4>3, <2>1
    <3>3. PlanOK(M2, j.plan)
      <4>1. Page(p) \subseteq M2
        <5> SUFFICES ASSUME NEW d \in 1..NumChunks PROVE <<p, d>> \in M2
          BY DEF Page
        <5>1. d \in Missing(mirror, p) => d = c
          BY <3>2
        <5> QED
          BY <5>1, <1>7 DEF Missing
      <4>2. mirror \cup Page(p) \subseteq M2
        BY <4>1, <1>9
      <4> QED
        BY <4>2, <1>6, PlanMono
    <3>4. s \in 0..Cardinality(Staged)
      BY StagedCount
    <3>5. x \in Job
      BY <1>6, <3>4, NewJobType DEF Job
    <3>6. /\ x.kind = "finalize" /\ x.pc = "start" /\ x.snap = NULL /\ x.plan = j.plan
          /\ x.page = s
      BY NewJobType DEF Job
    <3> HIDE DEF x
    <3>7. JobOK(M2, staged, x)
      BY <3>3, <3>5, <3>6, FinalizeStartOK
    <3>8. \A l \in Slot : l # i /\ jobs[l] # NULL => jobs[l].page # s
      BY <2>5, <3>2
    <3>9. NewJobs(M2, staged, jobs, i, J2, {i})
      BY <3>1, <3>6, <3>7, <3>8 DEF NewJobs, Apart
    <3>10. Replaced(jobs, J2, i, {i})
      BY <2>9 DEF Replaced
    <3>11. JobsOK(M2, staged, J2)
      BY <1>2, <2>10, <3>9, <3>10, JobsReplaced
    <3> QED
      BY <2>11, <3>1, <3>6, <3>11
  <2>13. CASE left[s] # 1
    <3>1. J2[i] = NULL
      BY <1>2, <1>11, <2>8, <2>13 DEF Become
    <3>2. NewJobs(M2, staged, jobs, i, J2, {})
      BY DEF NewJobs
    <3>3. Replaced(jobs, J2, i, {})
      BY <2>9, <3>1 DEF Replaced
    <3>4. JobsOK(M2, staged, J2)
      BY <1>2, <2>10, <3>2, <3>3, JobsReplaced
    <3> QED
      BY <2>11, <3>1, <3>4
  <2> QED
    BY <2>12, <2>13
<1> QED
  BY <1>3, <1>10, <1>11 DEF PersistChunk

LEMMA FinalizeBeginInv ==
    ASSUME PipelineInv, NEW i \in Slot, FinalizeBegin(i)
    PROVE  PipelineInv'
<1> DEFINE j == jobs[i]
<1>1. /\ j # NULL /\ j.pc = "start" /\ j.kind = "finalize"
      /\ UNCHANGED <<cursor, staged, mirror, left, faults, overlaps>>
  BY DEF FinalizeBegin, At, Active
<1>2. /\ JobOK(mirror, staged, j) /\ DOMAIN jobs = Slot /\ CursorOK(mirror, cursor')
      /\ faults' \in 0..MaxFaults
  BY <1>1, StepParts
<1>3. PlanOK(mirror, j.plan)
  BY <1>1, <1>2 DEF JobOK, FinalizeJobOK
<1>4. PICK pt \in Patch : pt = j.plan.patch
  BY <1>3 DEF PlanOK, PatchOK
<1>5. PatchOK(mirror, pt)
  BY <1>3, <1>4 DEF PlanOK
<1>6. PICK pc \in {"unstage", "read"} : pc = IF j.plan.patch = NoPatch THEN "unstage" ELSE "read"
  OBVIOUS
<1> DEFINE x == [j EXCEPT !.patch = pt, !.after = "unstage", !.pc = pc]
<1>7. jobs' = [jobs EXCEPT ![i] = x]
  BY <1>2, <1>4, <1>6 DEF FinalizeBegin
<1>8. j \in Job
  BY <1>2 DEF JobOK
<1>9. x \in Job
  BY <1>8 DEF Job
<1>10. /\ x.kind = "finalize" /\ x.pc = pc /\ x.patch = pt /\ x.after = "unstage"
       /\ x.plan = j.plan /\ x.page = j.page /\ x.chunk = j.chunk /\ x.snap = j.snap
  BY <1>1, <1>8 DEF Job
<1> HIDE DEF x
<1>11. FinalizeJobOK(mirror, x)
  BY <1>3, <1>5, <1>10 DEF FinalizeJobOK
<1>12. JobOK(mirror, staged, x) /\ Follows(x, j)
  BY <1>1, <1>2, <1>9, <1>10, <1>11 DEF JobOK, Follows
<1> QED
  BY <1>1, <1>2, <1>7, <1>12, StepBecome

LEMMA FinalizeUnstageInv ==
    ASSUME PipelineInv, NEW i \in Slot, FinalizeUnstage(i)
    PROVE  PipelineInv'
<1> DEFINE j == jobs[i]
           x == [j EXCEPT !.pc = "next"]
<1>1. /\ j # NULL /\ j.pc = "unstage" /\ UNCHANGED <<cursor, mirror, left, overlaps>>
  BY DEF FinalizeUnstage, At, Active
<1>2. /\ JobOK(mirror, staged, j) /\ DOMAIN jobs = Slot /\ JobsOK(mirror, staged, jobs)
      /\ CountOK(mirror, staged, jobs, left) /\ left \in [Staged -> 0..NumChunks]
      /\ faults \in 0..MaxFaults
  BY <1>1, StepParts
<1>3. j \in Job /\ j.kind \in {"kickoff", "fetch", "chunk", "finalize"}
  BY <1>2 DEF JobOK, Job
<1>4. j.kind = "finalize"
  BY <1>1, <1>2, <1>3 DEF JobOK, KickoffOK, FetchJobOK, ChunkJobOK
<1>5. faults' \in 0..MaxFaults
  BY <1>2, MayFaultType DEF FinalizeUnstage
<1>6. PICK S2 : S2 = staged'
  OBVIOUS
<1>7. /\ S2 \in [Staged -> (0..NumPages) \cup {NULL}]
      /\ \A t \in Staged : t # j.page => S2[t] = staged[t]
  BY <1>6 DEF FinalizeUnstage, PipelineInv
<1>8. PICK J2 : J2 = jobs'
  OBVIOUS
<1>9. DOMAIN J2 = Slot /\ J2[i] = x /\ \A k \in Slot \ {i} : J2[k] = jobs[k]
  BY <1>2, <1>8 DEF FinalizeUnstage
<1>10. x \in Job
  BY <1>3 DEF Job
<1>11. /\ x.kind = "finalize" /\ x.pc = "next" /\ x.plan = j.plan /\ x.page = j.page
       /\ x.chunk = j.chunk /\ x.snap = j.snap
  BY <1>3, <1>4 DEF Job
<1> HIDE DEF x
<1>12. JobOK(mirror, S2, x)
  <2>1. FinalizeJobOK(mirror, x)
    BY <1>2, <1>4, <1>11 DEF JobOK, FinalizeJobOK
  <2> QED
    BY <1>2, <1>10, <1>11, <2>1 DEF JobOK
<1>13. \A l \in Slot : l # i /\ jobs[l] # NULL => jobs[l].page # j.page \/ j.page = 0
  BY <1>1, <1>2, <1>4 DEF JobsOK, Apart
<1>14. NewJobs(mirror, S2, jobs, i, J2, {i})
  BY <1>9, <1>11, <1>12, <1>13 DEF NewJobs, Apart
<1>15. Replaced(jobs, J2, i, {i})
  BY <1>9 DEF Replaced
<1>16. \A k \in Slot : k # i /\ jobs[k] # NULL => JobOK(mirror, S2, jobs[k])
  <2> TAKE k \in Slot
  <2> HAVE k # i /\ jobs[k] # NULL
  <2>1. JobOK(mirror, staged, jobs[k])
    BY <1>2, Zenon DEF JobsOK
  <2>2. 0 \notin Staged
    BY DEF Staged
  <2>3. jobs[k].page \in Staged => S2[jobs[k].page] = staged[jobs[k].page]
    BY <1>7, <1>13, <2>2
  <2>4. mirror \subseteq mirror
    OBVIOUS
  <2> QED
    BY <2>1, <2>3, <2>4, JobFrame
<1>17. JobsOK(mirror, S2, J2)
  BY <1>2, <1>14, <1>15, <1>16, JobsReplaced
<1>18. \A t \in Staged : Pending(J2, t) \subseteq Pending(jobs, t)
  BY <1>9, <1>11 DEF Pending
<1>19. \A t \in Staged : Pending(J2, t) # {} => S2[t] = staged[t]
  <2> SUFFICES ASSUME NEW t \in Staged, Pending(J2, t) # {} PROVE t # j.page
    BY <1>7
  <2>0. t # 0
    BY DEF Staged
  <2>1. PICK k \in Slot : J2[k] # NULL /\ J2[k].kind = "chunk" /\ J2[k].page = t
    BY DEF Pending
  <2> QED
    BY <2>0, <2>1, <1>9, <1>11, <1>13
<1>20. mirror \subseteq mirror
  OBVIOUS
<1>21. CountOK(mirror, S2, J2, left)
  BY <1>2, <1>18, <1>19, <1>20, CountMono
<1> QED
  BY <1>1, <1>5, <1>6, <1>7, <1>8, <1>17, <1>21 DEF PipelineInv

LEMMA FinalizeNextInv ==
    ASSUME PipelineInv, NEW i \in Slot, FinalizeNext(i)
    PROVE  PipelineInv'
<1> DEFINE j == jobs[i]
<1>1. /\ j # NULL /\ j.pc = "next" /\ UNCHANGED <<cursor, staged, mirror, left, overlaps>>
  BY DEF FinalizeNext, At, Active
<1>2. JobOK(mirror, staged, j) /\ CursorOK(mirror, cursor')
  BY <1>1, StepParts
<1>3. j.kind \in {"kickoff", "fetch", "chunk", "finalize"}
  BY <1>2 DEF JobOK, Job
<1>4. PlanOK(mirror, j.plan)
  BY <1>1, <1>2, <1>3 DEF JobOK, KickoffOK, FetchJobOK, ChunkJobOK, FinalizeJobOK
<1>5. CASE j.plan.next = NULL
  <2>1. EndWithout(i)
    BY <1>5 DEF FinalizeNext
  <2> QED
    BY <1>1, <1>2, <2>1, StepOut
<1>6. CASE j.plan.next # NULL
  <2>1. PICK f : f = j.plan.next
    OBVIOUS
  <2>2. FetchOK(mirror, f)
    BY <1>4, <1>6, <2>1 DEF PlanOK
  <2>3. PICK x : x = [NewJob("fetch") EXCEPT !.args = f]
    OBVIOUS
  <2>4. JobOK(mirror, staged, x) /\ x.page = 0 /\ x.kind = "fetch"
    BY <2>2, <2>3, FetchStartOK
  <2>5. EndWith(i, x)
    BY <1>6, <2>1, <2>3 DEF FinalizeNext
  <2> QED
    BY <1>1, <2>4, <2>5, StepIn
<1> QED
  BY <1>5, <1>6

LEMMA OlderOK ==
    ASSUME NEW M, NEW c, CursorOK(M, c)
    PROVE  CursorOK(M, [c EXCEPT !.fin = Older(@)])
<1>1. c \in Cursor /\ c.fin \in Age \cup {NULL}
  BY DEF CursorOK, Cursor
<1>2. PICK a \in Age \cup {NULL} : a = Older(c.fin)
  BY <1>1, PageNumbers DEF Older, Age
<1>3. a # NULL => c.fin # NULL
  BY <1>2 DEF Older
<1> DEFINE d == [c EXCEPT !.fin = a]
<1>4. d \in Cursor /\ d.url = c.url /\ d.fin = a
  BY <1>1 DEF Cursor
<1>5. d = [c EXCEPT !.fin = Older(@)]
  BY <1>1, <1>2 DEF Cursor
<1> HIDE DEF d
<1>6. CursorOK(M, d)
  BY <1>3, <1>4 DEF CursorOK
<1> QED
  BY <1>5, <1>6

LEMMA TickInv ==
    ASSUME PipelineInv, Tick
    PROVE  PipelineInv'
<1>1. UNCHANGED <<staged, mirror, left, faults, overlaps>>
  BY DEF Tick
<1>2. /\ DOMAIN jobs = Slot /\ JobsOK(mirror, staged, jobs)
      /\ CountOK(mirror, staged, jobs, left) /\ left \in [Staged -> 0..NumChunks]
      /\ CursorOK(mirror, cursor)
  BY DEF PipelineInv, JobsOK
<1>3. CursorOK(mirror, cursor')
  BY <1>2, OlderOK DEF Tick
<1>4. PICK J2 : J2 = jobs'
  OBVIOUS
<1>5. DOMAIN J2 = Slot
  BY <1>4 DEF Tick
<1>6. ASSUME NEW i \in Slot, J2[i] # NULL
      PROVE  /\ jobs[i] # NULL /\ JobOK(mirror, staged, J2[i])
             /\ J2[i].kind = jobs[i].kind /\ J2[i].page = jobs[i].page
             /\ J2[i].chunk = jobs[i].chunk
  <2> DEFINE j == jobs[i]
  <2>1. J2[i] = IF i \in Active /\ jobs[i].snap # NULL
                THEN [jobs[i] EXCEPT !.snap.fin = Older(@)] ELSE jobs[i]
    BY <1>4 DEF Tick
  <2>2. jobs[i] # NULL
    BY <1>6, <2>1 DEF Active
  <2>3. JobOK(mirror, staged, j)
    BY <1>2, <2>2 DEF JobsOK
  <2>4. CASE j.snap = NULL
    BY <2>1, <2>2, <2>3, <2>4
  <2>5. CASE j.snap # NULL
    <3>1. PICK sn : sn = [j.snap EXCEPT !.fin = Older(@)]
      OBVIOUS
    <3>2. CursorOK(mirror, sn)
      <4>1. CursorOK(mirror, j.snap)
        BY <2>3, <2>5 DEF JobOK
      <4> QED
        BY <3>1, <4>1, OlderOK
    <3> DEFINE x == [j EXCEPT !.snap = sn]
    <3>3. J2[i] = x
      BY <2>1, <2>2, <2>5, <3>1 DEF Active
    <3>4. j \in Job /\ sn \in Cursor
      BY <2>3, <3>2 DEF JobOK, CursorOK
    <3>5. x \in Job
      BY <3>4 DEF Job
    <3>6. /\ x.snap = sn /\ x.pc = j.pc /\ x.kind = j.kind /\ x.args = j.args /\ x.part = j.part
          /\ x.page = j.page /\ x.chunk = j.chunk /\ x.plan = j.plan /\ x.patch = j.patch
          /\ x.after = j.after
      BY <3>4 DEF Job
    <3> HIDE DEF x
    <3>7. j.kind = "kickoff" => KickoffOK(x)
      BY <2>3, <3>6 DEF JobOK, KickoffOK
    <3>8. j.kind = "fetch" => FetchJobOK(mirror, staged, x)
      BY <2>3, <3>6 DEF JobOK, FetchJobOK
    <3>9. j.kind = "chunk" => ChunkJobOK(mirror, staged, x)
      BY <2>3, <3>6 DEF JobOK, ChunkJobOK
    <3>10. j.kind = "finalize" => FinalizeJobOK(mirror, x)
      BY <2>3, <3>6 DEF JobOK, FinalizeJobOK
    <3>11. JobOK(mirror, staged, x)
      BY <3>2, <3>5, <3>6, <3>7, <3>8, <3>9, <3>10 DEF JobOK
    <3> QED
      BY <2>2, <3>3, <3>6, <3>11
  <2> QED
    BY <2>4, <2>5
<1>7. JobsOK(mirror, staged, J2)
  <2>1. ASSUME NEW i \in Slot, NEW k \in Slot, i # k, J2[i] # NULL, J2[k] # NULL
        PROVE  Apart(J2[i], J2[k])
    <3>1. Apart(jobs[i], jobs[k])
      BY <2>1, <1>2, <1>6 DEF JobsOK
    <3> QED
      BY <3>1, <2>1, <1>6 DEF Apart
  <2> QED
    BY <1>5, <1>6, <2>1 DEF JobsOK
<1>8. \A s \in Staged : Pending(J2, s) \subseteq Pending(jobs, s)
  BY <1>6 DEF Pending
<1>9. /\ mirror \subseteq mirror
      /\ \A s \in Staged : Pending(J2, s) # {} => staged[s] = staged[s]
  OBVIOUS
<1>10. CountOK(mirror, staged, J2, left)
  BY <1>2, <1>8, <1>9, CountMono
<1> QED
  BY <1>1, <1>3, <1>4, <1>7, <1>10 DEF PipelineInv

-----------------------------------------------------------------------------
(* The theorems.                                                           *)

LEMMA InitPipeline == Init => PipelineInv
<1> SUFFICES ASSUME Init PROVE PipelineInv
  OBVIOUS
<1>1. \A i \in Slot : jobs[i] = NULL
  BY DEF Init
<1>2. CursorOK(mirror, cursor)
  BY PageNumbers DEF Init, CursorOK, Cursor, Covered
<1>3. JobsOK(mirror, staged, jobs)
  BY <1>1 DEF Init, JobsOK
<1>4. CountOK(mirror, staged, jobs, left)
  BY <1>1 DEF CountOK, Pending
<1> QED
  BY <1>2, <1>3, <1>4, PageNumbers DEF PipelineInv, Init

LEMMA NextPipeline == PipelineInv /\ [Next]_vars => PipelineInv'
<1> SUFFICES ASSUME PipelineInv, [Next]_vars PROVE PipelineInv'
  OBVIOUS
<1>1. CASE KickoffBegin
  BY <1>1, KickoffBeginInv
<1>2. ASSUME NEW i \in Slot, Step(i) \/ FetchForbidden(i) \/ Fault(i) PROVE PipelineInv'
  BY <1>2, PatchReadInv, PatchWriteInv, KickoffDecideInv, FetchBeginInv, FetchSkipInv,
     FetchReplicationInv, FetchPagedInv, DispatchEmptyInv, StorePageInv, EnqueueBatchInv,
     PersistChunkInv, FinalizeBeginInv, FinalizeUnstageInv, FinalizeNextInv,
     FetchForbiddenInv, FaultInv, Zenon DEF Step
<1>3. CASE Tick
  BY <1>3, TickInv
<1>4. CASE UNCHANGED vars
  BY <1>4 DEF vars, PipelineInv
<1> QED
  BY <1>1, <1>2, <1>3, <1>4 DEF Next

LEMMA PipelineAlways == Spec => []PipelineInv
BY InitPipeline, NextPipeline, PTL DEF Spec

LEMMA InvTypeOK == PipelineInv => TypeOK
BY DEF PipelineInv, TypeOK, CursorOK, JobsOK, JobOK

LEMMA PageMirrored ==
    ASSUME NEW p, Page(p) \subseteq mirror
    PROVE  Mirrored(p)
BY DEF Page, Mirrored

(***************************************************************************)
(* The cursor row, the staged pages, the jobs and their counters keep the  *)
(* shapes the handlers rely on.                                            *)
(***************************************************************************)
THEOREM PipelineTypes == Spec => []TypeOK
BY PipelineAlways, InvTypeOK, PTL

(***************************************************************************)
(* A chain that resumes from the cursor skips no page: replication_next_   *)
(* url points only past pages whose every chunk is in the mirror, whatever *)
(* failed, was retried, or was overwritten by a row-wide ApplyPatch of a   *)
(* handler with a stale copy of the row.                                   *)
(***************************************************************************)
THEOREM ResumeSkipsNoPage == Spec => []CursorCovers
<1>1. PipelineInv => CursorCovers
  BY PageMirrored DEF PipelineInv, CursorOK, Covered, CursorCovers
<1> QED
  BY <1>1, PipelineAlways, PTL

(***************************************************************************)
(* last_sync_finished_at is set only over a mirror of the whole feed: an   *)
(* incremental fetch, the one thing that marks a sync finished, is never   *)
(* enqueued before it.                                                     *)
(***************************************************************************)
THEOREM FinishedIsComplete == Spec => []FinishedMeansMirrored
<1>1. PipelineInv => FinishedMeansMirrored
  BY PageMirrored DEF PipelineInv, CursorOK, Complete, FinishedMeansMirrored
<1> QED
  BY <1>1, PipelineAlways, PTL

(***************************************************************************)
(* RowsForChunk finds its page: a staged page is deleted only by the       *)
(* finalize of its own batch, which follows the last chunk.                *)
(***************************************************************************)
THEOREM ChunksFindTheirPage == Spec => []ChunkHasPage
<1>1. PipelineInv => ChunkHasPage
  <2> SUFFICES ASSUME PipelineInv, NEW i \in Active, jobs[i].kind = "chunk"
               PROVE  staged[jobs[i].page] # NULL
    BY DEF ChunkHasPage
  <2>1. JobOK(mirror, staged, jobs[i])
    BY DEF PipelineInv, JobsOK, Active
  <2>2. staged[jobs[i].page] \in 0..NumPages
    BY <2>1 DEF JobOK, ChunkJobOK
  <2> QED
    BY <2>2, PageNumbers
<1> QED
  BY <1>1, PipelineAlways, PTL

-----------------------------------------------------------------------------
(* A chain that is not interfered with is always carried on by some job.   *)
(* As long as nothing fails and no kickoffs overlap, there is no job at    *)
(* all, or one that is not a chunk, or the chunks of one page; and each    *)
(* step of the chain knows what the cursor will be when it ends.           *)

Calm(c) == ~ReplicationChainActive(c)

\* A plan goes on with replication, or its patch ends the chain in the
\* cursor, or it leaves the cursor's chain alone.
Carries(pl) == pl.next # NULL /\ pl.next.mode = "replication"
Settles(p) == p.apply /\ p.prog = FALSE /\ p.url = 0
Neutral(p) == ~p.apply /\ p.prog = NULL

\* The plan, before and after its patch is applied, is all there is to do for
\* the chain in the cursor c.
Fits(pl, c) == Carries(pl) \/ Settles(pl.patch) \/ (Neutral(pl.patch) /\ Calm(c))
Fitted(pl, c) == Carries(pl) \/ Calm(c)

SameLink(x, c) == x # NULL /\ x.inProg = c.inProg /\ x.url = c.url
OnlyStaged(S, s) == \A t \in Staged : S[t] # NULL => t = s

FetchAlive(c, S, j) ==
    /\ OnlyStaged(S, IF j.pc = "batch" THEN j.page ELSE 0)
    /\ j.pc \in {"start", "request"} => j.args.mode = "replication" \/ Calm(c)
    /\ j.pc \in {"read", "write"} /\ j.after = "end" => Calm(c) /\ Neutral(j.patch)
    /\ j.pc \in {"read", "write"} /\ j.after = "store" => Carries(j.plan) \/ Settles(j.plan.patch)
    /\ j.pc = "write" => SameLink(j.snap, c)
    /\ j.pc \in {"store", "empty", "batch"} => Fits(j.plan, c)

FinalizeAlive(c, S, j) ==
    /\ OnlyStaged(S, IF j.pc = "next" THEN 0 ELSE j.page)
    /\ j.pc \in {"start", "read", "write"} => Fits(j.plan, c)
    /\ j.pc \in {"read", "write"} => j.patch = j.plan.patch
    /\ j.pc = "write" => SameLink(j.snap, c)
    /\ j.pc \in {"unstage", "next"} => Fitted(j.plan, c)

JobAlive(c, S, j) ==
    /\ j.kind = "kickoff" => Calm(c) /\ OnlyStaged(S, 0)
    /\ j.kind = "fetch" => FetchAlive(c, S, j)
    /\ j.kind = "finalize" => FinalizeAlive(c, S, j)

Resting(c, S, J) == (\A i \in Slot : J[i] = NULL) /\ Calm(c) /\ OnlyStaged(S, 0)

Sole(c, S, J, i) ==
    /\ J[i] # NULL /\ J[i].kind # "chunk" /\ JobAlive(c, S, J[i])
    /\ \A k \in Slot : k # i => J[k] = NULL

Persisting(c, S, J, L, s) ==
    /\ OnlyStaged(S, s)
    /\ Pending(J, s) # {} /\ L[s] = Cardinality(Pending(J, s))
    /\ \A i \in Slot : J[i] # NULL => J[i].kind = "chunk" /\ J[i].page = s /\ Fits(J[i].plan, c)

Alive(c, S, J, L) ==
    \/ Resting(c, S, J)
    \/ \E i \in Slot : Sole(c, S, J, i)
    \/ \E s \in Staged : Persisting(c, S, J, L, s)

Unharmed == faults = 0 /\ overlaps = 0
AliveInv == PipelineInv /\ (Unharmed => Alive(cursor, staged, jobs, left))

LEMMA NoChunk ==
    ASSUME NEW c, NEW S, NEW J, NEW L, Alive(c, S, J, L), NEW i \in Slot, J[i] # NULL,
           J[i].kind # "chunk"
    PROVE  Sole(c, S, J, i)
BY DEF Alive, Resting, Sole, Persisting

LEMMA OneOfChunks ==
    ASSUME NEW c, NEW S, NEW J, NEW L, Alive(c, S, J, L), NEW i \in Slot, J[i] # NULL,
           J[i].kind = "chunk"
    PROVE  J[i].page \in Staged /\ Persisting(c, S, J, L, J[i].page)
<1>1. PICK s \in Staged : Persisting(c, S, J, L, s)
  BY DEF Alive, Resting, Sole
<1>2. J[i].page = s
  BY <1>1 DEF Persisting
<1> QED
  BY <1>1, <1>2

LEMMA SoleBecomes ==
    ASSUME NEW c, NEW S, NEW J, NEW i \in Slot, Sole(c, S, J, i), DOMAIN J = Slot, NEW x,
           x # NULL, x.kind # "chunk",
           NEW c2, NEW S2, NEW L2, NEW J2, J2 = [J EXCEPT ![i] = x], JobAlive(c2, S2, x)
    PROVE  Alive(c2, S2, J2, L2)
<1>1. J2[i] = x /\ \A k \in Slot : k # i => J2[k] = NULL
  BY DEF Sole
<1> QED
  BY <1>1 DEF Alive, Sole

\* The slots of the jobs that a sole job leaves: the first ones.
LEMMA RankOfSlot ==
    ASSUME NEW i \in Slot, \A k \in Slot : k # i => jobs[k] = NULL
    PROVE  /\ (Slot \ Active) \cup {i} = Slot
           /\ \A j \in Slot : j \in Nat \ {0} /\ Cardinality({x \in Slot : x <= j}) = j
           /\ \A n \in 1..NumChunks : n \in Slot
<1>1. PICK N \in Nat : N = (1 + MaxMishaps) * (NumChunks + 1) /\ N >= NumChunks
  <2>1. \A a, b \in Nat : (1 + a) * (b + 1) = (b + 1) + a * (b + 1) /\ a * (b + 1) \in Nat
    OBVIOUS
  <2> QED
    BY <2>1, PageNumbers
<1>2. Slot = 1..N
  BY <1>1 DEF Slot
<1>3. ASSUME NEW j \in Slot PROVE j \in Nat \ {0} /\ Cardinality({x \in Slot : x <= j}) = j
  <2>1. j \in 1..N
    BY <1>2
  <2>2. {x \in Slot : x <= j} = 1..j
    BY <1>2, <2>1
  <2>3. Cardinality(1..j) = j
    BY <2>1, FS_Interval
  <2>4. j \in Nat \ {0}
    BY <2>1
  <2>5. Cardinality({x \in Slot : x <= j}) = j
    BY <2>2, <2>3, Zenon
  <2> QED
    BY <2>4, <2>5
<1>4. (Slot \ Active) \cup {i} = Slot
  BY DEF Active
<1>5. \A n \in 1..NumChunks : n \in Slot
  BY <1>1, <1>2, PageNumbers
<1> QED
  BY <1>3, <1>4, <1>5

LEMMA SoleEnds ==
    ASSUME NEW i \in Slot, \A k \in Slot : k # i => jobs[k] = NULL,
           EndWithout(i), faults = 0, faults' = 0
    PROVE  DOMAIN jobs' = Slot /\ \A k \in Slot : jobs'[k] = NULL
<1>1. ~MayFault
  BY DEF MayFault
<1>2. jobs' = [j \in Slot |-> IF j \in (Slot \ Active) \cup {i}
                                 /\ Cardinality({x \in (Slot \ Active) \cup {i} : x <= j}) <= 0
                              THEN NULL ELSE IF j = i THEN NULL ELSE jobs[j]]
  BY <1>1 DEF EndWithout, End, Expand
<1> QED
  BY <1>2

LEMMA SoleHandsOver ==
    ASSUME NEW i \in Slot, \A k \in Slot : k # i => jobs[k] = NULL, NEW x,
           EndWith(i, x), faults = 0, faults' = 0
    PROVE  /\ DOMAIN jobs' = Slot /\ 1 \in Slot /\ jobs'[1] = x
           /\ \A k \in Slot : k # 1 => jobs'[k] = NULL
<1>1. ~MayFault
  BY DEF MayFault
<1>2. jobs' = [j \in Slot |-> IF j \in (Slot \ Active) \cup {i}
                                 /\ Cardinality({y \in (Slot \ Active) \cup {i} : y <= j}) <= 1
                              THEN x ELSE IF j = i THEN NULL ELSE jobs[j]]
  BY <1>1 DEF EndWith, End, Expand
<1>3. jobs' = [j \in Slot |-> IF j <= 1 THEN x ELSE IF j = i THEN NULL ELSE jobs[j]]
  BY <1>2, RankOfSlot
<1>4. 1 \in Slot /\ \A j \in Slot : j <= 1 => j = 1
  <2>1. 1 \in 1..NumChunks
    BY PageNumbers
  <2>2. 1 \in Slot
    BY <2>1, RankOfSlot
  <2>3. \A j \in Slot : j \in Nat \ {0}
    BY RankOfSlot
  <2> QED
    BY <2>2, <2>3
<1> QED
  BY <1>3, <1>4

LEMMA SoleParts ==
    ASSUME PipelineInv, Alive(cursor, staged, jobs, left), NEW i \in Slot, jobs[i] # NULL,
           jobs[i].kind # "chunk"
    PROVE  /\ Sole(cursor, staged, jobs, i) /\ JobAlive(cursor, staged, jobs[i])
           /\ DOMAIN jobs = Slot /\ jobs[i] \in Job /\ JobOK(mirror, staged, jobs[i])
           /\ jobs[i].kind \in {"kickoff", "fetch", "finalize"}
           /\ \A k \in Slot : k # i => jobs[k] = NULL
<1>1. Sole(cursor, staged, jobs, i)
  BY NoChunk
<1>2. JobAlive(cursor, staged, jobs[i]) /\ \A k \in Slot : k # i => jobs[k] = NULL
  BY <1>1 DEF Sole
<1>3. JobOK(mirror, staged, jobs[i]) /\ DOMAIN jobs = Slot
  BY StepParts
<1>4. jobs[i] \in Job /\ jobs[i].kind \in {"kickoff", "fetch", "chunk", "finalize"}
  BY <1>3 DEF JobOK, Job
<1> QED
  BY <1>1, <1>2, <1>3, <1>4

\* Which handlers are at which step.
LEMMA KindAt ==
    ASSUME NEW M, NEW S, NEW j, JobOK(M, S, j)
    PROVE  /\ j.pc \in {"request", "store", "empty", "batch"} => j.kind = "fetch"
           /\ j.pc \in {"unstage", "next"} => j.kind = "finalize"
           /\ j.pc \in {"read", "write"} => j.kind \in {"fetch", "finalize"}
           /\ j.pc \in {"read", "write"} /\ j.kind = "fetch" => j.after \in {"store", "end"}
           /\ j.pc \in {"read", "write"} /\ j.kind = "finalize" => j.after = "unstage"
<1>1. j.kind \in {"kickoff", "fetch", "chunk", "finalize"}
  BY DEF JobOK, Job
<1> QED
  BY <1>1 DEF JobOK, KickoffOK, FetchJobOK, ChunkJobOK, FinalizeJobOK

LEMMA PatchReadAlive ==
    ASSUME PipelineInv, Alive(cursor, staged, jobs, left), NEW i \in Slot, PatchRead(i)
    PROVE  Alive(cursor', staged', jobs', left')
<1>1. /\ jobs[i] # NULL /\ jobs[i].pc = "read" /\ UNCHANGED <<cursor, staged, left>>
      /\ jobs' = [jobs EXCEPT ![i].snap = cursor, ![i].pc = "write"]
  BY DEF PatchRead, At, Active
<1>2. jobs[i].kind \in {"fetch", "finalize"}
  BY <1>1, StepParts, KindAt
<1>3. PICK j \in Job : j = jobs[i]
  BY <1>1, <1>2, SoleParts
<1>4. /\ Sole(cursor, staged, jobs, i) /\ JobAlive(cursor, staged, j) /\ DOMAIN jobs = Slot
      /\ cursor \in Cursor
  BY <1>1, <1>2, <1>3, SoleParts DEF PipelineInv, CursorOK
<1> DEFINE x == [j EXCEPT !.snap = cursor, !.pc = "write"]
<1>5. /\ x.snap = cursor /\ x.pc = "write" /\ x.kind = j.kind /\ x.after = j.after
      /\ x.patch = j.patch /\ x.plan = j.plan /\ x.page = j.page /\ x.args = j.args /\ x \in Job
  BY <1>4 DEF Job
<1>6. jobs' = [jobs EXCEPT ![i] = x]
  BY <1>1, <1>3, <1>4
<1> HIDE DEF x
<1>7. x # NULL /\ cursor # NULL
  BY <1>4, <1>5, NullAssumption
<1>8. JobAlive(cursor, staged, x)
  BY <1>1, <1>2, <1>3, <1>4, <1>5, <1>7 DEF JobAlive, FetchAlive, FinalizeAlive, SameLink
<1>9. PICK J2 : J2 = jobs'
  OBVIOUS
<1>10. Alive(cursor, staged, J2, left)
  BY <1>2, <1>3, <1>4, <1>5, <1>6, <1>7, <1>8, <1>9, SoleBecomes
<1> QED
  BY <1>1, <1>9, <1>10

LEMMA StepAlive ==
    ASSUME PipelineInv, Alive(cursor, staged, jobs, left), NEW i \in Slot, jobs[i] # NULL,
           jobs[i].kind # "chunk", NEW x \in Job, x.kind # "chunk",
           jobs' = [jobs EXCEPT ![i] = x], JobAlive(cursor', staged', x)
    PROVE  Alive(cursor', staged', jobs', left')
<1>1. PICK c2 : c2 = cursor'
  OBVIOUS
<1>2. PICK S2 : S2 = staged'
  OBVIOUS
<1>3. PICK J2 : J2 = jobs'
  OBVIOUS
<1>4. PICK L2 : L2 = left'
  OBVIOUS
<1>5. Sole(cursor, staged, jobs, i) /\ DOMAIN jobs = Slot /\ x # NULL
  BY SoleParts, NullAssumption
<1>6. JobAlive(c2, S2, x) /\ J2 = [jobs EXCEPT ![i] = x]
  BY <1>1, <1>2, <1>3
<1>7. Alive(c2, S2, J2, L2)
  BY <1>5, <1>6, SoleBecomes
<1> QED
  BY <1>1, <1>2, <1>3, <1>4, <1>7

LEMMA OutAlive ==
    ASSUME PipelineInv, Alive(cursor, staged, jobs, left), NEW i \in Slot, jobs[i] # NULL,
           jobs[i].kind # "chunk", EndWithout(i), faults = 0, faults' = 0,
           Calm(cursor'), OnlyStaged(staged', 0)
    PROVE  Alive(cursor', staged', jobs', left')
<1>1. \A k \in Slot : k # i => jobs[k] = NULL
  BY SoleParts
<1>2. \A k \in Slot : jobs'[k] = NULL
  BY <1>1, SoleEnds
<1> QED
  BY <1>2 DEF Alive, Resting

LEMMA InAlive ==
    ASSUME PipelineInv, Alive(cursor, staged, jobs, left), NEW i \in Slot, jobs[i] # NULL,
           jobs[i].kind # "chunk", NEW x \in Job, x.kind # "chunk", EndWith(i, x),
           faults = 0, faults' = 0, JobAlive(cursor', staged', x)
    PROVE  Alive(cursor', staged', jobs', left')
<1>1. \A k \in Slot : k # i => jobs[k] = NULL
  BY SoleParts
<1>2. 1 \in Slot /\ jobs'[1] = x /\ \A k \in Slot : k # 1 => jobs'[k] = NULL
  BY <1>1, SoleHandsOver
<1>3. x # NULL
  BY NullAssumption
<1>4. Sole(cursor', staged', jobs', 1)
  BY <1>2, <1>3 DEF Sole
<1> QED
  BY <1>2, <1>4 DEF Alive

LEMMA MergeCalm ==
    ASSUME NEW c, NEW p
    PROVE  /\ Settles(p) => Calm(mergeCursorPatch(c, p))
           /\ Neutral(p) /\ Calm(c) => Calm(mergeCursorPatch(c, p))
BY PageNumbers DEF Settles, Neutral, Calm, ReplicationChainActive, mergeCursorPatch

LEMMA PatchWriteAlive ==
    ASSUME PipelineInv, Alive(cursor, staged, jobs, left), NEW i \in Slot, PatchWrite(i),
           faults = 0, faults' = 0
    PROVE  Alive(cursor', staged', jobs', left')
<1>1. /\ jobs[i] # NULL /\ jobs[i].pc = "write" /\ UNCHANGED <<staged, left>>
      /\ cursor' = mergeCursorPatch(jobs[i].snap, jobs[i].patch)
  BY DEF PatchWrite, At, Active
<1>2. jobs[i].kind \in {"fetch", "finalize"}
  BY <1>1, StepParts, KindAt
<1>3. PICK j \in Job : j = jobs[i]
  BY <1>1, <1>2, SoleParts
<1>4. JobAlive(cursor, staged, j) /\ DOMAIN jobs = Slot /\ JobOK(mirror, staged, j)
  BY <1>1, <1>2, <1>3, SoleParts
<1>5. PICK c2 : c2 = cursor'
  OBVIOUS
<1>6. /\ Settles(j.patch) => Calm(c2)
      /\ Neutral(j.patch) /\ Calm(cursor) => Calm(c2)
  <2>1. SameLink(j.snap, cursor)
    BY <1>1, <1>2, <1>3, <1>4 DEF JobAlive, FetchAlive, FinalizeAlive
  <2>2. Calm(cursor) => Calm(j.snap)
    BY <2>1 DEF SameLink, Calm, ReplicationChainActive
  <2> QED
    BY <1>1, <1>3, <1>5, <2>2, MergeCalm
<1>7. CASE j.after # "end"
  <2> DEFINE x == [j EXCEPT !.pc = j.after, !.snap = NULL, !.patch = NoPatch]
  <2>1. jobs' = [jobs EXCEPT ![i] = x]
    BY <1>1, <1>3, <1>4, <1>7 DEF PatchWrite
  <2>2. /\ x \in Job /\ x.pc = j.after /\ x.kind = j.kind /\ x.plan = j.plan /\ x.page = j.page
    BY <1>7, NoPatchOK DEF Job
  <2> HIDE DEF x
  <2>3. CASE j.kind = "fetch"
    <3>1. j.after = "store"
      BY <1>1, <1>3, <1>4, <1>7, <2>3, KindAt
    <3>2. Fits(x.plan, c2) /\ OnlyStaged(staged, 0)
      BY <1>1, <1>3, <1>4, <2>2, <2>3, <3>1 DEF JobAlive, FetchAlive, Fits
    <3>3. JobAlive(c2, staged, x)
      BY <2>2, <2>3, <3>1, <3>2 DEF JobAlive, FetchAlive
    <3> QED
      BY <1>1, <1>2, <1>5, <2>1, <2>2, <2>3, <3>3, StepAlive
  <2>4. CASE j.kind = "finalize"
    <3>1. j.after = "unstage"
      BY <1>1, <1>3, <1>4, <2>4, KindAt
    <3>2. Fits(j.plan, cursor) /\ OnlyStaged(staged, j.page) /\ j.patch = j.plan.patch
      BY <1>1, <1>3, <1>4, <2>4 DEF JobAlive, FinalizeAlive
    <3>3. Fitted(x.plan, c2)
      BY <1>6, <2>2, <3>2 DEF Fits, Fitted
    <3>4. JobAlive(c2, staged, x)
      BY <2>2, <2>4, <3>1, <3>2, <3>3 DEF JobAlive, FinalizeAlive
    <3> QED
      BY <1>1, <1>2, <1>5, <2>1, <2>2, <2>4, <3>4, StepAlive
  <2> QED
    BY <1>2, <1>3, <2>3, <2>4
<1>8. CASE j.after = "end"
  <2>1. j.kind = "fetch" /\ EndWithout(i)
    BY <1>1, <1>2, <1>3, <1>4, <1>8, KindAt DEF PatchWrite
  <2>2. Calm(cursor) /\ Neutral(j.patch) /\ OnlyStaged(staged, 0)
    BY <1>1, <1>3, <1>4, <1>8, <2>1 DEF JobAlive, FetchAlive
  <2>3. Calm(cursor') /\ OnlyStaged(staged', 0)
    BY <1>1, <1>5, <1>6, <2>2
  <2> QED
    BY <1>1, <1>2, <2>1, <2>3, OutAlive
<1> QED
  BY <1>7, <1>8

LEMMA KickoffBeginAlive ==
    ASSUME PipelineInv, Alive(cursor, staged, jobs, left), KickoffBegin,
           overlaps = 0, overlaps' = 0
    PROVE  Alive(cursor', staged', jobs', left')
<1>1. Active = {} /\ UNCHANGED <<cursor, staged, left>>
  BY DEF KickoffBegin
<1>2. \A k \in Slot : jobs[k] = NULL
  BY <1>1 DEF Active
<1>3. PICK i \in Slot : jobs' = [jobs EXCEPT ![i] = NewJob("kickoff")]
  BY DEF KickoffBegin, Become
<1>4. PICK x \in Job : x = NewJob("kickoff") /\ x.kind = "kickoff"
  BY NewJobType
<1>5. Calm(cursor) /\ OnlyStaged(staged, 0)
  BY <1>2 DEF Alive, Resting, Sole, Persisting, Pending
<1>6. jobs'[i] = x /\ \A k \in Slot : k # i => jobs'[k] = NULL
  BY <1>2, <1>3, <1>4 DEF PipelineInv, JobsOK
<1>7. JobAlive(cursor', staged', x) /\ x # NULL
  BY <1>1, <1>4, <1>5, NullAssumption DEF JobAlive
<1>8. Sole(cursor', staged', jobs', i)
  BY <1>4, <1>6, <1>7 DEF Sole
<1> QED
  BY <1>8 DEF Alive

LEMMA KickoffDecideAlive ==
    ASSUME PipelineInv, Alive(cursor, staged, jobs, left), NEW i \in Slot, KickoffDecide(i)
    PROVE  Alive(cursor', staged', jobs', left')
<1>1. jobs[i] # NULL /\ jobs[i].kind = "kickoff" /\ UNCHANGED <<cursor, staged, left>>
  BY DEF KickoffDecide, At, Active
<1>2. /\ Calm(cursor) /\ OnlyStaged(staged, 0) /\ DOMAIN jobs = Slot
      /\ \A k \in Slot : k # i => jobs[k] = NULL
  BY <1>1, SoleParts DEF JobAlive
<1>3. ASSUME NEW x \in Job, x.kind = "fetch", x.pc = "start", Become(i, x)
      PROVE  Alive(cursor', staged', jobs', left')
  <2>1. JobAlive(cursor', staged', x)
    BY <1>1, <1>2, <1>3 DEF JobAlive, FetchAlive
  <2> QED
    BY <1>1, <1>3, <2>1, StepAlive DEF Become
<1>4. CASE Become(i, NULL)
  <2>1. \A k \in Slot : jobs'[k] = NULL
    BY <1>2, <1>4 DEF Become
  <2> QED
    BY <1>1, <1>2, <2>1 DEF Alive, Resting
<1>5. PICK x \in Job : x = NewJob("fetch") /\ x.kind = "fetch" /\ x.pc = "start"
  BY NewJobType
<1>6. PICK y : y = [NewJob("fetch") EXCEPT !.args = FirstFetch("replication")]
  OBVIOUS
<1>7. y \in Job /\ y.kind = "fetch" /\ y.pc = "start"
  <2>1. FirstFetch("replication") \in Fetch
    BY FirstFetchType DEF Modes
  <2> QED
    BY <1>5, <1>6, <2>1 DEF Job
<1> QED
  BY <1>3, <1>4, <1>5, <1>6, <1>7 DEF KickoffDecide

\* Without a chain cap, FetchPage gives up only an incremental fetch that
\* finds replication in progress.
LEMMA FetchBeginAlive ==
    ASSUME PipelineInv, Alive(cursor, staged, jobs, left), NEW i \in Slot, FetchBegin(i),
           MaxChain = 0
    PROVE  Alive(cursor', staged', jobs', left')
<1>1. /\ jobs[i] # NULL /\ jobs[i].kind = "fetch" /\ jobs[i].pc = "start"
      /\ UNCHANGED <<cursor, staged, left>>
  BY DEF FetchBegin, At, Active
<1>2. PICK j \in Job : j = jobs[i]
  BY <1>1, SoleParts
<1>3. JobAlive(cursor, staged, j) /\ DOMAIN jobs = Slot
  BY <1>1, <1>2, SoleParts
<1>4. PICK c \in Cursor : c = cursor
  BY DEF PipelineInv, CursorOK
<1>5. j.args.mode = "replication" \/ ~c.inProg
  BY <1>1, <1>2, <1>3, <1>4 DEF JobAlive, FetchAlive, Calm, ReplicationChainActive
<1> DEFINE x == [j EXCEPT !.snap = c, !.pc = "request"]
<1>6. jobs' = [jobs EXCEPT ![i] = x]
  <2>1. ~(MaxChain > 0 /\ jobs[i].args.depth >= MaxChain)
    OBVIOUS
  <2>2. ~(jobs[i].args.mode = "incremental" /\ cursor.inProg)
    BY <1>2, <1>4, <1>5
  <2>3. jobs' = [jobs EXCEPT ![i].snap = cursor, ![i].pc = "request"]
    BY <2>1, <2>2, Zenon DEF FetchBegin
  <2> QED
    BY <1>2, <1>3, <1>4, <2>3
<1>7. x \in Job /\ x.kind = "fetch" /\ x.pc = "request" /\ x.args = j.args
  BY <1>1, <1>2 DEF Job
<1> HIDE DEF x
<1>8. JobAlive(cursor, staged, x)
  BY <1>1, <1>2, <1>3, <1>7 DEF JobAlive, FetchAlive
<1> QED
  BY <1>1, <1>6, <1>7, <1>8, StepAlive

LEMMA FetchSkipAlive ==
    ASSUME PipelineInv, Alive(cursor, staged, jobs, left), NEW i \in Slot, FetchSkip(i)
    PROVE  FALSE
<1>1. At(i, "request") /\ HasActivePage
  BY DEF FetchSkip, PageGuard
<1>2. jobs[i] # NULL /\ jobs[i].pc = "request" /\ jobs[i].kind = "fetch"
  BY <1>1, AtRequest DEF At
<1>3. OnlyStaged(staged, 0)
  BY <1>2, SoleParts DEF JobAlive, FetchAlive
<1> QED
  BY <1>1, <1>3, PageNumbers DEF OnlyStaged, HasActivePage, Staged

\* The plan of a page: replication goes on or settles the cursor, the other
\* modes leave its chain alone.
LEMMA PlanFits ==
    ASSUME NEW f \in Fetch, NEW p, NEW rows \in BOOLEAN, NEW more \in BOOLEAN, MaxChain = 0
    PROVE  LET pl == continuationPlan(f, p, rows, more)
           IN  /\ f.mode = "replication" => Carries(pl) \/ Settles(pl.patch)
               /\ f.mode # "replication" => Neutral(pl.patch)
<1>0. f.mode \in {"replication", "nav_hydrate", "incremental"} /\ f.skip \in Nat
  BY PageNumbers DEF Fetch, Modes
<1> DEFINE ch == [mode |-> "replication", skip |-> 0, depth |-> 0]
           pg == [NoPatch EXCEPT !.max = rows]
<1>1. ch \in Fetch /\ ch # NULL /\ ch.mode = "replication"
  <2>1. ch \in Fetch
    BY PageNumbers DEF Fetch, Modes
  <2> QED
    BY <2>1, NullAssumption
<1>2. CASE f.mode = "replication" /\ p = NumPages
  <2>1. continuationPlan(f, p, rows, more).patch
          = [pg EXCEPT !.apply = TRUE, !.prog = FALSE, !.url = 0]
    BY <1>2, Zenon DEF continuationPlan
  <2>2. Settles([pg EXCEPT !.apply = TRUE, !.prog = FALSE, !.url = 0])
    BY DEF Settles, NoPatch
  <2> QED
    BY <1>2, <2>1, <2>2
<1>3. CASE f.mode = "replication" /\ p # NumPages
  <2>1. continuationPlan(f, p, rows, more).next = ch
    BY <1>3 DEF continuationPlan
  <2> QED
    BY <1>1, <1>3, <2>1 DEF Carries
<1>4. CASE f.mode = "nav_hydrate"
  <2>1. continuationPlan(f, p, rows, more).patch = pg
    BY <1>4 DEF continuationPlan
  <2>2. Neutral(pg)
    BY DEF Neutral, NoPatch
  <2> QED
    BY <1>4, <2>1, <2>2
<1>5. CASE f.mode = "incremental"
  <2>1. continuationPlan(f, p, rows, more).patch = [pg EXCEPT !.finish = ~more]
    BY <1>5 DEF continuationPlan
  <2>2. Neutral([pg EXCEPT !.finish = ~more])
    BY DEF Neutral, NoPatch
  <2> QED
    BY <1>5, <2>1, <2>2
<1> QED
  BY <1>0, <1>2, <1>3, <1>4, <1>5

LEMMA PlanTyped ==
    ASSUME NEW f \in Fetch, NEW p \in 0..NumPages, f.mode = "replication" => p # 0,
           NEW rows \in BOOLEAN, NEW more \in BOOLEAN, MaxChain = 0,
           f.mode = "replication" /\ ~rows => p = NumPages /\ EmptyLast
    PROVE  continuationPlan(f, p, rows, more) \in Plan
<1>1. PICK M : M = (0..NumPages) \X (1..NumChunks)
  OBVIOUS
<1>2. \A q \in 0..NumPages : Page(q) \subseteq M
  BY <1>1 DEF Page
<1>3. \A q \in 1..NumPages : q \in 0..NumPages
  BY PageNumbers
<1>4. Covered(M, p) /\ Complete(M) /\ FetchOK(M, f) /\ M \subseteq M
  BY <1>2, <1>3 DEF Covered, Complete, FetchOK
<1>5. f.mode = "replication" /\ rows => Page(p) \subseteq M
  BY <1>2
<1> QED
  BY <1>4, <1>5, PlanFetched DEF PlanOK

LEMMA FetchReplicationAlive ==
    ASSUME PipelineInv, Alive(cursor, staged, jobs, left), NEW i \in Slot, FetchReplication(i),
           MaxChain = 0
    PROVE  Alive(cursor', staged', jobs', left')
<1>1. At(i, "request") /\ jobs[i].args.mode = "replication" /\ UNCHANGED <<cursor, staged, left>>
  BY DEF FetchReplication
<1>2. jobs[i] # NULL /\ jobs[i].pc = "request" /\ jobs[i].kind = "fetch"
  BY <1>1, AtRequest DEF At
<1>3. PICK j \in Job : j = jobs[i]
  BY <1>2, SoleParts
<1>4. OnlyStaged(staged, 0) /\ DOMAIN jobs = Slot
  BY <1>2, <1>3, SoleParts DEF JobAlive, FetchAlive
<1>5. PICK p \in 0..NumPages : p # 0 /\ p = IF j.snap.url # 0 THEN j.snap.url ELSE 1
  <2>1. j.snap.url \in 0..NumPages
    BY <1>1, <1>3, AtRequest DEF CursorOK, Cursor
  <2> QED
    BY <2>1, PageNumbers
<1>6. PICK rows \in BOOLEAN :
        /\ rows \/ (p = NumPages /\ EmptyLast)
        /\ jobs' = [jobs EXCEPT
                 ![i].snap = NULL, ![i].part = p,
                 ![i].plan = continuationPlan(jobs[i].args, p, rows, FALSE),
                 ![i].patch = IF rows THEN [NoPatch EXCEPT !.prog = TRUE] ELSE NoPatch,
                 ![i].after = IF rows THEN "store" ELSE "end",
                 ![i].pc = IF rows THEN "read" ELSE "empty"]
  BY <1>3, <1>5 DEF FetchReplication
<1>7. PICK pl : pl = continuationPlan(j.args, p, rows, FALSE)
  OBVIOUS
<1>8. Carries(pl) \/ Settles(pl.patch)
  <2>1. j.args \in Fetch /\ FALSE \in BOOLEAN
    BY DEF Job
  <2> QED
    BY <1>1, <1>3, <1>7, <2>1, PlanFits
<1>9. PICK pt \in Patch : pt = IF rows THEN [NoPatch EXCEPT !.prog = TRUE] ELSE NoPatch
  BY NoPatchOK DEF Patch
<1>10. PICK af \in {"store", "end"} : af = IF rows THEN "store" ELSE "end"
  OBVIOUS
<1>11. PICK pc \in {"read", "empty"} : pc = IF rows THEN "read" ELSE "empty"
  OBVIOUS
<1> DEFINE x == [j EXCEPT !.snap = NULL, !.part = p, !.plan = pl, !.patch = pt,
                          !.after = af, !.pc = pc]
<1>12. jobs' = [jobs EXCEPT ![i] = x]
  BY <1>3, <1>4, <1>6, <1>7, <1>9, <1>10, <1>11
<1>13. x.kind = "fetch" /\ x.pc = pc /\ x.after = af /\ x.plan = pl
  BY <1>2, <1>3 DEF Job
<1>14. x \in Job
  <2>1. pl \in Plan
    <3>1. j.args \in Fetch /\ FALSE \in BOOLEAN
      BY DEF Job
    <3> QED
      BY <1>5, <1>6, <1>7, <3>1, PlanTyped
  <2> QED
    BY <2>1 DEF Job
<1> HIDE DEF x
<1>15. JobAlive(cursor, staged, x)
  BY <1>4, <1>8, <1>10, <1>11, <1>13 DEF JobAlive, FetchAlive, Fits
<1> QED
  BY <1>1, <1>2, <1>12, <1>13, <1>14, <1>15, StepAlive

LEMMA FetchPagedAlive ==
    ASSUME PipelineInv, Alive(cursor, staged, jobs, left), NEW i \in Slot, FetchPaged(i),
           MaxChain = 0
    PROVE  Alive(cursor', staged', jobs', left')
<1>1. At(i, "request") /\ jobs[i].args.mode # "replication" /\ UNCHANGED <<cursor, staged, left>>
  BY DEF FetchPaged
<1>2. jobs[i] # NULL /\ jobs[i].pc = "request" /\ jobs[i].kind = "fetch"
  BY <1>1, AtRequest DEF At
<1>3. PICK j \in Job : j = jobs[i]
  BY <1>2, SoleParts
<1>4. OnlyStaged(staged, 0) /\ Calm(cursor) /\ DOMAIN jobs = Slot
  BY <1>1, <1>2, <1>3, SoleParts DEF JobAlive, FetchAlive
<1>5. PICK outcome \in {"full", "partial", "empty"} :
        jobs' = IF outcome = "empty"
                   THEN [jobs EXCEPT ![i].snap = NULL, ![i].pc = "read", ![i].after = "end",
                                     ![i].patch = [NoPatch EXCEPT !.finish = TRUE]]
                   ELSE [jobs EXCEPT ![i].snap = NULL, ![i].pc = "store",
                           ![i].plan = continuationPlan(jobs[i].args, 0, TRUE,
                                                        outcome = "full")]
  BY DEF FetchPaged
<1>6. CASE outcome = "empty"
  <2>0. PICK pt \in Patch : pt = [NoPatch EXCEPT !.finish = TRUE]
    BY NoPatchOK DEF Patch
  <2>1. pt = [NoPatch EXCEPT !.finish = TRUE] /\ Neutral(pt)
    BY <2>0 DEF Neutral, NoPatch
  <2> DEFINE x == [j EXCEPT !.snap = NULL, !.pc = "read", !.after = "end", !.patch = pt]
  <2>2. jobs' = [jobs EXCEPT ![i] = x]
    BY <1>3, <1>4, <1>5, <1>6, <2>1
  <2>3. x \in Job /\ x.kind = "fetch" /\ x.pc = "read" /\ x.after = "end" /\ x.patch = pt
    BY <1>2, <1>3 DEF Job
  <2> HIDE DEF x
  <2>4. JobAlive(cursor, staged, x)
    BY <1>4, <2>1, <2>3 DEF JobAlive, FetchAlive
  <2> QED
    BY <1>1, <1>2, <2>2, <2>3, <2>4, StepAlive
<1>7. CASE outcome # "empty"
  <2>1. PICK more \in BOOLEAN : more = (outcome = "full")
    BY Zenon
  <2>2. PICK pl : pl = continuationPlan(j.args, 0, TRUE, more)
    OBVIOUS
  <2>3. j.args \in Fetch /\ TRUE \in BOOLEAN /\ 0 \in 0..NumPages
    BY PageNumbers DEF Job
  <2>4. pl \in Plan /\ Neutral(pl.patch)
    BY <1>1, <1>3, <2>2, <2>3, PlanTyped, PlanFits
  <2> DEFINE x == [j EXCEPT !.snap = NULL, !.pc = "store", !.plan = pl]
  <2>5. jobs' = [jobs EXCEPT ![i] = x]
    BY <1>3, <1>4, <1>5, <1>7, <2>1, <2>2
  <2>6. x \in Job /\ x.kind = "fetch" /\ x.pc = "store" /\ x.plan = pl
    BY <1>2, <1>3, <2>4 DEF Job
  <2> HIDE DEF x
  <2>7. JobAlive(cursor, staged, x)
    BY <1>4, <2>4, <2>6 DEF JobAlive, FetchAlive, Fits
  <2> QED
    BY <1>1, <1>2, <2>5, <2>6, <2>7, StepAlive
<1> QED
  BY <1>6, <1>7

LEMMA DispatchEmptyAlive ==
    ASSUME PipelineInv, Alive(cursor, staged, jobs, left), NEW i \in Slot, DispatchEmpty(i),
           faults = 0, faults' = 0
    PROVE  Alive(cursor', staged', jobs', left')
<1>1. jobs[i] # NULL /\ jobs[i].pc = "empty" /\ UNCHANGED <<cursor, staged, left>>
  BY DEF DispatchEmpty, At, Active
<1>2. jobs[i].kind = "fetch"
  BY <1>1, StepParts, KindAt
<1>3. PICK j \in Job : j = jobs[i]
  BY <1>1, <1>2, SoleParts
<1>4. OnlyStaged(staged, 0) /\ Fits(j.plan, cursor)
  BY <1>1, <1>2, <1>3, SoleParts DEF JobAlive, FetchAlive
<1>5. PICK x : x = [NewJob("finalize") EXCEPT !.plan = j.plan]
  OBVIOUS
<1>6. /\ x \in Job /\ x.kind = "finalize" /\ x.pc = "start" /\ x.page = 0 /\ x.plan = j.plan
  BY <1>5, NewJobType DEF Job
<1>7. JobAlive(cursor, staged, x)
  BY <1>4, <1>6 DEF JobAlive, FinalizeAlive
<1>8. EndWith(i, x)
  BY <1>3, <1>5 DEF DispatchEmpty
<1> QED
  BY <1>1, <1>2, <1>6, <1>7, <1>8, InAlive

LEMMA StorePageAlive ==
    ASSUME PipelineInv, Alive(cursor, staged, jobs, left), NEW i \in Slot, StorePage(i)
    PROVE  Alive(cursor', staged', jobs', left')
<1>1. jobs[i] # NULL /\ jobs[i].pc = "store" /\ UNCHANGED <<cursor, left>>
  BY DEF StorePage, At, Active
<1>2. jobs[i].kind = "fetch"
  BY <1>1, StepParts, KindAt
<1>3. PICK j \in Job : j = jobs[i]
  BY <1>1, <1>2, SoleParts
<1>4. OnlyStaged(staged, 0) /\ Fits(j.plan, cursor) /\ DOMAIN jobs = Slot
  BY <1>1, <1>2, <1>3, SoleParts DEF JobAlive, FetchAlive
<1>5. PICK s \in Staged : /\ staged' = [staged EXCEPT ![s] = jobs[i].part]
                          /\ jobs' = [jobs EXCEPT ![i].page = s, ![i].pc = "batch"]
  BY DEF StorePage
<1> DEFINE x == [j EXCEPT !.page = s, !.pc = "batch"]
<1>6. jobs' = [jobs EXCEPT ![i] = x]
  BY <1>3, <1>4, <1>5
<1>7. x \in Job /\ x.kind = "fetch" /\ x.pc = "batch" /\ x.page = s /\ x.plan = j.plan
  BY <1>2, <1>3, StagedCount DEF Job
<1> HIDE DEF x
<1>8. PICK S2 : S2 = staged'
  OBVIOUS
<1>9. OnlyStaged(S2, s)
  <2> SUFFICES ASSUME NEW t \in Staged, S2[t] # NULL, t # s PROVE FALSE
    BY DEF OnlyStaged
  <2>1. S2[t] = staged[t] /\ t # 0
    BY <1>5, <1>8, PageNumbers DEF PipelineInv, Staged
  <2> QED
    BY <1>4, <2>1 DEF OnlyStaged
<1>10. JobAlive(cursor, S2, x)
  BY <1>4, <1>7, <1>9 DEF JobAlive, FetchAlive
<1> QED
  BY <1>1, <1>2, <1>6, <1>7, <1>8, <1>10, StepAlive

\* The batch: one job for each chunk of the page, and no other job.
LEMMA EnqueueBatchAlive ==
    ASSUME PipelineInv, Alive(cursor, staged, jobs, left), NEW i \in Slot, EnqueueBatch(i),
           faults = 0, faults' = 0
    PROVE  Alive(cursor', staged', jobs', left')
<1>1. /\ jobs[i] # NULL /\ jobs[i].pc = "batch" /\ UNCHANGED <<cursor, staged>>
      /\ left' = [left EXCEPT ![jobs[i].page] = NumChunks]
  BY DEF EnqueueBatch, At, Active
<1>2. jobs[i].kind = "fetch"
  BY <1>1, StepParts, KindAt
<1>3. PICK j \in Job : j = jobs[i]
  BY <1>1, <1>2, SoleParts
<1>4. /\ OnlyStaged(staged, j.page) /\ Fits(j.plan, cursor)
      /\ \A k \in Slot : k # i => jobs[k] = NULL
  BY <1>1, <1>2, <1>3, SoleParts DEF JobAlive, FetchAlive
<1>5. PICK s \in Staged : s = j.page
  BY <1>1, <1>2, <1>3, SoleParts DEF JobOK, FetchJobOK
<1>6. ~MayFault
  BY DEF MayFault
<1>7. jobs' = [k \in Slot |-> IF k \in (Slot \ Active) \cup {i}
                                 /\ Cardinality({y \in (Slot \ Active) \cup {i} : y <= k}) <= NumChunks
                              THEN ChunkOf(jobs[i], Cardinality({y \in (Slot \ Active) \cup {i} : y <= k}))
                              ELSE IF k = i THEN NULL ELSE jobs[k]]
  BY <1>6 DEF EnqueueBatch, End, Expand, ChunkOf
<1>8. jobs' = [k \in Slot |-> IF k <= NumChunks THEN ChunkOf(j, k)
                              ELSE IF k = i THEN NULL ELSE jobs[k]]
  BY <1>3, <1>4, <1>7, RankOfSlot
<1>9. PICK J2 : J2 = jobs'
  OBVIOUS
<1>10. \A n \in 1..NumChunks : n \in Slot
  BY <1>4, RankOfSlot
<1>11. \A k \in Slot : k \in Nat \ {0}
  BY <1>4, RankOfSlot
<1>12. ASSUME NEW k \in Slot
       PROVE  /\ k \in 1..NumChunks => J2[k] = ChunkOf(j, k)
              /\ k \notin 1..NumChunks => J2[k] = NULL
  BY <1>4, <1>8, <1>9, <1>11, PageNumbers
<1>13. ASSUME NEW n \in 1..NumChunks
       PROVE  /\ ChunkOf(j, n).kind = "chunk" /\ ChunkOf(j, n).page = s
              /\ ChunkOf(j, n).chunk = n /\ ChunkOf(j, n).plan = j.plan /\ ChunkOf(j, n) # NULL
  <2>1. j.plan \in Plan /\ s \in 0..Cardinality(Staged) /\ n \in 0..NumChunks
    BY <1>5, StagedCount, PageNumbers DEF Job
  <2>2. ChunkOf(j, n) \in Job
    BY <1>5, <2>1, NewJobType DEF ChunkOf, Job
  <2> QED
    BY <1>5, <2>1, <2>2, NewJobType, NullAssumption DEF ChunkOf, Job
<1>14. Pending(J2, s) = 1..NumChunks
  <2>1. ASSUME NEW n \in 1..NumChunks PROVE n \in Pending(J2, s)
    BY <1>10, <1>12, <1>13 DEF Pending
  <2>2. Pending(J2, s) \subseteq 1..NumChunks
    BY DEF Pending
  <2> QED
    BY <2>1, <2>2
<1>15. Cardinality(1..NumChunks) = NumChunks /\ 1..NumChunks # {}
  <2>1. 1 \in 1..NumChunks
    BY PageNumbers
  <2>2. NumChunks \in Int /\ 1 \in Int /\ ~(1 > NumChunks) /\ NumChunks - 1 + 1 = NumChunks
    BY PageNumbers
  <2>3. Cardinality(1..NumChunks) = NumChunks
    BY <2>2, FS_Interval
  <2> QED
    BY <2>1, <2>3
<1>16. PICK L2 : L2 = left'
  OBVIOUS
<1>17. L2[s] = Cardinality(Pending(J2, s)) /\ Pending(J2, s) # {}
  <2>1. L2[s] = NumChunks
    BY <1>1, <1>3, <1>5, <1>16 DEF PipelineInv
  <2> QED
    BY <1>14, <1>15, <2>1
<1>18. Persisting(cursor, staged, J2, L2, s)
  <2>1. \A k \in Slot : J2[k] # NULL => J2[k].kind = "chunk" /\ J2[k].page = s /\ J2[k].plan = j.plan
    BY <1>12, <1>13
  <2> QED
    BY <1>4, <1>5, <1>17, <2>1 DEF Persisting
<1> QED
  BY <1>1, <1>9, <1>16, <1>18 DEF Alive

\* The last chunk turns into the finalize job, any other one leaves others.
LEMMA PersistChunkAlive ==
    ASSUME PipelineInv, Alive(cursor, staged, jobs, left), NEW i \in Slot, PersistChunk(i),
           faults = 0, faults' = 0
    PROVE  Alive(cursor', staged', jobs', left')
<1>1. /\ jobs[i] # NULL /\ jobs[i].kind = "chunk" /\ UNCHANGED <<cursor, staged>>
  BY DEF PersistChunk, At, Active
<1>2. PICK j \in Job : j = jobs[i] /\ j.kind = "chunk" /\ ChunkJobOK(mirror, staged, j)
  BY <1>1, StepParts DEF JobOK
<1>3. PICK s \in Staged : s = j.page
  BY <1>2 DEF ChunkJobOK
<1>4. Persisting(cursor, staged, jobs, left, s)
  BY <1>1, <1>2, <1>3, OneOfChunks
<1>5. ~MayFault
  BY DEF MayFault
<1>6. /\ left' = [left EXCEPT ![s] = @ - 1]
      /\ jobs' = [jobs EXCEPT ![i] = IF left[s] = 1
                    THEN [NewJob("finalize") EXCEPT !.page = s, !.plan = j.plan] ELSE NULL]
  BY <1>2, <1>3, <1>5 DEF PersistChunk, Become
<1>7. /\ DOMAIN jobs = Slot /\ left \in [Staged -> 0..NumChunks]
      /\ j.chunk \in 1..NumChunks /\ j.chunk \in Pending(jobs, s)
  BY <1>1, <1>2, <1>3 DEF PipelineInv, JobsOK, ChunkJobOK, Pending
<1>8. PICK P : P = Pending(jobs, s)
  OBVIOUS
<1>9. IsFiniteSet(P) /\ left[s] = Cardinality(P) /\ j.chunk \in P /\ Fits(j.plan, cursor)
      /\ OnlyStaged(staged, s)
  <2>1. P \subseteq 1..NumChunks
    BY <1>8 DEF Pending
  <2> QED
    BY <1>1, <1>2, <1>4, <1>7, <1>8, <2>1, FiniteChunks DEF Persisting
<1>10. Cardinality(P \ {j.chunk}) = left[s] - 1 /\ IsFiniteSet(P \ {j.chunk})
  BY <1>9, FS_RemoveElement
<1>11. ASSUME NEW k \in Slot, k # i, jobs[k] # NULL
       PROVE  jobs[k].chunk # j.chunk /\ jobs[k].chunk \in P /\ jobs[k].kind = "chunk" /\ jobs[k].page = s
  <2>1. jobs[k].kind = "chunk" /\ jobs[k].page = s
    BY <1>4, <1>11 DEF Persisting
  <2>2. Apart(jobs[i], jobs[k])
    BY <1>1, <1>11 DEF PipelineInv, JobsOK
  <2>3. s # 0
    BY PageNumbers DEF Staged
  <2>4. JobOK(mirror, staged, jobs[k])
    BY <1>11, StepParts
  <2>5. jobs[k].chunk \in 1..NumChunks
    BY <2>1, <2>4 DEF JobOK, ChunkJobOK
  <2> QED
    BY <1>2, <1>3, <1>8, <1>11, <2>1, <2>2, <2>3, <2>5 DEF Apart, Pending
<1>12. CASE left[s] = 1
  <2>1. P \ {j.chunk} = {}
    BY <1>10, <1>12, FS_EmptySet
  <2>2. \A k \in Slot : k # i => jobs[k] = NULL
    BY <1>11, <2>1
  <2>3. PICK x : x = [NewJob("finalize") EXCEPT !.page = s, !.plan = j.plan]
    OBVIOUS
  <2>4. x \in Job /\ x.kind = "finalize" /\ x.pc = "start" /\ x.page = s /\ x.plan = j.plan
    BY <2>3, NewJobType, StagedCount DEF Job
  <2>5. JobAlive(cursor, staged, x) /\ x # NULL
    BY <1>9, <2>4, NullAssumption DEF JobAlive, FinalizeAlive
  <2>6. jobs'[i] = x /\ \A k \in Slot : k # i => jobs'[k] = NULL
    BY <1>6, <1>7, <1>12, <2>2, <2>3
  <2>7. Sole(cursor', staged', jobs', i)
    BY <1>1, <2>4, <2>5, <2>6 DEF Sole
  <2> QED
    BY <2>7 DEF Alive
<1>13. CASE left[s] # 1
  <2>1. PICK J2 : J2 = jobs'
    OBVIOUS
  <2>2. J2[i] = NULL /\ \A k \in Slot : k # i => J2[k] = jobs[k]
    BY <1>6, <1>7, <1>13, <2>1
  <2>3. Pending(J2, s) = P \ {j.chunk}
    <3>1. ASSUME NEW n \in Pending(J2, s) PROVE n \in P /\ n # j.chunk
      <4>1. PICK k \in Slot : J2[k] # NULL /\ J2[k].kind = "chunk" /\ J2[k].page = s /\ J2[k].chunk = n
        BY <3>1 DEF Pending
      <4> QED
        BY <1>11, <2>2, <4>1
    <3>2. ASSUME NEW n \in P, n # j.chunk PROVE n \in Pending(J2, s)
      <4>1. PICK k \in Slot : jobs[k] # NULL /\ jobs[k].kind = "chunk" /\ jobs[k].page = s /\ jobs[k].chunk = n
        BY <1>8, <3>2 DEF Pending
      <4>2. k # i /\ n \in 1..NumChunks
        BY <1>2, <1>8, <3>2, <4>1 DEF Pending
      <4> QED
        BY <2>2, <4>1, <4>2 DEF Pending
    <3> QED
      BY <3>1, <3>2
  <2>4. PICK L2 : L2 = left'
    OBVIOUS
  <2>5. L2[s] = Cardinality(Pending(J2, s)) /\ Pending(J2, s) # {}
    <3>1. left[s] \in Nat
      BY <1>7
    <3>2. L2[s] = left[s] - 1 /\ left[s] - 1 # 0
      BY <1>6, <1>7, <1>13, <2>4, <3>1
    <3> QED
      BY <1>10, <2>3, <3>2, FS_EmptySet
  <2>6. Persisting(cursor, staged, J2, L2, s)
    BY <1>4, <1>9, <2>2, <2>5 DEF Persisting
  <2> QED
    BY <1>1, <2>1, <2>4, <2>6 DEF Alive
<1> QED
  BY <1>12, <1>13

LEMMA FinalizeBeginAlive ==
    ASSUME PipelineInv, Alive(cursor, staged, jobs, left), NEW i \in Slot, FinalizeBegin(i)
    PROVE  Alive(cursor', staged', jobs', left')
<1>1. /\ jobs[i] # NULL /\ jobs[i].pc = "start" /\ jobs[i].kind = "finalize"
      /\ UNCHANGED <<cursor, staged, left>>
  BY DEF FinalizeBegin, At, Active
<1>2. PICK j \in Job : j = jobs[i]
  BY <1>1, SoleParts
<1>3. OnlyStaged(staged, j.page) /\ Fits(j.plan, cursor) /\ DOMAIN jobs = Slot
  BY <1>1, <1>2, SoleParts DEF JobAlive, FinalizeAlive
<1>4. PICK pc \in {"unstage", "read"} : pc = IF j.plan.patch = NoPatch THEN "unstage" ELSE "read"
  OBVIOUS
<1> DEFINE x == [j EXCEPT !.patch = j.plan.patch, !.after = "unstage", !.pc = pc]
<1>5. jobs' = [jobs EXCEPT ![i] = x]
  BY <1>2, <1>3, <1>4 DEF FinalizeBegin
<1>6. /\ x \in Job /\ x.kind = "finalize" /\ x.pc = pc /\ x.patch = j.plan.patch
      /\ x.plan = j.plan /\ x.page = j.page
  <2>1. j.plan.patch \in Patch
    BY DEF Job, Plan
  <2> QED
    BY <1>1, <1>2, <2>1 DEF Job
<1> HIDE DEF x
<1>7. pc = "unstage" => Fitted(x.plan, cursor)
  <2>1. ~Settles(NoPatch)
    BY DEF Settles, NoPatch
  <2> QED
    BY <1>3, <1>4, <1>6, <2>1 DEF Fits, Fitted
<1>8. JobAlive(cursor, staged, x)
  BY <1>3, <1>6, <1>7 DEF JobAlive, FinalizeAlive
<1> QED
  BY <1>1, <1>5, <1>6, <1>8, StepAlive

LEMMA FinalizeUnstageAlive ==
    ASSUME PipelineInv, Alive(cursor, staged, jobs, left), NEW i \in Slot, FinalizeUnstage(i),
           faults = 0, faults' = 0
    PROVE  Alive(cursor', staged', jobs', left')
<1>1. /\ jobs[i] # NULL /\ jobs[i].pc = "unstage" /\ UNCHANGED <<cursor, left>>
      /\ jobs' = [jobs EXCEPT ![i].pc = "next"]
  BY DEF FinalizeUnstage, At, Active
<1>2. jobs[i].kind = "finalize"
  BY <1>1, StepParts, KindAt
<1>3. PICK j \in Job : j = jobs[i]
  BY <1>1, <1>2, SoleParts
<1>4. OnlyStaged(staged, j.page) /\ Fitted(j.plan, cursor) /\ DOMAIN jobs = Slot
  BY <1>1, <1>2, <1>3, SoleParts DEF JobAlive, FinalizeAlive
<1>5. staged' = [s \in Staged |-> IF s = j.page THEN NULL ELSE staged[s]]
  BY <1>3 DEF FinalizeUnstage, MayFault
<1>6. OnlyStaged(staged', 0)
  BY <1>4, <1>5 DEF OnlyStaged
<1> DEFINE x == [j EXCEPT !.pc = "next"]
<1>7. jobs' = [jobs EXCEPT ![i] = x]
  BY <1>1, <1>3, <1>4
<1>8. x \in Job /\ x.kind = "finalize" /\ x.pc = "next" /\ x.plan = j.plan
  BY <1>2, <1>3 DEF Job
<1> HIDE DEF x
<1>9. JobAlive(cursor', staged', x)
  BY <1>1, <1>4, <1>6, <1>8 DEF JobAlive, FinalizeAlive
<1> QED
  BY <1>1, <1>2, <1>7, <1>8, <1>9, StepAlive

LEMMA FinalizeNextAlive ==
    ASSUME PipelineInv, Alive(cursor, staged, jobs, left), NEW i \in Slot, FinalizeNext(i),
           faults = 0, faults' = 0
    PROVE  Alive(cursor', staged', jobs', left')
<1>1. jobs[i] # NULL /\ jobs[i].pc = "next" /\ UNCHANGED <<cursor, staged, left>>
  BY DEF FinalizeNext, At, Active
<1>2. jobs[i].kind = "finalize"
  BY <1>1, StepParts, KindAt
<1>3. PICK j \in Job : j = jobs[i]
  BY <1>1, <1>2, SoleParts
<1>4. OnlyStaged(staged, 0) /\ Fitted(j.plan, cursor)
  BY <1>1, <1>2, <1>3, SoleParts DEF JobAlive, FinalizeAlive
<1>5. PICK f : f = j.plan.next
  OBVIOUS
<1>6. CASE f = NULL
  <2>1. EndWithout(i) /\ Calm(cursor') /\ OnlyStaged(staged', 0)
    BY <1>1, <1>3, <1>4, <1>5, <1>6 DEF FinalizeNext, Fitted, Carries
  <2> QED
    BY <1>1, <1>2, <2>1, OutAlive
<1>7. CASE f # NULL
  <2>1. f \in Fetch
    BY <1>5, <1>7 DEF Job, Plan
  <2>2. PICK x : x = [NewJob("fetch") EXCEPT !.args = f]
    OBVIOUS
  <2>3. x \in Job /\ x.kind = "fetch" /\ x.pc = "start" /\ x.args = f
    BY <2>1, <2>2, NewJobType DEF Job
  <2>4. EndWith(i, x)
    BY <1>3, <1>5, <1>7, <2>2 DEF FinalizeNext
  <2>5. JobAlive(cursor', staged', x)
    BY <1>1, <1>4, <1>5, <2>3 DEF JobAlive, FetchAlive, Fitted, Carries
  <2> QED
    BY <1>1, <1>2, <2>3, <2>4, <2>5, InAlive
<1> QED
  BY <1>6, <1>7

LEMMA TickAlive ==
    ASSUME PipelineInv, Alive(cursor, staged, jobs, left), Tick
    PROVE  Alive(cursor', staged', jobs', left')
<1>1. UNCHANGED <<staged, left>> /\ cursor' = [cursor EXCEPT !.fin = Older(@)]
  BY DEF Tick
<1>2. PICK J2 : J2 = jobs'
  OBVIOUS
<1>3. PICK c2 : c2 = cursor'
  OBVIOUS
<1>4. c2.inProg = cursor.inProg /\ c2.url = cursor.url /\ (Calm(cursor) <=> Calm(c2))
      /\ cursor \in Cursor
  <2>1. cursor \in Cursor
    BY DEF PipelineInv, CursorOK
  <2>2. c2.inProg = cursor.inProg /\ c2.url = cursor.url
    BY <1>1, <1>3, <2>1 DEF Cursor
  <2> QED
    BY <2>1, <2>2 DEF Calm, ReplicationChainActive
<1>5. ASSUME NEW i \in Slot, jobs[i] = NULL PROVE J2[i] = NULL
  BY <1>2, <1>5 DEF Tick, Active
<1>6. ASSUME NEW i \in Slot, jobs[i] # NULL
      PROVE  /\ J2[i] # NULL /\ J2[i].kind = jobs[i].kind /\ J2[i].page = jobs[i].page
             /\ J2[i].chunk = jobs[i].chunk /\ J2[i].plan = jobs[i].plan
             /\ J2[i].pc = jobs[i].pc /\ J2[i].args = jobs[i].args /\ J2[i].after = jobs[i].after
             /\ J2[i].patch = jobs[i].patch
             /\ SameLink(jobs[i].snap, cursor) => SameLink(J2[i].snap, c2)
  <2>1. PICK j \in Job : j = jobs[i]
    BY <1>6, StepParts DEF JobOK
  <2>2. J2[i] = IF j.snap # NULL THEN [j EXCEPT !.snap.fin = Older(@)] ELSE j
    BY <1>2, <1>6, <2>1 DEF Tick, Active
  <2>3. CASE j.snap = NULL
    BY <1>6, <2>1, <2>2, <2>3 DEF SameLink
  <2>4. CASE j.snap # NULL
    <3>1. j.snap \in Cursor
      BY <2>4 DEF Job
    <3>2. PICK sn : sn = [j.snap EXCEPT !.fin = Older(@)]
      OBVIOUS
    <3>3. sn.inProg = j.snap.inProg /\ sn.url = j.snap.url /\ sn \in Cursor
      <4>1. Older(j.snap.fin) \in Age \cup {NULL}
        BY <3>1, PageNumbers DEF Cursor, Age, Older
      <4> QED
        BY <3>1, <3>2, <4>1 DEF Cursor
    <3>4. J2[i] = [j EXCEPT !.snap = sn]
      BY <2>2, <2>4, <3>2
    <3>5. J2[i] \in Job /\ J2[i].snap = sn
      BY <3>3, <3>4 DEF Job
    <3>6. /\ J2[i].kind = j.kind /\ J2[i].page = j.page
          /\ J2[i].chunk = j.chunk /\ J2[i].plan = j.plan
          /\ J2[i].pc = j.pc /\ J2[i].args = j.args /\ J2[i].after = j.after
          /\ J2[i].patch = j.patch
      BY <3>4 DEF Job
    <3>7. SameLink(j.snap, cursor) => SameLink(sn, c2)
      BY <1>4, <3>3, NullAssumption DEF SameLink
    <3>8. J2[i] # NULL
      BY <3>5, NullAssumption
    <3> QED
      BY <2>1, <3>5, <3>6, <3>7, <3>8
  <2> QED
    BY <2>3, <2>4
<1>7. \A pl : (Fits(pl, cursor) => Fits(pl, c2)) /\ (Fitted(pl, cursor) => Fitted(pl, c2))
  BY <1>4 DEF Fits, Fitted
<1>8. CASE Resting(cursor, staged, jobs)
  BY <1>1, <1>2, <1>3, <1>4, <1>5, <1>8 DEF Resting, Alive
<1>9. ASSUME NEW i \in Slot, Sole(cursor, staged, jobs, i) PROVE Sole(c2, staged, J2, i)
  <2>1. jobs[i] # NULL /\ jobs[i].kind # "chunk" /\ JobAlive(cursor, staged, jobs[i])
        /\ \A k \in Slot : k # i => J2[k] = NULL
    BY <1>5, <1>9 DEF Sole
  <2>2. JobAlive(c2, staged, J2[i])
    <3>1. PICK x : x = J2[i]
      OBVIOUS
    <3>2. jobs[i].kind = "fetch" => FetchAlive(c2, staged, x)
      BY <1>4, <1>6, <1>7, <2>1, <3>1 DEF JobAlive, FetchAlive
    <3>3. jobs[i].kind = "finalize" => FinalizeAlive(c2, staged, x)
      BY <1>4, <1>6, <1>7, <2>1, <3>1 DEF JobAlive, FinalizeAlive
    <3> QED
      BY <1>4, <1>6, <2>1, <3>1, <3>2, <3>3 DEF JobAlive
  <2> QED
    BY <1>6, <2>1, <2>2 DEF Sole
<1>10. ASSUME NEW s \in Staged, Persisting(cursor, staged, jobs, left, s)
       PROVE  Persisting(c2, staged, J2, left, s)
  <2>1. Pending(J2, s) = Pending(jobs, s)
    <3>1. ASSUME NEW n \in Pending(J2, s) PROVE n \in Pending(jobs, s)
      BY <1>5, <1>6, <3>1 DEF Pending
    <3>2. ASSUME NEW n \in Pending(jobs, s) PROVE n \in Pending(J2, s)
      BY <1>5, <1>6, <3>2 DEF Pending
    <3> QED
      BY <3>1, <3>2
  <2>2. \A k \in Slot : J2[k] # NULL =>
           jobs[k] # NULL /\ J2[k].kind = jobs[k].kind /\ J2[k].page = jobs[k].page
           /\ J2[k].plan = jobs[k].plan
    BY <1>5, <1>6
  <2> QED
    BY <1>7, <1>10, <2>1, <2>2 DEF Persisting
<1> QED
  BY <1>1, <1>2, <1>3, <1>8, <1>9, <1>10 DEF Alive

-----------------------------------------------------------------------------

\* Mishaps are counted and never forgotten.
LEMMA StaysUnharmed ==
    ASSUME PipelineInv, [Next]_vars, Unharmed'
    PROVE  Unharmed
<1>1. faults \in Nat /\ overlaps \in Nat
  BY DEF PipelineInv
<1>2. MayFault => faults' = faults + 1
  BY DEF MayFault
<1>3. CASE KickoffBegin
  BY <1>1, <1>3 DEF KickoffBegin, Unharmed
<1>4. ASSUME NEW i \in Slot, Step(i) \/ FetchForbidden(i) \/ Fault(i)
      PROVE  (faults' = faults \/ faults' = faults + 1) /\ overlaps' = overlaps
  <2>1. EndWithout(i) => faults' = faults \/ faults' = faults + 1
    BY <1>2 DEF EndWithout, End
  <2>2. \A x : EndWith(i, x) => faults' = faults \/ faults' = faults + 1
    BY <1>2 DEF EndWith, End
  <2>3. EnqueueBatch(i) => faults' = faults \/ faults' = faults + 1
    BY <1>2 DEF EnqueueBatch, End
  <2>4. PersistChunk(i) => faults' = faults \/ faults' = faults + 1
    BY <1>2 DEF PersistChunk
  <2>5. PatchWrite(i) \/ FetchBegin(i) \/ FetchSkip(i) \/ DispatchEmpty(i) \/ FinalizeNext(i)
          \/ FinalizeUnstage(i) \/ FetchForbidden(i) \/ Fault(i)
        => faults' = faults \/ faults' = faults + 1
    BY <1>2, <2>1, <2>2, Zenon DEF PatchWrite, FetchBegin, FetchSkip, DispatchEmpty, FinalizeNext,
       FinalizeUnstage, FetchForbidden, Fault
  <2>6. overlaps' = overlaps
    BY <1>4, Zenon DEF Step, PatchRead, PatchWrite, KickoffDecide, FetchBegin, FetchSkip, FetchReplication,
       FetchPaged, DispatchEmpty, StorePage, EnqueueBatch, PersistChunk, FinalizeBegin,
       FinalizeUnstage, FinalizeNext, FetchForbidden, Fault
  <2> QED
    BY <1>4, <2>3, <2>4, <2>5, <2>6, Zenon DEF Step, PatchRead, KickoffDecide, FetchReplication,
       FetchPaged, StorePage, FinalizeBegin
<1>5. CASE Tick
  BY <1>5 DEF Tick, Unharmed
<1>6. CASE UNCHANGED vars
  BY <1>6 DEF vars, Unharmed
<1>7. ASSUME NEW i \in Slot, Step(i) \/ FetchForbidden(i) \/ Fault(i) PROVE Unharmed
  BY <1>1, <1>4, <1>7 DEF Unharmed
<1> QED
  BY <1>3, <1>5, <1>6, <1>7 DEF Next

LEMMA InitAlive == Init => AliveInv
<1> SUFFICES ASSUME Init PROVE AliveInv
  OBVIOUS
<1>1. Resting(cursor, staged, jobs)
  BY DEF Init, Resting, Calm, ReplicationChainActive, OnlyStaged
<1> QED
  BY <1>1, InitPipeline DEF AliveInv, Alive

LEMMA NextAlive ==
    ASSUME MaxChain = 0
    PROVE  AliveInv /\ [Next]_vars => AliveInv'
<1> SUFFICES ASSUME AliveInv, [Next]_vars PROVE AliveInv'
  OBVIOUS
<1>1. PipelineInv /\ PipelineInv'
  BY NextPipeline DEF AliveInv
<1>2. SUFFICES ASSUME Unharmed' PROVE Alive(cursor', staged', jobs', left')
  BY <1>1 DEF AliveInv
<1>3. Unharmed
  BY <1>1, <1>2, StaysUnharmed
<1>4. /\ faults = 0 /\ overlaps = 0 /\ faults' = 0 /\ overlaps' = 0
      /\ Alive(cursor, staged, jobs, left) /\ ~MayFault
  BY <1>2, <1>3 DEF Unharmed, AliveInv, MayFault
<1>5. CASE KickoffBegin
  BY <1>1, <1>4, <1>5, KickoffBeginAlive
<1>6. ASSUME NEW i \in Slot, Step(i) \/ FetchForbidden(i) \/ Fault(i)
      PROVE  Alive(cursor', staged', jobs', left')
  <2>1. Step(i)
    BY <1>4, <1>6 DEF FetchForbidden, Fault
  <2> QED
    BY <1>1, <1>4, <2>1, PatchReadAlive, PatchWriteAlive, KickoffDecideAlive, FetchBeginAlive,
       FetchSkipAlive, FetchReplicationAlive, FetchPagedAlive, DispatchEmptyAlive,
       StorePageAlive, EnqueueBatchAlive, PersistChunkAlive, FinalizeBeginAlive,
       FinalizeUnstageAlive, FinalizeNextAlive, Zenon DEF Step
<1>7. CASE Tick
  BY <1>1, <1>4, <1>7, TickAlive
<1>8. CASE UNCHANGED vars
  BY <1>4, <1>8 DEF vars
<1> QED
  BY <1>5, <1>6, <1>7, <1>8 DEF Next

(***************************************************************************)
(* THEOREM.  With no chain cap, a chain is never left behind: as long as   *)
(* nothing has failed and no kickoffs overlap, a cursor that says a chain  *)
(* is active, or a staged page, has a job in the queue or in a handler.    *)
(* Kickoff relies on it, since it leaves such a dataset alone              *)
(* (dispatchDataset, skipReplicationFetchWhenPageActive, finalize).        *)
(***************************************************************************)
THEOREM ChainsAreCarried ==
    ASSUME MaxChain = 0
    PROVE  Spec => []ChainAlive
<1>1. AliveInv => ChainAlive
  <2> SUFFICES ASSUME AliveInv, Unharmed, Active = {} PROVE ~ChainActive
    BY DEF ChainAlive, Unharmed
  <2>1. \A i \in Slot : jobs[i] = NULL
    BY DEF Active
  <2>2. Resting(cursor, staged, jobs)
    BY <2>1 DEF AliveInv, Alive, Sole, Persisting, Pending
  <2> QED
    BY <2>2, PageNumbers DEF Resting, Calm, OnlyStaged, ChainActive, HasActivePage, Staged
<1>2. Init => AliveInv
  BY InitAlive
<1>3. AliveInv /\ [Next]_vars => AliveInv'
  BY NextAlive
<1> QED
  BY <1>1, <1>2, <1>3, PTL DEF Spec
=============================================================================
